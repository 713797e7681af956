------------------------------ MODULE Iteration ------------------------------
(***************************************************************************)
(* HashTable::Iterator (internal/hash_table.h): begin(), ++, end(), loops  *)
(* that erase as they go, and erase(first, last), whose loop is the same.  *)
(*                                                                         *)
(* An iterator is <<bucket, index>>; a loop holds `it` and the iterator    *)
(* `last` it runs up to.  While it runs the callers may erase elements but *)
(* not insert or rehash, which invalidate iterators (graveyard_set.h).     *)
(* MapLoops.tla says which calls there are beside the loops.               *)
(***************************************************************************)
EXTENDS HashTableProperties

VARIABLES
  loop,      \* "none", "visit" for a loop of the callers, "erase" for erase(first, last)
  it, last,  \* iterators, None outside of loops
  visited,   \* keys the loop has been at
  expected,  \* keys in the range of the loop that nobody else has erased
  outside    \* the other keys

None == <<>>
loopVars == <<loop, it, last, visited, expected, outside>>

End == <<Physical, 0>>

\* Mutant: the bucket is left out that follows the one of the iterator.
BucketAfterNext(b, c) == b + 1 < c

\* The loop of SkipEmpty() looks into the buckets after that of the iterator.
BucketAfter(b, c) == b < c

\* Mutant: the mask for the slots from i on is left out.
AnyIndex(b, i) == FindNonEmpties(buckets_[b])

FromIndex(b, i) == {s \in FindNonEmpties(buckets_[b]) : i <= s}

\* SkipEmpty() from index i, which may be kSlotsPerBucket, of bucket b
SkipEmpty(b, i) ==
  LET sentinel == CHOOSE c \in Least({d \in b .. Physical - 1 :
                     buckets_[d].search_distance = kSearchDistanceEndSentinal}) : TRUE
      ahead == {c \in DOMAIN buckets_ : /\ BucketAfter(b, c)
                                        /\ c <= sentinel
                                        /\ FindNonEmpties(buckets_[c]) # {}}
  IN  IF FromIndex(b, i) # {} THEN <<b, CHOOSE s \in Least(FromIndex(b, i)) : TRUE>>
      ELSE IF ahead = {} THEN <<sentinel + 1, 0>>
      ELSE LET c == CHOOSE d \in Least(ahead) : TRUE
           IN  <<c, CHOOSE s \in Least(FindNonEmpties(buckets_[c])) : TRUE>>

\* begin(): the end iterator for a table without buckets
BeginIterator == IF logical_size_ = 0 THEN End ELSE SkipEmpty(0, 0)

\* Mutant: the search goes on in the next bucket.
NextInNextBucket(p) == SkipEmpty(p[1], kSlotsPerBucket)

\* ++it
NextIterator(p) == SkipEmpty(p[1], p[2] + 1)

KeyAt(p) == KeyOf[ValueAt(buckets_, p)]

Before(p, q) == p[1] < q[1] \/ (p[1] = q[1] /\ p[2] < q[2])

-----------------------------------------------------------------------------
StartLoop(kind, first, end) ==
  /\ loop' = kind
  /\ it' = first /\ last' = end
  /\ visited' = {}
  /\ LET inRange == {p \in Occupied(buckets_) : ~Before(p, first) /\ Before(p, end)}
     IN  /\ expected' = {KeyAt(p) : p \in inRange}
         /\ outside' = {KeyAt(p) : p \in Occupied(buckets_) \ inRange}
  /\ UNCHANGED vars

\* for (it = begin(); it != end(); ...)
StartVisit == StartLoop("visit", BeginIterator, End)

\* erase(first, last) for iterators first and last in this order
StartEraseRange(first, end) ==
  /\ ~Before(end, first)
  /\ StartLoop("erase", first, end)

\* erase(range.first, range.second) of range = equal_range(key)
StartEraseEqual(key) ==
  \/ Find(key) = {} /\ StartLoop("erase", End, End)
  \/ \E p \in Find(key) : StartLoop("erase", p, NextIterator(p))

\* The body of the loop: *it, or the erase that asserts a nonempty slot.
Running == loop # "none" /\ it # last /\ it \in Occupied(buckets_)

\* ++it
Advance ==
  /\ Running /\ loop = "visit"
  /\ visited' = visited \cup {KeyAt(it)}
  /\ it' = NextIterator(it)
  /\ UNCHANGED <<vars, loop, last, expected, outside>>

\* The it++ of erase(it++)
IncrementBeforeErase == NextIterator(it)

\* erase(it++)
EraseAndAdvance ==
  /\ Running
  /\ visited' = visited \cup {KeyAt(it)}
  /\ it' = IncrementBeforeErase
  /\ EraseAt(it)
  /\ UNCHANGED <<hasher, pc, call, result, scan, target, loop, last, expected, outside>>

\* The callers erase an element the loop is not at.
EraseMeanwhile(key) ==
  /\ loop = "visit"
  /\ \A p \in {it} \cap Occupied(buckets_) : KeyAt(p) # key
  /\ EraseKey(key)
  /\ expected' = {k \in expected : k # key \/ k \in visited}
  /\ UNCHANGED <<loop, it, last, visited, outside>>

EndLoop ==
  /\ loop # "none" /\ it = last
  /\ loop' = "none"
  /\ it' = None /\ last' = None
  /\ visited' = {} /\ expected' = {} /\ outside' = {}
  /\ UNCHANGED vars

LoopInit ==
  /\ loop = "none" /\ it = None /\ last = None
  /\ visited = {} /\ expected = {} /\ outside = {}

\* What a loop does without waiting for a caller
LoopStep == Advance \/ EraseAndAdvance \/ EndLoop

Start ==
  \/ StartVisit
  \/ \E first, end \in Occupied(buckets_) \cup {End} : StartEraseRange(first, end)
  \/ \E key \in Keys : StartEraseEqual(key)

-----------------------------------------------------------------------------
(* Properties *)

\* A loop that ends has been at the key of every element of its range that
\* nobody erased before it came there, and at nothing else.
VisitsAll == loop # "none" /\ it = last => visited = expected

\* erase(first, last) takes away the elements of the range, no others, and
\* those of equal_range(key) are those with the key.
RangeErased ==
  loop = "erase" /\ it = last =>
    {KeyAt(p) : p \in Occupied(buckets_)} = outside

\* Every loop ends, however erases and steps alternate.
LoopEnds == loop # "none" ~> loop = "none"
=============================================================================
