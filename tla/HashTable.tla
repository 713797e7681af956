------------------------------ MODULE HashTable ------------------------------
(***************************************************************************)
(* One yobiduck::internal::HashTable (internal/hash_table.h): the single   *)
(* table behind GraveyardSet and GraveyardMap.                             *)
(*                                                                         *)
(* A call that does not rehash is one step.  A call that does becomes a    *)
(* sequence of steps: the request allocates the new bucket array, then     *)
(* RehashOrCopyFrom<true> runs bucket by bucket and element by element,    *)
(* and an insert ends with PlaceValue.  The local variables of             *)
(* RehashOrCopyFrom are variables of the specification.                    *)
(*                                                                         *)
(* A failed assert() ends the program: pc = "aborted".                     *)
(***************************************************************************)
EXTENDS Buckets

CONSTANTS
  ReserveCounts,   \* arguments callers give reserve()
  RehashCounts,    \* arguments callers give rehash()
  AnyRehashCount   \* FALSE: callers only rehash() to a count that is Adequate

ASSUME CountsAssumption ==
  /\ ReserveCounts \subseteq Nat
  /\ RehashCounts \subseteq Nat
  /\ AnyRehashCount \in BOOLEAN

VARIABLES
  \* the members of the table
  hasher,          \* HasherHolder, fixed by the constructor
  size_,
  logical_size_,   \* buckets_.logical_size_
  buckets_,        \* buckets_.data_
  \* the call in progress
  pc,
  call,            \* [op, value, count] of the call, Idle between calls
  result,          \* what the last call returned
  \* the locals of rehash_internal and RehashOrCopyFrom
  source_logical_size, source,      \* the old buckets, named `buckets` there
  heap,                             \* DisorderedItems
  disordered_bucket,
  bucket_number, slot_number,       \* the position the scan has reached
  insert_bucket, insert_slot        \* where the next ascending insert goes

table == <<size_, logical_size_, buckets_>>
scan == <<source_logical_size, source, heap, disordered_bucket, bucket_number,
          slot_number>>
target == <<insert_bucket, insert_slot>>
vars == <<hasher, table, pc, call, result, scan, target>>

Idle == [op |-> "idle", value |-> NoValue, count |-> 0]

HashOf(value) == hasher[KeyOf[value]]

Physical == PhysicalSize(logical_size_)
SourcePhysical == PhysicalSize(source_logical_size)

\* Mutant: the offset itself instead of the number of buckets to look in.
DistanceOfOffset(i) == i % (kSearchDistanceEndSentinal + 1)

\* Mutant: one bucket more than needed.
DistancePastOffset(i) == (i + 2) % (kSearchDistanceEndSentinal + 1)

\* The search distance that reaches offset i, as the uint8_t maxf() takes.
DistanceTo(i) == (i + 1) % (kSearchDistanceEndSentinal + 1)

\* Mutant: the search distance is set instead of raised.
StoreValueSets(buckets, preferred, b, s, meta_byte, value) ==
  [buckets EXCEPT ![b].h2[s] = meta_byte,
                  ![b].slots[s] = value,
                  ![preferred].search_distance = DistanceTo(b - preferred)]

\* A value whose preferred bucket is `preferred` goes into slot s of bucket b:
\* its meta byte is set, the search distance raised, the object constructed.
StoreValue(buckets, preferred, b, s, meta_byte, value) ==
  [buckets EXCEPT ![b].h2[s] = meta_byte,
                  ![b].slots[s] = value,
                  ![preferred].search_distance = MaxOf(@, DistanceTo(b - preferred))]

-----------------------------------------------------------------------------
(* Helpers of the calls *)

Abort ==
  /\ pc' = "aborted"
  /\ UNCHANGED <<table, result, scan, target>>

Return(value) ==
  /\ pc' = "idle"
  /\ call' = Idle
  /\ result' = value

\* rehash_internal(slot_count) up to the loop of RehashOrCopyFrom.
StartRehash(slot_count) ==
  LET slots == IF slot_count = 0 THEN FullSlots(size_) ELSE slot_count
      logical_size == Ceil(slots, kSlotsPerBucket)
  IN  IF logical_size \notin 1 .. MaxLogicalSize
      THEN Abort
      ELSE /\ pc' = "collect"
           /\ size_' = 0
           /\ logical_size_' = logical_size
           /\ buckets_' = InitBuckets(NewBuckets(logical_size), 0, 0)
           /\ source_logical_size' = logical_size_
           /\ source' = buckets_
           /\ heap' = {}
           /\ disordered_bucket' = 0
           /\ bucket_number' = 0
           /\ slot_number' = 0
           /\ insert_bucket' = 0
           /\ insert_slot' = 0
           /\ UNCHANGED result

\* Where a key is found among the `distance` buckets from its preferred one.
Matches(key, distance) ==
  LET h1 == H1(hasher[key], logical_size_)
  IN  {p \in (h1 .. h1 + distance - 1) \X SlotNumber :
         /\ p[1] < Physical
         /\ p[2] \in FindElement(buckets_[p[1]], H2(hasher[key]), key)}

\* A lookup returns the first match: {} or a singleton.
First(positions) ==
  {p \in positions : \A q \in positions : \/ p[1] < q[1]
                                          \/ p[1] = q[1] /\ p[2] <= q[2]}

\* The loop of a lookup indexes past the end of the buckets (an assert).
Overruns(key, distance) ==
  /\ Matches(key, distance) = {}
  /\ H1(hasher[key], logical_size_) + distance > Physical

SearchDistance(key) == buckets_[H1(hasher[key], logical_size_)].search_distance

\* Mutant: the loop stops one bucket early.
FindDistanceShort(key) == MaxOf(1, SearchDistance(key) - 1)

\* find() is a do loop: it looks in one bucket even if the distance is 0.
FindDistance(key) == MaxOf(1, SearchDistance(key))

\* The position that find(key) returns, {} for end().
Find(key) == IF size_ = 0 THEN {} ELSE First(Matches(key, FindDistance(key)))

\* Mutant: erase() without Destroy().
EraseAtLeaks(p) ==
  /\ buckets_' = [buckets_ EXCEPT ![p[1]].h2[p[2]] = kEmpty]
  /\ size_' = size_ - 1
  /\ UNCHANGED logical_size_

\* Mutant: erase() without --size_.
EraseAtKeepsSize(p) ==
  /\ buckets_' = [buckets_ EXCEPT ![p[1]].h2[p[2]] = kEmpty,
                                  ![p[1]].slots[p[2]] = NoValue]
  /\ UNCHANGED <<size_, logical_size_>>

\* Mutant: erase() closes the gap within the bucket.
EraseAtPacks(p) ==
  LET bucket == buckets_[p[1]]
      pull(f, none) == [s \in SlotNumber |-> IF s < p[2] THEN f[s]
                          ELSE IF s + 1 \in SlotNumber THEN f[s + 1] ELSE none]
  IN  /\ buckets_' = [buckets_ EXCEPT ![p[1]].h2 = pull(bucket.h2, kEmpty),
                                      ![p[1]].slots = pull(bucket.slots, NoValue)]
      /\ size_' = size_ - 1
      /\ UNCHANGED logical_size_

\* erase(const_iterator): the slot is emptied and destroyed, nothing moves.
EraseAt(p) ==
  /\ size_ > 0
  /\ buckets_' = [buckets_ EXCEPT ![p[1]].h2[p[2]] = kEmpty,
                                  ![p[1]].slots[p[2]] = NoValue]
  /\ size_' = size_ - 1
  /\ UNCHANGED logical_size_

-----------------------------------------------------------------------------
(* The calls *)

\* insert(), emplace(): PrepareInsert grows the table before it looks for the
\* key.  PlaceValue does the rest.
Insert(value) ==
  /\ pc = "idle"
  /\ call' = [op |-> "insert", value |-> value, count |-> 0]
  /\ IF NeedsRehash(logical_size_, size_ + 1)
     THEN StartRehash(RehashedSlots(size_ + 1))
     ELSE /\ pc' = "insert"
          /\ UNCHANGED <<table, result, scan, target>>
  /\ UNCHANGED hasher

\* The buckets at or after `preferred` in which PrepareInsert can put a new
\* value: its loop asserts i < kSearchDistanceEndSentinal and stays in range.
OpenOffsets(preferred) ==
  {i \in 0 .. kSearchDistanceEndSentinal - 1 :
     /\ preferred + i < Physical
     /\ FindEmpties(buckets_[preferred + i]) # {}}

\* PrepareInsert after the rehash, then Store.
PlaceValue ==
  LET value == call.value
      key == KeyOf[value]
      preferred == H1(HashOf(value), logical_size_)
      distance == SearchDistance(key)
  IN  /\ pc = "insert"
      /\ \/ /\ Matches(key, distance) # {}
            /\ Return("present")
            /\ UNCHANGED table
         \/ /\ Matches(key, distance) = {}
            /\ ~Overruns(key, distance)
            /\ \E i \in Least(OpenOffsets(preferred)) :
                 \E s \in Least(FindEmpties(buckets_[preferred + i])) :
                   buckets_' = StoreValue(buckets_, preferred, preferred + i, s,
                                          SetUnorderedValue(H2(HashOf(value))), value)
            /\ size_' = size_ + 1
            /\ Return("inserted")
            /\ UNCHANGED logical_size_
         \/ /\ Matches(key, distance) = {}
            /\ Overruns(key, distance) \/ OpenOffsets(preferred) = {}
            /\ pc' = "aborted"
            /\ UNCHANGED <<call, result, table>>
      /\ UNCHANGED <<hasher, scan, target>>

\* erase(key)
EraseKey(key) ==
  /\ pc = "idle"
  /\ \/ /\ size_ # 0 /\ Overruns(key, FindDistance(key))
        /\ pc' = "aborted"
        /\ UNCHANGED <<table, call, result>>
     \/ /\ ~(size_ # 0 /\ Overruns(key, FindDistance(key)))
        /\ Find(key) = {}
        /\ Return("absent")
        /\ UNCHANGED table
     \/ \E p \in Find(key) : EraseAt(p) /\ Return("erased")
  /\ UNCHANGED <<hasher, scan, target>>

\* erase(iterator) on an iterator to a stored value
EraseIterator(p) ==
  /\ pc = "idle"
  /\ p[1] < Physical /\ p[2] \in FindNonEmpties(buckets_[p[1]])
  /\ EraseAt(p)
  /\ Return("erased")
  /\ UNCHANGED <<hasher, scan, target>>

\* clear() frees the buckets as well.
Clear ==
  /\ pc = "idle"
  /\ size_' = 0
  /\ logical_size_' = 0
  /\ buckets_' = NewBuckets(0)
  /\ Return("void")
  /\ UNCHANGED <<hasher, scan, target>>

\* reserve(count), also what the constructor does with its initial capacity
Reserve(count) ==
  /\ pc = "idle"
  /\ IF NeedsRehash(logical_size_, count)
     THEN /\ call' = [op |-> "reserve", value |-> NoValue, count |-> count]
          /\ StartRehash(MaxOf(FullSlots(count),
                               Ceil(LogicalSlotCount(logical_size_) * 8, 7)))
     ELSE /\ Return("void")
          /\ UNCHANGED <<table, scan, target>>
  /\ UNCHANGED hasher

\* The table that rehash(count) builds holds what it must without exceeding
\* the maximum load.
Adequate(count) ==
  IF count = 0 THEN size_ > 0
  ELSE ~NeedsRehash(Ceil(count, kSlotsPerBucket), size_)

\* rehash(count)
Rehash(count) ==
  /\ pc = "idle"
  /\ AnyRehashCount \/ Adequate(count)
  /\ call' = [op |-> "rehash", value |-> NoValue, count |-> count]
  /\ StartRehash(count)
  /\ UNCHANGED hasher

-----------------------------------------------------------------------------
(* RehashOrCopyFrom<true> *)

\* Mutant: only the bucket itself is searched for disordered values.
CoveredBucketOnly == {bucket_number} \cap DOMAIN source

\* The buckets one call of GetDisorderedValues looks at: those the search
\* distance of bucket_number covers, from disordered_bucket on.
CoveredBuckets ==
  LET distance == source[bucket_number].search_distance
  IN  {b \in bucket_number .. bucket_number + distance - 1 : disordered_bucket <= b}

\* Mutant: the last slot of a bucket is not looked at.
DisorderedSlotsButLast(bucket) ==
  {s \in SlotNumber : s + 1 < kSlotsPerBucket /\ IsNonemptyAndDisordered(bucket.h2[s])}

DisorderedSlots(bucket) ==
  {s \in SlotNumber : IsNonemptyAndDisordered(bucket.h2[s])}

\* GetDisorderedValues(bucket_number), which only logical buckets need.  An
\* item names the slot it points to; `by` tells apart the pushes of two calls.
GetDisorderedValues ==
  /\ pc = "collect"
  /\ bucket_number < SourcePhysical
  /\ IF bucket_number < source_logical_size
     THEN IF \E b \in CoveredBuckets : b >= SourcePhysical
          THEN pc' = "aborted" /\ UNCHANGED <<source, heap, disordered_bucket>>
          ELSE /\ pc' = "scan"
               /\ heap' = heap \cup
                    UNION {[by : {bucket_number}, bucket : {b},
                            slot : DisorderedSlots(source[b])] : b \in CoveredBuckets}
               /\ source' =
                    [b \in DOMAIN source |->
                      IF b \notin CoveredBuckets THEN source[b]
                      ELSE [source[b] EXCEPT !.h2 =
                              [s \in SlotNumber |->
                                 IF s \in DisorderedSlots(source[b]) THEN kEmpty ELSE @[s]]]]
               /\ disordered_bucket' =
                    IF CoveredBuckets = {} THEN disordered_bucket
                    ELSE bucket_number + source[bucket_number].search_distance - 1
     ELSE pc' = "scan" /\ UNCHANGED <<source, heap, disordered_bucket>>
  /\ slot_number' = 0
  /\ UNCHANGED <<hasher, table, call, result, source_logical_size, bucket_number, target>>

\* Mutant: next_bucket() is forgotten when the bucket is full.
StayInBucket(b, s) == <<b, s + 1>>

\* Where the insert after one at bucket b, slot s goes: a full bucket makes
\* next_bucket() open the one after it, past its tombstone.
NextTarget(b, s) ==
  IF s + 1 = kSlotsPerBucket THEN <<b + 1, FirstSlot(b + 1)>> ELSE <<b, s + 1>>

\* Mutant: the loop that opens buckets runs once too often.
InsertTargetBeyond(h1) ==
  IF insert_bucket <= h1 THEN <<h1 + 1, FirstSlot(h1 + 1)>>
  ELSE <<insert_bucket, insert_slot>>

\* Where InsertAscending puts a value with preferred bucket h1.
InsertTarget(h1) ==
  IF insert_bucket < h1 THEN <<h1, FirstSlot(h1)>> ELSE <<insert_bucket, insert_slot>>

\* InsertAscending(value): open the buckets up to the preferred one, store,
\* and open the next bucket when this one is full.
InsertAscending(value) ==
  LET h1 == H1(HashOf(value), logical_size_)
      b == InsertTarget(h1)[1]
      s == InsertTarget(h1)[2]
      next == NextTarget(b, s)
      opened == InitBuckets(buckets_, insert_bucket + 1, next[1])
  IN  /\ buckets_' = StoreValue(opened, h1, b, s,
                                SetOrderedValue(H2(HashOf(value))), value)
      /\ insert_bucket' = next[1]
      /\ insert_slot' = next[2]
      /\ size_' = size_ + 1
      /\ UNCHANGED <<logical_size_, pc>>

\* An assert of InsertAscending fails: the buckets are used up.
InsertOverruns(value) ==
  LET at == InsertTarget(H1(HashOf(value), logical_size_))
  IN  at[1] >= Physical \/ NextTarget(at[1], at[2])[1] >= Physical

\* Hash of the value a heap item points to
HeapHash(item) == HashOf(source[item.bucket].slots[item.slot])

\* insert_from_heap() for an item with the least hash of the heap.  Transfer
\* moves the value and destroys the slot it leaves.
InsertFromHeap ==
  \E item \in heap :
    LET value == source[item.bucket].slots[item.slot]
    IN  /\ \A other \in heap : HeapHash(item) <= HeapHash(other)
        /\ IF InsertOverruns(value)
           THEN pc' = "aborted" /\ UNCHANGED <<table, target, heap, source>>
           ELSE /\ InsertAscending(value)
                /\ heap' = heap \ {item}
                /\ source' = [source EXCEPT ![item.bucket].slots[item.slot] = NoValue]

\* The ordered slots of the current bucket that the scan has not reached
OrderedAhead ==
  {s \in SlotNumber : /\ slot_number <= s
                      /\ IsNonemptyAndOrdered(source[bucket_number].h2[s])}

\* An ordered value goes next, unless the heap holds a smaller hash.
ScanBucket ==
  /\ pc = "scan"
  /\ \E s \in Least(OrderedAhead) :
       LET value == source[bucket_number].slots[s]
       IN  IF \E item \in heap : HeapHash(item) < HashOf(value)
           THEN InsertFromHeap /\ slot_number' = s
           ELSE /\ slot_number' = s + 1
                /\ UNCHANGED heap
                /\ IF InsertOverruns(value)
                   THEN pc' = "aborted" /\ UNCHANGED <<table, target, source>>
                   ELSE /\ InsertAscending(value)
                        /\ source' = [source EXCEPT ![bucket_number].slots[s] = NoValue,
                                                    ![bucket_number].h2[s] = kEmpty]
  /\ UNCHANGED <<hasher, call, result, source_logical_size, disordered_bucket,
                 bucket_number>>

\* Mutant: the loop does not advance to the next bucket.
SameBucketAgain ==
  /\ pc = "scan"
  /\ OrderedAhead = {}
  /\ pc' = "collect"
  /\ UNCHANGED <<hasher, table, call, result, scan, target>>

NextBucket ==
  /\ pc = "scan"
  /\ OrderedAhead = {}
  /\ pc' = "collect"
  /\ bucket_number' = bucket_number + 1
  /\ UNCHANGED <<hasher, table, call, result, source_logical_size, source, heap,
                 disordered_bucket, slot_number, target>>

\* The while loop after the scan
DrainHeap ==
  /\ pc = "collect"
  /\ bucket_number = SourcePhysical
  /\ InsertFromHeap
  /\ UNCHANGED <<hasher, call, result, source_logical_size, disordered_bucket,
                 bucket_number, slot_number>>

\* Mutant: the sentinel goes on the last logical bucket.
MarkLogicalEnd(buckets) ==
  [buckets EXCEPT ![logical_size_ - 1].search_distance = kSearchDistanceEndSentinal]

\* The last bucket gets the search distance at which iteration stops.
MarkEnd(buckets) ==
  [buckets EXCEPT ![Physical - 1].search_distance = kSearchDistanceEndSentinal]

\* FinishInsertAscending; the old buckets are freed when rehash_internal
\* returns, and an insert goes on to place its value.
FinishRehash ==
  /\ pc = "collect"
  /\ bucket_number = SourcePhysical
  /\ heap = {}
  /\ buckets_' = MarkEnd(InitBuckets(buckets_, insert_bucket + 1, Physical - 1))
  /\ source_logical_size' = 0
  /\ source' = NewBuckets(0)
  /\ bucket_number' = 0
  /\ disordered_bucket' = 0
  /\ slot_number' = 0
  /\ insert_bucket' = 0
  /\ insert_slot' = 0
  /\ IF call.op = "insert" THEN pc' = "insert" /\ UNCHANGED <<call, result>>
                           ELSE Return("void")
  /\ UNCHANGED <<hasher, size_, logical_size_, heap>>

-----------------------------------------------------------------------------
Init ==
  /\ hasher \in Hashers
  /\ size_ = 0
  /\ logical_size_ = 0
  /\ buckets_ = NewBuckets(0)
  /\ pc = "idle"
  /\ call = Idle
  /\ result = "void"
  /\ source_logical_size = 0
  /\ source = NewBuckets(0)
  /\ heap = {}
  /\ disordered_bucket = 0
  /\ bucket_number = 0
  /\ slot_number = 0
  /\ insert_bucket = 0
  /\ insert_slot = 0

\* The steps the program takes without waiting for a caller
Step ==
  \/ PlaceValue
  \/ GetDisorderedValues
  \/ ScanBucket
  \/ NextBucket
  \/ DrainHeap
  \/ FinishRehash

Next ==
  \/ \E value \in Values : Insert(value)
  \/ \E key \in Keys : EraseKey(key)
  \/ \E p \in (DOMAIN buckets_) \X SlotNumber : EraseIterator(p)
  \/ Clear
  \/ \E count \in ReserveCounts : Reserve(count)
  \/ \E count \in RehashCounts : Rehash(count)
  \/ Step

\* The program is single threaded: a call that has begun runs until it
\* returns or an assert fails.  Whether another call comes is the caller's.
Fairness == WF_vars(Step)

Spec == Init /\ [][Next]_vars
FairSpec == Spec /\ Fairness
=============================================================================
