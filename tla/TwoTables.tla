------------------------------ MODULE TwoTables ------------------------------
(***************************************************************************)
(* Two HashTables of one type (internal/hash_table.h): the copy            *)
(* constructor, copy assignment, the move operations and swap().           *)
(*                                                                         *)
(* The variables of HashTable are the table the callers use; `other` holds *)
(* the members of the second one, and TurnTo exchanges the two roles.      *)
(* Copying runs RehashOrCopyFrom<false> from `other`, step by step.        *)
(***************************************************************************)
EXTENDS HashTableProperties

CONSTANTS
  OneHasher,       \* TRUE: the two tables are constructed with equal hashers
  MaxElements,     \* bound: callers stop when the tables hold more in all
  MaxElsewhere     \* bound: callers insert while the other table holds no more

ASSUME TwoTablesAssumption ==
  /\ OneHasher \in BOOLEAN
  /\ {MaxElements, MaxElsewhere} \subseteq Nat

VARIABLE other

allVars == <<vars, other>>

\* The members of a table; key_equal and the allocator have no state.
Members == [hasher |-> hasher, size_ |-> size_, logical_size_ |-> logical_size_,
            buckets_ |-> buckets_]

\* What RehashOrCopyFrom<false> shares with RehashOrCopyFrom<true>: it reads
\* from `other`, which it leaves as it is, and leaves no tombstones.
Copy == INSTANCE HashTable WITH
  source <- other.buckets_,
  source_logical_size <- other.logical_size_,
  kTombstoneRatio <- <<>>

\* *this takes over the buckets and the size of another table.
Become(members) ==
  /\ size_' = members.size_
  /\ logical_size_' = members.logical_size_
  /\ buckets_' = members.buckets_

-----------------------------------------------------------------------------
(* swap() and the moves *)

\* swap(), which is what the move operations do: the hashers stay.
SwapTables ==
  /\ pc = "idle"
  /\ Become(other)
  /\ other' = [Members EXCEPT !.hasher = other.hasher]
  /\ Return("void")
  /\ UNCHANGED <<hasher, scan, target>>

\* The callers go on with the other table.
TurnTo ==
  /\ pc = "idle"
  /\ Become(other)
  /\ hasher' = other.hasher
  /\ other' = Members
  /\ Return("void")
  /\ UNCHANGED <<scan, target>>

-----------------------------------------------------------------------------
(* Copying *)

\* Mutant: rounded down, without the room the maximum load leaves.
ReservedSizeFloor(count) == count \div kSlotsPerBucket

\* reserve(count) on a table without buckets
ReservedSize(count) == Ceil(FullSlots(count), kSlotsPerBucket)

\* The buckets reserve() leaves, of which the first is initialised again
Reserved(logical_size) ==
  [InitBuckets(NewBuckets(logical_size), 0, PhysicalSize(logical_size) - 1)
     EXCEPT ![PhysicalSize(logical_size) - 1].search_distance = kSearchDistanceEndSentinal]

\* reserve(source.size()) and RehashOrCopyFrom<false> up to its loop.  A table
\* without buckets has no buckets_[0] to initialise: the assert fails.
StartCopy(count) ==
  LET logical_size == ReservedSize(count)
  IN  /\ call' = [op |-> "copy", value |-> NoValue, count |-> count]
      /\ IF logical_size \in 1 .. MaxLogicalSize
         THEN /\ pc' = "copy collect"
              /\ size_' = 0
              /\ logical_size_' = logical_size
              /\ buckets_' = Reserved(logical_size)
              /\ UNCHANGED <<result, scan, target>>
         ELSE Abort

\* HashTable(other), into a table that has just been constructed
CopyConstruct ==
  /\ pc = "idle" /\ logical_size_ = 0
  /\ hasher' = other.hasher
  /\ StartCopy(other.size_)
  /\ UNCHANGED other

\* operator=(other) of another table: clear(), then as above
CopyAssign ==
  /\ pc = "idle"
  /\ StartCopy(other.size_)
  /\ UNCHANGED <<hasher, other>>

\* operator=(*this) is not special: clear() leaves nothing to copy from.
SelfAssign ==
  /\ pc = "idle"
  /\ StartCopy(0)
  /\ UNCHANGED <<hasher, other>>

\* Mutant: a bucket's own disordered values are left to the buckets before it.
CopyHeapOthers ==
  UNION {[by : {bucket_number}, bucket : {b},
          slot : DisorderedSlots(other.buckets_[b])] :
            b \in Copy!CoveredBuckets \ {bucket_number}}

\* The disordered values that GetDisorderedValues pushes
CopyHeap ==
  UNION {[by : {bucket_number}, bucket : {b},
          slot : DisorderedSlots(other.buckets_[b])] : b \in Copy!CoveredBuckets}

\* GetDisorderedValues<false> marks nothing in the source as seen.
CopyCollect ==
  /\ pc = "copy collect"
  /\ bucket_number < Copy!SourcePhysical
  /\ IF bucket_number < other.logical_size_
     THEN /\ heap' = heap \cup CopyHeap
          /\ disordered_bucket' =
               IF Copy!CoveredBuckets = {} THEN disordered_bucket
               ELSE bucket_number + other.buckets_[bucket_number].search_distance - 1
     ELSE UNCHANGED <<heap, disordered_bucket>>
  /\ pc' = "copy scan"
  /\ slot_number' = 0
  /\ UNCHANGED <<hasher, table, call, result, source_logical_size, source,
                 bucket_number, target, other>>

\* Store a copy of value, or run out of buckets.
CopyValue(value) ==
  IF Copy!InsertOverruns(value)
  THEN pc' = "aborted" /\ UNCHANGED <<table, target>>
  ELSE Copy!InsertAscending(value)

CopyFromHeap ==
  \E item \in heap :
    /\ \A x \in heap : Copy!HeapHash(item) <= Copy!HeapHash(x)
    /\ CopyValue(other.buckets_[item.bucket].slots[item.slot])
    /\ heap' = heap \ {item}

CopyScan ==
  /\ pc = "copy scan"
  /\ \E s \in Least(Copy!OrderedAhead) :
       LET value == other.buckets_[bucket_number].slots[s]
       IN  IF \E item \in heap : Copy!HeapHash(item) < HashOf(value)
           THEN CopyFromHeap /\ slot_number' = s
           ELSE CopyValue(value) /\ slot_number' = s + 1 /\ UNCHANGED heap
  /\ UNCHANGED <<hasher, call, result, source_logical_size, source,
                 disordered_bucket, bucket_number, other>>

CopyNextBucket ==
  /\ pc = "copy scan"
  /\ Copy!OrderedAhead = {}
  /\ pc' = "copy collect"
  /\ bucket_number' = bucket_number + 1
  /\ UNCHANGED <<hasher, table, call, result, source_logical_size, source, heap,
                 disordered_bucket, slot_number, target, other>>

CopyDrain ==
  /\ pc = "copy collect"
  /\ bucket_number = Copy!SourcePhysical
  /\ CopyFromHeap
  /\ UNCHANGED <<hasher, call, result, source_logical_size, source,
                 disordered_bucket, bucket_number, slot_number, other>>

\* FinishInsertAscending
FinishCopy ==
  /\ pc = "copy collect"
  /\ bucket_number = Copy!SourcePhysical
  /\ heap = {}
  /\ buckets_' = MarkEnd(InitBuckets(buckets_, insert_bucket + 1, Physical - 1))
  /\ bucket_number' = 0
  /\ disordered_bucket' = 0
  /\ slot_number' = 0
  /\ insert_bucket' = 0
  /\ insert_slot' = 0
  /\ Return("void")
  /\ UNCHANGED <<hasher, size_, logical_size_, source_logical_size, source, heap,
                 other>>

-----------------------------------------------------------------------------
TwoInit ==
  /\ Init
  /\ other \in [hasher : IF OneHasher THEN {hasher} ELSE Hashers, size_ : {0},
                logical_size_ : {0}, buckets_ : {NewBuckets(0)}]

TwoCall ==
  \/ \E value \in Values :
       /\ size_ + other.size_ < MaxElements /\ other.size_ <= MaxElsewhere
       /\ Insert(value)
       /\ UNCHANGED other
  \/ \E key \in Keys : EraseKey(key) /\ UNCHANGED other
  \/ Clear /\ UNCHANGED other
  \/ SwapTables
  \/ TurnTo
  \/ CopyConstruct
  \/ CopyAssign
  \/ SelfAssign

TwoStep ==
  \/ Step /\ UNCHANGED other
  \/ CopyCollect
  \/ CopyScan
  \/ CopyNextBucket
  \/ CopyDrain
  \/ FinishCopy

TwoNext ==
  \/ size_ + other.size_ <= MaxElements /\ TwoCall
  \/ TwoStep

TwoSpec == TwoInit /\ [][TwoNext]_allVars

-----------------------------------------------------------------------------
(* Properties *)

Copying == pc \in {"copy collect", "copy scan"}

Owned(members) == Stored(members.buckets_)

\* A copy finds every key the source holds and no other, though it is laid out
\* anew from positions that no search distance of its own describes.
CopyFindsAll ==
  [][Copying /\ pc' = "idle" =>
       \A key \in Keys :
         (Find(key)' # {}) <=> (\E v \in Owned(other) : KeyOf[v] = key)]_allVars

\* What can be compared of a copy and its source from outside: size() and each
\* value once.  EXPECT_EQ(set2.size(), 1) after `set2 = set3`, whose size is 1.
CopyEqualsSource ==
  [][Copying /\ pc' = "idle" => size_' = other.size_]_allVars

\* What a copy reserves for size() elements holds that many, though all of them
\* may crowd into its last bucket: an array of at most kMaxExtraBuckets + 1
\* logical buckets runs out of them only if the copy has made duplicates, which
\* it can, as GetDisorderedValues<false> pushes some elements twice.
SmallCopiesFit ==
  [][Copying /\ pc' = "aborted" =>
       \/ logical_size_ > kMaxExtraBuckets + 1
       \/ size_ >= other.size_]_allVars

\* Validate(), of either table: every object lies within the search distance
\* of the bucket its own table's hasher prefers.
BothWithinSearchDistance ==
  \A t \in {Members, other} : pc # "aborted" =>
    \A p \in Occupied(t.buckets_) :
      LET h1 == H1(t.hasher[KeyOf[ValueAt(t.buckets_, p)]], t.logical_size_)
      IN  h1 <= p[1] /\ p[1] < h1 + t.buckets_[h1].search_distance
=============================================================================
