------------------------------- MODULE Buckets -------------------------------
(***************************************************************************)
(* The data structure of internal/hash_table.h: the traits that size a     *)
(* table (HashTableTraits, TombstoneRatio), the meta byte of a slot        *)
(* (MetaByte), a bucket (Bucket) and the bucket array (Buckets), with the  *)
(* arithmetic that maps a hash to a bucket and a slot count to an array.   *)
(*                                                                         *)
(* A bucket is a record with the three fields of `struct Bucket`.  Memory  *)
(* that aligned_alloc returned and Bucket::Init has not yet reached is     *)
(* Uninitialized; a slot that holds no constructed object is NoValue.      *)
(***************************************************************************)
EXTENDS Integers

CONSTANTS
  Values,             \* the value_type objects the callers use
  Keys,               \* key_type
  KeyOf,              \* [Values -> Keys], Traits::KeyOf
  Hashers,            \* the hash functors, a subset of [Keys -> Hash]
  NoValue,            \* a slot without a constructed object
  Uninitialized,      \* a bucket whose bytes were never written
  HashSpace,          \* number of hash values: 2^64 in the code
  kSlotsPerBucket,
  kMaxExtraBuckets,
  kSearchDistanceEndSentinal,  \* 255, the largest uint8_t
  full_utilization_numerator,
  full_utilization_denominator,
  rehashed_utilization_numerator,
  rehashed_utilization_denominator,
  kTombstoneRatio,    \* <<>> for nullopt, else <<numerator, denominator>>
  MaxLogicalSize      \* largest array the allocator can return

ASSUME ValuesAssumption ==
  /\ KeyOf \in [Values -> Keys]
  /\ NoValue \notin Values

ASSUME HashAssumption ==
  /\ HashSpace \in Nat \ {0}
  /\ Hashers \subseteq [Keys -> 0 .. HashSpace - 1]

ASSUME SizeAssumption ==
  /\ kSlotsPerBucket \in Nat \ {0, 1}
  /\ kMaxExtraBuckets \in Nat \ {0}
  /\ kSearchDistanceEndSentinal \in Nat \ {0}
  /\ MaxLogicalSize \in Nat \ {0}

ASSUME UtilizationAssumption ==
  /\ full_utilization_numerator \in Nat \ {0}
  /\ full_utilization_denominator \in Nat \ {0}
  /\ rehashed_utilization_numerator \in Nat \ {0}
  /\ rehashed_utilization_denominator \in Nat \ {0}

-----------------------------------------------------------------------------
(* Sizes *)

\* Mutant: integer division instead.
Floor(a, b) == a \div b

Ceil(a, b) == (a + b - 1) \div b

\* The elements of S that no other element of S is below: {} or a singleton.
\* "The first i such that ..." is written \E i \in Least({i : ...}).
Least(S) == {x \in S : \A y \in S : x <= y}

MaxOf(a, b) == IF a < b THEN b ELSE a

\* Mutant: one overflow bucket too few for the small tables.
ExtraBucketsShort(logical_size) ==
  IF logical_size > kMaxExtraBuckets THEN kMaxExtraBuckets
  ELSE IF logical_size > 2 THEN logical_size - 2
  ELSE IF logical_size > 0 THEN 1 ELSE 0

ExtraBuckets(logical_size) ==
  IF logical_size > kMaxExtraBuckets THEN kMaxExtraBuckets
  ELSE IF logical_size > 2 THEN logical_size - 1
  ELSE IF logical_size > 0 THEN 1 ELSE 0

PhysicalSize(logical_size) == logical_size + ExtraBuckets(logical_size)

LogicalSlotCount(logical_size) == logical_size * kSlotsPerBucket

NeedsRehash(logical_size, target_size) ==
  LogicalSlotCount(logical_size) * full_utilization_numerator
    < target_size * full_utilization_denominator

\* Slots for target_size elements at the load the table is filled to.
FullSlots(target_size) ==
  Ceil(target_size * full_utilization_denominator, full_utilization_numerator)

\* Mutant: sized for the elements present, not for the one to come.
RehashedSlotsForPresent(target_size) ==
  Ceil((target_size - 1) * rehashed_utilization_denominator,
       rehashed_utilization_numerator)

\* Slots for target_size elements at the load a growing rehash leaves.
RehashedSlots(target_size) ==
  Ceil(target_size * rehashed_utilization_denominator,
       rehashed_utilization_numerator)

-----------------------------------------------------------------------------
(* Hashes and meta bytes *)

Hash == 0 .. HashSpace - 1

H1(hash, logical_size) == (hash * logical_size) \div HashSpace

H2(hash) == hash % 64

\* kEmpty is 0x80; 0x40 + h2 is an ordered value, h2 alone a disordered one.
kEmpty == 128
kOrderedMask == 64
MetaByte == 0 .. 127 \cup {kEmpty}

SetOrderedValue(h2) == kOrderedMask + h2

\* Mutant: a value inserted in the first empty slot is marked as in order.
SetUnorderedValueOrdered(h2) == kOrderedMask + h2

SetUnorderedValue(h2) == h2

IsEmpty(meta_byte) == meta_byte = kEmpty
IsNonemptyAndDisordered(meta_byte) == meta_byte < kOrderedMask
IsNonemptyAndOrdered(meta_byte) == meta_byte \in kOrderedMask .. 127

\* Mutant: the ordered bit takes part in the comparison.
KeepOrdered(meta_byte) == meta_byte

\* The byte with the ordered bit cleared, which leaves kEmpty as it is.
ClearOrdered(meta_byte) ==
  IF IsNonemptyAndOrdered(meta_byte) THEN meta_byte - kOrderedMask ELSE meta_byte

-----------------------------------------------------------------------------
(* Buckets *)

SlotNumber == 0 .. kSlotsPerBucket - 1

Bucket == [h2 : [SlotNumber -> MetaByte],
           search_distance : 0 .. kSearchDistanceEndSentinal,
           slots : [SlotNumber -> Values \cup {NoValue}]]

ASSUME UninitializedAssumption == Uninitialized \notin Bucket

\* The state Bucket::Init leaves in fresh memory.
InitBucket == [h2 |-> [s \in SlotNumber |-> kEmpty],
               search_distance |-> 0,
               slots |-> [s \in SlotNumber |-> NoValue]]

\* Buckets::Buckets(logical_size): allocated, nothing initialised.
NewBuckets(logical_size) ==
  [b \in 0 .. PhysicalSize(logical_size) - 1 |-> Uninitialized]

\* Mutant: the last of the buckets is left out.
InitBucketsButLast(buckets, first, last) ==
  [b \in DOMAIN buckets |-> IF b \in first .. last - 1 THEN InitBucket ELSE buckets[b]]

\* Bucket::Init on the buckets first .. last.
InitBuckets(buckets, first, last) ==
  [b \in DOMAIN buckets |-> IF b \in first .. last THEN InitBucket ELSE buckets[b]]

MatchingElements(bucket, needle) ==
  {s \in SlotNumber : ClearOrdered(bucket.h2[s]) = needle}

\* The slots of `bucket` at which FindElement(needle, key) can stop.
FindElement(bucket, needle, key) ==
  {s \in MatchingElements(bucket, needle) : KeyOf[bucket.slots[s]] = key}

FindEmpties(bucket) == {s \in SlotNumber : IsEmpty(bucket.h2[s])}

FindNonEmpties(bucket) == SlotNumber \ FindEmpties(bucket)

-----------------------------------------------------------------------------
(* Graveyard tombstones *)

\* Ones[i] counts the ones among the first i bits NumberWithFractionOfOnes
\* produces.  Iteration i decides bit 63 - i of the result.
Ones[i \in 0 .. 64] ==
  IF i = 0 THEN 0
  ELSE LET ones == Ones[i - 1]
       IN  IF ones * kTombstoneRatio[2] < kTombstoneRatio[1] * (i - 1)
           THEN ones + 1 ELSE ones

\* The residues mod 64 of the buckets that get a tombstone.
TombstoneBits ==
  IF kTombstoneRatio = <<>> THEN {}
  ELSE {b \in 0 .. 63 : Ones[64 - b] > Ones[63 - b]}

BucketGetsTombstone(bucket_number) == bucket_number % 64 \in TombstoneBits

\* Mutant: the tombstones are left out.
FirstSlotAlwaysZero(bucket_number) == 0

\* The slot InsertAscending starts a fresh bucket at.
FirstSlot(bucket_number) == IF BucketGetsTombstone(bucket_number) THEN 1 ELSE 0
=============================================================================
