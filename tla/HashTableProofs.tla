--------------------------- MODULE HashTableProofs ---------------------------
(***************************************************************************)
(* Proofs about HashTable.tla, for every value of the constants that       *)
(* satisfies the named assumptions of Buckets.tla and HashTable.tla: its   *)
(* operators, the shape of its state, what each step does to the elements  *)
(* of the table; and that these are counted and found: size_, search       *)
(* distances, uniqueness of keys and lookups.                              *)
(***************************************************************************)
EXTENDS HashTableInvariant, FiniteSetTheorems, TLAPS

-----------------------------------------------------------------------------
(* Arithmetic of sizes and hashes *)

\* Scaling h from 0 .. m - 1 by n / m stays in 0 .. n - 1: what H1 does.
LEMMA DivRange ==
  ASSUME NEW m \in Nat \ {0}, NEW h \in 0 .. m - 1, NEW n \in Nat \ {0}
  PROVE  (h * n) \div m \in 0 .. n - 1
<1>1. h * n \in Nat /\ h * n < m * n
  OBVIOUS
<1>2. PICK q \in Int : q = (h * n) \div m
  OBVIOUS
<1>3. m * q <= h * n /\ h * n < m * q + m
  BY <1>2
<1>4. q >= 0
  BY <1>1, <1>3
<1>5. q < n
  BY <1>1, <1>3
<1> QED BY <1>2, <1>4, <1>5

\* The preferred bucket of a hash is a logical bucket.
LEMMA H1Range ==
  ASSUME NEW hash \in Hash, NEW logical_size \in Nat \ {0}
  PROVE  H1(hash, logical_size) \in 0 .. logical_size - 1
BY DivRange, HashAssumption DEF H1, Hash

\* A stored meta byte is one of the two halves below kEmpty.
LEMMA MetaBytes ==
  ASSUME NEW hash \in Hash
  PROVE  /\ H2(hash) \in 0 .. 63
         /\ SetOrderedValue(H2(hash)) \in MetaByte \ {kEmpty}
         /\ SetUnorderedValue(H2(hash)) \in MetaByte \ {kEmpty}
         /\ ClearOrdered(SetOrderedValue(H2(hash))) = H2(hash)
         /\ ClearOrdered(SetUnorderedValue(H2(hash))) = H2(hash)
<1>1. hash \in Nat
  BY HashAssumption DEF Hash
<1>2. H2(hash) \in 0 .. 63
  BY <1>1 DEF H2
<1> QED
  BY <1>2 DEF SetOrderedValue, SetUnorderedValue, MetaByte, kEmpty, kOrderedMask,
              ClearOrdered, IsNonemptyAndOrdered

\* A table with logical buckets has at least one bucket more than those.
LEMMA PhysicalRange ==
  ASSUME NEW logical_size \in Nat
  PROVE  /\ PhysicalSize(logical_size) \in Nat
         /\ logical_size > 0 => PhysicalSize(logical_size) > logical_size
         /\ logical_size = 0 => PhysicalSize(logical_size) = 0
BY SizeAssumption DEF PhysicalSize, ExtraBuckets

\* A fresh bucket starts at a slot it has.
LEMMA FirstSlotRange ==
  ASSUME NEW b
  PROVE  FirstSlot(b) \in SlotNumber
BY SizeAssumption DEF FirstSlot, SlotNumber

\* An empty table is too small for any element.
LEMMA EmptyNeedsRehash ==
  ASSUME NEW logical_size \in Nat, NEW size \in Nat,
         ~NeedsRehash(logical_size, size + 1)
  PROVE  logical_size > 0
<1>1. (size + 1) * full_utilization_denominator > 0
  BY UtilizationAssumption
<1>2. 0 * kSlotsPerBucket * full_utilization_numerator = 0
  BY UtilizationAssumption, SizeAssumption
<1> QED BY <1>1, <1>2 DEF NeedsRehash, LogicalSlotCount

\* A distance that fits the uint8_t of a bucket.
LEMMA DistanceRange ==
  ASSUME NEW i \in Nat
  PROVE  /\ DistanceTo(i) \in 0 .. kSearchDistanceEndSentinal
         /\ i < kSearchDistanceEndSentinal => DistanceTo(i) = i + 1
<1>1. kSearchDistanceEndSentinal + 1 \in Nat \ {0} /\ i + 1 \in Nat
  BY SizeAssumption
<1>2. (i + 1) % (kSearchDistanceEndSentinal + 1) \in 0 .. kSearchDistanceEndSentinal
  BY <1>1, SizeAssumption
<1>3. ASSUME i < kSearchDistanceEndSentinal
      PROVE  (i + 1) % (kSearchDistanceEndSentinal + 1) = i + 1
  BY <1>1, <1>3, SizeAssumption
<1> QED BY <1>2, <1>3 DEF DistanceTo

-----------------------------------------------------------------------------
(* Buckets and what the operations do to them *)

\* Bucket::Init leaves an empty bucket.
LEMMA InitBucketConsistent == Consistent(InitBucket) /\ InitBucket # Uninitialized
<1>1. InitBucket \in Bucket
  BY SizeAssumption DEF InitBucket, Bucket, MetaByte, kEmpty
<1> QED BY <1>1, UninitializedAssumption DEF InitBucket, Consistent

\* What StoreValue makes of an array of n buckets: slot s of bucket b and the
\* search distance of the preferred bucket change, and nothing else.
Stores(n, buckets, preferred, b, s, meta_byte, value, new) ==
  /\ new \in [0 .. n - 1 -> Bucket \cup {Uninitialized}]
  /\ \A x \in 0 .. n - 1 :
       /\ new[x] = Uninitialized <=> buckets[x] = Uninitialized
       /\ buckets[x] \in Bucket =>
            /\ new[x] \in Bucket
            /\ x # b => /\ new[x].h2 = buckets[x].h2
                        /\ new[x].slots = buckets[x].slots
            /\ x # preferred => new[x].search_distance = buckets[x].search_distance
  /\ new[b].h2 = [buckets[b].h2 EXCEPT ![s] = meta_byte]
  /\ new[b].slots = [buckets[b].slots EXCEPT ![s] = value]
  /\ new[preferred].search_distance =
       MaxOf(buckets[preferred].search_distance, DistanceTo(b - preferred))

\* StoreValue stores.
LEMMA StoreValueStores ==
  ASSUME NEW n \in Nat,
         NEW buckets \in [0 .. n - 1 -> Bucket \cup {Uninitialized}],
         NEW b \in 0 .. n - 1, buckets[b] \in Bucket,
         NEW preferred \in 0 .. n - 1, buckets[preferred] \in Bucket,
         preferred <= b,
         NEW s \in SlotNumber, NEW meta_byte \in MetaByte, NEW value \in Values
  PROVE  Stores(n, buckets, preferred, b, s, meta_byte, value,
                StoreValue(buckets, preferred, b, s, meta_byte, value))
<1> DEFINE distance == MaxOf(buckets[preferred].search_distance, DistanceTo(b - preferred))
           f == [buckets EXCEPT ![b].h2[s] = meta_byte]
           g == [f EXCEPT ![b].slots[s] = value]
           new == StoreValue(buckets, preferred, b, s, meta_byte, value)
<1>1. distance \in 0 .. kSearchDistanceEndSentinal
  <2>1. DistanceTo(b - preferred) \in 0 .. kSearchDistanceEndSentinal
    BY DistanceRange
  <2>2. buckets[preferred].search_distance \in 0 .. kSearchDistanceEndSentinal
    BY DEF Bucket
  <2> QED BY <2>1, <2>2, SizeAssumption DEF MaxOf
<1>2. new = [g EXCEPT ![preferred].search_distance = MaxOf(@, DistanceTo(b - preferred))]
  BY DEF StoreValue
<1>3. /\ f \in [0 .. n - 1 -> Bucket \cup {Uninitialized}]
      /\ \A x \in 0 .. n - 1 : x # b => f[x] = buckets[x]
      /\ f[b] \in Bucket
      /\ f[b].h2 = [buckets[b].h2 EXCEPT ![s] = meta_byte]
      /\ f[b].slots = buckets[b].slots
      /\ f[b].search_distance = buckets[b].search_distance
  BY DEF Bucket
<1> HIDE DEF f
<1>4. /\ g \in [0 .. n - 1 -> Bucket \cup {Uninitialized}]
      /\ \A x \in 0 .. n - 1 : x # b => g[x] = f[x]
      /\ g[b] \in Bucket
      /\ g[b].h2 = f[b].h2
      /\ g[b].slots = [f[b].slots EXCEPT ![s] = value]
      /\ g[b].search_distance = f[b].search_distance
  BY <1>3 DEF Bucket
<1> HIDE DEF g
<1>5. /\ g[preferred] \in Bucket
      /\ g[preferred].search_distance = buckets[preferred].search_distance
  BY <1>3, <1>4
<1>6. new = [g EXCEPT ![preferred].search_distance = distance]
  BY <1>2, <1>4, <1>5
<1> HIDE DEF distance, new
<1>7. /\ new \in [0 .. n - 1 -> Bucket \cup {Uninitialized}]
      /\ \A x \in 0 .. n - 1 : x # preferred => new[x] = g[x]
      /\ new[preferred] \in Bucket
      /\ new[preferred].h2 = g[preferred].h2
      /\ new[preferred].slots = g[preferred].slots
      /\ new[preferred].search_distance = distance
  <2>1. new[preferred] = [g[preferred] EXCEPT !.search_distance = distance]
    BY <1>4, <1>6
  <2>2. /\ new[preferred] \in Bucket
        /\ new[preferred].h2 = g[preferred].h2
        /\ new[preferred].slots = g[preferred].slots
        /\ new[preferred].search_distance = distance
    BY <1>1, <1>5, <2>1 DEF Bucket
  <2>3. DOMAIN new = 0 .. n - 1 /\ \A x \in 0 .. n - 1 : x # preferred => new[x] = g[x]
    BY <1>4, <1>6
  <2>4. new = [x \in 0 .. n - 1 |-> new[x]]
    BY <1>4, <1>6
  <2> QED BY <1>4, <2>2, <2>3, <2>4
<1>8. new[b] \in Bucket
  BY <1>4, <1>7
<1> QED
  BY <1>3, <1>4, <1>5, <1>7, <1>8, UninitializedAssumption DEF distance, new, Stores

\* new is the bucket array old, over the bucket numbers D, with one meta byte, or
\* one slot, written; and what that changes.
WritesByte(D, old, new, b, s, meta_byte) ==
  /\ old \in [D -> Bucket] /\ b \in D /\ s \in SlotNumber /\ meta_byte \in MetaByte
  /\ new = [old EXCEPT ![b].h2[s] = meta_byte]
ByteEffect(D, old, new, b, s, meta_byte) ==
  /\ new \in [D -> Bucket]
  /\ \A x \in D :
       /\ new[x].slots = old[x].slots
       /\ new[x].search_distance = old[x].search_distance
       /\ \A y \in SlotNumber :
            new[x].h2[y] = IF x = b /\ y = s THEN meta_byte ELSE old[x].h2[y]
WritesSlot(D, old, new, b, s, object) ==
  /\ old \in [D -> Bucket] /\ b \in D /\ s \in SlotNumber
  /\ object \in Values \cup {NoValue}
  /\ new = [old EXCEPT ![b].slots[s] = object]
SlotEffect(D, old, new, b, s, object) ==
  /\ new \in [D -> Bucket]
  /\ \A x \in D :
       /\ new[x].h2 = old[x].h2
       /\ new[x].search_distance = old[x].search_distance
       /\ \A y \in SlotNumber :
            new[x].slots[y] = IF x = b /\ y = s THEN object ELSE old[x].slots[y]

\* Writing a meta byte changes nothing else.
LEMMA ByteWritten ==
  ASSUME NEW D, NEW old, NEW new, NEW b, NEW s, NEW meta_byte,
         WritesByte(D, old, new, b, s, meta_byte)
  PROVE  ByteEffect(D, old, new, b, s, meta_byte)
<1> DEFINE bucket == [old[b] EXCEPT !.h2[s] = meta_byte]
<1>1. old[b] \in Bucket
  BY DEF WritesByte
<1>2. /\ bucket \in Bucket
      /\ bucket.slots = old[b].slots
      /\ bucket.search_distance = old[b].search_distance
      /\ \A y \in SlotNumber : bucket.h2[y] = IF y = s THEN meta_byte ELSE old[b].h2[y]
  BY <1>1 DEF Bucket, WritesByte
<1>3. new = [old EXCEPT ![b] = bucket]
  BY DEF WritesByte
<1> HIDE DEF bucket
<1>4. \A x \in D : new[x] = IF x = b THEN bucket ELSE old[x]
  BY <1>3 DEF WritesByte
<1>5. new \in [D -> Bucket]
  BY <1>2, <1>3 DEF WritesByte
<1> QED BY <1>2, <1>4, <1>5 DEF ByteEffect

\* So does writing a slot.
LEMMA SlotWritten ==
  ASSUME NEW D, NEW old, NEW new, NEW b, NEW s, NEW object,
         WritesSlot(D, old, new, b, s, object)
  PROVE  SlotEffect(D, old, new, b, s, object)
<1> DEFINE bucket == [old[b] EXCEPT !.slots[s] = object]
<1>1. old[b] \in Bucket
  BY DEF WritesSlot
<1>2. /\ bucket \in Bucket
      /\ bucket.h2 = old[b].h2
      /\ bucket.search_distance = old[b].search_distance
      /\ \A y \in SlotNumber : bucket.slots[y] = IF y = s THEN object ELSE old[b].slots[y]
  BY <1>1 DEF Bucket, WritesSlot
<1>3. new = [old EXCEPT ![b] = bucket]
  BY DEF WritesSlot
<1> HIDE DEF bucket
<1>4. \A x \in D : new[x] = IF x = b THEN bucket ELSE old[x]
  BY <1>3 DEF WritesSlot
<1>5. new \in [D -> Bucket]
  BY <1>2, <1>3 DEF WritesSlot
<1> QED BY <1>2, <1>4, <1>5 DEF SlotEffect

\* What an empty slot's byte and an empty slot are.
LEMMA EmptyTyped == kEmpty \in MetaByte /\ NoValue \in Values \cup {NoValue}
BY DEF MetaByte

-----------------------------------------------------------------------------
(* The parts of a step *)

\* Between two calls the rehash variables are at their initial values.
LEMMA AtRestShape ==
  ASSUME Shape, AtRest
  PROVE  /\ \A b \in 0 .. Physical - 1 : Consistent(buckets_[b])
         /\ DOMAIN buckets_ = 0 .. Physical - 1
         /\ DOMAIN source = {}
         /\ heap = {}
<1>1. DOMAIN buckets_ = 0 .. Physical - 1 /\ DOMAIN source = 0 .. SourcePhysical - 1
  BY DEF Shape, TypeOK, BucketsTyped, Physical, SourcePhysical
<1>2. SourcePhysical = 0
  BY PhysicalRange DEF Shape, ScanInv, SourcePhysical
<1>3. \A b \in 0 .. Physical - 1 : Consistent(buckets_[b])
  BY <1>1 DEF Shape, NewInv, InitializedPrefix
<1> QED BY <1>1, <1>2, <1>3 DEF Shape, ScanInv

\* The hash of a value is a hash, and its preferred bucket a logical bucket.
LEMMA PreferredRange ==
  ASSUME TypeOK, NEW value \in Values
  PROVE  /\ HashOf(value) \in Hash
         /\ logical_size_ > 0 => /\ H1(HashOf(value), logical_size_) \in 0 .. logical_size_ - 1
                                 /\ H1(HashOf(value), logical_size_) \in 0 .. Physical - 1
<1>1. HashOf(value) \in Hash
  BY HashAssumption, ValuesAssumption DEF TypeOK, HashOf, Hash
<1>2. logical_size_ \in Nat
  BY SizeAssumption DEF TypeOK
<1>3. logical_size_ > 0 => /\ H1(HashOf(value), logical_size_) \in 0 .. logical_size_ - 1
                           /\ Physical > logical_size_ /\ Physical \in Nat
  BY <1>1, <1>2, H1Range, PhysicalRange DEF Physical
<1> QED BY <1>1, <1>2, <1>3

\* While a rehash runs the new buckets are open up to insert_bucket.
LEMMA RehashingShape ==
  ASSUME Shape, Rehashing
  PROVE  /\ logical_size_ \in Nat \ {0}
         /\ Physical \in Nat
         /\ insert_bucket \in 0 .. Physical - 1
         /\ insert_slot \in SlotNumber
         /\ buckets_ \in [0 .. Physical - 1 -> Bucket \cup {Uninitialized}]
         /\ \A x \in 0 .. Physical - 1 :
              /\ (buckets_[x] = Uninitialized) <=> (x > insert_bucket)
              /\ x <= insert_bucket => Consistent(buckets_[x])
<1>1. logical_size_ \in Nat \ {0}
  BY SizeAssumption DEF Shape, TypeOK, CallInv
<1>2. Physical \in Nat
  BY <1>1, PhysicalRange DEF Physical
<1>3. buckets_ \in [0 .. Physical - 1 -> Bucket \cup {Uninitialized}]
  BY DEF Shape, TypeOK, BucketsTyped, Physical
<1>4. insert_bucket \in Nat /\ insert_slot \in SlotNumber
  BY DEF Shape, TypeOK
<1>5. /\ insert_bucket < Physical
      /\ \A x \in DOMAIN buckets_ : (buckets_[x] = Uninitialized) <=> (x > insert_bucket)
      /\ \A x \in DOMAIN buckets_ : buckets_[x] # Uninitialized => Consistent(buckets_[x])
  BY DEF Shape, NewInv, InitializedPrefix
<1> QED BY <1>1, <1>2, <1>3, <1>4, <1>5

\* A request to rehash leaves the old buckets as the source and opens the new.
LEMMA StartRehashShape ==
  ASSUME Shape, AtRest, NEW slot_count, StartRehash(slot_count), hasher' = hasher,
         call' \in [op : {"insert", "reserve", "rehash"},
                    value : Values \cup {NoValue}, count : Nat],
         call'.op = "insert" => call'.value \in Values
  PROVE  Shape'
<1> DEFINE slots == IF slot_count = 0 THEN FullSlots(size_) ELSE slot_count
           logical_size == Ceil(slots, kSlotsPerBucket)
<1>1. CASE logical_size \notin 1 .. MaxLogicalSize
  <2>1. /\ pc' = "aborted"
        /\ UNCHANGED <<table, result, scan, target>>
    BY <1>1 DEF StartRehash, Abort
  <2> QED
    BY <2>1 DEF Shape, TypeOK, BucketsTyped, CallInv, NewInv, InitializedPrefix,
                SourceInv, HeapInv, ScanInv, Rehashing, AtRest, Physical, table, scan, target
<1>2. CASE logical_size \in 1 .. MaxLogicalSize
  <2>1. /\ pc' = "collect"
        /\ size_' = 0
        /\ logical_size_' = logical_size
        /\ buckets_' = InitBuckets(NewBuckets(logical_size), 0, 0)
        /\ source_logical_size' = logical_size_
        /\ source' = buckets_
        /\ heap' = {}
        /\ disordered_bucket' = 0
        /\ bucket_number' = 0
        /\ slot_number' = 0
        /\ insert_bucket' = 0
        /\ insert_slot' = 0
        /\ UNCHANGED result
    BY <1>2 DEF StartRehash
  <2> HIDE DEF slots, logical_size
  <2>2. logical_size \in Nat \ {0} /\ PhysicalSize(logical_size) \in Nat \ {0, 1}
    BY <1>2, PhysicalRange, SizeAssumption
  <2>3. /\ DOMAIN buckets_' = 0 .. PhysicalSize(logical_size) - 1
        /\ buckets_'[0] = InitBucket
        /\ \A b \in 0 .. PhysicalSize(logical_size) - 1 : b > 0 => buckets_'[b] = Uninitialized
    BY <2>1, <2>2 DEF InitBuckets, NewBuckets
  <2>4. buckets_' \in [0 .. PhysicalSize(logical_size) - 1 -> Bucket \cup {Uninitialized}]
    BY <2>1, <2>2, InitBucketConsistent DEF InitBuckets, NewBuckets, Consistent
  <2>5. TypeOK'
    BY <1>2, <2>1, <2>2, <2>4, SizeAssumption
    DEF Shape, TypeOK, BucketsTyped, SlotNumber
  <2>6. CallInv'
    BY <2>1, <2>2 DEF CallInv
  <2>7. NewInv'
    BY <2>1, <2>2, <2>3, InitBucketConsistent
    DEF NewInv, InitializedPrefix, Rehashing, AtRest, Physical
  <2>8. SourceInv' /\ HeapInv'
    BY <2>1, AtRestShape DEF SourceInv, HeapInv, Consistent
  <2>9. ScanInv'
    BY <2>1, PhysicalRange, SizeAssumption
    DEF Shape, TypeOK, ScanInv, Rehashing, AtRest, SourcePhysical
  <2> QED BY <2>5, <2>6, <2>7, <2>8, <2>9 DEF Shape
<1> QED BY <1>1, <1>2

\* Opening a range of buckets: those in it are fresh, the others unchanged.
LEMMA InitBucketsRange ==
  ASSUME NEW n \in Nat, NEW first \in Int, NEW last \in Int,
         NEW buckets \in [0 .. n - 1 -> Bucket \cup {Uninitialized}],
         NEW new, new = InitBuckets(buckets, first, last)
  PROVE  /\ new \in [0 .. n - 1 -> Bucket \cup {Uninitialized}]
         /\ \A b \in 0 .. n - 1 :
              new[b] = IF first <= b /\ b <= last THEN InitBucket ELSE buckets[b]
BY InitBucketConsistent DEF InitBuckets, Consistent

\* The names InsertAscending(value) has for what it computes.
Preferred(value) == H1(HashOf(value), logical_size_)
At(value) == InsertTarget(Preferred(value))
NextAt(value) == NextTarget(At(value)[1], At(value)[2])
Opened(value) == InitBuckets(buckets_, insert_bucket + 1, NextAt(value)[1])
OrderedByte(value) == SetOrderedValue(H2(HashOf(value)))

\* An ascending insert stores into a bucket it has opened, at or after the
\* preferred one, and stays inside the array.
LEMMA InsertAscendingStores ==
  ASSUME Shape, Rehashing, NEW value \in Values,
         ~InsertOverruns(value), InsertAscending(value)
  PROVE  /\ Preferred(value) \in 0 .. Physical - 1
         /\ At(value)[1] \in 0 .. Physical - 1 /\ At(value)[2] \in SlotNumber
         /\ Preferred(value) <= At(value)[1] /\ insert_bucket <= At(value)[1]
         /\ NextAt(value)[1] \in {At(value)[1], At(value)[1] + 1}
         /\ NextAt(value)[1] \in 0 .. Physical - 1 /\ NextAt(value)[2] \in SlotNumber
         /\ Opened(value) \in [0 .. Physical - 1 -> Bucket \cup {Uninitialized}]
         /\ \A x \in 0 .. Physical - 1 :
              /\ Opened(value)[x] =
                   IF insert_bucket + 1 <= x /\ x <= NextAt(value)[1] THEN InitBucket
                   ELSE buckets_[x]
              /\ (Opened(value)[x] = Uninitialized) <=> (x > NextAt(value)[1])
              /\ Opened(value)[x] # Uninitialized => Consistent(Opened(value)[x])
         /\ Opened(value)[At(value)[1]] \in Bucket
         /\ Opened(value)[Preferred(value)] \in Bucket
         /\ OrderedByte(value) \in MetaByte /\ OrderedByte(value) # kEmpty
         /\ Stores(Physical, Opened(value), Preferred(value), At(value)[1], At(value)[2],
                   OrderedByte(value), value, buckets_')
         /\ insert_bucket' = NextAt(value)[1] /\ insert_slot' = NextAt(value)[2]
<1> DEFINE h1 == Preferred(value)
           b == At(value)[1]
           s == At(value)[2]
           next == NextAt(value)
           opened == Opened(value)
           meta_byte == OrderedByte(value)
<1>1. /\ Physical \in Nat /\ insert_bucket \in 0 .. Physical - 1 /\ insert_slot \in SlotNumber
      /\ buckets_ \in [0 .. Physical - 1 -> Bucket \cup {Uninitialized}]
      /\ \A x \in 0 .. Physical - 1 : /\ (buckets_[x] = Uninitialized) <=> (x > insert_bucket)
                                      /\ x <= insert_bucket => Consistent(buckets_[x])
  BY RehashingShape
<1>2. /\ h1 \in 0 .. Physical - 1
      /\ HashOf(value) \in Hash
  BY PreferredRange DEF Shape, CallInv, Preferred
<1>3. meta_byte \in MetaByte /\ meta_byte # kEmpty
  BY <1>2, MetaBytes DEF OrderedByte
<1>4. /\ b \in Nat /\ b >= h1 /\ b >= insert_bucket /\ s \in SlotNumber
  BY <1>1, <1>2, FirstSlotRange DEF InsertTarget, At
<1>5. /\ next[1] \in {b, b + 1}
      /\ next[2] \in SlotNumber
  BY <1>4, FirstSlotRange, SizeAssumption DEF NextTarget, SlotNumber, NextAt
<1>6. b < Physical /\ next[1] < Physical
  BY <1>1, <1>4, <1>5 DEF InsertOverruns, Preferred, At, NextAt
<1>7. /\ buckets_' = StoreValue(opened, h1, b, s, meta_byte, value)
      /\ insert_bucket' = next[1]
      /\ insert_slot' = next[2]
  BY DEF InsertAscending, Preferred, At, NextAt, Opened, OrderedByte
<1>8. /\ opened \in [0 .. Physical - 1 -> Bucket \cup {Uninitialized}]
      /\ \A x \in 0 .. Physical - 1 :
           opened[x] = IF insert_bucket + 1 <= x /\ x <= next[1] THEN InitBucket
                       ELSE buckets_[x]
  BY <1>1, <1>4, <1>5, InitBucketsRange DEF Opened
<1>9. /\ \A x \in 0 .. Physical - 1 : (opened[x] = Uninitialized) <=> (x > next[1])
      /\ \A x \in 0 .. Physical - 1 : opened[x] # Uninitialized => Consistent(opened[x])
  BY <1>1, <1>4, <1>5, <1>8, InitBucketConsistent
<1>10. opened[b] \in Bucket /\ opened[h1] \in Bucket /\ b \in 0 .. Physical - 1
  BY <1>1, <1>2, <1>4, <1>5, <1>6, <1>9 DEF Consistent
<1>11. Stores(Physical, opened, h1, b, s, meta_byte, value, buckets_')
  BY <1>1, <1>2, <1>3, <1>4, <1>7, <1>8, <1>10, StoreValueStores
<1>12. next[1] \in 0 .. Physical - 1
  BY <1>1, <1>4, <1>5, <1>6
<1> QED
  BY <1>2, <1>3, <1>4, <1>5, <1>7, <1>8, <1>9, <1>10, <1>11, <1>12

\* It leaves every open bucket consistent.
LEMMA InsertAscendingShape ==
  ASSUME Shape, Rehashing, NEW value \in Values,
         ~InsertOverruns(value), InsertAscending(value)
  PROVE  /\ size_' \in Nat
         /\ BucketsTyped(buckets_', logical_size_)
         /\ insert_bucket' \in Nat /\ insert_bucket' < Physical
         /\ insert_slot' \in SlotNumber
         /\ \A b \in DOMAIN buckets_' : (buckets_'[b] = Uninitialized) <=> (b > insert_bucket')
         /\ \A b \in DOMAIN buckets_' :
              buckets_'[b] # Uninitialized => Consistent(buckets_'[b])
<1> DEFINE b == At(value)[1]
           s == At(value)[2]
           opened == Opened(value)
<1>1. /\ b \in 0 .. Physical - 1 /\ s \in SlotNumber /\ opened[b] \in Bucket
      /\ Stores(Physical, opened, Preferred(value), b, s, OrderedByte(value), value, buckets_')
      /\ OrderedByte(value) \in MetaByte /\ OrderedByte(value) # kEmpty
  BY InsertAscendingStores
<1>2. /\ insert_bucket' \in 0 .. Physical - 1 /\ insert_slot' \in SlotNumber
      /\ \A x \in 0 .. Physical - 1 :
           /\ (opened[x] = Uninitialized) <=> (x > insert_bucket')
           /\ opened[x] # Uninitialized => Consistent(opened[x])
  BY InsertAscendingStores
<1> HIDE DEF b, s, opened
<1>3. ASSUME NEW x \in 0 .. Physical - 1, buckets_'[x] # Uninitialized
      PROVE  Consistent(buckets_'[x])
  <2>1. Consistent(opened[x])
    BY <1>1, <1>2, <1>3 DEF Stores
  <2>2. CASE x # b
    BY <1>1, <2>1, <2>2 DEF Stores, Consistent
  <2>3. CASE x = b
    <3>1. value # NoValue
      BY ValuesAssumption
    <3>2. opened[b].h2 \in [SlotNumber -> MetaByte]
          /\ opened[b].slots \in [SlotNumber -> Values \cup {NoValue}]
      BY <1>1 DEF Bucket
    <3> QED BY <1>1, <2>1, <2>3, <3>1, <3>2 DEF Stores, Consistent
  <2> QED BY <2>2, <2>3
<1>4. size_' \in Nat
  BY DEF InsertAscending, Shape, TypeOK
<1>5. Physical \in Nat
  BY RehashingShape
<1>6. /\ buckets_' \in [0 .. Physical - 1 -> Bucket \cup {Uninitialized}]
      /\ \A x \in 0 .. Physical - 1 :
           (buckets_'[x] = Uninitialized) <=> (x > insert_bucket')
  BY <1>1, <1>2 DEF Stores
<1> QED
  BY <1>2, <1>3, <1>4, <1>5, <1>6 DEF BucketsTyped, Physical

\* The source is an array of initialised buckets.
LEMMA SourceTyped ==
  ASSUME Shape
  PROVE  /\ SourcePhysical \in Nat
         /\ DOMAIN source = 0 .. SourcePhysical - 1
         /\ source \in [0 .. SourcePhysical - 1 -> Bucket]
<1>1. source_logical_size \in Nat
  BY SizeAssumption DEF Shape, TypeOK
<1>2. SourcePhysical \in Nat
  BY <1>1, PhysicalRange DEF SourcePhysical
<1>3. source \in [0 .. SourcePhysical - 1 -> Bucket \cup {Uninitialized}]
  BY DEF Shape, TypeOK, BucketsTyped, SourcePhysical
<1> QED BY <1>2, <1>3 DEF Shape, SourceInv

\* An item of the heap leads to an object.
LEMMA HeapValue ==
  ASSUME Shape, NEW item \in heap
  PROVE  /\ item.bucket \in DOMAIN source /\ item.slot \in SlotNumber
         /\ source[item.bucket].slots[item.slot] \in Values
<1>1. item.bucket \in DOMAIN source /\ item.slot \in SlotNumber
  BY DEF Shape, TypeOK, HeapInv
<1>2. source[item.bucket] \in Bucket
  BY <1>1, SourceTyped
<1>3. source[item.bucket].slots[item.slot] # NoValue
  BY <1>1 DEF Shape, SourceInv
<1> QED BY <1>1, <1>2, <1>3 DEF Bucket

\* An object moved out of the heap is gone from the source and from the heap.
LEMMA MoveFromHeap ==
  ASSUME Shape, NEW item \in heap, heap' = heap \ {item},
         source' = [source EXCEPT ![item.bucket].slots[item.slot] = NoValue],
         source_logical_size' = source_logical_size
  PROVE  /\ BucketsTyped(source', source_logical_size')
         /\ SourceInv' /\ HeapInv'
<1>1. /\ source \in [0 .. SourcePhysical - 1 -> Bucket]
      /\ item.bucket \in 0 .. SourcePhysical - 1 /\ item.slot \in SlotNumber
      /\ source[item.bucket] \in Bucket
  BY SourceTyped, HeapValue
<1>2. /\ source' \in [0 .. SourcePhysical - 1 -> Bucket]
      /\ \A b \in 0 .. SourcePhysical - 1 :
           /\ source'[b].h2 = source[b].h2
           /\ \A s \in SlotNumber : source'[b].slots[s] =
                IF b = item.bucket /\ s = item.slot THEN NoValue ELSE source[b].slots[s]
  BY <1>1 DEF Bucket
<1>3. BucketsTyped(source', source_logical_size')
  BY <1>2 DEF BucketsTyped, SourcePhysical
<1>4. /\ \A i \in heap : /\ i.bucket \in 0 .. SourcePhysical - 1
                         /\ i.slot \in SlotNumber
                         /\ source[i.bucket].h2[i.slot] = kEmpty
      /\ \A i, j \in heap : i.bucket = j.bucket /\ i.slot = j.slot => i = j
  BY SourceTyped DEF Shape, TypeOK, HeapInv
<1>5. HeapInv'
  BY <1>2, <1>4 DEF HeapInv
<1>6. SourceInv'
  <2> SUFFICES ASSUME NEW b \in 0 .. SourcePhysical - 1, NEW s \in SlotNumber
               PROVE  source'[b].slots[s] = NoValue <=>
                        source'[b].h2[s] = kEmpty
                        /\ ~\E i \in heap' : i.bucket = b /\ i.slot = s
    BY <1>2 DEF SourceInv
  <2>1. source[b].slots[s] = NoValue <=>
          source[b].h2[s] = kEmpty /\ ~\E i \in heap : i.bucket = b /\ i.slot = s
    BY SourceTyped DEF Shape, SourceInv
  <2>2. CASE b = item.bucket /\ s = item.slot
    BY <1>2, <1>4, <2>2
  <2>3. CASE ~(b = item.bucket /\ s = item.slot)
    BY <1>2, <2>1, <2>3
  <2> QED BY <2>2, <2>3
<1> QED BY <1>3, <1>5, <1>6

\* An object moved straight out of the scanned bucket leaves an empty slot.
LEMMA MoveFromSlot ==
  ASSUME Shape, NEW b \in DOMAIN source, NEW s \in SlotNumber, source[b].h2[s] # kEmpty,
         heap' = heap,
         source' = [source EXCEPT ![b].slots[s] = NoValue, ![b].h2[s] = kEmpty],
         source_logical_size' = source_logical_size
  PROVE  /\ BucketsTyped(source', source_logical_size')
         /\ SourceInv' /\ HeapInv'
<1>1. /\ source \in [0 .. SourcePhysical - 1 -> Bucket]
      /\ b \in 0 .. SourcePhysical - 1
      /\ source[b] \in Bucket
  BY SourceTyped
<1> DEFINE f == [source EXCEPT ![b].slots[s] = NoValue]
<1>2. /\ f \in [0 .. SourcePhysical - 1 -> Bucket]
      /\ \A x \in 0 .. SourcePhysical - 1 :
           /\ f[x].h2 = source[x].h2
           /\ \A y \in SlotNumber : f[x].slots[y] =
                IF x = b /\ y = s THEN NoValue ELSE source[x].slots[y]
  BY <1>1 DEF Bucket
<1>3. source' = [f EXCEPT ![b].h2[s] = kEmpty]
  OBVIOUS
<1> HIDE DEF f
<1>4. /\ source' \in [0 .. SourcePhysical - 1 -> Bucket]
      /\ \A x \in 0 .. SourcePhysical - 1 :
           /\ source'[x].slots = f[x].slots
           /\ \A y \in SlotNumber : source'[x].h2[y] =
                IF x = b /\ y = s THEN kEmpty ELSE f[x].h2[y]
  <2>1. WritesByte(0 .. SourcePhysical - 1, f, source', b, s, kEmpty)
    BY <1>1, <1>2, <1>3, EmptyTyped DEF WritesByte
  <2>2. ByteEffect(0 .. SourcePhysical - 1, f, source', b, s, kEmpty)
    BY <2>1, ByteWritten
  <2> QED BY <2>2 DEF ByteEffect
<1>5. BucketsTyped(source', source_logical_size')
  BY <1>4 DEF BucketsTyped, SourcePhysical
<1>6. /\ \A i \in heap : /\ i.bucket \in 0 .. SourcePhysical - 1
                         /\ i.slot \in SlotNumber
                         /\ source[i.bucket].h2[i.slot] = kEmpty
      /\ \A i, j \in heap : i.bucket = j.bucket /\ i.slot = j.slot => i = j
  BY SourceTyped DEF Shape, TypeOK, HeapInv
<1>7. HeapInv'
  BY <1>2, <1>4, <1>6 DEF HeapInv
<1>8. SourceInv'
  <2> SUFFICES ASSUME NEW x \in 0 .. SourcePhysical - 1, NEW y \in SlotNumber
               PROVE  source'[x].slots[y] = NoValue <=>
                        source'[x].h2[y] = kEmpty
                        /\ ~\E i \in heap : i.bucket = x /\ i.slot = y
    <3>1. DOMAIN source' = 0 .. SourcePhysical - 1
      BY <1>4, Zenon
    <3>2. \A x \in 0 .. SourcePhysical - 1 : source'[x] \in Bucket
      BY <1>4, Zenon
    <3> QED BY <3>1, <3>2, Zenon DEF SourceInv
  <2>1. source[x].slots[y] = NoValue <=>
          source[x].h2[y] = kEmpty /\ ~\E i \in heap : i.bucket = x /\ i.slot = y
    BY SourceTyped DEF Shape, SourceInv
  <2>2. CASE x = b /\ y = s
    <3>1. ~\E i \in heap : i.bucket = b /\ i.slot = s
      BY <1>6
    <3>2. source'[b].slots[s] = NoValue
      BY <1>1, <1>2, <1>4
    <3>3. source'[x].h2[y] = kEmpty
      BY <1>4, <2>2, Zenon
    <3> QED BY <2>2, <3>1, <3>2, <3>3
  <2>3. CASE ~(x = b /\ y = s)
    <3>1. source'[x].slots[y] = source[x].slots[y] /\ source'[x].h2[y] = source[x].h2[y]
      <4>1. source'[x].slots = f[x].slots /\ f[x].h2 = source[x].h2
        BY <1>2, <1>4
      <4>2. f[x].slots[y] = source[x].slots[y]
        BY <1>2, <2>3
      <4>3. source'[x].h2[y] = f[x].h2[y]
        BY <1>4, <2>3
      <4> QED BY <4>1, <4>2, <4>3
    <3> QED BY <2>1, <3>1
  <2> QED BY <2>2, <2>3
<1> QED BY <1>5, <1>7, <1>8

\* A failed assert leaves everything as it was.
LEMMA AbortShape ==
  ASSUME Shape, pc' = "aborted", slot_number' \in 0 .. kSlotsPerBucket,
         UNCHANGED <<hasher, table, call, result, source_logical_size, source, heap,
                     disordered_bucket, bucket_number, target>>
  PROVE  Shape'
BY DEF Shape, TypeOK, BucketsTyped, CallInv, NewInv, InitializedPrefix, SourceInv,
       HeapInv, ScanInv, Rehashing, AtRest, Physical, SourcePhysical, table, target

\* An ascending insert of a value moved out of the source.
LEMMA MoveShape ==
  ASSUME Shape, Rehashing, NEW value \in Values,
         ~InsertOverruns(value), InsertAscending(value),
         heap' \subseteq heap, slot_number' \in 0 .. kSlotsPerBucket,
         BucketsTyped(source', source_logical_size'), SourceInv', HeapInv',
         UNCHANGED <<hasher, call, result, source_logical_size, disordered_bucket,
                     bucket_number>>
  PROVE  Shape'
<1>1. UNCHANGED <<logical_size_, pc>>
  BY DEF InsertAscending
<1>2. TypeOK'
  BY <1>1, InsertAscendingShape DEF Shape, TypeOK
<1>3. CallInv'
  BY <1>1 DEF Shape, CallInv, Rehashing
<1>4. NewInv'
  BY <1>1, InsertAscendingShape
  DEF NewInv, InitializedPrefix, Rehashing, AtRest, Physical
<1>5. ScanInv'
  BY <1>1 DEF Shape, ScanInv, Rehashing, AtRest, SourcePhysical
<1> QED BY <1>2, <1>3, <1>4, <1>5 DEF Shape

\* insert_from_heap
LEMMA InsertFromHeapShape ==
  ASSUME Shape, Rehashing, InsertFromHeap, slot_number' \in 0 .. kSlotsPerBucket,
         UNCHANGED <<hasher, call, result, source_logical_size, disordered_bucket,
                     bucket_number>>
  PROVE  Shape'
<1>1. PICK item \in heap :
        LET value == source[item.bucket].slots[item.slot]
        IN  IF InsertOverruns(value)
            THEN pc' = "aborted" /\ UNCHANGED <<table, target, heap, source>>
            ELSE /\ InsertAscending(value)
                 /\ heap' = heap \ {item}
                 /\ source' = [source EXCEPT ![item.bucket].slots[item.slot] = NoValue]
  BY DEF InsertFromHeap
<1> DEFINE value == source[item.bucket].slots[item.slot]
<1>2. CASE InsertOverruns(value)
  BY <1>1, <1>2, AbortShape
<1>3. CASE ~InsertOverruns(value)
  <2>1. /\ InsertAscending(value)
        /\ heap' = heap \ {item}
        /\ source' = [source EXCEPT ![item.bucket].slots[item.slot] = NoValue]
    BY <1>1, <1>3
  <2>2. value \in Values
    BY HeapValue
  <2> HIDE DEF value
  <2>3. BucketsTyped(source', source_logical_size') /\ SourceInv' /\ HeapInv'
    BY <2>1, MoveFromHeap
  <2> QED BY <1>3, <2>1, <2>2, <2>3, MoveShape
<1> QED BY <1>2, <1>3

\* A call that does not rehash may change the buckets, all of which stay
\* initialised and consistent.
LEMMA CallShape ==
  ASSUME Shape, AtRest, pc' = "idle",
         call' \in {call, Idle},
         result' \in {"void", "inserted", "present", "erased", "absent"},
         size_' \in Nat, size_' > 0 => logical_size_' > 0,
         logical_size_' \in 0 .. MaxLogicalSize,
         buckets_' \in [0 .. PhysicalSize(logical_size_') - 1 -> Bucket],
         \A b \in DOMAIN buckets_' : Consistent(buckets_'[b]),
         UNCHANGED <<hasher, scan, target>>
  PROVE  Shape'
<1>1. call' \in [op : {"idle", "insert", "reserve", "rehash"},
                 value : Values \cup {NoValue}, count : Nat]
      /\ (call'.op = "insert" => call'.value \in Values)
  BY DEF Shape, TypeOK, CallInv, Idle
<1>2. \A b \in DOMAIN buckets_' : buckets_'[b] # Uninitialized
  BY UninitializedAssumption
<1>3. TypeOK'
  BY <1>1 DEF Shape, TypeOK, BucketsTyped, scan, target
<1>4. CallInv'
  BY <1>1 DEF CallInv, Rehashing
<1>5. NewInv'
  BY <1>2 DEF NewInv, InitializedPrefix, Rehashing
<1>6. SourceInv' /\ HeapInv' /\ ScanInv'
  BY DEF Shape, SourceInv, HeapInv, ScanInv, Rehashing, AtRest, SourcePhysical, scan, target
<1> QED BY <1>3, <1>4, <1>5, <1>6 DEF Shape

\* erase() empties one slot of a bucket and leaves the bucket consistent.
LEMMA EraseAtShape ==
  ASSUME Shape, AtRest, NEW p \in (0 .. Physical - 1) \X SlotNumber, EraseAt(p)
  PROVE  /\ size_' \in Nat /\ logical_size_' = logical_size_ /\ logical_size_ > 0
         /\ buckets_' \in [0 .. Physical - 1 -> Bucket]
         /\ \A b \in 0 .. Physical - 1 : Consistent(buckets_'[b])
<1>1. size_' \in Nat /\ logical_size_' = logical_size_ /\ logical_size_ > 0
  BY DEF EraseAt, Shape, TypeOK, CallInv
<1>2. buckets_ \in [0 .. Physical - 1 -> Bucket \cup {Uninitialized}]
  BY DEF Shape, TypeOK, BucketsTyped, Physical
<1>3. buckets_ \in [0 .. Physical - 1 -> Bucket]
      /\ \A b \in 0 .. Physical - 1 : Consistent(buckets_[b])
  BY <1>2, AtRestShape DEF Consistent
<1> DEFINE f == [buckets_ EXCEPT ![p[1]].h2[p[2]] = kEmpty]
<1>4. /\ f \in [0 .. Physical - 1 -> Bucket]
      /\ \A x \in 0 .. Physical - 1 :
           /\ f[x].slots = buckets_[x].slots
           /\ \A y \in SlotNumber : f[x].h2[y] =
                IF x = p[1] /\ y = p[2] THEN kEmpty ELSE buckets_[x].h2[y]
  <2>1. WritesByte(0 .. Physical - 1, buckets_, f, p[1], p[2], kEmpty)
    BY <1>3, EmptyTyped DEF WritesByte
  <2>2. ByteEffect(0 .. Physical - 1, buckets_, f, p[1], p[2], kEmpty)
    BY <2>1, ByteWritten
  <2> QED BY <2>2 DEF ByteEffect
<1>5. buckets_' = [f EXCEPT ![p[1]].slots[p[2]] = NoValue]
  BY DEF EraseAt
<1> HIDE DEF f
<1>6. /\ buckets_' \in [0 .. Physical - 1 -> Bucket]
      /\ \A x \in 0 .. Physical - 1 :
           /\ buckets_'[x].h2 = f[x].h2
           /\ \A y \in SlotNumber : buckets_'[x].slots[y] =
                IF x = p[1] /\ y = p[2] THEN NoValue ELSE f[x].slots[y]
  BY <1>4, <1>5 DEF Bucket
<1>7. \A b \in 0 .. Physical - 1 : Consistent(buckets_'[b])
  BY <1>3, <1>4, <1>6 DEF Consistent
<1> QED BY <1>1, <1>6, <1>7

-----------------------------------------------------------------------------
(* One lemma per action *)

\* insert() up to its rehash keeps the shape.
LEMMA InsertShape ==
  ASSUME Shape, NEW value \in Values, Insert(value)
  PROVE  Shape'
<1>1. CASE NeedsRehash(logical_size_, size_ + 1)
  <2>1. /\ StartRehash(RehashedSlots(size_ + 1))
        /\ AtRest
        /\ hasher' = hasher
        /\ call' = [op |-> "insert", value |-> value, count |-> 0]
    BY <1>1 DEF Insert, AtRest
  <2> QED BY <2>1, StartRehashShape
<1>2. CASE ~NeedsRehash(logical_size_, size_ + 1)
  <2>1. logical_size_ > 0
    BY <1>2, EmptyNeedsRehash, SizeAssumption DEF Shape, TypeOK
  <2>2. /\ pc = "idle" /\ pc' = "insert"
        /\ call' = [op |-> "insert", value |-> value, count |-> 0]
        /\ UNCHANGED <<hasher, table, result, scan, target>>
    BY <1>2 DEF Insert
  <2> QED
    BY <2>1, <2>2 DEF Shape, TypeOK, BucketsTyped, CallInv, NewInv, InitializedPrefix,
      SourceInv, HeapInv, ScanInv, Rehashing, AtRest, Physical, SourcePhysical,
      table, scan, target
<1> QED BY <1>1, <1>2

\* erase(iterator) keeps the shape.
LEMMA EraseIteratorShape ==
  ASSUME Shape, NEW p \in (DOMAIN buckets_) \X SlotNumber, EraseIterator(p)
  PROVE  Shape'
<1>1. /\ AtRest /\ pc' = "idle" /\ call' = Idle /\ result' = "erased"
      /\ EraseAt(p)
      /\ UNCHANGED <<hasher, scan, target>>
  BY DEF EraseIterator, Return, AtRest
<1>2. p \in (0 .. Physical - 1) \X SlotNumber
  BY <1>1, AtRestShape
<1> QED
  BY <1>1, <1>2, EraseAtShape, CallShape DEF Physical, Shape, TypeOK

\* A lookup in a table with elements finds slots the table has.
LEMMA FindRange ==
  ASSUME Shape, AtRest, NEW key \in Keys
  PROVE  Find(key) \subseteq (0 .. Physical - 1) \X SlotNumber
<1> SUFFICES ASSUME NEW p \in Find(key)
             PROVE  p \in (0 .. Physical - 1) \X SlotNumber
  OBVIOUS
<1>1. size_ # 0 /\ p \in Matches(key, FindDistance(key))
  BY DEF Find, First
<1>2. logical_size_ \in Nat \ {0}
  BY <1>1, SizeAssumption DEF Shape, TypeOK, CallInv
<1>3. hasher[key] \in Hash
  BY HashAssumption DEF Shape, TypeOK, Hash
<1>4. H1(hasher[key], logical_size_) \in 0 .. Physical - 1 /\ Physical \in Nat
  BY <1>2, <1>3, H1Range, PhysicalRange DEF Physical
<1>5. FindDistance(key) \in Nat
  BY <1>4, AtRestShape, SizeAssumption
  DEF FindDistance, SearchDistance, MaxOf, Consistent, Bucket
<1> QED
  BY <1>1, <1>4, <1>5 DEF Matches

\* erase(key) keeps the shape, whether it finds the key or not.
LEMMA EraseKeyShape ==
  ASSUME Shape, NEW key \in Keys, EraseKey(key)
  PROVE  Shape'
<1>1. AtRest /\ UNCHANGED <<hasher, scan, target>>
  BY DEF EraseKey, AtRest
<1>2. CASE pc' = "aborted" /\ UNCHANGED <<table, call, result>>
  BY <1>1, <1>2, AbortShape DEF scan, target, Shape, TypeOK
<1>3. CASE Return("absent") /\ UNCHANGED table
  <2>1. /\ buckets_ \in [0 .. PhysicalSize(logical_size_) - 1 -> Bucket]
        /\ \A b \in DOMAIN buckets_ : Consistent(buckets_[b])
    BY <1>1, AtRestShape DEF Consistent, Shape, TypeOK, BucketsTyped, Physical
  <2>2. /\ size_ \in Nat /\ logical_size_ \in 0 .. MaxLogicalSize
        /\ size_ > 0 => logical_size_ > 0
    BY DEF Shape, TypeOK, CallInv
  <2> QED BY <1>1, <1>3, <2>1, <2>2, CallShape DEF Return, table
<1>4. CASE \E p \in Find(key) : EraseAt(p) /\ Return("erased")
  <2>1. PICK p \in (0 .. Physical - 1) \X SlotNumber : EraseAt(p) /\ Return("erased")
    BY <1>1, <1>4, FindRange
  <2> QED
    BY <1>1, <2>1, EraseAtShape, CallShape DEF Return, Physical, Shape, TypeOK
<1> QED BY <1>2, <1>3, <1>4 DEF EraseKey

\* clear() leaves an empty table, which is in shape.
LEMMA ClearShape ==
  ASSUME Shape, Clear
  PROVE  Shape'
<1>1. /\ AtRest /\ pc' = "idle" /\ call' = Idle /\ result' = "void"
      /\ size_' = 0 /\ logical_size_' = 0 /\ buckets_' = NewBuckets(0)
      /\ UNCHANGED <<hasher, scan, target>>
  BY DEF Clear, Return, AtRest
<1>2. PhysicalSize(0) = 0
  BY PhysicalRange
<1>3. buckets_' \in [0 .. PhysicalSize(logical_size_') - 1 -> Bucket] /\ DOMAIN buckets_' = {}
  BY <1>1, <1>2 DEF NewBuckets
<1> QED BY <1>1, <1>3, CallShape, SizeAssumption

\* reserve() keeps the shape, whether it starts a rehash or returns.
LEMMA ReserveShape ==
  ASSUME Shape, NEW count \in ReserveCounts, Reserve(count)
  PROVE  Shape'
<1> DEFINE slots == MaxOf(FullSlots(count), Ceil(LogicalSlotCount(logical_size_) * 8, 7))
<1>1. AtRest /\ hasher' = hasher
  BY DEF Reserve, AtRest
<1>2. CASE NeedsRehash(logical_size_, count)
  <2>1. /\ StartRehash(slots)
        /\ call' = [op |-> "reserve", value |-> NoValue, count |-> count]
    BY <1>2 DEF Reserve
  <2> HIDE DEF slots
  <2> QED BY <1>1, <2>1, StartRehashShape, CountsAssumption
<1>3. CASE ~NeedsRehash(logical_size_, count)
  <2>1. Return("void") /\ UNCHANGED <<table, scan, target>>
    BY <1>3 DEF Reserve
  <2>2. /\ buckets_ \in [0 .. PhysicalSize(logical_size_) - 1 -> Bucket]
        /\ \A b \in DOMAIN buckets_ : Consistent(buckets_[b])
    BY <1>1, AtRestShape DEF Consistent, Shape, TypeOK, BucketsTyped, Physical
  <2>3. /\ size_ \in Nat /\ logical_size_ \in 0 .. MaxLogicalSize
        /\ size_ > 0 => logical_size_ > 0
    BY DEF Shape, TypeOK, CallInv
  <2> QED BY <1>1, <2>1, <2>2, <2>3, CallShape DEF Return, table
<1> QED BY <1>2, <1>3

\* rehash() keeps the shape as it starts.
LEMMA RehashShape ==
  ASSUME Shape, NEW count \in RehashCounts, Rehash(count)
  PROVE  Shape'
<1>1. /\ AtRest /\ hasher' = hasher
      /\ call' = [op |-> "rehash", value |-> NoValue, count |-> count]
      /\ StartRehash(count)
  BY DEF Rehash, AtRest
<1> QED BY <1>1, StartRehashShape, CountsAssumption

\* Placing the value of an insert keeps the shape.
LEMMA PlaceValueShape ==
  ASSUME Shape, PlaceValue
  PROVE  Shape'
<1> DEFINE value == call.value
           key == KeyOf[value]
           preferred == H1(HashOf(value), logical_size_)
           meta_byte == SetUnorderedValue(H2(HashOf(value)))
<1>1. /\ AtRest /\ value \in Values /\ logical_size_ \in Nat \ {0}
      /\ UNCHANGED <<hasher, scan, target>>
  BY SizeAssumption DEF PlaceValue, AtRest, Shape, TypeOK, CallInv
<1>2. /\ buckets_ \in [0 .. Physical - 1 -> Bucket]
      /\ \A b \in 0 .. Physical - 1 : Consistent(buckets_[b])
  BY <1>1, AtRestShape DEF Consistent, Shape, TypeOK, BucketsTyped, Physical
<1>3. /\ size_ \in Nat /\ logical_size_ \in 0 .. MaxLogicalSize /\ Physical \in Nat
  BY <1>1, PhysicalRange DEF Shape, TypeOK, Physical
<1>4. CASE Return("present") /\ UNCHANGED table
  BY <1>1, <1>2, <1>3, <1>4, CallShape DEF Return, table, Physical
<1>5. CASE pc' = "aborted" /\ UNCHANGED <<call, result, table>>
  BY <1>1, <1>5, AbortShape DEF scan, target, Shape, TypeOK
<1>6. CASE /\ \E i \in Least(OpenOffsets(preferred)) :
                \E s \in Least(FindEmpties(buckets_[preferred + i])) :
                  buckets_' = StoreValue(buckets_, preferred, preferred + i, s, meta_byte, value)
           /\ size_' = size_ + 1
           /\ Return("inserted")
           /\ UNCHANGED logical_size_
  <2>1. PICK i \in OpenOffsets(preferred) :
          \E s \in SlotNumber :
            buckets_' = StoreValue(buckets_, preferred, preferred + i, s, meta_byte, value)
    BY <1>6 DEF Least, FindEmpties
  <2>2. PICK s \in SlotNumber :
          buckets_' = StoreValue(buckets_, preferred, preferred + i, s, meta_byte, value)
    BY <2>1
  <2>3. preferred \in 0 .. Physical - 1 /\ HashOf(value) \in Hash
    BY <1>1, PreferredRange DEF Shape
  <2>4. meta_byte \in MetaByte /\ meta_byte # kEmpty
    BY <2>3, MetaBytes
  <2> HIDE DEF preferred, meta_byte, value
  <2>5. i \in Nat /\ preferred + i \in 0 .. Physical - 1 /\ preferred <= preferred + i
    BY <1>3, <2>3, SizeAssumption DEF OpenOffsets
  <2>6. Stores(Physical, buckets_, preferred, preferred + i, s, meta_byte, value, buckets_')
    BY <1>1, <1>2, <1>3, <2>2, <2>3, <2>4, <2>5, StoreValueStores
  <2>7. ASSUME NEW b \in 0 .. Physical - 1
        PROVE  Consistent(buckets_'[b])
    <3>1. CASE b # preferred + i
      BY <1>2, <2>6, <3>1 DEF Stores, Consistent
    <3>2. CASE b = preferred + i
      <4>1. value # NoValue
        BY <1>1, ValuesAssumption
      <4>2. buckets_[b].h2 \in [SlotNumber -> MetaByte]
            /\ buckets_[b].slots \in [SlotNumber -> Values \cup {NoValue}]
        BY <1>2 DEF Bucket
      <4> QED BY <1>2, <2>4, <2>6, <3>2, <4>1, <4>2 DEF Stores, Consistent
    <3> QED BY <3>1, <3>2
  <2>8. buckets_' \in [0 .. Physical - 1 -> Bucket]
    BY <2>6, <2>7 DEF Stores, Consistent
  <2> QED
    BY <1>1, <1>3, <1>6, <2>7, <2>8, CallShape DEF Return, Physical
<1> QED BY <1>4, <1>5, <1>6 DEF PlaceValue

\* GetDisorderedValues hands slots from the meta bytes to the heap and keeps the
\* shape.
LEMMA GetDisorderedValuesShape ==
  ASSUME Shape, GetDisorderedValues
  PROVE  Shape'
<1> DEFINE
      pushed == UNION {[by : {bucket_number}, bucket : {b},
                        slot : DisorderedSlots(source[b])] : b \in CoveredBuckets}
      distance == source[bucket_number].search_distance
<1>1. /\ Rehashing /\ pc = "collect" /\ bucket_number < SourcePhysical /\ slot_number' = 0
      /\ UNCHANGED <<hasher, table, call, result, source_logical_size, bucket_number, target>>
  BY DEF GetDisorderedValues, Rehashing
<1>2. slot_number' \in 0 .. kSlotsPerBucket
  BY <1>1, SizeAssumption
<1>3. CASE pc' = "aborted" /\ UNCHANGED <<source, heap, disordered_bucket>>
  BY <1>1, <1>2, <1>3, AbortShape
<1>4. ASSUME pc' = "scan", TypeOK', SourceInv', HeapInv'
      PROVE  Shape'
  <2>1. CallInv' /\ NewInv' /\ ScanInv'
    BY <1>1, <1>4
    DEF Shape, CallInv, NewInv, InitializedPrefix, ScanInv, Rehashing, AtRest,
        Physical, SourcePhysical, table, target
  <2> QED BY <1>4, <2>1 DEF Shape
<1>5. CASE pc' = "scan" /\ UNCHANGED <<source, heap, disordered_bucket>>
  <2>1. TypeOK' /\ SourceInv' /\ HeapInv'
    BY <1>1, <1>2, <1>5
    DEF Shape, TypeOK, BucketsTyped, SourceInv, HeapInv, table, target
  <2> QED BY <1>4, <1>5, <2>1
<1>6. CASE /\ ~\E b \in CoveredBuckets : b >= SourcePhysical
           /\ pc' = "scan"
           /\ heap' = heap \cup pushed
           /\ source' =
                [b \in DOMAIN source |->
                  IF b \notin CoveredBuckets THEN source[b]
                  ELSE [source[b] EXCEPT !.h2 =
                          [s \in SlotNumber |->
                             IF s \in DisorderedSlots(source[b]) THEN kEmpty ELSE @[s]]]]
           /\ disordered_bucket' = IF CoveredBuckets = {} THEN disordered_bucket
                                   ELSE bucket_number + distance - 1
  <2>1. /\ SourcePhysical \in Nat /\ bucket_number \in 0 .. SourcePhysical - 1
        /\ source \in [0 .. SourcePhysical - 1 -> Bucket]
        /\ DOMAIN source = 0 .. SourcePhysical - 1
    BY <1>1, SourceTyped DEF Shape, TypeOK
  <2>2. distance \in Nat
    BY <2>1, SizeAssumption DEF Bucket
  <2>3. CoveredBuckets \subseteq 0 .. SourcePhysical - 1
    BY <1>6, <2>1, <2>2 DEF CoveredBuckets
  <2>4. disordered_bucket' \in Nat
    <3>1. disordered_bucket \in Nat
      BY DEF Shape, TypeOK
    <3>2. CASE CoveredBuckets = {}
      BY <1>6, <3>1, <3>2
    <3>3. CASE CoveredBuckets # {}
      <4>1. distance > 0
        BY <2>1, <2>2, <3>3 DEF CoveredBuckets
      <4> HIDE DEF distance
      <4>2. disordered_bucket' = bucket_number + distance - 1
        BY <1>6, <3>3 DEF distance
      <4> QED BY <2>1, <2>2, <4>1, <4>2
    <3> QED BY <3>2, <3>3
  <2>5. \A i \in pushed : /\ i.by = bucket_number /\ i.bucket \in CoveredBuckets
                          /\ i.slot \in DisorderedSlots(source[i.bucket])
                          /\ i = [by |-> bucket_number, bucket |-> i.bucket, slot |-> i.slot]
    OBVIOUS
  <2>6. \A b \in CoveredBuckets : \A s \in DisorderedSlots(source[b]) :
          \E i \in pushed : i.bucket = b /\ i.slot = s
    <3> TAKE b \in CoveredBuckets
    <3> TAKE s \in DisorderedSlots(source[b])
    <3>1. [by |-> bucket_number, bucket |-> b, slot |-> s] \in pushed
      OBVIOUS
    <3> QED BY <3>1
  <2> HIDE DEF pushed, distance
  <2>7. pushed \subseteq [by : Nat, bucket : Nat, slot : SlotNumber]
    <3>1. \A i \in pushed : i.bucket \in Nat /\ i.slot \in SlotNumber /\ i.by \in Nat
      BY <2>1, <2>3, <2>5 DEF DisorderedSlots
    <3> QED BY <2>5, <3>1
  <2>8. /\ source' \in [0 .. SourcePhysical - 1 -> Bucket]
        /\ \A b \in 0 .. SourcePhysical - 1 :
             /\ source'[b].slots = source[b].slots
             /\ \A s \in SlotNumber : source'[b].h2[s] =
                  IF b \in CoveredBuckets /\ s \in DisorderedSlots(source[b]) THEN kEmpty
                  ELSE source[b].h2[s]
    <3>1. ASSUME NEW b \in 0 .. SourcePhysical - 1
          PROVE  /\ source'[b] \in Bucket
                 /\ source'[b].slots = source[b].slots
                 /\ \A s \in SlotNumber : source'[b].h2[s] =
                      IF b \in CoveredBuckets /\ s \in DisorderedSlots(source[b]) THEN kEmpty
                      ELSE source[b].h2[s]
      <4> DEFINE h2 == [s \in SlotNumber |-> IF s \in DisorderedSlots(source[b]) THEN kEmpty
                                             ELSE source[b].h2[s]]
      <4>1. source[b] \in Bucket
        BY <2>1
      <4>2. h2 \in [SlotNumber -> MetaByte]
        BY <4>1 DEF Bucket, MetaByte
      <4>3. source'[b] = IF b \notin CoveredBuckets THEN source[b]
                         ELSE [source[b] EXCEPT !.h2 = h2]
        BY <1>6, <2>1
      <4>4. \A s \in SlotNumber : h2[s] = IF s \in DisorderedSlots(source[b]) THEN kEmpty
                                          ELSE source[b].h2[s]
        OBVIOUS
      <4> HIDE DEF h2
      <4> QED BY <4>1, <4>2, <4>3, <4>4 DEF Bucket
    <3>2. DOMAIN source' = 0 .. SourcePhysical - 1
          /\ source' = [b \in 0 .. SourcePhysical - 1 |-> source'[b]]
      BY <1>6, <2>1
    <3> QED BY <3>1, <3>2
  <2>9. TypeOK'
    BY <1>1, <1>2, <1>6, <2>4, <2>7, <2>8
    DEF Shape, TypeOK, BucketsTyped, SourcePhysical, table, target
  <2>10. \A b \in 0 .. SourcePhysical - 1 : \A s \in SlotNumber :
           s \in DisorderedSlots(source[b]) => source[b].h2[s] # kEmpty
    BY DEF DisorderedSlots, IsNonemptyAndDisordered, kEmpty, kOrderedMask
  <2>11. \A i \in heap : /\ i.bucket \in 0 .. SourcePhysical - 1 /\ i.slot \in SlotNumber
                         /\ source[i.bucket].h2[i.slot] = kEmpty
    BY <2>1 DEF Shape, TypeOK, HeapInv
  <2>12. \A i \in pushed : /\ i.bucket \in 0 .. SourcePhysical - 1 /\ i.slot \in SlotNumber
                           /\ source[i.bucket].h2[i.slot] # kEmpty
                           /\ source'[i.bucket].h2[i.slot] = kEmpty
    BY <2>3, <2>5, <2>8, <2>10 DEF DisorderedSlots
  <2>13. HeapInv'
    <3>1. \A i \in heap' : i.bucket \in DOMAIN source' /\ source'[i.bucket].h2[i.slot] = kEmpty
      BY <1>6, <2>8, <2>11, <2>12
    <3>2. ASSUME NEW i \in heap', NEW j \in heap', i.bucket = j.bucket, i.slot = j.slot
          PROVE  i = j
      <4>1. CASE i \in heap /\ j \in heap
        BY <3>2, <4>1 DEF Shape, HeapInv
      <4>2. CASE i \in pushed /\ j \in pushed
        BY <2>5, <3>2, <4>2
      <4>3. CASE (i \in pushed /\ j \in heap) \/ (i \in heap /\ j \in pushed)
        BY <2>11, <2>12, <3>2, <4>3
      <4> QED BY <1>6, <4>1, <4>2, <4>3
    <3> QED BY <3>1, <3>2 DEF HeapInv
  <2>14. SourceInv'
    <3> SUFFICES ASSUME NEW b \in 0 .. SourcePhysical - 1, NEW s \in SlotNumber
                 PROVE  source'[b].slots[s] = NoValue <=>
                          source'[b].h2[s] = kEmpty
                          /\ ~\E i \in heap' : i.bucket = b /\ i.slot = s
      BY <2>8 DEF SourceInv
    <3>1. source[b].slots[s] = NoValue <=>
            source[b].h2[s] = kEmpty /\ ~\E i \in heap : i.bucket = b /\ i.slot = s
      BY <2>1 DEF Shape, SourceInv
    <3>2. CASE b \in CoveredBuckets /\ s \in DisorderedSlots(source[b])
      BY <1>6, <2>6, <2>8, <2>10, <3>1, <3>2
    <3>3. CASE ~(b \in CoveredBuckets /\ s \in DisorderedSlots(source[b]))
      BY <1>6, <2>5, <2>8, <3>1, <3>3
    <3> QED BY <3>2, <3>3
  <2> QED BY <1>4, <1>6, <2>9, <2>13, <2>14
<1> QED
  BY <1>3, <1>5, <1>6 DEF GetDisorderedValues

\* A step of the scan keeps the shape.
LEMMA ScanBucketShape ==
  ASSUME Shape, ScanBucket
  PROVE  Shape'
<1>1. /\ Rehashing /\ bucket_number \in DOMAIN source
      /\ UNCHANGED <<hasher, call, result, source_logical_size, disordered_bucket,
                     bucket_number>>
  BY SourceTyped DEF ScanBucket, Rehashing, Shape, TypeOK, ScanInv
<1>2. PICK s \in OrderedAhead :
        LET value == source[bucket_number].slots[s]
        IN  IF \E item \in heap : HeapHash(item) < HashOf(value)
            THEN InsertFromHeap /\ slot_number' = s
            ELSE /\ slot_number' = s + 1
                 /\ UNCHANGED heap
                 /\ IF InsertOverruns(value)
                    THEN pc' = "aborted" /\ UNCHANGED <<table, target, source>>
                    ELSE /\ InsertAscending(value)
                         /\ source' = [source EXCEPT ![bucket_number].slots[s] = NoValue,
                                                     ![bucket_number].h2[s] = kEmpty]
  BY DEF ScanBucket, Least
<1> DEFINE value == source[bucket_number].slots[s]
<1>3. /\ s \in SlotNumber /\ source[bucket_number].h2[s] # kEmpty
      /\ s \in 0 .. kSlotsPerBucket /\ s + 1 \in 0 .. kSlotsPerBucket
  BY SizeAssumption
  DEF OrderedAhead, IsNonemptyAndOrdered, kEmpty, kOrderedMask, SlotNumber
<1>4. value \in Values
  BY <1>1, <1>3, SourceTyped DEF Shape, SourceInv, Bucket
<1>5. CASE \E item \in heap : HeapHash(item) < HashOf(value)
  <2>1. InsertFromHeap /\ slot_number' = s
    BY <1>2, <1>5
  <2> QED BY <1>1, <1>3, <2>1, InsertFromHeapShape
<1>6. CASE ~\E item \in heap : HeapHash(item) < HashOf(value)
  <2>1. /\ slot_number' = s + 1
        /\ UNCHANGED heap
        /\ IF InsertOverruns(value)
           THEN pc' = "aborted" /\ UNCHANGED <<table, target, source>>
           ELSE /\ InsertAscending(value)
                /\ source' = [source EXCEPT ![bucket_number].slots[s] = NoValue,
                                            ![bucket_number].h2[s] = kEmpty]
    BY <1>2, <1>6
  <2> HIDE DEF value
  <2>2. CASE InsertOverruns(value)
    BY <1>1, <1>3, <2>1, <2>2, AbortShape
  <2>3. CASE ~InsertOverruns(value)
    <3>1. BucketsTyped(source', source_logical_size') /\ SourceInv' /\ HeapInv'
      BY <1>1, <1>3, <2>1, <2>3, MoveFromSlot
    <3> QED BY <1>1, <1>3, <1>4, <2>1, <2>3, <3>1, MoveShape
  <2> QED BY <2>2, <2>3
<1> QED BY <1>5, <1>6

\* Advancing the scan keeps the shape.
LEMMA NextBucketShape ==
  ASSUME Shape, NextBucket
  PROVE  Shape'
<1>1. /\ pc = "scan" /\ pc' = "collect" /\ bucket_number' = bucket_number + 1
      /\ UNCHANGED <<hasher, table, call, result, source_logical_size, source, heap,
                     disordered_bucket, slot_number, target>>
  BY DEF NextBucket
<1>2. TypeOK' /\ CallInv' /\ NewInv' /\ SourceInv' /\ HeapInv'
  BY <1>1
  DEF Shape, TypeOK, BucketsTyped, CallInv, NewInv, InitializedPrefix, SourceInv,
      HeapInv, Rehashing, AtRest, Physical, table, target
<1>3. ScanInv'
  <2>1. bucket_number \in Nat /\ SourcePhysical \in Nat /\ bucket_number < SourcePhysical
    BY <1>1, SourceTyped DEF Shape, TypeOK, ScanInv
  <2>2. bucket_number + 1 <= SourcePhysical
    BY <2>1
  <2> QED BY <1>1, <2>2 DEF ScanInv, AtRest, SourcePhysical
<1> QED BY <1>2, <1>3 DEF Shape

\* A step of the loop that drains the heap keeps the shape.
LEMMA DrainHeapShape ==
  ASSUME Shape, DrainHeap
  PROVE  Shape'
BY InsertFromHeapShape DEF DrainHeap, Rehashing, Shape, TypeOK

\* FinishInsertAscending opens the buckets that are left: all are in shape.
LEMMA FinishRehashShape ==
  ASSUME Shape, FinishRehash
  PROVE  Shape'
<1> DEFINE opened == InitBuckets(buckets_, insert_bucket + 1, Physical - 1)
<1>1. /\ Rehashing /\ heap = {}
      /\ buckets_' = MarkEnd(opened)
      /\ source_logical_size' = 0
      /\ source' = NewBuckets(0)
      /\ bucket_number' = 0
      /\ disordered_bucket' = 0
      /\ slot_number' = 0
      /\ insert_bucket' = 0
      /\ insert_slot' = 0
      /\ IF call.op = "insert" THEN pc' = "insert" /\ UNCHANGED <<call, result>>
                               ELSE Return("void")
      /\ UNCHANGED <<hasher, size_, logical_size_, heap>>
  BY DEF FinishRehash, Rehashing
<1>2. /\ logical_size_ \in Nat \ {0} /\ Physical \in Nat \ {0}
      /\ insert_bucket \in 0 .. Physical - 1
      /\ buckets_ \in [0 .. Physical - 1 -> Bucket \cup {Uninitialized}]
      /\ \A x \in 0 .. Physical - 1 :
              /\ (buckets_[x] = Uninitialized) <=> (x > insert_bucket)
              /\ x <= insert_bucket => Consistent(buckets_[x])
  BY <1>1, RehashingShape
<1>3. /\ opened \in [0 .. Physical - 1 -> Bucket \cup {Uninitialized}]
      /\ \A x \in 0 .. Physical - 1 :
           opened[x] = IF insert_bucket + 1 <= x /\ x <= Physical - 1 THEN InitBucket
                       ELSE buckets_[x]
  BY <1>2, InitBucketsRange
<1> HIDE DEF opened
<1>4. \A x \in 0 .. Physical - 1 : Consistent(opened[x])
  BY <1>2, <1>3, InitBucketConsistent
<1>5. opened \in [0 .. Physical - 1 -> Bucket]
  BY <1>3, <1>4 DEF Consistent
<1>6. /\ buckets_' \in [0 .. Physical - 1 -> Bucket]
      /\ \A x \in 0 .. Physical - 1 : /\ buckets_'[x].h2 = opened[x].h2
                                      /\ buckets_'[x].slots = opened[x].slots
  <2>1. buckets_' = [opened EXCEPT ![Physical - 1].search_distance = kSearchDistanceEndSentinal]
    BY <1>1 DEF MarkEnd
  <2>2. kSearchDistanceEndSentinal \in 0 .. kSearchDistanceEndSentinal /\ Physical - 1 \in 0 .. Physical - 1
    BY <1>2, SizeAssumption
  <2> QED BY <1>5, <2>1, <2>2 DEF Bucket
<1>7. \A x \in 0 .. Physical - 1 : buckets_'[x] # Uninitialized /\ Consistent(buckets_'[x])
  BY <1>4, <1>6, UninitializedAssumption DEF Consistent
<1>8. /\ call' \in [op : {"idle", "insert", "reserve", "rehash"},
                    value : Values \cup {NoValue}, count : Nat]
      /\ call'.op = "insert" => call'.value \in Values
      /\ pc' \in {"idle", "insert"} /\ (pc' = "insert" => call'.op = "insert")
      /\ result' \in {"void", "inserted", "present", "erased", "absent"}
  BY <1>1 DEF Return, Idle, Shape, TypeOK, CallInv
<1>9. PhysicalSize(0) = 0
  BY PhysicalRange
<1>10. source' \in [0 .. PhysicalSize(0) - 1 -> Bucket \cup {Uninitialized}]
       /\ DOMAIN source' = {}
  BY <1>1, <1>9 DEF NewBuckets
<1>11. TypeOK'
  BY <1>1, <1>6, <1>8, <1>10, SizeAssumption
  DEF Shape, TypeOK, BucketsTyped, Physical, SlotNumber
<1>12. CallInv'
  BY <1>1, <1>2, <1>8 DEF CallInv
<1>13. NewInv'
  BY <1>6, <1>7, <1>8 DEF NewInv, InitializedPrefix, Rehashing
<1>14. SourceInv' /\ HeapInv' /\ ScanInv'
  BY <1>1, <1>8, <1>10 DEF SourceInv, HeapInv, ScanInv, Rehashing
<1> QED BY <1>11, <1>12, <1>13, <1>14 DEF Shape

-----------------------------------------------------------------------------
(* The invariant and what it implies *)

\* A table without buckets is in shape.
LEMMA InitShape == Init => Shape
<1> SUFFICES ASSUME Init PROVE Shape
  OBVIOUS
<1>1. PhysicalSize(0) = 0
  BY PhysicalRange
<1>2. NewBuckets(0) \in [0 .. PhysicalSize(0) - 1 -> Bucket \cup {Uninitialized}]
      /\ DOMAIN NewBuckets(0) = {}
  BY <1>1 DEF NewBuckets
<1>3. TypeOK
  BY <1>2, SizeAssumption DEF Init, TypeOK, BucketsTyped, Idle, SlotNumber
<1>4. CallInv
  BY DEF Init, CallInv, Idle, Rehashing
<1>5. NewInv
  BY <1>2 DEF Init, NewInv, InitializedPrefix, Rehashing
<1>6. SourceInv /\ HeapInv /\ ScanInv
  BY <1>2 DEF Init, SourceInv, HeapInv, ScanInv, Rehashing
<1> QED BY <1>3, <1>4, <1>5, <1>6 DEF Shape

\* Every step keeps the invariant.
LEMMA NextShape == Shape /\ [Next]_vars => Shape'
<1> SUFFICES ASSUME Shape, [Next]_vars PROVE Shape'
  OBVIOUS
<1>1. ASSUME NEW value \in Values, Insert(value) PROVE Shape'
  BY <1>1, InsertShape
<1>2. ASSUME NEW key \in Keys, EraseKey(key) PROVE Shape'
  BY <1>2, EraseKeyShape
<1>3. ASSUME NEW p \in (DOMAIN buckets_) \X SlotNumber, EraseIterator(p) PROVE Shape'
  BY <1>3, EraseIteratorShape
<1>4. CASE Clear
  BY <1>4, ClearShape
<1>5. ASSUME NEW count \in ReserveCounts, Reserve(count) PROVE Shape'
  BY <1>5, ReserveShape
<1>6. ASSUME NEW count \in RehashCounts, Rehash(count) PROVE Shape'
  BY <1>6, RehashShape
<1>7. CASE Step
  BY <1>7, PlaceValueShape, GetDisorderedValuesShape, ScanBucketShape,
     NextBucketShape, DrainHeapShape, FinishRehashShape DEF Step
<1>8. CASE UNCHANGED vars
  BY <1>8
  DEF vars, table, scan, target, Shape, TypeOK, BucketsTyped, CallInv, NewInv,
      InitializedPrefix, SourceInv, HeapInv, ScanInv, Rehashing, AtRest, Physical,
      SourcePhysical
<1> QED BY <1>1, <1>2, <1>3, <1>4, <1>5, <1>6, <1>7, <1>8 DEF Next

\* Shape is an invariant of the table.
THEOREM ShapeInvariant == Spec => []Shape
BY InitShape, NextShape, PTL DEF Spec

\* The variables keep the types of the C++ declarations: no search distance
\* or meta byte leaves its byte, no index goes past an array.
THEOREM TypeCorrect == Spec => []TypeOK
<1>1. Shape => TypeOK
  BY DEF Shape
<1> QED BY <1>1, ShapeInvariant, PTL

\* The comment of InsertAscending: a rehash reads no bucket it has not
\* initialised, and leaves none uninitialised.
THEOREM BucketsInitialized == Spec => []InitializedPrefix
<1>1. Shape => InitializedPrefix
  BY DEF Shape, NewInv
<1> QED BY <1>1, ShapeInvariant, PTL

\* An object is in a slot exactly when the meta byte says so or the heap of the
\* rehash refers to it, once: each object is destroyed exactly once.
THEOREM LifetimesCorrect == Spec => []SlotLifetimes
<1>1. ASSUME Shape PROVE SlotLifetimes
  <2>1. \A b \in DOMAIN source : source[b] # Uninitialized
    BY <1>1, UninitializedAssumption DEF Shape, SourceInv
  <2>2. Constructed(buckets_) = Occupied(buckets_)
    BY <1>1
    DEF Shape, NewInv, Consistent, Constructed, Occupied, Positions, ValueAt, MetaAt,
        IsEmpty
  <2>3. HeapSlots \subseteq Positions(source)
    BY <1>1, <2>1 DEF Shape, TypeOK, HeapInv, HeapSlots, Positions
  <2>4. ASSUME NEW p \in Positions(source)
        PROVE  /\ ValueAt(source, p) # NoValue <=>
                    ~IsEmpty(MetaAt(source, p)) \/ p \in HeapSlots
               /\ ~(~IsEmpty(MetaAt(source, p)) /\ p \in HeapSlots)
    <3>1. PICK b \in DOMAIN source, s \in SlotNumber : p = <<b, s>>
      BY DEF Positions
    <3>2. <<b, s>> \in HeapSlots <=> \E i \in heap : i.bucket = b /\ i.slot = s
      BY DEF HeapSlots
    <3>3. source[b].slots[s] = NoValue <=>
            source[b].h2[s] = kEmpty /\ ~\E i \in heap : i.bucket = b /\ i.slot = s
      BY <1>1 DEF Shape, SourceInv
    <3>4. \A i \in heap : i.bucket = b /\ i.slot = s => source[b].h2[s] = kEmpty
      BY <1>1 DEF Shape, HeapInv
    <3> QED BY <3>1, <3>2, <3>3, <3>4 DEF ValueAt, MetaAt, IsEmpty
  <2>5. Constructed(source) = Occupied(source) \cup HeapSlots
        /\ Occupied(source) \cap HeapSlots = {}
    BY <2>3, <2>4 DEF Constructed, Occupied
  <2>6. \A i, j \in heap : <<i.bucket, i.slot>> = <<j.bucket, j.slot>> => i = j
    BY <1>1 DEF Shape, HeapInv
  <2> QED BY <2>2, <2>5, <2>6 DEF SlotLifetimes
<1> QED BY <1>1, ShapeInvariant, PTL

-----------------------------------------------------------------------------
(* Effects: what each step does to the elements of the table, said in terms of
   Occupied, MetaAt and ValueAt: which element comes or goes, that no other one
   moves, and that no search distance shrinks. *)

\* The elements p of `old` are in `new` where they were.
Keeps(old, new, p) ==
  /\ MetaAt(new, p) = MetaAt(old, p)
  /\ ValueAt(new, p) = ValueAt(old, p)

Same(old, new) ==
  /\ Occupied(new) = Occupied(old)
  /\ \A p \in Occupied(old) : Keeps(old, new, p)

Adds(old, new, p, meta_byte, value) ==
  /\ p \notin Occupied(old)
  /\ Occupied(new) = Occupied(old) \cup {p}
  /\ \A q \in Occupied(old) : Keeps(old, new, q)
  /\ MetaAt(new, p) = meta_byte
  /\ ValueAt(new, p) = value

Removes(old, new, p) ==
  /\ p \in Occupied(old)
  /\ Occupied(new) = Occupied(old) \ {p}
  /\ \A q \in Occupied(new) : Keeps(old, new, q)

\* The search distances of the buckets open in `old` do not shrink.
Grows(old, new) ==
  \A b \in DOMAIN old : old[b] # Uninitialized =>
    /\ b \in DOMAIN new /\ new[b] # Uninitialized
    /\ old[b].search_distance <= new[b].search_distance

\* What it means for a slot to be occupied.
LEMMA OccupiedSlot ==
  ASSUME NEW buckets, NEW b, NEW s
  PROVE  <<b, s>> \in Occupied(buckets) <=>
           /\ b \in DOMAIN buckets /\ s \in SlotNumber
           /\ buckets[b] # Uninitialized
           /\ buckets[b].h2[s] # kEmpty
BY DEF Occupied, Positions, MetaAt, IsEmpty

\* An occupied position is a bucket and a slot.
LEMMA OccupiedPair ==
  ASSUME NEW buckets, NEW p \in Occupied(buckets)
  PROVE  /\ p = <<p[1], p[2]>>
         /\ p[1] \in DOMAIN buckets /\ p[2] \in SlotNumber
         /\ buckets[p[1]] # Uninitialized
         /\ buckets[p[1]].h2[p[2]] # kEmpty
BY DEF Occupied, Positions, MetaAt, IsEmpty

\* Opening untouched buckets adds no element.
LEMMA OpenKeeps ==
  ASSUME NEW n \in Nat, NEW first \in Int, NEW last \in Int,
         NEW buckets \in [0 .. n - 1 -> Bucket \cup {Uninitialized}],
         \A b \in 0 .. n - 1 : first <= b /\ b <= last => buckets[b] = Uninitialized,
         NEW new, new = InitBuckets(buckets, first, last)
  PROVE  Same(buckets, new) /\ Grows(buckets, new)
<1>1. /\ DOMAIN new = 0 .. n - 1 /\ DOMAIN buckets = 0 .. n - 1
      /\ \A b \in 0 .. n - 1 :
           new[b] = IF first <= b /\ b <= last THEN InitBucket ELSE buckets[b]
  BY InitBucketsRange
<1>2. \A s \in SlotNumber : InitBucket.h2[s] = kEmpty
  BY DEF InitBucket
<1>3. ASSUME NEW b, NEW s
      PROVE  <<b, s>> \in Occupied(new) <=> <<b, s>> \in Occupied(buckets)
  BY <1>1, <1>2, OccupiedSlot
<1>4. ASSUME NEW p
      PROVE  p \in Occupied(new) <=> p \in Occupied(buckets)
  BY <1>3, OccupiedPair
<1>5. \A p \in Occupied(buckets) : Keeps(buckets, new, p)
  BY <1>1, OccupiedPair DEF Keeps, MetaAt, ValueAt
<1>6. Grows(buckets, new)
  BY <1>1, SizeAssumption DEF Grows, Bucket
<1> QED BY <1>4, <1>5, <1>6 DEF Same

\* Storing into an empty slot adds one element.
LEMMA StoresAdds ==
  ASSUME NEW n \in Nat,
         NEW buckets \in [0 .. n - 1 -> Bucket \cup {Uninitialized}],
         NEW b \in 0 .. n - 1, buckets[b] \in Bucket,
         NEW preferred \in 0 .. n - 1, buckets[preferred] \in Bucket,
         preferred <= b,
         NEW s \in SlotNumber, buckets[b].h2[s] = kEmpty,
         NEW meta_byte \in MetaByte, meta_byte # kEmpty, NEW value \in Values,
         NEW new, Stores(n, buckets, preferred, b, s, meta_byte, value, new)
  PROVE  /\ Adds(buckets, new, <<b, s>>, meta_byte, value)
         /\ Grows(buckets, new)
<1>1. /\ DOMAIN new = 0 .. n - 1 /\ DOMAIN buckets = 0 .. n - 1
      /\ \A x \in 0 .. n - 1 : new[x] # Uninitialized <=> buckets[x] # Uninitialized
      /\ \A x \in 0 .. n - 1 : buckets[x] # Uninitialized =>
           /\ buckets[x] \in Bucket
           /\ \A y \in SlotNumber :
                <<x, y>> # <<b, s>> => /\ new[x].h2[y] = buckets[x].h2[y]
                                       /\ new[x].slots[y] = buckets[x].slots[y]
  <2>1. /\ buckets[b].h2 \in [SlotNumber -> MetaByte]
        /\ buckets[b].slots \in [SlotNumber -> Values \cup {NoValue}]
    BY DEF Bucket
  <2>2. /\ DOMAIN new = 0 .. n - 1 /\ DOMAIN buckets = 0 .. n - 1
        /\ \A x \in 0 .. n - 1 : new[x] # Uninitialized <=> buckets[x] # Uninitialized
    BY DEF Stores
  <2>3. ASSUME NEW x \in 0 .. n - 1, buckets[x] # Uninitialized,
               NEW y \in SlotNumber, <<x, y>> # <<b, s>>
        PROVE  /\ new[x].h2[y] = buckets[x].h2[y]
               /\ new[x].slots[y] = buckets[x].slots[y]
    <3>1. CASE x # b
      BY <2>3, <3>1 DEF Stores
    <3>2. CASE x = b
      BY <2>1, <2>3, <3>2 DEF Stores
    <3> QED BY <3>1, <3>2
  <2> QED BY <2>2, <2>3
<1>2. new[b].h2[s] = meta_byte /\ new[b].slots[s] = value
  BY DEF Stores, Bucket
<1>3. buckets[b] # Uninitialized /\ buckets[preferred] # Uninitialized
  BY UninitializedAssumption
<1>4. <<b, s>> \notin Occupied(buckets)
  BY OccupiedSlot
<1>5. ASSUME NEW x, NEW y
      PROVE  <<x, y>> \in Occupied(new) <=> <<x, y>> \in Occupied(buckets) \cup {<<b, s>>}
  <2>1. CASE <<x, y>> = <<b, s>>
    BY <1>1, <1>2, <1>3, <2>1, OccupiedSlot
  <2>2. CASE <<x, y>> # <<b, s>>
    BY <1>1, <2>2, OccupiedSlot
  <2> QED BY <2>1, <2>2
<1>6. Occupied(new) = Occupied(buckets) \cup {<<b, s>>}
  <2>1. ASSUME NEW p PROVE p \in Occupied(new) <=> p \in Occupied(buckets) \cup {<<b, s>>}
    BY <1>5, OccupiedPair
  <2> QED BY <2>1
<1>7. ASSUME NEW q \in Occupied(buckets)
      PROVE  Keeps(buckets, new, q)
  <2>1. /\ q = <<q[1], q[2]>> /\ q # <<b, s>>
        /\ q[1] \in 0 .. n - 1 /\ q[2] \in SlotNumber /\ buckets[q[1]] # Uninitialized
    BY <1>1, <1>4, OccupiedPair
  <2> QED BY <1>1, <2>1 DEF Keeps, MetaAt, ValueAt
<1>8. Adds(buckets, new, <<b, s>>, meta_byte, value)
  BY <1>2, <1>4, <1>6, <1>7 DEF Adds, MetaAt, ValueAt
<1>9. Grows(buckets, new)
  <2> SUFFICES ASSUME NEW x \in 0 .. n - 1, buckets[x] # Uninitialized
               PROVE  buckets[x].search_distance <= new[x].search_distance
    BY <1>1 DEF Grows
  <2>1. buckets[x] \in Bucket /\ buckets[x].search_distance \in Nat
    BY <1>1, SizeAssumption DEF Bucket
  <2>2. CASE x # preferred
    BY <2>1, <2>2 DEF Stores
  <2>3. CASE x = preferred
    <3>1. DistanceTo(b - preferred) \in Nat
      <4>1. b - preferred \in Nat
        OBVIOUS
      <4>2. DistanceTo(b - preferred) \in 0 .. kSearchDistanceEndSentinal
        BY <4>1, DistanceRange
      <4>3. kSearchDistanceEndSentinal \in Nat
        BY SizeAssumption
      <4> QED BY <4>2, <4>3
    <3>2. new[x].search_distance = MaxOf(buckets[x].search_distance, DistanceTo(b - preferred))
      BY <2>3 DEF Stores
    <3> QED BY <2>1, <3>1, <3>2 DEF MaxOf
  <2> QED BY <2>2, <2>3
<1> QED BY <1>8, <1>9

\* Effects add up.
LEMMA SameThenAdds ==
  ASSUME NEW old, NEW mid, NEW new, NEW p, NEW meta_byte, NEW value,
         Same(old, mid), Adds(mid, new, p, meta_byte, value)
  PROVE  Adds(old, new, p, meta_byte, value)
BY DEF Same, Adds, Keeps

\* Growth adds up.
LEMMA GrowsTwice ==
  ASSUME NEW n \in Nat,
         NEW old \in [0 .. n - 1 -> Bucket \cup {Uninitialized}],
         NEW mid \in [0 .. n - 1 -> Bucket \cup {Uninitialized}],
         NEW new \in [0 .. n - 1 -> Bucket \cup {Uninitialized}],
         Grows(old, mid), Grows(mid, new)
  PROVE  Grows(old, new)
<1> SUFFICES ASSUME NEW b \in 0 .. n - 1, old[b] # Uninitialized
             PROVE  /\ new[b] # Uninitialized
                    /\ old[b].search_distance <= new[b].search_distance
  BY DEF Grows
<1>1. /\ mid[b] # Uninitialized /\ old[b].search_distance <= mid[b].search_distance
      /\ new[b] # Uninitialized /\ mid[b].search_distance <= new[b].search_distance
  BY DEF Grows
<1>2. old[b] \in Bucket /\ mid[b] \in Bucket /\ new[b] \in Bucket
  BY <1>1
<1>3. /\ old[b].search_distance \in Int /\ mid[b].search_distance \in Int
      /\ new[b].search_distance \in Int
  BY <1>2, SizeAssumption DEF Bucket
<1> QED BY <1>1, <1>3

-----------------------------------------------------------------------------
(* The effects of the steps *)

\* An ascending insert adds its value at the target, within reach of the
\* preferred bucket, and the slots after the target stay empty.
LEMMA InsertAscendingAdds ==
  ASSUME Shape, FreeInv, Rehashing, NEW value \in Values,
         ~InsertOverruns(value), InsertAscending(value)
  PROVE  /\ Adds(buckets_, buckets_', At(value), OrderedByte(value), value)
         /\ Grows(buckets_, buckets_')
         /\ DistanceTo(At(value)[1] - Preferred(value))
              <= buckets_'[Preferred(value)].search_distance
         /\ \A s \in SlotNumber :
              insert_slot' <= s => buckets_'[insert_bucket'].h2[s] = kEmpty
<1> DEFINE h1 == Preferred(value)
           b == At(value)[1]
           s == At(value)[2]
           opened == Opened(value)
           meta_byte == OrderedByte(value)
<1>1. /\ h1 \in 0 .. Physical - 1 /\ b \in 0 .. Physical - 1 /\ s \in SlotNumber
      /\ h1 <= b /\ insert_bucket <= b
      /\ opened \in [0 .. Physical - 1 -> Bucket \cup {Uninitialized}]
      /\ opened[b] \in Bucket /\ opened[h1] \in Bucket
      /\ meta_byte \in MetaByte /\ meta_byte # kEmpty
      /\ Stores(Physical, opened, h1, b, s, meta_byte, value, buckets_')
  BY InsertAscendingStores
<1>2. /\ NextAt(value)[1] \in {b, b + 1}
      /\ NextAt(value)[1] \in 0 .. Physical - 1 /\ NextAt(value)[2] \in SlotNumber
      /\ \A x \in 0 .. Physical - 1 :
           opened[x] = IF insert_bucket + 1 <= x /\ x <= NextAt(value)[1] THEN InitBucket
                       ELSE buckets_[x]
      /\ insert_bucket' = NextAt(value)[1] /\ insert_slot' = NextAt(value)[2]
  BY InsertAscendingStores
<1>3. /\ Physical \in Nat /\ insert_bucket \in 0 .. Physical - 1 /\ insert_slot \in SlotNumber
      /\ buckets_ \in [0 .. Physical - 1 -> Bucket \cup {Uninitialized}]
      /\ \A x \in 0 .. Physical - 1 : (buckets_[x] = Uninitialized) <=> (x > insert_bucket)
  BY RehashingShape
<1>4. \A y \in SlotNumber : InitBucket.h2[y] = kEmpty
  BY DEF InitBucket
<1>5. At(value) = <<b, s>> /\ (IF insert_bucket < h1 THEN b = h1
                               ELSE b = insert_bucket /\ s = insert_slot)
  BY DEF At, InsertTarget
<1> HIDE DEF h1, b, s, opened, meta_byte
<1>6. \A y \in SlotNumber : s <= y => opened[b].h2[y] = kEmpty
  <2>1. CASE insert_bucket < b
    BY <1>1, <1>2, <1>3, <1>4, <2>1
  <2>2. CASE insert_bucket = b
    <3>1. opened[b] = buckets_[insert_bucket] /\ s = insert_slot
      BY <1>1, <1>2, <1>3, <1>5, <2>2
    <3> QED BY <3>1 DEF FreeInv
  <2> QED BY <1>1, <1>3, <2>1, <2>2
<1>7. opened[b].h2[s] = kEmpty
  BY <1>1, <1>6, SizeAssumption DEF SlotNumber
<1>8. Same(buckets_, opened) /\ Grows(buckets_, opened)
  <2>1. opened = InitBuckets(buckets_, insert_bucket + 1, NextAt(value)[1])
    BY DEF opened, Opened
  <2> QED BY <1>1, <1>2, <1>3, <2>1, OpenKeeps
<1>9. Adds(opened, buckets_', <<b, s>>, meta_byte, value) /\ Grows(opened, buckets_')
  BY <1>1, <1>3, <1>7, StoresAdds
<1>10. Adds(buckets_, buckets_', <<b, s>>, meta_byte, value)
  BY <1>8, <1>9, SameThenAdds
<1>11. Grows(buckets_, buckets_')
  <2>1. buckets_' \in [0 .. Physical - 1 -> Bucket \cup {Uninitialized}]
    BY <1>1 DEF Stores
  <2> QED BY <1>1, <1>3, <1>8, <1>9, <2>1, GrowsTwice
<1>12. DistanceTo(b - h1) <= buckets_'[h1].search_distance
  <2>1. buckets_'[h1].search_distance = MaxOf(opened[h1].search_distance, DistanceTo(b - h1))
    BY <1>1 DEF Stores
  <2>2. opened[h1].search_distance \in Int
    BY <1>1, SizeAssumption DEF Bucket
  <2>3. DistanceTo(b - h1) \in Int
    BY <1>1, DistanceRange, SizeAssumption
  <2> QED BY <2>1, <2>2, <2>3 DEF MaxOf
<1>13. ASSUME NEW y \in SlotNumber, insert_slot' <= y
       PROVE  buckets_'[insert_bucket'].h2[y] = kEmpty
  <2>1. CASE s + 1 = kSlotsPerBucket
    <3>1. insert_bucket' = b + 1
      BY <1>2, <2>1 DEF NextAt, NextTarget, s, b
    <3>2. opened[b + 1] = InitBucket
      BY <1>1, <1>2, <1>3, <3>1
    <3>3. opened[b + 1] \in Bucket
      BY <3>2, InitBucketConsistent DEF Consistent
    <3>4. buckets_'[b + 1].h2 = opened[b + 1].h2
      BY <1>1, <1>2, <3>1, <3>3 DEF Stores
    <3> QED BY <1>4, <3>1, <3>2, <3>4
  <2>2. CASE s + 1 # kSlotsPerBucket
    <3>1. insert_bucket' = b /\ insert_slot' = s + 1
      BY <1>2, <2>2 DEF NextAt, NextTarget, s, b
    <3>2. y # s /\ s <= y
      BY <1>1, <1>13, <3>1, SizeAssumption DEF SlotNumber
    <3>3. opened[b].h2 \in [SlotNumber -> MetaByte]
      BY <1>1 DEF Bucket
    <3>4. buckets_'[b].h2[y] = opened[b].h2[y]
      BY <1>1, <3>2, <3>3 DEF Stores
    <3> QED BY <1>6, <3>1, <3>2, <3>4
  <2> QED BY <2>1, <2>2
<1> QED BY <1>5, <1>10, <1>11, <1>12, <1>13 DEF h1, b, s, meta_byte

\* PrepareInsert and Store add a new value in the first bucket with an empty slot,
\* within reach of its preferred bucket, having found no match; or the table
\* stays as it is.
LEMMA PlaceValueAdds ==
  ASSUME Shape, PlaceValue
  PROVE  \/ UNCHANGED table
         \/ /\ Matches(KeyOf[call.value], SearchDistance(KeyOf[call.value])) = {}
            /\ size_' = size_ + 1 /\ UNCHANGED logical_size_
            /\ \E i \in 0 .. kSearchDistanceEndSentinal - 1, s \in SlotNumber :
                 /\ i \in Least(OpenOffsets(Preferred(call.value)))
                 /\ Adds(buckets_, buckets_', <<Preferred(call.value) + i, s>>,
                         SetUnorderedValue(H2(HashOf(call.value))), call.value)
                 /\ Grows(buckets_, buckets_')
                 /\ i + 1 <= buckets_'[Preferred(call.value)].search_distance
<1> DEFINE value == call.value
           preferred == Preferred(value)
           meta_byte == SetUnorderedValue(H2(HashOf(value)))
<1>1. CASE UNCHANGED table
  BY <1>1
<1>2. CASE /\ Matches(KeyOf[value], SearchDistance(KeyOf[value])) = {}
           /\ \E i \in Least(OpenOffsets(preferred)) :
                \E s \in Least(FindEmpties(buckets_[preferred + i])) :
                  buckets_' = StoreValue(buckets_, preferred, preferred + i, s, meta_byte, value)
           /\ size_' = size_ + 1
           /\ UNCHANGED logical_size_
  <2>1. PICK i \in Least(OpenOffsets(preferred)) :
          /\ i \in OpenOffsets(preferred)
          /\ \E s \in FindEmpties(buckets_[preferred + i]) :
               buckets_' = StoreValue(buckets_, preferred, preferred + i, s, meta_byte, value)
    BY <1>2 DEF Least
  <2>2. PICK s \in FindEmpties(buckets_[preferred + i]) :
          buckets_' = StoreValue(buckets_, preferred, preferred + i, s, meta_byte, value)
    BY <2>1
  <2>3. /\ AtRest /\ value \in Values /\ logical_size_ \in Nat \ {0}
    BY SizeAssumption DEF PlaceValue, AtRest, Shape, TypeOK, CallInv
  <2>4. /\ Physical \in Nat
        /\ buckets_ \in [0 .. Physical - 1 -> Bucket \cup {Uninitialized}]
        /\ \A b \in 0 .. Physical - 1 : buckets_[b] \in Bucket
    BY <2>3, AtRestShape, PhysicalRange DEF Consistent, Shape, TypeOK, BucketsTyped, Physical
  <2>5. preferred \in 0 .. Physical - 1 /\ HashOf(value) \in Hash
    BY <2>3, PreferredRange DEF Shape, Preferred
  <2>6. meta_byte \in MetaByte /\ meta_byte # kEmpty
    BY <2>5, MetaBytes
  <2>7. s \in SlotNumber /\ buckets_[preferred + i].h2[s] = kEmpty
    BY DEF FindEmpties, IsEmpty
  <2> HIDE DEF preferred, meta_byte, value
  <2>8. /\ i \in 0 .. kSearchDistanceEndSentinal - 1
        /\ i \in Nat /\ preferred + i \in 0 .. Physical - 1 /\ preferred <= preferred + i
    BY <2>1, <2>4, <2>5, SizeAssumption DEF OpenOffsets
  <2>9. Stores(Physical, buckets_, preferred, preferred + i, s, meta_byte, value, buckets_')
    BY <2>2, <2>3, <2>4, <2>5, <2>6, <2>7, <2>8, StoreValueStores
  <2>10. /\ Adds(buckets_, buckets_', <<preferred + i, s>>, meta_byte, value)
         /\ Grows(buckets_, buckets_')
    BY <2>3, <2>4, <2>5, <2>6, <2>7, <2>8, <2>9, StoresAdds
  <2>11. i + 1 <= buckets_'[preferred].search_distance
    <3>1. ASSUME NEW b, b = preferred + i
          PROVE  buckets_'[preferred].search_distance
                   = MaxOf(buckets_[preferred].search_distance, DistanceTo(i))
      <4>1. Stores(Physical, buckets_, preferred, b, s, meta_byte, value, buckets_')
        BY <2>9, <3>1
      <4>2. b - preferred = i
        BY <2>4, <2>5, <2>8, <3>1
      <4>3. buckets_'[preferred].search_distance
              = MaxOf(buckets_[preferred].search_distance, DistanceTo(b - preferred))
        BY <4>1, Zenon DEF Stores
      <4> QED BY <4>2, <4>3, Zenon
    <3>2. buckets_'[preferred].search_distance
            = MaxOf(buckets_[preferred].search_distance, DistanceTo(i))
      BY <3>1
    <3>3. i < kSearchDistanceEndSentinal
      BY <2>8, SizeAssumption
    <3>4. DistanceTo(i) = i + 1
      BY <2>8, <3>3, DistanceRange
    <3>5. buckets_[preferred].search_distance \in Int
      BY <2>4, <2>5, SizeAssumption DEF Bucket
    <3> QED BY <2>8, <3>2, <3>4, <3>5 DEF MaxOf
  <2> QED BY <1>2, <2>1, <2>7, <2>8, <2>10, <2>11 DEF preferred, meta_byte, value
<1> QED BY <1>1, <1>2 DEF PlaceValue, Preferred, table

\* erase() takes one element away and leaves the search distances alone.
LEMMA EraseAtRemoves ==
  ASSUME Shape, AtRest, NEW p \in Occupied(buckets_), EraseAt(p)
  PROVE  Removes(buckets_, buckets_', p) /\ Grows(buckets_, buckets_')
<1>1. /\ DOMAIN buckets_ = 0 .. Physical - 1
      /\ \A x \in 0 .. Physical - 1 : buckets_[x] \in Bucket /\ buckets_[x] # Uninitialized
  BY AtRestShape, UninitializedAssumption DEF Consistent
<1>2. p = <<p[1], p[2]>> /\ p[1] \in 0 .. Physical - 1 /\ p[2] \in SlotNumber
  BY <1>1, OccupiedPair
<1>3. p \in (0 .. Physical - 1) \X SlotNumber
  BY <1>2
<1>4. /\ buckets_' \in [0 .. Physical - 1 -> Bucket]
      /\ \A x \in 0 .. Physical - 1 : Consistent(buckets_'[x])
  BY <1>3, EraseAtShape
<1> DEFINE f == [buckets_ EXCEPT ![p[1]].h2[p[2]] = kEmpty]
<1>5. /\ DOMAIN f = 0 .. Physical - 1
      /\ \A x \in 0 .. Physical - 1 :
           /\ f[x] \in Bucket
           /\ f[x].slots = buckets_[x].slots
           /\ f[x].search_distance = buckets_[x].search_distance
           /\ \A y \in SlotNumber : f[x].h2[y] =
                IF x = p[1] /\ y = p[2] THEN kEmpty ELSE buckets_[x].h2[y]
  <2>1. buckets_ \in [0 .. Physical - 1 -> Bucket]
    BY <1>1, SizeAssumption, PhysicalRange DEF Shape, TypeOK, BucketsTyped, Physical
  <2>2. WritesByte(0 .. Physical - 1, buckets_, f, p[1], p[2], kEmpty)
    BY <1>2, <2>1, EmptyTyped DEF WritesByte
  <2>3. ByteEffect(0 .. Physical - 1, buckets_, f, p[1], p[2], kEmpty)
    BY <2>2, ByteWritten
  <2> QED BY <2>3 DEF ByteEffect
<1>6. buckets_' = [f EXCEPT ![p[1]].slots[p[2]] = NoValue]
  BY DEF EraseAt
<1> HIDE DEF f
<1>7. \A x \in 0 .. Physical - 1 :
        /\ buckets_'[x].h2 = f[x].h2
        /\ buckets_'[x].search_distance = f[x].search_distance
        /\ \A y \in SlotNumber : x # p[1] \/ y # p[2] => buckets_'[x].slots[y] = f[x].slots[y]
  BY <1>5, <1>6 DEF Bucket
<1>8. DOMAIN buckets_' = 0 .. Physical - 1 /\ \A x \in DOMAIN buckets_' : buckets_'[x] # Uninitialized
  BY <1>4, UninitializedAssumption DEF Consistent
<1>9. ASSUME NEW x, NEW y
      PROVE  <<x, y>> \in Occupied(buckets_') <=>
               <<x, y>> \in Occupied(buckets_) /\ ~(x = p[1] /\ y = p[2])
  <2>1. <<x, y>> \in Occupied(buckets_') <=>
          x \in 0 .. Physical - 1 /\ y \in SlotNumber /\ buckets_'[x].h2[y] # kEmpty
    BY <1>8, OccupiedSlot
  <2>2. <<x, y>> \in Occupied(buckets_) <=>
          x \in 0 .. Physical - 1 /\ y \in SlotNumber /\ buckets_[x].h2[y] # kEmpty
    BY <1>1, OccupiedSlot
  <2>3. x \in 0 .. Physical - 1 /\ y \in SlotNumber =>
          buckets_'[x].h2[y] = IF x = p[1] /\ y = p[2] THEN kEmpty ELSE buckets_[x].h2[y]
    BY <1>5, <1>7
  <2> QED BY <2>1, <2>2, <2>3
<1>10. Occupied(buckets_') = Occupied(buckets_) \ {p}
  <2>1. ASSUME NEW q PROVE q \in Occupied(buckets_') <=> q \in Occupied(buckets_) \ {p}
    BY <1>2, <1>9, OccupiedPair
  <2> QED BY <2>1
<1>11. ASSUME NEW q \in Occupied(buckets_')
       PROVE  Keeps(buckets_, buckets_', q)
  <2>1. /\ q = <<q[1], q[2]>> /\ q[1] \in 0 .. Physical - 1 /\ q[2] \in SlotNumber
        /\ (q[1] # p[1] \/ q[2] # p[2])
    BY <1>2, <1>8, <1>10, OccupiedPair
  <2> QED BY <1>5, <1>7, <2>1 DEF Keeps, MetaAt, ValueAt
<1>12. Grows(buckets_, buckets_')
  BY <1>1, <1>5, <1>7, <1>8, SizeAssumption DEF Grows, Bucket
<1> QED BY <1>10, <1>11, <1>12 DEF Removes

\* FinishInsertAscending opens the last buckets and marks the end.
LEMMA FinishRehashKeeps ==
  ASSUME Shape, FinishRehash
  PROVE  Same(buckets_, buckets_') /\ Grows(buckets_, buckets_')
<1> DEFINE opened == InitBuckets(buckets_, insert_bucket + 1, Physical - 1)
<1>1. Rehashing /\ buckets_' = MarkEnd(opened)
  BY DEF FinishRehash, Rehashing
<1>2. /\ logical_size_ \in Nat \ {0} /\ Physical \in Nat \ {0}
      /\ insert_bucket \in 0 .. Physical - 1
      /\ buckets_ \in [0 .. Physical - 1 -> Bucket \cup {Uninitialized}]
      /\ \A x \in 0 .. Physical - 1 : (buckets_[x] = Uninitialized) <=> (x > insert_bucket)
  BY <1>1, RehashingShape
<1>3. /\ opened \in [0 .. Physical - 1 -> Bucket \cup {Uninitialized}]
      /\ \A x \in 0 .. Physical - 1 :
           opened[x] = IF insert_bucket + 1 <= x /\ x <= Physical - 1 THEN InitBucket
                       ELSE buckets_[x]
  BY <1>2, InitBucketsRange
<1>4. Same(buckets_, opened) /\ Grows(buckets_, opened)
  BY <1>2, <1>3, OpenKeeps
<1> HIDE DEF opened
<1>5. opened \in [0 .. Physical - 1 -> Bucket]
  BY <1>2, <1>3, InitBucketConsistent DEF Consistent
<1>6. /\ buckets_' \in [0 .. Physical - 1 -> Bucket]
      /\ \A x \in 0 .. Physical - 1 :
           /\ buckets_'[x].h2 = opened[x].h2
           /\ buckets_'[x].slots = opened[x].slots
           /\ opened[x].search_distance <= buckets_'[x].search_distance
  <2>1. buckets_' = [opened EXCEPT ![Physical - 1].search_distance = kSearchDistanceEndSentinal]
    BY <1>1 DEF MarkEnd
  <2>2. /\ kSearchDistanceEndSentinal \in 0 .. kSearchDistanceEndSentinal
        /\ Physical - 1 \in 0 .. Physical - 1
    BY <1>2, SizeAssumption
  <2>3. /\ buckets_' \in [0 .. Physical - 1 -> Bucket]
        /\ \A x \in 0 .. Physical - 1 :
             /\ buckets_'[x].h2 = opened[x].h2
             /\ buckets_'[x].slots = opened[x].slots
             /\ x # Physical - 1 => buckets_'[x] = opened[x]
        /\ buckets_'[Physical - 1].search_distance = kSearchDistanceEndSentinal
    BY <1>5, <2>1, <2>2 DEF Bucket
  <2>4. \A x \in 0 .. Physical - 1 :
          opened[x].search_distance \in 0 .. kSearchDistanceEndSentinal
    BY <1>5 DEF Bucket
  <2> QED BY <2>3, <2>4, SizeAssumption
<1>7. \A x \in 0 .. Physical - 1 : buckets_'[x] # Uninitialized /\ opened[x] # Uninitialized
  BY <1>5, <1>6, UninitializedAssumption
<1>8. ASSUME NEW p
      PROVE  p \in Occupied(buckets_') <=> p \in Occupied(opened)
  <2>1. ASSUME NEW x, NEW y
        PROVE  <<x, y>> \in Occupied(buckets_') <=> <<x, y>> \in Occupied(opened)
    <3>1. <<x, y>> \in Occupied(buckets_') <=>
            x \in 0 .. Physical - 1 /\ y \in SlotNumber /\ buckets_'[x].h2[y] # kEmpty
      BY <1>6, <1>7, OccupiedSlot
    <3>2. <<x, y>> \in Occupied(opened) <=>
            x \in 0 .. Physical - 1 /\ y \in SlotNumber /\ opened[x].h2[y] # kEmpty
      BY <1>5, <1>7, OccupiedSlot
    <3> QED BY <1>6, <3>1, <3>2
  <2> QED BY <2>1, OccupiedPair
<1>9. \A p \in Occupied(opened) : Keeps(opened, buckets_', p)
  BY <1>5, <1>6, OccupiedPair DEF Keeps, MetaAt, ValueAt
<1>10. Same(buckets_, buckets_')
  BY <1>4, <1>8, <1>9 DEF Same, Keeps
<1>11. Grows(opened, buckets_')
  BY <1>5, <1>6, <1>7 DEF Grows
<1>12. Grows(buckets_, buckets_')
  BY <1>2, <1>3, <1>4, <1>6, <1>11, GrowsTwice
<1> QED BY <1>10, <1>12

\* A rehash starts with no elements in the new buckets and all in the source.
LEMMA StartRehashEmpties ==
  ASSUME Shape, NEW slot_count, StartRehash(slot_count)
  PROVE  \/ /\ pc' = "aborted" /\ UNCHANGED <<table, scan, target>>
         \/ /\ pc' = "collect" /\ size_' = 0 /\ source' = buckets_ /\ heap' = {}
            /\ source_logical_size' = logical_size_
            /\ Occupied(buckets_') = {}
            /\ insert_bucket' = 0 /\ buckets_'[0] = InitBucket
            /\ bucket_number' = 0 /\ disordered_bucket' = 0
<1> DEFINE slots == IF slot_count = 0 THEN FullSlots(size_) ELSE slot_count
           logical_size == Ceil(slots, kSlotsPerBucket)
<1>1. CASE logical_size \notin 1 .. MaxLogicalSize
  BY <1>1 DEF StartRehash, Abort
<1>2. CASE logical_size \in 1 .. MaxLogicalSize
  <2>1. /\ pc' = "collect" /\ size_' = 0 /\ source' = buckets_ /\ heap' = {}
        /\ buckets_' = InitBuckets(NewBuckets(logical_size), 0, 0)
        /\ source_logical_size' = logical_size_
        /\ insert_bucket' = 0
        /\ bucket_number' = 0 /\ disordered_bucket' = 0
    BY <1>2 DEF StartRehash
  <2> HIDE DEF slots, logical_size
  <2>2. PhysicalSize(logical_size) \in Nat \ {0}
    BY <1>2, PhysicalRange, SizeAssumption
  <2>3. /\ buckets_'[0] = InitBucket
        /\ \A x \in DOMAIN buckets_' : x # 0 => buckets_'[x] = Uninitialized
    BY <2>1, <2>2 DEF InitBuckets, NewBuckets
  <2>4. \A s \in SlotNumber : InitBucket.h2[s] = kEmpty
    BY DEF InitBucket
  <2>5. Occupied(buckets_') = {}
    BY <2>3, <2>4, OccupiedPair
  <2> QED BY <2>1, <2>3, <2>5
<1> QED BY <1>1, <1>2

\* What the two scans of a rehash do with a value: nothing, or an ascending
\* insert of a value of the source.
LEMMA InsertFromHeapMoves ==
  ASSUME Shape, InsertFromHeap
  PROVE  \/ pc' = "aborted" /\ UNCHANGED <<table, target, heap, source>>
         \/ \E item \in heap :
              LET value == source[item.bucket].slots[item.slot]
              IN  /\ value \in Values /\ ~InsertOverruns(value) /\ InsertAscending(value)
                  /\ heap' = heap \ {item}
                  /\ source' = [source EXCEPT ![item.bucket].slots[item.slot] = NoValue]
BY HeapValue DEF InsertFromHeap

\* A step of the scan moves a value of the heap, gives up, or moves the value it
\* has come to.
LEMMA ScanBucketMoves ==
  ASSUME Shape, ScanBucket
  PROVE  \/ InsertFromHeap
         \/ pc' = "aborted" /\ UNCHANGED <<table, target, heap, source>>
         \/ \E s \in SlotNumber :
              LET value == source[bucket_number].slots[s]
              IN  /\ bucket_number \in DOMAIN source
                  /\ source[bucket_number].h2[s] # kEmpty
                  /\ value \in Values /\ ~InsertOverruns(value) /\ InsertAscending(value)
                  /\ heap' = heap
                  /\ source' = [source EXCEPT ![bucket_number].slots[s] = NoValue,
                                              ![bucket_number].h2[s] = kEmpty]
<1>1. bucket_number \in DOMAIN source
  BY SourceTyped DEF ScanBucket, Shape, TypeOK, ScanInv
<1>2. PICK s \in OrderedAhead :
        LET value == source[bucket_number].slots[s]
        IN  IF \E item \in heap : HeapHash(item) < HashOf(value)
            THEN InsertFromHeap
            ELSE /\ UNCHANGED heap
                 /\ IF InsertOverruns(value)
                    THEN pc' = "aborted" /\ UNCHANGED <<table, target, source>>
                    ELSE /\ InsertAscending(value)
                         /\ source' = [source EXCEPT ![bucket_number].slots[s] = NoValue,
                                                     ![bucket_number].h2[s] = kEmpty]
  BY DEF ScanBucket, Least
<1>3. s \in SlotNumber /\ source[bucket_number].h2[s] # kEmpty
  BY DEF OrderedAhead, IsNonemptyAndOrdered, kEmpty, kOrderedMask
<1>4. source[bucket_number].slots[s] \in Values
  BY <1>1, <1>3, SourceTyped DEF Shape, SourceInv, Bucket
<1> QED BY <1>1, <1>2, <1>3, <1>4

-----------------------------------------------------------------------------
(* Effects on the source *)

\* The objects of `old` are in `new`, but for the one at p.
Takes(old, new, p) ==
  /\ p \in Constructed(old)
  /\ Constructed(new) = Constructed(old) \ {p}
  /\ \A q \in Constructed(new) : ValueAt(new, q) = ValueAt(old, q)

\* A position with an object is a bucket and a slot.
LEMMA ConstructedPair ==
  ASSUME NEW buckets, NEW p \in Constructed(buckets)
  PROVE  /\ p = <<p[1], p[2]>>
         /\ p[1] \in DOMAIN buckets /\ p[2] \in SlotNumber
         /\ buckets[p[1]] # Uninitialized
         /\ buckets[p[1]].slots[p[2]] # NoValue
BY DEF Constructed, Positions, ValueAt

\* An open slot with a value holds an object.
LEMMA ConstructedSlot ==
  ASSUME NEW buckets, NEW b \in DOMAIN buckets, NEW s \in SlotNumber,
         buckets[b] # Uninitialized, buckets[b].slots[s] # NoValue
  PROVE  <<b, s>> \in Constructed(buckets)
BY DEF Constructed, Positions, ValueAt

\* At rest there is no source, so it holds nothing.
LEMMA AtRestSource ==
  ASSUME Shape, AtRest
  PROVE  Constructed(source) = {}
BY AtRestShape DEF Constructed, Positions

\* Emptying one slot takes its object and no other.
LEMMA EmptiedSlotTakes ==
  ASSUME NEW n \in Nat, NEW old \in [0 .. n - 1 -> Bucket],
         NEW new \in [0 .. n - 1 -> Bucket],
         NEW b \in 0 .. n - 1, NEW s \in SlotNumber, old[b].slots[s] # NoValue,
         \A x \in 0 .. n - 1 : \A y \in SlotNumber :
           new[x].slots[y] = IF x = b /\ y = s THEN NoValue ELSE old[x].slots[y]
  PROVE  Takes(old, new, <<b, s>>)
<1>1. <<b, s>> \in Constructed(old)
  BY ConstructedSlot, UninitializedAssumption
<1>2. ASSUME NEW q \in Constructed(new)
      PROVE  q \in Constructed(old) /\ q # <<b, s>> /\ ValueAt(new, q) = ValueAt(old, q)
  <2>1. /\ q = <<q[1], q[2]>> /\ q[1] \in 0 .. n - 1 /\ q[2] \in SlotNumber
        /\ new[q[1]].slots[q[2]] # NoValue
    BY ConstructedPair
  <2>2. ~(q[1] = b /\ q[2] = s) /\ new[q[1]].slots[q[2]] = old[q[1]].slots[q[2]]
    BY <2>1
  <2>3. old[q[1]] # Uninitialized /\ old[q[1]].slots[q[2]] # NoValue
    <3>1. old[q[1]] \in Bucket
      BY <2>1
    <3> QED BY <2>1, <2>2, <3>1, UninitializedAssumption
  <2>4. <<q[1], q[2]>> \in Constructed(old)
    BY <2>1, <2>3, ConstructedSlot
  <2>5. q \in Constructed(old)
    BY <2>1, <2>4, Zenon
  <2>6. q # <<b, s>>
    BY <2>2
  <2>7. ValueAt(new, q) = ValueAt(old, q)
    BY <2>2, Zenon DEF ValueAt
  <2> QED BY <2>5, <2>6, <2>7, Zenon
<1>3. ASSUME NEW q \in Constructed(old), q # <<b, s>>
      PROVE  q \in Constructed(new)
  <2>1. /\ q = <<q[1], q[2]>> /\ q[1] \in 0 .. n - 1 /\ q[2] \in SlotNumber
        /\ old[q[1]].slots[q[2]] # NoValue
    BY ConstructedPair
  <2>2. new[q[1]].slots[q[2]] # NoValue /\ new[q[1]] \in Bucket
    BY <1>3, <2>1
  <2>3. <<q[1], q[2]>> \in Constructed(new)
    BY <2>1, <2>2, ConstructedSlot, UninitializedAssumption
  <2> QED BY <2>1, <2>3, Zenon
<1> QED BY <1>1, <1>2, <1>3, Zenon DEF Takes

\* insert_from_heap takes the object of its item out of the source.
LEMMA MoveFromHeapTakes ==
  ASSUME Shape, NEW item \in heap,
         source' = [source EXCEPT ![item.bucket].slots[item.slot] = NoValue]
  PROVE  /\ Takes(source, source', <<item.bucket, item.slot>>)
         /\ ValueAt(source, <<item.bucket, item.slot>>)
              = source[item.bucket].slots[item.slot]
<1>1. /\ source \in [0 .. SourcePhysical - 1 -> Bucket] /\ SourcePhysical \in Nat
      /\ item.bucket \in 0 .. SourcePhysical - 1 /\ item.slot \in SlotNumber
      /\ source[item.bucket].slots[item.slot] # NoValue
  BY SourceTyped, HeapValue, ValuesAssumption
<1>2. /\ source' \in [0 .. SourcePhysical - 1 -> Bucket]
      /\ \A b \in 0 .. SourcePhysical - 1 : \A s \in SlotNumber :
           source'[b].slots[s] =
             IF b = item.bucket /\ s = item.slot THEN NoValue ELSE source[b].slots[s]
  <2>1. WritesSlot(0 .. SourcePhysical - 1, source, source', item.bucket, item.slot, NoValue)
    BY <1>1, EmptyTyped DEF WritesSlot
  <2>2. SlotEffect(0 .. SourcePhysical - 1, source, source', item.bucket, item.slot, NoValue)
    BY <2>1, SlotWritten
  <2> QED BY <2>2 DEF SlotEffect
<1>3. Takes(source, source', <<item.bucket, item.slot>>)
  BY <1>1, <1>2, EmptiedSlotTakes
<1> QED BY <1>3 DEF ValueAt

\* The scan takes the object of the slot it has come to.
LEMMA MoveFromSlotTakes ==
  ASSUME Shape, NEW b \in DOMAIN source, NEW s \in SlotNumber, source[b].h2[s] # kEmpty,
         source' = [source EXCEPT ![b].slots[s] = NoValue, ![b].h2[s] = kEmpty]
  PROVE  /\ Takes(source, source', <<b, s>>)
         /\ ValueAt(source, <<b, s>>) = source[b].slots[s]
<1>1. /\ source \in [0 .. SourcePhysical - 1 -> Bucket] /\ SourcePhysical \in Nat
      /\ b \in 0 .. SourcePhysical - 1
      /\ source[b].slots[s] # NoValue
  BY SourceTyped DEF Shape, SourceInv
<1> DEFINE f == [source EXCEPT ![b].slots[s] = NoValue]
<1>2. /\ f \in [0 .. SourcePhysical - 1 -> Bucket]
      /\ \A x \in 0 .. SourcePhysical - 1 : \A y \in SlotNumber :
           f[x].slots[y] = IF x = b /\ y = s THEN NoValue ELSE source[x].slots[y]
  <2>1. WritesSlot(0 .. SourcePhysical - 1, source, f, b, s, NoValue)
    BY <1>1, EmptyTyped DEF WritesSlot
  <2>2. SlotEffect(0 .. SourcePhysical - 1, source, f, b, s, NoValue)
    BY <2>1, SlotWritten
  <2> HIDE DEF f
  <2> QED BY <2>2 DEF SlotEffect
<1>3. source' = [f EXCEPT ![b].h2[s] = kEmpty]
  OBVIOUS
<1> HIDE DEF f
<1>4. /\ source' \in [0 .. SourcePhysical - 1 -> Bucket]
      /\ \A x \in 0 .. SourcePhysical - 1 :
           /\ source'[x].slots = f[x].slots
           /\ \A y \in SlotNumber : source'[x].h2[y] =
                IF x = b /\ y = s THEN kEmpty ELSE f[x].h2[y]
  <2>1. WritesByte(0 .. SourcePhysical - 1, f, source', b, s, kEmpty)
    BY <1>1, <1>2, <1>3, EmptyTyped DEF WritesByte
  <2>2. ByteEffect(0 .. SourcePhysical - 1, f, source', b, s, kEmpty)
    BY <2>1, ByteWritten
  <2> QED BY <2>2 DEF ByteEffect
<1>5. \A x \in 0 .. SourcePhysical - 1 : \A y \in SlotNumber :
        source'[x].slots[y] = IF x = b /\ y = s THEN NoValue ELSE source[x].slots[y]
  <2> TAKE x \in 0 .. SourcePhysical - 1
  <2> TAKE y \in SlotNumber
  <2>1. source'[x].slots = f[x].slots
    BY <1>4, Zenon
  <2>2. f[x].slots[y] = IF x = b /\ y = s THEN NoValue ELSE source[x].slots[y]
    BY <1>2, Zenon
  <2> QED BY <2>1, <2>2, Zenon
<1>6. ASSUME NEW new, new = source'
      PROVE  Takes(source, new, <<b, s>>)
  <2>1. new \in [0 .. SourcePhysical - 1 -> Bucket]
    BY <1>4, <1>6, Zenon
  <2>2. \A x \in 0 .. SourcePhysical - 1 : \A y \in SlotNumber :
          new[x].slots[y] = IF x = b /\ y = s THEN NoValue ELSE source[x].slots[y]
    BY <1>5, <1>6, Zenon
  <2> QED BY <1>1, <2>1, <2>2, EmptiedSlotTakes
<1> QED BY <1>6 DEF ValueAt

\* Collecting disordered values rewrites meta bytes and moves no object.
LEMMA GetDisorderedValuesKeeps ==
  ASSUME Shape, GetDisorderedValues
  PROVE  /\ Constructed(source') = Constructed(source)
         /\ \A p \in Constructed(source) : ValueAt(source', p) = ValueAt(source, p)
<1>1. CASE source' = source
  BY <1>1 DEF Constructed, Positions, ValueAt
<1>2. CASE source' =
             [b \in DOMAIN source |->
               IF b \notin CoveredBuckets THEN source[b]
               ELSE [source[b] EXCEPT !.h2 =
                       [s \in SlotNumber |->
                          IF s \in DisorderedSlots(source[b]) THEN kEmpty ELSE @[s]]]]
  <2>1. source \in [0 .. SourcePhysical - 1 -> Bucket] /\ SourcePhysical \in Nat
    BY SourceTyped
  <2>2. /\ DOMAIN source' = 0 .. SourcePhysical - 1
        /\ \A x \in 0 .. SourcePhysical - 1 : source'[x].slots = source[x].slots
    <3>1. DOMAIN source' = 0 .. SourcePhysical - 1
      BY <1>2, <2>1
    <3>2. ASSUME NEW x \in 0 .. SourcePhysical - 1
          PROVE  source'[x].slots = source[x].slots
      <4> DEFINE h2 == [s \in SlotNumber |-> IF s \in DisorderedSlots(source[x]) THEN kEmpty
                                             ELSE source[x].h2[s]]
      <4>1. source[x] \in Bucket
        BY <2>1
      <4>2. source'[x] = IF x \notin CoveredBuckets THEN source[x]
                         ELSE [source[x] EXCEPT !.h2 = h2]
        BY <1>2, <2>1
      <4> HIDE DEF h2
      <4> QED BY <4>1, <4>2 DEF Bucket
    <3> QED BY <3>1, <3>2
  <2>3. \A x \in 0 .. SourcePhysical - 1 : source[x] # Uninitialized /\ source'[x] # Uninitialized
    <3>1. Shape'
      BY GetDisorderedValuesShape
    <3>2. \A x \in DOMAIN source' : source'[x] # Uninitialized
      BY <3>1, UninitializedAssumption DEF Shape, SourceInv
    <3> QED BY <2>1, <2>2, <3>2, UninitializedAssumption
  <2>4. ASSUME NEW p
        PROVE  p \in Constructed(source') <=> p \in Constructed(source)
    <3>1. ASSUME p \in Constructed(source') PROVE p \in Constructed(source)
      <4>1. /\ p = <<p[1], p[2]>> /\ p[1] \in 0 .. SourcePhysical - 1 /\ p[2] \in SlotNumber
            /\ source'[p[1]].slots[p[2]] # NoValue
        BY <2>2, <3>1, ConstructedPair
      <4>2. <<p[1], p[2]>> \in Constructed(source)
        BY <2>1, <2>2, <2>3, <4>1, ConstructedSlot
      <4> QED BY <4>1, <4>2
    <3>2. ASSUME p \in Constructed(source) PROVE p \in Constructed(source')
      <4>1. /\ p = <<p[1], p[2]>> /\ p[1] \in 0 .. SourcePhysical - 1 /\ p[2] \in SlotNumber
            /\ source[p[1]].slots[p[2]] # NoValue
        BY <2>1, <3>2, ConstructedPair
      <4>2. <<p[1], p[2]>> \in Constructed(source')
        BY <2>1, <2>2, <2>3, <4>1, ConstructedSlot
      <4> QED BY <4>1, <4>2
    <3> QED BY <3>1, <3>2
  <2> QED BY <2>1, <2>2, <2>4, ConstructedPair DEF ValueAt
<1> QED BY <1>1, <1>2 DEF GetDisorderedValues
-----------------------------------------------------------------------------
(* Counting *)

\* size_ stays right when the elements are the same ones.
LEMMA CountSame ==
  ASSUME CountInv, Same(buckets_, buckets_'), size_' = size_
  PROVE  CountInv'
BY DEF CountInv, SizeIsCount, Same

\* size_ stays right when an element and one count are added.
LEMMA CountAdd ==
  ASSUME CountInv, size_ \in Nat, NEW p, NEW meta_byte, NEW value,
         Adds(buckets_, buckets_', p, meta_byte, value), size_' = size_ + 1
  PROVE  CountInv'
<1>1. /\ IsFiniteSet(Occupied(buckets_) \cup {p})
      /\ Cardinality(Occupied(buckets_) \cup {p}) = Cardinality(Occupied(buckets_)) + 1
  BY FS_AddElement DEF CountInv, Adds
<1> QED BY <1>1 DEF CountInv, SizeIsCount, Adds

\* size_ stays right when an element and one count are taken off.
LEMMA CountRemove ==
  ASSUME CountInv, size_ \in Nat, NEW p,
         Removes(buckets_, buckets_', p), size_' = size_ - 1
  PROVE  CountInv'
<1>1. /\ IsFiniteSet(Occupied(buckets_) \ {p})
      /\ Cardinality(Occupied(buckets_) \ {p}) = Cardinality(Occupied(buckets_)) - 1
  BY FS_RemoveElement DEF CountInv, Removes
<1> QED BY <1>1 DEF CountInv, SizeIsCount, Removes

\* size_ is right for an empty table.
LEMMA CountNone ==
  ASSUME Occupied(buckets_') = {}, size_' = 0
  PROVE  CountInv'
BY FS_EmptySet DEF CountInv, SizeIsCount

\* A call that leaves the table alone.
LEMMA CountUnchanged ==
  ASSUME CountInv, UNCHANGED table
  PROVE  CountInv'
BY DEF CountInv, SizeIsCount, table, Occupied, Positions, MetaAt

\* A rehash starts over with no elements and a count of zero.
LEMMA StartRehashCounted ==
  ASSUME Counted, NEW slot_count, StartRehash(slot_count), Shape', AtRest
  PROVE  Counted'
<1>1. CASE pc' = "aborted" /\ UNCHANGED <<table, scan, target>>
  <2>1. FreeInv'
    BY <1>1 DEF FreeInv, Rehashing
  <2> QED BY <1>1, <2>1, CountUnchanged DEF Counted
<1>2. CASE /\ pc' = "collect" /\ size_' = 0
           /\ Occupied(buckets_') = {}
           /\ insert_bucket' = 0 /\ buckets_'[0] = InitBucket
  <2>1. FreeInv'
    BY <1>2 DEF FreeInv, InitBucket
  <2> QED BY <1>2, <2>1, CountNone DEF Counted
<1> QED BY <1>1, <1>2, StartRehashEmpties DEF Counted

\* An ascending insert counts its value and leaves the slots after it free.
LEMMA InsertAscendingCounted ==
  ASSUME Counted, Rehashing, NEW value \in Values, ~InsertOverruns(value),
         InsertAscending(value), Shape'
  PROVE  Counted'
<1>1. /\ Adds(buckets_, buckets_', At(value), OrderedByte(value), value)
      /\ \A s \in SlotNumber :
              insert_slot' <= s => buckets_'[insert_bucket'].h2[s] = kEmpty
  BY InsertAscendingAdds DEF Counted
<1>2. size_' = size_ + 1 /\ size_ \in Nat
  BY DEF InsertAscending, Counted, Shape, TypeOK
<1>3. CountInv'
  BY <1>1, <1>2, CountAdd DEF Counted
<1>4. FreeInv'
  BY <1>1 DEF FreeInv
<1> QED BY <1>3, <1>4 DEF Counted

\* A value moved from the heap is counted.
LEMMA InsertFromHeapCounted ==
  ASSUME Counted, Rehashing, InsertFromHeap, Shape'
  PROVE  Counted'
<1>1. CASE pc' = "aborted" /\ UNCHANGED <<table, target, heap, source>>
  <2>1. FreeInv'
    BY <1>1 DEF FreeInv, Rehashing
  <2> QED BY <1>1, <2>1, CountUnchanged DEF Counted
<1>2. CASE \E item \in heap :
             LET value == source[item.bucket].slots[item.slot]
             IN  value \in Values /\ ~InsertOverruns(value) /\ InsertAscending(value)
  BY <1>2, InsertAscendingCounted
<1> QED BY <1>1, <1>2, InsertFromHeapMoves DEF Counted

\* A value the scan moves is counted.
LEMMA ScanBucketCounted ==
  ASSUME Counted, ScanBucket, Shape'
  PROVE  Counted'
<1>1. Rehashing
  BY DEF ScanBucket, Rehashing
<1>2. CASE InsertFromHeap
  BY <1>1, <1>2, InsertFromHeapCounted
<1>3. CASE pc' = "aborted" /\ UNCHANGED <<table, target, heap, source>>
  <2>1. FreeInv'
    BY <1>3 DEF FreeInv, Rehashing
  <2> QED BY <1>3, <2>1, CountUnchanged DEF Counted
<1>4. CASE \E s \in SlotNumber :
             LET value == source[bucket_number].slots[s]
             IN  value \in Values /\ ~InsertOverruns(value) /\ InsertAscending(value)
  BY <1>1, <1>4, InsertAscendingCounted
<1> QED BY <1>2, <1>3, <1>4, ScanBucketMoves DEF Counted

\* A lookup returns an occupied slot.
LEMMA FindOccupied ==
  ASSUME Shape, AtRest, NEW key \in Keys, NEW p \in Find(key)
  PROVE  p \in Occupied(buckets_)
<1>1. p = <<p[1], p[2]>> /\ p[1] \in 0 .. Physical - 1 /\ p[2] \in SlotNumber
  BY FindRange
<1>2. p[2] \in FindElement(buckets_[p[1]], H2(hasher[key]), key)
  BY DEF Find, First, Matches
<1>3. hasher[key] \in Hash
  BY HashAssumption DEF Shape, TypeOK, Hash
<1>4. H2(hasher[key]) \in 0 .. 63
  BY <1>3, MetaBytes
<1>5. buckets_[p[1]].h2[p[2]] # kEmpty
  BY <1>2, <1>4
  DEF FindElement, MatchingElements, ClearOrdered, IsNonemptyAndOrdered, kEmpty
<1>6. p[1] \in DOMAIN buckets_ /\ buckets_[p[1]] # Uninitialized
  BY <1>1, AtRestShape, UninitializedAssumption DEF Consistent
<1> QED BY <1>1, <1>5, <1>6, OccupiedSlot

\* An insert counts its value.
LEMMA PlaceValueCounted ==
  ASSUME Counted, PlaceValue, Shape'
  PROVE  Counted'
<1>1. FreeInv'
  BY DEF PlaceValue, Return, FreeInv, Rehashing
<1>2. size_ \in Nat
  BY DEF Counted, Shape, TypeOK
<1>3. CountInv'
  BY <1>2, PlaceValueAdds, CountAdd, CountUnchanged DEF Counted
<1> QED BY <1>1, <1>3 DEF Counted

\* An erase takes its value off the count.
LEMMA EraseCounted ==
  ASSUME Counted, AtRest, NEW p \in Occupied(buckets_), EraseAt(p), pc' = "idle", Shape'
  PROVE  Counted'
<1>1. FreeInv'
  BY DEF FreeInv, Rehashing
<1>2. size_ \in Nat /\ size_' = size_ - 1
  BY DEF EraseAt, Counted, Shape, TypeOK
<1>3. CountInv'
  BY <1>2, EraseAtRemoves, CountRemove DEF Counted
<1> QED BY <1>1, <1>3 DEF Counted

\* An empty table counts zero.
LEMMA InitCounted == Init => Counted
<1> SUFFICES ASSUME Init PROVE Counted
  OBVIOUS
<1>1. DOMAIN buckets_ = {}
  BY PhysicalRange DEF Init, NewBuckets
<1>2. Occupied(buckets_) = {}
  BY <1>1 DEF Occupied, Positions
<1>3. CountInv
  BY <1>2, FS_EmptySet DEF Init, CountInv, SizeIsCount
<1>4. FreeInv
  BY DEF Init, FreeInv, Rehashing
<1> QED BY <1>3, <1>4, InitShape DEF Counted

\* An iterator to a stored value stands on an occupied slot.
LEMMA IteratorOccupied ==
  ASSUME Shape, AtRest, NEW p \in (DOMAIN buckets_) \X SlotNumber,
         p[2] \in FindNonEmpties(buckets_[p[1]])
  PROVE  p \in Occupied(buckets_)
<1>1. p = <<p[1], p[2]>> /\ p[1] \in DOMAIN buckets_ /\ p[2] \in SlotNumber
  OBVIOUS
<1>2. buckets_[p[1]] # Uninitialized
  BY <1>1, AtRestShape, UninitializedAssumption DEF Consistent
<1>3. buckets_[p[1]].h2[p[2]] # kEmpty
  BY DEF FindNonEmpties, FindEmpties, IsEmpty
<1> QED BY <1>1, <1>2, <1>3, OccupiedSlot

\* Every step keeps the count.
LEMMA NextCounted == Counted /\ [Next]_vars => Counted'
<1> SUFFICES ASSUME Counted, [Next]_vars PROVE Counted'
  OBVIOUS
<1>1. Shape'
  BY NextShape DEF Counted
<1>2. ASSUME AtRest, NEW slot_count, StartRehash(slot_count)
      PROVE  Counted'
  BY <1>1, <1>2, StartRehashCounted
<1>3. ASSUME ~Rehashing', UNCHANGED table
      PROVE  Counted'
  BY <1>1, <1>3, CountUnchanged DEF Counted, FreeInv
<1>4. ASSUME NEW value \in Values, Insert(value) PROVE Counted'
  BY <1>2, <1>3, <1>4 DEF Insert, AtRest, Rehashing
<1>5. ASSUME NEW key \in Keys, EraseKey(key) PROVE Counted'
  <2>1. AtRest /\ Shape
    BY <1>5 DEF EraseKey, AtRest, Counted
  <2>2. CASE UNCHANGED table
    BY <1>3, <1>5, <2>1, <2>2 DEF EraseKey, Return, Rehashing
  <2>3. CASE \E p \in Find(key) : EraseAt(p) /\ Return("erased")
    BY <1>1, <2>1, <2>3, FindOccupied, EraseCounted DEF Return
  <2> QED BY <1>5, <2>2, <2>3 DEF EraseKey
<1>6. ASSUME NEW p \in (DOMAIN buckets_) \X SlotNumber, EraseIterator(p) PROVE Counted'
  BY <1>1, <1>6, IteratorOccupied, EraseCounted DEF EraseIterator, Return, AtRest, Counted
<1>7. CASE Clear
  <2>1. DOMAIN buckets_' = {} /\ size_' = 0 /\ pc' = "idle"
    BY <1>7, PhysicalRange DEF Clear, NewBuckets, Return
  <2>2. Occupied(buckets_') = {}
    BY <2>1 DEF Occupied, Positions
  <2> QED BY <1>1, <2>1, <2>2, CountNone DEF Counted, FreeInv, Rehashing
<1>8. ASSUME NEW count \in ReserveCounts, Reserve(count) PROVE Counted'
  BY <1>2, <1>3, <1>8 DEF Reserve, AtRest, Rehashing, Return
<1>9. ASSUME NEW count \in RehashCounts, Rehash(count) PROVE Counted'
  BY <1>2, <1>9 DEF Rehash, AtRest
<1>10. CASE PlaceValue
  BY <1>1, <1>10, PlaceValueCounted
<1>11. ASSUME UNCHANGED <<table, target>>, Rehashing PROVE Counted'
  BY <1>1, <1>11, CountUnchanged DEF Counted, FreeInv, table, target
<1>12. CASE GetDisorderedValues \/ NextBucket
  BY <1>11, <1>12 DEF GetDisorderedValues, NextBucket, Rehashing
<1>13. CASE ScanBucket
  BY <1>1, <1>13, ScanBucketCounted
<1>14. CASE DrainHeap
  BY <1>1, <1>14, InsertFromHeapCounted DEF DrainHeap, Rehashing
<1>15. CASE FinishRehash
  <2>1. size_' = size_ /\ ~Rehashing'
    BY <1>15 DEF FinishRehash, Return, Rehashing
  <2> QED BY <1>1, <1>15, <2>1, FinishRehashKeeps, CountSame DEF Counted, FreeInv
<1>16. CASE UNCHANGED vars
  BY <1>1, <1>16, CountUnchanged DEF vars, table, target, Counted, FreeInv, Rehashing
<1> QED
  BY <1>4, <1>5, <1>6, <1>7, <1>8, <1>9, <1>10, <1>12, <1>13, <1>14, <1>15, <1>16
  DEF Next, Step

\* The shape and the count hold in every state of every history.
THEOREM CountedInvariant == Spec => []Counted
BY InitCounted, NextCounted, PTL DEF Spec

\* size_ is the number of elements, in every state of every history, also with
\* a rehash under way.
THEOREM SizeCorrect == Spec => []SizeIsCount
<1>1. Counted => SizeIsCount
  BY DEF Counted, CountInv
<1> QED BY <1>1, CountedInvariant, PTL

-----------------------------------------------------------------------------
(* Search distances *)

\* An occupied slot holds a value, and its preferred bucket is open.
LEMMA OccupiedValue ==
  ASSUME Shape, NEW p \in Occupied(buckets_)
  PROVE  /\ ValueAt(buckets_, p) \in Values
         /\ logical_size_ \in Nat \ {0}
         /\ Preferred(ValueAt(buckets_, p)) \in 0 .. Physical - 1
         /\ p[1] \in 0 .. Physical - 1 /\ Physical \in Nat
         /\ p \in Constructed(buckets_)
<1>1. /\ p = <<p[1], p[2]>> /\ p[1] \in DOMAIN buckets_ /\ p[2] \in SlotNumber
      /\ buckets_[p[1]] # Uninitialized /\ buckets_[p[1]].h2[p[2]] # kEmpty
  BY OccupiedPair
<1>2. Consistent(buckets_[p[1]])
  BY <1>1 DEF Shape, NewInv
<1>3. ValueAt(buckets_, p) \in Values /\ buckets_[p[1]].slots[p[2]] # NoValue
  BY <1>1, <1>2 DEF Consistent, Bucket, ValueAt
<1>4. logical_size_ \in Nat /\ DOMAIN buckets_ = 0 .. Physical - 1
  BY SizeAssumption DEF Shape, TypeOK, BucketsTyped, Physical
<1>5. logical_size_ # 0 /\ Physical \in Nat
  BY <1>1, <1>4, PhysicalRange DEF Physical
<1>6. Preferred(ValueAt(buckets_, p)) \in 0 .. Physical - 1
  BY <1>3, <1>4, <1>5, PreferredRange DEF Shape, Preferred
<1>7. <<p[1], p[2]>> \in Constructed(buckets_)
  BY <1>1, <1>3, ConstructedSlot
<1> QED BY <1>1, <1>3, <1>4, <1>5, <1>6, <1>7

\* In consistent buckets the occupied slots are those that hold an object.
LEMMA ConstructedOccupied ==
  ASSUME NEW buckets,
         \A b \in DOMAIN buckets : buckets[b] # Uninitialized => Consistent(buckets[b])
  PROVE  Constructed(buckets) = Occupied(buckets)
<1>1. ASSUME NEW p \in Constructed(buckets) PROVE p \in Occupied(buckets)
  <2>1. /\ p = <<p[1], p[2]>> /\ p[1] \in DOMAIN buckets /\ p[2] \in SlotNumber
        /\ buckets[p[1]] # Uninitialized /\ buckets[p[1]].slots[p[2]] # NoValue
    BY ConstructedPair
  <2>2. buckets[p[1]].h2[p[2]] # kEmpty
    BY <2>1 DEF Consistent
  <2> QED BY <2>1, <2>2, OccupiedSlot
<1>2. ASSUME NEW p \in Occupied(buckets) PROVE p \in Constructed(buckets)
  <2>1. /\ p = <<p[1], p[2]>> /\ p[1] \in DOMAIN buckets /\ p[2] \in SlotNumber
        /\ buckets[p[1]] # Uninitialized /\ buckets[p[1]].h2[p[2]] # kEmpty
    BY OccupiedPair
  <2>2. buckets[p[1]].slots[p[2]] # NoValue
    BY <2>1 DEF Consistent
  <2>3. <<p[1], p[2]>> \in Constructed(buckets)
    BY <2>1, <2>2, ConstructedSlot
  <2> QED BY <2>1, <2>3
<1> QED BY <1>1, <1>2

\* Where a lookup finds an element at p of `buckets`.
LocatedAt(buckets, p) ==
  /\ Preferred(ValueAt(buckets, p)) <= p[1]
  /\ p[1] < Preferred(ValueAt(buckets, p))
              + buckets[Preferred(ValueAt(buckets, p))].search_distance
  /\ ClearOrdered(MetaAt(buckets, p)) = H2(HashOf(ValueAt(buckets, p)))

\* Located, said of each position.
LEMMA LocatedEach ==
  Located <=> \A p \in Occupied(buckets_) : LocatedAt(buckets_, p)
BY DEF Located, LocatedAt, Preferred

\* The preferred bucket of an element is open: it is not after the element's.
LEMMA PreferredOpen ==
  ASSUME Shape, Rehashing \/ AtRest, NEW p \in Occupied(buckets_),
         LocatedAt(buckets_, p)
  PROVE  buckets_[Preferred(ValueAt(buckets_, p))] # Uninitialized
<1> DEFINE h1 == Preferred(ValueAt(buckets_, p))
<1>1. /\ h1 \in 0 .. Physical - 1 /\ p[1] \in 0 .. Physical - 1 /\ h1 <= p[1]
      /\ Physical \in Nat /\ buckets_[p[1]] # Uninitialized
  BY OccupiedValue, OccupiedPair DEF LocatedAt
<1>2. DOMAIN buckets_ = 0 .. Physical - 1
  BY DEF Shape, TypeOK, BucketsTyped, Physical
<1>3. CASE AtRest
  BY <1>1, <1>2, <1>3 DEF Shape, NewInv, InitializedPrefix
<1>4. CASE Rehashing
  <2>1. \A x \in 0 .. Physical - 1 : (buckets_[x] = Uninitialized) <=> (x > insert_bucket)
    BY <1>4, RehashingShape
  <2>2. insert_bucket \in Nat
    BY DEF Shape, TypeOK
  <2> QED BY <1>1, <2>1, <2>2
<1> QED BY <1>3, <1>4

\* An element that stays where it is stays within reach.
LEMMA LocatedKept ==
  ASSUME Shape, Shape', Rehashing \/ AtRest,
         UNCHANGED <<hasher, logical_size_>>,
         Grows(buckets_, buckets_'),
         NEW p \in Occupied(buckets_), LocatedAt(buckets_, p),
         Keeps(buckets_, buckets_', p)
  PROVE  LocatedAt(buckets_, p)'
<1> DEFINE value == ValueAt(buckets_, p)
           h1 == Preferred(value)
<1>1. /\ ValueAt(buckets_', p) = value
      /\ MetaAt(buckets_', p) = MetaAt(buckets_, p)
  BY DEF Keeps
<1>2. /\ h1 \in 0 .. Physical - 1 /\ Physical \in Nat /\ p[1] \in 0 .. Physical - 1
      /\ buckets_[h1] # Uninitialized
  BY OccupiedValue, PreferredOpen
<1>3. buckets_ \in [0 .. Physical - 1 -> Bucket \cup {Uninitialized}]
      /\ buckets_' \in [0 .. Physical - 1 -> Bucket \cup {Uninitialized}]
  BY DEF Shape, TypeOK, BucketsTyped, Physical
<1>4. /\ buckets_'[h1] # Uninitialized
      /\ buckets_[h1].search_distance <= buckets_'[h1].search_distance
  BY <1>2, <1>3 DEF Grows
<1>5. buckets_[h1].search_distance \in Int /\ buckets_'[h1].search_distance \in Int
  BY <1>2, <1>3, <1>4, SizeAssumption DEF Bucket
<1>6. /\ h1 <= p[1] /\ p[1] < h1 + buckets_[h1].search_distance
      /\ ClearOrdered(MetaAt(buckets_, p)) = H2(HashOf(value))
  BY DEF LocatedAt
<1>7. p[1] < h1 + buckets_'[h1].search_distance
  BY <1>2, <1>4, <1>5, <1>6
<1> QED
  BY <1>1, <1>6, <1>7 DEF LocatedAt, Preferred, HashOf

\* The element an ascending insert adds is within reach, as long as the
\* distance fits its byte.
LEMMA AscendingLocated ==
  ASSUME DistancesInByte, Shape, Shape', FreeInv, Rehashing, NEW value \in Values,
         value \in Stored(source),
         ~InsertOverruns(value), InsertAscending(value), hasher' = hasher,
         NEW p, p = At(value)
  PROVE  LocatedAt(buckets_, p)'
<1> DEFINE h1 == Preferred(value)
           b == At(value)[1]
<1>1. /\ Adds(buckets_, buckets_', At(value), OrderedByte(value), value)
      /\ DistanceTo(b - h1) <= buckets_'[h1].search_distance
  BY InsertAscendingAdds
<1>2. /\ h1 \in 0 .. Physical - 1 /\ b \in 0 .. Physical - 1 /\ h1 <= b
  BY InsertAscendingStores
<1>3. Physical \in Nat /\ insert_bucket \in Nat
  BY RehashingShape DEF Shape, TypeOK
<1>4. insert_bucket < h1 + kSearchDistanceEndSentinal /\ b \in {h1, insert_bucket}
  BY DEF DistancesInByte, Preferred, At, InsertTarget
<1>5. b - h1 \in Nat /\ b - h1 < kSearchDistanceEndSentinal
  BY <1>2, <1>3, <1>4, SizeAssumption
<1>6. DistanceTo(b - h1) = b - h1 + 1
  BY <1>5, DistanceRange
<1>7. logical_size_' = logical_size_
  BY DEF InsertAscending
<1>8. buckets_'[h1].search_distance \in Int
  <2>1. buckets_' \in [0 .. Physical - 1 -> Bucket \cup {Uninitialized}]
        /\ buckets_'[h1] \in Bucket
    BY InsertAscendingStores DEF Stores
  <2> QED BY <2>1, SizeAssumption DEF Bucket
<1>9. b < h1 + buckets_'[h1].search_distance
  BY <1>1, <1>2, <1>3, <1>6, <1>8
<1>10. HashOf(value) \in Hash
  BY PreferredRange DEF Shape
<1>11. /\ ValueAt(buckets_', At(value)) = value
       /\ ClearOrdered(MetaAt(buckets_', At(value))) = H2(HashOf(value))
  BY <1>1, <1>10, MetaBytes DEF Adds, OrderedByte
<1> QED
  <2>1. /\ ValueAt(buckets_', p) = value /\ b = p[1]
        /\ ClearOrdered(MetaAt(buckets_', p)) = H2(HashOf(value))
    BY <1>11
  <2>2. h1 = H1(HashOf(value), logical_size_)
    BY DEF Preferred
  <2> HIDE DEF h1, b
  <2> QED BY <1>2, <1>7, <1>9, <2>1, <2>2 DEF LocatedAt, Preferred, HashOf

\* All elements are within reach when the old ones were and the new one is.
LEMMA LocatedAdd ==
  ASSUME Shape, Shape', Located, Rehashing \/ AtRest, UNCHANGED <<hasher, logical_size_>>,
         NEW p, NEW meta_byte, NEW value, Adds(buckets_, buckets_', p, meta_byte, value),
         Grows(buckets_, buckets_'), LocatedAt(buckets_, p)'
  PROVE  Located'
<1> SUFFICES ASSUME NEW q \in Occupied(buckets_') PROVE LocatedAt(buckets_, q)'
  BY DEF Located, LocatedAt, Preferred
<1>1. CASE q = p
  BY <1>1
<1>2. CASE q \in Occupied(buckets_)
  <2>1. LocatedAt(buckets_, q) /\ Keeps(buckets_, buckets_', q)
    BY <1>2, LocatedEach DEF Adds
  <2> QED BY <1>2, <2>1, LocatedKept
<1> QED BY <1>1, <1>2 DEF Adds

-----------------------------------------------------------------------------
(* Unique keys *)

\* OneSlotPerKey, read over positions.
LEMMA KeysApart ==
  OneSlotPerKey <=>
    /\ \A p, q \in Constructed(buckets_) :
         KeyOf[ValueAt(buckets_, p)] = KeyOf[ValueAt(buckets_, q)] => p = q
    /\ \A p, q \in Constructed(source) :
         KeyOf[ValueAt(source, p)] = KeyOf[ValueAt(source, q)] => p = q
    /\ \A p \in Constructed(buckets_), q \in Constructed(source) :
         KeyOf[ValueAt(buckets_, p)] # KeyOf[ValueAt(source, q)]
BY DEF OneSlotPerKey, Stored

\* A table that has its old elements, and one more whose key was nowhere, next
\* to a source that has at most its old objects, all with other keys.
LEMMA KeysAdd ==
  ASSUME Shape, Shape', OneSlotPerKey,
         NEW p, NEW meta_byte, NEW value, Adds(buckets_, buckets_', p, meta_byte, value),
         \A q \in Constructed(buckets_) : KeyOf[ValueAt(buckets_, q)] # KeyOf[value],
         Constructed(source') \subseteq Constructed(source),
         \A q \in Constructed(source') : /\ ValueAt(source', q) = ValueAt(source, q)
                                         /\ KeyOf[ValueAt(source, q)] # KeyOf[value]
  PROVE  OneSlotPerKey'
<1>1. Constructed(buckets_) = Occupied(buckets_)
      /\ Constructed(buckets_') = Occupied(buckets_')
  BY ConstructedOccupied DEF Shape, NewInv
<1>2. /\ Constructed(buckets_') = Constructed(buckets_) \cup {p}
      /\ ValueAt(buckets_', p) = value
      /\ \A q \in Constructed(buckets_) : ValueAt(buckets_', q) = ValueAt(buckets_, q)
  BY <1>1 DEF Adds, Keeps
<1> QED
  BY <1>2 DEF OneSlotPerKey, Stored

\* Keys stay unique when the table keeps its elements and the source gains none.
LEMMA KeysSame ==
  ASSUME Shape, Shape', OneSlotPerKey, Same(buckets_, buckets_'),
         Constructed(source') \subseteq Constructed(source),
         \A q \in Constructed(source') : ValueAt(source', q) = ValueAt(source, q)
  PROVE  OneSlotPerKey'
<1>1. Constructed(buckets_) = Occupied(buckets_)
      /\ Constructed(buckets_') = Occupied(buckets_')
  BY ConstructedOccupied DEF Shape, NewInv
<1> QED
  BY <1>1 DEF OneSlotPerKey, Stored, Same, Keeps

\* Keys stay unique when an element goes.
LEMMA KeysRemove ==
  ASSUME Shape, Shape', OneSlotPerKey, NEW p, Removes(buckets_, buckets_', p),
         source' = source
  PROVE  OneSlotPerKey'
<1>1. Constructed(buckets_) = Occupied(buckets_)
      /\ Constructed(buckets_') = Occupied(buckets_')
  BY ConstructedOccupied DEF Shape, NewInv
<1>2. \A q \in Constructed(buckets_') :
        q \in Constructed(buckets_) /\ ValueAt(buckets_', q) = ValueAt(buckets_, q)
  BY <1>1 DEF Removes, Keeps
<1>3. /\ Constructed(source') = Constructed(source)
      /\ \A q \in Constructed(source) : ValueAt(source', q) = ValueAt(source, q)
  OBVIOUS
<1> QED
  BY <1>2, <1>3 DEF OneSlotPerKey, Stored

\* The value a rehash moves has a key that is in no slot but the one it leaves.
LEMMA KeysMove ==
  ASSUME Shape, Shape', OneSlotPerKey,
         NEW t, NEW meta_byte, NEW value, Adds(buckets_, buckets_', t, meta_byte, value),
         NEW p, Takes(source, source', p), ValueAt(source, p) = value
  PROVE  OneSlotPerKey'
<1>1. p \in Constructed(source)
  BY DEF Takes
<1>2. \A q \in Constructed(buckets_) : KeyOf[ValueAt(buckets_, q)] # KeyOf[value]
  BY <1>1 DEF OneSlotPerKey, Stored
<1>3. \A q \in Constructed(source') :
        /\ q \in Constructed(source) /\ q # p
        /\ ValueAt(source', q) = ValueAt(source, q)
  BY DEF Takes
<1>4. \A q \in Constructed(source') : KeyOf[ValueAt(source, q)] # KeyOf[value]
  BY <1>1, <1>3 DEF OneSlotPerKey
<1> QED BY <1>2, <1>3, <1>4, KeysAdd

\* A lookup as far as the search distance would have come across the key.
LEMMA NoMatchNoKey ==
  ASSUME Shape, AtRest, Located, NEW key \in Keys,
         Matches(key, SearchDistance(key)) = {}, NEW q \in Occupied(buckets_)
  PROVE  KeyOf[ValueAt(buckets_, q)] # key
<1> DEFINE value == ValueAt(buckets_, q)
           h1 == H1(hasher[key], logical_size_)
<1> SUFFICES ASSUME KeyOf[value] = key PROVE FALSE
  OBVIOUS
<1>1. LocatedAt(buckets_, q)
  BY LocatedEach
<1>2. HashOf(value) = hasher[key] /\ Preferred(value) = h1
  BY DEF HashOf, Preferred
<1>3. /\ q = <<q[1], q[2]>> /\ q[2] \in SlotNumber
      /\ q[1] \in 0 .. Physical - 1 /\ Physical \in Nat /\ h1 \in 0 .. Physical - 1
  BY <1>2, OccupiedPair, OccupiedValue
<1>4. /\ h1 <= q[1] /\ q[1] < h1 + SearchDistance(key)
      /\ ClearOrdered(buckets_[q[1]].h2[q[2]]) = H2(hasher[key])
  BY <1>1, <1>2 DEF LocatedAt, SearchDistance, MetaAt
<1>5. SearchDistance(key) \in Int
  <2>1. buckets_[h1] \in Bucket
    <3>1. \A b \in 0 .. Physical - 1 : buckets_[b] \in Bucket
      BY AtRestShape DEF Consistent
    <3> QED BY <1>3, <3>1
  <2> QED BY <2>1, SizeAssumption DEF Bucket, SearchDistance
<1>6. q[2] \in FindElement(buckets_[q[1]], H2(hasher[key]), key)
  BY <1>3, <1>4 DEF FindElement, MatchingElements, ValueAt
<1>7. q[1] \in h1 .. h1 + SearchDistance(key) - 1
  BY <1>3, <1>4, <1>5
<1>8. q \in Matches(key, SearchDistance(key))
  BY <1>3, <1>6, <1>7 DEF Matches
<1> QED BY <1>8

\* What is left of the elements, where it was, stays within reach.
LEMMA LocatedRest ==
  ASSUME Shape, Shape', Located, Rehashing \/ AtRest, UNCHANGED <<hasher, logical_size_>>,
         Grows(buckets_, buckets_'),
         \A q \in Occupied(buckets_') : /\ q \in Occupied(buckets_)
                                        /\ Keeps(buckets_, buckets_', q)
  PROVE  Located'
<1> SUFFICES ASSUME NEW q \in Occupied(buckets_') PROVE LocatedAt(buckets_, q)'
  BY DEF Located, LocatedAt, Preferred
<1>1. q \in Occupied(buckets_) /\ LocatedAt(buckets_, q) /\ Keeps(buckets_, buckets_', q)
  BY LocatedEach
<1> QED BY <1>1, LocatedKept

\* A step that leaves the elements alone.
LEMMA LocatedUnchanged ==
  ASSUME Located, UNCHANGED <<hasher, table>>
  PROVE  Located'
BY DEF Located, table, Occupied, Positions, MetaAt, ValueAt, HashOf

\* Keys stay unique when neither array changes.
LEMMA KeysUnchanged ==
  ASSUME OneSlotPerKey, UNCHANGED <<buckets_, source>>
  PROVE  OneSlotPerKey'
<1> DEFINE unique(table_buckets, old_buckets) ==
             /\ \A p, q \in Constructed(table_buckets) :
                  KeyOf[ValueAt(table_buckets, p)] = KeyOf[ValueAt(table_buckets, q)] => p = q
             /\ \A p, q \in Constructed(old_buckets) :
                  KeyOf[ValueAt(old_buckets, p)] = KeyOf[ValueAt(old_buckets, q)] => p = q
             /\ \A v \in Stored(table_buckets), w \in Stored(old_buckets) : KeyOf[v] # KeyOf[w]
<1>1. OneSlotPerKey = unique(buckets_, source) /\ OneSlotPerKey' = unique(buckets_', source')
  BY DEF OneSlotPerKey
<1> HIDE DEF unique
<1> QED BY <1>1, Zenon

-----------------------------------------------------------------------------
(* Every step keeps the elements searchable *)

\* The rehash moves one value: the elements stay within reach.
LEMMA MoveLocated ==
  ASSUME DistancesInByte, Counted, Located, Rehashing, Shape', NEW value \in Values,
         ~InsertOverruns(value), InsertAscending(value), hasher' = hasher,
         NEW q, Takes(source, source', q), ValueAt(source, q) = value
  PROVE  Located'
<1>1. /\ Adds(buckets_, buckets_', At(value), OrderedByte(value), value)
      /\ Grows(buckets_, buckets_')
  BY InsertAscendingAdds DEF Counted
<1>2. logical_size_' = logical_size_
  BY DEF InsertAscending
<1>3. PICK p : p = At(value)
  OBVIOUS
<1>4. LocatedAt(buckets_, p)'
  <2>1. value \in Stored(source)
    BY DEF Takes, Stored
  <2> QED BY <1>3, <2>1, AscendingLocated DEF Counted
<1>5. Adds(buckets_, buckets_', p, OrderedByte(value), value)
  BY <1>1, <1>3
<1> QED BY <1>1, <1>2, <1>4, <1>5, LocatedAdd DEF Counted

\* And their keys stay unique.
LEMMA MoveSearchable ==
  ASSUME DistancesInByte, Searchable, Rehashing, Shape', NEW value \in Values,
         ~InsertOverruns(value), InsertAscending(value), hasher' = hasher,
         NEW q, Takes(source, source', q), ValueAt(source, q) = value
  PROVE  Searchable'
<1>1. Counted'
  BY InsertAscendingCounted DEF Searchable
<1>2. PICK p : p = At(value)
  OBVIOUS
<1>3. Adds(buckets_, buckets_', p, OrderedByte(value), value)
  BY <1>2, InsertAscendingAdds DEF Searchable, Counted
<1>4. Located'
  BY MoveLocated DEF Searchable
<1>5. OneSlotPerKey'
  BY <1>3, KeysMove DEF Searchable, Counted
<1> QED BY <1>1, <1>4, <1>5 DEF Searchable

\* The table and its source stay as they are.
LEMMA SearchableUnchanged ==
  ASSUME Searchable, Counted', UNCHANGED <<hasher, table, source>>
  PROVE  Searchable'
BY LocatedUnchanged, KeysUnchanged DEF Searchable, table

\* Moving a value from the heap keeps the elements searchable.
LEMMA InsertFromHeapSearchable ==
  ASSUME DistancesInByte, Searchable, Rehashing, Counted', InsertFromHeap, hasher' = hasher
  PROVE  Searchable'
<1>1. CASE UNCHANGED <<table, target, heap, source>>
  BY <1>1, SearchableUnchanged
<1>2. CASE \E item \in heap :
             LET value == source[item.bucket].slots[item.slot]
             IN  /\ value \in Values /\ ~InsertOverruns(value) /\ InsertAscending(value)
                 /\ source' = [source EXCEPT ![item.bucket].slots[item.slot] = NoValue]
  <2>1. PICK item \in heap :
             LET value == source[item.bucket].slots[item.slot]
             IN  /\ value \in Values /\ ~InsertOverruns(value) /\ InsertAscending(value)
                 /\ source' = [source EXCEPT ![item.bucket].slots[item.slot] = NoValue]
    BY <1>2
  <2>2. PICK value \in Values : value = source[item.bucket].slots[item.slot]
    BY <2>1
  <2>3. ~InsertOverruns(value) /\ InsertAscending(value)
    BY <2>1, <2>2
  <2>4. /\ Takes(source, source', <<item.bucket, item.slot>>)
        /\ ValueAt(source, <<item.bucket, item.slot>>) = value
    BY <2>1, <2>2, MoveFromHeapTakes DEF Searchable, Counted
  <2>5. Shape'
    BY DEF Counted
  <2> QED BY <2>3, <2>4, <2>5, MoveSearchable
<1> QED BY <1>1, <1>2, InsertFromHeapMoves DEF Searchable, Counted

\* A step of the scan keeps the elements searchable.
LEMMA ScanBucketSearchable ==
  ASSUME DistancesInByte, Searchable, Counted', ScanBucket
  PROVE  Searchable'
<1>1. Rehashing /\ hasher' = hasher
  BY DEF ScanBucket, Rehashing
<1>2. CASE InsertFromHeap
  BY <1>1, <1>2, InsertFromHeapSearchable
<1>3. CASE UNCHANGED <<table, target, heap, source>>
  BY <1>1, <1>3, SearchableUnchanged
<1>4. CASE \E s \in SlotNumber :
             LET value == source[bucket_number].slots[s]
             IN  /\ bucket_number \in DOMAIN source
                 /\ source[bucket_number].h2[s] # kEmpty
                 /\ value \in Values /\ ~InsertOverruns(value) /\ InsertAscending(value)
                 /\ source' = [source EXCEPT ![bucket_number].slots[s] = NoValue,
                                             ![bucket_number].h2[s] = kEmpty]
  <2>1. PICK s \in SlotNumber :
             LET value == source[bucket_number].slots[s]
             IN  /\ bucket_number \in DOMAIN source
                 /\ source[bucket_number].h2[s] # kEmpty
                 /\ value \in Values /\ ~InsertOverruns(value) /\ InsertAscending(value)
                 /\ source' = [source EXCEPT ![bucket_number].slots[s] = NoValue,
                                             ![bucket_number].h2[s] = kEmpty]
    BY <1>4
  <2>2. PICK value \in Values : value = source[bucket_number].slots[s]
    BY <2>1
  <2>3. ~InsertOverruns(value) /\ InsertAscending(value)
    BY <2>1, <2>2
  <2>4. PICK b \in DOMAIN source : b = bucket_number
    BY <2>1
  <2>5. /\ Takes(source, source', <<b, s>>)
        /\ ValueAt(source, <<b, s>>) = value
    BY <2>1, <2>2, <2>4, MoveFromSlotTakes DEF Searchable, Counted
  <2>6. Shape'
    BY DEF Counted
  <2> QED BY <1>1, <2>3, <2>5, <2>6, MoveSearchable
<1> QED BY <1>2, <1>3, <1>4, ScanBucketMoves DEF Searchable, Counted

\* A rehash starts with all elements in the source, none in the new table.
LEMMA StartRehashSearchable ==
  ASSUME Searchable, Counted', AtRest, NEW slot_count, StartRehash(slot_count),
         hasher' = hasher
  PROVE  Searchable'
<1>1. CASE UNCHANGED <<table, scan, target>>
  BY <1>1, SearchableUnchanged DEF scan
<1>2. CASE source' = buckets_ /\ Occupied(buckets_') = {}
  <2>1. Located'
    BY <1>2 DEF Located
  <2>2. Constructed(buckets_') = {}
    BY <1>2, ConstructedOccupied DEF Counted, Shape, NewInv
  <2>3. \A p, q \in Constructed(source') :
          KeyOf[ValueAt(source', p)] = KeyOf[ValueAt(source', q)] => p = q
    BY <1>2 DEF Searchable, OneSlotPerKey
  <2>4. OneSlotPerKey'
    BY <2>2, <2>3 DEF OneSlotPerKey, Stored
  <2> QED BY <2>1, <2>4 DEF Searchable
<1> QED BY <1>1, <1>2, StartRehashEmpties DEF Searchable, Counted

\* An erase keeps the other elements searchable: search distances do not shrink.
LEMMA EraseSearchable ==
  ASSUME Searchable, Counted', AtRest, NEW p \in Occupied(buckets_), EraseAt(p),
         UNCHANGED <<hasher, source>>
  PROVE  Searchable'
<1>1. Removes(buckets_, buckets_', p) /\ Grows(buckets_, buckets_')
  BY EraseAtRemoves DEF Searchable, Counted
<1>2. logical_size_' = logical_size_
  BY DEF EraseAt
<1>3. Located'
  BY <1>1, <1>2, LocatedRest DEF Searchable, Counted, Removes
<1>4. OneSlotPerKey'
  BY <1>1, KeysRemove DEF Searchable, Counted
<1> QED BY <1>3, <1>4 DEF Searchable

\* An insert puts its value within reach.
LEMMA PlaceValueLocated ==
  ASSUME Counted, Located, Shape', PlaceValue
  PROVE  Located'
<1> DEFINE value == call.value
           preferred == Preferred(value)
           meta_byte == SetUnorderedValue(H2(HashOf(value)))
<1>1. /\ Shape /\ AtRest /\ hasher' = hasher
      /\ value \in Values /\ logical_size_ > 0
  BY DEF Counted, Shape, CallInv, PlaceValue, AtRest
<1>2. CASE UNCHANGED table
  BY <1>1, <1>2, LocatedUnchanged
<1>3. CASE /\ UNCHANGED logical_size_
           /\ \E i \in 0 .. kSearchDistanceEndSentinal - 1, s \in SlotNumber :
                 /\ Adds(buckets_, buckets_', <<preferred + i, s>>, meta_byte, value)
                 /\ Grows(buckets_, buckets_')
                 /\ i + 1 <= buckets_'[preferred].search_distance
  <2>1. PICK i \in 0 .. kSearchDistanceEndSentinal - 1, s \in SlotNumber :
                 /\ Adds(buckets_, buckets_', <<preferred + i, s>>, meta_byte, value)
                 /\ Grows(buckets_, buckets_')
                 /\ i + 1 <= buckets_'[preferred].search_distance
    BY <1>3
  <2>2. PICK p : p = <<preferred + i, s>>
    OBVIOUS
  <2>3. /\ preferred \in 0 .. Physical - 1 /\ HashOf(value) \in Hash
        /\ preferred \in Int /\ i \in Nat
    BY <1>1, PreferredRange, SizeAssumption DEF Shape, Preferred
  <2>4. buckets_'[preferred].search_distance \in Int
    <3>1. buckets_[preferred] # Uninitialized /\ DOMAIN buckets_ = 0 .. Physical - 1
      BY <1>1, <2>3, AtRestShape, UninitializedAssumption DEF Consistent
    <3>2. preferred \in DOMAIN buckets_' /\ buckets_'[preferred] # Uninitialized
      BY <2>1, <2>3, <3>1 DEF Grows
    <3>3. buckets_'[preferred] \in Bucket
      BY <3>2 DEF Shape, NewInv, Consistent
    <3> QED BY <3>3, SizeAssumption DEF Bucket
  <2>5. /\ ValueAt(buckets_', p) = value
        /\ ClearOrdered(MetaAt(buckets_', p)) = H2(HashOf(value))
    BY <2>1, <2>2, <2>3, MetaBytes DEF Adds
  <2>6. preferred <= p[1] /\ p[1] < preferred + buckets_'[preferred].search_distance
    BY <2>1, <2>2, <2>3, <2>4
  <2>7. LocatedAt(buckets_, p)'
    <3> HIDE DEF value
    <3> QED BY <1>1, <1>3, <2>5, <2>6 DEF LocatedAt, Preferred, HashOf
  <2>8. Adds(buckets_, buckets_', p, meta_byte, value)
    BY <2>1, <2>2
  <2> QED BY <1>1, <1>3, <2>1, <2>7, <2>8, LocatedAdd
<1> QED BY <1>1, <1>2, <1>3, PlaceValueAdds

\* One that found no match adds a key that was not there.
LEMMA PlaceValueSearchable ==
  ASSUME Searchable, Counted', PlaceValue
  PROVE  Searchable'
<1> DEFINE value == call.value
           meta_byte == SetUnorderedValue(H2(HashOf(value)))
<1>1. /\ Shape /\ Shape' /\ AtRest /\ UNCHANGED <<hasher, source>>
      /\ value \in Values
  BY DEF Searchable, Counted, Shape, CallInv, PlaceValue, AtRest, scan
<1>2. CASE UNCHANGED table
  BY <1>1, <1>2, SearchableUnchanged
<1>3. CASE /\ Matches(KeyOf[value], SearchDistance(KeyOf[value])) = {}
           /\ \E p : Adds(buckets_, buckets_', p, meta_byte, value)
  <2>1. PICK p : Adds(buckets_, buckets_', p, meta_byte, value)
    BY <1>3
  <2>2. Located'
    BY <1>1, PlaceValueLocated DEF Searchable
  <2>3. \A q \in Constructed(buckets_) : KeyOf[ValueAt(buckets_, q)] # KeyOf[value]
    <3>1. Constructed(buckets_) = Occupied(buckets_)
      BY <1>1, ConstructedOccupied DEF Shape, NewInv
    <3>2. KeyOf[value] \in Keys
      BY <1>1, ValuesAssumption
    <3> QED BY <1>1, <1>3, <3>1, <3>2, NoMatchNoKey DEF Searchable
  <2>4. Constructed(source) = {} /\ Constructed(source') = {}
    BY <1>1, AtRestSource DEF Constructed, Positions
  <2>5. OneSlotPerKey'
    BY <1>1, <2>1, <2>3, <2>4, KeysAdd DEF Searchable
  <2> QED BY <2>2, <2>5 DEF Searchable
<1> QED BY <1>1, <1>2, <1>3, PlaceValueAdds

\* GetDisorderedValues moves no object.
LEMMA GetDisorderedValuesSearchable ==
  ASSUME Searchable, Counted', GetDisorderedValues
  PROVE  Searchable'
<1>1. UNCHANGED <<hasher, table>> /\ Shape /\ Shape'
  BY DEF GetDisorderedValues, Searchable, Counted
<1>2. Located'
  BY <1>1, LocatedUnchanged DEF Searchable
<1>3. /\ Constructed(source') = Constructed(source)
      /\ \A p \in Constructed(source) : ValueAt(source', p) = ValueAt(source, p)
  BY <1>1, GetDisorderedValuesKeeps
<1>4. Same(buckets_, buckets_')
  BY <1>1 DEF Same, Keeps, table, Occupied, Positions, MetaAt, ValueAt
<1>5. OneSlotPerKey'
  BY <1>1, <1>3, <1>4, KeysSame DEF Searchable
<1> QED BY <1>2, <1>5 DEF Searchable

\* The end of a rehash keeps the elements, and nothing is left in the source.
LEMMA FinishRehashSearchable ==
  ASSUME Searchable, Counted', FinishRehash
  PROVE  Searchable'
<1>1. /\ Shape /\ Shape' /\ Rehashing /\ AtRest' /\ UNCHANGED <<hasher, logical_size_>>
  BY DEF FinishRehash, Return, Searchable, Counted, Rehashing, AtRest
<1>2. Same(buckets_, buckets_') /\ Grows(buckets_, buckets_')
  BY <1>1, FinishRehashKeeps
<1>3. Located'
  BY <1>1, <1>2, LocatedRest DEF Searchable, Same
<1>4. DOMAIN source' = {}
  BY PhysicalRange DEF FinishRehash, NewBuckets
<1>5. Constructed(source') = {}
  BY <1>4 DEF Constructed, Positions
<1>6. OneSlotPerKey'
  BY <1>1, <1>2, <1>5, KeysSame DEF Searchable
<1> QED BY <1>3, <1>6 DEF Searchable

\* clear() leaves nothing to search.
LEMMA ClearSearchable ==
  ASSUME Searchable, Counted', Clear
  PROVE  Searchable'
<1>1. DOMAIN buckets_' = {} /\ source' = source /\ AtRest /\ Shape
  BY PhysicalRange DEF Clear, NewBuckets, Return, scan, AtRest, Searchable, Counted
<1>2. Occupied(buckets_') = {} /\ Constructed(buckets_') = {}
  BY <1>1 DEF Occupied, Constructed, Positions
<1>3. Located'
  BY <1>2 DEF Located
<1>4. Constructed(source') = {}
  BY <1>1, AtRestSource DEF Constructed, Positions
<1>5. OneSlotPerKey'
  BY <1>2, <1>4 DEF OneSlotPerKey, Stored
<1> QED BY <1>3, <1>5 DEF Searchable

\* Every step keeps the elements searchable, as long as distances fit their byte.
LEMMA NextSearchable ==
  ASSUME DistancesInByte, Searchable, [Next]_vars
  PROVE  Searchable'
<1>1. Counted' /\ Counted /\ Shape
  BY NextCounted DEF Searchable, Counted
<1>2. ASSUME AtRest, hasher' = hasher, NEW slot_count, StartRehash(slot_count)
      PROVE  Searchable'
  BY <1>1, <1>2, StartRehashSearchable
<1>3. ASSUME UNCHANGED <<hasher, table, source>>
      PROVE  Searchable'
  BY <1>1, <1>3, SearchableUnchanged
<1>4. ASSUME AtRest, UNCHANGED <<hasher, source>>, NEW p \in Occupied(buckets_), EraseAt(p)
      PROVE  Searchable'
  BY <1>1, <1>4, EraseSearchable
<1>5. ASSUME NEW value \in Values, Insert(value) PROVE Searchable'
  BY <1>2, <1>3, <1>5 DEF Insert, AtRest, scan
<1>6. ASSUME NEW key \in Keys, EraseKey(key) PROVE Searchable'
  <2>1. AtRest /\ UNCHANGED <<hasher, source>>
    BY <1>6 DEF EraseKey, AtRest, scan
  <2>2. CASE UNCHANGED table
    BY <1>3, <2>1, <2>2
  <2>3. CASE \E p \in Find(key) : EraseAt(p)
    BY <1>1, <1>4, <2>1, <2>3, FindOccupied
  <2> QED BY <1>6, <2>2, <2>3 DEF EraseKey
<1>7. ASSUME NEW p \in (DOMAIN buckets_) \X SlotNumber, EraseIterator(p) PROVE Searchable'
  BY <1>1, <1>4, <1>7, IteratorOccupied DEF EraseIterator, AtRest, scan
<1>8. CASE Clear
  BY <1>1, <1>8, ClearSearchable
<1>9. ASSUME NEW count \in ReserveCounts, Reserve(count) PROVE Searchable'
  BY <1>2, <1>3, <1>9 DEF Reserve, AtRest, scan
<1>10. ASSUME NEW count \in RehashCounts, Rehash(count) PROVE Searchable'
  BY <1>2, <1>10 DEF Rehash, AtRest
<1>11. CASE PlaceValue
  BY <1>1, <1>11, PlaceValueSearchable
<1>12. CASE GetDisorderedValues
  BY <1>1, <1>12, GetDisorderedValuesSearchable
<1>13. CASE ScanBucket
  BY <1>1, <1>13, ScanBucketSearchable
<1>14. CASE NextBucket
  BY <1>3, <1>14 DEF NextBucket
<1>15. CASE DrainHeap
  BY <1>1, <1>15, InsertFromHeapSearchable DEF DrainHeap, Rehashing
<1>16. CASE FinishRehash
  BY <1>1, <1>16, FinishRehashSearchable
<1>17. CASE UNCHANGED vars
  BY <1>3, <1>17 DEF vars, scan
<1> QED
  BY <1>5, <1>6, <1>7, <1>8, <1>9, <1>10, <1>11, <1>12, <1>13, <1>14, <1>15, <1>16,
     <1>17 DEF Next, Step

\* An empty table is searchable.
LEMMA InitSearchable == Init => Searchable
<1> SUFFICES ASSUME Init PROVE Searchable
  OBVIOUS
<1>1. Counted
  BY InitCounted
<1>2. DOMAIN buckets_ = {} /\ DOMAIN source = {}
  BY PhysicalRange DEF Init, NewBuckets
<1>3. /\ Occupied(buckets_) = {} /\ Constructed(buckets_) = {}
      /\ Constructed(source) = {}
  BY <1>2 DEF Occupied, Constructed, Positions
<1> QED BY <1>1, <1>3 DEF Searchable, Located, OneSlotPerKey, Stored

\* The elements are where lookups find them and their keys are unique, in every
\* state of every history in which no distance outgrows its byte.
THEOREM SearchableInvariant == Spec /\ []DistancesInByte => []Searchable
<1>1. Init => Searchable
  BY InitSearchable
<1>2. Searchable /\ DistancesInByte /\ [Next]_vars => Searchable'
  BY NextSearchable
<1> QED BY <1>1, <1>2, PTL DEF Spec

\* The part of Validate() that makes lookups work: each element lies within the
\* search distance of its preferred bucket, also while a rehash fills the table.
THEOREM SearchDistancesCorrect == Spec /\ []DistancesInByte => []WithinSearchDistance
<1>1. Searchable => WithinSearchDistance
  BY DEF Searchable, Located, WithinSearchDistance
<1> QED BY <1>1, SearchableInvariant, PTL

\* No key is in two slots, nor a value in both tables of a rehash.
THEOREM KeysUnique == Spec /\ []DistancesInByte => []OneSlotPerKey
<1>1. Searchable => OneSlotPerKey
  BY DEF Searchable
<1> QED BY <1>1, SearchableInvariant, PTL

-----------------------------------------------------------------------------
(* Lookups *)

\* What a lookup comes across is an element with the key.
LEMMA MatchOccupied ==
  ASSUME Shape, AtRest, logical_size_ > 0, NEW key \in Keys, NEW d \in Nat,
         NEW p \in Matches(key, d)
  PROVE  p \in Occupied(buckets_) /\ KeyOf[ValueAt(buckets_, p)] = key /\ p[2] \in Int
<1> DEFINE h1 == H1(hasher[key], logical_size_)
<1>1. hasher[key] \in Hash
  BY HashAssumption DEF Shape, TypeOK, Hash
<1>2. logical_size_ \in Nat \ {0}
  BY SizeAssumption DEF Shape, TypeOK
<1>3. h1 \in Nat
  BY <1>1, <1>2, H1Range
<1>4. Physical \in Nat
  BY <1>2, PhysicalRange DEF Physical
<1>5. /\ p = <<p[1], p[2]>> /\ p[1] \in h1 .. h1 + d - 1 /\ p[2] \in SlotNumber
      /\ p[1] < Physical
      /\ p[2] \in FindElement(buckets_[p[1]], H2(hasher[key]), key)
  BY DEF Matches
<1> HIDE DEF h1
<1>6. p[1] \in 0 .. Physical - 1
  BY <1>3, <1>4, <1>5
<1>7. H2(hasher[key]) \in 0 .. 63
  BY <1>1, MetaBytes
<1>8. buckets_[p[1]].h2[p[2]] # kEmpty
  BY <1>5, <1>7
  DEF FindElement, MatchingElements, ClearOrdered, IsNonemptyAndOrdered, kEmpty
<1>9. p[1] \in DOMAIN buckets_ /\ buckets_[p[1]] # Uninitialized
  BY <1>6, AtRestShape, UninitializedAssumption DEF Consistent
<1>10. p \in Occupied(buckets_)
  BY <1>5, <1>8, <1>9, OccupiedSlot
<1>11. KeyOf[ValueAt(buckets_, p)] = key
  BY <1>5 DEF FindElement, ValueAt
<1> QED BY <1>5, <1>10, <1>11 DEF SlotNumber

\* A lookup that goes as far as the search distance comes across the key.
LEMMA KeyMatches ==
  ASSUME Shape, AtRest, Located, NEW key \in Keys, NEW q \in Occupied(buckets_),
         KeyOf[ValueAt(buckets_, q)] = key
  PROVE  q \in Matches(key, FindDistance(key)) /\ FindDistance(key) \in Nat
<1> DEFINE value == ValueAt(buckets_, q)
           h1 == H1(hasher[key], logical_size_)
<1>1. LocatedAt(buckets_, q)
  BY LocatedEach
<1>2. HashOf(value) = hasher[key] /\ Preferred(value) = h1
  BY DEF HashOf, Preferred
<1>3. /\ q = <<q[1], q[2]>> /\ q[2] \in SlotNumber
      /\ q[1] \in 0 .. Physical - 1 /\ Physical \in Nat /\ h1 \in 0 .. Physical - 1
  BY <1>2, OccupiedPair, OccupiedValue
<1>4. /\ h1 <= q[1] /\ q[1] < h1 + SearchDistance(key)
      /\ ClearOrdered(buckets_[q[1]].h2[q[2]]) = H2(hasher[key])
  BY <1>1, <1>2 DEF LocatedAt, SearchDistance, MetaAt
<1>5. SearchDistance(key) \in Nat
  <2>1. buckets_[h1] \in Bucket
    BY <1>3, AtRestShape DEF Consistent
  <2> QED BY <2>1, SizeAssumption DEF Bucket, SearchDistance
<1>6. FindDistance(key) \in Nat /\ SearchDistance(key) <= FindDistance(key)
  BY <1>5 DEF FindDistance, MaxOf
<1>7. q[2] \in FindElement(buckets_[q[1]], H2(hasher[key]), key)
  BY <1>3, <1>4 DEF FindElement, MatchingElements, ValueAt
<1>8. q[1] \in h1 .. h1 + FindDistance(key) - 1
  BY <1>3, <1>4, <1>5, <1>6
<1> QED BY <1>3, <1>6, <1>7, <1>8 DEF Matches

\* A lookup finds the element with the key, and nothing when there is none.
LEMMA FindExact ==
  ASSUME Searchable, AtRest, NEW key \in Keys
  PROVE  Find(key) = {p \in Occupied(buckets_) : KeyOf[ValueAt(buckets_, p)] = key}
<1> DEFINE found == Matches(key, FindDistance(key))
           wanted == {p \in Occupied(buckets_) : KeyOf[ValueAt(buckets_, p)] = key}
<1>1. Shape /\ Located /\ OneSlotPerKey /\ CountInv
  BY DEF Searchable, Counted
<1>2. CASE size_ = 0
  <2>1. Occupied(buckets_) = {}
    BY <1>1, <1>2, FS_EmptySet DEF CountInv, SizeIsCount
  <2> QED BY <1>2, <2>1 DEF Find
<1>3. CASE size_ # 0
  <2>1. logical_size_ > 0 /\ logical_size_ \in Nat \ {0}
    BY <1>1, <1>3, SizeAssumption DEF Shape, TypeOK, CallInv
  <2>2. FindDistance(key) \in Nat
    <3>1. hasher[key] \in Hash
      BY <1>1, HashAssumption DEF Shape, TypeOK, Hash
    <3>2. H1(hasher[key], logical_size_) \in 0 .. Physical - 1
      BY <2>1, <3>1, H1Range, PhysicalRange DEF Physical
    <3>3. buckets_[H1(hasher[key], logical_size_)] \in Bucket
      BY <1>1, <3>2, AtRestShape DEF Consistent
    <3>4. SearchDistance(key) \in Nat
      BY <3>3, SizeAssumption DEF Bucket, SearchDistance
    <3> QED BY <3>4 DEF FindDistance, MaxOf
  <2>3. \A p \in found : p \in wanted /\ p[2] \in Int
    BY <1>1, <2>1, <2>2, MatchOccupied
  <2>4. \A p \in wanted : p \in found
    BY <1>1, KeyMatches
  <2>5. \A p, q \in wanted : p = q
    BY <1>1, OccupiedValue DEF OneSlotPerKey
  <2>6. First(found) = found
    BY <2>3, <2>5 DEF First
  <2> QED BY <1>3, <2>3, <2>4, <2>6 DEF Find
<1> QED BY <1>2, <1>3

\* find() answers as a scan of the whole table would.
THEOREM LookupsCorrect == Spec /\ []DistancesInByte => []FindCorrect
<1>1. Searchable => FindCorrect
  BY FindExact DEF FindCorrect
<1> QED BY <1>1, SearchableInvariant, PTL

-----------------------------------------------------------------------------
(* Small tables *)

\* In a table that never has more than 255 buckets no distance outgrows its
\* byte.
LEMMA SmallDistances ==
  ASSUME DistancesFit, Shape
  PROVE  DistancesInByte
<1> SUFFICES ASSUME Rehashing, NEW value \in Stored(source)
             PROVE  insert_bucket < H1(HashOf(value), logical_size_)
                                      + kSearchDistanceEndSentinal
  BY DEF DistancesInByte
<1>1. /\ Physical \in Nat /\ insert_bucket \in 0 .. Physical - 1
      /\ logical_size_ \in 0 .. MaxLogicalSize /\ logical_size_ > 0
  BY RehashingShape DEF Shape, TypeOK
<1>2. Physical <= kSearchDistanceEndSentinal
  BY <1>1 DEF DistancesFit, Physical
<1>3. value \in Values
  <2>1. PICK p \in Constructed(source) : value = source[p[1]].slots[p[2]]
    BY DEF Stored, ValueAt
  <2>2. source \in [0 .. SourcePhysical - 1 -> Bucket] /\ DOMAIN source = 0 .. SourcePhysical - 1
    BY SourceTyped
  <2>3. p[1] \in DOMAIN source /\ p[2] \in SlotNumber /\ source[p[1]].slots[p[2]] # NoValue
    BY ConstructedPair
  <2>4. source[p[1]] \in Bucket
    BY <2>2, <2>3
  <2> QED BY <2>1, <2>3, <2>4 DEF Bucket
<1>4. H1(HashOf(value), logical_size_) \in 0 .. Physical - 1
  BY <1>1, <1>3, PreferredRange DEF Shape
<1> HIDE DEF Physical
<1> QED BY <1>1, <1>2, <1>4, SizeAssumption

\* There the search is correct without further hypotheses.
THEOREM SmallTablesCorrect ==
  ASSUME DistancesFit
  PROVE  Spec => [](WithinSearchDistance /\ OneSlotPerKey /\ FindCorrect)
<1>1. Shape => DistancesInByte
  BY SmallDistances
<1> QED
  BY <1>1, ShapeInvariant, SearchDistancesCorrect, KeysUnique, LookupsCorrect, PTL
=============================================================================
