--------------------------- MODULE TwoTablesProofs ---------------------------
(***************************************************************************)
(* Proofs about two tables that are copied, assigned, swapped and moved:   *)
(* both can always be searched, and a copy finds what its source holds.    *)
(*                                                                         *)
(* What HashTableProofs says of a call on one table holds of the table the *)
(* callers use whenever no copy is in progress; that keys are unique does  *)
(* not, for a copy may hold an element twice.                              *)
(***************************************************************************)
EXTENDS TwoTablesInvariant, HashTableRehashProofs, WellFoundedInduction

-----------------------------------------------------------------------------
(* Calls on one table *)

\* Every step of a call keeps the elements within reach, also where keys are not
\* unique.
LEMMA NextLocated ==
  ASSUME DistancesInByte, Counted, Located, [Next]_vars
  PROVE  Located'
<1>1. Counted' /\ Shape /\ Shape'
  BY NextCounted DEF Counted
<1>2. ASSUME UNCHANGED <<hasher, table>> PROVE Located'
  BY <1>2, LocatedUnchanged
<1>3. ASSUME AtRest, hasher' = hasher, NEW slot_count, StartRehash(slot_count)
      PROVE  Located'
  <2>1. CASE UNCHANGED table
    BY <1>2, <1>3, <2>1
  <2>2. CASE Occupied(buckets_') = {}
    BY <2>2 DEF Located
  <2> QED BY <1>1, <1>3, <2>1, <2>2, StartRehashEmpties
<1>4. ASSUME AtRest, hasher' = hasher, NEW p \in Occupied(buckets_), EraseAt(p)
      PROVE  Located'
  <2>1. Removes(buckets_, buckets_', p) /\ Grows(buckets_, buckets_')
    BY <1>1, <1>4, EraseAtRemoves
  <2>2. logical_size_' = logical_size_
    BY <1>4 DEF EraseAt
  <2> QED BY <1>1, <1>4, <2>1, <2>2, LocatedRest DEF Removes
<1>5. ASSUME Rehashing, hasher' = hasher, NEW value \in Values,
             ~InsertOverruns(value), InsertAscending(value),
             NEW q, Takes(source, source', q), ValueAt(source, q) = value
      PROVE  Located'
  BY <1>1, <1>5, MoveLocated
<1>6. ASSUME Rehashing, hasher' = hasher, InsertFromHeap PROVE Located'
  <2>1. CASE UNCHANGED table
    BY <1>2, <1>6, <2>1
  <2>2. ASSUME NEW item \in heap, NEW value \in Values,
               value = source[item.bucket].slots[item.slot],
               ~InsertOverruns(value), InsertAscending(value),
               source' = [source EXCEPT ![item.bucket].slots[item.slot] = NoValue]
        PROVE  Located'
    <3>1. PICK q : q = <<item.bucket, item.slot>>
      OBVIOUS
    <3>2. Takes(source, source', q) /\ ValueAt(source, q) = value
      BY <1>1, <2>2, <3>1, MoveFromHeapTakes
    <3> QED BY <1>5, <1>6, <2>2, <3>2
  <2> QED BY <1>1, <1>6, <2>1, <2>2, InsertFromHeapMoves
<1>7. CASE ScanBucket
  <2>1. Rehashing /\ hasher' = hasher
    BY <1>7 DEF ScanBucket, Rehashing
  <2>2. CASE UNCHANGED table
    BY <1>2, <2>1, <2>2
  <2>3. ASSUME NEW s \in SlotNumber, NEW b \in DOMAIN source, NEW value \in Values,
               value = source[b].slots[s], source[b].h2[s] # kEmpty,
               ~InsertOverruns(value), InsertAscending(value),
               source' = [source EXCEPT ![b].slots[s] = NoValue, ![b].h2[s] = kEmpty]
        PROVE  Located'
    <3>1. PICK q : q = <<b, s>>
      OBVIOUS
    <3>2. Takes(source, source', q) /\ ValueAt(source, q) = value
      BY <1>1, <2>3, <3>1, MoveFromSlotTakes
    <3> QED BY <1>5, <2>1, <2>3, <3>2
  <2> QED BY <1>1, <1>6, <1>7, <2>1, <2>2, <2>3, ScanBucketMoves
<1>8. CASE FinishRehash
  <2>1. Rehashing /\ UNCHANGED <<hasher, logical_size_>>
    BY <1>8 DEF FinishRehash, Rehashing
  <2>2. Same(buckets_, buckets_') /\ Grows(buckets_, buckets_')
    BY <1>1, <1>8, FinishRehashKeeps
  <2> QED BY <1>1, <2>1, <2>2, LocatedRest DEF Same
<1>9. ASSUME NEW value \in Values, Insert(value) PROVE Located'
  BY <1>2, <1>3, <1>9 DEF Insert, AtRest
<1>10. ASSUME NEW key \in Keys, EraseKey(key) PROVE Located'
  <2>1. AtRest /\ hasher' = hasher
    BY <1>10 DEF EraseKey, AtRest
  <2>2. CASE UNCHANGED table
    BY <1>2, <2>1, <2>2
  <2>3. CASE \E p \in Find(key) : EraseAt(p)
    BY <1>1, <1>4, <2>1, <2>3, FindOccupied
  <2> QED BY <1>10, <2>2, <2>3 DEF EraseKey
<1>11. ASSUME NEW p \in (DOMAIN buckets_) \X SlotNumber, EraseIterator(p) PROVE Located'
  BY <1>1, <1>4, <1>11, IteratorOccupied DEF EraseIterator, AtRest
<1>12. CASE Clear
  <2>1. DOMAIN buckets_' = {}
    BY <1>12, PhysicalRange DEF Clear, NewBuckets
  <2>2. Occupied(buckets_') = {}
    BY <2>1 DEF Occupied, Positions
  <2> QED BY <2>2 DEF Located
<1>13. ASSUME NEW count \in ReserveCounts, Reserve(count) PROVE Located'
  BY <1>2, <1>3, <1>13 DEF Reserve, AtRest
<1>14. ASSUME NEW count \in RehashCounts, Rehash(count) PROVE Located'
  BY <1>2, <1>3, <1>14 DEF Rehash, AtRest
<1>15. CASE PlaceValue
  BY <1>1, <1>15, PlaceValueLocated
<1>16. CASE GetDisorderedValues \/ NextBucket
  BY <1>2, <1>16 DEF GetDisorderedValues, NextBucket
<1>17. CASE DrainHeap
  BY <1>6, <1>17 DEF DrainHeap, Rehashing
<1>18. CASE UNCHANGED vars
  BY <1>2, <1>18 DEF vars
<1> QED
  BY <1>7, <1>8, <1>9, <1>10, <1>11, <1>12, <1>13, <1>14, <1>15, <1>16, <1>17, <1>18
  DEF Next, Step

\* A rehash sets the locals and resets them; the other steps of a table at rest
\* do not touch them.
LEMMA NextLocalsReset ==
  ASSUME LocalsReset, Shape, [Next]_vars
  PROVE  LocalsReset'
<1>1. CASE UNCHANGED <<scan, target>> /\ (AtRest' => AtRest)
  BY <1>1 DEF LocalsReset, scan, target
<1>2. CASE ~AtRest'
  BY <1>2 DEF LocalsReset
<1>3. ASSUME AtRest, NEW slot_count, StartRehash(slot_count) PROVE LocalsReset'
  BY <1>1, <1>2, <1>3 DEF StartRehash, Abort, AtRest
<1>4. ASSUME NEW value \in Values, Insert(value) PROVE LocalsReset'
  BY <1>1, <1>3, <1>4 DEF Insert, AtRest
<1>5. ASSUME NEW key \in Keys, EraseKey(key) PROVE LocalsReset'
  BY <1>1, <1>5 DEF EraseKey, AtRest
<1>6. ASSUME NEW p \in (DOMAIN buckets_) \X SlotNumber, EraseIterator(p)
      PROVE  LocalsReset'
  BY <1>1, <1>6 DEF EraseIterator, AtRest
<1>7. CASE Clear
  BY <1>1, <1>7 DEF Clear, AtRest
<1>8. ASSUME NEW count \in ReserveCounts, Reserve(count) PROVE LocalsReset'
  BY <1>1, <1>3, <1>8 DEF Reserve, AtRest
<1>9. ASSUME NEW count \in RehashCounts, Rehash(count) PROVE LocalsReset'
  BY <1>3, <1>9 DEF Rehash, AtRest
<1>10. CASE PlaceValue
  BY <1>1, <1>10 DEF PlaceValue, AtRest
<1>11. CASE GetDisorderedValues \/ NextBucket
  BY <1>2, <1>11 DEF GetDisorderedValues, NextBucket, AtRest
<1>12. ASSUME Rehashing, InsertFromHeap PROVE LocalsReset'
  BY <1>2, <1>12 DEF InsertFromHeap, InsertAscending, Rehashing, AtRest
<1>13. CASE ScanBucket
  <2>1. Rehashing
    BY <1>13 DEF ScanBucket, Rehashing
  <2>2. CASE InsertFromHeap
    BY <1>12, <2>1, <2>2
  <2>3. CASE pc' = "aborted"
    BY <1>2, <2>3 DEF AtRest
  <2>4. CASE pc' = pc
    BY <1>2, <2>1, <2>4 DEF Rehashing, AtRest
  <2> QED BY <1>13, <2>2, <2>3, <2>4 DEF ScanBucket, InsertAscending
<1>14. CASE DrainHeap
  BY <1>12, <1>14 DEF DrainHeap, Rehashing
<1>15. CASE FinishRehash
  BY <1>15 DEF FinishRehash, LocalsReset
<1>16. CASE UNCHANGED vars
  BY <1>1, <1>16 DEF vars, AtRest
<1> QED
  BY <1>4, <1>5, <1>6, <1>7, <1>8, <1>9, <1>10, <1>11, <1>13, <1>14, <1>15, <1>16
  DEF Next, Step

LEMMA NextWorking ==
  ASSUME DistancesInByte, Working, [Next]_vars
  PROVE  Working'
<1>1. Counted'
  BY NextCounted DEF Working
<1>2. Located'
  BY NextLocated DEF Working
<1>3. DistancesInArray'
  BY NextInArray DEF Working
<1>4. LocalsReset'
  BY NextLocalsReset DEF Working, Counted
<1> QED BY <1>1, <1>2, <1>3, <1>4 DEF Working

-----------------------------------------------------------------------------
(* What a copy shares with a rehash *)

\* Where an ascending insert of a copy goes, and where the next one will: as for a
\* rehash, but without tombstones.
CopyAt(value) ==
  IF insert_bucket < Preferred(value) THEN <<Preferred(value), 0>>
  ELSE <<insert_bucket, insert_slot>>
CopyNext(value) ==
  LET at == CopyAt(value)
  IN  IF at[2] + 1 = kSlotsPerBucket THEN <<at[1] + 1, 0>> ELSE <<at[1], at[2] + 1>>
CopyOpened(value) == InitBuckets(buckets_, insert_bucket + 1, CopyNext(value)[1])

\* The operators of the instance Copy are those of HashTable where they do not
\* depend on the source and the tombstones.
LEMMA CopyHelpers ==
  /\ \A hash, n : Copy!H1(hash, n) = H1(hash, n)
  /\ \A hash : Copy!H2(hash) = H2(hash)
  /\ \A value : Copy!HashOf(value) = HashOf(value)
  /\ \A h2 : Copy!SetOrderedValue(h2) = SetOrderedValue(h2)
  /\ \A n : Copy!PhysicalSize(n) = PhysicalSize(n)
  /\ Copy!Physical = Physical
  /\ \A buckets, first, last :
       Copy!InitBuckets(buckets, first, last) = InitBuckets(buckets, first, last)
  /\ \A buckets, preferred, b, s, meta_byte, value :
       Copy!StoreValue(buckets, preferred, b, s, meta_byte, value)
         = StoreValue(buckets, preferred, b, s, meta_byte, value)
  /\ \A b : Copy!FirstSlot(b) = 0
<1>1. /\ \A hash, n : Copy!H1(hash, n) = H1(hash, n)
      /\ \A hash : Copy!H2(hash) = H2(hash)
      /\ \A value : Copy!HashOf(value) = HashOf(value)
      /\ \A h2 : Copy!SetOrderedValue(h2) = SetOrderedValue(h2)
  BY DEF Copy!H1, H1, Copy!H2, H2, Copy!HashOf, HashOf, Copy!SetOrderedValue,
         SetOrderedValue, Copy!kOrderedMask, kOrderedMask
<1>2. /\ \A n : Copy!PhysicalSize(n) = PhysicalSize(n)
      /\ Copy!Physical = Physical
  BY DEF Copy!PhysicalSize, PhysicalSize, Copy!ExtraBuckets, ExtraBuckets,
         Copy!Physical, Physical
<1>3. \A buckets, first, last :
        Copy!InitBuckets(buckets, first, last) = InitBuckets(buckets, first, last)
  BY DEF Copy!InitBuckets, InitBuckets, Copy!InitBucket, InitBucket,
         Copy!SlotNumber, SlotNumber, Copy!kEmpty, kEmpty
<1>4. \A buckets, preferred, b, s, meta_byte, value :
        Copy!StoreValue(buckets, preferred, b, s, meta_byte, value)
          = StoreValue(buckets, preferred, b, s, meta_byte, value)
  BY DEF Copy!StoreValue, StoreValue, Copy!MaxOf, MaxOf, Copy!DistanceTo, DistanceTo
<1>5. \A b : Copy!FirstSlot(b) = 0
  BY DEF Copy!FirstSlot, Copy!BucketGetsTombstone, Copy!TombstoneBits
<1> QED BY <1>1, <1>2, <1>3, <1>4, <1>5

\* The ascending insert of a copy.
LEMMA CopyInserts ==
  ASSUME NEW value, Copy!InsertAscending(value)
  PROVE  /\ buckets_' = StoreValue(CopyOpened(value), Preferred(value), CopyAt(value)[1],
                                   CopyAt(value)[2], OrderedByte(value), value)
         /\ insert_bucket' = CopyNext(value)[1] /\ insert_slot' = CopyNext(value)[2]
         /\ size_' = size_ + 1 /\ UNCHANGED <<logical_size_, pc>>
<1>1. Copy!InsertTarget(Preferred(value)) = CopyAt(value)
  BY CopyHelpers DEF Copy!InsertTarget, CopyAt
<1>2. Copy!NextTarget(CopyAt(value)[1], CopyAt(value)[2]) = CopyNext(value)
  BY CopyHelpers DEF Copy!NextTarget, CopyNext
<1>3. Copy!H1(Copy!HashOf(value), logical_size_) = Preferred(value)
  BY CopyHelpers DEF Preferred
<1>4. Copy!SetOrderedValue(Copy!H2(Copy!HashOf(value))) = OrderedByte(value)
  BY CopyHelpers DEF OrderedByte
<1> QED BY <1>1, <1>2, <1>3, <1>4, CopyHelpers DEF Copy!InsertAscending, CopyOpened

LEMMA CopyFits ==
  ASSUME NEW value, ~Copy!InsertOverruns(value)
  PROVE  ~(CopyAt(value)[1] >= Physical) /\ ~(CopyNext(value)[1] >= Physical)
<1>1. Copy!InsertTarget(Preferred(value)) = CopyAt(value)
  BY CopyHelpers DEF Copy!InsertTarget, CopyAt
<1>2. Copy!NextTarget(CopyAt(value)[1], CopyAt(value)[2]) = CopyNext(value)
  BY CopyHelpers DEF Copy!NextTarget, CopyNext
<1>3. Copy!H1(Copy!HashOf(value), logical_size_) = Preferred(value)
  BY CopyHelpers DEF Preferred
<1> QED BY <1>1, <1>2, <1>3, CopyHelpers DEF Copy!InsertOverruns

-----------------------------------------------------------------------------
(* The table that a copy fills *)

\* Its buckets are all initialised, and there are some.
LEMMA CopyTargetTyped ==
  ASSUME CopyTarget
  PROVE  /\ logical_size_ \in Nat \ {0} /\ Physical \in Nat /\ logical_size_ < Physical
         /\ insert_bucket \in 0 .. Physical - 1 /\ insert_slot \in SlotNumber
         /\ buckets_ \in [0 .. Physical - 1 -> Bucket]
         /\ \A b \in 0 .. Physical - 1 : Consistent(buckets_[b]) /\ buckets_[b] # Uninitialized
         /\ Constructed(buckets_) = Occupied(buckets_)
         /\ \A value \in Values : HashOf(value) \in Hash
         /\ \A value \in Values : Preferred(value) \in 0 .. logical_size_ - 1
<1>1. logical_size_ \in Nat \ {0}
  BY SizeAssumption DEF CopyTarget
<1>2. Physical \in Nat /\ logical_size_ < Physical
  BY <1>1, PhysicalRange DEF Physical
<1>3. /\ buckets_ \in [0 .. Physical - 1 -> Bucket]
      /\ \A b \in 0 .. Physical - 1 : Consistent(buckets_[b])
      /\ insert_bucket \in 0 .. Physical - 1 /\ insert_slot \in SlotNumber
  BY DEF CopyTarget
<1>4. \A b \in 0 .. Physical - 1 : buckets_[b] # Uninitialized
  BY <1>3, UninitializedAssumption
<1>5. Constructed(buckets_) = Occupied(buckets_)
  BY <1>3, ConstructedOccupied
<1>6. \A value \in Values : HashOf(value) \in Hash
  BY ValuesAssumption, HashAssumption DEF CopyTarget, HashOf, Hash
<1>7. \A value \in Values : Preferred(value) \in 0 .. logical_size_ - 1
  BY <1>1, <1>6, H1Range DEF Preferred
<1> QED BY <1>1, <1>2, <1>3, <1>4, <1>5, <1>6, <1>7

\* Where the next value goes: at or after its preferred bucket and all elements.
LEMMA CopyAtRange ==
  ASSUME CopyTarget, NEW value \in Values, ~Copy!InsertOverruns(value)
  PROVE  /\ CopyAt(value)[1] \in 0 .. Physical - 1 /\ CopyAt(value)[2] \in SlotNumber
         /\ Preferred(value) <= CopyAt(value)[1]
         /\ \/ CopyAt(value)[1] > insert_bucket /\ CopyAt(value)[1] = Preferred(value)
            \/ CopyAt(value) = <<insert_bucket, insert_slot>>
         /\ CopyNext(value)[1] \in 0 .. Physical - 1 /\ CopyNext(value)[2] \in SlotNumber
         /\ CopyNext(value) \in {<<CopyAt(value)[1], CopyAt(value)[2] + 1>>,
                                 <<CopyAt(value)[1] + 1, 0>>}
<1> DEFINE h1 == Preferred(value)
           at == CopyAt(value)
           next == CopyNext(value)
<1>1. /\ Physical \in Nat /\ logical_size_ \in Nat /\ logical_size_ < Physical
      /\ insert_bucket \in 0 .. Physical - 1 /\ insert_slot \in SlotNumber
      /\ h1 \in 0 .. logical_size_ - 1
  BY CopyTargetTyped
<1>2. ~(at[1] >= Physical) /\ ~(next[1] >= Physical)
  BY CopyFits
<1>3. 0 \in SlotNumber
  BY SizeAssumption DEF SlotNumber
<1>4. \/ at = <<h1, 0>> /\ insert_bucket < h1
      \/ at = <<insert_bucket, insert_slot>> /\ ~(insert_bucket < h1)
  BY DEF CopyAt
<1> HIDE DEF h1, at
<1>5. /\ at[1] \in 0 .. Physical - 1 /\ at[2] \in SlotNumber /\ h1 <= at[1]
      /\ \/ at[1] > insert_bucket /\ at[1] = h1
         \/ at = <<insert_bucket, insert_slot>>
  BY <1>1, <1>3, <1>4
<1>6. \/ next = <<at[1] + 1, 0>>
      \/ next = <<at[1], at[2] + 1>> /\ at[2] + 1 # kSlotsPerBucket
  BY DEF CopyNext, at
<1> HIDE DEF next
<1>7. next[1] \in 0 .. Physical - 1 /\ next[2] \in SlotNumber
  BY <1>1, <1>2, <1>3, <1>5, <1>6, SizeAssumption DEF SlotNumber
<1> QED BY <1>5, <1>6, <1>7 DEF h1, at, next

\* The bucket and the slot it goes to.
LEMMA CopyValueStores ==
  ASSUME CopyTarget, NEW value \in Values,
         ~Copy!InsertOverruns(value), Copy!InsertAscending(value)
  PROVE  /\ CopyOpened(value) \in [0 .. Physical - 1 -> Bucket]
         /\ \A x \in 0 .. Physical - 1 :
              /\ CopyOpened(value)[x] =
                   IF insert_bucket + 1 <= x /\ x <= CopyNext(value)[1] THEN InitBucket
                   ELSE buckets_[x]
              /\ Consistent(CopyOpened(value)[x])
         /\ CopyOpened(value)[CopyAt(value)[1]].h2[CopyAt(value)[2]] = kEmpty
         /\ Same(buckets_, CopyOpened(value))
         /\ OrderedByte(value) \in MetaByte /\ OrderedByte(value) # kEmpty
         /\ Stores(Physical, CopyOpened(value), Preferred(value), CopyAt(value)[1],
                   CopyAt(value)[2], OrderedByte(value), value, buckets_')
<1> DEFINE h1 == Preferred(value)
           b == CopyAt(value)[1]
           s == CopyAt(value)[2]
           next == CopyNext(value)[1]
           opened == CopyOpened(value)
<1>1. /\ Physical \in Nat /\ logical_size_ \in Nat /\ logical_size_ < Physical
      /\ insert_bucket \in 0 .. Physical - 1 /\ insert_slot \in SlotNumber
      /\ h1 \in 0 .. logical_size_ - 1
      /\ buckets_ \in [0 .. Physical - 1 -> Bucket]
      /\ \A x \in 0 .. Physical - 1 : Consistent(buckets_[x]) /\ buckets_[x] # Uninitialized
      /\ HashOf(value) \in Hash
  BY CopyTargetTyped
<1>2. /\ b \in 0 .. Physical - 1 /\ s \in SlotNumber /\ h1 <= b
      /\ \/ b > insert_bucket /\ b = h1
         \/ CopyAt(value) = <<insert_bucket, insert_slot>>
      /\ next \in 0 .. Physical - 1 /\ next \in {b, b + 1}
  BY CopyAtRange
<1>3. /\ opened \in [0 .. Physical - 1 -> Bucket \cup {Uninitialized}]
      /\ \A x \in 0 .. Physical - 1 :
           opened[x] = IF insert_bucket + 1 <= x /\ x <= next THEN InitBucket ELSE buckets_[x]
  BY <1>1, <1>2, InitBucketsRange DEF CopyOpened
<1>4. \A x \in 0 .. Physical - 1 : Consistent(opened[x])
  BY <1>1, <1>3, InitBucketConsistent
<1>5. opened \in [0 .. Physical - 1 -> Bucket]
  BY <1>3, <1>4 DEF Consistent
<1>6. \A q \in Occupied(buckets_) :
        q[1] < insert_bucket \/ (q[1] = insert_bucket /\ q[2] < insert_slot)
  BY DEF CopyTarget
<1>7. \A y \in SlotNumber : InitBucket.h2[y] = kEmpty
  BY DEF InitBucket
<1>8. opened[b].h2[s] = kEmpty
  <2>1. CASE b > insert_bucket /\ b = h1
    BY <1>1, <1>2, <1>3, <1>7, <2>1
  <2>2. CASE CopyAt(value) = <<insert_bucket, insert_slot>>
    <3>1. b = insert_bucket /\ s = insert_slot
      BY <2>2
    <3>2. <<insert_bucket, insert_slot>> \notin Occupied(buckets_)
      BY <1>1, <1>6, SizeAssumption DEF SlotNumber
    <3>3. buckets_[insert_bucket].h2[insert_slot] = kEmpty
      BY <1>1, <3>2, OccupiedSlot
    <3>4. opened[insert_bucket] = buckets_[insert_bucket]
      BY <1>1, <1>2, <1>3
    <3> QED BY <3>1, <3>3, <3>4
  <2> QED BY <1>2, <2>1, <2>2
<1>9. Same(buckets_, opened)
  <2>1. \A x \in 0 .. Physical - 1 : opened[x] # Uninitialized
    BY <1>5, UninitializedAssumption
  <2>2. ASSUME NEW x, NEW y
        PROVE  <<x, y>> \in Occupied(opened) <=> <<x, y>> \in Occupied(buckets_)
    <3>1. <<x, y>> \in Occupied(opened) <=>
            x \in 0 .. Physical - 1 /\ y \in SlotNumber /\ opened[x].h2[y] # kEmpty
      BY <1>5, <2>1, OccupiedSlot
    <3>2. <<x, y>> \in Occupied(buckets_) <=>
            x \in 0 .. Physical - 1 /\ y \in SlotNumber /\ buckets_[x].h2[y] # kEmpty
      BY <1>1, OccupiedSlot
    <3>3. CASE x \in 0 .. Physical - 1 /\ insert_bucket + 1 <= x /\ x <= next
      <4>1. <<x, y>> \notin Occupied(buckets_)
        BY <1>1, <1>6, <3>3
      <4> QED BY <1>3, <1>7, <3>1, <3>3, <4>1
    <3>4. CASE ~(x \in 0 .. Physical - 1 /\ insert_bucket + 1 <= x /\ x <= next)
      BY <1>3, <3>1, <3>2, <3>4
    <3> QED BY <3>3, <3>4
  <2>3. Occupied(opened) = Occupied(buckets_)
    <3>1. ASSUME NEW q PROVE q \in Occupied(opened) <=> q \in Occupied(buckets_)
      BY <2>2, OccupiedPair
    <3> QED BY <3>1
  <2>4. ASSUME NEW q \in Occupied(buckets_) PROVE Keeps(buckets_, opened, q)
    <3>1. q[1] \in 0 .. Physical - 1 /\ ~(insert_bucket + 1 <= q[1])
      BY <1>1, <1>6, OccupiedPair
    <3> QED BY <1>3, <3>1 DEF Keeps, MetaAt, ValueAt
  <2> QED BY <2>3, <2>4 DEF Same
<1>10. OrderedByte(value) \in MetaByte /\ OrderedByte(value) # kEmpty
  BY <1>1, MetaBytes DEF OrderedByte
<1>11. buckets_' = StoreValue(opened, h1, b, s, OrderedByte(value), value)
  BY CopyInserts
<1>12. h1 \in 0 .. Physical - 1
  BY <1>1
<1>13. Stores(Physical, opened, h1, b, s, OrderedByte(value), value, buckets_')
  <2> HIDE DEF h1, b, s, opened
  <2> QED BY <1>1, <1>2, <1>3, <1>5, <1>10, <1>11, <1>12, StoreValueStores
<1> QED BY <1>3, <1>4, <1>5, <1>8, <1>9, <1>10, <1>13

\* Its effect: one element more, the count and the values with it.
LEMMA CopyValueAdds ==
  ASSUME CopyTarget, NEW value \in Values,
         ~Copy!InsertOverruns(value), Copy!InsertAscending(value)
  PROVE  /\ Adds(buckets_, buckets_', CopyAt(value), OrderedByte(value), value)
         /\ buckets_' \in [0 .. Physical - 1 -> Bucket]
         /\ \A x \in 0 .. Physical - 1 : Consistent(buckets_'[x])
         /\ CountInv'
         /\ Stored(buckets_') = Stored(buckets_) \cup {value}
<1> DEFINE h1 == Preferred(value)
           b == CopyAt(value)[1]
           s == CopyAt(value)[2]
           opened == CopyOpened(value)
<1>1. /\ opened \in [0 .. Physical - 1 -> Bucket]
      /\ \A x \in 0 .. Physical - 1 : Consistent(opened[x])
      /\ opened[b].h2[s] = kEmpty
      /\ Same(buckets_, opened)
      /\ OrderedByte(value) \in MetaByte /\ OrderedByte(value) # kEmpty
      /\ Stores(Physical, opened, h1, b, s, OrderedByte(value), value, buckets_')
  BY CopyValueStores
<1>2. /\ b \in 0 .. Physical - 1 /\ s \in SlotNumber /\ h1 <= b
      /\ CopyAt(value) = <<b, s>>
  <2>1. CopyAt(value) = <<b, s>>
    BY DEF CopyAt
  <2> QED BY <2>1, CopyAtRange
<1>3. /\ h1 \in 0 .. Physical - 1 /\ Physical \in Nat
      /\ Constructed(buckets_) = Occupied(buckets_)
  BY CopyTargetTyped
<1> HIDE DEF h1, b, s, opened
<1>4. opened[b] \in Bucket /\ opened[h1] \in Bucket
      /\ opened \in [0 .. Physical - 1 -> Bucket \cup {Uninitialized}]
  BY <1>1, <1>2, <1>3
<1>5. Adds(opened, buckets_', <<b, s>>, OrderedByte(value), value)
  BY <1>1, <1>2, <1>3, <1>4, StoresAdds
<1>6. Adds(buckets_, buckets_', CopyAt(value), OrderedByte(value), value)
  BY <1>1, <1>2, <1>5, SameThenAdds
<1>7. buckets_' \in [0 .. Physical - 1 -> Bucket]
  <2>1. \A x \in 0 .. Physical - 1 : buckets_'[x] \in Bucket
    BY <1>1 DEF Stores
  <2>2. buckets_' \in [0 .. Physical - 1 -> Bucket \cup {Uninitialized}]
    BY <1>1 DEF Stores
  <2> QED BY <2>1, <2>2
<1>8. ASSUME NEW x \in 0 .. Physical - 1 PROVE Consistent(buckets_'[x])
  <2>1. buckets_'[x] \in Bucket
    BY <1>7
  <2>2. CASE x # b
    <3>1. buckets_'[x].h2 = opened[x].h2 /\ buckets_'[x].slots = opened[x].slots
      BY <1>1, <2>2 DEF Stores
    <3> QED BY <1>1, <2>1, <3>1 DEF Consistent
  <2>3. CASE x = b
    <3>1. /\ buckets_'[b].h2 = [opened[b].h2 EXCEPT ![s] = OrderedByte(value)]
          /\ buckets_'[b].slots = [opened[b].slots EXCEPT ![s] = value]
      BY <1>1 DEF Stores
    <3>2. opened[b].h2 \in [SlotNumber -> MetaByte] /\ DOMAIN opened[b].slots = SlotNumber
      BY <1>4 DEF Bucket
    <3>3. value # NoValue
      BY ValuesAssumption
    <3>4. Consistent(opened[b])
      BY <1>1, <1>2
    <3> QED BY <1>1, <2>1, <2>3, <3>1, <3>2, <3>3, <3>4 DEF Consistent
  <2> QED BY <2>2, <2>3
<1>9. CountInv'
  <2>1. CountInv /\ size_ \in Nat /\ size_' = size_ + 1
    BY CopyInserts DEF CopyTarget
  <2> QED BY <1>6, <2>1, CountAdd
<1>10. Constructed(buckets_') = Occupied(buckets_')
  BY <1>7, <1>8, ConstructedOccupied
<1>11. Stored(buckets_') = Stored(buckets_) \cup {value}
  BY <1>3, <1>6, <1>10 DEF Stored, Adds, Keeps
<1> QED BY <1>6, <1>7, <1>8, <1>9, <1>11

\* Every element stays within reach, and so is the new one.
LEMMA CopyValueLocated ==
  ASSUME CopyTarget, NEW value \in Values, hasher' = hasher,
         ~Copy!InsertOverruns(value), Copy!InsertAscending(value),
         insert_bucket < Preferred(value) + kSearchDistanceEndSentinal
  PROVE  Located'
<1> DEFINE h1 == Preferred(value)
           opened == CopyOpened(value)
<1>0. PICK at : at = CopyAt(value)
  OBVIOUS
<1>1. /\ Physical \in Nat /\ logical_size_ \in Nat /\ logical_size_ < Physical
      /\ insert_bucket \in 0 .. Physical - 1
      /\ h1 \in 0 .. logical_size_ - 1
      /\ buckets_ \in [0 .. Physical - 1 -> Bucket]
      /\ HashOf(value) \in Hash
      /\ Constructed(buckets_) = Occupied(buckets_)
      /\ \A v \in Values : Preferred(v) \in 0 .. logical_size_ - 1
  BY CopyTargetTyped
<1>2. /\ at[1] \in 0 .. Physical - 1 /\ h1 <= at[1]
      /\ at[1] = h1 \/ at[1] = insert_bucket
  BY <1>0, CopyAtRange
<1>3. /\ opened \in [0 .. Physical - 1 -> Bucket]
      /\ \A x \in 0 .. Physical - 1 : x <= insert_bucket => opened[x] = buckets_[x]
      /\ Stores(Physical, opened, h1, at[1], at[2], OrderedByte(value), value, buckets_')
  BY <1>0, <1>1, CopyValueStores
<1>4. /\ Adds(buckets_, buckets_', at, OrderedByte(value), value)
      /\ buckets_' \in [0 .. Physical - 1 -> Bucket]
  BY <1>0, CopyValueAdds
<1>5. logical_size_' = logical_size_
  BY CopyInserts
<1>6. at[1] < h1 + buckets_'[h1].search_distance
  <2>1. PICK i \in Nat : i = at[1] - h1
    BY <1>1, <1>2
  <2>2. i < kSearchDistanceEndSentinal
    BY <1>1, <1>2, <2>1, SizeAssumption
  <2>3. DistanceTo(i) = i + 1
    BY <2>2, DistanceRange
  <2>4. buckets_'[h1].search_distance = MaxOf(opened[h1].search_distance, DistanceTo(i))
    BY <1>3, <2>1 DEF Stores
  <2>5. opened[h1].search_distance \in Nat
    BY <1>1, <1>3, SizeAssumption DEF Bucket
  <2>6. i + 1 <= buckets_'[h1].search_distance /\ buckets_'[h1].search_distance \in Nat
    <3> HIDE DEF h1, opened
    <3> QED BY <2>3, <2>4, <2>5 DEF MaxOf
  <2>7. h1 \in Nat /\ at[1] \in Nat
    BY <1>1, <1>2
  <2>8. PICK d \in Nat : d = buckets_'[h1].search_distance
    BY <2>6
  <2> HIDE DEF h1, opened
  <2> QED BY <2>1, <2>6, <2>7, <2>8
<1>7. ASSUME NEW x \in 0 .. Physical - 1, x <= insert_bucket
      PROVE  buckets_[x].search_distance <= buckets_'[x].search_distance
  <2>1. opened[x] = buckets_[x]
    BY <1>3, <1>7
  <2>2. buckets_[x].search_distance \in Nat
    BY <1>1, SizeAssumption DEF Bucket
  <2>3. CASE x # h1
    <3>1. buckets_'[x].search_distance = opened[x].search_distance
      BY <1>3, <2>3 DEF Stores
    <3> QED BY <2>1, <2>2, <3>1
  <2>4. CASE x = h1
    <3>1. buckets_'[x].search_distance
            = MaxOf(buckets_[x].search_distance, DistanceTo(at[1] - h1))
      BY <1>3, <2>1, <2>4 DEF Stores
    <3>2. at[1] - h1 \in Nat
      BY <1>1, <1>2
    <3>3. DistanceTo(at[1] - h1) \in Nat
      BY <3>2, DistanceRange, SizeAssumption
    <3> QED BY <2>2, <3>1, <3>3 DEF MaxOf
  <2> QED BY <2>3, <2>4
<1>8. ASSUME NEW q \in Occupied(buckets_) PROVE LocatedAt(buckets_, q)'
  <2> DEFINE v == ValueAt(buckets_, q)
             g == Preferred(v)
  <2>1. ValueAt(buckets_', q) = v /\ MetaAt(buckets_', q) = MetaAt(buckets_, q)
    BY <1>4 DEF Adds, Keeps
  <2>2. LocatedAt(buckets_, q)
    BY LocatedEach DEF CopyTarget
  <2>3. q[1] \in 0 .. Physical - 1 /\ q[1] <= insert_bucket
    BY <1>1, OccupiedPair DEF CopyTarget
  <2>4. v \in Values
    <3>1. buckets_[q[1]].slots[q[2]] \in Values \cup {NoValue}
      BY <1>1, OccupiedPair DEF Bucket
    <3> QED BY <1>1, <3>1 DEF Constructed, ValueAt
  <2>5. g \in 0 .. logical_size_ - 1
    BY <1>1, <2>4
  <2>6. /\ g <= q[1] /\ q[1] < g + buckets_[g].search_distance
        /\ ClearOrdered(MetaAt(buckets_, q)) = H2(HashOf(v))
    BY <2>2 DEF LocatedAt
  <2>7. g \in 0 .. Physical - 1 /\ g <= insert_bucket
    BY <1>1, <2>3, <2>5, <2>6
  <2>8. buckets_[g].search_distance <= buckets_'[g].search_distance
    BY <1>7, <2>7
  <2>9. buckets_[g].search_distance \in Int /\ buckets_'[g].search_distance \in Int
    <3>1. buckets_[g] \in Bucket /\ buckets_'[g] \in Bucket
      BY <1>1, <1>4, <2>7
    <3>2. \A bucket \in Bucket : bucket.search_distance \in Int
      BY SizeAssumption DEF Bucket
    <3> QED BY <3>1, <3>2
  <2>10. q[1] < g + buckets_'[g].search_distance
    <3>1. q[1] \in Int /\ g \in Int
      BY <1>1, <2>3, <2>7
    <3> HIDE DEF g
    <3> QED BY <2>6, <2>8, <2>9, <3>1
  <2>11. g = H1(hasher[KeyOf[v]], logical_size_) /\ HashOf(v) = hasher[KeyOf[v]]
    BY DEF Preferred, HashOf
  <2> HIDE DEF g, v
  <2> QED BY <1>5, <2>1, <2>6, <2>10, <2>11 DEF LocatedAt, Preferred, HashOf
<1>9. LocatedAt(buckets_, at)'
  <2>1. /\ ValueAt(buckets_', at) = value
        /\ ClearOrdered(MetaAt(buckets_', at)) = H2(HashOf(value))
    BY <1>1, <1>4, MetaBytes DEF Adds, OrderedByte
  <2>2. h1 = H1(hasher[KeyOf[value]], logical_size_) /\ HashOf(value) = hasher[KeyOf[value]]
    BY DEF Preferred, HashOf
  <2>3. h1 <= at[1]
    BY <1>2
  <2> HIDE DEF h1
  <2> QED BY <1>5, <1>6, <2>1, <2>2, <2>3 DEF LocatedAt, Preferred, HashOf
<1>10. ASSUME NEW p \in Occupied(buckets_') PROVE LocatedAt(buckets_, p)'
  BY <1>4, <1>8, <1>9 DEF Adds
<1> QED BY <1>10 DEF Located, LocatedAt, Preferred

\* An ascending insert of a copy leaves the table a copy can go on to fill.
LEMMA CopyValueTarget ==
  ASSUME CopyTarget, NEW value \in Values, hasher' = hasher,
         ~Copy!InsertOverruns(value), Copy!InsertAscending(value),
         insert_bucket < Preferred(value) + kSearchDistanceEndSentinal
  PROVE  CopyTarget'
<1> DEFINE h1 == Preferred(value)
           opened == CopyOpened(value)
<1>1. PICK at : at = CopyAt(value)
  OBVIOUS
<1>2. PICK next : next = CopyNext(value)
  OBVIOUS
<1>3. /\ Physical \in Nat /\ logical_size_ \in Nat /\ logical_size_ < Physical
      /\ insert_bucket \in 0 .. Physical - 1 /\ insert_slot \in SlotNumber
      /\ h1 \in 0 .. logical_size_ - 1
      /\ buckets_ \in [0 .. Physical - 1 -> Bucket]
  BY CopyTargetTyped
<1>4. /\ at[1] \in 0 .. Physical - 1 /\ at[2] \in SlotNumber /\ h1 <= at[1]
      /\ at[1] > insert_bucket \/ at = <<insert_bucket, insert_slot>>
      /\ next[1] \in 0 .. Physical - 1 /\ next[2] \in SlotNumber
      /\ next \in {<<at[1], at[2] + 1>>, <<at[1] + 1, 0>>}
  BY <1>1, <1>2, CopyAtRange
<1>5. /\ opened \in [0 .. Physical - 1 -> Bucket]
      /\ \A x \in 0 .. Physical - 1 : opened[x] = InitBucket \/ opened[x] = buckets_[x]
      /\ Stores(Physical, opened, h1, at[1], at[2], OrderedByte(value), value, buckets_')
  BY <1>1, CopyValueStores
<1>6. /\ Adds(buckets_, buckets_', at, OrderedByte(value), value)
      /\ buckets_' \in [0 .. Physical - 1 -> Bucket]
      /\ \A x \in 0 .. Physical - 1 : Consistent(buckets_'[x])
      /\ CountInv'
  BY <1>1, CopyValueAdds
<1>7. /\ logical_size_' = logical_size_ /\ Physical' = Physical
      /\ insert_bucket' = next[1] /\ insert_slot' = next[2]
      /\ size_' = size_ + 1
  BY <1>2, CopyInserts DEF Physical
<1>8. \A b \in 0 .. Physical - 1 : b < Physical - 1 => InArray(b, buckets_[b].search_distance)
  BY DEF CopyTarget
<1>9. ASSUME NEW b \in 0 .. Physical - 1, b < Physical - 1
      PROVE  InArray(b, opened[b].search_distance)
  <2>1. CASE opened[b] = InitBucket
    <3>1. opened[b].search_distance = 0
      BY <2>1 DEF InitBucket
    <3> HIDE DEF Physical, opened
    <3> QED BY <1>3, <3>1 DEF InArray
  <2>2. CASE opened[b] = buckets_[b]
    BY <1>8, <1>9, <2>2
  <2> QED BY <1>5, <2>1, <2>2
<1> HIDE DEF h1, opened
<1>10. ASSUME NEW b \in 0 .. Physical - 1, b < Physical - 1
       PROVE  InArray(b, buckets_'[b].search_distance)
  <2>1. h1 \in 0 .. Physical - 1 /\ h1 < Physical - 1
    BY <1>3
  <2>2. InArray(h1, opened[h1].search_distance) /\ opened[h1] \in Bucket
        /\ opened \in [0 .. Physical - 1 -> Bucket \cup {Uninitialized}]
    BY <1>5, <1>9, <2>1
  <2>3. Physical \in Nat /\ logical_size_ \in Nat /\ h1 \in 0 .. logical_size_ - 1
        /\ at[1] \in 0 .. Physical - 1 /\ h1 <= at[1]
        /\ Stores(Physical, opened, h1, at[1], at[2], OrderedByte(value), value, buckets_')
    BY <1>3, <1>4, <1>5
  <2>5. \A x \in 0 .. Physical - 1 : buckets_'[x] # Uninitialized =>
          /\ opened[x] \in Bucket
          /\ IF x = h1 THEN InArray(x, buckets_'[x].search_distance)
             ELSE buckets_'[x].search_distance = opened[x].search_distance
    <3> HIDE DEF Physical
    <3> QED BY <2>1, <2>2, <2>3, StoresInArray
  <2>4. buckets_'[b] # Uninitialized
    BY <1>6, UninitializedAssumption
  <2> QED BY <1>9, <1>10, <2>4, <2>5
<1>11. (\A b \in 0 .. Physical - 1 :
          b < Physical - 1 => InArray(b, buckets_[b].search_distance))'
  <2> HIDE DEF Physical
  <2> QED BY <1>7, <1>10 DEF InArray
<1>12. ASSUME NEW p \in Occupied(buckets_')
       PROVE  p[1] < next[1] \/ (p[1] = next[1] /\ p[2] < next[2])
  <2>1. at[2] \in Int /\ insert_slot \in Int
    BY <1>3, <1>4 DEF SlotNumber
  <2>2. CASE p = at
    BY <1>3, <1>4, <2>1, <2>2
  <2>3. CASE p \in Occupied(buckets_)
    <3>1. p[1] < insert_bucket \/ (p[1] = insert_bucket /\ p[2] < insert_slot)
      BY <2>3 DEF CopyTarget
    <3>2. p[1] \in Int /\ p[2] \in Int /\ at[1] \in Int /\ insert_bucket \in Int
      BY <1>3, <1>4, <2>3, OccupiedPair DEF SlotNumber
    <3>3. p[1] < at[1] \/ (p[1] = at[1] /\ p[2] < at[2])
      BY <1>4, <2>1, <3>1, <3>2
    <3>4. CASE next = <<at[1], at[2] + 1>>
      <4>1. next[1] = at[1] /\ next[2] = at[2] + 1
        BY <3>4
      <4> QED BY <2>1, <3>2, <3>3, <4>1
    <3>5. CASE next = <<at[1] + 1, 0>>
      <4>1. next[1] = at[1] + 1
        BY <3>5
      <4> QED BY <3>2, <3>3, <4>1
    <3> QED BY <1>4, <3>4, <3>5
  <2> QED BY <1>6, <2>2, <2>3 DEF Adds
<1>13. Located'
  BY CopyValueLocated
<1>14. hasher \in Hashers /\ logical_size_ \in 1 .. MaxLogicalSize /\ size_ \in Nat
  BY DEF CopyTarget
<1>15. /\ (buckets_ \in [0 .. Physical - 1 -> Bucket])'
       /\ (\A b \in 0 .. Physical - 1 : Consistent(buckets_[b]))'
       /\ (insert_bucket \in 0 .. Physical - 1 /\ insert_slot \in SlotNumber)'
  BY <1>4, <1>6, <1>7
<1>16. (\A p \in Occupied(buckets_) :
          p[1] < insert_bucket \/ (p[1] = insert_bucket /\ p[2] < insert_slot))'
  BY <1>7, <1>12
<1>17. hasher' \in Hashers /\ logical_size_' \in 1 .. MaxLogicalSize /\ size_' \in Nat
  BY <1>7, <1>14
<1> QED BY <1>6, <1>11, <1>13, <1>15, <1>16, <1>17 DEF CopyTarget

-----------------------------------------------------------------------------
(* The sweep of a copy *)

\* What a copy reads: an array of consistent buckets, in which each element is
\* within reach of its preferred bucket.
LEMMA SourceSound ==
  ASSUME Sound(other)
  PROVE  /\ other.logical_size_ \in Nat /\ Copy!SourcePhysical \in Nat
         /\ other.logical_size_ > 0 => other.logical_size_ < Copy!SourcePhysical
         /\ other.buckets_ \in [0 .. Copy!SourcePhysical - 1 -> Bucket]
         /\ \A b \in 0 .. Copy!SourcePhysical - 1 :
              /\ other.buckets_[b].search_distance \in Nat
              /\ b < other.logical_size_ =>
                   b + other.buckets_[b].search_distance <= Copy!SourcePhysical
         /\ Constructed(other.buckets_) = Occupied(other.buckets_)
         /\ Owned(other) \subseteq Values
         /\ \A b, s : <<b, s>> \in Occupied(other.buckets_) <=>
                        /\ b \in 0 .. Copy!SourcePhysical - 1 /\ s \in SlotNumber
                        /\ other.buckets_[b].h2[s] # kEmpty
<1>1. other.logical_size_ \in Nat /\ Copy!SourcePhysical = PhysicalSize(other.logical_size_)
  BY CopyHelpers, SizeAssumption DEF Sound, Copy!SourcePhysical
<1>2. /\ Copy!SourcePhysical \in Nat
      /\ other.logical_size_ > 0 => other.logical_size_ < Copy!SourcePhysical
  BY <1>1, PhysicalRange
<1>3. /\ other.buckets_ \in [0 .. Copy!SourcePhysical - 1 -> Bucket]
      /\ \A b \in 0 .. Copy!SourcePhysical - 1 : Consistent(other.buckets_[b])
  BY <1>1 DEF Sound
<1>4. ASSUME NEW b \in 0 .. Copy!SourcePhysical - 1
      PROVE  other.buckets_[b].search_distance \in Nat
  <2>1. other.buckets_[b] \in Bucket
    BY <1>3
  <2> QED BY <2>1, SizeAssumption DEF Bucket
<1>5. ASSUME NEW b \in 0 .. Copy!SourcePhysical - 1, b < other.logical_size_
      PROVE  b + other.buckets_[b].search_distance <= Copy!SourcePhysical
  <2>1. b # Copy!SourcePhysical - 1
    BY <1>1, <1>2, <1>5
  <2> QED BY <1>1, <2>1 DEF Sound
<1>6. Constructed(other.buckets_) = Occupied(other.buckets_)
  BY <1>3, ConstructedOccupied
<1>7. Owned(other) \subseteq Values
  <2> SUFFICES ASSUME NEW p \in Constructed(other.buckets_)
               PROVE  ValueAt(other.buckets_, p) \in Values
    BY DEF Owned, Stored
  <2>1. /\ p[1] \in 0 .. Copy!SourcePhysical - 1 /\ p[2] \in SlotNumber
        /\ other.buckets_[p[1]].slots[p[2]] # NoValue
    BY <1>3, ConstructedPair
  <2>2. other.buckets_[p[1]].slots[p[2]] \in Values \cup {NoValue}
    BY <1>3, <2>1 DEF Bucket
  <2> QED BY <2>1, <2>2 DEF ValueAt
<1>8. \A b \in 0 .. Copy!SourcePhysical - 1 : other.buckets_[b] # Uninitialized
  BY <1>3, UninitializedAssumption
<1>9. \A b, s : <<b, s>> \in Occupied(other.buckets_) <=>
                  /\ b \in 0 .. Copy!SourcePhysical - 1 /\ s \in SlotNumber
                  /\ other.buckets_[b].h2[s] # kEmpty
  BY <1>3, <1>8, OccupiedSlot
<1> QED BY <1>1, <1>2, <1>3, <1>4, <1>5, <1>6, <1>7, <1>9

\* An element of it.
LEMMA SourceElement ==
  ASSUME Sound(other), NEW p \in Occupied(other.buckets_)
  PROVE  /\ p = <<p[1], p[2]>>
         /\ p[1] \in 0 .. Copy!SourcePhysical - 1 /\ p[2] \in SlotNumber
         /\ ValueAt(other.buckets_, p) \in Owned(other)
         /\ other.hasher[KeyOf[ValueAt(other.buckets_, p)]] \in Hash
         /\ OtherPreferred(p) \in 0 .. other.logical_size_ - 1
         /\ OtherPreferred(p) <= p[1]
         /\ p[1] < OtherPreferred(p) + other.buckets_[OtherPreferred(p)].search_distance
<1>1. p = <<p[1], p[2]>>
  BY OccupiedPair
<1>2. p[1] \in 0 .. Copy!SourcePhysical - 1 /\ p[2] \in SlotNumber
  BY <1>1, SourceSound
<1>3. ValueAt(other.buckets_, p) \in Owned(other)
  BY SourceSound DEF Owned, Stored
<1>4. other.hasher[KeyOf[ValueAt(other.buckets_, p)]] \in Hash
  BY <1>3, SourceSound, ValuesAssumption, HashAssumption DEF Sound, Hash
<1>5. other.logical_size_ \in Nat \ {0}
  <2>1. other.logical_size_ # 0
    <3>1. PhysicalSize(0) = 0
      BY PhysicalRange
    <3> QED BY <1>2, <3>1, CopyHelpers DEF Copy!SourcePhysical
  <2> QED BY <2>1, SourceSound
<1>6. OtherPreferred(p) \in 0 .. other.logical_size_ - 1
  BY <1>4, <1>5, H1Range DEF OtherPreferred
<1>7. /\ OtherPreferred(p) <= p[1]
      /\ p[1] < OtherPreferred(p) + other.buckets_[OtherPreferred(p)].search_distance
  BY DEF Sound, Reached, OtherPreferred
<1> QED BY <1>1, <1>2, <1>3, <1>4, <1>6, <1>7

\* Copying one value of the source.
LEMMA CopyValueCopies ==
  ASSUME CopyTarget, Copying, Sound(other), CopiesInByte,
         NEW value \in Owned(other), CopyValue(value), hasher' = hasher, pc' # "aborted"
  PROVE  /\ CopyTarget' /\ pc' = pc
         /\ Stored(buckets_') = Stored(buckets_) \cup {value}
<1>1. value \in Values
  BY SourceSound
<1>2. ~Copy!InsertOverruns(value) /\ Copy!InsertAscending(value)
  BY DEF CopyValue
<1>3. insert_bucket < Preferred(value) + kSearchDistanceEndSentinal
  BY DEF CopiesInByte, Preferred
<1> QED BY <1>1, <1>2, <1>3, CopyValueTarget, CopyValueAdds, CopyInserts

\* Copying the value a heap item points to.
LEMMA CopyFromHeapCopies ==
  ASSUME CopyTarget, CopyLocals, Sound(other), CopiesInByte, CopyFromHeap,
         UNCHANGED <<hasher, other>>, pc' # "aborted"
  PROVE  /\ CopyTarget' /\ pc' = pc
         /\ Stored(buckets_) \subseteq Stored(buckets_')
         /\ Stored(buckets_') \subseteq Stored(buckets_) \cup Owned(other)
         /\ HeapSlots' \subseteq HeapSlots
         /\ \A p \in HeapSlots :
              p \in HeapSlots' \/ ValueAt(other.buckets_, p) \in Stored(buckets_')
<1>1. PICK item \in heap :
        /\ CopyValue(other.buckets_[item.bucket].slots[item.slot])
        /\ heap' = heap \ {item}
  BY DEF CopyFromHeap
<1>2. PICK q : q = <<item.bucket, item.slot>>
  OBVIOUS
<1>3. q \in HeapSlots /\ q \in Occupied(other.buckets_)
  BY <1>2 DEF HeapSlots, CopyLocals
<1>4. ValueAt(other.buckets_, q) = other.buckets_[item.bucket].slots[item.slot]
  BY <1>2 DEF ValueAt
<1>5. ValueAt(other.buckets_, q) \in Owned(other)
  BY <1>3, SourceElement
<1>6. /\ CopyTarget' /\ pc' = pc
      /\ Stored(buckets_') = Stored(buckets_) \cup {ValueAt(other.buckets_, q)}
  BY <1>1, <1>4, <1>5, CopyValueCopies DEF CopyLocals, Copying
<1>7. HeapSlots' \subseteq HeapSlots
  BY <1>1 DEF HeapSlots
<1>8. \A p \in HeapSlots : p \in HeapSlots' \/ p = q
  BY <1>1, <1>2 DEF HeapSlots
<1> QED BY <1>5, <1>6, <1>7, <1>8

\* What a step that copies nothing keeps of the target.
LEMMA CopyTargetUnchanged ==
  ASSUME CopyTarget, UNCHANGED <<hasher, table, target>>
  PROVE  CopyTarget'
<1>1. Located'
  BY LocatedUnchanged DEF CopyTarget
<1>2. UNCHANGED <<hasher, size_, logical_size_, buckets_, insert_bucket, insert_slot>>
  BY DEF table, target
<1> QED
  BY <1>1, <1>2, CountUnchanged
  DEF CopyTarget, Physical, InArray, CountInv, SizeIsCount, table

\* GetDisorderedValues pushes what it finds within the search distance of its
\* bucket, among them all disordered elements that prefer this bucket.
LEMMA CopyCollectKeeps ==
  ASSUME Sound(other), InCopy, CopyCollect
  PROVE  InCopy'
<1> DEFINE sp == Copy!SourcePhysical
           distance == other.buckets_[bucket_number].search_distance
           logical == bucket_number < other.logical_size_
<1>1. /\ UNCHANGED <<hasher, table, target, other, source, source_logical_size, bucket_number>>
      /\ pc = "copy collect" /\ pc' = "copy scan" /\ bucket_number < sp /\ slot_number' = 0
  BY DEF CopyCollect
<1>2. CopyTarget'
  BY <1>1, CopyTargetUnchanged DEF InCopy
<1>3. /\ sp \in Nat /\ bucket_number \in 0 .. sp - 1 /\ disordered_bucket \in Nat
      /\ other.logical_size_ \in Nat /\ distance \in Nat
      /\ logical => bucket_number + distance <= sp
      /\ other.buckets_ \in [0 .. sp - 1 -> Bucket]
  <2>1. sp \in Nat /\ bucket_number \in 0 .. sp - 1 /\ disordered_bucket \in Nat
    <3>1. sp \in Nat
      BY SourceSound
    <3>2. bucket_number \in Nat /\ disordered_bucket \in Nat
      BY DEF InCopy, CopyLocals
    <3>3. bucket_number < sp
      BY <1>1
    <3> HIDE DEF sp
    <3> QED BY <3>1, <3>2, <3>3
  <2> HIDE DEF sp
  <2> QED BY <2>1, SourceSound DEF sp
<1>4. \A b : b \in Copy!CoveredBuckets <=>
               b \in bucket_number .. bucket_number + distance - 1 /\ disordered_bucket <= b
  BY DEF Copy!CoveredBuckets
<1>5. \A b : DisorderedSlots(b) = {s \in SlotNumber : IsNonemptyAndDisordered(b.h2[s])}
  BY DEF DisorderedSlots
<1>6. HeapSlots' = HeapSlots \cup
        (IF logical THEN {<<b, s>> : b \in Copy!CoveredBuckets, s \in SlotNumber} \cap
                         {p \in Occupied(other.buckets_) :
                            IsNonemptyAndDisordered(MetaAt(other.buckets_, p))}
         ELSE {})
  <2>1. CASE ~logical
    <3>1. heap' = heap
      BY <2>1 DEF CopyCollect
    <3>2. HeapSlots' = HeapSlots
      BY <3>1 DEF HeapSlots
    <3> QED BY <2>1, <3>2
  <2>2. CASE logical
    <3>1. heap' = heap \cup CopyHeap
      BY <2>2 DEF CopyCollect
    <3>2. {<<item.bucket, item.slot>> : item \in CopyHeap}
            = {<<b, s>> : b \in Copy!CoveredBuckets, s \in SlotNumber} \cap
                         {p \in Occupied(other.buckets_) :
                            IsNonemptyAndDisordered(MetaAt(other.buckets_, p))}
      <4>1. ASSUME NEW item \in CopyHeap
            PROVE  /\ item.bucket \in Copy!CoveredBuckets /\ item.slot \in SlotNumber
                   /\ <<item.bucket, item.slot>> \in Occupied(other.buckets_)
                   /\ IsNonemptyAndDisordered(MetaAt(other.buckets_, <<item.bucket, item.slot>>))
        <5>1. /\ item.bucket \in Copy!CoveredBuckets
              /\ item.slot \in DisorderedSlots(other.buckets_[item.bucket])
          BY DEF CopyHeap
        <5>2. item.bucket \in 0 .. sp - 1
          BY <1>3, <1>4, <2>2, <5>1
        <5>3. /\ item.slot \in SlotNumber
              /\ IsNonemptyAndDisordered(other.buckets_[item.bucket].h2[item.slot])
          BY <5>1 DEF DisorderedSlots
        <5>4. other.buckets_[item.bucket].h2[item.slot] # kEmpty
          BY <5>3 DEF IsNonemptyAndDisordered, kOrderedMask, kEmpty
        <5> QED BY <5>1, <5>2, <5>3, <5>4, SourceSound DEF MetaAt
      <4>2. ASSUME NEW b \in Copy!CoveredBuckets, NEW s \in SlotNumber,
                   IsNonemptyAndDisordered(MetaAt(other.buckets_, <<b, s>>))
            PROVE  \E item \in CopyHeap : <<b, s>> = <<item.bucket, item.slot>>
        <5>1. s \in DisorderedSlots(other.buckets_[b])
          BY <4>2 DEF DisorderedSlots, MetaAt
        <5>2. PICK item : item = [by |-> bucket_number, bucket |-> b, slot |-> s]
          OBVIOUS
        <5>3. item \in [by : {bucket_number}, bucket : {b},
                        slot : DisorderedSlots(other.buckets_[b])]
          BY <5>1, <5>2
        <5>4. item \in CopyHeap
          BY <5>3 DEF CopyHeap
        <5> QED BY <5>2, <5>4
      <4> QED BY <4>1, <4>2
    <3>3. HeapSlots' = HeapSlots \cup {<<item.bucket, item.slot>> : item \in CopyHeap}
      BY <3>1 DEF HeapSlots
    <3> QED BY <2>2, <3>2, <3>3
  <2> QED BY <2>1, <2>2
<1>7. /\ disordered_bucket' \in Nat
      /\ disordered_bucket' = disordered_bucket \/
           (logical /\ Copy!CoveredBuckets # {} /\ disordered_bucket' = bucket_number + distance - 1)
  <2>1. \/ disordered_bucket' = disordered_bucket
        \/ logical /\ Copy!CoveredBuckets # {} /\ disordered_bucket' = bucket_number + distance - 1
    BY DEF CopyCollect
  <2>2. Copy!CoveredBuckets # {} => distance > 0
    BY <1>3, <1>4
  <2> QED BY <1>3, <2>1, <2>2
<1>8. CopyLocals'
  <2>1. (HeapSlots \subseteq Occupied(other.buckets_))'
    <3>1. HeapSlots \subseteq Occupied(other.buckets_) /\ other' = other
      BY <1>1 DEF InCopy, CopyLocals
    <3>2. HeapSlots' \subseteq HeapSlots \cup Occupied(other.buckets_)
      <4> HIDE DEF logical, HeapSlots
      <4> QED BY <1>6
    <3> QED BY <3>1, <3>2
  <2>2. Copy!SourcePhysical' = sp
    BY <1>1 DEF Copy!SourcePhysical, Copy!PhysicalSize, Copy!ExtraBuckets
  <2>3. source_logical_size' = 0 /\ BucketsTyped(source', 0)
    BY <1>1 DEF InCopy, CopyLocals
  <2>4. (disordered_bucket \in Nat /\ bucket_number \in Nat /\ slot_number \in Nat)'
    <3>1. bucket_number' = bucket_number /\ slot_number' = 0
      BY <1>1
    <3>2. bucket_number \in Nat /\ disordered_bucket' \in Nat
      BY <1>7 DEF InCopy, CopyLocals
    <3> QED BY <3>1, <3>2
  <2>5. (/\ bucket_number <= Copy!SourcePhysical
         /\ pc = "copy scan" => bucket_number < Copy!SourcePhysical)'
    <3>1. bucket_number' = bucket_number /\ bucket_number < sp
      BY <1>1
    <3>2. bucket_number \in Nat /\ sp \in Nat
      BY SourceSound DEF InCopy, CopyLocals
    <3> HIDE DEF sp
    <3>3. bucket_number' < Copy!SourcePhysical' /\ bucket_number' <= Copy!SourcePhysical'
      BY <2>2, <3>1, <3>2
    <3> QED BY <3>3
  <2> QED BY <1>1, <2>1, <2>3, <2>4, <2>5 DEF CopyLocals
<1>9. ASSUME NEW p \in Occupied(other.buckets_), Awaits(p), p \notin HeapSlots'
      PROVE  Awaits(p)'
  <2>1. /\ p = <<p[1], p[2]>>
        /\ p[1] \in 0 .. sp - 1 /\ p[2] \in SlotNumber
        /\ OtherPreferred(p) \in 0 .. other.logical_size_ - 1
        /\ OtherPreferred(p) <= p[1]
        /\ p[1] < OtherPreferred(p) + other.buckets_[OtherPreferred(p)].search_distance
    BY SourceElement
  <2>2. OtherPreferred(p)' = OtherPreferred(p)
    BY <1>1 DEF OtherPreferred
  <2>3. CASE ~IsNonemptyAndDisordered(MetaAt(other.buckets_, p))
    <3>1. bucket_number <= p[1]
      BY <1>9, <2>3 DEF Awaits
    <3>2. 0 <= p[2]
      BY <2>1 DEF SlotNumber
    <3> QED BY <1>1, <2>3, <3>1, <3>2 DEF Awaits
  <2>4. CASE IsNonemptyAndDisordered(MetaAt(other.buckets_, p))
    <3>1. disordered_bucket <= p[1] /\ ~(OtherPreferred(p) < bucket_number)
      BY <1>9, <2>4 DEF Awaits, CopyCollected
    <3>2. logical
      BY <1>3, <2>1, <3>1
    <3>3. p[1] \notin Copy!CoveredBuckets
      BY <1>6, <1>9, <2>1, <2>4, <3>2
    <3>4. ~(p[1] <= bucket_number + distance - 1)
      BY <1>3, <1>4, <2>1, <3>1, <3>3
    <3>5. OtherPreferred(p) # bucket_number
      BY <1>3, <2>1, <3>4
    <3>6. disordered_bucket' <= p[1]
      BY <1>3, <1>7, <2>1, <3>1, <3>4
    <3>7. ~CopyCollected(OtherPreferred(p))'
      BY <1>1, <1>3, <2>1, <2>2, <3>1, <3>5 DEF CopyCollected
    <3> QED BY <1>1, <2>4, <3>6, <3>7 DEF Awaits
  <2> QED BY <2>3, <2>4
<1>10. CopySwept'
  <2>1. HeapSlots \subseteq HeapSlots' /\ buckets_' = buckets_
    <3>1. HeapSlots \subseteq HeapSlots'
      <4> HIDE DEF logical, HeapSlots
      <4> QED BY <1>6
    <3> QED BY <1>1, <3>1 DEF table
  <2> QED BY <1>1, <1>9, <2>1 DEF InCopy, CopySwept
<1> QED BY <1>2, <1>8, <1>10 DEF InCopy

\* A byte that is not empty is of one of two kinds.
LEMMA OrderedOrNot ==
  ASSUME NEW meta_byte \in MetaByte, meta_byte # kEmpty
  PROVE  IsNonemptyAndOrdered(meta_byte) \/ IsNonemptyAndDisordered(meta_byte)
BY DEF IsNonemptyAndDisordered, IsNonemptyAndOrdered, MetaByte, kOrderedMask, kEmpty

\* The ordered elements that the scan has not reached are those it awaits in its
\* bucket.
LEMMA AheadAwaited ==
  ASSUME Sound(other), pc = "copy scan", NEW p \in Occupied(other.buckets_), Awaits(p),
         ~IsNonemptyAndDisordered(MetaAt(other.buckets_, p)), p[1] = bucket_number
  PROVE  p[2] \in Copy!OrderedAhead /\ slot_number <= p[2]
<1>1. p[2] \in SlotNumber /\ p[1] \in 0 .. Copy!SourcePhysical - 1 /\ p = <<p[1], p[2]>>
  BY SourceElement
<1>2. slot_number <= p[2]
  BY DEF Awaits
<1>3. other.buckets_[p[1]].h2[p[2]] \in MetaByte /\ other.buckets_[p[1]].h2[p[2]] # kEmpty
  <2>1. other.buckets_[p[1]] \in Bucket
    BY <1>1, SourceSound
  <2>2. <<p[1], p[2]>> \in Occupied(other.buckets_)
    BY <1>1
  <2> QED BY <1>1, <2>1, <2>2, SourceSound DEF Bucket
<1>4. IsNonemptyAndOrdered(other.buckets_[bucket_number].h2[p[2]])
  BY <1>3, OrderedOrNot DEF MetaAt
<1> QED BY <1>1, <1>2, <1>4
  DEF Copy!OrderedAhead, Copy!SlotNumber, SlotNumber, Copy!IsNonemptyAndOrdered,
      IsNonemptyAndOrdered, Copy!kOrderedMask, kOrderedMask

\* Each value that the scan comes to, or puts off for one from the heap, goes into
\* the new table.
LEMMA CopyScanKeeps ==
  ASSUME Sound(other), InCopy, CopiesInByte, CopyScan, pc' # "aborted"
  PROVE  InCopy'
<1>1. /\ UNCHANGED <<hasher, other, source, source_logical_size, bucket_number,
                     disordered_bucket>>
      /\ pc = "copy scan" /\ CopyTarget /\ CopyLocals /\ Copying
  BY DEF CopyScan, InCopy, Copying
<1>2. PICK s \in Least(Copy!OrderedAhead) :
        LET value == other.buckets_[bucket_number].slots[s]
        IN  IF \E item \in heap : Copy!HeapHash(item) < HashOf(value)
            THEN CopyFromHeap /\ slot_number' = s
            ELSE CopyValue(value) /\ slot_number' = s + 1 /\ UNCHANGED heap
  BY DEF CopyScan
<1>3. PICK q : q = <<bucket_number, s>>
  OBVIOUS
<1>4. /\ s \in SlotNumber /\ slot_number <= s
      /\ IsNonemptyAndOrdered(other.buckets_[bucket_number].h2[s])
      /\ \A t \in Copy!OrderedAhead : s <= t
  BY DEF Least, Copy!OrderedAhead, Copy!SlotNumber, SlotNumber, Copy!IsNonemptyAndOrdered,
         IsNonemptyAndOrdered, Copy!kOrderedMask, kOrderedMask
<1>5. q \in Occupied(other.buckets_)
  <2>1. other.buckets_[bucket_number].h2[s] # kEmpty
    BY <1>4 DEF IsNonemptyAndOrdered, kOrderedMask, kEmpty
  <2>2. bucket_number \in 0 .. Copy!SourcePhysical - 1
    <3>1. Copy!SourcePhysical \in Nat
      BY SourceSound
    <3>2. bucket_number \in Nat /\ bucket_number < Copy!SourcePhysical
      BY <1>1 DEF CopyLocals
    <3> QED BY <3>1, <3>2
  <2> QED BY <1>3, <1>4, <2>1, <2>2, SourceSound
<1>6. ValueAt(other.buckets_, q) \in Owned(other)
  BY <1>5, SourceElement
<1>7. Copy!SourcePhysical' = Copy!SourcePhysical
  BY <1>1 DEF Copy!SourcePhysical, Copy!PhysicalSize, Copy!ExtraBuckets
<1>8. /\ CopyTarget' /\ pc' = pc
      /\ Stored(buckets_) \subseteq Stored(buckets_')
      /\ Stored(buckets_') \subseteq Stored(buckets_) \cup Owned(other)
      /\ HeapSlots' \subseteq HeapSlots
      /\ \A p \in HeapSlots :
           p \in HeapSlots' \/ ValueAt(other.buckets_, p) \in Stored(buckets_')
      /\ \/ slot_number' = s
         \/ slot_number' = s + 1 /\ ValueAt(other.buckets_, q) \in Stored(buckets_')
  <2>1. CASE CopyFromHeap /\ slot_number' = s
    BY <1>1, <2>1, CopyFromHeapCopies
  <2>2. CASE /\ CopyValue(other.buckets_[bucket_number].slots[s])
             /\ slot_number' = s + 1 /\ UNCHANGED heap
    <3>1. CopyValue(ValueAt(other.buckets_, q))
      BY <1>3, <2>2 DEF ValueAt
    <3>2. /\ CopyTarget' /\ pc' = pc
          /\ Stored(buckets_') = Stored(buckets_) \cup {ValueAt(other.buckets_, q)}
      BY <1>1, <1>6, <3>1, CopyValueCopies
    <3>3. HeapSlots' = HeapSlots
      BY <2>2 DEF HeapSlots
    <3> QED BY <1>6, <2>2, <3>2, <3>3
  <2> QED BY <1>2, <2>1, <2>2
<1>9. CopyLocals'
  <2>1. s \in Nat /\ s + 1 \in Nat
    BY <1>4 DEF SlotNumber
  <2>2. slot_number' \in Nat
    BY <1>8, <2>1
  <2> QED BY <1>1, <1>7, <1>8, <2>2 DEF CopyLocals
<1>10. ASSUME NEW p \in Occupied(other.buckets_), Awaits(p),
              ValueAt(other.buckets_, p) \notin Stored(buckets_')
       PROVE  Awaits(p)'
  <2>1. OtherPreferred(p)' = OtherPreferred(p)
    BY <1>1 DEF OtherPreferred
  <2>2. CASE IsNonemptyAndDisordered(MetaAt(other.buckets_, p))
    BY <1>1, <1>8, <1>10, <2>1, <2>2 DEF Awaits, CopyCollected
  <2>3. CASE ~IsNonemptyAndDisordered(MetaAt(other.buckets_, p))
    <3>1. CASE p[1] = bucket_number
      <4>1. s <= p[2]
        BY <1>1, <1>4, <1>10, <2>3, <3>1, AheadAwaited
      <4>2. slot_number' = s + 1 => p # q
        BY <1>4, <1>8, <1>10 DEF SlotNumber
      <4>3. p = <<p[1], p[2]>> /\ p[2] \in SlotNumber
        BY SourceElement
      <4>4. slot_number' <= p[2]
        BY <1>3, <1>4, <1>8, <3>1, <4>1, <4>2, <4>3 DEF SlotNumber
      <4> QED BY <1>1, <1>10, <2>3, <4>4 DEF Awaits
    <3>2. CASE p[1] # bucket_number
      BY <1>1, <1>10, <2>3, <3>2 DEF Awaits
    <3> QED BY <3>1, <3>2
  <2> QED BY <2>2, <2>3
<1>11. CopySwept'
  <2>1. ASSUME NEW p \in Occupied(other.buckets_)
        PROVE  ValueAt(other.buckets_, p) \in Stored(buckets_') \/ p \in HeapSlots' \/ Awaits(p)'
    BY <1>8, <1>10 DEF InCopy, CopySwept
  <2>2. Stored(buckets_') \subseteq Owned(other)
    BY <1>8 DEF InCopy, CopySwept
  <2> QED BY <1>1, <2>1, <2>2 DEF CopySwept
<1> QED BY <1>8, <1>9, <1>11 DEF InCopy

\* The scan leaves a bucket when nothing in it is to come.
LEMMA CopyNextBucketKeeps ==
  ASSUME Sound(other), InCopy, CopyNextBucket
  PROVE  InCopy'
<1>1. /\ UNCHANGED <<hasher, table, target, other, source, source_logical_size, heap,
                     disordered_bucket, slot_number>>
      /\ pc = "copy scan" /\ pc' = "copy collect" /\ bucket_number' = bucket_number + 1
      /\ Copy!OrderedAhead = {}
  BY DEF CopyNextBucket
<1>2. CopyTarget'
  BY <1>1, CopyTargetUnchanged DEF InCopy
<1>3. /\ Copy!SourcePhysical \in Nat /\ bucket_number \in Nat
      /\ bucket_number < Copy!SourcePhysical
  BY <1>1, SourceSound DEF InCopy, CopyLocals
<1>4. Copy!SourcePhysical' = Copy!SourcePhysical
  BY <1>1 DEF Copy!SourcePhysical, Copy!PhysicalSize, Copy!ExtraBuckets
<1>5. HeapSlots' = HeapSlots
  BY <1>1 DEF HeapSlots
<1>6. CopyLocals'
  <2>1. /\ source_logical_size = 0 /\ BucketsTyped(source, 0)
        /\ HeapSlots \subseteq Occupied(other.buckets_)
        /\ disordered_bucket \in Nat /\ slot_number \in Nat
    BY DEF InCopy, CopyLocals
  <2>2. /\ bucket_number' \in Nat /\ bucket_number' <= Copy!SourcePhysical'
        /\ bucket_number' = bucket_number + 1
    <3>1. bucket_number' = bucket_number + 1
      BY <1>1
    <3>2. /\ bucket_number' \in Nat /\ bucket_number' <= Copy!SourcePhysical
      BY <1>3, <3>1
    <3> QED BY <1>4, <3>1, <3>2
  <2>3. /\ source_logical_size' = 0 /\ BucketsTyped(source', 0)
        /\ HeapSlots' \subseteq Occupied(other'.buckets_)
        /\ disordered_bucket' \in Nat /\ slot_number' \in Nat
    BY <1>1, <1>5, <2>1
  <2> QED BY <1>1, <2>2, <2>3 DEF CopyLocals
<1>7. ASSUME NEW p \in Occupied(other.buckets_), Awaits(p) PROVE Awaits(p)'
  <2>1. /\ p[1] \in Nat /\ OtherPreferred(p) \in Int
    <3>1. OtherPreferred(p) \in 0 .. other.logical_size_ - 1 /\ other.logical_size_ \in Nat
      BY SourceElement, SourceSound
    <3>2. p[1] \in 0 .. Copy!SourcePhysical - 1
      BY SourceElement
    <3> QED BY <1>3, <3>1, <3>2
  <2>2. OtherPreferred(p)' = OtherPreferred(p)
    BY <1>1 DEF OtherPreferred
  <2>3. CASE IsNonemptyAndDisordered(MetaAt(other.buckets_, p))
    <3>1. disordered_bucket <= p[1] /\ ~CopyCollected(OtherPreferred(p))
      BY <1>7, <2>3 DEF Awaits
    <3>2. ~(OtherPreferred(p) < bucket_number) /\ OtherPreferred(p) # bucket_number
      BY <1>1, <3>1 DEF CopyCollected
    <3>3. ~(OtherPreferred(p) < bucket_number + 1)
      BY <1>3, <2>1, <3>2
    <3>4. ~CopyCollected(OtherPreferred(p))'
      BY <1>1, <2>2, <3>3 DEF CopyCollected
    <3> QED BY <1>1, <2>3, <3>1, <3>4 DEF Awaits
  <2>4. CASE ~IsNonemptyAndDisordered(MetaAt(other.buckets_, p))
    <3>1. p[1] # bucket_number
      BY <1>1, <1>7, <2>4, AheadAwaited
    <3>2. bucket_number + 1 <= p[1]
      <4>1. bucket_number <= p[1]
        BY <1>7, <2>4 DEF Awaits
      <4> QED BY <1>3, <2>1, <3>1, <4>1
    <3> QED BY <1>1, <2>4, <3>2 DEF Awaits
  <2> QED BY <2>3, <2>4
<1>8. CopySwept'
  BY <1>1, <1>5, <1>7 DEF InCopy, CopySwept, table
<1> QED BY <1>2, <1>6, <1>8 DEF InCopy

\* Behind the source only the heap is left.
LEMMA CopyDrainKeeps ==
  ASSUME Sound(other), InCopy, CopiesInByte, CopyDrain, pc' # "aborted"
  PROVE  InCopy'
<1>1. /\ UNCHANGED <<hasher, other, source, source_logical_size, bucket_number,
                     disordered_bucket, slot_number>>
      /\ CopyFromHeap /\ CopyTarget /\ CopyLocals
  BY DEF CopyDrain, InCopy
<1>2. /\ CopyTarget' /\ pc' = pc
      /\ Stored(buckets_) \subseteq Stored(buckets_')
      /\ Stored(buckets_') \subseteq Stored(buckets_) \cup Owned(other)
      /\ HeapSlots' \subseteq HeapSlots
      /\ \A p \in HeapSlots :
           p \in HeapSlots' \/ ValueAt(other.buckets_, p) \in Stored(buckets_')
  BY <1>1, CopyFromHeapCopies
<1>3. Copy!SourcePhysical' = Copy!SourcePhysical
  BY <1>1 DEF Copy!SourcePhysical, Copy!PhysicalSize, Copy!ExtraBuckets
<1>4. CopyLocals'
  BY <1>1, <1>2, <1>3 DEF CopyLocals
<1>5. ASSUME NEW p \in Occupied(other.buckets_), Awaits(p) PROVE Awaits(p)'
  <2>1. OtherPreferred(p)' = OtherPreferred(p)
    BY <1>1 DEF OtherPreferred
  <2> QED BY <1>1, <1>2, <1>5, <2>1 DEF Awaits, CopyCollected
<1>6. CopySwept'
  <2>1. ASSUME NEW p \in Occupied(other.buckets_)
        PROVE  ValueAt(other.buckets_, p) \in Stored(buckets_') \/ p \in HeapSlots' \/ Awaits(p)'
    BY <1>2, <1>5 DEF InCopy, CopySwept
  <2>2. Stored(buckets_') \subseteq Owned(other)
    BY <1>2 DEF InCopy, CopySwept
  <2> QED BY <1>1, <2>1, <2>2 DEF CopySwept
<1> QED BY <1>2, <1>4, <1>6 DEF InCopy

-----------------------------------------------------------------------------
(* Tables between two calls *)

\* The table of the callers, when no call is in progress, is sound.
LEMMA WorkingSound ==
  ASSUME Working, AtRest
  PROVE  Sound(Members)
<1>1. /\ Shape /\ CountInv /\ Located /\ DistancesInArray
  BY DEF Working, Counted
<1>2. /\ Members.hasher = hasher /\ Members.size_ = size_
      /\ Members.logical_size_ = logical_size_ /\ Members.buckets_ = buckets_
  BY DEF Members
<1>3. /\ hasher \in Hashers /\ logical_size_ \in 0 .. MaxLogicalSize
      /\ logical_size_ \in Nat /\ Physical \in Nat
  BY <1>1, PhysicalRange, SizeAssumption DEF Shape, TypeOK, Physical
<1>4. /\ buckets_ \in [0 .. Physical - 1 -> Bucket]
      /\ \A b \in 0 .. Physical - 1 : Consistent(buckets_[b]) /\ buckets_[b] # Uninitialized
  <2>1. buckets_ \in [0 .. Physical - 1 -> Bucket \cup {Uninitialized}]
    BY <1>1 DEF Shape, TypeOK, BucketsTyped, Physical
  <2>2. \A b \in 0 .. Physical - 1 : Consistent(buckets_[b]) /\ buckets_[b] # Uninitialized
    BY <1>1, <2>1 DEF Shape, NewInv, InitializedPrefix
  <2> QED BY <2>1, <2>2 DEF Consistent
<1>5. \A b \in 0 .. Physical - 1 :
        IF b = Physical - 1 THEN buckets_[b].search_distance = kSearchDistanceEndSentinal
        ELSE /\ b + buckets_[b].search_distance <= Physical
             /\ b >= logical_size_ => buckets_[b].search_distance = 0
  <2>1. pc # "aborted"
    BY DEF AtRest
  <2>2. DOMAIN buckets_ = 0 .. Physical - 1
    BY <1>4
  <2> QED BY <1>1, <1>4, <2>1, <2>2 DEF DistancesInArray
<1>6. /\ IsFiniteSet(Occupied(buckets_)) /\ size_ = Cardinality(Occupied(buckets_))
      /\ size_ > 0 => logical_size_ > 0
  BY <1>1 DEF CountInv, SizeIsCount, Shape, CallInv
<1>7. \A p \in Occupied(buckets_) : Reached(Members, p)
  BY <1>1, <1>2 DEF Located, Reached, HashOf
<1> QED BY <1>2, <1>3, <1>4, <1>5, <1>6, <1>7 DEF Sound, Physical

\* No call is in progress, and the locals of a rehash are those of the next one.
Resting ==
  /\ pc = "idle" /\ call = Idle
  /\ result \in {"void", "inserted", "present", "erased", "absent"}
  /\ source_logical_size = 0 /\ BucketsTyped(source, 0) /\ heap = {}
  /\ disordered_bucket = 0 /\ bucket_number = 0 /\ slot_number = 0
  /\ insert_bucket = 0 /\ insert_slot = 0

\* And a sound table that rests is one that works.
LEMMA SoundWorks == Sound(Members) /\ Resting => Working
<1> SUFFICES ASSUME Sound(Members), Resting PROVE Working
  OBVIOUS
<1> USE DEF Resting
<1>1. /\ Members.hasher = hasher /\ Members.size_ = size_
      /\ Members.logical_size_ = logical_size_ /\ Members.buckets_ = buckets_
  BY DEF Members
<1>2. /\ hasher \in Hashers /\ logical_size_ \in 0 .. MaxLogicalSize
      /\ buckets_ \in [0 .. Physical - 1 -> Bucket]
      /\ \A b \in 0 .. Physical - 1 :
           /\ Consistent(buckets_[b])
           /\ IF b = Physical - 1
              THEN buckets_[b].search_distance = kSearchDistanceEndSentinal
              ELSE /\ b + buckets_[b].search_distance <= Physical
                   /\ b >= logical_size_ => buckets_[b].search_distance = 0
      /\ IsFiniteSet(Occupied(buckets_))
      /\ size_ = Cardinality(Occupied(buckets_))
      /\ size_ > 0 => logical_size_ > 0
      /\ \A p \in Occupied(buckets_) : Reached(Members, p)
  BY <1>1 DEF Sound, Physical
<1>3. size_ \in Nat
  BY <1>2, FS_CardinalityType
<1>4. \A b \in 0 .. Physical - 1 : buckets_[b] # Uninitialized
  BY <1>2, UninitializedAssumption
<1>5. 0 \in SlotNumber /\ 0 \in 0 .. kSlotsPerBucket /\ PhysicalSize(0) = 0
  BY SizeAssumption, PhysicalRange DEF SlotNumber
<1>6. /\ Idle \in [op : {"idle", "insert", "reserve", "rehash"},
                   value : Values \cup {NoValue}, count : Nat]
      /\ Idle.op = "idle"
  BY DEF Idle
<1>7. TypeOK
  <2>1. BucketsTyped(buckets_, logical_size_)
    BY <1>2 DEF BucketsTyped, Physical
  <2>2. logical_size_ \in 0 .. MaxLogicalSize /\ source_logical_size \in 0 .. MaxLogicalSize
    BY <1>2, SizeAssumption
  <2> QED BY <1>2, <1>3, <1>5, <1>6, <2>1, <2>2 DEF TypeOK
<1>8. CallInv
  BY <1>2, <1>6 DEF CallInv, Rehashing
<1>9. NewInv
  BY <1>2, <1>4 DEF NewInv, InitializedPrefix, Rehashing
<1>10. SourceInv /\ HeapInv /\ ScanInv
  <2>1. DOMAIN source = {}
    BY <1>5 DEF BucketsTyped
  <2> QED BY <2>1 DEF SourceInv, HeapInv, ScanInv, Rehashing, AtRest
<1>11. Counted
  BY <1>2, <1>7, <1>8, <1>9, <1>10
  DEF Counted, Shape, FreeInv, Rehashing, CountInv, SizeIsCount
<1>12. Located
  BY <1>1, <1>2 DEF Located, Reached, HashOf
<1>13. DistancesInArray
  <2>1. DOMAIN buckets_ = 0 .. Physical - 1
    BY <1>2
  <2> QED BY <1>2, <2>1 DEF DistancesInArray, AtRest
<1>14. LocalsReset
  BY DEF LocalsReset
<1> QED BY <1>11, <1>12, <1>13, <1>14 DEF Working

\* The same of the next state.
LEMMA SoundWorksNext ==
  ASSUME Sound(Members)', Resting'
  PROVE  Working'
BY SoundWorks, PTL

\* The tables change their roles.
LEMMA SwapKeeps ==
  ASSUME Working, Sound(other), other.hasher = hasher, SwapTables \/ TurnTo
  PROVE  Working' /\ Sound(other)' /\ other'.hasher = hasher'
<1>1. /\ AtRest /\ pc' = "idle" /\ call' = Idle /\ result' = "void"
      /\ size_' = other.size_ /\ logical_size_' = other.logical_size_
      /\ buckets_' = other.buckets_ /\ hasher' = hasher
      /\ UNCHANGED <<scan, target>>
  BY DEF SwapTables, TurnTo, Become, Return, AtRest
<1>2. other' = Members
  BY DEF SwapTables, TurnTo, Members
<1>3. Sound(Members)
  BY <1>1, WorkingSound
<1>4. Sound(other)'
  BY <1>2, <1>3 DEF Sound, Reached
<1>5. Sound(Members)'
  BY <1>1 DEF Sound, Reached, Members
<1>6. other'.hasher = hasher'
  BY <1>1, <1>2 DEF Members
<1>7. /\ source_logical_size = 0 /\ BucketsTyped(source, 0) /\ heap = {}
      /\ disordered_bucket = 0 /\ bucket_number = 0 /\ slot_number = 0
      /\ insert_bucket = 0 /\ insert_slot = 0
  BY <1>1 DEF Working, LocalsReset, Counted, Shape, ScanInv, TypeOK
<1>8. Resting'
  BY <1>1, <1>7 DEF Resting, scan, target, BucketsTyped
<1>9. Working'
  BY <1>5, <1>8, SoundWorksNext
<1> QED BY <1>4, <1>6, <1>9

-----------------------------------------------------------------------------
(* Lookups, where a key may be stored more than once *)

\* A set of natural numbers that is not empty has a least element.
LEMMA SomeLeast ==
  ASSUME NEW S, S \subseteq Nat, S # {}
  PROVE  \E x \in S : \A y \in S : x <= y
<1> DEFINE less == {ss \in Nat \X Nat : ss[1] < ss[2]}
<1>1. IsWellFoundedOn(less, Nat)
  BY NatLessThanWellFounded, Zenon DEF OpToRel
<1> HIDE DEF less
<1>2. PICK x \in S : \A y \in S : <<y, x>> \notin less
  BY <1>1, WFMin
<1>3. ASSUME NEW y \in S PROVE x <= y
  <2>1. x \in Nat /\ y \in Nat
    OBVIOUS
  <2>2. y < x => <<y, x>> \in less
    BY <2>1 DEF less
  <2> QED BY <1>2, <2>1, <2>2
<1> QED BY <1>3

\* Among matches there is a first one.
LEMMA FirstExists ==
  ASSUME NEW positions, positions # {},
         \A p \in positions : p[1] \in Nat /\ p[2] \in Nat
  PROVE  First(positions) # {}
<1>1. PICK p \in positions : \A q \in positions : p[1] <= q[1]
  <2> DEFINE S == {q[1] : q \in positions}
  <2>1. S \subseteq Nat /\ S # {}
    OBVIOUS
  <2>2. PICK x \in S : \A y \in S : x <= y
    BY <2>1, SomeLeast
  <2> QED BY <2>2
<1>2. PICK r \in positions : r[1] = p[1] /\ \A q \in positions : q[1] = p[1] => r[2] <= q[2]
  <2> DEFINE S == {q[2] : q \in {t \in positions : t[1] = p[1]}}
  <2>1. S \subseteq Nat /\ S # {}
    OBVIOUS
  <2>2. PICK x \in S : \A y \in S : x <= y
    BY <2>1, SomeLeast
  <2> QED BY <2>2
<1>3. ASSUME NEW q \in positions PROVE r[1] < q[1] \/ (r[1] = q[1] /\ r[2] <= q[2])
  <2>1. p[1] <= q[1] /\ p[1] \in Nat /\ q[1] \in Nat
    BY <1>1
  <2> QED BY <1>2, <2>1
<1>4. r \in First(positions)
  BY <1>3 DEF First
<1> QED BY <1>4

\* find() finds exactly the keys of the values stored.
LEMMA FindsStored ==
  Working /\ pc = "idle" =>
    \A key \in Keys : (Find(key) # {}) <=> (\E v \in Stored(buckets_) : KeyOf[v] = key)
<1> SUFFICES ASSUME Working, pc = "idle", NEW key \in Keys
             PROVE  (Find(key) # {}) <=> (\E v \in Stored(buckets_) : KeyOf[v] = key)
  OBVIOUS
<1> DEFINE found == Matches(key, FindDistance(key))
<1>1. Shape /\ AtRest /\ Located /\ CountInv
  BY DEF Working, Counted, AtRest
<1>2. Stored(buckets_) = {ValueAt(buckets_, p) : p \in Occupied(buckets_)}
  BY <1>1, StoredOccupied
<1>3. CASE size_ = 0
  <2>1. Occupied(buckets_) = {}
    BY <1>1, <1>3, FS_EmptySet DEF CountInv, SizeIsCount
  <2> QED BY <1>2, <1>3, <2>1 DEF Find
<1>4. CASE size_ # 0
  <2>1. logical_size_ > 0 /\ Find(key) = First(found)
    BY <1>1, <1>4 DEF Shape, CallInv, TypeOK, Find
  <2>2. ASSUME NEW v \in Stored(buckets_), KeyOf[v] = key
        PROVE  found # {}
    <3>1. PICK q \in Occupied(buckets_) : v = ValueAt(buckets_, q)
      BY <1>2
    <3>2. q \in found
      BY <1>1, <2>2, <3>1, KeyMatches
    <3> QED BY <3>2
  <2>3. ASSUME NEW p \in found
        PROVE  /\ p \in Occupied(buckets_) /\ KeyOf[ValueAt(buckets_, p)] = key
               /\ p[1] \in Nat /\ p[2] \in Nat
    <3>1. FindDistance(key) \in Nat
      <4>1. logical_size_ \in Nat \ {0} /\ hasher[key] \in Hash
        BY <1>1, <2>1, SizeAssumption, HashAssumption DEF Shape, TypeOK, Hash
      <4>2. H1(hasher[key], logical_size_) \in 0 .. Physical - 1
        BY <4>1, H1Range, PhysicalRange DEF Physical
      <4>3. buckets_[H1(hasher[key], logical_size_)] \in Bucket
        BY <1>1, <4>2, AtRestShape DEF Consistent
      <4> QED BY <4>3, SizeAssumption DEF Bucket, SearchDistance, FindDistance, MaxOf
    <3>2. p \in Occupied(buckets_) /\ KeyOf[ValueAt(buckets_, p)] = key
      BY <1>1, <2>1, <3>1, MatchOccupied
    <3>3. p[1] \in 0 .. Physical - 1 /\ Physical \in Nat /\ p[2] \in SlotNumber
      BY <1>1, <3>2, OccupiedValue, OccupiedPair
    <3> QED BY <3>2, <3>3 DEF SlotNumber
  <2> HIDE DEF found
  <2>4. found # {} => First(found) # {}
    BY <2>3, FirstExists
  <2>5. First(found) \subseteq found
    BY DEF First
  <2>6. ASSUME NEW p \in found
        PROVE  \E v \in Stored(buckets_) : KeyOf[v] = key
    BY <1>2, <2>3, <2>6
  <2> QED BY <2>1, <2>2, <2>4, <2>5, <2>6
<1> QED BY <1>3, <1>4

-----------------------------------------------------------------------------
(* The end of a copy *)

\* The scan has come to the end of the source, and the heap is empty.
CopyEnded == pc = "copy collect" /\ bucket_number = Copy!SourcePhysical /\ heap = {}

\* When nothing is left to come the copy holds the values of its source.
LEMMA CopyComplete ==
  ASSUME Sound(other), InCopy, CopyEnded
  PROVE  Stored(buckets_) = Owned(other)
<1>1. ASSUME NEW p \in Occupied(other.buckets_)
      PROVE  ValueAt(other.buckets_, p) \in Stored(buckets_)
  <2>1. /\ p[1] \in 0 .. Copy!SourcePhysical - 1 /\ Copy!SourcePhysical \in Nat
        /\ OtherPreferred(p) \in 0 .. other.logical_size_ - 1 /\ other.logical_size_ \in Nat
        /\ OtherPreferred(p) <= p[1]
    BY SourceElement, SourceSound
  <2>2. OtherPreferred(p) < bucket_number /\ ~(bucket_number <= p[1])
    <3>1. bucket_number \in Nat /\ p[1] \in 0 .. bucket_number - 1
      BY <2>1 DEF CopyEnded
    <3>2. PICK h1 \in Int : h1 = OtherPreferred(p) /\ h1 <= p[1]
      BY <2>1
    <3> QED BY <3>1, <3>2
  <2>3. ~Awaits(p)
    BY <2>2 DEF Awaits, CopyCollected
  <2>4. HeapSlots = {}
    BY DEF HeapSlots, CopyEnded
  <2> QED BY <2>3, <2>4 DEF InCopy, CopySwept
<1>2. Owned(other) = {ValueAt(other.buckets_, p) : p \in Occupied(other.buckets_)}
  BY SourceSound DEF Owned, Stored
<1> QED BY <1>1, <1>2 DEF InCopy, CopySwept

\* FinishInsertAscending initialises the buckets behind the insertion point, which
\* are empty, and marks the last one.
LEMMA FinishCopyTable ==
  ASSUME CopyTarget, FinishCopy
  PROVE  /\ buckets_' \in [0 .. Physical - 1 -> Bucket]
         /\ \A b \in 0 .. Physical - 1 :
              /\ Consistent(buckets_'[b])
              /\ IF b = Physical - 1
                 THEN buckets_'[b].search_distance = kSearchDistanceEndSentinal
                 ELSE /\ InArray(b, buckets_'[b].search_distance)
                      /\ b <= insert_bucket =>
                           buckets_'[b].search_distance = buckets_[b].search_distance
         /\ Same(buckets_, buckets_')
<1> DEFINE opened == InitBuckets(buckets_, insert_bucket + 1, Physical - 1)
<1>1. /\ Physical \in Nat /\ logical_size_ \in Nat /\ logical_size_ < Physical
      /\ insert_bucket \in 0 .. Physical - 1
      /\ buckets_ \in [0 .. Physical - 1 -> Bucket]
      /\ \A b \in 0 .. Physical - 1 : Consistent(buckets_[b]) /\ buckets_[b] # Uninitialized
  BY CopyTargetTyped
<1>2. \A q \in Occupied(buckets_) : q[1] <= insert_bucket
  <2>1. \A q \in Occupied(buckets_) : q[1] < insert_bucket \/ q[1] = insert_bucket
    BY DEF CopyTarget
  <2>2. \A q \in Occupied(buckets_) : q[1] \in 0 .. Physical - 1
    BY <1>1, OccupiedPair
  <2> QED BY <1>1, <2>1, <2>2
<1>3. \A b \in 0 .. Physical - 1 :
        opened[b] = IF insert_bucket + 1 <= b /\ b <= Physical - 1 THEN InitBucket ELSE buckets_[b]
  BY <1>1, InitBucketsRange
<1>4. \A b \in 0 .. Physical - 1 :
        opened[b] = IF b <= insert_bucket THEN buckets_[b] ELSE InitBucket
  <2> HIDE DEF opened, Physical
  <2> QED BY <1>1, <1>3
<1>5. DOMAIN opened = 0 .. Physical - 1
  BY <1>1 DEF InitBuckets
<1> HIDE DEF opened
<1>6. \A b \in 0 .. Physical - 1 : Consistent(opened[b]) /\ opened[b] \in Bucket
  BY <1>1, <1>4, InitBucketConsistent DEF Consistent
<1>7. buckets_' = [opened EXCEPT ![Physical - 1].search_distance = kSearchDistanceEndSentinal]
  BY DEF FinishCopy, MarkEnd, opened
<1>8. /\ kSearchDistanceEndSentinal \in 0 .. kSearchDistanceEndSentinal
      /\ Physical - 1 \in 0 .. Physical - 1
  BY <1>1, SizeAssumption
<1>9. /\ DOMAIN buckets_' = 0 .. Physical - 1
      /\ \A b \in 0 .. Physical - 1 :
           buckets_'[b] = IF b = Physical - 1
                          THEN [opened[b] EXCEPT !.search_distance = kSearchDistanceEndSentinal]
                          ELSE opened[b]
  BY <1>5, <1>7, <1>8
<1>10. ASSUME NEW b \in 0 .. Physical - 1
       PROVE  /\ buckets_'[b] \in Bucket
              /\ buckets_'[b].h2 = opened[b].h2 /\ buckets_'[b].slots = opened[b].slots
              /\ buckets_'[b].search_distance =
                   IF b = Physical - 1 THEN kSearchDistanceEndSentinal
                   ELSE opened[b].search_distance
  <2>1. opened[b] \in Bucket
    BY <1>6
  <2> QED BY <1>8, <1>9, <2>1 DEF Bucket
<1>11. \A b \in 0 .. Physical - 1 : Consistent(buckets_'[b])
  BY <1>6, <1>10 DEF Consistent
<1>12. buckets_' \in [0 .. Physical - 1 -> Bucket]
  <2>1. buckets_' = [b \in 0 .. Physical - 1 |-> buckets_'[b]]
    BY <1>5, <1>7
  <2> QED BY <1>10, <2>1
<1>13. Same(buckets_, buckets_')
  <2>1. \A b \in 0 .. Physical - 1 : buckets_'[b] # Uninitialized
    BY <1>12, UninitializedAssumption
  <2>2. \A y \in SlotNumber : InitBucket.h2[y] = kEmpty
    BY DEF InitBucket
  <2>3. ASSUME NEW x, NEW y
        PROVE  <<x, y>> \in Occupied(buckets_') <=> <<x, y>> \in Occupied(buckets_)
    <3>1. <<x, y>> \in Occupied(buckets_') <=>
            x \in 0 .. Physical - 1 /\ y \in SlotNumber /\ opened[x].h2[y] # kEmpty
      <4>1. <<x, y>> \in Occupied(buckets_') <=>
              x \in 0 .. Physical - 1 /\ y \in SlotNumber /\ buckets_'[x].h2[y] # kEmpty
        BY <1>12, <2>1, OccupiedSlot
      <4>2. x \in 0 .. Physical - 1 => buckets_'[x].h2 = opened[x].h2
        BY <1>10
      <4> QED BY <4>1, <4>2
    <3>2. <<x, y>> \in Occupied(buckets_) <=>
            x \in 0 .. Physical - 1 /\ y \in SlotNumber /\ buckets_[x].h2[y] # kEmpty
      BY <1>1, OccupiedSlot
    <3>3. CASE x \in 0 .. Physical - 1 /\ ~(x <= insert_bucket)
      BY <1>2, <1>4, <2>2, <3>1, <3>3
    <3>4. CASE x \in 0 .. Physical - 1 /\ x <= insert_bucket
      BY <1>4, <3>1, <3>2, <3>4
    <3>5. CASE x \notin 0 .. Physical - 1
      BY <3>1, <3>2, <3>5
    <3> QED BY <3>3, <3>4, <3>5
  <2>4. ASSUME NEW q PROVE q \in Occupied(buckets_') <=> q \in Occupied(buckets_)
    BY <2>3, OccupiedPair
  <2>5. ASSUME NEW q \in Occupied(buckets_) PROVE Keeps(buckets_, buckets_', q)
    <3>1. q[1] \in 0 .. Physical - 1 /\ q[1] <= insert_bucket
      BY <1>1, <1>2, OccupiedPair
    <3>2. opened[q[1]] = buckets_[q[1]]
      BY <1>4, <3>1
    <3> QED BY <1>10, <3>1, <3>2 DEF Keeps, MetaAt, ValueAt
  <2> QED BY <2>4, <2>5 DEF Same
<1>14. ASSUME NEW b \in 0 .. Physical - 1, b # Physical - 1
       PROVE  /\ InArray(b, buckets_'[b].search_distance)
              /\ b <= insert_bucket =>
                   buckets_'[b].search_distance = buckets_[b].search_distance
  <2>1. buckets_'[b].search_distance = opened[b].search_distance
    BY <1>10, <1>14
  <2>2. CASE b <= insert_bucket
    <3>1. opened[b] = buckets_[b]
      BY <1>4, <2>2
    <3>2. b < Physical - 1
      BY <1>1, <1>14
    <3> QED BY <2>1, <3>1, <3>2 DEF CopyTarget
  <2>3. CASE ~(b <= insert_bucket)
    <3>1. opened[b].search_distance = 0
      BY <1>4, <2>3 DEF InitBucket
    <3>2. b + 0 <= Physical
      BY <1>1
    <3> QED BY <2>1, <2>3, <3>1, <3>2 DEF InArray
  <2> QED BY <2>2, <2>3
<1> QED BY <1>10, <1>11, <1>12, <1>13, <1>14

\* The end of a copy leaves a table that works, with the values it was given.
LEMMA FinishCopyKeeps ==
  ASSUME InCopy, FinishCopy
  PROVE  Working' /\ Stored(buckets_') = Stored(buckets_)
<1>1. CopyTarget /\ CopyLocals
  BY DEF InCopy
<1>2. /\ UNCHANGED <<hasher, size_, logical_size_>> /\ Physical' = Physical
  BY DEF FinishCopy, Physical
<1>3. /\ logical_size_ \in Nat \ {0} /\ Physical \in Nat /\ logical_size_ < Physical
      /\ insert_bucket \in 0 .. Physical - 1
      /\ buckets_ \in [0 .. Physical - 1 -> Bucket]
      /\ Constructed(buckets_) = Occupied(buckets_)
      /\ \A v \in Values : Preferred(v) \in 0 .. logical_size_ - 1
  BY <1>1, CopyTargetTyped
<1>4. /\ buckets_' \in [0 .. Physical - 1 -> Bucket]
      /\ \A b \in 0 .. Physical - 1 :
           /\ Consistent(buckets_'[b])
           /\ IF b = Physical - 1
              THEN buckets_'[b].search_distance = kSearchDistanceEndSentinal
              ELSE /\ InArray(b, buckets_'[b].search_distance)
                   /\ b <= insert_bucket =>
                        buckets_'[b].search_distance = buckets_[b].search_distance
      /\ Same(buckets_, buckets_')
  BY <1>1, FinishCopyTable
<1>5. ASSUME NEW p \in Occupied(buckets_') PROVE Reached(Members, p)'
  <2> DEFINE v == ValueAt(buckets_, p)
             g == Preferred(v)
  <2>1. /\ p \in Occupied(buckets_)
        /\ ValueAt(buckets_', p) = v /\ MetaAt(buckets_', p) = MetaAt(buckets_, p)
    BY <1>4 DEF Same, Keeps
  <2>2. LocatedAt(buckets_, p)
    BY <1>1, <2>1, LocatedEach DEF CopyTarget
  <2>3. v \in Values
    <3>1. buckets_[p[1]].slots[p[2]] \in Values \cup {NoValue}
      BY <1>3, <2>1, OccupiedPair DEF Bucket
    <3> QED BY <1>3, <2>1, <3>1 DEF Constructed, ValueAt
  <2>4. p[1] \in 0 .. Physical - 1 /\ p[1] <= insert_bucket
    BY <1>1, <1>3, <2>1, OccupiedPair DEF CopyTarget
  <2>5. g \in 0 .. logical_size_ - 1 /\ g <= p[1]
    BY <1>3, <2>2, <2>3 DEF LocatedAt
  <2>6. g \in 0 .. Physical - 1 /\ g # Physical - 1 /\ g <= insert_bucket
    BY <1>3, <2>4, <2>5
  <2>7. buckets_'[g].search_distance = buckets_[g].search_distance
    BY <1>4, <2>6
  <2>8. /\ g <= p[1] /\ p[1] < g + buckets_'[g].search_distance
        /\ ClearOrdered(MetaAt(buckets_', p)) = H2(HashOf(v))
    BY <2>1, <2>2, <2>7 DEF LocatedAt
  <2>9. g = H1(hasher[KeyOf[v]], logical_size_) /\ HashOf(v) = hasher[KeyOf[v]]
    BY DEF Preferred, HashOf
  <2> HIDE DEF g, v
  <2> QED BY <1>2, <2>1, <2>8, <2>9 DEF Reached, Members
<1>6. /\ IsFiniteSet(Occupied(buckets_')) /\ size_' = Cardinality(Occupied(buckets_'))
      /\ logical_size_' > 0 /\ logical_size_' \in 0 .. MaxLogicalSize /\ hasher' \in Hashers
  BY <1>1, <1>2, <1>3, <1>4 DEF CopyTarget, CountInv, SizeIsCount, Same
<1>7. \A b \in 0 .. Physical - 1 :
        /\ Consistent(buckets_'[b])
        /\ IF b = Physical - 1
           THEN buckets_'[b].search_distance = kSearchDistanceEndSentinal
           ELSE /\ b + buckets_'[b].search_distance <= Physical
                /\ b >= logical_size_ => buckets_'[b].search_distance = 0
  BY <1>4 DEF InArray
<1>8. Sound(Members)'
  <2>1. /\ Members'.hasher = hasher' /\ Members'.size_ = size_'
        /\ Members'.logical_size_ = logical_size_ /\ Members'.buckets_ = buckets_'
        /\ PhysicalSize(logical_size_) = Physical
    BY <1>2 DEF Members, Physical
  <2>2. \A p \in Occupied(buckets_') : Reached(Members', p)
    BY <1>5 DEF Reached
  <2> HIDE DEF Physical
  <2>3. Sound(Members')
    BY <1>2, <1>4, <1>6, <1>7, <2>1, <2>2 DEF Sound
  <2> QED BY <2>3 DEF Sound, Reached
<1>9. Resting'
  BY <1>1 DEF FinishCopy, Return, Resting, CopyLocals, BucketsTyped
<1>10. Working'
  BY <1>8, <1>9, SoundWorksNext
<1>11. Constructed(buckets_') = Occupied(buckets_')
  BY <1>4, ConstructedOccupied
<1>12. Stored(buckets_') = Stored(buckets_)
  BY <1>3, <1>4, <1>11 DEF Stored, Same, Keeps
<1> QED BY <1>10, <1>12

-----------------------------------------------------------------------------
(* The start of a copy *)

\* The buckets reserved are empty, and only the last has a search distance.
LEMMA ReservedBuckets ==
  ASSUME NEW logical_size \in Nat \ {0}
  PROVE  LET n == PhysicalSize(logical_size)
         IN  /\ Reserved(logical_size) \in [0 .. n - 1 -> Bucket]
             /\ \A b \in 0 .. n - 1 :
                  /\ Consistent(Reserved(logical_size)[b])
                  /\ b < n - 1 => Reserved(logical_size)[b].search_distance = 0
                  /\ \A s \in SlotNumber : Reserved(logical_size)[b].h2[s] = kEmpty
<1> DEFINE n == PhysicalSize(logical_size)
           opened == InitBuckets(NewBuckets(logical_size), 0, n - 1)
<1>1. n \in Nat \ {0}
  BY PhysicalRange
<1>2. NewBuckets(logical_size) \in [0 .. n - 1 -> Bucket \cup {Uninitialized}]
  BY DEF NewBuckets
<1>3. opened = [b \in 0 .. n - 1 |-> InitBucket]
  BY <1>1 DEF InitBuckets, NewBuckets
<1>4. Reserved(logical_size)
        = [opened EXCEPT ![n - 1].search_distance = kSearchDistanceEndSentinal]
  BY DEF Reserved
<1> HIDE DEF opened, n
<1>5. InitBucket \in Bucket /\ n - 1 \in 0 .. n - 1
      /\ kSearchDistanceEndSentinal \in 0 .. kSearchDistanceEndSentinal
  BY <1>1, InitBucketConsistent, SizeAssumption DEF Consistent
<1>6. DOMAIN Reserved(logical_size) = 0 .. n - 1
  BY <1>3, <1>4
<1>7. ASSUME NEW b \in 0 .. n - 1
      PROVE  /\ Reserved(logical_size)[b] \in Bucket
             /\ Reserved(logical_size)[b].h2 = InitBucket.h2
             /\ Reserved(logical_size)[b].slots = InitBucket.slots
             /\ b # n - 1 => Reserved(logical_size)[b] = InitBucket
  <2>1. Reserved(logical_size)[b] =
          IF b = n - 1 THEN [InitBucket EXCEPT !.search_distance = kSearchDistanceEndSentinal]
          ELSE InitBucket
    BY <1>3, <1>4, <1>5
  <2> QED BY <1>5, <2>1 DEF Bucket
<1>8. \A b \in 0 .. n - 1 : Consistent(Reserved(logical_size)[b])
  BY <1>7, InitBucketConsistent DEF Consistent
<1>9. Reserved(logical_size) \in [0 .. n - 1 -> Bucket]
  <2>1. Reserved(logical_size) = [b \in 0 .. n - 1 |-> Reserved(logical_size)[b]]
    BY <1>4, <1>6
  <2> QED BY <1>7, <2>1
<1>10. ASSUME NEW b \in 0 .. n - 1
       PROVE  /\ b < n - 1 => Reserved(logical_size)[b].search_distance = 0
              /\ \A s \in SlotNumber : Reserved(logical_size)[b].h2[s] = kEmpty
  BY <1>1, <1>7 DEF InitBucket
<1> QED BY <1>8, <1>9, <1>10 DEF n

\* A copy starts with an empty table to fill and with all its source to come.
LEMMA StartCopyKeeps ==
  ASSUME Working, AtRest, Sound(other), hasher' \in Hashers, other' = other,
         NEW count, StartCopy(count), pc' # "aborted"
  PROVE  InCopy'
<1>0. pc' = "copy collect" /\ UNCHANGED <<scan, target>>
  BY DEF StartCopy, Abort
<1>1. /\ logical_size_' \in 1 .. MaxLogicalSize
      /\ size_' = 0 /\ buckets_' = Reserved(logical_size_')
  BY DEF StartCopy, Abort
<1>2. /\ source_logical_size = 0 /\ BucketsTyped(source, 0) /\ heap = {}
      /\ disordered_bucket = 0 /\ bucket_number = 0 /\ slot_number = 0
      /\ insert_bucket = 0 /\ insert_slot = 0
  BY DEF Working, LocalsReset, Counted, Shape, ScanInv, TypeOK
<1>3. /\ source_logical_size' = 0 /\ source' = source /\ heap' = {}
      /\ disordered_bucket' = 0 /\ bucket_number' = 0 /\ slot_number' = 0
      /\ insert_bucket' = 0 /\ insert_slot' = 0
  BY <1>0, <1>2 DEF scan, target
<1>4. PICK n \in Nat \ {0} : n = Physical' /\ n = PhysicalSize(logical_size_')
  <2>1. logical_size_' \in Nat \ {0}
    BY <1>1, SizeAssumption
  <2> QED BY <2>1, PhysicalRange DEF Physical
<1>5. /\ buckets_' \in [0 .. n - 1 -> Bucket]
      /\ \A b \in 0 .. n - 1 :
           /\ Consistent(buckets_'[b])
           /\ b < n - 1 => buckets_'[b].search_distance = 0
           /\ \A s \in SlotNumber : buckets_'[b].h2[s] = kEmpty
  <2>1. logical_size_' \in Nat \ {0}
    BY <1>1, SizeAssumption
  <2> QED BY <1>1, <1>4, <2>1, ReservedBuckets
<1>6. Occupied(buckets_') = {}
  <2>1. ASSUME NEW p \in Occupied(buckets_') PROVE FALSE
    <3>1. /\ p[1] \in 0 .. n - 1 /\ p[2] \in SlotNumber
          /\ buckets_'[p[1]].h2[p[2]] # kEmpty
      BY <1>5, OccupiedPair
    <3> QED BY <1>5, <3>1
  <2> QED BY <2>1
<1>7. CountInv' /\ Located'
  BY <1>1, <1>6, CountNone DEF Located
<1>8. (\A b \in 0 .. Physical - 1 :
         /\ Consistent(buckets_[b])
         /\ b < Physical - 1 => InArray(b, buckets_[b].search_distance))'
  <2> SUFFICES ASSUME NEW b \in 0 .. n - 1
               PROVE  /\ Consistent(buckets_'[b])
                      /\ b < n - 1 => InArray(b, buckets_[b].search_distance)'
    BY <1>4
  <2>1. b < n - 1 => buckets_'[b].search_distance = 0 /\ b + 0 <= n
    BY <1>5
  <2> QED BY <1>4, <1>5, <2>1 DEF InArray
<1>9. CopyTarget'
  <2>1. 0 \in SlotNumber /\ 0 \in 0 .. n - 1
    BY SizeAssumption DEF SlotNumber
  <2> QED BY <1>1, <1>3, <1>4, <1>5, <1>6, <1>7, <1>8, <2>1 DEF CopyTarget
<1>10. CopyLocals'
  <2>1. HeapSlots' = {}
    BY <1>3 DEF HeapSlots
  <2>2. Copy!SourcePhysical' = Copy!SourcePhysical
    BY DEF Copy!SourcePhysical, Copy!PhysicalSize, Copy!ExtraBuckets
  <2>3. Copy!SourcePhysical \in Nat
    BY SourceSound
  <2>4. 0 <= Copy!SourcePhysical
    BY <2>3
  <2> QED BY <1>0, <1>2, <1>3, <2>1, <2>2, <2>4 DEF CopyLocals, BucketsTyped
<1>11. CopySwept'
  <2>1. ASSUME NEW p \in Occupied(other.buckets_) PROVE Awaits(p)'
    <3>1. /\ p[1] \in 0 .. Copy!SourcePhysical - 1
          /\ OtherPreferred(p) \in 0 .. other.logical_size_ - 1
      BY SourceElement
    <3>2. 0 <= p[1] /\ ~(OtherPreferred(p) < 0)
      BY <3>1
    <3>3. OtherPreferred(p)' = OtherPreferred(p)
      BY <1>1 DEF OtherPreferred
    <3> QED BY <1>0, <1>3, <3>2, <3>3 DEF Awaits, CopyCollected
  <2>2. Stored(buckets_') = {}
    <3>1. Constructed(buckets_') = Occupied(buckets_')
      BY <1>5, ConstructedOccupied
    <3> QED BY <1>6, <3>1 DEF Stored
  <2> QED BY <2>1, <2>2 DEF CopySwept
<1> QED BY <1>9, <1>10, <1>11 DEF InCopy

-----------------------------------------------------------------------------
(* Every step of the two tables *)

\* A call on the one table begins and goes on outside copies, and no call changes
\* the hasher.
LEMMA NextOutsideCopies ==
  ASSUME Next
  PROVE  pc \in {"idle", "insert", "collect", "scan"} /\ hasher' = hasher
<1>1. ASSUME NEW value \in Values, Insert(value) PROVE pc = "idle" /\ hasher' = hasher
  BY <1>1 DEF Insert
<1>2. ASSUME NEW key \in Keys, EraseKey(key) PROVE pc = "idle" /\ hasher' = hasher
  BY <1>2 DEF EraseKey
<1>3. ASSUME NEW p \in (DOMAIN buckets_) \X SlotNumber, EraseIterator(p)
      PROVE  pc = "idle" /\ hasher' = hasher
  BY <1>3 DEF EraseIterator
<1>4. ASSUME NEW count \in ReserveCounts, Reserve(count) PROVE pc = "idle" /\ hasher' = hasher
  BY <1>4 DEF Reserve
<1>5. ASSUME NEW count \in RehashCounts, Rehash(count) PROVE pc = "idle" /\ hasher' = hasher
  BY <1>5 DEF Rehash
<1>6. CASE Clear
  BY <1>6 DEF Clear
<1>7. CASE Step
  BY <1>7
  DEF Step, PlaceValue, GetDisorderedValues, ScanBucket, NextBucket, DrainHeap, FinishRehash
<1> QED BY <1>1, <1>2, <1>3, <1>4, <1>5, <1>6, <1>7 DEF Next

\* The program counter tells a table that works from one that is being filled.
LEMMA WorkingOrCopy ==
  ASSUME TwoInv
  PROVE  /\ pc \in {"idle", "insert", "collect", "scan"} => Working
         /\ Copying => InCopy
<1>1. Working => pc \in {"idle", "insert", "collect", "scan", "aborted"}
  BY DEF Working, Counted, Shape, TypeOK
<1>2. InCopy => pc \in {"copy collect", "copy scan"}
  BY DEF InCopy, CopyLocals
<1> QED BY <1>1, <1>2 DEF TwoInv, Copying

\* Two tables that have just been constructed
LEMMA TwoInitInv ==
  ASSUME OneHasher, TwoInit
  PROVE  TwoInv
<1>1. /\ Init /\ other.hasher = hasher /\ other.size_ = 0 /\ other.logical_size_ = 0
      /\ other.buckets_ = NewBuckets(0)
  BY DEF TwoInit
<1>2. /\ PhysicalSize(0) = 0 /\ NewBuckets(0) \in [0 .. PhysicalSize(0) - 1 -> Bucket]
      /\ 0 .. PhysicalSize(0) - 1 = {}
  BY PhysicalRange DEF NewBuckets
<1>3. Occupied(NewBuckets(0)) = {}
  BY <1>2 DEF Occupied, Positions
<1>4. hasher \in Hashers /\ 0 \in 0 .. MaxLogicalSize
  BY <1>1, SizeAssumption DEF Init
<1>5. IsFiniteSet({}) /\ Cardinality({}) = 0 /\ ~(0 > 0)
  BY FS_EmptySet
<1>6. ASSUME NEW members, members.hasher = hasher, members.size_ = 0,
             members.logical_size_ = 0, members.buckets_ = NewBuckets(0)
      PROVE  Sound(members)
  <2>1. /\ IsFiniteSet(Occupied(members.buckets_))
        /\ members.size_ = Cardinality(Occupied(members.buckets_))
        /\ \A p \in Occupied(members.buckets_) : Reached(members, p)
    BY <1>3, <1>5, <1>6
  <2> QED BY <1>2, <1>4, <1>5, <1>6, <2>1 DEF Sound
<1>7. Sound(Members) /\ Sound(other)
  BY <1>1, <1>6 DEF Members, Init
<1>8. Resting
  BY <1>1, <1>2 DEF Init, Resting, BucketsTyped
<1> QED BY <1>1, <1>7, <1>8, SoundWorks DEF TwoInv

\* Swapping, moving, copying and every call on either table keep both tables
\* searchable.
LEMMA TwoNextInv ==
  ASSUME DistancesInByte, CopiesInByte, TwoInv, [TwoNext]_allVars
  PROVE  TwoInv'
<1>1. other.hasher = hasher /\ Sound(other)
  BY DEF TwoInv
<1>2. /\ pc \in {"idle", "insert", "collect", "scan"} => Working
      /\ Copying => InCopy
  BY WorkingOrCopy
<1>3. ASSUME other' = other PROVE Sound(other)'
  BY <1>1, <1>3 DEF Sound, Reached
<1>4. ASSUME other' = other, hasher' = hasher, pc' # "aborted" => Working' \/ InCopy'
      PROVE  TwoInv'
  BY <1>1, <1>3, <1>4 DEF TwoInv
<1>5. ASSUME Next, other' = other PROVE TwoInv'
  <2>1. pc \in {"idle", "insert", "collect", "scan"} /\ hasher' = hasher
    BY <1>5, NextOutsideCopies
  <2>2. Working'
    BY <1>2, <1>5, <2>1, NextWorking
  <2> QED BY <1>4, <1>5, <2>1, <2>2
<1>6. CASE SwapTables \/ TurnTo
  <2>1. Working
    BY <1>2, <1>6 DEF SwapTables, TurnTo
  <2>2. Working' /\ Sound(other)' /\ other'.hasher = hasher'
    BY <1>1, <1>6, <2>1, SwapKeeps
  <2> QED BY <2>2 DEF TwoInv
<1>7. ASSUME pc = "idle", NEW count, StartCopy(count), other' = other,
             hasher' = hasher \/ hasher' = other.hasher
      PROVE  TwoInv'
  <2>1. Working /\ AtRest
    BY <1>2, <1>7 DEF AtRest
  <2>2. hasher' = hasher /\ hasher' \in Hashers
    BY <1>1, <1>7 DEF Sound
  <2>3. pc' # "aborted" => InCopy'
    BY <1>1, <1>7, <2>1, <2>2, StartCopyKeeps
  <2> QED BY <1>4, <1>7, <2>2, <2>3
<1>8. CASE CopyConstruct \/ CopyAssign \/ SelfAssign
  BY <1>7, <1>8 DEF CopyConstruct, CopyAssign, SelfAssign
<1>9. ASSUME CopyCollect \/ CopyScan \/ CopyNextBucket \/ CopyDrain, pc' # "aborted"
      PROVE  InCopy'
  <2>1. InCopy
    BY <1>2, <1>9 DEF CopyCollect, CopyScan, CopyNextBucket, CopyDrain, Copying
  <2> QED
    BY <1>1, <1>9, <2>1, CopyCollectKeeps, CopyScanKeeps, CopyNextBucketKeeps, CopyDrainKeeps
<1>10. CASE CopyCollect \/ CopyScan \/ CopyNextBucket \/ CopyDrain
  <2>1. other' = other /\ hasher' = hasher
    BY <1>10 DEF CopyCollect, CopyScan, CopyNextBucket, CopyDrain
  <2> QED BY <1>4, <1>9, <1>10, <2>1
<1>11. CASE FinishCopy
  <2>1. InCopy /\ other' = other /\ hasher' = hasher
    BY <1>2, <1>11 DEF FinishCopy, Copying
  <2>2. Working'
    BY <1>11, <2>1, FinishCopyKeeps
  <2> QED BY <1>4, <2>1, <2>2
<1>12. CASE UNCHANGED allVars
  <2>1. other' = other /\ UNCHANGED vars
    BY <1>12 DEF allVars
  <2>2. hasher' = hasher /\ pc' = pc
    BY <2>1 DEF vars
  <2>3. Working => Working'
    BY <2>1, NextWorking
  <2>4. InCopy => InCopy'
    <3>1. UNCHANGED <<hasher, table, target, other, source, source_logical_size, heap,
                      disordered_bucket, bucket_number, slot_number, pc>>
      BY <2>1 DEF vars, scan
    <3> QED
      BY <3>1, CopyTargetUnchanged
      DEF InCopy, CopyLocals, CopySwept, HeapSlots, BucketsTyped, Awaits, CopyCollected,
          OtherPreferred, table, Copy!SourcePhysical, Copy!PhysicalSize, Copy!ExtraBuckets
  <2> QED BY <1>4, <2>1, <2>2, <2>3, <2>4 DEF TwoInv
<1>13. CASE TwoCall
  <2>1. CASE \E value \in Values : Insert(value) /\ UNCHANGED other
    BY <1>5, <2>1 DEF Next
  <2>2. CASE \E key \in Keys : EraseKey(key) /\ UNCHANGED other
    BY <1>5, <2>2 DEF Next
  <2>3. CASE Clear /\ UNCHANGED other
    BY <1>5, <2>3 DEF Next
  <2> QED BY <1>6, <1>8, <1>13, <2>1, <2>2, <2>3 DEF TwoCall
<1>14. CASE TwoStep
  <2>1. CASE Step /\ UNCHANGED other
    BY <1>5, <2>1 DEF Next
  <2> QED BY <1>10, <1>11, <1>14, <2>1 DEF TwoStep
<1> QED BY <1>12, <1>13, <1>14 DEF TwoNext

-----------------------------------------------------------------------------
(* The theorems *)

\* Tables of one hasher that are copied, assigned, swapped, moved, filled and
\* emptied in any order stay searchable, and no copy loses an element.
THEOREM TwoInvariant ==
  ASSUME OneHasher
  PROVE  TwoSpec /\ []DistancesInByte /\ []CopiesInByte => []TwoInv
<1>1. TwoInit => TwoInv
  BY TwoInitInv
<1>2. DistancesInByte /\ CopiesInByte /\ TwoInv /\ [TwoNext]_allVars => TwoInv'
  BY TwoNextInv
<1> QED BY <1>1, <1>2, PTL DEF TwoSpec

\* So both tables can be searched.
LEMMA TwoInvReaches == TwoInv => BothWithinSearchDistance
<1> SUFFICES ASSUME TwoInv, pc # "aborted" PROVE BothWithinSearchDistance
  BY DEF BothWithinSearchDistance
<1>1. Located
  BY DEF TwoInv, Working, InCopy, CopyTarget
<1>2. \A p \in Occupied(Members.buckets_) :
        LET h1 == H1(Members.hasher[KeyOf[ValueAt(Members.buckets_, p)]],
                     Members.logical_size_)
        IN  h1 <= p[1] /\ p[1] < h1 + Members.buckets_[h1].search_distance
  BY <1>1 DEF Located, Members, HashOf
<1>3. \A p \in Occupied(other.buckets_) :
        LET h1 == H1(other.hasher[KeyOf[ValueAt(other.buckets_, p)]], other.logical_size_)
        IN  h1 <= p[1] /\ p[1] < h1 + other.buckets_[h1].search_distance
  BY DEF TwoInv, Sound, Reached
<1> QED BY <1>2, <1>3 DEF BothWithinSearchDistance

\* Validate(), of both tables, also of the one that a copy is filling: every object
\* lies within the search distance of the bucket its table's hasher prefers.
THEOREM BothTablesSearchable ==
  ASSUME OneHasher
  PROVE  TwoSpec /\ []DistancesInByte /\ []CopiesInByte => []BothWithinSearchDistance
BY TwoInvariant, TwoInvReaches, PTL

-----------------------------------------------------------------------------
(* What a copy finds *)

\* FindsStored, of the next state
LEMMA FindsStoredNext ==
  ASSUME Working', (pc = "idle")'
  PROVE  (\A key \in Keys : (Find(key) # {}) <=> (\E v \in Stored(buckets_) : KeyOf[v] = key))'
BY FindsStored, PTL

\* The call that copies returns with FinishCopy.
LEMMA OnlyFinishReturns ==
  ASSUME Copying, [TwoNext]_allVars, pc' = "idle"
  PROVE  FinishCopy
<1>1. pc \in {"copy collect", "copy scan"} /\ pc' # pc
  BY DEF Copying
<1>2. ASSUME NEW value, CopyValue(value) PROVE pc' \in {"aborted", pc}
  BY <1>2 DEF CopyValue, Copy!InsertAscending
<1>3. ASSUME CopyFromHeap PROVE pc' \in {"aborted", pc}
  BY <1>2, <1>3 DEF CopyFromHeap
<1>4. ~CopyCollect /\ ~CopyNextBucket
  BY DEF CopyCollect, CopyNextBucket
<1>5. ~CopyScan
  BY <1>1, <1>2, <1>3 DEF CopyScan
<1>6. ~CopyDrain
  BY <1>1, <1>3 DEF CopyDrain
<1>7. ~Next
  BY <1>1, NextOutsideCopies
<1>8. ~TwoCall
  BY <1>1
  DEF TwoCall, Insert, EraseKey, Clear, SwapTables, TurnTo, CopyConstruct, CopyAssign,
      SelfAssign
<1>9. ~UNCHANGED allVars
  BY <1>1 DEF allVars, vars
<1> QED BY <1>4, <1>5, <1>6, <1>7, <1>8, <1>9 DEF TwoNext, TwoStep, Next

\* When a call that copies returns, find() finds in the copy the keys of its source
\* and no other.
LEMMA CopyFinds ==
  ASSUME TwoInv, [TwoNext]_allVars, Copying, pc' = "idle"
  PROVE  \A key \in Keys :
           (Find(key)' # {}) <=> (\E v \in Owned(other) : KeyOf[v] = key)
<1>1. FinishCopy /\ InCopy /\ Sound(other)
  BY OnlyFinishReturns, WorkingOrCopy DEF TwoInv
<1>2. CopyEnded
  BY <1>1 DEF FinishCopy, CopyEnded
<1>3. Working' /\ Stored(buckets_') = Stored(buckets_)
  BY <1>1, FinishCopyKeeps
<1>4. Stored(buckets_') = Owned(other)
  BY <1>1, <1>2, <1>3, CopyComplete
<1>5. (\A key \in Keys :
         (Find(key) # {}) <=> (\E v \in Stored(buckets_) : KeyOf[v] = key))'
  BY <1>3, FindsStoredNext
<1> QED BY <1>4, <1>5

\* A copy, laid out anew from positions that no search distance of its own
\* describes, finds every key its source holds and no other.
THEOREM CopiesFindAll ==
  ASSUME OneHasher
  PROVE  TwoSpec /\ []DistancesInByte /\ []CopiesInByte => CopyFindsAll
<1>1. TwoInv /\ [TwoNext]_allVars =>
        [Copying /\ pc' = "idle" =>
           \A key \in Keys :
             (Find(key)' # {}) <=> (\E v \in Owned(other) : KeyOf[v] = key)]_allVars
  BY CopyFinds
<1> QED BY <1>1, TwoInvariant, PTL DEF TwoSpec, CopyFindsAll

-----------------------------------------------------------------------------
(* When a copy runs out of buckets *)

\* A copy of a value leaves no slot out, or opens the bucket the value prefers.
LEMMA CopyValuePacked ==
  ASSUME CopyTarget, NEW value \in Values,
         ~Copy!InsertOverruns(value), Copy!InsertAscending(value),
         NEW b \in 0 .. logical_size_ - 1, CopyPackedFrom(b)
  PROVE  \E c \in 0 .. logical_size_' - 1 : CopyPackedFrom(c)'
<1>1. PICK at : at = CopyAt(value)
  OBVIOUS
<1>2. PICK next : next = CopyNext(value)
  OBVIOUS
<1>3. /\ Physical \in Nat /\ logical_size_ \in Nat /\ logical_size_ < Physical
      /\ insert_bucket \in 0 .. Physical - 1 /\ insert_slot \in SlotNumber
      /\ Preferred(value) \in 0 .. logical_size_ - 1
  BY CopyTargetTyped
<1>4. /\ at[1] \in 0 .. Physical - 1 /\ at[2] \in SlotNumber
      /\ \/ at[1] > insert_bucket /\ at[1] = Preferred(value)
         \/ at = <<insert_bucket, insert_slot>>
      /\ next[1] \in 0 .. Physical - 1 /\ next[2] \in SlotNumber
  BY <1>1, <1>2, CopyAtRange
<1>5. at = <<at[1], at[2]>> /\ (at[1] > insert_bucket => at[2] = 0)
  BY <1>1, <1>3 DEF CopyAt
<1>6. next = IF at[2] + 1 = kSlotsPerBucket THEN <<at[1] + 1, 0>> ELSE <<at[1], at[2] + 1>>
  BY <1>1, <1>2 DEF CopyNext
<1>7. /\ insert_bucket' = next[1] /\ insert_slot' = next[2]
      /\ logical_size_' = logical_size_
  BY <1>2, CopyInserts
<1>8. Occupied(buckets_') = Occupied(buckets_) \cup {at}
  BY <1>1, CopyValueAdds DEF Adds
<1>9. kSlotsPerBucket \in Nat /\ SlotNumber = 0 .. kSlotsPerBucket - 1
  BY SizeAssumption DEF SlotNumber
<1>10. ASSUME NEW x \in Nat, NEW s \in SlotNumber, at[1] <= x, x <= next[1],
              x < next[1] \/ s < next[2]
       PROVE  x = at[1] /\ s <= at[2]
  BY <1>4, <1>6, <1>9, <1>10
<1>11. CASE at[1] > insert_bucket /\ at[1] = Preferred(value)
  <2>1. ASSUME NEW x \in at[1] .. next[1], NEW s \in SlotNumber,
               x < next[1] \/ s < next[2]
        PROVE  <<x, s>> \in Occupied(buckets_')
    <3>1. x \in Nat /\ at[1] <= x /\ x <= next[1]
      BY <1>4
    <3>2. x = at[1] /\ s <= at[2]
      BY <1>10, <2>1, <3>1
    <3>3. s = at[2]
      BY <1>5, <1>9, <1>11, <3>2
    <3> QED BY <1>5, <1>8, <3>2, <3>3
  <2>2. at[1] <= next[1]
    BY <1>4, <1>6
  <2>3. CopyPackedFrom(at[1])'
    BY <1>7, <2>1, <2>2 DEF CopyPackedFrom
  <2> QED BY <1>3, <1>7, <1>11, <2>3
<1>12. CASE at = <<insert_bucket, insert_slot>>
  <2>1. b \in Nat /\ b <= insert_bucket /\ at[1] = insert_bucket /\ at[2] = insert_slot
    BY <1>12 DEF CopyPackedFrom
  <2>2. ASSUME NEW x \in b .. next[1], NEW s \in SlotNumber, x < next[1] \/ s < next[2]
        PROVE  <<x, s>> \in Occupied(buckets_')
    <3>1. CASE x < insert_bucket
      <4>1. x \in b .. insert_bucket
        BY <1>3, <2>1, <3>1
      <4>2. <<x, s>> \in Occupied(buckets_)
        BY <3>1, <4>1 DEF CopyPackedFrom
      <4> QED BY <1>8, <4>2
    <3>2. CASE ~(x < insert_bucket)
      <4>1. x \in Nat /\ at[1] <= x /\ x <= next[1]
        BY <1>3, <1>4, <2>1, <3>2
      <4>2. x = at[1] /\ s <= at[2]
        BY <1>10, <2>2, <4>1
      <4>3. CASE s = at[2]
        BY <1>5, <1>8, <4>2, <4>3
      <4>4. CASE s # at[2]
        <5>1. x \in b .. insert_bucket /\ s < insert_slot
          BY <1>3, <1>9, <2>1, <4>2, <4>4
        <5>2. <<x, s>> \in Occupied(buckets_)
          BY <5>1 DEF CopyPackedFrom
        <5> QED BY <1>8, <5>2
      <4> QED BY <4>3, <4>4
    <3> QED BY <3>1, <3>2
  <2>3. b <= next[1]
    BY <1>3, <1>4, <1>6, <2>1
  <2>4. CopyPackedFrom(b)'
    BY <1>7, <2>2, <2>3 DEF CopyPackedFrom
  <2> QED BY <1>7, <2>4
<1> QED BY <1>4, <1>11, <1>12

\* A copy that runs out of buckets has filled them from some bucket on, all but
\* the last slot.
LEMMA CopyOverrunsFull ==
  ASSUME CopyTarget, NEW value \in Values, Copy!InsertOverruns(value),
         NEW b \in 0 .. logical_size_ - 1, CopyPackedFrom(b)
  PROVE  size_ + 1 >= (Physical - b) * kSlotsPerBucket
<1> DEFINE last == <<Physical - 1, kSlotsPerBucket - 1>>
           run == (b .. Physical - 1) \X SlotNumber
<1>1. /\ Physical \in Nat /\ logical_size_ \in Nat /\ logical_size_ < Physical
      /\ insert_bucket \in 0 .. Physical - 1 /\ insert_slot \in SlotNumber
      /\ Preferred(value) \in 0 .. logical_size_ - 1
  BY CopyTargetTyped
<1>2. kSlotsPerBucket \in Nat \ {0} /\ SlotNumber = 0 .. kSlotsPerBucket - 1
  BY SizeAssumption DEF SlotNumber
<1>3. CopyAt(value)[1] >= Physical \/ CopyNext(value)[1] >= Physical
  <2>1. Copy!InsertTarget(Preferred(value)) = CopyAt(value)
    BY CopyHelpers DEF Copy!InsertTarget, CopyAt
  <2>2. Copy!NextTarget(CopyAt(value)[1], CopyAt(value)[2]) = CopyNext(value)
    BY CopyHelpers DEF Copy!NextTarget, CopyNext
  <2>3. Copy!H1(Copy!HashOf(value), logical_size_) = Preferred(value)
    BY CopyHelpers DEF Preferred
  <2> QED BY <2>1, <2>2, <2>3, CopyHelpers DEF Copy!InsertOverruns
<1>4. insert_bucket = Physical - 1 /\ insert_slot = kSlotsPerBucket - 1
  <2>1. PICK at : at = CopyAt(value)
    OBVIOUS
  <2>2. \/ at = <<Preferred(value), 0>> /\ insert_bucket < Preferred(value)
        \/ at = <<insert_bucket, insert_slot>>
    BY <2>1 DEF CopyAt
  <2>3. CopyNext(value) =
          IF at[2] + 1 = kSlotsPerBucket THEN <<at[1] + 1, 0>> ELSE <<at[1], at[2] + 1>>
    BY <2>1 DEF CopyNext
  <2>4. at[1] >= Physical \/ CopyNext(value)[1] >= Physical
    BY <1>3, <2>1
  <2> HIDE DEF Physical, Preferred, CopyNext
  <2>5. at[1] \in Nat /\ at[1] < Physical
    BY <1>1, <2>2
  <2>6. at[2] + 1 = kSlotsPerBucket /\ at[1] + 1 >= Physical
    BY <1>1, <2>3, <2>4, <2>5
  <2> QED BY <1>1, <1>2, <2>2, <2>6
<1>5. ASSUME NEW x \in b .. Physical - 1, NEW s \in SlotNumber, <<x, s>> # last
      PROVE  <<x, s>> \in Occupied(buckets_)
  <2>1. x \in b .. insert_bucket /\ (x < insert_bucket \/ s < insert_slot)
    <3> HIDE DEF Physical
    <3> QED BY <1>1, <1>2, <1>4, <1>5
  <2> QED BY <2>1 DEF CopyPackedFrom
<1>6. run \ {last} \subseteq Occupied(buckets_)
  BY <1>5
<1>7. Cardinality(run) = (Physical - b) * kSlotsPerBucket /\ IsFiniteSet(run)
  <2> HIDE DEF Physical
  <2>1. IsFiniteSet(b .. Physical - 1) /\ Cardinality(b .. Physical - 1) = Physical - b
    <3>1. PICK n \in Int : n = Physical - 1
      BY <1>1
    <3>2. b \in Int /\ ~(b > n) /\ n - b + 1 = Physical - b
      BY <1>1, <3>1
    <3>3. IsFiniteSet(b .. n) /\ Cardinality(b .. n) = n - b + 1
      BY <3>2, FS_Interval
    <3> QED BY <3>1, <3>2, <3>3
  <2>2. IsFiniteSet(SlotNumber) /\ Cardinality(SlotNumber) = kSlotsPerBucket
    BY <1>2, FS_Interval
  <2> QED BY <2>1, <2>2, FS_Product
<1>8. last \in run
  <2> HIDE DEF Physical
  <2> QED BY <1>1, <1>2
<1>9. IsFiniteSet(Occupied(buckets_)) /\ size_ = Cardinality(Occupied(buckets_))
  BY DEF CopyTarget, CountInv, SizeIsCount
<1> HIDE DEF run, last
<1>10. Cardinality(run \ {last}) = Cardinality(run) - 1 /\ Cardinality(run) \in Nat
  BY <1>7, <1>8, FS_RemoveElement, FS_CardinalityType
<1>11. Cardinality(run \ {last}) <= size_ /\ size_ \in Nat
  BY <1>6, <1>9, FS_Subset, FS_CardinalityType
<1>12. Cardinality(run) <= size_ + 1
  BY <1>10, <1>11
<1> QED BY <1>7, <1>12

\* What reserve(count) asks for holds count elements without another rehash.
LEMMA ReservedRoom ==
  ASSUME NEW count \in Nat
  PROVE  ~NeedsRehash(ReservedSize(count), count) /\ ReservedSize(0) = 0
<1>1. /\ kSlotsPerBucket \in Nat \ {0}
      /\ full_utilization_numerator \in Nat \ {0} /\ full_utilization_denominator \in Nat \ {0}
  BY SizeAssumption, UtilizationAssumption
<1>2. FullSlots(count) \in Nat
  <2>1. count * full_utilization_denominator \in Nat
    BY <1>1
  <2> QED BY <1>1, <2>1, CeilRange DEF FullSlots
<1>3. /\ ReservedSize(count) \in Nat
      /\ FullSlots(count) <= LogicalSlotCount(ReservedSize(count))
  BY <1>1, <1>2, CeilRange DEF ReservedSize, LogicalSlotCount
<1>4. LogicalSlotCount(ReservedSize(count)) \in Nat
  BY <1>3, SlotCountNat
<1>5. count * full_utilization_denominator
        <= LogicalSlotCount(ReservedSize(count)) * full_utilization_numerator
  BY <1>1, <1>3, <1>4, SlotsSuffice DEF FullSlots
<1>6. /\ count * full_utilization_denominator \in Nat
      /\ LogicalSlotCount(ReservedSize(count)) * full_utilization_numerator \in Nat
  BY <1>1, <1>4
<1>7. ~NeedsRehash(ReservedSize(count), count)
  BY <1>5, <1>6 DEF NeedsRehash
<1>8. ASSUME NEW n \in Nat \ {0} PROVE Ceil(0, n) = 0
  BY <1>8 DEF Ceil
<1>9. ReservedSize(0) = 0
  <2>1. 0 * full_utilization_denominator = 0
    BY <1>1
  <2> QED BY <1>1, <1>8, <2>1 DEF ReservedSize, FullSlots
<1> QED BY <1>7, <1>9

\* A copy starts at the first slot of what it has reserved.
LEMMA StartCopyRoom ==
  ASSUME Working, AtRest, other' = other, StartCopy(other.size_) \/ StartCopy(0),
         Sound(other), Copying'
  PROVE  CopyRoom'
<1>1. ASSUME NEW count, StartCopy(count)
      PROVE  /\ logical_size_' = ReservedSize(count) /\ logical_size_' \in 1 .. MaxLogicalSize
             /\ insert_bucket' = 0 /\ insert_slot' = 0
  <2>1. pc' # "aborted"
    BY DEF Copying
  <2>2. insert_bucket = 0 /\ insert_slot = 0
    BY DEF Working, LocalsReset
  <2> QED BY <1>1, <2>1, <2>2 DEF StartCopy, Abort, target
<1>2. ~StartCopy(0)
  <2>1. 0 \notin 1 .. MaxLogicalSize
    BY SizeAssumption
  <2> QED BY <1>1, <2>1, ReservedRoom
<1>3. other.size_ \in Nat
  BY FS_CardinalityType DEF Sound
<1>4. /\ logical_size_' = ReservedSize(other.size_) /\ logical_size_' \in 1 .. MaxLogicalSize
      /\ insert_bucket' = 0 /\ insert_slot' = 0
  BY <1>1, <1>2
<1>5. ~NeedsRehash(logical_size_', other.size_)
  BY <1>3, <1>4, ReservedRoom
<1>6. CopyPackedFrom(0)'
  <2>1. \A x \in 0 .. 0, s \in SlotNumber : ~(x < 0) /\ ~(s < 0)
    BY SizeAssumption DEF SlotNumber
  <2> QED BY <1>4, <2>1 DEF CopyPackedFrom
<1>7. 0 \in 0 .. logical_size_' - 1
  BY <1>4, SizeAssumption
<1> QED BY <1>5, <1>6, <1>7 DEF CopyRoom, NeedsRehash, LogicalSlotCount

\* The value that a step copies
LEMMA CopiesOne ==
  ASSUME Sound(other), InCopy, CopyScan \/ CopyDrain
  PROVE  \E value \in Values : CopyValue(value)
<1>1. ASSUME CopyFromHeap PROVE \E value \in Values : CopyValue(value)
  <2>1. PICK item \in heap : CopyValue(other.buckets_[item.bucket].slots[item.slot])
    BY <1>1 DEF CopyFromHeap
  <2>2. PICK q : q = <<item.bucket, item.slot>>
    OBVIOUS
  <2>3. q \in Occupied(other.buckets_)
    BY <2>2 DEF HeapSlots, InCopy, CopyLocals
  <2>4. ValueAt(other.buckets_, q) \in Values
    BY <2>3, SourceElement, SourceSound
  <2> QED BY <2>1, <2>2, <2>4 DEF ValueAt
<1>2. CASE CopyDrain
  BY <1>1, <1>2 DEF CopyDrain
<1>3. CASE CopyScan
  <2>1. PICK s \in Least(Copy!OrderedAhead) :
          CopyFromHeap \/ CopyValue(other.buckets_[bucket_number].slots[s])
    BY <1>3 DEF CopyScan
  <2>2. s \in SlotNumber /\ IsNonemptyAndOrdered(other.buckets_[bucket_number].h2[s])
    BY DEF Least, Copy!OrderedAhead, Copy!SlotNumber, SlotNumber, Copy!IsNonemptyAndOrdered,
           IsNonemptyAndOrdered, Copy!kOrderedMask, kOrderedMask
  <2>3. other.buckets_[bucket_number].h2[s] # kEmpty
    BY <2>2 DEF IsNonemptyAndOrdered, kOrderedMask, kEmpty
  <2>4. bucket_number \in 0 .. Copy!SourcePhysical - 1
    <3>1. Copy!SourcePhysical \in Nat
      BY SourceSound
    <3>2. bucket_number \in Nat /\ bucket_number < Copy!SourcePhysical
      BY <1>3 DEF CopyScan, InCopy, CopyLocals
    <3> QED BY <3>1, <3>2
  <2>5. PICK q : q = <<bucket_number, s>>
    OBVIOUS
  <2>6. q \in Occupied(other.buckets_)
    BY <2>2, <2>3, <2>4, <2>5, SourceSound
  <2>7. ValueAt(other.buckets_, q) \in Values
    BY <2>6, SourceElement, SourceSound
  <2> QED BY <1>1, <2>1, <2>5, <2>7 DEF ValueAt
<1> QED BY <1>2, <1>3

\* Every step of a copy keeps its room and its order.
LEMMA NextCopyRoom ==
  ASSUME DistancesInByte, TwoInv, CopyRoom, [TwoNext]_allVars
  PROVE  CopyRoom'
<1> SUFFICES ASSUME Copying' PROVE CopyRoom'
  BY DEF CopyRoom
<1>1. /\ pc \in {"idle", "insert", "collect", "scan"} => Working
      /\ Copying => InCopy
      /\ Sound(other)
  BY WorkingOrCopy DEF TwoInv
<1>2. ~Next
  <2> SUFFICES ASSUME Next PROVE FALSE
    OBVIOUS
  <2>1. Working
    BY <1>1, NextOutsideCopies
  <2>2. Working'
    BY <2>1, NextWorking
  <2>3. pc' \in {"idle", "insert", "collect", "scan", "aborted"}
    BY <2>2 DEF Working, Counted, Shape, TypeOK
  <2> QED BY <2>3 DEF Copying
<1>3. ASSUME pc = "idle", other' = other, StartCopy(other.size_) \/ StartCopy(0)
      PROVE  CopyRoom'
  <2>1. Working /\ AtRest
    BY <1>1, <1>3 DEF AtRest
  <2> QED BY <1>1, <1>3, <2>1, StartCopyRoom
<1>4. CASE TwoCall
  <2>1. ASSUME Return("void") PROVE FALSE
    BY <2>1 DEF Return, Copying
  <2>2. ~SwapTables /\ ~TurnTo
    BY <2>1 DEF SwapTables, TurnTo
  <2>3. CopyConstruct \/ CopyAssign \/ SelfAssign
    BY <1>2, <1>4, <2>2 DEF TwoCall, Next
  <2> QED BY <1>3, <2>3 DEF CopyConstruct, CopyAssign, SelfAssign
<1>5. ASSUME Copying, UNCHANGED <<table, target, other>> PROVE CopyRoom'
  BY <1>5 DEF CopyRoom, CopyPackedFrom, NeedsRehash, LogicalSlotCount, Occupied, Positions,
              MetaAt, table, target
<1>6. CASE CopyCollect \/ CopyNextBucket
  BY <1>5, <1>6 DEF CopyCollect, CopyNextBucket, Copying
<1>7. CASE CopyScan \/ CopyDrain
  <2>1. InCopy /\ Copying /\ other' = other
    BY <1>1, <1>7 DEF CopyScan, CopyDrain, Copying
  <2>2. PICK value \in Values : CopyValue(value)
    BY <1>1, <1>7, <2>1, CopiesOne
  <2>3. ~Copy!InsertOverruns(value) /\ Copy!InsertAscending(value)
    BY <2>2 DEF CopyValue, Copying
  <2>4. PICK b \in 0 .. logical_size_ - 1 : CopyPackedFrom(b)
    BY <2>1 DEF CopyRoom
  <2>5. \E c \in 0 .. logical_size_' - 1 : CopyPackedFrom(c)'
    BY <2>1, <2>3, <2>4, CopyValuePacked DEF InCopy
  <2>6. ~NeedsRehash(logical_size_', other.size_)
    BY <2>1, <2>3, CopyInserts DEF CopyRoom
  <2> QED BY <2>1, <2>5, <2>6 DEF CopyRoom, NeedsRehash, LogicalSlotCount
<1>8. ~FinishCopy
  BY DEF FinishCopy, Return, Copying
<1>9. CASE UNCHANGED allVars
  BY <1>5, <1>9 DEF allVars, vars, Copying
<1> QED BY <1>2, <1>4, <1>6, <1>7, <1>8, <1>9 DEF TwoNext, TwoStep, Next

\* A copy that gives up in a table of at most kMaxExtraBuckets + 1 logical buckets
\* has stored as many elements as its source has, so it has stored some twice.
LEMMA CopyGivesUp ==
  ASSUME TwoInv, CopyRoom, [TwoNext]_allVars, Copying, pc' = "aborted",
         full_utilization_numerator < full_utilization_denominator
  PROVE  logical_size_ > kMaxExtraBuckets + 1 \/ size_ >= other.size_
<1>1. InCopy /\ CopyTarget /\ Sound(other)
  BY WorkingOrCopy DEF TwoInv, InCopy
<1>2. CopyScan \/ CopyDrain
  <2>1. pc \in {"copy collect", "copy scan"} /\ pc' # pc
    BY DEF Copying
  <2>2. ~CopyCollect /\ ~CopyNextBucket /\ ~FinishCopy
    BY DEF CopyCollect, CopyNextBucket, FinishCopy, Return
  <2>3. ~Next
    BY <2>1, NextOutsideCopies
  <2>4. ~TwoCall
    BY <2>1
    DEF TwoCall, Insert, EraseKey, Clear, SwapTables, TurnTo, CopyConstruct, CopyAssign,
        SelfAssign
  <2>5. ~UNCHANGED allVars
    BY <2>1 DEF allVars, vars
  <2> QED BY <2>2, <2>3, <2>4, <2>5 DEF TwoNext, TwoStep, Next
<1>3. PICK value \in Values : CopyValue(value)
  BY <1>1, <1>2, CopiesOne
<1>4. Copy!InsertOverruns(value)
  <2>1. pc' # pc
    BY DEF Copying
  <2> QED BY <1>3, <2>1 DEF CopyValue, Copy!InsertAscending
<1>5. PICK b \in 0 .. logical_size_ - 1 : CopyPackedFrom(b)
  BY DEF CopyRoom
<1>6. size_ + 1 >= (PhysicalSize(logical_size_) - b) * kSlotsPerBucket
  BY <1>1, <1>4, <1>5, CopyOverrunsFull DEF Physical
<1>7. size_ \in Nat /\ other.size_ \in Nat /\ logical_size_ \in Nat \ {0}
      /\ kMaxExtraBuckets \in Nat
  BY <1>1, CopyTargetTyped, SizeAssumption, FS_CardinalityType DEF CopyTarget, Sound
<1>8. SUFFICES ASSUME ~(logical_size_ > kMaxExtraBuckets + 1), ~(size_ >= other.size_)
               PROVE  FALSE
  OBVIOUS
<1>9. logical_size_ \in 1 .. kMaxExtraBuckets + 1
  BY <1>7, <1>8
<1>10. PICK slots \in Int : slots = (PhysicalSize(logical_size_) - b) * kSlotsPerBucket
  BY <1>7, PhysicalRange, SizeAssumption
<1>11. other.size_ >= slots
  BY <1>6, <1>7, <1>8, <1>10
<1>12. NeedsRehash(logical_size_, other.size_)
  BY <1>7, <1>9, <1>10, <1>11, SlotsExceedLoad
<1> QED BY <1>12 DEF CopyRoom

\* What a copy reserves is enough in small tables, wherever the elements crowd and
\* though a copy cannot grow: it runs out of buckets there only because some
\* elements are pushed twice.
THEOREM SmallCopiesHaveRoom ==
  ASSUME OneHasher, full_utilization_numerator < full_utilization_denominator
  PROVE  TwoSpec /\ []DistancesInByte /\ []CopiesInByte => SmallCopiesFit
<1>1. TwoInit => CopyRoom
  BY DEF TwoInit, Init, CopyRoom, Copying
<1>2. DistancesInByte /\ TwoInv /\ CopyRoom /\ [TwoNext]_allVars => CopyRoom'
  BY NextCopyRoom
<1>3. TwoInv /\ CopyRoom /\ [TwoNext]_allVars =>
        [Copying /\ pc' = "aborted" =>
           \/ logical_size_ > kMaxExtraBuckets + 1
           \/ size_ >= other.size_]_allVars
  BY CopyGivesUp
<1> QED BY <1>1, <1>2, <1>3, TwoInvariant, PTL DEF TwoSpec, SmallCopiesFit

-----------------------------------------------------------------------------
(* Two small tables *)

\* In tables that never have more than 255 buckets no distance outgrows its byte.
LEMMA TwoSmallDistances ==
  ASSUME DistancesFit, TwoInv
  PROVE  DistancesInByte /\ CopiesInByte
<1>1. DistancesInByte
  <2>1. CASE Rehashing
    <3>1. Working
      BY <2>1, WorkingOrCopy DEF Rehashing
    <3> QED BY <3>1, SmallDistances DEF Working, Counted
  <2>2. CASE ~Rehashing
    BY <2>2 DEF DistancesInByte
  <2> QED BY <2>1, <2>2
<1>2. ASSUME Copying, NEW value \in Owned(other)
      PROVE  insert_bucket < H1(HashOf(value), logical_size_) + kSearchDistanceEndSentinal
  <2>1. CopyTarget /\ value \in Values
    BY <1>2, WorkingOrCopy, SourceSound DEF TwoInv, InCopy
  <2>2. /\ logical_size_ \in Nat \ {0} /\ Physical \in Nat
        /\ insert_bucket \in 0 .. Physical - 1
        /\ Preferred(value) \in 0 .. logical_size_ - 1
    BY <2>1, CopyTargetTyped
  <2>3. Physical <= kSearchDistanceEndSentinal
    <3>1. logical_size_ \in 0 .. MaxLogicalSize
      BY <2>1, SizeAssumption DEF CopyTarget
    <3> QED BY <3>1 DEF DistancesFit, Physical
  <2>4. Preferred(value) = H1(HashOf(value), logical_size_)
    BY DEF Preferred
  <2> HIDE DEF Physical, Preferred
  <2> QED BY <2>2, <2>3, <2>4, SizeAssumption
<1> QED BY <1>1, <1>2 DEF CopiesInByte

\* There both tables stay searchable, and copies complete, without further
\* hypotheses.
THEOREM TwoSmallTablesCorrect ==
  ASSUME OneHasher, DistancesFit
  PROVE  TwoSpec => []BothWithinSearchDistance /\ CopyFindsAll
<1>1. TwoInit => TwoInv
  BY TwoInitInv
<1>2. TwoInv => DistancesInByte /\ CopiesInByte
  BY TwoSmallDistances
<1>3. DistancesInByte /\ CopiesInByte /\ TwoInv /\ [TwoNext]_allVars => TwoInv'
  BY TwoNextInv
<1>4. TwoSpec => []TwoInv
  BY <1>1, <1>2, <1>3, PTL DEF TwoSpec
<1> QED BY <1>2, <1>4, BothTablesSearchable, CopiesFindAll, PTL
===============================================================================
