------------------------- MODULE HashTableRehashProofs -------------------------
(***************************************************************************)
(* Proofs about what a call or a rehash does from its beginning to its     *)
(* end: where the elements stay, that the table has grown enough, what a   *)
(* rehash leaves of search distances and tombstones, and that the probe    *)
(* statistics are those of the calls to come.                              *)
(***************************************************************************)
EXTENDS HashTableOrderProofs, ProbeStatistics

-----------------------------------------------------------------------------
(* Positions *)

\* Between two states at rest the elements change by at most one, at one place,
\* unless clear() frees the buckets.
LEMMA RestEffects ==
  ASSUME Shape, [Next]_vars, AtRest, AtRest', logical_size_' # 0
  PROVE  \/ UNCHANGED buckets_
         \/ \E p, meta_byte, value : Adds(buckets_, buckets_', p, meta_byte, value)
         \/ result' = "erased" /\ \E p \in Occupied(buckets_) : EraseAt(p)
<1>1. ASSUME NEW slot_count, StartRehash(slot_count) PROVE FALSE
  BY <1>1 DEF StartRehash, Abort, AtRest
<1>2. ASSUME NEW value \in Values, Insert(value) PROVE UNCHANGED buckets_
  BY <1>1, <1>2 DEF Insert, table
<1>3. ASSUME NEW key \in Keys, EraseKey(key)
      PROVE  UNCHANGED buckets_
             \/ (result' = "erased" /\ \E p \in Occupied(buckets_) : EraseAt(p))
  BY <1>3, FindOccupied DEF EraseKey, Return, table
<1>4. ASSUME NEW p \in (DOMAIN buckets_) \X SlotNumber, EraseIterator(p)
      PROVE  result' = "erased" /\ \E q \in Occupied(buckets_) : EraseAt(q)
  BY <1>4, IteratorOccupied DEF EraseIterator, Return
<1>5. CASE Clear
  BY <1>5 DEF Clear
<1>6. ASSUME NEW count \in ReserveCounts, Reserve(count) PROVE UNCHANGED buckets_
  BY <1>1, <1>6 DEF Reserve, table
<1>7. ASSUME NEW count \in RehashCounts, Rehash(count) PROVE FALSE
  BY <1>1, <1>7 DEF Rehash
<1>8. CASE PlaceValue
  BY <1>8, PlaceValueAdds DEF table
<1>9. CASE GetDisorderedValues \/ ScanBucket \/ NextBucket \/ DrainHeap \/ FinishRehash
  BY <1>9 DEF GetDisorderedValues, ScanBucket, NextBucket, DrainHeap, FinishRehash, AtRest
<1>10. CASE UNCHANGED vars
  BY <1>10 DEF vars, table
<1> QED BY <1>2, <1>3, <1>4, <1>5, <1>6, <1>7, <1>8, <1>9, <1>10 DEF Next, Step

\* Pointers and iterators to elements survive every call that does not rehash,
\* clear() aside: only an erase takes an element away, and only one.
THEOREM PositionsStable == Spec => StablePositions
<1>1. Shape /\ Shape' /\ [Next]_vars =>
        (AtRest /\ AtRest' /\ logical_size_' # 0 =>
           LET gone == {p \in Constructed(buckets_) :
                          ValueAt(buckets_', p) # ValueAt(buckets_, p)}
           IN  /\ gone # {} => result' = "erased"
               /\ \A p, q \in gone : p = q /\ ValueAt(buckets_', p) = NoValue)
  <2> SUFFICES ASSUME Shape, Shape', [Next]_vars, AtRest, AtRest', logical_size_' # 0
               PROVE  LET gone == {p \in Constructed(buckets_) :
                                     ValueAt(buckets_', p) # ValueAt(buckets_, p)}
                      IN  /\ gone # {} => result' = "erased"
                          /\ \A p, q \in gone : p = q /\ ValueAt(buckets_', p) = NoValue
    OBVIOUS
  <2>1. Constructed(buckets_) = Occupied(buckets_)
    BY ConstructedOccupied DEF Shape, NewInv
  <2>2. CASE UNCHANGED buckets_
    BY <2>2
  <2>3. CASE \E p, meta_byte, value : Adds(buckets_, buckets_', p, meta_byte, value)
    BY <2>1, <2>3 DEF Adds, Keeps
  <2>4. CASE result' = "erased" /\ \E p \in Occupied(buckets_) : EraseAt(p)
    <3>1. PICK p \in Occupied(buckets_) : EraseAt(p)
      BY <2>4
    <3>2. \A q \in Occupied(buckets_) : q # p => ValueAt(buckets_', q) = ValueAt(buckets_, q)
      BY <3>1, EraseAtRemoves DEF Removes, Keeps
    <3>3. ValueAt(buckets_', p) = NoValue
      <4>1. /\ buckets_ \in [0 .. Physical - 1 -> Bucket] /\ p[1] \in 0 .. Physical - 1
            /\ p[2] \in SlotNumber
        BY AtRestShape, OccupiedPair
        DEF Consistent, Shape, TypeOK, BucketsTyped, Physical
      <4>2. buckets_' = [buckets_ EXCEPT ![p[1]].h2[p[2]] = kEmpty,
                                         ![p[1]].slots[p[2]] = NoValue]
        BY <3>1 DEF EraseAt
      <4> QED BY <4>1, <4>2 DEF Bucket, ValueAt
    <3> QED BY <2>1, <2>4, <3>2, <3>3
  <2> QED BY <2>2, <2>3, <2>4, RestEffects
<1> QED BY <1>1, ShapeInvariant, PTL DEF Spec, StablePositions

-----------------------------------------------------------------------------
(* Capacity *)

\* Rounding up divides to no less.
LEMMA CeilRange ==
  ASSUME NEW a \in Nat, NEW b \in Nat \ {0}
  PROVE  /\ Ceil(a, b) \in Nat
         /\ a <= Ceil(a, b) * b
         /\ a > 0 => Ceil(a, b) > 0
<1>1. PICK q \in Int : q = (a + b - 1) \div b
  OBVIOUS
<1>2. b * q <= a + b - 1 /\ a + b - 1 < b * q + b
  BY <1>1
<1>3. b * q + b > 0
  BY <1>2
<1>4. q + 1 > 0
  <2>1. b * (q + 1) > 0
    BY <1>3
  <2> QED BY <2>1
<1>5. q \in Nat /\ a <= q * b
  BY <1>2, <1>4
<1>6. a > 0 => q > 0
  BY <1>5
<1> QED BY <1>1, <1>5, <1>6 DEF Ceil

\* The slots of an array are a natural number.
LEMMA SlotCountNat ==
  ASSUME NEW n \in Nat
  PROVE  LogicalSlotCount(n) \in Nat
BY SizeAssumption DEF LogicalSlotCount

\* A rehash to slot_count slots makes room for that many.
LEMMA StartRehashRoom ==
  ASSUME NEW slot_count \in Nat \ {0}, StartRehash(slot_count), pc' # "aborted"
  PROVE  /\ logical_size_' \in Nat
         /\ slot_count <= LogicalSlotCount(logical_size_')
         /\ size_' = 0 /\ source' = buckets_
<1>1. logical_size_' = Ceil(slot_count, kSlotsPerBucket) /\ size_' = 0 /\ source' = buckets_
  BY DEF StartRehash, Abort
<1> QED BY <1>1, CeilRange, SizeAssumption DEF LogicalSlotCount

\* Scaling both sides of a comparison
LEMMA Scaled ==
  ASSUME NEW a \in Nat, NEW b \in Nat, NEW c \in Nat, a <= b
  PROVE  a * c <= b * c
OBVIOUS

\* The slots for n elements at a utilisation of num / den are enough for them.
LEMMA SlotsSuffice ==
  ASSUME NEW n \in Nat, NEW num \in Nat \ {0}, NEW den \in Nat \ {0},
         NEW slots \in Nat, Ceil(n * den, num) <= slots
  PROVE  n * den <= slots * num
<1>1. PICK m \in Nat : m = n * den
  OBVIOUS
<1>2. PICK c \in Nat : c = Ceil(m, num) /\ m <= c * num
  BY CeilRange
<1>3. c * num <= slots * num
  BY <1>1, <1>2, Scaled
<1>4. c * num \in Nat /\ slots * num \in Nat
  OBVIOUS
<1> QED BY <1>1, <1>2, <1>3, <1>4

\* A growing insert makes room for the values and the new one.
LEMMA InsertRoom ==
  ASSUME Counted, Shape', NEW value \in Values, Insert(value)
  PROVE  RoomForCall'
<1>1. Shape /\ CountInv /\ AtRest
  BY DEF Counted, Insert, AtRest
<1>2. CASE ~Rehashing'
  BY <1>2 DEF RoomForCall
<1>3. CASE Rehashing'
  <2>1. /\ StartRehash(RehashedSlots(size_ + 1)) /\ pc' # "aborted"
        /\ call' = [op |-> "insert", value |-> value, count |-> 0]
    BY <1>3 DEF Insert, Rehashing
  <2>2. size_ + 1 \in Nat \ {0} /\ size_ \in Nat
    BY <1>1 DEF Shape, TypeOK
  <2>3. RehashedSlots(size_ + 1) \in Nat \ {0}
    <3>1. (size_ + 1) * rehashed_utilization_denominator \in Nat \ {0}
      BY <2>2, UtilizationAssumption
    <3> QED BY <3>1, CeilRange, UtilizationAssumption DEF RehashedSlots
  <2>4. /\ logical_size_' \in Nat
        /\ RehashedSlots(size_ + 1) <= LogicalSlotCount(logical_size_')
        /\ size_' = 0 /\ source' = buckets_
    BY <2>1, <2>3, StartRehashRoom
  <2>5. (size_ + 1) * rehashed_utilization_denominator
          <= LogicalSlotCount(logical_size_') * rehashed_utilization_numerator
    <3>1. LogicalSlotCount(logical_size_') \in Nat
      BY <2>4, SlotCountNat
    <3> QED BY <2>2, <2>4, <3>1, SlotsSuffice, UtilizationAssumption DEF RehashedSlots
  <2>6. IsFiniteSet(Constructed(buckets_)) /\ Cardinality(Constructed(buckets_)) = size_
    BY <1>1, ConstructedOccupied DEF Shape, NewInv, CountInv, SizeIsCount
  <2>7. size_' + Cardinality(Constructed(source')) + 1 = size_ + 1
    BY <2>2, <2>4, <2>6
  <2>8. IsFiniteSet(Constructed(source'))
    BY <2>4, <2>6
  <2> QED BY <2>1, <2>5, <2>7, <2>8 DEF RoomForCall, Constructed, Positions, ValueAt
<1> QED BY <1>2, <1>3

\* reserve(count) makes room for count elements.
LEMMA ReserveRoom ==
  ASSUME Counted, Shape', NEW count \in ReserveCounts, Reserve(count)
  PROVE  RoomForCall'
<1> DEFINE slots == MaxOf(FullSlots(count), Ceil(LogicalSlotCount(logical_size_) * 8, 7))
<1>1. Shape /\ CountInv /\ AtRest /\ count \in Nat /\ logical_size_ \in Nat
  BY CountsAssumption, SizeAssumption DEF Counted, Reserve, AtRest, Shape, TypeOK
<1>2. CASE ~Rehashing'
  BY <1>2 DEF RoomForCall
<1>3. CASE Rehashing'
  <2>1. /\ NeedsRehash(logical_size_, count) /\ StartRehash(slots) /\ pc' # "aborted"
        /\ call' = [op |-> "reserve", value |-> NoValue, count |-> count]
    BY <1>3 DEF Reserve, Return, Rehashing
  <2>2. LogicalSlotCount(logical_size_) \in Nat
    BY <1>1, SizeAssumption DEF LogicalSlotCount
  <2>3. count # 0
    <3>1. LogicalSlotCount(logical_size_) * full_utilization_numerator \in Nat
      BY <2>2, UtilizationAssumption
    <3> QED BY <2>1, <3>1, UtilizationAssumption DEF NeedsRehash
  <2>4. FullSlots(count) \in Nat \ {0}
    <3>1. count * full_utilization_denominator \in Nat \ {0}
      BY <1>1, <2>3, UtilizationAssumption
    <3> QED BY <3>1, CeilRange, UtilizationAssumption DEF FullSlots
  <2>5. slots \in Nat \ {0} /\ FullSlots(count) <= slots
    <3>1. Ceil(LogicalSlotCount(logical_size_) * 8, 7) \in Nat
      BY <2>2, CeilRange
    <3> QED BY <2>4, <3>1 DEF MaxOf
  <2> HIDE DEF slots
  <2>6. /\ logical_size_' \in Nat
        /\ slots <= LogicalSlotCount(logical_size_')
        /\ source' = buckets_
    BY <2>1, <2>5, StartRehashRoom
  <2>7. PICK room \in Nat : room = LogicalSlotCount(logical_size_')
    BY <2>6, SlotCountNat
  <2>8. FullSlots(count) <= room
    BY <2>4, <2>5, <2>6, <2>7
  <2>9. count * full_utilization_denominator <= room * full_utilization_numerator
    BY <1>1, <2>7, <2>8, SlotsSuffice, UtilizationAssumption DEF FullSlots
  <2>10. ~(room * full_utilization_numerator < count * full_utilization_denominator)
    <3>1. count * full_utilization_denominator \in Nat /\ room * full_utilization_numerator \in Nat
      BY <1>1, UtilizationAssumption
    <3> QED BY <2>9, <3>1
  <2>11. ~NeedsRehash(logical_size_', count)
    BY <2>7, <2>10 DEF NeedsRehash
  <2>12. IsFiniteSet(Constructed(source'))
    BY <1>1, <2>6, ConstructedOccupied DEF Shape, NewInv, CountInv
  <2> QED BY <2>1, <2>11, <2>12 DEF RoomForCall, Constructed, Positions, ValueAt, NeedsRehash
<1> QED BY <1>2, <1>3

\* A step of a rehash that moves a value: it gives up, or inserts a value it has
\* taken out of the source.
LEMMA RehashMoves ==
  ASSUME Shape, ScanBucket \/ DrainHeap
  PROVE  /\ Rehashing /\ UNCHANGED <<call, hasher>>
         /\ \/ pc' = "aborted"
            \/ \E value \in Values : \E q :
                 /\ ~InsertOverruns(value) /\ InsertAscending(value)
                 /\ Takes(source, source', q) /\ ValueAt(source, q) = value
<1>1. Rehashing /\ UNCHANGED <<call, hasher>>
  BY DEF ScanBucket, DrainHeap, Rehashing
<1>2. ASSUME InsertFromHeap, pc' # "aborted"
      PROVE  \E value \in Values : \E q :
               /\ ~InsertOverruns(value) /\ InsertAscending(value)
               /\ Takes(source, source', q) /\ ValueAt(source, q) = value
  <2>1. PICK item \in heap :
          LET value == source[item.bucket].slots[item.slot]
          IN  /\ value \in Values /\ ~InsertOverruns(value) /\ InsertAscending(value)
              /\ source' = [source EXCEPT ![item.bucket].slots[item.slot] = NoValue]
    BY <1>2, InsertFromHeapMoves
  <2>2. /\ Takes(source, source', <<item.bucket, item.slot>>)
        /\ ValueAt(source, <<item.bucket, item.slot>>) = source[item.bucket].slots[item.slot]
    BY <2>1, MoveFromHeapTakes
  <2> QED BY <2>1, <2>2
<1>3. ASSUME NEW s \in SlotNumber,
             LET value == source[bucket_number].slots[s]
             IN  /\ bucket_number \in DOMAIN source
                 /\ source[bucket_number].h2[s] # kEmpty
                 /\ value \in Values /\ ~InsertOverruns(value) /\ InsertAscending(value)
                 /\ source' = [source EXCEPT ![bucket_number].slots[s] = NoValue,
                                             ![bucket_number].h2[s] = kEmpty]
      PROVE  \E value \in Values : \E q :
               /\ ~InsertOverruns(value) /\ InsertAscending(value)
               /\ Takes(source, source', q) /\ ValueAt(source, q) = value
  <2>1. PICK b \in DOMAIN source : b = bucket_number
    BY <1>3
  <2>2. /\ Takes(source, source', <<b, s>>)
        /\ ValueAt(source, <<b, s>>) = source[b].slots[s]
    BY <1>3, <2>1, MoveFromSlotTakes
  <2> QED BY <1>3, <2>1, <2>2
<1>4. CASE ScanBucket
  BY <1>1, <1>2, <1>3, <1>4, ScanBucketMoves
<1>5. CASE DrainHeap
  BY <1>1, <1>2, <1>5 DEF DrainHeap
<1> QED BY <1>4, <1>5

\* Moving a value leaves the number of values to hold as it is.
LEMMA MoveRoom ==
  ASSUME Counted, RoomForCall, Rehashing, UNCHANGED <<call, logical_size_>>,
         size_' = size_ + 1, NEW q, Takes(source, source', q)
  PROVE  RoomForCall'
<1>1. PICK held : held = Constructed(source)
  OBVIOUS
<1>2. PICK left : left = Constructed(source')
  OBVIOUS
<1>3. IsFiniteSet(held) /\ q \in held /\ left = held \ {q}
  BY <1>1, <1>2 DEF RoomForCall, Takes
<1>4. /\ IsFiniteSet(left) /\ Cardinality(left) = Cardinality(held) - 1
      /\ Cardinality(held) \in Nat
  BY <1>3, FS_RemoveElement, FS_CardinalityType
<1>5. size_' + Cardinality(left) + 1 = size_ + Cardinality(held) + 1
  BY <1>4 DEF Counted, Shape, TypeOK
<1>6. call.op = "insert" =>
        (size_' + Cardinality(left) + 1) * rehashed_utilization_denominator
          <= LogicalSlotCount(logical_size_') * rehashed_utilization_numerator
  BY <1>1, <1>5 DEF RoomForCall
<1>7. call.op = "reserve" => ~NeedsRehash(logical_size_', call.count)
  BY DEF RoomForCall
<1>8. Constructed(source)' = left
  BY <1>2 DEF Constructed, Positions, ValueAt
<1> QED BY <1>4, <1>6, <1>7, <1>8 DEF RoomForCall

\* A step that moves no value leaves the room as it is.
LEMMA RoomUnchanged ==
  ASSUME RoomForCall, Rehashing' => Rehashing, UNCHANGED <<call, size_, logical_size_>>,
         Constructed(source') = Constructed(source)
  PROVE  RoomForCall'
<1>1. Constructed(source)' = Constructed(source)
  BY DEF Constructed, Positions, ValueAt
<1> QED BY <1>1 DEF RoomForCall

\* Every step keeps the room that the call in progress needs.
LEMMA NextRoom == Counted /\ RoomForCall /\ [Next]_vars => RoomForCall'
<1> SUFFICES ASSUME Counted, RoomForCall, [Next]_vars PROVE RoomForCall'
  OBVIOUS
<1>1. Shape /\ Shape'
  BY NextShape DEF Counted
<1>2. ASSUME ~Rehashing' PROVE RoomForCall'
  BY <1>2 DEF RoomForCall
<1>3. ASSUME NEW value \in Values, Insert(value) PROVE RoomForCall'
  BY <1>1, <1>3, InsertRoom
<1>4. ASSUME NEW key \in Keys, EraseKey(key) PROVE RoomForCall'
  BY <1>2, <1>4 DEF EraseKey, Return, Rehashing
<1>5. ASSUME NEW p \in (DOMAIN buckets_) \X SlotNumber, EraseIterator(p) PROVE RoomForCall'
  BY <1>2, <1>5 DEF EraseIterator, Return, Rehashing
<1>6. CASE Clear \/ PlaceValue \/ FinishRehash
  BY <1>2, <1>6 DEF Clear, PlaceValue, FinishRehash, Return, Rehashing
<1>7. ASSUME NEW count \in ReserveCounts, Reserve(count) PROVE RoomForCall'
  BY <1>1, <1>7, ReserveRoom
<1>8. ASSUME NEW count \in RehashCounts, Rehash(count) PROVE RoomForCall'
  <2>1. CASE ~Rehashing'
    BY <1>2, <2>1
  <2>2. CASE Rehashing'
    <3>1. source' = buckets_ /\ call'.op = "rehash"
      BY <1>8, <2>2, <1>1, StartRehashEmpties DEF Rehash, Rehashing
    <3>2. AtRest
      BY <1>8 DEF Rehash, AtRest
    <3>3. IsFiniteSet(Constructed(source'))
      BY <1>1, <3>1, <3>2, ConstructedOccupied DEF Counted, CountInv, Shape, NewInv
    <3>4. Constructed(source)' = Constructed(source')
      BY DEF Constructed, Positions, ValueAt
    <3> QED BY <3>1, <3>3, <3>4 DEF RoomForCall
  <2> QED BY <2>1, <2>2
<1>9. CASE ScanBucket \/ DrainHeap
  <2>1. CASE pc' = "aborted"
    BY <1>2, <2>1 DEF Rehashing
  <2>2. CASE \E value \in Values : \E q : InsertAscending(value) /\ Takes(source, source', q)
    BY <1>1, <1>9, <2>2, RehashMoves, MoveRoom DEF InsertAscending
  <2> QED BY <1>1, <1>9, <2>1, <2>2, RehashMoves
<1>10. CASE GetDisorderedValues
  BY <1>1, <1>10, GetDisorderedValuesKeeps, RoomUnchanged DEF GetDisorderedValues, table, Rehashing
<1>11. CASE NextBucket
  BY <1>11, RoomUnchanged DEF NextBucket, table, Rehashing
<1>12. CASE UNCHANGED vars
  <2>1. UNCHANGED <<pc, call, size_, logical_size_, source>>
    BY <1>12 DEF vars, table, scan
  <2> QED BY <2>1, RoomUnchanged DEF Rehashing
<1> QED
  BY <1>3, <1>4, <1>5, <1>6, <1>7, <1>8, <1>9, <1>10, <1>11, <1>12 DEF Next, Step

\* Whatever the call in progress needs, the table a rehash fills has room for.
THEOREM RoomInvariant == Spec => []RoomForCall
<1>1. Init => RoomForCall
  BY DEF Init, RoomForCall, Rehashing
<1> QED BY <1>1, NextRoom, CountedInvariant, PTL DEF Spec

\* An insert that grows the table leaves it no fuller than the rehashed
\* utilisation: the next rehash is a constant fraction of inserts away.

\* A rehash ends in FinishRehash, or with a failed assert.
LEMMA RehashEnds ==
  ASSUME Shape, [Next]_vars, Rehashing, pc' \in {"idle", "insert"}
  PROVE  FinishRehash
<1>1. ASSUME InsertFromHeap PROVE pc' \in {pc, "aborted"}
  BY <1>1 DEF InsertFromHeap, InsertAscending
<1>2. CASE ScanBucket \/ DrainHeap
  BY <1>1, <1>2 DEF ScanBucket, DrainHeap, InsertAscending, Rehashing
<1>3. CASE GetDisorderedValues \/ NextBucket
  BY <1>3 DEF GetDisorderedValues, NextBucket
<1>4. CASE UNCHANGED vars
  BY <1>4 DEF vars, Rehashing
<1>5. ~Clear /\ ~PlaceValue
  BY DEF Clear, PlaceValue, Rehashing
<1>6. \A value \in Values : ~Insert(value)
  BY DEF Insert, Rehashing
<1>7. \A key \in Keys : ~EraseKey(key)
  BY DEF EraseKey, Rehashing
<1>8. \A p \in (DOMAIN buckets_) \X SlotNumber : ~EraseIterator(p)
  BY DEF EraseIterator, Rehashing
<1>9. \A count \in ReserveCounts : ~Reserve(count)
  BY DEF Reserve, Rehashing
<1>10. \A count \in RehashCounts : ~Rehash(count)
  BY DEF Rehash, Rehashing
<1> QED
  BY <1>2, <1>3, <1>4, <1>5, <1>6, <1>7, <1>8, <1>9, <1>10 DEF Next, Step

\* An insert that grows the table leaves it no fuller than the rehashed
\* utilisation: the next rehash is a constant fraction of inserts away.
THEOREM GrowthLeavesRoom == Spec => GrowthAmortized
<1>1. Shape /\ RoomForCall /\ [Next]_vars =>
        (call.op = "insert" /\ pc = "collect" /\ pc' = "insert" =>
           (size_' + 1) * rehashed_utilization_denominator
             <= LogicalSlotCount(logical_size_') * rehashed_utilization_numerator)
  <2> SUFFICES ASSUME Shape, RoomForCall, [Next]_vars,
                      call.op = "insert", pc = "collect", pc' = "insert"
               PROVE  (size_' + 1) * rehashed_utilization_denominator
                        <= LogicalSlotCount(logical_size_') * rehashed_utilization_numerator
    OBVIOUS
  <2>1. Rehashing /\ UNCHANGED <<size_, logical_size_>>
    BY RehashEnds DEF Rehashing, FinishRehash
  <2>2. PICK room : room = LogicalSlotCount(logical_size_) * rehashed_utilization_numerator
    OBVIOUS
  <2>3. PICK left : left = Cardinality(Constructed(source)) /\ left \in Nat
    BY <2>1, FS_CardinalityType DEF RoomForCall
  <2>4. (size_ + left + 1) * rehashed_utilization_denominator <= room
    BY <2>1, <2>2, <2>3 DEF RoomForCall
  <2>5. size_ \in Nat /\ logical_size_ \in Nat
    BY SizeAssumption DEF Shape, TypeOK
  <2>6. room \in Nat
    BY <2>2, <2>5, SlotCountNat, UtilizationAssumption
  <2>7. PICK fewer \in Nat : fewer = size_ + 1
    BY <2>5
  <2>8. PICK more \in Nat : more = size_ + left + 1
    BY <2>3, <2>5
  <2>9. fewer * rehashed_utilization_denominator <= more * rehashed_utilization_denominator
    BY <2>3, <2>5, <2>7, <2>8, Scaled, UtilizationAssumption
  <2>10. more * rehashed_utilization_denominator <= room
    BY <2>4, <2>8
  <2>11. /\ fewer * rehashed_utilization_denominator \in Nat
         /\ more * rehashed_utilization_denominator \in Nat
    BY UtilizationAssumption
  <2>12. fewer * rehashed_utilization_denominator <= room
    BY <2>6, <2>9, <2>10, <2>11
  <2> QED BY <2>1, <2>2, <2>7, <2>12
<1> QED BY <1>1, ShapeInvariant, RoomInvariant, PTL DEF Spec, GrowthAmortized

\* After reserve(count) none of the inserts up to count elements rehashes.
THEOREM ReserveCorrect == Spec => ReserveSuffices
<1>1. Shape /\ NoCallIdle /\ RoomForCall /\ [Next]_vars =>
        (call.op = "reserve" /\ pc' = "idle" => ~NeedsRehash(logical_size_', call.count))
  <2> SUFFICES ASSUME Shape, NoCallIdle, RoomForCall, [Next]_vars,
                      call.op = "reserve", pc' = "idle"
               PROVE  ~NeedsRehash(logical_size_', call.count)
    OBVIOUS
  <2>1. pc # "idle" /\ pc # "insert"
    BY DEF NoCallIdle, Idle, Shape, CallInv
  <2>2. CASE Rehashing
    <3>1. logical_size_' = logical_size_
      BY <2>2, RehashEnds DEF FinishRehash
    <3> QED BY <2>2, <3>1 DEF RoomForCall
  <2>3. CASE pc = "aborted"
    <3>1. /\ ~Clear /\ ~PlaceValue /\ ~GetDisorderedValues /\ ~ScanBucket
          /\ ~NextBucket /\ ~DrainHeap /\ ~FinishRehash
      BY <2>3 DEF Clear, PlaceValue, GetDisorderedValues, ScanBucket, NextBucket,
                  DrainHeap, FinishRehash
    <3>2. \A value \in Values : ~Insert(value)
      BY <2>3 DEF Insert
    <3>3. \A key \in Keys : ~EraseKey(key)
      BY <2>3 DEF EraseKey
    <3>4. \A p \in (DOMAIN buckets_) \X SlotNumber : ~EraseIterator(p)
      BY <2>3 DEF EraseIterator
    <3>5. \A count \in ReserveCounts : ~Reserve(count)
      BY <2>3 DEF Reserve
    <3>6. \A count \in RehashCounts : ~Rehash(count)
      BY <2>3 DEF Rehash
    <3>7. pc' = pc
      BY <3>1, <3>2, <3>3, <3>4, <3>5, <3>6 DEF Next, Step, vars
    <3> QED BY <2>3, <3>7
  <2> QED BY <2>1, <2>2, <2>3 DEF Shape, TypeOK, Rehashing
<1>2. Init => NoCallIdle
  BY DEF Init, NoCallIdle
<1> QED BY <1>1, <1>2, ShapeInvariant, RoomInvariant, NextNoCallIdle, PTL
        DEF Spec, ReserveSuffices

-----------------------------------------------------------------------------
(* Tombstones *)

\* An ascending insert leaves the tombstone of each bucket it opens, and goes on
\* behind one.
LEMMA InsertAscendingTombstones ==
  ASSUME Shape, Rehashing, TombstonesKept, NEW value \in Values,
         ~InsertOverruns(value), InsertAscending(value)
  PROVE  TombstonesKept'
<1> DEFINE h1 == Preferred(value)
           b == At(value)[1]
           s == At(value)[2]
           next == NextAt(value)
           opened == Opened(value)
<1>1. /\ b \in 0 .. Physical - 1 /\ s \in SlotNumber
      /\ next[1] \in 0 .. Physical - 1 /\ next[2] \in SlotNumber
      /\ h1 \in 0 .. Physical - 1 /\ opened[b] \in Bucket
      /\ \A x \in 0 .. Physical - 1 :
           /\ opened[x] = IF insert_bucket + 1 <= x /\ x <= next[1] THEN InitBucket
                          ELSE buckets_[x]
           /\ opened[x] # Uninitialized => Consistent(opened[x])
      /\ Stores(Physical, opened, h1, b, s, OrderedByte(value), value, buckets_')
      /\ insert_bucket' = next[1] /\ insert_slot' = next[2]
  BY InsertAscendingStores
<1>2. /\ Physical \in Nat /\ insert_bucket \in 0 .. Physical - 1 /\ insert_slot \in SlotNumber
      /\ \A x \in 0 .. Physical - 1 : (buckets_[x] = Uninitialized) <=> (x > insert_bucket)
  BY RehashingShape
<1>3. Physical' = Physical
  BY DEF InsertAscending, Physical
<1>4. \A y \in SlotNumber : InitBucket.h2[y] = kEmpty
  BY DEF InitBucket
<1>5. b # 0 => FirstSlot(b) <= s
  <2>1. CASE insert_bucket < h1
    <3>1. b = h1 /\ s = FirstSlot(h1)
      BY <2>1 DEF At, InsertTarget
    <3> QED BY <3>1, FirstSlotRange, SizeAssumption DEF SlotNumber
  <2>2. CASE ~(insert_bucket < h1)
    <3>1. b = insert_bucket /\ s = insert_slot
      BY <2>2 DEF At, InsertTarget
    <3> QED BY <3>1 DEF TombstonesKept
  <2> QED BY <2>1, <2>2
<1>6. next = NextTarget(b, s)
  BY DEF NextAt
<1> HIDE DEF h1, b, s, next, opened
<1>7. insert_bucket' # 0 => FirstSlot(insert_bucket') <= insert_slot'
  <2>1. CASE s + 1 = kSlotsPerBucket
    <3>1. insert_bucket' = b + 1 /\ insert_slot' = FirstSlot(b + 1)
      BY <1>1, <1>6, <2>1 DEF NextTarget
    <3>2. FirstSlot(b + 1) \in Int
      BY FirstSlotRange, SizeAssumption DEF SlotNumber
    <3> QED BY <3>1, <3>2
  <2>2. CASE s + 1 # kSlotsPerBucket
    <3>1. insert_bucket' = b /\ insert_slot' = s + 1
      BY <1>1, <1>6, <2>2 DEF NextTarget
    <3>2. FirstSlot(b) \in Int /\ s \in Int
      BY <1>1, FirstSlotRange, SizeAssumption DEF SlotNumber
    <3> QED BY <1>5, <3>1, <3>2
  <2> QED BY <2>1, <2>2
<1>8. ASSUME NEW t \in 1 .. Physical - 1, buckets_'[t] # Uninitialized, BucketGetsTombstone(t)
      PROVE  buckets_'[t].h2[0] = kEmpty
  <2>1. t \in 0 .. Physical - 1 /\ 0 \in SlotNumber
    BY <1>2, SizeAssumption DEF SlotNumber
  <2>2. opened[t] # Uninitialized
    BY <1>1, <1>8, <2>1 DEF Stores
  <2>3. opened[t].h2[0] = kEmpty
    BY <1>1, <1>2, <1>4, <1>8, <2>1, <2>2 DEF TombstonesKept
  <2>4. CASE t # b
    <3>1. opened[t] \in Bucket
      BY <1>1, <2>1, <2>2 DEF Consistent
    <3> QED BY <1>1, <2>1, <2>3, <2>4, <3>1 DEF Stores
  <2>5. CASE t = b
    <3>1. s # 0
      BY <1>5, <1>8, <2>5 DEF FirstSlot
    <3>2. buckets_'[b].h2 = [opened[b].h2 EXCEPT ![s] = OrderedByte(value)]
      BY <1>1 DEF Stores
    <3> QED BY <1>1, <2>1, <2>3, <2>5, <3>1, <3>2 DEF Bucket
  <2> QED BY <2>4, <2>5
<1> QED BY <1>3, <1>7, <1>8 DEF TombstonesKept

\* A rehash starts with bucket 0 alone.
LEMMA StartRehashTombstones ==
  ASSUME Shape, Shape', NEW slot_count, StartRehash(slot_count)
  PROVE  TombstonesKept'
<1>1. CASE pc' = "aborted"
  BY <1>1 DEF TombstonesKept, Rehashing
<1>2. CASE pc' = "collect" /\ insert_bucket' = 0
  <2>1. Rehashing'
    BY <1>2 DEF Rehashing
  <2>2. \A b \in DOMAIN buckets_' : (buckets_'[b] = Uninitialized) <=> (b > 0)
    BY <1>2, <2>1 DEF Shape, NewInv, InitializedPrefix
  <2>3. DOMAIN buckets_' = 0 .. Physical' - 1
    BY DEF Shape, TypeOK, BucketsTyped, Physical
  <2>4. Physical' \in Nat
    BY <2>1, PhysicalRange, SizeAssumption DEF Shape, TypeOK, Physical
  <2>5. PICK n \in Nat : n = Physical'
    BY <2>4
  <2>6. ASSUME NEW t \in 1 .. n - 1 PROVE buckets_'[t] = Uninitialized
    <3>1. DOMAIN buckets_' = 0 .. n - 1
      BY <2>3, <2>5
    <3>2. t \in DOMAIN buckets_' /\ t > 0
      BY <3>1
    <3> QED BY <2>2, <3>2
  <2>7. \A t \in 1 .. Physical' - 1 : buckets_'[t] = Uninitialized
    BY <2>5, <2>6
  <2> QED BY <1>2, <2>7 DEF TombstonesKept
<1> QED BY <1>1, <1>2, StartRehashEmpties

\* Every step of a rehash leaves the tombstones.
LEMMA NextTombstones == Shape /\ TombstonesKept /\ [Next]_vars => TombstonesKept'
<1> SUFFICES ASSUME Shape, TombstonesKept, [Next]_vars PROVE TombstonesKept'
  OBVIOUS
<1>1. Shape'
  BY NextShape
<1>2. ASSUME ~Rehashing' PROVE TombstonesKept'
  BY <1>2 DEF TombstonesKept
<1>3. ASSUME NEW value \in Values, Insert(value) PROVE TombstonesKept'
  BY <1>1, <1>2, <1>3, StartRehashTombstones DEF Insert, Rehashing
<1>4. ASSUME NEW key \in Keys, EraseKey(key) PROVE TombstonesKept'
  BY <1>2, <1>4 DEF EraseKey, Return, Rehashing
<1>5. ASSUME NEW p \in (DOMAIN buckets_) \X SlotNumber, EraseIterator(p) PROVE TombstonesKept'
  BY <1>2, <1>5 DEF EraseIterator, Return, Rehashing
<1>6. CASE Clear \/ PlaceValue \/ FinishRehash
  BY <1>2, <1>6 DEF Clear, PlaceValue, FinishRehash, Return, Rehashing
<1>7. ASSUME NEW count \in ReserveCounts, Reserve(count) PROVE TombstonesKept'
  BY <1>1, <1>2, <1>7, StartRehashTombstones DEF Reserve, Return, Rehashing
<1>8. ASSUME NEW count \in RehashCounts, Rehash(count) PROVE TombstonesKept'
  BY <1>1, <1>8, StartRehashTombstones DEF Rehash
<1>9. CASE ScanBucket \/ DrainHeap
  <2>1. CASE pc' = "aborted"
    BY <1>2, <2>1 DEF Rehashing
  <2>2. CASE \E value \in Values : ~InsertOverruns(value) /\ InsertAscending(value)
    BY <1>9, <2>2, RehashMoves, InsertAscendingTombstones
  <2> QED BY <1>9, <2>1, <2>2, RehashMoves
<1>10. ASSUME UNCHANGED <<buckets_, logical_size_, insert_bucket, insert_slot>>,
              Rehashing' => Rehashing
       PROVE  TombstonesKept'
  BY <1>10 DEF TombstonesKept, Physical
<1>11. CASE GetDisorderedValues \/ NextBucket
  BY <1>10, <1>11 DEF GetDisorderedValues, NextBucket, table, target, Rehashing
<1>12. CASE UNCHANGED vars
  BY <1>10, <1>12 DEF vars, table, target, Rehashing
<1> QED
  BY <1>3, <1>4, <1>5, <1>6, <1>7, <1>8, <1>9, <1>11, <1>12 DEF Next, Step

\* No rehash puts a value where a tombstone belongs.
THEOREM TombstonesInvariant == Spec => []TombstonesKept
<1>1. Init => TombstonesKept
  BY DEF Init, TombstonesKept, Rehashing
<1> QED BY <1>1, NextTombstones, ShapeInvariant, PTL DEF Spec

\* Right after a rehash an insert finds an empty slot no later than the next
\* bucket with a tombstone.
THEOREM TombstonesCorrect == Spec => TombstonesBoundProbes
<1>1. Shape /\ Shape' /\ TombstonesKept /\ [Next]_vars =>
        (Rehashing /\ AtRest' =>
           \A b \in 0 .. logical_size_ - 1, t \in 1 .. Physical - 1 :
             b <= t /\ BucketGetsTombstone(t) =>
               \E i \in b .. t : FindEmpties(buckets_'[i]) # {})
  <2> SUFFICES ASSUME Shape, Shape', TombstonesKept, [Next]_vars, Rehashing, AtRest',
                      NEW b \in 0 .. logical_size_ - 1, NEW t \in 1 .. Physical - 1,
                      b <= t, BucketGetsTombstone(t)
               PROVE  FindEmpties(buckets_'[t]) # {} /\ t \in b .. t
    OBVIOUS
  <2>1. logical_size_ \in Nat /\ Physical \in Nat
    BY RehashingShape
  <2>2. FinishRehash
    BY RehashEnds DEF AtRest
  <2>3. Occupied(buckets_') = Occupied(buckets_)
    BY <2>2, FinishRehashKeeps DEF Same
  <2>4. <<t, 0>> \notin Occupied(buckets_)
    BY OccupiedSlot DEF TombstonesKept
  <2>5. /\ DOMAIN buckets_' = 0 .. Physical - 1
        /\ \A x \in DOMAIN buckets_' : buckets_'[x] # Uninitialized
    BY <2>2 DEF FinishRehash, Shape, TypeOK, BucketsTyped, NewInv, InitializedPrefix, Physical
  <2>6. t \in DOMAIN buckets_' /\ 0 \in SlotNumber
    BY <2>1, <2>5, SizeAssumption DEF SlotNumber
  <2>7. buckets_'[t].h2[0] = kEmpty
    BY <2>3, <2>4, <2>5, <2>6, OccupiedSlot
  <2> QED BY <2>1, <2>6, <2>7 DEF FindEmpties, IsEmpty
<1> QED BY <1>1, ShapeInvariant, TombstonesInvariant, PTL DEF Spec, TombstonesBoundProbes

-----------------------------------------------------------------------------
(* Search distances *)

\* What an element adds to the reach of its preferred bucket.
LEMMA ReachOfElement ==
  ASSUME UNCHANGED <<hasher, logical_size_>>, NEW b, NEW p \in Occupied(buckets_'),
         H1(HashOf(ValueAt(buckets_', p)), logical_size_) = b
  PROVE  p[1] - b + 1 \in Reach(b)'
<1>1. H1(hasher'[KeyOf[ValueAt(buckets_', p)]], logical_size_') = b
  BY DEF HashOf
<1>2. Reach(b)' = {q[1] - b + 1 : q \in {r \in Occupied(buckets_') :
                     H1(hasher'[KeyOf[ValueAt(buckets_', r)]], logical_size_') = b}}
  BY DEF Reach, HashOf
<1>3. p \in {r \in Occupied(buckets_') :
              H1(hasher'[KeyOf[ValueAt(buckets_', r)]], logical_size_') = b}
  BY <1>1
<1> QED BY <1>2, <1>3

\* Elements that stay keep their reach.
LEMMA ReachKept ==
  ASSUME UNCHANGED <<hasher, logical_size_>>, NEW b,
         \A p \in Occupied(buckets_) : /\ p \in Occupied(buckets_')
                                      /\ ValueAt(buckets_', p) = ValueAt(buckets_, p)
  PROVE  Reach(b) \subseteq Reach(b)'
<1> SUFFICES ASSUME NEW p \in Occupied(buckets_),
                    H1(HashOf(ValueAt(buckets_, p)), logical_size_) = b
             PROVE  p[1] - b + 1 \in Reach(b)'
  BY DEF Reach
<1> QED BY ReachOfElement

\* The raise of a search distance is the reach of the element it is made for.
LEMMA InsertAscendingTight ==
  ASSUME Counted, DistancesInByte, Rehashing, Tight, NEW value \in Values,
         value \in Stored(source), ~InsertOverruns(value), InsertAscending(value),
         hasher' = hasher
  PROVE  Tight'
<1> DEFINE h1 == Preferred(value)
           p == At(value)
           opened == Opened(value)
<1>0. Shape /\ FreeInv /\ UNCHANGED <<hasher, logical_size_>>
  BY DEF Counted, InsertAscending
<1>1. /\ h1 \in 0 .. Physical - 1 /\ p[1] \in 0 .. Physical - 1 /\ h1 <= p[1]
      /\ NextAt(value)[1] \in 0 .. Physical - 1
      /\ \A x \in 0 .. Physical - 1 :
           /\ opened[x] = IF insert_bucket + 1 <= x /\ x <= NextAt(value)[1] THEN InitBucket
                          ELSE buckets_[x]
           /\ opened[x] # Uninitialized => Consistent(opened[x])
      /\ opened[h1] \in Bucket
      /\ Stores(Physical, opened, h1, p[1], p[2], OrderedByte(value), value, buckets_')
  BY <1>0, InsertAscendingStores
<1>2. /\ Physical \in Nat /\ logical_size_ \in Nat \ {0}
      /\ insert_bucket \in 0 .. Physical - 1 /\ logical_size_ < Physical
      /\ \A x \in 0 .. Physical - 1 : (buckets_[x] = Uninitialized) <=> (x > insert_bucket)
  <2>1. /\ Physical \in Nat /\ logical_size_ \in Nat \ {0}
        /\ insert_bucket \in 0 .. Physical - 1
        /\ \A x \in 0 .. Physical - 1 : (buckets_[x] = Uninitialized) <=> (x > insert_bucket)
    BY <1>0, RehashingShape
  <2>2. logical_size_ < Physical
    BY <2>1, PhysicalRange DEF Physical
  <2> QED BY <2>1, <2>2
<1>3. Adds(buckets_, buckets_', p, OrderedByte(value), value)
  BY <1>0, InsertAscendingAdds
<1>4. DistanceTo(p[1] - h1) = p[1] - h1 + 1
  <2>1. insert_bucket < h1 + kSearchDistanceEndSentinal /\ p[1] \in {h1, insert_bucket}
    BY DEF DistancesInByte, Preferred, At, InsertTarget
  <2>2. p[1] - h1 \in Nat /\ p[1] - h1 < kSearchDistanceEndSentinal
    BY <1>1, <1>2, <2>1, SizeAssumption
  <2> QED BY <2>2, DistanceRange
<1>5. \A b : Reach(b) \subseteq Reach(b)'
  BY <1>0, <1>3, ReachKept DEF Adds, Keeps
<1>6. ASSUME NEW b, b = h1 PROVE p[1] - b + 1 \in Reach(b)'
  <2>1. PICK q : q = p
    OBVIOUS
  <2>2. q \in Occupied(buckets_') /\ ValueAt(buckets_', q) = value
    BY <1>3, <2>1 DEF Adds
  <2>3. H1(HashOf(ValueAt(buckets_', q)), logical_size_) = b
    BY <1>6, <2>2 DEF Preferred
  <2>4. q[1] - b + 1 \in Reach(b)'
    BY <1>0, <2>2, <2>3, ReachOfElement
  <2> QED BY <2>1, <2>4
<1> HIDE DEF h1, p, opened
<1>7. ASSUME NEW b \in 0 .. logical_size_ - 1, opened[b] # Uninitialized
      PROVE  opened[b].search_distance \in Reach(b)' \cup {0}
  <2>1. b \in 0 .. Physical - 1
    BY <1>2
  <2>2. CASE insert_bucket + 1 <= b /\ b <= NextAt(value)[1]
    BY <1>1, <2>1, <2>2 DEF InitBucket
  <2>3. CASE ~(insert_bucket + 1 <= b /\ b <= NextAt(value)[1])
    <3>1. opened[b] = buckets_[b] /\ buckets_[b] # Uninitialized
      BY <1>1, <1>7, <2>1, <2>3
    <3> QED BY <1>5, <3>1 DEF Tight
  <2> QED BY <2>2, <2>3
<1>8. ASSUME NEW b \in 0 .. logical_size_ - 1, buckets_'[b] # Uninitialized
      PROVE  buckets_'[b].search_distance \in Reach(b)' \cup {0}
  <2>1. b \in 0 .. Physical - 1
    BY <1>2
  <2>2. opened[b] # Uninitialized /\ opened[b] \in Bucket
    BY <1>1, <1>8, <2>1 DEF Stores, Consistent
  <2>3. CASE b # h1
    BY <1>1, <1>7, <2>1, <2>2, <2>3 DEF Stores
  <2>4. CASE b = h1
    <3>1. buckets_'[b].search_distance \in {opened[b].search_distance, DistanceTo(p[1] - h1)}
      BY <1>1, <2>4 DEF Stores, MaxOf
    <3> QED BY <1>4, <1>6, <1>7, <2>2, <2>4, <3>1
  <2> QED BY <2>3, <2>4
<1> QED BY <1>0, <1>8 DEF Tight

\* A rehash starts with no search distances.
LEMMA StartRehashTight ==
  ASSUME Shape, Shape', NEW slot_count, StartRehash(slot_count)
  PROVE  Tight'
<1>1. CASE pc' = "aborted"
  BY <1>1 DEF Tight, Rehashing
<1>2. CASE pc' = "collect" /\ insert_bucket' = 0 /\ buckets_'[0] = InitBucket
  <2>1. Rehashing'
    BY <1>2 DEF Rehashing
  <2>2. \A b \in DOMAIN buckets_' : (buckets_'[b] = Uninitialized) <=> (b > 0)
    BY <1>2, <2>1 DEF Shape, NewInv, InitializedPrefix
  <2>3. PICK n \in Nat : n = logical_size_'
    BY SizeAssumption DEF Shape, TypeOK
  <2>4. DOMAIN buckets_' = 0 .. PhysicalSize(n) - 1
    BY <2>3 DEF Shape, TypeOK, BucketsTyped
  <2>5. n = 0 \/ PhysicalSize(n) > n
    BY PhysicalRange
  <2>6. PhysicalSize(n) \in Nat
    BY PhysicalRange
  <2>7. ASSUME NEW b \in 0 .. n - 1, buckets_'[b] # Uninitialized
        PROVE  buckets_'[b].search_distance = 0
    <3>1. b \in DOMAIN buckets_'
      BY <2>4, <2>5, <2>6
    <3>2. b = 0
      BY <2>2, <2>7, <3>1
    <3> QED BY <1>2, <3>2 DEF InitBucket
  <2> QED BY <2>3, <2>7 DEF Tight
<1> QED BY <1>1, <1>2, StartRehashEmpties

\* Every step keeps the search distances of a rehash tight.
LEMMA NextTight == Counted /\ DistancesInByte /\ Tight /\ [Next]_vars => Tight'
<1> SUFFICES ASSUME Counted, DistancesInByte, Tight, [Next]_vars PROVE Tight'
  OBVIOUS
<1>1. Shape /\ Shape'
  BY NextShape DEF Counted
<1>2. ASSUME ~Rehashing' PROVE Tight'
  BY <1>2 DEF Tight
<1>3. ASSUME NEW value \in Values, Insert(value) PROVE Tight'
  BY <1>1, <1>2, <1>3, StartRehashTight DEF Insert, Rehashing
<1>4. ASSUME NEW key \in Keys, EraseKey(key) PROVE Tight'
  BY <1>2, <1>4 DEF EraseKey, Return, Rehashing
<1>5. ASSUME NEW p \in (DOMAIN buckets_) \X SlotNumber, EraseIterator(p) PROVE Tight'
  BY <1>2, <1>5 DEF EraseIterator, Return, Rehashing
<1>6. CASE Clear \/ PlaceValue \/ FinishRehash
  BY <1>2, <1>6 DEF Clear, PlaceValue, FinishRehash, Return, Rehashing
<1>7. ASSUME NEW count \in ReserveCounts, Reserve(count) PROVE Tight'
  BY <1>1, <1>2, <1>7, StartRehashTight DEF Reserve, Return, Rehashing
<1>8. ASSUME NEW count \in RehashCounts, Rehash(count) PROVE Tight'
  BY <1>1, <1>8, StartRehashTight DEF Rehash
<1>9. CASE ScanBucket \/ DrainHeap
  <2>1. CASE pc' = "aborted"
    BY <1>2, <2>1 DEF Rehashing
  <2>2. ASSUME NEW value \in Values, NEW q,
               ~InsertOverruns(value), InsertAscending(value),
               Takes(source, source', q), ValueAt(source, q) = value
        PROVE  Tight'
    <3>1. value \in Stored(source)
      BY <2>2 DEF Takes, Stored
    <3> QED BY <1>1, <1>9, <2>2, <3>1, RehashMoves, InsertAscendingTight
  <2> QED BY <1>1, <1>9, <2>1, <2>2, RehashMoves
<1>10. ASSUME UNCHANGED <<hasher, buckets_, logical_size_>>, Rehashing' => Rehashing
       PROVE  Tight'
  BY <1>10 DEF Tight, Reach, HashOf, Occupied, Positions, MetaAt, ValueAt
<1>11. CASE GetDisorderedValues \/ NextBucket
  BY <1>10, <1>11 DEF GetDisorderedValues, NextBucket, table, Rehashing
<1>12. CASE UNCHANGED vars
  BY <1>10, <1>12 DEF vars, table, Rehashing
<1> QED
  BY <1>3, <1>4, <1>5, <1>6, <1>7, <1>8, <1>9, <1>11, <1>12 DEF Next, Step

\* A rehash raises no search distance further than it need.
THEOREM TightInvariant == Spec /\ []DistancesInByte => []Tight
<1>1. Init => Tight
  BY DEF Init, Tight, Rehashing
<1> QED BY <1>1, NextTight, CountedInvariant, PTL DEF Spec

\* The end of a rehash leaves the search distances of the logical buckets alone;
\* buckets it opens have none.
LEMMA FinishRehashDistances ==
  ASSUME Shape, FinishRehash, NEW b \in 0 .. logical_size_ - 1
  PROVE  buckets_'[b].search_distance =
           IF buckets_[b] = Uninitialized THEN 0 ELSE buckets_[b].search_distance
<1> DEFINE opened == InitBuckets(buckets_, insert_bucket + 1, Physical - 1)
<1>1. Rehashing /\ buckets_' = MarkEnd(opened)
  BY DEF FinishRehash, Rehashing
<1>2. /\ logical_size_ \in Nat /\ Physical \in Nat /\ logical_size_ < Physical
      /\ insert_bucket \in 0 .. Physical - 1
      /\ buckets_ \in [0 .. Physical - 1 -> Bucket \cup {Uninitialized}]
      /\ \A x \in 0 .. Physical - 1 : (buckets_[x] = Uninitialized) <=> (x > insert_bucket)
  BY <1>1, RehashingShape, PhysicalRange DEF Physical
<1>3. /\ DOMAIN opened = 0 .. Physical - 1
      /\ \A x \in 0 .. Physical - 1 :
           opened[x] = IF insert_bucket + 1 <= x /\ x <= Physical - 1 THEN InitBucket
                       ELSE buckets_[x]
  BY <1>2, InitBucketsRange
<1>4. b \in 0 .. Physical - 1 /\ b # Physical - 1
  BY <1>2
<1> HIDE DEF opened
<1>5. buckets_'[b] = opened[b]
  BY <1>1, <1>3, <1>4 DEF MarkEnd
<1> QED BY <1>2, <1>3, <1>4, <1>5 DEF InitBucket

\* After a rehash the search distance of every bucket reaches its farthest value
\* and no further.
THEOREM RehashForgets == Spec /\ []DistancesInByte => RehashTightens
<1>1. Shape /\ Shape' /\ Located' /\ Tight /\ [Next]_vars =>
        (Rehashing /\ AtRest' =>
           \A b \in 0 .. logical_size_ - 1 :
             LET reach == {p[1] - b + 1 : p \in {q \in Occupied(buckets_') :
                             H1(HashOf(ValueAt(buckets_', q)), logical_size_) = b}}
             IN  /\ \A d \in reach : d <= buckets_'[b].search_distance
                 /\ buckets_'[b].search_distance \in reach \cup {0})
  <2> SUFFICES ASSUME Shape, Shape', Located', Tight, [Next]_vars, Rehashing, AtRest',
                      NEW b \in 0 .. logical_size_ - 1,
                      NEW reach,
                      reach = {p[1] - b + 1 : p \in {q \in Occupied(buckets_') :
                                 H1(HashOf(ValueAt(buckets_', q)), logical_size_) = b}}
               PROVE  /\ \A d \in reach : d <= buckets_'[b].search_distance
                      /\ buckets_'[b].search_distance \in reach \cup {0}
    OBVIOUS
  <2>1. FinishRehash
    BY RehashEnds DEF AtRest
  <2>2. UNCHANGED <<hasher, logical_size_>>
    BY <2>1 DEF FinishRehash
  <2>3. Same(buckets_, buckets_')
    BY <2>1, FinishRehashKeeps
  <2>4. reach = Reach(b)
    BY <2>3 DEF Same, Keeps, Reach
  <2>5. buckets_'[b].search_distance \in reach \cup {0}
    BY <2>1, <2>4, FinishRehashDistances DEF Tight
  <2>6. ASSUME NEW q \in Occupied(buckets_'),
               H1(HashOf(ValueAt(buckets_', q)), logical_size_) = b
        PROVE  q[1] - b + 1 <= buckets_'[b].search_distance
    <3>1. /\ logical_size_ \in Nat /\ Physical \in Nat /\ logical_size_ < Physical
      BY RehashingShape, PhysicalRange DEF Physical
    <3>2. buckets_' \in [0 .. Physical - 1 -> Bucket \cup {Uninitialized}]
      BY <2>2 DEF Shape, TypeOK, BucketsTyped, Physical
    <3>3. b \in 0 .. Physical - 1
      BY <3>1
    <3>4. buckets_'[b] # Uninitialized
      BY <3>2, <3>3 DEF Shape, NewInv, InitializedPrefix
    <3>5. buckets_'[b].search_distance \in Int
      BY <3>2, <3>3, <3>4, SizeAssumption DEF Bucket
    <3>6. q[1] \in Int
      <4>1. q[1] \in DOMAIN buckets_'
        BY <2>6, OccupiedPair
      <4> QED BY <3>1, <3>2, <4>1
    <3>7. H1(hasher'[KeyOf[ValueAt(buckets_', q)]], logical_size_') = b
      BY <2>2, <2>6 DEF HashOf
    <3>8. q[1] < b + buckets_'[b].search_distance
      BY <3>7 DEF Located, HashOf
    <3> QED BY <3>5, <3>6, <3>8
  <2> QED BY <2>5, <2>6
<1>2. Searchable => Shape /\ Located
  BY DEF Searchable, Counted
<1> QED BY <1>1, <1>2, SearchableInvariant, TightInvariant, PTL DEF Spec, RehashTightens

-----------------------------------------------------------------------------
(* Giving up *)

\* A step of a rehash that moves a value moves one of the least hash, or gives up.
LEMMA RehashMovesLeast ==
  ASSUME Swept, ScanBucket \/ DrainHeap
  PROVE  /\ Rehashing /\ UNCHANGED <<hasher, source_logical_size>>
         /\ \/ pc' = "aborted"
            \/ \E value \in Values, q \in Constructed(source) : MovesLeast(value, q)
<1>1. Shape /\ SourceSwept
  BY DEF Swept, Searchable, Counted
<1>2. CASE ScanBucket
  <2>1. Rehashing /\ Sorted(source) /\ UNCHANGED <<hasher, source_logical_size>>
    BY <1>2 DEF ScanBucket, Rehashing, Swept
  <2> QED BY <1>1, <1>2, <2>1, ScanBucketLeast
<1>3. CASE DrainHeap
  <2>1. /\ Rehashing /\ bucket_number = SourcePhysical /\ InsertFromHeap
        /\ UNCHANGED <<hasher, source_logical_size>>
    BY <1>3 DEF DrainHeap, Rehashing
  <2>2. Occupied(source) = {}
    BY <1>1, <2>1, SweepComplete
  <2> QED BY <1>1, <2>1, <2>2, InsertFromHeapLeast
<1> QED BY <1>2, <1>3

\* Old buckets that keep their search distances keep them inside the array.
LEMMA SourceStaysInArray ==
  ASSUME Shape, SourceInArray, Rehashing, UNCHANGED source_logical_size,
         \A b \in DOMAIN source : source'[b].search_distance = source[b].search_distance
  PROVE  SourceInArray'
<1>1. DOMAIN source = 0 .. SourcePhysical - 1 /\ SourcePhysical' = SourcePhysical
  BY DEF Shape, TypeOK, BucketsTyped, SourcePhysical
<1>2. PICK n \in Nat : n = source_logical_size
  BY SizeAssumption DEF Shape, TypeOK
<1>3. PICK size \in Nat : size = SourcePhysical /\ n <= size
  BY <1>2, PhysicalRange DEF SourcePhysical
<1>4. ASSUME NEW b \in 0 .. n - 1 PROVE b + source'[b].search_distance <= size
  <2>1. b \in DOMAIN source
    BY <1>1, <1>3
  <2>2. b + source[b].search_distance <= size
    BY <1>2, <1>3 DEF SourceInArray
  <2> QED BY <2>1, <2>2
<1> QED BY <1>1, <1>2, <1>3, <1>4 DEF SourceInArray

\* A rehash begins with the array at rest.
LEMMA StartRehashSource ==
  ASSUME Shape, AtRest, DistancesInArray, NEW slot_count, StartRehash(slot_count)
  PROVE  SourceInArray'
<1>1. CASE pc' = "aborted"
  BY <1>1 DEF SourceInArray, Rehashing
<1>2. CASE source' = buckets_ /\ source_logical_size' = logical_size_
  <2>1. PICK n \in Nat : n = logical_size_
    BY SizeAssumption DEF Shape, TypeOK
  <2>2. PICK size \in Nat : size = Physical /\ (n = 0 \/ n < size)
    BY <2>1, PhysicalRange DEF Physical
  <2>3. SourcePhysical' = size
    BY <1>2, <2>2 DEF SourcePhysical, Physical
  <2>4. ASSUME NEW b \in 0 .. n - 1 PROVE b + buckets_[b].search_distance <= size
    <3>1. b \in 0 .. Physical - 1 /\ b # Physical - 1
      BY <2>2
    <3>2. b \in DOMAIN buckets_ /\ buckets_[b] # Uninitialized
      BY <3>1, AtRestShape, UninitializedAssumption DEF Consistent
    <3> QED BY <2>2, <3>1, <3>2 DEF DistancesInArray, AtRest
  <2> QED BY <1>2, <2>1, <2>3, <2>4 DEF SourceInArray
<1> QED BY <1>1, <1>2, StartRehashEmpties

\* The old buckets of a rehash keep their search distances, and so those inside
\* the array.
LEMMA NextSourceInArray ==
  Swept /\ SourceInArray /\ [Next]_vars => SourceInArray'
<1> SUFFICES ASSUME Swept, SourceInArray, [Next]_vars PROVE SourceInArray'
  OBVIOUS
<1>1. Shape /\ DistancesInArray
  BY DEF Swept, Searchable, Counted
<1>2. ASSUME ~Rehashing' PROVE SourceInArray'
  BY <1>2 DEF SourceInArray
<1>3. ASSUME NEW value \in Values, Insert(value) PROVE SourceInArray'
  BY <1>1, <1>2, <1>3, StartRehashSource DEF Insert, Rehashing, AtRest
<1>4. ASSUME NEW key \in Keys, EraseKey(key) PROVE SourceInArray'
  BY <1>2, <1>4 DEF EraseKey, Return, Rehashing
<1>5. ASSUME NEW p \in (DOMAIN buckets_) \X SlotNumber, EraseIterator(p) PROVE SourceInArray'
  BY <1>2, <1>5 DEF EraseIterator, Return, Rehashing
<1>6. CASE Clear \/ PlaceValue \/ FinishRehash
  BY <1>2, <1>6 DEF Clear, PlaceValue, FinishRehash, Return, Rehashing
<1>7. ASSUME NEW count \in ReserveCounts, Reserve(count) PROVE SourceInArray'
  BY <1>1, <1>2, <1>7, StartRehashSource DEF Reserve, Return, Rehashing, AtRest
<1>8. ASSUME NEW count \in RehashCounts, Rehash(count) PROVE SourceInArray'
  BY <1>1, <1>8, StartRehashSource DEF Rehash, AtRest
<1>9. CASE ScanBucket \/ DrainHeap
  <2>1. CASE pc' = "aborted"
    BY <1>2, <2>1 DEF Rehashing
  <2>2. CASE \E value \in Values, q \in Constructed(source) : MovesLeast(value, q)
    BY <1>1, <1>9, <2>2, RehashMovesLeast, SourceStaysInArray DEF MovesLeast, Shrinks
  <2> QED BY <1>9, <2>1, <2>2, RehashMovesLeast
<1>10. CASE GetDisorderedValues
  <2>1. Rehashing /\ UNCHANGED source_logical_size
    BY <1>10 DEF GetDisorderedValues, Rehashing
  <2>2. \A b \in DOMAIN source : source'[b].search_distance = source[b].search_distance
    BY <1>1, <1>10, GetDisorderedValuesShrinks DEF GetDisorderedValues, Shrinks
  <2> QED BY <1>1, <2>1, <2>2, SourceStaysInArray
<1>11. CASE NextBucket \/ UNCHANGED vars
  <2>1. UNCHANGED <<source, source_logical_size>> /\ (Rehashing' => Rehashing)
    BY <1>11 DEF NextBucket, vars, scan, Rehashing
  <2> QED BY <1>1, <1>2, <2>1, SourceStaysInArray
<1> QED
  BY <1>3, <1>4, <1>5, <1>6, <1>7, <1>8, <1>9, <1>10, <1>11 DEF Next, Step

\* What lies before the next insertion point lies before the last one, or is it.
LEMMA NextTargetPasses ==
  ASSUME NEW b \in Nat, NEW s \in SlotNumber, NEW x \in Nat, NEW y \in SlotNumber,
         FirstSlot(x) <= y,
         \/ x < NextTarget(b, s)[1]
         \/ x = NextTarget(b, s)[1] /\ y < NextTarget(b, s)[2]
  PROVE  x < b \/ (x = b /\ y <= s)
<1>1. kSlotsPerBucket \in Nat /\ s \in 0 .. kSlotsPerBucket - 1 /\ y \in 0 .. kSlotsPerBucket - 1
  BY SizeAssumption DEF SlotNumber
<1>2. CASE s + 1 = kSlotsPerBucket
  <2>1. PICK first \in Nat : first = FirstSlot(b + 1)
    BY FirstSlotRange, SizeAssumption DEF SlotNumber
  <2>2. NextTarget(b, s) = <<b + 1, first>>
    BY <1>2, <2>1 DEF NextTarget
  <2>3. CASE x = b + 1
    BY <1>1, <2>1, <2>2, <2>3
  <2>4. CASE x < b + 1
    BY <1>1, <1>2, <2>4
  <2> QED BY <2>2, <2>3, <2>4
<1>3. CASE s + 1 # kSlotsPerBucket
  <2>1. NextTarget(b, s) = <<b, s + 1>>
    BY <1>3 DEF NextTarget
  <2> QED BY <1>1, <2>1
<1> QED BY <1>2, <1>3

\* Packed after a step, in terms of the new buckets.
LEMMA PackedNext ==
  ASSUME UNCHANGED <<hasher, logical_size_>>,
         NEW b \in 0 .. logical_size_ - 1, b <= insert_bucket',
         \A x \in b .. insert_bucket', s \in SlotNumber :
           FirstSlot(x) <= s /\ (x < insert_bucket' \/ s < insert_slot') =>
             /\ <<x, s>> \in Occupied(buckets_')
             /\ b <= H1(HashOf(ValueAt(buckets_', <<x, s>>)), logical_size_),
         \A w \in Stored(source') : b <= H1(HashOf(w), logical_size_)
  PROVE  Packed'
<1>1. /\ Occupied(buckets_)' = Occupied(buckets_')
      /\ Stored(source)' = Stored(source')
  BY DEF Occupied, Stored, Constructed, Positions, MetaAt, ValueAt
<1>2. \A x, s : /\ ValueAt(buckets_, <<x, s>>)' = ValueAt(buckets_', <<x, s>>)
                /\ HashOf(ValueAt(buckets_, <<x, s>>))' = HashOf(ValueAt(buckets_', <<x, s>>))
  BY DEF ValueAt, HashOf
<1>3. \A w : HashOf(w)' = HashOf(w)
  BY DEF HashOf
<1> QED BY <1>1, <1>2, <1>3 DEF Packed, PackedFrom

\* The values a rehash has yet to move prefer buckets of the table.
LEMMA SourcePrefers ==
  ASSUME Shape, Rehashing, NEW w \in Stored(source)
  PROVE  w \in Values /\ Preferred(w) \in 0 .. logical_size_ - 1
<1>1. PICK p \in Constructed(source) : w = ValueAt(source, p)
  BY DEF Stored
<1>2. /\ p[1] \in DOMAIN source /\ p[2] \in SlotNumber
      /\ source[p[1]].slots[p[2]] # NoValue
  BY <1>1, ConstructedPair
<1>3. source[p[1]] \in Bucket
  BY <1>2 DEF Shape, SourceInv
<1>4. w \in Values
  BY <1>1, <1>2, <1>3 DEF Bucket, ValueAt
<1> QED BY <1>4, PreferredRange, RehashingShape DEF Shape, Preferred

\* Moving a value of the least hash starts a new run of full slots, or makes the
\* present one longer.
LEMMA MovePacked ==
  ASSUME Swept, Packed, Rehashing, hasher' = hasher,
         NEW value \in Values, NEW q \in Constructed(source), MovesLeast(value, q)
  PROVE  Packed'
<1> DEFINE h1 == Preferred(value)
           at == At(value)
           next == NextAt(value)
<1>1. /\ Shape /\ FreeInv /\ UNCHANGED logical_size_
      /\ ~InsertOverruns(value) /\ InsertAscending(value)
      /\ Takes(source, source', q) /\ ValueAt(source, q) = value
      /\ \A r \in Constructed(source) : HashOf(value) <= HashOf(ValueAt(source, r))
  BY DEF Swept, Searchable, Counted, MovesLeast, InsertAscending
<1>2. /\ Adds(buckets_, buckets_', at, OrderedByte(value), value)
      /\ insert_bucket' = next[1] /\ insert_slot' = next[2]
      /\ at[1] \in 0 .. Physical - 1 /\ at[2] \in SlotNumber
      /\ next = NextTarget(at[1], at[2])
      /\ next[1] \in Nat /\ next[2] \in SlotNumber
  BY <1>1, InsertAscendingAdds, InsertAscendingStores, RehashingShape DEF NextAt
<1>3. /\ at = IF insert_bucket < h1 THEN <<h1, FirstSlot(h1)>> ELSE <<insert_bucket, insert_slot>>
      /\ h1 = H1(HashOf(value), logical_size_)
  BY DEF At, InsertTarget, Preferred
<1>4. at = <<at[1], at[2]>> /\ at[1] \in Nat
  BY <1>1, <1>2, <1>3, RehashingShape
<1>5. Stored(source') \subseteq Stored(source)
  BY <1>1, StoredTakes
<1>6. value \in Stored(source) /\ h1 \in 0 .. logical_size_ - 1
  BY <1>1, SourcePrefers DEF Stored, Takes
<1>7. /\ insert_bucket \in Nat /\ insert_slot \in SlotNumber
      /\ logical_size_ \in Nat
  BY <1>1, RehashingShape
<1>8. \A p \in Occupied(buckets_) : /\ p \in Occupied(buckets_')
                                    /\ ValueAt(buckets_', p) = ValueAt(buckets_, p)
  BY <1>2 DEF Adds, Keeps
<1>9. at \in Occupied(buckets_') /\ ValueAt(buckets_', at) = value
  BY <1>2 DEF Adds
<1>10. at[1] <= next[1]
  BY <1>2, <1>4 DEF NextTarget
<1> HIDE DEF h1, at, next
<1>11. CASE insert_bucket < h1
  <2>1. at = <<h1, FirstSlot(h1)>>
    BY <1>3, <1>11
  <2>2. ASSUME NEW w \in Stored(source') PROVE h1 <= H1(HashOf(w), logical_size_)
    <3>1. PICK r \in Constructed(source) : w = ValueAt(source, r)
      BY <1>5, <2>2 DEF Stored
    <3>2. HashOf(value) <= HashOf(w)
      BY <1>1, <3>1
    <3>3. w \in Values
      BY <1>1, <1>5, <2>2, SourcePrefers
    <3>4. HashOf(value) \in Hash /\ HashOf(w) \in Hash
      BY <1>1, <3>3, PreferredRange DEF Shape
    <3> QED BY <1>3, <1>7, <3>2, <3>4, H1Monotone
  <2>3. ASSUME NEW x \in h1 .. next[1], NEW s \in SlotNumber,
               FirstSlot(x) <= s, x < next[1] \/ s < next[2]
        PROVE  /\ <<x, s>> \in Occupied(buckets_')
               /\ h1 <= H1(HashOf(ValueAt(buckets_', <<x, s>>)), logical_size_)
    <3>1. x < at[1] \/ (x = at[1] /\ s <= at[2])
      BY <1>2, <1>4, <1>6, <1>7, <2>3, NextTargetPasses
    <3>2. x = h1 /\ s <= FirstSlot(h1)
      BY <1>6, <1>7, <2>1, <3>1
    <3>3. <<x, s>> = at
      BY <2>1, <2>3, <3>2, FirstSlotRange, SizeAssumption DEF SlotNumber
    <3> QED BY <1>3, <1>6, <1>7, <1>9, <3>3
  <2>4. h1 <= insert_bucket'
    BY <1>2, <1>10, <2>1
  <2> QED BY <1>1, <1>2, <1>6, <2>2, <2>3, <2>4, PackedNext
<1>12. CASE ~(insert_bucket < h1)
  <2>1. at = <<insert_bucket, insert_slot>>
    BY <1>3, <1>12
  <2>2. PICK b \in 0 .. logical_size_ - 1 : PackedFrom(b)
    BY DEF Packed
  <2>3. /\ b <= insert_bucket
        /\ \A x \in b .. insert_bucket, s \in SlotNumber :
             FirstSlot(x) <= s /\ (x < insert_bucket \/ s < insert_slot) =>
               /\ <<x, s>> \in Occupied(buckets_)
               /\ b <= H1(HashOf(ValueAt(buckets_, <<x, s>>)), logical_size_)
        /\ \A w \in Stored(source) : b <= H1(HashOf(w), logical_size_)
    BY <2>2 DEF PackedFrom
  <2>4. b \in Nat
    BY <1>7, <2>2
  <2>5. ASSUME NEW x \in b .. next[1], NEW s \in SlotNumber,
               FirstSlot(x) <= s, x < next[1] \/ s < next[2]
        PROVE  /\ <<x, s>> \in Occupied(buckets_')
               /\ b <= H1(HashOf(ValueAt(buckets_', <<x, s>>)), logical_size_)
    <3>1. x \in Nat /\ s \in Int /\ insert_slot \in Int
      BY <1>2, <1>7, <2>4, SizeAssumption DEF SlotNumber
    <3>2. x < insert_bucket \/ (x = insert_bucket /\ s <= insert_slot)
      BY <1>2, <1>4, <2>1, <2>5, <3>1, NextTargetPasses
    <3>3. CASE <<x, s>> = at
      BY <1>3, <1>6, <1>9, <2>3, <3>3
    <3>4. CASE <<x, s>> # at
      <4>1. x < insert_bucket \/ (x = insert_bucket /\ s < insert_slot)
        BY <2>1, <3>1, <3>2, <3>4
      <4>2. x \in b .. insert_bucket
        BY <1>7, <2>4, <2>5, <3>1, <4>1
      <4>3. /\ <<x, s>> \in Occupied(buckets_)
            /\ b <= H1(HashOf(ValueAt(buckets_, <<x, s>>)), logical_size_)
        BY <2>3, <2>5, <4>1, <4>2
      <4> QED BY <1>8, <4>3
    <3> QED BY <3>3, <3>4
  <2>6. b <= insert_bucket'
    BY <1>2, <1>7, <1>10, <2>1, <2>3, <2>4
  <2> QED BY <1>1, <1>2, <1>5, <2>3, <2>5, <2>6, PackedNext
<1> QED BY <1>11, <1>12

\* A rehash starts with no slot passed.
LEMMA StartRehashPacked ==
  ASSUME Shape, Shape', AtRest, hasher' = hasher, NEW slot_count, StartRehash(slot_count)
  PROVE  Packed'
<1>1. CASE pc' = "aborted"
  BY <1>1 DEF Packed, Rehashing
<1>2. CASE pc' = "collect"
  <2>1. Rehashing' /\ insert_bucket' = 0 /\ insert_slot' = 0
    BY <1>2 DEF Rehashing, StartRehash, Abort
  <2>2. PICK n \in Nat : n = logical_size_' /\ n > 0
    BY <2>1, SizeAssumption DEF Shape, TypeOK, CallInv
  <2>3. ASSUME NEW w \in Stored(source') PROVE 0 <= H1(hasher'[KeyOf[w]], n)
    <3>1. Stored(source)' = Stored(source')
      BY DEF Stored, Constructed, Positions, ValueAt
    <3>2. PICK p \in Constructed(source') : w = ValueAt(source', p)
      BY <2>3 DEF Stored
    <3>3. /\ p[1] \in DOMAIN source' /\ p[2] \in SlotNumber
          /\ source'[p[1]].slots[p[2]] # NoValue
      BY <3>2, ConstructedPair
    <3>4. source'[p[1]] \in Bucket
      BY <3>3 DEF Shape, SourceInv
    <3>5. w \in Values
      BY <3>2, <3>3, <3>4 DEF Bucket, ValueAt
    <3>6. HashOf(w) \in Hash
      BY <3>5, PreferredRange DEF Shape
    <3> QED BY <2>2, <3>6, H1Range DEF HashOf
  <2>4. \A w \in Stored(source)' : 0 <= H1(HashOf(w)', n)
    BY <2>3 DEF Stored, Constructed, Positions, ValueAt, HashOf
  <2>5. \A x \in 0 .. insert_bucket', s \in SlotNumber :
          ~(FirstSlot(x) <= s /\ (x < insert_bucket' \/ s < insert_slot'))
    BY <2>1, SizeAssumption DEF SlotNumber
  <2>6. PackedFrom(0)'
    BY <2>1, <2>2, <2>4, <2>5 DEF PackedFrom
  <2>7. 0 \in 0 .. n - 1
    <3>1. n \in Nat /\ n > 0
      BY <2>2
    <3> QED BY <3>1
  <2>8. 0 \in 0 .. logical_size_' - 1
    BY ONLY <2>2, <2>7
  <2> QED BY <2>6, <2>8 DEF Packed
<1> QED BY <1>1, <1>2, StartRehashEmpties

\* The values of a rehash stay packed.
LEMMA NextPacked == Swept /\ Packed /\ [Next]_vars => Packed'
<1> SUFFICES ASSUME Swept, Packed, [Next]_vars PROVE Packed'
  OBVIOUS
<1>1. Shape /\ Shape'
  BY NextShape DEF Swept, Searchable, Counted
<1>2. ASSUME ~Rehashing' PROVE Packed'
  BY <1>2 DEF Packed
<1>3. ASSUME NEW value \in Values, Insert(value) PROVE Packed'
  BY <1>1, <1>2, <1>3, StartRehashPacked DEF Insert, Rehashing, AtRest
<1>4. ASSUME NEW key \in Keys, EraseKey(key) PROVE Packed'
  BY <1>2, <1>4 DEF EraseKey, Return, Rehashing
<1>5. ASSUME NEW p \in (DOMAIN buckets_) \X SlotNumber, EraseIterator(p) PROVE Packed'
  BY <1>2, <1>5 DEF EraseIterator, Return, Rehashing
<1>6. CASE Clear \/ PlaceValue \/ FinishRehash
  BY <1>2, <1>6 DEF Clear, PlaceValue, FinishRehash, Return, Rehashing
<1>7. ASSUME NEW count \in ReserveCounts, Reserve(count) PROVE Packed'
  BY <1>1, <1>2, <1>7, StartRehashPacked DEF Reserve, Return, Rehashing, AtRest
<1>8. ASSUME NEW count \in RehashCounts, Rehash(count) PROVE Packed'
  BY <1>1, <1>8, StartRehashPacked DEF Rehash, AtRest
<1>9. CASE ScanBucket \/ DrainHeap
  <2>1. CASE pc' = "aborted"
    BY <1>2, <2>1 DEF Rehashing
  <2>2. CASE \E value \in Values, q \in Constructed(source) : MovesLeast(value, q)
    BY <1>9, <2>2, RehashMovesLeast, MovePacked
  <2> QED BY <1>9, <2>1, <2>2, RehashMovesLeast
<1>10. ASSUME UNCHANGED <<hasher, buckets_, logical_size_, target>>,
              Stored(source') = Stored(source), Rehashing
       PROVE  Packed'
  <2>1. PICK b \in 0 .. logical_size_ - 1 : PackedFrom(b)
    BY <1>10 DEF Packed
  <2> QED BY <1>10, <2>1, PackedNext DEF PackedFrom, target
<1>11. CASE GetDisorderedValues
  <2>1. /\ Rehashing /\ UNCHANGED <<hasher, buckets_, logical_size_, target>>
    BY <1>11 DEF GetDisorderedValues, Rehashing, table
  <2>2. Stored(source') = Stored(source)
    BY <1>1, <1>11, GetDisorderedValuesKeeps DEF Stored
  <2> QED BY <1>10, <2>1, <2>2
<1>12. CASE NextBucket \/ UNCHANGED vars
  <2>1. /\ UNCHANGED <<hasher, buckets_, logical_size_, target, source>>
        /\ Rehashing' => Rehashing
    BY <1>12 DEF NextBucket, vars, scan, table, Rehashing
  <2> QED BY <1>2, <1>10, <2>1
<1> QED
  BY <1>3, <1>4, <1>5, <1>6, <1>7, <1>8, <1>9, <1>11, <1>12 DEF Next, Step

\* An array has finitely many values if it has finitely many objects.
LEMMA StoredFinite ==
  ASSUME NEW buckets, IsFiniteSet(Constructed(buckets))
  PROVE  IsFiniteSet(Stored(buckets))
<1> DEFINE f == [p \in Constructed(buckets) |-> ValueAt(buckets, p)]
<1>1. f \in Surjection(Constructed(buckets), Stored(buckets))
  BY DEF Stored, Surjection
<1> QED BY <1>1, FS_Surjection

\* A rehash does not index past the end of the old buckets.
LEMMA CollectsInArray ==
  ASSUME Shape, SourceInArray, GetDisorderedValues
  PROVE  pc' # "aborted"
<1>1. /\ pc = "collect" /\ Rehashing /\ bucket_number \in Nat
      /\ bucket_number < SourcePhysical /\ source \in [0 .. SourcePhysical - 1 -> Bucket]
      /\ source_logical_size \in Nat /\ SourcePhysical \in Nat
  BY SourceTyped, SizeAssumption, PhysicalRange
  DEF GetDisorderedValues, Rehashing, Shape, TypeOK, SourcePhysical
<1>2. CASE bucket_number < source_logical_size
  <2>1. PICK distance \in Nat : distance = source[bucket_number].search_distance
    BY <1>1, SizeAssumption DEF Bucket
  <2>2. bucket_number + distance <= SourcePhysical
    BY <1>1, <1>2, <2>1 DEF SourceInArray
  <2>3. CoveredBuckets \subseteq bucket_number .. bucket_number + distance - 1
    BY <2>1 DEF CoveredBuckets
  <2>4. ~\E b \in CoveredBuckets : b >= SourcePhysical
    <3> HIDE DEF SourcePhysical, CoveredBuckets
    <3> QED BY <1>1, <2>2, <2>3
  <2> QED BY <1>1, <1>2, <2>4 DEF GetDisorderedValues
<1>3. CASE ~(bucket_number < source_logical_size)
  BY <1>1, <1>3 DEF GetDisorderedValues
<1> QED BY <1>2, <1>3

\* A rehash that gives up has a value for which there is no bucket.
LEMMA GivesUp ==
  ASSUME Shape, ScanBucket \/ DrainHeap, pc' = "aborted"
  PROVE  \E value \in Stored(source) : InsertOverruns(value)
<1>1. pc # "aborted"
  BY DEF ScanBucket, DrainHeap
<1>2. ASSUME InsertFromHeap PROVE \E value \in Stored(source) : InsertOverruns(value)
  <2>1. PICK item \in heap : InsertOverruns(source[item.bucket].slots[item.slot])
    BY <1>1, <1>2 DEF InsertFromHeap, InsertAscending
  <2>2. /\ source \in [0 .. SourcePhysical - 1 -> Bucket] /\ SourcePhysical \in Nat
        /\ item.bucket \in 0 .. SourcePhysical - 1 /\ item.slot \in SlotNumber
        /\ source[item.bucket].slots[item.slot] # NoValue
    BY SourceTyped, HeapValue, ValuesAssumption
  <2>3. PICK p : p = <<item.bucket, item.slot>>
    OBVIOUS
  <2>4. p \in Constructed(source) /\ ValueAt(source, p) = source[item.bucket].slots[item.slot]
    BY <2>2, <2>3, UninitializedAssumption DEF Constructed, Positions, ValueAt
  <2> QED BY <2>1, <2>4 DEF Stored
<1>3. CASE ScanBucket /\ ~InsertFromHeap
  <2>1. PICK s \in OrderedAhead : InsertOverruns(source[bucket_number].slots[s])
    BY <1>1, <1>3 DEF ScanBucket, InsertAscending, Least
  <2>2. /\ source \in [0 .. SourcePhysical - 1 -> Bucket]
        /\ bucket_number \in DOMAIN source /\ s \in SlotNumber
        /\ source[bucket_number].h2[s] # kEmpty
    <3>1. s \in SlotNumber /\ source[bucket_number].h2[s] # kEmpty
      BY DEF OrderedAhead, IsNonemptyAndOrdered, kEmpty, kOrderedMask
    <3>2. pc = "scan" /\ bucket_number < SourcePhysical /\ bucket_number \in Nat
      BY <1>3 DEF ScanBucket, Shape, TypeOK, ScanInv
    <3>3. /\ source \in [0 .. SourcePhysical - 1 -> Bucket] /\ SourcePhysical \in Nat
          /\ DOMAIN source = 0 .. SourcePhysical - 1
      BY SourceTyped
    <3> HIDE DEF SourcePhysical
    <3> QED BY <3>1, <3>2, <3>3
  <2>3. source[bucket_number].slots[s] # NoValue
    BY <2>2 DEF Shape, SourceInv
  <2>4. PICK p : p = <<bucket_number, s>>
    OBVIOUS
  <2>5. p \in Constructed(source) /\ ValueAt(source, p) = source[bucket_number].slots[s]
    BY <2>2, <2>3, <2>4, UninitializedAssumption DEF Constructed, Positions, ValueAt
  <2> QED BY <2>1, <2>5 DEF Stored
<1> QED BY <1>2, <1>3 DEF DrainHeap

\* Without tombstones only the last slot of the array makes a rehash give up.
LEMMA OverrunsAtEnd ==
  ASSUME Shape, Rehashing, NEW value \in Stored(source), InsertOverruns(value),
         \A b \in Nat : ~BucketGetsTombstone(b)
  PROVE  insert_bucket = Physical - 1 /\ insert_slot = kSlotsPerBucket - 1
<1>1. PICK h1 : h1 = Preferred(value)
  OBVIOUS
<1>2. /\ h1 \in 0 .. logical_size_ - 1 /\ logical_size_ \in Nat
      /\ Physical \in Nat /\ logical_size_ < Physical
      /\ insert_bucket \in 0 .. Physical - 1 /\ insert_slot \in SlotNumber
  BY <1>1, SourcePrefers, RehashingShape, PhysicalRange DEF Physical
<1>3. \/ InsertTarget(h1)[1] >= Physical
      \/ NextTarget(InsertTarget(h1)[1], InsertTarget(h1)[2])[1] >= Physical
  BY <1>1 DEF InsertOverruns, Preferred
<1>4. CASE insert_bucket < h1
  <2>1. InsertTarget(h1) = <<h1, 0>>
    BY <1>2, <1>4 DEF InsertTarget, FirstSlot
  <2>2. NextTarget(h1, 0) = <<h1, 1>>
    BY SizeAssumption DEF NextTarget
  <2> QED BY <1>2, <1>3, <2>1, <2>2
<1>5. CASE ~(insert_bucket < h1)
  <2>1. InsertTarget(h1) = <<insert_bucket, insert_slot>>
    BY <1>5 DEF InsertTarget
  <2>2. NextTarget(insert_bucket, insert_slot)[1] >= Physical
    BY <1>2, <1>3, <2>1
  <2>3. insert_slot + 1 = kSlotsPerBucket /\ insert_bucket + 1 >= Physical
    BY <1>2, <2>2 DEF NextTarget
  <2> QED BY <1>2, <2>3, SizeAssumption DEF SlotNumber
<1> QED BY <1>4, <1>5

\* A value without a bucket, and the ones that fill the slots from some bucket
\* on: as many as there are slots.
LEMMA OverrunsFull ==
  ASSUME Searchable, Packed, RoomForCall, Rehashing,
         NEW value \in Stored(source), InsertOverruns(value),
         \A b \in Nat : ~BucketGetsTombstone(b)
  PROVE  \E b \in 0 .. logical_size_ - 1 :
           Cardinality({v \in Stored(buckets_) \cup Stored(source) :
                          H1(HashOf(v), logical_size_) >= b})
             >= (Physical - b) * kSlotsPerBucket
<1>1. /\ Shape /\ CountInv /\ OneSlotPerKey /\ Physical \in Nat /\ logical_size_ \in Nat
      /\ logical_size_ < Physical /\ kSlotsPerBucket \in Nat
  BY RehashingShape, PhysicalRange, SizeAssumption DEF Searchable, Counted, Physical
<1>2. insert_bucket = Physical - 1 /\ insert_slot = kSlotsPerBucket - 1
  BY <1>1, OverrunsAtEnd
<1>3. PICK b \in 0 .. logical_size_ - 1 : PackedFrom(b)
  BY DEF Packed
<1>4. PICK size \in Nat : size = Physical
  BY <1>1
<1>5. PICK last : last = <<size - 1, kSlotsPerBucket - 1>>
  OBVIOUS
<1> DEFINE run == (b .. size - 1) \X SlotNumber
           T == {v \in Stored(buckets_) \cup Stored(source) :
                   H1(HashOf(v), logical_size_) >= b}
           f == [p \in run |-> IF p = last THEN value ELSE ValueAt(buckets_, p)]
<1>6. b \in Nat /\ b < size
  BY <1>1, <1>4
<1>7. Constructed(buckets_) = Occupied(buckets_)
  BY <1>1, ConstructedOccupied DEF Shape, NewInv
<1>8. ASSUME NEW p \in run, p # last
      PROVE  /\ p \in Constructed(buckets_)
             /\ b <= H1(HashOf(ValueAt(buckets_, p)), logical_size_)
  <2>1. PICK x \in b .. size - 1, s \in SlotNumber : p = <<x, s>>
    BY <1>8
  <2>2. x \in Nat /\ s \in 0 .. kSlotsPerBucket - 1
    BY <1>6, <2>1 DEF SlotNumber
  <2>3. FirstSlot(x) = 0
    BY <2>2 DEF FirstSlot
  <2>4. x < size - 1 \/ s < kSlotsPerBucket - 1
    BY <1>1, <1>4, <1>5, <1>8, <2>1, <2>2
  <2>5. FirstSlot(x) <= s /\ (x < insert_bucket \/ s < insert_slot)
    BY <1>2, <1>4, <2>2, <2>3, <2>4
  <2>6. x \in b .. insert_bucket
    BY <1>2, <1>4, <2>1
  <2> QED BY <1>3, <1>7, <2>1, <2>5, <2>6 DEF PackedFrom
<1>9. b <= H1(HashOf(value), logical_size_)
  BY <1>3 DEF PackedFrom
<1>10. \A p \in run : p # last =>
         ValueAt(buckets_, p) \in Stored(buckets_) /\ ValueAt(buckets_, p) \in Values
  <2>1. \A p \in Occupied(buckets_) : ValueAt(buckets_, p) \in Values
    BY <1>1, OccupiedValue
  <2> QED BY <1>7, <1>8, <2>1 DEF Stored
<1>11. \A v \in Values : H1(HashOf(v), logical_size_) \in Int
  BY <1>1, PreferredRange, RehashingShape DEF Shape
<1>12. f \in [run -> T]
  <2>1. value \in Values
    BY <1>1, SourcePrefers
  <2>2. ASSUME NEW p \in run PROVE f[p] \in T
    <3>1. CASE p = last
      BY <1>6, <1>9, <1>11, <2>1, <3>1
    <3>2. CASE p # last
      BY <1>6, <1>8, <1>10, <1>11, <3>2
    <3> QED BY <3>1, <3>2
  <2> QED BY <2>2
<1>13. \A p, q \in run : f[p] = f[q] => p = q
  <2>1. \A v \in Stored(buckets_) : v # value
    BY <1>1 DEF OneSlotPerKey
  <2>2. \A p, q \in run : p # last /\ q # last /\ ValueAt(buckets_, p) = ValueAt(buckets_, q) => p = q
    BY <1>1, <1>8 DEF OneSlotPerKey
  <2> QED BY <1>10, <2>1, <2>2
<1>14. IsFiniteSet(T)
  <2>1. IsFiniteSet(Stored(buckets_)) /\ IsFiniteSet(Stored(source))
    BY <1>1, <1>7, StoredFinite DEF CountInv, RoomForCall
  <2>2. IsFiniteSet(Stored(buckets_) \cup Stored(source))
    BY <2>1, FS_Union
  <2> QED BY <2>2, FS_Subset
<1>15. Cardinality(run) = (size - b) * kSlotsPerBucket /\ Cardinality(run) \in Nat
  <2>1. IsFiniteSet(b .. size - 1) /\ Cardinality(b .. size - 1) = size - b
    BY <1>6, FS_Interval
  <2>2. IsFiniteSet(SlotNumber) /\ Cardinality(SlotNumber) = kSlotsPerBucket
    BY FS_Interval, SizeAssumption DEF SlotNumber
  <2> QED BY <2>1, <2>2, FS_Product, FS_CardinalityType
<1>16. Cardinality(T) \in Nat
  BY <1>14, FS_CardinalityType
<1>17. f \in Injection(run, T)
  <2> HIDE DEF run, T
  <2> QED BY <1>12, <1>13 DEF Injection, IsInjective
<1> HIDE DEF run, f
<1>18. Cardinality(run) <= Cardinality(T)
  <2> HIDE DEF T
  <2> QED BY <1>14, <1>17, FS_Injection
<1>19. Cardinality(T) >= (Physical - b) * kSlotsPerBucket
  <2> HIDE DEF T
  <2> QED BY <1>4, <1>15, <1>16, <1>18
<1> QED BY <1>19

\* The values of a rehash are packed, and its sweep stays inside the old array.
THEOREM PackedInvariant == Spec /\ []DistancesInByte => [](SourceInArray /\ Packed)
<1>1. Init => SourceInArray /\ Packed
  BY DEF Init, SourceInArray, Packed, Rehashing
<1> QED BY <1>1, SweptInvariant, NextSourceInArray, NextPacked, PTL DEF Spec

\* Without tombstones (kTombstoneRatio is nullopt, or sets no bit) a rehash gives
\* up only when it must: the values that prefer some bucket or a later one are at
\* least as many as the slots from that bucket on.
THEOREM RehashAbortsWhenFull ==
  ASSUME \A b \in Nat : ~BucketGetsTombstone(b)
  PROVE  Spec /\ []DistancesInByte => AbortOnlyWhenFull
<1>1. Swept /\ SourceInArray /\ Packed /\ RoomForCall /\ [Next]_vars =>
        (Rehashing /\ pc' = "aborted" =>
           \E b \in 0 .. logical_size_ - 1 :
             Cardinality({v \in Stored(buckets_) \cup Stored(source) :
                            H1(HashOf(v), logical_size_) >= b})
               >= (Physical - b) * kSlotsPerBucket)
  <2> SUFFICES ASSUME Swept, SourceInArray, Packed, RoomForCall, [Next]_vars,
                      Rehashing, pc' = "aborted"
               PROVE  \E b \in 0 .. logical_size_ - 1 :
                        Cardinality({v \in Stored(buckets_) \cup Stored(source) :
                                       H1(HashOf(v), logical_size_) >= b})
                          >= (Physical - b) * kSlotsPerBucket
    OBVIOUS
  <2>1. Searchable /\ Shape
    BY DEF Swept, Searchable, Counted
  <2>2. CASE ScanBucket \/ DrainHeap
    BY <2>1, <2>2, GivesUp, OverrunsFull
  <2>3. CASE GetDisorderedValues
    BY <2>1, <2>3, CollectsInArray
  <2>4. CASE NextBucket \/ FinishRehash \/ UNCHANGED vars
    BY <2>4 DEF NextBucket, FinishRehash, Return, vars, Rehashing
  <2>5. ~Clear /\ ~PlaceValue
    BY DEF Clear, PlaceValue, Rehashing
  <2>6. \A v \in Values : ~Insert(v)
    BY DEF Insert, Rehashing
  <2>7. \A key \in Keys : ~EraseKey(key)
    BY DEF EraseKey, Rehashing
  <2>8. \A p \in (DOMAIN buckets_) \X SlotNumber : ~EraseIterator(p)
    BY DEF EraseIterator, Rehashing
  <2>9. \A count \in ReserveCounts : ~Reserve(count)
    BY DEF Reserve, Rehashing
  <2>10. \A count \in RehashCounts : ~Rehash(count)
    BY DEF Rehash, Rehashing
  <2> QED
    BY <2>2, <2>3, <2>4, <2>5, <2>6, <2>7, <2>8, <2>9, <2>10 DEF Next, Step
<1> QED BY <1>1, SweptInvariant, PackedInvariant, RoomInvariant, PTL
        DEF Spec, AbortOnlyWhenFull

\* As many elements as there are slots from a logical bucket of a small array on
\* are more than a legal load of it, whose slots do not count the overflow buckets.
LEMMA SlotsExceedLoad ==
  ASSUME NEW logical_size \in 1 .. kMaxExtraBuckets + 1, NEW b \in 0 .. logical_size - 1,
         NEW n \in Nat, n >= (PhysicalSize(logical_size) - b) * kSlotsPerBucket,
         full_utilization_numerator < full_utilization_denominator
  PROVE  NeedsRehash(logical_size, n)
<1>1. /\ kSlotsPerBucket \in Nat \ {0} /\ kMaxExtraBuckets \in Nat
      /\ full_utilization_numerator \in Nat /\ full_utilization_denominator \in Nat
  BY SizeAssumption, UtilizationAssumption
<1>2. PICK slots \in Nat : slots = logical_size * kSlotsPerBucket /\ slots > 0
  BY <1>1
<1>3. PICK rest \in Nat : rest = PhysicalSize(logical_size) - b /\ logical_size <= rest
  BY <1>1, PhysicalRange DEF PhysicalSize, ExtraBuckets
<1>4. slots <= rest * kSlotsPerBucket
  BY <1>1, <1>2, <1>3
<1>5. slots <= n
  <2>1. rest * kSlotsPerBucket \in Nat
    BY <1>1, <1>3
  <2> QED BY <1>2, <1>3, <1>4, <2>1
<1>6. slots * full_utilization_numerator < slots * full_utilization_denominator
  BY <1>1, <1>2
<1>7. slots * full_utilization_denominator <= n * full_utilization_denominator
  BY <1>1, <1>2, <1>5, Scaled
<1>8. /\ slots * full_utilization_numerator \in Nat
      /\ slots * full_utilization_denominator \in Nat
      /\ n * full_utilization_denominator \in Nat
  BY <1>1, <1>2
<1> QED BY <1>2, <1>6, <1>7, <1>8 DEF NeedsRehash, LogicalSlotCount

\* A table whose buckets are full from b on stores at least that many values.
LEMMA FullFrom ==
  ASSUME Counted, OneSlotPerKey, NEW b \in Nat, NEW size \in Nat, b < size,
         (b .. size - 1) \X SlotNumber \subseteq Constructed(buckets_)
  PROVE  /\ IsFiniteSet(Stored(buckets_))
         /\ Cardinality(Stored(buckets_)) >= (size - b) * kSlotsPerBucket
<1> DEFINE run == (b .. size - 1) \X SlotNumber
           f == [p \in run |-> ValueAt(buckets_, p)]
<1>1. IsFiniteSet(Stored(buckets_)) /\ Cardinality(Stored(buckets_)) \in Nat
  <2>1. Constructed(buckets_) = Occupied(buckets_)
    BY ConstructedOccupied DEF Counted, Shape, NewInv
  <2> QED BY <2>1, StoredFinite, FS_CardinalityType DEF Counted, CountInv
<1>2. Cardinality(run) = (size - b) * kSlotsPerBucket /\ Cardinality(run) \in Nat
  <2>1. IsFiniteSet(b .. size - 1) /\ Cardinality(b .. size - 1) = size - b
    BY FS_Interval
  <2>2. IsFiniteSet(SlotNumber) /\ Cardinality(SlotNumber) = kSlotsPerBucket
    BY FS_Interval, SizeAssumption DEF SlotNumber
  <2> QED BY <2>1, <2>2, FS_Product, FS_CardinalityType
<1>3. \A p \in run : p \in Constructed(buckets_)
  OBVIOUS
<1> HIDE DEF run
<1>4. f \in [run -> Stored(buckets_)]
  BY <1>3 DEF Stored
<1>5. \A p, q \in run : f[p] = f[q] => p = q
  BY <1>3 DEF OneSlotPerKey
<1>6. f \in Injection(run, Stored(buckets_))
  BY <1>4, <1>5 DEF Injection, IsInjective
<1>7. Cardinality(run) <= Cardinality(Stored(buckets_))
  <2> HIDE DEF f
  <2> QED BY <1>1, <1>6, FS_Injection
<1> QED BY <1>1, <1>2, <1>7

\* An insert that gives up has seen the buckets from its preferred one on full.
LEMMA InsertGivesUp ==
  ASSUME Shape, DistancesInArray, PlaceValue, pc' = "aborted",
         Physical <= kSearchDistanceEndSentinal
  PROVE  /\ logical_size_ > 0
         /\ \E b \in 0 .. logical_size_ - 1 :
              (b .. Physical - 1) \X SlotNumber \subseteq Constructed(buckets_)
<1> DEFINE value == call.value
           b == Preferred(value)
<1>1. /\ value \in Values /\ logical_size_ > 0 /\ AtRest /\ pc # "aborted"
  BY DEF PlaceValue, Shape, CallInv, AtRest
<1>2. /\ Physical \in Nat /\ logical_size_ \in Nat /\ logical_size_ < Physical
      /\ b \in 0 .. logical_size_ - 1 /\ b \in 0 .. Physical - 1
  BY <1>1, PreferredLogical
<1>3. /\ \A x \in 0 .. Physical - 1 : Consistent(buckets_[x])
      /\ DOMAIN buckets_ = 0 .. Physical - 1
  BY <1>1, AtRestShape
<1>4. \A x \in 0 .. Physical - 1 : buckets_[x] # Uninitialized
  BY <1>1, <1>3 DEF Shape, NewInv, InitializedPrefix
<1>5. b + buckets_[b].search_distance <= Physical
  BY <1>1, <1>2, <1>3, <1>4 DEF DistancesInArray
<1>6. b = H1(hasher[KeyOf[value]], logical_size_) /\ b = H1(HashOf(value), logical_size_)
  BY DEF Preferred, HashOf
<1>7. OpenOffsets(b) = {}
  <2>1. SearchDistance(KeyOf[value]) = buckets_[b].search_distance
    BY <1>6 DEF SearchDistance
  <2>2. buckets_[b].search_distance \in Nat
    BY <1>2, <1>3, SizeAssumption DEF Consistent, Bucket
  <2>3. ~Overruns(KeyOf[value], SearchDistance(KeyOf[value]))
    <3> HIDE DEF b, value, Physical
    <3> QED BY <1>2, <1>5, <1>6, <2>1, <2>2 DEF Overruns
  <2>4. \/ Overruns(KeyOf[value], SearchDistance(KeyOf[value]))
        \/ OpenOffsets(H1(HashOf(value), logical_size_)) = {}
    BY DEF PlaceValue, Return
  <2> QED BY <1>6, <2>3, <2>4
<1> HIDE DEF b, value
<1>8. ASSUME NEW x \in b .. Physical - 1, NEW s \in SlotNumber
      PROVE  <<x, s>> \in Constructed(buckets_)
  <2>1. x \in 0 .. Physical - 1 /\ x - b \in 0 .. kSearchDistanceEndSentinal - 1
        /\ b + (x - b) = x /\ x < Physical
    <3> HIDE DEF Physical
    <3> QED BY <1>2, SizeAssumption
  <2>2. FindEmpties(buckets_[x]) = {}
    <3>1. x - b \notin OpenOffsets(b)
      BY <1>7
    <3> HIDE DEF Physical
    <3> QED BY <2>1, <3>1 DEF OpenOffsets
  <2>3. buckets_[x].h2[s] # kEmpty
    BY <2>2 DEF FindEmpties, IsEmpty
  <2>4. buckets_[x].slots[s] # NoValue
    BY <1>3, <2>1, <2>3 DEF Consistent
  <2> QED BY <1>3, <1>4, <2>1, <2>4, ConstructedSlot
<1>9. (b .. Physical - 1) \X SlotNumber \subseteq Constructed(buckets_)
  BY <1>8
<1> QED BY <1>1, <1>2, <1>9

\* The steps of a rehash, or of the insert behind it, that end the program
LEMMA StepsThatAbort ==
  ASSUME Shape, SourceInArray, [Next]_vars, Rehashing \/ pc = "insert", pc' = "aborted"
  PROVE  \/ Rehashing /\ (ScanBucket \/ DrainHeap)
         \/ PlaceValue
<1>1. pc \in {"collect", "scan", "insert"} /\ pc # "idle"
  BY DEF Rehashing
<1>2. /\ ~Clear
      /\ \A v \in Values : ~Insert(v)
      /\ \A key \in Keys : ~EraseKey(key)
      /\ \A p \in (DOMAIN buckets_) \X SlotNumber : ~EraseIterator(p)
      /\ \A count \in ReserveCounts : ~Reserve(count)
      /\ \A count \in RehashCounts : ~Rehash(count)
  BY <1>1 DEF Clear, Insert, EraseKey, EraseIterator, Reserve, Rehash
<1>3. ~GetDisorderedValues
  BY CollectsInArray
<1>4. ~NextBucket /\ ~FinishRehash /\ ~UNCHANGED vars
  BY <1>1 DEF NextBucket, FinishRehash, Return, vars
<1>5. ScanBucket \/ DrainHeap => Rehashing
  BY DEF ScanBucket, DrainHeap, Rehashing
<1> QED BY <1>2, <1>3, <1>4, <1>5 DEF Next, Step

\* Without tombstones a table of at most kMaxExtraBuckets + 1 logical buckets
\* never runs out of buckets at a legal load, in a rehash or in an insert: there
\* are as many slots from its last logical bucket on as it has in all its logical
\* buckets.  (A search distance must be able to cover such a table.)
THEOREM SmallTablesHaveRoom ==
  ASSUME \A b \in Nat : ~BucketGetsTombstone(b),
         full_utilization_numerator < full_utilization_denominator,
         2 * kMaxExtraBuckets + 1 <= kSearchDistanceEndSentinal
  PROVE  Spec /\ []DistancesInByte => SmallTablesFit
<1> DEFINE held == Stored(buckets_) \cup Stored(source)
<1>1. Swept /\ SourceInArray /\ Packed /\ RoomForCall /\ [Next]_vars =>
        ((Rehashing \/ pc = "insert") /\ pc' = "aborted" =>
           \/ logical_size_ > kMaxExtraBuckets + 1
           \/ NeedsRehash(logical_size_, Cardinality(held)))
  <2> SUFFICES ASSUME Swept, SourceInArray, Packed, RoomForCall, [Next]_vars,
                      Rehashing \/ pc = "insert", pc' = "aborted",
                      ~(logical_size_ > kMaxExtraBuckets + 1)
               PROVE  NeedsRehash(logical_size_, Cardinality(held))
    OBVIOUS
  <2>1. Searchable /\ Counted /\ Shape /\ OneSlotPerKey /\ DistancesInArray
    BY DEF Swept, Searchable, Counted
  <2>2. logical_size_ \in Nat /\ kMaxExtraBuckets \in Nat /\ Physical \in Nat
    BY <2>1, SizeAssumption, PhysicalRange DEF Shape, TypeOK, Physical
  <2>3. CASE Rehashing /\ (ScanBucket \/ DrainHeap)
    <3>1. PICK b \in 0 .. logical_size_ - 1 :
            Cardinality({v \in held : H1(HashOf(v), logical_size_) >= b})
              >= (Physical - b) * kSlotsPerBucket
      BY <2>1, <2>3, GivesUp, OverrunsFull
    <3>2. IsFiniteSet(held)
      <4>1. Constructed(buckets_) = Occupied(buckets_)
        BY <2>1, ConstructedOccupied DEF Shape, NewInv
      <4>2. IsFiniteSet(Stored(buckets_)) /\ IsFiniteSet(Stored(source))
        BY <2>1, <2>3, <4>1, StoredFinite DEF Counted, CountInv, RoomForCall
      <4> QED BY <4>2, FS_Union
    <3> DEFINE T == {v \in held : H1(HashOf(v), logical_size_) >= b}
    <3>3. /\ Cardinality(T) \in Nat /\ Cardinality(held) \in Nat
          /\ Cardinality(T) <= Cardinality(held)
      <4> HIDE DEF held
      <4>1. T \subseteq held
        OBVIOUS
      <4> QED BY <3>2, <4>1, FS_Subset, FS_CardinalityType
    <3>4. logical_size_ \in 1 .. kMaxExtraBuckets + 1
      BY <2>2, <3>1
    <3>5. Cardinality(held) >= (PhysicalSize(logical_size_) - b) * kSlotsPerBucket
      <4>1. PICK slots \in Int : slots = (Physical - b) * kSlotsPerBucket
        BY <2>2, SizeAssumption
      <4> HIDE DEF T, held
      <4>2. slots <= Cardinality(T)
        BY <3>1, <4>1 DEF T
      <4>3. slots <= Cardinality(held)
        BY <3>3, <4>2
      <4> QED BY <4>1, <4>3 DEF Physical
    <3> HIDE DEF held, T
    <3> QED BY <3>3, <3>4, <3>5, SlotsExceedLoad
  <2>4. CASE PlaceValue
    <3>1. AtRest /\ Stored(source) = {}
      BY <2>1, <2>4, AtRestSource DEF PlaceValue, AtRest, Stored
    <3>2. Physical <= kSearchDistanceEndSentinal
      BY <2>2, SizeAssumption DEF Physical, PhysicalSize, ExtraBuckets
    <3>3. logical_size_ > 0
      BY <2>1, <2>4, <3>2, InsertGivesUp
    <3>4. PICK b \in 0 .. logical_size_ - 1 :
            (b .. Physical - 1) \X SlotNumber \subseteq Constructed(buckets_)
      BY <2>1, <2>4, <3>2, InsertGivesUp
    <3>5. b \in Nat /\ b < Physical
      BY <2>2, PhysicalRange DEF Physical
    <3>6. /\ IsFiniteSet(Stored(buckets_))
          /\ Cardinality(Stored(buckets_)) >= (Physical - b) * kSlotsPerBucket
      <4> HIDE DEF Physical
      <4> QED BY <2>1, <2>2, <3>4, <3>5, FullFrom
    <3>7. held = Stored(buckets_)
      BY <3>1
    <3>8. logical_size_ \in 1 .. kMaxExtraBuckets + 1
      BY <2>2, <3>3
    <3> HIDE DEF held
    <3> QED BY <3>6, <3>7, <3>8, FS_CardinalityType, SlotsExceedLoad DEF Physical
  <2> QED BY <2>1, <2>3, <2>4, StepsThatAbort
<1> QED BY <1>1, SweptInvariant, PackedInvariant, RoomInvariant, PTL
        DEF Spec, SmallTablesFit

-----------------------------------------------------------------------------
(* All together *)

\* The inductive invariant in full: the elements are where lookups find them, a
\* rehash is in order, has room, keeps tombstones and search distances, and packs
\* its values.
THEOREM InvariantHolds == Spec /\ []DistancesInByte => []Invariant
<1>1. Init => NoCallIdle
  BY DEF Init, NoCallIdle
<1>2. /\ Swept /\ NoCallIdle /\ RoomForCall /\ Tight /\ TombstonesKept
      /\ SourceInArray /\ Packed
      => Invariant
  BY DEF Invariant
<1> QED BY <1>1, <1>2, SweptInvariant, NextNoCallIdle, RoomInvariant, TightInvariant,
           TombstonesInvariant, PackedInvariant, PTL DEF Spec

\* In a table that never has more than 255 buckets all of it holds without
\* further hypotheses.
THEOREM SmallTablesInvariant ==
  ASSUME DistancesFit
  PROVE  Spec => []Invariant /\ RehashTightens
<1>1. Shape => DistancesInByte
  BY SmallDistances
<1> QED BY <1>1, ShapeInvariant, InvariantHolds, RehashForgets, PTL

-----------------------------------------------------------------------------
(* Probe statistics *)

\* GetSuccessfulProbeLength comes to the bucket of the value, and as far.
SuccessExact ==
  AtRest =>
    \A p \in Occupied(buckets_) :
      LET h1 == PreferredBucket(ValueAt(buckets_, p))
      IN  /\ SuccessfulProbeLength(ValueAt(buckets_, p)) = {p[1] - h1 + 1}
          /\ p[1] - h1 + 1 <= buckets_[h1].search_distance

\* The bucket of an element is the only one in which its value is seen.
LEMMA SeenInBucket ==
  ASSUME Searchable, AtRest, NEW p \in Occupied(buckets_), NEW b \in 0 .. Physical - 1
  PROVE  (\E s \in FindNonEmpties(buckets_[b]) : buckets_[b].slots[s] = ValueAt(buckets_, p))
           <=> b = p[1]
<1>1. /\ Shape /\ OneSlotPerKey /\ Constructed(buckets_) = Occupied(buckets_)
  BY ConstructedOccupied DEF Searchable, Counted, Shape, NewInv
<1>2. /\ p = <<p[1], p[2]>> /\ p[2] \in SlotNumber /\ buckets_[p[1]].h2[p[2]] # kEmpty
  BY OccupiedPair
<1>3. b = p[1] => p[2] \in FindNonEmpties(buckets_[b])
  BY <1>2 DEF FindNonEmpties, FindEmpties, IsEmpty
<1>4. ASSUME NEW s \in FindNonEmpties(buckets_[b]),
             buckets_[b].slots[s] = ValueAt(buckets_, p)
      PROVE  b = p[1]
  <2>1. b \in DOMAIN buckets_ /\ buckets_[b] # Uninitialized
    BY <1>1, AtRestShape, UninitializedAssumption DEF Consistent
  <2>2. s \in SlotNumber /\ buckets_[b].h2[s] # kEmpty
    BY DEF FindNonEmpties, FindEmpties, IsEmpty
  <2>3. <<b, s>> \in Occupied(buckets_)
    BY <2>1, <2>2, OccupiedSlot
  <2>4. ValueAt(buckets_, <<b, s>>) = ValueAt(buckets_, p)
    BY <1>4 DEF ValueAt
  <2>5. <<b, s>> = p
    BY <1>1, <2>3, <2>4 DEF OneSlotPerKey
  <2> QED BY <2>5
<1> QED BY <1>2, <1>3, <1>4 DEF ValueAt

\* So that is where GetSuccessfulProbeLength stops.
LEMMA SuccessfulProbe ==
  ASSUME Searchable
  PROVE  SuccessExact
<1> SUFFICES ASSUME AtRest, NEW p \in Occupied(buckets_)
             PROVE  LET h1 == PreferredBucket(ValueAt(buckets_, p))
                    IN  /\ SuccessfulProbeLength(ValueAt(buckets_, p)) = {p[1] - h1 + 1}
                        /\ p[1] - h1 + 1 <= buckets_[h1].search_distance
  BY DEF SuccessExact
<1> DEFINE value == ValueAt(buckets_, p)
           h1 == PreferredBucket(value)
           seen(j) == /\ h1 + j < Physical
                      /\ \E s \in FindNonEmpties(buckets_[h1 + j]) :
                           buckets_[h1 + j].slots[s] = value
<1>1. Shape /\ Located /\ LocatedAt(buckets_, p)
  BY LocatedEach DEF Searchable, Counted
<1>2. h1 = Preferred(value)
  BY DEF PreferredBucket, Preferred
<1>3. /\ p[1] \in 0 .. Physical - 1 /\ Physical \in Nat /\ h1 \in 0 .. Physical - 1
  BY <1>1, <1>2, OccupiedPair, OccupiedValue
<1>4. buckets_[h1].search_distance \in Nat
  <2>1. buckets_[h1] \in Bucket
    BY <1>1, <1>3, AtRestShape DEF Consistent
  <2> QED BY <2>1, SizeAssumption DEF Bucket
<1>5. h1 <= p[1] /\ p[1] < h1 + buckets_[h1].search_distance
  BY <1>1, <1>2 DEF LocatedAt
<1>6. \A b \in 0 .. Physical - 1 :
        (\E s \in FindNonEmpties(buckets_[b]) : buckets_[b].slots[s] = value) <=> b = p[1]
  BY SeenInBucket
<1>7. SuccessfulProbeLength(value) = {i + 1 : i \in Least({j \in Offsets(value) : seen(j)})}
  BY DEF SuccessfulProbeLength
<1>8. Offsets(value) = 0 .. buckets_[h1].search_distance
  BY DEF Offsets
<1> HIDE DEF h1, Physical, value
<1>9. ASSUME NEW j \in Offsets(value)
      PROVE  seen(j) <=> j = p[1] - h1
  <2>1. j \in Nat /\ h1 + j \in Nat
    BY <1>3, <1>4, <1>8
  <2>2. PICK b \in Nat : b = h1 + j
    BY <2>1
  <2>3. seen(j) <=> b < Physical /\ b = p[1]
    BY <1>3, <1>6, <2>2
  <2> QED BY <1>3, <2>1, <2>2, <2>3
<1>10. PICK d \in Nat : d = p[1] - h1
  BY <1>3, <1>5
<1>11. d \in Offsets(value)
  BY <1>3, <1>4, <1>5, <1>8, <1>10
<1>12. {j \in Offsets(value) : seen(j)} = {d}
  BY <1>9, <1>10, <1>11
<1>13. Least({d}) = {d}
  BY DEF Least
<1>14. SuccessfulProbeLength(value) = {d + 1}
  BY <1>7, <1>12, <1>13
<1> QED BY <1>3, <1>4, <1>5, <1>10, <1>14 DEF h1, value

\* An insert that adds a value puts it in the first bucket with an empty slot.
LEMMA InsertProbe ==
  ASSUME Searchable, PlaceValue, pc' = "idle", result' = "inserted"
  PROVE  LET h1 == PreferredBucket(call.value)
         IN  /\ UNCHANGED <<hasher, logical_size_>>
             /\ \E p \in Occupied(buckets_') :
                  /\ p \notin Occupied(buckets_) /\ ValueAt(buckets_', p) = call.value
                  /\ InsertProbeLength(h1) = {p[1] - h1 + 1}
<1> DEFINE value == call.value
           h1 == PreferredBucket(value)
<1>1. /\ Shape /\ AtRest /\ value \in Values /\ logical_size_ > 0
      /\ size_ \in Nat /\ UNCHANGED hasher
  BY DEF Searchable, Counted, Shape, TypeOK, CallInv, PlaceValue, AtRest
<1>2. size_' = size_ + 1
  BY DEF PlaceValue, Return
<1>3. ~UNCHANGED table
  BY <1>1, <1>2 DEF table
<1>4. h1 = Preferred(value)
  BY DEF PreferredBucket, Preferred
<1>5. PICK i \in 0 .. kSearchDistanceEndSentinal - 1, s \in SlotNumber :
        /\ i \in Least(OpenOffsets(h1))
        /\ \E meta_byte : Adds(buckets_, buckets_', <<h1 + i, s>>, meta_byte, value)
        /\ UNCHANGED logical_size_
  <2>1. /\ UNCHANGED logical_size_
        /\ \E i \in 0 .. kSearchDistanceEndSentinal - 1, s \in SlotNumber :
             /\ i \in Least(OpenOffsets(Preferred(value)))
             /\ Adds(buckets_, buckets_', <<Preferred(value) + i, s>>,
                     SetUnorderedValue(H2(HashOf(value))), value)
             /\ Grows(buckets_, buckets_')
             /\ i + 1 <= buckets_'[Preferred(value)].search_distance
    BY <1>1, <1>3, PlaceValueAdds
  <2> HIDE DEF value
  <2> QED BY <1>4, <2>1 DEF h1
<1>6. PICK p : p = <<h1 + i, s>>
  OBVIOUS
<1>7. /\ p \in Occupied(buckets_') /\ p \notin Occupied(buckets_)
      /\ ValueAt(buckets_', p) = value
  BY <1>5, <1>6 DEF Adds
<1>8. h1 \in 0 .. Physical - 1 /\ Physical \in Nat /\ kSearchDistanceEndSentinal \in Nat
  BY <1>1, <1>4, PreferredLogical, SizeAssumption
<1>9. InsertProbeLength(h1)
        = {j + 1 : j \in Least({k \in 0 .. Physical - 1 - h1 :
                                  FindEmpties(buckets_[h1 + k]) # {}})}
  BY DEF InsertProbeLength
<1> HIDE DEF h1, Physical, value
<1> DEFINE open == {k \in 0 .. Physical - 1 - h1 : FindEmpties(buckets_[h1 + k]) # {}}
<1>10. /\ i \in open
       /\ \A k \in open : i <= k
  <2>1. /\ i \in Nat /\ i < kSearchDistanceEndSentinal
        /\ h1 + i < Physical /\ FindEmpties(buckets_[h1 + i]) # {}
        /\ \A k \in OpenOffsets(h1) : i <= k
    BY <1>5, <1>8 DEF Least, OpenOffsets
  <2>2. i \in open
    BY <1>8, <2>1
  <2>3. ASSUME NEW k \in open PROVE i <= k
    <3>1. k \in Nat /\ h1 + k < Physical /\ FindEmpties(buckets_[h1 + k]) # {}
      BY <1>8
    <3>2. CASE k < kSearchDistanceEndSentinal
      <4>1. k \in OpenOffsets(h1)
        BY <1>8, <3>1, <3>2 DEF OpenOffsets
      <4> QED BY <2>1, <4>1
    <3>3. CASE ~(k < kSearchDistanceEndSentinal)
      BY <1>8, <2>1, <3>1, <3>3
    <3> QED BY <3>2, <3>3
  <2> QED BY <2>2, <2>3
<1>11. Least(open) = {i}
  <2>1. \A k \in open : k \in Int
    BY <1>8
  <2> HIDE DEF open
  <2>2. \A k \in open : (\A x \in open : k <= x) => k = i
    BY <1>10, <2>1
  <2> QED BY <1>10, <2>2 DEF Least
<1>12. i = p[1] - h1
  BY <1>6, <1>8
<1>13. InsertProbeLength(h1) = {p[1] - h1 + 1}
  BY <1>9, <1>11, <1>12
<1> QED BY <1>1, <1>5, <1>7, <1>13 DEF h1, value

\* GetProbeStatistics() tells the cost of the calls to come: an insert examines
\* as many buckets as GetInsertProbeLength says of its preferred bucket, the
\* lookup of the value then as many as the insert, and no value is farther away
\* than the search for an absent key of its bucket goes.
THEOREM StatisticsCorrect == Spec /\ []DistancesInByte => StatisticsPredict
<1>1. Searchable => SuccessExact
  BY SuccessfulProbe
<1>2. /\ Searchable /\ Searchable' /\ SuccessExact' /\ [Next]_vars
      /\ pc = "insert" /\ pc' = "idle" /\ result' = "inserted"
      => \E new \in {call.value}, p \in Occupied(buckets_)' :
           /\ p \notin Occupied(buckets_) /\ ValueAt(buckets_', p) = new
           /\ InsertProbeLength(PreferredBucket(new)) = {p[1] - PreferredBucket(new) + 1}
           /\ SuccessfulProbeLength(new)' = InsertProbeLength(PreferredBucket(new))
           /\ \A v \in Stored(buckets_)' : \A d \in SuccessfulProbeLength(v)' :
                d <= buckets_'[PreferredBucket(v)].search_distance
  <2> SUFFICES ASSUME Searchable, Searchable', SuccessExact', [Next]_vars,
                      pc = "insert", pc' = "idle", result' = "inserted",
                      NEW new, new = call.value
               PROVE  \E p \in Occupied(buckets_)' :
                        /\ p \notin Occupied(buckets_) /\ ValueAt(buckets_', p) = new
                        /\ InsertProbeLength(PreferredBucket(new))
                             = {p[1] - PreferredBucket(new) + 1}
                        /\ SuccessfulProbeLength(new)' = InsertProbeLength(PreferredBucket(new))
                        /\ \A v \in Stored(buckets_)' : \A d \in SuccessfulProbeLength(v)' :
                             d <= buckets_'[PreferredBucket(v)].search_distance
    OBVIOUS
  <2>1. PlaceValue
    BY DEF Next, Step, vars, Insert, EraseKey, EraseIterator, Clear, Reserve, Rehash,
           GetDisorderedValues, ScanBucket, NextBucket, DrainHeap, FinishRehash
  <2>3. /\ UNCHANGED <<hasher, logical_size_>>
        /\ \E p \in Occupied(buckets_') :
             /\ p \notin Occupied(buckets_) /\ ValueAt(buckets_', p) = new
             /\ InsertProbeLength(PreferredBucket(new)) = {p[1] - PreferredBucket(new) + 1}
    BY <2>1, InsertProbe
  <2>4. PICK p \in Occupied(buckets_') :
          /\ p \notin Occupied(buckets_) /\ ValueAt(buckets_', p) = new
          /\ InsertProbeLength(PreferredBucket(new)) = {p[1] - PreferredBucket(new) + 1}
    BY <2>3
  <2>5. ASSUME NEW v PROVE PreferredBucket(v)' = PreferredBucket(v)
    BY <2>3 DEF PreferredBucket, HashOf
  <2>6. ASSUME NEW q \in Occupied(buckets_'), NEW v, v = ValueAt(buckets_', q)
        PROVE  /\ SuccessfulProbeLength(v)' = {q[1] - PreferredBucket(v) + 1}
               /\ q[1] - PreferredBucket(v) + 1
                    <= buckets_'[PreferredBucket(v)].search_distance
    BY <2>5, <2>6 DEF SuccessExact, AtRest
  <2>7. SuccessfulProbeLength(new)' = InsertProbeLength(PreferredBucket(new))
    BY <2>4, <2>6
  <2>8. ASSUME NEW v \in Stored(buckets_'), NEW d \in SuccessfulProbeLength(v)'
        PROVE  d <= buckets_'[PreferredBucket(v)].search_distance
    <3>1. Constructed(buckets_') = Occupied(buckets_')
      BY ConstructedOccupied DEF Searchable, Counted, Shape, NewInv
    <3>2. PICK q \in Occupied(buckets_') : v = ValueAt(buckets_', q)
      BY <3>1 DEF Stored
    <3> QED BY <2>6, <3>2
  <2> QED BY <2>4, <2>7, <2>8
<1> QED BY <1>1, <1>2, SearchableInvariant, PTL DEF Spec, StatisticsPredict

\* They tell it of a small table without further hypotheses.
THEOREM SmallTablesPredicted ==
  ASSUME DistancesFit
  PROVE  Spec => StatisticsPredict
<1>1. Shape => DistancesInByte
  BY SmallDistances
<1> QED BY <1>1, ShapeInvariant, StatisticsCorrect, PTL
=============================================================================
