------------------------- MODULE HashTableOrderProofs -------------------------
(***************************************************************************)
(* Proofs about the sweep of a rehash: it leaves no value behind, moves    *)
(* the values in the order of their hashes, and so leaves the ordered      *)
(* values of the table sorted.  From this, that the table implements the   *)
(* set of AbstractSet.tla: whatever it does with buckets, meta bytes,      *)
(* search distances and rehashes, its callers see a set of values with     *)
(* unique keys.                                                            *)
(***************************************************************************)
EXTENDS HashTableProofs

-----------------------------------------------------------------------------
(* What the steps of the sweep do to the slots it has yet to visit *)

\* The slots occupied in `new` were occupied in `old`, by the same values, and
\* no search distance has changed.
Shrinks(old, new) ==
  /\ DOMAIN new = DOMAIN old
  /\ Occupied(new) \subseteq Occupied(old)
  /\ \A q \in Occupied(new) : Keeps(old, new, q)
  /\ \A b \in DOMAIN old : new[b].search_distance = old[b].search_distance

\* Preferred buckets are in the order of the hashes.
LEMMA H1Monotone ==
  ASSUME NEW low \in Hash, NEW high \in Hash, low <= high, NEW logical_size \in Nat
  PROVE  H1(low, logical_size) <= H1(high, logical_size)
<1>1. low \in Nat /\ high \in Nat /\ HashSpace \in Nat \ {0}
  BY HashAssumption DEF Hash
<1>2. PICK a \in Nat, b \in Nat : a = low * logical_size /\ b = high * logical_size
  BY <1>1
<1>3. a <= b
  BY <1>1, <1>2
<1>4. a \div HashSpace <= b \div HashSpace
  <2>1. PICK x \in Int, y \in Int : x = a \div HashSpace /\ y = b \div HashSpace
    BY <1>1, <1>2
  <2>2. HashSpace * x <= a /\ b < HashSpace * y + HashSpace
    BY <1>1, <1>2, <2>1
  <2>3. HashSpace * x < HashSpace * (y + 1)
    BY <1>1, <1>3, <2>2
  <2>4. x < y + 1
    BY <1>1, <2>3
  <2> QED BY <2>1, <2>4
<1> QED BY <1>2, <1>4 DEF H1

\* An occupied slot of the source holds a value that prefers one of its buckets.
LEMMA SourceOccupied ==
  ASSUME Shape, NEW p \in Occupied(source)
  PROVE  /\ p = <<p[1], p[2]>> /\ p[1] \in 0 .. SourcePhysical - 1 /\ p[2] \in SlotNumber
         /\ SourcePhysical \in Nat /\ source_logical_size \in Nat \ {0}
         /\ source[p[1]].h2[p[2]] \in MetaByte \ {kEmpty}
         /\ ValueAt(source, p) \in Values /\ HashOf(ValueAt(source, p)) \in Hash
         /\ SourcePreferred(p) \in 0 .. source_logical_size - 1
         /\ SourcePreferred(p) \in 0 .. SourcePhysical - 1
         /\ source[SourcePreferred(p)].search_distance \in Nat
         /\ p \in Constructed(source)
<1>1. /\ SourcePhysical \in Nat /\ DOMAIN source = 0 .. SourcePhysical - 1
      /\ source \in [0 .. SourcePhysical - 1 -> Bucket]
  BY SourceTyped
<1>2. /\ p = <<p[1], p[2]>> /\ p[1] \in 0 .. SourcePhysical - 1 /\ p[2] \in SlotNumber
      /\ source[p[1]] # Uninitialized /\ source[p[1]].h2[p[2]] # kEmpty
  BY <1>1, OccupiedPair
<1>3. source[p[1]] \in Bucket
  BY <1>1, <1>2
<1>4. source[p[1]].slots[p[2]] # NoValue
  BY <1>1, <1>2 DEF Shape, SourceInv
<1>5. ValueAt(source, p) \in Values /\ source[p[1]].h2[p[2]] \in MetaByte \ {kEmpty}
  BY <1>2, <1>3, <1>4 DEF Bucket, ValueAt
<1>6. source_logical_size \in Nat /\ SourcePhysical = PhysicalSize(source_logical_size)
  BY SizeAssumption DEF Shape, TypeOK, SourcePhysical
<1>7. source_logical_size # 0
  BY <1>1, <1>2, <1>6, PhysicalRange
<1>8. HashOf(ValueAt(source, p)) \in Hash
  BY <1>5, PreferredRange DEF Shape
<1>9. SourcePreferred(p) \in 0 .. source_logical_size - 1
  BY <1>6, <1>7, <1>8, H1Range DEF SourcePreferred
<1>10. SourcePreferred(p) \in 0 .. SourcePhysical - 1
  BY <1>6, <1>7, <1>9, PhysicalRange
<1>11. source[SourcePreferred(p)].search_distance \in Nat
  BY <1>1, <1>10, SizeAssumption DEF Bucket
<1>12. <<p[1], p[2]>> \in Constructed(source)
  BY <1>1, <1>2, <1>4, ConstructedSlot
<1> QED BY <1>1, <1>2, <1>5, <1>6, <1>7, <1>8, <1>9, <1>10, <1>11, <1>12

\* An object of the source is in an occupied slot, or the heap refers to it.
LEMMA ConstructedSource ==
  ASSUME Shape, NEW p \in Constructed(source), p \notin Occupied(source)
  PROVE  \E i \in heap : /\ p = <<i.bucket, i.slot>>
                         /\ HeapHash(i) = HashOf(ValueAt(source, p))
<1>1. /\ p = <<p[1], p[2]>> /\ p[1] \in DOMAIN source /\ p[2] \in SlotNumber
      /\ source[p[1]] # Uninitialized
      /\ source[p[1]].slots[p[2]] # NoValue
  BY ConstructedPair
<1>2. source[p[1]].h2[p[2]] = kEmpty
  BY <1>1, OccupiedSlot
<1>3. PICK i \in heap : i.bucket = p[1] /\ i.slot = p[2]
  BY <1>1, <1>2 DEF Shape, SourceInv
<1> QED BY <1>1, <1>3 DEF HeapHash, ValueAt

\* Emptying a slot's byte leaves the others occupied as they were.
LEMMA ClearedShrinks ==
  ASSUME NEW n \in Nat, NEW old \in [0 .. n - 1 -> Bucket],
         NEW new, DOMAIN new = 0 .. n - 1,
         \A x \in 0 .. n - 1 :
           /\ new[x].search_distance = old[x].search_distance
           /\ \A y \in SlotNumber :
                new[x].h2[y] # kEmpty => /\ new[x].h2[y] = old[x].h2[y]
                                         /\ new[x].slots[y] = old[x].slots[y]
  PROVE  Shrinks(old, new)
<1>1. ASSUME NEW q \in Occupied(new)
      PROVE  q \in Occupied(old) /\ Keeps(old, new, q)
  <2>1. /\ q = <<q[1], q[2]>> /\ q[1] \in 0 .. n - 1 /\ q[2] \in SlotNumber
        /\ new[q[1]].h2[q[2]] # kEmpty
    BY OccupiedPair
  <2>2. /\ new[q[1]].h2[q[2]] = old[q[1]].h2[q[2]]
        /\ new[q[1]].slots[q[2]] = old[q[1]].slots[q[2]]
    BY <2>1
  <2>3. old[q[1]] # Uninitialized
    BY <2>1, UninitializedAssumption
  <2>4. <<q[1], q[2]>> \in Occupied(old)
    BY <2>1, <2>2, <2>3, OccupiedSlot
  <2> QED BY <2>1, <2>2, <2>4 DEF Keeps, MetaAt, ValueAt
<1> QED BY <1>1 DEF Shrinks

\* Moving a value of the heap leaves the slots the scan has yet to visit alone.
LEMMA MoveFromHeapShrinks ==
  ASSUME Shape, NEW item \in heap,
         source' = [source EXCEPT ![item.bucket].slots[item.slot] = NoValue]
  PROVE  Shrinks(source, source')
<1>1. /\ source \in [0 .. SourcePhysical - 1 -> Bucket] /\ SourcePhysical \in Nat
      /\ item.bucket \in 0 .. SourcePhysical - 1 /\ item.slot \in SlotNumber
  BY SourceTyped, HeapValue
<1>2. source[item.bucket].h2[item.slot] = kEmpty
  BY DEF Shape, HeapInv
<1>3. ASSUME NEW new, new = source'
      PROVE  Shrinks(source, new)
  <2>1. WritesSlot(0 .. SourcePhysical - 1, source, new, item.bucket, item.slot, NoValue)
    BY <1>1, <1>3, EmptyTyped DEF WritesSlot
  <2>2. SlotEffect(0 .. SourcePhysical - 1, source, new, item.bucket, item.slot, NoValue)
    BY <2>1, SlotWritten
  <2>3. new \in [0 .. SourcePhysical - 1 -> Bucket]
    BY <2>2 DEF SlotEffect
  <2>4. ASSUME NEW x \in 0 .. SourcePhysical - 1
        PROVE  /\ new[x].search_distance = source[x].search_distance
               /\ \A y \in SlotNumber :
                    new[x].h2[y] # kEmpty => /\ new[x].h2[y] = source[x].h2[y]
                                             /\ new[x].slots[y] = source[x].slots[y]
    BY <1>2, <2>2 DEF SlotEffect
  <2> QED BY <1>1, <2>3, <2>4, ClearedShrinks
<1> QED BY <1>3

\* Moving the value the scan has come to empties its slot, and no other.
LEMMA MoveFromSlotShrinks ==
  ASSUME Shape, NEW b \in DOMAIN source, NEW s \in SlotNumber,
         source' = [source EXCEPT ![b].slots[s] = NoValue, ![b].h2[s] = kEmpty]
  PROVE  Shrinks(source, source') /\ <<b, s>> \notin Occupied(source')
<1>1. /\ source \in [0 .. SourcePhysical - 1 -> Bucket] /\ SourcePhysical \in Nat
      /\ b \in 0 .. SourcePhysical - 1
  BY SourceTyped
<1> DEFINE f == [source EXCEPT ![b].slots[s] = NoValue]
<1>2. SlotEffect(0 .. SourcePhysical - 1, source, f, b, s, NoValue)
  <2>1. WritesSlot(0 .. SourcePhysical - 1, source, f, b, s, NoValue)
    BY <1>1, EmptyTyped DEF WritesSlot
  <2> HIDE DEF f
  <2> QED BY <2>1, SlotWritten
<1>3. source' = [f EXCEPT ![b].h2[s] = kEmpty]
  OBVIOUS
<1> HIDE DEF f
<1>4. ASSUME NEW new, new = source'
      PROVE  Shrinks(source, new) /\ <<b, s>> \notin Occupied(new)
  <2>1. WritesByte(0 .. SourcePhysical - 1, f, new, b, s, kEmpty)
    BY <1>1, <1>2, <1>3, <1>4, EmptyTyped DEF WritesByte, SlotEffect
  <2>2. ByteEffect(0 .. SourcePhysical - 1, f, new, b, s, kEmpty)
    BY <2>1, ByteWritten
  <2>3. new \in [0 .. SourcePhysical - 1 -> Bucket] /\ new[b].h2[s] = kEmpty
    BY <1>1, <2>2 DEF ByteEffect
  <2>4. ASSUME NEW x \in 0 .. SourcePhysical - 1
        PROVE  /\ new[x].search_distance = source[x].search_distance
               /\ \A y \in SlotNumber :
                    new[x].h2[y] # kEmpty => /\ new[x].h2[y] = source[x].h2[y]
                                             /\ new[x].slots[y] = source[x].slots[y]
    <3>1. /\ new[x].search_distance = f[x].search_distance
          /\ new[x].slots = f[x].slots
          /\ \A y \in SlotNumber :
               new[x].h2[y] = IF x = b /\ y = s THEN kEmpty ELSE f[x].h2[y]
      BY <2>2 DEF ByteEffect
    <3>2. /\ f[x].search_distance = source[x].search_distance
          /\ f[x].h2 = source[x].h2
          /\ \A y \in SlotNumber :
               f[x].slots[y] = IF x = b /\ y = s THEN NoValue ELSE source[x].slots[y]
      BY <1>2 DEF SlotEffect
    <3> QED BY <3>1, <3>2
  <2>5. Shrinks(source, new)
    <3>1. DOMAIN new = 0 .. SourcePhysical - 1
      BY <2>3
    <3> QED BY <1>1, <2>4, <3>1, ClearedShrinks
  <2> QED BY <2>3, <2>5, OccupiedSlot
<1> QED BY <1>4

\* GetDisorderedValues empties bytes of disordered values only, and all of those
\* in the buckets it looks at.
LEMMA GetDisorderedValuesShrinks ==
  ASSUME Shape,
         source' = [b \in DOMAIN source |->
                     IF b \notin CoveredBuckets THEN source[b]
                     ELSE [source[b] EXCEPT !.h2 =
                             [s \in SlotNumber |->
                                IF s \in DisorderedSlots(source[b]) THEN kEmpty ELSE @[s]]]]
  PROVE  /\ Shrinks(source, source')
         /\ \A p \in Occupied(source') :
              p[1] \in CoveredBuckets => ~IsNonemptyAndDisordered(MetaAt(source', p))
<1>1. /\ source \in [0 .. SourcePhysical - 1 -> Bucket] /\ SourcePhysical \in Nat
      /\ DOMAIN source = 0 .. SourcePhysical - 1
  BY SourceTyped
<1>2. ASSUME NEW new, new = source'
      PROVE  /\ Shrinks(source, new)
             /\ \A p \in Occupied(new) :
                  p[1] \in CoveredBuckets => ~IsNonemptyAndDisordered(MetaAt(new, p))
  <2>1. DOMAIN new = 0 .. SourcePhysical - 1
    BY <1>1, <1>2
  <2>2. ASSUME NEW x \in 0 .. SourcePhysical - 1
        PROVE  /\ new[x].search_distance = source[x].search_distance
               /\ new[x].slots = source[x].slots
               /\ \A y \in SlotNumber :
                    new[x].h2[y] = IF x \in CoveredBuckets /\ y \in DisorderedSlots(source[x])
                                   THEN kEmpty ELSE source[x].h2[y]
    <3> DEFINE h2 == [s \in SlotNumber |-> IF s \in DisorderedSlots(source[x]) THEN kEmpty
                                           ELSE source[x].h2[s]]
    <3>1. source[x] \in Bucket
      BY <1>1
    <3>2. new[x] = IF x \notin CoveredBuckets THEN source[x]
                   ELSE [source[x] EXCEPT !.h2 = h2]
      BY <1>1, <1>2
    <3>3. \A y \in SlotNumber : h2[y] = IF y \in DisorderedSlots(source[x]) THEN kEmpty
                                        ELSE source[x].h2[y]
      OBVIOUS
    <3> HIDE DEF h2
    <3> QED BY <3>1, <3>2, <3>3 DEF Bucket
  <2>3. Shrinks(source, new)
    <3>1. \A x \in 0 .. SourcePhysical - 1 :
           /\ new[x].search_distance = source[x].search_distance
           /\ \A y \in SlotNumber :
                new[x].h2[y] # kEmpty => /\ new[x].h2[y] = source[x].h2[y]
                                         /\ new[x].slots[y] = source[x].slots[y]
      BY <2>2
    <3> QED BY <1>1, <2>1, <3>1, ClearedShrinks
  <2>4. ASSUME NEW p \in Occupied(new), p[1] \in CoveredBuckets
        PROVE  ~IsNonemptyAndDisordered(MetaAt(new, p))
    <3>1. /\ p[1] \in 0 .. SourcePhysical - 1 /\ p[2] \in SlotNumber
          /\ new[p[1]].h2[p[2]] # kEmpty
      BY <2>1, OccupiedPair
    <3>2. p[2] \notin DisorderedSlots(source[p[1]]) /\ new[p[1]].h2[p[2]] = source[p[1]].h2[p[2]]
      BY <2>2, <2>4, <3>1
    <3> QED BY <3>1, <3>2 DEF DisorderedSlots, MetaAt
  <2> QED BY <2>3, <2>4
<1> QED BY <1>2

-----------------------------------------------------------------------------
(* The least value goes first *)

\* Position p comes before q in bucket and slot order.
Precedes(p, q) == p[1] < q[1] \/ (p[1] = q[1] /\ p[2] < q[2])

\* One value goes over to the new buckets, and none of a smaller hash stays in
\* the old ones.
MovesLeast(value, q) ==
  /\ value \in Values /\ ~InsertOverruns(value) /\ InsertAscending(value)
  /\ Takes(source, source', q) /\ ValueAt(source, q) = value
  /\ Shrinks(source, source')
  /\ \A r \in Constructed(source) : HashOf(value) <= HashOf(ValueAt(source, r))

\* What the scan has not visited of the bucket it is in is in order: the rest of
\* the bucket has been collected.
LEMMA AheadInOrder ==
  ASSUME Shape, SourceSwept, pc = "scan",
         NEW r \in Occupied(source), r[1] = bucket_number
  PROVE  r[2] \in OrderedAhead /\ r[2] \in SlotNumber
<1>1. /\ slot_number <= r[2] /\ SourcePreferred(r) <= bucket_number
      /\ IsNonemptyAndDisordered(MetaAt(source, r)) => ~Collected(SourcePreferred(r))
  BY DEF SourceSwept, Rehashing
<1>2. /\ MetaAt(source, r) \in MetaByte \ {kEmpty} /\ r[2] \in SlotNumber
      /\ SourcePreferred(r) \in Nat /\ r[1] \in Nat
  BY SourceOccupied DEF MetaAt
<1>3. IsNonemptyAndOrdered(MetaAt(source, r))
  BY <1>1, <1>2
  DEF Collected, IsNonemptyAndDisordered, IsNonemptyAndOrdered, MetaByte, kEmpty,
      kOrderedMask
<1> QED BY <1>1, <1>2, <1>3 DEF OrderedAhead, MetaAt

\* The first ordered value the scan has not visited hashes no higher than any
\* value that is still in its slot: the ordered ones come in sorted order, and
\* the others prefer buckets that the scan has not reached.
LEMMA OrderedAheadLeast ==
  ASSUME Shape, SourceSwept, Sorted(source), pc = "scan",
         NEW s \in Least(OrderedAhead), NEW r \in Occupied(source)
  PROVE  /\ <<bucket_number, s>> \in Occupied(source)
         /\ HashOf(source[bucket_number].slots[s]) <= HashOf(ValueAt(source, r))
<1> DEFINE p == <<bucket_number, s>>
<1>1. /\ s \in SlotNumber /\ IsNonemptyAndOrdered(source[bucket_number].h2[s])
      /\ bucket_number \in 0 .. SourcePhysical - 1
      /\ \A t \in OrderedAhead : s <= t
  BY SourceTyped DEF Least, OrderedAhead, Shape, ScanInv, TypeOK
<1>2. p \in Occupied(source)
  <2>1. source[bucket_number].h2[s] # kEmpty
    BY <1>1 DEF IsNonemptyAndOrdered, kEmpty, kOrderedMask
  <2>2. DOMAIN source = 0 .. SourcePhysical - 1 /\ source[bucket_number] \in Bucket
    BY <1>1, SourceTyped
  <2> QED BY <1>1, <2>1, <2>2, OccupiedSlot, UninitializedAssumption
<1>3. /\ p[1] = bucket_number /\ p[2] = s
      /\ MetaAt(source, p) = source[bucket_number].h2[s]
      /\ ValueAt(source, p) = source[bucket_number].slots[s]
  BY DEF MetaAt, ValueAt
<1> HIDE DEF p
<1>4. /\ r[1] \in 0 .. SourcePhysical - 1 /\ r[2] \in SlotNumber
      /\ SourcePhysical \in Nat
      /\ MetaAt(source, r) \in MetaByte \ {kEmpty}
      /\ HashOf(ValueAt(source, r)) \in Hash
      /\ SourcePreferred(r) \in 0 .. source_logical_size - 1
      /\ source_logical_size \in Nat
  BY SourceOccupied DEF MetaAt
<1>5. /\ HashOf(ValueAt(source, p)) \in Hash
      /\ SourcePreferred(p) \in 0 .. source_logical_size - 1
      /\ SourcePreferred(p) <= bucket_number
  <2>1. SourcePreferred(p) <= p[1]
    BY <1>2 DEF SourceSwept, Rehashing
  <2> QED BY <1>2, <1>3, <2>1, SourceOccupied
<1>6. HashOf(ValueAt(source, p)) \in Nat /\ HashOf(ValueAt(source, r)) \in Nat
  BY <1>4, <1>5, HashAssumption DEF Hash
<1>7. /\ bucket_number <= r[1]
      /\ r[1] = bucket_number => slot_number <= r[2]
      /\ IsNonemptyAndDisordered(MetaAt(source, r)) => ~Collected(SourcePreferred(r))
  BY DEF SourceSwept, Rehashing
<1>8. CASE IsNonemptyAndDisordered(MetaAt(source, r))
  <2>1. SourcePreferred(p) < SourcePreferred(r)
    BY <1>1, <1>4, <1>5, <1>7, <1>8 DEF Collected
  <2>2. ~(HashOf(ValueAt(source, r)) <= HashOf(ValueAt(source, p)))
    <3>1. HashOf(ValueAt(source, r)) <= HashOf(ValueAt(source, p)) =>
            SourcePreferred(r) <= SourcePreferred(p)
      BY <1>4, <1>5, H1Monotone DEF SourcePreferred
    <3> QED BY <1>4, <1>5, <2>1, <3>1
  <2>3. HashOf(ValueAt(source, p)) <= HashOf(ValueAt(source, r))
    BY <1>6, <2>2
  <2> QED BY <1>2, <1>3, <2>3 DEF p
<1>9. CASE ~IsNonemptyAndDisordered(MetaAt(source, r))
  <2>1. IsNonemptyAndOrdered(MetaAt(source, r))
    BY <1>4, <1>9 DEF IsNonemptyAndDisordered, IsNonemptyAndOrdered, MetaByte, kEmpty,
                      kOrderedMask
  <2>2. CASE r = p
    <3>1. HashOf(ValueAt(source, p)) <= HashOf(ValueAt(source, r))
      BY <1>6, <2>2
    <3> QED BY <1>2, <1>3, <3>1 DEF p
  <2>3. CASE r # p
    <3>1. r = <<r[1], r[2]>>
      BY OccupiedPair
    <3>2. r[1] = bucket_number => s <= r[2] /\ r[2] # s
      <4>1. r[1] = bucket_number => r[2] \in OrderedAhead
        BY <1>4, <1>7, <2>1 DEF OrderedAhead, MetaAt
      <4> QED BY <1>1, <2>3, <3>1, <4>1 DEF p
    <3>3. Precedes(p, r)
      <4>1. r[2] \in Int /\ s \in Int
        BY <1>1, <1>4, SizeAssumption DEF SlotNumber
      <4> QED BY <1>1, <1>3, <1>4, <1>7, <3>2, <4>1 DEF Precedes
    <3>4. HashOf(ValueAt(source, p)) <= HashOf(ValueAt(source, r))
      BY <1>1, <1>2, <1>3, <2>1, <3>3 DEF Sorted, Precedes
    <3> QED BY <1>2, <1>3, <3>4 DEF p
  <2> QED BY <2>2, <2>3
<1> QED BY <1>8, <1>9

\* A value moved from the heap is the least one, if the heap holds one no higher
\* than those that are still in their slots.
LEMMA InsertFromHeapLeast ==
  ASSUME Shape, InsertFromHeap,
         \A r \in Occupied(source) :
           \E item \in heap : HeapHash(item) <= HashOf(ValueAt(source, r))
  PROVE  \/ pc' = "aborted" /\ UNCHANGED <<table, target, heap, source>>
         \/ \E value \in Values, q \in Constructed(source) : MovesLeast(value, q)
<1>1. PICK item \in heap :
        LET value == source[item.bucket].slots[item.slot]
        IN  /\ \A other \in heap : HeapHash(item) <= HeapHash(other)
            /\ IF InsertOverruns(value)
               THEN pc' = "aborted" /\ UNCHANGED <<table, target, heap, source>>
               ELSE /\ InsertAscending(value)
                    /\ heap' = heap \ {item}
                    /\ source' = [source EXCEPT ![item.bucket].slots[item.slot] = NoValue]
  BY DEF InsertFromHeap
<1>2. PICK value \in Values : value = source[item.bucket].slots[item.slot]
  BY HeapValue
<1>3. PICK q : q = <<item.bucket, item.slot>>
  OBVIOUS
<1>4. CASE InsertOverruns(value)
  BY <1>1, <1>2, <1>4
<1>5. CASE ~InsertOverruns(value)
  <2>1. /\ InsertAscending(value)
        /\ source' = [source EXCEPT ![item.bucket].slots[item.slot] = NoValue]
    BY <1>1, <1>2, <1>5
  <2>2. Takes(source, source', q) /\ ValueAt(source, q) = value
    BY <1>2, <1>3, <2>1, MoveFromHeapTakes
  <2>3. Shrinks(source, source')
    BY <2>1, MoveFromHeapShrinks
  <2>4. \A other \in heap : HashOf(value) <= HeapHash(other) /\ HeapHash(other) \in Nat
    <3>1. \A other \in heap : source[other.bucket].slots[other.slot] \in Values
      BY HeapValue
    <3>2. \A other \in heap : HeapHash(other) \in Hash
      BY <3>1, PreferredRange DEF Shape, HeapHash
    <3>3. HeapHash(item) = HashOf(value)
      BY <1>2 DEF HeapHash
    <3> QED BY <1>1, <3>2, <3>3, HashAssumption DEF Hash
  <2>5. ASSUME NEW r \in Constructed(source)
        PROVE  HashOf(value) <= HashOf(ValueAt(source, r))
    <3>1. CASE r \in Occupied(source)
      <4>1. PICK other \in heap : HeapHash(other) <= HashOf(ValueAt(source, r))
        BY <3>1
      <4>2. HashOf(ValueAt(source, r)) \in Nat /\ HashOf(value) \in Nat
        BY <3>1, SourceOccupied, PreferredRange, HashAssumption DEF Shape, Hash
      <4> QED BY <2>4, <4>1, <4>2
    <3>2. CASE r \notin Occupied(source)
      BY <2>4, <3>2, ConstructedSource
    <3> QED BY <3>1, <3>2
  <2>6. MovesLeast(value, q) /\ q \in Constructed(source)
    BY <1>5, <2>1, <2>2, <2>3, <2>5 DEF MovesLeast, Takes
  <2> QED BY <2>6
<1> QED BY <1>4, <1>5

\* A step of the scan moves the least value, if any; the slots that stay occupied
\* are not behind where it stops.
LEMMA ScanBucketLeast ==
  ASSUME Shape, SourceSwept, Sorted(source), ScanBucket
  PROVE  \/ pc' = "aborted" /\ UNCHANGED <<table, target, heap, source>>
         \/ /\ \E value \in Values, q \in Constructed(source) : MovesLeast(value, q)
            /\ \A r \in Occupied(source') : r[1] = bucket_number => slot_number' <= r[2]
<1>0. pc = "scan"
  BY DEF ScanBucket
<1>1. PICK s \in Least(OrderedAhead) :
        LET value == source[bucket_number].slots[s]
        IN  IF \E item \in heap : HeapHash(item) < HashOf(value)
            THEN InsertFromHeap /\ slot_number' = s
            ELSE /\ slot_number' = s + 1
                 /\ UNCHANGED heap
                 /\ IF InsertOverruns(value)
                    THEN pc' = "aborted" /\ UNCHANGED <<table, target, source>>
                    ELSE /\ InsertAscending(value)
                         /\ source' = [source EXCEPT ![bucket_number].slots[s] = NoValue,
                                                     ![bucket_number].h2[s] = kEmpty]
  BY DEF ScanBucket
<1>2. s \in SlotNumber /\ \A t \in OrderedAhead : s <= t
  BY DEF Least, OrderedAhead
<1>3. \A r \in Occupied(source) :
        HashOf(source[bucket_number].slots[s]) <= HashOf(ValueAt(source, r))
  BY <1>0, OrderedAheadLeast
<1>4. ASSUME NEW r \in Occupied(source), r[1] = bucket_number
      PROVE  s <= r[2] /\ s \in Int /\ r[2] \in Int
  <2>1. r[2] \in OrderedAhead /\ r[2] \in SlotNumber
    BY <1>0, <1>4, AheadInOrder
  <2> QED BY <1>2, <2>1, SizeAssumption DEF SlotNumber
<1>5. PICK p : p = <<bucket_number, s>>
  OBVIOUS
<1>6. p \in Occupied(source) \/ Occupied(source) = {}
  BY <1>0, <1>5, OrderedAheadLeast
<1>7. bucket_number \in DOMAIN source /\ source[bucket_number].h2[s] # kEmpty
  <2>1. bucket_number \in DOMAIN source
    BY <1>0, SourceTyped DEF Shape, TypeOK, ScanInv
  <2> QED BY <2>1 DEF Least, OrderedAhead, IsNonemptyAndOrdered, kEmpty, kOrderedMask
<1>8. PICK value \in Values : value = source[bucket_number].slots[s]
  BY <1>2, <1>7, SourceTyped DEF Shape, SourceInv, Bucket
<1>9. HashOf(value) \in Nat
  BY PreferredRange, HashAssumption DEF Shape, Hash
<1>10. CASE \E item \in heap : HeapHash(item) < HashOf(value)
  <2>1. InsertFromHeap /\ slot_number' = s
    BY <1>1, <1>8, <1>10
  <2>2. PICK item \in heap : HeapHash(item) < HashOf(value)
    BY <1>10
  <2>3. HeapHash(item) \in Nat
    BY HeapValue, PreferredRange, HashAssumption DEF Shape, HeapHash, Hash
  <2>4. \A r \in Occupied(source) : HeapHash(item) <= HashOf(ValueAt(source, r))
    <3> TAKE r \in Occupied(source)
    <3>1. HashOf(value) <= HashOf(ValueAt(source, r))
      BY <1>3, <1>8
    <3>2. HashOf(ValueAt(source, r)) \in Nat
      BY SourceOccupied, HashAssumption DEF Hash
    <3> QED BY <1>9, <2>2, <2>3, <3>1, <3>2
  <2>5. \/ pc' = "aborted" /\ UNCHANGED <<table, target, heap, source>>
        \/ \E x \in Values, q \in Constructed(source) : MovesLeast(x, q)
    BY <2>1, <2>4, InsertFromHeapLeast
  <2>6. CASE \E x \in Values, q \in Constructed(source) : MovesLeast(x, q)
    <3>1. Occupied(source') \subseteq Occupied(source)
      BY <2>6 DEF MovesLeast, Shrinks
    <3> QED BY <1>4, <2>1, <2>6, <3>1
  <2> QED BY <2>5, <2>6
<1>11. CASE ~\E item \in heap : HeapHash(item) < HashOf(value)
  <2>1. /\ slot_number' = s + 1 /\ UNCHANGED heap
        /\ IF InsertOverruns(value)
           THEN pc' = "aborted" /\ UNCHANGED <<table, target, source>>
           ELSE /\ InsertAscending(value)
                /\ source' = [source EXCEPT ![bucket_number].slots[s] = NoValue,
                                            ![bucket_number].h2[s] = kEmpty]
    BY <1>1, <1>8, <1>11
  <2>2. CASE InsertOverruns(value)
    BY <2>1, <2>2
  <2>3. CASE ~InsertOverruns(value)
    <3>1. /\ InsertAscending(value)
          /\ source' = [source EXCEPT ![bucket_number].slots[s] = NoValue,
                                      ![bucket_number].h2[s] = kEmpty]
      BY <2>1, <2>3
    <3>2. PICK b \in DOMAIN source : b = bucket_number
      BY <1>7
    <3>3. source' = [source EXCEPT ![b].slots[s] = NoValue, ![b].h2[s] = kEmpty]
      BY <3>1, <3>2
    <3>4. Takes(source, source', p) /\ ValueAt(source, p) = value
      BY <1>2, <1>5, <1>7, <1>8, <3>2, <3>3, MoveFromSlotTakes
    <3>5. Shrinks(source, source') /\ p \notin Occupied(source')
      BY <1>2, <1>5, <3>2, <3>3, MoveFromSlotShrinks
    <3>6. ASSUME NEW r \in Constructed(source)
          PROVE  HashOf(value) <= HashOf(ValueAt(source, r))
      <4>1. CASE r \in Occupied(source)
        BY <1>3, <1>8, <4>1
      <4>2. CASE r \notin Occupied(source)
        <5>1. PICK i \in heap : HeapHash(i) = HashOf(ValueAt(source, r))
          BY <4>2, ConstructedSource
        <5>2. HeapHash(i) \in Nat
          BY HeapValue, PreferredRange, HashAssumption DEF Shape, HeapHash, Hash
        <5> QED BY <1>9, <1>11, <5>1, <5>2
      <4> QED BY <4>1, <4>2
    <3>7. MovesLeast(value, p) /\ p \in Constructed(source)
      BY <2>3, <3>1, <3>4, <3>5, <3>6 DEF MovesLeast, Takes
    <3>8. ASSUME NEW r \in Occupied(source'), r[1] = bucket_number
          PROVE  slot_number' <= r[2]
      <4>1. r \in Occupied(source) /\ r # p
        BY <3>5 DEF Shrinks
      <4>2. r = <<r[1], r[2]>>
        BY <4>1, OccupiedPair
      <4>3. r[2] # s
        BY <1>5, <3>8, <4>1, <4>2
      <4> QED BY <1>4, <2>1, <3>8, <4>1, <4>3
    <3> QED BY <3>7, <3>8
  <2> QED BY <2>2, <2>3
<1> QED BY <1>10, <1>11

-----------------------------------------------------------------------------
(* Sorted arrays *)

\* The old buckets stay sorted: the sweep only empties slots.
LEMMA SourceStaysSorted ==
  ASSUME Sorted(source), hasher' = hasher, Shrinks(source, source')
  PROVE  Sorted(source)'
<1> SUFFICES ASSUME NEW p \in Occupied(source'), NEW q \in Occupied(source'),
                    IsNonemptyAndOrdered(MetaAt(source', p)),
                    IsNonemptyAndOrdered(MetaAt(source', q)), Precedes(p, q)
             PROVE  HashOf(ValueAt(source', p)) <= HashOf(ValueAt(source', q))
  BY DEF Sorted, Precedes, HashOf
<1>1. /\ p \in Occupied(source) /\ q \in Occupied(source)
      /\ Keeps(source, source', p) /\ Keeps(source, source', q)
  BY DEF Shrinks
<1>2. HashOf(ValueAt(source, p)) <= HashOf(ValueAt(source, q))
  BY <1>1 DEF Sorted, Precedes, Keeps
<1> QED BY <1>1, <1>2 DEF Keeps, HashOf

\* The table stays sorted when it keeps or loses elements.
LEMMA SortedRest ==
  ASSUME Sorted(buckets_), hasher' = hasher,
         \A q \in Occupied(buckets_') : /\ q \in Occupied(buckets_)
                                        /\ Keeps(buckets_, buckets_', q)
  PROVE  Sorted(buckets_)'
<1> SUFFICES ASSUME NEW p \in Occupied(buckets_'), NEW q \in Occupied(buckets_'),
                    IsNonemptyAndOrdered(MetaAt(buckets_', p)),
                    IsNonemptyAndOrdered(MetaAt(buckets_', q)), Precedes(p, q)
             PROVE  HashOf(ValueAt(buckets_', p)) <= HashOf(ValueAt(buckets_', q))
  BY DEF Sorted, Precedes, HashOf
<1>1. /\ p \in Occupied(buckets_) /\ q \in Occupied(buckets_)
      /\ Keeps(buckets_, buckets_', p) /\ Keeps(buckets_, buckets_', q)
  OBVIOUS
<1>2. HashOf(ValueAt(buckets_, p)) <= HashOf(ValueAt(buckets_, q))
  BY <1>1 DEF Sorted, Precedes, Keeps
<1> QED BY <1>1, <1>2 DEF Keeps, HashOf

\* It stays sorted when it gains an element that is marked as out of order, or
\* one after all others that hashes no lower than they do.
LEMMA SortedAdd ==
  ASSUME Sorted(buckets_), hasher' = hasher,
         NEW t, NEW meta_byte, NEW value, Adds(buckets_, buckets_', t, meta_byte, value),
         \/ ~IsNonemptyAndOrdered(meta_byte)
         \/ /\ ~Precedes(t, t)
            /\ \A q \in Occupied(buckets_) :
                 ~Precedes(t, q) /\ HashOf(ValueAt(buckets_, q)) <= HashOf(value)
  PROVE  Sorted(buckets_)'
<1> SUFFICES ASSUME NEW p \in Occupied(buckets_'), NEW q \in Occupied(buckets_'),
                    IsNonemptyAndOrdered(MetaAt(buckets_', p)),
                    IsNonemptyAndOrdered(MetaAt(buckets_', q)), Precedes(p, q)
             PROVE  HashOf(ValueAt(buckets_', p)) <= HashOf(ValueAt(buckets_', q))
  BY DEF Sorted, Precedes, HashOf
<1>1. CASE p \in Occupied(buckets_) /\ q \in Occupied(buckets_)
  <2>1. Keeps(buckets_, buckets_', p) /\ Keeps(buckets_, buckets_', q)
    BY <1>1 DEF Adds
  <2>2. HashOf(ValueAt(buckets_, p)) <= HashOf(ValueAt(buckets_, q))
    BY <1>1, <2>1 DEF Sorted, Precedes, Keeps
  <2> QED BY <2>1, <2>2 DEF Keeps, HashOf
<1>2. CASE p = t
  BY <1>2 DEF Adds
<1>3. CASE p \in Occupied(buckets_) /\ q = t
  <2>1. HashOf(ValueAt(buckets_, p)) <= HashOf(value)
    BY <1>3 DEF Adds
  <2>2. ValueAt(buckets_', p) = ValueAt(buckets_, p) /\ ValueAt(buckets_', q) = value
    BY <1>3 DEF Adds, Keeps
  <2> QED BY <2>1, <2>2 DEF HashOf
<1> QED BY <1>1, <1>2, <1>3 DEF Adds

\* Nothing is at or behind the point where an ascending insert puts its value.
LEMMA BeforeTarget ==
  ASSUME Shape, FreeInv, Rehashing, NEW value \in Values, NEW p \in Occupied(buckets_)
  PROVE  ~Precedes(At(value), p) /\ ~Precedes(At(value), At(value))
<1>1. /\ p[1] \in 0 .. Physical - 1 /\ p[2] \in SlotNumber
      /\ buckets_[p[1]] # Uninitialized /\ buckets_[p[1]].h2[p[2]] # kEmpty
  BY OccupiedPair, RehashingShape
<1>2. /\ Physical \in Nat /\ insert_bucket \in 0 .. Physical - 1 /\ insert_slot \in SlotNumber
      /\ p[1] <= insert_bucket
  BY <1>1, RehashingShape
<1>3. p[1] = insert_bucket => ~(insert_slot <= p[2])
  BY <1>1 DEF FreeInv
<1>4. Preferred(value) \in Int
  BY RehashingShape, PreferredRange DEF Shape, Preferred
<1>5. /\ At(value)[1] \in Int /\ At(value)[2] \in Int
      /\ \/ At(value)[1] > insert_bucket
         \/ At(value) = <<insert_bucket, insert_slot>>
  <2>1. FirstSlot(Preferred(value)) \in Int
    BY FirstSlotRange, SizeAssumption DEF SlotNumber
  <2> QED BY <1>2, <1>4, <2>1, SizeAssumption DEF At, InsertTarget, SlotNumber
<1>6. p[1] \in Int /\ p[2] \in Int
  BY <1>1, SizeAssumption DEF SlotNumber
<1>7. CASE At(value)[1] > insert_bucket
  BY <1>2, <1>5, <1>6, <1>7 DEF Precedes
<1>8. CASE At(value) = <<insert_bucket, insert_slot>>
  BY <1>2, <1>3, <1>5, <1>6, <1>8, SizeAssumption DEF Precedes, SlotNumber
<1> QED BY <1>5, <1>7, <1>8

-----------------------------------------------------------------------------
(* The rehash moves one value *)

\* The order of the two arrays and between them.
LEMMA MoveAscending ==
  ASSUME Swept, Rehashing, Rehashing', Shape', hasher' = hasher,
         NEW value \in Values, NEW q, MovesLeast(value, q)
  PROVE  Sorted(buckets_)' /\ Sorted(source)' /\ RehashAscending'
<1>1. /\ Shape /\ FreeInv /\ Sorted(buckets_) /\ Sorted(source) /\ RehashAscending
      /\ Shrinks(source, source') /\ Takes(source, source', q) /\ ValueAt(source, q) = value
      /\ \A r \in Constructed(source) : HashOf(value) <= HashOf(ValueAt(source, r))
  BY DEF Swept, Searchable, Counted, MovesLeast
<1>2. Adds(buckets_, buckets_', At(value), OrderedByte(value), value)
  BY <1>1, InsertAscendingAdds DEF MovesLeast
<1>3. PICK t : t = At(value)
  OBVIOUS
<1>4. value \in Stored(source)
  BY <1>1 DEF Takes, Stored
<1>5. Constructed(buckets_) = Occupied(buckets_)
      /\ Constructed(buckets_') = Occupied(buckets_')
  BY <1>1, ConstructedOccupied DEF Shape, NewInv
<1>6. ASSUME NEW p \in Occupied(buckets_)
      PROVE  ~Precedes(t, p) /\ HashOf(ValueAt(buckets_, p)) <= HashOf(value)
  <2>1. ValueAt(buckets_, p) \in Stored(buckets_)
    BY <1>5 DEF Stored
  <2>2. HashOf(ValueAt(buckets_, p)) <= HashOf(value)
    BY <1>1, <1>4, <2>1 DEF RehashAscending
  <2> QED BY <1>1, <1>3, <2>2, BeforeTarget
<1>7. ~Precedes(t, t)
  <2>1. /\ insert_bucket \in Int /\ insert_slot \in Int /\ Preferred(value) \in Int
        /\ FirstSlot(Preferred(value)) \in Int
    BY <1>1, RehashingShape, PreferredRange, FirstSlotRange, SizeAssumption
    DEF Shape, Preferred, SlotNumber
  <2>2. t[1] \in Int /\ t[2] \in Int
    BY <1>3, <2>1 DEF At, InsertTarget
  <2> QED BY <2>2 DEF Precedes
<1>8. Adds(buckets_, buckets_', t, OrderedByte(value), value)
  BY <1>2, <1>3
<1>9. Sorted(buckets_)'
  BY <1>1, <1>6, <1>7, <1>8, SortedAdd
<1>10. Sorted(source)'
  BY <1>1, SourceStaysSorted
<1>11. ASSUME NEW v \in Stored(buckets_'), NEW w \in Stored(source')
       PROVE  HashOf(v) <= HashOf(w)
  <2>1. PICK r \in Constructed(source) : w = ValueAt(source, r)
    BY <1>1 DEF Stored, Takes
  <2>2. w \in Stored(source) /\ HashOf(value) <= HashOf(w)
    BY <1>1, <2>1 DEF Stored
  <2>3. v \in Stored(buckets_) \/ v = value
    <3>1. PICK p \in Occupied(buckets_') : v = ValueAt(buckets_', p)
      BY <1>5 DEF Stored
    <3> QED BY <1>5, <1>8, <3>1 DEF Adds, Keeps, Stored
  <2> QED BY <1>1, <2>2, <2>3 DEF RehashAscending
<1>12. RehashAscending'
  BY <1>11 DEF RehashAscending, HashOf, Stored, Constructed, Positions, ValueAt
<1> QED BY <1>9, <1>10, <1>12

\* What the sweep has yet to visit.
LEMMA MoveSwept ==
  ASSUME SourceSwept, Rehashing, Shrinks(source, source'),
         UNCHANGED <<hasher, pc, source_logical_size, bucket_number, disordered_bucket>>,
         \A p \in Occupied(source') :
           pc = "scan" /\ p[1] = bucket_number => slot_number' <= p[2],
         Shape
  PROVE  SourceSwept'
<1> DEFINE preferred(p) == H1(hasher[KeyOf[ValueAt(source', p)]], source_logical_size)
<1> SUFFICES ASSUME NEW p \in Occupied(source')
             PROVE  /\ preferred(p) <= p[1]
                    /\ p[1] < preferred(p) + source'[preferred(p)].search_distance
                    /\ bucket_number <= p[1]
                    /\ pc = "scan" /\ p[1] = bucket_number => slot_number' <= p[2]
                    /\ IsNonemptyAndDisordered(MetaAt(source', p)) =>
                         /\ disordered_bucket <= p[1]
                         /\ ~(preferred(p) < bucket_number
                              \/ (preferred(p) = bucket_number /\ pc = "scan"))
  BY DEF SourceSwept, Collected, SourcePreferred, HashOf
<1>1. p \in Occupied(source) /\ Keeps(source, source', p)
  BY DEF Shrinks
<1>2. preferred(p) = SourcePreferred(p)
  BY <1>1 DEF SourcePreferred, Keeps, HashOf
<1>3. SourcePreferred(p) \in DOMAIN source
  BY <1>1, SourceOccupied, SourceTyped
<1>4. source'[SourcePreferred(p)].search_distance = source[SourcePreferred(p)].search_distance
  BY <1>3 DEF Shrinks
<1>5. MetaAt(source', p) = MetaAt(source, p)
  BY <1>1 DEF Keeps
<1>6. LET h1 == SourcePreferred(p)
      IN  /\ h1 <= p[1] /\ p[1] < h1 + source[h1].search_distance
          /\ bucket_number <= p[1]
          /\ IsNonemptyAndDisordered(MetaAt(source, p)) =>
               disordered_bucket <= p[1] /\ ~Collected(h1)
  BY <1>1 DEF SourceSwept
<1> HIDE DEF preferred
<1> QED BY <1>2, <1>4, <1>5, <1>6 DEF Collected

-----------------------------------------------------------------------------
(* Every step keeps the sweep's promises *)

\* Steps that end in a state without a rehash need only keep the table sorted.
LEMMA SweptAtRest ==
  ASSUME Searchable', ~Rehashing', Sorted(buckets_)', DistancesInArray'
  PROVE  Swept'
BY DEF Swept, SourceSwept, RehashAscending

\* The table stays sorted when it does not change.
LEMMA SortedUnchanged ==
  ASSUME Sorted(buckets_), UNCHANGED <<hasher, buckets_>>
  PROVE  Sorted(buckets_)'
<1>1. \A q \in Occupied(buckets_') : q \in Occupied(buckets_) /\ Keeps(buckets_, buckets_', q)
  BY DEF Occupied, Positions, MetaAt, ValueAt, Keeps
<1> QED BY <1>1, SortedRest

\* A rehash starts with everything ahead of it.
LEMMA StartRehashSwept ==
  ASSUME Swept, Searchable', DistancesInArray', AtRest, hasher' = hasher,
         NEW slot_count, StartRehash(slot_count)
  PROVE  Swept'
<1>1. /\ Shape /\ Located /\ Sorted(buckets_)
      /\ \A p \in Occupied(buckets_) : LocatedAt(buckets_, p)
  BY LocatedEach DEF Swept, Searchable, Counted
<1>2. CASE pc' = "aborted" /\ UNCHANGED <<table, scan, target>>
  <2>1. Sorted(buckets_)'
    BY <1>1, <1>2, SortedUnchanged DEF table
  <2> QED BY <1>2, <2>1, SweptAtRest DEF Rehashing
<1>3. CASE /\ pc' = "collect" /\ size_' = 0 /\ source' = buckets_ /\ heap' = {}
           /\ source_logical_size' = logical_size_
           /\ Occupied(buckets_') = {}
           /\ bucket_number' = 0 /\ disordered_bucket' = 0
  <2>1. Sorted(buckets_)'
    BY <1>3 DEF Sorted
  <2>2. Sorted(source)'
    BY <1>1, <1>3 DEF Sorted, Occupied, Positions, MetaAt, ValueAt, HashOf
  <2>3. RehashAscending'
    <3>1. Constructed(buckets_') = {}
      BY <1>3, ConstructedOccupied DEF Searchable, Counted, Shape, NewInv
    <3> QED BY <3>1 DEF RehashAscending, Stored
  <2>4. SourceSwept'
    <3> DEFINE preferred(p) == H1(hasher[KeyOf[ValueAt(buckets_, p)]], logical_size_)
    <3> SUFFICES ASSUME NEW p \in Occupied(buckets_)
                 PROVE  /\ preferred(p) <= p[1]
                        /\ p[1] < preferred(p) + buckets_[preferred(p)].search_distance
                        /\ 0 <= p[1]
                        /\ ~(preferred(p) < 0)
      BY <1>3 DEF SourceSwept, Collected, SourcePreferred, HashOf, Rehashing,
                  Occupied, Positions, MetaAt, ValueAt
    <3>1. preferred(p) = Preferred(ValueAt(buckets_, p))
      BY DEF Preferred, HashOf
    <3>2. LocatedAt(buckets_, p)
      BY <1>1
    <3>3. Preferred(ValueAt(buckets_, p)) \in Nat /\ p[1] \in Nat
      BY <1>1, OccupiedValue
    <3> HIDE DEF preferred
    <3> QED BY <3>1, <3>2, <3>3 DEF LocatedAt
  <2> QED BY <2>1, <2>2, <2>3, <2>4 DEF Swept
<1> QED BY <1>1, <1>2, <1>3, StartRehashEmpties

\* What is left after GetDisorderedValues(bucket_number) prefers later buckets.
LEMMA GetDisorderedValuesSwept ==
  ASSUME Swept, Searchable', DistancesInArray', GetDisorderedValues
  PROVE  Swept'
<1>1. /\ Shape /\ SourceSwept /\ Sorted(buckets_) /\ Sorted(source) /\ RehashAscending
      /\ pc = "collect" /\ Rehashing
      /\ UNCHANGED <<hasher, buckets_, source_logical_size, bucket_number>>
      /\ slot_number' = 0
  BY DEF Swept, Searchable, Counted, GetDisorderedValues, table, Rehashing
<1>2. Sorted(buckets_)'
  BY <1>1, SortedUnchanged
<1>3. CASE pc' = "aborted"
  BY <1>2, <1>3, SweptAtRest DEF Rehashing
<1>4. RehashAscending'
  <2>1. Stored(source') = Stored(source)
    BY <1>1, GetDisorderedValuesKeeps DEF Stored
  <2>2. Stored(buckets_') = Stored(buckets_)
    BY <1>1
  <2> QED BY <1>1, <2>1, <2>2 DEF RehashAscending, HashOf, Stored, Constructed, Positions,
                                  ValueAt
<1>5. CASE /\ pc' = "scan"
           /\ Shrinks(source, source')
           /\ \A p \in Occupied(source') : IsNonemptyAndDisordered(MetaAt(source', p)) =>
                /\ disordered_bucket' <= p[1]
                /\ bucket_number < SourcePreferred(p)
  <2>1. Sorted(source)'
    BY <1>1, <1>5, SourceStaysSorted
  <2>2. SourceSwept'
    <3> DEFINE preferred(p) == H1(hasher[KeyOf[ValueAt(source', p)]], source_logical_size)
    <3> SUFFICES ASSUME NEW p \in Occupied(source')
                 PROVE  /\ preferred(p) <= p[1]
                        /\ p[1] < preferred(p) + source'[preferred(p)].search_distance
                        /\ bucket_number <= p[1]
                        /\ 0 <= p[2]
                        /\ IsNonemptyAndDisordered(MetaAt(source', p)) =>
                             /\ disordered_bucket' <= p[1]
                             /\ ~(preferred(p) < bucket_number \/ preferred(p) = bucket_number)
      BY <1>1, <1>5 DEF SourceSwept, Collected, SourcePreferred, HashOf
    <3>1. p \in Occupied(source) /\ Keeps(source, source', p)
      BY <1>5 DEF Shrinks
    <3>2. preferred(p) = SourcePreferred(p)
      BY <3>1 DEF SourcePreferred, Keeps, HashOf
    <3>3. /\ SourcePreferred(p) \in DOMAIN source /\ p[2] \in Nat
          /\ SourcePreferred(p) \in Nat /\ bucket_number \in Nat
      <4>1. /\ SourcePreferred(p) \in 0 .. SourcePhysical - 1 /\ p[2] \in SlotNumber
            /\ DOMAIN source = 0 .. SourcePhysical - 1
        BY <1>1, <3>1, SourceOccupied, SourceTyped
      <4>2. bucket_number \in Nat
        BY <1>1 DEF Shape, TypeOK
      <4>3. p[2] \in Nat
        BY <4>1, SizeAssumption DEF SlotNumber
      <4> QED BY <4>1, <4>2, <4>3
    <3>4. source'[SourcePreferred(p)].search_distance
            = source[SourcePreferred(p)].search_distance
      BY <1>5, <3>3 DEF Shrinks
    <3>5. LET h1 == SourcePreferred(p)
          IN  /\ h1 <= p[1] /\ p[1] < h1 + source[h1].search_distance
              /\ bucket_number <= p[1]
      BY <1>1, <3>1 DEF SourceSwept
    <3>6. IsNonemptyAndDisordered(MetaAt(source', p)) =>
            disordered_bucket' <= p[1] /\ bucket_number < SourcePreferred(p)
      BY <1>5
    <3> HIDE DEF preferred
    <3> QED BY <3>2, <3>3, <3>4, <3>5, <3>6
  <2> QED BY <1>2, <1>4, <2>1, <2>2 DEF Swept
<1>6. CASE ~(bucket_number < source_logical_size) /\ pc' # "aborted"
  <2>1. pc' = "scan" /\ UNCHANGED <<source, disordered_bucket>>
    BY <1>6 DEF GetDisorderedValues
  <2>2. Shrinks(source, source')
    BY <2>1 DEF Shrinks, Keeps
  <2>3. ASSUME NEW p \in Occupied(source), IsNonemptyAndDisordered(MetaAt(source, p))
        PROVE  FALSE
    <3>1. ~(SourcePreferred(p) < bucket_number)
      BY <1>1, <2>3 DEF SourceSwept, Collected
    <3>2. /\ SourcePreferred(p) \in 0 .. source_logical_size - 1
          /\ source_logical_size \in Nat /\ bucket_number \in Nat
      BY <1>1, SourceOccupied DEF Shape, TypeOK
    <3> QED BY <1>6, <3>1, <3>2
  <2> QED BY <1>5, <2>1, <2>2, <2>3
<1>7. CASE bucket_number < source_logical_size /\ pc' # "aborted"
  <2> DEFINE distance == source[bucket_number].search_distance
  <2>1. /\ pc' = "scan"
        /\ source' =
             [b \in DOMAIN source |->
               IF b \notin CoveredBuckets THEN source[b]
               ELSE [source[b] EXCEPT !.h2 =
                       [s \in SlotNumber |->
                          IF s \in DisorderedSlots(source[b]) THEN kEmpty ELSE @[s]]]]
        /\ disordered_bucket' =
             IF CoveredBuckets = {} THEN disordered_bucket
             ELSE bucket_number + distance - 1
    BY <1>7 DEF GetDisorderedValues
  <2>2. /\ Shrinks(source, source')
        /\ \A p \in Occupied(source') :
             p[1] \in CoveredBuckets => ~IsNonemptyAndDisordered(MetaAt(source', p))
    BY <1>1, <2>1, GetDisorderedValuesShrinks
  <2>3. /\ bucket_number \in Nat /\ disordered_bucket \in Nat /\ distance \in Nat
        /\ \A c \in Nat : c \in CoveredBuckets <=>
             bucket_number <= c /\ c < bucket_number + distance /\ disordered_bucket <= c
    <3>1. bucket_number \in DOMAIN source /\ bucket_number \in Nat /\ disordered_bucket \in Nat
      BY <1>1, SourceTyped DEF GetDisorderedValues, Shape, TypeOK
    <3>2. distance \in Nat
      BY <1>1, <3>1, SourceTyped, SizeAssumption DEF Bucket
    <3>3. CoveredBuckets = {b \in bucket_number .. bucket_number + distance - 1 :
                              disordered_bucket <= b}
      BY DEF CoveredBuckets
    <3> HIDE DEF distance
    <3> QED BY <3>1, <3>2, <3>3
  <2>4. ASSUME NEW p \in Occupied(source'), IsNonemptyAndDisordered(MetaAt(source', p))
        PROVE  disordered_bucket' <= p[1] /\ bucket_number < SourcePreferred(p)
    <3>1. p \in Occupied(source) /\ IsNonemptyAndDisordered(MetaAt(source, p))
      BY <2>2, <2>4 DEF Shrinks, Keeps
    <3>2. LET h1 == SourcePreferred(p)
          IN  /\ h1 <= p[1] /\ p[1] < h1 + source[h1].search_distance
              /\ bucket_number <= p[1] /\ disordered_bucket <= p[1]
              /\ ~(h1 < bucket_number)
      BY <1>1, <3>1 DEF SourceSwept, Collected
    <3>3. SourcePreferred(p) \in Nat /\ p[1] \in Nat
      BY <1>1, <3>1, SourceOccupied
    <3>4. p[1] \notin CoveredBuckets
      BY <2>2, <2>4
    <3>5. ~(p[1] < bucket_number + distance)
      BY <2>3, <3>2, <3>3, <3>4
    <3>6. SourcePreferred(p) # bucket_number
      BY <3>2, <3>5
    <3>7. disordered_bucket' <= p[1]
      <4> HIDE DEF distance
      <4> QED BY <2>1, <2>3, <3>2, <3>3, <3>5
    <3> QED BY <2>3, <3>2, <3>3, <3>6, <3>7
  <2> QED BY <1>5, <2>1, <2>2, <2>4
<1> QED BY <1>3, <1>6, <1>7

\* The scan goes on to the next bucket when nothing is left in this one.
LEMMA NextBucketSwept ==
  ASSUME Swept, Searchable', DistancesInArray', NextBucket
  PROVE  Swept'
<1>1. /\ Shape /\ SourceSwept /\ Sorted(buckets_) /\ Sorted(source) /\ RehashAscending
      /\ pc = "scan" /\ pc' = "collect" /\ Rehashing /\ OrderedAhead = {}
      /\ UNCHANGED <<hasher, buckets_, source, source_logical_size, disordered_bucket>>
      /\ bucket_number' = bucket_number + 1
  BY DEF Swept, Searchable, Counted, NextBucket, table, Rehashing
<1>2. Sorted(buckets_)'
  BY <1>1, SortedUnchanged
<1>3. Sorted(source)'
  <2>1. Shrinks(source, source')
    BY <1>1 DEF Shrinks, Keeps
  <2> QED BY <1>1, <2>1, SourceStaysSorted
<1>4. RehashAscending'
  BY <1>1 DEF RehashAscending, HashOf, Stored, Constructed, Positions, ValueAt
<1>5. SourceSwept'
  <2> DEFINE preferred(p) == H1(hasher[KeyOf[ValueAt(source, p)]], source_logical_size)
  <2> SUFFICES ASSUME NEW p \in Occupied(source)
               PROVE  /\ preferred(p) <= p[1]
                      /\ p[1] < preferred(p) + source[preferred(p)].search_distance
                      /\ bucket_number + 1 <= p[1]
                      /\ IsNonemptyAndDisordered(MetaAt(source, p)) =>
                           /\ disordered_bucket <= p[1]
                           /\ ~(preferred(p) < bucket_number + 1)
    BY <1>1 DEF SourceSwept, Collected, SourcePreferred, HashOf, Occupied, Positions,
                MetaAt, ValueAt
  <2>1. preferred(p) = SourcePreferred(p)
    BY DEF SourcePreferred, HashOf
  <2>2. SourcePreferred(p) \in Nat /\ p[1] \in Nat /\ bucket_number \in Nat
    BY <1>1, SourceOccupied DEF Shape, TypeOK
  <2>3. p[1] # bucket_number
    BY <1>1, AheadInOrder
  <2>4. LET h1 == SourcePreferred(p)
        IN  /\ h1 <= p[1] /\ p[1] < h1 + source[h1].search_distance
            /\ bucket_number <= p[1]
            /\ IsNonemptyAndDisordered(MetaAt(source, p)) =>
                 disordered_bucket <= p[1] /\ ~(h1 < bucket_number \/ h1 = bucket_number)
    BY <1>1 DEF SourceSwept, Collected
  <2> HIDE DEF preferred
  <2> QED BY <2>1, <2>2, <2>3, <2>4
<1> QED BY <1>2, <1>3, <1>4, <1>5 DEF Swept
-----------------------------------------------------------------------------
(* Search distances stay inside the array *)

\* The distance to a value stored in a bucket of the array stays inside it.
LEMMA RaisedInArray ==
  ASSUME Physical \in Nat, logical_size_ \in Nat,
         NEW preferred \in 0 .. logical_size_ - 1, NEW b \in 0 .. Physical - 1,
         preferred <= b, NEW d \in Nat, InArray(preferred, d)
  PROVE  InArray(preferred, MaxOf(d, DistanceTo(b - preferred)))
<1>1. PICK i \in Nat : i = b - preferred
  OBVIOUS
<1>2. DistanceTo(i) \in Nat /\ DistanceTo(i) <= i + 1
  BY DistanceRange, SizeAssumption
<1>3. DistanceTo(b - preferred) = DistanceTo(i)
  BY <1>1
<1>4. PICK e \in Nat : e = DistanceTo(i)
  BY <1>2
<1> HIDE DEF Physical
<1>5. preferred + e <= Physical
  BY <1>1, <1>2, <1>4
<1> QED BY <1>3, <1>4, <1>5 DEF InArray, MaxOf

\* Storing a value keeps all distances inside the array.
LEMMA StoresInArray ==
  ASSUME Physical \in Nat, logical_size_ \in Nat,
         NEW buckets \in [0 .. Physical - 1 -> Bucket \cup {Uninitialized}],
         NEW preferred \in 0 .. logical_size_ - 1, NEW b \in 0 .. Physical - 1,
         preferred \in 0 .. Physical - 1, buckets[preferred] \in Bucket, preferred <= b,
         NEW s, NEW meta_byte, NEW value, NEW new,
         Stores(Physical, buckets, preferred, b, s, meta_byte, value, new),
         InArray(preferred, buckets[preferred].search_distance)
  PROVE  \A x \in 0 .. Physical - 1 : new[x] # Uninitialized =>
           /\ buckets[x] \in Bucket
           /\ IF x = preferred THEN InArray(x, new[x].search_distance)
              ELSE new[x].search_distance = buckets[x].search_distance
<1>1. buckets[preferred].search_distance \in Nat
  BY SizeAssumption DEF Bucket
<1>2. InArray(preferred, MaxOf(buckets[preferred].search_distance, DistanceTo(b - preferred)))
  BY <1>1, RaisedInArray
<1>3. new[preferred].search_distance
        = MaxOf(buckets[preferred].search_distance, DistanceTo(b - preferred))
  BY Zenon DEF Stores
<1> HIDE DEF Physical
<1>4. ASSUME NEW x \in 0 .. Physical - 1, new[x] # Uninitialized
      PROVE  /\ buckets[x] \in Bucket
             /\ x # preferred => new[x].search_distance = buckets[x].search_distance
  BY <1>4 DEF Stores
<1>5. InArray(preferred, new[preferred].search_distance)
  BY <1>2, <1>3, Zenon
<1> QED BY <1>4, <1>5

\* The preferred buckets are not among the overflow buckets.
LEMMA PreferredLogical ==
  ASSUME Shape, logical_size_ > 0, NEW value \in Values
  PROVE  /\ logical_size_ \in Nat /\ Physical \in Nat /\ logical_size_ < Physical
         /\ Preferred(value) \in 0 .. logical_size_ - 1
         /\ Preferred(value) \in 0 .. Physical - 1
<1>1. logical_size_ \in Nat
  BY SizeAssumption DEF Shape, TypeOK
<1> QED BY <1>1, PreferredRange, PhysicalRange DEF Shape, Preferred, Physical

\* An ascending insert keeps distances inside the array.
LEMMA InsertAscendingInArray ==
  ASSUME Shape, Rehashing, DistancesInArray, NEW value \in Values,
         ~InsertOverruns(value), InsertAscending(value)
  PROVE  DistancesInArray'
<1> DEFINE opened == Opened(value)
           h1 == Preferred(value)
           b == At(value)[1]
<1>1. /\ logical_size_ \in Nat /\ Physical \in Nat
      /\ h1 \in 0 .. logical_size_ - 1
      /\ logical_size_' = logical_size_ /\ pc' = pc /\ pc # "aborted" /\ ~AtRest /\ ~AtRest'
      /\ insert_bucket \in Nat
  <2>1. /\ logical_size_ \in Nat /\ Physical \in Nat /\ logical_size_ > 0
        /\ insert_bucket \in Nat
    BY RehashingShape DEF Shape, TypeOK
  <2>2. h1 \in 0 .. logical_size_ - 1
    BY <2>1, PreferredLogical
  <2>3. logical_size_' = logical_size_ /\ pc' = pc
    BY DEF InsertAscending
  <2>4. pc # "aborted" /\ ~AtRest /\ ~AtRest'
    BY <2>3 DEF Rehashing, AtRest
  <2> QED BY <2>1, <2>2, <2>3, <2>4
<1>2. /\ h1 \in 0 .. Physical - 1 /\ b \in 0 .. Physical - 1 /\ h1 <= b
      /\ opened \in [0 .. Physical - 1 -> Bucket \cup {Uninitialized}]
      /\ opened[h1] \in Bucket
      /\ Stores(Physical, opened, h1, b, At(value)[2], OrderedByte(value), value, buckets_')
      /\ \A x \in 0 .. Physical - 1 :
              opened[x] = IF insert_bucket + 1 <= x /\ x <= NextAt(value)[1] THEN InitBucket
                          ELSE buckets_[x]
  BY InsertAscendingStores
<1>3. DOMAIN buckets_ = 0 .. Physical - 1 /\ DOMAIN buckets_' = 0 .. Physical - 1
  BY <1>2, RehashingShape DEF Stores
<1>4. Physical' = Physical
  BY <1>1 DEF Physical
<1> HIDE DEF opened, h1, b
<1>5. ASSUME NEW x \in 0 .. Physical - 1, opened[x] # Uninitialized
      PROVE  InArray(x, opened[x].search_distance)
  <2>1. CASE opened[x] = InitBucket
    <3>1. opened[x].search_distance = 0
      BY <2>1 DEF InitBucket
    <3> HIDE DEF Physical
    <3> QED BY <1>1, <3>1 DEF InArray
  <2>2. CASE opened[x] = buckets_[x]
    BY <1>1, <1>3, <1>5, <2>2 DEF DistancesInArray, InArray
  <2> QED BY <1>2, <2>1, <2>2
<1>6. InArray(h1, opened[h1].search_distance)
  BY <1>2, <1>5, UninitializedAssumption
<1>7. \A x \in 0 .. Physical - 1 : buckets_'[x] # Uninitialized =>
           /\ opened[x] \in Bucket
           /\ IF x = h1 THEN InArray(x, buckets_'[x].search_distance)
              ELSE buckets_'[x].search_distance = opened[x].search_distance
  BY <1>1, <1>2, <1>6, StoresInArray
<1>8. \A x \in 0 .. Physical - 1 : buckets_'[x] # Uninitialized =>
        InArray(x, buckets_'[x].search_distance)
  BY <1>5, <1>7, UninitializedAssumption
<1> QED BY <1>1, <1>3, <1>4, <1>8 DEF DistancesInArray, InArray

\* Search distances do not change, and the table is at rest if it was.
LEMMA DistancesKept ==
  ASSUME DistancesInArray, UNCHANGED logical_size_,
         pc' # "aborted" => pc # "aborted" /\ (AtRest' <=> AtRest),
         DOMAIN buckets_' = DOMAIN buckets_,
         \A x \in DOMAIN buckets_ : buckets_'[x] # Uninitialized =>
           /\ buckets_[x] # Uninitialized
           /\ buckets_'[x].search_distance = buckets_[x].search_distance
  PROVE  DistancesInArray'
<1>1. Physical' = Physical
  BY DEF Physical
<1> QED BY <1>1 DEF DistancesInArray

\* A step that leaves the table alone, and at rest if it was.
LEMMA DistancesUnchanged ==
  ASSUME DistancesInArray, UNCHANGED table,
         pc' # "aborted" => pc # "aborted" /\ (AtRest' <=> AtRest)
  PROVE  DistancesInArray'
BY DistancesKept DEF table

\* A rehash starts with one open bucket of no search distance.
LEMMA StartRehashInArray ==
  ASSUME Shape, DistancesInArray, NEW slot_count, StartRehash(slot_count), Shape'
  PROVE  DistancesInArray'
<1>1. CASE pc' = "aborted"
  BY <1>1 DEF DistancesInArray
<1>2. CASE pc' = "collect" /\ insert_bucket' = 0 /\ buckets_'[0] = InitBucket
  <2> SUFFICES ASSUME NEW x \in DOMAIN buckets_', buckets_'[x] # Uninitialized
               PROVE  /\ x + buckets_'[x].search_distance <= Physical'
                      /\ x >= logical_size_' => buckets_'[x].search_distance = 0
    BY <1>2 DEF DistancesInArray, AtRest
  <2>1. x \in Nat /\ Physical' \in Nat /\ x < Physical' /\ logical_size_' \in Nat
    <3>1. logical_size_' \in Nat
      BY SizeAssumption DEF Shape, TypeOK
    <3>2. Physical' \in Nat
      BY <3>1, PhysicalRange DEF Physical
    <3>3. DOMAIN buckets_' = 0 .. Physical' - 1
      BY DEF Shape, TypeOK, BucketsTyped, Physical
    <3> QED BY <3>1, <3>2, <3>3
  <2>2. ~(x > 0)
    BY <1>2 DEF Shape, NewInv, InitializedPrefix, Rehashing
  <2>3. x = 0
    BY <2>1, <2>2
  <2>4. buckets_'[x].search_distance = 0
    BY <1>2, <2>3 DEF InitBucket
  <2> QED BY <2>1, <2>4
<1> QED BY <1>1, <1>2, StartRehashEmpties

\* An insert keeps distances inside the array.
LEMMA PlaceValueInArray ==
  ASSUME Shape, DistancesInArray, PlaceValue
  PROVE  DistancesInArray'
<1> DEFINE value == call.value
           h1 == Preferred(value)
           meta_byte == SetUnorderedValue(H2(HashOf(value)))
<1>1. CASE pc' = "aborted"
  BY <1>1 DEF DistancesInArray
<1>2. CASE UNCHANGED table /\ pc' = "idle"
  BY <1>2, DistancesUnchanged DEF PlaceValue, AtRest
<1>3. CASE /\ \E i \in Least(OpenOffsets(h1)) :
                \E s \in Least(FindEmpties(buckets_[h1 + i])) :
                  buckets_' = StoreValue(buckets_, h1, h1 + i, s, meta_byte, value)
           /\ pc' = "idle" /\ UNCHANGED logical_size_
  <2>1. PICK i \in OpenOffsets(h1) :
          \E s \in FindEmpties(buckets_[h1 + i]) :
            buckets_' = StoreValue(buckets_, h1, h1 + i, s, meta_byte, value)
    BY <1>3 DEF Least
  <2>2. PICK s \in FindEmpties(buckets_[h1 + i]) :
          buckets_' = StoreValue(buckets_, h1, h1 + i, s, meta_byte, value)
    BY <2>1
  <2>3. /\ AtRest /\ AtRest' /\ value \in Values /\ logical_size_ > 0 /\ pc # "aborted"
    BY <1>3 DEF PlaceValue, AtRest, Shape, CallInv
  <2>4. /\ logical_size_ \in Nat /\ Physical \in Nat /\ logical_size_ < Physical
        /\ h1 \in 0 .. logical_size_ - 1 /\ h1 \in 0 .. Physical - 1
    BY <2>3, PreferredLogical
  <2>5. /\ buckets_ \in [0 .. Physical - 1 -> Bucket \cup {Uninitialized}]
        /\ DOMAIN buckets_ = 0 .. Physical - 1
        /\ \A b \in 0 .. Physical - 1 : buckets_[b] \in Bucket
    BY <2>3, AtRestShape DEF Consistent, Shape, TypeOK, BucketsTyped, Physical
  <2>6. meta_byte \in MetaByte /\ s \in SlotNumber
    BY <2>3, PreferredRange, MetaBytes DEF Shape, FindEmpties
  <2> HIDE DEF h1, meta_byte, value
  <2>7. i \in Nat /\ h1 + i \in 0 .. Physical - 1 /\ h1 <= h1 + i
    BY <2>4, SizeAssumption DEF OpenOffsets
  <2>8. PICK b \in 0 .. Physical - 1 : b = h1 + i
    BY <2>7
  <2>9. Stores(Physical, buckets_, h1, b, s, meta_byte, value, buckets_')
    BY <2>2, <2>3, <2>4, <2>5, <2>6, <2>7, <2>8, StoreValueStores
  <2>10. ASSUME NEW x \in 0 .. Physical - 1
         PROVE  IF x = Physical - 1
                THEN buckets_[x].search_distance = kSearchDistanceEndSentinal
                ELSE InArray(x, buckets_[x].search_distance)
    BY <2>3, <2>5, UninitializedAssumption DEF DistancesInArray, InArray
  <2>11. h1 # Physical - 1
    <3> HIDE DEF Physical
    <3> QED BY <2>4
  <2>12. InArray(h1, buckets_[h1].search_distance)
    BY <2>4, <2>10, <2>11
  <2>13. \A x \in 0 .. Physical - 1 : buckets_'[x] # Uninitialized =>
           /\ buckets_[x] \in Bucket
           /\ IF x = h1 THEN InArray(x, buckets_'[x].search_distance)
              ELSE buckets_'[x].search_distance = buckets_[x].search_distance
    BY <2>4, <2>5, <2>7, <2>8, <2>9, <2>12, StoresInArray
  <2>14. DOMAIN buckets_' = 0 .. Physical - 1 /\ Physical' = Physical
    BY <1>3, <2>9 DEF Stores, Physical
  <2>15. \A x \in 0 .. Physical - 1 : buckets_'[x] # Uninitialized =>
           IF x = Physical - 1
           THEN buckets_'[x].search_distance = kSearchDistanceEndSentinal
           ELSE InArray(x, buckets_'[x].search_distance)
    BY <2>10, <2>11, <2>13
  <2> QED BY <1>3, <2>3, <2>14, <2>15 DEF DistancesInArray, InArray
<1> QED BY <1>1, <1>2, <1>3 DEF PlaceValue, Return, Preferred
\* An erase changes no search distance.
LEMMA EraseInArray ==
  ASSUME Shape, AtRest, AtRest', DistancesInArray, NEW p \in Occupied(buckets_), EraseAt(p)
  PROVE  DistancesInArray'
<1>1. Removes(buckets_, buckets_', p) /\ Grows(buckets_, buckets_')
  BY EraseAtRemoves
<1>2. /\ buckets_ \in [0 .. Physical - 1 -> Bucket] /\ DOMAIN buckets_ = 0 .. Physical - 1
  BY AtRestShape DEF Consistent, Shape, TypeOK, BucketsTyped, Physical
<1>3. p[1] \in 0 .. Physical - 1 /\ p[2] \in SlotNumber
  BY <1>2, OccupiedPair
<1>4. /\ DOMAIN buckets_' = DOMAIN buckets_
      /\ \A x \in DOMAIN buckets_ : buckets_'[x].search_distance = buckets_[x].search_distance
  <2>1. buckets_' = [buckets_ EXCEPT ![p[1]].h2[p[2]] = kEmpty,
                                     ![p[1]].slots[p[2]] = NoValue]
    BY DEF EraseAt
  <2> QED BY <1>2, <1>3, <2>1 DEF Bucket
<1>5. pc # "aborted" /\ UNCHANGED logical_size_
  BY DEF AtRest, EraseAt
<1> QED BY <1>2, <1>4, <1>5, DistancesKept, UninitializedAssumption

\* The end of a rehash opens buckets of no search distance, and puts the
\* sentinel on the last one.
LEMMA FinishRehashInArray ==
  ASSUME Shape, DistancesInArray, FinishRehash
  PROVE  DistancesInArray'
<1> DEFINE opened == InitBuckets(buckets_, insert_bucket + 1, Physical - 1)
<1>1. /\ Rehashing /\ ~AtRest /\ pc # "aborted" /\ AtRest'
      /\ buckets_' = MarkEnd(opened) /\ logical_size_' = logical_size_ /\ Physical' = Physical
  BY DEF FinishRehash, Return, Rehashing, AtRest, Physical
<1>2. /\ logical_size_ \in Nat /\ Physical \in Nat \ {0}
      /\ insert_bucket \in 0 .. Physical - 1
      /\ buckets_ \in [0 .. Physical - 1 -> Bucket \cup {Uninitialized}]
      /\ \A x \in 0 .. Physical - 1 :
              /\ (buckets_[x] = Uninitialized) <=> (x > insert_bucket)
              /\ x <= insert_bucket => Consistent(buckets_[x])
  BY <1>1, RehashingShape
<1>3. /\ opened \in [0 .. Physical - 1 -> Bucket \cup {Uninitialized}]
      /\ \A x \in 0 .. Physical - 1 :
           opened[x] = IF insert_bucket + 1 <= x /\ x <= Physical - 1 THEN InitBucket
                       ELSE buckets_[x]
  BY <1>2, InitBucketsRange
<1> HIDE DEF opened
<1>4. ASSUME NEW x \in 0 .. Physical - 1
      PROVE  InArray(x, opened[x].search_distance) /\ opened[x] \in Bucket
  <2>1. CASE x > insert_bucket
    <3>1. opened[x] = InitBucket
      BY <1>2, <1>3, <2>1
    <3>2. opened[x].search_distance = 0 /\ opened[x] \in Bucket
      BY <3>1, InitBucketConsistent DEF InitBucket, Consistent
    <3> HIDE DEF Physical
    <3> QED BY <1>2, <3>2 DEF InArray
  <2>2. CASE ~(x > insert_bucket)
    <3>1. opened[x] = buckets_[x] /\ x <= insert_bucket /\ buckets_[x] # Uninitialized
      BY <1>2, <1>3, <2>2
    <3>2. buckets_[x] \in Bucket
      BY <1>2, <3>1
    <3>3. x \in DOMAIN buckets_
      BY <1>2
    <3> QED BY <1>1, <3>1, <3>2, <3>3 DEF DistancesInArray, InArray
  <2> QED BY <2>1, <2>2
<1>5. /\ DOMAIN buckets_' = 0 .. Physical - 1
      /\ \A x \in 0 .. Physical - 1 :
           IF x = Physical - 1
           THEN buckets_'[x].search_distance = kSearchDistanceEndSentinal
           ELSE buckets_'[x].search_distance = opened[x].search_distance
  <2>1. buckets_' = [opened EXCEPT ![Physical - 1].search_distance = kSearchDistanceEndSentinal]
    BY <1>1 DEF MarkEnd
  <2>2. Physical - 1 \in 0 .. Physical - 1
    BY <1>2
  <2>3. DOMAIN opened = 0 .. Physical - 1 /\ opened[Physical - 1] \in Bucket
    BY <1>3, <1>4, <2>2
  <2> QED BY <2>1, <2>2, <2>3 DEF Bucket
<1> QED BY <1>1, <1>4, <1>5 DEF DistancesInArray, InArray

\* Every step keeps search distances inside the array.
LEMMA NextInArray ==
  ASSUME Counted, DistancesInArray, [Next]_vars
  PROVE  DistancesInArray'
<1>1. Shape /\ Shape'
  BY NextCounted DEF Counted
<1>2. ASSUME NEW slot_count, StartRehash(slot_count)
      PROVE  DistancesInArray'
  BY <1>1, <1>2, StartRehashInArray
<1>3. ASSUME UNCHANGED table, pc' # "aborted" => pc # "aborted" /\ (AtRest' <=> AtRest)
      PROVE  DistancesInArray'
  BY <1>3, DistancesUnchanged
<1>4. CASE pc' = "aborted"
  BY <1>4 DEF DistancesInArray
<1>5. ASSUME NEW value \in Values, Insert(value) PROVE DistancesInArray'
  BY <1>2, <1>3, <1>5 DEF Insert, AtRest
<1>6. ASSUME AtRest, pc' = "idle", NEW p \in Occupied(buckets_), EraseAt(p)
      PROVE  DistancesInArray'
  BY <1>1, <1>6, EraseInArray DEF AtRest
<1>7. ASSUME NEW key \in Keys, EraseKey(key) PROVE DistancesInArray'
  <2>1. AtRest
    BY <1>7 DEF EraseKey, AtRest
  <2>2. CASE UNCHANGED table /\ pc' \in {"idle", "aborted"}
    BY <1>3, <2>1, <2>2 DEF AtRest
  <2>3. CASE \E p \in Find(key) : EraseAt(p) /\ pc' = "idle"
    BY <1>1, <1>6, <1>7, <2>1, <2>3, FindOccupied
  <2> QED BY <1>7, <2>2, <2>3 DEF EraseKey, Return
<1>8. ASSUME NEW p \in (DOMAIN buckets_) \X SlotNumber, EraseIterator(p)
      PROVE  DistancesInArray'
  BY <1>1, <1>6, <1>8, IteratorOccupied DEF EraseIterator, Return, AtRest
<1>9. CASE Clear
  <2>1. DOMAIN buckets_' = {}
    BY <1>9, PhysicalRange DEF Clear, NewBuckets
  <2> QED BY <2>1 DEF DistancesInArray
<1>10. ASSUME NEW count \in ReserveCounts, Reserve(count) PROVE DistancesInArray'
  BY <1>2, <1>3, <1>10 DEF Reserve, Return, AtRest
<1>11. ASSUME NEW count \in RehashCounts, Rehash(count) PROVE DistancesInArray'
  BY <1>2, <1>11 DEF Rehash
<1>12. CASE PlaceValue
  BY <1>1, <1>12, PlaceValueInArray
<1>13. CASE GetDisorderedValues \/ NextBucket
  BY <1>3, <1>13 DEF GetDisorderedValues, NextBucket, AtRest
<1>14. ASSUME Rehashing, InsertFromHeap PROVE DistancesInArray'
  BY <1>1, <1>4, <1>14, InsertFromHeapMoves, InsertAscendingInArray
<1>15. CASE ScanBucket
  <2>1. Rehashing
    BY <1>15 DEF ScanBucket, Rehashing
  <2> QED BY <1>1, <1>4, <1>14, <1>15, <2>1, ScanBucketMoves, InsertAscendingInArray
<1>16. CASE DrainHeap
  BY <1>14, <1>16 DEF DrainHeap, Rehashing
<1>17. CASE FinishRehash
  BY <1>1, <1>17, FinishRehashInArray
<1>18. CASE UNCHANGED vars
  BY <1>3, <1>4, <1>18 DEF vars, AtRest
<1> QED
  BY <1>5, <1>7, <1>8, <1>9, <1>10, <1>11, <1>12, <1>13, <1>15, <1>16, <1>17, <1>18
  DEF Next, Step

\* No search distance leads out of the array, in any state of any history,
\* whatever has become of those that outgrow their byte.
THEOREM DistancesInArrayInvariant == Spec => []DistancesInArray
<1>1. Init => DistancesInArray
  <2>1. DOMAIN NewBuckets(0) = {}
    BY PhysicalRange DEF NewBuckets
  <2> QED BY <2>1 DEF Init, DistancesInArray
<1>2. Counted /\ DistancesInArray /\ [Next]_vars => DistancesInArray'
  BY NextInArray
<1> QED BY <1>1, <1>2, CountedInvariant, PTL DEF Spec

\* In a table with fewer buckets than the sentinel no search distance that ends
\* inside the array is the sentinel.
LEMMA SmallDistancesInRange ==
  ASSUME \A n \in 0 .. MaxLogicalSize : PhysicalSize(n) < kSearchDistanceEndSentinal,
         Shape, DistancesInArray
  PROVE  SearchDistancesInRange
<1> SUFFICES ASSUME AtRest, logical_size_ > 0
             PROVE  /\ \A b \in 0 .. logical_size_ - 1 :
                         /\ b + buckets_[b].search_distance <= Physical
                         /\ buckets_[b].search_distance # kSearchDistanceEndSentinal
                    /\ \A b \in logical_size_ .. Physical - 2 :
                         buckets_[b].search_distance = 0
                    /\ buckets_[Physical - 1].search_distance = kSearchDistanceEndSentinal
  BY DEF SearchDistancesInRange
<1>1. /\ logical_size_ \in Nat /\ Physical \in Nat /\ logical_size_ < Physical
      /\ Physical < kSearchDistanceEndSentinal
  BY PhysicalRange, SizeAssumption DEF Shape, TypeOK, Physical
<1>2. \A b \in 0 .. Physical - 1 :
        IF b = Physical - 1
        THEN buckets_[b].search_distance = kSearchDistanceEndSentinal
        ELSE /\ b + buckets_[b].search_distance <= Physical
             /\ b >= logical_size_ => buckets_[b].search_distance = 0
  BY AtRestShape, UninitializedAssumption DEF DistancesInArray, AtRest, Consistent
<1>3. \A b \in 0 .. Physical - 1 : buckets_[b].search_distance \in Nat
  BY AtRestShape, SizeAssumption DEF Consistent, Bucket
<1> HIDE DEF Physical
<1> QED BY <1>1, <1>2, <1>3, SizeAssumption

\* What Validate() says of search distances, in tables with fewer buckets than
\* the sentinel: in larger ones a value 254 buckets from its preferred one makes
\* the search distance of a logical bucket the sentinel.
THEOREM DistancesCorrect ==
  ASSUME \A n \in 0 .. MaxLogicalSize : PhysicalSize(n) < kSearchDistanceEndSentinal
  PROVE  Spec => []SearchDistancesInRange
<1>1. Shape /\ DistancesInArray => SearchDistancesInRange
  BY SmallDistancesInRange
<1> QED BY <1>1, ShapeInvariant, DistancesInArrayInvariant, PTL

-----------------------------------------------------------------------------
(* Every step keeps the order *)

\* A failed assert of the sweep leaves the table sorted.
LEMMA AbortSwept ==
  ASSUME Swept, Searchable', DistancesInArray', pc' = "aborted",
         UNCHANGED <<hasher, buckets_>>
  PROVE  Swept'
BY SortedUnchanged, SweptAtRest DEF Swept, Rehashing

\* A step of the scan keeps what the sweep promises.
LEMMA ScanBucketSwept ==
  ASSUME Swept, Searchable', DistancesInArray', ScanBucket
  PROVE  Swept'
<1>1. /\ Shape /\ Shape' /\ SourceSwept /\ Sorted(source) /\ pc = "scan" /\ Rehashing
      /\ UNCHANGED <<hasher, source_logical_size, bucket_number, disordered_bucket>>
  BY DEF Swept, Searchable, Counted, ScanBucket, Rehashing
<1>2. CASE pc' = "aborted" /\ UNCHANGED <<table, target, heap, source>>
  BY <1>1, <1>2, AbortSwept DEF table
<1>3. CASE /\ \E value \in Values, q \in Constructed(source) : MovesLeast(value, q)
           /\ \A r \in Occupied(source') : r[1] = bucket_number => slot_number' <= r[2]
  <2>1. PICK value \in Values, q \in Constructed(source) : MovesLeast(value, q)
    BY <1>3
  <2>2. UNCHANGED pc /\ Rehashing' /\ Shrinks(source, source')
    BY <1>1, <2>1 DEF MovesLeast, InsertAscending, Rehashing
  <2>3. Sorted(buckets_)' /\ Sorted(source)' /\ RehashAscending'
    BY <1>1, <2>1, <2>2, MoveAscending
  <2>4. SourceSwept'
    BY <1>1, <1>3, <2>2, MoveSwept
  <2> QED BY <2>3, <2>4 DEF Swept
<1> QED BY <1>1, <1>2, <1>3, ScanBucketLeast

\* At the end of the scan only the heap refers to values of the source.
LEMMA SweepComplete ==
  ASSUME Shape, SourceSwept, Rehashing, bucket_number = SourcePhysical
  PROVE  Occupied(source) = {}
<1> SUFFICES ASSUME NEW p \in Occupied(source) PROVE FALSE
  OBVIOUS
<1>1. SourcePhysical <= p[1]
  BY DEF SourceSwept
<1>2. p[1] \in 0 .. SourcePhysical - 1 /\ SourcePhysical \in Nat
  BY SourceOccupied
<1> HIDE DEF SourcePhysical
<1> QED BY <1>1, <1>2

\* When the heap is drained too nothing is left: a rehash loses no value.
LEMMA SourceEmptied ==
  ASSUME Shape, SourceSwept, Rehashing, bucket_number = SourcePhysical, heap = {}
  PROVE  Constructed(source) = {} /\ Stored(source) = {}
<1>1. Constructed(source) = {}
  BY SweepComplete, ConstructedSource
<1> QED BY <1>1 DEF Stored

\* Draining the heap keeps the order.
LEMMA DrainHeapSwept ==
  ASSUME Swept, Searchable', DistancesInArray', DrainHeap
  PROVE  Swept'
<1>1. /\ Shape /\ Shape' /\ SourceSwept /\ Sorted(source) /\ pc = "collect" /\ Rehashing
      /\ bucket_number = SourcePhysical /\ InsertFromHeap
      /\ UNCHANGED <<hasher, source_logical_size, bucket_number, disordered_bucket>>
  BY DEF Swept, Searchable, Counted, DrainHeap, Rehashing
<1>2. Occupied(source) = {}
  BY <1>1, SweepComplete
<1>3. CASE pc' = "aborted" /\ UNCHANGED <<table, target, heap, source>>
  BY <1>1, <1>3, AbortSwept DEF table
<1>4. CASE \E value \in Values, q \in Constructed(source) : MovesLeast(value, q)
  <2>1. PICK value \in Values, q \in Constructed(source) : MovesLeast(value, q)
    BY <1>4
  <2>2. UNCHANGED pc /\ Rehashing' /\ Shrinks(source, source')
    BY <1>1, <2>1 DEF MovesLeast, InsertAscending, Rehashing
  <2>3. Sorted(buckets_)' /\ Sorted(source)' /\ RehashAscending'
    BY <1>1, <2>1, <2>2, MoveAscending
  <2>4. SourceSwept'
    BY <1>1, <2>2, MoveSwept
  <2> QED BY <2>3, <2>4 DEF Swept
<1> QED BY <1>1, <1>2, <1>3, <1>4, InsertFromHeapLeast

\* The end of a rehash moves nothing.
LEMMA FinishRehashSwept ==
  ASSUME Swept, Searchable', DistancesInArray', FinishRehash
  PROVE  Swept'
<1>1. Same(buckets_, buckets_') /\ hasher' = hasher /\ ~Rehashing'
  BY FinishRehashKeeps DEF Swept, Searchable, Counted, FinishRehash, Return, Rehashing
<1>2. Sorted(buckets_)'
  BY <1>1, SortedRest DEF Swept, Same
<1> QED BY <1>1, <1>2, SweptAtRest

\* A value that an insert puts in the first empty slot is marked as out of order.
LEMMA PlaceValueSwept ==
  ASSUME Swept, Searchable', DistancesInArray', PlaceValue
  PROVE  Swept'
<1> DEFINE meta_byte == SetUnorderedValue(H2(HashOf(call.value)))
<1>1. Shape /\ Sorted(buckets_) /\ hasher' = hasher /\ ~Rehashing'
  BY DEF Swept, Searchable, Counted, PlaceValue, Return, Rehashing
<1>2. CASE UNCHANGED table
  BY <1>1, <1>2, SortedUnchanged, SweptAtRest DEF table
<1>3. CASE \E i \in 0 .. kSearchDistanceEndSentinal - 1, s \in SlotNumber :
             Adds(buckets_, buckets_', <<Preferred(call.value) + i, s>>, meta_byte, call.value)
  <2>1. PICK t : Adds(buckets_, buckets_', t, meta_byte, call.value)
    BY <1>3
  <2>2. ~IsNonemptyAndOrdered(meta_byte)
    <3>1. call.value \in Values
      BY <1>1 DEF Shape, CallInv, PlaceValue
    <3>2. HashOf(call.value) \in Hash
      BY <1>1, <3>1, PreferredRange DEF Shape
    <3>3. H2(HashOf(call.value)) \in 0 .. 63
      BY <3>2, MetaBytes
    <3> QED BY <3>3 DEF SetUnorderedValue, IsNonemptyAndOrdered, kOrderedMask
  <2> HIDE DEF meta_byte
  <2>3. Sorted(buckets_)'
    BY <1>1, <2>1, <2>2, SortedAdd
  <2> QED BY <1>1, <2>3, SweptAtRest
<1> QED BY <1>1, <1>2, <1>3, PlaceValueAdds

\* Every step keeps the order, as long as distances fit their byte.
LEMMA NextSwept ==
  ASSUME DistancesInByte, Swept, [Next]_vars
  PROVE  Swept'
<1>1. Searchable' /\ DistancesInArray' /\ Searchable /\ Counted /\ Shape
  BY NextSearchable, NextInArray DEF Swept, Searchable, Counted
<1>2. ASSUME AtRest, hasher' = hasher, NEW slot_count, StartRehash(slot_count)
      PROVE  Swept'
  BY <1>1, <1>2, StartRehashSwept
<1>3. ASSUME UNCHANGED <<hasher, table>>, ~Rehashing'
      PROVE  Swept'
  BY <1>1, <1>3, SortedUnchanged, SweptAtRest DEF Swept, table
<1>4. ASSUME AtRest, hasher' = hasher, pc' = "idle", NEW p \in Occupied(buckets_), EraseAt(p)
      PROVE  Swept'
  <2>1. Removes(buckets_, buckets_', p)
    BY <1>1, <1>4, EraseAtRemoves
  <2>2. Sorted(buckets_)'
    BY <1>4, <2>1, SortedRest DEF Swept, Removes
  <2> QED BY <1>1, <1>4, <2>2, SweptAtRest DEF Rehashing
<1>5. ASSUME NEW value \in Values, Insert(value) PROVE Swept'
  BY <1>2, <1>3, <1>5 DEF Insert, AtRest, Rehashing
<1>6. ASSUME NEW key \in Keys, EraseKey(key) PROVE Swept'
  <2>1. AtRest /\ hasher' = hasher
    BY <1>6 DEF EraseKey, AtRest
  <2>2. CASE UNCHANGED table /\ pc' \in {"idle", "aborted"}
    BY <1>3, <2>1, <2>2 DEF Rehashing
  <2>3. CASE \E p \in Find(key) : EraseAt(p) /\ pc' = "idle"
    BY <1>1, <1>4, <1>6, <2>1, <2>3, FindOccupied
  <2> QED BY <1>6, <2>2, <2>3 DEF EraseKey, Return
<1>7. ASSUME NEW p \in (DOMAIN buckets_) \X SlotNumber, EraseIterator(p) PROVE Swept'
  BY <1>1, <1>4, <1>7, IteratorOccupied DEF EraseIterator, Return, AtRest
<1>8. CASE Clear
  <2>1. DOMAIN buckets_' = {} /\ ~Rehashing'
    BY <1>8, PhysicalRange DEF Clear, NewBuckets, Return, Rehashing
  <2>2. Occupied(buckets_') = {}
    BY <2>1 DEF Occupied, Positions
  <2>3. Sorted(buckets_)'
    BY <2>2 DEF Sorted
  <2> QED BY <1>1, <2>1, <2>3, SweptAtRest
<1>9. ASSUME NEW count \in ReserveCounts, Reserve(count) PROVE Swept'
  BY <1>2, <1>3, <1>9 DEF Reserve, Return, AtRest, Rehashing
<1>10. ASSUME NEW count \in RehashCounts, Rehash(count) PROVE Swept'
  BY <1>2, <1>10 DEF Rehash, AtRest
<1>11. CASE PlaceValue
  BY <1>1, <1>11, PlaceValueSwept
<1>12. CASE GetDisorderedValues
  BY <1>1, <1>12, GetDisorderedValuesSwept
<1>13. CASE ScanBucket
  BY <1>1, <1>13, ScanBucketSwept
<1>14. CASE NextBucket
  BY <1>1, <1>14, NextBucketSwept
<1>15. CASE DrainHeap
  BY <1>1, <1>15, DrainHeapSwept
<1>16. CASE FinishRehash
  BY <1>1, <1>16, FinishRehashSwept
<1>17. CASE UNCHANGED vars
  <2>1. UNCHANGED <<hasher, buckets_, pc, scan, source>>
    BY <1>17 DEF vars, table, scan
  <2>2. Sorted(buckets_)' /\ (Rehashing' => Sorted(source)')
    <3>1. Shrinks(source, source')
      BY <2>1 DEF Shrinks, Keeps
    <3> QED BY <2>1, <3>1, SortedUnchanged, SourceStaysSorted DEF Swept, Rehashing
  <2>4. RehashAscending'
    BY <2>1 DEF Swept, Rehashing, RehashAscending, HashOf, Stored, Constructed, Positions,
                ValueAt
  <2>3. SourceSwept'
    BY <2>1 DEF Swept, scan, Rehashing, SourceSwept, SourcePreferred, Collected,
                Occupied, Positions, MetaAt, ValueAt, HashOf
  <2> QED BY <1>1, <2>2, <2>3, <2>4 DEF Swept
<1> QED
  BY <1>5, <1>6, <1>7, <1>8, <1>9, <1>10, <1>11, <1>12, <1>13, <1>14, <1>15, <1>16, <1>17
  DEF Next, Step

\* An empty table is in order.
LEMMA InitSwept == Init => Swept
<1> SUFFICES ASSUME Init PROVE Swept
  OBVIOUS
<1>1. DOMAIN buckets_ = {} /\ ~Rehashing
  BY PhysicalRange DEF Init, NewBuckets, Rehashing
<1>2. Occupied(buckets_) = {}
  BY <1>1 DEF Occupied, Positions
<1> QED
  BY <1>1, <1>2, InitSearchable
  DEF Swept, DistancesInArray, SourceSwept, Sorted, RehashAscending

\* The sweep of a rehash leaves nothing behind it and moves the values in the
\* order of their hashes, in every state of every history in which no distance
\* outgrows its byte.
THEOREM SweptInvariant == Spec /\ []DistancesInByte => []Swept
<1>1. Init => Swept
  BY InitSwept
<1>2. Swept /\ DistancesInByte /\ [Next]_vars => Swept'
  BY NextSwept
<1> QED BY <1>1, <1>2, PTL DEF Spec

\* The ordered elements of the table are sorted by hash (Validate()).
THEOREM OrderCorrect == Spec /\ []DistancesInByte => []OrderedSorted
<1>1. Swept => OrderedSorted
  BY DEF Swept, Sorted, OrderedSorted
<1> QED BY <1>1, SweptInvariant, PTL

\* A rehash moves the values in the order of their hashes, though the heap and
\* the buckets hold them in an order of their own.
THEOREM RehashInOrder == Spec /\ []DistancesInByte => []RehashAscending
<1>1. Swept => RehashAscending
  BY DEF Swept
<1> QED BY <1>1, SweptInvariant, PTL

\* In a table that never has more than 255 buckets no distance outgrows its byte,
\* and order needs no further hypotheses.
THEOREM SmallTablesOrdered ==
  ASSUME DistancesFit
  PROVE  Spec => [](OrderedSorted /\ RehashAscending)
<1>1. Shape => DistancesInByte
  BY SmallDistances
<1> QED BY <1>1, ShapeInvariant, OrderCorrect, RehashInOrder, PTL

-----------------------------------------------------------------------------
(* What the effects of a step do to the set of values *)

\* The values the table holds, in the new buckets or still in the old ones, and
\* the one being inserted: what the refinement mapping gives AbstractSet.
Contents == Stored(buckets_) \cup Stored(source)
Inserting == IF call.op = "insert" THEN {call.value} ELSE {}

\* In a table in shape the values stored are those of the occupied slots.
LEMMA StoredOccupied ==
  ASSUME Shape
  PROVE  Stored(buckets_) = {ValueAt(buckets_, p) : p \in Occupied(buckets_)}
BY ConstructedOccupied DEF Stored, Shape, NewInv

\* Buckets that keep their elements keep their values.
LEMMA StoredSame ==
  ASSUME Shape, Shape', Same(buckets_, buckets_')
  PROVE  Stored(buckets_') = Stored(buckets_)
<1>1. Constructed(buckets_) = Occupied(buckets_)
      /\ Constructed(buckets_') = Occupied(buckets_')
  BY ConstructedOccupied DEF Shape, NewInv
<1> QED BY <1>1 DEF Stored, Same, Keeps

\* An element more is a value more.
LEMMA StoredAdds ==
  ASSUME Shape, Shape', NEW p, NEW meta_byte, NEW value,
         Adds(buckets_, buckets_', p, meta_byte, value)
  PROVE  Stored(buckets_') = Stored(buckets_) \cup {value}
<1>1. Constructed(buckets_) = Occupied(buckets_)
      /\ Constructed(buckets_') = Occupied(buckets_')
  BY ConstructedOccupied DEF Shape, NewInv
<1>2. /\ Constructed(buckets_') = Constructed(buckets_) \cup {p}
      /\ ValueAt(buckets_', p) = value
      /\ \A q \in Constructed(buckets_) : ValueAt(buckets_', q) = ValueAt(buckets_, q)
  BY <1>1 DEF Adds, Keeps
<1> QED BY <1>2 DEF Stored

\* An element less is a value less: no other slot holds it.
LEMMA StoredRemoves ==
  ASSUME Shape, Shape', OneSlotPerKey, NEW p, Removes(buckets_, buckets_', p)
  PROVE  Stored(buckets_') =
           {v \in Stored(buckets_) : KeyOf[v] # KeyOf[ValueAt(buckets_, p)]}
<1>1. Constructed(buckets_) = Occupied(buckets_)
      /\ Constructed(buckets_') = Occupied(buckets_')
  BY ConstructedOccupied DEF Shape, NewInv
<1>2. /\ p \in Constructed(buckets_)
      /\ Constructed(buckets_') = Constructed(buckets_) \ {p}
      /\ \A q \in Constructed(buckets_') : ValueAt(buckets_', q) = ValueAt(buckets_, q)
  BY <1>1 DEF Removes, Keeps
<1>3. \A q \in Constructed(buckets_) :
        KeyOf[ValueAt(buckets_, q)] = KeyOf[ValueAt(buckets_, p)] => q = p
  BY <1>2 DEF OneSlotPerKey
<1> QED BY <1>2, <1>3 DEF Stored

\* What a rehash takes out of the source is one value less there.
LEMMA StoredTakes ==
  ASSUME NEW old, NEW new, NEW p, Takes(old, new, p)
  PROVE  /\ Stored(new) \cup {ValueAt(old, p)} = Stored(old)
BY DEF Takes, Stored

\* Moving a value leaves the contents as they are.
LEMMA MoveKeepsContents ==
  ASSUME Shape, Shape', FreeInv, Rehashing, NEW value \in Values,
         ~InsertOverruns(value), InsertAscending(value),
         NEW q, Takes(source, source', q), ValueAt(source, q) = value
  PROVE  Contents' = Contents
<1>1. Adds(buckets_, buckets_', At(value), OrderedByte(value), value)
  BY InsertAscendingAdds
<1>2. Stored(buckets_') = Stored(buckets_) \cup {value}
  BY <1>1, StoredAdds
<1>3. Stored(source') \cup {value} = Stored(source)
  BY StoredTakes
<1> QED BY <1>2, <1>3 DEF Contents, Stored, Constructed, Positions, ValueAt

\* The contents do not change when neither array does.
LEMMA ContentsUnchanged ==
  ASSUME UNCHANGED <<buckets_, source>>
  PROVE  Contents' = Contents
BY DEF Contents, Stored, Constructed, Positions, ValueAt

-----------------------------------------------------------------------------
(* What each step does to the set of values *)

\* The call ends with its return.
LEMMA NextNoCallIdle == NoCallIdle /\ [Next]_vars => NoCallIdle'
<1> SUFFICES ASSUME NoCallIdle, [Next]_vars PROVE NoCallIdle'
  OBVIOUS
<1>1. ASSUME NEW slot_count, StartRehash(slot_count) PROVE pc' \in {"aborted", "collect"}
  BY <1>1 DEF StartRehash, Abort
<1>2. ASSUME InsertFromHeap, pc # "idle" PROVE pc' # "idle"
  BY <1>2 DEF InsertFromHeap, InsertAscending
<1>3. ASSUME NEW value \in Values, Insert(value) PROVE NoCallIdle'
  BY <1>1, <1>3 DEF Insert, NoCallIdle
<1>4. ASSUME NEW key \in Keys, EraseKey(key) PROVE NoCallIdle'
  BY <1>4 DEF EraseKey, Return, NoCallIdle
<1>5. ASSUME NEW p \in (DOMAIN buckets_) \X SlotNumber, EraseIterator(p) PROVE NoCallIdle'
  BY <1>5 DEF EraseIterator, Return, NoCallIdle
<1>6. ASSUME NEW count \in ReserveCounts, Reserve(count) PROVE NoCallIdle'
  BY <1>1, <1>6 DEF Reserve, Return, NoCallIdle
<1>7. ASSUME NEW count \in RehashCounts, Rehash(count) PROVE NoCallIdle'
  BY <1>1, <1>7 DEF Rehash, NoCallIdle
<1>8. CASE Clear \/ PlaceValue \/ GetDisorderedValues \/ NextBucket \/ FinishRehash
  BY <1>8 DEF Clear, PlaceValue, GetDisorderedValues, NextBucket, FinishRehash, Return,
              NoCallIdle
<1>9. CASE ScanBucket
  BY <1>2, <1>9 DEF ScanBucket, InsertAscending, NoCallIdle
<1>10. CASE DrainHeap
  BY <1>2, <1>10 DEF DrainHeap, NoCallIdle
<1>11. CASE UNCHANGED vars
  BY <1>11 DEF vars, NoCallIdle
<1> QED
  BY <1>3, <1>4, <1>5, <1>6, <1>7, <1>8, <1>9, <1>10, <1>11 DEF Next, Step

\* A rehash starts with the contents the table had.
LEMMA StartRehashContents ==
  ASSUME Shape, Shape', AtRest, NEW slot_count, StartRehash(slot_count)
  PROVE  Contents' = Contents /\ result' = result /\ pc' # "idle"
<1>0. result' = result /\ pc' # "idle"
  BY DEF StartRehash, Abort
<1>1. CASE UNCHANGED <<table, scan, target>>
  BY <1>0, <1>1, ContentsUnchanged DEF table, scan
<1>2. CASE source' = buckets_ /\ Occupied(buckets_') = {}
  <2>1. Constructed(source) = {}
    BY AtRestSource
  <2>2. Constructed(buckets_') = {}
    BY <1>2, ConstructedOccupied DEF Shape, NewInv
  <2>3. Stored(source) = {} /\ Stored(buckets_') = {}
    BY <2>1, <2>2 DEF Stored
  <2>4. Stored(source)' = Stored(buckets_)
    BY <1>2 DEF Stored, Constructed, Positions, ValueAt
  <2> QED BY <1>0, <2>3, <2>4 DEF Contents, Stored, Constructed, Positions, ValueAt
<1> QED BY <1>1, <1>2, StartRehashEmpties

\* Moving a value from the heap leaves the contents as they are.
LEMMA InsertFromHeapContents ==
  ASSUME Shape, Shape', FreeInv, Rehashing, InsertFromHeap
  PROVE  Contents' = Contents
<1>1. CASE UNCHANGED <<table, target, heap, source>>
  BY <1>1, ContentsUnchanged DEF table
<1>2. CASE \E item \in heap :
             LET value == source[item.bucket].slots[item.slot]
             IN  /\ value \in Values /\ ~InsertOverruns(value) /\ InsertAscending(value)
                 /\ source' = [source EXCEPT ![item.bucket].slots[item.slot] = NoValue]
  <2>1. PICK item \in heap :
             LET value == source[item.bucket].slots[item.slot]
             IN  /\ value \in Values /\ ~InsertOverruns(value) /\ InsertAscending(value)
                 /\ source' = [source EXCEPT ![item.bucket].slots[item.slot] = NoValue]
    BY <1>2
  <2>2. PICK value \in Values : value = source[item.bucket].slots[item.slot]
    BY <2>1
  <2>3. ~InsertOverruns(value) /\ InsertAscending(value)
    BY <2>1, <2>2
  <2>4. /\ Takes(source, source', <<item.bucket, item.slot>>)
        /\ ValueAt(source, <<item.bucket, item.slot>>) = value
    BY <2>1, <2>2, MoveFromHeapTakes
  <2> QED BY <2>3, <2>4, MoveKeepsContents
<1> QED BY <1>1, <1>2, InsertFromHeapMoves

\* A step of the scan leaves the contents as they are.
LEMMA ScanBucketContents ==
  ASSUME Shape, Shape', FreeInv, ScanBucket
  PROVE  Contents' = Contents
<1>1. Rehashing
  BY DEF ScanBucket, Rehashing
<1>2. CASE InsertFromHeap
  BY <1>1, <1>2, InsertFromHeapContents
<1>3. CASE UNCHANGED <<table, target, heap, source>>
  BY <1>3, ContentsUnchanged DEF table
<1>4. CASE \E s \in SlotNumber :
             LET value == source[bucket_number].slots[s]
             IN  /\ bucket_number \in DOMAIN source
                 /\ source[bucket_number].h2[s] # kEmpty
                 /\ value \in Values /\ ~InsertOverruns(value) /\ InsertAscending(value)
                 /\ source' = [source EXCEPT ![bucket_number].slots[s] = NoValue,
                                             ![bucket_number].h2[s] = kEmpty]
  <2>1. PICK s \in SlotNumber :
             LET value == source[bucket_number].slots[s]
             IN  /\ bucket_number \in DOMAIN source
                 /\ source[bucket_number].h2[s] # kEmpty
                 /\ value \in Values /\ ~InsertOverruns(value) /\ InsertAscending(value)
                 /\ source' = [source EXCEPT ![bucket_number].slots[s] = NoValue,
                                             ![bucket_number].h2[s] = kEmpty]
    BY <1>4
  <2>2. PICK value \in Values : value = source[bucket_number].slots[s]
    BY <2>1
  <2>3. ~InsertOverruns(value) /\ InsertAscending(value)
    BY <2>1, <2>2
  <2>4. PICK b \in DOMAIN source : b = bucket_number
    BY <2>1
  <2>5. /\ Takes(source, source', <<b, s>>)
        /\ ValueAt(source, <<b, s>>) = value
    BY <2>1, <2>2, <2>4, MoveFromSlotTakes
  <2> QED BY <1>1, <2>3, <2>5, MoveKeepsContents
<1> QED BY <1>2, <1>3, <1>4, ScanBucketMoves

\* Collecting disordered values leaves the contents as they are.
LEMMA GetDisorderedValuesContents ==
  ASSUME Shape, GetDisorderedValues
  PROVE  Contents' = Contents
<1>1. buckets_' = buckets_
  BY DEF GetDisorderedValues, table
<1>2. Stored(source') = Stored(source)
  BY GetDisorderedValuesKeeps DEF Stored
<1> QED BY <1>1, <1>2 DEF Contents, Stored, Constructed, Positions, ValueAt

\* The end of a rehash leaves the contents as they are: by then the source is
\* empty.
LEMMA FinishRehashContents ==
  ASSUME Shape, Shape', FinishRehash, Stored(source) = {}
  PROVE  Contents' = Contents
<1>1. Stored(buckets_') = Stored(buckets_)
  BY FinishRehashKeeps, StoredSame
<1>2. DOMAIN source' = {}
  BY PhysicalRange DEF FinishRehash, NewBuckets
<1>3. Stored(source') = {}
  BY <1>2 DEF Stored, Constructed, Positions
<1> QED BY <1>1, <1>3 DEF Contents, Stored, Constructed, Positions, ValueAt

-----------------------------------------------------------------------------
(* Each step, seen as a step of AbstractSet *)

\* The values with a key, as AbstractSet!With has it.
WithKey(key) == {v \in Contents : KeyOf[v] = key}

\* A step that neither changes the contents nor begins or ends a call.
LEMMA StutterStep ==
  ASSUME Contents' = Contents, call'.op = call.op, call'.value = call.value,
         result' = result
  PROVE  UNCHANGED Abstract!vars
BY DEF Contents, Abstract!vars

\* The contents at rest: the source is empty.
LEMMA RestContents ==
  ASSUME Shape, AtRest
  PROVE  Contents = {ValueAt(buckets_, p) : p \in Occupied(buckets_)}
<1>1. Stored(source) = {}
  BY AtRestSource DEF Stored
<1> QED BY <1>1, StoredOccupied DEF Contents

\* An insert begins, or grows the table first.
LEMMA InsertStep ==
  ASSUME Shape, Shape', NoCallIdle, NEW value \in Values, Insert(value)
  PROVE  Abstract!BeginInsert(value)
<1>1. /\ call = Idle /\ call' = [op |-> "insert", value |-> value, count |-> 0]
      /\ AtRest
  BY DEF Insert, NoCallIdle, AtRest
<1>2. Contents' = Contents /\ result' = result
  <2>1. CASE UNCHANGED <<table, result, scan, target>>
    BY <2>1, ContentsUnchanged DEF table, scan
  <2>2. CASE \E slot_count : StartRehash(slot_count)
    BY <1>1, <2>2, StartRehashContents
  <2> QED BY <2>1, <2>2 DEF Insert
<1> QED BY <1>1, <1>2 DEF Abstract!BeginInsert, Contents, Idle

\* An insert ends: the value is added, unless its key is there already.
LEMMA PlaceValueStep ==
  ASSUME Searchable, Shape', PlaceValue
  PROVE  Abstract!EndInsert(call.value) \/ UNCHANGED Abstract!vars
<1> DEFINE value == call.value
           key == KeyOf[value]
<1>1. /\ Shape /\ Located /\ AtRest /\ pc = "insert" /\ UNCHANGED source /\ call.op = "insert"
      /\ value \in Values /\ logical_size_ > 0 /\ key \in Keys
  BY ValuesAssumption DEF Searchable, Counted, Shape, CallInv, PlaceValue, AtRest, scan
<1>2. Contents = {ValueAt(buckets_, p) : p \in Occupied(buckets_)}
  BY <1>1, RestContents
<1>3. CASE /\ Matches(key, SearchDistance(key)) # {}
           /\ call' = Idle /\ result' = "present" /\ UNCHANGED table
  <2>1. Contents' = Contents
    BY <1>1, <1>3, ContentsUnchanged DEF table
  <2>2. PICK p \in Matches(key, SearchDistance(key)) : TRUE
    BY <1>3
  <2>3. SearchDistance(key) \in Nat
    <3>1. hasher[key] \in Hash /\ logical_size_ \in Nat \ {0}
      BY <1>1, HashAssumption, SizeAssumption DEF Shape, TypeOK, Hash
    <3>2. H1(hasher[key], logical_size_) \in 0 .. Physical - 1
      BY <3>1, H1Range, PhysicalRange DEF Physical
    <3>3. buckets_[H1(hasher[key], logical_size_)] \in Bucket
      BY <1>1, <3>2, AtRestShape DEF Consistent
    <3> QED BY <3>3, SizeAssumption DEF Bucket, SearchDistance
  <2>4. p \in Occupied(buckets_) /\ KeyOf[ValueAt(buckets_, p)] = key
    BY <1>1, <2>2, <2>3, MatchOccupied
  <2>5. WithKey(key) # {}
    BY <1>2, <2>4 DEF WithKey
  <2> QED
    BY <1>1, <1>3, <2>1, <2>5 DEF Abstract!EndInsert, Abstract!With, WithKey, Contents, Idle
<1>4. CASE /\ Matches(key, SearchDistance(key)) = {}
           /\ size_' = size_ + 1 /\ call' = Idle /\ result' = "inserted"
  <2>1. size_ \in Nat
    BY <1>1 DEF Shape, TypeOK
  <2>2. ~UNCHANGED table
    BY <1>4, <2>1 DEF table
  <2>3. PICK p, meta_byte : Adds(buckets_, buckets_', p, meta_byte, value)
    BY <1>1, <2>2, PlaceValueAdds
  <2>4. Stored(buckets_') = Stored(buckets_) \cup {value}
    BY <1>1, <2>3, StoredAdds
  <2>5. Contents' = Contents \cup {value}
    BY <1>1, <2>4 DEF Contents, Stored, Constructed, Positions, ValueAt
  <2>6. \A q \in Occupied(buckets_) : KeyOf[ValueAt(buckets_, q)] # key
    BY <1>1, <1>4, NoMatchNoKey
  <2>7. WithKey(key) = {}
    BY <1>2, <2>6 DEF WithKey
  <2> QED
    BY <1>1, <1>4, <2>5, <2>7 DEF Abstract!EndInsert, Abstract!With, WithKey, Contents, Idle
<1>5. CASE UNCHANGED <<call, result, table>>
  <2>1. Contents' = Contents
    BY <1>1, <1>5, ContentsUnchanged DEF table
  <2> QED BY <1>5, <2>1, StutterStep
<1> QED BY <1>3, <1>4, <1>5 DEF PlaceValue, Return

\* Erasing the element at p takes away the value with its key, and only that.
LEMMA EraseAtContents ==
  ASSUME Searchable, Shape', AtRest, UNCHANGED source,
         NEW p \in Occupied(buckets_), EraseAt(p),
         NEW key \in Keys, KeyOf[ValueAt(buckets_, p)] = key
  PROVE  Contents' = Contents \ WithKey(key) /\ WithKey(key) # {}
<1>1. Shape /\ OneSlotPerKey
  BY DEF Searchable, Counted
<1>2. Contents = {ValueAt(buckets_, q) : q \in Occupied(buckets_)}
  BY <1>1, RestContents
<1>3. Removes(buckets_, buckets_', p)
  BY <1>1, EraseAtRemoves
<1>4. Stored(buckets_') = {v \in Stored(buckets_) : KeyOf[v] # key}
  BY <1>1, <1>3, StoredRemoves
<1>5. Stored(source) = {}
  BY <1>1, AtRestSource DEF Stored
<1>6. Stored(source') = {}
  BY <1>5
<1>7. Contents' = Stored(buckets_') \cup Stored(source')
  BY DEF Contents, Stored, Constructed, Positions, ValueAt
<1>8. Contents' = {v \in Stored(buckets_) : KeyOf[v] # key}
  BY <1>4, <1>6, <1>7
<1>9. WithKey(key) # {}
  BY <1>2 DEF WithKey
<1> QED BY <1>5, <1>8, <1>9 DEF Contents, WithKey

\* Such a call erases the key.
LEMMA EraseAtStep ==
  ASSUME Searchable, Shape', NoCallIdle, pc = "idle", UNCHANGED source,
         NEW p \in Occupied(buckets_), EraseAt(p), Return("erased"),
         NEW key \in Keys, KeyOf[ValueAt(buckets_, p)] = key
  PROVE  Abstract!Erase(key)
<1>1. call = Idle /\ call' = Idle /\ result' = "erased" /\ AtRest
  BY DEF NoCallIdle, Return, AtRest
<1>2. Contents' = Contents \ WithKey(key) /\ WithKey(key) # {}
  BY <1>1, EraseAtContents
<1> QED BY <1>1, <1>2 DEF Abstract!Erase, Abstract!With, WithKey, Contents, Idle

\* erase(key)
LEMMA EraseKeyStep ==
  ASSUME Searchable, Shape', NoCallIdle, NEW key \in Keys, EraseKey(key)
  PROVE  Abstract!Erase(key) \/ UNCHANGED Abstract!vars
<1>1. /\ Shape /\ AtRest /\ pc = "idle" /\ call = Idle /\ UNCHANGED source
  BY DEF Searchable, Counted, NoCallIdle, AtRest, EraseKey, scan
<1>2. Find(key) = {p \in Occupied(buckets_) : KeyOf[ValueAt(buckets_, p)] = key}
  BY <1>1, FindExact
<1>3. CASE UNCHANGED <<table, call, result>>
  <2>1. Contents' = Contents
    BY <1>1, <1>3, ContentsUnchanged DEF table
  <2> QED BY <1>3, <2>1, StutterStep
<1>4. CASE Find(key) = {} /\ Return("absent") /\ UNCHANGED table
  <2>1. Contents' = Contents
    BY <1>1, <1>4, ContentsUnchanged DEF table
  <2>2. WithKey(key) = {}
    BY <1>1, <1>2, <1>4, RestContents DEF WithKey
  <2> QED
    BY <1>1, <1>4, <2>1, <2>2
    DEF Abstract!Erase, Abstract!With, WithKey, Contents, Idle, Return
<1>5. CASE \E p \in Find(key) : EraseAt(p) /\ Return("erased")
  BY <1>1, <1>2, <1>5, EraseAtStep
<1> QED BY <1>3, <1>4, <1>5 DEF EraseKey

\* erase(iterator) erases the key of the value the iterator stands on.
LEMMA EraseIteratorStep ==
  ASSUME Searchable, Shape', NoCallIdle,
         NEW p \in (DOMAIN buckets_) \X SlotNumber, EraseIterator(p)
  PROVE  \E key \in Keys : Abstract!Erase(key)
<1>1. /\ Shape /\ AtRest /\ pc = "idle" /\ UNCHANGED source
      /\ EraseAt(p) /\ Return("erased")
  BY DEF Searchable, Counted, AtRest, EraseIterator, scan
<1>2. p \in Occupied(buckets_)
  BY <1>1, IteratorOccupied DEF EraseIterator
<1>3. KeyOf[ValueAt(buckets_, p)] \in Keys
  BY <1>1, <1>2, OccupiedValue, ValuesAssumption
<1> QED BY <1>1, <1>2, <1>3, EraseAtStep

\* clear()
LEMMA ClearStep ==
  ASSUME Shape, NoCallIdle, Clear
  PROVE  Abstract!Clear
<1>1. /\ AtRest /\ call = Idle /\ call' = Idle /\ result' = "void" /\ UNCHANGED source
      /\ DOMAIN buckets_' = {}
  BY PhysicalRange DEF NoCallIdle, AtRest, Clear, Return, scan, NewBuckets
<1>2. Stored(source) = {}
  BY <1>1, AtRestSource DEF Stored
<1>3. Stored(buckets_') = {}
  BY <1>1 DEF Stored, Constructed, Positions
<1>4. Contents' = {}
  BY <1>1, <1>2, <1>3 DEF Contents
<1> QED BY <1>1, <1>4 DEF Abstract!Clear, Contents, Idle

\* A call that only changes the capacity, when it returns.
LEMMA ResizeStep ==
  ASSUME call.op # "insert", call' = Idle, result' = "void", Contents' = Contents
  PROVE  Abstract!Resize
BY DEF Abstract!Resize, Contents, Idle

\* reserve(count) and rehash(count) return at once or begin a rehash.
LEMMA ReserveStep ==
  ASSUME Shape, Shape', NoCallIdle, NEW count \in ReserveCounts, Reserve(count)
  PROVE  Abstract!Resize \/ UNCHANGED Abstract!vars
<1>1. AtRest /\ call = Idle
  BY DEF Reserve, NoCallIdle, AtRest
<1>2. CASE /\ call' = [op |-> "reserve", value |-> NoValue, count |-> count]
           /\ \E slot_count : StartRehash(slot_count)
  <2>1. Contents' = Contents /\ result' = result
    BY <1>1, <1>2, StartRehashContents
  <2>2. call'.op # "insert" /\ call.op # "insert"
    BY <1>1, <1>2 DEF Idle
  <2> QED BY <2>1, <2>2 DEF Contents, Abstract!vars
<1>3. CASE Return("void") /\ UNCHANGED <<table, scan, target>>
  <2>1. Contents' = Contents
    BY <1>3, ContentsUnchanged DEF table, scan
  <2> QED BY <1>1, <1>3, <2>1, ResizeStep DEF Return, Idle
<1> QED BY <1>2, <1>3 DEF Reserve

\* rehash(count) begins a rehash.
LEMMA RehashCallStep ==
  ASSUME Shape, Shape', NoCallIdle, NEW count \in RehashCounts, Rehash(count)
  PROVE  UNCHANGED Abstract!vars
<1>1. /\ AtRest /\ call = Idle
      /\ call' = [op |-> "rehash", value |-> NoValue, count |-> count]
      /\ StartRehash(count)
  BY DEF Rehash, NoCallIdle, AtRest
<1>2. Contents' = Contents /\ result' = result
  BY <1>1, StartRehashContents
<1>3. call'.op # "insert" /\ call.op # "insert"
  BY <1>1 DEF Idle
<1> QED BY <1>2, <1>3 DEF Contents, Abstract!vars

\* The end of a rehash is the return of reserve() and rehash(); an insert goes
\* on.
LEMMA FinishRehashStep ==
  ASSUME Swept, Shape', FinishRehash
  PROVE  Abstract!Resize \/ UNCHANGED Abstract!vars
<1>1. Shape /\ SourceSwept /\ Rehashing /\ bucket_number = SourcePhysical /\ heap = {}
  BY DEF Swept, Searchable, Counted, FinishRehash, Rehashing
<1>2. Contents' = Contents
  BY <1>1, SourceEmptied, FinishRehashContents
<1>3. CASE call.op = "insert"
  BY <1>2, <1>3, StutterStep DEF FinishRehash
<1>4. CASE call.op # "insert"
  BY <1>2, <1>4, ResizeStep DEF FinishRehash, Return
<1> QED BY <1>3, <1>4

\* Every step is a step of the set, or none.
LEMMA NextStep ==
  ASSUME Swept, Swept', NoCallIdle, [Next]_vars
  PROVE  Abstract!Next \/ UNCHANGED Abstract!vars
<1>1. Searchable /\ Shape /\ FreeInv /\ Shape'
  BY DEF Swept, Searchable, Counted
<1>2. ASSUME Contents' = Contents, UNCHANGED <<call, result>>
      PROVE  UNCHANGED Abstract!vars
  BY <1>2, StutterStep
<1>3. ASSUME NEW value \in Values, Insert(value) PROVE Abstract!Next
  BY <1>1, <1>3, InsertStep DEF Abstract!Next
<1>4. ASSUME NEW key \in Keys, EraseKey(key)
      PROVE  Abstract!Next \/ UNCHANGED Abstract!vars
  BY <1>1, <1>4, EraseKeyStep DEF Abstract!Next
<1>5. ASSUME NEW p \in (DOMAIN buckets_) \X SlotNumber, EraseIterator(p) PROVE Abstract!Next
  BY <1>1, <1>5, EraseIteratorStep DEF Abstract!Next
<1>6. CASE Clear
  BY <1>1, <1>6, ClearStep DEF Abstract!Next
<1>7. ASSUME NEW count \in ReserveCounts, Reserve(count)
      PROVE  Abstract!Next \/ UNCHANGED Abstract!vars
  BY <1>1, <1>7, ReserveStep DEF Abstract!Next
<1>8. ASSUME NEW count \in RehashCounts, Rehash(count) PROVE UNCHANGED Abstract!vars
  BY <1>1, <1>8, RehashCallStep
<1>9. CASE PlaceValue
  <2>1. call.value \in Values
    BY <1>1, <1>9 DEF Shape, CallInv, PlaceValue
  <2> QED BY <1>1, <1>9, <2>1, PlaceValueStep DEF Abstract!Next
<1>10. CASE GetDisorderedValues
  BY <1>1, <1>2, <1>10, GetDisorderedValuesContents DEF GetDisorderedValues
<1>11. CASE ScanBucket
  <2>1. UNCHANGED <<call, result>>
    BY <1>11 DEF ScanBucket
  <2> QED BY <1>1, <1>2, <1>11, <2>1, ScanBucketContents
<1>12. CASE NextBucket
  BY <1>2, <1>12, ContentsUnchanged DEF NextBucket, table
<1>13. CASE DrainHeap
  <2>1. UNCHANGED <<call, result>> /\ Rehashing /\ InsertFromHeap
    BY <1>13 DEF DrainHeap, Rehashing
  <2> QED BY <1>1, <1>2, <2>1, InsertFromHeapContents
<1>14. CASE FinishRehash
  BY <1>1, <1>14, FinishRehashStep DEF Abstract!Next
<1>15. CASE UNCHANGED vars
  BY <1>2, <1>15, ContentsUnchanged DEF vars, table, scan
<1> QED
  BY <1>3, <1>4, <1>5, <1>6, <1>7, <1>8, <1>9, <1>10, <1>11, <1>12, <1>13, <1>14, <1>15
  DEF Next, Step

\* The hash table is a set of values with unique keys: every call changes the
\* contents once, as AbstractSet says, returns what it says, and no rehash
\* loses, duplicates or invents a value.
THEOREM TableIsSet == Spec /\ []DistancesInByte => ImplementsSet
<1>1. Init => Abstract!Init /\ NoCallIdle
  <2>1. DOMAIN NewBuckets(0) = {}
    BY PhysicalRange DEF NewBuckets
  <2> QED BY <2>1 DEF Init, Idle, NoCallIdle, Abstract!Init, Stored, Constructed, Positions
<1>2. NoCallIdle /\ [Next]_vars => NoCallIdle'
  BY NextNoCallIdle
<1>3. Swept /\ Swept' /\ NoCallIdle /\ [Next]_vars => [Abstract!Next]_(Abstract!vars)
  BY NextStep
<1> QED BY <1>1, <1>2, <1>3, SweptInvariant, PTL DEF Spec, ImplementsSet, Abstract!Spec

\* A table that never has more than 255 buckets is one without further
\* hypotheses.
THEOREM SmallTablesAreSets ==
  ASSUME DistancesFit
  PROVE  Spec => ImplementsSet
<1>1. Shape => DistancesInByte
  BY SmallDistances
<1> QED BY <1>1, ShapeInvariant, TableIsSet, PTL
=============================================================================
