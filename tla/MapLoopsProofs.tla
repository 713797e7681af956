---------------------------- MODULE MapLoopsProofs ----------------------------
(***************************************************************************)
(* Proofs about maps and the loops over them: what has been proved of one  *)
(* table carries over to a map whose callers assign through references and *)
(* iterators; a loop visits its range; a map is a partial function.        *)
(***************************************************************************)
EXTENDS MapLoops, HashTableOrderProofs, WellFoundedInduction

-----------------------------------------------------------------------------
(* Least elements *)

\* A nonempty set of natural numbers has a least element, and CHOOSE takes it.
LEMMA ChosenLeast ==
  ASSUME NEW S, S \subseteq Nat, S # {}
  PROVE  LET x == CHOOSE y \in Least(S) : TRUE
         IN  x \in S /\ \A y \in S : x <= y
<1> DEFINE below == {ss \in Nat \X Nat : ss[1] < ss[2]}
<1>1. IsWellFoundedOn(below, Nat)
  BY NatLessThanWellFounded, Zenon DEF OpToRel
<1> HIDE DEF below
<1>2. PICK x \in S : \A y \in S : <<y, x>> \notin below
  BY <1>1, WFMin
<1>3. ASSUME NEW y \in S PROVE x <= y
  <2>1. x \in Nat /\ y \in Nat
    OBVIOUS
  <2>2. ~(y < x)
    <3>1. y < x => <<y, x>> \in below
      BY <2>1 DEF below
    <3> QED BY <1>2, <3>1
  <2> QED BY <2>1, <2>2
<1>4. x \in Least(S)
  BY <1>3 DEF Least
<1>5. (CHOOSE y \in Least(S) : TRUE) \in Least(S)
  BY <1>4, Zenon
<1> QED BY <1>5 DEF Least

-----------------------------------------------------------------------------
(* Iterators *)

\* q is the first of the positions `occupied` that do not come before p, or the
\* end when there is none.
FirstFrom(occupied, p, q) ==
  /\ q \in occupied \cup {End}
  /\ ~Before(q, p)
  /\ \A r \in occupied : ~Before(r, p) => ~Before(r, q)

\* The bucket and the slot of an element are numbers, before the end iterator.
LEMMA ElementPosition ==
  ASSUME Shape, NEW p \in Occupied(buckets_)
  PROVE  /\ p = <<p[1], p[2]>> /\ p[1] \in 0 .. Physical - 1 /\ p[2] \in SlotNumber
         /\ p[1] \in Nat /\ p[2] \in Nat /\ Physical \in Nat
BY OccupiedPair, OccupiedValue DEF SlotNumber

\* At rest an element is a slot of a bucket that is not empty.
LEMMA ElementSlot ==
  ASSUME Shape, AtRest, NEW b, NEW s
  PROVE  <<b, s>> \in Occupied(buckets_) <=>
           b \in 0 .. Physical - 1 /\ s \in FindNonEmpties(buckets_[b])
<1>1. /\ DOMAIN buckets_ = 0 .. Physical - 1
      /\ \A x \in 0 .. Physical - 1 : buckets_[x] # Uninitialized
  BY AtRestShape, UninitializedAssumption DEF Consistent
<1> QED BY <1>1, OccupiedSlot DEF FindNonEmpties, FindEmpties, IsEmpty

\* SkipEmpty() goes to the first element from slot i of bucket b on.
LEMMA SkipEmptyFirst ==
  ASSUME Shape, AtRest, SearchDistancesInRange, logical_size_ > 0,
         NEW b \in 0 .. Physical - 1, NEW i \in 0 .. kSlotsPerBucket
  PROVE  FirstFrom(Occupied(buckets_), <<b, i>>, SkipEmpty(b, i))
<1> SUFFICES ASSUME NEW q, q = SkipEmpty(b, i)
             PROVE  FirstFrom(Occupied(buckets_), <<b, i>>, q)
  OBVIOUS
<1> DEFINE sentinels == {d \in b .. Physical - 1 :
                           buckets_[d].search_distance = kSearchDistanceEndSentinal}
           sentinel == CHOOSE c \in Least(sentinels) : TRUE
           ahead == {c \in DOMAIN buckets_ : /\ BucketAfter(b, c)
                                             /\ c <= sentinel
                                             /\ FindNonEmpties(buckets_[c]) # {}}
           first(S) == CHOOSE c \in Least(S) : TRUE
<1>1. /\ logical_size_ \in Nat \ {0} /\ Physical \in Nat /\ logical_size_ < Physical
      /\ DOMAIN buckets_ = 0 .. Physical - 1
  <2>1. logical_size_ \in Nat
    BY SizeAssumption DEF Shape, TypeOK
  <2> QED BY <2>1, PhysicalRange, AtRestShape DEF Physical
<1>2. sentinels = {Physical - 1}
  <2>1. ASSUME NEW d \in 0 .. Physical - 2
        PROVE  buckets_[d].search_distance # kSearchDistanceEndSentinal
    <3>1. CASE d \in 0 .. logical_size_ - 1
      BY <3>1 DEF SearchDistancesInRange
    <3>2. CASE d \in logical_size_ .. Physical - 2
      BY <3>2, SizeAssumption DEF SearchDistancesInRange
    <3> QED BY <1>1, <3>1, <3>2
  <2> QED BY <1>1, <2>1 DEF SearchDistancesInRange
<1>3. sentinel = Physical - 1
  BY <1>1, <1>2, ChosenLeast
<1>4. \A x, s : <<x, s>> \in Occupied(buckets_) <=>
                  x \in 0 .. Physical - 1 /\ s \in FindNonEmpties(buckets_[x])
  BY ElementSlot
<1>5. \A r \in Occupied(buckets_) :
        r = <<r[1], r[2]>> /\ r[1] \in 0 .. Physical - 1 /\ r[2] \in 0 .. kSlotsPerBucket - 1
  BY ElementPosition DEF SlotNumber
<1>6. \A x : FindNonEmpties(buckets_[x]) \subseteq Nat
  BY DEF FindNonEmpties, SlotNumber
<1>7. q = IF FromIndex(b, i) # {} THEN <<b, first(FromIndex(b, i))>>
          ELSE IF ahead = {} THEN <<sentinel + 1, 0>>
          ELSE <<first(ahead), first(FindNonEmpties(buckets_[first(ahead)]))>>
  BY DEF SkipEmpty
<1> HIDE DEF sentinels, sentinel, ahead, first
<1>8. CASE FromIndex(b, i) # {}
  <2>1. FromIndex(b, i) \subseteq Nat
    BY <1>6 DEF FromIndex
  <2>2. PICK s : s = first(FromIndex(b, i)) /\ s \in FromIndex(b, i)
                 /\ \A t \in FromIndex(b, i) : s <= t
    BY <1>8, <2>1, ChosenLeast DEF first
  <2>3. q = <<b, s>>
    BY <1>7, <1>8, <2>2
  <2>4. s \in FindNonEmpties(buckets_[b]) /\ i <= s /\ s \in Nat
    BY <2>1, <2>2 DEF FromIndex
  <2>5. q \in Occupied(buckets_) /\ ~Before(q, <<b, i>>)
    BY <1>4, <2>3, <2>4 DEF Before
  <2>6. ASSUME NEW r \in Occupied(buckets_), ~Before(r, <<b, i>>), Before(r, q)
        PROVE  FALSE
    <3>1. r[1] = b /\ r[2] < s /\ i <= r[2]
      BY <1>5, <2>3, <2>4, <2>6 DEF Before
    <3>2. r[2] \in FindNonEmpties(buckets_[b])
      BY <1>4, <1>5, <3>1
    <3>3. r[2] \in FromIndex(b, i)
      BY <3>1, <3>2 DEF FromIndex
    <3> QED BY <1>5, <2>2, <2>4, <3>1, <3>3
  <2> QED BY <2>5, <2>6 DEF FirstFrom
<1>9. ASSUME FromIndex(b, i) = {}, NEW r \in Occupied(buckets_), ~Before(r, <<b, i>>)
      PROVE  r[1] \in ahead
  <2>1. r[2] \in FindNonEmpties(buckets_[r[1]])
    BY <1>4, <1>5
  <2>2. r[1] # b
    <3> SUFFICES ASSUME r[1] = b PROVE FALSE
      OBVIOUS
    <3>1. i <= r[2]
      BY <1>5, <1>9 DEF Before
    <3> QED BY <1>9, <2>1, <3>1 DEF FromIndex
  <2>3. b < r[1]
    BY <1>5, <1>9, <2>2 DEF Before
  <2> QED BY <1>1, <1>3, <1>5, <2>1, <2>3 DEF ahead, BucketAfter
<1>10. CASE FromIndex(b, i) = {} /\ ahead = {}
  <2>1. q = End
    BY <1>1, <1>3, <1>7, <1>10 DEF End
  <2>2. ~Before(q, <<b, i>>)
    BY <1>1, <2>1 DEF Before, End
  <2> QED BY <1>9, <1>10, <2>1, <2>2 DEF FirstFrom
<1>11. CASE FromIndex(b, i) = {} /\ ahead # {}
  <2>1. ahead \subseteq Nat
    BY <1>1 DEF ahead
  <2>2. PICK c : c = first(ahead) /\ c \in ahead /\ \A d \in ahead : c <= d
    BY <1>11, <2>1, ChosenLeast DEF first
  <2>3. c \in 0 .. Physical - 1 /\ b < c /\ FindNonEmpties(buckets_[c]) # {}
    BY <1>1, <2>2 DEF ahead, BucketAfter
  <2>4. PICK s : /\ s = first(FindNonEmpties(buckets_[c])) /\ s \in FindNonEmpties(buckets_[c])
                 /\ \A t \in FindNonEmpties(buckets_[c]) : s <= t
    BY <1>6, <2>3, ChosenLeast DEF first
  <2>5. q = <<c, s>>
    BY <1>7, <1>11, <2>2, <2>4
  <2>6. q \in Occupied(buckets_) /\ ~Before(q, <<b, i>>)
    BY <1>4, <2>3, <2>4, <2>5 DEF Before
  <2>7. ASSUME NEW r \in Occupied(buckets_), ~Before(r, <<b, i>>), Before(r, q)
        PROVE  FALSE
    <3>1. c <= r[1]
      BY <1>9, <1>11, <2>2, <2>7
    <3>2. r[1] = c /\ r[2] < s
      BY <1>5, <2>3, <2>5, <2>7, <3>1 DEF Before
    <3>3. r[2] \in FindNonEmpties(buckets_[c])
      BY <1>4, <1>5, <3>2
    <3>4. s <= r[2]
      BY <2>4, <3>3
    <3> QED BY <1>5, <1>6, <2>4, <3>2, <3>4
  <2> QED BY <2>6, <2>7 DEF FirstFrom
<1> QED BY <1>8, <1>10, <1>11

\* ++it goes to the first element after it.
FirstAfter(occupied, p, q) ==
  /\ q \in occupied \cup {End}
  /\ Before(p, q)
  /\ \A r \in occupied : Before(p, r) => ~Before(r, q)

LEMMA NextIteratorFirst ==
  ASSUME Shape, AtRest, SearchDistancesInRange, NEW p \in Occupied(buckets_)
  PROVE  FirstAfter(Occupied(buckets_), p, NextIterator(p))
<1>1. /\ p[1] \in 0 .. Physical - 1 /\ p[2] \in 0 .. kSlotsPerBucket - 1
      /\ p[1] \in Nat /\ p[2] \in Nat /\ Physical \in Nat /\ logical_size_ > 0
  BY ElementPosition, OccupiedValue DEF SlotNumber
<1>2. p[2] + 1 \in 0 .. kSlotsPerBucket
  BY <1>1, SizeAssumption
<1>3. FirstFrom(Occupied(buckets_), <<p[1], p[2] + 1>>, NextIterator(p))
  BY <1>1, <1>2, SkipEmptyFirst DEF NextIterator
<1>4. \A r \in Occupied(buckets_) : r[1] \in Nat /\ r[2] \in Nat
  BY ElementPosition
<1>5. \A r \in Occupied(buckets_) \cup {End} :
        Before(p, r) <=> ~Before(r, <<p[1], p[2] + 1>>)
  BY <1>1, <1>4 DEF Before, End
<1> QED BY <1>3, <1>5 DEF FirstFrom, FirstAfter

\* begin() is the first element of all.
LEMMA BeginIteratorFirst ==
  ASSUME Shape, AtRest, SearchDistancesInRange
  PROVE  /\ BeginIterator \in Occupied(buckets_) \cup {End}
         /\ \A r \in Occupied(buckets_) : ~Before(r, BeginIterator)
<1>1. CASE logical_size_ = 0
  <2>1. Occupied(buckets_) = {}
    BY <1>1, OccupiedValue
  <2> QED BY <1>1, <2>1 DEF BeginIterator
<1>2. CASE logical_size_ # 0
  <2>1. logical_size_ \in Nat
    BY SizeAssumption DEF Shape, TypeOK
  <2>2. Physical \in Nat /\ Physical > 0 /\ 0 \in 0 .. Physical - 1
    BY <1>2, <2>1, PhysicalRange DEF Physical
  <2>3. FirstFrom(Occupied(buckets_), <<0, 0>>, BeginIterator)
    BY <1>2, <2>1, <2>2, SkipEmptyFirst, SizeAssumption DEF BeginIterator
  <2>4. \A r \in Occupied(buckets_) : ~Before(r, <<0, 0>>)
    BY ElementPosition DEF Before
  <2> QED BY <2>3, <2>4 DEF FirstFrom
<1> QED BY <1>1, <1>2

\* What is left of the range of a loop, and what is not in it.
Rest(occupied, p, q) == {r \in occupied : ~Before(r, p) /\ Before(r, q)}
Others(occupied, p, q) == {r \in occupied : Before(r, p) \/ ~Before(r, q)}

\* The elements and the end are in order.
LEMMA InOrder ==
  ASSUME Shape, NEW p \in Occupied(buckets_) \cup {End}, NEW q \in Occupied(buckets_) \cup {End}
  PROVE  /\ Before(p, q) \/ Before(q, p) \/ p = q
         /\ ~(Before(p, q) /\ Before(q, p)) /\ ~Before(p, p) /\ ~Before(End, p)
         /\ \A r \in Occupied(buckets_) \cup {End} :
              Before(p, q) /\ Before(q, r) => Before(p, r)
<1>1. Physical \in Nat
  BY PhysicalRange, SizeAssumption DEF Shape, TypeOK, Physical
<1>2. \A r \in Occupied(buckets_) \cup {End} :
        r = <<r[1], r[2]>> /\ r[1] \in 0 .. Physical /\ r[2] \in Nat
        /\ (r[1] = Physical => r = <<Physical, 0>>)
  BY <1>1, ElementPosition DEF End
<1> QED BY <1>1, <1>2 DEF Before, End

\* One step of a loop takes one element out of what is left of its range, and
\* does not step over its end.
LEMMA StepOver ==
  ASSUME Shape, NEW p \in Occupied(buckets_), NEW q,
         FirstAfter(Occupied(buckets_), p, q),
         NEW end \in Occupied(buckets_) \cup {End}, p # end, ~Before(end, p)
  PROVE  /\ ~Before(end, q)
         /\ Rest(Occupied(buckets_), p, end) = Rest(Occupied(buckets_), q, end) \cup {p}
         /\ p \notin Rest(Occupied(buckets_), q, end)
         /\ p \notin Others(Occupied(buckets_), p, end)
         /\ Others(Occupied(buckets_), p, end) = Others(Occupied(buckets_), q, end) \ {p}
<1>1. q \in Occupied(buckets_) \cup {End} /\ Before(p, q)
      /\ \A r \in Occupied(buckets_) : Before(p, r) => ~Before(r, q)
  BY DEF FirstAfter
<1>2. Before(p, end)
  BY InOrder
<1>3. ~Before(end, q)
  BY <1>1, <1>2, InOrder
<1>4. ASSUME NEW r \in Occupied(buckets_), r # p
      PROVE  Before(r, q) <=> Before(r, p)
  BY <1>1, <1>4, InOrder
<1>5. ~Before(p, p)
  BY InOrder
<1> QED BY <1>1, <1>2, <1>3, <1>4, <1>5 DEF Rest, Others
-----------------------------------------------------------------------------
(* Assignment *)

\* The mapped value of the pair at p is assigned, as through a reference.
AssignedAt(p, t) ==
  buckets_' = [buckets_ EXCEPT ![p[1]].slots[p[2]] = <<KeyOf[@], t>>]

\* The elements stay where they are, under the bytes and the keys they have.
SameKeys(old, new) ==
  /\ Occupied(new) = Occupied(old)
  /\ \A q \in Occupied(old) : /\ MetaAt(new, q) = MetaAt(old, q)
                              /\ KeyOf[ValueAt(new, q)] = KeyOf[ValueAt(old, q)]
  /\ DOMAIN new = DOMAIN old
  /\ \A b \in DOMAIN old : new[b].search_distance = old[b].search_distance

\* An assignment replaces the pair at p by one with the same key, and changes
\* nothing else.
LEMMA AssignedAtEffect ==
  ASSUME Shape, AtRest, NEW p \in Occupied(buckets_), NEW t \in Mapped, AssignedAt(p, t)
  PROVE  /\ buckets_' \in [0 .. Physical - 1 -> Bucket]
         /\ \A b \in 0 .. Physical - 1 : Consistent(buckets_'[b])
         /\ SameKeys(buckets_, buckets_')
         /\ ValueAt(buckets_', p) = <<KeyOf[ValueAt(buckets_, p)], t>>
         /\ \A q \in Occupied(buckets_) \ {p} : ValueAt(buckets_', q) = ValueAt(buckets_, q)
<1> DEFINE D == 0 .. Physical - 1
           value == <<KeyOf[ValueAt(buckets_, p)], t>>
<1>1. /\ buckets_ \in [D -> Bucket] /\ DOMAIN buckets_ = D
      /\ \A b \in D : Consistent(buckets_[b])
  BY AtRestShape DEF Shape, TypeOK, BucketsTyped, Physical, Consistent
<1>2. /\ p[1] \in D /\ p[2] \in SlotNumber
      /\ ValueAt(buckets_, p) \in Values /\ buckets_[p[1]].h2[p[2]] # kEmpty
  BY ElementPosition, OccupiedValue, OccupiedPair
<1>3. value \in Values /\ KeyOf[value] = KeyOf[ValueAt(buckets_, p)]
  BY <1>2, ValuesAssumption, MapAssumption
<1>4. buckets_' = [buckets_ EXCEPT ![p[1]].slots[p[2]] = value]
  BY <1>1, <1>2 DEF AssignedAt, ValueAt, Bucket
<1> HIDE DEF D, value
<1>5. WritesSlot(D, buckets_, buckets_', p[1], p[2], value)
  BY <1>1, <1>2, <1>3, <1>4 DEF WritesSlot
<1>6. SlotEffect(D, buckets_, buckets_', p[1], p[2], value)
  BY <1>5, SlotWritten
<1>7. /\ buckets_' \in [D -> Bucket] /\ DOMAIN buckets_' = D
      /\ \A x \in D :
           /\ buckets_'[x].h2 = buckets_[x].h2
           /\ buckets_'[x].search_distance = buckets_[x].search_distance
           /\ \A y \in SlotNumber : buckets_'[x].slots[y] =
                IF x = p[1] /\ y = p[2] THEN value ELSE buckets_[x].slots[y]
  BY <1>6 DEF SlotEffect
<1>8. \A b \in D : Consistent(buckets_'[b])
  BY <1>1, <1>2, <1>3, <1>7, ValuesAssumption DEF Consistent
<1>9. Occupied(buckets_') = Occupied(buckets_)
  <2>1. \A b \in D : /\ buckets_'[b] # Uninitialized /\ buckets_[b] # Uninitialized
                      /\ buckets_'[b].h2 = buckets_[b].h2
    BY <1>1, <1>7, UninitializedAssumption
  <2>2. ASSUME NEW b, NEW s
        PROVE  <<b, s>> \in Occupied(buckets_') <=> <<b, s>> \in Occupied(buckets_)
    <3>1. <<b, s>> \in Occupied(buckets_) <=>
            b \in D /\ s \in SlotNumber /\ buckets_[b] # Uninitialized
            /\ buckets_[b].h2[s] # kEmpty
      BY <1>1, OccupiedSlot
    <3>2. <<b, s>> \in Occupied(buckets_') <=>
            b \in D /\ s \in SlotNumber /\ buckets_'[b] # Uninitialized
            /\ buckets_'[b].h2[s] # kEmpty
      BY <1>7, OccupiedSlot
    <3> QED BY <2>1, <3>1, <3>2
  <2> QED BY <2>2, OccupiedPair
<1>10. \A q \in Occupied(buckets_) :
         /\ MetaAt(buckets_', q) = MetaAt(buckets_, q)
         /\ ValueAt(buckets_', q) = IF q = p THEN value ELSE ValueAt(buckets_, q)
  <2> SUFFICES ASSUME NEW q \in Occupied(buckets_)
               PROVE  /\ MetaAt(buckets_', q) = MetaAt(buckets_, q)
                      /\ ValueAt(buckets_', q) = IF q = p THEN value ELSE ValueAt(buckets_, q)
    OBVIOUS
  <2>1. q = <<q[1], q[2]>> /\ q[1] \in D /\ q[2] \in SlotNumber /\ p = <<p[1], p[2]>>
    BY ElementPosition DEF D
  <2>2. q = p <=> q[1] = p[1] /\ q[2] = p[2]
    BY <2>1
  <2> QED BY <1>7, <2>1, <2>2 DEF MetaAt, ValueAt
<1>11. SameKeys(buckets_, buckets_')
  BY <1>1, <1>3, <1>7, <1>9, <1>10 DEF SameKeys
<1> QED BY <1>7, <1>8, <1>10, <1>11 DEF D, value

\* So all that has been proved of one table holds of a map: its proofs are about
\* keys, where they are and how often.
LEMMA AssignedAtSwept ==
  ASSUME Swept, AtRest, pc' = "idle", NEW p \in Occupied(buckets_), NEW t \in Mapped,
         AssignedAt(p, t),
         UNCHANGED <<hasher, size_, logical_size_, pc, call, result, scan, target>>
  PROVE  Swept'
<1>1. /\ Shape /\ CountInv /\ Located /\ OneSlotPerKey /\ DistancesInArray /\ Sorted(buckets_)
      /\ call' = call /\ result' = result /\ size_' = size_
      /\ UNCHANGED <<hasher, scan, target, source, logical_size_>>
  BY DEF Swept, Searchable, Counted, scan
<1>2. /\ buckets_' \in [0 .. Physical - 1 -> Bucket] /\ DOMAIN buckets_' = 0 .. Physical - 1
      /\ \A b \in 0 .. Physical - 1 : Consistent(buckets_'[b])
      /\ SameKeys(buckets_, buckets_')
  BY <1>1, AssignedAtEffect
<1>3. Shape'
  BY <1>1, <1>2, CallShape DEF Physical, Shape, TypeOK, CallInv
<1>4. AtRest' /\ ~Rehashing'
  BY DEF AtRest, Rehashing
<1>5. Counted'
  <2>1. Occupied(buckets_') = Occupied(buckets_)
    BY <1>2 DEF SameKeys
  <2> QED BY <1>1, <1>3, <1>4, <2>1 DEF Counted, CountInv, SizeIsCount, FreeInv
<1>6. \A q \in Occupied(buckets_) :
        /\ HashOf(ValueAt(buckets_, q))' = HashOf(ValueAt(buckets_, q))
        /\ KeyOf[ValueAt(buckets_, q)]' = KeyOf[ValueAt(buckets_, q)]
        /\ MetaAt(buckets_, q)' = MetaAt(buckets_, q)
  BY <1>1, <1>2 DEF SameKeys, HashOf
<1>7. Occupied(buckets_)' = Occupied(buckets_)
  BY <1>2 DEF SameKeys
<1>8. Located'
  <2> SUFFICES ASSUME NEW q \in Occupied(buckets_) PROVE LocatedAt(buckets_, q)'
    BY <1>7 DEF Located, LocatedAt, Preferred
  <2>1. LocatedAt(buckets_, q)
    BY <1>1, LocatedEach
  <2>2. Preferred(ValueAt(buckets_, q))' = Preferred(ValueAt(buckets_, q))
    BY <1>1, <1>6 DEF Preferred
  <2>3. Preferred(ValueAt(buckets_, q)) \in DOMAIN buckets_
    BY <1>1, OccupiedValue, AtRestShape
  <2>4. buckets_'[Preferred(ValueAt(buckets_, q))].search_distance
          = buckets_[Preferred(ValueAt(buckets_, q))].search_distance
    BY <1>2, <2>3 DEF SameKeys
  <2> QED BY <1>6, <2>1, <2>2, <2>4 DEF LocatedAt
<1>9. OneSlotPerKey'
  <2>1. /\ Constructed(buckets_) = Occupied(buckets_)
        /\ Constructed(buckets_') = Occupied(buckets_')
    BY <1>1, <1>3, ConstructedOccupied DEF Shape, NewInv
  <2>2. Constructed(source') = {}
    BY <1>1, AtRestSource
  <2>3. Stored(source') = {}
    BY <2>2 DEF Stored
  <2> QED BY <1>1, <1>6, <1>7, <2>1, <2>2, <2>3 DEF OneSlotPerKey
<1>10. Sorted(buckets_)'
  BY <1>1, <1>6, <1>7 DEF Sorted
<1>11. DistancesInArray'
  <2>1. DOMAIN buckets_' = DOMAIN buckets_
        /\ \A x \in DOMAIN buckets_ : buckets_[x] # Uninitialized
             /\ buckets_'[x].search_distance = buckets_[x].search_distance
    BY <1>1, <1>2, AtRestShape, UninitializedAssumption DEF SameKeys, Consistent
  <2> QED BY <1>1, <1>4, <2>1, DistancesKept DEF AtRest
<1> QED BY <1>4, <1>5, <1>8, <1>9, <1>10, <1>11, SweptAtRest DEF Searchable
-----------------------------------------------------------------------------
(* The table of a map *)

\* While a loop runs there is no call but those of its body.
LoopIdle == loop # "none" => pc = "idle" /\ assigning = {}

\* An assignment m[key] = t that is still to come belongs to the insert in
\* progress, and then to the reference that it returned.
RequestInv ==
  assigning # {} =>
    \E key \in Keys, t \in Mapped :
      /\ assigning = {<<key, t>>}
      /\ pc # "idle" => call.op = "insert" /\ call.value = <<key, Default>>
      /\ pc = "idle" => \E p \in Occupied(buckets_) :
                          reference = {p} /\ KeyOf[ValueAt(buckets_, p)] = key

\* The inductive invariant of a map: that of its table, with loops and calls
\* apart.
MapInv ==
  /\ Swept
  /\ NoCallIdle
  /\ LoopIdle
  /\ RequestInv

\* An erase by a loop keeps what has been proved of the table.
LEMMA EraseAtSwept ==
  ASSUME Swept, pc = "idle", NEW p \in Occupied(buckets_), EraseAt(p),
         UNCHANGED <<hasher, pc, call, result, scan, target>>
  PROVE  Swept'
<1>1. /\ Shape /\ Counted /\ Searchable /\ DistancesInArray /\ Sorted(buckets_)
      /\ AtRest /\ AtRest' /\ ~Rehashing' /\ pc' = "idle" /\ source' = source
      /\ call' = call /\ result' = result /\ UNCHANGED <<hasher, scan, target>>
  BY DEF Swept, Searchable, Counted, AtRest, Rehashing, scan
<1>2. p \in (0 .. Physical - 1) \X SlotNumber
  BY <1>1, ElementPosition
<1>3. Shape'
  BY <1>1, <1>2, EraseAtShape, CallShape DEF Physical, Shape, TypeOK
<1>4. Counted'
  BY <1>1, <1>3, EraseCounted
<1>5. Searchable'
  BY <1>1, <1>4, EraseSearchable
<1>6. DistancesInArray'
  BY <1>1, EraseInArray
<1>7. Removes(buckets_, buckets_', p)
  BY <1>1, EraseAtRemoves
<1>8. Sorted(buckets_)'
  BY <1>1, <1>7, SortedRest DEF Removes
<1> QED BY <1>1, <1>5, <1>6, <1>8, SweptAtRest

\* The lookup of an erase stays inside the array.
LEMMA EraseKeyReturns ==
  ASSUME Swept, NEW key \in Keys, EraseKey(key)
  PROVE  pc' = "idle"
<1> DEFINE h1 == H1(hasher[key], logical_size_)
<1>1. Shape /\ DistancesInArray /\ AtRest
  BY DEF Swept, Searchable, Counted, EraseKey, AtRest
<1>2. ASSUME size_ # 0 PROVE ~Overruns(key, FindDistance(key))
  <2>1. logical_size_ \in Nat \ {0} /\ hasher[key] \in Hash
    BY <1>1, <1>2, HashAssumption, SizeAssumption DEF Shape, TypeOK, CallInv, Hash
  <2>2. h1 \in 0 .. logical_size_ - 1 /\ Physical \in Nat /\ logical_size_ < Physical
    BY <2>1, H1Range, PhysicalRange DEF Physical
  <2>3. h1 \in 0 .. Physical - 2
    BY <2>1, <2>2
  <2>4. h1 \in DOMAIN buckets_ /\ buckets_[h1] \in Bucket
    BY <1>1, <2>2, <2>3, AtRestShape DEF Consistent
  <2>5. h1 + buckets_[h1].search_distance <= Physical
    BY <1>1, <2>2, <2>3, <2>4, UninitializedAssumption DEF DistancesInArray, AtRest
  <2>6. buckets_[h1].search_distance \in Nat
    BY <2>4, SizeAssumption DEF Bucket
  <2>7. FindDistance(key) \in {1, buckets_[h1].search_distance}
    BY DEF FindDistance, SearchDistance, MaxOf
  <2>8. h1 + FindDistance(key) <= Physical /\ FindDistance(key) \in Nat
    <3> HIDE DEF h1
    <3>1. CASE FindDistance(key) = 1
      BY <2>2, <2>3, <3>1
    <3>2. CASE FindDistance(key) = buckets_[h1].search_distance
      BY <2>5, <2>6, <3>2
    <3> QED BY <2>7, <3>1, <3>2
  <2> QED BY <2>2, <2>8 DEF Overruns
<1> QED BY <1>2 DEF EraseKey, Return

\* An insert that returns has a slot with its key, and no other.
LEMMA PlacedElement ==
  ASSUME Searchable, Searchable', PlaceValue, pc' = "idle"
  PROVE  \E p \in Occupied(buckets_') :
           Placed = {p} /\ KeyOf[ValueAt(buckets_', p)] = KeyOf[call.value]
<1> DEFINE value == call.value
           key == KeyOf[value]
<1>1. /\ Shape /\ Shape' /\ AtRest /\ OneSlotPerKey' /\ value \in Values /\ key \in Keys
      /\ logical_size_ > 0
  BY ValuesAssumption DEF Searchable, Counted, Shape, CallInv, PlaceValue, AtRest
<1>2. /\ Constructed(buckets_') = Occupied(buckets_')
      /\ Placed = {p \in Constructed(buckets_') : KeyOf[ValueAt(buckets_', p)] = key}
  BY <1>1, ConstructedOccupied DEF Shape, NewInv, Placed, Constructed
<1>3. \E p \in Occupied(buckets_') : KeyOf[ValueAt(buckets_', p)] = key
  <2>1. CASE Matches(key, SearchDistance(key)) # {} /\ UNCHANGED table
    <3>1. PICK p \in Matches(key, SearchDistance(key)) : TRUE
      BY <2>1
    <3>2. SearchDistance(key) \in Nat
      <4>1. hasher[key] \in Hash /\ logical_size_ \in Nat \ {0}
        BY <1>1, HashAssumption, SizeAssumption DEF Shape, TypeOK, Hash
      <4>2. H1(hasher[key], logical_size_) \in 0 .. Physical - 1
        BY <4>1, H1Range, PhysicalRange DEF Physical
      <4>3. buckets_[H1(hasher[key], logical_size_)] \in Bucket
        BY <1>1, <4>2, AtRestShape DEF Consistent
      <4> QED BY <4>3, SizeAssumption DEF Bucket, SearchDistance
    <3>3. p \in Occupied(buckets_) /\ KeyOf[ValueAt(buckets_, p)] = key
      BY <1>1, <3>1, <3>2, MatchOccupied
    <3>4. buckets_' = buckets_
      BY <2>1 DEF table
    <3> QED BY <3>3, <3>4
  <2>2. CASE Matches(key, SearchDistance(key)) = {} /\ size_' = size_ + 1
    <3>1. ~UNCHANGED table
      BY <1>1, <2>2 DEF Shape, TypeOK, table
    <3>2. PICK p, meta_byte : Adds(buckets_, buckets_', p, meta_byte, value)
      BY <1>1, <3>1, PlaceValueAdds
    <3> QED BY <3>2 DEF Adds
  <2> QED BY <2>1, <2>2 DEF PlaceValue
<1>4. \A p, q \in Constructed(buckets_') :
        KeyOf[ValueAt(buckets_', p)] = KeyOf[ValueAt(buckets_', q)] => p = q
  BY <1>1 DEF OneSlotPerKey
<1> QED BY <1>2, <1>3, <1>4

-----------------------------------------------------------------------------
(* The invariant of a map *)

\* What a map does to its table besides the calls of HashTable: an assignment
\* through a reference or an iterator, or an erase in a loop.
AssignStep ==
  /\ pc = "idle"
  /\ \E p \in Occupied(buckets_), t \in Mapped : AssignedAt(p, t)
  /\ UNCHANGED <<hasher, size_, logical_size_, pc, call, result, scan, target>>

EraseStep ==
  /\ pc = "idle"
  /\ \E p \in Occupied(buckets_) : EraseAt(p)
  /\ UNCHANGED <<hasher, pc, call, result, scan, target>>

\* m[key] = t assigns to the pair that its insert left.
LEMMA AssignIsAssignStep ==
  ASSUME RequestInv, Assign
  PROVE  AssignStep
<1>1. PICK request \in assigning, p \in reference :
        buckets_' = [buckets_ EXCEPT ![p[1]].slots[p[2]] = <<KeyOf[@], request[2]>>]
  BY DEF Assign
<1>2. /\ pc = "idle"
      /\ UNCHANGED <<hasher, size_, logical_size_, pc, call, result, scan, target>>
  BY DEF Assign
<1>3. PICK key \in Keys, t \in Mapped :
        assigning = {<<key, t>>} /\ reference \subseteq Occupied(buckets_)
  BY <1>1, <1>2 DEF RequestInv
<1>4. request[2] = t
  BY <1>1, <1>3
<1> QED BY <1>1, <1>2, <1>3, <1>4 DEF AssignStep, AssignedAt

\* Every step of a map is one of its table, an assignment or an erase.
LEMMA TableStep ==
  ASSUME LoopIdle, RequestInv, [MapLoopsNext]_allVars
  PROVE  [Next]_vars \/ AssignStep \/ EraseStep
<1>1. ASSUME NEW key \in Keys, NEW t \in Mapped, TryEmplace(key, t) \/ Subscript(key, t)
      PROVE  Next
  <2>1. <<key, t>> \in Values /\ <<key, Default>> \in Values
    BY MapAssumption
  <2> QED BY <1>1, <2>1 DEF TryEmplace, Subscript, Next
<1>2. CASE MapNext
  <2>1. CASE EndInsert \/ RehashStep
    BY <2>1 DEF EndInsert, RehashStep, Next, Step
  <2>2. CASE Assign
    BY <2>2, AssignIsAssignStep
  <2>3. CASE \/ \E key \in Keys : EraseKey(key)
             \/ Clear
             \/ \E count \in ReserveCounts : Reserve(count)
    BY <2>3 DEF Next
  <2> QED BY <1>1, <1>2, <2>1, <2>2, <2>3 DEF MapNext
<1>3. CASE Start
  BY <1>3 DEF Start, StartVisit, StartEraseRange, StartEraseEqual, StartLoop
<1>4. CASE \E key \in Keys : EraseMeanwhile(key)
  BY <1>4 DEF EraseMeanwhile, Next
<1>5. ASSUME NEW t \in Mapped, AssignInLoop(t) PROVE AssignStep
  BY <1>5 DEF AssignInLoop, Running, LoopIdle, AssignStep, AssignedAt
<1>6. CASE LoopStep
  BY <1>6 DEF LoopStep, Advance, EraseAndAdvance, EndLoop, Running, LoopIdle, EraseStep
<1>7. CASE UNCHANGED allVars
  BY <1>7 DEF allVars
<1> QED BY <1>2, <1>3, <1>4, <1>5, <1>6, <1>7 DEF MapLoopsNext

\* A request of operator[] is answered by a reference to the pair of its key.
LEMMA NextRequest ==
  ASSUME Swept, Searchable', LoopIdle, RequestInv, [MapLoopsNext]_allVars
  PROVE  RequestInv'
<1>1. CASE assigning' = {}
  BY <1>1 DEF RequestInv
<1>2. ASSUME NEW key \in Keys, NEW t \in Mapped, Subscript(key, t) PROVE RequestInv'
  <2>1. call' = [op |-> "insert", value |-> <<key, Default>>, count |-> 0]
        /\ assigning' = {<<key, t>>}
    BY <1>2 DEF Subscript, Insert
  <2>2. pc' # "idle"
    BY <1>2 DEF Subscript, Insert, StartRehash, Abort
  <2> QED BY <2>1, <2>2 DEF RequestInv
<1>3. CASE EndInsert /\ assigning # {}
  <2>1. pc = "insert" /\ PlaceValue /\ reference' = Placed /\ assigning' = assigning
    BY <1>3 DEF EndInsert, PlaceValue
  <2>2. PICK key \in Keys, t \in Mapped :
          /\ assigning = {<<key, t>>}
          /\ call.op = "insert" /\ call.value = <<key, Default>>
    BY <1>3, <2>1 DEF RequestInv
  <2>3. <<key, Default>> \in Values /\ KeyOf[<<key, Default>>] = key
    BY MapAssumption
  <2>4. CASE pc' = "idle"
    <3>1. PICK p \in Occupied(buckets_') :
            Placed = {p} /\ KeyOf[ValueAt(buckets_', p)] = KeyOf[call.value]
      BY <2>1, <2>4, PlacedElement DEF Swept
    <3>2. p \in Occupied(buckets_)' /\ KeyOf[ValueAt(buckets_, p)]' = key
      BY <2>2, <2>3, <3>1
    <3> QED BY <2>1, <2>2, <2>4, <3>1, <3>2 DEF RequestInv
  <2>5. CASE pc' # "idle"
    <3>1. call' = call
      BY <2>1, <2>5 DEF PlaceValue, Return
    <3> QED BY <2>1, <2>2, <2>5, <3>1 DEF RequestInv
  <2> QED BY <2>4, <2>5
<1>4. CASE RehashStep /\ UNCHANGED mapVars /\ assigning # {}
  <2>1. pc # "idle"
    BY <1>4 DEF RehashStep, GetDisorderedValues, ScanBucket, NextBucket, DrainHeap, FinishRehash
  <2>2. PICK key \in Keys, t \in Mapped :
          /\ assigning = {<<key, t>>}
          /\ call.op = "insert" /\ call.value = <<key, Default>>
    BY <1>4, <2>1 DEF RequestInv
  <2>3. call' = call /\ pc' # "idle"
    <3>1. InsertFromHeap => pc' \in {pc, "aborted"}
      BY DEF InsertFromHeap, InsertAscending
    <3>2. CASE ScanBucket
      BY <2>1, <3>1, <3>2 DEF ScanBucket, InsertAscending
    <3>3. CASE DrainHeap
      BY <2>1, <3>1, <3>3 DEF DrainHeap
    <3>4. CASE GetDisorderedValues \/ NextBucket \/ FinishRehash
      BY <2>2, <3>4 DEF GetDisorderedValues, NextBucket, FinishRehash
    <3> QED BY <1>4, <3>2, <3>3, <3>4 DEF RehashStep
  <2> QED BY <1>4, <2>2, <2>3 DEF RequestInv, mapVars
<1>5. CASE UNCHANGED <<vars, mapVars>>
  BY <1>5 DEF RequestInv, vars, table, mapVars, Occupied, Positions, MetaAt, ValueAt
<1>6. CASE loop # "none" /\ UNCHANGED mapVars
  BY <1>1, <1>6 DEF LoopIdle, mapVars
<1>7. CASE MapNext
  BY <1>1, <1>2, <1>3, <1>4, <1>7
  DEF MapNext, TryEmplace, EndInsert, Assign, Ready, mapVars
<1>8. CASE Ready /\ UNCHANGED mapVars
  BY <1>1, <1>8 DEF Ready, mapVars
<1>9. ASSUME NEW t \in Mapped, AssignInLoop(t) PROVE RequestInv'
  BY <1>6, <1>9 DEF AssignInLoop, Running
<1>10. CASE \E key \in Keys : EraseMeanwhile(key) /\ UNCHANGED mapVars
  BY <1>6, <1>10 DEF EraseMeanwhile
<1>11. CASE LoopStep /\ UNCHANGED mapVars
  BY <1>6, <1>11 DEF LoopStep, Advance, EraseAndAdvance, EndLoop, Running
<1> QED
  BY <1>5, <1>7, <1>8, <1>9, <1>10, <1>11 DEF MapLoopsNext, allVars

\* No call but those of its body while a loop runs.
LEMMA NextLoopIdle ==
  ASSUME Swept, LoopIdle, [MapLoopsNext]_allVars
  PROVE  LoopIdle'
<1>1. CASE loop' = "none"
  BY <1>1 DEF LoopIdle
<1>2. CASE loop = "none" /\ MapNext /\ UNCHANGED loopVars
  BY <1>1, <1>2 DEF loopVars
<1>3. CASE Ready /\ Start /\ UNCHANGED mapVars
  BY <1>3 DEF Ready, Start, StartVisit, StartEraseRange, StartEraseEqual, StartLoop, vars,
              mapVars, LoopIdle
<1>4. ASSUME NEW key \in Keys, EraseMeanwhile(key), UNCHANGED mapVars PROVE LoopIdle'
  BY <1>4, EraseKeyReturns DEF EraseMeanwhile, mapVars, LoopIdle
<1>5. ASSUME NEW t \in Mapped, AssignInLoop(t) PROVE LoopIdle'
  BY <1>5 DEF AssignInLoop, Running, loopVars, mapVars, LoopIdle
<1>6. CASE LoopStep /\ UNCHANGED mapVars
  BY <1>1, <1>6
  DEF LoopStep, Advance, EraseAndAdvance, EndLoop, Running, vars, mapVars, LoopIdle
<1>7. CASE UNCHANGED allVars
  BY <1>7 DEF allVars, vars, loopVars, mapVars, LoopIdle
<1> QED BY <1>2, <1>3, <1>4, <1>5, <1>6, <1>7 DEF MapLoopsNext

\* The invariant is inductive.
LEMMA NextMapInv ==
  ASSUME DistancesInByte, MapInv, [MapLoopsNext]_allVars
  PROVE  MapInv'
<1>1. Swept /\ NoCallIdle /\ LoopIdle /\ RequestInv
  BY DEF MapInv
<1>2. Swept' /\ NoCallIdle'
  <2>1. CASE [Next]_vars
    BY <1>1, <2>1, NextSwept, NextNoCallIdle
  <2>2. CASE AssignStep
    <3>1. PICK p \in Occupied(buckets_), t \in Mapped : AssignedAt(p, t)
      BY <2>2 DEF AssignStep
    <3>2. AtRest /\ pc' = "idle" /\ UNCHANGED <<pc, call>>
          /\ UNCHANGED <<hasher, size_, logical_size_, pc, call, result, scan, target>>
      BY <2>2 DEF AssignStep, AtRest
    <3> QED BY <1>1, <3>1, <3>2, AssignedAtSwept DEF NoCallIdle
  <2>3. CASE EraseStep
    <3>1. PICK p \in Occupied(buckets_) : EraseAt(p)
      BY <2>3 DEF EraseStep
    <3> QED BY <1>1, <2>3, <3>1, EraseAtSwept DEF EraseStep, NoCallIdle
  <2> QED BY <1>1, <2>1, <2>2, <2>3, TableStep
<1>3. LoopIdle'
  BY <1>1, NextLoopIdle
<1>4. RequestInv'
  BY <1>1, <1>2, NextRequest DEF Swept
<1> QED BY <1>2, <1>3, <1>4 DEF MapInv

\* It holds of an empty map.
LEMMA InitMapInv == MapLoopsInit => MapInv
BY InitSwept
DEF MapLoopsInit, MapInit, LoopInit, MapInv, Init, NoCallIdle, LoopIdle, RequestInv

\* Whatever has been proved of a table holds of the table of a map too, between
\* its assignments and in the middle of its loops.
THEOREM MapInvariant == MapLoopsSpec /\ []DistancesInByte => []MapInv
<1>1. MapLoopsInit => MapInv
  BY InitMapInv
<1>2. DistancesInByte /\ MapInv /\ [MapLoopsNext]_allVars => MapInv'
  BY NextMapInv
<1> QED BY <1>1, <1>2, PTL DEF MapLoopsSpec

\* The reference that operator[] returns is to the pair of its key, though the
\* insert may have rehashed the table before it constructed the pair.
THEOREM ReferencesCorrect == MapLoopsSpec /\ []DistancesInByte => []ReferenceToKey
<1>1. MapInv => ReferenceToKey
  <2> SUFFICES ASSUME MapInv, pc = "idle", NEW request \in assigning
               PROVE  \E p \in reference \cap Occupied(buckets_) :
                        ValueAt(buckets_, p)[1] = request[1]
    BY DEF ReferenceToKey
  <2>1. PICK key \in Keys, t \in Mapped :
          /\ assigning = {<<key, t>>}
          /\ \E p \in Occupied(buckets_) :
               reference = {p} /\ KeyOf[ValueAt(buckets_, p)] = key
    BY DEF MapInv, RequestInv
  <2>2. PICK p \in Occupied(buckets_) :
          reference = {p} /\ KeyOf[ValueAt(buckets_, p)] = key
    BY <2>1
  <2>3. Shape /\ AtRest
    BY DEF MapInv, Swept, Searchable, Counted, AtRest
  <2>4. ValueAt(buckets_, p) \in Values
    BY <2>2, <2>3, OccupiedValue
  <2>5. request[1] = key /\ ValueAt(buckets_, p)[1] = key
    BY <2>1, <2>2, <2>4, MapAssumption
  <2> QED BY <2>2, <2>5
<1> QED BY <1>1, MapInvariant, PTL

-----------------------------------------------------------------------------
(* Loops *)

KeysIn(buckets, positions) == {KeyOf[ValueAt(buckets, p)] : p \in positions}

\* A loop has been at the keys of its range that it has behind it, and nobody
\* has touched those ahead; erase(first, last) leaves the others alone.
LoopInv ==
  loop # "none" =>
    /\ {it, last} \subseteq Occupied(buckets_) \cup {End}
    /\ ~Before(last, it)
    /\ loop = "visit" => last = End
    /\ expected = visited \cup KeysIn(buckets_, Rest(Occupied(buckets_), it, last))
    /\ loop = "erase" => outside = KeysIn(buckets_, Others(Occupied(buckets_), it, last))

\* What a step of a loop may rely on
LEMMA LoopShape ==
  ASSUME MapInv, loop # "none" \/ pc = "idle"
  PROVE  pc = "idle" /\ AtRest /\ Shape /\ Searchable /\ Swept
BY DEF MapInv, LoopIdle, Swept, Searchable, Counted, AtRest

\* A loop begins with its whole range ahead.
LEMMA StartLoopInv ==
  ASSUME NEW kind, NEW first \in Occupied(buckets_) \cup {End},
         NEW end \in Occupied(buckets_) \cup {End}, ~Before(end, first),
         kind = "visit" => end = End, StartLoop(kind, first, end)
  PROVE  LoopInv'
<1> DEFINE inRange == {p \in Occupied(buckets_) : ~Before(p, first) /\ Before(p, end)}
<1>1. /\ it' = first /\ last' = end /\ visited' = {} /\ loop' = kind
      /\ expected' = {KeyAt(p) : p \in inRange}
      /\ outside' = {KeyAt(p) : p \in Occupied(buckets_) \ inRange}
      /\ UNCHANGED <<buckets_, logical_size_>>
  BY DEF StartLoop, vars, table
<1>2. End' = End
  BY <1>1 DEF End, Physical
<1>3. inRange = Rest(Occupied(buckets_), first, end)
      /\ Occupied(buckets_) \ inRange = Others(Occupied(buckets_), first, end)
  BY DEF Rest, Others
<1>4. \A S : {KeyAt(p) : p \in S} = KeysIn(buckets_, S)
  BY DEF KeyAt, KeysIn
<1>5. expected' = KeysIn(buckets_, Rest(Occupied(buckets_), first, end))
      /\ outside' = KeysIn(buckets_, Others(Occupied(buckets_), first, end))
  BY <1>1, <1>3, <1>4
<1> QED BY <1>1, <1>2, <1>5 DEF LoopInv

\* begin(), a range of iterators and equal_range() are ranges.
LEMMA StartInv ==
  ASSUME MapInv, SearchDistancesInRange, Ready, Start
  PROVE  LoopInv'
<1>1. Shape /\ AtRest /\ Searchable
  BY LoopShape DEF Ready
<1>2. CASE StartVisit
  <2>1. BeginIterator \in Occupied(buckets_) \cup {End}
    BY <1>1, BeginIteratorFirst
  <2>2. ~Before(End, BeginIterator)
    BY <1>1, <2>1, InOrder
  <2> QED BY <1>2, <2>1, <2>2, StartLoopInv DEF StartVisit
<1>3. ASSUME NEW first \in Occupied(buckets_) \cup {End},
             NEW end \in Occupied(buckets_) \cup {End}, StartEraseRange(first, end)
      PROVE  LoopInv'
  BY <1>3, StartLoopInv DEF StartEraseRange
<1>4. ASSUME NEW key \in Keys, StartEraseEqual(key) PROVE LoopInv'
  <2>1. CASE StartLoop("erase", End, End)
    <3>1. ~Before(End, End)
      BY <1>1, InOrder
    <3> QED BY <2>1, <3>1, StartLoopInv
  <2>2. ASSUME NEW p \in Find(key), StartLoop("erase", p, NextIterator(p))
        PROVE  LoopInv'
    <3>1. p \in Occupied(buckets_)
      BY <1>1, <2>2, FindExact
    <3>2. FirstAfter(Occupied(buckets_), p, NextIterator(p))
      BY <1>1, <3>1, NextIteratorFirst
    <3>3. NextIterator(p) \in Occupied(buckets_) \cup {End} /\ Before(p, NextIterator(p))
      BY <3>2 DEF FirstAfter
    <3>4. ~Before(NextIterator(p), p)
      BY <1>1, <3>1, <3>3, InOrder
    <3> QED BY <2>2, <3>1, <3>3, <3>4, StartLoopInv
  <2> QED BY <1>4, <2>1, <2>2 DEF StartEraseEqual
<1> QED BY <1>2, <1>3, <1>4 DEF Start

\* A step that leaves the keys where they are
LEMMA LoopUnchanged ==
  ASSUME LoopInv, UNCHANGED loopVars, logical_size_' = logical_size_,
         Occupied(buckets_') = Occupied(buckets_),
         \A p \in Occupied(buckets_) :
           KeyOf[ValueAt(buckets_', p)] = KeyOf[ValueAt(buckets_, p)]
  PROVE  LoopInv'
<1>1. End' = End
  BY DEF End, Physical
<1>2. \A S \in SUBSET Occupied(buckets_) : KeysIn(buckets_', S) = KeysIn(buckets_, S)
  BY DEF KeysIn
<1>3. /\ Rest(Occupied(buckets_), it, last) \in SUBSET Occupied(buckets_)
      /\ Others(Occupied(buckets_), it, last) \in SUBSET Occupied(buckets_)
  BY DEF Rest, Others
<1> QED BY <1>1, <1>2, <1>3 DEF LoopInv, loopVars

\* A step over one element, which may be erased
LEMMA StepOverInv ==
  ASSUME MapInv, SearchDistancesInRange, LoopInv, Running,
         visited' = visited \cup {KeyAt(it)}, it' = NextIterator(it),
         UNCHANGED <<logical_size_, loop, last, expected, outside>>,
         \/ loop = "visit" /\ UNCHANGED buckets_
         \/ Removes(buckets_, buckets_', it)
  PROVE  LoopInv'
<1> DEFINE occupied == Occupied(buckets_)
<1>1. /\ Shape /\ AtRest /\ it \in occupied /\ it # last /\ loop # "none"
      /\ last \in occupied \cup {End} /\ ~Before(last, it)
      /\ loop = "visit" => last = End
      /\ expected = visited \cup KeysIn(buckets_, Rest(occupied, it, last))
      /\ loop = "erase" => outside = KeysIn(buckets_, Others(occupied, it, last))
  BY LoopShape DEF Running, LoopInv
<1>2. FirstAfter(occupied, it, it')
  BY <1>1, NextIteratorFirst
<1>3. /\ ~Before(last, it')
      /\ Rest(occupied, it, last) = Rest(occupied, it', last) \cup {it}
      /\ it \notin Rest(occupied, it', last)
      /\ Others(occupied, it, last) = Others(occupied, it', last) \ {it}
  BY <1>1, <1>2, StepOver
<1>4. it' \in occupied \cup {End} /\ it' # it
  BY <1>1, <1>2, InOrder DEF FirstAfter
<1>5. End' = End
  BY DEF End, Physical
<1>6. expected = visited' \cup KeysIn(buckets_, Rest(occupied, it', last))
  BY <1>1, <1>3 DEF KeysIn, KeyAt
<1> HIDE DEF occupied
<1>7. CASE loop = "visit" /\ UNCHANGED buckets_
  BY <1>1, <1>3, <1>4, <1>5, <1>6, <1>7 DEF LoopInv, occupied
<1>8. CASE Removes(buckets_, buckets_', it)
  <2>1. /\ Occupied(buckets_') = occupied \ {it}
        /\ \A p \in occupied \ {it} :
             KeyOf[ValueAt(buckets_', p)] = KeyOf[ValueAt(buckets_, p)]
    BY <1>8 DEF Removes, Keeps, occupied
  <2>2. /\ Rest(occupied \ {it}, it', last) = Rest(occupied, it', last)
        /\ Others(occupied \ {it}, it', last) = Others(occupied, it, last)
    BY <1>3 DEF Rest, Others
  <2>3. \A S \in SUBSET (occupied \ {it}) : KeysIn(buckets_', S) = KeysIn(buckets_, S)
    BY <2>1 DEF KeysIn
  <2>4. /\ Rest(occupied, it', last) \in SUBSET (occupied \ {it})
        /\ Others(occupied, it, last) \in SUBSET (occupied \ {it})
    BY <1>3 DEF Rest, Others
  <2>5. {it', last} \subseteq (occupied \ {it}) \cup {End}
    BY <1>1, <1>4
  <2> QED
    BY <1>1, <1>3, <1>5, <1>6, <2>1, <2>2, <2>3, <2>4, <2>5 DEF LoopInv
<1> QED BY <1>7, <1>8

\* An erase ahead of a loop, or behind it
LEMMA EraseMeanwhileInv ==
  ASSUME MapInv, LoopInv, NEW key \in Keys, EraseMeanwhile(key)
  PROVE  LoopInv'
<1> DEFINE occupied == Occupied(buckets_)
           left == {p \in occupied : KeyOf[ValueAt(buckets_, p)] # key}
<1>1. /\ loop = "visit" /\ EraseKey(key)
      /\ \A p \in {it} \cap occupied : KeyOf[ValueAt(buckets_, p)] # key
      /\ expected' = {k \in expected : k # key \/ k \in visited}
      /\ UNCHANGED <<loop, it, last, visited, outside>>
  BY DEF EraseMeanwhile, KeyAt
<1>2. /\ Shape /\ AtRest /\ Searchable /\ Swept
      /\ {it, last} \subseteq occupied \cup {End} /\ ~Before(last, it) /\ last = End
      /\ expected = visited \cup KeysIn(buckets_, Rest(occupied, it, last))
  BY <1>1, LoopShape DEF LoopInv
<1>3. Find(key) = {p \in occupied : KeyOf[ValueAt(buckets_, p)] = key}
  BY <1>2, FindExact
<1>4. pc' = "idle"
  BY <1>1, <1>2, EraseKeyReturns
<1>5. /\ logical_size_' = logical_size_ /\ Occupied(buckets_') = left
      /\ \A p \in left : KeyOf[ValueAt(buckets_', p)] = KeyOf[ValueAt(buckets_, p)]
  <2>1. CASE Find(key) = {} /\ UNCHANGED table
    BY <1>3, <2>1 DEF table
  <2>2. ASSUME NEW p \in Find(key), EraseAt(p)
        PROVE  /\ logical_size_' = logical_size_ /\ Occupied(buckets_') = left
               /\ \A q \in left : KeyOf[ValueAt(buckets_', q)] = KeyOf[ValueAt(buckets_, q)]
    <3>1. p \in occupied /\ KeyOf[ValueAt(buckets_, p)] = key
      BY <1>3, <2>2
    <3>2. Removes(buckets_, buckets_', p)
      BY <1>2, <2>2, <3>1, EraseAtRemoves
    <3>3. left = occupied \ {p}
      <4>1. \A q \in Find(key) : q = p
        <5>1. OneSlotPerKey /\ Constructed(buckets_) = occupied
          BY <1>2, ConstructedOccupied DEF Searchable, Shape, NewInv
        <5> QED BY <1>3, <3>1, <5>1 DEF OneSlotPerKey
      <4> QED BY <1>3, <3>1, <4>1
    <3> QED BY <2>2, <3>2, <3>3 DEF Removes, Keeps, EraseAt
  <2> QED BY <1>1, <1>4, <2>1, <2>2 DEF EraseKey
<1>6. End' = End
  BY <1>5 DEF End, Physical
<1>7. {it, last} \subseteq left \cup {End}
  BY <1>1, <1>2
<1>8. KeysIn(buckets_', Rest(left, it, last))
        = KeysIn(buckets_, Rest(occupied, it, last)) \ {key}
  <2>1. KeysIn(buckets_', Rest(left, it, last)) = KeysIn(buckets_, Rest(left, it, last))
    BY <1>5 DEF KeysIn, Rest
  <2>2. KeysIn(buckets_, Rest(left, it, last))
          = KeysIn(buckets_, Rest(occupied, it, last)) \ {key}
    BY DEF KeysIn, Rest
  <2> QED BY <2>1, <2>2
<1>9. expected' = visited \cup KeysIn(buckets_', Rest(left, it, last))
  BY <1>1, <1>2, <1>8
<1> HIDE DEF occupied, left
<1> QED BY <1>1, <1>2, <1>5, <1>6, <1>7, <1>9 DEF LoopInv

\* Every step of a map and of its loops keeps the range of the loop.
LEMMA NextLoopInv ==
  ASSUME MapInv, SearchDistancesInRange, LoopInv, [MapLoopsNext]_allVars
  PROVE  LoopInv'
<1>1. CASE loop' = "none"
  BY <1>1 DEF LoopInv
<1>2. CASE loop = "none" /\ MapNext /\ UNCHANGED loopVars
  BY <1>1, <1>2 DEF loopVars
<1>3. CASE Ready /\ Start
  BY <1>3, StartInv
<1>4. CASE \E key \in Keys : EraseMeanwhile(key)
  BY <1>4, EraseMeanwhileInv
<1>5. ASSUME NEW t \in Mapped, AssignInLoop(t) PROVE LoopInv'
  <2>1. AssignedAt(it, t) /\ it \in Occupied(buckets_) /\ loop # "none"
        /\ UNCHANGED <<logical_size_, loopVars>>
    BY <1>5 DEF AssignInLoop, AssignedAt, Running
  <2>2. SameKeys(buckets_, buckets_')
    BY <2>1, LoopShape, AssignedAtEffect
  <2> QED BY <2>1, <2>2, LoopUnchanged DEF SameKeys
<1>6. CASE Advance
  BY <1>6, StepOverInv DEF Advance, vars, table
<1>7. CASE EraseAndAdvance
  <2>1. /\ Running /\ EraseAt(it) /\ it' = NextIterator(it)
        /\ visited' = visited \cup {KeyAt(it)}
        /\ UNCHANGED <<logical_size_, loop, last, expected, outside>>
    BY <1>7 DEF EraseAndAdvance, IncrementBeforeErase, EraseAt
  <2>2. Removes(buckets_, buckets_', it)
    BY <2>1, LoopShape, EraseAtRemoves DEF Running
  <2> QED BY <2>1, <2>2, StepOverInv
<1>8. CASE UNCHANGED allVars
  BY <1>8, LoopUnchanged DEF allVars, vars, table
<1> QED
  BY <1>1, <1>2, <1>3, <1>4, <1>5, <1>6, <1>7, <1>8 DEF MapLoopsNext, LoopStep, EndLoop

\* A loop that ends has been at every element of its range that nobody erased
\* before it came there, and an erase of a range has taken it away and nothing
\* else, however the callers erase in between.  The loop finds its way by the
\* sentinel behind the last bucket, so the search distances must be in range.
THEOREM LoopsCorrect ==
  MapLoopsSpec /\ []DistancesInByte /\ []SearchDistancesInRange
    => [](VisitsAll /\ RangeErased)
<1>1. MapLoopsInit => LoopInv
  BY DEF MapLoopsInit, LoopInit, LoopInv
<1>2. MapInv /\ SearchDistancesInRange /\ LoopInv /\ [MapLoopsNext]_allVars => LoopInv'
  BY NextLoopInv
<1>3. MapInv /\ LoopInv => VisitsAll /\ RangeErased
  <2> SUFFICES ASSUME MapInv, LoopInv, loop # "none", it = last
               PROVE  /\ visited = expected
                      /\ loop = "erase" => {KeyAt(p) : p \in Occupied(buckets_)} = outside
    BY DEF VisitsAll, RangeErased
  <2>1. /\ Rest(Occupied(buckets_), it, last) = {}
        /\ Others(Occupied(buckets_), it, last) = Occupied(buckets_)
    BY DEF Rest, Others
  <2> QED BY <2>1 DEF LoopInv, KeysIn, KeyAt
<1> QED BY <1>1, <1>2, <1>3, MapInvariant, PTL DEF MapLoopsSpec

-----------------------------------------------------------------------------
(* A map is a partial function *)

\* The function that a set of pairs is, as the refinement mapping builds it
MapOf(pairs) ==
  [key \in Keys |->
     LET with == {v \in pairs : v[1] = key}
     IN  IF with = {} THEN NoMapped ELSE (CHOOSE v \in with : TRUE)[2]]

\* Pairs with unique keys
UniquePairs(pairs) ==
  /\ pairs \subseteq Values
  /\ \A v, w \in pairs : v[1] = w[1] => v = w

\* A pair of the set is what the function says of its key.
LEMMA MapOfPair ==
  ASSUME NEW pairs, UniquePairs(pairs), NEW v \in pairs
  PROVE  /\ v[1] \in Keys /\ v[2] \in Mapped /\ v = <<v[1], v[2]>>
         /\ MapOf(pairs)[v[1]] = v[2]
<1>1. v[1] \in Keys /\ v[2] \in Mapped /\ v = <<v[1], v[2]>>
  BY MapAssumption DEF UniquePairs
<1>2. {w \in pairs : w[1] = v[1]} = {v}
  BY DEF UniquePairs
<1>3. (CHOOSE w \in {v} : TRUE) = v
  OBVIOUS
<1>4. MapOf(pairs)[v[1]] = IF {v} = {} THEN NoMapped ELSE (CHOOSE w \in {v} : TRUE)[2]
  BY <1>1, <1>2 DEF MapOf
<1> QED BY <1>1, <1>3, <1>4

\* A key without a pair has no value.
LEMMA MapOfNone ==
  ASSUME NEW pairs, NEW key \in Keys, \A v \in pairs : v[1] # key
  PROVE  MapOf(pairs)[key] = NoMapped
<1>1. {v \in pairs : v[1] = key} = {}
  OBVIOUS
<1> QED BY <1>1 DEF MapOf

\* Sets of pairs that agree on a key agree on its value.
LEMMA MapOfSame ==
  ASSUME NEW old, NEW new, NEW key \in Keys, \A v : v[1] = key => (v \in old <=> v \in new)
  PROVE  MapOf(new)[key] = MapOf(old)[key]
<1> DEFINE value(with) == IF with = {} THEN NoMapped ELSE (CHOOSE v \in with : TRUE)[2]
<1>1. {v \in old : v[1] = key} = {v \in new : v[1] = key}
  OBVIOUS
<1>2. /\ MapOf(old)[key] = value({v \in old : v[1] = key})
      /\ MapOf(new)[key] = value({v \in new : v[1] = key})
  BY DEF MapOf
<1> HIDE DEF value
<1> QED BY <1>1, <1>2

\* Sets of pairs that differ in the pairs of one key
DifferAt(old, new, key) == \A v : v[1] # key => (v \in old <=> v \in new)

\* So a change of the pairs of one key is a change of the function at that key.
LEMMA MapOfChange ==
  ASSUME NEW old, NEW new, NEW key \in Keys, DifferAt(old, new, key)
  PROVE  MapOf(new) = [MapOf(old) EXCEPT ![key] = MapOf(new)[key]]
<1>1. ASSUME NEW k \in Keys, k # key PROVE MapOf(new)[k] = MapOf(old)[k]
  <2>1. \A v : v[1] = k => (v \in old <=> v \in new)
    BY <1>1 DEF DifferAt
  <2> QED BY <2>1, MapOfSame
<1>2. /\ MapOf(new) = [k \in Keys |-> MapOf(new)[k]]
      /\ MapOf(old) = [k \in Keys |-> MapOf(old)[k]]
  BY DEF MapOf
<1> QED BY <1>1, <1>2, Zenon

\* In a table in shape the pairs have unique keys, also while a rehash moves them.
LEMMA ContentsUnique ==
  ASSUME Searchable
  PROVE  UniquePairs(Contents)
<1>1. Shape /\ OneSlotPerKey
  BY DEF Searchable, Counted
<1>2. ASSUME NEW v \in Stored(buckets_) PROVE v \in Values
  <2>1. PICK p \in Constructed(buckets_) : v = ValueAt(buckets_, p)
    BY <1>2 DEF Stored
  <2>2. /\ p[1] \in DOMAIN buckets_ /\ p[2] \in SlotNumber
        /\ buckets_[p[1]] # Uninitialized /\ buckets_[p[1]].slots[p[2]] # NoValue
    BY <2>1, ConstructedPair
  <2>3. buckets_[p[1]] \in Bucket
    BY <1>1, <2>2 DEF Shape, NewInv, Consistent
  <2> QED BY <2>1, <2>2, <2>3 DEF Bucket, ValueAt
<1>3. ASSUME NEW v \in Stored(source) PROVE v \in Values
  <2>1. PICK p \in Constructed(source) : v = ValueAt(source, p)
    BY <1>3 DEF Stored
  <2>2. /\ p[1] \in DOMAIN source /\ p[2] \in SlotNumber
        /\ source[p[1]].slots[p[2]] # NoValue
    BY <2>1, ConstructedPair
  <2>3. source[p[1]] \in Bucket
    BY <1>1, <2>2 DEF Shape, SourceInv
  <2> QED BY <2>1, <2>2, <2>3 DEF Bucket, ValueAt
<1>4. Contents \subseteq Values
  BY <1>2, <1>3 DEF Contents
<1>5. \A v, w \in Contents : KeyOf[v] = KeyOf[w] => v = w
  BY <1>1 DEF Contents, OneSlotPerKey, Stored
<1> QED BY <1>4, <1>5, MapAssumption DEF UniquePairs

\* The actions of AbstractMap, through the refinement mapping
LEMMA MapActions ==
  /\ AbstractM!vars = <<MapOf(Contents), Inserting, assigning>>
  /\ AbstractM!vars' = <<MapOf(Contents'), Inserting', assigning'>>
BY DEF AbstractM!vars, MapOf, Contents, Inserting

\* The return of an insert
LEMMA PlaceAction ==
  AbstractM!Place <=>
    \E request \in Inserting :
      /\ MapOf(Contents') = [MapOf(Contents) EXCEPT ![request[1]] =
                               IF @ = NoMapped THEN request[2] ELSE @]
      /\ Inserting' = {}
      /\ UNCHANGED assigning
BY DEF AbstractM!Place, MapOf, Contents, Inserting

\* An erase
LEMMA EraseAction ==
  ASSUME NEW key
  PROVE  AbstractM!Erase(key) <=>
           /\ Inserting = {} /\ assigning = {}
           /\ MapOf(Contents') = [MapOf(Contents) EXCEPT ![key] = NoMapped]
           /\ UNCHANGED <<Inserting, assigning>>
BY DEF AbstractM!Erase, MapOf, Contents, Inserting

\* The assignment of m[key] = t
LEMMA AssignAction ==
  AbstractM!Assign <=>
    /\ Inserting = {}
    /\ \E request \in assigning :
         MapOf(Contents') = [MapOf(Contents) EXCEPT ![request[1]] = request[2]]
    /\ assigning' = {}
    /\ UNCHANGED Inserting
BY DEF AbstractM!Assign, MapOf, Contents, Inserting

\* The assignment of it->second = t
LEMMA AssignInLoopAction ==
  ASSUME NEW key, NEW t
  PROVE  AbstractM!AssignInLoop(key, t) <=>
           /\ Inserting = {} /\ assigning = {} /\ MapOf(Contents)[key] # NoMapped
           /\ MapOf(Contents') = [MapOf(Contents) EXCEPT ![key] = t]
           /\ UNCHANGED <<Inserting, assigning>>
BY DEF AbstractM!AssignInLoop, MapOf, Contents, Inserting

\* clear()
LEMMA ClearAction ==
  AbstractM!Clear <=>
    /\ Inserting = {} /\ assigning = {}
    /\ MapOf(Contents') = [key \in Keys |-> NoMapped]
    /\ UNCHANGED <<Inserting, assigning>>
BY DEF AbstractM!Clear, MapOf, Contents, Inserting

\* The requests of inserts
LEMMA RequestActions ==
  ASSUME NEW key, NEW t
  PROVE  /\ AbstractM!TryEmplace(key, t) <=>
              /\ Inserting = {} /\ assigning = {} /\ Inserting' = {<<key, t>>}
              /\ MapOf(Contents') = MapOf(Contents) /\ assigning' = assigning
         /\ AbstractM!Subscript(key, t) <=>
              /\ Inserting = {} /\ assigning = {} /\ Inserting' = {<<key, Default>>}
              /\ assigning' = {<<key, t>>} /\ MapOf(Contents') = MapOf(Contents)
BY DEF AbstractM!TryEmplace, AbstractM!Subscript, MapOf, Contents, Inserting

\* No step
LEMMA MapStutters ==
  ASSUME Contents' = Contents, Inserting' = Inserting, assigning' = assigning
  PROVE  UNCHANGED AbstractM!vars
BY MapActions

\* The request of an insert
LEMMA RequestStep ==
  ASSUME NEW key \in Keys, NEW t \in Mapped, Abstract!BeginInsert(<<key, t>>)
  PROVE  /\ Contents' = Contents /\ Inserting = {} /\ Inserting' = {<<key, t>>}
BY DEF Abstract!BeginInsert, Contents, Inserting

\* Its return
LEMMA PlaceStep ==
  ASSUME Swept, Shape', EndInsert
  PROVE  AbstractM!Place \/ UNCHANGED AbstractM!vars
<1> DEFINE value == call.value
<1>1. /\ Searchable /\ Shape /\ PlaceValue /\ assigning' = assigning /\ call.op = "insert"
      /\ value \in Values
  BY DEF Swept, Searchable, Counted, Shape, CallInv, EndInsert, PlaceValue
<1>2. UniquePairs(Contents) /\ value = <<value[1], value[2]>> /\ value[1] \in Keys
      /\ value[2] \in Mapped /\ KeyOf[value] = value[1] /\ Inserting = {value}
      /\ NoMapped \notin Mapped
  BY <1>1, ContentsUnique, MapAssumption DEF Inserting
<1>3. CASE UNCHANGED Abstract!vars
  BY <1>1, <1>3, MapStutters DEF Abstract!vars, Contents, Inserting
<1>4. CASE Abstract!EndInsert(value)
  <2>1. /\ Inserting' = {}
        /\ IF {v \in Contents : KeyOf[v] = KeyOf[value]} # {}
           THEN Contents' = Contents
           ELSE Contents' = Contents \cup {value}
    BY <1>4 DEF Abstract!EndInsert, Abstract!With, Contents, Inserting
  <2>2. \A v \in Contents : KeyOf[v] = v[1]
    BY <1>2, MapAssumption DEF UniquePairs
  <2>3. MapOf(Contents') = [MapOf(Contents) EXCEPT ![value[1]] =
                              IF @ = NoMapped THEN value[2] ELSE @]
    <3>1. CASE \E v \in Contents : v[1] = value[1]
      <4>1. PICK v \in Contents : v[1] = value[1]
        BY <3>1
      <4>2. MapOf(Contents)[value[1]] # NoMapped
        BY <1>2, <4>1, MapOfPair
      <4>3. Contents' = Contents
        BY <1>2, <2>1, <2>2, <4>1
      <4>4. MapOf(Contents) = [k \in Keys |-> MapOf(Contents)[k]]
        BY DEF MapOf
      <4> QED BY <4>2, <4>3, <4>4
    <3>2. CASE \A v \in Contents : v[1] # value[1]
      <4>1. MapOf(Contents)[value[1]] = NoMapped
        BY <1>2, <3>2, MapOfNone
      <4>2. Contents' = Contents \cup {value}
        BY <1>2, <2>1, <2>2, <3>2
      <4>3. UniquePairs(Contents')
        BY <1>1, <1>2, <3>2, <4>2 DEF UniquePairs
      <4>4. MapOf(Contents')[value[1]] = value[2]
        BY <4>2, <4>3, MapOfPair
      <4>5. MapOf(Contents') = [MapOf(Contents) EXCEPT ![value[1]] = MapOf(Contents')[value[1]]]
        <5>1. DifferAt(Contents, Contents', value[1])
          BY <4>2 DEF DifferAt
        <5>2. value[1] \in Keys
          BY <1>2
        <5> HIDE DEF value
        <5> QED BY <5>1, <5>2, MapOfChange
      <4> QED BY <4>1, <4>4, <4>5
    <3> QED BY <3>1, <3>2
  <2> HIDE DEF value
  <2> QED BY <1>1, <1>2, <2>1, <2>3, PlaceAction
<1> QED BY <1>1, <1>3, <1>4, PlaceValueStep

\* An erase of a key, by a call or by a loop, takes its value away.
LEMMA ErasedKey ==
  ASSUME Searchable, NEW key \in Keys, Contents' = Contents \ WithKey(key),
         Inserting = {}, Inserting' = {}, assigning = {}, assigning' = {}
  PROVE  AbstractM!Erase(key)
<1>1. \A v \in Contents : KeyOf[v] = v[1]
  BY ContentsUnique, MapAssumption DEF UniquePairs
<1>2. \A v \in Contents' : v[1] # key
  BY <1>1 DEF WithKey
<1>3. MapOf(Contents')[key] = NoMapped
  BY <1>2, MapOfNone
<1>4. DifferAt(Contents, Contents', key)
  BY <1>1 DEF WithKey, DifferAt
<1>5. MapOf(Contents') = [MapOf(Contents) EXCEPT ![key] = MapOf(Contents')[key]]
  BY <1>4, MapOfChange
<1> QED BY <1>3, <1>5, EraseAction

\* erase(key), as a call or while a loop runs
LEMMA EraseKeyIsErase ==
  ASSUME Swept, Shape', NoCallIdle, NEW key \in Keys, EraseKey(key),
         assigning = {}, assigning' = {}
  PROVE  AbstractM!Erase(key) \/ UNCHANGED AbstractM!vars
<1>1. Searchable
  BY DEF Swept
<1>2. CASE Abstract!Erase(key)
  <2>1. /\ Inserting = {} /\ Inserting' = {} /\ Contents' = Contents \ WithKey(key)
    BY <1>2 DEF Abstract!Erase, Abstract!With, WithKey, Contents, Inserting
  <2> QED BY <1>1, <2>1, ErasedKey
<1>3. CASE UNCHANGED Abstract!vars
  BY <1>3, MapStutters DEF Abstract!vars, Contents, Inserting
<1> QED BY <1>1, <1>2, <1>3, EraseKeyStep

\* An assignment changes the value of a key that is there.
LEMMA AssignedValue ==
  ASSUME Searchable, Shape', AtRest, AtRest', UNCHANGED source,
         NEW p \in Occupied(buckets_), NEW t \in Mapped, AssignedAt(p, t)
  PROVE  LET key == KeyAt(p)
         IN  /\ key \in Keys /\ MapOf(Contents)[key] # NoMapped
             /\ MapOf(Contents') = [MapOf(Contents) EXCEPT ![key] = t]
<1> DEFINE key == KeyAt(p)
           occupied == Occupied(buckets_)
<1>1. /\ Shape /\ OneSlotPerKey /\ UniquePairs(Contents)
      /\ Contents = {ValueAt(buckets_, q) : q \in occupied}
  BY ContentsUnique, RestContents DEF Searchable, Counted
<1>2. /\ Occupied(buckets_') = occupied
      /\ \A q \in occupied : KeyOf[ValueAt(buckets_', q)] = KeyOf[ValueAt(buckets_, q)]
      /\ ValueAt(buckets_', p) = <<key, t>>
      /\ \A q \in occupied \ {p} : ValueAt(buckets_', q) = ValueAt(buckets_, q)
  BY <1>1, AssignedAtEffect DEF SameKeys, KeyAt
<1>3. Contents' = {ValueAt(buckets_', q) : q \in occupied}
  <2>1. Constructed(buckets_') = Occupied(buckets_')
    BY ConstructedOccupied DEF Shape, NewInv
  <2>2. Stored(source) = {}
    BY <1>1, AtRestSource DEF Stored
  <2>3. Stored(source') = {}
    BY <2>2
  <2>4. Stored(buckets_') = {ValueAt(buckets_', q) : q \in occupied}
    BY <1>2, <2>1 DEF Stored
  <2> QED BY <2>3, <2>4 DEF Contents
<1>4. /\ ValueAt(buckets_, p) \in Contents
      /\ ValueAt(buckets_, p)[1] = key /\ key \in Keys
      /\ \A q \in occupied : KeyOf[ValueAt(buckets_, q)] = ValueAt(buckets_, q)[1]
  BY <1>1, MapAssumption DEF UniquePairs, KeyAt
<1>5. MapOf(Contents)[key] # NoMapped
  BY <1>1, <1>4, MapOfPair, MapAssumption
<1>6. \A q, r \in occupied : KeyOf[ValueAt(buckets_, q)] = KeyOf[ValueAt(buckets_, r)] => q = r
  <2>1. Constructed(buckets_) = occupied
    BY <1>1, ConstructedOccupied DEF Shape, NewInv
  <2> QED BY <1>1, <2>1 DEF OneSlotPerKey
<1>7. \A q \in occupied \ {p} : ValueAt(buckets_, q)[1] # key
  BY <1>4, <1>6 DEF KeyAt
<1> HIDE DEF key, occupied
<1>8. Contents' = (Contents \ {ValueAt(buckets_, p)}) \cup {<<key, t>>}
  <2>1. p \in occupied
    BY DEF occupied
  <2>2. \A q \in occupied \ {p} : ValueAt(buckets_, q) # ValueAt(buckets_, p)
    BY <1>4, <1>7
  <2> QED BY <1>1, <1>2, <1>3, <2>1, <2>2
<1>9. \A v \in Contents : v[1] = key => v = ValueAt(buckets_, p)
  BY <1>1, <1>4 DEF UniquePairs
<1>10. UniquePairs(Contents')
  BY <1>1, <1>4, <1>8, <1>9, MapAssumption DEF UniquePairs
<1>11. MapOf(Contents')[key] = t
  <2>1. <<key, t>> \in Contents'
    BY <1>8
  <2>2. <<key, t>>[1] = key /\ <<key, t>>[2] = t
    OBVIOUS
  <2> QED BY <1>10, <2>1, <2>2, MapOfPair
<1>12. DifferAt(Contents, Contents', key)
  BY <1>4, <1>8 DEF DifferAt
<1>13. MapOf(Contents') = [MapOf(Contents) EXCEPT ![key] = MapOf(Contents')[key]]
  BY <1>4, <1>12, MapOfChange
<1> QED BY <1>4, <1>5, <1>11, <1>13 DEF key

\* A step that is none of the set, with no request or assignment in sight
LEMMA TableStutters ==
  ASSUME UNCHANGED <<buckets_, source, call, assigning>>
  PROVE  UNCHANGED AbstractM!vars
<1>1. Contents' = Contents
  BY ContentsUnchanged
<1>2. Inserting' = Inserting
  BY DEF Inserting
<1> QED BY <1>1, <1>2, MapStutters

\* The steps of a map between loops
LEMMA MapNextStep ==
  ASSUME MapInv, Swept', MapNext
  PROVE  AbstractM!Next \/ UNCHANGED AbstractM!vars
<1>1. /\ Swept /\ NoCallIdle /\ RequestInv /\ Searchable /\ Shape /\ FreeInv /\ Shape'
  BY DEF MapInv, Swept, Searchable, Counted
<1>2. ASSUME NEW key \in Keys, NEW t \in Mapped, TryEmplace(key, t)
      PROVE  AbstractM!TryEmplace(key, t)
  <2>1. <<key, t>> \in Values /\ Insert(<<key, t>>) /\ assigning = {} /\ assigning' = assigning
    BY <1>2, MapAssumption DEF TryEmplace, Ready, mapVars
  <2>2. Contents' = Contents /\ Inserting = {} /\ Inserting' = {<<key, t>>}
    BY <1>1, <2>1, InsertStep, RequestStep
  <2> QED BY <2>1, <2>2, RequestActions
<1>3. ASSUME NEW key \in Keys, NEW t \in Mapped, Subscript(key, t)
      PROVE  AbstractM!Subscript(key, t)
  <2>1. /\ <<key, Default>> \in Values /\ Default \in Mapped /\ Insert(<<key, Default>>)
        /\ assigning = {} /\ assigning' = {<<key, t>>}
    BY <1>3, MapAssumption DEF Subscript, Ready
  <2>2. Contents' = Contents /\ Inserting = {} /\ Inserting' = {<<key, Default>>}
    BY <1>1, <2>1, InsertStep, RequestStep
  <2> QED BY <2>1, <2>2, RequestActions
<1>4. CASE EndInsert
  BY <1>1, <1>4, PlaceStep DEF AbstractM!Next
<1>5. CASE Assign
  <2>1. PICK request \in assigning, p \in reference :
          buckets_' = [buckets_ EXCEPT ![p[1]].slots[p[2]] = <<KeyOf[@], request[2]>>]
    BY <1>5 DEF Assign
  <2>2. /\ pc = "idle" /\ pc' = "idle" /\ UNCHANGED <<source, call>> /\ assigning' = {}
    BY <1>5 DEF Assign, scan
  <2>3. PICK key \in Keys, t \in Mapped :
          /\ assigning = {<<key, t>>}
          /\ p \in Occupied(buckets_) /\ KeyAt(p) = key
    BY <1>1, <2>1, <2>2 DEF RequestInv, KeyAt
  <2>4. request = <<key, t>> /\ request[1] = key /\ request[2] = t
    BY <2>1, <2>3
  <2>5. AssignedAt(p, t)
    BY <2>1, <2>4 DEF AssignedAt
  <2>6. AtRest /\ AtRest' /\ Inserting = {} /\ Inserting' = Inserting
    BY <1>1, <2>2 DEF AtRest, NoCallIdle, Inserting, Idle
  <2>7. MapOf(Contents') = [MapOf(Contents) EXCEPT ![key] = t]
    BY <1>1, <2>2, <2>3, <2>5, <2>6, AssignedValue
  <2>8. AbstractM!Assign
    BY <2>1, <2>2, <2>4, <2>6, <2>7, AssignAction
  <2> QED BY <2>8 DEF AbstractM!Next
<1>6. ASSUME NEW key \in Keys, Ready, EraseKey(key), UNCHANGED mapVars
      PROVE  AbstractM!Next \/ UNCHANGED AbstractM!vars
  BY <1>1, <1>6, EraseKeyIsErase DEF Ready, mapVars, AbstractM!Next
<1>7. CASE Ready /\ Clear /\ UNCHANGED mapVars
  <2>1. Contents' = {} /\ Inserting = {} /\ Inserting' = {}
    BY <1>1, <1>7, ClearStep DEF Abstract!Clear, Contents, Inserting
  <2>2. MapOf(Contents') = [key \in Keys |-> NoMapped]
    <3>1. \A key \in Keys : MapOf(Contents')[key] = NoMapped
      BY <2>1, MapOfNone
    <3>2. MapOf(Contents') = [key \in Keys |-> MapOf(Contents')[key]]
      BY DEF MapOf
    <3> QED BY <3>1, <3>2, Zenon
  <2>3. assigning = {} /\ assigning' = {}
    BY <1>7 DEF Ready, mapVars
  <2> QED BY <2>1, <2>2, <2>3, ClearAction DEF AbstractM!Next
<1>8. ASSUME NEW count \in ReserveCounts, Reserve(count), UNCHANGED mapVars
      PROVE  UNCHANGED AbstractM!vars
  <2>1. Contents' = Contents /\ Inserting' = Inserting
    BY <1>1, <1>8, ReserveStep DEF Abstract!Resize, Abstract!vars, Contents, Inserting
  <2> QED BY <1>8, <2>1, MapStutters DEF mapVars
<1>9. CASE RehashStep /\ UNCHANGED mapVars
  <2>1. Contents' = Contents /\ Inserting' = Inserting
    <3>1. CASE GetDisorderedValues
      BY <1>1, <3>1, GetDisorderedValuesContents DEF GetDisorderedValues, Inserting
    <3>2. CASE ScanBucket
      BY <1>1, <3>2, ScanBucketContents DEF ScanBucket, Inserting
    <3>3. CASE NextBucket
      BY <3>3, ContentsUnchanged DEF NextBucket, table, Inserting
    <3>4. CASE DrainHeap
      BY <1>1, <3>4, InsertFromHeapContents DEF DrainHeap, Rehashing, Inserting
    <3>5. CASE FinishRehash
      BY <1>1, <3>5, FinishRehashStep DEF Abstract!Resize, Abstract!vars, Contents, Inserting
    <3> QED BY <1>9, <3>1, <3>2, <3>3, <3>4, <3>5 DEF RehashStep
  <2> QED BY <1>9, <2>1, MapStutters DEF mapVars
<1> QED
  BY <1>2, <1>3, <1>4, <1>5, <1>6, <1>7, <1>8, <1>9 DEF MapNext, AbstractM!Next

\* Every step of a map and of its loops is a step of the function, or none.
LEMMA MapLoopsStep ==
  ASSUME MapInv, Swept', [MapLoopsNext]_allVars
  PROVE  AbstractM!Next \/ UNCHANGED AbstractM!vars
<1>1. /\ Swept /\ NoCallIdle /\ LoopIdle /\ Searchable /\ Shape /\ Shape'
  BY DEF MapInv, Swept, Searchable, Counted
<1>2. CASE UNCHANGED <<vars, assigning>>
  BY <1>2, TableStutters DEF vars, table, scan
<1>3. CASE Start /\ UNCHANGED mapVars
  BY <1>2, <1>3
  DEF Start, StartVisit, StartEraseRange, StartEraseEqual, StartLoop, mapVars
<1>4. ASSUME NEW key \in Keys, EraseMeanwhile(key), UNCHANGED mapVars
      PROVE  AbstractM!Next \/ UNCHANGED AbstractM!vars
  <2>1. EraseKey(key) /\ assigning = {} /\ assigning' = {}
    BY <1>1, <1>4 DEF EraseMeanwhile, LoopIdle, mapVars
  <2> QED BY <1>1, <2>1, EraseKeyIsErase DEF AbstractM!Next
<1>5. ASSUME Running, UNCHANGED <<pc, call, source, mapVars>>
      PROVE  /\ it \in Occupied(buckets_) /\ AtRest /\ AtRest'
             /\ Inserting = {} /\ Inserting' = {} /\ assigning = {} /\ assigning' = {}
  BY <1>1, <1>5 DEF Running, LoopIdle, NoCallIdle, AtRest, Inserting, Idle, mapVars
<1>6. ASSUME NEW t \in Mapped, AssignInLoop(t) PROVE AbstractM!Next
  <2>1. AssignedAt(it, t) /\ Running /\ UNCHANGED <<pc, call, source, mapVars>>
    BY <1>6 DEF AssignInLoop, AssignedAt, scan
  <2>2. /\ KeyAt(it) \in Keys /\ MapOf(Contents)[KeyAt(it)] # NoMapped
        /\ MapOf(Contents') = [MapOf(Contents) EXCEPT ![KeyAt(it)] = t]
    BY <1>1, <1>5, <2>1, AssignedValue
  <2>3. PICK key \in Keys : key = KeyAt(it)
    BY <2>2
  <2>4. AbstractM!AssignInLoop(key, t)
    BY <1>5, <2>1, <2>2, <2>3, AssignInLoopAction
  <2> QED BY <2>4 DEF AbstractM!Next
<1>7. CASE EraseAndAdvance /\ UNCHANGED mapVars
  <2>1. EraseAt(it) /\ Running /\ UNCHANGED <<pc, call, source, mapVars>>
    BY <1>7 DEF EraseAndAdvance, scan
  <2>2. PICK key \in Keys : key = KeyOf[ValueAt(buckets_, it)]
    BY <1>1, <1>5, <2>1, OccupiedValue, ValuesAssumption
  <2>3. Contents' = Contents \ WithKey(key)
    BY <1>1, <1>5, <2>1, <2>2, EraseAtContents
  <2>4. AbstractM!Erase(key)
    BY <1>1, <1>5, <2>1, <2>3, ErasedKey
  <2> QED BY <2>4 DEF AbstractM!Next
<1>8. CASE LoopStep /\ UNCHANGED mapVars
  BY <1>2, <1>7, <1>8 DEF LoopStep, Advance, EndLoop, mapVars
<1>9. CASE UNCHANGED allVars
  BY <1>2, <1>9 DEF allVars, mapVars
<1> QED
  BY <1>3, <1>4, <1>6, <1>8, <1>9, MapNextStep DEF MapLoopsNext

\* A map is a partial function from keys to mapped values: no insert of a key
\* that is there changes its value, no rehash changes any, m[key] = t and
\* it->second = t change one, and an erase, by a call or by a loop, takes one
\* away.
THEOREM MapIsPartialFunction == MapLoopsSpec /\ []DistancesInByte => ImplementsMap
<1>1. MapLoopsInit => AbstractM!Init
  <2> SUFFICES ASSUME MapLoopsInit PROVE AbstractM!Init
    OBVIOUS
  <2>1. DOMAIN NewBuckets(0) = {}
    BY PhysicalRange DEF NewBuckets
  <2>2. Contents = {} /\ call.op # "insert" /\ assigning = {}
    BY <2>1
    DEF MapLoopsInit, MapInit, Init, Idle, Contents, Stored, Constructed, Positions
  <2> QED BY <2>2 DEF AbstractM!Init, Contents
<1>2. MapInv /\ MapInv' /\ [MapLoopsNext]_allVars => [AbstractM!Next]_(AbstractM!vars)
  BY MapLoopsStep DEF MapInv
<1> QED BY <1>1, <1>2, MapInvariant, PTL DEF MapLoopsSpec, ImplementsMap, AbstractM!Spec

-----------------------------------------------------------------------------
(* Small tables *)

\* The invariant, when no distance can outgrow its byte
LEMMA SmallMapInv ==
  ASSUME DistancesFit
  PROVE  MapLoopsSpec => []MapInv
<1>1. MapInv => DistancesInByte
  BY SmallDistances DEF MapInv, Swept, Searchable, Counted
<1>2. MapLoopsInit => MapInv
  BY InitMapInv
<1>3. MapInv /\ DistancesInByte /\ [MapLoopsNext]_allVars => MapInv'
  BY NextMapInv
<1> QED BY <1>1, <1>2, <1>3, PTL DEF MapLoopsSpec

\* A map whose table never has more than 255 buckets is a partial function, and
\* its references are to the pairs they were asked for, without further
\* hypotheses.
THEOREM SmallMapsCorrect ==
  ASSUME DistancesFit
  PROVE  MapLoopsSpec => ImplementsMap /\ []ReferenceToKey
<1>1. MapInv => DistancesInByte
  BY SmallDistances DEF MapInv, Swept, Searchable, Counted
<1> QED BY <1>1, SmallMapInv, MapIsPartialFunction, ReferencesCorrect, PTL

\* With a bucket less, so that no search distance is the sentinel, its loops
\* visit and erase what they should.
THEOREM SmallLoopsCorrect ==
  ASSUME \A n \in 0 .. MaxLogicalSize : PhysicalSize(n) < kSearchDistanceEndSentinal
  PROVE  MapLoopsSpec => [](VisitsAll /\ RangeErased)
<1>1. DistancesFit
  <2>1. \A n \in 0 .. MaxLogicalSize : PhysicalSize(n) \in Nat
    BY PhysicalRange, SizeAssumption
  <2> QED BY <2>1, SizeAssumption DEF DistancesFit
<1>2. MapInv => DistancesInByte
  BY <1>1, SmallDistances DEF MapInv, Swept, Searchable, Counted
<1>3. MapInv => SearchDistancesInRange
  BY SmallDistancesInRange DEF MapInv, Swept, Searchable, Counted
<1> QED BY <1>1, <1>2, <1>3, SmallMapInv, LoopsCorrect, PTL
=============================================================================
