---------------------------- MODULE OlpSpikeProofs ----------------------------
(***************************************************************************)
(* What Olp::Validate() asserts holds for any capacity, any numbers and    *)
(* any sequence of calls (paper/experiments/olp-spike.cc).                 *)
(*                                                                         *)
(* Order alone is not inductive: that a value may be put down in an empty  *)
(* slot says nothing about the slots behind it, unless no empty slot lies  *)
(* between a value and the slot it prefers.                                *)
(***************************************************************************)
EXTENDS OlpHover, FiniteSetTheorems, WellFoundedInduction, TLAPS

Number == 0 .. HashSpace - 1

Array(s) == \E n \in Nat : n >= nominal_capacity_ /\ s \in [0 .. n - 1 -> Slot]

OrderedSlots(s) ==
  \A j, k \in DOMAIN s :
    j < k /\ ~IsEmpty(s, j) /\ ~IsEmpty(s, k) => s[j].value < s[k].value

\* From the slot a value or tombstone prefers to where it is, no slot is empty.
Gapless(s) ==
  \A k \in DOMAIN s : ~IsEmpty(s, k) =>
    /\ H1(s[k].value) <= k
    /\ \A j \in H1(s[k].value) .. k : ~IsEmpty(s, j)

\* The insert in progress has passed smaller values only, and no empty slot.
LoopInv ==
  /\ pc \in {"idle", "insert", "aborted"}
  /\ pc = "insert" =>
       /\ v \in Number /\ index \in Nat /\ H1(v) <= index
       /\ \A j \in 0 .. index - 1 : j \in DOMAIN slots_
       /\ \A j \in H1(v) .. index - 1 : ~IsEmpty(slots_, j)
       /\ \A j \in DOMAIN slots_ : j < index /\ ~IsEmpty(slots_, j) => slots_[j].value < v

ArrayInv == Array(slots_) /\ OrderedSlots(slots_) /\ Gapless(slots_)

CountInv ==
  /\ IsFiniteSet(Present(slots_))
  /\ size_ = Cardinality(Present(slots_))

OlpInv == ArrayInv /\ LoopInv /\ CountInv

-----------------------------------------------------------------------------
(* H1 *)

\* H1 picks a slot of the array as it was constructed.
LEMMA H1Range ==
  ASSUME NEW x \in Number
  PROVE  H1(x) \in 0 .. nominal_capacity_ - 1
<1> DEFINE n == nominal_capacity_
<1> DEFINE m == HashSpace
<1>1. n \in Nat \ {0} /\ m \in Nat \ {0} /\ x \in 0 .. m - 1
  BY CapacityAssumption DEF Number
<1> HIDE DEF n, m
<1>2. x * n \in Nat /\ x * n < m * n
  BY <1>1
<1>3. PICK q \in Int : q = (x * n) \div m
  BY <1>1
<1>4. m * q <= x * n /\ x * n < m * q + m
  BY <1>1, <1>3
<1>5. q >= 0
  BY <1>1, <1>2, <1>4
<1>6. q < n
  BY <1>1, <1>2, <1>4
<1>7. (x * n) \div m \in 0 .. n - 1
  BY <1>1, <1>3, <1>5, <1>6
<1> QED BY <1>7 DEF H1, n, m

\* H1 keeps the order of values: slots in value order are in hash order.
LEMMA H1Monotone ==
  ASSUME NEW x \in Number, NEW y \in Number, x <= y
  PROVE  H1(x) <= H1(y)
<1> DEFINE n == nominal_capacity_
<1> DEFINE m == HashSpace
<1>1. n \in Nat \ {0} /\ m \in Nat \ {0} /\ x \in Nat /\ y \in Nat
  BY CapacityAssumption DEF Number
<1> HIDE DEF n, m
<1>2. x * n \in Nat /\ y * n \in Nat /\ x * n <= y * n
  BY <1>1
<1>3. PICK q \in Int : q = (x * n) \div m
  BY <1>1
<1>4. PICK r \in Int : r = (y * n) \div m
  BY <1>1
<1>5. m * q <= x * n /\ y * n < m * r + m
  BY <1>1, <1>2, <1>3, <1>4
<1>6. m * q < m * (r + 1)
  BY <1>1, <1>2, <1>5
<1>7. q <= r
  BY <1>1, <1>6
<1> QED BY <1>3, <1>4, <1>7 DEF H1, n, m

\* A value that prefers a later slot is larger.
LEMMA LaterIsLarger ==
  ASSUME NEW x \in Number, NEW y \in Number, H1(x) < H1(y)
  PROVE  x < y
<1>1. H1(x) \in Int /\ H1(y) \in Int
  BY H1Range
<1>2. CASE y <= x
  BY <1>1, <1>2, H1Monotone
<1> QED BY <1>2 DEF Number

-----------------------------------------------------------------------------
(* Arrays of slots *)

\* What is in a slot.
LEMMA SlotValues ==
  ASSUME NEW s, Array(s), NEW k \in DOMAIN s
  PROVE  /\ k \in Nat
         /\ s[k] \in Slot
         /\ s[k].tag \in {"empty", "present", "tombstone"}
         /\ s[k].value \in Number
         /\ H1(s[k].value) \in Nat
<1>1. PICK n \in Nat : s \in [0 .. n - 1 -> Slot]
  BY DEF Array
<1>2. k \in Nat /\ s[k] \in Slot
  BY <1>1
<1>3. 0 \in Number
  BY CapacityAssumption DEF Number
<1>4. s[k].tag \in {"empty", "present", "tombstone"} /\ s[k].value \in Number
  BY <1>2, <1>3 DEF Slot, EmptySlot, Number
<1> QED BY <1>2, <1>4, H1Range

\* Behind an empty slot there are only values that prefer a later one.
LEMMA BehindEmpty ==
  ASSUME NEW s, Array(s), Gapless(s), NEW j \in Nat, IsEmpty(s, j),
         NEW k \in DOMAIN s, j < k, ~IsEmpty(s, k)
  PROVE  j < H1(s[k].value)
<1>1. k \in Nat /\ H1(s[k].value) \in Nat
  BY SlotValues
<1>2. \A m \in H1(s[k].value) .. k : ~IsEmpty(s, m)
  BY DEF Gapless
<1> QED BY <1>1, <1>2

\* x is put into slot k, which may be the one after the last.
LEMMA PutKeepsOrder ==
  ASSUME NEW s, Array(s), OrderedSlots(s), Gapless(s),
         NEW x \in Number, NEW k \in Nat, H1(x) <= k,
         \A j \in 0 .. k - 1 : j \in DOMAIN s,
         \A j \in H1(x) .. k - 1 : ~IsEmpty(s, j),
         \A j \in DOMAIN s : j < k /\ ~IsEmpty(s, j) => s[j].value < x,
         \A j \in DOMAIN s : k < j /\ ~IsEmpty(s, j) => x < s[j].value,
         NEW t, t = [j \in DOMAIN s \cup {k} |-> IF j = k THEN PresentSlot(x) ELSE s[j]]
  PROVE  Array(t) /\ OrderedSlots(t) /\ Gapless(t)
<1>1. PICK n \in Nat : n >= nominal_capacity_ /\ s \in [0 .. n - 1 -> Slot]
  BY DEF Array
<1>2. DOMAIN s = 0 .. n - 1 /\ k <= n
  <2>1. DOMAIN s = 0 .. n - 1
    BY <1>1
  <2>2. CASE k > n
    <3>1. n \in 0 .. k - 1
      BY <2>2
    <3> QED BY <2>1, <3>1
  <2> QED BY <2>1, <2>2
<1>3. PresentSlot(x) \in Slot
  BY DEF PresentSlot, Slot, Number
<1>4. /\ DOMAIN t = DOMAIN s \cup {k}
      /\ t[k] = PresentSlot(x)
      /\ \A j \in DOMAIN s : j # k => t[j] = s[j]
  OBVIOUS
<1>5. Array(t)
  <2>1. CASE k < n
    <3>1. DOMAIN s \cup {k} = 0 .. n - 1
      BY <1>2, <2>1
    <3>2. t \in [0 .. n - 1 -> Slot]
      BY <1>1, <1>2, <1>3, <3>1
    <3> QED BY <1>1, <3>2 DEF Array
  <2>2. CASE k = n
    <3>1. DOMAIN s \cup {k} = 0 .. (n + 1) - 1
      BY <1>2, <2>2
    <3>2. t \in [0 .. (n + 1) - 1 -> Slot]
      BY <1>1, <1>2, <1>3, <3>1
    <3>3. n + 1 \in Nat /\ n + 1 >= nominal_capacity_
      BY <1>1, CapacityAssumption
    <3> QED BY <3>2, <3>3 DEF Array
  <2> QED BY <1>2, <2>1, <2>2
<1>6. /\ ~IsEmpty(t, k) /\ t[k].value = x
      /\ \A j \in Nat : ~IsEmpty(s, j) => ~IsEmpty(t, j)
      /\ \A j \in DOMAIN t : j # k => (IsEmpty(t, j) <=> IsEmpty(s, j))
  BY <1>4 DEF IsEmpty, PresentSlot
<1>7. OrderedSlots(t)
  <2> SUFFICES ASSUME NEW i1 \in DOMAIN t, NEW i2 \in DOMAIN t,
                      i1 < i2, ~IsEmpty(t, i1), ~IsEmpty(t, i2)
               PROVE  t[i1].value < t[i2].value
    BY DEF OrderedSlots
  <2>1. i1 \in Nat /\ i2 \in Nat
    BY <1>2, <1>4
  <2>2. CASE i1 = k
    BY <1>4, <1>6, <2>1, <2>2
  <2>3. CASE i2 = k
    BY <1>4, <1>6, <2>1, <2>3
  <2>4. CASE i1 # k /\ i2 # k
    BY <1>4, <1>6, <2>4 DEF OrderedSlots
  <2> QED BY <2>2, <2>3, <2>4
<1>8. Gapless(t)
  <2> SUFFICES ASSUME NEW j \in DOMAIN t, ~IsEmpty(t, j)
               PROVE  /\ H1(t[j].value) <= j
                      /\ \A m \in H1(t[j].value) .. j : ~IsEmpty(t, m)
    BY DEF Gapless
  <2>0. H1(x) \in Nat
    BY H1Range
  <2>1. CASE j = k
    <3>1. t[j].value = x
      BY <1>6, <2>1
    <3>2. \A m \in H1(x) .. k : m \in Nat /\ (m = k \/ m \in H1(x) .. k - 1)
      BY <2>0
    <3> QED BY <1>6, <2>1, <3>1, <3>2
  <2>2. CASE j # k
    <3>1. j \in DOMAIN s /\ ~IsEmpty(s, j) /\ t[j] = s[j]
      BY <1>4, <1>6, <2>2
    <3>2. H1(s[j].value) \in Nat
      BY <3>1, SlotValues
    <3>3. /\ H1(s[j].value) <= j
          /\ \A m \in H1(s[j].value) .. j : ~IsEmpty(s, m)
      BY <3>1 DEF Gapless
    <3> QED BY <1>6, <3>1, <3>2, <3>3
  <2> QED BY <2>1, <2>2
<1> QED BY <1>5, <1>7, <1>8

\* Slot k holds a value that no value behind it needs to pass; it becomes empty.
LEMMA EmptyKeepsOrder ==
  ASSUME NEW s, Array(s), OrderedSlots(s), Gapless(s),
         NEW k \in DOMAIN s, ~IsEmpty(s, k),
         IsEmpty(s, k + 1) \/ H1(s[k + 1].value) = k + 1,
         NEW t, t = [s EXCEPT ![k] = EmptySlot]
  PROVE  Array(t) /\ OrderedSlots(t) /\ Gapless(t)
<1>1. PICK n \in Nat : n >= nominal_capacity_ /\ s \in [0 .. n - 1 -> Slot]
  BY DEF Array
<1>2. /\ DOMAIN t = DOMAIN s /\ DOMAIN s = 0 .. n - 1
      /\ t[k] = EmptySlot
      /\ \A j \in DOMAIN s : j # k => t[j] = s[j]
  BY <1>1
<1>3. t \in [0 .. n - 1 -> Slot]
  BY <1>1 DEF Slot
<1>4. Array(t)
  BY <1>1, <1>3 DEF Array
<1>5. IsEmpty(t, k) /\ \A j \in Nat : j # k => (IsEmpty(t, j) <=> IsEmpty(s, j))
  BY <1>2 DEF IsEmpty, EmptySlot
<1>6. ASSUME NEW j \in DOMAIN s, ~IsEmpty(t, j)
      PROVE  j \in Nat /\ j # k /\ ~IsEmpty(s, j) /\ t[j] = s[j]
  <2>1. j \in Nat /\ j # k
    BY <1>2, <1>5, <1>6
  <2> QED BY <1>2, <1>5, <1>6, <2>1
<1>7. OrderedSlots(t)
  BY <1>2, <1>6 DEF OrderedSlots
<1>8. Gapless(t)
  <2> SUFFICES ASSUME NEW j \in DOMAIN s, ~IsEmpty(t, j)
               PROVE  /\ H1(t[j].value) <= j
                      /\ \A m \in H1(t[j].value) .. j : ~IsEmpty(t, m)
    BY <1>2 DEF Gapless
  <2>1. j \in Nat /\ j # k /\ ~IsEmpty(s, j) /\ t[j] = s[j] /\ H1(s[j].value) \in Nat
    BY <1>6, SlotValues
  <2>2. H1(s[j].value) <= j /\ \A m \in H1(s[j].value) .. j : ~IsEmpty(s, m)
    BY <2>1 DEF Gapless
  <2>3. k < j => k < H1(s[j].value)
    <3> SUFFICES ASSUME k < j PROVE k < H1(s[j].value)
      OBVIOUS
    <3>0. k \in Nat /\ k + 1 \in DOMAIN s
      BY <1>2, <2>1
    <3>1. CASE IsEmpty(s, k + 1)
      <4>1. k + 1 < j
        BY <2>1, <3>0, <3>1
      <4> QED BY <2>1, <3>0, <3>1, <4>1, BehindEmpty
    <3>2. CASE ~IsEmpty(s, k + 1)
      <4>1. H1(s[k + 1].value) = k + 1
        BY <3>2
      <4>2. s[k + 1].value <= s[j].value
        <5>1. CASE k + 1 = j
          BY <5>1, <2>1, SlotValues DEF Number
        <5>2. CASE k + 1 < j
          <6>1. s[k + 1].value < s[j].value
            BY <5>2, <2>1, <3>0, <3>2 DEF OrderedSlots
          <6> QED BY <6>1, <3>0, SlotValues DEF Number
        <5> QED BY <3>0, <2>1, <5>1, <5>2
      <4>3. H1(s[k + 1].value) <= H1(s[j].value)
        BY <4>2, <3>0, SlotValues, H1Monotone
      <4> QED BY <2>1, <3>0, <4>1, <4>3
    <3> QED BY <3>1, <3>2
  <2>4. \A m \in H1(s[j].value) .. j : m \in Nat /\ m # k
    BY <1>2, <2>1, <2>3
  <2> QED BY <1>5, <2>1, <2>2, <2>4
<1> QED BY <1>4, <1>7, <1>8

\* The value in slot k becomes a tombstone.
LEMMA TombstoneKeepsOrder ==
  ASSUME NEW s, Array(s), OrderedSlots(s), Gapless(s),
         NEW k \in DOMAIN s, ~IsEmpty(s, k),
         NEW t, t = [s EXCEPT ![k] = [@ EXCEPT !.tag = "tombstone"]]
  PROVE  Array(t) /\ OrderedSlots(t) /\ Gapless(t)
<1>1. PICK n \in Nat : n >= nominal_capacity_ /\ s \in [0 .. n - 1 -> Slot]
  BY DEF Array
<1>2. s[k].tag # "empty"
  BY DEF IsEmpty
<1>3. s[k] \in [tag : {"present", "tombstone"}, value : Number]
  BY <1>1, <1>2 DEF Slot, EmptySlot, Number
<1>4. t[k] = [tag |-> "tombstone", value |-> s[k].value]
  BY <1>1, <1>3
<1>5. t[k] \in Slot
  BY <1>3, <1>4 DEF Slot, Number
<1>6. DOMAIN t = DOMAIN s /\ \A j \in DOMAIN s : j # k => t[j] = s[j]
  BY <1>1
<1>7. Array(t)
  <2>1. t \in [0 .. n - 1 -> Slot]
    BY <1>1, <1>5
  <2> QED BY <1>1, <2>1 DEF Array
<1>8. \A j \in DOMAIN s : t[j].value = s[j].value
  BY <1>4, <1>6
<1>9. \A j \in Int : IsEmpty(t, j) <=> IsEmpty(s, j)
  BY <1>2, <1>4, <1>6 DEF IsEmpty
<1>10. \A j \in DOMAIN s : j \in Int /\ H1(s[j].value) \in Int
  BY SlotValues
<1>11. OrderedSlots(t)
  BY <1>6, <1>8, <1>9, <1>10 DEF OrderedSlots
<1>12. Gapless(t)
  <2> SUFFICES ASSUME NEW j \in DOMAIN s, ~IsEmpty(t, j)
               PROVE  /\ H1(t[j].value) <= j
                      /\ \A m \in H1(t[j].value) .. j : ~IsEmpty(t, m)
    BY <1>6 DEF Gapless
  <2>1. t[j].value = s[j].value /\ ~IsEmpty(s, j) /\ H1(s[j].value) \in Int /\ j \in Int
    BY <1>8, <1>9, <1>10
  <2>2. H1(s[j].value) <= j /\ \A m \in H1(s[j].value) .. j : ~IsEmpty(s, m)
    BY <2>1 DEF Gapless
  <2>3. ASSUME NEW m \in H1(s[j].value) .. j
        PROVE  ~IsEmpty(t, m)
    <3>1. m \in Int
      BY <2>1
    <3> QED BY <1>9, <2>2, <3>1
  <2>4. H1(t[j].value) = H1(s[j].value)
    BY <2>1
  <2> QED BY <2>2, <2>3, <2>4
<1> QED BY <1>7, <1>11, <1>12

\* A table has finitely many values.
LEMMA PresentFinite ==
  ASSUME NEW s, Array(s)
  PROVE  IsFiniteSet(Present(s))
<1>1. PICK n \in Nat : s \in [0 .. n - 1 -> Slot]
  BY DEF Array
<1>2. IsFiniteSet(0 .. n - 1)
  BY FS_Interval
<1>3. Present(s) \subseteq 0 .. n - 1
  BY <1>1 DEF Present
<1> QED BY <1>2, <1>3, FS_Subset

-----------------------------------------------------------------------------
(* The calls *)

\* Before the first call every slot is empty.
LEMMA InitEstablishes == Init => OlpInv
<1> SUFFICES ASSUME Init PROVE OlpInv
  OBVIOUS
<1>1. slots_ \in [0 .. nominal_capacity_ - 1 -> Slot]
  BY DEF Init, Slot
<1>2. Array(slots_)
  BY <1>1, CapacityAssumption DEF Array
<1>3. \A j \in DOMAIN slots_ : IsEmpty(slots_, j)
  BY DEF Init, IsEmpty, EmptySlot
<1>4. ArrayInv
  BY <1>2, <1>3 DEF ArrayInv, OrderedSlots, Gapless
<1>5. Present(slots_) = {}
  BY DEF Init, Present, EmptySlot
<1>6. CountInv
  BY <1>5, FS_EmptySet DEF Init, CountInv
<1> QED BY <1>4, <1>6 DEF OlpInv, LoopInv, Init

\* insert(x) begins at the slot that x prefers: smaller ones only are before it.
LEMMA InsertKeeps ==
  ASSUME OlpInv, NEW x \in Values, Insert(x)
  PROVE  OlpInv'
<1>1. UNCHANGED <<size_, slots_>>
  BY DEF Insert
<1>2. ArrayInv'
  BY <1>1 DEF OlpInv, ArrayInv, Array, OrderedSlots, Gapless, IsEmpty, H1
<1>3. CountInv'
  BY <1>1 DEF OlpInv, CountInv, Present
<1>4. LoopInv'
  <2>1. CASE pc' = "aborted"
    BY <2>1 DEF LoopInv
  <2>2. CASE pc' = "insert"
    <3>1. v' = x /\ index' = H1(x) /\ x \in Number
      BY <2>2, CapacityAssumption DEF Insert, Number
    <3>2. H1(x) \in 0 .. nominal_capacity_ - 1
      BY <3>1, H1Range
    <3>3. PICK n \in Nat : n >= nominal_capacity_ /\ slots_ \in [0 .. n - 1 -> Slot]
      BY DEF OlpInv, ArrayInv, Array
    <3>4. \A j \in 0 .. H1(x) - 1 : j \in DOMAIN slots_
      BY <3>2, <3>3, CapacityAssumption
    <3>5. \A j \in H1(x) .. H1(x) - 1 : ~IsEmpty(slots_, j)
      BY <3>2
    <3>6. ASSUME NEW j \in DOMAIN slots_, j < H1(x), ~IsEmpty(slots_, j)
          PROVE  slots_[j].value < x
      <4>1. j \in Nat /\ slots_[j].value \in Number /\ H1(slots_[j].value) \in Nat
        BY SlotValues DEF OlpInv, ArrayInv
      <4>2. H1(slots_[j].value) <= j
        BY <3>6 DEF OlpInv, ArrayInv, Gapless
      <4> QED BY <3>1, <3>2, <3>6, <4>1, <4>2, LaterIsLarger
    <3>7. H1(v') = H1(x) /\ H1(v)' = H1(x)
      BY <3>1 DEF H1
    <3>8. slots_' = slots_
      BY <1>1
    <3>9. H1(x) \in Nat /\ H1(x) <= H1(x)
      BY <3>2
    <3> QED BY <2>2, <3>1, <3>4, <3>5, <3>6, <3>7, <3>8, <3>9 DEF LoopInv, IsEmpty
  <2> QED BY <2>1, <2>2 DEF Insert
<1> QED BY <1>2, <1>3, <1>4 DEF OlpInv

\* Where the carried value is put down, or exchanged with a larger one, all that
\* follows is larger.
LEMMA RestIsLarger ==
  ASSUME OlpInv, pc = "insert",
         \/ IsEmpty(slots_, index)
         \/ index \in Tombstones(slots_) /\ TombstoneUsable
         \/ index \in Present(slots_) /\ v < slots_[index].value,
         NEW j \in DOMAIN slots_, index < j, ~IsEmpty(slots_, j)
  PROVE  v < slots_[j].value
<1>1. /\ v \in Number /\ index \in Nat /\ H1(v) <= index /\ H1(v) \in Nat
  BY H1Range DEF OlpInv, LoopInv
<1>2. Array(slots_) /\ OrderedSlots(slots_) /\ Gapless(slots_)
  BY DEF OlpInv, ArrayInv
<1>3. j \in Nat /\ slots_[j].value \in Number /\ H1(slots_[j].value) \in Nat
  BY <1>2, SlotValues
<1>4. ASSUME NEW k \in Nat, index <= k, k < j, IsEmpty(slots_, k)
      PROVE  v < slots_[j].value
  <2>1. k < H1(slots_[j].value)
    BY <1>2, <1>4, BehindEmpty
  <2> QED BY <1>1, <1>3, <1>4, <2>1, LaterIsLarger
<1>5. CASE IsEmpty(slots_, index)
  BY <1>1, <1>4, <1>5
<1>6. ASSUME index \in DOMAIN slots_, ~IsEmpty(slots_, index), v <= slots_[index].value
      PROVE  v < slots_[j].value
  <2>1. slots_[index].value < slots_[j].value
    BY <1>2, <1>6 DEF OrderedSlots
  <2>2. slots_[index].value \in Number
    BY <1>2, <1>6, SlotValues
  <2> QED BY <1>1, <1>3, <1>6, <2>1, <2>2 DEF Number
<1>7. CASE index \in Present(slots_) /\ v < slots_[index].value
  <2>1. index \in DOMAIN slots_ /\ ~IsEmpty(slots_, index)
    BY <1>7 DEF Present, IsEmpty
  <2>2. slots_[index].value \in Number
    BY <1>2, <2>1, SlotValues
  <2>3. v <= slots_[index].value
    BY <1>1, <1>7, <2>2 DEF Number
  <2> QED BY <1>6, <2>1, <2>3
<1>8. CASE index \in Tombstones(slots_) /\ TombstoneUsable
  <2>1. index \in DOMAIN slots_ /\ ~IsEmpty(slots_, index)
    BY <1>8 DEF Tombstones, IsEmpty
  <2>2. slots_[index].value \in Number
    BY <1>2, <2>1, SlotValues
  <2>3. CASE v <= slots_[index].value
    BY <1>6, <2>1, <2>3
  <2>4. CASE IsEmpty(slots_, index + 1)
    <3>1. index + 1 < j
      BY <1>1, <1>3, <2>4
    <3> QED BY <1>1, <1>4, <2>4, <3>1
  <2>5. CASE v > slots_[index].value /\ ~IsEmpty(slots_, index + 1)
    <3>1. slots_[index + 1].value > v
      BY <1>8, <2>5 DEF TombstoneUsable
    <3>2. index + 1 \in DOMAIN slots_
      BY <2>5 DEF IsEmpty
    <3>3. slots_[index + 1].value \in Number
      BY <1>2, <3>2, SlotValues
    <3>4. CASE index + 1 = j
      BY <1>1, <1>3, <3>1, <3>4 DEF Number
    <3>5. CASE index + 1 < j
      <4>1. slots_[index + 1].value < slots_[j].value
        BY <1>2, <2>5, <3>2, <3>5 DEF OrderedSlots
      <4> QED BY <1>1, <1>3, <3>1, <3>3, <4>1 DEF Number
    <3> QED BY <1>1, <1>3, <3>4, <3>5
  <2> QED BY <1>1, <2>2, <2>3, <2>4, <2>5 DEF Number
<1> QED BY <1>5, <1>7, <1>8

\* The loop puts the value it carries into slot index.
LEMMA PutKeepsArray ==
  ASSUME OlpInv, pc = "insert",
         \/ IsEmpty(slots_, index)
         \/ index \in Tombstones(slots_) /\ TombstoneUsable
         \/ index \in Present(slots_) /\ v < slots_[index].value,
         slots_' = [j \in DOMAIN slots_ \cup {index} |->
                      IF j = index THEN PresentSlot(v) ELSE slots_[j]]
  PROVE  ArrayInv'
<1>1. /\ Array(slots_) /\ OrderedSlots(slots_) /\ Gapless(slots_)
      /\ v \in Number /\ index \in Nat /\ H1(v) <= index
      /\ \A j \in 0 .. index - 1 : j \in DOMAIN slots_
      /\ \A j \in H1(v) .. index - 1 : ~IsEmpty(slots_, j)
      /\ \A j \in DOMAIN slots_ : j < index /\ ~IsEmpty(slots_, j) => slots_[j].value < v
  BY DEF OlpInv, ArrayInv, LoopInv
<1>2. \A j \in DOMAIN slots_ : index < j /\ ~IsEmpty(slots_, j) => v < slots_[j].value
  BY RestIsLarger
<1>3. \A t : t = [j \in DOMAIN slots_ \cup {index} |->
                    IF j = index THEN PresentSlot(v) ELSE slots_[j]]
              => Array(t) /\ OrderedSlots(t) /\ Gapless(t)
  BY <1>1, <1>2, PutKeepsOrder
<1>4. Array(slots_') /\ OrderedSlots(slots_') /\ Gapless(slots_')
  BY <1>3
<1> QED BY <1>4 DEF ArrayInv, Array, OrderedSlots, Gapless, IsEmpty, H1

\* The value is put down in an empty slot or over a tombstone: one more.
LEMMA FillSlotKeeps ==
  ASSUME OlpInv, FillSlot
  PROVE  OlpInv'
<1>1. /\ pc = "insert"
      /\ \/ IsEmpty(slots_, index)
         \/ index \in Tombstones(slots_) /\ TombstoneUsable
      /\ slots_' = [WithSlot EXCEPT ![index] = PresentSlot(v)]
      /\ size_' = size_ + 1
      /\ pc' = "idle"
  BY DEF FillSlot, Return
<1>2. slots_' = [j \in DOMAIN slots_ \cup {index} |->
                   IF j = index THEN PresentSlot(v) ELSE slots_[j]]
  BY <1>1 DEF WithSlot
<1>3. ArrayInv'
  BY <1>1, <1>2, PutKeepsArray
<1>4. index \notin Present(slots_)
  BY <1>1 DEF IsEmpty, Tombstones, Present
<1>5. Present(slots_)' = Present(slots_) \cup {index}
  BY <1>2 DEF Present, PresentSlot
<1>6. CountInv'
  BY <1>1, <1>4, <1>5, FS_AddElement DEF OlpInv, CountInv
<1>7. LoopInv'
  BY <1>1 DEF LoopInv
<1> QED BY <1>3, <1>6, <1>7 DEF OlpInv

\* Finding the value changes nothing.
LEMMA FindSameKeeps ==
  ASSUME OlpInv, FindSame
  PROVE  OlpInv'
<1>1. pc' = "idle" /\ UNCHANGED <<size_, slots_>>
  BY DEF FindSame, Return
<1>2. ArrayInv' /\ CountInv'
  BY <1>1 DEF OlpInv, ArrayInv, Array, OrderedSlots, Gapless, IsEmpty, H1, CountInv, Present
<1>3. LoopInv'
  BY <1>1 DEF LoopInv
<1> QED BY <1>2, <1>3 DEF OlpInv

\* Passing a smaller value, or leaving v in the place of a larger one, which
\* the loop carries on.
LEMMA PassPresentKeeps ==
  ASSUME OlpInv, PassPresent
  PROVE  OlpInv'
<1>1. /\ pc = "insert" /\ pc' = "insert" /\ size_' = size_
      /\ index \in Present(slots_) /\ slots_[index].value # v
      /\ index' = index + 1
  BY DEF PassPresent
<1>2. /\ Array(slots_) /\ OrderedSlots(slots_) /\ Gapless(slots_)
      /\ v \in Number /\ index \in Nat /\ H1(v) <= index /\ H1(v) \in Nat
      /\ \A j \in 0 .. index - 1 : j \in DOMAIN slots_
      /\ \A j \in H1(v) .. index - 1 : ~IsEmpty(slots_, j)
      /\ \A j \in DOMAIN slots_ : j < index /\ ~IsEmpty(slots_, j) => slots_[j].value < v
  BY <1>1, H1Range DEF OlpInv, ArrayInv, LoopInv
<1> DEFINE w == slots_[index].value
<1>3. index \in DOMAIN slots_ /\ slots_[index].tag = "present" /\ ~IsEmpty(slots_, index)
  BY <1>1 DEF Present, IsEmpty
<1>4. w \in Number /\ H1(w) \in Nat /\ slots_[index] \in Slot
  BY <1>2, <1>3, SlotValues
<1>5. H1(w) <= index /\ \A j \in H1(w) .. index : ~IsEmpty(slots_, j)
  BY <1>2, <1>3 DEF Gapless
<1>6. \A j \in DOMAIN slots_ : j \in Nat /\ slots_[j].value \in Number
  BY <1>2, SlotValues
<1>7. \A j \in 0 .. index : j \in DOMAIN slots_
  BY <1>2, <1>3
<1>8. CASE v < w
  <2>1. v' = w /\ slots_' = [slots_ EXCEPT ![index].value = v]
    BY <1>8 DEF PassPresent
  <2>2. [slots_[index] EXCEPT !.value = v] = PresentSlot(v)
    BY <1>3, <1>4 DEF PresentSlot, Slot, EmptySlot
  <2>3. slots_' = [j \in DOMAIN slots_ \cup {index} |->
                     IF j = index THEN PresentSlot(v) ELSE slots_[j]]
    BY <1>2, <1>3, <2>1, <2>2 DEF Array
  <2>4. ArrayInv'
    BY <1>1, <1>8, <2>3, PutKeepsArray
  <2>5. Present(slots_)' = Present(slots_)
    BY <1>1, <1>3, <2>3 DEF Present, PresentSlot
  <2>6. CountInv'
    BY <1>1, <2>5 DEF OlpInv, CountInv
  <2>7. /\ DOMAIN slots_' = DOMAIN slots_
        /\ slots_'[index] = PresentSlot(v)
        /\ \A j \in DOMAIN slots_ : j # index => slots_'[j] = slots_[j]
    BY <1>3, <2>3
  <2>8. \A j \in Int : IsEmpty(slots_', j) <=> IsEmpty(slots_, j)
    BY <1>3, <2>7 DEF IsEmpty, PresentSlot
  <2>9. \A j \in H1(w) .. index : ~IsEmpty(slots_', j)
    BY <1>2, <1>4, <1>5, <2>8
  <2>10. ASSUME NEW j \in DOMAIN slots_, j < index + 1, ~IsEmpty(slots_', j)
         PROVE  slots_'[j].value < w
    <3>1. CASE j = index
      BY <1>8, <2>7, <3>1 DEF PresentSlot
    <3>2. CASE j # index
      <4>1. j < index /\ slots_'[j] = slots_[j] /\ ~IsEmpty(slots_, j)
        BY <1>2, <1>6, <2>7, <2>8, <2>10, <3>2
      <4>2. slots_[j].value < v
        BY <1>2, <4>1
      <4> QED BY <1>2, <1>4, <1>6, <1>8, <4>1, <4>2 DEF Number
    <3> QED BY <3>1, <3>2
  <2>11. H1(v)' = H1(w)
    BY <2>1 DEF H1
  <2>12. /\ index + 1 \in Nat /\ H1(w) <= index + 1
         /\ 0 .. (index + 1) - 1 = 0 .. index
         /\ H1(w) .. (index + 1) - 1 = H1(w) .. index
    BY <1>2, <1>4, <1>5
  <2>13. /\ \A j \in 0 .. index' - 1 : j \in DOMAIN slots_'
         /\ \A j \in H1(w) .. index' - 1 : ~IsEmpty(slots_', j)
         /\ \A j \in DOMAIN slots_' : j < index' /\ ~IsEmpty(slots_', j) => slots_'[j].value < v'
    BY <1>1, <1>7, <2>1, <2>7, <2>9, <2>10, <2>12
  <2>14. LoopInv'
    BY <1>1, <1>4, <2>1, <2>11, <2>12, <2>13 DEF LoopInv, IsEmpty
  <2> QED BY <2>4, <2>6, <2>14 DEF OlpInv
<1>9. CASE ~(v < w)
  <2>1. v' = v /\ slots_' = slots_
    BY <1>9 DEF PassPresent
  <2>2. w < v
    BY <1>1, <1>2, <1>4, <1>9 DEF Number
  <2>3. ArrayInv' /\ CountInv'
    BY <1>1, <2>1
       DEF OlpInv, ArrayInv, Array, OrderedSlots, Gapless, IsEmpty, H1, CountInv, Present
  <2>4. /\ index + 1 \in Nat /\ H1(v) <= index + 1
        /\ \A j \in 0 .. (index + 1) - 1 : j \in DOMAIN slots_
        /\ \A j \in H1(v) .. (index + 1) - 1 : j = index \/ j \in H1(v) .. index - 1
        /\ \A j \in DOMAIN slots_ : j < index + 1 => j = index \/ j < index
    BY <1>2, <1>6, <1>7
  <2>5. /\ \A j \in H1(v) .. (index + 1) - 1 : ~IsEmpty(slots_, j)
        /\ \A j \in DOMAIN slots_ :
             j < index + 1 /\ ~IsEmpty(slots_, j) => slots_[j].value < v
    BY <1>2, <1>3, <2>2, <2>4
  <2>6. LoopInv'
    BY <1>1, <1>2, <2>1, <2>4, <2>5 DEF LoopInv, IsEmpty, H1
  <2> QED BY <2>3, <2>6 DEF OlpInv
<1> QED BY <1>8, <1>9

\* A tombstone is passed only if it and the slot behind it hold smaller values.
LEMMA PassTombstoneKeeps ==
  ASSUME OlpInv, PassTombstone
  PROVE  OlpInv'
<1>1. /\ pc = "insert" /\ pc' = "insert" /\ size_' = size_ /\ slots_' = slots_ /\ v' = v
      /\ index \in Tombstones(slots_) /\ ~TombstoneUsable
      /\ index' = index + 1
  BY DEF PassTombstone
<1>2. /\ Array(slots_)
      /\ v \in Number /\ index \in Nat /\ H1(v) <= index /\ H1(v) \in Nat
      /\ \A j \in 0 .. index - 1 : j \in DOMAIN slots_
      /\ \A j \in H1(v) .. index - 1 : ~IsEmpty(slots_, j)
      /\ \A j \in DOMAIN slots_ : j < index /\ ~IsEmpty(slots_, j) => slots_[j].value < v
  BY <1>1, H1Range DEF OlpInv, ArrayInv, LoopInv
<1>3. index \in DOMAIN slots_ /\ ~IsEmpty(slots_, index)
  BY <1>1 DEF Tombstones, IsEmpty
<1>4. slots_[index].value < v
  <2>1. slots_[index].value \in Number
    BY <1>2, <1>3, SlotValues
  <2>2. v > slots_[index].value
    BY <1>1 DEF TombstoneUsable
  <2> QED BY <1>2, <2>1, <2>2 DEF Number
<1>5. ArrayInv' /\ CountInv'
  BY <1>1 DEF OlpInv, ArrayInv, Array, OrderedSlots, Gapless, IsEmpty, H1, CountInv, Present
<1>6. \A j \in DOMAIN slots_ : j \in Nat
  BY <1>2, SlotValues
<1>7. /\ index + 1 \in Nat /\ H1(v) <= index + 1
      /\ \A j \in 0 .. (index + 1) - 1 : j = index \/ j \in 0 .. index - 1
      /\ \A j \in H1(v) .. (index + 1) - 1 : j = index \/ j \in H1(v) .. index - 1
      /\ \A j \in DOMAIN slots_ : j < index + 1 => j = index \/ j < index
  BY <1>2, <1>6
<1>8. /\ \A j \in 0 .. (index + 1) - 1 : j \in DOMAIN slots_
      /\ \A j \in H1(v) .. (index + 1) - 1 : ~IsEmpty(slots_, j)
      /\ \A j \in DOMAIN slots_ :
           j < index + 1 /\ ~IsEmpty(slots_, j) => slots_[j].value < v
  BY <1>2, <1>3, <1>4, <1>7
<1>9. LoopInv'
  BY <1>1, <1>2, <1>7, <1>8 DEF LoopInv, IsEmpty, H1
<1> QED BY <1>5, <1>9 DEF OlpInv

\* erase() makes its value a tombstone, or an empty slot where no value behind it
\* prefers that slot or one before it: one fewer.
LEMMA EraseKeeps ==
  ASSUME OlpInv, NEW x, Erase(x)
  PROVE  OlpInv'
<1>1. pc = "idle" /\ pc' = "idle"
  BY DEF Erase
<1>2. LoopInv'
  BY <1>1 DEF LoopInv
<1>3. ASSUME NEW k \in StopSlot(x), slots_[k] = PresentSlot(x), size_' = size_ - 1,
             slots_' = [slots_ EXCEPT ![k] = IF MayBeEmpty(k) THEN EmptySlot
                                             ELSE [@ EXCEPT !.tag = "tombstone"]]
      PROVE  OlpInv'
  <2>1. /\ Array(slots_) /\ OrderedSlots(slots_) /\ Gapless(slots_)
        /\ k \in DOMAIN slots_ /\ ~IsEmpty(slots_, k) /\ k \in Present(slots_)
    BY <1>3 DEF OlpInv, ArrayInv, StopSlot, IsEmpty, Present, PresentSlot
  <2>2. Array(slots_') /\ OrderedSlots(slots_') /\ Gapless(slots_')
    <3>1. CASE MayBeEmpty(k)
      <4>1. IsEmpty(slots_, k + 1) \/ H1(slots_[k + 1].value) = k + 1
        BY <3>1 DEF MayBeEmpty
      <4>2. \A t : t = [slots_ EXCEPT ![k] = EmptySlot]
                    => Array(t) /\ OrderedSlots(t) /\ Gapless(t)
        BY <2>1, <4>1, EmptyKeepsOrder
      <4>3. slots_' = [slots_ EXCEPT ![k] = EmptySlot]
        BY <1>3, <3>1
      <4> QED BY <4>2, <4>3
    <3>2. CASE ~MayBeEmpty(k)
      <4>1. \A t : t = [slots_ EXCEPT ![k] = [@ EXCEPT !.tag = "tombstone"]]
                    => Array(t) /\ OrderedSlots(t) /\ Gapless(t)
        BY <2>1, TombstoneKeepsOrder
      <4>2. slots_' = [slots_ EXCEPT ![k] = [@ EXCEPT !.tag = "tombstone"]]
        BY <1>3, <3>2
      <4> QED BY <4>1, <4>2
    <3> QED BY <3>1, <3>2
  <2>3. ArrayInv'
    BY <2>2 DEF ArrayInv, Array, OrderedSlots, Gapless, IsEmpty, H1
  <2>4. DOMAIN slots_' = DOMAIN slots_ /\ \A j \in DOMAIN slots_ : j # k => slots_'[j] = slots_[j]
    BY <1>3
  <2>5. slots_'[k].tag # "present"
    <3>1. slots_'[k] = IF MayBeEmpty(k) THEN EmptySlot
                       ELSE [slots_[k] EXCEPT !.tag = "tombstone"]
      BY <1>3, <2>1
    <3>2. slots_[k] = [tag |-> "present", value |-> x]
      BY <1>3 DEF PresentSlot
    <3> QED BY <3>1, <3>2 DEF EmptySlot
  <2>6. Present(slots_)' = Present(slots_) \ {k}
    BY <2>4, <2>5 DEF Present
  <2>7. CountInv'
    BY <1>3, <2>1, <2>6, FS_RemoveElement DEF OlpInv, CountInv
  <2> QED BY <1>2, <2>3, <2>7 DEF OlpInv
<1>4. CASE UNCHANGED <<size_, slots_>>
  <2>1. ArrayInv' /\ CountInv'
    BY <1>4 DEF OlpInv, ArrayInv, Array, OrderedSlots, Gapless, IsEmpty, H1, CountInv, Present
  <2> QED BY <1>2, <2>1 DEF OlpInv
<1> QED BY <1>3, <1>4 DEF Erase

\* What the experiment remembers beside the table does not matter.
LEMMA UnchangedKeeps ==
  ASSUME OlpInv, UNCHANGED vars
  PROVE  OlpInv'
BY DEF vars, OlpInv, ArrayInv, LoopInv, CountInv, Array, OrderedSlots, Gapless, IsEmpty, H1,
       Present

-----------------------------------------------------------------------------
(* Validate() *)

\* A lookup stops where its value is: behind it all is larger, before it all is
\* smaller, and on the way to it nothing is empty.
LEMMA OlpInvValidates == OlpInv => Validate
<1> SUFFICES ASSUME OlpInv PROVE Validate
  OBVIOUS
<1>1. Array(slots_) /\ OrderedSlots(slots_) /\ Gapless(slots_)
  BY DEF OlpInv, ArrayInv
<1>2. Ordered
  BY <1>1 DEF Ordered, OrderedSlots
<1>3. SizeIsCount
  BY DEF OlpInv, CountInv, SizeIsCount
<1>4. ASSUME NEW x \in Values, Contains(x)
      PROVE  x \in Contents(slots_)
  <2>1. PICK k \in StopSlot(x) : slots_[k] = PresentSlot(x)
    BY <1>4 DEF Contains
  <2>2. k \in Present(slots_) /\ slots_[k].value = x
    BY <2>1 DEF StopSlot, Present, PresentSlot
  <2> QED BY <2>2 DEF Contents
<1>5. ASSUME NEW x \in Values, x \in Contents(slots_)
      PROVE  Contains(x)
  <2>1. PICK k \in Present(slots_) : slots_[k].value = x
    BY <1>5 DEF Contents
  <2>2. k \in DOMAIN slots_ /\ slots_[k].tag = "present" /\ ~IsEmpty(slots_, k)
    BY <2>1 DEF Present, IsEmpty
  <2>3. k \in Nat /\ slots_[k] \in Slot /\ x \in Number /\ H1(x) \in Nat
    BY <1>1, <2>1, <2>2, SlotValues
  <2>4. slots_[k] = PresentSlot(x)
    BY <2>1, <2>2, <2>3 DEF PresentSlot, Slot, EmptySlot
  <2>5. H1(x) <= k /\ \A j \in H1(x) .. k : ~IsEmpty(slots_, j)
    BY <1>1, <2>1, <2>2 DEF Gapless
  <2>6. Stops(x, k)
    BY <2>1, <2>3 DEF Stops, Number
  <2>7. ASSUME NEW j \in DOMAIN slots_, H1(x) <= j, Stops(x, j)
        PROVE  k <= j
    <3>1. j \in Nat /\ slots_[j].value \in Number
      BY <1>1, SlotValues
    <3>2. CASE j < k
      <4>1. j \in H1(x) .. k
        BY <2>3, <2>7, <3>1, <3>2
      <4>2. ~IsEmpty(slots_, j)
        BY <2>5, <4>1
      <4>3. slots_[j].value >= x
        BY <2>7, <4>2 DEF Stops, IsEmpty
      <4>4. slots_[j].value < x
        BY <1>1, <2>1, <2>2, <3>2, <4>2 DEF OrderedSlots
      <4> QED BY <2>3, <3>1, <4>3, <4>4 DEF Number
    <3> QED BY <2>3, <3>1, <3>2
  <2>8. k \in StopSlot(x)
    BY <2>2, <2>5, <2>6, <2>7 DEF StopSlot
  <2> QED BY <2>4, <2>8 DEF Contains
<1>6. ContainsCorrect
  BY <1>4, <1>5 DEF ContainsCorrect
<1> QED BY <1>2, <1>3, <1>6 DEF Validate

\* No step of the code or its callers disturbs the invariant.
LEMMA OlpStep ==
  ASSUME OlpInv, [HoverNext]_allVars
  PROVE  OlpInv'
<1>1. CASE AnyCall
  BY <1>1, InsertKeeps, EraseKeeps DEF AnyCall
<1>2. CASE DoAnInsert
  BY <1>2, InsertKeeps DEF DoAnInsert
<1>3. CASE EraseOne
  BY <1>3, EraseKeeps DEF EraseOne
<1>4. CASE HoverStep
  BY <1>4, FillSlotKeeps, FindSameKeeps, PassPresentKeeps, PassTombstoneKeeps
     DEF HoverStep, Step
<1>5. CASE UNCHANGED allVars
  BY <1>5, UnchangedKeeps DEF allVars
<1> QED BY <1>1, <1>2, <1>3, <1>4, <1>5 DEF HoverNext

\* After every call, and for order and count in the middle of every insert,
\* Validate() finds nothing to object to, in an Olp of any capacity that is
\* called by the experiment or by a test in any order and with any values.
THEOREM OlpAlwaysValid == HoverSpec => []Validate
<1>1. HoverInit => OlpInv
  BY InitEstablishes DEF HoverInit
<1>2. OlpInv /\ [HoverNext]_allVars => OlpInv'
  BY OlpStep
<1> QED BY <1>1, <1>2, OlpInvValidates, PTL DEF HoverSpec

-----------------------------------------------------------------------------
(* The array is a set: for any capacity, any numbers and any sequence of   *)
(* calls, an insert adds its argument and no other value appears or is     *)
(* lost, whatever is displaced on the way.  The invariant says of the loop *)
(* of insert() that the table and the value in hand together are what the  *)
(* table and the argument were, and that a value once displaced cannot be  *)
(* met again.                                                              *)

\* value has been put down, and v is on its way to a new slot.
Displacing ==
  /\ value < v
  /\ value \notin Contents(before)
  /\ Contents(slots_) \cup {v} = Contents(before) \cup {value}
  /\ \A j \in DOMAIN slots_ : index <= j /\ ~IsEmpty(slots_, j) => v < slots_[j].value

HandInv ==
  pc = "insert" =>
    /\ value \in Values /\ v \in Values
    /\ (v = value /\ slots_ = before) \/ Displacing

SetInv ==
  /\ OlpInv
  /\ Contents(slots_) \subseteq Values
  /\ values \subseteq Values
  /\ HandInv

-----------------------------------------------------------------------------
(* What a call does to the set *)

\* Before it is exchanged or put down, the value in hand is not in the table.
LEMMA InHandIsAbsent ==
  ASSUME OlpInv, pc = "insert",
         \/ IsEmpty(slots_, index)
         \/ index \in Tombstones(slots_) /\ TombstoneUsable
         \/ index \in Present(slots_) /\ v < slots_[index].value
  PROVE  v \notin Contents(slots_)
<1> SUFFICES ASSUME NEW j \in Present(slots_), slots_[j].value = v
             PROVE  FALSE
  BY DEF Contents
<1>1. j \in DOMAIN slots_ /\ ~IsEmpty(slots_, j)
  BY DEF Present, IsEmpty
<1>2. j \in Nat /\ index \in Nat /\ v \in Number
  BY <1>1, SlotValues DEF OlpInv, ArrayInv, LoopInv
<1>3. ~(v < v)
  BY <1>2 DEF Number
<1>4. ~(j < index)
  BY <1>1, <1>3 DEF OlpInv, LoopInv
<1>5. ~(index < j)
  BY <1>1, <1>3, RestIsLarger
<1>6. j = index
  BY <1>2, <1>4, <1>5
<1>7. index \in Present(slots_) /\ v < slots_[index].value
  BY <1>6 DEF IsEmpty, Tombstones, Present
<1> QED BY <1>3, <1>6, <1>7

\* insert() has put its argument down at its end, or had found it there.
LEMMA EndOfInsert ==
  ASSUME SetInv, FillSlot \/ FindSame
  PROVE  /\ pc = "insert" /\ pc' = "idle"
         /\ value \in Values
         /\ \/ /\ value \in Contents(before)
               /\ result' = "present"
               /\ Contents(slots_)' = Contents(before)
            \/ /\ value \notin Contents(before)
               /\ result' = "inserted"
               /\ Contents(slots_)' = Contents(before) \cup {value}
<1>1. pc = "insert" /\ pc' = "idle"
  BY DEF FillSlot, FindSame, Return
<1>2. /\ value \in Values
      /\ (v = value /\ slots_ = before) \/ Displacing
  BY <1>1 DEF SetInv, HandInv
<1>3. CASE FillSlot
  <2>1. /\ \/ IsEmpty(slots_, index)
           \/ index \in Tombstones(slots_) /\ TombstoneUsable
        /\ slots_' = [j \in DOMAIN slots_ \cup {index} |->
                        IF j = index THEN PresentSlot(v) ELSE slots_[j]]
        /\ result' = "inserted"
    BY <1>3 DEF FillSlot, WithSlot, Return
  <2>2. index \notin Present(slots_)
    BY <2>1 DEF IsEmpty, Tombstones, Present
  <2>3. Contents(slots_)' = Contents(slots_) \cup {v}
    BY <2>1, <2>2 DEF Contents, Present, PresentSlot
  <2>4. CASE v = value /\ slots_ = before
    <3>1. v \notin Contents(slots_)
      BY <1>1, <2>1, InHandIsAbsent DEF SetInv
    <3> QED BY <1>1, <1>2, <2>1, <2>3, <2>4, <3>1
  <2>5. CASE Displacing
    BY <1>1, <1>2, <2>1, <2>3, <2>5 DEF Displacing
  <2> QED BY <1>2, <2>4, <2>5
<1>4. CASE FindSame
  <2>1. /\ index \in Present(slots_) /\ slots_[index].value = v
        /\ slots_' = slots_ /\ result' = "present"
    BY <1>4 DEF FindSame, Return
  <2>2. CASE v = value /\ slots_ = before
    <3>1. v \in Contents(slots_)
      BY <2>1 DEF Contents
    <3>2. Contents(slots_)' = Contents(slots_)
      BY <2>1 DEF Contents, Present
    <3> QED BY <1>1, <1>2, <2>1, <2>2, <3>1, <3>2
  <2>3. CASE Displacing
    <3>1. index \in DOMAIN slots_ /\ ~IsEmpty(slots_, index)
      BY <2>1 DEF Present, IsEmpty
    <3>2. index \in Nat /\ v \in Number
      BY <1>1 DEF SetInv, OlpInv, LoopInv
    <3>3. v < v
      BY <2>1, <2>3, <3>1, <3>2 DEF Displacing
    <3> QED BY <3>2, <3>3 DEF Number
  <2> QED BY <1>2, <2>2, <2>3
<1> QED BY <1>3, <1>4

\* erase() removes its argument, if it is there.
LEMMA EndOfErase ==
  ASSUME SetInv, NEW x \in Values, Erase(x)
  PROVE  /\ pc = "idle" /\ pc' = "idle"
         /\ Contents(slots_)' = Contents(slots_) \ {x}
         /\ result' = IF x \in Contents(slots_) THEN "erased" ELSE "absent"
<1>1. pc = "idle" /\ pc' = "idle"
  BY DEF Erase
<1>2. Contains(x) <=> x \in Contents(slots_)
  BY <1>1, OlpInvValidates DEF SetInv, Validate, ContainsCorrect
<1>3. ASSUME NEW k \in StopSlot(x), slots_[k] = PresentSlot(x), result' = "erased",
             slots_' = [slots_ EXCEPT ![k] = IF MayBeEmpty(k) THEN EmptySlot
                                             ELSE [@ EXCEPT !.tag = "tombstone"]]
      PROVE  /\ Contents(slots_)' = Contents(slots_) \ {x}
             /\ result' = IF x \in Contents(slots_) THEN "erased" ELSE "absent"
  <2>1. /\ DOMAIN slots_' = DOMAIN slots_
        /\ \A j \in DOMAIN slots_ : j # k => slots_'[j] = slots_[j]
    BY <1>3
  <2>2. k \in DOMAIN slots_ /\ slots_[k] = [tag |-> "present", value |-> x]
    BY <1>3 DEF StopSlot, PresentSlot
  <2>3. slots_'[k].tag # "present"
    <3>1. slots_'[k] = IF MayBeEmpty(k) THEN EmptySlot
                       ELSE [slots_[k] EXCEPT !.tag = "tombstone"]
      BY <1>3, <2>2
    <3> QED BY <2>2, <3>1 DEF EmptySlot
  <2>4. Present(slots_)' = Present(slots_) \ {k}
    BY <2>1, <2>3 DEF Present
  <2>5. ASSUME NEW j \in Present(slots_), slots_[j].value = x
        PROVE  j = k
    <3>1. j \in DOMAIN slots_ /\ ~IsEmpty(slots_, j) /\ ~IsEmpty(slots_, k)
      BY <2>2 DEF Present, IsEmpty
    <3>2. j \in Nat /\ k \in Nat /\ slots_[j].value \in Number
      BY <2>2, <3>1, SlotValues DEF SetInv, OlpInv, ArrayInv
    <3>3. OrderedSlots(slots_)
      BY DEF SetInv, OlpInv, ArrayInv
    <3>4. ~(j < k) /\ ~(k < j)
      BY <2>2, <2>5, <3>1, <3>2, <3>3 DEF OrderedSlots, Number
    <3> QED BY <3>2, <3>4
  <2>6. \A j \in Present(slots_)' : slots_'[j].value = slots_[j].value
    BY <2>1, <2>4 DEF Present
  <2>7. Contents(slots_)' = {slots_[j].value : j \in Present(slots_) \ {k}}
    BY <2>4, <2>6 DEF Contents
  <2>8. k \in Present(slots_) /\ slots_[k].value = x
    BY <2>2 DEF Present
  <2>9. Contents(slots_)' = Contents(slots_) \ {x}
    BY <2>5, <2>7, <2>8 DEF Contents
  <2>10. x \in Contents(slots_)
    BY <2>8 DEF Contents
  <2> QED BY <1>3, <2>9, <2>10
<1>4. CASE ~Contains(x) /\ result' = "absent" /\ slots_' = slots_
  <2>1. Contents(slots_)' = Contents(slots_)
    BY <1>4 DEF Contents, Present
  <2> QED BY <1>1, <1>2, <1>4, <2>1
<1> QED BY <1>1, <1>3, <1>4 DEF Erase

-----------------------------------------------------------------------------
(* The loop of insert() *)

\* A round that passes a value: the table and the value in hand stay the same set.
LEMMA PassPresentKeepsSet ==
  ASSUME SetInv, PassPresent
  PROVE  /\ Contents(slots_)' \subseteq Values
         /\ HandInv'
<1>1. /\ pc = "insert" /\ value' = value /\ before' = before
      /\ index \in Present(slots_) /\ index' = index + 1
  BY DEF PassPresent
<1>2. /\ value \in Values /\ v \in Values
      /\ (v = value /\ slots_ = before) \/ Displacing
      /\ Contents(slots_) \subseteq Values
  BY <1>1 DEF SetInv, HandInv
<1>3. index \in DOMAIN slots_ /\ slots_[index].tag = "present" /\ ~IsEmpty(slots_, index)
  BY <1>1 DEF Present, IsEmpty
<1>4. /\ Array(slots_) /\ OrderedSlots(slots_)
      /\ index \in Nat /\ v \in Number /\ slots_[index].value \in Number
  BY <1>1, <1>3, SlotValues DEF SetInv, OlpInv, ArrayInv, LoopInv
<1>5. value \in Number
  BY <1>2, CapacityAssumption DEF Number
<1>6. CASE ~(v < slots_[index].value)
  <2>1. slots_' = slots_ /\ v' = v
    BY <1>6 DEF PassPresent
  <2>2. Contents(slots_)' = Contents(slots_)
    BY <2>1 DEF Contents, Present
  <2>3. CASE v = value /\ slots_ = before
    BY <1>1, <1>2, <2>1, <2>2, <2>3 DEF HandInv
  <2>4. CASE Displacing
    <3>1. \A j \in DOMAIN slots_ : j \in Nat /\ (index + 1 <= j => index <= j)
      BY <1>4, SlotValues
    <3>2. \A j \in DOMAIN slots_' :
            index' <= j /\ ~IsEmpty(slots_', j) => v' < slots_'[j].value
      BY <1>1, <2>1, <2>4, <3>1 DEF Displacing
    <3>3. Contents(before)' = Contents(before)
      BY <1>1 DEF Contents, Present
    <3>4. Displacing'
      BY <1>1, <2>1, <2>2, <2>4, <3>2, <3>3 DEF Displacing, IsEmpty
    <3> QED BY <1>1, <1>2, <2>1, <2>2, <3>4 DEF HandInv
  <2> QED BY <1>2, <2>3, <2>4
<1>7. CASE v < slots_[index].value
  <2> DEFINE w == slots_[index].value
  <2>1. v' = w /\ slots_' = [slots_ EXCEPT ![index].value = v]
    BY <1>7 DEF PassPresent
  <2>2. /\ DOMAIN slots_' = DOMAIN slots_
        /\ slots_'[index].tag = "present" /\ slots_'[index].value = v
        /\ \A j \in DOMAIN slots_ : j # index => slots_'[j] = slots_[j]
    <3>1. slots_'[index] = [slots_[index] EXCEPT !.value = v]
      BY <1>3, <2>1
    <3>2. slots_[index] \in Slot
      BY <1>3, <1>4, SlotValues
    <3>3. slots_'[index].tag = "present" /\ slots_'[index].value = v
      BY <1>3, <3>1, <3>2 DEF Slot, EmptySlot
    <3> QED BY <2>1, <3>3
  <2>3. Present(slots_)' = Present(slots_)
    BY <1>3, <2>2 DEF Present
  <2>4. Contents(slots_)' \cup {w} = Contents(slots_) \cup {v}
    <3>1. Contents(slots_)' = {slots_'[j].value : j \in Present(slots_)}
      BY <2>3 DEF Contents
    <3>2. \A j \in Present(slots_) : j # index => slots_'[j].value = slots_[j].value
      BY <2>2 DEF Present
    <3> QED BY <1>1, <2>2, <3>1, <3>2 DEF Contents
  <2>5. w \in Values
    BY <1>1, <1>2 DEF Contents
  <2>6. v \notin Contents(slots_)
    BY <1>1, <1>7, InHandIsAbsent DEF SetInv
  <2>7. Contents(before)' = Contents(before)
    BY <1>1 DEF Contents, Present
  <2>8. /\ value < w
        /\ value \notin Contents(before)
        /\ Contents(slots_) \cup {v} = Contents(before) \cup {value}
    <3>1. CASE v = value /\ slots_ = before
      BY <1>7, <2>6, <3>1
    <3>2. CASE Displacing
      BY <1>4, <1>5, <1>7, <3>2 DEF Displacing, Number
    <3> QED BY <1>2, <3>1, <3>2
  <2>9. ASSUME NEW j \in DOMAIN slots_, index + 1 <= j, ~IsEmpty(slots_', j)
        PROVE  w < slots_'[j].value
    <3>1. j \in Nat
      BY <1>4, SlotValues
    <3>2. index < j /\ j # index
      BY <1>4, <2>9, <3>1
    <3>3. slots_'[j] = slots_[j] /\ ~IsEmpty(slots_, j)
      BY <2>2, <2>9, <3>2 DEF IsEmpty
    <3> QED BY <1>3, <1>4, <3>2, <3>3 DEF OrderedSlots
  <2>10. Displacing'
    BY <1>1, <2>1, <2>2, <2>4, <2>7, <2>8, <2>9 DEF Displacing, IsEmpty
  <2>11. Contents(slots_)' \subseteq Values
    BY <1>2, <2>4
  <2> QED BY <1>1, <1>2, <2>1, <2>5, <2>10, <2>11 DEF HandInv
<1> QED BY <1>6, <1>7

\* A round that passes a tombstone changes neither.
LEMMA PassTombstoneKeepsSet ==
  ASSUME SetInv, PassTombstone
  PROVE  /\ Contents(slots_)' \subseteq Values
         /\ HandInv'
<1>1. /\ pc = "insert" /\ value' = value /\ before' = before
      /\ slots_' = slots_ /\ v' = v
      /\ index' = index + 1
  BY DEF PassTombstone
<1>2. /\ value \in Values /\ v \in Values
      /\ (v = value /\ slots_ = before) \/ Displacing
      /\ Contents(slots_) \subseteq Values
  BY <1>1 DEF SetInv, HandInv
<1>3. Contents(slots_)' = Contents(slots_) /\ Contents(before)' = Contents(before)
  BY <1>1 DEF Contents, Present
<1>4. CASE v = value /\ slots_ = before
  BY <1>1, <1>2, <1>3, <1>4 DEF HandInv
<1>5. CASE Displacing
  <2>1. index \in Nat /\ Array(slots_)
    BY <1>1 DEF SetInv, OlpInv, LoopInv, ArrayInv
  <2>2. \A j \in DOMAIN slots_ : j \in Nat /\ (index + 1 <= j => index <= j)
    BY <2>1, SlotValues
  <2>3. \A j \in DOMAIN slots_' :
          index' <= j /\ ~IsEmpty(slots_', j) => v' < slots_'[j].value
    BY <1>1, <1>5, <2>2 DEF Displacing
  <2>4. Displacing'
    BY <1>1, <1>3, <1>5, <2>3 DEF Displacing, IsEmpty
  <2> QED BY <1>1, <1>2, <1>3, <2>4 DEF HandInv
<1> QED BY <1>2, <1>4, <1>5

\* Nothing has been displaced when a call begins.
LEMMA BeginOfInsert ==
  ASSUME SetInv, NEW x \in Values, Insert(x)
  PROVE  /\ Contents(slots_)' \subseteq Values
         /\ HandInv'
         /\ pc = "idle" /\ result' = result /\ slots_' = slots_
         /\ pc' = "insert" => value' = x /\ before' = slots_
         /\ pc' \in {"insert", "aborted"}
<1>1. /\ pc = "idle" /\ result' = result /\ slots_' = slots_
      /\ pc' = "insert" => value' = x /\ v' = x /\ before' = slots_
      /\ pc' \in {"insert", "aborted"}
  BY DEF Insert
<1>2. Contents(slots_)' = Contents(slots_)
  BY <1>1 DEF Contents, Present
<1>3. HandInv'
  BY <1>1 DEF HandInv
<1> QED BY <1>1, <1>2, <1>3 DEF SetInv

\* All of it is inductive.
LEMMA SetInvHolds == HoverSpec => []SetInv
<1>1. HoverInit => SetInv
  <2> SUFFICES ASSUME HoverInit PROVE SetInv
    OBVIOUS
  <2>1. OlpInv /\ pc = "idle" /\ values = {}
    BY InitEstablishes DEF HoverInit, Init
  <2>2. Contents(slots_) = {}
    BY DEF HoverInit, Init, Contents, Present, EmptySlot
  <2> QED BY <2>1, <2>2 DEF SetInv, HandInv
<1>2. ASSUME SetInv, [HoverNext]_allVars
      PROVE  SetInv'
  <2>1. OlpInv'
    BY <1>2, OlpStep DEF SetInv
  <2>2. ASSUME NEW x \in Values, Insert(x), values' \subseteq Values
        PROVE  SetInv'
    BY <1>2, <2>1, <2>2, BeginOfInsert DEF SetInv
  <2>3. ASSUME NEW x \in Values, Erase(x), values' \subseteq Values
        PROVE  SetInv'
    <3>1. pc' = "idle" /\ Contents(slots_)' \subseteq Contents(slots_)
      BY <1>2, <2>3, EndOfErase
    <3> QED BY <1>2, <2>1, <2>3, <3>1 DEF SetInv, HandInv
  <2>4. CASE AnyCall
    BY <1>2, <2>2, <2>3, <2>4 DEF AnyCall, mainVars, SetInv
  <2>5. CASE DoAnInsert
    <3>1. PICK x \in Values : Insert(x) /\ values' = values \cup {x}
      BY <2>5 DEF DoAnInsert
    <3> QED BY <1>2, <2>2, <3>1 DEF SetInv
  <2>6. CASE EraseOne
    <3>1. PICK x \in values : RemoveRandom(x) /\ Erase(x)
      BY <2>6 DEF EraseOne
    <3>2. x \in Values /\ values' \subseteq Values
      BY <1>2, <3>1 DEF RemoveRandom, SetInv
    <3> QED BY <2>3, <3>1, <3>2
  <2>7. CASE HoverStep
    <3>1. values' = values
      BY <2>7 DEF HoverStep, mainVars
    <3>2. CASE FillSlot \/ FindSame
      <4>1. pc' = "idle" /\ Contents(slots_)' \subseteq Contents(before) \cup {value}
            /\ pc = "insert"
        BY <1>2, <3>2, EndOfInsert
      <4>2. Contents(before) \cup {value} \subseteq Values
        BY <1>2, <4>1 DEF SetInv, HandInv, Displacing
      <4> QED BY <1>2, <2>1, <3>1, <4>1, <4>2 DEF SetInv, HandInv
    <3>3. CASE PassPresent
      BY <1>2, <2>1, <3>1, <3>3, PassPresentKeepsSet DEF SetInv
    <3>4. CASE PassTombstone
      BY <1>2, <2>1, <3>1, <3>4, PassTombstoneKeepsSet DEF SetInv
    <3> QED BY <2>7, <3>2, <3>3, <3>4 DEF HoverStep, Step
  <2>8. CASE UNCHANGED allVars
    <3>1. UNCHANGED <<pc, slots_, value, v, before, index, values>>
      BY <2>8 DEF allVars, vars, mainVars
    <3>2. Contents(slots_)' = Contents(slots_) /\ HandInv'
      BY <1>2, <3>1 DEF Contents, Present, HandInv, Displacing, IsEmpty, SetInv
    <3> QED BY <1>2, <2>1, <3>1, <3>2 DEF SetInv
  <2> QED BY <1>2, <2>4, <2>5, <2>6, <2>7, <2>8 DEF HoverNext
<1> QED BY <1>1, <1>2, PTL DEF HoverSpec

-----------------------------------------------------------------------------
\* The array is a set: every call of the code is one of AbstractSet, begun and
\* ended once, and the rounds in between cannot be seen.
THEOREM OlpImplementsSet == HoverSpec => ImplementsSet
<1> DEFINE table == IF pc = "insert" THEN before ELSE slots_
<1>1. HoverInit => Abstract!Init
  BY DEF HoverInit, Init, Abstract!Init, Contents, Present, EmptySlot
<1>2. ASSUME SetInv, [HoverNext]_allVars
      PROVE  [Abstract!Next]_(Abstract!vars)
  <2>1. ASSUME NEW x \in Values, Insert(x)
        PROVE  Abstract!Next \/ UNCHANGED Abstract!vars
    <3>1. /\ pc = "idle" /\ result' = result /\ slots_' = slots_
          /\ pc' = "insert" => value' = x /\ before' = slots_
          /\ pc' \in {"insert", "aborted"}
      BY <1>2, <2>1, BeginOfInsert
    <3>2. Contents(table)' = Contents(table)
      BY <3>1 DEF Contents, Present
    <3>3. CASE pc' = "insert"
      <4>1. Abstract!BeginInsert(x)
        BY <3>1, <3>2, <3>3 DEF Abstract!BeginInsert
      <4> QED BY <4>1 DEF Abstract!Next
    <3>4. CASE pc' = "aborted"
      BY <3>1, <3>2, <3>4 DEF Abstract!vars
    <3> QED BY <3>1, <3>3, <3>4
  <2>2. ASSUME NEW x \in Values, Erase(x)
        PROVE  Abstract!Next \/ UNCHANGED Abstract!vars
    <3>1. /\ pc = "idle" /\ pc' = "idle"
          /\ Contents(slots_)' = Contents(slots_) \ {x}
          /\ result' = IF x \in Contents(slots_) THEN "erased" ELSE "absent"
      BY <1>2, <2>2, EndOfErase
    <3>2. Contents(slots_) \subseteq Values
      BY <1>2 DEF SetInv
    <3>3. Contents(table) = Contents(slots_) /\ Contents(table)' = Contents(slots_)'
      BY <3>1 DEF Contents, Present
    <3>4. Abstract!With(x) = Contents(slots_) \cap {x}
      BY <3>1, <3>2, <3>3 DEF Abstract!With
    <3>5. Abstract!Erase(x)
      BY <3>1, <3>3, <3>4 DEF Abstract!Erase
    <3> QED BY <3>5 DEF Abstract!Next
  <2>3. CASE FillSlot \/ FindSame
    <3>1. /\ pc = "insert" /\ pc' = "idle"
          /\ value \in Values
          /\ \/ /\ value \in Contents(before)
                /\ result' = "present"
                /\ Contents(slots_)' = Contents(before)
             \/ /\ value \notin Contents(before)
                /\ result' = "inserted"
                /\ Contents(slots_)' = Contents(before) \cup {value}
      BY <1>2, <2>3, EndOfInsert
    <3>2. Contents(before) \subseteq Values
      BY <1>2, <3>1 DEF SetInv, HandInv, Displacing
    <3>3. Contents(table) = Contents(before) /\ Contents(table)' = Contents(slots_)'
      BY <3>1 DEF Contents, Present
    <3>4. Abstract!With(value) = Contents(before) \cap {value}
      BY <3>1, <3>2, <3>3 DEF Abstract!With
    <3>5. Abstract!EndInsert(value)
      BY <3>1, <3>3, <3>4 DEF Abstract!EndInsert
    <3> QED BY <3>1, <3>5 DEF Abstract!Next
  <2>4. CASE PassPresent \/ PassTombstone
    <3>1. UNCHANGED <<value, before, result>> /\ pc = "insert" /\ pc' = "insert"
      BY <2>4 DEF PassPresent, PassTombstone
    <3>2. Contents(table)' = Contents(table)
      BY <3>1 DEF Contents, Present
    <3> QED BY <3>1, <3>2 DEF Abstract!vars
  <2>5. CASE UNCHANGED allVars
    <3>1. UNCHANGED <<pc, slots_, value, before, result>>
      BY <2>5 DEF allVars, vars
    <3>2. Contents(table)' = Contents(table)
      BY <3>1 DEF Contents, Present
    <3> QED BY <3>1, <3>2 DEF Abstract!vars
  <2>6. CASE AnyCall
    BY <2>1, <2>2, <2>6 DEF AnyCall
  <2>7. CASE DoAnInsert
    BY <2>1, <2>7 DEF DoAnInsert
  <2>8. CASE EraseOne
    <3>1. PICK x \in values : Erase(x)
      BY <2>8 DEF EraseOne
    <3> QED BY <1>2, <2>2, <3>1 DEF SetInv
  <2>9. CASE HoverStep
    BY <2>3, <2>4, <2>9 DEF HoverStep, Step
  <2> QED BY <1>2, <2>5, <2>6, <2>7, <2>8, <2>9 DEF HoverNext
<1> QED BY <1>1, <1>2, SetInvHolds, PTL DEF HoverSpec, ImplementsSet, Abstract!Spec

-----------------------------------------------------------------------------
(* Probe lengths: the averages that the experiment prints are of what the  *)
(* calls do.  The invariant says of the loop of insert() that the slots it *)
(* has not reached are as it found them, and that it passes a tombstone    *)
(* only before the slot at which InsertAverageProbeLength ends.            *)

\* The loops of the averages for slot `home` end at k, or before.
Turns(slots, home, k) == IsEmpty(slots, k) \/ H1(slots[k].value) > home

PassedInv ==
  pc = "insert" =>
    /\ Array(before) /\ OrderedSlots(before)
    /\ DOMAIN slots_ = DOMAIN before
    /\ \A j \in DOMAIN before : index <= j => slots_[j] = before[j]
    /\ \A j \in DOMAIN before : H1(value) <= j /\ j < index =>
         \/ before[j].tag = "present"
         \/ \A k \in DOMAIN before : H1(value) <= k /\ k <= j => ~Turns(before, H1(value), k)

\* A set of numbers has a least one, if it has any.
LEMMA LeastExists ==
  ASSUME NEW S \in SUBSET Nat, S # {}
  PROVE  \E x \in S : \A y \in S : x <= y
<1> DEFINE below == {ss \in Nat \X Nat : ss[1] < ss[2]}
<1>1. IsWellFoundedOn(below, Nat)
  BY NatLessThanWellFounded, Zenon DEF OpToRel
<1> HIDE DEF below
<1>2. PICK x \in S : \A y \in S : <<y, x>> \notin below
  BY <1>1, WFMin
<1>3. ASSUME NEW y \in S PROVE x <= y
  <2>1. x \in Nat /\ y \in Nat
    OBVIOUS
  <2>2. ~(y < x)
    <3>1. y < x => <<y, x>> \in below
      BY <2>1 DEF below
    <3> QED BY <1>2, <3>1
  <2> QED BY <2>1, <2>2
<1> QED BY <1>3

\* A lookup that stops in the array stops at a slot that
\* NotFoundAverageProbeLength adds to its sum.
LEMMA StopsAtCounted ==
  ASSUME NEW x \in Number, Array(slots_), NEW s \in StopSlot(x)
  PROVE  s \in Counted(slots_, H1(x))
<1> DEFINE turns == {j \in DOMAIN slots_ :
                       H1(x) <= j /\ (IsEmpty(slots_, j) \/ H1(slots_[j].value) > H1(x))}
           stops == {j \in DOMAIN slots_ : H1(x) <= j /\ Stops(x, j)}
<1>1. s \in stops /\ \A j \in stops : s <= j
  BY DEF StopSlot
<1>2. ASSUME NEW j \in DOMAIN slots_
      PROVE  /\ j \in Nat /\ slots_[j].value \in Number /\ H1(slots_[j].value) \in Int
             /\ H1(x) \in Int
  BY SlotValues, H1Range
<1>3. ASSUME NEW j \in turns PROVE j \in stops
  <2>1. CASE IsEmpty(slots_, j)
    BY <2>1 DEF Stops, IsEmpty
  <2>2. CASE H1(slots_[j].value) > H1(x)
    <3>1. x < slots_[j].value
      BY <1>2, <2>2, LaterIsLarger
    <3> QED BY <1>2, <3>1 DEF Stops, Number
  <2> QED BY <2>1, <2>2
<1>4. Turn(slots_, H1(x)) = {j \in turns : \A k \in turns : j <= k}
  BY DEF Turn
<1>5. CASE s \in turns
  <2>1. s \in Turn(slots_, H1(x))
    BY <1>1, <1>3, <1>4, <1>5
  <2> QED BY <2>1 DEF Counted
<1>6. CASE s \notin turns
  <2>1. ~IsEmpty(slots_, s) /\ s \in DOMAIN slots_ /\ H1(x) <= s
    BY <1>1, <1>6
  <2>2. slots_[s].value >= x /\ H1(slots_[s].value) <= H1(x)
    BY <1>1, <1>2, <1>6, <2>1 DEF Stops, IsEmpty
  <2>3. H1(x) <= H1(slots_[s].value)
    BY <1>2, <2>1, <2>2, H1Monotone DEF Number
  <2>4. H1(slots_[s].value) = H1(x)
    BY <1>2, <2>1, <2>2, <2>3
  <2>5. ASSUME NEW t \in Turn(slots_, H1(x)) PROVE s < t
    <3>1. t \in turns /\ t \in stops /\ t # s
      BY <1>3, <1>4, <1>6
    <3> QED BY <1>1, <1>2, <3>1
  <2> QED BY <2>1, <2>4, <2>5 DEF Counted
<1> QED BY <1>5, <1>6

\* So the length of the lookup is one of those averaged.
LEMMA NotFoundIsAveraged ==
  ASSUME NEW x \in Number, Array(slots_), StopSlot(x) # {}
  PROVE  ProbeLength(x) \in NotFoundLengths(H1(x))
<1>1. PICK s \in StopSlot(x) : s = (CHOOSE k \in StopSlot(x) : TRUE)
  OBVIOUS
<1>2. ProbeLength(x) = s - H1(x) + 1
  BY <1>1 DEF ProbeLength
<1>3. s \in Counted(slots_, H1(x))
  BY StopsAtCounted
<1> QED BY <1>2, <1>3 DEF NotFoundLengths

\* How far it is from slot j to the end of the array or the next slot without a
\* present value: at least one slot, and as far as all slots are present.
LEMMA DistanceAtLeast ==
  ASSUME NEW slots, NEW n \in Nat, DOMAIN slots = 0 .. n - 1,
         NEW j \in 0 .. n - 1, NEW last \in 0 .. n - 1, j <= last,
         \A k \in 0 .. n - 1 : j <= k /\ k < last => slots[k].tag = "present"
  PROVE  DistanceToNonPresent(slots, j) \in Nat /\ last - j + 1 <= DistanceToNonPresent(slots, j)
<1> DEFINE holes == {k \in DOMAIN slots : j <= k /\ slots[k].tag # "present"}
           hole == CHOOSE k \in holes : \A m \in holes : k <= m
<1>1. CASE holes = {}
  <2>1. Cardinality(0 .. n - 1) = n
    BY FS_Interval
  <2>2. DistanceToNonPresent(slots, j) = n - j
    BY <1>1, <2>1 DEF DistanceToNonPresent
  <2> QED BY <2>2
<1>2. CASE holes # {}
  <2>1. holes \in SUBSET Nat
    OBVIOUS
  <2>2. \E k \in holes : \A m \in holes : k <= m
    BY <1>2, <2>1, LeastExists
  <2>3. hole \in holes
    BY <2>2
  <2>4. hole \in Nat /\ last <= hole
    BY <2>3
  <2>5. DistanceToNonPresent(slots, j) = hole - j + 1
    BY <1>2 DEF DistanceToNonPresent
  <2> HIDE DEF hole
  <2> QED BY <2>4, <2>5
<1> QED BY <1>1, <1>2

\* Wherever the loop of insert() is in the array that it found, one of the lengths
\* averaged reaches there.
LEMMA InsertIsAveraged ==
  ASSUME PassedInv, pc = "insert", value \in Number, index \in DOMAIN before
  PROVE  \E length \in InsertLengths(before, H1(value)) : index - H1(value) + 1 <= length
<1> DEFINE home == H1(value)
           turns == {j \in DOMAIN before :
                       home <= j /\ (IsEmpty(before, j) \/ H1(before[j].value) > home)}
<1>1. Array(before) /\ OrderedSlots(before)
  BY DEF PassedInv
<1>2. PICK n \in Nat : before \in [0 .. n - 1 -> Slot]
  BY <1>1 DEF Array
<1>3. DOMAIN before = 0 .. n - 1 /\ Cardinality(DOMAIN before) = n
  BY <1>2, FS_Interval
<1>4. home \in Nat
  BY H1Range
<1>5. ASSUME NEW j \in DOMAIN before
      PROVE  j \in Nat /\ before[j].value \in Number /\ H1(before[j].value) \in Nat
  BY <1>1, SlotValues
<1>6. Turn(before, home) = {j \in turns : \A k \in turns : j <= k}
  BY DEF Turn
<1>7. \A j \in DOMAIN before : home <= j /\ j < index =>
        before[j].tag = "present" \/ \A k \in turns : ~(k <= j)
  BY DEF PassedInv, Turns
<1> HIDE DEF home
<1>8. ASSUME NEW c \in Counted(before, home), c \in DOMAIN before,
             index - home + 1 <= c - home + DistanceToNonPresent(before, c)
      PROVE  \E length \in InsertLengths(before, home) : index - home + 1 <= length
  BY <1>8 DEF InsertLengths
<1>9. CASE turns # {}
  <2>1. turns \in SUBSET Nat
    BY <1>3
  <2>2. PICK t \in turns : \A k \in turns : t <= k
    BY <1>9, <2>1, LeastExists
  <2>3. t \in Counted(before, home)
    BY <1>6, <2>2 DEF Counted
  <2>4. t \in 0 .. n - 1 /\ index \in 0 .. n - 1 /\ home <= t
    BY <1>3
  <2>5. CASE index < t
    <3>1. DistanceToNonPresent(before, t) \in Nat /\ t - t + 1 <= DistanceToNonPresent(before, t)
      <4>1. \A k \in 0 .. n - 1 : t <= k /\ k < t => before[k].tag = "present"
        BY <2>4
      <4>2. t \in 0 .. n - 1 /\ t <= t
        BY <2>4
      <4> QED BY <1>3, <4>1, <4>2, DistanceAtLeast
    <3>2. index - home + 1 <= t - home + DistanceToNonPresent(before, t)
      BY <1>4, <2>4, <2>5, <3>1
    <3> QED BY <1>3, <1>8, <2>3, <2>4, <3>2 DEF home
  <2>6. CASE t <= index
    <3>1. \A k \in 0 .. n - 1 : t <= k /\ k < index => before[k].tag = "present"
      BY <1>3, <1>4, <1>7, <2>4
    <3>2. /\ DistanceToNonPresent(before, t) \in Nat
          /\ index - t + 1 <= DistanceToNonPresent(before, t)
      BY <1>3, <2>4, <2>6, <3>1, DistanceAtLeast
    <3>3. index - home + 1 <= t - home + DistanceToNonPresent(before, t)
      BY <1>4, <2>4, <3>2
    <3> QED BY <1>3, <1>8, <2>3, <2>4, <3>3 DEF home
  <2> QED BY <2>4, <2>5, <2>6
<1>10. CASE turns = {} /\ Counted(before, home) = {}
  <2>1. InsertLengths(before, home) = {n - home}
    BY <1>3, <1>10 DEF InsertLengths
  <2>2. index - home + 1 <= n - home
    BY <1>2, <1>3, <1>4
  <2> QED BY <2>1, <2>2 DEF home
<1>11. CASE turns = {} /\ Counted(before, home) # {}
  <2>1. Turn(before, home) = {}
    BY <1>6, <1>11
  <2>2. PICK c \in DOMAIN before : home <= c /\ ~IsEmpty(before, c) /\ H1(before[c].value) = home
    BY <1>11, <2>1 DEF Counted
  <2>3. PICK last : last = n - 1
    OBVIOUS
  <2>4. /\ last \in 0 .. n - 1 /\ c \in 0 .. n - 1 /\ c <= last /\ index \in 0 .. n - 1
        /\ index <= last
    BY <1>2, <1>3, <2>3
  <2>5. ~IsEmpty(before, last) /\ H1(before[last].value) <= home /\ home <= last
    <3>1. home <= last
      BY <1>4, <2>2, <2>4
    <3>2. last \in DOMAIN before /\ last \notin turns
      BY <1>3, <1>11, <2>4
    <3>3. ~IsEmpty(before, last) /\ ~(H1(before[last].value) > home)
      BY <3>1, <3>2
    <3> QED BY <1>4, <1>5, <3>1, <3>2, <3>3
  <2>6. home <= H1(before[last].value)
    <3>1. CASE c = last
      BY <1>4, <2>2, <3>1
    <3>2. CASE c < last
      <4>1. before[c].value < before[last].value
        BY <1>1, <1>3, <2>2, <2>4, <2>5, <3>2 DEF OrderedSlots
      <4>2. before[c].value \in Number /\ before[last].value \in Number
        BY <1>3, <1>5, <2>4
      <4>3. before[c].value <= before[last].value
        BY <4>1, <4>2 DEF Number
      <4> QED BY <2>2, <4>2, <4>3, H1Monotone
    <3> QED BY <2>4, <3>1, <3>2
  <2>7. last \in Counted(before, home)
    BY <1>3, <1>4, <1>5, <2>1, <2>4, <2>5, <2>6 DEF Counted
  <2>8. DistanceToNonPresent(before, last) \in Nat
        /\ last - last + 1 <= DistanceToNonPresent(before, last)
    <3>1. \A k \in 0 .. n - 1 : last <= k /\ k < last => before[k].tag = "present"
      BY <2>4
    <3>2. last \in 0 .. n - 1 /\ last <= last
      BY <2>4
    <3> QED BY <1>3, <3>1, <3>2, DistanceAtLeast
  <2>9. index - home + 1 <= last - home + DistanceToNonPresent(before, last)
    BY <1>4, <2>4, <2>8
  <2> QED BY <1>3, <1>8, <2>4, <2>7, <2>9 DEF home
<1> QED BY <1>9, <1>10, <1>11 DEF home

\* A round of the loop that exchanges the value in hand passes a present slot.
LEMMA PassPresentKeepsPassed ==
  ASSUME OlpInv, PassedInv, PassPresent
  PROVE  PassedInv'
<1>1. /\ pc = "insert" /\ value' = value /\ before' = before
      /\ index \in Present(slots_) /\ index' = index + 1 /\ index \in Nat
  BY DEF PassPresent, OlpInv, LoopInv
<1>2. /\ Array(before) /\ OrderedSlots(before) /\ DOMAIN slots_ = DOMAIN before
      /\ \A j \in DOMAIN before : index <= j => slots_[j] = before[j]
  BY <1>1 DEF PassedInv
<1>3. \A j \in DOMAIN before : j \in Nat
  BY <1>2, SlotValues
<1>4. /\ DOMAIN slots_' = DOMAIN slots_
      /\ \A j \in DOMAIN slots_ : j # index => slots_'[j] = slots_[j]
  BY DEF PassPresent
<1>5. before[index].tag = "present"
  BY <1>1, <1>2 DEF Present
<1>6. \A j \in DOMAIN before : index + 1 <= j => slots_'[j] = before[j]
  BY <1>1, <1>2, <1>3, <1>4
<1>7. \A j \in DOMAIN before : j < index + 1 => j < index \/ j = index
  BY <1>1, <1>3
<1>8. \A j \in DOMAIN before : H1(value) <= j /\ j < index + 1 =>
        \/ before[j].tag = "present"
        \/ \A k \in DOMAIN before : H1(value) <= k /\ k <= j => ~Turns(before, H1(value), k)
  BY <1>1, <1>5, <1>7 DEF PassedInv
<1>9. H1(value)' = H1(value) /\ (\A slots, home, k : Turns(slots, home, k)' = Turns(slots, home, k))
  BY <1>1 DEF H1, Turns
<1> QED BY <1>1, <1>2, <1>4, <1>6, <1>8, <1>9 DEF PassedInv, Array, OrderedSlots, IsEmpty, Turns, H1

\* One that passes a tombstone has displaced nothing, and all slots so far have
\* values that prefer the slot of the argument or an earlier one.
LEMMA PassTombstoneKeepsPassed ==
  ASSUME SetInv, PassedInv, PassTombstone
  PROVE  PassedInv'
<1>1. /\ pc = "insert" /\ UNCHANGED <<value, before, slots_>>
      /\ index \in Tombstones(slots_) /\ index' = index + 1 /\ ~TombstoneUsable
  BY DEF PassTombstone
<1>2. /\ v \in Number /\ index \in Nat /\ value \in Number
      /\ \A j \in H1(v) .. index - 1 : ~IsEmpty(slots_, j)
      /\ Array(slots_) /\ OrderedSlots(slots_)
  BY <1>1, CapacityAssumption DEF SetInv, OlpInv, LoopInv, ArrayInv, HandInv, Number
<1>3. index \in DOMAIN slots_ /\ ~IsEmpty(slots_, index)
  BY <1>1 DEF Tombstones, IsEmpty
<1>4. \A j \in DOMAIN slots_ : /\ j \in Nat /\ slots_[j].value \in Number
                               /\ H1(slots_[j].value) \in Nat
  BY <1>2, SlotValues
<1>5. v > slots_[index].value
  BY <1>1 DEF TombstoneUsable
<1>6. v = value /\ slots_ = before
  <2>1. ~(v < slots_[index].value)
    BY <1>2, <1>3, <1>4, <1>5 DEF Number
  <2>2. ~Displacing
    BY <1>2, <1>3, <2>1 DEF Displacing
  <2> QED BY <1>1, <2>2 DEF SetInv, HandInv
<1>7. H1(value) \in Nat
  BY <1>2, H1Range
<1>8. ASSUME NEW k \in DOMAIN before, H1(value) <= k, k <= index
      PROVE  ~Turns(before, H1(value), k)
  <2>1. k \in Nat /\ slots_[k].value \in Number /\ slots_[index].value \in Number
    BY <1>3, <1>4, <1>6
  <2>2. k = index \/ (k < index /\ k \in H1(v) .. index - 1)
    BY <1>2, <1>6, <1>7, <1>8, <2>1
  <2>3. ~IsEmpty(slots_, k)
    BY <1>2, <1>3, <2>2
  <2>4. slots_[k].value <= value
    <3>1. CASE k = index
      BY <1>2, <1>5, <1>6, <2>1, <3>1 DEF Number
    <3>2. CASE k < index
      <4>1. slots_[k].value < slots_[index].value
        BY <1>2, <1>3, <1>6, <2>3, <3>2 DEF OrderedSlots
      <4> QED BY <1>2, <1>5, <1>6, <2>1, <4>1 DEF Number
    <3> QED BY <2>2, <3>1, <3>2
  <2>5. H1(slots_[k].value) <= H1(value)
    BY <1>2, <2>1, <2>4, H1Monotone
  <2> QED BY <1>4, <1>6, <1>7, <2>3, <2>5 DEF Turns
<1>9. \A j \in DOMAIN before : H1(value) <= j /\ j < index + 1 =>
        \/ before[j].tag = "present"
        \/ \A k \in DOMAIN before : H1(value) <= k /\ k <= j => ~Turns(before, H1(value), k)
  <2> SUFFICES ASSUME NEW j \in DOMAIN before, H1(value) <= j, j < index + 1
               PROVE  \/ before[j].tag = "present"
                      \/ \A k \in DOMAIN before :
                           H1(value) <= k /\ k <= j => ~Turns(before, H1(value), k)
    OBVIOUS
  <2>1. j \in Nat
    BY <1>4, <1>6
  <2>2. CASE j < index
    BY <1>1, <2>2 DEF PassedInv
  <2>3. CASE j = index
    BY <1>8, <2>3
  <2> QED BY <1>2, <2>1, <2>2, <2>3
<1>10. \A j \in DOMAIN before : index + 1 <= j => slots_[j] = before[j]
  BY <1>6
<1> QED BY <1>1, <1>2, <1>6, <1>9, <1>10 DEF PassedInv, Array, OrderedSlots, IsEmpty, Turns, H1

\* Every step keeps what the loop knows of the slots that it has passed.
LEMMA PassedStep ==
  ASSUME SetInv, PassedInv, [HoverNext]_allVars
  PROVE  PassedInv'
<1>1. ASSUME NEW x \in Values, Insert(x) PROVE PassedInv'
  <2>1. CASE pc' = "insert"
    <3>1. /\ value' = x /\ index' = H1(x) /\ before' = slots_ /\ slots_' = slots_
          /\ Array(slots_) /\ OrderedSlots(slots_) /\ x \in Number
      BY <1>1, <2>1, CapacityAssumption DEF Insert, SetInv, OlpInv, ArrayInv, Number
    <3>2. \A j \in DOMAIN slots_ : ~(H1(x) <= j /\ j < H1(x))
      <4>1. \A j \in DOMAIN slots_ : j \in Nat
        BY <3>1, SlotValues
      <4>2. H1(x) \in Nat
        BY <3>1, H1Range
      <4> QED BY <4>1, <4>2
    <3>3. H1(value)' = H1(x)
      BY <3>1 DEF H1
    <3> QED BY <3>1, <3>2, <3>3 DEF PassedInv, Array, OrderedSlots, IsEmpty
  <2>2. CASE pc' # "insert"
    BY <2>2 DEF PassedInv
  <2> QED BY <2>1, <2>2
<1>2. ASSUME NEW x, Erase(x) PROVE PassedInv'
  BY <1>2 DEF Erase, PassedInv
<1>3. CASE HoverStep
  <2>1. CASE FillSlot \/ FindSame
    BY <2>1 DEF FillSlot, FindSame, Return, PassedInv
  <2> QED BY <1>3, <2>1, PassPresentKeepsPassed, PassTombstoneKeepsPassed
          DEF HoverStep, Step, SetInv
<1>4. CASE UNCHANGED allVars
  <2>1. UNCHANGED <<pc, slots_, value, index, before>>
    BY <1>4 DEF allVars, vars
  <2> QED BY <2>1 DEF PassedInv, Array, OrderedSlots, IsEmpty, Turns, H1
<1>5. CASE AnyCall
  BY <1>1, <1>2, <1>5 DEF AnyCall
<1>6. CASE DoAnInsert
  BY <1>1, <1>6 DEF DoAnInsert
<1>7. CASE EraseOne
  BY <1>2, <1>7 DEF EraseOne
<1> QED BY <1>3, <1>4, <1>5, <1>6, <1>7 DEF HoverNext

\* The averages that the experiment prints, computed from the table, are of what
\* calls do: the lookup of an absent number takes one of the lengths averaged,
\* and an insert no more than the longest of them.
THEOREM AveragesCorrect == HoverSpec => AveragesAreOfCalls
<1> DEFINE lookups == pc = "idle" =>
                        \A x \in 0 .. HashSpace - 1 :
                          ~Contains(x) /\ StopSlot(x) # {}
                            => ProbeLength(x) \in NotFoundLengths(H1(x))
           inserts == pc = "insert" /\ index \in DOMAIN before =>
                        \E length \in InsertLengths(before, H1(value)) :
                          index - H1(value) + 1 <= length
<1>1. SetInv => lookups
  BY NotFoundIsAveraged DEF SetInv, OlpInv, ArrayInv, Number
<1>2. SetInv /\ PassedInv => inserts
  <2> SUFFICES ASSUME SetInv, PassedInv, pc = "insert", index \in DOMAIN before
               PROVE  \E length \in InsertLengths(before, H1(value)) :
                        index - H1(value) + 1 <= length
    OBVIOUS
  <2>1. value \in Number
    BY CapacityAssumption DEF SetInv, HandInv, Number
  <2> QED BY <2>1, InsertIsAveraged
<1>3. HoverInit => PassedInv
  BY DEF HoverInit, Init, PassedInv
<1>4. inserts =>
        [result' = "inserted" /\ pc = "insert" /\ index \in DOMAIN before =>
           \E length \in InsertLengths(before, H1(value)) :
             index - H1(value) + 1 <= length]_vars
  OBVIOUS
<1> HIDE DEF lookups, inserts
<1>5. []lookups /\ []inserts => AveragesAreOfCalls
  BY <1>4, PTL DEF AveragesAreOfCalls, lookups
<1> QED BY <1>1, <1>2, <1>3, <1>5, PassedStep, SetInvHolds, PTL DEF HoverSpec
=============================================================================
