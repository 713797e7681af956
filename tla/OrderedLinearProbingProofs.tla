---------------------- MODULE OrderedLinearProbingProofs ----------------------
(***************************************************************************)
(* The set of ordered_linear_probing_set.h answers correctly for any       *)
(* values and any sequence of calls, provided that larger values do not    *)
(* hash lower; and, whatever the hasher, its recursion is bounded.         *)
(*                                                                         *)
(* The first layer, Nested, counts: what the calls have still to insert    *)
(* fits the table that a rehash has sized.  The second, Sorted, is about  *)
(* where the values are.                                                   *)
(***************************************************************************)
EXTENDS OrderedLinearProbing, FiniteSetTheorems, WellFoundedInduction, TLAPS

Slot == Values \cup {kMax}

Array(s) == \E n \in Nat : s \in [0 .. n - 1 -> Slot]

\* The last slot is free, and it is none that a hash maps to: the sentinel that
\* stops a lookup.
LastFree(s) ==
  \A i \in DOMAIN s : i + 1 \notin DOMAIN s => slot_count_ <= i /\ s[i] = kMax

\* Values to insert
Frame(f) ==
  /\ DOMAIN f \subseteq Nat
  /\ IsFiniteSet(DOMAIN f)
  /\ \A i \in DOMAIN f : f[i] \in Values

\* rehash() moves values, to which the mark of a free slot does not belong.
Moves(f) == \A i \in DOMAIN f : f[i] # kMax

ArrayInv ==
  /\ hasher \in Hashers
  /\ slot_count_ \in Nat
  /\ max_is_present_ \in BOOLEAN
  /\ Array(slots_)
  /\ LastFree(slots_)
  /\ slot_count_ = 0 <=> DOMAIN slots_ = {}
  /\ IsFiniteSet(Full(slots_))
  /\ occupied_slot_count_ = Cardinality(Full(slots_))

\* The innermost of two calls is a rehash that an insert made; the table that it
\* fills has room for all that it moves and for the argument of the insert.
StackInv ==
  /\ pc \in {"idle", "working"}
  /\ pc = "idle" => todo = <<>> /\ call = Idle
  /\ pc = "working" =>
       /\ call.op \in {"insert", "reserve"}
       /\ call.op = "insert" => call.arg \in Values /\ todo[1] = <<call.arg>>
       /\ call.op = "reserve" => Moves(todo[1])
       /\ Frame(todo[1])
       /\ \/ todo = <<todo[1]>>
          \/ /\ todo = <<todo[1], todo[2]>>
             /\ Frame(todo[2]) /\ Moves(todo[2])
             /\ (occupied_slot_count_ + Cardinality(DOMAIN todo[2]) + 1) * 8
                  <= slot_count_ * 7

Nested == ArrayInv /\ StackInv

-----------------------------------------------------------------------------
(* Arithmetic and sets of numbers *)

LEMMA Constants ==
  /\ HashSpace \in Nat \ {0}
  /\ kMax \in Nat
  /\ Values \subseteq Nat
  /\ \A value \in Slot : value \in Nat /\ value <= kMax
  /\ SpareSlots \in Nat \ {0}
BY ParameterAssumption DEF kMax, Slot

\* A nonempty set of natural numbers has a least element.
LEMMA LeastExists ==
  ASSUME NEW S, S \subseteq Nat, S # {}
  PROVE  \E x \in S : Least(S) = {x} /\ \A y \in S : x <= y
<1> DEFINE below == {ss \in Nat \X Nat : ss[1] < ss[2]}
<1>1. IsWellFoundedOn(below, Nat)
  BY NatLessThanWellFounded, Zenon DEF OpToRel
<1> HIDE DEF below
<1>2. PICK x \in S : \A y \in S : <<y, x>> \notin below
  BY <1>1, WFMin
<1>3. ASSUME NEW y \in S PROVE x <= y
  <2>1. x \in Nat /\ y \in Nat
    OBVIOUS
  <2>2. ~(y < x)
    <3>1. y < x => <<y, x>> \in below
      BY <2>1 DEF below
    <3> QED BY <1>2, <3>1
  <2> QED BY <2>1, <2>2
<1>4. Least(S) = {x}
  <2>1. \A y \in S : y <= x => y = x
    BY <1>3
  <2> QED BY <1>3, <2>1 DEF Least
<1> QED BY <1>3, <1>4

\* The hash of a value maps to one of the first slot_count_ slots.
LEMMA PreferredRange ==
  ASSUME hasher \in Hashers, slot_count_ \in Nat \ {0}, NEW value \in Values
  PROVE  PreferredSlot(value) \in 0 .. slot_count_ - 1
<1> DEFINE h == hasher[value]
           n == slot_count_
           m == HashSpace
<1>1. h \in 0 .. m - 1 /\ n \in Nat \ {0} /\ m \in Nat \ {0}
  BY ParameterAssumption
<1> HIDE DEF h, n, m
<1>2. h * n \in Nat /\ h * n < m * n
  BY <1>1
<1>3. PICK q \in Int : q = (h * n) \div m
  BY <1>1
<1>4. m * q <= h * n /\ h * n < m * q + m
  BY <1>1, <1>3
<1>5. q >= 0
  BY <1>1, <1>2, <1>4
<1>6. q < n
  BY <1>1, <1>2, <1>4
<1>7. (h * n) \div m \in 0 .. n - 1
  BY <1>1, <1>3, <1>5, <1>6
<1> QED BY <1>7 DEF PreferredSlot, h, n, m

\* A table of the size that an insert rehashes to has room for the argument
\* beside the values there were: the comment "rehash to be 3/4 full".
LEMMA RehashHasRoom ==
  ASSUME NEW n \in Nat
  PROVE  /\ ((n + 1) * 4 + 2) \div 3 \in Nat \ {0}
         /\ (n + 1) * 8 <= (((n + 1) * 4 + 2) \div 3) * 7
<1> DEFINE q == ((n + 1) * 4 + 2) \div 3
<1>1. q \in Int /\ 3 * q <= (n + 1) * 4 + 2 /\ (n + 1) * 4 + 2 < 3 * q + 3
  OBVIOUS
<1> HIDE DEF q
<1>2. q \in Nat \ {0} /\ (n + 1) * 8 <= q * 7
  BY <1>1
<1> QED BY <1>2 DEF q

-----------------------------------------------------------------------------
(* The stack of calls *)

\* What Len, Top and the operations on `todo` are for one call and for two.
LEMMA OneCall ==
  ASSUME todo = <<todo[1]>>
  PROVE  /\ Len(todo) = 1 /\ DOMAIN todo = {1} /\ Top = todo[1]
         /\ \A f : Append(todo, f) = <<todo[1], f>>
         /\ Done = <<Restrict(todo[1], DOMAIN todo[1] \ Least(DOMAIN todo[1]))>>
<1>1. Len(todo) = 1 /\ DOMAIN todo = {1}
  <2>1. PICK g : todo = <<g>>
    OBVIOUS
  <2> QED BY <2>1
<1>3. ASSUME NEW f PROVE Append(todo, f) = <<todo[1], f>>
  <2>1. PICK g : todo = <<g>>
    OBVIOUS
  <2>2. <<g>> \in Seq({g, f}) /\ Len(<<g>>) = 1
    OBVIOUS
  <2> DEFINE two == Append(<<g>>, f)
  <2>3. two \in Seq({g, f}) /\ Len(two) = 2 /\ two[1] = g /\ two[2] = f
    BY <2>2
  <2>4. two = [i \in 1 .. 2 |-> two[i]]
    BY <2>3
  <2> HIDE DEF two
  <2>5. [i \in 1 .. 2 |-> two[i]] = <<two[1], two[2]>>
    OBVIOUS
  <2>6. two = <<todo[1], f>>
    BY <2>1, <2>3, <2>4, <2>5
  <2> QED BY <2>1, <2>6 DEF two
<1>2. Done = <<Restrict(todo[1], DOMAIN todo[1] \ Least(DOMAIN todo[1]))>>
  <2> DEFINE f == Restrict(todo[1], DOMAIN todo[1] \ Least(DOMAIN todo[1]))
  <2>1. Done = [todo EXCEPT ![1] = f]
    BY <1>1 DEF Done
  <2> HIDE DEF f
  <2>2. [todo EXCEPT ![1] = f] = <<f>>
    <3>1. PICK g : todo = <<g>>
      OBVIOUS
    <3> QED BY <3>1
  <2> QED BY <2>1, <2>2 DEF f
<1> QED BY <1>1, <1>2, <1>3 DEF Top

LEMMA TwoCalls ==
  ASSUME todo = <<todo[1], todo[2]>>
  PROVE  /\ Len(todo) = 2 /\ DOMAIN todo = {1, 2} /\ Top = todo[2]
         /\ SubSeq(todo, 1, Len(todo) - 1) = <<todo[1]>>
         /\ Done = <<todo[1], Restrict(todo[2], DOMAIN todo[2] \ Least(DOMAIN todo[2]))>>
<1>1. Len(todo) = 2 /\ DOMAIN todo = {1, 2}
  OBVIOUS
<1>2. SubSeq(todo, 1, Len(todo) - 1) = <<todo[1]>>
  <2>1. PICK g, h : todo = <<g, h>>
    OBVIOUS
  <2>2. <<g, h>> \in Seq({g, h}) /\ Len(<<g, h>>) = 2
    OBVIOUS
  <2> DEFINE one == SubSeq(<<g, h>>, 1, 1)
  <2>3. one \in Seq({g, h}) /\ Len(one) = 1 /\ one[1] = g
    BY <2>2
  <2>4. one = [i \in 1 .. 1 |-> one[i]]
    BY <2>3
  <2> HIDE DEF one
  <2>5. [i \in 1 .. 1 |-> one[i]] = <<one[1]>>
    OBVIOUS
  <2>6. one = <<todo[1]>>
    BY <2>1, <2>3, <2>4, <2>5
  <2> QED BY <1>1, <2>1, <2>6 DEF one
<1>3. Done = <<todo[1], Restrict(todo[2], DOMAIN todo[2] \ Least(DOMAIN todo[2]))>>
  <2> DEFINE f == Restrict(todo[2], DOMAIN todo[2] \ Least(DOMAIN todo[2]))
  <2>1. Done = [todo EXCEPT ![2] = f]
    BY <1>1 DEF Done
  <2> HIDE DEF f
  <2>2. [todo EXCEPT ![2] = f] = <<todo[1], f>>
    <3>1. PICK g, h : todo = <<g, h>>
      OBVIOUS
    <3> QED BY <3>1
  <2> QED BY <2>1, <2>2 DEF f
<1> QED BY <1>1, <1>2, <1>3 DEF Top

\* The argument of the next insert is taken out of a frame.
LEMMA FrameNext ==
  ASSUME NEW f, Frame(f), DOMAIN f # {},
         NEW g, g = Restrict(f, DOMAIN f \ Least(DOMAIN f))
  PROVE  /\ Frame(g)
         /\ Cardinality(DOMAIN g) \in Nat
         /\ Cardinality(DOMAIN f) = Cardinality(DOMAIN g) + 1
         /\ Range(f) = Range(g) \cup {f[i] : i \in Least(DOMAIN f)}
         /\ Moves(f) => Moves(g)
<1>1. PICK i \in DOMAIN f : Least(DOMAIN f) = {i}
  BY LeastExists DEF Frame
<1>2. /\ DOMAIN g = DOMAIN f \ {i}
      /\ \A j \in DOMAIN g : g[j] = f[j]
  BY <1>1 DEF Restrict
<1>3. /\ IsFiniteSet(DOMAIN g)
      /\ Cardinality(DOMAIN g) = Cardinality(DOMAIN f) - 1
  BY <1>2, FS_RemoveElement DEF Frame
<1>4. Cardinality(DOMAIN g) \in Nat /\ Cardinality(DOMAIN f) \in Nat
  BY <1>3, FS_CardinalityType DEF Frame
<1>5. Frame(g) /\ (Moves(f) => Moves(g))
  BY <1>2, <1>3 DEF Frame, Moves
<1>6. Range(f) = Range(g) \cup {f[i]}
  BY <1>2 DEF Range
<1>7. {f[j] : j \in Least(DOMAIN f)} = {f[i]}
  BY <1>1
<1> QED BY <1>3, <1>4, <1>5, <1>6, <1>7

\* Which frame Upcoming is of, and that a call still to be made has an argument.
LEMMA UpcomingIsNext ==
  ASSUME Frame(Top)
  PROVE  /\ Upcoming = {} <=> DOMAIN Top = {}
         /\ Upcoming \subseteq Range(Top)
         /\ Upcoming \subseteq Values
         /\ \A value \in Upcoming : Upcoming = {value}
<1>1. CASE DOMAIN Top = {}
  BY <1>1 DEF Upcoming, Least
<1>2. CASE DOMAIN Top # {}
  <2>1. PICK i \in DOMAIN Top : Least(DOMAIN Top) = {i}
    BY <1>2, LeastExists DEF Frame
  <2> QED BY <1>2, <2>1 DEF Upcoming, Range, Frame
<1> QED BY <1>1, <1>2

\* The values of the array are a frame.
LEMMA FullFrame ==
  ASSUME ArrayInv, NEW f, f = Restrict(slots_, Full(slots_))
  PROVE  /\ Frame(f) /\ Moves(f)
         /\ Cardinality(DOMAIN f) = occupied_slot_count_
         /\ Range(f) = SlotValues
<1>1. PICK n \in Nat : slots_ \in [0 .. n - 1 -> Slot]
  BY DEF ArrayInv, Array
<1>2. DOMAIN f = Full(slots_) /\ \A i \in DOMAIN f : f[i] = slots_[i]
  BY DEF Restrict
<1>3. Full(slots_) \subseteq 0 .. n - 1 /\ \A i \in Full(slots_) : slots_[i] # kMax
  BY <1>1 DEF Full
<1>4. Frame(f) /\ Moves(f)
  BY <1>1, <1>2, <1>3 DEF Frame, Moves, ArrayInv, Slot
<1>5. Range(f) = SlotValues
  BY <1>1, <1>2 DEF Range, SlotValues, Full
<1> QED BY <1>2, <1>4, <1>5 DEF ArrayInv

-----------------------------------------------------------------------------
(* The second loop of insert() *)

\* A value that is not there is put into slot p, and q is the first free slot
\* from there on.
Shifts(value, p, q, t) ==
  /\ value \in Values \ {kMax}
  /\ p \in Stop(value)
  /\ slots_[p] # value
  /\ q \in Least({i \in DOMAIN slots_ : p <= i /\ slots_[i] = kMax})
  /\ t = Shifted(value, p, q)

\* What is in the slots afterwards.
LEMMA ShiftFacts ==
  ASSUME ArrayInv, NEW value, NEW p, NEW q, NEW t, Shifts(value, p, q, t)
  PROVE  /\ \A i \in DOMAIN slots_ : i \in Nat /\ slots_[i] \in Slot
         /\ p \in DOMAIN slots_ /\ q \in DOMAIN slots_ /\ p <= q
         /\ slots_[q] = kMax
         /\ \A i \in DOMAIN slots_ : p <= i /\ i < q => slots_[i] # kMax
         /\ \A i \in Nat : i < q => i \in DOMAIN slots_
         /\ DOMAIN t = DOMAIN slots_ \cup {q + 1}
         /\ t[p] = value
         /\ \A i \in DOMAIN slots_ : i < p => t[i] = slots_[i]
         /\ \A i \in DOMAIN slots_ : p < i /\ i <= q => t[i] = slots_[i - 1]
         /\ \A i \in DOMAIN slots_ : q < i => t[i] = slots_[i]
         /\ t[q + 1] = IF q + 1 \in DOMAIN slots_ THEN slots_[q + 1] ELSE kMax
         /\ Array(t)
<1>1. PICK n \in Nat : slots_ \in [0 .. n - 1 -> Slot]
  BY DEF ArrayInv, Array
<1>2. p \in 0 .. n - 1 /\ q \in 0 .. n - 1 /\ p <= q /\ slots_[q] = kMax
  BY <1>1 DEF Shifts, Stop, Least
<1>3. ASSUME NEW i \in DOMAIN slots_, p <= i, i < q
      PROVE  slots_[i] # kMax
  <2>1. i \in 0 .. n - 1
    BY <1>1
  <2>2. ~(q <= i)
    BY <1>2, <1>3, <2>1
  <2> QED BY <1>3, <2>2 DEF Shifts, Least
<1>4. \A i \in Nat : i < q => i \in DOMAIN slots_
  BY <1>1, <1>2
<1>5. /\ DOMAIN t = DOMAIN slots_ \cup {q + 1}
      /\ \A i \in DOMAIN t :
           t[i] = IF i = p THEN value
                  ELSE IF p < i /\ i <= q THEN slots_[i - 1]
                  ELSE IF i \in DOMAIN slots_ THEN slots_[i] ELSE kMax
  BY DEF Shifts, Shifted
<1>6. Array(t)
  <2>1. t \in [DOMAIN t -> Slot]
    <3>1. t = [i \in DOMAIN t |-> t[i]]
      BY DEF Shifts, Shifted
    <3>2. ASSUME NEW i \in DOMAIN t PROVE t[i] \in Slot
      <4>1. p < i /\ i <= q => i - 1 \in DOMAIN slots_
        BY <1>1, <1>2, <1>5
      <4>2. value \in Slot /\ kMax \in Slot
        BY DEF Shifts, Slot
      <4>3. \A j \in DOMAIN slots_ : slots_[j] \in Slot
        BY <1>1
      <4> QED BY <1>5, <4>1, <4>2, <4>3
    <3> QED BY <3>1, <3>2
  <2>2. \E m \in Nat : DOMAIN t = 0 .. m - 1
    <3>1. CASE q + 1 < n
      <4>1. DOMAIN t = 0 .. n - 1
        BY <1>1, <1>2, <1>5, <3>1
      <4> QED BY <4>1
    <3>2. CASE q + 1 = n
      <4>1. DOMAIN t = 0 .. (n + 1) - 1
        BY <1>1, <1>2, <1>5, <3>2
      <4> QED BY <4>1
    <3> QED BY <1>2, <3>1, <3>2
  <2> QED BY <2>1, <2>2 DEF Array
<1>7. /\ t[p] = value
      /\ \A i \in DOMAIN slots_ : i < p => t[i] = slots_[i]
      /\ \A i \in DOMAIN slots_ : p < i /\ i <= q => t[i] = slots_[i - 1]
      /\ \A i \in DOMAIN slots_ : q < i => t[i] = slots_[i]
      /\ t[q + 1] = IF q + 1 \in DOMAIN slots_ THEN slots_[q + 1] ELSE kMax
  BY <1>1, <1>2, <1>5
<1> QED BY <1>1, <1>2, <1>3, <1>4, <1>5, <1>6, <1>7

\* One slot more is taken, and the values are those from before and the new one.
LEMMA ShiftAdds ==
  ASSUME ArrayInv, NEW value, NEW p, NEW q, NEW t, Shifts(value, p, q, t)
  PROVE  /\ Full(t) = Full(slots_) \cup {q}
         /\ q \notin Full(slots_)
         /\ {t[i] : i \in DOMAIN t} \ {kMax} = SlotValues \cup {value}
         /\ LastFree(t) /\ Array(t)
         /\ DOMAIN t # {} /\ DOMAIN slots_ # {}
<1>0. value # kMax
  BY DEF Shifts
<1>1. /\ \A i \in DOMAIN slots_ : i \in Nat /\ slots_[i] \in Slot
      /\ p \in DOMAIN slots_ /\ q \in DOMAIN slots_ /\ p <= q
      /\ slots_[q] = kMax
      /\ \A i \in DOMAIN slots_ : p <= i /\ i < q => slots_[i] # kMax
      /\ \A i \in Nat : i < q => i \in DOMAIN slots_
      /\ DOMAIN t = DOMAIN slots_ \cup {q + 1}
      /\ t[p] = value
      /\ \A i \in DOMAIN slots_ : i < p => t[i] = slots_[i]
      /\ \A i \in DOMAIN slots_ : p < i /\ i <= q => t[i] = slots_[i - 1]
      /\ \A i \in DOMAIN slots_ : q < i => t[i] = slots_[i]
      /\ t[q + 1] = IF q + 1 \in DOMAIN slots_ THEN slots_[q + 1] ELSE kMax
      /\ Array(t)
  BY ShiftFacts, Zenon
<1>2. \A i \in DOMAIN slots_ : p < i /\ i <= q => i - 1 \in DOMAIN slots_ /\ p <= i - 1 /\ i - 1 < q
  BY <1>1
<1>3. Full(t) = Full(slots_) \cup {q}
  <2>1. ASSUME NEW i \in DOMAIN slots_ PROVE t[i] # kMax <=> slots_[i] # kMax \/ i = q
    <3>1. CASE i < p \/ q < i
      BY <1>1, <3>1
    <3>2. CASE i = p
      BY <1>0, <1>1, <3>2
    <3>3. CASE p < i /\ i <= q
      BY <1>1, <1>2, <3>3
    <3> QED BY <1>1, <3>1, <3>2, <3>3
  <2>2. q + 1 \notin DOMAIN slots_ => t[q + 1] = kMax
    BY <1>1
  <2> QED BY <1>1, <2>1, <2>2 DEF Full
<1>4. ASSUME NEW i \in DOMAIN t, t[i] # kMax
      PROVE  t[i] \in SlotValues \cup {value}
  <2>1. CASE i \in DOMAIN slots_ /\ (i < p \/ q < i)
    BY <1>1, <1>4, <2>1 DEF SlotValues
  <2>2. CASE i = p
    BY <1>1, <2>2
  <2>3. CASE i \in DOMAIN slots_ /\ p < i /\ i <= q
    BY <1>1, <1>2, <1>4, <2>3 DEF SlotValues
  <2>4. CASE i \notin DOMAIN slots_
    BY <1>1, <1>4, <2>4
  <2> QED BY <1>1, <2>1, <2>2, <2>3, <2>4
<1>5. ASSUME NEW i \in DOMAIN slots_, slots_[i] # kMax
      PROVE  \E j \in DOMAIN t : t[j] = slots_[i]
  <2>1. CASE i < p \/ q < i
    BY <1>1, <2>1
  <2>2. CASE p <= i /\ i < q
    <3>1. i + 1 \in DOMAIN slots_ /\ p < i + 1 /\ i + 1 <= q
      BY <1>1, <2>2
    <3>2. t[i + 1] = slots_[i]
      BY <1>1, <3>1
    <3> QED BY <1>1, <3>1, <3>2
  <2>3. i # q
    BY <1>1, <1>5
  <2> QED BY <1>1, <2>1, <2>2, <2>3
<1>6. {t[i] : i \in DOMAIN t} \ {kMax} = SlotValues \cup {value}
  BY <1>0, <1>1, <1>4, <1>5 DEF SlotValues
<1>7. LastFree(t)
  <2> SUFFICES ASSUME NEW i \in DOMAIN t, i + 1 \notin DOMAIN t
               PROVE  slot_count_ <= i /\ t[i] = kMax
    BY DEF LastFree
  <2>1. \A j \in DOMAIN slots_ : j + 1 \notin DOMAIN slots_ => slot_count_ <= j /\ slots_[j] = kMax
    BY DEF ArrayInv, LastFree
  <2>2. i + 1 \notin DOMAIN slots_ /\ i # q
    BY <1>1
  <2>3. CASE i \in DOMAIN slots_
    <3>1. ~(i < q)
      BY <1>1, <2>2, <2>3
    <3> QED BY <1>1, <2>1, <2>2, <2>3, <3>1
  <2>4. CASE i \notin DOMAIN slots_
    <3>1. i = q + 1 /\ t[i] = kMax
      BY <1>1, <2>4
    <3>2. slot_count_ <= q
      BY <1>1, <2>1, <2>4, <3>1
    <3> QED BY <1>1, <3>1, <3>2 DEF ArrayInv
  <2> QED BY <2>3, <2>4
<1> QED BY <1>1, <1>3, <1>6, <1>7 DEF Full

-----------------------------------------------------------------------------
(* The first layer is kept *)

LEMMA InitNested == Init => Nested
<1> SUFFICES ASSUME Init PROVE Nested
  OBVIOUS
<1>1. slots_ \in [0 .. 0 - 1 -> Slot] /\ DOMAIN slots_ = {}
  BY DEF Init
<1>2. Full(slots_) = {}
  BY <1>1 DEF Full
<1>3. Array(slots_) /\ LastFree(slots_)
  BY <1>1 DEF Array, LastFree
<1>4. ArrayInv
  BY <1>1, <1>2, <1>3, FS_EmptySet DEF Init, ArrayInv
<1> QED BY <1>4 DEF Init, Nested, StackInv

\* An array of free slots.
LEMMA RehashKeepsArray ==
  ASSUME ArrayInv, NEW n \in Nat \ {0}, Rehash(n), hasher' = hasher
  PROVE  ArrayInv' /\ occupied_slot_count_' = 0 /\ slot_count_' = n /\ Full(slots_') = {}
<1> DEFINE s == [i \in 0 .. n + SpareSlots - 1 |-> kMax]
<1>1. slots_' = s /\ slot_count_' = n /\ occupied_slot_count_' = 0 /\ max_is_present_' = max_is_present_
  BY DEF Rehash
<1>2. n + SpareSlots \in Nat \ {0} /\ SpareSlots \in Nat \ {0}
  BY Constants
<1>3. s \in [0 .. (n + SpareSlots) - 1 -> Slot] /\ DOMAIN s = 0 .. n + SpareSlots - 1
  BY <1>2 DEF Slot
<1>4. Full(s) = {}
  BY DEF Full
<1>5. \A i \in DOMAIN s : i + 1 \notin DOMAIN s => n <= i /\ s[i] = kMax
  BY <1>2, <1>3
<1>6. DOMAIN s # {}
  <2>1. 0 \in DOMAIN s
    BY <1>2, <1>3
  <2> QED BY <2>1
<1> HIDE DEF s
<1>7. Array(s)
  BY <1>2, <1>3 DEF Array
<1>8. Array(slots_)' /\ LastFree(slots_)' /\ Full(slots_)' = {}
  BY <1>1, <1>4, <1>5, <1>7 DEF Array, LastFree, Full
<1> QED BY <1>1, <1>6, <1>8, FS_EmptySet DEF ArrayInv, Full

LEMMA InsertNested ==
  ASSUME Nested, NEW value \in Values, Insert(value)
  PROVE  Nested'
<1>1. /\ pc' = "working" /\ call' = [op |-> "insert", arg |-> value]
      /\ todo' = <<<<value>>>>
      /\ UNCHANGED <<hasher, table>>
  BY DEF Insert, Begin
<1>2. ArrayInv'
  BY <1>1 DEF Nested, ArrayInv, table, Array, LastFree, Full
<1>3. Frame(<<value>>)
  <2>1. DOMAIN <<value>> = {1} /\ <<value>>[1] = value
    OBVIOUS
  <2> QED BY <2>1, FS_Singleton DEF Frame
<1>4. todo'[1] = <<value>>
  BY <1>1
<1>5. StackInv'
  BY <1>1, <1>3, <1>4 DEF StackInv, Frame, Moves
<1> QED BY <1>2, <1>5 DEF Nested

LEMMA ReserveNested ==
  ASSUME Nested, NEW count \in ReserveCounts, Reserve(count)
  PROVE  Nested'
<1>1. pc = "idle" /\ hasher' = hasher /\ ArrayInv
  BY DEF Reserve, Nested
<1>2. CASE Size(slots_) * 7 < count * 8
  <2>1. /\ Rehash(count)
        /\ call' = [op |-> "reserve", arg |-> count]
        /\ pc' = "working"
    BY <1>2 DEF Reserve
  <2>2. count \in Nat \ {0}
    <3>1. PICK n \in Nat : slots_ \in [0 .. n - 1 -> Slot]
      BY <1>1 DEF ArrayInv, Array
    <3>2. Size(slots_) \in Nat
      BY <3>1, FS_Interval, FS_CardinalityType DEF Size
    <3> QED BY <1>2, <3>2, ParameterAssumption
  <2>3. ArrayInv'
    BY <1>1, <2>1, <2>2, RehashKeepsArray
  <2> DEFINE f == Restrict(slots_, Full(slots_))
  <2>4. Frame(f) /\ Moves(f)
    BY <1>1, FullFrame
  <2>5. todo' = <<f>>
    <3>1. todo = <<>>
      BY <1>1 DEF Nested, StackInv
    <3> QED BY <2>1, <3>1 DEF Rehash
  <2> HIDE DEF f
  <2>6. todo'[1] = f
    BY <2>5
  <2>7. StackInv'
    BY <2>1, <2>4, <2>5, <2>6 DEF StackInv, Frame, Moves
  <2> QED BY <2>3, <2>7 DEF Nested
<1>3. CASE ~(Size(slots_) * 7 < count * 8)
  <2>1. Return("void") /\ UNCHANGED table
    BY <1>3 DEF Reserve
  <2>2. ArrayInv'
    BY <1>1, <2>1 DEF ArrayInv, table, Array, LastFree, Full
  <2>3. StackInv'
    BY <2>1 DEF Return, StackInv
  <2> QED BY <2>2, <2>3 DEF Nested
<1> QED BY <1>2, <1>3

\* Only the argument of a user is kMax.
LEMMA InsertMaxNested ==
  ASSUME Nested, InsertMax
  PROVE  Nested' /\ call.op = "insert" /\ call.arg = kMax /\ todo = <<todo[1]>>
<1>1. pc = "working" /\ kMax \in Upcoming
  BY DEF InsertMax
<1>2. ArrayInv'
  BY DEF Nested, ArrayInv, InsertMax, Array, LastFree, Full
<1>3. StackInv'
  BY DEF InsertMax, Return, StackInv
<1>4. todo = <<todo[1]>> /\ call.op = "insert"
  <2>1. CASE todo = <<todo[1], todo[2]>> /\ Frame(todo[2]) /\ Moves(todo[2])
    <3>1. Top = todo[2]
      BY <2>1, TwoCalls
    <3>2. kMax \in Range(todo[2])
      BY <1>1, <2>1, <3>1, UpcomingIsNext
    <3> QED BY <2>1, <3>2 DEF Range, Moves
  <2>2. CASE todo = <<todo[1]>> /\ Moves(todo[1])
    <3>1. Top = todo[1] /\ Frame(todo[1])
      BY <1>1, <2>2, OneCall DEF Nested, StackInv
    <3>2. kMax \in Range(todo[1])
      BY <1>1, <3>1, UpcomingIsNext
    <3> QED BY <2>2, <3>2 DEF Range, Moves
  <2> QED BY <1>1, <2>1, <2>2 DEF Nested, StackInv
<1>5. call.arg = kMax
  <2>1. Top = <<call.arg>> /\ Frame(Top)
    BY <1>1, <1>4, OneCall DEF Nested, StackInv
  <2>2. kMax \in Range(<<call.arg>>)
    BY <1>1, <2>1, UpcomingIsNext
  <2> QED BY <2>2 DEF Range
<1> QED BY <1>2, <1>3, <1>4, <1>5 DEF Nested

LEMMA InsertRehashNested ==
  ASSUME Nested, InsertRehash
  PROVE  /\ Nested'
         /\ todo = <<todo[1]>>
         /\ todo' = <<todo[1], Restrict(slots_, Full(slots_))>>
         /\ SlotValues' = {}
<1> DEFINE f == Restrict(slots_, Full(slots_))
           n == occupied_slot_count_
<1>1. /\ pc = "working" /\ Upcoming \ {kMax} # {} /\ NeedsRehash
      /\ Rehash(RehashedSlotCount)
      /\ hasher' = hasher /\ pc' = pc /\ call' = call
  BY DEF InsertRehash
<1>2. /\ Frame(f) /\ Moves(f) /\ Cardinality(DOMAIN f) = n
      /\ n \in Nat
  BY FullFrame, FS_CardinalityType DEF Nested, ArrayInv
<1>3. todo = <<todo[1]>>
  <2> SUFFICES ASSUME todo = <<todo[1], todo[2]>>, Frame(todo[2]),
                      (n + Cardinality(DOMAIN todo[2]) + 1) * 8 <= slot_count_ * 7
               PROVE  FALSE
    BY <1>1 DEF Nested, StackInv
  <2>1. Top = todo[2]
    BY TwoCalls
  <2>2. Cardinality(DOMAIN todo[2]) \in Nat
    BY FS_CardinalityType DEF Frame
  <2>3. slot_count_ \in Nat
    BY DEF Nested, ArrayInv
  <2> QED BY <1>1, <1>2, <2>2, <2>3 DEF NeedsRehash
<1>4. /\ RehashedSlotCount \in Nat \ {0}
      /\ (n + 1) * 8 <= RehashedSlotCount * 7
  BY <1>2, RehashHasRoom DEF RehashedSlotCount
<1>5. /\ ArrayInv' /\ occupied_slot_count_' = 0 /\ slot_count_' = RehashedSlotCount
      /\ Full(slots_') = {}
  BY <1>1, <1>4, RehashKeepsArray DEF Nested
<1>6. todo' = <<todo[1], f>>
  BY <1>1, <1>3, OneCall DEF Rehash
<1> HIDE DEF f
<1>7. todo'[1] = todo[1] /\ todo'[2] = f
  BY <1>6
<1>8. (0 + Cardinality(DOMAIN f) + 1) * 8 <= RehashedSlotCount * 7
  BY <1>2, <1>4
<1>9. StackInv'
  BY <1>1, <1>2, <1>5, <1>6, <1>7, <1>8 DEF Nested, StackInv, Frame, Moves
<1>10. SlotValues' = {}
  BY <1>5 DEF SlotValues, Full
<1> QED BY <1>3, <1>5, <1>6, <1>9, <1>10 DEF Nested, f

\* What PlaceValue does to the array.
LEMMA PlaceValueArray ==
  ASSUME Nested, PlaceValue
  PROVE  \E value \in Upcoming \ {kMax} :
           /\ value \in Values
           /\ ArrayInv'
           /\ UNCHANGED <<hasher, slot_count_, max_is_present_>>
           /\ \/ /\ \E p \in Stop(value) : slots_[p] = value
                 /\ Answer("present")
                 /\ UNCHANGED <<occupied_slot_count_, slots_>>
              \/ /\ \E p, q : Shifts(value, p, q, slots_')
                 /\ Answer("inserted")
                 /\ occupied_slot_count_' = occupied_slot_count_ + 1
                 /\ SlotValues' = SlotValues \cup {value}
<1>0. PICK value \in Upcoming \ {kMax} : \E p \in Stop(value) :
        \/ /\ slots_[p] = value
           /\ Answer("present")
           /\ UNCHANGED table
        \/ /\ slots_[p] # value
           /\ \E q \in Least({i \in DOMAIN slots_ : p <= i /\ slots_[i] = kMax}) :
                slots_' = Shifted(value, p, q)
           /\ occupied_slot_count_' = occupied_slot_count_ + 1
           /\ Answer("inserted")
           /\ UNCHANGED <<slot_count_, max_is_present_>>
  BY DEF PlaceValue
<1>1. PICK p \in Stop(value) :
        \/ /\ slots_[p] = value
           /\ Answer("present")
           /\ UNCHANGED table
        \/ /\ slots_[p] # value
           /\ \E q \in Least({i \in DOMAIN slots_ : p <= i /\ slots_[i] = kMax}) :
                slots_' = Shifted(value, p, q)
           /\ occupied_slot_count_' = occupied_slot_count_ + 1
           /\ Answer("inserted")
           /\ UNCHANGED <<slot_count_, max_is_present_>>
  BY <1>0
<1>2. hasher' = hasher /\ pc = "working" /\ ArrayInv
  BY DEF PlaceValue, Nested
<1>3. value \in Values
  <2>1. Frame(Top)
    BY <1>2, OneCall, TwoCalls DEF Nested, StackInv
  <2> QED BY <2>1, UpcomingIsNext
<1>4. CASE slots_[p] = value /\ Answer("present") /\ UNCHANGED table
  <2>1. ArrayInv'
    BY <1>2, <1>4 DEF ArrayInv, table, Array, LastFree, Full
  <2> QED BY <1>2, <1>3, <1>4, <2>1 DEF table
<1>5. CASE /\ slots_[p] # value
           /\ \E q \in Least({i \in DOMAIN slots_ : p <= i /\ slots_[i] = kMax}) :
                slots_' = Shifted(value, p, q)
           /\ occupied_slot_count_' = occupied_slot_count_ + 1
           /\ Answer("inserted")
           /\ UNCHANGED <<slot_count_, max_is_present_>>
  <2>1. PICK q \in Least({i \in DOMAIN slots_ : p <= i /\ slots_[i] = kMax}) :
          slots_' = Shifted(value, p, q)
    BY <1>5
  <2>2. Shifts(value, p, q, slots_')
    BY <1>3, <1>5, <2>1 DEF Shifts
  <2>4. /\ Full(slots_') = Full(slots_) \cup {q}
        /\ q \notin Full(slots_)
        /\ {slots_'[i] : i \in DOMAIN slots_'} \ {kMax} = SlotValues \cup {value}
        /\ LastFree(slots_') /\ Array(slots_')
        /\ DOMAIN slots_' # {} /\ DOMAIN slots_ # {}
    BY <1>2, <2>2, ShiftAdds
  <2>5. /\ IsFiniteSet(Full(slots_'))
        /\ Cardinality(Full(slots_')) = occupied_slot_count_ + 1
    BY <1>2, <2>4, FS_AddElement DEF ArrayInv
  <2>6. Array(slots_)' /\ LastFree(slots_)'
    BY <1>5, <2>4 DEF Array, LastFree
  <2>7. ArrayInv'
    BY <1>2, <1>5, <2>4, <2>5, <2>6 DEF ArrayInv, Full
  <2>8. SlotValues' = SlotValues \cup {value}
    BY <2>4 DEF SlotValues
  <2> QED BY <1>2, <1>3, <1>5, <2>2, <2>7, <2>8
<1> QED BY <1>1, <1>4, <1>5

\* What Answer does to the stack, for the outermost insert and for others.
LEMMA AnswerStack ==
  ASSUME Nested, pc = "working", Upcoming # {}, NEW answer, Answer(answer)
  PROVE  \/ /\ todo = <<todo[1]>> /\ call.op = "insert"
            /\ Upcoming = {call.arg}
            /\ Return(answer)
         \/ /\ todo = <<todo[1]>> /\ call.op = "reserve"
            /\ \E g : /\ todo' = <<g>>
                      /\ Frame(g) /\ Moves(g)
                      /\ Range(todo[1]) = Range(g) \cup Upcoming
            /\ UNCHANGED <<pc, call, result>>
         \/ /\ todo = <<todo[1], todo[2]>>
            /\ \E g : /\ todo' = <<todo[1], g>>
                      /\ Frame(g) /\ Moves(g)
                      /\ Cardinality(DOMAIN g) \in Nat
                      /\ Cardinality(DOMAIN todo[2]) = Cardinality(DOMAIN g) + 1
                      /\ Range(todo[2]) = Range(g) \cup Upcoming
            /\ UNCHANGED <<pc, call, result>>
<1>1. CASE todo = <<todo[1]>> /\ call.op = "insert"
  <2>1. Top = <<call.arg>> /\ Frame(Top) /\ IsOutermost
    BY <1>1, OneCall DEF Nested, StackInv, IsOutermost
  <2>2. Upcoming \subseteq {call.arg}
    <3>1. Range(<<call.arg>>) = {call.arg}
      <4>1. DOMAIN <<call.arg>> = {1} /\ <<call.arg>>[1] = call.arg
        OBVIOUS
      <4> QED BY <4>1 DEF Range
    <3> QED BY <2>1, <3>1, UpcomingIsNext
  <2> QED BY <1>1, <2>1, <2>2 DEF Answer
<1>2. CASE todo = <<todo[1]>> /\ call.op = "reserve"
  <2>1. Top = todo[1] /\ Frame(todo[1]) /\ Moves(todo[1]) /\ ~IsOutermost
    BY <1>2, OneCall DEF Nested, StackInv, IsOutermost
  <2> DEFINE g == Restrict(todo[1], DOMAIN todo[1] \ Least(DOMAIN todo[1]))
  <2>2. todo' = <<g>> /\ UNCHANGED <<pc, call, result>>
    BY <1>2, <2>1, OneCall DEF Answer
  <2>3. DOMAIN todo[1] # {}
    BY <2>1, UpcomingIsNext
  <2>4. /\ Frame(g) /\ Moves(g)
        /\ Range(todo[1]) = Range(g) \cup Upcoming
    <3>1. Upcoming = {todo[1][i] : i \in Least(DOMAIN todo[1])}
      BY <2>1 DEF Upcoming
    <3> QED BY <2>1, <2>3, <3>1, FrameNext
  <2> QED BY <1>2, <2>2, <2>4
<1>3. CASE todo = <<todo[1], todo[2]>>
  <2>1. /\ Top = todo[2] /\ ~IsOutermost
    BY <1>3, TwoCalls DEF IsOutermost
  <2>2. Frame(todo[2]) /\ Moves(todo[2])
    <3>1. todo # <<todo[1]>>
      BY <1>3, OneCall, TwoCalls
    <3> QED BY <3>1 DEF Nested, StackInv
  <2> DEFINE g == Restrict(todo[2], DOMAIN todo[2] \ Least(DOMAIN todo[2]))
  <2>3. todo' = <<todo[1], g>> /\ UNCHANGED <<pc, call, result>>
    BY <1>3, <2>1, TwoCalls DEF Answer
  <2>4. DOMAIN todo[2] # {}
    BY <2>1, <2>2, UpcomingIsNext
  <2>5. /\ Frame(g) /\ Moves(g)
        /\ Cardinality(DOMAIN g) \in Nat
        /\ Cardinality(DOMAIN todo[2]) = Cardinality(DOMAIN g) + 1
        /\ Range(todo[2]) = Range(g) \cup Upcoming
    <3>1. Upcoming = {todo[2][i] : i \in Least(DOMAIN todo[2])}
      BY <2>1 DEF Upcoming
    <3> QED BY <2>2, <2>4, <3>1, FrameNext
  <2> QED BY <1>3, <2>3, <2>5
<1> QED BY <1>1, <1>2, <1>3 DEF Nested, StackInv

LEMMA PlaceValueNested ==
  ASSUME Nested, PlaceValue
  PROVE  Nested'
<1>1. PICK value \in Upcoming \ {kMax} :
        /\ value \in Values
        /\ ArrayInv'
        /\ UNCHANGED <<hasher, slot_count_, max_is_present_>>
        /\ \/ /\ Answer("present")
              /\ UNCHANGED <<occupied_slot_count_, slots_>>
           \/ /\ Answer("inserted")
              /\ occupied_slot_count_' = occupied_slot_count_ + 1
  BY PlaceValueArray
<1>2. PICK answer : Answer(answer)
  BY <1>1
<1>3. /\ occupied_slot_count_ \in Nat /\ slot_count_ \in Nat
      /\ occupied_slot_count_' \in {occupied_slot_count_, occupied_slot_count_ + 1}
      /\ slot_count_' = slot_count_
  BY <1>1, FS_CardinalityType DEF Nested, ArrayInv
<1>4. pc = "working" /\ Upcoming # {}
  BY <1>1 DEF PlaceValue
<1>5. CASE Return(answer)
  BY <1>1, <1>5 DEF Return, StackInv, Nested
<1>6. CASE /\ todo = <<todo[1]>> /\ call.op = "reserve"
           /\ \E g : /\ todo' = <<g>>
                     /\ Frame(g) /\ Moves(g)
           /\ UNCHANGED <<pc, call, result>>
  <2>1. PICK g : todo' = <<g>> /\ Frame(g) /\ Moves(g)
    BY <1>6
  <2>2. todo'[1] = g
    BY <2>1
  <2>3. StackInv'
    BY <1>4, <1>6, <2>1, <2>2 DEF StackInv, Frame, Moves
  <2> QED BY <1>1, <2>3 DEF Nested
<1>7. CASE /\ todo = <<todo[1], todo[2]>>
           /\ \E g : /\ todo' = <<todo[1], g>>
                     /\ Frame(g) /\ Moves(g)
                     /\ Cardinality(DOMAIN g) \in Nat
                     /\ Cardinality(DOMAIN todo[2]) = Cardinality(DOMAIN g) + 1
           /\ UNCHANGED <<pc, call, result>>
  <2>1. PICK g : /\ todo' = <<todo[1], g>>
                 /\ Frame(g) /\ Moves(g)
                 /\ Cardinality(DOMAIN g) \in Nat
                 /\ Cardinality(DOMAIN todo[2]) = Cardinality(DOMAIN g) + 1
    BY <1>7
  <2>2. todo'[1] = todo[1] /\ todo'[2] = g
    BY <2>1
  <2>3. (occupied_slot_count_ + Cardinality(DOMAIN todo[2]) + 1) * 8 <= slot_count_ * 7
    <3>1. todo # <<todo[1]>>
      <4>1. Len(todo) = 2
        BY <1>7, TwoCalls
      <4> QED BY <4>1, OneCall
    <3> QED BY <1>4, <3>1 DEF Nested, StackInv
  <2>4. (occupied_slot_count_' + Cardinality(DOMAIN g) + 1) * 8 <= slot_count_' * 7
    BY <1>3, <2>1, <2>3
  <2>5. StackInv'
    BY <1>4, <1>7, <2>1, <2>2, <2>4 DEF Nested, StackInv, Frame, Moves
  <2> QED BY <1>1, <2>5 DEF Nested
<1> QED BY <1>2, <1>4, <1>5, <1>6, <1>7, AnswerStack

\* The loop of rehash() ends: that of an insert gives way to its caller, that of
\* reserve() to the user.
LEMMA EndRehashNested ==
  ASSUME Nested, EndRehash
  PROVE  /\ Nested'
         /\ \/ /\ todo = <<todo[1], todo[2]>> /\ Range(todo[2]) = {}
               /\ todo' = <<todo[1]>> /\ UNCHANGED <<pc, call, result>>
            \/ /\ todo = <<todo[1]>> /\ Range(todo[1]) = {} /\ call.op = "reserve"
               /\ Return("void")
<1>1. /\ pc = "working" /\ Upcoming = {} /\ UNCHANGED <<hasher, table>>
  BY DEF EndRehash
<1>2. ArrayInv'
  BY <1>1 DEF Nested, ArrayInv, table, Array, LastFree, Full
<1>3. CASE todo = <<todo[1]>>
  <2>1. Len(todo) = 1 /\ Top = todo[1] /\ Frame(todo[1])
    BY <1>1, <1>3, OneCall DEF Nested, StackInv
  <2>2. Return("void")
    BY <2>1 DEF EndRehash
  <2>3. DOMAIN todo[1] = {}
    BY <1>1, <2>1, UpcomingIsNext
  <2>4. call.op # "insert"
    <3>1. 1 \in DOMAIN <<call.arg>>
      OBVIOUS
    <3> QED BY <1>1, <2>3, <3>1 DEF Nested, StackInv
  <2>5. StackInv'
    BY <2>2 DEF Return, StackInv
  <2>6. Range(todo[1]) = {}
    BY <2>3 DEF Range
  <2> QED BY <1>1, <1>2, <1>3, <2>2, <2>4, <2>5, <2>6 DEF Nested, StackInv
<1>4. CASE todo # <<todo[1]>>
  <2>1. todo = <<todo[1], todo[2]>> /\ Frame(todo[2])
    BY <1>1, <1>4 DEF Nested, StackInv
  <2>2. Len(todo) = 2 /\ Top = todo[2]
    BY <2>1, TwoCalls
  <2>3. todo' = <<todo[1]>> /\ UNCHANGED <<pc, call, result>>
    BY <2>1, <2>2, TwoCalls DEF EndRehash
  <2>4. todo'[1] = todo[1]
    BY <2>3
  <2>5. Range(todo[2]) = {}
    BY <1>1, <2>1, <2>2, UpcomingIsNext DEF Range
  <2>6. StackInv'
    BY <1>1, <2>3, <2>4 DEF Nested, StackInv, Frame, Moves
  <2> QED BY <1>2, <2>1, <2>3, <2>5, <2>6 DEF Nested
<1> QED BY <1>3, <1>4

LEMMA UnchangedNested ==
  ASSUME Nested, UNCHANGED vars
  PROVE  Nested'
BY DEF Nested, ArrayInv, StackInv, vars, table, Array, LastFree, Full, Frame, Moves

LEMMA NestedStep ==
  ASSUME Nested, [Next]_vars
  PROVE  Nested'
<1>1. CASE Next
  BY <1>1, InsertNested, ReserveNested, InsertMaxNested, InsertRehashNested,
     PlaceValueNested, EndRehashNested DEF Next, Step
<1> QED BY <1>1, UnchangedNested

\* The slots that are not free are as many as the table counts, and what the
\* calls in progress have still to insert fits: the first layer.
THEOREM NestedInvariant == Spec => []Nested
BY InitNested, NestedStep, PTL DEF Spec

\* Whatever the values, the hasher and the arguments of reserve(), insert() and
\* rehash() call each other no deeper than twice: the rehash of an insert leaves
\* a table that none of its own inserts has to rehash.
THEOREM RecursionIsBounded == Spec => []RecursionBounded
<1>1. Nested => RecursionBounded
  <2> SUFFICES ASSUME Nested PROVE Len(todo) <= 2
    BY DEF RecursionBounded
  <2>1. CASE todo = <<>>
    <3>1. Len(todo) = 0
      BY <2>1
    <3> QED BY <3>1
  <2>2. CASE todo = <<todo[1]>>
    BY <2>2, OneCall
  <2>3. CASE todo = <<todo[1], todo[2]>>
    BY <2>3, TwoCalls
  <2> QED BY <2>1, <2>2, <2>3 DEF Nested, StackInv
<1> QED BY <1>1, NestedInvariant, PTL

-----------------------------------------------------------------------------
(* The second layer: where the values are *)

\* Slots in the order of their values are in the order of their hashes: true of
\* OLPSetNoHash, which hashes a value to itself, and of no hasher that mixes.
HashersMonotone ==
  \A h \in Hashers : \A v, w \in Values : v <= w => h[v] <= h[w]

OrderedSlots(s) ==
  \A i, j \in DOMAIN s : i < j /\ s[i] # kMax /\ s[j] # kMax => s[i] < s[j]

\* From the slot a value prefers to where it is, no slot is free.
Gapless(s) ==
  \A i \in DOMAIN s : s[i] # kMax =>
    /\ PreferredSlot(s[i]) <= i
    /\ \A j \in DOMAIN s : PreferredSlot(s[i]) <= j /\ j <= i => s[j] # kMax

Sorted ==
  /\ Nested
  /\ OrderedSlots(slots_)
  /\ Gapless(slots_)
  /\ max_is_present_ => kMax \in Values

LEMMA PreferredMonotone ==
  ASSUME HashersMonotone, hasher \in Hashers, slot_count_ \in Nat,
         NEW v \in Values, NEW w \in Values, v <= w
  PROVE  PreferredSlot(v) <= PreferredSlot(w)
<1> DEFINE x == hasher[v]
           y == hasher[w]
           n == slot_count_
           m == HashSpace
<1>1. n \in Nat /\ m \in Nat \ {0} /\ x \in Nat /\ y \in Nat /\ x <= y
  BY ParameterAssumption DEF HashersMonotone
<1> HIDE DEF x, y, n, m
<1>2. x * n \in Nat /\ y * n \in Nat /\ x * n <= y * n
  BY <1>1
<1>3. PICK q \in Int : q = (x * n) \div m
  BY <1>1
<1>4. PICK r \in Int : r = (y * n) \div m
  BY <1>1
<1>5. m * q <= x * n /\ y * n < m * r + m
  BY <1>1, <1>2, <1>3, <1>4
<1>6. m * q < m * (r + 1)
  BY <1>1, <1>2, <1>5
<1>7. q <= r
  BY <1>1, <1>6
<1> QED BY <1>3, <1>4, <1>7 DEF PreferredSlot, x, y, n, m

\* A value that prefers a later slot is larger.
LEMMA LaterIsLarger ==
  ASSUME HashersMonotone, hasher \in Hashers, slot_count_ \in Nat \ {0},
         NEW v \in Values, NEW w \in Values, PreferredSlot(v) < PreferredSlot(w)
  PROVE  v < w
<1>1. PreferredSlot(v) \in Int /\ PreferredSlot(w) \in Int
  BY PreferredRange
<1>2. CASE w <= v
  BY <1>1, <1>2, PreferredMonotone
<1> QED BY <1>2, Constants

\* Around the slot where the search for a value stops: before it the values are
\* smaller, and from the slot preferred on there is no free slot; behind it, if
\* the value is not there, they are larger.
LEMMA StopSplits ==
  ASSUME HashersMonotone, ArrayInv, OrderedSlots(slots_), Gapless(slots_),
         slot_count_ # 0, NEW value \in Values \ {kMax}, NEW p \in Stop(value)
  PROVE  /\ p \in DOMAIN slots_ /\ PreferredSlot(value) <= p
         /\ \A i \in DOMAIN slots_ : PreferredSlot(value) <= i /\ i < p => slots_[i] # kMax
         /\ \A i \in DOMAIN slots_ : i < p /\ slots_[i] # kMax => slots_[i] < value
         /\ slots_[p] # value =>
              \A i \in DOMAIN slots_ : p <= i /\ slots_[i] # kMax => value < slots_[i]
<1> DEFINE h == PreferredSlot(value)
<1>1. /\ \A i \in DOMAIN slots_ : i \in Nat /\ slots_[i] \in Slot /\ slots_[i] \in Nat
      /\ \A i \in DOMAIN slots_ : slots_[i] # kMax => slots_[i] \in Values
      /\ value \in Nat /\ value < kMax /\ kMax \in Nat
      /\ slot_count_ \in Nat \ {0} /\ hasher \in Hashers
  <2>1. PICK n \in Nat : slots_ \in [0 .. n - 1 -> Slot]
    BY DEF ArrayInv, Array
  <2>2. \A i \in DOMAIN slots_ : i \in Nat /\ slots_[i] \in Slot
    BY <2>1
  <2>3. value \in Nat /\ value < kMax /\ kMax \in Nat
    <3>1. value \in Slot /\ value # kMax
      BY DEF Slot
    <3> QED BY <3>1, Constants
  <2>4. \A x \in Slot : x \in Nat /\ (x # kMax => x \in Values)
    BY Constants DEF Slot
  <2> QED BY <2>2, <2>3, <2>4 DEF ArrayInv
<1>2. h \in Nat
  BY <1>1, PreferredRange
<1> HIDE DEF h
<1>3. /\ p \in DOMAIN slots_ /\ h <= p /\ value <= slots_[p]
      /\ \A i \in DOMAIN slots_ : h <= i /\ value <= slots_[i] => p <= i
  BY <1>1 DEF Stop, Least, h
<1>4. ASSUME NEW i \in DOMAIN slots_, h <= i, i < p
      PROVE  slots_[i] < value
  BY <1>1, <1>3, <1>4
<1>5. ASSUME NEW i \in DOMAIN slots_, i < p, slots_[i] # kMax
      PROVE  slots_[i] < value
  <2>1. CASE h <= i
    BY <1>4, <1>5, <2>1
  <2>2. CASE i < h
    <3>1. PreferredSlot(slots_[i]) <= i /\ slots_[i] \in Values
      BY <1>1, <1>5 DEF Gapless
    <3>2. PreferredSlot(slots_[i]) \in Nat
      BY <1>1, <3>1, PreferredRange
    <3>3. PreferredSlot(slots_[i]) < PreferredSlot(value)
      BY <1>1, <1>2, <2>2, <3>1, <3>2 DEF h
    <3> QED BY <1>1, <3>1, <3>3, LaterIsLarger
  <2> QED BY <1>1, <1>2, <2>1, <2>2
<1>6. ASSUME slots_[p] # value, NEW i \in DOMAIN slots_, p <= i, slots_[i] # kMax
      PROVE  value < slots_[i]
  <2>1. value < slots_[p]
    BY <1>1, <1>3, <1>6
  <2>2. CASE i = p
    BY <2>1, <2>2
  <2>3. CASE p < i /\ slots_[p] # kMax
    <3>1. slots_[p] < slots_[i]
      BY <1>3, <1>6, <2>3 DEF OrderedSlots
    <3> QED BY <1>1, <1>3, <2>1, <3>1
  <2>4. CASE p < i /\ slots_[p] = kMax
    <3>1. /\ PreferredSlot(slots_[i]) <= i /\ slots_[i] \in Values
          /\ ~(PreferredSlot(slots_[i]) <= p)
      BY <1>1, <1>3, <1>6, <2>4 DEF Gapless
    <3>2. PreferredSlot(slots_[i]) \in Nat
      BY <1>1, <3>1, PreferredRange
    <3>3. PreferredSlot(value) < PreferredSlot(slots_[i])
      BY <1>1, <1>2, <1>3, <3>1, <3>2 DEF h
    <3> QED BY <1>1, <3>1, <3>3, LaterIsLarger
  <2> QED BY <1>1, <1>3, <1>6, <2>2, <2>3, <2>4
<1>7. \A i \in DOMAIN slots_ : h <= i /\ i < p => slots_[i] # kMax
  BY <1>1, <1>4
<1> QED BY <1>3, <1>5, <1>6, <1>7 DEF h

\* An insert keeps the values in order and without gaps.
LEMMA ShiftKeepsSorted ==
  ASSUME HashersMonotone, ArrayInv, OrderedSlots(slots_), Gapless(slots_),
         NEW value, NEW p, NEW q, NEW t, Shifts(value, p, q, t)
  PROVE  OrderedSlots(t) /\ Gapless(t)
<1>1. /\ \A i \in DOMAIN slots_ : i \in Nat /\ slots_[i] \in Slot
      /\ p \in DOMAIN slots_ /\ q \in DOMAIN slots_ /\ p <= q
      /\ slots_[q] = kMax
      /\ \A i \in DOMAIN slots_ : p <= i /\ i < q => slots_[i] # kMax
      /\ \A i \in Nat : i < q => i \in DOMAIN slots_
      /\ DOMAIN t = DOMAIN slots_ \cup {q + 1}
      /\ t[p] = value
      /\ \A i \in DOMAIN slots_ : i < p => t[i] = slots_[i]
      /\ \A i \in DOMAIN slots_ : p < i /\ i <= q => t[i] = slots_[i - 1]
      /\ \A i \in DOMAIN slots_ : q < i => t[i] = slots_[i]
      /\ t[q + 1] = IF q + 1 \in DOMAIN slots_ THEN slots_[q + 1] ELSE kMax
      /\ Array(t)
  BY ShiftFacts, Zenon
<1>2. value \in Values \ {kMax} /\ p \in Stop(value) /\ slots_[p] # value
  BY DEF Shifts
<1>3. slot_count_ \in Nat \ {0} /\ hasher \in Hashers
  BY <1>1 DEF ArrayInv
<1>4. /\ PreferredSlot(value) <= p
      /\ \A i \in DOMAIN slots_ : PreferredSlot(value) <= i /\ i < p => slots_[i] # kMax
      /\ \A i \in DOMAIN slots_ : i < p /\ slots_[i] # kMax => slots_[i] < value
      /\ \A i \in DOMAIN slots_ : p <= i /\ slots_[i] # kMax => value < slots_[i]
  BY <1>2, <1>3, StopSplits
<1>5. /\ \A x \in Slot : x \in Nat /\ (x # kMax => x \in Values)
      /\ value \in Nat
  BY <1>2, Constants DEF Slot
<1>6. \A x \in Values : PreferredSlot(x) \in Nat
  BY <1>3, PreferredRange
<1> DEFINE From(i, k) == /\ k \in Nat /\ i \in Nat
                         /\ slots_[k] = t[i] /\ slots_[k] \in Values /\ slots_[k] # kMax
                         /\ \/ k = i /\ (i < p \/ q < i)
                            \/ k = i - 1 /\ p < i /\ i <= q
\* the slot that the content of slot i comes from
<1>7. ASSUME NEW i \in DOMAIN t, t[i] # kMax, i # p
      PROVE  \E k \in DOMAIN slots_ : From(i, k)
  <2>1. CASE i \in DOMAIN slots_ /\ (i < p \/ q < i)
    BY <1>1, <1>5, <1>7, <2>1
  <2>2. CASE i \in DOMAIN slots_ /\ p < i /\ i <= q
    <3>1. i - 1 \in Nat /\ i - 1 < q
      BY <1>1, <2>2
    <3> QED BY <1>1, <1>5, <1>7, <2>2, <3>1
  <2>3. CASE i \notin DOMAIN slots_
    BY <1>1, <1>7, <2>3
  <2> QED BY <1>1, <1>7, <2>1, <2>2, <2>3
<1>8. OrderedSlots(t)
  <2> SUFFICES ASSUME NEW i \in DOMAIN t, NEW j \in DOMAIN t,
                      i < j, t[i] # kMax, t[j] # kMax
               PROVE  t[i] < t[j]
    BY DEF OrderedSlots
  <2>0. i \in Nat /\ j \in Nat /\ p \in Nat /\ q \in Nat
    BY <1>1
  <2>1. CASE i = p
    <3>1. PICK k \in DOMAIN slots_ :
            k \in Nat /\ slots_[k] = t[j] /\ slots_[k] # kMax /\ p <= k
      BY <1>1, <1>7, <2>0, <2>1
    <3> QED BY <1>1, <1>4, <2>1, <3>1
  <2>2. CASE j = p
    <3>1. slots_[i] = t[i] /\ i \in DOMAIN slots_
      BY <1>1, <1>7, <2>0, <2>2
    <3> QED BY <1>1, <1>4, <2>2, <3>1
  <2>3. CASE i # p /\ j # p
    <3>1. PICK k \in DOMAIN slots_ : From(i, k)
      BY <1>7, <2>3
    <3>2. PICK l \in DOMAIN slots_ : From(j, l)
      BY <1>7, <2>3
    <3>3. k < l
      BY <1>1, <2>0, <3>1, <3>2
    <3> QED BY <3>1, <3>2, <3>3 DEF OrderedSlots
  <2> QED BY <2>1, <2>2, <2>3
<1>9. \A i \in DOMAIN slots_ : slots_[i] # kMax => i \in DOMAIN t /\ t[i] # kMax
  <2>1. Full(slots_) \subseteq Full(t)
    BY ShiftAdds
  <2> QED BY <2>1 DEF Full
<1>10. Gapless(t)
  <2> SUFFICES ASSUME NEW i \in DOMAIN t, t[i] # kMax
               PROVE  /\ PreferredSlot(t[i]) <= i
                      /\ \A j \in DOMAIN t : PreferredSlot(t[i]) <= j /\ j <= i => t[j] # kMax
    BY DEF Gapless
  <2>0. i \in Nat /\ p \in Nat /\ q \in Nat /\ \A j \in DOMAIN t : j \in Nat
    BY <1>1
  <2>1. CASE i = p
    <3>1. ASSUME NEW j \in DOMAIN t, PreferredSlot(value) <= j, j <= p
          PROVE  t[j] # kMax
      <4>1. CASE j = p
        BY <1>1, <1>2, <4>1
      <4>2. CASE j < p
        BY <1>1, <1>4, <1>9, <2>0, <3>1, <4>2
      <4> QED BY <2>0, <3>1, <4>1, <4>2
    <3> QED BY <1>1, <1>4, <2>1, <3>1
  <2>2. CASE i # p
    <3>1. PICK k \in DOMAIN slots_ : From(i, k)
      BY <1>7, <2>2
    <3>2. /\ PreferredSlot(t[i]) <= k /\ PreferredSlot(t[i]) \in Nat
          /\ \A j \in DOMAIN slots_ : PreferredSlot(t[i]) <= j /\ j <= k => slots_[j] # kMax
      BY <1>6, <3>1 DEF Gapless
    <3>3. ASSUME NEW j \in DOMAIN t, PreferredSlot(t[i]) <= j, j <= i
          PROVE  t[j] # kMax
      <4>1. CASE j <= k
        <5>1. k \in Nat /\ j \in Nat
          BY <2>0, <3>1
        <5>2. j \in DOMAIN slots_
          BY <4>1, <5>1 DEF ArrayInv, Array
        <5> QED BY <1>9, <3>2, <3>3, <4>1, <5>2
      <4>2. CASE ~(j <= k)
        <5>1. j = i
          BY <2>0, <3>1, <3>3, <4>2
        <5> QED BY <5>1
      <4> QED BY <4>1, <4>2
    <3>4. PreferredSlot(t[i]) <= i
      BY <2>0, <3>1, <3>2
    <3> QED BY <3>3, <3>4
  <2> QED BY <2>1, <2>2
<1> QED BY <1>8, <1>10

-----------------------------------------------------------------------------
(* The second layer is kept *)

LEMMA SortedStep ==
  ASSUME HashersMonotone, Sorted, [Next]_vars
  PROVE  Sorted'
<1>1. Nested /\ Nested'
  BY NestedStep DEF Sorted
<1>0. (max_is_present_ => kMax \in Values)'
  <2>1. CASE InsertMax
    <3>1. kMax \in Values
      BY <1>1, <2>1, InsertMaxNested DEF Nested, StackInv, InsertMax
    <3> QED BY <3>1
  <2>2. CASE PlaceValue
    BY <1>1, <2>2, PlaceValueArray DEF Sorted
  <2>3. CASE \/ \E value \in Values : Insert(value)
             \/ \E count \in ReserveCounts : Reserve(count)
             \/ InsertRehash \/ EndRehash \/ UNCHANGED vars
    BY <2>3 DEF Sorted, Insert, Reserve, Rehash, InsertRehash, EndRehash, table, vars
  <2> QED BY <2>1, <2>2, <2>3 DEF Next, Step
<1>2. CASE UNCHANGED <<hasher, slot_count_, slots_>>
  BY <1>0, <1>1, <1>2 DEF Sorted, OrderedSlots, Gapless, PreferredSlot
<1>3. ASSUME NEW n, Rehash(n) PROVE Sorted'
  <2>1. \A i \in DOMAIN slots_' : slots_'[i] = kMax
    BY <1>3 DEF Rehash
  <2> QED BY <1>0, <1>1, <2>1 DEF Sorted, OrderedSlots, Gapless
<1>4. CASE PlaceValue
  <2>1. \/ UNCHANGED <<hasher, slot_count_, slots_>>
        \/ /\ UNCHANGED <<hasher, slot_count_>>
           /\ \E value, p, q : Shifts(value, p, q, slots_')
    BY <1>1, <1>4, PlaceValueArray
  <2>2. CASE /\ UNCHANGED <<hasher, slot_count_>>
             /\ \E value, p, q : Shifts(value, p, q, slots_')
    <3>1. OrderedSlots(slots_') /\ Gapless(slots_')
      BY <2>2, ShiftKeepsSorted DEF Sorted, Nested
    <3>2. OrderedSlots(slots_)' /\ Gapless(slots_)'
      BY <2>2, <3>1 DEF OrderedSlots, Gapless, PreferredSlot
    <3> QED BY <1>0, <1>1, <3>2 DEF Sorted
  <2> QED BY <1>2, <2>1, <2>2
<1>5. CASE InsertRehash
  BY <1>3, <1>5 DEF InsertRehash
<1>6. ASSUME NEW count, Reserve(count) PROVE Sorted'
  BY <1>2, <1>3, <1>6 DEF Reserve, table
<1>7. CASE \/ \E value \in Values : Insert(value)
           \/ InsertMax \/ EndRehash \/ UNCHANGED vars
  BY <1>2, <1>7 DEF Insert, InsertMax, EndRehash, table, vars
<1> QED BY <1>4, <1>5, <1>6, <1>7 DEF Next, Step

LEMMA InitSorted == Init => Sorted
BY InitNested DEF Init, Sorted, OrderedSlots, Gapless

\* The values are in increasing order from slot to slot, and no free slot lies
\* between a value and the slot it prefers: the second layer.
THEOREM SortedInvariant == HashersMonotone => (Spec => []Sorted)
<1> SUFFICES ASSUME HashersMonotone PROVE Spec => []Sorted
  OBVIOUS
<1>1. Sorted /\ [Next]_vars => Sorted'
  BY SortedStep
<1> QED BY <1>1, InitSorted, PTL DEF Spec

-----------------------------------------------------------------------------
(* The answers *)

\* A search ends: the last slot stops it.
LEMMA StopExists ==
  ASSUME ArrayInv, slot_count_ # 0, NEW value \in Values
  PROVE  \E p \in DOMAIN slots_ : Stop(value) = {p}
<1> DEFINE stops == {i \in DOMAIN slots_ : PreferredSlot(value) <= i /\ slots_[i] >= value}
<1>1. PICK n \in Nat : slots_ \in [0 .. n - 1 -> Slot]
  BY DEF ArrayInv, Array
<1>2. DOMAIN slots_ # {} /\ slot_count_ \in Nat \ {0} /\ hasher \in Hashers
  BY DEF ArrayInv
<1>3. n - 1 \in DOMAIN slots_ /\ n - 1 + 1 \notin DOMAIN slots_
  BY <1>1, <1>2
<1>4. slot_count_ <= n - 1 /\ slots_[n - 1] = kMax
  BY <1>3 DEF ArrayInv, LastFree
<1>5. PreferredSlot(value) \in 0 .. slot_count_ - 1 /\ value \in Nat /\ value <= kMax
  BY <1>2, PreferredRange, Constants DEF Slot
<1>6. n - 1 \in stops
  BY <1>2, <1>3, <1>4, <1>5, Constants
<1>7. stops \subseteq Nat
  BY <1>1
<1>8. PICK p \in stops : Least(stops) = {p}
  BY <1>6, <1>7, LeastExists
<1> QED BY <1>8 DEF Stop

\* It ends at the value if that is anywhere in the table.
LEMMA StopFinds ==
  ASSUME HashersMonotone, Sorted, slot_count_ # 0,
         NEW value \in Values \ {kMax}, NEW p \in Stop(value)
  PROVE  slots_[p] = value <=> value \in SlotValues
<1>1. ArrayInv /\ OrderedSlots(slots_) /\ Gapless(slots_)
  BY DEF Sorted, Nested
<1>2. /\ p \in DOMAIN slots_
      /\ \A i \in DOMAIN slots_ : i < p /\ slots_[i] # kMax => slots_[i] < value
      /\ slots_[p] # value =>
           \A i \in DOMAIN slots_ : p <= i /\ slots_[i] # kMax => value < slots_[i]
  BY <1>1, StopSplits
<1>3. ASSUME NEW k \in DOMAIN slots_, slots_[k] = value
      PROVE  slots_[p] = value
  <2>1. k \in Nat /\ p \in Nat
    BY <1>1, <1>2 DEF ArrayInv, Array
  <2>2. value \in Nat
    BY Constants
  <2> QED BY <1>2, <1>3, <2>1, <2>2
<1> QED BY <1>2, <1>3 DEF SlotValues

\* The table counts its values, for none is there twice.
LEMMA CountsValues ==
  ASSUME Sorted
  PROVE  /\ IsFiniteSet(SlotValues)
         /\ Cardinality(SlotValues) = occupied_slot_count_
<1>1. PICK n \in Nat : slots_ \in [0 .. n - 1 -> Slot]
  BY DEF Sorted, Nested, ArrayInv, Array
<1>2. IsFiniteSet(Full(slots_)) /\ Cardinality(Full(slots_)) = occupied_slot_count_
  BY DEF Sorted, Nested, ArrayInv
<1> DEFINE f == [i \in Full(slots_) |-> slots_[i]]
<1>3. f \in Surjection(Full(slots_), SlotValues)
  BY DEF Surjection, Full, SlotValues
<1>4. f \in Injection(Full(slots_), SlotValues)
  <2>1. \A i \in Full(slots_) : i \in Nat /\ slots_[i] \in Nat /\ slots_[i] # kMax
                                /\ i \in DOMAIN slots_
    BY <1>1, Constants DEF Full
  <2>2. ASSUME NEW i \in Full(slots_), NEW j \in Full(slots_), slots_[i] = slots_[j]
        PROVE  i = j
    <3>1. ~(i < j) /\ ~(j < i)
      BY <2>1, <2>2 DEF Sorted, OrderedSlots
    <3> QED BY <2>1, <3>1
  <2>3. f \in [Full(slots_) -> SlotValues]
    BY <1>3 DEF Surjection
  <2> QED BY <2>2, <2>3 DEF Injection, IsInjective
<1>5. ExistsBijection(Full(slots_), SlotValues)
  BY <1>3, <1>4 DEF ExistsBijection, Bijection
<1> QED BY <1>2, <1>5, FS_Bijection

\* What the calls in progress will insert, for none, one and two of them.
Flight(t, op) == UNION {Range(t[k]) : k \in {j \in DOMAIN t : j > 1 \/ op # "insert"}}

LEMMA FlightOf ==
  ASSUME NEW op, NEW f, NEW g
  PROVE  /\ Flight(<<>>, op) = {}
         /\ Flight(<<f>>, op) = IF op = "insert" THEN {} ELSE Range(f)
<1>1. Flight(<<>>, op) = {}
  BY DEF Flight
<1>2. Flight(<<f>>, op) = IF op = "insert" THEN {} ELSE Range(f)
  <2>1. DOMAIN <<f>> = {1} /\ <<f>>[1] = f
    OBVIOUS
  <2>2. ASSUME NEW t, DOMAIN t = {1}, t[1] = f
        PROVE  Flight(t, op) = IF op = "insert" THEN {} ELSE Range(f)
    BY <2>2 DEF Flight
  <2> QED BY <2>1, <2>2, Zenon
<1> QED BY <1>1, <1>2, Zenon

LEMMA FlightOfTwo ==
  ASSUME NEW t, NEW op, t = <<t[1], t[2]>>
  PROVE  Flight(t, op) = Range(t[2]) \cup IF op = "insert" THEN {} ELSE Range(t[1])
<1>1. DOMAIN t = {1, 2}
  OBVIOUS
<1> QED BY <1>1 DEF Flight

LEMMA IdleContents ==
  ASSUME Nested, pc = "idle"
  PROVE  InFlight = {} /\ call.op = "idle"
<1>1. todo = <<>> /\ call = Idle
  BY DEF Nested, StackInv
<1> QED BY <1>1 DEF InFlight, Idle

\* Once the table has slots and no call is in progress, contains() and size()
\* answer for exactly the values inserted, whatever moved them: no CHECK of
\* contains() fails.
THEOREM AnswersAreCorrect == HashersMonotone => (Spec => []AnswersCorrect)
<1> SUFFICES ASSUME HashersMonotone PROVE Spec => []AnswersCorrect
  OBVIOUS
<1>1. Sorted => AnswersCorrect
  <2> SUFFICES ASSUME Sorted, pc = "idle", DOMAIN slots_ # {}
               PROVE  /\ \A value \in Values :
                           /\ ~ContainsOverflows(value)
                           /\ ContainsValue(value) <=> value \in Contents
                      /\ SetSize = Cardinality(Contents)
    BY DEF AnswersCorrect
  <2>1. ArrayInv /\ InFlight = {} /\ slot_count_ # 0
    BY IdleContents DEF Sorted, Nested, ArrayInv
  <2>2. /\ kMax \notin SlotValues
        /\ Contents = SlotValues \cup IF max_is_present_ THEN {kMax} ELSE {}
    BY <2>1 DEF Contents, SlotValues
  <2>3. ASSUME NEW value \in Values
        PROVE  ~ContainsOverflows(value) /\ (ContainsValue(value) <=> value \in Contents)
    <3>1. CASE value = kMax
      BY <2>2, <3>1 DEF ContainsOverflows, ContainsValue
    <3>2. CASE value # kMax
      <4>1. PICK p \in DOMAIN slots_ : Stop(value) = {p}
        BY <2>1, StopExists
      <4>2. slots_[p] = value <=> value \in SlotValues
        BY <2>1, <3>2, <4>1, StopFinds
      <4> QED BY <2>2, <3>2, <4>1, <4>2 DEF ContainsOverflows, ContainsValue
    <3> QED BY <3>1, <3>2
  <2>4. SetSize = Cardinality(Contents)
    <3>1. IsFiniteSet(SlotValues) /\ Cardinality(SlotValues) = occupied_slot_count_
      BY CountsValues
    <3>2. occupied_slot_count_ \in Nat
      BY <3>1, FS_CardinalityType
    <3>3. CASE max_is_present_
      BY <2>2, <3>1, <3>3, FS_AddElement DEF SetSize
    <3>4. CASE ~max_is_present_
      BY <2>2, <3>1, <3>2, <3>4 DEF SetSize
    <3> QED BY <3>3, <3>4
  <2> QED BY <2>3, <2>4
<1> QED BY <1>1, SortedInvariant, PTL

-----------------------------------------------------------------------------
(* The refinement of AbstractSet *)

LEMMA ContentsAre ==
  /\ Contents = SlotValues \cup Flight(todo, call.op) \cup IF max_is_present_ THEN {kMax} ELSE {}
  /\ Contents' = SlotValues' \cup Flight(todo', call'.op)
                   \cup IF max_is_present_' THEN {kMax} ELSE {}
BY DEF Contents, InFlight, Flight

\* The set holds values the callers use, and they are their own keys.
LEMMA WithIs ==
  ASSUME Sorted, NEW value \in Values
  PROVE  Abstract!With([v \in Values |-> v][value]) = Contents \cap {value}
<1>1. SlotValues \subseteq Values
  BY DEF Sorted, Nested, ArrayInv, Array, SlotValues, Slot
<1>2. Flight(todo, call.op) \subseteq Values
  <2>1. CASE pc = "idle"
    BY <2>1, FlightOf DEF Sorted, Nested, StackInv
  <2>2. ASSUME NEW f, Frame(f) PROVE Range(f) \subseteq Values
    BY <2>2 DEF Frame, Range
  <2>3. CASE pc # "idle"
    <3>1. CASE todo = <<todo[1]>>
      <4>1. Frame(todo[1])
        BY <2>3 DEF Sorted, Nested, StackInv
      <4>2. Flight(todo, call.op) = IF call.op = "insert" THEN {} ELSE Range(todo[1])
        BY <3>1, FlightOf
      <4> QED BY <2>2, <4>1, <4>2
    <3>2. CASE todo # <<todo[1]>>
      <4>1. Frame(todo[1]) /\ Frame(todo[2]) /\ todo = <<todo[1], todo[2]>>
        BY <2>3, <3>2 DEF Sorted, Nested, StackInv
      <4>2. Flight(todo, call.op)
              = Range(todo[2]) \cup IF call.op = "insert" THEN {} ELSE Range(todo[1])
        BY <4>1, FlightOfTwo
      <4> QED BY <2>2, <4>1, <4>2
    <3> QED BY <3>1, <3>2
  <2> QED BY <2>1, <2>3
<1>3. Contents \subseteq Values
  BY <1>1, <1>2, ContentsAre DEF Sorted
<1> QED BY <1>3 DEF Abstract!With

LEMMA InsertImplements ==
  ASSUME Sorted, NEW value \in Values, Insert(value)
  PROVE  Abstract!BeginInsert(value)
<1>1. /\ pc = "idle" /\ call'.op = "insert" /\ call'.arg = value
      /\ todo' = <<<<value>>>>
      /\ UNCHANGED <<slots_, max_is_present_, result>>
  BY DEF Insert, Begin, table
<1>2. todo = <<>> /\ call.op # "insert"
  BY <1>1 DEF Sorted, Nested, StackInv, Idle
<1>3. Flight(todo, call.op) = {} /\ Flight(todo', call'.op) = {}
  BY <1>1, <1>2, FlightOf
<1>4. Contents' = Contents
  BY <1>1, <1>3, ContentsAre DEF SlotValues
<1> QED BY <1>1, <1>2, <1>4 DEF Abstract!BeginInsert

LEMMA ReserveImplements ==
  ASSUME Sorted, NEW count, Reserve(count)
  PROVE  Abstract!Resize \/ UNCHANGED Abstract!vars
<1>1. pc = "idle" /\ todo = <<>> /\ call.op # "insert"
  BY DEF Reserve, Sorted, Nested, StackInv, Idle
<1>2. Flight(todo, call.op) = {}
  BY <1>1, FlightOf
<1>3. CASE Size(slots_) * 7 < count * 8
  <2> DEFINE f == Restrict(slots_, Full(slots_))
  <2>1. /\ Rehash(count) /\ call'.op = "reserve"
    BY <1>3 DEF Reserve
  <2>2. /\ todo' = <<f>> /\ \A i \in DOMAIN slots_' : slots_'[i] = kMax
        /\ UNCHANGED <<max_is_present_, result>>
    BY <1>1, <2>1 DEF Rehash
  <2>3. Range(f) = SlotValues /\ SlotValues' = {}
    BY <2>2, FullFrame DEF Sorted, Nested, SlotValues
  <2> HIDE DEF f
  <2>4. Flight(todo', call'.op) = Range(f)
    BY <2>1, <2>2, FlightOf
  <2>5. Contents' = Contents
    BY <1>2, <2>2, <2>3, <2>4, ContentsAre
  <2> QED BY <1>1, <2>1, <2>2, <2>5 DEF Abstract!vars
<1>4. CASE ~(Size(slots_) * 7 < count * 8)
  <2>1. /\ todo' = <<>> /\ call'.op # "insert" /\ result' = "void"
        /\ UNCHANGED <<slots_, max_is_present_>>
    BY <1>4 DEF Reserve, Return, Idle, table
  <2>2. Flight(todo', call'.op) = {}
    BY <2>1, FlightOf
  <2>3. Contents' = Contents
    BY <1>2, <2>1, <2>2, ContentsAre DEF SlotValues
  <2> QED BY <1>1, <2>1, <2>3 DEF Abstract!Resize
<1> QED BY <1>3, <1>4

LEMMA InsertMaxImplements ==
  ASSUME Sorted, InsertMax
  PROVE  Abstract!EndInsert(kMax) /\ kMax \in Values
<1>1. Nested /\ call.op = "insert" /\ call.arg = kMax /\ todo = <<todo[1]>>
  BY InsertMaxNested DEF Sorted
<1>2. kMax \in Values /\ max_is_present_ \in BOOLEAN
  BY <1>1 DEF InsertMax, Nested, StackInv, ArrayInv
<1>3. /\ max_is_present_' = TRUE /\ slots_' = slots_
      /\ result' = IF max_is_present_ THEN "present" ELSE "inserted"
      /\ todo' = <<>> /\ call'.op # "insert"
  BY DEF InsertMax, Return, Idle
<1>4. Flight(todo, call.op) = {} /\ Flight(todo', call'.op) = {}
  BY <1>1, <1>3, FlightOf
<1>5. kMax \in Contents <=> max_is_present_
  BY <1>4, ContentsAre DEF SlotValues
<1>6. Contents' = Contents \cup {kMax}
  BY <1>3, <1>4, ContentsAre DEF SlotValues
<1>7. Abstract!With([v \in Values |-> v][kMax]) # {} <=> max_is_present_
  BY <1>2, <1>5, WithIs
<1>8. CASE max_is_present_
  <2>1. Contents' = Contents
    BY <1>5, <1>6, <1>8
  <2> QED BY <1>1, <1>2, <1>3, <1>7, <1>8, <2>1 DEF Abstract!EndInsert
<1>9. CASE ~max_is_present_
  BY <1>1, <1>2, <1>3, <1>6, <1>7, <1>9 DEF Abstract!EndInsert
<1> QED BY <1>2, <1>8, <1>9

LEMMA InsertRehashImplements ==
  ASSUME Sorted, InsertRehash
  PROVE  UNCHANGED Abstract!vars
<1> DEFINE f == Restrict(slots_, Full(slots_))
<1>1. /\ todo = <<todo[1]>> /\ todo' = <<todo[1], f>> /\ SlotValues' = {}
      /\ UNCHANGED <<call, max_is_present_, result>>
  BY InsertRehashNested DEF Sorted, InsertRehash, Rehash
<1>2. Range(f) = SlotValues
  BY FullFrame DEF Sorted, Nested
<1> HIDE DEF f
<1>3. /\ Flight(todo, call.op) = IF call.op = "insert" THEN {} ELSE Range(todo[1])
      /\ Flight(todo', call'.op)
           = Range(f) \cup IF call.op = "insert" THEN {} ELSE Range(todo[1])
  <2>1. todo' = <<todo'[1], todo'[2]>> /\ todo'[1] = todo[1] /\ todo'[2] = f
    BY <1>1
  <2>2. Flight(todo', call'.op)
          = Range(todo'[2]) \cup IF call'.op = "insert" THEN {} ELSE Range(todo'[1])
    BY <2>1, FlightOfTwo
  <2>3. call'.op = call.op
    BY <1>1
  <2> QED BY <1>1, <2>1, <2>2, <2>3, FlightOf
<1>4. Contents' = Contents
  BY <1>1, <1>2, <1>3, ContentsAre
<1> QED BY <1>1, <1>4 DEF Abstract!vars

\* Only the insert that a caller made changes the contents; those of a rehash
\* put back what it took out.
LEMMA PlaceValueImplements ==
  ASSUME HashersMonotone, Sorted, PlaceValue
  PROVE  \/ \E value \in Values : Abstract!EndInsert(value)
         \/ UNCHANGED Abstract!vars
<1>1. PICK value \in Upcoming \ {kMax} :
        /\ value \in Values
        /\ max_is_present_' = max_is_present_
        /\ \/ /\ \E p \in Stop(value) : slots_[p] = value
              /\ Answer("present")
              /\ slots_' = slots_
           \/ /\ \E p, q : Shifts(value, p, q, slots_')
              /\ Answer("inserted")
              /\ SlotValues' = SlotValues \cup {value}
  BY PlaceValueArray DEF Sorted
<1>2. PICK answer :
        /\ Answer(answer)
        /\ SlotValues' = SlotValues \cup {value}
        /\ answer = IF value \in SlotValues THEN "present" ELSE "inserted"
  <2>0. slot_count_ # 0 \/ DOMAIN slots_ = {}
    BY DEF Sorted, Nested, ArrayInv
  <2>1. ASSUME NEW p \in Stop(value)
        PROVE  slots_[p] = value <=> value \in SlotValues
    <3>1. slot_count_ # 0
      BY <2>0 DEF Stop, Least
    <3> QED BY <1>1, <3>1, StopFinds
  <2>2. CASE /\ \E p \in Stop(value) : slots_[p] = value
             /\ Answer("present")
             /\ slots_' = slots_
    <3>1. value \in SlotValues /\ SlotValues' = SlotValues
      BY <2>1, <2>2 DEF SlotValues
    <3> QED BY <2>2, <3>1
  <2>3. CASE /\ \E p, q : Shifts(value, p, q, slots_')
             /\ Answer("inserted")
             /\ SlotValues' = SlotValues \cup {value}
    <3>1. value \notin SlotValues
      BY <2>1, <2>3 DEF Shifts
    <3> QED BY <2>3, <3>1
  <2> QED BY <1>1, <2>2, <2>3
<1>3. Nested /\ pc = "working" /\ Upcoming # {}
  BY <1>1 DEF Sorted, PlaceValue
<1>4. Upcoming = {value}
  <2>1. Frame(Top)
    <3>1. CASE todo = <<todo[1]>>
      BY <1>3, <3>1, OneCall DEF Nested, StackInv
    <3>2. CASE todo # <<todo[1]>>
      BY <1>3, <3>2, TwoCalls DEF Nested, StackInv
    <3> QED BY <3>1, <3>2
  <2> QED BY <1>1, <2>1, UpcomingIsNext
<1>5. CASE /\ todo = <<todo[1]>> /\ call.op = "insert"
           /\ Upcoming = {call.arg}
           /\ Return(answer)
  <2>1. call.arg = value /\ todo' = <<>> /\ call'.op # "insert" /\ result' = answer
    BY <1>1, <1>5 DEF Return, Idle
  <2>2. Flight(todo, call.op) = {} /\ Flight(todo', call'.op) = {}
    BY <1>5, <2>1, FlightOf
  <2>3. Contents' = Contents \cup {value} /\ (value \in Contents <=> value \in SlotValues)
    BY <1>1, <1>2, <2>2, ContentsAre
  <2>4. Abstract!With([v \in Values |-> v][value]) = Contents \cap {value}
    BY <1>1, WithIs
  <2>5. CASE value \in SlotValues
    <3>1. Contents' = Contents
      BY <2>3, <2>5
    <3>2. Abstract!With([v \in Values |-> v][value]) # {}
      BY <2>3, <2>4, <2>5
    <3>3. result' = "present"
      BY <1>2, <2>1, <2>5
    <3>4. Abstract!EndInsert(value)
      BY <1>5, <2>1, <3>1, <3>2, <3>3 DEF Abstract!EndInsert
    <3> QED BY <1>1, <3>4
  <2>6. CASE value \notin SlotValues
    <3>1. Abstract!With([v \in Values |-> v][value]) = {}
      BY <2>3, <2>4, <2>6
    <3>2. result' = "inserted"
      BY <1>2, <2>1, <2>6
    <3>3. Abstract!EndInsert(value)
      BY <1>5, <2>1, <2>3, <3>1, <3>2 DEF Abstract!EndInsert
    <3> QED BY <1>1, <3>3
  <2> QED BY <2>5, <2>6
<1>6. CASE /\ todo = <<todo[1]>> /\ call.op = "reserve"
           /\ \E g : /\ todo' = <<g>>
                     /\ Frame(g) /\ Moves(g)
                     /\ Range(todo[1]) = Range(g) \cup Upcoming
           /\ UNCHANGED <<pc, call, result>>
  <2>1. PICK g : todo' = <<g>> /\ Range(todo[1]) = Range(g) \cup Upcoming
    BY <1>6
  <2>2. Flight(todo, call.op) = Range(todo[1]) /\ Flight(todo', call'.op) = Range(g)
    BY <1>6, <2>1, FlightOf
  <2>3. Upcoming = {value}
    BY <1>4
  <2>4. Contents' = Contents
    BY <1>1, <1>2, <2>1, <2>2, <2>3, ContentsAre
  <2> QED BY <1>6, <2>4 DEF Abstract!vars
<1>7. CASE /\ todo = <<todo[1], todo[2]>>
           /\ \E g : /\ todo' = <<todo[1], g>>
                     /\ Range(todo[2]) = Range(g) \cup Upcoming
           /\ UNCHANGED <<pc, call, result>>
  <2>1. PICK g : todo' = <<todo[1], g>> /\ Range(todo[2]) = Range(g) \cup Upcoming
    BY <1>7
  <2>2. /\ Flight(todo, call.op)
             = Range(todo[2]) \cup IF call.op = "insert" THEN {} ELSE Range(todo[1])
        /\ Flight(todo', call'.op)
             = Range(g) \cup IF call.op = "insert" THEN {} ELSE Range(todo[1])
    <3>1. todo' = <<todo'[1], todo'[2]>> /\ todo'[1] = todo[1] /\ todo'[2] = g
      BY <2>1
    <3>2. Flight(todo', call'.op)
            = Range(todo'[2]) \cup IF call'.op = "insert" THEN {} ELSE Range(todo'[1])
      BY <3>1, FlightOfTwo
    <3>3. call'.op = call.op
      BY <1>7
    <3> QED BY <1>7, <3>1, <3>2, <3>3, FlightOfTwo
  <2>3. Upcoming = {value}
    BY <1>4
  <2>4. Contents' = Contents
    BY <1>1, <1>2, <2>1, <2>2, <2>3, ContentsAre
  <2> QED BY <1>7, <2>4 DEF Abstract!vars
<1> QED BY <1>2, <1>3, <1>5, <1>6, <1>7, AnswerStack

LEMMA EndRehashImplements ==
  ASSUME Sorted, EndRehash
  PROVE  Abstract!Resize \/ UNCHANGED Abstract!vars
<1>1. UNCHANGED <<slots_, max_is_present_>>
  BY DEF EndRehash, table
<1>2. SlotValues' = SlotValues
  BY <1>1 DEF SlotValues
<1>3. CASE /\ todo = <<todo[1], todo[2]>> /\ Range(todo[2]) = {}
           /\ todo' = <<todo[1]>> /\ UNCHANGED <<pc, call, result>>
  <2>1. /\ Flight(todo, call.op)
             = Range(todo[2]) \cup IF call.op = "insert" THEN {} ELSE Range(todo[1])
        /\ Flight(todo', call'.op) = IF call.op = "insert" THEN {} ELSE Range(todo[1])
    <3>1. call'.op = call.op
      BY <1>3
    <3>2. Flight(todo', call.op) = IF call.op = "insert" THEN {} ELSE Range(todo[1])
      BY <1>3, FlightOf
    <3> QED BY <1>3, <3>1, <3>2, FlightOfTwo
  <2>2. Contents' = Contents
    BY <1>1, <1>2, <1>3, <2>1, ContentsAre
  <2> QED BY <1>3, <2>2 DEF Abstract!vars
<1>4. CASE /\ todo = <<todo[1]>> /\ Range(todo[1]) = {} /\ call.op = "reserve"
           /\ Return("void")
  <2>1. todo' = <<>> /\ call'.op # "insert" /\ result' = "void"
    BY <1>4 DEF Return, Idle
  <2>2. Flight(todo, call.op) = {} /\ Flight(todo', call'.op) = {}
    BY <1>4, <2>1, FlightOf
  <2>3. Contents' = Contents
    BY <1>1, <1>2, <2>2, ContentsAre
  <2> QED BY <1>4, <2>1, <2>3 DEF Abstract!Resize
<1> QED BY <1>3, <1>4, EndRehashNested DEF Sorted

LEMMA InitImplements == Init => Abstract!Init
<1> SUFFICES ASSUME Init PROVE Abstract!Init
  OBVIOUS
<1>1. Flight(todo, call.op) = {} /\ SlotValues = {} /\ ~max_is_present_
  BY FlightOf DEF Init, SlotValues
<1>2. Contents = {}
  BY <1>1, ContentsAre
<1> QED BY <1>2 DEF Init, Idle, Abstract!Init

LEMMA StepImplements ==
  ASSUME HashersMonotone, Sorted, [Next]_vars
  PROVE  [Abstract!Next]_(Abstract!vars)
<1>1. CASE \E value \in Values : Insert(value)
  BY <1>1, InsertImplements DEF Abstract!Next
<1>2. CASE \E count \in ReserveCounts : Reserve(count)
  BY <1>2, ReserveImplements DEF Abstract!Next
<1>3. CASE InsertMax
  BY <1>3, InsertMaxImplements DEF Abstract!Next
<1>4. CASE InsertRehash
  BY <1>4, InsertRehashImplements
<1>5. CASE PlaceValue
  BY <1>5, PlaceValueImplements DEF Abstract!Next
<1>6. CASE EndRehash
  BY <1>6, EndRehashImplements DEF Abstract!Next
<1>7. CASE UNCHANGED vars
  <2>1. Contents' = Contents
    BY <1>7 DEF vars, table, Contents, SlotValues, InFlight
  <2> QED BY <1>7, <2>1 DEF vars, Abstract!vars
<1> QED BY <1>1, <1>2, <1>3, <1>4, <1>5, <1>6, <1>7 DEF Next, Step

\* The set promises what HashTable does: each insert changes the contents once,
\* just before it returns, and says whether its value was new; a rehash, and one
\* nested in it, changes nothing a caller can look up.
THEOREM ImplementsAbstractSet == HashersMonotone => (Spec => ImplementsSet)
<1> SUFFICES ASSUME HashersMonotone PROVE Spec => ImplementsSet
  OBVIOUS
<1>1. Sorted /\ [Next]_vars => [Abstract!Next]_(Abstract!vars)
  BY StepImplements
<1>2. Spec => []Sorted
  BY SortedInvariant
<1> QED BY <1>1, <1>2, InitImplements, PTL DEF Spec, ImplementsSet, Abstract!Spec
===============================================================================
