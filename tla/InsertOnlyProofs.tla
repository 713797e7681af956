--------------------------- MODULE InsertOnlyProofs ---------------------------
(***************************************************************************)
(* Proofs about InsertOnly: the search distances of the ring are exact,    *)
(* and whether an experiment aborts is decided by its numbers of slots,    *)
(* graveyards and elements, for every size and every load.                 *)
(***************************************************************************)
EXTENDS InsertOnly, FiniteSetTheorems, NaturalsInduction, TLAPS

-----------------------------------------------------------------------------
(* Arithmetic *)

\* A number below the modulus is its own remainder, also one turn further on.
LEMMA SmallMod ==
  ASSUME NEW n \in Nat \ {0}, NEW a \in 0 .. n - 1
  PROVE  a % n = a /\ (a + n) % n = a
<1>1. a % n = a
  OBVIOUS
<1>2. PICK r \in 0 .. n - 1 : r = (a + n) % n
  OBVIOUS
<1>3. PICK q \in Int : q = (a + n) \div n
  OBVIOUS
<1>4. a + n = n * q + r
  BY <1>2, <1>3
<1>5. q = 1
  <2>1. n * q <= a + n /\ a + n < n * q + n
    BY <1>2, <1>4
  <2>2. n * q < 2 * n /\ 0 < n * q
    BY <2>1
  <2>3. q < 2 /\ q > 0
    BY <2>2
  <2> QED BY <2>3
<1> QED BY <1>1, <1>2, <1>4, <1>5

\* Scaling h from 0 .. m - 1 by n / m stays in 0 .. n - 1: what H1 does.
LEMMA DivRange ==
  ASSUME NEW m \in Nat \ {0}, NEW h \in 0 .. m - 1, NEW n \in Nat \ {0}
  PROVE  (h * n) \div m \in 0 .. n - 1
<1>1. h * n \in Nat /\ h * n < m * n
  OBVIOUS
<1>2. PICK q \in Int : q = (h * n) \div m
  OBVIOUS
<1>3. m * q <= h * n /\ h * n < m * q + m
  BY <1>2
<1>4. q >= 0
  BY <1>1, <1>3
<1>5. q < n
  BY <1>1, <1>3
<1> QED BY <1>2, <1>4, <1>5

\* Division, rounded down and up
Down(a, b) == a \div b
Up(a, b) == (a + b - 1) \div b

\* A ratio with a denominator rounds down and up to natural numbers.
LEMMA DivNat ==
  ASSUME NEW a \in Nat, NEW b \in Nat \ {0}
  PROVE  /\ Down(a, b) \in Nat /\ Up(a, b) \in Nat
         /\ a <= Up(a, b) * b /\ Up(a, b) * b < a + b
         /\ a >= b => Down(a, b) > 0
<1>1. PICK q \in Int : q = a \div b
  OBVIOUS
<1>2. b * q <= a /\ a < b * q + b
  BY <1>1
<1>3. q + 1 > 0
  <2>1. b * (q + 1) > 0
    BY <1>2
  <2> QED BY <2>1
<1>4. a >= b => q > 0
  <2>1. a >= b => b * q > 0
    BY <1>2
  <2> QED BY <2>1
<1>5. PICK c \in Int : c = (a + b - 1) \div b
  OBVIOUS
<1>6. b * c <= a + b - 1 /\ a + b - 1 < b * c + b
  BY <1>5
<1>7. c + 1 > 0
  <2>1. b * (c + 1) > 0
    BY <1>6
  <2> QED BY <2>1
<1> QED BY <1>1, <1>3, <1>4, <1>5, <1>6, <1>7 DEF Down, Up

\* Position off of a probe sequence from h
LEMMA IndexValue ==
  ASSUME NEW n \in Nat \ {0}, NEW h \in 0 .. n - 1, NEW off \in 0 .. n - 1
  PROVE  (h + off) % n = IF h + off < n THEN h + off ELSE h + off - n
<1>1. CASE h + off < n
  BY <1>1, SmallMod
<1>2. CASE ~(h + off < n)
  <2>1. PICK a \in 0 .. n - 1 : a = h + off - n
    BY <1>2
  <2>2. h + off = a + n
    BY <2>1
  <2> QED BY <1>2, <2>1, <2>2, SmallMod
<1> QED BY <1>1, <1>2

\* A nonempty set of natural numbers has a least element.
LEMMA MinNat ==
  ASSUME NEW S, S \subseteq Nat, S # {}
  PROVE  Min(S) \in S /\ \A x \in S : Min(S) <= x
<1> DEFINE below == {ss \in Nat \X Nat : ss[1] < ss[2]}
<1>1. IsWellFoundedOn(below, Nat)
  BY NatLessThanWellFounded, Zenon DEF OpToRel
<1> HIDE DEF below
<1>2. PICK x \in S : \A y \in S : <<y, x>> \notin below
  BY <1>1, WFMin
<1>3. ASSUME NEW y \in S PROVE x <= y
  <2>1. x \in Nat /\ y \in Nat
    OBVIOUS
  <2>2. ~(y < x)
    <3>1. y < x => <<y, x>> \in below
      BY <2>1 DEF below
    <3> QED BY <1>2, <3>1
  <2> QED BY <2>1, <2>2
<1> QED BY <1>3 DEF Min

-----------------------------------------------------------------------------
(* The experiments *)

Experiments == MeasureIncreasingLoad(Fills) \cup MeasureReducingGraveyard(FixedFill, Periods)

\* The arithmetic of Ratio on the loads does not overflow.
LEMMA FillRatio ==
  ASSUME NEW a \in Nat, NEW b \in Nat, 0 < a, a < b, 4 * b < Word
  PROVE  LET r == Ratio(a, b)
         IN  /\ r = [numerator |-> a, denominator |-> b]
             /\ Remaining(r) = [numerator |-> b - a, denominator |-> b]
             /\ Additional(r) = [numerator |-> b - a, denominator |-> 4 * b]
             /\ Tombstones(r) = [numerator |-> b - a, denominator |-> 2 * b]
             /\ Floor(Invert(Tombstones(r))) \in Nat \ {0}
<1>0. Word \in Nat \ {0}
  BY ExperimentAssumption
<1>1. \A x \in 0 .. Word - 1 : x % Word = x /\ (x + Word) % Word = x
  BY <1>0, SmallMod
<1>2. a % Word = a /\ b % Word = b /\ 1 % Word = 1 /\ 4 % Word = 4 /\ 2 % Word = 2
      /\ (4 * b) % Word = 4 * b /\ (2 * b) % Word = 2 * b /\ (b - a) % Word = b - a
  BY <1>0, <1>1
<1>3. (-a) % Word = Word - a
  <2>1. PICK r \in 0 .. Word - 1 : r = (-a) % Word
    BY <1>0
  <2>2. PICK q \in Int : q = (-a) \div Word
    BY <1>0
  <2>3. -a = Word * q + r
    BY <1>0, <2>1, <2>2
  <2>4. q = -1
    <3>1. Word * q < 0 /\ Word * q > -2 * Word
      BY <1>0, <2>1, <2>3
    <3>2. q < 0 /\ q > -2
      BY <1>0, <3>1
    <3> QED BY <3>2
  <2> QED BY <1>0, <2>1, <2>3, <2>4
<1>4. Ratio(a, b) = [numerator |-> a, denominator |-> b]
      /\ Ratio(1, 1) = [numerator |-> 1, denominator |-> 1]
      /\ Ratio(1, 4) = [numerator |-> 1, denominator |-> 4]
      /\ Ratio(1, 2) = [numerator |-> 1, denominator |-> 2]
  BY <1>2 DEF Ratio
<1>5. Remaining(Ratio(a, b)) = [numerator |-> b - a, denominator |-> b]
  <2>1. 1 * b + (Word - a) * 1 = (b - a) + Word /\ 1 * b = b
    BY <1>0
  <2>2. ((b - a) + Word) % Word = b - a
    BY <1>0, <1>1
  <2> QED BY <1>2, <1>3, <1>4, <2>1, <2>2 DEF Remaining, Minus, Ratio
<1>6. Additional(Ratio(a, b)) = [numerator |-> b - a, denominator |-> 4 * b]
  <2>1. (b - a) * 1 = b - a /\ b * 4 = 4 * b
    OBVIOUS
  <2> QED BY <1>2, <1>4, <1>5, <2>1 DEF Additional, Times, Ratio
<1>7. Tombstones(Ratio(a, b)) = [numerator |-> b - a, denominator |-> 2 * b]
  <2>1. (b - a) * 1 = b - a /\ b * 2 = 2 * b
    OBVIOUS
  <2> QED BY <1>2, <1>4, <1>5, <2>1 DEF Tombstones, Times, Ratio
<1>8. Floor(Invert(Tombstones(Ratio(a, b)))) \in Nat \ {0}
  <2>1. Invert(Tombstones(Ratio(a, b))) = [numerator |-> 2 * b, denominator |-> b - a]
    BY <1>2, <1>7 DEF Invert, Ratio
  <2>2. PICK num \in Nat : num = 2 * b
    OBVIOUS
  <2>3. PICK den \in Nat \ {0} : den = b - a
    OBVIOUS
  <2>4. num >= den
    BY <2>2, <2>3
  <2>5. Down(num, den) \in Nat \ {0}
    BY <2>4, DivNat
  <2>6. Floor(Invert(Tombstones(Ratio(a, b)))) = Down(num, den)
    BY <2>1, <2>2, <2>3 DEF Floor, Down
  <2> QED BY <2>5, <2>6
<1> QED BY <1>4, <1>5, <1>6, <1>7, <1>8

\* An experiment leaves out every p-th slot for some p > 0 or none, and its
\* sizes are natural numbers.
LEMMA ExperimentSizes ==
  ASSUME NEW e \in Experiments
  PROVE  /\ e.graveyard_period = NoPeriod \/ e.graveyard_period \in Nat \ {0}
         /\ SlotCount(e, n_elements) \in Nat
         /\ TotalCount(e, n_elements) \in Nat
<1>1. PICK f, period :
        /\ f \in Fills \cup {FixedFill}
        /\ e = Experiment(period, Ratio(f[1], f[2]))
        /\ \/ period = NoPeriod
           \/ period = Floor(Invert(Tombstones(Ratio(f[1], f[2]))))
           \/ period \in Periods
  BY DEF Experiments, MeasureIncreasingLoad, MeasureReducingGraveyard
<1>2. PICK a \in Nat, b \in Nat : /\ a = f[1] /\ b = f[2]
                                  /\ 0 < a /\ a < b /\ 4 * b < Word
  BY <1>1, FillsAssumption
<1>3. /\ Ratio(a, b) = [numerator |-> a, denominator |-> b]
      /\ Additional(Ratio(a, b)) = [numerator |-> b - a, denominator |-> 4 * b]
      /\ Floor(Invert(Tombstones(Ratio(a, b)))) \in Nat \ {0}
  BY <1>2, FillRatio
<1>4. e = [graveyard_period |-> period,
           load_factor |-> [numerator |-> a, denominator |-> b],
           additional |-> [numerator |-> b - a, denominator |-> 4 * b]]
  BY <1>1, <1>2, <1>3 DEF Experiment
<1>5. e.graveyard_period = NoPeriod \/ e.graveyard_period \in Nat \ {0}
  <2>1. e.graveyard_period = period
    BY <1>4
  <2>2. CASE period = Floor(Invert(Tombstones(Ratio(f[1], f[2]))))
    BY <1>2, <1>3, <2>1, <2>2
  <2>3. CASE period \in Periods
    BY <2>1, <2>3, FillsAssumption
  <2> QED BY <1>1, <2>1, <2>2, <2>3
<1>6. Word \in Nat \ {0} /\ n_elements \in Nat
  BY ExperimentAssumption
<1>7. \A x \in 0 .. Word - 1 : x % Word = x
  BY <1>6, SmallMod
<1>8. \A x \in Nat : x % Word \in Nat
  BY <1>6
<1>9. a % Word = a /\ (4 * b) % Word = 4 * b /\ 1 % Word = 1 /\ b % Word = b
  BY <1>2, <1>6, <1>7
<1>10. SlotCount(e, n_elements) \in Nat
  <2>1. Invert(e.load_factor) = [numerator |-> b, denominator |-> a]
    BY <1>4, <1>9 DEF Invert, Ratio
  <2>2. Ratio(n_elements, 1) = [numerator |-> n_elements % Word, denominator |-> 1]
    BY <1>9 DEF Ratio
  <2>3. PICK num \in Nat : num = ((n_elements % Word) * b) % Word
    <3>1. PICK m \in Nat : m = n_elements % Word
      BY <1>6, <1>8
    <3>2. m * b \in Nat
      OBVIOUS
    <3> QED BY <1>8, <3>1, <3>2
  <2>4. Times(Ratio(n_elements, 1), Invert(e.load_factor)) = [numerator |-> num, denominator |-> a]
    <3>1. 1 * a = a
      OBVIOUS
    <3> QED BY <1>9, <2>1, <2>2, <2>3, <3>1 DEF Times, Ratio
  <2>5. Down(num, a) \in Nat
    <3>1. a \in Nat \ {0}
      BY <1>2
    <3> QED BY <3>1, DivNat
  <2> QED BY <2>4, <2>5 DEF SlotCount, Floor, Down
<1>11. TotalCount(e, n_elements) \in Nat
  <2>1. Ratio(n_elements, 1) = [numerator |-> n_elements % Word, denominator |-> 1]
    BY <1>9 DEF Ratio
  <2>2. PICK num \in Nat : num = ((b - a) * (n_elements % Word)) % Word
    <3>1. PICK m \in Nat : m = n_elements % Word
      BY <1>6, <1>8
    <3>2. (b - a) * m \in Nat
      BY <1>2
    <3> QED BY <1>8, <3>1, <3>2
  <2>3. PICK den \in Nat \ {0} : den = 4 * b
    BY <1>2
  <2>4. Times(e.additional, Ratio(n_elements, 1)) = [numerator |-> num, denominator |-> den]
    <3>1. (4 * b) * 1 = 4 * b
      OBVIOUS
    <3> QED BY <1>4, <1>9, <2>1, <2>2, <2>3, <3>1 DEF Times, Ratio
  <2>5. Up(num, den) \in Nat
    BY DivNat
  <2>6. SecondCount(e, n_elements) \in Nat
    BY <2>4, <2>5 DEF SecondCount, NumberBelow, Up
  <2> QED BY <1>6, <2>6 DEF TotalCount
<1> QED BY <1>5, <1>10, <1>11

-----------------------------------------------------------------------------
(* The ring *)

\* H1 and Index in a ring of n slots
Scaled(v, n) == (v * n) \div HashSpace
At(i, off, n) == (i + off) % n

\* Slot j of the ring s holds a value whose probe sequence begins at slot i.
Prefers(s, n, j, i) == s[j].value # Free /\ Scaled(s[j].value, n) = i

\* Slot j is one that an insert with this period leaves free.
Graveyard(j, period) == period # NoPeriod /\ j % period = 0

RingTyped ==
  /\ experiment \in Experiments
  /\ pc \in {"first", "second", "measured", "aborted"}
  /\ slots_ \in [0 .. n_slots - 1 -> [value : Values \cup {Free}, search_distance : Nat]]
  /\ seen_before \subseteq Values

\* The ring holds numbers that have been drawn, none twice.
NoneTwice ==
  /\ \A i \in DOMAIN slots_ : slots_[i].value \in seen_before \cup {Free}
  /\ \A i, j \in DOMAIN slots_ :
       slots_[i].value # Free /\ slots_[i].value = slots_[j].value => i = j

\* The search distance of a slot is the number of probes to the farthest value
\* that prefers it.
ExactIn(s, n, i) ==
  LET d == s[i].search_distance
  IN  /\ \A off \in 0 .. n - 1 : Prefers(s, n, At(i, off, n), i) => off + 1 <= d
      /\ d = 0 \/ \E off \in 0 .. n - 1 : Prefers(s, n, At(i, off, n), i) /\ d = off + 1

Exact(i) == ExactIn(slots_, n_slots, i)

Full == {i \in DOMAIN slots_ : slots_[i].value # Free}

\* The number of graveyards in a ring of S slots
Graves(S, period) == IF period = NoPeriod THEN 0 ELSE Up(S, period)

\* Every number drawn is in a slot of its own, the first ones beside the graveyards.
Counted ==
  /\ IsFiniteSet(seen_before)
  /\ pc # "aborted" => Cardinality(Full) = Cardinality(seen_before)
  /\ pc = "first" => \A i \in Full : ~Graveyard(i, experiment.graveyard_period)
  /\ pc = "second" => n_elements <= n_slots - Graves(n_slots, experiment.graveyard_period)
  /\ pc = "aborted" => ~Fits(experiment, n_elements)
  /\ pc = "measured" => Fits(experiment, n_elements)

\* The inductive invariants
RingInv ==
  /\ RingTyped
  /\ NoneTwice
  /\ \A i \in DOMAIN slots_ : Exact(i)

\* A ring has a natural number of slots.
LEMMA RingSize ==
  ASSUME RingTyped
  PROVE  /\ n_slots \in Nat /\ DOMAIN slots_ = 0 .. n_slots - 1
         /\ \A i \in DOMAIN slots_ : /\ slots_[i].search_distance \in Nat
                                     /\ slots_[i].value \in Values \cup {Free}
BY ExperimentSizes DEF RingTyped, n_slots

\* A number prefers a slot of the ring.
LEMMA PreferredSlot ==
  ASSUME RingTyped, n_slots > 0, NEW v \in Values
  PROVE  H1(v) \in 0 .. n_slots - 1
<1>1. HashSpace \in Nat \ {0} /\ v \in 0 .. HashSpace - 1
  BY ExperimentAssumption
<1>2. PICK n \in Nat \ {0} : n = n_slots
  BY RingSize
<1> QED BY <1>1, <1>2, DivRange DEF H1

\* A probe sequence stays in the ring, examines no slot twice, and reaches all.
LEMMA ProbeSequence ==
  ASSUME RingTyped, NEW h \in 0 .. n_slots - 1
  PROVE  /\ \A off \in 0 .. n_slots - 1 : Index(h, off) \in 0 .. n_slots - 1
         /\ \A off, other \in 0 .. n_slots - 1 : Index(h, off) = Index(h, other) => off = other
         /\ \A j \in 0 .. n_slots - 1 : \E off \in 0 .. n_slots - 1 : Index(h, off) = j
<1>1. PICK n \in Nat : n = n_slots
  BY RingSize
<1>2. n \in Nat \ {0} /\ h \in 0 .. n - 1
  BY <1>1
<1>3. \A off \in 0 .. n - 1 : Index(h, off) = IF h + off < n THEN h + off ELSE h + off - n
  BY <1>1, <1>2, IndexValue DEF Index
<1>4. ASSUME NEW j \in 0 .. n - 1 PROVE \E off \in 0 .. n - 1 : Index(h, off) = j
  <2>1. CASE j >= h
    <3>1. j - h \in 0 .. n - 1 /\ h + (j - h) = j
      BY <1>2, <2>1
    <3>2. Index(h, j - h) = j
      BY <1>2, <1>3, <3>1
    <3> QED BY <3>1, <3>2
  <2>2. CASE j < h
    <3>1. j - h + n \in 0 .. n - 1 /\ h + (j - h + n) = j + n
      BY <1>2, <2>2
    <3>2. Index(h, j - h + n) = j
      BY <1>2, <1>3, <3>1
    <3> QED BY <3>1, <3>2
  <2> QED BY <1>2, <2>1, <2>2
<1>5. \A off \in 0 .. n - 1 : Index(h, off) \in 0 .. n - 1
  BY <1>2, <1>3
<1>6. \A off, other \in 0 .. n - 1 : Index(h, off) = Index(h, other) => off = other
  BY <1>2, <1>3
<1> QED BY <1>1, <1>4, <1>5, <1>6

\* What an insert that finds a slot does: v goes off slots on from slot h.
Places(v, period, h, off) ==
  LET p == Index(h, off)
  IN  /\ p \in DOMAIN slots_ /\ slots_[p].value = Free /\ ~Graveyard(p, period)
      /\ slots_' \in [0 .. n_slots - 1 -> [value : Values \cup {Free}, search_distance : Nat]]
      /\ \A j \in DOMAIN slots_ :
           /\ slots_'[j].value = IF j = p THEN v ELSE slots_[j].value
           /\ slots_'[j].search_distance =
                IF j = h THEN Larger(slots_[j].search_distance, off + 1)
                ELSE slots_[j].search_distance

\* An insert of a new number finds a slot, or there is none but graveyards.
LEMMA InsertEffect ==
  ASSUME RingInv, NEW v \in Values \ seen_before, NEW period, Insert(v, period)
  PROVE  \/ /\ pc' = "aborted" /\ UNCHANGED slots_
            /\ \A j \in DOMAIN slots_ : slots_[j].value # Free \/ Graveyard(j, period)
         \/ /\ UNCHANGED pc
            /\ H1(v) \in DOMAIN slots_
            /\ \E off \in 0 .. n_slots - 1 : Places(v, period, H1(v), off)
<1>1. /\ RingTyped /\ DOMAIN slots_ = 0 .. n_slots - 1 /\ v \in Values /\ n_slots \in Nat
      /\ slots_ \in [0 .. n_slots - 1 -> [value : Values \cup {Free}, search_distance : Nat]]
  BY RingSize DEF RingInv, RingTyped
<1>2. \A j \in DOMAIN slots_ : slots_[j].value # v
  BY ExperimentAssumption DEF RingInv, NoneTwice
<1>3. CASE Probes(v, period) = {}
  <2>1. pc' = "aborted" /\ UNCHANGED slots_
    BY <1>3 DEF Insert
  <2>2. ASSUME NEW j \in DOMAIN slots_, slots_[j].value = Free, ~Graveyard(j, period)
        PROVE  FALSE
    <3>1. n_slots > 0
      BY <1>1
    <3>2. H1(v) \in 0 .. n_slots - 1
      BY <1>1, <3>1, PreferredSlot
    <3>3. PICK off \in 0 .. n_slots - 1 : Index(H1(v), off) = j
      BY <1>1, <3>2, ProbeSequence
    <3> QED BY <1>3, <2>2, <3>3 DEF Probes, Skipped, Graveyard
  <2> QED BY <2>1, <2>2
<1>4. CASE Probes(v, period) # {}
  <2>1. Probes(v, period) \subseteq Nat /\ Probes(v, period) \subseteq 0 .. n_slots - 1
    BY <1>1 DEF Probes
  <2>2. PICK off \in Probes(v, period) : off = Min(Probes(v, period))
    BY <1>4, <2>1, MinNat
  <2>3. off \in 0 .. n_slots - 1 /\ n_slots > 0
    BY <1>1, <2>1, <2>2
  <2>4. PICK h \in 0 .. n_slots - 1 : h = H1(v)
    BY <1>1, <2>3, PreferredSlot
  <2>5. PICK p \in 0 .. n_slots - 1 : p = Index(h, off)
    BY <1>1, <2>3, ProbeSequence
  <2>6. slots_[p].value = Free /\ ~Graveyard(p, period)
    BY <1>1, <1>2, <2>2, <2>4, <2>5 DEF Probes, Skipped, Graveyard
  <2>7. /\ UNCHANGED pc
        /\ slots_' = [slots_ EXCEPT ![p].value = v,
                                    ![h].search_distance = Raised(@, off)]
    BY <1>4, <2>2, <2>4, <2>5, <2>6 DEF Insert
  <2>8. PICK n \in Nat : n = n_slots
    BY <1>1
  <2>9. /\ \A j \in 0 .. n - 1 : Larger(slots_[j].search_distance, off + 1) \in Nat
        /\ \A d \in Nat : Raised(d, off) = Larger(d, off + 1)
    BY <1>1, <2>3, <2>8, RingSize DEF Larger, Raised
  <2>10. slots_' \in [0 .. n - 1 -> [value : Values \cup {Free}, search_distance : Nat]]
    <3>1. PICK S : S = [value : Values \cup {Free}, search_distance : Nat]
      OBVIOUS
    <3>2. PICK f : f = [slots_ EXCEPT ![p].value = v]
      OBVIOUS
    <3>3. p \in 0 .. n - 1 /\ h \in 0 .. n - 1 /\ slots_ \in [0 .. n - 1 -> S]
      BY <1>1, <2>4, <2>5, <2>8, <3>1
    <3>4. f \in [0 .. n - 1 -> S]
      <4>1. [slots_[p] EXCEPT !.value = v] \in S
        BY <1>1, <3>1, <3>3
      <4>2. f = [slots_ EXCEPT ![p] = [slots_[p] EXCEPT !.value = v]]
        BY <3>2, <3>3
      <4> QED BY <3>3, <4>1, <4>2
    <3>5. f[h].search_distance = slots_[h].search_distance
      BY <1>1, <3>2, <3>3, <3>1
    <3>6. PICK d \in Nat : d = Larger(f[h].search_distance, off + 1)
      BY <2>8, <2>9, <3>3, <3>5
    <3>7. slots_' = [f EXCEPT ![h].search_distance = d]
      <4>1. slots_[h].search_distance \in Nat
        BY <1>1, <3>3, RingSize
      <4> QED BY <2>7, <2>9, <3>2, <3>3, <3>5, <3>6, <4>1
    <3>8. [f[h] EXCEPT !.search_distance = d] \in S
      BY <3>1, <3>3, <3>4
    <3> QED BY <3>1, <3>3, <3>4, <3>7, <3>8
  <2>11. \A j \in 0 .. n - 1 :
           /\ slots_'[j].value = IF j = p THEN v ELSE slots_[j].value
           /\ slots_'[j].search_distance =
                IF j = h THEN Larger(slots_[j].search_distance, off + 1)
                ELSE slots_[j].search_distance
    BY <1>1, <2>4, <2>5, <2>7, <2>8, <2>9
  <2>12. Places(v, period, h, off)
    BY <1>1, <2>5, <2>6, <2>8, <2>10, <2>11 DEF Places
  <2> QED BY <1>1, <2>3, <2>4, <2>7, <2>12
<1> QED BY <1>3, <1>4

\* Larger is the maximum.
LEMMA LargerNat ==
  ASSUME NEW a \in Nat, NEW b \in Nat
  PROVE  /\ Larger(a, b) \in Nat /\ a <= Larger(a, b) /\ b <= Larger(a, b)
         /\ Larger(a, b) = a \/ Larger(a, b) = b
BY DEF Larger

\* A distance past every number of a set by as little as possible, raised to cover
\* another one
LEMMA RaisedExact ==
  ASSUME NEW B \in SUBSET Nat, NEW d \in Nat, NEW off \in Nat,
         \A o \in B : o + 1 <= d,
         d = 0 \/ \E o \in B : d = o + 1
  PROVE  LET e == Larger(d, off + 1)
         IN  /\ \A o \in B \cup {off} : o + 1 <= e
             /\ \E o \in B \cup {off} : e = o + 1
<1>1. off + 1 \in Nat /\ off + 1 > 0
  OBVIOUS
<1>2. PICK e \in Nat : e = Larger(d, off + 1)
  BY <1>1, LargerNat
<1>3. d <= e /\ off + 1 <= e /\ (e = d \/ e = off + 1)
  BY <1>1, <1>2, LargerNat
<1>4. \A o \in B \cup {off} : o + 1 <= e
  BY <1>3
<1>5. \E o \in B \cup {off} : e = o + 1
  BY <1>1, <1>3
<1> QED BY <1>2, <1>4, <1>5

\* The ring t is s with v in slot p, off slots on from slot h.
Placed(s, t, n, v, h, off, p) ==
  /\ p = At(h, off, n) /\ s[p].value = Free
  /\ \A j \in 0 .. n - 1 :
       /\ t[j].value = IF j = p THEN v ELSE s[j].value
       /\ t[j].search_distance = IF j = h THEN Larger(s[j].search_distance, off + 1)
                                 ELSE s[j].search_distance

\* Placing a number keeps every search distance exact.
LEMMA PlacingKeepsExact ==
  ASSUME NEW n \in Nat, NEW s, NEW t, NEW h \in 0 .. n - 1, NEW off \in 0 .. n - 1,
         NEW v, v # Free, Scaled(v, n) = h,
         NEW p \in 0 .. n - 1, Placed(s, t, n, v, h, off, p),
         \A i \in 0 .. n - 1 : s[i].search_distance \in Nat /\ ExactIn(s, n, i),
         \A i, o \in 0 .. n - 1 : At(i, o, n) \in 0 .. n - 1,
         \A o \in 0 .. n - 1 : At(h, o, n) = p => o = off
  PROVE  \A i \in 0 .. n - 1 : ExactIn(t, n, i)
<1> SUFFICES ASSUME NEW i \in 0 .. n - 1
             PROVE  ExactIn(t, n, i)
  OBVIOUS
<1> DEFINE Before(o) == Prefers(s, n, At(i, o, n), i)
           Now(o) == Prefers(t, n, At(i, o, n), i)
<1>1. ASSUME NEW o \in 0 .. n - 1
      PROVE  Now(o) <=> Before(o) \/ (i = h /\ o = off)
  <2>1. PICK j \in 0 .. n - 1 : j = At(i, o, n)
    OBVIOUS
  <2>2. CASE j = p
    <3>1. t[j].value = v /\ s[j].value = Free
      BY <2>2 DEF Placed
    <3>2. (i = h => o = off) /\ At(h, off, n) = p
      BY <2>1, <2>2 DEF Placed
    <3> QED BY <2>1, <2>2, <3>1, <3>2 DEF Prefers
  <2>3. CASE j # p
    <3>1. t[j].value = s[j].value
      BY <2>3 DEF Placed
    <3>2. ~(i = h /\ o = off)
      BY <2>1, <2>3 DEF Placed
    <3> QED BY <2>1, <3>1, <3>2 DEF Prefers
  <2> QED BY <2>2, <2>3
<1>2. PICK d \in Nat : d = s[i].search_distance
  OBVIOUS
<1>3. /\ \A o \in 0 .. n - 1 : Before(o) => o + 1 <= d
      /\ d = 0 \/ \E o \in 0 .. n - 1 : Before(o) /\ d = o + 1
  BY <1>2 DEF ExactIn
<1>4. CASE i # h
  <2>1. t[i].search_distance = d
    BY <1>2, <1>4 DEF Placed
  <2>2. /\ \A o \in 0 .. n - 1 : Now(o) => o + 1 <= d
        /\ d = 0 \/ \E o \in 0 .. n - 1 : Now(o) /\ d = o + 1
    <3>1. \A o \in 0 .. n - 1 : Now(o) <=> Before(o)
      BY <1>1, <1>4
    <3> HIDE DEF Before, Now
    <3> QED BY <1>3, <3>1
  <2> QED BY <2>1, <2>2 DEF ExactIn
<1>5. CASE i = h
  <2>1. t[i].search_distance = Larger(d, off + 1)
    BY <1>2, <1>5 DEF Placed
  <2>2. LET e == Larger(d, off + 1)
        IN  /\ \A o \in 0 .. n - 1 : Now(o) => o + 1 <= e
            /\ \E o \in 0 .. n - 1 : Now(o) /\ e = o + 1
    <3>1. \A o \in 0 .. n - 1 : Now(o) <=> Before(o) \/ o = off
      BY <1>1, <1>5
    <3> HIDE DEF Before, Now
    <3>2. PICK B : B = {o \in 0 .. n - 1 : Before(o)} /\ B \in SUBSET Nat
      <4>1. {o \in 0 .. n - 1 : Before(o)} \in SUBSET Nat
        OBVIOUS
      <4> QED BY <4>1
    <3>3. LET e == Larger(d, off + 1)
          IN  /\ \A o \in B \cup {off} : o + 1 <= e
              /\ \E o \in B \cup {off} : e = o + 1
      <4>1. \A o \in B : o + 1 <= d
        BY <1>3, <3>2
      <4>2. d = 0 \/ \E o \in B : d = o + 1
        BY <1>3, <3>2
      <4>3. off \in Nat
        OBVIOUS
      <4> QED BY <3>2, <4>1, <4>2, <4>3, RaisedExact
    <3>4. \A o \in 0 .. n - 1 : Now(o) <=> o \in B \cup {off}
      BY <3>1, <3>2
    <3>5. B \cup {off} \subseteq 0 .. n - 1
      BY <3>2
    <3> QED BY <3>3, <3>4, <3>5
  <2> QED BY <2>1, <2>2 DEF ExactIn
<1> QED BY <1>4, <1>5

\* An insert of a new number keeps the invariant of the ring.
LEMMA InsertKeeps ==
  ASSUME RingInv, NEW v \in Values \ seen_before, NEW period, Insert(v, period),
         seen_before' = seen_before \cup {v}, UNCHANGED experiment
  PROVE  RingInv'
<1>1. /\ RingTyped /\ n_slots \in Nat /\ DOMAIN slots_ = 0 .. n_slots - 1 /\ v \in Values
      /\ v # Free
  BY RingSize, ExperimentAssumption DEF RingInv
<1>2. PICK n \in Nat : n = n_slots
  BY <1>1
<1>3. n_slots' = n
  BY <1>2 DEF n_slots
<1>4. experiment' \in Experiments /\ seen_before' \subseteq Values
      /\ pc \in {"first", "second", "measured", "aborted"}
  BY <1>1 DEF RingTyped
<1>5. CASE pc' = "aborted" /\ UNCHANGED slots_
  <2>1. RingTyped'
    BY <1>1, <1>2, <1>3, <1>4, <1>5 DEF RingTyped
  <2>2. NoneTwice'
    BY <1>1, <1>5 DEF RingInv, NoneTwice
  <2>3. (\A i \in DOMAIN slots_ : Exact(i))'
    BY <1>2, <1>3, <1>5 DEF RingInv, Exact
  <2> QED BY <2>1, <2>2, <2>3 DEF RingInv
<1>6. ASSUME UNCHANGED pc, NEW h \in 0 .. n - 1, h = H1(v),
             NEW off \in 0 .. n - 1, Places(v, period, h, off)
      PROVE  RingInv'
  <2>1. PICK p \in 0 .. n - 1 : p = Index(h, off)
    BY <1>1, <1>2, <1>6, ProbeSequence
  <2>2. /\ p = At(h, off, n) /\ slots_[p].value = Free
        /\ slots_' \in [0 .. n - 1 -> [value : Values \cup {Free}, search_distance : Nat]]
        /\ \A j \in 0 .. n - 1 :
             /\ slots_'[j].value = IF j = p THEN v ELSE slots_[j].value
             /\ slots_'[j].search_distance =
                  IF j = h THEN Larger(slots_[j].search_distance, off + 1)
                  ELSE slots_[j].search_distance
    BY <1>1, <1>2, <1>6, <2>1 DEF Places, Index, At
  <2>3. DOMAIN slots_' = 0 .. n - 1 /\ DOMAIN slots_ = 0 .. n - 1
    BY <1>1, <1>2, <2>2
  <2>4. RingTyped'
    BY <1>3, <1>4, <1>6, <2>2 DEF RingTyped
  <2>5. NoneTwice'
    <3>1. \A i \in 0 .. n - 1 : slots_[i].value \in seen_before \cup {Free}
      BY <2>3 DEF RingInv, NoneTwice
    <3>2. \A i, j \in 0 .. n - 1 :
            slots_[i].value # Free /\ slots_[i].value = slots_[j].value => i = j
      BY <2>3 DEF RingInv, NoneTwice
    <3>3. v \notin seen_before
      OBVIOUS
    <3>4. \A i \in 0 .. n - 1 : slots_'[i].value \in seen_before' \cup {Free}
      BY <2>2, <3>1
    <3>5. \A i, j \in 0 .. n - 1 :
            slots_'[i].value # Free /\ slots_'[i].value = slots_'[j].value => i = j
      <4> SUFFICES ASSUME NEW i \in 0 .. n - 1, NEW j \in 0 .. n - 1,
                          slots_'[i].value # Free, slots_'[i].value = slots_'[j].value
                   PROVE  i = j
        OBVIOUS
      <4>1. /\ slots_'[i].value = IF i = p THEN v ELSE slots_[i].value
            /\ slots_'[j].value = IF j = p THEN v ELSE slots_[j].value
        BY <2>2
      <4>2. slots_[i].value # v /\ slots_[j].value # v
        BY <1>1, <3>1, <3>3
      <4> QED BY <3>2, <4>1, <4>2
    <3> QED BY <2>3, <3>4, <3>5 DEF NoneTwice
  <2>6. \A i \in 0 .. n - 1 : ExactIn(slots_', n, i)
    <3>1. \A i \in 0 .. n - 1 : slots_[i].search_distance \in Nat /\ ExactIn(slots_, n, i)
      BY <1>1, <1>2, RingSize DEF RingInv, Exact
    <3>2. \A i, o \in 0 .. n - 1 : At(i, o, n) \in 0 .. n - 1
      BY <1>1, <1>2, ProbeSequence DEF Index, At
    <3>3. \A o \in 0 .. n - 1 : At(h, o, n) = p => o = off
      BY <1>1, <1>2, <2>2, ProbeSequence DEF Index, At
    <3>4. Scaled(v, n) = h
      BY <1>2, <1>6 DEF Scaled, H1
    <3>5. PICK s, t : s = slots_ /\ t = slots_'
      OBVIOUS
    <3>6. Placed(s, t, n, v, h, off, p)
      BY <2>2, <3>5 DEF Placed
    <3>8. \A i \in 0 .. n - 1 : s[i].search_distance \in Nat /\ ExactIn(s, n, i)
      BY <3>1, <3>5
    <3>9. \A i \in 0 .. n - 1 : ExactIn(t, n, i)
      BY <1>1, <3>2, <3>3, <3>4, <3>6, <3>8, PlacingKeepsExact
    <3> QED BY <3>5, <3>9
  <2>7. (\A i \in DOMAIN slots_ : Exact(i))'
    BY <1>3, <2>3, <2>6 DEF Exact
  <2> QED BY <2>4, <2>5, <2>7 DEF RingInv
<1>7. \/ pc' = "aborted" /\ UNCHANGED slots_
      \/ /\ UNCHANGED pc
         /\ \E h \in 0 .. n - 1 : h = H1(v) /\ \E off \in 0 .. n - 1 : Places(v, period, h, off)
  BY <1>1, <1>2, InsertEffect
<1> QED BY <1>5, <1>6, <1>7

\* The ring is in the state that its invariant describes, at the start and after
\* every step.
THEOREM RingInvariant == Spec => []RingInv
<1>1. Init => RingInv
  <2> SUFFICES ASSUME Init PROVE RingInv
    OBVIOUS
  <2>1. experiment \in Experiments
    BY DEF Init, Experiments
  <2>2. PICK n \in Nat : n = n_slots
    BY <2>1, ExperimentSizes DEF n_slots
  <2>3. slots_ = [i \in 0 .. n - 1 |-> [value |-> Free, search_distance |-> 0]]
    BY <2>2 DEF Init
  <2>4. RingTyped
    BY <2>1, <2>2, <2>3 DEF Init, RingTyped
  <2>5. NoneTwice
    BY <2>3 DEF NoneTwice
  <2>6. \A i \in 0 .. n - 1 : ExactIn(slots_, n, i)
    <3> SUFFICES ASSUME NEW i \in 0 .. n - 1
                 PROVE  ExactIn(slots_, n, i)
      OBVIOUS
    <3>1. \A off \in 0 .. n - 1 : At(i, off, n) \in 0 .. n - 1
      BY <2>2, <2>4, ProbeSequence DEF Index, At
    <3>2. \A off \in 0 .. n - 1 : ~Prefers(slots_, n, At(i, off, n), i)
      BY <2>3, <3>1 DEF Prefers
    <3> QED BY <2>3, <3>2 DEF ExactIn
  <2> QED BY <2>2, <2>3, <2>4, <2>5, <2>6 DEF RingInv, Exact
<1>2. RingInv /\ [Next]_vars => RingInv'
  <2> SUFFICES ASSUME RingInv, [Next]_vars PROVE RingInv'
    OBVIOUS
  <2>1. ASSUME UNCHANGED <<experiment, slots_, seen_before>>,
               pc' \in {"first", "second", "measured", "aborted"}
        PROVE  RingInv'
    BY <2>1 DEF RingInv, RingTyped, NoneTwice, Exact, n_slots
  <2>2. CASE InsertFirst
    BY <2>2, InsertKeeps DEF InsertFirst, GetNumber
  <2>3. CASE StartSecond
    BY <2>1, <2>3 DEF StartSecond
  <2>4. CASE InsertSecond
    BY <2>4, InsertKeeps DEF InsertSecond, GetNumber
  <2>5. CASE GetAverageProbeLengths
    BY <2>1, <2>5 DEF GetAverageProbeLengths
  <2>6. CASE UNCHANGED vars
    BY <2>1, <2>6 DEF vars, RingInv, RingTyped
  <2> QED BY <2>2, <2>3, <2>4, <2>5, <2>6 DEF Next
<1> QED BY <1>1, <1>2, PTL DEF Spec

\* The cost of finding a number is the length of the way to its slot.
LEMMA FoundAt ==
  ASSUME RingInv, NEW i \in DOMAIN slots_, NEW off \in 0 .. n_slots - 1,
         Prefers(slots_, n_slots, Index(i, off), i)
  PROVE  LET v == slots_[Index(i, off)].value
         IN  v \in Stored /\ H1(v) = i /\ FoundCost(v) = off + 1
<1>1. RingTyped /\ DOMAIN slots_ = 0 .. n_slots - 1 /\ n_slots \in Nat
  BY RingSize DEF RingInv
<1>2. PICK p \in 0 .. n_slots - 1 : p = Index(i, off)
  BY <1>1, ProbeSequence
<1>3. PICK v : v = slots_[p].value
  OBVIOUS
<1>4. v # Free /\ H1(v) = i
  BY <1>2, <1>3 DEF Prefers, Scaled, H1
<1>5. \A j \in 0 .. n_slots - 1 : slots_[j].value = v => j = p
  BY <1>1, <1>3, <1>4 DEF RingInv, NoneTwice
<1>6. PICK S : S = {o \in 0 .. n_slots - 1 : slots_[Index(H1(v), o)].value = v}
  OBVIOUS
<1>7. S = {off}
  <2>1. \A o \in 0 .. n_slots - 1 : Index(i, o) \in 0 .. n_slots - 1 /\ (Index(i, o) = p => o = off)
    BY <1>1, <1>2, ProbeSequence
  <2>2. \A o \in S : o = off
    BY <1>4, <1>5, <1>6, <2>1
  <2>3. off \in S
    BY <1>2, <1>3, <1>4, <1>6
  <2> QED BY <2>2, <2>3
<1>8. Min(S) = off
  <2>1. S \subseteq Nat /\ S # {}
    BY <1>1, <1>7
  <2> QED BY <1>7, <2>1, MinNat
<1>9. FoundCost(v) = off + 1
  BY <1>6, <1>8 DEF FoundCost
<1>10. v \in Stored
  BY <1>1, <1>3, <1>4 DEF Stored
<1> QED BY <1>2, <1>3, <1>4, <1>9, <1>10

\* A number in the ring is found on the way from its slot.
LEMMA StoredAt ==
  ASSUME RingInv, NEW v \in Stored
  PROVE  /\ H1(v) \in DOMAIN slots_
         /\ \E off \in 0 .. n_slots - 1 :
              /\ Prefers(slots_, n_slots, Index(H1(v), off), H1(v))
              /\ slots_[Index(H1(v), off)].value = v
<1>1. RingTyped /\ DOMAIN slots_ = 0 .. n_slots - 1 /\ n_slots \in Nat
      /\ \A i \in DOMAIN slots_ : slots_[i].value \in Values \cup {Free}
  BY RingSize DEF RingInv
<1>2. PICK j \in 0 .. n_slots - 1 : v = slots_[j].value /\ v # Free
  BY <1>1 DEF Stored
<1>3. v \in Values /\ n_slots > 0
  BY <1>1, <1>2
<1>4. PICK h \in 0 .. n_slots - 1 : h = H1(v)
  BY <1>1, <1>3, PreferredSlot
<1>5. PICK off \in 0 .. n_slots - 1 : Index(h, off) = j
  BY <1>1, ProbeSequence
<1>6. Prefers(slots_, n_slots, j, h)
  BY <1>2, <1>4 DEF Prefers, Scaled, H1
<1> QED BY <1>1, <1>2, <1>4, <1>5, <1>6

\* The largest of a set of natural numbers, once one has been found
LEMMA MaxNat ==
  ASSUME NEW S, S \subseteq Nat, NEW m \in S, \A x \in S : x <= m
  PROVE  Max(S) = m
<1>1. \E x \in S : \A y \in S : x >= y
  OBVIOUS
<1>2. PICK x \in S : x = Max(S) /\ \A y \in S : x >= y
  BY <1>1 DEF Max
<1> QED BY <1>2

\* Whatever is inserted and however graveyards were left out, the cost of an
\* unsuccessful lookup is that of the worst successful one from the same slot.
THEOREM DistancesAreExact == Spec => []SearchDistancesExact
<1>1. RingInv => SearchDistancesExact
  <2> SUFFICES ASSUME RingInv, NEW i \in DOMAIN slots_
               PROVE  LET costs == {FoundCost(v) : v \in {w \in Stored : H1(w) = i}}
                      IN  NotFoundCost(i) = IF costs = {} THEN 0 ELSE Max(costs)
    BY DEF SearchDistancesExact
  <2>1. RingTyped /\ DOMAIN slots_ = 0 .. n_slots - 1 /\ n_slots \in Nat
    BY RingSize DEF RingInv
  <2>2. PICK costs : costs = {FoundCost(v) : v \in {w \in Stored : H1(w) = i}}
    OBVIOUS
  <2>3. PICK d \in Nat : d = NotFoundCost(i)
    BY <2>1, RingSize DEF NotFoundCost
  <2>4. /\ \A off \in 0 .. n_slots - 1 :
             Prefers(slots_, n_slots, Index(i, off), i) => off + 1 <= d
        /\ d = 0 \/ \E off \in 0 .. n_slots - 1 :
                      Prefers(slots_, n_slots, Index(i, off), i) /\ d = off + 1
    BY <2>3 DEF RingInv, Exact, ExactIn, At, Index, NotFoundCost
  <2>5. ASSUME NEW c \in costs PROVE c \in Nat /\ c > 0 /\ c <= d
    <3>1. PICK v \in Stored : H1(v) = i /\ c = FoundCost(v)
      BY <2>2
    <3>2. PICK off \in 0 .. n_slots - 1 : /\ Prefers(slots_, n_slots, Index(i, off), i)
                                          /\ slots_[Index(i, off)].value = v
      BY <3>1, StoredAt
    <3>3. c = off + 1
      BY <3>1, <3>2, FoundAt
    <3> QED BY <2>1, <2>4, <3>2, <3>3
  <2>6. d = 0 \/ d \in costs
    <3>1. ASSUME NEW off \in 0 .. n_slots - 1,
                 Prefers(slots_, n_slots, Index(i, off), i), d = off + 1
          PROVE  d \in costs
      BY <2>2, <3>1, FoundAt
    <3> QED BY <2>4, <3>1
  <2>7. CASE costs = {}
    <3>1. d = 0
      BY <2>6, <2>7
    <3> QED BY <2>2, <2>3, <2>7, <3>1
  <2>8. CASE costs # {}
    <3>1. d \in costs
      BY <2>5, <2>6, <2>8
    <3>2. Max(costs) = d
      BY <2>5, <3>1, MaxNat
    <3> QED BY <2>2, <2>3, <2>8, <3>2
  <2> QED BY <2>7, <2>8
<1> QED BY <1>1, RingInvariant, PTL

-----------------------------------------------------------------------------
(* Counting *)

\* Among the first S natural numbers, those divisible by p
LEMMA MultiplesCount ==
  ASSUME NEW S \in Nat, NEW p \in Nat \ {0}
  PROVE  LET M == {i \in 0 .. S - 1 : i % p = 0}
         IN  IsFiniteSet(M) /\ Cardinality(M) = Up(S, p)
<1>1. PICK u \in Nat : u = Up(S, p)
  BY DivNat
<1>2. S <= u * p /\ u * p < S + p
  BY <1>1, DivNat
<1>3. PICK M : M = {i \in 0 .. S - 1 : i % p = 0}
  OBVIOUS
<1>4. PICK f : f = [k \in 0 .. u - 1 |-> k * p]
  OBVIOUS
<1>5. ASSUME NEW k \in 0 .. u - 1 PROVE f[k] \in M
  <2>1. k \in Nat /\ u = k + 1 + (u - k - 1) /\ u - k - 1 \in Nat
    OBVIOUS
  <2>2. PICK x \in Nat : x = k * p
    BY <2>1
  <2>3. PICK y \in Nat : y = (u - k - 1) * p
    <3>1. PICK r \in Nat : r = u - k - 1
      BY <2>1
    <3>2. r * p \in Nat
      OBVIOUS
    <3> QED BY <3>1, <3>2
  <2>4. u * p = x + p + y
    BY <2>2, <2>3
  <2>5. x \in 0 .. S - 1
    BY <1>2, <2>4
  <2>6. x % p = 0
    <3>1. PICK q \in Int : q = x \div p
      BY <2>2
    <3>2. PICK r \in 0 .. p - 1 : r = x % p
      BY <2>2
    <3>3. k * p = p * q + r
      BY <2>2, <3>1, <3>2
    <3>4. r = (k - q) * p
      BY <2>1, <3>3
    <3>5. k - q = 0
      <4>1. PICK z \in Int : z = k - q
        BY <2>1
      <4>2. z * p < p /\ z * p >= 0
        BY <3>4, <4>1
      <4>3. z < 1 /\ z > -1
        BY <4>2
      <4> QED BY <4>1, <4>3
    <3>6. r = 0
      BY <3>4, <3>5
    <3> QED BY <3>2, <3>6
  <2> QED BY <1>3, <1>4, <2>2, <2>5, <2>6
<1>6. ASSUME NEW k \in 0 .. u - 1, NEW m \in 0 .. u - 1, f[k] = f[m]
      PROVE  k = m
  <2>1. k * p = m * p
    BY <1>4, <1>6
  <2>2. (k - m) * p = 0
    BY <2>1
  <2> QED BY <2>2
<1>7. ASSUME NEW i \in M PROVE \E k \in 0 .. u - 1 : f[k] = i
  <2>1. i \in Nat /\ i < S /\ i % p = 0
    BY <1>3
  <2>2. PICK q \in Int : q = i \div p
    BY <2>1
  <2>3. i = q * p
    BY <2>1, <2>2
  <2>4. q >= 0
    <3>1. q * p > -p
      BY <2>1, <2>3
    <3> QED BY <3>1
  <2>5. q < u
    <3>1. q * p < u * p
      BY <1>2, <2>1, <2>3
    <3> QED BY <3>1
  <2>6. q \in 0 .. u - 1
    BY <2>4, <2>5
  <2>7. f[q] = q * p
    BY <1>4, <2>6
  <2> QED BY <2>3, <2>6, <2>7
<1>8. ExistsBijection(0 .. u - 1, M)
  <2>1. f \in [0 .. u - 1 -> M]
    BY <1>4, <1>5
  <2>2. f \in Bijection(0 .. u - 1, M)
    BY <1>6, <1>7, <2>1, Zenon DEF Bijection, Injection, Surjection, IsInjective
  <2> QED BY <2>2 DEF ExistsBijection
<1>9. IsFiniteSet(0 .. u - 1) /\ Cardinality(0 .. u - 1) = u
  BY FS_Interval
<1>10. IsFiniteSet(M) /\ Cardinality(M) = Cardinality(0 .. u - 1)
  BY <1>8, <1>9, FS_Bijection
<1> QED BY <1>1, <1>3, <1>9, <1>10

\* The slots that are not graveyards
LEMMA BesideGraveyards ==
  ASSUME NEW S \in Nat, NEW period, period = NoPeriod \/ period \in Nat \ {0}
  PROVE  LET B == {i \in 0 .. S - 1 : ~Graveyard(i, period)}
         IN  IsFiniteSet(B) /\ Cardinality(B) = S - Graves(S, period)
<1>1. IsFiniteSet(0 .. S - 1) /\ Cardinality(0 .. S - 1) = S
  BY FS_Interval
<1>2. CASE period = NoPeriod
  <2>1. {i \in 0 .. S - 1 : ~Graveyard(i, period)} = 0 .. S - 1
    BY <1>2 DEF Graveyard
  <2>2. Graves(S, period) = 0
    BY <1>2 DEF Graves
  <2> QED BY <1>1, <2>1, <2>2
<1>3. CASE period \in Nat \ {0}
  <2>1. period # NoPeriod
    BY <1>3, ExperimentAssumption
  <2>2. PICK M : M = {i \in 0 .. S - 1 : i % period = 0}
    OBVIOUS
  <2>3. IsFiniteSet(M) /\ Cardinality(M) = Up(S, period)
    BY <1>3, <2>2, MultiplesCount
  <2>4. {i \in 0 .. S - 1 : ~Graveyard(i, period)} = (0 .. S - 1) \ M
    BY <2>1, <2>2 DEF Graveyard
  <2>5. (0 .. S - 1) \cap M = M
    BY <2>2
  <2>6. /\ IsFiniteSet((0 .. S - 1) \ M)
        /\ Cardinality((0 .. S - 1) \ M) = S - Cardinality(M)
    BY <1>1, <2>5, FS_Difference
  <2> QED BY <2>1, <2>3, <2>4, <2>6 DEF Graves
<1> QED BY <1>2, <1>3

\* What Fits says of an experiment whose ring has S slots
LEMMA FitsValue ==
  ASSUME NEW e, NEW S, S = SlotCount(e, n_elements)
  PROVE  Fits(e, n_elements) <=> /\ n_elements <= S - Graves(S, e.graveyard_period)
                                 /\ TotalCount(e, n_elements) < S
BY DEF Fits, Graves, Up

\* The sizes that the counting compares are natural numbers.
LEMMA RingNumbers ==
  ASSUME RingInv
  PROVE  /\ n_slots \in Nat /\ DOMAIN slots_ = 0 .. n_slots - 1
         /\ n_elements \in Nat /\ TotalCount(experiment, n_elements) \in Nat
         /\ \/ experiment.graveyard_period = NoPeriod
            \/ experiment.graveyard_period \in Nat \ {0}
         /\ IsFiniteSet(Full) /\ Cardinality(Full) \in Nat /\ Cardinality(Full) <= n_slots
         /\ Cardinality(Full) = n_slots => Full = DOMAIN slots_
<1>1. /\ n_slots \in Nat /\ DOMAIN slots_ = 0 .. n_slots - 1
      /\ experiment \in Experiments /\ n_elements \in Nat
  BY RingSize, ExperimentAssumption DEF RingInv, RingTyped
<1>2. IsFiniteSet(DOMAIN slots_) /\ Cardinality(DOMAIN slots_) = n_slots
  BY <1>1, FS_Interval
<1>3. Full \in SUBSET DOMAIN slots_
  BY DEF Full
<1>4. /\ IsFiniteSet(Full) /\ Cardinality(Full) <= n_slots
      /\ Cardinality(Full) = n_slots => Full = DOMAIN slots_
  BY <1>2, <1>3, FS_Subset
<1> QED BY <1>1, <1>4, ExperimentSizes, FS_CardinalityType

\* While there are fewer values than slots beside the graveyards, an insert that
\* avoids these finds a slot.
LEMMA SlotRemains ==
  ASSUME RingInv, NEW period, period = NoPeriod \/ period \in Nat \ {0},
         \A j \in DOMAIN slots_ : slots_[j].value # Free \/ Graveyard(j, period)
  PROVE  Cardinality(Full) >= n_slots - Graves(n_slots, period)
<1>1. n_slots \in Nat /\ DOMAIN slots_ = 0 .. n_slots - 1 /\ IsFiniteSet(Full)
      /\ Cardinality(Full) \in Nat
  BY RingNumbers
<1>2. PICK B : B = {i \in 0 .. n_slots - 1 : ~Graveyard(i, period)}
  OBVIOUS
<1>3. IsFiniteSet(B) /\ Cardinality(B) = n_slots - Graves(n_slots, period)
  BY <1>1, <1>2, BesideGraveyards
<1>4. B \in SUBSET Full
  BY <1>1, <1>2 DEF Full
<1>5. Cardinality(B) <= Cardinality(Full)
  BY <1>1, <1>4, FS_Subset
<1> QED BY <1>1, <1>3, <1>5, FS_CardinalityType

\* Values beside the graveyards are no more than the slots beside the graveyards.
LEMMA SlotsSufficed ==
  ASSUME RingInv, NEW period, period = NoPeriod \/ period \in Nat \ {0},
         \A i \in Full : ~Graveyard(i, period)
  PROVE  Cardinality(Full) <= n_slots - Graves(n_slots, period)
<1>1. n_slots \in Nat /\ DOMAIN slots_ = 0 .. n_slots - 1
  BY RingNumbers
<1>2. PICK B : B = {i \in 0 .. n_slots - 1 : ~Graveyard(i, period)}
  OBVIOUS
<1>3. IsFiniteSet(B) /\ Cardinality(B) = n_slots - Graves(n_slots, period)
  BY <1>1, <1>2, BesideGraveyards
<1>4. Full \in SUBSET B
  BY <1>1, <1>2 DEF Full
<1> QED BY <1>3, <1>4, FS_Subset

\* An insert of a new number fills a slot, one that is not a graveyard for it, or
\* there is none but graveyards.
LEMMA InsertCounts ==
  ASSUME RingInv, IsFiniteSet(seen_before), Cardinality(Full) = Cardinality(seen_before),
         NEW v \in Values \ seen_before, NEW period, Insert(v, period),
         seen_before' = seen_before \cup {v}, UNCHANGED experiment
  PROVE  /\ IsFiniteSet(seen_before')
         /\ \/ /\ pc' = "aborted"
               /\ \A j \in DOMAIN slots_ : slots_[j].value # Free \/ Graveyard(j, period)
            \/ /\ UNCHANGED pc
               /\ Cardinality(Full') = Cardinality(seen_before')
               /\ \E p \in DOMAIN slots_ : Full' = Full \cup {p} /\ ~Graveyard(p, period)
<1>1. IsFiniteSet(seen_before') /\ Cardinality(seen_before') = Cardinality(seen_before) + 1
  BY FS_AddElement
<1>2. ASSUME NEW h, NEW off, Places(v, period, h, off)
      PROVE  /\ Cardinality(Full') = Cardinality(seen_before')
             /\ \E p \in DOMAIN slots_ : Full' = Full \cup {p} /\ ~Graveyard(p, period)
  <2>1. PICK p \in DOMAIN slots_ :
          /\ slots_[p].value = Free /\ ~Graveyard(p, period)
          /\ \A j \in DOMAIN slots_ : slots_'[j].value = IF j = p THEN v ELSE slots_[j].value
    BY <1>2 DEF Places
  <2>2. DOMAIN slots_' = DOMAIN slots_
    BY <1>2, RingNumbers DEF Places
  <2>3. v # Free
    BY ExperimentAssumption
  <2>4. Full' = Full \cup {p} /\ p \notin Full
    BY <2>1, <2>2, <2>3 DEF Full
  <2>5. Cardinality(Full') = Cardinality(Full) + 1
    BY <2>4, RingNumbers, FS_AddElement
  <2> QED BY <1>1, <2>1, <2>4, <2>5
<1> QED BY <1>1, <1>2, InsertEffect

\* Every number drawn has a slot until an experiment gives up, and it gives up for
\* want of slots.
THEOREM EveryNumberCounted == Spec => []Counted
<1>1. Init => Counted
  <2> SUFFICES ASSUME Init PROVE Counted
    OBVIOUS
  <2>1. Full = {}
    BY DEF Init, Full
  <2>2. seen_before = {} /\ pc = "first"
    BY DEF Init
  <2> QED BY <2>1, <2>2, FS_EmptySet DEF Counted
<1>2. RingInv /\ Counted /\ [Next]_vars => Counted'
  <2> SUFFICES ASSUME RingInv, Counted, [Next]_vars PROVE Counted'
    OBVIOUS
  <2>1. PICK period : period = experiment.graveyard_period
    OBVIOUS
  <2>2. /\ n_slots \in Nat /\ DOMAIN slots_ = 0 .. n_slots - 1
        /\ n_elements \in Nat /\ TotalCount(experiment, n_elements) \in Nat
        /\ period = NoPeriod \/ period \in Nat \ {0}
        /\ IsFiniteSet(Full) /\ Cardinality(Full) \in Nat
    BY <2>1, RingNumbers
  <2>3. Fits(experiment, n_elements) <=> /\ n_elements <= n_slots - Graves(n_slots, period)
                                         /\ TotalCount(experiment, n_elements) < n_slots
    BY <2>1, FitsValue DEF n_slots
  <2>4. Graves(n_slots, period) \in Nat
    BY <2>2, DivNat DEF Graves
  <2>5. CASE InsertFirst
    <3>1. PICK v \in Values : GetNumber(v) /\ Insert(v, period)
      BY <2>1, <2>5 DEF InsertFirst
    <3>2. /\ pc = "first" /\ Cardinality(seen_before) < n_elements /\ UNCHANGED experiment
          /\ v \in Values \ seen_before /\ seen_before' = seen_before \cup {v}
          /\ IsFiniteSet(seen_before) /\ Cardinality(Full) = Cardinality(seen_before)
          /\ \A i \in Full : ~Graveyard(i, period)
      BY <2>1, <2>5, <3>1 DEF InsertFirst, GetNumber, Counted
    <3>3. IsFiniteSet(seen_before')
      BY <3>1, <3>2, InsertCounts
    <3>4. CASE /\ pc' = "aborted"
               /\ \A j \in DOMAIN slots_ : slots_[j].value # Free \/ Graveyard(j, period)
      <4>1. Cardinality(Full) >= n_slots - Graves(n_slots, period)
        BY <2>2, <3>4, SlotRemains
      <4>2. ~Fits(experiment, n_elements)
        BY <2>2, <2>3, <2>4, <3>2, <4>1
      <4>3. ~Fits(experiment', n_elements)
        BY <3>2, <4>2
      <4> QED BY <3>3, <3>4, <4>3 DEF Counted
    <3>5. CASE /\ UNCHANGED pc
               /\ Cardinality(Full') = Cardinality(seen_before')
               /\ \E p \in DOMAIN slots_ : Full' = Full \cup {p} /\ ~Graveyard(p, period)
      <4>1. \A i \in Full' : ~Graveyard(i, period)
        BY <3>2, <3>5
      <4>2. experiment'.graveyard_period = period
        BY <2>1, <3>2
      <4> QED BY <3>2, <3>3, <3>5, <4>1, <4>2 DEF Counted
    <3> QED BY <3>1, <3>2, <3>4, <3>5, InsertCounts
  <2>6. CASE InsertSecond
    <3>1. PICK v \in Values : GetNumber(v) /\ Insert(v, NoPeriod)
      BY <2>6 DEF InsertSecond
    <3>2. /\ pc = "second" /\ UNCHANGED experiment
          /\ Cardinality(seen_before) < TotalCount(experiment, n_elements)
          /\ v \in Values \ seen_before /\ seen_before' = seen_before \cup {v}
          /\ IsFiniteSet(seen_before) /\ Cardinality(Full) = Cardinality(seen_before)
          /\ n_elements <= n_slots - Graves(n_slots, period)
      BY <2>1, <2>6, <3>1 DEF InsertSecond, GetNumber, Counted
    <3>3. IsFiniteSet(seen_before')
      BY <3>1, <3>2, InsertCounts
    <3>4. CASE /\ pc' = "aborted"
               /\ \A j \in DOMAIN slots_ : slots_[j].value # Free \/ Graveyard(j, NoPeriod)
      <4>1. Cardinality(Full) >= n_slots - Graves(n_slots, NoPeriod)
        BY <3>4, SlotRemains
      <4>2. Graves(n_slots, NoPeriod) = 0
        BY DEF Graves
      <4>3. ~Fits(experiment, n_elements)
        BY <2>2, <2>3, <3>2, <4>1, <4>2
      <4>4. ~Fits(experiment', n_elements)
        BY <3>2, <4>3
      <4> QED BY <3>3, <3>4, <4>4 DEF Counted
    <3>5. CASE UNCHANGED pc /\ Cardinality(Full') = Cardinality(seen_before')
      <4>1. n_slots' = n_slots /\ experiment'.graveyard_period = period
        BY <2>1, <3>2 DEF n_slots
      <4>2. n_elements <= n_slots' - Graves(n_slots', experiment'.graveyard_period)
        BY <3>2, <4>1
      <4> QED BY <3>2, <3>3, <3>5, <4>2 DEF Counted
    <3> QED BY <3>1, <3>2, <3>4, <3>5, InsertCounts
  <2>7. CASE StartSecond
    <3>1. /\ pc = "first" /\ pc' = "second"
          /\ UNCHANGED <<experiment, slots_, seen_before>>
          /\ Cardinality(Full) = n_elements /\ IsFiniteSet(seen_before)
          /\ Cardinality(Full) = Cardinality(seen_before)
          /\ \A i \in Full : ~Graveyard(i, period)
      BY <2>1, <2>7 DEF StartSecond, Counted
    <3>2. n_elements <= n_slots - Graves(n_slots, period)
      BY <2>2, <3>1, SlotsSufficed
    <3>3. Full' = Full /\ n_slots' = n_slots /\ experiment'.graveyard_period = period
      BY <2>1, <3>1 DEF Full, n_slots
    <3>4. n_elements <= n_slots' - Graves(n_slots', experiment'.graveyard_period)
      BY <3>2, <3>3
    <3>5. Cardinality(Full') = Cardinality(seen_before') /\ IsFiniteSet(seen_before')
      BY <3>1, <3>3
    <3> QED BY <3>1, <3>4, <3>5 DEF Counted
  <2>8. CASE GetAverageProbeLengths
    <3>1. /\ pc = "second" /\ UNCHANGED <<experiment, slots_, seen_before>>
          /\ Cardinality(Full) = TotalCount(experiment, n_elements) /\ IsFiniteSet(seen_before)
          /\ Cardinality(Full) = Cardinality(seen_before)
          /\ n_elements <= n_slots - Graves(n_slots, period)
      BY <2>1, <2>8 DEF GetAverageProbeLengths, Counted
    <3>2. Cardinality(Full') = Cardinality(seen_before') /\ IsFiniteSet(seen_before')
      <4>1. Full' = Full
        BY <3>1 DEF Full
      <4> QED BY <3>1, <4>1
    <3>3. Fits(experiment', n_elements) <=> Fits(experiment, n_elements)
      BY <3>1
    <3>4. CASE Empties(0) = {}
      <4>1. pc' = "aborted"
        BY <2>8, <3>4 DEF GetAverageProbeLengths
      <4>2. Cardinality(Full) >= n_slots
        <5>1. CASE n_slots = 0
          BY <2>2, <5>1
        <5>2. CASE n_slots > 0
          <6>1. RingTyped /\ 0 \in 0 .. n_slots - 1
            BY <2>2, <5>2 DEF RingInv
          <6>2. \A j \in DOMAIN slots_ : slots_[j].value # Free
            <7>1. \A off \in 0 .. n_slots - 1 : slots_[Index(0, off)].value # Free
              BY <3>4 DEF Empties
            <7>2. \A j \in 0 .. n_slots - 1 : \E off \in 0 .. n_slots - 1 : Index(0, off) = j
              BY <6>1, ProbeSequence
            <7> QED BY <2>2, <7>1, <7>2
          <6>3. Cardinality(Full) >= n_slots - Graves(n_slots, NoPeriod)
            BY <6>2, SlotRemains
          <6>4. Graves(n_slots, NoPeriod) = 0
            BY DEF Graves
          <6> QED BY <2>2, <6>3, <6>4
        <5> QED BY <2>2, <5>1, <5>2
      <4>3. ~Fits(experiment, n_elements)
        BY <2>2, <2>3, <3>1, <4>2
      <4> QED BY <3>2, <3>3, <4>1, <4>3 DEF Counted
    <3>5. CASE Empties(0) # {}
      <4>1. pc' = "measured"
        BY <2>8, <3>5 DEF GetAverageProbeLengths
      <4>2. PICK off \in 0 .. n_slots - 1 : slots_[Index(0, off)].value = Free
        BY <3>5 DEF Empties
      <4>3. RingTyped /\ 0 \in 0 .. n_slots - 1
        BY <2>2 DEF RingInv
      <4>4. Index(0, off) \in DOMAIN slots_ /\ Index(0, off) \notin Full
        BY <2>2, <4>2, <4>3, ProbeSequence DEF Full
      <4>5. Cardinality(Full) < n_slots
        BY <2>2, <4>4, RingNumbers
      <4>6. Fits(experiment, n_elements)
        BY <2>3, <3>1, <4>5
      <4> QED BY <3>2, <3>3, <4>1, <4>6 DEF Counted
    <3> QED BY <3>4, <3>5
  <2>9. CASE UNCHANGED vars
    BY <2>9 DEF vars, Counted, Full, n_slots
  <2> QED BY <2>5, <2>6, <2>7, <2>8, <2>9 DEF Next
<1> QED BY <1>1, <1>2, RingInvariant, PTL DEF Spec

\* Whether an experiment aborts depends on its sizes and not on the numbers drawn.
THEOREM AbortsByCounting == Spec => []AbortsIfTooFull
<1>1. Counted => AbortsIfTooFull
  BY DEF Counted, AbortsIfTooFull
<1> QED BY <1>1, EveryNumberCounted, PTL

===============================================================================
