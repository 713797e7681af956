------------------------------ MODULE InsertOnly ------------------------------
(***************************************************************************)
(* paper/experiments/insert-only.cc: linear probing in a ring of slots     *)
(* (IntSet).  An experiment fills the ring to some load while it leaves    *)
(* every graveyard_period-th slot free, then inserts some more values that *)
(* may use those slots, then sums up what lookups would cost.              *)
(*                                                                         *)
(* Numbers are drawn before the inserts in the code and one at a time      *)
(* here; the generator does not look at the table.  abort() is the state   *)
(* "aborted".                                                              *)
(***************************************************************************)
EXTENDS Integers, FiniteSets, FiniteSetsExt

CONSTANTS
  Word,         \* number of uint64_t values: 2^64 in the code
  HashSpace,    \* the same, for the numbers drawn
  Values,       \* the numbers the generator may draw
  n_elements,   \* 1000000 in the code
  Fills,        \* the `fills` of MeasureIncreasingLoad, as <<a, b>> for a / b
  FixedFill,    \* the `fillto` of MeasureReducingGraveyard
  Periods,      \* the periods it tries
  NoPeriod,     \* std::nullopt
  Free          \* the value of an empty slot

ASSUME ExperimentAssumption ==
  /\ {Word, HashSpace, n_elements} \subseteq Nat \ {0}
  /\ Values \subseteq 0 .. HashSpace - 1
  /\ NoPeriod \notin Nat /\ Free \notin Values

\* Loads are below 1, and their ratios far from the end of uint64_t.
ASSUME FillsAssumption ==
  /\ \A f \in Fills \cup {FixedFill} :
       f \in Nat \X Nat /\ 0 < f[1] /\ f[1] < f[2] /\ 4 * f[2] < Word
  /\ Periods \subseteq Nat \ {0}

-----------------------------------------------------------------------------
(* class Ratio *)

Ratio(a, b) == [numerator |-> a % Word, denominator |-> b % Word]

\* r + (-s), where the unary minus is that of uint64_t.
Minus(r, s) ==
  Ratio(r.numerator * s.denominator + ((-s.numerator) % Word) * r.denominator,
        r.denominator * s.denominator)

Times(r, s) == Ratio(r.numerator * s.numerator, r.denominator * s.denominator)
Invert(r) == Ratio(r.denominator, r.numerator)
Floor(r) == r.numerator \div r.denominator

\* The number of i \in Nat with Ratio(i) < r
NumberBelow(r) == (r.numerator + r.denominator - 1) \div r.denominator

-----------------------------------------------------------------------------
(* The experiments *)

Remaining(fillto) == Minus(Ratio(1, 1), fillto)
Additional(fillto) == Times(Remaining(fillto), Ratio(1, 4))

Tombstones(fillto) == Times(Remaining(fillto), Ratio(1, 2))

Experiment(period, fillto) ==
  [graveyard_period |-> period, load_factor |-> fillto, additional |-> Additional(fillto)]

MeasureIncreasingLoad(fills) ==
  UNION {{Experiment(NoPeriod, Ratio(f[1], f[2])),
          Experiment(Floor(Invert(Tombstones(Ratio(f[1], f[2])))), Ratio(f[1], f[2]))} :
         f \in fills}

MeasureReducingGraveyard(fill, periods) ==
  {Experiment(period, Ratio(fill[1], fill[2])) : period \in periods}

\* Sizes in an experiment with n first numbers
SlotCount(e, n) == Floor(Times(Ratio(n, 1), Invert(e.load_factor)))
SecondCount(e, n) == NumberBelow(Times(e.additional, Ratio(n, 1)))

VARIABLES experiment, slots_, size_, seen_before, pc, stats

vars == <<experiment, slots_, size_, seen_before, pc, stats>>

n_slots == SlotCount(experiment, n_elements)

H1(v) == (v * n_slots) \div HashSpace
NoStats == [find_cost |-> 0, notfound_cost |-> 0, find_empty_cost |-> 0]

Init ==
  /\ experiment \in MeasureIncreasingLoad(Fills)
                      \cup MeasureReducingGraveyard(FixedFill, Periods)
  /\ slots_ = [i \in 0 .. n_slots - 1 |-> [value |-> Free, search_distance |-> 0]]
  /\ size_ = 0
  /\ seen_before = {}
  /\ pc = "first"
  /\ stats = NoStats

-----------------------------------------------------------------------------
(* IntSet *)

Index(h1, off) == (h1 + off) % n_slots

\* The probe of insert(v, period) at distance off leaves a graveyard slot alone.
Skipped(v, off, period) == period # NoPeriod /\ Index(H1(v), off) % period = 0

\* Mutant: the loop ends at the end of the array.
ProbesWithoutWrap(v, period) ==
  {off \in 0 .. n_slots - 1 : /\ H1(v) + off < n_slots /\ ~Skipped(v, off, period)
                              /\ slots_[Index(H1(v), off)].value \in {Free, v}}

\* The distances at which insert(v, period) can stop.
Probes(v, period) ==
  {off \in 0 .. n_slots - 1 : /\ ~Skipped(v, off, period)
                              /\ slots_[Index(H1(v), off)].value \in {Free, v}}

Larger(a, b) == IF a < b THEN b ELSE a

\* Mutant: skipped slots do not count as examined.
RaisedByProbes(distance, off) == Larger(distance, IF off = 0 THEN 1 ELSE off)

\* Mutant: one probe more than needed.
RaisedPast(distance, off) == Larger(distance, off + 2)

Raised(distance, off) == Larger(distance, off + 1)

\* insert(v, period): aborts with "Oops" at the end of the loop, or if v is found.
Insert(v, period) ==
  IF Probes(v, period) # {} /\ slots_[Index(H1(v), Min(Probes(v, period)))].value = Free
  THEN LET off == Min(Probes(v, period))
       IN  /\ slots_' = [slots_ EXCEPT ![Index(H1(v), off)].value = v,
                                       ![H1(v)].search_distance = Raised(@, off)]
           /\ size_' = size_ + 1
           /\ UNCHANGED pc
  ELSE pc' = "aborted" /\ UNCHANGED <<slots_, size_>>

FoundCost(v) ==
  Min({off \in 0 .. n_slots - 1 : slots_[Index(H1(v), off)].value = v}) + 1

NotFoundCost(i) == slots_[i].search_distance

Empties(i) == {off \in 0 .. n_slots - 1 : slots_[Index(i, off)].value = Free}
FindEmptyCost(i) == Min(Empties(i)) + 1

Stored == {slots_[i].value : i \in DOMAIN slots_} \ {Free}

-----------------------------------------------------------------------------
(* MeasureOnce *)

\* GetNumber returns v.
GetNumber(v) == v \in Values \ seen_before /\ seen_before' = seen_before \cup {v}

InsertFirst ==
  /\ pc = "first" /\ Cardinality(seen_before) < n_elements
  /\ \E v \in Values : GetNumber(v) /\ Insert(v, experiment.graveyard_period)
  /\ UNCHANGED <<experiment, stats>>

StartSecond ==
  /\ pc = "first" /\ Cardinality(seen_before) = n_elements
  /\ pc' = "second"
  /\ UNCHANGED <<experiment, slots_, size_, seen_before, stats>>

\* Number of values when the experiment measures
TotalCount(e, n) == n + SecondCount(e, n)

InsertSecond ==
  /\ pc = "second" /\ Cardinality(seen_before) < TotalCount(experiment, n_elements)
  /\ \E v \in Values : GetNumber(v) /\ Insert(v, NoPeriod)
  /\ UNCHANGED <<experiment, stats>>

\* GetAverageProbeLengths; the averages are these sums over size_ and n_slots.
GetAverageProbeLengths ==
  /\ pc = "second" /\ Cardinality(seen_before) = TotalCount(experiment, n_elements)
  /\ IF Empties(0) = {}
     THEN pc' = "aborted" /\ UNCHANGED stats
     ELSE /\ pc' = "measured"
          /\ stats' = [find_cost |-> MapThenSumSet(FoundCost, Stored),
                       notfound_cost |-> MapThenSumSet(NotFoundCost, DOMAIN slots_),
                       find_empty_cost |-> MapThenSumSet(FindEmptyCost, DOMAIN slots_)]
  /\ UNCHANGED <<experiment, slots_, size_, seen_before>>

Next == InsertFirst \/ StartSecond \/ InsertSecond \/ GetAverageProbeLengths

Spec == Init /\ [][Next]_vars

-----------------------------------------------------------------------------
(* Properties *)

\* The cost of an unsuccessful lookup is exactly that of the worst successful
\* one from the same slot: a lookup that gives up after search_distance probes
\* misses nothing, however the tombstones were used.
SearchDistancesExact ==
  \A i \in DOMAIN slots_ :
    LET costs == {FoundCost(v) : v \in {w \in Stored : H1(w) = i}}
    IN  NotFoundCost(i) = IF costs = {} THEN 0 ELSE Max(costs)

\* Enough slots for the n first numbers beside the graveyards, and one slot left
\* in the end.
Fits(e, n) ==
  LET graves == IF e.graveyard_period = NoPeriod THEN 0
                ELSE (SlotCount(e, n) + e.graveyard_period - 1) \div e.graveyard_period
  IN  /\ n <= SlotCount(e, n) - graves
      /\ TotalCount(e, n) < SlotCount(e, n)

\* "Oops" and "No empties": counting decides whether an experiment aborts, the
\* numbers drawn do not matter.
AbortsIfTooFull ==
  /\ pc = "aborted" => ~Fits(experiment, n_elements)
  /\ pc = "measured" => Fits(experiment, n_elements)

\* With their million elements the experiments of main() fit, and "Graveyard
\* period cannot go as low as 50" is exact.  No behaviour is needed for this:
\* MCInsertOnly assumes it, and TLC evaluates it.
ExperimentsFit ==
  /\ \A e \in MeasureIncreasingLoad({<<i, 100>> : i \in 90 .. 99} \cup {<<199, 200>>}) :
       Fits(e, 1000000)
  /\ \A period \in 40 .. 260 :
       Fits(Experiment(period, Ratio(98, 100)), 1000000) <=> period > 50

\* Without graveyards the slots a lookup examines are full, so an insert from the
\* same slot examines at least one more: the sums that are printed side by side
\* differ by no less than the number of slots.
EmptiesBeyondSearch ==
  pc = "measured" /\ experiment.graveyard_period = NoPeriod =>
    stats.find_empty_cost >= stats.notfound_cost + n_slots
=============================================================================
