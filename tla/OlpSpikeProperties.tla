-------------------------- MODULE OlpSpikeProperties --------------------------
(***************************************************************************)
(* What Olp::Validate() asserts, the set it implements, and the lengths of *)
(* lookups and inserts that the experiment prints, which are computed from *)
(* the table and not measured by doing them.                               *)
(***************************************************************************)
EXTENDS OlpSpike

\* "prev < slot": values and tombstones increase along the array, in the middle
\* of an insert as well.
Ordered ==
  \A i, j \in DOMAIN slots_ :
    i < j /\ ~IsEmpty(slots_, i) /\ ~IsEmpty(slots_, j)
      => slots_[i].value < slots_[j].value

\* The table contains what its present slots hold, and nothing that only a
\* tombstone remembers: no empty slot lies in the way of a lookup.
ContainsCorrect ==
  pc = "idle" => \A x \in Values : Contains(x) <=> x \in Contents(slots_)

\* "count == size_"
SizeIsCount == size_ = Cardinality(Present(slots_))

\* What Validate() asserts holds after every call, whatever was displaced over
\* tombstones: order and count hold in the middle of an insert too.
Validate == Ordered /\ ContainsCorrect /\ SizeIsCount

\* The table is a set; displacing values and reusing tombstones is invisible.
Abstract == INSTANCE AbstractSet WITH
  Keys <- Values, KeyOf <- [x \in Values |-> x],
  contents <- Contents(IF pc = "insert" THEN before ELSE slots_),
  inserting <- IF pc = "insert" THEN {value} ELSE {},
  result <- IF result = "none" THEN "void" ELSE result
ImplementsSet == Abstract!Spec

-----------------------------------------------------------------------------
(* Probe lengths *)

\* Where the loops of NotFoundAverageProbeLength(i) and InsertAverageProbeLength(i)
\* return: {} at the end of the array.
Turn(slots, i) ==
  LET turns == {j \in DOMAIN slots : i <= j /\ (IsEmpty(slots, j) \/ H1(slots[j].value) > i)}
  IN  {j \in turns : \A k \in turns : j <= k}

\* The slots at which these loops add to their sum.
Counted(slots, i) ==
  {j \in DOMAIN slots : /\ i <= j /\ ~IsEmpty(slots, j) /\ H1(slots[j].value) = i
                        /\ \A t \in Turn(slots, i) : j < t} \cup Turn(slots, i)

\* The lengths NotFoundAverageProbeLength(i) averages.
NotFoundLengths(i) ==
  IF Counted(slots_, i) = {} THEN {Cardinality(DOMAIN slots_) - i}
  ELSE {j - i + 1 : j \in Counted(slots_, i)}

\* distance_to_non_present(i)
DistanceToNonPresent(slots, i) ==
  LET holes == {j \in DOMAIN slots : i <= j /\ slots[j].tag # "present"}
  IN  IF holes = {} THEN Cardinality(DOMAIN slots) - i
      ELSE (CHOOSE j \in holes : \A k \in holes : j <= k) - i + 1

\* Mutant: the slots before the one that is displaced are forgotten.
InsertLengthsFromDisplaced(slots, i) ==
  {DistanceToNonPresent(slots, j) : j \in Counted(slots, i)}

\* The lengths InsertAverageProbeLength(i) averages.
InsertLengths(slots, i) ==
  IF Counted(slots, i) = {} THEN {Cardinality(DOMAIN slots) - i}
  ELSE {j - i + DistanceToNonPresent(slots, j) : j \in Counted(slots, i)}

\* The averages are of what calls do.  A lookup of an absent value takes one of
\* the lengths averaged for its preferred slot, unless it runs off the array;
\* and an insert that succeeds within the array takes at most one of them, so
\* InsertAverageProbeLength is no estimate from below though it does not know
\* which tombstones the insert may reuse.
AveragesAreOfCalls ==
  /\ [](pc = "idle" =>
         \A x \in 0 .. HashSpace - 1 :
           ~Contains(x) /\ StopSlot(x) # {} => ProbeLength(x) \in NotFoundLengths(H1(x)))
  /\ [][result' = "inserted" /\ pc = "insert" /\ index \in DOMAIN before =>
         \E length \in InsertLengths(before, H1(value)) :
           index - H1(value) + 1 <= length]_vars
=============================================================================
