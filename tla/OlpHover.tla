------------------------------- MODULE OlpHover -------------------------------
(***************************************************************************)
(* The callers of Olp in paper/experiments/olp-spike.cc: test(), whose     *)
(* calls may come in any order here, and the experiment in main(), which   *)
(* fills an Olp with `size` numbers, then erases one and inserts one as    *)
(* many times again.  Its numbers come from UniqueNumbers, so one that was *)
(* erased never returns: only other numbers meet its tombstone.            *)
(***************************************************************************)
EXTENDS OlpSpikeProperties

CONSTANT size   \* size_t(load_factor * kN), where kN = nominal_capacity_

ASSUME LoadAssumption == size \in 1 .. nominal_capacity_

VARIABLES
  caller,   \* "main" or "test"
  seen_,    \* UniqueNumbers::seen_
  values,   \* what the experiment believes to be in the table
  i,        \* number of inserts so far
  erased    \* a value was erased to make room for the next one

mainVars == <<caller, seen_, values, i, erased>>
allVars == <<vars, mainVars>>

\* Any calls in any order
AnyCall ==
  /\ caller = "test"
  /\ \E x \in Values : Insert(x) \/ Erase(x)
  /\ UNCHANGED mainVars

\* UniqueNumbers::Next() returns x.
NextNumber(x) == x \in Values \ seen_ /\ seen_' = seen_ \cup {x}

\* do_an_insert(i), up to the loop inside insert()
DoAnInsert ==
  /\ caller = "main" /\ pc = "idle"
  /\ i < size \/ (i < 2 * size /\ erased)
  /\ \E x \in Values :
       NextNumber(x) /\ Insert(x) /\ values' = values \cup {x}
  /\ i' = i + 1
  /\ erased' = FALSE
  /\ UNCHANGED caller

\* RemoveRandom(values, gen) returns x.
RemoveRandom(x) == x \in values /\ values' = values \ {x}

\* The value is erased; assert(erased).
EraseOne ==
  /\ caller = "main" /\ pc = "idle"
  /\ size <= i /\ i < 2 * size /\ ~erased
  /\ \E x \in values : RemoveRandom(x) /\ Erase(x) /\ erased' = Contains(x)
  /\ UNCHANGED <<caller, seen_, i>>

HoverInit ==
  /\ Init
  /\ caller \in {"main", "test"}
  /\ seen_ = {} /\ values = {}
  /\ i = 0
  /\ erased = FALSE

HoverStep == Step /\ UNCHANGED mainVars

HoverNext == AnyCall \/ DoAnInsert \/ EraseOne \/ HoverStep

\* One thread: insert() goes on, and main() runs to its end.
HoverSpec ==
  /\ HoverInit /\ [][HoverNext]_allVars
  /\ WF_allVars(HoverStep) /\ WF_allVars(DoAnInsert \/ EraseOne)

-----------------------------------------------------------------------------
\* An insert ends, it never meets an endless row of slots it cannot have; and
\* main() ends with `size` values: its asserts hold, each value that was
\* inserted and not erased is found, though others were displaced over
\* tombstones since.
RunsEnd ==
  /\ pc = "insert" ~> pc = "idle"
  /\ caller = "main" ~> /\ i = 2 * size /\ pc = "idle"
                        /\ Cardinality(values) = size
                        /\ Contents(slots_) = values
=============================================================================
