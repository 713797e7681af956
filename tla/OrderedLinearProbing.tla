------------------------- MODULE OrderedLinearProbing -------------------------
(***************************************************************************)
(* OrderedLinearProbingSet (ordered_linear_probing_set.h): values in       *)
(* increasing order, the largest uint64_t as the mark of a free slot and a *)
(* flag for that value itself.                                             *)
(*                                                                         *)
(* rehash() inserts the values of the old array one by one, and such an    *)
(* insert may call rehash() again.  `todo` is the stack of what the active *)
(* calls have still to insert: at the bottom the argument of insert(), or  *)
(* what reserve() moves, above it what each rehash moves, a function from  *)
(* the slots of the old array that are not free and not yet visited.       *)
(* A failed CHECK ends the program: no action is enabled.                  *)
(***************************************************************************)
EXTENDS Integers, FiniteSets, Sequences, Functions

CONSTANTS
  HashSpace,      \* number of uint64_t values: 2^64 in the code
  Values,         \* the values the callers use
  Hashers,        \* hash functors, a subset of [Values -> 0 .. HashSpace - 1]
  ReserveCounts,  \* arguments callers give reserve()
  SpareSlots      \* the 64 of rehash()

kMax == HashSpace - 1

ASSUME ParameterAssumption ==
  /\ HashSpace \in Nat \ {0}
  /\ Values \subseteq 0 .. kMax
  /\ Hashers \subseteq [Values -> 0 .. HashSpace - 1]
  /\ ReserveCounts \subseteq Nat
  /\ SpareSlots \in Nat \ {0}

VARIABLES
  hasher,
  occupied_slot_count_, slot_count_, max_is_present_,
  slots_,   \* a function from 0 .. slots_.size() - 1
  pc, call, result,
  todo      \* a sequence of functions to values, the innermost call last

table == <<occupied_slot_count_, slot_count_, max_is_present_, slots_>>
vars == <<hasher, table, pc, call, result, todo>>

Idle == [op |-> "idle", arg |-> 0]
Size(slots) == Cardinality(DOMAIN slots)
Least(S) == {x \in S : \A y \in S : x <= y}

Return(answer) ==
  /\ pc' = "idle"
  /\ call' = Idle
  /\ result' = answer
  /\ todo' = <<>>

PreferredSlot(value) == (hasher[value] * slot_count_) \div HashSpace

\* The slot where the first loop of insert() and that of contains() stop: {}
\* when they run past the last slot, where a CHECK fails.
Stop(value) ==
  LET stops == {i \in DOMAIN slots_ : PreferredSlot(value) <= i /\ slots_[i] >= value}
  IN  Least(stops)

-----------------------------------------------------------------------------
(* insert() and rehash() *)

NeedsRehash == (occupied_slot_count_ + 1) * 8 > slot_count_ * 7

\* "rehash to be 3/4 full"
RehashedSlotCount == ((occupied_slot_count_ + 1) * 4 + 2) \div 3

\* The slots that are not free, which the loop of rehash() visits in order
Full(slots) == {i \in DOMAIN slots : slots[i] # kMax}

\* Mutant: the count goes on from that of the old array.
RehashKeepsCount(slot_count) ==
  /\ slot_count_' = slot_count
  /\ slots_' = [i \in 0 .. slot_count + SpareSlots - 1 |-> kMax]
  /\ todo' = Append(todo, Restrict(slots_, Full(slots_)))
  /\ UNCHANGED <<occupied_slot_count_, max_is_present_, result>>

\* rehash(slot_count) up to its loop
Rehash(slot_count) ==
  /\ slot_count_' = slot_count
  /\ slots_' = [i \in 0 .. slot_count + SpareSlots - 1 |-> kMax]
  /\ occupied_slot_count_' = 0
  /\ todo' = Append(todo, Restrict(slots_, Full(slots_)))
  /\ UNCHANGED <<max_is_present_, result>>

\* Mutant: the value of slot p is overwritten, not moved up.
ShiftedOverwrites(value, p, q) ==
  [i \in DOMAIN slots_ \cup {q + 1} |->
     IF i = p THEN value ELSE IF i \in DOMAIN slots_ THEN slots_[i] ELSE kMax]

\* The second loop of insert(): value takes slot p, each value from there to the
\* free slot q moves up by one, and a free slot is pushed back behind the last.
Shifted(value, p, q) ==
  [i \in DOMAIN slots_ \cup {q + 1} |->
     IF i = p THEN value
     ELSE IF p < i /\ i <= q THEN slots_[i - 1]
     ELSE IF i \in DOMAIN slots_ THEN slots_[i] ELSE kMax]

Top == todo[Len(todo)]

\* The argument of the next insert() that the innermost call makes, or is: {}
\* when none is left.
Upcoming == {Top[i] : i \in Least(DOMAIN Top)}

\* What is left to do after it
Done == [todo EXCEPT ![Len(todo)] = Restrict(@, DOMAIN @ \ Least(DOMAIN @))]

\* The outermost call is insert(), and this is its own value.
IsOutermost == Len(todo) = 1 /\ call.op = "insert"

Begin(op, arg, values) ==
  /\ call' = [op |-> op, arg |-> arg]
  /\ todo' = <<values>>
  /\ pc' = "working"

Insert(value) ==
  /\ pc = "idle"
  /\ Begin("insert", value, <<value>>)
  /\ UNCHANGED <<hasher, table, result>>

InsertMax ==
  /\ pc = "working" /\ kMax \in Upcoming
  /\ max_is_present_' = TRUE
  /\ Return(IF max_is_present_ THEN "present" ELSE "inserted")
  /\ UNCHANGED <<hasher, occupied_slot_count_, slot_count_, slots_>>

\* The rehash of an insert.  The code does not test the load again after it; the
\* model may, for a table just sized by RehashedSlotCount has room.
InsertRehash ==
  /\ pc = "working" /\ Upcoming \ {kMax} # {}
  /\ NeedsRehash
  /\ Rehash(RehashedSlotCount)
  /\ UNCHANGED <<hasher, pc, call>>

\* insert() returns: to the user, or to the loop of rehash().
Answer(answer) ==
  IF IsOutermost THEN Return(answer)
  ELSE todo' = Done /\ UNCHANGED <<pc, call, result>>

\* The rest of insert(), called by a user or by rehash().
PlaceValue ==
  /\ pc = "working" /\ ~NeedsRehash
  /\ \E value \in Upcoming \ {kMax} : \E p \in Stop(value) :
       \/ /\ slots_[p] = value
          /\ Answer("present")
          /\ UNCHANGED table
       \/ /\ slots_[p] # value
          /\ \E q \in Least({i \in DOMAIN slots_ : p <= i /\ slots_[i] = kMax}) :
               slots_' = Shifted(value, p, q)
          /\ occupied_slot_count_' = occupied_slot_count_ + 1
          /\ Answer("inserted")
          /\ UNCHANGED <<slot_count_, max_is_present_>>
  /\ UNCHANGED hasher

\* A rehash returns: to the insert that called it, or from reserve().
EndRehash ==
  /\ pc = "working" /\ Upcoming = {}
  /\ IF Len(todo) = 1
     THEN Return("void")
     ELSE todo' = SubSeq(todo, 1, Len(todo) - 1) /\ UNCHANGED <<pc, call, result>>
  /\ UNCHANGED <<hasher, table>>

Reserve(count) ==
  /\ pc = "idle"
  /\ IF Size(slots_) * 7 < count * 8
     THEN /\ Rehash(count)
          /\ call' = [op |-> "reserve", arg |-> count]
          /\ pc' = "working"
     ELSE Return("void") /\ UNCHANGED table
  /\ UNCHANGED hasher

-----------------------------------------------------------------------------
Init ==
  /\ hasher \in Hashers
  /\ occupied_slot_count_ = 0 /\ slot_count_ = 0
  /\ max_is_present_ = FALSE
  /\ slots_ = [i \in {} |-> kMax]
  /\ pc = "idle" /\ call = Idle /\ result = "void"
  /\ todo = <<>>

Step == InsertMax \/ InsertRehash \/ PlaceValue \/ EndRehash

Next ==
  \/ \E value \in Values : Insert(value)
  \/ \E count \in ReserveCounts : Reserve(count)
  \/ Step

Spec == Init /\ [][Next]_vars

-----------------------------------------------------------------------------
(* contains() and size(), which change nothing *)

\* Mutant: the flag for kMax is forgotten.
ContainsInSlots(value) == \E p \in Stop(value) : slots_[p] = value

ContainsValue(value) ==
  IF value = kMax THEN max_is_present_ ELSE \E p \in Stop(value) : slots_[p] = value

\* A CHECK of contains(value) fails.
ContainsOverflows(value) == value # kMax /\ Stop(value) = {}

SetSize == occupied_slot_count_ + IF max_is_present_ THEN 1 ELSE 0

-----------------------------------------------------------------------------
(* Properties *)

SlotValues == {slots_[i] : i \in DOMAIN slots_} \ {kMax}

\* Values that calls in progress will insert, but for the argument of insert()
InFlight ==
  UNION {Range(todo[k]) : k \in {j \in DOMAIN todo : j > 1 \/ call.op # "insert"}}

Contents == SlotValues \cup InFlight \cup IF max_is_present_ THEN {kMax} ELSE {}

\* contains() and size() are right about every value once the table has slots,
\* whatever rehashes and nested rehashes moved, and their CHECKs hold.  (Without
\* slots the CHECK of contains() fails.)
AnswersCorrect ==
  pc = "idle" /\ DOMAIN slots_ # {} =>
    /\ \A value \in Values :
         ~ContainsOverflows(value) /\ (ContainsValue(value) <=> value \in Contents)
    /\ SetSize = Cardinality(Contents)

\* rehash() calls insert(), which may call rehash(): the rehash of an insert is
\* large enough not to cause another, so only that of reserve() nests, once.
RecursionBounded == Len(todo) <= 2

\* Whatever nested rehashes have taken out and not put back yet, the set is a
\* set: it loses no value and says of each insert whether it was new.
Abstract == INSTANCE AbstractSet WITH
  Keys <- Values, KeyOf <- [value \in Values |-> value],
  contents <- Contents,
  inserting <- IF call.op = "insert" THEN {call.arg} ELSE {}
ImplementsSet == Abstract!Spec
=============================================================================
