------------------------------- MODULE OlpSpike -------------------------------
(***************************************************************************)
(* Class Olp of paper/experiments/olp-spike.cc: ordered linear probing in  *)
(* an array that cannot be resized but grows at its end, with erased       *)
(* values left behind as tombstones and reused by later inserts.           *)
(*                                                                         *)
(* insert() carries a value from slot to slot and exchanges it with every  *)
(* larger one it meets; each round of that loop is a step.  erase() and    *)
(* Contains() only read until they stop at a slot, and are one step.       *)
(* OlpHover.tla says who calls.                                            *)
(***************************************************************************)
EXTENDS Integers, FiniteSets

CONSTANTS
  HashSpace,           \* number of uint64_t values: 2^64 in the code
  nominal_capacity_,   \* the capacity given to the constructor
  Values               \* the numbers the callers use

ASSUME CapacityAssumption ==
  /\ HashSpace \in Nat \ {0}
  /\ nominal_capacity_ \in Nat \ {0}
  /\ Values \subseteq 0 .. HashSpace - 1

VARIABLES
  size_,
  slots_,    \* a function from 0 .. slots_.size() - 1
  pc,
  value,     \* the argument of the insert in progress
  v, index,  \* the locals of insert(): the value carried, the slot it is at
  before,    \* slots_ as the insert in progress found it; no code reads it
  result     \* what the last call returned

vars == <<size_, slots_, pc, value, v, index, before, result>>
locals == <<value, v, index, before>>

H1(x) == (x * nominal_capacity_) \div HashSpace

\* An empty slot has no value; the 0 stands for the bytes nobody reads.
EmptySlot == [tag |-> "empty", value |-> 0]
PresentSlot(x) == [tag |-> "present", value |-> x]
Slot == {EmptySlot} \cup [tag : {"present", "tombstone"}, value : 0 .. HashSpace - 1]

IsEmpty(slots, i) == i \in DOMAIN slots => slots[i].tag = "empty"
Present(slots) == {i \in DOMAIN slots : slots[i].tag = "present"}
Tombstones(slots) == {i \in DOMAIN slots : slots[i].tag = "tombstone"}
Contents(slots) == {slots[i].value : i \in Present(slots)}

Return(answer) ==
  /\ pc' = "idle"
  /\ result' = answer
  /\ value' = 0 /\ v' = 0 /\ index' = 0
  /\ before' = <<>>

-----------------------------------------------------------------------------
(* insert() *)

\* insert(x) up to its loop
Insert(x) ==
  /\ pc = "idle"
  /\ IF size_ <= nominal_capacity_
     THEN /\ pc' = "insert"
          /\ value' = x /\ v' = x /\ index' = H1(x)
          /\ before' = slots_
     ELSE pc' = "aborted" /\ UNCHANGED locals
  /\ UNCHANGED <<size_, slots_, result>>

\* slots_ with an empty slot pushed back if the loop has run off its end
WithSlot == [i \in DOMAIN slots_ \cup {index} |->
               IF i \in DOMAIN slots_ THEN slots_[i] ELSE EmptySlot]

\* Mutant: the next slot is not looked at.
TombstoneUsableAlways == TRUE

\* The carried value fits between the tombstone's neighbours.
TombstoneUsable ==
  v > slots_[index].value /\ ~IsEmpty(slots_, index + 1) => slots_[index + 1].value > v

\* The carried value has reached a slot it can have.
FillSlot ==
  /\ pc = "insert"
  /\ \/ IsEmpty(slots_, index)
     \/ index \in Tombstones(slots_) /\ TombstoneUsable
  /\ slots_' = [WithSlot EXCEPT ![index] = PresentSlot(v)]
  /\ size_' = size_ + 1
  /\ Return("inserted")

\* It has reached itself.
FindSame ==
  /\ pc = "insert"
  /\ index \in Present(slots_)
  /\ slots_[index].value = v
  /\ Return("present")
  /\ UNCHANGED <<size_, slots_>>

\* It passes another value, in exchange for it if that one is larger.
PassPresent ==
  /\ pc = "insert"
  /\ index \in Present(slots_)
  /\ slots_[index].value # v
  /\ IF v < slots_[index].value
     THEN slots_' = [slots_ EXCEPT ![index].value = v] /\ v' = slots_[index].value
     ELSE UNCHANGED <<slots_, v>>
  /\ index' = index + 1
  /\ UNCHANGED <<size_, pc, value, before, result>>

\* Mutant: the loop does not advance at a tombstone.
StayAtTombstone ==
  /\ pc = "insert"
  /\ index \in Tombstones(slots_)
  /\ ~TombstoneUsable
  /\ UNCHANGED vars

\* It passes a tombstone that belongs before a value smaller than it.
PassTombstone ==
  /\ pc = "insert"
  /\ index \in Tombstones(slots_)
  /\ ~TombstoneUsable
  /\ index' = index + 1
  /\ UNCHANGED <<size_, slots_, v, pc, value, before, result>>

-----------------------------------------------------------------------------
(* Contains() and erase() *)

\* Mutant: a tombstone ends the search.
StopsAtTombstone(x, i) == slots_[i].tag # "present" \/ slots_[i].value >= x

\* Both loops stop at an empty slot and at the first value that is not smaller.
Stops(x, i) == slots_[i].tag = "empty" \/ slots_[i].value >= x

\* The slot where the loop for x stops, {} if it runs off the end.
StopSlot(x) ==
  LET stops == {i \in DOMAIN slots_ : H1(x) <= i /\ Stops(x, i)}
  IN  {i \in stops : \A j \in stops : i <= j}

\* Contains(x).first
Contains(x) == \E i \in StopSlot(x) : slots_[i] = PresentSlot(x)

\* Contains(x).second: the counter is advanced once more at the end of the array.
ProbeLength(x) ==
  IF StopSlot(x) = {} THEN Cardinality(DOMAIN slots_) - H1(x) + 1
  ELSE (CHOOSE i \in StopSlot(x) : TRUE) - H1(x) + 1

\* Mutant: the slot becomes empty whatever follows it.
MayBeEmptyAlways(i) == TRUE

\* No lookup needs to pass slot i.
MayBeEmpty(i) == IsEmpty(slots_, i + 1) \/ H1(slots_[i + 1].value) = i + 1

Erase(x) ==
  /\ pc = "idle"
  /\ \/ \E i \in StopSlot(x) :
          /\ slots_[i] = PresentSlot(x)
          /\ size_' = size_ - 1
          /\ slots_' = [slots_ EXCEPT ![i] = IF MayBeEmpty(i) THEN EmptySlot
                                             ELSE [@ EXCEPT !.tag = "tombstone"]]
          /\ result' = "erased"
     \/ /\ ~Contains(x)
        /\ result' = "absent"
        /\ UNCHANGED <<size_, slots_>>
  /\ UNCHANGED <<pc, locals>>

-----------------------------------------------------------------------------
Init ==
  /\ size_ = 0
  /\ slots_ = [i \in 0 .. nominal_capacity_ - 1 |-> EmptySlot]
  /\ pc = "idle"
  /\ value = 0 /\ v = 0 /\ index = 0
  /\ before = <<>>
  /\ result = "none"

Step == FillSlot \/ FindSame \/ PassPresent \/ PassTombstone
=============================================================================
