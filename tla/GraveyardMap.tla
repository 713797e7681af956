----------------------------- MODULE GraveyardMap -----------------------------
(***************************************************************************)
(* GraveyardMap (graveyard_map.h) and HashMap (internal/hash_map.h) over   *)
(* HashTable: the values are pairs <<key, t>>.  try_emplace() prepares the *)
(* insert and constructs the pair in the slot only if the key is new;      *)
(* operator[] returns a reference into that slot, through which the caller *)
(* assigns.  HashMap has the other calls of HashTable as well; GraveyardMap *)
(* exports all of them but erase().                                        *)
(***************************************************************************)
EXTENDS HashTableProperties

CONSTANTS
  Mapped,   \* mapped_type
  Default,  \* T()
  NoMapped  \* stands for no mapped value

ASSUME MapAssumption ==
  /\ Default \in Mapped /\ NoMapped \notin Mapped
  /\ Values = Keys \X Mapped
  /\ \A value \in Values : KeyOf[value] = value[1]

VARIABLES
  assigning,  \* {<<key, t>>} until the t of m[key] = t is assigned, else {}
  reference   \* {p}, p the slot of the reference that operator[] returned

mapVars == <<assigning, reference>>

Ready == pc = "idle" /\ assigning = {}

\* insert(), emplace() and the overloads of try_emplace()
TryEmplace(key, t) ==
  /\ Ready
  /\ Insert(<<key, t>>)
  /\ UNCHANGED mapVars

\* m[key] = t up to the call of try_emplace(key)
Subscript(key, t) ==
  /\ Ready
  /\ Insert(<<key, Default>>)
  /\ assigning' = {<<key, t>>}
  /\ UNCHANGED reference

\* Mutant: all slots with the same low hash bits.
PlacedCandidates ==
  {p \in Positions(buckets_') :
     ClearOrdered(MetaAt(buckets_', p)) = H2(HashOf(call.value))}

\* Mutant: the first of them, without a comparison of the keys.
PlacedByHash == First(PlacedCandidates)

\* The slot of the iterator that PrepareInsert returns
Placed ==
  {p \in Positions(buckets_') :
     ValueAt(buckets_', p) # NoValue
       /\ KeyOf[ValueAt(buckets_', p)] = KeyOf[call.value]}

\* The insert ends; `return it->second` of operator[] refers to the slot.
EndInsert ==
  /\ PlaceValue
  /\ reference' = IF assigning = {} THEN {} ELSE Placed
  /\ UNCHANGED assigning

\* The caller assigns through the reference.
Assign ==
  /\ pc = "idle"
  /\ \E request \in assigning, p \in reference :
       buckets_' = [buckets_ EXCEPT ![p[1]].slots[p[2]] = <<KeyOf[@], request[2]>>]
  /\ assigning' = {} /\ reference' = {}
  /\ UNCHANGED <<hasher, size_, logical_size_, pc, call, result, scan, target>>

RehashStep ==
  GetDisorderedValues \/ ScanBucket \/ NextBucket \/ DrainHeap \/ FinishRehash

MapInit == Init /\ assigning = {} /\ reference = {}

MapNext ==
  \/ \E key \in Keys, t \in Mapped : TryEmplace(key, t) \/ Subscript(key, t)
  \/ EndInsert
  \/ Assign
  \/ Ready /\ (\E key \in Keys : EraseKey(key)) /\ UNCHANGED mapVars
  \/ Ready /\ Clear /\ UNCHANGED mapVars
  \/ Ready /\ (\E count \in ReserveCounts : Reserve(count)) /\ UNCHANGED mapVars
  \/ RehashStep /\ UNCHANGED mapVars

-----------------------------------------------------------------------------
(* Properties *)

\* The reference of operator[] is to the pair of its key until the next call,
\* though the table may have been rehashed, and the pair constructed, between
\* the call and its return.
ReferenceToKey ==
  pc = "idle" =>
    \A request \in assigning :
      \E p \in reference \cap Occupied(buckets_) : ValueAt(buckets_, p)[1] = request[1]

\* The table of pairs implements a partial function: neither try_emplace() nor
\* a rehash changes the value of a key, and an assignment changes one.
AbstractM == INSTANCE AbstractMap WITH
  map <- [key \in Keys |->
            LET pairs == {v \in Stored(buckets_) \cup Stored(source) : v[1] = key}
            IN  IF pairs = {} THEN NoMapped ELSE (CHOOSE v \in pairs : TRUE)[2]],
  placing <- IF call.op = "insert" THEN {call.value} ELSE {}
ImplementsMap == AbstractM!Spec
=============================================================================
