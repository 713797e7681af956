----------------------------- MODULE AbstractMap -----------------------------
(***************************************************************************)
(* What GraveyardMap promises: a partial function from keys to mapped      *)
(* values.  try_emplace() never changes the value of a key that is there;  *)
(* m[key] = t is two changes, of which the first makes the key present.    *)
(* A loop may erase keys and assign to `it->second`.                       *)
(***************************************************************************)
CONSTANTS Keys, Mapped, Default, NoMapped

VARIABLES
  map,      \* [Keys -> Mapped], NoMapped for keys that are absent
  placing,  \* {<<key, t>>} from the request of an insert to its return
  assigning \* {<<key, t>>} while the assignment m[key] = t is still to come

vars == <<map, placing, assigning>>

Init == map = [key \in Keys |-> NoMapped] /\ placing = {} /\ assigning = {}

TryEmplace(key, t) ==
  /\ placing = {} /\ assigning = {}
  /\ placing' = {<<key, t>>}
  /\ UNCHANGED <<map, assigning>>

Subscript(key, t) ==
  /\ placing = {} /\ assigning = {}
  /\ placing' = {<<key, Default>>}
  /\ assigning' = {<<key, t>>}
  /\ UNCHANGED map

Place ==
  \E request \in placing :
    /\ map' = [map EXCEPT ![request[1]] = IF @ = NoMapped THEN request[2] ELSE @]
    /\ placing' = {}
    /\ UNCHANGED assigning

Assign ==
  /\ placing = {}
  /\ \E request \in assigning : map' = [map EXCEPT ![request[1]] = request[2]]
  /\ assigning' = {}
  /\ UNCHANGED placing

AssignInLoop(key, t) ==
  /\ placing = {} /\ assigning = {} /\ map[key] # NoMapped
  /\ map' = [map EXCEPT ![key] = t]
  /\ UNCHANGED <<placing, assigning>>

Erase(key) ==
  /\ placing = {} /\ assigning = {}
  /\ map' = [map EXCEPT ![key] = NoMapped]
  /\ UNCHANGED <<placing, assigning>>

Clear ==
  /\ placing = {} /\ assigning = {}
  /\ map' = [key \in Keys |-> NoMapped]
  /\ UNCHANGED <<placing, assigning>>

Next ==
  \/ \E key \in Keys, t \in Mapped :
       TryEmplace(key, t) \/ Subscript(key, t) \/ AssignInLoop(key, t)
  \/ \E key \in Keys : Erase(key)
  \/ Place
  \/ Assign
  \/ Clear

Spec == Init /\ [][Next]_vars
=============================================================================
