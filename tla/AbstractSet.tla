----------------------------- MODULE AbstractSet -----------------------------
(***************************************************************************)
(* What HashTable promises its callers: a container of values with unique  *)
(* keys, of which one call at a time changes the contents, once, between   *)
(* its request and its return.  Where values are stored, when the table    *)
(* rehashes and how are not part of the promise.                           *)
(***************************************************************************)
CONSTANTS Values, Keys, KeyOf

VARIABLES
  contents,   \* the values stored
  inserting,  \* {v} from the request of insert(v) to its return, else {}
  result      \* what the last call returned

vars == <<contents, inserting, result>>

With(key) == {v \in contents : KeyOf[v] = key}

Init == contents = {} /\ inserting = {} /\ result = "void"

BeginInsert(value) ==
  /\ inserting = {}
  /\ inserting' = {value}
  /\ UNCHANGED <<contents, result>>

\* insert() leaves a value whose key is already present as it is.
EndInsert(value) ==
  /\ inserting = {value}
  /\ inserting' = {}
  /\ IF With(KeyOf[value]) # {}
     THEN result' = "present" /\ UNCHANGED contents
     ELSE result' = "inserted" /\ contents' = contents \cup {value}

Erase(key) ==
  /\ inserting = {}
  /\ contents' = contents \ With(key)
  /\ result' = IF With(key) = {} THEN "absent" ELSE "erased"
  /\ UNCHANGED inserting

Clear ==
  /\ inserting = {}
  /\ contents' = {}
  /\ result' = "void"
  /\ UNCHANGED inserting

\* reserve() and rehash() change nothing a caller can look up.
Resize ==
  /\ inserting = {}
  /\ result' = "void"
  /\ UNCHANGED <<contents, inserting>>

Next ==
  \/ \E value \in Values : BeginInsert(value) \/ EndInsert(value)
  \/ \E key \in Keys : Erase(key)
  \/ Clear
  \/ Resize

Spec == Init /\ [][Next]_vars
=============================================================================
