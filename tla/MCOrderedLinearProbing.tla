------------------------ MODULE MCOrderedLinearProbing ------------------------
(***************************************************************************)
(* Small instances: the identity hash of OLPSetNoHash                      *)
(* (benchmark/table_types.h), a hash that is the same for all, and for     *)
(* OLPSet a hash that mixes the bits.                                      *)
(*                                                                         *)
(* A rehash nests in that of reserve(n) only if the set holds more than    *)
(* 7/8 of n values in slots that are fewer than 8/7 of n, the spare ones   *)
(* included, which takes fifteen values even with one spare slot.  So the  *)
(* callers have many: they insert the Scattered ones in any order, and     *)
(* then the Late ones in increasing order.                                 *)
(***************************************************************************)
EXTENDS OrderedLinearProbing

Scattered == {0, 1, 9, 10, 22, 28, 30, 31}
Late == {2, 4, 5, 7, 12, 13, 15, 17, 18, 20, 24, 25, 27, 29}

MCValues == Scattered \cup Late
CrowdedHash == {[value \in MCValues |-> value], [value \in MCValues |-> HashSpace - 1]}
MixingHash == {[value \in MCValues |-> (value * 7) % HashSpace]}

\* A Late value comes after the Scattered ones and the smaller Late ones.
InTurn(value) ==
  value \in Late => /\ Scattered \ {kMax} \subseteq Contents
                    /\ \A earlier \in Late : earlier < value => earlier \in Contents

TurnsNext ==
  \/ \E value \in Values : InTurn(value) /\ Insert(value)
  \/ \E count \in ReserveCounts : Reserve(count)
  \/ Step

TurnsSpec == Init /\ [][TurnsNext]_vars
===============================================================================
