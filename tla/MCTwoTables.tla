----------------------------- MODULE MCTwoTables -----------------------------
(***************************************************************************)
(* Small instances of TwoTables: four values, three of which crowd into    *)
(* the first bucket or into the last one.                                  *)
(***************************************************************************)
EXTENDS TwoTablesInvariant, TLC

CONSTANTS k1, k2, k3, k4

MCValues == {k1, k2, k3, k4}
MCKeyOf == [k \in MCValues |-> k]
NoTombstones == <<>>

Crowded == k1 :> 2 @@ k2 :> 2 @@ k3 :> 2 @@ k4 :> 100
CrowdedLast == k1 :> 180 @@ k2 :> 180 @@ k3 :> 180 @@ k4 :> 255
CrowdedSymmetry == Permutations({k1, k2, k3})
Reversed == k1 :> 255 @@ k2 :> 200 @@ k3 :> 100 @@ k4 :> 3

OneOfHashers == {Crowded, CrowdedLast}
TwoHashers == {Crowded, Reversed}
=============================================================================
