------------------------------ MODULE MCMapLoops ------------------------------
(***************************************************************************)
(* Three keys and two mapped values: keys that crowd into the first or the *)
(* last logical bucket, with low hash bits in common.                      *)
(***************************************************************************)
EXTENDS MapLoops, TLC

CONSTANTS k1, k2, k3, t0, t1

MCKeys == {k1, k2, k3}
MCMapped == {t0, t1}
MCValues == MCKeys \X MCMapped
MCKeyOf == [v \in MCValues |-> v[1]]
MCHashers == {k1 :> 2 @@ k2 :> 2 @@ k3 :> 66, k1 :> 255 @@ k2 :> 2 @@ k3 :> 191}
NoTombstones == <<>>
=============================================================================
