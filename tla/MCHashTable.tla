----------------------------- MODULE MCHashTable -----------------------------
(***************************************************************************)
(* Small instances of HashTable for TLC: two slots per bucket, 256 hash    *)
(* values (so h2, the low six bits, is shared by hashes of different       *)
(* buckets) and sets, whose values are their keys.                         *)
(***************************************************************************)
EXTENDS HashTableInvariant, ProbeStatistics, TLC

CONSTANTS k1, k2, k3, k4

MCValues == {k1, k2, k3, k4}
MCKeyOf == [k \in MCValues |-> k]
NoTombstones == <<>>
SevenTenths == <<7, 10>>

\* One hasher per pattern of collisions.
AllLast     == k1 :> 255 @@ k2 :> 255 @@ k3 :> 254 @@ k4 :> 253
SameH2      == k1 :> 0 @@ k2 :> 64 @@ k3 :> 128 @@ k4 :> 192
TwoClusters == k1 :> 10 @@ k2 :> 10 @@ k3 :> 11 @@ k4 :> 75

\* Three values are enough where a whole call has to be followed to its end.
SmallValues == {k1, k2, k3}
SmallKeyOf == [k \in SmallValues |-> k]
SmallHashers == {[k \in SmallValues |-> h[k]] : h \in {AllLast, TwoClusters}}

MCHashers == {AllLast, SameH2, TwoClusters}
=============================================================================
