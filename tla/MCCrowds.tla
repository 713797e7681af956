------------------------------- MODULE MCCrowds -------------------------------
(***************************************************************************)
(* Instances of HashTable with enough values of close hashes to use up the *)
(* overflow buckets of larger tables.  Values are numbers: the callers     *)
(* insert the next one, or the newest one again, and erase the newest.     *)
(* No two have the same hash, so that a rehash takes them in one order.    *)
(***************************************************************************)
EXTENDS HashTableInvariant

CONSTANT MaxValue

ASSUME MaxValueAssumption == MaxValue \in 1 .. 13

MCValues == 1 .. MaxValue
MCKeyOf == [v \in MCValues |-> v]
NoTombstones == <<>>

\* The highest thirteen hashes are those of one bucket in all tables here.
Descending == [v \in MCValues |-> 256 - v]
LastTwo == [v \in MCValues |-> IF v % 3 = 0 THEN 210 + v ELSE 242 + v]
Strays == [v \in MCValues |-> IF v % 4 = 0 THEN 7 * v ELSE 256 - v]
MCHashers == {Descending, LastTwo, Strays}

IsNewest(value) == value \in Stored(buckets_) /\ \A v \in Stored(buckets_) : v <= value
IsNext(value) == 1 .. value - 1 = Stored(buckets_)

StackNext ==
  \/ \E value \in Values : (IsNext(value) \/ IsNewest(value)) /\ Insert(value)
  \/ \E key \in Keys : IsNewest(key) /\ EraseKey(key)
  \/ \E count \in RehashCounts : Rehash(count)
  \/ Step

StackSpec == Init /\ [][StackNext]_vars
===============================================================================
