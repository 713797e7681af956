---------------------------- MODULE ProbeStatistics ----------------------------
(***************************************************************************)
(* HashTable::GetProbeStatistics() (internal/hash_table.h), as sums: the   *)
(* averages divide them by size() and by the number of logical buckets.    *)
(* The measuring programs (hover_probe_lengths.cc and others) print them   *)
(* as the cost of the lookups and inserts to come.                         *)
(***************************************************************************)
EXTENDS HashTableProperties

Sets == INSTANCE FiniteSetsExt

PreferredBucket(value) == H1(HashOf(value), logical_size_)

\* The buckets GetSuccessfulProbeLength looks in; it has one to spare.
Offsets(value) == 0 .. buckets_[PreferredBucket(value)].search_distance

\* GetSuccessfulProbeLength: {} where its CHECK fails
SuccessfulProbeLength(value) ==
  {i + 1 : i \in Least({j \in Offsets(value) :
     /\ PreferredBucket(value) + j < Physical
     /\ \E s \in FindNonEmpties(buckets_[PreferredBucket(value) + j]) :
          buckets_[PreferredBucket(value) + j].slots[s] = value})}

\* Mutant: the preferred bucket itself is left out.
InsertProbeLengthFromNext(b) ==
  {i + 1 : i \in Least({j \in 1 .. Physical - 1 - b : FindEmpties(buckets_[b + j]) # {}})}

\* GetInsertProbeLength: {} where its CHECK fails
InsertProbeLength(b) ==
  {i + 1 : i \in Least({j \in 0 .. Physical - 1 - b : FindEmpties(buckets_[b + j]) # {}})}

LogicalBuckets == 0 .. logical_size_ - 1

SuccessSum ==
  Sets!MapThenSumSet(LAMBDA v : Sets!SumSet(SuccessfulProbeLength(v)), Stored(buckets_))

UnsuccessfulSum ==
  Sets!MapThenSumSet(LAMBDA b : buckets_[b].search_distance, LogicalBuckets)

InsertSum ==
  Sets!MapThenSumSet(LAMBDA b : Sets!SumSet(InsertProbeLength(b)), LogicalBuckets)

-----------------------------------------------------------------------------
(* Properties *)

\* The statistics are those of the next calls.  An insert of a key examines as
\* many buckets as GetInsertProbeLength says of its preferred bucket; no value
\* is found farther away than a search for an absent key of its bucket goes.
StatisticsPredict ==
  [][pc = "insert" /\ pc' = "idle" /\ result' = "inserted" =>
       \E new \in {call.value}, p \in Occupied(buckets_)' :
         /\ p \notin Occupied(buckets_) /\ ValueAt(buckets_', p) = new
         /\ InsertProbeLength(PreferredBucket(new)) = {p[1] - PreferredBucket(new) + 1}
         /\ SuccessfulProbeLength(new)' = InsertProbeLength(PreferredBucket(new))
         /\ \A v \in Stored(buckets_)' : \A d \in SuccessfulProbeLength(v)' :
              d <= buckets_'[PreferredBucket(v)].search_distance]_vars

\* Between two rehashes no operation makes a search for an absent key cheaper,
\* so a table that hovers at one size only gets slower; and an insert makes no
\* later insert cheaper, nor the lookup of what was there.
SearchesOnlyLengthen ==
  [][AtRest /\ AtRest' /\ logical_size_' = logical_size_ =>
       /\ UnsuccessfulSum' >= UnsuccessfulSum
       /\ size_' > size_ => /\ InsertSum' >= InsertSum
                            /\ SuccessSum' >= SuccessSum + 1]_vars
=============================================================================
