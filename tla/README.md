# A verification development of Graveyard hash tables

This directory holds TLA+ models of the hash tables in this repository, the TLC
configurations that check them on small instances, and TLAPS proofs of what can
be proved for every size. Lines are those of the files under `src/`;
`hash_table.h` means `src/internal/hash_table.h`.

## 1. Inventory

The repository is a single-threaded C++ library. Nothing is persisted, nothing
is sent. What makes it hard is that one call may be long (a rehash moves every
element, through a heap and two arrays, with asserts on the way), that the state
it leaves is used by every later call, and that arithmetic on sizes, hashes and
8-bit distances decides where everything is.

| Component | State | Operations | Hard part | Correct when |
|---|---|---|---|---|
| `MetaByte`, `Bucket`, `Buckets` (`hash_table.h` 119-470) | per bucket 14 meta bytes, a search distance, 14 slots; the array and its logical size | `Init`, `FindElement`, `FindEmpties`, `H1`, `physical_size`, `clear`, `swap` | uninitialised memory; objects constructed and destroyed by hand; overflow buckets | objects exist exactly where meta bytes say; no bucket is read before `Init`; indices stay in range |
| `HashTable` calls (955-1116, 1440-1461) | `size_`, `buckets_`, the hasher | `insert`, `emplace`, `erase`, `find`, `contains`, `clear`, `reserve`, `rehash` | what earlier erases left behind; rounding of load ratios; a rehash before the lookup of an insert | a set with unique keys; lookups as good as a full scan; `reserve(n)` suffices for n; pointers survive |
| `RehashOrCopyFrom` (1276-1417) | the old array, the heap of disordered values, the scan position, the insertion point | merge of ordered slots and heap into a fresh array | order of the merge, hand-over of objects between two arrays, running out of buckets | nothing lost, duplicated or out of hash order; ends |
| Graveyard tombstones (84-101, 1240-1269, 1312-1321) | none | which buckets start at slot 1 | they consume slots the load test counts | bound the next insert's probe |
| Copy, assignment, swap, move (806-834, 1028-1032, 1271-1274) | two tables | `RehashOrCopyFrom<false>` | nothing marks what was seen in the source; empty sources; hashers | the copy finds what the source holds |
| `HashTable::Iterator` (864-949) | bucket pointer, index | `++`, `SkipEmpty`, `erase(it++)`, `erase(first, last)` | no pointer to the table: ends at the sentinel distance | visits each element once, ends |
| Probe statistics (1463-1507) | none | sums over the table | they walk the buckets with loops of their own | they are the costs of the next calls |
| `MapSlot`, `SetSlot` | one union | `Store`, `Transfer`, `Destroy` | layout overlay of pairs | each object destroyed once |
| `GraveyardSet`, `GraveyardMap`, `HashMap` | none of their own | forwarding; `try_emplace`, `operator[]` | value constructed after the slot is claimed; a reference kept across a rehash | a set; a partial function |
| `OrderedLinearProbingSet` | slots in value order, two counters, a flag for the largest value | `insert`, `contains`, `reserve`, `rehash` by re-inserting | hasher must be monotone; recursion between `insert` and `rehash` | a set |
| `paper/experiments/olp-spike.cc` | an array of present values, tombstones and empty slots that grows only at its end | `insert`, which displaces larger values and reuses tombstones, `erase`, averages of probe lengths; a hovering experiment | order in the presence of tombstones; which slots may become empty | a set, ordered; the averages are of what calls do |
| `paper/experiments/insert-only.cc` | a ring of slots with search distances | inserts that leave every n-th slot free, then some that do not, then sums of probe lengths | exact ratios on unsigned integers; too short a period | distances are exact; aborts only if too full |
| Benchmarks, plots, data | - | timing and printing | - | not modelled |

## 2. Modules

| Module | Contents |
|---|---|
| `Buckets` | the constants of `HashTableTraits`, size arithmetic, `H1`/`H2`, meta bytes, buckets as records, the tombstone mask |
| `HashTable` | one table: variables, one action per call or round of a loop, `Spec`, `FairSpec` |
| `HashTableProperties` | type invariant, safety and action properties, the refinement, liveness |
| `AbstractSet` | what a table promises: a container with unique keys |
| `ProbeStatistics` | `GetProbeStatistics` as sums over the table |
| `TwoTables` | a second table: copy, assignment, swap and moves |
| `Iteration` | iterators and the loops that use them |
| `GraveyardMap` | pairs as values: `try_emplace`, `operator[]` and the assignment through it |
| `MapLoops` | composes the two: loops over a map, and calls between them |
| `AbstractMap` | what a map promises: a partial function |
| `OrderedLinearProbing` | `OrderedLinearProbingSet` |
| `OlpSpike`, `OlpSpikeProperties` | class `Olp` of olp-spike.cc; what it must satisfy, and its probe lengths |
| `OlpHover` | the callers of `Olp`: `test()` and the experiment of `main()` |
| `InsertOnly` | insert-only.cc: ratios, experiments, the ring |
| `MC...` | instances for TLC: values, collision patterns, ratios |
| `HashTableInvariant` | the inductive invariants of the proofs, kept apart so that TLC can check them |
| `TwoTablesInvariant` | the same for two tables |
| `HashTableProofs` | the operators: ranges, meta bytes, storing into a bucket; `Shape` is inductive; types, initialisation and lifetimes; what each step does to the set of elements; counting, search distances, unique keys, lookups |
| `HashTableOrderProofs` | search distances end inside the array; a rehash moves the values in order and leaves none behind; every step of `HashTable` is one of `AbstractSet` or none |
| `HashTableRehashProofs` | stable positions; sizing; tombstones; search distances after a rehash; when a rehash gives up; what the probe statistics predict |
| `TwoTablesProofs` | both of two tables stay searchable; a copy leaves nothing of its source behind and finds what it holds; small copies have room |
| `MapLoopsProofs` | iterators go to the next element; the table of a map keeps its invariant; references, loops; every step of `MapLoops` is one of `AbstractMap` or none |
| `OlpSpikeProofs` | order, reach and count of `Olp` are inductive and imply `Validate`; every step of `Olp` is one of `AbstractSet` or none; the lengths its averages are of |
| `InsertOnlyProofs` | the search distances of the ring are exact; counting decides whether an experiment aborts |
| `OrderedLinearProbingProofs` | a call of `rehash` never needs another; the slots stay sorted; every step of `OrderedLinearProbing` is one of `AbstractSet` or none |

Each module extends the one it builds on:
`Buckets` <- `HashTable` <- `HashTableProperties`; from there
`HashTableInvariant` <- `HashTableProofs` <- `HashTableOrderProofs` <-
`HashTableRehashProofs`, and `ProbeStatistics`, `TwoTables`, `Iteration` and
`GraveyardMap` each on its own; `HashTableRehashProofs` extends the first of
these too, `MapLoops` the last two, and `MapLoopsProofs` extends it and
`HashTableOrderProofs`. `TwoTablesInvariant` extends `TwoTables` and
`HashTableInvariant`, and `TwoTablesProofs` extends it and `HashTableRehashProofs`. `OrderedLinearProbing` <- `OrderedLinearProbingProofs`,
`OlpSpike` <-
`OlpSpikeProperties` <- `OlpHover` <- `OlpSpikeProofs`, and `InsertOnly` <-
`InsertOnlyProofs`. `HashTableProperties`, `OrderedLinearProbing` and
`OlpSpikeProperties` instantiate `AbstractSet`, three algorithms with one
promise; `GraveyardMap` instantiates `AbstractMap`. `TwoTables` instantiates
`HashTable` a second time, as `Copy`, with the buckets of the other table in
place of `source`: what `RehashOrCopyFrom<false>` shares with
`RehashOrCopyFrom<true>` is written once.

### How the state corresponds

* `buckets_` is the array `buckets_.data_`: a function from `0 .. physical_size()
  - 1` to buckets. `Uninitialized` is memory that `aligned_alloc` returned and
  `Bucket::Init` has not reached. A slot is a value, or `NoValue` when it holds
  no constructed object; `Transfer`, `Store` and `Destroy` are changes between
  the two. The actions never look at `NoValue` to decide anything: the code has
  only the meta byte, and so has the model.
* `size_`, `logical_size_` and `hasher` are the members of the same names.
* `pc`, `call` and `result` say which call is in progress and what the last one
  returned. A call that does not rehash is one step.
* `source` and `source_logical_size` are the `Buckets` object that
  `rehash_internal` swaps out; `heap`, `disordered_bucket`, `bucket_number`,
  `slot_number`, `insert_bucket`, `insert_slot` are the locals of
  `RehashOrCopyFrom`. An entry of `heap` names the slot it points to, and the
  call of `GetDisorderedValues` that pushed it, so that a double push would be
  two entries. The priority queue is a set of which a least hash is taken;
  among equal hashes the choice is free, as `std::pop_heap` leaves it.
* `pc = "aborted"` is a failed `assert`. The asserts that can matter are
  modelled where they stand: a request for an array of no buckets (366), an
  index past the array (432), the probe limit of an insert (986), and
  `next_bucket` past the last bucket (1315).
* `other` (`TwoTables`) holds the members of the second table. The callers use
  one table at a time; `TurnTo` exchanges the roles. `heap` and the scan
  position are used by copies as by rehashes; a copy has `pc = "copy collect"`
  or `"copy scan"`.
* `it` and `last` (`Iteration`) are iterators, pairs of bucket and index; the
  end iterator is `<<Physical, 0>>`. `visited`, `expected` and `outside` record
  keys for the properties; no code reads them.
* `reference` (`GraveyardMap`) is the slot that `operator[]` returned, `assigning`
  what the caller is about to assign through it.
* `slots_` is the array of each linear-probing set. `todo` (`OrderedLinearProbing`)
  is the stack of recursive calls between `insert` and `rehash`, each given by the
  values it still has to insert: a function from the slots of the array it
  empties that it has not visited, or `<<value>>` for the call of the user. `v` and `index` (`OlpSpike`) are the locals
  of `insert`; `before` is the array it found, which no code reads: until an
  insert returns, its effect is not there for the refinement.
* `experiment` (`InsertOnly`) holds the parameters of one `MeasureOnce`, `stats`
  the sums its averages are made of.

### How the actions correspond

| Action | Code |
|---|---|
| `Insert`, then `PlaceValue` | `PrepareInsert` up to its rehash, then the rest of it and `Store` (962-1026); `insert` and `emplace` differ only in how the value reaches the slot |
| `EraseKey`, `EraseIterator` | `erase(key)` and `erase(const_iterator)` (1034-1068) |
| `Clear`, `Reserve`, `Rehash` | 955-958, 1440-1451, 1419-1438 |
| `StartRehash` | `rehash_internal` up to the loop (1426-1438, 1347-1355) |
| `GetDisorderedValues` | 1276-1303, for the current bucket |
| `ScanBucket` | one round of the slot loop: a heap value that goes first, or the ordered value itself (1396-1411) |
| `NextBucket`, `DrainHeap`, `FinishRehash` | the end of a round, the loop after the scan, `FinishInsertAscending` (1336-1343, 1377, 1413-1416) |
| `CopyConstruct`, `CopyAssign`, `SelfAssign` | the copy constructor and `operator=` up to the loop of the copy (806-834, 1347-1355); what `reserve` builds for an empty table is part of it |
| `CopyCollect`, `CopyScan`, `CopyNextBucket`, `CopyDrain`, `FinishCopy` | as for a rehash, with `GetDisorderedValues<false>`, which leaves the source as it is |
| `SwapTables` | `swap` and both moves (1028-1032) |
| `StartVisit`, `Advance` | `begin()`, `++it` with `SkipEmpty` (835-862, 888-942) |
| `StartEraseRange`, `StartEraseEqual`, `EraseAndAdvance`, `EndLoop` | `erase(first, last)` (1050-1057), on any range and on that of `equal_range` (612-626) |
| `EraseMeanwhile`, `AssignInLoop` | what callers do in the body of a loop: erase an element it is not at, assign to `it->second` |
| `TryEmplace`, `Subscript`, then `EndInsert` | `try_emplace` (hash_map.h 22-76), `operator[]` (graveyard_map.h 91-94) |
| `Insert`, `InsertMax`, `InsertRehash`, `PlaceValue`, `EndRehash`, `Reserve` of `OrderedLinearProbing` | `insert`, `rehash` and `reserve`: one action for each value that some active call inserts |
| `Insert`, `FillSlot`, `FindSame`, `PassPresent`, `PassTombstone`, `Erase` of `OlpSpike` | one action per round of the loop of `insert` (62-98), one for `erase` (99-138) |
| `DoAnInsert`, `EraseOne`, `AnyCall` of `OlpHover` | the loops of `main()` (550-581); any calls, of which those of `test()` are some |
| `InsertFirst`, `StartSecond`, `InsertSecond`, `GetAverageProbeLengths` | `MeasureOnce` (193-219): an insert is one step |

`find` and `contains` do not change state; they are operators (`Find`,
`ContainsValue`, `Contains`), whose answers are checked for every key in every
state between calls. The constructor with an initial capacity is `Init` followed
by `Reserve`.

### Abstractions

Hash values are `0 .. HashSpace - 1` instead of 64 bits, and `H1` is the same
product shifted by the size of that range. `h2` keeps its six bits. SSE masks
are sets of slots. Values are model values; a `GraveyardMap` entry and a
`GraveyardSet` element are both a value with a key (`KeyOf`). The rehash callback is the
default one, which just calls `rehash_internal`. Allocation failure is an
assert, and `MaxLogicalSize` bounds what can be allocated. Exceptions are not
modelled.

## 3. Runs

The instances of `HashTable` have 256 hash values and two slots per bucket (three
in `tombstones`, where one of them is the tombstone) instead of 14, and the load
ratios of `HashTableTraits`: full at 9/10, rehashed to 6/10. With two slots four
values already fill several buckets, displace each other across bucket
boundaries and into overflow buckets, and rehash repeatedly.

| Run | Instance | Shows |
|---|---|---|
| `core` | 4 values, 3 hashers (all in the last bucket; one `h2` in different buckets; two clusters), up to 4 logical buckets, 426 thousand states | all invariants, the action properties and the refinement of `AbstractSet` |
| `tombstones` | 3 values, tombstone ratio 7/10 as in `benchmark/table_types.h`, fairness | tombstones are where the next inserts need them; search distances are exact after a rehash and only grow until the next; the statistics are those of the next calls; every call returns; the inductive invariant of the proofs (section 4) holds |
| `crowds` | 13 values of close hashes, inserted one after the other and erased from the newest on, 3 hashers, up to 12 logical buckets, `rehash` also to too few slots, 902 thousand states | tables of up to 6 logical buckets have room for a legal load; larger ones run out, in rehashes and in inserts; a rehash gives up only when the buckets behind some preferred bucket are full |
| `two_tables` | 4 values, 3 of which crowd into the first or into the last bucket, at most 4 elements in both tables, 1 overflow bucket, 383 thousand states | a copy, after any inserts, erases, swaps and copies, finds what its source holds; only a copy of more than 2 logical buckets, or one that has made duplicates, runs out of buckets |
| `map_loops` | 3 keys with colliding low hash bits, 2 mapped values, 2 hashers, 190 thousand states | a map implements a partial function through rehashes and loops; references are to their keys; loops visit what they should and end |
| `olp` | 22 of 32 values, of which 8 come in any order and 14 after them in increasing order, the identity and a constant hasher, 1 spare slot, 250 thousand states | `OrderedLinearProbingSet` is a set; rehashes nest in that of `reserve`, at most once; no `CHECK` fails |
| `olp_spike` | 7 of 8 values, 3 slots, any calls or the experiment with `size` 3, fairness, 186 thousand states | `Olp` is a set; what it prints is what calls do; inserts and the experiment end |
| `insert_only` | 4 elements, 4 loads, 3 periods, 132 thousand states | search distances are exact; an experiment aborts exactly when counting says so |
| `rehash_count`, `rehash_zero` | 3 values | disagreements, see below |
| `copy_duplicates` | as `two_tables` | a disagreement, see below |
| `olp_mixing_hash` | as `olp`, a hasher that mixes the bits | a disagreement, see below |

Bounds. `ReserveCounts` and `RehashCounts` are the arguments callers use.
In the passing runs, except `crowds`, callers give `rehash` only counts that
leave the table at a legal load (`Adequate`): below that an assert may fail,
which is what `crowds` and `rehash_zero` are about. `MaxElements` and
`MaxElsewhere` of `TwoTables` bound how far callers fill the tables: up to four
elements in all, and new ones only while the other table is empty. That is
enough for a source with ordered and disordered elements in several buckets, a
target that holds elements of its own, and a swap of any two such tables, since
copies and erases are not bounded. Its overflow bucket is one, so that copies do run out of
buckets: those of three logical buckets, the largest here, because their elements
crowd into the last one, smaller ones because of duplicates.

In `crowds` only the newest element is erased, and the next one inserted, so that
the table holds the first few values of a fixed order. That leaves few states for
thirteen values, and enough for its question, which is about how much there is and
where it goes: growing, shrinking (`rehash` is called on any of
them) and erases that leave holes all happen. At a legal load a rehash first runs
out of buckets in a table of seven logical buckets, an insert in one of nine. No two values have
the same hash, so that the rehash has no choices.

The spare slots behind an `OrderedLinearProbing` array are one instead of 64, and
`Olp` has three slots, so that arrays are run off and grow. With one spare slot, 22
values and the arguments of `reserve` in the configuration, inserts of the rehash
of a `reserve` do rehash, also while others of its values wait. The values that come late
come in order, for otherwise each subset of them would be a state; the eight
that do not are spread over the range of hashes and include the largest value,
which has no slot.

Nothing else is bounded: the state space is finite because the values are.
`kMaxExtraBuckets` is the 5 of the code where the number of overflow buckets is
not itself the question; in `crowds` it is 5, and tables of one or two, three to
five, and more logical buckets, the cases of `physical_size`, all occur.

Deadlock is checked in `core`, `tombstones`, `map_loops`, `olp`, `olp_mixing_hash`
and `rehash_count`; in `olp` a failed `CHECK` would be one. In `crowds`,
`rehash_zero`, `two_tables` and `copy_duplicates` the program can stop at a
failed assert, in `olp_spike` likewise or when `main()` returns, and in
`insert_only` an experiment ends.

Fairness. `FairSpec` asks that a call that has begun keeps taking steps
(weak fairness of `Step`): the program is one thread and no step waits for
anything. Whether another call comes is up to the caller, so calls have no
fairness. Without the heap being drained or the bucket number advancing,
`CallsReturn` would fail, which is its content. `MapLoopsSpec` is fair to the
next round of a loop that runs (its callers may erase and assign in its body,
but not forever), `HoverSpec` to the rounds of `insert` and to `main()`, which
runs by itself.

### Properties

| Property | In words |
|---|---|
| `InitializedPrefix` | during a rehash exactly the buckets up to `insert_bucket` are initialised (comment at 758-767) |
| `SlotLifetimes` | objects are where meta bytes or the heap say, so destruction is exact |
| `WithinSearchDistance`, `OrderedSorted`, `SearchDistancesInRange`, `SizeIsCount` | what `Validate()` (1156-1212) checks, here in every state, most of them also inside a rehash |
| `OneSlotPerKey` | no key twice, nor a value in both arrays |
| `RehashAscending` | nothing still to be moved hashes below what has been moved |
| `FindCorrect` | `find` agrees with a full scan |
| `SmallTablesFit` | a table of at most `kMaxExtraBuckets + 1` logical buckets does not run out of buckets at a legal load |
| `NeverAborts` | asserts hold (of `rehash_zero` only, where one does not) |
| `StablePositions` | outside a rehash nothing moves, and one erase takes one value |
| `ReserveSuffices`, `GrowthAmortized` | sizing: no rehash up to a reserved count; a growing insert leaves the rehashed load |
| `RehashTightens`, `TombstonesBoundProbes` | what a rehash restores |
| `AbortOnlyWhenFull` | a rehash stops only when it must |
| `ImplementsSet` | with `contents` the values of both arrays and `inserting` the value of an insert in progress, each step is a step of `AbstractSet` or leaves it unchanged; a rehash is invisible |
| `CallsReturn` | calls that began end |
| `Invariant` | the inductive invariants of the proofs about `HashTable`, all of them together |
| `StatisticsPredict`, `SearchesOnlyLengthen` | an insert takes the probes `GetInsertProbeLength` said; between rehashes lookups of absent keys only get longer |
| `CopyFindsAll`, `SmallCopiesFit`, `BothWithinSearchDistance` | a copy finds what its source holds; one of at most `kMaxExtraBuckets + 1` logical buckets runs out of them only if it has stored as many elements as its source has, that is, only by duplicating some; both tables can be searched |
| `VisitsAll`, `RangeErased`, `LoopEnds` | a loop that erases as it goes meets every key of its range that was not erased before, and nothing else; a range erase removes its range only; loops end |
| `ReferenceToKey`, `ImplementsMap` | the reference of `operator[]` is to the pair of its key; `try_emplace` does not change a present value, an assignment changes one |
| `AnswersCorrect`, `RecursionBounded` | `contains` and `size` of `OrderedLinearProbingSet`; a rehash for an insert does not rehash again, only that of a `reserve` may |
| `Validate`, `AveragesAreOfCalls`, `RunsEnd` | what `Olp::Validate` asserts; the lengths averaged are those lookups take, and bound those of inserts; inserts end and the experiment finds every value it erases |
| `SearchDistancesExact`, `AbortsIfTooFull`, `EmptiesBeyondSearch` | the worst successful lookup costs what an unsuccessful one does; "Oops" depends on counts alone; an insert costs more than an unsuccessful lookup |
| `ExperimentsFit` | an assumption of `MCInsertOnly`, which TLC evaluates: the parameters of `main()` fit with their million elements, and periods up to 50 do not, as a comment says |

Every property has a plausible defect of the code that breaks it, kept in the
module next to the definition it would replace and marked `Mutant`.

### Disagreements

* `rehash(count)` counts slots. Its comment (`hash_table.h` 660-662) promises room
  for `count` *elements* below the maximum load; `rehash_internal` allocates
  `ceil(count / kSlotsPerBucket)` buckets. `reserve` and `insert` convert before
  they call it. Run `rehash_count`.
* `rehash(0)` on an empty table asserts. It is meant to shrink to `size()`, which
  here is an array without buckets (366). Run `rehash_zero`.
* A copy may hold an element twice. `GetDisorderedValues<false>` goes on at
  `disordered_bucket` itself and marks nothing as seen (1285-1298), so disordered
  elements of that bucket are pushed again. Keys are still found, but `size()`
  and iteration are wrong. Run `copy_duplicates`.
* `OrderedLinearProbingSet` takes any hasher, and by default one that mixes bits,
  but its early stop (85, 154) is right only for monotone ones. Run
  `olp_mixing_hash`.

These were met while modelling and have no run of their own:

* Copying an empty table, or assigning a table to itself, writes bucket 0 of an
  array of no buckets (1354). `TwoTables` models the abort.
* `swap` and the moves exchange buckets but not hashers (1029), and an assignment
  keeps the hasher of its target (828). With `OneHasher = FALSE` and `Hashers <-
  TwoHashers` in `MCTwoTables.cfg`, `BothWithinSearchDistance` fails.
* The assert of `PrepareInsert` allows search distance 255 (986), the mark of the
  last bucket, in a logical one. With `kSearchDistanceEndSentinal = 3` in
  `MCCrowds.cfg`, `SearchDistancesInRange` fails.
* The end iterator has index 0 (932), not `kSlotsPerBucket` (comment at 945).
* `contains` on an `OrderedLinearProbingSet` without slots fails its `CHECK`
  (153); its `reserve(n)` (47) compares with physical slots, and inserts up to n
  may rehash, unlike the comment at 33.
* `Olp::Contains` reports one slot too many when it runs off the array (402), and
  insert-only.cc fills a quarter of (1 - load) times the *elements* (203), less
  than the "1/4 of the empty space" of its comment (239).

## 4. Proofs

### The hash table

For all values, keys, hashers, hash spaces, bucket and slot counts and load
ratios that satisfy the assumptions of `Buckets` and `HashTable`:

| Theorem | Statement |
|---|---|
| `TypeCorrect` | `Spec => []TypeOK` |
| `BucketsInitialized` | `Spec => []InitializedPrefix` |
| `LifetimesCorrect` | `Spec => []SlotLifetimes` |
| `SizeCorrect` | `Spec => []SizeIsCount` |
| `SearchDistancesCorrect` | `Spec /\ []DistancesInByte => []WithinSearchDistance` |
| `KeysUnique` | `Spec /\ []DistancesInByte => []OneSlotPerKey` |
| `LookupsCorrect` | `Spec /\ []DistancesInByte => []FindCorrect` |
| `SmallTablesCorrect` | the last three without the hypothesis, for tables of at most 255 buckets |

Assumptions on the constants: at least two slots per bucket (with one, a
tombstone would fill its bucket), at least one overflow bucket, non-zero ratios,
hashers that map keys into the hash space. `MaxLogicalSize` is any positive
number. Only `SmallTablesHaveRoom` and `SmallCopiesHaveRoom` assume the load ratio to be below
one, and nothing is assumed about the
arguments of `reserve` and `rehash`; asserts may fail, and a state with a failed
assert is covered too.

`DistancesInByte` says that a rehash never displaces a value by 255 buckets or
more. It is a hypothesis because the code needs it: `InsertAscending` converts
the displacement to `uint8_t` without checking (1326), and a truncated distance
makes lookups miss the value. `PrepareInsert` does check (986), so nothing is
assumed about inserts.

The argument goes in layers, each an inductive invariant that contains the one
before.

1. `Shape`: types; the call in progress has what it needs (`CallInv`); the new
   array is initialised exactly up to `insert_bucket` and its meta bytes agree
   with its slots (`NewInv`); in the old array they agree up to the heap
   (`SourceInv`), which points at slots marked empty, at none twice (`HeapInv`);
   the scan stays inside the old array (`ScanInv`). Types alone are not inductive:
   a step indexes buckets that must be initialised, and takes values from slots
   that must hold one.
2. `Counted` adds that the slots after the insertion point are empty (`FreeInv`),
   without which an ascending insert could overwrite an element and miscount, and
   that the occupied slots are finite and `size_` many.
3. `Searchable` adds that every element is within reach under its `h2`
   (`Located`) and that keys are unique. Neither half is inductive alone: an
   insert keeps keys unique because its lookup reaches every element, which is
   `Located`; a lookup finds *the* element because keys are unique.
4. `Swept` adds what a rehash knows about the array it empties. A value is not
   behind the scan; if it is disordered, the bucket it prefers has not been asked
   for its disordered values yet (`SourceSwept`). So what the scan has not
   reached hashes no lower than what it has, as H1 is monotone, and the heap
   holds all the exceptions: `RehashAscending`, which makes the new array
   sorted. That the search distances of the old array end inside it
   (`DistancesInArray`, inductive on its own) is what makes the covered buckets
   of the last element covered, so that nothing is left when the scan ends.

The properties that are not invariants of single states rest on further ones,
each inductive given the layers above.

| Theorem | Statement | By |
|---|---|---|
| `DistancesInArrayInvariant` | `Spec => []DistancesInArray` | `InsertAscending` and `PrepareInsert` check the bucket before they store |
| `DistancesCorrect` | `Spec => []SearchDistancesInRange` if no array has 255 buckets | `DistancesInArray` |
| `SweptInvariant`, `OrderCorrect`, `RehashInOrder` | `Spec /\ []DistancesInByte =>` `[]Swept`, `[]OrderedSorted`, `[]RehashAscending` | layer 4 |
| `TableIsSet` | `Spec /\ []DistancesInByte => ImplementsSet` | `Swept`: a rehash that ends has moved everything; `NoCallIdle` |
| `PositionsStable` | `Spec => StablePositions` | the effects of the calls |
| `RoomInvariant`, `GrowthLeavesRoom`, `ReserveCorrect` | `Spec =>` `[]RoomForCall`, `GrowthAmortized`, `ReserveSuffices` | lemmas about `Ceil`: the roundings of `FullSlots`, `RehashedSlots` and of slots to buckets all go up |
| `TombstonesCorrect` | `Spec => TombstonesBoundProbes` | `TombstonesKept` |
| `TightInvariant`, `RehashForgets` | `Spec /\ []DistancesInByte =>` `[]Tight`, `RehashTightens` | each store raises a distance to the element it stores |
| `PackedInvariant`, `RehashAbortsWhenFull` | without tombstones, `Spec /\ []DistancesInByte => AbortOnlyWhenFull` | `Packed`: from some bucket on, all slots passed are full of values that prefer that bucket or later ones |
| `SmallTablesHaveRoom` | without tombstones, `Spec /\ []DistancesInByte => SmallTablesFit` if full tables are not full to the last slot and a distance covers such a table | `Packed`: so many values at a legal load would need more slots than the logical buckets have |
| `StatisticsCorrect` | `Spec /\ []DistancesInByte => StatisticsPredict` | `Searchable`: a value is seen in its own bucket only (`SeenInBucket`), and `PrepareInsert` takes the first bucket with an empty slot |
| `InvariantHolds` | `Spec /\ []DistancesInByte => []Invariant` | all of them, as the run `tombstones` checks them |
| `SmallTablesOrdered`, `SmallTablesAreSets`, `SmallTablesInvariant`, `SmallTablesPredicted` | the same without the hypothesis, for tables of at most 255 buckets | a displacement is smaller than the array |

Whether a rehash runs out of overflow buckets depends on the values.
`RehashAbortsWhenFull` says that it does so only if the values that
prefer some bucket or a later one are as many as the slots from there on, and
`SmallTablesHaveRoom` draws the conclusion: from the last logical bucket on there
are as many slots as in all logical buckets if these are at most
`kMaxExtraBuckets + 1`, and a load below one cannot fill them. The same count
bounds inserts, which give up only when all buckets from the preferred one on are
full. Its
`Packed` is anchored at the last bucket the merge skipped to; before that bucket
slots may be empty, from it on none is. `PositionsStable`, the sizing theorems
and `TombstonesCorrect` need no hypothesis on distances.

`HashTableProofs` separates the steps from these invariants: it reduces each step
to "one element more", "one element less" or "the same elements", with search
distances that do not shrink, so that the later layers argue about sets of
elements and not about nested records.

Model-checked only: `SearchesOnlyLengthen` (sums over the table, folds whose steps
need induction over data), and liveness, which is out of the prover's reach.

### Two tables

For the same constants, and `TwoTablesAssumption`:

| Theorem | Statement |
|---|---|
| `TwoInvariant` | `OneHasher => (TwoSpec /\ []DistancesInByte /\ []CopiesInByte => []TwoInv)` |
| `BothTablesSearchable` | under the same hypotheses, `[]BothWithinSearchDistance` |
| `CopiesFindAll` | under the same hypotheses, `CopyFindsAll` |
| `SmallCopiesHaveRoom` | under the same hypotheses, `SmallCopiesFit`, if full tables are not full to the last slot |
| `TwoSmallTablesCorrect` | `OneHasher => (TwoSpec => []BothWithinSearchDistance /\ CopyFindsAll)`, for tables of at most 255 buckets |

`OneHasher` is needed: `swap` leaves the hashers where they are (section 3).
`CopiesInByte` is to a copy what `DistancesInByte` is to a rehash: the copy runs
the same `InsertAscending`, and its conversion to `uint8_t` is as unchecked.

`TwoInv` says that outside copies the table of the callers satisfies `Counted`,
`Located` and `DistancesInArray` (`Working`), that during a copy it satisfies
`InCopy`, and that the other table is always `Sound`, which says of a table
between two calls, given by its members, what `Working` says of variables. After
a failed assert only the other table is spoken of. TLC finds `TwoInv` and
`CopiesInByte` to hold of `MCTwoTables`, when they are added to the invariants of
`MCTwoTables.cfg`. Unique keys are in none of them, as a copy may hold
an element twice; so what `Searchable` gave had to be proved again without
them: `NextWorking` for the steps of a call, `FindsStored` for lookups. `Sound`
is what the two tables exchange (`WorkingSound`, `SoundWorks`): a swap needs the
locals of a rehash to be at rest, `LocalsReset`, or the next copy would start in
the middle.

`InCopy` says of the table being filled that nothing is behind the insertion
point (`CopyTarget`), and of the source (`CopySwept`) that each of its elements
has been copied, is in the heap, or is still awaited: an ordered one by the scan,
a disordered one by a call of `GetDisorderedValues<false>` for the bucket it
prefers. Unlike `SourceSwept` it cannot say that an element is in *one* of these,
for nothing marks what was seen; hence "finds every key of its source and no
other" and not "is equal to it". That a call collects the awaited elements that
prefer its bucket rests on their lying within its search distance, which is
`Sound`; that it may start at `disordered_bucket` rests on calls pushing what is
disordered in the buckets they cover whichever bucket it prefers. When the scan and the heap are done
nothing is awaited (`CopyComplete`).

Order is not claimed of copies: `RehashAscending` is proved of rehashes only.
`CopyRoom`, on top of `TwoInv`, says that what was reserved holds the elements of
the source at a legal load, and that from some bucket on no slot before the
insertion point was left out (`CopyPackedFrom`). A copy that runs out of buckets
has then filled all slots from that bucket on but one, and in a small table these
are at least as many as the logical buckets have, and the source has fewer elements than those. It is
weaker than `Packed`, which also knows which buckets the values prefer; that needs
the order of the merge, which is not claimed of copies. TLC finds `CopyRoom` to
hold of `MCTwoTables` as well.

`NoCallIdle`, `RoomForCall`, unique keys and the other parts of `Invariant` are
about `Spec`; they are not claimed of `TwoSpec`.

### Maps and loops

For the same constants, with pairs as values (`MapAssumption`):

| Theorem | Statement |
|---|---|
| `MapInvariant` | `MapLoopsSpec /\ []DistancesInByte => []MapInv` |
| `ReferencesCorrect` | `MapLoopsSpec /\ []DistancesInByte => []ReferenceToKey` |
| `LoopsCorrect` | `MapLoopsSpec /\ []DistancesInByte /\ []SearchDistancesInRange => [](VisitsAll /\ RangeErased)` |
| `MapIsPartialFunction` | `MapLoopsSpec /\ []DistancesInByte => ImplementsMap` |
| `SmallMapsCorrect`, `SmallLoopsCorrect` | the same without the hypotheses, for tables of at most 255, and of at most 254, buckets |

`MapLoops` does three things to a table that `Spec` does not: it assigns through
references and iterators, and its loops erase without a call. An assignment keeps
the bytes, the positions and the keys, and everything `Swept` says is about
those; so `MapInv`, which is `Swept`, that no call but those of its body is in
progress while a loop runs (`LoopIdle`), and whose a request of `operator[]` is
(`RequestInv`), is inductive. An erase in the middle of a loop must not stop at an
assert, or the loop would have no table to go on with; that is where
`DistancesInArray` is used (`EraseKeyReturns`).

The lemma under the loops is `SkipEmptyFirst`: from any index of any bucket
`SkipEmpty` goes to the first element from there on, or to the end. It holds
because only the last bucket has the sentinel as its search distance, which is
the hypothesis `SearchDistancesInRange`: in an array of 255 buckets a logical
bucket could have it, and iteration would end there. `LoopInv` relates what the
loop has been at, what is left of its range and what is not in it; each step
moves one element over (`StepOver`), and erases take away elements ahead or
behind.

For the refinement, the pairs in the two arrays have unique keys in the middle of
a rehash too (`ContentsUnique`), so they are a function, and a step that changes
the pairs of one key changes the function at that key (`MapOfChange`). What the
steps do to the pairs was proved for `TableIsSet`.

Model-checked only: `LoopEnds`, which is liveness.

### The array with tombstones

For all capacities of at least one, hash spaces, sets of values and loads that
satisfy the assumptions of `OlpSpike` and `OlpHover`:

| Theorem | Statement |
|---|---|
| `OlpAlwaysValid` | `HoverSpec => []Validate` |
| `OlpImplementsSet` | `HoverSpec => ImplementsSet` |
| `AveragesCorrect` | `HoverSpec => AveragesAreOfCalls` |

Order alone is not inductive. That a value may be put down in an empty slot says
nothing of the slots behind it, unless no slot between a value and the one it
prefers is empty (`Gapless`); then what is behind an empty slot prefers a later
one, and is larger because `H1` is monotone. `Gapless` counts tombstones as
occupied, which is what they are for, and it is why `erase` may empty a slot only
if the next one is empty or holds a value that prefers it. In the loop of
`insert` everything before `index` is smaller than the value carried
(`LoopInv`); that a tombstone may take it if the next slot holds a larger value
is what keeps the rest larger (`RestIsLarger`). `Ordered`, `Gapless` and the
first larger value as the stop of a lookup give `Validate`.

For the refinement, `Displacing` says what the loop has in hand: once `value` has
been put down, the table and `v` together are the old table and `value`, and all
that is left to pass is larger than `v`. So the loop cannot find `v` again, which
would lose it, and an insert that ends in a slot had a new value. The refinement
mapping shows the old contents until the insert returns.

For the averages, the slot at which a lookup stops is one that
`NotFoundAverageProbeLength` counts, because `H1` is monotone
(`StopsAtCounted`). That an insert goes no farther than the longest length
averaged says something of its whole loop: `PassedInv` relates the array to what
the insert found (`before`), and says that the loop passes a tombstone only where
all slots up to it hold values that prefer the slot of the argument or an earlier
one. So it passes none after the slot at which `InsertAverageProbeLength` ends
its sum, and the first slot from there on that is not present stops it.

The proofs need no fairness and do not bound the array: it grows at its end.
Model-checked only: `RunsEnd` (liveness).

### The insert-only ring

For all sizes, loads, periods and widths of the code's integers that satisfy
`ExperimentAssumption` and `FillsAssumption` (loads are fractions between 0 and 1
whose denominators leave room for the products of the code, periods are
positive):

| Theorem | Statement |
|---|---|
| `RingInvariant` | `Spec => []RingInv` |
| `DistancesAreExact` | `Spec => []SearchDistancesExact` |
| `EveryNumberCounted` | `Spec => []Counted` |
| `AbortsByCounting` | `Spec => []AbortsIfTooFull` |

`RingInv` says that no number is in two slots and that the distance of each slot
is that of the farthest number that prefers it. The two need each other: an
insert raises the distance of the slot preferred, around the end of the ring, to
where it puts the number, which is farther than any number before only if those
are found where they are.

`Counted` says that until an experiment gives up its full slots are as many as
the numbers drawn, the graveyards of the first half beside them: among the first
S slots the graveyards are `Up(S, p)` many, S over the period rounded up. An
insert fails only when the slots it may use are used up, and then the numbers to
be inserted exceed them; that is the equivalence of `AbortsIfTooFull`, which
holds for every sequence of numbers.

Model-checked only: `EmptiesBeyondSearch`, which compares averages: sums over the
ring, by folds.

### Ordered linear probing

For all values, hashers, numbers of spare slots and arguments of `reserve` that
satisfy `ParameterAssumption`:

| Theorem | Statement |
|---|---|
| `NestedInvariant` | `Spec => []Nested` |
| `RecursionIsBounded` | `Spec => []RecursionBounded` |
| `SortedInvariant` | `HashersMonotone => (Spec => []Sorted)` |
| `AnswersAreCorrect` | `HashersMonotone => (Spec => []AnswersCorrect)` |
| `ImplementsAbstractSet` | `HashersMonotone => (Spec => ImplementsSet)` |

`HashersMonotone` says that a larger value does not hash lower. The set needs it,
as the run `olp_mixing_hash` shows: a lookup stops at the first larger value. The
run `olp` has two hashers that satisfy it.

`Nested` counts. The slots that are not free are `occupied_slot_count_` many; the
last slot is free and none that a hash maps to, so the loops of `insert` and
`contains` stop inside the array; and what the inner of two nested calls has
still to move fits the array it fills, together with the argument of the insert
that asked for it, below the load at which an insert would rehash. So there is
never a third call, whatever the hasher.

`Sorted` adds that the values are in increasing order (`OrderedSlots`) and that no
slot between a value and the one it prefers is free (`Gapless`). Each needs the
other: a value goes where the first larger one is, which is behind all smaller
ones only if no free slot stops the search before; and shifting the values from
there up to the next free slot leaves no gap. The flag of the largest value is
apart from the slots, where that value marks a free one.

For the refinement, the values that calls in progress have taken out of an array
belong to the set. So only the insert of the caller changes it: `Upcoming` moves
from a frame of `todo` to a slot, or is there already. `Sorted` gives that the
slot found holds the value if any slot does.

## 5. Plan

Modelled, in this order: one table; two tables; iteration and maps; the
statistics; `OrderedLinearProbingSet`; the experiments. Proved: everything about
one table that is not liveness or a sum and does not depend on the values;
answers, recursion and refinement of `OrderedLinearProbingSet`; validity,
refinement and averages of `Olp`; distances and aborts of the insert-only ring;
references, loops and refinement of maps; lookups in two tables and in copies; which
tables and copies have room.
What is left:

1. Proofs about copies: whether a copy that makes no duplicates leaves its ordered
   values sorted.
2. Exceptions thrown by a constructor between the meta byte and the object (992).

## 6. Not modelled

* Exceptions: a constructor that throws leaves a full slot without an object
  (992), a hasher that throws in a rehash leaves elements in two arrays (1402).
* `insert(*it)`: the argument refers to an element that a rehash of the same
  call moves away (1006). Values are passed by value in the models.
* The code without SSE2 (259), which does not build beside the rest.
* Benchmarks, `hover_probe_lengths.cc`, `vary_graveyard_density.cc`, plots and
  data files: programs that call the tables, print and keep no other state. The
  statistics they print are `ProbeStatistics`.
* `test()` of olp-spike.cc as a sequence: `AnyCall` covers it.
* `ToString` and `Validate` as code (the properties say what they check);
  heterogeneous lookup, allocators, and the layout questions of `map_slot.h`,
  which are about C++ types; 64-bit overflow of sizes, which no table in memory
  reaches.
