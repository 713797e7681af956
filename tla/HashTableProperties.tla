------------------------- MODULE HashTableProperties -------------------------
(***************************************************************************)
(* What the hash table of HashTable.tla must satisfy.  Validate() of       *)
(* internal/hash_table.h states the part of it that can be seen between    *)
(* two calls; the rest is in its comments.                                 *)
(***************************************************************************)
EXTENDS HashTable, FiniteSets

BucketsTyped(buckets, logical_size) ==
  buckets \in [0 .. PhysicalSize(logical_size) - 1 -> Bucket \cup {Uninitialized}]

\* The variables hold values of the types the C++ declarations give them.
TypeOK ==
  /\ hasher \in Hashers
  /\ size_ \in Nat
  /\ logical_size_ \in 0 .. MaxLogicalSize
  /\ BucketsTyped(buckets_, logical_size_)
  /\ pc \in {"idle", "insert", "collect", "scan", "aborted"}
  /\ call \in [op : {"idle", "insert", "reserve", "rehash"},
               value : Values \cup {NoValue}, count : Nat]
  /\ result \in {"void", "inserted", "present", "erased", "absent"}
  /\ source_logical_size \in 0 .. MaxLogicalSize
  /\ BucketsTyped(source, source_logical_size)
  /\ heap \subseteq [by : Nat, bucket : Nat, slot : SlotNumber]
  /\ {disordered_bucket, bucket_number, insert_bucket} \subseteq Nat
  /\ slot_number \in 0 .. kSlotsPerBucket
  /\ insert_slot \in SlotNumber

-----------------------------------------------------------------------------
Rehashing == pc \in {"collect", "scan"}
AtRest == pc \in {"idle", "insert"}

Positions(buckets) == {b \in DOMAIN buckets : buckets[b] # Uninitialized} \X SlotNumber
MetaAt(buckets, p) == buckets[p[1]].h2[p[2]]
ValueAt(buckets, p) == buckets[p[1]].slots[p[2]]
Occupied(buckets) == {p \in Positions(buckets) : ~IsEmpty(MetaAt(buckets, p))}
Constructed(buckets) == {p \in Positions(buckets) : ValueAt(buckets, p) # NoValue}
Stored(buckets) == {ValueAt(buckets, p) : p \in Constructed(buckets)}
HeapSlots == {<<item.bucket, item.slot>> : item \in heap}

\* The invariant the comment of InsertAscending states: the new buckets up to
\* insert_bucket are initialised and the ones after it are not; between calls
\* every bucket is.
InitializedPrefix ==
  /\ Rehashing => \A b \in DOMAIN buckets_ :
                     (buckets_[b] = Uninitialized) <=> (b > insert_bucket)
  /\ AtRest => \A b \in DOMAIN buckets_ : buckets_[b] # Uninitialized

\* Validate(): every stored object lies within the search distance of its
\* preferred bucket, under the h2 of its hash.  Holds of the new buckets
\* during a rehash too.
WithinSearchDistance ==
  pc # "aborted" =>
    \A p \in Occupied(buckets_) :
      LET hash == HashOf(ValueAt(buckets_, p))
          h1 == H1(hash, logical_size_)
      IN  /\ h1 <= p[1] /\ p[1] < h1 + buckets_[h1].search_distance
          /\ ClearOrdered(MetaAt(buckets_, p)) = H2(hash)

\* Validate(): the ordered elements are sorted by hash, in bucket and slot
\* order.
OrderedSorted ==
  \A p, q \in Occupied(buckets_) :
    /\ IsNonemptyAndOrdered(MetaAt(buckets_, p))
    /\ IsNonemptyAndOrdered(MetaAt(buckets_, q))
    /\ p[1] < q[1] \/ (p[1] = q[1] /\ p[2] < q[2])
    => HashOf(ValueAt(buckets_, p)) <= HashOf(ValueAt(buckets_, q))

\* Validate(): search distances stay inside the array, overflow buckets have
\* none, and only the last bucket carries the sentinel that ends iteration.
SearchDistancesInRange ==
  AtRest /\ logical_size_ > 0 =>
    /\ \A b \in 0 .. logical_size_ - 1 :
         /\ b + buckets_[b].search_distance <= Physical
         /\ buckets_[b].search_distance # kSearchDistanceEndSentinal
    /\ \A b \in logical_size_ .. Physical - 2 : buckets_[b].search_distance = 0
    /\ buckets_[Physical - 1].search_distance = kSearchDistanceEndSentinal

\* size_ is the number of occupied slots, in the middle of a rehash the number
\* of values moved so far.
SizeIsCount == size_ = Cardinality(Occupied(buckets_))

\* No key is stored twice, and no value is in two places while a rehash moves
\* the values over ("we can assume that there are no duplicates").
OneSlotPerKey ==
  /\ \A p, q \in Constructed(buckets_) :
       KeyOf[ValueAt(buckets_, p)] = KeyOf[ValueAt(buckets_, q)] => p = q
  /\ \A p, q \in Constructed(source) :
       KeyOf[ValueAt(source, p)] = KeyOf[ValueAt(source, q)] => p = q
  /\ \A v \in Stored(buckets_), w \in Stored(source) : KeyOf[v] # KeyOf[w]

\* Slots hold a constructed object exactly when their meta byte says so, except
\* those the heap refers to ("the meta_byte is set empty, but it hasn't
\* actually been moved yet").  So ~Buckets destroys each object once.
SlotLifetimes ==
  pc # "aborted" =>
    /\ Constructed(buckets_) = Occupied(buckets_)
    /\ Constructed(source) = Occupied(source) \cup HeapSlots
    /\ Occupied(source) \cap HeapSlots = {}
    /\ \A i, j \in heap : <<i.bucket, i.slot>> = <<j.bucket, j.slot>> => i = j

\* "The values are inserted in monotonically increasing hash order": a value
\* that is still to be moved never hashes below one that has been.
RehashAscending ==
  Rehashing =>
    \A v \in Stored(buckets_), w \in Stored(source) : HashOf(v) <= HashOf(w)

\* find() answers as a scan of the whole table would.
FindCorrect ==
  AtRest =>
    \A key \in Keys :
      Find(key) = {p \in Occupied(buckets_) : KeyOf[ValueAt(buckets_, p)] = key}

\* No assert fails.  The comment of rehash promises that much of rehash(0):
\* "Also we can hold at least `size()`", which may be 0.
NeverAborts == pc # "aborted"

-----------------------------------------------------------------------------
\* Values stay where they are except in a rehash or clear(), and only an erase
\* takes one away: pointers and iterators to the other elements survive.
StablePositions ==
  [][AtRest /\ AtRest' /\ logical_size_' # 0 =>
       LET gone == {p \in Constructed(buckets_) :
                      ValueAt(buckets_', p) # ValueAt(buckets_, p)}
       IN  /\ gone # {} => result' = "erased"
           /\ \A p, q \in gone : p = q /\ ValueAt(buckets_', p) = NoValue]_vars

\* reserve(count) returns with room for count elements: none of the inserts up
\* to that size rehashes.
ReserveSuffices ==
  [][call.op = "reserve" /\ pc' = "idle" =>
       ~NeedsRehash(logical_size_', call.count)]_vars

\* An insert that grows the table leaves it no fuller than the rehashed
\* utilisation, so the next rehash is a constant fraction of inserts away.
GrowthAmortized ==
  [][call.op = "insert" /\ pc = "collect" /\ pc' = "insert" =>
       (size_' + 1) * rehashed_utilization_denominator
         <= LogicalSlotCount(logical_size_') * rehashed_utilization_numerator]_vars

\* A rehash forgets the stretch that erased values left behind: afterwards the
\* search distance of every bucket reaches its farthest value and no further.
RehashTightens ==
  [][Rehashing /\ AtRest' =>
       \A b \in 0 .. logical_size_ - 1 :
         LET reach == {p[1] - b + 1 : p \in {q \in Occupied(buckets_') :
                         H1(HashOf(ValueAt(buckets_', q)), logical_size_) = b}}
         IN  /\ \A d \in reach : d <= buckets_'[b].search_distance
             /\ buckets_'[b].search_distance \in reach \cup {0}]_vars

\* The graveyard tombstones of a rehash do their work: an insert right after
\* it finds an empty slot no later than the next bucket with a tombstone.
TombstonesBoundProbes ==
  [][Rehashing /\ AtRest' =>
       \A b \in 0 .. logical_size_ - 1, t \in 1 .. Physical - 1 :
         b <= t /\ BucketGetsTombstone(t) =>
           \E i \in b .. t : FindEmpties(buckets_'[i]) # {}]_vars

\* A rehash gives up only when it must: the values that prefer some bucket or a
\* later one are at least as many as the slots from that bucket on.  (Exactly
\* as many is too many: filling the last slot of the last bucket opens the next
\* one.)  Without tombstones.
AbortOnlyWhenFull ==
  [][Rehashing /\ pc' = "aborted" =>
       \E b \in 0 .. logical_size_ - 1 :
         Cardinality({v \in Stored(buckets_) \cup Stored(source) :
                        H1(HashOf(v), logical_size_) >= b})
           >= (Physical - b) * kSlotsPerBucket]_vars

\* A table of at most kMaxExtraBuckets + 1 logical buckets has room for a legal
\* load, though all values may prefer the last bucket and erases may have left
\* holes where no value can go: only a larger one runs out of buckets, in a
\* rehash or in an insert, unless rehash() was given too small a count.
\* Without tombstones.
SmallTablesFit ==
  [][(Rehashing \/ pc = "insert") /\ pc' = "aborted" =>
       \/ logical_size_ > kMaxExtraBuckets + 1
       \/ NeedsRehash(logical_size_,
                      Cardinality(Stored(buckets_) \cup Stored(source)))]_vars

\* "Rehashes the table so that we can hold at least `count` without exceeding
\* the maximum load factor.  Also we can hold at least `size()`" (the comment
\* of rehash).
RehashSuffices ==
  [][call.op = "rehash" /\ Rehashing /\ pc' = "idle" =>
       ~NeedsRehash(logical_size_', MaxOf(call.count, size_'))]_vars

\* The table implements a set of values with unique keys: every call changes
\* the contents as AbstractSet says and returns what it says, and a rehash in
\* between neither loses, duplicates nor invents a value.
Abstract == INSTANCE AbstractSet WITH
  contents <- Stored(buckets_) \cup Stored(source),
  inserting <- IF call.op = "insert" THEN {call.value} ELSE {}
ImplementsSet == Abstract!Spec

\* A call that has begun returns, or stops at a failed assert: neither the
\* rehash loop, which puts off bucket by bucket what the heap holds, nor an
\* insert behind it runs forever.
CallsReturn == pc # "idle" ~> pc \in {"idle", "aborted"}
=============================================================================
