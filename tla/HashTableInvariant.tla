-------------------------- MODULE HashTableInvariant --------------------------
(***************************************************************************)
(* The inductive invariant that the proofs of HashTableProofs.tla rest on. *)
(* It is stated in a module of its own so that TLC can check it too.       *)
(***************************************************************************)
EXTENDS HashTableProperties

\* A slot of an initialised bucket holds an object iff its meta byte says so.
Consistent(bucket) ==
  /\ bucket \in Bucket
  /\ \A s \in SlotNumber : bucket.slots[s] = NoValue <=> bucket.h2[s] = kEmpty

\* An insert in progress has its value, and buckets to put it in.
CallInv ==
  /\ pc = "insert" => call.op = "insert"
  /\ call.op = "insert" => call.value \in Values
  /\ Rehashing \/ pc = "insert" => logical_size_ > 0
  /\ size_ > 0 => logical_size_ > 0

\* The table being filled: initialised up to insert_bucket, objects where the
\* meta bytes say so.
NewInv ==
  /\ InitializedPrefix
  /\ Rehashing => insert_bucket < Physical
  /\ \A b \in DOMAIN buckets_ :
       buckets_[b] # Uninitialized => Consistent(buckets_[b])

\* The table being emptied: a slot whose meta byte is empty still holds an
\* object exactly when the heap refers to it.
SourceInv ==
  \A b \in DOMAIN source :
    /\ source[b] \in Bucket
    /\ \A s \in SlotNumber :
         source[b].slots[s] = NoValue <=>
           source[b].h2[s] = kEmpty /\ ~\E i \in heap : i.bucket = b /\ i.slot = s

\* The heap refers to slots of the source, to none twice, and the scan will not
\* come across them.
HeapInv ==
  /\ \A i \in heap : /\ i.bucket \in DOMAIN source
                     /\ source[i.bucket].h2[i.slot] = kEmpty
  /\ \A i, j \in heap : i.bucket = j.bucket /\ i.slot = j.slot => i = j

\* The scan stays inside the source, and leaves nothing when it ends.
ScanInv ==
  /\ Rehashing => bucket_number <= SourcePhysical
  /\ pc = "scan" => bucket_number < SourcePhysical
  /\ AtRest => source_logical_size = 0 /\ heap = {}

Shape ==
  /\ TypeOK
  /\ CallInv
  /\ NewInv
  /\ SourceInv
  /\ HeapInv
  /\ ScanInv

-----------------------------------------------------------------------------
\* What a rehash has yet to fill is empty: the slots from insert_slot on.
FreeInv ==
  Rehashing => \A s \in SlotNumber :
                 insert_slot <= s => buckets_[insert_bucket].h2[s] = kEmpty

\* size_ counts a finite set.
CountInv ==
  /\ IsFiniteSet(Occupied(buckets_))
  /\ SizeIsCount

Counted ==
  /\ Shape
  /\ FreeInv
  /\ CountInv

\* The table is small enough for every displacement to fit the uint8_t of a
\* search distance.
DistancesFit ==
  \A n \in 0 .. MaxLogicalSize : PhysicalSize(n) <= kSearchDistanceEndSentinal

\* No value still to be moved is so far behind the insertion point of a rehash
\* that the distance would not fit the uint8_t of its search distance, which
\* InsertAscending, unlike PrepareInsert, does not assert.
DistancesInByte ==
  Rehashing =>
    \A value \in Stored(source) :
      insert_bucket < H1(HashOf(value), logical_size_) + kSearchDistanceEndSentinal

\* Every element is where a lookup of its key finds it, also in the middle of a
\* rehash and after a failed assert.
Located ==
  \A p \in Occupied(buckets_) :
    LET hash == HashOf(ValueAt(buckets_, p))
        h1 == H1(hash, logical_size_)
    IN  /\ h1 <= p[1] /\ p[1] < h1 + buckets_[h1].search_distance
        /\ ClearOrdered(MetaAt(buckets_, p)) = H2(hash)

\* The inductive invariant of the proofs about lookups: the arrays are in shape,
\* size_ counts the elements, every element is within reach of a lookup, and no
\* key is stored twice.
Searchable ==
  /\ Counted
  /\ Located
  /\ OneSlotPerKey

-----------------------------------------------------------------------------
\* Search distance d of bucket b ends inside the array, and is none if b is an
\* overflow bucket.
InArray(b, d) ==
  /\ b + d <= Physical
  /\ b >= logical_size_ => d = 0

\* A search distance ends inside the array, and overflow buckets have none; at
\* rest the last one carries the sentinel.
DistancesInArray ==
  pc # "aborted" =>
    \A b \in DOMAIN buckets_ : buckets_[b] # Uninitialized =>
      IF AtRest /\ b = Physical - 1
      THEN buckets_[b].search_distance = kSearchDistanceEndSentinal
      ELSE /\ b + buckets_[b].search_distance <= Physical
           /\ b >= logical_size_ => buckets_[b].search_distance = 0

-----------------------------------------------------------------------------
\* The preferred bucket, in the old buckets of a rehash, of the value at p
SourcePreferred(p) == H1(HashOf(ValueAt(source, p)), source_logical_size)

\* GetDisorderedValues has been called for bucket b.
Collected(b) == b < bucket_number \/ (b = bucket_number /\ pc = "scan")

\* What the sweep of a rehash has left in its slot is within the search distance
\* of its preferred bucket and not behind the scan; and if it is not in order,
\* it is not in a bucket looked through already, nor is its preferred bucket one
\* that has been asked for its disordered values.
SourceSwept ==
  Rehashing =>
    \A p \in Occupied(source) :
      LET h1 == SourcePreferred(p)
      IN  /\ h1 <= p[1] /\ p[1] < h1 + source[h1].search_distance
          /\ bucket_number <= p[1]
          /\ pc = "scan" /\ p[1] = bucket_number => slot_number <= p[2]
          /\ IsNonemptyAndDisordered(MetaAt(source, p)) =>
               disordered_bucket <= p[1] /\ ~Collected(h1)

\* The ordered values in a bucket array are sorted by hash.
Sorted(buckets) ==
  \A p, q \in Occupied(buckets) :
    /\ IsNonemptyAndOrdered(MetaAt(buckets, p))
    /\ IsNonemptyAndOrdered(MetaAt(buckets, q))
    /\ p[1] < q[1] \/ (p[1] = q[1] /\ p[2] < q[2])
    => HashOf(ValueAt(buckets, p)) <= HashOf(ValueAt(buckets, q))

\* The inductive invariant of the proofs about rehashes: the sweep leaves nothing
\* behind, moves the values in the order of their hashes, and lets no search
\* distance lead out of the array.
Swept ==
  /\ Searchable
  /\ DistancesInArray
  /\ SourceSwept
  /\ Sorted(buckets_)
  /\ Rehashing => Sorted(source)
  /\ RehashAscending

-----------------------------------------------------------------------------
\* Between two calls there is no call.
NoCallIdle == pc = "idle" => call = Idle

\* The table that a rehash fills has room for what it is to hold: for the values
\* of both tables and the one being inserted at the load a growing rehash leaves,
\* or for the count that is being reserved.
RoomForCall ==
  Rehashing =>
    /\ IsFiniteSet(Constructed(source))
    /\ call.op = "insert" =>
         (size_ + Cardinality(Constructed(source)) + 1) * rehashed_utilization_denominator
           <= LogicalSlotCount(logical_size_) * rehashed_utilization_numerator
    /\ call.op = "reserve" => ~NeedsRehash(logical_size_, call.count)

\* How far from bucket b the values that prefer it lie, as search distances
Reach(b) ==
  {p[1] - b + 1 : p \in {q \in Occupied(buckets_) :
                           H1(HashOf(ValueAt(buckets_, q)), logical_size_) = b}}

\* No search distance of a rehash is longer than it need be.
Tight ==
  Rehashing =>
    \A b \in 0 .. logical_size_ - 1 : buckets_[b] # Uninitialized =>
      buckets_[b].search_distance \in Reach(b) \cup {0}

\* The rehash steps over the first slot of each bucket that gets a tombstone,
\* except that of bucket 0.
TombstonesKept ==
  Rehashing =>
    /\ \A t \in 1 .. Physical - 1 :
         buckets_[t] # Uninitialized /\ BucketGetsTombstone(t) => buckets_[t].h2[0] = kEmpty
    /\ insert_bucket # 0 => FirstSlot(insert_bucket) <= insert_slot

\* The search distances of the buckets that hash values map to in the old table
\* end inside its array.
SourceInArray ==
  Rehashing =>
    \A b \in 0 .. source_logical_size - 1 :
      b + source[b].search_distance <= SourcePhysical

\* From bucket b on the slots that the rehash has passed are full, tombstones
\* aside, with values that prefer b or a later bucket; and so do the values that
\* are still to come.
PackedFrom(b) ==
  /\ b <= insert_bucket
  /\ \A x \in b .. insert_bucket, s \in SlotNumber :
       FirstSlot(x) <= s /\ (x < insert_bucket \/ s < insert_slot) =>
         /\ <<x, s>> \in Occupied(buckets_)
         /\ b <= H1(HashOf(ValueAt(buckets_, <<x, s>>)), logical_size_)
  /\ \A w \in Stored(source) : b <= H1(HashOf(w), logical_size_)

\* The values of a rehash are packed: they lie behind the bucket they prefer only
\* because the slots from there on are taken.
Packed == Rehashing => \E b \in 0 .. logical_size_ - 1 : PackedFrom(b)

\* All of the invariant
Invariant ==
  /\ Swept
  /\ NoCallIdle
  /\ RoomForCall
  /\ Tight
  /\ TombstonesKept
  /\ SourceInArray
  /\ Packed
=============================================================================
