------------------------- MODULE TwoTablesInvariant -------------------------
(***************************************************************************)
(* The inductive invariant that the proofs of TwoTablesProofs.tla rest on. *)
(* It is stated in a module of its own so that TLC can check it too.       *)
(***************************************************************************)
EXTENDS TwoTables, HashTableInvariant

\* An element of a table that is given by its members is within reach.
Reached(members, p) ==
  LET hash == members.hasher[KeyOf[ValueAt(members.buckets_, p)]]
      h1 == H1(hash, members.logical_size_)
  IN  /\ h1 <= p[1] /\ p[1] < h1 + members.buckets_[h1].search_distance
      /\ ClearOrdered(MetaAt(members.buckets_, p)) = H2(hash)

\* A bucket array whose objects are where its meta bytes say, counted and within
\* reach, and whose search distances end inside it: a table between two calls.
Sound(members) ==
  LET buckets == members.buckets_
      physical == PhysicalSize(members.logical_size_)
  IN  /\ members.hasher \in Hashers
      /\ members.logical_size_ \in 0 .. MaxLogicalSize
      /\ buckets \in [0 .. physical - 1 -> Bucket]
      /\ \A b \in 0 .. physical - 1 :
           /\ Consistent(buckets[b])
           /\ IF b = physical - 1
              THEN buckets[b].search_distance = kSearchDistanceEndSentinal
              ELSE /\ b + buckets[b].search_distance <= physical
                   /\ b >= members.logical_size_ => buckets[b].search_distance = 0
      /\ IsFiniteSet(Occupied(buckets))
      /\ members.size_ = Cardinality(Occupied(buckets))
      /\ members.size_ > 0 => members.logical_size_ > 0
      /\ \A p \in Occupied(buckets) : Reached(members, p)

\* Between calls the locals of RehashOrCopyFrom are those of its next call.
LocalsReset ==
  AtRest => /\ disordered_bucket = 0 /\ bucket_number = 0 /\ slot_number = 0
            /\ insert_bucket = 0 /\ insert_slot = 0

\* No copy is in progress.
Working ==
  /\ Counted
  /\ Located
  /\ DistancesInArray
  /\ LocalsReset

\* The table that a copy fills: nothing is behind the insertion point.
CopyTarget ==
  /\ hasher \in Hashers
  /\ logical_size_ \in 1 .. MaxLogicalSize
  /\ buckets_ \in [0 .. Physical - 1 -> Bucket]
  /\ \A b \in 0 .. Physical - 1 :
       /\ Consistent(buckets_[b])
       /\ b < Physical - 1 => InArray(b, buckets_[b].search_distance)
  /\ insert_bucket \in 0 .. Physical - 1 /\ insert_slot \in SlotNumber
  /\ \A p \in Occupied(buckets_) :
       p[1] < insert_bucket \/ (p[1] = insert_bucket /\ p[2] < insert_slot)
  /\ size_ \in Nat /\ CountInv
  /\ Located

\* The preferred bucket, in the source of a copy, of its element at p
OtherPreferred(p) ==
  H1(other.hasher[KeyOf[ValueAt(other.buckets_, p)]], other.logical_size_)

\* GetDisorderedValues<false> has been called for bucket b.
CopyCollected(b) == b < bucket_number \/ (b = bucket_number /\ pc = "copy scan")

\* The scan, or a call of GetDisorderedValues<false>, will come to p.
Awaits(p) ==
  IF IsNonemptyAndDisordered(MetaAt(other.buckets_, p))
  THEN disordered_bucket <= p[1] /\ ~CopyCollected(OtherPreferred(p))
  ELSE /\ bucket_number <= p[1]
       /\ pc = "copy scan" /\ p[1] = bucket_number => slot_number <= p[2]

\* Every element of the source has been copied, is in the heap or will be come
\* to; and nothing else is copied.
CopySwept ==
  /\ \A p \in Occupied(other.buckets_) :
       ValueAt(other.buckets_, p) \in Stored(buckets_) \/ p \in HeapSlots \/ Awaits(p)
  /\ Stored(buckets_) \subseteq Owned(other)

\* The locals of the copy; those of a rehash are at rest.
CopyLocals ==
  /\ pc \in {"copy collect", "copy scan"}
  /\ source_logical_size = 0 /\ BucketsTyped(source, 0)
  /\ HeapSlots \subseteq Occupied(other.buckets_)
  /\ disordered_bucket \in Nat /\ bucket_number \in Nat /\ slot_number \in Nat
  /\ bucket_number <= Copy!SourcePhysical
  /\ pc = "copy scan" => bucket_number < Copy!SourcePhysical

InCopy ==
  /\ CopyTarget
  /\ CopyLocals
  /\ CopySwept

\* The buckets of a copy are full from b up to the insertion point.
CopyPackedFrom(b) ==
  /\ b <= insert_bucket
  /\ \A x \in b .. insert_bucket, s \in SlotNumber :
       x < insert_bucket \/ s < insert_slot => <<x, s>> \in Occupied(buckets_)

\* What is reserved holds the elements of the source at a legal load, and no
\* slot is left out behind some bucket.
CopyRoom ==
  Copying => /\ ~NeedsRehash(logical_size_, other.size_)
             /\ \E b \in 0 .. logical_size_ - 1 : CopyPackedFrom(b)

\* The inductive invariant: with equal hashers
TwoInv ==
  /\ other.hasher = hasher
  /\ Sound(other)
  /\ pc # "aborted" => Working \/ InCopy

\* DistancesInByte, for a copy: no value is copied so far behind its preferred
\* bucket that the distance would not fit the uint8_t of its search distance.
CopiesInByte ==
  Copying =>
    \A value \in Owned(other) :
      insert_bucket < H1(HashOf(value), logical_size_) + kSearchDistanceEndSentinal
=============================================================================
