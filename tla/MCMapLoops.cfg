CONSTANTS
  k1 = k1  k2 = k2  k3 = k3  t0 = t0  t1 = t1
  Keys <- MCKeys
  Mapped <- MCMapped
  Default = t0
  NoMapped = NoMapped
  Values <- MCValues
  KeyOf <- MCKeyOf
  Hashers <- MCHashers
  NoValue = NoValue
  Uninitialized = Uninitialized
  HashSpace = 256
  kSlotsPerBucket = 2
  kMaxExtraBuckets = 5
  kSearchDistanceEndSentinal = 255
  full_utilization_numerator = 9
  full_utilization_denominator = 10
  rehashed_utilization_numerator = 6
  rehashed_utilization_denominator = 10
  kTombstoneRatio <- NoTombstones
  MaxLogicalSize = 8
  ReserveCounts = {4}
  RehashCounts = {}
  AnyRehashCount = FALSE
SPECIFICATION MapLoopsSpec
INVARIANTS
  VisitsAll
  RangeErased
  ReferenceToKey
PROPERTIES
  LoopEnds
  ImplementsMap
