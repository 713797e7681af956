CONSTANTS
  k1 = k1  k2 = k2  k3 = k3  k4 = k4
  Values <- MCValues
  Keys <- MCValues
  KeyOf <- MCKeyOf
  Hashers <- OneOfHashers
  NoValue = NoValue
  Uninitialized = Uninitialized
  HashSpace = 256
  kSlotsPerBucket = 2
  kMaxExtraBuckets = 5
  kSearchDistanceEndSentinal = 255
  full_utilization_numerator = 9
  full_utilization_denominator = 10
  rehashed_utilization_numerator = 6
  rehashed_utilization_denominator = 10
  kTombstoneRatio <- NoTombstones
  MaxLogicalSize = 8
  ReserveCounts = {}
  RehashCounts = {}
  AnyRehashCount = FALSE
  OneHasher = TRUE
  MaxElements = 4
  MaxElsewhere = 0
SYMMETRY CrowdedSymmetry
SPECIFICATION TwoSpec
PROPERTIES
  CopyEqualsSource
CHECK_DEADLOCK FALSE
