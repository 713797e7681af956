CONSTANTS
  k1 = k1  k2 = k2  k3 = k3  k4 = k4
  Values <- SmallValues
  Keys <- SmallValues
  KeyOf <- SmallKeyOf
  Hashers <- SmallHashers
  NoValue = NoValue
  Uninitialized = Uninitialized
  HashSpace = 256
  kSlotsPerBucket = 3
  kMaxExtraBuckets = 5
  kSearchDistanceEndSentinal = 255
  full_utilization_numerator = 9
  full_utilization_denominator = 10
  rehashed_utilization_numerator = 6
  rehashed_utilization_denominator = 10
  kTombstoneRatio <- SevenTenths
  MaxLogicalSize = 8
  ReserveCounts = {6}
  RehashCounts = {5}
  AnyRehashCount = FALSE
SPECIFICATION FairSpec
INVARIANTS
  Invariant
PROPERTIES
  TombstonesBoundProbes
  RehashTightens
  StatisticsPredict
  SearchesOnlyLengthen
  CallsReturn
