CONSTANTS
  MaxValue = 13
  Values <- MCValues
  Keys <- MCValues
  KeyOf <- MCKeyOf
  Hashers <- MCHashers
  NoValue = NoValue
  Uninitialized = Uninitialized
  HashSpace = 256
  kSlotsPerBucket = 2
  kMaxExtraBuckets = 5
  kSearchDistanceEndSentinal = 255
  full_utilization_numerator = 9
  full_utilization_denominator = 10
  rehashed_utilization_numerator = 6
  rehashed_utilization_denominator = 10
  kTombstoneRatio <- NoTombstones
  MaxLogicalSize = 16
  ReserveCounts = {}
  RehashCounts = {5, 14}
  AnyRehashCount = TRUE
SPECIFICATION StackSpec
PROPERTIES
  SmallTablesFit
  AbortOnlyWhenFull
\* The program stops when an assert fails.
CHECK_DEADLOCK FALSE
