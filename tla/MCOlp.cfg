CONSTANTS
  HashSpace = 32
  Values <- MCValues
  Hashers <- CrowdedHash
  ReserveCounts = {0, 4, 8, 9, 17, 22, 24}
  SpareSlots = 1
SPECIFICATION TurnsSpec
INVARIANTS
  AnswersCorrect
  RecursionBounded
PROPERTIES
  ImplementsSet
