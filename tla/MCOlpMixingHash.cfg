CONSTANTS
  HashSpace = 32
  Values <- MCValues
  Hashers <- MixingHash
  ReserveCounts = {0, 4, 8, 9}
  SpareSlots = 2
SPECIFICATION Spec
INVARIANTS
  AnswersCorrect
