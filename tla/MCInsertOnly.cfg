CONSTANTS
  Word = 1073741824
  HashSpace = 16
  Values = {0, 1, 2, 3, 8, 9, 12, 13, 14, 15}
  n_elements = 4
  Fills <- SmallFills
  FixedFill <- SmallFill
  Periods = {2, 3, 5}
  NoPeriod = NoPeriod
  Free = Free
SPECIFICATION Spec
INVARIANTS
  SearchDistancesExact
  AbortsIfTooFull
  EmptiesBeyondSearch
\* An experiment ends.
CHECK_DEADLOCK FALSE
