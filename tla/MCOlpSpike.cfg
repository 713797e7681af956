CONSTANTS
  HashSpace = 8
  nominal_capacity_ = 3
  Values = {0, 1, 3, 4, 5, 6, 7}
  size = 3
SPECIFICATION HoverSpec
INVARIANTS
  Validate
PROPERTIES
  ImplementsSet
  AveragesAreOfCalls
  RunsEnd
\* main() returns, and an insert into a table that is overfull stops at an assert.
CHECK_DEADLOCK FALSE
