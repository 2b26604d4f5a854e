SPECIFICATION MCSpec
CONSTANTS
  MaximumBytes = 2
  TimeoutTicks = 2
  EventLimit = 3
INVARIANTS
  OutcomeIsTrue
  NothingOpen
PROPERTIES
  Settles
CHECK_DEADLOCK FALSE
