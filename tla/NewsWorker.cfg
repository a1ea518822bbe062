SPECIFICATION LiveSpec
CONSTANTS
  MaxTicks = 3
  MaxRuns = 3
  MaxFaults = 2
INVARIANTS
  TypeOK
  OneGoroutine
  PassesAreAskedFor
PROPERTIES
  CancelEnds
  SignalIsServed
CHECK_DEADLOCK FALSE
