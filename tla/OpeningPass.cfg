SPECIFICATION Spec
CONSTANTS
  Day = 6
  Hour = 3
  Every = 3
  Windows <- MCWindows
  CommandQueueCapacity = 2
  MaxBlocked = 1
PROPERTY
  EveryPassIsServed
