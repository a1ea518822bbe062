SPECIFICATION Spec
CONSTANTS
  Alerts = {a1}
  NoAlert = NoAlert
  AlertQueueCapacity = 1
  CommandQueueCapacity = 2
  StartupRetryCount = 2
  AllowAlertsOutsideActiveWindow = TRUE
  ClientCommands <- WindowCommands
  MaxCommands = 2
  MaxFaults = 0
  MaxNewsRuns = 2
  PromptResults = TRUE
INVARIANT
  WindowKeepsDisplayOn
CHECK_DEADLOCK FALSE
