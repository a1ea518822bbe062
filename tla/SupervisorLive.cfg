SPECIFICATION LiveSpec
CONSTANTS
  Alerts = {a1, a2}
  NoAlert = NoAlert
  AlertQueueCapacity = 1
  CommandQueueCapacity = 1
  StartupRetryCount = 2
  AllowAlertsOutsideActiveWindow = TRUE
  ClientCommands <- LifeCommands
  MaxCommands = 2
  MaxFaults = 2
  MaxNewsRuns = 2
  PromptResults = TRUE
PROPERTIES
  AlertsLeaveQueue
  StopCompletes
  WindowIsServed
  WindowEndsDark
CHECK_DEADLOCK FALSE
