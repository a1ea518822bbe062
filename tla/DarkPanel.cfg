SPECIFICATION DarkBootSpec
CONSTANTS
  Alerts = {a1}
  NoAlert = NoAlert
  AlertQueueCapacity = 1
  CommandQueueCapacity = 2
  StartupRetryCount = 2
  AllowAlertsOutsideActiveWindow = FALSE
  ClientCommands <- WindowCommands
  MaxCommands = 2
  MaxFaults = 2
  MaxNewsRuns = 2
  PromptResults = TRUE
PROPERTY
  OffMeansDark
CHECK_DEADLOCK FALSE
