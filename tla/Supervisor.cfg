SPECIFICATION Spec
CONSTANTS
  Alerts = {a1, a2, a3}
  NoAlert = NoAlert
  AlertQueueCapacity = 1
  CommandQueueCapacity = 1
  StartupRetryCount = 1
  AllowAlertsOutsideActiveWindow = TRUE
  ClientCommands <- AllCommands
  MaxCommands = 3
  MaxFaults = 1
  MaxNewsRuns = 2
  PromptResults = FALSE
SYMMETRY AlertSymmetry
INVARIANTS
  TypeOK
  OnePainter
  PaintersOwnDisplay
  RunsAreAccountedFor
  StatusTellsTheTruth
PROPERTIES
  DisplaySwitchedAlone
  ReconcileKeepsAlerts
  AlertFifo
CHECK_DEADLOCK FALSE
