----------------------------- MODULE Supervisor -----------------------------
(***************************************************************************)
(* internal/supervisor/supervisor.go: the single goroutine that owns the   *)
(* display, the news worker and the alert presentation.                    *)
(*                                                                         *)
(* The loop takes one message at a time from two channels: `commands'      *)
(* (FIFO, filled by gRPC handlers, cron and main) and `internal' (results  *)
(* of the goroutines it started and timers).  Handling a message has two   *)
(* parts, the switch on the kind (one action per case here) and, unless    *)
(* the case continues, reconcile; `phase' says which one is next.  The     *)
(* goroutines, timers, callers and signals run between the two.            *)
(*                                                                         *)
(* `internal' is a set: every sender is a goroutine or a timer of its own  *)
(* that may be delayed before it sends, so the loop can meet the messages  *)
(* in any order, and no two messages are equal.  Timer durations and the   *)
(* timestamps and LastError of the status are left out.                    *)
(***************************************************************************)
EXTENDS Naturals, Sequences, FiniteSets

CONSTANTS
  Alerts,                         \* the alerts clients may send, one operation id each
  NoAlert,                        \* an empty CurrentAlertOperationID
  AlertQueueCapacity,             \* config.AlertQueueCapacity
  CommandQueueCapacity,           \* config.CommandQueueCapacity
  StartupRetryCount,              \* config.StartupRetryCount
  AllowAlertsOutsideActiveWindow, \* config.AllowAlertsOutsideActiveWindow
  ClientCommands,                 \* the commands clients send in this instance, alerts excluded
  MaxCommands,                    \* bound: commands sent, alerts excluded
  MaxFaults,                      \* bound: failures of the device and of the news worker
  MaxNewsRuns,                    \* bound: news runs that end because the process was signalled
  PromptResults                   \* a worker's result reaches the loop before a later timer fires

CommandKinds == {"start", "shutdown", "reconcile", "newsChanged", "newsPass",
                 "alert", "snapshot", "stop"}

\* request() attaches the caller's context; trySend() attaches none.
KindsWithContext == {"reconcile", "newsChanged", "alert", "snapshot", "stop"}

PlainCommand == [kind : CommandKinds \ {"alert"}, desired : BOOLEAN, alert : {NoAlert}]
AlertCommand == [kind : {"alert"}, desired : {FALSE}, alert : Alerts]
Command == PlainCommand \cup AlertCommand

Message == [kind : {"newsStopped", "newsStopTimedOut", "newsRetry", "alertFinished"},
            run : Nat, failed : BOOLEAN]

Lifecycles == {"off", "starting", "running", "pausing", "alerting", "stopping", "failed"}

ASSUME ConfigAssumption ==
  /\ AlertQueueCapacity \in Nat \ {0}
  /\ CommandQueueCapacity \in Nat \ {0}
  /\ StartupRetryCount \in Nat \ {0}
  /\ AllowAlertsOutsideActiveWindow \in BOOLEAN
  /\ NoAlert \notin Alerts

ASSUME BoundsAssumption ==
  /\ ClientCommands \subseteq PlainCommand
  /\ MaxCommands \in Nat
  /\ MaxFaults \in Nat
  /\ MaxNewsRuns \in Nat
  /\ PromptResults \in BOOLEAN

VARIABLES
  (* internalState, owned by the loop *)
  lifecycle, desiredOn, displayRunning, newsRunning, alertRunning, queuedAlerts,
  currentAlert, alerts, newsRun, alertRun, shuttingDown, temporaryAlertDisplay,
  newsStopping, forceStopDisplay,
  (* where the loop is *)
  phase, attempt,
  (* channels and the application context *)
  commands, internal, refreshNow, appCancelled,
  (* goroutines started by the loop and the contexts it cancelled *)
  newsWorkers, alertWorkers, cancelledNews, cancelledAlerts,
  (* the front light of the panel *)
  lit,
  (* what clients sent, what was accepted, what reached the screen; bounds *)
  offered, accepted, displayed, issued, faults

statusVars  == <<lifecycle, desiredOn, displayRunning, newsRunning, alertRunning,
                 queuedAlerts, currentAlert>>
queueVars   == <<alerts, queuedAlerts, temporaryAlertDisplay>>
runVars     == <<newsRun, alertRun>>
modeVars    == <<shuttingDown, temporaryAlertDisplay, newsStopping, forceStopDisplay>>
loopVars    == <<phase, attempt>>
displayVars == <<displayRunning, forceStopDisplay, lit>>
workerVars  == <<newsWorkers, alertWorkers>>
cancelVars  == <<cancelledNews, cancelledAlerts>>
clientVars  == <<offered, issued>>
vars == <<statusVars, alerts, runVars, modeVars, loopVars, commands, internal, refreshNow,
          appCancelled, workerVars, cancelVars, lit, clientVars, accepted, displayed, faults>>

FlagsOK ==
  /\ desiredOn \in BOOLEAN /\ displayRunning \in BOOLEAN
  /\ newsRunning \in BOOLEAN /\ alertRunning \in BOOLEAN
  /\ shuttingDown \in BOOLEAN /\ temporaryAlertDisplay \in BOOLEAN
  /\ newsStopping \in BOOLEAN /\ forceStopDisplay \in BOOLEAN
  /\ refreshNow \in BOOLEAN /\ appCancelled \in BOOLEAN
  /\ lit \in BOOLEAN

DataOK ==
  /\ lifecycle \in Lifecycles
  /\ queuedAlerts \in Nat
  /\ currentAlert \in Alerts \cup {NoAlert}
  /\ alerts \in Seq(Alerts)
  /\ newsRun \in Nat /\ alertRun \in Nat
  /\ phase \in {"select", "reconcile", "done"}
  /\ attempt \in 0..(StartupRetryCount - 1)
  /\ commands \in Seq(Command)
  /\ Len(commands) \leq CommandQueueCapacity
  /\ internal \subseteq Message
  /\ newsWorkers \subseteq Nat
  /\ alertWorkers \subseteq [run : Nat, item : Alerts]
  /\ cancelledNews \subseteq Nat /\ cancelledAlerts \subseteq Nat
  /\ offered \subseteq Alerts /\ accepted \subseteq Alerts /\ displayed \subseteq Alerts
  /\ issued \in Nat /\ faults \in Nat

\* The flags, and everything else, have their types.
TypeOK == FlagsOK /\ DataOK

Init ==
  /\ lifecycle = "off"
  /\ desiredOn = FALSE /\ displayRunning = FALSE
  /\ newsRunning = FALSE /\ alertRunning = FALSE
  /\ queuedAlerts = 0 /\ currentAlert = NoAlert /\ alerts = <<>>
  /\ newsRun = 0 /\ alertRun = 0
  /\ shuttingDown = FALSE /\ temporaryAlertDisplay = FALSE
  /\ newsStopping = FALSE /\ forceStopDisplay = FALSE
  /\ phase = "select" /\ attempt = 0
  /\ commands = <<>> /\ internal = {} /\ refreshNow = FALSE /\ appCancelled = FALSE
  /\ newsWorkers = {} /\ alertWorkers = {}
  /\ cancelledNews = {} /\ cancelledAlerts = {}
  /\ lit \in BOOLEAN              \* a previous process may have left the panel lit
  /\ offered = {} /\ accepted = {} /\ displayed = {}
  /\ issued = 0 /\ faults = 0

-----------------------------------------------------------------------------
(* Callers: request() and trySend() put a command in the channel.           *)

CommandOf(kind, desired, a) == [kind |-> kind, desired |-> desired, alert |-> a]

HasRoom_Bug == Len(commands) \leq CommandQueueCapacity
HasRoom == Len(commands) < CommandQueueCapacity

\* request blocks while the channel is full and gives up once the loop has gone.
Enqueue(c) ==
  /\ phase # "done"
  /\ HasRoom
  /\ commands' = Append(commands, c)

SendCommand(c) ==
  /\ issued < MaxCommands
  /\ issued' = issued + 1
  /\ Enqueue(c)
  /\ UNCHANGED <<statusVars, alerts, runVars, modeVars, loopVars, internal, refreshNow,
                 appCancelled, workerVars, cancelVars, lit, offered, accepted, displayed, faults>>

\* trySend drops the command instead of waiting.
DropCommand(c) ==
  /\ issued < MaxCommands
  /\ c.kind \notin KindsWithContext
  /\ phase # "done"
  /\ ~HasRoom
  /\ issued' = issued + 1
  /\ UNCHANGED <<statusVars, alerts, runVars, modeVars, loopVars, commands, internal, refreshNow,
                 appCancelled, workerVars, cancelVars, lit, offered, accepted, displayed, faults>>

SendAlert(a) ==
  /\ a \notin offered
  /\ offered' = offered \cup {a}
  /\ Enqueue(CommandOf("alert", FALSE, a))
  /\ UNCHANGED <<statusVars, alerts, runVars, modeVars, loopVars, internal, refreshNow,
                 appCancelled, workerVars, cancelVars, lit, issued, accepted, displayed, faults>>

\* SIGTERM cancels the root context, from which appCtx is derived (main.go).
Signal ==
  /\ ~appCancelled
  /\ appCancelled' = TRUE
  /\ UNCHANGED <<statusVars, alerts, runVars, modeVars, loopVars, commands, internal, refreshNow,
                 workerVars, cancelVars, lit, clientVars, accepted, displayed, faults>>

-----------------------------------------------------------------------------
(* Helpers of the handlers.                                                 *)

\* sendInternal: blocks while the channel is full, never drops.
Deliver_Bug(m) == IF internal = {} THEN {m} ELSE internal
Deliver(m) == internal \cup {m}

NewsMessage_Bug(kind, failed) == [kind |-> kind, run |-> newsRun + 1, failed |-> failed]
NewsMessage(kind, failed) == [kind |-> kind, run |-> newsRun, failed |-> failed]

StopNews_Bug ==
  IF newsRunning /\ ~newsStopping
  THEN newsStopping' = TRUE /\ UNCHANGED <<cancelledNews, internal>>
  ELSE UNCHANGED <<newsStopping, cancelledNews, internal>>

\* stopNews, its lifecycle aside: cancel the worker once and start the stop timer.
StopNews ==
  IF newsRunning /\ ~newsStopping
  THEN /\ newsStopping' = TRUE
       /\ cancelledNews' = cancelledNews \cup {newsRun}
       /\ internal' = Deliver(NewsMessage("newsStopTimedOut", FALSE))
  ELSE UNCHANGED <<newsStopping, cancelledNews, internal>>

LifecycleAfterStopNews_Bug == lifecycle
LifecycleAfterStopNews == IF newsRunning /\ ~newsStopping THEN "pausing" ELSE lifecycle

\* cancelAll: newsCancel # nil exactly when newsRunning, alertCancel when alertRunning.
CancelAll(scheduled) ==
  /\ StopNews
  /\ cancelledAlerts' = IF alertRunning THEN cancelledAlerts \cup {alertRun} ELSE cancelledAlerts
  /\ alerts' = <<>>
  /\ queuedAlerts' = 0
  /\ temporaryAlertDisplay' = FALSE
  /\ lifecycle' = IF scheduled THEN "stopping" ELSE LifecycleAfterStopNews

\* The loop takes the head of `commands'.
TakeCommand(kinds) ==
  /\ phase = "select"
  /\ commands # <<>>
  /\ Head(commands).kind \in kinds
  /\ commands' = Tail(commands)

\* The loop takes a message of `internal'.
TakeMessage(m) ==
  /\ phase = "select"
  /\ m \in internal
  /\ internal' = internal \ {m}

\* The cases that continue change nothing but the channel.
Ignore == UNCHANGED <<statusVars, alerts, runVars, modeVars, loopVars, refreshNow, appCancelled,
                      workerVars, cancelVars, lit, clientVars, accepted, displayed, faults>>

-----------------------------------------------------------------------------
(* The switch on the command kind.                                          *)

ReceiveExpired ==
  /\ TakeCommand(KindsWithContext)
  /\ Ignore /\ UNCHANGED internal

ReceiveSnapshot ==
  /\ TakeCommand({"snapshot"})
  /\ Ignore /\ UNCHANGED internal

ReceiveStart ==
  /\ TakeCommand({"start"})
  /\ desiredOn' = TRUE
  /\ phase' = "reconcile"
  /\ UNCHANGED <<lifecycle, displayRunning, newsRunning, alertRunning, queuedAlerts, currentAlert,
                 alerts, runVars, modeVars, attempt, internal, refreshNow, appCancelled, workerVars,
                 cancelVars, lit, clientVars, accepted, displayed, faults>>

ReceiveShutdown ==
  /\ TakeCommand({"shutdown"})
  /\ desiredOn' = FALSE
  /\ forceStopDisplay' = displayRunning
  /\ CancelAll(TRUE)
  /\ phase' = "reconcile"
  /\ UNCHANGED <<displayRunning, newsRunning, alertRunning, currentAlert, runVars, shuttingDown,
                 attempt, refreshNow, appCancelled, workerVars, lit, clientVars, accepted,
                 displayed, faults>>

ReceiveReconcile ==
  /\ TakeCommand({"reconcile"})
  /\ desiredOn' = Head(commands).desired
  /\ IF Head(commands).desired
     THEN UNCHANGED <<lifecycle, queueVars, newsStopping, forceStopDisplay, internal, cancelVars>>
     ELSE forceStopDisplay' = TRUE /\ CancelAll(TRUE)
  /\ phase' = "reconcile"
  /\ UNCHANGED <<displayRunning, newsRunning, alertRunning, currentAlert, runVars, shuttingDown,
                 attempt, refreshNow, appCancelled, workerVars, lit, clientVars, accepted,
                 displayed, faults>>

\* refreshNow holds one token: ticks during a pass coalesce.
ReceiveNewsPass ==
  /\ TakeCommand({"newsChanged", "newsPass"})
  /\ refreshNow' = (refreshNow \/ (newsRunning /\ ~newsStopping))
  /\ phase' = "reconcile"
  /\ UNCHANGED <<statusVars, alerts, runVars, modeVars, attempt, internal, appCancelled, workerVars,
                 cancelVars, lit, clientVars, accepted, displayed, faults>>

\* The head alert owns the display transition in progress and does not count as waiting.
WaitingBehind_Bug(queue) == Len(queue)
WaitingBehind(queue) == IF ~alertRunning /\ queue # <<>> THEN Len(queue) - 1 ELSE Len(queue)

AlertRefused_Bug ==
  \/ shuttingDown
  \/ ~desiredOn /\ ~AllowAlertsOutsideActiveWindow
  \/ Len(alerts) > AlertQueueCapacity

AlertRefused ==
  \/ shuttingDown
  \/ ~desiredOn /\ ~AllowAlertsOutsideActiveWindow
  \/ WaitingBehind(alerts) >= AlertQueueCapacity

RefuseAlert ==
  /\ TakeCommand({"alert"})
  /\ AlertRefused
  /\ Ignore /\ UNCHANGED internal

NeedsTemporaryDisplay_Bug == ~desiredOn /\ alerts = <<>>
NeedsTemporaryDisplay == temporaryAlertDisplay \/ ~desiredOn

AcceptAlert ==
  /\ TakeCommand({"alert"})
  /\ ~AlertRefused
  /\ alerts' = Append(alerts, Head(commands).alert)
  /\ queuedAlerts' = WaitingBehind(Append(alerts, Head(commands).alert))
  /\ temporaryAlertDisplay' = NeedsTemporaryDisplay
  /\ StopNews
  /\ lifecycle' = LifecycleAfterStopNews
  /\ accepted' = accepted \cup {Head(commands).alert}
  /\ phase' = "reconcile"
  /\ UNCHANGED <<desiredOn, displayRunning, newsRunning, alertRunning, currentAlert, runVars,
                 shuttingDown, forceStopDisplay, attempt, refreshNow, appCancelled, workerVars,
                 cancelledAlerts, lit, clientVars, displayed, faults>>

ReceiveStop ==
  /\ TakeCommand({"stop"})
  /\ shuttingDown' = TRUE
  /\ desiredOn' = FALSE
  /\ forceStopDisplay' = TRUE
  /\ CancelAll(FALSE)
  /\ appCancelled' = TRUE
  /\ phase' = "reconcile"
  /\ UNCHANGED <<displayRunning, newsRunning, alertRunning, currentAlert, runVars, attempt,
                 refreshNow, workerVars, lit, clientVars, accepted, displayed, faults>>

-----------------------------------------------------------------------------
(* The switch on the internal kinds.                                        *)

RetryIsMoot == ~desiredOn \/ shuttingDown \/ alertRunning \/ alerts # <<>>

IsStale(m) ==
  \/ m.kind \in {"newsStopped", "newsRetry"} /\ m.run # newsRun
  \/ m.kind = "alertFinished" /\ m.run # alertRun
  \/ m.kind = "newsRetry" /\ RetryIsMoot

IgnoreStaleMessage(m) ==
  /\ TakeMessage(m)
  /\ IsStale(m)
  /\ Ignore /\ UNCHANGED commands

\* A worker that failed in the window waits for its retry timer: no reconcile.
NewsFailed(m) ==
  /\ m.kind = "newsStopped" /\ m.run = newsRun
  /\ m.failed /\ desiredOn /\ ~shuttingDown
  /\ phase = "select"
  /\ m \in internal
  /\ internal' = (internal \ {m}) \cup {NewsMessage("newsRetry", FALSE)}
  /\ newsRunning' = FALSE
  /\ newsStopping' = FALSE
  /\ lifecycle' = "failed"
  /\ UNCHANGED <<desiredOn, displayRunning, alertRunning, queuedAlerts, currentAlert, alerts,
                 runVars, shuttingDown, temporaryAlertDisplay, forceStopDisplay, loopVars, commands,
                 refreshNow, appCancelled, workerVars, cancelVars, lit, clientVars, accepted,
                 displayed, faults>>

NewsStopped(m) ==
  /\ m.kind = "newsStopped" /\ m.run = newsRun
  /\ ~(m.failed /\ desiredOn /\ ~shuttingDown)
  /\ TakeMessage(m)
  /\ newsRunning' = FALSE
  /\ newsStopping' = FALSE
  /\ phase' = "reconcile"
  /\ UNCHANGED <<lifecycle, desiredOn, displayRunning, alertRunning, queuedAlerts, currentAlert,
                 alerts, runVars, shuttingDown, temporaryAlertDisplay, forceStopDisplay, attempt,
                 commands, refreshNow, appCancelled, workerVars, cancelVars, lit, clientVars,
                 accepted, displayed, faults>>

\* Also a timer of a former run goes on to reconcile.
NewsStopTimedOut(m) ==
  /\ m.kind = "newsStopTimedOut"
  /\ PromptResults => \A n \in internal : ~(n.kind = "newsStopped" /\ n.run = m.run)
  /\ TakeMessage(m)
  /\ lifecycle' = IF m.run = newsRun /\ newsRunning THEN "failed" ELSE lifecycle
  /\ phase' = "reconcile"
  /\ UNCHANGED <<desiredOn, displayRunning, newsRunning, alertRunning, queuedAlerts, currentAlert,
                 alerts, runVars, modeVars, attempt, commands, refreshNow, appCancelled, workerVars,
                 cancelVars, lit, clientVars, accepted, displayed, faults>>

NewsRetry(m) ==
  /\ m.kind = "newsRetry" /\ m.run = newsRun
  /\ ~RetryIsMoot
  /\ TakeMessage(m)
  /\ phase' = "reconcile"
  /\ UNCHANGED <<statusVars, alerts, runVars, modeVars, attempt, commands, refreshNow, appCancelled,
                 workerVars, cancelVars, lit, clientVars, accepted, displayed, faults>>

AlertFinished(m) ==
  /\ m.kind = "alertFinished" /\ m.run = alertRun
  /\ TakeMessage(m)
  /\ alertRunning' = FALSE
  /\ currentAlert' = NoAlert
  /\ phase' = "reconcile"
  /\ UNCHANGED <<lifecycle, desiredOn, displayRunning, newsRunning, queuedAlerts, alerts, runVars,
                 modeVars, attempt, commands, refreshNow, appCancelled, workerVars, cancelVars, lit,
                 clientVars, accepted, displayed, faults>>

-----------------------------------------------------------------------------
(* reconcile, and the end of the loop body.                                 *)

WantDisplay == desiredOn \/ (temporaryAlertDisplay /\ (alertRunning \/ alerts # <<>>))

WorkersRunning_Bug == newsRunning \/ (alertRunning /\ ~appCancelled)
WorkersRunning == newsRunning \/ alertRunning

Reconciling == phase = "reconcile" /\ ~shuttingDown

EndOfBody == phase' = "select" /\ attempt' = 0

\* display.Stop: clear, then backlight 0 (kindledisplay/controller.go:62-78).
StopDisplay(ok) ==
  IF ok
  THEN /\ displayRunning' = FALSE
       /\ forceStopDisplay' = FALSE
       /\ lit' = FALSE
       /\ UNCHANGED faults
  ELSE /\ faults < MaxFaults
       /\ faults' = faults + 1
       /\ lit' \in BOOLEAN /\ (lit' => lit)
       /\ UNCHANGED <<displayRunning, forceStopDisplay>>

\* Unwanted display, a worker still running: cancel and wait for its message.
ReconcileCancel ==
  /\ Reconciling /\ ~WantDisplay
  /\ WorkersRunning
  /\ CancelAll(TRUE)
  /\ EndOfBody
  /\ UNCHANGED <<desiredOn, displayRunning, newsRunning, alertRunning, currentAlert, runVars,
                 shuttingDown, forceStopDisplay, commands, refreshNow, appCancelled, workerVars,
                 lit, clientVars, accepted, displayed, faults>>

\* Unwanted display, nothing running: stop it if it runs or a stop was asked for.
ReconcileOff(ok) ==
  /\ Reconciling /\ ~WantDisplay
  /\ ~WorkersRunning
  /\ IF displayRunning \/ forceStopDisplay
     THEN StopDisplay(ok)
     ELSE ok /\ UNCHANGED <<displayVars, faults>>
  /\ alerts' = <<>> /\ queuedAlerts' = 0 /\ temporaryAlertDisplay' = FALSE
  /\ lifecycle' = IF ok THEN "off" ELSE "failed"
  /\ EndOfBody
  /\ UNCHANGED <<desiredOn, newsRunning, alertRunning, currentAlert, runVars, shuttingDown,
                 newsStopping, commands, internal, refreshNow, appCancelled, workerVars, cancelVars,
                 clientVars, accepted, displayed>>

\* startDisplay, an attempt that succeeds: reconcile goes on with the display running.
StartDisplay ==
  /\ Reconciling /\ WantDisplay /\ ~displayRunning
  /\ ~appCancelled
  /\ lifecycle' = "starting"
  /\ displayRunning' = TRUE
  /\ lit' = TRUE
  /\ attempt' = 0
  /\ UNCHANGED <<desiredOn, newsRunning, alertRunning, queuedAlerts, currentAlert, alerts, runVars,
                 modeVars, phase, commands, internal, refreshNow, appCancelled, workerVars,
                 cancelVars, clientVars, accepted, displayed, faults>>

\* startDisplay, an attempt that fails, perhaps after the backlight command took
\* effect.  No retry after the last attempt or once appCtx is cancelled.
StartDisplayFails ==
  /\ Reconciling /\ WantDisplay /\ ~displayRunning
  /\ IF appCancelled
     THEN UNCHANGED <<lit, faults>>
     ELSE faults < MaxFaults /\ faults' = faults + 1 /\ lit' \in BOOLEAN /\ (lit => lit')
  /\ IF appCancelled \/ attempt + 1 = StartupRetryCount
     THEN lifecycle' = "failed" /\ EndOfBody
     ELSE lifecycle' = "starting" /\ attempt' = attempt + 1 /\ UNCHANGED phase
  /\ UNCHANGED <<desiredOn, displayRunning, newsRunning, alertRunning, queuedAlerts, currentAlert,
                 alerts, runVars, modeVars, commands, internal, refreshNow, appCancelled,
                 workerVars, cancelVars, clientVars, accepted, displayed>>

ReadyToPaint == Reconciling /\ WantDisplay /\ displayRunning

ReconcileAlerting ==
  /\ ReadyToPaint /\ alertRunning
  /\ lifecycle' = "alerting"
  /\ EndOfBody
  /\ UNCHANGED <<desiredOn, displayRunning, newsRunning, alertRunning, queuedAlerts, currentAlert,
                 alerts, runVars, modeVars, commands, internal, refreshNow, appCancelled,
                 workerVars, cancelVars, lit, clientVars, accepted, displayed, faults>>

NewsInTheWay_Bug == newsRunning /\ ~newsStopping
NewsInTheWay == newsRunning

\* An alert waits for the news worker to stop.
ReconcilePause ==
  /\ ReadyToPaint /\ ~alertRunning /\ alerts # <<>>
  /\ NewsInTheWay
  /\ StopNews
  /\ lifecycle' = "pausing"
  /\ EndOfBody
  /\ UNCHANGED <<desiredOn, displayRunning, newsRunning, alertRunning, queuedAlerts, currentAlert,
                 alerts, runVars, shuttingDown, temporaryAlertDisplay, forceStopDisplay, commands,
                 refreshNow, appCancelled, workerVars, cancelledAlerts, lit, clientVars, accepted,
                 displayed, faults>>

\* startAlert: pop the head and start its goroutine.
ReconcileStartAlert ==
  /\ ReadyToPaint /\ ~alertRunning /\ alerts # <<>>
  /\ ~NewsInTheWay
  /\ alerts' = Tail(alerts)
  /\ queuedAlerts' = Len(alerts) - 1
  /\ alertRun' = alertRun + 1
  /\ alertRunning' = TRUE
  /\ currentAlert' = Head(alerts)
  /\ alertWorkers' = alertWorkers \cup {[run |-> alertRun + 1, item |-> Head(alerts)]}
  /\ lifecycle' = "alerting"
  /\ EndOfBody
  /\ UNCHANGED <<desiredOn, displayRunning, newsRunning, newsRun, modeVars, commands, internal,
                 refreshNow, appCancelled, newsWorkers, cancelVars, lit, clientVars, accepted,
                 displayed, faults>>

\* The last alert of a temporary display is over: the display goes off again.  With no
\* alert left only desiredOn wants the display, so that this is a display the window
\* has meanwhile claimed; outside the window ReconcileOff switches it off.
ReconcileEndTemporary(ok) ==
  /\ ReadyToPaint /\ ~alertRunning /\ alerts = <<>>
  /\ temporaryAlertDisplay
  /\ temporaryAlertDisplay' = FALSE
  /\ StopDisplay(ok)
  /\ lifecycle' = IF ok THEN "off" ELSE "failed"
  /\ EndOfBody
  /\ UNCHANGED <<desiredOn, newsRunning, alertRunning, queuedAlerts, currentAlert, alerts, runVars,
                 shuttingDown, newsStopping, commands, internal, refreshNow, appCancelled,
                 workerVars, cancelVars, clientVars, accepted, displayed>>

\* startNews: a new run with a context of its own.
ReconcileStartNews ==
  /\ ReadyToPaint /\ ~alertRunning /\ alerts = <<>> /\ ~temporaryAlertDisplay
  /\ desiredOn /\ ~newsRunning
  /\ newsRun' = newsRun + 1
  /\ newsRunning' = TRUE
  /\ newsStopping' = FALSE
  /\ newsWorkers' = newsWorkers \cup {newsRun + 1}
  /\ lifecycle' = "running"
  /\ EndOfBody
  /\ UNCHANGED <<desiredOn, displayRunning, alertRunning, queuedAlerts, currentAlert, alerts,
                 alertRun, shuttingDown, temporaryAlertDisplay, forceStopDisplay, commands, internal,
                 refreshNow, appCancelled, alertWorkers, cancelVars, lit, clientVars, accepted,
                 displayed, faults>>

ReconcileNothing ==
  /\ ReadyToPaint /\ ~alertRunning /\ alerts = <<>> /\ ~temporaryAlertDisplay
  /\ newsRunning
  /\ EndOfBody
  /\ UNCHANGED <<statusVars, alerts, runVars, modeVars, commands, internal, refreshNow,
                 appCancelled, workerVars, cancelVars, lit, clientVars, accepted, displayed, faults>>

\* Shutting down: the loop goes on until both workers have reported.
AwaitWorkers ==
  /\ phase = "reconcile" /\ shuttingDown
  /\ WorkersRunning
  /\ EndOfBody
  /\ UNCHANGED <<statusVars, alerts, runVars, modeVars, commands, internal, refreshNow,
                 appCancelled, workerVars, cancelVars, lit, clientVars, accepted, displayed, faults>>

\* The last act of the loop: stop the display, publish the result, close done.
StopLoop(ok) ==
  /\ phase = "reconcile" /\ shuttingDown
  /\ ~WorkersRunning
  /\ StopDisplay(ok)
  /\ lifecycle' = IF ok THEN lifecycle ELSE "failed"
  /\ phase' = "done" /\ attempt' = 0
  /\ UNCHANGED <<desiredOn, newsRunning, alertRunning, queuedAlerts, currentAlert, alerts, runVars,
                 shuttingDown, temporaryAlertDisplay, newsStopping, commands, internal, refreshNow,
                 appCancelled, workerVars, cancelVars, clientVars, accepted, displayed>>

-----------------------------------------------------------------------------
(* The goroutines.                                                          *)

\* The news worker takes the token to start, or to repeat, a pass; a cancelled one
\* may still win its select with it.
TakeRefresh ==
  /\ refreshNow
  /\ newsWorkers # {}
  /\ refreshNow' = FALSE
  /\ UNCHANGED <<statusVars, alerts, runVars, modeVars, loopVars, commands, internal, appCancelled,
                 workerVars, cancelVars, lit, clientVars, accepted, displayed, faults>>

\* The worker's clock sets the front light before it paints (initializeClock).
ClockLights ==
  /\ newsWorkers # {}
  /\ ~lit
  /\ lit' = TRUE
  /\ UNCHANGED <<statusVars, alerts, runVars, modeVars, loopVars, commands, internal, refreshNow,
                 appCancelled, workerVars, cancelVars, clientVars, accepted, displayed, faults>>

\* The stop timer of run r has not fired.
StopTimerRuns(r) == \E m \in internal : m.kind = "newsStopTimedOut" /\ m.run = r

\* Worker.Run returns ctx.Err() once it sees its context done; a failure of the pass or
\* of the clock ends it too, and one of the moment of the cancellation may still win the
\* worker's select: such a result is prompt.
NewsExit(r, failed) ==
  /\ r \in newsWorkers
  /\ IF failed
     THEN /\ PromptResults /\ r \in cancelledNews => StopTimerRuns(r)
          /\ faults < MaxFaults
          /\ faults' = faults + 1
     ELSE /\ r \in cancelledNews \/ (appCancelled /\ r < MaxNewsRuns)
          /\ UNCHANGED faults
  /\ newsWorkers' = newsWorkers \ {r}
  /\ internal' = Deliver([kind |-> "newsStopped", run |-> r, failed |-> failed])
  /\ UNCHANGED <<statusVars, alerts, runVars, modeVars, loopVars, commands, refreshNow,
                 appCancelled, alertWorkers, cancelVars, lit, clientVars, accepted, displayed>>

AlertCancelled(w) == appCancelled \/ w.run \in cancelledAlerts

\* alert.Run: presenter.Show succeeded.
AlertShow(w) ==
  /\ w \in alertWorkers
  /\ w.item \notin displayed
  /\ ~AlertCancelled(w)
  /\ displayed' = displayed \cup {w.item}
  /\ UNCHANGED <<statusVars, alerts, runVars, modeVars, loopVars, commands, internal, refreshNow,
                 appCancelled, workerVars, cancelVars, lit, clientVars, accepted, faults>>

\* alert.Run returns: Show failed, the hold ended or the context was cancelled.
AlertExit(w) ==
  /\ w \in alertWorkers
  /\ IF w.item \in displayed \/ AlertCancelled(w)
     THEN UNCHANGED faults
     ELSE faults < MaxFaults /\ faults' = faults + 1
  /\ alertWorkers' = alertWorkers \ {w}
  /\ internal' = Deliver([kind |-> "alertFinished", run |-> w.run, failed |-> FALSE])
  /\ UNCHANGED <<statusVars, alerts, runVars, modeVars, loopVars, commands, refreshNow,
                 appCancelled, newsWorkers, cancelVars, lit, clientVars, accepted, displayed>>

-----------------------------------------------------------------------------
Clients == \/ \E c \in ClientCommands : SendCommand(c) \/ DropCommand(c)
           \/ \E a \in Alerts : SendAlert(a)
           \/ Signal

ReceiveCommand == \/ ReceiveExpired \/ ReceiveSnapshot
                  \/ ReceiveStart \/ ReceiveShutdown \/ ReceiveReconcile \/ ReceiveNewsPass
                  \/ RefuseAlert \/ AcceptAlert \/ ReceiveStop

ReceiveMessage == \E m \in internal :
                     \/ IgnoreStaleMessage(m)
                     \/ NewsFailed(m) \/ NewsStopped(m) \/ NewsStopTimedOut(m) \/ NewsRetry(m)
                     \/ AlertFinished(m)

Reconcile == \/ ReconcileCancel
             \/ \E ok \in BOOLEAN : ReconcileOff(ok) \/ ReconcileEndTemporary(ok) \/ StopLoop(ok)
             \/ StartDisplay \/ StartDisplayFails
             \/ ReconcileAlerting \/ ReconcilePause \/ ReconcileStartAlert
             \/ ReconcileStartNews \/ ReconcileNothing
             \/ AwaitWorkers

Workers == \/ TakeRefresh \/ ClockLights
           \/ \E r \in newsWorkers, failed \in BOOLEAN : NewsExit(r, failed)
           \/ \E w \in alertWorkers : AlertShow(w) \/ AlertExit(w)

Next == Clients \/ ReceiveCommand \/ ReceiveMessage \/ Reconcile \/ Workers

Spec == Init /\ [][Next]_vars

-----------------------------------------------------------------------------
(* Safety.                                                                  *)

\* At most one goroutine paints the panel ("no competing writers"): a news worker and
\* an alert are never alive together, nor two of either, whatever is cancelled,
\* restarted or still unwinding.
OnePainter ==
  /\ newsWorkers = {} \/ alertWorkers = {}
  /\ \A r1, r2 \in newsWorkers : r1 = r2
  /\ \A w1, w2 \in alertWorkers : w1 = w2

\* Once done is closed nothing the supervisor started is alive.
DoneMeansStopped == phase = "done" => newsWorkers = {} /\ alertWorkers = {}

\* A goroutine that paints is the one the supervisor's flags and run numbers name, and
\* paints on a display that runs; Stop leaves none behind.
PaintersOwnDisplay ==
  /\ newsWorkers # {} => newsRunning /\ newsWorkers = {newsRun}
  /\ \A w \in alertWorkers : alertRunning /\ w.run = alertRun /\ w.item = currentAlert
  /\ newsWorkers # {} \/ alertWorkers # {} => displayRunning
  /\ DoneMeansStopped

\* A run the supervisor believes in is alive or its result is on the way: no result is
\* lost, so that no flag stays set for ever.
RunsAreAccountedFor ==
  /\ newsRunning => \/ newsRun \in newsWorkers
                    \/ \E m \in internal : m.kind = "newsStopped" /\ m.run = newsRun
  /\ alertRunning => \/ \E w \in alertWorkers : w.run = alertRun
                     \/ \E m \in internal : m.kind = "alertFinished" /\ m.run = alertRun

\* Between two messages GetStatus is true: the lifecycle tells what runs, and the queue
\* depth is the number of alerts behind the one being shown or about to be, which never
\* exceeds the configured capacity.
StatusTellsTheTruth ==
  phase = "select" =>
    /\ queuedAlerts = Len(alerts) - (IF ~alertRunning /\ alerts # <<>> THEN 1 ELSE 0)
    /\ queuedAlerts \leq AlertQueueCapacity
    /\ lifecycle = "off" => ~displayRunning /\ ~newsRunning /\ ~alertRunning /\ alerts = <<>>
    /\ lifecycle = "running" => newsRunning /\ ~newsStopping
    /\ lifecycle = "alerting" => alertRunning
    /\ lifecycle = "pausing" => newsRunning /\ newsStopping
    /\ lifecycle = "stopping" => newsRunning \/ alertRunning
    /\ lifecycle # "starting"

\* The results on their way to the loop.
NewsResults == {m \in internal : m.kind = "newsStopped"}
AlertResults == {m \in internal : m.kind = "alertFinished"}

\* No news run; or the current one is alive; or its result is on the way.
NewsInv ==
  \/ ~newsRunning /\ newsWorkers = {} /\ NewsResults = {}
  \/ newsRunning /\ newsWorkers = {newsRun} /\ NewsResults = {}
  \/ /\ newsRunning /\ newsWorkers = {}
     /\ \E failed \in BOOLEAN :
          NewsResults = {[kind |-> "newsStopped", run |-> newsRun, failed |-> failed]}

\* The same of the alert.
AlertInv ==
  \/ ~alertRunning /\ alertWorkers = {} /\ AlertResults = {}
  \/ /\ alertRunning /\ AlertResults = {}
     /\ alertWorkers = {[run |-> alertRun, item |-> currentAlert]}
  \/ /\ alertRunning /\ alertWorkers = {}
     /\ AlertResults = {[kind |-> "alertFinished", run |-> alertRun, failed |-> FALSE]}

\* What the two have to do with each other and with the display.
PanelInv ==
  /\ ~(newsRunning /\ alertRunning)
  /\ newsRunning \/ alertRunning => displayRunning
  /\ temporaryAlertDisplay /\ newsRunning => alerts # <<>>
  /\ phase = "done" => ~newsRunning /\ ~alertRunning

\* The invariant behind the safety properties: flags, goroutines, undelivered results
\* and the display agree in every state, so that exactly one result per run is awaited.
OwnershipInv == NewsInv /\ AlertInv /\ PanelInv

\* reconcile takes an accepted alert out of the queue only to present it, the oldest
\* first; alerts are given up by commands that end the window or the service alone.
ReconcileKeepsAlerts ==
  [][phase = "reconcile" /\ alerts' # alerts =>
       alerts' = Tail(alerts) /\ alertRunning' /\ currentAlert' = Head(alerts)]_vars

\* The loop never switches the display off or on under a goroutine that paints.
DisplaySwitchedAlone ==
  [][displayRunning' # displayRunning \/ (lit /\ ~lit') =>
       newsWorkers = {} /\ alertWorkers = {}]_vars

\* The loop, its channels and goroutines together are the FIFO of alerts the README
\* promises: accepted alerts own the screen one at a time, in order, once.
Fifo == INSTANCE AlertQueue WITH
          Capacity <- AlertQueueCapacity,
          waiting  <- alerts,
          onScreen <- {w.item : w \in alertWorkers},
          taken    <- accepted

AlertFifo == Fifo!Spec

-----------------------------------------------------------------------------
(* Liveness.                                                                *)

\* The loop's goroutine is scheduled, select serves both channels sooner or later,
\* timers fire, and a goroutine whose context is cancelled or whose hold is over
\* returns.  Nothing is assumed of clients, nor that a healthy worker stops.  Weak
\* fairness is enough: the bounds make every behaviour finite, so that a message which
\* is never taken would stay takeable for ever.
Fairness ==
  /\ WF_vars(ReceiveCommand)
  /\ WF_vars(ReceiveMessage)
  /\ WF_vars(Reconcile)
  /\ WF_vars(\E r \in newsWorkers : NewsExit(r, FALSE))
  /\ WF_vars(\E w \in alertWorkers : AlertShow(w))
  /\ WF_vars(\E w \in alertWorkers : AlertExit(w))

LiveSpec == Spec /\ Fairness

Waiting(a) == \E i \in DOMAIN alerts : alerts[i] = a

\* Stop() ends: once it is accepted the workers unwind, whatever they were doing, and
\* the loop closes done.
StopCompletes == shuttingDown ~> phase = "done"

\* startDisplay failed finally and the status says so.  No timer tries again: the loop
\* waits for its next command.
StartGivenUp == phase = "select" /\ lifecycle = "failed" /\ ~displayRunning

\* display.Stop failed, nothing runs, and the status says so.
StopGivenUp == phase # "reconcile" /\ lifecycle = "failed" /\ ~newsRunning /\ ~alertRunning

\* An accepted alert does not wait for ever, behind news that must stop, behind other
\* alerts or behind a display that must start: it leaves the queue unless the display
\* finally failed to start, which the status reports.  After the signal it waits for
\* Stop.
AlertsLeaveQueue ==
  \A a \in Alerts : Waiting(a) ~> ~Waiting(a) \/ StartGivenUp \/ appCancelled

\* Nobody paints in the window, and the loop reconciles or believes in a worker that
\* has ended.  A temporary display is left out: WindowKeepsDisplayOn is about it.
IdleInWindow ==
  /\ desiredOn /\ ~temporaryAlertDisplay
  /\ newsWorkers = {} /\ alertWorkers = {}
  /\ phase = "reconcile" \/ newsRunning \/ alertRunning

\* Inside the window the panel does not stay idle: after failed workers and their
\* retries, alerts, and starts that fail now and then, a news worker (which keeps the
\* clock) or an alert paints again; or the display finally failed to start, which the
\* status reports.
WindowIsServed ==
  IdleInWindow ~> \/ newsWorkers # {} \/ alertWorkers # {}
                  \/ ~desiredOn
                  \/ StartGivenUp
                  \/ appCancelled

\* A display that runs outside the window, left by the window or switched on for an
\* alert, goes off and its panel dark, whatever worker is still to end; or a failure
\* to stop it is the last thing the status reports.
WindowEndsDark ==
  ~desiredOn /\ displayRunning
    ~> \/ desiredOn
       \/ ~displayRunning /\ ~lit
       \/ StopGivenUp

-----------------------------------------------------------------------------
(* What the documentation says and the code does not do.                    *)

\* "While the service is inside the active window [...] the Kindle shows a live
\* updating clock": between messages the display is not off in the window.
WindowKeepsDisplayOn ==
  phase = "select" /\ desiredOn /\ ~appCancelled => lifecycle # "off"

\* "At the scheduled stop the service clears the e-ink panel and sets brightness to 0":
\* a reconcile that ends in lifecycle off leaves the panel dark.
OffMeansDark == [][phase = "reconcile" /\ lifecycle' = "off" => ~lit']_vars

=============================================================================
