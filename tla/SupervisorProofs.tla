-------------------------- MODULE SupervisorProofs --------------------------
(***************************************************************************)
(* Theorems about Supervisor: type correctness, and the ownership of the   *)
(* panel by at most one goroutine, for every set of alerts, every capacity *)
(* and every bound.                                                        *)
(*                                                                         *)
(* The flags are kept apart from the other data: their steps need first    *)
(* order reasoning on Booleans, the others sets, sequences and arithmetic. *)
(***************************************************************************)
EXTENDS Supervisor, FiniteSetTheorems, TLAPS

USE DEF statusVars, queueVars, runVars, modeVars, loopVars, displayVars, workerVars,
        cancelVars, clientVars

-----------------------------------------------------------------------------
(* Types.                                                                   *)

\* A message of the current run is a message.
LEMMA NewsMessageType ==
  ASSUME newsRun \in Nat,
         NEW kind \in {"newsStopTimedOut", "newsRetry"}
  PROVE  NewsMessage(kind, FALSE) \in Message
  BY DEF NewsMessage, Message

\* Stopping the news worker keeps the types of what it changes.
LEMMA StopNewsTypes ==
  ASSUME DataOK, StopNews
  PROVE  /\ cancelledNews' \subseteq Nat
         /\ internal' \subseteq Message
         /\ LifecycleAfterStopNews \in Lifecycles
<1>1. NewsMessage("newsStopTimedOut", FALSE) \in Message
  BY NewsMessageType DEF DataOK
<1> QED BY <1>1 DEF StopNews, LifecycleAfterStopNews, Deliver, DataOK, Lifecycles

\* What cancelling everything leaves well typed.
CancelAllTyped ==
  /\ cancelledNews' \subseteq Nat /\ cancelledAlerts' \subseteq Nat
  /\ internal' \subseteq Message
  /\ alerts' \in Seq(Alerts)
  /\ queuedAlerts' \in Nat
  /\ lifecycle' \in Lifecycles

\* Cancelling everything keeps the types too.
LEMMA CancelAllTypes ==
  ASSUME DataOK, NEW scheduled, CancelAll(scheduled)
  PROVE  CancelAllTyped
<1>1. StopNews BY DEF CancelAll
<1>2. alerts' \in Seq(Alerts) BY DEF CancelAll
<1> QED BY <1>1, <1>2, StopNewsTypes DEF CancelAll, CancelAllTyped, DataOK, Lifecycles

\* A command taken from the queue leaves a queue of commands, no longer than it was.
LEMMA TakenCommand ==
  ASSUME DataOK, NEW kinds, TakeCommand(kinds)
  PROVE  /\ Head(commands) \in Command
         /\ commands' \in Seq(Command)
         /\ Len(commands') \leq CommandQueueCapacity
  BY ConfigAssumption DEF DataOK, TakeCommand

\* The head of the queue, when taken as an alert command, carries an alert.
LEMMA TakenAlert ==
  ASSUME DataOK, TakeCommand({"alert"})
  PROVE  Head(commands).alert \in Alerts
<1>1. Head(commands) \in Command /\ Head(commands).kind = "alert"
  BY TakenCommand DEF TakeCommand
<1> QED BY <1>1 DEF Command, PlainCommand, AlertCommand

\* A command of the instance, or one that carries an alert, is a command.
LEMMA CommandTypes ==
  /\ \A c \in ClientCommands : c \in Command
  /\ \A a \in Alerts : CommandOf("alert", FALSE, a) \in Command
  BY BoundsAssumption DEF CommandOf, Command, AlertCommand

\* Putting a command in the channel keeps the channel's type and bound.
LEMMA EnqueueTypes ==
  ASSUME DataOK, NEW c \in Command, Enqueue(c)
  PROVE  /\ commands' \in Seq(Command)
         /\ Len(commands') \leq CommandQueueCapacity
  BY ConfigAssumption DEF DataOK, Enqueue, HasRoom

\* The results of the two kinds of goroutine are messages.
LEMMA ResultTypes ==
  ASSUME NEW r \in Nat, NEW failed \in BOOLEAN
  PROVE  /\ [kind |-> "newsStopped", run |-> r, failed |-> failed] \in Message
         /\ [kind |-> "alertFinished", run |-> r, failed |-> FALSE] \in Message
  BY DEF Message

\* Every step keeps the flags Boolean.
LEMMA FlagsStep == TypeOK /\ [Next]_vars => FlagsOK'
<1> SUFFICES ASSUME FlagsOK, DataOK, [Next]_vars PROVE FlagsOK'
  BY DEF TypeOK
<1>1. ASSUME Next PROVE FlagsOK'
<2>1. ASSUME NEW c \in ClientCommands, SendCommand(c) PROVE FlagsOK'
  BY <2>1 DEF FlagsOK, SendCommand
<2>2. ASSUME NEW c \in ClientCommands, DropCommand(c) PROVE FlagsOK'
  BY <2>2 DEF FlagsOK, DropCommand
<2>3. ASSUME NEW a \in Alerts, SendAlert(a) PROVE FlagsOK'
  BY <2>3 DEF FlagsOK, SendAlert
<2>4. CASE Signal
  BY <2>4 DEF FlagsOK, Signal
<2>5. CASE ReceiveExpired
  BY <2>5 DEF FlagsOK, ReceiveExpired, Ignore
<2>6. CASE ReceiveSnapshot
  BY <2>6 DEF FlagsOK, ReceiveSnapshot, Ignore
<2>7. CASE ReceiveStart
  BY <2>7 DEF FlagsOK, ReceiveStart
<2>8. CASE ReceiveShutdown
  BY <2>8 DEF FlagsOK, ReceiveShutdown, CancelAll, StopNews
<2>9. CASE ReceiveReconcile
  <3>1. Head(commands).desired \in BOOLEAN
    BY <2>9, TakenCommand DEF ReceiveReconcile, Command, PlainCommand, AlertCommand
  <3>2. CASE Head(commands).desired
    BY <2>9, <3>1, <3>2, Zenon DEF FlagsOK, ReceiveReconcile
  <3>3. CASE ~Head(commands).desired
    BY <2>9, <3>1, <3>3, Zenon DEF FlagsOK, ReceiveReconcile, CancelAll, StopNews
  <3> QED BY <3>2, <3>3
<2>10. CASE ReceiveNewsPass
  BY <2>10 DEF FlagsOK, ReceiveNewsPass
<2>11. CASE RefuseAlert
  BY <2>11 DEF FlagsOK, RefuseAlert, Ignore
<2>12. CASE AcceptAlert
  BY <2>12 DEF FlagsOK, AcceptAlert, StopNews, NeedsTemporaryDisplay
<2>13. CASE ReceiveStop
  BY <2>13 DEF FlagsOK, ReceiveStop, CancelAll, StopNews
<2>14. ASSUME NEW m \in internal, IgnoreStaleMessage(m) PROVE FlagsOK'
  BY <2>14 DEF FlagsOK, IgnoreStaleMessage, Ignore
<2>15. ASSUME NEW m \in internal, NewsFailed(m) PROVE FlagsOK'
  BY <2>15 DEF FlagsOK, NewsFailed
<2>16. ASSUME NEW m \in internal, NewsStopped(m) PROVE FlagsOK'
  BY <2>16 DEF FlagsOK, NewsStopped
<2>17. ASSUME NEW m \in internal, NewsStopTimedOut(m) PROVE FlagsOK'
  BY <2>17 DEF FlagsOK, NewsStopTimedOut
<2>18. ASSUME NEW m \in internal, NewsRetry(m) PROVE FlagsOK'
  BY <2>18 DEF FlagsOK, NewsRetry
<2>19. ASSUME NEW m \in internal, AlertFinished(m) PROVE FlagsOK'
  BY <2>19 DEF FlagsOK, AlertFinished
<2>20. CASE ReconcileCancel
  BY <2>20 DEF FlagsOK, ReconcileCancel, CancelAll, StopNews, EndOfBody
<2>21. ASSUME NEW ok \in BOOLEAN, ReconcileOff(ok) PROVE FlagsOK'
  BY <2>21 DEF FlagsOK, ReconcileOff, StopDisplay, EndOfBody
<2>22. ASSUME NEW ok \in BOOLEAN, ReconcileEndTemporary(ok) PROVE FlagsOK'
  BY <2>22 DEF FlagsOK, ReconcileEndTemporary, StopDisplay, EndOfBody
<2>23. ASSUME NEW ok \in BOOLEAN, StopLoop(ok) PROVE FlagsOK'
  BY <2>23 DEF FlagsOK, StopLoop, StopDisplay
<2>24. CASE StartDisplay
  BY <2>24 DEF FlagsOK, StartDisplay
<2>25. CASE StartDisplayFails
  BY <2>25 DEF FlagsOK, StartDisplayFails, EndOfBody
<2>26. CASE ReconcileAlerting
  BY <2>26 DEF FlagsOK, ReconcileAlerting, EndOfBody
<2>27. CASE ReconcilePause
  BY <2>27 DEF FlagsOK, ReconcilePause, StopNews, EndOfBody
<2>28. CASE ReconcileStartAlert
  BY <2>28 DEF FlagsOK, ReconcileStartAlert, EndOfBody
<2>29. CASE ReconcileStartNews
  BY <2>29 DEF FlagsOK, ReconcileStartNews, EndOfBody
<2>30. CASE ReconcileNothing
  BY <2>30 DEF FlagsOK, ReconcileNothing, EndOfBody
<2>31. CASE AwaitWorkers
  BY <2>31 DEF FlagsOK, AwaitWorkers, EndOfBody
<2>32. CASE TakeRefresh
  BY <2>32 DEF FlagsOK, TakeRefresh
<2>33. CASE ClockLights
  BY <2>33 DEF FlagsOK, ClockLights
<2>34. ASSUME NEW r \in newsWorkers, NEW failed \in BOOLEAN, NewsExit(r, failed) PROVE FlagsOK'
  BY <2>34 DEF FlagsOK, NewsExit
<2>35. ASSUME NEW w \in alertWorkers, AlertShow(w) PROVE FlagsOK'
  BY <2>35 DEF FlagsOK, AlertShow
<2>36. ASSUME NEW w \in alertWorkers, AlertExit(w) PROVE FlagsOK'
  BY <2>36 DEF FlagsOK, AlertExit
<2> QED BY <1>1, <2>1, <2>2, <2>3, <2>4, <2>5, <2>6, <2>7, <2>8, <2>9, <2>10, <2>11, <2>12,
     <2>13, <2>14, <2>15, <2>16, <2>17, <2>18, <2>19, <2>20, <2>21, <2>22, <2>23, <2>24, <2>25,
     <2>26, <2>27, <2>28, <2>29, <2>30, <2>31, <2>32, <2>33, <2>34, <2>35, <2>36
       DEF Next, Clients, ReceiveCommand, ReceiveMessage, Reconcile, Workers
<1>2. CASE UNCHANGED vars
  BY <1>2 DEF vars, FlagsOK
<1> QED BY <1>1, <1>2

\* Every step keeps the types of the other variables.
LEMMA DataStep == TypeOK /\ [Next]_vars => DataOK'
<1> SUFFICES ASSUME FlagsOK, DataOK, [Next]_vars PROVE DataOK'
  BY DEF TypeOK
<1> USE ConfigAssumption, BoundsAssumption DEF Lifecycles
<1>1. ASSUME Next PROVE DataOK'
<2>1. ASSUME NEW c \in ClientCommands, SendCommand(c) PROVE DataOK'
  BY <2>1, CommandTypes, EnqueueTypes DEF DataOK, SendCommand
<2>2. ASSUME NEW c \in ClientCommands, DropCommand(c) PROVE DataOK'
  BY <2>2 DEF DataOK, DropCommand
<2>3. ASSUME NEW a \in Alerts, SendAlert(a) PROVE DataOK'
  <3>1. CommandOf("alert", FALSE, a) \in Command
    BY CommandTypes
  <3> QED BY <2>3, <3>1, EnqueueTypes DEF DataOK, SendAlert
<2>4. CASE Signal
  BY <2>4 DEF DataOK, Signal
<2>5. CASE ReceiveExpired
  BY <2>5 DEF DataOK, ReceiveExpired, Ignore, TakeCommand
<2>6. CASE ReceiveSnapshot
  BY <2>6 DEF DataOK, ReceiveSnapshot, Ignore, TakeCommand
<2>7. CASE ReceiveStart
  BY <2>7 DEF DataOK, ReceiveStart, TakeCommand
<2>8. CASE ReceiveShutdown
  <3>1. CancelAllTyped BY <2>8, CancelAllTypes DEF ReceiveShutdown
  <3> QED BY <2>8, <3>1, TakenCommand DEF CancelAllTyped, DataOK, ReceiveShutdown
<2>9. CASE ReceiveReconcile
  <3>1. CASE Head(commands).desired
    BY <2>9, <3>1, TakenCommand DEF DataOK, ReceiveReconcile
  <3>2. CASE ~Head(commands).desired
    <4>1. CancelAllTyped BY <2>9, <3>2, CancelAllTypes DEF ReceiveReconcile
    <4> QED BY <2>9, <4>1, TakenCommand DEF CancelAllTyped, DataOK, ReceiveReconcile
  <3> QED BY <3>1, <3>2
<2>10. CASE ReceiveNewsPass
  BY <2>10 DEF DataOK, ReceiveNewsPass, TakeCommand
<2>11. CASE RefuseAlert
  BY <2>11 DEF DataOK, RefuseAlert, Ignore, TakeCommand
<2>12. CASE AcceptAlert
  <3>1. StopNews BY <2>12 DEF AcceptAlert
  <3>3. Head(commands).alert \in Alerts BY <2>12, TakenAlert DEF AcceptAlert
  <3>4. alerts' \in Seq(Alerts) /\ queuedAlerts' \in Nat
    BY <2>12, <3>3 DEF AcceptAlert, WaitingBehind, DataOK
  <3> QED BY <2>12, <3>1, <3>3, <3>4, StopNewsTypes, TakenCommand DEF DataOK, AcceptAlert
<2>13. CASE ReceiveStop
  <3>1. CancelAllTyped BY <2>13, CancelAllTypes DEF ReceiveStop
  <3> QED BY <2>13, <3>1, TakenCommand DEF CancelAllTyped, DataOK, ReceiveStop
<2>14. ASSUME NEW m \in internal, IgnoreStaleMessage(m) PROVE DataOK'
  BY <2>14 DEF DataOK, IgnoreStaleMessage, Ignore, TakeMessage
<2>15. ASSUME NEW m \in internal, NewsFailed(m) PROVE DataOK'
  <3>1. NewsMessage("newsRetry", FALSE) \in Message
    BY NewsMessageType DEF DataOK
  <3> QED BY <2>15, <3>1 DEF DataOK, NewsFailed
<2>16. ASSUME NEW m \in internal, NewsStopped(m) PROVE DataOK'
  BY <2>16 DEF DataOK, NewsStopped, TakeMessage
<2>17. ASSUME NEW m \in internal, NewsStopTimedOut(m) PROVE DataOK'
  BY <2>17 DEF DataOK, NewsStopTimedOut, TakeMessage
<2>18. ASSUME NEW m \in internal, NewsRetry(m) PROVE DataOK'
  BY <2>18 DEF DataOK, NewsRetry, TakeMessage
<2>19. ASSUME NEW m \in internal, AlertFinished(m) PROVE DataOK'
  BY <2>19 DEF DataOK, AlertFinished, TakeMessage
<2>20. CASE ReconcileCancel
  <3>1. CancelAllTyped BY <2>20, CancelAllTypes DEF ReconcileCancel
  <3> QED BY <2>20, <3>1 DEF CancelAllTyped, DataOK, ReconcileCancel, EndOfBody
<2>21. ASSUME NEW ok \in BOOLEAN, ReconcileOff(ok) PROVE DataOK'
  BY <2>21 DEF DataOK, ReconcileOff, StopDisplay, EndOfBody
<2>22. ASSUME NEW ok \in BOOLEAN, ReconcileEndTemporary(ok) PROVE DataOK'
  BY <2>22 DEF DataOK, ReconcileEndTemporary, StopDisplay, EndOfBody
<2>23. ASSUME NEW ok \in BOOLEAN, StopLoop(ok) PROVE DataOK'
  BY <2>23 DEF DataOK, StopLoop, StopDisplay
<2>24. CASE StartDisplay
  BY <2>24 DEF DataOK, StartDisplay
<2>25. CASE StartDisplayFails
  BY <2>25 DEF DataOK, StartDisplayFails, EndOfBody
<2>26. CASE ReconcileAlerting
  BY <2>26 DEF DataOK, ReconcileAlerting, EndOfBody
<2>27. CASE ReconcilePause
  <3>1. StopNews BY <2>27 DEF ReconcilePause
  <3> QED BY <2>27, <3>1, StopNewsTypes DEF DataOK, ReconcilePause, EndOfBody
<2>28. CASE ReconcileStartAlert
  BY <2>28 DEF DataOK, ReconcileStartAlert, EndOfBody
<2>29. CASE ReconcileStartNews
  BY <2>29 DEF DataOK, ReconcileStartNews, EndOfBody
<2>30. CASE ReconcileNothing
  BY <2>30 DEF DataOK, ReconcileNothing, EndOfBody
<2>31. CASE AwaitWorkers
  BY <2>31 DEF DataOK, AwaitWorkers, EndOfBody
<2>32. CASE TakeRefresh
  BY <2>32 DEF DataOK, TakeRefresh
<2>33. CASE ClockLights
  BY <2>33 DEF DataOK, ClockLights
<2>34. ASSUME NEW r \in newsWorkers, NEW failed \in BOOLEAN, NewsExit(r, failed) PROVE DataOK'
  <3>1. [kind |-> "newsStopped", run |-> r, failed |-> failed] \in Message
    BY ResultTypes DEF DataOK
  <3> QED BY <2>34, <3>1 DEF DataOK, NewsExit, Deliver
<2>35. ASSUME NEW w \in alertWorkers, AlertShow(w) PROVE DataOK'
  BY <2>35 DEF DataOK, AlertShow
<2>36. ASSUME NEW w \in alertWorkers, AlertExit(w) PROVE DataOK'
  <3>1. w.run \in Nat BY DEF DataOK
  <3>2. [kind |-> "alertFinished", run |-> w.run, failed |-> FALSE] \in Message
    BY <3>1, ResultTypes
  <3>3. internal' \subseteq Message
    BY <2>36, <3>2, Zenon DEF AlertExit, Deliver, DataOK
  <3>4. alertWorkers' \subseteq alertWorkers
    BY <2>36, Zenon DEF AlertExit
  <3>5. faults' \in Nat
    BY <2>36 DEF AlertExit, DataOK
  <3> QED BY <2>36, <3>3, <3>4, <3>5 DEF DataOK, AlertExit
<2> QED BY <1>1, <2>1, <2>2, <2>3, <2>4, <2>5, <2>6, <2>7, <2>8, <2>9, <2>10, <2>11, <2>12,
     <2>13, <2>14, <2>15, <2>16, <2>17, <2>18, <2>19, <2>20, <2>21, <2>22, <2>23, <2>24, <2>25,
     <2>26, <2>27, <2>28, <2>29, <2>30, <2>31, <2>32, <2>33, <2>34, <2>35, <2>36
       DEF Next, Clients, ReceiveCommand, ReceiveMessage, Reconcile, Workers
<1>2. CASE UNCHANGED vars
  BY <1>2 DEF vars, DataOK
<1> QED BY <1>1, <1>2

\* TypeOK: every variable keeps its type, the command channel its capacity.
THEOREM TypeCorrect == Spec => []TypeOK
<1>1. Init => TypeOK
  <2> SUFFICES ASSUME Init PROVE FlagsOK /\ DataOK
    BY DEF TypeOK
  <2>1. FlagsOK BY Zenon DEF Init, FlagsOK
  <2>2. DataOK BY ConfigAssumption DEF Init, DataOK, Lifecycles
  <2> QED BY <2>1, <2>2
<1>2. TypeOK /\ [Next]_vars => TypeOK'
  BY FlagsStep, DataStep DEF TypeOK
<1> QED BY <1>1, <1>2, PTL DEF Spec

-----------------------------------------------------------------------------
(* Ownership of the panel.                                                  *)

\* Most steps leave alone what one or more parts of the invariant speak of.
NewsFrame ==
  /\ UNCHANGED newsRunning /\ UNCHANGED newsRun /\ UNCHANGED newsWorkers
  /\ NewsResults' = NewsResults

AlertFrame ==
  /\ UNCHANGED alertRunning /\ UNCHANGED alertRun /\ UNCHANGED currentAlert
  /\ UNCHANGED alertWorkers
  /\ AlertResults' = AlertResults

PanelFrame ==
  /\ UNCHANGED newsRunning /\ UNCHANGED alertRunning /\ UNCHANGED displayRunning
  /\ UNCHANGED temporaryAlertDisplay /\ UNCHANGED alerts
  /\ phase' = phase \/ phase' = "select" \/ phase' = "reconcile"

LEMMA NewsFrameKeeps == NewsInv /\ NewsFrame => NewsInv'
  BY DEF NewsFrame, NewsInv

LEMMA AlertFrameKeeps == AlertInv /\ AlertFrame => AlertInv'
  BY DEF AlertFrame, AlertInv

LEMMA PanelFrameKeeps == PanelInv /\ PanelFrame => PanelInv'
  BY DEF PanelFrame, PanelInv

\* Stopping the news worker starts a timer and delivers no result.
LEMMA StopNewsQuiet ==
  ASSUME StopNews
  PROVE  NewsResults' = NewsResults /\ AlertResults' = AlertResults
  BY DEF StopNews, NewsResults, AlertResults, Deliver, NewsMessage

\* Every step keeps the invariant.
LEMMA OwnershipStep == TypeOK /\ OwnershipInv /\ [Next]_vars => OwnershipInv'
<1> SUFFICES ASSUME FlagsOK, DataOK, NewsInv, AlertInv, PanelInv, [Next]_vars
             PROVE  OwnershipInv'
  BY DEF TypeOK, OwnershipInv
<1> DEFINE Quiet == NewsFrame /\ AlertFrame /\ PanelFrame
<1>q. Quiet => OwnershipInv'
  BY NewsFrameKeeps, AlertFrameKeeps, PanelFrameKeeps DEF OwnershipInv
<1>1. ASSUME Next PROVE OwnershipInv'
<2>1. ASSUME NEW c \in ClientCommands, SendCommand(c) PROVE OwnershipInv'
  <3>1. Quiet
    BY <2>1, SMT DEF NewsFrame, AlertFrame, PanelFrame, SendCommand, NewsResults,
         AlertResults
  <3> QED BY <3>1, <1>q
<2>2. ASSUME NEW c \in ClientCommands, DropCommand(c) PROVE OwnershipInv'
  <3>1. Quiet
    BY <2>2, SMT DEF NewsFrame, AlertFrame, PanelFrame, DropCommand, NewsResults,
         AlertResults
  <3> QED BY <3>1, <1>q
<2>3. ASSUME NEW a \in Alerts, SendAlert(a) PROVE OwnershipInv'
  <3>1. Quiet
    BY <2>3, SMT DEF NewsFrame, AlertFrame, PanelFrame, SendAlert, NewsResults, AlertResults
  <3> QED BY <3>1, <1>q
<2>4. CASE Signal
  <3>1. Quiet
    BY <2>4, SMT DEF NewsFrame, AlertFrame, PanelFrame, Signal, NewsResults, AlertResults
  <3> QED BY <3>1, <1>q
<2>5. CASE ReceiveExpired
  <3>1. Quiet
    BY <2>5, SMT DEF NewsFrame, AlertFrame, PanelFrame, ReceiveExpired, Ignore, NewsResults,
         AlertResults
  <3> QED BY <3>1, <1>q
<2>6. CASE ReceiveSnapshot
  <3>1. Quiet
    BY <2>6, SMT DEF NewsFrame, AlertFrame, PanelFrame, ReceiveSnapshot, Ignore,
         NewsResults, AlertResults
  <3> QED BY <3>1, <1>q
<2>7. CASE ReceiveStart
  <3>1. Quiet
    BY <2>7, SMT DEF NewsFrame, AlertFrame, PanelFrame, ReceiveStart, NewsResults,
         AlertResults
  <3> QED BY <3>1, <1>q
<2>8. CASE ReceiveShutdown
  <3>1. NewsFrame /\ AlertFrame
    BY <2>8, StopNewsQuiet, SMT DEF NewsFrame, AlertFrame, ReceiveShutdown, CancelAll,
         NewsResults, AlertResults
  <3>2. PanelInv'
    BY <2>8 DEF ReceiveShutdown, PanelInv, FlagsOK, CancelAll
  <3> QED BY <3>1, <3>2, NewsFrameKeeps, AlertFrameKeeps DEF OwnershipInv
<2>9. CASE ReceiveReconcile
  <3>1. NewsFrame /\ AlertFrame
    BY <2>9, StopNewsQuiet, SMT DEF NewsFrame, AlertFrame, ReceiveReconcile, CancelAll,
         NewsResults, AlertResults
  <3>2. PanelInv'
    BY <2>9 DEF ReceiveReconcile, PanelInv, FlagsOK, CancelAll
  <3> QED BY <3>1, <3>2, NewsFrameKeeps, AlertFrameKeeps DEF OwnershipInv
<2>10. CASE ReceiveNewsPass
  <3>1. Quiet
    BY <2>10, SMT DEF NewsFrame, AlertFrame, PanelFrame, ReceiveNewsPass, NewsResults,
         AlertResults
  <3> QED BY <3>1, <1>q
<2>11. CASE RefuseAlert
  <3>1. Quiet
    BY <2>11, SMT DEF NewsFrame, AlertFrame, PanelFrame, RefuseAlert, Ignore, NewsResults,
         AlertResults
  <3> QED BY <3>1, <1>q
<2>12. CASE AcceptAlert
  <3>1. NewsFrame /\ AlertFrame
    BY <2>12, StopNewsQuiet, SMT DEF NewsFrame, AlertFrame, AcceptAlert, NewsResults,
         AlertResults
  <3>2. PanelInv'
    BY <2>12 DEF AcceptAlert, PanelInv, FlagsOK, NeedsTemporaryDisplay
  <3> QED BY <3>1, <3>2, NewsFrameKeeps, AlertFrameKeeps DEF OwnershipInv
<2>13. CASE ReceiveStop
  <3>1. NewsFrame /\ AlertFrame
    BY <2>13, StopNewsQuiet, SMT DEF NewsFrame, AlertFrame, ReceiveStop, CancelAll,
         NewsResults, AlertResults
  <3>2. PanelInv'
    BY <2>13 DEF ReceiveStop, PanelInv, FlagsOK, CancelAll
  <3> QED BY <3>1, <3>2, NewsFrameKeeps, AlertFrameKeeps DEF OwnershipInv
<2>14. ASSUME NEW m \in internal, IgnoreStaleMessage(m) PROVE OwnershipInv'
  <3>1. Quiet
    BY <2>14, SMT DEF NewsFrame, AlertFrame, PanelFrame, IgnoreStaleMessage, Ignore,
         TakeMessage, NewsResults, AlertResults, IsStale, NewsInv, AlertInv
  <3> QED BY <3>1, <1>q
<2>15. ASSUME NEW m \in internal, NewsFailed(m) PROVE OwnershipInv'
  <3>1. NewsInv'
    BY <2>15 DEF NewsFailed, NewsInv, DataOK, NewsResults, NewsMessage, Deliver, Message
  <3>2. AlertFrame
    BY <2>15, SMT DEF AlertFrame, NewsFailed, AlertResults, NewsMessage
  <3>3. PanelInv'
    BY <2>15 DEF NewsFailed, PanelInv, FlagsOK
  <3> QED BY <3>1, <3>2, <3>3, AlertFrameKeeps DEF OwnershipInv
<2>16. ASSUME NEW m \in internal, NewsStopped(m) PROVE OwnershipInv'
  <3>1. NewsInv'
    BY <2>16 DEF NewsStopped, NewsInv, DataOK, NewsResults, NewsMessage, Deliver, Message,
         TakeMessage
  <3>2. AlertFrame
    BY <2>16, SMT DEF AlertFrame, NewsStopped, TakeMessage, AlertResults
  <3>3. PanelInv'
    BY <2>16 DEF NewsStopped, PanelInv, FlagsOK
  <3> QED BY <3>1, <3>2, <3>3, AlertFrameKeeps DEF OwnershipInv
<2>17. ASSUME NEW m \in internal, NewsStopTimedOut(m) PROVE OwnershipInv'
  <3>1. Quiet
    BY <2>17, SMT DEF NewsFrame, AlertFrame, PanelFrame, NewsStopTimedOut, TakeMessage,
         NewsResults, AlertResults
  <3> QED BY <3>1, <1>q
<2>18. ASSUME NEW m \in internal, NewsRetry(m) PROVE OwnershipInv'
  <3>1. Quiet
    BY <2>18, SMT DEF NewsFrame, AlertFrame, PanelFrame, NewsRetry, TakeMessage,
         NewsResults, AlertResults
  <3> QED BY <3>1, <1>q
<2>19. ASSUME NEW m \in internal, AlertFinished(m) PROVE OwnershipInv'
  <3>1. NewsFrame
    BY <2>19, SMT DEF NewsFrame, AlertFinished, TakeMessage, NewsResults
  <3>2. AlertInv'
    BY <2>19 DEF AlertFinished, AlertInv, DataOK, AlertResults, NewsMessage, Deliver,
         Message, TakeMessage
  <3>3. PanelInv'
    BY <2>19 DEF AlertFinished, PanelInv, FlagsOK
  <3> QED BY <3>1, <3>2, <3>3, NewsFrameKeeps DEF OwnershipInv
<2>20. CASE ReconcileCancel
  <3>1. NewsFrame /\ AlertFrame
    BY <2>20, StopNewsQuiet, SMT DEF NewsFrame, AlertFrame, ReconcileCancel, EndOfBody,
         CancelAll, NewsResults, AlertResults
  <3>2. PanelInv'
    BY <2>20 DEF ReconcileCancel, PanelInv, FlagsOK, EndOfBody, CancelAll, ReadyToPaint,
         Reconciling, WantDisplay, WorkersRunning, NewsInTheWay
  <3> QED BY <3>1, <3>2, NewsFrameKeeps, AlertFrameKeeps DEF OwnershipInv
<2>21. ASSUME NEW ok \in BOOLEAN, ReconcileOff(ok) PROVE OwnershipInv'
  <3>1. NewsFrame /\ AlertFrame
    BY <2>21, SMT DEF NewsFrame, AlertFrame, ReconcileOff, EndOfBody, StopDisplay,
         NewsResults, AlertResults
  <3>2. PanelInv'
    BY <2>21 DEF ReconcileOff, PanelInv, FlagsOK, EndOfBody, StopDisplay, ReadyToPaint,
         Reconciling, WantDisplay, WorkersRunning, NewsInTheWay
  <3> QED BY <3>1, <3>2, NewsFrameKeeps, AlertFrameKeeps DEF OwnershipInv
<2>22. ASSUME NEW ok \in BOOLEAN, ReconcileEndTemporary(ok) PROVE OwnershipInv'
  <3>1. NewsFrame /\ AlertFrame
    BY <2>22, SMT DEF NewsFrame, AlertFrame, ReconcileEndTemporary, EndOfBody, StopDisplay,
         NewsResults, AlertResults
  <3>2. PanelInv'
    BY <2>22 DEF ReconcileEndTemporary, PanelInv, FlagsOK, EndOfBody, StopDisplay,
         ReadyToPaint, Reconciling, WantDisplay, WorkersRunning, NewsInTheWay
  <3> QED BY <3>1, <3>2, NewsFrameKeeps, AlertFrameKeeps DEF OwnershipInv
<2>23. ASSUME NEW ok \in BOOLEAN, StopLoop(ok) PROVE OwnershipInv'
  <3>1. NewsFrame /\ AlertFrame
    BY <2>23, SMT DEF NewsFrame, AlertFrame, StopLoop, StopDisplay, NewsResults,
         AlertResults
  <3>2. PanelInv'
    BY <2>23 DEF StopLoop, PanelInv, FlagsOK, StopDisplay, ReadyToPaint, Reconciling,
         WantDisplay, WorkersRunning, NewsInTheWay
  <3> QED BY <3>1, <3>2, NewsFrameKeeps, AlertFrameKeeps DEF OwnershipInv
<2>24. CASE StartDisplay
  <3>1. NewsFrame /\ AlertFrame
    BY <2>24, SMT DEF NewsFrame, AlertFrame, StartDisplay, NewsResults, AlertResults
  <3>2. PanelInv'
    BY <2>24 DEF StartDisplay, PanelInv, FlagsOK, ReadyToPaint, Reconciling, WantDisplay,
         WorkersRunning, NewsInTheWay
  <3> QED BY <3>1, <3>2, NewsFrameKeeps, AlertFrameKeeps DEF OwnershipInv
<2>25. CASE StartDisplayFails
  <3>1. Quiet
    BY <2>25, SMT DEF NewsFrame, AlertFrame, PanelFrame, StartDisplayFails, EndOfBody,
         NewsResults, AlertResults
  <3> QED BY <3>1, <1>q
<2>26. CASE ReconcileAlerting
  <3>1. Quiet
    BY <2>26, SMT DEF NewsFrame, AlertFrame, PanelFrame, ReconcileAlerting, EndOfBody,
         NewsResults, AlertResults
  <3> QED BY <3>1, <1>q
<2>27. CASE ReconcilePause
  <3>1. Quiet
    BY <2>27, StopNewsQuiet, SMT DEF NewsFrame, AlertFrame, PanelFrame, ReconcilePause,
         EndOfBody, NewsResults, AlertResults
  <3> QED BY <3>1, <1>q
<2>28. CASE ReconcileStartAlert
  <3>1. NewsFrame
    BY <2>28, SMT DEF NewsFrame, ReconcileStartAlert, EndOfBody, NewsResults
  <3>2. AlertInv'
    BY <2>28 DEF ReconcileStartAlert, AlertInv, DataOK, AlertResults, NewsMessage, Deliver,
         Message, EndOfBody, ReadyToPaint
  <3>3. PanelInv'
    BY <2>28 DEF ReconcileStartAlert, PanelInv, FlagsOK, EndOfBody, ReadyToPaint,
         Reconciling, WantDisplay, WorkersRunning, NewsInTheWay
  <3> QED BY <3>1, <3>2, <3>3, NewsFrameKeeps DEF OwnershipInv
<2>29. CASE ReconcileStartNews
  <3>1. NewsInv'
    BY <2>29 DEF ReconcileStartNews, NewsInv, DataOK, NewsResults, NewsMessage, Deliver,
         Message, EndOfBody, ReadyToPaint
  <3>2. AlertFrame
    BY <2>29, SMT DEF AlertFrame, ReconcileStartNews, EndOfBody, AlertResults
  <3>3. PanelInv'
    BY <2>29 DEF ReconcileStartNews, PanelInv, FlagsOK, EndOfBody, ReadyToPaint,
         Reconciling, WantDisplay, WorkersRunning, NewsInTheWay
  <3> QED BY <3>1, <3>2, <3>3, AlertFrameKeeps DEF OwnershipInv
<2>30. CASE ReconcileNothing
  <3>1. Quiet
    BY <2>30, SMT DEF NewsFrame, AlertFrame, PanelFrame, ReconcileNothing, EndOfBody,
         NewsResults, AlertResults
  <3> QED BY <3>1, <1>q
<2>31. CASE AwaitWorkers
  <3>1. Quiet
    BY <2>31, SMT DEF NewsFrame, AlertFrame, PanelFrame, AwaitWorkers, EndOfBody,
         NewsResults, AlertResults
  <3> QED BY <3>1, <1>q
<2>32. CASE TakeRefresh
  <3>1. Quiet
    BY <2>32, SMT DEF NewsFrame, AlertFrame, PanelFrame, TakeRefresh, NewsResults,
         AlertResults
  <3> QED BY <3>1, <1>q
<2>33. CASE ClockLights
  <3>1. Quiet
    BY <2>33, SMT DEF NewsFrame, AlertFrame, PanelFrame, ClockLights, NewsResults,
         AlertResults
  <3> QED BY <3>1, <1>q
<2>34. ASSUME NEW r \in newsWorkers, NEW failed \in BOOLEAN, NewsExit(r, failed) PROVE OwnershipInv'
  <3>1. NewsInv'
    BY <2>34 DEF NewsExit, NewsInv, DataOK, NewsResults, NewsMessage, Deliver, Message
  <3>2. AlertFrame
    BY <2>34, SMT DEF AlertFrame, NewsExit, AlertResults, Deliver
  <3>3. PanelFrame
    BY <2>34, SMT DEF PanelFrame, NewsExit, Deliver
  <3> QED BY <3>1, <3>2, <3>3, AlertFrameKeeps, PanelFrameKeeps DEF OwnershipInv
<2>35. ASSUME NEW w \in alertWorkers, AlertShow(w) PROVE OwnershipInv'
  <3>1. Quiet
    BY <2>35, SMT DEF NewsFrame, AlertFrame, PanelFrame, AlertShow, NewsResults,
         AlertResults
  <3> QED BY <3>1, <1>q
<2>36. ASSUME NEW w \in alertWorkers, AlertExit(w) PROVE OwnershipInv'
  <3>1. NewsFrame
    BY <2>36, SMT DEF NewsFrame, AlertExit, NewsResults, Deliver
  <3>2. AlertInv'
    BY <2>36 DEF AlertExit, AlertInv, DataOK, AlertResults, NewsMessage, Deliver, Message
  <3>3. PanelFrame
    BY <2>36, SMT DEF PanelFrame, AlertExit, Deliver
  <3> QED BY <3>1, <3>2, <3>3, NewsFrameKeeps, PanelFrameKeeps DEF OwnershipInv
<2> QED BY <1>1, <2>1, <2>2, <2>3, <2>4, <2>5, <2>6, <2>7, <2>8, <2>9, <2>10, <2>11, <2>12,
     <2>13, <2>14, <2>15, <2>16, <2>17, <2>18, <2>19, <2>20, <2>21, <2>22, <2>23, <2>24, <2>25,
     <2>26, <2>27, <2>28, <2>29, <2>30, <2>31, <2>32, <2>33, <2>34, <2>35, <2>36
       DEF Next, Clients, ReceiveCommand, ReceiveMessage, Reconcile, Workers
<1>2. CASE UNCHANGED vars
  BY <1>2, <1>q DEF vars, NewsFrame, AlertFrame, PanelFrame, NewsResults, AlertResults
<1> QED BY <1>1, <1>2

\* OwnershipInv: flags, goroutines, results on their way and the display agree.
THEOREM Ownership == Spec => []OwnershipInv
<1>1. Init => OwnershipInv
  BY SMT DEF Init, OwnershipInv, NewsInv, AlertInv, PanelInv, NewsResults, AlertResults
<1>2. TypeOK /\ OwnershipInv /\ [Next]_vars => OwnershipInv'
  BY OwnershipStep
<1> QED BY <1>1, <1>2, TypeCorrect, PTL DEF Spec

\* OnePainter: a news worker and an alert are never alive together, nor two of either.
THEOREM AtMostOnePainter == Spec => []OnePainter
<1>1. OwnershipInv => OnePainter
  BY DEF OwnershipInv, NewsInv, AlertInv, PanelInv, OnePainter
<1> QED BY <1>1, Ownership, PTL

\* PaintersOwnDisplay: who paints is who the flags name, the display runs, and when Stop
\* returns no goroutine that paints is left.
THEOREM PaintersAreNamed == Spec => []PaintersOwnDisplay
<1>1. OwnershipInv => PaintersOwnDisplay
  BY DEF OwnershipInv, NewsInv, AlertInv, PanelInv, PaintersOwnDisplay, DoneMeansStopped
<1> QED BY <1>1, Ownership, PTL

\* RunsAreAccountedFor: a run that the flags name is alive or its result is on the way.
THEOREM NoResultIsLost == Spec => []RunsAreAccountedFor
<1>1. OwnershipInv => RunsAreAccountedFor
  <2> SUFFICES ASSUME NewsInv, AlertInv PROVE RunsAreAccountedFor
    BY DEF OwnershipInv
  <2> DEFINE Lost(kind, run) == \A m \in internal : ~(m.kind = kind /\ m.run = run)
  <2>1. newsRunning /\ newsRun \notin newsWorkers => ~Lost("newsStopped", newsRun)
    <3> SUFFICES ASSUME newsRunning, newsRun \notin newsWorkers
                 PROVE  ~Lost("newsStopped", newsRun)
      OBVIOUS
    <3>1. PICK failed \in BOOLEAN :
            NewsResults = {[kind |-> "newsStopped", run |-> newsRun, failed |-> failed]}
      BY DEF NewsInv
    <3>2. [kind |-> "newsStopped", run |-> newsRun, failed |-> failed] \in internal
      BY <3>1, Zenon DEF NewsResults
    <3> QED BY <3>2
  <2>2. alertRunning /\ (\A w \in alertWorkers : w.run # alertRun)
          => ~Lost("alertFinished", alertRun)
    <3> SUFFICES ASSUME alertRunning, \A w \in alertWorkers : w.run # alertRun
                 PROVE  ~Lost("alertFinished", alertRun)
      OBVIOUS
    <3> DEFINE w0 == [run |-> alertRun, item |-> currentAlert]
    <3>1. w0.run = alertRun
      OBVIOUS
    <3>2. alertWorkers # {w0}
      BY <3>1, Zenon
    <3>3. AlertResults = {[kind |-> "alertFinished", run |-> alertRun, failed |-> FALSE]}
      BY <3>2 DEF AlertInv
    <3>4. [kind |-> "alertFinished", run |-> alertRun, failed |-> FALSE] \in internal
      BY <3>3, Zenon DEF AlertResults
    <3> QED BY <3>4
  <2> QED BY <2>1, <2>2 DEF RunsAreAccountedFor
<1> QED BY <1>1, Ownership, PTL

\* A step that leaves display and light alone, or lights the panel.
LightKept == UNCHANGED displayRunning /\ (lit => lit')

\* DisplaySwitchedAlone: only startDisplay and stopDisplay switch the display, and no
\* goroutine that paints is alive when they do; the clock of a worker only lights it.
THEOREM SwitchedAlone == Spec => DisplaySwitchedAlone
<1> DEFINE Alone == newsWorkers = {} /\ alertWorkers = {}
<1>1. OwnershipInv /\ [Next]_vars => LightKept \/ Alone
  <2> SUFFICES ASSUME NewsInv, AlertInv, PanelInv, [Next]_vars PROVE LightKept \/ Alone
    BY DEF OwnershipInv
  <2>n. ~newsRunning /\ ~alertRunning => Alone
    BY DEF NewsInv, AlertInv
  <2>a. ASSUME Next PROVE LightKept \/ Alone
  <3>1. ASSUME NEW c \in ClientCommands, SendCommand(c)
        PROVE  LightKept \/ Alone
    BY <3>1 DEF LightKept, SendCommand
  <3>2. ASSUME NEW c \in ClientCommands, DropCommand(c)
        PROVE  LightKept \/ Alone
    BY <3>2 DEF LightKept, DropCommand
  <3>3. ASSUME NEW a \in Alerts, SendAlert(a)
        PROVE  LightKept \/ Alone
    BY <3>3 DEF LightKept, SendAlert
  <3>4. CASE Signal
    BY <3>4 DEF LightKept, Signal
  <3>5. CASE ReceiveExpired
    BY <3>5 DEF LightKept, ReceiveExpired, Ignore
  <3>6. CASE ReceiveSnapshot
    BY <3>6 DEF LightKept, ReceiveSnapshot, Ignore
  <3>7. CASE ReceiveStart
    BY <3>7 DEF LightKept, ReceiveStart
  <3>8. CASE ReceiveShutdown
    BY <3>8 DEF LightKept, ReceiveShutdown
  <3>9. CASE ReceiveReconcile
    BY <3>9 DEF LightKept, ReceiveReconcile
  <3>10. CASE ReceiveNewsPass
    BY <3>10 DEF LightKept, ReceiveNewsPass
  <3>11. CASE RefuseAlert
    BY <3>11 DEF LightKept, RefuseAlert, Ignore
  <3>12. CASE AcceptAlert
    BY <3>12 DEF LightKept, AcceptAlert
  <3>13. CASE ReceiveStop
    BY <3>13 DEF LightKept, ReceiveStop
  <3>14. ASSUME NEW m \in internal, IgnoreStaleMessage(m)
         PROVE  LightKept \/ Alone
    BY <3>14 DEF LightKept, IgnoreStaleMessage, Ignore
  <3>15. ASSUME NEW m \in internal, NewsFailed(m)
         PROVE  LightKept \/ Alone
    BY <3>15 DEF LightKept, NewsFailed
  <3>16. ASSUME NEW m \in internal, NewsStopped(m)
         PROVE  LightKept \/ Alone
    BY <3>16 DEF LightKept, NewsStopped
  <3>17. ASSUME NEW m \in internal, NewsStopTimedOut(m)
         PROVE  LightKept \/ Alone
    BY <3>17 DEF LightKept, NewsStopTimedOut
  <3>18. ASSUME NEW m \in internal, NewsRetry(m)
         PROVE  LightKept \/ Alone
    BY <3>18 DEF LightKept, NewsRetry
  <3>19. ASSUME NEW m \in internal, AlertFinished(m)
         PROVE  LightKept \/ Alone
    BY <3>19 DEF LightKept, AlertFinished
  <3>20. CASE ReconcileCancel
    BY <3>20 DEF LightKept, ReconcileCancel
  <3>21. ASSUME NEW ok \in BOOLEAN, ReconcileOff(ok)
         PROVE  LightKept \/ Alone
    BY <3>21, <2>n DEF ReconcileOff, WorkersRunning
  <3>22. ASSUME NEW ok \in BOOLEAN, ReconcileEndTemporary(ok)
         PROVE  LightKept \/ Alone
    BY <3>22, <2>n DEF ReconcileEndTemporary, PanelInv
  <3>23. ASSUME NEW ok \in BOOLEAN, StopLoop(ok)
         PROVE  LightKept \/ Alone
    BY <3>23, <2>n DEF StopLoop, WorkersRunning
  <3>24. CASE StartDisplay
    BY <3>24, <2>n DEF StartDisplay, PanelInv
  <3>25. CASE StartDisplayFails
    BY <3>25 DEF LightKept, StartDisplayFails
  <3>26. CASE ReconcileAlerting
    BY <3>26 DEF LightKept, ReconcileAlerting
  <3>27. CASE ReconcilePause
    BY <3>27 DEF LightKept, ReconcilePause
  <3>28. CASE ReconcileStartAlert
    BY <3>28 DEF LightKept, ReconcileStartAlert
  <3>29. CASE ReconcileStartNews
    BY <3>29 DEF LightKept, ReconcileStartNews
  <3>30. CASE ReconcileNothing
    BY <3>30 DEF LightKept, ReconcileNothing
  <3>31. CASE AwaitWorkers
    BY <3>31 DEF LightKept, AwaitWorkers
  <3>32. CASE TakeRefresh
    BY <3>32 DEF LightKept, TakeRefresh
  <3>33. CASE ClockLights
    BY <3>33 DEF LightKept, ClockLights
  <3>34. ASSUME NEW r \in newsWorkers, NEW failed \in BOOLEAN, NewsExit(r, failed)
         PROVE  LightKept \/ Alone
    BY <3>34 DEF LightKept, NewsExit
  <3>35. ASSUME NEW w \in alertWorkers, AlertShow(w)
         PROVE  LightKept \/ Alone
    BY <3>35 DEF LightKept, AlertShow
  <3>36. ASSUME NEW w \in alertWorkers, AlertExit(w)
         PROVE  LightKept \/ Alone
    BY <3>36 DEF LightKept, AlertExit
  <3> QED BY <2>a, <3>1, <3>2, <3>3, <3>4, <3>5, <3>6, <3>7, <3>8, <3>9, <3>10, <3>11, <3>12,
       <3>13, <3>14, <3>15, <3>16, <3>17, <3>18, <3>19, <3>20, <3>21, <3>22, <3>23, <3>24,
       <3>25, <3>26, <3>27, <3>28, <3>29, <3>30, <3>31, <3>32, <3>33, <3>34, <3>35, <3>36
         DEF Next, Clients, ReceiveCommand, ReceiveMessage, Reconcile, Workers
  <2>b. CASE UNCHANGED vars
    BY <2>b DEF vars, LightKept
  <2> QED BY <2>a, <2>b
<1>2. LightKept => ~(displayRunning' # displayRunning \/ (lit /\ ~lit'))
  BY DEF LightKept
<1>3. OwnershipInv /\ [Next]_vars
        => [displayRunning' # displayRunning \/ (lit /\ ~lit')
              => newsWorkers = {} /\ alertWorkers = {}]_vars
  BY <1>1, <1>2
<1> QED BY <1>3, Ownership, PTL DEF Spec, DisplaySwitchedAlone

-----------------------------------------------------------------------------
(* The status.                                                              *)

\* What is known of the depth of the queue: a published depth is stale only until the
\* reconcile that follows the end of an alert, and that one changes it.
DepthInv ==
  /\ WaitingBehind(alerts) \leq AlertQueueCapacity
  /\ phase # "done" =>
       \/ queuedAlerts = WaitingBehind(alerts)
       \/ /\ phase = "reconcile" /\ queuedAlerts = Len(alerts)
          /\ displayRunning /\ ~newsRunning /\ ~alertRunning

\* What the lifecycle says between two messages.
Truth ==
  /\ lifecycle = "off" => ~displayRunning /\ ~newsRunning /\ ~alertRunning /\ alerts = <<>>
  /\ lifecycle = "running" => newsRunning /\ ~newsStopping
  /\ lifecycle = "alerting" => alertRunning
  /\ lifecycle = "pausing" => newsRunning /\ newsStopping
  /\ lifecycle = "stopping" => newsRunning \/ alertRunning
  /\ lifecycle # "starting"

\* What is left of it before reconcile: enough for the two branches that do not set it.
HalfTruth ==
  /\ lifecycle \in {"off", "starting"} => ~newsRunning /\ ~alertRunning
  /\ lifecycle = "running" => ~alertRunning /\ (newsRunning => ~newsStopping)
  /\ lifecycle = "alerting" => ~newsRunning
  /\ lifecycle = "pausing" => ~alertRunning /\ (newsRunning => newsStopping)

TruthInv == (phase = "select" => Truth) /\ (phase = "reconcile" => HalfTruth)

\* A step that leaves alone what the depth depends on.
DepthFrame == UNCHANGED <<alerts, queuedAlerts, displayRunning, newsRunning, alertRunning, phase>>

LEMMA DepthFrameKeeps ==
  ASSUME DepthInv, DepthFrame
  PROVE  DepthInv'
  BY DEF DepthInv, DepthFrame, WaitingBehind

\* The queue is emptied.
LEMMA EmptiedDepth ==
  ASSUME alerts' = <<>>, queuedAlerts' = 0
  PROVE  DepthInv'
  BY ConfigAssumption DEF DepthInv, WaitingBehind

LEMMA DepthStep == TypeOK /\ OwnershipInv /\ DepthInv /\ [Next]_vars => DepthInv'
<1> SUFFICES ASSUME FlagsOK, DataOK, AlertInv, PanelInv, DepthInv, [Next]_vars PROVE DepthInv'
  BY DEF TypeOK, OwnershipInv
<1>0. /\ Len(alerts) \in Nat /\ (alerts = <<>> <=> Len(alerts) = 0)
      /\ AlertQueueCapacity \in Nat \ {0}
  BY ConfigAssumption DEF DataOK
<1>1. ASSUME Next PROVE DepthInv'
<2>1. ASSUME NEW c \in ClientCommands, SendCommand(c) PROVE DepthInv'
  BY <2>1, DepthFrameKeeps DEF DepthFrame, SendCommand
<2>2. ASSUME NEW c \in ClientCommands, DropCommand(c) PROVE DepthInv'
  BY <2>2, DepthFrameKeeps DEF DepthFrame, DropCommand
<2>3. ASSUME NEW a \in Alerts, SendAlert(a) PROVE DepthInv'
  BY <2>3, DepthFrameKeeps DEF DepthFrame, SendAlert
<2>4. CASE Signal
  BY <2>4, DepthFrameKeeps DEF DepthFrame, Signal
<2>5. CASE ReceiveExpired
  BY <2>5, DepthFrameKeeps DEF DepthFrame, ReceiveExpired, Ignore
<2>6. CASE ReceiveSnapshot
  BY <2>6, DepthFrameKeeps DEF DepthFrame, ReceiveSnapshot, Ignore
<2>7. CASE ReceiveStart
  BY <2>7, <1>0 DEF ReceiveStart, TakeCommand, DepthInv, WaitingBehind
<2>8. CASE ReceiveShutdown
  BY <2>8, EmptiedDepth DEF ReceiveShutdown, CancelAll
<2>9. CASE ReceiveReconcile
  <3>1. CASE Head(commands).desired
    BY <2>9, <3>1 DEF ReceiveReconcile, TakeCommand, DepthInv, WaitingBehind
  <3>2. CASE ~Head(commands).desired
    BY <2>9, <3>2, EmptiedDepth DEF ReceiveReconcile, CancelAll
  <3> QED BY <3>1, <3>2
<2>10. CASE ReceiveNewsPass
  BY <2>10, <1>0 DEF ReceiveNewsPass, TakeCommand, DepthInv, WaitingBehind
<2>11. CASE RefuseAlert
  BY <2>11, DepthFrameKeeps DEF DepthFrame, RefuseAlert, Ignore
<2>12. CASE AcceptAlert
  <3>1. Len(alerts') = Len(alerts) + 1 /\ alerts' # <<>>
    BY <2>12, TakenAlert DEF AcceptAlert, DataOK
  <3>2. phase = "select" /\ WaitingBehind(alerts) < AlertQueueCapacity
    BY <2>12, <1>0 DEF AcceptAlert, AlertRefused, TakeCommand, WaitingBehind
  <3>3. WaitingBehind(alerts)' = (IF alertRunning THEN Len(alerts) + 1 ELSE Len(alerts))
    BY <2>12, <3>1, <1>0 DEF AcceptAlert, WaitingBehind
  <3>4. queuedAlerts' = WaitingBehind(alerts)'
    BY <2>12 DEF AcceptAlert, WaitingBehind
  <3>5. WaitingBehind(alerts)' \leq AlertQueueCapacity
    BY <3>2, <3>3, <1>0 DEF WaitingBehind
  <3> QED BY <3>4, <3>5 DEF DepthInv
<2>13. CASE ReceiveStop
  BY <2>13, EmptiedDepth DEF ReceiveStop, CancelAll
<2>14. ASSUME NEW m \in internal, IgnoreStaleMessage(m) PROVE DepthInv'
  BY <2>14, DepthFrameKeeps DEF DepthFrame, IgnoreStaleMessage, Ignore
<2>15. ASSUME NEW m \in internal, NewsFailed(m) PROVE DepthInv'
  BY <2>15, <1>0 DEF NewsFailed, DepthInv, WaitingBehind
<2>16. ASSUME NEW m \in internal, NewsStopped(m) PROVE DepthInv'
  BY <2>16, <1>0 DEF NewsStopped, TakeMessage, DepthInv, WaitingBehind
<2>17. ASSUME NEW m \in internal, NewsStopTimedOut(m) PROVE DepthInv'
  BY <2>17, <1>0 DEF NewsStopTimedOut, TakeMessage, DepthInv, WaitingBehind
<2>18. ASSUME NEW m \in internal, NewsRetry(m) PROVE DepthInv'
  BY <2>18, <1>0 DEF NewsRetry, TakeMessage, DepthInv, WaitingBehind
<2>19. ASSUME NEW m \in internal, AlertFinished(m) PROVE DepthInv'
  <3>1. alertRunning
    BY <2>19 DEF AlertFinished, AlertInv, AlertResults
  <3> QED BY <2>19, <3>1, <1>0 DEF AlertFinished, TakeMessage, DepthInv, WaitingBehind, PanelInv
<2>20. CASE ReconcileCancel
  BY <2>20, EmptiedDepth DEF ReconcileCancel, CancelAll
<2>21. ASSUME NEW ok \in BOOLEAN, ReconcileOff(ok) PROVE DepthInv'
  BY <2>21, EmptiedDepth DEF ReconcileOff
<2>22. ASSUME NEW ok \in BOOLEAN, ReconcileEndTemporary(ok) PROVE DepthInv'
  BY <2>22, <1>0 DEF ReconcileEndTemporary, EndOfBody, Reconciling, StopDisplay, DepthInv,
       WaitingBehind, ReadyToPaint, NewsInTheWay, WorkersRunning, PanelInv, FlagsOK
<2>23. ASSUME NEW ok \in BOOLEAN, StopLoop(ok) PROVE DepthInv'
  BY <2>23, <1>0 DEF StopLoop, StopDisplay, DepthInv, WaitingBehind, ReadyToPaint,
       NewsInTheWay, WorkersRunning, PanelInv
<2>24. CASE StartDisplay
  BY <2>24, <1>0 DEF StartDisplay, Reconciling, DepthInv, WaitingBehind,
       ReadyToPaint, NewsInTheWay, WorkersRunning, PanelInv
<2>25. CASE StartDisplayFails
  BY <2>25, <1>0 DEF StartDisplayFails, EndOfBody, Reconciling, DepthInv, WaitingBehind,
       ReadyToPaint, NewsInTheWay, WorkersRunning, PanelInv
<2>26. CASE ReconcileAlerting
  BY <2>26, <1>0 DEF ReconcileAlerting, EndOfBody, DepthInv, WaitingBehind, ReadyToPaint,
       NewsInTheWay, WorkersRunning, PanelInv
<2>27. CASE ReconcilePause
  BY <2>27, <1>0 DEF ReconcilePause, EndOfBody, StopNews, DepthInv, WaitingBehind,
       ReadyToPaint, NewsInTheWay, WorkersRunning, PanelInv
<2>28. CASE ReconcileStartAlert
  <3>1. Len(alerts') = Len(alerts) - 1 /\ Len(alerts) \geq 1
    BY <2>28, <1>0 DEF ReconcileStartAlert, DataOK
  <3> QED BY <2>28, <3>1, <1>0 DEF ReconcileStartAlert, EndOfBody, DepthInv, WaitingBehind
<2>29. CASE ReconcileStartNews
  BY <2>29, <1>0 DEF ReconcileStartNews, EndOfBody, Reconciling, DepthInv, WaitingBehind,
       ReadyToPaint, NewsInTheWay, WorkersRunning, PanelInv
<2>30. CASE ReconcileNothing
  BY <2>30, <1>0 DEF ReconcileNothing, EndOfBody, Reconciling, DepthInv, WaitingBehind,
       ReadyToPaint, NewsInTheWay, WorkersRunning, PanelInv
<2>31. CASE AwaitWorkers
  BY <2>31, <1>0 DEF AwaitWorkers, EndOfBody, DepthInv, WaitingBehind, ReadyToPaint,
       NewsInTheWay, WorkersRunning, PanelInv
<2>32. CASE TakeRefresh
  BY <2>32, DepthFrameKeeps DEF DepthFrame, TakeRefresh
<2>33. CASE ClockLights
  BY <2>33, DepthFrameKeeps DEF DepthFrame, ClockLights
<2>34. ASSUME NEW r \in newsWorkers, NEW failed \in BOOLEAN, NewsExit(r, failed) PROVE DepthInv'
  BY <2>34, DepthFrameKeeps DEF DepthFrame, NewsExit
<2>35. ASSUME NEW w \in alertWorkers, AlertShow(w) PROVE DepthInv'
  BY <2>35, DepthFrameKeeps DEF DepthFrame, AlertShow
<2>36. ASSUME NEW w \in alertWorkers, AlertExit(w) PROVE DepthInv'
  BY <2>36, DepthFrameKeeps DEF DepthFrame, AlertExit
<2> QED BY <1>1, <2>1, <2>2, <2>3, <2>4, <2>5, <2>6, <2>7, <2>8, <2>9, <2>10, <2>11, <2>12,
     <2>13, <2>14, <2>15, <2>16, <2>17, <2>18, <2>19, <2>20, <2>21, <2>22, <2>23, <2>24,
     <2>25, <2>26, <2>27, <2>28, <2>29, <2>30, <2>31, <2>32, <2>33, <2>34, <2>35, <2>36
       DEF Next, Clients, ReceiveCommand, ReceiveMessage, Reconcile, Workers
<1>2. CASE UNCHANGED vars
  BY <1>2, DepthFrameKeeps DEF vars, DepthFrame
<1> QED BY <1>1, <1>2

\* A step that leaves alone what the lifecycle tells of.
TruthFrame == UNCHANGED <<lifecycle, alerts, displayRunning, newsRunning, newsStopping,
                          alertRunning, phase>>

LEMMA TruthFrameKeeps ==
  ASSUME TruthInv, TruthFrame
  PROVE  TruthInv'
  BY DEF TruthInv, Truth, HalfTruth, TruthFrame

LEMMA TruthStep == TypeOK /\ PanelInv /\ TruthInv /\ [Next]_vars => TruthInv'
<1> SUFFICES ASSUME FlagsOK, DataOK, PanelInv, TruthInv, [Next]_vars PROVE TruthInv'
  BY DEF TypeOK
<1>1. ASSUME Next PROVE TruthInv'
<2>1. ASSUME NEW c \in ClientCommands, SendCommand(c) PROVE TruthInv'
  BY <2>1, TruthFrameKeeps DEF TruthFrame, SendCommand
<2>2. ASSUME NEW c \in ClientCommands, DropCommand(c) PROVE TruthInv'
  BY <2>2, TruthFrameKeeps DEF TruthFrame, DropCommand
<2>3. ASSUME NEW a \in Alerts, SendAlert(a) PROVE TruthInv'
  BY <2>3, TruthFrameKeeps DEF TruthFrame, SendAlert
<2>4. CASE Signal
  BY <2>4, TruthFrameKeeps DEF TruthFrame, Signal
<2>5. CASE ReceiveExpired
  BY <2>5, TruthFrameKeeps DEF TruthFrame, ReceiveExpired, Ignore
<2>6. CASE ReceiveSnapshot
  BY <2>6, TruthFrameKeeps DEF TruthFrame, ReceiveSnapshot, Ignore
<2>7. CASE ReceiveStart
  BY <2>7 DEF ReceiveStart, TakeCommand, TruthInv, Truth, HalfTruth, PanelInv, FlagsOK
<2>8. CASE ReceiveShutdown
  BY <2>8 DEF ReceiveShutdown, TakeCommand, CancelAll, TruthInv, Truth, HalfTruth, PanelInv,
       FlagsOK, StopNews, LifecycleAfterStopNews
<2>9. CASE ReceiveReconcile
  BY <2>9 DEF ReceiveReconcile, TakeCommand, CancelAll, TruthInv, Truth, HalfTruth, PanelInv,
       FlagsOK, StopNews, LifecycleAfterStopNews
<2>10. CASE ReceiveNewsPass
  BY <2>10 DEF ReceiveNewsPass, TakeCommand, TruthInv, Truth, HalfTruth, PanelInv, FlagsOK
<2>11. CASE RefuseAlert
  BY <2>11, TruthFrameKeeps DEF TruthFrame, RefuseAlert, Ignore
<2>12. CASE AcceptAlert
  BY <2>12 DEF AcceptAlert, TakeCommand, TruthInv, Truth, HalfTruth, PanelInv, FlagsOK,
       StopNews, LifecycleAfterStopNews
<2>13. CASE ReceiveStop
  BY <2>13 DEF ReceiveStop, TakeCommand, CancelAll, TruthInv, Truth, HalfTruth, PanelInv,
       FlagsOK, StopNews, LifecycleAfterStopNews
<2>14. ASSUME NEW m \in internal, IgnoreStaleMessage(m) PROVE TruthInv'
  BY <2>14, TruthFrameKeeps DEF TruthFrame, IgnoreStaleMessage, Ignore
<2>15. ASSUME NEW m \in internal, NewsFailed(m) PROVE TruthInv'
  BY <2>15 DEF NewsFailed, TruthInv, Truth, HalfTruth, PanelInv, FlagsOK
<2>16. ASSUME NEW m \in internal, NewsStopped(m) PROVE TruthInv'
  BY <2>16 DEF NewsStopped, TakeMessage, TruthInv, Truth, HalfTruth, PanelInv, FlagsOK
<2>17. ASSUME NEW m \in internal, NewsStopTimedOut(m) PROVE TruthInv'
  BY <2>17 DEF NewsStopTimedOut, TakeMessage, TruthInv, Truth, HalfTruth, PanelInv, FlagsOK
<2>18. ASSUME NEW m \in internal, NewsRetry(m) PROVE TruthInv'
  BY <2>18 DEF NewsRetry, TakeMessage, TruthInv, Truth, HalfTruth, PanelInv, FlagsOK
<2>19. ASSUME NEW m \in internal, AlertFinished(m) PROVE TruthInv'
  BY <2>19 DEF AlertFinished, TakeMessage, TruthInv, Truth, HalfTruth, PanelInv, FlagsOK
<2>20. CASE ReconcileCancel
  BY <2>20 DEF ReconcileCancel, CancelAll, EndOfBody, Reconciling, TruthInv, Truth, HalfTruth,
       PanelInv, FlagsOK, StopNews, LifecycleAfterStopNews, ReadyToPaint, WantDisplay,
       NewsInTheWay, WorkersRunning
<2>21. ASSUME NEW ok \in BOOLEAN, ReconcileOff(ok) PROVE TruthInv'
  BY <2>21 DEF ReconcileOff, EndOfBody, StopDisplay, TruthInv, Truth, HalfTruth, PanelInv,
       FlagsOK, ReadyToPaint, Reconciling, WantDisplay, NewsInTheWay, WorkersRunning
<2>22. ASSUME NEW ok \in BOOLEAN, ReconcileEndTemporary(ok) PROVE TruthInv'
  BY <2>22 DEF ReconcileEndTemporary, EndOfBody, StopDisplay, TruthInv, Truth, HalfTruth,
       PanelInv, FlagsOK, ReadyToPaint, Reconciling, WantDisplay, NewsInTheWay,
       WorkersRunning
<2>23. ASSUME NEW ok \in BOOLEAN, StopLoop(ok) PROVE TruthInv'
  BY <2>23 DEF StopLoop, StopDisplay, TruthInv, Truth, HalfTruth, PanelInv, FlagsOK,
       ReadyToPaint, Reconciling, WantDisplay, NewsInTheWay, WorkersRunning
<2>24. CASE StartDisplay
  BY <2>24 DEF StartDisplay, Reconciling, TruthInv, Truth, HalfTruth, PanelInv, FlagsOK,
       ReadyToPaint, WantDisplay, NewsInTheWay, WorkersRunning
<2>25. CASE StartDisplayFails
  BY <2>25 DEF StartDisplayFails, EndOfBody, Reconciling, TruthInv, Truth, HalfTruth,
       PanelInv, FlagsOK, ReadyToPaint, WantDisplay, NewsInTheWay, WorkersRunning
<2>26. CASE ReconcileAlerting
  BY <2>26 DEF ReconcileAlerting, EndOfBody, TruthInv, Truth, HalfTruth, PanelInv, FlagsOK,
       ReadyToPaint, Reconciling, WantDisplay, NewsInTheWay, WorkersRunning
<2>27. CASE ReconcilePause
  BY <2>27 DEF ReconcilePause, EndOfBody, StopNews, TruthInv, Truth, HalfTruth, PanelInv,
       FlagsOK, ReadyToPaint, Reconciling, WantDisplay, NewsInTheWay, WorkersRunning
<2>28. CASE ReconcileStartAlert
  BY <2>28 DEF ReconcileStartAlert, EndOfBody, TruthInv, Truth, HalfTruth, PanelInv, FlagsOK,
       ReadyToPaint, Reconciling, WantDisplay, NewsInTheWay, WorkersRunning
<2>29. CASE ReconcileStartNews
  BY <2>29 DEF ReconcileStartNews, EndOfBody, TruthInv, Truth, HalfTruth, PanelInv, FlagsOK,
       ReadyToPaint, Reconciling, WantDisplay, NewsInTheWay, WorkersRunning
<2>30. CASE ReconcileNothing
  BY <2>30 DEF ReconcileNothing, EndOfBody, TruthInv, Truth, HalfTruth, PanelInv, FlagsOK,
       ReadyToPaint, Reconciling, WantDisplay, NewsInTheWay, WorkersRunning
<2>31. CASE AwaitWorkers
  BY <2>31 DEF AwaitWorkers, EndOfBody, TruthInv, Truth, HalfTruth, PanelInv, FlagsOK,
       ReadyToPaint, Reconciling, WantDisplay, NewsInTheWay, WorkersRunning
<2>32. CASE TakeRefresh
  BY <2>32, TruthFrameKeeps DEF TruthFrame, TakeRefresh
<2>33. CASE ClockLights
  BY <2>33, TruthFrameKeeps DEF TruthFrame, ClockLights
<2>34. ASSUME NEW r \in newsWorkers, NEW failed \in BOOLEAN, NewsExit(r, failed) PROVE TruthInv'
  BY <2>34, TruthFrameKeeps DEF TruthFrame, NewsExit
<2>35. ASSUME NEW w \in alertWorkers, AlertShow(w) PROVE TruthInv'
  BY <2>35, TruthFrameKeeps DEF TruthFrame, AlertShow
<2>36. ASSUME NEW w \in alertWorkers, AlertExit(w) PROVE TruthInv'
  BY <2>36, TruthFrameKeeps DEF TruthFrame, AlertExit
<2> QED BY <1>1, <2>1, <2>2, <2>3, <2>4, <2>5, <2>6, <2>7, <2>8, <2>9, <2>10, <2>11, <2>12,
     <2>13, <2>14, <2>15, <2>16, <2>17, <2>18, <2>19, <2>20, <2>21, <2>22, <2>23, <2>24,
     <2>25, <2>26, <2>27, <2>28, <2>29, <2>30, <2>31, <2>32, <2>33, <2>34, <2>35, <2>36
       DEF Next, Clients, ReceiveCommand, ReceiveMessage, Reconcile, Workers
<1>2. CASE UNCHANGED vars
  BY <1>2, TruthFrameKeeps DEF vars, TruthFrame
<1> QED BY <1>1, <1>2

\* Between two messages a caller of GetStatus reads what runs and how many alerts wait, and
\* never more of them than the configuration allows.
THEOREM StatusIsTrue == Spec => []StatusTellsTheTruth
<1>1. Init => DepthInv /\ TruthInv
  BY ConfigAssumption DEF Init, DepthInv, WaitingBehind, TruthInv, Truth
<1>2. TypeOK /\ OwnershipInv /\ DepthInv /\ TruthInv /\ [Next]_vars => (DepthInv /\ TruthInv)'
  BY DepthStep, TruthStep DEF OwnershipInv
<1>3. TypeOK /\ DepthInv /\ TruthInv => StatusTellsTheTruth
  <2> SUFFICES ASSUME TypeOK, DepthInv, TruthInv, phase = "select" PROVE StatusTellsTheTruth
    BY DEF StatusTellsTheTruth
  <2>1. queuedAlerts = WaitingBehind(alerts) /\ WaitingBehind(alerts) \leq AlertQueueCapacity
    BY DEF DepthInv
  <2>2. WaitingBehind(alerts) = Len(alerts) - (IF ~alertRunning /\ alerts # <<>> THEN 1 ELSE 0)
    BY DEF WaitingBehind, TypeOK, DataOK
  <2>3. Truth
    BY DEF TruthInv
  <2> QED BY <2>1, <2>2, <2>3 DEF StatusTellsTheTruth, Truth
<1> QED BY <1>1, <1>2, <1>3, TypeCorrect, Ownership, PTL DEF Spec

-----------------------------------------------------------------------------
(* The queue of alerts.                                                     *)

\* An alert that waits has a display to wait for: the window's, or a temporary one.
DisplayIsDue == alerts # <<>> => desiredOn \/ temporaryAlertDisplay

DueFrame == UNCHANGED <<alerts, desiredOn, temporaryAlertDisplay>>

LEMMA DueFrameKeeps ==
  ASSUME DisplayIsDue, DueFrame
  PROVE  DisplayIsDue'
  BY DEF DisplayIsDue, DueFrame

LEMMA DueStep == TypeOK /\ DisplayIsDue /\ [Next]_vars => DisplayIsDue'
<1> SUFFICES ASSUME FlagsOK, DataOK, DisplayIsDue, [Next]_vars PROVE DisplayIsDue'
  BY DEF TypeOK
<1>1. ASSUME Next PROVE DisplayIsDue'
<2>1. ASSUME NEW c \in ClientCommands, SendCommand(c) PROVE DisplayIsDue'
  BY <2>1, DueFrameKeeps DEF DueFrame, SendCommand
<2>2. ASSUME NEW c \in ClientCommands, DropCommand(c) PROVE DisplayIsDue'
  BY <2>2, DueFrameKeeps DEF DueFrame, DropCommand
<2>3. ASSUME NEW a \in Alerts, SendAlert(a) PROVE DisplayIsDue'
  BY <2>3, DueFrameKeeps DEF DueFrame, SendAlert
<2>4. CASE Signal
  BY <2>4, DueFrameKeeps DEF DueFrame, Signal
<2>5. CASE ReceiveExpired
  BY <2>5, DueFrameKeeps DEF DueFrame, ReceiveExpired, Ignore
<2>6. CASE ReceiveSnapshot
  BY <2>6, DueFrameKeeps DEF DueFrame, ReceiveSnapshot, Ignore
<2>7. CASE ReceiveStart
  BY <2>7 DEF ReceiveStart, DisplayIsDue
<2>8. CASE ReceiveShutdown
  BY <2>8 DEF ReceiveShutdown, CancelAll, DisplayIsDue
<2>9. CASE ReceiveReconcile
  <3>1. CASE Head(commands).desired
    BY <2>9, <3>1 DEF ReceiveReconcile, DisplayIsDue
  <3>2. CASE ~Head(commands).desired
    BY <2>9, <3>2 DEF ReceiveReconcile, CancelAll, DisplayIsDue
  <3> QED BY <3>1, <3>2
<2>10. CASE ReceiveNewsPass
  BY <2>10, DueFrameKeeps DEF DueFrame, ReceiveNewsPass
<2>11. CASE RefuseAlert
  BY <2>11, DueFrameKeeps DEF DueFrame, RefuseAlert, Ignore
<2>12. CASE AcceptAlert
  BY <2>12 DEF AcceptAlert, DisplayIsDue, NeedsTemporaryDisplay
<2>13. CASE ReceiveStop
  BY <2>13 DEF ReceiveStop, CancelAll, DisplayIsDue
<2>14. ASSUME NEW m \in internal, IgnoreStaleMessage(m) PROVE DisplayIsDue'
  BY <2>14, DueFrameKeeps DEF DueFrame, IgnoreStaleMessage, Ignore
<2>15. ASSUME NEW m \in internal, NewsFailed(m) PROVE DisplayIsDue'
  BY <2>15, DueFrameKeeps DEF DueFrame, NewsFailed
<2>16. ASSUME NEW m \in internal, NewsStopped(m) PROVE DisplayIsDue'
  BY <2>16, DueFrameKeeps DEF DueFrame, NewsStopped
<2>17. ASSUME NEW m \in internal, NewsStopTimedOut(m) PROVE DisplayIsDue'
  BY <2>17, DueFrameKeeps DEF DueFrame, NewsStopTimedOut
<2>18. ASSUME NEW m \in internal, NewsRetry(m) PROVE DisplayIsDue'
  BY <2>18, DueFrameKeeps DEF DueFrame, NewsRetry
<2>19. ASSUME NEW m \in internal, AlertFinished(m) PROVE DisplayIsDue'
  BY <2>19, DueFrameKeeps DEF DueFrame, AlertFinished
<2>20. CASE ReconcileCancel
  BY <2>20 DEF ReconcileCancel, CancelAll, DisplayIsDue
<2>21. ASSUME NEW ok \in BOOLEAN, ReconcileOff(ok) PROVE DisplayIsDue'
  BY <2>21 DEF ReconcileOff, DisplayIsDue
<2>22. ASSUME NEW ok \in BOOLEAN, ReconcileEndTemporary(ok) PROVE DisplayIsDue'
  BY <2>22 DEF ReconcileEndTemporary, DisplayIsDue
<2>23. ASSUME NEW ok \in BOOLEAN, StopLoop(ok) PROVE DisplayIsDue'
  BY <2>23, DueFrameKeeps DEF DueFrame, StopLoop
<2>24. CASE StartDisplay
  BY <2>24, DueFrameKeeps DEF DueFrame, StartDisplay
<2>25. CASE StartDisplayFails
  BY <2>25, DueFrameKeeps DEF DueFrame, StartDisplayFails
<2>26. CASE ReconcileAlerting
  BY <2>26, DueFrameKeeps DEF DueFrame, ReconcileAlerting
<2>27. CASE ReconcilePause
  BY <2>27, DueFrameKeeps DEF DueFrame, ReconcilePause
<2>28. CASE ReconcileStartAlert
  <3>1. alerts # <<>>
    BY <2>28 DEF ReconcileStartAlert
  <3> QED BY <2>28, <3>1 DEF ReconcileStartAlert, DisplayIsDue
<2>29. CASE ReconcileStartNews
  BY <2>29, DueFrameKeeps DEF DueFrame, ReconcileStartNews
<2>30. CASE ReconcileNothing
  BY <2>30, DueFrameKeeps DEF DueFrame, ReconcileNothing
<2>31. CASE AwaitWorkers
  BY <2>31, DueFrameKeeps DEF DueFrame, AwaitWorkers
<2>32. CASE TakeRefresh
  BY <2>32, DueFrameKeeps DEF DueFrame, TakeRefresh
<2>33. CASE ClockLights
  BY <2>33, DueFrameKeeps DEF DueFrame, ClockLights
<2>34. ASSUME NEW r \in newsWorkers, NEW failed \in BOOLEAN, NewsExit(r, failed) PROVE DisplayIsDue'
  BY <2>34, DueFrameKeeps DEF DueFrame, NewsExit
<2>35. ASSUME NEW w \in alertWorkers, AlertShow(w) PROVE DisplayIsDue'
  BY <2>35, DueFrameKeeps DEF DueFrame, AlertShow
<2>36. ASSUME NEW w \in alertWorkers, AlertExit(w) PROVE DisplayIsDue'
  BY <2>36, DueFrameKeeps DEF DueFrame, AlertExit
<2> QED BY <1>1, <2>1, <2>2, <2>3, <2>4, <2>5, <2>6, <2>7, <2>8, <2>9, <2>10, <2>11, <2>12,
     <2>13, <2>14, <2>15, <2>16, <2>17, <2>18, <2>19, <2>20, <2>21, <2>22, <2>23, <2>24,
     <2>25, <2>26, <2>27, <2>28, <2>29, <2>30, <2>31, <2>32, <2>33, <2>34, <2>35, <2>36
       DEF Next, Clients, ReceiveCommand, ReceiveMessage, Reconcile, Workers
<1>2. CASE UNCHANGED vars
  BY <1>2, DueFrameKeeps DEF vars, DueFrame
<1> QED BY <1>1, <1>2

\* What reconcile may do to the queue.
KeepsAlerts ==
  phase = "reconcile" /\ alerts' # alerts =>
    alerts' = Tail(alerts) /\ alertRunning' /\ currentAlert' = Head(alerts)

LEMMA KeepsAlertsStep == DisplayIsDue /\ [Next]_vars => KeepsAlerts
<1> SUFFICES ASSUME DisplayIsDue, [Next]_vars PROVE KeepsAlerts
  OBVIOUS
<1>1. ASSUME Next PROVE KeepsAlerts
<2>1. ASSUME NEW c \in ClientCommands, SendCommand(c) PROVE KeepsAlerts
  BY <2>1 DEF KeepsAlerts, SendCommand
<2>2. ASSUME NEW c \in ClientCommands, DropCommand(c) PROVE KeepsAlerts
  BY <2>2 DEF KeepsAlerts, DropCommand
<2>3. ASSUME NEW a \in Alerts, SendAlert(a) PROVE KeepsAlerts
  BY <2>3 DEF KeepsAlerts, SendAlert
<2>4. CASE Signal
  BY <2>4 DEF KeepsAlerts, Signal
<2>5. CASE ReceiveExpired
  BY <2>5 DEF KeepsAlerts, ReceiveExpired, TakeCommand, Ignore
<2>6. CASE ReceiveSnapshot
  BY <2>6 DEF KeepsAlerts, ReceiveSnapshot, TakeCommand, Ignore
<2>7. CASE ReceiveStart
  BY <2>7 DEF KeepsAlerts, ReceiveStart, TakeCommand
<2>8. CASE ReceiveShutdown
  BY <2>8 DEF KeepsAlerts, ReceiveShutdown, TakeCommand
<2>9. CASE ReceiveReconcile
  BY <2>9 DEF KeepsAlerts, ReceiveReconcile, TakeCommand
<2>10. CASE ReceiveNewsPass
  BY <2>10 DEF KeepsAlerts, ReceiveNewsPass, TakeCommand
<2>11. CASE RefuseAlert
  BY <2>11 DEF KeepsAlerts, RefuseAlert, TakeCommand, Ignore
<2>12. CASE AcceptAlert
  BY <2>12 DEF KeepsAlerts, AcceptAlert, TakeCommand
<2>13. CASE ReceiveStop
  BY <2>13 DEF KeepsAlerts, ReceiveStop, TakeCommand
<2>14. ASSUME NEW m \in internal, IgnoreStaleMessage(m) PROVE KeepsAlerts
  BY <2>14 DEF KeepsAlerts, IgnoreStaleMessage, Ignore
<2>15. ASSUME NEW m \in internal, NewsFailed(m) PROVE KeepsAlerts
  BY <2>15 DEF KeepsAlerts, NewsFailed
<2>16. ASSUME NEW m \in internal, NewsStopped(m) PROVE KeepsAlerts
  BY <2>16 DEF KeepsAlerts, NewsStopped
<2>17. ASSUME NEW m \in internal, NewsStopTimedOut(m) PROVE KeepsAlerts
  BY <2>17 DEF KeepsAlerts, NewsStopTimedOut
<2>18. ASSUME NEW m \in internal, NewsRetry(m) PROVE KeepsAlerts
  BY <2>18 DEF KeepsAlerts, NewsRetry
<2>19. ASSUME NEW m \in internal, AlertFinished(m) PROVE KeepsAlerts
  BY <2>19 DEF KeepsAlerts, AlertFinished
<2>20. CASE ReconcileCancel
  BY <2>20 DEF KeepsAlerts, ReconcileCancel, Reconciling, CancelAll, DisplayIsDue, WantDisplay
<2>21. ASSUME NEW ok \in BOOLEAN, ReconcileOff(ok) PROVE KeepsAlerts
  BY <2>21 DEF KeepsAlerts, ReconcileOff, DisplayIsDue, WantDisplay
<2>22. ASSUME NEW ok \in BOOLEAN, ReconcileEndTemporary(ok) PROVE KeepsAlerts
  BY <2>22 DEF KeepsAlerts, ReconcileEndTemporary
<2>23. ASSUME NEW ok \in BOOLEAN, StopLoop(ok) PROVE KeepsAlerts
  BY <2>23 DEF KeepsAlerts, StopLoop
<2>24. CASE StartDisplay
  BY <2>24 DEF KeepsAlerts, StartDisplay
<2>25. CASE StartDisplayFails
  BY <2>25 DEF KeepsAlerts, StartDisplayFails
<2>26. CASE ReconcileAlerting
  BY <2>26 DEF KeepsAlerts, ReconcileAlerting
<2>27. CASE ReconcilePause
  BY <2>27 DEF KeepsAlerts, ReconcilePause
<2>28. CASE ReconcileStartAlert
  BY <2>28 DEF KeepsAlerts, ReconcileStartAlert
<2>29. CASE ReconcileStartNews
  BY <2>29 DEF KeepsAlerts, ReconcileStartNews
<2>30. CASE ReconcileNothing
  BY <2>30 DEF KeepsAlerts, ReconcileNothing
<2>31. CASE AwaitWorkers
  BY <2>31 DEF KeepsAlerts, AwaitWorkers
<2>32. CASE TakeRefresh
  BY <2>32 DEF KeepsAlerts, TakeRefresh
<2>33. CASE ClockLights
  BY <2>33 DEF KeepsAlerts, ClockLights
<2>34. ASSUME NEW r \in newsWorkers, NEW failed \in BOOLEAN, NewsExit(r, failed) PROVE KeepsAlerts
  BY <2>34 DEF KeepsAlerts, NewsExit
<2>35. ASSUME NEW w \in alertWorkers, AlertShow(w) PROVE KeepsAlerts
  BY <2>35 DEF KeepsAlerts, AlertShow
<2>36. ASSUME NEW w \in alertWorkers, AlertExit(w) PROVE KeepsAlerts
  BY <2>36 DEF KeepsAlerts, AlertExit
<2> QED BY <1>1, <2>1, <2>2, <2>3, <2>4, <2>5, <2>6, <2>7, <2>8, <2>9, <2>10, <2>11, <2>12,
     <2>13, <2>14, <2>15, <2>16, <2>17, <2>18, <2>19, <2>20, <2>21, <2>22, <2>23, <2>24,
     <2>25, <2>26, <2>27, <2>28, <2>29, <2>30, <2>31, <2>32, <2>33, <2>34, <2>35, <2>36
       DEF Next, Clients, ReceiveCommand, ReceiveMessage, Reconcile, Workers
<1>2. CASE UNCHANGED vars
  BY <1>2 DEF vars, KeepsAlerts
<1> QED BY <1>1, <1>2

\* reconcile never gives an accepted alert up: it takes the head of the queue to present it,
\* or leaves the queue alone.
THEOREM AlertsAreKept == Spec => ReconcileKeepsAlerts
<1>1. Init => DisplayIsDue
  BY DEF Init, DisplayIsDue
<1>2. DisplayIsDue /\ [Next]_vars
        => [phase = "reconcile" /\ alerts' # alerts =>
              alerts' = Tail(alerts) /\ alertRunning' /\ currentAlert' = Head(alerts)]_vars
  BY KeepsAlertsStep DEF KeepsAlerts
<1> QED BY <1>1, <1>2, DueStep, TypeCorrect, PTL DEF Spec, ReconcileKeepsAlerts

\* The alert commands in the channel.
AlertAt(i) == i \in 1..Len(commands) /\ commands[i].kind = "alert"

\* Every alert is offered once, and is in the channel once, or has been accepted, or neither:
\* an alert is never accepted twice.
OfferedOnce ==
  /\ accepted \subseteq offered
  /\ \A i \in 1..Len(commands) : AlertAt(i) => commands[i].alert \in offered \ accepted
  /\ \A i, j \in 1..Len(commands) :
       AlertAt(i) /\ AlertAt(j) /\ commands[i].alert = commands[j].alert => i = j

OfferFrame == UNCHANGED <<commands, offered, accepted>>

LEMMA OfferFrameKeeps ==
  ASSUME OfferedOnce, OfferFrame
  PROVE  OfferedOnce'
  BY DEF OfferedOnce, OfferFrame, AlertAt

\* Taking a command leaves the others in their order.
LEMMA TailKeepsOffers ==
  ASSUME DataOK, OfferedOnce, commands # <<>>, commands' = Tail(commands), UNCHANGED offered,
         \/ UNCHANGED accepted
         \/ AlertAt(1) /\ accepted' = accepted \cup {commands[1].alert}
  PROVE  OfferedOnce'
<1>1. /\ Len(commands) \in Nat /\ Len(commands) \geq 1
      /\ Len(commands') = Len(commands) - 1
      /\ \A i \in 1..Len(commands') : commands'[i] = commands[i + 1]
  BY DEF DataOK
<1>2. \A i \in 1..Len(commands') : i + 1 \in 1..Len(commands) /\ i + 1 # 1
  BY <1>1
<1>3. accepted' \subseteq offered'
  BY <1>1 DEF OfferedOnce, AlertAt
<1>4. ASSUME NEW i \in 1..Len(commands'), AlertAt(i)'
      PROVE  commands'[i].alert \in offered' \ accepted'
  <2>1. AlertAt(i + 1) /\ commands'[i] = commands[i + 1]
    BY <1>1, <1>2, <1>4 DEF AlertAt
  <2>2. commands[i + 1].alert \in offered \ accepted
    BY <1>2, <2>1 DEF OfferedOnce
  <2>3. CASE UNCHANGED accepted
    BY <2>1, <2>2, <2>3
  <2>4. CASE AlertAt(1) /\ accepted' = accepted \cup {commands[1].alert}
    <3>1. commands[i + 1].alert # commands[1].alert
      BY <1>1, <1>2, <2>1, <2>4 DEF OfferedOnce
    <3> QED BY <2>1, <2>2, <2>4, <3>1
  <2> QED BY <2>3, <2>4
<1>5. ASSUME NEW i \in 1..Len(commands'), NEW j \in 1..Len(commands'), AlertAt(i)', AlertAt(j)',
             commands'[i].alert = commands'[j].alert
      PROVE  i = j
  <2>1. AlertAt(i + 1) /\ AlertAt(j + 1) /\ commands[i + 1].alert = commands[j + 1].alert
    BY <1>1, <1>2, <1>5 DEF AlertAt
  <2>2. i + 1 = j + 1
    BY <1>2, <2>1 DEF OfferedOnce
  <2> QED BY <2>2
<1> QED BY <1>3, <1>4, <1>5 DEF OfferedOnce

\* A command of another kind, or an alert nobody has offered yet, joins the others.
LEMMA AppendKeepsOffers ==
  ASSUME DataOK, OfferedOnce, NEW c \in Command, commands' = Append(commands, c),
         UNCHANGED accepted,
         \/ c.kind # "alert" /\ UNCHANGED offered
         \/ c.alert \notin offered /\ offered' = offered \cup {c.alert}
  PROVE  OfferedOnce'
<1>1. /\ Len(commands) \in Nat /\ Len(commands') = Len(commands) + 1
      /\ \A i \in 1..Len(commands) : commands'[i] = commands[i]
      /\ commands'[Len(commands) + 1] = c
  BY DEF DataOK
<1>2. ASSUME NEW i \in 1..Len(commands'), i # Len(commands) + 1
      PROVE  i \in 1..Len(commands)
  BY <1>1, <1>2
<1>3. accepted' \subseteq offered'
  BY DEF OfferedOnce
<1>4. ASSUME NEW i \in 1..Len(commands'), AlertAt(i)'
      PROVE  commands'[i].alert \in offered' \ accepted'
  <2>1. CASE i = Len(commands) + 1
    BY <1>1, <1>4, <2>1 DEF AlertAt, OfferedOnce
  <2>2. CASE i # Len(commands) + 1
    BY <1>1, <1>2, <1>4, <2>2 DEF AlertAt, OfferedOnce
  <2> QED BY <2>1, <2>2
<1>5. ASSUME NEW i \in 1..Len(commands'), NEW j \in 1..Len(commands'), AlertAt(i)', AlertAt(j)',
             commands'[i].alert = commands'[j].alert
      PROVE  i = j
  <2>1. ASSUME NEW k \in 1..Len(commands'), k # Len(commands) + 1, AlertAt(k)'
        PROVE  AlertAt(k) /\ commands'[k].alert = commands[k].alert
                 /\ commands[k].alert \in offered
    BY <1>1, <1>2, <2>1 DEF AlertAt, OfferedOnce
  <2>2. ASSUME NEW k \in 1..Len(commands'), k = Len(commands) + 1, AlertAt(k)'
        PROVE  commands'[k].alert \notin offered
    BY <1>1, <2>2 DEF AlertAt
  <2>3. CASE i # Len(commands) + 1 /\ j # Len(commands) + 1
    BY <1>2, <1>5, <2>1, <2>3 DEF OfferedOnce
  <2>4. CASE i = Len(commands) + 1 /\ j # Len(commands) + 1
    <3>1. commands'[j].alert \in offered
      BY <1>5, <2>1, <2>4
    <3>2. commands'[i].alert \notin offered
      BY <1>5, <2>2, <2>4
    <3> QED BY <1>5, <3>1, <3>2
  <2>5. CASE i # Len(commands) + 1 /\ j = Len(commands) + 1
    <3>1. commands'[i].alert \in offered
      BY <1>5, <2>1, <2>5
    <3>2. commands'[j].alert \notin offered
      BY <1>5, <2>2, <2>5
    <3> QED BY <1>5, <3>1, <3>2
  <2> QED BY <2>3, <2>4, <2>5
<1> QED BY <1>3, <1>4, <1>5 DEF OfferedOnce

LEMMA OfferStep == TypeOK /\ OfferedOnce /\ [Next]_vars => OfferedOnce'
<1> SUFFICES ASSUME FlagsOK, DataOK, OfferedOnce, [Next]_vars PROVE OfferedOnce'
  BY DEF TypeOK
<1>1. ASSUME Next PROVE OfferedOnce'
<2>1. ASSUME NEW c \in ClientCommands, SendCommand(c) PROVE OfferedOnce'
  <3>1. c \in Command /\ c.kind # "alert"
    BY BoundsAssumption DEF Command, PlainCommand
  <3> QED BY <2>1, <3>1, AppendKeepsOffers DEF SendCommand, Enqueue
<2>2. ASSUME NEW c \in ClientCommands, DropCommand(c) PROVE OfferedOnce'
  BY <2>2, OfferFrameKeeps DEF OfferFrame, DropCommand
<2>3. ASSUME NEW a \in Alerts, SendAlert(a) PROVE OfferedOnce'
  <3> DEFINE c == CommandOf("alert", FALSE, a)
  <3>1. c \in Command /\ c.alert = a
    BY CommandTypes DEF CommandOf
  <3> QED BY <2>3, <3>1, AppendKeepsOffers DEF SendAlert, Enqueue
<2>4. CASE Signal
  BY <2>4, OfferFrameKeeps DEF OfferFrame, Signal
<2>5. CASE ReceiveExpired
  BY <2>5, TailKeepsOffers DEF TakeCommand, ReceiveExpired, Ignore
<2>6. CASE ReceiveSnapshot
  BY <2>6, TailKeepsOffers DEF TakeCommand, ReceiveSnapshot, Ignore
<2>7. CASE ReceiveStart
  BY <2>7, TailKeepsOffers DEF TakeCommand, ReceiveStart
<2>8. CASE ReceiveShutdown
  BY <2>8, TailKeepsOffers DEF TakeCommand, ReceiveShutdown
<2>9. CASE ReceiveReconcile
  BY <2>9, TailKeepsOffers DEF TakeCommand, ReceiveReconcile
<2>10. CASE ReceiveNewsPass
  BY <2>10, TailKeepsOffers DEF TakeCommand, ReceiveNewsPass
<2>11. CASE RefuseAlert
  BY <2>11, TailKeepsOffers DEF TakeCommand, RefuseAlert, Ignore
<2>12. CASE AcceptAlert
  <3>1. commands # <<>> /\ commands' = Tail(commands) /\ UNCHANGED offered
    BY <2>12 DEF AcceptAlert, TakeCommand
  <3>2. AlertAt(1) /\ Head(commands) = commands[1]
    BY <2>12 DEF AcceptAlert, TakeCommand, AlertAt, DataOK
  <3> QED BY <2>12, <3>1, <3>2, TailKeepsOffers DEF AcceptAlert
<2>13. CASE ReceiveStop
  BY <2>13, TailKeepsOffers DEF TakeCommand, ReceiveStop
<2>14. ASSUME NEW m \in internal, IgnoreStaleMessage(m) PROVE OfferedOnce'
  BY <2>14, OfferFrameKeeps DEF OfferFrame, IgnoreStaleMessage, Ignore
<2>15. ASSUME NEW m \in internal, NewsFailed(m) PROVE OfferedOnce'
  BY <2>15, OfferFrameKeeps DEF OfferFrame, NewsFailed
<2>16. ASSUME NEW m \in internal, NewsStopped(m) PROVE OfferedOnce'
  BY <2>16, OfferFrameKeeps DEF OfferFrame, NewsStopped
<2>17. ASSUME NEW m \in internal, NewsStopTimedOut(m) PROVE OfferedOnce'
  BY <2>17, OfferFrameKeeps DEF OfferFrame, NewsStopTimedOut
<2>18. ASSUME NEW m \in internal, NewsRetry(m) PROVE OfferedOnce'
  BY <2>18, OfferFrameKeeps DEF OfferFrame, NewsRetry
<2>19. ASSUME NEW m \in internal, AlertFinished(m) PROVE OfferedOnce'
  BY <2>19, OfferFrameKeeps DEF OfferFrame, AlertFinished
<2>20. CASE ReconcileCancel
  BY <2>20, OfferFrameKeeps DEF OfferFrame, ReconcileCancel
<2>21. ASSUME NEW ok \in BOOLEAN, ReconcileOff(ok) PROVE OfferedOnce'
  BY <2>21, OfferFrameKeeps DEF OfferFrame, ReconcileOff
<2>22. ASSUME NEW ok \in BOOLEAN, ReconcileEndTemporary(ok) PROVE OfferedOnce'
  BY <2>22, OfferFrameKeeps DEF OfferFrame, ReconcileEndTemporary
<2>23. ASSUME NEW ok \in BOOLEAN, StopLoop(ok) PROVE OfferedOnce'
  BY <2>23, OfferFrameKeeps DEF OfferFrame, StopLoop
<2>24. CASE StartDisplay
  BY <2>24, OfferFrameKeeps DEF OfferFrame, StartDisplay
<2>25. CASE StartDisplayFails
  BY <2>25, OfferFrameKeeps DEF OfferFrame, StartDisplayFails
<2>26. CASE ReconcileAlerting
  BY <2>26, OfferFrameKeeps DEF OfferFrame, ReconcileAlerting
<2>27. CASE ReconcilePause
  BY <2>27, OfferFrameKeeps DEF OfferFrame, ReconcilePause
<2>28. CASE ReconcileStartAlert
  BY <2>28, OfferFrameKeeps DEF OfferFrame, ReconcileStartAlert
<2>29. CASE ReconcileStartNews
  BY <2>29, OfferFrameKeeps DEF OfferFrame, ReconcileStartNews
<2>30. CASE ReconcileNothing
  BY <2>30, OfferFrameKeeps DEF OfferFrame, ReconcileNothing
<2>31. CASE AwaitWorkers
  BY <2>31, OfferFrameKeeps DEF OfferFrame, AwaitWorkers
<2>32. CASE TakeRefresh
  BY <2>32, OfferFrameKeeps DEF OfferFrame, TakeRefresh
<2>33. CASE ClockLights
  BY <2>33, OfferFrameKeeps DEF OfferFrame, ClockLights
<2>34. ASSUME NEW r \in newsWorkers, NEW failed \in BOOLEAN, NewsExit(r, failed) PROVE OfferedOnce'
  BY <2>34, OfferFrameKeeps DEF OfferFrame, NewsExit
<2>35. ASSUME NEW w \in alertWorkers, AlertShow(w) PROVE OfferedOnce'
  BY <2>35, OfferFrameKeeps DEF OfferFrame, AlertShow
<2>36. ASSUME NEW w \in alertWorkers, AlertExit(w) PROVE OfferedOnce'
  BY <2>36, OfferFrameKeeps DEF OfferFrame, AlertExit
<2> QED BY <1>1, <2>1, <2>2, <2>3, <2>4, <2>5, <2>6, <2>7, <2>8, <2>9, <2>10, <2>11, <2>12,
     <2>13, <2>14, <2>15, <2>16, <2>17, <2>18, <2>19, <2>20, <2>21, <2>22, <2>23, <2>24,
     <2>25, <2>26, <2>27, <2>28, <2>29, <2>30, <2>31, <2>32, <2>33, <2>34, <2>35, <2>36
       DEF Next, Clients, ReceiveCommand, ReceiveMessage, Reconcile, Workers
<1>2. CASE UNCHANGED vars
  BY <1>2, OfferFrameKeeps DEF vars, OfferFrame
<1> QED BY <1>1, <1>2

-----------------------------------------------------------------------------
(* The FIFO it implements.                                                  *)

Screen == {w.item : w \in alertWorkers}

\* A step of the queue, or one that it does not see.
QueueStep == Fifo!Next \/ UNCHANGED Fifo!vars

LEMMA FifoFrame ==
  ASSUME UNCHANGED <<alerts, alertWorkers, accepted>>
  PROVE  QueueStep
  BY DEF QueueStep, Fifo!vars

\* A command that ends the window or the service gives the waiting alerts up.
LEMMA FifoEmptied ==
  ASSUME alerts' = <<>>, UNCHANGED <<alertWorkers, accepted>>
  PROVE  QueueStep
<1>1. CASE alerts = <<>>
  BY <1>1 DEF QueueStep, Fifo!vars
<1>2. CASE alerts # <<>>
  BY <1>2 DEF QueueStep, Fifo!Next, Fifo!GiveUp
<1> QED BY <1>1, <1>2

\* At most one alert is on the screen.
LEMMA ScreenCount ==
  ASSUME AlertInv
  PROVE  Cardinality(Screen) \in {0, 1} /\ (~alertRunning => Cardinality(Screen) = 0)
<1>1. CASE alertWorkers = {}
  BY <1>1, FS_EmptySet DEF Screen
<1>2. CASE alertRunning /\ alertWorkers = {[run |-> alertRun, item |-> currentAlert]}
  <2>1. Screen = {currentAlert}
    BY <1>2 DEF Screen
  <2> QED BY <1>2, <2>1, FS_Singleton
<1> QED BY <1>1, <1>2 DEF AlertInv

LEMMA FifoStep == TypeOK /\ OwnershipInv /\ OfferedOnce /\ [Next]_vars => QueueStep
<1> SUFFICES ASSUME FlagsOK, DataOK, AlertInv, OfferedOnce, [Next]_vars PROVE QueueStep
  BY DEF TypeOK, OwnershipInv
<1>1. ASSUME Next PROVE QueueStep
<2>1. ASSUME NEW c \in ClientCommands, SendCommand(c) PROVE QueueStep
  BY <2>1, FifoFrame DEF SendCommand
<2>2. ASSUME NEW c \in ClientCommands, DropCommand(c) PROVE QueueStep
  BY <2>2, FifoFrame DEF DropCommand
<2>3. ASSUME NEW a \in Alerts, SendAlert(a) PROVE QueueStep
  BY <2>3, FifoFrame DEF SendAlert
<2>4. CASE Signal
  BY <2>4, FifoFrame DEF Signal
<2>5. CASE ReceiveExpired
  BY <2>5, FifoFrame DEF ReceiveExpired, Ignore
<2>6. CASE ReceiveSnapshot
  BY <2>6, FifoFrame DEF ReceiveSnapshot, Ignore
<2>7. CASE ReceiveStart
  BY <2>7, FifoFrame DEF ReceiveStart
<2>8. CASE ReceiveShutdown
  BY <2>8, FifoEmptied DEF ReceiveShutdown, CancelAll
<2>9. CASE ReceiveReconcile
  <3>1. CASE Head(commands).desired
    BY <2>9, <3>1, FifoFrame DEF ReceiveReconcile
  <3>2. CASE ~Head(commands).desired
    BY <2>9, <3>2, FifoEmptied DEF ReceiveReconcile, CancelAll
  <3> QED BY <3>1, <3>2
<2>10. CASE ReceiveNewsPass
  BY <2>10, FifoFrame DEF ReceiveNewsPass
<2>11. CASE RefuseAlert
  BY <2>11, FifoFrame DEF RefuseAlert, Ignore
<2>12. CASE AcceptAlert
  <3> DEFINE a == Head(commands).alert
  <3>1. a \in Alerts
    BY <2>12, TakenAlert DEF AcceptAlert
  <3>2. a \notin accepted
    <4>1. AlertAt(1) /\ Head(commands) = commands[1] /\ 1 \in 1..Len(commands)
      BY <2>12 DEF AcceptAlert, TakeCommand, AlertAt, DataOK
    <4> QED BY <4>1 DEF OfferedOnce
  <3>3. Len(alerts) + Cardinality(Screen) \leq AlertQueueCapacity
    <4>1. Len(alerts) \in Nat /\ (alerts = <<>> <=> Len(alerts) = 0)
          /\ AlertQueueCapacity \in Nat \ {0}
      BY ConfigAssumption DEF DataOK
    <4>2. IF alertRunning THEN Len(alerts) < AlertQueueCapacity
                         ELSE Len(alerts) \leq AlertQueueCapacity
      BY <2>12, <4>1 DEF AcceptAlert, AlertRefused, WaitingBehind
    <4>3. Cardinality(Screen) \in {0, 1} /\ (~alertRunning => Cardinality(Screen) = 0)
      BY ScreenCount
    <4> QED BY <4>1, <4>2, <4>3
  <3>4. /\ alerts' = Append(alerts, a) /\ accepted' = accepted \cup {a}
        /\ UNCHANGED alertWorkers
    BY <2>12 DEF AcceptAlert
  <3>5. Fifo!Accept(a)
    <4> HIDE DEF a
    <4>1. Len(alerts) + Fifo!Cardinality({w.item : w \in alertWorkers}) \leq AlertQueueCapacity
      <5>1. \A S : Fifo!Cardinality(S) = Cardinality(S)
        BY DEF Fifo!Cardinality, Cardinality
      <5> QED BY <3>3, <5>1 DEF Screen
    <4>2. {w.item : w \in alertWorkers}' = {w.item : w \in alertWorkers}
      BY <3>4
    <4> QED BY <3>2, <3>4, <4>1, <4>2 DEF Fifo!Accept
  <3> QED BY <3>1, <3>5 DEF QueueStep, Fifo!Next
<2>13. CASE ReceiveStop
  BY <2>13, FifoEmptied DEF ReceiveStop, CancelAll
<2>14. ASSUME NEW m \in internal, IgnoreStaleMessage(m) PROVE QueueStep
  BY <2>14, FifoFrame DEF IgnoreStaleMessage, Ignore
<2>15. ASSUME NEW m \in internal, NewsFailed(m) PROVE QueueStep
  BY <2>15, FifoFrame DEF NewsFailed
<2>16. ASSUME NEW m \in internal, NewsStopped(m) PROVE QueueStep
  BY <2>16, FifoFrame DEF NewsStopped
<2>17. ASSUME NEW m \in internal, NewsStopTimedOut(m) PROVE QueueStep
  BY <2>17, FifoFrame DEF NewsStopTimedOut
<2>18. ASSUME NEW m \in internal, NewsRetry(m) PROVE QueueStep
  BY <2>18, FifoFrame DEF NewsRetry
<2>19. ASSUME NEW m \in internal, AlertFinished(m) PROVE QueueStep
  BY <2>19, FifoFrame DEF AlertFinished
<2>20. CASE ReconcileCancel
  BY <2>20, FifoEmptied DEF ReconcileCancel, CancelAll
<2>21. ASSUME NEW ok \in BOOLEAN, ReconcileOff(ok) PROVE QueueStep
  BY <2>21, FifoEmptied DEF ReconcileOff
<2>22. ASSUME NEW ok \in BOOLEAN, ReconcileEndTemporary(ok) PROVE QueueStep
  BY <2>22, FifoFrame DEF ReconcileEndTemporary
<2>23. ASSUME NEW ok \in BOOLEAN, StopLoop(ok) PROVE QueueStep
  BY <2>23, FifoFrame DEF StopLoop
<2>24. CASE StartDisplay
  BY <2>24, FifoFrame DEF StartDisplay
<2>25. CASE StartDisplayFails
  BY <2>25, FifoFrame DEF StartDisplayFails
<2>26. CASE ReconcileAlerting
  BY <2>26, FifoFrame DEF ReconcileAlerting
<2>27. CASE ReconcilePause
  BY <2>27, FifoFrame DEF ReconcilePause
<2>28. CASE ReconcileStartAlert
  <3>1. alertWorkers = {}
    BY <2>28 DEF ReconcileStartAlert, AlertInv
  <3>2. alertWorkers' = {[run |-> alertRun + 1, item |-> Head(alerts)]}
    BY <2>28, <3>1 DEF ReconcileStartAlert
  <3>3. Screen = {} /\ Screen' = {Head(alerts)}
    BY <3>1, <3>2 DEF Screen
  <3>4. alerts # <<>> /\ alerts' = Tail(alerts) /\ UNCHANGED accepted
    BY <2>28 DEF ReconcileStartAlert
  <3> QED BY <3>3, <3>4 DEF QueueStep, Fifo!Next, Fifo!Start, Screen
<2>29. CASE ReconcileStartNews
  BY <2>29, FifoFrame DEF ReconcileStartNews
<2>30. CASE ReconcileNothing
  BY <2>30, FifoFrame DEF ReconcileNothing
<2>31. CASE AwaitWorkers
  BY <2>31, FifoFrame DEF AwaitWorkers
<2>32. CASE TakeRefresh
  BY <2>32, FifoFrame DEF TakeRefresh
<2>33. CASE ClockLights
  BY <2>33, FifoFrame DEF ClockLights
<2>34. ASSUME NEW r \in newsWorkers, NEW failed \in BOOLEAN, NewsExit(r, failed) PROVE QueueStep
  BY <2>34, FifoFrame DEF NewsExit
<2>35. ASSUME NEW w \in alertWorkers, AlertShow(w) PROVE QueueStep
  BY <2>35, FifoFrame DEF AlertShow
<2>36. ASSUME NEW w \in alertWorkers, AlertExit(w) PROVE QueueStep
  <3>1. alertWorkers = {w}
    BY <2>36 DEF AlertInv
  <3>2. alertWorkers' = {}
    BY <2>36, <3>1 DEF AlertExit
  <3>3. Screen = {w.item} /\ Screen' = {}
    BY <3>1, <3>2 DEF Screen
  <3>4. UNCHANGED <<alerts, accepted>>
    BY <2>36 DEF AlertExit
  <3> QED BY <3>3, <3>4 DEF QueueStep, Fifo!Next, Fifo!Finish, Screen
<2> QED BY <1>1, <2>1, <2>2, <2>3, <2>4, <2>5, <2>6, <2>7, <2>8, <2>9, <2>10, <2>11, <2>12,
     <2>13, <2>14, <2>15, <2>16, <2>17, <2>18, <2>19, <2>20, <2>21, <2>22, <2>23, <2>24,
     <2>25, <2>26, <2>27, <2>28, <2>29, <2>30, <2>31, <2>32, <2>33, <2>34, <2>35, <2>36
       DEF Next, Clients, ReceiveCommand, ReceiveMessage, Reconcile, Workers
<1>2. CASE UNCHANGED vars
  BY <1>2, FifoFrame DEF vars
<1> QED BY <1>1, <1>2

\* The loop with its channels, goroutines, timers and failures implements the abstract FIFO:
\* whatever is cancelled or restarted, alerts reach the screen one at a time, in the order they
\* were accepted, each at most once, and never more wait than the capacity allows.
THEOREM ImplementsFifo == Spec => AlertFifo
<1>1. Init => OfferedOnce /\ Fifo!Init
  BY DEF Init, OfferedOnce, AlertAt, Fifo!Init
<1>2. TypeOK /\ OwnershipInv /\ OfferedOnce /\ [Next]_vars => [Fifo!Next]_(Fifo!vars)
  BY FifoStep DEF QueueStep
<1> QED BY <1>1, <1>2, OfferStep, TypeCorrect, Ownership, PTL DEF Spec, AlertFifo, Fifo!Spec

=============================================================================
