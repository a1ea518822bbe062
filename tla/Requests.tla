------------------------------ MODULE Requests ------------------------------
(***************************************************************************)
(* The protocol between the callers of the supervisor and its loop:        *)
(* request and Stop of internal/supervisor/supervisor.go with the contexts *)
(* of their callers, the reply channel of each command (one buffered       *)
(* value), done and stopResult, and the handlers of internal/grpcserver    *)
(* that call them.                                                         *)
(*                                                                         *)
(* Every caller makes one call, some time.  Of its effect only that it     *)
(* happened is kept, of the workers whether one runs: module Supervisor    *)
(* has what they do.                                                       *)
(***************************************************************************)
EXTENDS Naturals, Sequences

CONSTANTS Callers,
          Calls,                 \* what they may call: functions from Callers to Kinds
          CommandQueueCapacity,
          None

Kinds == {"alert", "news", "status", "stop"}

Replies == {"ok", "refused", "shuttingDown", "context"}

ASSUME RequestsAssumption ==
  /\ Calls \subseteq [Callers -> Kinds]
  /\ CommandQueueCapacity \in Nat \ {0}
  /\ None \notin Callers \cup Replies \cup {"failed"}

VARIABLES
  kind,       \* what each caller calls
  pc,         \* where each call is
  ctxDone,    \* its context is done
  result,     \* what it returned
  reply,      \* the reply channel of its command
  commands,   \* the command channel, by caller
  loop,       \* select, handling (current was taken), ending (its effect is done), done
  current,
  effects,    \* the callers whose command took effect: an accepted alert, a kick, a stop
  stored,     \* the callers whose news item is in Redis
  stopping,   \* shuttingDown
  working,    \* a worker runs
  stopResult  \* the channel of that name

vars == <<kind, pc, ctxDone, result, reply, commands, loop, current, effects, stored, stopping, working,
          stopResult>>

loopVars == <<loop, current, effects, stopping, working, stopResult>>
callVars == <<kind, pc, ctxDone, result, stored>>

TypeOK ==
  /\ kind \in Calls
  /\ pc \in [Callers -> {"storing", "sending", "waiting", "stopping", "returned"}]
  /\ ctxDone \in [Callers -> BOOLEAN]
  /\ result \in [Callers -> Replies \cup {None, "failed"}]
  /\ reply \in [Callers -> Replies \cup {None}]
  /\ commands \in Seq(Callers) /\ Len(commands) \leq CommandQueueCapacity
  /\ loop \in {"select", "handling", "ending", "done"}
  /\ current \in Callers \cup {None}
  /\ effects \subseteq Callers /\ stored \subseteq Callers
  /\ stopping \in BOOLEAN /\ working \in BOOLEAN
  /\ stopResult \in {None, "ok", "failed"}

\* AddNews writes to Redis first; AddAlert, GetStatus and Stop call the supervisor.
Init ==
  /\ kind \in Calls
  /\ pc = [c \in Callers |-> IF kind[c] = "news" THEN "storing" ELSE "sending"]
  /\ ctxDone = [c \in Callers |-> FALSE]
  /\ result = [c \in Callers |-> None]
  /\ reply = [c \in Callers |-> None]
  /\ commands = <<>>
  /\ loop = "select" /\ current = None
  /\ effects = {} /\ stored = {}
  /\ stopping = FALSE /\ working \in BOOLEAN /\ stopResult = None

-----------------------------------------------------------------------------
(* The callers.                                                             *)

Goto(c, place) == pc' = [pc EXCEPT ![c] = place]

\* AddNews returns ok once the item is stored, whatever becomes of the notification.
Answer(c, r) == IF kind[c] = "news" THEN "ok" ELSE r

Return(c, r) ==
  /\ Goto(c, "returned")
  /\ result' = [result EXCEPT ![c] = r]

Store(c) ==
  /\ pc[c] = "storing"
  /\ \/ Goto(c, "sending") /\ stored' = stored \cup {c} /\ UNCHANGED result
     \/ Return(c, "failed") /\ stored' \in {stored, stored \cup {c}}
  /\ UNCHANGED <<ctxDone, reply, commands, loopVars, kind>>

\* The deadline, the client that goes away, or Stop of the gRPC server.
ContextEnds(c) ==
  /\ pc[c] # "returned" /\ ~ctxDone[c]
  /\ ctxDone' = [ctxDone EXCEPT ![c] = TRUE]
  /\ UNCHANGED <<pc, result, reply, commands, loopVars, kind, stored>>

HasRoom_Bug == Len(commands) \leq CommandQueueCapacity
HasRoom == Len(commands) < CommandQueueCapacity

\* The first select of request; any branch that is ready.
Send(c) ==
  /\ pc[c] = "sending" /\ HasRoom
  /\ commands' = Append(commands, c)
  /\ Goto(c, "waiting")
  /\ UNCHANGED <<ctxDone, result, reply, loopVars, kind, stored>>

\* The second.
GetReply(c) ==
  /\ pc[c] = "waiting" /\ reply[c] # None
  /\ reply' = [reply EXCEPT ![c] = None]
  /\ IF kind[c] = "stop" /\ reply[c] = "ok"
     THEN Goto(c, "stopping") /\ UNCHANGED result
     ELSE Return(c, Answer(c, reply[c]))
  /\ UNCHANGED <<ctxDone, commands, loopVars, kind, stored>>

\* In both, and in the select of Stop.
SeeContext(c) ==
  /\ pc[c] \in {"sending", "waiting", "stopping"} /\ ctxDone[c]
  /\ Return(c, Answer(c, "context"))
  /\ UNCHANGED <<ctxDone, reply, commands, loopVars, kind, stored>>

DoneIsHeard_Bug(c) == pc[c] = "sending"
DoneIsHeard(c) == pc[c] \in {"sending", "waiting"}

SeeDone(c) ==
  /\ DoneIsHeard(c) /\ loop = "done"
  /\ Return(c, Answer(c, "shuttingDown"))
  /\ UNCHANGED <<ctxDone, reply, commands, loopVars, kind, stored>>

GetStopResult(c) ==
  /\ pc[c] = "stopping" /\ stopResult # None
  /\ Return(c, stopResult)
  /\ stopResult' = None
  /\ UNCHANGED <<ctxDone, reply, commands, loop, current, effects, kind, stored, stopping, working>>

-----------------------------------------------------------------------------
(* The loop.                                                                *)

\* The value is put in the buffer of the channel: there must be room for it.
Reply(c, r) == reply[c] = None /\ reply' = [reply EXCEPT ![c] = r]

\* A command whose context is done is answered and dropped.
Expired(c) == ctxDone[c]

Begin(c) == loop' = "handling" /\ current' = c

Drop_Bug(c) == Reply(c, "context") /\ Begin(c)
Drop(c) == Reply(c, "context") /\ UNCHANGED <<loop, current>>

Take ==
  /\ loop = "select" /\ commands # <<>>
  /\ commands' = Tail(commands)
  /\ IF Expired(Head(commands))
     THEN Drop(Head(commands))
     ELSE Begin(Head(commands)) /\ UNCHANGED reply
  /\ UNCHANGED <<callVars, effects, stopping, working, stopResult>>

Handled == loop' = "select" /\ current' = None

Snapshot ==
  /\ loop = "handling" /\ kind[current] = "status"
  /\ Reply(current, "ok")
  /\ Handled
  /\ UNCHANGED <<callVars, commands, effects, stopping, working, stopResult>>

\* shuttingDown; outside the window or a full queue.
Refusal_Bug == IF stopping THEN "ok" ELSE "refused"
Refusal == IF stopping THEN "shuttingDown" ELSE "refused"

RefuseAlert ==
  /\ loop = "handling" /\ kind[current] = "alert"
  /\ Reply(current, Refusal)
  /\ Handled
  /\ UNCHANGED <<callVars, commands, effects, stopping, working, stopResult>>

\* The alert is in the queue when the caller is told, and reconcile comes after it.
AcceptAlert ==
  /\ loop = "handling" /\ kind[current] = "alert" /\ ~stopping
  /\ effects' = effects \cup {current}
  /\ Reply(current, "ok")
  /\ loop' = "ending"
  /\ UNCHANGED <<callVars, commands, current, stopping, working, stopResult>>

\* NotifyNewsChanged is answered after reconcile.
NewsChanged ==
  /\ loop = "handling" /\ kind[current] = "news"
  /\ effects' = effects \cup {current}
  /\ loop' = "ending"
  /\ UNCHANGED <<callVars, reply, commands, current, stopping, working, stopResult>>

BeginStop ==
  /\ loop = "handling" /\ kind[current] = "stop"
  /\ effects' = effects \cup {current}
  /\ stopping' = TRUE
  /\ Reply(current, "ok")
  /\ loop' = "ending"
  /\ UNCHANGED <<callVars, commands, current, working, stopResult>>

\* The end of the body: a worker may have been started, and when the service stops and
\* none runs, the panel is cleared and the loop ends.
LastWords == stopResult' \in {"ok", "failed"}
LeavesWith_Bug == stopping
LeavesWith == stopping /\ ~working

EndOfBody ==
  /\ IF LeavesWith
     THEN stopResult = None /\ LastWords /\ loop' = "done" /\ UNCHANGED working
     ELSE /\ loop' = "select" /\ UNCHANGED stopResult
          /\ IF stopping THEN UNCHANGED working ELSE working' \in {working, TRUE}
  /\ current' = None

EndCommand ==
  /\ loop = "ending"
  /\ IF kind[current] = "news"
     THEN \E r \in {"ok", "refused"} : Reply(current, r)
     ELSE UNCHANGED reply
  /\ EndOfBody
  /\ UNCHANGED <<callVars, commands, effects, stopping>>

\* The result of a worker, which the loop takes in the same select; reconcile may start
\* the next one.
WorkerEnds ==
  /\ loop = "select" /\ working
  /\ IF stopping
     THEN stopResult = None /\ LastWords /\ loop' = "done" /\ working' = FALSE
     ELSE UNCHANGED <<loop, stopResult>> /\ working' \in BOOLEAN
  /\ UNCHANGED <<callVars, reply, commands, current, effects, stopping>>

-----------------------------------------------------------------------------
Waits(c) == Send(c) \/ GetReply(c) \/ SeeContext(c) \/ SeeDone(c) \/ GetStopResult(c)

CallSteps(c) == Store(c) \/ ContextEnds(c) \/ Waits(c)

Handle == Snapshot \/ RefuseAlert \/ AcceptAlert \/ NewsChanged \/ BeginStop

Loop == Take \/ Handle \/ EndCommand

Next == (\E c \in Callers : CallSteps(c)) \/ Loop \/ WorkerEnds

Spec == Init /\ [][Next]_vars

-----------------------------------------------------------------------------
(* Safety.                                                                  *)

\* What a caller is told of its alert is true, but for the contexts and done, which may
\* win against a reply that is there: ok means accepted, refused means not.
RepliesAreTrue ==
  \A c \in Callers :
    /\ kind[c] = "alert" /\ (result[c] = "ok" \/ reply[c] = "ok") => c \in effects
    /\ result[c] = "refused" \/ reply[c] \in {"refused", "context", "shuttingDown"}
         => c \notin effects \/ kind[c] = "news"

\* The loop answers a command once at most, so that it never waits for a caller: the
\* reply channel of what is waiting or being handled is empty.
ReplyHasRoom ==
  /\ \A i \in DOMAIN commands : reply[commands[i]] = None
  /\ loop = "handling" => reply[current] = None
  /\ loop = "ending" /\ kind[current] = "news" => reply[current] = None

\* AddNews says ok of a stored item only, and Stop only when the loop has ended with no
\* worker running.
OkIsFinal ==
  \A c \in Callers : result[c] = "ok" =>
    /\ kind[c] = "news" => c \in stored
    /\ kind[c] = "stop" => loop = "done" /\ ~working

-----------------------------------------------------------------------------
(* Liveness: callers and loop are scheduled; workers that were cancelled    *)
(* end, and others too (module Supervisor: every run ends or is cancelled). *)

Fairness ==
  /\ \A c \in Callers : WF_vars(Store(c) \/ Waits(c))
  /\ WF_vars(Loop)
  /\ WF_vars(WorkerEnds)

LiveSpec == Spec /\ Fairness

\* Every call returns, without the help of its deadline: by its reply or, when the loop
\* ends with the command still in the channel, by done.
CallsReturn == \A c \in Callers : <>(pc[c] = "returned")

=============================================================================
