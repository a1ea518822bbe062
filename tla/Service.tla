------------------------------ MODULE Service -------------------------------
(***************************************************************************)
(* cmd/news-screen/main.go and internal/scheduler: boot, the cron of the   *)
(* daily window and of the news passes, the gRPC server, and the shutdown  *)
(* in its order, around the command channel of the supervisor.             *)
(*                                                                         *)
(* The supervisor is here what main sees of it: its loop takes commands in *)
(* order, keeps DesiredOn, answers Stop at once and ends when its workers  *)
(* have ended and the panel was cleared (module Supervisor has the rest).  *)
(* Time is counted in minutes and a boundary is the beginning of its       *)
(* minute.  Timeouts are choices: whatever has one may end.                *)
(***************************************************************************)
EXTENDS Naturals, Sequences

CONSTANTS Day,      \* minutes of a day
          Hour,     \* minutes of an hour
          Every,    \* NewsRefreshInterval
          Windows,  \* the pairs <<start, stop>> a configuration may name
          CommandQueueCapacity,
          MaxBlocked  \* bound: gRPC calls that wait for room in the channel

\* What config.Validate accepts, of the settings that matter here.
Validate ==
  /\ Hour \in Nat \ {0} /\ Every \in 1..Hour /\ Hour % Every = 0
  /\ Day \in Nat \ {0} /\ Day % Hour = 0
  /\ Windows \subseteq {w \in (0..Day - 1) \X (0..Day - 1) : w[1] # w[2]}
  /\ CommandQueueCapacity \in Nat \ {0}
  /\ MaxBlocked \in Nat

ASSUME ConfigAssumption == Validate

VARIABLES
  window,     \* the configured window
  now,        \* the minute of the day
  pc,         \* where main is
  computed,   \* main's desired
  queue,      \* the channel commands, by kind
  loop,       \* the supervisor's loop: running, stopping (shuttingDown), done
  desired,    \* its DesiredOn
  cleared,    \* the panel was cleared when it ended
  cron,       \* the cron runs
  jobs,       \* goroutines of cron that have not sent their command yet
  server,     \* the gRPC server
  blocked,    \* calls that wait for room in the channel
  signalled,  \* SIGTERM has arrived
  status,     \* how main returned, or that it is about to return an error
  lost        \* the last boundary of the window did not reach the channel

vars == <<window, now, pc, computed, queue, loop, desired, cleared, cron, jobs, server, blocked,
          signalled, status, lost>>

supervisor == <<queue, loop, desired, cleared>>
clients    == <<server, blocked>>
schedule   == <<now, cron, jobs, lost>>

Kind == {"on", "off", "start", "shutdown", "pass", "call", "expired", "stop"}

\* Main still runs, and with it every goroutine of the process.
Alive == pc # "exited"

TypeOK ==
  /\ window \in Windows /\ now \in 0..Day - 1
  /\ pc \in {"boot", "send", "reconcile", "cron", "listen", "serving", "drainCron",
             "drainCalls", "awaitCalls", "stop", "stopReply", "stopResult", "exited"}
  /\ queue \in Seq(Kind) /\ Len(queue) \leq CommandQueueCapacity
  /\ loop \in {"running", "stopping", "done"}
  /\ computed \in BOOLEAN /\ desired \in BOOLEAN /\ cleared \in BOOLEAN /\ cron \in BOOLEAN
  /\ signalled \in BOOLEAN /\ lost \in BOOLEAN
  /\ jobs \subseteq {"start", "shutdown", "pass"}
  /\ server \in {"off", "serving", "draining", "stopped", "forced"}
  /\ blocked \in 0..MaxBlocked
  /\ status \in {"none", "error", "ok"}

Init ==
  /\ window \in Windows /\ now \in 0..Day - 1
  /\ pc = "boot" /\ computed = FALSE
  /\ queue = <<>> /\ loop = "running" /\ desired = FALSE /\ cleared = FALSE
  /\ cron = FALSE /\ jobs = {} /\ server = "off" /\ blocked = 0
  /\ signalled = FALSE /\ status = "none" /\ lost = FALSE

-----------------------------------------------------------------------------
(* internal/scheduler.                                                      *)

Start == window[1]
Stop  == window[2]

\* IsInsideActiveWindow: [start, stop), which may reach over midnight.
Inside_Bug(t) == IF Start < Stop THEN Start \leq t /\ t < Stop ELSE Start \leq t /\ t < Stop
Inside(t) == IF Start < Stop THEN Start \leq t /\ t < Stop ELSE Start \leq t \/ t < Stop

\* NewsPassCronSpec: the minutes of every hour.
PassMinutes == {m \in 0..Hour - 1 : m % Every = 0}

\* The entries of the cron, with the minutes they are due.
Entry == [start    |-> {Start},
          shutdown |-> {Stop},
          pass     |-> {t \in 0..Day - 1 : t % Hour \in PassMinutes}]
Due(t) == {j \in DOMAIN Entry : t \in Entry[j]}
Boundary(t) == t \in {Start, Stop}

NextMinute == IF now = Day - 1 THEN 0 ELSE now + 1

\* A minute passes.  The goroutine of an entry never blocks (trySend), so it has ended
\* before the next minute begins.
Tick ==
  /\ jobs = {} \/ ~Alive
  /\ now' = NextMinute
  /\ jobs' = IF cron /\ Alive THEN Due(NextMinute) ELSE {}
  /\ lost' = IF Boundary(NextMinute) THEN ~cron ELSE lost
  /\ UNCHANGED <<window, pc, computed, supervisor, cron, clients, signalled, status>>

-----------------------------------------------------------------------------
(* The channel of the supervisor.                                           *)

HasRoom_Bug == Len(queue) \leq CommandQueueCapacity
HasRoom == Len(queue) < CommandQueueCapacity

\* trySend from the goroutine of a cron entry; the goroutines of one minute in any order.
JobSends(j) ==
  /\ Alive /\ j \in jobs
  /\ jobs' = jobs \ {j}
  /\ HasRoom
  /\ queue' = Append(queue, j)
  /\ UNCHANGED <<window, now, pc, computed, loop, desired, cleared, cron, clients, signalled,
                 status, lost>>

\* Its default branch, and a loop that is done.
JobDropped(j) ==
  /\ Alive /\ j \in jobs
  /\ jobs' = jobs \ {j}
  /\ ~HasRoom \/ loop = "done"
  /\ lost' = (lost \/ j \in {"start", "shutdown"})
  /\ UNCHANGED <<window, now, pc, computed, supervisor, cron, clients, signalled, status>>

\* request from a handler: it waits for room or for its deadline.
CallArrives ==
  /\ Alive /\ server = "serving" /\ blocked < MaxBlocked
  /\ blocked' = blocked + 1
  /\ UNCHANGED <<window, pc, computed, supervisor, schedule, server, signalled, status>>

CallSends ==
  /\ Alive /\ blocked > 0 /\ HasRoom
  /\ blocked' = blocked - 1
  /\ queue' = Append(queue, "call")
  /\ UNCHANGED <<window, pc, computed, loop, desired, cleared, schedule, server, signalled,
                 status>>

CallGivesUp ==
  /\ Alive /\ blocked > 0
  /\ blocked' = blocked - 1
  /\ UNCHANGED <<window, pc, computed, supervisor, schedule, server, signalled, status>>

\* The commands whose callers have given up stay in the channel.
Expired(q, kinds) == [i \in DOMAIN q |-> IF q[i] \in kinds THEN "expired" ELSE q[i]]

\* A handler that waits for its reply returns as its context is done.
CallExpires ==
  /\ Alive
  /\ \E i \in DOMAIN queue : queue[i] = "call" /\ queue' = [queue EXCEPT ![i] = "expired"]
  /\ UNCHANGED <<window, pc, computed, loop, desired, cleared, schedule, clients, signalled,
                 status>>

TurnsOn  == {"on", "start"}
TurnsOff == {"off", "shutdown", "stop"}

\* The loop takes a command.  One whose context is done has no effect; of the others only
\* what they do to DesiredOn is seen here.
Take ==
  /\ Alive /\ loop # "done" /\ queue # <<>>
  /\ queue' = Tail(queue)
  /\ desired' = IF Head(queue) \in TurnsOn THEN TRUE
                ELSE IF Head(queue) \in TurnsOff THEN FALSE ELSE desired
  /\ loop' = IF Head(queue) = "stop" THEN "stopping" ELSE loop
  /\ UNCHANGED <<window, pc, computed, cleared, schedule, clients, signalled, status>>

\* The workers have ended: stopDisplay, stopResult, close(done).
LoopEnds ==
  /\ Alive /\ loop = "stopping"
  /\ loop' = "done"
  /\ cleared' \in BOOLEAN
  /\ UNCHANGED <<window, pc, computed, queue, desired, schedule, clients, signalled, status>>

-----------------------------------------------------------------------------
(* main: boot.                                                              *)

ComputeDesired ==
  /\ pc = "boot"
  /\ pc' = "send"
  /\ computed' = Inside(now)
  /\ lost' = FALSE
  /\ UNCHANGED <<window, now, supervisor, cron, jobs, clients, signalled, status>>

SendReconcile ==
  /\ pc = "send"
  /\ pc' = "reconcile"
  /\ queue' = Append(queue, IF computed THEN "on" ELSE "off")
  /\ UNCHANGED <<window, computed, loop, desired, cleared, schedule, clients, signalled, status>>

\* The reply: the loop has handled the only command there is.
Reconciled ==
  /\ pc = "reconcile" /\ queue = <<>>
  /\ pc' = "cron"
  /\ UNCHANGED <<window, computed, supervisor, schedule, clients, signalled, status>>

\* The panel could not be switched, or OperationTimeout.
ReconcileFails ==
  /\ pc = "reconcile"
  /\ pc' = "stop" /\ status' = "error"
  /\ queue' = Expired(queue, {"on", "off"})
  /\ UNCHANGED <<window, computed, loop, desired, cleared, schedule, clients, signalled>>

StartCron ==
  /\ pc = "cron"
  /\ pc' = "listen"
  /\ cron' = TRUE
  /\ UNCHANGED <<window, now, computed, supervisor, jobs, clients, signalled, status, lost>>

Listen ==
  /\ pc = "listen"
  /\ pc' = "serving"
  /\ server' = "serving"
  /\ UNCHANGED <<window, computed, supervisor, schedule, blocked, signalled, status>>

\* The address, the token or the TLS files are refused; later, Serve fails.  Neither the
\* cron nor the calls in flight are stopped on these paths, only the supervisor.
ServeFails ==
  /\ pc \in {"listen", "serving"}
  /\ pc' = "stop" /\ status' = "error"
  /\ UNCHANGED <<window, computed, supervisor, schedule, clients, signalled>>

-----------------------------------------------------------------------------
(* main: shutdown.                                                          *)

Signal ==
  /\ Alive /\ ~signalled
  /\ signalled' = TRUE
  /\ UNCHANGED <<window, pc, computed, supervisor, schedule, clients, status>>

StopCron ==
  /\ pc = "serving" /\ signalled
  /\ pc' = "drainCron"
  /\ cron' = FALSE
  /\ UNCHANGED <<window, now, computed, supervisor, jobs, clients, signalled, status, lost>>

\* <-cronCtx.Done().  Its timeout is for jobs that block, and none does.
JobsEnded_Bug == TRUE
JobsEnded == jobs = {}

CronStopped ==
  /\ pc = "drainCron" /\ JobsEnded
  /\ pc' = "drainCalls"
  /\ server' = "draining"
  /\ UNCHANGED <<window, computed, supervisor, schedule, blocked, signalled, status>>

\* <-grpcDone: GracefulStop has returned, as every handler has.  main waits for it with a
\* timeout and, after that, without one.
CallsAnswered ==
  /\ pc \in {"drainCalls", "awaitCalls"}
  /\ blocked = 0 /\ \A i \in DOMAIN queue : queue[i] # "call"
  /\ pc' = "stop"
  /\ server' = "stopped"
  /\ UNCHANGED <<window, computed, supervisor, schedule, blocked, signalled, status>>

\* GRPCShutdownTimeout, then grpcServer.Stop(): it cancels the contexts of the calls and
\* leaves it to GracefulStop to wait for their handlers.
AfterTimeout_Bug == "draining"
AfterTimeout == "forced"

CallsCancelled ==
  /\ pc = "drainCalls"
  /\ pc' = "awaitCalls"
  /\ server' = AfterTimeout
  /\ UNCHANGED <<window, computed, supervisor, schedule, blocked, signalled, status>>

\* Supervisor.Stop: the command, its reply, and the result of stopDisplay.
SendStop ==
  /\ pc = "stop" /\ HasRoom
  /\ pc' = "stopReply"
  /\ queue' = Append(queue, "stop")
  /\ UNCHANGED <<window, computed, loop, desired, cleared, schedule, clients, signalled, status>>

StopReply ==
  /\ pc = "stopReply" /\ loop # "running"
  /\ pc' = "stopResult"
  /\ UNCHANGED <<window, computed, supervisor, schedule, clients, signalled, status>>

Exit(s) ==
  /\ pc' = "exited"
  /\ status' = s
  /\ UNCHANGED <<window, computed, supervisor, schedule, clients, signalled>>

\* The error of stopDisplay is returned.
StopResult ==
  /\ pc = "stopResult" /\ loop = "done"
  /\ Exit(IF status = "none" /\ cleared THEN "ok" ELSE "error")

\* The select of request takes done although the reply is there, or a context ends.
StopGivesUp ==
  /\ pc \in {"stop", "stopReply", "stopResult"}
  /\ Exit("error")

Crash == Alive /\ Exit("error")

\* The process is started again: nothing of it is left.
Restart ==
  /\ ~Alive
  /\ pc' = "boot" /\ computed' = FALSE
  /\ queue' = <<>> /\ loop' = "running" /\ desired' = FALSE /\ cleared' = FALSE
  /\ cron' = FALSE /\ jobs' = {} /\ server' = "off" /\ blocked' = 0
  /\ signalled' = FALSE /\ status' = "none" /\ lost' = FALSE
  /\ UNCHANGED <<window, now>>

-----------------------------------------------------------------------------
Boot == \/ ComputeDesired \/ SendReconcile \/ Reconciled \/ ReconcileFails
        \/ StartCron \/ Listen \/ ServeFails

Shutdown == \/ StopCron \/ CronStopped \/ CallsAnswered \/ CallsCancelled
            \/ SendStop \/ StopReply \/ StopResult \/ StopGivesUp

Job == \E j \in jobs : JobSends(j) \/ JobDropped(j)

CallEnds == CallGivesUp \/ CallExpires

Call == CallArrives \/ CallSends \/ CallEnds

Next == Tick \/ Job \/ Call \/ Take \/ LoopEnds \/ Boot \/ Signal \/ Shutdown \/ Crash \/ Restart

Spec == Init /\ [][Next]_vars

-----------------------------------------------------------------------------
(* Safety.                                                                  *)

\* When the commands of q are taken, DesiredOn, now d, becomes b: the last that switches decides.
Switches(q) == {i \in DOMAIN q : q[i] \in TurnsOn \cup TurnsOff}
Leads(q, d, b) ==
  /\ Switches(q) = {} => d = b
  /\ \A i \in Switches(q) : (\A k \in Switches(q) : k \leq i) => (q[i] \in TurnsOn) = b

Settles(b) == Leads(queue, desired, b)

\* Boot and cron agree on the window: once the cron runs, and when the goroutines of the
\* minute have sent, the commands given so far leave the service on exactly inside the
\* configured window - unless the last boundary was lost, in a full channel or between
\* the computation at boot and the start of the cron.  What was lost is repaired by the
\* next boundary, and by a restart.
WindowAgrees ==
  pc \in {"listen", "serving"} /\ ~lost /\ jobs \cap {"start", "shutdown"} = {}
    => Settles(Inside(now))

\* The order of the shutdown: once the gRPC server has gone, whether its calls were answered
\* or cancelled, the cron has gone too, Stop is the last command, and nobody is told that
\* the service shuts down whose call was accepted.
StopIsLast ==
  server = "stopped" =>
    /\ blocked = 0 /\ jobs = {}
    /\ \A i \in DOMAIN queue : queue[i] = "stop" => i = Len(queue)
    /\ loop # "running" => queue = <<>>

-----------------------------------------------------------------------------
(* Liveness: main, cron goroutines and the loop are scheduled.  Nothing is  *)
(* asked of a call until grpcServer.Stop() has cancelled its context; from  *)
(* then on its handler returns, as every select and every call to Redis of  *)
(* a handler has the context.                                               *)

Fairness ==
  /\ WF_vars(Boot)
  /\ WF_vars(Shutdown)
  /\ WF_vars(Job)
  /\ WF_vars(Take)
  /\ WF_vars(LoopEnds)
  /\ WF_vars(server = "forced" /\ CallEnds)

LiveSpec == Spec /\ Fairness

\* A signal ends the process, whatever the calls, the cron and the supervisor do: also the
\* wait for GracefulStop, which has no timeout of its own, is over once the calls are
\* cancelled.
SignalEnds == signalled ~> ~Alive

-----------------------------------------------------------------------------
(* What the documentation says and the code does not do.                    *)

\* "A genre-wise news pass starts at every :00, :15, :30, and :45" inside the window: when
\* a pass is requested in a minute of the window, the window has been opened before.
EveryPassIsServed ==
  [][\A j \in jobs : JobSends(j) /\ pc = "serving" /\ ~lost /\ j = "pass" /\ Inside(now)
       => Settles(TRUE)']_vars

=============================================================================
