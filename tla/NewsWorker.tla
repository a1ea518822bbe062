----------------------------- MODULE NewsWorker -----------------------------
(***************************************************************************)
(* internal/newsworkflow/worker.go: the goroutine that shows the clock and *)
(* runs one news pass for every signal on refreshNow.  It paints through   *)
(* two goroutines of its own, the clock (RunClock) and the pass            *)
(* (ShowNewsCycle), each with a context it cancels and a result channel.   *)
(*                                                                         *)
(* The supervisor appears as it is seen from here: it puts a token in      *)
(* refreshNow while it believes that news runs, cancels the run, and after *)
(* the run has returned shows something else and starts the next one.  The *)
(* channel refreshNow belongs to the supervisor and outlives every run.    *)
(***************************************************************************)
EXTENDS Naturals

CONSTANTS MaxTicks,    \* bound: signals sent
          MaxRuns,     \* bound: runs of the worker
          MaxFaults    \* bound: failures of the device or of Redis

ASSUME WorkerBounds == MaxTicks \in Nat /\ MaxRuns \in Nat /\ MaxFaults \in Nat

VARIABLES
  pc,          \* where Run is; the select it waits in
  pending,     \* a pass was requested during a pass
  refreshNow,  \* the token of the channel
  cancelled,   \* the context of the run
  clock,       \* the goroutine of RunClock
  clockStop,   \* its context, cancelled by the worker
  cycle,       \* the goroutine of ShowNewsCycle
  failing,     \* the goroutine that ended has delivered an error
  screen,      \* what was painted last
  ticks, passes, \* signals accepted so far, passes begun so far
  owed,        \* a signal was accepted since the last pass began, and no run has returned with it
  runs, faults

vars == <<pc, pending, refreshNow, cancelled, clock, clockStop, cycle, failing, screen,
          ticks, passes, owed, runs, faults>>

workerVars == <<pc, pending, cancelled, clock, clockStop, cycle, failing>>
tickVars   == <<refreshNow, ticks, owed>>

Goroutine == {"alive", "gone"}   \* gone: not started, or its result is in its channel

TypeOK ==
  /\ pc \in {"top", "clock", "waitRefresh", "paintOnce", "joinClock", "joinClockThenPass",
             "cycle", "joinCycle", "returned"}
  /\ clock \in Goroutine /\ cycle \in Goroutine
  /\ screen \in {"clock", "news", "other"}
  /\ pending \in BOOLEAN /\ refreshNow \in BOOLEAN /\ cancelled \in BOOLEAN
  /\ clockStop \in BOOLEAN /\ failing \in BOOLEAN /\ owed \in BOOLEAN
  /\ ticks \in 0..MaxTicks /\ passes \in 0..MaxTicks /\ runs \in Nat /\ faults \in Nat

Init ==
  /\ pc = "top" /\ pending = FALSE /\ refreshNow = FALSE /\ cancelled = FALSE
  /\ clock = "gone" /\ clockStop = FALSE /\ cycle = "gone" /\ failing = FALSE
  /\ screen = "other"
  /\ ticks = 0 /\ passes = 0 /\ owed = FALSE
  /\ runs = 1 /\ faults = 0

-----------------------------------------------------------------------------
(* The supervisor.                                                          *)

\* A news pass is requested while news runs and is not being stopped; the buffer of one
\* coalesces.
Tick ==
  /\ ~cancelled
  /\ ticks < MaxTicks
  /\ ticks' = ticks + 1
  /\ refreshNow' = TRUE
  /\ owed' = TRUE
  /\ UNCHANGED <<workerVars, screen, passes, runs, faults>>

Cancel ==
  /\ ~cancelled
  /\ cancelled' = TRUE
  /\ UNCHANGED <<pc, pending, clock, clockStop, cycle, failing, screen, tickVars, passes, runs,
                 faults>>

\* The result was handled, the panel was used for something else, news starts again.
NextRun ==
  /\ pc = "returned"
  /\ runs < MaxRuns
  /\ runs' = runs + 1
  /\ pc' = "top" /\ pending' = FALSE /\ cancelled' = FALSE
  /\ screen' = "other"
  /\ owed' = refreshNow
  /\ UNCHANGED <<refreshNow, clock, clockStop, cycle, failing, ticks, passes, faults>>

-----------------------------------------------------------------------------
(* Run.                                                                     *)

Return == pc' = "returned"

TakeToken_Bug == refreshNow /\ UNCHANGED refreshNow
TakeToken == refreshNow /\ refreshNow' = FALSE

\* Start the goroutine of a pass: the signals so far are served by it.
BeginPass ==
  /\ pc' = "cycle"
  /\ cycle' = "alive" /\ failing' = FALSE
  /\ passes' = passes + 1
  /\ owed' = FALSE

\* The head of the for loop.
TopReturns ==
  /\ pc = "top" /\ cancelled
  /\ Return
  /\ UNCHANGED <<pending, cancelled, clock, clockStop, cycle, failing, screen, tickVars, passes,
                 runs, faults>>

TopPending ==
  /\ pc = "top" /\ ~cancelled /\ pending
  /\ pc' = "paintOnce"
  /\ UNCHANGED <<pending, cancelled, clock, clockStop, cycle, failing, screen, tickVars, passes,
                 runs, faults>>

TopClock ==
  /\ pc = "top" /\ ~cancelled /\ ~pending
  /\ pc' = "clock"
  /\ clock' = "alive" /\ clockStop' = FALSE /\ failing' = FALSE
  /\ UNCHANGED <<pending, cancelled, cycle, screen, tickVars, passes, runs, faults>>

\* paintClockOnce: the clock back on the panel before the pass that was asked for.
PaintOnce ==
  /\ pc = "paintOnce"
  /\ ~cancelled
  /\ screen' = "clock"
  /\ pending' = FALSE
  /\ BeginPass
  /\ UNCHANGED <<refreshNow, cancelled, clock, clockStop, ticks, runs, faults>>

\* Cancelled (whether or not the paint reached the panel), or the paint failed.
PaintOnceFails ==
  /\ pc = "paintOnce"
  /\ IF cancelled THEN UNCHANGED faults ELSE faults < MaxFaults /\ faults' = faults + 1
  /\ screen' \in {"clock", screen}
  /\ Return
  /\ UNCHANGED <<pending, cancelled, clock, clockStop, cycle, failing, tickVars, passes, runs>>

\* runClockUntil's select: context, signal, or the end of the clock.
ClockSeesCancel ==
  /\ pc = "clock" /\ cancelled
  /\ clockStop' = TRUE
  /\ pc' = "joinClock"
  /\ UNCHANGED <<pending, cancelled, clock, cycle, failing, screen, tickVars, passes, runs, faults>>

ClockSeesSignal ==
  /\ pc = "clock" /\ TakeToken
  /\ clockStop' = TRUE
  /\ pc' = "joinClockThenPass"
  /\ UNCHANGED <<pending, cancelled, clock, cycle, failing, screen, ticks, owed, passes,
                 runs, faults>>

ClockEnded ==
  /\ pc = "clock" /\ clock = "gone"
  /\ clockStop' = TRUE
  /\ IF failing THEN Return ELSE pc' = "waitRefresh"
  /\ UNCHANGED <<pending, cancelled, clock, cycle, failing, screen, tickVars, passes, runs, faults>>

\* <-done: wait for the clock's goroutine.
ClockJoined_Bug == TRUE
ClockJoined == clock = "gone"

JoinClock ==
  /\ pc = "joinClock" /\ ClockJoined
  /\ Return
  /\ UNCHANGED <<pending, cancelled, clock, clockStop, cycle, failing, screen, tickVars, passes,
                 runs, faults>>

\* The result of a clock that was stopped for a pass is dropped, whatever it is.
JoinClockThenPass ==
  /\ pc = "joinClockThenPass" /\ ClockJoined
  /\ BeginPass
  /\ UNCHANGED <<pending, refreshNow, cancelled, clock, clockStop, screen, ticks, runs,
                 faults>>

\* waitForRefresh, after a clock that returned without an error.
WaitSeesCancel_Bug == FALSE /\ UNCHANGED vars
WaitSeesCancel ==
  /\ pc = "waitRefresh" /\ cancelled
  /\ Return
  /\ UNCHANGED <<pending, cancelled, clock, clockStop, cycle, failing, screen, tickVars, passes,
                 runs, faults>>

WaitSeesSignal ==
  /\ pc = "waitRefresh" /\ TakeToken
  /\ BeginPass
  /\ UNCHANGED <<pending, cancelled, clock, clockStop, screen, ticks, runs, faults>>

\* The select during a pass.
CycleSeesCancel ==
  /\ pc = "cycle" /\ cancelled
  /\ pc' = "joinCycle"
  /\ UNCHANGED <<pending, cancelled, clock, clockStop, cycle, failing, screen, tickVars, passes,
                 runs, faults>>

AnotherPass_Bug == pending
AnotherPass == TRUE

CycleSeesSignal ==
  /\ pc = "cycle" /\ TakeToken
  /\ pending' = AnotherPass
  /\ UNCHANGED <<pc, cancelled, clock, clockStop, cycle, failing, screen, ticks, owed,
                 passes, runs, faults>>

CycleEnded ==
  /\ pc = "cycle" /\ cycle = "gone"
  /\ IF failing THEN Return ELSE pc' = "top"
  /\ UNCHANGED <<pending, cancelled, clock, clockStop, cycle, failing, screen, tickVars, passes,
                 runs, faults>>

CycleJoined == cycle = "gone"

JoinCycle ==
  /\ pc = "joinCycle" /\ CycleJoined
  /\ Return
  /\ UNCHANGED <<pending, cancelled, clock, clockStop, cycle, failing, screen, tickVars, passes,
                 runs, faults>>

-----------------------------------------------------------------------------
(* The two goroutines.                                                      *)

\* An error that is not context.Canceled, which the worker takes for none.
Fails == failing' = TRUE /\ faults < MaxFaults /\ faults' = faults + 1
EndsWell == failing' = FALSE /\ UNCHANGED faults

ClockPaints ==
  /\ clock = "alive"
  /\ screen' = "clock"
  /\ UNCHANGED <<workerVars, tickVars, passes, runs, faults>>

\* RunClock returns when its context is done or the device fails, and not before.
ClockEnds ==
  /\ clock = "alive"
  /\ clock' = "gone"
  /\ Fails \/ ((cancelled \/ clockStop) /\ EndsWell)
  /\ UNCHANGED <<pc, pending, cancelled, clockStop, cycle, screen, tickVars, passes, runs>>

CyclePaints ==
  /\ cycle = "alive"
  /\ screen' = "news"
  /\ UNCHANGED <<workerVars, tickVars, passes, runs, faults>>

\* ShowNewsCycle returns at the end of the pass, when its context is done, or on an error.
CycleEnds ==
  /\ cycle = "alive"
  /\ cycle' = "gone"
  /\ Fails \/ EndsWell
  /\ UNCHANGED <<pc, pending, cancelled, clock, clockStop, screen, tickVars, passes, runs>>

-----------------------------------------------------------------------------
Top == TopReturns \/ TopPending \/ TopClock

Select == \/ ClockSeesCancel \/ ClockSeesSignal \/ ClockEnded
          \/ WaitSeesCancel \/ WaitSeesSignal
          \/ CycleSeesCancel \/ CycleSeesSignal \/ CycleEnded

Run == Top \/ PaintOnce \/ PaintOnceFails \/ JoinClock \/ JoinClockThenPass \/ JoinCycle \/ Select

Next == Tick \/ Cancel \/ NextRun \/ Run \/ ClockPaints \/ ClockEnds \/ CyclePaints \/ CycleEnds

Spec == Init /\ [][Next]_vars

-----------------------------------------------------------------------------
(* Safety.                                                                  *)

\* The clock and a pass never paint at the same time; the one-shot paint of the clock
\* happens with neither of them alive, and Run leaves neither behind: whoever paints next
\* (an alert, the next run) is alone.
OneGoroutine ==
  /\ ~(clock = "alive" /\ cycle = "alive")
  /\ pc \in {"top", "paintOnce", "returned"} => clock = "gone" /\ cycle = "gone"

One(b) == IF b THEN 1 ELSE 0

\* Every pass was asked for: a signal is the token, the pending flag, the pass about to
\* begin or a pass that began, and never two of them.
PassesAreAskedFor ==
  passes + One(refreshNow) + One(pending) + One(pc = "joinClockThenPass") \leq ticks

-----------------------------------------------------------------------------
(* Liveness: goroutines whose context is done return, passes end, Run is    *)
(* scheduled.                                                               *)

Fairness ==
  /\ WF_vars(Run)
  /\ WF_vars(ClockEnds)
  /\ WF_vars(CycleEnds)

LiveSpec == Spec /\ Fairness

\* A cancelled run returns, wherever it was: the supervisor waits for it.
CancelEnds == cancelled ~> pc = "returned"

\* A signal accepted while news runs is followed by a pass that begins after it, unless
\* the run is cancelled or fails first ("a tick during an in-flight pass is not lost").
SignalIsServed == owed ~> ~owed \/ cancelled \/ pc = "returned"

=============================================================================
