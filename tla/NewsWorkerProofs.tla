-------------------------- MODULE NewsWorkerProofs --------------------------
(***************************************************************************)
(* Theorems about NewsWorker, for every number of signals, runs and        *)
(* failures: its types, that the goroutines it starts never paint together *)
(* nor outlive it, and that it begins no pass nobody asked for.            *)
(***************************************************************************)
EXTENDS NewsWorker, TLAPS

USE DEF workerVars, tickVars

\* The flags are kept apart from the other data: their steps need first order reasoning
\* on Booleans, the others sets and arithmetic.
FlagsTyped ==
  /\ pending \in BOOLEAN /\ refreshNow \in BOOLEAN /\ cancelled \in BOOLEAN
  /\ clockStop \in BOOLEAN /\ failing \in BOOLEAN /\ owed \in BOOLEAN

\* Of the passes, that they are bounded by the signals is not yet said.
DataTyped ==
  /\ pc \in {"top", "clock", "waitRefresh", "paintOnce", "joinClock", "joinClockThenPass",
             "cycle", "joinCycle", "returned"}
  /\ clock \in Goroutine /\ cycle \in Goroutine
  /\ screen \in {"clock", "news", "other"}
  /\ ticks \in 0..MaxTicks /\ passes \in Nat /\ runs \in Nat /\ faults \in Nat

Typed == FlagsTyped /\ DataTyped

\* Where Run waits tells which goroutine may be alive.
WorkerInv ==
  /\ clock = "alive" => pc \in {"clock", "joinClock", "joinClockThenPass"}
  /\ cycle = "alive" => pc \in {"cycle", "joinCycle"}

\* What a pass to come is counted for: a pass that waits for the clock's goroutine was
\* asked for, and the flag pending is set by the time paintClockOnce is called.
Counted ==
  /\ pc = "paintOnce" => pending
  /\ PassesAreAskedFor

IInv == Typed /\ WorkerInv /\ Counted

-----------------------------------------------------------------------------
(* The invariant implies what the runs check.                               *)

\* Where Run waits decides which goroutines are alive, so at most one is, and none when
\* Run paints itself or has returned.
LEMMA PlacesDecide ==
  ASSUME Typed, WorkerInv
  PROVE  OneGoroutine
  BY DEF Typed, FlagsTyped, DataTyped, WorkerInv, OneGoroutine, Goroutine

\* A pass for each signal bounds the passes by the signals.
LEMMA PassesBounded ==
  ASSUME WorkerBounds, Typed, PassesAreAskedFor
  PROVE  TypeOK
<1>1. One(refreshNow) \in {0, 1} /\ One(pending) \in {0, 1} /\ One(pc = "joinClockThenPass") \in {0, 1}
  BY DEF One
<1>2. passes \leq ticks
  BY <1>1 DEF Typed, FlagsTyped, DataTyped, PassesAreAskedFor
<1> QED BY <1>2, WorkerBounds DEF Typed, FlagsTyped, DataTyped, TypeOK

-----------------------------------------------------------------------------
(* The initial states and the steps.                                        *)

\* At the start nothing runs and nothing was asked for.
LEMMA InitIInv == ASSUME WorkerBounds, Init PROVE IInv
<1>1. FlagsTyped BY DEF Init, FlagsTyped
<1>2. DataTyped BY DEF WorkerBounds, Init, DataTyped, Goroutine
<1>3. WorkerInv BY DEF Init, WorkerInv
<1>4. Counted
  <2>1. One(refreshNow) = 0 /\ One(pending) = 0 /\ One(pc = "joinClockThenPass") = 0
    BY DEF Init, One
  <2> QED BY <2>1 DEF Init, Counted, PassesAreAskedFor
<1> QED BY <1>1, <1>2, <1>3, <1>4 DEF IInv, Typed

\* Every step keeps the types of the flags.
LEMMA StepFlagsTyped ==
  ASSUME FlagsTyped, [Next]_vars
  PROVE  FlagsTyped'
<1> USE DEF FlagsTyped
<1>1. CASE Tick BY <1>1 DEF Tick
<1>2. CASE Cancel BY <1>2 DEF Cancel
<1>3. CASE NextRun BY <1>3 DEF NextRun
<1>4. CASE Top BY <1>4 DEF Top, TopReturns, TopPending, TopClock, Return
<1>5. CASE PaintOnce BY <1>5 DEF PaintOnce, BeginPass
<1>6. CASE PaintOnceFails BY <1>6 DEF PaintOnceFails, Return
<1>7. CASE JoinClock BY <1>7 DEF JoinClock, Return
<1>8. CASE JoinClockThenPass BY <1>8 DEF JoinClockThenPass, BeginPass
<1>9. CASE JoinCycle BY <1>9 DEF JoinCycle, Return
<1>10. CASE ClockSeesCancel \/ ClockSeesSignal \/ ClockEnded
  BY <1>10 DEF ClockSeesCancel, ClockSeesSignal, ClockEnded, TakeToken, Return
<1>11. CASE WaitSeesCancel \/ WaitSeesSignal
  BY <1>11 DEF WaitSeesCancel, WaitSeesSignal, TakeToken, Return, BeginPass
<1>12. CASE CycleSeesCancel \/ CycleSeesSignal \/ CycleEnded
  BY <1>12 DEF CycleSeesCancel, CycleSeesSignal, CycleEnded, TakeToken, AnotherPass, Return
<1>13. CASE ClockPaints \/ CyclePaints BY <1>13 DEF ClockPaints, CyclePaints
<1>14. CASE ClockEnds \/ CycleEnds BY <1>14 DEF ClockEnds, CycleEnds, Fails, EndsWell
<1>15. CASE UNCHANGED vars BY <1>15 DEF vars
<1> QED BY <1>1, <1>2, <1>3, <1>4, <1>5, <1>6, <1>7, <1>8, <1>9, <1>10, <1>11, <1>12, <1>13,
           <1>14, <1>15 DEF Next, Run, Select

\* Every step keeps the types of the rest.
LEMMA StepDataTyped ==
  ASSUME WorkerBounds, DataTyped, [Next]_vars
  PROVE  DataTyped'
<1> USE DEF DataTyped, Goroutine
<1>1. CASE Tick BY <1>1 DEF Tick, WorkerBounds
<1>2. CASE Cancel BY <1>2 DEF Cancel
<1>3. CASE NextRun BY <1>3 DEF NextRun
<1>4. CASE Top BY <1>4 DEF Top, TopReturns, TopPending, TopClock, Return
<1>5. CASE PaintOnce BY <1>5 DEF PaintOnce, BeginPass
<1>6. CASE PaintOnceFails
  <2>1. faults' \in Nat BY <1>6 DEF PaintOnceFails
  <2> QED BY <1>6, <2>1 DEF PaintOnceFails, Return
<1>7. CASE JoinClock BY <1>7 DEF JoinClock, Return
<1>8. CASE JoinClockThenPass BY <1>8 DEF JoinClockThenPass, BeginPass
<1>9. CASE JoinCycle BY <1>9 DEF JoinCycle, Return
<1>10. CASE ClockSeesCancel \/ ClockSeesSignal \/ ClockEnded
  BY <1>10 DEF ClockSeesCancel, ClockSeesSignal, ClockEnded, TakeToken, Return
<1>11. CASE WaitSeesCancel \/ WaitSeesSignal
  BY <1>11 DEF WaitSeesCancel, WaitSeesSignal, TakeToken, Return, BeginPass
<1>12. CASE CycleSeesCancel \/ CycleSeesSignal \/ CycleEnded
  BY <1>12 DEF CycleSeesCancel, CycleSeesSignal, CycleEnded, TakeToken, AnotherPass, Return
<1>13. CASE ClockPaints \/ CyclePaints BY <1>13 DEF ClockPaints, CyclePaints
<1>14. CASE ClockEnds \/ CycleEnds BY <1>14 DEF ClockEnds, CycleEnds, Fails, EndsWell
<1>15. CASE UNCHANGED vars BY <1>15 DEF vars
<1> QED BY <1>1, <1>2, <1>3, <1>4, <1>5, <1>6, <1>7, <1>8, <1>9, <1>10, <1>11, <1>12, <1>13,
           <1>14, <1>15 DEF Next, Run, Select

\* Every step keeps the goroutines where Run waits for them.
LEMMA StepWorkerInv ==
  ASSUME Typed, WorkerInv, [Next]_vars
  PROVE  WorkerInv'
<1> USE DEF Typed, FlagsTyped, DataTyped, Goroutine, WorkerInv
<1>1. CASE Tick \/ Cancel \/ NextRun BY <1>1 DEF Tick, Cancel, NextRun
<1>2. CASE Top BY <1>2 DEF Top, TopReturns, TopPending, TopClock, Return
<1>3. CASE PaintOnce \/ PaintOnceFails BY <1>3 DEF PaintOnce, PaintOnceFails, BeginPass, Return
<1>4. CASE JoinClock \/ JoinClockThenPass \/ JoinCycle
  BY <1>4 DEF JoinClock, JoinClockThenPass, JoinCycle, ClockJoined, CycleJoined, BeginPass, Return
<1>5. CASE ClockSeesCancel \/ ClockSeesSignal \/ ClockEnded
  BY <1>5 DEF ClockSeesCancel, ClockSeesSignal, ClockEnded, Return
<1>6. CASE WaitSeesCancel \/ WaitSeesSignal
  BY <1>6 DEF WaitSeesCancel, WaitSeesSignal, Return, BeginPass
<1>7. CASE CycleSeesCancel \/ CycleSeesSignal \/ CycleEnded
  BY <1>7 DEF CycleSeesCancel, CycleSeesSignal, CycleEnded, Return
<1>8. CASE ClockPaints \/ CyclePaints \/ ClockEnds \/ CycleEnds
  BY <1>8 DEF ClockPaints, CyclePaints, ClockEnds, CycleEnds
<1>9. CASE UNCHANGED vars BY <1>9 DEF vars
<1> QED BY <1>1, <1>2, <1>3, <1>4, <1>5, <1>6, <1>7, <1>8, <1>9 DEF Next, Run, Select

\* Every step keeps a signal for each pass: a token taken becomes the flag or the pass.
LEMMA StepCounted ==
  ASSUME Typed, Counted, [Next]_vars
  PROVE  Counted'
<1> USE DEF Typed, FlagsTyped, DataTyped, Counted, PassesAreAskedFor, One
<1>1. CASE Tick BY <1>1 DEF Tick
<1>2. CASE Cancel \/ NextRun BY <1>2 DEF Cancel, NextRun
<1>3. CASE Top BY <1>3 DEF Top, TopReturns, TopPending, TopClock, Return
<1>4. CASE PaintOnce BY <1>4 DEF PaintOnce, BeginPass
<1>5. CASE PaintOnceFails BY <1>5 DEF PaintOnceFails, Return
<1>6. CASE JoinClock \/ JoinCycle BY <1>6 DEF JoinClock, JoinCycle, Return
<1>7. CASE JoinClockThenPass BY <1>7 DEF JoinClockThenPass, BeginPass
<1>8. CASE ClockSeesCancel \/ ClockEnded BY <1>8 DEF ClockSeesCancel, ClockEnded, Return
<1>9. CASE ClockSeesSignal BY <1>9 DEF ClockSeesSignal, TakeToken
<1>10. CASE WaitSeesCancel BY <1>10 DEF WaitSeesCancel, Return
<1>11. CASE WaitSeesSignal BY <1>11 DEF WaitSeesSignal, TakeToken, BeginPass
<1>12. CASE CycleSeesCancel \/ CycleEnded BY <1>12 DEF CycleSeesCancel, CycleEnded, Return
<1>13. CASE CycleSeesSignal BY <1>13 DEF CycleSeesSignal, TakeToken, AnotherPass
<1>14. CASE ClockPaints \/ CyclePaints BY <1>14 DEF ClockPaints, CyclePaints
<1>15. CASE ClockEnds \/ CycleEnds BY <1>15 DEF ClockEnds, CycleEnds
<1>16. CASE UNCHANGED vars BY <1>16 DEF vars
<1> QED BY <1>1, <1>2, <1>3, <1>4, <1>5, <1>6, <1>7, <1>8, <1>9, <1>10, <1>11, <1>12, <1>13,
           <1>14, <1>15, <1>16 DEF Next, Run, Select

-----------------------------------------------------------------------------
(* The theorems.                                                            *)

\* The invariant holds in every reachable state.
THEOREM Invariant == Spec => []IInv
<1>1. Init => IInv BY InitIInv, WorkerBounds
<1>2. IInv /\ [Next]_vars => IInv'
  BY StepFlagsTyped, StepDataTyped, StepWorkerInv, StepCounted, WorkerBounds DEF IInv, Typed
<1> QED BY <1>1, <1>2, PTL DEF Spec

\* The worker keeps its types, and never begins more passes than there were signals.
THEOREM WorkerTypes == Spec => []TypeOK
<1>1. IInv => TypeOK BY PassesBounded, WorkerBounds DEF IInv, Counted
<1> QED BY <1>1, Invariant, PTL

\* The clock and a pass never paint together, and a run that has returned paints no more:
\* what the supervisor relies on when it lets an alert or the next run paint.
THEOREM NeverTwoPainters == Spec => []OneGoroutine
<1>1. IInv => OneGoroutine BY PlacesDecide DEF IInv
<1> QED BY <1>1, Invariant, PTL

\* Every pass serves a signal of its own: coalescing never turns one signal into two passes.
THEOREM NoUnaskedPass == Spec => []PassesAreAskedFor
<1>1. IInv => PassesAreAskedFor BY DEF IInv, Counted
<1> QED BY <1>1, Invariant, PTL

=============================================================================
