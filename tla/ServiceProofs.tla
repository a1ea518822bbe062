--------------------------- MODULE ServiceProofs ----------------------------
(***************************************************************************)
(* Theorems about Service, for every day, interval, set of windows and     *)
(* capacity: its types, that the commands sent follow the window, and that *)
(* an orderly shutdown leaves nothing behind Stop.                         *)
(***************************************************************************)
EXTENDS Service, SequenceTheorems, TLAPS

USE DEF supervisor, clients, schedule, Kind, Alive, TurnsOn, TurnsOff

\* Where main is: before the cron nothing but its own command is in the channel, and the
\* loop is told to stop by main alone.
Early == {"boot", "send", "reconcile", "cron"}
Stopped == {"stopReply", "stopResult", "exited"}

Places ==
  /\ pc \in {"boot", "send", "cron"} => queue = <<>>
  /\ pc \in Early => ~cron /\ jobs = {}
  /\ pc \in Early \cup {"listen"} => server = "off" /\ blocked = 0
  /\ pc \in {"drainCron", "drainCalls", "awaitCalls"} => ~cron
  /\ pc \in {"drainCalls", "awaitCalls"} => jobs = {}
  /\ pc \notin Stopped => loop = "running" /\ \A i \in DOMAIN queue : queue[i] # "stop"
  /\ server = "stopped" => ~cron /\ pc \in Stopped \cup {"stop"}

\* What main has computed is true unless a boundary was lost, and what it has sent says so.
BootAgrees ==
  /\ pc \in Early \ {"boot"} /\ ~lost => computed = Inside(now)
  /\ pc = "reconcile" => Settles(computed)
  /\ pc = "cron" => desired = computed

\* The goroutines of cron run in the minute of their entry.
JobsInTime == \A j \in jobs : now \in Entry[j]

-----------------------------------------------------------------------------
(* Sequences: what the operations on the channel do to the switches in it.  *)

\* A command sent that switches decides; another changes nothing.
LEMMA AppendLeads ==
  ASSUME NEW q \in Seq(Kind), NEW k \in Kind, NEW d \in BOOLEAN, NEW b \in BOOLEAN
  PROVE  /\ k \in TurnsOn \cup TurnsOff => Leads(Append(q, k), d, k \in TurnsOn)
         /\ k \notin TurnsOn \cup TurnsOff /\ Leads(q, d, b) => Leads(Append(q, k), d, b)
<1> DEFINE p == Append(q, k)
<1>1. /\ Len(q) \in Nat /\ DOMAIN q = 1..Len(q) /\ DOMAIN p = 1..Len(q) + 1
      /\ p[Len(q) + 1] = k
      /\ \A i \in 1..Len(q) : p[i] = q[i]
  OBVIOUS
<1> HIDE DEF p
<1>2. ASSUME k \in TurnsOn \cup TurnsOff PROVE Leads(p, d, k \in TurnsOn)
  <2>1. Len(q) + 1 \in Switches(p) BY <1>1, <1>2 DEF Switches
  <2>2. ASSUME NEW i \in Switches(p), \A m \in Switches(p) : m \leq i PROVE i = Len(q) + 1
    BY <1>1, <2>1, <2>2 DEF Switches
  <2> QED BY <1>1, <2>1, <2>2 DEF Leads
<1>3. ASSUME k \notin TurnsOn \cup TurnsOff, Leads(q, d, b) PROVE Leads(p, d, b)
  <2>1. Switches(p) = Switches(q) BY <1>1, <1>3 DEF Switches
  <2>2. \A i \in Switches(q) : p[i] = q[i] BY <1>1 DEF Switches
  <2> QED BY <1>3, <2>1, <2>2 DEF Leads
<1> QED BY <1>2, <1>3 DEF p

\* The command the loop takes is the first: where the switches lead is not changed.
LEMMA TailLeads ==
  ASSUME NEW q \in Seq(Kind), q # <<>>, NEW d \in BOOLEAN, NEW b \in BOOLEAN, Leads(q, d, b)
  PROVE  LET e == IF Head(q) \in TurnsOn THEN TRUE ELSE IF Head(q) \in TurnsOff THEN FALSE ELSE d
         IN  Leads(Tail(q), e, b)
<1> DEFINE e == IF Head(q) \in TurnsOn THEN TRUE ELSE IF Head(q) \in TurnsOff THEN FALSE ELSE d
           p == Tail(q)
<1>1. /\ Len(q) \in Nat \ {0} /\ DOMAIN q = 1..Len(q) /\ DOMAIN p = 1..Len(q) - 1
      /\ Head(q) = q[1]
      /\ \A i \in 1..Len(q) - 1 : p[i] = q[i + 1]
  BY HeadTailProperties, LenProperties, EmptySeq
<1> HIDE DEF p
<1>2. \A i \in Nat : i \in Switches(p) <=> i # 0 /\ i + 1 \in Switches(q)
  BY <1>1 DEF Switches
<1>3. Switches(p) \subseteq Nat \ {0} /\ Switches(q) \subseteq Nat \ {0} BY <1>1 DEF Switches
<1>4. ASSUME Switches(p) = {} PROVE e = b
  <2>1. CASE 1 \in Switches(q)
    <3>1. \A m \in Switches(q) : m \leq 1
      <4>1. SUFFICES ASSUME NEW m \in Switches(q), m > 1 PROVE FALSE BY <1>3
      <4>2. m - 1 \in Nat /\ m - 1 # 0 /\ (m - 1) + 1 = m BY <1>3, <4>1
      <4> QED BY <1>2, <1>4, <4>1, <4>2
    <3>2. (q[1] \in TurnsOn) = b BY <2>1, <3>1 DEF Leads
    <3>3. Head(q) \in TurnsOn \cup TurnsOff BY <1>1, <2>1 DEF Switches
    <3>4. (Head(q) \in TurnsOn) = b BY <1>1, <3>2
    <3>5. CASE Head(q) \in TurnsOn
      <4>1. e = TRUE BY <3>5
      <4>2. b = TRUE BY <3>4, <3>5
      <4> QED BY <4>1, <4>2
    <3>6. CASE Head(q) \notin TurnsOn
      <4>1. e = FALSE BY <3>3, <3>6
      <4>2. b = FALSE BY <3>4, <3>6
      <4> QED BY <4>1, <4>2
    <3> QED BY <3>5, <3>6
  <2>2. CASE 1 \notin Switches(q)
    <3>1. Switches(q) = {}
      <4>1. SUFFICES ASSUME NEW m \in Switches(q) PROVE FALSE OBVIOUS
      <4>2. m - 1 \in Nat /\ m - 1 # 0 /\ (m - 1) + 1 = m BY <1>3, <2>2, <4>1
      <4> QED BY <1>2, <1>4, <4>1, <4>2
    <3>2. d = b BY <3>1 DEF Leads
    <3>3. Head(q) \notin TurnsOn \cup TurnsOff BY <1>1, <2>2 DEF Switches
    <3>4. e = d BY <3>3, Zenon
    <3> QED BY <3>2, <3>4
  <2> QED BY <2>1, <2>2
<1>5. ASSUME NEW i \in Switches(p), \A m \in Switches(p) : m \leq i PROVE (p[i] \in TurnsOn) = b
  <2>1. i \in Nat /\ i + 1 \in Switches(q) BY <1>2, <1>3
  <2>2. ASSUME NEW m \in Switches(q) PROVE m \leq i + 1
    <3>1. CASE m = 1 BY <2>1, <3>1
    <3>2. CASE m # 1
      <4>1. m - 1 \in Nat /\ m - 1 # 0 /\ (m - 1) + 1 = m BY <1>3, <3>2
      <4>2. m - 1 \leq i BY <1>2, <1>5, <4>1
      <4> QED BY <1>3, <2>1, <4>2
    <3> QED BY <3>1, <3>2
  <2>3. (q[i + 1] \in TurnsOn) = b BY <2>1, <2>2 DEF Leads
  <2>4. p[i] = q[i + 1] BY <1>1 DEF Switches
  <2> QED BY <2>3, <2>4
<1> QED BY <1>4, <1>5 DEF Leads, p

\* Commands whose callers have given up stay where they are.
LEMMA ExpiredKeeps ==
  ASSUME NEW q \in Seq(Kind), NEW kinds
  PROVE  /\ Expired(q, kinds) \in Seq(Kind)
         /\ Len(Expired(q, kinds)) = Len(q)
         /\ \A i \in 1..Len(q) :
              Expired(q, kinds)[i] = IF q[i] \in kinds THEN "expired" ELSE q[i]
<1> DEFINE p == Expired(q, kinds)
<1>1. Len(q) \in Nat /\ DOMAIN q = 1..Len(q) /\ \A i \in 1..Len(q) : q[i] \in Kind
  BY LenProperties, ElementOfSeq
<1>2. p \in [1..Len(q) -> Kind] BY <1>1 DEF Expired
<1>3. p \in Seq(Kind) BY <1>1, <1>2, SeqDef
<1>4. Len(p) = Len(q)
  <2>1. DOMAIN p = 1..Len(p) /\ Len(p) \in Nat BY <1>3, LenProperties
  <2>2. DOMAIN p = 1..Len(q) BY <1>2
  <2>3. \A m, n \in Nat : 1..m = 1..n => m = n
    <3>1. SUFFICES ASSUME NEW m \in Nat, NEW n \in Nat, 1..m = 1..n, m < n PROVE FALSE OBVIOUS
    <3>2. n \in 1..n /\ n \notin 1..m BY <3>1
    <3> QED BY <3>1, <3>2
  <2> QED BY <1>1, <2>1, <2>2, <2>3
<1> QED BY <1>1, <1>3, <1>4 DEF Expired

\* Nor do they switch anything.
LEMMA SameLeads ==
  ASSUME NEW q \in Seq(Kind), NEW p \in Seq(Kind), Len(p) = Len(q),
         \A i \in 1..Len(q) : p[i] = q[i] \/ (q[i] = "call" /\ p[i] = "expired"),
         NEW d, NEW b, Leads(q, d, b)
  PROVE  Leads(p, d, b)
<1>1. DOMAIN q = 1..Len(q) /\ DOMAIN p = 1..Len(q) BY LenProperties
<1>2. Switches(p) = Switches(q) BY <1>1 DEF Switches
<1>3. \A i \in Switches(q) : p[i] = q[i] BY <1>1 DEF Switches
<1> QED BY <1>2, <1>3 DEF Leads

-----------------------------------------------------------------------------
(* The window.                                                              *)

\* The window is two minutes of the day, the first inside of it and the second not.
LEMMA WindowFacts ==
  ASSUME Validate, window \in Windows
  PROVE  /\ Start \in 0..Day - 1 /\ Stop \in 0..Day - 1 /\ Start # Stop /\ Day \in Nat \ {0}
         /\ Inside(Start) /\ ~Inside(Stop)
<1>1. Start \in 0..Day - 1 /\ Stop \in 0..Day - 1 /\ Start # Stop /\ Day \in Nat \ {0}
  BY DEF Validate, Start, Stop
<1> QED BY <1>1 DEF Inside

\* From a minute to the next, also at midnight, only the boundaries change it.
LEMMA OnlyBoundariesSwitch ==
  ASSUME Validate, window \in Windows, now \in 0..Day - 1, ~Boundary(NextMinute)
  PROVE  Inside(NextMinute) <=> Inside(now)
<1>1. Start \in 0..Day - 1 /\ Stop \in 0..Day - 1 /\ Start # Stop /\ Day \in Nat \ {0}
  BY WindowFacts
<1>2. NextMinute # Start /\ NextMinute # Stop BY DEF Boundary
<1> QED BY <1>1, <1>2 DEF Inside, NextMinute

-----------------------------------------------------------------------------
(* Types.                                                                   *)

QueueTyped == queue \in Seq(Kind) /\ Len(queue) \leq CommandQueueCapacity

\* The channel keeps its capacity: main sends its first command into an empty one, and
\* whoever sends later has room.
LEMMA QueueStep ==
  ASSUME Validate, QueueTyped, Places, jobs \subseteq DOMAIN Entry, [Next]_vars
  PROVE  QueueTyped'
<1> USE DEF QueueTyped, HasRoom
<1>0. CommandQueueCapacity \in Nat \ {0} /\ Len(queue) \in Nat BY LenProperties DEF Validate
<1>1. ASSUME NEW k \in Kind, Len(queue) < CommandQueueCapacity, queue' = Append(queue, k)
      PROVE  QueueTyped'
  BY <1>0, <1>1
<1>2. ASSUME NEW j \in jobs, JobSends(j) PROVE QueueTyped'
  BY <1>1, <1>2 DEF JobSends, Entry
<1>3. CASE CallSends BY <1>1, <1>3 DEF CallSends
<1>4. CASE CallExpires BY <1>0, <1>4, ExceptSeq DEF CallExpires
<1>5. CASE Take BY <1>0, <1>5, HeadTailProperties DEF Take
<1>6. CASE SendReconcile
  <2>1. Len(queue) = 0 BY <1>6 DEF SendReconcile, Places
  <2> QED BY <1>0, <1>1, <1>6, <2>1 DEF SendReconcile
<1>7. CASE ReconcileFails BY <1>7, ExpiredKeeps DEF ReconcileFails
<1>8. CASE SendStop BY <1>1, <1>8 DEF SendStop
<1>9. CASE Restart BY <1>0, <1>9 DEF Restart
<1>10. CASE UNCHANGED queue BY <1>10
<1> QED BY <1>2, <1>3, <1>4, <1>5, <1>6, <1>7, <1>8, <1>9, <1>10
  DEF Next, vars, Job, Call, CallEnds, CallsCancelled, Boot, Shutdown, Tick, JobDropped,
      CallArrives, CallGivesUp, LoopEnds,
      ComputeDesired, Reconciled, StartCron, Listen, ServeFails, Signal, StopCron, CronStopped,
      CallsAnswered, StopReply, StopResult, StopGivesUp, Crash, Exit

FlagsTyped ==
  /\ computed \in BOOLEAN /\ desired \in BOOLEAN /\ cleared \in BOOLEAN /\ cron \in BOOLEAN
  /\ signalled \in BOOLEAN /\ lost \in BOOLEAN

DataTyped ==
  /\ window \in Windows /\ now \in 0..Day - 1
  /\ pc \in {"boot", "send", "reconcile", "cron", "listen", "serving", "drainCron",
             "drainCalls", "awaitCalls", "stop", "stopReply", "stopResult", "exited"}
  /\ loop \in {"running", "stopping", "done"}
  /\ jobs \subseteq DOMAIN Entry
  /\ server \in {"off", "serving", "draining", "stopped", "forced"}
  /\ blocked \in 0..MaxBlocked
  /\ status \in {"none", "error", "ok"}

\* Booleans stay Booleans.
LEMMA FlagsStep ==
  ASSUME FlagsTyped, [Next]_vars
  PROVE  FlagsTyped'
<1> USE DEF FlagsTyped
<1>1. ASSUME NEW j \in jobs, JobSends(j) PROVE FlagsTyped' BY <1>1 DEF JobSends
<1>2. ASSUME NEW j \in jobs, JobDropped(j) PROVE FlagsTyped' BY <1>2, Zenon DEF JobDropped
<1>3. CASE Tick BY <1>3, Zenon DEF Tick, Boundary
<1>4. CASE Take BY <1>4, Zenon DEF Take
<1>5. CASE LoopEnds BY <1>5, Zenon DEF LoopEnds
<1>6. CASE ComputeDesired BY <1>6, Zenon DEF ComputeDesired, Inside
<1>7. CASE StartCron BY <1>7, Zenon DEF StartCron
<1>8. CASE Signal BY <1>8, Zenon DEF Signal
<1>9. CASE StopCron BY <1>9, Zenon DEF StopCron
<1>10. CASE Restart BY <1>10, Zenon DEF Restart
<1>11. CASE UNCHANGED <<computed, desired, cleared, cron, signalled, lost>> BY <1>11
<1> QED BY <1>1, <1>2, <1>3, <1>4, <1>5, <1>6, <1>7, <1>8, <1>9, <1>10, <1>11
  DEF Next, vars, Job, Call, CallEnds, Boot, Shutdown, CallArrives, CallSends, CallGivesUp,
      CallExpires,
      SendReconcile, Reconciled, ReconcileFails, Listen, ServeFails, CronStopped, CallsAnswered,
      CallsCancelled, SendStop, StopReply, StopResult, StopGivesUp, Crash, Exit

\* The clock stays on the dial, and main, loop and server in their places.
LEMMA DataStep ==
  ASSUME Validate, DataTyped, [Next]_vars
  PROVE  DataTyped'
<1> USE DEF DataTyped
<1>0. Day \in Nat \ {0} /\ MaxBlocked \in Nat BY DEF Validate
<1>1. ASSUME NEW j \in jobs, JobSends(j) PROVE DataTyped' BY <1>1 DEF JobSends, Entry
<1>2. ASSUME NEW j \in jobs, JobDropped(j) PROVE DataTyped' BY <1>2 DEF JobDropped, Entry
<1>3. CASE Tick BY <1>0, <1>3 DEF Tick, NextMinute, Due, Entry
<1>4. CASE CallArrives BY <1>0, <1>4 DEF CallArrives, Entry
<1>5. CASE CallSends BY <1>0, <1>5 DEF CallSends, Entry
<1>6. CASE CallGivesUp BY <1>0, <1>6 DEF CallGivesUp, Entry
<1>7. CASE CallExpires BY <1>0, <1>7 DEF CallExpires, Entry
<1>8. CASE Take BY <1>0, <1>8 DEF Take, Entry
<1>9. CASE LoopEnds BY <1>0, <1>9 DEF LoopEnds, Entry
<1>10. CASE ComputeDesired BY <1>0, <1>10 DEF ComputeDesired, Entry
<1>11. CASE SendReconcile BY <1>0, <1>11 DEF SendReconcile, Entry
<1>12. CASE Reconciled BY <1>0, <1>12 DEF Reconciled, Entry
<1>13. CASE ReconcileFails BY <1>0, <1>13 DEF ReconcileFails, Entry
<1>14. CASE StartCron BY <1>0, <1>14 DEF StartCron, Entry
<1>15. CASE Listen BY <1>0, <1>15 DEF Listen, Entry
<1>16. CASE ServeFails BY <1>0, <1>16 DEF ServeFails, Entry
<1>17. CASE Signal BY <1>0, <1>17 DEF Signal, Entry
<1>18. CASE StopCron BY <1>0, <1>18 DEF StopCron, Entry
<1>19. CASE CronStopped BY <1>0, <1>19 DEF CronStopped, Entry
<1>20. CASE CallsAnswered BY <1>0, <1>20 DEF CallsAnswered, Entry
<1>21. CASE CallsCancelled BY <1>0, <1>21 DEF CallsCancelled, AfterTimeout, Entry
<1>22. CASE SendStop BY <1>0, <1>22 DEF SendStop, Entry
<1>23. CASE StopReply BY <1>0, <1>23 DEF StopReply, Entry
<1>24. CASE StopResult BY <1>0, <1>24 DEF StopResult, Exit, Entry
<1>25. CASE StopGivesUp BY <1>0, <1>25 DEF StopGivesUp, Exit, Entry
<1>26. CASE Crash BY <1>0, <1>26 DEF Crash, Exit, Entry
<1>27. CASE Restart BY <1>0, <1>27 DEF Restart, Entry
<1>28. CASE UNCHANGED vars BY <1>28 DEF vars, Entry
<1> QED BY <1>1, <1>2, <1>3, <1>4, <1>5, <1>6, <1>7, <1>8, <1>9, <1>10, <1>11, <1>12, <1>13,
    <1>14, <1>15, <1>16, <1>17, <1>18, <1>19, <1>20, <1>21, <1>22, <1>23, <1>24, <1>25, <1>26,
    <1>27, <1>28
  DEF Next, Job, Call, CallEnds, Boot, Shutdown

-----------------------------------------------------------------------------
(* Where main, loop and server are.                                         *)

LEMMA PlacesStep ==
  ASSUME Validate, QueueTyped, DataTyped, Places, [Next]_vars
  PROVE  Places'
<1> USE DEF Places, Early, Stopped
<1>0. /\ Len(queue) \in Nat /\ DOMAIN queue = 1..Len(queue) /\ blocked \in 0..MaxBlocked
      /\ MaxBlocked \in Nat
  BY LenProperties DEF QueueTyped, DataTyped, Validate
<1>1. ASSUME NEW j \in jobs, JobSends(j) PROVE Places'
  BY <1>0, <1>1 DEF JobSends, QueueTyped, DataTyped, Entry
<1>2. ASSUME NEW j \in jobs, JobDropped(j) PROVE Places' BY <1>2 DEF JobDropped
<1>3. CASE Tick BY <1>0, <1>3 DEF Tick
<1>4. CASE CallArrives BY <1>0, <1>4 DEF CallArrives, DataTyped
<1>5. CASE CallSends BY <1>0, <1>5 DEF CallSends, QueueTyped, DataTyped
<1>6. CASE CallGivesUp BY <1>0, <1>6 DEF CallGivesUp
<1>7. CASE CallExpires BY <1>0, <1>7 DEF CallExpires, QueueTyped, DataTyped
<1>8. CASE Take BY <1>0, HeadTailProperties, LenProperties, <1>8 DEF Take, QueueTyped
<1>9. CASE LoopEnds BY <1>0, <1>9 DEF LoopEnds
<1>10. CASE ComputeDesired BY <1>0, <1>10 DEF ComputeDesired
<1>11. CASE SendReconcile BY <1>0, <1>11 DEF SendReconcile, QueueTyped, DataTyped
<1>12. CASE Reconciled BY <1>0, <1>12 DEF Reconciled
<1>13. CASE ReconcileFails BY <1>0, ExpiredKeeps, <1>13 DEF ReconcileFails, QueueTyped
<1>14. CASE StartCron BY <1>0, <1>14 DEF StartCron
<1>15. CASE Listen BY <1>0, <1>15 DEF Listen
<1>16. CASE ServeFails BY <1>0, <1>16 DEF ServeFails
<1>17. CASE Signal BY <1>0, <1>17 DEF Signal
<1>18. CASE StopCron BY <1>0, <1>18 DEF StopCron
<1>19. CASE CronStopped BY <1>0, <1>19 DEF CronStopped, JobsEnded
<1>20. CASE CallsAnswered BY <1>0, <1>20 DEF CallsAnswered
<1>21. CASE CallsCancelled BY <1>0, <1>21 DEF CallsCancelled, AfterTimeout
<1>22. CASE SendStop BY <1>0, <1>22 DEF SendStop, QueueTyped, DataTyped
<1>23. CASE StopReply BY <1>0, <1>23 DEF StopReply
<1>24. CASE StopResult BY <1>0, <1>24 DEF StopResult, Exit
<1>25. CASE StopGivesUp BY <1>0, <1>25 DEF StopGivesUp, Exit
<1>26. CASE Crash BY <1>0, <1>26 DEF Crash, Exit
<1>27. CASE Restart BY <1>0, <1>27 DEF Restart
<1>28. CASE UNCHANGED vars BY <1>28 DEF vars
<1> QED BY <1>1, <1>2, <1>3, <1>4, <1>5, <1>6, <1>7, <1>8, <1>9, <1>10, <1>11, <1>12, <1>13,
    <1>14, <1>15, <1>16, <1>17, <1>18, <1>19, <1>20, <1>21, <1>22, <1>23, <1>24, <1>25, <1>26,
    <1>27, <1>28
  DEF Next, Job, Call, CallEnds, Boot, Shutdown

\* Nobody but main may end the time of a job, and the clock waits for it.
LEMMA JobsStep ==
  ASSUME DataTyped, JobsInTime, [Next]_vars
  PROVE  JobsInTime'
<1> USE DEF JobsInTime
<1>1. window' = window /\ Entry' = Entry
  BY DEF Next, vars, Job, Call, CallEnds, Boot, Shutdown, Tick, JobSends, JobDropped, CallArrives,
         CallSends,
         CallGivesUp, CallExpires, Take, LoopEnds, ComputeDesired, SendReconcile, Reconciled,
         ReconcileFails, StartCron, Listen, ServeFails, Signal, StopCron, CronStopped,
         CallsAnswered, CallsCancelled, SendStop, StopReply, StopResult, StopGivesUp, Crash, Exit,
         Restart, Entry, Start, Stop
<1>2. CASE Tick
  <2>1. \A j \in Due(NextMinute) : NextMinute \in Entry[j] BY DEF Due
  <2> QED BY <1>1, <1>2, <2>1 DEF Tick
<1>3. CASE now' = now /\ jobs' \subseteq jobs BY <1>1, <1>3
<1> QED BY <1>2, <1>3
  DEF Next, vars, Job, Call, CallEnds, Boot, Shutdown, JobSends, JobDropped, CallArrives, CallSends,
      CallGivesUp, CallExpires, Take, LoopEnds, ComputeDesired, SendReconcile, Reconciled,
      ReconcileFails, StartCron, Listen, ServeFails, Signal, StopCron, CronStopped,
      CallsAnswered, CallsCancelled, SendStop, StopReply, StopResult, StopGivesUp, Crash, Exit,
      Restart

-----------------------------------------------------------------------------
(* The commands follow the window.                                          *)

Agrees == BootAgrees /\ WindowAgrees

LEMMA InsideIsBoolean == \A t : Inside(t) \in BOOLEAN
  BY DEF Inside

\* Time passes: a boundary starts a goroutine of the cron or is lost, another minute
\* changes nothing.
LEMMA AgreesTick ==
  ASSUME Validate, DataTyped, FlagsTyped, Places, Agrees, Tick
  PROVE  Agrees'
<1>1. /\ window' = window /\ now' = NextMinute /\ pc' = pc /\ computed' = computed
      /\ queue' = queue /\ desired' = desired
  BY DEF Tick
<1>2. Inside(now)' = Inside(NextMinute) BY <1>1, Zenon DEF Inside, Start, Stop
<1>3. CASE Boundary(NextMinute)
  <2>1. lost' = ~cron BY <1>3 DEF Tick
  <2>2. cron /\ pc # "exited" => jobs' \cap {"start", "shutdown"} # {}
    BY <1>3 DEF Tick, Due, Entry, Boundary
  <2>3. BootAgrees' BY <1>1, <2>1 DEF Agrees, BootAgrees, Places, Early, FlagsTyped, Settles
  <2>4. WindowAgrees' BY <1>1, <2>1, <2>2 DEF WindowAgrees, FlagsTyped
  <2> QED BY <2>3, <2>4 DEF Agrees
<1>4. CASE ~Boundary(NextMinute)
  <2>1. lost' = lost BY <1>4 DEF Tick
  <2>2. Inside(NextMinute) = Inside(now)
    <3>1. Inside(NextMinute) <=> Inside(now) BY <1>4, OnlyBoundariesSwitch DEF DataTyped
    <3> QED BY <3>1, InsideIsBoolean
  <2>3. BootAgrees' BY <1>1, <1>2, <2>1, <2>2 DEF Agrees, BootAgrees, Early, Settles
  <2>4. WindowAgrees'
    <3>1. CASE pc \in {"listen", "serving"}
      <4>1. jobs = {} BY <3>1 DEF Tick
      <4> QED BY <1>1, <1>2, <2>1, <2>2, <4>1 DEF Agrees, WindowAgrees, Settles
    <3>2. CASE pc \notin {"listen", "serving"} BY <1>1, <3>2 DEF WindowAgrees
    <3> QED BY <3>1, <3>2
  <2> QED BY <2>3, <2>4 DEF Agrees
<1> QED BY <1>3, <1>4

\* The goroutine of an entry sends the command of its minute.
LEMMA AgreesJobSends ==
  ASSUME Validate, QueueTyped, DataTyped, FlagsTyped, Places, JobsInTime, Agrees,
         NEW j \in jobs, JobSends(j)
  PROVE  Agrees'
<1>1. /\ window' = window /\ now' = now /\ pc' = pc /\ desired' = desired /\ lost' = lost
      /\ jobs' = jobs \ {j} /\ queue' = Append(queue, j)
  BY DEF JobSends
<1>2. Inside(now)' = Inside(now) BY <1>1, Zenon DEF Inside, Start, Stop
<1>3. j \in {"start", "shutdown", "pass"} /\ now \in Entry[j] /\ pc \notin Early
  BY DEF DataTyped, Entry, JobsInTime, Places
<1>4. BootAgrees' BY <1>1, <1>3 DEF BootAgrees, Early
<1>5. CASE j = "start"
  <2>1. Inside(now) = TRUE
    <3>1. now = Start BY <1>3, <1>5 DEF Entry
    <3> QED BY <3>1, WindowFacts, InsideIsBoolean DEF DataTyped
  <2>2. Leads(queue', desired', TRUE)
    <3>1. Leads(Append(queue, j), desired, j \in TurnsOn)
      BY <1>5, AppendLeads DEF QueueTyped, FlagsTyped
    <3>2. (j \in TurnsOn) = TRUE BY <1>5
    <3> QED BY <1>1, <3>1, <3>2
  <2> QED BY <1>2, <1>4, <2>1, <2>2 DEF Agrees, WindowAgrees, Settles
<1>6. CASE j = "shutdown"
  <2>1. Inside(now) = FALSE
    <3>1. now = Stop BY <1>3, <1>6 DEF Entry
    <3> QED BY <3>1, WindowFacts, InsideIsBoolean DEF DataTyped
  <2>2. Leads(queue', desired', FALSE)
    <3>1. Leads(Append(queue, j), desired, j \in TurnsOn)
      BY <1>6, AppendLeads DEF QueueTyped, FlagsTyped
    <3>2. (j \in TurnsOn) = FALSE BY <1>6
    <3> QED BY <1>1, <3>1, <3>2
  <2> QED BY <1>2, <1>4, <2>1, <2>2 DEF Agrees, WindowAgrees, Settles
<1>7. CASE j = "pass"
  <2>1. jobs' \cap {"start", "shutdown"} = jobs \cap {"start", "shutdown"} BY <1>1, <1>7
  <2>2. Settles(Inside(now)) => Leads(Append(queue, j), desired, Inside(now))
    BY <1>7, AppendLeads, InsideIsBoolean DEF QueueTyped, FlagsTyped, Settles
  <2> QED BY <1>1, <1>2, <1>4, <2>1, <2>2 DEF Agrees, WindowAgrees, Settles
<1> QED BY <1>3, <1>5, <1>6, <1>7

\* A step that leaves the minute alone, and to where the channel leads, keeps the promise.
LEMMA AgreesFrame ==
  ASSUME Agrees, window' = window, now' = now, pc' = pc, computed' = computed, lost' = lost,
         jobs' \cap {"start", "shutdown"} = jobs \cap {"start", "shutdown"},
         pc = "cron" => desired' = desired,
         \A b \in BOOLEAN : Leads(queue, desired, b) => Leads(queue', desired', b),
         computed \in BOOLEAN
  PROVE  Agrees'
<1>1. Inside(now)' = Inside(now) BY Zenon DEF Inside, Start, Stop
<1>2. Leads(queue, desired, computed) => Leads(queue', desired', computed') OBVIOUS
<1>3. Leads(queue, desired, Inside(now)) => Leads(queue', desired', Inside(now)')
  BY <1>1, InsideIsBoolean
<1>4. BootAgrees' BY <1>1, <1>2 DEF Agrees, BootAgrees, Settles, Early
<1>5. WindowAgrees' BY <1>1, <1>3 DEF Agrees, WindowAgrees, Settles
<1> QED BY <1>4, <1>5 DEF Agrees

\* The other commands, the loop and a full channel.
LEMMA AgreesChannel ==
  ASSUME Validate, QueueTyped, DataTyped, FlagsTyped, Places, Agrees,
         Call \/ Take \/ LoopEnds \/ Signal \/ \E j \in jobs : JobDropped(j)
  PROVE  Agrees'
<1> USE DEF QueueTyped, FlagsTyped
<1>0. window' = window /\ now' = now /\ pc' = pc /\ computed' = computed
  BY DEF Call, CallEnds, CallArrives, CallSends, CallGivesUp, CallExpires, Take, LoopEnds, Signal,
         JobDropped
<1>1. CASE CallSends
  <2>1. \A b \in BOOLEAN : Leads(queue, desired, b) => Leads(queue', desired', b)
    BY <1>1, AppendLeads DEF CallSends
  <2> QED BY <1>0, <1>1, <2>1, AgreesFrame DEF CallSends
<1>2. CASE CallExpires
  <2>1. PICK i \in DOMAIN queue : queue[i] = "call" /\ queue' = [queue EXCEPT ![i] = "expired"]
    BY <1>2 DEF CallExpires
  <2>2. i \in 1..Len(queue) BY LenProperties
  <2>3. /\ queue' \in Seq(Kind) /\ Len(queue') = Len(queue)
        /\ \A k \in 1..Len(queue) :
             queue'[k] = queue[k] \/ (queue[k] = "call" /\ queue'[k] = "expired")
    BY <2>1, <2>2, ExceptSeq
  <2>4. \A b \in BOOLEAN : Leads(queue, desired, b) => Leads(queue', desired, b)
    BY <2>3, SameLeads
  <2> QED BY <1>0, <1>2, <2>4, AgreesFrame DEF CallExpires
<1>3. CASE Take
  <2>1. \A b \in BOOLEAN : Leads(queue, desired, b) => Leads(queue', desired', b)
    BY <1>3, TailLeads DEF Take
  <2>2. pc # "cron" BY <1>3 DEF Take, Places
  <2> QED BY <1>0, <1>3, <2>1, <2>2, AgreesFrame DEF Take
<1>4. ASSUME NEW j \in jobs, JobDropped(j) PROVE Agrees'
  <2>1. CASE j \in {"start", "shutdown"}
    <3>1. lost' = TRUE BY <1>4, <2>1 DEF JobDropped
    <3>2. pc \notin Early BY <1>4 DEF Places
    <3> QED BY <1>0, <3>1, <3>2 DEF Agrees, BootAgrees, WindowAgrees, Early
  <2>2. CASE j \notin {"start", "shutdown"}
    <3>1. lost' = lost BY <1>4, <2>2, Zenon DEF JobDropped
    <3>2. jobs' \cap {"start", "shutdown"} = jobs \cap {"start", "shutdown"}
      BY <1>4, <2>2 DEF JobDropped
    <3> QED BY <1>0, <1>4, <3>1, <3>2, AgreesFrame DEF JobDropped
  <2> QED BY <2>1, <2>2
<1>5. CASE CallArrives \/ CallGivesUp \/ LoopEnds \/ Signal
  BY <1>0, <1>5, AgreesFrame DEF CallArrives, CallGivesUp, LoopEnds, Signal
<1> QED BY <1>1, <1>2, <1>3, <1>4, <1>5 DEF Call, CallEnds

\* Boot: what was computed is sent, taken, and true when the cron takes over.
LEMMA AgreesBoot ==
  ASSUME Validate, QueueTyped, DataTyped, FlagsTyped, Places, Agrees, Boot
  PROVE  Agrees'
<1> USE DEF QueueTyped, FlagsTyped, Early
<1>0. window' = window /\ now' = now /\ Inside(now)' = Inside(now)
  <2>1. window' = window /\ now' = now
    BY DEF Boot, ComputeDesired, SendReconcile, Reconciled, ReconcileFails, StartCron, Listen,
           ServeFails
  <2> QED BY <2>1, Zenon DEF Inside, Start, Stop
<1>1. CASE ComputeDesired
  BY <1>0, <1>1 DEF ComputeDesired, Agrees, BootAgrees, WindowAgrees
<1>2. CASE SendReconcile
  <2>1. /\ pc = "send" /\ pc' = "reconcile" /\ computed' = computed /\ lost' = lost
        /\ desired' = desired
        /\ queue' = Append(queue, IF computed THEN "on" ELSE "off")
    BY <1>2 DEF SendReconcile
  <2>2. CASE computed = TRUE
    <3>1. queue' = Append(queue, "on") BY <2>1, <2>2
    <3>2. Leads(Append(queue, "on"), desired, "on" \in TurnsOn) BY AppendLeads
    <3>3. Leads(queue', desired', TRUE) BY <2>1, <3>1, <3>2
    <3> QED BY <1>0, <2>1, <2>2, <3>3 DEF Agrees, BootAgrees, WindowAgrees, Settles
  <2>3. CASE computed = FALSE
    <3>1. queue' = Append(queue, "off") BY <2>1, <2>3
    <3>2. Leads(Append(queue, "off"), desired, "off" \in TurnsOn) BY AppendLeads
    <3>3. ("off" \in TurnsOn) = FALSE OBVIOUS
    <3>4. Leads(queue', desired', FALSE) BY <2>1, <3>1, <3>2, <3>3
    <3> QED BY <1>0, <2>1, <2>3, <3>4 DEF Agrees, BootAgrees, WindowAgrees, Settles
  <2> QED BY <2>2, <2>3
<1>3. CASE Reconciled
  <2>1. Leads(<<>>, desired, computed)
    BY <1>3 DEF Reconciled, Agrees, BootAgrees, Settles
  <2>2. desired = computed BY <2>1 DEF Leads, Switches
  <2> QED BY <1>0, <1>3, <2>2 DEF Reconciled, Agrees, BootAgrees, WindowAgrees
<1>4. CASE StartCron
  <2>1. /\ pc = "cron" /\ pc' = "listen" /\ lost' = lost /\ queue' = queue /\ desired' = desired
    BY <1>4 DEF StartCron
  <2>2. queue = <<>> /\ desired = computed /\ (~lost => computed = Inside(now))
    BY <2>1 DEF Places, Agrees, BootAgrees
  <2>3. ~lost => Leads(<<>>, desired, Inside(now)) BY <2>2 DEF Leads, Switches
  <2>4. ~lost' => Settles(Inside(now))' BY <1>0, <2>1, <2>2, <2>3 DEF Settles
  <2> QED BY <2>1, <2>4 DEF Agrees, BootAgrees, WindowAgrees
<1>5. CASE Listen
  BY <1>0, <1>5 DEF Listen, Agrees, BootAgrees, WindowAgrees, Settles
<1>6. CASE ReconcileFails \/ ServeFails
  BY <1>6 DEF ReconcileFails, ServeFails, Agrees, BootAgrees, WindowAgrees
<1> QED BY <1>1, <1>2, <1>3, <1>4, <1>5, <1>6 DEF Boot

LEMMA AgreesStep ==
  ASSUME Validate, QueueTyped, DataTyped, FlagsTyped, Places, JobsInTime, Agrees, [Next]_vars
  PROVE  Agrees'
<1>1. CASE Tick BY <1>1, AgreesTick
<1>2. CASE Job BY <1>2, AgreesJobSends, AgreesChannel DEF Job
<1>3. CASE Call \/ Take \/ LoopEnds \/ Signal BY <1>3, AgreesChannel
<1>4. CASE Boot BY <1>4, AgreesBoot
<1>5. CASE Shutdown \/ Crash \/ Restart
  <2>1. pc' \in {"boot", "drainCron", "drainCalls", "awaitCalls", "stop", "stopReply",
                  "stopResult", "exited"}
    BY <1>5 DEF Shutdown, StopCron, CronStopped, CallsAnswered, CallsCancelled, SendStop, StopReply,
                StopResult, StopGivesUp, Crash, Exit, Restart
  <2> QED BY <2>1 DEF Agrees, BootAgrees, WindowAgrees, Early
<1>6. CASE UNCHANGED vars
  BY <1>6, AgreesFrame DEF vars, FlagsTyped
<1> QED BY <1>1, <1>2, <1>3, <1>4, <1>5, <1>6 DEF Next

-----------------------------------------------------------------------------
(* The order of the shutdown.                                               *)

LEMMA StopStep ==
  ASSUME Validate, QueueTyped, DataTyped, Places, StopIsLast, [Next]_vars
  PROVE  StopIsLast'
<1> USE DEF StopIsLast, QueueTyped
<1>0. /\ Len(queue) \in Nat /\ DOMAIN queue = 1..Len(queue)
      /\ server = "stopped" => ~cron /\ pc \in Stopped \cup {"stop"} /\ blocked = 0 /\ jobs = {}
  BY LenProperties DEF Places
<1>1. CASE Tick BY <1>0, <1>1 DEF Tick
<1>2. CASE Job BY <1>0, <1>2 DEF Job, JobSends, JobDropped
<1>3. CASE CallArrives \/ CallSends \/ CallGivesUp
  BY <1>0, <1>3 DEF CallArrives, CallSends, CallGivesUp
<1>4. CASE CallExpires
  <2>1. PICK i \in DOMAIN queue : queue[i] = "call" /\ queue' = [queue EXCEPT ![i] = "expired"]
    BY <1>4 DEF CallExpires
  <2>2. /\ Len(queue') = Len(queue) /\ queue' \in Seq(Kind) /\ queue # <<>>
        /\ \A k \in 1..Len(queue) : queue'[k] = "stop" => queue[k] = "stop"
    BY <1>0, <2>1, ExceptSeq
  <2>3. DOMAIN queue' = 1..Len(queue) BY <2>2, LenProperties
  <2> QED BY <1>0, <1>4, <2>2, <2>3 DEF CallExpires
<1>5. CASE Take
  <2>1. SUFFICES ASSUME server = "stopped" PROVE StopIsLast' BY <1>5 DEF Take
  <2>2. loop = "running" /\ queue # <<>> /\ queue' = Tail(queue) BY <1>5, <2>1 DEF Take
  <2>3. /\ Head(queue) = queue[1] /\ queue' \in Seq(Kind) /\ Len(queue') = Len(queue) - 1
        /\ \A k \in 1..Len(queue') : queue'[k] = queue[k + 1]
        /\ Len(queue) # 0
    BY <1>0, <2>2, HeadTailProperties, EmptySeq
  <2>4. DOMAIN queue' = 1..Len(queue') BY <2>3, LenProperties
  <2>5. \A k \in DOMAIN queue' : queue'[k] = "stop" => k = Len(queue')
    BY <1>0, <2>1, <2>3, <2>4
  <2>6. loop' # "running" => queue' = <<>>
    <3>1. SUFFICES ASSUME Head(queue) = "stop" PROVE queue' = <<>> BY <1>5, <2>2 DEF Take
    <3>2. Len(queue) = 1 BY <1>0, <2>1, <2>3, <3>1
    <3> QED BY <2>3, <3>2, EmptySeq
  <2> QED BY <1>0, <1>5, <2>1, <2>5, <2>6 DEF Take
<1>6. CASE LoopEnds BY <1>6 DEF LoopEnds
<1>7. CASE Boot
  BY <1>0, <1>7 DEF Boot, ComputeDesired, SendReconcile, Reconciled, ReconcileFails, StartCron,
                    Listen, ServeFails, Places, Early, Stopped
<1>8. CASE Signal BY <1>8 DEF Signal
<1>9. CASE StopCron \/ CronStopped \/ CallsCancelled
  BY <1>0, <1>9 DEF StopCron, CronStopped, CallsCancelled, AfterTimeout, Stopped
<1>10. CASE CallsAnswered BY <1>0, <1>10 DEF CallsAnswered, Places, Stopped
<1>11. CASE SendStop
  <2>1. /\ pc = "stop" /\ queue' = Append(queue, "stop") /\ loop' = loop /\ server' = server
        /\ blocked' = blocked /\ jobs' = jobs
    BY <1>11 DEF SendStop
  <2>2. loop = "running" /\ \A k \in DOMAIN queue : queue[k] # "stop"
    BY <2>1 DEF Places, Stopped
  <2>3. /\ Len(queue') = Len(queue) + 1 /\ DOMAIN queue' = 1..Len(queue) + 1
        /\ \A k \in 1..Len(queue) : queue'[k] = queue[k]
    BY <2>1
  <2> QED BY <1>0, <2>1, <2>2, <2>3
<1>12. CASE StopReply \/ StopResult \/ StopGivesUp \/ Crash
  BY <1>12 DEF StopReply, StopResult, StopGivesUp, Crash, Exit
<1>13. CASE Restart BY <1>13 DEF Restart
<1>14. CASE UNCHANGED vars BY <1>14 DEF vars
<1> QED BY <1>1, <1>2, <1>3, <1>4, <1>5, <1>6, <1>7, <1>8, <1>9, <1>10, <1>11, <1>12, <1>13, <1>14
  DEF Next, Call, CallEnds, Shutdown

-----------------------------------------------------------------------------
(* The theorems.                                                            *)

IInv == /\ FlagsTyped /\ DataTyped /\ QueueTyped /\ Places /\ JobsInTime
        /\ Agrees /\ StopIsLast

LEMMA InitIInv == ASSUME Validate, Init PROVE IInv
<1>1. FlagsTyped BY DEF Init, FlagsTyped
<1>2. DataTyped BY DEF Init, DataTyped, Validate
<1>3. QueueTyped BY EmptySeq DEF Init, QueueTyped, Validate
<1>4. Places /\ JobsInTime BY DEF Init, Places, Early, Stopped, JobsInTime
<1>5. Agrees BY DEF Init, Agrees, BootAgrees, WindowAgrees, Early
<1>6. StopIsLast BY DEF Init, StopIsLast
<1> QED BY <1>1, <1>2, <1>3, <1>4, <1>5, <1>6 DEF IInv

\* Every state keeps the types, main and the loop their places, and the promises.
THEOREM Invariant == Spec => []IInv
<1>1. Init => IInv BY InitIInv, ConfigAssumption
<1>2. IInv /\ [Next]_vars => IInv'
  <2>1. SUFFICES ASSUME IInv, [Next]_vars PROVE IInv' OBVIOUS
  <2>2. FlagsTyped' /\ DataTyped' BY <2>1, FlagsStep, DataStep, ConfigAssumption DEF IInv
  <2>3. QueueTyped' BY <2>1, QueueStep, ConfigAssumption DEF IInv, DataTyped
  <2>4. Places' /\ JobsInTime' BY <2>1, PlacesStep, JobsStep, ConfigAssumption DEF IInv
  <2>5. Agrees' BY <2>1, AgreesStep, ConfigAssumption DEF IInv
  <2>6. StopIsLast' BY <2>1, StopStep, ConfigAssumption DEF IInv
  <2> QED BY <2>2, <2>3, <2>4, <2>5, <2>6 DEF IInv
<1> QED BY <1>1, <1>2, PTL DEF Spec

\* The types of the service; the channel of commands never holds more than its capacity.
THEOREM ServiceTypes == Spec => []TypeOK
<1>1. IInv => TypeOK BY DEF IInv, FlagsTyped, DataTyped, QueueTyped, TypeOK, Entry
<1> QED BY <1>1, Invariant, PTL

\* Boot and cron give DesiredOn the value of the configured window, unless its last
\* boundary was lost.
THEOREM WindowFollowed == Spec => []WindowAgrees
<1>1. IInv => WindowAgrees BY DEF IInv, Agrees
<1> QED BY <1>1, Invariant, PTL

\* Once the gRPC server has gone, no command is behind Stop and no caller waits.
THEOREM OrderlyShutdown == Spec => []StopIsLast
<1>1. IInv => StopIsLast BY DEF IInv
<1> QED BY <1>1, Invariant, PTL

=============================================================================
