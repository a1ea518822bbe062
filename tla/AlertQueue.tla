----------------------------- MODULE AlertQueue -----------------------------
(***************************************************************************)
(* What the service promises of alerts (README "Alert FIFO"), with neither *)
(* loop, channels, display nor news: a bounded queue in memory whose       *)
(* elements reach the screen one at a time, in the order they were         *)
(* accepted, each at most once, and which is only ever emptied as a whole. *)
(***************************************************************************)
EXTENDS Naturals, Sequences, FiniteSets

CONSTANTS Alerts, Capacity

VARIABLES
  waiting,   \* accepted alerts that have not been started, oldest first
  onScreen,  \* the alerts that own the screen
  taken      \* every alert accepted so far

vars == <<waiting, onScreen, taken>>

TypeOK ==
  /\ waiting \in Seq(Alerts)
  /\ onScreen \subseteq Alerts
  /\ taken \subseteq Alerts

Init == waiting = <<>> /\ onScreen = {} /\ taken = {}

\* The capacity counts the alerts behind the one on, or next on, the screen.
Accept(a) ==
  /\ a \notin taken
  /\ Len(waiting) + Cardinality(onScreen) \leq Capacity
  /\ waiting' = Append(waiting, a)
  /\ taken' = taken \cup {a}
  /\ UNCHANGED onScreen

Start ==
  /\ waiting # <<>>
  /\ onScreen = {}
  /\ onScreen' = {Head(waiting)}
  /\ waiting' = Tail(waiting)
  /\ UNCHANGED taken

Finish ==
  /\ onScreen # {}
  /\ onScreen' = {}
  /\ UNCHANGED <<waiting, taken>>

GiveUp ==
  /\ waiting # <<>>
  /\ waiting' = <<>>
  /\ UNCHANGED <<onScreen, taken>>

Next == (\E a \in Alerts : Accept(a)) \/ Start \/ Finish \/ GiveUp

Spec == Init /\ [][Next]_vars
=============================================================================
