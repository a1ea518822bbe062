--------------------------- MODULE RequestsProofs ---------------------------
(***************************************************************************)
(* Theorems about Requests, for every set of callers, whatever they call,  *)
(* and every capacity of the channel: its types, that a caller is told the *)
(* truth, that the loop never waits for a caller, and that the command of  *)
(* a caller that has gone does nothing.                                    *)
(***************************************************************************)
EXTENDS Requests, SequenceTheorems, TLAPS

USE DEF loopVars, callVars, Replies

\* The callers whose command is in the channel, each once.
Queued == {commands[i] : i \in DOMAIN commands}
Distinct == \A i, j \in DOMAIN commands : commands[i] = commands[j] => i = j

\* A call that has not sent its command yet.
Fresh(c) ==
  pc[c] \in {"storing", "sending"} =>
    c \notin Queued /\ c # current /\ reply[c] = None /\ c \notin effects /\ result[c] = None

\* A command in the channel has no answer and no effect; who has left has a reason.
Unhandled(c) ==
  c \in Queued =>
    /\ c # current /\ reply[c] = None /\ c \notin effects /\ result[c] # "refused"
    /\ pc[c] \in {"waiting", "returned"}
    /\ pc[c] = "returned" /\ loop # "done" => ctxDone[c]

\* The places of a call: an item is stored before its command is sent, and only Stop waits
\* for the end of the loop.
CallPlace(c) ==
  /\ kind[c] = "news" /\ pc[c] \in {"sending", "waiting"} => c \in stored
  /\ kind[c] # "news" => pc[c] # "storing"
  /\ pc[c] = "stopping" => kind[c] = "stop"

CallInv == \A c \in Callers : Fresh(c) /\ Unhandled(c) /\ CallPlace(c)

\* The command at hand.
CurrentInv ==
  /\ loop = "handling" =>
       /\ current \in Callers /\ pc[current] \in {"waiting", "returned"}
       /\ reply[current] = None /\ current \notin effects /\ result[current] # "refused"
  /\ loop = "ending" =>
       /\ current \in Callers /\ pc[current] \notin {"storing", "sending"}
       /\ current \in effects
       /\ kind[current] = "news" => reply[current] = None
  /\ loop \in {"select", "done"} => current = None

\* The loop speaks of its end when it is there.
EndInv ==
  /\ stopResult # None => loop = "done"
  /\ loop = "done" => ~working

FlagsTyped == stopping \in BOOLEAN /\ working \in BOOLEAN /\ ctxDone \in [Callers -> BOOLEAN]

DataTyped ==
  /\ kind \in Calls /\ kind \in [Callers -> Kinds]
  /\ pc \in [Callers -> {"storing", "sending", "waiting", "stopping", "returned"}]
  /\ result \in [Callers -> Replies \cup {None, "failed"}]
  /\ reply \in [Callers -> Replies \cup {None}]
  /\ loop \in {"select", "handling", "ending", "done"}
  /\ current \in Callers \cup {None}
  /\ effects \subseteq Callers /\ stored \subseteq Callers
  /\ stopResult \in {None, "ok", "failed"}

ChannelTyped == commands \in Seq(Callers) /\ Len(commands) \leq CommandQueueCapacity

IInv == FlagsTyped /\ DataTyped /\ ChannelTyped /\ Distinct /\ CallInv /\ CurrentInv /\ EndInv
          /\ RepliesAreTrue /\ OkIsFinal

-----------------------------------------------------------------------------
(* The channel.                                                             *)

\* A caller that is not in it is added.
LEMMA SendStep ==
  ASSUME NEW c \in Callers, ChannelTyped, Distinct, c \notin Queued,
         commands' = Append(commands, c)
  PROVE  Queued' = Queued \cup {c} /\ Distinct'
<1>1. /\ Len(commands) \in Nat /\ DOMAIN commands = 1..Len(commands)
      /\ DOMAIN commands' = 1..Len(commands) + 1
      /\ commands'[Len(commands) + 1] = c
      /\ \A i \in 1..Len(commands) : commands'[i] = commands[i]
  BY LenProperties DEF ChannelTyped
<1>2. DOMAIN commands' = DOMAIN commands \cup {Len(commands) + 1} BY <1>1
<1>3. Queued' = Queued \cup {c} BY <1>1, <1>2 DEF Queued
<1>4. \A i \in DOMAIN commands : commands[i] # c BY DEF Queued
<1>5. Distinct' BY <1>1, <1>2, <1>4 DEF Distinct
<1> QED BY <1>3, <1>5

\* The one the loop takes was there, and is no longer.
LEMMA TakeStep ==
  ASSUME ChannelTyped, Distinct, commands # <<>>, commands' = Tail(commands)
  PROVE  /\ Head(commands) \in Queued /\ Head(commands) \in Callers
         /\ Queued' = Queued \ {Head(commands)}
         /\ Distinct'
<1>1. /\ Len(commands) \in Nat \ {0} /\ DOMAIN commands = 1..Len(commands)
      /\ DOMAIN commands' = 1..Len(commands) - 1
      /\ Head(commands) = commands[1] /\ Head(commands) \in Callers
      /\ \A i \in 1..Len(commands) - 1 : commands'[i] = commands[i + 1]
  BY HeadTailProperties, LenProperties, EmptySeq DEF ChannelTyped
<1>2. Head(commands) \in Queued BY <1>1 DEF Queued
<1>3. ASSUME NEW c \in Queued' PROVE c \in Queued /\ c # Head(commands)
  <2>1. PICK i \in 1..Len(commands) - 1 : c = commands[i + 1] BY <1>1, <1>3 DEF Queued
  <2>2. i + 1 \in DOMAIN commands /\ 1 \in DOMAIN commands /\ i + 1 # 1 BY <1>1
  <2> QED BY <1>1, <2>1, <2>2 DEF Queued, Distinct
<1>4. ASSUME NEW c \in Queued, c # Head(commands) PROVE c \in Queued'
  <2>1. PICK i \in 1..Len(commands) : c = commands[i] BY <1>1, <1>4 DEF Queued
  <2>2. i # 1 BY <1>1, <1>4, <2>1
  <2>3. i - 1 \in DOMAIN commands' /\ commands'[i - 1] = commands[i] BY <1>1, <2>2
  <2> QED BY <2>1, <2>3 DEF Queued
<1>5. Distinct'
  <2>1. SUFFICES ASSUME NEW i \in 1..Len(commands) - 1, NEW j \in 1..Len(commands) - 1,
                        commands'[i] = commands'[j]
                 PROVE  i = j
    BY <1>1 DEF Distinct
  <2>2. i + 1 \in DOMAIN commands /\ j + 1 \in DOMAIN commands BY <1>1
  <2>3. commands[i + 1] = commands[j + 1] BY <1>1, <2>1
  <2> QED BY <2>2, <2>3 DEF Distinct
<1> QED BY <1>1, <1>2, <1>3, <1>4, <1>5

\* No other step touches it.
LEMMA OtherStep ==
  ASSUME UNCHANGED commands
  PROVE  Queued' = Queued /\ (Distinct => Distinct')
  BY DEF Queued, Distinct

-----------------------------------------------------------------------------
(* The initial states and the steps.                                        *)

LEMMA InitIInv == ASSUME RequestsAssumption, Init PROVE IInv
<1>1. FlagsTyped BY DEF Init, FlagsTyped
<1>2. DataTyped BY DEF Init, DataTyped, RequestsAssumption
<1>3. ChannelTyped /\ Distinct /\ Queued = {}
  BY EmptySeq DEF Init, ChannelTyped, Distinct, Queued, RequestsAssumption
<1>4. CallInv
  BY <1>2, <1>3 DEF Init, CallInv, Fresh, Unhandled, CallPlace, DataTyped, RequestsAssumption
<1>5. CurrentInv /\ EndInv BY DEF Init, CurrentInv, EndInv
<1>6. RepliesAreTrue /\ OkIsFinal
  BY DEF Init, RepliesAreTrue, OkIsFinal, RequestsAssumption
<1> QED BY <1>1, <1>2, <1>3, <1>4, <1>5, <1>6 DEF IInv

\* Booleans stay Booleans.
LEMMA FlagsStep ==
  ASSUME FlagsTyped, [Next]_vars
  PROVE  FlagsTyped'
<1> USE DEF FlagsTyped
<1>1. ASSUME NEW c \in Callers, ContextEnds(c) PROVE FlagsTyped' BY <1>1 DEF ContextEnds
<1>2. CASE BeginStop BY <1>2 DEF BeginStop
<1>3. CASE EndCommand BY <1>3, Zenon DEF EndCommand, EndOfBody
<1>4. CASE WorkerEnds BY <1>4, Zenon DEF WorkerEnds
<1>5. CASE UNCHANGED <<stopping, working, ctxDone>> BY <1>5
<1> QED BY <1>1, <1>2, <1>3, <1>4, <1>5
  DEF Next, vars, CallSteps, Waits, Loop, Handle, Store, Send, GetReply, SeeContext, SeeDone,
      GetStopResult, Take, Begin, Drop, Reply, Snapshot, RefuseAlert, AcceptAlert, NewsChanged

\* Calls, loop and channels stay in their places.
LEMMA DataStep ==
  ASSUME DataTyped, ChannelTyped, CurrentInv, [Next]_vars
  PROVE  DataTyped'
<1> USE DEF DataTyped, Goto, Return, Answer, Reply, Handled
<1>1. ASSUME NEW c \in Callers, Store(c) PROVE DataTyped' BY <1>1 DEF Store
<1>2. ASSUME NEW c \in Callers, ContextEnds(c) PROVE DataTyped' BY <1>2 DEF ContextEnds
<1>3. ASSUME NEW c \in Callers, Send(c) PROVE DataTyped' BY <1>3 DEF Send
<1>4. ASSUME NEW c \in Callers, GetReply(c) PROVE DataTyped' BY <1>4 DEF GetReply
<1>5. ASSUME NEW c \in Callers, SeeContext(c) PROVE DataTyped' BY <1>5 DEF SeeContext
<1>6. ASSUME NEW c \in Callers, SeeDone(c) PROVE DataTyped' BY <1>6 DEF SeeDone
<1>7. ASSUME NEW c \in Callers, GetStopResult(c) PROVE DataTyped' BY <1>7 DEF GetStopResult
<1>8. CASE Take
  <2>1. Head(commands) \in Callers BY <1>8, HeadTailProperties DEF Take, ChannelTyped
  <2> QED BY <1>8, <2>1 DEF Take, Begin, Drop
<1>9. CASE Snapshot BY <1>9 DEF Snapshot, CurrentInv
<1>10. CASE RefuseAlert BY <1>10 DEF RefuseAlert, Refusal, CurrentInv
<1>11. CASE AcceptAlert BY <1>11 DEF AcceptAlert, CurrentInv
<1>12. CASE NewsChanged BY <1>12 DEF NewsChanged, CurrentInv
<1>13. CASE BeginStop BY <1>13 DEF BeginStop, CurrentInv
<1>14. CASE EndCommand BY <1>14 DEF EndCommand, EndOfBody, LastWords, CurrentInv
<1>15. CASE WorkerEnds BY <1>15 DEF WorkerEnds, LastWords
<1>16. CASE UNCHANGED vars BY <1>16 DEF vars
<1> QED BY <1>1, <1>2, <1>3, <1>4, <1>5, <1>6, <1>7, <1>8, <1>9, <1>10, <1>11, <1>12, <1>13, <1>14,
           <1>15, <1>16
  DEF Next, CallSteps, Waits, Loop, Handle

\* A command is sent by a caller that is not in the channel, which has room, or the first
\* is taken, or the channel is left alone.
LEMMA ChannelStep ==
  ASSUME RequestsAssumption, ChannelTyped, Distinct, CallInv, [Next]_vars
  PROVE  /\ ChannelTyped' /\ Distinct'
         /\ \/ Queued' = Queued
            \/ \E c \in Callers : Send(c) /\ Queued' = Queued \cup {c}
            \/ Take /\ Head(commands) \in Queued /\ Queued' = Queued \ {Head(commands)}
<1>0. CommandQueueCapacity \in Nat /\ Len(commands) \in Nat
  BY LenProperties DEF RequestsAssumption, ChannelTyped
<1>1. ASSUME NEW c \in Callers, Send(c)
      PROVE  ChannelTyped' /\ Distinct' /\ Queued' = Queued \cup {c}
  <2>1. c \notin Queued BY <1>1 DEF Send, CallInv, Fresh
  <2>2. Distinct' /\ Queued' = Queued \cup {c} BY <1>1, <2>1, SendStep DEF Send
  <2>3. ChannelTyped'
    BY <1>0, <1>1, AppendProperties DEF Send, HasRoom, ChannelTyped
  <2> QED BY <2>2, <2>3
<1>2. CASE Take
  <2>1. ChannelTyped' BY <1>0, <1>2, HeadTailProperties DEF Take, ChannelTyped
  <2> QED BY <1>2, <2>1, TakeStep DEF Take
<1>3. CASE UNCHANGED commands BY <1>3, OtherStep DEF ChannelTyped
<1> QED BY <1>1, <1>2, <1>3
  DEF Next, vars, CallSteps, Waits, Loop, Handle, Store, ContextEnds, GetReply, SeeContext, SeeDone,
      GetStopResult, Snapshot, RefuseAlert, AcceptAlert, NewsChanged, BeginStop, EndCommand, WorkerEnds

\* Who has not sent is not known to the loop; who waits in the channel has had no answer.
LEMMA CallStep ==
  ASSUME RequestsAssumption, IInv, [Next]_vars
  PROVE  CallInv'
<1> DEFINE Good(c) == Fresh(c) /\ Unhandled(c) /\ CallPlace(c)
<1> SUFFICES ASSUME NEW c \in Callers PROVE Good(c)' BY DEF CallInv
<1>0. Good(c) /\ DataTyped /\ FlagsTyped /\ CurrentInv BY DEF IInv, CallInv
<1>00. /\ \/ Queued' = Queued
          \/ \E d \in Callers : Send(d) /\ Queued' = Queued \cup {d}
          \/ Take /\ Head(commands) \in Queued /\ Queued' = Queued \ {Head(commands)}
       /\ UNCHANGED commands => Queued' = Queued
  BY ChannelStep, OtherStep DEF IInv
<1> USE <1>0 DEF DataTyped, FlagsTyped, CurrentInv, Fresh, Unhandled, CallPlace, Goto, Return,
                 Reply, Handled
<1>1. ASSUME NEW d \in Callers, Store(d) PROVE Good(c)' BY <1>00, <1>1 DEF Store
<1>2. ASSUME NEW d \in Callers, ContextEnds(d) PROVE Good(c)' BY <1>00, <1>2 DEF ContextEnds
<1>3. ASSUME NEW d \in Callers, Send(d) PROVE Good(c)'
  <2>1. Queued' = Queued \cup {d} BY <1>3, SendStep DEF Send, IInv, CallInv
  <2> QED BY <1>3, <2>1 DEF Send
<1>4. ASSUME NEW d \in Callers, GetReply(d) PROVE Good(c)'
  BY <1>00, <1>4, RequestsAssumption DEF GetReply, Answer
<1>5. ASSUME NEW d \in Callers, SeeContext(d) PROVE Good(c)'
  BY <1>00, <1>5, RequestsAssumption DEF SeeContext, Answer
<1>6. ASSUME NEW d \in Callers, SeeDone(d) PROVE Good(c)'
  BY <1>00, <1>6, RequestsAssumption DEF SeeDone, DoneIsHeard, Answer
<1>7. ASSUME NEW d \in Callers, GetStopResult(d) PROVE Good(c)' BY <1>00, <1>7 DEF GetStopResult
<1>8. CASE Take
  <2>1. Head(commands) \in Queued /\ Head(commands) \in Callers /\ Queued' = Queued \ {Head(commands)}
    BY <1>8, TakeStep DEF Take, IInv
  <2> QED BY <1>8, <2>1 DEF Take, Begin, Drop
<1>9. CASE Snapshot BY <1>00, <1>9 DEF Snapshot
<1>10. CASE RefuseAlert BY <1>00, <1>10 DEF RefuseAlert
<1>11. CASE AcceptAlert BY <1>00, <1>11 DEF AcceptAlert
<1>12. CASE NewsChanged BY <1>00, <1>12 DEF NewsChanged
<1>13. CASE BeginStop BY <1>00, <1>13 DEF BeginStop
<1>14. CASE EndCommand BY <1>00, <1>14 DEF EndCommand, EndOfBody
<1>15. CASE WorkerEnds BY <1>00, <1>15 DEF WorkerEnds
<1>16. CASE UNCHANGED vars BY <1>00, <1>16 DEF vars
<1> QED BY <1>1, <1>2, <1>3, <1>4, <1>5, <1>6, <1>7, <1>8, <1>9, <1>10, <1>11, <1>12, <1>13, <1>14,
           <1>15, <1>16
  DEF Next, CallSteps, Waits, Loop, Handle

\* The command at hand was sent once and has no answer before its effect.
LEMMA CurrentStep ==
  ASSUME RequestsAssumption, IInv, [Next]_vars
  PROVE  CurrentInv'
<1>0. DataTyped /\ FlagsTyped /\ CurrentInv BY DEF IInv
<1>00. current \in Callers => CallPlace(current) BY DEF IInv, CallInv
<1> USE <1>0 DEF DataTyped, FlagsTyped, CurrentInv, Goto, Return, Reply, Handled
<1>1. ASSUME NEW d \in Callers, Store(d) PROVE CurrentInv' BY <1>1 DEF Store
<1>2. ASSUME NEW d \in Callers, ContextEnds(d) PROVE CurrentInv' BY <1>2 DEF ContextEnds
<1>3. ASSUME NEW d \in Callers, Send(d) PROVE CurrentInv' BY <1>3 DEF Send
<1>4. ASSUME NEW d \in Callers, GetReply(d) PROVE CurrentInv'
  BY <1>4, RequestsAssumption DEF GetReply, Answer
<1>5. ASSUME NEW d \in Callers, SeeContext(d) PROVE CurrentInv'
  BY <1>5, RequestsAssumption DEF SeeContext, Answer
<1>6. ASSUME NEW d \in Callers, SeeDone(d) PROVE CurrentInv'
  BY <1>6, RequestsAssumption DEF SeeDone, DoneIsHeard, Answer
<1>7. ASSUME NEW d \in Callers, GetStopResult(d) PROVE CurrentInv' BY <1>7 DEF GetStopResult
<1>8. CASE Take
  <2>1. Head(commands) \in Queued /\ Head(commands) \in Callers
    BY <1>8, TakeStep DEF Take, IInv
  <2>2. Unhandled(Head(commands)) BY <2>1 DEF IInv, CallInv
  <2> QED BY <1>8, <2>1, <2>2 DEF Take, Begin, Drop, Unhandled
<1>9. CASE Snapshot BY <1>9 DEF Snapshot
<1>10. CASE RefuseAlert BY <1>10 DEF RefuseAlert
<1>11. CASE AcceptAlert BY <1>11 DEF AcceptAlert
<1>12. CASE NewsChanged BY <1>12 DEF NewsChanged
<1>13. CASE BeginStop BY <1>13 DEF BeginStop
<1>14. CASE EndCommand BY <1>14 DEF EndCommand, EndOfBody
<1>15. CASE WorkerEnds BY <1>15 DEF WorkerEnds
<1>16. CASE UNCHANGED vars BY <1>16 DEF vars
<1> QED BY <1>1, <1>2, <1>3, <1>4, <1>5, <1>6, <1>7, <1>8, <1>9, <1>10, <1>11, <1>12, <1>13, <1>14,
           <1>15, <1>16
  DEF Next, CallSteps, Waits, Loop, Handle

\* The loop ends only without a worker, and nothing moves it afterwards.
LEMMA EndStep ==
  ASSUME IInv, [Next]_vars
  PROVE  EndInv'
<1>0. EndInv BY DEF IInv
<1> USE <1>0 DEF EndInv
<1>1. ASSUME NEW c \in Callers, GetStopResult(c) PROVE EndInv' BY <1>1 DEF GetStopResult
<1>2. CASE Take BY <1>2 DEF Take, Begin, Drop
<1>3. CASE Handle
  BY <1>3 DEF Handle, Snapshot, RefuseAlert, AcceptAlert, NewsChanged, BeginStop, Handled
<1>4. CASE EndCommand BY <1>4 DEF EndCommand, EndOfBody, LastWords, LeavesWith
<1>5. CASE WorkerEnds BY <1>5 DEF WorkerEnds, LastWords
<1>6. CASE UNCHANGED <<loop, working, stopResult>> BY <1>6
<1> QED BY <1>1, <1>2, <1>3, <1>4, <1>5, <1>6
  DEF Next, vars, CallSteps, Waits, Loop, Store, ContextEnds, Send, GetReply, SeeContext, SeeDone

\* What is in a reply channel is true, and what has an effect has no answer against it.
LEMMA RepliesStep ==
  ASSUME RequestsAssumption, IInv, [Next]_vars
  PROVE  RepliesAreTrue'
<1> DEFINE True(c) ==
      /\ kind[c] = "alert" /\ (result[c] = "ok" \/ reply[c] = "ok") => c \in effects
      /\ result[c] = "refused" \/ reply[c] \in {"refused", "context", "shuttingDown"}
           => c \notin effects \/ kind[c] = "news"
<1> SUFFICES ASSUME NEW c \in Callers PROVE True(c)' BY DEF RepliesAreTrue
<1>0. True(c) /\ DataTyped /\ CurrentInv BY DEF IInv, RepliesAreTrue
<1>00. CallPlace(c) BY DEF IInv, CallInv
<1> USE <1>0 DEF DataTyped, CurrentInv, Goto, Return, Reply, Handled
<1>1. ASSUME NEW d \in Callers, Store(d) PROVE True(c)'
  BY <1>1, <1>00 DEF Store, CallPlace
<1>2. ASSUME NEW d \in Callers, ContextEnds(d) PROVE True(c)' BY <1>2 DEF ContextEnds
<1>3. ASSUME NEW d \in Callers, Send(d) PROVE True(c)' BY <1>3 DEF Send
<1>4. ASSUME NEW d \in Callers, GetReply(d) PROVE True(c)'
  BY <1>4, RequestsAssumption DEF GetReply, Answer
<1>5. ASSUME NEW d \in Callers, SeeContext(d) PROVE True(c)' BY <1>5 DEF SeeContext, Answer
<1>6. ASSUME NEW d \in Callers, SeeDone(d) PROVE True(c)' BY <1>6 DEF SeeDone, Answer
<1>7. ASSUME NEW d \in Callers, GetStopResult(d) PROVE True(c)'
  BY <1>7, <1>00 DEF GetStopResult, CallPlace
<1>8. CASE Take
  <2>1. Head(commands) \in Queued /\ Head(commands) \in Callers
    BY <1>8, TakeStep DEF Take, IInv
  <2>2. Unhandled(Head(commands)) BY <2>1 DEF IInv, CallInv
  <2> QED BY <1>8, <2>1, <2>2 DEF Take, Begin, Drop, Unhandled
<1>9. CASE Snapshot BY <1>9 DEF Snapshot
<1>10. CASE RefuseAlert BY <1>10 DEF RefuseAlert, Refusal
<1>11. CASE AcceptAlert BY <1>11, RequestsAssumption DEF AcceptAlert
<1>12. CASE NewsChanged BY <1>12, RequestsAssumption DEF NewsChanged
<1>13. CASE BeginStop BY <1>13, RequestsAssumption DEF BeginStop
<1>14. CASE EndCommand BY <1>14 DEF EndCommand
<1>15. CASE WorkerEnds BY <1>15 DEF WorkerEnds
<1>16. CASE UNCHANGED vars BY <1>16 DEF vars
<1> QED BY <1>1, <1>2, <1>3, <1>4, <1>5, <1>6, <1>7, <1>8, <1>9, <1>10, <1>11, <1>12, <1>13, <1>14,
           <1>15, <1>16
  DEF Next, CallSteps, Waits, Loop, Handle

\* AddNews answers behind its store, Stop behind the end of the loop.
LEMMA OkStep ==
  ASSUME RequestsAssumption, IInv, EndInv', [Next]_vars
  PROVE  OkIsFinal'
<1> DEFINE Final(c) ==
      result[c] = "ok" =>
        /\ kind[c] = "news" => c \in stored
        /\ kind[c] = "stop" => loop = "done" /\ ~working
<1> SUFFICES ASSUME NEW c \in Callers PROVE Final(c)' BY DEF OkIsFinal
<1>0. Final(c) /\ DataTyped /\ EndInv /\ CallPlace(c) BY DEF IInv, OkIsFinal, CallInv
<1>00. loop = "done" => (loop' = "done" /\ ~working')
  <2>1. ASSUME loop = "done" PROVE loop' = "done"
    BY <2>1 DEF Next, vars, CallSteps, Waits, Loop, Handle, Store, ContextEnds, Send, GetReply,
      SeeContext, SeeDone, GetStopResult, Take, Snapshot, RefuseAlert, AcceptAlert, NewsChanged,
      BeginStop, EndCommand, WorkerEnds
  <2> QED BY <2>1 DEF EndInv
<1> USE <1>0, <1>00 DEF DataTyped, CallPlace, Goto, Return
<1>1. ASSUME NEW d \in Callers, Store(d) PROVE Final(c)' BY <1>1 DEF Store
<1>2. ASSUME NEW d \in Callers, GetReply(d) PROVE Final(c)' BY <1>2 DEF GetReply, Answer
<1>3. ASSUME NEW d \in Callers, SeeContext(d) PROVE Final(c)' BY <1>3 DEF SeeContext, Answer
<1>4. ASSUME NEW d \in Callers, SeeDone(d) PROVE Final(c)' BY <1>4 DEF SeeDone, DoneIsHeard, Answer
<1>5. ASSUME NEW d \in Callers, GetStopResult(d) PROVE Final(c)' BY <1>5 DEF GetStopResult, EndInv
<1>6. CASE UNCHANGED <<kind, result, stored>> BY <1>6
<1> QED BY <1>1, <1>2, <1>3, <1>4, <1>5, <1>6
  DEF Next, vars, CallSteps, Waits, Loop, Handle, ContextEnds, Send, Take, Snapshot, RefuseAlert,
      AcceptAlert, NewsChanged, BeginStop, EndCommand, WorkerEnds

-----------------------------------------------------------------------------
(* The theorems.                                                            *)

\* Calls, channel, loop and answers agree in every state.
THEOREM Invariant == Spec => []IInv
<1>1. Init => IInv BY InitIInv, RequestsAssumption
<1>2. IInv /\ [Next]_vars => IInv'
  <2>1. SUFFICES ASSUME IInv, [Next]_vars PROVE IInv' OBVIOUS
  <2>2. FlagsTyped' BY <2>1, FlagsStep DEF IInv
  <2>3. DataTyped' BY <2>1, DataStep DEF IInv
  <2>4. ChannelTyped' /\ Distinct' BY <2>1, ChannelStep, RequestsAssumption DEF IInv
  <2>5. CallInv' BY <2>1, CallStep, RequestsAssumption
  <2>6. CurrentInv' BY <2>1, CurrentStep, RequestsAssumption
  <2>7. EndInv' BY <2>1, EndStep
  <2>8. RepliesAreTrue' BY <2>1, RepliesStep, RequestsAssumption
  <2>9. OkIsFinal' BY <2>1, <2>7, OkStep, RequestsAssumption
  <2> QED BY <2>2, <2>3, <2>4, <2>5, <2>6, <2>7, <2>8, <2>9 DEF IInv
<1> QED BY <1>1, <1>2, PTL DEF Spec

\* The types of the protocol; the channel of commands never holds more than its capacity.
THEOREM RequestTypes == Spec => []TypeOK
<1>1. IInv => TypeOK BY DEF IInv, FlagsTyped, DataTyped, ChannelTyped, TypeOK
<1> QED BY <1>1, Invariant, PTL

\* What request returns of an alert is true: an accepted one was put in the queue, a refused
\* one was not.
THEOREM CallersAreToldTheTruth == Spec => []RepliesAreTrue
<1>1. IInv => RepliesAreTrue BY DEF IInv
<1> QED BY <1>1, Invariant, PTL

\* reply never blocks the loop: the buffer of the command it answers is empty.
THEOREM LoopNeverWaits == Spec => []ReplyHasRoom
<1>1. IInv => ReplyHasRoom
  <2>1. SUFFICES ASSUME IInv PROVE ReplyHasRoom OBVIOUS
  <2>2. ASSUME NEW i \in DOMAIN commands PROVE reply[commands[i]] = None
    <3>1. commands[i] \in Queued BY DEF Queued
    <3>2. commands[i] \in Callers BY <2>1, ElementOfSeq, LenProperties DEF IInv, ChannelTyped
    <3> QED BY <2>1, <3>1, <3>2 DEF IInv, CallInv, Unhandled
  <2> QED BY <2>1, <2>2 DEF IInv, CurrentInv, ReplyHasRoom
<1> QED BY <1>1, Invariant, PTL

\* AddNews answers ok of a stored item only, Stop only of a loop that has ended.
THEOREM OkMeansDone == Spec => []OkIsFinal
<1>1. IInv => OkIsFinal BY DEF IInv
<1> QED BY <1>1, Invariant, PTL

\* A command whose caller had returned when the loop took it has no effect.
NoLateEffect ==
  [][Take /\ pc[Head(commands)] = "returned" => loop' = "select"]_vars

\* The command of a caller that has returned is dropped by the test of its context: it
\* cannot have left by a reply, which it did not have, nor by done.
THEOREM GoneCallersAreDropped == Spec => NoLateEffect
<1>1. IInv /\ [Next]_vars => [Take /\ pc[Head(commands)] = "returned" => loop' = "select"]_vars
  <2>1. SUFFICES ASSUME IInv, Take, pc[Head(commands)] = "returned" PROVE loop' = "select"
    OBVIOUS
  <2>2. Head(commands) \in Queued /\ Head(commands) \in Callers
    BY <2>1, TakeStep DEF Take, IInv
  <2>3. ctxDone[Head(commands)]
    BY <2>1, <2>2 DEF Take, IInv, CallInv, Unhandled
  <2> QED BY <2>1, <2>3 DEF Take, Expired, Drop
<1> QED BY <1>1, Invariant, PTL DEF Spec, NoLateEffect

=============================================================================
