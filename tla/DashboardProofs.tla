--------------------------- MODULE DashboardProofs ---------------------------
(***************************************************************************)
(* Proofs about Dashboard for every value of the constants: no status and  *)
(* no message of the backtest page announces what is not there, and the    *)
(* event loop with both channels stays typed.                              *)
(***************************************************************************)
EXTENDS Dashboard, TLAPS

-----------------------------------------------------------------------------
(* The inductive invariant.                                                *)

Statuses == {"none", "pending", "running", "done", "error", "cancelled"}
Phases == {"idle", "queued", "days", "analyse", "finish", "tell", "over"}
Messages == [task : Tasks \cup {NoTask}, type : Verdicts \cup {"progress"}]

\* The order in which a worker writes: the outcome before the status, the
\* status before it tells.
WorkerInv ==
    /\ status \in [Tasks -> Statuses]
    /\ outcome \in [Tasks -> {"none", "result", "error"}]
    /\ wpc \in [Tasks -> Phases]
    /\ \A t \in Tasks :
        /\ status[t] \in DOMAIN VerdictOf <=> wpc[t] \in {"tell", "over"}
        /\ wpc[t] = "finish" => outcome[t] # "none"
        /\ status[t] \in {"done", "error"} => outcome[t] = VerdictOf[status[t]]

\* A verdict travels only when its worker is over, which fixes the status.
True(m) ==
    (IsVerdict(m) /\ m.task \in Tasks) =>
        wpc[m.task] = "over" /\ m.type = VerdictOf[status[m.task]]
ChannelInv ==
    channel = "backtest" =>
        /\ calls \in Seq(Messages) /\ queue \in Seq(Messages)
        /\ \A m \in OnTheWay : True(m)

VerdictInv == WorkerInv /\ ChannelInv

-----------------------------------------------------------------------------
(* Queues.                                                                 *)

Elements(q) == {q[i] : i \in DOMAIN q}

LEMMA QueueElements ==
  ASSUME NEW S, NEW q \in Seq(S)
  PROVE  /\ q # <<>> => /\ Tail(q) \in Seq(S) /\ Head(q) \in Elements(q)
                        /\ Elements(Tail(q)) \subseteq Elements(q)
         /\ \A e \in S : /\ Append(q, e) \in Seq(S)
                         /\ Elements(Append(q, e)) = Elements(q) \cup {e}
  <1>1. DOMAIN q = 1 .. Len(q) /\ Len(q) \in Nat
    OBVIOUS
  <1>2. ASSUME q # <<>>
        PROVE  /\ Tail(q) \in Seq(S) /\ Head(q) \in Elements(q)
               /\ Elements(Tail(q)) \subseteq Elements(q)
    <2>1. /\ Tail(q) \in Seq(S) /\ Head(q) = q[1] /\ Len(q) > 0
          /\ DOMAIN Tail(q) = 1 .. Len(q) - 1
          /\ \A k \in 1 .. Len(q) - 1 : Tail(q)[k] = q[k + 1]
      BY <1>2
    <2>2. Head(q) \in Elements(q)
      BY <1>1, <2>1 DEF Elements
    <2>3. ASSUME NEW k \in 1 .. Len(q) - 1 PROVE Tail(q)[k] \in Elements(q)
      <3>1. k + 1 \in 1 .. Len(q)
        BY <1>1
      <3>2. QED
        BY <1>1, <2>1, <3>1 DEF Elements
    <2>4. QED
      BY <2>1, <2>2, <2>3 DEF Elements
  <1>3. ASSUME NEW e \in S
        PROVE  Append(q, e) \in Seq(S) /\ Elements(Append(q, e)) = Elements(q) \cup {e}
    <2>1. /\ Append(q, e) \in Seq(S) /\ DOMAIN Append(q, e) = 1 .. Len(q) + 1
          /\ Append(q, e)[Len(q) + 1] = e
          /\ \A k \in 1 .. Len(q) : Append(q, e)[k] = q[k]
      OBVIOUS
    <2>2. 1 .. Len(q) + 1 = (1 .. Len(q)) \cup {Len(q) + 1}
      BY <1>1
    <2>3. QED
      BY <1>1, <2>1, <2>2 DEF Elements
  <1>4. QED
    BY <1>2, <1>3

LEMMA WayIs ==
  OnTheWay = Elements(calls) \cup Elements(queue)
                \cup (IF bpc = "send" THEN {held} ELSE {})
  BY DEF OnTheWay, Elements

LEMMA NothingOnTheWay == Elements(<<>>) = {} /\ \A S : <<>> \in Seq(S)
  BY DEF Elements

-----------------------------------------------------------------------------
(* The worker.                                                             *)

LEMMA VerdictNames ==
  /\ DOMAIN VerdictOf = {"done", "error", "cancelled"}
  /\ VerdictOf["done"] = "result" /\ VerdictOf["error"] = "error"
  /\ VerdictOf["cancelled"] = "cancelled"
  BY DEF VerdictOf

\* What the other steps leave alone.
WorkersFrozen == UNCHANGED <<status, outcome, wpc>>
\* A worker that is over stays over, with its status.
OverStays ==
    \A t \in Tasks : wpc[t] = "over" => wpc'[t] = "over" /\ status'[t] = status[t]

LEMMA WorkerActs ==
  ASSUME WorkerInv, NEW t \in Tasks,
         \/ WorkerStart(t) \/ DayStart(t) \/ Cancel(t) \/ Analyse(t) \/ Finish(t)
         \/ SetStatus(t) \/ Tell(t) \/ Fail(t) \/ ClickStart(t)
  PROVE  WorkerInv' /\ OverStays
  <1> USE VerdictNames DEF WorkerInv, OverStays, Statuses, Phases
  <1>1. CASE WorkerStart(t)
    BY <1>1 DEF WorkerStart
  <1>2. CASE DayStart(t)
    BY <1>2 DEF DayStart
  <1>3. CASE Cancel(t)
    BY <1>3 DEF Cancel
  <1>4. CASE Analyse(t)
    BY <1>4 DEF Analyse
  <1>5. CASE Finish(t)
    BY <1>5 DEF Finish
  <1>6. CASE SetStatus(t)
    BY <1>6 DEF SetStatus
  <1>7. CASE Tell(t)
    BY <1>7 DEF Tell
  <1>8. CASE Fail(t)
    BY <1>8 DEF Fail
  <1>9. CASE ClickStart(t)
    BY <1>9 DEF ClickStart
  <1>10. QED
    BY <1>1, <1>2, <1>3, <1>4, <1>5, <1>6, <1>7, <1>8, <1>9

LEMMA FrozenKeeps ==
  ASSUME WorkerInv, WorkersFrozen PROVE WorkerInv' /\ OverStays
  BY DEF WorkerInv, WorkersFrozen, OverStays

LEMMA TruthStays ==
  ASSUME OverStays, NEW m, True(m) PROVE True(m)'
  BY DEF OverStays, True, IsVerdict

-----------------------------------------------------------------------------
(* The channel.                                                            *)

\* A step keeps the channel invariant when every message it leaves on its way
\* was on its way before, or is a true one.
LEMMA WayKept ==
  ASSUME ChannelInv, OverStays, channel' = channel,
         channel = "backtest" =>
            /\ calls' \in Seq(Messages) /\ queue' \in Seq(Messages)
            /\ \A m \in OnTheWay' : m \in OnTheWay \/ True(m)'
  PROVE  ChannelInv'
  <1> SUFFICES ASSUME channel = "backtest", NEW m \in OnTheWay' PROVE True(m)'
    BY DEF ChannelInv
  <1>1. CASE m \in OnTheWay
    BY <1>1, TruthStays DEF ChannelInv
  <1>2. QED
    BY <1>1

LEMMA WaySame ==
  ASSUME ChannelInv, OverStays, UNCHANGED <<channel, calls, queue, bpc, held>>
  PROVE  ChannelInv'
  <1>1. OnTheWay' = OnTheWay
    BY DEF OnTheWay
  <1>2. channel = "backtest" => calls' \in Seq(Messages) /\ queue' \in Seq(Messages)
    BY DEF ChannelInv
  <1>3. QED
    BY <1>1, <1>2, WayKept

\* A message handed to the event loop.
LEMMA WayPosted ==
  ASSUME ChannelInv, OverStays, NEW m \in Messages, True(m)', Post(m),
         UNCHANGED <<channel, queue, bpc, held>>
  PROVE  ChannelInv'
  <1>1. channel = "backtest" =>
            /\ calls' \in Seq(Messages) /\ queue' \in Seq(Messages)
            /\ Elements(calls') = Elements(calls) \cup {m}
    BY QueueElements DEF ChannelInv, Post
  <1>2. /\ OnTheWay = Elements(calls) \cup Elements(queue)
                        \cup (IF bpc = "send" THEN {held} ELSE {})
        /\ OnTheWay' = Elements(calls') \cup Elements(queue)
                        \cup (IF bpc = "send" THEN {held} ELSE {})
    BY DEF OnTheWay, Elements
  <1>3. channel = "backtest" => OnTheWay' \subseteq OnTheWay \cup {m}
    BY <1>1, <1>2
  <1>4. channel = "backtest" => \A x \in OnTheWay' : x \in OnTheWay \/ True(x)'
    BY <1>3
  <1>5. channel = "backtest" => calls' \in Seq(Messages) /\ queue' \in Seq(Messages)
    BY <1>1
  <1>6. QED
    BY <1>4, <1>5, WayKept

LEMMA WayRunCall ==
  ASSUME ChannelInv, OverStays, RunCall PROVE ChannelInv'
  <1>1. CASE channel = "backtest"
    <2>1. /\ calls \in Seq(Messages) /\ queue \in Seq(Messages) /\ calls # <<>>
          /\ calls' = Tail(calls) /\ UNCHANGED <<channel, bpc, held>>
          /\ queue' = Append(queue, Head(calls)) \/ queue' = queue
      BY <1>1 DEF ChannelInv, RunCall, TryPut, castVars
    <2>2. Head(calls) \in Messages
      BY <2>1
    <2>3. /\ calls' \in Seq(Messages) /\ queue' \in Seq(Messages)
          /\ Elements(calls') \subseteq Elements(calls)
          /\ Elements(queue') \subseteq Elements(queue) \cup Elements(calls)
      <3>1. /\ calls' \in Seq(Messages) /\ Head(calls) \in Elements(calls)
            /\ Elements(calls') \subseteq Elements(calls)
        BY <2>1, QueueElements
      <3>2. /\ Append(queue, Head(calls)) \in Seq(Messages)
            /\ Elements(Append(queue, Head(calls))) = Elements(queue) \cup {Head(calls)}
        BY <2>1, <2>2, QueueElements
      <3>3. CASE queue' = queue
        BY <2>1, <3>1, <3>3
      <3>4. CASE queue' = Append(queue, Head(calls))
        BY <3>1, <3>2, <3>4
      <3>5. QED
        BY <2>1, <3>3, <3>4
    <2>4. /\ OnTheWay = Elements(calls) \cup Elements(queue)
                          \cup (IF bpc = "send" THEN {held} ELSE {})
          /\ OnTheWay' = Elements(calls') \cup Elements(queue')
                          \cup (IF bpc = "send" THEN {held} ELSE {})
      BY <2>1 DEF OnTheWay, Elements
    <2>5. OnTheWay' \subseteq OnTheWay
      BY <2>3, <2>4
    <2>6. \A m \in OnTheWay' : m \in OnTheWay \/ True(m)'
      BY <2>5
    <2>7. QED
      BY <2>1, <2>3, <2>6, WayKept
  <1>2. CASE channel # "backtest"
    BY <1>2 DEF RunCall, ChannelInv
  <1>3. QED
    BY <1>1, <1>2

LEMMA WayTake ==
  ASSUME ChannelInv, OverStays, Take PROVE ChannelInv'
  <1>1. CASE channel = "backtest"
    <2>1. /\ calls \in Seq(Messages) /\ queue \in Seq(Messages) /\ queue # <<>>
          /\ queue' = Tail(queue) /\ UNCHANGED <<channel, calls>> /\ bpc = "get"
          /\ bpc' = "get" \/ held' = Head(queue)
      BY <1>1 DEF ChannelInv, Take, castVars
    <2>2. /\ queue' \in Seq(Messages) /\ Head(queue) \in Elements(queue)
          /\ Elements(queue') \subseteq Elements(queue)
      BY <2>1, QueueElements
    <2>3. /\ OnTheWay = Elements(calls) \cup Elements(queue)
                          \cup (IF bpc = "send" THEN {held} ELSE {})
          /\ OnTheWay' = Elements(calls) \cup Elements(queue')
                          \cup (IF bpc' = "send" THEN {held'} ELSE {})
      BY <2>1 DEF OnTheWay, Elements
    <2>4. OnTheWay' \subseteq OnTheWay
      BY <2>1, <2>2, <2>3
    <2>5. \A m \in OnTheWay' : m \in OnTheWay \/ True(m)'
      BY <2>4
    <2>6. calls' \in Seq(Messages) /\ channel' = channel
      BY <2>1
    <2>7. QED
      BY <2>1, <2>2, <2>5, <2>6, WayKept
  <1>2. CASE channel # "backtest"
    BY <1>2 DEF Take, ChannelInv
  <1>3. QED
    BY <1>1, <1>2

LEMMA WaySweep ==
  ASSUME ChannelInv, OverStays, Sweep PROVE ChannelInv'
  <1>1. OnTheWay' \subseteq OnTheWay
    BY DEF OnTheWay, Sweep
  <1>2. channel' = channel
        /\ (channel = "backtest" => calls' \in Seq(Messages) /\ queue' \in Seq(Messages))
    BY DEF Sweep, ChannelInv
  <1>3. QED
    BY <1>1, <1>2, WayKept

-----------------------------------------------------------------------------
(* The steps.                                                              *)

LEMMA WorkerStep ==
  ASSUME VerdictInv, NEW t \in Tasks, WorkerRuns(t) \/ WorkerFails(t) PROVE VerdictInv'
  <1>1. WorkerInv' /\ OverStays
    BY WorkerActs DEF VerdictInv, WorkerRuns, WorkerFails
  <1>2. UNCHANGED <<channel, queue, bpc, held>>
    BY DEF WorkerRuns, WorkerFails, castVars
  <1>3. CASE UNCHANGED calls
    BY <1>1, <1>2, <1>3, WaySame DEF VerdictInv
  <1>4. CASE DayStart(t) \/ Analyse(t)
    <2>1. /\ Post(Msg(t, "progress")) /\ Msg(t, "progress") \in Messages
      BY <1>4 DEF DayStart, Analyse, Messages, Msg
    <2>2. True(Msg(t, "progress"))'
      BY DEF True, Msg, IsVerdict, Verdicts
    <2>3. QED
      BY <1>1, <1>2, <2>1, <2>2, WayPosted DEF VerdictInv
  <1>5. CASE Tell(t)
    <2> DEFINE v == VerdictOf[status[t]]
    <2>1. Post(Msg(t, v)) /\ wpc'[t] = "over" /\ status' = status /\ wpc[t] = "tell"
      BY <1>5 DEF Tell, VerdictInv, WorkerInv
    <2>2. status[t] \in {"done", "error", "cancelled"}
      BY <2>1, VerdictNames DEF VerdictInv, WorkerInv
    <2>3. v \in Verdicts
      BY <2>2, VerdictNames DEF Verdicts
    <2>4. PICK w \in Verdicts : w = v
      BY <2>3
    <2>5. Msg(t, w) \in Messages
      BY <2>4 DEF Messages, Msg
    <2>6. True(Msg(t, w))'
      BY <2>1, <2>4 DEF True, Msg
    <2>7. QED
      BY <1>1, <1>2, <2>1, <2>4, <2>5, <2>6, WayPosted DEF VerdictInv
  <1>6. QED
    BY <1>3, <1>4, <1>5 DEF WorkerRuns, WorkerFails, WorkerStart, Cancel, Finish, SetStatus, Fail

LEMMA PageStep ==
  ASSUME VerdictInv,
         \/ \E t \in Tasks : ClickStart(t) \/ Respond(t) \/ SetCancel(t)
         \/ ClickStop \/ Reconnect \/ AcceptPage \/ LinkDown
         \/ \E n \in Conns : PageHandlerEnds(n)
  PROVE  VerdictInv'
  <1> USE DEF workerVars, pageVars, taskVars, channelVars, castVars
  <1>1. UNCHANGED <<channel, calls, queue, bpc, held>>
    BY DEF ClickStart, Respond, SetCancel, ClickStop, Reconnect, AcceptPage, LinkDown,
       PageHandlerEnds
  <1>2. ASSUME NEW t \in Tasks, ClickStart(t) PROVE WorkerInv' /\ OverStays
    BY <1>2, WorkerActs DEF VerdictInv
  <1>3. ASSUME \/ \E t \in Tasks : Respond(t) \/ SetCancel(t)
               \/ ClickStop \/ Reconnect \/ AcceptPage \/ LinkDown
               \/ \E n \in Conns : PageHandlerEnds(n)
        PROVE  WorkerInv' /\ OverStays
    <2>1. WorkersFrozen
      BY <1>3 DEF Respond, SetCancel, ClickStop, Reconnect, AcceptPage, LinkDown,
         PageHandlerEnds, WorkersFrozen
    <2>2. QED
      BY <2>1, FrozenKeeps DEF VerdictInv
  <1>4. WorkerInv' /\ OverStays
    BY <1>2, <1>3
  <1>5. QED
    BY <1>1, <1>4, WaySame DEF VerdictInv

LEMMA MessageStep ==
  ASSUME VerdictInv, OtherVerdict \/ RunTaskCall \/ TaskBroadcaster PROVE VerdictInv'
  <1> USE DEF workerVars, pageVars, taskVars, castVars
  <1>1. WorkersFrozen
    BY DEF OtherVerdict, RunTaskCall, TaskBroadcaster, TakeMessage, SweepPages,
       SendMessage, SendToPageFails, WorkersFrozen
  <1>2. WorkerInv' /\ OverStays
    BY <1>1, FrozenKeeps DEF VerdictInv
  <1>3. CASE OtherVerdict
    <2>1. /\ Post(Msg(NoTask, "result")) /\ Msg(NoTask, "result") \in Messages
          /\ UNCHANGED <<channel, queue, bpc, held>>
      BY <1>3 DEF OtherVerdict, Messages, Msg, Verdicts
    <2>2. True(Msg(NoTask, "result"))'
      BY TaskConstantsOK DEF True, Msg
    <2>3. QED
      BY <1>2, <2>1, <2>2, WayPosted DEF VerdictInv
  <1>4. CASE RunTaskCall
    BY <1>2, <1>4, WayRunCall DEF RunTaskCall, VerdictInv
  <1>5. CASE TakeMessage
    BY <1>2, <1>5, WayTake DEF TakeMessage, VerdictInv
  <1>6. CASE SweepPages
    BY <1>2, <1>6, WaySweep DEF SweepPages, VerdictInv
  <1>7. ASSUME NEW n \in Conns, SendMessage(n) \/ SendToPageFails(n) PROVE VerdictInv'
    <2>1. UNCHANGED <<channel, calls, queue, bpc, held>>
      BY <1>7 DEF SendMessage, SendToPageFails, SendOk, SendFails
    <2>2. QED
      BY <1>2, <2>1, WaySame DEF VerdictInv
  <1>8. QED
    BY <1>3, <1>4, <1>5, <1>6, <1>7 DEF TaskBroadcaster

\* The other channel has messages of its own.
LEMMA SmileStep ==
  ASSUME VerdictInv, SmileNext, UNCHANGED taskVars PROVE VerdictInv'
  <1>1. channel' # "backtest"
    BY DEF SmileNext, FeedMoves, FeedLands, NewCatalog, Shutdown, ComputeThread, ComputeSnap,
       ComputePublish, ComputeEnds, LoopRuns, RunCall, SmileBroadcaster, Take, Sweep,
       SendResult, SendRaises, SendOk, SendFails, Accept, Handler, Greet, GreetingRaises,
       HandlerEnds, Leave, channelVars
  <1>2. WorkersFrozen
    BY DEF WorkersFrozen, taskVars, workerVars
  <1>3. QED
    BY <1>1, <1>2, FrozenKeeps DEF VerdictInv, ChannelInv

LEMMA VerdictStep == ASSUME VerdictInv, [Next]_vars PROVE VerdictInv'
  <1>1. CASE SmileNext /\ UNCHANGED taskVars
    BY <1>1, SmileStep
  <1>2. CASE TaskNext
    BY <1>2, WorkerStep, PageStep, MessageStep DEF TaskNext
  <1>3. CASE UNCHANGED vars
    <2>1. UNCHANGED <<channel, calls, queue, bpc, held>> /\ WorkersFrozen
      BY <1>3 DEF vars, channelVars, taskVars, workerVars, WorkersFrozen
    <2>2. QED
      BY <2>1, FrozenKeeps, WaySame DEF VerdictInv
  <1>4. QED
    BY <1>1, <1>2, <1>3 DEF Next

LEMMA VerdictStart == Init => VerdictInv
  <1> SUFFICES ASSUME Init PROVE VerdictInv
    OBVIOUS
  <1> USE DEF Init, ChannelInit, TaskInit
  <1>1. WorkerInv
    BY VerdictNames DEF WorkerInv, Statuses, Phases
  <1>2. calls = <<>> /\ queue = <<>> /\ bpc = "get"
    OBVIOUS
  <1>3. OnTheWay = {}
    BY <1>2, NothingOnTheWay, WayIs
  <1>4. QED
    BY <1>1, <1>2, <1>3, NothingOnTheWay DEF VerdictInv, ChannelInv

LEMMA VerdictInvShows == VerdictInv => VerdictsAreTrue
  BY DEF VerdictInv, WorkerInv, ChannelInv, True, VerdictsAreTrue, Over

\* No status and no message announces what is not there, for any tasks, days,
\* queue length and number of websockets.
THEOREM VerdictsAreTrueCorrect == Spec => []VerdictsAreTrue
  <1>1. Init => VerdictInv
    BY VerdictStart
  <1>2. VerdictInv /\ [Next]_vars => VerdictInv'
    BY VerdictStep
  <1>3. QED
    BY <1>1, <1>2, VerdictInvShows, PTL DEF Spec

-----------------------------------------------------------------------------
(* Types of one channel, for any kind of message and of socket.            *)

ChannelTyped(M, S) ==
    /\ calls \in Seq(M) /\ Len(calls) <= CallsMax
    /\ queue \in Seq(M) /\ Len(queue) <= QueueMax
    /\ clients \subseteq S /\ todo \subseteq S /\ dead \subseteq S
    /\ bpc \in {"get", "send"} /\ (bpc = "get" <=> held = NoMsg)
    /\ bpc = "send" => held \in M

LEMMA AppendTyped ==
  ASSUME NEW M, NEW q \in Seq(M), NEW m \in M
  PROVE  Append(q, m) \in Seq(M) /\ Len(Append(q, m)) = Len(q) + 1 /\ Len(q) \in Nat
  OBVIOUS

LEMMA TailTyped ==
  ASSUME NEW M, NEW q \in Seq(M), q # <<>>
  PROVE  /\ Tail(q) \in Seq(M) /\ Len(Tail(q)) = Len(q) - 1 /\ Len(q) \in Nat
         /\ Head(q) \in M
  OBVIOUS

LEMMA ChannelStarts ==
  ASSUME ChannelInit PROVE \A M, S : ChannelTyped(M, S)
  <1>1. \A M : <<>> \in Seq(M)
    OBVIOUS
  <1>2. Len(<<>>) = 0 /\ 0 <= CallsMax /\ 0 <= QueueMax
    BY ChannelConstantsOK
  <1>3. QED
    BY <1>1, <1>2 DEF ChannelInit, ChannelTyped

LEMMA PostTyped ==
  ASSUME NEW M, NEW S, ChannelTyped(M, S), NEW m \in M, Post(m),
         UNCHANGED <<queue, clients, castVars>>
  PROVE  ChannelTyped(M, S)'
  <1>1. calls \in Seq(M) /\ Len(calls) < CallsMax /\ calls' = Append(calls, m)
    BY DEF Post, ChannelTyped
  <1>2. calls' \in Seq(M) /\ Len(calls') <= CallsMax
    BY <1>1, AppendTyped, ChannelConstantsOK
  <1>3. QED
    BY <1>2 DEF ChannelTyped, castVars

LEMMA RunCallTyped ==
  ASSUME NEW M, NEW S, ChannelTyped(M, S), RunCall
  PROVE  ChannelTyped(M, S)'
  <1>1. calls \in Seq(M) /\ calls # <<>> /\ calls' = Tail(calls) /\ queue \in Seq(M)
    BY DEF RunCall, ChannelTyped
  <1>2. /\ calls' \in Seq(M) /\ Len(calls') = Len(calls) - 1 /\ Len(calls) \in Nat
        /\ Head(calls) \in M
    BY <1>1, TailTyped
  <1>3. calls' \in Seq(M) /\ Len(calls') <= CallsMax
    BY <1>2, ChannelConstantsOK DEF ChannelTyped
  <1>4. queue' \in Seq(M) /\ Len(queue') <= QueueMax
    <2>1. CASE Len(queue) < QueueMax
      <3>1. queue' = Append(queue, Head(calls))
        BY <2>1 DEF RunCall, TryPut
      <3>2. QED
        BY <1>1, <1>2, <2>1, <3>1, AppendTyped, ChannelConstantsOK
    <2>2. CASE ~(Len(queue) < QueueMax)
      BY <2>2 DEF RunCall, TryPut, ChannelTyped
    <2>3. QED
      BY <2>1, <2>2
  <1>5. UNCHANGED <<clients, bpc, held, todo, dead>>
    BY DEF RunCall, castVars
  <1>6. QED
    BY <1>3, <1>4, <1>5 DEF ChannelTyped

LEMMA TakeTyped ==
  ASSUME NEW M, NEW S, ChannelTyped(M, S), NoMsg \notin M, Take
  PROVE  ChannelTyped(M, S)'
  <1>1. /\ queue \in Seq(M) /\ queue # <<>> /\ queue' = Tail(queue)
        /\ UNCHANGED <<calls, clients>>
    BY DEF Take, ChannelTyped
  <1>2. /\ queue' \in Seq(M) /\ Len(queue') = Len(queue) - 1 /\ Len(queue) \in Nat
        /\ Head(queue) \in M
    BY <1>1, TailTyped
  <1>3. Len(queue') <= QueueMax
    BY <1>2, ChannelConstantsOK DEF ChannelTyped
  <1>4. CASE clients = {}
    <2>1. UNCHANGED <<bpc, held, todo, dead>>
      BY <1>4 DEF Take, castVars
    <2>2. QED
      BY <1>1, <1>2, <1>3, <2>1 DEF ChannelTyped
  <1>5. CASE clients # {}
    <2>1. bpc' = "send" /\ held' = Head(queue) /\ todo' = clients /\ dead' = {}
      BY <1>5 DEF Take
    <2>2. held' # NoMsg /\ held' \in M
      BY <1>2, <2>1
    <2>3. QED
      BY <1>1, <1>2, <1>3, <2>1, <2>2 DEF ChannelTyped
  <1>6. QED
    BY <1>4, <1>5

LEMMA SendTyped ==
  ASSUME NEW M, NEW S, ChannelTyped(M, S), NEW s, SendOk(s) \/ SendFails(s)
  PROVE  ChannelTyped(M, S)'
  BY DEF SendOk, SendFails, ChannelTyped

LEMMA SweepTyped ==
  ASSUME NEW M, NEW S, ChannelTyped(M, S), Sweep
  PROVE  ChannelTyped(M, S)'
  BY DEF Sweep, ChannelTyped

\* Handlers register and unregister sockets.
LEMMA ClientsTyped ==
  ASSUME NEW M, NEW S, ChannelTyped(M, S), UNCHANGED <<calls, queue, castVars>>,
         clients' \subseteq S
  PROVE  ChannelTyped(M, S)'
  BY DEF ChannelTyped, castVars

-----------------------------------------------------------------------------
(* The two channels.                                                       *)

Ticks == NoTick .. MaxTicks

\* The page knows the task it waits for, and a socket that is not down was
\* opened.
PageKnows ==
    /\ isRunning => pageTask \in Tasks
    /\ link # "down" => conn # 0

DashboardTyped ==
    /\ SmileTypeOK /\ TaskTypeOK /\ PageKnows
    /\ channel \in {"vol_smile", "backtest"}
    /\ channel = "vol_smile" => ChannelTyped(Ticks, Sockets)
    /\ channel = "backtest" => ChannelTyped(Messages, Conns)

LEMMA TypedShows == DashboardTyped => TypeOK
  BY DEF DashboardTyped, TypeOK, ChannelTyped

LEMMA TickRange ==
  NoTick \in Ticks /\ Restored \in Ticks /\ 0 .. MaxTicks \subseteq Ticks
  BY FeedConstantsOK DEF Ticks, NoTick, Restored

LEMMA TypedStart ==
  ASSUME Channels \subseteq {"vol_smile", "backtest"}, Init
  PROVE  DashboardTyped
  <1>1. channel \in {"vol_smile", "backtest"} /\ \A M, S : ChannelTyped(M, S)
    BY ChannelStarts DEF Init, ChannelInit
  <1>2. SmileTypeOK
    <2>1. 0 \in 0 .. MaxTicks
      BY FeedConstantsOK
    <2>2. FeedTypeOK
      BY <2>1, TickRange DEF Init, SmileInit, FeedInit, FeedTypeOK, Ticks
    <2>3. QED
      BY <2>2, TickRange DEF Init, SmileInit, SmileTypeOK, Ticks
  <1>3. TaskTypeOK
    <2>1. 0 \in 0 .. Days /\ 0 \in 0 .. MaxConns /\ 0 \in 0 .. MaxOthers
      BY TaskConstantsOK
    <2>2. QED
      BY <2>1 DEF Init, TaskInit, TaskTypeOK
  <1>4. PageKnows
    BY DEF Init, TaskInit, PageKnows
  <1>5. QED
    BY <1>1, <1>2, <1>3, <1>4 DEF DashboardTyped

\* The steps of the smile's channel.
LEMMA SmileKeepsTypes ==
  ASSUME SmileTypeOK, ChannelTyped(Ticks, Sockets), NoMsg \notin Ticks, SmileNext
  PROVE  SmileTypeOK' /\ ChannelTyped(Ticks, Sockets)'
  <1> USE DEF SmileTypeOK, FeedTypeOK, Ticks
  <1>1. ASSUME FeedMoves \/ FeedLands \/ Shutdown PROVE SmileTypeOK' /\ UNCHANGED channelVars
    <2>1. UNCHANGED <<computeVars, channelVars, handlerVars>>
      BY <1>1 DEF FeedMoves, FeedLands, Shutdown
    <2>2. FeedTypeOK'
      <3>1. 0 \in 0 .. MaxTicks /\ 1 .. MaxTicks \subseteq 0 .. MaxTicks
        BY FeedConstantsOK
      <3>2. \/ ColdStart \/ LoseSocket \/ Land \/ StopFeed
            \/ \E i \in 1 .. MaxTicks : Arrive(i)
        BY <1>1 DEF FeedMoves, FeedLands, Shutdown
      <3> HIDE DEF Ticks, SmileTypeOK
      <3>3. running' \in BOOLEAN /\ arrived' \in 0 .. MaxTicks
        BY <3>1, <3>2 DEF ColdStart, LoseSocket, Arrive, Land, StopFeed, SmileTypeOK
      <3>4. top' \in Ticks
        BY <3>1, <3>2, TickRange
           DEF ColdStart, LoseSocket, Arrive, Land, StopFeed, SmileTypeOK, Ticks
      <3>5. QED
        BY <3>3, <3>4 DEF Ticks
    <2>3. QED
      BY <2>1, <2>2 DEF computeVars, handlerVars
  <1>2. ASSUME NewCatalog \/ ComputeSnap \/ ComputeEnds
        PROVE  SmileTypeOK' /\ UNCHANGED channelVars
    BY <1>2 DEF NewCatalog, ComputeSnap, ComputeEnds, feedVars, handlerVars
  <1>3. ASSUME ComputePublish PROVE SmileTypeOK' /\ ChannelTyped(Ticks, Sockets)'
    <2>1. SmileTypeOK'
      BY <1>3, TickRange DEF ComputePublish, feedVars, handlerVars
    <2>2. priced \in Ticks /\ Post(priced) /\ UNCHANGED <<queue, clients, castVars>>
      BY <1>3 DEF ComputePublish
    <2> HIDE DEF Ticks
    <2>3. QED
      BY <2>1, <2>2, PostTyped
  <1>4. ASSUME LoopRuns PROVE SmileTypeOK' /\ ChannelTyped(Ticks, Sockets)'
    <2>1. SmileTypeOK'
      BY <1>4 DEF LoopRuns, smileVars, feedVars, computeVars, handlerVars
    <2>2. RunCall
      BY <1>4 DEF LoopRuns
    <2> HIDE DEF Ticks
    <2>3. QED
      BY <2>1, <2>2, RunCallTyped
  <1>5. ASSUME SmileBroadcaster PROVE SmileTypeOK' /\ ChannelTyped(Ticks, Sockets)'
    <2>1. ASSUME (Take \/ Sweep) /\ UNCHANGED smileVars
          PROVE  SmileTypeOK' /\ ChannelTyped(Ticks, Sockets)'
      <3>1. SmileTypeOK'
        BY <2>1 DEF smileVars, feedVars, computeVars, handlerVars
      <3> HIDE DEF Ticks
      <3>2. QED
        BY <2>1, <3>1, TakeTyped, SweepTyped
    <2>2. ASSUME NEW s \in Sockets, SendResult(s)
          PROVE  SmileTypeOK' /\ ChannelTyped(Ticks, Sockets)'
      <3>1. held \in Ticks
        BY <2>2 DEF SendResult, SendOk, ChannelTyped
      <3>2. SmileTypeOK'
        BY <2>2, <3>1 DEF SendResult, Show, feedVars, computeVars
      <3> HIDE DEF Ticks
      <3>3. QED
        BY <2>2, <3>2, SendTyped DEF SendResult
    <2>3. ASSUME NEW s \in Sockets, SendRaises(s)
          PROVE  SmileTypeOK' /\ ChannelTyped(Ticks, Sockets)'
      <3>1. SmileTypeOK'
        BY <2>3 DEF SendRaises, smileVars, feedVars, computeVars, handlerVars
      <3> HIDE DEF Ticks
      <3>2. QED
        BY <2>3, <3>1, SendTyped DEF SendRaises
    <2>4. QED
      BY <1>5, <2>1, <2>2, <2>3 DEF SmileBroadcaster
  <1>6. ASSUME NEW s \in Sockets, Accept(s) \/ HandlerEnds(s)
        PROVE  SmileTypeOK' /\ ChannelTyped(Ticks, Sockets)'
    <2>1. SmileTypeOK'
      BY <1>6 DEF Accept, HandlerEnds, Show, feedVars, computeVars
    <2>2. clients' \subseteq Sockets /\ UNCHANGED <<calls, queue, castVars>>
      BY <1>6 DEF Accept, HandlerEnds, Register, Unregister, ChannelTyped
    <2> HIDE DEF Ticks
    <2>3. QED
      BY <2>1, <2>2, ClientsTyped
  <1>7. ASSUME NEW s \in Sockets, Greet(s) \/ GreetingRaises(s) \/ Leave(s)
        PROVE  SmileTypeOK' /\ UNCHANGED channelVars
    BY <1>7 DEF Greet, GreetingRaises, Leave, feedVars, computeVars
  <1>8. UNCHANGED channelVars => ChannelTyped(Ticks, Sockets)'
    <2> HIDE DEF Ticks
    <2>1. QED
      BY ClientsTyped DEF channelVars, ChannelTyped
  <1>9. QED
    BY <1>1, <1>2, <1>3, <1>4, <1>5, <1>6, <1>7, <1>8
       DEF SmileNext, ComputeThread, Handler

-----------------------------------------------------------------------------
(* The steps of the backtest page's channel.                               *)

TaskTyped == TaskTypeOK /\ PageKnows /\ ChannelTyped(Messages, Conns)

LEMMA ChannelRests ==
  ASSUME ChannelTyped(Messages, Conns), UNCHANGED <<calls, queue, clients, castVars>>
  PROVE  ChannelTyped(Messages, Conns)'
  BY ClientsTyped DEF ChannelTyped

LEMMA WorkerKeepsTypes ==
  ASSUME TaskTyped, WorkerInv, NEW t \in Tasks, WorkerRuns(t) \/ WorkerFails(t)
  PROVE  TaskTyped'
  <1> USE DEF TaskTyped
  <1>1. /\ UNCHANGED <<queue, clients, castVars>>
        /\ UNCHANGED <<asking, wanted, pageVars, others, missed>>
    BY DEF WorkerRuns, WorkerFails
  <1>2. /\ status' \in [Tasks -> {"none", "pending", "running", "done", "error",
                                  "cancelled"}]
        /\ outcome' \in [Tasks -> {"none", "result", "error"}]
        /\ wpc' \in [Tasks -> {"idle", "queued", "days", "analyse", "finish",
                               "tell", "over"}]
    BY DEF WorkerRuns, WorkerFails, WorkerStart, DayStart, Cancel, Analyse, Finish,
           SetStatus, Tell, Fail, TaskTypeOK
  <1>3. day' \in [Tasks -> 0 .. Days]
    <2>1. day' = day \/ (day[t] < Days /\ day' = [day EXCEPT ![t] = @ + 1])
      BY DEF WorkerRuns, WorkerFails, WorkerStart, DayStart, Cancel, Analyse, Finish,
             SetStatus, Tell, Fail
    <2>2. QED
      BY <2>1, TaskConstantsOK DEF TaskTypeOK
  <1>4. TaskTypeOK' /\ PageKnows'
    BY <1>1, <1>2, <1>3 DEF TaskTypeOK, PageKnows, pageVars
  <1>5. \/ calls' = calls
        \/ \E m \in Messages : Post(m)
    <2>1. CASE DayStart(t) \/ Analyse(t)
      BY <2>1 DEF DayStart, Analyse, Messages, Msg
    <2>2. CASE Tell(t)
      <3>1. Post(Msg(t, VerdictOf[status[t]])) /\ wpc[t] = "tell"
        BY <2>2 DEF Tell
      <3>2. status[t] \in {"done", "error", "cancelled"}
        BY <3>1, VerdictNames DEF WorkerInv
      <3>3. VerdictOf[status[t]] \in Verdicts
        BY <3>2, VerdictNames DEF Verdicts
      <3>4. QED
        BY <3>1, <3>3 DEF Messages, Msg
    <2>3. QED
      BY <2>1, <2>2 DEF WorkerRuns, WorkerFails, WorkerStart, Cancel, Finish, SetStatus, Fail
  <1>6. ChannelTyped(Messages, Conns)'
    BY <1>1, <1>5, PostTyped, ChannelRests
  <1>7. QED
    BY <1>4, <1>6

\* Clicks and answers, which leave the channel alone.
LEMMA ClicksKeepTypes ==
  ASSUME TaskTyped,
         \/ \E t \in Tasks : ClickStart(t) \/ Respond(t) \/ SetCancel(t)
         \/ ClickStop \/ Reconnect \/ LinkDown
  PROVE  TaskTyped'
  <1> USE DEF TaskTyped, channelVars, castVars, workerVars, pageVars
  <1>1. ChannelTyped(Messages, Conns)'
    BY ChannelRests
       DEF ClickStart, Respond, SetCancel, ClickStop, Reconnect, LinkDown
  <1>2. \A c \in 0 .. MaxConns : c < MaxConns => c + 1 \in 0 .. MaxConns /\ c + 1 # 0
    BY TaskConstantsOK
  <1>3. ASSUME NEW t \in Tasks, ClickStart(t) PROVE TaskTypeOK' /\ PageKnows'
    <2>1. UNCHANGED <<outcome, day, asking, wanted, pageTask, isRunning, others, missed>>
      BY <1>3 DEF ClickStart
    <2>2. /\ conn' \in 0 .. MaxConns /\ link' \in {"down", "opening", "up"}
          /\ link' # "down" => conn' # 0
      BY <1>2, <1>3 DEF ClickStart, TaskTypeOK, PageKnows
    <2>3. /\ status' \in [Tasks -> {"none", "pending", "running", "done", "error",
                                    "cancelled"}]
          /\ wpc' \in [Tasks -> {"idle", "queued", "days", "analyse", "finish",
                                 "tell", "over"}]
          /\ posted' \subseteq Tasks
      BY <1>3 DEF ClickStart, TaskTypeOK
    <2>4. QED
      BY <2>1, <2>2, <2>3 DEF TaskTypeOK, PageKnows
  <1>4. ASSUME NEW t \in Tasks, Respond(t) \/ SetCancel(t)
        PROVE  TaskTypeOK' /\ PageKnows'
    <2>1. CASE Respond(t)
      BY <2>1 DEF Respond, TaskTypeOK, PageKnows
    <2>2. CASE SetCancel(t)
      BY <2>2 DEF SetCancel, TaskTypeOK, PageKnows
    <2>3. QED
      BY <1>4, <2>1, <2>2
  <1>5. CASE ClickStop
    BY <1>1, <1>5 DEF ClickStop, TaskTypeOK, PageKnows
  <1>6. CASE Reconnect
    <2>1. /\ conn' \in 0 .. MaxConns /\ link' \in {"down", "opening", "up"}
          /\ link' # "down" => conn' # 0
      BY <1>6, TaskConstantsOK DEF Reconnect
    <2>2. QED
      BY <1>1, <1>6, <2>1 DEF Reconnect, TaskTypeOK, PageKnows
  <1>7. CASE LinkDown
    <2>1. missed' \subseteq Tasks
      BY <1>7 DEF LinkDown, Misses, TaskTypeOK
    <2>2. QED
      BY <1>1, <1>7, <2>1 DEF LinkDown, TaskTypeOK, PageKnows
  <1>8. QED
    BY <1>1, <1>3, <1>4, <1>5, <1>6, <1>7

\* A message on its way to the page, and the sockets of the page.
LEMMA MessagesKeepTypes ==
  ASSUME TaskTyped, NoMsg \notin Messages,
         \/ AcceptPage \/ \E n \in Conns : PageHandlerEnds(n)
         \/ OtherVerdict \/ RunTaskCall \/ TaskBroadcaster
  PROVE  TaskTyped'
  <1> USE DEF TaskTyped, workerVars, pageVars
  <1>1. missed' \subseteq Tasks
    BY DEF AcceptPage, PageHandlerEnds, taskVars, OtherVerdict, RunTaskCall, TaskBroadcaster,
           TakeMessage, SweepPages, SendMessage, SendToPageFails, Misses, TaskTypeOK
  <1>2. UNCHANGED <<status, outcome, wpc, day, asking, wanted, conn, posted, pageTask>>
    BY DEF AcceptPage, PageHandlerEnds, taskVars, OtherVerdict, RunTaskCall, TaskBroadcaster,
           TakeMessage, SweepPages, SendMessage, SendToPageFails
  <1>3. /\ isRunning' \in BOOLEAN /\ (isRunning' => isRunning)
        /\ others' \in 0 .. MaxOthers
        /\ link' \in {"down", "opening", "up"} /\ (link' # "down" => link # "down")
    <2>1. others' = others \/ (others < MaxOthers /\ others' = others + 1)
      BY DEF AcceptPage, PageHandlerEnds, taskVars, OtherVerdict, RunTaskCall, TaskBroadcaster,
             TakeMessage, SweepPages, SendMessage, SendToPageFails
    <2>2. others' \in 0 .. MaxOthers
      BY <2>1, TaskConstantsOK DEF TaskTypeOK
    <2>3. link' = link \/ (link = "opening" /\ link' = "up")
      BY DEF AcceptPage, PageHandlerEnds, taskVars, OtherVerdict, RunTaskCall, TaskBroadcaster,
             TakeMessage, SweepPages, SendMessage, SendToPageFails
    <2>4. isRunning' = isRunning \/ isRunning' = (isRunning /\ ~IsVerdict(held))
      BY DEF AcceptPage, PageHandlerEnds, taskVars, OtherVerdict, RunTaskCall, TaskBroadcaster,
             TakeMessage, SweepPages, SendMessage, SendToPageFails
    <2>5. isRunning \in BOOLEAN
      BY DEF TaskTypeOK
    <2>6. isRunning' \in BOOLEAN /\ (isRunning' => isRunning)
      <3>1. CASE isRunning' = isRunning
        BY <2>5, <3>1
      <3>2. CASE isRunning' = (isRunning /\ ~IsVerdict(held))
        <4>1. CASE isRunning /\ ~IsVerdict(held)
          BY <3>2, <4>1
        <4>2. CASE ~(isRunning /\ ~IsVerdict(held))
          BY <3>2, <4>2
        <4>3. QED
          BY <4>1, <4>2
      <3>3. QED
        BY <2>4, <3>1, <3>2
    <2>7. link' \in {"down", "opening", "up"} /\ (link' # "down" => link # "down")
      BY <2>3 DEF TaskTypeOK
    <2>8. QED
      BY <2>2, <2>6, <2>7
  <1>4. TaskTypeOK' /\ PageKnows'
    BY <1>1, <1>2, <1>3 DEF TaskTypeOK, PageKnows
  <1>5. CASE AcceptPage
    <2>1. conn \in Conns
      BY <1>5 DEF AcceptPage, PageKnows, TaskTypeOK, Conns
    <2>2. clients' \subseteq Conns /\ UNCHANGED <<calls, queue, castVars>>
      BY <1>5, <2>1 DEF AcceptPage, Register, ChannelTyped
    <2>3. QED
      BY <1>4, <2>2, ClientsTyped
  <1>6. ASSUME NEW n \in Conns, PageHandlerEnds(n) PROVE TaskTyped'
    <2>1. clients' \subseteq Conns /\ UNCHANGED <<calls, queue, castVars>>
      BY <1>6 DEF PageHandlerEnds, Unregister, ChannelTyped
    <2>2. QED
      BY <1>4, <2>1, ClientsTyped
  <1>7. CASE OtherVerdict
    <2>1. /\ Post(Msg(NoTask, "result")) /\ Msg(NoTask, "result") \in Messages
          /\ UNCHANGED <<queue, clients, castVars>>
      BY <1>7 DEF OtherVerdict, Messages, Msg, Verdicts
    <2>2. QED
      BY <1>4, <2>1, PostTyped
  <1>8. CASE RunTaskCall
    BY <1>4, <1>8, RunCallTyped DEF RunTaskCall
  <1>9. CASE TakeMessage
    BY <1>4, <1>9, TakeTyped DEF TakeMessage
  <1>10. CASE SweepPages
    BY <1>4, <1>10, SweepTyped DEF SweepPages
  <1>11. ASSUME NEW n \in Conns, SendMessage(n) \/ SendToPageFails(n) PROVE TaskTyped'
    BY <1>4, <1>11, SendTyped DEF SendMessage, SendToPageFails
  <1>12. QED
    BY <1>5, <1>6, <1>7, <1>8, <1>9, <1>10, <1>11 DEF TaskBroadcaster

LEMMA TypedStep ==
  ASSUME DashboardTyped, VerdictInv, NoMsg \notin Messages \cup Ticks, [Next]_vars
  PROVE  DashboardTyped'
  <1> USE DEF DashboardTyped
  <1>1. CASE SmileNext /\ UNCHANGED taskVars
    <2>1. channel = "vol_smile" /\ channel' = channel
      BY <1>1
         DEF SmileNext, FeedMoves, FeedLands, NewCatalog, Shutdown, ComputeThread, ComputeSnap,
             ComputePublish, ComputeEnds, LoopRuns, RunCall, SmileBroadcaster, Take, Sweep,
             SendResult, SendRaises, SendOk, SendFails, Accept, Handler, Greet,
             GreetingRaises, HandlerEnds, Leave, channelVars
    <2>2. SmileTypeOK' /\ ChannelTyped(Ticks, Sockets)'
      BY <1>1, <2>1, SmileKeepsTypes
    <2>3. TaskTypeOK' /\ PageKnows'
      BY <1>1 DEF TaskTypeOK, PageKnows, taskVars, workerVars, pageVars
    <2>4. QED
      BY <2>1, <2>2, <2>3
  <1>2. CASE TaskNext /\ UNCHANGED smileVars
    <2>1. channel = "backtest" /\ channel' = channel
      BY <1>2
         DEF TaskNext, WorkerRuns, WorkerFails, ClickStart, Respond, SetCancel, ClickStop,
             Reconnect, AcceptPage, LinkDown, PageHandlerEnds, OtherVerdict, RunTaskCall,
             RunCall, TaskBroadcaster, TakeMessage, Take, SweepPages, Sweep, SendMessage,
             SendToPageFails, SendOk, SendFails, channelVars
    <2>2. TaskTyped'
      BY <1>2, <2>1, WorkerKeepsTypes, ClicksKeepTypes, MessagesKeepTypes
         DEF TaskNext, TaskTyped, VerdictInv
    <2>3. SmileTypeOK'
      BY <1>2 DEF SmileTypeOK, FeedTypeOK, smileVars, feedVars, computeVars, handlerVars
    <2>4. QED
      BY <2>1, <2>2, <2>3 DEF TaskTyped
  <1>3. CASE UNCHANGED vars
    BY <1>3
       DEF vars, channelVars, castVars, smileVars, feedVars, computeVars, handlerVars,
           taskVars, workerVars, pageVars, SmileTypeOK, FeedTypeOK, TaskTypeOK, PageKnows,
           ChannelTyped
  <1>4. QED
    BY <1>1, <1>2, <1>3 DEF Next

\* The event loop and both channels stay typed: no queue outgrows its bound,
\* the broadcaster holds a message exactly while it sends, and only sockets of
\* its own pages are registered.  None, which stands for no message, is not
\* one; a channel is the smile's or the backtest page's.
THEOREM TypeOKCorrect ==
  ASSUME Channels \subseteq {"vol_smile", "backtest"}, NoMsg \notin Messages \cup Ticks
  PROVE  Spec => []TypeOK
  <1>1. Init => DashboardTyped /\ VerdictInv
    BY TypedStart, VerdictStart
  <1>2. DashboardTyped /\ VerdictInv /\ [Next]_vars => (DashboardTyped /\ VerdictInv)'
    BY TypedStep, VerdictStep
  <1>3. QED
    BY <1>1, <1>2, TypedShows, PTL DEF Spec
=============================================================================
