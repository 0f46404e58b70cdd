--------------------------- MODULE DDEClientProofs ---------------------------
(***************************************************************************)
(* Proofs about DDEClient for every value of its constants.                *)
(***************************************************************************)
EXTENDS DDEClient, TLAPS

LEMMA TypeInit == Init => TypeOK
  BY ConstantsOK DEF Init, TypeOK, PumpValues, StateVals, NoVal

\* Whatever is sent, a state holds values, sentinels or nothing.
LEMMA UpdatedTyping ==
  ASSUME NEW st \in [Fields -> StateVals], NEW f \in Fields,
         NEW v \in Nat \cup {Blank}
  PROVE  Updated(st, f, v) \in [Fields -> StateVals]
  BY ConstantsOK DEF Updated, StateVals, Sentinel, VolumeOf, Blank, NoVal

LEMMA RowTyping ==
  ASSUME NEW st \in [Fields -> StateVals]
  PROVE  RowOf(st) \in [Fields -> StateVals]
  BY DEF RowOf, StateVals

LEMMA QueueTyping ==
  ASSUME NEW S, NEW q \in Seq(S)
  PROVE  /\ q # <<>> => /\ Head(q) \in S /\ Tail(q) \in Seq(S)
                        /\ Len(Tail(q)) = Len(q) - 1 /\ Len(q) > 0
         /\ \A e \in S : /\ Append(q, e) \in Seq(S)
                         /\ Len(Append(q, e)) = Len(q) + 1
                         /\ Append(q, e)[Len(q) + 1] = e
         /\ Len(q) \in Nat
  OBVIOUS

LEMMA TypeDispatch == TypeOK /\ Dispatch => TypeOK'
  <1> SUFFICES ASSUME TypeOK, Dispatch PROVE TypeOK'
    OBVIOUS
  <1> USE DEF TypeOK, serverVars, pumpVars, outVars
  <1> DEFINE m == Head(msgs)
  <1>1. /\ m \in Message /\ msgs' \in Seq(Message)
        /\ Len(msgs') = Len(msgs) - 1 /\ Len(msgs) \in Nat /\ Len(msgs) > 0
    BY QueueTyping DEF Dispatch
  <1>2. m.code \in Codes /\ m.field \in Fields /\ m.val \in Nat \cup {Blank}
    BY <1>1 DEF Message
  <1>3. done' \in Nat /\ done' + Len(msgs') = posts'
    <2> HIDE DEF TypeOK
    <2>1. done \in Nat /\ done + Len(msgs) = posts
      BY DEF TypeOK
    <2>2. done' = done + 1 /\ posts' = posts
      BY DEF Dispatch
    <2>3. QED
      BY <1>1, <2>1, <2>2
  <1>4. state' \in [Codes -> [Fields -> StateVals]] /\ dirty' \subseteq Codes
    <2>1. Updated(state[m.code], m.field, m.val) \in [Fields -> StateVals]
      BY <1>2, UpdatedTyping
    <2>2. CASE UNCHANGED <<state, dirty>>
      BY <2>2
    <2>3. CASE /\ state' = [state EXCEPT ![m.code] = Updated(@, m.field, m.val)]
               /\ dirty' = dirty \cup {m.code}
      BY <1>2, <2>1, <2>3
    <2>4. QED
      BY <2>2, <2>3 DEF Dispatch
  <1>5. /\ applied' \in [Codes -> 0 .. done'] /\ sent' \in [Codes -> 0 .. done']
    <2>1. done' = done + 1 /\ 0 .. done \subseteq 0 .. done' /\ done + 1 \in 0 .. done'
      BY DEF Dispatch
    <2>2. sent' \in [Codes -> 0 .. done']
      BY <2>1 DEF Dispatch
    <2>3. applied \in [Codes -> 0 .. done']
      BY <2>1
    <2>4. applied' \in [Codes -> 0 .. done']
      <3>1. CASE applied' = applied
        BY <2>3, <3>1
      <3>2. CASE applied' = [applied EXCEPT ![m.code] = done + 1]
        BY <2>1, <2>3, <3>2
      <3>3. QED
        BY <3>1, <3>2 DEF Dispatch
    <2>5. QED
      BY <2>2, <2>4
  <1>6. QED
    BY <1>1, <1>3, <1>4, <1>5 DEF Dispatch

LEMMA TypeEmit ==
  ASSUME TypeOK, NEW c \in Codes, EmitCode(c)
  PROVE  TypeOK'
  <1> USE DEF TypeOK, serverVars, dataVars, outVars
  <1> DEFINE t == [code |-> c, row |-> RowOf(state[c]), upto |-> applied[c]]
  <1>1. Len(msgs) \in Nat /\ done <= posts /\ posts <= MaxPosts
    BY QueueTyping, ConstantsOK
  <1>2. applied[c] \in 0 .. MaxPosts /\ applied[c] \in 0 .. done
    BY <1>1, ConstantsOK
  <1>3. t \in Tick
    BY <1>2, RowTyping DEF Tick
  <1>4. /\ queue' \in Seq(Tick) /\ Len(queue') <= QueueMax
    <2>1. CASE queue' = queue
      BY <2>1
    <2>2. CASE Len(queue) < QueueMax /\ queue' = Append(queue, t)
      <3>1. Append(queue, t) \in Seq(Tick)
        BY <1>3, QueueTyping
      <3>2. Len(Append(queue, t)) = Len(queue) + 1 /\ Len(queue) \in Nat
        BY <1>3, QueueTyping
      <3>3. QED
        BY <2>2, <3>1, <3>2, ConstantsOK
    <2>3. QED
      BY <2>1, <2>2 DEF EmitCode
  <1>5. sent' \in [Codes -> 0 .. done] /\ dropped' \subseteq Codes
    BY <1>2 DEF EmitCode
  <1>6. QED
    BY <1>4, <1>5 DEF EmitCode

LEMMA TypeNext == TypeOK /\ [Next]_vars => TypeOK'
  <1> SUFFICES ASSUME TypeOK, [Next]_vars PROVE TypeOK'
    OBVIOUS
  <1> USE DEF serverVars, pumpVars, dataVars, outVars
  <1>1. ASSUME NEW c \in Codes, Serve(c) PROVE TypeOK'
    BY <1>1 DEF Serve, TypeOK
  <1>2. CASE GoAway
    BY <1>2, ConstantsOK DEF GoAway, TypeOK
  <1>3. ASSUME NEW m \in Sends, Post(m[1], m[2], m[3]) PROVE TypeOK'
    <2>1. /\ m[1] \in Codes /\ m[2] \in Fields /\ m[3] \in Nat \cup {Blank}
      BY ConstantsOK
    <2>2. [code |-> m[1], field |-> m[2], val |-> m[3]] \in Message
      BY <2>1 DEF Message
    <2>3. msgs' \in Seq(Message) /\ Len(msgs') = Len(msgs) + 1 /\ Len(msgs) \in Nat
      BY <1>3, <2>2, QueueTyping DEF Post, TypeOK
    <2>4. posts' \in 0 .. MaxPosts /\ posts' = posts + 1
      BY <1>3, ConstantsOK DEF Post, TypeOK
    <2>5. done + Len(msgs') = posts' /\ done \in Nat
      <3>1. done + Len(msgs) = posts /\ done \in Nat
        BY Zenon DEF TypeOK
      <3>2. Len(msgs) \in Nat /\ Len(msgs') = Len(msgs) + 1 /\ posts' = posts + 1
        BY <2>3, <2>4
      <3>3. QED
        BY <3>1, <3>2
    <2>6. UNCHANGED <<served, links, restarts, pump, todo, convs, batch, state,
                      dirty, applied, done, queue, sent, dropped, running, stopper>>
      BY <1>3 DEF Post
    <2>7. QED
      BY <2>3, <2>4, <2>5, <2>6, Zenon DEF TypeOK
  <1>4. CASE Initialize
    BY <1>4 DEF Initialize, TypeOK, PumpValues
  <1>5. CASE PumpReturns
    BY <1>5 DEF PumpReturns, TypeOK, PumpValues
  <1>6. ASSUME NEW c \in Codes, Connect(c) PROVE TypeOK'
    BY <1>6 DEF Connect, TypeOK, PumpValues
  <1>7. ASSUME NEW c \in Codes, ConnectFails(c) PROVE TypeOK'
    BY <1>7 DEF ConnectFails, TypeOK, PumpValues
  <1>8. CASE Connected
    BY <1>8 DEF Connected, Close, TypeOK, PumpValues
  <1>9. CASE Retry
    BY <1>9 DEF Retry, Close, TypeOK, PumpValues
  <1>10. CASE Dispatch
    BY <1>10, TypeDispatch
  <1>11. CASE BeginFlush
    BY <1>11 DEF BeginFlush, TypeOK, PumpValues
  <1>12. ASSUME NEW c \in Codes, EmitCode(c) PROVE TypeOK'
    BY <1>12, TypeEmit
  <1>13. CASE FlushReturns
    BY <1>13 DEF FlushReturns, Close, TypeOK, PumpValues
  <1>14. CASE Take
    <2>1. queue' \in Seq(Tick) /\ Len(queue') <= QueueMax
      BY <1>14, QueueTyping, ConstantsOK DEF Take, TypeOK
    <2>2. QED
      BY <1>14, <2>1 DEF Take, TypeOK
  <1>15. CASE Stop \/ JoinReturns
    BY <1>15 DEF Stop, JoinReturns, TypeOK
  <1>16. CASE UNCHANGED vars
    BY <1>16 DEF vars, TypeOK
  <1>17. QED
    BY <1>1, <1>2, <1>3, <1>4, <1>5, <1>6, <1>7, <1>8, <1>9, <1>10, <1>11,
       <1>12, <1>13, <1>14, <1>15, <1>16 DEF Next, PumpStep

\* Type correctness for any terminal, any set of codes and any queue: in
\* particular no BLANK is ever stored in the state of a code.
THEOREM TypeCorrect == Spec => []TypeOK
  <1>1. QED
    BY TypeInit, TypeNext, PTL DEF Spec

-----------------------------------------------------------------------------
(* Clearing the whole dirty set forgets no update.                         *)

\* A code that a flush will still look at shows an update no tick of it has
\* shown.  With it, each tick is newer than the one before it.
PendingIsNewer == \A c \in Pending : sent[c] < applied[c]

FlushInv == NothingForgotten /\ PendingIsNewer

LEMMA FlushInit == Init => FlushInv
  BY DEF Init, FlushInv, NothingForgotten, PendingIsNewer, Pending, Emits, Quoted,
         PriceFields

\* Steps that leave the states, the ticks and the set of pending codes alone.
LEMMA FlushSame ==
  ASSUME FlushInv, Pending' = Pending,
         UNCHANGED <<state, applied, sent, dropped>>
  PROVE  FlushInv'
  BY DEF FlushInv, NothingForgotten, PendingIsNewer, Emits, Quoted, Traded

LEMMA FlushDispatch ==
  ASSUME TypeOK, FlushInv, Dispatch
  PROVE  FlushInv'
  <1> DEFINE m == Head(msgs)
  <1>1. m.code \in Codes /\ pump # "flush" /\ pump' = pump
    <2>1. m \in Message
      BY QueueTyping DEF Dispatch, TypeOK
    <2>2. QED
      BY <2>1 DEF Message, Dispatch, pumpVars
  <1>2. UNCHANGED <<sent, dropped>>
    BY DEF Dispatch, outVars
  <1>3. CASE UNCHANGED <<state, dirty, applied>>
    BY <1>1, <1>2, <1>3, FlushSame DEF Pending
  <1>4. CASE /\ state' = [state EXCEPT ![m.code] = Updated(@, m.field, m.val)]
             /\ dirty' = dirty \cup {m.code}
             /\ applied' = [applied EXCEPT ![m.code] = done + 1]
    <2>1. Pending' = Pending \cup {m.code}
      BY <1>1, <1>4 DEF Pending
    <2>2. \A c \in Codes \ {m.code} :
             state'[c] = state[c] /\ applied'[c] = applied[c]
      BY <1>4 DEF TypeOK
    <2>3. applied'[m.code] = done + 1 /\ sent[m.code] \in 0 .. done /\ done \in Nat
      BY <1>1, <1>4 DEF TypeOK
    <2>4. NothingForgotten'
      BY <1>2, <2>1, <2>2
         DEF FlushInv, NothingForgotten, Emits, Quoted, Traded
    <2>5. PendingIsNewer'
      <3>1. sent[m.code] < applied'[m.code]
        BY <2>3
      <3>2. Pending \subseteq Codes
        BY DEF Pending, TypeOK
      <3>3. QED
        BY <1>2, <2>1, <2>2, <3>1, <3>2 DEF FlushInv, PendingIsNewer
    <2>6. QED
      BY <2>4, <2>5 DEF FlushInv
  <1>5. QED
    BY <1>3, <1>4 DEF Dispatch

LEMMA FlushEmit ==
  ASSUME TypeOK, FlushInv, NEW c \in Codes, EmitCode(c)
  PROVE  FlushInv'
  <1>1. /\ Pending' = Pending \ {c} /\ c \in Pending
        /\ UNCHANGED <<state, applied>>
    BY DEF EmitCode, Pending, dataVars
  <1>2. \A d \in Codes \ {c} :
           sent'[d] = sent[d] /\ (d \in dropped => d \in dropped')
    BY DEF EmitCode, outVars, TypeOK
  <1>3. Emits(c) => sent'[c] = applied[c] \/ c \in dropped'
    BY DEF EmitCode, TypeOK
  <1>4. Pending \subseteq Codes
    BY DEF Pending, TypeOK
  <1>5. NothingForgotten'
    BY <1>1, <1>2, <1>3
       DEF FlushInv, NothingForgotten, Emits, Quoted, Traded
  <1>6. PendingIsNewer'
    BY <1>1, <1>2, <1>4 DEF FlushInv, PendingIsNewer
  <1>7. QED
    BY <1>5, <1>6 DEF FlushInv

LEMMA FlushNext == TypeOK /\ FlushInv /\ [Next]_vars => FlushInv'
  <1> SUFFICES ASSUME TypeOK, FlushInv, [Next]_vars PROVE FlushInv'
    OBVIOUS
  <1> USE DEF pumpVars, dataVars, outVars
  <1>1. ASSUME NEW c \in Codes, Serve(c) PROVE FlushInv'
    BY <1>1, FlushSame DEF Serve, Pending
  <1>2. CASE GoAway
    BY <1>2, FlushSame DEF GoAway, Pending
  <1>3. ASSUME NEW m \in Sends, Post(m[1], m[2], m[3]) PROVE FlushInv'
    BY <1>3, FlushSame DEF Post, Pending
  <1>4. CASE Initialize \/ PumpReturns
    BY <1>4, FlushSame DEF Initialize, PumpReturns, Pending
  <1>5. ASSUME NEW c \in Codes, Connect(c) \/ ConnectFails(c) PROVE FlushInv'
    BY <1>5, FlushSame DEF Connect, ConnectFails, Pending
  <1>6. CASE Connected \/ Retry
    BY <1>6, FlushSame DEF Connected, Retry, Close, Pending
  <1>7. CASE Dispatch
    BY <1>7, FlushDispatch
  <1>8. CASE BeginFlush
    BY <1>8, FlushSame DEF BeginFlush, Pending
  <1>9. ASSUME NEW c \in Codes, EmitCode(c) PROVE FlushInv'
    BY <1>9, FlushEmit
  <1>10. CASE FlushReturns
    <2>1. Pending = {} /\ Pending' = {}
      BY <1>10 DEF FlushReturns, Close, Pending
    <2>2. QED
      BY <1>10, <2>1, FlushSame DEF FlushReturns
  <1>11. CASE Take \/ Stop \/ JoinReturns
    BY <1>11, FlushSame DEF Take, Stop, JoinReturns, Pending
  <1>12. CASE UNCHANGED vars
    BY <1>12, FlushSame DEF vars, Pending
  <1>13. QED
    BY <1>1, <1>2, <1>3, <1>4, <1>5, <1>6, <1>7, <1>8, <1>9, <1>10, <1>11,
       <1>12 DEF Next, PumpStep

LEMMA FlushCorrect == Spec => []FlushInv
  <1>1. QED
    BY TypeCorrect, FlushInit, FlushNext, PTL DEF Spec

\* Although a round clears the codes it skipped with the ones it sent, and
\* messages, rounds, the bus and stop() interleave in any order, no code that
\* can be emitted is left with an update that was neither sent nor dropped.
THEOREM NothingForgottenCorrect == Spec => []NothingForgotten
  <1>1. QED
    BY FlushCorrect, PTL DEF FlushInv

\* A round never repeats a code without a new update, nor sends an older one.
THEOREM EachTickIsNewerCorrect == Spec => EachTickIsNewer
  <1> DEFINE Newer == LET t == queue'[Len(queue')] IN t.upto > sent[t.code]
  <1>1. TypeOK /\ FlushInv /\ [Next]_vars => (Len(queue') > Len(queue) => Newer)
    <2> SUFFICES ASSUME TypeOK, FlushInv, [Next]_vars, Len(queue') > Len(queue)
                 PROVE  Newer
      OBVIOUS
    <2>1. Len(queue) \in Nat
      BY QueueTyping DEF TypeOK
    <2>2. CASE queue' = queue
      BY <2>1, <2>2
    <2>3. ASSUME NEW c \in Codes, EmitCode(c) PROVE Newer
      <3> DEFINE t == [code |-> c, row |-> RowOf(state[c]), upto |-> applied[c]]
      <3>1. queue' = Append(queue, t)
        BY <2>1, <2>3 DEF EmitCode, outVars
      <3>2. queue'[Len(queue')] = t
        BY <3>1, QueueTyping, TypeEmit, <2>3 DEF TypeOK
      <3>3. sent[c] < applied[c]
        BY <2>3 DEF EmitCode, FlushInv, PendingIsNewer, Pending
      <3>4. sent[c] \in Nat /\ applied[c] \in Nat
        BY DEF TypeOK
      <3>5. QED
        BY <3>2, <3>3, <3>4
    <2>4. CASE Take
      <3>1. queue # <<>> /\ Len(queue') = Len(queue) - 1
        BY <2>4, QueueTyping DEF Take, TypeOK
      <3>2. QED
        BY <2>1, <3>1
    <2>5. QED
      BY <2>2, <2>3, <2>4
         DEF Next, PumpStep, Serve, GoAway, Post, Initialize, PumpReturns,
             Connect, ConnectFails, Connected, Retry, Dispatch, BeginFlush,
             FlushReturns, Stop, JoinReturns, outVars, vars
  <1>2. QED
    BY <1>1, TypeCorrect, FlushCorrect, PTL DEF Spec, EachTickIsNewer
=============================================================================
