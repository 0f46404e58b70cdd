-------------------------- MODULE MarketCacheProofs --------------------------
(***************************************************************************)
(* Proofs about MarketCache for every value of its constants: the cache    *)
(* implements the abstract feed, and the monitor misses nothing its socket *)
(* accepted.                                                               *)
(***************************************************************************)
EXTENDS MarketCache, TLAPS

-----------------------------------------------------------------------------
(* Types.                                                                  *)

LEMMA SeqLonger ==
  ASSUME NEW n \in Nat, NEW m \in Nat, n <= m, NEW s \in Seq(1 .. n)
  PROVE  s \in Seq(1 .. m)
  OBVIOUS

LEMMA QueueTyping ==
  ASSUME NEW S, NEW q \in Seq(S)
  PROVE  /\ q # <<>> => /\ Head(q) \in S /\ Head(q) = q[1] /\ Tail(q) \in Seq(S)
                        /\ Len(Tail(q)) = Len(q) - 1 /\ Len(q) > 0
                        /\ \A k \in 1 .. Len(q) - 1 : Tail(q)[k] = q[k + 1]
         /\ \A e \in S : /\ Append(q, e) \in Seq(S)
                         /\ Len(Append(q, e)) = Len(q) + 1
                         /\ Append(q, e)[Len(q) + 1] = e
                         /\ \A k \in 1 .. Len(q) : Append(q, e)[k] = q[k]
         /\ Len(q) \in Nat /\ \A k \in 1 .. Len(q) : q[k] \in S
  OBVIOUS

LEMMA NothingWaits ==
  ASSUME NEW n
  PROVE  <<>> \in Seq(1 .. n) /\ Len(<<>>) = 0
  OBVIOUS

LEMMA JoinedTyping ==
  ASSUME NEW k \in Socks, NEW b \in BOOLEAN, joined \in [Socks -> BOOLEAN]
  PROVE  [joined EXCEPT ![k] = b] \in [Socks -> BOOLEAN]
  OBVIOUS

LEMMA EmptyTyping == Empty \in View
  BY DEF Empty, View, NoTick, Ticks

LEMMA TypeInit == Init => TypeOK
  BY MarketConstantsOK, EmptyTyping DEF Init, TypeOK, Socks

\* Publishing makes the output one longer and leaves what was published.
LEMMA TypePublish == ASSUME NEW c \in Codes, TypeOK, Publish(c) PROVE TypeOK'
  <1> DEFINE i == Len(log) + 1
  <1>1. /\ log' \in Seq(Codes) /\ Len(log') = i /\ i \in Nat /\ i <= MaxTicks
        /\ Len(log) \in Nat
    BY QueueTyping DEF TypeOK, Publish
  <1>2. inbox \in Seq(1 .. i)
    BY <1>1, SeqLonger DEF TypeOK
  <1>3. inbox' \in Seq(1 .. i) /\ Len(inbox') <= HighWater
    <2>1. CASE joined["monitor"] /\ Len(inbox) < HighWater
      <3>1. inbox' = Append(inbox, i) /\ i \in 1 .. i
        BY <1>1, <2>1 DEF Publish
      <3>2. Append(inbox, i) \in Seq(1 .. i) /\ Len(Append(inbox, i)) = Len(inbox) + 1
            /\ Len(inbox) \in Nat
        BY <1>2, <3>1, QueueTyping
      <3>3. QED
        BY <2>1, <3>1, <3>2, MarketConstantsOK
    <2>2. CASE ~(joined["monitor"] /\ Len(inbox) < HighWater)
      BY <1>2, <2>2 DEF TypeOK, Publish
    <2>3. QED
      BY <2>1, <2>2
  <1>4. slot' \in 0 .. i /\ arrived' \in 0 .. i
    BY <1>1 DEF TypeOK, Publish
  <1>5. delivered' \in View
    <2>1. i \in Ticks /\ delivered \in View
      BY <1>1, MarketConstantsOK DEF TypeOK, Ticks
    <2>2. QED
      BY <2>1 DEF Publish, View
  <1>6. UNCHANGED <<chain, faults, joined, running, zpc, lkv, mpc, got, aligner, mchain, board>>
    BY DEF Publish
  <1>7. QED
    BY <1>1, <1>3, <1>4, <1>5, <1>6 DEF TypeOK

LEMMA TypeMonitorRecv == ASSUME TypeOK, MonitorRecv PROVE TypeOK'
  <1>1. /\ Head(inbox) \in 1 .. Len(log) /\ inbox' \in Seq(1 .. Len(log))
        /\ Len(inbox') <= HighWater
    <2>1. /\ inbox \in Seq(1 .. Len(log)) /\ inbox # <<>> /\ inbox' = Tail(inbox)
          /\ Len(inbox) <= HighWater
      BY DEF TypeOK, MonitorRecv
    <2>2. /\ Head(inbox) \in 1 .. Len(log) /\ Tail(inbox) \in Seq(1 .. Len(log))
          /\ Len(Tail(inbox)) = Len(inbox) - 1 /\ Len(inbox) \in Nat
      BY <2>1, QueueTyping
    <2>3. QED
      BY <2>1, <2>2, MarketConstantsOK
  <1>2. aligner' \in View
    <2>1. log[Head(inbox)] \in Codes /\ Head(inbox) \in Ticks
      <3>1. log \in Seq(Codes) /\ Len(log) <= MaxTicks
        BY DEF TypeOK
      <3>2. Len(log) \in Nat /\ log[Head(inbox)] \in Codes
        BY <1>1, <3>1, QueueTyping
      <3>3. QED
        BY <1>1, <3>1, <3>2, MarketConstantsOK DEF Ticks
    <2>2. QED
      BY <2>1 DEF TypeOK, MonitorRecv, Updated, View
  <1>3. got' \in 0 .. Batch
    BY MarketConstantsOK DEF TypeOK, MonitorRecv
  <1>4. UNCHANGED <<feedVars, running, zmqVars, mpc, mchain, board, delivered>>
    BY DEF MonitorRecv
  <1>5. QED
    BY <1>1, <1>2, <1>3, <1>4 DEF TypeOK, feedVars, zmqVars

LEMMA TypeStep == ASSUME TypeOK, [Next]_vars PROVE TypeOK'
  <1>0. /\ Len(log) \in Nat /\ "zmq" \in Socks /\ "monitor" \in Socks
        /\ joined \in [Socks -> BOOLEAN] /\ log \in Seq(Codes) /\ chain \in Nat
    BY QueueTyping, MarketConstantsOK DEF TypeOK, Socks
  <1> USE MarketConstantsOK, EmptyTyping DEF feedVars, zmqVars, monitorVars
  <1>1. ASSUME NEW c \in Codes, Publish(c) PROVE TypeOK'
    BY <1>1, TypePublish
  <1>2. ASSUME NEW k \in Socks, Join(k) PROVE TypeOK'
    BY <1>2 DEF TypeOK, Join
  <1>3. CASE PublisherRestart
    BY <1>3 DEF TypeOK, PublisherRestart
  <1>4. CASE NewChain
    BY <1>4 DEF TypeOK, NewChain
  <1>5. ASSUME NEW S \in SUBSET Codes, Restore(S) PROVE TypeOK'
    <2>1. lkv' \in View
      BY <1>5 DEF TypeOK, Restore, View, Restored, Ticks
    <2>2. QED
      BY <1>5, <2>1 DEF TypeOK, Restore
  <1>6. CASE Connect
    BY <1>6 DEF TypeOK, Connect
  <1>7. CASE Recv
    <2>1. log[slot] \in Codes /\ slot \in Ticks
      BY <1>7, QueueTyping DEF TypeOK, Recv, Ticks
    <2>2. lkv' \in View
      BY <1>7, <2>1 DEF TypeOK, Recv, View
    <2>3. Len(log) \in Nat
      BY QueueTyping DEF TypeOK
    <2>4. QED
      BY <1>7, <2>2, <2>3 DEF TypeOK, Recv
  <1>8. CASE RecvRaises
    BY <1>0, <1>8, JoinedTyping DEF TypeOK, RecvRaises
  <1>9. CASE ZmqEnds
    BY <1>0, <1>9, JoinedTyping DEF TypeOK, ZmqEnds
  <1>10. CASE MonitorStart
    BY <1>10 DEF TypeOK, MonitorStart
  <1>11. CASE MonitorInit
    BY <1>0, <1>11, JoinedTyping, NothingWaits DEF TypeOK, MonitorInit, Usable
  <1>12. CASE FileChanged
    BY <1>12 DEF TypeOK, FileChanged
  <1>13. CASE MonitorRecv
    BY <1>13, TypeMonitorRecv
  <1>14. CASE MonitorScan
    BY <1>14 DEF TypeOK, MonitorScan
  <1>15. CASE MonitorEnds
    BY <1>0, <1>15, JoinedTyping, NothingWaits DEF TypeOK, MonitorEnds
  <1>16. CASE Stop
    BY <1>16 DEF TypeOK, Stop
  <1>17. CASE UNCHANGED vars
    BY <1>17 DEF TypeOK, vars
  <1>18. QED
    BY <1>1, <1>2, <1>3, <1>4, <1>5, <1>6, <1>7, <1>8, <1>9, <1>10, <1>11, <1>12,
       <1>13, <1>14, <1>15, <1>16, <1>17 DEF Next, Environment, Steps

\* Every reachable state of the two threads, their sockets and views is well
\* typed.
THEOREM TypeCorrect == Spec => []TypeOK
  <1>1. Init => TypeOK
    BY TypeInit
  <1>2. TypeOK /\ [Next]_vars => TypeOK'
    BY TypeStep
  <1>3. QED
    BY <1>1, <1>2, PTL DEF Spec

-----------------------------------------------------------------------------
(* The refinement.                                                         *)

\* Some code has the newest tick.  That there is one cannot be concluded from
\* the finite set of codes without induction over it, so it is carried along.
HasNewest == \E c \in Codes : \A d \in Codes : lkv[d] <= lkv[c]

\* The socket and the cache: what the socket holds is the last message that
\* arrived and newer than the cache; once taken, the cache is as new.
SlotInv ==
    /\ zpc = "restore" => lkv = Empty /\ arrived = 0 /\ ~joined["zmq"]
    /\ slot # 0 => arrived = slot /\ \A c \in Codes : lkv[c] < slot
    /\ (slot = 0 /\ arrived # 0) => \E c \in Codes : arrived <= lkv[c]
    /\ \A c \in Codes : lkv[c] <= Len(log)

FeedInv == TypeOK /\ HasNewest /\ SlotInv

LEMMA ViewNumbers ==
  ASSUME NEW view \in View, NEW c \in Codes
  PROVE  view[c] \in Int /\ view[c] >= NoTick
  <1>1. view[c] \in {NoTick} \cup Ticks
    BY DEF View
  <1>2. QED
    BY <1>1, MarketConstantsOK DEF Ticks, NoTick

LEMMA NewestIs ==
  ASSUME NEW view \in View, NEW c \in Codes, \A d \in Codes : view[d] <= view[c]
  PROVE  Newest(view) = view[c]
  <1> DEFINE S == {view[d] : d \in Codes}
  <1>1. view[c] \in S /\ \A y \in S : view[c] >= y
    BY ViewNumbers
  <1>2. Max(S) \in S /\ \A y \in S : Max(S) >= y
    BY <1>1 DEF Max
  <1>3. \A y \in S : y \in Int
    BY ViewNumbers
  <1>4. Max(S) = view[c]
    BY <1>1, <1>2, <1>3
  <1>5. QED
    BY <1>4 DEF Newest

LEMMA NewestBounds ==
  ASSUME FeedInv
  PROVE  /\ Newest(lkv) \in Int
         /\ \A c \in Codes : lkv[c] <= Newest(lkv)
         /\ \E c \in Codes : Newest(lkv) = lkv[c]
  <1>1. lkv \in View
    BY DEF FeedInv, TypeOK
  <1>2. PICK c \in Codes : \A d \in Codes : lkv[d] <= lkv[c]
    BY DEF FeedInv, HasNewest
  <1>3. Newest(lkv) = lkv[c]
    BY <1>1, <1>2, NewestIs
  <1>4. QED
    BY <1>1, <1>2, <1>3, ViewNumbers

LEMMA EmptyNewest == Newest(Empty) = NoTick /\ \E c \in Codes : \A d \in Codes : Empty[d] <= Empty[c]
  <1>1. PICK c \in Codes : TRUE
    BY MarketConstantsOK
  <1>2. \A d \in Codes : Empty[d] = NoTick
    BY DEF Empty
  <1>3. \A d \in Codes : Empty[d] <= Empty[c]
    BY <1>2 DEF NoTick
  <1>4. QED
    BY <1>1, <1>2, <1>3, EmptyTyping, NewestIs

LEMMA FeedInvInit == Init => FeedInv
  <1> SUFFICES ASSUME Init PROVE FeedInv
    OBVIOUS
  <1>1. /\ lkv = Empty /\ arrived = 0 /\ slot = 0 /\ ~joined["zmq"]
        /\ Len(log) = 0
    BY DEF Init, Socks
  <1>2. HasNewest
    BY <1>1, EmptyNewest DEF HasNewest
  <1>3. \A c \in Codes : lkv[c] = NoTick
    BY <1>1 DEF Empty
  <1>4. \A c \in Codes : lkv[c] <= Len(log)
    BY <1>1, <1>3 DEF NoTick
  <1>5. SlotInv
    BY <1>1, <1>4 DEF SlotInv
  <1>6. QED
    BY <1>2, <1>5, TypeInit DEF FeedInv

\* Steps that leave the cache and its socket alone, but for a longer output.
LEMMA FeedInvFrame ==
  ASSUME FeedInv, TypeOK', UNCHANGED <<zpc, slot, lkv, arrived>>, Len(log') >= Len(log),
         joined'["zmq"] => joined["zmq"] \/ zpc = "recv"
  PROVE  FeedInv'
  <1>1. HasNewest'
    BY DEF FeedInv, HasNewest
  <1>2. \A c \in Codes : lkv'[c] <= Len(log')
    <2>1. Len(log) \in Int /\ Len(log') \in Int /\ lkv \in View
      BY QueueTyping DEF FeedInv, TypeOK
    <2>2. QED
      BY <2>1, ViewNumbers DEF FeedInv, SlotInv
  <1>3. SlotInv'
    BY <1>2 DEF FeedInv, SlotInv
  <1>4. QED
    BY <1>1, <1>3 DEF FeedInv

LEMMA FeedInvPublish ==
  ASSUME FeedInv, NEW c \in Codes, Publish(c), TypeOK' PROVE FeedInv'
  <1>1. /\ Len(log') = Len(log) + 1 /\ Len(log) \in Nat /\ lkv \in View
    BY QueueTyping DEF FeedInv, TypeOK, Publish
  <1>2. CASE ~joined["zmq"]
    BY <1>1, <1>2, FeedInvFrame DEF Publish
  <1>3. CASE joined["zmq"]
    <2>1. slot' = Len(log) + 1 /\ arrived' = Len(log) + 1 /\ UNCHANGED <<lkv, zpc, joined>>
      BY <1>3 DEF Publish
    <2>2. \A d \in Codes : lkv[d] < Len(log) + 1
      BY <1>1, ViewNumbers DEF FeedInv, SlotInv
    <2>3. zpc # "restore"
      BY <1>3 DEF FeedInv, SlotInv
    <2>4. SlotInv'
      BY <1>1, <2>1, <2>2, <2>3, ViewNumbers DEF SlotInv
    <2>5. HasNewest'
      BY <2>1 DEF FeedInv, HasNewest
    <2>6. QED
      BY <2>4, <2>5 DEF FeedInv
  <1>4. QED
    BY <1>2, <1>3

LEMMA FeedInvRestore ==
  ASSUME FeedInv, NEW S \in SUBSET Codes, Restore(S), TypeOK' PROVE FeedInv'
  <1>1. /\ \A c \in Codes : lkv'[c] = IF c \in S THEN Restored ELSE NoTick
        /\ slot' = 0 /\ arrived' = 0 /\ zpc' = "connect" /\ log' = log
    <2>1. lkv = Empty /\ arrived = 0 /\ slot \in Nat
      BY QueueTyping DEF FeedInv, SlotInv, Restore, TypeOK
    <2>2. slot = 0
      BY <2>1 DEF FeedInv, SlotInv
    <2>3. QED
      BY <2>1, <2>2 DEF Restore, Empty, feedVars
  <1>2. HasNewest'
    <2>1. PICK c \in Codes : c \in S \/ S = {}
      BY MarketConstantsOK
    <2>2. \A d \in Codes : lkv'[d] <= lkv'[c]
      BY <1>1, <2>1 DEF Restored, NoTick
    <2>3. QED
      BY <2>2 DEF HasNewest
  <1>3. Len(log) \in Nat
    BY QueueTyping DEF FeedInv, TypeOK
  <1>4. SlotInv'
    BY <1>1, <1>3 DEF SlotInv, Restored, NoTick
  <1>5. QED
    BY <1>2, <1>4 DEF FeedInv

LEMMA RecvFacts ==
  ASSUME FeedInv, Recv
  PROVE  /\ log[slot] \in Codes /\ slot \in Nat /\ slot = arrived /\ slot <= Len(log)
         /\ Len(log) \in Nat /\ lkv \in View
         /\ \A d \in Codes : lkv'[d] = IF d = log[slot] THEN slot ELSE lkv[d]
         /\ \A d \in Codes : lkv'[d] <= lkv'[log[slot]]
  <1>1. /\ slot # 0 /\ slot \in 0 .. Len(log) /\ Len(log) \in Nat /\ lkv \in View
        /\ slot = arrived /\ \A d \in Codes : lkv[d] < slot
    BY QueueTyping DEF FeedInv, SlotInv, Recv, TypeOK
  <1>2. log[slot] \in Codes
    BY <1>1, QueueTyping DEF FeedInv, TypeOK
  <1>3. \A d \in Codes : lkv'[d] = IF d = log[slot] THEN slot ELSE lkv[d]
    BY <1>1, <1>2 DEF Recv, View
  <1>4. \A d \in Codes : lkv'[d] <= lkv'[log[slot]]
    BY <1>1, <1>2, <1>3, ViewNumbers
  <1>5. QED
    BY <1>1, <1>2, <1>3, <1>4

LEMMA FeedInvRecv == ASSUME FeedInv, Recv, TypeOK' PROVE FeedInv'
  <1>1. HasNewest'
    BY RecvFacts DEF HasNewest
  <1>2. slot' = 0 /\ UNCHANGED <<arrived, log, joined>> /\ zpc' # "restore"
    BY DEF Recv, feedVars
  <1>3. lkv'[log[slot]] = arrived' /\ log[slot] \in Codes /\ arrived' \in Nat
    BY <1>2, RecvFacts
  <1>4. \A d \in Codes : lkv'[d] <= Len(log')
    BY <1>2, RecvFacts DEF FeedInv, SlotInv
  <1>5. SlotInv'
    BY <1>2, <1>3, <1>4 DEF SlotInv
  <1>6. QED
    BY <1>1, <1>5 DEF FeedInv

\* A socket that is closed takes its message with it.
LEMMA FeedInvLosesSocket ==
  ASSUME FeedInv, TypeOK', slot' = 0, arrived' = 0, UNCHANGED <<log, lkv>>,
         zpc' # "restore"
  PROVE  FeedInv'
  BY DEF FeedInv, HasNewest, SlotInv

LEMMA FeedInvStep == ASSUME FeedInv, [Next]_vars PROVE FeedInv'
  <1> USE DEF feedVars, zmqVars, monitorVars
  <1>1. TypeOK' /\ Len(log) \in Nat /\ joined \in [Socks -> BOOLEAN]
    BY TypeStep, QueueTyping DEF FeedInv, TypeOK
  <1>2. ASSUME NEW c \in Codes, Publish(c) PROVE FeedInv'
    BY <1>1, <1>2, FeedInvPublish
  <1>3. ASSUME NEW k \in Socks, Join(k) PROVE FeedInv'
    BY <1>1, <1>3, FeedInvFrame DEF Join
  <1>4. CASE PublisherRestart \/ MonitorInit \/ MonitorEnds
    <2>1. joined'["zmq"] => joined["zmq"]
      BY <1>1, <1>4 DEF PublisherRestart, MonitorInit, MonitorEnds, Socks
    <2>2. UNCHANGED <<log, zpc, slot, lkv, arrived>>
      BY <1>4 DEF PublisherRestart, MonitorInit, MonitorEnds
    <2>3. QED
      BY <1>1, <2>1, <2>2, FeedInvFrame
  <1>5. CASE \/ NewChain \/ Stop \/ MonitorStart \/ FileChanged \/ MonitorRecv
             \/ MonitorScan \/ UNCHANGED vars
    <2>1. UNCHANGED <<log, joined, zpc, slot, lkv, arrived>>
      BY <1>5 DEF NewChain, Stop, MonitorStart, FileChanged, MonitorRecv, MonitorScan, vars
    <2>2. QED
      BY <1>1, <2>1, FeedInvFrame
  <1>6. ASSUME NEW S \in SUBSET Codes, Restore(S) PROVE FeedInv'
    BY <1>1, <1>6, FeedInvRestore
  <1>7. CASE Connect
    BY <1>1, <1>7 DEF FeedInv, HasNewest, SlotInv, Connect
  <1>8. CASE Recv
    BY <1>1, <1>8, FeedInvRecv
  <1>9. CASE RecvRaises \/ ZmqEnds
    BY <1>1, <1>9, FeedInvLosesSocket DEF RecvRaises, ZmqEnds
  <1>10. QED
    BY <1>2, <1>3, <1>4, <1>5, <1>6, <1>7, <1>8, <1>9 DEF Next, Environment, Steps

\* Init and every step of the cache are a step of the feed, or none.
LEMMA FeedStart == Init => F!FeedInit
  BY EmptyNewest DEF Init, F!FeedInit, NoTick, F!NoTick

LEMMA FeedStep == ASSUME FeedInv, [Next]_vars PROVE [F!FeedNext]_F!feedVars
  <1> DEFINE FeedOrNone == [F!FeedNext]_F!feedVars
  <1> USE DEF feedVars, zmqVars, monitorVars
  <1>1. FeedInv'
    BY FeedInvStep
  <1>2. CASE UNCHANGED <<running, arrived, lkv>>
    BY <1>2 DEF F!feedVars
  <1>3. ASSUME NEW c \in Codes, Publish(c), arrived' # arrived PROVE F!FeedNext
    <2>1. /\ arrived' = Len(log) + 1 /\ Len(log) \in Nat /\ Len(log) + 1 <= MaxTicks
          /\ UNCHANGED <<lkv, running>> /\ lkv \in View /\ arrived \in 0 .. Len(log)
      BY <1>3, QueueTyping DEF FeedInv, TypeOK, Publish
    <2>2. \A d \in Codes : lkv[d] <= Len(log) /\ lkv[d] \in Int
      BY <2>1, ViewNumbers DEF FeedInv, SlotInv
    <2>3. Newest(lkv) < Len(log) + 1 /\ Newest(lkv) \in Int
      BY <2>1, <2>2, NewestBounds
    <2>4. F!Arrive(Len(log) + 1) /\ Len(log) + 1 \in 1 .. MaxTicks
      BY <2>1, <2>3, MarketConstantsOK DEF F!Arrive
    <2>5. QED
      BY <2>4 DEF F!FeedNext
  <1>4. ASSUME NEW S \in SUBSET Codes, Restore(S), S # {} PROVE F!FeedNext
    <2>1. lkv = Empty /\ arrived = 0 /\ Newest(lkv) = NoTick
      BY <1>4, EmptyNewest DEF FeedInv, SlotInv, Restore
    <2>2. UNCHANGED <<running, arrived>>
      BY <1>4 DEF Restore
    <2>3. PICK c \in S : \A d \in Codes : lkv'[d] <= lkv'[c] /\ lkv'[c] = Restored
      BY <1>4, <2>1 DEF Restore, Empty, Restored, NoTick
    <2>4. lkv' \in View
      BY <1>1 DEF FeedInv, TypeOK, View, Ticks
    <2>5. Newest(lkv') = Restored
      BY <2>3, <2>4, NewestIs
    <2>6. QED
      BY <2>1, <2>2, <2>5 DEF F!FeedNext, F!ColdStart, F!NoTick, F!Restored, NoTick, Restored
  <1>5. ASSUME NEW S \in SUBSET Codes, Restore(S), S = {} PROVE UNCHANGED <<running, arrived, lkv>>
    BY <1>5 DEF FeedInv, SlotInv, Restore, Empty
  <1>6. CASE Recv
    <2>1. lkv' \in View
      BY <1>1 DEF FeedInv, TypeOK, View, Ticks
    <2>2. Newest(lkv') = lkv'[log[slot]] /\ lkv'[log[slot]] = arrived
      BY <1>6, <2>1, RecvFacts, NewestIs
    <2>3. Newest(lkv) < arrived
      BY <1>6, NewestBounds DEF FeedInv, SlotInv, Recv
    <2>4. arrived # 0 /\ UNCHANGED <<running, arrived>>
      BY <1>6, RecvFacts DEF Recv
    <2>5. QED
      BY <2>2, <2>3, <2>4, NewestBounds DEF F!FeedNext, F!Land
  <1>7. CASE (RecvRaises \/ ZmqEnds) /\ arrived # 0
    BY <1>7 DEF F!FeedNext, F!LoseSocket, RecvRaises, ZmqEnds
  <1>8. CASE Stop
    BY <1>8 DEF F!FeedNext, F!StopFeed, Stop
  <1>9. ASSUME RecvRaises \/ ZmqEnds, arrived = 0 PROVE UNCHANGED <<running, arrived, lkv>>
    BY <1>9 DEF RecvRaises, ZmqEnds
  <1>10. ASSUME NEW c \in Codes, Publish(c), arrived' = arrived PROVE UNCHANGED <<running, arrived, lkv>>
    BY <1>10 DEF Publish
  <1>11. ASSUME NEW c \in Codes, Publish(c) PROVE FeedOrNone
    BY <1>2, <1>3, <1>10, <1>11
  <1>12. ASSUME NEW S \in SUBSET Codes, Restore(S) PROVE FeedOrNone
    BY <1>2, <1>4, <1>5, <1>12
  <1>13. ASSUME RecvRaises \/ ZmqEnds PROVE FeedOrNone
    BY <1>2, <1>7, <1>9, <1>13
  <1>14. ASSUME Recv \/ Stop PROVE FeedOrNone
    BY <1>6, <1>8, <1>14
  <1>15. ASSUME NEW k \in Socks, Join(k) PROVE FeedOrNone
    BY <1>2, <1>15 DEF Join
  <1>16. ASSUME UNCHANGED vars PROVE FeedOrNone
    BY <1>2, <1>16 DEF vars
  <1>17. ASSUME \/ PublisherRestart \/ NewChain \/ Connect \/ MonitorStart \/ MonitorInit
                \/ FileChanged \/ MonitorRecv \/ MonitorScan \/ MonitorEnds
         PROVE  FeedOrNone
    <2>1. UNCHANGED <<running, arrived, lkv>>
      BY <1>17 DEF PublisherRestart, NewChain, Connect, MonitorStart, MonitorInit,
         FileChanged, MonitorRecv, MonitorScan, MonitorEnds
    <2>2. QED
      BY <1>2, <2>1
  <1> HIDE DEF FeedOrNone
  <1>18. FeedOrNone
    <2>1. ASSUME Environment PROVE FeedOrNone
      BY <1>11, <1>13, <1>14, <1>17, <2>1 DEF Environment
    <2>2. ASSUME Steps PROVE FeedOrNone
      BY <1>12, <1>13, <1>14, <1>15, <1>17, <2>2 DEF Steps
    <2>3. QED
      BY <1>16, <2>1, <2>2 DEF Next
  <1>19. QED
    BY <1>18 DEF FeedOrNone

\* The cache implements the feed for any codes, queue lengths and faults: its
\* newest tick never goes back.
THEOREM ImplementsFeedCorrect == Spec => ImplementsFeed
  <1>1. Init => FeedInv
    BY FeedInvInit
  <1>2. FeedInv /\ [Next]_vars => FeedInv'
    BY FeedInvStep
  <1>3. Init => F!FeedInit
    BY FeedStart
  <1>4. FeedInv /\ [Next]_vars => [F!FeedNext]_F!feedVars
    BY FeedStep
  <1>5. QED
    BY <1>1, <1>2, <1>3, <1>4, PTL DEF Spec, ImplementsFeed, F!FeedSpec

-----------------------------------------------------------------------------
(* The monitor.                                                            *)

\* A code's last accepted tick is in the aligner, and none of it waits; or it
\* waits, and no later one of the code does.
UpToDate(c) ==
    /\ aligner[c] = delivered[c]
    /\ \A k \in 1 .. Len(inbox) : log[inbox[k]] # c
Waits(c, k) ==
    /\ k \in 1 .. Len(inbox) /\ inbox[k] = delivered[c] /\ log[inbox[k]] = c
    /\ \A m \in 1 .. Len(inbox) : m > k => log[inbox[m]] # c
Kept(c) == UpToDate(c) \/ \E k \in 1 .. Len(inbox) : Waits(c, k)

MonInv == TypeOK /\ (mpc = "loop" => \A c \in Codes \ Untraded : Kept(c))

LEMMA MonInvKeeps == MonInv => MonitorKeepsAll
  <1> SUFFICES ASSUME MonInv, mpc = "loop", NEW c \in Codes \ Untraded
               PROVE  aligner[c] = delivered[c] \/ delivered[c] \in ToSet(inbox)
    BY DEF MonitorKeepsAll
  <1>1. CASE UpToDate(c)
    BY <1>1 DEF UpToDate
  <1>2. ASSUME NEW k \in 1 .. Len(inbox), Waits(c, k) PROVE delivered[c] \in ToSet(inbox)
    <2>1. DOMAIN inbox = 1 .. Len(inbox)
      BY DEF MonInv, TypeOK
    <2>2. QED
      BY <1>2, <2>1 DEF ToSet, Waits
  <1>3. QED
    BY <1>1, <1>2 DEF MonInv, Kept

LEMMA MonInvFrame ==
  ASSUME MonInv, TypeOK', UNCHANGED <<log, inbox, aligner, delivered>>,
         mpc' = "loop" => mpc = "loop"
  PROVE  MonInv'
  BY DEF MonInv, Kept, UpToDate, Waits

LEMMA MonInvPublish ==
  ASSUME MonInv, NEW d \in Codes, Publish(d), TypeOK' PROVE MonInv'
  <1>0. PICK i \in Nat, n \in Nat : i = Len(log) + 1 /\ n = Len(inbox)
    <2>1. Len(log) \in Nat /\ Len(inbox) \in Nat
      BY QueueTyping DEF MonInv, TypeOK
    <2>2. QED
      BY <2>1
  <1>1. /\ log'[i] = d /\ \A j \in 1 .. Len(log) : log'[j] = log[j]
        /\ \A k \in 1 .. n : inbox[k] \in 1 .. Len(log)
        /\ delivered \in View /\ UNCHANGED <<aligner, mpc>>
    <2>1. log \in Seq(Codes) /\ log' = Append(log, d) /\ i = Len(log) + 1
      BY <1>0 DEF MonInv, TypeOK, Publish
    <2>2. log'[i] = d /\ \A j \in 1 .. Len(log) : log'[j] = log[j]
      BY <2>1, QueueTyping
    <2>3. \A k \in 1 .. n : inbox[k] \in 1 .. Len(log)
      BY <1>0, QueueTyping DEF MonInv, TypeOK
    <2>4. QED
      BY <2>2, <2>3 DEF MonInv, TypeOK, Publish
  <1>2. \A k \in 1 .. n : log'[inbox[k]] = log[inbox[k]]
    BY <1>0, <1>1
  <1>3. CASE UNCHANGED <<inbox, delivered>>
    <2>1. ASSUME NEW c \in Codes, UpToDate(c) PROVE UpToDate(c)'
      BY <1>0, <1>1, <1>2, <1>3, <2>1 DEF UpToDate
    <2>2. ASSUME NEW c \in Codes, NEW k \in 1 .. n, Waits(c, k) PROVE Waits(c, k)'
      BY <1>0, <1>1, <1>2, <1>3, <2>2 DEF Waits
    <2>3. \A c \in Codes : Kept(c) => Kept(c)'
      BY <1>0, <1>3, <2>1, <2>2 DEF Kept
    <2>4. QED
      BY <1>1, <2>3 DEF MonInv
  <1>4. CASE inbox' = Append(inbox, i) /\ delivered' = [delivered EXCEPT ![d] = i]
    <2>1. /\ Len(inbox') = n + 1 /\ inbox'[n + 1] = i
          /\ \A k \in 1 .. n : inbox'[k] = inbox[k]
      <3>1. inbox \in Seq(1 .. Len(log)) /\ Len(log) \in Nat
        BY QueueTyping DEF MonInv, TypeOK
      <3>2. 1 .. Len(log) \subseteq 1 .. i /\ i \in 1 .. i /\ Len(log) <= i
        BY <1>0, <3>1
      <3>3. inbox \in Seq(1 .. i)
        BY <1>0, <3>1, <3>2, SeqLonger
      <3>4. QED
        BY <1>0, <1>4, <3>2, <3>3, QueueTyping
    <2>2. /\ delivered'[d] = i
          /\ \A c \in Codes : c # d => delivered'[c] = delivered[c]
      BY <1>0, <1>1, <1>4 DEF View
    <2>3. Waits(d, n + 1)'
      BY <1>0, <1>1, <2>1, <2>2 DEF Waits
    <2>4. ASSUME NEW c \in Codes, c # d, Kept(c) PROVE Kept(c)'
      <3>1. CASE UpToDate(c)
        <4>1. \A k \in 1 .. n + 1 : log'[inbox'[k]] # c
          BY <1>0, <1>1, <1>2, <2>1, <2>4, <3>1 DEF UpToDate
        <4>2. QED
          BY <1>0, <1>1, <2>1, <2>2, <2>4, <3>1, <4>1 DEF UpToDate, Kept
      <3>2. ASSUME NEW k \in 1 .. n, Waits(c, k) PROVE Kept(c)'
        <4>1. ASSUME NEW m \in 1 .. n + 1, m > k PROVE log'[inbox'[m]] # c
          <5>1. CASE m = n + 1
            BY <1>0, <1>1, <2>1, <2>4, <5>1
          <5>2. CASE m # n + 1
            <6>1. m \in 1 .. n
              BY <1>0, <5>2
            <6>2. log'[inbox'[m]] = log[inbox[m]]
              BY <1>2, <2>1, <6>1
            <6>3. QED
              BY <1>0, <3>2, <4>1, <6>1, <6>2 DEF Waits
          <5>3. QED
            BY <5>1, <5>2
        <4>2. /\ k \in 1 .. n + 1 /\ inbox'[k] = delivered'[c]
              /\ log'[inbox'[k]] = c
          BY <1>0, <1>2, <2>1, <2>2, <2>4, <3>2 DEF Waits
        <4>3. QED
          BY <1>0, <2>1, <4>1, <4>2 DEF Kept, Waits
      <3>3. QED
        BY <1>0, <2>4, <3>1, <3>2 DEF Kept
    <2>5. n + 1 \in 1 .. Len(inbox')
      BY <1>0, <1>1, <2>1
    <2>6. Kept(d)'
      BY <1>0, <2>1, <2>3, <2>5 DEF Kept
    <2>7. QED
      BY <1>0, <1>1, <2>4, <2>6 DEF MonInv
  <1>5. QED
    BY <1>0, <1>3, <1>4 DEF Publish

LEMMA MonInvRecv == ASSUME MonInv, MonitorRecv, TypeOK' PROVE MonInv'
  <1> DEFINE h == Head(inbox)
             n == Len(inbox)
  <1>1. /\ n \in Nat /\ n > 0 /\ h = inbox[1] /\ Len(inbox') = n - 1
        /\ \A k \in 1 .. n - 1 : inbox'[k] = inbox[k + 1]
        /\ UNCHANGED <<log, delivered, mpc>> /\ mpc = "loop"
    BY QueueTyping DEF MonInv, TypeOK, MonitorRecv, feedVars
  <1>2. aligner \in View
    BY DEF MonInv, TypeOK
  <1>3. ASSUME NEW c \in Codes \ Untraded PROVE Kept(c)'
    <2>1. log[h] # c => aligner'[c] = aligner[c]
      BY <1>2 DEF MonitorRecv, Updated, View
    <2>2. log[h] = c => aligner'[c] = h
      BY <1>2 DEF MonitorRecv, Updated, View, Parses
    <2>3. CASE UpToDate(c)
      BY <1>1, <2>1, <2>3 DEF UpToDate, Kept
    <2>4. CASE Waits(c, 1)
      <3>1. aligner'[c] = delivered'[c]
        BY <1>1, <2>2, <2>4 DEF Waits
      <3>2. \A k \in 1 .. n - 1 : log'[inbox'[k]] # c
        <4>1. TAKE k \in 1 .. n - 1
        <4>2. k + 1 \in 1 .. n /\ k + 1 > 1
          BY <1>1
        <4>3. QED
          BY <1>1, <2>4, <4>2 DEF Waits
      <3>3. QED
        BY <1>1, <3>1, <3>2 DEF UpToDate, Kept
    <2>5. ASSUME NEW k \in 1 .. n, k # 1, Waits(c, k) PROVE Kept(c)'
      <3>1. k - 1 \in 1 .. n - 1 /\ inbox'[k - 1] = inbox[k]
        BY <1>1, <2>5
      <3>2. \A m \in 1 .. n - 1 : m > k - 1 => log'[inbox'[m]] # c
        <4>1. SUFFICES ASSUME NEW m \in 1 .. n - 1, m > k - 1 PROVE log'[inbox'[m]] # c
          OBVIOUS
        <4>2. m + 1 \in 1 .. n /\ m + 1 > k
          BY <1>1, <4>1
        <4>3. QED
          BY <1>1, <2>5, <4>2 DEF Waits
      <3>3. Waits(c, k - 1)'
        BY <1>1, <2>5, <3>1, <3>2 DEF Waits
      <3>4. QED
        BY <1>1, <3>1, <3>3 DEF Kept
    <2>6. Kept(c)
      BY <1>1 DEF MonInv
    <2>7. QED
      BY <2>3, <2>4, <2>5, <2>6 DEF Kept
  <1>4. QED
    BY <1>3 DEF MonInv

LEMMA MonInvStep == ASSUME MonInv, [Next]_vars PROVE MonInv'
  <1> USE DEF feedVars, zmqVars, monitorVars
  <1>1. TypeOK'
    BY TypeStep DEF MonInv
  <1>2. ASSUME NEW c \in Codes, Publish(c) PROVE MonInv'
    BY <1>1, <1>2, MonInvPublish
  <1>3. CASE MonitorRecv
    BY <1>1, <1>3, MonInvRecv
  <1>4. CASE MonitorInit
    <2>1. inbox' = <<>> /\ delivered' = aligner'
      BY <1>4 DEF MonitorInit
    <2>2. \A c \in Codes : UpToDate(c)'
      BY <2>1, NothingWaits DEF UpToDate
    <2>3. QED
      BY <1>1, <2>2 DEF MonInv, Kept
  <1>5. ASSUME NEW k \in Socks, Join(k) PROVE MonInv'
    BY <1>1, <1>5, MonInvFrame DEF Join
  <1>6. ASSUME NEW S \in SUBSET Codes, Restore(S) PROVE MonInv'
    BY <1>1, <1>6, MonInvFrame DEF Restore
  <1>7. CASE MonitorEnds
    BY <1>1, <1>7 DEF MonitorEnds, MonInv
  <1>8. CASE \/ PublisherRestart \/ NewChain \/ Connect \/ Recv \/ RecvRaises \/ ZmqEnds
             \/ MonitorStart \/ FileChanged \/ MonitorScan \/ Stop \/ UNCHANGED vars
    <2>1. UNCHANGED <<log, inbox, aligner, delivered>> /\ (mpc' = "loop" => mpc = "loop")
      BY <1>8 DEF PublisherRestart, NewChain, Connect, Recv, RecvRaises, ZmqEnds,
         MonitorStart, FileChanged, MonitorScan, Stop, vars
    <2>2. QED
      BY <1>1, <2>1, MonInvFrame
  <1>9. QED
    BY <1>2, <1>3, <1>4, <1>5, <1>6, <1>7, <1>8 DEF Next, Environment, Steps

\* Nothing is lost or reordered between the monitor's socket and its aligner,
\* for any codes, high-water mark and batch.
THEOREM MonitorKeepsAllCorrect == Spec => []MonitorKeepsAll
  <1>1. Init => MonInv
    BY TypeInit DEF Init, MonInv
  <1>2. MonInv /\ [Next]_vars => MonInv'
    BY MonInvStep
  <1>3. QED
    BY <1>1, <1>2, MonInvKeeps, PTL DEF Spec
=============================================================================
