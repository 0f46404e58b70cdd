---------------------------- MODULE MarketCache ----------------------------
(***************************************************************************)
(* The two threads of web/market_cache.py that listen to the recorder's    *)
(* ZMQ publisher (data_bus/zmq_publisher.py).                              *)
(*   zmq      keeps the last value of every code (LKV), from a socket that *)
(*            conflates: it holds one message, whatever its code;          *)
(*   monitor  reads every message from a socket of its own into a          *)
(*            TickAligner and scans the pairs of the option chain.         *)
(* A message is named by its position in the publisher's output, so a      *)
(* larger number is a later tick.  The thread that prices the LKV is in    *)
(* VolSmile, over the abstract Feed this module implements.                *)
(***************************************************************************)
EXTENDS Integers, Sequences, FiniteSets, FiniteSetsExt, SequencesExt

CONSTANTS
    Codes,      \* contract and ETF codes
    Untraded,   \* codes quoted without a last price all day
    HighWater,  \* receive high-water mark of the monitor's socket
    Batch,      \* messages of one monitor cycle (200)
    MaxTicks,   \* bound: messages published
    MaxChain,   \* bound: versions of the optionchain file
    MaxFaults   \* bound: publisher restarts and failing receives

Socks == {"zmq", "monitor"}
NoTick == -1    \* no value of a code
Restored == 0   \* a value of the snapshot file

ASSUME MarketConstantsOK ==
    /\ Codes # {} /\ IsFiniteSet(Codes) /\ Untraded \subseteq Codes
    /\ {HighWater, Batch} \subseteq Nat \ {0}
    /\ {MaxTicks, MaxChain, MaxFaults} \subseteq Nat

-----------------------------------------------------------------------------
VARIABLES
    log,        \* codes of the messages published so far
    chain,      \* version of the optionchain file, 0 before there is one
    faults,     \* counts the faults of the environment
    joined,     \* which sockets the publisher has a live subscription of
    running,    \* _running
    zpc,        \* zmq thread: restore, connect, recv, check (after stop(),
                \* a last message taken), ended
    slot,       \* the message its socket holds, 0 for none
    lkv,        \* _lkv: code -> message
    mpc,        \* monitor thread: wait, init, loop, ended
    inbox,      \* messages its socket holds
    got,        \* messages received in this cycle
    aligner,    \* code -> message
    mchain,     \* version of the option chain it works with
    board,      \* _monitor_cache: the aligner it was computed from
    arrived,    \* history: last message the conflating socket accepted
    delivered   \* history: code -> last message the monitor's socket accepted

feedVars == <<log, chain, faults, joined>>
zmqVars == <<zpc, slot, lkv, arrived>>
monitorVars == <<mpc, inbox, got, aligner, mchain, board, delivered>>
vars == <<feedVars, running, zmqVars, monitorVars>>

Empty == [c \in Codes |-> NoTick]
Newest(view) == Max({view[c] : c \in Codes})

Init ==
    /\ log = <<>> /\ chain = 0 /\ faults = 0
    /\ joined = [k \in Socks |-> FALSE] /\ running = TRUE
    /\ zpc = "restore" /\ slot = 0 /\ lkv = Empty /\ arrived = 0
    /\ mpc = "wait" /\ inbox = <<>> /\ got = 0 /\ aligner = Empty
    /\ mchain = 0 /\ board = Empty /\ delivered = Empty

-----------------------------------------------------------------------------
(* The publisher and libzmq.                                               *)

\* A PUB socket never blocks: a socket that has not joined gets nothing, a
\* conflating socket forgets what it held, a full one drops the message.
Publish_KeepsOldest(c) ==
    LET i == Len(log) + 1 IN
    /\ i <= MaxTicks
    /\ log' = Append(log, c)
    /\ IF joined["zmq"]
       THEN slot' = (IF slot = 0 THEN i ELSE slot) /\ arrived' = i
       ELSE UNCHANGED <<slot, arrived>>
    /\ IF joined["monitor"] /\ Len(inbox) < HighWater
       THEN inbox' = Append(inbox, i) /\ delivered' = [delivered EXCEPT ![c] = i]
       ELSE UNCHANGED <<inbox, delivered>>
    /\ UNCHANGED <<chain, faults, joined, running, zpc, lkv, mpc,
                   got, aligner, mchain, board>>
Publish(c) ==
    LET i == Len(log) + 1 IN
    /\ i <= MaxTicks
    /\ log' = Append(log, c)
    /\ IF joined["zmq"] THEN slot' = i /\ arrived' = i
                        ELSE UNCHANGED <<slot, arrived>>
    /\ IF joined["monitor"] /\ Len(inbox) < HighWater
       THEN inbox' = Append(inbox, i) /\ delivered' = [delivered EXCEPT ![c] = i]
       ELSE UNCHANGED <<inbox, delivered>>
    /\ UNCHANGED <<chain, faults, joined, running, zpc, lkv, mpc,
                   got, aligner, mchain, board>>

\* libzmq connects, or connects again, in the background.
Join(k) ==
    /\ ~joined[k]
    /\ k = "zmq" => zpc = "recv"
    /\ k = "monitor" => mpc = "loop"
    /\ joined' = [joined EXCEPT ![k] = TRUE]
    /\ UNCHANGED <<log, chain, faults, running, zmqVars, monitorVars>>

\* The recorder restarts: the subscriptions are gone until libzmq is back.
PublisherRestart ==
    /\ faults < MaxFaults /\ faults' = faults + 1
    /\ \E k \in Socks : joined[k]
    /\ joined' = [k \in Socks |-> FALSE]
    /\ UNCHANGED <<log, chain, running, zmqVars, monitorVars>>

\* fetch_optionchain writes the file of a day.
NewChain ==
    /\ chain < MaxChain /\ chain' = chain + 1
    /\ UNCHANGED <<log, faults, joined, running, zmqVars, monitorVars>>

-----------------------------------------------------------------------------
(* Thread market-cache-zmq.                                                *)

\* Cold start: the snapshot file holds the codes in S.
Restore(S) ==
    /\ zpc = "restore"
    /\ lkv' = [c \in Codes |-> IF c \in S THEN Restored ELSE lkv[c]]
    /\ zpc' = "connect"
    /\ UNCHANGED <<feedVars, running, slot, arrived, monitorVars>>

Connect ==
    /\ zpc = "connect" /\ running
    /\ zpc' = "recv"
    /\ UNCHANGED <<feedVars, running, slot, lkv, arrived, monitorVars>>

\* In "recv" the thread waits for a message or is on its way through the test
\* of _running to the next one.  A receive under way when stop() is called still
\* takes its message, but goes no further than the test.
Recv ==
    /\ zpc = "recv" /\ slot # 0
    /\ lkv' = [lkv EXCEPT ![log[slot]] = slot] /\ slot' = 0
    /\ zpc' = IF running THEN "recv" ELSE "check"
    /\ UNCHANGED <<feedVars, running, arrived, monitorVars>>

\* A receive that raises: the socket is closed with what it holds, and a new
\* one is connected.
RecvRaises_Restores ==
    /\ zpc = "recv"
    /\ faults < MaxFaults /\ faults' = faults + 1
    /\ zpc' = "restore" /\ slot' = 0
    /\ arrived' = 0 /\ joined' = [joined EXCEPT !["zmq"] = FALSE]
    /\ UNCHANGED <<log, chain, running, lkv, monitorVars>>
RecvRaises ==
    /\ zpc = "recv"
    /\ faults < MaxFaults /\ faults' = faults + 1
    /\ zpc' = "connect" /\ slot' = 0
    /\ arrived' = 0 /\ joined' = [joined EXCEPT !["zmq"] = FALSE]
    /\ UNCHANGED <<log, chain, running, lkv, monitorVars>>

\* The test of _running: after a message, after half a second without one, or
\* before a connection.
ZmqEnds ==
    /\ zpc \in {"connect", "recv", "check"} /\ ~running
    /\ zpc' = "ended" /\ slot' = 0 /\ arrived' = 0
    /\ joined' = [joined EXCEPT !["zmq"] = FALSE]
    /\ UNCHANGED <<log, chain, faults, running, lkv, monitorVars>>

-----------------------------------------------------------------------------
(* Thread market-cache-monitor.                                            *)

\* It waits until the cache holds something, at most ten seconds.
MonitorStart ==
    /\ mpc = "wait" /\ running
    /\ mpc' = "init"
    /\ UNCHANGED <<feedVars, running, zmqVars, inbox, got, aligner, mchain,
                   board, delivered>>

\* init_strategy_and_contracts raises without a file of active contracts.
Usable == chain > 0

\* A new strategy, aligner and socket for the option chain of the day, tried
\* again every five seconds while it is not usable.
MonitorInit_KeepsAligner ==
    /\ mpc = "init" /\ running /\ Usable
    /\ mpc' = "loop" /\ mchain' = chain /\ got' = 0
    /\ inbox' = <<>> /\ delivered' = Empty
    /\ joined' = [joined EXCEPT !["monitor"] = FALSE]
    /\ UNCHANGED <<log, chain, faults, running, zmqVars, aligner, board>>
MonitorInit ==
    /\ mpc = "init" /\ running /\ Usable
    /\ mpc' = "loop" /\ mchain' = chain /\ got' = 0
    /\ aligner' = Empty /\ inbox' = <<>> /\ delivered' = Empty
    /\ joined' = [joined EXCEPT !["monitor"] = FALSE]
    /\ UNCHANGED <<log, chain, faults, running, zmqVars, board>>

\* The check for a new file, before a cycle starts.
FileChanged ==
    /\ mpc = "loop" /\ running /\ got = 0 /\ mchain # chain
    /\ mpc' = "init"
    /\ UNCHANGED <<feedVars, running, zmqVars, inbox, got, aligner, mchain,
                   board, delivered>>

\* parse_zmq_message rejects a message without a last price.
Parses(i) == log[i] \notin Untraded

\* TickAligner.update_tick.
Updated(view, i) == [view EXCEPT ![log[i]] = i]

MonitorRecv_NoLimit ==
    /\ mpc = "loop" /\ inbox # <<>>
    /\ LET i == Head(inbox) IN
       aligner' = IF Parses(i) THEN Updated(aligner, i) ELSE aligner
    /\ inbox' = Tail(inbox) /\ got' = got + 1
    /\ UNCHANGED <<feedVars, running, zmqVars, mpc, mchain, board, delivered>>
MonitorRecv ==
    /\ mpc = "loop" /\ inbox # <<>> /\ got < Batch
    /\ LET i == Head(inbox) IN
       aligner' = IF Parses(i) THEN Updated(aligner, i) ELSE aligner
    /\ inbox' = Tail(inbox) /\ got' = got + 1
    /\ UNCHANGED <<feedVars, running, zmqVars, mpc, mchain, board, delivered>>

\* The cycle ends with a full batch or after 100 ms without a message; without
\* any message the pairs are scanned every two seconds.
MonitorScan ==
    /\ mpc = "loop" /\ (got = Batch \/ inbox = <<>>)
    /\ board' = aligner /\ got' = 0
    /\ UNCHANGED <<feedVars, running, zmqVars, mpc, inbox, aligner, mchain, delivered>>

MonitorEnds_OnlyInLoop ==
    /\ mpc = "loop" /\ got = 0 /\ ~running
    /\ mpc' = "ended" /\ inbox' = <<>>
    /\ joined' = [joined EXCEPT !["monitor"] = FALSE]
    /\ UNCHANGED <<log, chain, faults, running, zmqVars,
                   got, aligner, mchain, board, delivered>>
MonitorEnds ==
    /\ mpc \in {"wait", "init", "loop"} /\ got = 0 /\ ~running
    /\ mpc' = "ended" /\ inbox' = <<>>
    /\ joined' = [joined EXCEPT !["monitor"] = FALSE]
    /\ UNCHANGED <<log, chain, faults, running, zmqVars,
                   got, aligner, mchain, board, delivered>>

-----------------------------------------------------------------------------
\* stop() of the dashboard's shutdown handler.
Stop ==
    /\ running /\ running' = FALSE
    /\ UNCHANGED <<feedVars, zmqVars, monitorVars>>

Environment ==
    \/ \E c \in Codes : Publish(c)
    \/ PublisherRestart \/ NewChain \/ RecvRaises \/ Stop
Steps ==
    \/ \E k \in Socks : Join(k)
    \/ \E S \in SUBSET Codes : Restore(S)
    \/ Connect \/ Recv \/ ZmqEnds
    \/ MonitorStart \/ MonitorInit \/ FileChanged
    \/ MonitorRecv \/ MonitorScan \/ MonitorEnds

Next == Environment \/ Steps

\* The threads run, and libzmq keeps connecting.
Fairness ==
    /\ \A k \in Socks : WF_vars(Join(k))
    /\ WF_vars(\E S \in SUBSET Codes : Restore(S))
    /\ WF_vars(Connect) /\ WF_vars(Recv) /\ WF_vars(ZmqEnds)
    /\ WF_vars(MonitorStart) /\ WF_vars(MonitorInit)
    /\ WF_vars(FileChanged) /\ WF_vars(MonitorRecv)
    /\ WF_vars(MonitorScan) /\ WF_vars(MonitorEnds)

Spec == Init /\ [][Next]_vars /\ Fairness

-----------------------------------------------------------------------------
Ticks == 0 .. MaxTicks
View == [Codes -> {NoTick} \cup Ticks]

TypeOK ==
    /\ log \in Seq(Codes) /\ Len(log) <= MaxTicks
    /\ chain \in 0 .. MaxChain /\ mchain \in 0 .. chain
    /\ faults \in 0 .. MaxFaults
    /\ joined \in [Socks -> BOOLEAN] /\ running \in BOOLEAN
    /\ zpc \in {"restore", "connect", "check", "recv", "ended"}
    /\ slot \in 0 .. Len(log) /\ arrived \in 0 .. Len(log)
    /\ {lkv, aligner, board, delivered} \subseteq View
    /\ mpc \in {"wait", "init", "loop", "ended"}
    /\ inbox \in Seq(1 .. Len(log)) /\ Len(inbox) <= HighWater
    /\ got \in 0 .. Batch

\* The cache implements the abstract feed: its newest tick never goes back,
\* whatever the conflating socket skips, loses or restores.
F == INSTANCE Feed WITH top <- Newest(lkv)
ImplementsFeed == F!FeedSpec

\* The last message that arrived is in the cache in the end, unless a later
\* one arrives or the socket is lost first.
ArrivalsLand == F!ArrivalsLand

\* Nothing is lost or reordered between the monitor's socket and its aligner,
\* and nothing of the option chain before survives a new one: a code's price
\* is the last one that socket accepted, unless that one still waits.
MonitorKeepsAll ==
    mpc = "loop" =>
        \A c \in Codes \ Untraded :
            aligner[c] = delivered[c] \/ delivered[c] \in ToSet(inbox)

\* After stop() both threads end.
ThreadsEnd == ~running ~> (zpc = "ended" /\ mpc = "ended")
=============================================================================
