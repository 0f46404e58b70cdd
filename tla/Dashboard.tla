----------------------------- MODULE Dashboard ------------------------------
(***************************************************************************)
(* The event loop of web/dashboard.py with one of its broadcast channels:  *)
(* the volatility smile over the market cache, or the backtest page over   *)
(* its workers.                                                            *)
(***************************************************************************)
EXTENDS VolSmile, BacktestTask

vars == <<channelVars, smileVars, taskVars>>

Init == ChannelInit /\ SmileInit /\ TaskInit

Next == \/ SmileNext /\ UNCHANGED taskVars
        \/ TaskNext /\ UNCHANGED smileVars

Spec == Init /\ [][Next]_vars /\ SmileFairness /\ TaskFairness

TypeOK ==
    /\ SmileTypeOK /\ TaskTypeOK
    /\ channel \in {"vol_smile", "backtest"}
    /\ Len(calls) <= CallsMax /\ Len(queue) <= QueueMax
    /\ clients \subseteq Sockets \cup Conns
    /\ {todo, dead} \subseteq SUBSET (Sockets \cup Conns)
    /\ bpc = "get" <=> held = NoMsg
=============================================================================
