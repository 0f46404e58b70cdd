------------------------------ MODULE VolSmile ------------------------------
(***************************************************************************)
(* The volatility smile on the page: the compute thread of                 *)
(* web/market_cache.py over the abstract Feed, the broadcast channel, and  *)
(* the handlers of the websocket /ws/vol_smile in web/dashboard.py.        *)
(*                                                                         *)
(* A result is named by the newest tick of the snapshot it was priced      *)
(* from.                                                                   *)
(***************************************************************************)
EXTENDS Feed, Broadcaster

CONSTANT Sockets    \* websocket connections to /ws/vol_smile, each used once

VARIABLES
    catalog,    \* the option chain file of the day is there
    cpc,        \* compute thread: wait, price, ended
    priced,     \* the snapshot it is pricing
    rich,       \* _rich_lkv
    peer,       \* socket -> the browser is away, here, left
    hpc,        \* socket -> its handler: none, greeting, reading, over
    shown       \* socket -> newest result its page was sent

computeVars == <<catalog, cpc, priced, rich>>
handlerVars == <<peer, hpc, shown>>
smileVars == <<feedVars, computeVars, handlerVars>>

SmileInit ==
    /\ FeedInit
    /\ catalog = FALSE /\ cpc = "wait" /\ priced = NoTick /\ rich = NoTick
    /\ peer = [s \in Sockets |-> "away"] /\ hpc = [s \in Sockets |-> "none"]
    /\ shown = [s \in Sockets |-> NoTick]

-----------------------------------------------------------------------------
(* Thread market-cache-compute.                                            *)

NewCatalog ==
    /\ ~catalog /\ catalog' = TRUE
    /\ UNCHANGED <<feedVars, channelVars, cpc, priced, rich, handlerVars>>

\* get_snapshot, once there is a catalog and the cache holds something.
ComputeSnap ==
    /\ cpc = "wait" /\ running /\ catalog /\ top # NoTick
    /\ cpc' = "price" /\ priced' = top
    /\ UNCHANGED <<feedVars, channelVars, catalog, rich, handlerVars>>

\* The result goes to _rich_lkv, then to the event loop.
ComputePublish_OnlyChanges ==
    /\ cpc = "price" /\ cpc' = "wait"
    /\ rich' = priced /\ priced' = NoTick
    /\ IF rich = priced THEN UNCHANGED calls ELSE Post(priced)
    /\ UNCHANGED <<feedVars, channel, queue, clients, castVars, catalog, handlerVars>>
ComputePublish ==
    /\ cpc = "price" /\ cpc' = "wait"
    /\ rich' = priced /\ priced' = NoTick
    /\ Post(priced)
    /\ UNCHANGED <<feedVars, channel, queue, clients, castVars, catalog, handlerVars>>

ComputeEnds ==
    /\ cpc = "wait" /\ ~running /\ cpc' = "ended"
    /\ UNCHANGED <<feedVars, channelVars, catalog, priced, rich, handlerVars>>

-----------------------------------------------------------------------------
(* ws_vol_smile, and the broadcaster's sends.                              *)

Show(s, i) == shown' = [shown EXCEPT ![s] = i]

\* The handler registers the socket and reads the rich snapshot; without one
\* it reads from the socket at once.  The snapshot counts as shown from here:
\* either the greeting gets through or the page is gone.
Accept(s) ==
    /\ running /\ peer[s] = "away"
    /\ peer' = [peer EXCEPT ![s] = "here"] /\ Register(s)
    /\ hpc' = [hpc EXCEPT ![s] = IF rich = NoTick THEN "reading" ELSE "greeting"]
    /\ Show(s, rich)
    /\ UNCHANGED <<feedVars, computeVars, channel, calls, queue, castVars>>

Greet(s) ==
    /\ hpc[s] = "greeting"
    /\ hpc' = [hpc EXCEPT ![s] = "reading"]
    /\ UNCHANGED <<feedVars, computeVars, channelVars, peer, shown>>

\* The greeting is outside the handler's try: when it raises, the socket stays
\* registered.
GreetingRaises(s) ==
    /\ hpc[s] = "greeting" /\ peer[s] = "left"
    /\ hpc' = [hpc EXCEPT ![s] = "over"]
    /\ UNCHANGED <<feedVars, computeVars, channelVars, peer, shown>>

HandlerEnds(s) ==
    /\ hpc[s] = "reading" /\ peer[s] = "left"
    /\ hpc' = [hpc EXCEPT ![s] = "over"] /\ Unregister(s)
    /\ UNCHANGED <<feedVars, computeVars, channel, calls, queue, castVars,
                   peer, shown>>

Leave(s) ==
    /\ peer[s] = "here"
    /\ peer' = [peer EXCEPT ![s] = "left"]
    /\ UNCHANGED <<feedVars, computeVars, channelVars, hpc, shown>>

\* A socket whose handler is over cannot be sent to; one whose peer is gone
\* may still take the message.
SendResult(s) ==
    /\ SendOk(s) /\ hpc[s] # "over"
    /\ Show(s, held)
    /\ UNCHANGED <<feedVars, computeVars, peer, hpc>>
SendRaises(s) ==
    /\ SendFails(s) /\ peer[s] = "left"
    /\ UNCHANGED smileVars

-----------------------------------------------------------------------------
FeedMoves ==
    /\ ColdStart \/ LoseSocket \/ \E i \in 1 .. MaxTicks : Arrive(i)
    /\ UNCHANGED <<computeVars, channelVars, handlerVars>>
FeedLands == Land /\ UNCHANGED <<computeVars, channelVars, handlerVars>>

\* The server shuts the application down after its last handler returned.
Shutdown ==
    /\ \A s \in Sockets : hpc[s] \in {"none", "over"}
    /\ StopFeed /\ UNCHANGED <<computeVars, channelVars, handlerVars>>

ComputeThread == ComputeSnap \/ ComputePublish \/ ComputeEnds
LoopRuns == channel = "vol_smile" /\ RunCall /\ UNCHANGED smileVars
SmileBroadcaster ==
    /\ channel = "vol_smile"
    /\ \/ (Take \/ Sweep) /\ UNCHANGED smileVars
       \/ \E s \in Sockets : SendResult(s) \/ SendRaises(s)
Handler(s) == Greet(s) \/ GreetingRaises(s) \/ HandlerEnds(s)

SmileNext ==
    /\ channel = "vol_smile"
    /\ \/ FeedMoves \/ FeedLands \/ NewCatalog \/ Shutdown
       \/ ComputeThread \/ LoopRuns \/ SmileBroadcaster
       \/ \E s \in Sockets : Accept(s) \/ Handler(s) \/ Leave(s)

allSmile == <<smileVars, channelVars>>

\* The threads and the tasks of the event loop run, the feed's until stop().  A send gets through or
\* raises: the server pings its peers and closes those that do not answer.
SmileFairness ==
    /\ WF_allSmile(running /\ FeedLands) /\ WF_allSmile(ComputeThread)
    /\ WF_allSmile(LoopRuns) /\ WF_allSmile(SmileBroadcaster)
    /\ \A s \in Sockets : WF_allSmile(Handler(s))

-----------------------------------------------------------------------------
SmileTypeOK ==
    /\ FeedTypeOK
    /\ catalog \in BOOLEAN /\ cpc \in {"wait", "price", "ended"}
    /\ {priced, rich} \subseteq NoTick .. MaxTicks
    /\ peer \in [Sockets -> {"away", "here", "left"}]
    /\ hpc \in [Sockets -> {"none", "greeting", "reading", "over"}]
    /\ shown \in [Sockets -> NoTick .. MaxTicks]

\* Every page that stays connected shows the last tick that arrived, or a later
\* one, in the end, although a full queue drops results: the cache is priced
\* again every 100 ms.
PagesCatchUp ==
    \A s \in Sockets : \A i \in 1 .. MaxTicks :
        (hpc[s] = "reading" /\ catalog /\ arrived = i)
            ~> (shown[s] >= i \/ peer[s] = "left" \/ arrived # i)

\* A socket whose greeting failed stays registered, but not for ever: the next
\* broadcasts find it dead.
GhostsAreSwept ==
    \A s \in Sockets :
        (peer[s] = "left" /\ running) ~> (s \notin clients \/ ~running)
=============================================================================
