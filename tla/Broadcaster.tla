---------------------------- MODULE Broadcaster ----------------------------
(***************************************************************************)
(* One broadcast channel of web/dashboard.py: a bounded asyncio queue, the *)
(* set of connected sockets and the task that copies every message of the  *)
(* queue to all of them.  The dashboard has three (volatility smile, PCP   *)
(* monitor, backtest) with the same code.  Everything runs on the event    *)
(* loop, so a step ends where the code awaits.  What a send does to the    *)
(* receiver is added by the modules that extend this one.  The channels    *)
(* share no state, so a behaviour is about one of them.                    *)
(***************************************************************************)
EXTENDS Naturals, Sequences

CONSTANTS
    Channels,   \* the channels looked at
    QueueMax,   \* maxsize of the asyncio queue
    CallsMax,   \* bound: callbacks waiting in the event loop
    NoMsg       \* the broadcaster holds no message

ASSUME ChannelConstantsOK == {QueueMax, CallsMax} \subseteq Nat \ {0}

VARIABLES
    channel,    \* the channel this behaviour is about
    calls,      \* callbacks other threads handed to the event loop
    queue,      \* the asyncio queue
    clients,    \* the set of sockets registered by the handlers
    bpc,        \* the broadcaster awaits a "get" or "send"s
    held,       \* the message it took
    todo,       \* sockets of the copied set it has not sent to
    dead        \* sockets whose send raised

channelVars == <<channel, calls, queue, clients, bpc, held, todo, dead>>
castVars == <<bpc, held, todo, dead>>

ChannelInit ==
    /\ channel \in Channels
    /\ calls = <<>> /\ queue = <<>> /\ clients = {}
    /\ bpc = "get" /\ held = NoMsg /\ todo = {} /\ dead = {}

\* call_soon_threadsafe, from another thread.
Post(m) == Len(calls) < CallsMax /\ calls' = Append(calls, m)

\* _try_put: a full queue drops the new message.
TryPut_Unbounded(m) == queue' = Append(queue, m)
TryPut(m) == queue' = IF Len(queue) < QueueMax THEN Append(queue, m) ELSE queue

RunCall ==
    /\ calls # <<>> /\ calls' = Tail(calls) /\ TryPut(Head(calls))
    /\ UNCHANGED <<channel, clients, castVars>>

\* The broadcaster takes a message and copies the set of sockets; with nobody
\* connected the message is dropped.
Take ==
    /\ bpc = "get" /\ queue # <<>>
    /\ queue' = Tail(queue)
    /\ IF clients = {}
       THEN UNCHANGED castVars
       ELSE bpc' = "send" /\ held' = Head(queue) /\ todo' = clients /\ dead' = {}
    /\ UNCHANGED <<channel, calls, clients>>

SendOk(s) ==
    /\ bpc = "send" /\ s \in todo
    /\ todo' = todo \ {s}
    /\ UNCHANGED <<channel, calls, queue, clients, bpc, held, dead>>

\* A send that raises marks the socket and goes on with the next.
SendFails_Ignored(s) ==
    /\ bpc = "send" /\ s \in todo
    /\ todo' = todo \ {s}
    /\ UNCHANGED <<channel, calls, queue, clients, bpc, held, dead>>
SendFails(s) ==
    /\ bpc = "send" /\ s \in todo
    /\ todo' = todo \ {s} /\ dead' = dead \cup {s}
    /\ UNCHANGED <<channel, calls, queue, clients, bpc, held>>

\* All are served: the sockets whose send raised leave the set.
Sweep ==
    /\ bpc = "send" /\ todo = {}
    /\ clients' = clients \ dead /\ dead' = {}
    /\ bpc' = "get" /\ held' = NoMsg
    /\ UNCHANGED <<channel, calls, queue, todo>>

Register(s) == clients' = clients \cup {s}
Unregister(s) == clients' = clients \ {s}
=============================================================================
