------------------------------ MODULE DDEClient ------------------------------
(***************************************************************************)
(* The market data source: _DDEClient and DDEDirectSubscriber of           *)
(* data_bus/dde_direct_client.py, between the trading terminal (a DDE      *)
(* server, external) and the tick queue of the data bus.                   *)
(*                                                                         *)
(* The pump thread connects to one topic per code, then alternates between *)
(* dispatching the window messages that are waiting, each the value of one *)
(* field of one code, and emitting the codes they touched.  The bus thread *)
(* takes ticks from the queue and calls stop().                            *)
(***************************************************************************)
EXTENDS Integers, Sequences, FiniteSets

CONSTANTS
    Codes,      \* codes that have a topic in the wxy_*.xlsx files
    Known,      \* those that are ETFs or have an underlying in optionchain
    Fields,     \* fields that are advised, of _FIELD_MAP
    Sends,      \* bound: the updates the terminal may send, as <<code, field, value>>
    NoAsk,      \* the price that stands for "no seller" (999999 in the code)
    QueueMax,   \* capacity of the tick queue
    MaxPosts,   \* bound: field updates the terminal sends
    MaxRestarts \* bound: times the terminal goes away

PriceFields == Fields \cap {"ask1", "bid1"}
VolumeFields == Fields \cap {"askv1", "bidv1"}
VolumeOf(f) == IF f = "ask1" THEN "askv1" ELSE "bidv1"

NoVal == -1                     \* no such key in the state of the code
Blank == -2                     \* an XlTable BLANK or ERROR record
Sentinel(f) == IF f = "ask1" THEN NoAsk ELSE 0

ASSUME ConstantsOK ==
    /\ Known \subseteq Codes
    /\ Fields \subseteq {"last", "ask1", "bid1", "askv1", "bidv1"}
    /\ "last" \in Fields
    /\ \A f \in PriceFields : VolumeOf(f) \in Fields
    /\ Sends \subseteq Codes \X Fields \X (Nat \cup {Blank})
    /\ NoAsk \in Nat /\ MaxPosts \in Nat /\ MaxRestarts \in Nat
    /\ QueueMax \in Nat \ {0}

StateVals == Nat \cup {NoVal}
Message == [code : Codes, field : Fields, val : Nat \cup {Blank}]
Tick == [code : Codes, row : [Fields -> StateVals], upto : 0 .. MaxPosts]

VARIABLES
    \* the terminal
    served,     \* topics it answers
    links,      \* codes it sends changes of
    posts,      \* updates sent so far
    restarts,   \* times it went away
    \* the pump thread
    pump,       \* where it is
    todo,       \* topics left in this _connect_and_advise()
    convs,      \* _convs: codes with a conversation
    msgs,       \* window messages not yet dispatched
    state,      \* _market_state
    dirty,      \* _dirty_codes
    batch,      \* codes left in this _flush_dirty()
    \* shared with the bus thread
    queue,      \* the tick queue
    running,    \* _running
    stopper,    \* stop(): not called, joining the pump thread, returned
    \* history, read by no action
    applied,    \* code -> updates dispatched so far when it was last updated
    done,       \* updates dispatched so far
    sent,       \* code -> value of applied in the last tick emitted for it
    dropped     \* codes whose last tick found the queue full

serverVars == <<served, links, posts, restarts>>
pumpVars == <<pump, todo, convs, batch>>
dataVars == <<msgs, state, dirty, applied, done>>
outVars == <<queue, sent, dropped>>
vars == <<serverVars, pumpVars, dataVars, outVars, running, stopper>>

Init ==
    /\ served \in SUBSET Codes /\ links = {} /\ posts = 0 /\ restarts = 0
    /\ pump = "init" /\ todo = {} /\ convs = {} /\ batch = {}
    /\ msgs = <<>> /\ dirty = {}
    /\ state = [c \in Codes |-> [f \in Fields |-> NoVal]]
    /\ applied = [c \in Codes |-> 0] /\ done = 0
    /\ queue = <<>> /\ sent = [c \in Codes |-> 0] /\ dropped = {}
    /\ running = TRUE /\ stopper = "none"

-----------------------------------------------------------------------------
(* The trading terminal.                                                   *)

\* The terminal comes up, or loads another contract.
Serve(c) ==
    /\ c \notin served
    /\ served' = served \cup {c}
    /\ UNCHANGED <<links, posts, restarts, pumpVars, dataVars, outVars,
                   running, stopper>>

\* The terminal exits.  DDEML reports XTYP_DISCONNECT, which the callback does
\* not handle: the client keeps its conversations.
GoAway ==
    /\ served # {} /\ restarts < MaxRestarts
    /\ served' = {} /\ links' = {} /\ restarts' = restarts + 1
    /\ UNCHANGED <<posts, pumpVars, dataVars, outVars, running, stopper>>

\* One field of one code changes: one window message.
Post(c, f, v) ==
    /\ <<c, f, v>> \in Sends /\ c \in links /\ posts < MaxPosts
    /\ posts' = posts + 1
    /\ msgs' = Append(msgs, [code |-> c, field |-> f, val |-> v])
    /\ UNCHANGED <<served, links, restarts, pumpVars, state, dirty, applied,
                   done, outVars, running, stopper>>

-----------------------------------------------------------------------------
(* The pump thread: connecting.                                            *)

\* DdeInitializeW; when it fails the thread is over although start() said yes.
Initialize ==
    /\ pump = "init"
    /\ \/ pump' = "pump" /\ todo' = Codes
       \/ pump' = "closed" /\ UNCHANGED todo
    /\ UNCHANGED <<serverVars, convs, batch, dataVars, outVars, running,
                   stopper>>

\* _pump_messages() returns when no message is waiting.
PumpReturns ==
    /\ pump = "pump" /\ msgs = <<>>
    /\ pump' = "connect"
    /\ UNCHANGED <<serverVars, todo, convs, batch, dataVars, outVars, running,
                   stopper>>

\* DdeConnect succeeds and the fields are advised.  The results of the ADVSTART
\* transactions are not looked at: one that failed shows in the model as a
\* field the terminal sends no change of.
Connect(c) ==
    /\ pump = "connect" /\ c \in todo /\ c \in served
    /\ todo' = todo \ {c} /\ convs' = convs \cup {c}
    /\ links' = links \cup {c}
    /\ pump' = "pump"
    /\ UNCHANGED <<served, posts, restarts, batch, dataVars, outVars, running,
                   stopper>>

ConnectFails(c) ==
    /\ pump = "connect" /\ c \in todo /\ c \notin served
    /\ todo' = todo \ {c}
    /\ pump' = "pump"
    /\ UNCHANGED <<serverVars, convs, batch, dataVars, outVars, running,
                   stopper>>

\* _close_ddeml()
Close ==
    /\ pump' = "closed" /\ convs' = {} /\ links' = {}

\* All topics were tried: the loop starts as soon as one answered.
Connected_AlwaysLoops ==
    /\ pump = "connect" /\ todo = {}
    /\ IF running
       THEN pump' = "loop" /\ UNCHANGED <<convs, links>>
       ELSE Close
    /\ UNCHANGED <<served, posts, restarts, todo, batch, dataVars, outVars,
                   running, stopper>>
Connected ==
    /\ pump = "connect" /\ todo = {}
    /\ IF running
       THEN /\ pump' = (IF convs = {} THEN "wait" ELSE "loop")
            /\ UNCHANGED <<convs, links>>
       ELSE Close
    /\ UNCHANGED <<served, posts, restarts, todo, batch, dataVars, outVars,
                   running, stopper>>

\* The retry interval is over: all topics are tried again.  stop() ends it.
Retry ==
    /\ pump = "wait" /\ msgs = <<>>
    /\ IF running
       THEN pump' = "pump" /\ todo' = Codes /\ UNCHANGED <<convs, links>>
       ELSE Close /\ UNCHANGED todo
    /\ UNCHANGED <<served, posts, restarts, batch, dataVars, outVars, running,
                   stopper>>

-----------------------------------------------------------------------------
(* The pump thread: receiving and emitting.                                *)

\* _update_state: the state of the code after field f was sent as v.
Updated_StoresBlank(st, f, v) == [st EXCEPT ![f] = v]
Updated(st, f, v) ==
    IF v # Blank THEN [st EXCEPT ![f] = v]
    ELSE IF f \in PriceFields
         THEN [st EXCEPT ![f] = Sentinel(f), ![VolumeOf(f)] = 0]
         ELSE [st EXCEPT ![f] = 0]

Dispatch_LastNotDirty ==
    /\ pump \in {"pump", "wait", "loop"} /\ msgs # <<>>
    /\ msgs' = Tail(msgs) /\ done' = done + 1
    /\ LET m == Head(msgs)
       IN  IF m.field = "last" /\ m.val = Blank
           THEN UNCHANGED <<state, dirty, applied>>
           ELSE /\ state' = [state EXCEPT ![m.code] = Updated(@, m.field, m.val)]
                /\ dirty' = IF m.field = "last" THEN dirty ELSE dirty \cup {m.code}
                /\ applied' = [applied EXCEPT ![m.code] = done + 1]
    /\ UNCHANGED <<serverVars, pumpVars, outVars, running, stopper>>

\* _dde_callback: a BLANK last price changes nothing.
Dispatch ==
    /\ pump \in {"pump", "wait", "loop"} /\ msgs # <<>>
    /\ msgs' = Tail(msgs) /\ done' = done + 1
    /\ LET m == Head(msgs)
       IN  IF m.field = "last" /\ m.val = Blank
           THEN UNCHANGED <<state, dirty, applied>>
           ELSE /\ state' = [state EXCEPT ![m.code] = Updated(@, m.field, m.val)]
                /\ dirty' = dirty \cup {m.code}
                /\ applied' = [applied EXCEPT ![m.code] = done + 1]
    /\ UNCHANGED <<serverVars, pumpVars, outVars, running, stopper>>

BeginFlush_SkipsWhenFull ==
    /\ pump = "loop" /\ msgs = <<>>
    /\ pump' = "flush" /\ batch' = (IF Len(queue) < QueueMax THEN dirty ELSE {})
    /\ UNCHANGED <<serverVars, todo, convs, dataVars, outVars, running,
                   stopper>>

\* No message is waiting: _flush_dirty().
BeginFlush ==
    /\ pump = "loop" /\ msgs = <<>>
    /\ pump' = "flush" /\ batch' = dirty
    /\ UNCHANGED <<serverVars, todo, convs, dataVars, outVars, running,
                   stopper>>

Quoted(st) == \E f \in PriceFields : st[f] # NoVal
Traded(st) == st["last"] > 0

\* What makes a tick of a code: a price on either side (_flush_dirty), a known
\* underlying (_on_tick) and a valid last price (_emit_option_tick).  Volumes do
\* not matter, and one changed field is enough: the trigger of
\* docs/dde_dataflow.md (both prices, the last and a volume, then a cleared
\* buffer) is not that of the code.
Emits(c) == c \in Known /\ Quoted(state[c]) /\ Traded(state[c])

\* _f and _i: a missing price is NaN (NoVal), a missing volume is 0.
RowOf(st) ==
    [f \in Fields |-> IF f \in VolumeFields /\ st[f] = NoVal THEN 0 ELSE st[f]]

\* put_nowait: a full queue drops the tick, silently.
EmitCode(c) ==
    /\ pump = "flush" /\ c \in batch
    /\ batch' = batch \ {c}
    /\ IF ~Emits(c)
       THEN UNCHANGED outVars
       ELSE IF Len(queue) < QueueMax
       THEN /\ queue' = Append(queue, [code |-> c, row |-> RowOf(state[c]),
                                       upto |-> applied[c]])
            /\ sent' = [sent EXCEPT ![c] = applied[c]]
            /\ dropped' = dropped \ {c}
       ELSE dropped' = dropped \cup {c} /\ UNCHANGED <<queue, sent>>
    /\ UNCHANGED <<serverVars, pump, todo, convs, dataVars, running, stopper>>

\* The codes that were skipped are cleared with the ones that were sent.
FlushReturns_KeepsDirty ==
    /\ pump = "flush" /\ batch = {}
    /\ IF running THEN pump' = "loop" /\ UNCHANGED <<convs, links>> ELSE Close
    /\ UNCHANGED <<served, posts, restarts, todo, batch, dataVars, outVars,
                   running, stopper>>
FlushReturns_IgnoresStop ==
    /\ pump = "flush" /\ batch = {}
    /\ dirty' = {} /\ pump' = "loop"
    /\ UNCHANGED <<serverVars, todo, convs, batch, msgs, state, applied, done,
                   outVars, running, stopper>>
FlushReturns ==
    /\ pump = "flush" /\ batch = {}
    /\ dirty' = {}
    /\ IF running THEN pump' = "loop" /\ UNCHANGED <<convs, links>> ELSE Close
    /\ UNCHANGED <<served, posts, restarts, todo, batch, msgs, state, applied,
                   done, outVars, running, stopper>>

-----------------------------------------------------------------------------
(* The bus thread.                                                         *)

Take ==
    /\ queue # <<>>
    /\ queue' = Tail(queue)
    /\ UNCHANGED <<serverVars, pumpVars, dataVars, sent, dropped, running,
                   stopper>>

Stop ==
    /\ stopper = "none"
    /\ running' = FALSE /\ stopper' = "joining"
    /\ UNCHANGED <<serverVars, pumpVars, dataVars, outVars>>

\* join(timeout=5.0): only the connection pass can take longer than that.
JoinReturns ==
    /\ stopper = "joining" /\ pump \in {"closed", "pump", "connect"}
    /\ stopper' = "returned"
    /\ UNCHANGED <<serverVars, pumpVars, dataVars, outVars, running>>

-----------------------------------------------------------------------------
PumpStep ==
    \/ Initialize \/ PumpReturns \/ Connected \/ Retry
    \/ \E c \in Codes : Connect(c) \/ ConnectFails(c)
    \/ Dispatch \/ BeginFlush \/ FlushReturns
    \/ \E c \in Codes : EmitCode(c)

Next ==
    \/ \E c \in Codes : Serve(c)
    \/ GoAway
    \/ \E m \in Sends : Post(m[1], m[2], m[3])
    \/ PumpStep
    \/ Take \/ Stop \/ JoinReturns

Spec == Init /\ [][Next]_vars

\* The pump thread never blocks and the bus loop never stops draining.
FairSpec ==
    Spec /\ WF_vars(PumpStep) /\ WF_vars(Take) /\ WF_vars(JoinReturns)

-----------------------------------------------------------------------------
PumpValues == {"init", "pump", "connect", "wait", "loop", "flush", "closed"}

\* Type invariant.  In particular the state of a code never holds anything but
\* a value that was sent, a sentinel, or nothing: a BLANK never gets in.
TypeOK ==
    /\ served \subseteq Codes /\ links \subseteq Codes
    /\ posts \in 0 .. MaxPosts /\ restarts \in 0 .. MaxRestarts
    /\ pump \in PumpValues
    /\ todo \subseteq Codes /\ convs \subseteq Codes /\ batch \subseteq Codes
    /\ msgs \in Seq(Message) /\ dirty \subseteq Codes
    /\ state \in [Codes -> [Fields -> StateVals]]
    /\ queue \in Seq(Tick) /\ Len(queue) <= QueueMax
    /\ running \in BOOLEAN /\ stopper \in {"none", "joining", "returned"}
    /\ done + Len(msgs) = posts /\ done \in Nat
    /\ applied \in [Codes -> 0 .. done] /\ sent \in [Codes -> 0 .. done]
    /\ dropped \subseteq Codes

\* The codes a flush, the running one or the next, will still look at.
Pending == IF pump = "flush" THEN batch ELSE dirty

\* Clearing the dirty set after a round that skipped some codes forgets
\* nothing: whatever order fields, rounds and the bus come in, a code that can
\* be emitted and is not waiting for a flush was last emitted with its present
\* state, unless the queue was full at that moment.
NothingForgotten ==
    \A c \in Codes \ Pending :
        Emits(c) => sent[c] = applied[c] \/ c \in dropped

\* A tick shows an update that no earlier tick of its code showed: a round
\* never sends a code again that did not change, nor an older state of it.
EachTickIsNewer ==
    [][Len(queue') > Len(queue) =>
          LET t == queue'[Len(queue')] IN t.upto > sent[t.code]]_vars

\* An update of a code that can be emitted is emitted, or dropped at the full
\* queue, as long as the pump thread lives.  "Can be emitted" is the condition of
\* _flush_dirty (711) and the subscriber, not that of docs/dde_dataflow.md (136,
\* 180): a tick whose volumes have not arrived, and one for a single changed
\* field, are emitted too.
UpdatesAreEmitted ==
    \A c \in Codes :
        Emits(c) /\ sent[c] < applied[c] ~>
            \/ sent[c] = applied[c] \/ c \in dropped
            \/ ~Emits(c) \/ pump = "closed"

\* A client without any conversation keeps trying: it connects once the
\* terminal answers, if it is not stopped.
RetryConnects ==
    convs = {} /\ pump # "closed" /\ served # {} ~>
        convs # {} \/ ~running \/ served = {} \/ pump = "closed"

\* stop() ends the pump thread in whatever phase it finds it, and itself
\* returns.
StopEndsPump == ~running ~> pump = "closed" /\ stopper = "returned"

\* _flush_dirty, lines 702 and 710: a code is sent as soon as it has a bid or an
\* ask, "whether or not it has a last price", to support quoted contracts that
\* have not traded.
QuotedIsEmitted ==
    \A c \in Known \ Pending :
        Quoted(state[c]) => sent[c] # 0 \/ c \in dropped
=============================================================================
