---------------------------- MODULE BacktestTask ----------------------------
(***************************************************************************)
(* A backtest as the page sees it: the HTTP endpoints of web/dashboard.py, *)
(* the worker thread that runs BacktestService.run, the callbacks through  *)
(* which it reports, and the page of web/templates/backtest.html with the  *)
(* websocket it opens anew whenever the last one closed.  What the days    *)
(* compute is in Backtest.                                                 *)
(***************************************************************************)
EXTENDS Broadcaster

CONSTANTS
    Tasks,      \* task ids
    Days,       \* trading days of a task
    MaxConns,   \* bound: websockets the page opens
    MaxOthers,  \* bound: verdicts about tasks of other pages
    NoTask      \* a task this page did not start

ASSUME TaskConstantsOK ==
    /\ {Days, MaxConns} \subseteq Nat \ {0} /\ MaxOthers \in Nat
    /\ NoTask \notin Tasks

VARIABLES
    status,     \* task -> task.status; "none" before it exists
    outcome,    \* task -> which of task.result and task.error is set
    asking,     \* tasks whose cancel request has seen a live status
    wanted,     \* tasks with cancel_requested
    wpc,        \* task -> worker: idle, queued, days, analyse, finish, tell, over
    day,        \* task -> days started
    conn, link, \* the page's last websocket, and whether it is down, opening, up
    posted,     \* tasks whose /run response the page has not seen
    pageTask,   \* currentTaskId
    others,     \* counts the verdicts about other pages' tasks
    isRunning,  \* the page's button says "stop"
    missed      \* history: tasks whose verdict did not reach a page that waits

workerVars == <<status, outcome, wpc, day>>
pageVars == <<conn, link, posted, pageTask, isRunning>>
taskVars == <<workerVars, asking, wanted, pageVars, others, missed>>

Verdicts == {"result", "error", "cancelled"}
VerdictOf == [done |-> "result", error |-> "error", cancelled |-> "cancelled"]
Over(t) == status[t] \in DOMAIN VerdictOf
Msg(t, type) == [task |-> t, type |-> type]
IsVerdict(m) == m.type \in Verdicts
Misses(m) ==
    missed' = IF IsVerdict(m) THEN missed \cup ({m.task} \cap Tasks) ELSE missed

TaskInit ==
    /\ status = [t \in Tasks |-> "none"] /\ outcome = [t \in Tasks |-> "none"]
    /\ asking = {} /\ wanted = {}
    /\ wpc = [t \in Tasks |-> "idle"] /\ day = [t \in Tasks |-> 0]
    /\ conn = 0 /\ link = "down" /\ posted = {} /\ pageTask = NoTask
    /\ isRunning = FALSE /\ others = 0 /\ missed = {}

-----------------------------------------------------------------------------
(* The worker: _run_in_thread over BacktestService.run.                    *)

WorkerStart(t) ==
    /\ wpc[t] = "queued"
    /\ wpc' = [wpc EXCEPT ![t] = "days"]
    /\ status' = [status EXCEPT ![t] = "running"]
    /\ UNCHANGED <<outcome, day, calls>>

\* The next day, unless a cancel was requested; its progress is reported.
DayStart_Unchecked(t) ==
    /\ wpc[t] = "days" /\ day[t] < Days
    /\ day' = [day EXCEPT ![t] = @ + 1]
    /\ Post(Msg(t, "progress"))
    /\ UNCHANGED <<status, outcome, wpc>>
DayStart(t) ==
    /\ wpc[t] = "days" /\ day[t] < Days /\ t \notin wanted
    /\ day' = [day EXCEPT ![t] = @ + 1]
    /\ Post(Msg(t, "progress"))
    /\ UNCHANGED <<status, outcome, wpc>>

\* The check before a day, or one of the checks every 1000 ticks within it.
Cancel_Unreported(t) ==
    /\ wpc[t] = "days" /\ t \in wanted
    /\ status' = [status EXCEPT ![t] = "cancelled"]
    /\ wpc' = [wpc EXCEPT ![t] = "over"]
    /\ UNCHANGED <<outcome, day, calls>>
Cancel(t) ==
    /\ wpc[t] = "days" /\ t \in wanted
    /\ status' = [status EXCEPT ![t] = "cancelled"]
    /\ wpc' = [wpc EXCEPT ![t] = "tell"]
    /\ UNCHANGED <<outcome, day, calls>>

\* Any other exception of the run: task.error, then the status.
Fail(t) ==
    /\ wpc[t] \in {"days", "analyse"}
    /\ outcome' = [outcome EXCEPT ![t] = "error"]
    /\ wpc' = [wpc EXCEPT ![t] = "finish"]
    /\ UNCHANGED <<status, day, calls>>

\* After the last day nothing looks at the cancel request any more.
Analyse(t) ==
    /\ wpc[t] = "days" /\ day[t] = Days
    /\ wpc' = [wpc EXCEPT ![t] = "analyse"]
    /\ Post(Msg(t, "progress"))
    /\ UNCHANGED <<status, outcome, day>>

Finish_StatusFirst(t) ==
    /\ wpc[t] = "analyse"
    /\ status' = [status EXCEPT ![t] = "done"]
    /\ wpc' = [wpc EXCEPT ![t] = "finish"]
    /\ UNCHANGED <<outcome, day, calls>>
Finish(t) ==
    /\ wpc[t] = "analyse"
    /\ outcome' = [outcome EXCEPT ![t] = "result"]
    /\ wpc' = [wpc EXCEPT ![t] = "finish"]
    /\ UNCHANGED <<status, day, calls>>

SetStatus(t) ==
    /\ wpc[t] = "finish"
    /\ status' = [status EXCEPT ![t] =
                    IF outcome[t] = "result" THEN "done" ELSE "error"]
    /\ wpc' = [wpc EXCEPT ![t] = "tell"]
    /\ UNCHANGED <<outcome, day, calls>>

Tell(t) ==
    /\ wpc[t] = "tell"
    /\ Post(Msg(t, VerdictOf[status[t]]))
    /\ wpc' = [wpc EXCEPT ![t] = "over"]
    /\ UNCHANGED <<status, outcome, day>>

WorkerRuns(t) ==
    /\ \/ WorkerStart(t) \/ DayStart(t) \/ Cancel(t) \/ Analyse(t)
       \/ Finish(t) \/ SetStatus(t) \/ Tell(t)
    /\ UNCHANGED <<queue, clients, castVars, asking, wanted, pageVars,
                   others, missed, channel>>
WorkerFails(t) ==
    /\ Fail(t)
    /\ UNCHANGED <<queue, clients, castVars, asking, wanted, pageVars,
                   others, missed, channel>>

-----------------------------------------------------------------------------
(* The endpoints, called by the page.                                      *)

\* A click on "start": the page connects if it has no open socket, and posts.
\* The button is not locked while the answer is on its way.
ClickStart(t) ==
    /\ ~isRunning /\ status[t] = "none"
    /\ link = "down" => conn < MaxConns
    /\ IF link = "down" THEN conn' = conn + 1 /\ link' = "opening"
                        ELSE UNCHANGED <<conn, link>>
    /\ status' = [status EXCEPT ![t] = "pending"]
    /\ wpc' = [wpc EXCEPT ![t] = "queued"]
    /\ posted' = posted \cup {t}
    /\ UNCHANGED <<outcome, day, asking, wanted, pageTask, isRunning, others,
                   missed, channelVars>>

Respond(t) ==
    /\ t \in posted /\ posted' = posted \ {t}
    /\ pageTask' = t /\ isRunning' = TRUE
    /\ UNCHANGED <<workerVars, asking, wanted, conn, link, others, missed, channelVars>>

\* A click on "stop": backtest_cancel reads the status, then sets the flag; the
\* worker may finish in between.
ClickStop ==
    /\ isRunning /\ status[pageTask] \in {"pending", "running"}
    /\ pageTask \notin asking \cup wanted
    /\ asking' = asking \cup {pageTask}
    /\ UNCHANGED <<workerVars, wanted, pageVars, others, missed, channelVars>>
SetCancel(t) ==
    /\ t \in asking /\ asking' = asking \ {t} /\ wanted' = wanted \cup {t}
    /\ UNCHANGED <<workerVars, pageVars, others, missed, channelVars>>

-----------------------------------------------------------------------------
(* The websocket /ws/backtest.                                             *)

Reconnect ==
    /\ link = "down" /\ conn \in 1 .. MaxConns - 1
    /\ conn' = conn + 1 /\ link' = "opening"
    /\ UNCHANGED <<workerVars, asking, wanted, posted, pageTask, isRunning,
                   others, missed, channelVars>>
AcceptPage ==
    /\ link = "opening" /\ link' = "up" /\ Register(conn)
    /\ UNCHANGED <<workerVars, asking, wanted, conn, posted, pageTask, isRunning,
                   others, missed, channel, calls, queue, castVars>>
LinkDown ==
    /\ link = "up" /\ link' = "down"
    /\ IF conn \in todo THEN Misses(held) ELSE UNCHANGED missed
    /\ UNCHANGED <<workerVars, asking, wanted, conn, posted, pageTask, isRunning,
                   others, channelVars>>
Listens(n) == n = conn /\ link = "up"
PageHandlerEnds(n) ==
    /\ n \in clients /\ ~Listens(n) /\ Unregister(n)
    /\ UNCHANGED <<taskVars, channel, calls, queue, castVars>>

-----------------------------------------------------------------------------
(* The way of a message to the page.                                       *)

\* A task of another page ends: its verdict goes to every page.
OtherVerdict ==
    /\ others < MaxOthers /\ others' = others + 1
    /\ Post(Msg(NoTask, "result"))
    /\ UNCHANGED <<workerVars, asking, wanted, pageVars, missed, channel, queue,
                   clients, castVars>>

RunTaskCall ==
    /\ channel = "backtest" /\ RunCall
    /\ IF Len(queue) = QueueMax THEN Misses(Head(calls)) ELSE UNCHANGED missed
    /\ UNCHANGED <<workerVars, asking, wanted, pageVars, others>>
TakeMessage ==
    /\ Take
    /\ IF Listens(conn) /\ conn \in clients THEN UNCHANGED missed ELSE Misses(Head(queue))
    /\ UNCHANGED <<workerVars, asking, wanted, pageVars, others>>
SweepPages == Sweep /\ UNCHANGED taskVars

\* Any verdict ends the waiting, whatever task it is about.  One that comes
\* before the answer to /run is forgotten when the answer comes.
SendMessage(n) ==
    /\ SendOk(n)
    /\ IF Listens(n)
       THEN /\ isRunning' = (isRunning /\ ~IsVerdict(held))
            /\ IF held.task \in posted THEN Misses(held) ELSE UNCHANGED missed
       ELSE UNCHANGED <<isRunning, missed>>
    /\ UNCHANGED <<workerVars, asking, wanted, conn, link, posted, pageTask, others>>
SendToPageFails(n) ==
    /\ SendFails(n) /\ ~Listens(n)
    /\ UNCHANGED taskVars

Conns == 1 .. MaxConns
TaskBroadcaster ==
    /\ channel = "backtest"
    /\ \/ TakeMessage \/ SweepPages
       \/ \E n \in Conns : SendMessage(n) \/ SendToPageFails(n)

TaskNext ==
    /\ channel = "backtest"
    /\ \/ \E t \in Tasks : \/ WorkerRuns(t) \/ WorkerFails(t)
                           \/ ClickStart(t) \/ Respond(t) \/ SetCancel(t)
       \/ ClickStop \/ Reconnect \/ AcceptPage \/ LinkDown
       \/ \E n \in Conns : PageHandlerEnds(n)
       \/ OtherVerdict \/ RunTaskCall \/ TaskBroadcaster

allTask == <<taskVars, channelVars>>

\* The workers and the tasks of the event loop run.
TaskFairness ==
    /\ \A t \in Tasks : WF_allTask(WorkerRuns(t))
    /\ WF_allTask(RunTaskCall) /\ WF_allTask(TaskBroadcaster)

-----------------------------------------------------------------------------
TaskTypeOK ==
    /\ status \in [Tasks -> {"none", "pending", "running", "done", "error",
                             "cancelled"}]
    /\ outcome \in [Tasks -> {"none", "result", "error"}]
    /\ {asking, wanted, posted, missed} \subseteq SUBSET Tasks
    /\ wpc \in [Tasks -> {"idle", "queued", "days", "analyse", "finish",
                          "tell", "over"}]
    /\ day \in [Tasks -> 0 .. Days]
    /\ conn \in 0 .. MaxConns /\ link \in {"down", "opening", "up"}
    /\ others \in 0 .. MaxOthers
    /\ pageTask \in Tasks \cup {NoTask} /\ isRunning \in BOOLEAN

\* No message and no status announces what is not there: a task that says done
\* has its result, and a verdict on its way is the status of its task.
OnTheWay ==
    {calls[i] : i \in DOMAIN calls} \cup {queue[i] : i \in DOMAIN queue}
        \cup (IF bpc = "send" THEN {held} ELSE {})
VerdictsAreTrue ==
    /\ \A t \in Tasks : status[t] \in {"done", "error"} =>
            outcome[t] = VerdictOf[status[t]]
    /\ channel = "backtest" => \A m \in OnTheWay : (IsVerdict(m) /\ m.task \in Tasks) =>
            Over(m.task) /\ m.type = VerdictOf[status[m.task]]

\* A page that waits for a task that is over learns it, unless its verdict was
\* dropped by the full queue, found no open socket, or overtook the answer.
PageLearns ==
    \A t \in Tasks :
        (isRunning /\ pageTask = t /\ Over(t))
            ~> (~isRunning \/ pageTask # t \/ t \in missed)

\* A cancel request the worker can still see before a day ends the task: no
\* result comes of it.
CancelIsHonoured ==
    \A t \in Tasks :
        (t \in wanted /\ wpc[t] = "days" /\ day[t] < Days)
            ~> status[t] \in {"cancelled", "error"}
=============================================================================
