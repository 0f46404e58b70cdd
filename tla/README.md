# DeltaZero: a verification project

DeltaZero records option and ETF ticks that a trading terminal serves over
Windows DDE, keeps them as Parquet files, feeds monitors in a web dashboard,
and backtests a put-call-parity (PCP) arbitrage strategy on the recorded ticks.
This directory holds TLA+ models of the parts of it whose correctness depends
on the order of events, TLC configurations that check them on small instances,
and TLAPS proofs of the properties that matter most.

    tlc  -workers 2 -config RecorderSafety.cfg MCRecorder.tla
    tlc  -workers 2 -config Backtest.cfg MCBacktest.tla
    tlapm BacktestProofs.tla

`PROJECT.json` lists the runs, the lines of code each definition models, the
hazards, the mutants that show each property can fail, and the findings.

## 1. Inventory

| component | code | state | operations | talks to |
|---|---|---|---|---|
| DDE client and subscriber | `data_bus/dde_direct_client.py` | conversations, per-code field state, dirty set, running flag | connect pass, retry, dispatch a message, flush the dirty codes, stop | terminal (DDE messages), tick queue |
| recorder loop | `data_bus/bus.py` | tick queue, `merge_done_today`, loop locals | drain, flush, daily merge, exit path of Ctrl+C and of exceptions | queue, Parquet writer, ZMQ publisher |
| Parquet writer | `data_bus/parquet_writer.py` | two buffers, snapshot, last flush time; chunk, day and snapshot files | write a tick, flush, merge a day | file system |
| ZMQ publisher | `data_bus/zmq_publisher.py` | a PUB socket | send | market cache |
| market cache | `web/market_cache.py` | last values, rich results, monitor aligner, thread and stop flag | cold start, receive, re-initialise, price, scan, start, stop | ZMQ, dashboard |
| dashboard | `web/dashboard.py` | three broadcast queues and WebSocket client sets, DDE health | connect, disconnect, broadcast, start/stop/reopen a process, task endpoints | all web parts |
| process manager | `web/process_manager.py` | the table of operating-system processes | scan, spawn | recorder process |
| backtest tasks | `web/backtest_service.py` | task records with status, progress, cancel flag | create, run, cancel, force liquidation | engine |
| backtest engine, broker, portfolio | `backtest/`, `models/order.py` | cash, margin, positions, cooldown, T+1 dates, equity curve | tick, close, open, fill or reject, mark to market | strategy |
| PCP strategy | `strategies/pcp_arbitrage.py` | last quotes per contract | update, evaluate open and close signals | engine, market cache |
| monitor helpers | `monitors/common.py` | none | build pairs, parse messages, restore a snapshot, pick strikes at the money | market cache |
| contract catalogue | `data_engine/contract_catalog.py` | contracts by code, cached pairs | load an option chain, find pairs and expiries | market cache, backtest tasks |
| aligner and readers | `data_engine/` | none (readers), last values (aligner) | load, align | engine, market cache |
| calculators | `calculators/`, `risk/margin.py` | none | implied volatility, curves, VIX, margin | strategy, web |
| analysis | `analysis/pnl.py` | none | round trips, total, drawdown, win rate, report | backtest |

Where the difficulty lies:

* **Recorder.** One process is killed (`terminate()` from the dashboard), is
  interrupted, restarts, or meets a failing write between any two file
  operations. Chunks are merged into a day file and then unlinked. Correct means:
  no row disappears without one of the known causes, nothing is unlinked before
  it is archived, a merged day is complete, the snapshot is fresh.
* **DDE client.** Callbacks deliver single fields in any order while another
  thread drains a bounded queue and may stop the client. Correct means: clearing
  the dirty set forgets nothing, no tick repeats or goes back, updates come out,
  and `stop()` ends the pump.
* **Backtest.** Long sequences of opens, partial closes, rejections and T+1
  dates. Correct means: cash, margin and positions stay consistent, and the caps
  hold.
* **Market cache.** Messages are conflated, dropped and lost with their socket
  while three threads read and restart. Correct means: the cache never goes
  back and shows what arrived, the monitor misses nothing its socket took, and
  the threads end.
* **Dashboard.** Threads, asyncio tasks and WebSocket clients share queues, sets
  and task records, and every queue drops what does not fit. Correct means: a
  page that stays gets the newest result, dead sockets leave the set, a task's
  status and verdict are true, a cancel works, and a waiting page learns its
  verdict.
* **Report.** Signals and trades are joined long after the fact. Correct means:
  every close finds the openings it belongs to and the parts add up.

## 2. Modules

| module | models | state |
|---|---|---|
| `Recorder` | `bus.run` with `ParquetWriter` and the files | done |
| `TickLedger` | abstract: a row is volatile, durable or gone | done |
| `RecorderProofs` | theorems about `Recorder`: rows, files, snapshot, time in memory, the merge and its calendar, the refinement of `TickLedger` | ten theorems |
| `DDEClient` | `_DDEClient`, `DDEDirectSubscriber`, the terminal as environment | done |
| `DDEClientProofs` | theorems about `DDEClient` | three theorems |
| `Portfolio` | `Portfolio.process_trades`: the book as a record, one trade as an operator | done |
| `Backtest` | the day loop, signals, engine, broker and final liquidation over that book | one underlying |
| `Sums` | lemmas about sums over finite sets | proved |
| `BacktestProofs` | theorems about `Backtest`: one trade, one order, the day's rules | six theorems |
| `BacktestLedgerProofs` | theorems about its sums over positions: hedge, margin, cash, cap | eight theorems |
| `Feed` | abstract: what the market cache promises about the newest tick | done |
| `MarketCache` | `ZMQPublisher`, the receiving thread and the monitor thread; implements `Feed` | done |
| `Broadcaster` | one broadcast channel of the dashboard: queue, client set, sending task | done |
| `MarketCacheProofs` | theorems about `MarketCache` | three theorems |
| `VolSmile` | compute thread and smile pages, over `Feed` and `Broadcaster` | done |
| `BacktestTask` | backtest endpoints, worker thread and the page, over `Broadcaster` | done |
| `Dashboard` | composes `VolSmile` and `BacktestTask` | done |
| `DashboardProofs` | theorems about `Dashboard` | two theorems |
| `ReportProofs` | theorems about `Report` and `Catalog` | two theorems, and their invariants |
| `Catalog` | `ContractInfoManager` as operators on the rows of a file | done |
| `Report` | contracts, pairs, signals and trades of a run, and the figures made of them, over `Catalog` | done |
| `MCRecorder`, `MCCalendar`, `MCDDEClient`, `MCBacktest`, `MCMarketCache`, `MCDashboard`, `MCReport` | instances for TLC | done |

### Recorder

One action per step between which something else may happen. `pc` says where the
loop thread is; each file write is an *open* and a *close* step (`OpenChunk`,
`CloseChunk`, `OpenSnapshot`, `OpenDayFile`, ...), each `unlink` one step.

| code | actions |
|---|---|
| `run`: top of the loop, drain, flush and merge tests (bus.py 117-192) | `LoopTop`, `Dequeue`, `EndOfDrain`, `MergeCheck`, `MergeReturns` |
| `run`: `except`/`finally` (bus.py 194-227) | `Interrupt`, `FlushRaises`, `ExitDequeue`, `ExitFlush`, `ExitMerge`, `ProcessEnds` |
| `write_option_tick`, `write_etf_tick` | `Accept`, in `Dequeue` and `ExitDequeue` |
| `flush` | `BeginFlush`, `OpenChunk`, `CloseChunk`, `ChunkRaises`, `OpenSnapshot`, `CloseSnapshot`, `SkipSnapshot`, `SnapshotRaises`, `FlushReturns` |
| `merge_daily` | `BeginMerge`, `SkipStream`, `OpenDayFile`, `CloseDayFile`, `UnlinkChunk` |
| environment | `AdvanceClock`, `Emit` (the DDE thread), `Start`, `Kill` |

Abstractions. The clock counts seconds of a compressed calendar: `Phase` gives
each second one of the ten parts of a day that the program's time tests tell
apart and `DayOf` its date. A row is its order of emission, code, stamp, and
whether it fits the schema; prices are left out. A file is absent, torn (opened
and not closed) or whole with a set of rows. The iteration order over the
streams, which Python takes from its dictionaries, is nondeterministic. Kill
may fall between any two steps; Ctrl+C is seen where Python can raise it,
between two calls into the Parquet library. Only a row that does not fit int16
makes a write raise (no full disk). One recorder process runs at a time, and the
ZMQ send, which keeps no state, is left out.

`lost` is a history variable: which rows lost their last copy, by cause.

### DDEClient

`Initialize`, `Connect`, `ConnectFails`, `PumpReturns`, `Connected`, `Retry`
model the start of `_pump_thread`; `Dispatch` one `_on_ddeml_data`; `BeginFlush`,
`EmitCode`, `FlushReturns` one `_flush_dirty` with the subscriber's callback; `Stop`
and `JoinReturns` `stop()` with its join timeout; `Take` the bus. `Serve`, `GoAway`
and `Post` are the terminal, which is external: topics come up, the terminal
goes away and its disconnect is ignored, and it sends one field at a time, a
BLANK included.

Abstractions. Values are small numbers; which of them mean "no ask" and "blank"
is kept, since the sentinel rules depend on it. `upto`, `applied` and `sent`
count messages: they say which update a tick shows. The instance advises one side
of the book; the two sides do not interact. An ADVSTART that fails is a
connection for which no message comes. The order in which a flush visits codes
is nondeterministic, as for a Python set.

### TickLedger

The promise of a recorder without its mechanics: an entry is taken into
`volatile`, may become `durable`, and once `gone` never comes back; a durable
entry may be discarded only as such. `Recorder` implements it with the mapping
at the end of the module (`ImplementsLedger`).

### Portfolio and Backtest

`Portfolio` holds no variables: `Booked(b, t, day)` is the book that
`process_trades` makes of book `b` by trade `t`, and `ProcessTrades` the three
legs of an order. `Backtest` keeps such a book and is the rest of the program
around it.

| code | actions |
|---|---|
| day loop (backtest_service.py 380-447) | `StartDay`; `EndTick` of the last tick ends the day |
| `strategy_callback`: the strategy's signals and the forced closes (272-374, 638-689) | `Tick`, with `OpenSignals`, `CloseSignals`, `ForcedCloses` |
| `BacktestEngine.run`, opening: guards, size, broker, book | `HandleOpen`, with `Opens`, `OpenQty`, `CashNeeded`, `OpenLegs` |
| the same, closing: T+1, sets held, depth, book | `HandleClose`, with `Closeable`, `CloseQty`, `CloseLegs` |
| equity sample and price cache | `EndTick` |
| `_force_liquidate_all` | `BeginLiquidation`, `Liquidate`, `Finish` |

A tick hands its signals to the engine one per step: openings by profit, then the
strategy's closes, then the forced ones, in the order of the callback's list.

Abstractions. One underlying ETF. A tick shows any snapshot of the set
`Markets`, in place of the aligner's merge of two feeds; a pair is listed on
a day when both its codes ticked. Money is whole units. A position keeps its
total cost, `avg_cost * |quantity|`, so that an opening is exact and only the share
that leaves with a partial close is rounded; `AccountsBalance` is exact all the
same, since the cost that leaves and the P&L it realises use the same share. The
commission of an ETF order is flat (the code takes a rate with a minimum), and
margin is computed from one last close. The cooldown is a flag that any later tick
may clear. Stop-loss and expiry closes (they are in `Report`), `min_dte_for_open`,
the `etf_tick` mode and the strategy's freshness filters are left out: they only
withhold or add signals of the kinds modelled. `bought` is a history variable: the shares bought
today. The equity curve and the price cache are kept because `EndTick` writes them; only
`TypeOK` is about them here, and `Report` is about the end of the curve.

### Feed and MarketCache

`market_cache.start()` starts three threads. `MarketCache` models the two that
listen; the third, which prices the cache, is in `VolSmile`.

| code | actions |
|---|---|
| `publish_option`, `publish_etf`, `_send` | `Publish`: no wait, nothing to a socket that has not joined, a conflating socket forgets what it held, a full one drops |
| `close` and a new publisher | `PublisherRestart`, then `Join` by libzmq |
| `_restore_from_parquet` | `Restore`, once, with any set of codes in the file |
| `_zmq_loop` | `Connect`, `Recv`, `RecvRaises` (a new socket), `ZmqEnds` (the test of `_running`) |
| `_monitor_compute_loop` | `MonitorStart`, `MonitorInit`, `FileChanged`, `MonitorRecv`, `MonitorScan`, `MonitorEnds` |
| `stop` | `Stop` |

`stop()` may come while the thread waits in `recv_string`. One more message then
still lands in the cache before the thread sees `_running`: `Recv` needs no running
cache, but after one receive only `ZmqEnds` is left (`zpc = "check"`). `Feed` allows
`Land` after `StopFeed` for the same reason.

Abstractions. A message is its position in the publisher's output, and `log`
says which code it is about. The waits (100 ms, 0.5 s, 5 s, 60 s) are left to
the interleaving. The exception handlers that do nothing but log, and a
`connect` that raises, which it does for a malformed address only, are left out.
`arrived` and `delivered` are history variables: the last message
each socket accepted.

`Feed` keeps three numbers of all this: the last tick that arrived, the newest
tick shown, and whether the cache runs. `MarketCache` implements it
(`ImplementsFeed`), with `Newest(lkv)` as the newest tick. `VolSmile` then uses
`Feed` in place of `MarketCache`: its state is a few values where the other has
thousands, and what it relies on is what the refinement shows.

### Broadcaster, VolSmile, BacktestTask and Dashboard

`Broadcaster` is one channel of the event loop: other threads hand callbacks to it
(`Post`), a callback puts into the bounded queue or drops (`RunCall`), the task takes a
message and copies the set of clients (`Take`), sends to one after the other
(`SendOk`, `SendFails`) and removes those whose send raised (`Sweep`). A step
ends where the code awaits. The copy is sent to in any order, as of a Python set.

| code | actions |
|---|---|
| `_compute_loop` | `NewCatalog`, `ComputeSnap`, `ComputePublish`, `ComputeEnds` |
| `ws_vol_smile` | `Accept`, `Greet`, `GreetingRaises`, `HandlerEnds` |
| `backtest_run`, `backtest_cancel`, `ws_backtest` | `ClickStart`, `Respond`; `ClickStop`, `SetCancel`; `AcceptPage`, `PageHandlerEnds` |
| `_run_in_thread`, `BacktestService.run` | `WorkerStart`, `DayStart`, `Cancel`, `Fail`, `Analyse`, `Finish`, `SetStatus`, `Tell` |
| `templates/backtest.html` | `ClickStart`, `Respond`, `SendMessage` (what a message does to the page), `Reconnect`, `LinkDown` |

Abstractions. A result is the number of the newest tick of its snapshot; a
message of a task is its type. The channels share no state, so a behaviour is
about one of them, which `ChannelInit` picks; the monitor's channel has the same code as
the smile's and no instance of its own. A send that waits for a slow client is
a step that has not been taken yet. `shown` counts the greeting from the moment
the handler reads it: either it gets through or the page is gone.
`_run_in_thread` also catches an exception of the message itself; that the
result cannot be encoded as JSON after the status says done is left out.

### Catalog and Report

`Catalog` is `ContractInfoManager` for one underlying: rows become contracts
(`AddRow`, `LoadChain`) and contracts become pairs (`FindPairs`). Both dictionaries
over strikes keep the last contract entered, and that is kept: a standard and an
adjusted contract may have the same expiry and strike.

`Report` runs a backtest only for its two lists, `signals` and `trades`: `Load` builds
contracts and pairs, `Open`, `Close`, `ForceClose` and `Liquidate` append a signal
and, when executed, three trades; which orders are filled is decided by
`Backtest`, and here any number of sets up to what is held may be. `EndOfData`
takes the last point of the equity curve, and `WriteReport` computes the figures of
`PnLAnalyzer.analyze` and `_build_result`: per executed close the round trip
by either of the two implementations, and the total. Amounts are whole numbers
of 1/60 so that shares of an opening are exact; the code rounds to cents.
Drawdown, Sharpe ratio, Greeks and the texts are left out.

## 3. Runs

| run | instance | what it shows |
|---|---|---|
| `recorder_safety` | 2 streams, 2 ticks, 5 seconds over 2 days, flush interval 2, 2 starts | `TypeOK`; `NoSilentLoss`; `MergeHandsOver`; `UnlinkOnlyArchived`; `OneFileOpenAtATime`; `SnapshotFresh`; `DayFileComplete` |
| `recorder_live` | `MCCalendar`: the same over 13 seconds up to the next day's call auction, queue of 1, flush interval 1, 1 start, fair | `OpenWindowBounded`; `FilterDropsOffSession`; `BufferedRowsReachDisk`; `MergeHourMerges`; `ImplementsLedger` |
| `recorder_kept` | as `recorder_safety`, flush interval 1 | *violated*: a second flush in one second overwrites a finished chunk |
| `recorder_ctrlc` | the same | *violated*: Ctrl+C inside `flush` loses rows already taken from the buffers |
| `recorder_remerge` | the same | *violated*: a restart after the merge overwrites the finished day file |
| `dde_client` | 2 codes (1 known), queue of 1, 3 messages, 1 restart, fair | `TypeOK`; `NothingForgotten`; `EachTickIsNewer`; `UpdatesAreEmitted`; `RetryConnects`; `StopEndsPump` |
| `dde_untraded` | the same | *violated*: a quoted contract without a last price is never emitted |
| `backtest` | 2 pairs with contracts of 2 and 3 shares, 4 snapshots, 3 days of at most 3 ticks, orders of at most 2 sets, cap of 3 | `TypeOK`; `HedgedBook`; `AccountsBalance`; `MarginLedger`; `NotSoldSameDay`; `CapOvershoot`; `ForcedMeansClosed`; `SettledAtEnd`; `OpeningFunded` |
| `market_cache` | 2 codes (1 untraded), monitor queue and batch of 2, 3 messages, 2 files, 1 fault, fair | `TypeOK`; `MonitorKeepsAll`; `ImplementsFeed`; `ArrivalsLand`; `ThreadsEnd` |
| `dashboard` | 2 smile pages over 1 tick, or 1 backtest page with 2 websockets, 1 task of 2 days and another page's verdict; queue of 1, fair | `TypeOK`; `VerdictsAreTrue`; `PagesCatchUp`; `GhostsAreSwept`; `PageLearns`; `CancelIsHonoured` |
| `report` | 6 contracts in 2 months, one strike held by a standard and an adjusted pair, in 2 orders of the file; 2 prices, 3 signals of at most 2 sets, and the liquidations | `EveryCloseHasItsOpen`; `RoundTripsAddUp` |
| `backtest_leftover` | the same as `backtest` | *violated*: a pair without ticks on the last day stays open |

Bounds. Two streams are needed for "one file written, the next not yet"; two
ticks for old and new of one code, and for one row per stream; five seconds for
the call auction, the session, the merge hour, the night and the next morning; two starts for
a crash, restart and second merge. `recorder_live` has a longer calendar instead of the
second start: its days are as far apart as `Reach`, the seconds a row may be from its
chunk, it merges a row of the half hour from 9:30, where the mask of the filter tests
minutes, and it ends in trading hours, where no merge helps a late flush. One code that has no underlying suffices
to see the flush skip a dirty code, a queue of one to see it full, three messages
to change a state that was sent and to interleave two codes. `CHECK_DEADLOCK
FALSE` stands in every configuration because the program really stops: the
process is off and its starts are used up, the client was stopped, or the
backtest is over.

In `backtest` the second pair is an adjusted contract, since the code mixes its
unit with the configured one in the cap, the margin and the realised P&L. The four
snapshots are: one pair worth opening; both, with a depth of less than a set; both
worth closing, one with a depth of two sets; and no seller of a call. Three ticks
let an opening, a second one and a close meet on one day; three days let a pair
opened on the first be closed in part on the second and forced or liquidated
later. Capital is small enough that the broker rejects some orders.

In `market_cache` the untraded code shows a message that fills the socket and
never the aligner; three messages overflow the monitor's socket of two, and let
a code be conflated away; the second file makes the monitor start over. One tick
suffices in `dashboard`, with the cold start before it, for a page to be behind;
a queue of one is full after one message, and each channel of the code has a fixed
size too; two websockets of one page let it lose one with a message on its
way. In `report` three signals, before the liquidations that end the run, allow two
openings of one pair with a partial close and the close of the rest, or two pairs
that share strike and expiry; `MaxSets` of 2 makes the shares uneven. `CHECK_DEADLOCK FALSE` as above: threads end, pages leave, a report is done.

Fairness. `Recorder`: the loop never waits for anyone (`get_nowait`, bounded
sleep), so weak fairness of its steps; and time passes. Nothing is assumed of
the terminal, the DDE thread, kills or Ctrl+C. `DDEClient`: the pump thread polls
and never blocks, the bus loop drains, and a join returns when its thread
ends or its timeout does. Nothing is assumed of the terminal. The messages are
bounded: a stream that never pauses could starve the flush in the code, and the
model does not show that. `MarketCache`: the
threads poll with timeouts, and libzmq keeps trying to connect; nothing of
publisher, files, faults or `stop()`. `Dashboard`: the compute thread and the
worker run, the event loop runs its callbacks and tasks, and a send gets through or
raises, since the server pings its clients and closes those that do not answer;
nothing of pages, clicks, connections or failing days. The cache is priced every 100
ms whether or not it changed, and `PagesCatchUp` depends on it. `Backtest` and
`Report` have safety properties only and no fairness.

## 4. Findings

The five runs that end in a violation each check a sentence of the code's own
documentation against what the code does; `PROJECT.json` quotes the line.

1. `parquet_writer.py:7-8`: finished chunks survive. Two flushes in one second
   share a file name (`parquet_writer.py:215-226`).
2. `bus.py:10`: Ctrl+C first flushes the remaining data. `flush` clears the
   buffers before writing (`parquet_writer.py:211`).
3. `bus.py:158`: the merge is not repeated on a day. The flag is in memory only
   (`bus.py:111`), and the merge overwrites (`parquet_writer.py:316`).
4. `dde_direct_client.py:702,710`: a quoted contract is sent without a last
   price. The callback drops it (`dde_direct_client.py:839`).
5. `backtest_service.py:742`: all open pairs are liquidated at the end. A pair
   whose contract had no tick on the last day is skipped
   (`backtest_service.py:759`).

Two more places where a comment or a doc and the code disagree, which no run is about:

* `parquet_writer.py:14`, `262` and `293` say the merge keeps "9:30-11:30、13:00-15:00"
  and filters out the rest. The mask (302-307) keeps 9:15 to 9:29 too, as
  `bus.py:58` accepts it, and the whole minute of 15:00. `README.md:83` asks to start
  before 9:14 to capture the call auction of 9:15, so the mask looks intended and
  the comments old. `KeptByMerge` is the mask. `FilterDropsOffSession` speaks only of
  the hours that mask and comments have in common: it says that those rows survive,
  and nothing of the auction.
* `docs/dde_dataflow.md:129-136` and `180` say a tick goes out when `last`, `bid1`,
  `ask1` and at least one volume have arrived, after which the buffer is cleared,
  so that no tick with all volumes zero goes out. The code has no such buffer:
  `_flush_dirty` sends the whole state of every code that changed as soon as it has
  a bid or an ask (711), the subscriber wants a valid `last` (839), and a volume that
  has not arrived is sent as 0 (`_i`). So ticks with zero volumes do go out, and
  one field that changes makes a tick. The doc describes an older version;
  `UpdatesAreEmitted` and `NothingForgotten` use the code's condition (`Emits`).

Met while modelling, and not the subject of a run: the cap on open sets can be
overshot by an order's size less one set, and is counted in units of the
configuration (`CapOvershoot` states what does hold); the cash check does not set
aside margin frozen earlier (`OpeningFunded` likewise); realised P&L of an adjusted
contract is booked with the configured unit (`portfolio.py:206`), which
`AccountsBalance` has to undo; the price cache learns only the sampled ticks
(`engine.py:171`); the equity curve ends before the liquidation, so the total
leaves out what it costs (`RoundTripsAddUp` states the total for runs without it).

In the web part: `_start_time` in `market_cache.start` is a local variable, so the
uptime shown is always "-". A burst of codes leaves one of them in the conflating
socket; the others show with their next tick. After a changed file the monitor's
prices are empty until each code ticks again. `stop()` waits two seconds per
thread, less than the monitor's retry sleep of five. A slow client holds up the
broadcast for everyone until the server closes it. A greeting that fails leaves its
socket registered until the next broadcast (`GhostsAreSwept`). A backtest page can wait for ever in
three cases, which `missed` counts and `PageLearns` excepts: the full queue dropped
its verdict, it had no open socket, or the verdict overtook the answer to `/run`;
`dashboard.py:1106` speaks of polling over HTTP, and the page does not poll. Any
task's verdict resets every page. A cancel after the last day's last check is
accepted, and the task ends as done (`CancelIsHonoured` speaks of tasks with a
day to start). `backtest_run` does not pass `min_dte_for_open` on.

In the report: `find_call_put_pairs` and `build_pairs_and_codes` key by strike
alone, so that of a standard and an adjusted contract one is paired, and calls
and puts each on their own (`market_cache.py:272` groups by `is_adjusted` to avoid
just that). A pair opened again after a close has its old openings charged again to
its later closes: `RoundTripsAddUp` is about pairs that were not. The analyzer's
fallback for a close without openings would put the returned principal into the
win rate; `EveryCloseHasItsOpen` says it is never reached.

## 5. Proofs

Each theorem holds for every value of the constants that satisfies the named
assumptions of its module (`ConstantsOK`, `NoRowIsNoRow`, ...).

`RecorderProofs`. `TypeCorrect` is inductive by itself. `HandsOverCorrect`
(`MergeHandsOver`) uses the types: while a file is being written nothing else
writes it, and merged rows are chosen when the day file is opened. From it
follows `UnlinkOnlyArchivedCorrect`, since the day file is finished with the
merged rows whenever a chunk is unlinked. `NoSilentLossCorrect` needs a
strengthening, `FlushHandsOver`: rows are in flush's locals only inside a
flush, and the buffers stay empty from the exit flush on; without it the step that
ends the process could drop rows that the invariant says are in memory.

`OpenWindowCorrect` (`OpenWindowBounded`) sums up what may delay a flush: `ClocksInOrder`
(an iteration is at most `Lag` seconds old), `BuffersCleared` (nothing fills the buffers
between the start of a flush and the next drain) and `OpenWindow`, which says how much of
`FlushInterval + 2 * Lag` is left in each phase: an iteration that does not flush ends
less than `FlushInterval` after the last flush, and the next begins within `Lag`.

`SnapshotFreshCorrect` follows a row from the queue to the file. `QueueFresh`: rows
leave the queue in the order of emission, so the last one written to the snapshot is the
newest; `SnapNewest`: the snapshot in memory is as new as anything this process
accepted; `SnapshotKept`: the file has what was outside the buffers, from the return
of a flush to the next one. The property itself speaks of the loop only; to be inductive it
has to cover the merge and the exit path too, where the file must not change.

For the refinement of `TickLedger` (`LedgerCorrect`) a row of `accepted` is
volatile, durable or gone according to memory and disk. `FiledRows` says that every file
holds rows handed over, each under its own stream, and that what a merge has read is
still in chunks; `MemoryApart` that a row in memory is in no file. One lemma
per kind of move (`LedgerStutters`, `LedgerTakes`, `LedgerPersists`, `LedgerDrops`,
`LedgerDiscards`) then turns each step of the recorder into one of the ledger or none.
`OneFileOpenCorrect` counts torn files: `OpenFileTorn` adds to the property that the
file `pc` names is torn and that there are finitely many torn files, without which the
cardinalities of the count say nothing.

`FilterDropsOffSessionCorrect` bounds how far a row can be from the chunk that
holds it. `QueueWaits`: a row that has seen `n` iterations had `n - 1` whole batches
taken from before it, so `n` is at most `QueueMax \div Batch + 1` and its age at most
`QueueAge`. `RowsNear` adds the time in the buffers, from `OpenWindowCorrect`, which
makes `Reach`. The hypothesis `SessionsFarFromMidnight` is that midnight is
farther than `Reach` from every session and call auction. With the program's queue of 200,000, batch of
1,000 and interval of 30 s, `Reach` is `30 + 204 * Lag` seconds, and sessions are
almost nine hours from midnight, so it holds as long as no iteration takes more than two and a
half minutes.

`DayFileCompleteCorrect` needs in addition that no iteration lasts as long as the nine
o'clock hour (`IterationsSeeNineOClock`); otherwise the loop could miss the hour in which
`merge_done_today` is cleared. `MergedThisNight` then ties the flag to the evening and
the early morning, `MergeClears` says what a running merge leaves behind for each stream,
`DayMerged` that after it neither buffers nor mergeable chunks have anything of
the day, and `DayFiles` that a day file holds session rows of its own day only. TLC
evaluates both hypotheses on the calendar of `recorder_live`. The five seconds of
`recorder_safety` are too close together for them: `DayFileComplete` is checked there for
one evening, with crashes and restarts, and the next evening is the theorem's part.

`DDEClientProofs`. `TypeCorrect`; then `NothingForgotten` together with "what a
flush still holds, and every dirty code, has an update that was not sent"
(`FlushInv`) is inductive and gives `NothingForgottenCorrect` and
`EachTickIsNewerCorrect`.

`BacktestProofs`. The inductive invariant `Inv` says that the book is safe (legs
matched, no short shares or puts, margin on short positions only), that on a
trading day the shares bought today are still held, and that if any were bought, the
ETF's buy date is today. The last part is what makes it inductive: a close is refused
for that date, so every sale happens on a day without purchases. The lemmas go
from arithmetic (`ShareBounds`: a share rounded down is between nothing and
everything, and the share of the whole is everything) over one trade
(`BookedTyping`), three trades (`ProcessTradesTyping`) and orders that buy or sell
(`OpeningIsSafe`, `ClosingIsSafe`) to one lemma per action. From `Inv` follow
`NotSoldSameDayCorrect`, `LegsMatchedCorrect`, `MarginOnShortsCorrect` and
`StateTypedCorrect`. `OpeningFundedCorrect` adds that the broker's demand is what
the legs cost plus the margin; it assumes that no call is bid below the slippage:
a call "sold" at a negative price could have a negative margin, which lowers the
demand and is frozen as nothing.

`Sums` has what the ledgers need: a sum over a finite set is typed, does not depend on
the order in which the fold takes the elements (`SumRemove`), changes by the
change of one term (`SumChange`), and is zero or a multiple when its terms are. A sum is
a fold over a set, which the provers cannot unfold; the module states the equation of
the fold, shows that one function satisfies it (`AddsExists`, `AddsUnique`), and argues about
all finite sets by looking at a smallest one for which a statement fails (`SmallestSet`).

`BacktestLedgerProofs`. Every step leaves the book alone or is an order, an opening or
a sale of one pair (`BookSteps`), and an order moves the sums by what it trades
(`OrderSums`).

* `HedgedBookCorrect`: the ETF shares are the sum of what the puts held need
  (`Hedged`), which is inductive with `Inv`; matched legs then give the property.
* `SettledAtEndCorrect` and `ForcedMeansClosedCorrect`: the hedge is why a close is never
  cut short by the ETF. A pair's own shares are a part of the total (`SharesCover`), so
  the smallest of the three legs is the pair itself. `ForcedMeansClosed` is
  proved for snapshots in which nobody bids `NoAsk` or more: that value stands for
  "no seller", and no such price is quoted.
* `CapOvershootCorrect`: sets counted by ETF shares are at least the puts held as long as
  no contract is smaller than the configured unit, the hypothesis. An adjustment
  of an ETF option for a dividend enlarges the contract.
* `MarginLedgerCorrect`: the total is the sum (`MarginAdds`), and an open short has some
  (`ShortsMargined`): a partial close releases a share rounded down, which is less than
  all of it. The hypothesis `RiskFloor >= OptSlip` makes the margin of a new
  short positive: slippage lowers the price of the call sold, and the floor of
  the margin is a percentage of the strike, far above a tick or two.
* `AccountsBalanceCorrect`: `Balanced` says what each position has earned, with the
  realised P&L scaled from the configured unit to the contract's, and that a position's
  P&L is a multiple of the unit it was booked with (`Sound`), without which the scaling
  would round. A partial close takes the same share of the cost that it realises, so
  rounding cancels (`ReduceEarns`).
* `TypeOKCorrect`: the equity curve is a number since every value that is summed is one.

`MarketCacheProofs`. `TypeCorrect` is inductive. For the refinement `FeedInv` adds
what the socket and the cache know of each other: a message in the socket is the
last that arrived and newer than the whole cache; once it was taken, the cache is
as new; and while the snapshot is restored nothing has arrived yet. The refinement
mapping takes the maximum of the cache. That a finite set of numbers has one is an
induction, so `HasNewest` carries along that some code has the newest tick; from it
`NewestIs` computes the maximum. `ImplementsFeedCorrect` then maps every step to a
step of `Feed` or to none. `MonitorKeepsAllCorrect` needs more than the property
says (`MonInv`): not only is the last accepted tick of a code among those that
wait, no later one of the code waits behind it; and when it is in the aligner, none
of the code waits. Without that a receive could put an older tick in its place.

`DashboardProofs`. In `VerdictInv` a status that ends a task is that of a worker
that tells or is over (`WorkerInv`), and every verdict among the callbacks, in the
queue and in the broadcaster's hand is that of a worker that is over
(`ChannelInv`). A worker that is over stays over with its status (`OverStays`), so
messages stay true while they travel; `WayKept` reduces each step of the channel
to the messages it adds. `TypeOKCorrect` is the type invariant of both
channels and the tasks (`DashboardTyped`), strengthened by what a page has seen
(`PageKnows`). It needs two facts the code takes for granted: a channel is the
smile's or the backtest page's, and `None`, which stands for no message, is not one.

`ReportProofs`. The first invariant, `RunInv`, is about what is recorded.

* What a file loads to is a fold over its rows; as with `Sums` the equation
  of the fold is stated and shown to have one solution (`LoadsExists`, `LoadsUnique`),
  and a smallest set of rows for which the claim fails cannot exist. The result
  has no code twice (`Listed`), so call and put of a pair have one expiry and one
  strike, and no expiry and strike have two tradable pairs (`Paired`). Without the
  last the forced closes, which look for a put by expiry and strike, could close
  a pair that was never opened.
* `Journal`: every trade is a leg of a signal, a signal has none or three legs, and a
  filled close has an opening of its pair before it. What is held long was bought and
  what is short was sold (`HeldSign`), so the put found for a short call is the one it
  was opened with (`LongPutOpened`, `ShortCallOpened`).
* `EveryCloseHasItsOpenCorrect` follows, and says that the fallback of
  `_process_arbitrage` is dead code for closes.

The second, `BooksInv`, adds what the figures need: how many sets the openings of a pair can
have (`OpenBounds`, so that an amount in 1/`Lots` is shared out without rest), where the
curve ends as long as nothing is liquidated (`Curve`), and that the report is what
the lists said when it was written (`Reported`; the figures are restated as functions
of the two lists for this). The sums of signals come down to the sums of their legs
(`SumOfParts`, `HeldOfPair`, `CostsAdd`). A settled pair sold the sets it bought, every close
of it counts the same openings, and the shares add up to their whole cost
(`SettledTrips`). With no options left there is no ETF either, since each set holds its
unit of it (`EtfSettles`), and the end of the curve is the cash (`ValueSettles`).
`RoundTripsAddUpCorrect` is the property.

Only model-checked: liveness. Every safety property of a passing run is stated by a
theorem. Liveness under fairness, `ENABLED`, induction over data and recursive operators
are out of the prover's reach and stay with TLC.

## 6. Plan

1. Done: recorder, DDE client, backtest, market cache, dashboard channels and
   backtest tasks with their theorems; catalogue and report.
2. Pure algorithms as operators against reference definitions: XlTable
   parsing, choice of strikes at the money, drawdown.
3. A pipeline that composes `DDEClient` with `Recorder` over the shared queue.
4. Proofs: done for the safety properties of every passing run; the new modules of
   2 and 3 bring their own.

## 7. Not modelled

The floating-point calculators (implied volatility, yield curve, VIX, pricing):
TLC has no reals. HTML pages, console output, reports, scrapers and command-line
parsing: input and output without state of interest. The Parquet and DDE libraries
appear only as the code uses them, and so does libzmq.

The process manager's state is the process list of the operating system, read by
command line; that two requests may both find no process and both spawn one is
listed as a hazard without a property. The DDE health check, the data statistics
and the manual merge behind them read files (the merge itself is the writer's, in
`Recorder`). The data feed sorts ticks by time, and `backtest/run.py` is a command
line around the same engine.
