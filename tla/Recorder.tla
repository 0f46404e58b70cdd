------------------------------ MODULE Recorder ------------------------------
(***************************************************************************)
(* The recorder process: the main loop of data_bus/bus.py together with    *)
(* data_bus/parquet_writer.py, which it drives, and the files both leave   *)
(* on disk.                                                                *)
(*                                                                         *)
(* One thread runs the loop; the DDE thread only puts rows in the queue.   *)
(* Every file write is two steps (opened for writing, then closed), every  *)
(* unlink is a step of its own, and between any two steps the process may  *)
(* be killed (web/process_manager kills it with terminate()).  Ctrl+C is   *)
(* seen by Python between two calls into the Parquet library.              *)
(***************************************************************************)
EXTENDS Integers, Sequences, FiniteSets

CONSTANTS
    Underlyings,    \* ETF underlyings; each is a directory under chunks/
    Codes,          \* the subscribed option and ETF codes
    StreamOf,       \* code -> <<underlying, "options" or "etf">>
    MaxTime,        \* bound: the last second of the modelled clock
    Phase,          \* second -> part of the trading day it falls in
    DayOf,          \* second -> calendar date
    FlushInterval,  \* RecorderConfig.flush_interval_secs
    Lag,            \* how far the clock may run ahead of the loop's `now`
    QueueMax,       \* RecorderConfig.queue_maxsize
    Batch,          \* ticks consumed per loop iteration (1000 in the code)
    MaxTicks,       \* bound: ticks the DDE thread emits
    MaxStarts,      \* bound: times the process is started
    NoRow           \* "no row seen yet for this code"

Time == 0 .. MaxTime
Days == {DayOf[t] : t \in Time}
Streams == Underlyings \X {"options", "etf"}

\* The parts of a day that the program's time tests tell apart.
Phases == {"early",   \* hour < 9
           "nine",    \* 09:00 - 09:14
           "auction", \* 09:15 - 09:29
           "open9",   \* 09:30 - 09:59
           "open",    \* 10:00 - 11:30 and 13:00 - 14:59
           "lunch",   \* 11:31 - 12:59
           "close",   \* 15:00
           "late",    \* 15:01 - 15:09
           "merge",   \* 15:10 - 15:59
           "night"}   \* hour >= 16

ASSUME ConstantsOK ==
    /\ StreamOf \in [Codes -> Streams]
    /\ MaxTime \in Nat
    /\ Phase \in [Time -> Phases]
    /\ DayOf \in [Time -> Nat]
    /\ FlushInterval \in Nat \ {0}
    /\ Lag \in Nat \ {0}
    /\ QueueMax \in Nat \ {0}
    /\ Batch \in Nat \ {0}
    /\ MaxTicks \in Nat
    /\ MaxStarts \in Nat

\* A tick row.  id is the order of emission, ts the second the DDE thread
\* stamped; bad rows do not fit the file's schema (a volume over int16).
Row == [id : 1 .. MaxTicks, code : Codes, ts : Time, bad : BOOLEAN]

ASSUME NoRowIsNoRow == NoRow \notin Row

Absent == [st |-> "absent", rows |-> {}]
Torn == [st |-> "torn", rows |-> {}]
Whole(R) == [st |-> "whole", rows |-> R]
File == [st : {"absent", "torn", "whole"}, rows : SUBSET Row]

Stream(r) == StreamOf[r.code]
OfStream(R, s) == {r \in R : Stream(r) = s}

(***************************************************************************)
(* The time tests of the program.                                          *)
(***************************************************************************)
InTradingHours(t) == Phase[t] \in {"auction", "open9", "open"}

\* The mask of merge_daily: the call auction too.
KeptByMerge_WholeHours(r, d) == DayOf[r.ts] = d /\ Phase[r.ts] \in {"open", "close"}
KeptByMerge(r, d) ==
    DayOf[r.ts] = d /\ Phase[r.ts] \in {"auction", "open9", "open", "close"}

BeforeClose(t) == Phase[t] \in {"early", "nine", "auction", "open9", "open", "lunch"}
MergeHour_MinuteTestReversed(t) == Phase[t] = "late"
MergeHour(t) == Phase[t] = "merge"
AtOrAfterMergeHour(t) == Phase[t] \in {"close", "late", "merge", "night"}
HourNine(t) == Phase[t] \in {"nine", "auction", "open9"}

(***************************************************************************)
(* Two facts about the program's calendar, which FilterDropsOffSession and *)
(* DayFileComplete rest on.                                                *)
(***************************************************************************)
\* How long a row may wait in the queue: a full one is gone after
\* QueueMax \div Batch + 1 iterations that take at most Lag seconds each, and
\* the one in hand may be Lag seconds old.
QueueAge == (QueueMax \div Batch + 2) * Lag

\* How far a row may be from the chunk it is written to.
Reach == QueueAge + FlushInterval + 2 * Lag
Near(t, u) == t - u <= Reach /\ u - t <= Reach

\* The session as the comments of parquet_writer.py (14, 262, 293) give it:
\* 9:30 - 11:30 and 13:00 - 15:00.
Session == {"open9", "open", "close"}
Evening == {"merge", "night"}

\* The program's calendar: a session row and a chunk within Reach of it are of
\* the same date, and so for the call auction.  The session ends nine hours before
\* midnight and the auction begins nine hours after it.
SessionsFarFromMidnight ==
    \A t, u \in Time :
        Phase[u] \in Session \cup {"auction"} /\ Near(t, u) => DayOf[t] = DayOf[u]

\* The program's calendar, at the scale of one iteration: within Lag seconds of
\* an evening moment it is still the same evening or already the morning before
\* nine, and no iteration leaps over the nine o'clock hour.
IterationsSeeNineOClock ==
    \A t, u \in Time :
        t <= u /\ u - t <= Lag =>
            /\ Phase[t] \in Evening =>
                  \/ Phase[u] = "early"
                  \/ Phase[u] \in Evening /\ DayOf[u] = DayOf[t]
            /\ Phase[t] = "early" => Phase[u] \in {"early", "nine", "auction", "open9"}

-----------------------------------------------------------------------------
VARIABLES
    clock,      \* wall clock
    emitted,    \* ticks the DDE thread has stamped so far
    queue,      \* tick_queue
    \* the loop thread
    pc,         \* where it is
    loopNow,    \* `now`, read once at the top of the iteration
    processed,  \* ticks consumed in this iteration
    mergeDone,  \* merge_done_today
    exiting,    \* in the finally block of run()
    \* ParquetWriter
    buf,        \* _opt_buffer and _etf_buffer
    snap,       \* _snapshot
    lastFlush,  \* _last_flush_time
    \* locals of flush(): rows copied and not yet written, dt, stream of the
    \* file that is open, and the step the call returns to
    rows, dt, wstream, after,
    \* locals of merge_daily(): date, streams not yet visited, the stream in
    \* hand with its chunk files not yet unlinked and its merged rows
    mday, mleft, mstream, mchunks, mrows,
    \* the file system
    chunks,     \* chunks/<ul>/<prefix>_<date>_<HHMMSS>.parquet
    days,       \* <ul>/<prefix>_<date>.parquet
    snapfile,   \* snapshot_latest.parquet
    \* history, read by no action
    starts,     \* times the process was started
    kills,      \* times it was killed
    epoch,      \* value of emitted when the process was last started
    accepted,   \* rows handed to the writer
    openSince,  \* when the oldest row in buf or rows was handed over
    lost        \* cause -> rows that lost their last copy that way

loopVars == <<pc, loopNow, processed, mergeDone, exiting>>
flushVars == <<rows, dt, wstream, after>>
mergeVars == <<mday, mleft, mstream, mchunks, mrows>>
diskVars == <<chunks, days, snapfile>>
histVars == <<starts, kills, epoch, accepted, openSince, lost>>
vars == <<clock, emitted, queue, loopVars, buf, snap, lastFlush, flushVars,
          mergeVars, diskVars, histVars>>

\* How the last copy of a row can disappear.
Causes == {"killed",        \* in memory when the process was killed
           "interrupted",   \* in flush()'s locals when Ctrl+C arrived
           "failed",        \* in flush()'s locals when a write raised
           "clobbered",     \* in a finished file that was opened again
           "filtered"}      \* dropped by merge_daily's session filter

Lose(cause, R) == lost' = [lost EXCEPT ![cause] = @ \cup R]

OnDisk(r) ==
    \/ \E t \in Time : r \in chunks[Stream(r)][t].rows
    \/ \E d \in Days : r \in days[Stream(r)][d].rows

NoStream == <<>>
NoSnap == [c \in Codes |-> NoRow]

Init ==
    /\ clock = 0 /\ emitted = 0 /\ queue = <<>>
    /\ pc = "off" /\ loopNow = 0 /\ processed = 0
    /\ mergeDone = FALSE /\ exiting = FALSE
    /\ buf = {} /\ snap = NoSnap /\ lastFlush = 0
    /\ rows = {} /\ dt = 0 /\ wstream = NoStream /\ after = "check"
    /\ mday = DayOf[0] /\ mleft = {} /\ mstream = NoStream
    /\ mchunks = {} /\ mrows = {}
    /\ chunks = [s \in Streams |-> [t \in Time |-> Absent]]
    /\ days = [s \in Streams |-> [d \in Days |-> Absent]]
    /\ snapfile = Absent
    /\ starts = 0 /\ kills = 0 /\ epoch = 0 /\ accepted = {} /\ openSince = 0
    /\ lost = [c \in Causes |-> {}]

\* Locals of a call that returned or was abandoned.
DropFlushLocals ==
    rows' = {} /\ dt' = 0 /\ wstream' = NoStream /\ after' = "check"
DropMergeLocals ==
    /\ mday' = DayOf[0] /\ mleft' = {} /\ mstream' = NoStream
    /\ mchunks' = {} /\ mrows' = {}

\* The memory of the process is gone.
ProcessEnds ==
    /\ pc' = "off" /\ loopNow' = 0 /\ processed' = 0
    /\ mergeDone' = FALSE /\ exiting' = FALSE
    /\ queue' = <<>> /\ buf' = {} /\ snap' = NoSnap /\ lastFlush' = 0
    /\ DropFlushLocals /\ DropMergeLocals

-----------------------------------------------------------------------------
(* The environment: time, the DDE thread, the operator.                    *)

\* Lag bounds how far a loop iteration falls behind the wall clock.
AdvanceClock ==
    /\ clock < MaxTime
    /\ pc # "off" => clock - loopNow < Lag
    /\ clock' = clock + 1
    /\ UNCHANGED <<emitted, queue, loopVars, buf, snap, lastFlush, flushVars,
                   mergeVars, diskVars, histVars>>

\* The DDE thread stamps a tick and put_nowait()s it; a full queue drops it.
Emit(c, b) ==
    /\ pc # "off" /\ emitted < MaxTicks
    /\ b => StreamOf[c][2] = "options"
    /\ emitted' = emitted + 1
    /\ queue' = IF Len(queue) < QueueMax
                THEN Append(queue, [id |-> emitted + 1, code |-> c,
                                    ts |-> clock, bad |-> b])
                ELSE queue
    /\ UNCHANGED <<clock, loopVars, buf, snap, lastFlush, flushVars,
                   mergeVars, diskVars, histVars>>

\* A new process; subscriber.start() has succeeded.
Start ==
    /\ pc = "off" /\ starts < MaxStarts
    /\ pc' = "top" /\ loopNow' = clock /\ lastFlush' = clock
    /\ starts' = starts + 1 /\ epoch' = emitted
    /\ UNCHANGED <<clock, emitted, queue, processed, mergeDone, exiting, buf,
                   snap, flushVars, mergeVars, diskVars, kills, accepted,
                   openSince, lost>>

\* terminate()/kill(), a power cut: an open file stays torn.
Kill ==
    /\ pc # "off"
    /\ ProcessEnds
    /\ kills' = kills + 1
    /\ Lose("killed", buf \cup rows)
    /\ UNCHANGED <<clock, emitted, diskVars, starts, epoch, accepted,
                   openSince>>

\* Leaving the loop for the finally block: the locals of a flush() or a
\* merge_daily() that was under way are gone.
LeaveLoop(cause) ==
    /\ pc' = "exitdrain" /\ exiting' = TRUE
    /\ DropFlushLocals /\ DropMergeLocals
    /\ Lose(cause, rows)
    /\ UNCHANGED <<queue, loopNow, processed, mergeDone, buf, snap, lastFlush>>

\* Python delivers the signal between calls into the Parquet library.
Interruptible_MidWrite == pc # "off" /\ ~exiting
Interruptible ==
    /\ ~exiting
    /\ pc \in {"top", "drain", "check", "write", "mergedue", "merge", "unlink"}

\* Ctrl+C.  Inside finally a second one ends the process as Kill does.
Interrupt ==
    /\ Interruptible
    /\ LeaveLoop("interrupted")
    /\ UNCHANGED <<clock, emitted, diskVars, starts, kills, epoch, accepted,
                   openSince>>

-----------------------------------------------------------------------------
(* The loop of run().                                                      *)

LoopTop ==
    /\ pc = "top"
    /\ loopNow' = clock /\ processed' = 0 /\ pc' = "drain"
    /\ UNCHANGED <<clock, emitted, queue, mergeDone, exiting, buf, snap,
                   lastFlush, flushVars, mergeVars, diskVars, histVars>>

\* on_option_tick / on_etf_tick
Accept_SnapshotKeepsFirst(r) ==
    /\ buf' = buf \cup {r}
    /\ snap' = [snap EXCEPT ![r.code] = IF @ = NoRow THEN r ELSE @]
    /\ accepted' = accepted \cup {r}
    /\ openSince' = IF buf = {} THEN clock ELSE openSince
Accept(r) ==
    /\ buf' = buf \cup {r}
    /\ snap' = [snap EXCEPT ![r.code] = r]
    /\ accepted' = accepted \cup {r}
    /\ openSince' = IF buf = {} THEN clock ELSE openSince

\* 3a: one tick leaves the queue; only ticks consumed in trading hours are
\* handed to the writer (all are published).
Dequeue ==
    /\ pc = "drain" /\ queue # <<>> /\ processed < Batch
    /\ queue' = Tail(queue)
    /\ processed' = processed + 1
    /\ IF InTradingHours(clock)
       THEN Accept(Head(queue))
       ELSE UNCHANGED <<buf, snap, accepted, openSince>>
    /\ UNCHANGED <<clock, emitted, pc, loopNow, mergeDone, exiting, lastFlush,
                   flushVars, mergeVars, diskVars, starts, kills, epoch, lost>>

\* flush(): the buffers are copied and cleared before anything is written.
BeginFlush(t, next) ==
    /\ rows' = buf /\ buf' = {}
    /\ dt' = t /\ after' = next /\ pc' = "write"
    /\ UNCHANGED wstream

ShouldFlush_SinceLoopTop == clock - loopNow >= FlushInterval
ShouldFlush_OneLate == clock - lastFlush > FlushInterval
ShouldFlush == clock - lastFlush >= FlushInterval

\* 3b: should_flush() reads the wall clock, flush() is given `now`.
EndOfDrain ==
    /\ pc = "drain" /\ (queue = <<>> \/ processed = Batch)
    /\ IF ShouldFlush
       THEN BeginFlush(loopNow, "check")
       ELSE pc' = "check" /\ UNCHANGED <<buf, flushVars>>
    /\ UNCHANGED <<clock, emitted, queue, loopNow, processed, mergeDone,
                   exiting, snap, lastFlush, mergeVars, diskVars, histVars>>

MergeCheck_NoFlush ==
    /\ pc = "check"
    /\ IF ~mergeDone /\ MergeHour(loopNow)
       THEN pc' = "mergedue" /\ UNCHANGED mergeDone
       ELSE pc' = "top" /\ mergeDone' = (mergeDone /\ ~HourNine(loopNow))
    /\ UNCHANGED <<clock, emitted, queue, loopNow, processed, exiting, buf,
                   snap, lastFlush, flushVars, mergeVars, diskVars, histVars>>

\* 3c: flush and merge once at 15:10; the flag is cleared at nine o'clock.
MergeCheck ==
    /\ pc = "check"
    /\ IF ~mergeDone /\ MergeHour(loopNow)
       THEN BeginFlush(loopNow, "mergedue") /\ UNCHANGED mergeDone
       ELSE /\ pc' = "top"
            /\ mergeDone' = (mergeDone /\ ~HourNine(loopNow))
            /\ UNCHANGED <<buf, flushVars>>
    /\ UNCHANGED <<clock, emitted, queue, loopNow, processed, exiting, snap,
                   lastFlush, mergeVars, diskVars, histVars>>

-----------------------------------------------------------------------------
(* ParquetWriter.flush().                                                  *)

\* Options first, one file per underlying, then the ETF files.
NextToWrite(s) ==
    /\ OfStream(rows, s) # {}
    /\ s[2] = "etf" => \A u \in Underlyings : OfStream(rows, <<u, "options">>) = {}

\* write_table() truncates what the name held before.
OpenChunk(s) ==
    /\ pc = "write" /\ NextToWrite(s)
    /\ \A r \in OfStream(rows, s) : ~r.bad
    /\ chunks' = [chunks EXCEPT ![s][dt] = Torn]
    /\ wstream' = s /\ pc' = "writing"
    /\ Lose("clobbered", chunks[s][dt].rows \ days[s][DayOf[dt]].rows)
    /\ UNCHANGED <<clock, emitted, queue, loopNow, processed, mergeDone,
                   exiting, buf, snap, lastFlush, rows, dt, after, mergeVars,
                   days, snapfile, starts, kills, epoch, accepted, openSince>>

CloseChunk_FirstStreamOnly ==
    /\ pc = "writing"
    /\ chunks' = [chunks EXCEPT ![wstream][dt] = Whole(OfStream(rows, wstream))]
    /\ rows' = {} /\ wstream' = NoStream /\ pc' = "write"
    /\ UNCHANGED <<clock, emitted, queue, loopNow, processed, mergeDone,
                   exiting, buf, snap, lastFlush, dt, after, mergeVars, days,
                   snapfile, histVars>>

CloseChunk ==
    /\ pc = "writing"
    /\ chunks' = [chunks EXCEPT ![wstream][dt] = Whole(OfStream(rows, wstream))]
    /\ rows' = rows \ OfStream(rows, wstream)
    /\ wstream' = NoStream /\ pc' = "write"
    /\ UNCHANGED <<clock, emitted, queue, loopNow, processed, mergeDone,
                   exiting, buf, snap, lastFlush, dt, after, mergeVars, days, snapfile, histVars>>

\* A raising flush() leaves the loop; raised in finally it ends the process.
FlushRaises ==
    /\ IF exiting THEN ProcessEnds /\ Lose("failed", rows)
                  ELSE LeaveLoop("failed")
    /\ UNCHANGED <<clock, emitted, diskVars, starts, kills, epoch, accepted,
                   openSince>>

\* The table is built before the file is opened: a bad row raises there.
ChunkRaises(s) ==
    /\ pc = "write" /\ NextToWrite(s)
    /\ \E r \in OfStream(rows, s) : r.bad
    /\ FlushRaises

SnapRows == {snap[c] : c \in Codes} \ {NoRow}
SnapshotDue == SnapRows # {} /\ BeforeClose(dt)

OpenSnapshot ==
    /\ pc = "write" /\ rows = {} /\ SnapshotDue
    /\ \A r \in SnapRows : ~r.bad
    /\ snapfile' = Torn /\ pc' = "snapping"
    /\ UNCHANGED <<clock, emitted, queue, loopNow, processed, mergeDone,
                   exiting, buf, snap, lastFlush, flushVars, mergeVars,
                   chunks, days, histVars>>

SnapshotRaises ==
    /\ pc = "write" /\ rows = {} /\ SnapshotDue
    /\ \E r \in SnapRows : r.bad
    /\ FlushRaises

\* flush() returns: _last_flush_time becomes the dt it was given.
FlushReturns_StoresDeadline ==
    lastFlush' = dt + FlushInterval /\ pc' = after /\ DropFlushLocals
FlushReturns == lastFlush' = dt /\ pc' = after /\ DropFlushLocals

CloseSnapshot ==
    /\ pc = "snapping"
    /\ snapfile' = Whole(SnapRows)
    /\ FlushReturns
    /\ UNCHANGED <<clock, emitted, queue, loopNow, processed, mergeDone,
                   exiting, buf, snap, mergeVars, chunks, days, histVars>>

SkipSnapshot ==
    /\ pc = "write" /\ rows = {} /\ ~SnapshotDue
    /\ FlushReturns
    /\ UNCHANGED <<clock, emitted, queue, loopNow, processed, mergeDone,
                   exiting, buf, snap, mergeVars, diskVars, histVars>>

-----------------------------------------------------------------------------
(* ParquetWriter.merge_daily().                                            *)

ChunkTimes(s, d) == {t \in Time : DayOf[t] = d /\ chunks[s][t].st # "absent"}

BeginMerge ==
    /\ pc = "mergedue"
    /\ mday' = DayOf[loopNow] /\ mleft' = Streams /\ pc' = "merge"
    /\ UNCHANGED <<clock, emitted, queue, loopNow, processed, mergeDone,
                   exiting, buf, snap, lastFlush, flushVars, mstream, mchunks,
                   mrows, diskVars, histVars>>

\* Directory by directory, options before etf.
NextToMerge(s) ==
    /\ s \in mleft
    /\ s[2] = "etf" => <<s[1], "options">> \notin mleft
    /\ \A u \in Underlyings \ {s[1]} :
          <<u, "etf">> \in mleft => <<u, "options">> \in mleft

SkipStream_CleansUp(s) ==
    /\ pc = "merge" /\ NextToMerge(s)
    /\ \/ ChunkTimes(s, mday) = {}
       \/ \E t \in ChunkTimes(s, mday) : chunks[s][t].st = "torn"
    /\ mleft' = mleft \ {s}
    /\ chunks' = [chunks EXCEPT ![s] =
                     [t \in Time |-> IF DayOf[t] = mday THEN Absent ELSE @[t]]]
    /\ UNCHANGED <<clock, emitted, queue, loopVars, buf, snap, lastFlush,
                   flushVars, mday, mstream, mchunks, mrows, days, snapfile,
                   histVars>>

\* No chunk to merge, or one that cannot be read: logged, nothing touched.
SkipStream(s) ==
    /\ pc = "merge" /\ NextToMerge(s)
    /\ \/ ChunkTimes(s, mday) = {}
       \/ \E t \in ChunkTimes(s, mday) : chunks[s][t].st = "torn"
    /\ mleft' = mleft \ {s}
    /\ UNCHANGED <<clock, emitted, queue, loopVars, buf, snap, lastFlush,
                   flushVars, mday, mstream, mchunks, mrows, diskVars,
                   histVars>>

\* All chunks are read, concatenated and filtered; then the day file is
\* opened for writing, which discards what it held.
OpenDayFile(s) ==
    /\ pc = "merge" /\ NextToMerge(s)
    /\ ChunkTimes(s, mday) # {}
    /\ \A t \in ChunkTimes(s, mday) : chunks[s][t].st = "whole"
    /\ mleft' = mleft \ {s} /\ mstream' = s
    /\ mchunks' = ChunkTimes(s, mday)
    /\ mrows' = {r \in UNION {chunks[s][t].rows : t \in ChunkTimes(s, mday)} :
                    KeptByMerge(r, mday)}
    /\ days' = [days EXCEPT ![s][mday] = Torn]
    /\ Lose("clobbered", days[s][mday].rows \ mrows')
    /\ pc' = "merging"
    /\ UNCHANGED <<clock, emitted, queue, loopNow, processed, mergeDone,
                   exiting, buf, snap, lastFlush, flushVars, mday, chunks,
                   snapfile, starts, kills, epoch, accepted, openSince>>

CloseDayFile_LastPerCode ==
    /\ pc = "merging"
    /\ days' = [days EXCEPT ![mstream][mday] =
                   Whole({r \in mrows : \A q \in mrows :
                             q.code = r.code => q.id <= r.id})]
    /\ pc' = "unlink"
    /\ UNCHANGED <<clock, emitted, queue, loopNow, processed, mergeDone,
                   exiting, buf, snap, lastFlush, flushVars, mergeVars, chunks,
                   snapfile, histVars>>

CloseDayFile ==
    /\ pc = "merging"
    /\ days' = [days EXCEPT ![mstream][mday] = Whole(mrows)]
    /\ pc' = "unlink"
    /\ UNCHANGED <<clock, emitted, queue, loopNow, processed, mergeDone,
                   exiting, buf, snap, lastFlush, flushVars, mergeVars, chunks,
                   snapfile, histVars>>

\* The chunks go one by one, oldest first.
UnlinkChunk(t) ==
    /\ pc = "unlink" /\ t \in mchunks /\ \A u \in mchunks : t <= u
    /\ mchunks' = mchunks \ {t}
    /\ chunks' = [chunks EXCEPT ![mstream][t] = Absent]
    /\ Lose("filtered", chunks[mstream][t].rows \ mrows)
    /\ pc' = IF mchunks' = {} THEN "merge" ELSE "unlink"
    /\ UNCHANGED <<clock, emitted, queue, loopNow, processed, mergeDone,
                   exiting, buf, snap, lastFlush, flushVars, mday, mleft,
                   mstream, mrows, days, snapfile, starts, kills, epoch,
                   accepted, openSince>>

\* merge_daily() returns to the loop, or to the end of the finally block.
MergeReturns ==
    /\ pc = "merge" /\ mleft = {}
    /\ IF exiting
       THEN ProcessEnds
       ELSE /\ pc' = "top" /\ mergeDone' = TRUE /\ DropMergeLocals
            /\ UNCHANGED <<queue, loopNow, processed, exiting, buf, snap,
                           lastFlush, flushVars>>
    /\ UNCHANGED <<clock, emitted, diskVars, histVars>>

-----------------------------------------------------------------------------
(* The finally block of run().                                             *)

\* The queue is emptied into the writer whatever the hour.
ExitDequeue ==
    /\ pc = "exitdrain" /\ queue # <<>>
    /\ queue' = Tail(queue)
    /\ Accept(Head(queue))
    /\ UNCHANGED <<clock, emitted, loopVars, lastFlush, flushVars, mergeVars,
                   diskVars, starts, kills, epoch, lost>>

ExitFlush ==
    /\ pc = "exitdrain" /\ queue = <<>>
    /\ BeginFlush(clock, "exitmerge")
    /\ UNCHANGED <<clock, emitted, queue, loopNow, processed, mergeDone,
                   exiting, snap, lastFlush, mergeVars, diskVars, histVars>>

\* From 15:00 on the exit merges, unless this process already has.
ExitMerge ==
    /\ pc = "exitmerge"
    /\ IF AtOrAfterMergeHour(clock) /\ ~mergeDone
       THEN /\ mday' = DayOf[clock] /\ mleft' = Streams /\ pc' = "merge"
            /\ UNCHANGED <<queue, loopNow, processed, mergeDone, exiting, buf,
                           snap, lastFlush, flushVars, mstream, mchunks, mrows>>
       ELSE ProcessEnds
    /\ UNCHANGED <<clock, emitted, diskVars, histVars>>

-----------------------------------------------------------------------------
BusStep ==
    \/ LoopTop \/ Dequeue \/ EndOfDrain \/ MergeCheck
    \/ \E s \in Streams : OpenChunk(s) \/ ChunkRaises(s)
    \/ CloseChunk \/ OpenSnapshot \/ SnapshotRaises \/ CloseSnapshot
    \/ SkipSnapshot
    \/ BeginMerge
    \/ \E s \in Streams : SkipStream(s) \/ OpenDayFile(s)
    \/ CloseDayFile \/ MergeReturns
    \/ \E t \in Time : UnlinkChunk(t)
    \/ ExitDequeue \/ ExitFlush \/ ExitMerge

Next ==
    \/ AdvanceClock
    \/ \E c \in Codes, b \in BOOLEAN : Emit(c, b)
    \/ Start \/ Kill \/ Interrupt
    \/ BusStep

Spec == Init /\ [][Next]_vars

\* The loop never waits for anybody and the wall clock does not stop.
FairSpec == Spec /\ WF_vars(BusStep) /\ WF_vars(AdvanceClock)

-----------------------------------------------------------------------------
PcValues == {"off", "top", "drain", "check", "write", "writing", "snapping",
             "mergedue", "merge", "merging", "unlink", "exitdrain", "exitmerge"}

\* Type invariant: every variable of the loop thread, of ParquetWriter and of
\* the file system holds a value of its kind.
TypeOK ==
    /\ clock \in Time /\ emitted \in 0 .. MaxTicks /\ queue \in Seq(Row)
    /\ pc \in PcValues /\ loopNow \in Time /\ processed \in Nat
    /\ mergeDone \in BOOLEAN /\ exiting \in BOOLEAN
    /\ buf \subseteq Row /\ snap \in [Codes -> Row \cup {NoRow}]
    /\ lastFlush \in Time
    /\ rows \subseteq Row /\ dt \in Time
    /\ wstream \in IF pc = "writing" THEN Streams ELSE {NoStream}
    /\ after \in {"check", "mergedue", "exitmerge"}
    /\ mday \in Days /\ mleft \subseteq Streams
    /\ mstream \in Streams \cup {NoStream}
    /\ pc \in {"merging", "unlink"} => mstream \in Streams
    /\ mchunks \subseteq Time /\ mrows \subseteq Row
    /\ chunks \in [Streams -> [Time -> File]]
    /\ days \in [Streams -> [Days -> File]] /\ snapfile \in File
    /\ starts \in Nat /\ kills \in Nat /\ epoch \in 0 .. MaxTicks
    /\ accepted \subseteq Row /\ openSince \in Time
    /\ lost \in [Causes -> SUBSET Row]

IsLost(r) == \E c \in Causes : r \in lost[c]

\* A row handed to the writer is in its buffers, in a running flush(), in a
\* finished chunk or day file, or went in one of the five known ways: no
\* interleaving of flush, merge, kill and restart loses one unnoticed.
NoSilentLoss ==
    \A r \in accepted : r \in buf \cup rows \/ OnDisk(r) \/ IsLost(r)

\* What a file operation relies on until it is over: a file open for writing
\* holds nothing, the merged rows account for every session row of the chunks
\* still to be unlinked, and while chunks are unlinked the day file holds the
\* merged rows.
MergeHandsOver ==
    /\ pc = "writing" => chunks[wstream][dt].rows = {}
    /\ pc = "merging" => days[mstream][mday].rows = {}
    /\ pc = "unlink" => days[mstream][mday] = Whole(mrows)
    /\ pc \in {"merging", "unlink"} =>
          \A t \in mchunks :
              /\ DayOf[t] = mday
              /\ \A r \in chunks[mstream][t].rows :
                    KeptByMerge(r, mday) => r \in mrows

TornCount ==
    Cardinality({st \in Streams \X Time : chunks[st[1]][st[2]].st = "torn"})
      + Cardinality({sd \in Streams \X Days : days[sd[1]][sd[2]].st = "torn"})
      + (IF snapfile.st = "torn" THEN 1 ELSE 0)

Writing == pc \in {"writing", "snapping", "merging"}

\* "Each chunk is fully closed before the next is begun" (parquet_writer.py):
\* at most one file is open, and only a kill leaves an unreadable one behind.
OneFileOpenAtATime ==
    TornCount <= kills + (IF Writing THEN 1 ELSE 0)

\* "A crash loses at most the last flush_interval_secs seconds": the oldest
\* row still in memory was handed over no longer ago than one interval and
\* the time two iterations of the loop may take.
OpenWindowBounded ==
    buf \cup rows # {} => clock - openSince < FlushInterval + 2 * Lag

InLoop == pc \in {"top", "drain", "check", "mergedue"}

\* Between flushes before the close, snapshot_latest holds, for every code
\* this process has flushed, a row at least as new as any it flushed.
SnapshotFresh ==
    InLoop /\ BeforeClose(lastFlush) =>
        \A r \in accepted \ buf : r.id > epoch =>
            \E q \in snapfile.rows : q.code = r.code /\ q.id >= r.id

\* Once this process has merged, until the night ends, every row of the day
\* that the filter keeps is in its day file, unless it was lost or a torn chunk made the stream unreadable.
DayFileComplete ==
    InLoop /\ mergeDone /\ AtOrAfterMergeHour(loopNow) =>
        \A r \in accepted :
            KeptByMerge(r, DayOf[loopNow]) =>
                \/ r \in days[Stream(r)][DayOf[loopNow]].rows
                \/ IsLost(r)
                \/ \E t \in ChunkTimes(Stream(r), DayOf[loopNow]) :
                      chunks[Stream(r)][t].st = "torn"

\* The session filter of merge_daily never drops a row of 9:30 - 11:30 or
\* 13:00 - 15:00, the hours its comments say it keeps: a flush and the rows it writes are never on different sides of
\* midnight.  Nothing is said of 9:15 - 9:29, which the comments leave out and the
\* mask keeps.
FilterDropsOffSession == \A r \in lost["filtered"] : Phase[r.ts] \notin Session

\* A chunk is unlinked only when its session rows are in a finished day file.
UnlinkOnlyArchived ==
    [][\A s \in Streams, t \in Time :
          chunks[s][t].st = "whole" /\ chunks'[s][t].st = "absent" =>
              /\ days'[s][DayOf[t]].st = "whole"
              /\ \A r \in chunks[s][t].rows :
                    KeptByMerge(r, DayOf[t]) => r \in days'[s][DayOf[t]].rows]_vars

\* The recorder implements TickLedger: seen through "in memory", "on disk" and
\* "neither", no step brings a lost row back, loses a row that it did not hold,
\* or moves a row from disk to memory only.
Ledger == INSTANCE TickLedger WITH
    Entry <- Row,
    volatile <- {r \in accepted : r \in buf \cup rows /\ ~OnDisk(r)},
    durable <- {r \in accepted : OnDisk(r)},
    gone <- {r \in accepted : r \notin buf \cup rows /\ ~OnDisk(r)}

ImplementsLedger == Ledger!Spec

\* A buffered row leaves memory: the loop reaches the next flush, whatever
\* the DDE thread keeps adding, unless the process stops first.
BufferedRowsReachDisk ==
    \A i \in 1 .. MaxTicks :
        (\E r \in buf : r.id = i) /\ lastFlush + FlushInterval <= MaxTime
            ~> \E r \in accepted : r.id = i /\ (OnDisk(r) \/ IsLost(r))

\* A loop that is running when a second of the merge hour begins merges the
\* day or is stopped.
MergeHourMerges ==
    pc # "off" /\ ~exiting /\ Phase[clock] = "merge" /\ loopNow # clock
        ~> mergeDone \/ exiting \/ pc = "off"

\* parquet_writer.py, lines 7-8: chunks are finished one by one and a crash
\* loses only unflushed data, so a row in a finished file is never lost again.
FinishedFilesAreKept == lost["clobbered"] = {}

\* bus.py, line 158: the merge is "not repeated the same day once triggered".
\* A finished day file is opened again only while the chunks still hold every
\* row of it.
RemergeKeepsDayRows ==
    [][\A s \in Streams, d \in Days :
          days[s][d].st = "whole" /\ days'[s][d].st = "torn" =>
              days[s][d].rows \subseteq UNION {chunks[s][t].rows : t \in Time}]_vars

\* bus.py, line 10: Ctrl+C "flushes the remaining data first".
CtrlCFlushesAll == lost["interrupted"] = {}
=============================================================================
