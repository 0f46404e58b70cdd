--------------------------- MODULE RecorderProofs ---------------------------
(***************************************************************************)
(* Proofs about Recorder for every value of its constants: no row is lost  *)
(* silently, how old the files and the buffers may be, that the files do   *)
(* what TickLedger allows, that at most one is open at a time, and that    *)
(* the merge drops no session row and leaves a complete day file.          *)
(***************************************************************************)
EXTENDS Recorder, TLAPS, FiniteSetTheorems

LEMMA TypeInit == Init => TypeOK
  <1> SUFFICES ASSUME Init PROVE TypeOK
    OBVIOUS
  <1> USE ConstantsOK DEF Init, TypeOK
  <1>1. 0 \in Time
    BY DEF Time
  <1>2. DayOf[0] \in Days
    BY <1>1 DEF Days
  <1>3. /\ chunks \in [Streams -> [Time -> File]]
        /\ days \in [Streams -> [Days -> File]] /\ snapfile \in File
    BY DEF File, Absent
  <1>4. snap \in [Codes -> Row \cup {NoRow}]
    BY DEF NoSnap
  <1>5. lost \in [Causes -> SUBSET Row]
    OBVIOUS
  <1>6. queue \in Seq(Row)
    OBVIOUS
  <1>7. wstream = NoStream /\ mstream = NoStream
    OBVIOUS
  <1>8. /\ emitted \in 0 .. MaxTicks /\ epoch \in 0 .. MaxTicks /\ kills \in Nat
        /\ starts \in Nat /\ processed \in Nat
    OBVIOUS
  <1>9. pc \in PcValues
    BY DEF PcValues
  <1>10. /\ clock \in Time /\ loopNow \in Time /\ lastFlush \in Time
         /\ dt \in Time /\ openSince \in Time
    BY <1>1
  <1>11. QED
    BY <1>2, <1>3, <1>4, <1>5, <1>6, <1>7, <1>8, <1>9, <1>10

\* What the end of a process, and leaving the loop, leave behind.
LEMMA TypeProcessEnds ==
  ASSUME TypeOK, ProcessEnds
  PROVE  /\ queue' \in Seq(Row) /\ pc' \in PcValues /\ loopNow' \in Time
         /\ processed' \in Nat /\ mergeDone' \in BOOLEAN /\ exiting' \in BOOLEAN
         /\ buf' \subseteq Row /\ snap' \in [Codes -> Row \cup {NoRow}]
         /\ lastFlush' \in Time /\ rows' \subseteq Row /\ dt' \in Time
         /\ wstream' = NoStream
         /\ after' \in {"check", "mergedue", "exitmerge"}
         /\ mday' \in Days /\ mleft' \subseteq Streams
         /\ mstream' \in Streams \cup {NoStream}
         /\ mchunks' \subseteq Time /\ mrows' \subseteq Row
         /\ pc' \notin {"writing", "merging", "unlink"}
  <1>1. 0 \in Time /\ DayOf[0] \in Days
    BY ConstantsOK DEF Time, Days
  <1>2. snap' \in [Codes -> Row \cup {NoRow}]
    BY DEF ProcessEnds, NoSnap
  <1>3. queue' \in Seq(Row)
    BY DEF ProcessEnds
  <1>4. pc' \in PcValues /\ exiting' \in BOOLEAN /\ mergeDone' \in BOOLEAN
    BY DEF ProcessEnds, PcValues
  <1>5. QED
    BY <1>1, <1>2, <1>3, <1>4 DEF ProcessEnds, DropFlushLocals, DropMergeLocals

\* Recording a loss keeps the history well typed.
LEMMA TypeLose ==
  ASSUME TypeOK, NEW cause, NEW R \in SUBSET Row, Lose(cause, R)
  PROVE  lost' \in [Causes -> SUBSET Row]
  BY DEF TypeOK, Lose

\* What a chunk or day file holds are rows.
LEMMA FileRows ==
  ASSUME TypeOK, NEW s \in Streams
  PROVE  /\ \A t \in Time : chunks[s][t].rows \subseteq Row
         /\ \A d \in Days : days[s][d].rows \subseteq Row
  BY DEF TypeOK, File

LEMMA TypeLeaveLoop ==
  ASSUME TypeOK, NEW cause \in Causes, LeaveLoop(cause)
  PROVE  /\ queue' \in Seq(Row) /\ pc' \in PcValues /\ loopNow' \in Time
         /\ processed' \in Nat /\ mergeDone' \in BOOLEAN /\ exiting' \in BOOLEAN
         /\ buf' \subseteq Row /\ snap' \in [Codes -> Row \cup {NoRow}]
         /\ lastFlush' \in Time /\ rows' \subseteq Row /\ dt' \in Time
         /\ wstream' = NoStream
         /\ after' \in {"check", "mergedue", "exitmerge"}
         /\ mday' \in Days /\ mleft' \subseteq Streams
         /\ mstream' \in Streams \cup {NoStream}
         /\ mchunks' \subseteq Time /\ mrows' \subseteq Row
         /\ pc' \notin {"writing", "merging", "unlink"}
         /\ lost' \in [Causes -> SUBSET Row]
  <1>1. 0 \in Time /\ DayOf[0] \in Days
    BY ConstantsOK DEF Time, Days
  <1>2. lost' \in [Causes -> SUBSET Row]
    BY DEF TypeOK, LeaveLoop, Lose
  <1>3. QED
    BY <1>1, <1>2 DEF TypeOK, LeaveLoop, DropFlushLocals, DropMergeLocals,
                      PcValues, NoStream

LEMMA TypeFlushRaises ==
  ASSUME TypeOK, FlushRaises, UNCHANGED diskVars
  PROVE  TypeOK'
  <1>1. lost' \in [Causes -> SUBSET Row]
    BY DEF TypeOK, FlushRaises, LeaveLoop, Lose, Causes
  <1>2. CASE exiting
    BY <1>1, <1>2, TypeProcessEnds DEF FlushRaises, TypeOK, diskVars
  <1>3. CASE ~exiting
    <2>1. LeaveLoop("failed") /\ "failed" \in Causes
      BY <1>3 DEF FlushRaises, Causes
    <2>2. QED
      BY <1>1, <2>1, TypeLeaveLoop DEF FlushRaises, TypeOK, diskVars
  <1>4. QED
    BY <1>2, <1>3

LEMMA TypeAccept ==
  ASSUME TypeOK, NEW r \in Row, Accept(r)
  PROVE  /\ buf' \subseteq Row /\ snap' \in [Codes -> Row \cup {NoRow}]
         /\ accepted' \subseteq Row /\ openSince' \in Time
  BY DEF TypeOK, Accept, Row

LEMMA TypeBeginFlush ==
  ASSUME TypeOK, NEW t \in Time,
         NEW next \in {"check", "mergedue", "exitmerge"}, BeginFlush(t, next)
  PROVE  /\ rows' \subseteq Row /\ buf' \subseteq Row /\ dt' \in Time
         /\ after' \in {"check", "mergedue", "exitmerge"} /\ pc' \in PcValues
         /\ wstream' = wstream /\ pc' = "write"
  BY DEF TypeOK, BeginFlush, PcValues

\* Emptying and filling the queue.
LEMMA QueueTyping ==
  ASSUME NEW q \in Seq(Row)
  PROVE  /\ q # <<>> => Head(q) \in Row /\ Tail(q) \in Seq(Row)
         /\ \A r \in Row : Append(q, r) \in Seq(Row)
  OBVIOUS

\* Every action keeps every variable of its kind.
LEMMA TypeNext == TypeOK /\ [Next]_vars => TypeOK'
  <1> SUFFICES ASSUME TypeOK, [Next]_vars PROVE TypeOK'
    OBVIOUS
  <1> USE DEF diskVars, histVars, mergeVars, flushVars, loopVars
  <1>1. CASE AdvanceClock
    BY <1>1, ConstantsOK DEF AdvanceClock, TypeOK, Time
  <1>2. ASSUME NEW c \in Codes, NEW b \in BOOLEAN, Emit(c, b) PROVE TypeOK'
    <2>1. emitted' \in 0 .. MaxTicks /\ emitted + 1 \in 1 .. MaxTicks
      BY <1>2, ConstantsOK DEF Emit, TypeOK
    <2>2. [id |-> emitted + 1, code |-> c, ts |-> clock, bad |-> b] \in Row
      BY <2>1 DEF Row, TypeOK
    <2>3. queue' \in Seq(Row)
      BY <1>2, <2>2, QueueTyping DEF Emit, TypeOK
    <2>4. QED
      BY <1>2, <2>1, <2>3 DEF Emit, TypeOK
  <1>3. CASE Start
    BY <1>3 DEF Start, TypeOK, PcValues
  <1>4. CASE Kill
    <2>1. lost' \in [Causes -> SUBSET Row]
      BY <1>4 DEF Kill, Lose, TypeOK
    <2>2. QED
      BY <1>4, <2>1, TypeProcessEnds DEF Kill, TypeOK
  <1>5. CASE Interrupt
    <2>1. LeaveLoop("interrupted") /\ "interrupted" \in Causes
      BY <1>5 DEF Interrupt, Causes
    <2>2. QED
      BY <1>5, <2>1, TypeLeaveLoop DEF Interrupt, TypeOK
  <1>6. CASE LoopTop
    BY <1>6 DEF LoopTop, TypeOK, PcValues
  <1>7. CASE Dequeue
    <2>1. queue' \in Seq(Row) /\ Head(queue) \in Row
      BY <1>7, QueueTyping DEF Dequeue, TypeOK
    <2>2. /\ buf' \subseteq Row /\ snap' \in [Codes -> Row \cup {NoRow}]
          /\ accepted' \subseteq Row /\ openSince' \in Time
      BY <1>7, <2>1, TypeAccept DEF Dequeue, TypeOK
    <2>3. QED
      BY <1>7, <2>1, <2>2 DEF Dequeue, TypeOK
  <1>8. CASE EndOfDrain
    BY <1>8, TypeBeginFlush DEF EndOfDrain, TypeOK, PcValues
  <1>9. CASE MergeCheck
    BY <1>9, TypeBeginFlush DEF MergeCheck, TypeOK, PcValues
  <1>10. ASSUME NEW s \in Streams, OpenChunk(s) PROVE TypeOK'
    <2>1. chunks' \in [Streams -> [Time -> File]]
      BY <1>10 DEF OpenChunk, TypeOK, File, Torn
    <2>2. lost' \in [Causes -> SUBSET Row]
      <3>1. chunks[s][dt].rows \ days[s][DayOf[dt]].rows \in SUBSET Row
        BY FileRows DEF TypeOK
      <3>2. QED
        BY <1>10, <3>1, TypeLose DEF OpenChunk
    <2>3. QED
      BY <1>10, <2>1, <2>2 DEF OpenChunk, TypeOK, PcValues
  <1>11. CASE CloseChunk
    <2>1. chunks' \in [Streams -> [Time -> File]]
      BY <1>11 DEF CloseChunk, TypeOK, File, Whole, OfStream
    <2>2. QED
      BY <1>11, <2>1 DEF CloseChunk, TypeOK, PcValues
  <1>12. ASSUME NEW s \in Streams, ChunkRaises(s) PROVE TypeOK'
    BY <1>12, TypeFlushRaises DEF ChunkRaises, FlushRaises
  <1>13. CASE OpenSnapshot
    BY <1>13 DEF OpenSnapshot, TypeOK, PcValues, File, Torn
  <1>14. CASE SnapshotRaises
    BY <1>14, TypeFlushRaises DEF SnapshotRaises, FlushRaises
  <1>15. CASE CloseSnapshot
    <2>1. snapfile' \in File
      BY <1>15 DEF CloseSnapshot, TypeOK, File, Whole, SnapRows
    <2>2. QED
      BY <1>15, <2>1, ConstantsOK
         DEF CloseSnapshot, TypeOK, PcValues, FlushReturns, DropFlushLocals, Time
  <1>16. CASE SkipSnapshot
    BY <1>16, ConstantsOK
       DEF SkipSnapshot, TypeOK, PcValues, FlushReturns, DropFlushLocals, Time
  <1>17. CASE BeginMerge
    BY <1>17 DEF BeginMerge, TypeOK, PcValues, Days
  <1>18. ASSUME NEW s \in Streams, SkipStream(s) PROVE TypeOK'
    BY <1>18 DEF SkipStream, TypeOK
  <1>19. ASSUME NEW s \in Streams, OpenDayFile(s) PROVE TypeOK'
    <2>1. days' \in [Streams -> [Days -> File]]
      BY <1>19 DEF OpenDayFile, TypeOK, File, Torn
    <2>2. mchunks' \subseteq Time /\ mrows' \subseteq Row
      BY <1>19 DEF OpenDayFile, TypeOK, File, ChunkTimes
    <2>3. lost' \in [Causes -> SUBSET Row]
      <3>1. days[s][mday].rows \ mrows' \in SUBSET Row
        BY FileRows DEF TypeOK
      <3>2. QED
        BY <1>19, <3>1, TypeLose DEF OpenDayFile
    <2>4. QED
      BY <1>19, <2>1, <2>2, <2>3 DEF OpenDayFile, TypeOK, PcValues
  <1>20. CASE CloseDayFile
    <2>1. days' \in [Streams -> [Days -> File]]
      BY <1>20 DEF CloseDayFile, TypeOK, File, Whole
    <2>2. QED
      BY <1>20, <2>1 DEF CloseDayFile, TypeOK, PcValues
  <1>21. CASE MergeReturns
    <2>1. CASE exiting
      BY <1>21, <2>1, TypeProcessEnds DEF MergeReturns, TypeOK
    <2>2. CASE ~exiting
      <3>1. DayOf[0] \in Days
        BY ConstantsOK DEF Days, Time
      <3>2. QED
        BY <1>21, <2>2, <3>1 DEF MergeReturns, TypeOK, PcValues, DropMergeLocals
    <2>3. QED
      BY <2>1, <2>2
  <1>22. ASSUME NEW t \in Time, UnlinkChunk(t) PROVE TypeOK'
    <2>1. chunks' \in [Streams -> [Time -> File]]
      BY <1>22 DEF UnlinkChunk, TypeOK, File, Absent
    <2>2. mchunks' \subseteq Time
      BY <1>22 DEF UnlinkChunk, TypeOK
    <2>3. lost' \in [Causes -> SUBSET Row]
      <3>1. mstream \in Streams => chunks[mstream][t].rows \in SUBSET Row
        BY FileRows
      <3>2. mstream \in Streams
        BY <1>22 DEF UnlinkChunk, TypeOK
      <3>3. QED
        BY <1>22, <3>1, <3>2, TypeLose DEF UnlinkChunk
    <2>4. QED
      BY <1>22, <2>1, <2>2, <2>3 DEF UnlinkChunk, TypeOK, PcValues
  <1>23. CASE ExitDequeue
    <2>1. queue' \in Seq(Row) /\ Head(queue) \in Row
      BY <1>23, QueueTyping DEF ExitDequeue, TypeOK
    <2>2. /\ buf' \subseteq Row /\ snap' \in [Codes -> Row \cup {NoRow}]
          /\ accepted' \subseteq Row /\ openSince' \in Time
      BY <1>23, <2>1, TypeAccept DEF ExitDequeue
    <2>3. QED
      BY <1>23, <2>1, <2>2 DEF ExitDequeue, TypeOK
  <1>24. CASE ExitFlush
    BY <1>24, TypeBeginFlush DEF ExitFlush, TypeOK
  <1>25. CASE ExitMerge
    <2>1. CASE AtOrAfterMergeHour(clock) /\ ~mergeDone
      BY <1>25, <2>1 DEF ExitMerge, TypeOK, PcValues, Days
    <2>2. CASE ~(AtOrAfterMergeHour(clock) /\ ~mergeDone)
      BY <1>25, <2>2, TypeProcessEnds DEF ExitMerge, TypeOK
    <2>3. QED
      BY <2>1, <2>2
  <1>26. CASE UNCHANGED vars
    BY <1>26 DEF vars, TypeOK
  <1>27. QED
    BY <1>1, <1>2, <1>3, <1>4, <1>5, <1>6, <1>7, <1>8, <1>9, <1>10, <1>11,
       <1>12, <1>13, <1>14, <1>15, <1>16, <1>17, <1>18, <1>19, <1>20, <1>21,
       <1>22, <1>23, <1>24, <1>25, <1>26 DEF Next, BusStep

\* Type correctness of the recorder for any set of codes, any clock, any
\* flush interval and any number of restarts.
THEOREM TypeCorrect == Spec => []TypeOK
  <1>1. QED
    BY TypeInit, TypeNext, PTL DEF Spec

-----------------------------------------------------------------------------
(* What a running file operation relies on.                                *)

LEMMA HandsOverInit == Init => MergeHandsOver
  BY DEF Init, MergeHandsOver

\* Steps that leave no file operation under way.
LEMMA HandsOverIdle ==
  ASSUME pc' \notin {"writing", "merging", "unlink"}
  PROVE  MergeHandsOver'
  BY DEF MergeHandsOver

\* Steps that leave the operation under way alone.
LEMMA HandsOverSame ==
  ASSUME MergeHandsOver, UNCHANGED <<pc, flushVars, mergeVars, diskVars>>
  PROVE  MergeHandsOver'
  BY DEF MergeHandsOver, flushVars, mergeVars, diskVars, KeptByMerge

LEMMA HandsOverNext ==
  TypeOK /\ MergeHandsOver /\ [Next]_vars => MergeHandsOver'
  <1> SUFFICES ASSUME TypeOK, MergeHandsOver, [Next]_vars
               PROVE  MergeHandsOver'
    OBVIOUS
  <1>1. CASE AdvanceClock
    BY <1>1, HandsOverSame DEF AdvanceClock, loopVars
  <1>2. ASSUME NEW c \in Codes, NEW b \in BOOLEAN, Emit(c, b)
        PROVE  MergeHandsOver'
    BY <1>2, HandsOverSame DEF Emit, loopVars
  <1>3. CASE Start \/ LoopTop
    BY <1>3, HandsOverIdle DEF Start, LoopTop
  <1>4. CASE Kill \/ Interrupt
    BY <1>4, HandsOverIdle DEF Kill, Interrupt, ProcessEnds, LeaveLoop
  <1>5. CASE Dequeue \/ ExitDequeue
    BY <1>5, HandsOverSame DEF Dequeue, ExitDequeue, loopVars
  <1>6. CASE EndOfDrain \/ MergeCheck \/ ExitFlush
    BY <1>6, HandsOverIdle DEF EndOfDrain, MergeCheck, ExitFlush, BeginFlush
  <1>7. ASSUME NEW s \in Streams, OpenChunk(s) PROVE MergeHandsOver'
    <2>1. chunks'[s][dt].rows = {}
      BY <1>7 DEF OpenChunk, Torn, TypeOK
    <2>2. QED
      BY <1>7, <2>1 DEF OpenChunk, MergeHandsOver
  <1>8. CASE CloseChunk
    BY <1>8, HandsOverIdle DEF CloseChunk
  <1>9. ASSUME NEW s \in Streams, ChunkRaises(s) PROVE MergeHandsOver'
    BY <1>9, HandsOverIdle DEF ChunkRaises, FlushRaises, ProcessEnds, LeaveLoop
  <1>10. CASE SnapshotRaises
    BY <1>10, HandsOverIdle DEF SnapshotRaises, FlushRaises, ProcessEnds, LeaveLoop
  <1>11. CASE OpenSnapshot
    BY <1>11, HandsOverIdle DEF OpenSnapshot
  <1>12. CASE CloseSnapshot \/ SkipSnapshot
    BY <1>12, HandsOverIdle DEF CloseSnapshot, SkipSnapshot, FlushReturns, TypeOK
  <1>13. CASE BeginMerge
    BY <1>13, HandsOverIdle DEF BeginMerge
  <1>14. ASSUME NEW s \in Streams, SkipStream(s) PROVE MergeHandsOver'
    BY <1>14, HandsOverIdle DEF SkipStream, loopVars
  <1>15. ASSUME NEW s \in Streams, OpenDayFile(s) PROVE MergeHandsOver'
    <2>1. days'[s][mday].rows = {}
      BY <1>15 DEF OpenDayFile, Torn, TypeOK
    <2>2. ASSUME NEW t \in mchunks'
          PROVE  /\ DayOf[t] = mday
                 /\ \A r \in chunks[s][t].rows :
                        KeptByMerge(r, mday) => r \in mrows'
      BY <1>15, <2>2 DEF OpenDayFile, ChunkTimes
    <2>3. QED
      BY <1>15, <2>1, <2>2 DEF OpenDayFile, MergeHandsOver, KeptByMerge
  <1>16. CASE CloseDayFile
    <2>1. days'[mstream][mday] = Whole(mrows)
      BY <1>16 DEF CloseDayFile, TypeOK
    <2>2. QED
      BY <1>16, <2>1
         DEF CloseDayFile, MergeHandsOver, mergeVars, KeptByMerge, Whole
  <1>17. CASE MergeReturns
    BY <1>17, HandsOverIdle DEF MergeReturns, ProcessEnds
  <1>18. ASSUME NEW t \in Time, UnlinkChunk(t) PROVE MergeHandsOver'
    <2>1. CASE mchunks' = {}
      BY <1>18, <2>1, HandsOverIdle DEF UnlinkChunk
    <2>2. CASE mchunks' # {}
      <3>1. \A u \in mchunks' : chunks'[mstream][u] = chunks[mstream][u]
        BY <1>18 DEF UnlinkChunk, TypeOK
      <3>2. pc = "unlink" /\ pc' = "unlink" /\ mchunks' \subseteq mchunks
        BY <1>18, <2>2 DEF UnlinkChunk
      <3>3. UNCHANGED <<mday, mstream, mrows, days>>
        BY <1>18 DEF UnlinkChunk
      <3>4. QED
        BY <3>1, <3>2, <3>3 DEF MergeHandsOver, KeptByMerge, Whole
    <2>3. QED
      BY <2>1, <2>2
  <1>19. CASE ExitMerge
    BY <1>19, HandsOverIdle DEF ExitMerge, ProcessEnds
  <1>20. CASE UNCHANGED vars
    BY <1>20, HandsOverSame DEF vars, loopVars
  <1>21. QED
    BY <1>1, <1>2, <1>3, <1>4, <1>5, <1>6, <1>7, <1>8, <1>9, <1>10, <1>11,
       <1>12, <1>13, <1>14, <1>15, <1>16, <1>17, <1>18, <1>19, <1>20
       DEF Next, BusStep

\* Every file operation, interrupted or not, finds and leaves the files in the
\* state it relies on.
THEOREM HandsOverCorrect == Spec => []MergeHandsOver
  <1>1. QED
    BY TypeCorrect, HandsOverInit, HandsOverNext, PTL DEF Spec

-----------------------------------------------------------------------------
(* No row disappears unnoticed.                                            *)

\* The history of losses only grows, by exactly what is recorded.
LEMMA LoseGrows ==
  ASSUME TypeOK, NEW cause \in Causes, NEW R, Lose(cause, R)
  PROVE  /\ \A c \in Causes : lost[c] \subseteq lost'[c]
         /\ R \subseteq lost'[cause]
  BY DEF TypeOK, Lose

\* Steps that leave the chunk and day files and the set of rows handed over
\* alone, and let go of no row in memory without recording it.
LEMMA MemoryOnlyStep ==
  ASSUME NoSilentLoss, UNCHANGED <<accepted, chunks, days>>,
         \A c \in Causes : lost[c] \subseteq lost'[c],
         \A r \in buf \cup rows : r \in buf' \cup rows' \/ IsLost(r)'
  PROVE  NoSilentLoss'
  <1>1. \A r : OnDisk(r) => OnDisk(r)'
    BY DEF OnDisk, Stream
  <1>2. \A r : IsLost(r) => IsLost(r)'
    BY DEF IsLost
  <1>3. QED
    BY <1>1, <1>2 DEF NoSilentLoss

\* A row handed to the writer goes to its buffer.
LEMMA AcceptStep ==
  ASSUME NoSilentLoss, NEW r, Accept(r), UNCHANGED <<rows, chunks, days, lost>>
  PROVE  NoSilentLoss'
  <1>1. accepted' = accepted \cup {r} /\ buf' = buf \cup {r}
    BY DEF Accept
  <1>2. \A q : OnDisk(q) => OnDisk(q)'
    BY DEF OnDisk, Stream
  <1>3. \A q : IsLost(q) => IsLost(q)'
    BY DEF IsLost
  <1>4. QED
    BY <1>1, <1>2, <1>3 DEF NoSilentLoss

\* Steps that change files: every row in a file stays on disk, stays in memory
\* or is recorded as lost.
LEMMA FileStep ==
  ASSUME NoSilentLoss, UNCHANGED <<accepted, buf>>,
         \A c \in Causes : lost[c] \subseteq lost'[c],
         \A r \in rows : r \in rows' \/ OnDisk(r)',
         \A r \in accepted : OnDisk(r) => OnDisk(r)' \/ IsLost(r)'
  PROVE  NoSilentLoss'
  <1>1. \A r : IsLost(r) => IsLost(r)'
    BY DEF IsLost
  <1>2. QED
    BY <1>1 DEF NoSilentLoss

\* The stream of a row, and the day a file is filed under.
LEMMA StreamTyping ==
  /\ \A r \in Row : Stream(r) \in Streams
  /\ \A t \in Time : DayOf[t] \in Days
  BY ConstantsOK DEF Row, Stream, Days

LEMMA NoLossInit == Init => NoSilentLoss
  BY DEF Init, NoSilentLoss

LEMMA NoLossOpenChunk ==
  ASSUME TypeOK, NoSilentLoss, NEW s \in Streams, OpenChunk(s)
  PROVE  NoSilentLoss'
  <1>1. /\ \A c \in Causes : lost[c] \subseteq lost'[c]
        /\ chunks[s][dt].rows \ days[s][DayOf[dt]].rows \subseteq lost'["clobbered"]
    BY LoseGrows DEF OpenChunk, Causes
  <1>2. ASSUME NEW r \in accepted, OnDisk(r) PROVE OnDisk(r)' \/ IsLost(r)'
    <2>1. CASE Stream(r) = s /\ r \in chunks[s][dt].rows
      <3>1. CASE r \in days[s][DayOf[dt]].rows
        BY <1>2, <2>1, <3>1, StreamTyping DEF OpenChunk, OnDisk, TypeOK, Stream
      <3>2. CASE r \notin days[s][DayOf[dt]].rows
        BY <1>1, <2>1, <3>2 DEF IsLost, Causes
      <3>3. QED
        BY <3>1, <3>2
    <2>2. CASE ~(Stream(r) = s /\ r \in chunks[s][dt].rows)
      <3>1. \A t \in Time : r \in chunks[Stream(r)][t].rows =>
                              r \in chunks'[Stream(r)][t].rows
        BY <2>2, StreamTyping DEF OpenChunk, TypeOK
      <3>2. QED
        BY <1>2, <3>1 DEF OpenChunk, OnDisk, Stream
    <2>3. QED
      BY <2>1, <2>2
  <1>3. QED
    BY <1>1, <1>2, FileStep DEF OpenChunk

LEMMA NoLossCloseChunk ==
  ASSUME TypeOK, MergeHandsOver, NoSilentLoss, CloseChunk
  PROVE  NoSilentLoss'
  <1>1. /\ wstream \in Streams /\ dt \in Time
        /\ chunks[wstream][dt].rows = {}
        /\ chunks'[wstream][dt].rows = OfStream(rows, wstream)
    BY DEF CloseChunk, TypeOK, MergeHandsOver, Whole
  <1>2. ASSUME NEW r \in rows PROVE r \in rows' \/ OnDisk(r)'
    BY <1>1, <1>2 DEF CloseChunk, OnDisk, OfStream, Stream
  <1>3. ASSUME NEW r \in accepted, OnDisk(r) PROVE OnDisk(r)'
    <2>1. \A t \in Time : r \in chunks[Stream(r)][t].rows =>
                            r \in chunks'[Stream(r)][t].rows
      BY <1>1, StreamTyping DEF CloseChunk, TypeOK
    <2>2. QED
      BY <1>3, <2>1 DEF CloseChunk, OnDisk, Stream
  <1>4. QED
    BY <1>2, <1>3, FileStep DEF CloseChunk, histVars

LEMMA NoLossOpenDayFile ==
  ASSUME TypeOK, NoSilentLoss, NEW s \in Streams, OpenDayFile(s)
  PROVE  NoSilentLoss'
  <1>1. /\ \A c \in Causes : lost[c] \subseteq lost'[c]
        /\ days[s][mday].rows \ mrows' \subseteq lost'["clobbered"]
    BY LoseGrows DEF OpenDayFile, Causes
  <1>2. ASSUME NEW r \in accepted, OnDisk(r) PROVE OnDisk(r)' \/ IsLost(r)'
    <2>1. CASE Stream(r) = s /\ r \in days[s][mday].rows
      <3>1. CASE r \in mrows'
        <4>1. \E t \in Time : r \in chunks[s][t].rows
          BY <3>1 DEF OpenDayFile, ChunkTimes
        <4>2. QED
          BY <2>1, <4>1 DEF OpenDayFile, OnDisk, Stream
      <3>2. CASE r \notin mrows'
        BY <1>1, <2>1, <3>2 DEF IsLost, Causes
      <3>3. QED
        BY <3>1, <3>2
    <2>2. CASE ~(Stream(r) = s /\ r \in days[s][mday].rows)
      <3>1. \A d \in Days : r \in days[Stream(r)][d].rows =>
                              r \in days'[Stream(r)][d].rows
        BY <2>2, StreamTyping DEF OpenDayFile, TypeOK
      <3>2. QED
        BY <1>2, <3>1 DEF OpenDayFile, OnDisk, Stream
    <2>3. QED
      BY <2>1, <2>2
  <1>3. QED
    BY <1>1, <1>2, FileStep DEF OpenDayFile, flushVars

LEMMA NoLossCloseDayFile ==
  ASSUME TypeOK, MergeHandsOver, NoSilentLoss, CloseDayFile
  PROVE  NoSilentLoss'
  <1>1. mstream \in Streams /\ mday \in Days /\ days[mstream][mday].rows = {}
    BY DEF CloseDayFile, TypeOK, MergeHandsOver
  <1>2. ASSUME NEW r \in accepted, OnDisk(r) PROVE OnDisk(r)'
    <2>1. \A d \in Days : r \in days[Stream(r)][d].rows =>
                            r \in days'[Stream(r)][d].rows
      BY <1>1, StreamTyping DEF CloseDayFile, TypeOK
    <2>2. QED
      BY <1>2, <2>1 DEF CloseDayFile, OnDisk, Stream
  <1>3. QED
    BY <1>2, FileStep DEF CloseDayFile, histVars, flushVars

LEMMA NoLossUnlinkChunk ==
  ASSUME TypeOK, MergeHandsOver, NoSilentLoss, NEW t \in Time, UnlinkChunk(t)
  PROVE  NoSilentLoss'
  <1>1. /\ mstream \in Streams /\ mday \in Days
        /\ days[mstream][mday].rows = mrows
    BY DEF UnlinkChunk, TypeOK, MergeHandsOver, Whole
  <1>2. /\ \A c \in Causes : lost[c] \subseteq lost'[c]
        /\ chunks[mstream][t].rows \ mrows \subseteq lost'["filtered"]
    BY LoseGrows DEF UnlinkChunk, Causes
  <1>3. ASSUME NEW r \in accepted, OnDisk(r) PROVE OnDisk(r)' \/ IsLost(r)'
    <2>1. CASE Stream(r) = mstream /\ r \in chunks[mstream][t].rows
      <3>1. CASE r \in mrows
        BY <1>1, <2>1, <3>1 DEF UnlinkChunk, OnDisk, Stream
      <3>2. CASE r \notin mrows
        BY <1>2, <2>1, <3>2 DEF IsLost, Causes
      <3>3. QED
        BY <3>1, <3>2
    <2>2. CASE ~(Stream(r) = mstream /\ r \in chunks[mstream][t].rows)
      <3>1. \A u \in Time : r \in chunks[Stream(r)][u].rows =>
                              r \in chunks'[Stream(r)][u].rows
        BY <2>2, StreamTyping DEF UnlinkChunk, TypeOK
      <3>2. QED
        BY <1>3, <3>1 DEF UnlinkChunk, OnDisk, Stream
    <2>3. QED
      BY <2>1, <2>2
  <1>4. QED
    BY <1>2, <1>3, FileStep DEF UnlinkChunk, flushVars

\* Where rows in memory can be: only a flush() under way holds copied rows, and
\* once the finally block has flushed the buffers stay empty.
FlushHandsOver ==
    /\ pc \notin {"write", "writing"} => rows = {}
    /\ exiting /\ pc # "exitdrain" => buf = {}
    /\ pc \in {"exitdrain", "exitmerge"} => exiting
    /\ pc \in {"off", "top", "drain", "check", "mergedue"} => ~exiting
    /\ pc \in {"write", "writing", "snapping"} =>
          (exiting <=> after = "exitmerge")

LEMMA FlushHandsOverInit == Init => FlushHandsOver
  BY DEF Init, FlushHandsOver

\* A finished process, and a loop that is left, hold no copied rows.
LEMMA FlushHandsOverEnds ==
  ASSUME ProcessEnds \/ \E cause : LeaveLoop(cause)
  PROVE  FlushHandsOver'
  BY DEF ProcessEnds, LeaveLoop, DropFlushLocals, FlushHandsOver

LEMMA FlushHandsOverSame ==
  ASSUME FlushHandsOver, UNCHANGED <<pc, exiting, buf, rows, after>>
  PROVE  FlushHandsOver'
  BY DEF FlushHandsOver

LEMMA FlushHandsOverNext ==
  TypeOK /\ FlushHandsOver /\ [Next]_vars => FlushHandsOver'
  <1> SUFFICES ASSUME TypeOK, FlushHandsOver, [Next]_vars
               PROVE  FlushHandsOver'
    OBVIOUS
  <1> USE DEF loopVars, flushVars
  <1>1. CASE AdvanceClock
    BY <1>1, FlushHandsOverSame DEF AdvanceClock
  <1>2. ASSUME NEW c \in Codes, NEW b \in BOOLEAN, Emit(c, b)
        PROVE  FlushHandsOver'
    BY <1>2, FlushHandsOverSame DEF Emit
  <1>3. CASE Start \/ LoopTop
    BY <1>3 DEF Start, LoopTop, FlushHandsOver
  <1>4. CASE Kill \/ Interrupt
    BY <1>4, FlushHandsOverEnds DEF Kill, Interrupt
  <1>5. CASE Dequeue \/ ExitDequeue
    BY <1>5 DEF Dequeue, ExitDequeue, Accept, FlushHandsOver
  <1>6. CASE EndOfDrain \/ MergeCheck \/ ExitFlush
    BY <1>6 DEF EndOfDrain, MergeCheck, ExitFlush, BeginFlush, FlushHandsOver
  <1>7. ASSUME NEW s \in Streams, OpenChunk(s) \/ ChunkRaises(s)
        PROVE  FlushHandsOver'
    BY <1>7, FlushHandsOverEnds
       DEF OpenChunk, ChunkRaises, FlushRaises, FlushHandsOver
  <1>8. CASE CloseChunk
    BY <1>8 DEF CloseChunk, FlushHandsOver
  <1>9. CASE SnapshotRaises
    BY <1>9, FlushHandsOverEnds DEF SnapshotRaises, FlushRaises
  <1>10. CASE OpenSnapshot
    BY <1>10 DEF OpenSnapshot, FlushHandsOver
  <1>11. CASE CloseSnapshot \/ SkipSnapshot
    BY <1>11 DEF CloseSnapshot, SkipSnapshot, FlushReturns, DropFlushLocals,
                 FlushHandsOver, TypeOK
  <1>12. CASE BeginMerge
    BY <1>12 DEF BeginMerge, FlushHandsOver
  <1>13. ASSUME NEW s \in Streams, SkipStream(s) \/ OpenDayFile(s)
         PROVE  FlushHandsOver'
    BY <1>13 DEF SkipStream, OpenDayFile, FlushHandsOver
  <1>14. CASE CloseDayFile
    BY <1>14 DEF CloseDayFile, FlushHandsOver
  <1>15. CASE MergeReturns
    BY <1>15, FlushHandsOverEnds DEF MergeReturns, FlushHandsOver
  <1>16. ASSUME NEW t \in Time, UnlinkChunk(t) PROVE FlushHandsOver'
    BY <1>16 DEF UnlinkChunk, FlushHandsOver
  <1>17. CASE ExitMerge
    BY <1>17, FlushHandsOverEnds DEF ExitMerge, FlushHandsOver
  <1>18. CASE UNCHANGED vars
    BY <1>18, FlushHandsOverSame DEF vars
  <1>19. QED
    BY <1>1, <1>2, <1>3, <1>4, <1>5, <1>6, <1>7, <1>8, <1>9, <1>10, <1>11,
       <1>12, <1>13, <1>14, <1>15, <1>16, <1>17, <1>18 DEF Next, BusStep

LEMMA NoLossFlushRaises ==
  ASSUME TypeOK, NoSilentLoss, FlushHandsOver, FlushRaises, pc = "write"
  PROVE  NoSilentLoss'
  <1>1. /\ \A c \in Causes : lost[c] \subseteq lost'[c]
        /\ rows \subseteq lost'["failed"]
    BY LoseGrows DEF FlushRaises, LeaveLoop, Causes
  <1>2. \A r \in buf \cup rows : r \in buf' \cup rows' \/ IsLost(r)'
    BY <1>1 DEF FlushRaises, LeaveLoop, IsLost, Causes, FlushHandsOver
  <1>3. QED
    BY <1>1, <1>2, MemoryOnlyStep DEF FlushRaises, diskVars

\* Steps that keep every row in memory where it is, or move it from the
\* buffers to the flush that copies them.
LEMMA MemoryKept ==
  ASSUME NoSilentLoss, buf \cup rows \subseteq buf' \cup rows',
         UNCHANGED <<accepted, chunks, days, lost>>
  PROVE  NoSilentLoss'
  BY MemoryOnlyStep

LEMMA NoLossNext ==
  TypeOK /\ MergeHandsOver /\ FlushHandsOver /\ NoSilentLoss /\ [Next]_vars
    => NoSilentLoss'
  <1> SUFFICES ASSUME TypeOK, MergeHandsOver, FlushHandsOver, NoSilentLoss,
                      [Next]_vars
               PROVE  NoSilentLoss'
    OBVIOUS
  <1> USE DEF loopVars, flushVars, mergeVars, diskVars, histVars
  <1>1. CASE AdvanceClock
    BY <1>1, MemoryKept DEF AdvanceClock
  <1>2. ASSUME NEW c \in Codes, NEW b \in BOOLEAN, Emit(c, b)
        PROVE  NoSilentLoss'
    BY <1>2, MemoryKept DEF Emit
  <1>3. CASE Start \/ LoopTop
    BY <1>3, MemoryKept DEF Start, LoopTop
  <1>4. CASE Kill
    <2>1. /\ \A c \in Causes : lost[c] \subseteq lost'[c]
          /\ buf \cup rows \subseteq lost'["killed"]
      BY <1>4, LoseGrows DEF Kill, Causes
    <2>2. \A r \in buf \cup rows : IsLost(r)'
      BY <2>1 DEF IsLost, Causes
    <2>3. QED
      BY <1>4, <2>1, <2>2, MemoryOnlyStep DEF Kill
  <1>5. CASE Interrupt
    <2>1. /\ \A c \in Causes : lost[c] \subseteq lost'[c]
          /\ rows \subseteq lost'["interrupted"] /\ buf' = buf
      BY <1>5, LoseGrows DEF Interrupt, LeaveLoop, Causes
    <2>2. \A r \in rows : IsLost(r)'
      BY <2>1 DEF IsLost, Causes
    <2>3. QED
      BY <1>5, <2>1, <2>2, MemoryOnlyStep DEF Interrupt
  <1>6. CASE Dequeue
    <2>1. CASE InTradingHours(clock)
      BY <1>6, <2>1, AcceptStep DEF Dequeue
    <2>2. CASE ~InTradingHours(clock)
      BY <1>6, <2>2, MemoryKept DEF Dequeue
    <2>3. QED
      BY <2>1, <2>2
  <1>7. CASE ExitDequeue
    BY <1>7, AcceptStep DEF ExitDequeue
  <1>8. CASE EndOfDrain \/ MergeCheck \/ ExitFlush
    <2>1. rows = {}
      BY <1>8 DEF EndOfDrain, MergeCheck, ExitFlush, FlushHandsOver
    <2>2. buf \cup rows \subseteq buf' \cup rows'
      BY <1>8, <2>1 DEF EndOfDrain, MergeCheck, ExitFlush, BeginFlush
    <2>3. QED
      BY <1>8, <2>2, MemoryKept DEF EndOfDrain, MergeCheck, ExitFlush
  <1>9. ASSUME NEW s \in Streams, OpenChunk(s) PROVE NoSilentLoss'
    BY <1>9, NoLossOpenChunk
  <1>10. CASE CloseChunk
    BY <1>10, NoLossCloseChunk
  <1>11. ASSUME NEW s \in Streams, ChunkRaises(s) PROVE NoSilentLoss'
    BY <1>11, NoLossFlushRaises DEF ChunkRaises
  <1>12. CASE SnapshotRaises
    BY <1>12, NoLossFlushRaises DEF SnapshotRaises
  <1>13. CASE OpenSnapshot
    BY <1>13, MemoryKept DEF OpenSnapshot
  <1>14. CASE CloseSnapshot \/ SkipSnapshot
    <2>1. rows = {}
      BY <1>14 DEF CloseSnapshot, SkipSnapshot, FlushHandsOver
    <2>2. QED
      BY <1>14, <2>1, MemoryKept DEF CloseSnapshot, SkipSnapshot, FlushReturns
  <1>15. CASE BeginMerge
    BY <1>15, MemoryKept DEF BeginMerge
  <1>16. ASSUME NEW s \in Streams, SkipStream(s) PROVE NoSilentLoss'
    BY <1>16, MemoryKept DEF SkipStream
  <1>17. ASSUME NEW s \in Streams, OpenDayFile(s) PROVE NoSilentLoss'
    BY <1>17, NoLossOpenDayFile
  <1>18. CASE CloseDayFile
    BY <1>18, NoLossCloseDayFile
  <1>19. ASSUME NEW t \in Time, UnlinkChunk(t) PROVE NoSilentLoss'
    BY <1>19, NoLossUnlinkChunk
  <1>20. CASE MergeReturns
    <2>1. exiting => buf = {} /\ rows = {}
      BY <1>20 DEF MergeReturns, FlushHandsOver
    <2>2. QED
      BY <1>20, <2>1, MemoryKept DEF MergeReturns
  <1>21. CASE ExitMerge
    <2>1. buf = {} /\ rows = {}
      BY <1>21 DEF ExitMerge, FlushHandsOver
    <2>2. QED
      BY <1>21, <2>1, MemoryKept DEF ExitMerge
  <1>22. CASE UNCHANGED vars
    BY <1>22, MemoryKept DEF vars
  <1>23. QED
    BY <1>1, <1>2, <1>3, <1>4, <1>5, <1>6, <1>7, <1>8, <1>9, <1>10, <1>11,
       <1>12, <1>13, <1>14, <1>15, <1>16, <1>17, <1>18, <1>19, <1>20, <1>21,
       <1>22 DEF Next, BusStep

\* Whatever the interleaving of ticks, flushes, merges, Ctrl+C, kills and
\* restarts, a row handed to the writer is in memory, in a finished file, or
\* accounted for by one of the five causes of loss.
THEOREM NoSilentLossCorrect == Spec => []NoSilentLoss
  <1>1. Spec => []FlushHandsOver
    BY TypeCorrect, FlushHandsOverInit, FlushHandsOverNext, PTL DEF Spec
  <1>2. QED
    BY <1>1, TypeCorrect, HandsOverCorrect, NoLossInit, NoLossNext, PTL DEF Spec

-----------------------------------------------------------------------------
(* What is unlinked is archived.                                           *)

LEMMA UnlinkStep ==
  ASSUME TypeOK, MergeHandsOver, NEW u \in Time, UnlinkChunk(u),
         NEW s \in Streams, NEW t \in Time,
         chunks[s][t].st = "whole", chunks'[s][t].st = "absent"
  PROVE  /\ days'[s][DayOf[t]].st = "whole"
         /\ \A r \in chunks[s][t].rows :
               KeptByMerge(r, DayOf[t]) => r \in days'[s][DayOf[t]].rows
  <1>1. s = mstream /\ t = u
    BY DEF UnlinkChunk, TypeOK
  <1>2. DayOf[t] = mday /\ days'[s][mday] = Whole(mrows)
    BY <1>1 DEF UnlinkChunk, MergeHandsOver
  <1>3. \A r \in chunks[s][t].rows : KeptByMerge(r, mday) => r \in mrows
    BY <1>1 DEF UnlinkChunk, MergeHandsOver
  <1>4. QED
    BY <1>2, <1>3 DEF Whole

\* The one step that removes a chunk file removes it when its session rows are
\* in a finished day file.
THEOREM UnlinkOnlyArchivedCorrect == Spec => UnlinkOnlyArchived
  <1>1. TypeOK /\ MergeHandsOver /\ [Next]_vars =>
          \A s \in Streams, t \in Time :
             chunks[s][t].st = "whole" /\ chunks'[s][t].st = "absent" =>
                 /\ days'[s][DayOf[t]].st = "whole"
                 /\ \A r \in chunks[s][t].rows :
                       KeptByMerge(r, DayOf[t]) => r \in days'[s][DayOf[t]].rows
    <2> SUFFICES ASSUME TypeOK, MergeHandsOver, [Next]_vars,
                        NEW s \in Streams, NEW t \in Time,
                        chunks[s][t].st = "whole", chunks'[s][t].st = "absent"
                 PROVE  /\ days'[s][DayOf[t]].st = "whole"
                        /\ \A r \in chunks[s][t].rows :
                              KeptByMerge(r, DayOf[t]) =>
                                  r \in days'[s][DayOf[t]].rows
      OBVIOUS
    <2>1. CASE \E u \in Time : UnlinkChunk(u)
      BY <2>1, UnlinkStep
    <2>2. ASSUME NEW q \in Streams, OpenChunk(q) PROVE FALSE
      BY <2>2 DEF OpenChunk, TypeOK, Torn
    <2>3. CASE CloseChunk
      BY <2>3 DEF CloseChunk, TypeOK, Whole
    <2>4. CASE UNCHANGED chunks
      BY <2>4
    <2>5. QED
      BY <2>1, <2>2, <2>3, <2>4
         DEF Next, BusStep, AdvanceClock, Emit, Start, Kill, Interrupt, LoopTop,
             Dequeue, EndOfDrain, MergeCheck, ChunkRaises, OpenSnapshot,
             SnapshotRaises, FlushRaises, CloseSnapshot, SkipSnapshot,
             BeginMerge, SkipStream, OpenDayFile, CloseDayFile, MergeReturns,
             ExitDequeue, ExitFlush, ExitMerge, diskVars, vars
  <1>2. QED
    BY <1>1, TypeCorrect, HandsOverCorrect, PTL DEF Spec, UnlinkOnlyArchived

-----------------------------------------------------------------------------
(* How long a row stays in memory, and how old the snapshot on disk may be. *)

Flushing == pc \in {"write", "writing", "snapping"}
Merging == pc \in {"mergedue", "merge", "merging", "unlink"}

\* The loop's clock readings lie in the past, and an iteration is at most Lag
\* seconds old.
ClocksInOrder ==
    /\ loopNow <= clock /\ lastFlush <= clock /\ dt <= clock
    /\ pc # "off" => clock - loopNow <= Lag

\* flush() empties the buffers before it writes, and nothing fills them until
\* the loop or the finally block drains the queue again.
BuffersCleared ==
    pc = "off" \/ Flushing \/ Merging \/ pc = "exitmerge" => buf = {}

\* What is left of FlushInterval + 2 * Lag in each phase: an iteration that
\* does not flush ends less than FlushInterval after the last flush, and the
\* next one begins at most Lag later.
OpenWindow ==
    /\ buf \cup rows # {} =>
          loopNow - openSince
             < FlushInterval + (IF pc \in {"top", "check"} THEN 0 ELSE Lag)
    /\ buf # {} /\ pc \in {"top", "drain", "check"} => lastFlush <= openSince

ClockTypes ==
    /\ clock \in Nat /\ loopNow \in Nat /\ lastFlush \in Nat /\ dt \in Nat
    /\ openSince \in Nat /\ FlushInterval \in Nat /\ Lag \in Nat /\ Lag > 0
    /\ FlushInterval > 0

LEMMA ClocksAreNaturals == TypeOK => ClockTypes
  BY ConstantsOK DEF TypeOK, Time, ClockTypes

LEMMA ClocksInit == Init => ClocksInOrder
  BY DEF Init, ClocksInOrder

LEMMA ClocksEnd ==
  ASSUME ClockTypes, UNCHANGED clock, ProcessEnds
  PROVE  ClocksInOrder'
  BY DEF ClockTypes, ProcessEnds, DropFlushLocals, ClocksInOrder

LEMMA ClocksLeave ==
  ASSUME ClockTypes, ClocksInOrder, UNCHANGED clock, pc # "off",
         NEW cause, LeaveLoop(cause)
  PROVE  ClocksInOrder'
  BY DEF ClockTypes, LeaveLoop, DropFlushLocals, ClocksInOrder

LEMMA ClocksSame ==
  ASSUME ClocksInOrder, pc # "off",
         UNCHANGED <<clock, loopNow, lastFlush, dt>>
  PROVE  ClocksInOrder'
  BY DEF ClocksInOrder

LEMMA ClocksRaise ==
  ASSUME ClockTypes, ClocksInOrder, FlushRaises, pc = "write"
  PROVE  ClocksInOrder'
  BY ClocksEnd, ClocksLeave DEF FlushRaises

LEMMA ClocksNext ==
  TypeOK /\ ClocksInOrder /\ [Next]_vars => ClocksInOrder'
  <1> SUFFICES ASSUME TypeOK, ClockTypes, ClocksInOrder, [Next]_vars
               PROVE  ClocksInOrder'
    BY ClocksAreNaturals
  <1> USE DEF loopVars, flushVars
  <1>1. CASE AdvanceClock
    BY <1>1 DEF AdvanceClock, ClockTypes, ClocksInOrder
  <1>2. ASSUME NEW c \in Codes, NEW b \in BOOLEAN, Emit(c, b)
        PROVE  ClocksInOrder'
    BY <1>2, ClocksSame DEF Emit
  <1>3. CASE Start \/ LoopTop
    BY <1>3 DEF Start, LoopTop, ClockTypes, ClocksInOrder
  <1>4. CASE Kill
    BY <1>4, ClocksEnd DEF Kill
  <1>5. CASE Interrupt
    BY <1>5, ClocksLeave DEF Interrupt, Interruptible
  <1>6. CASE Dequeue \/ ExitDequeue
    BY <1>6, ClocksSame DEF Dequeue, ExitDequeue
  <1>7. CASE EndOfDrain
    BY <1>7 DEF EndOfDrain, BeginFlush, ClockTypes, ClocksInOrder
  <1>8. CASE MergeCheck
    BY <1>8 DEF MergeCheck, BeginFlush, ClockTypes, ClocksInOrder
  <1>9. CASE ExitFlush
    BY <1>9 DEF ExitFlush, BeginFlush, ClockTypes, ClocksInOrder
  <1>10. ASSUME NEW s \in Streams, OpenChunk(s) PROVE ClocksInOrder'
    BY <1>10, ClocksSame DEF OpenChunk
  <1>11. ASSUME NEW s \in Streams, ChunkRaises(s) PROVE ClocksInOrder'
    BY <1>11, ClocksRaise DEF ChunkRaises
  <1>12. CASE SnapshotRaises
    BY <1>12, ClocksRaise DEF SnapshotRaises
  <1>13. CASE CloseChunk \/ OpenSnapshot
    BY <1>13, ClocksSame DEF CloseChunk, OpenSnapshot
  <1>14. CASE CloseSnapshot \/ SkipSnapshot
    BY <1>14 DEF CloseSnapshot, SkipSnapshot, FlushReturns, DropFlushLocals,
                 ClockTypes, ClocksInOrder
  <1>15. CASE BeginMerge \/ CloseDayFile
    BY <1>15, ClocksSame DEF BeginMerge, CloseDayFile
  <1>16. ASSUME NEW s \in Streams, SkipStream(s) \/ OpenDayFile(s)
         PROVE  ClocksInOrder'
    BY <1>16, ClocksSame DEF SkipStream, OpenDayFile
  <1>17. ASSUME NEW t \in Time, UnlinkChunk(t) PROVE ClocksInOrder'
    BY <1>17, ClocksSame DEF UnlinkChunk
  <1>18. CASE MergeReturns
    BY <1>18, ClocksSame, ClocksEnd DEF MergeReturns
  <1>19. CASE ExitMerge
    BY <1>19, ClocksSame, ClocksEnd DEF ExitMerge
  <1>20. CASE UNCHANGED vars
    BY <1>20 DEF vars, ClocksInOrder
  <1>21. QED
    BY <1>1, <1>2, <1>3, <1>4, <1>5, <1>6, <1>7, <1>8, <1>9, <1>10, <1>11,
       <1>12, <1>13, <1>14, <1>15, <1>16, <1>17, <1>18, <1>19, <1>20
       DEF Next, BusStep

LEMMA ClearedInit == Init => BuffersCleared
  BY DEF Init, BuffersCleared

LEMMA ClearedEnds ==
  ASSUME ProcessEnds \/ \E cause : LeaveLoop(cause)
  PROVE  BuffersCleared'
  BY DEF ProcessEnds, LeaveLoop, BuffersCleared, Flushing, Merging

LEMMA ClearedNext == BuffersCleared /\ [Next]_vars => BuffersCleared'
  <1> SUFFICES ASSUME BuffersCleared, [Next]_vars PROVE BuffersCleared'
    OBVIOUS
  <1> USE DEF loopVars, flushVars, BuffersCleared, Flushing, Merging
  <1>1. CASE AdvanceClock
    BY <1>1 DEF AdvanceClock
  <1>2. ASSUME NEW c \in Codes, NEW b \in BOOLEAN, Emit(c, b)
        PROVE  BuffersCleared'
    BY <1>2 DEF Emit
  <1>3. CASE Start \/ LoopTop
    BY <1>3 DEF Start, LoopTop
  <1>4. CASE Kill \/ Interrupt
    BY <1>4, ClearedEnds DEF Kill, Interrupt
  <1>5. CASE Dequeue \/ ExitDequeue
    BY <1>5 DEF Dequeue, ExitDequeue
  <1>6. CASE EndOfDrain \/ MergeCheck \/ ExitFlush
    BY <1>6 DEF EndOfDrain, MergeCheck, ExitFlush, BeginFlush
  <1>7. ASSUME NEW s \in Streams, OpenChunk(s) PROVE BuffersCleared'
    BY <1>7 DEF OpenChunk
  <1>8. ASSUME NEW s \in Streams, ChunkRaises(s) PROVE BuffersCleared'
    BY <1>8, ClearedEnds DEF ChunkRaises, FlushRaises
  <1>9. CASE SnapshotRaises
    BY <1>9, ClearedEnds DEF SnapshotRaises, FlushRaises
  <1>10. CASE CloseChunk \/ OpenSnapshot
    BY <1>10 DEF CloseChunk, OpenSnapshot
  <1>11. CASE CloseSnapshot \/ SkipSnapshot
    BY <1>11 DEF CloseSnapshot, SkipSnapshot
  <1>12. CASE BeginMerge \/ CloseDayFile
    BY <1>12 DEF BeginMerge, CloseDayFile
  <1>13. ASSUME NEW s \in Streams, SkipStream(s) \/ OpenDayFile(s)
         PROVE  BuffersCleared'
    BY <1>13 DEF SkipStream, OpenDayFile
  <1>14. ASSUME NEW t \in Time, UnlinkChunk(t) PROVE BuffersCleared'
    BY <1>14 DEF UnlinkChunk
  <1>15. CASE MergeReturns
    BY <1>15, ClearedEnds DEF MergeReturns
  <1>16. CASE ExitMerge
    BY <1>16, ClearedEnds DEF ExitMerge
  <1>17. CASE UNCHANGED vars
    BY <1>17 DEF vars
  <1>18. QED
    BY <1>1, <1>2, <1>3, <1>4, <1>5, <1>6, <1>7, <1>8, <1>9, <1>10, <1>11,
       <1>12, <1>13, <1>14, <1>15, <1>16, <1>17 DEF Next, BusStep

\* While the process is down or merging, and after the last flush of the
\* finally block, no row is in memory.
LEMMA NothingOpen ==
  ASSUME BuffersCleared, FlushHandsOver,
         pc = "off" \/ pc = "snapping" \/ Merging \/ pc = "exitmerge"
  PROVE  buf \cup rows = {}
  BY DEF BuffersCleared, FlushHandsOver, Merging, Flushing

LEMMA WindowInit == Init => OpenWindow
  BY DEF Init, OpenWindow

LEMMA WindowEmpty ==
  ASSUME buf' \cup rows' = {}
  PROVE  OpenWindow'
  BY DEF OpenWindow

LEMMA WindowNext ==
  TypeOK /\ TypeOK' /\ ClocksInOrder /\ ClocksInOrder' /\ FlushHandsOver
     /\ BuffersCleared /\ OpenWindow /\ [Next]_vars => OpenWindow'
  <1> SUFFICES ASSUME ClockTypes, ClockTypes', ClocksInOrder, ClocksInOrder',
                      FlushHandsOver, BuffersCleared, OpenWindow, [Next]_vars
               PROVE  OpenWindow'
    BY ClocksAreNaturals, PTL
  <1> USE DEF loopVars, flushVars
  <1>1. CASE AdvanceClock
    BY <1>1 DEF AdvanceClock, OpenWindow, histVars
  <1>2. ASSUME NEW c \in Codes, NEW b \in BOOLEAN, Emit(c, b)
        PROVE  OpenWindow'
    BY <1>2 DEF Emit, OpenWindow, histVars
  <1>3. CASE Start
    BY <1>3, NothingOpen, WindowEmpty DEF Start
  <1>4. CASE LoopTop
    BY <1>4 DEF LoopTop, OpenWindow, ClockTypes, ClocksInOrder, histVars
  <1>5. CASE Kill
    BY <1>5, WindowEmpty DEF Kill, ProcessEnds, DropFlushLocals
  <1>6. CASE Interrupt
    <2>1. rows' = {} /\ UNCHANGED <<buf, loopNow, openSince>> /\ pc' = "exitdrain"
      BY <1>6 DEF Interrupt, LeaveLoop, DropFlushLocals
    <2>2. QED
      BY <2>1 DEF OpenWindow, ClockTypes
  <1>7. CASE Dequeue
    <2>1. rows = {} /\ rows' = {} /\ pc' = "drain" /\ pc = "drain"
      BY <1>7 DEF Dequeue, FlushHandsOver
    <2>2. CASE ~InTradingHours(clock)
      BY <1>7, <2>2 DEF Dequeue, OpenWindow
    <2>3. CASE InTradingHours(clock)
      <3>1. openSince' = IF buf = {} THEN clock ELSE openSince
        BY <1>7, <2>3 DEF Dequeue, Accept
      <3>2. CASE buf = {}
        BY <1>7, <2>1, <3>1, <3>2
           DEF Dequeue, OpenWindow, ClockTypes, ClocksInOrder
      <3>3. CASE buf # {}
        BY <1>7, <2>1, <3>1, <3>3 DEF Dequeue, OpenWindow
      <3>4. QED
        BY <3>2, <3>3
    <2>4. QED
      BY <2>2, <2>3
  <1>8. CASE ExitDequeue
    <2>1. rows = {} /\ rows' = {} /\ pc' = "exitdrain" /\ pc = "exitdrain"
      BY <1>8 DEF ExitDequeue, FlushHandsOver
    <2>2. openSince' = IF buf = {} THEN clock ELSE openSince
      BY <1>8 DEF ExitDequeue, Accept
    <2>3. CASE buf = {}
      BY <1>8, <2>1, <2>2, <2>3
         DEF ExitDequeue, OpenWindow, ClockTypes, ClocksInOrder
    <2>4. CASE buf # {}
      BY <1>8, <2>1, <2>2, <2>4 DEF ExitDequeue, OpenWindow
    <2>5. QED
      BY <2>3, <2>4
  <1>9. CASE EndOfDrain
    <2>1. rows = {} /\ UNCHANGED <<clock, loopNow, lastFlush, openSince>>
      BY <1>9 DEF EndOfDrain, FlushHandsOver, histVars
    <2>2. CASE ShouldFlush
      BY <1>9, <2>1, <2>2 DEF EndOfDrain, BeginFlush, OpenWindow
    <2>3. CASE ~ShouldFlush
      <3>1. clock - lastFlush < FlushInterval
        BY <2>3 DEF ShouldFlush, ClockTypes
      <3>2. pc' = "check" /\ buf' = buf /\ rows' = {}
        BY <1>9, <2>1, <2>3 DEF EndOfDrain
      <3>3. buf # {} => lastFlush <= openSince
        BY <1>9 DEF EndOfDrain, OpenWindow
      <3>4. buf # {} => loopNow - openSince < FlushInterval
        BY <3>1, <3>3 DEF ClockTypes, ClocksInOrder
      <3>5. QED
        BY <2>1, <3>2, <3>3, <3>4 DEF OpenWindow, ClockTypes
    <2>4. QED
      BY <2>2, <2>3
  <1>10. CASE MergeCheck
    <2>1. rows = {} /\ UNCHANGED <<clock, loopNow, lastFlush, openSince>>
          /\ pc = "check"
      BY <1>10 DEF MergeCheck, FlushHandsOver, histVars
    <2>2. buf' \cup rows' = buf /\ (pc' = "top" \/ (pc' = "write" /\ buf' = {}))
      BY <1>10, <2>1 DEF MergeCheck, BeginFlush
    <2>3. QED
      BY <2>1, <2>2 DEF OpenWindow, ClockTypes
  <1>11. CASE ExitFlush
    <2>1. rows = {} /\ UNCHANGED <<clock, loopNow, lastFlush, openSince>>
          /\ pc = "exitdrain" /\ buf' \cup rows' = buf /\ pc' = "write"
      BY <1>11 DEF ExitFlush, BeginFlush, FlushHandsOver, histVars
    <2>2. QED
      BY <2>1 DEF OpenWindow
  <1>12. ASSUME NEW s \in Streams, OpenChunk(s) PROVE OpenWindow'
    BY <1>12 DEF OpenChunk, OpenWindow
  <1>13. ASSUME FlushRaises, pc = "write" PROVE OpenWindow'
    <2>1. buf = {}
      BY <1>13 DEF BuffersCleared, Flushing
    <2>2. buf' = {} /\ rows' = {}
      BY <1>13, <2>1
         DEF FlushRaises, ProcessEnds, LeaveLoop, DropFlushLocals
    <2>3. QED
      BY <2>2, WindowEmpty
  <1>14. ASSUME NEW s \in Streams, ChunkRaises(s) PROVE OpenWindow'
    BY <1>13, <1>14 DEF ChunkRaises
  <1>15. CASE SnapshotRaises
    BY <1>13, <1>15 DEF SnapshotRaises
  <1>16. CASE CloseChunk
    BY <1>16 DEF CloseChunk, OpenWindow, histVars
  <1>17. CASE OpenSnapshot
    BY <1>17 DEF OpenSnapshot, OpenWindow, histVars
  <1>18. CASE CloseSnapshot \/ SkipSnapshot
    BY <1>18, WindowEmpty
       DEF CloseSnapshot, SkipSnapshot, FlushReturns, DropFlushLocals,
           BuffersCleared, Flushing
  <1>19. CASE BeginMerge \/ CloseDayFile
    BY <1>19, NothingOpen, WindowEmpty DEF BeginMerge, CloseDayFile, Merging
  <1>20. ASSUME NEW s \in Streams, SkipStream(s) \/ OpenDayFile(s)
         PROVE  OpenWindow'
    BY <1>20, NothingOpen, WindowEmpty DEF SkipStream, OpenDayFile, Merging
  <1>21. ASSUME NEW t \in Time, UnlinkChunk(t) PROVE OpenWindow'
    BY <1>21, NothingOpen, WindowEmpty DEF UnlinkChunk, Merging
  <1>22. CASE MergeReturns
    BY <1>22, NothingOpen, WindowEmpty
       DEF MergeReturns, Merging, ProcessEnds, DropFlushLocals
  <1>23. CASE ExitMerge
    BY <1>23, NothingOpen, WindowEmpty
       DEF ExitMerge, ProcessEnds, DropFlushLocals
  <1>24. CASE UNCHANGED vars
    BY <1>24 DEF vars, OpenWindow, histVars
  <1>25. QED
    BY <1>1, <1>2, <1>3, <1>4, <1>5, <1>6, <1>7, <1>8, <1>9, <1>10, <1>11,
       <1>12, <1>14, <1>15, <1>16, <1>17, <1>18, <1>19, <1>20, <1>21, <1>22,
       <1>23, <1>24 DEF Next, BusStep

\* Where the rows in memory are, in every reachable state.
LEMMA FlushHandsOverCorrect == Spec => []FlushHandsOver
  BY TypeCorrect, FlushHandsOverInit, FlushHandsOverNext, PTL DEF Spec

LEMMA BuffersClearedCorrect == Spec => []BuffersCleared
  BY ClearedInit, ClearedNext, PTL DEF Spec

LEMMA ClocksInOrderCorrect == Spec => []ClocksInOrder
  BY TypeCorrect, ClocksInit, ClocksNext, PTL DEF Spec

\* A crash loses at most the last flush interval: the oldest row in memory was
\* handed over less than FlushInterval + 2 * Lag seconds ago, whatever the
\* interval, the lag, the queue and the interleaving of flushes and merges.
THEOREM OpenWindowCorrect == Spec => []OpenWindowBounded
  <1>1. Spec => []OpenWindow
    BY TypeCorrect, FlushHandsOverCorrect, BuffersClearedCorrect,
       ClocksInOrderCorrect, WindowInit, WindowNext, PTL DEF Spec
  <1>2. TypeOK /\ FlushHandsOver /\ BuffersCleared /\ ClocksInOrder /\ OpenWindow
          => OpenWindowBounded
    <2> SUFFICES ASSUME ClockTypes, ClocksInOrder, FlushHandsOver,
                        BuffersCleared, OpenWindow, buf \cup rows # {}
                 PROVE  clock - openSince < FlushInterval + 2 * Lag
      BY ClocksAreNaturals DEF OpenWindowBounded
    <2>1. pc # "off"
      BY NothingOpen
    <2>2. clock - loopNow <= Lag
      BY <2>1 DEF ClocksInOrder
    <2>3. loopNow - openSince < FlushInterval + Lag
      BY DEF OpenWindow, ClockTypes
    <2>4. QED
      BY <2>2, <2>3 DEF ClockTypes
  <1>3. QED
    BY <1>1, <1>2, TypeCorrect, FlushHandsOverCorrect, BuffersClearedCorrect,
       ClocksInOrderCorrect, PTL

-----------------------------------------------------------------------------
(* Rows leave the queue in the order of emission.                          *)

\* Every accepted row was emitted before every row still in the queue, and the
\* queue is in the order of emission.
QueueFresh ==
    /\ \A r \in accepted : r.id <= emitted
    /\ \A i \in 1 .. Len(queue) :
          /\ queue[i].id <= emitted
          /\ \A r \in accepted : r.id < queue[i].id
          /\ \A j \in 1 .. Len(queue) : i < j => queue[i].id < queue[j].id

LEMMA QueueFreshInit == Init => QueueFresh
  BY DEF Init, QueueFresh

LEMMA QueueFreshSame ==
  ASSUME QueueFresh, UNCHANGED <<queue, emitted, accepted>>
  PROVE  QueueFresh'
  BY DEF QueueFresh

\* The end of the process forgets the queue.
LEMMA QueueFreshEnds ==
  ASSUME QueueFresh, queue' = <<>>, UNCHANGED <<emitted, accepted>>
  PROVE  QueueFresh'
  BY DEF QueueFresh

LEMMA QueueFreshEmit ==
  ASSUME TypeOK, QueueFresh, NEW c \in Codes, NEW b \in BOOLEAN, Emit(c, b)
  PROVE  QueueFresh'
  <1> DEFINE tick == [id |-> emitted + 1, code |-> c, ts |-> clock, bad |-> b]
  <1>1. emitted \in Nat /\ emitted' = emitted + 1 /\ accepted' = accepted
        /\ queue \in Seq(Row) /\ \A r \in accepted : r.id \in Nat
    BY DEF Emit, TypeOK, histVars, Row
  <1>2. \A i \in 1 .. Len(queue) : queue[i].id \in Nat
    <2>1. \A i \in 1 .. Len(queue) : queue[i] \in Row
      BY <1>1
    <2>2. \A r \in Row : r.id \in Nat
      BY DEF Row
    <2>3. QED
      BY <2>1, <2>2
  <1>3. \A r \in accepted' : r.id <= emitted'
    BY <1>1 DEF QueueFresh
  <1>4. CASE queue' = queue
    BY <1>1, <1>2, <1>3, <1>4 DEF QueueFresh
  <1>5. CASE queue' = Append(queue, tick)
    <2>1. Len(queue') = Len(queue) + 1 /\ Len(queue) \in Nat
      BY <1>1, <1>5
    <2>2. \A i \in 1 .. Len(queue') :
             queue'[i] = IF i = Len(queue) + 1 THEN tick ELSE queue[i]
      BY <1>1, <1>5, <2>1
    <2>3. tick.id = emitted + 1
      OBVIOUS
    <2> HIDE DEF tick
    <2> SUFFICES ASSUME NEW i \in 1 .. Len(queue')
                 PROVE  /\ queue'[i].id <= emitted'
                        /\ \A r \in accepted' : r.id < queue'[i].id
                        /\ \A j \in 1 .. Len(queue') :
                              i < j => queue'[i].id < queue'[j].id
      BY <1>3 DEF QueueFresh
    <2>4. CASE i = Len(queue) + 1
      BY <1>1, <2>1, <2>2, <2>3, <2>4 DEF QueueFresh
    <2>5. CASE i # Len(queue) + 1
      <3>1. i \in 1 .. Len(queue) /\ queue'[i] = queue[i]
        BY <2>1, <2>2, <2>5
      <3>2. /\ queue[i].id \in Nat /\ queue[i].id <= emitted
            /\ \A r \in accepted : r.id < queue[i].id
        BY <1>2, <3>1 DEF QueueFresh
      <3>3. ASSUME NEW j \in 1 .. Len(queue'), i < j
            PROVE  queue'[i].id < queue'[j].id
        <4>1. CASE j = Len(queue) + 1
          <5>1. queue'[j].id = emitted + 1 /\ queue'[i].id <= emitted
            BY <2>2, <2>3, <3>1, <3>2, <4>1
          <5>2. QED
            BY <1>1, <3>1, <3>2, <5>1
        <4>2. CASE j # Len(queue) + 1
          <5>1. j \in 1 .. Len(queue) /\ queue'[j] = queue[j]
            BY <2>1, <2>2, <4>2
          <5>2. QED
            BY <3>1, <3>3, <5>1 DEF QueueFresh
        <4>3. QED
          BY <4>1, <4>2
      <3>4. QED
        BY <1>1, <3>1, <3>2, <3>3
    <2>6. QED
      BY <2>4, <2>5
  <1>6. QED
    BY <1>4, <1>5 DEF Emit

\* The head of the queue is newer than every row accepted before it.
LEMMA QueueFreshHead ==
  ASSUME TypeOK, QueueFresh, queue # <<>>
  PROVE  /\ Head(queue) \in Row /\ Head(queue).id <= emitted
         /\ \A r \in accepted : r.id < Head(queue).id
  <1>1. queue \in Seq(Row) /\ 1 \in 1 .. Len(queue) /\ Head(queue) = queue[1]
    BY DEF TypeOK
  <1>2. QED
    BY <1>1 DEF QueueFresh

LEMMA QueueFreshTake ==
  ASSUME TypeOK, QueueFresh, queue # <<>>, queue' = Tail(queue),
         emitted' = emitted,
         accepted' = accepted \/ accepted' = accepted \cup {Head(queue)}
  PROVE  QueueFresh'
  <1>1. queue \in Seq(Row) /\ Len(queue) \in Nat /\ Len(queue) > 0
        /\ Head(queue) = queue[1]
    BY DEF TypeOK
  <1>2. Len(queue') = Len(queue) - 1
    BY <1>1
  <1>3. \A i \in 1 .. Len(queue') :
           i + 1 \in 1 .. Len(queue) /\ queue'[i] = queue[i + 1]
    BY <1>1, <1>2
  <1>4. \A r \in accepted' : r.id <= emitted'
    BY QueueFreshHead DEF QueueFresh
  <1> SUFFICES ASSUME NEW i \in 1 .. Len(queue')
               PROVE  /\ queue'[i].id <= emitted'
                      /\ \A r \in accepted' : r.id < queue'[i].id
                      /\ \A j \in 1 .. Len(queue') :
                            i < j => queue'[i].id < queue'[j].id
    BY <1>4 DEF QueueFresh
  <1>5. i + 1 \in 1 .. Len(queue) /\ queue'[i] = queue[i + 1]
    BY <1>3
  <1>6. queue'[i].id <= emitted' /\ \A r \in accepted : r.id < queue'[i].id
    BY <1>5 DEF QueueFresh
  <1>7. Head(queue).id < queue'[i].id
    <2>1. 1 \in 1 .. Len(queue) /\ 1 < i + 1
      BY <1>1, <1>2
    <2>2. QED
      BY <1>1, <1>5, <2>1 DEF QueueFresh
  <1>8. ASSUME NEW j \in 1 .. Len(queue'), i < j
        PROVE  queue'[i].id < queue'[j].id
    <2>1. j + 1 \in 1 .. Len(queue) /\ queue'[j] = queue[j + 1] /\ i + 1 < j + 1
      BY <1>3, <1>8, <1>2, <1>1
    <2>2. QED
      BY <1>5, <2>1 DEF QueueFresh
  <1>9. QED
    BY <1>6, <1>7, <1>8

LEMMA QueueFreshRaise ==
  ASSUME QueueFresh, FlushRaises
  PROVE  QueueFresh'
  BY QueueFreshSame, QueueFreshEnds DEF FlushRaises, ProcessEnds, LeaveLoop

LEMMA QueueFreshNext == TypeOK /\ QueueFresh /\ [Next]_vars => QueueFresh'
  <1> SUFFICES ASSUME TypeOK, QueueFresh, [Next]_vars PROVE QueueFresh'
    OBVIOUS
  <1>1. ASSUME NEW c \in Codes, NEW b \in BOOLEAN, Emit(c, b)
        PROVE  QueueFresh'
    BY <1>1, QueueFreshEmit
  <1>2. CASE Kill
    BY <1>2, QueueFreshEnds DEF Kill, ProcessEnds
  <1>3. CASE Dequeue
    BY <1>3, QueueFreshTake DEF Dequeue, Accept
  <1>4. CASE ExitDequeue
    BY <1>4, QueueFreshTake DEF ExitDequeue, Accept
  <1>5. ASSUME NEW s \in Streams, ChunkRaises(s) PROVE QueueFresh'
    BY <1>5, QueueFreshRaise DEF ChunkRaises
  <1>6. CASE SnapshotRaises
    BY <1>6, QueueFreshRaise DEF SnapshotRaises
  <1>7. CASE MergeReturns \/ ExitMerge
    BY <1>7, QueueFreshSame, QueueFreshEnds
       DEF MergeReturns, ExitMerge, ProcessEnds, histVars
  <1>8. CASE UNCHANGED <<queue, emitted, accepted>>
    BY <1>8, QueueFreshSame
  <1>9. QED
    BY <1>1, <1>2, <1>3, <1>4, <1>5, <1>6, <1>7, <1>8
       DEF Next, BusStep, AdvanceClock, Start, Interrupt, LeaveLoop, LoopTop,
           EndOfDrain, MergeCheck, OpenChunk, CloseChunk, OpenSnapshot,
           CloseSnapshot, SkipSnapshot, BeginMerge, SkipStream, OpenDayFile,
           CloseDayFile, UnlinkChunk, ExitFlush, histVars, vars

LEMMA QueueFreshCorrect == Spec => []QueueFresh
  BY TypeCorrect, QueueFreshInit, QueueFreshNext, PTL DEF Spec

-----------------------------------------------------------------------------
(* The snapshot on disk.                                                   *)

\* In memory, the snapshot holds for every code a row at least as new as any
\* this process accepted.
SnapNewest ==
    /\ \A c \in Codes : snap[c] # NoRow => snap[c].code = c
    /\ pc # "off" => \A r \in accepted : r.id > epoch =>
                        snap[r.code] # NoRow /\ r.id <= snap[r.code].id

LEMMA SnapNewestInit == Init => SnapNewest
  BY DEF Init, SnapNewest, NoSnap

LEMMA SnapNewestSame ==
  ASSUME SnapNewest, pc # "off", UNCHANGED <<snap, accepted, epoch>>
  PROVE  SnapNewest'
  BY DEF SnapNewest

LEMMA SnapNewestEnds ==
  ASSUME ProcessEnds
  PROVE  SnapNewest'
  BY DEF ProcessEnds, SnapNewest, NoSnap

LEMMA SnapNewestAccept ==
  ASSUME TypeOK, QueueFresh, SnapNewest, queue # <<>>, pc # "off",
         Accept(Head(queue)), epoch' = epoch
  PROVE  SnapNewest'
  <1> DEFINE q == Head(queue)
  <1>1. q \in Row /\ \A r \in accepted : r.id < q.id
    BY QueueFreshHead
  <1>2. q.code \in Codes /\ q # NoRow /\ q.id \in Nat
    <2>1. q # NoRow
      BY <1>1, NoRowIsNoRow
    <2>2. QED
      BY <1>1, <2>1 DEF Row
  <1>3. /\ snap' = [snap EXCEPT ![q.code] = q]
        /\ accepted' = accepted \cup {q}
    BY DEF Accept
  <1> HIDE DEF q
  <1>4. \A c \in Codes : snap'[c] = IF c = q.code THEN q ELSE snap[c]
    BY <1>2, <1>3 DEF TypeOK
  <1>5. \A r \in accepted : r.code \in Codes /\ r.id \in Nat
    BY DEF TypeOK, Row
  <1>6. \A c \in Codes : snap'[c] # NoRow => snap'[c].code = c
    BY <1>4 DEF SnapNewest
  <1>7. ASSUME NEW r \in accepted', r.id > epoch
        PROVE  snap'[r.code] # NoRow /\ r.id <= snap'[r.code].id
    <2>1. CASE r = q
      BY <1>2, <1>4, <2>1
    <2>2. CASE r \in accepted
      <3>1. r.id < q.id /\ r.code \in Codes /\ r.id \in Nat
        BY <1>1, <1>5, <2>2
      <3>2. snap[r.code] # NoRow /\ r.id <= snap[r.code].id
        BY <1>7, <2>2 DEF SnapNewest
      <3>3. QED
        BY <1>2, <1>4, <3>1, <3>2
    <2>3. QED
      BY <1>3, <2>1, <2>2
  <1>8. QED
    BY <1>6, <1>7 DEF SnapNewest

LEMMA SnapNewestNext ==
  TypeOK /\ QueueFresh /\ SnapNewest /\ [Next]_vars => SnapNewest'
  <1> SUFFICES ASSUME TypeOK, QueueFresh, SnapNewest, [Next]_vars
               PROVE  SnapNewest'
    OBVIOUS
  <1>1. CASE Kill
    BY <1>1, SnapNewestEnds DEF Kill
  <1>2. CASE Start
    <2>1. \A r \in accepted : ~(r.id > epoch')
      BY <1>2 DEF Start, QueueFresh, TypeOK, Row
    <2>2. QED
      BY <1>2, <2>1 DEF Start, SnapNewest
  <1>3. CASE Dequeue
    BY <1>3, SnapNewestAccept, SnapNewestSame DEF Dequeue
  <1>4. CASE ExitDequeue
    BY <1>4, SnapNewestAccept DEF ExitDequeue
  <1>5. ASSUME FlushRaises, pc = "write" PROVE SnapNewest'
    BY <1>5, SnapNewestSame, SnapNewestEnds DEF FlushRaises, LeaveLoop
  <1>6. ASSUME NEW s \in Streams, ChunkRaises(s) PROVE SnapNewest'
    BY <1>5, <1>6 DEF ChunkRaises
  <1>7. CASE SnapshotRaises
    BY <1>5, <1>7 DEF SnapshotRaises
  <1>8. CASE MergeReturns \/ ExitMerge
    BY <1>8, SnapNewestSame, SnapNewestEnds DEF MergeReturns, ExitMerge, histVars
  <1>9. CASE AdvanceClock \/ UNCHANGED vars
    BY <1>9 DEF AdvanceClock, vars, SnapNewest, histVars, loopVars
  <1>10. CASE pc # "off" /\ UNCHANGED <<snap, accepted, epoch>>
    BY <1>10, SnapNewestSame
  <1>11. QED
    BY <1>1, <1>2, <1>3, <1>4, <1>6, <1>7, <1>8, <1>9, <1>10
       DEF Next, BusStep, Emit, Interrupt, Interruptible, LeaveLoop, LoopTop,
           EndOfDrain, MergeCheck, OpenChunk, CloseChunk, OpenSnapshot,
           CloseSnapshot, SkipSnapshot, BeginMerge, SkipStream, OpenDayFile,
           CloseDayFile, UnlinkChunk, ExitFlush, histVars

\* SnapshotFresh, for every step from the return of a flush() to the next one:
\* also while a merge is under way and after the flush of the finally block.
SnapshotKept ==
    /\ pc \in {"top", "drain", "check", "exitmerge"} \/ Merging
    /\ BeforeClose(lastFlush)
    => \A r \in accepted \ buf : r.id > epoch =>
          \E q \in snapfile.rows : q.code = r.code /\ q.id >= r.id

LEMMA SnapshotKeptInit == Init => SnapshotKept
  BY DEF Init, SnapshotKept, Merging

LEMMA SnapshotKeptIdle ==
  ASSUME pc' \in {"off", "write", "writing", "snapping", "exitdrain"}
  PROVE  SnapshotKept'
  BY DEF SnapshotKept, Merging

\* A step between two flushes: no row leaves the buffers.
LEMMA SnapshotKeptSame ==
  ASSUME SnapshotKept, pc \in {"top", "drain", "check", "exitmerge"} \/ Merging,
         UNCHANGED <<lastFlush, epoch, snapfile>>,
         accepted' \ buf' \subseteq accepted \ buf
  PROVE  SnapshotKept'
  BY DEF SnapshotKept, BeforeClose

\* flush() returns: either it wrote the snapshot, or none is due, because the
\* market has closed or because this process has accepted no row.
LEMMA SnapshotKeptReturns ==
  ASSUME TypeOK, SnapNewest, pc # "off", FlushReturns,
         UNCHANGED <<accepted, epoch, buf>>,
         snapfile' = Whole(SnapRows) \/ ~SnapshotDue
  PROVE  SnapshotKept'
  <1> SUFFICES ASSUME BeforeClose(dt), NEW r \in accepted, r.id > epoch
               PROVE  \E q \in snapfile'.rows : q.code = r.code /\ q.id >= r.id
    BY DEF SnapshotKept, FlushReturns, BeforeClose
  <1>1. r.code \in Codes /\ r.id \in Nat /\ epoch \in Nat
    BY DEF TypeOK, Row
  <1>2. /\ snap[r.code] # NoRow /\ r.id <= snap[r.code].id
        /\ snap[r.code].code = r.code
    BY <1>1 DEF SnapNewest
  <1>3. snap[r.code] \in SnapRows /\ snap[r.code].id \in Nat
    BY <1>1, <1>2 DEF SnapRows, TypeOK, Row
  <1>4. snapfile'.rows = SnapRows
    BY <1>3 DEF SnapshotDue, Whole
  <1>5. QED
    BY <1>1, <1>2, <1>3, <1>4

LEMMA SnapshotKeptNext ==
  TypeOK /\ QueueFresh /\ SnapNewest /\ SnapshotKept /\ BuffersCleared
     /\ [Next]_vars => SnapshotKept'
  <1> SUFFICES ASSUME TypeOK, QueueFresh, SnapNewest, SnapshotKept,
                      BuffersCleared, [Next]_vars
               PROVE  SnapshotKept'
    OBVIOUS
  <1> USE DEF histVars, diskVars
  <1>1. CASE AdvanceClock
    BY <1>1 DEF AdvanceClock, SnapshotKept, BeforeClose, Merging, loopVars
  <1>2. ASSUME NEW c \in Codes, NEW b \in BOOLEAN, Emit(c, b)
        PROVE  SnapshotKept'
    BY <1>2 DEF Emit, SnapshotKept, BeforeClose, Merging, loopVars
  <1>3. CASE Start
    <2>1. \A r \in accepted : ~(r.id > epoch')
      BY <1>3 DEF Start, QueueFresh, TypeOK, Row
    <2>2. QED
      BY <1>3, <2>1 DEF Start, SnapshotKept
  <1>4. CASE Kill \/ Interrupt
    BY <1>4, SnapshotKeptIdle DEF Kill, Interrupt, ProcessEnds, LeaveLoop
  <1>5. CASE LoopTop
    BY <1>5, SnapshotKeptSame DEF LoopTop
  <1>6. CASE Dequeue
    BY <1>6, SnapshotKeptSame DEF Dequeue, Accept
  <1>7. CASE EndOfDrain \/ MergeCheck
    BY <1>7, SnapshotKeptSame, SnapshotKeptIdle
       DEF EndOfDrain, MergeCheck, BeginFlush
  <1>8. ASSUME NEW s \in Streams, OpenChunk(s) PROVE SnapshotKept'
    BY <1>8, SnapshotKeptIdle DEF OpenChunk
  <1>9. ASSUME FlushRaises PROVE SnapshotKept'
    BY <1>9, SnapshotKeptIdle DEF FlushRaises, ProcessEnds, LeaveLoop
  <1>10. ASSUME NEW s \in Streams, ChunkRaises(s) PROVE SnapshotKept'
    BY <1>9, <1>10 DEF ChunkRaises
  <1>11. CASE SnapshotRaises
    BY <1>9, <1>11 DEF SnapshotRaises
  <1>12. CASE CloseChunk \/ OpenSnapshot \/ ExitFlush
    BY <1>12, SnapshotKeptIdle
       DEF CloseChunk, OpenSnapshot, ExitFlush, BeginFlush
  <1>13. CASE CloseSnapshot
    BY <1>13, SnapshotKeptReturns DEF CloseSnapshot
  <1>14. CASE SkipSnapshot
    BY <1>14, SnapshotKeptReturns DEF SkipSnapshot
  <1>15. CASE BeginMerge \/ CloseDayFile
    BY <1>15, SnapshotKeptSame DEF BeginMerge, CloseDayFile, Merging
  <1>16. ASSUME NEW s \in Streams, SkipStream(s) \/ OpenDayFile(s)
         PROVE  SnapshotKept'
    BY <1>16, SnapshotKeptSame DEF SkipStream, OpenDayFile, Merging
  <1>17. ASSUME NEW t \in Time, UnlinkChunk(t) PROVE SnapshotKept'
    BY <1>17, SnapshotKeptSame DEF UnlinkChunk, Merging
  <1>18. CASE MergeReturns
    BY <1>18, SnapshotKeptSame, SnapshotKeptIdle
       DEF MergeReturns, Merging, ProcessEnds
  <1>19. CASE ExitDequeue
    BY <1>19, SnapshotKeptIdle DEF ExitDequeue, loopVars
  <1>20. CASE ExitMerge
    BY <1>20, SnapshotKeptSame, SnapshotKeptIdle DEF ExitMerge, ProcessEnds
  <1>21. CASE UNCHANGED vars
    BY <1>21 DEF vars, SnapshotKept, BeforeClose, Merging, loopVars
  <1>22. QED
    BY <1>1, <1>2, <1>3, <1>4, <1>5, <1>6, <1>7, <1>8, <1>10, <1>11, <1>12,
       <1>13, <1>14, <1>15, <1>16, <1>17, <1>18, <1>19, <1>20, <1>21
       DEF Next, BusStep

\* Between flushes before the close, the snapshot file holds for every code
\* this process has flushed a row at least as new as any it flushed: whatever
\* the queue drops, whenever the process was restarted.
THEOREM SnapshotFreshCorrect == Spec => []SnapshotFresh
  <1>1. Spec => []SnapNewest
    BY TypeCorrect, QueueFreshCorrect, SnapNewestInit, SnapNewestNext, PTL
       DEF Spec
  <1>2. Spec => []SnapshotKept
    BY <1>1, TypeCorrect, QueueFreshCorrect, BuffersClearedCorrect,
       SnapshotKeptInit, SnapshotKeptNext, PTL DEF Spec
  <1>3. SnapshotKept => SnapshotFresh
    BY DEF SnapshotKept, SnapshotFresh, InLoop, Merging
  <1>4. QED
    BY <1>2, <1>3, PTL

-----------------------------------------------------------------------------
(* The files hold the rows they should, and what happens to the rows in    *)
(* them is what TickLedger allows.                                         *)

\* Files hold rows that were handed over, each under its own stream; while a
\* day file is written, its rows are still in chunks of the same stream.
FiledRows ==
    /\ buf \cup rows \subseteq accepted
    /\ \A s \in Streams, t \in Time : \A r \in chunks[s][t].rows :
          r \in accepted /\ Stream(r) = s
    /\ \A s \in Streams, d \in Days : \A r \in days[s][d].rows :
          r \in accepted /\ Stream(r) = s
    /\ pc = "merging" => \A r \in mrows :
          Stream(r) = mstream /\ \E t \in Time : r \in chunks[mstream][t].rows
    /\ pc = "unlink" => \A r \in mrows : r \in accepted /\ Stream(r) = mstream

\* A row in memory is on disk in no file.
MemoryApart == \A r \in buf \cup rows : ~OnDisk(r)

LEMMA FiledInit == Init => FiledRows
  BY ConstantsOK DEF Init, FiledRows, Absent, Streams, Time, Days

\* Steps that touch no chunk and no day file, forget rows in memory or move
\* them, and leave a merge under way alone or end it.
LEMMA FiledMemoryStep ==
  ASSUME FiledRows, UNCHANGED <<accepted, chunks, days>>,
         buf' \cup rows' \subseteq buf \cup rows,
         pc' \notin {"merging", "unlink"} \/ UNCHANGED <<pc, mrows, mstream>>
  PROVE  FiledRows'
  <1>1. \A r : Stream(r)' = Stream(r)
    BY DEF Stream
  <1>2. QED
    BY <1>1 DEF FiledRows

\* A new row.
LEMMA FiledAccept ==
  ASSUME FiledRows, NEW r, Accept(r), pc' \notin {"merging", "unlink"},
         UNCHANGED <<rows, chunks, days>>
  PROVE  FiledRows'
  <1>1. \A q : Stream(q)' = Stream(q)
    BY DEF Stream
  <1>2. QED
    BY <1>1 DEF FiledRows, Accept

LEMMA FiledRaise ==
  ASSUME FiledRows, FlushRaises, UNCHANGED diskVars
  PROVE  FiledRows'
  BY FiledMemoryStep
     DEF FlushRaises, ProcessEnds, LeaveLoop, DropFlushLocals, diskVars

LEMMA FiledOpenChunk ==
  ASSUME TypeOK, FiledRows, NEW s \in Streams, OpenChunk(s)
  PROVE  FiledRows'
  <1>1. \A q : Stream(q)' = Stream(q)
    BY DEF Stream
  <1>2. \A q \in Streams, t \in Time :
           chunks'[q][t].rows \subseteq chunks[q][t].rows
    BY DEF OpenChunk, TypeOK, Torn
  <1>3. UNCHANGED <<accepted, buf, rows, days>> /\ pc' = "writing"
    BY DEF OpenChunk
  <1>4. QED
    BY <1>1, <1>2, <1>3 DEF FiledRows

LEMMA FiledCloseChunk ==
  ASSUME TypeOK, FiledRows, CloseChunk
  PROVE  FiledRows'
  <1>1. \A q : Stream(q)' = Stream(q)
    BY DEF Stream
  <1>2. ASSUME NEW q \in Streams, NEW t \in Time, NEW r \in chunks'[q][t].rows
        PROVE  r \in accepted /\ Stream(r) = q
    <2>1. CASE q = wstream /\ t = dt
      <3>1. r \in OfStream(rows, wstream)
        BY <1>2, <2>1 DEF CloseChunk, TypeOK, Whole
      <3>2. QED
        BY <2>1, <3>1 DEF OfStream, FiledRows
    <2>2. CASE ~(q = wstream /\ t = dt)
      <3>1. r \in chunks[q][t].rows
        BY <1>2, <2>2 DEF CloseChunk, TypeOK
      <3>2. QED
        BY <3>1 DEF FiledRows
    <2>3. QED
      BY <2>1, <2>2
  <1>3. UNCHANGED <<accepted, buf, days>> /\ pc' = "write" /\ rows' \subseteq rows
    BY DEF CloseChunk, histVars
  <1>4. QED
    BY <1>1, <1>2, <1>3 DEF FiledRows

LEMMA FiledOpenDayFile ==
  ASSUME TypeOK, FiledRows, NEW s \in Streams, OpenDayFile(s)
  PROVE  FiledRows'
  <1>1. \A q : Stream(q)' = Stream(q)
    BY DEF Stream
  <1>2. \A q \in Streams, d \in Days : days'[q][d].rows \subseteq days[q][d].rows
    BY DEF OpenDayFile, TypeOK, Torn
  <1>3. UNCHANGED <<accepted, buf, rows, chunks>> /\ pc' = "merging"
        /\ mstream' = s
    BY DEF OpenDayFile, flushVars
  <1>4. \A r \in mrows' : \E t \in Time : r \in chunks[s][t].rows
    BY DEF OpenDayFile, ChunkTimes
  <1>5. \A r \in mrows' : Stream(r) = s
    BY <1>4 DEF FiledRows
  <1>6. QED
    BY <1>1, <1>2, <1>3, <1>4, <1>5 DEF FiledRows

LEMMA FiledCloseDayFile ==
  ASSUME TypeOK, FiledRows, CloseDayFile
  PROVE  FiledRows'
  <1>1. \A q : Stream(q)' = Stream(q)
    BY DEF Stream
  <1>2. mstream \in Streams
    BY DEF CloseDayFile, TypeOK
  <1>3. \A r \in mrows : r \in accepted /\ Stream(r) = mstream
    BY <1>2 DEF CloseDayFile, FiledRows
  <1>4. ASSUME NEW q \in Streams, NEW d \in Days, NEW r \in days'[q][d].rows
        PROVE  r \in accepted /\ Stream(r) = q
    <2>1. CASE q = mstream /\ d = mday
      BY <1>3, <1>4, <2>1 DEF CloseDayFile, TypeOK, Whole
    <2>2. CASE ~(q = mstream /\ d = mday)
      <3>1. r \in days[q][d].rows
        BY <1>4, <2>2 DEF CloseDayFile, TypeOK
      <3>2. QED
        BY <3>1 DEF FiledRows
    <2>3. QED
      BY <2>1, <2>2
  <1>5. UNCHANGED <<accepted, buf, rows, chunks, mrows, mstream>>
        /\ pc' = "unlink"
    BY DEF CloseDayFile, histVars, flushVars, mergeVars
  <1>6. QED
    BY <1>1, <1>3, <1>4, <1>5 DEF FiledRows

LEMMA FiledUnlinkChunk ==
  ASSUME TypeOK, FiledRows, NEW t \in Time, UnlinkChunk(t)
  PROVE  FiledRows'
  <1>1. \A q : Stream(q)' = Stream(q)
    BY DEF Stream
  <1>2. \A q \in Streams, u \in Time :
           chunks'[q][u].rows \subseteq chunks[q][u].rows
    BY DEF UnlinkChunk, TypeOK, Absent
  <1>3. UNCHANGED <<accepted, buf, rows, days, mrows, mstream>>
        /\ pc = "unlink" /\ pc' \in {"merge", "unlink"}
    BY DEF UnlinkChunk, flushVars
  <1>4. QED
    BY <1>1, <1>2, <1>3 DEF FiledRows

LEMMA FiledNext == TypeOK /\ FiledRows /\ [Next]_vars => FiledRows'
  <1> SUFFICES ASSUME TypeOK, FiledRows, [Next]_vars PROVE FiledRows'
    OBVIOUS
  <1> USE DEF loopVars, flushVars, mergeVars, diskVars, histVars
  <1>1. CASE AdvanceClock
    BY <1>1, FiledMemoryStep DEF AdvanceClock
  <1>2. ASSUME NEW c \in Codes, NEW b \in BOOLEAN, Emit(c, b)
        PROVE  FiledRows'
    BY <1>2, FiledMemoryStep DEF Emit
  <1>3. CASE Start \/ LoopTop
    BY <1>3, FiledMemoryStep DEF Start, LoopTop
  <1>4. CASE Kill \/ Interrupt
    BY <1>4, FiledMemoryStep
       DEF Kill, Interrupt, ProcessEnds, LeaveLoop, DropFlushLocals
  <1>5. CASE Dequeue
    BY <1>5, FiledMemoryStep, FiledAccept DEF Dequeue
  <1>6. CASE ExitDequeue
    BY <1>6, FiledAccept DEF ExitDequeue
  <1>7. CASE EndOfDrain \/ MergeCheck \/ ExitFlush
    BY <1>7, FiledMemoryStep DEF EndOfDrain, MergeCheck, ExitFlush, BeginFlush
  <1>8. ASSUME NEW s \in Streams, OpenChunk(s) PROVE FiledRows'
    BY <1>8, FiledOpenChunk
  <1>9. ASSUME NEW s \in Streams, ChunkRaises(s) PROVE FiledRows'
    BY <1>9, FiledRaise DEF ChunkRaises, FlushRaises
  <1>10. CASE SnapshotRaises
    BY <1>10, FiledRaise DEF SnapshotRaises, FlushRaises
  <1>11. CASE CloseChunk
    BY <1>11, FiledCloseChunk
  <1>12. CASE OpenSnapshot
    BY <1>12, FiledMemoryStep DEF OpenSnapshot
  <1>13. CASE CloseSnapshot \/ SkipSnapshot
    <2>1. pc' \notin {"merging", "unlink"}
      BY <1>13 DEF CloseSnapshot, SkipSnapshot, FlushReturns, TypeOK
    <2>2. QED
      BY <1>13, <2>1, FiledMemoryStep
         DEF CloseSnapshot, SkipSnapshot, FlushReturns, DropFlushLocals
  <1>14. CASE BeginMerge
    BY <1>14, FiledMemoryStep DEF BeginMerge
  <1>15. ASSUME NEW s \in Streams, SkipStream(s) PROVE FiledRows'
    BY <1>15, FiledMemoryStep DEF SkipStream
  <1>16. ASSUME NEW s \in Streams, OpenDayFile(s) PROVE FiledRows'
    BY <1>16, FiledOpenDayFile
  <1>17. CASE CloseDayFile
    BY <1>17, FiledCloseDayFile
  <1>18. ASSUME NEW t \in Time, UnlinkChunk(t) PROVE FiledRows'
    BY <1>18, FiledUnlinkChunk
  <1>19. CASE MergeReturns \/ ExitMerge
    BY <1>19, FiledMemoryStep
       DEF MergeReturns, ExitMerge, ProcessEnds, DropFlushLocals
  <1>20. CASE UNCHANGED vars
    BY <1>20, FiledMemoryStep DEF vars
  <1>21. QED
    BY <1>1, <1>2, <1>3, <1>4, <1>5, <1>6, <1>7, <1>8, <1>9, <1>10, <1>11,
       <1>12, <1>13, <1>14, <1>15, <1>16, <1>17, <1>18, <1>19, <1>20
       DEF Next, BusStep

LEMMA FiledRowsCorrect == Spec => []FiledRows
  BY TypeCorrect, FiledInit, FiledNext, PTL DEF Spec

-----------------------------------------------------------------------------
(* What each step does to the rows on disk.                                *)

LEMMA DiskUntouched ==
  ASSUME UNCHANGED <<chunks, days>>, NEW r
  PROVE  OnDisk(r)' <=> OnDisk(r)
  BY DEF OnDisk, Stream

\* Only the close of a chunk brings a row to disk.
DiskShrinks == \A r \in Row : OnDisk(r)' => OnDisk(r)

LEMMA DiskOpenChunk ==
  ASSUME TypeOK, NEW s \in Streams, OpenChunk(s)
  PROVE  DiskShrinks
  <1> SUFFICES ASSUME NEW r \in Row, OnDisk(r)' PROVE OnDisk(r)
    BY DEF DiskShrinks
  <1>1. \A t \in Time : r \in chunks'[Stream(r)][t].rows =>
                          r \in chunks[Stream(r)][t].rows
    BY StreamTyping DEF OpenChunk, TypeOK, Torn
  <1>2. QED
    BY <1>1 DEF OpenChunk, OnDisk, Stream

LEMMA DiskCloseChunk ==
  ASSUME TypeOK, MergeHandsOver, CloseChunk, NEW r \in Row
  PROVE  OnDisk(r)' <=> (OnDisk(r) \/ r \in OfStream(rows, wstream))
  <1>1. /\ wstream \in Streams /\ dt \in Time
        /\ chunks[wstream][dt].rows = {}
        /\ chunks'[wstream][dt].rows = OfStream(rows, wstream)
    BY DEF CloseChunk, TypeOK, MergeHandsOver, Whole
  <1>2. Stream(r) \in Streams /\ Stream(r)' = Stream(r) /\ days' = days
    BY StreamTyping DEF CloseChunk, Stream
  <1>3. r \in OfStream(rows, wstream) => Stream(r) = wstream
    BY DEF OfStream
  <1>4. \A t \in Time : ~(Stream(r) = wstream /\ t = dt) =>
             chunks'[Stream(r)][t] = chunks[Stream(r)][t]
    BY <1>1, <1>2 DEF CloseChunk, TypeOK
  <1>5. \A t \in Time : r \in chunks'[Stream(r)][t].rows =>
           r \in chunks[Stream(r)][t].rows \/ r \in OfStream(rows, wstream)
    BY <1>1, <1>4
  <1>6. \A t \in Time : r \in chunks[Stream(r)][t].rows =>
                          r \in chunks'[Stream(r)][t].rows
    BY <1>1, <1>4
  <1>7. r \in OfStream(rows, wstream) => r \in chunks'[Stream(r)][dt].rows
    BY <1>1, <1>3
  <1>8. QED
    BY <1>1, <1>2, <1>5, <1>6, <1>7 DEF OnDisk

LEMMA DiskOpenDayFile ==
  ASSUME TypeOK, NEW s \in Streams, OpenDayFile(s)
  PROVE  DiskShrinks
  <1> SUFFICES ASSUME NEW r \in Row, OnDisk(r)' PROVE OnDisk(r)
    BY DEF DiskShrinks
  <1>1. \A d \in Days : r \in days'[Stream(r)][d].rows =>
                          r \in days[Stream(r)][d].rows
    BY StreamTyping DEF OpenDayFile, TypeOK, Torn
  <1>2. QED
    BY <1>1 DEF OpenDayFile, OnDisk, Stream

LEMMA DiskCloseDayFile ==
  ASSUME TypeOK, FiledRows, CloseDayFile
  PROVE  DiskShrinks
  <1> SUFFICES ASSUME NEW r \in Row, OnDisk(r)' PROVE OnDisk(r)
    BY DEF DiskShrinks
  <1>1. mstream \in Streams /\ mday \in Days /\ Stream(r) \in Streams
        /\ Stream(r)' = Stream(r) /\ chunks' = chunks
    BY StreamTyping DEF CloseDayFile, TypeOK, Stream
  <1>2. \A d \in Days : r \in days'[Stream(r)][d].rows =>
           r \in days[Stream(r)][d].rows \/ (r \in mrows /\ Stream(r) = mstream)
    BY <1>1 DEF CloseDayFile, TypeOK, Whole
  <1>3. r \in mrows /\ Stream(r) = mstream => OnDisk(r)
    BY <1>1 DEF CloseDayFile, FiledRows, OnDisk
  <1>4. QED
    BY <1>1, <1>2, <1>3 DEF OnDisk

LEMMA DiskUnlinkChunk ==
  ASSUME TypeOK, NEW t \in Time, UnlinkChunk(t)
  PROVE  DiskShrinks
  <1> SUFFICES ASSUME NEW r \in Row, OnDisk(r)' PROVE OnDisk(r)
    BY DEF DiskShrinks
  <1>1. \A u \in Time : r \in chunks'[Stream(r)][u].rows =>
                          r \in chunks[Stream(r)][u].rows
    BY StreamTyping DEF UnlinkChunk, TypeOK, Absent
  <1>2. QED
    BY <1>1 DEF UnlinkChunk, OnDisk, Stream

-----------------------------------------------------------------------------
(* Steps of the recorder as steps of the ledger.                           *)

Held == {r \in accepted : r \in buf \cup rows /\ ~OnDisk(r)}
Stored == {r \in accepted : OnDisk(r)}
Lost == {r \in accepted : r \notin buf \cup rows /\ ~OnDisk(r)}

\* A step of the recorder keeps rows in memory and rows on disk apart and
\* looks like a step of the ledger, or like none.
Refines == MemoryApart' /\ [Ledger!Next]_(Ledger!ledger)

\* No row changes place.
LEMMA LedgerStutters ==
  ASSUME MemoryApart, UNCHANGED <<accepted, chunks, days>>,
         buf' \cup rows' = buf \cup rows
  PROVE  Refines
  <1>1. \A r : OnDisk(r)' <=> OnDisk(r)
    BY DiskUntouched
  <1>2. MemoryApart'
    BY <1>1 DEF MemoryApart
  <1>3. Held' = Held /\ Stored' = Stored /\ Lost' = Lost
    BY <1>1 DEF Held, Stored, Lost
  <1>4. UNCHANGED Ledger!ledger
    BY <1>3 DEF Ledger!ledger, Held, Stored, Lost
  <1>5. QED
    BY <1>2, <1>4 DEF Refines

\* Rows leave memory and the disk is left alone: Drop.
LEMMA LedgerDrops ==
  ASSUME MemoryApart, UNCHANGED <<accepted, chunks, days>>,
         buf' \cup rows' \subseteq buf \cup rows
  PROVE  Refines
  <1>1. \A r : OnDisk(r)' <=> OnDisk(r)
    BY DiskUntouched
  <1>2. MemoryApart'
    BY <1>1 DEF MemoryApart
  <1>3. PICK S \in SUBSET Held : S = Held \ Held'
    OBVIOUS
  <1>4. /\ Held' = Held \ S /\ Lost' = Lost \cup S /\ Stored' = Stored
    BY <1>1, <1>3 DEF Held, Stored, Lost
  <1>5. Ledger!Drop(S)
    BY <1>4 DEF Ledger!Drop, Held, Stored, Lost
  <1>6. QED
    BY <1>2, <1>3, <1>5 DEF Refines, Ledger!Next, Held

\* Rows lose their last copy on disk and memory is left alone: Discard.
LEMMA LedgerDiscards ==
  ASSUME TypeOK, MemoryApart, DiskShrinks, UNCHANGED <<accepted, buf, rows>>
  PROVE  Refines
  <1>1. \A r \in accepted : OnDisk(r)' => OnDisk(r)
    BY DEF DiskShrinks, TypeOK
  <1>2. MemoryApart'
    BY DEF MemoryApart, DiskShrinks, TypeOK
  <1>3. PICK S \in SUBSET Stored : S = Stored \ Stored'
    OBVIOUS
  <1>4. /\ Stored' = Stored \ S
    BY <1>1, <1>3 DEF Stored
  <1>5. Held' = Held
    BY <1>2 DEF Held, MemoryApart
  <1>6. Lost' = Lost \cup S
    BY <1>1, <1>3 DEF Lost, Stored, MemoryApart
  <1>7. Ledger!Discard(S)
    BY <1>4, <1>5, <1>6 DEF Ledger!Discard, Held, Stored, Lost
  <1>8. QED
    BY <1>2, <1>3, <1>7 DEF Refines, Ledger!Next, Stored

\* A row that was never handed over before goes to memory: Take.
LEMMA LedgerTakes ==
  ASSUME MemoryApart, FiledRows, NEW r \in Row, r \notin accepted, Accept(r),
         UNCHANGED <<rows, chunks, days>>
  PROVE  Refines
  <1>1. \A q : OnDisk(q)' <=> OnDisk(q)
    BY DiskUntouched
  <1>2. ~OnDisk(r)
    <2>1. Stream(r) \in Streams
      BY StreamTyping
    <2>2. QED
      BY <2>1 DEF OnDisk, FiledRows
  <1>3. r \notin buf \cup rows
    BY DEF FiledRows
  <1>4. accepted' = accepted \cup {r} /\ buf' = buf \cup {r}
    BY DEF Accept
  <1>5. MemoryApart'
    BY <1>1, <1>2, <1>4 DEF MemoryApart
  <1>6. Held' = Held \cup {r} /\ Stored' = Stored /\ Lost' = Lost
    BY <1>1, <1>2, <1>4 DEF Held, Stored, Lost
  <1>7. r \notin Held \cup Stored \cup Lost
    BY DEF Held, Stored, Lost
  <1>8. Ledger!Take(r)
    BY <1>6, <1>7 DEF Ledger!Take, Held, Stored, Lost
  <1>9. QED
    BY <1>5, <1>8 DEF Refines, Ledger!Next

\* The close of a chunk: Persist.
LEMMA LedgerPersists ==
  ASSUME TypeOK, MergeHandsOver, FiledRows, BuffersCleared, MemoryApart,
         CloseChunk
  PROVE  Refines
  <1>1. /\ buf = {} /\ buf' = {} /\ accepted' = accepted
        /\ rows' = rows \ OfStream(rows, wstream)
    BY DEF CloseChunk, BuffersCleared, Flushing, histVars
  <1>2. PICK S : S = OfStream(rows, wstream)
    OBVIOUS
  <1>3. \A r \in accepted : OnDisk(r)' <=> (OnDisk(r) \/ r \in S)
    BY <1>2, DiskCloseChunk DEF TypeOK
  <1>4. S \subseteq rows /\ rows \subseteq accepted /\ rows' = rows \ S
    BY <1>1, <1>2 DEF OfStream, FiledRows
  <1>5. S \subseteq Held
    BY <1>4 DEF Held, MemoryApart
  <1>6. MemoryApart'
    BY <1>1, <1>3, <1>4 DEF MemoryApart
  <1>7. Held' = Held \ S /\ Stored' = Stored \cup S /\ Lost' = Lost
    BY <1>1, <1>3, <1>4 DEF Held, Stored, Lost
  <1>8. Ledger!Persist(S)
    BY <1>5, <1>7 DEF Ledger!Persist, Held, Stored, Lost
  <1>9. QED
    BY <1>5, <1>6, <1>8 DEF Refines, Ledger!Next, Held

LEMMA LedgerDequeues ==
  ASSUME TypeOK, QueueFresh, FiledRows, MemoryApart, queue # <<>>,
         Accept(Head(queue)), UNCHANGED <<rows, chunks, days>>
  PROVE  Refines
  <1>1. Head(queue) \in Row /\ \A r \in accepted : r.id < Head(queue).id
    BY QueueFreshHead
  <1>2. Head(queue).id \in Nat
    BY <1>1 DEF Row
  <1>3. Head(queue) \notin accepted
    BY <1>1, <1>2
  <1>4. QED
    BY <1>1, <1>3, LedgerTakes

LEMMA LedgerNext ==
  TypeOK /\ MergeHandsOver /\ FlushHandsOver /\ BuffersCleared /\ QueueFresh
     /\ FiledRows /\ MemoryApart /\ [Next]_vars => Refines
  <1> SUFFICES ASSUME TypeOK, MergeHandsOver, FlushHandsOver, BuffersCleared,
                      QueueFresh, FiledRows, MemoryApart, [Next]_vars
               PROVE  Refines
    OBVIOUS
  <1> USE DEF loopVars, flushVars, mergeVars, diskVars, histVars
  <1>1. CASE AdvanceClock
    BY <1>1, LedgerStutters DEF AdvanceClock
  <1>2. ASSUME NEW c \in Codes, NEW b \in BOOLEAN, Emit(c, b) PROVE Refines
    BY <1>2, LedgerStutters DEF Emit
  <1>3. CASE Start \/ LoopTop
    BY <1>3, LedgerStutters DEF Start, LoopTop
  <1>4. CASE Kill \/ Interrupt
    BY <1>4, LedgerDrops
       DEF Kill, Interrupt, ProcessEnds, LeaveLoop, DropFlushLocals
  <1>5. CASE Dequeue
    BY <1>5, LedgerStutters, LedgerDequeues DEF Dequeue
  <1>6. CASE ExitDequeue
    BY <1>6, LedgerDequeues DEF ExitDequeue
  <1>7. CASE EndOfDrain \/ MergeCheck \/ ExitFlush
    <2>1. rows = {}
      BY <1>7 DEF EndOfDrain, MergeCheck, ExitFlush, FlushHandsOver
    <2>2. QED
      BY <1>7, <2>1, LedgerStutters
         DEF EndOfDrain, MergeCheck, ExitFlush, BeginFlush
  <1>8. ASSUME NEW s \in Streams, OpenChunk(s) PROVE Refines
    BY <1>8, DiskOpenChunk, LedgerDiscards DEF OpenChunk
  <1>9. ASSUME FlushRaises, UNCHANGED diskVars PROVE Refines
    BY <1>9, LedgerDrops
       DEF FlushRaises, ProcessEnds, LeaveLoop, DropFlushLocals
  <1>10. ASSUME NEW s \in Streams, ChunkRaises(s) PROVE Refines
    BY <1>9, <1>10 DEF ChunkRaises, FlushRaises
  <1>11. CASE SnapshotRaises
    BY <1>9, <1>11 DEF SnapshotRaises, FlushRaises
  <1>12. CASE CloseChunk
    BY <1>12, LedgerPersists
  <1>13. CASE OpenSnapshot
    BY <1>13, LedgerStutters DEF OpenSnapshot
  <1>14. CASE CloseSnapshot \/ SkipSnapshot
    BY <1>14, LedgerDrops
       DEF CloseSnapshot, SkipSnapshot, FlushReturns, DropFlushLocals
  <1>15. CASE BeginMerge
    BY <1>15, LedgerStutters DEF BeginMerge
  <1>16. ASSUME NEW s \in Streams, SkipStream(s) PROVE Refines
    BY <1>16, LedgerStutters DEF SkipStream
  <1>17. ASSUME NEW s \in Streams, OpenDayFile(s) PROVE Refines
    BY <1>17, DiskOpenDayFile, LedgerDiscards DEF OpenDayFile
  <1>18. CASE CloseDayFile
    BY <1>18, DiskCloseDayFile, LedgerDiscards DEF CloseDayFile
  <1>19. ASSUME NEW t \in Time, UnlinkChunk(t) PROVE Refines
    BY <1>19, DiskUnlinkChunk, LedgerDiscards DEF UnlinkChunk
  <1>20. CASE MergeReturns \/ ExitMerge
    BY <1>20, LedgerDrops
       DEF MergeReturns, ExitMerge, ProcessEnds, DropFlushLocals
  <1>21. CASE UNCHANGED vars
    BY <1>21, LedgerStutters DEF vars
  <1>22. QED
    BY <1>1, <1>2, <1>3, <1>4, <1>5, <1>6, <1>7, <1>8, <1>10, <1>11, <1>12,
       <1>13, <1>14, <1>15, <1>16, <1>17, <1>18, <1>19, <1>20, <1>21
       DEF Next, BusStep

LEMMA LedgerInit == Init => Ledger!Init /\ MemoryApart
  <1> SUFFICES ASSUME Init PROVE Ledger!Init /\ MemoryApart
    OBVIOUS
  <1>1. accepted = {} /\ buf = {} /\ rows = {}
    BY DEF Init
  <1>2. QED
    BY <1>1 DEF Ledger!Init, MemoryApart

\* The recorder implements the ledger of rows: a row is taken into memory once,
\* goes from memory to disk or is lost, and never comes back, through every
\* flush, merge, kill, restart and overwritten file.
THEOREM LedgerCorrect == Spec => ImplementsLedger
  <1>1. Spec => []MemoryApart
    <2>1. TypeOK /\ MergeHandsOver /\ FlushHandsOver /\ BuffersCleared
             /\ QueueFresh /\ FiledRows /\ MemoryApart /\ [Next]_vars
             => MemoryApart'
      BY LedgerNext DEF Refines
    <2>2. QED
      BY <2>1, LedgerInit, TypeCorrect, HandsOverCorrect, FlushHandsOverCorrect,
         BuffersClearedCorrect, QueueFreshCorrect, FiledRowsCorrect, PTL
         DEF Spec
  <1>2. TypeOK /\ MergeHandsOver /\ FlushHandsOver /\ BuffersCleared
           /\ QueueFresh /\ FiledRows /\ MemoryApart /\ [Next]_vars
           => [Ledger!Next]_(Ledger!ledger)
    BY LedgerNext DEF Refines
  <1>3. Spec => Ledger!Init /\ [][Ledger!Next]_(Ledger!ledger)
    BY <1>1, <1>2, LedgerInit, TypeCorrect, HandsOverCorrect,
       FlushHandsOverCorrect, BuffersClearedCorrect, QueueFreshCorrect,
       FiledRowsCorrect, PTL DEF Spec
  <1>4. QED
    BY <1>3 DEF ImplementsLedger, Ledger!Spec

-----------------------------------------------------------------------------
(* One file at a time.                                                     *)

TornChunks == {st \in Streams \X Time : chunks[st[1]][st[2]].st = "torn"}
TornDays == {sd \in Streams \X Days : days[sd[1]][sd[2]].st = "torn"}

\* A file that is open is torn; the files that are torn can be counted.
OpenFileTorn ==
    /\ pc = "writing" => chunks[wstream][dt].st = "torn"
    /\ pc = "merging" => days[mstream][mday].st = "torn"
    /\ pc = "snapping" => snapfile.st = "torn"
    /\ IsFiniteSet(TornChunks) /\ IsFiniteSet(TornDays)
    /\ OneFileOpenAtATime

LEMMA OpenFileInit == Init => OpenFileTorn
  <1> SUFFICES ASSUME Init PROVE OpenFileTorn
    OBVIOUS
  <1>1. TornChunks = {} /\ TornDays = {}
    BY DEF Init, TornChunks, TornDays, Absent
  <1>2. /\ IsFiniteSet(TornChunks) /\ IsFiniteSet(TornDays)
        /\ Cardinality(TornChunks) = 0 /\ Cardinality(TornDays) = 0
    BY <1>1, FS_EmptySet
  <1>3. TornCount = 0
    BY <1>2 DEF TornCount, TornChunks, TornDays, Init, Absent
  <1>4. QED
    BY <1>2, <1>3 DEF Init, OpenFileTorn, OneFileOpenAtATime, Writing

\* The count, from the numbers of torn chunks and torn day files.
LEMMA TornSum ==
  ASSUME IsFiniteSet(TornChunks), IsFiniteSet(TornDays)
  PROVE  /\ Cardinality(TornChunks) \in Nat /\ Cardinality(TornDays) \in Nat
         /\ TornCount = Cardinality(TornChunks) + Cardinality(TornDays)
                          + (IF snapfile.st = "torn" THEN 1 ELSE 0)
  BY FS_CardinalityType DEF TornCount, TornChunks, TornDays

\* Steps that open and close no file, and that a kill may end.
LEMMA OpenFileSame ==
  ASSUME TypeOK, OpenFileTorn, UNCHANGED <<chunks, days, snapfile>>,
         \/ UNCHANGED <<pc, kills, wstream, dt, mstream, mday>>
         \/ ~Writing /\ ~Writing' /\ kills' = kills
         \/ ~Writing' /\ kills' = kills + 1
  PROVE  OpenFileTorn'
  <1>1. TornChunks' = TornChunks /\ TornDays' = TornDays /\ TornCount' = TornCount
    BY DEF TornChunks, TornDays, TornCount
  <1>2. TornCount \in Nat /\ kills \in Nat
    BY TornSum DEF OpenFileTorn, TypeOK
  <1>3. OneFileOpenAtATime'
    BY <1>1, <1>2 DEF OpenFileTorn, OneFileOpenAtATime, Writing
  <1>4. QED
    BY <1>1, <1>3 DEF OpenFileTorn, Writing

\* A chunk is opened, closed, or opened and left so by nobody but a kill.
LEMMA OpenFileOpenChunk ==
  ASSUME TypeOK, OpenFileTorn, NEW s \in Streams, OpenChunk(s)
  PROVE  OpenFileTorn'
  <1>1. TornChunks' = TornChunks \cup {<<s, dt>>}
    <2>1. <<s, dt>> \in Streams \X Time
      BY DEF TypeOK
    <2>2. \A q \in Streams, t \in Time :
             chunks'[q][t] = IF q = s /\ t = dt THEN Torn ELSE chunks[q][t]
      BY DEF OpenChunk, TypeOK
    <2>3. Torn.st = "torn"
      BY DEF Torn
    <2>4. QED
      BY <2>1, <2>2, <2>3 DEF TornChunks
  <1>2. UNCHANGED <<TornDays, kills, days, snapfile>> /\ pc = "write"
        /\ pc' = "writing" /\ wstream' = s /\ dt' = dt
    BY DEF OpenChunk, TornDays
  <1>3. /\ IsFiniteSet(TornChunks') /\ IsFiniteSet(TornDays')
        /\ Cardinality(TornChunks') <= Cardinality(TornChunks) + 1
    <2>1. IsFiniteSet(TornChunks) /\ IsFiniteSet(TornDays)
      BY DEF OpenFileTorn
    <2>2. IsFiniteSet(TornDays')
      BY <1>2, <2>1
    <2>3. Cardinality(TornChunks) \in Nat
      BY <2>1, FS_CardinalityType
    <2>4. /\ IsFiniteSet(TornChunks \cup {<<s, dt>>})
          /\ \/ Cardinality(TornChunks \cup {<<s, dt>>}) = Cardinality(TornChunks)
             \/ Cardinality(TornChunks \cup {<<s, dt>>}) = Cardinality(TornChunks) + 1
      BY <2>1, FS_AddElement, Zenon
    <2>5. QED
      BY <1>1, <2>2, <2>3, <2>4
  <1>4. TornCount' \in Nat /\ TornCount' <= TornCount + 1
    <2>1. TornCount' = Cardinality(TornChunks') + Cardinality(TornDays')
                          + (IF snapfile'.st = "torn" THEN 1 ELSE 0)
      BY DEF TornCount, TornChunks, TornDays
    <2>2. Cardinality(TornChunks') \in Nat /\ Cardinality(TornDays') \in Nat
      BY <1>3, FS_CardinalityType
    <2>3. QED
      BY <1>2, <1>3, <2>1, <2>2, TornSum DEF OpenFileTorn
  <1>5. TornCount \in Nat /\ kills \in Nat
    BY TornSum DEF OpenFileTorn, TypeOK
  <1>6. OneFileOpenAtATime'
    BY <1>2, <1>4, <1>5 DEF OpenFileTorn, OneFileOpenAtATime, Writing
  <1>7. chunks'[wstream'][dt'].st = "torn"
    BY <1>2 DEF OpenChunk, TypeOK, Torn
  <1>8. QED
    BY <1>2, <1>3, <1>6, <1>7 DEF OpenFileTorn

LEMMA OpenFileCloseChunk ==
  ASSUME TypeOK, OpenFileTorn, CloseChunk
  PROVE  OpenFileTorn'
  <1>1. wstream \in Streams /\ dt \in Time /\ <<wstream, dt>> \in TornChunks
    BY DEF CloseChunk, TypeOK, OpenFileTorn, TornChunks
  <1>2. TornChunks' = TornChunks \ {<<wstream, dt>>}
    <2>1. \A q \in Streams, t \in Time :
             chunks'[q][t] = IF q = wstream /\ t = dt
                             THEN Whole(OfStream(rows, wstream)) ELSE chunks[q][t]
      BY <1>1 DEF CloseChunk, TypeOK
    <2>2. Whole(OfStream(rows, wstream)).st # "torn"
      BY DEF Whole
    <2>3. QED
      BY <1>1, <2>1, <2>2 DEF TornChunks
  <1>3. UNCHANGED <<TornDays, kills, days, snapfile>> /\ pc = "writing"
        /\ pc' = "write"
    BY DEF CloseChunk, TornDays, histVars
  <1>4. /\ IsFiniteSet(TornChunks') /\ IsFiniteSet(TornDays')
        /\ Cardinality(TornChunks') = Cardinality(TornChunks) - 1
    BY <1>1, <1>2, <1>3, FS_RemoveElement DEF OpenFileTorn
  <1>5. TornCount' = TornCount - 1
    <2>1. TornCount' = Cardinality(TornChunks') + Cardinality(TornDays')
                          + (IF snapfile'.st = "torn" THEN 1 ELSE 0)
      BY DEF TornCount, TornChunks, TornDays
    <2>2. QED
      BY <1>3, <1>4, <2>1, TornSum DEF OpenFileTorn
  <1>6. TornCount \in Nat /\ kills \in Nat
    BY TornSum DEF OpenFileTorn, TypeOK
  <1>7. OneFileOpenAtATime'
    BY <1>3, <1>5, <1>6 DEF OpenFileTorn, OneFileOpenAtATime, Writing
  <1>8. QED
    BY <1>3, <1>4, <1>7 DEF OpenFileTorn

LEMMA OpenFileOpenDay ==
  ASSUME TypeOK, OpenFileTorn, NEW s \in Streams, OpenDayFile(s)
  PROVE  OpenFileTorn'
  <1>1. TornDays' = TornDays \cup {<<s, mday>>}
    <2>1. <<s, mday>> \in Streams \X Days
      BY DEF TypeOK
    <2>2. \A q \in Streams, d \in Days :
             days'[q][d] = IF q = s /\ d = mday THEN Torn ELSE days[q][d]
      BY DEF OpenDayFile, TypeOK
    <2>3. Torn.st = "torn"
      BY DEF Torn
    <2>4. QED
      BY <2>1, <2>2, <2>3 DEF TornDays
  <1>2. UNCHANGED <<TornChunks, kills, chunks, snapfile>> /\ pc = "merge"
        /\ pc' = "merging" /\ mstream' = s /\ mday' = mday
    BY DEF OpenDayFile, TornChunks
  <1>3. /\ IsFiniteSet(TornChunks') /\ IsFiniteSet(TornDays')
        /\ Cardinality(TornDays') <= Cardinality(TornDays) + 1
    <2>1. IsFiniteSet(TornDays) /\ IsFiniteSet(TornChunks)
      BY DEF OpenFileTorn
    <2>2. IsFiniteSet(TornChunks')
      BY <1>2, <2>1
    <2>3. Cardinality(TornDays) \in Nat
      BY <2>1, FS_CardinalityType
    <2>4. /\ IsFiniteSet(TornDays \cup {<<s, mday>>})
          /\ \/ Cardinality(TornDays \cup {<<s, mday>>}) = Cardinality(TornDays)
             \/ Cardinality(TornDays \cup {<<s, mday>>}) = Cardinality(TornDays) + 1
      BY <2>1, FS_AddElement, Zenon
    <2>5. QED
      BY <1>1, <2>2, <2>3, <2>4
  <1>4. TornCount' \in Nat /\ TornCount' <= TornCount + 1
    <2>1. TornCount' = Cardinality(TornChunks') + Cardinality(TornDays')
                          + (IF snapfile'.st = "torn" THEN 1 ELSE 0)
      BY DEF TornCount, TornChunks, TornDays
    <2>2. Cardinality(TornChunks') \in Nat /\ Cardinality(TornDays') \in Nat
      BY <1>3, FS_CardinalityType
    <2>3. QED
      BY <1>2, <1>3, <2>1, <2>2, TornSum DEF OpenFileTorn
  <1>5. TornCount \in Nat /\ kills \in Nat
    BY TornSum DEF OpenFileTorn, TypeOK
  <1>6. OneFileOpenAtATime'
    BY <1>2, <1>4, <1>5 DEF OpenFileTorn, OneFileOpenAtATime, Writing
  <1>7. days'[mstream'][mday'].st = "torn"
    BY <1>2 DEF OpenDayFile, TypeOK, Torn
  <1>8. QED
    BY <1>2, <1>3, <1>6, <1>7 DEF OpenFileTorn

LEMMA OpenFileCloseDay ==
  ASSUME TypeOK, OpenFileTorn, CloseDayFile
  PROVE  OpenFileTorn'
  <1>1. mstream \in Streams /\ mday \in Days /\ <<mstream, mday>> \in TornDays
    BY DEF CloseDayFile, TypeOK, OpenFileTorn, TornDays
  <1>2. TornDays' = TornDays \ {<<mstream, mday>>}
    <2>1. \A q \in Streams, d \in Days :
             days'[q][d] = IF q = mstream /\ d = mday
                           THEN Whole(mrows) ELSE days[q][d]
      BY <1>1 DEF CloseDayFile, TypeOK
    <2>2. Whole(mrows).st # "torn"
      BY DEF Whole
    <2>3. QED
      BY <1>1, <2>1, <2>2 DEF TornDays
  <1>3. UNCHANGED <<TornChunks, kills, chunks, snapfile>> /\ pc = "merging"
        /\ pc' = "unlink"
    BY DEF CloseDayFile, TornChunks, histVars
  <1>4. /\ IsFiniteSet(TornChunks') /\ IsFiniteSet(TornDays')
        /\ Cardinality(TornDays') = Cardinality(TornDays) - 1
    BY <1>1, <1>2, <1>3, FS_RemoveElement DEF OpenFileTorn
  <1>5. TornCount' = TornCount - 1
    <2>1. TornCount' = Cardinality(TornChunks') + Cardinality(TornDays')
                          + (IF snapfile'.st = "torn" THEN 1 ELSE 0)
      BY DEF TornCount, TornChunks, TornDays
    <2>2. QED
      BY <1>3, <1>4, <2>1, TornSum DEF OpenFileTorn
  <1>6. TornCount \in Nat /\ kills \in Nat
    BY TornSum DEF OpenFileTorn, TypeOK
  <1>7. OneFileOpenAtATime'
    BY <1>3, <1>5, <1>6 DEF OpenFileTorn, OneFileOpenAtATime, Writing
  <1>8. QED
    BY <1>3, <1>4, <1>7 DEF OpenFileTorn

\* Unlinking a chunk can only take one from the torn files.
LEMMA OpenFileUnlink ==
  ASSUME TypeOK, OpenFileTorn, NEW t \in Time, UnlinkChunk(t)
  PROVE  OpenFileTorn'
  <1>1. TornChunks' \in SUBSET TornChunks
    BY DEF UnlinkChunk, TypeOK, TornChunks, Absent
  <1>2. UNCHANGED <<TornDays, kills, days, snapfile>> /\ pc = "unlink"
        /\ pc' \in {"merge", "unlink"}
    BY DEF UnlinkChunk, TornDays
  <1>3. /\ IsFiniteSet(TornChunks') /\ IsFiniteSet(TornDays')
        /\ Cardinality(TornChunks') <= Cardinality(TornChunks)
    BY <1>1, <1>2, FS_Subset DEF OpenFileTorn
  <1>4. TornCount' \in Nat /\ TornCount' <= TornCount
    <2>1. TornCount' = Cardinality(TornChunks') + Cardinality(TornDays')
                          + (IF snapfile'.st = "torn" THEN 1 ELSE 0)
      BY DEF TornCount, TornChunks, TornDays
    <2>2. Cardinality(TornChunks') \in Nat /\ Cardinality(TornDays') \in Nat
      BY <1>3, FS_CardinalityType
    <2>3. QED
      BY <1>2, <1>3, <2>1, <2>2, TornSum DEF OpenFileTorn
  <1>5. TornCount \in Nat /\ kills \in Nat
    BY TornSum DEF OpenFileTorn, TypeOK
  <1>6. OneFileOpenAtATime'
    BY <1>2, <1>4, <1>5 DEF OpenFileTorn, OneFileOpenAtATime, Writing
  <1>7. QED
    BY <1>2, <1>3, <1>6 DEF OpenFileTorn

\* The snapshot file, torn while it is open and whole afterwards.
LEMMA OpenFileSnapshot ==
  ASSUME TypeOK, OpenFileTorn, OpenSnapshot \/ CloseSnapshot
  PROVE  OpenFileTorn'
  <1>1. UNCHANGED <<TornChunks, TornDays, kills, chunks, days>>
    BY DEF OpenSnapshot, CloseSnapshot, TornChunks, TornDays, histVars
  <1>2. IsFiniteSet(TornChunks') /\ IsFiniteSet(TornDays')
    BY <1>1 DEF OpenFileTorn
  <1>3. TornCount' = TornCount - (IF snapfile.st = "torn" THEN 1 ELSE 0)
                       + (IF snapfile'.st = "torn" THEN 1 ELSE 0)
    <2>1. TornCount' = Cardinality(TornChunks') + Cardinality(TornDays')
                          + (IF snapfile'.st = "torn" THEN 1 ELSE 0)
      BY DEF TornCount, TornChunks, TornDays
    <2>2. QED
      BY <1>1, <2>1, TornSum DEF OpenFileTorn
  <1>4. TornCount \in Nat /\ kills \in Nat
    BY TornSum DEF OpenFileTorn, TypeOK
  <1>5. CASE OpenSnapshot
    <2>1. pc = "write" /\ pc' = "snapping" /\ snapfile'.st = "torn"
      BY <1>5 DEF OpenSnapshot, Torn
    <2>2. OneFileOpenAtATime'
      BY <1>1, <1>3, <1>4, <2>1 DEF OpenFileTorn, OneFileOpenAtATime, Writing
    <2>3. QED
      BY <1>2, <2>1, <2>2 DEF OpenFileTorn
  <1>6. CASE CloseSnapshot
    <2>1. /\ pc = "snapping" /\ pc' \notin {"writing", "merging", "snapping"}
          /\ snapfile.st = "torn" /\ snapfile'.st # "torn"
      BY <1>6 DEF CloseSnapshot, FlushReturns, OpenFileTorn, TypeOK, Whole
    <2>2. OneFileOpenAtATime'
      BY <1>1, <1>3, <1>4, <2>1 DEF OpenFileTorn, OneFileOpenAtATime, Writing
    <2>3. QED
      BY <1>2, <2>1, <2>2 DEF OpenFileTorn
  <1>7. QED
    BY <1>5, <1>6

LEMMA OpenFileNext == TypeOK /\ OpenFileTorn /\ [Next]_vars => OpenFileTorn'
  <1> SUFFICES ASSUME TypeOK, OpenFileTorn, [Next]_vars PROVE OpenFileTorn'
    OBVIOUS
  <1> USE DEF loopVars, flushVars, mergeVars, diskVars, histVars
  <1>1. CASE AdvanceClock
    BY <1>1, OpenFileSame DEF AdvanceClock
  <1>2. ASSUME NEW c \in Codes, NEW b \in BOOLEAN, Emit(c, b)
        PROVE  OpenFileTorn'
    BY <1>2, OpenFileSame DEF Emit
  <1>3. CASE Start \/ LoopTop
    BY <1>3, OpenFileSame DEF Start, LoopTop, Writing
  <1>4. CASE Kill
    BY <1>4, OpenFileSame DEF Kill, ProcessEnds, Writing
  <1>5. CASE Interrupt
    BY <1>5, OpenFileSame DEF Interrupt, Interruptible, LeaveLoop, Writing
  <1>6. CASE Dequeue \/ ExitDequeue
    BY <1>6, OpenFileSame DEF Dequeue, ExitDequeue
  <1>7. CASE EndOfDrain \/ MergeCheck \/ ExitFlush
    BY <1>7, OpenFileSame
       DEF EndOfDrain, MergeCheck, ExitFlush, BeginFlush, Writing
  <1>8. ASSUME NEW s \in Streams, OpenChunk(s) PROVE OpenFileTorn'
    BY <1>8, OpenFileOpenChunk
  <1>9. ASSUME FlushRaises, pc = "write", UNCHANGED diskVars
        PROVE  OpenFileTorn'
    BY <1>9, OpenFileSame DEF FlushRaises, ProcessEnds, LeaveLoop, Writing
  <1>10. ASSUME NEW s \in Streams, ChunkRaises(s) PROVE OpenFileTorn'
    BY <1>9, <1>10 DEF ChunkRaises, FlushRaises
  <1>11. CASE SnapshotRaises
    BY <1>9, <1>11 DEF SnapshotRaises, FlushRaises
  <1>12. CASE CloseChunk
    BY <1>12, OpenFileCloseChunk
  <1>13. CASE OpenSnapshot \/ CloseSnapshot
    BY <1>13, OpenFileSnapshot
  <1>14. CASE SkipSnapshot
    BY <1>14, OpenFileSame DEF SkipSnapshot, FlushReturns, Writing, TypeOK
  <1>15. CASE BeginMerge
    BY <1>15, OpenFileSame DEF BeginMerge, Writing
  <1>16. ASSUME NEW s \in Streams, SkipStream(s) PROVE OpenFileTorn'
    BY <1>16, OpenFileSame DEF SkipStream
  <1>17. ASSUME NEW s \in Streams, OpenDayFile(s) PROVE OpenFileTorn'
    BY <1>17, OpenFileOpenDay
  <1>18. CASE CloseDayFile
    BY <1>18, OpenFileCloseDay
  <1>19. ASSUME NEW t \in Time, UnlinkChunk(t) PROVE OpenFileTorn'
    BY <1>19, OpenFileUnlink
  <1>20. CASE MergeReturns \/ ExitMerge
    BY <1>20, OpenFileSame DEF MergeReturns, ExitMerge, ProcessEnds, Writing
  <1>21. CASE UNCHANGED vars
    BY <1>21, OpenFileSame DEF vars
  <1>22. QED
    BY <1>1, <1>2, <1>3, <1>4, <1>5, <1>6, <1>7, <1>8, <1>10, <1>11, <1>12,
       <1>13, <1>14, <1>15, <1>16, <1>17, <1>18, <1>19, <1>20, <1>21
       DEF Next, BusStep

\* Each file is closed before the next is begun: at most one is open, and the
\* unreadable files left behind are no more than the process was killed.
THEOREM OneFileOpenCorrect == Spec => []OneFileOpenAtATime
  <1>1. Spec => []OpenFileTorn
    BY TypeCorrect, OpenFileInit, OpenFileNext, PTL DEF Spec
  <1>2. OpenFileTorn => OneFileOpenAtATime
    BY DEF OpenFileTorn
  <1>3. QED
    BY <1>1, <1>2, PTL

-----------------------------------------------------------------------------
(* How far the time of a chunk may be from the times of the rows in it.    *)

\* The k-th row of the queue was stamped at most n iterations ago, and all of
\* them but the first took Batch rows that were before it.
Waited(k) ==
    \E n \in Nat :
        /\ loopNow - queue[k].ts <= n * Lag
        /\ n > 0 => Batch * (n - 1) + processed + k <= QueueMax
        /\ n > 0 /\ ~exiting /\ pc # "drain" => processed >= Batch

QueueWaits ==
    /\ pc = "off" => queue = <<>>
    /\ Len(queue) <= QueueMax
    /\ \A k \in 1 .. Len(queue) : queue[k].ts <= clock /\ Waited(k)

\* The quotient is the greatest number of whole batches in a queue.
LEMMA WholeBatches ==
  ASSUME NEW b \in Nat, b > 0, NEW q \in Nat, NEW m \in Nat, b * m <= q
  PROVE  m <= q \div b
  <1>1. q \div b \in Nat /\ q < b * (q \div b) + b
    OBVIOUS
  <1>2. SUFFICES ASSUME m >= q \div b + 1 PROVE FALSE
    BY <1>1
  <1>3. ASSUME NEW x \in Nat, NEW y \in Nat, x >= y + 1
        PROVE  b * x >= b * y + b
    BY <1>3
  <1>4. QED
    BY <1>1, <1>2, <1>3

LEMMA QueueAgeNatural ==
  /\ QueueAge \in Nat /\ Reach \in Nat /\ QueueMax \div Batch \in Nat
  /\ QueueAge >= 2 * Lag /\ Lag \in Nat /\ FlushInterval \in Nat
  <1>1. Batch \in Nat /\ Batch > 0 /\ QueueMax \in Nat /\ Lag \in Nat
        /\ FlushInterval \in Nat
    BY ConstantsOK
  <1>2. QueueMax \div Batch \in Nat
    BY <1>1
  <1>3. ASSUME NEW x \in Nat PROVE (x + 2) * Lag \in Nat /\ (x + 2) * Lag >= 2 * Lag
    BY <1>1, <1>3
  <1>4. QueueAge \in Nat /\ QueueAge >= 2 * Lag
    BY <1>2, <1>3 DEF QueueAge
  <1>5. QED
    BY <1>1, <1>2, <1>4 DEF Reach

LEMMA QueueRow ==
  ASSUME TypeOK, NEW k \in 1 .. Len(queue)
  PROVE  queue[k] \in Row /\ queue[k].ts \in Nat
  <1>1. queue \in Seq(Row)
    BY DEF TypeOK
  <1>2. queue[k] \in Row
    BY <1>1
  <1>3. \A r \in Row : r.ts \in Nat
    BY DEF Row, Time
  <1>4. QED
    BY <1>2, <1>3

\* A row that is still in the queue was stamped less than QueueAge ago.
LEMMA QueueRowAge ==
  ASSUME TypeOK, ClocksInOrder, QueueWaits, pc # "off",
         NEW k \in 1 .. Len(queue)
  PROVE  queue[k].ts <= clock /\ clock - queue[k].ts <= QueueAge
  <1>1. queue[k] \in Row /\ queue[k].ts \in Nat
    BY QueueRow
  <1>2. clock \in Nat /\ loopNow \in Nat /\ processed \in Nat /\ k \in Nat /\ k > 0
    BY ClocksAreNaturals DEF ClockTypes, TypeOK
  <1>3. clock - loopNow <= Lag
    BY DEF ClocksInOrder
  <1>4. PICK n \in Nat :
           /\ loopNow - queue[k].ts <= n * Lag
           /\ n > 0 => Batch * (n - 1) + processed + k <= QueueMax
    BY DEF QueueWaits, Waited
  <1>5. Batch \in Nat /\ Batch > 0 /\ QueueMax \in Nat /\ Lag \in Nat
    BY ConstantsOK
  <1>6. n <= QueueMax \div Batch + 1
    <2>1. CASE n = 0
      BY <2>1, QueueAgeNatural
    <2>2. CASE n > 0
      <3>1. n - 1 \in Nat
        BY <2>2
      <3>2. Batch * (n - 1) \in Nat
        BY <1>5, <3>1
      <3>3. Batch * (n - 1) <= QueueMax
        BY <1>2, <1>4, <1>5, <2>2, <3>2
      <3>4. n - 1 <= QueueMax \div Batch
        BY <1>5, <3>1, <3>3, WholeBatches
      <3>5. QED
        BY <3>4, QueueAgeNatural
    <2>3. QED
      BY <2>1, <2>2
  <1>7. ASSUME NEW x \in Nat, n <= x + 1 PROVE n * Lag + Lag <= (x + 2) * Lag
    BY <1>5, <1>7
  <1>8. n * Lag + Lag <= QueueAge /\ n * Lag \in Nat
    BY <1>5, <1>6, <1>7, QueueAgeNatural DEF QueueAge
  <1>9. QED
    BY <1>1, <1>2, <1>3, <1>4, <1>5, <1>8, QueueAgeNatural DEF QueueWaits

LEMMA QueueWaitsInit == Init => QueueWaits
  BY ConstantsOK DEF Init, QueueWaits

LEMMA QueueWaitsEmpty ==
  ASSUME queue' = <<>>
  PROVE  QueueWaits'
  BY ConstantsOK DEF QueueWaits

\* Steps that take nothing from the queue, within an iteration.
LEMMA QueueWaitsSame ==
  ASSUME TypeOK, TypeOK', QueueWaits,
         UNCHANGED <<queue, loopNow, processed>>, clock <= clock',
         pc' = "off" => pc = "off",
         exiting => exiting',
         pc = "drain" /\ pc' # "drain" /\ ~exiting' =>
            queue = <<>> \/ processed = Batch
  PROVE  QueueWaits'
  <1>1. clock \in Nat /\ clock' \in Nat /\ processed \in Nat /\ Batch \in Nat
    BY ClocksAreNaturals, ConstantsOK DEF TypeOK, Time
  <1>2. queue \in Seq(Row) /\ Len(queue') = Len(queue)
    BY DEF TypeOK
  <1>3. ASSUME NEW k \in 1 .. Len(queue)
        PROVE  queue'[k].ts <= clock' /\ Waited(k)'
    <2>1. queue[k] \in Row /\ queue[k].ts \in Nat
      BY QueueRow
    <2>2. queue # <<>>
      BY <1>2
    <2>3. PICK n \in Nat :
             /\ loopNow - queue[k].ts <= n * Lag
             /\ n > 0 => Batch * (n - 1) + processed + k <= QueueMax
             /\ n > 0 /\ ~exiting /\ pc # "drain" => processed >= Batch
      BY DEF QueueWaits, Waited
    <2>4. n > 0 /\ ~exiting' /\ pc' # "drain" => processed' >= Batch
      <3>1. CASE pc = "drain"
        BY <1>1, <2>2, <3>1
      <3>2. CASE pc # "drain"
        BY <2>3, <3>2
      <3>3. QED
        BY <3>1, <3>2
    <2>5. Waited(k)'
      BY <2>3, <2>4 DEF Waited
    <2>6. QED
      BY <1>1, <2>1, <2>5 DEF QueueWaits
  <1>4. QED
    BY <1>2, <1>3 DEF QueueWaits

LEMMA QueueWaitsEmit ==
  ASSUME TypeOK, ClocksInOrder, QueueWaits,
         NEW c \in Codes, NEW b \in BOOLEAN, Emit(c, b)
  PROVE  QueueWaits'
  <1> DEFINE tick == [id |-> emitted + 1, code |-> c, ts |-> clock, bad |-> b]
  <1>1. /\ UNCHANGED <<clock, loopNow, processed, pc, exiting>> /\ pc # "off"
        /\ queue \in Seq(Row) /\ clock \in Nat /\ loopNow \in Nat
        /\ loopNow <= clock /\ Lag \in Nat /\ QueueMax \in Nat
    BY ClocksAreNaturals, ConstantsOK
       DEF Emit, loopVars, TypeOK, ClockTypes, ClocksInOrder
  <1>2. CASE queue' = queue
    BY <1>1, <1>2 DEF QueueWaits, Waited
  <1>3. CASE Len(queue) < QueueMax /\ queue' = Append(queue, tick)
    <2>1. Len(queue') = Len(queue) + 1 /\ Len(queue) \in Nat
      BY <1>1, <1>3
    <2>2. \A k \in 1 .. Len(queue') :
             queue'[k] = IF k = Len(queue) + 1 THEN tick ELSE queue[k]
      BY <1>1, <1>3, <2>1
    <2>3. tick.ts = clock
      OBVIOUS
    <2> HIDE DEF tick
    <2>4. ASSUME NEW k \in 1 .. Len(queue')
          PROVE  queue'[k].ts <= clock' /\ Waited(k)'
      <3>1. CASE k = Len(queue) + 1
        <4>1. queue'[k].ts = clock
          BY <2>2, <2>3, <3>1
        <4>2. loopNow' - queue'[k].ts <= 0 * Lag
          BY <1>1, <4>1
        <4>3. Waited(k)'
          BY <4>2 DEF Waited
        <4>4. QED
          BY <1>1, <4>1, <4>3
      <3>2. CASE k # Len(queue) + 1
        <4>1. k \in 1 .. Len(queue) /\ queue'[k] = queue[k]
          BY <2>1, <2>2, <3>2
        <4>2. queue[k].ts <= clock /\ Waited(k)
          BY <4>1 DEF QueueWaits
        <4>3. QED
          BY <1>1, <4>1, <4>2 DEF Waited
      <3>3. QED
        BY <3>1, <3>2
    <2>5. Len(queue') <= QueueMax
      BY <1>1, <1>3, <2>1
    <2>6. QED
      BY <1>1, <2>4, <2>5 DEF QueueWaits
  <1>4. QED
    BY <1>2, <1>3 DEF Emit

\* A row leaves the queue; the loop counts it, the finally block does not.
LEMMA QueueWaitsTake ==
  ASSUME TypeOK, QueueWaits, queue # <<>>, queue' = Tail(queue),
         UNCHANGED <<clock, loopNow, pc, exiting>>,
         \/ pc = "drain" /\ processed' = processed + 1
         \/ pc = "exitdrain" /\ processed' = processed /\ exiting
  PROVE  QueueWaits'
  <1>1. queue \in Seq(Row) /\ Len(queue) \in Nat /\ Len(queue) > 0
        /\ processed \in Nat /\ QueueMax \in Nat /\ Batch \in Nat
    BY ConstantsOK DEF TypeOK
  <1>2. Len(queue') = Len(queue) - 1
    BY <1>1
  <1>3. \A k \in 1 .. Len(queue') :
           k + 1 \in 1 .. Len(queue) /\ queue'[k] = queue[k + 1]
    BY <1>1, <1>2
  <1>4. ASSUME NEW k \in 1 .. Len(queue')
        PROVE  queue'[k].ts <= clock' /\ Waited(k)'
    <2>1. k + 1 \in 1 .. Len(queue) /\ queue'[k] = queue[k + 1] /\ k \in Nat
      BY <1>3
    <2>2. queue[k + 1].ts <= clock /\ Waited(k + 1)
      BY <2>1 DEF QueueWaits
    <2>3. PICK n \in Nat :
             /\ loopNow - queue[k + 1].ts <= n * Lag
             /\ n > 0 => Batch * (n - 1) + processed + (k + 1) <= QueueMax
      BY <2>2 DEF Waited
    <2>4. n > 0 => Batch * (n - 1) + processed' + k <= QueueMax
      <3>1. SUFFICES ASSUME n > 0
                     PROVE  Batch * (n - 1) + processed' + k <= QueueMax
        OBVIOUS
      <3>2. Batch * (n - 1) \in Nat
        BY <1>1, <3>1
      <3>3. QED
        BY <1>1, <2>1, <2>3, <3>1, <3>2
    <2>5. n > 0 /\ ~exiting' /\ pc' # "drain" => processed' >= Batch
      OBVIOUS
    <2>6. Waited(k)'
      BY <2>1, <2>3, <2>4, <2>5 DEF Waited
    <2>7. QED
      BY <2>1, <2>2, <2>6
  <1>5. Len(queue') <= QueueMax
    BY <1>1, <1>2 DEF QueueWaits
  <1>6. pc' # "off"
    OBVIOUS
  <1>7. QED
    BY <1>4, <1>5, <1>6 DEF QueueWaits

\* A new iteration: the row waits one iteration more.
LEMMA QueueWaitsTop ==
  ASSUME TypeOK, ClocksInOrder, QueueWaits, LoopTop, ~exiting
  PROVE  QueueWaits'
  <1>1. /\ UNCHANGED <<clock, queue, exiting>> /\ pc = "top" /\ pc' = "drain"
        /\ loopNow' = clock /\ processed' = 0
    BY DEF LoopTop
  <1>2. /\ queue \in Seq(Row) /\ clock \in Nat /\ loopNow \in Nat
        /\ processed \in Nat /\ Batch \in Nat /\ Lag \in Nat /\ QueueMax \in Nat
        /\ clock - loopNow <= Lag /\ Len(queue) <= QueueMax
    BY <1>1, ClocksAreNaturals, ConstantsOK
       DEF TypeOK, ClockTypes, ClocksInOrder, QueueWaits
  <1>3. ASSUME NEW k \in 1 .. Len(queue) PROVE Waited(k)'
    <2>1. k \in Nat /\ k <= QueueMax /\ queue[k].ts \in Nat
      BY <1>2, QueueRow
    <2>2. PICK n \in Nat :
             /\ loopNow - queue[k].ts <= n * Lag
             /\ n > 0 => Batch * (n - 1) + processed + k <= QueueMax
             /\ n > 0 => processed >= Batch
      BY <1>1 DEF QueueWaits, Waited
    <2>3. n * Lag \in Nat /\ (n + 1) * Lag = n * Lag + Lag
      BY <1>2
    <2>4. loopNow' - queue'[k].ts <= (n + 1) * Lag
      BY <1>1, <1>2, <2>1, <2>2, <2>3
    <2>5. Batch * ((n + 1) - 1) + processed' + k <= QueueMax
      <3>1. CASE n = 0
        BY <1>1, <1>2, <2>1, <3>1
      <3>2. CASE n > 0
        <4>1. Batch * n = Batch * (n - 1) + Batch /\ Batch * (n - 1) \in Nat
          BY <1>2, <3>2
        <4>2. (n + 1) - 1 = n
          OBVIOUS
        <4>3. QED
          BY <1>1, <1>2, <2>1, <2>2, <3>2, <4>1, <4>2
      <3>3. QED
        BY <3>1, <3>2
    <2>6. n + 1 \in Nat /\ pc' = "drain"
      BY <1>1
    <2>7. QED
      BY <2>4, <2>5, <2>6 DEF Waited
  <1>4. QED
    BY <1>1, <1>2, <1>3 DEF QueueWaits

LEMMA QueueWaitsNext ==
  TypeOK /\ TypeOK' /\ ClocksInOrder /\ FlushHandsOver /\ QueueWaits
     /\ [Next]_vars => QueueWaits'
  <1> SUFFICES ASSUME TypeOK, TypeOK', ClocksInOrder, FlushHandsOver,
                      QueueWaits, [Next]_vars
               PROVE  QueueWaits'
    OBVIOUS
  <1> USE DEF loopVars
  <1>0. clock \in Nat
    BY ClocksAreNaturals DEF ClockTypes
  <1>1. CASE AdvanceClock
    BY <1>0, <1>1, QueueWaitsSame DEF AdvanceClock
  <1>2. ASSUME NEW c \in Codes, NEW b \in BOOLEAN, Emit(c, b)
        PROVE  QueueWaits'
    BY <1>2, QueueWaitsEmit
  <1>3. CASE Start
    BY <1>3, QueueWaitsEmpty DEF Start, QueueWaits
  <1>4. CASE Kill
    BY <1>4, QueueWaitsEmpty DEF Kill, ProcessEnds
  <1>5. CASE Interrupt
    BY <1>0, <1>5, QueueWaitsSame DEF Interrupt, LeaveLoop
  <1>6. CASE LoopTop
    <2>1. ~exiting
      BY <1>6 DEF LoopTop, FlushHandsOver
    <2>2. QED
      BY <1>6, <2>1, QueueWaitsTop
  <1>7. CASE Dequeue
    BY <1>7, QueueWaitsTake DEF Dequeue
  <1>8. CASE ExitDequeue
    BY <1>8, QueueWaitsTake DEF ExitDequeue, FlushHandsOver
  <1>9. CASE EndOfDrain \/ MergeCheck \/ ExitFlush
    BY <1>0, <1>9, QueueWaitsSame DEF EndOfDrain, MergeCheck, ExitFlush, BeginFlush
  <1>10. ASSUME FlushRaises, pc = "write", clock' = clock PROVE QueueWaits'
    BY <1>0, <1>10, QueueWaitsEmpty, QueueWaitsSame
       DEF FlushRaises, ProcessEnds, LeaveLoop
  <1>11. ASSUME NEW s \in Streams, OpenChunk(s) \/ ChunkRaises(s)
         PROVE  QueueWaits'
    BY <1>0, <1>10, <1>11, QueueWaitsSame DEF OpenChunk, ChunkRaises, FlushRaises
  <1>12. CASE SnapshotRaises
    BY <1>10, <1>12 DEF SnapshotRaises, FlushRaises
  <1>13. CASE CloseChunk \/ OpenSnapshot
    BY <1>0, <1>13, QueueWaitsSame DEF CloseChunk, OpenSnapshot
  <1>14. CASE CloseSnapshot \/ SkipSnapshot
    <2>1. pc' = after /\ after # "off" /\ pc # "drain"
      BY <1>14 DEF CloseSnapshot, SkipSnapshot, FlushReturns, TypeOK
    <2>2. QED
      BY <1>0, <1>14, <2>1, QueueWaitsSame DEF CloseSnapshot, SkipSnapshot
  <1>15. CASE BeginMerge \/ CloseDayFile
    BY <1>0, <1>15, QueueWaitsSame DEF BeginMerge, CloseDayFile
  <1>16. ASSUME NEW s \in Streams, SkipStream(s) \/ OpenDayFile(s)
         PROVE  QueueWaits'
    BY <1>0, <1>16, QueueWaitsSame DEF SkipStream, OpenDayFile
  <1>17. ASSUME NEW t \in Time, UnlinkChunk(t) PROVE QueueWaits'
    BY <1>0, <1>17, QueueWaitsSame DEF UnlinkChunk
  <1>18. CASE MergeReturns
    BY <1>0, <1>18, QueueWaitsEmpty, QueueWaitsSame DEF MergeReturns, ProcessEnds
  <1>19. CASE ExitMerge
    BY <1>0, <1>19, QueueWaitsEmpty, QueueWaitsSame DEF ExitMerge, ProcessEnds
  <1>20. CASE UNCHANGED vars
    BY <1>0, <1>20, QueueWaitsSame DEF vars
  <1>21. QED
    BY <1>1, <1>2, <1>3, <1>4, <1>5, <1>6, <1>7, <1>8, <1>9, <1>11, <1>12,
       <1>13, <1>14, <1>15, <1>16, <1>17, <1>18, <1>19, <1>20
       DEF Next, BusStep

LEMMA QueueWaitsCorrect == Spec => []QueueWaits
  BY TypeCorrect, ClocksInOrderCorrect, FlushHandsOverCorrect, QueueWaitsInit,
     QueueWaitsNext, PTL DEF Spec

\* A buffered row was handed over at most QueueAge after its time, and a row is
\* written to a chunk at most Reach away from it.
RowsNear ==
    /\ openSince <= clock
    /\ \A r \in buf : r.ts <= clock /\ openSince <= r.ts + QueueAge
    /\ \A r \in rows : Near(dt, r.ts)
    /\ \A s \in Streams, t \in Time :
          \A r \in chunks[s][t].rows : Near(t, r.ts)

LEMMA BufferRow ==
  ASSUME TypeOK, NEW r \in buf
  PROVE  r.ts \in Nat
  <1>1. r \in Row
    BY DEF TypeOK
  <1>2. QED
    BY <1>1 DEF Row, Time

LEMMA RowsNearInit == Init => RowsNear
  BY DEF Init, RowsNear, Absent

\* Steps that only drop or keep rows.
LEMMA RowsNearSame ==
  ASSUME TypeOK, TypeOK', RowsNear, clock <= clock', openSince' = openSince,
         buf' \subseteq buf, rows' = {} \/ UNCHANGED <<rows, dt>>,
         \A s \in Streams, t \in Time :
            chunks'[s][t].rows \subseteq chunks[s][t].rows
  PROVE  RowsNear'
  <1>1. \A r \in buf : r.ts \in Nat
    BY BufferRow
  <1>2. clock \in Nat /\ clock' \in Nat /\ openSince \in Nat
    BY DEF TypeOK, Time
  <1>3. openSince' <= clock' /\ \A r \in buf' : r.ts <= clock' /\ openSince' <= r.ts + QueueAge
    BY <1>1, <1>2 DEF RowsNear
  <1>4. \A r \in rows' : Near(dt', r.ts)
    BY DEF RowsNear
  <1>5. QED
    BY <1>3, <1>4 DEF RowsNear

LEMMA RowsNearAccept ==
  ASSUME TypeOK, ClocksInOrder, QueueWaits, RowsNear, pc # "off",
         queue # <<>>, Accept(Head(queue)), UNCHANGED <<clock, rows, dt, chunks>>
  PROVE  RowsNear'
  <1>1. 1 \in 1 .. Len(queue) /\ Head(queue) = queue[1]
    BY DEF TypeOK
  <1> DEFINE r == Head(queue)
  <1>2. r.ts \in Nat /\ r.ts <= clock /\ clock - r.ts <= QueueAge
    BY <1>1, QueueRow, QueueRowAge
  <1> HIDE DEF r
  <1>3. /\ clock \in Nat /\ openSince \in Nat /\ QueueAge \in Nat
    BY ClocksAreNaturals, QueueAgeNatural DEF ClockTypes
  <1>4. buf' = buf \cup {r} /\ openSince' = IF buf = {} THEN clock ELSE openSince
    BY DEF Accept, r
  <1>5. openSince' <= r.ts + QueueAge
    <2>1. CASE buf = {}
      BY <1>2, <1>3, <1>4, <2>1
    <2>2. CASE buf # {}
      BY <1>2, <1>3, <1>4, <2>2 DEF RowsNear
    <2>3. QED
      BY <2>1, <2>2
  <1>6. \A q \in buf' : q.ts <= clock /\ openSince' <= q.ts + QueueAge
    BY <1>2, <1>4, <1>5 DEF RowsNear
  <1>7. openSince' <= clock'
    BY <1>3, <1>4 DEF RowsNear
  <1>8. QED
    BY <1>6, <1>7 DEF RowsNear

\* flush() names its chunks after a moment at most Lag ago; OpenWindowBounded
\* says how long ago the oldest row was handed over.
LEMMA RowsNearBegin ==
  ASSUME TypeOK, TypeOK', RowsNear, OpenWindowBounded, NEW t \in Time,
         t <= clock, clock - t <= Lag, NEW next, BeginFlush(t, next),
         UNCHANGED <<clock, openSince, chunks>>
  PROVE  RowsNear'
  <1>1. /\ clock \in Nat /\ openSince \in Nat /\ QueueAge \in Nat /\ Lag \in Nat
        /\ FlushInterval \in Nat /\ t \in Nat /\ QueueAge >= 2 * Lag
    BY ClocksAreNaturals, QueueAgeNatural DEF ClockTypes, Time
  <1>2. rows' = buf /\ buf' = {} /\ dt' = t
    BY DEF BeginFlush
  <1>3. ASSUME NEW r \in buf PROVE Near(t, r.ts)
    <2>1. r.ts \in Nat
      BY BufferRow
    <2>2. r.ts <= clock /\ openSince <= r.ts + QueueAge
      BY DEF RowsNear
    <2>3. clock - openSince < FlushInterval + 2 * Lag
      BY DEF OpenWindowBounded
    <2>4. QED
      BY <1>1, <2>1, <2>2, <2>3 DEF Near, Reach
  <1>4. QED
    BY <1>2, <1>3 DEF RowsNear

LEMMA RowsNearNext ==
  TypeOK /\ TypeOK' /\ ClocksInOrder /\ FlushHandsOver /\ QueueWaits
     /\ OpenWindowBounded /\ RowsNear /\ [Next]_vars => RowsNear'
  <1> SUFFICES ASSUME TypeOK, TypeOK', ClocksInOrder, FlushHandsOver,
                      QueueWaits, OpenWindowBounded, RowsNear, [Next]_vars
               PROVE  RowsNear'
    OBVIOUS
  <1> USE DEF loopVars, flushVars, diskVars, histVars
  <1>0. clock \in Nat /\ loopNow \in Time /\ clock \in Time
        /\ loopNow <= clock /\ (pc # "off" => clock - loopNow <= Lag)
        /\ Lag \in Nat
    BY ClocksAreNaturals DEF ClockTypes, TypeOK, ClocksInOrder
  <1>1. CASE AdvanceClock
    BY <1>0, <1>1, RowsNearSame DEF AdvanceClock
  <1>2. ASSUME NEW c \in Codes, NEW b \in BOOLEAN, Emit(c, b)
        PROVE  RowsNear'
    BY <1>0, <1>2, RowsNearSame DEF Emit
  <1>3. CASE Start \/ LoopTop
    BY <1>0, <1>3, RowsNearSame DEF Start, LoopTop
  <1>4. CASE Kill \/ Interrupt
    BY <1>0, <1>4, RowsNearSame
       DEF Kill, Interrupt, ProcessEnds, LeaveLoop, DropFlushLocals
  <1>5. CASE Dequeue
    <2>1. CASE InTradingHours(clock)
      BY <1>5, <2>1, RowsNearAccept DEF Dequeue
    <2>2. CASE ~InTradingHours(clock)
      BY <1>0, <1>5, <2>2, RowsNearSame DEF Dequeue
    <2>3. QED
      BY <2>1, <2>2
  <1>6. CASE ExitDequeue
    BY <1>6, RowsNearAccept DEF ExitDequeue
  <1>7. CASE EndOfDrain
    <2>1. CASE ShouldFlush
      BY <1>0, <1>7, <2>1, RowsNearBegin DEF EndOfDrain
    <2>2. CASE ~ShouldFlush
      BY <1>0, <1>7, <2>2, RowsNearSame DEF EndOfDrain
    <2>3. QED
      BY <2>1, <2>2
  <1>8. CASE MergeCheck
    <2>1. CASE ~mergeDone /\ MergeHour(loopNow)
      BY <1>0, <1>8, <2>1, RowsNearBegin DEF MergeCheck
    <2>2. CASE ~(~mergeDone /\ MergeHour(loopNow))
      BY <1>0, <1>8, <2>2, RowsNearSame DEF MergeCheck
    <2>3. QED
      BY <2>1, <2>2
  <1>9. CASE ExitFlush
    <2>1. clock - clock <= Lag
      BY <1>0
    <2>2. QED
      BY <1>0, <1>9, <2>1, RowsNearBegin DEF ExitFlush
  <1>10. ASSUME NEW s \in Streams, OpenChunk(s) PROVE RowsNear'
    <2>1. \A q \in Streams, t \in Time :
             chunks'[q][t].rows \subseteq chunks[q][t].rows
      BY <1>10 DEF OpenChunk, TypeOK, Torn
    <2>2. QED
      BY <1>0, <1>10, <2>1, RowsNearSame DEF OpenChunk
  <1>11. CASE CloseChunk
    <2>1. UNCHANGED <<clock, openSince, buf, dt>> /\ rows' \subseteq rows
      BY <1>11 DEF CloseChunk
    <2>2. ASSUME NEW q \in Streams, NEW t \in Time, NEW r \in chunks'[q][t].rows
          PROVE  Near(t, r.ts)
      <3>1. r \in chunks[q][t].rows \/ (t = dt /\ r \in rows)
        BY <1>11, <2>2 DEF CloseChunk, TypeOK, Whole, OfStream
      <3>2. QED
        BY <3>1 DEF RowsNear
    <2>3. QED
      BY <2>1, <2>2 DEF RowsNear
  <1>12. ASSUME NEW s \in Streams, ChunkRaises(s) PROVE RowsNear'
    BY <1>0, <1>12, RowsNearSame
       DEF ChunkRaises, FlushRaises, ProcessEnds, LeaveLoop, DropFlushLocals
  <1>13. CASE SnapshotRaises
    BY <1>0, <1>13, RowsNearSame
       DEF SnapshotRaises, FlushRaises, ProcessEnds, LeaveLoop, DropFlushLocals
  <1>14. CASE OpenSnapshot \/ CloseSnapshot \/ SkipSnapshot
    BY <1>0, <1>14, RowsNearSame
       DEF OpenSnapshot, CloseSnapshot, SkipSnapshot, FlushReturns, DropFlushLocals
  <1>15. CASE BeginMerge \/ CloseDayFile
    BY <1>0, <1>15, RowsNearSame DEF BeginMerge, CloseDayFile
  <1>16. ASSUME NEW s \in Streams, SkipStream(s) \/ OpenDayFile(s)
         PROVE  RowsNear'
    BY <1>0, <1>16, RowsNearSame DEF SkipStream, OpenDayFile
  <1>17. ASSUME NEW t \in Time, UnlinkChunk(t) PROVE RowsNear'
    <2>1. \A q \in Streams, u \in Time :
             chunks'[q][u].rows \subseteq chunks[q][u].rows
      BY <1>17 DEF UnlinkChunk, TypeOK, Absent
    <2>2. QED
      BY <1>0, <1>17, <2>1, RowsNearSame DEF UnlinkChunk
  <1>18. CASE MergeReturns \/ ExitMerge
    BY <1>0, <1>18, RowsNearSame
       DEF MergeReturns, ExitMerge, ProcessEnds, DropFlushLocals
  <1>19. CASE UNCHANGED vars
    BY <1>0, <1>19, RowsNearSame DEF vars
  <1>20. QED
    BY <1>1, <1>2, <1>3, <1>4, <1>5, <1>6, <1>7, <1>8, <1>9, <1>10, <1>11,
       <1>12, <1>13, <1>14, <1>15, <1>16, <1>17, <1>18, <1>19
       DEF Next, BusStep

LEMMA RowsNearCorrect == Spec => []RowsNear
  BY TypeCorrect, ClocksInOrderCorrect, FlushHandsOverCorrect,
     QueueWaitsCorrect, OpenWindowCorrect, RowsNearInit, RowsNearNext,
     PTL DEF Spec

LEMMA FilterInit == Init => FilterDropsOffSession
  BY DEF Init, FilterDropsOffSession, Causes

LEMMA FilterNext ==
  ASSUME SessionsFarFromMidnight
  PROVE  TypeOK /\ MergeHandsOver /\ RowsNear /\ FilterDropsOffSession
            /\ [Next]_vars => FilterDropsOffSession'
  <1> SUFFICES ASSUME TypeOK, MergeHandsOver, RowsNear, FilterDropsOffSession,
                      [Next]_vars
               PROVE  FilterDropsOffSession'
    OBVIOUS
  <1>1. ASSUME NEW t \in Time, UnlinkChunk(t) PROVE FilterDropsOffSession'
    <2>1. mstream \in Streams /\ t \in mchunks /\ pc = "unlink"
      BY <1>1 DEF UnlinkChunk, TypeOK
    <2>2. lost'["filtered"] =
             lost["filtered"] \cup (chunks[mstream][t].rows \ mrows)
      BY <1>1 DEF UnlinkChunk, Lose, TypeOK, Causes
    <2>3. ASSUME NEW r \in chunks[mstream][t].rows \ mrows
          PROVE  Phase[r.ts] \notin Session
      <3>1. Near(t, r.ts) /\ r.ts \in Time
        BY <2>1, FileRows DEF RowsNear, Row
      <3>2. DayOf[t] = mday /\ ~KeptByMerge(r, mday)
        BY <2>1 DEF MergeHandsOver
      <3>3. QED
        BY <3>1, <3>2 DEF SessionsFarFromMidnight, KeptByMerge, Session
    <2>4. QED
      BY <2>2, <2>3 DEF FilterDropsOffSession
  <1>2. CASE lost'["filtered"] = lost["filtered"]
    BY <1>2 DEF FilterDropsOffSession
  <1>3. QED
    <2> USE DEF histVars, Lose, TypeOK, Causes
    <2>1. ASSUME NEW s \in Streams, OpenChunk(s) \/ OpenDayFile(s)
          PROVE  lost'["filtered"] = lost["filtered"]
      BY <2>1 DEF OpenChunk, OpenDayFile
    <2>2. CASE Kill \/ Interrupt \/ FlushRaises
      BY <1>2, <2>2 DEF Kill, Interrupt, FlushRaises, LeaveLoop
    <2>3. CASE UNCHANGED lost
      BY <1>2, <2>3
    <2>4. QED
      BY <1>1, <1>2, <2>1, <2>2, <2>3
         DEF Next, BusStep, AdvanceClock, Emit, Start, LoopTop, Dequeue,
             EndOfDrain, MergeCheck, ChunkRaises, CloseChunk, OpenSnapshot,
             SnapshotRaises, CloseSnapshot, SkipSnapshot, BeginMerge,
             SkipStream, CloseDayFile, MergeReturns, ExitDequeue, ExitFlush,
             ExitMerge, vars

\* The session filter of merge_daily never drops a row of a session, for every
\* queue, batch, interval, lag and schedule of flushes, merges and kills: rows
\* are at most Reach from the chunk that holds them, and midnight is farther
\* than that from every session.
THEOREM FilterDropsOffSessionCorrect ==
  ASSUME SessionsFarFromMidnight
  PROVE  Spec => []FilterDropsOffSession
  <1>1. TypeOK /\ MergeHandsOver /\ RowsNear /\ FilterDropsOffSession
           /\ [Next]_vars => FilterDropsOffSession'
    BY FilterNext
  <1>2. QED
    BY <1>1, TypeCorrect, HandsOverCorrect, RowsNearCorrect, FilterInit,
       PTL DEF Spec

-----------------------------------------------------------------------------
(* The day file is complete from the merge until the night ends.           *)

\* merge_done_today is set in the merge hour, and the first iteration of the
\* nine o'clock hour clears it.
MergedThisNight ==
    /\ pc = "off" => ~mergeDone
    /\ ~exiting /\ (Merging \/ (Flushing /\ after = "mergedue")) =>
          ~mergeDone /\ MergeHour(loopNow)
    /\ ~exiting /\ mergeDone =>
          \/ Phase[loopNow] \in Evening \cup {"early"}
          \/ HourNine(loopNow) /\ pc # "top"

LEMMA MergedInit == Init => MergedThisNight
  BY DEF Init, MergedThisNight, Merging, Flushing

\* Leaving the loop, and the end of the process.
LEMMA MergedEnds ==
  ASSUME ProcessEnds \/ \E cause : LeaveLoop(cause)
  PROVE  MergedThisNight'
  BY DEF ProcessEnds, LeaveLoop, MergedThisNight, Merging, Flushing

\* Steps of the same flush or the same merge.
LEMMA MergedSame ==
  ASSUME MergedThisNight, UNCHANGED <<loopNow, mergeDone, exiting, after>>,
         \/ pc' = pc
         \/ Flushing /\ pc' \in {"write", "writing", "snapping"}
         \/ Merging /\ pc' \in {"mergedue", "merge", "merging", "unlink"}
  PROVE  MergedThisNight'
  BY DEF MergedThisNight, Merging, Flushing

LEMMA MergedNext ==
  ASSUME IterationsSeeNineOClock
  PROVE  TypeOK /\ ClocksInOrder /\ FlushHandsOver /\ MergedThisNight
            /\ [Next]_vars => MergedThisNight'
  <1> SUFFICES ASSUME TypeOK, ClocksInOrder, FlushHandsOver, MergedThisNight,
                      [Next]_vars
               PROVE  MergedThisNight'
    OBVIOUS
  <1> USE DEF loopVars, flushVars
  <1>1. CASE AdvanceClock
    BY <1>1, MergedSame DEF AdvanceClock
  <1>2. ASSUME NEW c \in Codes, NEW b \in BOOLEAN, Emit(c, b)
        PROVE  MergedThisNight'
    BY <1>2, MergedSame DEF Emit
  <1>3. CASE Start
    BY <1>3 DEF Start, MergedThisNight, Merging, Flushing
  <1>4. CASE Kill \/ Interrupt
    BY <1>4, MergedEnds DEF Kill, Interrupt
  <1>5. CASE LoopTop
    <2>1. /\ loopNow \in Time /\ clock \in Time /\ loopNow <= clock
          /\ clock - loopNow <= Lag
      BY <1>5 DEF LoopTop, TypeOK, ClocksInOrder
    <2>2. pc = "top" /\ pc' = "drain" /\ loopNow' = clock
          /\ UNCHANGED <<mergeDone, exiting>>
      BY <1>5 DEF LoopTop
    <2>3. CASE ~mergeDone
      BY <2>2, <2>3 DEF MergedThisNight, Merging, Flushing
    <2>4. CASE mergeDone /\ ~exiting
      <3>1. Phase[loopNow] \in Evening \cup {"early"}
        BY <2>2, <2>4 DEF MergedThisNight
      <3>2. Phase[clock] \in Evening \cup {"early"} \/ HourNine(clock)
        BY <2>1, <3>1 DEF IterationsSeeNineOClock, HourNine
      <3>3. QED
        BY <2>2, <3>2 DEF MergedThisNight, Merging, Flushing, HourNine
    <2>5. CASE exiting
      BY <2>2, <2>5 DEF MergedThisNight, Merging, Flushing
    <2>6. QED
      BY <2>3, <2>4, <2>5
  <1>6. CASE Dequeue \/ ExitDequeue
    BY <1>6, MergedSame DEF Dequeue, ExitDequeue
  <1>7. CASE EndOfDrain
    BY <1>7 DEF EndOfDrain, BeginFlush, MergedThisNight, Merging, Flushing,
                MergeHour, HourNine
  <1>8. CASE MergeCheck
    <2>1. CASE ~mergeDone /\ MergeHour(loopNow)
      BY <1>8, <2>1 DEF MergeCheck, BeginFlush, MergedThisNight, Merging,
                        Flushing, MergeHour
    <2>2. CASE ~(~mergeDone /\ MergeHour(loopNow))
      <3>1. /\ pc = "check" /\ pc' = "top" /\ UNCHANGED <<loopNow, exiting>>
            /\ mergeDone' = (mergeDone /\ ~HourNine(loopNow))
        BY <1>8, <2>2 DEF MergeCheck
      <3>2. ~exiting /\ mergeDone' => Phase[loopNow] \in Evening \cup {"early"}
        BY <3>1 DEF MergedThisNight
      <3>3. /\ pc' = "top" /\ loopNow' = loopNow
            /\ ~exiting' /\ mergeDone' => Phase[loopNow] \in Evening \cup {"early"}
        BY <3>1, <3>2
      <3>4. QED
        BY <3>3 DEF MergedThisNight, Merging, Flushing
    <2>3. QED
      BY <2>1, <2>2
  <1>9. CASE ExitFlush
    BY <1>9 DEF ExitFlush, BeginFlush, MergedThisNight, Merging, FlushHandsOver
  <1>10. ASSUME FlushRaises PROVE MergedThisNight'
    BY <1>10, MergedEnds DEF FlushRaises
  <1>11. ASSUME NEW s \in Streams, OpenChunk(s) \/ ChunkRaises(s)
         PROVE  MergedThisNight'
    BY <1>10, <1>11, MergedSame DEF OpenChunk, ChunkRaises, Flushing
  <1>12. CASE SnapshotRaises
    BY <1>10, <1>12 DEF SnapshotRaises
  <1>13. CASE CloseChunk \/ OpenSnapshot
    BY <1>13, MergedSame DEF CloseChunk, OpenSnapshot, Flushing
  <1>14. CASE CloseSnapshot \/ SkipSnapshot
    <2>1. /\ Flushing /\ pc' = after /\ after \in {"check", "mergedue", "exitmerge"}
          /\ UNCHANGED <<loopNow, mergeDone, exiting>>
          /\ (exiting <=> after = "exitmerge")
      BY <1>14 DEF CloseSnapshot, SkipSnapshot, FlushReturns, Flushing, TypeOK,
                   FlushHandsOver
    <2>2. QED
      BY <2>1 DEF MergedThisNight, Merging, Flushing, MergeHour, HourNine
  <1>15. CASE BeginMerge \/ CloseDayFile
    BY <1>15, MergedSame DEF BeginMerge, CloseDayFile, Merging
  <1>16. ASSUME NEW s \in Streams, SkipStream(s) \/ OpenDayFile(s)
         PROVE  MergedThisNight'
    BY <1>16, MergedSame DEF SkipStream, OpenDayFile, Merging
  <1>17. ASSUME NEW t \in Time, UnlinkChunk(t) PROVE MergedThisNight'
    BY <1>17, MergedSame DEF UnlinkChunk, Merging
  <1>18. CASE MergeReturns
    <2>1. CASE exiting
      BY <1>18, <2>1, MergedEnds DEF MergeReturns
    <2>2. CASE ~exiting
      <3>1. MergeHour(loopNow)
        BY <1>18, <2>2 DEF MergeReturns, MergedThisNight, Merging
      <3>2. pc' = "top" /\ loopNow' = loopNow
        BY <1>18, <2>2 DEF MergeReturns
      <3>3. Phase[loopNow] \in Evening \cup {"early"}
        BY <3>1 DEF MergeHour, Evening
      <3>4. QED
        BY <3>2, <3>3 DEF MergedThisNight, Merging, Flushing
    <2>3. QED
      BY <2>1, <2>2
  <1>19. CASE ExitMerge
    BY <1>19, MergedEnds DEF ExitMerge, MergedThisNight, FlushHandsOver
  <1>20. CASE UNCHANGED vars
    BY <1>20, MergedSame DEF vars
  <1>21. QED
    BY <1>1, <1>2, <1>3, <1>4, <1>5, <1>6, <1>7, <1>8, <1>9, <1>11, <1>12,
       <1>13, <1>14, <1>15, <1>16, <1>17, <1>18, <1>19, <1>20
       DEF Next, BusStep

LEMMA MergedThisNightCorrect ==
  ASSUME IterationsSeeNineOClock
  PROVE  Spec => []MergedThisNight
  <1>1. TypeOK /\ ClocksInOrder /\ FlushHandsOver /\ MergedThisNight
           /\ [Next]_vars => MergedThisNight'
    BY MergedNext
  <1>2. QED
    BY <1>1, TypeCorrect, ClocksInOrderCorrect, FlushHandsOverCorrect,
       MergedInit, PTL DEF Spec

\* A name without a file holds no row, and a day file holds session rows of its
\* day.
DayFiles ==
    /\ \A s \in Streams, t \in Time :
          chunks[s][t].st = "absent" => chunks[s][t].rows = {}
    /\ \A s \in Streams, d \in Days : \A r \in days[s][d].rows : KeptByMerge(r, d)
    /\ pc = "merging" => \A r \in mrows : KeptByMerge(r, mday)

LEMMA DayFilesInit == Init => DayFiles
  BY DEF Init, DayFiles, Absent

LEMMA DayFilesSame ==
  ASSUME DayFiles, UNCHANGED <<chunks, days>>,
         pc' # "merging" \/ UNCHANGED <<pc, mrows, mday>>
  PROVE  DayFiles'
  BY DEF DayFiles, KeptByMerge

LEMMA DayFilesChunks ==
  ASSUME DayFiles, UNCHANGED days, pc' # "merging",
         \A s \in Streams, t \in Time :
            \/ chunks'[s][t] = chunks[s][t]
            \/ chunks'[s][t] \in {Torn, Absent}
            \/ chunks'[s][t].st = "whole"
  PROVE  DayFiles'
  BY DEF DayFiles, KeptByMerge, Torn, Absent

LEMMA DayFilesNext == TypeOK /\ DayFiles /\ [Next]_vars => DayFiles'
  <1> SUFFICES ASSUME TypeOK, DayFiles, [Next]_vars PROVE DayFiles'
    OBVIOUS
  <1> USE DEF loopVars, mergeVars, diskVars
  <1>1. CASE AdvanceClock
    BY <1>1, DayFilesSame DEF AdvanceClock
  <1>2. ASSUME NEW c \in Codes, NEW b \in BOOLEAN, Emit(c, b)
        PROVE  DayFiles'
    BY <1>2, DayFilesSame DEF Emit
  <1>3. CASE Start \/ LoopTop \/ Dequeue \/ ExitDequeue
    BY <1>3, DayFilesSame DEF Start, LoopTop, Dequeue, ExitDequeue
  <1>4. CASE Kill \/ Interrupt
    BY <1>4, DayFilesSame DEF Kill, Interrupt, ProcessEnds, LeaveLoop
  <1>5. CASE EndOfDrain \/ MergeCheck \/ ExitFlush
    BY <1>5, DayFilesSame DEF EndOfDrain, MergeCheck, ExitFlush, BeginFlush
  <1>6. ASSUME FlushRaises, UNCHANGED diskVars PROVE DayFiles'
    BY <1>6, DayFilesSame DEF FlushRaises, ProcessEnds, LeaveLoop
  <1>7. ASSUME NEW s \in Streams, OpenChunk(s) PROVE DayFiles'
    <2>1. \A q \in Streams, t \in Time :
             chunks'[q][t] = chunks[q][t] \/ chunks'[q][t] = Torn
      BY <1>7 DEF OpenChunk, TypeOK
    <2>2. QED
      BY <1>7, <2>1, DayFilesChunks DEF OpenChunk
  <1>8. ASSUME NEW s \in Streams, ChunkRaises(s) PROVE DayFiles'
    BY <1>6, <1>8 DEF ChunkRaises, FlushRaises
  <1>9. CASE SnapshotRaises
    BY <1>6, <1>9 DEF SnapshotRaises, FlushRaises
  <1>10. CASE CloseChunk
    <2>1. \A q \in Streams, t \in Time :
             chunks'[q][t] = chunks[q][t] \/ chunks'[q][t].st = "whole"
      BY <1>10 DEF CloseChunk, TypeOK, Whole
    <2>2. QED
      BY <1>10, <2>1, DayFilesChunks DEF CloseChunk
  <1>11. CASE OpenSnapshot \/ CloseSnapshot \/ SkipSnapshot
    BY <1>11, DayFilesSame
       DEF OpenSnapshot, CloseSnapshot, SkipSnapshot, FlushReturns, TypeOK
  <1>12. CASE BeginMerge
    BY <1>12, DayFilesSame DEF BeginMerge
  <1>13. ASSUME NEW s \in Streams, SkipStream(s) PROVE DayFiles'
    BY <1>13, DayFilesSame DEF SkipStream
  <1>14. ASSUME NEW s \in Streams, OpenDayFile(s) PROVE DayFiles'
    <2>1. \A q \in Streams, d \in Days :
             days'[q][d] = days[q][d] \/ days'[q][d].rows = {}
      BY <1>14 DEF OpenDayFile, TypeOK, Torn
    <2>2. \A r \in mrows' : KeptByMerge(r, mday')
      BY <1>14 DEF OpenDayFile, KeptByMerge
    <2>3. chunks' = chunks
      BY <1>14 DEF OpenDayFile
    <2>4. QED
      BY <2>1, <2>2, <2>3 DEF DayFiles, KeptByMerge
  <1>15. CASE CloseDayFile
    <2>1. \A q \in Streams, d \in Days :
             \/ days'[q][d] = days[q][d]
             \/ d = mday /\ days'[q][d].rows = mrows
      BY <1>15 DEF CloseDayFile, TypeOK, Whole
    <2>2. pc = "merging" /\ pc' = "unlink" /\ chunks' = chunks
      BY <1>15 DEF CloseDayFile
    <2>3. QED
      BY <2>1, <2>2 DEF DayFiles, KeptByMerge
  <1>16. CASE MergeReturns \/ ExitMerge
    BY <1>16, DayFilesSame DEF MergeReturns, ExitMerge, ProcessEnds
  <1>17. ASSUME NEW t \in Time, UnlinkChunk(t) PROVE DayFiles'
    <2>1. \A q \in Streams, u \in Time :
             chunks'[q][u] = chunks[q][u] \/ chunks'[q][u] = Absent
      BY <1>17 DEF UnlinkChunk, TypeOK
    <2>2. QED
      BY <1>17, <2>1, DayFilesChunks DEF UnlinkChunk
  <1>18. CASE UNCHANGED vars
    BY <1>18, DayFilesSame DEF vars
  <1>19. QED
    BY <1>1, <1>2, <1>3, <1>4, <1>5, <1>7, <1>8, <1>9, <1>10, <1>11, <1>12,
       <1>13, <1>14, <1>15, <1>16, <1>17, <1>18 DEF Next, BusStep

LEMMA DayFilesCorrect == Spec => []DayFiles
  BY TypeCorrect, DayFilesInit, DayFilesNext, PTL DEF Spec

\* Nothing of the day is left to merge for a stream, or a torn chunk stops its
\* merge.
Cleared(s, d) ==
    \/ ChunkTimes(s, d) = {}
    \/ \E t \in ChunkTimes(s, d) : chunks[s][t].st = "torn"

\* merge_daily() leaves behind a stream that is cleared, and the one in hand
\* still has only the chunks it is about to unlink.
MergeClears ==
    pc \in {"merge", "merging", "unlink"} =>
        /\ ~exiting => mday = DayOf[loopNow]
        /\ \A s \in Streams \ mleft :
              Cleared(s, mday) \/ (pc # "merge" /\ s = mstream)
        /\ pc # "merge" => ChunkTimes(mstream, mday) \subseteq mchunks

LEMMA MergeClearsInit == Init => MergeClears
  BY DEF Init, MergeClears

LEMMA MergeClearsIdle ==
  ASSUME pc' \notin {"merge", "merging", "unlink"}
  PROVE  MergeClears'
  BY DEF MergeClears

LEMMA MergeClearsSame ==
  ASSUME MergeClears, UNCHANGED <<pc, loopNow, exiting, mergeVars, chunks>>
  PROVE  MergeClears'
  BY DEF MergeClears, mergeVars, Cleared, ChunkTimes

LEMMA MergeClearsNext ==
  TypeOK /\ FlushHandsOver /\ MergeClears /\ [Next]_vars => MergeClears'
  <1> SUFFICES ASSUME TypeOK, FlushHandsOver, MergeClears, [Next]_vars
               PROVE  MergeClears'
    OBVIOUS
  <1> USE DEF loopVars, diskVars
  <1>1. CASE AdvanceClock
    BY <1>1, MergeClearsSame DEF AdvanceClock
  <1>2. ASSUME NEW c \in Codes, NEW b \in BOOLEAN, Emit(c, b)
        PROVE  MergeClears'
    BY <1>2, MergeClearsSame DEF Emit
  <1>3. CASE Start \/ LoopTop \/ Dequeue \/ ExitDequeue
    BY <1>3, MergeClearsIdle DEF Start, LoopTop, Dequeue, ExitDequeue
  <1>4. CASE Kill \/ Interrupt
    BY <1>4, MergeClearsIdle DEF Kill, Interrupt, ProcessEnds, LeaveLoop
  <1>5. CASE EndOfDrain \/ MergeCheck \/ ExitFlush
    BY <1>5, MergeClearsIdle DEF EndOfDrain, MergeCheck, ExitFlush, BeginFlush
  <1>6. ASSUME FlushRaises PROVE MergeClears'
    BY <1>6, MergeClearsIdle DEF FlushRaises, ProcessEnds, LeaveLoop
  <1>7. ASSUME NEW s \in Streams, OpenChunk(s) \/ ChunkRaises(s)
        PROVE  MergeClears'
    BY <1>6, <1>7, MergeClearsIdle DEF OpenChunk, ChunkRaises
  <1>8. CASE SnapshotRaises
    BY <1>6, <1>8 DEF SnapshotRaises
  <1>9. CASE CloseChunk \/ OpenSnapshot
    BY <1>9, MergeClearsIdle DEF CloseChunk, OpenSnapshot
  <1>10. CASE CloseSnapshot \/ SkipSnapshot
    BY <1>10, MergeClearsIdle DEF CloseSnapshot, SkipSnapshot, FlushReturns, TypeOK
  <1>11. CASE BeginMerge
    BY <1>11 DEF BeginMerge, MergeClears
  <1>12. ASSUME NEW s \in Streams, SkipStream(s) PROVE MergeClears'
    <2>1. /\ pc = "merge" /\ pc' = "merge" /\ mleft' = mleft \ {s}
          /\ UNCHANGED <<exiting, mday, loopNow, chunks>> /\ Cleared(s, mday)
      BY <1>12 DEF SkipStream, Cleared
    <2>2. \A q \in Streams \ mleft' : Cleared(q, mday)
      BY <2>1 DEF MergeClears
    <2>3. \A q : Cleared(q, mday) => Cleared(q, mday)'
      BY <2>1 DEF Cleared, ChunkTimes
    <2>4. QED
      BY <2>1, <2>2, <2>3 DEF MergeClears
  <1>13. ASSUME NEW s \in Streams, OpenDayFile(s) PROVE MergeClears'
    <2>1. /\ pc = "merge" /\ pc' = "merging" /\ mleft' = mleft \ {s}
          /\ UNCHANGED <<exiting, mday, loopNow, chunks>>
          /\ mstream' = s /\ mchunks' = ChunkTimes(s, mday)
      BY <1>13 DEF OpenDayFile
    <2>2. \A q \in Streams \ mleft' : Cleared(q, mday) \/ q = s
      BY <2>1 DEF MergeClears
    <2>3. \A q : Cleared(q, mday) => Cleared(q, mday)'
      BY <2>1 DEF Cleared, ChunkTimes
    <2>4. ChunkTimes(mstream, mday)' \subseteq mchunks'
      BY <2>1 DEF ChunkTimes
    <2>5. QED
      BY <2>1, <2>2, <2>3, <2>4 DEF MergeClears
  <1>14. CASE CloseDayFile
    <2>1. /\ pc = "merging" /\ pc' = "unlink"
          /\ UNCHANGED <<exiting, loopNow, mergeVars, chunks>>
      BY <1>14 DEF CloseDayFile
    <2>2. QED
      BY <2>1 DEF MergeClears, mergeVars, Cleared, ChunkTimes
  <1>15. CASE MergeReturns
    BY <1>15, MergeClearsIdle DEF MergeReturns, ProcessEnds
  <1>16. ASSUME NEW t \in Time, UnlinkChunk(t) PROVE MergeClears'
    <2>1. /\ pc = "unlink" /\ t \in mchunks /\ mchunks' = mchunks \ {t}
          /\ UNCHANGED <<exiting, mday, loopNow, mleft, mstream>>
          /\ mstream \in Streams
          /\ pc' = IF mchunks' = {} THEN "merge" ELSE "unlink"
      BY <1>16 DEF UnlinkChunk, TypeOK
    <2>2. \A q \in Streams : q # mstream => chunks'[q] = chunks[q]
      BY <1>16 DEF UnlinkChunk, TypeOK
    <2>3. /\ chunks'[mstream][t].st = "absent"
          /\ \A u \in Time : u # t => chunks'[mstream][u] = chunks[mstream][u]
      BY <1>16, <2>1 DEF UnlinkChunk, TypeOK, Absent
    <2>4. \A q \in Streams : q # mstream /\ Cleared(q, mday) => Cleared(q, mday)'
      BY <2>1, <2>2 DEF Cleared, ChunkTimes
    <2>5. ChunkTimes(mstream, mday)' \subseteq mchunks'
      BY <2>1, <2>3 DEF MergeClears, ChunkTimes
    <2>6. mchunks' = {} => Cleared(mstream, mday)'
      BY <2>5 DEF Cleared
    <2>7. \A q \in Streams \ mleft' :
             Cleared(q, mday)' \/ (pc' # "merge" /\ q = mstream')
      BY <2>1, <2>4, <2>6 DEF MergeClears
    <2>8. QED
      BY <2>1, <2>5, <2>7 DEF MergeClears
  <1>17. CASE ExitMerge
    <2>1. CASE AtOrAfterMergeHour(clock) /\ ~mergeDone
      <3>1. exiting' /\ pc' = "merge" /\ mleft' = Streams
        BY <1>17, <2>1 DEF ExitMerge, FlushHandsOver
      <3>2. QED
        BY <3>1 DEF MergeClears
    <2>2. CASE ~(AtOrAfterMergeHour(clock) /\ ~mergeDone)
      BY <1>17, <2>2, MergeClearsIdle DEF ExitMerge, ProcessEnds
    <2>3. QED
      BY <2>1, <2>2
  <1>18. CASE UNCHANGED vars
    BY <1>18, MergeClearsSame DEF vars
  <1>19. QED
    BY <1>1, <1>2, <1>3, <1>4, <1>5, <1>7, <1>8, <1>9, <1>10, <1>11, <1>12,
       <1>13, <1>14, <1>15, <1>16, <1>17, <1>18 DEF Next, BusStep

LEMMA MergeClearsCorrect == Spec => []MergeClears
  BY TypeCorrect, FlushHandsOverCorrect, MergeClearsInit, MergeClearsNext,
     PTL DEF Spec

\* From the merge until the night ends nothing of the day is in memory, and no
\* chunk of it is left that can be merged.
DayMerged ==
    ~exiting /\ mergeDone /\ Phase[loopNow] \in Evening =>
        /\ buf \cup rows = {} /\ pc # "writing"
        /\ \A s \in Streams : Cleared(s, DayOf[loopNow])

LEMMA DayMergedInit == Init => DayMerged
  BY DEF Init, DayMerged

LEMMA DayMergedOff ==
  ASSUME exiting' \/ ~mergeDone'
  PROVE  DayMerged'
  BY DEF DayMerged

LEMMA DayMergedSame ==
  ASSUME DayMerged, UNCHANGED <<loopNow, chunks, exiting>>,
         mergeDone' => mergeDone, buf' \cup rows' \subseteq buf \cup rows,
         pc' # "writing" \/ pc' = pc
  PROVE  DayMerged'
  BY DEF DayMerged, Cleared, ChunkTimes

LEMMA DayMergedNext ==
  ASSUME IterationsSeeNineOClock
  PROVE  TypeOK /\ ClocksInOrder /\ FlushHandsOver /\ BuffersCleared
            /\ MergedThisNight /\ MergeClears /\ DayMerged /\ [Next]_vars
            => DayMerged'
  <1> SUFFICES ASSUME TypeOK, ClocksInOrder, FlushHandsOver, BuffersCleared,
                      MergedThisNight, MergeClears, DayMerged, [Next]_vars
               PROVE  DayMerged'
    OBVIOUS
  <1> USE DEF loopVars, flushVars, diskVars
  <1>0. pc # "off" =>
          /\ loopNow \in Time /\ clock \in Time /\ loopNow <= clock
          /\ clock - loopNow <= Lag
    BY DEF TypeOK, ClocksInOrder
  <1>1. CASE AdvanceClock
    BY <1>1, DayMergedSame DEF AdvanceClock
  <1>2. ASSUME NEW c \in Codes, NEW b \in BOOLEAN, Emit(c, b)
        PROVE  DayMerged'
    BY <1>2, DayMergedSame DEF Emit
  <1>3. CASE Start \/ Kill \/ Interrupt
    BY <1>3, DayMergedOff
       DEF Start, Kill, Interrupt, ProcessEnds, LeaveLoop, MergedThisNight
  <1>4. CASE LoopTop
    <2>1. /\ pc = "top" /\ pc' = "drain" /\ loopNow' = clock
          /\ UNCHANGED <<mergeDone, exiting, buf, rows, chunks>>
      BY <1>4 DEF LoopTop
    <2>2. SUFFICES ASSUME ~exiting, mergeDone, Phase[clock] \in Evening
                   PROVE  /\ buf \cup rows = {}
                          /\ \A s \in Streams : Cleared(s, DayOf[clock])
      BY <2>1 DEF DayMerged, Cleared, ChunkTimes
    <2>3. Phase[loopNow] \in Evening \cup {"early"}
      BY <2>1, <2>2 DEF MergedThisNight
    <2>4. Phase[loopNow] # "early"
      BY <1>0, <2>1, <2>2 DEF IterationsSeeNineOClock, Evening
    <2>5. Phase[loopNow] \in Evening /\ DayOf[clock] = DayOf[loopNow]
      BY <1>0, <2>1, <2>2, <2>3, <2>4 DEF IterationsSeeNineOClock, Evening
    <2>6. QED
      BY <2>2, <2>5 DEF DayMerged
  <1>5. CASE Dequeue
    <2>1. CASE InTradingHours(clock)
      <3>1. Phase[loopNow] \notin Evening
        BY <1>0, <1>5, <2>1
           DEF Dequeue, IterationsSeeNineOClock, InTradingHours, Evening
      <3>2. QED
        BY <1>5, <3>1 DEF Dequeue, DayMerged
    <2>2. CASE ~InTradingHours(clock)
      BY <1>5, <2>2, DayMergedSame DEF Dequeue
    <2>3. QED
      BY <2>1, <2>2
  <1>6. CASE ExitDequeue \/ ExitFlush \/ ExitMerge
    BY <1>6, DayMergedOff
       DEF ExitDequeue, ExitFlush, ExitMerge, ProcessEnds, FlushHandsOver
  <1>7. CASE EndOfDrain
    BY <1>7, DayMergedSame DEF EndOfDrain, BeginFlush
  <1>8. CASE MergeCheck
    <2>1. CASE ~mergeDone /\ MergeHour(loopNow)
      BY <1>8, <2>1, DayMergedOff DEF MergeCheck
    <2>2. CASE ~(~mergeDone /\ MergeHour(loopNow))
      <3>1. /\ pc' = "top" /\ UNCHANGED <<loopNow, exiting, buf, rows, chunks>>
            /\ mergeDone' = (mergeDone /\ ~HourNine(loopNow))
        BY <1>8, <2>2 DEF MergeCheck
      <3>2. mergeDone' => mergeDone
        BY <3>1
      <3>3. QED
        BY <3>1, <3>2, DayMergedSame
    <2>3. QED
      BY <2>1, <2>2
  <1>9. ASSUME FlushRaises PROVE DayMerged'
    BY <1>9, DayMergedOff DEF FlushRaises, ProcessEnds, LeaveLoop
  <1>10. ASSUME NEW s \in Streams, ChunkRaises(s) PROVE DayMerged'
    BY <1>9, <1>10 DEF ChunkRaises
  <1>11. CASE SnapshotRaises
    BY <1>9, <1>11 DEF SnapshotRaises
  <1>12. ASSUME NEW s \in Streams, OpenChunk(s) PROVE DayMerged'
    <2>1. rows # {} /\ UNCHANGED <<loopNow, exiting, mergeDone>>
      BY <1>12 DEF OpenChunk, NextToWrite, OfStream
    <2>2. QED
      BY <2>1 DEF DayMerged
  <1>13. CASE CloseChunk
    BY <1>13 DEF CloseChunk, DayMerged
  <1>14. CASE OpenSnapshot
    BY <1>14, DayMergedSame DEF OpenSnapshot
  <1>15. CASE CloseSnapshot \/ SkipSnapshot
    BY <1>15, DayMergedSame
       DEF CloseSnapshot, SkipSnapshot, FlushReturns, DropFlushLocals, TypeOK
  <1>16. ASSUME Merging, UNCHANGED <<exiting, mergeDone>> PROVE DayMerged'
    BY <1>16, DayMergedOff DEF MergedThisNight
  <1>17. CASE BeginMerge \/ CloseDayFile
    BY <1>16, <1>17 DEF BeginMerge, CloseDayFile, Merging
  <1>18. ASSUME NEW s \in Streams, SkipStream(s) \/ OpenDayFile(s)
         PROVE  DayMerged'
    BY <1>16, <1>18 DEF SkipStream, OpenDayFile, Merging
  <1>19. ASSUME NEW t \in Time, UnlinkChunk(t) PROVE DayMerged'
    BY <1>16, <1>19 DEF UnlinkChunk, Merging
  <1>20. CASE MergeReturns
    <2>1. CASE exiting
      BY <1>20, <2>1, DayMergedOff DEF MergeReturns, ProcessEnds
    <2>2. CASE ~exiting
      <3>1. pc = "merge" /\ mleft = {} /\ pc' = "top"
            /\ UNCHANGED <<loopNow, buf, rows, chunks>>
        BY <1>20, <2>2 DEF MergeReturns
      <3>2. buf \cup rows = {}
        BY <3>1, NothingOpen DEF Merging
      <3>3. \A s \in Streams : Cleared(s, DayOf[loopNow])
        BY <2>2, <3>1 DEF MergeClears
      <3>4. QED
        BY <3>1, <3>2, <3>3 DEF DayMerged, Cleared, ChunkTimes
    <2>3. QED
      BY <2>1, <2>2
  <1>21. CASE UNCHANGED vars
    BY <1>21, DayMergedSame DEF vars
  <1>22. QED
    BY <1>1, <1>2, <1>3, <1>4, <1>5, <1>6, <1>7, <1>8, <1>10, <1>11, <1>12,
       <1>13, <1>14, <1>15, <1>17, <1>18, <1>19, <1>20, <1>21
       DEF Next, BusStep

\* A merged day is complete: its session rows are in no chunk that could be
\* merged, so those on disk are in the day file.
LEMMA MergedDayIsComplete ==
  ASSUME SessionsFarFromMidnight, TypeOK, FlushHandsOver, NoSilentLoss,
         RowsNear, DayFiles, MergedThisNight, DayMerged
  PROVE  DayFileComplete
  <1> SUFFICES ASSUME InLoop, mergeDone, AtOrAfterMergeHour(loopNow),
                      NEW r \in accepted, KeptByMerge(r, DayOf[loopNow]),
                      ~IsLost(r)
               PROVE  \/ r \in days[Stream(r)][DayOf[loopNow]].rows
                      \/ \E t \in ChunkTimes(Stream(r), DayOf[loopNow]) :
                            chunks[Stream(r)][t].st = "torn"
    BY DEF DayFileComplete
  <1>1. r \in Row /\ r.ts \in Time
    <2>1. r \in Row
      BY DEF TypeOK
    <2>2. QED
      BY <2>1 DEF Row
  <1>2. Stream(r) \in Streams
    BY <1>1, StreamTyping
  <1>3. ~exiting /\ Phase[loopNow] \in Evening
    <2>1. ~exiting
      BY DEF FlushHandsOver, InLoop
    <2>2. Phase[loopNow] \in Evening \cup {"early"} \/ HourNine(loopNow)
      BY <2>1 DEF MergedThisNight
    <2>3. QED
      BY <2>1, <2>2 DEF AtOrAfterMergeHour, HourNine
  <1>4. buf \cup rows = {} /\ Cleared(Stream(r), DayOf[loopNow])
    BY <1>2, <1>3 DEF DayMerged
  <1>5. OnDisk(r)
    BY <1>4 DEF NoSilentLoss
  <1>6. CASE \E t \in Time : r \in chunks[Stream(r)][t].rows
    <2>1. PICK t \in Time : r \in chunks[Stream(r)][t].rows
      BY <1>6
    <2>2. Near(t, r.ts) /\ chunks[Stream(r)][t].st # "absent"
      BY <1>2, <2>1 DEF RowsNear, DayFiles
    <2>3. DayOf[t] = DayOf[loopNow]
      BY <1>1, <2>2 DEF SessionsFarFromMidnight, KeptByMerge, Session
    <2>4. t \in ChunkTimes(Stream(r), DayOf[loopNow])
      BY <2>2, <2>3 DEF ChunkTimes
    <2>5. QED
      BY <1>4, <2>4 DEF Cleared
  <1>7. CASE \E d \in Days : r \in days[Stream(r)][d].rows
    <2>1. PICK d \in Days : r \in days[Stream(r)][d].rows
      BY <1>7
    <2>2. d = DayOf[loopNow]
      BY <1>2, <2>1 DEF DayFiles, KeptByMerge
    <2>3. QED
      BY <2>1, <2>2
  <1>8. QED
    BY <1>5, <1>6, <1>7 DEF OnDisk

\* From the merge until the night ends, every session row of the day that was
\* handed over is in its day file, unless it is recorded as lost or a torn
\* chunk made its stream unreadable: for every calendar with sessions far from
\* midnight, when no iteration lasts as long as the nine o'clock hour.
THEOREM DayFileCompleteCorrect ==
  ASSUME SessionsFarFromMidnight, IterationsSeeNineOClock
  PROVE  Spec => []DayFileComplete
  <1>1. TypeOK /\ ClocksInOrder /\ FlushHandsOver /\ BuffersCleared
           /\ MergedThisNight /\ MergeClears /\ DayMerged /\ [Next]_vars
           => DayMerged'
    BY DayMergedNext
  <1>2. Spec => []MergedThisNight
    BY MergedThisNightCorrect
  <1>3. TypeOK /\ FlushHandsOver /\ NoSilentLoss /\ RowsNear /\ DayFiles
           /\ MergedThisNight /\ DayMerged => DayFileComplete
    BY MergedDayIsComplete
  <1>4. QED
    BY <1>1, <1>2, <1>3, DayMergedInit, TypeCorrect, ClocksInOrderCorrect,
       FlushHandsOverCorrect, BuffersClearedCorrect, MergeClearsCorrect,
       NoSilentLossCorrect, RowsNearCorrect, DayFilesCorrect, PTL DEF Spec
=============================================================================
