---------------------------- MODULE MCCalendar ----------------------------
(* An instance of Recorder whose two days lie as far apart as those of the *)
(* program, measured by how long a row can be on its way to a chunk.       *)
EXTENDS MCRecorder

\* A session from half past nine, its merge, the night, and the call auction of
\* the next day.
CalendarPhase == [t \in Time |->
    <<"open9", "open", "merge", "night", "night", "night", "night",
      "early", "early", "early", "early", "nine", "auction">>[t + 1]]
CalendarDays == [t \in Time |-> IF t < 7 THEN 1 ELSE 2]

\* The hypotheses under which FilterDropsOffSession and DayFileComplete are
\* proved.
ASSUME CalendarOK == SessionsFarFromMidnight /\ IterationsSeeNineOClock
=============================================================================
