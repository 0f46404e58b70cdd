----------------------------- MODULE MCRecorder -----------------------------
(* Small instances of Recorder for TLC. *)
EXTENDS Recorder

\* Two underlyings: an option of each and the ETF of the first.
MCStreamOf == [c \in Codes |->
    CASE c = "optA" -> <<"A", "options">>
      [] c = "etfA" -> <<"A", "etf">>
      [] c = "optB" -> <<"B", "options">>]

\* A call auction and a session, their merge hour and night, and the next
\* morning.
TwoDayPhase == [t \in Time |->
    <<"auction", "open", "merge", "night", "open9">>[t + 1]]
TwoDays == [t \in Time |-> <<1, 1, 1, 1, 2>>[t + 1]]
=============================================================================
