-------------------------------- MODULE Feed --------------------------------
(***************************************************************************)
(* What the market cache promises to the rest of the dashboard: the newest *)
(* tick it shows never goes back, ticks may be skipped, and the last one   *)
(* that reached its socket is shown unless the socket is lost.  It is the  *)
(* abstract specification MarketCache implements and VolSmile builds on.   *)
(***************************************************************************)
EXTENDS Integers

CONSTANT MaxTicks   \* bound: ticks of the feed, numbered in order

NoTick == -1    \* no value
Restored == 0   \* a value of the snapshot file

ASSUME FeedConstantsOK == MaxTicks \in Nat

VARIABLES
    running,    \* _running
    arrived,    \* last tick the open socket accepted, 0 for none
    top         \* newest tick of the cache

feedVars == <<running, arrived, top>>

FeedInit == running = TRUE /\ arrived = 0 /\ top = NoTick

\* The cache is filled from the snapshot file before it listens.
ColdStart ==
    /\ top = NoTick /\ arrived = 0 /\ top' = Restored
    /\ UNCHANGED <<running, arrived>>

Arrive(i) ==
    /\ i > arrived /\ i > top /\ arrived' = i
    /\ UNCHANGED <<running, top>>

\* The threads look at _running between two receives only, so a tick may land
\* after stop().
Land ==
    /\ arrived # 0 /\ arrived > top /\ top' = arrived
    /\ UNCHANGED <<running, arrived>>

LoseSocket ==
    /\ arrived # 0 /\ arrived' = 0
    /\ UNCHANGED <<running, top>>

StopFeed ==
    /\ running /\ running' = FALSE
    /\ UNCHANGED <<arrived, top>>

FeedNext ==
    \/ ColdStart \/ Land \/ LoseSocket \/ StopFeed
    \/ \E i \in 1 .. MaxTicks : Arrive(i)

FeedSpec == FeedInit /\ [][FeedNext]_feedVars

FeedTypeOK ==
    /\ running \in BOOLEAN
    /\ arrived \in 0 .. MaxTicks /\ top \in NoTick .. MaxTicks

\* A tick that arrived is shown, unless it is overtaken or lost first.
ArrivalsLand ==
    \A i \in 1 .. MaxTicks :
        (running /\ arrived = i) ~> (top >= i \/ arrived # i \/ ~running)
=============================================================================
