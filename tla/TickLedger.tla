----------------------------- MODULE TickLedger -----------------------------
(***************************************************************************)
(* What the recorder promises about every row handed to it, whatever it    *)
(* does with files: the row is held in memory, or is on disk, or is gone.  *)
(* A row on disk never becomes memory-only again and a row that is gone    *)
(* never comes back.                                                       *)
(***************************************************************************)
CONSTANT Entry

VARIABLES volatile, durable, gone

ledger == <<volatile, durable, gone>>

Init == volatile = {} /\ durable = {} /\ gone = {}

\* A new row is taken into memory.
Take(e) ==
    /\ e \notin volatile \cup durable \cup gone
    /\ volatile' = volatile \cup {e}
    /\ UNCHANGED <<durable, gone>>

\* Rows in memory reach a finished file.
Persist(S) ==
    /\ S \subseteq volatile
    /\ volatile' = volatile \ S /\ durable' = durable \cup S
    /\ UNCHANGED gone

\* Rows in memory are lost (a kill, an abandoned flush).
Drop(S) ==
    /\ S \subseteq volatile
    /\ volatile' = volatile \ S /\ gone' = gone \cup S
    /\ UNCHANGED durable

\* Rows lose their last copy on disk (a filter, a file opened again).
Discard(S) ==
    /\ S \subseteq durable
    /\ durable' = durable \ S /\ gone' = gone \cup S
    /\ UNCHANGED volatile

Next ==
    \/ \E e \in Entry : Take(e)
    \/ \E S \in SUBSET volatile : Persist(S) \/ Drop(S)
    \/ \E S \in SUBSET durable : Discard(S)

Spec == Init /\ [][Next]_ledger
=============================================================================
