------------------------------ MODULE Catalog ------------------------------
(***************************************************************************)
(* The optionchain file, data_engine/contract_catalog.py: its rows become  *)
(* contracts, in the order of the file, and the contracts become pairs of  *)
(* a call and a put with the same expiry and strike.                       *)
(*                                                                         *)
(* After a dividend an adjusted contract (another unit) may have the       *)
(* expiry and the strike of a standard one: of two calls, or two puts,     *)
(* only the later one in the file is paired, each on its own.              *)
(***************************************************************************)
EXTENDS Integers, SequencesExt

CONSTANTS
    Codes,      \* option codes
    Expiries, Strikes,
    StdUnit     \* the unit of a row that names none

\* A row: kind "other" stands for every row the parser refuses, 0 for a
\* multiplier that is missing or not a positive number.
Row == [code : Codes, kind : {"call", "put", "other"}, expiry : Expiries,
        strike : Strikes, unit : Nat]

ASSUME CatalogConstantsOK ==
    Codes # {} /\ StdUnit \in Nat \ {0} /\ Expiries \subseteq Nat /\ Strikes \subseteq Nat

\* _parse_optionchain_row, of a row it accepts.
Parsed(r) == [r EXCEPT !.unit = IF r.unit > 0 THEN r.unit ELSE StdUnit]

\* One turn of load_from_optionchain: a code seen before keeps its place.
AddRow(infos, r) ==
    IF r.kind = "other" THEN infos
    ELSE IF \E i \in DOMAIN infos : infos[i].code = r.code
         THEN [i \in DOMAIN infos |->
                  IF infos[i].code = r.code THEN Parsed(r) ELSE infos[i]]
         ELSE Append(infos, Parsed(r))

LoadChain(file) == FoldLeft(AddRow, <<>>, file)

\* The contract a dict over strikes ends up with: the last one entered.
Places(infos, kind, e, k) ==
    {i \in DOMAIN infos :
        infos[i].kind = kind /\ infos[i].expiry = e /\ infos[i].strike = k}
Kept(infos, kind, e, k) == infos[Max(Places(infos, kind, e, k))].code

\* find_call_put_pairs for one expiry.
FindPairs(infos, e) ==
    {<<Kept(infos, "call", e, k), Kept(infos, "put", e, k)>> :
        k \in {s \in Strikes : /\ Places(infos, "call", e, s) # {}
                               /\ Places(infos, "put", e, s) # {}}}

AvailableExpiries(infos) == {infos[i].expiry : i \in DOMAIN infos}
=============================================================================
