------------------------------ MODULE MCReport ------------------------------
(* Two months with the same strike; in the first month a standard and an    *)
(* adjusted contract share it, and either the adjusted pair is listed last  *)
(* or the adjusted call and the standard put.                               *)
EXTENDS Report

R(code, kind, expiry, unit) ==
    [code |-> code, kind |-> kind, expiry |-> expiry, strike |-> 10, unit |-> unit]
Standard == [call |-> R("c1", "call", 1, 0), put |-> R("p1", "put", 1, 1)]
Adjusted == [call |-> R("c1a", "call", 1, 2), put |-> R("p1a", "put", 1, 2)]
SecondMonth == <<R("c2", "other", 2, 1), R("c2", "call", 2, 1), R("p2", "put", 2, 1)>>
MCFiles == {<<Standard.call, Adjusted.call, Standard.put, Adjusted.put>> \o SecondMonth,
            <<Standard.call, Adjusted.call, Adjusted.put, Standard.put>> \o SecondMonth}

MCCodes == {"c1", "p1", "c1a", "p1a", "c2", "p2"}
MCTicked == {MCCodes, MCCodes \ {"c2"}}
MCQuotes == {[etf |-> 9, call |-> 2, put |-> 1], [etf |-> 12, call |-> 5, put |-> 1]}
MCLastQuotes == {[etf |-> 11, call |-> 3, put |-> 2]}
=============================================================================
