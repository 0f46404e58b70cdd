----------------------------- MODULE MCBacktest -----------------------------
(* Two strikes of one ETF, the second an adjusted contract of 3 shares.     *)
EXTENDS Backtest

TwoPairs == {"p", "q"}
Units == [x \in TwoPairs |-> IF x = "p" THEN 2 ELSE 3]
Strikes == [x \in TwoPairs |-> IF x = "p" THEN 10 ELSE 11]

NoBook == [cb |-> 0, ca |-> 0, pb |-> 0, pa |-> 0,
           openQty |-> NoQty, closeQty |-> NoQty]
Quote(cb, ca, pb, pa, openQty, closeQty) ==
    [cb |-> cb, ca |-> ca, pb |-> pb, pa |-> pa,
     openQty |-> openQty, closeQty |-> closeQty]
Shows(bid, ask, p, q, code, last) ==
    [bid |-> bid, ask |-> ask, q |-> [x \in TwoPairs |-> IF x = "p" THEN p ELSE q],
     code |-> code, last |-> last]

Session ==
    {\* p is worth opening, q has not ticked yet
     Shows(9, 10, Quote(5, 6, 1, 2, NoQty, NoQty), NoBook, <<"etf">>, 10),
     \* both are, with less depth than one set of p
     Shows(9, 10, Quote(5, 6, 1, 2, 0, NoQty), Quote(4, 5, 1, 2, 1, NoQty),
           <<"call", "p">>, 5),
     \* both are worth closing, p with a depth of two sets
     Shows(13, 14, Quote(2, 3, 3, 4, NoQty, 2), Quote(2, 3, 3, 4, NoQty, NoQty),
           <<"put", "q">>, 3),
     \* the call of p has no seller
     Shows(10, 11, Quote(2, NoAsk, 1, 2, NoQty, NoQty), Quote(2, 3, 1, 3, NoQty, 0),
           <<"etf">>, 11)}
=============================================================================
