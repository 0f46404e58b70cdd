----------------------------- MODULE Portfolio -----------------------------
(***************************************************************************)
(* The book of a backtest: backtest/portfolio.py.  A book is a record of   *)
(* cash, margin and positions; Booked says what process_trades makes of it *)
(* for one trade.                                                          *)
(*                                                                         *)
(* Money is counted in whole units.  A position keeps the total            *)
(* cost, avg_cost * |quantity|, where the code keeps avg_cost, so that     *)
(* only the share that leaves with a partial close has to be rounded.      *)
(***************************************************************************)
EXTENDS Integers

CONSTANTS
    Pairs,      \* the (call, put) pairs of one underlying ETF
    CfgUnit     \* TradingConfig.contract_unit

ASSUME CfgUnitOK == CfgUnit \in Nat \ {0}

Etf == <<"etf">>
Call(p) == <<"call", p>>
Put(p) == <<"put", p>>
Codes == {Etf} \cup {Call(p) : p \in Pairs} \cup {Put(p) : p \in Pairs}
IsOption(c) == c # Etf

AbsOf(x) == IF x < 0 THEN -x ELSE x
Lesser(x, y) == IF x < y THEN x ELSE y
Greater(x, y) == IF x > y THEN x ELSE y

\* The part of a total that belongs to `part` of `whole`.
Share(total, part, whole) == (total * part) \div whole

-----------------------------------------------------------------------------
Position == [qty : Int, cost : Int, realized : Int, margin : Nat]
Flat == [qty |-> 0, cost |-> 0, realized |-> 0, margin |-> 0]

Book == [cash : Int, totalMargin : Int, fees : Nat, etfDay : Nat,
         pos : [Codes -> Position]]
NewBook(capital) ==
    [cash |-> capital, totalMargin |-> 0, fees |-> 0, etfDay |-> 0,
     pos |-> [c \in Codes |-> Flat]]

\* dir is +1 for a purchase, -1 for a sale; margin is set on a call sold.
Trade == [code : Codes, dir : {1, -1}, price : Int, qty : Nat \ {0}, mult : Nat,
          fee : Nat, margin : Int]

\* Cost left in a position after `closed` of it went, by a trade that may
\* turn the position round.
CostLeft_Unchanged(pos, t, closed) == pos.cost
CostLeft(pos, t, closed) ==
    IF t.qty > closed THEN t.price * (t.qty - closed)
                      ELSE pos.cost - Share(pos.cost, closed, AbsOf(pos.qty))

\* _update_position.  Realised P&L of an option is booked with the unit of
\* the configuration, whatever the multiplier of the contract.
Moved(pos, t) ==
    LET signed == t.dir * t.qty
        closed == Lesser(AbsOf(pos.qty), t.qty)
        unit == IF IsOption(t.code) THEN CfgUnit ELSE 1
        gain == -t.dir * (t.price * closed - Share(pos.cost, closed, AbsOf(pos.qty)))
    IN  IF (pos.qty >= 0 /\ signed > 0) \/ (pos.qty <= 0 /\ signed < 0)
        THEN [pos EXCEPT !.qty = @ + signed, !.cost = @ + t.price * t.qty]
        ELSE [pos EXCEPT !.qty = @ + signed, !.cost = CostLeft(pos, t, closed),
                         !.realized = @ + unit * gain]

\* Margin that buying back a short option releases: its share of the position
\* as it was before the trade.
Released_AfterMove(pos, t) ==
    LET left == Moved(pos, t)
    IN  IF IsOption(t.code) /\ t.dir = 1 /\ left.qty < 0 /\ left.margin > 0
        THEN Share(left.margin, Lesser(t.qty, AbsOf(left.qty)), AbsOf(left.qty))
        ELSE 0
Released_OfRemaining(pos, t) ==
    IF IsOption(t.code) /\ t.dir = 1 /\ pos.qty < 0 /\ pos.margin > 0
    THEN Share(pos.margin, t.qty, Greater(1, AbsOf(Moved(pos, t).qty)))
    ELSE 0
Released(pos, t) ==
    IF IsOption(t.code) /\ t.dir = 1 /\ pos.qty < 0 /\ pos.margin > 0
    THEN Share(pos.margin, Lesser(t.qty, AbsOf(pos.qty)), AbsOf(pos.qty))
    ELSE 0

\* The day the ETF was last bought; it freezes the ETF until the next day.
BuyDay_FirstOnly(b, t, day) ==
    IF t.code = Etf /\ b.pos[Etf].qty = 0 THEN day ELSE b.etfDay
BuyDay(b, t, day) == IF t.code = Etf /\ t.dir = 1 THEN day ELSE b.etfDay

\* One turn of the loop of process_trades.  A margin is frozen if positive.
Booked(b, t, day) ==
    LET change == Greater(t.margin, 0) - Released(b.pos[t.code], t)
    IN  [cash |-> b.cash - (t.dir * t.price * t.qty * t.mult + t.fee),
         totalMargin |-> b.totalMargin + change,
         fees |-> b.fees + t.fee,
         etfDay |-> BuyDay(b, t, day),
         pos |-> [b.pos EXCEPT ![t.code] =
                     [Moved(b.pos[t.code], t) EXCEPT !.margin = @ + change]]]

\* process_trades on the three legs of an order.
ProcessTrades(b, legs, day) ==
    Booked(Booked(Booked(b, legs[1], day), legs[2], day), legs[3], day)
=============================================================================
