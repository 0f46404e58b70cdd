------------------------------- MODULE Report -------------------------------
(***************************************************************************)
(* What a backtest reports of its trades: analysis/pnl.py and the result   *)
(* of web/backtest_service.py, from the contracts the run loaded to the    *)
(* profit of every round trip.                                             *)
(*                                                                         *)
(* Signals and trades are kept in two lists, joined by the index of the    *)
(* signal.  A close is matched with the openings of its pair that came     *)
(* before it, and bears the part of their cost that its sets have in       *)
(* theirs.  Which orders are filled, and how far, is decided as in         *)
(* Backtest; here any number of sets may be.                               *)
(***************************************************************************)
EXTENDS Catalog

CONSTANTS
    Files,      \* the optionchain files a run may find
    TickedSets, \* the sets of codes the recorded days may hold ticks of
    Quotes,     \* bound: execution prices of the days, [etf, call, put]
    LastQuotes, \* bound: the prices the run ends with
    Capital, EtfFee, OptFee,
    Slip,       \* slippage_cost per share, already part of the price
    Etf, None,
    Lots,       \* amounts are compared in 1/Lots, a multiple of every count of sets
    MaxSets,    \* bound: sets of one order
    MaxSignals  \* bound: signals of the days

ASSUME ReportConstantsOK ==
    /\ \A f \in Files : f \in Seq(Row)
    /\ \A s \in TickedSets : s \subseteq Codes
    /\ Quotes \cup LastQuotes \subseteq [etf : Nat, call : Nat, put : Nat]
    /\ {Capital, EtfFee, OptFee, Slip, MaxSignals} \subseteq Nat
    /\ {MaxSets, Lots} \subseteq Nat \ {0} /\ Etf \notin Codes
    /\ \A n \in 1 .. MaxSets * MaxSignals : Lots % n = 0

VARIABLES
    stage,      \* "loading", "trading", "liquidating" or "done"
    contracts,  \* the contracts loaded for which there are ticks
    pairs,      \* all_pairs, what the strategy looks at
    signals,    \* engine.signals_generated
    trades,     \* portfolio.trade_history
    equity,     \* the end of the equity curve
    report      \* the result: total, and per executed close both figures

vars == <<stage, contracts, pairs, signals, trades, equity, report>>

Init ==
    /\ stage = "loading" /\ contracts = {} /\ pairs = {}
    /\ signals = <<>> /\ trades = <<>> /\ equity = Capital /\ report = None

-----------------------------------------------------------------------------
(* Sums over the trades.                                                   *)

SumOver(T, amount(_)) == MapThenSumSet(amount, T)

Flow(i) == trades[i].dir * trades[i].price * trades[i].qty * trades[i].mult
Fee(i) == trades[i].fee
Slippage(i) == Slip * trades[i].qty * trades[i].mult

Cash == Capital - SumOver(DOMAIN trades, Flow) - SumOver(DOMAIN trades, Fee)

\* Signed quantity of a code.
Held(c) == SumOver({i \in DOMAIN trades : trades[i].code = c},
                   LAMBDA i : trades[i].dir * trades[i].qty)

-----------------------------------------------------------------------------
(* The run.                                                                *)

\* Steps 2 to 4 of _run_inner: contracts, and the pairs with ticks of one side.
Load(file, ticked) ==
    /\ stage = "loading" /\ stage' = "trading"
    /\ LET infos == LoadChain(file)
       IN  /\ contracts' = {infos[i] : i \in {j \in DOMAIN infos : infos[j].code \in ticked}}
           /\ pairs' = {p \in UNION {FindPairs(infos, e) : e \in AvailableExpiries(infos)} :
                           p[1] \in ticked \/ p[2] \in ticked}
    /\ UNCHANGED <<signals, trades, equity, report>>

Contract(c) == CHOOSE x \in contracts : x.code = c
Traded(c) == \E x \in contracts : x.code = c

\* The legs of an order; dir is 1 to open, -1 to close.
Legs(p, dir, n, q) ==
    LET unit == Contract(p[1]).unit
        id == Len(signals) + 1
        Leg(c, d, price, qty, mult, fee) ==
            [sig |-> id, code |-> c, dir |-> d, price |-> price, qty |-> qty,
             mult |-> mult, fee |-> fee]
    IN  <<Leg(Etf, dir, q.etf, n * unit, 1, EtfFee),
          Leg(p[2], dir, q.put, n, unit, OptFee * n),
          Leg(p[1], -dir, q.call, n, unit, OptFee * n)>>

\* The engine records every signal, and the legs of those it executes.
\* kind is "open", "close", or "liquidation" for a close of the end of the run.
Handle(p, kind, n, q) ==
    /\ signals' = Append(signals, [pair |-> p, kind |-> kind])
    /\ trades' = IF n > 0 THEN trades \o Legs(p, IF kind = "open" THEN 1 ELSE -1, n, q)
                          ELSE trades

\* The ETF never binds: a short call has its unit of it for every set.
SetsHeld(p) == IF Held(p[1]) < 0 /\ Held(p[2]) > 0
               THEN Min({-Held(p[1]), Held(p[2])}) ELSE 0

Open(p, n, q) ==
    /\ stage = "trading" /\ Len(signals) < MaxSignals
    /\ p \in pairs /\ Traded(p[1]) /\ Traded(p[2]) /\ n \in 0 .. MaxSets
    /\ Handle(p, "open", n, q)
    /\ UNCHANGED <<stage, contracts, pairs, equity, report>>

\* The strategy's close of a pair it looks at.
Close(p, n, q) ==
    /\ stage = "trading" /\ Len(signals) < MaxSignals
    /\ p \in pairs /\ Traded(p[1]) /\ Traded(p[2]) /\ n \in 0 .. SetsHeld(p)
    /\ Handle(p, "close", n, q)
    /\ UNCHANGED <<stage, contracts, pairs, equity, report>>

\* The puts held that fit a call: the forced closes look for one by expiry
\* and strike, in the order the positions were entered.
PutsFor_AnyExpiry(c) ==
    {i \in DOMAIN trades :
        LET d == trades[i].code IN
        /\ Traded(c) /\ Traded(d) /\ Held(d) > 0 /\ Contract(d).kind = "put"
        /\ Contract(d).strike = Contract(c).strike}
PutsFor(c) ==
    {i \in DOMAIN trades :
        LET d == trades[i].code IN
        /\ Traded(c) /\ Traded(d) /\ Held(d) > 0 /\ Contract(d).kind = "put"
        /\ Contract(d).expiry = Contract(c).expiry
        /\ Contract(d).strike = Contract(c).strike}
PairOf(c) == <<c, trades[Min(PutsFor(c))].code>>

\* A stop-loss, an approaching expiry or the next open closes a short call.
ForceClose(c, n, q) ==
    /\ stage = "trading" /\ Len(signals) < MaxSignals
    /\ c \in Codes /\ Held(c) < 0 /\ PutsFor(c) # {}
    /\ n \in 0 .. SetsHeld(PairOf(c))
    /\ Handle(PairOf(c), "close", n, q)
    /\ UNCHANGED <<stage, contracts, pairs, equity, report>>

\* The last tick closes the curve: cash and the positions at its prices.
PriceOf(q, c) == IF c = Etf THEN q.etf
                 ELSE (IF Contract(c).kind = "call" THEN q.call ELSE q.put)
                        * Contract(c).unit
EndOfData(q) ==
    /\ stage = "trading" /\ stage' = "liquidating"
    /\ equity' = Cash + MapThenSumSet(LAMBDA c : Held(c) * PriceOf(q, c),
                                      {trades[i].code : i \in DOMAIN trades})
    /\ UNCHANGED <<contracts, pairs, signals, trades, report>>

\* _force_liquidate_all, one short call.
Residual == {c \in Codes : Held(c) < 0 /\ PutsFor(c) # {}}
Liquidate(c, q) ==
    /\ stage = "liquidating" /\ c \in Residual
    /\ Handle(PairOf(c), "liquidation", SetsHeld(PairOf(c)), q)
    /\ UNCHANGED <<stage, contracts, pairs, equity, report>>

-----------------------------------------------------------------------------
(* The figures.                                                            *)

LegsOf(i) == {j \in DOMAIN trades : trades[j].sig = i}
Executed == {i \in DOMAIN signals : LegsOf(i) # {}}
Closes == {i \in Executed : signals[i].kind # "open"}

\* Executed openings of the pair before signal i.
Priors(i) == {j \in Executed : j < i /\ signals[j].kind = "open" /\ signals[j].pair = signals[i].pair}

\* The sets of an order: the quantity of the first option leg that buys.
SetsOf(i) ==
    LET bought == {j \in LegsOf(i) : trades[j].code # Etf /\ trades[j].dir = 1}
    IN  IF bought = {} THEN 0 ELSE trades[Min(bought)].qty

CostOf(I) ==
    LET T == UNION {LegsOf(i) : i \in I} IN SumOver(T, Flow) + SumOver(T, Fee)

\* The close and its share of the openings, in 1/Lots.
RoundTrip_WithSlippage(i) ==
    LET opened == MapThenSumSet(SetsOf, Priors(i))
    IN  -(Lots * (CostOf({i}) + SumOver(LegsOf(i), Slippage))
            + SetsOf(i) * (Lots \div opened) * CostOf(Priors(i)))
RoundTrip(i) ==
    LET opened == MapThenSumSet(SetsOf, Priors(i))
    IN  -(Lots * CostOf({i}) + SetsOf(i) * (Lots \div opened) * CostOf(Priors(i)))

\* _process_arbitrage of an executed signal.  Where no opening is found it
\* falls back to the signal's own legs, with slippage.
AnalyzedNet(i) ==
    IF signals[i].kind # "open" /\ MapThenSumSet(SetsOf, Priors(i)) > 0 /\ SetsOf(i) > 0
    THEN RoundTrip(i)
    ELSE -Lots * (CostOf({i}) + SumOver(LegsOf(i), Slippage))

\* _roundtrip_pnl of an executed close.
ReportedNet(i) == IF MapThenSumSet(SetsOf, Priors(i)) = 0 THEN None ELSE RoundTrip(i)

\* analyze, then _build_result.  Win rate and profit/loss ratio are taken
\* over judged: the closes, or everything executed when there is none.
WriteReport ==
    /\ stage = "liquidating" /\ Residual = {}
    /\ stage' = "done"
    /\ report' = [total |-> equity - Capital,
                  judged |-> [i \in (IF Closes # {} THEN Closes ELSE Executed)
                                 |-> AnalyzedNet(i)],
                  actual |-> [i \in Closes |-> ReportedNet(i)]]
    /\ UNCHANGED <<contracts, pairs, signals, trades, equity>>

-----------------------------------------------------------------------------
Next ==
    \/ \E file \in Files, ticked \in TickedSets : Load(file, ticked)
    \/ \E p \in pairs, n \in 0 .. MaxSets, q \in Quotes : Open(p, n, q)
    \/ \E p \in pairs : \E n \in 0 .. SetsHeld(p), q \in Quotes : Close(p, n, q)
    \/ \E c \in Codes, n \in 0 .. MaxSets * MaxSignals, q \in Quotes : ForceClose(c, n, q)
    \/ \E q \in LastQuotes : EndOfData(q)
    \/ \E c \in Codes, q \in LastQuotes : Liquidate(c, q)
    \/ WriteReport

Spec == Init /\ [][Next]_vars

-----------------------------------------------------------------------------
\* Every executed close, the forced ones included, finds executed openings of
\* its pair: the figure that only stands for the returned principal
\* (_process_arbitrage's fallback) is never reported for a close, also with
\* equal strikes in two months or standard and adjusted contracts in the file.
EveryCloseHasItsOpen ==
    \A i \in Closes : Priors(i) # {} /\ SetsOf(i) > 0
                        /\ MapThenSumSet(SetsOf, Priors(i)) > 0

Of(p) == {i \in Executed : signals[i].pair = p}
\* All sets are closed, and none was opened again after a close.
RoundTripsOf(p) == Of(p) \cap Closes
Settled(p) ==
    /\ Held(p[1]) = 0
    /\ \A i \in RoundTripsOf(p), j \in Of(p) : signals[j].kind = "open" => j < i

\* Partial closes at different prices share the openings out without rest:
\* once a pair is settled, the round trips of the analyzer, and those of the
\* result page, each add up to what the pair earned in cash.  A run whose
\* pairs all settled before its last tick has the same total on its curve.
RoundTripsAddUp ==
    stage = "done" =>
        LET Earned(P) == -Lots * CostOf(UNION {Of(p) : p \in P})
            traded == {signals[i].pair : i \in Executed}
        IN  /\ \A p \in traded : Settled(p) =>
                  /\ MapThenSumSet(LAMBDA i : report.judged[i], RoundTripsOf(p)) = Earned({p})
                  /\ MapThenSumSet(LAMBDA i : report.actual[i], RoundTripsOf(p)) = Earned({p})
            /\ (\A p \in traded : Settled(p))
                  /\ (\A i \in Executed : signals[i].kind # "liquidation")
                  => report.total = Cash - Capital
=============================================================================
