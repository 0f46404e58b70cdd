------------------------------ MODULE Backtest ------------------------------
(***************************************************************************)
(* A backtest over recorded days: the day loop of web/backtest_service.py, *)
(* the signals of strategies/pcp_arbitrage.py, the engine and the broker   *)
(* of backtest/, and the final liquidation, over the book of Portfolio.    *)
(*                                                                         *)
(* A tick offers a market snapshot.  The strategy turns it into signals    *)
(* to open and to close pairs, the service adds forced closes, and the     *)
(* engine handles them one after the other against the book.               *)
(***************************************************************************)
EXTENDS Portfolio, FiniteSets, FiniteSetsExt

CONSTANTS
    Unit,           \* pair -> multiplier of its two contracts
    Strike,         \* pair -> strike
    Capital,        \* initial_capital
    MaxPerSignal,   \* max_position_per_signal
    MaxOpenSets,    \* max_total_open_sets, 0 for no limit
    Cooldown,       \* signal_cooldown_seconds > 0
    MinProfit,      \* min_profit_threshold of an opening
    CloseProfit,    \* close_profit_threshold
    CloseNextOpen,  \* close_next_open
    RoundFee,       \* fees the strategy subtracts from the profit of one set
    OptFee, EtfFee, \* commissions: per option contract, per ETF order
    OptSlip, EtfSlip,   \* slippage, as a price
    Risk, RiskFloor,    \* margin per share: ratio 1 and 2 times the last close
    LastClose,      \* the ETF price margin is computed from
    NoAsk,          \* the price that stands for "no seller"
    NoQty,          \* max_qty is unknown
    SampleEvery,    \* ticks between two samples of the equity curve (100)
    Markets,        \* bound: the snapshots a tick may show
    MaxTicks,       \* bound: ticks of one day
    MaxDay,         \* bound: days
    NoTick          \* no tick is being handled

\* A snapshot: the ETF's book, each pair's book with the depth for opening and
\* for closing it (max_qty), and the code that ticked with its last price.
Snapshot == [bid : Nat, ask : Nat,
             q : [Pairs -> [cb : Nat, ca : Nat, pb : Nat, pa : Nat,
                            openQty : Nat \cup {NoQty},
                            closeQty : Nat \cup {NoQty}]],
             code : Codes, last : Nat]

ASSUME BacktestConstantsOK ==
    /\ Pairs # {} /\ IsFiniteSet(Pairs)
    /\ Unit \in [Pairs -> Nat \ {0}] /\ Strike \in [Pairs -> Nat]
    /\ Capital \in Nat /\ MaxPerSignal \in Nat \ {0} /\ MaxOpenSets \in Nat
    /\ Cooldown \in BOOLEAN /\ CloseNextOpen \in BOOLEAN
    /\ MinProfit \in Int /\ CloseProfit \in Int
    /\ {RoundFee, OptFee, EtfFee, OptSlip, EtfSlip} \subseteq Nat
    /\ {Risk, RiskFloor, LastClose, NoAsk} \subseteq Nat
    /\ SampleEvery \in Nat \ {0} /\ MaxTicks \in Nat /\ MaxDay \in Nat
    /\ NoQty \notin Nat
    /\ Markets \subseteq Snapshot
    /\ NoTick \notin [m : Markets, final : BOOLEAN]

-----------------------------------------------------------------------------
VARIABLES
    phase,      \* "between" days, in a "day", "liquidating", "done"
    day,        \* index of the current day
    contracts,  \* engine.contracts: pairs with ticks on the last day that ran
    ticks,      \* ticks handled today
    tick,       \* the tick in hand: its snapshot, and whether it ends the day
    cooled,     \* the cooldown since the last opening is over
    opens, closes, forced,  \* signals of this tick not yet handled
    forcedToday,    \* next_open_closed_pairs
    book,       \* engine.portfolio
    cache,      \* engine._price_cache; 0 for "no price yet"
    equity,     \* last value of the equity curve
    closing,    \* calls the final liquidation has not visited
    bought      \* history: ETF shares bought today

tickVars == <<ticks, tick, cooled, opens, closes, forced, forcedToday>>
vars == <<phase, day, contracts, tickVars, book, cache, equity, closing, bought>>

Init ==
    /\ phase = "between" /\ day = 0 /\ contracts = {}
    /\ ticks = 0 /\ tick = NoTick /\ cooled = TRUE
    /\ opens = {} /\ closes = {} /\ forced = {} /\ forcedToday = {}
    /\ book = NewBook(Capital) /\ cache = [c \in Codes |-> 0]
    /\ equity = Capital /\ closing = {} /\ bought = 0

Held(c) == book.pos[c].qty
Opened(p) == Held(Call(p)) < 0 /\ Held(Put(p)) > 0 /\ Held(Etf) > 0

-----------------------------------------------------------------------------
(* The day loop.                                                           *)

\* A day with data for the pairs in L.  Without any contract the engine does
\* not run and keeps the contracts of an earlier day.
StartDay(L) ==
    /\ phase = "between" /\ day < MaxDay
    /\ day' = day + 1 /\ bought' = 0 /\ cooled' = TRUE
    /\ ticks' = 0 /\ forcedToday' = {}
    /\ IF L = {} THEN UNCHANGED <<phase, contracts>>
                 ELSE phase' = "day" /\ contracts' = L
    /\ UNCHANGED <<tick, opens, closes, forced, book, cache, equity, closing>>

-----------------------------------------------------------------------------
(* The signals of a snapshot.                                              *)

\* _calc_forward_metrics and _calc_close_metrics, per set.
OpenProfit(m, p) ==
    (Strike[p] - (m.ask + m.q[p].pa - m.q[p].cb)) * Unit[p] - RoundFee
CloseNet(m, p) ==
    (m.bid + m.q[p].pb - m.q[p].ca - Strike[p]) * Unit[p] - RoundFee

OpenSignals(m) ==
    {p \in contracts :
        /\ m.ask > 0
        /\ m.q[p].cb > 0 /\ m.q[p].ca > 0 /\ m.q[p].pb > 0 /\ m.q[p].pa > 0
        /\ OpenProfit(m, p) >= MinProfit}
CloseSignals(m) ==
    {p \in contracts :
        /\ m.bid > 0 /\ m.q[p].ca > 0 /\ m.q[p].pb > 0
        /\ CloseNet(m, p) >= CloseProfit}

\* The prices _make_close_signal finds in the snapshot.
Quoted_TakesSentinel(m, p) == m.q[p].ca > 0 /\ m.q[p].pb > 0 /\ m.bid > 0
Quoted(m, p) == m.q[p].ca \in 1 .. NoAsk - 1 /\ m.q[p].pb > 0 /\ m.bid > 0

\* _generate_next_open_close_signals.
ForcedCloses(m) ==
    IF ~CloseNextOpen THEN {}
    ELSE {p \in contracts \ forcedToday :
             /\ Held(Call(p)) < 0 /\ Held(Put(p)) > 0
             /\ book.etfDay # 0 /\ book.etfDay < day
             /\ Quoted(m, p)}

\* The next tick of the day; some time may have passed.
Tick(m, final) ==
    /\ phase = "day" /\ tick = NoTick /\ ticks < MaxTicks
    /\ tick' = [m |-> m, final |-> final]
    /\ cooled' \in {cooled, TRUE}
    /\ opens' = OpenSignals(m) /\ closes' = CloseSignals(m)
    /\ forced' = ForcedCloses(m) /\ forcedToday' = forcedToday \cup forced'
    /\ UNCHANGED <<phase, day, contracts, ticks, book, cache, equity, closing, bought>>

-----------------------------------------------------------------------------
(* Opening a pair.                                                         *)

\* _calc_max_sets and the smaller of it and the configured maximum.
OrderSize(m, p) ==
    LET affordable == (book.cash * 4) \div (5 * (m.ask + Risk) * Unit[p])
    IN  Greater(0, Lesser(affordable, MaxPerSignal))

\* _count_open_sets, from the ETF shares.
OpenSets == IF Held(Etf) > 0 THEN Held(Etf) \div CfgUnit ELSE 0

BelowCap_LetsOneMore == MaxOpenSets = 0 \/ OpenSets <= MaxOpenSets
BelowCap == MaxOpenSets = 0 \/ OpenSets < MaxOpenSets

\* Rule 1: no order against a missing side of the book.
Takeable(m, p) ==
    /\ m.q[p].pa \in 1 .. NoAsk - 1 /\ m.q[p].cb > 0 /\ m.ask \in 1 .. NoAsk - 1

\* Rule 3: the depth of the book, but one set at least.
OpenQty(m, p) ==
    LET n == OrderSize(m, p)
        depth == m.q[p].openQty
    IN  IF depth # NoQty /\ n > depth THEN Greater(1, depth) ELSE n

\* calc_initial_margin of one call sold at a price.
Margin(p, price) ==
    LET otm == Greater(Strike[p] - LastClose, 0)
    IN  price * CfgUnit + Greater((Risk - otm) * CfgUnit, RiskFloor * CfgUnit)

Leg(code, dir, price, qty, mult, fee, margin) ==
    [code |-> code, dir |-> dir, price |-> price, qty |-> qty, mult |-> mult,
     fee |-> fee, margin |-> margin]

OpenLegs_ConfigUnit(m, p, n) ==
    <<Leg(Etf, 1, m.ask + EtfSlip, n * CfgUnit, 1, EtfFee, 0),
      Leg(Put(p), 1, m.q[p].pa + OptSlip, n, Unit[p], OptFee * n, 0),
      Leg(Call(p), -1, m.q[p].cb - OptSlip, n, Unit[p], OptFee * n,
          Margin(p, m.q[p].cb - OptSlip) * n)>>
OpenLegs(m, p, n) ==
    <<Leg(Etf, 1, m.ask + EtfSlip, n * Unit[p], 1, EtfFee, 0),
      Leg(Put(p), 1, m.q[p].pa + OptSlip, n, Unit[p], OptFee * n, 0),
      Leg(Call(p), -1, m.q[p].cb - OptSlip, n, Unit[p], OptFee * n,
          Margin(p, m.q[p].cb - OptSlip) * n)>>

\* Rule 4: cash for the three legs and for the margin of the call.  Margin
\* already frozen is not taken off the cash.
CashNeeded_NoMargin(m, p, n) ==
    (m.ask + EtfSlip + m.q[p].pa + OptSlip - (m.q[p].cb - OptSlip)) * n * Unit[p]
      + EtfFee + 2 * OptFee * n
CashNeeded(m, p, n) ==
    (m.ask + EtfSlip + m.q[p].pa + OptSlip - (m.q[p].cb - OptSlip)) * n * Unit[p]
      + EtfFee + 2 * OptFee * n + Margin(p, m.q[p].cb - OptSlip) * n

Opens(m, p) ==
    /\ ~Cooldown \/ cooled
    /\ BelowCap /\ OrderSize(m, p) > 0 /\ Takeable(m, p)
    /\ CashNeeded(m, p, OpenQty(m, p)) <= book.cash

\* The most profitable opening left: guards, broker, and the book.
HandleOpen(p) ==
    /\ tick # NoTick /\ p \in opens
    /\ \A r \in opens : OpenProfit(tick.m, r) <= OpenProfit(tick.m, p)
    /\ opens' = opens \ {p}
    /\ IF Opens(tick.m, p)
       THEN LET n == OpenQty(tick.m, p)
            IN  /\ book' = ProcessTrades(book, OpenLegs(tick.m, p, n), day)
                /\ bought' = bought + n * Unit[p]
                /\ cooled' = FALSE
       ELSE UNCHANGED <<book, bought, cooled>>
    /\ UNCHANGED <<phase, day, contracts, ticks, tick, closes, forced,
                   forcedToday, cache, equity, closing>>

-----------------------------------------------------------------------------
(* Closing a pair.                                                         *)

SetsHeld(p) ==
    Min({-Held(Call(p)), Held(Put(p)), Held(Etf) \div Unit[p]})

\* _get_closeable_sets: an ETF bought today is frozen.
Closeable(p) == IF Opened(p) /\ book.etfDay # day THEN SetsHeld(p) ELSE 0

CloseQty(m, p, isForced) ==
    LET n == Closeable(p)
        depth == m.q[p].closeQty
    IN  IF ~isForced /\ depth # NoQty /\ n > depth THEN depth ELSE n

Sellable(m, p) ==
    /\ m.bid \in 1 .. NoAsk - 1 /\ m.q[p].pb \in 1 .. NoAsk - 1
    /\ m.q[p].ca \in 1 .. NoAsk - 1

CloseLegs(p, n, etf, put, call) ==
    <<Leg(Etf, -1, etf, n * Unit[p], 1, EtfFee, 0),
      Leg(Put(p), -1, put, n, Unit[p], OptFee * n, 0),
      Leg(Call(p), 1, call, n, Unit[p], OptFee * n, 0)>>

\* A close of the strategy, capped by the depth of the book, or a forced one.
HandleClose(p, isForced) ==
    /\ tick # NoTick /\ opens = {}
    /\ IF isForced THEN closes = {} /\ p \in forced ELSE p \in closes
    /\ IF isForced THEN forced' = forced \ {p} /\ closes' = closes
                   ELSE closes' = closes \ {p} /\ forced' = forced
    /\ LET m == tick.m
           n == CloseQty(m, p, isForced)
       IN  IF n > 0 /\ Sellable(m, p)
           THEN book' = ProcessTrades(book,
                            CloseLegs(p, n, m.bid - EtfSlip, m.q[p].pb - OptSlip,
                                      m.q[p].ca + OptSlip), day)
           ELSE book' = book
    /\ UNCHANGED <<phase, day, contracts, ticks, tick, cooled, opens,
                   forcedToday, cache, equity, closing, bought>>

-----------------------------------------------------------------------------
(* The end of a tick: a sample of the equity curve.                        *)

PriceOf(prices, c) ==
    IF prices[c] # 0 THEN prices[c] * AbsOf(Held(c)) ELSE book.pos[c].cost
MultOf(c) == IF IsOption(c) THEN Unit[c[2]] ELSE 1

\* mark_to_market: prices of the cache, the cost where there is none.  Only
\* contracts of today have their own multiplier.
ValueOf(prices, c) ==
    IF Held(c) = 0 THEN 0
    ELSE (IF Held(c) > 0 THEN 1 ELSE -1) * PriceOf(prices, c)
           * (IF IsOption(c) /\ c[2] \notin contracts THEN CfgUnit ELSE MultOf(c))

MarketValue(prices) == MapThenSumSet(LAMBDA c : ValueOf(prices, c), Codes)

EndTick ==
    /\ tick # NoTick /\ opens = {} /\ closes = {} /\ forced = {}
    /\ LET prices == [cache EXCEPT ![tick.m.code] = tick.m.last]
       IN  IF ticks % SampleEvery = 0 \/ tick.final
           THEN cache' = prices /\ equity' = book.cash + MarketValue(prices)
           ELSE UNCHANGED <<cache, equity>>
    /\ phase' = IF tick.final THEN "between" ELSE "day"
    /\ ticks' = ticks + 1 /\ tick' = NoTick
    /\ UNCHANGED <<day, contracts, cooled, opens, closes, forced, forcedToday,
                   book, closing, bought>>

-----------------------------------------------------------------------------
(* _force_liquidate_all, once the last day is over.                        *)

BeginLiquidation ==
    /\ phase = "between" /\ day > 0
    /\ phase' = "liquidating" /\ closing' = {p \in Pairs : Held(Call(p)) < 0}
    /\ UNCHANGED <<day, contracts, tickVars, book, cache, equity, bought>>

LastPrice(c) == PriceOf(cache, c) \div AbsOf(Held(c))

LiquidationQty_OneOrder(p) == Lesser(MaxPerSignal, SetsHeld(p))
LiquidationQty(p) == SetsHeld(p)

\* One call position.  It is skipped when its contract had no tick on the
\* last day that ran.
Liquidate(p) ==
    /\ phase = "liquidating" /\ p \in closing
    /\ closing' = closing \ {p}
    /\ IF p \in contracts /\ Opened(p) /\ SetsHeld(p) > 0
       THEN book' = ProcessTrades(book,
                        CloseLegs(p, LiquidationQty(p),
                                  Greater(LastPrice(Etf) - EtfSlip, 1),
                                  Greater(LastPrice(Put(p)) - OptSlip, 1),
                                  Greater(LastPrice(Call(p)) + OptSlip, 1)), day)
       ELSE book' = book
    /\ UNCHANGED <<phase, day, contracts, tickVars, cache, equity, bought>>

Finish ==
    /\ phase = "liquidating" /\ closing = {}
    /\ phase' = "done"
    /\ UNCHANGED <<day, contracts, tickVars, book, cache, equity, closing, bought>>

-----------------------------------------------------------------------------
Next ==
    \/ \E L \in SUBSET Pairs : StartDay(L)
    \/ \E m \in Markets, final \in BOOLEAN : Tick(m, final)
    \/ \E p \in Pairs : HandleOpen(p)
    \/ \E p \in Pairs, isForced \in BOOLEAN : HandleClose(p, isForced)
    \/ EndTick
    \/ BeginLiquidation
    \/ \E p \in Pairs : Liquidate(p)
    \/ Finish

Spec == Init /\ [][Next]_vars

-----------------------------------------------------------------------------
\* The variables but for the curve, whose value is a sum over the positions.
StateTyped ==
    /\ phase \in {"between", "day", "liquidating", "done"}
    /\ day \in 0 .. MaxDay /\ contracts \subseteq Pairs
    /\ ticks \in 0 .. MaxTicks
    /\ tick \in [m : Markets, final : BOOLEAN] \cup {NoTick}
    /\ cooled \in BOOLEAN
    /\ opens \subseteq Pairs /\ closes \subseteq Pairs /\ forced \subseteq Pairs
    /\ forcedToday \subseteq Pairs
    /\ book \in Book
    /\ cache \in [Codes -> Nat]
    /\ closing \subseteq Pairs /\ bought \in Nat

\* Type invariant.
TypeOK == StateTyped /\ equity \in Int

\* As many puts as calls of each pair, and never a short put.
LegsMatched == \A p \in Pairs : Held(Put(p)) >= 0 /\ Held(Call(p)) = -Held(Put(p))

\* The ETF shares that the sets of all pairs need.
SharesNeeded == MapThenSumSet(LAMBDA p : Unit[p] * Held(Put(p)), Pairs)

\* After any sequence of openings, partial closes, rejections and
\* liquidations the book is hedged: as many puts as calls of each pair, and the
\* ETF shares that they need, no more and no fewer; nothing is ever oversold.
HedgedBook == LegsMatched /\ Held(Etf) = SharesNeeded

\* What a position has brought in: realised P&L, less the cost of what is open.
Earned(c) ==
    LET x == book.pos[c] IN
    (IF x.qty > 0 THEN -1 ELSE 1) * x.cost * MultOf(c)
      + (IF IsOption(c) THEN (x.realized * Unit[c[2]]) \div CfgUnit
                        ELSE x.realized)
TotalEarned == MapThenSumSet(LAMBDA c : Earned(c), Codes)

\* The cash accounts for everything: what was paid for the open positions, the
\* realised P&L, which the code books with the configured unit and which has to
\* be scaled to the contract's own, and the commissions.
AccountsBalance == book.cash = Capital - book.fees + TotalEarned

\* Only a short position has margin frozen.
MarginOnShorts == \A c \in Codes : book.pos[c].margin > 0 => Held(c) < 0

FrozenMargin == MapThenSumSet(LAMBDA c : book.pos[c].margin, Codes)

\* Frozen margin belongs to short calls: partial closes release it in
\* proportion and the last one the rest, so that none stays behind.
MarginLedger ==
    /\ book.totalMargin = FrozenMargin
    /\ MarginOnShorts
    /\ \A c \in Codes : Held(c) < 0 => book.pos[c].margin > 0

\* T+1: the shares bought today, whatever pair they were bought for, are
\* still held until the backtest is over.
NotSoldSameDay == phase \in {"between", "day"} => Held(Etf) >= bought

\* What the broker asks for covers what the book then pays: after an opening
\* the cash still holds the margin that this opening froze.
OpeningFunded ==
    [][bought' > bought => book'.cash >= book'.totalMargin - book.totalMargin]_vars

SetsOpen == MapThenSumSet(LAMBDA p : Held(Put(p)), Pairs)

\* The cap on open sets is overshot by less than one order: sets of all pairs
\* together, also when contracts are larger than the configured unit.
CapOvershoot == MaxOpenSets > 0 => SetsOpen < MaxOpenSets + MaxPerSignal

\* A pair that got its forced close of the day is closed, unless a purchase
\* earlier in the same tick, or later that day, has the ETF frozen.
ForcedMeansClosed ==
    phase = "day" /\ tick = NoTick =>
        \A p \in forcedToday : Held(Put(p)) = 0 \/ book.etfDay = day

\* The liquidation leaves no pair open that had ticks on the last day.
SettledAtEnd ==
    phase = "done" => \A p \in contracts : Held(Call(p)) = 0 /\ Held(Put(p)) = 0

\* _force_liquidate_all, line 742: it closes "all open PCP pairs".
AllLiquidated ==
    phase = "done" => \A p \in Pairs : Held(Call(p)) = 0 /\ Held(Put(p)) = 0
=============================================================================
