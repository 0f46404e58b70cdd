------------------------ MODULE BacktestLedgerProofs ------------------------
(***************************************************************************)
(* Proofs about the ledgers of Backtest, sums over the positions: the      *)
(* hedge, frozen margin, the cash, the cap on open sets, and what follows  *)
(* from the hedge about forced closes and the final liquidation.           *)
(***************************************************************************)
EXTENDS BacktestProofs, Sums

-----------------------------------------------------------------------------
(* The sums of the model as sums of a function of the book.                *)

NeedIn(b) == [p \in Pairs |-> Unit[p] * b.pos[Put(p)].qty]
PutsIn(b) == [p \in Pairs |-> b.pos[Put(p)].qty]
MarginIn(b) == [c \in Codes |-> b.pos[c].margin]

LEMMA PairsFinite == IsFiniteSet(Pairs)
  BY BacktestConstantsOK

LEMMA CodesFinite == IsFiniteSet(Codes)
  <1>1. IsFiniteSet({Etf})
    BY FS_Singleton
  <1>2. IsFiniteSet({Call(p) : p \in Pairs})
    <2> DEFINE T == {Call(p) : p \in Pairs}
    <2>1. [p \in Pairs |-> Call(p)] \in Surjection(Pairs, T)
      BY DEF Surjection
    <2> HIDE DEF T
    <2>2. IsFiniteSet(T)
      BY <2>1, PairsFinite, FS_Surjection
    <2>3. QED
      BY <2>2 DEF T
  <1>3. IsFiniteSet({Put(p) : p \in Pairs})
    <2> DEFINE T == {Put(p) : p \in Pairs}
    <2>1. [p \in Pairs |-> Put(p)] \in Surjection(Pairs, T)
      BY DEF Surjection
    <2> HIDE DEF T
    <2>2. IsFiniteSet(T)
      BY <2>1, PairsFinite, FS_Surjection
    <2>3. QED
      BY <2>2 DEF T
  <1>4. IsFiniteSet({Etf} \cup {Call(p) : p \in Pairs})
    BY <1>1, <1>2, FS_Union
  <1>5. IsFiniteSet(({Etf} \cup {Call(p) : p \in Pairs}) \cup {Put(p) : p \in Pairs})
    BY <1>3, <1>4, FS_Union
  <1>6. QED
    BY <1>5 DEF Codes

LEMMA SharesNeededIs == SharesNeeded = SumOf(NeedIn(book), Pairs)
  <1> DEFINE Computes(h) ==
               h = [s \in SUBSET Pairs |->
                      IF s = {} THEN 0
                      ELSE Unit[NextOf(s)] * Held(Put(NextOf(s))) + h[s \ {NextOf(s)}]]
  <1>1. \A s \in SUBSET Pairs : s # {} => NextOf(s) \in Pairs
    BY NextOfIn
  <1>2. \A h : Computes(h) <=> Adds(h, NeedIn(book), Pairs)
    BY <1>1, Zenon DEF Adds, NeedIn, Held
  <1>3. SharesNeeded = (CHOOSE h : Computes(h))[Pairs]
    BY Zenon DEF SharesNeeded, MapThenSumSet, MapThenFoldSet, NextOf
  <1> HIDE DEF Computes
  <1>4. \E h : Computes(h)
    BY <1>2, AddsExists, PairsFinite
  <1>5. Computes(CHOOSE h : Computes(h))
    BY <1>4, Zenon
  <1>6. QED
    BY <1>2, <1>3, <1>5, SumIs, PairsFinite

LEMMA SetsOpenIs == SetsOpen = SumOf(PutsIn(book), Pairs)
  <1> DEFINE Computes(h) ==
               h = [s \in SUBSET Pairs |->
                      IF s = {} THEN 0
                      ELSE Held(Put(NextOf(s))) + h[s \ {NextOf(s)}]]
  <1>1. \A s \in SUBSET Pairs : s # {} => NextOf(s) \in Pairs
    BY NextOfIn
  <1>2. \A h : Computes(h) <=> Adds(h, PutsIn(book), Pairs)
    BY <1>1, Zenon DEF Adds, PutsIn, Held
  <1>3. SetsOpen = (CHOOSE h : Computes(h))[Pairs]
    BY Zenon DEF SetsOpen, MapThenSumSet, MapThenFoldSet, NextOf
  <1> HIDE DEF Computes
  <1>4. \E h : Computes(h)
    BY <1>2, AddsExists, PairsFinite
  <1>5. Computes(CHOOSE h : Computes(h))
    BY <1>4, Zenon
  <1>6. QED
    BY <1>2, <1>3, <1>5, SumIs, PairsFinite

LEMMA FrozenMarginIs == FrozenMargin = SumOf(MarginIn(book), Codes)
  <1> DEFINE Computes(h) ==
               h = [s \in SUBSET Codes |->
                      IF s = {} THEN 0
                      ELSE book.pos[NextOf(s)].margin + h[s \ {NextOf(s)}]]
  <1>1. \A s \in SUBSET Codes : s # {} => NextOf(s) \in Codes
    BY NextOfIn
  <1>2. \A h : Computes(h) <=> Adds(h, MarginIn(book), Codes)
    BY <1>1, Zenon DEF Adds, MarginIn
  <1>3. FrozenMargin = (CHOOSE h : Computes(h))[Codes]
    BY Zenon DEF FrozenMargin, MapThenSumSet, MapThenFoldSet, NextOf
  <1> HIDE DEF Computes
  <1>4. \E h : Computes(h)
    BY <1>2, AddsExists, CodesFinite
  <1>5. Computes(CHOOSE h : Computes(h))
    BY <1>4, Zenon
  <1>6. QED
    BY <1>2, <1>3, <1>5, SumIs, CodesFinite

\* Earned and ValueOf are opaque here: the sums are those of their values.
LEMMA TotalEarnedIs == TotalEarned = SumOf([c \in Codes |-> Earned(c)], Codes)
  <1> DEFINE f == [c \in Codes |-> Earned(c)]
  <1> DEFINE Computes(h) ==
               h = [s \in SUBSET Codes |->
                      IF s = {} THEN 0
                      ELSE Earned(NextOf(s)) + h[s \ {NextOf(s)}]]
  <1>1. \A s \in SUBSET Codes : s # {} => NextOf(s) \in Codes
    BY NextOfIn
  <1>2. \A h : Computes(h) <=> Adds(h, f, Codes)
    BY <1>1, Zenon DEF Adds
  <1>3. TotalEarned = (CHOOSE h : Computes(h))[Codes]
    BY Zenon DEF TotalEarned, MapThenSumSet, MapThenFoldSet, NextOf
  <1> HIDE DEF Computes, f
  <1>4. \E h : Computes(h)
    BY <1>2, AddsExists, CodesFinite
  <1>5. Computes(CHOOSE h : Computes(h))
    BY <1>4, Zenon
  <1>6. TotalEarned = SumOf(f, Codes)
    BY <1>2, <1>3, <1>5, SumIs, CodesFinite
  <1>7. QED
    BY <1>6 DEF f

LEMMA MarketValueIs ==
  ASSUME NEW prices
  PROVE  MarketValue(prices) = SumOf([c \in Codes |-> ValueOf(prices, c)], Codes)
  <1> DEFINE f == [c \in Codes |-> ValueOf(prices, c)]
  <1> DEFINE Computes(h) ==
               h = [s \in SUBSET Codes |->
                      IF s = {} THEN 0
                      ELSE ValueOf(prices, NextOf(s)) + h[s \ {NextOf(s)}]]
  <1>1. \A s \in SUBSET Codes : s # {} => NextOf(s) \in Codes
    BY NextOfIn
  <1>2. \A h : Computes(h) <=> Adds(h, f, Codes)
    BY <1>1, Zenon DEF Adds
  <1>3. MarketValue(prices) = (CHOOSE h : Computes(h))[Codes]
    BY Zenon DEF MarketValue, MapThenSumSet, MapThenFoldSet, NextOf
  <1> HIDE DEF Computes, f
  <1>4. \E h : Computes(h)
    BY <1>2, AddsExists, CodesFinite
  <1>5. Computes(CHOOSE h : Computes(h))
    BY <1>4, Zenon
  <1>6. MarketValue(prices) = SumOf(f, Codes)
    BY <1>2, <1>3, <1>5, SumIs, CodesFinite
  <1>7. QED
    BY <1>6 DEF f

-----------------------------------------------------------------------------
(* What an order on p does to the quantities of the book.                  *)

\* The shares and the puts of n sets, bought (dir 1) or sold (dir -1).
Order(p, dir, n, legs) ==
    /\ OrderOn(p, legs)
    /\ legs[1].dir = dir /\ legs[1].qty = n * Unit[p]
    /\ legs[2].dir = dir /\ legs[2].qty = n
    /\ legs[3].dir = (IF dir = 1 THEN -1 ELSE 1) /\ legs[3].qty = n

LEMMA OpenLegsOrder ==
  ASSUME NEW m \in Markets, NEW p \in Pairs, NEW n \in Nat \ {0}
  PROVE  Order(p, 1, n, OpenLegs(m, p, n))
  <1>1. Buys(p, n, n * Unit[p], OpenLegs(m, p, n))
    BY OpenLegsTyping
  <1>2. QED
    BY <1>1 DEF Buys, Order

LEMMA CloseLegsOrder ==
  ASSUME NEW p \in Pairs, NEW n \in Nat \ {0},
         NEW x \in Int, NEW y \in Int, NEW z \in Int
  PROVE  Order(p, -1, n, CloseLegs(p, n, x, y, z))
  <1>1. Sells(p, n, n * Unit[p], CloseLegs(p, n, x, y, z))
    BY CloseLegsTyping
  <1>2. QED
    BY <1>1 DEF Sells, Order

LEMMA OrderMoves ==
  ASSUME NEW b \in Book, NEW d \in Nat, NEW p \in Pairs, NEW dir \in {1, -1},
         NEW n \in Nat \ {0}, NEW legs, Order(p, dir, n, legs)
  PROVE  LET after == ProcessTrades(b, legs, d) IN
         /\ after \in Book
         /\ after.pos[Etf].qty = b.pos[Etf].qty + dir * (n * Unit[p])
         /\ \A r \in Pairs : after.pos[Put(r)].qty =
              IF r = p THEN b.pos[Put(p)].qty + dir * n ELSE b.pos[Put(r)].qty
         /\ after.etfDay = IF dir = 1 THEN d ELSE b.etfDay
  <1> DEFINE after == ProcessTrades(b, legs, d)
  <1>1. /\ legs[1].code = Etf /\ legs[2].code = Put(p) /\ OrderOn(p, legs)
        /\ legs[1].dir = dir /\ legs[1].qty = n * Unit[p]
        /\ legs[2].dir = dir /\ legs[2].qty = n
    BY DEF Order, OrderOn
  <1>2. Settles(b, d, p, legs, after)
    BY <1>1, ProcessTradesTyping
  <1> HIDE DEF after
  <1>3. /\ after \in Book
        /\ after.pos[Etf].qty = b.pos[Etf].qty + dir * (n * Unit[p])
        /\ after.pos[Put(p)].qty = b.pos[Put(p)].qty + dir * n
        /\ \A c \in Codes \ {Etf, Put(p), Call(p)} : after.pos[c] = b.pos[c]
        /\ after.etfDay = IF dir = 1 THEN d ELSE b.etfDay
    <2>1. 1 \in 1 .. 3 /\ 2 \in 1 .. 3
      OBVIOUS
    <2>2. QED
      BY <1>1, <1>2, <2>1 DEF Settles
  <1>4. ASSUME NEW r \in Pairs, r # p
        PROVE  after.pos[Put(r)] = b.pos[Put(r)]
    <2>1. Put(r) \in Codes /\ Put(r) # Put(p) /\ Put(r) # Call(p) /\ Put(r) # Etf
      BY <1>4, CodesDiffer
    <2>2. QED
      BY <1>3, <2>1
  <1>5. QED
    BY <1>3, <1>4 DEF after

LEMMA ValuesIn ==
  ASSUME NEW b, NEW p \in Pairs
  PROVE  /\ NeedIn(b)[p] = Unit[p] * b.pos[Put(p)].qty
         /\ PutsIn(b)[p] = b.pos[Put(p)].qty
  BY Zenon DEF NeedIn, PutsIn

LEMMA SumsTyping ==
  ASSUME NEW b \in Book
  PROVE  /\ \A p \in Pairs : NeedIn(b)[p] \in Int /\ PutsIn(b)[p] \in Int
         /\ \A p \in Pairs : /\ NeedIn(b)[p] = Unit[p] * b.pos[Put(p)].qty
                             /\ PutsIn(b)[p] = b.pos[Put(p)].qty
         /\ SumOf(NeedIn(b), Pairs) \in Int /\ SumOf(PutsIn(b), Pairs) \in Int
  <1>1. ASSUME NEW p \in Pairs
        PROVE  b.pos[Put(p)].qty \in Int /\ Unit[p] * b.pos[Put(p)].qty \in Int
    <2>1. Put(p) \in Codes
      BY CodesDiffer
    <2>2. b.pos[Put(p)].qty \in Int
      BY <2>1, PositionTyping
    <2>3. Unit[p] \in Int
      BY ConstantTyping
    <2> DEFINE q == b.pos[Put(p)].qty
    <2>4. q \in Int
      BY <2>2
    <2> HIDE DEF q
    <2>5. Unit[p] * q \in Int
      BY <2>3, <2>4
    <2>6. QED
      BY <2>2, <2>5 DEF q
  <1>2. \A p \in Pairs : NeedIn(b)[p] \in Int /\ PutsIn(b)[p] \in Int
    BY <1>1, ValuesIn
  <1>3. SumOf(NeedIn(b), Pairs) \in Int
    BY <1>2, PairsFinite, SumType
  <1>4. SumOf(PutsIn(b), Pairs) \in Int
    BY <1>2, PairsFinite, SumType
  <1>5. QED
    BY <1>2, <1>3, <1>4, ValuesIn

\* An order moves the puts by its sets, and what they need by its shares.
LEMMA OrderSums ==
  ASSUME NEW b \in Book, NEW d \in Nat, NEW p \in Pairs, NEW dir \in {1, -1},
         NEW n \in Nat \ {0}, NEW legs, Order(p, dir, n, legs)
  PROVE  LET after == ProcessTrades(b, legs, d) IN
         /\ SumOf(PutsIn(after), Pairs) = SumOf(PutsIn(b), Pairs) + dir * n
         /\ SumOf(NeedIn(after), Pairs) =
              SumOf(NeedIn(b), Pairs) + dir * (n * Unit[p])
  <1> DEFINE after == ProcessTrades(b, legs, d)
  <1>1. /\ after \in Book
        /\ \A r \in Pairs : after.pos[Put(r)].qty =
             IF r = p THEN b.pos[Put(p)].qty + dir * n ELSE b.pos[Put(r)].qty
    BY OrderMoves
  <1> HIDE DEF after
  <1>2. \A r \in Pairs : /\ NeedIn(b)[r] \in Int /\ PutsIn(b)[r] \in Int
                         /\ NeedIn(b)[r] = Unit[r] * b.pos[Put(r)].qty
                         /\ PutsIn(b)[r] = b.pos[Put(r)].qty
    BY SumsTyping
  <1>3. \A r \in Pairs : /\ NeedIn(after)[r] \in Int /\ PutsIn(after)[r] \in Int
                         /\ NeedIn(after)[r] = Unit[r] * after.pos[Put(r)].qty
                         /\ PutsIn(after)[r] = after.pos[Put(r)].qty
    BY <1>1, SumsTyping
  <1>4. /\ \A r \in Pairs : r # p => PutsIn(after)[r] = PutsIn(b)[r]
        /\ \A r \in Pairs : r # p => NeedIn(after)[r] = NeedIn(b)[r]
    BY <1>1, <1>2, <1>3
  <1>5. SumOf(PutsIn(after), Pairs) =
          SumOf(PutsIn(b), Pairs) + PutsIn(after)[p] - PutsIn(b)[p]
    BY <1>2, <1>3, <1>4, PairsFinite, SumChange
  <1>6. SumOf(NeedIn(after), Pairs) =
          SumOf(NeedIn(b), Pairs) + NeedIn(after)[p] - NeedIn(b)[p]
    BY <1>2, <1>3, <1>4, PairsFinite, SumChange
  <1>7. SumOf(NeedIn(b), Pairs) \in Int /\ SumOf(PutsIn(b), Pairs) \in Int
    BY SumsTyping
  <1>8. PutsIn(after)[p] = PutsIn(b)[p] + dir * n /\ dir * n \in Int
    BY <1>1, <1>2, <1>3
  <1>9. NeedIn(after)[p] = NeedIn(b)[p] + dir * (n * Unit[p])
        /\ dir * (n * Unit[p]) \in Int
    <2> DEFINE q == b.pos[Put(p)].qty
    <2>1. q \in Int /\ Unit[p] \in Int /\ n \in Int /\ dir \in Int
      BY CodesDiffer, PositionTyping, ConstantTyping
    <2>2. NeedIn(after)[p] = Unit[p] * (q + dir * n) /\ NeedIn(b)[p] = Unit[p] * q
      BY <1>1, <1>2, <1>3
    <2> HIDE DEF q
    <2>3. Unit[p] * (q + dir * n) = Unit[p] * q + dir * (n * Unit[p])
      BY <2>1
    <2>4. dir * (n * Unit[p]) \in Int
      BY <2>1
    <2>5. QED
      BY <2>2, <2>3, <2>4
  <1>10. SumOf(PutsIn(after), Pairs) = SumOf(PutsIn(b), Pairs) + dir * n
    BY <1>2, <1>5, <1>7, <1>8
  <1>11. SumOf(NeedIn(after), Pairs) = SumOf(NeedIn(b), Pairs) + dir * (n * Unit[p])
    BY <1>2, <1>6, <1>7, <1>9
  <1>12. QED
    BY <1>10, <1>11 DEF after

-----------------------------------------------------------------------------
(* The steps that change the book: openings and sales.                     *)

Opening(p, n) ==
    /\ tick.m \in Markets /\ Opens(tick.m, p) /\ n = OpenQty(tick.m, p)
    /\ book' = ProcessTrades(book, OpenLegs(tick.m, p, n), day)
Sale(p, n) ==
    /\ n <= SetsHeld(p)
    /\ \E x, y, z \in Int : book' = ProcessTrades(book, CloseLegs(p, n, x, y, z), day)

BookStep == \E p \in Pairs, n \in Nat \ {0} : Opening(p, n) \/ Sale(p, n)

LEMMA HandleOpenStep ==
  ASSUME Inv, NEW p \in Pairs, HandleOpen(p)
  PROVE  \/ book' = book
         \/ \E n \in Nat \ {0} : Opening(p, n)
  <1>1. tick.m \in Markets /\ book \in Book
    BY DEF Inv, StateTyped, HandleOpen
  <1>2. CASE Opens(tick.m, p)
    <2>1. OpenQty(tick.m, p) \in Nat \ {0}
      BY <1>1, <1>2, OpenQtyTyping
    <2>2. Opening(p, OpenQty(tick.m, p))
      BY <1>1, <1>2 DEF HandleOpen, Opening
    <2>3. QED
      BY <2>1, <2>2
  <1>3. CASE ~Opens(tick.m, p)
    BY <1>3 DEF HandleOpen
  <1>4. QED
    BY <1>2, <1>3

LEMMA HandleCloseStep ==
  ASSUME Inv, NEW p \in Pairs, NEW isForced \in BOOLEAN, HandleClose(p, isForced)
  PROVE  \/ book' = book /\ ~(CloseQty(tick.m, p, isForced) > 0 /\ Sellable(tick.m, p))
         \/ \E n \in Nat \ {0} : /\ Sale(p, n) /\ book.etfDay # day
                                 /\ n = CloseQty(tick.m, p, isForced)
  <1> DEFINE m == tick.m
             n == CloseQty(m, p, isForced)
  <1>1. m \in Markets /\ book \in Book
    BY DEF Inv, StateTyped, HandleClose
  <1>2. CASE n > 0 /\ Sellable(m, p)
    <2>1. n \in Nat \ {0} /\ n <= SetsHeld(p) /\ book.etfDay # day
      BY <1>1, <1>2, CloseQtyBounds
    <2>2. /\ m.bid - EtfSlip \in Int /\ m.q[p].pb - OptSlip \in Int
          /\ m.q[p].ca + OptSlip \in Int
      BY <1>1, SnapshotTyping, ConstantTyping
    <2>3. book' = ProcessTrades(book, CloseLegs(p, n, m.bid - EtfSlip,
                      m.q[p].pb - OptSlip, m.q[p].ca + OptSlip), day)
      BY <1>2 DEF HandleClose
    <2>4. Sale(p, n)
      BY <2>1, <2>2, <2>3 DEF Sale
    <2>5. QED
      BY <2>1, <2>4
  <1>3. CASE ~(n > 0 /\ Sellable(m, p))
    BY <1>3 DEF HandleClose
  <1>4. QED
    BY <1>2, <1>3

LEMMA LiquidateStep ==
  ASSUME Inv, NEW p \in Pairs, Liquidate(p)
  PROVE  \/ /\ book' = book
            /\ ~(p \in contracts /\ Opened(p) /\ SetsHeld(p) > 0)
         \/ SetsHeld(p) \in Nat \ {0} /\ Sale(p, SetsHeld(p))
  <1>1. book \in Book /\ cache \in [Codes -> Nat]
    BY DEF Inv, StateTyped
  <1>2. CASE p \in contracts /\ Opened(p) /\ SetsHeld(p) > 0
    <2>1. Etf \in Codes /\ Call(p) \in Codes /\ Put(p) \in Codes
      BY CodesDiffer
    <2>2. /\ LastPrice(Etf) \in Int /\ LastPrice(Put(p)) \in Int
          /\ LastPrice(Call(p)) \in Int
      BY <1>1, <1>2, <2>1, LastPriceTyping DEF Opened
    <2>3. /\ Greater(LastPrice(Etf) - EtfSlip, 1) \in Int
          /\ Greater(LastPrice(Put(p)) - OptSlip, 1) \in Int
          /\ Greater(LastPrice(Call(p)) + OptSlip, 1) \in Int
      BY <2>2, ConstantTyping DEF Greater
    <2>4. SetsHeld(p) \in Nat \ {0}
      BY <1>1, <1>2, SetsHeldTyping
    <2>5. Sale(p, SetsHeld(p))
      BY <1>2, <2>3, <2>4 DEF Sale, Liquidate, LiquidationQty
    <2>6. QED
      BY <2>4, <2>5
  <1>3. CASE ~(p \in contracts /\ Opened(p) /\ SetsHeld(p) > 0)
    BY <1>3 DEF Liquidate
  <1>4. QED
    BY <1>2, <1>3

LEMMA BookSteps == Inv /\ [Next]_vars => book' = book \/ BookStep
  <1> SUFFICES ASSUME Inv, [Next]_vars PROVE book' = book \/ BookStep
    OBVIOUS
  <1>1. ASSUME NEW L \in SUBSET Pairs, StartDay(L) PROVE book' = book
    BY <1>1 DEF StartDay
  <1>2. ASSUME NEW m \in Markets, NEW final \in BOOLEAN, Tick(m, final)
        PROVE  book' = book
    BY <1>2 DEF Tick
  <1>3. ASSUME NEW p \in Pairs, HandleOpen(p) PROVE book' = book \/ BookStep
    BY <1>3, HandleOpenStep DEF BookStep
  <1>4. ASSUME NEW p \in Pairs, NEW isForced \in BOOLEAN, HandleClose(p, isForced)
        PROVE  book' = book \/ BookStep
    BY <1>4, HandleCloseStep DEF BookStep
  <1>5. CASE EndTick
    BY <1>5 DEF EndTick
  <1>6. CASE BeginLiquidation
    BY <1>6 DEF BeginLiquidation
  <1>7. ASSUME NEW p \in Pairs, Liquidate(p) PROVE book' = book \/ BookStep
    BY <1>7, LiquidateStep DEF BookStep
  <1>8. CASE Finish
    BY <1>8 DEF Finish
  <1>9. CASE UNCHANGED vars
    BY <1>9 DEF vars
  <1>10. QED
    BY <1>1, <1>2, <1>3, <1>4, <1>5, <1>6, <1>7, <1>8, <1>9 DEF Next

-----------------------------------------------------------------------------
(* The hedge.                                                              *)

Hedged(b) == b.pos[Etf].qty = SumOf(NeedIn(b), Pairs)

LEMMA HedgedInit == Init => Hedged(book)
  <1> SUFFICES ASSUME Init PROVE Hedged(book)
    OBVIOUS
  <1>1. \A c \in Codes : book.pos[c].qty = 0
    BY DEF Init, NewBook, Flat
  <1>2. \A p \in Pairs : NeedIn(book)[p] = 0
    <2> TAKE p \in Pairs
    <2>1. book.pos[Put(p)].qty = 0 /\ Unit[p] * 0 = 0
      BY <1>1, CodesDiffer, ConstantTyping
    <2>2. QED
      BY <2>1, ValuesIn
  <1>3. SumOf(NeedIn(book), Pairs) = 0
    BY <1>2, PairsFinite, SumZero
  <1>4. QED
    BY <1>1, <1>3, CodesDiffer DEF Hedged

LEMMA OrderHedged ==
  ASSUME NEW b \in Book, Hedged(b), NEW d \in Nat, NEW p \in Pairs,
         NEW dir \in {1, -1}, NEW n \in Nat \ {0}, NEW legs, Order(p, dir, n, legs)
  PROVE  Hedged(ProcessTrades(b, legs, d))
  <1> DEFINE after == ProcessTrades(b, legs, d)
  <1>1. after.pos[Etf].qty = b.pos[Etf].qty + dir * (n * Unit[p])
    BY OrderMoves
  <1>2. SumOf(NeedIn(after), Pairs) = SumOf(NeedIn(b), Pairs) + dir * (n * Unit[p])
    BY OrderSums
  <1>3. QED
    BY <1>1, <1>2 DEF Hedged

LEMMA HedgedNext == Inv /\ Hedged(book) /\ [Next]_vars => Hedged(book)'
  <1> SUFFICES ASSUME Inv, Hedged(book), [Next]_vars PROVE Hedged(book')
    OBVIOUS
  <1>1. book \in Book /\ day \in Nat
    BY ConstantTyping DEF Inv, StateTyped
  <1>2. CASE book' = book
    BY <1>2
  <1>3. ASSUME NEW p \in Pairs, NEW n \in Nat \ {0}, Opening(p, n)
        PROVE  Hedged(book')
    <2>1. Order(p, 1, n, OpenLegs(tick.m, p, n))
      BY <1>3, OpenLegsOrder DEF Opening
    <2>2. QED
      BY <1>1, <1>3, <2>1, OrderHedged DEF Opening
  <1>4. ASSUME NEW p \in Pairs, NEW n \in Nat \ {0}, Sale(p, n)
        PROVE  Hedged(book')
    <2>1. PICK x, y, z \in Int :
             book' = ProcessTrades(book, CloseLegs(p, n, x, y, z), day)
      BY <1>4 DEF Sale
    <2>2. Order(p, -1, n, CloseLegs(p, n, x, y, z))
      BY CloseLegsOrder
    <2>3. QED
      BY <1>1, <2>1, <2>2, OrderHedged
  <1>5. QED
    BY <1>2, <1>3, <1>4, BookSteps DEF BookStep

\* The same as a sum of a function of the book, the form the induction carries.
THEOREM HedgedCorrect == Spec => []Hedged(book)
  <1>1. QED
    BY HedgedInit, HedgedNext, InvCorrect, PTL DEF Spec

\* For any number of pairs, contract sizes, prices and depths: openings,
\* partial and forced closes, rejected orders and the final liquidation leave
\* as many ETF shares as the puts held need, no more and no fewer.
THEOREM HedgedBookCorrect == Spec => []HedgedBook
  <1>1. Hedged(book) /\ LegsMatched => HedgedBook
    BY SharesNeededIs DEF HedgedBook, Hedged, Held
  <1>2. QED
    BY <1>1, HedgedCorrect, LegsMatchedCorrect, PTL

-----------------------------------------------------------------------------
(* What the hedge is for: a pair that is open can be closed whole.         *)

LEMMA MinIs ==
  ASSUME NEW x \in Int, NEW z \in Int, x <= z
  PROVE  Min({x, x, z}) = x
  <1>1. \A v \in {x, x, z} : x <= v
    OBVIOUS
  <1>2. \A w \in {x, x, z} : (\A v \in {x, x, z} : w <= v) => w = x
    OBVIOUS
  <1>3. QED
    BY <1>1, <1>2, Zenon DEF Min

LEMMA DivAtLeast ==
  ASSUME NEW x \in Int, NEW w \in Nat \ {0}, NEW q \in Int, q * w <= x
  PROVE  q <= x \div w
  <1>1. x \div w \in Int /\ x < (x \div w) * w + w
    BY DivBounds
  <1> DEFINE y == x \div w
  <1>2. y \in Int /\ x < y * w + w
    BY <1>1
  <1> HIDE DEF y
  <1>3. SUFFICES ASSUME y + 1 <= q PROVE FALSE
    BY <1>2 DEF y
  <1>4. w * (y + 1) <= w * q
    BY <1>2, <1>3, TimesMonotone
  <1>5. QED
    BY <1>2, <1>4

\* The shares cover the puts of each pair.
LEMMA SharesCover ==
  ASSUME NEW b \in Book, Safe(b), Hedged(b), NEW p \in Pairs
  PROVE  b.pos[Put(p)].qty * Unit[p] <= b.pos[Etf].qty
  <1>1. ASSUME NEW r \in Pairs PROVE NeedIn(b)[r] \in Nat
    <2>1. Put(r) \in Codes
      BY CodesDiffer
    <2> DEFINE q == b.pos[Put(r)].qty
    <2>2. q \in Int
      BY <2>1, PositionTyping
    <2>3. q >= 0
      BY DEF Safe
    <2> HIDE DEF q
    <2>4. Unit[r] \in Nat
      BY ConstantTyping
    <2>5. Unit[r] * q \in Nat
      BY <2>2, <2>3, <2>4
    <2>6. QED
      BY <2>5, ValuesIn DEF q
  <1>2. NeedIn(b)[p] <= SumOf(NeedIn(b), Pairs)
    BY <1>1, PairsFinite, SumOfNaturals
  <1> DEFINE q == b.pos[Put(p)].qty
  <1>3. q \in Int /\ Unit[p] \in Int
    BY CodesDiffer, PositionTyping, ConstantTyping
  <1>4. NeedIn(b)[p] = Unit[p] * q
    BY ValuesIn
  <1> HIDE DEF q
  <1>5. Unit[p] * q = q * Unit[p]
    BY <1>3
  <1>6. q * Unit[p] <= b.pos[Etf].qty
    BY <1>2, <1>4, <1>5 DEF Hedged
  <1>7. QED
    BY <1>6 DEF q

LEMMA ClosedOrOpened ==
  ASSUME book \in Book, Safe(book), Hedged(book), NEW p \in Pairs
  PROVE  /\ Held(Put(p)) \in Nat /\ Held(Call(p)) = -Held(Put(p))
         /\ Held(Call(p)) \in Int /\ Held(Call(p)) + Held(Put(p)) = 0
         /\ Held(Put(p)) > 0 => Opened(p) /\ SetsHeld(p) = Held(Put(p))
  <1> DEFINE put == Held(Put(p))
             etf == Held(Etf)
  <1>1. Put(p) \in Codes /\ Etf \in Codes /\ Call(p) \in Codes
    BY CodesDiffer
  <1>2. put \in Int /\ etf \in Int /\ Unit[p] \in Nat \ {0}
    BY <1>1, PositionTyping, ConstantTyping DEF Held
  <1>3. put >= 0 /\ Held(Call(p)) = -put
    BY DEF Safe, Held
  <1>4. put * Unit[p] <= etf
    BY SharesCover DEF Held
  <1> HIDE DEF put, etf
  <1>5. etf \div Unit[p] \in Int /\ put <= etf \div Unit[p]
    BY <1>2, <1>4, DivBounds, DivAtLeast
  <1>6. /\ -Held(Call(p)) = put /\ Held(Call(p)) \in Int
        /\ Held(Call(p)) + put = 0
    BY <1>2, <1>3
  <1>7. SetsHeld(p) = put
    <2>1. Min({put, put, etf \div Unit[p]}) = put
      BY <1>2, <1>5, MinIs
    <2>2. SetsHeld(p) = Min({put, put, etf \div Unit[p]})
      BY <1>6 DEF SetsHeld, put, etf
    <2>3. QED
      BY <2>1, <2>2
  <1>8. put > 0 => Opened(p)
    <2>1. put > 0 => put * Unit[p] > 0
      BY <1>2
    <2>2. put * Unit[p] \in Int
      BY <1>2
    <2>3. put > 0 => etf > 0 /\ Held(Call(p)) < 0
      BY <1>2, <1>3, <1>4, <2>1, <2>2
    <2>4. QED
      BY <2>3 DEF Opened, put, etf
  <1>9. QED
    BY <1>2, <1>3, <1>6, <1>7, <1>8 DEF put

\* The puts of all pairs after an opening and after a sale.
LEMMA SalePuts ==
  ASSUME book \in Book, day \in Nat, NEW p \in Pairs, NEW n \in Nat \ {0}, Sale(p, n)
  PROVE  /\ \A r \in Pairs : Held(Put(r))' = IF r = p THEN Held(Put(p)) - n
                                                      ELSE Held(Put(r))
         /\ book'.etfDay = book.etfDay
         /\ SumOf(PutsIn(book'), Pairs) = SumOf(PutsIn(book), Pairs) - n
  <1>1. PICK x, y, z \in Int :
           book' = ProcessTrades(book, CloseLegs(p, n, x, y, z), day)
    BY DEF Sale
  <1>2. Order(p, -1, n, CloseLegs(p, n, x, y, z))
    BY CloseLegsOrder
  <1>3. /\ \A r \in Pairs : book'.pos[Put(r)].qty =
             IF r = p THEN book.pos[Put(p)].qty + (-1) * n ELSE book.pos[Put(r)].qty
        /\ book'.etfDay = IF -1 = 1 THEN day ELSE book.etfDay
    BY <1>1, <1>2, OrderMoves
  <1>4. SumOf(PutsIn(book'), Pairs) = SumOf(PutsIn(book), Pairs) + (-1) * n
    BY <1>1, <1>2, OrderSums
  <1>5. SumOf(PutsIn(book), Pairs) \in Int
    BY SumsTyping
  <1>6. book.pos[Put(p)].qty \in Int
    BY CodesDiffer, PositionTyping
  <1>7. SumOf(PutsIn(book'), Pairs) = SumOf(PutsIn(book), Pairs) - n
    BY <1>4, <1>5
  <1>8. book.pos[Put(p)].qty + (-1) * n = book.pos[Put(p)].qty - n
    BY <1>6
  <1>9. book'.etfDay = book.etfDay
    BY <1>3
  <1>10. \A r \in Pairs : book'.pos[Put(r)].qty =
           IF r = p THEN book.pos[Put(p)].qty - n ELSE book.pos[Put(r)].qty
    BY <1>3, <1>8
  <1>11. QED
    BY <1>7, <1>9, <1>10 DEF Held

LEMMA OpeningPuts ==
  ASSUME book \in Book, day \in Nat, NEW p \in Pairs, NEW n \in Nat \ {0}, Opening(p, n)
  PROVE  /\ book'.etfDay = day
         /\ SumOf(PutsIn(book'), Pairs) = SumOf(PutsIn(book), Pairs) + n
  <1>1. Order(p, 1, n, OpenLegs(tick.m, p, n))
    BY OpenLegsOrder DEF Opening
  <1>2. /\ book' = ProcessTrades(book, OpenLegs(tick.m, p, n), day)
    BY DEF Opening
  <1>3. book'.etfDay = IF 1 = 1 THEN day ELSE book.etfDay
    BY <1>1, <1>2, OrderMoves
  <1>4. SumOf(PutsIn(book'), Pairs) = SumOf(PutsIn(book), Pairs) + 1 * n
    BY <1>1, <1>2, OrderSums
  <1>5. QED
    BY <1>3, <1>4

-----------------------------------------------------------------------------
(* The final liquidation.                                                  *)

\* What the liquidation has visited is closed.
SettledSoFar ==
    /\ phase \in {"liquidating", "done"} =>
         \A p \in contracts \ closing : Held(Put(p)) = 0
    /\ phase = "done" => closing = {}

LEMMA SettledNext ==
  Inv /\ Hedged(book) /\ SettledSoFar /\ [Next]_vars => SettledSoFar'
  <1> SUFFICES ASSUME Inv, Hedged(book), SettledSoFar, [Next]_vars PROVE SettledSoFar'
    OBVIOUS
  <1>0. book \in Book /\ day \in Nat /\ Safe(book) /\ contracts \subseteq Pairs
    BY ConstantTyping DEF Inv, StateTyped
  <1>1. ASSUME NEW L \in SUBSET Pairs, StartDay(L) PROVE SettledSoFar'
    BY <1>1 DEF StartDay, SettledSoFar
  <1>2. ASSUME NEW m \in Markets, NEW final \in BOOLEAN, Tick(m, final)
        PROVE  SettledSoFar'
    BY <1>2 DEF Tick, SettledSoFar
  <1>3. ASSUME NEW p \in Pairs, HandleOpen(p) PROVE SettledSoFar'
    BY <1>3 DEF HandleOpen, SettledSoFar, Inv
  <1>4. ASSUME NEW p \in Pairs, NEW isForced \in BOOLEAN, HandleClose(p, isForced)
        PROVE  SettledSoFar'
    BY <1>4 DEF HandleClose, SettledSoFar, Inv
  <1>5. CASE EndTick
    BY <1>5 DEF EndTick, SettledSoFar
  <1>6. CASE BeginLiquidation
    <2>1. ASSUME NEW p \in contracts', p \notin closing' PROVE Held(Put(p))' = 0
      <3>1. p \in Pairs /\ ~(Held(Call(p)) < 0)
        BY <1>0, <1>6, <2>1 DEF BeginLiquidation
      <3>2. Held(Put(p)) \in Nat /\ Held(Call(p)) = -Held(Put(p))
        BY <1>0, <3>1, ClosedOrOpened
      <3>3. Held(Put(p)) = 0
        BY <3>1, <3>2
      <3>4. QED
        BY <1>6, <3>3 DEF BeginLiquidation, Held
    <2>2. QED
      BY <1>6, <2>1 DEF BeginLiquidation, SettledSoFar
  <1>7. ASSUME NEW p \in Pairs, Liquidate(p) PROVE SettledSoFar'
    <2>1. /\ phase = "liquidating" /\ phase' = "liquidating" /\ contracts' = contracts
          /\ closing' = closing \ {p}
      BY <1>7 DEF Liquidate
    <2>2. Held(Put(p)) \in Nat /\ (Held(Put(p)) > 0 => Opened(p) /\ SetsHeld(p) = Held(Put(p)))
      BY <1>0, ClosedOrOpened
    <2>3. CASE /\ book' = book
               /\ ~(p \in contracts /\ Opened(p) /\ SetsHeld(p) > 0)
      <3>1. p \in contracts => Held(Put(p)) = 0
        BY <2>2, <2>3
      <3>2. \A r \in Pairs : Held(Put(r))' = Held(Put(r))
        BY <2>3 DEF Held
      <3>3. QED
        BY <1>0, <2>1, <3>1, <3>2 DEF SettledSoFar
    <2>4. CASE SetsHeld(p) \in Nat \ {0} /\ Sale(p, SetsHeld(p))
      <3>1. \A r \in Pairs : Held(Put(r))' = IF r = p THEN Held(Put(p)) - SetsHeld(p)
                                                      ELSE Held(Put(r))
        BY <1>0, <2>4, SalePuts
      <3>2. SetsHeld(p) = Held(Put(p))
        <4>1. SetsHeld(p) <= Held(Put(p)) /\ SetsHeld(p) > 0 /\ SetsHeld(p) \in Int
          BY <1>0, <2>4, SetsHeldTyping
        <4>2. Held(Put(p)) > 0
          BY <2>2, <4>1
        <4>3. QED
          BY <2>2, <4>2
      <3>3. Held(Put(p))' = 0
        BY <2>2, <3>1, <3>2
      <3>4. QED
        BY <1>0, <2>1, <3>1, <3>3 DEF SettledSoFar
    <2>5. QED
      BY <1>7, <2>3, <2>4, LiquidateStep
  <1>8. CASE Finish
    BY <1>8 DEF Finish, SettledSoFar, Held
  <1>9. CASE UNCHANGED vars
    BY <1>9 DEF vars, SettledSoFar, Held
  <1>10. QED
    BY <1>1, <1>2, <1>3, <1>4, <1>5, <1>6, <1>7, <1>8, <1>9 DEF Next

\* Once the backtest is over, no pair that had ticks on the last day is open,
\* whatever contracts of other sizes shared the ETF with it.
THEOREM SettledAtEndCorrect == Spec => []SettledAtEnd
  <1>1. Init => SettledSoFar
    BY DEF Init, SettledSoFar
  <1>2. Spec => []SettledSoFar
    BY <1>1, SettledNext, InvCorrect, HedgedCorrect, PTL DEF Spec
  <1>3. Inv /\ Hedged(book) /\ SettledSoFar => SettledAtEnd
    <2> SUFFICES ASSUME Inv, Hedged(book), SettledSoFar, phase = "done",
                        NEW p \in contracts
                 PROVE  Held(Call(p)) = 0 /\ Held(Put(p)) = 0
      BY DEF SettledAtEnd
    <2>1. p \in Pairs /\ book \in Book /\ Safe(book)
      BY DEF Inv, StateTyped
    <2>2. Held(Put(p)) = 0
      BY DEF SettledSoFar
    <2>3. Held(Call(p)) \in Int /\ Held(Call(p)) + Held(Put(p)) = 0
      BY <2>1, ClosedOrOpened
    <2>4. QED
      BY <2>2, <2>3
  <1>4. QED
    BY <1>2, <1>3, InvCorrect, HedgedCorrect, PTL

-----------------------------------------------------------------------------
(* Forced closes.                                                          *)

\* A pair that got its forced close of the day is closed, or has the ETF frozen
\* by a purchase of today, or its close waits with prices that can be traded at.
ForcedSoFar ==
    /\ tick = NoTick => forced = {}
    /\ phase = "day" =>
         \A p \in forcedToday : \/ Held(Put(p)) = 0
                                \/ book.etfDay = day
                                \/ p \in forced /\ Quoted(tick.m, p)

LEMMA ForcedHandleClose ==
  ASSUME Inv, Hedged(book), ForcedSoFar, NEW p \in Pairs, NEW isForced \in BOOLEAN,
         HandleClose(p, isForced),
         \A m \in Markets : m.bid < NoAsk /\ \A r \in Pairs : m.q[r].pb < NoAsk
  PROVE  ForcedSoFar'
  <1>1. /\ book \in Book /\ day \in Nat /\ Safe(book) /\ tick.m \in Markets
        /\ forcedToday \subseteq Pairs /\ phase = "day" /\ tick # NoTick
        /\ UNCHANGED <<tick, phase, day, forcedToday>>
    BY ConstantTyping DEF Inv, StateTyped, HandleClose
  <1>2. forced' = IF isForced THEN forced \ {p} ELSE forced
    BY DEF HandleClose
  <1>3. Held(Put(p)) \in Nat /\ (Held(Put(p)) > 0 => Opened(p) /\ SetsHeld(p) = Held(Put(p)))
    BY <1>1, ClosedOrOpened
  <1>4. CASE /\ book' = book
             /\ ~(CloseQty(tick.m, p, isForced) > 0 /\ Sellable(tick.m, p))
    <2>1. \A r \in Pairs : Held(Put(r))' = Held(Put(r))
      BY <1>4 DEF Held
    <2>2. ASSUME isForced, p \in forced, Quoted(tick.m, p)
          PROVE  Held(Put(p)) = 0 \/ book.etfDay = day
      <3>1. SUFFICES ASSUME Held(Put(p)) # 0, book.etfDay # day PROVE FALSE
        OBVIOUS
      <3>2. CloseQty(tick.m, p, isForced) = Held(Put(p)) /\ Held(Put(p)) > 0
        BY <1>3, <2>2, <3>1 DEF CloseQty, Closeable
      <3>3. /\ tick.m.bid \in Nat /\ tick.m.q[p].pb \in Nat /\ tick.m.bid < NoAsk
            /\ tick.m.q[p].pb < NoAsk /\ NoAsk \in Nat
        BY <1>1, SnapshotTyping, BacktestConstantsOK
      <3>4. Sellable(tick.m, p)
        BY <2>2, <3>3 DEF Quoted, Sellable
      <3>5. QED
        BY <1>4, <3>2, <3>4
    <2>3. ASSUME NEW r \in forcedToday
          PROVE  \/ Held(Put(r))' = 0 \/ book.etfDay = day
                 \/ r \in forced' /\ Quoted(tick.m, r)
      <3>1. r \in Pairs /\ (\/ Held(Put(r)) = 0 \/ book.etfDay = day
                            \/ r \in forced /\ Quoted(tick.m, r))
        BY <1>1, <2>3 DEF ForcedSoFar
      <3>2. QED
        BY <1>2, <2>1, <2>2, <3>1
    <2>4. QED
      BY <1>1, <1>4, <2>3 DEF ForcedSoFar, Quoted
  <1>5. ASSUME NEW n \in Nat \ {0}, Sale(p, n), book.etfDay # day,
               n = CloseQty(tick.m, p, isForced)
        PROVE  ForcedSoFar'
    <2>1. /\ \A r \in Pairs : Held(Put(r))' = IF r = p THEN Held(Put(p)) - n
                                                        ELSE Held(Put(r))
          /\ book'.etfDay = book.etfDay
      BY <1>1, <1>5, SalePuts
    <2>2. Held(Put(p)) > 0
      <3>1. n <= SetsHeld(p) /\ SetsHeld(p) \in Int /\ SetsHeld(p) <= Held(Put(p))
        BY <1>1, <1>5, SetsHeldTyping DEF Sale
      <3>2. QED
        BY <1>3, <3>1
    <2>3. isForced => Held(Put(p))' = 0
      <3>1. isForced => n = Held(Put(p))
        BY <1>3, <1>5, <2>2 DEF CloseQty, Closeable
      <3>2. QED
        BY <1>3, <2>1, <3>1
    <2>4. ASSUME NEW r \in forcedToday
          PROVE  \/ Held(Put(r))' = 0
                 \/ r \in forced' /\ Quoted(tick.m, r)
      <3>1. r \in Pairs /\ (Held(Put(r)) = 0 \/ (r \in forced /\ Quoted(tick.m, r)))
        BY <1>1, <1>5, <2>4 DEF ForcedSoFar
      <3>2. CASE r = p
        BY <1>2, <2>2, <2>3, <3>1, <3>2
      <3>3. CASE r # p
        BY <1>2, <2>1, <3>1, <3>3
      <3>4. QED
        BY <3>2, <3>3
    <2>5. QED
      BY <1>1, <2>4 DEF ForcedSoFar, Quoted
  <1>6. QED
    BY <1>4, <1>5, HandleCloseStep

LEMMA ForcedNext ==
  ASSUME \A m \in Markets : m.bid < NoAsk /\ \A r \in Pairs : m.q[r].pb < NoAsk
  PROVE  Inv /\ Hedged(book) /\ ForcedSoFar /\ [Next]_vars => ForcedSoFar'
  <1> SUFFICES ASSUME Inv, Hedged(book), ForcedSoFar, [Next]_vars PROVE ForcedSoFar'
    OBVIOUS
  <1>0. book \in Book /\ day \in Nat
    BY ConstantTyping DEF Inv, StateTyped
  <1>1. ASSUME NEW L \in SUBSET Pairs, StartDay(L) PROVE ForcedSoFar'
    BY <1>1 DEF StartDay, ForcedSoFar
  <1>2. ASSUME NEW m \in Markets, NEW final \in BOOLEAN, Tick(m, final)
        PROVE  ForcedSoFar'
    <2>1. /\ phase = "day" /\ tick = NoTick /\ forced = {}
          /\ forced' = ForcedCloses(m) /\ forcedToday' = forcedToday \cup forced'
          /\ UNCHANGED <<book, day>> /\ tick' = [m |-> m, final |-> final]
      BY <1>2 DEF Tick, ForcedSoFar
    <2>2. tick' # NoTick /\ tick'.m = m
      <3>1. tick' \in [m : Markets, final : BOOLEAN]
        BY <2>1
      <3>2. QED
        BY <2>1, <3>1, BacktestConstantsOK
    <2>3. \A p \in forced' : Quoted(m, p)
      BY <2>1 DEF ForcedCloses
    <2>4. \A p \in forcedToday : Held(Put(p)) = 0 \/ book.etfDay = day
      BY <2>1 DEF ForcedSoFar
    <2>5. \A p \in forcedToday : Held(Put(p))' = 0 \/ book'.etfDay = day'
      BY <2>1, <2>4 DEF Held
    <2>6. \A p \in forced' : Quoted(tick'.m, p)
      BY <2>2, <2>3
    <2>7. QED
      BY <2>1, <2>2, <2>5, <2>6 DEF ForcedSoFar, Quoted
  <1>3. ASSUME NEW p \in Pairs, HandleOpen(p) PROVE ForcedSoFar'
    <2>1. UNCHANGED <<phase, day, tick, forced, forcedToday>>
      BY <1>3 DEF HandleOpen
    <2>2. CASE book' = book
      BY <2>1, <2>2 DEF ForcedSoFar, Held, Quoted
    <2>3. ASSUME NEW n \in Nat \ {0}, Opening(p, n) PROVE ForcedSoFar'
      <3>1. book'.etfDay = day
        BY <1>0, <2>3, OpeningPuts
      <3>2. QED
        BY <2>1, <3>1 DEF ForcedSoFar
    <2>4. QED
      BY <1>3, <2>2, <2>3, HandleOpenStep
  <1>4. ASSUME NEW p \in Pairs, NEW isForced \in BOOLEAN, HandleClose(p, isForced)
        PROVE  ForcedSoFar'
    BY <1>4, ForcedHandleClose
  <1>5. CASE EndTick
    BY <1>5 DEF EndTick, ForcedSoFar, Held, Inv
  <1>6. CASE BeginLiquidation
    BY <1>6 DEF BeginLiquidation, tickVars, ForcedSoFar
  <1>7. ASSUME NEW p \in Pairs, Liquidate(p) PROVE ForcedSoFar'
    BY <1>7 DEF Liquidate, tickVars, ForcedSoFar
  <1>8. CASE Finish
    BY <1>8 DEF Finish, tickVars, ForcedSoFar
  <1>9. CASE UNCHANGED vars
    BY <1>9 DEF vars, tickVars, ForcedSoFar, Held, Quoted
  <1>10. QED
    BY <1>1, <1>2, <1>3, <1>4, <1>5, <1>6, <1>7, <1>8, <1>9 DEF Next

\* A pair whose T+1 close was generated is closed by the end of that tick,
\* unless a purchase has the ETF frozen again, provided no buyer bids the price
\* that stands for "no seller".
THEOREM ForcedMeansClosedCorrect ==
  ASSUME \A m \in Markets : m.bid < NoAsk /\ \A r \in Pairs : m.q[r].pb < NoAsk
  PROVE  Spec => []ForcedMeansClosed
  <1>1. Init => ForcedSoFar
    BY DEF Init, ForcedSoFar
  <1>2. Inv /\ Hedged(book) /\ ForcedSoFar /\ [Next]_vars => ForcedSoFar'
    BY ForcedNext
  <1>3. ForcedSoFar => ForcedMeansClosed
    BY DEF ForcedSoFar, ForcedMeansClosed
  <1>4. QED
    BY <1>1, <1>2, <1>3, InvCorrect, HedgedCorrect, PTL DEF Spec

-----------------------------------------------------------------------------
(* The cap on open sets.                                                   *)

CapKept == MaxOpenSets > 0 => SumOf(PutsIn(book), Pairs) < MaxOpenSets + MaxPerSignal

\* The sets that the shares are worth are no fewer than the puts.
LEMMA PutsWithinShares ==
  ASSUME NEW b \in Book, Safe(b), Hedged(b), \A p \in Pairs : Unit[p] >= CfgUnit
  PROVE  CfgUnit * SumOf(PutsIn(b), Pairs) <= b.pos[Etf].qty
  <1>1. ASSUME NEW p \in Pairs
        PROVE  /\ PutsIn(b)[p] \in Int /\ NeedIn(b)[p] \in Int
               /\ CfgUnit * PutsIn(b)[p] <= NeedIn(b)[p]
    <2> DEFINE q == b.pos[Put(p)].qty
    <2>1. Put(p) \in Codes
      BY CodesDiffer
    <2>2. q \in Int
      BY <2>1, PositionTyping
    <2>3. q >= 0
      BY DEF Safe
    <2>4. Unit[p] \in Nat /\ CfgUnit \in Nat /\ CfgUnit <= Unit[p]
      BY ConstantTyping
    <2>5. PutsIn(b)[p] = q /\ NeedIn(b)[p] = Unit[p] * q
      BY ValuesIn
    <2> HIDE DEF q
    <2>6. q * CfgUnit <= q * Unit[p]
      BY <2>2, <2>3, <2>4, TimesMonotone
    <2>7. CfgUnit * q <= Unit[p] * q /\ Unit[p] * q \in Int
      BY <2>2, <2>4, <2>6
    <2>8. QED
      BY <2>2, <2>5, <2>7
  <1>2. CfgUnit \in Nat
    BY ConstantTyping
  <1>3. CfgUnit * SumOf(PutsIn(b), Pairs) <= SumOf(NeedIn(b), Pairs)
    BY <1>1, <1>2, PairsFinite, SumScaled
  <1>4. QED
    BY <1>3 DEF Hedged

LEMMA CapNext ==
  ASSUME \A p \in Pairs : Unit[p] >= CfgUnit
  PROVE  Inv /\ Hedged(book) /\ CapKept /\ [Next]_vars => CapKept'
  <1> SUFFICES ASSUME Inv, Hedged(book), CapKept, [Next]_vars, MaxOpenSets > 0
               PROVE  SumOf(PutsIn(book'), Pairs) < MaxOpenSets + MaxPerSignal
    BY DEF CapKept
  <1> DEFINE sum == SumOf(PutsIn(book), Pairs)
  <1>0. book \in Book /\ day \in Nat /\ Safe(book)
    BY ConstantTyping DEF Inv, StateTyped
  <1>1. sum \in Int /\ MaxOpenSets \in Nat /\ MaxPerSignal \in Nat
        /\ sum < MaxOpenSets + MaxPerSignal
    BY <1>0, SumsTyping, BacktestConstantsOK DEF CapKept
  <1> HIDE DEF sum
  <1>2. CASE book' = book
    BY <1>1, <1>2 DEF sum
  <1>3. ASSUME NEW p \in Pairs, NEW n \in Nat \ {0}, Sale(p, n)
        PROVE  SumOf(PutsIn(book'), Pairs) < MaxOpenSets + MaxPerSignal
    <2>1. SumOf(PutsIn(book'), Pairs) = sum - n
      BY <1>0, <1>3, SalePuts DEF sum
    <2>2. QED
      BY <1>1, <2>1
  <1>4. ASSUME NEW p \in Pairs, NEW n \in Nat \ {0}, Opening(p, n)
        PROVE  SumOf(PutsIn(book'), Pairs) < MaxOpenSets + MaxPerSignal
    <2>1. SumOf(PutsIn(book'), Pairs) = sum + n
      BY <1>0, <1>4, OpeningPuts DEF sum
    <2>2. n <= MaxPerSignal
      BY <1>0, <1>4, OpenQtyTyping DEF Opening
    <2>3. OpenSets < MaxOpenSets
      BY <1>1, <1>4 DEF Opening, Opens, BelowCap
    <2> DEFINE etf == Held(Etf)
    <2>4. etf \in Int /\ CfgUnit \in Nat \ {0}
      BY <1>0, EtfTyping, ConstantTyping
    <2>5. CfgUnit * sum <= etf
      BY <1>0, PutsWithinShares DEF Held, sum
    <2>6. etf < CfgUnit * MaxOpenSets
      <3> DEFINE y == etf \div CfgUnit
      <3>1. y \in Int /\ etf < y * CfgUnit + CfgUnit
        BY <2>4, DivBounds
      <3>2. CASE etf > 0
        <4>1. y + 1 <= MaxOpenSets
          BY <1>1, <2>3, <3>1, <3>2 DEF OpenSets
        <4> HIDE DEF y, etf
        <4>2. CfgUnit * (y + 1) <= CfgUnit * MaxOpenSets
          BY <1>1, <2>4, <3>1, <4>1, TimesMonotone
        <4>3. CfgUnit * MaxOpenSets \in Int
          BY <1>1, <2>4
        <4>4. QED
          BY <2>4, <3>1, <4>2, <4>3
      <3>3. CASE ~(etf > 0)
        <4> HIDE DEF y, etf
        <4>1. CfgUnit * MaxOpenSets > 0
          BY <1>1, <2>4
        <4>2. CfgUnit * MaxOpenSets \in Int
          BY <1>1, <2>4
        <4>3. QED
          BY <2>4, <3>3, <4>1, <4>2
      <3>4. QED
        BY <3>2, <3>3
    <2> HIDE DEF etf
    <2>7. sum < MaxOpenSets
      <3>1. SUFFICES ASSUME MaxOpenSets <= sum PROVE FALSE
        BY <1>1
      <3>2. CfgUnit * MaxOpenSets <= CfgUnit * sum
        BY <1>1, <2>4, <3>1, TimesMonotone
      <3>3. CfgUnit * MaxOpenSets \in Int /\ CfgUnit * sum \in Int
        BY <1>1, <2>4
      <3>4. QED
        BY <2>4, <2>5, <2>6, <3>2, <3>3
    <2>8. QED
      BY <1>1, <2>1, <2>2, <2>7
  <1>5. QED
    BY <1>2, <1>3, <1>4, BookSteps DEF BookStep

\* Counting open sets by ETF shares overshoots the cap by less than one order,
\* also when contracts of several sizes share the ETF, as long as no contract
\* is smaller than the configured unit (an adjustment only enlarges it).
THEOREM CapOvershootCorrect ==
  ASSUME \A p \in Pairs : Unit[p] >= CfgUnit
  PROVE  Spec => []CapOvershoot
  <1>1. Init => CapKept
    <2> SUFFICES ASSUME Init, MaxOpenSets > 0
                 PROVE  SumOf(PutsIn(book), Pairs) < MaxOpenSets + MaxPerSignal
      BY DEF CapKept
    <2>1. \A c \in Codes : book.pos[c].qty = 0
      BY DEF Init, NewBook, Flat
    <2>2. \A p \in Pairs : PutsIn(book)[p] = 0
      BY <2>1, CodesDiffer, ValuesIn
    <2>3. SumOf(PutsIn(book), Pairs) = 0
      BY <2>2, PairsFinite, SumZero
    <2>4. MaxOpenSets \in Nat /\ MaxPerSignal \in Nat
      BY BacktestConstantsOK
    <2>5. QED
      BY <2>3, <2>4
  <1>2. Inv /\ Hedged(book) /\ CapKept /\ [Next]_vars => CapKept'
    BY CapNext
  <1>3. CapKept => CapOvershoot
    BY SetsOpenIs DEF CapKept, CapOvershoot
  <1>4. QED
    BY <1>1, <1>2, <1>3, InvCorrect, HedgedCorrect, PTL DEF Spec

-----------------------------------------------------------------------------
(* Frozen margin.                                                          *)

MarginAdds(b) == b.totalMargin = SumOf(MarginIn(b), Codes)
ShortsMargined(b) == \A c \in Codes : b.pos[c].qty < 0 => b.pos[c].margin > 0

LEMMA MarginValues ==
  ASSUME NEW b \in Book
  PROVE  /\ \A c \in Codes : MarginIn(b)[c] = b.pos[c].margin /\ MarginIn(b)[c] \in Int
         /\ SumOf(MarginIn(b), Codes) \in Int
  <1>1. \A c \in Codes : MarginIn(b)[c] = b.pos[c].margin /\ MarginIn(b)[c] \in Int
    BY PositionTyping DEF MarginIn
  <1>2. SumOf(MarginIn(b), Codes) \in Int
    BY <1>1, CodesFinite, SumType
  <1>3. QED
    BY <1>1, <1>2

\* A trade changes the total and the margin of its own code by as much.
LEMMA BookedMargin ==
  ASSUME NEW b \in Book, MarginAdds(b), NEW t \in Trade, NEW d \in Nat
  PROVE  MarginAdds(Booked(b, t, d))
  <1> DEFINE after == Booked(b, t, d)
  <1>1. /\ after \in Book /\ Frozen(b, t) \in Int /\ t.code \in Codes
        /\ after.pos[t.code].margin = b.pos[t.code].margin + Frozen(b, t)
        /\ \A c \in Codes \ {t.code} : after.pos[c] = b.pos[c]
        /\ after.totalMargin = b.totalMargin + Frozen(b, t)
    BY BookedTyping DEF Trade
  <1> HIDE DEF after
  <1>2. /\ \A c \in Codes : MarginIn(b)[c] = b.pos[c].margin /\ MarginIn(b)[c] \in Int
        /\ SumOf(MarginIn(b), Codes) \in Int
    BY MarginValues
  <1>3. /\ \A c \in Codes : MarginIn(after)[c] = after.pos[c].margin
        /\ \A c \in Codes : MarginIn(after)[c] \in Int
    BY <1>1, MarginValues
  <1>4. \A c \in Codes : c # t.code => MarginIn(after)[c] = MarginIn(b)[c]
    BY <1>1, <1>2, <1>3
  <1>5. SumOf(MarginIn(after), Codes) =
          SumOf(MarginIn(b), Codes) + MarginIn(after)[t.code] - MarginIn(b)[t.code]
    BY <1>1, <1>2, <1>3, <1>4, CodesFinite, SumChange
  <1>6. MarginIn(after)[t.code] = MarginIn(b)[t.code] + Frozen(b, t)
        /\ MarginIn(b)[t.code] \in Int
    BY <1>1, <1>2, <1>3
  <1>7. SumOf(MarginIn(after), Codes) = SumOf(MarginIn(b), Codes) + Frozen(b, t)
    BY <1>1, <1>2, <1>5, <1>6
  <1>8. MarginAdds(after)
    BY <1>1, <1>7 DEF MarginAdds
  <1>9. QED
    BY <1>8 DEF after

LEMMA OrderMargin ==
  ASSUME NEW b \in Book, MarginAdds(b), NEW d \in Nat, NEW legs,
         legs[1] \in Trade, legs[2] \in Trade, legs[3] \in Trade
  PROVE  MarginAdds(ProcessTrades(b, legs, d))
  <1> DEFINE b1 == Booked(b, legs[1], d)
             b2 == Booked(b1, legs[2], d)
             b3 == Booked(b2, legs[3], d)
  <1>1. b1 \in Book /\ MarginAdds(b1)
    BY BookedTyping, BookedMargin
  <1> HIDE DEF b1
  <1>2. b2 \in Book /\ MarginAdds(b2)
    BY <1>1, BookedTyping, BookedMargin
  <1> HIDE DEF b2
  <1>3. MarginAdds(b3)
    BY <1>2, BookedMargin
  <1>4. QED
    BY <1>3 DEF ProcessTrades, b1, b2

\* The floor of the margin covers the slippage a call may be sold below its bid.
LEMMA MarginPositive ==
  ASSUME NEW p \in Pairs, NEW price \in Int, price + RiskFloor > 0
  PROVE  Margin(p, price) \in Int /\ Margin(p, price) > 0
  <1> DEFINE otm == Greater(Strike[p] - LastClose, 0)
             x == (Risk - otm) * CfgUnit
             y == RiskFloor * CfgUnit
             z == price * CfgUnit
  <1>1. otm \in Int /\ RiskFloor \in Int /\ CfgUnit \in Nat \ {0}
    BY ConstantTyping DEF Greater
  <1>2. x \in Int /\ y \in Int /\ z \in Int
    BY <1>1, ConstantTyping
  <1>3. z + y = CfgUnit * (price + RiskFloor)
    BY <1>1
  <1>4. CfgUnit * (price + RiskFloor) > 0
    BY <1>1
  <1>5. Margin(p, price) = z + Greater(x, y)
    BY DEF Margin
  <1> HIDE DEF x, y, z
  <1>6. Greater(x, y) \in Int /\ Greater(x, y) >= y
    BY <1>2 DEF Greater
  <1>7. z + y > 0
    BY <1>3, <1>4
  <1>8. QED
    BY <1>2, <1>5, <1>6, <1>7

LEMMA ShareBelow ==
  ASSUME NEW total \in Nat \ {0}, NEW whole \in Nat \ {0}, NEW part \in Nat, part < whole
  PROVE  Share(total, part, whole) \in Int /\ Share(total, part, whole) < total
  <1> DEFINE x == total * part
             s == x \div whole
  <1>1. x \in Int /\ x < total * whole /\ total * whole \in Int
    <2>1. part + 1 <= whole /\ part + 1 \in Int
      OBVIOUS
    <2>2. total * (part + 1) <= total * whole
      BY <2>1, TimesMonotone
    <2>3. total * (part + 1) = x + total /\ x \in Int /\ total * whole \in Int
      OBVIOUS
    <2>4. QED
      BY <2>2, <2>3
  <1>2. s \in Int /\ s * whole <= x
    BY <1>1, DivBounds
  <1> HIDE DEF x
  <1>3. s < total
    <2>1. SUFFICES ASSUME total <= s PROVE FALSE
      BY <1>2
    <2> HIDE DEF s
    <2>2. whole * total <= whole * s
      BY <1>2, <2>1, TimesMonotone
    <2>3. whole * total = total * whole /\ whole * s = s * whole /\ whole * s \in Int
      BY <1>2
    <2>4. QED
      BY <1>1, <1>2, <2>2, <2>3
  <1>4. QED
    BY <1>2, <1>3 DEF Share, x

LEMMA OpeningShorts ==
  ASSUME RiskFloor >= OptSlip, book \in Book, Safe(book), ShortsMargined(book),
         day \in Nat, NEW p \in Pairs, NEW n \in Nat \ {0}, Opening(p, n)
  PROVE  ShortsMargined(book')
  <1> DEFINE m == tick.m
             legs == OpenLegs(m, p, n)
             price == m.q[p].cb - OptSlip
  <1>1. m \in Markets /\ book' = ProcessTrades(book, legs, day) /\ m.q[p].cb > 0
    BY DEF Opening, Opens, Takeable
  <1>2. Buys(p, n, n * Unit[p], legs) /\ n * Unit[p] \in Nat \ {0}
    BY <1>1, OpenLegsTyping
  <1>3. legs[3].margin = Margin(p, price) * n
    BY <1>1, CashNeededIsPaid
  <1>4. price \in Int /\ price + RiskFloor > 0
    BY <1>1, SnapshotTyping, ConstantTyping
  <1> HIDE DEF m, price
  <1>5. legs[3].margin \in Int /\ legs[3].margin > 0
    <2> DEFINE k == Margin(p, price)
    <2>1. k \in Int /\ k > 0
      BY <1>4, MarginPositive
    <2> HIDE DEF k
    <2>2. k * n \in Int /\ k * n > 0
      BY <2>1
    <2>3. QED
      BY <1>3, <2>2 DEF k
  <1> HIDE DEF legs
  <1>6. Safe(book') /\ book' \in Book
    BY <1>1, <1>2, OpeningIsSafe DEF BoughtInto
  <1>7. /\ legs[3].code = Call(p) /\ legs[3].dir = -1 /\ legs[3] \in Trade
        /\ OrderOn(p, legs) /\ legs[1].code = Etf /\ legs[2].code = Put(p)
    BY <1>2 DEF Buys, OrderOn
  <1>8. Settles(book, day, p, legs, book')
    BY <1>1, <1>7, ProcessTradesTyping
  <1>9. /\ book'.pos[Call(p)].margin = book.pos[Call(p)].margin + Frozen(book, legs[3])
        /\ \A c \in Codes \ {Etf, Put(p), Call(p)} : book'.pos[c] = book.pos[c]
    <2>1. 3 \in 1 .. 3
      OBVIOUS
    <2>2. QED
      BY <1>7, <1>8, <2>1 DEF Settles
  <1>10. Frozen(book, legs[3]) = legs[3].margin
    <2>1. Greater(legs[3].margin, 0) = legs[3].margin
      BY <1>5 DEF Greater
    <2>2. QED
      BY <1>7, <2>1, FrozenTyping
  <1>11. book'.pos[Call(p)].margin > 0
    <2>1. book.pos[Call(p)].margin \in Nat
      BY CodesDiffer, PositionTyping
    <2>2. QED
      BY <1>5, <1>9, <1>10, <2>1
  <1>12. ASSUME NEW c \in Codes, book'.pos[c].qty < 0 PROVE book'.pos[c].margin > 0
    <2>1. CASE c = Call(p)
      BY <1>11, <2>1
    <2>2. CASE c = Etf \/ c = Put(p)
      <3>1. book'.pos[c].qty >= 0 /\ book'.pos[c].qty \in Int
        BY <1>6, <2>2, CodesDiffer, PositionTyping DEF Safe
      <3>2. QED
        BY <1>12, <3>1
    <2>3. CASE c \notin {Etf, Put(p), Call(p)}
      BY <1>9, <1>12, <2>3 DEF ShortsMargined
    <2>4. QED
      BY <2>1, <2>2, <2>3
  <1>13. QED
    BY <1>12 DEF ShortsMargined

LEMMA SaleShorts ==
  ASSUME book \in Book, Safe(book), ShortsMargined(book),
         day \in Nat, NEW p \in Pairs, NEW n \in Nat \ {0}, Sale(p, n)
  PROVE  ShortsMargined(book')
  <1>1. PICK x, y, z \in Int :
           book' = ProcessTrades(book, CloseLegs(p, n, x, y, z), day)
    BY DEF Sale
  <1> DEFINE legs == CloseLegs(p, n, x, y, z)
  <1>2. Sells(p, n, n * Unit[p], legs)
    BY CloseLegsTyping
  <1>3. book' = ProcessTrades(book, legs, day)
    BY <1>1
  <1> HIDE DEF legs
  <1>4. Safe(book') /\ book' \in Book
    BY <1>1, SaleIsSafe DEF Sale
  <1>5. /\ legs[3].code = Call(p) /\ legs[3].dir = 1 /\ legs[3] \in Trade
        /\ legs[3].qty = n /\ legs[3].margin = 0 /\ OrderOn(p, legs)
    BY <1>2 DEF Sells, OrderOn
  <1>6. Settles(book, day, p, legs, book')
    BY <1>3, <1>5, ProcessTradesTyping
  <1>7. /\ book'.pos[Call(p)].margin = book.pos[Call(p)].margin + Frozen(book, legs[3])
        /\ book'.pos[Call(p)].qty = book.pos[Call(p)].qty + 1 * n
        /\ \A c \in Codes \ {Etf, Put(p), Call(p)} : book'.pos[c] = book.pos[c]
    <2>1. 3 \in 1 .. 3
      OBVIOUS
    <2>2. QED
      BY <1>5, <1>6, <2>1 DEF Settles
  <1> DEFINE q == book.pos[Call(p)].qty
             k == book.pos[Call(p)].margin
  <1>8. q \in Int /\ k \in Nat /\ IsOption(Call(p))
    BY CodesDiffer, PositionTyping
  <1>9. q < 0 => k > 0
    BY CodesDiffer DEF ShortsMargined
  <1>10. Frozen(book, legs[3]) = -Released(book.pos[Call(p)], legs[3])
    BY <1>5, FrozenTyping
  <1>11. ASSUME q + n < 0
         PROVE  /\ Released(book.pos[Call(p)], legs[3]) \in Int
                /\ Released(book.pos[Call(p)], legs[3]) < k
    <2>1. q < 0 /\ k > 0 /\ k \in Nat \ {0}
      BY <1>8, <1>9, <1>11
    <2>2. AbsOf(q) = -q /\ AbsOf(q) \in Nat \ {0} /\ n < AbsOf(q)
      BY <1>8, <1>11, <2>1 DEF AbsOf
    <2>3. Lesser(n, AbsOf(q)) = n
      BY <2>2 DEF Lesser
    <2>4. Released(book.pos[Call(p)], legs[3]) = Share(k, n, AbsOf(q))
      BY <1>5, <1>8, <2>1, <2>3 DEF Released
    <2> HIDE DEF q, k
    <2>5. Share(k, n, AbsOf(q)) \in Int /\ Share(k, n, AbsOf(q)) < k
      BY <2>1, <2>2, ShareBelow
    <2>6. QED
      BY <2>4, <2>5
  <1>12. book'.pos[Call(p)].qty < 0 => book'.pos[Call(p)].margin > 0
    <2> DEFINE r == Released(book.pos[Call(p)], legs[3])
    <2>1. /\ book'.pos[Call(p)].qty = q + n
          /\ book'.pos[Call(p)].margin = k + (-r)
      BY <1>7, <1>8, <1>10
    <2>2. q + n < 0 => r \in Int /\ r < k
      BY <1>11
    <2> HIDE DEF q, k, r
    <2>3. q + n < 0 => k + (-r) > 0
      BY <1>8, <2>2
    <2>4. QED
      BY <2>1, <2>3
  <1>13. ASSUME NEW c \in Codes, book'.pos[c].qty < 0 PROVE book'.pos[c].margin > 0
    <2>1. CASE c = Call(p)
      BY <1>12, <1>13, <2>1
    <2>2. CASE c = Etf \/ c = Put(p)
      <3>1. book'.pos[c].qty >= 0 /\ book'.pos[c].qty \in Int
        BY <1>4, <2>2, CodesDiffer, PositionTyping DEF Safe
      <3>2. QED
        BY <1>13, <3>1
    <2>3. CASE c \notin {Etf, Put(p), Call(p)}
      BY <1>7, <1>13, <2>3 DEF ShortsMargined
    <2>4. QED
      BY <2>1, <2>2, <2>3
  <1>14. QED
    BY <1>13 DEF ShortsMargined

LEMMA MarginNext ==
  ASSUME RiskFloor >= OptSlip
  PROVE  Inv /\ MarginAdds(book) /\ ShortsMargined(book) /\ [Next]_vars
           => MarginAdds(book)' /\ ShortsMargined(book)'
  <1> SUFFICES ASSUME Inv, MarginAdds(book), ShortsMargined(book), [Next]_vars
               PROVE  MarginAdds(book') /\ ShortsMargined(book')
    OBVIOUS
  <1>0. book \in Book /\ day \in Nat /\ Safe(book)
    BY ConstantTyping DEF Inv, StateTyped
  <1>1. CASE book' = book
    BY <1>1
  <1>2. ASSUME NEW p \in Pairs, NEW n \in Nat \ {0}, Opening(p, n)
        PROVE  MarginAdds(book') /\ ShortsMargined(book')
    <2>1. Buys(p, n, n * Unit[p], OpenLegs(tick.m, p, n))
      BY <1>2, OpenLegsTyping DEF Opening
    <2>2. MarginAdds(book')
      BY <1>0, <1>2, <2>1, OrderMargin DEF Opening, Buys, OrderOn
    <2>3. QED
      BY <1>0, <1>2, <2>2, OpeningShorts
  <1>3. ASSUME NEW p \in Pairs, NEW n \in Nat \ {0}, Sale(p, n)
        PROVE  MarginAdds(book') /\ ShortsMargined(book')
    <2>1. PICK x, y, z \in Int :
             book' = ProcessTrades(book, CloseLegs(p, n, x, y, z), day)
      BY <1>3 DEF Sale
    <2>2. Sells(p, n, n * Unit[p], CloseLegs(p, n, x, y, z))
      BY CloseLegsTyping
    <2>3. MarginAdds(book')
      BY <1>0, <2>1, <2>2, OrderMargin DEF Sells, OrderOn
    <2>4. QED
      BY <1>0, <1>3, <2>3, SaleShorts
  <1>4. QED
    BY <1>1, <1>2, <1>3, BookSteps DEF BookStep

\* The margin the portfolio believes frozen is what its positions hold, and it
\* is held by the open shorts, each of which has some: for any sequence of
\* partial closes, each rounded down, if the floor of the margin is no less than
\* the slippage that lowers the price of the call sold.
THEOREM MarginLedgerCorrect ==
  ASSUME RiskFloor >= OptSlip
  PROVE  Spec => []MarginLedger
  <1>1. Init => MarginAdds(book) /\ ShortsMargined(book)
    <2> SUFFICES ASSUME Init PROVE MarginAdds(book) /\ ShortsMargined(book)
      OBVIOUS
    <2>1. \A c \in Codes : book.pos[c].qty = 0 /\ book.pos[c].margin = 0
      BY DEF Init, NewBook, Flat
    <2>2. book.totalMargin = 0
      BY DEF Init, NewBook
    <2>3. \A c \in Codes : MarginIn(book)[c] = 0
      BY <2>1 DEF MarginIn
    <2>4. SumOf(MarginIn(book), Codes) = 0
      BY <2>3, CodesFinite, SumZero
    <2>5. QED
      BY <2>1, <2>2, <2>4 DEF MarginAdds, ShortsMargined
  <1>2. Inv /\ MarginAdds(book) /\ ShortsMargined(book) /\ [Next]_vars
          => MarginAdds(book)' /\ ShortsMargined(book)'
    BY MarginNext
  <1>3. MarginAdds(book) /\ ShortsMargined(book) /\ MarginOnShorts => MarginLedger
    BY FrozenMarginIs DEF MarginAdds, ShortsMargined, MarginLedger, Held
  <1>4. QED
    BY <1>1, <1>2, <1>3, InvCorrect, MarginOnShortsCorrect, PTL DEF Spec

-----------------------------------------------------------------------------
(* The equity curve.                                                       *)

\* A code of Codes has its multiplier.
LEMMA MultTyping ==
  ASSUME NEW c \in Codes
  PROVE  MultOf(c) \in Nat /\ (IsOption(c) => MultOf(c) = Unit[c[2]])
  <1>1. IsOption(c) => c[2] \in Pairs
    BY DEF Codes, IsOption, Call, Put
  <1>2. QED
    BY <1>1, ConstantTyping DEF MultOf

LEMMA MarketValueTyping ==
  ASSUME book \in Book, NEW prices \in [Codes -> Nat]
  PROVE  MarketValue(prices) \in Int
  <1> DEFINE f == [c \in Codes |-> ValueOf(prices, c)]
  <1>1. ASSUME NEW c \in Codes PROVE ValueOf(prices, c) \in Int
    <2>1. Held(c) \in Int /\ book.pos[c].cost \in Int
      BY PositionTyping DEF Held
    <2>2. PriceOf(prices, c) \in Int
      <3>1. prices[c] * AbsOf(Held(c)) \in Int
        BY <2>1, AbsBounds
      <3>2. QED
        BY <2>1, <3>1 DEF PriceOf
    <2> DEFINE sign == IF Held(c) > 0 THEN 1 ELSE -1
               unit == IF IsOption(c) /\ c[2] \notin contracts THEN CfgUnit ELSE MultOf(c)
               price == PriceOf(prices, c)
    <2>3. sign \in Int /\ unit \in Int /\ price \in Int
      BY <2>2, MultTyping, ConstantTyping
    <2>4. ValueOf(prices, c) = IF Held(c) = 0 THEN 0 ELSE sign * price * unit
      BY DEF ValueOf
    <2> HIDE DEF sign, unit, price
    <2>5. sign * price * unit \in Int
      BY <2>3
    <2>6. QED
      BY <2>4, <2>5
  <1>2. \A c \in Codes : f[c] \in Int
    BY <1>1
  <1> HIDE DEF f
  <1>3. SumOf(f, Codes) \in Int
    BY <1>2, CodesFinite, SumType
  <1>4. QED
    BY <1>3, MarketValueIs DEF f

CurveTyped == equity \in Int

LEMMA EquityNext == Inv /\ CurveTyped /\ [Next]_vars => CurveTyped'
  <1> SUFFICES ASSUME Inv, equity \in Int, [Next]_vars PROVE equity' \in Int
    BY DEF CurveTyped
  <1>1. CASE EndTick
    <2> DEFINE prices == [cache EXCEPT ![tick.m.code] = tick.m.last]
    <2>1. tick.m \in Markets /\ cache \in [Codes -> Nat] /\ book \in Book
      BY <1>1 DEF Inv, StateTyped, EndTick
    <2>2. prices \in [Codes -> Nat]
      BY <2>1, SnapshotTyping
    <2>3. equity' = equity \/ equity' = book.cash + MarketValue(prices)
      BY <1>1 DEF EndTick
    <2> HIDE DEF prices
    <2>4. MarketValue(prices) \in Int /\ book.cash \in Int
      BY <2>1, <2>2, MarketValueTyping DEF Book
    <2>5. QED
      BY <2>3, <2>4
  <1>2. CASE ~EndTick
    BY <1>2 DEF Next, StartDay, Tick, HandleOpen, HandleClose, BeginLiquidation,
                Liquidate, Finish, vars
  <1>3. QED
    BY <1>1, <1>2

\* All variables are typed, the equity curve and every position included.
THEOREM TypeOKCorrect == Spec => []TypeOK
  <1>1. Init => CurveTyped
    BY BacktestConstantsOK DEF Init, CurveTyped
  <1>2. Spec => []CurveTyped
    BY <1>1, EquityNext, InvCorrect, PTL DEF Spec
  <1>3. StateTyped /\ CurveTyped => TypeOK
    BY DEF TypeOK, CurveTyped
  <1>4. QED
    BY <1>2, <1>3, StateTypedCorrect, PTL

-----------------------------------------------------------------------------
(* The cash.                                                               *)

\* What a position has earned, its realised P&L scaled to its contract.
Scaled(x, c) == IF IsOption(c) THEN (x.realized * Unit[c[2]]) \div CfgUnit
                               ELSE x.realized
Sign(q) == IF q > 0 THEN -1 ELSE 1
EarnedBy(x, c) == Sign(x.qty) * x.cost * MultOf(c) + Scaled(x, c)

\* A flat position has no cost left, and the P&L of an option comes in whole
\* configured units, so that scaling it is exact.
Sound(x, c) ==
    /\ x.qty = 0 => x.cost = 0
    /\ IsOption(c) => \E r \in Int : x.realized = r * CfgUnit

LEMMA EarnedIs == \A c \in Codes : Earned(c) = EarnedBy(book.pos[c], c)
  BY DEF Earned, EarnedBy, Scaled, Sign

LEMMA DivExact ==
  ASSUME NEW r \in Int, NEW w \in Nat \ {0}
  PROVE  (r * w) \div w = r
  <1> DEFINE x == r * w
             y == x \div w
  <1>1. x \in Int
    OBVIOUS
  <1>2. y \in Int /\ y * w <= x /\ x < y * w + w
    BY <1>1, DivBounds
  <1> HIDE DEF y
  <1>3. r <= y
    <2>1. SUFFICES ASSUME y + 1 <= r PROVE FALSE
      BY <1>2
    <2>2. w * (y + 1) <= w * r
      BY <1>2, <2>1, TimesMonotone
    <2>3. QED
      BY <1>1, <1>2, <2>2
  <1>4. y <= r
    <2>1. SUFFICES ASSUME r + 1 <= y PROVE FALSE
      BY <1>2
    <2>2. w * (r + 1) <= w * y
      BY <1>2, <2>1, TimesMonotone
    <2>3. QED
      BY <1>1, <1>2, <2>2
  <1>5. QED
    BY <1>2, <1>3, <1>4 DEF y

\* Scaling the P&L that a trade adds.
LEMMA ScaledAdds ==
  ASSUME NEW c \in Codes, NEW x \in Position, NEW y \in Position, NEW gain \in Int,
         Sound(x, c),
         y.realized = x.realized + (IF IsOption(c) THEN CfgUnit ELSE 1) * gain
  PROVE  /\ Scaled(x, c) \in Int
         /\ Scaled(y, c) = Scaled(x, c) + gain * MultOf(c)
         /\ IsOption(c) => \E r \in Int : y.realized = r * CfgUnit
  <1>1. x.realized \in Int /\ y.realized \in Int
    BY DEF Position
  <1>2. CASE IsOption(c)
    <2> DEFINE u == Unit[c[2]]
               k == CfgUnit
    <2>1. u \in Nat /\ MultOf(c) = u /\ k \in Nat \ {0}
      BY <1>2, MultTyping, ConstantTyping
    <2>2. PICK r \in Int : x.realized = r * k
      BY <1>2 DEF Sound
    <2>3. y.realized = x.realized + k * gain
      BY <1>2
    <2>4. /\ Scaled(x, c) = (x.realized * u) \div k
          /\ Scaled(y, c) = (y.realized * u) \div k
      BY <1>2 DEF Scaled
    <2> HIDE DEF u, k
    <2>5. y.realized = (r + gain) * k
      BY <2>1, <2>2, <2>3
    <2>6. x.realized * u = (r * u) * k /\ r * u \in Int
      BY <2>1, <2>2
    <2>7. y.realized * u = ((r + gain) * u) * k /\ (r + gain) * u \in Int
      BY <2>1, <2>5
    <2>8. Scaled(x, c) = r * u
      <3> DEFINE a == r * u
      <3>1. a \in Int /\ Scaled(x, c) = (a * k) \div k
        BY <2>4, <2>6
      <3> HIDE DEF a
      <3>2. Scaled(x, c) = a
        BY <2>1, <3>1, DivExact
      <3>3. QED
        BY <3>2 DEF a
    <2>9. Scaled(y, c) = (r + gain) * u
      <3> DEFINE a == (r + gain) * u
      <3>1. a \in Int /\ Scaled(y, c) = (a * k) \div k
        BY <2>4, <2>7
      <3> HIDE DEF a
      <3>2. Scaled(y, c) = a
        BY <2>1, <3>1, DivExact
      <3>3. QED
        BY <3>2 DEF a
    <2>10. (r + gain) * u = r * u + gain * u
      BY <2>1
    <2>11. r + gain \in Int
      OBVIOUS
    <2>12. \E s \in Int : y.realized = s * k
      BY <2>5, <2>11
    <2>13. QED
      BY <2>1, <2>6, <2>8, <2>9, <2>10, <2>12 DEF k
  <1>3. CASE ~IsOption(c)
    BY <1>1, <1>3 DEF Scaled, MultOf
  <1>4. QED
    BY <1>2, <1>3

\* A trade that does not turn the position round.
Within(x, t) == \/ x.qty >= 0 /\ t.dir = 1
                \/ x.qty <= 0 /\ t.dir = -1
                \/ x.qty > 0 /\ t.dir = -1 /\ t.qty <= x.qty
                \/ x.qty < 0 /\ t.dir = 1 /\ t.qty <= -x.qty

LEMMA Arithmetic ==
  ASSUME NEW c \in Int, NEW w \in Int, NEW h \in Int, NEW u \in Int, NEW s \in Int
  PROVE  /\ (-1) * (c + w) * u + s = ((-1) * c * u + s) - w * u
         /\ 1 * (c + w) * u + s = (1 * c * u + s) + w * u
         /\ (-1) * (c - h) * u + (s + (w - h) * u) = ((-1) * c * u + s) + w * u
         /\ 1 * (c - h) * u + (s + (h - w) * u) = (1 * c * u + s) - w * u
  OBVIOUS

LEMMA PaidFor ==
  ASSUME NEW t \in Trade
  PROVE  /\ t.price * t.qty \in Int
         /\ t.dir = 1 => t.dir * t.price * t.qty * t.mult = (t.price * t.qty) * t.mult
         /\ t.dir = -1 => t.dir * t.price * t.qty * t.mult = -((t.price * t.qty) * t.mult)
         /\ (t.price * t.qty) * t.mult \in Int
  <1>1. t.price \in Int /\ t.qty \in Int /\ t.mult \in Int
    BY DEF Trade
  <1> DEFINE a == t.price
             b == t.qty
             e == t.mult
  <1>2. a \in Int /\ b \in Int /\ e \in Int
    BY <1>1
  <1> HIDE DEF a, b, e
  <1>3. /\ a * b \in Int /\ (a * b) * e \in Int
        /\ 1 * a * b * e = (a * b) * e /\ (-1) * a * b * e = -((a * b) * e)
    BY <1>2
  <1>4. QED
    BY <1>3 DEF a, b, e

LEMMA ExtendEarns ==
  ASSUME NEW x \in Position, NEW t \in Trade, Sound(x, t.code), t.mult = MultOf(t.code),
         (x.qty >= 0 /\ t.dir = 1) \/ (x.qty <= 0 /\ t.dir = -1)
  PROVE  /\ Sound(Moved(x, t), t.code)
         /\ EarnedBy(Moved(x, t), t.code) =
              EarnedBy(x, t.code) - t.dir * t.price * t.qty * t.mult
  <1> DEFINE y == Moved(x, t)
             u == t.mult
             w == t.price * t.qty
             s == Scaled(x, t.code)
  <1>1. /\ x.qty \in Int /\ x.cost \in Int /\ t.qty \in Nat \ {0} /\ t.code \in Codes
        /\ u \in Int /\ w \in Int /\ t.dir \in {1, -1}
        /\ x.realized \in Int
    BY PaidFor DEF Position, Trade
  <1>2. x.realized = x.realized + (IF IsOption(t.code) THEN CfgUnit ELSE 1) * 0
    BY <1>1, ConstantTyping
  <1>3. s \in Int
    BY <1>1, <1>2, ScaledAdds
  <1>4. /\ y.qty = x.qty + t.dir * t.qty /\ y.cost = x.cost + w
        /\ y.realized = x.realized
    <2>1. (x.qty >= 0 /\ t.dir * t.qty > 0) \/ (x.qty <= 0 /\ t.dir * t.qty < 0)
      BY <1>1
    <2>2. y = [x EXCEPT !.qty = @ + t.dir * t.qty, !.cost = @ + t.price * t.qty]
      BY <2>1 DEF Moved
    <2>3. QED
      BY <2>2 DEF Position
  <1>5. Scaled(y, t.code) = s
    BY <1>4 DEF Scaled
  <1> DEFINE c == x.cost
  <1>6. c \in Int
    BY <1>1
  <1>7. EarnedBy(x, t.code) = Sign(x.qty) * c * u + s
    BY DEF EarnedBy
  <1>8. EarnedBy(y, t.code) = Sign(y.qty) * (c + w) * u + s
    BY <1>4, <1>5 DEF EarnedBy
  <1>9. x.qty = 0 => c = 0
    BY DEF Sound
  <1>10. Sound(y, t.code)
    <2>1. y.qty # 0
      BY <1>1, <1>4
    <2>2. QED
      BY <1>4, <2>1 DEF Sound
  <1> HIDE DEF y, u, w, s, c
  <1>11. CASE t.dir = 1
    <2>1. Sign(y.qty) = -1
      <3>1. x.qty >= 0
        BY <1>1, <1>11
      <3>2. y.qty = x.qty + t.qty
        BY <1>1, <1>4, <1>11
      <3>3. y.qty > 0
        BY <1>1, <3>1, <3>2
      <3>4. QED
        BY <3>3, Zenon DEF Sign
    <2>2. Sign(x.qty) * c * u = (-1) * c * u
      <3>1. CASE x.qty > 0
        BY <3>1 DEF Sign
      <3>2. CASE x.qty = 0
        <4>1. Sign(x.qty) * 0 * u = 0 /\ (-1) * 0 * u = 0
          BY <1>1, <3>2 DEF Sign
        <4>2. QED
          BY <1>9, <3>2, <4>1
      <3>3. QED
        BY <1>1, <1>11, <3>1, <3>2
    <2>3. (-1) * (c + w) * u + s = ((-1) * c * u + s) - w * u
      BY <1>1, <1>3, <1>6, Arithmetic
    <2>4. t.dir * t.price * t.qty * t.mult = w * u
      BY <1>11, PaidFor DEF w, u
    <2>5. EarnedBy(y, t.code) = EarnedBy(x, t.code) - w * u
      BY <1>7, <1>8, <2>1, <2>2, <2>3
    <2>6. QED
      BY <1>10, <2>4, <2>5 DEF y
  <1>12. CASE t.dir = -1
    <2>1. Sign(y.qty) = 1 /\ Sign(x.qty) = 1
      BY <1>1, <1>4, <1>12 DEF Sign
    <2>2. 1 * (c + w) * u + s = (1 * c * u + s) + w * u
      BY <1>1, <1>3, <1>6, Arithmetic
    <2>3. t.dir * t.price * t.qty * t.mult = -(w * u) /\ w * u \in Int
      BY <1>12, PaidFor DEF w, u
    <2>4. 1 * c * u + s \in Int
      BY <1>1, <1>3, <1>6
    <2>5. EarnedBy(y, t.code) = EarnedBy(x, t.code) + w * u
          /\ EarnedBy(x, t.code) \in Int
      BY <1>7, <1>8, <2>1, <2>2, <2>4
    <2>6. EarnedBy(y, t.code) = EarnedBy(x, t.code) - (-(w * u))
      BY <2>3, <2>5
    <2>7. QED
      BY <1>10, <2>3, <2>6 DEF y
  <1>13. QED
    BY <1>1, <1>11, <1>12

LEMMA ShareOfWhole ==
  ASSUME NEW total \in Int, NEW whole \in Nat \ {0}
  PROVE  Share(total, whole, whole) = total
  BY DivExact DEF Share

LEMMA ReduceEarns ==
  ASSUME NEW x \in Position, NEW t \in Trade, Sound(x, t.code), t.mult = MultOf(t.code),
         \/ x.qty > 0 /\ t.dir = -1 /\ t.qty <= x.qty
         \/ x.qty < 0 /\ t.dir = 1 /\ t.qty <= -x.qty
  PROVE  /\ Sound(Moved(x, t), t.code)
         /\ EarnedBy(Moved(x, t), t.code) =
              EarnedBy(x, t.code) - t.dir * t.price * t.qty * t.mult
  <1> DEFINE y == Moved(x, t)
             u == t.mult
             w == t.price * t.qty
             s == Scaled(x, t.code)
             c == x.cost
             h == Share(c, t.qty, AbsOf(x.qty))
             g == IF t.dir = 1 THEN h - w ELSE w - h
             unit == IF IsOption(t.code) THEN CfgUnit ELSE 1
  <1>1. /\ x.qty \in Int /\ c \in Int /\ t.qty \in Nat \ {0} /\ t.code \in Codes
        /\ u \in Int /\ w \in Int /\ t.dir \in {1, -1} /\ x.realized \in Int
        /\ unit \in Nat
    BY PaidFor, ConstantTyping DEF Position, Trade
  <1>2. AbsOf(x.qty) \in Nat \ {0} /\ t.qty <= AbsOf(x.qty)
    BY <1>1 DEF AbsOf
  <1>3. h \in Int /\ (t.qty = AbsOf(x.qty) => h = c)
    <2>1. t.qty \in Int /\ c \in Int
      BY <1>1
    <2> HIDE DEF c
    <2>2. Share(c, t.qty, AbsOf(x.qty)) \in Int
      BY <1>2, <2>1, ShareIsInt
    <2>3. Share(c, AbsOf(x.qty), AbsOf(x.qty)) = c
      BY <1>2, <2>1, ShareOfWhole
    <2>4. QED
      BY <2>2, <2>3
  <1>4. Lesser(AbsOf(x.qty), t.qty) = t.qty
    BY <1>1, <1>2 DEF Lesser
  <1>5. /\ y.qty = x.qty + t.dir * t.qty /\ y.cost = c - h
        /\ y.realized = x.realized + unit * (-t.dir * (w - h))
    <2>1. ~((x.qty >= 0 /\ t.dir * t.qty > 0) \/ (x.qty <= 0 /\ t.dir * t.qty < 0))
      BY <1>1
    <2>2. y = [x EXCEPT !.qty = @ + t.dir * t.qty, !.cost = CostLeft(x, t, t.qty),
                        !.realized = @ + unit * (-t.dir * (w - h))]
      BY <1>4, <2>1 DEF Moved
    <2>3. CostLeft(x, t, t.qty) = c - h
      BY <1>1 DEF CostLeft
    <2>4. QED
      BY <2>2, <2>3 DEF Position
  <1>6. y \in Position
    BY MovedTyping
  <1> HIDE DEF h, w, u, s, c, y
  <1>7. -t.dir * (w - h) = g /\ g \in Int
    BY <1>1, <1>3
  <1>8. y.realized = x.realized + unit * g
    BY <1>5, <1>7
  <1> HIDE DEF g
  <1>9. s \in Int /\ Scaled(y, t.code) = s + g * u
        /\ (IsOption(t.code) => \E r \in Int : y.realized = r * CfgUnit)
    BY <1>1, <1>6, <1>7, <1>8, ScaledAdds DEF s, u
  <1>10. y.qty = 0 => y.cost = 0
    <2>1. y.qty = 0 => t.qty = AbsOf(x.qty)
      BY <1>1, <1>5 DEF AbsOf
    <2>2. QED
      BY <1>1, <1>3, <1>5, <2>1
  <1>11. Sound(y, t.code)
    BY <1>9, <1>10 DEF Sound
  <1>12. EarnedBy(x, t.code) = Sign(x.qty) * c * u + s
    BY DEF EarnedBy, u, s, c
  <1>13. EarnedBy(y, t.code) = Sign(y.qty) * (c - h) * u + (s + g * u)
    BY <1>5, <1>9 DEF EarnedBy, u
  <1>14. CASE x.qty > 0 /\ t.dir = -1 /\ t.qty <= x.qty
    <2>1. Sign(x.qty) = -1 /\ g = w - h
      BY <1>14 DEF Sign, g
    <2>2. Sign(y.qty) * (c - h) * u = (-1) * (c - h) * u
      <3>1. CASE y.qty > 0
        BY <3>1 DEF Sign
      <3>2. CASE y.qty = 0
        <4>1. Sign(y.qty) * 0 * u = 0 /\ (-1) * 0 * u = 0
          BY <1>1, <3>2 DEF Sign
        <4>2. c - h = 0
          BY <1>5, <1>10, <3>2
        <4>3. QED
          BY <4>1, <4>2
      <3>3. y.qty >= 0 /\ y.qty \in Int
        BY <1>1, <1>5, <1>14
      <3>4. QED
        BY <3>1, <3>2, <3>3
    <2>3. (-1) * (c - h) * u + (s + (w - h) * u) = ((-1) * c * u + s) + w * u
      BY <1>1, <1>3, <1>9, Arithmetic
    <2>4. t.dir * t.price * t.qty * t.mult = -(w * u) /\ w * u \in Int
      BY <1>14, PaidFor DEF w, u
    <2>5. (-1) * c * u + s \in Int
      BY <1>1, <1>9
    <2>6. EarnedBy(y, t.code) = EarnedBy(x, t.code) + w * u
          /\ EarnedBy(x, t.code) \in Int
      BY <1>12, <1>13, <2>1, <2>2, <2>3, <2>5
    <2>7. EarnedBy(y, t.code) = EarnedBy(x, t.code) - (-(w * u))
      BY <2>4, <2>6
    <2>8. QED
      BY <1>11, <2>4, <2>7 DEF y
  <1>15. CASE x.qty < 0 /\ t.dir = 1 /\ t.qty <= -x.qty
    <2>1. Sign(x.qty) = 1 /\ g = h - w
      BY <1>1, <1>15 DEF Sign, g
    <2>2. Sign(y.qty) = 1
      BY <1>1, <1>5, <1>15 DEF Sign
    <2>3. 1 * (c - h) * u + (s + (h - w) * u) = (1 * c * u + s) - w * u
      BY <1>1, <1>3, <1>9, Arithmetic
    <2>4. t.dir * t.price * t.qty * t.mult = w * u
      BY <1>15, PaidFor DEF w, u
    <2>5. EarnedBy(y, t.code) = EarnedBy(x, t.code) - w * u
      BY <1>12, <1>13, <2>1, <2>2, <2>3
    <2>6. QED
      BY <1>11, <2>4, <2>5 DEF y
  <1>16. QED
    BY <1>14, <1>15

\* The cash is what is left of the capital after fees and all that was earned.
Earnings(b) == [c \in Codes |-> EarnedBy(b.pos[c], c)]
Balanced(b) ==
    /\ \A c \in Codes : Sound(b.pos[c], c)
    /\ b.cash = Capital - b.fees + SumOf(Earnings(b), Codes)

LEMMA EarningsTyping ==
  ASSUME NEW b \in Book, \A c \in Codes : Sound(b.pos[c], c)
  PROVE  /\ \A c \in Codes : /\ Earnings(b)[c] = EarnedBy(b.pos[c], c)
                             /\ Earnings(b)[c] \in Int
         /\ SumOf(Earnings(b), Codes) \in Int
  <1>1. ASSUME NEW c \in Codes PROVE EarnedBy(b.pos[c], c) \in Int
    <2> DEFINE x == b.pos[c]
    <2>1. x \in Position /\ x.qty \in Int /\ x.cost \in Int /\ x.realized \in Int
      BY PositionTyping DEF Position
    <2>2. x.realized = x.realized + (IF IsOption(c) THEN CfgUnit ELSE 1) * 0
      BY <2>1, ConstantTyping
    <2>3. Scaled(x, c) \in Int
      <3>1. Sound(x, c)
        OBVIOUS
      <3> HIDE DEF x
      <3>2. QED
        BY <2>1, <2>2, <3>1, ScaledAdds
    <2>4. MultOf(c) \in Int /\ Sign(x.qty) \in Int
      BY MultTyping DEF Sign
    <2> DEFINE a == Sign(x.qty)
               k == x.cost
               u == MultOf(c)
               s == Scaled(x, c)
    <2>5. a \in Int /\ k \in Int /\ u \in Int /\ s \in Int
      BY <2>1, <2>3, <2>4
    <2>6. EarnedBy(b.pos[c], c) = a * k * u + s
      BY DEF EarnedBy
    <2> HIDE DEF x, a, k, u, s
    <2>7. a * k * u + s \in Int
      BY <2>5
    <2>8. QED
      BY <2>6, <2>7
  <1>2. \A c \in Codes : Earnings(b)[c] = EarnedBy(b.pos[c], c)
    BY Zenon DEF Earnings
  <1>3. \A c \in Codes : Earnings(b)[c] \in Int
    BY <1>1, <1>2
  <1>4. SumOf(Earnings(b), Codes) \in Int
    BY <1>3, CodesFinite, SumType
  <1>5. QED
    BY <1>2, <1>3, <1>4

\* A trade with the contract's multiplier that does not turn the position round
\* moves as much between cash and position as it moves, fee aside.
LEMMA BookedBalances ==
  ASSUME NEW b \in Book, Balanced(b), NEW t \in Trade, NEW d \in Nat,
         t.mult = MultOf(t.code), Within(b.pos[t.code], t)
  PROVE  Balanced(Booked(b, t, d))
  <1> DEFINE after == Booked(b, t, d)
             x == b.pos[t.code]
             y == after.pos[t.code]
             paid == t.dir * t.price * t.qty * t.mult
  <1>1. /\ after \in Book /\ t.code \in Codes /\ t.fee \in Nat
        /\ \A c \in Codes \ {t.code} : after.pos[c] = b.pos[c]
        /\ after.cash = b.cash - Paid(t)
    BY BookedTyping DEF Trade
  <1>2. after.fees = b.fees + t.fee
    BY DEF Booked
  <1>3. x \in Position /\ x.qty \in Int /\ t.qty \in Int
    BY <1>1, PositionTyping DEF Trade
  <1>4. /\ y.qty = Moved(x, t).qty /\ y.cost = Moved(x, t).cost
        /\ y.realized = Moved(x, t).realized
    <2>1. Moved(x, t) \in Position
      BY <1>3, MovedTyping
    <2>2. y = [Moved(x, t) EXCEPT !.margin = @ + (Greater(t.margin, 0) - Released(x, t))]
      BY <1>1 DEF Booked, Book
    <2> HIDE DEF x, y
    <2>3. QED
      BY <2>1, <2>2 DEF Position
  <1>5. /\ Sound(Moved(x, t), t.code)
        /\ EarnedBy(Moved(x, t), t.code) = EarnedBy(x, t.code) - paid
    <2>1. Sound(x, t.code)
      BY <1>1 DEF Balanced
    <2>2. CASE (x.qty >= 0 /\ t.dir = 1) \/ (x.qty <= 0 /\ t.dir = -1)
      BY <1>3, <2>1, <2>2, ExtendEarns
    <2>3. CASE \/ x.qty > 0 /\ t.dir = -1 /\ t.qty <= x.qty
               \/ x.qty < 0 /\ t.dir = 1 /\ t.qty <= -x.qty
      BY <1>3, <2>1, <2>3, ReduceEarns
    <2>4. QED
      BY <2>2, <2>3 DEF Within
  <1>6. Sound(y, t.code) /\ EarnedBy(y, t.code) = EarnedBy(x, t.code) - paid
    BY <1>4, <1>5 DEF Sound, EarnedBy, Scaled
  <1>7. paid \in Int /\ Paid(t) = paid + t.fee
    <2>1. t.dir = 1 \/ t.dir = -1
      BY DEF Trade
    <2>2. paid \in Int
      BY <2>1, PaidFor
    <2>3. QED
      BY <2>2 DEF Paid
  <1> HIDE DEF paid, x
  <1>8. \A c \in Codes : Sound(after.pos[c], c)
    BY <1>1, <1>6 DEF Balanced
  <1> HIDE DEF after
  <1>9. /\ \A c \in Codes : /\ Earnings(b)[c] = EarnedBy(b.pos[c], c)
                            /\ Earnings(b)[c] \in Int
        /\ SumOf(Earnings(b), Codes) \in Int
    BY EarningsTyping DEF Balanced
  <1>10. /\ \A c \in Codes : /\ Earnings(after)[c] = EarnedBy(after.pos[c], c)
                             /\ Earnings(after)[c] \in Int
    BY <1>1, <1>8, EarningsTyping
  <1>11. \A c \in Codes : c # t.code => Earnings(after)[c] = Earnings(b)[c]
    BY <1>1, <1>9, <1>10
  <1>12. SumOf(Earnings(after), Codes) =
           SumOf(Earnings(b), Codes) + Earnings(after)[t.code] - Earnings(b)[t.code]
    BY <1>1, <1>9, <1>10, <1>11, CodesFinite, SumChange
  <1>13. Earnings(after)[t.code] = Earnings(b)[t.code] - paid
    BY <1>1, <1>6, <1>9, <1>10 DEF x
  <1>14. Earnings(b)[t.code] \in Int
    BY <1>1, <1>9
  <1>15. SumOf(Earnings(after), Codes) = SumOf(Earnings(b), Codes) - paid
    BY <1>7, <1>9, <1>12, <1>13, <1>14
  <1>16. b.cash = Capital - b.fees + SumOf(Earnings(b), Codes)
    BY DEF Balanced
  <1>17. b.fees \in Int /\ Capital \in Int
    BY BacktestConstantsOK DEF Book
  <1>18. after.cash = Capital - after.fees + SumOf(Earnings(after), Codes)
    BY <1>1, <1>2, <1>7, <1>9, <1>15, <1>16, <1>17
  <1>19. Balanced(after)
    BY <1>8, <1>18 DEF Balanced
  <1>20. QED
    BY <1>19 DEF after

\* The three trades of an order, each on a position of its own.
LEMMA OrderBalances ==
  ASSUME NEW b \in Book, Balanced(b), NEW d \in Nat, NEW p \in Pairs, NEW legs,
         OrderOn(p, legs),
         \A i \in 1 .. 3 : /\ legs[i].mult = MultOf(legs[i].code)
                           /\ Within(b.pos[legs[i].code], legs[i])
  PROVE  Balanced(ProcessTrades(b, legs, d))
  <1> DEFINE t1 == legs[1]
             t2 == legs[2]
             t3 == legs[3]
             b1 == Booked(b, t1, d)
             b2 == Booked(b1, t2, d)
             b3 == Booked(b2, t3, d)
  <1>1. /\ t1 \in Trade /\ t2 \in Trade /\ t3 \in Trade
        /\ t1.code = Etf /\ t2.code = Put(p) /\ t3.code = Call(p)
    BY DEF OrderOn
  <1>2. /\ t1.mult = MultOf(t1.code) /\ Within(b.pos[t1.code], t1)
        /\ t2.mult = MultOf(t2.code) /\ Within(b.pos[t2.code], t2)
        /\ t3.mult = MultOf(t3.code) /\ Within(b.pos[t3.code], t3)
    <2>1. 1 \in 1 .. 3 /\ 2 \in 1 .. 3 /\ 3 \in 1 .. 3
      OBVIOUS
    <2>2. QED
      BY <2>1
  <1>3. /\ Etf \in Codes /\ Put(p) \in Codes /\ Call(p) \in Codes
        /\ Etf # Put(p) /\ Etf # Call(p) /\ Put(p) # Call(p)
    BY CodesDiffer
  <1> HIDE DEF t1, t2, t3
  <1>4. /\ b1 \in Book /\ Balanced(b1)
        /\ b1.pos[Put(p)] = b.pos[Put(p)] /\ b1.pos[Call(p)] = b.pos[Call(p)]
    <2>1. Balanced(b1)
      BY <1>1, <1>2, BookedBalances
    <2>2. b1 \in Book /\ \A c \in Codes \ {t1.code} : b1.pos[c] = b.pos[c]
      BY <1>1, BookedTyping
    <2>3. QED
      BY <1>1, <1>3, <2>1, <2>2
  <1> HIDE DEF b1
  <1>5. Within(b1.pos[t2.code], t2)
    BY <1>1, <1>2, <1>4
  <1>6. /\ b2 \in Book /\ Balanced(b2) /\ b2.pos[Call(p)] = b1.pos[Call(p)]
    <2>1. Balanced(b2)
      BY <1>1, <1>2, <1>4, <1>5, BookedBalances
    <2>2. b2 \in Book /\ \A c \in Codes \ {t2.code} : b2.pos[c] = b1.pos[c]
      BY <1>1, <1>4, BookedTyping
    <2>3. QED
      BY <1>1, <1>3, <2>1, <2>2
  <1> HIDE DEF b2
  <1>7. Within(b2.pos[t3.code], t3)
    BY <1>1, <1>2, <1>4, <1>6
  <1>8. Balanced(b3)
    BY <1>1, <1>2, <1>6, <1>7, BookedBalances
  <1>9. QED
    BY <1>8 DEF ProcessTrades, b1, b2, t1, t2, t3

LEMMA LegMults ==
  ASSUME NEW p \in Pairs
  PROVE  MultOf(Etf) = 1 /\ MultOf(Put(p)) = Unit[p] /\ MultOf(Call(p)) = Unit[p]
  BY DEF MultOf, IsOption, Etf, Put, Call

LEMMA OpeningBalances ==
  ASSUME book \in Book, Safe(book), Balanced(book), day \in Nat, NEW p \in Pairs,
         NEW n \in Nat \ {0}, Opening(p, n)
  PROVE  Balanced(book')
  <1> DEFINE legs == OpenLegs(tick.m, p, n)
  <1>1. Buys(p, n, n * Unit[p], legs)
    BY OpenLegsTyping DEF Opening
  <1>2. /\ legs[1].mult = 1 /\ legs[2].mult = Unit[p] /\ legs[3].mult = Unit[p]
    BY DEF OpenLegs, Leg
  <1>3. book' = ProcessTrades(book, legs, day)
    BY DEF Opening
  <1> HIDE DEF legs
  <1>4. /\ OrderOn(p, legs) /\ legs[1].dir = 1 /\ legs[2].dir = 1 /\ legs[3].dir = -1
        /\ legs[1].code = Etf /\ legs[2].code = Put(p) /\ legs[3].code = Call(p)
    BY <1>1 DEF Buys, OrderOn
  <1>5. /\ book.pos[Etf].qty >= 0 /\ book.pos[Put(p)].qty >= 0
        /\ book.pos[Call(p)].qty <= 0
    <2>1. book.pos[Put(p)].qty \in Int
      BY CodesDiffer, PositionTyping
    <2>2. QED
      BY <2>1 DEF Safe
  <1>6. ASSUME NEW i \in 1 .. 3
        PROVE  /\ legs[i].mult = MultOf(legs[i].code)
               /\ Within(book.pos[legs[i].code], legs[i])
    <2>1. i = 1 \/ i = 2 \/ i = 3
      OBVIOUS
    <2>2. QED
      BY <1>2, <1>4, <1>5, <2>1, LegMults DEF Within
  <1>7. QED
    BY <1>3, <1>4, <1>6, OrderBalances

LEMMA SaleBalances ==
  ASSUME book \in Book, Safe(book), Balanced(book), day \in Nat, NEW p \in Pairs,
         NEW n \in Nat \ {0}, Sale(p, n)
  PROVE  Balanced(book')
  <1>1. PICK x, y, z \in Int :
           book' = ProcessTrades(book, CloseLegs(p, n, x, y, z), day)
    BY DEF Sale
  <1> DEFINE legs == CloseLegs(p, n, x, y, z)
             shares == n * Unit[p]
  <1>2. Sells(p, n, shares, legs) /\ shares \in Nat \ {0}
    BY CloseLegsTyping
  <1>3. /\ legs[1].mult = 1 /\ legs[2].mult = Unit[p] /\ legs[3].mult = Unit[p]
    BY DEF CloseLegs, Leg
  <1>4. n <= book.pos[Put(p)].qty /\ shares <= book.pos[Etf].qty
    BY SetsHeldBounds DEF Sale, Held
  <1> HIDE DEF legs, shares
  <1>5. /\ OrderOn(p, legs) /\ legs[1].dir = -1 /\ legs[2].dir = -1 /\ legs[3].dir = 1
        /\ legs[1].code = Etf /\ legs[2].code = Put(p) /\ legs[3].code = Call(p)
        /\ legs[1].qty = shares /\ legs[2].qty = n /\ legs[3].qty = n
    BY <1>2 DEF Sells, OrderOn
  <1>6. /\ book.pos[Put(p)].qty \in Int /\ book.pos[Etf].qty \in Int
        /\ book.pos[Call(p)].qty \in Int
        /\ book.pos[Call(p)].qty = -book.pos[Put(p)].qty
    BY CodesDiffer, PositionTyping DEF Safe
  <1>7. /\ book.pos[Etf].qty > 0 /\ book.pos[Put(p)].qty > 0
        /\ book.pos[Call(p)].qty < 0 /\ n <= -book.pos[Call(p)].qty
    BY <1>2, <1>4, <1>6
  <1>8. ASSUME NEW i \in 1 .. 3
        PROVE  /\ legs[i].mult = MultOf(legs[i].code)
               /\ Within(book.pos[legs[i].code], legs[i])
    <2>1. i = 1 \/ i = 2 \/ i = 3
      OBVIOUS
    <2>2. QED
      BY <1>3, <1>4, <1>5, <1>7, <2>1, LegMults DEF Within
  <1>9. QED
    BY <1>1, <1>5, <1>8, OrderBalances DEF legs

LEMMA BalancedNext == Inv /\ Balanced(book) /\ [Next]_vars => Balanced(book)'
  <1> SUFFICES ASSUME Inv, Balanced(book), [Next]_vars PROVE Balanced(book')
    OBVIOUS
  <1>1. book \in Book /\ day \in Nat /\ Safe(book)
    BY ConstantTyping DEF Inv, StateTyped
  <1>2. CASE book' = book
    BY <1>2
  <1>3. ASSUME NEW p \in Pairs, NEW n \in Nat \ {0}, Opening(p, n)
        PROVE  Balanced(book')
    BY <1>1, <1>3, OpeningBalances
  <1>4. ASSUME NEW p \in Pairs, NEW n \in Nat \ {0}, Sale(p, n)
        PROVE  Balanced(book')
    BY <1>1, <1>4, SaleBalances
  <1>5. QED
    BY <1>2, <1>3, <1>4, BookSteps DEF BookStep

LEMMA BalancedInit == Init => Balanced(book)
  <1> SUFFICES ASSUME Init PROVE Balanced(book)
    OBVIOUS
  <1>1. /\ \A c \in Codes : book.pos[c] = Flat
        /\ book.cash = Capital /\ book.fees = 0
    BY DEF Init, NewBook
  <1>2. Flat.qty = 0 /\ Flat.cost = 0 /\ Flat.realized = 0
    BY DEF Flat
  <1>3. 0 = 0 * CfgUnit /\ 0 \in Int
    BY ConstantTyping
  <1>4. \A c \in Codes : Sound(book.pos[c], c)
    BY <1>1, <1>2, <1>3 DEF Sound
  <1>5. ASSUME NEW c \in Codes PROVE EarnedBy(Flat, c) = 0
    <2>1. Sign(0) * 0 * MultOf(c) = 0
      BY MultTyping DEF Sign
    <2>2. CASE IsOption(c)
      <3>1. 0 * Unit[c[2]] = 0 * CfgUnit
        BY <2>2, MultTyping, ConstantTyping
      <3>2. (0 * CfgUnit) \div CfgUnit = 0
        BY ConstantTyping, DivExact
      <3>3. Scaled(Flat, c) = 0
        BY <1>2, <2>2, <3>1, <3>2 DEF Scaled
      <3>4. QED
        BY <1>2, <2>1, <3>3 DEF EarnedBy
    <2>3. CASE ~IsOption(c)
      BY <1>2, <2>1, <2>3 DEF EarnedBy, Scaled
    <2>4. QED
      BY <2>2, <2>3
  <1>6. \A c \in Codes : Earnings(book)[c] = 0
    BY <1>1, <1>5, Zenon DEF Earnings
  <1>7. SumOf(Earnings(book), Codes) = 0
    BY <1>6, CodesFinite, SumZero
  <1>8. Capital \in Int
    BY BacktestConstantsOK
  <1>9. QED
    BY <1>1, <1>4, <1>7, <1>8 DEF Balanced

\* No money is made or lost by the bookkeeping, whatever the contract sizes and
\* however often positions are closed in part: the cash is the capital less the
\* fees, less what the open positions cost, plus the realised P&L once it is
\* scaled from the configured unit to the contract's own.
THEOREM AccountsBalanceCorrect == Spec => []AccountsBalance
  <1>1. Balanced(book) => AccountsBalance
    <2>1. Earnings(book) = [c \in Codes |-> Earned(c)]
      BY EarnedIs, Zenon DEF Earnings
    <2>2. TotalEarned = SumOf(Earnings(book), Codes)
      BY <2>1, TotalEarnedIs
    <2>3. QED
      BY <2>2 DEF Balanced, AccountsBalance
  <1>2. QED
    BY <1>1, BalancedInit, BalancedNext, InvCorrect, PTL DEF Spec
=============================================================================
