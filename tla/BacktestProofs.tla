--------------------------- MODULE BacktestProofs ---------------------------
(***************************************************************************)
(* Proofs about Backtest for every value of its constants.                 *)
(* The ledgers, sums over the positions, are in BacktestLedgerProofs.      *)
(***************************************************************************)
EXTENDS Backtest, TLAPS

-----------------------------------------------------------------------------
(* Arithmetic.                                                             *)

LEMMA DivBounds ==
  ASSUME NEW x \in Int, NEW w \in Nat \ {0}
  PROVE  x \div w \in Int /\ (x \div w) * w <= x /\ x < (x \div w) * w + w
  OBVIOUS

LEMMA TimesMonotone ==
  ASSUME NEW t \in Nat, NEW x \in Int, NEW y \in Int, x <= y
  PROVE  t * x \in Int /\ t * y \in Int /\ t * x <= t * y
  OBVIOUS

LEMMA ShareIsInt ==
  ASSUME NEW total \in Int, NEW part \in Int, NEW whole \in Nat \ {0}
  PROVE  Share(total, part, whole) \in Int
  <1>1. total * part \in Int
    OBVIOUS
  <1>2. QED
    BY <1>1, DivBounds DEF Share

\* The share of a part is between nothing and everything, and the share of the
\* whole is everything.
LEMMA ShareBounds ==
  ASSUME NEW total \in Nat, NEW whole \in Nat \ {0}, NEW part \in 0 .. whole
  PROVE  /\ Share(total, part, whole) \in 0 .. total
         /\ part = whole => Share(total, part, whole) = total
  <1> DEFINE x == total * part
  <1> DEFINE s == x \div whole
  <1>1. x \in Int /\ 0 <= x /\ x <= total * whole
    <2>1. part \in Int /\ 0 <= part /\ part <= whole /\ whole \in Int
      OBVIOUS
    <2>2. total * 0 = 0
      OBVIOUS
    <2>3. QED
      BY <2>1, <2>2, TimesMonotone
  <1>2. s \in Int /\ s * whole <= x /\ x < s * whole + whole
    BY <1>1, DivBounds
  <1>3. s >= 0
    <2>1. SUFFICES ASSUME s <= -1 PROVE FALSE
      BY <1>2
    <2>2. whole * s <= whole * (-1)
      BY <2>1, <1>2, TimesMonotone
    <2>3. QED
      BY <1>1, <1>2, <2>2
  <1>4. s <= total
    <2>1. SUFFICES ASSUME total + 1 <= s PROVE FALSE
      BY <1>2
    <2>2. whole * (total + 1) <= whole * s
      BY <2>1, <1>2, TimesMonotone
    <2>3. QED
      BY <1>1, <1>2, <2>2
  <1>5. part = whole => s = total
    <2>1. SUFFICES ASSUME part = whole, s + 1 <= total PROVE FALSE
      BY <1>2, <1>4
    <2>2. whole * (s + 1) <= whole * total
      BY <2>1, <1>2, TimesMonotone
    <2>3. QED
      BY <1>1, <1>2, <2>1, <2>2
  <1>6. QED
    BY <1>2, <1>3, <1>4, <1>5 DEF Share

-----------------------------------------------------------------------------
(* The book.                                                               *)

LEMMA CodesDiffer ==
  /\ Etf \in Codes /\ ~IsOption(Etf)
  /\ \A p \in Pairs : /\ Call(p) \in Codes /\ Put(p) \in Codes
                      /\ IsOption(Call(p)) /\ IsOption(Put(p))
  /\ \A p, r \in Pairs : /\ Call(p) # Put(r)
                         /\ Call(p) = Call(r) => p = r
                         /\ Put(p) = Put(r) => p = r
  BY DEF Codes, Etf, Call, Put, IsOption

LEMMA AbsBounds ==
  ASSUME NEW x \in Int
  PROVE  /\ AbsOf(x) \in Nat /\ (x # 0 => AbsOf(x) > 0)
         /\ (x < 0 => AbsOf(x) = -x)
  BY DEF AbsOf

\* A trade moves the quantity by what it trades and leaves the margin alone.
LEMMA MovedTyping ==
  ASSUME NEW pos \in Position, NEW t \in Trade
  PROVE  /\ Moved(pos, t) \in Position
         /\ Moved(pos, t).qty = pos.qty + t.dir * t.qty
         /\ Moved(pos, t).margin = pos.margin
  <1> DEFINE signed == t.dir * t.qty
  <1> DEFINE closed == Lesser(AbsOf(pos.qty), t.qty)
  <1>1. /\ pos.qty \in Int /\ pos.cost \in Int /\ pos.realized \in Int
        /\ pos.margin \in Nat /\ t.qty \in Nat /\ t.qty # 0 /\ t.price \in Int
        /\ t.dir \in {1, -1}
    BY DEF Position, Trade
  <1>2. signed \in Int /\ signed # 0 /\ AbsOf(pos.qty) \in Nat /\ closed \in Int
    BY <1>1 DEF AbsOf, Lesser
  <1>3. t.price * t.qty \in Int /\ t.price * (t.qty - closed) \in Int
        /\ t.price * closed \in Int
    BY <1>1, <1>2
  <1>4. CASE (pos.qty >= 0 /\ signed > 0) \/ (pos.qty <= 0 /\ signed < 0)
    <2>1. Moved(pos, t) =
            [pos EXCEPT !.qty = pos.qty + signed, !.cost = pos.cost + t.price * t.qty]
      BY <1>4 DEF Moved
    <2>2. pos.qty + signed \in Int /\ pos.cost + t.price * t.qty \in Int
      BY <1>1, <1>2, <1>3
    <2> DEFINE q == pos.qty + signed
    <2> DEFINE c == pos.cost + t.price * t.qty
    <2>3. q \in Int /\ c \in Int /\ q = pos.qty + t.dir * t.qty
          /\ Moved(pos, t) = [pos EXCEPT !.qty = q, !.cost = c]
      BY <2>1, <2>2
    <2> HIDE DEF q, c
    <2>4. QED
      BY <2>3 DEF Position
  <1>5. CASE ~((pos.qty >= 0 /\ signed > 0) \/ (pos.qty <= 0 /\ signed < 0))
    <2> DEFINE unit == IF IsOption(t.code) THEN CfgUnit ELSE 1
    <2> DEFINE gain == -t.dir * (t.price * closed - Share(pos.cost, closed, AbsOf(pos.qty)))
    <2>1. Moved(pos, t) = [pos EXCEPT !.qty = pos.qty + signed,
                                      !.cost = CostLeft(pos, t, closed),
                                      !.realized = pos.realized + unit * gain]
      BY <1>5 DEF Moved
    <2>2. AbsOf(pos.qty) \in Nat \ {0}
      BY <1>1, <1>2, <1>5 DEF AbsOf
    <2>3. Share(pos.cost, closed, AbsOf(pos.qty)) \in Int
      BY <1>1, <1>2, <2>2, ShareIsInt
    <2>4. CostLeft(pos, t, closed) \in Int
      BY <1>1, <1>3, <2>3 DEF CostLeft
    <2>5. unit \in Int /\ gain \in Int
      BY <1>1, <1>3, <2>3, CfgUnitOK
    <2>6. unit * gain \in Int
      BY <2>5
    <2>7. pos.qty + signed \in Int /\ pos.realized + unit * gain \in Int
      BY <1>1, <1>2, <2>6
    <2> DEFINE q == pos.qty + signed
    <2> DEFINE c == CostLeft(pos, t, closed)
    <2> DEFINE r == pos.realized + unit * gain
    <2>8. q \in Int /\ c \in Int /\ r \in Int /\ q = pos.qty + t.dir * t.qty
          /\ Moved(pos, t) = [pos EXCEPT !.qty = q, !.cost = c, !.realized = r]
      BY <2>1, <2>4, <2>7
    <2> HIDE DEF q, c, r
    <2>9. QED
      BY <2>8 DEF Position
  <1>6. QED
    BY <1>4, <1>5

\* A purchase releases no more margin than there is, all of it when it buys
\* everything back, and none without a short position.
LEMMA ReleasedBounds ==
  ASSUME NEW pos \in Position, NEW t \in Trade
  PROVE  /\ Released(pos, t) \in 0 .. pos.margin
         /\ IsOption(t.code) /\ t.dir = 1 /\ pos.qty < 0 /\ t.qty >= -pos.qty
              => Released(pos, t) = pos.margin
  <1>1. /\ pos.qty \in Int /\ pos.margin \in Nat /\ t.qty \in Nat
    BY DEF Position, Trade
  <1>2. CASE IsOption(t.code) /\ t.dir = 1 /\ pos.qty < 0 /\ pos.margin > 0
    <2>1. AbsOf(pos.qty) \in Nat \ {0} /\ AbsOf(pos.qty) = -pos.qty
      BY <1>1, <1>2 DEF AbsOf
    <2>2. Lesser(t.qty, AbsOf(pos.qty)) \in 0 .. AbsOf(pos.qty)
      BY <1>1, <2>1 DEF Lesser
    <2>3. t.qty >= -pos.qty => Lesser(t.qty, AbsOf(pos.qty)) = AbsOf(pos.qty)
      BY <1>1, <2>1 DEF Lesser
    <2>4. Released(pos, t) = Share(pos.margin, Lesser(t.qty, AbsOf(pos.qty)), AbsOf(pos.qty))
      BY <1>2 DEF Released
    <2>5. QED
      BY <1>1, <2>1, <2>2, <2>3, <2>4, ShareBounds
  <1>3. CASE ~(IsOption(t.code) /\ t.dir = 1 /\ pos.qty < 0 /\ pos.margin > 0)
    BY <1>1, <1>3 DEF Released
  <1>4. QED
    BY <1>2, <1>3

\* What a trade freezes, less what it releases, and what it costs.
Frozen(b, t) == Greater(t.margin, 0) - Released(b.pos[t.code], t)
Paid(t) == t.dir * t.price * t.qty * t.mult + t.fee

\* One trade changes the position of its own code and no other.
LEMMA BookedTyping ==
  ASSUME NEW b \in Book, NEW t \in Trade, NEW d \in Nat
  PROVE  /\ Booked(b, t, d) \in Book
         /\ Booked(b, t, d).pos[t.code].qty = b.pos[t.code].qty + t.dir * t.qty
         /\ Booked(b, t, d).pos[t.code].margin = b.pos[t.code].margin + Frozen(b, t)
         /\ \A c \in Codes \ {t.code} : Booked(b, t, d).pos[c] = b.pos[c]
         /\ Booked(b, t, d).etfDay =
               IF t.code = Etf /\ t.dir = 1 THEN d ELSE b.etfDay
         /\ Booked(b, t, d).cash = b.cash - Paid(t)
         /\ Booked(b, t, d).totalMargin = b.totalMargin + Frozen(b, t)
         /\ Frozen(b, t) \in Int
  <1> DEFINE pos == b.pos[t.code]
  <1> DEFINE after == [Moved(pos, t) EXCEPT !.margin = @ + Frozen(b, t)]
  <1>1. /\ t.code \in Codes /\ t.margin \in Int /\ t.fee \in Nat
        /\ t.dir \in Int /\ t.price \in Int /\ t.qty \in Int /\ t.mult \in Int
    BY DEF Trade
  <1>2. /\ pos \in Position /\ b.cash \in Int /\ b.totalMargin \in Int
        /\ b.fees \in Nat /\ b.etfDay \in Nat /\ b.pos \in [Codes -> Position]
    BY <1>1 DEF Book
  <1>3. Released(pos, t) \in 0 .. pos.margin /\ pos.margin \in Nat
    BY <1>2, ReleasedBounds DEF Position
  <1>4. Frozen(b, t) \in Int /\ pos.margin + Frozen(b, t) \in Nat
    BY <1>1, <1>3 DEF Greater, Frozen
  <1>5. /\ Moved(pos, t) \in Position
        /\ Moved(pos, t).qty = pos.qty + t.dir * t.qty
        /\ Moved(pos, t).margin = pos.margin
    BY <1>2, MovedTyping
  <1>6. /\ after \in Position /\ after.qty = pos.qty + t.dir * t.qty
        /\ after.margin = pos.margin + Frozen(b, t)
    BY <1>4, <1>5 DEF Position
  <1>7. Paid(t) \in Int
    <2>1. t.dir * t.price * t.qty * t.mult \in Int
      BY <1>1
    <2>2. QED
      BY <1>1, <2>1 DEF Paid
  <1>8. Booked(b, t, d) =
          [cash |-> b.cash - Paid(t),
           totalMargin |-> b.totalMargin + Frozen(b, t),
           fees |-> b.fees + t.fee,
           etfDay |-> BuyDay(b, t, d),
           pos |-> [b.pos EXCEPT ![t.code] = after]]
    BY Zenon DEF Booked, Paid, Frozen
  <1>9. BuyDay(b, t, d) = (IF t.code = Etf /\ t.dir = 1 THEN d ELSE b.etfDay)
        /\ BuyDay(b, t, d) \in Nat
    BY <1>2 DEF BuyDay
  <1> HIDE DEF after
  <1>10. [b.pos EXCEPT ![t.code] = after] \in [Codes -> Position]
    BY <1>1, <1>2, <1>6
  <1>11. Booked(b, t, d) \in Book
    <2>1. b.cash - Paid(t) \in Int
      BY <1>2, <1>7
    <2>2. b.totalMargin + Frozen(b, t) \in Int /\ b.fees + t.fee \in Nat
      BY <1>1, <1>2, <1>4
    <2>3. QED
      BY <2>1, <2>2, <1>8, <1>9, <1>10 DEF Book
  <1>12. \A c \in Codes : Booked(b, t, d).pos[c] = IF c = t.code THEN after ELSE b.pos[c]
    BY <1>2, <1>8
  <1>13. /\ Booked(b, t, d).etfDay = BuyDay(b, t, d)
         /\ Booked(b, t, d).cash = b.cash - Paid(t)
         /\ Booked(b, t, d).totalMargin = b.totalMargin + Frozen(b, t)
    BY <1>8
  <1>14. QED
    BY <1>1, <1>4, <1>6, <1>9, <1>11, <1>12, <1>13

\* The three trades of an order on a pair: shares, puts, calls.
OrderOn(p, legs) ==
    /\ legs[1] \in Trade /\ legs[2] \in Trade /\ legs[3] \in Trade
    /\ legs[1].code = Etf /\ legs[2].code = Put(p) /\ legs[3].code = Call(p)

\* What process_trades makes of a book by an order on p.
Settles(b, d, p, legs, after) ==
    /\ after \in Book
    /\ \A i \in 1 .. 3 :
         /\ after.pos[legs[i].code].qty =
              b.pos[legs[i].code].qty + legs[i].dir * legs[i].qty
         /\ after.pos[legs[i].code].margin =
              b.pos[legs[i].code].margin + Frozen(b, legs[i])
         /\ Frozen(b, legs[i]) \in Int
    /\ \A c \in Codes \ {Etf, Put(p), Call(p)} : after.pos[c] = b.pos[c]
    /\ after.etfDay = IF legs[1].dir = 1 THEN d ELSE b.etfDay
    /\ after.cash = b.cash - Paid(legs[1]) - Paid(legs[2]) - Paid(legs[3])
    /\ after.totalMargin = b.totalMargin + Frozen(b, legs[1])
                             + Frozen(b, legs[2]) + Frozen(b, legs[3])

LEMMA ProcessTradesTyping ==
  ASSUME NEW b \in Book, NEW d \in Nat, NEW p \in Pairs, NEW legs, OrderOn(p, legs)
  PROVE  Settles(b, d, p, legs, ProcessTrades(b, legs, d))
  <1> DEFINE t1 == legs[1]
  <1> DEFINE t2 == legs[2]
  <1> DEFINE t3 == legs[3]
  <1> DEFINE b1 == Booked(b, t1, d)
  <1> DEFINE b2 == Booked(b1, t2, d)
  <1> DEFINE b3 == Booked(b2, t3, d)
  <1>0. ProcessTrades(b, legs, d) = b3
    BY DEF ProcessTrades
  <1>1. /\ t1 \in Trade /\ t2 \in Trade /\ t3 \in Trade
        /\ t1.code = Etf /\ t2.code = Put(p) /\ t3.code = Call(p)
    BY DEF OrderOn
  <1>2. /\ Etf \in Codes /\ Put(p) \in Codes /\ Call(p) \in Codes
        /\ Etf # Put(p) /\ Etf # Call(p) /\ Put(p) # Call(p)
    BY CodesDiffer
  <1> HIDE DEF t1, t2, t3
  <1>3. /\ b1 \in Book /\ Frozen(b, t1) \in Int
        /\ \A c \in Codes \ {Etf} : b1.pos[c] = b.pos[c]
        /\ b1.pos[Etf].qty = b.pos[Etf].qty + t1.dir * t1.qty
        /\ b1.pos[Etf].margin = b.pos[Etf].margin + Frozen(b, t1)
        /\ b1.etfDay = (IF t1.dir = 1 THEN d ELSE b.etfDay)
        /\ b1.cash = b.cash - Paid(t1)
        /\ b1.totalMargin = b.totalMargin + Frozen(b, t1)
    <2>1. /\ b1 \in Book /\ Frozen(b, t1) \in Int
          /\ b1.pos[t1.code].qty = b.pos[t1.code].qty + t1.dir * t1.qty
          /\ b1.pos[t1.code].margin = b.pos[t1.code].margin + Frozen(b, t1)
          /\ \A c \in Codes \ {t1.code} : b1.pos[c] = b.pos[c]
          /\ b1.etfDay = (IF t1.code = Etf /\ t1.dir = 1 THEN d ELSE b.etfDay)
          /\ b1.cash = b.cash - Paid(t1)
          /\ b1.totalMargin = b.totalMargin + Frozen(b, t1)
      BY <1>1, BookedTyping
    <2> HIDE DEF b1
    <2>2. QED
      BY <1>1, <1>2, <2>1
  <1> HIDE DEF b1
  <1>4. /\ b2 \in Book /\ Frozen(b1, t2) \in Int
        /\ \A c \in Codes \ {Put(p)} : b2.pos[c] = b1.pos[c]
        /\ b2.pos[Put(p)].qty = b1.pos[Put(p)].qty + t2.dir * t2.qty
        /\ b2.pos[Put(p)].margin = b1.pos[Put(p)].margin + Frozen(b1, t2)
        /\ b2.etfDay = b1.etfDay
        /\ b2.cash = b1.cash - Paid(t2)
        /\ b2.totalMargin = b1.totalMargin + Frozen(b1, t2)
    <2>1. /\ b2 \in Book /\ Frozen(b1, t2) \in Int
          /\ b2.pos[t2.code].qty = b1.pos[t2.code].qty + t2.dir * t2.qty
          /\ b2.pos[t2.code].margin = b1.pos[t2.code].margin + Frozen(b1, t2)
          /\ \A c \in Codes \ {t2.code} : b2.pos[c] = b1.pos[c]
          /\ b2.etfDay = (IF t2.code = Etf /\ t2.dir = 1 THEN d ELSE b1.etfDay)
          /\ b2.cash = b1.cash - Paid(t2)
          /\ b2.totalMargin = b1.totalMargin + Frozen(b1, t2)
      BY <1>1, <1>3, BookedTyping
    <2>2. QED
      BY <1>1, <1>2, <2>1
  <1> HIDE DEF b2
  <1>5. /\ b3 \in Book /\ Frozen(b2, t3) \in Int
        /\ \A c \in Codes \ {Call(p)} : b3.pos[c] = b2.pos[c]
        /\ b3.pos[Call(p)].qty = b2.pos[Call(p)].qty + t3.dir * t3.qty
        /\ b3.pos[Call(p)].margin = b2.pos[Call(p)].margin + Frozen(b2, t3)
        /\ b3.etfDay = b2.etfDay
        /\ b3.cash = b2.cash - Paid(t3)
        /\ b3.totalMargin = b2.totalMargin + Frozen(b2, t3)
    <2>1. /\ b3 \in Book /\ Frozen(b2, t3) \in Int
          /\ b3.pos[t3.code].qty = b2.pos[t3.code].qty + t3.dir * t3.qty
          /\ b3.pos[t3.code].margin = b2.pos[t3.code].margin + Frozen(b2, t3)
          /\ \A c \in Codes \ {t3.code} : b3.pos[c] = b2.pos[c]
          /\ b3.etfDay = (IF t3.code = Etf /\ t3.dir = 1 THEN d ELSE b2.etfDay)
          /\ b3.cash = b2.cash - Paid(t3)
          /\ b3.totalMargin = b2.totalMargin + Frozen(b2, t3)
      BY <1>1, <1>4, BookedTyping
    <2>2. QED
      BY <1>1, <1>2, <2>1
  <1> HIDE DEF b3
  <1>6. /\ b1.pos[Put(p)] = b.pos[Put(p)] /\ b2.pos[Call(p)] = b.pos[Call(p)]
        /\ b3.pos[Etf] = b1.pos[Etf] /\ b3.pos[Put(p)] = b2.pos[Put(p)]
    BY <1>2, <1>3, <1>4, <1>5
  <1>7. Frozen(b1, t2) = Frozen(b, t2) /\ Frozen(b2, t3) = Frozen(b, t3)
    BY <1>1, <1>6 DEF Frozen
  <1>8. b3.totalMargin = b.totalMargin + Frozen(b, t1) + Frozen(b, t2) + Frozen(b, t3)
    BY <1>3, <1>4, <1>5, <1>7
  <1>9. \A c \in Codes \ {Etf, Put(p), Call(p)} : b3.pos[c] = b.pos[c]
    BY <1>3, <1>4, <1>5
  <1>10. b3.cash = b.cash - Paid(t1) - Paid(t2) - Paid(t3)
    BY <1>3, <1>4, <1>5
  <1>11. \A i \in 1 .. 3 :
              /\ b3.pos[legs[i].code].qty =
                   b.pos[legs[i].code].qty + legs[i].dir * legs[i].qty
              /\ b3.pos[legs[i].code].margin =
                   b.pos[legs[i].code].margin + Frozen(b, legs[i])
              /\ Frozen(b, legs[i]) \in Int
    <2>1. \A i \in 1 .. 3 : i = 1 \/ i = 2 \/ i = 3
      OBVIOUS
    <2>2. QED
      BY <1>1, <1>3, <1>4, <1>5, <1>6, <1>7, <2>1 DEF t1, t2, t3
  <1>12. QED
    BY <1>0, <1>3, <1>4, <1>5, <1>8, <1>9, <1>10, <1>11 DEF Settles, t1, t2, t3

-----------------------------------------------------------------------------
(* What orders do to a book that is safe: matched legs, no short shares or *)
(* puts, margin on short positions only.                                   *)

Safe(b) ==
    /\ b.pos[Etf].qty >= 0
    /\ \A p \in Pairs : /\ b.pos[Put(p)].qty >= 0
                        /\ b.pos[Call(p)].qty = -b.pos[Put(p)].qty
    /\ \A c \in Codes : b.pos[c].margin > 0 => b.pos[c].qty < 0

LEMMA PositionTyping ==
  ASSUME NEW b \in Book, NEW c \in Codes
  PROVE  /\ b.pos[c] \in Position /\ b.pos[c].qty \in Int /\ b.pos[c].cost \in Int
         /\ b.pos[c].margin \in Nat
  BY DEF Book, Position

\* Margin that is negative counts as none.
LEMMA FrozenTyping ==
  ASSUME NEW b \in Book, NEW t \in Trade
  PROVE  /\ Frozen(b, t) <= Greater(t.margin, 0)
         /\ ~(IsOption(t.code) /\ t.dir = 1 /\ b.pos[t.code].qty < 0)
              => Frozen(b, t) = Greater(t.margin, 0)
         /\ t.margin = 0 => /\ Greater(t.margin, 0) = 0
                            /\ Frozen(b, t) = -Released(b.pos[t.code], t)
  <1>1. t.code \in Codes /\ t.margin \in Int
    BY DEF Trade
  <1>2. /\ Released(b.pos[t.code], t) \in Nat
        /\ ~(IsOption(t.code) /\ t.dir = 1 /\ b.pos[t.code].qty < 0)
              => Released(b.pos[t.code], t) = 0
    <2>1. b.pos[t.code] \in Position /\ b.pos[t.code].margin \in Nat
      BY <1>1, PositionTyping
    <2>2. Released(b.pos[t.code], t) \in Nat
      BY <2>1, ReleasedBounds
    <2>3. QED
      BY <2>2 DEF Released
  <1>3. Greater(t.margin, 0) \in Nat /\ (t.margin = 0 => Greater(t.margin, 0) = 0)
    BY <1>1 DEF Greater
  <1>4. QED
    BY <1>2, <1>3 DEF Frozen

\* Legs that buy, and that sell, n sets of p with their shares.
Buys(p, n, shares, legs) ==
    /\ OrderOn(p, legs)
    /\ legs[1].dir = 1 /\ legs[1].qty = shares /\ legs[1].margin = 0
    /\ legs[2].dir = 1 /\ legs[2].qty = n /\ legs[2].margin = 0
    /\ legs[3].dir = -1 /\ legs[3].qty = n
Sells(p, n, shares, legs) ==
    /\ OrderOn(p, legs)
    /\ legs[1].dir = -1 /\ legs[1].qty = shares /\ legs[1].margin = 0
    /\ legs[2].dir = -1 /\ legs[2].qty = n /\ legs[2].margin = 0
    /\ legs[3].dir = 1 /\ legs[3].qty = n /\ legs[3].margin = 0

\* The book after buying, and after selling, a pair.
BoughtInto(b, d, shares, legs, after) ==
    /\ after \in Book /\ Safe(after)
    /\ after.pos[Etf].qty = b.pos[Etf].qty + shares
    /\ after.etfDay = d
    /\ after.totalMargin = b.totalMargin + Greater(legs[3].margin, 0)
    /\ after.cash = b.cash - Paid(legs[1]) - Paid(legs[2]) - Paid(legs[3])
SoldFrom(b, shares, after) ==
    /\ after \in Book /\ Safe(after)
    /\ after.pos[Etf].qty = b.pos[Etf].qty - shares
    /\ after.etfDay = b.etfDay

\* Buying a pair keeps the book safe and freezes the margin of the call.
LEMMA OpeningIsSafe ==
  ASSUME NEW b \in Book, Safe(b), NEW d \in Nat, NEW p \in Pairs,
         NEW n \in Nat \ {0}, NEW shares \in Nat \ {0}, NEW legs,
         Buys(p, n, shares, legs)
  PROVE  BoughtInto(b, d, shares, legs, ProcessTrades(b, legs, d))
  <1> DEFINE after == ProcessTrades(b, legs, d)
  <1>1. /\ legs[1].code = Etf /\ legs[2].code = Put(p) /\ legs[3].code = Call(p)
        /\ legs[1] \in Trade /\ legs[2] \in Trade /\ legs[3] \in Trade
        /\ OrderOn(p, legs)
        /\ legs[1].dir = 1 /\ legs[1].qty = shares /\ legs[1].margin = 0
        /\ legs[2].dir = 1 /\ legs[2].qty = n /\ legs[2].margin = 0
        /\ legs[3].dir = -1 /\ legs[3].qty = n
    BY DEF OrderOn, Buys
  <1>2. /\ after \in Book
        /\ after.pos[Etf].qty = b.pos[Etf].qty + 1 * shares
        /\ after.pos[Put(p)].qty = b.pos[Put(p)].qty + 1 * n
        /\ after.pos[Call(p)].qty = b.pos[Call(p)].qty + (-1) * n
        /\ after.pos[Etf].margin = b.pos[Etf].margin + Frozen(b, legs[1])
        /\ after.pos[Put(p)].margin = b.pos[Put(p)].margin + Frozen(b, legs[2])
        /\ \A c \in Codes \ {Etf, Put(p), Call(p)} : after.pos[c] = b.pos[c]
        /\ after.etfDay = d
        /\ after.cash = b.cash - Paid(legs[1]) - Paid(legs[2]) - Paid(legs[3])
        /\ after.totalMargin = b.totalMargin + Frozen(b, legs[1])
                                  + Frozen(b, legs[2]) + Frozen(b, legs[3])
    <2>1. Settles(b, d, p, legs, after)
      BY <1>1, ProcessTradesTyping
    <2> HIDE DEF after
    <2>2. 1 \in 1 .. 3 /\ 2 \in 1 .. 3 /\ 3 \in 1 .. 3
      OBVIOUS
    <2>3. QED
      BY <1>1, <2>1, <2>2 DEF Settles
  <1> HIDE DEF after
  <1>3. /\ Etf \in Codes /\ ~IsOption(Etf)
        /\ \A r \in Pairs : /\ Call(r) \in Codes /\ Put(r) \in Codes
                            /\ Etf # Call(r) /\ Etf # Put(r)
    BY CodesDiffer
  <1>4. \A c \in Codes : /\ b.pos[c].qty \in Int /\ b.pos[c].margin \in Nat
                         /\ after.pos[c].qty \in Int /\ after.pos[c].margin \in Nat
    BY <1>2, PositionTyping
  <1>5. /\ Frozen(b, legs[1]) = 0 /\ Frozen(b, legs[2]) = 0
        /\ Frozen(b, legs[3]) = Greater(legs[3].margin, 0)
    <2>1. b.pos[Put(p)].qty >= 0
      BY DEF Safe
    <2>2. QED
      BY <1>1, <1>3, <1>4, <2>1, FrozenTyping
  <1>6. \A r \in Pairs : /\ after.pos[Put(r)].qty >= 0
                         /\ after.pos[Call(r)].qty = -after.pos[Put(r)].qty
    <2> TAKE r \in Pairs
    <2>1. b.pos[Put(r)].qty >= 0 /\ b.pos[Call(r)].qty = -b.pos[Put(r)].qty
      BY DEF Safe
    <2>2. CASE r = p
      BY <1>2, <1>3, <1>4, <2>1, <2>2
    <2>3. CASE r # p
      <3>1. Put(r) # Put(p) /\ Call(r) # Call(p) /\ Put(r) # Call(p) /\ Call(r) # Put(p)
        BY <2>3, CodesDiffer
      <3>2. after.pos[Put(r)] = b.pos[Put(r)] /\ after.pos[Call(r)] = b.pos[Call(r)]
        BY <1>2, <1>3, <3>1
      <3>3. QED
        BY <2>1, <3>2
    <2>4. QED
      BY <2>2, <2>3
  <1>7. \A c \in Codes : after.pos[c].margin > 0 => after.pos[c].qty < 0
    <2> TAKE c \in Codes
    <2>1. b.pos[c].margin > 0 => b.pos[c].qty < 0
      BY DEF Safe
    <2>2. b.pos[Etf].qty >= 0 /\ b.pos[Put(p)].qty >= 0 /\ b.pos[Call(p)].qty <= 0
      BY <1>3, <1>4 DEF Safe
    <2>3. CASE c \in {Etf, Put(p)}
      BY <1>2, <1>3, <1>4, <1>5, <2>1, <2>2, <2>3
    <2>4. CASE c = Call(p)
      BY <1>2, <1>3, <1>4, <2>2, <2>4
    <2>5. CASE c \notin {Etf, Put(p), Call(p)}
      BY <1>2, <2>1, <2>5
    <2>6. QED
      BY <2>3, <2>4, <2>5
  <1>8. after.pos[Etf].qty >= 0 /\ after.pos[Etf].qty = b.pos[Etf].qty + shares
    BY <1>2, <1>3, <1>4 DEF Safe
  <1>9. after.totalMargin = b.totalMargin + Greater(legs[3].margin, 0)
    <2>1. b.totalMargin \in Int /\ Greater(legs[3].margin, 0) \in Int
      BY <1>1 DEF Book, Trade, Greater
    <2>2. QED
      BY <1>2, <1>5, <2>1
  <1>10. QED
    BY <1>2, <1>6, <1>7, <1>8, <1>9 DEF Safe, BoughtInto, after

\* Closing no more than is held keeps the book safe.
LEMMA ClosingIsSafe ==
  ASSUME NEW b \in Book, Safe(b), NEW d \in Nat, NEW p \in Pairs,
         NEW n \in Nat \ {0}, NEW shares \in Nat \ {0}, NEW legs,
         Sells(p, n, shares, legs),
         shares <= b.pos[Etf].qty, n <= b.pos[Put(p)].qty
  PROVE  SoldFrom(b, shares, ProcessTrades(b, legs, d))
  <1> DEFINE after == ProcessTrades(b, legs, d)
  <1>1. /\ legs[1].code = Etf /\ legs[2].code = Put(p) /\ legs[3].code = Call(p)
        /\ legs[1] \in Trade /\ legs[2] \in Trade /\ legs[3] \in Trade
        /\ OrderOn(p, legs)
        /\ legs[1].dir = -1 /\ legs[1].qty = shares /\ legs[1].margin = 0
        /\ legs[2].dir = -1 /\ legs[2].qty = n /\ legs[2].margin = 0
        /\ legs[3].dir = 1 /\ legs[3].qty = n /\ legs[3].margin = 0
    BY DEF OrderOn, Sells
  <1>2. /\ after \in Book
        /\ after.pos[Etf].qty = b.pos[Etf].qty + (-1) * shares
        /\ after.pos[Put(p)].qty = b.pos[Put(p)].qty + (-1) * n
        /\ after.pos[Call(p)].qty = b.pos[Call(p)].qty + 1 * n
        /\ after.pos[Etf].margin = b.pos[Etf].margin + Frozen(b, legs[1])
        /\ after.pos[Put(p)].margin = b.pos[Put(p)].margin + Frozen(b, legs[2])
        /\ after.pos[Call(p)].margin = b.pos[Call(p)].margin + Frozen(b, legs[3])
        /\ \A c \in Codes \ {Etf, Put(p), Call(p)} : after.pos[c] = b.pos[c]
        /\ after.etfDay = b.etfDay
    <2>1. Settles(b, d, p, legs, after)
      BY <1>1, ProcessTradesTyping
    <2> HIDE DEF after
    <2>2. 1 \in 1 .. 3 /\ 2 \in 1 .. 3 /\ 3 \in 1 .. 3
      OBVIOUS
    <2>3. QED
      BY <1>1, <2>1, <2>2 DEF Settles
  <1> HIDE DEF after
  <1>3. /\ Etf \in Codes /\ ~IsOption(Etf)
        /\ \A r \in Pairs : /\ Call(r) \in Codes /\ Put(r) \in Codes
                            /\ Etf # Call(r) /\ Etf # Put(r) /\ IsOption(Call(r))
    BY CodesDiffer
  <1>4. \A c \in Codes : /\ b.pos[c].qty \in Int /\ b.pos[c].margin \in Nat
                         /\ after.pos[c].qty \in Int /\ after.pos[c].margin \in Nat
    BY <1>2, PositionTyping
  <1>5. Frozen(b, legs[1]) = 0 /\ Frozen(b, legs[2]) = 0
    BY <1>1, <1>3, FrozenTyping
  <1>6. \A r \in Pairs : /\ after.pos[Put(r)].qty >= 0
                         /\ after.pos[Call(r)].qty = -after.pos[Put(r)].qty
    <2> TAKE r \in Pairs
    <2>1. b.pos[Put(r)].qty >= 0 /\ b.pos[Call(r)].qty = -b.pos[Put(r)].qty
      BY DEF Safe
    <2>2. CASE r = p
      BY <1>2, <1>3, <1>4, <2>1, <2>2
    <2>3. CASE r # p
      <3>1. Put(r) # Put(p) /\ Call(r) # Call(p) /\ Put(r) # Call(p) /\ Call(r) # Put(p)
        BY <2>3, CodesDiffer
      <3>2. after.pos[Put(r)] = b.pos[Put(r)] /\ after.pos[Call(r)] = b.pos[Call(r)]
        BY <1>2, <1>3, <3>1
      <3>3. QED
        BY <2>1, <3>2
    <2>4. QED
      BY <2>2, <2>3
  <1>7. after.pos[Call(p)].margin > 0 => after.pos[Call(p)].qty < 0
    <2>1. CASE n < b.pos[Put(p)].qty
      BY <1>2, <1>3, <1>4, <1>6, <2>1
    <2>2. CASE n = b.pos[Put(p)].qty
      <3>1. b.pos[Call(p)].qty = -n
        BY <2>2 DEF Safe
      <3>2. Released(b.pos[Call(p)], legs[3]) = b.pos[Call(p)].margin
        <4>1. b.pos[Call(p)].qty < 0 /\ legs[3].qty >= -b.pos[Call(p)].qty
          BY <1>1, <3>1
        <4>2. b.pos[Call(p)] \in Position
          BY <1>3, PositionTyping
        <4>3. QED
          BY <1>1, <1>3, <4>1, <4>2, ReleasedBounds
      <3>3. Frozen(b, legs[3]) = -b.pos[Call(p)].margin
        BY <1>1, <3>2, FrozenTyping
      <3>4. QED
        BY <1>2, <1>3, <1>4, <3>3
    <2>3. QED
      BY <1>3, <1>4, <2>1, <2>2
  <1>8. \A c \in Codes : after.pos[c].margin > 0 => after.pos[c].qty < 0
    <2> TAKE c \in Codes
    <2>1. b.pos[c].margin > 0 => b.pos[c].qty < 0
      BY DEF Safe
    <2>2. b.pos[Etf].qty >= 0 /\ b.pos[Put(p)].qty >= 0
      BY DEF Safe
    <2>3. CASE c \in {Etf, Put(p)}
      BY <1>2, <1>3, <1>4, <1>5, <2>1, <2>2, <2>3
    <2>4. CASE c = Call(p)
      BY <1>7, <2>4
    <2>5. CASE c \notin {Etf, Put(p), Call(p)}
      BY <1>2, <2>1, <2>5
    <2>6. QED
      BY <2>3, <2>4, <2>5
  <1>9. after.pos[Etf].qty >= 0 /\ after.pos[Etf].qty = b.pos[Etf].qty - shares
    BY <1>2, <1>3, <1>4
  <1>10. QED
    BY <1>2, <1>6, <1>8, <1>9 DEF Safe, SoldFrom, after

-----------------------------------------------------------------------------
(* The orders of the engine.                                               *)

LEMMA ConstantTyping ==
  /\ \A p \in Pairs : Unit[p] \in Nat \ {0} /\ Strike[p] \in Nat
  /\ OptFee \in Nat /\ EtfFee \in Nat /\ OptSlip \in Nat /\ EtfSlip \in Nat
  /\ Risk \in Nat /\ RiskFloor \in Nat /\ LastClose \in Nat /\ CfgUnit \in Nat \ {0}
  /\ MaxPerSignal \in Nat \ {0} /\ MaxDay \in Nat /\ MaxTicks \in Nat
  BY BacktestConstantsOK, CfgUnitOK

LEMMA SnapshotTyping ==
  ASSUME NEW m \in Markets
  PROVE  /\ m.bid \in Nat /\ m.ask \in Nat /\ m.code \in Codes /\ m.last \in Nat
         /\ \A p \in Pairs :
              /\ m.q[p].cb \in Nat /\ m.q[p].ca \in Nat /\ m.q[p].pb \in Nat
              /\ m.q[p].pa \in Nat /\ m.q[p].openQty \in Nat \cup {NoQty}
              /\ m.q[p].closeQty \in Nat \cup {NoQty}
  BY BacktestConstantsOK DEF Snapshot

LEMMA MarginTyping ==
  ASSUME NEW p \in Pairs, NEW price \in Int
  PROVE  Margin(p, price) \in Int /\ (price >= 0 => Margin(p, price) >= 0)
  <1> DEFINE otm == Greater(Strike[p] - LastClose, 0)
  <1> DEFINE x == (Risk - otm) * CfgUnit
  <1> DEFINE y == RiskFloor * CfgUnit
  <1>1. otm \in Int
    BY ConstantTyping DEF Greater
  <1>2. x \in Int /\ y \in Nat /\ price * CfgUnit \in Int
    BY <1>1, ConstantTyping
  <1>3. price >= 0 => price * CfgUnit >= 0
    BY ConstantTyping
  <1>4. Margin(p, price) = price * CfgUnit + Greater(x, y)
    BY DEF Margin
  <1> HIDE DEF otm, x, y
  <1>5. Greater(x, y) \in Nat
    BY <1>2 DEF Greater
  <1>6. QED
    BY <1>2, <1>3, <1>4, <1>5

LEMMA LegTyping ==
  ASSUME NEW code \in Codes, NEW dir \in {1, -1}, NEW price \in Int,
         NEW qty \in Nat \ {0}, NEW mult \in Nat, NEW fee \in Nat, NEW margin \in Int
  PROVE  Leg(code, dir, price, qty, mult, fee, margin) \in Trade
  BY DEF Leg, Trade

LEMMA OpenLegsTyping ==
  ASSUME NEW m \in Markets, NEW p \in Pairs, NEW n \in Nat \ {0}
  PROVE  n * Unit[p] \in Nat \ {0} /\ Buys(p, n, n * Unit[p], OpenLegs(m, p, n))
  <1> DEFINE price == m.q[p].cb - OptSlip
  <1> DEFINE etf == Leg(Etf, 1, m.ask + EtfSlip, n * Unit[p], 1, EtfFee, 0)
  <1> DEFINE put == Leg(Put(p), 1, m.q[p].pa + OptSlip, n, Unit[p], OptFee * n, 0)
  <1> DEFINE call == Leg(Call(p), -1, price, n, Unit[p], OptFee * n, Margin(p, price) * n)
  <1>1. n * Unit[p] \in Nat \ {0} /\ OptFee * n \in Nat
    BY ConstantTyping
  <1>2. /\ m.ask + EtfSlip \in Int /\ m.q[p].pa + OptSlip \in Int /\ price \in Int
    BY ConstantTyping, SnapshotTyping
  <1>3. Margin(p, price) * n \in Int
    BY <1>2, MarginTyping
  <1>4. Etf \in Codes /\ Call(p) \in Codes /\ Put(p) \in Codes
    BY CodesDiffer
  <1> HIDE DEF price
  <1>5. etf \in Trade
    <2> DEFINE cost == m.ask + EtfSlip
    <2> DEFINE shares == n * Unit[p]
    <2>1. cost \in Int /\ shares \in Nat \ {0} /\ EtfFee \in Nat
      BY <1>1, <1>2, ConstantTyping
    <2> HIDE DEF cost, shares
    <2>2. Leg(Etf, 1, cost, shares, 1, EtfFee, 0) \in Trade
      BY <1>4, <2>1, LegTyping
    <2>3. QED
      BY <2>2 DEF cost, shares
  <1>6. put \in Trade
    BY <1>1, <1>2, <1>4, ConstantTyping, LegTyping
  <1>7. call \in Trade
    BY <1>1, <1>2, <1>3, <1>4, ConstantTyping, LegTyping
  <1>8. OpenLegs(m, p, n) = <<etf, put, call>>
    BY DEF OpenLegs, price
  <1>9. OrderOn(p, <<etf, put, call>>)
    BY <1>5, <1>6, <1>7 DEF OrderOn, Leg
  <1>10. Buys(p, n, n * Unit[p], <<etf, put, call>>)
    BY <1>9 DEF Buys, Leg
  <1>11. QED
    BY <1>1, <1>8, <1>10

LEMMA CloseLegsTyping ==
  ASSUME NEW p \in Pairs, NEW n \in Nat \ {0},
         NEW x \in Int, NEW y \in Int, NEW z \in Int
  PROVE  n * Unit[p] \in Nat \ {0} /\ Sells(p, n, n * Unit[p], CloseLegs(p, n, x, y, z))
  <1> DEFINE etf == Leg(Etf, -1, x, n * Unit[p], 1, EtfFee, 0)
  <1> DEFINE put == Leg(Put(p), -1, y, n, Unit[p], OptFee * n, 0)
  <1> DEFINE call == Leg(Call(p), 1, z, n, Unit[p], OptFee * n, 0)
  <1>1. n * Unit[p] \in Nat \ {0} /\ OptFee * n \in Nat
    BY ConstantTyping
  <1>2. Etf \in Codes /\ Call(p) \in Codes /\ Put(p) \in Codes
    BY CodesDiffer
  <1>3. etf \in Trade
    BY <1>1, <1>2, ConstantTyping, LegTyping
  <1>4. put \in Trade
    BY <1>1, <1>2, ConstantTyping, LegTyping
  <1>5. call \in Trade
    BY <1>1, <1>2, ConstantTyping, LegTyping
  <1>6. CloseLegs(p, n, x, y, z) = <<etf, put, call>>
    BY DEF CloseLegs
  <1>7. OrderOn(p, <<etf, put, call>>)
    BY <1>3, <1>4, <1>5 DEF OrderOn, Leg
  <1>8. Sells(p, n, n * Unit[p], <<etf, put, call>>)
    BY <1>7 DEF Sells, Leg
  <1>9. QED
    BY <1>1, <1>6, <1>8

LEMMA OpenQtyTyping ==
  ASSUME NEW m \in Markets, NEW p \in Pairs, Opens(m, p), book \in Book
  PROVE  OpenQty(m, p) \in Nat \ {0} /\ OpenQty(m, p) <= MaxPerSignal
  <1> DEFINE perSet == 5 * (m.ask + Risk) * Unit[p]
  <1> DEFINE affordable == (book.cash * 4) \div perSet
  <1>1. m.ask \in Nat \ {0} /\ OrderSize(m, p) > 0
    BY SnapshotTyping DEF Opens, Takeable
  <1>2. perSet \in Nat \ {0}
    <2>1. m.ask + Risk \in Nat \ {0} /\ Unit[p] \in Nat \ {0}
      BY <1>1, ConstantTyping
    <2>2. 5 * (m.ask + Risk) \in Nat \ {0}
      BY <2>1
    <2>3. QED
      BY <2>1, <2>2
  <1>3. book.cash * 4 \in Int
    BY DEF Book
  <1> HIDE DEF perSet
  <1>4. affordable \in Int
    BY <1>2, <1>3, DivBounds
  <1>5. OrderSize(m, p) = Greater(0, Lesser(affordable, MaxPerSignal))
    BY DEF OrderSize, perSet
  <1> HIDE DEF affordable
  <1>6. /\ OrderSize(m, p) \in Nat \ {0} /\ OrderSize(m, p) <= MaxPerSignal
        /\ MaxPerSignal \in Nat
    BY <1>1, <1>4, <1>5, ConstantTyping DEF Greater, Lesser
  <1>7. QED
    BY <1>6, SnapshotTyping DEF OpenQty, Greater

LEMMA MinOfThree ==
  ASSUME NEW x \in Int, NEW y \in Int, NEW z \in Int
  PROVE  /\ Min({x, y, z}) \in Int
         /\ Min({x, y, z}) <= x /\ Min({x, y, z}) <= y /\ Min({x, y, z}) <= z
  <1>1. \E w \in {x, y, z} : \A v \in {x, y, z} : w <= v
    OBVIOUS
  <1>2. QED
    BY <1>1 DEF Min

LEMMA SetsHeldTyping ==
  ASSUME NEW p \in Pairs, book \in Book
  PROVE  /\ Held(Etf) \in Int /\ Held(Put(p)) \in Int /\ Held(Etf) \div Unit[p] \in Int
         /\ (Held(Etf) \div Unit[p]) * Unit[p] <= Held(Etf)
         /\ SetsHeld(p) \in Int
         /\ SetsHeld(p) <= Held(Put(p)) /\ SetsHeld(p) <= Held(Etf) \div Unit[p]
  <1> DEFINE call == -Held(Call(p))
  <1> DEFINE put == Held(Put(p))
  <1> DEFINE sets == Held(Etf) \div Unit[p]
  <1>1. Held(Etf) \in Int /\ put \in Int /\ call \in Int
    <2>1. Etf \in Codes /\ Call(p) \in Codes /\ Put(p) \in Codes
      BY CodesDiffer
    <2>2. QED
      BY <2>1, PositionTyping DEF Held
  <1>2. sets \in Int /\ sets * Unit[p] <= Held(Etf)
    BY <1>1, ConstantTyping, DivBounds
  <1>3. SetsHeld(p) = Min({call, put, sets})
    BY DEF SetsHeld
  <1> HIDE DEF call, put, sets
  <1>4. /\ Min({call, put, sets}) \in Int
        /\ Min({call, put, sets}) <= put /\ Min({call, put, sets}) <= sets
    BY <1>1, <1>2, MinOfThree
  <1>5. QED
    BY <1>1, <1>2, <1>3, <1>4 DEF put, sets

\* No more sets than the puts and the shares allow.
LEMMA SetsHeldBounds ==
  ASSUME NEW p \in Pairs, book \in Book, NEW n \in Nat \ {0}, n <= SetsHeld(p)
  PROVE  n <= Held(Put(p)) /\ n * Unit[p] <= Held(Etf)
  <1> DEFINE sets == Held(Etf) \div Unit[p]
  <1>1. /\ Held(Etf) \in Int /\ Held(Put(p)) \in Int /\ sets \in Int
        /\ sets * Unit[p] <= Held(Etf) /\ SetsHeld(p) \in Int
        /\ SetsHeld(p) <= Held(Put(p)) /\ SetsHeld(p) <= sets
    BY SetsHeldTyping
  <1> HIDE DEF sets
  <1>2. n * Unit[p] \in Int /\ n * Unit[p] <= sets * Unit[p] /\ sets * Unit[p] \in Int
    <2>1. n <= sets /\ Unit[p] \in Nat
      BY <1>1, ConstantTyping
    <2>2. Unit[p] * n <= Unit[p] * sets
      BY <1>1, <2>1, TimesMonotone
    <2>3. QED
      BY <1>1, <2>1, <2>2
  <1>3. QED
    BY <1>1, <1>2

-----------------------------------------------------------------------------
(* The inductive invariant.  The day of the last purchase is what keeps    *)
(* the shares of the day from being sold, so it is part of it.             *)

Inv ==
    /\ StateTyped
    /\ tick # NoTick => phase = "day" /\ ticks < MaxTicks
    /\ Safe(book)
    /\ phase \in {"between", "day"} => Held(Etf) >= bought
    /\ bought > 0 => book.etfDay = day

LEMMA EtfTyping ==
  ASSUME book \in Book
  PROVE  Held(Etf) \in Int
  BY CodesDiffer, PositionTyping DEF Held

LEMMA InvInit == Init => Inv
  <1> SUFFICES ASSUME Init PROVE Inv
    OBVIOUS
  <1>1. Flat \in Position /\ Flat.qty = 0 /\ Flat.margin = 0
    BY DEF Flat, Position
  <1>2. [c \in Codes |-> Flat] \in [Codes -> Position]
    BY <1>1
  <1>3. book \in Book /\ book.etfDay = 0 /\ book.pos = [c \in Codes |-> Flat]
    BY <1>2, BacktestConstantsOK DEF Init, NewBook, Book
  <1>4. \A c \in Codes : book.pos[c].qty = 0 /\ book.pos[c].margin = 0
    BY <1>1, <1>3
  <1>5. Safe(book) /\ Held(Etf) >= 0
    BY <1>4, CodesDiffer DEF Safe, Held
  <1>6. StateTyped
    BY <1>3, ConstantTyping DEF StateTyped, Init
  <1>7. QED
    BY <1>5, <1>6 DEF Inv, Init

LEMMA InvStartDay ==
  ASSUME Inv, NEW L \in SUBSET Pairs, StartDay(L)
  PROVE  Inv'
  <1>1. tick = NoTick /\ Held(Etf) >= 0
    BY DEF Inv, StartDay, Safe, Held
  <1>2. StateTyped'
    BY ConstantTyping DEF Inv, StateTyped, StartDay
  <1>3. /\ book' = book /\ bought' = 0 /\ tick' = NoTick /\ Held(Etf)' = Held(Etf)
    BY <1>1 DEF StartDay, Held
  <1>4. Safe(book') /\ Held(Etf) \in Int
    BY <1>3, EtfTyping DEF Inv, StateTyped
  <1>5. QED
    BY <1>1, <1>2, <1>3, <1>4 DEF Inv

LEMMA InvTick ==
  ASSUME Inv, NEW m \in Markets, NEW final \in BOOLEAN, Tick(m, final)
  PROVE  Inv'
  <1>1. opens' \subseteq Pairs /\ closes' \subseteq Pairs /\ forced' \subseteq Pairs
    BY DEF Inv, StateTyped, Tick, OpenSignals, CloseSignals, ForcedCloses
  <1>2. [m |-> m, final |-> final] \in [m : Markets, final : BOOLEAN]
    OBVIOUS
  <1>3. StateTyped'
    BY <1>1, <1>2 DEF Inv, StateTyped, Tick
  <1>4. phase' = "day" /\ ticks' < MaxTicks
    BY DEF Tick
  <1>5. UNCHANGED <<book, phase, bought, day>> /\ Held(Etf)' = Held(Etf)
    BY DEF Tick, Held
  <1>6. QED
    BY <1>3, <1>4, <1>5 DEF Inv

LEMMA InvHandleOpen ==
  ASSUME Inv, NEW p \in Pairs, HandleOpen(p)
  PROVE  Inv'
  <1> DEFINE m == tick.m
  <1> DEFINE n == OpenQty(m, p)
  <1>1. m \in Markets /\ book \in Book /\ day \in Nat /\ bought \in Nat /\ Safe(book)
    BY ConstantTyping DEF Inv, StateTyped, HandleOpen
  <1>2. /\ opens' \subseteq Pairs /\ UNCHANGED <<phase, day, contracts, ticks, tick, closes>>
        /\ UNCHANGED <<forced, forcedToday, cache, closing>>
    BY DEF Inv, StateTyped, HandleOpen
  <1>3. CASE ~Opens(m, p)
    <2>1. UNCHANGED <<book, bought, cooled>>
      BY <1>3 DEF HandleOpen
    <2>2. Held(Etf)' = Held(Etf)
      BY <2>1 DEF Held
    <2>3. StateTyped'
      BY <1>2, <2>1 DEF Inv, StateTyped
    <2>4. QED
      BY <1>2, <2>1, <2>2, <2>3 DEF Inv
  <1>4. CASE Opens(m, p)
    <2>1. n \in Nat \ {0}
      BY <1>1, <1>4, OpenQtyTyping
    <2>2. /\ book' = ProcessTrades(book, OpenLegs(m, p, n), day)
          /\ bought' = bought + n * Unit[p] /\ cooled' = FALSE
      BY <1>4 DEF HandleOpen
    <2> HIDE DEF n, m
    <2>3. n * Unit[p] \in Nat \ {0} /\ Buys(p, n, n * Unit[p], OpenLegs(m, p, n))
      BY <1>1, <2>1, OpenLegsTyping
    <2>4. BoughtInto(book, day, n * Unit[p], OpenLegs(m, p, n), book')
      BY <1>1, <2>1, <2>2, <2>3, OpeningIsSafe
    <2>5. /\ book' \in Book /\ Safe(book') /\ book'.etfDay = day
          /\ Held(Etf)' = Held(Etf) + n * Unit[p]
      BY <2>4 DEF BoughtInto, Held
    <2>6. bought' \in Nat /\ StateTyped'
      <3>1. bought' \in Nat
        BY <1>1, <2>2, <2>3
      <3>2. QED
        BY <1>2, <2>2, <2>5, <3>1 DEF Inv, StateTyped
    <2>7. phase' \in {"between", "day"} => Held(Etf)' >= bought'
      BY <1>1, <1>2, <2>2, <2>3, <2>5, EtfTyping DEF Inv
    <2>8. QED
      BY <1>2, <2>5, <2>6, <2>7 DEF Inv
  <1>5. QED
    BY <1>3, <1>4

\* A sale of no more sets than are held, of shares not frozen today.
LEMMA SaleIsSafe ==
  ASSUME book \in Book, Safe(book), day \in Nat,
         NEW p \in Pairs, NEW n \in Nat \ {0}, n <= SetsHeld(p),
         NEW x \in Int, NEW y \in Int, NEW z \in Int,
         book' = ProcessTrades(book, CloseLegs(p, n, x, y, z), day)
  PROVE  book' \in Book /\ Safe(book') /\ book'.etfDay = book.etfDay
  <1>1. n * Unit[p] \in Nat \ {0} /\ Sells(p, n, n * Unit[p], CloseLegs(p, n, x, y, z))
    BY CloseLegsTyping
  <1>2. n <= book.pos[Put(p)].qty /\ n * Unit[p] <= book.pos[Etf].qty
    BY SetsHeldBounds DEF Held
  <1>3. SoldFrom(book, n * Unit[p], book')
    BY <1>1, <1>2, ClosingIsSafe
  <1>4. QED
    BY <1>3 DEF SoldFrom

LEMMA CloseQtyBounds ==
  ASSUME NEW m \in Markets, NEW p \in Pairs, NEW isForced \in BOOLEAN,
         book \in Book, CloseQty(m, p, isForced) > 0
  PROVE  /\ CloseQty(m, p, isForced) \in Nat \ {0}
         /\ CloseQty(m, p, isForced) <= SetsHeld(p) /\ book.etfDay # day
  <1>1. SetsHeld(p) \in Int
    BY SetsHeldTyping
  <1>2. m.q[p].closeQty \in Nat \cup {NoQty}
    BY SnapshotTyping
  <1>3. QED
    BY <1>1, <1>2 DEF CloseQty, Closeable

LEMMA InvHandleClose ==
  ASSUME Inv, NEW p \in Pairs, NEW isForced \in BOOLEAN, HandleClose(p, isForced)
  PROVE  Inv'
  <1> DEFINE m == tick.m
  <1> DEFINE n == CloseQty(m, p, isForced)
  <1>1. m \in Markets /\ book \in Book /\ day \in Nat /\ bought \in Nat /\ Safe(book)
    BY ConstantTyping DEF Inv, StateTyped, HandleClose
  <1>2. /\ closes' \subseteq Pairs /\ forced' \subseteq Pairs
        /\ UNCHANGED <<phase, day, contracts, ticks, tick, opens, cooled>>
        /\ UNCHANGED <<forcedToday, cache, closing, bought>>
    BY DEF Inv, StateTyped, HandleClose
  <1>3. CASE book' = book
    <2>1. Held(Etf)' = Held(Etf)
      BY <1>3 DEF Held
    <2>2. StateTyped'
      BY <1>2, <1>3 DEF Inv, StateTyped
    <2>3. QED
      BY <1>2, <1>3, <2>1, <2>2 DEF Inv
  <1>4. CASE /\ n > 0
             /\ book' = ProcessTrades(book,
                            CloseLegs(p, n, m.bid - EtfSlip, m.q[p].pb - OptSlip,
                                      m.q[p].ca + OptSlip), day)
    <2>1. n \in Nat \ {0} /\ n <= SetsHeld(p) /\ book.etfDay # day
      BY <1>1, <1>4, CloseQtyBounds
    <2>2. /\ m.bid - EtfSlip \in Int /\ m.q[p].pb - OptSlip \in Int
          /\ m.q[p].ca + OptSlip \in Int
      BY <1>1, SnapshotTyping, ConstantTyping
    <2> HIDE DEF n, m
    <2>3. book' \in Book /\ Safe(book') /\ book'.etfDay = book.etfDay
      BY <1>1, <1>4, <2>1, <2>2, SaleIsSafe
    <2>4. bought' = 0
      BY <1>1, <1>2, <2>1 DEF Inv
    <2>5. Held(Etf)' >= 0
      BY <2>3 DEF Safe, Held
    <2>6. StateTyped'
      BY <1>2, <2>3 DEF Inv, StateTyped
    <2>7. QED
      BY <1>2, <2>3, <2>4, <2>5, <2>6 DEF Inv
  <1>5. QED
    BY <1>3, <1>4 DEF HandleClose

LEMMA InvEndTick == Inv /\ EndTick => Inv'
  <1> SUFFICES ASSUME Inv, EndTick PROVE Inv'
    OBVIOUS
  <1>1. tick.m \in Markets /\ ticks + 1 \in 0 .. MaxTicks
    BY ConstantTyping DEF Inv, StateTyped, EndTick
  <1>2. cache' \in [Codes -> Nat]
    <2>1. tick.m.code \in Codes /\ tick.m.last \in Nat
      BY <1>1, SnapshotTyping
    <2>2. [cache EXCEPT ![tick.m.code] = tick.m.last] \in [Codes -> Nat]
      BY <2>1 DEF Inv, StateTyped
    <2>3. QED
      BY <2>2 DEF Inv, StateTyped, EndTick
  <1>3. /\ phase = "day" /\ phase' \in {"between", "day"} /\ tick' = NoTick
        /\ ticks' = ticks + 1
    BY DEF Inv, EndTick
  <1>4. /\ UNCHANGED <<day, contracts, cooled, opens, closes, forced, forcedToday>>
        /\ UNCHANGED <<book, closing, bought>> /\ Held(Etf)' = Held(Etf)
    BY DEF EndTick, Held
  <1>5. StateTyped'
    BY <1>1, <1>2, <1>3, <1>4 DEF Inv, StateTyped
  <1>6. QED
    BY <1>3, <1>4, <1>5 DEF Inv

LEMMA InvBeginLiquidation == Inv /\ BeginLiquidation => Inv'
  <1> SUFFICES ASSUME Inv, BeginLiquidation PROVE Inv'
    OBVIOUS
  <1>1. /\ tick = NoTick /\ phase' = "liquidating" /\ closing' \subseteq Pairs
        /\ UNCHANGED <<day, contracts, tickVars, book, cache, bought>>
    BY DEF Inv, BeginLiquidation
  <1>2. StateTyped'
    BY <1>1 DEF Inv, StateTyped, tickVars
  <1>3. QED
    BY <1>1, <1>2 DEF Inv, tickVars

\* The last price of what is held is a number, whether the cache has one or not.
LEMMA LastPriceTyping ==
  ASSUME book \in Book, cache \in [Codes -> Nat], NEW c \in Codes, Held(c) # 0
  PROVE  LastPrice(c) \in Int
  <1>1. Held(c) \in Int /\ book.pos[c].cost \in Int
    BY PositionTyping DEF Held
  <1>2. AbsOf(Held(c)) \in Nat \ {0}
    BY <1>1, AbsBounds
  <1>3. PriceOf(cache, c) \in Int
    <2>1. cache[c] * AbsOf(Held(c)) \in Int
      BY <1>2
    <2>2. QED
      BY <1>1, <2>1 DEF PriceOf
  <1>4. QED
    BY <1>2, <1>3, DivBounds DEF LastPrice

LEMMA InvLiquidate ==
  ASSUME Inv, NEW p \in Pairs, Liquidate(p)
  PROVE  Inv'
  <1>1. /\ book \in Book /\ day \in Nat /\ Safe(book) /\ cache \in [Codes -> Nat]
        /\ tick = NoTick
    BY ConstantTyping DEF Inv, StateTyped, Liquidate
  <1>2. /\ phase = "liquidating" /\ closing' \subseteq Pairs
        /\ UNCHANGED <<phase, day, contracts, tickVars, cache, bought>>
    BY DEF Inv, StateTyped, Liquidate
  <1>3. book' \in Book /\ Safe(book') /\ book'.etfDay = book.etfDay
    <2>1. CASE book' = book
      BY <1>1, <2>1
    <2>2. CASE /\ Opened(p) /\ SetsHeld(p) > 0
               /\ book' = ProcessTrades(book,
                        CloseLegs(p, LiquidationQty(p),
                                  Greater(LastPrice(Etf) - EtfSlip, 1),
                                  Greater(LastPrice(Put(p)) - OptSlip, 1),
                                  Greater(LastPrice(Call(p)) + OptSlip, 1)), day)
      <3>1. Etf \in Codes /\ Call(p) \in Codes /\ Put(p) \in Codes
        BY CodesDiffer
      <3>2. /\ LastPrice(Etf) \in Int /\ LastPrice(Put(p)) \in Int
            /\ LastPrice(Call(p)) \in Int
        BY <1>1, <2>2, <3>1, LastPriceTyping DEF Opened
      <3>3. /\ Greater(LastPrice(Etf) - EtfSlip, 1) \in Int
            /\ Greater(LastPrice(Put(p)) - OptSlip, 1) \in Int
            /\ Greater(LastPrice(Call(p)) + OptSlip, 1) \in Int
        BY <3>2, ConstantTyping DEF Greater
      <3>4. SetsHeld(p) \in Nat \ {0}
        BY <1>1, <2>2, SetsHeldTyping
      <3>5. QED
        BY <1>1, <2>2, <3>3, <3>4, SaleIsSafe DEF LiquidationQty
    <2>3. QED
      BY <2>1, <2>2 DEF Liquidate
  <1>4. StateTyped'
    BY <1>2, <1>3 DEF Inv, StateTyped, tickVars
  <1>5. QED
    BY <1>1, <1>2, <1>3, <1>4 DEF Inv, tickVars

LEMMA InvFinish == Inv /\ Finish => Inv'
  <1> SUFFICES ASSUME Inv, Finish PROVE Inv'
    OBVIOUS
  <1>1. /\ phase = "liquidating" /\ phase' = "done" /\ tick = NoTick
        /\ UNCHANGED <<day, contracts, tickVars, book, cache, closing, bought>>
    BY DEF Inv, Finish
  <1>2. StateTyped'
    BY <1>1 DEF Inv, StateTyped, tickVars
  <1>3. QED
    BY <1>1, <1>2 DEF Inv, tickVars

LEMMA InvNext == Inv /\ [Next]_vars => Inv'
  <1> SUFFICES ASSUME Inv, [Next]_vars PROVE Inv'
    OBVIOUS
  <1>1. ASSUME NEW L \in SUBSET Pairs, StartDay(L) PROVE Inv'
    BY <1>1, InvStartDay
  <1>2. ASSUME NEW m \in Markets, NEW final \in BOOLEAN, Tick(m, final) PROVE Inv'
    BY <1>2, InvTick
  <1>3. ASSUME NEW p \in Pairs, HandleOpen(p) PROVE Inv'
    BY <1>3, InvHandleOpen
  <1>4. ASSUME NEW p \in Pairs, NEW isForced \in BOOLEAN, HandleClose(p, isForced)
        PROVE Inv'
    BY <1>4, InvHandleClose
  <1>5. CASE EndTick
    BY <1>5, InvEndTick
  <1>6. CASE BeginLiquidation
    BY <1>6, InvBeginLiquidation
  <1>7. ASSUME NEW p \in Pairs, Liquidate(p) PROVE Inv'
    BY <1>7, InvLiquidate
  <1>8. CASE Finish
    BY <1>8, InvFinish
  <1>9. CASE UNCHANGED vars
    BY <1>9 DEF Inv, StateTyped, Held, vars, tickVars
  <1>10. QED
    BY <1>1, <1>2, <1>3, <1>4, <1>5, <1>6, <1>7, <1>8, <1>9 DEF Next

THEOREM InvCorrect == Spec => []Inv
  <1>1. QED
    BY InvInit, InvNext, PTL DEF Spec

-----------------------------------------------------------------------------
(* What follows from it.                                                   *)

\* T+1, for any number of pairs, contract sizes and markets: whatever opens,
\* closes, partial closes and forced closes follow one another, the shares
\* bought on a day are still held at its end.
THEOREM NotSoldSameDayCorrect == Spec => []NotSoldSameDay
  <1>1. Inv => NotSoldSameDay
    BY DEF Inv, NotSoldSameDay
  <1>2. QED
    BY <1>1, InvCorrect, PTL

\* The variables are typed; the book's margins are naturals, so a release never
\* takes more than a position has.
THEOREM StateTypedCorrect == Spec => []StateTyped
  <1>1. Inv => StateTyped
    BY DEF Inv
  <1>2. QED
    BY <1>1, InvCorrect, PTL

\* The first part of HedgedBook: partial closes and liquidations never leave a
\* call without its put, nor sell a put that is not held.
THEOREM LegsMatchedCorrect == Spec => []LegsMatched
  <1>1. Inv => LegsMatched
    BY DEF Inv, Safe, LegsMatched, Held
  <1>2. QED
    BY <1>1, InvCorrect, PTL

\* A part of MarginLedger: the margin released over any number of partial
\* closes, each rounded down, leaves nothing behind when the short is closed.
THEOREM MarginOnShortsCorrect == Spec => []MarginOnShorts
  <1>1. Inv => MarginOnShorts
    BY DEF Inv, Safe, MarginOnShorts, Held
  <1>2. QED
    BY <1>1, InvCorrect, PTL

-----------------------------------------------------------------------------
(* The cash check of an opening covers the margin it freezes.              *)

LEMMA Distribute ==
  ASSUME NEW a \in Int, NEW b \in Int, NEW c \in Int, NEW n \in Int, NEW u \in Int
  PROVE  /\ 1 * a * (n * u) * 1 + 1 * b * n * u + (-1) * c * n * u = (a + b - c) * n * u
         /\ (a + b - c) * n * u \in Int /\ 1 * a * (n * u) * 1 \in Int
         /\ 1 * b * n * u \in Int /\ (-1) * c * n * u \in Int
  OBVIOUS

\* What the three legs cost, and the margin, is what the broker asked for.
LEMMA CashNeededIsPaid ==
  ASSUME NEW m \in Markets, NEW p \in Pairs, NEW n \in Nat \ {0}
  PROVE  LET legs == OpenLegs(m, p, n) IN
         /\ Paid(legs[1]) + Paid(legs[2]) + Paid(legs[3]) + legs[3].margin
              = CashNeeded(m, p, n)
         /\ Paid(legs[1]) \in Int /\ Paid(legs[2]) \in Int /\ Paid(legs[3]) \in Int
         /\ legs[3].margin = Margin(p, m.q[p].cb - OptSlip) * n
         /\ legs[3].margin \in Int
  <1> DEFINE a == m.ask + EtfSlip
  <1> DEFINE b == m.q[p].pa + OptSlip
  <1> DEFINE c == m.q[p].cb - OptSlip
  <1> DEFINE u == Unit[p]
  <1> DEFINE legs == OpenLegs(m, p, n)
  <1>1. a \in Int /\ b \in Int /\ c \in Int /\ u \in Int
    BY ConstantTyping, SnapshotTyping
  <1>2. OptFee * n \in Int /\ EtfFee \in Int /\ 2 * OptFee * n = OptFee * n + OptFee * n
    BY ConstantTyping
  <1>3. Margin(p, c) * n \in Int
    BY <1>1, MarginTyping
  <1>4. /\ Paid(legs[1]) = 1 * a * (n * u) * 1 + EtfFee
        /\ Paid(legs[2]) = 1 * b * n * u + OptFee * n
        /\ Paid(legs[3]) = (-1) * c * n * u + OptFee * n
        /\ legs[3].margin = Margin(p, c) * n
    BY DEF OpenLegs, Leg, Paid
  <1>5. CashNeeded(m, p, n) =
          (a + b - c) * n * u + EtfFee + 2 * OptFee * n + Margin(p, c) * n
    <2>1. m.ask \in Int /\ m.q[p].pa \in Int /\ m.q[p].cb \in Int
      BY SnapshotTyping
    <2>2. m.ask + EtfSlip + m.q[p].pa + OptSlip - (m.q[p].cb - OptSlip) = a + b - c
      BY <2>1, ConstantTyping
    <2>3. QED
      BY <2>2 DEF CashNeeded
  <1> HIDE DEF a, b, c, u, legs
  <1>6. /\ 1 * a * (n * u) * 1 + 1 * b * n * u + (-1) * c * n * u = (a + b - c) * n * u
        /\ (a + b - c) * n * u \in Int /\ 1 * a * (n * u) * 1 \in Int
        /\ 1 * b * n * u \in Int /\ (-1) * c * n * u \in Int
    BY <1>1, Distribute
  <1> DEFINE x == 1 * a * (n * u) * 1
  <1> DEFINE y == 1 * b * n * u
  <1> DEFINE z == (-1) * c * n * u
  <1> DEFINE all == (a + b - c) * n * u
  <1> DEFINE f == OptFee * n
  <1> DEFINE g == 2 * OptFee * n
  <1> DEFINE k == Margin(p, c) * n
  <1>7. /\ x \in Int /\ y \in Int /\ z \in Int /\ f \in Int /\ k \in Int /\ EtfFee \in Int
        /\ x + y + z = all /\ g = f + f
        /\ Paid(legs[1]) = x + EtfFee /\ Paid(legs[2]) = y + f /\ Paid(legs[3]) = z + f
        /\ legs[3].margin = k /\ CashNeeded(m, p, n) = all + EtfFee + g + k
    BY <1>2, <1>3, <1>4, <1>5, <1>6
  <1> HIDE DEF x, y, z, all, f, g, k
  <1>8. /\ Paid(legs[1]) + Paid(legs[2]) + Paid(legs[3]) + legs[3].margin
             = CashNeeded(m, p, n)
        /\ Paid(legs[1]) \in Int /\ Paid(legs[2]) \in Int /\ Paid(legs[3]) \in Int
    BY <1>7
  <1>9. QED
    BY <1>3, <1>4, <1>8 DEF legs, c

\* Margin is frozen only if positive: the check covers it when the price a call
\* is sold at, its bid less the slippage, is not negative.
LEMMA OpeningIsFunded ==
  ASSUME Inv, NEW p \in Pairs, HandleOpen(p), Opens(tick.m, p),
         tick.m.q[p].cb >= OptSlip
  PROVE  book'.cash >= book'.totalMargin - book.totalMargin
  <1> DEFINE m == tick.m
  <1> DEFINE n == OpenQty(m, p)
  <1> DEFINE legs == OpenLegs(m, p, n)
  <1>1. m \in Markets /\ book \in Book /\ day \in Nat /\ Safe(book)
    BY ConstantTyping DEF Inv, StateTyped, HandleOpen
  <1>2. n \in Nat \ {0}
    BY <1>1, OpenQtyTyping
  <1>3. book' = ProcessTrades(book, legs, day)
    BY DEF HandleOpen
  <1>4. CashNeeded(m, p, n) <= book.cash /\ book.cash \in Int /\ book.totalMargin \in Int
    BY <1>1 DEF Opens, Book
  <1>5. m.q[p].cb - OptSlip \in Int /\ m.q[p].cb - OptSlip >= 0
    BY <1>1, ConstantTyping, SnapshotTyping
  <1> HIDE DEF m, n
  <1>6. Buys(p, n, n * Unit[p], legs) /\ n * Unit[p] \in Nat \ {0}
    BY <1>1, <1>2, OpenLegsTyping
  <1>7. /\ Paid(legs[1]) + Paid(legs[2]) + Paid(legs[3]) + legs[3].margin
             = CashNeeded(m, p, n)
        /\ Paid(legs[1]) \in Int /\ Paid(legs[2]) \in Int /\ Paid(legs[3]) \in Int
        /\ legs[3].margin = Margin(p, m.q[p].cb - OptSlip) * n
        /\ legs[3].margin \in Int
    BY <1>1, <1>2, CashNeededIsPaid
  <1> HIDE DEF legs
  <1>8. legs[3].margin >= 0
    <2>1. Margin(p, m.q[p].cb - OptSlip) \in Nat
      BY <1>5, MarginTyping
    <2>2. QED
      BY <1>2, <1>7, <2>1
  <1>9. Greater(legs[3].margin, 0) = legs[3].margin
    BY <1>7, <1>8 DEF Greater
  <1>10. BoughtInto(book, day, n * Unit[p], legs, book')
    BY <1>1, <1>2, <1>3, <1>6, OpeningIsSafe
  <1>11. /\ book'.totalMargin = book.totalMargin + legs[3].margin
         /\ book'.cash = book.cash - Paid(legs[1]) - Paid(legs[2]) - Paid(legs[3])
    BY <1>9, <1>10 DEF BoughtInto
  <1>12. QED
    BY <1>4, <1>7, <1>11

\* An opening leaves the cash that its margin needs, for any order size, depth
\* and contract size, if no call is bid below the slippage.
THEOREM OpeningFundedCorrect ==
  ASSUME \A m \in Markets, p \in Pairs : m.q[p].cb > 0 => m.q[p].cb >= OptSlip
  PROVE  Spec => OpeningFunded
  <1>1. Inv /\ [Next]_vars =>
          [bought' > bought => book'.cash >= book'.totalMargin - book.totalMargin]_vars
    <2> SUFFICES ASSUME Inv, Next, bought' > bought
                 PROVE  book'.cash >= book'.totalMargin - book.totalMargin
      OBVIOUS
    <2>1. PICK p \in Pairs : HandleOpen(p)
      <3>1. bought \in Nat /\ (bought' = bought \/ bought' = 0 => FALSE)
        BY DEF Inv, StateTyped
      <3>2. QED
        BY <3>1 DEF Next, StartDay, Tick, HandleClose, EndTick, BeginLiquidation,
                    Liquidate, Finish
    <2>2. Opens(tick.m, p)
      <3>1. bought \in Nat
        BY DEF Inv, StateTyped
      <3>2. QED
        BY <2>1, <3>1 DEF HandleOpen
    <2>3. tick.m \in Markets /\ tick.m.q[p].cb > 0
      BY <2>1, <2>2 DEF Inv, StateTyped, HandleOpen, Opens, Takeable
    <2>4. QED
      BY <2>1, <2>2, <2>3, OpeningIsFunded
  <1>2. QED
    BY <1>1, InvCorrect, PTL DEF Spec, OpeningFunded
=============================================================================
