---------------------------- MODULE Backtest_proofs ----------------------------
(***************************************************************************)
(* What the backtest engine does with orders and money, for any number of  *)
(* series, any prices, strategies, funding rates and limits.               *)
(*                                                                         *)
(* Orders: OrdersReachTarget, PurchasesCovered, and that no fill finds its *)
(* inventory gone under a guard that forbids spot shorts.  From IInv:      *)
(*   TypeOK and Typed   the types, with averages and quantities that are   *)
(*                      whole numbers;                                     *)
(*   Marked             a series with an open or a completed bar has a     *)
(*                      mark, so a signal has a reference price;           *)
(*   Held               a position has an average exactly while it is      *)
(*                      open, and a spot position is not short;            *)
(*   Alone              a series has at most one order at work, so that a  *)
(*                      pass of the broker is the handling of one order;   *)
(*   OrdersReachTarget  that order leads to the target of the signal.      *)
(*                                                                         *)
(* The account: EquityReconciles survives every step that rounds no        *)
(* average price, hence AccountSound for runs without such a step, and for *)
(* all runs of strategies that trade a fixed size.  Further parts:         *)
(*   Booking            every snapshot is the unrealized result, and an    *)
(*                      open position has a mark;                          *)
(*   Balanced           cash is what the fills have left of it;            *)
(*   Whole              fixed sizes: a series holds nothing or that size;  *)
(*   Carried            the round trips, with the rows of this instant     *)
(*                      added, hold what the positions have earned.        *)
(*                                                                         *)
(* The end: RunsToItsResult for those runs, when prices leave room for     *)
(* offsets and slippage.  Workable: every order at work has terms at which *)
(* the broker can fill it.                                                 *)
(***************************************************************************)
EXTENDS Backtest, FiniteSetTheorems, WellFoundedInduction, TLAPS

Ids == 0 .. MaxTime
Sides == {"buy", "sell"}
Tickets == [side : Sides, type : {"market", "limit", "stop", "stop_limit"}, qty : Nat,
            tif : {"gtc", "ioc"}, limit : Int, stop : Int, sub : Nat, st : OrderStates]
Books == [Ids -> Tickets]
Positions == [qty : Int, avg : Int, real : Int]
\* The peak of the equity is a sum over the series, of which nothing is needed.
Accounts(peaks) ==
    [cash : Int, pos : [Series -> Positions], mark : [Series -> Int], shot : [Series -> Int],
     fees : Int, funding : Int, peak : peaks]

Held(position, s) == /\ (position.qty = 0) = (position.avg = None)
                     /\ position.qty # 0 => position.avg >= 0
                     /\ Spot(s) => position.qty >= 0
Alone(b) == \A i, j \in Active(b) : i = j
Leads(quantity, b, target) == \A i \in Active(b) : quantity + Sign(b[i].side) * b[i].qty = target

Typed ==
    /\ conf \in Configurations
    /\ bar \in [Series -> [open : Prices \cup {NoPrice}, since : Nat]]
    /\ closing \in [Series -> Prices \cup {NoPrice}]
    /\ seen \in [Series -> BOOLEAN]
    /\ book \in [Series -> Books]
    /\ pf \in Accounts({pf.peak})
    /\ aim \in [Series -> Int]
Marked == \A s \in Series : seen[s] \/ bar[s] # NoBar => pf.mark[s] \in Prices

IInv ==
    /\ TypeOK /\ Typed /\ Marked
    /\ \A s \in Series : Held(pf.pos[s], s) /\ Alone(book[s])
    /\ OrdersReachTarget

-----------------------------------------------------------------------------
(* Positions, marks and the ledger.                                        *)

LEMMA Products ==
    ASSUME NEW m \in Int, NEW n \in Int
    PROVE  m * n \in Int /\ (m >= 0 /\ n >= 0 => m * n >= 0)
  OBVIOUS

LEMMA Quotients ==
    ASSUME NEW m \in Int, NEW n \in Int, n > 0
    PROVE  m \div n \in Int /\ (m >= 0 => m \div n >= 0)
  OBVIOUS

LEMMA Absolute ==
    ASSUME NEW n \in Int
    PROVE  AbsInt(n) \in Nat /\ (n # 0 => AbsInt(n) > 0) /\ (n = 0 => AbsInt(n) = 0)
  BY DEF AbsInt

\* The average of a position that is opened or increased.
LEMMA AverageType ==
    ASSUME NEW q \in Int, NEW avg \in Int, NEW signed \in Int, NEW price \in Int, q + signed # 0
    PROVE  LET a == (AbsInt(q) * avg + AbsInt(signed) * price) \div AbsInt(q + signed) IN
           /\ a \in Int
           /\ price >= 0 /\ (q # 0 => avg >= 0) => a >= 0
  <1> DEFINE x == AbsInt(q) * avg
             y == AbsInt(signed) * price
             d == AbsInt(q + signed)
  <1>1. AbsInt(q) \in Nat /\ AbsInt(signed) \in Nat /\ (q = 0 => AbsInt(q) = 0)
    BY Absolute
  <1>2. d \in Nat /\ d > 0
    BY Absolute
  <1>3. x \in Int /\ y \in Int
    BY <1>1
  <1>4. price >= 0 => y >= 0
    BY <1>1, Products
  <1>5. (q # 0 => avg >= 0) => x >= 0
    <2>1. CASE q = 0
      <3>1. x = 0 * avg
        BY <1>1, <2>1
      <3> QED
        BY <3>1
    <2>2. CASE q # 0
      BY <1>1, <2>2, Products
    <2> QED
      BY <2>1, <2>2
  <1> HIDE DEF x, y, d
  <1>6. x + y \in Int /\ (x >= 0 /\ y >= 0 => x + y >= 0)
    BY <1>3
  <1>7. (x + y) \div d \in Int /\ (x + y >= 0 => (x + y) \div d >= 0)
    BY <1>2, <1>6, Quotients
  <1> QED
    BY <1>4, <1>5, <1>6, <1>7 DEF x, y, d

\* A fill moves the quantity by what it trades and keeps the position's form.
LEMMA PositionMoves ==
    ASSUME NEW p \in Positions, NEW signed \in Int, NEW price \in Int
    PROVE  /\ Position(p, signed, price) \in Positions
           /\ Position(p, signed, price).qty = p.qty + signed
           /\ \A s \in Series :
                 Held(p, s) /\ price > 0 /\ (Spot(s) => p.qty + signed >= 0)
                     => Held(Position(p, signed, price), s)
  <1> DEFINE q == p.qty
             new == q + signed
             opens == q * signed >= 0
             closed == Least(AbsInt(q), AbsInt(signed))
             a == (AbsInt(q) * p.avg + AbsInt(signed) * price) \div AbsInt(new)
             avg == IF new = 0 THEN None
                    ELSE IF opens THEN a ELSE IF q * new > 0 THEN p.avg ELSE price
             gain == closed * (price - p.avg) * (IF q > 0 THEN 1 ELSE -1)
             real == IF opens THEN p.real ELSE p.real + gain
  <1>1. q \in Int /\ p.avg \in Int /\ p.real \in Int
    BY DEF Positions
  <1>2. new \in Int
    BY <1>1
  <1>3. Position(p, signed, price) = [qty |-> new, avg |-> avg, real |-> real]
    BY DEF Position
  <1>4. new # 0 => a \in Int /\ (price >= 0 /\ (q # 0 => p.avg >= 0) => a >= 0)
    BY <1>1, AverageType
  <1>5. closed \in Int
    BY <1>1, Absolute DEF Least
  <1>6. gain \in Int
    <2> HIDE DEF closed, q
    <2>1. closed * (price - p.avg) \in Int
      BY <1>1, <1>5
    <2> QED
      BY <2>1
  <1> HIDE DEF a, gain, closed
  <1>7. avg \in Int
    BY <1>1, <1>2, <1>4 DEF None
  <1>8. real \in Int
    BY <1>1, <1>6
  <1>9. ASSUME NEW s \in Series, Held(p, s), price > 0, Spot(s) => new >= 0
        PROVE  Held([qty |-> new, avg |-> avg, real |-> real], s)
    <2>1. q # 0 => p.avg >= 0
      BY <1>9 DEF Held
    <2>2. new # 0 => avg >= 0
      <3>1. CASE opens
        BY <1>1, <1>2, <1>4, <1>9, <2>1, <3>1
      <3>2. CASE ~opens /\ q * new > 0
        <4>1. q # 0
          <5> SUFFICES ASSUME q = 0 PROVE FALSE
            OBVIOUS
          <5>1. 0 * new > 0
            BY <3>2
          <5> QED
            BY <1>2, <5>1
        <4> QED
          BY <1>1, <2>1, <3>2, <4>1
      <3>3. CASE ~opens /\ ~(q * new > 0)
        BY <1>9, <3>3
      <3> QED
        BY <3>1, <3>2, <3>3
    <2>3. (new = 0) = (avg = None)
      <3>1. new = 0 => avg = None
        OBVIOUS
      <3>2. new # 0 => avg # None
        BY <1>7, <2>2 DEF None
      <3> QED
        BY <3>1, <3>2
    <2> HIDE DEF new, avg
    <2> QED
      BY <1>9, <2>2, <2>3 DEF Held
  <1> HIDE DEF new, avg, real
  <1>10. [qty |-> new, avg |-> avg, real |-> real] \in Positions
    BY <1>2, <1>7, <1>8 DEF Positions
  <1> QED
    BY <1>3, <1>9, <1>10 DEF new, q

LEMMA UnrealizedType ==
    ASSUME NEW p \in Positions, NEW mark \in Int
    PROVE  Unrealized(p, mark) \in Int
  <1>1. p.qty \in Int /\ p.avg \in Int
    BY DEF Positions
  <1>2. p.qty * (mark - p.avg) \in Int
    BY <1>1
  <1> QED
    BY <1>2 DEF Unrealized

\* A snapshot and a mark touch nothing that is booked.
LEMMA ShotParts ==
    ASSUME NEW k, NEW p \in Accounts({k}), NEW s \in Series
    PROVE  /\ Shot(p, s) \in Accounts({k})
           /\ Shot(p, s).pos = p.pos /\ Shot(p, s).cash = p.cash /\ Shot(p, s).mark = p.mark
  <1> DEFINE u == Unrealized(p.pos[s], p.mark[s])
             shot == [p.shot EXCEPT ![s] = u]
  <1>1. u \in Int
    BY UnrealizedType DEF Accounts
  <1>2. Shot(p, s) = [p EXCEPT !.shot = shot]
    BY DEF Shot, Accounts
  <1> HIDE DEF u
  <1>3. shot \in [Series -> Int]
    BY <1>1 DEF Accounts
  <1> HIDE DEF shot
  <1> QED
    BY <1>2, <1>3 DEF Accounts

OnlyMarked(p, s, price, t) ==
    t.pos = p.pos /\ t.cash = p.cash /\ t.mark = [p.mark EXCEPT ![s] = price]

LEMMA MarkParts ==
    ASSUME NEW k, NEW p \in Accounts({k}), NEW s \in Series, NEW price \in Int
    PROVE  SetMark(p, s, price) \in Accounts({k}) /\ OnlyMarked(p, s, price, SetMark(p, s, price))
  <1> DEFINE mark == [p.mark EXCEPT ![s] = price]
             m == [p EXCEPT !.mark = mark]
  <1>1. mark \in [Series -> Int]
    BY DEF Accounts
  <1>2. SetMark(p, s, price) = Shot(m, s)
    BY DEF SetMark, Accounts
  <1> HIDE DEF mark
  <1>3. m \in Accounts({k}) /\ m.pos = p.pos /\ m.cash = p.cash /\ m.mark = mark
    BY <1>1 DEF Accounts
  <1> HIDE DEF m
  <1>4. /\ Shot(m, s) \in Accounts({k})
        /\ Shot(m, s).pos = m.pos /\ Shot(m, s).cash = m.cash /\ Shot(m, s).mark = m.mark
    BY <1>3, ShotParts
  <1> QED
    BY <1>2, <1>3, <1>4, Zenon DEF OnlyMarked, mark

Fills == [id : Ids, side : Sides, qty : Nat, price : Int, fee : Int, taker : BOOLEAN]
Traded(fill) == Sign(fill.side) * fill.qty

LEMMA TradedType ==
    ASSUME NEW fill \in Fills
    PROVE  Traded(fill) \in Int
  BY DEF Traded, Fills, Sign

\* What a fill does to the account.
Booked(p, s, fill, t) ==
    /\ t.mark = p.mark
    /\ t.pos = [p.pos EXCEPT ![s] = Position(p.pos[s], Traded(fill), fill.price)]
    /\ Spot(s) => t.cash = p.cash - fill.fee - Traded(fill) * fill.price

LEMMA FillApplied ==
    ASSUME NEW k, NEW p \in Accounts({k}), NEW s \in Series, NEW fill \in Fills
    PROVE  ApplyFill(p, s, fill) \in Accounts({k}) /\ Booked(p, s, fill, ApplyFill(p, s, fill))
  <1> DEFINE signed == Traded(fill)
             new == Position(p.pos[s], signed, fill.price)
             pos == [p.pos EXCEPT ![s] = new]
             fees == p.fees + fill.fee
             move == IF Spot(s) THEN -signed * fill.price ELSE new.real - p.pos[s].real
             cash == p.cash - fill.fee + move
             m == [p EXCEPT !.pos = pos, !.fees = fees, !.cash = cash]
  <1>1. signed \in Int /\ fill.price \in Int /\ fill.fee \in Int
    BY TradedType DEF Fills
  <1>2. p.pos[s] \in Positions /\ p.cash \in Int /\ p.fees \in Int
    BY DEF Accounts
  <1>3. new \in Positions
    BY <1>1, <1>2, PositionMoves
  <1>4. new.real \in Int /\ p.pos[s].real \in Int
    BY <1>2, <1>3 DEF Positions
  <1>5. ApplyFill(p, s, fill) = Shot(m, s)
    BY DEF ApplyFill, Accounts, Traded
  <1>6. pos \in [Series -> Positions]
    BY <1>3 DEF Accounts
  <1>7. move \in Int
    <2> HIDE DEF signed, new
    <2>1. -signed * fill.price \in Int
      BY <1>1
    <2> QED
      BY <1>4, <2>1
  <1> HIDE DEF signed, new, pos, move
  <1>8. cash \in Int /\ fees \in Int
    BY <1>1, <1>2, <1>7
  <1>9. Spot(s) => cash = p.cash - fill.fee - signed * fill.price
    <2> HIDE DEF signed
    <2>1. -signed * fill.price \in Int /\ signed * fill.price \in Int
      BY <1>1
    <2>2. Spot(s) => move = -signed * fill.price
      BY DEF move
    <2> QED
      BY <1>1, <1>2, <2>1, <2>2
  <1> HIDE DEF cash, fees
  <1>10. m \in Accounts({k}) /\ m.pos = pos /\ m.cash = cash /\ m.mark = p.mark
    BY <1>6, <1>8 DEF Accounts
  <1> HIDE DEF m
  <1>11. ApplyFill(p, s, fill) \in Accounts({k}) /\ ApplyFill(p, s, fill).pos = pos
         /\ ApplyFill(p, s, fill).cash = cash /\ ApplyFill(p, s, fill).mark = p.mark
    BY <1>5, <1>10, ShotParts
  <1> QED
    BY <1>9, <1>11 DEF Booked, pos, signed, new

\* A purchase the risk guard accepts leaves no negative cash.
LEMMA PaidFromCash ==
    ASSUME NEW cash \in Int, NEW q \in Nat, NEW price \in Int, NEW fee \in Int,
           ~(q * price + fee > cash)
    PROVE  cash - fee - 1 * q * price >= 0
  <1> DEFINE x == q * price
  <1>1. x \in Int /\ 1 * q * price = x
    OBVIOUS
  <1>2. ~(x + fee > cash)
    OBVIOUS
  <1> HIDE DEF x
  <1>3. cash - fee - x >= 0
    BY <1>1, <1>2
  <1> QED
    BY <1>1, <1>3
-----------------------------------------------------------------------------
(* One order of a pass.                                                    *)

Results(a) == [book : Books, acct : {a}, upd : Seq(Ids \X OrderStates),
               fills : Seq(Fills), raised : BOOLEAN]
Raises(r) == [r EXCEPT !.raised = TRUE]
Filled(r, i, fill) ==
    [Broker!Settled(r, i, "filled") EXCEPT !.acct = r.acct, !.fills = Append(@, fill)]

\* What the risk guard of the pass let through.
Checked(a, order, fill) ==
    /\ fill.side = order.side /\ fill.qty = order.qty
    /\ Accepts(a.pf, a.series, fill.side, fill.qty, fill.price, fill.fee, 0)

\* A result before and after the order i: others are left alone, the order keeps
\* what it is, and a fill was checked and ends it.
Handled(r, t, i) ==
    /\ \A j \in Ids \ {i} : t.book[j] = r.book[j]
    /\ t.book[i].side = r.book[i].side /\ t.book[i].qty = r.book[i].qty
    /\ \/ t.fills = r.fills
       \/ \E fill \in Fills : /\ t.fills = Append(r.fills, fill)
                              /\ Checked(r.acct, r.book[i], fill)
                              /\ ~IsActive(t.book[i])

LEMMA HandledTwice ==
    ASSUME NEW a, NEW r \in Results(a), NEW u \in Results(a), NEW t \in Results(a), NEW i \in Ids,
           Handled(r, u, i), u.fills = r.fills, Handled(u, t, i)
    PROVE  Handled(r, t, i)
  <1>1. r.acct = a /\ u.acct = a
    BY DEF Results
  <1>2. \A fill : Checked(u.acct, u.book[i], fill) => Checked(r.acct, r.book[i], fill)
    BY <1>1, Zenon DEF Checked, Handled
  <1>3. \A j \in Ids \ {i} : t.book[j] = r.book[j]
    BY DEF Handled
  <1>4. t.book[i].side = r.book[i].side /\ t.book[i].qty = r.book[i].qty
    BY DEF Handled
  <1> QED
    BY <1>2, <1>3, <1>4, Zenon DEF Handled

LEMMA SettledParts ==
    ASSUME NEW a, NEW r \in Results(a), NEW i \in Ids, NEW st \in OrderStates
    PROVE  LET t == Broker!Settled(r, i, st) IN
           /\ t \in Results(a) /\ Handled(r, t, i)
           /\ t.fills = r.fills /\ t.book[i].st = st
  <1> DEFINE order == [r.book[i] EXCEPT !.st = st]
             b == [r.book EXCEPT ![i] = order]
             u == Append(r.upd, <<i, st>>)
             t == [r EXCEPT !.book = b, !.upd = u]
  <1>1. r.book \in [Ids -> Tickets] /\ r.book[i] \in Tickets /\ r.upd \in Seq(Ids \X OrderStates)
    BY DEF Results, Books
  <1>2. order \in Tickets /\ order.side = r.book[i].side /\ order.qty = r.book[i].qty /\ order.st = st
    BY <1>1 DEF Tickets
  <1>3. b \in Books /\ b[i] = order /\ \A j \in Ids \ {i} : b[j] = r.book[j]
    BY <1>1, <1>2 DEF Books
  <1>4. <<i, st>> \in Ids \X OrderStates
    OBVIOUS
  <1>5. u \in Seq(Ids \X OrderStates)
    BY <1>1, <1>4
  <1>6. Broker!Settled(r, i, st) = t
    BY DEF Broker!Settled, Results
  <1> HIDE DEF b, u, order
  <1>7. t \in Results(a) /\ t.book = b /\ t.fills = r.fills
    BY <1>3, <1>5 DEF Results
  <1> HIDE DEF t
  <1> QED
    BY <1>2, <1>3, <1>6, <1>7 DEF Handled

LEMMA RaisesParts ==
    ASSUME NEW a, NEW r \in Results(a), NEW i \in Ids
    PROVE  Raises(r) \in Results(a) /\ Handled(r, Raises(r), i) /\ Raises(r).fills = r.fills
  BY DEF Raises, Results, Handled

LEMMA FilledParts ==
    ASSUME NEW a, NEW r \in Results(a), NEW i \in Ids, NEW fill \in Fills,
           Checked(r.acct, r.book[i], fill)
    PROVE  Filled(r, i, fill) \in Results(a) /\ Handled(r, Filled(r, i, fill), i)
  <1> DEFINE u == Broker!Settled(r, i, "filled")
             fills == Append(r.fills, fill)
             t == [u EXCEPT !.acct = r.acct, !.fills = fills]
  <1>1. "filled" \in OrderStates
    BY DEF OrderStates
  <1>2. u \in Results(a) /\ Handled(r, u, i) /\ u.fills = r.fills /\ u.book[i].st = "filled"
    BY <1>1, SettledParts
  <1> HIDE DEF u
  <1>3. r.acct = a /\ r.fills \in Seq(Fills)
    BY DEF Results
  <1>4. fills \in Seq(Fills)
    BY <1>3
  <1>5. Filled(r, i, fill) = t
    BY <1>2 DEF Filled, u, Results
  <1> HIDE DEF fills
  <1>6. t \in Results(a) /\ t.book = u.book /\ t.fills = fills
    BY <1>2, <1>3, <1>4 DEF Results
  <1> HIDE DEF t
  <1>7. ~IsActive(t.book[i])
    BY <1>2, <1>6 DEF IsActive
  <1> QED
    BY <1>2, <1>5, <1>6, <1>7 DEF Handled, fills

LEMMA Filling ==
    ASSUME NEW a, NEW r \in Results(a), NEW i \in Ids, NEW base \in Int,
           NEW taker \in BOOLEAN, NEW slips \in BOOLEAN
    PROVE  /\ Broker!FillOrder(r, i, base, taker, slips) \in Results(a)
           /\ Handled(r, Broker!FillOrder(r, i, base, taker, slips), i)
  <1> DEFINE order == r.book[i]
             price == IF slips THEN Broker!SlippedPrice(order.side, base) ELSE base
             fee == Broker!FeeOf(price, order.qty, taker)
             fill == [id |-> i, side |-> order.side, qty |-> order.qty, price |-> price,
                      fee |-> fee, taker |-> taker]
             applied == AppliedLater(r.acct, i, fill)
             t == Broker!FillOrder(r, i, base, taker, slips)
  <1>1. order \in Tickets
    BY DEF Results, Books
  <1>2. order.qty \in Nat /\ order.side \in Sides
    BY <1>1 DEF Tickets
  <1>3. price \in Int
    BY <1>2, Quotes DEF Broker!SlippedPrice
  <1>4. fee \in Int
    <2> HIDE DEF price, order
    <2>1. (price * order.qty * (IF taker THEN TakerBps ELSE MakerBps)) \in Int
      BY <1>2, <1>3, Charges
    <2> QED
      BY <2>1 DEF Broker!FeeOf
  <1>5. fill \in Fills
    <2> HIDE DEF price, order, fee
    <2> QED
      BY <1>2, <1>3, <1>4 DEF Fills
  <1>6. t = IF price <= 0 \/ (order.limit # Broker!NoPrice /\ ~Broker!Reaches(order, price))
            THEN Raises(r)
            ELSE IF ~PreFillRisk(r.acct, r.book, i, price, fee) THEN Broker!Settled(r, i, "rejected")
            ELSE IF ~applied.ok THEN [r EXCEPT !.raised = TRUE, !.acct = applied.acct]
            ELSE [Broker!Settled(r, i, "filled") EXCEPT !.acct = applied.acct,
                                                        !.fills = Append(@, fill)]
    BY Zenon DEF Broker!FillOrder, Raises
  <1>7. applied.ok /\ applied.acct = r.acct
    BY DEF AppliedLater
  <1>8. PreFillRisk(r.acct, r.book, i, price, fee) => Checked(r.acct, order, fill)
    BY DEF PreFillRisk, Checked
  <1>9. "rejected" \in OrderStates
    BY DEF OrderStates
  <1> HIDE DEF price, fee, applied, fill, order
  <1>10. \/ t = Raises(r) \/ t = Broker!Settled(r, i, "rejected")
         \/ t = Filled(r, i, fill) /\ Checked(r.acct, order, fill)
    BY <1>6, <1>7, <1>8, Zenon DEF Filled
  <1> HIDE DEF t
  <1>11. t \in Results(a) /\ Handled(r, t, i)
    <2>1. CASE t = Raises(r)
      BY <2>1, RaisesParts
    <2>2. CASE t = Broker!Settled(r, i, "rejected")
      BY <1>9, <2>2, SettledParts
    <2>3. CASE t = Filled(r, i, fill) /\ Checked(r.acct, order, fill)
      BY <1>5, <2>3, FilledParts DEF order
    <2> QED
      BY <1>10, <2>1, <2>2, <2>3
  <1> QED
    BY <1>11 DEF t

LEMMA OpenHandles ==
    ASSUME NEW a, NEW r \in Results(a), NEW i \in Ids, NEW open \in Int
    PROVE  Broker!OpenOrder(r, i, open) \in Results(a) /\ Handled(r, Broker!OpenOrder(r, i, open), i)
  <1> DEFINE t == Broker!OpenOrder(r, i, open)
             u == Broker!Settled(r, i, "triggered")
             S == {r, Broker!Settled(r, i, "expired"),
                   Broker!FillOrder(r, i, open, TRUE, TRUE), Broker!FillOrder(r, i, open, FALSE, FALSE)}
             U == {u, Broker!Settled(u, i, "expired"), Broker!FillOrder(u, i, open, TRUE, FALSE)}
             o == r.book[i]
             working == o.type = "limit" \/ (o.type = "stop_limit" /\ o.st = "triggered")
  <1>1. t \in S \cup U
    <2>1. CASE o.type = "market"
      BY <2>1, Zenon DEF Broker!OpenOrder
    <2>2. CASE o.type # "market" /\ working
      BY <2>2, Zenon DEF Broker!OpenOrder
    <2>3. CASE o.type # "market" /\ ~working /\ o.type = "stop"
      BY <2>3, Zenon DEF Broker!OpenOrder
    <2>4. CASE o.type # "market" /\ ~working /\ o.type # "stop"
      BY <2>4, Zenon DEF Broker!OpenOrder
    <2> QED
      BY <2>1, <2>2, <2>3, <2>4
  <1>2. "triggered" \in OrderStates /\ "expired" \in OrderStates
    BY DEF OrderStates
  <1>3. u \in Results(a) /\ Handled(r, u, i) /\ u.fills = r.fills
    BY <1>2, SettledParts
  <1>4. Handled(r, r, i) /\ Handled(u, u, i)
    BY DEF Handled
  <1> HIDE DEF t, u, o, working
  <1>5. \A x \in S : x \in Results(a) /\ Handled(r, x, i)
    <2>1. Broker!Settled(r, i, "expired") \in Results(a) /\ Handled(r, Broker!Settled(r, i, "expired"), i)
      BY <1>2, SettledParts
    <2> QED
      BY <1>4, <2>1, Filling
  <1>6. \A x \in U : x \in Results(a) /\ Handled(u, x, i)
    <2>1. Broker!Settled(u, i, "expired") \in Results(a) /\ Handled(u, Broker!Settled(u, i, "expired"), i)
      BY <1>2, <1>3, SettledParts
    <2> QED
      BY <1>3, <1>4, <2>1, Filling
  <1>7. CASE t \in S
    BY <1>5, <1>7 DEF t
  <1>8. CASE t \in U
    <2>1. t \in Results(a) /\ Handled(u, t, i)
      BY <1>6, <1>8
    <2>2. Handled(r, t, i)
      BY <1>3, <2>1, HandledTwice
    <2> QED
      BY <2>1, <2>2 DEF t
  <1> QED
    BY <1>1, <1>7, <1>8

LEMMA BarHandles ==
    ASSUME NEW a, NEW r \in Results(a), NEW i \in Ids, NEW low \in Int, NEW high \in Int
    PROVE  /\ Broker!BarOrder(r, i, low, high) \in Results(a)
           /\ Handled(r, Broker!BarOrder(r, i, low, high), i)
  <1> DEFINE t == Broker!BarOrder(r, i, low, high)
             o == r.book[i]
             S == {r, Broker!Settled(r, i, "triggered"), Broker!FillOrder(r, i, o.limit, FALSE, FALSE),
                   Broker!FillOrder(r, i, o.stop, TRUE, TRUE)}
  <1>1. t \in S
    BY Zenon DEF Broker!BarOrder
  <1>2. o.limit \in Int /\ o.stop \in Int
    BY DEF Results, Books, Tickets
  <1>3. "triggered" \in OrderStates
    BY DEF OrderStates
  <1> HIDE DEF t, o
  <1>4. Handled(r, r, i)
    BY DEF Handled
  <1>5. /\ Broker!Settled(r, i, "triggered") \in Results(a)
        /\ Handled(r, Broker!Settled(r, i, "triggered"), i)
    BY <1>3, SettledParts
  <1>6. \A x \in S : x \in Results(a) /\ Handled(r, x, i)
    BY <1>2, <1>4, <1>5, Filling
  <1> QED
    BY <1>1, <1>6 DEF t
-----------------------------------------------------------------------------
(* A pass over a book with at most one order at work.                      *)

LEMMA OrdersListed ==
    ASSUME NEW b \in Books, Alone(b)
    PROVE  \/ Active(b) = {} /\ DOMAIN InOrder(b) = {}
           \/ \E i \in Ids : Active(b) = {i} /\ DOMAIN InOrder(b) = {1} /\ InOrder(b)[1] = i
  <1>1. CASE Active(b) = {}
    <2>1. Cardinality(Active(b)) = 0
      BY <1>1, FS_EmptySet
    <2>2. 1 .. 0 = {}
      OBVIOUS
    <2>3. DOMAIN InOrder(b) = {}
      BY <2>1, <2>2 DEF InOrder
    <2> QED
      BY <1>1, <2>3
  <1>2. CASE Active(b) # {}
    <2>1. PICK i \in Active(b) : TRUE
      BY <1>2
    <2>2. i \in Ids
      BY <2>1 DEF Active, Books
    <2>3. Active(b) = {i}
      BY <2>1 DEF Alone
    <2>4. Cardinality(Active(b)) = 1
      BY <2>3, FS_Singleton
    <2>5. 1 .. 1 = {1}
      OBVIOUS
    <2>6. DOMAIN InOrder(b) = {1}
      BY <2>4, <2>5 DEF InOrder
    <2>7. Sooner(b, i) = {}
      <3>1. b[i].sub \in Nat /\ i \in Int
        BY <2>2 DEF Books, Tickets, Ids
      <3>2. ~(b[i].sub < b[i].sub) /\ ~(i < i)
        BY <3>1
      <3> QED
        BY <2>3, <3>2 DEF Sooner
    <2>8. Cardinality(Sooner(b, i)) = 1 - 1
      BY <2>7, FS_EmptySet
    <2>9. InOrder(b)[1] = CHOOSE j \in Active(b) : Cardinality(Sooner(b, j)) = 1 - 1
      BY <2>4, <2>5 DEF InOrder
    <2>10. InOrder(b)[1] \in Active(b)
      BY <2>1, <2>8, <2>9
    <2> QED
      BY <2>2, <2>3, <2>6, <2>10
  <1> QED
    BY <1>1, <1>2

\* The order list is the one the pass uses.
LEMMA SameOrder ==
    ASSUME NEW b
    PROVE  Broker!InOrder(b) = InOrder(b)
  <1>1. \A S : Broker!Cardinality(S) = Cardinality(S)
    BY Zenon DEF Broker!Cardinality, Cardinality
  <1>2. Broker!Active(b) = Active(b)
    BY DEF Broker!Active, Active, Broker!IsActive, IsActive
  <1>3. \A i : Broker!Sooner(b, i) = Sooner(b, i)
    BY <1>2 DEF Broker!Sooner, Sooner
  <1> QED
    BY <1>1, <1>2, <1>3 DEF Broker!InOrder, InOrder

\* The subsets of the positions of at most one order, and a fold over them.
LEMMA OneAtMost ==
    ASSUME NEW D \in {{}, {1}}, NEW s \in SUBSET D, s # {}
    PROVE  /\ s = {1} /\ D = {1} /\ s \ {1} = {}
           /\ Max(s) = 1 /\ Broker!Max(s) = 1
  <1>1. s = {1} /\ D = {1}
    OBVIOUS
  <1>2. \A x : x \in {1} /\ (\A y \in {1} : x >= y) <=> x = 1
    OBVIOUS
  <1>3. Max({1}) = 1 /\ Broker!Max({1}) = 1
    BY <1>2 DEF Max, Broker!Max
  <1> QED
    BY <1>1, <1>3

\* The two passes, as the folds define them.
OpenStep(r, i, open, instant) ==
    IF r.raised \/ instant < r.book[i].sub THEN r ELSE Broker!OpenOrder(r, i, open)
BarStep(r, i, low, high, instant) ==
    IF r.raised \/ instant <= r.book[i].sub \/ r.book[i].tif = "ioc" THEN r
    ELSE Broker!BarOrder(r, i, low, high)
OpenRun(q, b, a, open, instant) ==
    CHOOSE h : h = [s \in SUBSET DOMAIN q |->
                       IF s = {} THEN Broker!Pass(b, a)
                       ELSE OpenStep(h[s \ {Broker!Max(s)}], q[Broker!Max(s)], open, instant)]
BarRun(q, b, a, low, high, instant) ==
    CHOOSE h : h = [s \in SUBSET DOMAIN q |->
                       IF s = {} THEN Broker!Pass(b, a)
                       ELSE BarStep(h[s \ {Broker!Max(s)}], q[Broker!Max(s)], low, high, instant)]

LEMMA OpenIsItsRun ==
    ASSUME NEW b, NEW a, NEW open, NEW instant
    PROVE  Broker!ProcessOpen(b, a, open, instant)
               = OpenRun(InOrder(b), b, a, open, instant)[DOMAIN InOrder(b)]
  <1>1. Broker!InOrder(b) = InOrder(b)
    BY SameOrder
  <1>2. Broker!ProcessOpen(b, a, open, instant)
            = OpenRun(Broker!InOrder(b), b, a, open, instant)[DOMAIN Broker!InOrder(b)]
    BY Zenon DEF Broker!ProcessOpen, Broker!FoldLeft, Broker!MapThenFoldSet, OpenRun, OpenStep
  <1> QED
    BY <1>1, <1>2, Zenon

LEMMA BarIsItsRun ==
    ASSUME NEW b, NEW a, NEW low, NEW high, NEW instant
    PROVE  Broker!ProcessBar(b, a, low, high, instant)
               = BarRun(InOrder(b), b, a, low, high, instant)[DOMAIN InOrder(b)]
  <1>1. Broker!InOrder(b) = InOrder(b)
    BY SameOrder
  <1>2. Broker!ProcessBar(b, a, low, high, instant)
            = BarRun(Broker!InOrder(b), b, a, low, high, instant)[DOMAIN Broker!InOrder(b)]
    BY Zenon DEF Broker!ProcessBar, Broker!FoldLeft, Broker!MapThenFoldSet, BarRun, BarStep
  <1> QED
    BY <1>1, <1>2, Zenon

LEMMA OpenRuns ==
    ASSUME NEW q, DOMAIN q \in {{}, {1}}, NEW b, NEW a, NEW open, NEW instant
    PROVE  OpenRun(q, b, a, open, instant)[DOMAIN q]
               = IF DOMAIN q = {} THEN Broker!Pass(b, a)
                 ELSE OpenStep(Broker!Pass(b, a), q[1], open, instant)
  <1> DEFINE D == DOMAIN q
             base == Broker!Pass(b, a)
             last == OpenStep(base, q[1], open, instant)
             h == [s \in SUBSET D |-> IF s = {} THEN base ELSE last]
             Body(g) == [s \in SUBSET D |->
                            IF s = {} THEN base
                            ELSE OpenStep(g[s \ {Broker!Max(s)}], q[Broker!Max(s)], open, instant)]
             run == OpenRun(q, b, a, open, instant)
  <1>1. \A s \in SUBSET D : s # {} => s \ {Broker!Max(s)} = {} /\ Broker!Max(s) = 1
    BY OneAtMost
  <1>2. {} \in SUBSET D /\ h[{}] = base
    OBVIOUS
  <1> HIDE DEF base
  <1>3. ASSUME NEW s \in SUBSET D
        PROVE  h[s] = IF s = {} THEN base
                      ELSE OpenStep(h[s \ {Broker!Max(s)}], q[Broker!Max(s)], open, instant)
    <2>1. CASE s = {}
      BY <2>1
    <2>2. CASE s # {}
      <3>1. h[s] = last
        BY <2>2
      <3>2. h[s \ {Broker!Max(s)}] = base /\ q[Broker!Max(s)] = q[1]
        BY <1>1, <1>2, <2>2
      <3> HIDE DEF h
      <3> QED
        BY <2>2, <3>1, <3>2
    <2> QED
      BY <2>1, <2>2
  <1>4. h = Body(h)
    BY <1>3, Zenon
  <1>5. run = Body(run)
    BY <1>4, Zenon DEF OpenRun, base
  <1> HIDE DEF run, h
  <1>6. run[{}] = base
    BY <1>2, <1>5
  <1>7. D = {} => run[D] = base
    BY <1>6
  <1>8. D = {1} => run[D] = last
    <2> SUFFICES ASSUME D = {1} PROVE run[D] = last
      OBVIOUS
    <2>1. D \in SUBSET D /\ D # {}
      OBVIOUS
    <2>2. D \ {Broker!Max(D)} = {} /\ Broker!Max(D) = 1
      BY <1>1, <2>1
    <2>3. run[D] = OpenStep(run[D \ {Broker!Max(D)}], q[Broker!Max(D)], open, instant)
      BY <1>5, <2>1
    <2> QED
      BY <1>6, <2>2, <2>3, Zenon
  <1> QED
    BY <1>7, <1>8 DEF run, base

LEMMA BarRuns ==
    ASSUME NEW q, DOMAIN q \in {{}, {1}}, NEW b, NEW a, NEW low, NEW high, NEW instant
    PROVE  BarRun(q, b, a, low, high, instant)[DOMAIN q]
               = IF DOMAIN q = {} THEN Broker!Pass(b, a)
                 ELSE BarStep(Broker!Pass(b, a), q[1], low, high, instant)
  <1> DEFINE D == DOMAIN q
             base == Broker!Pass(b, a)
             last == BarStep(base, q[1], low, high, instant)
             h == [s \in SUBSET D |-> IF s = {} THEN base ELSE last]
             Body(g) == [s \in SUBSET D |->
                            IF s = {} THEN base
                            ELSE BarStep(g[s \ {Broker!Max(s)}], q[Broker!Max(s)], low, high, instant)]
             run == BarRun(q, b, a, low, high, instant)
  <1>1. \A s \in SUBSET D : s # {} => s \ {Broker!Max(s)} = {} /\ Broker!Max(s) = 1
    BY OneAtMost
  <1>2. {} \in SUBSET D /\ h[{}] = base
    OBVIOUS
  <1> HIDE DEF base
  <1>3. ASSUME NEW s \in SUBSET D
        PROVE  h[s] = IF s = {} THEN base
                      ELSE BarStep(h[s \ {Broker!Max(s)}], q[Broker!Max(s)], low, high, instant)
    <2>1. CASE s = {}
      BY <2>1
    <2>2. CASE s # {}
      <3>1. h[s] = last
        BY <2>2
      <3>2. h[s \ {Broker!Max(s)}] = base /\ q[Broker!Max(s)] = q[1]
        BY <1>1, <1>2, <2>2
      <3> HIDE DEF h
      <3> QED
        BY <2>2, <3>1, <3>2
    <2> QED
      BY <2>1, <2>2
  <1>4. h = Body(h)
    BY <1>3, Zenon
  <1>5. run = Body(run)
    BY <1>4, Zenon DEF BarRun, base
  <1> HIDE DEF run, h
  <1>6. run[{}] = base
    BY <1>2, <1>5
  <1>7. D = {} => run[D] = base
    BY <1>6
  <1>8. D = {1} => run[D] = last
    <2> SUFFICES ASSUME D = {1} PROVE run[D] = last
      OBVIOUS
    <2>1. D \in SUBSET D /\ D # {}
      OBVIOUS
    <2>2. D \ {Broker!Max(D)} = {} /\ Broker!Max(D) = 1
      BY <1>1, <2>1
    <2>3. run[D] = BarStep(run[D \ {Broker!Max(D)}], q[Broker!Max(D)], low, high, instant)
      BY <1>5, <2>1
    <2> QED
      BY <1>6, <2>2, <2>3, Zenon
  <1> QED
    BY <1>7, <1>8 DEF run, base

\* A book before and the result after a pass.
Passed(b, a, r) ==
    /\ r.book \in Books
    /\ \A i \in Ids : r.book[i].side = b[i].side /\ r.book[i].qty = b[i].qty
    /\ Active(r.book) \subseteq Active(b)
    /\ \/ r.fills = <<>>
       \/ /\ Active(r.book) = {}
          /\ \E fill \in Fills, i \in Active(b) : r.fills = <<fill>> /\ Checked(a, b[i], fill)

LEMMA StartOfPass ==
    ASSUME NEW b \in Books, NEW a
    PROVE  LET r == Broker!Pass(b, a) IN
           r \in Results(a) /\ r.book = b /\ r.acct = a /\ r.fills = <<>>
  BY DEF Broker!Pass, Results

LEMMA UntouchedPasses ==
    ASSUME NEW b \in Books, NEW a
    PROVE  Passed(b, a, Broker!Pass(b, a))
  BY StartOfPass DEF Passed

LEMMA HandledPasses ==
    ASSUME NEW b \in Books, NEW a, NEW i \in Ids, Active(b) = {i},
           NEW r \in Results(a), Handled(Broker!Pass(b, a), r, i)
    PROVE  Passed(b, a, r)
  <1> DEFINE p == Broker!Pass(b, a)
  <1>1. p.book = b /\ p.acct = a /\ p.fills = <<>>
    BY StartOfPass
  <1>2. Handled(p, r, i)
    OBVIOUS
  <1> HIDE DEF p
  <1>3. r.book \in Books /\ DOMAIN r.book = Ids /\ DOMAIN b = Ids
    BY DEF Results, Books
  <1>4. \A j \in Ids : r.book[j].side = b[j].side /\ r.book[j].qty = b[j].qty
    BY <1>1, <1>2 DEF Handled
  <1>5. \A j \in Ids \ {i} : ~IsActive(r.book[j])
    <2>1. \A j \in Ids \ {i} : ~IsActive(b[j])
      BY <1>3 DEF Active
    <2> QED
      BY <1>1, <1>2, <2>1 DEF Handled
  <1>6. Active(r.book) \subseteq {i}
    BY <1>3, <1>5 DEF Active
  <1>7. CASE r.fills = <<>>
    BY <1>3, <1>4, <1>6, <1>7 DEF Passed
  <1>8. CASE r.fills # <<>>
    <2>1. PICK fill \in Fills : /\ r.fills = Append(<<>>, fill) /\ Checked(a, b[i], fill)
                                /\ ~IsActive(r.book[i])
      BY <1>1, <1>2, <1>8, Zenon DEF Handled
    <2>2. r.fills = <<fill>>
      BY <2>1
    <2>3. Active(r.book) = {}
      BY <1>3, <1>5, <2>1 DEF Active
    <2>4. i \in Active(b)
      OBVIOUS
    <2> QED
      BY <1>3, <1>4, <1>6, <2>1, <2>2, <2>3, <2>4, Zenon DEF Passed
  <1> QED
    BY <1>7, <1>8

LEMMA OpenPasses ==
    ASSUME NEW b \in Books, Alone(b), NEW a, NEW open \in Int, NEW instant
    PROVE  Passed(b, a, Broker!ProcessOpen(b, a, open, instant))
  <1> DEFINE q == InOrder(b)
             p == Broker!Pass(b, a)
             r == Broker!ProcessOpen(b, a, open, instant)
  <1>1. DOMAIN q \in {{}, {1}}
    BY OrdersListed
  <1>2. r = IF DOMAIN q = {} THEN p ELSE OpenStep(p, q[1], open, instant)
    BY <1>1, OpenIsItsRun, OpenRuns
  <1>3. p \in Results(a)
    BY StartOfPass
  <1>4. CASE DOMAIN q = {}
    <2>1. r = p
      BY <1>2, <1>4
    <2> QED
      BY <2>1, UntouchedPasses
  <1>5. ASSUME NEW i \in Ids, Active(b) = {i}, DOMAIN q = {1}, q[1] = i
        PROVE  Passed(b, a, r)
    <2>1. r = OpenStep(p, i, open, instant)
      BY <1>2, <1>5
    <2>2. r = p \/ r = Broker!OpenOrder(p, i, open)
      BY <2>1 DEF OpenStep
    <2>3. Broker!OpenOrder(p, i, open) \in Results(a) /\ Handled(p, Broker!OpenOrder(p, i, open), i)
      BY <1>3, OpenHandles
    <2>4. CASE r = p
      BY <2>4, UntouchedPasses
    <2>5. CASE r = Broker!OpenOrder(p, i, open)
      BY <1>5, <2>3, <2>5, HandledPasses
    <2> QED
      BY <2>2, <2>4, <2>5
  <1> QED
    BY <1>4, <1>5, OrdersListed

LEMMA BarPasses ==
    ASSUME NEW b \in Books, Alone(b), NEW a, NEW low \in Int, NEW high \in Int, NEW instant
    PROVE  Passed(b, a, Broker!ProcessBar(b, a, low, high, instant))
  <1> DEFINE q == InOrder(b)
             p == Broker!Pass(b, a)
             r == Broker!ProcessBar(b, a, low, high, instant)
  <1>1. DOMAIN q \in {{}, {1}}
    BY OrdersListed
  <1>2. r = IF DOMAIN q = {} THEN p ELSE BarStep(p, q[1], low, high, instant)
    BY <1>1, BarIsItsRun, BarRuns
  <1>3. p \in Results(a)
    BY StartOfPass
  <1>4. CASE DOMAIN q = {}
    <2>1. r = p
      BY <1>2, <1>4
    <2> QED
      BY <2>1, UntouchedPasses
  <1>5. ASSUME NEW i \in Ids, Active(b) = {i}, DOMAIN q = {1}, q[1] = i
        PROVE  Passed(b, a, r)
    <2>1. r = BarStep(p, i, low, high, instant)
      BY <1>2, <1>5
    <2>2. r = p \/ r = Broker!BarOrder(p, i, low, high)
      BY <2>1 DEF BarStep
    <2>3. /\ Broker!BarOrder(p, i, low, high) \in Results(a)
          /\ Handled(p, Broker!BarOrder(p, i, low, high), i)
      BY <1>3, BarHandles
    <2>4. CASE r = p
      BY <2>4, UntouchedPasses
    <2>5. CASE r = Broker!BarOrder(p, i, low, high)
      BY <1>5, <2>3, <2>5, HandledPasses
    <2> QED
      BY <2>2, <2>4, <2>5
  <1> QED
    BY <1>4, <1>5, OrdersListed

-----------------------------------------------------------------------------
(* What the engine makes of a pass.                                        *)

\* The row of a fill, and the rows of the instant with it.
FillRow(s, f, p) == [kind |-> "fill", s |-> s, fee |-> f.fee, amount |-> 0, size |-> f.qty,
                     qty |-> p.pos[s].qty, real |-> p.pos[s].real]
WithFill(l, row) == [l EXCEPT !.fills = Append(@, row)]

\* Handle's step and its fold.
Take(s, acc, f) ==
    IF acc.raised THEN acc
    ELSE IF Spot(s) /\ acc.pf.pos[s].qty + Sign(f.side) * f.qty < 0
    THEN [acc EXCEPT !.raised = TRUE]
    ELSE LET p == ApplyFill(acc.pf, s, f)
         IN  [acc EXCEPT !.pf = p, !.line.fills = Append(@, FillRow(s, f, p))]
TakeRun(s, base, q) ==
    CHOOSE h : h = [t \in SUBSET DOMAIN q |->
                       IF t = {} THEN base ELSE Take(s, h[t \ {Max(t)}], q[Max(t)])]
TakeBase(from) == [pf |-> from, line |-> line, raised |-> FALSE]
Taken(s, from, q) == TakeRun(s, TakeBase(from), q)[DOMAIN q]

LEMMA HandleIsItsRun ==
    ASSUME NEW s, NEW from, NEW r, Handle(s, from, r)
    PROVE  /\ book' = [book EXCEPT ![s] = [i \in DOMAIN r.book |->
                          IF IsActive(r.book[i]) THEN r.book[i] ELSE NoOrder]]
           /\ pf' = Taken(s, from, r.fills).pf /\ line' = Taken(s, from, r.fills).line
           /\ status' = IF r.raised THEN "price"
                        ELSE IF Taken(s, from, r.fills).raised THEN "inventory" ELSE status
  BY Zenon DEF Handle, FoldLeft, MapThenFoldSet, Taken, TakeBase, TakeRun, Take, FillRow

LEMMA TakeRuns ==
    ASSUME NEW s, NEW from, NEW q, DOMAIN q \in {{}, {1}}
    PROVE  /\ DOMAIN q = {} => Taken(s, from, q) = TakeBase(from)
           /\ DOMAIN q = {1} => Taken(s, from, q) = Take(s, TakeBase(from), q[1])
  <1> DEFINE D == DOMAIN q
             base == TakeBase(from)
             last == Take(s, base, q[1])
             h == [t \in SUBSET D |-> IF t = {} THEN base ELSE last]
             Body(g) == [t \in SUBSET D |->
                            IF t = {} THEN base ELSE Take(s, g[t \ {Max(t)}], q[Max(t)])]
             run == TakeRun(s, base, q)
  <1>1. \A t \in SUBSET D : t # {} => t \ {Max(t)} = {} /\ Max(t) = 1
    BY OneAtMost
  <1>2. {} \in SUBSET D /\ h[{}] = base
    OBVIOUS
  <1>9. Taken(s, from, q) = run[D]
    BY DEF Taken
  <1> HIDE DEF base
  <1>3. ASSUME NEW t \in SUBSET D
        PROVE  h[t] = IF t = {} THEN base ELSE Take(s, h[t \ {Max(t)}], q[Max(t)])
    <2>1. CASE t = {}
      BY <2>1
    <2>2. CASE t # {}
      <3>1. h[t] = last
        BY <2>2
      <3>2. h[t \ {Max(t)}] = base /\ q[Max(t)] = q[1]
        BY <1>1, <1>2, <2>2
      <3> HIDE DEF h
      <3> QED
        BY <2>2, <3>1, <3>2
    <2> QED
      BY <2>1, <2>2
  <1>4. h = Body(h)
    BY <1>3, Zenon
  <1>5. run = Body(run)
    BY <1>4, Zenon DEF TakeRun
  <1> HIDE DEF run, h
  <1>6. run[{}] = base
    BY <1>2, <1>5
  <1>7. D = {} => run[D] = base
    BY <1>6
  <1>8. D = {1} => run[D] = last
    <2> SUFFICES ASSUME D = {1} PROVE run[D] = last
      OBVIOUS
    <2>1. D \in SUBSET D /\ D # {}
      OBVIOUS
    <2>2. D \ {Max(D)} = {} /\ Max(D) = 1
      BY <1>1, <2>1
    <2>3. run[D] = Take(s, run[D \ {Max(D)}], q[Max(D)])
      BY <1>5, <2>1
    <2> QED
      BY <1>6, <2>2, <2>3, Zenon
  <1> QED
    BY <1>7, <1>8, <1>9 DEF run, base

\* A pass without a fill and a pass with one.
LEMMA NothingTaken ==
    ASSUME NEW s, NEW from, NEW q, DOMAIN q = {}
    PROVE  Taken(s, from, q).pf = from /\ ~Taken(s, from, q).raised
  <1>1. DOMAIN q \in {{}, {1}}
    OBVIOUS
  <1>2. Taken(s, from, q) = TakeBase(from)
    BY <1>1, TakeRuns
  <1> QED
    BY <1>2 DEF TakeBase

LEMMA NoRowTaken ==
    ASSUME NEW s, NEW from, NEW q, DOMAIN q = {}
    PROVE  Taken(s, from, q).line = line
  <1>1. DOMAIN q \in {{}, {1}}
    OBVIOUS
  <1>2. Taken(s, from, q) = TakeBase(from)
    BY <1>1, TakeRuns
  <1> QED
    BY <1>2 DEF TakeBase

LEMMA OneTaken ==
    ASSUME NEW s, NEW from, NEW fill
    PROVE  LET t == Taken(s, from, <<fill>>)
               short == Spot(s) /\ from.pos[s].qty + Traded(fill) < 0
               p == ApplyFill(from, s, fill)
           IN  /\ short => t.pf = from /\ t.line = line
               /\ ~short => t.pf = p /\ t.line = WithFill(line, FillRow(s, fill, p)) /\ ~t.raised
  <1> DEFINE base == TakeBase(from)
             t == Taken(s, from, <<fill>>)
             short == Spot(s) /\ from.pos[s].qty + Traded(fill) < 0
  <1>1. DOMAIN <<fill>> = {1} /\ <<fill>>[1] = fill
    OBVIOUS
  <1>2. t = Take(s, base, fill)
    BY <1>1, TakeRuns
  <1>3. CASE short
    <2>1. t = [base EXCEPT !.raised = TRUE]
      BY <1>2, <1>3 DEF Take, TakeBase, Traded
    <2> QED
      BY <1>3, <2>1 DEF TakeBase
  <1>4. CASE ~short
    <2> DEFINE p == ApplyFill(from, s, fill)
               row == FillRow(s, fill, p)
    <2>1. t = [base EXCEPT !.pf = p, !.line.fills = Append(@, row)]
      BY <1>2, <1>4 DEF Take, TakeBase, Traded
    <2> HIDE DEF p, row
    <2>2. t.pf = p /\ ~t.raised /\ t.line = [base.line EXCEPT !.fills = Append(@, row)]
      BY <2>1 DEF TakeBase
    <2>3. base.line = line
      BY DEF TakeBase
    <2>4. t.line = WithFill(line, row)
      BY <2>2, <2>3 DEF WithFill
    <2> QED
      BY <1>4, <2>2, <2>4 DEF p, row
  <1> QED
    BY <1>3, <1>4

LEMMA AcceptsGives ==
    ASSUME NEW p, NEW s, NEW side, NEW qty, NEW price, NEW fee, NEW open,
           Accepts(p, s, side, qty, price, fee, open)
    PROVE  /\ price > 0
           /\ ~(Spot(s) /\ Limits.noShorts /\ p.pos[s].qty + Sign(side) * qty < 0)
           /\ ~(Spot(s) /\ side = "buy" /\ qty * price + fee > p.cash)
  BY Zenon DEF Accepts

\* What the account and the book of a series are after a pass.
Settles(s, from, b, target) ==
    /\ pf' \in Accounts({from.peak}) /\ pf'.mark = from.mark
    /\ \A t \in Series \ {s} : pf'.pos[t] = from.pos[t]
    /\ Held(pf'.pos[s], s)
    /\ Leads(from.pos[s].qty, b, target) => Leads(pf'.pos[s].qty, book'[s], target)
    /\ Spot(s) /\ pf'.pos[s].qty > from.pos[s].qty => pf'.cash >= 0
    /\ status' \in {"running", "price", "inventory"}
    /\ Limits.noShorts => status' # "inventory"

LEMMA FillSettles ==
    ASSUME NEW k, NEW from \in Accounts({k}), NEW s \in Series, NEW fill \in Fills,
           Held(from.pos[s], s),
           Accepts(from, s, fill.side, fill.qty, fill.price, fill.fee, 0),
           ~(Spot(s) /\ from.pos[s].qty + Traded(fill) < 0)
    PROVE  LET t == ApplyFill(from, s, fill) IN
           /\ t \in Accounts({k}) /\ t.mark = from.mark
           /\ \A r \in Series \ {s} : t.pos[r] = from.pos[r]
           /\ Held(t.pos[s], s)
           /\ Spot(s) /\ t.pos[s].qty > from.pos[s].qty => t.cash >= 0
  <1> DEFINE t == ApplyFill(from, s, fill)
             new == Position(from.pos[s], Traded(fill), fill.price)
             q == from.pos[s].qty
  <1>1. Traded(fill) \in Int /\ fill.price \in Int /\ fill.fee \in Int /\ fill.qty \in Nat
        /\ fill.side \in Sides
    BY TradedType DEF Fills
  <1>2. from.pos[s] \in Positions /\ q \in Int /\ from.cash \in Int
        /\ from.pos \in [Series -> Positions]
    BY DEF Accounts, Positions
  <1>3. /\ t \in Accounts({k}) /\ t.mark = from.mark
        /\ t.pos = [from.pos EXCEPT ![s] = new]
        /\ Spot(s) => t.cash = from.cash - fill.fee - Traded(fill) * fill.price
    <2>1. t \in Accounts({k}) /\ Booked(from, s, fill, t)
      BY FillApplied
    <2> HIDE DEF t
    <2> QED
      BY <2>1 DEF Booked
  <1>4. fill.price > 0 /\ ~(Spot(s) /\ fill.side = "buy" /\ fill.qty * fill.price + fill.fee > from.cash)
    BY AcceptsGives
  <1>5. Spot(s) => q + Traded(fill) >= 0
    BY <1>1, <1>2
  <1>6. new.qty = q + Traded(fill) /\ Held(new, s)
    BY <1>1, <1>2, <1>4, <1>5, PositionMoves
  <1> HIDE DEF t, new
  <1>7. t.pos[s] = new /\ \A r \in Series \ {s} : t.pos[r] = from.pos[r]
    BY <1>2, <1>3
  <1>8. ASSUME Spot(s), new.qty > q PROVE t.cash >= 0
    <2>1. fill.side = "buy"
      <3> SUFFICES ASSUME fill.side = "sell" PROVE FALSE
        BY <1>1 DEF Sides
      <3>1. Traded(fill) = (-1) * fill.qty
        BY DEF Traded, Sign
      <3> QED
        BY <1>1, <1>2, <1>6, <1>8, <3>1
    <2>2. Traded(fill) = 1 * fill.qty
      BY <2>1 DEF Traded, Sign
    <2>3. from.cash - fill.fee - 1 * fill.qty * fill.price >= 0
      BY <1>1, <1>2, <1>4, <1>8, <2>1, PaidFromCash
    <2> QED
      BY <1>3, <1>8, <2>2, <2>3
  <1> QED
    BY <1>3, <1>6, <1>7, <1>8 DEF t

\* The book of a series after a pass.
LEMMA BookAfterPass ==
    ASSUME NEW s \in Series, NEW from, NEW r, book \in [Series -> Books], Alone(book[s]),
           Passed(book[s], [series |-> s, pf |-> from], r), Handle(s, from, r)
    PROVE  /\ book' \in [Series -> Books]
           /\ \A t \in Series \ {s} : book'[t] = book[t]
           /\ Active(book'[s]) = Active(r.book) /\ Alone(book'[s])
           /\ \A i \in Active(book'[s]) :
                 i \in Active(book[s]) /\ book'[s][i].side = book[s][i].side
                                       /\ book'[s][i].qty = book[s][i].qty
  <1> DEFINE kept == [i \in DOMAIN r.book |-> IF IsActive(r.book[i]) THEN r.book[i] ELSE NoOrder]
  <1>1. book' = [book EXCEPT ![s] = kept]
    BY HandleIsItsRun
  <1>2. r.book \in Books /\ DOMAIN r.book = Ids
    BY DEF Passed, Books
  <1>3. NoOrder \in Tickets /\ ~IsActive(NoOrder)
    BY DEF NoOrder, Tickets, Sides, NoPrice, OrderStates, IsActive
  <1>4. kept \in Books
    BY <1>2, <1>3 DEF Books
  <1>5. book'[s] = kept
    BY <1>1
  <1>6. book' \in [Series -> Books] /\ \A t \in Series \ {s} : book'[t] = book[t]
    BY <1>1, <1>4
  <1>7. Active(kept) = Active(r.book)
    BY <1>2, <1>3 DEF Active
  <1>8. \A i \in Active(r.book) : kept[i] = r.book[i]
    BY <1>2 DEF Active
  <1>9. Active(r.book) \subseteq Active(book[s]) /\ Active(r.book) \subseteq Ids
    BY <1>2 DEF Passed, Active
  <1> HIDE DEF kept
  <1>10. Alone(kept)
    BY <1>7, <1>9 DEF Alone
  <1>11. \A i \in Ids : r.book[i].side = book[s][i].side /\ r.book[i].qty = book[s][i].qty
    BY DEF Passed
  <1>12. \A i \in Active(kept) : /\ i \in Active(book[s])
                                 /\ kept[i].side = book[s][i].side
                                 /\ kept[i].qty = book[s][i].qty
    BY <1>7, <1>8, <1>9, <1>11
  <1> QED
    BY <1>5, <1>6, <1>7, <1>10, <1>12

LEMMA PassSettles ==
    ASSUME NEW s \in Series, NEW k, NEW from \in Accounts({k}), NEW r,
           book \in [Series -> Books], Alone(book[s]), Held(from.pos[s], s), status = "running",
           Passed(book[s], [series |-> s, pf |-> from], r), Handle(s, from, r)
    PROVE  \A target : Settles(s, from, book[s], target)
  <1> DEFINE a == [series |-> s, pf |-> from]
  <1>1. from.peak = k /\ from \in Accounts({from.peak})
    BY DEF Accounts
  <1>2. /\ Active(book'[s]) = Active(r.book)
        /\ \A i \in Active(book'[s]) :
                 i \in Active(book[s]) /\ book'[s][i].side = book[s][i].side
                                       /\ book'[s][i].qty = book[s][i].qty
    BY BookAfterPass
  <1>3. /\ pf' = Taken(s, from, r.fills).pf
        /\ status' = IF r.raised THEN "price"
                     ELSE IF Taken(s, from, r.fills).raised THEN "inventory" ELSE status
    BY HandleIsItsRun
  <1>4. status' \in {"running", "price", "inventory"}
    BY <1>3
  <1>5. ASSUME pf' = from PROVE Spot(s) /\ pf'.pos[s].qty > from.pos[s].qty => pf'.cash >= 0
    <2>1. from.pos[s].qty \in Int
      BY DEF Accounts, Positions
    <2> QED
      BY <1>5, <2>1
  <1>6. CASE r.fills = <<>>
    <2>1. pf' = from /\ status' # "inventory"
      <3>1. DOMAIN r.fills = {}
        BY <1>6
      <3> QED
        BY <1>3, <3>1, NothingTaken
    <2>2. \A target : Leads(from.pos[s].qty, book[s], target) => Leads(pf'.pos[s].qty, book'[s], target)
      BY <1>2, <2>1, Zenon DEF Leads
    <2> QED
      BY <1>1, <1>4, <1>5, <2>1, <2>2 DEF Settles
  <1>7. CASE r.fills # <<>>
    <2>1. PICK fill \in Fills, i \in Active(book[s]) : r.fills = <<fill>> /\ Checked(a, book[s][i], fill)
      BY <1>7, Zenon DEF Passed
    <2>2. Active(book'[s]) = {}
      BY <1>2, <1>7 DEF Passed
    <2>3. \A target : Leads(pf'.pos[s].qty, book'[s], target)
      BY <2>2 DEF Leads
    <2>4. Accepts(from, s, fill.side, fill.qty, fill.price, fill.fee, 0)
      BY <2>1 DEF Checked
    <2>5. CASE Spot(s) /\ from.pos[s].qty + Traded(fill) < 0
      <3>1. pf' = from
        BY <1>3, <2>1, <2>5, OneTaken
      <3>2. ~Limits.noShorts
        BY <2>4, <2>5, AcceptsGives DEF Traded
      <3> QED
        BY <1>1, <1>4, <1>5, <2>3, <3>1, <3>2 DEF Settles
    <2>6. CASE ~(Spot(s) /\ from.pos[s].qty + Traded(fill) < 0)
      <3>1. pf' = ApplyFill(from, s, fill) /\ ~Taken(s, from, r.fills).raised
        BY <1>3, <2>1, <2>6, OneTaken
      <3>2. status' # "inventory"
        BY <1>3, <3>1
      <3>3. /\ pf' \in Accounts({k}) /\ pf'.mark = from.mark
            /\ \A t \in Series \ {s} : pf'.pos[t] = from.pos[t]
            /\ Held(pf'.pos[s], s)
            /\ Spot(s) /\ pf'.pos[s].qty > from.pos[s].qty => pf'.cash >= 0
        <4> DEFINE t == ApplyFill(from, s, fill)
        <4>1. /\ t \in Accounts({k}) /\ t.mark = from.mark
              /\ \A u \in Series \ {s} : t.pos[u] = from.pos[u]
              /\ Held(t.pos[s], s)
              /\ Spot(s) /\ t.pos[s].qty > from.pos[s].qty => t.cash >= 0
          BY <2>4, <2>6, FillSettles, Zenon
        <4>2. pf' = t
          BY <3>1
        <4> HIDE DEF t
        <4> QED
          BY <4>1, <4>2
      <3> QED
        BY <1>1, <1>4, <2>3, <3>2, <3>3 DEF Settles
    <2> QED
      BY <2>5, <2>6
  <1> QED
    BY <1>6, <1>7
-----------------------------------------------------------------------------
(* The steps.                                                              *)

Purchases == \A s \in Series : Spot(s) /\ pf'.pos[s].qty > pf.pos[s].qty => pf'.cash >= 0
InventoryThere == Limits.noShorts => status' # "inventory"
Stati == {"running", "completed", "inventory", "price", "metrics"}

LEMMA TurnType ==
    ASSUME NEW s \in Series, NEW priority \in 1 .. 5, Turn(priority, s)
    PROVE  /\ at' \in 0 .. Code(5, NSeries) /\ status = "running"
  <1>1. at' = (NSeries + 1) * priority + s /\ status = "running"
    BY DEF Turn, Code
  <1>2. s \in 1 .. NSeries /\ NSeries \in Nat
    BY SeriesCount DEF Series
  <1>3. priority = 1 \/ priority = 2 \/ priority = 3 \/ priority = 4 \/ priority = 5
    OBVIOUS
  <1>4. at' \in 0 .. ((NSeries + 1) * 5 + NSeries)
    BY <1>1, <1>2, <1>3
  <1> QED
    BY <1>1, <1>4 DEF Code

\* The invariant from its parts, after a step.
LEMMA Assembled ==
    ASSUME now' \in 0 .. MaxTime + 1, at' \in 0 .. Code(5, NSeries), status' \in Stati,
           Typed', Marked', \A s \in Series : Held(pf'.pos[s], s) /\ Alone(book'[s]),
           OrdersReachTarget'
    PROVE  IInv'
  <1>1. \A s \in Series : /\ bar'[s].open \in Prices \cup {NoPrice}
                          /\ closing'[s] \in Prices \cup {NoPrice}
    BY DEF Typed
  <1>2. \A s \in Series : /\ (pf'.pos[s].qty = 0) = (pf'.pos[s].avg = None)
                          /\ Spot(s) => pf'.pos[s].qty >= 0
    BY DEF Held
  <1>3. TypeOK'
    BY <1>1, <1>2 DEF TypeOK, Stati
  <1> QED
    BY <1>3 DEF IInv

\* A pass, from the account the engine gives it.
LEMMA PassKeeps ==
    ASSUME IInv, status = "running", NEW s \in Series, NEW from \in Accounts({pf.peak}),
           from.pos = pf.pos, NEW r,
           Passed(book[s], [series |-> s, pf |-> from], r), Handle(s, from, r), aim' = aim
    PROVE  /\ pf' \in Accounts({pf'.peak}) /\ pf'.mark = from.mark
           /\ book' \in [Series -> Books]
           /\ \A t \in Series : Held(pf'.pos[t], t) /\ Alone(book'[t])
           /\ OrdersReachTarget'
           /\ Purchases /\ InventoryThere
           /\ status' \in {"running", "price", "inventory"}
  <1>1. /\ book \in [Series -> Books] /\ pf \in Accounts({pf.peak})
        /\ \A t \in Series : Held(pf.pos[t], t) /\ Alone(book[t])
    BY DEF IInv, Typed
  <1>2. Settles(s, from, book[s], aim[s])
    BY <1>1, PassSettles
  <1>3. /\ book' \in [Series -> Books]
        /\ \A t \in Series \ {s} : book'[t] = book[t]
        /\ Alone(book'[s])
    BY <1>1, BookAfterPass
  <1>4. pf' \in Accounts({from.peak}) /\ pf'.mark = from.mark
    BY <1>2 DEF Settles
  <1>5. pf' \in Accounts({pf'.peak})
    BY <1>4 DEF Accounts
  <1>6. \A t \in Series \ {s} : pf'.pos[t] = pf.pos[t]
    BY <1>2 DEF Settles
  <1>7. \A t \in Series : Held(pf'.pos[t], t)
    BY <1>1, <1>2, <1>6 DEF Settles
  <1>8. \A t \in Series : Alone(book'[t])
    BY <1>1, <1>3
  <1>9. \A t \in Series : Leads(pf.pos[t].qty, book[t], aim[t])
    BY DEF IInv, OrdersReachTarget, Leads
  <1>10. \A t \in Series : Leads(pf'.pos[t].qty, book'[t], aim'[t])
    <2>1. Leads(pf'.pos[s].qty, book'[s], aim'[s])
      BY <1>2, <1>9 DEF Settles
    <2>2. \A t \in Series \ {s} : Leads(pf'.pos[t].qty, book'[t], aim'[t])
      BY <1>3, <1>6, <1>9
    <2> QED
      BY <2>1, <2>2
  <1>11. OrdersReachTarget'
    BY <1>10 DEF OrdersReachTarget, Leads
  <1>12. Purchases
    <2>1. \A t \in Series : pf.pos[t].qty \in Int
      BY <1>1 DEF Accounts, Positions
    <2>2. \A t \in Series \ {s} : ~(pf'.pos[t].qty > pf.pos[t].qty)
      BY <1>6, <2>1
    <2>3. Spot(s) /\ pf'.pos[s].qty > pf.pos[s].qty => pf'.cash >= 0
      BY <1>2 DEF Settles
    <2> QED
      BY <2>2, <2>3 DEF Purchases
  <1>13. InventoryThere /\ status' \in {"running", "price", "inventory"}
    BY <1>2 DEF Settles, InventoryThere
  <1> QED
    BY <1>3, <1>4, <1>5, <1>7, <1>8, <1>11, <1>12, <1>13

LEMMA PricesAreInts ==
    Prices \subseteq Int /\ Prices \cup {NoPrice} \subseteq Int /\ \A p \in Prices : p \in Nat /\ p > 0
  BY Quotes DEF NoPrice

LEMMA CompleteBarStep ==
    ASSUME IInv, NEW s \in Series, CompleteBar(s)
    PROVE  IInv' /\ Purchases /\ InventoryThere
  <1>1. PICK low \in Prices, high \in Prices, close \in Prices :
            /\ closing' = [closing EXCEPT ![s] = close]
            /\ Handle(s, pf, Broker!ProcessBar(book[s], [series |-> s, pf |-> pf], low, high, now))
    BY DEF CompleteBar
  <1> DEFINE r == Broker!ProcessBar(book[s], [series |-> s, pf |-> pf], low, high, now)
  <1>2. at' \in 0 .. Code(5, NSeries) /\ status = "running"
    <2>1. Turn(1, s)
      BY DEF CompleteBar
    <2> QED
      BY <2>1, TurnType
  <1>3. /\ bar[s] # NoBar /\ bar' = [bar EXCEPT ![s] = NoBar] /\ seen' = [seen EXCEPT ![s] = TRUE]
        /\ conf' = conf /\ now' = now /\ aim' = aim
    BY DEF CompleteBar
  <1>4. Typed /\ Marked /\ now \in 0 .. MaxTime + 1 /\ book[s] \in Books /\ Alone(book[s])
    BY DEF IInv, TypeOK, Typed
  <1>5. Passed(book[s], [series |-> s, pf |-> pf], r)
    BY <1>4, BarPasses, PricesAreInts
  <1>6. pf \in Accounts({pf.peak}) /\ pf.pos = pf.pos
    BY <1>4 DEF Typed
  <1> HIDE DEF r
  <1>7. Handle(s, pf, r)
    BY <1>1 DEF r
  <1>8. /\ pf' \in Accounts({pf'.peak}) /\ pf'.mark = pf.mark
        /\ book' \in [Series -> Books]
        /\ \A t \in Series : Held(pf'.pos[t], t) /\ Alone(book'[t])
        /\ OrdersReachTarget'
        /\ Purchases /\ InventoryThere
        /\ status' \in {"running", "price", "inventory"}
    BY <1>2, <1>3, <1>5, <1>6, <1>7, PassKeeps
  <1>9. bar' \in [Series -> [open : Prices \cup {NoPrice}, since : Nat]]
    <2>1. NoBar \in [open : Prices \cup {NoPrice}, since : Nat]
      BY DEF NoBar
    <2> QED
      BY <1>3, <1>4, <2>1 DEF Typed
  <1>10. closing' \in [Series -> Prices \cup {NoPrice}] /\ seen' \in [Series -> BOOLEAN]
    BY <1>1, <1>3, <1>4 DEF Typed
  <1>11. Typed'
    BY <1>3, <1>4, <1>8, <1>9, <1>10 DEF Typed
  <1>12. Marked'
    <2>1. \A t \in Series : pf'.mark[t] = pf.mark[t]
      BY <1>8
    <2>2. \A t \in Series \ {s} : bar'[t] = bar[t] /\ seen'[t] = seen[t]
      BY <1>3, <1>4 DEF Typed
    <2> QED
      BY <1>3, <1>4, <2>1, <2>2 DEF Marked
  <1>13. status' \in Stati /\ now' \in 0 .. MaxTime + 1
    BY <1>3, <1>4, <1>8 DEF Stati
  <1> QED
    BY <1>2, <1>8, <1>11, <1>12, <1>13, Assembled

LEMMA OpenBarStep ==
    ASSUME IInv, NEW s \in Series, OpenBar(s)
    PROVE  IInv' /\ Purchases /\ InventoryThere
  <1>1. PICK open \in Prices :
            /\ bar' = [bar EXCEPT ![s] = [open |-> open, since |-> now]]
            /\ Handle(s, SetMark(pf, s, open),
                      Broker!ProcessOpen(book[s], [series |-> s, pf |-> SetMark(pf, s, open)], open, now))
    BY DEF OpenBar
  <1> DEFINE from == SetMark(pf, s, open)
             r == Broker!ProcessOpen(book[s], [series |-> s, pf |-> from], open, now)
  <1>2. at' \in 0 .. Code(5, NSeries) /\ status = "running"
    <2>1. Turn(5, s)
      BY DEF OpenBar
    <2> QED
      BY <2>1, TurnType
  <1>3. conf' = conf /\ now' = now /\ closing' = closing /\ seen' = seen /\ aim' = aim
    BY DEF OpenBar
  <1>4. Typed /\ Marked /\ now \in 0 .. MaxTime + 1 /\ book[s] \in Books /\ Alone(book[s])
    BY DEF IInv, TypeOK, Typed
  <1>5. open \in Int
    BY PricesAreInts
  <1>6. Passed(book[s], [series |-> s, pf |-> from], r)
    BY <1>4, <1>5, OpenPasses
  <1>7. from \in Accounts({pf.peak}) /\ from.pos = pf.pos /\ from.mark = [pf.mark EXCEPT ![s] = open]
    <2>1. pf \in Accounts({pf.peak})
      BY <1>4 DEF Typed
    <2>2. from \in Accounts({pf.peak}) /\ OnlyMarked(pf, s, open, from)
      BY <1>5, <2>1, MarkParts
    <2> QED
      BY <2>2, Zenon DEF OnlyMarked
  <1> HIDE DEF r, from
  <1>8. Handle(s, from, r)
    BY <1>1 DEF r, from
  <1>9. /\ pf' \in Accounts({pf'.peak}) /\ pf'.mark = from.mark
        /\ book' \in [Series -> Books]
        /\ \A t \in Series : Held(pf'.pos[t], t) /\ Alone(book'[t])
        /\ OrdersReachTarget'
        /\ Purchases /\ InventoryThere
        /\ status' \in {"running", "price", "inventory"}
    BY <1>2, <1>3, <1>6, <1>7, <1>8, PassKeeps
  <1>10. bar' \in [Series -> [open : Prices \cup {NoPrice}, since : Nat]]
    <2>1. now \in Nat
      BY <1>4, Bounds
    <2>2. [open |-> open, since |-> now] \in [open : Prices \cup {NoPrice}, since : Nat]
      BY <2>1
    <2> QED
      BY <1>1, <1>4, <2>2 DEF Typed
  <1>11. Typed'
    BY <1>3, <1>4, <1>9, <1>10 DEF Typed
  <1>12. Marked'
    <2>1. pf.mark \in [Series -> Int]
      BY <1>4 DEF Typed, Accounts
    <2>2. pf'.mark[s] = open /\ \A t \in Series \ {s} : pf'.mark[t] = pf.mark[t]
      BY <1>7, <1>9, <2>1
    <2>3. \A t \in Series \ {s} : bar'[t] = bar[t]
      BY <1>1, <1>4 DEF Typed
    <2> QED
      BY <1>3, <1>4, <2>2, <2>3 DEF Marked
  <1>13. status' \in Stati /\ now' \in 0 .. MaxTime + 1
    BY <1>3, <1>4, <1>9 DEF Stati
  <1> QED
    BY <1>2, <1>9, <1>11, <1>12, <1>13, Assembled

\* A step that leaves orders, positions and targets alone.
LEMMA QuietKeeps ==
    ASSUME IInv, book' = book, aim' = aim, \A s \in Series : pf'.pos[s] = pf.pos[s],
           status = "running", status' = status
    PROVE  /\ \A s \in Series : Held(pf'.pos[s], s) /\ Alone(book'[s])
           /\ OrdersReachTarget' /\ Purchases /\ InventoryThere
  <1>1. /\ \A s \in Series : Held(pf.pos[s], s) /\ Alone(book[s])
        /\ \A s \in Series : Leads(pf.pos[s].qty, book[s], aim[s])
    BY DEF IInv, OrdersReachTarget, Leads
  <1>2. \A s \in Series : Leads(pf'.pos[s].qty, book'[s], aim'[s])
    BY <1>1
  <1>3. OrdersReachTarget'
    BY <1>2 DEF OrdersReachTarget, Leads
  <1>4. Purchases
    <2>1. \A s \in Series : pf.pos[s].qty \in Int
      BY DEF IInv, Typed, Accounts, Positions
    <2>2. \A s \in Series : ~(pf'.pos[s].qty > pf.pos[s].qty)
      BY <2>1
    <2> QED
      BY <2>2 DEF Purchases
  <1> QED
    BY <1>1, <1>3, <1>4 DEF InventoryThere

LEMMA MarkCloseStep ==
    ASSUME IInv, NEW s \in Series, MarkClose(s)
    PROVE  IInv' /\ Purchases /\ InventoryThere
  <1>1. /\ closing[s] # NoPrice /\ pf' = SetMark(pf, s, closing[s])
        /\ closing' = [closing EXCEPT ![s] = NoPrice]
        /\ UNCHANGED <<conf, now, bar, seen, book, aim, status>>
    BY DEF MarkClose
  <1>2. at' \in 0 .. Code(5, NSeries) /\ status = "running"
    <2>1. Turn(2, s)
      BY DEF MarkClose
    <2> QED
      BY <2>1, TurnType
  <1>3. Typed /\ Marked /\ now \in 0 .. MaxTime + 1
    BY DEF IInv, TypeOK
  <1>4. closing[s] \in Prices /\ closing[s] \in Int
    <2>1. closing[s] \in Prices \cup {NoPrice}
      BY <1>3 DEF Typed
    <2> QED
      BY <1>1, <2>1, PricesAreInts
  <1>5. pf' \in Accounts({pf.peak}) /\ OnlyMarked(pf, s, closing[s], pf')
    <2>1. pf \in Accounts({pf.peak})
      BY <1>3 DEF Typed
    <2> QED
      BY <1>1, <1>4, <2>1, MarkParts
  <1>6. pf' \in Accounts({pf'.peak})
    BY <1>5 DEF Accounts
  <1>7. pf'.pos = pf.pos /\ pf'.mark = [pf.mark EXCEPT ![s] = closing[s]]
    BY <1>5 DEF OnlyMarked
  <1>8. Typed'
    <2>1. closing' \in [Series -> Prices \cup {NoPrice}]
      BY <1>1, <1>3 DEF Typed
    <2> QED
      BY <1>1, <1>3, <1>6, <2>1 DEF Typed
  <1>9. Marked'
    <2>1. pf.mark \in [Series -> Int]
      BY <1>3 DEF Typed, Accounts
    <2>2. pf'.mark[s] \in Prices /\ \A t \in Series \ {s} : pf'.mark[t] = pf.mark[t]
      BY <1>4, <1>7, <2>1
    <2> QED
      BY <1>1, <1>3, <2>2 DEF Marked
  <1>10. /\ \A t \in Series : Held(pf'.pos[t], t) /\ Alone(book'[t])
         /\ OrdersReachTarget' /\ Purchases /\ InventoryThere
    BY <1>1, <1>2, <1>7, QuietKeeps
  <1>11. status' \in Stati /\ now' \in 0 .. MaxTime + 1
    BY <1>1, <1>2, <1>3 DEF Stati
  <1> QED
    BY <1>2, <1>8, <1>9, <1>10, <1>11, Assembled

LEMMA FundStep ==
    ASSUME IInv, NEW s \in Series, Fund(s)
    PROVE  IInv' /\ Purchases /\ InventoryThere
  <1>1. UNCHANGED <<conf, now, bar, closing, seen, book, aim, status>>
    BY DEF Fund
  <1>2. PICK rate \in Rates :
            LET flow == -(pf.pos[s].qty * pf.mark[s] * rate) \div RateUnit
            IN  pf' = [pf EXCEPT !.cash = @ + flow, !.funding = @ + flow]
    BY DEF Fund
  <1> DEFINE flow == -(pf.pos[s].qty * pf.mark[s] * rate) \div RateUnit
  <1>3. at' \in 0 .. Code(5, NSeries) /\ status = "running"
    <2>1. Turn(3, s)
      BY DEF Fund
    <2> QED
      BY <2>1, TurnType
  <1>4. Typed /\ Marked /\ now \in 0 .. MaxTime + 1 /\ pf \in Accounts({pf.peak})
    BY DEF IInv, TypeOK, Typed
  <1>5. flow \in Int
    <2>1. pf.pos[s].qty \in Int /\ pf.mark[s] \in Int
      BY <1>4 DEF Accounts, Positions
    <2>2. rate \in Int /\ RateUnit \in Int /\ RateUnit > 0
      BY Charges
    <2>3. pf.pos[s].qty * pf.mark[s] * rate \in Int
      BY <2>1, <2>2
    <2> DEFINE product == pf.pos[s].qty * pf.mark[s] * rate
    <2> HIDE DEF product
    <2>4. product \in Int
      BY <2>3 DEF product
    <2>5. (-product) \div RateUnit \in Int /\ product \div RateUnit \in Int
      BY <2>2, <2>4
    <2>6. -(product \div RateUnit) \in Int
      BY <2>5
    <2> QED
      BY <2>5, <2>6 DEF product
  <1>6. pf' = [pf EXCEPT !.cash = @ + flow, !.funding = @ + flow]
    BY <1>2
  <1> HIDE DEF flow
  <1>7. /\ pf' \in Accounts({pf.peak}) /\ pf'.pos = pf.pos /\ pf'.mark = pf.mark
    <2> DEFINE cash == pf.cash + flow
               funding == pf.funding + flow
    <2>1. cash \in Int /\ funding \in Int
      BY <1>4, <1>5 DEF Accounts
    <2>2. pf' = [pf EXCEPT !.cash = cash, !.funding = funding]
      BY <1>4, <1>6 DEF Accounts
    <2> HIDE DEF cash, funding
    <2> QED
      BY <1>4, <2>1, <2>2 DEF Accounts
  <1>8. pf' \in Accounts({pf'.peak})
    BY <1>7 DEF Accounts
  <1>9. Typed' /\ Marked'
    BY <1>1, <1>4, <1>7, <1>8 DEF Typed, Marked
  <1>10. /\ \A t \in Series : Held(pf'.pos[t], t) /\ Alone(book'[t])
         /\ OrdersReachTarget' /\ Purchases /\ InventoryThere
    BY <1>1, <1>3, <1>7, QuietKeeps
  <1>11. status' \in Stati /\ now' \in 0 .. MaxTime + 1
    BY <1>1, <1>3, <1>4 DEF Stati
  <1> QED
    BY <1>3, <1>9, <1>10, <1>11, Assembled

LEMMA EndInstantStep ==
    ASSUME IInv, EndInstant
    PROVE  IInv' /\ Purchases /\ InventoryThere
  <1>1. /\ now <= MaxTime /\ status = "running" /\ at' = 0 /\ now' = now + 1
        /\ UNCHANGED <<conf, bar, closing, seen, book, aim, status>>
    BY DEF EndInstant
  <1>2. \E peak : pf' = [pf EXCEPT !.peak = peak]
    BY DEF EndInstant
  <1>3. Typed /\ Marked /\ now \in 0 .. MaxTime + 1 /\ pf \in Accounts({pf.peak})
    BY DEF IInv, TypeOK, Typed
  <1>4. pf' \in Accounts({pf'.peak}) /\ pf'.pos = pf.pos /\ pf'.mark = pf.mark
    BY <1>2, <1>3 DEF Accounts
  <1>5. Typed' /\ Marked'
    BY <1>1, <1>3, <1>4 DEF Typed, Marked
  <1>6. /\ \A t \in Series : Held(pf'.pos[t], t) /\ Alone(book'[t])
        /\ OrdersReachTarget' /\ Purchases /\ InventoryThere
    BY <1>1, <1>4, QuietKeeps
  <1>7. status' \in Stati /\ now' \in 0 .. MaxTime + 1
    BY <1>1, <1>3, Bounds DEF Stati
  <1>8. at' \in 0 .. Code(5, NSeries)
    BY <1>1, SeriesCount DEF Code
  <1> QED
    BY <1>5, <1>6, <1>7, <1>8, Assembled

LEMMA EmptyBook ==
    ASSUME NEW b, \A i \in DOMAIN b : b[i] = NoOrder
    PROVE  Active(b) = {}
  BY DEF Active, IsActive, NoOrder

LEMMA NoOrderType ==
    NoOrder \in Tickets /\ [i \in Ids |-> NoOrder] \in Books
  BY DEF NoOrder, Tickets, Books, Sides, NoPrice, OrderStates

LEMMA FinishStep ==
    ASSUME IInv, Finish
    PROVE  IInv' /\ Purchases /\ InventoryThere
  <1>1. /\ status' \in {"completed", "metrics"}
        /\ book' = [s \in Series |-> [i \in DOMAIN book[s] |-> NoOrder]]
        /\ UNCHANGED <<conf, now, at, bar, closing, seen, pf, aim>>
    BY DEF Finish
  <1>2. Typed /\ Marked /\ now \in 0 .. MaxTime + 1 /\ at \in 0 .. Code(5, NSeries)
        /\ \A s \in Series : Held(pf.pos[s], s)
    BY DEF IInv, TypeOK
  <1>3. \A s \in Series : DOMAIN book[s] = Ids
    BY <1>2 DEF Typed, Books
  <1>4. book' \in [Series -> Books] /\ \A s \in Series : Active(book'[s]) = {}
    <2>1. \A s \in Series : book'[s] = [i \in Ids |-> NoOrder]
      BY <1>1, <1>3
    <2>2. \A s \in Series : Active(book'[s]) = {}
      BY <2>1, EmptyBook
    <2> QED
      BY <1>1, <2>1, <2>2, NoOrderType
  <1>5. Typed' /\ Marked'
    BY <1>1, <1>2, <1>4 DEF Typed, Marked
  <1>6. OrdersReachTarget' /\ \A s \in Series : Alone(book'[s])
    BY <1>4 DEF OrdersReachTarget, Alone
  <1>7. Purchases /\ InventoryThere
    <2>1. \A s \in Series : pf.pos[s].qty \in Int
      BY <1>2 DEF Typed, Accounts, Positions
    <2>2. \A s \in Series : ~(pf'.pos[s].qty > pf.pos[s].qty)
      BY <1>1, <2>1
    <2> QED
      BY <1>1, <2>2 DEF Purchases, InventoryThere
  <1>8. status' \in Stati /\ now' \in 0 .. MaxTime + 1 /\ at' \in 0 .. Code(5, NSeries)
        /\ \A s \in Series : Held(pf'.pos[s], s)
    BY <1>1, <1>2 DEF Stati
  <1> QED
    BY <1>5, <1>6, <1>7, <1>8, Assembled

\* A price some basis points away from another.
LEMMA AwayType ==
    ASSUME NEW price \in Int, NEW bps \in Nat, NEW sign \in {-1, 1}
    PROVE  price + sign * ((price * bps) \div 10000) \in Int
  <1>1. price * bps \in Int
    OBVIOUS
  <1>2. (price * bps) \div 10000 \in Int
    BY <1>1
  <1> DEFINE x == (price * bps) \div 10000
  <1> HIDE DEF x
  <1>3. price + sign * x \in Int
    BY <1>2 DEF x
  <1> QED
    BY <1>3 DEF x

LEMMA OrderedType ==
    ASSUME NEW side \in Sides, NEW qty \in Nat, NEW reference \in Int, conf \in Configurations
    PROVE  /\ Ordered(side, qty, reference) \in Tickets
           /\ Ordered(side, qty, reference).side = side /\ Ordered(side, qty, reference).qty = qty
  <1> DEFINE away(price, bps, sign) == price + sign * ((price * bps) \div 10000)
             stop == away(reference, conf.offset, Sign(side))
             near == away(reference, conf.offset, -Sign(side))
             far == away(stop, conf.limit, Sign(side))
             limit_ == CASE conf.type = "limit" -> near
                         [] conf.type = "stop_limit" -> far
                         [] OTHER -> NoPrice
             stop_ == IF conf.type \in {"stop", "stop_limit"} THEN stop ELSE NoPrice
  <1>1. /\ conf.type \in {"market", "limit", "stop", "stop_limit"} /\ conf.tif \in {"gtc", "ioc"}
        /\ conf.offset \in Nat /\ conf.limit \in Nat
    BY Strategies
  <1>2. Sign(side) \in {-1, 1} /\ -Sign(side) \in {-1, 1}
    <2>1. Sign(side) = 1 \/ Sign(side) = -1
      BY DEF Sign
    <2> QED
      BY <2>1
  <1>3. stop \in Int
    BY <1>1, <1>2, AwayType
  <1>4. near \in Int
    BY <1>1, <1>2, AwayType
  <1>5. far \in Int
    <2> HIDE DEF stop
    <2> QED
      BY <1>1, <1>2, <1>3, AwayType
  <1>6. Ordered(side, qty, reference) =
            [NoOrder EXCEPT !.side = side, !.type = conf.type, !.qty = qty, !.tif = conf.tif,
                            !.limit = limit_, !.stop = stop_]
    BY DEF Ordered
  <1> HIDE DEF stop, near, far
  <1>7. limit_ \in Int /\ stop_ \in Int
    BY <1>3, <1>4, <1>5 DEF NoPrice
  <1> HIDE DEF limit_, stop_
  <1> QED
    BY <1>1, <1>6, <1>7, NoOrderType DEF Tickets

LEMMA TargetType ==
    ASSUME NEW direction \in {-1, 0, 1}, NEW reference \in Nat, reference > 0,
           conf \in Configurations
    PROVE  Target(direction, reference) \in Int
  <1>1. conf.target \in Nat
    BY Strategies
  <1>2. conf.target \div reference \in Int
    BY <1>1
  <1> QED
    BY <1>1, <1>2 DEF Target

\* An order of this size on this side takes a position to the target.
ClosesGap(quantity, target, size, side) ==
    size \in Nat /\ side \in Sides /\ quantity + Sign(side) * size = target

\* The order of a signal closes the gap between the position and the target.
LEMMA OrderClosesGap ==
    ASSUME NEW quantity \in Int, NEW target \in Int, NEW delta, delta = target - quantity,
           NEW side, side = IF delta > 0 THEN "buy" ELSE "sell"
    PROVE  ClosesGap(quantity, target, AbsInt(delta), side)
  <1>1. delta \in Int
    OBVIOUS
  <1>2. AbsInt(delta) = IF delta < 0 THEN -delta ELSE delta
    BY DEF AbsInt
  <1>3. CASE delta > 0
    <2>1. side = "buy" /\ Sign(side) = 1 /\ AbsInt(delta) = delta
      BY <1>1, <1>2, <1>3 DEF Sign
    <2> QED
      BY <1>1, <2>1 DEF Sides, ClosesGap
  <1>4. CASE ~(delta > 0)
    <2>1. side = "sell" /\ Sign(side) = -1 /\ AbsInt(delta) = -delta
      BY <1>1, <1>2, <1>4 DEF Sign
    <2> QED
      BY <1>1, <2>1 DEF Sides, ClosesGap
  <1> QED
    BY <1>3, <1>4

OnlyOrder(b, i, order) ==
    b \in Books /\ Active(b) = {i} /\ b[i].side = order.side /\ b[i].qty = order.qty

LEMMA SubmittedAlone ==
    ASSUME NEW b \in Books, NEW i \in Ids, NEW order \in Tickets, NEW instant \in Nat,
           NEW empty, empty = Superseded(b)
    PROVE  /\ empty \in Books /\ Active(empty) = {}
           /\ OnlyOrder(Submitted(empty, i, order, TRUE, instant), i, order)
  <1> DEFINE o == [order EXCEPT !.sub = instant, !.st = "acknowledged"]
             c == [empty EXCEPT ![i] = o]
  <1>1. empty = [j \in Ids |-> NoOrder]
    BY DEF Superseded, Books
  <1>2. empty \in Books /\ Active(empty) = {}
    BY <1>1, NoOrderType, EmptyBook
  <1>3. o \in Tickets /\ o.side = order.side /\ o.qty = order.qty /\ IsActive(o)
    BY DEF Tickets, OrderStates, IsActive
  <1>4. Submitted(empty, i, order, TRUE, instant) = c
    BY DEF Submitted
  <1> HIDE DEF o
  <1>5. c \in Books /\ DOMAIN c = Ids /\ c[i] = o /\ \A j \in Ids \ {i} : c[j] = NoOrder
    BY <1>1, <1>2, <1>3 DEF Books
  <1> HIDE DEF c
  <1>6. ~IsActive(NoOrder)
    BY DEF NoOrder, IsActive
  <1>7. Active(c) = {i}
    BY <1>3, <1>5, <1>6 DEF Active
  <1> QED
    BY <1>2, <1>3, <1>4, <1>5, <1>7 DEF OnlyOrder

LEMMA SignalStep ==
    ASSUME IInv, NEW s \in Series, Signal(s)
    PROVE  IInv' /\ Purchases /\ InventoryThere
  <1>1. UNCHANGED <<conf, now, bar, closing, seen, pf, status>> /\ seen[s]
    BY DEF Signal
  <1>2. PICK direction \in {-1, 0, 1} :
            LET active == Superseded(book[s])
                target == Target(direction, pf.mark[s])
                delta == target - pf.pos[s].qty
                side == IF delta > 0 THEN "buy" ELSE "sell"
                order == Ordered(side, AbsInt(delta), pf.mark[s])
                accepted == Accepts(pf, s, side, AbsInt(delta), pf.mark[s], 0,
                                    Cardinality(Active(active)))
            IN  /\ book' = [book EXCEPT ![s] = IF delta # 0 /\ accepted
                                               THEN Submitted(active, now, order, TRUE, now) ELSE active]
                /\ aim' = [aim EXCEPT ![s] = target]
    BY DEF Signal
  <1> DEFINE active == Superseded(book[s])
             target == Target(direction, pf.mark[s])
             delta == target - pf.pos[s].qty
             side == IF delta > 0 THEN "buy" ELSE "sell"
             order == Ordered(side, AbsInt(delta), pf.mark[s])
             made == Submitted(active, now, order, TRUE, now)
  <1>3. aim' = [aim EXCEPT ![s] = target]
    BY <1>2
  <1>4. \/ book' = [book EXCEPT ![s] = made] \/ book' = [book EXCEPT ![s] = active]
    BY <1>2
  <1>5. at' \in 0 .. Code(5, NSeries) /\ status = "running"
    <2>1. Turn(4, s)
      BY DEF Signal
    <2> QED
      BY <2>1, TurnType
  <1>6. Typed /\ Marked /\ now \in 0 .. MaxTime + 1 /\ book[s] \in Books
        /\ \A t \in Series : Held(pf.pos[t], t) /\ Alone(book[t]) /\ Leads(pf.pos[t].qty, book[t], aim[t])
    BY DEF IInv, TypeOK, Typed, OrdersReachTarget, Leads
  <1>7. now \in Ids /\ now \in Nat
    <2>1. now <= MaxTime
      BY DEF Signal, Turn
    <2> QED
      BY <1>6, <2>1, Bounds DEF Ids
  <1>8. pf.mark[s] \in Nat /\ pf.mark[s] > 0 /\ pf.mark[s] \in Int
    <2>1. pf.mark[s] \in Prices
      BY <1>1, <1>6 DEF Marked
    <2> QED
      BY <2>1, PricesAreInts
  <1>9. conf \in Configurations /\ pf.pos[s].qty \in Int
    BY <1>6 DEF Typed, Accounts, Positions
  <1>10. target \in Int
    BY <1>8, <1>9, TargetType
  <1> HIDE DEF target
  <1>23. delta = target - pf.pos[s].qty /\ side = (IF delta > 0 THEN "buy" ELSE "sell")
    OBVIOUS
  <1>24. active = Superseded(book[s])
    OBVIOUS
  <1> HIDE DEF delta, side, active
  <1>11. /\ AbsInt(delta) \in Nat /\ side \in Sides
         /\ pf.pos[s].qty + Sign(side) * AbsInt(delta) = target
    <2>1. ClosesGap(pf.pos[s].qty, target, AbsInt(delta), side)
      BY <1>9, <1>10, <1>23, OrderClosesGap
    <2> QED
      BY <2>1 DEF ClosesGap
  <1>12. order \in Tickets /\ order.side = side /\ order.qty = AbsInt(delta)
    BY <1>8, <1>9, <1>11, OrderedType
  <1> HIDE DEF order
  <1>13. /\ active \in Books /\ Active(active) = {}
         /\ made \in Books /\ Active(made) = {now}
         /\ made[now].side = order.side /\ made[now].qty = order.qty
    <2>1. /\ book[s] \in Books /\ now \in Ids /\ order \in Tickets /\ now \in Nat
          /\ active = Superseded(book[s])
      BY <1>6, <1>7, <1>12, <1>24
    <2> HIDE DEF made
    <2>2. active \in Books /\ Active(active) = {}
      BY <2>1, SubmittedAlone
    <2>3. OnlyOrder(made, now, order)
      BY <2>1, SubmittedAlone DEF made
    <2> QED
      BY <2>2, <2>3 DEF OnlyOrder
  <1> HIDE DEF made
  <1>14. /\ book' \in [Series -> Books] /\ \A t \in Series \ {s} : book'[t] = book[t]
         /\ book'[s] \in {made, active}
    BY <1>4, <1>6, <1>13 DEF Typed
  <1>15. aim' \in [Series -> Int] /\ aim'[s] = target /\ \A t \in Series \ {s} : aim'[t] = aim[t]
    BY <1>3, <1>6, <1>10 DEF Typed
  <1>16. Leads(pf.pos[s].qty, made, target) /\ Leads(pf.pos[s].qty, active, target)
    BY <1>11, <1>12, <1>13 DEF Leads
  <1>17. \A t \in Series : Leads(pf'.pos[t].qty, book'[t], aim'[t])
    <2>1. Leads(pf'.pos[s].qty, book'[s], aim'[s])
      BY <1>1, <1>14, <1>15, <1>16
    <2>2. \A t \in Series \ {s} : Leads(pf'.pos[t].qty, book'[t], aim'[t])
      BY <1>1, <1>6, <1>14, <1>15
    <2> QED
      BY <2>1, <2>2
  <1>18. OrdersReachTarget'
    BY <1>17 DEF OrdersReachTarget, Leads
  <1>19. \A t \in Series : Alone(book'[t])
    <2>1. Alone(made) /\ Alone(active)
      BY <1>13 DEF Alone
    <2> QED
      BY <1>6, <1>14, <2>1
  <1>20. Typed' /\ Marked'
    BY <1>1, <1>6, <1>14, <1>15 DEF Typed, Marked
  <1>21. Purchases /\ InventoryThere
    <2>1. \A t \in Series : pf.pos[t].qty \in Int
      BY <1>6 DEF Typed, Accounts, Positions
    <2>2. \A t \in Series : ~(pf'.pos[t].qty > pf.pos[t].qty)
      BY <1>1, <2>1
    <2> QED
      BY <1>1, <1>5, <2>2 DEF Purchases, InventoryThere
  <1>22. status' \in Stati /\ now' \in 0 .. MaxTime + 1 /\ \A t \in Series : Held(pf'.pos[t], t)
    BY <1>1, <1>5, <1>6 DEF Stati
  <1> QED
    BY <1>5, <1>18, <1>19, <1>20, <1>21, <1>22, Assembled

-----------------------------------------------------------------------------
(* The theorems on orders.                                                 *)

LEMMA InitGives ==
    ASSUME Init
    PROVE  IInv
  <1>1. /\ conf \in Configurations /\ now = 0 /\ at = 0 /\ status = "running"
        /\ bar = [s \in Series |-> NoBar] /\ closing = [s \in Series |-> NoPrice]
        /\ seen = [s \in Series |-> FALSE] /\ aim = [s \in Series |-> 0]
        /\ book = [s \in Series |-> [i \in Ids |-> NoOrder]]
    BY DEF Init, Ids
  <1>2. pf = [cash |-> InitialCash, pos |-> [s \in Series |-> Flat],
              mark |-> [s \in Series |-> NoPrice], shot |-> [s \in Series |-> 0],
              fees |-> 0, funding |-> 0, peak |-> InitialCash]
    BY DEF Init
  <1>3. Flat \in Positions /\ Flat.qty = 0 /\ Flat.avg = None
    BY DEF Flat, Positions, None
  <1>4. pf \in Accounts({pf.peak})
    <2>1. InitialCash \in Int /\ NoPrice \in Int
      BY Quotes DEF NoPrice
    <2> QED
      BY <1>2, <1>3, <2>1 DEF Accounts
  <1>5. \A s \in Series : Held(pf.pos[s], s)
    <2>1. \A s \in Series : pf.pos[s] = Flat
      BY <1>2
    <2> QED
      BY <1>3, <2>1 DEF Held
  <1>6. \A s \in Series : bar[s] = NoBar /\ ~seen[s] /\ bar[s].open = NoPrice
                          /\ closing[s] = NoPrice
    BY <1>1 DEF NoBar
  <1>7. Typed
    <2>1. NoBar \in [open : Prices \cup {NoPrice}, since : Nat]
      BY DEF NoBar
    <2>2. book \in [Series -> Books]
      BY <1>1, NoOrderType
    <2> QED
      BY <1>1, <1>4, <2>1, <2>2 DEF Typed
  <1>8. Marked
    BY <1>6 DEF Marked
  <1>9. \A s \in Series : Active(book[s]) = {}
    <2>1. \A s \in Series : book[s] = [i \in Ids |-> NoOrder]
      BY <1>1
    <2> QED
      BY <2>1, EmptyBook
  <1>10. OrdersReachTarget /\ \A s \in Series : Alone(book[s])
    BY <1>9 DEF OrdersReachTarget, Alone
  <1>11. now \in 0 .. MaxTime + 1 /\ at \in 0 .. Code(5, NSeries)
    BY <1>1, SeriesCount, Bounds DEF Code
  <1>12. TypeOK
    BY <1>1, <1>5, <1>6, <1>11 DEF TypeOK, Held
  <1> QED
    BY <1>5, <1>7, <1>8, <1>10, <1>12 DEF IInv

LEMMA NextKeeps ==
    ASSUME IInv, Next
    PROVE  IInv' /\ Purchases /\ InventoryThere
  <1>1. ASSUME NEW s \in Series,
               CompleteBar(s) \/ MarkClose(s) \/ Fund(s) \/ Signal(s) \/ OpenBar(s)
        PROVE  IInv' /\ Purchases /\ InventoryThere
    BY <1>1, CompleteBarStep, MarkCloseStep, FundStep, SignalStep, OpenBarStep
  <1>2. CASE EndInstant
    BY <1>2, EndInstantStep
  <1>3. CASE Finish
    BY <1>3, FinishStep
  <1> QED
    BY <1>1, <1>2, <1>3 DEF Next

LEMMA StutterKeeps ==
    ASSUME IInv, UNCHANGED vars
    PROVE  IInv' /\ Purchases
  <1>1. UNCHANGED <<conf, now, at, bar, closing, seen, book, pf, line, trips, left, aim, status>>
    BY DEF vars
  <1>2. IInv'
    BY <1>1 DEF IInv, TypeOK, Typed, Marked, OrdersReachTarget
  <1>3. \A s \in Series : pf.pos[s].qty \in Int
    BY DEF IInv, Typed, Accounts, Positions
  <1>4. \A s \in Series : ~(pf'.pos[s].qty > pf.pos[s].qty)
    BY <1>1, <1>3
  <1> QED
    BY <1>2, <1>4 DEF Purchases

LEMMA IInvAlways == Spec => []IInv
  <1>1. Init => IInv
    BY InitGives
  <1>2. IInv /\ [Next]_vars => IInv'
    BY NextKeeps, StutterKeeps
  <1> QED
    BY <1>1, <1>2, PTL DEF Spec

\* The engine's state keeps its types: cash, fees, funding, positions, marks and
\* orders are whole numbers and tickets, a position has an average exactly while it
\* is open, no spot position is short, and events keep their order in an instant.
\* (BacktestEngine.run)
THEOREM TypeCorrect == Spec => [](TypeOK /\ Typed)
  <1>1. IInv => TypeOK /\ Typed
    BY DEF IInv
  <1> QED
    BY <1>1, IInvAlways, PTL

\* The order a series waits for leads from its position to the target of its latest
\* signal, whatever bars, fills, marks and fundings come between (engine.py, SIGNAL
\* and handle_broker_result).
THEOREM OrdersLead == Spec => []OrdersReachTarget
  <1>1. IInv => OrdersReachTarget
    BY DEF IInv
  <1> QED
    BY <1>1, IInvAlways, PTL

\* A spot purchase never leaves negative cash: what the risk guard checked before the
\* fill is what the ledger books after the pass.
THEOREM PurchasesArePaid == Spec => PurchasesCovered
  <1>1. IInv /\ [Next]_vars =>
            [\A s \in Series : Spot(s) /\ pf'.pos[s].qty > pf.pos[s].qty => pf'.cash >= 0]_vars
    BY NextKeeps, StutterKeeps DEF Purchases
  <1> QED
    BY <1>1, IInvAlways, PTL DEF Spec, PurchasesCovered

\* With a risk guard that forbids spot shorts, the engine's own inventory check never
\* fires: no run ends because a fill found the inventory gone (accounting.py's
\* refusal), the part of RunsToItsResult that depends on no price.
THEOREM InventoryIsThere ==
    ASSUME Limits.noShorts
    PROVE  Spec => [](status # "inventory")
  <1> DEFINE Kept == IInv /\ status # "inventory"
  <1>1. Init => Kept
    BY InitGives DEF Init
  <1>2. Kept /\ [Next]_vars => Kept'
    <2>1. ASSUME Kept, Next PROVE Kept'
      BY <2>1, NextKeeps DEF InventoryThere
    <2>2. ASSUME Kept, UNCHANGED vars PROVE Kept'
      BY <2>2, StutterKeeps DEF vars
    <2> QED
      BY <2>1, <2>2
  <1>3. Kept => status # "inventory"
    OBVIOUS
  <1> QED
    BY <1>1, <1>2, <1>3, PTL DEF Spec

-----------------------------------------------------------------------------
(* Induction and folds.  A property of numbers or of sets is given as the   *)
(* set of those that have it.                                              *)

\* Induction over the natural numbers.
LEMMA NumbersInduct ==
    ASSUME NEW Good \in SUBSET Nat, 0 \in Good, \A n \in Good : n + 1 \in Good
    PROVE  \A n \in Nat : n \in Good
  <1> SUFFICES ASSUME Nat \ Good # {} PROVE FALSE
    OBVIOUS
  <1>1. PICK x \in Nat \ Good : \A y \in Nat \ Good : ~(<<y, x>> \in OpToRel(<, Nat))
    BY NatLessThanWellFounded, WFMin
  <1>2. x # 0 /\ x - 1 \in Nat /\ x - 1 < x /\ (x - 1) + 1 = x
    OBVIOUS
  <1>3. x - 1 \in Good
    <2> SUFFICES ASSUME x - 1 \in Nat \ Good PROVE FALSE
      BY <1>2
    <2>1. <<x - 1, x>> \in OpToRel(<, Nat)
      BY <1>2 DEF OpToRel
    <2> QED
      BY <1>1, <2>1
  <1> QED
    BY <1>1, <1>2, <1>3

\* Induction over the subsets of a finite set.
LEMMA SubsetsInduct ==
    ASSUME NEW S, IsFiniteSet(S), NEW Good \in SUBSET (SUBSET S), {} \in Good,
           \A s \in SUBSET S : (\A x \in s : s \ {x} \in Good) => s \in Good
    PROVE  \A s \in SUBSET S : s \in Good
  <1> DEFINE Sized(n) == \A s \in SUBSET S : Cardinality(s) = n => s \in Good
             N == {n \in Nat : Sized(n)}
  <1>1. \A s \in SUBSET S : IsFiniteSet(s) /\ Cardinality(s) \in Nat
    BY FS_Subset, FS_CardinalityType
  <1>2. 0 \in N
    <2>1. \A s \in SUBSET S : Cardinality(s) = 0 => s = {}
      BY <1>1, FS_EmptySet
    <2> QED
      BY <2>1
  <1>3. ASSUME NEW n \in N PROVE n + 1 \in N
    <2> SUFFICES ASSUME NEW s \in SUBSET S, Cardinality(s) = n + 1 PROVE s \in Good
      OBVIOUS
    <2>1. \A x \in s : Cardinality(s \ {x}) = n
      BY <1>1, FS_RemoveElement
    <2>2. \A x \in s : s \ {x} \in Good
      BY <2>1
    <2> QED
      BY <2>2
  <1> HIDE DEF N
  <1>4. N \in SUBSET Nat
    BY DEF N
  <1>5. \A n \in Nat : n \in N
    BY <1>2, <1>3, <1>4, NumbersInduct
  <1> QED
    BY <1>1, <1>5 DEF N

Picks(pick, S) == \A s \in SUBSET S : s # {} => pick[s] \in s
FoldOf(h, S, base, pick, g) ==
    \A s \in SUBSET S : h[s] = IF s = {} THEN base ELSE g[pick[s]][h[s \ {pick[s]}]]

\* A fold that picks the elements of a finite set one after the other exists.
LEMMA FoldExists ==
    ASSUME NEW S, IsFiniteSet(S), NEW R, NEW base \in R, NEW pick, Picks(pick, S),
           NEW g \in [S -> [R -> R]]
    PROVE  \E h \in [SUBSET S -> R] : FoldOf(h, S, base, pick, g)
  <1> DEFINE Folds(h, n) ==
                 \A s \in SUBSET S : Cardinality(s) <= n =>
                     h[s] = IF s = {} THEN base ELSE g[pick[s]][h[s \ {pick[s]}]]
             N == {n \in Nat : \E h \in [SUBSET S -> R] : Folds(h, n)}
  <1>1. \A s \in SUBSET S : IsFiniteSet(s) /\ Cardinality(s) \in Nat
    BY FS_Subset, FS_CardinalityType
  <1>0. \A s \in SUBSET S : s # {} => pick[s] \in s
    BY DEF Picks
  <1>2. 0 \in N
    <2> DEFINE h == [s \in SUBSET S |-> base]
    <2>1. h \in [SUBSET S -> R]
      OBVIOUS
    <2>2. \A s \in SUBSET S : Cardinality(s) <= 0 => s = {}
      BY <1>1, FS_EmptySet
    <2>3. Folds(h, 0)
      BY <2>2
    <2> QED
      BY <2>1, <2>3
  <1>3. ASSUME NEW n \in N PROVE n + 1 \in N
    <2>1. n \in Nat
      OBVIOUS
    <2>2. PICK h \in [SUBSET S -> R] : Folds(h, n)
      OBVIOUS
    <2> DEFINE k == [s \in SUBSET S |-> IF Cardinality(s) = n + 1
                                        THEN g[pick[s]][h[s \ {pick[s]}]] ELSE h[s]]
    <2>3. ASSUME NEW s \in SUBSET S, s # {} PROVE g[pick[s]][h[s \ {pick[s]}]] \in R
      <3>1. pick[s] \in S /\ s \ {pick[s]} \in SUBSET S
        BY <1>0, <2>3
      <3> QED
        BY <3>1
    <2>4. \A s \in SUBSET S : Cardinality(s) = n + 1 => s # {}
      <3>1. Cardinality({}) = 0 /\ n + 1 # 0
        BY <2>1, FS_EmptySet
      <3> QED
        BY <3>1
    <2>5. k \in [SUBSET S -> R]
      BY <2>3, <2>4
    <2>6. \A s \in SUBSET S : s # {} => Cardinality(s \ {pick[s]}) = Cardinality(s) - 1
      BY <1>0, <1>1, FS_RemoveElement
    <2>7. Folds(k, n + 1)
      <3> SUFFICES ASSUME NEW s \in SUBSET S, Cardinality(s) <= n + 1
                   PROVE  k[s] = IF s = {} THEN base ELSE g[pick[s]][k[s \ {pick[s]}]]
        OBVIOUS
      <3>1. CASE s = {}
        <4>1. Cardinality(s) = 0
          BY <3>1, FS_EmptySet
        <4>2. 0 # n + 1 /\ 0 <= n
          BY <2>1
        <4>3. k[s] = h[s]
          BY <4>1, <4>2
        <4>4. h[s] = base
          BY <2>2, <3>1, <4>1, <4>2
        <4> QED
          BY <3>1, <4>3, <4>4
      <3>2. CASE s # {}
        <4>1. pick[s] \in s /\ s \ {pick[s]} \in SUBSET S
          BY <1>0, <3>2
        <4>2. Cardinality(s \ {pick[s]}) = Cardinality(s) - 1
          BY <2>6, <3>2
        <4>3. Cardinality(s \ {pick[s]}) # n + 1
          BY <1>1, <2>1, <4>2
        <4>4. k[s \ {pick[s]}] = h[s \ {pick[s]}]
          BY <4>1, <4>3
        <4>5. k[s] = g[pick[s]][h[s \ {pick[s]}]]
          <5>1. CASE Cardinality(s) = n + 1
            BY <5>1
          <5>2. CASE Cardinality(s) # n + 1
            <6>1. Cardinality(s) <= n
              BY <1>1, <2>1, <5>2
            <6> QED
              BY <2>2, <3>2, <5>2, <6>1
          <5> QED
            BY <5>1, <5>2
        <4> QED
          BY <3>2, <4>4, <4>5
      <3> QED
        BY <3>1, <3>2
    <2>8. n + 1 \in Nat
      BY <2>1
    <2> HIDE DEF k, Folds
    <2>9. \E q \in [SUBSET S -> R] : Folds(q, n + 1)
      BY <2>5, <2>7
    <2> QED
      BY <2>8, <2>9
  <1> HIDE DEF N
  <1>4. N \in SUBSET Nat
    BY DEF N
  <1>5. Cardinality(S) \in N
    BY <1>1, <1>2, <1>3, <1>4, NumbersInduct
  <1>6. PICK h \in [SUBSET S -> R] : Folds(h, Cardinality(S))
    BY <1>5 DEF N
  <1>7. \A s \in SUBSET S : Cardinality(s) <= Cardinality(S)
    BY FS_Subset
  <1> QED
    BY <1>6, <1>7 DEF FoldOf

-----------------------------------------------------------------------------
(* Sums over the series.                                                   *)

Chosen(s) == CHOOSE x \in s : TRUE
Adds(h, f, S) == \A s \in SUBSET S :
    h[s] = IF s = {} THEN 0 ELSE f[Chosen(s)] + h[s \ {Chosen(s)}]
Adder(f, S) ==
    CHOOSE h : h = [s \in SUBSET S |-> IF s = {} THEN 0
                                       ELSE f[Chosen(s)] + h[s \ {Chosen(s)}]]

LEMMA SumIsAdder ==
    ASSUME NEW f
    PROVE  Sum(f) = Adder(f, DOMAIN f)[DOMAIN f]
  BY Zenon DEF Sum, FoldFunction, FoldFunctionOnSet, MapThenFoldSet, Adder, Chosen

LEMMA SeriesFinite == IsFiniteSet(Series)
  BY SeriesCount, FS_Interval DEF Series

LEMMA AdderAdds ==
    ASSUME NEW f \in [Series -> Int]
    PROVE  Adder(f, Series) \in [SUBSET Series -> Int] /\ Adds(Adder(f, Series), f, Series)
  <1> DEFINE S == Series
             pick == [s \in SUBSET S |-> Chosen(s)]
             add == [x \in S |-> [v \in Int |-> f[x] + v]]
             Body(h) == [s \in SUBSET S |-> IF s = {} THEN 0
                                            ELSE f[Chosen(s)] + h[s \ {Chosen(s)}]]
  <1>1. \A s \in SUBSET S : s # {} => Chosen(s) \in s
    BY DEF Chosen
  <1>2. add \in [S -> [Int -> Int]]
    OBVIOUS
  <1>3. Picks(pick, S)
    BY <1>1 DEF Picks
  <1>0. IsFiniteSet(S)
    BY SeriesFinite
  <1> HIDE DEF pick, add
  <1>4. PICK h \in [SUBSET S -> Int] : FoldOf(h, S, 0, pick, add)
    BY <1>0, <1>2, <1>3, FoldExists, 0 \in Int
  <1> HIDE DEF S
  <1>5. \A s \in SUBSET S : h[s] = IF s = {} THEN 0 ELSE f[Chosen(s)] + h[s \ {Chosen(s)}]
    <2> SUFFICES ASSUME NEW s \in SUBSET S, s # {}
                 PROVE  h[s] = f[Chosen(s)] + h[s \ {Chosen(s)}]
      BY <1>4 DEF FoldOf
    <2>1. pick[s] = Chosen(s) /\ Chosen(s) \in S
      BY <1>1 DEF pick
    <2>2. h[s \ {Chosen(s)}] \in Int
      OBVIOUS
    <2>3. add[Chosen(s)][h[s \ {Chosen(s)}]] = f[Chosen(s)] + h[s \ {Chosen(s)}]
      BY <2>1, <2>2 DEF add
    <2> QED
      BY <1>4, <2>1, <2>3 DEF FoldOf
  <1>6. h = Body(h)
    BY <1>5
  <1>7. Adder(f, S) = Body(Adder(f, S))
    BY <1>6, Zenon DEF Adder
  <1>8. Adds(Adder(f, S), f, S)
    BY <1>7 DEF Adds
  <1> DEFINE Good == {s \in SUBSET S : Adder(f, S)[s] \in Int}
  <1>9. {} \in Good
    <2>1. {} \in SUBSET S /\ Adder(f, S)[{}] = 0
      BY <1>8, Zenon DEF Adds
    <2> QED
      BY <2>1
  <1>10. ASSUME NEW s \in SUBSET S, \A x \in s : s \ {x} \in Good PROVE s \in Good
    <2>1. CASE s = {}
      BY <1>9, <2>1
    <2>2. CASE s # {}
      <3>1. Chosen(s) \in s /\ Chosen(s) \in Series
        BY <1>1, <2>2 DEF S
      <3>2. Adder(f, S)[s \ {Chosen(s)}] \in Int
        BY <1>10, <3>1
      <3>3. f[Chosen(s)] + Adder(f, S)[s \ {Chosen(s)}] \in Int
        BY <3>1, <3>2
      <3> QED
        BY <1>8, <2>2, <3>3 DEF Adds
    <2> QED
      BY <2>1, <2>2
  <1> HIDE DEF Good
  <1>11. \A s \in SUBSET S : s \in Good
    <2>1. Good \in SUBSET (SUBSET S)
      BY DEF Good
    <2> QED
      BY <1>0, <1>9, <1>10, <2>1, SubsetsInduct
  <1>12. \A s \in SUBSET S : Adder(f, S)[s] \in Int
    BY <1>11 DEF Good
  <1> QED
    BY <1>7, <1>8, <1>12 DEF S

LEMMA SumType ==
    ASSUME NEW f \in [Series -> Int]
    PROVE  Sum(f) \in Int /\ Sum(f) = Adder(f, Series)[Series]
  <1>1. Adder(f, Series) \in [SUBSET Series -> Int] /\ Series \in SUBSET Series
    BY AdderAdds
  <1>2. DOMAIN f = Series
    OBVIOUS
  <1>3. Sum(f) = Adder(f, Series)[Series]
    BY <1>2, SumIsAdder
  <1> QED
    BY <1>1, <1>3

\* The sum of sums.
LEMMA SumAdds ==
    ASSUME NEW f \in [Series -> Int], NEW g \in [Series -> Int], NEW h \in [Series -> Int],
           \A s \in Series : h[s] = f[s] + g[s]
    PROVE  Sum(h) = Sum(f) + Sum(g)
  <1> DEFINE F == Adder(f, Series)
             G == Adder(g, Series)
             H == Adder(h, Series)
             Good == {s \in SUBSET Series : H[s] = F[s] + G[s]}
  <1>1. /\ F \in [SUBSET Series -> Int] /\ Adds(F, f, Series)
        /\ G \in [SUBSET Series -> Int] /\ Adds(G, g, Series)
        /\ H \in [SUBSET Series -> Int] /\ Adds(H, h, Series)
    BY AdderAdds
  <1> HIDE DEF F, G, H
  <1>2. {} \in Good
    <2>1. {} \in SUBSET Series /\ F[{}] = 0 /\ G[{}] = 0 /\ H[{}] = 0
      BY <1>1, Zenon DEF Adds
    <2> QED
      BY <2>1
  <1>3. ASSUME NEW s \in SUBSET Series, \A x \in s : s \ {x} \in Good PROVE s \in Good
    <2>1. CASE s = {}
      BY <1>2, <2>1
    <2>2. CASE s # {}
      <3> DEFINE c == Chosen(s)
                 rest == s \ {c}
      <3>1. c \in s /\ c \in Series /\ rest \in SUBSET Series
        BY <2>2 DEF Chosen
      <3>2. H[rest] = F[rest] + G[rest]
        BY <1>3, <3>1
      <3>3. H[s] = h[c] + H[rest] /\ F[s] = f[c] + F[rest] /\ G[s] = g[c] + G[rest]
        BY <1>1, <2>2 DEF Adds
      <3> HIDE DEF c, rest
      <3>4. F[rest] \in Int /\ G[rest] \in Int /\ f[c] \in Int /\ g[c] \in Int
            /\ h[c] = f[c] + g[c]
        BY <1>1, <3>1
      <3>5. H[s] = F[s] + G[s]
        BY <3>2, <3>3, <3>4
      <3> QED
        BY <3>5
    <2> QED
      BY <2>1, <2>2
  <1> HIDE DEF Good
  <1>4. \A s \in SUBSET Series : s \in Good
    <2>1. Good \in SUBSET (SUBSET Series)
      BY DEF Good
    <2> QED
      BY <1>2, <1>3, <2>1, SubsetsInduct, SeriesFinite
  <1>5. H[Series] = F[Series] + G[Series]
    <2>1. Series \in SUBSET Series
      OBVIOUS
    <2> QED
      BY <1>4, <2>1 DEF Good
  <1>6. Sum(f) = F[Series] /\ Sum(g) = G[Series] /\ Sum(h) = H[Series]
    BY SumType DEF F, G, H
  <1> QED
    BY <1>5, <1>6

\* A sum moves with the one value that moves.
LEMMA SumMoves ==
    ASSUME NEW f \in [Series -> Int], NEW g \in [Series -> Int], NEW x \in Series,
           \A s \in Series \ {x} : g[s] = f[s]
    PROVE  Sum(g) = Sum(f) + g[x] - f[x]
  <1> DEFINE F == Adder(f, Series)
             G == Adder(g, Series)
             Good == {s \in SUBSET Series : G[s] = IF x \in s THEN F[s] + g[x] - f[x] ELSE F[s]}
  <1>1. /\ F \in [SUBSET Series -> Int] /\ Adds(F, f, Series)
        /\ G \in [SUBSET Series -> Int] /\ Adds(G, g, Series)
    BY AdderAdds
  <1> HIDE DEF F, G
  <1>2. {} \in Good
    BY <1>1 DEF Adds
  <1>3. ASSUME NEW s \in SUBSET Series, \A y \in s : s \ {y} \in Good PROVE s \in Good
    <2>1. CASE s = {}
      BY <1>2, <2>1
    <2>2. CASE s # {}
      <3> DEFINE c == Chosen(s)
                 rest == s \ {c}
      <3>1. c \in s /\ c \in Series /\ rest \in SUBSET Series
        BY <2>2 DEF Chosen
      <3>2. G[rest] = IF x \in rest THEN F[rest] + g[x] - f[x] ELSE F[rest]
        BY <1>3, <3>1
      <3>3. F[s] = f[c] + F[rest] /\ G[s] = g[c] + G[rest]
        BY <1>1, <2>2 DEF Adds
      <3>4. (x \in rest) = (x \in s /\ x # c)
        OBVIOUS
      <3> HIDE DEF c, rest
      <3>5. F[rest] \in Int /\ f[c] \in Int /\ g[c] \in Int /\ f[x] \in Int /\ g[x] \in Int
            /\ (c # x => g[c] = f[c])
        BY <1>1, <3>1
      <3>6. G[s] = IF x \in s THEN F[s] + g[x] - f[x] ELSE F[s]
        <4>1. CASE c = x
          BY <3>1, <3>2, <3>3, <3>4, <3>5, <4>1
        <4>2. CASE c # x
          BY <3>1, <3>2, <3>3, <3>4, <3>5, <4>2
        <4> QED
          BY <4>1, <4>2
      <3> QED
        BY <3>6
    <2> QED
      BY <2>1, <2>2
  <1> HIDE DEF Good
  <1>4. \A s \in SUBSET Series : s \in Good
    <2>1. Good \in SUBSET (SUBSET Series)
      BY DEF Good
    <2> QED
      BY <1>2, <1>3, <2>1, SubsetsInduct, SeriesFinite
  <1>5. G[Series] = F[Series] + g[x] - f[x]
    <2>1. Series \in SUBSET Series
      OBVIOUS
    <2> QED
      BY <1>4, <2>1 DEF Good
  <1>6. Sum(f) = F[Series] /\ Sum(g) = G[Series]
    BY SumType DEF F, G
  <1> QED
    BY <1>5, <1>6

LEMMA SumZero == Sum([s \in Series |-> 0]) = 0
  <1> DEFINE zero == [s \in Series |-> 0]
             x == Sum(zero)
  <1>1. zero \in [Series -> Int] /\ \A s \in Series : zero[s] = zero[s] + zero[s]
    OBVIOUS
  <1> HIDE DEF zero
  <1>2. x = x + x /\ x \in Int
    BY <1>1, SumAdds, SumType
  <1> HIDE DEF x
  <1>3. x = 0
    BY <1>2
  <1> QED
    BY <1>3 DEF x, zero

-----------------------------------------------------------------------------
(* The ledger: what a series has cost and earned, against the cash.        *)

Cost(p) == IF p.qty = 0 THEN 0 ELSE p.qty * p.avg
\* What a series has in the account besides its result that is not realized.
Due(p, s) == (IF Spot(s) THEN Cost(p) ELSE 0) - p.real
Dues(pos) == [s \in Series |-> Due(pos[s], s)]
Balanced(p) == p.cash - InitialCash + Sum(Dues(p.pos)) = p.funding - p.fees

\* The snapshots the metrics read are those of the positions and marks, and what is
\* held has a mark.
Snapped(p) == \A s \in Series : p.shot[s] = Unrealized(p.pos[s], p.mark[s])
Priced(p) == \A s \in Series : p.pos[s].qty # 0 => p.mark[s] # NoPrice

LEMMA DueType ==
    ASSUME NEW p \in Positions, NEW s
    PROVE  Due(p, s) \in Int /\ Cost(p) \in Int
  <1>1. p.qty \in Int /\ p.avg \in Int /\ p.real \in Int
    BY DEF Positions
  <1>2. Cost(p) \in Int
    BY <1>1 DEF Cost
  <1> QED
    BY <1>1, <1>2 DEF Due

\* A series' worth is what it cost, has earned, and would earn at its mark.
LEMMA WorthOfSeries ==
    ASSUME NEW p \in Positions, NEW mark \in Int, NEW s, p.qty # 0 => mark # NoPrice
    PROVE  (IF Spot(s) THEN p.qty * mark ELSE Unrealized(p, mark))
               = Due(p, s) + (p.real + Unrealized(p, mark))
  <1>1. p.qty \in Int /\ p.avg \in Int /\ p.real \in Int /\ Unrealized(p, mark) \in Int
    BY UnrealizedType DEF Positions
  <1>2. CASE p.qty = 0
    <2>1. Cost(p) = 0 /\ Unrealized(p, mark) = 0 /\ p.qty * mark = 0
      BY <1>2 DEF Cost, Unrealized
    <2> QED
      BY <1>1, <2>1 DEF Due
  <1>3. CASE p.qty # 0
    <2>1. Cost(p) = p.qty * p.avg /\ Unrealized(p, mark) = p.qty * (mark - p.avg)
      BY <1>3 DEF Cost, Unrealized
    <2>2. p.qty * (mark - p.avg) = p.qty * mark - p.qty * p.avg
      BY <1>1
    <2> DEFINE held == p.qty * mark
               cost == p.qty * p.avg
    <2>3. held \in Int /\ cost \in Int
      BY <1>1
    <2> HIDE DEF held, cost
    <2>4. Cost(p) = cost /\ Unrealized(p, mark) = held - cost
      BY <2>1, <2>2 DEF held, cost
    <2>5. held = cost - p.real + (p.real + Unrealized(p, mark))
      BY <1>1, <2>3, <2>4
    <2>6. Unrealized(p, mark) = 0 - p.real + (p.real + Unrealized(p, mark))
      BY <1>1
    <2> QED
      BY <2>4, <2>5, <2>6 DEF Due, held
  <1> QED
    BY <1>2, <1>3

\* The equity reconciles with the parts exactly when the ledger balances.
LEMMA ReconcilesIsBalanced ==
    ASSUME NEW k, NEW p \in Accounts({k}), Snapped(p), Priced(p)
    PROVE  Reconciles(p) <=> Balanced(p)
  <1> DEFINE worth == [s \in Series |-> IF Spot(s) THEN Exposure(p, s)
                                        ELSE Unrealized(p.pos[s], p.mark[s])]
             real == [s \in Series |-> p.pos[s].real]
             result == [s \in Series |-> p.pos[s].real + p.shot[s]]
             dues == Dues(p.pos)
  <1>1. /\ p.pos \in [Series -> Positions] /\ p.mark \in [Series -> Int]
        /\ p.shot \in [Series -> Int] /\ p.cash \in Int /\ p.fees \in Int /\ p.funding \in Int
    BY DEF Accounts
  <1>2. \A s \in Series : /\ p.pos[s] \in Positions /\ p.mark[s] \in Int /\ p.shot[s] \in Int
                          /\ p.pos[s].real \in Int /\ p.pos[s].qty \in Int
    BY <1>1 DEF Positions
  <1>3. real \in [Series -> Int] /\ result \in [Series -> Int]
    BY <1>2
  <1>4. dues \in [Series -> Int]
    BY <1>2, DueType DEF Dues
  <1>5. \A s \in Series : worth[s] = dues[s] + result[s]
    <2> SUFFICES ASSUME NEW s \in Series PROVE worth[s] = dues[s] + result[s]
      OBVIOUS
    <2>1. worth[s] = IF Spot(s) THEN p.pos[s].qty * p.mark[s]
                     ELSE Unrealized(p.pos[s], p.mark[s])
      BY DEF Exposure
    <2>2. p.shot[s] = Unrealized(p.pos[s], p.mark[s]) /\ (p.pos[s].qty # 0 => p.mark[s] # NoPrice)
      BY DEF Snapped, Priced
    <2>3. dues[s] = Due(p.pos[s], s) /\ result[s] = p.pos[s].real + Unrealized(p.pos[s], p.mark[s])
      BY <2>2 DEF Dues
    <2>4. p.pos[s] \in Positions /\ p.mark[s] \in Int
      BY <1>2
    <2>5. (IF Spot(s) THEN p.pos[s].qty * p.mark[s] ELSE Unrealized(p.pos[s], p.mark[s]))
              = Due(p.pos[s], s) + (p.pos[s].real + Unrealized(p.pos[s], p.mark[s]))
      <3> DEFINE q == p.pos[s]
                 m == p.mark[s]
      <3>1. q \in Positions /\ m \in Int /\ (q.qty # 0 => m # NoPrice)
        BY <2>2, <2>4
      <3> HIDE DEF q, m
      <3>2. (IF Spot(s) THEN q.qty * m ELSE Unrealized(q, m))
                = Due(q, s) + (q.real + Unrealized(q, m))
        BY <3>1, WorthOfSeries
      <3> QED
        BY <3>2 DEF q, m
    <2> HIDE DEF worth, dues, result
    <2> QED
      BY <2>1, <2>3, <2>5
  <1>6. worth \in [Series -> Int]
    <2>1. \A s \in Series : worth[s] \in Int
      BY <1>3, <1>4, <1>5
    <2> QED
      BY <2>1
  <1>7. \A s \in Series : result[s] = real[s] + p.shot[s]
    OBVIOUS
  <1>8. Equity(p) = p.cash + Sum(worth)
    BY DEF Equity
  <1>9. Reconciles(p) <=> Equity(p) - InitialCash = Sum(real) + Sum(p.shot) + p.funding - p.fees
    BY DEF Reconciles
  <1>10. Balanced(p) <=> p.cash - InitialCash + Sum(dues) = p.funding - p.fees
    BY DEF Balanced
  <1> HIDE DEF worth, real, result, dues
  <1>11. Sum(worth) = Sum(dues) + Sum(result) /\ Sum(result) = Sum(real) + Sum(p.shot)
    BY <1>1, <1>3, <1>4, <1>5, <1>6, <1>7, SumAdds
  <1>12. Sum(worth) \in Int /\ Sum(dues) \in Int /\ Sum(real) \in Int /\ Sum(p.shot) \in Int
    BY <1>1, <1>3, <1>4, <1>6, SumType
  <1>13. InitialCash \in Int
    BY Quotes
  <1>14. Equity(p) \in Int /\ Equity(p) = p.cash + (Sum(dues) + (Sum(real) + Sum(p.shot)))
    BY <1>1, <1>8, <1>11, <1>12
  <1>15. Equity(p) - InitialCash = Sum(real) + Sum(p.shot) + p.funding - p.fees
             <=> p.cash - InitialCash + Sum(dues) = p.funding - p.fees
    BY <1>1, <1>12, <1>13, <1>14
  <1> QED
    BY <1>9, <1>10, <1>15, Zenon

-----------------------------------------------------------------------------
(* What a fill does to the ledger.                                         *)

LEMMA ExactQuotient ==
    ASSUME NEW m \in Int, NEW n \in Int, n > 0, m % n = 0
    PROVE  n * (m \div n) = m
  <1>1. m % n = m - n * (m \div n) /\ m \div n \in Int
    OBVIOUS
  <1> DEFINE x == n * (m \div n)
  <1>2. x \in Int
    BY <1>1
  <1>3. m - x = 0
    BY <1>1
  <1> HIDE DEF x
  <1>4. x = m
    BY <1>2, <1>3
  <1> QED
    BY <1>4 DEF x

\* A spot position whose average is not rounded stands for what was paid for it, net
\* of what it has earned.
LEMMA CostMoves ==
    ASSUME NEW p \in Positions, p.qty >= 0, NEW signed \in Int, NEW price \in Int,
           p.qty + signed >= 0, signed # 0,
           signed > 0 => (Cost(p) + signed * price) % (p.qty + signed) = 0
    PROVE  Cost(Position(p, signed, price)) - Position(p, signed, price).real
               = Cost(p) - p.real + signed * price
  <1> DEFINE q == p.qty
             new == q + signed
             opens == q * signed >= 0
             closed == Least(AbsInt(q), AbsInt(signed))
             a == (AbsInt(q) * p.avg + AbsInt(signed) * price) \div AbsInt(new)
             avg == IF new = 0 THEN None
                    ELSE IF opens THEN a ELSE IF q * new > 0 THEN p.avg ELSE price
             gain == closed * (price - p.avg) * (IF q > 0 THEN 1 ELSE -1)
             real == IF opens THEN p.real ELSE p.real + gain
             P == Position(p, signed, price)
  <1>1. q \in Int /\ p.avg \in Int /\ p.real \in Int /\ new \in Int /\ q >= 0 /\ new >= 0
    BY DEF Positions
  <1>2. P = [qty |-> new, avg |-> avg, real |-> real]
    BY DEF Position
  <1>3. Cost(P) = (IF new = 0 THEN 0 ELSE new * avg) /\ P.real = real
    BY <1>2 DEF Cost
  <1>4. Cost(p) = IF q = 0 THEN 0 ELSE q * p.avg
    BY DEF Cost
  <1>5. AbsInt(q) = q /\ AbsInt(new) = new
    BY <1>1 DEF AbsInt
  <1> HIDE DEF P
  <1>6. CASE signed > 0
    <2>1. opens /\ new > 0
      BY <1>1, <1>6, Products
    <2>2. AbsInt(signed) = signed
      BY <1>6 DEF AbsInt
    <2>3. q * p.avg = Cost(p)
      <3>1. 0 * p.avg = 0
        BY <1>1
      <3> QED
        BY <1>4, <3>1
    <2>4. a = (Cost(p) + signed * price) \div new
      BY <1>5, <2>2, <2>3
    <2> DEFINE paid == Cost(p) + signed * price
    <2>5. paid \in Int /\ Cost(p) \in Int /\ signed * price \in Int
      BY DueType
    <2>6. paid % new = 0
      BY <1>6
    <2>7. avg = a /\ real = p.real
      BY <2>1
    <2> HIDE DEF new, paid, a, avg, real
    <2>8. new * (paid \div new) = paid
      BY <1>1, <2>1, <2>5, <2>6, ExactQuotient
    <2>9. a = paid \div new
      BY <2>4 DEF paid
    <2>10. Cost(P) = paid
      BY <1>3, <2>1, <2>7, <2>8, <2>9
    <2> DEFINE moved == signed * price
    <2>11. Cost(P) = Cost(p) + moved /\ moved \in Int /\ P.real = p.real
      BY <1>3, <2>5, <2>7, <2>10 DEF paid
    <2> HIDE DEF moved
    <2>12. Cost(P) - P.real = Cost(p) - p.real + moved
      BY <1>1, <2>5, <2>11
    <2> QED
      BY <2>12 DEF P, moved
  <1>7. CASE signed < 0
    <2>1. q > 0 /\ AbsInt(signed) = -signed /\ -signed <= q
      BY <1>1, <1>7 DEF AbsInt
    <2>2. ~opens
      BY <1>1, <1>7, <2>1
    <2>3. closed = -signed
      BY <1>1, <1>5, <2>1 DEF Least
    <2>4. gain = (-signed) * (price - p.avg)
      <3>1. gain = (-signed) * (price - p.avg) * 1
        BY <2>1, <2>3
      <3> QED
        BY <1>1, <3>1
    <2>5. real = p.real + gain
      BY <2>2
    <2>6. new # 0 => avg = p.avg
      <3>1. new # 0 => q * new > 0
        BY <1>1, <2>1
      <3> QED
        BY <2>2, <3>1
    <2>7. Cost(P) = new * p.avg
      <3>1. 0 * p.avg = 0
        BY <1>1
      <3> HIDE DEF new, avg
      <3> QED
        BY <1>3, <2>6, <3>1
    <2>8. new * p.avg = q * p.avg + signed * p.avg
      BY <1>1
    <2>9. (-signed) * (price - p.avg) = signed * p.avg - signed * price
      BY <1>1
    <2> DEFINE cost == q * p.avg
               part == signed * p.avg
               moved == signed * price
    <2>10. cost \in Int /\ part \in Int /\ moved \in Int
      BY <1>1
    <2>11. Cost(p) = cost
      BY <1>4, <2>1
    <2> HIDE DEF cost, part, moved, gain, real
    <2>12. Cost(P) = cost + part /\ P.real = p.real + (part - moved)
      BY <1>3, <2>4, <2>5, <2>7, <2>8, <2>9 DEF cost, part, moved
    <2>13. Cost(P) - P.real = Cost(p) - p.real + moved
      BY <1>1, <2>10, <2>11, <2>12
    <2> QED
      BY <2>13 DEF P, moved
  <1> QED
    BY <1>6, <1>7

\* A fill in the ledger: position, charges and the snapshot of its series.
Entered(p, s, fill, t) ==
    LET new == Position(p.pos[s], Traded(fill), fill.price) IN
    /\ t.pos = [p.pos EXCEPT ![s] = new] /\ t.mark = p.mark
    /\ t.shot = [p.shot EXCEPT ![s] = Unrealized(new, p.mark[s])]
    /\ t.fees = p.fees + fill.fee /\ t.funding = p.funding
    /\ t.cash = p.cash - fill.fee + (IF Spot(s) THEN -(Traded(fill) * fill.price)
                                     ELSE new.real - p.pos[s].real)

LEMMA FillEntered ==
    ASSUME NEW k, NEW p \in Accounts({k}), NEW s \in Series, NEW fill \in Fills
    PROVE  Entered(p, s, fill, ApplyFill(p, s, fill))
  <1> DEFINE signed == Traded(fill)
             new == Position(p.pos[s], signed, fill.price)
             pos == [p.pos EXCEPT ![s] = new]
             fees == p.fees + fill.fee
             move == IF Spot(s) THEN -signed * fill.price ELSE new.real - p.pos[s].real
             cash == p.cash - fill.fee + move
             m == [p EXCEPT !.pos = pos, !.fees = fees, !.cash = cash]
             shot == [p.shot EXCEPT ![s] = Unrealized(new, p.mark[s])]
  <1>1. signed \in Int /\ fill.price \in Int
    BY TradedType DEF Fills
  <1>2. ApplyFill(p, s, fill) = Shot(m, s)
    BY DEF ApplyFill, Accounts, Traded
  <1>3. -signed * fill.price = -(signed * fill.price)
    <2> HIDE DEF signed
    <2> QED
      BY <1>1
  <1>4. cash = p.cash - fill.fee + (IF Spot(s) THEN -(signed * fill.price)
                                    ELSE new.real - p.pos[s].real)
    <2> HIDE DEF signed, new
    <2>1. move = IF Spot(s) THEN -(signed * fill.price) ELSE new.real - p.pos[s].real
      BY <1>3 DEF move
    <2> QED
      BY <2>1 DEF cash
  <1>5. pos[s] = new
    BY DEF Accounts
  <1> HIDE DEF signed, new, pos, move, cash, fees
  <1>6. /\ m.pos = pos /\ m.cash = cash /\ m.mark = p.mark /\ m.fees = fees
        /\ m.funding = p.funding /\ m.shot = p.shot
    BY DEF Accounts
  <1>7. Shot(m, s) = [m EXCEPT !.shot = shot]
    BY <1>5, <1>6 DEF Shot, m, Accounts, shot
  <1> HIDE DEF shot
  <1>8. LET t == Shot(m, s) IN
        /\ t.pos = pos /\ t.cash = cash /\ t.mark = p.mark /\ t.fees = fees
        /\ t.funding = p.funding /\ t.shot = shot
    BY <1>6, <1>7 DEF m, Accounts
  <1> HIDE DEF m
  <1> QED
    BY <1>2, <1>4, <1>8 DEF Entered, shot, fees, pos, new, signed

\* What a pass may do to the account and the rows of the instant: nothing, or one
\* fill of the order that was at work.
Idle(from) == pf' = from /\ line' = line
Trades(s, from, fill) ==
    /\ pf' = ApplyFill(from, s, fill) /\ line' = WithFill(line, FillRow(s, fill, pf'))
    /\ fill.qty > 0 /\ fill.price > 0
    /\ Spot(s) => from.pos[s].qty + Traded(fill) >= 0
    /\ \E i \in Active(book[s]) : fill.side = book[s][i].side /\ fill.qty = book[s][i].qty
    /\ Active(book'[s]) = {}

LEMMA PassTrades ==
    ASSUME NEW s \in Series, NEW k, NEW from \in Accounts({k}), NEW r,
           book \in [Series -> Books], Alone(book[s]),
           Passed(book[s], [series |-> s, pf |-> from], r), Handle(s, from, r)
    PROVE  Idle(from) \/ \E fill \in Fills : Trades(s, from, fill)
  <1> DEFINE a == [series |-> s, pf |-> from]
  <1>1. pf' = Taken(s, from, r.fills).pf /\ line' = Taken(s, from, r.fills).line
    BY HandleIsItsRun
  <1>2. CASE r.fills = <<>>
    <2>1. DOMAIN r.fills = {}
      BY <1>2
    <2>2. Taken(s, from, r.fills).pf = from
      BY <2>1, NothingTaken
    <2>3. Taken(s, from, r.fills).line = line
      BY <2>1, NoRowTaken
    <2> QED
      BY <1>1, <2>2, <2>3 DEF Idle
  <1>3. CASE r.fills # <<>>
    <2>1. PICK fill \in Fills, i \in Active(book[s]) : r.fills = <<fill>> /\ Checked(a, book[s][i], fill)
      BY <1>3, Zenon DEF Passed
    <2>2. /\ Accepts(from, s, fill.side, fill.qty, fill.price, fill.fee, 0)
          /\ fill.side = book[s][i].side /\ fill.qty = book[s][i].qty
      BY <2>1 DEF Checked
    <2>3. fill.price > 0 /\ fill.qty > 0
      BY <2>2, Zenon DEF Accepts
    <2>4. CASE Spot(s) /\ from.pos[s].qty + Traded(fill) < 0
      <3>1. Taken(s, from, <<fill>>).pf = from /\ Taken(s, from, <<fill>>).line = line
        BY <2>4, OneTaken
      <3> QED
        BY <1>1, <2>1, <3>1 DEF Idle
    <2>5. CASE ~(Spot(s) /\ from.pos[s].qty + Traded(fill) < 0)
      <3>1. /\ Taken(s, from, <<fill>>).pf = ApplyFill(from, s, fill)
            /\ Taken(s, from, <<fill>>).line = WithFill(line, FillRow(s, fill, ApplyFill(from, s, fill)))
        BY <2>5, OneTaken
      <3>2. Spot(s) => from.pos[s].qty + Traded(fill) >= 0
        <4>1. from.pos[s].qty \in Int /\ Traded(fill) \in Int
          BY TradedType DEF Accounts, Positions
        <4> QED
          BY <2>5, <4>1
      <3>3. Active(book'[s]) = {}
        <4>1. Active(book'[s]) = Active(r.book)
          BY BookAfterPass
        <4> QED
          BY <1>3, <4>1 DEF Passed
      <3>4. pf' = ApplyFill(from, s, fill) /\ line' = WithFill(line, FillRow(s, fill, pf'))
        BY <1>1, <2>1, <3>1
      <3>5. Trades(s, from, fill)
        BY <2>2, <2>3, <3>2, <3>3, <3>4 DEF Trades
      <3> QED
        BY <3>5
    <2> QED
      BY <2>4, <2>5
  <1> QED
    BY <1>2, <1>3

\* A step of the account: the ledger moves by the flow of a funding, or not at all.
SameLedger(p, t) ==
    t.pos = p.pos /\ t.cash = p.cash /\ t.fees = p.fees /\ t.funding = p.funding

LEMMA MarkEntered ==
    ASSUME NEW k, NEW p \in Accounts({k}), NEW s \in Series, NEW price \in Int,
           Snapped(p), Priced(p), price # NoPrice
    PROVE  LET t == SetMark(p, s, price) IN SameLedger(p, t) /\ Snapped(t) /\ Priced(t)
  <1> DEFINE mark == [p.mark EXCEPT ![s] = price]
             shot == [p.shot EXCEPT ![s] = Unrealized(p.pos[s], price)]
             t == SetMark(p, s, price)
  <1>1. mark[s] = price /\ \A r \in Series \ {s} : mark[r] = p.mark[r]
    BY DEF Accounts
  <1>2. t = [p EXCEPT !.mark = mark, !.shot = shot]
    BY <1>1 DEF SetMark, Shot, Accounts
  <1>3. shot[s] = Unrealized(p.pos[s], price) /\ \A r \in Series \ {s} : shot[r] = p.shot[r]
    BY DEF Accounts
  <1> HIDE DEF mark, shot
  <1>4. /\ t.pos = p.pos /\ t.cash = p.cash /\ t.fees = p.fees /\ t.funding = p.funding
        /\ t.mark = mark /\ t.shot = shot
    BY <1>2 DEF Accounts
  <1> HIDE DEF t
  <1>5. Snapped(t)
    BY <1>1, <1>3, <1>4 DEF Snapped
  <1>6. Priced(t)
    BY <1>1, <1>4 DEF Priced
  <1> QED
    BY <1>4, <1>5, <1>6 DEF SameLedger, t

LEMMA SameBalance ==
    ASSUME NEW p, NEW t, SameLedger(p, t)
    PROVE  Balanced(t) <=> Balanced(p)
  BY DEF SameLedger, Balanced

\* A fill that rounds no average keeps the balance.
Exactly(p, s, fill) ==
    Spot(s) /\ Traded(fill) > 0
        => (Cost(p.pos[s]) + Traded(fill) * fill.price) % (p.pos[s].qty + Traded(fill)) = 0

LEMMA FillBalance ==
    ASSUME NEW k, NEW p \in Accounts({k}), NEW s \in Series, NEW fill \in Fills, fill.qty > 0,
           Held(p.pos[s], s), Spot(s) => p.pos[s].qty + Traded(fill) >= 0,
           NEW t \in Accounts({k}), Entered(p, s, fill, t), Balanced(p), Exactly(p, s, fill)
    PROVE  Balanced(t)
  <1> DEFINE old == p.pos[s]
             signed == Traded(fill)
             new == Position(old, signed, fill.price)
             before == Dues(p.pos)
             after == Dues(t.pos)
             paid == signed * fill.price
  <1>1. /\ p.pos \in [Series -> Positions] /\ t.pos \in [Series -> Positions]
        /\ p.cash \in Int /\ p.fees \in Int /\ p.funding \in Int
        /\ old \in Positions /\ old.real \in Int /\ old.qty \in Int
    BY DEF Accounts, Positions
  <1>2. signed \in Int /\ signed # 0 /\ fill.price \in Int /\ fill.fee \in Int
    BY DEF Traded, Sign, Fills, Sides
  <1>3. new \in Positions /\ new.real \in Int
    <2>1. new \in Positions
      BY <1>1, <1>2, PositionMoves
    <2> QED
      BY <2>1 DEF Positions
  <1>4. /\ t.pos = [p.pos EXCEPT ![s] = new]
        /\ t.fees = p.fees + fill.fee /\ t.funding = p.funding
        /\ t.cash = p.cash - fill.fee + (IF Spot(s) THEN -paid ELSE new.real - old.real)
    BY DEF Entered
  <1>5. paid \in Int
    BY <1>2
  <1>6. before \in [Series -> Int] /\ after \in [Series -> Int]
    BY <1>1, DueType DEF Dues
  <1>7. /\ after[s] = Due(new, s) /\ before[s] = Due(old, s)
        /\ \A r \in Series \ {s} : after[r] = before[r]
    BY <1>1, <1>4 DEF Dues
  <1>8. Spot(s) => Cost(new) - new.real = Cost(old) - old.real + paid
    <2> SUFFICES ASSUME Spot(s) PROVE Cost(new) - new.real = Cost(old) - old.real + paid
      OBVIOUS
    <2>1. old.qty >= 0 /\ old.qty + signed >= 0
      BY DEF Held
    <2>2. signed > 0 => (Cost(old) + signed * fill.price) % (old.qty + signed) = 0
      BY DEF Exactly
    <2> HIDE DEF old, signed
    <2> QED
      BY <1>1, <1>2, <2>1, <2>2, CostMoves
  <1>9. Cost(new) \in Int /\ Cost(old) \in Int
    BY <1>1, <1>3, DueType
  <1>10. Due(new, s) = (IF Spot(s) THEN Cost(new) ELSE 0) - new.real
         /\ Due(old, s) = (IF Spot(s) THEN Cost(old) ELSE 0) - old.real
    BY DEF Due
  <1>11. /\ Balanced(p) <=> p.cash - InitialCash + Sum(before) = p.funding - p.fees
         /\ Balanced(t) <=> t.cash - InitialCash + Sum(after) = t.funding - t.fees
    BY DEF Balanced
  <1>12. InitialCash \in Int
    BY Quotes
  <1> HIDE DEF new, old, paid, before, after, signed
  <1>13. Sum(after) = Sum(before) + after[s] - before[s] /\ Sum(before) \in Int /\ Sum(after) \in Int
    BY <1>6, <1>7, SumMoves, SumType
  <1>14. p.cash - InitialCash + Sum(before) = p.funding - p.fees
    BY <1>11
  <1>15. CASE Spot(s)
    <2>1. after[s] - before[s] = paid
      BY <1>1, <1>3, <1>5, <1>7, <1>8, <1>9, <1>10, <1>15
    <2>2. t.cash = p.cash - fill.fee + (-paid)
      BY <1>4, <1>15
    <2>3. after[s] \in Int /\ before[s] \in Int
      BY <1>6
    <2>4. t.cash - InitialCash + Sum(after) = t.funding - t.fees
      BY <1>1, <1>2, <1>4, <1>5, <1>12, <1>13, <1>14, <2>1, <2>2, <2>3
    <2> QED
      BY <1>11, <2>4
  <1>16. CASE ~Spot(s)
    <2>1. after[s] - before[s] = old.real - new.real
      BY <1>1, <1>3, <1>7, <1>10, <1>16
    <2>2. t.cash = p.cash - fill.fee + (new.real - old.real)
      BY <1>4, <1>16
    <2>3. after[s] \in Int /\ before[s] \in Int
      BY <1>6
    <2>4. t.cash - InitialCash + Sum(after) = t.funding - t.fees
      BY <1>1, <1>2, <1>3, <1>4, <1>12, <1>13, <1>14, <2>1, <2>2, <2>3
    <2> QED
      BY <1>11, <2>4
  <1> QED
    BY <1>15, <1>16

\* A fill on a marked series keeps snapshots and marks.
LEMMA FillSnaps ==
    ASSUME NEW k, NEW p \in Accounts({k}), NEW s \in Series, NEW fill, NEW t,
           Entered(p, s, fill, t), Snapped(p), Priced(p), p.mark[s] # NoPrice
    PROVE  Snapped(t) /\ Priced(t)
  <1> DEFINE new == Position(p.pos[s], Traded(fill), fill.price)
  <1>1. /\ t.pos = [p.pos EXCEPT ![s] = new] /\ t.mark = p.mark
        /\ t.shot = [p.shot EXCEPT ![s] = Unrealized(new, p.mark[s])]
    BY DEF Entered
  <1> HIDE DEF new
  <1>2. /\ t.pos[s] = new /\ t.shot[s] = Unrealized(new, p.mark[s])
        /\ \A r \in Series \ {s} : t.pos[r] = p.pos[r] /\ t.shot[r] = p.shot[r]
    BY <1>1 DEF Accounts
  <1>3. Snapped(t)
    BY <1>1, <1>2 DEF Snapped
  <1>4. Priced(t)
    BY <1>1, <1>2 DEF Priced
  <1> QED
    BY <1>3, <1>4

-----------------------------------------------------------------------------
(* What the steps do to the ledger.                                        *)

\* What left the cash beyond the fees, and a step that rounds an average: a spot
\* purchase after which what is held did not cost a whole price per unit.
Paid == pf.cash - pf'.cash - (pf'.fees - pf.fees)
Rounds == \E s \in Series : /\ Spot(s) /\ pf'.pos[s].qty > pf.pos[s].qty
                            /\ (Cost(pf.pos[s]) + Paid) % pf'.pos[s].qty # 0

Booking == Snapped(pf) /\ Priced(pf)
\* What a step does to the ledger.
KeepsBooks == /\ Snapped(pf') /\ Priced(pf')
              /\ Balanced(pf) /\ ~Rounds => Balanced(pf')

\* What a purchase pays, if it is the only thing a step does.
LEMMA PaidForFill ==
    ASSUME NEW k, NEW from \in Accounts({k}), NEW s \in Series, NEW fill \in Fills,
           SameLedger(pf, from), pf' = ApplyFill(from, s, fill), ~Rounds
    PROVE  Exactly(from, s, fill)
  <1> DEFINE new == Position(from.pos[s], Traded(fill), fill.price)
             paid == Traded(fill) * fill.price
  <1> SUFFICES ASSUME Spot(s), Traded(fill) > 0
               PROVE  (Cost(from.pos[s]) + paid) % (from.pos[s].qty + Traded(fill)) = 0
    BY DEF Exactly
  <1>1. Entered(from, s, fill, pf')
    BY FillEntered
  <1>2. /\ from.pos \in [Series -> Positions] /\ from.pos[s] \in Positions /\ from.pos[s].qty \in Int
        /\ from.cash \in Int /\ from.fees \in Int
    BY DEF Accounts, Positions
  <1>3. Traded(fill) \in Int /\ fill.price \in Int /\ fill.fee \in Int
    BY TradedType DEF Fills
  <1>4. paid \in Int
    BY <1>3
  <1>5. new.qty = from.pos[s].qty + Traded(fill)
    BY <1>2, <1>3, PositionMoves
  <1>6. pf'.pos = [from.pos EXCEPT ![s] = new] /\ pf'.fees = from.fees + fill.fee
        /\ pf'.cash = from.cash - fill.fee + (-paid)
    BY <1>1 DEF Entered
  <1>7. pf.pos = from.pos /\ pf.cash = from.cash /\ pf.fees = from.fees
    BY DEF SameLedger
  <1> HIDE DEF new, paid
  <1>8. pf'.pos[s] = new
    BY <1>2, <1>6
  <1>9. Paid = paid
    BY <1>2, <1>3, <1>4, <1>6, <1>7 DEF Paid
  <1>10. pf'.pos[s].qty > pf.pos[s].qty
    BY <1>2, <1>3, <1>5, <1>7, <1>8
  <1>11. (Cost(pf.pos[s]) + Paid) % pf'.pos[s].qty = 0
    BY <1>10, Zenon DEF Rounds
  <1> QED
    BY <1>5, <1>7, <1>8, <1>9, <1>11

LEMMA PassBooks ==
    ASSUME IInv, NEW s \in Series, NEW k, NEW from \in Accounts({k}),
           SameLedger(pf, from), Snapped(from), Priced(from), from.mark[s] # NoPrice, NEW r,
           Passed(book[s], [series |-> s, pf |-> from], r), Handle(s, from, r)
    PROVE  KeepsBooks
  <1>1. /\ book \in [Series -> Books] /\ Alone(book[s]) /\ Held(pf.pos[s], s)
    BY DEF IInv, Typed
  <1>2. Idle(from) \/ \E fill \in Fills : Trades(s, from, fill)
    BY <1>1, PassTrades
  <1>3. Balanced(pf) <=> Balanced(from)
    BY SameBalance
  <1>4. CASE Idle(from)
    BY <1>3, <1>4 DEF Idle, KeepsBooks
  <1>5. ASSUME NEW fill \in Fills, Trades(s, from, fill) PROVE KeepsBooks
    <2>1. /\ pf' = ApplyFill(from, s, fill) /\ fill.qty > 0
          /\ Spot(s) => from.pos[s].qty + Traded(fill) >= 0
      BY <1>5 DEF Trades
    <2>2. Entered(from, s, fill, pf') /\ pf' \in Accounts({k})
      BY <2>1, FillEntered, FillApplied
    <2>3. Snapped(pf') /\ Priced(pf')
      BY <2>2, FillSnaps
    <2>4. Held(from.pos[s], s)
      BY <1>1 DEF SameLedger
    <2>5. ASSUME Balanced(pf), ~Rounds PROVE Balanced(pf')
      <3>1. Exactly(from, s, fill)
        BY <2>1, <2>5, PaidForFill
      <3> QED
        BY <1>3, <2>1, <2>2, <2>4, <2>5, <3>1, FillBalance
    <2> QED
      BY <2>3, <2>5 DEF KeepsBooks
  <1> QED
    BY <1>2, <1>4, <1>5

\* A step that books nothing, and the flow of a funding.
LEMMA QuietBooks ==
    ASSUME SameLedger(pf, pf'), Snapped(pf'), Priced(pf')
    PROVE  KeepsBooks
  <1>1. Balanced(pf') <=> Balanced(pf)
    BY SameBalance
  <1> QED
    BY <1>1 DEF KeepsBooks

LEMMA CompleteBarBooks ==
    ASSUME IInv, Booking, NEW s \in Series, CompleteBar(s)
    PROVE  KeepsBooks
  <1>1. PICK low \in Prices, high \in Prices :
            Handle(s, pf, Broker!ProcessBar(book[s], [series |-> s, pf |-> pf], low, high, now))
    BY DEF CompleteBar
  <1> DEFINE r == Broker!ProcessBar(book[s], [series |-> s, pf |-> pf], low, high, now)
  <1>2. /\ Marked /\ bar[s] # NoBar /\ now \in 0 .. MaxTime + 1 /\ book[s] \in Books /\ Alone(book[s])
        /\ pf \in Accounts({pf.peak})
    BY DEF IInv, TypeOK, Typed, CompleteBar
  <1>3. Passed(book[s], [series |-> s, pf |-> pf], r)
    BY <1>2, BarPasses, PricesAreInts
  <1>4. pf.mark[s] # NoPrice
    BY <1>2, PricesAreInts DEF Marked, NoPrice
  <1> HIDE DEF r
  <1>5. Handle(s, pf, r)
    BY <1>1 DEF r
  <1>6. SameLedger(pf, pf) /\ Snapped(pf) /\ Priced(pf)
    BY DEF SameLedger, Booking
  <1> QED
    BY <1>2, <1>3, <1>4, <1>5, <1>6, PassBooks

LEMMA OpenBarBooks ==
    ASSUME IInv, Booking, NEW s \in Series, OpenBar(s)
    PROVE  KeepsBooks
  <1>1. PICK open \in Prices :
            Handle(s, SetMark(pf, s, open),
                      Broker!ProcessOpen(book[s], [series |-> s, pf |-> SetMark(pf, s, open)], open, now))
    BY DEF OpenBar
  <1> DEFINE from == SetMark(pf, s, open)
             r == Broker!ProcessOpen(book[s], [series |-> s, pf |-> from], open, now)
  <1>2. /\ now \in 0 .. MaxTime + 1 /\ book[s] \in Books /\ Alone(book[s])
        /\ pf \in Accounts({pf.peak}) /\ pf.mark \in [Series -> Int]
    BY DEF IInv, TypeOK, Typed, Accounts
  <1>3. open \in Int /\ open # NoPrice
    BY PricesAreInts DEF NoPrice
  <1>4. Passed(book[s], [series |-> s, pf |-> from], r)
    BY <1>2, <1>3, OpenPasses
  <1>5. from \in Accounts({pf.peak}) /\ from.mark[s] # NoPrice
    <2>1. from \in Accounts({pf.peak}) /\ OnlyMarked(pf, s, open, from)
      BY <1>2, <1>3, MarkParts
    <2>2. from.mark = [pf.mark EXCEPT ![s] = open]
      BY <2>1, Zenon DEF OnlyMarked
    <2> QED
      BY <1>2, <1>3, <2>1, <2>2
  <1>6. SameLedger(pf, from) /\ Snapped(from) /\ Priced(from)
    BY <1>2, <1>3, MarkEntered DEF Booking
  <1> HIDE DEF r, from
  <1>7. Handle(s, from, r)
    BY <1>1 DEF r, from
  <1> QED
    BY <1>4, <1>5, <1>6, <1>7, PassBooks

LEMMA MarkCloseBooks ==
    ASSUME IInv, Booking, NEW s \in Series, MarkClose(s)
    PROVE  KeepsBooks
  <1>1. closing[s] # NoPrice /\ pf' = SetMark(pf, s, closing[s])
    BY DEF MarkClose
  <1>2. closing[s] \in Int /\ pf \in Accounts({pf.peak})
    <2>1. closing[s] \in Prices \cup {NoPrice} /\ pf \in Accounts({pf.peak})
      BY DEF IInv, Typed
    <2> QED
      BY <2>1, PricesAreInts
  <1>3. SameLedger(pf, pf') /\ Snapped(pf') /\ Priced(pf')
    BY <1>1, <1>2, MarkEntered DEF Booking
  <1> QED
    BY <1>3, QuietBooks

\* The flow of a funding, as a whole number.
LEMMA FlowType ==
    ASSUME IInv, NEW s \in Series, NEW rate \in Rates
    PROVE  -(pf.pos[s].qty * pf.mark[s] * rate) \div RateUnit \in Int
  <1>1. pf.pos[s].qty \in Int /\ pf.mark[s] \in Int
    BY DEF IInv, Typed, Accounts, Positions
  <1>2. rate \in Int /\ RateUnit \in Int /\ RateUnit > 0
    BY Charges
  <1> DEFINE product == pf.pos[s].qty * pf.mark[s] * rate
  <1>3. product \in Int
    BY <1>1, <1>2
  <1> HIDE DEF product
  <1>4. (-product) \div RateUnit \in Int /\ product \div RateUnit \in Int
    BY <1>2, <1>3
  <1>5. -(product \div RateUnit) \in Int
    BY <1>4
  <1> QED
    BY <1>4, <1>5 DEF product

\* What a funding does: its flow is the only thing that moves, and a row records it.
Funded(flow) ==
    /\ pf'.pos = pf.pos /\ pf'.mark = pf.mark /\ pf'.shot = pf.shot /\ pf'.fees = pf.fees
    /\ pf'.cash = pf.cash + flow /\ pf'.funding = pf.funding + flow

LEMMA FundMoves ==
    ASSUME IInv, NEW s \in Series, Fund(s)
    PROVE  \E rate \in Rates :
              LET flow == -(pf.pos[s].qty * pf.mark[s] * rate) \div RateUnit
              IN  /\ Funded(flow)
                  /\ line' = IF flow = 0 THEN line
                             ELSE [line EXCEPT !.funding =
                                Append(@, [kind |-> "funding", s |-> s, amount |-> flow, fee |-> 0,
                                           size |-> 1, qty |-> 0, real |-> 0])]
  <1>1. PICK rate \in Rates :
            LET flow == -(pf.pos[s].qty * pf.mark[s] * rate) \div RateUnit
            IN  /\ pf' = [pf EXCEPT !.cash = @ + flow, !.funding = @ + flow]
                /\ line' = IF flow = 0 THEN line
                           ELSE [line EXCEPT !.funding =
                                Append(@, [kind |-> "funding", s |-> s, amount |-> flow, fee |-> 0,
                                           size |-> 1, qty |-> 0, real |-> 0])]
    BY DEF Fund
  <1> DEFINE flow == -(pf.pos[s].qty * pf.mark[s] * rate) \div RateUnit
  <1>2. pf' = [pf EXCEPT !.cash = @ + flow, !.funding = @ + flow]
    BY <1>1
  <1>3. pf \in Accounts({pf.peak})
    BY DEF IInv, Typed
  <1>4. Funded(flow)
    <2> HIDE DEF flow
    <2>1. Funded(flow)
      BY <1>2, <1>3 DEF Funded, Accounts
    <2> QED
      BY <2>1
  <1> QED
    BY <1>1, <1>4

LEMMA FundBooks ==
    ASSUME IInv, Booking, NEW s \in Series, Fund(s)
    PROVE  KeepsBooks
  <1>1. PICK rate \in Rates :
            LET flow == -(pf.pos[s].qty * pf.mark[s] * rate) \div RateUnit IN Funded(flow)
    BY FundMoves
  <1> DEFINE flow == -(pf.pos[s].qty * pf.mark[s] * rate) \div RateUnit
  <1>2. flow \in Int /\ Funded(flow)
    BY <1>1, FlowType
  <1>3. /\ pf.cash \in Int /\ pf.funding \in Int /\ pf.fees \in Int /\ pf.pos \in [Series -> Positions]
        /\ InitialCash \in Int
    BY Quotes DEF IInv, Typed, Accounts
  <1>4. Sum(Dues(pf.pos)) \in Int
    <2>1. Dues(pf.pos) \in [Series -> Int]
      BY <1>3, DueType DEF Dues
    <2> QED
      BY <2>1, SumType
  <1> HIDE DEF flow
  <1>5. Snapped(pf') /\ Priced(pf')
    BY <1>2 DEF Funded, Booking, Snapped, Priced
  <1>6. Balanced(pf) => Balanced(pf')
    <2> DEFINE dues == Sum(Dues(pf.pos))
    <2>1. /\ Balanced(pf) <=> pf.cash - InitialCash + dues = pf.funding - pf.fees
          /\ Balanced(pf') <=> (pf.cash + flow) - InitialCash + dues = (pf.funding + flow) - pf.fees
      BY <1>2 DEF Balanced, Funded
    <2>2. dues \in Int
      BY <1>4
    <2> HIDE DEF dues
    <2> QED
      BY <1>2, <1>3, <2>1, <2>2
  <1> QED
    BY <1>5, <1>6 DEF KeepsBooks

\* The steps that leave the account, or all of it but its peak, alone.
LEMMA RestBooks ==
    ASSUME IInv, Booking, NEW peak, pf' = [pf EXCEPT !.peak = peak]
    PROVE  KeepsBooks
  <1>1. pf \in Accounts({pf.peak})
    BY DEF IInv, Typed
  <1>2. SameLedger(pf, pf') /\ pf'.mark = pf.mark /\ pf'.shot = pf.shot
    BY <1>1 DEF SameLedger, Accounts
  <1>3. Snapped(pf') /\ Priced(pf')
    BY <1>2 DEF Booking, Snapped, Priced, SameLedger
  <1> QED
    BY <1>2, <1>3, QuietBooks

LEMMA StepKeepsBooks ==
    ASSUME IInv, Booking, [Next]_vars
    PROVE  KeepsBooks /\ Booking'
  <1>1. ASSUME NEW s \in Series, CompleteBar(s) \/ MarkClose(s) \/ Fund(s) \/ OpenBar(s)
        PROVE  KeepsBooks
    BY <1>1, CompleteBarBooks, MarkCloseBooks, FundBooks, OpenBarBooks
  <1>2. ASSUME EndInstant PROVE KeepsBooks
    <2>1. PICK peak : pf' = [pf EXCEPT !.peak = peak]
      BY <1>2 DEF EndInstant
    <2> QED
      BY <2>1, RestBooks
  <1>3. ASSUME (\E s \in Series : Signal(s)) \/ Finish \/ UNCHANGED vars PROVE KeepsBooks
    <2>1. pf' = pf
      BY <1>3 DEF Signal, Finish, vars
    <2>2. SameLedger(pf, pf') /\ Snapped(pf') /\ Priced(pf')
      BY <2>1 DEF SameLedger, Booking
    <2> QED
      BY <2>2, QuietBooks
  <1>4. KeepsBooks
    BY <1>1, <1>2, <1>3 DEF Next
  <1>5. Booking'
    BY <1>4 DEF KeepsBooks, Booking
  <1> QED
    BY <1>4, <1>5

LEMMA InitBooks ==
    ASSUME Init
    PROVE  Booking /\ Balanced(pf)
  <1>1. pf = [cash |-> InitialCash, pos |-> [s \in Series |-> Flat],
              mark |-> [s \in Series |-> NoPrice], shot |-> [s \in Series |-> 0],
              fees |-> 0, funding |-> 0, peak |-> InitialCash]
    BY DEF Init
  <1>2. \A s \in Series : pf.pos[s] = Flat /\ pf.mark[s] = NoPrice /\ pf.shot[s] = 0
    BY <1>1
  <1>3. Booking
    BY <1>2 DEF Booking, Snapped, Priced, Flat, Unrealized
  <1> DEFINE zero == [s \in Series |-> 0]
  <1>4. Dues(pf.pos) = zero
    <2>1. \A s \in Series : Due(pf.pos[s], s) = 0
      BY <1>2 DEF Due, Cost, Flat
    <2> QED
      BY <2>1 DEF Dues
  <1>5. Sum(zero) = 0
    BY SumZero
  <1>6. Balanced(pf)
    <2>1. pf.cash = InitialCash /\ pf.funding = 0 /\ pf.fees = 0 /\ InitialCash \in Int
      BY <1>1, Quotes
    <2> QED
      BY <1>4, <1>5, <2>1 DEF Balanced
  <1> QED
    BY <1>3, <1>6

Bookkept == IInv /\ Booking

LEMMA BooksAlways == Spec => []Bookkept
  <1>1. Init => Bookkept
    BY InitGives, InitBooks DEF Bookkept
  <1>2. Bookkept /\ [Next]_vars => Bookkept'
    <2> SUFFICES ASSUME Bookkept, [Next]_vars PROVE Bookkept'
      OBVIOUS
    <2>1. IInv'
      BY NextKeeps, StutterKeeps DEF Bookkept
    <2>2. Booking'
      BY StepKeepsBooks DEF Bookkept
    <2> QED
      BY <2>1, <2>2 DEF Bookkept
  <1> QED
    BY <1>1, <1>2, PTL DEF Spec

\* The balance of the ledger is the reconciliation of the equity, in every state.
LEMMA BalancedIsReconciled ==
    ASSUME Bookkept
    PROVE  Balanced(pf) <=> EquityReconciles
  <1>1. pf \in Accounts({pf.peak}) /\ Snapped(pf) /\ Priced(pf)
    BY DEF Bookkept, IInv, Typed, Booking
  <1>2. Reconciles(pf) <=> Balanced(pf)
    BY <1>1, ReconcilesIsBalanced
  <1> QED
    BY <1>2 DEF EquityReconciles

LEMMA OnlyRounding ==
    ASSUME Bookkept, [Next]_vars, Bookkept', EquityReconciles, ~Rounds
    PROVE  EquityReconciles'
  <1>1. Balanced(pf)
    BY BalancedIsReconciled
  <1>2. Balanced(pf')
    BY <1>1, StepKeepsBooks DEF Bookkept, KeepsBooks
  <1>3. pf' \in Accounts({pf'.peak}) /\ Snapped(pf') /\ Priced(pf')
    BY DEF Bookkept, IInv, Typed, Booking
  <1>4. Reconciles(pf') <=> Balanced(pf')
    BY <1>3, ReconcilesIsBalanced
  <1> QED
    BY <1>2, <1>4 DEF EquityReconciles

-----------------------------------------------------------------------------
(* Targets of a fixed size.                                                *)

FixedSizes == \A c \in Configurations : ~c.notional
Size(q) == q = 0 \/ q = conf.target \/ q = -conf.target
Whole == \A s \in Series : Size(pf.pos[s].qty) /\ Size(aim[s])

LEMMA WholeMultiple ==
    ASSUME NEW n \in Nat, n > 0, NEW m \in Int
    PROVE  (n * m) % n = 0
  <1> DEFINE x == n * m
             d == x \div n
  <1>1. x \in Int
    OBVIOUS
  <1> HIDE DEF x
  <1>2. d \in Int /\ x % n \in Int /\ 0 <= x % n /\ x % n < n /\ x % n = x - n * d
    BY <1>1
  <1> HIDE DEF d
  <1> DEFINE e == m - d
             r == x % n
  <1>3. e \in Int /\ n * e = n * m - n * d
    BY <1>2
  <1>4. r \in Int /\ 0 <= r /\ r < n /\ r = n * e
    BY <1>2, <1>3 DEF x
  <1> HIDE DEF e, r
  <1>5. ~(e >= 1)
    <2> SUFFICES ASSUME e >= 1 PROVE FALSE
      OBVIOUS
    <2>1. e - 1 \in Int /\ e - 1 >= 0 /\ n \in Int /\ n >= 0
      BY <1>3
    <2>2. n * (e - 1) >= 0
      BY <2>1, Products
    <2>3. n * (e - 1) = n * e - n
      BY <1>3
    <2> QED
      BY <1>3, <1>4, <2>2, <2>3
  <1>6. ~(e <= -1)
    <2> SUFFICES ASSUME e <= -1 PROVE FALSE
      OBVIOUS
    <2>1. -e - 1 \in Int /\ -e - 1 >= 0 /\ n \in Int /\ n >= 0
      BY <1>3
    <2>2. n * (-e - 1) >= 0
      BY <2>1, Products
    <2>3. n * (-e - 1) = -(n * e) - n
      BY <1>3
    <2> QED
      BY <1>3, <1>4, <2>2, <2>3
  <1>7. e = 0
    BY <1>3, <1>5, <1>6
  <1>8. r = 0
    BY <1>4, <1>7
  <1> QED
    BY <1>8 DEF r, x

\* With fixed sizes a spot position is bought from nothing, so its average is a price.
LEMMA PassWhole ==
    ASSUME IInv, Whole, NEW s \in Series, NEW k, NEW from \in Accounts({k}),
           SameLedger(pf, from), NEW r,
           Passed(book[s], [series |-> s, pf |-> from], r), Handle(s, from, r),
           conf' = conf, aim' = aim
    PROVE  Whole' /\ ~Rounds
  <1>1. /\ book \in [Series -> Books] /\ Alone(book[s]) /\ pf \in Accounts({pf.peak})
        /\ Leads(pf.pos[s].qty, book[s], aim[s]) /\ conf \in Configurations
        /\ \A t \in Series : Held(pf.pos[t], t)
    BY DEF IInv, Typed, OrdersReachTarget, Leads
  <1>2. Idle(from) \/ \E fill \in Fills : Trades(s, from, fill)
    BY <1>1, PassTrades
  <1>3. pf.pos = from.pos /\ pf.cash = from.cash /\ pf.fees = from.fees
    BY DEF SameLedger
  <1>4. \A t \in Series : pf.pos[t].qty \in Int /\ pf.pos[t] \in Positions
    BY <1>1 DEF Accounts, Positions
  <1>5. CASE Idle(from)
    <2>1. pf'.pos = pf.pos
      BY <1>3, <1>5 DEF Idle
    <2>2. \A t \in Series : ~(pf'.pos[t].qty > pf.pos[t].qty)
      BY <1>4, <2>1
    <2> QED
      BY <2>1, <2>2 DEF Rounds, Whole, Size
  <1>6. ASSUME NEW fill \in Fills, Trades(s, from, fill) PROVE Whole' /\ ~Rounds
    <2> DEFINE new == Position(from.pos[s], Traded(fill), fill.price)
               paid == Traded(fill) * fill.price
               T == conf.target
    <2>1. pf' = ApplyFill(from, s, fill) /\ \E i \in Active(book[s]) : fill.side = book[s][i].side
                                                  /\ fill.qty = book[s][i].qty
      BY <1>6 DEF Trades
    <2>2. pf.pos[s].qty + Traded(fill) = aim[s]
      BY <1>1, <2>1 DEF Leads, Traded
    <2>3. Entered(from, s, fill, pf')
      BY <2>1, FillEntered
    <2>4. Traded(fill) \in Int /\ fill.price \in Int /\ fill.fee \in Int
      BY TradedType DEF Fills
    <2>5. new.qty = aim[s]
      BY <1>3, <1>4, <2>2, <2>4, PositionMoves
    <2>6. paid \in Int /\ from.pos \in [Series -> Positions] /\ from.cash \in Int /\ from.fees \in Int
      BY <2>4 DEF Accounts
    <2>7. pf'.pos = [from.pos EXCEPT ![s] = new] /\ pf'.fees = from.fees + fill.fee
          /\ (Spot(s) => pf'.cash = from.cash - fill.fee + (-paid))
      BY <2>3 DEF Entered
    <2> HIDE DEF new
    <2>8. pf'.pos[s].qty = aim[s] /\ \A t \in Series \ {s} : pf'.pos[t] = pf.pos[t]
      BY <1>3, <2>5, <2>6, <2>7
    <2>9. Whole'
      <3>1. \A t \in Series : Size(pf'.pos[t].qty) /\ Size(aim[t])
        BY <2>8 DEF Whole
      <3> QED
        BY <3>1 DEF Whole, Size
    <2>10. T \in Nat
      BY <1>1, Strategies
    <2>11. ASSUME Spot(s), pf'.pos[s].qty > pf.pos[s].qty
           PROVE  (Cost(pf.pos[s]) + Paid) % pf'.pos[s].qty = 0
      <3>1. pf.pos[s].qty >= 0
        BY <1>1, <2>11 DEF Held
      <3>2. Size(pf.pos[s].qty) /\ Size(aim[s])
        BY DEF Whole
      <3>3. aim[s] = T /\ pf.pos[s].qty = 0 /\ T > 0
        BY <1>4, <2>8, <2>10, <2>11, <3>1, <3>2 DEF Size
      <3>4. Traded(fill) = T
        BY <2>2, <2>4, <2>10, <3>3
      <3>5. Cost(pf.pos[s]) = 0
        BY <3>3 DEF Cost
      <3> HIDE DEF paid
      <3>6. Paid = paid
        BY <1>3, <2>4, <2>6, <2>7, <2>11 DEF Paid
      <3>7. paid % T = 0
        BY <2>4, <2>10, <3>3, <3>4, WholeMultiple DEF paid
      <3> QED
        BY <2>6, <2>8, <3>3, <3>5, <3>6, <3>7
    <2>12. \A t \in Series \ {s} : ~(pf'.pos[t].qty > pf.pos[t].qty)
      BY <1>4, <2>8
    <2>13. ~Rounds
      BY <2>11, <2>12 DEF Rounds
    <2> QED
      BY <2>9, <2>13
  <1> QED
    BY <1>2, <1>5, <1>6

\* A step that leaves the positions alone rounds nothing.
LEMMA StillExact ==
    ASSUME IInv, pf'.pos = pf.pos
    PROVE  ~Rounds
  <1>1. \A t \in Series : pf.pos[t].qty \in Int
    BY DEF IInv, Typed, Accounts, Positions
  <1>2. \A t \in Series : ~(pf'.pos[t].qty > pf.pos[t].qty)
    BY <1>1
  <1> QED
    BY <1>2 DEF Rounds

LEMMA WholeBars ==
    ASSUME IInv, Whole, NEW s \in Series, CompleteBar(s) \/ OpenBar(s)
    PROVE  Whole' /\ ~Rounds
  <1>1. /\ now \in 0 .. MaxTime + 1 /\ book[s] \in Books /\ Alone(book[s])
        /\ pf \in Accounts({pf.peak})
    BY DEF IInv, TypeOK, Typed
  <1>2. CASE CompleteBar(s)
    <2>1. conf' = conf /\ aim' = aim
      BY <1>2 DEF CompleteBar
    <2>2. PICK low \in Prices, high \in Prices :
              Handle(s, pf, Broker!ProcessBar(book[s], [series |-> s, pf |-> pf], low, high, now))
      BY <1>2 DEF CompleteBar
    <2> DEFINE r == Broker!ProcessBar(book[s], [series |-> s, pf |-> pf], low, high, now)
    <2>3. Passed(book[s], [series |-> s, pf |-> pf], r)
      BY <1>1, BarPasses, PricesAreInts
    <2>4. SameLedger(pf, pf)
      BY DEF SameLedger
    <2> HIDE DEF r
    <2>5. Handle(s, pf, r)
      BY <2>2 DEF r
    <2> QED
      BY <1>1, <2>1, <2>3, <2>4, <2>5, PassWhole
  <1>3. CASE OpenBar(s)
    <2>1. conf' = conf /\ aim' = aim
      BY <1>3 DEF OpenBar
    <2>2. PICK open \in Prices :
              Handle(s, SetMark(pf, s, open),
                  Broker!ProcessOpen(book[s], [series |-> s, pf |-> SetMark(pf, s, open)], open, now))
      BY <1>3 DEF OpenBar
    <2> DEFINE from == SetMark(pf, s, open)
               r == Broker!ProcessOpen(book[s], [series |-> s, pf |-> from], open, now)
    <2>3. open \in Int
      BY PricesAreInts
    <2>4. Passed(book[s], [series |-> s, pf |-> from], r)
      BY <1>1, <2>3, OpenPasses
    <2>5. from \in Accounts({pf.peak})
      BY <1>1, <2>3, MarkParts
    <2>6. SameLedger(pf, from)
      BY <1>1 DEF SetMark, Shot, SameLedger, Accounts
    <2> HIDE DEF r, from
    <2>7. Handle(s, from, r)
      BY <2>2 DEF r, from
    <2> QED
      BY <2>1, <2>4, <2>5, <2>6, <2>7, PassWhole
  <1> QED
    BY <1>2, <1>3

LEMMA WholeSignal ==
    ASSUME FixedSizes, IInv, Whole, NEW s \in Series, Signal(s)
    PROVE  Whole' /\ ~Rounds
  <1>1. pf' = pf /\ conf' = conf /\ conf \in Configurations /\ aim \in [Series -> Int]
    BY DEF Signal, IInv, Typed
  <1>2. PICK direction \in {-1, 0, 1} : aim' = [aim EXCEPT ![s] = Target(direction, pf.mark[s])]
    BY DEF Signal
  <1>3. Target(direction, pf.mark[s]) = direction * conf.target /\ conf.target \in Int
    BY <1>1, Strategies DEF Target, FixedSizes
  <1> DEFINE target == Target(direction, pf.mark[s])
  <1>4. Size(target)
    BY <1>3 DEF Size
  <1> HIDE DEF target
  <1>5. aim'[s] = target /\ \A t \in Series \ {s} : aim'[t] = aim[t]
    BY <1>1, <1>2 DEF target
  <1>6. \A t \in Series : Size(aim'[t]) /\ Size(pf.pos[t].qty)
    BY <1>4, <1>5 DEF Whole
  <1>7. Whole'
    BY <1>1, <1>6 DEF Whole, Size
  <1> QED
    BY <1>1, <1>7, StillExact

LEMMA StepKeepsWhole ==
    ASSUME FixedSizes, IInv, Whole, [Next]_vars
    PROVE  Whole' /\ ~Rounds
  <1>1. ASSUME NEW s \in Series, CompleteBar(s) \/ Signal(s) \/ OpenBar(s)
        PROVE  Whole' /\ ~Rounds
    BY <1>1, WholeBars, WholeSignal
  <1>2. ASSUME pf'.pos = pf.pos, conf' = conf, aim' = aim
        PROVE  Whole' /\ ~Rounds
    BY <1>2, StillExact DEF Whole, Size
  <1>3. pf \in Accounts({pf.peak})
    BY DEF IInv, Typed
  <1>4. ASSUME NEW s \in Series, MarkClose(s)
        PROVE  pf'.pos = pf.pos /\ conf' = conf /\ aim' = aim
    BY <1>3, <1>4 DEF MarkClose, SetMark, Shot, Accounts
  <1>5. ASSUME NEW s \in Series, Fund(s)
        PROVE  pf'.pos = pf.pos /\ conf' = conf /\ aim' = aim
    <2>1. pf'.pos = pf.pos
      BY <1>5, FundMoves DEF Funded
    <2> QED
      BY <1>5, <2>1 DEF Fund
  <1>6. ASSUME EndInstant \/ Finish \/ UNCHANGED vars
        PROVE  pf'.pos = pf.pos /\ conf' = conf /\ aim' = aim
    BY <1>3, <1>6 DEF EndInstant, Finish, vars, Accounts
  <1> QED
    BY <1>1, <1>2, <1>4, <1>5, <1>6 DEF Next

LEMMA InitWhole ==
    ASSUME Init
    PROVE  Whole
  <1>1. \A s \in Series : pf.pos[s] = Flat /\ aim[s] = 0
    BY DEF Init
  <1> QED
    BY <1>1 DEF Whole, Size, Flat

\* The account reconciles from one event to the next: a step that rounds no average
\* price books cash, positions, marks, snapshots, fees and funding so that the equity
\* is still the sum of its parts (accounting.py, metrics.py:77).  What the metrics may
\* find missing at the end is the rounding of averages and nothing else.
THEOREM OnlyRoundingLeaks ==
    Spec => [][EquityReconciles /\ ~Rounds => EquityReconciles']_vars
  <1>1. Bookkept /\ Bookkept' /\ [Next]_vars =>
            [EquityReconciles /\ ~Rounds => EquityReconciles']_vars
    BY OnlyRounding
  <1> QED
    BY <1>1, BooksAlways, PTL DEF Spec

\* So a run that rounds no average price reconciles at every event.
THEOREM ExactRunsReconcile ==
    Spec /\ [][~Rounds]_vars => []EquityReconciles
  <1>1. Init => EquityReconciles
    BY InitGives, InitBooks, BalancedIsReconciled DEF Bookkept
  <1>2. EquityReconciles /\ [EquityReconciles /\ ~Rounds => EquityReconciles']_vars
            /\ [~Rounds]_vars => EquityReconciles'
    BY DEF EquityReconciles, vars
  <1> QED
    BY <1>1, <1>2, OnlyRoundingLeaks, PTL DEF Spec

\* A strategy that orders fixed sizes rounds no average price: a series is flat, long
\* or short by that size, and spot is bought from nothing (positions.py, the average).
THEOREM FixedSizesAreExact ==
    ASSUME FixedSizes
    PROVE  Spec => [][~Rounds]_vars
  <1>1. Init => IInv /\ Whole
    BY InitGives, InitWhole
  <1>2. IInv /\ Whole /\ [Next]_vars => (IInv /\ Whole)' /\ [~Rounds]_vars
    BY NextKeeps, StutterKeeps, StepKeepsWhole
  <1> QED
    BY <1>1, <1>2, PTL DEF Spec

-----------------------------------------------------------------------------
(* Round trips: the rows of an instant, one after the other.               *)

Rows == [kind : {"fill", "funding"}, s : Series, fee : Int, amount : Int, size : Nat \ {0},
         qty : Int, real : Int]
TripBooks == [qty : [Series -> Int], real : [Series -> Int], acc : [Series -> Int],
              closed : Int, mixed : BOOLEAN]

\* What a fill leaves accumulated in the open trip of its series, and in closed trips.
TripAcc(r, e) ==
    LET s == e.s
        gain == e.real - r.real[s]
        share == (e.fee * AbsInt(r.qty[s])) \div e.size
    IN  IF r.qty[s] = 0 THEN -e.fee
        ELSE IF r.qty[s] * e.qty < 0 THEN share - e.fee
        ELSE IF e.qty = 0 THEN 0 ELSE r.acc[s] + gain - e.fee
TripClosed(r, e) ==
    LET s == e.s
        gain == e.real - r.real[s]
        share == (e.fee * AbsInt(r.qty[s])) \div e.size
    IN  IF r.qty[s] = 0 THEN r.closed
        ELSE IF r.qty[s] * e.qty < 0 THEN r.closed + r.acc[s] + gain - share
        ELSE IF e.qty = 0 THEN r.closed + r.acc[s] + gain - e.fee ELSE r.closed

\* What a row does to the series it names; another series' books stay.
Tripped(r, e, t) ==
    /\ t.mixed = r.mixed
    /\ \A x \in Series \ {e.s} : t.qty[x] = r.qty[x] /\ t.real[x] = r.real[x] /\ t.acc[x] = r.acc[x]
    /\ e.kind = "funding" =>
          /\ t.qty = r.qty /\ t.real = r.real /\ t.closed = r.closed
          /\ t.acc[e.s] = IF r.qty[e.s] = 0 THEN r.acc[e.s] ELSE r.acc[e.s] + e.amount
    /\ e.kind = "fill" =>
          /\ t.qty[e.s] = e.qty /\ t.real[e.s] = e.real
          /\ t.acc[e.s] = TripAcc(r, e) /\ t.closed = TripClosed(r, e)

\* One row: books stay books, and only its series moves.
Rebooked(r, q, l, a, c) == [r EXCEPT !.qty = q, !.real = l, !.acc = a, !.closed = c]
BooksAre(t, q, l, a, c, mixed) ==
    /\ t \in TripBooks /\ t.qty = q /\ t.real = l /\ t.acc = a /\ t.closed = c
    /\ t.mixed = mixed

LEMMA BooksReplaced ==
    ASSUME NEW r \in TripBooks, NEW q \in [Series -> Int], NEW l \in [Series -> Int],
           NEW a \in [Series -> Int], NEW c \in Int
    PROVE  BooksAre(Rebooked(r, q, l, a, c), q, l, a, c, r.mixed)
  BY DEF Rebooked, BooksAre, TripBooks

LEMMA ShareType ==
    ASSUME NEW r \in TripBooks, NEW e \in Rows
    PROVE  (e.fee * AbsInt(r.qty[e.s])) \div e.size \in Int
  <1>1. e.s \in Series /\ e.fee \in Int /\ e.size \in Nat /\ e.size > 0 /\ r.qty[e.s] \in Int
    BY DEF Rows, TripBooks
  <1>2. AbsInt(r.qty[e.s]) \in Int
    BY <1>1, Absolute
  <1>3. e.fee * AbsInt(r.qty[e.s]) \in Int
    BY <1>1, <1>2
  <1> DEFINE x == e.fee * AbsInt(r.qty[e.s])
  <1> HIDE DEF x
  <1>4. x \in Int
    BY <1>3 DEF x
  <1>5. x \div e.size \in Int
    BY <1>1, <1>4
  <1> QED
    BY <1>5 DEF x

LEMMA TripMoves ==
    ASSUME NEW r \in TripBooks, NEW e \in Rows
    PROVE  Trip(r, e) \in TripBooks /\ Tripped(r, e, Trip(r, e))
  <1> DEFINE s == e.s
             old == r.qty[s]
             gain == e.real - r.real[s]
             share == (e.fee * AbsInt(old)) \div e.size
             qty == [r.qty EXCEPT ![s] = e.qty]
             real == [r.real EXCEPT ![s] = e.real]
             t == Trip(r, e)
  <1>1. /\ e.kind \in {"fill", "funding"} /\ s \in Series /\ e.fee \in Int /\ e.amount \in Int
        /\ e.qty \in Int /\ e.real \in Int
    BY DEF Rows
  <1>2. /\ r.qty \in [Series -> Int] /\ r.real \in [Series -> Int] /\ r.acc \in [Series -> Int]
        /\ r.closed \in Int /\ old \in Int /\ r.acc[s] \in Int /\ r.real[s] \in Int
    BY <1>1 DEF TripBooks
  <1>3. gain \in Int /\ share \in Int
    BY <1>1, <1>2, ShareType
  <1>4. /\ qty \in [Series -> Int] /\ qty[s] = e.qty /\ \A x \in Series \ {s} : qty[x] = r.qty[x]
        /\ real \in [Series -> Int] /\ real[s] = e.real /\ \A x \in Series \ {s} : real[x] = r.real[x]
    BY <1>1, <1>2
  <1>5. \A v \in Int : LET a == [r.acc EXCEPT ![s] = v] IN
            a \in [Series -> Int] /\ a[s] = v /\ \A x \in Series \ {s} : a[x] = r.acc[x]
    BY <1>1, <1>2
  <1> DEFINE acc(v) == [r.acc EXCEPT ![s] = v]
  <1>6. /\ e.kind = "funding" /\ old = 0 => t = r
        /\ e.kind = "funding" /\ old # 0 => t = [r EXCEPT !.acc = acc(r.acc[s] + e.amount)]
    BY <1>2 DEF Trip, TripBooks
  <1>7. e.kind = "fill" /\ old = 0 => t = Rebooked(r, qty, real, acc(-e.fee), r.closed)
    <2> HIDE DEF share, gain
    <2> QED
      BY DEF Trip, TripBooks, Rebooked
  <1>8. e.kind = "fill" /\ old # 0 /\ old * e.qty < 0
            => t = Rebooked(r, qty, real, acc(share - e.fee), r.closed + r.acc[s] + gain - share)
    <2> SUFFICES ASSUME e.kind = "fill", old # 0, old * e.qty < 0
                 PROVE  t = Rebooked(r, qty, real, acc(share - e.fee), r.closed + r.acc[s] + gain - share)
      OBVIOUS
    <2> DEFINE next == [r EXCEPT !.qty[s] = e.qty, !.real[s] = e.real]
    <2>1. t = [next EXCEPT !.acc[s] = share - e.fee, !.closed = @ + r.acc[s] + gain - share]
      BY Zenon DEF Trip
    <2>2. next = [r EXCEPT !.qty = qty, !.real = real]
      BY DEF TripBooks
    <2> HIDE DEF share, gain, t, old
    <2> QED
      BY <2>1, <2>2 DEF TripBooks, Rebooked
  <1>9. e.kind = "fill" /\ old # 0 /\ ~(old * e.qty < 0) /\ e.qty = 0
            => t = Rebooked(r, qty, real, acc(0), r.closed + r.acc[s] + gain - e.fee)
    <2> SUFFICES ASSUME e.kind = "fill", old # 0, ~(old * e.qty < 0), e.qty = 0
                 PROVE  t = Rebooked(r, qty, real, acc(0), r.closed + r.acc[s] + gain - e.fee)
      OBVIOUS
    <2> DEFINE next == [r EXCEPT !.qty[s] = e.qty, !.real[s] = e.real]
    <2>1. t = [next EXCEPT !.acc[s] = 0, !.closed = @ + r.acc[s] + gain - e.fee]
      BY Zenon DEF Trip
    <2>2. next = [r EXCEPT !.qty = qty, !.real = real]
      BY DEF TripBooks
    <2> HIDE DEF share, gain, t, old
    <2> QED
      BY <2>1, <2>2 DEF TripBooks, Rebooked
  <1>10. e.kind = "fill" /\ old # 0 /\ ~(old * e.qty < 0) /\ e.qty # 0
            => t = Rebooked(r, qty, real, acc(r.acc[s] + gain - e.fee), r.closed)
    <2> SUFFICES ASSUME e.kind = "fill", old # 0, ~(old * e.qty < 0), e.qty # 0
                 PROVE  t = Rebooked(r, qty, real, acc(r.acc[s] + gain - e.fee), r.closed)
      OBVIOUS
    <2> DEFINE next == [r EXCEPT !.qty[s] = e.qty, !.real[s] = e.real]
    <2>1. t = [next EXCEPT !.acc[s] = @ + gain - e.fee]
      BY Zenon DEF Trip
    <2>2. next = [r EXCEPT !.qty = qty, !.real = real]
      BY DEF TripBooks
    <2> HIDE DEF share, gain, t, old
    <2> QED
      BY <2>1, <2>2 DEF TripBooks, Rebooked
  <1> DEFINE D == Tripped(r, e, t)
  <1>11. ASSUME e.kind = "funding" PROVE t \in TripBooks /\ D
    <2>1. CASE old = 0
      <3>1. t = r
        BY <1>6, <1>11, <2>1
      <3> HIDE DEF t, share
      <3> QED
        BY <1>11, <2>1, <3>1 DEF Tripped
    <2>2. CASE old # 0
      <3> DEFINE v == r.acc[s] + e.amount
                 a == acc(v)
      <3>1. v \in Int
        BY <1>1, <1>2
      <3>2. t = [r EXCEPT !.acc = a]
        BY <1>6, <1>11, <2>2
      <3>3. a \in [Series -> Int] /\ a[s] = v /\ \A x \in Series \ {s} : a[x] = r.acc[x]
        BY <1>5, <3>1
      <3> HIDE DEF a, t, share
      <3>4. /\ t \in TripBooks /\ t.qty = r.qty /\ t.real = r.real /\ t.closed = r.closed
            /\ t.acc = a /\ t.mixed = r.mixed
        BY <3>2, <3>3 DEF TripBooks
      <3> QED
        BY <1>11, <2>2, <3>3, <3>4 DEF Tripped
    <2> QED
      BY <2>1, <2>2
  <1>12. ASSUME e.kind = "fill", NEW v \in Int, NEW c \in Int, t = Rebooked(r, qty, real, acc(v), c),
                v = TripAcc(r, e), c = TripClosed(r, e)
         PROVE  t \in TripBooks /\ D
    <2> DEFINE a == acc(v)
    <2>1. a \in [Series -> Int] /\ a[s] = v /\ \A x \in Series \ {s} : a[x] = r.acc[x]
      BY <1>5
    <2>2. t = Rebooked(r, qty, real, a, c)
      BY <1>12
    <2> HIDE DEF a, t, qty, real
    <2>3. /\ t \in TripBooks /\ t.qty = qty /\ t.real = real /\ t.acc = a /\ t.closed = c
          /\ t.mixed = r.mixed
      <3>1. qty \in [Series -> Int] /\ real \in [Series -> Int] /\ a \in [Series -> Int]
        BY <1>4, <2>1
      <3>2. BooksAre(t, qty, real, a, c, r.mixed)
        BY <2>2, <3>1, BooksReplaced
      <3> QED
        BY <3>2, Zenon DEF BooksAre
    <2>4. e.kind # "funding"
      BY <1>12
    <2> QED
      BY <1>4, <1>12, <2>1, <2>3, <2>4, Zenon DEF Tripped
  <1>13. ASSUME e.kind = "fill" PROVE t \in TripBooks /\ D
    <2> HIDE DEF D, t, qty, real, acc
    <2>1. CASE old = 0
      <3>1. -e.fee \in Int /\ TripAcc(r, e) = -e.fee /\ TripClosed(r, e) = r.closed
        BY <1>1, <2>1 DEF TripAcc, TripClosed
      <3> QED
        BY <1>2, <1>7, <1>12, <1>13, <2>1, <3>1
    <2>2. CASE old # 0 /\ old * e.qty < 0
      <3>1. share - e.fee \in Int /\ r.closed + r.acc[s] + gain - share \in Int
        BY <1>1, <1>2, <1>3
      <3>2. TripAcc(r, e) = share - e.fee /\ TripClosed(r, e) = r.closed + r.acc[s] + gain - share
        BY <2>2, Zenon DEF TripAcc, TripClosed
      <3> HIDE DEF share, gain, old
      <3> QED
        BY <1>2, <1>8, <1>12, <1>13, <2>2, <3>1, <3>2
    <2>3. CASE old # 0 /\ ~(old * e.qty < 0) /\ e.qty = 0
      <3>1. 0 \in Int /\ r.closed + r.acc[s] + gain - e.fee \in Int
        BY <1>1, <1>2, <1>3
      <3>2. TripAcc(r, e) = 0 /\ TripClosed(r, e) = r.closed + r.acc[s] + gain - e.fee
        BY <2>3, Zenon DEF TripAcc, TripClosed
      <3> HIDE DEF share, gain, old
      <3> QED
        BY <1>2, <1>9, <1>12, <1>13, <2>3, <3>1, <3>2
    <2>4. CASE old # 0 /\ ~(old * e.qty < 0) /\ e.qty # 0
      <3>1. r.acc[s] + gain - e.fee \in Int
        BY <1>1, <1>2, <1>3
      <3>2. TripAcc(r, e) = r.acc[s] + gain - e.fee /\ TripClosed(r, e) = r.closed
        BY <2>4, Zenon DEF TripAcc, TripClosed
      <3> HIDE DEF share, gain, old
      <3> QED
        BY <1>2, <1>10, <1>12, <1>13, <2>4, <3>1, <3>2
    <2> QED
      BY <2>1, <2>2, <2>3, <2>4
  <1> QED
    BY <1>1, <1>11, <1>13

-----------------------------------------------------------------------------
(* Folds of rows.                                                          *)

LEMMA GreatestIn ==
    ASSUME NEW n \in Nat, NEW s \in SUBSET (1 .. n), s # {}
    PROVE  Max(s) \in s
  <1> DEFINE N == {m \in Nat : \A t \in SUBSET (1 .. m) : t # {} => \E x \in t : \A y \in t : x >= y}
  <1>1. 0 \in N
    <2>1. 1 .. 0 = {}
      OBVIOUS
    <2> QED
      BY <2>1
  <1>2. ASSUME NEW m \in N PROVE m + 1 \in N
    <2>1. m \in Nat /\ m + 1 \in Nat
      OBVIOUS
    <2> SUFFICES ASSUME NEW t \in SUBSET (1 .. (m + 1)), t # {}
                 PROVE  \E x \in t : \A y \in t : x >= y
      BY <2>1
    <2>2. CASE m + 1 \in t
      <3>1. \A y \in t : m + 1 >= y
        BY <2>1
      <3> QED
        BY <2>2, <3>1
    <2>3. CASE m + 1 \notin t
      <3>1. t \in SUBSET (1 .. m)
        <4>1. ASSUME NEW y \in t PROVE y \in 1 .. m
          <5>1. y \in 1 .. (m + 1) /\ y # m + 1
            BY <2>3
          <5> QED
            BY <2>1, <5>1
        <4> QED
          BY <4>1
      <3> QED
        BY <3>1
    <2> QED
      BY <2>2, <2>3
  <1> HIDE DEF N
  <1>3. n \in N
    <2>1. N \in SUBSET Nat
      BY DEF N
    <2> QED
      BY <1>1, <1>2, <2>1, NumbersInduct
  <1>4. \E x \in s : \A y \in s : x >= y
    BY <1>3 DEF N
  <1> QED
    BY <1>4 DEF Max

\* The fold of Trip over a list of rows.
TripRun(r, q) ==
    CHOOSE h : h = [t \in SUBSET DOMAIN q |->
                       IF t = {} THEN r ELSE Trip(h[t \ {Max(t)}], q[Max(t)])]
Folded(r, q) == FoldLeft(Trip, r, q)

LEMMA FoldedIsItsRun ==
    ASSUME NEW r, NEW q
    PROVE  Folded(r, q) = TripRun(r, q)[DOMAIN q]
  BY Zenon DEF Folded, FoldLeft, MapThenFoldSet, TripRun

RunsTrips(h, r, q) ==
    \A t \in SUBSET DOMAIN q : h[t] = IF t = {} THEN r ELSE Trip(h[t \ {Max(t)}], q[Max(t)])

LEMMA TripsRun ==
    ASSUME NEW r \in TripBooks, NEW q \in Seq(Rows)
    PROVE  TripRun(r, q) \in [SUBSET DOMAIN q -> TripBooks] /\ RunsTrips(TripRun(r, q), r, q)
  <1> DEFINE n == Len(q)
             pick == [t \in SUBSET (1 .. n) |-> Max(t)]
             g == [i \in 1 .. n |-> [v \in TripBooks |-> Trip(v, q[i])]]
             Body(h) == [t \in SUBSET DOMAIN q |->
                            IF t = {} THEN r ELSE Trip(h[t \ {Max(t)}], q[Max(t)])]
             run == TripRun(r, q)
  <1>1. n \in Nat /\ DOMAIN q = 1 .. n /\ \A i \in 1 .. n : q[i] \in Rows
    OBVIOUS
  <1> HIDE DEF n
  <1>2. IsFiniteSet(1 .. n)
    BY <1>1, FS_Interval
  <1>3. \A t \in SUBSET (1 .. n) : t # {} => Max(t) \in t
    BY <1>1, GreatestIn
  <1>4. Picks(pick, 1 .. n)
    BY <1>3 DEF Picks
  <1>5. g \in [1 .. n -> [TripBooks -> TripBooks]]
    BY <1>1, TripMoves
  <1> HIDE DEF g, pick
  <1>6. PICK h \in [SUBSET (1 .. n) -> TripBooks] : FoldOf(h, 1 .. n, r, pick, g)
    BY <1>2, <1>4, <1>5, FoldExists
  <1>7. ASSUME NEW t \in SUBSET (1 .. n)
        PROVE  h[t] = IF t = {} THEN r ELSE Trip(h[t \ {Max(t)}], q[Max(t)])
    <2>1. h[t] = IF t = {} THEN r ELSE g[pick[t]][h[t \ {pick[t]}]]
      BY <1>6 DEF FoldOf
    <2>2. CASE t = {}
      BY <2>1, <2>2
    <2>3. CASE t # {}
      <3>1. pick[t] = Max(t) /\ Max(t) \in 1 .. n /\ t \ {Max(t)} \in SUBSET (1 .. n)
        BY <1>3, <2>3 DEF pick
      <3>2. h[t \ {Max(t)}] \in TripBooks
        BY <3>1
      <3>3. g[Max(t)][h[t \ {Max(t)}]] = Trip(h[t \ {Max(t)}], q[Max(t)])
        BY <3>1, <3>2 DEF g
      <3> QED
        BY <2>1, <2>3, <3>1, <3>3
    <2> QED
      BY <2>2, <2>3
  <1>8. h = Body(h)
    <2>1. DOMAIN h = SUBSET DOMAIN q /\ h = [t \in SUBSET DOMAIN q |-> h[t]]
      BY <1>1
    <2>2. \A t \in SUBSET DOMAIN q : h[t] = IF t = {} THEN r ELSE Trip(h[t \ {Max(t)}], q[Max(t)])
      BY <1>1, <1>7
    <2> QED
      BY <2>1, <2>2, Zenon
  <1>9. run = Body(run)
    BY <1>8, Zenon DEF TripRun
  <1> HIDE DEF run
  <1>10. RunsTrips(run, r, q)
    BY <1>9 DEF RunsTrips
  <1> DEFINE Good == {t \in SUBSET (1 .. n) : run[t] \in TripBooks}
  <1>11. {} \in Good
    <2>1. run[{}] = r
      BY <1>10, Zenon DEF RunsTrips
    <2> QED
      BY <2>1
  <1>12. ASSUME NEW t \in SUBSET (1 .. n), \A x \in t : t \ {x} \in Good
         PROVE  t \in Good
    <2>1. CASE t = {}
      BY <1>11, <2>1
    <2>2. CASE t # {}
      <3>1. Max(t) \in t /\ Max(t) \in 1 .. n
        BY <1>3, <2>2
      <3>2. run[t \ {Max(t)}] \in TripBooks /\ q[Max(t)] \in Rows
        BY <1>1, <1>12, <3>1
      <3>3. run[t] = Trip(run[t \ {Max(t)}], q[Max(t)])
        BY <1>1, <1>10, <2>2 DEF RunsTrips
      <3>4. run[t] \in TripBooks
        BY <3>2, <3>3, TripMoves
      <3> QED
        BY <3>4
    <2> QED
      BY <2>1, <2>2
  <1>13. \A t \in SUBSET (1 .. n) : t \in Good
    <2>1. Good \in SUBSET (SUBSET (1 .. n))
      OBVIOUS
    <2> HIDE DEF Good
    <2> QED
      BY <1>2, <1>11, <1>12, <2>1, SubsetsInduct
  <1>14. run \in [SUBSET DOMAIN q -> TripBooks]
    <2>1. \A t \in SUBSET DOMAIN q : run[t] \in TripBooks
      BY <1>1, <1>13
    <2>2. DOMAIN run = SUBSET DOMAIN q /\ run = [t \in SUBSET DOMAIN q |-> run[t]]
      <3>1. DOMAIN run = SUBSET DOMAIN q
        BY <1>9
      <3> QED
        BY <1>9, <3>1
    <2> QED
      BY <2>1, <2>2
  <1> QED
    BY <1>10, <1>14 DEF run

\* What the fold does, row by row.
LEMMA FoldedType ==
    ASSUME NEW r \in TripBooks, NEW q \in Seq(Rows)
    PROVE  Folded(r, q) \in TripBooks
  <1>1. DOMAIN q \in SUBSET DOMAIN q
    OBVIOUS
  <1> QED
    BY <1>1, TripsRun, FoldedIsItsRun

LEMMA FoldedNone ==
    ASSUME NEW r \in TripBooks
    PROVE  Folded(r, <<>>) = r
  <1> DEFINE q == <<>>
  <1>1. q \in Seq(Rows) /\ DOMAIN q = {}
    OBVIOUS
  <1> HIDE DEF q
  <1>2. RunsTrips(TripRun(r, q), r, q)
    BY <1>1, TripsRun
  <1>3. {} \in SUBSET DOMAIN q
    OBVIOUS
  <1>4. TripRun(r, q)[{}] = r
    BY <1>2, <1>3, Zenon DEF RunsTrips
  <1>5. Folded(r, q) = r
    BY <1>1, <1>4, FoldedIsItsRun
  <1> QED
    BY <1>5 DEF q

LEMMA FoldedOneMore ==
    ASSUME NEW r \in TripBooks, NEW q \in Seq(Rows), NEW e \in Rows
    PROVE  Folded(r, Append(q, e)) = Trip(Folded(r, q), e)
  <1> DEFINE n == Len(q)
             w == Append(q, e)
             h == TripRun(r, q)
             k == TripRun(r, w)
             Good == {t \in SUBSET (1 .. n) : k[t] = h[t]}
  <1>1. /\ n \in Nat /\ DOMAIN q = 1 .. n /\ w \in Seq(Rows) /\ DOMAIN w = 1 .. (n + 1)
        /\ w[n + 1] = e /\ \A i \in 1 .. n : w[i] = q[i]
    OBVIOUS
  <1>2. RunsTrips(h, r, q) /\ RunsTrips(k, r, w)
    BY <1>1, TripsRun
  <1>3. \A t \in SUBSET (1 .. n) : t # {} => Max(t) \in t
    BY <1>1, GreatestIn
  <1>4. Folded(r, w) = k[1 .. (n + 1)] /\ Folded(r, q) = h[1 .. n]
    BY <1>1, FoldedIsItsRun
  <1> HIDE DEF n, w, h, k
  <1>5. SUBSET (1 .. n) \subseteq SUBSET (1 .. (n + 1))
    <2>1. \A i \in 1 .. n : i \in 1 .. (n + 1)
      BY <1>1
    <2> QED
      BY <2>1
  <1>6. {} \in Good
    <2>1. {} \in SUBSET DOMAIN q /\ {} \in SUBSET DOMAIN w
      OBVIOUS
    <2>2. h[{}] = r
      BY <1>2, <2>1, Zenon DEF RunsTrips
    <2>3. k[{}] = r
      BY <1>2, <2>1, Zenon DEF RunsTrips
    <2> QED
      BY <2>2, <2>3
  <1>7. ASSUME NEW t \in SUBSET (1 .. n), \A x \in t : t \ {x} \in Good
        PROVE  t \in Good
    <2>1. CASE t = {}
      BY <1>6, <2>1
    <2>2. CASE t # {}
      <3>1. Max(t) \in t /\ Max(t) \in 1 .. n
        BY <1>3, <2>2
      <3>2. k[t \ {Max(t)}] = h[t \ {Max(t)}] /\ w[Max(t)] = q[Max(t)]
        BY <1>1, <1>7, <3>1
      <3>3. h[t] = Trip(h[t \ {Max(t)}], q[Max(t)])
        BY <1>1, <1>2, <2>2 DEF RunsTrips
      <3>4. k[t] = Trip(k[t \ {Max(t)}], w[Max(t)])
        <4>1. t \in SUBSET DOMAIN w
          BY <1>1, <1>5
        <4> QED
          BY <1>2, <2>2, <4>1 DEF RunsTrips
      <3>5. k[t] = h[t]
        BY <3>2, <3>3, <3>4
      <3> QED
        BY <3>5
    <2> QED
      BY <2>1, <2>2
  <1>8. k[1 .. n] = h[1 .. n]
    <2>1. Good \in SUBSET (SUBSET (1 .. n)) /\ IsFiniteSet(1 .. n)
      BY <1>1, FS_Interval
    <2> HIDE DEF Good
    <2>2. \A t \in SUBSET (1 .. n) : t \in Good
      BY <1>6, <1>7, <2>1, SubsetsInduct
    <2>3. (1 .. n) \in SUBSET (1 .. n)
      BY Zenon
    <2>4. (1 .. n) \in Good
      BY <2>2, <2>3, Zenon
    <2> QED
      BY <2>4, Zenon DEF Good
  <1> DEFINE all == 1 .. (n + 1)
  <1>9. all # {} /\ Max(all) = n + 1 /\ all \ {n + 1} = 1 .. n
    <2>1. n + 1 \in all /\ \A i \in all : n + 1 >= i
      BY <1>1
    <2>8. n + 1 \in Nat
      BY <1>1
    <2>2. all # {}
      BY <2>1, Zenon
    <2>3. Max(all) \in all
      BY <2>2, <2>8, GreatestIn
    <2>4. Max(all) >= n + 1
      <3>1. \E x \in all : \A y \in all : x >= y
        BY <2>1
      <3>2. \A y \in all : Max(all) >= y
        BY <3>1 DEF Max
      <3> QED
        BY <2>1, <3>2
    <2>5. Max(all) = n + 1
      BY <1>1, <2>3, <2>4
    <2>6. \A i : i \in all \ {n + 1} <=> i \in 1 .. n
      BY <1>1
    <2>7. all \ {n + 1} = 1 .. n
      BY <2>6
    <2> QED
      BY <2>2, <2>5, <2>7
  <1>10. k[all] = Trip(k[1 .. n], e)
    <2>1. all \in SUBSET DOMAIN w
      BY <1>1
    <2> HIDE DEF all
    <2>2. k[all] = Trip(k[all \ {Max(all)}], w[Max(all)])
      BY <1>2, <1>9, <2>1 DEF RunsTrips
    <2> QED
      BY <1>1, <1>9, <2>2
  <1>11. Folded(r, w) = Trip(Folded(r, q), e)
    BY <1>4, <1>8, <1>10
  <1> QED
    BY <1>11 DEF w

\* Books that differ only in what the open trip of s has accumulated.
Shifted(A, B, s, x) ==
    /\ B.mixed = A.mixed /\ B.closed = A.closed /\ B.acc[s] = A.acc[s] + x
    /\ \A y \in Series : /\ B.qty[y] = A.qty[y] /\ B.real[y] = A.real[y]
                         /\ y # s => B.acc[y] = A.acc[y]
OtherFills(q, s) == \A i \in DOMAIN q : q[i].kind = "fill" /\ q[i].s # s

LEMMA ShiftedTrip ==
    ASSUME NEW A \in TripBooks, NEW B \in TripBooks, NEW s \in Series, NEW x,
           Shifted(A, B, s, x), NEW e \in Rows, e.kind = "fill", e.s # s
    PROVE  Shifted(Trip(A, e), Trip(B, e), s, x) /\ Trip(A, e).qty[s] = A.qty[s]
  <1> DEFINE C == Trip(A, e)
             D == Trip(B, e)
  <1>1. Tripped(A, e, C) /\ Tripped(B, e, D) /\ e.s \in Series
    BY TripMoves DEF Rows
  <1>2. /\ B.qty[e.s] = A.qty[e.s] /\ B.real[e.s] = A.real[e.s] /\ B.acc[e.s] = A.acc[e.s]
        /\ B.closed = A.closed
    BY <1>1 DEF Shifted
  <1>3. TripAcc(B, e) = TripAcc(A, e) /\ TripClosed(B, e) = TripClosed(A, e)
    BY <1>2 DEF TripAcc, TripClosed
  <1> HIDE DEF C, D
  <1>4. /\ C.qty[e.s] = D.qty[e.s] /\ C.real[e.s] = D.real[e.s] /\ C.acc[e.s] = D.acc[e.s]
        /\ C.closed = D.closed /\ C.mixed = A.mixed /\ D.mixed = B.mixed
    BY <1>1, <1>3 DEF Tripped
  <1>5. \A y \in Series \ {e.s} : /\ C.qty[y] = A.qty[y] /\ C.real[y] = A.real[y] /\ C.acc[y] = A.acc[y]
                                  /\ D.qty[y] = B.qty[y] /\ D.real[y] = B.real[y] /\ D.acc[y] = B.acc[y]
    BY <1>1 DEF Tripped
  <1>6. Shifted(C, D, s, x)
    BY <1>4, <1>5 DEF Shifted
  <1>7. C.qty[s] = A.qty[s]
    BY <1>5
  <1> QED
    BY <1>6, <1>7 DEF C, D

\* The fills of other series leave the difference, and the series, as they are.
LEMMA ShiftedFold ==
    ASSUME NEW A \in TripBooks, NEW B \in TripBooks, NEW s \in Series, NEW x,
           Shifted(A, B, s, x), NEW q \in Seq(Rows), OtherFills(q, s)
    PROVE  Shifted(Folded(A, q), Folded(B, q), s, x) /\ Folded(A, q).qty[s] = A.qty[s]
  <1> DEFINE Holds(w) == Shifted(Folded(A, w), Folded(B, w), s, x) /\ Folded(A, w).qty[s] = A.qty[s]
             N == {n \in Nat : \A w \in Seq(Rows) : Len(w) = n /\ OtherFills(w, s) => Holds(w)}
  <1>1. 0 \in N
    <2>1. ASSUME NEW w \in Seq(Rows), Len(w) = 0 PROVE Holds(w)
      <3>1. w = <<>>
        BY <2>1
      <3> QED
        BY <3>1, FoldedNone
    <2> QED
      BY <2>1
  <1>2. ASSUME NEW n \in N PROVE n + 1 \in N
    <2> SUFFICES ASSUME NEW w \in Seq(Rows), Len(w) = n + 1, OtherFills(w, s) PROVE Holds(w)
      OBVIOUS
    <2> DEFINE u == [i \in 1 .. n |-> w[i]]
               e == w[n + 1]
    <2>1. n \in Nat /\ DOMAIN w = 1 .. (n + 1) /\ n + 1 \in DOMAIN w
      OBVIOUS
    <2>2. \A i \in 1 .. n : i \in DOMAIN w /\ w[i] \in Rows
      BY <2>1
    <2>3. u \in Seq(Rows) /\ Len(u) = n /\ DOMAIN u = 1 .. n
      BY <2>1, <2>2
    <2>4. e \in Rows /\ e.kind = "fill" /\ e.s # s
      BY <2>1 DEF OtherFills
    <2>5. OtherFills(u, s)
      BY <2>2, <2>3 DEF OtherFills
    <2>6. w = Append(u, e)
      <3>1. Append(u, e) \in Seq(Rows) /\ Len(Append(u, e)) = n + 1
        BY <2>1, <2>3, <2>4
      <3>2. \A i \in 1 .. (n + 1) : Append(u, e)[i] = w[i]
        BY <2>1, <2>3
      <3> HIDE DEF u, e
      <3> QED
        BY <3>1, <3>2
    <2> HIDE DEF u, e
    <2>7. Holds(u)
      BY <2>3, <2>5
    <2> HIDE DEF N
    <2>8. /\ Folded(A, w) = Trip(Folded(A, u), e) /\ Folded(B, w) = Trip(Folded(B, u), e)
          /\ Folded(A, u) \in TripBooks /\ Folded(B, u) \in TripBooks
      BY <2>3, <2>4, <2>6, FoldedOneMore, FoldedType
    <2>9. Shifted(Folded(A, w), Folded(B, w), s, x)
          /\ Folded(A, w).qty[s] = Folded(A, u).qty[s]
      BY <2>4, <2>7, <2>8, ShiftedTrip
    <2> QED
      BY <2>7, <2>9
  <1> HIDE DEF Holds
  <1>3. N \in SUBSET Nat
    OBVIOUS
  <1> HIDE DEF N
  <1>4. Len(q) \in N
    <2>1. Len(q) \in Nat
      OBVIOUS
    <2>2. \A n \in Nat : n \in N
      BY <1>1, <1>2, <1>3, NumbersInduct
    <2> QED
      BY <2>1, <2>2
  <1>5. Holds(q)
    BY <1>4 DEF N
  <1> QED
    BY <1>5 DEF Holds

-----------------------------------------------------------------------------
(* Round trips against the account.                                        *)

Reals(pos) == [s \in Series |-> pos[s].real]
Agrees(R, p) ==
    /\ R.closed + Sum(R.acc) = Sum(Reals(p.pos)) + p.funding - p.fees
    /\ \A s \in Series : /\ R.qty[s] = p.pos[s].qty /\ R.real[s] = p.pos[s].real
                         /\ p.pos[s].qty = 0 => R.acc[s] = 0

\* What a fill adds to the trips of its series, closed and open.
LEMMA TripEarns ==
    ASSUME NEW r \in TripBooks, NEW e \in Rows,
           r.qty[e.s] = 0 => r.acc[e.s] = 0 /\ e.real = r.real[e.s]
    PROVE  /\ TripClosed(r, e) + TripAcc(r, e)
                 = r.closed + r.acc[e.s] + (e.real - r.real[e.s]) - e.fee
           /\ r.qty[e.s] # 0 /\ e.qty = 0 => TripAcc(r, e) = 0
  <1> DEFINE s == e.s
             gain == e.real - r.real[s]
             share == (e.fee * AbsInt(r.qty[s])) \div e.size
             turns == r.qty[s] * e.qty < 0
  <1>1. /\ s \in Series /\ e.fee \in Int /\ e.real \in Int /\ r.real[s] \in Int /\ r.acc[s] \in Int
        /\ r.closed \in Int /\ r.qty[s] \in Int
    BY DEF Rows, TripBooks
  <1>2. share \in Int
    BY ShareType
  <1>3. e.qty = 0 => ~turns
    <2>1. r.qty[s] * 0 = 0
      BY <1>1
    <2> QED
      BY <2>1
  <1>4. TripAcc(r, e) = IF r.qty[s] = 0 THEN -e.fee ELSE IF turns THEN share - e.fee
                        ELSE IF e.qty = 0 THEN 0 ELSE r.acc[s] + gain - e.fee
    BY Zenon DEF TripAcc
  <1>5. TripClosed(r, e) = IF r.qty[s] = 0 THEN r.closed
                           ELSE IF turns THEN r.closed + r.acc[s] + gain - share
                           ELSE IF e.qty = 0 THEN r.closed + r.acc[s] + gain - e.fee ELSE r.closed
    BY Zenon DEF TripClosed
  <1> HIDE DEF share, turns
  <1>6. TripClosed(r, e) + TripAcc(r, e) = r.closed + r.acc[s] + gain - e.fee
    BY <1>1, <1>2, <1>4, <1>5
  <1>7. r.qty[s] # 0 /\ e.qty = 0 => TripAcc(r, e) = 0
    BY <1>3, <1>4
  <1> QED
    BY <1>6, <1>7

LEMMA OpensAtNoGain ==
    ASSUME NEW p \in Positions, NEW signed \in Int, NEW price \in Int, p.qty = 0
    PROVE  Position(p, signed, price).real = p.real
  <1>1. 0 * signed >= 0
    OBVIOUS
  <1> QED
    BY <1>1 DEF Position

LEMMA FillAgrees ==
    ASSUME NEW k, NEW p \in Accounts({k}), NEW s \in Series, NEW fill \in Fills, fill.qty > 0,
           NEW t \in Accounts({k}), Entered(p, s, fill, t),
           NEW R \in TripBooks, Agrees(R, p)
    PROVE  FillRow(s, fill, t) \in Rows /\ Agrees(Trip(R, FillRow(s, fill, t)), t)
  <1> DEFINE e == FillRow(s, fill, t)
             U == Trip(R, e)
             new == Position(p.pos[s], Traded(fill), fill.price)
  <1>1. /\ p.pos \in [Series -> Positions] /\ t.pos \in [Series -> Positions]
        /\ p.pos[s] \in Positions /\ t.pos[s] \in Positions
        /\ p.fees \in Int /\ p.funding \in Int
        /\ p.pos[s].qty \in Int /\ p.pos[s].real \in Int /\ t.pos[s].qty \in Int /\ t.pos[s].real \in Int
    BY DEF Accounts, Positions
  <1>2. Traded(fill) \in Int /\ Traded(fill) # 0 /\ fill.price \in Int /\ fill.fee \in Int
        /\ fill.qty \in Nat \ {0}
    BY DEF Traded, Sign, Fills, Sides
  <1>3. /\ t.pos = [p.pos EXCEPT ![s] = new] /\ t.fees = p.fees + fill.fee /\ t.funding = p.funding
    BY DEF Entered
  <1>4. new.qty = p.pos[s].qty + Traded(fill) /\ (p.pos[s].qty = 0 => new.real = p.pos[s].real)
    BY <1>1, <1>2, PositionMoves, OpensAtNoGain
  <1> HIDE DEF new
  <1>5. t.pos[s] = new /\ \A x \in Series \ {s} : t.pos[x] = p.pos[x]
    BY <1>1, <1>3
  <1>6. /\ e.kind = "fill" /\ e.s = s /\ e.fee = fill.fee /\ e.qty = t.pos[s].qty
        /\ e.real = t.pos[s].real
    BY DEF FillRow
  <1>7. e \in Rows
    BY <1>1, <1>2 DEF FillRow, Rows
  <1> HIDE DEF e
  <1>8. U \in TripBooks /\ Tripped(R, e, U)
    BY <1>7, TripMoves
  <1> HIDE DEF U
  <1>9. /\ U.qty[s] = t.pos[s].qty /\ U.real[s] = t.pos[s].real
        /\ U.acc[s] = TripAcc(R, e) /\ U.closed = TripClosed(R, e)
        /\ \A x \in Series \ {s} : U.qty[x] = R.qty[x] /\ U.real[x] = R.real[x] /\ U.acc[x] = R.acc[x]
    BY <1>6, <1>8 DEF Tripped
  <1>10. R.qty[s] = p.pos[s].qty /\ R.real[s] = p.pos[s].real /\ (p.pos[s].qty = 0 => R.acc[s] = 0)
    BY DEF Agrees
  <1>11. R.qty[s] = 0 => R.acc[s] = 0 /\ e.real = R.real[s]
    BY <1>4, <1>5, <1>6, <1>10
  <1>12. /\ U.closed + U.acc[s] = R.closed + R.acc[s] + (t.pos[s].real - p.pos[s].real) - fill.fee
         /\ R.qty[s] # 0 /\ e.qty = 0 => U.acc[s] = 0
    BY <1>6, <1>7, <1>9, <1>10, <1>11, TripEarns
  <1>13. t.pos[s].qty = 0 => U.acc[s] = 0
    <2>1. t.pos[s].qty = 0 => R.qty[s] # 0
      BY <1>1, <1>2, <1>4, <1>5, <1>10
    <2> QED
      BY <1>6, <1>12, <2>1
  <1> DEFINE before == Reals(p.pos)
             after == Reals(t.pos)
  <1>14. /\ before \in [Series -> Int] /\ after \in [Series -> Int]
         /\ before[s] = p.pos[s].real /\ after[s] = t.pos[s].real
         /\ \A x \in Series \ {s} : after[x] = before[x]
    BY <1>1, <1>5 DEF Reals, Positions
  <1>15. R.acc \in [Series -> Int] /\ U.acc \in [Series -> Int] /\ R.closed \in Int /\ U.closed \in Int
    BY <1>8 DEF TripBooks
  <1>16. R.closed + Sum(R.acc) = Sum(before) + p.funding - p.fees
    BY DEF Agrees
  <1> HIDE DEF before, after
  <1>17. /\ Sum(after) = Sum(before) + after[s] - before[s]
         /\ Sum(before) \in Int /\ Sum(after) \in Int
    BY <1>14, SumMoves, SumType
  <1>18. /\ Sum(U.acc) = Sum(R.acc) + U.acc[s] - R.acc[s]
         /\ Sum(R.acc) \in Int /\ Sum(U.acc) \in Int /\ R.acc[s] \in Int /\ U.acc[s] \in Int
    BY <1>9, <1>15, SumMoves, SumType
  <1>19. U.closed + Sum(U.acc) = Sum(after) + t.funding - t.fees
    <2> DEFINE gain == t.pos[s].real - p.pos[s].real
    <2>1. gain \in Int /\ after[s] - before[s] = gain
      BY <1>1, <1>14
    <2>2. U.closed + U.acc[s] = R.closed + R.acc[s] + gain - fill.fee
      BY <1>12
    <2>3. Sum(after) = Sum(before) + gain
      BY <1>14, <1>17, <2>1
    <2> HIDE DEF gain
    <2>4. U.closed + Sum(U.acc) = (R.closed + Sum(R.acc)) + gain - fill.fee
      BY <1>2, <1>15, <1>18, <2>1, <2>2
    <2> QED
      BY <1>1, <1>2, <1>3, <1>15, <1>16, <1>17, <1>18, <2>1, <2>3, <2>4
  <1>20. \A x \in Series : /\ U.qty[x] = t.pos[x].qty /\ U.real[x] = t.pos[x].real
                           /\ t.pos[x].qty = 0 => U.acc[x] = 0
    BY <1>5, <1>9, <1>13 DEF Agrees
  <1>21. Agrees(U, t)
    BY <1>19, <1>20 DEF Agrees, after
  <1> QED
    BY <1>7, <1>21 DEF e, U

\* The flow of a funding reaches the open trip of its series.
LEMMA FlowAgrees ==
    ASSUME NEW k, NEW p \in Accounts({k}), NEW s \in Series, NEW flow \in Int,
           NEW R \in TripBooks, NEW U \in TripBooks, Agrees(R, p), Shifted(R, U, s, flow),
           p.pos[s].qty # 0, NEW t,
           t.pos = p.pos, t.fees = p.fees, t.funding = p.funding + flow
    PROVE  Agrees(U, t)
  <1>1. R.acc \in [Series -> Int] /\ U.acc \in [Series -> Int] /\ R.closed \in Int
    BY DEF TripBooks
  <1>2. /\ U.acc[s] = R.acc[s] + flow /\ U.closed = R.closed
        /\ \A x \in Series \ {s} : U.acc[x] = R.acc[x]
    BY DEF Shifted
  <1>3. /\ Sum(U.acc) = Sum(R.acc) + U.acc[s] - R.acc[s]
        /\ Sum(R.acc) \in Int /\ Sum(U.acc) \in Int /\ R.acc[s] \in Int /\ U.acc[s] \in Int
    BY <1>1, <1>2, SumMoves, SumType
  <1> DEFINE total == Sum(Reals(p.pos))
  <1>4. Reals(p.pos) \in [Series -> Int] /\ p.funding \in Int /\ p.fees \in Int
    BY DEF Reals, Accounts, Positions
  <1>5. total \in Int
    BY <1>4, SumType
  <1>6. R.closed + Sum(R.acc) = total + p.funding - p.fees
    BY DEF Agrees
  <1> HIDE DEF total
  <1>7. U.closed + Sum(U.acc) = total + t.funding - t.fees
    <2>1. Sum(U.acc) = Sum(R.acc) + flow
      BY <1>2, <1>3
    <2>2. t.funding = p.funding + flow /\ t.fees = p.fees
      OBVIOUS
    <2>3. U.closed + Sum(U.acc) = (R.closed + Sum(R.acc)) + flow
      BY <1>1, <1>2, <1>3, <2>1
    <2> QED
      BY <1>4, <1>5, <1>6, <2>2, <2>3
  <1>8. \A x \in Series : /\ U.qty[x] = t.pos[x].qty /\ U.real[x] = t.pos[x].real
                          /\ t.pos[x].qty = 0 => U.acc[x] = 0
    BY <1>2 DEF Agrees, Shifted
  <1> QED
    BY <1>7, <1>8 DEF Agrees, total

-----------------------------------------------------------------------------
(* The round trips, from step to step.                                     *)

\* The rows of an instant so far, and the round trips with them.
Lines == [funding : Seq(Rows), fills : Seq(Rows)]
OfFills(l) == \A i \in DOMAIN l.fills : l.fills[i].kind = "fill"
Follows(r, l, p) == Replayed(r, l).mixed \/ Mixed(l) \/ Agrees(Replayed(r, l), p)
Carried ==
    /\ trips \in TripBooks /\ line \in Lines /\ OfFills(line)
    /\ at = 0 => line = NoRows
    /\ Follows(trips, line, pf)

LEMMA ReplayedType ==
    ASSUME NEW r \in TripBooks, NEW l \in Lines
    PROVE  /\ Replayed(r, l) \in TripBooks /\ Folded(r, l.funding) \in TripBooks
           /\ Replayed(r, l) = Folded(Folded(r, l.funding), l.fills)
  <1>1. l.funding \in Seq(Rows) /\ l.fills \in Seq(Rows)
    BY DEF Lines
  <1>2. Replayed(r, l) = Folded(Folded(r, l.funding), l.fills)
    BY Zenon DEF Replayed, Folded
  <1>3. Folded(r, l.funding) \in TripBooks
    BY <1>1, FoldedType
  <1>4. Folded(Folded(r, l.funding), l.fills) \in TripBooks
    BY <1>1, <1>3, FoldedType
  <1> QED
    BY <1>2, <1>3, <1>4

\* A fill's row comes last; a funding's comes before the fills of its instant.
LEMMA FillRowAdded ==
    ASSUME NEW r \in TripBooks, NEW l \in Lines, OfFills(l), NEW e \in Rows, e.kind = "fill"
    PROVE  LET w == WithFill(l, e) IN
           /\ w \in Lines /\ OfFills(w) /\ Replayed(r, w) = Trip(Replayed(r, l), e)
           /\ Mixed(l) => Mixed(w)
  <1> DEFINE q == Append(l.fills, e)
             w == [l EXCEPT !.fills = q]
  <1>1. l.funding \in Seq(Rows) /\ l.fills \in Seq(Rows)
    BY DEF Lines
  <1>2. q \in Seq(Rows) /\ Len(q) = Len(l.fills) + 1 /\ DOMAIN q = 1 .. (Len(l.fills) + 1)
        /\ q[Len(l.fills) + 1] = e /\ \A i \in DOMAIN l.fills : i \in DOMAIN q /\ q[i] = l.fills[i]
    BY <1>1
  <1>3. Folded(Folded(r, l.funding), q) = Trip(Replayed(r, l), e)
    BY <1>1, ReplayedType, FoldedOneMore
  <1> HIDE DEF q
  <1>4. w \in Lines /\ w.funding = l.funding /\ w.fills = q
    BY <1>2 DEF Lines
  <1>5. WithFill(l, e) = w
    BY DEF WithFill, q, Lines
  <1> HIDE DEF w
  <1>6. OfFills(w)
    <2>1. \A i \in DOMAIN q : i \in DOMAIN l.fills \/ i = Len(l.fills) + 1
      BY <1>1, <1>2
    <2>2. \A i \in DOMAIN q : q[i].kind = "fill"
      BY <1>2, <2>1 DEF OfFills
    <2> QED
      BY <1>4, <2>2 DEF OfFills
  <1>7. Mixed(l) => Mixed(w)
    BY <1>2, <1>4 DEF Mixed
  <1>8. Replayed(r, w) = Trip(Replayed(r, l), e)
    BY <1>3, <1>4, ReplayedType
  <1> QED
    BY <1>4, <1>5, <1>6, <1>7, <1>8

WithFunding(l, e) == [l EXCEPT !.funding = Append(@, e)]

LEMMA FundingRowAdded ==
    ASSUME NEW r \in TripBooks, NEW l \in Lines, OfFills(l), NEW e \in Rows, e.kind = "funding",
           NEW w, w = WithFunding(l, e)
    PROVE  /\ w \in Lines /\ OfFills(w) /\ (Mixed(l) => Mixed(w))
           /\ ~Mixed(w) /\ Replayed(r, l).qty[e.s] # 0
                => Shifted(Replayed(r, l), Replayed(r, w), e.s, e.amount)
           /\ \/ Mixed(w)
              \/ Replayed(r, w).mixed = Replayed(r, l).mixed
  <1> DEFINE q == Append(l.funding, e)
             s == e.s
             A == Folded(r, l.funding)
             B == Trip(A, e)
  <1>1. l.funding \in Seq(Rows) /\ l.fills \in Seq(Rows) /\ s \in Series /\ e.amount \in Int
    BY DEF Lines, Rows
  <1>2. q \in Seq(Rows) /\ Len(l.funding) + 1 \in DOMAIN q
        /\ q[Len(l.funding) + 1] = e /\ \A i \in DOMAIN l.funding : i \in DOMAIN q /\ q[i] = l.funding[i]
    BY <1>1
  <1>3. A \in TripBooks /\ B \in TripBooks /\ Tripped(A, e, B) /\ Folded(r, q) = B
    BY <1>1, FoldedType, TripMoves, FoldedOneMore
  <1>4. Replayed(r, l) = Folded(A, l.fills)
    BY ReplayedType
  <1> HIDE DEF q, A, B
  <1>5. w \in Lines /\ w.funding = q /\ w.fills = l.fills
    BY <1>2 DEF Lines, WithFunding, q
  <1>6. Replayed(r, w) = Folded(B, l.fills)
    BY <1>3, <1>5, ReplayedType
  <1>7. OfFills(w) /\ (Mixed(l) => Mixed(w))
    BY <1>2, <1>5 DEF OfFills, Mixed
  <1>8. ASSUME ~Mixed(w) PROVE OtherFills(l.fills, s)
    <2> SUFFICES ASSUME NEW j \in DOMAIN l.fills PROVE l.fills[j].kind = "fill" /\ l.fills[j].s # s
      BY DEF OtherFills
    <2>1. ~(w.funding[Len(l.funding) + 1].s = w.fills[j].s)
      BY <1>2, <1>5, <1>8 DEF Mixed
    <2> QED
      BY <1>2, <1>5, <2>1 DEF OfFills
  <1> DEFINE x == IF A.qty[s] = 0 THEN 0 ELSE e.amount
  <1>9. Shifted(A, B, s, x)
    <2>1. /\ B.mixed = A.mixed /\ B.closed = A.closed /\ B.qty = A.qty /\ B.real = A.real
          /\ B.acc[s] = IF A.qty[s] = 0 THEN A.acc[s] ELSE A.acc[s] + e.amount
          /\ \A y \in Series \ {s} : B.acc[y] = A.acc[y]
      BY <1>3 DEF Tripped
    <2>2. A.acc[s] \in Int
      BY <1>1, <1>3 DEF TripBooks
    <2>3. B.acc[s] = A.acc[s] + x
      BY <1>1, <2>1, <2>2
    <2> HIDE DEF x
    <2> QED
      BY <2>1, <2>3 DEF Shifted
  <1> HIDE DEF x
  <1>10. ASSUME ~Mixed(w)
         PROVE  /\ Shifted(Replayed(r, l), Replayed(r, w), s, x)
                /\ Replayed(r, l).qty[s] = A.qty[s]
    BY <1>1, <1>3, <1>4, <1>6, <1>8, <1>9, <1>10, ShiftedFold
  <1>11. ~Mixed(w) => Replayed(r, w).mixed = Replayed(r, l).mixed
    BY <1>10 DEF Shifted
  <1>12. ~Mixed(w) /\ Replayed(r, l).qty[s] # 0
             => Shifted(Replayed(r, l), Replayed(r, w), s, e.amount)
    BY <1>10 DEF x
  <1> QED
    BY <1>5, <1>7, <1>11, <1>12

LEMMA NoRowsReplayed ==
    ASSUME NEW r \in TripBooks
    PROVE  Replayed(r, NoRows) = r /\ NoRows \in Lines /\ OfFills(NoRows) /\ ~Mixed(NoRows)
  <1>1. NoRows.funding = <<>> /\ NoRows.fills = <<>>
    BY DEF NoRows
  <1>2. NoRows \in Lines
    BY DEF NoRows, Lines
  <1>3. Replayed(r, NoRows) = r
    BY <1>1, <1>2, ReplayedType, FoldedNone
  <1>4. OfFills(NoRows) /\ ~Mixed(NoRows)
    BY <1>1 DEF OfFills, Mixed
  <1> QED
    BY <1>2, <1>3, <1>4

\* The books and the account are those of the same ledger.
LEMMA AgreesSame ==
    ASSUME NEW R, NEW p, NEW t, SameLedger(p, t), Agrees(R, p)
    PROVE  Agrees(R, t)
  BY DEF SameLedger, Agrees

\* What holds of the rows after a step within the instant.
CarriesRows == trips \in TripBooks /\ line' \in Lines /\ OfFills(line') /\ Follows(trips, line', pf')

LEMMA StillCarried ==
    ASSUME Carried, SameLedger(pf, pf'), line' = line
    PROVE  CarriesRows
  <1>1. Agrees(Replayed(trips, line), pf) => Agrees(Replayed(trips, line), pf')
    BY AgreesSame
  <1> QED
    BY <1>1 DEF Carried, CarriesRows, Follows

LEMMA PassCarries ==
    ASSUME IInv, Carried, NEW s \in Series, NEW k, NEW from \in Accounts({k}),
           SameLedger(pf, from), NEW r,
           Passed(book[s], [series |-> s, pf |-> from], r), Handle(s, from, r)
    PROVE  CarriesRows
  <1>1. book \in [Series -> Books] /\ Alone(book[s])
    BY DEF IInv, Typed
  <1>2. Idle(from) \/ \E fill \in Fills : Trades(s, from, fill)
    BY <1>1, PassTrades
  <1>3. CASE Idle(from)
    BY <1>3, StillCarried DEF Idle
  <1>4. ASSUME NEW fill \in Fills, Trades(s, from, fill) PROVE CarriesRows
    <2> DEFINE e == FillRow(s, fill, pf')
               R == Replayed(trips, line)
    <2>1. pf' = ApplyFill(from, s, fill) /\ fill.qty > 0 /\ line' = WithFill(line, e)
      BY <1>4 DEF Trades
    <2>2. Entered(from, s, fill, pf') /\ pf' \in Accounts({k})
      BY <2>1, FillEntered, FillApplied
    <2>3. /\ trips \in TripBooks /\ line \in Lines /\ OfFills(line) /\ R \in TripBooks
          /\ (R.mixed \/ Mixed(line) \/ Agrees(R, pf))
      BY ReplayedType DEF Carried, Follows
    <2>4. e \in Rows /\ e.kind = "fill"
      <3>1. pf'.pos[s].qty \in Int /\ pf'.pos[s].real \in Int
        BY <2>2 DEF Accounts, Positions
      <3> QED
        BY <2>1, <3>1 DEF FillRow, Rows, Fills
    <2>5. Agrees(R, pf) => Agrees(Trip(R, e), pf')
      <3>1. Agrees(R, pf) => Agrees(R, from)
        BY AgreesSame
      <3> HIDE DEF R
      <3> QED
        BY <2>1, <2>2, <2>3, <3>1, FillAgrees
    <2> HIDE DEF e
    <2>6. /\ line' \in Lines /\ OfFills(line') /\ Replayed(trips, line') = Trip(R, e)
          /\ Mixed(line) => Mixed(line')
      BY <2>1, <2>3, <2>4, FillRowAdded
    <2>7. Trip(R, e).mixed = R.mixed
      <3>1. Tripped(R, e, Trip(R, e))
        BY <2>3, <2>4, TripMoves
      <3> QED
        BY <3>1, Zenon DEF Tripped
    <2> HIDE DEF R
    <2>8. Follows(trips, line', pf')
      BY <2>3, <2>5, <2>6, <2>7 DEF Follows
    <2> QED
      BY <2>3, <2>6, <2>8 DEF CarriesRows
  <1> QED
    BY <1>2, <1>3, <1>4

LEMMA FundCarries ==
    ASSUME IInv, Carried, NEW s \in Series, Fund(s)
    PROVE  CarriesRows
  <1>1. PICK rate \in Rates :
          LET flow == -(pf.pos[s].qty * pf.mark[s] * rate) \div RateUnit
          IN  /\ Funded(flow)
              /\ line' = IF flow = 0 THEN line
                         ELSE [line EXCEPT !.funding =
                                Append(@, [kind |-> "funding", s |-> s, amount |-> flow, fee |-> 0,
                                           size |-> 1, qty |-> 0, real |-> 0])]
    BY FundMoves
  <1> DEFINE flow == -(pf.pos[s].qty * pf.mark[s] * rate) \div RateUnit
             e == [kind |-> "funding", s |-> s, amount |-> flow, fee |-> 0,
                   size |-> 1, qty |-> 0, real |-> 0]
  <1>2. flow \in Int /\ Funded(flow) /\ line' = (IF flow = 0 THEN line ELSE WithFunding(line, e))
    BY <1>1, FlowType DEF WithFunding
  <1>3. flow # 0 => pf.pos[s].qty # 0
    <2> SUFFICES ASSUME pf.pos[s].qty = 0 PROVE flow = 0
      OBVIOUS
    <2>1. pf.mark[s] \in Int /\ rate \in Int /\ RateUnit \in Nat \ {0}
      BY Charges DEF IInv, Typed, Accounts
    <2>2. 0 * pf.mark[s] * rate = 0
      BY <2>1
    <2> DEFINE product == pf.pos[s].qty * pf.mark[s] * rate
    <2>3. product = 0
      BY <2>2
    <2> HIDE DEF product
    <2>4. product \div RateUnit = 0 /\ (-product) \div RateUnit = 0
      BY <2>1, <2>3
    <2>5. -(product \div RateUnit) = 0
      BY <2>4
    <2> QED
      BY <2>4, <2>5 DEF product
  <1> HIDE DEF flow
  <1>4. e \in Rows /\ e.kind = "funding" /\ e.s = s /\ e.amount = flow
    BY <1>2 DEF Rows
  <1> HIDE DEF e
  <1>5. pf \in Accounts({pf.peak})
    BY DEF IInv, Typed
  <1>6. /\ pf'.pos = pf.pos /\ pf'.fees = pf.fees /\ pf'.cash = pf.cash + flow
        /\ pf'.funding = pf.funding + flow
    BY <1>2 DEF Funded
  <1>7. CASE flow = 0
    <2>1. pf.cash \in Int /\ pf.funding \in Int
      BY <1>5 DEF Accounts
    <2>2. SameLedger(pf, pf')
      BY <1>6, <1>7, <2>1 DEF SameLedger
    <2> QED
      BY <1>2, <1>7, <2>2, StillCarried
  <1>8. CASE flow # 0
    <2> DEFINE R == Replayed(trips, line)
               U == Replayed(trips, line')
    <2>1. /\ trips \in TripBooks /\ line \in Lines /\ OfFills(line) /\ R \in TripBooks
          /\ (R.mixed \/ Mixed(line) \/ Agrees(R, pf))
      BY ReplayedType DEF Carried, Follows
    <2>2. line' = WithFunding(line, e)
      BY <1>2, <1>8
    <2>3. /\ line' \in Lines /\ OfFills(line') /\ (Mixed(line) => Mixed(line'))
          /\ ~Mixed(line') /\ R.qty[s] # 0 => Shifted(R, U, s, flow)
          /\ (Mixed(line') \/ U.mixed = R.mixed)
      BY <1>4, <2>1, <2>2, FundingRowAdded
    <2>4. U \in TripBooks
      BY <2>1, <2>3, ReplayedType
    <2> HIDE DEF R, U
    <2>5. Agrees(R, pf) /\ ~Mixed(line') => Agrees(U, pf')
      <3> SUFFICES ASSUME Agrees(R, pf), ~Mixed(line') PROVE Agrees(U, pf')
        OBVIOUS
      <3>1. R.qty[s] # 0 /\ pf.pos[s].qty # 0
        BY <1>3, <1>8 DEF Agrees
      <3>2. Shifted(R, U, s, flow)
        BY <2>3, <3>1
      <3> QED
        BY <1>2, <1>5, <1>6, <2>1, <2>4, <3>1, <3>2, FlowAgrees
    <2>6. Follows(trips, line', pf')
      BY <2>1, <2>3, <2>5 DEF Follows, R, U
    <2> QED
      BY <2>1, <2>3, <2>6 DEF CarriesRows
  <1> QED
    BY <1>7, <1>8

LEMMA TurnIsLater ==
    ASSUME NEW s \in Series, NEW priority \in 1 .. 5, Turn(priority, s)
    PROVE  at' # 0
  <1>1. at' = (NSeries + 1) * priority + s
    BY DEF Turn, Code
  <1>2. s \in 1 .. NSeries /\ NSeries \in Nat
    BY SeriesCount DEF Series
  <1>3. priority = 1 \/ priority = 2 \/ priority = 3 \/ priority = 4 \/ priority = 5
    OBVIOUS
  <1> QED
    BY <1>1, <1>2, <1>3

LEMMA WithinInstant ==
    ASSUME CarriesRows, trips' = trips, at' # 0
    PROVE  Carried'
  BY DEF CarriesRows, Carried, Follows

LEMMA CompleteBarCarries ==
    ASSUME IInv, Carried, NEW s \in Series, CompleteBar(s)
    PROVE  Carried'
  <1>1. PICK low \in Prices, high \in Prices :
            Handle(s, pf, Broker!ProcessBar(book[s], [series |-> s, pf |-> pf], low, high, now))
    BY DEF CompleteBar
  <1> DEFINE r == Broker!ProcessBar(book[s], [series |-> s, pf |-> pf], low, high, now)
  <1>2. /\ now \in 0 .. MaxTime + 1 /\ book[s] \in Books /\ Alone(book[s])
        /\ pf \in Accounts({pf.peak})
    BY DEF IInv, TypeOK, Typed
  <1>3. Passed(book[s], [series |-> s, pf |-> pf], r)
    BY <1>2, BarPasses, PricesAreInts
  <1>4. SameLedger(pf, pf)
    BY DEF SameLedger
  <1> HIDE DEF r
  <1>5. Handle(s, pf, r)
    BY <1>1 DEF r
  <1>6. CarriesRows
    BY <1>2, <1>3, <1>4, <1>5, PassCarries
  <1>7. Turn(1, s) /\ trips' = trips
    BY DEF CompleteBar
  <1>8. at' # 0
    BY <1>7, TurnIsLater
  <1> QED
    BY <1>6, <1>7, <1>8, WithinInstant

LEMMA OpenBarCarries ==
    ASSUME IInv, Carried, NEW s \in Series, OpenBar(s)
    PROVE  Carried'
  <1>1. PICK open \in Prices :
            Handle(s, SetMark(pf, s, open),
                Broker!ProcessOpen(book[s], [series |-> s, pf |-> SetMark(pf, s, open)], open, now))
    BY DEF OpenBar
  <1> DEFINE from == SetMark(pf, s, open)
             r == Broker!ProcessOpen(book[s], [series |-> s, pf |-> from], open, now)
  <1>2. /\ now \in 0 .. MaxTime + 1 /\ book[s] \in Books /\ Alone(book[s])
        /\ pf \in Accounts({pf.peak})
    BY DEF IInv, TypeOK, Typed
  <1>3. open \in Int
    BY PricesAreInts
  <1>4. Passed(book[s], [series |-> s, pf |-> from], r)
    BY <1>2, <1>3, OpenPasses
  <1>5. from \in Accounts({pf.peak})
    BY <1>2, <1>3, MarkParts
  <1>6. SameLedger(pf, from)
    BY <1>2 DEF SetMark, Shot, SameLedger, Accounts
  <1> HIDE DEF r, from
  <1>7. Handle(s, from, r)
    BY <1>1 DEF r, from
  <1>8. CarriesRows
    BY <1>4, <1>5, <1>6, <1>7, PassCarries
  <1>9. Turn(5, s) /\ trips' = trips
    BY DEF OpenBar
  <1>10. at' # 0
    BY <1>9, TurnIsLater
  <1> QED
    BY <1>8, <1>9, <1>10, WithinInstant

LEMMA QuietCarries ==
    ASSUME IInv, Carried, NEW s \in Series, MarkClose(s) \/ Fund(s) \/ Signal(s)
    PROVE  Carried'
  <1>1. pf \in Accounts({pf.peak})
    BY DEF IInv, Typed
  <1>2. CASE Fund(s)
    <2>1. Turn(3, s) /\ trips' = trips
      BY <1>2 DEF Fund
    <2> QED
      BY <1>2, <2>1, TurnIsLater, FundCarries, WithinInstant
  <1>3. CASE MarkClose(s)
    <2>1. Turn(2, s) /\ trips' = trips /\ line' = line /\ pf' = SetMark(pf, s, closing[s])
      BY <1>3 DEF MarkClose
    <2>2. SameLedger(pf, pf')
      BY <1>1, <2>1 DEF SetMark, Shot, SameLedger, Accounts
    <2> QED
      BY <2>1, <2>2, TurnIsLater, StillCarried, WithinInstant
  <1>4. CASE Signal(s)
    <2>1. Turn(4, s) /\ trips' = trips /\ line' = line /\ pf' = pf
      BY <1>4 DEF Signal
    <2>2. SameLedger(pf, pf')
      BY <2>1 DEF SameLedger
    <2> QED
      BY <2>1, <2>2, TurnIsLater, StillCarried, WithinInstant
  <1> QED
    BY <1>2, <1>3, <1>4

\* The end of an instant replays its rows.
LEMMA EndCarries ==
    ASSUME IInv, Carried, EndInstant
    PROVE  Carried'
  <1> DEFINE R == Replayed(trips, line)
             mixed == R.mixed \/ Mixed(line)
  <1>1. PICK peak : pf' = [pf EXCEPT !.peak = peak]
    BY DEF EndInstant
  <1>2. pf \in Accounts({pf.peak})
    BY DEF IInv, Typed
  <1>3. SameLedger(pf, pf')
    BY <1>1, <1>2 DEF SameLedger, Accounts
  <1>4. R \in TripBooks /\ (R.mixed \/ Mixed(line) \/ Agrees(R, pf))
    BY ReplayedType DEF Carried, Follows
  <1>5. trips' = [R EXCEPT !.mixed = @ \/ Mixed(line)] /\ line' = NoRows
    BY DEF EndInstant
  <1>6. mixed \in BOOLEAN
    <2>1. R.mixed \in BOOLEAN
      BY <1>4 DEF TripBooks
    <2>2. Mixed(line) \in BOOLEAN
      BY DEF Mixed
    <2> QED
      BY <2>1, <2>2
  <1> HIDE DEF R
  <1>7. trips' = [R EXCEPT !.mixed = mixed]
    BY <1>5 DEF TripBooks
  <1> HIDE DEF mixed
  <1>8. /\ trips' \in TripBooks /\ trips'.mixed = mixed /\ trips'.qty = R.qty /\ trips'.real = R.real
        /\ trips'.acc = R.acc /\ trips'.closed = R.closed
    BY <1>4, <1>6, <1>7 DEF TripBooks
  <1>9. Agrees(R, pf) => Agrees(trips', pf')
    <2>1. Agrees(R, pf) => Agrees(trips', pf)
      BY <1>8 DEF Agrees
    <2> QED
      BY <1>3, <2>1, AgreesSame
  <1>10. mixed <=> R.mixed \/ Mixed(line)
    BY DEF mixed
  <1>11. Replayed(trips', NoRows) = trips' /\ NoRows \in Lines /\ OfFills(NoRows)
    BY <1>8, NoRowsReplayed
  <1>12. trips'.mixed \/ Agrees(trips', pf')
    BY <1>4, <1>8, <1>9, <1>10
  <1>13. Follows(trips', line', pf')
    BY <1>5, <1>11, <1>12 DEF Follows
  <1> QED
    BY <1>5, <1>8, <1>11, <1>13 DEF Carried

LEMMA StepKeepsCarried ==
    ASSUME IInv, Carried, [Next]_vars
    PROVE  Carried'
  <1>1. ASSUME NEW s \in Series,
               CompleteBar(s) \/ MarkClose(s) \/ Fund(s) \/ Signal(s) \/ OpenBar(s)
        PROVE  Carried'
    BY <1>1, CompleteBarCarries, OpenBarCarries, QuietCarries
  <1>2. CASE EndInstant
    BY <1>2, EndCarries
  <1>3. CASE Finish
    BY <1>3 DEF Finish, Carried, Follows
  <1>4. CASE UNCHANGED vars
    BY <1>4 DEF vars, Carried, Follows
  <1> QED
    BY <1>1, <1>2, <1>3, <1>4 DEF Next

LEMMA InitCarried ==
    ASSUME Init
    PROVE  Carried
  <1> DEFINE zero == [s \in Series |-> 0]
  <1>1. /\ trips = [qty |-> zero, real |-> zero, acc |-> zero, closed |-> 0, mixed |-> FALSE]
        /\ line = NoRows
        /\ pf.pos = [s \in Series |-> Flat] /\ pf.fees = 0 /\ pf.funding = 0
    BY DEF Init
  <1>2. trips \in TripBooks
    BY <1>1 DEF TripBooks
  <1>3. Replayed(trips, line) = trips /\ line \in Lines /\ OfFills(line)
    BY <1>1, <1>2, NoRowsReplayed
  <1>4. Reals(pf.pos) = zero
    BY <1>1 DEF Reals, Flat
  <1>5. Sum(zero) = 0
    BY SumZero
  <1> HIDE DEF zero
  <1>6. trips.closed + Sum(trips.acc) = Sum(Reals(pf.pos)) + pf.funding - pf.fees
    BY <1>1, <1>4, <1>5
  <1>7. \A s \in Series : /\ trips.qty[s] = pf.pos[s].qty /\ trips.real[s] = pf.pos[s].real
                          /\ pf.pos[s].qty = 0 => trips.acc[s] = 0
    BY <1>1 DEF zero, Flat
  <1>8. Agrees(trips, pf)
    BY <1>6, <1>7 DEF Agrees
  <1> QED
    BY <1>1, <1>2, <1>3, <1>8 DEF Carried, Follows

LEMMA CarriedGives ==
    ASSUME Carried
    PROVE  TripsCarryAll
  <1> SUFFICES ASSUME at = 0, ~trips.mixed
               PROVE  /\ trips.closed + Sum(trips.acc)
                            = Sum([s \in Series |-> pf.pos[s].real]) + pf.funding - pf.fees
                      /\ \A s \in Series : pf.pos[s].qty = 0 => trips.acc[s] = 0
    BY DEF TripsCarryAll
  <1>1. trips \in TripBooks /\ line = NoRows /\ Follows(trips, line, pf)
    BY DEF Carried
  <1>2. Agrees(trips, pf)
    BY <1>1, NoRowsReplayed DEF Follows
  <1> QED
    BY <1>2 DEF Agrees, Reals

\* Round trips carry all that the positions earned, for any series, prices, fees and
\* rates: partial closes and reversals split a fee between two trips, and the pieces
\* add up again (metrics.py, _round_trip_pnls).
THEOREM RoundTripsCarryAll == Spec => []TripsCarryAll
  <1>1. Init => IInv /\ Carried
    BY InitGives, InitCarried
  <1>2. IInv /\ Carried /\ [Next]_vars => (IInv /\ Carried)'
    BY NextKeeps, StutterKeeps, StepKeepsCarried
  <1>3. Carried => TripsCarryAll
    BY CarriedGives
  <1> QED
    BY <1>1, <1>2, <1>3, PTL DEF Spec

\* A run that rounds no average price keeps the whole account sound: its types, the
\* reconciliation of the equity and the round trips.
THEOREM ExactRunsAreSound ==
    Spec /\ [][~Rounds]_vars => []AccountSound
  <1>1. TypeOK /\ EquityReconciles /\ TripsCarryAll => AccountSound
    BY DEF AccountSound
  <1> QED
    BY <1>1, TypeCorrect, ExactRunsReconcile, RoundTripsCarryAll, PTL

\* Strategies of a fixed size round none, so their account is sound in every run.
THEOREM FixedSizesAreSound ==
    ASSUME FixedSizes
    PROVE  Spec => []AccountSound
  BY FixedSizesAreExact, ExactRunsAreSound, PTL

-----------------------------------------------------------------------------
(* No order meets a price it cannot trade at.                              *)

\* The prices of the request stay positive under the strategies' offsets and the
\* slippage, which Decimal prices of real instruments do.
PositivePrices ==
    \A p \in Prices, c \in Configurations :
        c.offset < 10000 /\ c.limit < 10000 /\ Slip < p - (p * c.offset) \div 10000

\* An order whose own prices the broker can fill at.
Sane(o) ==
    /\ o.type \in {"market", "stop"} => o.limit = NoPrice
    /\ o.type = "stop" => o.stop > 0 /\ (o.side = "sell" => o.stop > Slip)
    /\ o.type \in {"limit", "stop_limit"} => o.limit > 0
AllSane(b) == \A i \in Active(b) : Sane(b[i])
Workable == \A s \in Series : AllSane(book[s])

SameTerms(x, y) == x.side = y.side /\ x.type = y.type /\ x.limit = y.limit /\ x.stop = y.stop
\* Nothing is raised and orders keep their terms.
Calm(r, t) == ~t.raised /\ \A j \in Ids : SameTerms(t.book[j], r.book[j])

LEMMA CalmTwice ==
    ASSUME NEW r, NEW u, NEW t, Calm(r, u), Calm(u, t)
    PROVE  Calm(r, t)
  BY DEF Calm, SameTerms

LEMMA SettledCalm ==
    ASSUME NEW a, NEW r \in Results(a), NEW i \in Ids, NEW st \in OrderStates, ~r.raised
    PROVE  Calm(r, Broker!Settled(r, i, st))
  <1> DEFINE order == [r.book[i] EXCEPT !.st = st]
             b == [r.book EXCEPT ![i] = order]
             u == Append(r.upd, <<i, st>>)
             t == [r EXCEPT !.book = b, !.upd = u]
  <1>1. r.book \in [Ids -> Tickets] /\ r.book[i] \in Tickets
    BY DEF Results, Books
  <1>2. SameTerms(order, r.book[i])
    BY <1>1 DEF Tickets, SameTerms
  <1>3. b[i] = order /\ \A j \in Ids \ {i} : b[j] = r.book[j]
    BY <1>1
  <1>4. Broker!Settled(r, i, st) = t
    BY DEF Broker!Settled, Results
  <1> HIDE DEF b, u, order
  <1>5. t.book = b /\ ~t.raised
    BY DEF Results
  <1> HIDE DEF t
  <1>6. \A j \in Ids : SameTerms(t.book[j], r.book[j])
    BY <1>2, <1>3, <1>5 DEF SameTerms
  <1> QED
    BY <1>4, <1>5, <1>6 DEF Calm

LEMMA FilledCalm ==
    ASSUME NEW a, NEW r \in Results(a), NEW i \in Ids, NEW fill, ~r.raised
    PROVE  Calm(r, Filled(r, i, fill))
  <1> DEFINE u == Broker!Settled(r, i, "filled")
  <1>1. "filled" \in OrderStates
    BY DEF OrderStates
  <1>2. Calm(r, u) /\ u \in Results(a)
    BY <1>1, SettledCalm, SettledParts
  <1> HIDE DEF u
  <1>3. Filled(r, i, fill).book = u.book /\ Filled(r, i, fill).raised = u.raised
    BY <1>2 DEF Filled, u, Results
  <1> QED
    BY <1>2, <1>3 DEF Calm

\* An order fills or is rejected by the risk guard, when its price is one it accepts.
Tradable(order, price) == price > 0 /\ (order.limit # NoPrice => Broker!Reaches(order, price))

LEMMA FillCalm ==
    ASSUME NEW a, NEW r \in Results(a), NEW i \in Ids, NEW base,
           NEW taker \in BOOLEAN, NEW slips \in BOOLEAN, ~r.raised,
           NEW price \in Int,
           price = IF slips THEN Broker!SlippedPrice(r.book[i].side, base) ELSE base,
           Tradable(r.book[i], price)
    PROVE  Calm(r, Broker!FillOrder(r, i, base, taker, slips))
  <1> DEFINE order == r.book[i]
             fee == Broker!FeeOf(price, order.qty, taker)
             fill == [id |-> i, side |-> order.side, qty |-> order.qty, price |-> price,
                      fee |-> fee, taker |-> taker]
             applied == AppliedLater(r.acct, i, fill)
             t == Broker!FillOrder(r, i, base, taker, slips)
  <1>1. t = IF price <= 0 \/ (order.limit # Broker!NoPrice /\ ~Broker!Reaches(order, price))
            THEN Raises(r)
            ELSE IF ~PreFillRisk(r.acct, r.book, i, price, fee) THEN Broker!Settled(r, i, "rejected")
            ELSE IF ~applied.ok THEN [r EXCEPT !.raised = TRUE, !.acct = applied.acct]
            ELSE [Broker!Settled(r, i, "filled") EXCEPT !.acct = applied.acct,
                                                        !.fills = Append(@, fill)]
    BY Zenon DEF Broker!FillOrder, Raises
  <1>2. applied.ok /\ applied.acct = r.acct
    BY DEF AppliedLater
  <1>3. ~(price <= 0 \/ (order.limit # Broker!NoPrice /\ ~Broker!Reaches(order, price)))
    BY DEF Tradable, Broker!NoPrice, NoPrice
  <1>4. "rejected" \in OrderStates
    BY DEF OrderStates
  <1> HIDE DEF fee, applied, fill, order
  <1>5. t = Broker!Settled(r, i, "rejected") \/ t = Filled(r, i, fill)
    BY <1>1, <1>2, <1>3, Zenon DEF Filled
  <1> HIDE DEF t
  <1>6. Calm(r, t)
    <2>1. CASE t = Broker!Settled(r, i, "rejected")
      BY <1>4, <2>1, SettledCalm
    <2>2. CASE t = Filled(r, i, fill)
      BY <2>2, FilledCalm
    <2> QED
      BY <1>5, <2>1, <2>2
  <1> QED
    BY <1>6 DEF t

\* The slipped price of an order is positive where the price is more than the slippage.
LEMMA SlippedPositive ==
    ASSUME NEW side \in Sides, NEW base \in Int, base > 0, side = "sell" => base > Slip
    PROVE  Broker!SlippedPrice(side, base) \in Int /\ Broker!SlippedPrice(side, base) > 0
  <1>1. Slip \in Nat
    BY Quotes
  <1>2. CASE side = "buy"
    BY <1>1, <1>2 DEF Broker!SlippedPrice
  <1>3. CASE side = "sell"
    BY <1>1, <1>3 DEF Broker!SlippedPrice
  <1> QED
    BY <1>2, <1>3 DEF Sides

LEMMA OpenCalm ==
    ASSUME NEW a, NEW r \in Results(a), NEW i \in Ids, NEW open \in Int,
           open > 0, open > Slip, Sane(r.book[i]), ~r.raised
    PROVE  Calm(r, Broker!OpenOrder(r, i, open))
  <1> DEFINE t == Broker!OpenOrder(r, i, open)
             u == Broker!Settled(r, i, "triggered")
             e == Broker!Settled(r, i, "expired")
             o == r.book[i]
             slipped == Broker!SlippedPrice(o.side, open)
             working == o.type = "limit" \/ (o.type = "stop_limit" /\ o.st = "triggered")
  <1>1. o \in Tickets /\ o.side \in Sides /\ o.limit \in Int
    BY DEF Results, Books, Tickets
  <1>2. "triggered" \in OrderStates /\ "expired" \in OrderStates
    BY DEF OrderStates
  <1>3. slipped \in Int /\ slipped > 0
    BY <1>1, SlippedPositive
  <1>4. Calm(r, r) /\ Calm(r, e) /\ Calm(r, u) /\ u \in Results(a) /\ ~u.raised
    <2>1. Calm(r, r)
      BY DEF Calm, SameTerms
    <2>2. Calm(r, e) /\ Calm(r, u) /\ u \in Results(a)
      BY <1>2, SettledCalm, SettledParts
    <2> QED
      BY <2>1, <2>2 DEF Calm
  <1>5. Calm(u, u) /\ Calm(u, Broker!Settled(u, i, "expired")) /\ SameTerms(u.book[i], o)
    <2>1. Calm(u, u)
      BY <1>4 DEF Calm, SameTerms
    <2>2. Calm(u, Broker!Settled(u, i, "expired"))
      BY <1>2, <1>4, SettledCalm
    <2>3. SameTerms(u.book[i], o)
      BY <1>4, Zenon DEF Calm
    <2> QED
      BY <2>1, <2>2, <2>3
  <1>6. ASSUME o.type \in {"market", "stop"}
        PROVE  Calm(r, Broker!FillOrder(r, i, open, TRUE, TRUE))
    <2>1. o.limit = NoPrice
      BY <1>6 DEF Sane
    <2>2. Tradable(o, slipped)
      BY <1>3, <2>1 DEF Tradable
    <2> HIDE DEF slipped
    <2>3. slipped = IF TRUE THEN Broker!SlippedPrice(r.book[i].side, open) ELSE open
      BY DEF slipped
    <2> QED
      BY <1>3, <2>2, <2>3, FillCalm
  <1>7. ASSUME Broker!Reaches(o, open)
        PROVE  Calm(r, Broker!FillOrder(r, i, open, FALSE, FALSE))
    <2>1. Tradable(o, open)
      BY <1>7 DEF Tradable
    <2> QED
      BY <2>1, FillCalm
  <1>8. ASSUME Broker!Reaches(o, open)
        PROVE  Calm(u, Broker!FillOrder(u, i, open, TRUE, FALSE))
    <2>1. Broker!Reaches(u.book[i], open)
      BY <1>5, <1>8 DEF Broker!Reaches, SameTerms
    <2>2. Tradable(u.book[i], open)
      BY <2>1 DEF Tradable
    <2> HIDE DEF u
    <2> QED
      BY <1>4, <2>2, FillCalm
  <1>9. t \in {r, e} \/ (t = Broker!FillOrder(r, i, open, TRUE, TRUE) /\ o.type \in {"market", "stop"})
        \/ (t = Broker!FillOrder(r, i, open, FALSE, FALSE) /\ Broker!Reaches(o, open))
        \/ t \in {u, Broker!Settled(u, i, "expired")}
        \/ (t = Broker!FillOrder(u, i, open, TRUE, FALSE) /\ Broker!Reaches(o, open))
    <2>1. CASE o.type = "market"
      BY <2>1, Zenon DEF Broker!OpenOrder
    <2>2. CASE o.type # "market" /\ working
      BY <2>2, Zenon DEF Broker!OpenOrder
    <2>3. CASE o.type # "market" /\ ~working /\ o.type = "stop"
      BY <2>3, Zenon DEF Broker!OpenOrder
    <2>4. CASE o.type # "market" /\ ~working /\ o.type # "stop"
      BY <2>4, Zenon DEF Broker!OpenOrder
    <2> QED
      BY <2>1, <2>2, <2>3, <2>4
  <1> HIDE DEF t, u, e, o, working, slipped
  <1>10. Calm(r, t)
    <2>1. CASE t \in {r, e}
      BY <1>4, <2>1
    <2>2. CASE t = Broker!FillOrder(r, i, open, TRUE, TRUE) /\ o.type \in {"market", "stop"}
      BY <1>6, <2>2
    <2>3. CASE t = Broker!FillOrder(r, i, open, FALSE, FALSE) /\ Broker!Reaches(o, open)
      BY <1>7, <2>3
    <2>4. CASE t \in {u, Broker!Settled(u, i, "expired")}
      BY <1>4, <1>5, <2>4, CalmTwice
    <2>5. CASE t = Broker!FillOrder(u, i, open, TRUE, FALSE) /\ Broker!Reaches(o, open)
      BY <1>4, <1>8, <2>5, CalmTwice
    <2> QED
      BY <1>9, <2>1, <2>2, <2>3, <2>4, <2>5
  <1> QED
    BY <1>10 DEF t

LEMMA BarCalm ==
    ASSUME NEW a, NEW r \in Results(a), NEW i \in Ids, NEW low \in Int, NEW high \in Int,
           Sane(r.book[i]), ~r.raised
    PROVE  Calm(r, Broker!BarOrder(r, i, low, high))
  <1> DEFINE t == Broker!BarOrder(r, i, low, high)
             u == Broker!Settled(r, i, "triggered")
             o == r.book[i]
             slipped == Broker!SlippedPrice(o.side, o.stop)
             working == o.type = "limit" \/ (o.type = "stop_limit" /\ o.st = "triggered")
  <1>1. o \in Tickets /\ o.side \in Sides /\ o.limit \in Int /\ o.stop \in Int
    BY DEF Results, Books, Tickets
  <1>2. "triggered" \in OrderStates
    BY DEF OrderStates
  <1>3. Calm(r, r) /\ Calm(r, u)
    <2>1. Calm(r, r)
      BY DEF Calm, SameTerms
    <2> QED
      BY <1>2, <2>1, SettledCalm
  <1>4. ASSUME working
        PROVE  Calm(r, Broker!FillOrder(r, i, o.limit, FALSE, FALSE))
    <2>1. o.limit > 0
      BY <1>4 DEF Sane
    <2>2. Broker!Reaches(o, o.limit)
      BY <1>1 DEF Broker!Reaches
    <2>3. Tradable(o, o.limit)
      BY <2>1, <2>2 DEF Tradable
    <2> QED
      BY <1>1, <2>3, FillCalm
  <1>5. ASSUME o.type = "stop"
        PROVE  Calm(r, Broker!FillOrder(r, i, o.stop, TRUE, TRUE))
    <2>1. o.limit = NoPrice /\ o.stop > 0 /\ (o.side = "sell" => o.stop > Slip)
      BY <1>5 DEF Sane
    <2>2. slipped \in Int /\ slipped > 0
      BY <1>1, <2>1, SlippedPositive
    <2>3. Tradable(o, slipped)
      BY <2>1, <2>2 DEF Tradable
    <2> HIDE DEF slipped
    <2>4. slipped = IF TRUE THEN Broker!SlippedPrice(r.book[i].side, o.stop) ELSE o.stop
      BY DEF slipped
    <2> QED
      BY <2>2, <2>3, <2>4, FillCalm
  <1>6. t \in {r, u} \/ (t = Broker!FillOrder(r, i, o.limit, FALSE, FALSE) /\ working)
        \/ (t = Broker!FillOrder(r, i, o.stop, TRUE, TRUE) /\ o.type = "stop")
    BY Zenon DEF Broker!BarOrder
  <1> HIDE DEF t, u, o, working
  <1>7. Calm(r, t)
    BY <1>3, <1>4, <1>5, <1>6
  <1> QED
    BY <1>7 DEF t

-----------------------------------------------------------------------------
(* A pass over a book of sane orders.                                      *)

LEMMA StartIsCalm ==
    ASSUME NEW b \in Books, NEW a
    PROVE  /\ Broker!Pass(b, a) \in Results(a) /\ ~Broker!Pass(b, a).raised
           /\ Broker!Pass(b, a).book = b /\ Calm(Broker!Pass(b, a), Broker!Pass(b, a))
  <1>1. Broker!Pass(b, a) \in Results(a) /\ Broker!Pass(b, a).book = b
    BY StartOfPass
  <1>2. ~Broker!Pass(b, a).raised
    BY DEF Broker!Pass
  <1> QED
    BY <1>1, <1>2 DEF Calm, SameTerms

LEMMA OpenStaysCalm ==
    ASSUME NEW b \in Books, Alone(b), AllSane(b), NEW a,
           NEW open \in Int, open > 0, open > Slip, NEW instant
    PROVE  Calm(Broker!Pass(b, a), Broker!ProcessOpen(b, a, open, instant))
  <1> DEFINE q == InOrder(b)
             p == Broker!Pass(b, a)
             r == Broker!ProcessOpen(b, a, open, instant)
  <1>1. DOMAIN q \in {{}, {1}}
    BY OrdersListed
  <1>2. r = IF DOMAIN q = {} THEN p ELSE OpenStep(p, q[1], open, instant)
    BY <1>1, OpenIsItsRun, OpenRuns
  <1>3. p \in Results(a) /\ ~p.raised /\ p.book = b /\ Calm(p, p)
    BY StartIsCalm
  <1> HIDE DEF p, r
  <1>4. CASE DOMAIN q = {}
    BY <1>2, <1>3, <1>4 DEF p, r
  <1>5. ASSUME NEW i \in Ids, Active(b) = {i}, DOMAIN q = {1}, q[1] = i
        PROVE  Calm(p, r)
    <2>1. r = OpenStep(p, i, open, instant)
      BY <1>2, <1>5
    <2>2. r = p \/ r = Broker!OpenOrder(p, i, open)
      BY <2>1 DEF OpenStep
    <2>3. Sane(p.book[i])
      BY <1>3, <1>5 DEF AllSane
    <2>4. Calm(p, Broker!OpenOrder(p, i, open))
      BY <1>3, <2>3, OpenCalm
    <2> QED
      BY <1>3, <2>2, <2>4
  <1> QED
    BY <1>4, <1>5, OrdersListed DEF p, r

LEMMA BarStaysCalm ==
    ASSUME NEW b \in Books, Alone(b), AllSane(b), NEW a,
           NEW low \in Int, NEW high \in Int, NEW instant
    PROVE  Calm(Broker!Pass(b, a), Broker!ProcessBar(b, a, low, high, instant))
  <1> DEFINE q == InOrder(b)
             p == Broker!Pass(b, a)
             r == Broker!ProcessBar(b, a, low, high, instant)
  <1>1. DOMAIN q \in {{}, {1}}
    BY OrdersListed
  <1>2. r = IF DOMAIN q = {} THEN p ELSE BarStep(p, q[1], low, high, instant)
    BY <1>1, BarIsItsRun, BarRuns
  <1>3. p \in Results(a) /\ ~p.raised /\ p.book = b /\ Calm(p, p)
    BY StartIsCalm
  <1> HIDE DEF p, r
  <1>4. CASE DOMAIN q = {}
    BY <1>2, <1>3, <1>4 DEF p, r
  <1>5. ASSUME NEW i \in Ids, Active(b) = {i}, DOMAIN q = {1}, q[1] = i
        PROVE  Calm(p, r)
    <2>1. r = BarStep(p, i, low, high, instant)
      BY <1>2, <1>5
    <2>2. r = p \/ r = Broker!BarOrder(p, i, low, high)
      BY <2>1 DEF BarStep
    <2>3. Sane(p.book[i])
      BY <1>3, <1>5 DEF AllSane
    <2>4. Calm(p, Broker!BarOrder(p, i, low, high))
      BY <1>3, <2>3, BarCalm
    <2> QED
      BY <1>3, <2>2, <2>4
  <1> QED
    BY <1>4, <1>5, OrdersListed DEF p, r

LEMMA SaneTerms ==
    ASSUME NEW x, NEW y, SameTerms(x, y), Sane(y)
    PROVE  Sane(x)
  BY DEF SameTerms, Sane

\* What the engine makes of a calm pass.
LEMMA CalmPassWorks ==
    ASSUME NEW s \in Series, NEW from, NEW r, IInv, Workable, status = "running",
           Passed(book[s], [series |-> s, pf |-> from], r), Handle(s, from, r),
           Calm(Broker!Pass(book[s], [series |-> s, pf |-> from]), r)
    PROVE  Workable' /\ status' # "price"
  <1> DEFINE kept == [i \in DOMAIN r.book |-> IF IsActive(r.book[i]) THEN r.book[i] ELSE NoOrder]
             a == [series |-> s, pf |-> from]
  <1>1. book \in [Series -> Books] /\ book[s] \in Books /\ Alone(book[s])
    BY DEF IInv, Typed
  <1>2. book' = [book EXCEPT ![s] = kept] /\ ~r.raised
        /\ status' = IF r.raised THEN "price"
                     ELSE IF Taken(s, from, r.fills).raised THEN "inventory" ELSE status
    BY HandleIsItsRun DEF Calm
  <1>3. status' # "price"
    BY <1>2
  <1>4. r.book \in Books /\ DOMAIN r.book = Ids /\ Active(r.book) \subseteq Active(book[s])
    BY DEF Passed, Books
  <1>5. \A i \in Ids : SameTerms(r.book[i], book[s][i])
    <2>1. Broker!Pass(book[s], a).book = book[s]
      BY <1>1, StartIsCalm
    <2> QED
      BY <2>1 DEF Calm
  <1>6. \A i \in Active(kept) : i \in Active(book[s]) /\ i \in Ids /\ kept[i] = r.book[i]
    <2>1. ~IsActive(NoOrder)
      BY DEF NoOrder, IsActive
    <2>2. \A i \in Active(kept) : i \in Ids /\ IsActive(r.book[i]) /\ kept[i] = r.book[i]
      BY <1>4, <2>1 DEF Active
    <2>3. \A i \in Active(kept) : i \in Active(r.book)
      BY <1>4, <2>2 DEF Active
    <2> QED
      BY <1>4, <2>2, <2>3
  <1> HIDE DEF kept
  <1>7. AllSane(book[s])
    BY DEF Workable
  <1>8. AllSane(kept)
    <2> SUFFICES ASSUME NEW i \in Active(kept) PROVE Sane(kept[i])
      BY DEF AllSane
    <2>1. Sane(book[s][i]) /\ SameTerms(kept[i], book[s][i])
      BY <1>5, <1>6, <1>7 DEF AllSane
    <2> QED
      BY <2>1, SaneTerms
  <1>9. book'[s] = kept /\ \A t \in Series \ {s} : book'[t] = book[t]
    BY <1>1, <1>2
  <1>10. \A t \in Series : AllSane(book'[t])
    BY <1>8, <1>9 DEF Workable
  <1> QED
    BY <1>3, <1>10 DEF Workable

-----------------------------------------------------------------------------
(* The orders of the signals are sane.                                     *)

LEMMA Fraction ==
    ASSUME NEW n \in Nat, n > 0, NEW bps \in Nat, bps < 10000
    PROVE  (n * bps) \div 10000 \in Nat /\ (n * bps) \div 10000 < n
  <1> DEFINE x == n * bps
             d == x \div 10000
  <1>1. x \in Nat /\ x <= n * 9999
    <2>1. bps <= 9999
      OBVIOUS
    <2>2. x \in Nat
      OBVIOUS
    <2>3. n * (9999 - bps) >= 0
      <3> DEFINE y == 9999 - bps
      <3>1. y \in Nat
        BY <2>1
      <3> HIDE DEF y
      <3>2. n * y \in Nat
        BY <3>1
      <3> QED
        BY <3>2 DEF y
    <2>4. n * (9999 - bps) = n * 9999 - x
      OBVIOUS
    <2> QED
      BY <2>2, <2>3, <2>4
  <1> HIDE DEF x
  <1>2. d \in Nat /\ 10000 * d <= x
    BY <1>1
  <1> HIDE DEF d
  <1>3. d < n
    BY <1>1, <1>2
  <1> QED
    BY <1>2, <1>3 DEF d, x

LEMMA PriceBeatsSlip ==
    ASSUME PositivePrices, conf \in Configurations, NEW p \in Prices
    PROVE  /\ p \in Int /\ p > 0 /\ p > Slip
           /\ (p * conf.offset) \div 10000 \in Nat /\ p - (p * conf.offset) \div 10000 > Slip
  <1>1. p \in Nat /\ p > 0
    BY PricesAreInts
  <1>2. conf.offset \in Nat /\ Slip \in Nat
    BY Strategies, Quotes
  <1>3. conf.offset < 10000 /\ Slip < p - (p * conf.offset) \div 10000
    BY DEF PositivePrices
  <1>4. (p * conf.offset) \div 10000 \in Nat
    BY <1>1, <1>2, <1>3, Fraction
  <1> DEFINE x == (p * conf.offset) \div 10000
  <1> HIDE DEF x
  <1>5. x \in Nat /\ Slip < p - x
    BY <1>3, <1>4 DEF x
  <1>6. p > Slip /\ p - x > Slip
    BY <1>1, <1>2, <1>5
  <1> QED
    BY <1>1, <1>5, <1>6 DEF x

LEMMA OrderedSane ==
    ASSUME PositivePrices, conf \in Configurations, NEW reference \in Prices,
           NEW side \in Sides, NEW qty \in Nat
    PROVE  Sane(Ordered(side, qty, reference))
  <1> DEFINE away(price, bps, sign) == price + sign * ((price * bps) \div 10000)
             stop == away(reference, conf.offset, Sign(side))
             near == away(reference, conf.offset, -Sign(side))
             far == away(stop, conf.limit, Sign(side))
             limit_ == CASE conf.type = "limit" -> near
                         [] conf.type = "stop_limit" -> far
                         [] OTHER -> NoPrice
             stop_ == IF conf.type \in {"stop", "stop_limit"} THEN stop ELSE NoPrice
             order == Ordered(side, qty, reference)
             x == (reference * conf.offset) \div 10000
  <1>1. conf.type \in {"market", "limit", "stop", "stop_limit"} /\ conf.limit \in Nat
        /\ conf.limit < 10000 /\ Slip \in Nat
    BY Strategies, Quotes DEF PositivePrices
  <1>2. reference \in Int /\ reference > 0 /\ x \in Nat /\ reference - x > Slip
    BY PriceBeatsSlip
  <1>3. stop = reference + Sign(side) * x /\ near = reference + (-Sign(side)) * x
    OBVIOUS
  <1> HIDE DEF x
  <1>4. Sign(side) = IF side = "buy" THEN 1 ELSE -1
    BY DEF Sign
  <1>5. stop \in Nat /\ stop > 0 /\ (side = "sell" => stop > Slip) /\ near > 0
    <2> HIDE DEF stop, near
    <2>1. CASE side = "buy"
      BY <1>1, <1>2, <1>3, <1>4, <2>1
    <2>2. CASE side = "sell"
      BY <1>1, <1>2, <1>3, <1>4, <2>2
    <2> QED
      BY <2>1, <2>2 DEF Sides
  <1>6. far > 0
    <2> HIDE DEF stop
    <2>1. (stop * conf.limit) \div 10000 \in Nat /\ (stop * conf.limit) \div 10000 < stop
      BY <1>1, <1>5, Fraction
    <2> DEFINE y == (stop * conf.limit) \div 10000
    <2>2. far = stop + Sign(side) * y
      OBVIOUS
    <2> HIDE DEF y, far
    <2>3. y \in Nat /\ y < stop
      BY <2>1 DEF y
    <2>4. Sign(side) = 1 \/ Sign(side) = -1
      BY <1>4
    <2> QED
      BY <1>5, <2>2, <2>3, <2>4
  <1>7. order = [NoOrder EXCEPT !.side = side, !.type = conf.type, !.qty = qty, !.tif = conf.tif,
                                !.limit = limit_, !.stop = stop_]
    BY DEF Ordered
  <1> HIDE DEF stop, near, far, order
  <1>8. /\ conf.type \in {"market", "stop"} => limit_ = NoPrice
        /\ conf.type \in {"limit", "stop_limit"} => limit_ > 0
        /\ conf.type = "stop" => stop_ = stop
    BY <1>1, <1>5, <1>6
  <1> HIDE DEF limit_, stop_
  <1>9. order.side = side /\ order.type = conf.type /\ order.limit = limit_ /\ order.stop = stop_
    BY <1>7 DEF NoOrder
  <1>10. Sane(order)
    BY <1>5, <1>8, <1>9 DEF Sane
  <1> QED
    BY <1>10 DEF order

LEMMA SubmittedSane ==
    ASSUME NEW b \in Books, NEW i \in Ids, NEW order \in Tickets, NEW instant \in Nat, Sane(order)
    PROVE  AllSane(Superseded(b)) /\ AllSane(Submitted(Superseded(b), i, order, TRUE, instant))
  <1> DEFINE empty == Superseded(b)
             o == [order EXCEPT !.sub = instant, !.st = "acknowledged"]
             c == [empty EXCEPT ![i] = o]
  <1>1. empty = [j \in Ids |-> NoOrder]
    BY DEF Superseded, Books
  <1>2. Active(empty) = {}
    BY <1>1, EmptyBook
  <1>3. Submitted(empty, i, order, TRUE, instant) = c
    BY DEF Submitted
  <1>4. SameTerms(o, order)
    BY DEF Tickets, SameTerms
  <1>5. Sane(o)
    BY <1>4, SaneTerms
  <1> HIDE DEF o
  <1>6. DOMAIN c = Ids /\ c[i] = o /\ \A j \in Ids \ {i} : c[j] = NoOrder
    BY <1>1
  <1> HIDE DEF c
  <1>7. \A j \in Active(c) : j = i
    BY <1>6 DEF Active, IsActive, NoOrder
  <1>8. AllSane(c)
    BY <1>5, <1>6, <1>7 DEF AllSane
  <1> QED
    BY <1>2, <1>3, <1>8 DEF AllSane

LEMMA SignalWorks ==
    ASSUME PositivePrices, IInv, Workable, NEW s \in Series, Signal(s)
    PROVE  Workable' /\ status' = status
  <1> DEFINE active == Superseded(book[s])
             target(d) == Target(d, pf.mark[s])
             delta(d) == target(d) - pf.pos[s].qty
             side(d) == IF delta(d) > 0 THEN "buy" ELSE "sell"
             order(d) == Ordered(side(d), AbsInt(delta(d)), pf.mark[s])
             made(d) == Submitted(active, now, order(d), TRUE, now)
  <1>1. PICK d \in {-1, 0, 1} :
            book' = [book EXCEPT ![s] = made(d)] \/ book' = [book EXCEPT ![s] = active]
    BY DEF Signal
  <1>2. status' = status /\ seen[s]
    BY DEF Signal
  <1>3. /\ book \in [Series -> Books] /\ book[s] \in Books /\ conf \in Configurations
        /\ pf.pos[s].qty \in Int /\ now \in 0 .. MaxTime + 1
    BY DEF IInv, Typed, TypeOK, Accounts, Positions
  <1>4. now \in Ids /\ now \in Nat
    <2>1. now <= MaxTime
      BY DEF Signal, Turn
    <2> QED
      BY <1>3, <2>1, Bounds DEF Ids
  <1>5. pf.mark[s] \in Prices /\ pf.mark[s] \in Nat /\ pf.mark[s] > 0 /\ pf.mark[s] \in Int
    <2>1. pf.mark[s] \in Prices
      BY <1>2 DEF IInv, Marked
    <2> QED
      BY <2>1, PricesAreInts
  <1>6. target(d) \in Int
    BY <1>3, <1>5, TargetType
  <1>7. ClosesGap(pf.pos[s].qty, target(d), AbsInt(delta(d)), side(d))
    <2> HIDE DEF target
    <2> QED
      BY <1>3, <1>6, OrderClosesGap
  <1>8. AbsInt(delta(d)) \in Nat /\ side(d) \in Sides
    BY <1>7 DEF ClosesGap
  <1> HIDE DEF delta, side
  <1>9. order(d) \in Tickets /\ Sane(order(d))
    BY <1>3, <1>5, <1>8, OrderedType, OrderedSane
  <1> HIDE DEF order
  <1>10. AllSane(active) /\ AllSane(made(d))
    BY <1>3, <1>4, <1>9, SubmittedSane
  <1> HIDE DEF active, made
  <1>11. book'[s] \in {active, made(d)} /\ \A t \in Series \ {s} : book'[t] = book[t]
    BY <1>1, <1>3
  <1>12. \A t \in Series : AllSane(book'[t])
    BY <1>10, <1>11 DEF Workable
  <1> QED
    BY <1>2, <1>12 DEF Workable

LEMMA CompleteBarWorks ==
    ASSUME IInv, Workable, NEW s \in Series, CompleteBar(s)
    PROVE  Workable' /\ status' # "price"
  <1>1. PICK low \in Prices, high \in Prices, close \in Prices :
            Handle(s, pf, Broker!ProcessBar(book[s], [series |-> s, pf |-> pf], low, high, now))
    BY DEF CompleteBar
  <1> DEFINE r == Broker!ProcessBar(book[s], [series |-> s, pf |-> pf], low, high, now)
  <1>2. status = "running"
    BY DEF CompleteBar, Turn
  <1>3. book[s] \in Books /\ Alone(book[s]) /\ AllSane(book[s])
    BY DEF IInv, Typed, Workable
  <1>4. low \in Int /\ high \in Int
    BY PricesAreInts
  <1>5. Passed(book[s], [series |-> s, pf |-> pf], r)
    BY <1>3, <1>4, BarPasses
  <1>6. Calm(Broker!Pass(book[s], [series |-> s, pf |-> pf]), r)
    BY <1>3, <1>4, BarStaysCalm
  <1> HIDE DEF r
  <1>7. Handle(s, pf, r)
    BY <1>1 DEF r
  <1> QED
    BY <1>2, <1>5, <1>6, <1>7, CalmPassWorks

LEMMA OpenBarWorks ==
    ASSUME PositivePrices, IInv, Workable, NEW s \in Series, OpenBar(s)
    PROVE  Workable' /\ status' # "price"
  <1>1. PICK open \in Prices :
            Handle(s, SetMark(pf, s, open),
                   Broker!ProcessOpen(book[s], [series |-> s, pf |-> SetMark(pf, s, open)], open, now))
    BY DEF OpenBar
  <1> DEFINE from == SetMark(pf, s, open)
             r == Broker!ProcessOpen(book[s], [series |-> s, pf |-> from], open, now)
  <1>2. status = "running"
    BY DEF OpenBar, Turn
  <1>3. book[s] \in Books /\ Alone(book[s]) /\ AllSane(book[s]) /\ conf \in Configurations
    BY DEF IInv, Typed, Workable
  <1>4. open \in Int /\ open > 0 /\ open > Slip
    BY <1>3, PriceBeatsSlip
  <1> HIDE DEF from
  <1>5. Passed(book[s], [series |-> s, pf |-> from], r)
    BY <1>3, <1>4, OpenPasses
  <1>6. Calm(Broker!Pass(book[s], [series |-> s, pf |-> from]), r)
    BY <1>3, <1>4, OpenStaysCalm
  <1> HIDE DEF r
  <1>7. Handle(s, from, r)
    BY <1>1 DEF r, from
  <1> QED
    BY <1>2, <1>5, <1>6, <1>7, CalmPassWorks

LEMMA QuietWorks ==
    ASSUME Workable, book' = book
    PROVE  Workable'
  BY DEF Workable

LEMMA FinishWorks ==
    ASSUME Finish
    PROVE  Workable' /\ status' # "price"
  <1>1. status' # "price" /\ book' = [s \in Series |-> [i \in DOMAIN book[s] |-> NoOrder]]
    BY DEF Finish
  <1>2. \A s \in Series : Active(book'[s]) = {}
    BY <1>1, EmptyBook
  <1> QED
    BY <1>1, <1>2 DEF Workable, AllSane

Tradeable == IInv /\ Workable /\ status # "price"

LEMMA InitTrades ==
    ASSUME Init
    PROVE  Tradeable
  <1>1. IInv
    BY InitGives
  <1>2. status # "price" /\ \A s \in Series : book[s] = [i \in Ids |-> NoOrder]
    BY DEF Init, Ids
  <1>3. \A s \in Series : Active(book[s]) = {}
    BY <1>2, EmptyBook
  <1> QED
    BY <1>1, <1>2, <1>3 DEF Tradeable, Workable, AllSane

LEMMA StepTrades ==
    ASSUME PositivePrices, Tradeable, [Next]_vars
    PROVE  Tradeable'
  <1>1. IInv'
    BY NextKeeps, StutterKeeps DEF Tradeable
  <1>2. Workable' /\ status' # "price"
    <2>1. ASSUME NEW s \in Series, CompleteBar(s) PROVE Workable' /\ status' # "price"
      BY <2>1, CompleteBarWorks DEF Tradeable
    <2>2. ASSUME NEW s \in Series, OpenBar(s) PROVE Workable' /\ status' # "price"
      BY <2>2, OpenBarWorks DEF Tradeable
    <2>3. ASSUME NEW s \in Series, Signal(s) PROVE Workable' /\ status' # "price"
      BY <2>3, SignalWorks DEF Tradeable
    <2>4. ASSUME NEW s \in Series, MarkClose(s) \/ Fund(s) PROVE Workable' /\ status' # "price"
      <3>1. book' = book /\ status' = status
        BY <2>4 DEF MarkClose, Fund
      <3> QED
        BY <3>1, QuietWorks DEF Tradeable
    <2>5. CASE EndInstant
      <3>1. book' = book /\ status' = status
        BY <2>5 DEF EndInstant
      <3> QED
        BY <3>1, QuietWorks DEF Tradeable
    <2>6. CASE Finish
      BY <2>6, FinishWorks
    <2>7. CASE UNCHANGED vars
      <3>1. book' = book /\ status' = status
        BY <2>7 DEF vars
      <3> QED
        BY <3>1, QuietWorks DEF Tradeable
    <2> QED
      BY <2>1, <2>2, <2>3, <2>4, <2>5, <2>6, <2>7 DEF Next
  <1> QED
    BY <1>1, <1>2 DEF Tradeable

\* No order meets a price the broker raises on (simulated.py's checks of the fill
\* price and of the limit): a limit order fills at its limit or better, a stop at its
\* own price and the slippage, and the signals' prices leave room for both.
THEOREM PricesAreTradable ==
    ASSUME PositivePrices
    PROVE  Spec => [](status # "price")
  <1>1. Init => Tradeable
    BY InitTrades
  <1>2. Tradeable /\ [Next]_vars => Tradeable'
    BY StepTrades
  <1>3. Tradeable => status # "price"
    BY DEF Tradeable
  <1> QED
    BY <1>1, <1>2, <1>3, PTL DEF Spec

\* The metrics accept the account at the end of a run in which nothing was rounded.
LEMMA MetricsAccept == Spec /\ [][~Rounds]_vars => [](status # "metrics")
  <1> DEFINE Kept == status # "metrics"
  <1>1. Init => Kept
    BY DEF Init
  <1>2. EquityReconciles /\ Kept /\ [Next]_vars => Kept'
    <2> SUFFICES ASSUME EquityReconciles, Kept, [Next]_vars PROVE Kept'
      OBVIOUS
    <2>1. ASSUME NEW s \in Series, CompleteBar(s) \/ OpenBar(s) PROVE Kept'
      <3>1. status = "running" /\ \E from, r : Handle(s, from, r)
        BY <2>1 DEF CompleteBar, OpenBar, Turn
      <3> QED
        BY <3>1, HandleIsItsRun
    <2>2. ASSUME NEW s \in Series, MarkClose(s) \/ Fund(s) \/ Signal(s) PROVE Kept'
      BY <2>2 DEF MarkClose, Fund, Signal
    <2>3. CASE EndInstant
      BY <2>3 DEF EndInstant
    <2>4. CASE Finish
      BY <2>4 DEF Finish, EquityReconciles
    <2>5. CASE UNCHANGED vars
      BY <2>5 DEF vars
    <2> QED
      BY <2>1, <2>2, <2>3, <2>4, <2>5 DEF Next
  <1>3. Spec /\ [][~Rounds]_vars => []EquityReconciles
    BY ExactRunsReconcile
  <1> QED
    BY <1>1, <1>2, <1>3, PTL DEF Spec

\* A run ends with a result: with prices that leave room for offsets and slippage, a
\* risk guard that forbids spot shorts and no average price rounded, neither the
\* broker, nor the portfolio, nor the metrics refuse.
THEOREM ExactRunsEnd ==
    ASSUME PositivePrices, Limits.noShorts
    PROVE  Spec /\ [][~Rounds]_vars => []RunsToItsResult
  <1>1. Spec => [](status # "price")
    BY PricesAreTradable
  <1>2. Spec => [](status # "inventory")
    BY InventoryIsThere
  <1>3. Spec => []TypeOK
    BY TypeCorrect, PTL
  <1>4. TypeOK /\ status # "price" /\ status # "inventory" /\ status # "metrics" => RunsToItsResult
    BY DEF TypeOK, RunsToItsResult
  <1> QED
    BY <1>1, <1>2, <1>3, <1>4, MetricsAccept, PTL

\* And so does every run of a strategy that trades fixed sizes, in which averages are
\* always exact.
THEOREM FixedSizesEnd ==
    ASSUME PositivePrices, Limits.noShorts, FixedSizes
    PROVE  Spec => []RunsToItsResult
  <1>1. Spec => [][~Rounds]_vars
    BY FixedSizesAreExact
  <1>2. Spec /\ [][~Rounds]_vars => []RunsToItsResult
    BY ExactRunsEnd
  <1> QED
    BY <1>1, <1>2, PTL
=============================================================================
