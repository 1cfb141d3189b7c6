--------------------------- MODULE SimulatedBroker ---------------------------
(***************************************************************************)
(* SimulatedBroker (execution/brokers/simulated.py) with its fee and        *)
(* slippage models: a bar-level broker without partial fills, as operators *)
(* on a book (order id -> order).  Its market passes are in BrokerPass.    *)
(***************************************************************************)
EXTENDS Integers, Sequences, FiniteSets, SequencesExt

CONSTANTS Slip,       \* adverse slippage of a taker, in price units
          MakerBps, TakerBps

NoPrice == 0        \* None for a limit or stop price
OrderStates == {"none", "acknowledged", "triggered", "filled", "cancelled", "rejected", "expired"}
Orders == [side : {"buy", "sell"}, type : {"market", "limit", "stop", "stop_limit"}, qty : Nat,
           tif : {"gtc", "ioc"}, limit : Nat, stop : Nat, sub : Nat, st : OrderStates]
NoOrder == [side |-> "buy", type |-> "market", qty |-> 0, tif |-> "gtc", limit |-> NoPrice,
            stop |-> NoPrice, sub |-> 0, st |-> "none"]

IsActive(order) == order.st \in {"acknowledged", "triggered"}
Active(book) == {i \in DOMAIN book : IsActive(book[i])}

\* active_orders: by submission time, then by identity.
Sooner(book, i) == {j \in Active(book) : book[j].sub < book[i].sub
                                            \/ (book[j].sub = book[i].sub /\ j < i)}
InOrder(book) == [k \in 1 .. Cardinality(Active(book)) |->
                     CHOOSE i \in Active(book) : Cardinality(Sooner(book, i)) = k - 1]

\* The quantity of the orders of a set, added up.
Quantity(book, ids) == FoldFunctionOnSet(+, 0, [i \in DOMAIN book |-> book[i].qty], ids)

Submitted(book, i, order, accepted, at) ==
    [book EXCEPT ![i] = [order EXCEPT !.sub = at,
                                      !.st = IF accepted THEN "acknowledged" ELSE "rejected"]]

Cancelled(book, i) == [book EXCEPT ![i].st = IF IsActive(book[i]) THEN "cancelled" ELSE @]

ExpireRemaining(book) ==
    [i \in DOMAIN book |-> IF IsActive(book[i]) THEN [book[i] EXCEPT !.st = "expired"] ELSE book[i]]
-----------------------------------------------------------------------------
FeeOf(price, qty, taker) == (price * qty * (IF taker THEN TakerBps ELSE MakerBps)) \div 10000

SlippedPrice(side, base) == IF side = "buy" THEN base + Slip ELSE base - Slip

\* A price at which a limit order trades, and one that triggers a stop.
Reaches(order, price) == IF order.side = "buy" THEN price <= order.limit ELSE price >= order.limit
Triggers(order, price) == IF order.side = "buy" THEN price >= order.stop ELSE price <= order.stop
=============================================================================
