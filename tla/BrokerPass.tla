------------------------------ MODULE BrokerPass ------------------------------
(***************************************************************************)
(* The market passes of the simulated broker (execution/brokers/           *)
(* simulated.py).  The gateway and the backtest use the same broker with   *)
(* callbacks of their own, the constant operators.  A pass runs the orders *)
(* one after the other; an exception of a callback ends it, keeping what   *)
(* the earlier orders did to the book and the account and losing the       *)
(* result.                                                                 *)
(***************************************************************************)
EXTENDS SimulatedBroker

CONSTANTS Risk(_, _, _, _, _),   \* the pre-fill risk check: acct, book, id, price, fee
          Apply(_, _, _)         \* fill_application of acct, id, fill: [ok, acct]

Pass(book, acct) == [book |-> book, acct |-> acct, upd |-> <<>>, fills |-> <<>>, raised |-> FALSE]
Settled(r, i, st) == [r EXCEPT !.book[i].st = st, !.upd = Append(@, <<i, st>>)]

\* _fill: price, limit guard, risk, accounting, and only then the order.
FillOrder(r, i, base, taker, slips) ==
    LET order == r.book[i]
        price == IF slips THEN SlippedPrice(order.side, base) ELSE base
        fee == FeeOf(price, order.qty, taker)
        fill == [id |-> i, side |-> order.side, qty |-> order.qty, price |-> price,
                 fee |-> fee, taker |-> taker]
        applied == Apply(r.acct, i, fill)
    IN  IF price <= 0 \/ (order.limit # NoPrice /\ ~Reaches(order, price))
        THEN [r EXCEPT !.raised = TRUE]
        ELSE IF ~Risk(r.acct, r.book, i, price, fee) THEN Settled(r, i, "rejected")
        ELSE IF ~applied.ok THEN [r EXCEPT !.raised = TRUE, !.acct = applied.acct]
        ELSE [Settled(r, i, "filled") EXCEPT !.acct = applied.acct, !.fills = Append(@, fill)]

\* process_bar_open, one order: the open is the base price.  An immediate-or-
\* cancel order that did not trade expires here.
OpenOrder(r, i, open) ==
    LET order == r.book[i]
        Fills(taker, slips, q) == FillOrder(q, i, open, taker, slips)
        Waits(q) == IF order.tif = "ioc" THEN Settled(q, i, "expired") ELSE q
        working == order.type = "limit" \/ (order.type = "stop_limit" /\ order.st = "triggered")
    IN  CASE order.type = "market" -> Fills(TRUE, TRUE, r)
          [] working -> IF Reaches(order, open) THEN Fills(FALSE, FALSE, r) ELSE Waits(r)
          [] order.type = "stop" -> IF Triggers(order, open) THEN Fills(TRUE, TRUE, r) ELSE Waits(r)
          [] OTHER -> IF ~Triggers(order, open) THEN Waits(r)
                      ELSE LET t == Settled(r, i, "triggered")
                           IN  IF Reaches(order, open) THEN Fills(TRUE, FALSE, t) ELSE Waits(t)

\* process_completed_bar, one order: the extreme that favours the order decides,
\* its own price is the base price.  A stop-limit only triggers; it trades later.
BarOrder(r, i, low, high) ==
    LET order == r.book[i]
        best == IF order.side = "buy" THEN low ELSE high
        worst == IF order.side = "buy" THEN high ELSE low
        working == order.type = "limit" \/ (order.type = "stop_limit" /\ order.st = "triggered")
    IN  IF working
        THEN IF Reaches(order, best)
             THEN FillOrder(r, i, order.limit, FALSE, FALSE) ELSE r
        ELSE IF order.type = "stop" /\ Triggers(order, worst)
        THEN FillOrder(r, i, order.stop, TRUE, TRUE)
        ELSE IF order.type = "stop_limit" /\ Triggers(order, worst)
        THEN Settled(r, i, "triggered") ELSE r

ProcessOpen(book, acct, open, at) ==
    FoldLeft(LAMBDA r, i : IF r.raised \/ at < r.book[i].sub THEN r
                           ELSE OpenOrder(r, i, open),
             Pass(book, acct), InOrder(book))

ProcessBar(book, acct, low, high, at) ==
    FoldLeft(LAMBDA r, i : IF r.raised \/ at <= r.book[i].sub \/ r.book[i].tif = "ioc" THEN r
                           ELSE BarOrder(r, i, low, high),
             Pass(book, acct), InOrder(book))
=============================================================================
