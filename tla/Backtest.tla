------------------------------- MODULE Backtest -------------------------------
(***************************************************************************)
(* The backtest engine (backtesting/engine.py) with its portfolio          *)
(* (execution/accounting.py, positions.py), sizing, funding, risk guard,   *)
(* metrics and the simulated broker: the events of an instant run in the   *)
(* order of their priority and series, one action each; an exception ends  *)
(* the whole run.  Which bars, funding rates and signals an instant has is *)
(* the request's data, so it is chosen step by step.                       *)
(* Prices are integers, and a quotient is rounded (\div) where the code    *)
(* rounds it to the precision of its Decimal context.                      *)
(***************************************************************************)
EXTENDS SimulatedBroker

CONSTANTS NSeries, Spot(_),   \* series 1 .. NSeries; TRUE spot, FALSE linear perpetual
          Configurations,     \* [type, tif, notional, target, offset, limit]
          InitialCash, Prices,
          Rates, RateUnit,    \* funding rates, in 1 / RateUnit
          Limits,             \* the risk limits; NoLimit is None
          MaxTime, MaxSignals, MaxFundings   \* bounds: instants, signals, funding events

ASSUME SeriesCount == NSeries \in Nat \ {0}
ASSUME Quotes == Prices \subseteq Nat \ {NoPrice} /\ InitialCash \in Nat /\ Slip \in Nat
ASSUME Charges == /\ MakerBps \in Nat /\ TakerBps \in Nat
                  /\ Rates \subseteq Int /\ RateUnit \in Nat \ {0}
ASSUME Strategies ==
    Configurations \subseteq [type : {"market", "limit", "stop", "stop_limit"}, tif : {"gtc", "ioc"},
                              notional : BOOLEAN, target : Nat, offset : Nat, limit : Nat]
ASSUME Bounds == MaxTime \in Nat /\ MaxSignals \in Nat /\ MaxFundings \in Nat

VARIABLES conf, now, at,
          bar,       \* the open bar of a series: [open, since], open = NoPrice when none
          closing,   \* the close of a bar completed at this instant, not yet the mark
          seen,      \* a bar of the series has completed
          book,      \* active orders of a series by the instant of their signal
          pf,        \* the portfolio
          line,      \* this instant's rows for the round trips: [funding, fills]
          trips,     \* round trips so far: what _round_trip_pnls accumulates; mixed (history):
                     \* funding and a fill of one series had the same timestamp
          left,      \* signals and funding events still to come (bound)
          aim,       \* the target of a series' latest signal (history)
          status

vars == <<conf, now, at, bar, closing, seen, book, pf, line, trips, left, aim, status>>

Series == 1 .. NSeries
NoLimit == 0
None == -1                       \* average_entry_price None
Flat == [qty |-> 0, avg |-> None, real |-> 0]
NoBar == [open |-> NoPrice, since |-> 0]
NoRows == [funding |-> <<>>, fills |-> <<>>]
Sum(f) == FoldFunction(LAMBDA x, y : x + y, 0, f)
AbsInt(n) == IF n < 0 THEN -n ELSE n
Sign(side) == IF side = "buy" THEN 1 ELSE -1
Least(a, b) == IF a < b THEN a ELSE b

\* The place of an event among the events of an instant.
Code(priority, s) == (NSeries + 1) * priority + s

TypeOK ==
    /\ now \in 0 .. MaxTime + 1 /\ at \in 0 .. Code(5, NSeries)
    /\ status \in {"running", "completed", "inventory", "price", "metrics"}
    /\ \A s \in Series : /\ bar[s].open \in Prices \cup {NoPrice}
                         /\ closing[s] \in Prices \cup {NoPrice}
                         /\ (pf.pos[s].qty = 0) = (pf.pos[s].avg = None)
                         /\ Spot(s) => pf.pos[s].qty >= 0

Init ==
    /\ conf \in Configurations
    /\ now = 0 /\ at = 0
    /\ bar = [s \in Series |-> NoBar]
    /\ closing = [s \in Series |-> NoPrice]
    /\ seen = [s \in Series |-> FALSE]
    /\ book = [s \in Series |-> [i \in 0 .. MaxTime |-> NoOrder]]
    /\ pf = [cash |-> InitialCash, pos |-> [s \in Series |-> Flat],
             mark |-> [s \in Series |-> NoPrice], shot |-> [s \in Series |-> 0],
             fees |-> 0, funding |-> 0, peak |-> InitialCash]
    /\ line = NoRows
    /\ trips = [qty |-> [s \in Series |-> 0], real |-> [s \in Series |-> 0],
                acc |-> [s \in Series |-> 0], closed |-> 0, mixed |-> FALSE]
    /\ left = [signals |-> MaxSignals, fundings |-> MaxFundings]
    /\ aim = [s \in Series |-> 0]
    /\ status = "running"

-----------------------------------------------------------------------------
(* Positions and the portfolio.                                            *)

Unrealized(p, mark) == IF p.qty = 0 \/ mark = NoPrice THEN 0 ELSE p.qty * (mark - p.avg)

\* apply_fill_to_position.
Position(p, signed, price) ==
    LET new == p.qty + signed
        opens == p.qty * signed >= 0
        closed == Least(AbsInt(p.qty), AbsInt(signed))
    IN  [qty |-> new,
         avg |-> IF new = 0 THEN None
                 ELSE IF opens THEN (AbsInt(p.qty) * p.avg + AbsInt(signed) * price) \div AbsInt(new)
                 ELSE IF p.qty * new > 0 THEN p.avg ELSE price,
         real |-> IF opens THEN p.real
                  ELSE p.real + closed * (price - p.avg) * (IF p.qty > 0 THEN 1 ELSE -1)]

\* snapshot_position: what the metrics will read of the series.
Shot(p, s) == [p EXCEPT !.shot[s] = Unrealized(p.pos[s], p.mark[s])]

SetMark(p, s, price) == Shot([p EXCEPT !.mark[s] = price], s)

\* Mutant: the ledger row of the fee is forgotten.
ApplyFillFree(p, s, fill) ==
    LET signed == Sign(fill.side) * fill.qty
        new == Position(p.pos[s], signed, fill.price)
    IN  Shot([p EXCEPT !.pos[s] = new, !.fees = @ + fill.fee,
                       !.cash = @ + (IF Spot(s) THEN -signed * fill.price
                                     ELSE new.real - p.pos[s].real)], s)
\* Portfolio.apply_fill: spot moves the notional, a perpetual its realized result.
ApplyFill(p, s, fill) ==
    LET signed == Sign(fill.side) * fill.qty
        new == Position(p.pos[s], signed, fill.price)
    IN  Shot([p EXCEPT !.pos[s] = new, !.fees = @ + fill.fee,
                       !.cash = @ - fill.fee + (IF Spot(s) THEN -signed * fill.price
                                                ELSE new.real - p.pos[s].real)], s)

Exposure(p, s) == p.pos[s].qty * p.mark[s]
\* Portfolio.values.
Equity(p) == p.cash + Sum([s \in Series |-> IF Spot(s) THEN Exposure(p, s)
                                            ELSE Unrealized(p.pos[s], p.mark[s])])

-----------------------------------------------------------------------------
(* RiskGuard.assess.                                                       *)

Exceeds(value, limit) == limit # NoLimit /\ value > limit

\* Mutants: the fee is not counted against the cash; a spot short is not refused.
AcceptsBeforeFee(p, s, side, qty, price, fee, open) ==
    /\ ~(Spot(s) /\ p.pos[s].qty + Sign(side) * qty < 0)
    /\ ~(Spot(s) /\ side = "buy" /\ qty * price > p.cash)
AcceptsShort(p, s, side, qty, price, fee, open) ==
    ~(Spot(s) /\ side = "buy" /\ qty * price + fee > p.cash)
Accepts(p, s, side, qty, price, fee, open) ==
    LET current == p.pos[s].qty
        after == current + Sign(side) * qty
        exposure == [r \in Series |-> IF r = s THEN after * price ELSE Exposure(p, r)]
        gross == Sum([r \in Series |-> AbsInt(exposure[r])])
        equity == Equity(p)
    IN  /\ price > 0 /\ qty > 0
        /\ ~(Spot(s) /\ Limits.noShorts /\ after < 0)
        /\ ~(Spot(s) /\ side = "buy" /\ qty * price + fee > p.cash)
        /\ ~Exceeds(qty * price, Limits.order)
        /\ ~Exceeds(AbsInt(after * price), Limits.position)
        /\ open < Limits.open
        /\ ~Exceeds(gross, Limits.gross)
        /\ ~Exceeds(AbsInt(Sum(exposure)), Limits.net)
        /\ Limits.ratio # NoLimit => equity > 0 /\ gross <= Limits.ratio * equity
        /\ ~(/\ Limits.drawdown # NoLimit /\ AbsInt(after) > AbsInt(current) /\ p.peak > 0
             /\ (p.peak - equity) * 100 > Limits.drawdown * p.peak)

-----------------------------------------------------------------------------
(* Metrics.                                                                *)

\* _round_trip_pnls, one timeline entry.
Trip(r, e) ==
    LET s == e.s
        old == r.qty[s]
        gain == e.real - r.real[s]
        share == (e.fee * AbsInt(old)) \div e.size
        next == [r EXCEPT !.qty[s] = e.qty, !.real[s] = e.real]
    IN  IF e.kind = "funding" THEN IF old = 0 THEN r ELSE [r EXCEPT !.acc[s] = @ + e.amount]
        ELSE IF old = 0 THEN [next EXCEPT !.acc[s] = -e.fee]
        ELSE IF old * e.qty < 0
        THEN [next EXCEPT !.acc[s] = share - e.fee, !.closed = @ + r.acc[s] + gain - share]
        ELSE IF e.qty = 0
        THEN [next EXCEPT !.acc[s] = 0, !.closed = @ + r.acc[s] + gain - e.fee]
        ELSE [next EXCEPT !.acc[s] = @ + gain - e.fee]

\* The timeline of one timestamp has the funding rows first, whatever happened first.
Replayed(r, l) == FoldLeft(Trip, FoldLeft(Trip, r, l.funding), l.fills)

\* The rows of an instant whose order that sorting may change.
Mixed(l) ==
    \E i \in DOMAIN l.funding : \E j \in DOMAIN l.fills : l.funding[i].s = l.fills[j].s

Reconciles(p) ==
    Equity(p) - InitialCash =
        Sum([s \in Series |-> p.pos[s].real]) + Sum(p.shot) + p.funding - p.fees

-----------------------------------------------------------------------------
(* The events of an instant, in the order of their priority and series.    *)

\* The event is the next one: nothing later has run, no close waits before it.
Turn(priority, s) ==
    /\ status = "running" /\ now <= MaxTime
    /\ at < Code(priority, s)
    /\ \A r \in Series : closing[r] # NoPrice => Code(2, r) >= Code(priority, s)
    /\ at' = Code(priority, s)

\* handle_broker_result: the book and then the fills, which the portfolio applies
\* only after the whole pass.  Closed orders leave the active book.
Handle(s, from, r) ==
    LET step(acc, f) ==
            IF acc.raised THEN acc
            ELSE IF Spot(s) /\ acc.pf.pos[s].qty + Sign(f.side) * f.qty < 0
            THEN [acc EXCEPT !.raised = TRUE]
            ELSE LET p == ApplyFill(acc.pf, s, f)
                 IN  [acc EXCEPT !.pf = p,
                         !.line.fills = Append(@, [kind |-> "fill", s |-> s, fee |-> f.fee,
                                                   amount |-> 0, size |-> f.qty,
                                                   qty |-> p.pos[s].qty, real |-> p.pos[s].real])]
        done == FoldLeft(step, [pf |-> from, line |-> line, raised |-> FALSE], r.fills)
    IN  /\ book' = [book EXCEPT ![s] = [i \in DOMAIN r.book |->
                        IF IsActive(r.book[i]) THEN r.book[i] ELSE NoOrder]]
        /\ pf' = done.pf /\ line' = done.line
        /\ status' = IF r.raised THEN "price" ELSE IF done.raised THEN "inventory" ELSE status

\* The prefill callback of both passes, against the live portfolio.
PreFillRisk(acct, b, i, price, fee) ==
    Accepts(acct.pf, acct.series, b[i].side, b[i].qty, price, fee, 0)

\* The engine gives no fill application: fills are applied after the pass.
AppliedLater(acct, i, fill) == [ok |-> TRUE, acct |-> acct]

Broker == INSTANCE BrokerPass WITH Risk <- PreFillRisk, Apply <- AppliedLater

\* BAR_COMPLETED_EXECUTION.
CompleteBar(s) ==
    /\ Turn(1, s) /\ bar[s] # NoBar /\ bar[s].since < now
    /\ \E low, high, close \in Prices :
        /\ low <= bar[s].open /\ bar[s].open <= high /\ low <= close /\ close <= high
        /\ closing' = [closing EXCEPT ![s] = close]
        /\ Handle(s, pf, Broker!ProcessBar(book[s], [series |-> s, pf |-> pf], low, high, now))
    /\ bar' = [bar EXCEPT ![s] = NoBar]
    /\ seen' = [seen EXCEPT ![s] = TRUE]
    /\ UNCHANGED <<conf, now, trips, left, aim>>

\* MARK_UPDATE at the close of the bar that completed.
MarkClose(s) ==
    /\ closing[s] # NoPrice /\ Turn(2, s)
    /\ pf' = SetMark(pf, s, closing[s])
    /\ closing' = [closing EXCEPT ![s] = NoPrice]
    /\ UNCHANGED <<conf, now, bar, seen, book, line, trips, left, aim, status>>

\* FUNDING of a perpetual series that has a mark.
Fund(s) ==
    /\ Turn(3, s) /\ ~Spot(s) /\ left.fundings > 0
    /\ \E rate \in Rates :
        LET flow == -(pf.pos[s].qty * pf.mark[s] * rate) \div RateUnit
        IN  /\ pf' = [pf EXCEPT !.cash = @ + flow, !.funding = @ + flow]
            /\ line' = IF flow = 0 THEN line
                       ELSE [line EXCEPT !.funding =
                                Append(@, [kind |-> "funding", s |-> s, amount |-> flow, fee |-> 0,
                                           size |-> 1, qty |-> 0, real |-> 0])]
    /\ left' = [left EXCEPT !.fundings = @ - 1]
    /\ UNCHANGED <<conf, now, bar, closing, seen, book, trips, aim, status>>

\* Mutant: an order the signal replaces stays in the book.
NothingSuperseded(b) == b
Superseded(b) == [i \in DOMAIN b |-> NoOrder]

\* size_signal: the target quantity, rounded toward zero to whole steps.
Target(direction, reference) ==
    direction * (IF conf.notional THEN conf.target \div reference ELSE conf.target)

\* _order_prices, as [limit, stop].
Ordered(side, qty, reference) ==
    LET away(price, bps, sign) == price + sign * ((price * bps) \div 10000)
        stop == away(reference, conf.offset, Sign(side))
    IN  [NoOrder EXCEPT !.side = side, !.type = conf.type, !.qty = qty, !.tif = conf.tif,
                        !.limit = CASE conf.type = "limit" -> away(reference, conf.offset, -Sign(side))
                                    [] conf.type = "stop_limit" -> away(stop, conf.limit, Sign(side))
                                    [] OTHER -> NoPrice,
                        !.stop = IF conf.type \in {"stop", "stop_limit"} THEN stop ELSE NoPrice]

\* SIGNAL: the series' orders are superseded, and the difference to the target is
\* ordered if the risk guard accepts it.
Signal(s) ==
    /\ Turn(4, s) /\ seen[s] /\ left.signals > 0
    /\ \E direction \in {-1, 0, 1} :
        LET active == Superseded(book[s])
            target == Target(direction, pf.mark[s])
            delta == target - pf.pos[s].qty
            side == IF delta > 0 THEN "buy" ELSE "sell"
            order == Ordered(side, AbsInt(delta), pf.mark[s])
            accepted == Accepts(pf, s, side, AbsInt(delta), pf.mark[s], 0,
                                Cardinality(Active(active)))
        IN  /\ book' = [book EXCEPT ![s] = IF delta # 0 /\ accepted
                                           THEN Submitted(active, now, order, TRUE, now) ELSE active]
            /\ aim' = [aim EXCEPT ![s] = target]
    /\ left' = [left EXCEPT !.signals = @ - 1]
    /\ UNCHANGED <<conf, now, bar, closing, seen, pf, line, trips, status>>

\* BAR_OPEN_EXECUTION: the open is the mark before it is a price.
OpenBar(s) ==
    /\ Turn(5, s) /\ bar[s] = NoBar /\ now < MaxTime
    /\ \E open \in Prices :
        /\ bar' = [bar EXCEPT ![s] = [open |-> open, since |-> now]]
        /\ LET marked == SetMark(pf, s, open)
               r == Broker!ProcessOpen(book[s], [series |-> s, pf |-> marked], open, now)
           IN  Handle(s, marked, r)
    /\ UNCHANGED <<conf, now, closing, seen, trips, left, aim>>

\* The account snapshot after the events of an instant; a later bar may still come.
EndInstant ==
    /\ status = "running" /\ now <= MaxTime /\ at > 0
    /\ \A s \in Series : closing[s] = NoPrice
    /\ now = MaxTime => \A s \in Series : bar[s] = NoBar
    /\ pf' = [pf EXCEPT !.peak = IF Equity(pf) > @ THEN Equity(pf) ELSE @]
    /\ trips' = [Replayed(trips, line) EXCEPT !.mixed = @ \/ Mixed(line)]
    /\ line' = NoRows /\ at' = 0 /\ now' = now + 1
    /\ UNCHANGED <<conf, bar, closing, seen, book, left, aim, status>>

\* After the last event: what is still active expires, and the metrics must
\* reconcile or the run has no result.
Finish ==
    /\ status = "running" /\ at = 0
    /\ \E s \in Series : seen[s]
    /\ \A s \in Series : bar[s] = NoBar
    /\ book' = [s \in Series |-> [i \in DOMAIN book[s] |-> NoOrder]]
    /\ status' = IF Reconciles(pf) THEN "completed" ELSE "metrics"
    /\ UNCHANGED <<conf, now, at, bar, closing, seen, pf, line, trips, left, aim>>

Next ==
    \/ \E s \in Series : CompleteBar(s) \/ MarkClose(s) \/ Fund(s) \/ Signal(s) \/ OpenBar(s)
    \/ EndInstant \/ Finish

Spec == Init /\ [][Next]_vars
-----------------------------------------------------------------------------
(* Properties.                                                             *)

\* The account balances at every event, not only at the end: what the equity has
\* gained is the realized and unrealized result plus funding minus fees, though
\* cash, positions, marks and snapshots are kept apart (accounting.py) and spot
\* and perpetual series book different things in cash.
EquityReconciles == Reconciles(pf)

\* A run ends with a result: no fill finds its inventory gone, although the risk
\* guard of a pass sees the portfolio before any fill of that pass, and the
\* metrics accept the account.
RunsToItsResult == status \in {"running", "completed"}

\* A spot purchase is paid from cash that is there: the check before the fill and
\* the ledger agree on the price, the fee and what other series spent meanwhile.
PurchasesCovered ==
    [][\A s \in Series : Spot(s) /\ pf'.pos[s].qty > pf.pos[s].qty => pf'.cash >= 0]_vars

\* Round trips carry all that positions earned net of fees and funding: what closed
\* and open trips have accumulated at the end of an instant is the account's result,
\* through partial closes, reversals and funding, and a flat series has no open trip.
\* It needs that no funding shared a timestamp with a fill of its series: the metrics
\* put the funding first whatever happened first (metrics.py:24).
TripsCarryAll ==
    at = 0 /\ ~trips.mixed =>
        /\ trips.closed + Sum(trips.acc)
              = Sum([s \in Series |-> pf.pos[s].real]) + pf.funding - pf.fees
        /\ \A s \in Series : pf.pos[s].qty = 0 => trips.acc[s] = 0

\* The account, its equity and its round trips agree.
AccountSound == TypeOK /\ EquityReconciles /\ TripsCarryAll

\* The order a series waits for leads from its position to the target of its latest
\* signal: an older order does not survive a newer signal, and nothing else moves
\* the position meanwhile.
OrdersReachTarget ==
    \A s \in Series : \A i \in Active(book[s]) :
        pf.pos[s].qty + Sign(book[s][i].side) * book[s][i].qty = aim[s]
=============================================================================
