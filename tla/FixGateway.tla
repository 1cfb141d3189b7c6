------------------------------ MODULE FixGateway ------------------------------
(***************************************************************************)
(* SimulatedFixGateway (fix/gateway.py) with its session, the simulated    *)
(* broker and the fault orchestrator (fix/faults.py): orders arrive over   *)
(* the FIX session, market bars arrive beside it, and the scheduled faults *)
(* drop, duplicate, delay and skip messages.                               *)
(*                                                                         *)
(* A NewOrderSingle is one of the Templates; its number is its economic    *)
(* identity, its field id the ClOrdID.  One symbol is traded.              *)
(***************************************************************************)
EXTENDS FixSession, SimulatedBroker

CONSTANTS Ids,          \* ClOrdIDs
          Templates,    \* the NewOrderSingle messages clients may send
          Unknown,      \* a ClOrdID nobody submitted
          Spot,         \* accounting mode: TRUE spot, FALSE linear perpetual
          Held,         \* the series' current_quantity at the start
          Bars,         \* the bars the market may show: [open, low, high]
          FaultTypes,   \* the faults a schedule may hold, all scheduled at 0
          MaxFaults, ReconnectDelay, ReportDelay,
          MaxOut,       \* bound: outbound messages
          AccountingFails  \* may the external accounting callback raise

VARIABLES ses, now,
          book,       \* broker orders by ClOrdID
          held,       \* fill-derived position
          econ,       \* _economic: the template a ClOrdID was first used with
          view,       \* _by_clord: the order status the gateway last saw
          faults,     \* scheduled and not yet activated
          late,       \* delayed_outbound: a schedule delays one answer at most
          submits,    \* orders sent to the broker per ClOrdID (history)
          raised      \* an exception escaped a market pass (history)

gwVars == <<book, held, econ, view, faults, late, submits, raised>>
vars == <<ses, now, gwVars>>

NoTemplate == 0
Statuses == OrderStates
AllFaults == {"drop_before_logon", "drop_after_ack", "drop_active_order", "heartbeat_loss",
              "duplicate_inbound", "sequence_gap", "delayed_report", "reconnect_delay"}
Reports == Ids \X Statuses

ASSUME GatewayConstants ==
    /\ FaultTypes \subseteq AllFaults /\ MaxFaults \in Nat
    /\ Held \in Nat /\ Spot \in BOOLEAN /\ AccountingFails \in BOOLEAN
    /\ ReconnectDelay \in Nat /\ ReportDelay \in Nat /\ MaxOut \in Nat
ASSUME GatewayMessages ==
    /\ Ids \subseteq Nat /\ IsFiniteSet(Ids) /\ Unknown \in Nat \ Ids
    /\ Templates \in Seq([id : Ids, order : Orders, acceptable : BOOLEAN])
ASSUME MarketPrices ==
    /\ Slip \in Nat /\ MakerBps \in Nat /\ TakerBps \in Nat
    /\ Bars \subseteq [open : Nat, low : Nat, high : Nat]

TypeOK ==
    /\ ses \in Sessions
    /\ now \in 0 .. MaxTime
    /\ book \in [Ids -> Orders]
    /\ held \in Int
    /\ econ \in [Ids -> DOMAIN Templates \cup {NoTemplate}]
    /\ view \in [Ids -> Statuses]
    /\ faults \subseteq FaultTypes
    /\ late \subseteq [at : Nat, reports : SUBSET Reports]
    /\ submits \in [Ids -> Nat] /\ raised \in BOOLEAN

Init ==
    /\ ses = NewSession /\ now = 0
    /\ book = [i \in Ids |-> NoOrder]
    /\ held = Held
    /\ econ = [i \in Ids |-> NoTemplate]
    /\ view = [i \in Ids |-> "none"]
    /\ faults \in {f \in SUBSET FaultTypes : Cardinality(f) <= MaxFaults}
    /\ late = {}
    /\ submits = [i \in Ids |-> 0] /\ raised = FALSE

EmitMany(s, n) == IF n = 0 THEN s ELSE [s EXCEPT !.out = @ + n, !.lastOut = now]
-----------------------------------------------------------------------------
(* Inventory and risk.                                                     *)

Reserved(b, except) ==
    Quantity(b, {i \in Active(b) \ {except} : Spot /\ b[i].side = "sell"})

Blocked(order, quantity, b, except) ==
    Spot /\ order.side = "sell" /\ order.qty > quantity - Reserved(b, except)

PreFill(acct, b, i, price, fee) == ~Blocked(b[i], acct.held, b, i)

\* Mutant: a failed application keeps what it had already changed.
ApplyWithoutRestore(acct, i, fill) ==
    LET after == acct.held + (IF fill.side = "buy" THEN fill.qty ELSE -fill.qty)
    IN  [ok |-> ~(Spot /\ after < 0) /\ i \notin acct.fails, acct |-> [acct EXCEPT !.held = after]]

\* _apply_fill_once: external accounting that raises is restored.
ApplyFill(acct, i, fill) ==
    LET after == acct.held + (IF fill.side = "buy" THEN fill.qty ELSE -fill.qty)
    IN  IF (Spot /\ after < 0) \/ i \in acct.fails THEN [ok |-> FALSE, acct |-> acct]
        ELSE [ok |-> TRUE, acct |-> [acct EXCEPT !.held = after]]

Market == INSTANCE BrokerPass WITH Risk <- PreFill, Apply <- ApplyFill
-----------------------------------------------------------------------------
(* Inbound messages.                                                       *)

\* The answers reach the caller unless the delay fault queues them, the execution
\* reports among them recorded.
Hand(reports, answered, pending) ==
    IF "delayed_report" \in pending /\ answered
    THEN /\ late' = late \cup {[at |-> now + ReportDelay, reports |-> reports]}
         /\ faults' = pending \ {"delayed_report"}
    ELSE faults' = pending /\ UNCHANGED late

FirstUse(i) == econ[i] = NoTemplate

\* _new: a known ClOrdID is a conflict or an idempotent report of its status; a
\* new one becomes an order, accepted or rejected by pre-submit risk.
NewOrder(t) ==
    LET template == Templates[t]
        i == template.id
        order == template.order
        placed == Submitted(book, i, order, ~Blocked(order, held, book, Unknown), now)
    IN  IF ~FirstUse(i)
        THEN [book |-> book, econ |-> econ, view |-> view, submits |-> submits,
              reports |-> IF econ[i] = t THEN {<<i, view[i]>>} ELSE {}]
        ELSE IF ~template.acceptable   \* unsupported symbol, quantity or reference price
        THEN [book |-> book, econ |-> econ, view |-> view, submits |-> submits, reports |-> {}]
        ELSE [book |-> placed, econ |-> [econ EXCEPT ![i] = t],
              view |-> [view EXCEPT ![i] = placed[i].st],
              submits |-> [submits EXCEPT ![i] = @ + 1], reports |-> {<<i, placed[i].st>>}]

\* Mutant: a cancellation is reported and not remembered.
CancelForgotten(i) ==
    IF i = Unknown \/ view[i] = "none" \/ ~IsActive(book[i])
    THEN [book |-> book, econ |-> econ, view |-> view, submits |-> submits, reports |-> {}]
    ELSE [book |-> Cancelled(book, i), econ |-> econ, view |-> view, submits |-> submits,
          reports |-> {<<i, "cancelled">>}]
\* _cancel: unknown and inactive orders are answered with OrderCancelReject.
CancelOrder(i) ==
    IF i = Unknown \/ view[i] = "none" \/ ~IsActive(book[i])
    THEN [book |-> book, econ |-> econ, view |-> view, submits |-> submits, reports |-> {}]
    ELSE [book |-> Cancelled(book, i), econ |-> econ, submits |-> submits,
          view |-> [view EXCEPT ![i] = "cancelled"], reports |-> {<<i, "cancelled">>}]

\* The drops of after_gateway_response, which follow an answered NewOrderSingle.
AckDrops(m, after) ==
    IF m.type # "new_order" THEN {}
    ELSE {f \in faults : f = "drop_after_ack" \/ (f = "drop_active_order" /\ Active(after) # {})}

\* _dispatch_received: r is the session's result, pending the faults left.
Dispatch(m, r, pending) ==
    IF r.disp = "accepted_new" /\ m.type \in OrderTypes
    THEN LET done == IF m.type = "new_order" THEN NewOrder(m.arg) ELSE CancelOrder(m.arg)
             drops == AckDrops(m, done.book)
         IN  /\ book' = done.book /\ econ' = done.econ /\ view' = done.view
             /\ submits' = done.submits
             /\ ses' = IF drops # {} THEN Drop(Emit(r.ses, now)) ELSE Emit(r.ses, now)
             /\ Hand(done.reports, TRUE, pending \ drops)
             /\ UNCHANGED <<held, raised>>
    ELSE LET lossy == r.disp = "accepted_new" /\ m.type = "test_request"
                          /\ "heartbeat_loss" \in pending
         IN  /\ ses' = r.ses
             /\ Hand({}, r.disp = "accepted_new" /\ r.sent # <<>> /\ ~lossy,
                     IF lossy THEN pending \ {"heartbeat_loss"} ELSE pending)
             /\ UNCHANGED <<book, held, econ, view, submits, raised>>

\* handle, with before_inbound and after_session_receive around the session.
Handle(m) ==
    LET gap == "sequence_gap" \in faults
        twice == ~gap /\ "duplicate_inbound" \in faults
        msg == IF gap THEN [m EXCEPT !.seq = @ + 1, !.dup = FALSE] ELSE m
        first == Receive(ses, msg, now)
        again == [first EXCEPT !.ses = Receive(first.ses, msg, now).ses]
    IN  IF m.type = "logon" /\ "drop_before_logon" \in faults
        THEN /\ ses' = Drop(ses)
             /\ faults' = faults \ {"drop_before_logon"}
             /\ UNCHANGED <<now, book, held, econ, view, late, submits, raised>>
        ELSE /\ msg.seq <= MaxSeq
             /\ Dispatch(msg, IF twice THEN again ELSE first,
                         faults \ (IF gap THEN {"sequence_gap"} ELSE {"duplicate_inbound"}))
             /\ UNCHANGED now

\* handle_raw: bytes reach the session without the inbound faults.
HandleRaw(m) == Dispatch(m, Receive(ses, m, now), faults) /\ UNCHANGED now

Arguments(type) ==
    CASE type = "heartbeat" -> {NoTest, ses.test}
      [] type = "sequence_reset" -> {n \in {ses.in, ses.in + 2} : n <= MaxSeq}
      [] type = "new_order" -> DOMAIN Templates
      [] type = "cancel" -> Ids \cup {Unknown}
      [] OTHER -> {1}

\* What a peer may send next, well formed or not; Stray bounds the types that
\* come with another number than the expected one.
Stray == {"logon", "new_order"}
Inbound(types) ==
    (UNION {[type : {t}, seq : {n \in IF t \in Stray THEN (ses.in - 1) .. (ses.in + 1)
                                                  ELSE {ses.in} : n \in 1 .. MaxSeq},
             dup : {t \in OrderTypes}, arg : Arguments(t), form : {"valid"}] : t \in types})
        \cup [type : {"reject"}, seq : {ses.in} \cap 1 .. MaxSeq, dup : {FALSE}, arg : {1},
              form : {"malformed", "wrong_comp_ids"}]
-----------------------------------------------------------------------------
(* Market events, delayed reports, the clock and the session's own calls.  *)

MarketPass(r) ==
    LET reports == {r.upd[k] : k \in DOMAIN r.upd}
        seen == FoldLeft(LAMBDA v, u : [v EXCEPT ![u[1]] = u[2]], view, r.upd)
    IN  /\ book' = r.book /\ held' = r.acct.held
        /\ IF r.raised
           THEN /\ raised' = TRUE
                /\ UNCHANGED <<view, late, faults, ses>>
           ELSE /\ view' = seen
                /\ ses' = EmitMany(ses, Len(r.upd))
                /\ Hand(reports, reports # {}, faults)
                /\ UNCHANGED raised
        /\ UNCHANGED <<now, econ, submits>>

Failing == IF AccountingFails THEN SUBSET Active(book) ELSE {{}}
Account(fails) == [held |-> held, fails |-> fails]

BarOpen == \E bar \in Bars, fails \in Failing :
    /\ Active(book) # {}
    /\ MarketPass(Market!ProcessOpen(book, Account(fails), bar.open, now))

BarCompleted == \E bar \in Bars, fails \in Failing :
    /\ Active(book) # {}
    /\ MarketPass(Market!ProcessBar(book, Account(fails), bar.low, bar.high, now))

\* release_delayed: what is due is handed out.
ReleaseDelayed ==
    /\ \E answer \in late : answer.at <= now
    /\ late' = {answer \in late : answer.at > now}
    /\ UNCHANGED <<ses, now, book, held, econ, view, faults, submits, raised>>

Peer == /\ ses.out <= MaxOut
        /\ \E m \in Inbound(MessageTypes \ {"reject"}) : Handle(m)
PeerRaw == /\ ses.out <= MaxOut
           /\ \E m \in Inbound({"new_order", "cancel"}) : HandleRaw(m)

Logon == /\ ses.st \in {"disconnected", "terminated"} /\ ses.out <= MaxOut
         /\ ses' = Connect(ses, now) /\ UNCHANGED <<now, gwVars>>

\* FaultOrchestrator.reconnect: the delay fault, when due, defers this call.
Reconnect ==
    LET delayed == "reconnect_delay" \in faults
    IN  /\ ses.st = "disconnected" /\ ses.out <= MaxOut
        /\ IF delayed /\ now < ReconnectDelay THEN UNCHANGED ses ELSE ses' = Connect(ses, now)
        /\ faults' = faults \ {"reconnect_delay"}
        /\ UNCHANGED <<now, book, held, econ, view, late, submits, raised>>

Logout == /\ ses.st = "established" /\ ses.out <= MaxOut
          /\ ses' = RequestLogout(ses, now) /\ UNCHANGED <<now, gwVars>>

Timer == /\ ses.out <= MaxOut /\ Tick(ses, now) # ses
         /\ ses' = Tick(ses, now) /\ UNCHANGED <<now, gwVars>>

Disconnected == /\ ses.st # "disconnected" /\ ses' = Drop(ses) /\ UNCHANGED <<now, gwVars>>

Clock == /\ now < MaxTime /\ now' = now + 1
         /\ ses' = [ses EXCEPT !.rej = {}] /\ UNCHANGED gwVars

Next == \/ Peer \/ PeerRaw \/ BarOpen \/ BarCompleted \/ ReleaseDelayed
        \/ Logon \/ Reconnect \/ Logout \/ Timer \/ Disconnected \/ Clock

Spec == Init /\ [][Next]_vars
-----------------------------------------------------------------------------
(* Properties.                                                             *)

\* The position is what was held plus the filled orders, each counted once,
\* whatever raised or was delayed on the way (gateway.py:161, simulated.py:82).
InventoryExact ==
    LET filled(side) == {i \in Ids : book[i].st = "filled" /\ book[i].side = side}
    IN  held = Held + Quantity(book, filled("buy")) - Quantity(book, filled("sell"))

\* The sells at work never exceed what is held: no order of fills, cancellations
\* and new orders makes a spot position negative (gateway.py:138, 199, 226).
NeverOversold ==
    Spot => held >= Quantity(book, {i \in Active(book) : book[i].side = "sell"})

\* A ClOrdID makes at most one order, however often its message is repeated,
\* replayed after a gap, duplicated or resent after a reconnect (gateway.py:322).
OneOrderPerId == \A i \in Ids : submits[i] <= 1

\* Unless a market pass raised, what the gateway tells a client about an order
\* is what the broker did with it (gateway.py:411, 426).
ViewFollowsBroker == ~raised => \A i \in Ids : view[i] = book[i].st

\* A session waiting for a heartbeat knows since when (see TestKnown).
PendingTestKnown == TestKnown(ses)

\* What the gateway keeps about the position, its orders and the session agrees,
\* through every fault, gap, replay and accounting failure.
OrdersSound == TypeOK /\ InventoryExact /\ NeverOversold /\ OneOrderPerId /\ PendingTestKnown

\* Accepted messages keep their numbers and the expected number never goes back,
\* through resets, gaps, duplicates and reconnects.
AcceptedKept == [][KeepsAccepted(ses, ses')]_ses

\* A session waiting for a heartbeat is only restored in time, or by a reset
\* (MONITORING_AND_SIMULATED_FIX.md: a late heartbeat cannot falsely restore).
NoLateRestore ==
    [][ses.st = "test_request_pending" /\ ses'.st = "established"
           => now <= ses.deadline \/ ses'.acc[ses.in].type = "sequence_reset"]_ses
=============================================================================
