----------------------------- MODULE PaperVenue -----------------------------
(***************************************************************************)
(* The venue's side of one paper order: the record the venue keeps under   *)
(* the client order ID and what each venue operation does to it            *)
(* (paper/venues/internal.py).  The operators are pure; PaperBroker holds  *)
(* one such record per order in its variable `venue`.                      *)
(*                                                                         *)
(* Abstractions.  Quantities are small naturals, prices and balances are   *)
(* left out (they belong to PaperReservation).  venue_sequence is kept per *)
(* order: the code draws it from one run-wide counter, but compares        *)
(* sequences of one order only, so the order of an order's own events is   *)
(* all that matters.  A fill carries `upto`, the cumulative quantity just  *)
(* after it, which the code recomputes by adding fills up.                 *)
(***************************************************************************)
EXTENDS Integers, Sequences

CONSTANT Qty        \* submission.quantity, the same for every order

ASSUME QtyAssumption == Qty \in Nat \ {0}

\* VenueOrderState, with two values of ours: an order the venue never saw
\* ("none") and a request still travelling to it ("in_flight").
Terminal == {"filled", "cancelled", "rejected", "expired"}
Open == {"pending_ack", "acknowledged", "partially_filled", "cancel_pending", "unknown"}
OrderStates == Terminal \cup Open
VenueStates == OrderStates \cup {"none", "in_flight"}

\* What a query returns: the order's state, cumulative quantity, sequence.
Snapshots == [st : OrderStates, cum : Nat, seq : Nat]
NoSnapshot == [st |-> "none", cum |-> 0, seq |-> 0]
Nothing(ord) == ord = NoSnapshot

Fills == [qty : Nat \ {0}, upto : Nat, seq : Nat]

\* shown: how many of the fills the venue's fill endpoint already returns.
VenueOrders == [st : VenueStates, cum : Nat, seq : Nat, fills : Seq(Fills), shown : Nat]
NoVenueOrder == [st |-> "none", cum |-> 0, seq |-> 0, fills |-> <<>>, shown |-> 0]

Known(v) == v.st \notin {"none", "in_flight"}
Snapshot(v) == IF Known(v) THEN [st |-> v.st, cum |-> v.cum, seq |-> v.seq] ELSE NoSnapshot

\* Every event moves the order's sequence on.
Event(v, st) == [v EXCEPT !.st = st, !.seq = v.seq + 1]

Submitted(v, st) == Event(v, st)
CanAcknowledge(v) == v.st \in {"pending_ack", "unknown"}
Acknowledged(v) == Event(v, "acknowledged")

CanFill(v, q) == /\ v.st \in {"acknowledged", "partially_filled"}
                 /\ q \in 1 .. (Qty - v.cum)
Filled(v, q) ==
    [Event(v, IF v.cum + q = Qty THEN "filled" ELSE "partially_filled")
       EXCEPT !.cum = v.cum + q,
              !.fills = Append(v.fills, [qty |-> q, upto |-> v.cum + q, seq |-> v.seq + 1])]

\* The fill endpoint catches up with one more fill.
CanShow(v) == v.shown < Len(v.fills)
Shown(v) == [v EXCEPT !.shown = v.shown + 1]

\* reject() and expire() look at no state at all.
Rejected(v) == Event(v, "rejected")
Expired(v) == Event(v, "expired")

\* cancel_order(): a terminal order is returned as it is.
CancelRequested(v) == IF v.st \in Terminal THEN v ELSE Event(v, "cancel_pending")
CanCompleteCancel(v) == v.st = "cancel_pending"
Cancelled(v) == Event(v, "cancelled")

\* The quantity the venue still reserves for the order.
VenueReserved(v) == IF v.st \in Terminal \cup {"none", "in_flight"} THEN 0 ELSE Qty - v.cum

\* The sum of the first n fills.
FilledUpto(v, n) == IF n = 0 THEN 0 ELSE v.fills[n].upto
=============================================================================
