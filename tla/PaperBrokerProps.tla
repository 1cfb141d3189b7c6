-------------------------- MODULE PaperBrokerProps --------------------------
(***************************************************************************)
(* What PaperBroker must guarantee.                                        *)
(***************************************************************************)
EXTENDS PaperBroker

\* The venue may still execute the order, or may yet come to know it.
Exposed(o) == venue[o].st \in Open \cup {"in_flight"}

\* A reservation is given back or used up only when the venue can execute
\* nothing more of the order and every executed quantity has been booked.
\* (_release, _close_open_once, persist_order_observation: a timeout, a lost
\* answer or an incomplete fill list never frees the reservation.)
SafeRelease ==
    \A o \in Orders : db[o].res \in {"consumed", "released"} =>
        ~Exposed(o) /\ db[o].filled = venue[o].cum

\* The order counts against the open-order budget exactly while its
\* reservation is open, and open_order_count is the number of such orders.
\* (_reserve_and_enqueue, _release, _close_open_once and the compare-and-set
\* on counted_open.)
BudgetMatches ==
    /\ \A o \in Orders : db[o].counted <=> db[o].res = "open"
    /\ openCount = Cardinality(Counted)

\* No side effect reaches the venue before a durable claim of it: what the
\* venue was asked to do is on record as more than prepared or requested.
\* (claim_dispatch, claim_cancel, claim_expiry come before the venue call.)
ClaimedBeforeCall ==
    \A o \in Orders :
        /\ calls[o].submit > 0 => db[o].dis.st \notin {"none", "prepared"}
        /\ calls[o].cancel > 0 => db[o].can.st \notin {"none", "requested"}
        /\ calls[o].expire > 0 => db[o].exp.st \notin {"none", "requested"}

\* The order is sent to the venue at most once, whatever crashes, is retried
\* or is recovered.
SubmittedOnce == \A o \in Orders : calls[o].submit <= 1

\* A cancellation and an expiry are each sent at most once.
\* (Ambiguous ones are recovered by a query, never repeated.)
NeverRecancelled == \A o \in Orders : calls[o].cancel <= 1 /\ calls[o].expire <= 1

\* Every venue fill is booked at most once and in full: the booked quantity is
\* the sum of the booked fills, never more than the venue executed, and what
\* is still reserved is exactly what is not yet booked.
\* (persist_fill_bundle, reduce_reservation.)
FillsBookedOnce ==
    \A o \in Orders :
        /\ db[o].fills \subseteq 1 .. Len(venue[o].fills)
        /\ db[o].filled = MapThenSumSet(LAMBDA i : venue[o].fills[i].qty, db[o].fills)
        /\ db[o].filled <= venue[o].cum
        /\ db[o].res = "open" => db[o].resQty + db[o].filled = Qty

\* The projection never runs ahead of the venue, and a projection marked
\* complete has all of its cumulative quantity booked.
\* (persist_order_observation, fill_application_complete.)
ProjectionAgrees ==
    \A o \in Orders : LET p == db[o].proj IN
        p.on => /\ p.seq <= venue[o].seq /\ p.cum <= venue[o].cum
                /\ p.complete => p.cum = db[o].filled

\* One submission, and nothing sent before it is on record.
CallsSound == SubmittedOnce /\ ClaimedBeforeCall

\* What is booked and what is projected both follow the venue.
BookingSound == FillsBookedOnce /\ ProjectionAgrees

\* Once a terminal disposition is projected it stays; sequence and cumulative
\* quantity never go back.  (Disposition sticky in persist_order_observation.)
ProjectionMonotone ==
    [][\A o \in Orders : LET p == db[o].proj  q == db'[o].proj IN
          /\ p.disp # "active" => q.disp = p.disp
          /\ p.seq <= q.seq /\ p.cum <= q.cum]_vars

\* A budget slot and a reservation, once given back, are never taken again,
\* and the reserved quantity only shrinks.
BudgetNeverReopens ==
    [][\A o \in Orders : db[o].sub # "none" =>
          /\ db'[o].counted => db[o].counted
          /\ db'[o].res = "open" => db[o].res = "open"
          /\ db'[o].resQty <= db[o].resQty]_vars

\* An order reported closed has given its budget back: a terminal submission
\* state is only written together with the release.
ClosedMeansSettled ==
    \A o \in Orders : db[o].sub \in Terminal => ~db[o].counted /\ db[o].res # "open"

\* While a worker's claim of an outbox row is leased, only that worker takes the
\* row out of "claimed": neither a recoverer nor a crash of the owner does.
\* (claim_*_recovery refuses a live lease, complete_* checks the token.)
OnlyByOwner(box, next) ==
    box.st = "claimed" /\ box.lease > 0 /\ next.st # "claimed" => pc'[box.owner] # pc[box.owner]
LeaseRespected ==
    [][\A o \in Orders : /\ OnlyByOwner(db[o].dis, db'[o].dis)
                         /\ OnlyByOwner(db[o].can, db'[o].can)
                         /\ OnlyByOwner(db[o].exp, db'[o].exp)]_vars

\* Every ambiguous submission the venue knows of is eventually decided.
Undecided(o) == Ambiguous(db[o].dis) /\ Known(venue[o])
DispatchDecided == \A o \in Orders : Undecided(o) ~> ~Ambiguous(db[o].dis)

\* Once a cancelled order is terminal at the venue its reservation is
\* eventually given back or used up.
CancelledSettles ==
    \A o \in Orders : (db[o].can.st # "none" /\ venue[o].st \in Terminal) ~> db[o].res # "open"
-----------------------------------------------------------------------------
(* The order budget PaperBroker implements.                                *)

HoldOf(row) == IF row.res = "none" THEN "free" ELSE IF row.res = "open" THEN "held" ELSE "settled"
WorldOf(v) == IF v.st = "none" THEN "quiet" ELSE IF v.st \in Terminal THEN "closed" ELSE "live"

Budget == INSTANCE PaperOrderBudget WITH
              hold <- [o \in Orders |-> HoldOf(db[o])],
              world <- [o \in Orders |-> WorldOf(venue[o])],
              done <- [o \in Orders |-> venue[o].cum],
              booked <- [o \in Orders |-> db[o].filled]

\* PaperBroker implements the budget.
ImplementsBudget == Budget!BudgetSpec
=============================================================================
