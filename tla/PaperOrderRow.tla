---------------------------- MODULE PaperOrderRow ----------------------------
(***************************************************************************)
(* PostgreSQL's side of one paper order: the rows of the submission, its   *)
(* reservation, its three outboxes (dispatch, cancel, expiry), its         *)
(* projection and its append-only logs, as one record, and what every      *)
(* transaction of DurablePostgresPaperRepository does to them.             *)
(*                                                                         *)
(* Each transaction is a pair of pure operators: XxxOK(row, ...) says that *)
(* no check in it raises, Xxx(row, ...) is the committed result.  A        *)
(* transaction that raises leaves the record alone.                        *)
(*                                                                         *)
(* Abstractions.  A record hash is the data it covers: two rows with one   *)
(* identity "conflict" when that data differs.  A claim token is the       *)
(* worker that holds it (an outbox row is claimed once), a recovery token  *)
(* the last worker to claim the recovery (each claim bumps the generation  *)
(* and a worker is sequential).  A lease is the number of ticks it has     *)
(* left; `age` is how long ago the caller read the clock, so that          *)
(* lease_expires_at > at_utc is lease + age > 0.                           *)
(***************************************************************************)
EXTENDS PaperVenue, FiniteSets

CONSTANTS Workers,  \* worker ids
          Nobody,   \* NULL in claimed_by and recovery_claimed_by
          Lease,    \* lease_seconds, in ticks
          MaxAge    \* bound: a clock reading is used within this many ticks

ASSUME WorkersAssumption == Nobody \notin Workers
ASSUME LeaseAssumption == Lease \in Nat \ {0} /\ MaxAge \in Nat

\* PaperOrderState as the submission row uses it; "none" is no row.
SubStates == {"none", "prepared", "dispatch_claimed", "submission_unknown", "pending_ack",
              "acknowledged", "partially_filled", "filled", "cancel_requested",
              "cancel_pending", "cancel_unknown", "cancelled", "rejected", "expired",
              "pending_recovery"}
BoxStates == {"none", "prepared", "claimed", "acknowledged", "explicitly_rejected",
              "unknown", "recovered", "requested", "confirmed", "superseded"}
Ticks == (0 - MaxAge) .. Lease

\* One outbox row: dispatch, cancel or expiry.
Boxes == [st : BoxStates, owner : Workers \cup {Nobody}, lease : Ticks,
          rowner : Workers \cup {Nobody}, rlease : Ticks]
NoBox == [st |-> "none", owner |-> Nobody, lease |-> 0 - MaxAge,
          rowner |-> Nobody, rlease |-> 0 - MaxAge]

Projections == [on : BOOLEAN, seq : Nat, cum : Nat, observed : OrderStates \cup {"none"},
                disp : Terminal \cup {"active"}, auth : SubStates, complete : BOOLEAN]
NoProjection == [on |-> FALSE, seq |-> 0, cum |-> 0, observed |-> "none",
                 disp |-> "active", auth |-> "none", complete |-> TRUE]

Rows == [sub : SubStates, counted : BOOLEAN, res : {"none", "open", "consumed", "released"},
         resQty : Nat, fills : SUBSET Nat, filled : Nat,
         dis : Boxes, can : Boxes, exp : Boxes, proj : Projections,
         obs : SUBSET Snapshots,    \* paper_venue_order_observations
         ords : SUBSET Snapshots]   \* paper_orders
NoRow == [sub |-> "none", counted |-> FALSE, res |-> "none", resQty |-> 0,
          fills |-> {}, filled |-> 0, dis |-> NoBox, can |-> NoBox, exp |-> NoBox,
          proj |-> NoProjection, obs |-> {}, ords |-> {}]

\* The submission state a venue state maps to.
SubmissionState(st) == IF st = "unknown" THEN "pending_recovery" ELSE st

Incomplete(row) == row.proj.on /\ ~row.proj.complete
-----------------------------------------------------------------------------
(* Claims.                                                                 *)

Later(l) == IF l = 0 - MaxAge THEN l ELSE l - 1
BoxTick(box) == [box EXCEPT !.lease = Later(box.lease), !.rlease = Later(box.rlease)]
RowTick(row) == [row EXCEPT !.dis = BoxTick(row.dis), !.can = BoxTick(row.can),
                            !.exp = BoxTick(row.exp)]

Ambiguous(box) == box.st \in {"claimed", "unknown"}
\* A decided dispatch or cancellation: its leases are not read again, and of its
\* claim columns only the token of a cancellation.
Decided(st) == [NoBox EXCEPT !.st = st]
Claimed(box, w, age) == [box EXCEPT !.st = "claimed", !.owner = w, !.lease = Lease - age]

\* The worker's own claim, its lease not over: ordinary completion.
Holds(box, w, age) == Ambiguous(box) /\ box.owner = w /\ box.lease + age > 0
Active(box, w, age) == box.st = "claimed" /\ Holds(box, w, age)

\* Mutants: recovery ignores a live claim; recovery leaves a crashed claim alone.
RecoverableWhileLeased(box, age) == Ambiguous(box) /\ box.rlease + age <= 0
RecoverableIfUnknown(box, age) == box.st = "unknown" /\ box.rlease + age <= 0
\* Neither the claim nor an earlier recovery of it is still leased.
Recoverable(box, age) == /\ Ambiguous(box)
                         /\ box.st = "claimed" => box.lease + age <= 0
                         /\ box.rlease + age <= 0
\* Mutant: the recovery lease is counted from the wrong end of the reading.
RecoveryClaimedLate(box, w, age) == [box EXCEPT !.rowner = w, !.rlease = Lease + age]
RecoveryClaimed(box, w, age) == [box EXCEPT !.rowner = w, !.rlease = Lease - age]
HoldsRecovery(box, w, age) == Ambiguous(box) /\ box.rowner = w /\ box.rlease + age > 0
-----------------------------------------------------------------------------
(* Closing the order's budget.                                             *)

\* _release: only an open reservation changes.
Released(row, how) == IF row.res = "open" THEN [row EXCEPT !.res = how, !.resQty = 0] ELSE row
\* _close_open_once.
Closed(row) == [row EXCEPT !.counted = FALSE]
\* Mutant: the reservation is released and the open-order count forgotten.
SettledStillCounted(row, st) == Released(row, IF st = "filled" THEN "consumed" ELSE "released")
\* A terminal order whose fills are all applied: filled, or anything else.
Settled(row, st) == Closed(Released(row, IF st = "filled" THEN "consumed" ELSE "released"))

FillComplete(row, cum) == row.filled = cum
StateOf(row, ord) ==
    IF FillComplete(row, ord.cum) THEN SubmissionState(ord.st) ELSE "pending_recovery"
-----------------------------------------------------------------------------
(* Recording what the venue said.                                          *)

\* A log row of the same identity (submission, venue_sequence) but other data.
Conflict(log, ord) == \E e \in log : e.seq = ord.seq /\ e # ord

\* Mutant: the last terminal observation wins.
DispositionLatest(row, ord) == IF ord.st \in Terminal THEN ord.st ELSE "active"
Disposition(row, ord) == IF row.proj.disp # "active" THEN row.proj.disp
                         ELSE IF ord.st \in Terminal THEN ord.st ELSE "active"
Authority(row, ord) == IF ~FillComplete(row, ord.cum) THEN "pending_recovery"
                       ELSE IF Disposition(row, ord) # "active" THEN Disposition(row, ord)
                       ELSE SubmissionState(ord.st)
Canonical(row, ord) ==
    IF Disposition(row, ord) = "active" THEN ord ELSE [ord EXCEPT !.st = Disposition(row, ord)]

\* Mutant: a terminal order is settled before its fills are applied.
SettlesAtOnce(row, ord) == Disposition(row, ord) # "active"
Settles(row, ord) == Disposition(row, ord) # "active" /\ FillComplete(row, ord.cum)

\* The same observation again, and nothing learnt from it: return False early.
Unchanged(row, ord) == /\ row.proj.on /\ row.proj.seq = ord.seq /\ row.proj.cum = ord.cum
                       /\ row.proj.auth = Authority(row, ord)
                       /\ row.proj.complete = FillComplete(row, ord.cum)

\* Mutant: an older answer may overwrite a newer one.
ObserveOKAnyOrder(row, ord) ==
    /\ ~Conflict(row.obs, ord)
    /\ Unchanged(row, ord)
       \/ /\ ~Conflict(row.ords, Canonical(row, ord))
          /\ Settles(row, ord) /\ Disposition(row, ord) = "filled"
               => row.res # "open" /\ row.resQty = 0
ObserveOK(row, ord) ==
    /\ ~Conflict(row.obs, ord)
    /\ row.proj.on => row.proj.seq <= ord.seq /\ row.proj.cum <= ord.cum
    /\ Unchanged(row, ord)
       \/ /\ ~Conflict(row.ords, Canonical(row, ord))
          /\ Settles(row, ord) /\ Disposition(row, ord) = "filled"
               => row.res # "open" /\ row.resQty = 0

\* The projection, the log rows and the submission state after an observation.
Projected(row, ord) ==
    [row EXCEPT
       !.proj = [on |-> TRUE, seq |-> ord.seq, cum |-> ord.cum, observed |-> ord.st,
                 disp |-> Disposition(row, ord), auth |-> Authority(row, ord),
                 complete |-> FillComplete(row, ord.cum)],
       !.sub = Authority(row, ord),
       !.obs = @ \cup {ord},
       !.ords = @ \cup {Canonical(row, ord)}]

Observe(row, ord) ==
    IF Unchanged(row, ord) THEN row
    ELSE IF ~Settles(row, ord) THEN Projected(row, ord)
    ELSE IF Disposition(row, ord) = "filled" THEN Closed(Projected(row, ord))
    ELSE Settled(Projected(row, ord), Disposition(row, ord))
-----------------------------------------------------------------------------
(* Submission and dispatch.                                                *)

Blocked == [NoRow EXCEPT !.sub = "rejected"]
Enqueued == [NoRow EXCEPT !.sub = "prepared", !.counted = TRUE, !.res = "open",
                          !.resQty = Qty, !.dis.st = "prepared"]

ClaimDispatchOK(row) == row.dis.st = "prepared"
ClaimDispatch(row, w, age) ==
    [row EXCEPT !.dis = Claimed(row.dis, w, age), !.sub = "dispatch_claimed"]

ClaimDispatchRecovery(row, w, age) == [row EXCEPT !.dis = RecoveryClaimed(row.dis, w, age)]

\* complete_dispatch with the outcome "acknowledged" and the venue's answer.
\* The transition trigger lets only a claimed row become acknowledged.
AcknowledgeOK(row, w, ord) ==
    Holds(row.dis, w, 0) /\ row.dis.st = "claimed" /\ ~Conflict(row.ords, ord)
Acknowledge(row, ord) ==
    [row EXCEPT !.dis = Decided("acknowledged"), !.ords = @ \cup {ord},
                !.sub = IF FillComplete(row, ord.cum) THEN "pending_ack" ELSE "pending_recovery"]

\* complete_dispatch "explicitly_rejected".
RejectOK(row, w) == Holds(row.dis, w, 0) /\ row.dis.st = "claimed"
Reject(row) ==
    Settled([row EXCEPT !.dis = Decided("explicitly_rejected"), !.sub = "rejected"], "rejected")

\* Mutant: a submission without an answer gives its reservation back.
DispatchUnknownFrees(row) ==
    Settled([row EXCEPT !.dis.st = "unknown", !.sub = "submission_unknown"], "cancelled")
\* complete_dispatch "unknown", and complete_dispatch_recovery without an order.
DispatchUnknown(row) == [row EXCEPT !.dis.st = "unknown", !.sub = "submission_unknown"]

\* complete_dispatch "recovered", and complete_dispatch_recovery with an order.
DispatchRecovered(row, ord) ==
    LET r == [row EXCEPT !.dis = Decided("recovered"), !.sub = StateOf(row, ord),
                         !.ords = @ \cup {ord}]
    IN  IF ord.st \in Terminal /\ FillComplete(row, ord.cum) THEN Settled(r, ord.st) ELSE r
-----------------------------------------------------------------------------
(* Cancellation.                                                           *)

PrepareCancel(row) == IF row.can.st # "none" THEN row
                      ELSE [row EXCEPT !.can.st = "requested", !.sub = "cancel_requested"]
\* Mutant: an ambiguous cancellation is claimed once more.
ClaimCancelOKAgain(row) == row.can.st \in {"requested", "unknown"}
ClaimCancelOK(row) == row.can.st = "requested"
ClaimCancel(row, w, age) == [row EXCEPT !.can = Claimed(row.can, w, age)]
ClaimCancelRecovery(row, w, age) == [row EXCEPT !.can = RecoveryClaimed(row.can, w, age)]

CancelUnknown(row) == [row EXCEPT !.can.st = "unknown", !.sub = "cancel_unknown"]
\* complete_cancel(confirmed), complete_cancel_superseded, and the terminal
\* branch of complete_cancel_recovery.
CancelDone(row, ord) ==
    [Observe(row, ord) EXCEPT
       !.can = [Decided(IF ord.st = "cancelled" THEN "confirmed" ELSE "superseded")
                  EXCEPT !.owner = row.can.owner]]
\* What a venue answer makes of the cancellation, and whether it commits.
CancelOutcomeOK(row, ord) == ord.st \in Terminal => ObserveOK(row, ord)
CancelOutcome(row, ord) == IF ord.st \in Terminal THEN CancelDone(row, ord) ELSE CancelUnknown(row)
-----------------------------------------------------------------------------
(* Expiry.                                                                 *)

\* The strict insert: a row already claimed has another record hash.
PrepareExpiryOK(row) == row.exp.st \in {"none", "requested"}
PrepareExpiry(row) == [row EXCEPT !.exp.st = "requested"]
ClaimExpiryOK(row) == row.exp.st = "requested"
ClaimExpiry(row, w, age) == [row EXCEPT !.exp = Claimed(row.exp, w, age)]
ClaimExpiryRecovery(row, w, age) == [row EXCEPT !.exp = RecoveryClaimed(row.exp, w, age)]

ExpiryUnknown(row) == [row EXCEPT !.exp.st = "unknown"]
ExpiryOutcomeOK(row, ord) == ord.st \in Terminal => ObserveOK(row, ord)
ExpiryOutcome(row, ord) == IF ord.st \in Terminal
                           THEN [Observe(row, ord) EXCEPT !.exp.st = "confirmed"]
                           ELSE ExpiryUnknown(row)
-----------------------------------------------------------------------------
(* Fills: _durable_sync_fills_uncommitted for one order.  f is fill number *)
(* i of the venue, vo the venue order the fill is booked under.            *)

\* replace(venue_order, cumulative, state, sequence).
BookedOrder(row, f, vo) ==
    [st |-> IF vo.st \in {"cancelled", "expired", "rejected"} THEN vo.st
            ELSE IF row.filled + f.qty = Qty THEN "filled" ELSE "partially_filled",
     cum |-> row.filled + f.qty,
     seq |-> IF f.seq > vo.seq THEN f.seq ELSE vo.seq]

\* record_fill, the fee entry, and reduce_reservation while it is open.
Booked(row, i, f) ==
    LET r == [row EXCEPT !.fills = @ \cup {i}, !.filled = @ + f.qty]
    IN  IF row.res # "open" THEN r
        ELSE [r EXCEPT !.resQty = row.resQty - f.qty,
                       !.res = IF row.resQty = f.qty THEN "consumed" ELSE "open"]

PersistFillOK(row, i, f, vo) == /\ row.res = "open" => f.qty <= row.resQty
                                /\ ObserveOK(Booked(row, i, f), BookedOrder(row, f, vo))
PersistFill(row, i, f, vo) == Observe(Booked(row, i, f), BookedOrder(row, f, vo))

\* The fetched fills 1..n not yet in the ledger, in venue_sequence order.
\* Mutant: fills already in the ledger are booked again.
MissingAll(row, n) == 1 .. n
Missing(row, n) == (1 .. n) \ row.fills

\* The row after each of the venue's first n fills: the missing ones are booked
\* one after the other, in one transaction.
BookedUpto(row, fs, n, vo) ==
    LET booked[k \in 0 .. n] ==
            IF k = 0 THEN row
            ELSE IF k \in Missing(row, n) THEN PersistFill(booked[k - 1], k, fs[k], vo)
            ELSE booked[k - 1]
    IN  booked

\* The fills of an order the venue does not return are skipped.
SyncFillsOK(row, fs, n, vo) ==
    ~Nothing(vo) => \A k \in Missing(row, n) :
                        PersistFillOK(BookedUpto(row, fs, n, vo)[k - 1], k, fs[k], vo)
SyncFills(row, fs, n, vo) == IF Nothing(vo) THEN row ELSE BookedUpto(row, fs, n, vo)[n]

\* What is still reserved in PostgreSQL.
RowReserved(row) == IF row.res = "open" THEN row.resQty ELSE 0
=============================================================================
