----------------------------- MODULE PaperBroker -----------------------------
(***************************************************************************)
(* PaperTradingBroker (paper/broker.py): several workers of one paper run  *)
(* submit, query, cancel, expire, synchronise and recover orders.  A step  *)
(* of a worker is one PostgreSQL transaction, one venue call or one read   *)
(* of the clock and of what the venue shows; between two steps any other   *)
(* worker, the venue or a crash may come.                                  *)
(*                                                                         *)
(* pc[w] names the call the worker makes next, ctx[w] its local variables. *)
(* fresh[w][o] says that the worker's in-memory PaperAccounting agrees with *)
(* PostgreSQL on order o: a commit of another worker makes it stale,       *)
(* hydrate_from_postgres makes it fresh.  The worker's order cache is not  *)
(* modelled: it may or may not remember an order PostgreSQL has recorded.  *)
(***************************************************************************)
EXTENDS PaperOrderRow, FiniteSetsExt

CONSTANTS Orders,      \* client order ids the strategy may submit
          NoOrder,
          Jobs,        \* the operations workers start
          Outcomes,    \* how a submission may reach the venue
          MaxOpen,     \* maximum_open_orders
          MaxCrashes,  \* bound on worker crashes
          LagFills     \* may the fill endpoint lag behind the order

AllJobs == {"submit", "query", "sync", "cancel", "expire", "recover", "kill"}
AllOutcomes == {"accepted", "timeout", "unknown", "lost", "delayed", "rejected"}

ASSUME OrdersAssumption == IsFiniteSet(Orders) /\ NoOrder \notin Orders
ASSUME JobsAssumption == Jobs \subseteq AllJobs /\ Outcomes \subseteq AllOutcomes
ASSUME BoundsAssumption == MaxOpen \in Nat /\ MaxCrashes \in Nat /\ LagFills \in BOOLEAN

VARIABLES db,         \* the rows of each order
          openCount,  \* paper_run_risk_state.open_order_count
          kill,       \* the kill switch row
          venue,      \* the venue's record of each order
          calls,      \* side effects asked of the venue, per order
          pc, ctx, fresh, crashes

vars == <<db, openCount, kill, venue, calls, pc, ctx, fresh, crashes>>

Steps == {"idle", "claim", "send", "ack", "note", "amb", "rej",
          "query", "none", "fetch", "apply", "dis", "disrec", "can", "canrec", "hydrate",
          "syncfetch", "syncapply",
          "cclaim", "csend", "cobs", "cdone", "camb",
          "xclaim", "xsend", "xdone", "xamb", "xrec", "xquery", "xfetch", "xapply", "xrecdone"}

\* Steps that will use a clock reading taken earlier.
Dated == {"apply", "dis", "disrec", "can", "canrec", "cclaim", "xclaim", "xrec",
          "xapply", "xrecdone"}
IsDated(w) == pc[w] \in Dated \/ (pc[w] \in {"xsend", "xdone", "xamb"} /\ ctx[w].job = "expire")

NoFills == [o \in Orders |-> 0]
Rest == [o |-> NoOrder, job |-> "none", tok |-> FALSE, seen |-> NoSnapshot, got |-> NoFills,
         age |-> 0, suspect |-> FALSE]
Contexts == [o : Orders \cup {NoOrder}, job : AllJobs \cup {"none"}, tok : BOOLEAN,
             seen : Snapshots \cup {NoSnapshot}, got : [Orders -> Nat], age : 0 .. MaxAge,
             suspect : BOOLEAN]
Calls == [submit : Nat, cancel : Nat, expire : Nat]

TypeOK ==
    /\ db \in [Orders -> Rows]
    /\ openCount \in Nat
    /\ kill \in {"armed", "triggered"}
    /\ venue \in [Orders -> VenueOrders]
    /\ calls \in [Orders -> Calls]
    /\ pc \in [Workers -> Steps]
    /\ ctx \in [Workers -> Contexts]
    /\ fresh \in [Workers -> [Orders -> BOOLEAN]]
    /\ crashes \in 0 .. MaxCrashes

Init ==
    /\ db = [o \in Orders |-> NoRow]
    /\ openCount = 0
    /\ kill = "armed"
    /\ venue = [o \in Orders |-> NoVenueOrder]
    /\ calls = [o \in Orders |-> [submit |-> 0, cancel |-> 0, expire |-> 0]]
    /\ pc = [w \in Workers |-> "idle"]
    /\ ctx = [w \in Workers |-> Rest]
    /\ fresh = [w \in Workers |-> [o \in Orders |-> TRUE]]
    /\ crashes = 0
-----------------------------------------------------------------------------
(* Shared steps.                                                           *)

Counted == {o \in Orders : db[o].counted}

\* What PaperAccounting holds of the order.
Memory(row) == <<row.res, row.resQty, row.fills>>

\* Mutant: the counter is decremented without the compare-and-set.
CommitDecrementing(w, o, r, own) ==
    /\ db' = [db EXCEPT ![o] = r]
    /\ openCount' = IF ~r.counted /\ openCount > 0 THEN openCount - 1 ELSE openCount
    /\ fresh' = IF Memory(r) = Memory(db[o]) THEN fresh
                ELSE [x \in Workers |-> [fresh[x] EXCEPT ![o] = @ /\ own /\ x = w]]
\* Commit row r of order o.  Only the update that turns counted_open off
\* decrements open_order_count; `own` says that the worker's memory follows.
Commit(w, o, r, own) ==
    /\ db' = [db EXCEPT ![o] = r]
    /\ openCount' = IF db[o].counted /\ ~r.counted /\ openCount > 0
                    THEN openCount - 1 ELSE openCount
    /\ fresh' = IF Memory(r) = Memory(db[o]) THEN fresh
                ELSE [x \in Workers |-> [fresh[x] EXCEPT ![o] = @ /\ own /\ x = w]]

NoCommit == UNCHANGED <<db, openCount, fresh>>
Hydrate(w) == fresh' = [fresh EXCEPT ![w] = [o \in Orders |-> TRUE]]

Goto(w, step, c) == /\ pc' = [pc EXCEPT ![w] = step]
                    /\ ctx' = [ctx EXCEPT ![w] = c]
Done(w) == Goto(w, "idle", Rest)
\* The call returns: recover_unresolved goes on to hydrate.
Return(w) == IF ctx[w].job = "recover"
             THEN Goto(w, "hydrate", [Rest EXCEPT !.job = "recover"]) ELSE Done(w)

\* The call raises.  recover_unresolved swallows the exception and then
\* triggers the kill switch for a suspect order that is old enough.
Raise(w) ==
    /\ Return(w)
    /\ \/ UNCHANGED kill
       \/ ctx[w].suspect /\ kill = "armed" /\ kill' = "triggered"

Start(w, o, job, step) == Goto(w, step, [Rest EXCEPT !.o = o, !.job = job])
VenueQuiet == UNCHANGED <<venue, calls>>
-----------------------------------------------------------------------------
(* Submission: prepare_submission, _durable_submit, resume_submission.     *)

\* Mutants: resuming repeats an ambiguous submission; resuming skips the claim.
ResumeStepResends(row) == CASE row.dis.st = "prepared" -> "claim"
                            [] row.dis.st = "claimed" -> "query"
                            [] row.dis.st = "unknown" -> "send"
                            [] OTHER -> "idle"

\* resume_submission dispatches on the dispatch row.
ResumeStep(row) == CASE row.dis.st = "prepared" -> "claim"
                     [] Ambiguous(row.dis) -> "query"
                     [] OTHER -> "idle"

\* Mutant: the open-order limit is not checked.
RiskBlocksNoLimit == \/ \E o \in Orders : Incomplete(db[o])
                     \/ openCount # Cardinality(Counted)

RiskBlocks == \/ \E o \in Orders : Incomplete(db[o])
              \/ openCount # Cardinality(Counted)
              \/ openCount >= MaxOpen

PrepareNew(w, o) ==
    /\ "submit" \in Jobs /\ pc[w] = "idle" /\ db[o].sub = "none" /\ kill = "armed"
    /\ IF RiskBlocks
       THEN /\ db' = [db EXCEPT ![o] = Blocked]
            /\ UNCHANGED <<openCount, fresh, pc, ctx>>
       ELSE /\ db' = [db EXCEPT ![o] = Enqueued]
            /\ openCount' = openCount + 1
            /\ fresh' = [x \in Workers |-> IF x = w THEN [p \in Orders |-> TRUE]
                                           ELSE [fresh[x] EXCEPT ![o] = FALSE]]
            /\ Start(w, o, "submit", "claim")
    /\ VenueQuiet /\ UNCHANGED <<kill, crashes>>

\* The same intent again: no new row, the stored submission is resumed.
PrepareReplay(w, o) ==
    /\ "submit" \in Jobs /\ pc[w] = "idle" /\ ResumeStep(db[o]) # "idle"
    /\ Start(w, o, "submit", ResumeStep(db[o]))
    /\ Hydrate(w) /\ VenueQuiet /\ UNCHANGED <<db, openCount, kill, crashes>>

\* claim_dispatch; a dispatch already decided yields no token, and the
\* caller goes on without one.
Claim(w) ==
    LET o == ctx[w].o
        row == db[o]
    IN  /\ pc[w] = "claim"
        /\ \/ /\ ClaimDispatchOK(row)
              /\ Commit(w, o, ClaimDispatch(row, w, 0), TRUE)
              /\ Goto(w, "send", [ctx[w] EXCEPT !.tok = TRUE])
              /\ UNCHANGED kill
           \/ /\ row.dis.st \in {"acknowledged", "explicitly_rejected", "recovered"}
              /\ Goto(w, "send", ctx[w])
              /\ NoCommit /\ UNCHANGED kill
           \/ Ambiguous(row.dis) /\ Raise(w) /\ NoCommit
        /\ VenueQuiet /\ UNCHANGED crashes

\* venue.submit_order; the request may be answered, lost, delayed, or its
\* answer may be lost.  A known client order ID is answered from the venue's
\* own record.
Send(w) ==
    LET o == ctx[w].o
        v == venue[o]
    IN  /\ pc[w] = "send"
        /\ calls' = [calls EXCEPT ![o].submit = @ + 1]
        /\ \/ /\ Known(v)
              /\ \/ Goto(w, "ack", [ctx[w] EXCEPT !.seen = Snapshot(v)])
                 \/ Outcomes \cap {"timeout", "lost"} # {} /\ Goto(w, "amb", ctx[w])
              /\ UNCHANGED venue
           \/ /\ ~Known(v) /\ "accepted" \in Outcomes
              /\ venue' = [venue EXCEPT ![o] = Submitted(v, "pending_ack")]
              /\ Goto(w, "ack", [ctx[w] EXCEPT !.seen = Snapshot(venue'[o])])
           \/ /\ ~Known(v) /\ "timeout" \in Outcomes
              /\ venue' = [venue EXCEPT ![o] = Submitted(v, "pending_ack")]
              /\ Goto(w, "amb", ctx[w])
           \/ /\ ~Known(v) /\ "unknown" \in Outcomes
              /\ venue' = [venue EXCEPT ![o] = Submitted(v, "unknown")]
              /\ Goto(w, "amb", ctx[w])
           \/ /\ ~Known(v) /\ "delayed" \in Outcomes
              /\ venue' = [venue EXCEPT ![o].st = "in_flight"]
              /\ Goto(w, "amb", ctx[w])
           \/ /\ ~Known(v) /\ "lost" \in Outcomes
              /\ Goto(w, "amb", ctx[w]) /\ UNCHANGED venue
           \/ /\ ~Known(v) /\ "rejected" \in Outcomes
              /\ Goto(w, "rej", ctx[w]) /\ UNCHANGED venue
        /\ NoCommit /\ UNCHANGED <<kill, crashes>>

\* complete_dispatch("acknowledged"); if it raises, the outcome is unknown.
Ack(w) ==
    LET o == ctx[w].o
        ord == ctx[w].seen
    IN  /\ pc[w] = "ack"
        /\ IF ctx[w].tok /\ AcknowledgeOK(db[o], w, ord)
           THEN Commit(w, o, Acknowledge(db[o], ord), TRUE) /\ Goto(w, "note", ctx[w])
           ELSE NoCommit /\ Goto(w, "amb", ctx[w])
        /\ VenueQuiet /\ UNCHANGED <<kill, crashes>>

\* persist_order_observation of the submit response, its own transaction.
Note(w) ==
    LET o == ctx[w].o
        ord == ctx[w].seen
    IN  /\ pc[w] = "note"
        /\ IF ObserveOK(db[o], ord)
           THEN Commit(w, o, Observe(db[o], ord), TRUE) /\ Return(w)
           ELSE NoCommit /\ Goto(w, "amb", ctx[w])
        /\ VenueQuiet /\ UNCHANGED <<kill, crashes>>

\* complete_dispatch("unknown").
MarkUnknown(w) ==
    LET o == ctx[w].o
    IN  /\ pc[w] = "amb"
        /\ \/ /\ ctx[w].tok /\ Holds(db[o].dis, w, 0)
              /\ Commit(w, o, DispatchUnknown(db[o]), TRUE)
              /\ Return(w) /\ UNCHANGED kill
           \/ /\ ~(ctx[w].tok /\ Holds(db[o].dis, w, 0))
              /\ NoCommit /\ Raise(w)
        /\ VenueQuiet /\ UNCHANGED crashes

\* complete_dispatch("explicitly_rejected"), then hydrate_accounting.
MarkRejected(w) ==
    LET o == ctx[w].o
    IN  /\ pc[w] = "rej"
        /\ \/ /\ ctx[w].tok /\ RejectOK(db[o], w)
              /\ Commit(w, o, Reject(db[o]), TRUE)
              /\ Return(w) /\ UNCHANGED kill
           \/ /\ ~(ctx[w].tok /\ RejectOK(db[o], w))
              /\ NoCommit /\ Raise(w)
        /\ VenueQuiet /\ UNCHANGED crashes
-----------------------------------------------------------------------------
(* query_order, with _recovery_evidence and _durable_sync_fills.           *)

StartQuery(w, o) ==
    /\ "query" \in Jobs /\ pc[w] = "idle" /\ db[o].sub # "none"
    /\ Start(w, o, "query", "query")
    /\ NoCommit /\ VenueQuiet /\ UNCHANGED <<kill, crashes>>

\* The venue's answer contradicts a terminal order the worker may remember.
Reverted(o, ord) == \E e \in db[o].ords : e.st \in Terminal /\ e.st # ord.st

\* venue.query_order and the comparison with the remembered order.
Query(w) ==
    LET o == ctx[w].o
        ord == Snapshot(venue[o])
    IN  /\ pc[w] = "query"
        /\ \/ ~Known(venue[o]) /\ Goto(w, "none", ctx[w]) /\ UNCHANGED kill
           \/ /\ Known(venue[o])
              /\ Goto(w, "fetch", [ctx[w] EXCEPT !.seen = ord]) /\ UNCHANGED kill
           \/ Known(venue[o]) /\ Reverted(o, ord) /\ Raise(w)
        /\ NoCommit /\ VenueQuiet /\ UNCHANGED crashes

\* No order at the venue: the evidence is recorded, its clock reading kept.
QueryNone(w) ==
    /\ pc[w] = "none"
    /\ Goto(w, "dis", [ctx[w] EXCEPT !.age = 0])
    /\ NoCommit /\ VenueQuiet /\ UNCHANGED <<kill, crashes>>

\* fetch_fills, some time after the order was read; then the clock.
Fetch(w) ==
    /\ pc[w] = "fetch"
    /\ Goto(w, "apply", [ctx[w] EXCEPT !.age = 0,
                                     !.got = [NoFills EXCEPT ![ctx[w].o] = venue[ctx[w].o].shown]])
    /\ NoCommit /\ VenueQuiet /\ UNCHANGED <<kill, crashes>>

\* fill_evidence_complete: the fetched fills add up to the order's quantity.
EvidenceComplete(o, n, ord) == FilledUpto(venue[o], n) = ord.cum

\* assert_reservation_consistency: PostgreSQL, accounting and venue agree.
ReservationsAgree(w, o, row) == fresh[w][o] /\ RowReserved(row) = VenueReserved(venue[o])

\* The synchronisation of one order inside a transaction: its missing fills,
\* booked under vo, then the reservation check if any fill was fetched.
SyncOK(w, o, n, vo) ==
    /\ SyncFillsOK(db[o], venue[o].fills, n, vo)
    /\ n > 0 => ReservationsAgree(w, o, SyncFills(db[o], venue[o].fills, n, vo))
Synced(o, n, vo) == SyncFills(db[o], venue[o].fills, n, vo)

\* _durable_sync_fills(bundle): the queried order, if any, is observed last.  A
\* failure rolls everything back and hydrates.
BundleOK(w, o, n, ord) == /\ SyncOK(w, o, n, ord)
                          /\ ~Nothing(ord) => ObserveOK(Synced(o, n, ord), ord)
Bundled(o, n, ord) == IF Nothing(ord) THEN Synced(o, n, ord)
                      ELSE Observe(Synced(o, n, ord), ord)

Apply(w) ==
    LET o == ctx[w].o
        n == ctx[w].got[o]
        ord == ctx[w].seen
        next == [ctx[w] EXCEPT !.got = NoFills]
    IN  /\ pc[w] = "apply"
        /\ \/ /\ EvidenceComplete(o, n, ord) /\ BundleOK(w, o, n, ord)
              /\ Commit(w, o, Bundled(o, n, ord), n > 0)
              /\ Goto(w, "dis", next) /\ UNCHANGED kill
           \/ /\ EvidenceComplete(o, n, ord) /\ ~BundleOK(w, o, n, ord)
              /\ Hydrate(w) /\ Raise(w) /\ UNCHANGED <<db, openCount>>
           \/ /\ ~EvidenceComplete(o, n, ord) /\ ObserveOK(db[o], ord)
              /\ Commit(w, o, Observe(db[o], ord), FALSE)
              /\ Goto(w, "dis", next) /\ UNCHANGED kill
           \/ /\ ~EvidenceComplete(o, n, ord) /\ ~ObserveOK(db[o], ord)
              /\ Raise(w) /\ NoCommit
        /\ VenueQuiet /\ UNCHANGED crashes

\* The dispatch outbox: the worker's own live claim is completed in place, a
\* claim nobody leases is taken over for recovery, any other is left alone.
QueryDispatch(w) ==
    LET o == ctx[w].o
        c == ctx[w]
        row == db[o]
        relevant == Ambiguous(row.dis) /\ c.seen.st # "unknown"
        active == Active(row.dis, w, c.age)
    IN  /\ pc[w] = "dis"
        /\ \/ /\ relevant /\ active /\ Nothing(c.seen)
              /\ Commit(w, o, DispatchUnknown(row), TRUE)
              /\ Goto(w, "can", c) /\ UNCHANGED kill
           \/ /\ relevant /\ active /\ ~Nothing(c.seen) /\ ~Conflict(row.ords, c.seen)
              /\ Commit(w, o, DispatchRecovered(row, c.seen), FALSE)
              /\ Goto(w, "can", c) /\ UNCHANGED kill
           \/ /\ relevant /\ active /\ ~Nothing(c.seen) /\ Conflict(row.ords, c.seen)
              /\ NoCommit /\ Raise(w)
           \/ /\ relevant /\ ~active /\ Recoverable(row.dis, c.age)
              /\ Commit(w, o, ClaimDispatchRecovery(row, w, c.age), TRUE)
              /\ Goto(w, "disrec", c) /\ UNCHANGED kill
           \/ /\ relevant => ~active /\ ~Recoverable(row.dis, c.age)
              /\ NoCommit /\ Goto(w, "can", c) /\ UNCHANGED kill
        /\ VenueQuiet /\ UNCHANGED crashes

\* complete_dispatch_recovery, fenced by the recovery token and its lease.
RecoverDispatch(w) ==
    LET o == ctx[w].o
        c == ctx[w]
        row == db[o]
        holds == HoldsRecovery(row.dis, w, c.age)
    IN  /\ pc[w] = "disrec"
        /\ \/ /\ holds /\ Nothing(c.seen)
              /\ Commit(w, o, DispatchUnknown(row), TRUE)
              /\ Goto(w, "can", c) /\ UNCHANGED kill
           \/ /\ holds /\ ~Nothing(c.seen) /\ ~Conflict(row.ords, c.seen)
              /\ Commit(w, o, DispatchRecovered(row, c.seen), FALSE)
              /\ Goto(w, "can", c) /\ UNCHANGED kill
           \/ /\ holds => ~Nothing(c.seen) /\ Conflict(row.ords, c.seen)
              /\ NoCommit /\ Raise(w)
        /\ VenueQuiet /\ UNCHANGED crashes

\* After the outboxes: a query that found nothing returns at once, the others
\* hydrate first.
QueryEnd(w) == IF Nothing(ctx[w].seen) THEN Return(w)
               ELSE Goto(w, "hydrate", [Rest EXCEPT !.job = ctx[w].job])

\* The cancel outbox, by the same rules; a live own claim waits for a terminal
\* order.
QueryCancel(w) ==
    LET o == ctx[w].o
        c == ctx[w]
        row == db[o]
        active == Active(row.can, w, c.age)
        answers == Nothing(c.seen) \/ c.seen.st \in Terminal
    IN  /\ pc[w] = "can"
        /\ \/ /\ active /\ answers /\ CancelOutcomeOK(row, c.seen)
              /\ Commit(w, o, CancelOutcome(row, c.seen), FALSE)
              /\ QueryEnd(w) /\ UNCHANGED kill
           \/ /\ active /\ answers /\ ~CancelOutcomeOK(row, c.seen)
              /\ NoCommit /\ Raise(w)
           \/ /\ ~active /\ Recoverable(row.can, c.age)
              /\ Commit(w, o, ClaimCancelRecovery(row, w, c.age), TRUE)
              /\ Goto(w, "canrec", c) /\ UNCHANGED kill
           \/ /\ IF active THEN ~answers ELSE ~Recoverable(row.can, c.age)
              /\ NoCommit /\ QueryEnd(w) /\ UNCHANGED kill
        /\ VenueQuiet /\ UNCHANGED crashes

\* complete_cancel_recovery.
RecoverCancel(w) ==
    LET o == ctx[w].o
        c == ctx[w]
        row == db[o]
        holds == HoldsRecovery(row.can, w, c.age)
    IN  /\ pc[w] = "canrec"
        /\ \/ /\ holds /\ CancelOutcomeOK(row, c.seen)
              /\ Commit(w, o, CancelOutcome(row, c.seen), FALSE)
              /\ QueryEnd(w) /\ UNCHANGED kill
           \/ /\ ~(holds /\ CancelOutcomeOK(row, c.seen))
              /\ NoCommit /\ Raise(w)
        /\ VenueQuiet /\ UNCHANGED crashes

\* hydrate_from_postgres at the end of a call.
HydrateStep(w) ==
    /\ pc[w] = "hydrate"
    /\ Hydrate(w) /\ Done(w)
    /\ VenueQuiet /\ UNCHANGED <<db, openCount, kill, crashes>>
-----------------------------------------------------------------------------
(* sync_fills: all orders, without a recovery bundle.                      *)

StartSync(w) ==
    /\ "sync" \in Jobs /\ pc[w] = "idle"
    /\ Goto(w, "syncfetch", [Rest EXCEPT !.job = "sync"])
    /\ NoCommit /\ VenueQuiet /\ UNCHANGED <<kill, crashes>>

SyncFetch(w) ==
    /\ pc[w] = "syncfetch"
    /\ Goto(w, "syncapply", [ctx[w] EXCEPT !.got = [o \in Orders |-> venue[o].shown]])
    /\ NoCommit /\ VenueQuiet /\ UNCHANGED <<kill, crashes>>

\* One transaction books the missing fills of every order, each under the
\* venue order of the moment; all of them or none.
SyncApply(w) ==
    LET got == ctx[w].got
        ok == \A o \in Orders : SyncOK(w, o, got[o], Snapshot(venue[o]))
        synced == [o \in Orders |-> Synced(o, got[o], Snapshot(venue[o]))]
        closed == {o \in Counted : ~synced[o].counted}
    IN  /\ pc[w] = "syncapply"
        /\ \/ /\ ok
              /\ db' = synced
              /\ openCount' = IF Cardinality(closed) > openCount THEN 0
                              ELSE openCount - Cardinality(closed)
              /\ fresh' = [x \in Workers |-> [o \in Orders |->
                              fresh[x][o] /\ (x = w \/ Memory(synced[o]) = Memory(db[o]))]]
           \/ ~ok /\ Hydrate(w) /\ UNCHANGED <<db, openCount>>
        /\ Done(w) /\ VenueQuiet /\ UNCHANGED <<kill, crashes>>
-----------------------------------------------------------------------------
(* _durable_cancel, and recover_unresolved's resumption of it.             *)

\* prepare_cancel needs a dispatch row; at_utc is read here.
StartCancel(w, o) ==
    /\ "cancel" \in Jobs /\ pc[w] = "idle" /\ db[o].dis.st # "none"
    /\ Commit(w, o, PrepareCancel(db[o]), TRUE)
    /\ Start(w, o, "cancel", "cclaim")
    /\ VenueQuiet /\ UNCHANGED <<kill, crashes>>

CClaim(w) ==
    LET o == ctx[w].o
    IN  /\ pc[w] = "cclaim"
        /\ \/ /\ ClaimCancelOK(db[o])
              /\ Commit(w, o, ClaimCancel(db[o], w, ctx[w].age), TRUE)
              /\ Goto(w, "csend", ctx[w]) /\ UNCHANGED kill
           \/ ~ClaimCancelOK(db[o]) /\ NoCommit /\ Raise(w)
        /\ VenueQuiet /\ UNCHANGED crashes

\* An exception after the claim: _durable_cancel records cancel_unknown.
CancelRaises(w) == IF ctx[w].job = "cancel" THEN Goto(w, "camb", ctx[w]) /\ UNCHANGED kill
                   ELSE Raise(w)

\* The answer: an order still open is first observed by _durable_cancel.
CancelAnswered(w, ord) ==
    Goto(w, IF ctx[w].job = "cancel" /\ ord.st \notin Terminal THEN "cobs" ELSE "cdone",
         [ctx[w] EXCEPT !.seen = ord])

\* venue.cancel_order; a request or its answer may be lost.
CSend(w) ==
    LET o == ctx[w].o
        v == venue[o]
    IN  /\ pc[w] = "csend"
        /\ calls' = [calls EXCEPT ![o].cancel = @ + 1]
        /\ \/ ~Known(v) /\ CancelRaises(w) /\ UNCHANGED venue
           \/ /\ Known(v)
              /\ venue' = [venue EXCEPT ![o] = CancelRequested(v)]
              /\ CancelAnswered(w, Snapshot(venue'[o])) /\ UNCHANGED kill
           \/ /\ Known(v) /\ "timeout" \in Outcomes
              /\ venue' = [venue EXCEPT ![o] = CancelRequested(v)] /\ CancelRaises(w)
           \/ /\ Known(v) /\ "lost" \in Outcomes
              /\ CancelRaises(w) /\ UNCHANGED venue
        /\ NoCommit /\ UNCHANGED crashes

\* persist_order_observation of the cancel response, its own transaction.
CObs(w) ==
    LET o == ctx[w].o
        ord == ctx[w].seen
    IN  /\ pc[w] = "cobs"
        /\ IF ObserveOK(db[o], ord)
           THEN Commit(w, o, Observe(db[o], ord), FALSE) /\ Goto(w, "cdone", ctx[w])
           ELSE NoCommit /\ Goto(w, "camb", ctx[w])
        /\ VenueQuiet /\ UNCHANGED <<kill, crashes>>

\* _complete_active_cancel, fenced by the claim.  A cancellation a recovery
\* has confirmed meanwhile is left as it is; only a confirmed one refreshes the
\* accounting.
CDone(w) ==
    LET o == ctx[w].o
        ord == ctx[w].seen
        box == db[o].can
        again == box.st = "confirmed" /\ box.owner = w /\ ord.st = "cancelled"
        ok == again \/ (Holds(box, w, 0) /\ CancelOutcomeOK(db[o], ord))
    IN  /\ pc[w] = "cdone"
        /\ \/ /\ ok
              /\ Commit(w, o, IF again THEN db[o] ELSE CancelOutcome(db[o], ord), FALSE)
              /\ IF ord.st = "cancelled" \/ ctx[w].job = "recover"
                 THEN Goto(w, "hydrate", [Rest EXCEPT !.job = ctx[w].job])
                 ELSE Done(w)
              /\ UNCHANGED kill
           \/ ~ok /\ NoCommit /\ CancelRaises(w)
        /\ VenueQuiet /\ UNCHANGED crashes

\* complete_cancel(confirmed=False), then the exception is raised again.
CAmb(w) ==
    LET o == ctx[w].o
    IN  /\ pc[w] = "camb"
        /\ IF Holds(db[o].can, w, 0) THEN Commit(w, o, CancelUnknown(db[o]), FALSE) ELSE NoCommit
        /\ Done(w) /\ VenueQuiet /\ UNCHANGED <<kill, crashes>>
-----------------------------------------------------------------------------
(* expire_remaining_orders, and recover_unresolved's resumption of it.     *)

\* prepare_expiry for one open order; expired_at_utc is read here and used to
\* the end of the call.
StartExpire(w, o) ==
    /\ "expire" \in Jobs /\ pc[w] = "idle" /\ db[o].sub # "none"
    /\ venue[o].st \in Open /\ PrepareExpiryOK(db[o])
    /\ Commit(w, o, PrepareExpiry(db[o]), TRUE)
    /\ Start(w, o, "expire", "xclaim")
    /\ VenueQuiet /\ UNCHANGED <<kill, crashes>>

XClaim(w) ==
    LET o == ctx[w].o
    IN  /\ pc[w] = "xclaim"
        /\ \/ /\ ClaimExpiryOK(db[o])
              /\ Commit(w, o, ClaimExpiry(db[o], w, ctx[w].age), TRUE)
              /\ Goto(w, "xsend", IF ctx[w].job = "expire" THEN ctx[w]
                                  ELSE [ctx[w] EXCEPT !.age = 0])
              /\ UNCHANGED kill
           \/ ~ClaimExpiryOK(db[o]) /\ NoCommit /\ Raise(w)
        /\ VenueQuiet /\ UNCHANGED crashes

ExpireRaises(w) == IF ctx[w].job = "expire" THEN Goto(w, "xamb", ctx[w]) /\ UNCHANGED kill
                   ELSE Raise(w)

\* venue.expire: whatever the order's state, unless the venue has expired it
\* already (its command identity is then taken).
XSend(w) ==
    LET o == ctx[w].o
        v == venue[o]
    IN  /\ pc[w] = "xsend"
        /\ calls' = [calls EXCEPT ![o].expire = @ + 1]
        /\ \/ /\ v.st # "expired"
              /\ venue' = [venue EXCEPT ![o] = Expired(v)]
              /\ Goto(w, "xdone", [ctx[w] EXCEPT !.seen = Snapshot(venue'[o])])
              /\ UNCHANGED kill
           \/ v.st = "expired" /\ ExpireRaises(w) /\ UNCHANGED venue
        /\ NoCommit /\ UNCHANGED crashes

\* complete_expiry(confirmed=True).  It checks the token and the lease; the
\* transition trigger lets a confirmed row be confirmed again.
XDone(w) ==
    LET o == ctx[w].o
        ord == ctx[w].seen
        box == db[o].exp
        ok == /\ box.st \in {"claimed", "unknown", "confirmed"} /\ box.owner = w
              /\ box.lease + ctx[w].age > 0
              /\ ObserveOK(db[o], ord)
    IN  /\ pc[w] = "xdone"
        /\ \/ /\ ok
              /\ Commit(w, o, ExpiryOutcome(db[o], ord), FALSE)
              /\ Goto(w, "hydrate", [Rest EXCEPT !.job = ctx[w].job]) /\ UNCHANGED kill
           \/ ~ok /\ NoCommit /\ ExpireRaises(w)
        /\ VenueQuiet /\ UNCHANGED crashes

\* complete_expiry(confirmed=False), then the exception is raised again.
XAmb(w) ==
    LET o == ctx[w].o
    IN  /\ pc[w] = "xamb"
        /\ IF Holds(db[o].exp, w, ctx[w].age)
           THEN Commit(w, o, ExpiryUnknown(db[o]), TRUE) ELSE NoCommit
        /\ Done(w) /\ VenueQuiet /\ UNCHANGED <<kill, crashes>>
-----------------------------------------------------------------------------
(* recover_unresolved for one submission.                                  *)

\* Mutant: a cancellation without an answer is not looked at again.
RecoverStepNoCancel(row) ==
    CASE row.exp.st = "requested" -> "xclaim"
      [] Ambiguous(row.exp) -> "xrec"
      [] row.can.st = "requested" -> "cclaim"
      [] OTHER -> IF Incomplete(row) \/ row.sub = "pending_recovery" THEN "query"
                  ELSE ResumeStep(row)

RecoverStep(row) ==
    CASE row.exp.st = "requested" -> "xclaim"
      [] Ambiguous(row.exp) -> "xrec"
      [] row.can.st = "requested" -> "cclaim"
      [] Ambiguous(row.can) -> "query"
      [] OTHER -> IF Incomplete(row) \/ row.sub = "pending_recovery" THEN "query"
                  ELSE ResumeStep(row)

\* The rows are read and the clock is taken; an order that has been unknown
\* or incomplete for too long is suspect.
StartRecover(w, o) ==
    /\ "recover" \in Jobs /\ pc[w] = "idle" /\ db[o].sub # "none"
    /\ RecoverStep(db[o]) # "idle"
    /\ Goto(w, RecoverStep(db[o]),
            [Rest EXCEPT !.o = o, !.job = "recover",
                         !.suspect = Incomplete(db[o]) \/ db[o].sub = "pending_recovery"])
    /\ NoCommit /\ VenueQuiet /\ UNCHANGED <<kill, crashes>>

\* claim_expiry_recovery.
XRec(w) ==
    LET o == ctx[w].o
    IN  /\ pc[w] = "xrec"
        /\ \/ /\ Recoverable(db[o].exp, ctx[w].age)
              /\ Commit(w, o, ClaimExpiryRecovery(db[o], w, ctx[w].age), TRUE)
              /\ Goto(w, "xquery", [ctx[w] EXCEPT !.age = 0]) /\ UNCHANGED kill
           \/ /\ ~Recoverable(db[o].exp, ctx[w].age)
              /\ NoCommit /\ Return(w) /\ UNCHANGED kill
        /\ VenueQuiet /\ UNCHANGED crashes

\* _recovery_evidence reads the order, then its fills, then the clock.  An
\* expiry is only ever asked of an order the venue knows.
XQuery(w) ==
    /\ pc[w] = "xquery"
    /\ Goto(w, "xfetch", [ctx[w] EXCEPT !.seen = Snapshot(venue[ctx[w].o])])
    /\ NoCommit /\ VenueQuiet /\ UNCHANGED <<kill, crashes>>
XFetch(w) ==
    LET o == ctx[w].o
    IN  /\ pc[w] = "xfetch"
        /\ Goto(w, "xapply", [ctx[w] EXCEPT !.got = [NoFills EXCEPT ![o] = venue[o].shown]])
        /\ NoCommit /\ VenueQuiet /\ UNCHANGED <<kill, crashes>>

\* With complete evidence the fills are booked and the order observed; without
\* it only the bundle is kept.
XApply(w) ==
    LET o == ctx[w].o
        n == ctx[w].got[o]
        ord == ctx[w].seen
        complete == EvidenceComplete(o, n, ord)
        next == [ctx[w] EXCEPT !.got = NoFills]
    IN  /\ pc[w] = "xapply"
        /\ \/ /\ complete /\ BundleOK(w, o, n, ord)
              /\ Commit(w, o, Bundled(o, n, ord), n > 0)
              /\ Goto(w, "xrecdone", next) /\ UNCHANGED kill
           \/ /\ complete /\ ~BundleOK(w, o, n, ord)
              /\ Hydrate(w) /\ Raise(w) /\ UNCHANGED <<db, openCount>>
           \/ /\ ~complete
              /\ NoCommit /\ Goto(w, "xrecdone", next) /\ UNCHANGED kill
        /\ VenueQuiet /\ UNCHANGED crashes

\* complete_expiry_recovery: token and lease, and again the trigger.
XRecDone(w) ==
    LET o == ctx[w].o
        ord == ctx[w].seen
        box == db[o].exp
        ok == /\ Ambiguous(box) \/ (box.st = "confirmed" /\ ord.st \in Terminal)
              /\ box.rowner = w /\ box.rlease + ctx[w].age > 0
              /\ ExpiryOutcomeOK(db[o], ord)
    IN  /\ pc[w] = "xrecdone"
        /\ \/ /\ ok
              /\ Commit(w, o, ExpiryOutcome(db[o], ord), FALSE)
              /\ Return(w) /\ UNCHANGED kill
           \/ ~ok /\ NoCommit /\ Raise(w)
        /\ VenueQuiet /\ UNCHANGED crashes
-----------------------------------------------------------------------------
(* Crashes, time, the operator and the venue.                              *)

\* The process dies between two calls; its successor starts hydrated.
Crash(w) ==
    /\ pc[w] # "idle" /\ crashes < MaxCrashes
    /\ crashes' = crashes + 1
    /\ Done(w) /\ Hydrate(w)
    /\ VenueQuiet /\ UNCHANGED <<db, openCount, kill>>

\* Leases run down and clock readings grow old, within the bound MaxAge.
Tick ==
    /\ \A w \in Workers : IsDated(w) => ctx[w].age < MaxAge
    /\ db' = [o \in Orders |-> RowTick(db[o])]
    /\ ctx' = [w \in Workers |-> IF IsDated(w) THEN [ctx[w] EXCEPT !.age = @ + 1] ELSE ctx[w]]
    /\ VenueQuiet /\ UNCHANGED <<openCount, kill, pc, fresh, crashes>>

\* PaperKillSwitch.trigger by the operator or the monitor.
TriggerKill ==
    /\ "kill" \in Jobs /\ kill = "armed"
    /\ kill' = "triggered"
    /\ NoCommit /\ VenueQuiet /\ UNCHANGED <<pc, ctx, crashes>>

VenueMoves(o, v) == /\ venue' = [venue EXCEPT ![o] = v]
                    /\ NoCommit /\ UNCHANGED <<kill, calls, pc, ctx, crashes>>

Arrive(o) == venue[o].st = "in_flight" /\ VenueMoves(o, Submitted(venue[o], "pending_ack"))
VenueAcknowledge(o) == CanAcknowledge(venue[o]) /\ VenueMoves(o, Acknowledged(venue[o]))
VenueReject(o) == /\ "rejected" \in Outcomes /\ venue[o].st = "pending_ack"
                  /\ VenueMoves(o, Rejected(venue[o]))
VenueFill(o) ==
    \E q \in 1 .. Qty : /\ CanFill(venue[o], q)
                        /\ VenueMoves(o, IF LagFills THEN Filled(venue[o], q)
                                         ELSE Shown(Filled(venue[o], q)))
ShowFill(o) == CanShow(venue[o]) /\ VenueMoves(o, Shown(venue[o]))
CompleteCancel(o) == CanCompleteCancel(venue[o]) /\ VenueMoves(o, Cancelled(venue[o]))
ExpireIoc(o) == /\ "expire" \in Jobs /\ venue[o].st = "acknowledged"
                /\ VenueMoves(o, Expired(venue[o]))

WorkerCalls(w) ==
    \/ Claim(w) \/ Send(w) \/ Ack(w) \/ Note(w) \/ MarkUnknown(w) \/ MarkRejected(w)
    \/ Query(w) \/ QueryNone(w) \/ Fetch(w) \/ Apply(w)
    \/ QueryDispatch(w) \/ RecoverDispatch(w) \/ QueryCancel(w) \/ RecoverCancel(w)
    \/ HydrateStep(w) \/ SyncFetch(w) \/ SyncApply(w)
    \/ CClaim(w) \/ CSend(w) \/ CObs(w) \/ CDone(w) \/ CAmb(w)
    \/ XClaim(w) \/ XSend(w) \/ XDone(w) \/ XAmb(w)
    \/ XRec(w) \/ XQuery(w) \/ XFetch(w) \/ XApply(w) \/ XRecDone(w)
WorkerStarts(w) ==
    \/ StartSync(w)
    \/ \E o \in Orders : \/ PrepareNew(w, o) \/ PrepareReplay(w, o) \/ StartQuery(w, o)
                         \/ StartCancel(w, o) \/ StartExpire(w, o) \/ StartRecover(w, o)
VenueActs(o) == \/ Arrive(o) \/ VenueAcknowledge(o) \/ VenueReject(o) \/ VenueFill(o)
                \/ ShowFill(o) \/ CompleteCancel(o) \/ ExpireIoc(o)

Next == \/ \E w \in Workers : WorkerCalls(w) \/ WorkerStarts(w) \/ Crash(w)
        \/ \E o \in Orders : VenueActs(o)
        \/ Tick \/ TriggerKill

Spec == Init /\ [][Next]_vars

\* Fairness: a call once begun runs on, recover_unresolved (paper/engine.py) is
\* called again and again and visits every order, time passes, and what the
\* venue has accepted it delivers, shows and completes.  Time is strongly fair
\* because the bound MaxAge, not the code, interrupts Tick.
Fairness ==
    /\ \A w \in Workers : WF_vars(WorkerCalls(w))
    /\ \A w \in Workers, o \in Orders : SF_vars(StartRecover(w, o))
    /\ SF_vars(Tick)
    /\ \A o \in Orders : /\ WF_vars(Arrive(o)) /\ WF_vars(VenueAcknowledge(o))
                         /\ WF_vars(ShowFill(o)) /\ WF_vars(CompleteCancel(o))

FairSpec == Spec /\ Fairness
=============================================================================
