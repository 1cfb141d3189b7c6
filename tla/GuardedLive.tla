----------------------------- MODULE GuardedLive -----------------------------
(***************************************************************************)
(* One guarded-live dry run: the PostgreSQL rows of live/durable_repository *)
(* (kill switch, run, risk state, approvals, order and dispatch rows), the  *)
(* workers that prepare, suppress and recover dispatches, the operator who  *)
(* triggers and resets the kill switch, the preflight collector and the     *)
(* reconciler.  A transaction is one action; what is read before it is kept *)
(* in the actor's own record until the action that uses it.                 *)
(* Instants: every operation whose time the code compares takes a new one.  *)
(* Versions are compared for equality only, so a kill transaction counts as *)
(* one; the risk row's version and sequences, which grow with every write   *)
(* under its lock and order what the instants already order, are left out.  *)
(***************************************************************************)
EXTENDS Naturals, Sequences, FiniteSets

CONSTANTS Intents,      \* order intents, by their identity
          Workers,      \* processes calling the repository
          Nobody,       \* no owner
          MaxOpen,      \* configuration.maximum_open_order_count
          MaxApproved,  \* approval.maximum_total_approved_notional, in orders
          Balance,      \* available balance, in orders
          Lease,        \* lease_seconds of both claims
          Freshness,    \* reconciliation_freshness_seconds
          ApprovalTTL,  \* ttl_seconds of an approval
          MaxTime       \* bound on the instants of a behaviour

ASSUME LiveAssumption ==
    /\ MaxOpen \in Nat /\ MaxApproved \in Nat /\ Balance \in Nat
    /\ Lease \in Nat \ {0} /\ Freshness \in Nat \ {0} /\ ApprovalTTL \in Nat \ {0}
    /\ MaxTime \in Nat \ {0} /\ Nobody \notin Workers /\ IsFiniteSet(Intents)

VARIABLES now,     \* the latest instant used
          kill,    \* execution.live_kill_switches
          run,     \* execution.live_runs.state
          risk,    \* execution.live_run_risk_state
          auth,    \* preflight reports with their approvals, in order of persistence
          row,     \* intent, projection and dispatch outbox of each order
          venue,   \* what really is at the exchange under the intent's client id
          worker,  \* local state of each worker
          recon,   \* the reconciler's local state
          coll,    \* the preflight collector's local state
          unheeded, \* history: a trigger was requested and the run went on
          stops    \* history: how many times the kill switch has stopped

vars == <<now, kill, run, risk, auth, row, venue, worker, recon, coll, unheeded, stops>>

\* ---------------------------------------------------------------- records
NoRow == [state |-> "absent", auth |-> 0, rec |-> 0, market |-> 0, owner |-> Nobody,
          lease |-> 0, rOwner |-> Nobody, rLease |-> 0, rAt |-> 0, named |-> FALSE]
Idle == [pc |-> "idle", intent |-> Nobody, at |-> 0, rec |-> 0, market |-> 0, auth |-> 0,
         seen |-> "none"]
NoRecon == [stage |-> "none", seen |-> {}, complete |-> TRUE, at |-> 0, known |-> {},
            looked |-> {}]
NoColl == [purpose |-> "none", at |-> 0, version |-> 0, rec |-> 0, found |-> {}]

\* History in these records.  An authority knows the number of stops and the incidents
\* it came after; the risk row the incidents stored before its reconciliation was
\* (found), and those stored before the reconciler read the local rows (looked).
Authority(purpose, at, version, stop, found) ==
    [purpose |-> purpose, at |-> at, version |-> version, stop |-> stop, found |-> found,
     consumed |-> 0]

\* persist_start_bundle has committed: report, approval, manifest, run, armed
\* kill switch and risk state of a reconciled run, in one transaction.
Init == /\ now = 1
        /\ kill = [state |-> "armed", version |-> 0, triggered |-> 0, updated |-> 1, reset |-> 0]
        /\ run = "dry_run_running"
        /\ risk = [open |-> 0, market |-> 1, status |-> "reconciled", rec |-> 1,
                   found |-> {}, looked |-> {}]
        /\ auth = <<Authority("run_start", 1, 0, 0, {})>>
        /\ row = [i \in Intents |-> NoRow]
        /\ venue = [i \in Intents |-> "absent"]
        /\ worker = [w \in Workers |-> Idle]
        /\ recon = NoRecon /\ coll = NoColl
        /\ unheeded = FALSE /\ stops = 0

NextInstant == now < MaxTime /\ now' = now + 1

\* ------------------------------------------------------- preparing an order
\* The approval that prepares orders: the manifest's until a reset, then that of
\* the latest run_continue report not older than the kill row (0: none).
Continuations == {a \in DOMAIN auth : auth[a].purpose = "run_continue"
                                       /\ auth[a].at >= kill.updated}
CurrentAuthority ==
    IF kill.reset = 0 THEN 1
    ELSE IF Continuations = {} THEN 0
    ELSE CHOOSE a \in Continuations : \A b \in Continuations : auth[b].at <= auth[a].at

\* A caller builds an intent from the authorities it reads (or holds one it has
\* sent before) and calls with one instant for the whole broker operation.
DraftIntent(w, i, a) ==
    /\ worker[w].pc = "idle"
    /\ auth[a].purpose # "kill_reset" /\ row[i].state \in {"absent", "prepared"}
    /\ worker' = [worker EXCEPT ![w] =
           [Idle EXCEPT !.pc = "drafted", !.intent = i, !.at = now, !.auth = a,
                        !.rec = IF row[i].state = "absent" THEN risk.rec ELSE row[i].rec,
                        !.market = IF row[i].state = "absent" THEN risk.market
                                                              ELSE row[i].market]]
    /\ UNCHANGED <<now, kill, run, risk, auth, row, venue, recon, coll, unheeded, stops>>

\* Everything that makes the transaction raise, whatever the risk decision.
Permitted(d) ==
    /\ run = "dry_run_running"
    /\ CurrentAuthority # 0 /\ d.auth = CurrentAuthority
    /\ d.at < auth[d.auth].at + ApprovalTTL
    /\ kill.state = "armed"
    /\ risk.status = "reconciled" /\ d.rec = risk.rec
    /\ d.market = risk.market

Reserved == Cardinality({i \in Intents : row[i].state \notin {"absent", "blocked"}})

RiskAccepts(d) ==
    /\ risk.open + 1 <= MaxOpen
    /\ d.at - risk.rec <= Freshness
    /\ auth[d.auth].consumed + 1 <= MaxApproved
    /\ kill.state = "armed" /\ risk.status = "reconciled"
\* Mutant: the projected reservations are not deducted from the balance.
CoveredByBalance == 1 <= Balance
Covered == 1 <= Balance - Reserved

Refused(w) == /\ worker' = [worker EXCEPT ![w] = Idle]
              /\ UNCHANGED <<now, kill, run, risk, auth, row, venue, recon, coll, unheeded, stops>>

PrepareRefused(w) == worker[w].pc = "drafted" /\ ~Permitted(worker[w]) /\ Refused(w)

Prepared(d) == [Idle EXCEPT !.pc = "prepared", !.intent = d.intent, !.at = d.at]

\* The same intent again: nothing is charged, and the answer lacks the request of a
\* prepared order, so the broker raises before it would claim the outbox.
\* Mutant: a replay is charged to the approval again.
ReplayCharged(w) ==
    LET d == worker[w] IN
    /\ d.pc = "drafted" /\ Permitted(d) /\ row[d.intent].state # "absent"
    /\ worker' = [worker EXCEPT ![w] = Idle]
    /\ auth' = [auth EXCEPT ![d.auth].consumed = @ + 1]
    /\ UNCHANGED <<now, kill, run, risk, row, venue, recon, coll, unheeded, stops>>
PrepareReplayed(w) ==
    LET d == worker[w] IN
    /\ d.pc = "drafted" /\ Permitted(d) /\ row[d.intent].state # "absent"
    /\ Refused(w)

\* The risk decision or the balance refuses: the intent and its decision are stored.
PrepareBlocked(w) ==
    LET d == worker[w] IN
    /\ d.pc = "drafted" /\ Permitted(d) /\ row[d.intent].state = "absent"
    /\ ~(RiskAccepts(d) /\ Covered)
    /\ row' = [row EXCEPT ![d.intent] = [NoRow EXCEPT !.state = "blocked"]]
    /\ worker' = [worker EXCEPT ![w] = Idle]
    /\ UNCHANGED <<now, kill, run, risk, auth, venue, recon, coll, unheeded, stops>>

\* Intent, decision, approval consumption, reservation, outbox, projection and
\* risk state in one transaction.
PrepareAccepted(w) ==
    LET d == worker[w] IN
    /\ d.pc = "drafted" /\ Permitted(d) /\ row[d.intent].state = "absent"
    /\ RiskAccepts(d) /\ Covered
    /\ row' = [row EXCEPT ![d.intent] = [NoRow EXCEPT !.state = "prepared", !.auth = d.auth,
                                                      !.rec = d.rec, !.market = d.market]]
    /\ auth' = [auth EXCEPT ![d.auth].consumed = @ + 1]
    /\ risk' = [risk EXCEPT !.open = @ + 1]
    /\ worker' = [worker EXCEPT ![w] = Prepared(d)]
    /\ UNCHANGED <<now, kill, run, venue, recon, coll, unheeded, stops>>

Prepare(w) == PrepareRefused(w) \/ PrepareReplayed(w) \/ PrepareBlocked(w) \/ PrepareAccepted(w)

\* -------------------------------------------- claim, suppress, hand to recovery
\* A broker claims the outbox it prepared, at its own instant; any other worker
\* claims a prepared row of the run at the present one.
CanClaim(i, at) == row[i].state = "prepared" /\ row[i].lease <= at
TakeDispatch(w, i, at) ==
    /\ CanClaim(i, at)
    /\ row' = [row EXCEPT ![i].owner = w, ![i].lease = at + Lease]
    /\ worker' = [worker EXCEPT ![w] = [@ EXCEPT !.pc = "claimed", !.intent = i, !.at = at]]
    /\ UNCHANGED <<now, kill, run, risk, auth, venue, recon, coll, unheeded, stops>>
ClaimDispatch(w) ==
    \/ worker[w].pc = "prepared" /\ TakeDispatch(w, worker[w].intent, worker[w].at)
    \/ worker[w].pc = "idle" /\ \E i \in Intents : TakeDispatch(w, i, now)
\* The broker raises when its new outbox cannot be claimed.
ClaimLost(w) == /\ worker[w].pc = "prepared" /\ ~CanClaim(worker[w].intent, worker[w].at)
                /\ Refused(w)

HoldsDispatch(w, at) == /\ worker[w].pc = "claimed"
                        /\ row[worker[w].intent].owner = w
                        /\ row[worker[w].intent].lease > at
SettledRow(i, state) == [NoRow EXCEPT !.state = state, !.auth = row[i].auth]

\* suppress_claimed_dispatch: the broker passes the instant of its claim, another
\* caller the present one.  mark_pending_recovery: as the caller decides.
SettleClaim(w, state, at) ==
    /\ HoldsDispatch(w, at)
    /\ row' = [row EXCEPT ![worker[w].intent] = SettledRow(worker[w].intent, state)]
    /\ worker' = [worker EXCEPT ![w] = Idle]
    /\ UNCHANGED <<now, kill, run, risk, auth, venue, recon, coll, unheeded, stops>>
SuppressDispatch(w) == SettleClaim(w, "suppressed", worker[w].at)
MarkPendingRecovery(w) == SettleClaim(w, "pending", now)
ClaimStolen(w) == /\ worker[w].pc = "claimed" /\ ~HoldsDispatch(w, worker[w].at)
                  /\ Refused(w)

\* ------------------------------------------------------- query-first recovery
ClaimRecovery(w, i) ==
    /\ worker[w].pc = "idle"
    /\ row[i].state = "pending" /\ row[i].rLease <= now
    /\ row' = [row EXCEPT ![i].rOwner = w, ![i].rLease = now + Lease, ![i].rAt = now]
    /\ worker' = [worker EXCEPT ![w] = [Idle EXCEPT !.pc = "recovering", !.intent = i]]
    /\ UNCHANGED <<now, kill, run, risk, auth, venue, recon, coll, unheeded, stops>>

\* The read-only queries, one endpoint after the other: the lists of orders, then
\* the order's details, whose answer alone names the order.  Any of them may fail.
\* The caller then takes the instant that it passes to the transaction.
QueryLists(w) ==
    /\ worker[w].pc = "recovering"
    /\ \E seen \in {IF venue[worker[w].intent] = "order" THEN "listed" ELSE "absent",
                     "incomplete"} :
           worker' = [worker EXCEPT ![w].pc = "listing", ![w].seen = seen]
    /\ UNCHANGED <<now, kill, run, risk, auth, row, venue, recon, coll, unheeded, stops>>
Combined(listed, answered, order) ==
    IF answered /\ order = "order" THEN "order"
    ELSE IF listed = "absent" /\ ~answered THEN "incomplete" ELSE listed
QueryDetails(w) ==
    /\ worker[w].pc = "listing"
    /\ NextInstant
    /\ \E answered \in BOOLEAN :
           worker' = [worker EXCEPT ![w].pc = "queried", ![w].at = now',
               ![w].seen = Combined(@, answered, venue[worker[w].intent])]
    /\ UNCHANGED <<kill, run, risk, auth, row, venue, recon, coll, unheeded, stops>>

\* Mutant: any worker may conclude while some lease runs.
SomeoneHolds(w, at) == LET r == row[worker[w].intent] IN r.state = "pending" /\ r.rLease > at
HoldsRecovery(w, at) == LET r == row[worker[w].intent] IN
    r.state = "pending" /\ r.rOwner = w /\ r.rLease > at

\* Absent: suppressed.  Incomplete: pending again, for another claim.
ObserveNothing(w) ==
    /\ worker[w].pc = "queried" /\ worker[w].seen \in {"absent", "incomplete"}
    /\ HoldsRecovery(w, worker[w].at)
    /\ row' = [row EXCEPT ![worker[w].intent] =
           SettledRow(worker[w].intent,
                      IF worker[w].seen = "absent" THEN "suppressed" ELSE "pending")]
    /\ worker' = [worker EXCEPT ![w] = Idle]
    /\ UNCHANGED <<now, kill, run, risk, auth, venue, recon, coll, unheeded, stops>>

\* ------------------------------------------------------------ the kill switch
\* trigger_kill, then stop_kill in the same transaction.  The database refuses to
\* change a trigger time that is already set.
StopKill(at, triggered) ==
    /\ kill' = [kill EXCEPT !.state = "stopped", !.version = @ + 1, !.updated = at,
                            !.triggered = triggered]
    /\ run' = "stopped"
    /\ stops' = stops + 1
TriggerAllowed(at) == kill.state = "armed" /\ kill.triggered \in {0, at}

\* A stopped switch answers "stopped" and nothing changes.
TriggerKill ==
    /\ kill.state = "armed"
    /\ NextInstant
    /\ IF TriggerAllowed(now') THEN StopKill(now', now') ELSE UNCHANGED <<kill, run, stops>>
    /\ unheeded' = (kill'.state = "armed")
    /\ UNCHANGED <<risk, auth, row, venue, worker, recon, coll>>

\* An order or fill at the venue: the row becomes an incident, the kill switch is
\* triggered and a blocked reconciliation becomes the run's latest, or nothing is
\* written because the trigger raised.  All of it is stamped with the caller's
\* instant, which nothing compares with what was stored meanwhile.  Only the details
\* give the incident the provider's order id.
\* Mutant: the incident's reconciliation does not become the run's latest.
IncidentForgotten(at) == risk
IncidentRisk(at) == [risk EXCEPT !.status = "blocked", !.rec = at]
Observed(w) == worker[w].seen \in {"listed", "order"}
ObserveIncident(w) ==
    LET at == worker[w].at  i == worker[w].intent IN
    /\ worker[w].pc = "queried" /\ Observed(w)
    /\ HoldsRecovery(w, at)
    /\ kill.state = "stopped" \/ TriggerAllowed(at)
    /\ IF kill.state = "stopped" THEN UNCHANGED <<kill, run, stops>> ELSE StopKill(at, at)
    /\ row' = [row EXCEPT ![i] = [SettledRow(i, "incident")
                                    EXCEPT !.named = (worker[w].seen = "order")]]
    /\ risk' = IncidentRisk(at)
    /\ worker' = [worker EXCEPT ![w] = Idle]
    /\ UNCHANGED <<now, auth, venue, recon, coll, unheeded>>
ObservationRefused(w) ==
    /\ worker[w].pc = "queried"
    /\ \/ ~HoldsRecovery(w, worker[w].at)
       \/ Observed(w) /\ kill.state = "armed" /\ ~TriggerAllowed(worker[w].at)
    /\ Refused(w)

\* A report names the kill row by version, so it cannot outlive another change of it.
\* Mutant: the cited version of the kill row is not compared.
ResetByAnyReport(a) ==
    /\ kill.state = "stopped" /\ kill.triggered # 0
    /\ auth[a].purpose = "kill_reset" /\ auth[a].at > kill.triggered
    /\ auth[a].consumed = 0
ResetAllowed(a) ==
    /\ kill.state = "stopped" /\ kill.triggered # 0
    /\ auth[a].purpose = "kill_reset" /\ auth[a].at > kill.triggered
    /\ auth[a].version = kill.version
    /\ auth[a].consumed = 0
ResetKill(a) ==
    /\ ResetAllowed(a)
    /\ kill' = [kill EXCEPT !.state = "armed", !.version = @ + 1, !.updated = now, !.reset = a]
    /\ run' = "dry_run_running"
    /\ UNCHANGED <<now, risk, auth, row, venue, worker, recon, coll, unheeded, stops>>

\* ------------------------------------------------------------------ preflight
Incidents == {i \in Intents : row[i].state = "incident"}
Named == {i \in Incidents : row[i].named}
\* collect_operational_preflight_evidence and the engine's verdict: a report is
\* passed only for the kill state of its purpose and a fresh reconciled run.
ExpectedKill(purpose) == IF purpose = "kill_reset" THEN "stopped" ELSE "armed"
CollectPreflight(purpose) ==
    /\ coll = NoColl
    /\ NextInstant
    /\ kill.state = ExpectedKill(purpose)
    /\ purpose = "kill_reset" => kill.triggered # 0
    /\ risk.status = "reconciled" /\ now' - risk.rec <= Freshness
    /\ coll' = [purpose |-> purpose, at |-> now', version |-> kill.version, rec |-> risk.rec,
                 found |-> Incidents]
    /\ UNCHANGED <<kill, run, risk, auth, row, venue, worker, recon, unheeded, stops>>

\* persist_operational_preflight_approval, with the checks of the report's sources
\* by the database: the kill row and the reconciliation must still be the current.
KillStillCurrent == kill.version = coll.version /\ kill.state = ExpectedKill(coll.purpose)
\* The graph check of the database, at commit.
EvidenceStillCurrent == risk.rec = coll.rec
StillCurrent == KillStillCurrent /\ EvidenceStillCurrent
PersistPreflight ==
    /\ coll # NoColl
    /\ IF StillCurrent
       THEN /\ auth' = Append(auth, Authority(coll.purpose, coll.at, coll.version, stops,
                                              coll.found))
            /\ risk' = [risk EXCEPT !.market = Len(auth) + 1]
       ELSE UNCHANGED <<auth, risk>>
    /\ coll' = NoColl
    /\ UNCHANGED <<now, kill, run, row, venue, worker, recon, unheeded, stops>>

\* ------------------------------------------------------------- reconciliation
External == {i \in Intents : venue[i] = "order"}
CollectVenue(complete) ==
    /\ recon.stage = "none"
    /\ recon' = [NoRecon EXCEPT !.stage = "collected", !.complete = complete,
                                !.seen = IF complete THEN External ELSE {}]
    /\ UNCHANGED <<now, kill, run, risk, auth, row, venue, worker, coll, unheeded, stops>>

\* build_local_projection, read outside the transaction that stores the result: it
\* has no row of an order without the provider's id.
ProjectLocal ==
    /\ recon.stage = "collected"
    /\ NextInstant
    /\ recon' = [recon EXCEPT !.stage = "projected", !.at = now', !.known = Named,
                            !.looked = Incidents]
    /\ UNCHANGED <<kill, run, risk, auth, row, venue, worker, coll, unheeded, stops>>

\* Rows observed earlier never compare equal to the venue's: their stored form differs.
ReconciliationStatus ==
    IF ~recon.complete THEN "unknown"
    ELSE IF recon.seen = {} /\ recon.known = {} THEN "reconciled" ELSE "blocked"
NotRegressed == recon.at >= risk.rec

ReconcileStop ==
    /\ kill' = [kill EXCEPT !.state = "stopped", !.version = @ + 1, !.updated = recon.at,
                            !.triggered = IF kill.triggered = 0 THEN recon.at
                                                                ELSE kill.triggered]
    /\ run' = "stopped"
    /\ stops' = stops + 1
PersistReconciliation ==
    /\ recon.stage = "projected"
    /\ IF NotRegressed
       THEN /\ risk' = [risk EXCEPT !.status = ReconciliationStatus, !.rec = recon.at,
                                     !.found = Incidents, !.looked = recon.looked]
            /\ IF ReconciliationStatus # "reconciled" /\ kill.state = "armed"
               THEN ReconcileStop ELSE UNCHANGED <<kill, run, stops>>
       ELSE UNCHANGED <<risk, kill, run, stops>>
    /\ recon' = NoRecon
    /\ UNCHANGED <<now, auth, row, venue, worker, coll, unheeded>>

\* ------------------------------------------------------------------ the world
\* Someone else's order under this client id, from when its dispatch is settled or
\* handed over; later the order leaves the venue's lists.
ExternalOrder(i) ==
    /\ row[i].state \in {"pending", "suppressed", "incident"}
    /\ venue[i] = "absent"
    /\ venue' = [venue EXCEPT ![i] = "order"]
    /\ UNCHANGED <<now, kill, run, risk, auth, row, worker, recon, coll, unheeded, stops>>
OrderLeaves(i) ==
    /\ venue[i] = "order"
    /\ venue' = [venue EXCEPT ![i] = "absent"]
    /\ UNCHANGED <<now, kill, run, risk, auth, row, worker, recon, coll, unheeded, stops>>
Crash(w) == worker[w].pc # "idle" /\ Refused(w)
Tick == NextInstant
        /\ UNCHANGED <<kill, run, risk, auth, row, venue, worker, recon, coll, unheeded, stops>>

WorkerStep(w) ==
    \/ \E i \in Intents, a \in DOMAIN auth : DraftIntent(w, i, a)
    \/ Prepare(w) \/ ClaimDispatch(w) \/ ClaimLost(w) \/ ClaimStolen(w)
    \/ SuppressDispatch(w) \/ MarkPendingRecovery(w)
    \/ \E i \in Intents : ClaimRecovery(w, i)
    \/ QueryLists(w) \/ QueryDetails(w) \/ ObserveNothing(w) \/ ObserveIncident(w) \/ ObservationRefused(w)
    \/ Crash(w)
Next == \/ \E w \in Workers : WorkerStep(w)
        \/ TriggerKill \/ \E a \in DOMAIN auth : ResetKill(a)
        \/ \E p \in {"kill_reset", "run_continue"} : CollectPreflight(p)
        \/ PersistPreflight
        \/ \E c \in BOOLEAN : CollectVenue(c)
        \/ ProjectLocal \/ PersistReconciliation
        \/ \E i \in Intents : ExternalOrder(i) \/ OrderLeaves(i)
        \/ Tick
Spec == Init /\ [][Next]_vars

-----------------------------------------------------------------------------
(* Properties.                                                             *)
RowStates == {"absent", "blocked", "prepared", "suppressed", "pending", "incident"}
(* Every variable keeps its type; what an operation stamps is never in the      *)
(* future, and every row names an authority that exists: what is stored is bounded *)
(* by the instants of the behaviour.                                            *)
TypeOK ==
    /\ now \in 1..MaxTime /\ stops \in Nat /\ unheeded \in BOOLEAN
    /\ kill.state \in {"armed", "stopped"} /\ kill.reset \in 0..Len(auth)
    /\ kill.triggered \in 0..now /\ kill.updated \in 1..now
    /\ run \in {"dry_run_running", "stopped"}
    /\ risk.status \in {"reconciled", "blocked", "unknown"} /\ risk.rec \in 1..now
    /\ risk.market \in DOMAIN auth
    /\ \A i \in Intents : /\ row[i].state \in RowStates /\ row[i].auth \in 0..Len(auth)
                          /\ row[i].owner \in Workers \cup {Nobody}
                          /\ row[i].rOwner \in Workers \cup {Nobody}

(* The run is stopped exactly while the kill switch is: trigger, reset and the  *)
(* reconciler each write both rows, and prepare reads both.                     *)
RunFollowsKill == (kill.state = "stopped") = (run = "stopped")

(* An approval is charged once for each order prepared under it, never for a     *)
(* replay, and never beyond what was approved.                                   *)
ChargedTo(a) == Cardinality({i \in Intents : row[i].auth = a
                                             /\ row[i].state \notin {"absent", "blocked"}})
ApprovalNeverOverspent ==
    \A a \in DOMAIN auth : auth[a].consumed = ChargedTo(a) /\ auth[a].consumed <= MaxApproved

(* The projected reservations of the run never exceed the available balance,     *)
(* whatever the approvals and workers that made them.                            *)
ReservedWithinBalance == Reserved <= Balance

(* What the kill switch, the run and the approvals say of each other.            *)
AuthoritySound == TypeOK /\ RunFollowsKill /\ ApprovalNeverOverspent

(* An authority that a stop of the kill switch overtook is never used again: the  *)
(* switch is reset only by a report, and an order prepared only while armed and   *)
(* under an approval, that were collected after the last stop.                    *)
Prepares(i) == row[i].state = "absent" /\ row'[i].state = "prepared"
AuthorityAfterLastStop ==
    [][/\ kill'.state = "armed" /\ kill.state = "stopped" => auth[kill'.reset].stop = stops
       /\ \A i \in Intents : Prepares(i) =>
             kill.state = "armed" /\ auth[row'[i].auth].stop = stops]_vars

(* Work resumes after an incident only as documented: an order is prepared under *)
(* an authority collected after every incident of the run, on a reconciliation    *)
(* stored after all of them, whose rows, when they were read, held none that has  *)
(* the provider's order id.  More the code does not ensure: an incident without   *)
(* that id, or stored after the rows were read, lets the run go on.               *)
ResumesAfterIncidents ==
    [][\A i \in Intents : Prepares(i) => /\ auth[row'[i].auth].found = Incidents
                                         /\ risk.found = Incidents
                                         /\ Named \cap risk.looked = {}]_vars

(* A recovery concludes from a query made under the claim it holds: an answer    *)
(* older than the current claim, from a worker that lost its lease, never does.  *)
ConcludesFromOwnQuery ==
    [][\A i \in Intents : row[i].state = "pending" /\ row'[i].state \in {"suppressed", "incident"}
          => \E w \in Workers : /\ worker[w].pc = "queried" /\ worker[w].intent = i
                                /\ worker[w].at >= row[i].rAt /\ worker'[w] = Idle]_vars

(* The documented meaning of a trigger: it stops the run, the second one after a *)
(* reset like the first.                                                         *)
TriggerHeeded == ~unheeded
=============================================================================
