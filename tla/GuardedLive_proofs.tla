-------------------------- MODULE GuardedLive_proofs --------------------------
(***************************************************************************)
(* The authorities of a guarded-live run, for any number of intents,       *)
(* workers, approvals and instants, and any limits: AuthoritySound,        *)
(* ReservedWithinBalance, and what no step may ever do                     *)
(* (AuthorityAfterLastStop, ResumesAfterIncidents, ConcludesFromOwnQuery). *)
(*                                                                         *)
(* The inductive invariant has one part per argument:                      *)
(*   Shape        every variable has its type;                             *)
(*   InTime       nothing is stamped later than the latest instant;        *)
(*   Owned        only a prepared row has a dispatch owner, and a worker   *)
(*                that owns a recovery has queried since it claimed it;    *)
(*   Charged      approvals and balance cover the reserved rows;           *)
(*   Ordered      authorities are persisted in the order of collection;    *)
(*   UpToDate     an authority that names the present kill row was         *)
(*                collected after the last stop, and only such a one       *)
(*                prepares orders while the switch is armed;               *)
(*   Renewed      while the switch is armed, the authorities that name the *)
(*                present kill row were collected after every incident;    *)
(*   Remembered   a reconciled run knows every incident, and its           *)
(*                evaluation read no named one.                            *)
(***************************************************************************)
EXTENDS GuardedLive, FiniteSetTheorems, TLAPS

Purposes == {"run_start", "kill_reset", "run_continue"}
Authorities == [purpose : Purposes, at : Nat, version : Nat, stop : Nat,
                found : SUBSET Intents, consumed : Nat]
Owners == Workers \cup {Nobody}
Rows == [state : RowStates, auth : Nat, rec : Nat, market : Nat, owner : Owners,
         lease : Nat, rOwner : Owners, rLease : Nat, rAt : Nat, named : BOOLEAN]
Locals == [pc : {"idle", "drafted", "prepared", "claimed", "recovering", "listing", "queried"},
           intent : Intents \cup {Nobody}, at : Nat, rec : Nat, market : Nat, auth : Nat,
           seen : {"none", "absent", "listed", "order", "incomplete"}]
Kills == [state : {"armed", "stopped"}, version : Nat, triggered : Nat, updated : Nat,
          reset : Nat]
Risks == [open : Nat, market : Nat, status : {"reconciled", "blocked", "unknown"}, rec : Nat,
          found : SUBSET Intents, looked : SUBSET Intents]
Recons == [stage : {"none", "collected", "projected"}, seen : SUBSET Intents,
           complete : BOOLEAN, at : Nat, known : SUBSET Intents, looked : SUBSET Intents]
Colls == {NoColl} \cup [purpose : {"kill_reset", "run_continue"}, at : Nat, version : Nat,
                        rec : Nat, found : SUBSET Intents]

Shape ==
    /\ now \in 1 .. MaxTime /\ stops \in Nat /\ unheeded \in BOOLEAN
    /\ run \in {"dry_run_running", "stopped"}
    /\ kill \in Kills /\ risk \in Risks /\ auth \in Seq(Authorities)
    /\ row \in [Intents -> Rows] /\ venue \in [Intents -> {"absent", "order"}]
    /\ worker \in [Workers -> Locals] /\ recon \in Recons /\ coll \in Colls

InTime ==
    /\ kill.triggered <= now /\ kill.updated \in 1 .. now /\ risk.rec \in 1 .. now
    /\ recon.stage = "projected" => recon.at \in 1 .. now
    /\ coll.at <= now
    /\ \A i \in Intents : row[i].rAt <= now
    /\ \A a \in DOMAIN auth : auth[a].at <= now
    /\ \A w \in Workers : worker[w].pc = "queried" => worker[w].at \in 1 .. now

References ==
    /\ auth # <<>> /\ kill.reset \in 0 .. Len(auth) /\ risk.market \in DOMAIN auth
    /\ \A i \in Intents : row[i].auth \in 0 .. Len(auth)
    /\ \A w \in Workers : /\ worker[w].pc # "idle" => worker[w].intent \in Intents
                          /\ worker[w].pc = "drafted" => worker[w].auth \in DOMAIN auth

Owned ==
    /\ \A i \in Intents : row[i].owner # Nobody => row[i].state = "prepared"
    /\ \A i \in Intents : row[i].rOwner # Nobody => row[i].state = "pending"
    /\ \A w \in Workers : worker[w].pc = "queried" /\ row[worker[w].intent].rOwner = w
                          => worker[w].at >= row[worker[w].intent].rAt

Charged == ApprovalNeverOverspent /\ ReservedWithinBalance

Ordered ==
    /\ \A a, b \in DOMAIN auth : a < b => /\ auth[a].at < auth[b].at
                                          /\ auth[a].version <= auth[b].version
    /\ \A a \in DOMAIN auth : auth[a].version <= kill.version
    /\ coll.purpose # "none" =>
          /\ coll.version <= kill.version
          /\ \A a \in DOMAIN auth : auth[a].at < coll.at /\ auth[a].version <= coll.version

UpToDate ==
    /\ \A a \in DOMAIN auth : auth[a].version = kill.version =>
          /\ auth[a].stop = stops
          /\ auth[a].purpose # "run_start" => kill.state = ExpectedKill(auth[a].purpose)
    /\ auth[1].version = 0
    /\ kill.state = "armed" /\ kill.reset = 0 => kill.version = 0
    /\ kill.state = "armed" /\ kill.reset # 0 =>
          \A a \in Continuations : auth[a].version = kill.version

Renewed ==
    /\ auth[1].found = {} /\ (kill.state = "armed" /\ kill.reset = 0 => Incidents = {})
    /\ \A a \in DOMAIN auth : auth[a].purpose = "run_continue" /\ auth[a].version = kill.version
          => kill.state = "armed" /\ auth[a].found = Incidents
    /\ coll.purpose = "run_continue" /\ coll.version = kill.version
          => kill.state = "armed" /\ coll.found = Incidents

Remembered ==
    /\ recon.stage = "projected" =>
          recon.looked \subseteq Incidents /\ recon.known = Named \cap recon.looked
    /\ risk.status = "reconciled" => risk.found = Incidents /\ Named \cap risk.looked = {}

IInv == /\ Shape /\ RunFollowsKill /\ InTime /\ References /\ Owned /\ Charged
        /\ Ordered /\ UpToDate /\ Renewed /\ Remembered

USE LiveAssumption

-----------------------------------------------------------------------------
(* Steps of one worker.                                                    *)

LEMMA IdleType == Idle \in Locals /\ Idle.pc = "idle"
  BY DEF Idle, Locals

LEMMA NoRowType == NoRow \in Rows /\ NoRow.owner = Nobody /\ NoRow.rOwner = Nobody
                   /\ NoRow.rAt = 0 /\ NoRow.auth = 0 /\ NoRow.named = FALSE
  BY DEF NoRow, Rows, RowStates, Owners

\* Only the local state of a worker changes.
LEMMA LocalStep ==
    ASSUME IInv, NEW w \in Workers, NEW n \in Locals,
           worker' = [worker EXCEPT ![w] = n],
           UNCHANGED <<now, kill, run, risk, auth, row, venue, recon, coll, unheeded, stops>>,
           n.pc # "idle" => n.intent \in Intents,
           n.pc = "drafted" => n.auth \in DOMAIN auth,
           n.pc = "queried" => /\ n.at \in 1 .. now
                               /\ row[n.intent].rOwner = w => n.at >= row[n.intent].rAt
    PROVE  IInv'
  <1>1. worker'[w] = n /\ \A v \in Workers \ {w} : worker'[v] = worker[v]
    BY DEF IInv, Shape
  <1>2. Shape'
    BY DEF IInv, Shape
  <1>3. RunFollowsKill' /\ InTime'
    BY <1>1 DEF IInv, RunFollowsKill, InTime
  <1>4. References'
    BY <1>1 DEF IInv, References
  <1>5. Owned'
    BY <1>1 DEF IInv, Owned
  <1>6. Charged'
    BY DEF IInv, Charged, ApprovalNeverOverspent, ReservedWithinBalance, Reserved, ChargedTo
  <1>7. Ordered'
    BY DEF IInv, Ordered
  <1>8. UpToDate' /\ Renewed' /\ Remembered'
    BY DEF IInv, UpToDate, Continuations, Renewed, Remembered, Incidents, Named
  <1> QED
    BY <1>2, <1>3, <1>4, <1>5, <1>6, <1>7, <1>8 DEF IInv

LEMMA RefusedStep == ASSUME IInv, NEW w \in Workers, Refused(w) PROVE IInv'
  BY IdleType, LocalStep DEF Refused

LEMMA DraftIntentStep ==
    ASSUME IInv, NEW w \in Workers, NEW i \in Intents, NEW a \in DOMAIN auth,
           DraftIntent(w, i, a)
    PROVE  IInv'
  <1> DEFINE r == IF row[i].state = "absent" THEN risk.rec ELSE row[i].rec
             m == IF row[i].state = "absent" THEN risk.market ELSE row[i].market
             n == [Idle EXCEPT !.pc = "drafted", !.intent = i, !.at = now, !.auth = a,
                               !.rec = r, !.market = m]
  <1>1. r \in Nat /\ m \in Nat /\ a \in Nat /\ now \in Nat
    BY DEF IInv, Shape, Risks, Rows
  <1>2. n \in Locals /\ n.pc = "drafted" /\ n.intent = i /\ n.auth = a
    <2> HIDE DEF r, m
    <2> QED
      BY <1>1 DEF Idle, Locals
  <1>3. /\ worker' = [worker EXCEPT ![w] = n]
        /\ UNCHANGED <<now, kill, run, risk, auth, row, venue, recon, coll, unheeded, stops>>
    BY DEF DraftIntent
  <1> HIDE DEF n
  <1> QED
    BY <1>2, <1>3, LocalStep

LEMMA PreparedType ==
    ASSUME NEW d \in Locals, d.intent \in Intents
    PROVE  Prepared(d) \in Locals /\ Prepared(d).pc = "prepared" /\ Prepared(d).intent = d.intent
  BY DEF Prepared, Idle, Locals

LEMMA PrepareReplayedStep == ASSUME IInv, NEW w \in Workers, PrepareReplayed(w) PROVE IInv'
  BY RefusedStep DEF PrepareReplayed

LEMMA QueryListsStep == ASSUME IInv, NEW w \in Workers, QueryLists(w) PROVE IInv'
  <1>1. PICK seen \in {IF venue[worker[w].intent] = "order" THEN "listed" ELSE "absent",
                       "incomplete"} :
             worker' = [worker EXCEPT ![w].pc = "listing", ![w].seen = seen]
    BY DEF QueryLists
  <1> DEFINE n == [worker[w] EXCEPT !.pc = "listing", !.seen = seen]
  <1>2. worker[w] \in Locals /\ worker[w].intent \in Intents
    BY DEF IInv, Shape, References, QueryLists
  <1>3. n \in Locals /\ n.pc = "listing" /\ n.intent = worker[w].intent
    <2>1. seen \in {"listed", "absent", "incomplete"}
      OBVIOUS
    <2> HIDE DEF n
    <2> QED
      BY <1>2, <2>1 DEF Locals, n
  <1>4. /\ worker' = [worker EXCEPT ![w] = n]
        /\ UNCHANGED <<now, kill, run, risk, auth, row, venue, recon, coll, unheeded, stops>>
    BY <1>1 DEF QueryLists, IInv, Shape
  <1> HIDE DEF n
  <1> QED
    BY <1>2, <1>3, <1>4, LocalStep

-----------------------------------------------------------------------------
(* Steps of one worker on one row.                                         *)

IsReserved(r) == r.state \notin {"absent", "blocked"}

LEMMA ReservedFinite ==
    /\ IsFiniteSet({i \in Intents : IsReserved(row[i])}) /\ Reserved \in Nat
    /\ Reserved = Cardinality({i \in Intents : IsReserved(row[i])})
    /\ \A a : /\ IsFiniteSet({i \in Intents : row[i].auth = a /\ IsReserved(row[i])})
              /\ ChargedTo(a) \in Nat
              /\ ChargedTo(a) = Cardinality({i \in Intents : row[i].auth = a
                                                             /\ IsReserved(row[i])})
  <1>1. {i \in Intents : IsReserved(row[i])} \in SUBSET Intents
    OBVIOUS
  <1>2. \A a : {i \in Intents : row[i].auth = a /\ IsReserved(row[i])} \in SUBSET Intents
    OBVIOUS
  <1>3. /\ Reserved = Cardinality({i \in Intents : IsReserved(row[i])})
        /\ \A a : ChargedTo(a) = Cardinality({i \in Intents : row[i].auth = a
                                                              /\ IsReserved(row[i])})
    BY DEF Reserved, ChargedTo, IsReserved
  <1> QED
    BY <1>1, <1>2, <1>3, FS_Subset, FS_CardinalityType

\* A row that stays as reserved as it was, under the same approval.
SameCharge(r, s) == (IsReserved(s) <=> IsReserved(r)) /\ (IsReserved(r) => s.auth = r.auth)

LEMMA ChargesStay ==
    ASSUME \A i \in Intents : SameCharge(row[i], row'[i])
    PROVE  Reserved' = Reserved /\ \A a : ChargedTo(a)' = ChargedTo(a)
  <1>1. {i \in Intents : IsReserved(row'[i])} = {i \in Intents : IsReserved(row[i])}
    BY DEF SameCharge
  <1>2. \A a : {i \in Intents : row'[i].auth = a /\ IsReserved(row'[i])}
               = {i \in Intents : row[i].auth = a /\ IsReserved(row[i])}
    BY DEF SameCharge
  <1> QED
    BY <1>1, <1>2 DEF Reserved, ChargedTo, IsReserved

\* No row becomes an incident, and none changes that is one.
LEMMA SameIncidents ==
    ASSUME NEW i \in Intents, row[i].state # "incident", row'[i].state # "incident",
           \A j \in Intents \ {i} : row'[j] = row[j]
    PROVE  Incidents' = Incidents /\ Named' = Named
  <1>1. Incidents' = Incidents
    BY DEF Incidents
  <1>2. \A j \in Incidents : row'[j] = row[j]
    BY DEF Incidents
  <1> QED
    BY <1>1, <1>2 DEF Named

\* A row and the local state of a worker change, and no charge does.
LEMMA RowStep ==
    ASSUME IInv, NEW w \in Workers, NEW i \in Intents, NEW x \in Rows, NEW n \in Locals,
           row' = [row EXCEPT ![i] = x], worker' = [worker EXCEPT ![w] = n],
           UNCHANGED <<now, kill, run, risk, auth, venue, recon, coll, unheeded, stops>>,
           SameCharge(row[i], x), x.auth \in 0 .. Len(auth),
           x.state # "incident", row[i].state # "incident", x.rAt <= now,
           x.owner # Nobody => x.state = "prepared", x.rOwner # Nobody => x.state = "pending",
           x.rOwner \in {Nobody, w}, n.pc # "queried",
           n.pc # "idle" => n.intent \in Intents, n.pc # "drafted"
    PROVE  IInv'
  <1>1. worker'[w] = n /\ \A v \in Workers \ {w} : worker'[v] = worker[v]
    BY DEF IInv, Shape
  <1>2. row'[i] = x /\ \A j \in Intents \ {i} : row'[j] = row[j]
    BY DEF IInv, Shape
  <1>3. Shape'
    BY DEF IInv, Shape
  <1>4. RunFollowsKill' /\ InTime'
    BY <1>1, <1>2 DEF IInv, RunFollowsKill, InTime
  <1>5. References'
    BY <1>1, <1>2 DEF IInv, References
  <1>6. Owned'
    <2>1. \A v \in Workers : worker'[v].pc = "queried" =>
             v # w /\ worker'[v] = worker[v] /\ worker[v].intent \in Intents
      BY <1>1 DEF IInv, References
    <2>2. \A v \in Workers : worker'[v].pc = "queried" /\ row'[worker'[v].intent].rOwner = v
             => worker'[v].at >= row'[worker'[v].intent].rAt
      BY <1>2, <2>1 DEF IInv, Owned
    <2> QED
      BY <1>2, <2>2 DEF IInv, Owned
  <1>7. Charged'
    <2>1. \A j \in Intents : SameCharge(row[j], row'[j])
      BY <1>2 DEF SameCharge
    <2> QED
      BY <2>1, ChargesStay DEF IInv, Charged, ApprovalNeverOverspent, ReservedWithinBalance
  <1>8. Ordered'
    BY DEF IInv, Ordered
  <1>9. UpToDate'
    BY DEF IInv, UpToDate, Continuations
  <1>10. Renewed' /\ Remembered'
    <2>1. Incidents' = Incidents /\ Named' = Named
      BY <1>2, SameIncidents
    <2> QED
      BY <2>1 DEF IInv, Renewed, Remembered
  <1> QED
    BY <1>3, <1>4, <1>5, <1>6, <1>7, <1>8, <1>9, <1>10 DEF IInv

LEMMA PrepareBlockedStep == ASSUME IInv, NEW w \in Workers, PrepareBlocked(w) PROVE IInv'
  <1> DEFINE x == [NoRow EXCEPT !.state = "blocked"]
  <1>1. worker[w].intent \in Intents
    BY DEF IInv, References, PrepareBlocked
  <1>2. /\ x \in Rows /\ x.state = "blocked" /\ x.auth = 0 /\ x.owner = Nobody
        /\ x.rOwner = Nobody /\ x.rAt = 0
    BY DEF NoRow, Rows, RowStates, Owners
  <1>3. /\ SameCharge(row[worker[w].intent], x) /\ x.auth \in 0 .. Len(auth) /\ x.rAt <= now
        /\ row[worker[w].intent].state = "absent"
    BY <1>1, <1>2 DEF SameCharge, IsReserved, PrepareBlocked, IInv, Shape
  <1>4. /\ row' = [row EXCEPT ![worker[w].intent] = x]
        /\ worker' = [worker EXCEPT ![w] = Idle]
        /\ UNCHANGED <<now, kill, run, risk, auth, venue, recon, coll, unheeded, stops>>
    BY DEF PrepareBlocked
  <1> HIDE DEF x
  <1> QED
    BY <1>1, <1>2, <1>3, <1>4, IdleType, RowStep

LEMMA TakeDispatchStep ==
    ASSUME IInv, NEW w \in Workers, NEW i \in Intents, NEW at \in Nat, TakeDispatch(w, i, at)
    PROVE  IInv'
  <1> DEFINE x == [row[i] EXCEPT !.owner = w, !.lease = at + Lease]
             n == [worker[w] EXCEPT !.pc = "claimed", !.intent = i, !.at = at]
  <1>1. row[i] \in Rows /\ worker[w] \in Locals /\ row[i].state = "prepared"
    BY DEF IInv, Shape, TakeDispatch, CanClaim
  <1>2. /\ x \in Rows /\ x.state = "prepared" /\ x.auth = row[i].auth
        /\ x.rOwner = row[i].rOwner /\ x.rAt = row[i].rAt
    <2>1. at + Lease \in Nat /\ w \in Owners
      BY DEF Owners
    <2> QED
      BY <1>1, <2>1 DEF Rows
  <1>3. n \in Locals /\ n.pc = "claimed" /\ n.intent = i
    BY <1>1 DEF Locals
  <1>4. x.rOwner = Nobody /\ x.rAt <= now /\ x.auth \in 0 .. Len(auth)
    BY <1>1, <1>2 DEF IInv, Owned, InTime, References
  <1>5. SameCharge(row[i], x)
    BY <1>1, <1>2 DEF SameCharge, IsReserved
  <1>6. /\ row' = [row EXCEPT ![i] = x] /\ worker' = [worker EXCEPT ![w] = n]
        /\ UNCHANGED <<now, kill, run, risk, auth, venue, recon, coll, unheeded, stops>>
    BY DEF TakeDispatch, IInv, Shape
  <1> HIDE DEF x, n
  <1> QED
    BY <1>1, <1>2, <1>3, <1>4, <1>5, <1>6, RowStep

LEMMA ClaimDispatchStep == ASSUME IInv, NEW w \in Workers, ClaimDispatch(w) PROVE IInv'
  <1>1. now \in Nat /\ worker[w].at \in Nat
    BY DEF IInv, Shape, Locals
  <1>2. CASE worker[w].pc = "prepared" /\ TakeDispatch(w, worker[w].intent, worker[w].at)
    <2>1. worker[w].intent \in Intents
      BY <1>2 DEF IInv, References
    <2> QED
      BY <1>1, <1>2, <2>1, TakeDispatchStep
  <1>3. CASE \E i \in Intents : TakeDispatch(w, i, now)
    BY <1>1, <1>3, TakeDispatchStep
  <1> QED
    BY <1>2, <1>3 DEF ClaimDispatch

LEMMA SettledType ==
    ASSUME IInv, NEW i \in Intents, NEW state \in RowStates
    PROVE  /\ SettledRow(i, state) \in Rows /\ SettledRow(i, state).state = state
           /\ SettledRow(i, state).auth = row[i].auth
           /\ SettledRow(i, state).owner = Nobody /\ SettledRow(i, state).rOwner = Nobody
           /\ SettledRow(i, state).rAt = 0 /\ row[i].auth \in 0 .. Len(auth)
           /\ 0 <= now
  <1>1. row[i].auth \in Nat /\ row[i].auth \in 0 .. Len(auth)
    BY DEF IInv, Shape, Rows, References
  <1>2. 0 <= now
    BY DEF IInv, Shape
  <1>3. SettledRow(i, state) = [NoRow EXCEPT !.state = state, !.auth = row[i].auth]
    BY DEF SettledRow
  <1> QED
    BY <1>1, <1>2, <1>3, NoRowType DEF Rows

\* A worker that holds the dispatch of a row holds a prepared one.
LEMMA HoldsPrepared ==
    ASSUME IInv, NEW w \in Workers, NEW at, HoldsDispatch(w, at)
    PROVE  worker[w].intent \in Intents /\ row[worker[w].intent].state = "prepared"
  <1>1. worker[w].intent \in Intents
    BY DEF IInv, References, HoldsDispatch
  <1>2. row[worker[w].intent].owner # Nobody
    BY DEF HoldsDispatch
  <1> QED
    BY <1>1, <1>2 DEF IInv, Owned

LEMMA SettleClaimStep ==
    ASSUME IInv, NEW w \in Workers, NEW at, NEW state \in {"suppressed", "pending"},
           SettleClaim(w, state, at)
    PROVE  IInv'
  <1> DEFINE i == worker[w].intent
             x == SettledRow(i, state)
  <1>1. i \in Intents /\ row[i].state = "prepared"
    BY HoldsPrepared DEF SettleClaim
  <1>2. state \in RowStates
    BY DEF RowStates
  <1>3. /\ x \in Rows /\ x.state = state /\ x.auth = row[i].auth /\ x.owner = Nobody
        /\ x.rOwner = Nobody /\ x.rAt <= now /\ x.auth \in 0 .. Len(auth)
    BY <1>1, <1>2, SettledType
  <1>4. SameCharge(row[i], x)
    BY <1>1, <1>3 DEF SameCharge, IsReserved
  <1>5. /\ row' = [row EXCEPT ![i] = x] /\ worker' = [worker EXCEPT ![w] = Idle]
        /\ UNCHANGED <<now, kill, run, risk, auth, venue, recon, coll, unheeded, stops>>
    BY DEF SettleClaim
  <1> HIDE DEF x, i
  <1> QED
    BY <1>1, <1>3, <1>4, <1>5, IdleType, RowStep

LEMMA ClaimRecoveryStep ==
    ASSUME IInv, NEW w \in Workers, NEW i \in Intents, ClaimRecovery(w, i) PROVE IInv'
  <1> DEFINE x == [row[i] EXCEPT !.rOwner = w, !.rLease = now + Lease, !.rAt = now]
             n == [Idle EXCEPT !.pc = "recovering", !.intent = i]
  <1>1. row[i] \in Rows /\ row[i].state = "pending" /\ now \in Nat
    BY DEF IInv, Shape, ClaimRecovery
  <1>2. /\ x \in Rows /\ x.state = "pending" /\ x.auth = row[i].auth /\ x.rOwner = w
        /\ x.owner = row[i].owner /\ x.rAt = now
    <2>1. now + Lease \in Nat /\ w \in Owners
      BY <1>1 DEF Owners
    <2> QED
      BY <1>1, <2>1 DEF Rows
  <1>3. n \in Locals /\ n.pc = "recovering" /\ n.intent = i
    BY DEF Idle, Locals
  <1>4. x.owner = Nobody /\ x.rAt <= now /\ x.auth \in 0 .. Len(auth)
    BY <1>1, <1>2 DEF IInv, Owned, References
  <1>5. SameCharge(row[i], x)
    BY <1>1, <1>2 DEF SameCharge, IsReserved
  <1>6. /\ row' = [row EXCEPT ![i] = x] /\ worker' = [worker EXCEPT ![w] = n]
        /\ UNCHANGED <<now, kill, run, risk, auth, venue, recon, coll, unheeded, stops>>
    BY DEF ClaimRecovery, IInv, Shape
  <1> HIDE DEF x, n
  <1> QED
    BY <1>1, <1>2, <1>3, <1>4, <1>5, <1>6, RowStep

LEMMA ObserveNothingStep == ASSUME IInv, NEW w \in Workers, ObserveNothing(w) PROVE IInv'
  <1> DEFINE i == worker[w].intent
             state == IF worker[w].seen = "absent" THEN "suppressed" ELSE "pending"
             x == SettledRow(i, state)
  <1>1. i \in Intents /\ row[i].state = "pending"
    BY DEF IInv, References, ObserveNothing, HoldsRecovery
  <1>2. state \in RowStates /\ state \in {"suppressed", "pending"}
    BY DEF RowStates
  <1>3. /\ row' = [row EXCEPT ![i] = x] /\ worker' = [worker EXCEPT ![w] = Idle]
        /\ UNCHANGED <<now, kill, run, risk, auth, venue, recon, coll, unheeded, stops>>
    BY DEF ObserveNothing
  <1> HIDE DEF state
  <1>4. /\ x \in Rows /\ x.state = state /\ x.auth = row[i].auth /\ x.owner = Nobody
        /\ x.rOwner = Nobody /\ x.rAt <= now /\ x.auth \in 0 .. Len(auth)
    BY <1>1, <1>2, SettledType
  <1>5. SameCharge(row[i], x)
    BY <1>1, <1>2, <1>4 DEF SameCharge, IsReserved
  <1> HIDE DEF x, i
  <1> QED
    BY <1>1, <1>2, <1>3, <1>4, <1>5, IdleType, RowStep

-----------------------------------------------------------------------------
(* The approval in force.                                                  *)

\* Authorities are persisted in the order of their collection, so a set of them
\* has a latest one.
LEMMA LatestContinuation ==
    ASSUME IInv, Continuations # {}
    PROVE  \E a \in Continuations : \A b \in Continuations : auth[b].at <= auth[a].at
  <1> DEFINE ages == {Len(auth) - a : a \in Continuations}
  <1>1. auth \in Seq(Authorities) /\ Len(auth) \in Nat /\ Continuations \subseteq 1 .. Len(auth)
    BY DEF IInv, Shape, Continuations
  <1>2. ages \subseteq Nat /\ ages # {}
    <2>1. \A a \in Continuations : Len(auth) - a \in Nat
      BY <1>1
    <2> QED
      BY <2>1
  <1>3. PICK n \in ages : \A m \in ages : ~(<<m, n>> \in OpToRel(<, Nat))
    <2>1. \E n \in ages : \A m \in ages : ~(<<m, n>> \in OpToRel(<, Nat))
      BY <1>2, NatLessThanWellFounded, WFMin
    <2> QED
      BY <2>1
  <1>4. PICK a \in Continuations : n = Len(auth) - a
    OBVIOUS
  <1>5. ASSUME NEW b \in Continuations PROVE auth[b].at <= auth[a].at
    <2>1. Len(auth) - b \in ages
      OBVIOUS
    <2>2. ~(Len(auth) - b < n)
      BY <1>2, <1>3, <2>1 DEF OpToRel
    <2>3. b = a \/ b < a
      BY <1>1, <1>4, <2>2
    <2>4. auth[a].at \in Nat /\ auth[b].at \in Nat /\ a \in DOMAIN auth /\ b \in DOMAIN auth
      <3>1. a \in DOMAIN auth /\ b \in DOMAIN auth
        BY <1>1
      <3>2. auth[a] \in Authorities /\ auth[b] \in Authorities
        BY <1>1, <3>1
      <3> QED
        BY <3>1, <3>2 DEF Authorities
    <2> QED
      BY <2>3, <2>4 DEF IInv, Ordered
  <1> QED
    BY <1>5

\* While the switch is armed, the approval that prepares orders was collected
\* after its last stop.
LEMMA CurrentIsUpToDate ==
    ASSUME IInv, kill.state = "armed", CurrentAuthority # 0
    PROVE  /\ CurrentAuthority \in DOMAIN auth
           /\ auth[CurrentAuthority].version = kill.version
           /\ auth[CurrentAuthority].stop = stops
           /\ auth[CurrentAuthority].found = Incidents
  <1>1. CASE kill.reset = 0
    <2>1. CurrentAuthority = 1 /\ 1 \in DOMAIN auth
      BY <1>1 DEF CurrentAuthority, IInv, References, Shape
    <2>2. auth[1].version = kill.version /\ auth[1].found = Incidents
      BY <1>1 DEF IInv, UpToDate, Renewed
    <2> QED
      BY <2>1, <2>2 DEF IInv, UpToDate
  <1>2. CASE kill.reset # 0
    <2>1. Continuations # {}
      BY <1>2 DEF CurrentAuthority
    <2>2. CurrentAuthority \in Continuations
      BY <1>2, <2>1, LatestContinuation DEF CurrentAuthority
    <2>3. CurrentAuthority \in DOMAIN auth /\ auth[CurrentAuthority].purpose = "run_continue"
      BY <2>2 DEF Continuations
    <2>4. auth[CurrentAuthority].version = kill.version
      BY <1>2, <2>2 DEF IInv, UpToDate
    <2>5. auth[CurrentAuthority].found = Incidents
      BY <2>3, <2>4 DEF IInv, Renewed
    <2> QED
      BY <2>3, <2>4, <2>5 DEF IInv, UpToDate
  <1> QED
    BY <1>1, <1>2

PreparedRow(d) == [NoRow EXCEPT !.state = "prepared", !.auth = d.auth, !.rec = d.rec,
                                !.market = d.market]

\* What an accepted preparation does.
LEMMA Accepts ==
    ASSUME IInv, NEW w \in Workers, PrepareAccepted(w),
           NEW i, i = worker[w].intent, NEW a, a = worker[w].auth,
           NEW x, x = PreparedRow(worker[w])
    PROVE  /\ i \in Intents /\ a \in DOMAIN auth /\ a = CurrentAuthority
           /\ kill.state = "armed" /\ risk.status = "reconciled"
           /\ row[i].state = "absent" /\ row' = [row EXCEPT ![i] = x]
           /\ x \in Rows /\ x.state = "prepared" /\ x.auth = a /\ x.owner = Nobody
           /\ x.rOwner = Nobody /\ x.rAt = 0
           /\ row'[i] = x /\ row' \in [Intents -> Rows]
           /\ \A j \in Intents \ {i} : row'[j] = row[j]
  <1>1. worker[w] \in Locals /\ i \in Intents /\ a \in DOMAIN auth
    BY DEF IInv, Shape, References, PrepareAccepted
  <1>2. a = CurrentAuthority /\ kill.state = "armed" /\ risk.status = "reconciled"
    BY DEF PrepareAccepted, Permitted
  <1>3. row[i].state = "absent" /\ row' = [row EXCEPT ![i] = x]
    BY DEF PrepareAccepted, PreparedRow
  <1>4. "prepared" \in RowStates /\ a \in Nat /\ worker[w].rec \in Nat /\ worker[w].market \in Nat
    BY <1>1 DEF RowStates, Locals
  <1>5. /\ x \in Rows /\ x.state = "prepared" /\ x.auth = a /\ x.owner = Nobody
        /\ x.rOwner = Nobody /\ x.rAt = 0
    BY <1>4, NoRowType DEF Rows, PreparedRow
  <1>6. /\ row'[i] = x /\ row' \in [Intents -> Rows]
        /\ \A j \in Intents \ {i} : row'[j] = row[j]
    BY <1>1, <1>3, <1>5 DEF IInv, Shape
  <1> QED
    BY <1>1, <1>2, <1>3, <1>5, <1>6

LEMMA AcceptedCharges ==
    ASSUME IInv, NEW w \in Workers, PrepareAccepted(w),
           NEW i, i = worker[w].intent, NEW a, a = worker[w].auth
    PROVE  Charged'
  <1> DEFINE reserved == {j \in Intents : IsReserved(row[j])}
             charged(b) == {j \in Intents : row[j].auth = b /\ IsReserved(row[j])}
  <1>1. /\ i \in Intents /\ a \in DOMAIN auth /\ ~IsReserved(row[i])
        /\ row'[i].auth = a /\ IsReserved(row'[i])
        /\ \A j \in Intents \ {i} : row'[j] = row[j]
    BY Accepts DEF IsReserved
  <1>2. {j \in Intents : IsReserved(row'[j])} = reserved \cup {i} /\ i \notin reserved
    BY <1>1
  <1>3. Reserved' = Reserved + 1
    <2>1. Reserved' = Cardinality(reserved \cup {i})
      BY <1>2 DEF Reserved, IsReserved
    <2> QED
      BY <1>2, <2>1, ReservedFinite, FS_AddElement
  <1>4. Reserved' <= Balance
    BY <1>3, ReservedFinite DEF PrepareAccepted, Covered
  <1>5. ChargedTo(a)' = ChargedTo(a) + 1
    <2>1. {j \in Intents : row'[j].auth = a /\ IsReserved(row'[j])} = charged(a) \cup {i}
      BY <1>1
    <2>2. ChargedTo(a)' = Cardinality(charged(a) \cup {i}) /\ i \notin charged(a)
      BY <1>1, <2>1 DEF ChargedTo, IsReserved
    <2>3. IsFiniteSet(charged(a)) /\ ChargedTo(a) = Cardinality(charged(a))
      BY ReservedFinite
    <2>4. Cardinality(charged(a) \cup {i}) = Cardinality(charged(a)) + 1
      BY <2>2, <2>3, FS_AddElement
    <2> QED
      BY <2>2, <2>3, <2>4
  <1>6. \A b : b # a => ChargedTo(b)' = ChargedTo(b)
    <2> SUFFICES ASSUME NEW b, b # a PROVE ChargedTo(b)' = ChargedTo(b)
      OBVIOUS
    <2>1. {j \in Intents : row'[j].auth = b /\ IsReserved(row'[j])} = charged(b)
      BY <1>1
    <2> QED
      BY <2>1 DEF ChargedTo, IsReserved
  <1>7. /\ auth' = [auth EXCEPT ![a].consumed = auth[a].consumed + 1]
        /\ auth[a].consumed + 1 <= MaxApproved
    BY DEF PrepareAccepted, RiskAccepts
  <1>8. /\ DOMAIN auth' = DOMAIN auth /\ auth'[a].consumed = auth[a].consumed + 1
        /\ \A b \in DOMAIN auth \ {a} : auth'[b] = auth[b]
    <2>1. auth \in Seq(Authorities)
      BY DEF IInv, Shape
    <2>2. auth[a] \in Authorities
      BY <1>1, <2>1
    <2> QED
      BY <1>1, <1>7, <2>1, <2>2 DEF Authorities
  <1>9. ApprovalNeverOverspent'
    <2> SUFFICES ASSUME NEW b \in DOMAIN auth'
                 PROVE  auth'[b].consumed = ChargedTo(b)' /\ auth'[b].consumed <= MaxApproved
      BY DEF ApprovalNeverOverspent
    <2>1. CASE b = a
      BY <1>1, <1>5, <1>7, <1>8, <2>1 DEF IInv, Charged, ApprovalNeverOverspent
    <2>2. CASE b # a
      BY <1>6, <1>8, <2>2 DEF IInv, Charged, ApprovalNeverOverspent
    <2> QED
      BY <2>1, <2>2
  <1> QED
    BY <1>4, <1>9 DEF Charged, ReservedWithinBalance

LEMMA UpdatedSequence ==
    ASSUME NEW S, NEW q \in Seq(S), NEW k \in DOMAIN q, NEW e \in S
    PROVE  LET p == [q EXCEPT ![k] = e] IN
           /\ p \in Seq(S) /\ Len(p) = Len(q) /\ DOMAIN p = DOMAIN q /\ p[k] = e
           /\ \A j \in DOMAIN q \ {k} : p[j] = q[j]
  OBVIOUS

LEMMA ChargedAuthority ==
    ASSUME NEW r \in Authorities
    PROVE  LET s == [r EXCEPT !.consumed = r.consumed + 1] IN
           /\ s \in Authorities /\ s.at = r.at /\ s.version = r.version
           /\ s.stop = r.stop /\ s.purpose = r.purpose /\ s.found = r.found
           /\ s.consumed = r.consumed + 1
  BY DEF Authorities

LEMMA AcceptedKeeps ==
    ASSUME IInv, NEW w \in Workers, PrepareAccepted(w),
           NEW i, i = worker[w].intent, NEW a, a = worker[w].auth
    PROVE  IInv'
  <1> DEFINE n == Prepared(worker[w])
  <1>1. /\ i \in Intents /\ a \in DOMAIN auth /\ row'[i] \in Rows /\ row' \in [Intents -> Rows]
        /\ row'[i].state = "prepared" /\ row'[i].auth = a /\ row'[i].owner = Nobody
        /\ row'[i].rOwner = Nobody /\ row'[i].rAt = 0
        /\ \A j \in Intents \ {i} : row'[j] = row[j]
    BY Accepts
  <1>2. /\ n \in Locals /\ n.pc = "prepared" /\ n.intent = i
        /\ worker' = [worker EXCEPT ![w] = n]
    <2>1. worker[w] \in Locals
      BY DEF IInv, Shape
    <2> QED
      BY <1>1, <2>1, PreparedType DEF PrepareAccepted
  <1>3. /\ auth' = [auth EXCEPT ![a].consumed = auth[a].consumed + 1]
        /\ risk' = [risk EXCEPT !.open = risk.open + 1]
        /\ UNCHANGED <<now, kill, run, venue, recon, coll, unheeded, stops>>
    BY DEF PrepareAccepted
  <1> HIDE DEF n
  <1>4. worker'[w] = n /\ \A v \in Workers \ {w} : worker'[v] = worker[v]
    BY <1>2 DEF IInv, Shape
  <1>5. /\ auth' \in Seq(Authorities) /\ Len(auth') = Len(auth) /\ DOMAIN auth' = DOMAIN auth
        /\ \A b \in DOMAIN auth : /\ auth'[b].at = auth[b].at
                                  /\ auth'[b].version = auth[b].version
                                  /\ auth'[b].stop = auth[b].stop
                                  /\ auth'[b].purpose = auth[b].purpose
                                  /\ auth'[b].found = auth[b].found
    <2>1. auth \in Seq(Authorities) /\ auth[a] \in Authorities
      BY <1>1 DEF IInv, Shape
    <2> DEFINE e == [auth[a] EXCEPT !.consumed = auth[a].consumed + 1]
    <2>2. /\ e \in Authorities /\ e.at = auth[a].at /\ e.version = auth[a].version
          /\ e.stop = auth[a].stop /\ e.purpose = auth[a].purpose /\ e.found = auth[a].found
      BY <2>1, ChargedAuthority
    <2>3. auth' = [auth EXCEPT ![a] = e]
      BY <1>3
    <2> HIDE DEF e
    <2>4. /\ auth' \in Seq(Authorities) /\ Len(auth') = Len(auth)
          /\ DOMAIN auth' = DOMAIN auth /\ auth'[a] = e
          /\ \A j \in DOMAIN auth \ {a} : auth'[j] = auth[j]
      BY <1>1, <2>1, <2>2, <2>3, UpdatedSequence
    <2> QED
      BY <2>2, <2>4
  <1>6. /\ risk' \in Risks /\ risk'.rec = risk.rec /\ risk'.status = risk.status
        /\ risk'.market = risk.market /\ risk'.found = risk.found /\ risk'.looked = risk.looked
    <2>1. risk \in Risks
      BY DEF IInv, Shape
    <2> QED
      BY <1>3, <2>1 DEF Risks
  <1>7. Shape'
    BY <1>1, <1>2, <1>3, <1>5, <1>6 DEF IInv, Shape
  <1>8. RunFollowsKill'
    BY <1>3 DEF IInv, RunFollowsKill
  <1>9. InTime'
    <2>1. \A v \in Workers : worker'[v].pc = "queried" => worker'[v].at \in 1 .. now'
      BY <1>2, <1>3, <1>4 DEF IInv, InTime
    <2>2. \A j \in Intents : row'[j].rAt <= now'
      BY <1>1, <1>3 DEF IInv, InTime, Shape
    <2>3. \A b \in DOMAIN auth' : auth'[b].at <= now'
      BY <1>3, <1>5 DEF IInv, InTime
    <2> QED
      BY <1>3, <1>6, <2>1, <2>2, <2>3 DEF IInv, InTime
  <1>10. References'
    <2>1. auth' # <<>> /\ a \in 0 .. Len(auth)
      BY <1>1, <1>5 DEF IInv, References, Shape
    <2>2. \A v \in Workers : /\ worker'[v].pc # "idle" => worker'[v].intent \in Intents
                             /\ worker'[v].pc = "drafted" => worker'[v].auth \in DOMAIN auth
      BY <1>1, <1>2, <1>4 DEF IInv, References
    <2>3. \A j \in Intents : row'[j].auth \in 0 .. Len(auth)
      BY <1>1, <2>1 DEF IInv, References
    <2> QED
      BY <1>3, <1>5, <1>6, <2>1, <2>2, <2>3 DEF IInv, References
  <1>11. Owned'
    <2>1. \A v \in Workers : worker'[v].pc = "queried" =>
             v # w /\ worker'[v] = worker[v] /\ worker[v].intent \in Intents
      BY <1>2, <1>4 DEF IInv, References
    <2>2. \A v \in Workers : worker'[v].pc = "queried" /\ row'[worker'[v].intent].rOwner = v
             => worker'[v].at >= row'[worker'[v].intent].rAt
      BY <1>1, <2>1 DEF IInv, Owned
    <2> QED
      BY <1>1, <2>2 DEF IInv, Owned
  <1>12. Ordered'
    BY <1>3, <1>5 DEF IInv, Ordered
  <1>13. UpToDate'
    <2>1. Continuations' = Continuations
      BY <1>3, <1>5 DEF Continuations
    <2>2. 1 \in DOMAIN auth
      BY DEF IInv, References, Shape
    <2> QED
      BY <1>3, <1>5, <2>1, <2>2 DEF IInv, UpToDate, Continuations
  <1>14. Renewed' /\ Remembered'
    <2>1. row[i].state = "absent"
      BY Accepts
    <2>2. Incidents' = Incidents /\ Named' = Named
      BY <1>1, <2>1, SameIncidents
    <2>3. 1 \in DOMAIN auth
      BY DEF IInv, References, Shape
    <2>4. Renewed'
      BY <1>3, <1>5, <2>2, <2>3 DEF IInv, Renewed
    <2> QED
      BY <1>3, <1>6, <2>2, <2>4 DEF IInv, Remembered
  <1> QED
    BY <1>7, <1>8, <1>9, <1>10, <1>11, <1>12, <1>13, <1>14, AcceptedCharges DEF IInv

LEMMA PrepareAcceptedStep == ASSUME IInv, NEW w \in Workers, PrepareAccepted(w) PROVE IInv'
  BY AcceptedKeeps

-----------------------------------------------------------------------------
(* Time, the kill switch and incidents.                                    *)

\* A new instant.
LEMMA NewInstant ==
    ASSUME IInv, NextInstant
    PROVE  /\ now \in Nat /\ now' = now + 1 /\ now' \in 1 .. MaxTime
           /\ risk.rec \in Nat /\ stops \in Nat /\ recon.at \in Nat /\ coll.at \in Nat
           /\ kill.triggered \in Nat /\ kill.updated \in Nat /\ kill.version \in Nat
           /\ \A i \in Intents : row[i].rAt \in Nat
           /\ \A a \in DOMAIN auth : auth[a].at \in Nat /\ auth[a] \in Authorities
  <1>1. now \in 1 .. MaxTime /\ now < MaxTime /\ now' = now + 1
    BY DEF IInv, Shape, NextInstant
  <1>2. risk.rec \in Nat /\ stops \in Nat /\ recon.at \in Nat
    BY DEF IInv, Shape, Risks, Recons
  <1>3. coll.at \in Nat
    BY DEF IInv, Shape, Colls, NoColl
  <1>4. kill.triggered \in Nat /\ kill.updated \in Nat /\ kill.version \in Nat
    BY DEF IInv, Shape, Kills
  <1>5. \A i \in Intents : row[i].rAt \in Nat
    BY DEF IInv, Shape, Rows
  <1>6. \A a \in DOMAIN auth : auth[a] \in Authorities
    BY DEF IInv, Shape
  <1> QED
    BY <1>1, <1>2, <1>3, <1>4, <1>5, <1>6 DEF Authorities

LEMMA KillVersion == ASSUME IInv PROVE kill \in Kills /\ kill.version \in Nat
  BY DEF IInv, Shape, Kills

\* Stopping leaves every authority behind: none names the kill row as it is now.
LEMMA StopStep ==
    ASSUME IInv, NEW at \in Nat, NEW t \in Nat, StopKill(at, t), UNCHANGED <<auth, coll>>
    PROVE  /\ kill' \in Kills /\ kill'.state = "stopped" /\ kill'.triggered = t
           /\ kill'.updated = at /\ kill'.reset = kill.reset /\ run' = "stopped"
           /\ stops' = stops + 1 /\ Ordered' /\ UpToDate' /\ Renewed'
  <1>1. kill \in Kills /\ kill.version \in Nat /\ kill.version + 1 \in Nat
    BY KillVersion
  <1>2. kill' = [kill EXCEPT !.state = "stopped", !.version = kill.version + 1,
                             !.updated = at, !.triggered = t]
    BY DEF StopKill
  <1>3. /\ kill' \in Kills /\ kill'.state = "stopped" /\ kill'.triggered = t
        /\ kill'.updated = at /\ kill'.reset = kill.reset /\ kill'.version = kill.version + 1
        /\ kill.version \in Nat
    BY <1>1, <1>2 DEF Kills
  <1>4. run' = "stopped" /\ stops' = stops + 1
    BY DEF StopKill
  <1>5. \A a \in DOMAIN auth : auth[a].version \in Nat /\ auth[a].version < kill'.version
    <2> SUFFICES ASSUME NEW a \in DOMAIN auth
                 PROVE  auth[a].version \in Nat /\ auth[a].version < kill'.version
      OBVIOUS
    <2>1. auth[a] \in Authorities
      BY DEF IInv, Shape
    <2>2. auth[a].version \in Nat /\ auth[a].version <= kill.version
      BY <2>1 DEF Authorities, IInv, Ordered
    <2> QED
      BY <1>3, <2>2
  <1>6. coll.purpose # "none" => coll.version <= kill'.version
    <2>1. coll.purpose # "none" => coll.version \in Nat
      BY DEF IInv, Shape, Colls, NoColl
    <2> QED
      BY <1>3, <2>1 DEF IInv, Ordered
  <1>7. Ordered'
    BY <1>3, <1>5, <1>6 DEF IInv, Ordered
  <1>8. UpToDate'
    BY <1>3, <1>5 DEF IInv, UpToDate
  <1>9. Renewed'
    <2>1. coll.purpose # "none" => coll.version \in Nat /\ coll.version <= kill.version
      BY DEF IInv, Shape, Colls, NoColl, Ordered
    <2> QED
      BY <1>3, <1>5, <2>1 DEF IInv, Renewed
  <1> QED
    BY <1>3, <1>4, <1>7, <1>8, <1>9

\* The kill row and the run stay as they are.
LEMMA NoStop ==
    ASSUME IInv, UNCHANGED <<kill, run, stops, auth, coll>>
    PROVE  /\ Ordered' /\ UpToDate' /\ RunFollowsKill'
           /\ kill.state = "stopped" \/ Incidents' = Incidents => Renewed'
  <1>1. Ordered' /\ UpToDate' /\ RunFollowsKill'
    BY DEF IInv, Ordered, UpToDate, Continuations, RunFollowsKill
  <1>2. kill.state = "stopped" \/ Incidents' = Incidents => Renewed'
    BY DEF IInv, Renewed
  <1> QED
    BY <1>1, <1>2

\* Rows and approvals stay as they are.
LEMMA SameRows ==
    ASSUME IInv, UNCHANGED <<row, auth>>
    PROVE  Charged' /\ Incidents' = Incidents /\ Named' = Named
  BY DEF IInv, Charged, ApprovalNeverOverspent, ReservedWithinBalance, Reserved, ChargedTo,
         Incidents, Named

LEMMA TriggerKillStep == ASSUME IInv, TriggerKill PROVE IInv'
  <1>1. NextInstant /\ UNCHANGED <<risk, auth, row, venue, worker, recon, coll>>
    BY DEF TriggerKill
  <1>2. unheeded' \in BOOLEAN
    BY DEF TriggerKill
  <1>3. Charged' /\ Owned' /\ Remembered'
    BY <1>1, SameRows DEF IInv, Owned, Remembered
  <1>4. CASE TriggerAllowed(now')
    <2>1. StopKill(now', now')
      BY <1>4 DEF TriggerKill
    <2>2. /\ kill' \in Kills /\ kill'.state = "stopped" /\ kill'.triggered = now'
          /\ kill'.updated = now' /\ kill'.reset = kill.reset /\ run' = "stopped"
          /\ stops' = stops + 1 /\ Ordered' /\ UpToDate' /\ Renewed'
      <3>1. \A at \in Nat : StopKill(at, at) =>
               /\ kill' \in Kills /\ kill'.state = "stopped" /\ kill'.triggered = at
               /\ kill'.updated = at /\ kill'.reset = kill.reset /\ run' = "stopped"
               /\ stops' = stops + 1 /\ Ordered' /\ UpToDate' /\ Renewed'
        BY <1>1, StopStep
      <3>2. now' \in Nat
        BY <1>1, NewInstant
      <3> QED
        BY <2>1, <3>1, <3>2
    <2>3. Shape'
      BY <1>1, <1>2, <2>2, NewInstant DEF IInv, Shape
    <2>4. RunFollowsKill'
      BY <2>2 DEF RunFollowsKill
    <2>5. InTime'
      BY <1>1, <2>2, NewInstant DEF IInv, InTime
    <2>6. References'
      BY <1>1, <2>2 DEF IInv, References
    <2> QED
      BY <1>3, <2>2, <2>3, <2>4, <2>5, <2>6 DEF IInv
  <1>5. CASE ~TriggerAllowed(now')
    <2>1. UNCHANGED <<kill, run, stops>>
      BY <1>5 DEF TriggerKill
    <2>2. Ordered' /\ UpToDate' /\ Renewed' /\ RunFollowsKill'
      BY <1>1, <2>1, NoStop, SameRows
    <2>3. Shape'
      BY <1>1, <1>2, <2>1, NewInstant DEF IInv, Shape
    <2>4. InTime'
      BY <1>1, <2>1, NewInstant DEF IInv, InTime
    <2>5. References'
      BY <1>1, <2>1 DEF IInv, References
    <2> QED
      BY <1>3, <2>2, <2>3, <2>4, <2>5 DEF IInv
  <1> QED
    BY <1>4, <1>5

LEMMA TickStep == ASSUME IInv, Tick PROVE IInv'
  <1>1. /\ NextInstant
        /\ UNCHANGED <<kill, run, risk, auth, row, venue, worker, recon, coll, unheeded, stops>>
    BY DEF Tick
  <1>2. Charged' /\ Owned' /\ Remembered' /\ References'
    BY <1>1, SameRows DEF IInv, Owned, Remembered, References
  <1>3. Ordered' /\ UpToDate' /\ Renewed' /\ RunFollowsKill'
    BY <1>1, NoStop, SameRows
  <1>4. Shape'
    BY <1>1, NewInstant DEF IInv, Shape
  <1>5. InTime'
    BY <1>1, NewInstant DEF IInv, InTime
  <1> QED
    BY <1>2, <1>3, <1>4, <1>5 DEF IInv

LEMMA QueryDetailsStep == ASSUME IInv, NEW w \in Workers, QueryDetails(w) PROVE IInv'
  <1>1. PICK answered \in BOOLEAN :
             worker' = [worker EXCEPT ![w].pc = "queried", ![w].at = now',
                 ![w].seen = Combined(@, answered, venue[worker[w].intent])]
    BY DEF QueryDetails
  <1>2. /\ NextInstant
        /\ UNCHANGED <<kill, run, risk, auth, row, venue, recon, coll, unheeded, stops>>
    BY DEF QueryDetails
  <1>3. worker[w] \in Locals /\ worker[w].intent \in Intents
    BY DEF IInv, Shape, References, QueryDetails
  <1> DEFINE seen == Combined(worker[w].seen, answered, venue[worker[w].intent])
             n == [worker[w] EXCEPT !.pc = "queried", !.at = now', !.seen = seen]
  <1>4. worker' = [worker EXCEPT ![w] = n]
    BY <1>1 DEF IInv, Shape
  <1>5. /\ n \in Locals /\ n.pc = "queried" /\ n.at = now' /\ n.intent = worker[w].intent
    <2>1. seen \in {"none", "absent", "listed", "order", "incomplete"}
      BY <1>3 DEF Combined, Locals
    <2>2. now' \in Nat
      BY <1>2, NewInstant
    <2> HIDE DEF seen
    <2> QED
      BY <1>3, <2>1, <2>2 DEF Locals
  <1> HIDE DEF n
  <1>6. /\ worker' \in [Workers -> Locals] /\ worker'[w] = n
        /\ \A v \in Workers \ {w} : worker'[v] = worker[v]
    BY <1>4, <1>5 DEF IInv, Shape
  <1>7. Charged' /\ Remembered'
    BY <1>2, SameRows DEF IInv, Remembered
  <1>8. Ordered' /\ UpToDate' /\ Renewed' /\ RunFollowsKill'
    BY <1>2, NoStop, SameRows
  <1>9. Shape'
    BY <1>2, <1>6, NewInstant DEF IInv, Shape
  <1>10. InTime'
    <2>1. \A v \in Workers : worker'[v].pc = "queried" => worker'[v].at \in 1 .. now'
      BY <1>2, <1>5, <1>6, NewInstant DEF IInv, InTime
    <2> QED
      BY <1>2, <2>1, NewInstant DEF IInv, InTime
  <1>11. References'
    <2>1. n.pc # "drafted"
      BY <1>5
    <2> QED
      BY <1>2, <1>3, <1>5, <1>6, <2>1 DEF IInv, References
  <1>12. Owned'
    <2>1. row[worker[w].intent].rAt <= now'
      BY <1>2, <1>3, NewInstant DEF IInv, InTime
    <2> QED
      BY <1>2, <1>5, <1>6, <2>1 DEF IInv, Owned
  <1> QED
    BY <1>7, <1>8, <1>9, <1>10, <1>11, <1>12 DEF IInv

LEMMA VenueStep ==
    ASSUME IInv, NEW i \in Intents, ExternalOrder(i) \/ OrderLeaves(i)
    PROVE  IInv'
  <1>1. UNCHANGED <<now, kill, run, risk, auth, row, worker, recon, coll, unheeded, stops>>
    BY DEF ExternalOrder, OrderLeaves
  <1>2. venue' \in [Intents -> {"absent", "order"}]
    BY DEF ExternalOrder, OrderLeaves, IInv, Shape
  <1>3. Charged' /\ Owned' /\ Remembered' /\ References'
    BY <1>1, SameRows DEF IInv, Owned, Remembered, References
  <1>4. Ordered' /\ UpToDate' /\ Renewed' /\ RunFollowsKill'
    BY <1>1, NoStop, SameRows
  <1>5. Shape' /\ InTime'
    BY <1>1, <1>2 DEF IInv, Shape, InTime
  <1> QED
    BY <1>3, <1>4, <1>5 DEF IInv

LEMMA ObserveIncidentStep == ASSUME IInv, NEW w \in Workers, ObserveIncident(w) PROVE IInv'
  <1> DEFINE at == worker[w].at
             b == worker[w].seen = "order"
             x == [SettledRow(worker[w].intent, "incident") EXCEPT !.named = b]
  <1>1. /\ UNCHANGED <<now, auth, venue, recon, coll, unheeded>>
        /\ worker' = [worker EXCEPT ![w] = Idle]
        /\ risk' = [risk EXCEPT !.status = "blocked", !.rec = at]
        /\ worker[w].pc = "queried"
    BY DEF ObserveIncident, IncidentRisk
  <1>2. PICK i \in Intents : i = worker[w].intent /\ row[i].state = "pending"
    BY DEF IInv, References, ObserveIncident, HoldsRecovery
  <1>3. row' = [row EXCEPT ![i] = x]
    BY <1>2 DEF ObserveIncident
  <1>4. /\ x \in Rows /\ x.state = "incident" /\ x.auth = row[i].auth /\ x.owner = Nobody
        /\ x.rOwner = Nobody /\ x.rAt = 0 /\ x.auth \in 0 .. Len(auth)
    <2> DEFINE y == SettledRow(i, "incident")
    <2>1. "incident" \in RowStates /\ b \in BOOLEAN
      BY DEF RowStates
    <2>2. /\ y \in Rows /\ y.state = "incident" /\ y.auth = row[i].auth /\ y.owner = Nobody
          /\ y.rOwner = Nobody /\ y.rAt = 0 /\ y.auth \in 0 .. Len(auth)
      BY <2>1, SettledType
    <2>3. x = [y EXCEPT !.named = b]
      BY <1>2
    <2> HIDE DEF y, b
    <2> QED
      BY <2>1, <2>2, <2>3 DEF Rows
  <1>0. at \in 1 .. now /\ at \in Nat /\ now \in Nat
    BY <1>1 DEF IInv, InTime, Shape
  <1> HIDE DEF at
  <1> HIDE DEF x
  <1>5. /\ row' \in [Intents -> Rows] /\ row'[i] = x
        /\ \A j \in Intents \ {i} : row'[j] = row[j]
    BY <1>3, <1>4 DEF IInv, Shape
  <1>6. /\ worker' \in [Workers -> Locals] /\ worker'[w].pc = "idle"
        /\ \A v \in Workers \ {w} : worker'[v] = worker[v]
    BY <1>1, IdleType DEF IInv, Shape
  <1>7. /\ risk' \in Risks /\ risk'.status = "blocked" /\ risk'.rec = at
        /\ risk'.market = risk.market
    <2>1. risk \in Risks
      BY DEF IInv, Shape
    <2> QED
      BY <1>0, <1>1, <2>1 DEF Risks
  <1>8. Charged'
    <2>1. \A j \in Intents : SameCharge(row[j], row'[j])
      BY <1>2, <1>4, <1>5 DEF SameCharge, IsReserved
    <2> QED
      BY <1>1, <2>1, ChargesStay DEF IInv, Charged, ApprovalNeverOverspent, ReservedWithinBalance
  <1>9. Owned'
    <2>1. \A v \in Workers : worker'[v].pc = "queried" =>
             v # w /\ worker'[v] = worker[v] /\ worker[v].intent \in Intents
      BY <1>6 DEF IInv, References
    <2>2. \A v \in Workers : worker'[v].pc = "queried" /\ row'[worker'[v].intent].rOwner = v
             => worker'[v].at >= row'[worker'[v].intent].rAt
      BY <1>4, <1>5, <2>1 DEF IInv, Owned
    <2> QED
      BY <1>4, <1>5, <2>2 DEF IInv, Owned
  <1>10. Remembered'
    <2>1. i \notin Incidents /\ Incidents \subseteq Incidents'
      BY <1>2, <1>5 DEF Incidents
    <2>2. \A j \in Incidents : j \in Named' <=> j \in Named
      BY <1>5, <2>1 DEF Incidents, Named
    <2>3. recon.stage = "projected" =>
             recon.looked \subseteq Incidents' /\ recon.known = Named' \cap recon.looked
      BY <2>1, <2>2 DEF IInv, Remembered
    <2> QED
      BY <1>1, <1>7, <2>3 DEF Remembered
  <1>11. /\ kill' \in Kills /\ kill'.triggered <= now /\ kill'.updated \in 1 .. now
         /\ kill'.reset = kill.reset /\ run' \in {"dry_run_running", "stopped"}
         /\ stops' \in Nat /\ Ordered' /\ UpToDate' /\ Renewed' /\ RunFollowsKill'
    <2>1. CASE kill.state = "stopped"
      <3>1. UNCHANGED <<kill, run, stops>>
        BY <2>1 DEF ObserveIncident
      <3>2. kill \in Kills /\ kill.triggered <= now /\ kill.updated \in 1 .. now
        BY DEF IInv, Shape, InTime
      <3>3. run \in {"dry_run_running", "stopped"} /\ stops \in Nat
        BY DEF IInv, Shape
      <3> QED
        BY <1>1, <2>1, <3>1, <3>2, <3>3, NoStop
    <2>2. CASE kill.state # "stopped"
      <3>1. StopKill(at, at)
        BY <2>2 DEF ObserveIncident, at
      <3>2. /\ kill' \in Kills /\ kill'.state = "stopped" /\ kill'.triggered = at
            /\ kill'.updated = at /\ kill'.reset = kill.reset /\ run' = "stopped"
            /\ stops' = stops + 1 /\ Ordered' /\ UpToDate' /\ Renewed'
        BY <1>0, <1>1, <3>1, StopStep
      <3>3. stops' \in Nat
        BY <3>2 DEF IInv, Shape
      <3> QED
        BY <1>0, <3>2, <3>3 DEF RunFollowsKill
    <2> QED
      BY <2>1, <2>2
  <1>12. Shape'
    BY <1>1, <1>5, <1>6, <1>7, <1>11 DEF IInv, Shape
  <1>13. InTime'
    <2>1. \A j \in Intents : row'[j].rAt <= now
      BY <1>0, <1>4, <1>5 DEF IInv, InTime
    <2>2. \A v \in Workers : worker'[v].pc = "queried" => worker'[v].at \in 1 .. now
      BY <1>6 DEF IInv, InTime
    <2> QED
      BY <1>0, <1>1, <1>7, <1>11, <2>1, <2>2 DEF IInv, InTime
  <1>14. References'
    <2>1. \A j \in Intents : row'[j].auth \in 0 .. Len(auth)
      BY <1>4, <1>5 DEF IInv, References
    <2>2. \A v \in Workers : /\ worker'[v].pc # "idle" => worker'[v].intent \in Intents
                             /\ worker'[v].pc = "drafted" => worker'[v].auth \in DOMAIN auth
      BY <1>6 DEF IInv, References
    <2> QED
      BY <1>1, <1>7, <1>11, <2>1, <2>2 DEF IInv, References
  <1> QED
    BY <1>8, <1>9, <1>10, <1>11, <1>12, <1>13, <1>14 DEF IInv

\* A reset names a report on the present kill row, so every continuation there is
\* was collected before that report.
LEMMA ResetKillStep == ASSUME IInv, NEW a \in DOMAIN auth, ResetKill(a) PROVE IInv'
  <1>1. /\ run' = "dry_run_running"
        /\ UNCHANGED <<now, risk, auth, row, venue, worker, recon, coll, unheeded, stops>>
    BY DEF ResetKill
  <1>2. kill \in Kills /\ a \in Nat /\ now \in Nat /\ auth \in Seq(Authorities)
    BY DEF IInv, Shape
  <1>3. kill' = [kill EXCEPT !.state = "armed", !.version = kill.version + 1, !.updated = now,
                             !.reset = a]
    BY DEF ResetKill
  <1>4. /\ kill' \in Kills /\ kill'.state = "armed" /\ kill'.version = kill.version + 1
        /\ kill'.updated = now /\ kill'.reset = a /\ kill'.triggered = kill.triggered
        /\ kill.version \in Nat
    <2>1. kill.version \in Nat /\ kill.version + 1 \in Nat
      BY KillVersion
    <2> QED
      BY <1>2, <1>3, <2>1 DEF Kills
  <1>5. Shape' /\ RunFollowsKill'
    BY <1>1, <1>4 DEF IInv, Shape, RunFollowsKill
  <1>6. InTime'
    BY <1>1, <1>2, <1>4 DEF IInv, InTime, Shape
  <1>7. a \in 1 .. Len(auth)
    BY <1>2
  <1>8. References'
    BY <1>1, <1>4, <1>7 DEF IInv, References
  <1>9. Charged' /\ Owned' /\ Remembered'
    BY <1>1, SameRows DEF IInv, Owned, Remembered
  <1>10. \A b \in DOMAIN auth : /\ auth[b].version \in Nat /\ auth[b].version <= kill.version
                                /\ auth[b].at \in Nat /\ b \in Nat
    <2> SUFFICES ASSUME NEW b \in DOMAIN auth
                 PROVE  /\ auth[b].version \in Nat /\ auth[b].version <= kill.version
                        /\ auth[b].at \in Nat /\ b \in Nat
      OBVIOUS
    <2>1. auth[b] \in Authorities /\ b \in Nat
      BY <1>2
    <2>2. auth[b].version \in Nat /\ auth[b].at \in Nat
      BY <2>1 DEF Authorities
    <2> QED
      BY <2>1, <2>2 DEF IInv, Ordered
  <1>11. Ordered'
    <2>1. \A b \in DOMAIN auth : auth[b].version <= kill'.version
      BY <1>4, <1>10
    <2>2. coll.purpose # "none" => coll.version \in Nat
      BY DEF IInv, Shape, Colls, NoColl
    <2> QED
      BY <1>1, <1>4, <2>1, <2>2 DEF IInv, Ordered
  <1>12. \A c \in DOMAIN auth : auth[c].purpose = "run_continue" => auth[c].at < now
    <2> SUFFICES ASSUME NEW c \in DOMAIN auth, auth[c].purpose = "run_continue"
                 PROVE  auth[c].at < now
      OBVIOUS
    <2>1. auth[a].version = kill.version /\ kill.state = "stopped"
      BY DEF ResetKill, ResetAllowed
    <2>2. auth[c].version # kill.version
      BY <2>1 DEF IInv, UpToDate, ExpectedKill
    <2>3. c # a /\ ~(a < c)
      BY <1>10, <2>1, <2>2 DEF IInv, Ordered
    <2>4. auth[c].at < auth[a].at
      BY <1>10, <2>3 DEF IInv, Ordered
    <2>5. auth[a].at <= now
      BY DEF IInv, InTime
    <2> QED
      BY <1>2, <1>10, <2>4, <2>5
  <1>13. UpToDate'
    <2>1. Continuations' = {}
      BY <1>1, <1>2, <1>4, <1>10, <1>12 DEF Continuations
    <2>2. \A b \in DOMAIN auth : auth[b].version # kill'.version
      BY <1>4, <1>10
    <2>3. kill'.reset # 0
      BY <1>4, <1>7
    <2> QED
      BY <1>1, <2>1, <2>2, <2>3 DEF IInv, UpToDate
  <1>14. Renewed'
    <2>1. \A b \in DOMAIN auth : auth[b].version # kill'.version
      BY <1>4, <1>10
    <2>2. coll.purpose # "none" => coll.version # kill'.version
      BY <1>4 DEF IInv, Shape, Colls, NoColl, Ordered
    <2>3. kill'.reset # 0
      BY <1>4, <1>7
    <2> QED
      BY <1>1, <2>1, <2>2, <2>3 DEF IInv, Renewed
  <1> QED
    BY <1>5, <1>6, <1>8, <1>9, <1>11, <1>13, <1>14 DEF IInv

-----------------------------------------------------------------------------
(* Preflight reports and reconciliations.                                  *)

LEMMA CollectPreflightStep ==
    ASSUME IInv, NEW p \in {"kill_reset", "run_continue"}, CollectPreflight(p) PROVE IInv'
  <1> DEFINE c == [purpose |-> p, at |-> now', version |-> kill.version, rec |-> risk.rec,
                   found |-> Incidents]
  <1>1. /\ NextInstant /\ coll' = c
        /\ UNCHANGED <<kill, run, risk, auth, row, venue, worker, recon, unheeded, stops>>
    BY DEF CollectPreflight
  <1>2. now' \in Nat /\ kill.version \in Nat /\ risk.rec \in Nat /\ Incidents \in SUBSET Intents
    BY <1>1, NewInstant DEF Incidents
  <1>3. /\ coll' \in Colls /\ coll'.purpose = p /\ coll'.at = now'
        /\ coll'.version = kill.version /\ coll'.found = Incidents
    BY <1>1, <1>2 DEF Colls
  <1>4. Charged' /\ Owned' /\ Remembered' /\ References'
    BY <1>1, SameRows DEF IInv, Owned, Remembered, References
  <1>5. Shape' /\ RunFollowsKill'
    BY <1>1, <1>3, NewInstant DEF IInv, Shape, RunFollowsKill
  <1>6. InTime'
    BY <1>1, <1>3, NewInstant DEF IInv, InTime
  <1>7. UpToDate'
    BY <1>1 DEF IInv, UpToDate, Continuations
  <1>8. Ordered'
    <2>1. \A a \in DOMAIN auth : auth[a].at < now'
      BY <1>1, NewInstant DEF IInv, InTime
    <2>2. \A a \in DOMAIN auth : auth[a].version <= kill.version
      BY DEF IInv, Ordered
    <2> QED
      BY <1>1, <1>2, <1>3, <2>1, <2>2 DEF IInv, Ordered
  <1>9. Renewed'
    <2>1. p = "run_continue" => kill.state = "armed"
      BY DEF CollectPreflight, ExpectedKill
    <2>2. Incidents' = Incidents
      BY <1>1, SameRows
    <2> QED
      BY <1>1, <1>3, <2>1, <2>2 DEF IInv, Renewed
  <1> QED
    BY <1>4, <1>5, <1>6, <1>7, <1>8, <1>9 DEF IInv

LEMMA AppendedSequence ==
    ASSUME NEW S, NEW q \in Seq(S), NEW e \in S
    PROVE  /\ Append(q, e) \in Seq(S) /\ Len(Append(q, e)) = Len(q) + 1
           /\ Append(q, e)[Len(q) + 1] = e
           /\ DOMAIN Append(q, e) = 1 .. (Len(q) + 1) /\ DOMAIN q = 1 .. Len(q)
           /\ \A i \in DOMAIN q : Append(q, e)[i] = q[i]
  OBVIOUS

\* A report and its approval are stored, and name the kill row as it is.
LEMMA PersistedPreflight ==
    ASSUME IInv, PersistPreflight, StillCurrent, NEW n \in Nat, n = Len(auth),
           NEW e, e = Authority(coll.purpose, coll.at, coll.version, stops, coll.found)
    PROVE  IInv'
  <1>1. /\ auth' = Append(auth, e) /\ coll' = NoColl
        /\ UNCHANGED <<now, kill, run, row, venue, worker, recon, unheeded, stops>>
    BY DEF PersistPreflight
  <1>2. risk' = [risk EXCEPT !.market = n + 1]
    BY DEF PersistPreflight
  <1>3. /\ coll \in [purpose : {"kill_reset", "run_continue"}, at : Nat, version : Nat, rec : Nat,
                   found : SUBSET Intents]
        /\ stops \in Nat /\ auth \in Seq(Authorities) /\ risk \in Risks
    BY DEF PersistPreflight, IInv, Shape, Colls
  <1>4. /\ e \in Authorities /\ e.purpose = coll.purpose /\ e.at = coll.at
        /\ e.version = kill.version /\ e.stop = stops /\ e.consumed = 0 /\ e.found = coll.found
        /\ kill.state = ExpectedKill(e.purpose) /\ e.purpose # "run_start"
    <2>1. coll.version = kill.version /\ kill.state = ExpectedKill(coll.purpose)
      BY DEF StillCurrent, KillStillCurrent
    <2> QED
      BY <1>3, <2>1 DEF Authority, Authorities, Purposes
  <1>5. /\ auth' \in Seq(Authorities) /\ Len(auth') = n + 1 /\ auth'[n + 1] = e
        /\ DOMAIN auth' = 1 .. (n + 1) /\ DOMAIN auth = 1 .. n
        /\ \A a \in DOMAIN auth : auth'[a] = auth[a]
    <2>1. e \in Authorities
      BY <1>4
    <2> QED
      BY <1>1, <1>3, <2>1, AppendedSequence
  <1>6. /\ risk' \in Risks /\ risk'.rec = risk.rec /\ risk'.status = risk.status
        /\ risk'.market = n + 1 /\ risk'.found = risk.found /\ risk'.looked = risk.looked
    <2>1. n + 1 \in Nat /\ risk \in Risks
      BY <1>3
    <2> QED
      BY <1>2, <2>1 DEF Risks
  <1>7. Shape'
    BY <1>1, <1>5, <1>6 DEF IInv, Shape, Colls
  <1>8. RunFollowsKill' /\ Owned'
    BY <1>1 DEF IInv, RunFollowsKill, Owned
  <1>9. InTime'
    <2>1. e.at <= now /\ coll'.at <= now
      BY <1>1, <1>4 DEF IInv, InTime, NoColl, Shape
    <2>2. \A a \in DOMAIN auth' : auth'[a].at <= now
      BY <1>5, <2>1 DEF IInv, InTime
    <2> QED
      BY <1>1, <1>6, <2>1, <2>2 DEF IInv, InTime
  <1>10. References'
    BY <1>1, <1>5, <1>6 DEF IInv, References
  <1>11. Charged'
    <2>1. Reserved' = Reserved /\ \A a : ChargedTo(a)' = ChargedTo(a)
      BY <1>1 DEF Reserved, ChargedTo
    <2>2. ChargedTo(n + 1) = 0
      <3>1. {i \in Intents : row[i].auth = n + 1 /\ row[i].state \notin {"absent", "blocked"}} = {}
        BY <1>5 DEF IInv, References
      <3> QED
        BY <3>1, FS_EmptySet DEF ChargedTo
    <2>3. auth'[n + 1].consumed = ChargedTo(n + 1) /\ auth'[n + 1].consumed <= MaxApproved
      BY <1>4, <1>5, <2>2
    <2>4. \A a \in DOMAIN auth' : /\ auth'[a].consumed = ChargedTo(a)'
                                  /\ auth'[a].consumed <= MaxApproved
      BY <1>5, <2>1, <2>3 DEF IInv, Charged, ApprovalNeverOverspent
    <2> QED
      BY <2>1, <2>4 DEF IInv, Charged, ApprovalNeverOverspent, ReservedWithinBalance
  <1>12. Ordered'
    <2>1. \A a \in DOMAIN auth : auth[a].at < e.at /\ auth[a].version <= e.version
      BY <1>3, <1>4 DEF IInv, Ordered
    <2>2. \A a, b \in DOMAIN auth' : a < b => /\ auth'[a].at < auth'[b].at
                                              /\ auth'[a].version <= auth'[b].version
      <3> SUFFICES ASSUME NEW a \in DOMAIN auth', NEW b \in DOMAIN auth', a < b
                   PROVE  /\ auth'[a].at < auth'[b].at /\ auth'[a].version <= auth'[b].version
        OBVIOUS
      <3>1. a \in DOMAIN auth
        BY <1>5
      <3>2. CASE b = n + 1
        BY <1>5, <2>1, <3>1, <3>2
      <3>3. CASE b # n + 1
        BY <1>5, <3>1, <3>3 DEF IInv, Ordered
      <3> QED
        BY <3>2, <3>3
    <2>3. kill.version \in Nat
      BY KillVersion
    <2>4. \A a \in DOMAIN auth' : auth'[a].version <= kill'.version
      BY <1>1, <1>4, <1>5, <2>3 DEF IInv, Ordered
    <2>5. coll'.purpose = "none"
      BY <1>1 DEF NoColl
    <2> QED
      BY <2>2, <2>4, <2>5 DEF Ordered
  <1>13. UpToDate'
    <2>1. \A a \in DOMAIN auth' : auth'[a].version = kill'.version =>
             /\ auth'[a].stop = stops'
             /\ auth'[a].purpose # "run_start" => kill'.state = ExpectedKill(auth'[a].purpose)
      BY <1>1, <1>4, <1>5 DEF IInv, UpToDate
    <2>2. auth'[1].version = 0
      BY <1>5 DEF IInv, UpToDate, References
    <2>3. kill'.state = "armed" /\ kill'.reset # 0 =>
             \A a \in Continuations' : auth'[a].version = kill'.version
      <3> SUFFICES ASSUME kill.state = "armed", kill.reset # 0, NEW a \in Continuations'
                   PROVE  auth'[a].version = kill.version
        BY <1>1
      <3>1. CASE a = n + 1
        BY <1>4, <1>5, <3>1
      <3>2. CASE a # n + 1
        <4>1. a \in Continuations /\ a \in DOMAIN auth
          BY <1>1, <1>5, <3>2 DEF Continuations
        <4> QED
          BY <1>5, <4>1 DEF IInv, UpToDate
      <3> QED
        BY <3>1, <3>2
    <2> QED
      BY <1>1, <2>1, <2>2, <2>3 DEF IInv, UpToDate
  <1>14. Incidents' = Incidents /\ Named' = Named
    BY <1>1 DEF Incidents, Named
  <1>15. Remembered'
    BY <1>1, <1>6, <1>14 DEF IInv, Remembered
  <1>16. Renewed'
    <2>1. coll.version = kill.version
      BY DEF StillCurrent, KillStillCurrent
    <2>2. e.purpose = "run_continue" => kill.state = "armed" /\ e.found = Incidents
      BY <1>4, <2>1 DEF IInv, Renewed
    <2>3. auth'[1].found = {}
      BY <1>5 DEF IInv, References, Renewed
    <2>4. coll'.purpose = "none"
      BY <1>1 DEF NoColl
    <2> QED
      BY <1>1, <1>5, <1>14, <2>2, <2>3, <2>4 DEF IInv, Renewed
  <1> QED
    BY <1>7, <1>8, <1>9, <1>10, <1>11, <1>12, <1>13, <1>15, <1>16 DEF IInv

LEMMA PersistPreflightStep == ASSUME IInv, PersistPreflight PROVE IInv'
  <1>1. CASE StillCurrent
    <2>1. Len(auth) \in Nat
      BY DEF IInv, Shape
    <2> QED
      BY <1>1, <2>1, PersistedPreflight
  <1>2. CASE ~StillCurrent
    <2>1. /\ coll' = NoColl
          /\ UNCHANGED <<now, kill, run, risk, auth, row, venue, worker, recon, unheeded, stops>>
      BY <1>2 DEF PersistPreflight
    <2>2. Charged' /\ Owned' /\ Remembered' /\ References'
      BY <2>1, SameRows DEF IInv, Owned, Remembered, References
    <2>3. Shape' /\ RunFollowsKill' /\ InTime'
      BY <2>1 DEF IInv, Shape, RunFollowsKill, InTime, Colls, NoColl
    <2>4. Ordered' /\ UpToDate'
      BY <2>1 DEF IInv, Ordered, UpToDate, Continuations, NoColl
    <2>5. Renewed'
      <3>1. coll'.purpose = "none" /\ Incidents' = Incidents
        BY <2>1, SameRows DEF NoColl
      <3> QED
        BY <2>1, <3>1 DEF IInv, Renewed
    <2> QED
      BY <2>2, <2>3, <2>4, <2>5 DEF IInv
  <1> QED
    BY <1>1, <1>2

LEMMA CollectVenueStep == ASSUME IInv, NEW c \in BOOLEAN, CollectVenue(c) PROVE IInv'
  <1> DEFINE seen == IF c THEN External ELSE {}
  <1>1. /\ recon' = [NoRecon EXCEPT !.stage = "collected", !.complete = c, !.seen = seen]
        /\ UNCHANGED <<now, kill, run, risk, auth, row, venue, worker, coll, unheeded, stops>>
    BY DEF CollectVenue
  <1>2. seen \in SUBSET Intents
    BY DEF External
  <1>3. recon' \in Recons /\ recon'.stage = "collected"
    <2> HIDE DEF seen
    <2> QED
      BY <1>1, <1>2 DEF NoRecon, Recons
  <1>4. Charged' /\ Owned' /\ References'
    BY <1>1, SameRows DEF IInv, Owned, References
  <1>5. Shape' /\ InTime'
    BY <1>1, <1>3 DEF IInv, Shape, InTime
  <1>6. Ordered' /\ UpToDate' /\ Renewed' /\ RunFollowsKill'
    BY <1>1, NoStop, SameRows
  <1>7. Remembered'
    BY <1>1, <1>3, SameRows DEF IInv, Remembered
  <1> QED
    BY <1>4, <1>5, <1>6, <1>7 DEF IInv

LEMMA ProjectLocalStep == ASSUME IInv, ProjectLocal PROVE IInv'
  <1>1. /\ NextInstant
        /\ recon' = [recon EXCEPT !.stage = "projected", !.at = now', !.known = Named,
                                !.looked = Incidents]
        /\ UNCHANGED <<kill, run, risk, auth, row, venue, worker, coll, unheeded, stops>>
    BY DEF ProjectLocal
  <1>2. /\ recon \in Recons /\ Incidents \in SUBSET Intents /\ Named \in SUBSET Intents
        /\ now' \in Nat /\ Named \subseteq Incidents
    BY <1>1, NewInstant DEF IInv, Shape, Incidents, Named
  <1>3. /\ recon' \in Recons /\ recon'.stage = "projected" /\ recon'.at = now'
        /\ recon'.known = Named /\ recon'.looked = Incidents
    BY <1>1, <1>2 DEF Recons
  <1>4. Charged' /\ Owned' /\ References' /\ Incidents' = Incidents /\ Named' = Named
    BY <1>1, SameRows DEF IInv, Owned, References
  <1>5. Shape'
    BY <1>1, <1>3, NewInstant DEF IInv, Shape
  <1>6. InTime'
    BY <1>1, <1>3, NewInstant DEF IInv, InTime
  <1>7. Ordered' /\ UpToDate' /\ Renewed' /\ RunFollowsKill'
    BY <1>1, NoStop, SameRows
  <1>8. Remembered'
    BY <1>1, <1>2, <1>3, <1>4 DEF IInv, Remembered
  <1> QED
    BY <1>4, <1>5, <1>6, <1>7, <1>8 DEF IInv

LEMMA PersistReconciliationStep == ASSUME IInv, PersistReconciliation PROVE IInv'
  <1>1. /\ recon.stage = "projected" /\ recon' = NoRecon
        /\ UNCHANGED <<now, auth, row, venue, worker, coll, unheeded>>
    BY DEF PersistReconciliation
  <1>2. /\ NoRecon \in Recons /\ NoRecon.stage = "none"
    BY DEF NoRecon, Recons
  <1>3. /\ recon.at \in Nat /\ recon.at \in 1 .. now /\ now \in Nat /\ stops \in Nat
        /\ risk \in Risks /\ kill \in Kills /\ recon.looked \in SUBSET Intents
        /\ Incidents \in SUBSET Intents
    BY <1>1 DEF IInv, Shape, InTime, Recons, Incidents
  <1>4. Charged' /\ Owned' /\ Incidents' = Incidents /\ Named' = Named
    BY <1>1, SameRows DEF IInv, Owned
  <1>5. /\ risk' \in Risks /\ risk'.rec \in 1 .. now /\ risk'.market = risk.market
        /\ risk'.status = "reconciled" => /\ risk'.found = Incidents
                                          /\ Named \cap risk'.looked = {}
    <2>1. CASE NotRegressed
      <3>1. risk' = [risk EXCEPT !.status = ReconciliationStatus, !.rec = recon.at,
                                 !.found = Incidents, !.looked = recon.looked]
        BY <2>1 DEF PersistReconciliation
      <3>2. ReconciliationStatus \in {"reconciled", "blocked", "unknown"}
        BY DEF ReconciliationStatus
      <3>3. /\ risk' \in Risks /\ risk'.rec = recon.at /\ risk'.market = risk.market
            /\ risk'.status = ReconciliationStatus /\ risk'.found = Incidents
            /\ risk'.looked = recon.looked
        BY <1>3, <3>1, <3>2 DEF Risks
      <3>4. ReconciliationStatus = "reconciled" => recon.known = {}
        BY DEF ReconciliationStatus
      <3>5. recon.known = Named \cap recon.looked
        BY <1>1 DEF IInv, Remembered
      <3> QED
        BY <1>3, <3>3, <3>4, <3>5
    <2>2. CASE ~NotRegressed
      BY <1>3, <2>2 DEF PersistReconciliation, IInv, InTime, Remembered
    <2> QED
      BY <2>1, <2>2
  <1>6. /\ kill' \in Kills /\ kill'.triggered <= now /\ kill'.updated \in 1 .. now
        /\ kill'.reset = kill.reset /\ run' \in {"dry_run_running", "stopped"}
        /\ stops' \in Nat /\ Ordered' /\ UpToDate' /\ Renewed' /\ RunFollowsKill'
    <2>1. CASE /\ NotRegressed /\ ReconciliationStatus # "reconciled" /\ kill.state = "armed"
      <3> DEFINE t == IF kill.triggered = 0 THEN recon.at ELSE kill.triggered
      <3>1. t \in Nat /\ t <= now
        BY <1>3 DEF Kills, IInv, InTime
      <3>2. StopKill(recon.at, t)
        BY <2>1 DEF PersistReconciliation, ReconcileStop, StopKill
      <3> HIDE DEF t
      <3>3. /\ kill' \in Kills /\ kill'.state = "stopped" /\ kill'.triggered = t
            /\ kill'.updated = recon.at /\ kill'.reset = kill.reset /\ run' = "stopped"
            /\ stops' = stops + 1 /\ Ordered' /\ UpToDate' /\ Renewed'
        BY <1>1, <1>3, <3>1, <3>2, StopStep
      <3> QED
        BY <1>3, <3>1, <3>3 DEF RunFollowsKill
    <2>2. CASE UNCHANGED <<kill, run, stops>>
      <3>1. kill.triggered <= now /\ kill.updated \in 1 .. now
        BY DEF IInv, InTime
      <3>2. run \in {"dry_run_running", "stopped"}
        BY DEF IInv, Shape
      <3> QED
        BY <1>1, <1>3, <1>4, <2>2, <3>1, <3>2, NoStop
    <2> QED
      BY <2>1, <2>2 DEF PersistReconciliation
  <1>7. Shape'
    BY <1>1, <1>2, <1>5, <1>6 DEF IInv, Shape
  <1>8. InTime'
    BY <1>1, <1>2, <1>5, <1>6 DEF IInv, InTime
  <1>9. References'
    BY <1>1, <1>5, <1>6 DEF IInv, References
  <1>10. Remembered'
    BY <1>1, <1>2, <1>4, <1>5 DEF Remembered
  <1> QED
    BY <1>4, <1>6, <1>7, <1>8, <1>9, <1>10 DEF IInv

-----------------------------------------------------------------------------
(* The invariant holds in every behaviour.                                 *)

LEMMA InitInvariant == ASSUME Init PROVE IInv
  <1> DEFINE first == Authority("run_start", 1, 0, 0, {})
  <1>1. /\ first \in Authorities /\ first.at = 1 /\ first.version = 0 /\ first.stop = 0
        /\ first.consumed = 0 /\ first.purpose = "run_start" /\ first.found = {}
    BY DEF Authority, Authorities, Purposes
  <1>2. auth = <<first>>
    BY DEF Init
  <1> HIDE DEF first
  <1>3. /\ auth \in Seq(Authorities) /\ Len(auth) = 1 /\ DOMAIN auth = {1} /\ auth[1] = first
        /\ auth # <<>>
    BY <1>1, <1>2
  <1>4. \A i \in Intents : row[i] = NoRow
    BY DEF Init
  <1>5. \A w \in Workers : worker[w] = Idle
    BY DEF Init
  <1>6. /\ kill \in Kills /\ kill.state = "armed" /\ kill.version = 0 /\ kill.triggered = 0
        /\ kill.updated = 1 /\ kill.reset = 0
    BY DEF Init, Kills
  <1>7. /\ risk \in Risks /\ risk.market = 1 /\ risk.status = "reconciled" /\ risk.rec = 1
        /\ risk.found = {} /\ risk.looked = {}
    BY DEF Init, Risks
  <1>8. /\ recon \in Recons /\ recon.stage = "none" /\ coll = NoColl /\ now = 1 /\ stops = 0
        /\ run = "dry_run_running" /\ unheeded = FALSE
    BY DEF Init, NoRecon, Recons
  <1>9. coll.at = 0 /\ coll.purpose = "none"
    BY <1>8 DEF NoColl
  <1>10. NoRow.state = "absent" /\ Idle.pc = "idle"
    BY DEF NoRow, Idle
  <1>11. Shape
    <2>1. row \in [Intents -> Rows] /\ worker \in [Workers -> Locals]
      BY NoRowType, IdleType DEF Init
    <2>2. venue \in [Intents -> {"absent", "order"}]
      BY DEF Init
    <2>3. now \in 1 .. MaxTime /\ stops \in Nat
      BY <1>8
    <2>4. unheeded \in BOOLEAN /\ run \in {"dry_run_running", "stopped"} /\ coll \in Colls
      BY <1>8 DEF Colls
    <2> QED
      BY <1>3, <1>6, <1>7, <1>8, <2>1, <2>2, <2>3, <2>4 DEF Shape
  <1>12. RunFollowsKill
    BY <1>6, <1>8 DEF RunFollowsKill
  <1>13. InTime
    BY <1>1, <1>3, <1>4, <1>5, <1>6, <1>7, <1>8, <1>9, <1>10, NoRowType DEF InTime
  <1>14. References
    BY <1>3, <1>4, <1>5, <1>6, <1>7, <1>10, NoRowType DEF References
  <1>15. Owned
    BY <1>4, <1>5, <1>10, NoRowType DEF Owned
  <1>16. Charged
    <2>1. \A i \in Intents : row[i].state = "absent"
      BY <1>4, <1>10
    <2>2. Reserved = 0
      <3>1. {i \in Intents : row[i].state \notin {"absent", "blocked"}} = {}
        BY <2>1
      <3> QED
        BY <3>1, FS_EmptySet DEF Reserved
    <2>3. ChargedTo(1) = 0
      <3>1. {i \in Intents : row[i].auth = 1 /\ row[i].state \notin {"absent", "blocked"}} = {}
        BY <2>1
      <3> QED
        BY <3>1, FS_EmptySet DEF ChargedTo
    <2> QED
      BY <1>1, <1>3, <2>2, <2>3 DEF Charged, ApprovalNeverOverspent, ReservedWithinBalance
  <1>17. Ordered
    BY <1>1, <1>3, <1>6, <1>9 DEF Ordered
  <1>18. UpToDate
    BY <1>1, <1>3, <1>6, <1>8 DEF UpToDate
  <1>19. Renewed /\ Remembered
    <2>1. Incidents = {}
      BY <1>4, <1>10 DEF Incidents
    <2> QED
      BY <1>1, <1>3, <1>7, <1>8, <1>9, <2>1 DEF Renewed, Remembered
  <1> QED
    BY <1>11, <1>12, <1>13, <1>14, <1>15, <1>16, <1>17, <1>18, <1>19 DEF IInv

LEMMA PrepareStep == ASSUME IInv, NEW w \in Workers, Prepare(w) PROVE IInv'
  <1>1. CASE PrepareRefused(w)
    BY <1>1, RefusedStep DEF PrepareRefused
  <1>2. CASE PrepareReplayed(w)
    BY <1>2, PrepareReplayedStep
  <1>3. CASE PrepareBlocked(w)
    BY <1>3, PrepareBlockedStep
  <1>4. CASE PrepareAccepted(w)
    BY <1>4, PrepareAcceptedStep
  <1> QED
    BY <1>1, <1>2, <1>3, <1>4 DEF Prepare

LEMMA WorkerStepInvariant == ASSUME IInv, NEW w \in Workers, WorkerStep(w) PROVE IInv'
  <1>1. CASE \E i \in Intents, a \in DOMAIN auth : DraftIntent(w, i, a)
    BY <1>1, DraftIntentStep
  <1>2. CASE Prepare(w)
    BY <1>2, PrepareStep
  <1>3. CASE ClaimDispatch(w)
    BY <1>3, ClaimDispatchStep
  <1>4. CASE ClaimLost(w) \/ ClaimStolen(w) \/ ObservationRefused(w) \/ Crash(w)
    BY <1>4, RefusedStep DEF ClaimLost, ClaimStolen, ObservationRefused, Crash
  <1>5. CASE SuppressDispatch(w)
    <2>1. worker[w].at \in Nat
      BY DEF IInv, Shape, Locals
    <2> QED
      BY <1>5, <2>1, SettleClaimStep DEF SuppressDispatch
  <1>6. CASE MarkPendingRecovery(w)
    <2>1. now \in Nat
      BY DEF IInv, Shape
    <2> QED
      BY <1>6, <2>1, SettleClaimStep DEF MarkPendingRecovery
  <1>7. CASE \E i \in Intents : ClaimRecovery(w, i)
    BY <1>7, ClaimRecoveryStep
  <1>8. CASE QueryLists(w) \/ QueryDetails(w)
    BY <1>8, QueryListsStep, QueryDetailsStep
  <1>9. CASE ObserveNothing(w)
    BY <1>9, ObserveNothingStep
  <1>10. CASE ObserveIncident(w)
    BY <1>10, ObserveIncidentStep
  <1> QED
    BY <1>1, <1>2, <1>3, <1>4, <1>5, <1>6, <1>7, <1>8, <1>9, <1>10 DEF WorkerStep

LEMMA NextInvariant == ASSUME IInv, [Next]_vars PROVE IInv'
  <1>1. CASE \E w \in Workers : WorkerStep(w)
    BY <1>1, WorkerStepInvariant
  <1>2. CASE TriggerKill
    BY <1>2, TriggerKillStep
  <1>3. CASE \E a \in DOMAIN auth : ResetKill(a)
    BY <1>3, ResetKillStep
  <1>4. CASE \E p \in {"kill_reset", "run_continue"} : CollectPreflight(p)
    BY <1>4, CollectPreflightStep
  <1>5. CASE PersistPreflight
    BY <1>5, PersistPreflightStep
  <1>6. CASE \E c \in BOOLEAN : CollectVenue(c)
    BY <1>6, CollectVenueStep
  <1>7. CASE ProjectLocal
    BY <1>7, ProjectLocalStep
  <1>8. CASE PersistReconciliation
    BY <1>8, PersistReconciliationStep
  <1>9. CASE \E i \in Intents : ExternalOrder(i) \/ OrderLeaves(i)
    BY <1>9, VenueStep
  <1>10. CASE Tick
    BY <1>10, TickStep
  <1>11. CASE UNCHANGED vars
    <2>1. UNCHANGED <<now, kill, run, risk, auth, row, venue, worker, recon, coll, unheeded, stops>>
      BY <1>11 DEF vars
    <2>2. Charged' /\ Owned' /\ Remembered' /\ References'
      BY <2>1, SameRows DEF IInv, Owned, Remembered, References
    <2>3. Shape' /\ InTime'
      BY <2>1 DEF IInv, Shape, InTime
    <2>4. Ordered' /\ UpToDate' /\ Renewed' /\ RunFollowsKill'
      BY <2>1, NoStop, SameRows
    <2> QED
      BY <2>2, <2>3, <2>4 DEF IInv
  <1> QED
    BY <1>1, <1>2, <1>3, <1>4, <1>5, <1>6, <1>7, <1>8, <1>9, <1>10, <1>11 DEF Next

LEMMA Invariance == Spec => []IInv
  <1>1. Init => IInv
    BY InitInvariant
  <1>2. IInv /\ [Next]_vars => IInv'
    BY NextInvariant
  <1> QED
    BY <1>1, <1>2, PTL DEF Spec

-----------------------------------------------------------------------------
(* What the invariant says of the run.                                     *)

LEMMA SoundAuthority == ASSUME IInv PROVE AuthoritySound
  <1>1. now \in 1 .. MaxTime /\ stops \in Nat /\ unheeded \in BOOLEAN
    BY DEF IInv, Shape, InTime
  <1>2. /\ kill.state \in {"armed", "stopped"} /\ kill.reset \in 0 .. Len(auth)
        /\ kill.triggered \in 0 .. now /\ kill.updated \in 1 .. now
    <2>1. kill \in Kills
      BY DEF IInv, Shape
    <2>2. kill.triggered \in Nat /\ kill.state \in {"armed", "stopped"}
      BY <2>1 DEF Kills
    <2> QED
      BY <2>2, <1>1 DEF IInv, InTime, References
  <1>3. run \in {"dry_run_running", "stopped"}
    BY DEF IInv, Shape
  <1>4. /\ risk.status \in {"reconciled", "blocked", "unknown"} /\ risk.rec \in 1 .. now
        /\ risk.market \in DOMAIN auth
    <2>1. risk \in Risks
      BY DEF IInv, Shape
    <2> QED
      BY <2>1 DEF IInv, InTime, References, Risks
  <1>5. \A i \in Intents : /\ row[i].state \in RowStates /\ row[i].auth \in 0 .. Len(auth)
                           /\ row[i].owner \in Workers \cup {Nobody}
                           /\ row[i].rOwner \in Workers \cup {Nobody}
    BY DEF IInv, Shape, References, Rows, Owners
  <1>6. TypeOK
    BY <1>1, <1>2, <1>3, <1>4, <1>5 DEF TypeOK
  <1> QED
    BY <1>6 DEF AuthoritySound, IInv, Charged

(* However many workers, operators and collectors interleave, the run is       *)
(* stopped exactly while its kill switch is, every approval is charged once per *)
(* order prepared under it and never overspent, and every stored time and       *)
(* reference is one of the run's own.                                           *)
THEOREM AuthorityIsSound == Spec => []AuthoritySound
  <1>1. IInv => AuthoritySound
    BY SoundAuthority
  <1> QED
    BY <1>1, Invariance, PTL

(* The orders of a run that still hold a reservation never exceed the balance,  *)
(* though workers draft them from balances read before their transactions.      *)
THEOREM ReservationsCovered == Spec => []ReservedWithinBalance
  <1>1. IInv => ReservedWithinBalance
    BY DEF IInv, Charged
  <1> QED
    BY <1>1, Invariance, PTL

-----------------------------------------------------------------------------
(* What no step of the run may do.                                         *)

\* An order is prepared only by the step that accepts it.
LEMMA PreparesAccepts ==
    ASSUME IInv, Next, NEW i \in Intents, Prepares(i)
    PROVE  \E w \in Workers : PrepareAccepted(w) /\ worker[w].intent = i
  <1>1. row[i].state = "absent" /\ row'[i].state = "prepared" /\ row \in [Intents -> Rows]
    BY DEF Prepares, IInv, Shape
  <1>2. row' # row
    BY <1>1
  <1>3. PICK w \in Workers : WorkerStep(w)
    BY <1>2 DEF Next, TriggerKill, ResetKill, CollectPreflight, PersistPreflight, CollectVenue,
                ProjectLocal, PersistReconciliation, ExternalOrder, OrderLeaves, Tick
  <1>4. CASE PrepareAccepted(w)
    <2>1. worker[w].intent = i
      BY <1>1, <1>4 DEF PrepareAccepted
    <2> QED
      BY <1>4, <2>1
  <1>5. CASE PrepareBlocked(w)
    <2>1. [NoRow EXCEPT !.state = "blocked"].state = "blocked"
      BY DEF NoRow
    <2> QED
      BY <1>1, <1>5, <2>1 DEF PrepareBlocked
  <1>6. CASE ClaimDispatch(w)
    <2>1. \E j \in Intents : /\ row[j].state = "prepared" /\ \A k \in Intents \ {j} : row'[k] = row[k]
      <3>1. CASE worker[w].pc = "prepared" /\ TakeDispatch(w, worker[w].intent, worker[w].at)
        BY <1>1, <3>1 DEF TakeDispatch, CanClaim, IInv, References
      <3>2. CASE worker[w].pc = "idle" /\ \E j \in Intents : TakeDispatch(w, j, now)
        BY <1>1, <3>2 DEF TakeDispatch, CanClaim
      <3> QED
        BY <1>6, <3>1, <3>2 DEF ClaimDispatch
    <2> QED
      BY <1>1, <2>1
  <1>7. CASE SuppressDispatch(w) \/ MarkPendingRecovery(w) \/ ObserveNothing(w) \/ ObserveIncident(w)
    <2>1. \A j, s, b : /\ SettledRow(j, s).state = s
                       /\ [SettledRow(j, s) EXCEPT !.named = b].state = s
      BY DEF SettledRow, NoRow
    <2>2. PICK k, s, x : row' = [row EXCEPT ![k] = x] /\ x.state = s /\ s # "prepared"
      <3>1. CASE SuppressDispatch(w) \/ MarkPendingRecovery(w)
        BY <2>1, <3>1 DEF SuppressDispatch, MarkPendingRecovery, SettleClaim
      <3>2. CASE ObserveNothing(w)
        <4> DEFINE s == IF worker[w].seen = "absent" THEN "suppressed" ELSE "pending"
                   x == SettledRow(worker[w].intent, s)
        <4>1. row' = [row EXCEPT ![worker[w].intent] = x]
          BY <3>2 DEF ObserveNothing
        <4>2. x.state = s /\ s # "prepared"
          BY <2>1
        <4> HIDE DEF x, s
        <4> QED
          BY <4>1, <4>2
      <3>3. CASE ObserveIncident(w)
        <4> DEFINE b == worker[w].seen = "order"
                   x == [SettledRow(worker[w].intent, "incident") EXCEPT !.named = b]
        <4>1. row' = [row EXCEPT ![worker[w].intent] = x]
          BY <3>3 DEF ObserveIncident
        <4>2. x.state = "incident"
          BY <2>1
        <4> HIDE DEF x
        <4> QED
          BY <4>1, <4>2
      <3> QED
        BY <1>7, <3>1, <3>2, <3>3
    <2> QED
      BY <1>1, <2>2
  <1>8. CASE \E j \in Intents : ClaimRecovery(w, j)
    BY <1>1, <1>8 DEF ClaimRecovery
  <1>9. UNCHANGED row \/ ClaimDispatch(w) \/ SuppressDispatch(w) \/ MarkPendingRecovery(w)
        \/ ObserveNothing(w) \/ ObserveIncident(w) \/ (\E j \in Intents : ClaimRecovery(w, j))
        \/ PrepareBlocked(w) \/ PrepareAccepted(w)
    BY <1>3 DEF WorkerStep, DraftIntent, Prepare, PrepareRefused, PrepareReplayed, ClaimLost,
                ClaimStolen, QueryLists, QueryDetails, ObservationRefused, Crash, Refused
  <1> QED
    BY <1>2, <1>4, <1>5, <1>6, <1>7, <1>8, <1>9

\* The switch is armed again only by a reset.
LEMMA ArmedByReset ==
    ASSUME Next, kill.state = "stopped", kill'.state = "armed"
    PROVE  \E a \in DOMAIN auth : ResetKill(a)
  <1>1. kill' # kill
    OBVIOUS
  <1>2. \A w \in Workers : ~WorkerStep(w)
    BY <1>1 DEF WorkerStep, DraftIntent, Prepare, PrepareRefused, PrepareReplayed, PrepareBlocked,
                PrepareAccepted, ClaimDispatch, TakeDispatch, ClaimLost, ClaimStolen,
                SuppressDispatch, MarkPendingRecovery, SettleClaim, ClaimRecovery, QueryLists, QueryDetails,
                ObserveNothing, ObserveIncident, ObservationRefused, Crash, Refused
  <1>3. ~PersistReconciliation
    BY <1>1 DEF PersistReconciliation
  <1> QED
    BY <1>1, <1>2, <1>3 DEF Next, TriggerKill, CollectPreflight, PersistPreflight, CollectVenue,
                            ProjectLocal, ExternalOrder, OrderLeaves, Tick

LEMMA AuthorityStep ==
    ASSUME IInv, Next
    PROVE  /\ kill'.state = "armed" /\ kill.state = "stopped" => auth[kill'.reset].stop = stops
           /\ \A i \in Intents : Prepares(i) =>
                 kill.state = "armed" /\ auth[row'[i].auth].stop = stops
  <1>1. ASSUME kill'.state = "armed", kill.state = "stopped"
        PROVE  auth[kill'.reset].stop = stops
    <2>1. PICK a \in DOMAIN auth : ResetKill(a)
      BY <1>1, ArmedByReset
    <2>2. kill'.reset = a
      <3>1. kill \in Kills
        BY DEF IInv, Shape
      <3> QED
        BY <2>1, <3>1 DEF ResetKill, Kills
    <2>3. auth[a].version = kill.version
      BY <2>1 DEF ResetKill, ResetAllowed
    <2> QED
      BY <2>2, <2>3 DEF IInv, UpToDate
  <1>2. ASSUME NEW i \in Intents, Prepares(i)
        PROVE  kill.state = "armed" /\ auth[row'[i].auth].stop = stops
    <2>1. PICK w \in Workers : PrepareAccepted(w) /\ worker[w].intent = i
      BY <1>2, PreparesAccepts
    <2> DEFINE a == worker[w].auth
               x == PreparedRow(worker[w])
    <2>2. /\ a \in DOMAIN auth /\ a = CurrentAuthority /\ kill.state = "armed"
          /\ row'[i] = x /\ x.auth = a
      BY <2>1, Accepts
    <2> HIDE DEF x
    <2>3. CurrentAuthority # 0
      BY <2>1 DEF PrepareAccepted, Permitted
    <2>4. auth[a].stop = stops
      <3> HIDE DEF a
      <3> QED
        BY <2>2, <2>3, CurrentIsUpToDate
    <2> QED
      BY <2>2, <2>4
  <1> QED
    BY <1>1, <1>2

(* A stop of the kill switch ends every authority before it: whatever was read  *)
(* or collected meanwhile, the switch is reset and orders are prepared only      *)
(* under a report collected after the last stop.                                 *)
THEOREM AuthorityOutlivesNoStop == Spec => AuthorityAfterLastStop
  <1>1. IInv /\ [Next]_vars =>
           [/\ kill'.state = "armed" /\ kill.state = "stopped" => auth[kill'.reset].stop = stops
            /\ \A i \in Intents : Prepares(i) =>
                  kill.state = "armed" /\ auth[row'[i].auth].stop = stops]_vars
    BY AuthorityStep
  <1> QED
    BY <1>1, Invariance, PTL DEF Spec, AuthorityAfterLastStop

(* An order is prepared after an incident only under an authority collected     *)
(* after every incident there is, on a reconciliation stored after all of them,  *)
(* and that read no incident with the provider's order id: an evaluation begun   *)
(* before an incident, a report or an approval older than it never brings the    *)
(* run back.                                                                     *)
THEOREM WorkResumesAfterIncidents == Spec => ResumesAfterIncidents
  <1>1. ASSUME IInv, Next, NEW i \in Intents, Prepares(i)
        PROVE  /\ auth[row'[i].auth].found = Incidents
               /\ risk.found = Incidents
               /\ Named \cap risk.looked = {}
    <2>1. PICK w \in Workers : PrepareAccepted(w) /\ worker[w].intent = i
      BY <1>1, PreparesAccepts
    <2> DEFINE a == worker[w].auth
               x == PreparedRow(worker[w])
    <2>2. /\ a = CurrentAuthority /\ kill.state = "armed" /\ row'[i] = x /\ x.auth = a
          /\ risk.status = "reconciled"
      BY <1>1, <2>1, Accepts
    <2> HIDE DEF x
    <2>3. CurrentAuthority # 0
      BY <2>1 DEF PrepareAccepted, Permitted
    <2>4. auth[a].found = Incidents
      <3> HIDE DEF a
      <3> QED
        BY <1>1, <2>2, <2>3, CurrentIsUpToDate
    <2> QED
      BY <1>1, <2>2, <2>4 DEF IInv, Remembered
  <1>2. IInv /\ [Next]_vars =>
           [\A i \in Intents : Prepares(i) => /\ auth[row'[i].auth].found = Incidents
                                              /\ risk.found = Incidents
                                              /\ Named \cap risk.looked = {}]_vars
    BY <1>1
  <1> QED
    BY <1>2, Invariance, PTL DEF Spec, ResumesAfterIncidents

\* Only the observation of a worker's own query takes a row out of recovery.
LEMMA ConcludesStep ==
    ASSUME IInv, Next, NEW i \in Intents, row[i].state = "pending",
           row'[i].state \in {"suppressed", "incident"}
    PROVE  \E w \in Workers : /\ worker[w].pc = "queried" /\ worker[w].intent = i
                              /\ worker[w].at >= row[i].rAt /\ worker'[w] = Idle
  <1>1. row \in [Intents -> Rows] /\ row' # row /\ row'[i].state # row[i].state
    BY DEF IInv, Shape
  <1>2. PICK w \in Workers : WorkerStep(w)
    BY <1>1 DEF Next, TriggerKill, ResetKill, CollectPreflight, PersistPreflight, CollectVenue,
                ProjectLocal, PersistReconciliation, ExternalOrder, OrderLeaves, Tick
  <1>3. CASE ObserveNothing(w) \/ ObserveIncident(w)
    <2>1. worker[w].pc = "queried" /\ worker[w].intent \in Intents
      BY <1>3 DEF ObserveNothing, ObserveIncident, IInv, References
    <2>2. \E s, at : /\ row' = [row EXCEPT ![worker[w].intent] = s]
                     /\ HoldsRecovery(w, at)
      BY <1>3 DEF ObserveNothing, ObserveIncident
    <2>3. worker[w].intent = i /\ row[i].rOwner = w
      BY <1>1, <2>1, <2>2 DEF HoldsRecovery
    <2>4. worker'[w] = Idle
      BY <1>3 DEF ObserveNothing, ObserveIncident, IInv, Shape
    <2> QED
      BY <2>1, <2>3, <2>4 DEF IInv, Owned
  <1>4. CASE SuppressDispatch(w) \/ MarkPendingRecovery(w)
    <2>1. \E at : HoldsDispatch(w, at)
      BY <1>4 DEF SuppressDispatch, MarkPendingRecovery, SettleClaim
    <2>2. row[worker[w].intent].state = "prepared"
      BY <2>1, HoldsPrepared
    <2>3. \E s : row' = [row EXCEPT ![worker[w].intent] = s]
      BY <1>4 DEF SuppressDispatch, MarkPendingRecovery, SettleClaim
    <2> QED
      BY <1>1, <2>2, <2>3
  <1>5. CASE PrepareBlocked(w) \/ PrepareAccepted(w)
    BY <1>1, <1>5 DEF PrepareBlocked, PrepareAccepted
  <1>6. CASE ClaimDispatch(w) \/ \E j \in Intents : ClaimRecovery(w, j)
    <2>1. CASE worker[w].pc = "prepared" /\ TakeDispatch(w, worker[w].intent, worker[w].at)
      BY <1>1, <2>1 DEF TakeDispatch, CanClaim
    <2>2. CASE \E j \in Intents : TakeDispatch(w, j, now)
      BY <1>1, <2>2 DEF TakeDispatch, CanClaim
    <2>3. CASE \E j \in Intents : ClaimRecovery(w, j)
      BY <1>1, <2>3 DEF ClaimRecovery, Rows
    <2> QED
      BY <1>6, <2>1, <2>2, <2>3 DEF ClaimDispatch
  <1>7. UNCHANGED row \/ ClaimDispatch(w) \/ SuppressDispatch(w) \/ MarkPendingRecovery(w)
        \/ ObserveNothing(w) \/ ObserveIncident(w) \/ (\E j \in Intents : ClaimRecovery(w, j))
        \/ PrepareBlocked(w) \/ PrepareAccepted(w)
    BY <1>2 DEF WorkerStep, DraftIntent, Prepare, PrepareRefused, PrepareReplayed, ClaimLost,
                ClaimStolen, QueryLists, QueryDetails, ObservationRefused, Crash, Refused
  <1> QED
    BY <1>1, <1>3, <1>4, <1>5, <1>6, <1>7

(* A recovery of a pending order is concluded only by a worker that queried the *)
(* venue under the claim it holds: one that lost its lease and answers late      *)
(* changes nothing.                                                              *)
THEOREM RecoveryConcludesFromOwnQuery == Spec => ConcludesFromOwnQuery
  <1>1. IInv /\ [Next]_vars =>
           [\A i \in Intents : row[i].state = "pending" /\ row'[i].state \in {"suppressed", "incident"}
              => \E w \in Workers : /\ worker[w].pc = "queried" /\ worker[w].intent = i
                                    /\ worker[w].at >= row[i].rAt /\ worker'[w] = Idle]_vars
    BY ConcludesStep
  <1> QED
    BY <1>1, Invariance, PTL DEF Spec, ConcludesFromOwnQuery
=============================================================================
