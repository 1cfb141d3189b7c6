------------------------------ MODULE Bootstrap ------------------------------
(* The operator bootstrap of the guarded live database                         *)
(* (live/bootstrap.py, scripts/apply_postgres_migrations.py): an operator       *)
(* plans, confirms the hash of the plan, and initializes one local PostgreSQL   *)
(* database under a session-level advisory lock.  Creating the database, each   *)
(* migration and the configuration are transactions of their own; between any   *)
(* two of them the operator can fail, and a database administrator can drop the *)
(* database, create another of the same name or restore one from a dump.        *)
EXTENDS Naturals, FiniteSets

CONSTANTS Operators,     \* processes running the command line
          Nobody,        \* not an operator
          Accounts,      \* account fingerprints an operator may ask for
          Migrations,    \* how many immutable migrations there are (26)
          MaxOid,        \* bound: databases ever created under the name
          MaxMeddling,   \* bound: drops and writes by the administrator
          MaxTries       \* bound: attempts of one operator

ASSUME BootstrapAssumption ==
  /\ Nobody \notin Operators
  /\ IsFiniteSet(Accounts) /\ Accounts # {}
  /\ Migrations \in Nat \ {0}
  /\ {MaxOid, MaxMeddling, MaxTries} \subseteq Nat

VARIABLES
  db,        \* the database now behind the target name
  lastOid,   \* PostgreSQL never reuses an oid
  lock,      \* holder of the advisory lock "phase8b-operator-bootstrap:<name>"
  op,        \* [Operators -> the state of one run of the command]
  meddled    \* steps the administrator took

vars == <<db, lastOid, lock, op, meddled>>

Absent == [oid |-> 0, catalogued |-> FALSE, applied |-> 0, foreign |-> FALSE,
           rows |-> FALSE, confs |-> {}]

\* catalog_state of an inspection
CatalogState(d) ==
  IF d.oid = 0 THEN "absent"
  ELSE IF ~d.catalogued THEN "uncatalogued"
  ELSE IF d.applied = Migrations THEN "exact_0001_0026" ELSE "partial_catalog"

CatalogStates == {"absent", "uncatalogued", "exact_0001_0026", "partial_catalog"}

Exact(d) == CatalogState(d) = "exact_0001_0026"

\* Mutant of Blocked: objects outside the expected catalogue are not refused.
BlockedByCatalogOnly(d, a) ==
  d.oid # 0 /\ (~Exact(d) \/ d.rows \/ d.confs \notin {{}, {a}})

\* What an inspection for the configuration of account a refuses.
Blocked(d, a) ==
  /\ d.oid # 0
  /\ \/ ~Exact(d)
     \/ d.foreign
     \/ d.rows
     \/ d.confs \notin {{}, {a}}

\* plan(): everything the plan hash covers.
PlanOf(d, a) ==
  [oid |-> d.oid, state |-> CatalogState(d), applied |-> d.applied,
   foreign |-> d.foreign, rows |-> d.rows, configured |-> Cardinality(d.confs),
   account |-> a, blocked |-> Blocked(d, a)]

NoPlan == PlanOf(Absent, CHOOSE a \in Accounts : TRUE)

\* Mutant of PlanAccepted: only the blockers are looked at again.
PlanUnblocked(confirmed, current) == ~current.blocked

\* The comparison of the confirmed hash with the plan made again under the lock.
PlanAccepted(confirmed, current) == ~current.blocked /\ current = confirmed

Idle == [pc |-> "idle", stage |-> "not_started", ref |-> 0, oid |-> 0,
         plan |-> NoPlan, confirmed |-> NoPlan, account |-> NoPlan.account, tries |-> 0]

Stages == {"not_started", "confirmation_validated", "target_lock_acquired",
           "plan_revalidated", "database_ready", "migrations_ready",
           "schema_verified", "configuration_persisted", "verification_completed"}

Locked == {"locked", "lockedref", "replanned", "revalidated", "created",
           "ready", "migrating", "migrated", "schemaref", "inspected", "verified",
           "persisting", "persisted", "verifyref", "examined"}

Pcs == {"idle", "planning", "planned", "waiting", "failed", "done"} \cup Locked

\* An operator holding a connection to the target database: DROP DATABASE is
\* refused while there is one.
Connected(p) == op[p].pc \in {"migrating", "persisting"}

Init ==
  /\ db = Absent /\ lastOid = 0 /\ lock = Nobody /\ meddled = 0
  /\ op = [p \in Operators |-> Idle]

Set(p, fields) == op' = [op EXCEPT ![p] = fields]

\* Mutant of Unlocked: the lock outlives a run that failed.
UnlockedWhenDone(p) == IF lock = p /\ op[p].pc = "persisted" THEN Nobody ELSE lock

\* Leaving _locked_admin_connection closes the connection, and with it the lock.
Unlocked(p) == IF lock = p THEN Nobody ELSE lock

Fails(p) ==
  /\ op' = [op EXCEPT ![p].pc = "failed", ![p].ref = 0, ![p].plan = NoPlan,
                   ![p].confirmed = NoPlan]
  /\ lock' = Unlocked(p)
  /\ UNCHANGED <<db, lastOid, meddled>>

----------------------------------------------------------------------------
(* plan: the reference is read first, the database inspected after.            *)

\* plan() reads the database reference through the maintenance database.
PlanReference(p, a) ==
  /\ op[p].pc \in {"idle", "failed", "done"} /\ op[p].tries < MaxTries
  /\ Set(p, [Idle EXCEPT !.pc = "planning", !.ref = db.oid, !.account = a,
                         !.tries = op[p].tries + 1])
  /\ UNCHANGED <<db, lastOid, lock, meddled>>

\* The plan made from a reference: an absent database is not connected to.
PlanFrom(p) ==
  IF op[p].ref = 0 THEN PlanOf(Absent, op[p].account)
                   ELSE PlanOf(db, op[p].account)

\* The connection to the target has the identity of the reference.
SameDatabase(oid) == db.oid = oid

PlanInspect(p) ==
  /\ op[p].pc = "planning"
  /\ IF op[p].ref # 0 /\ ~SameDatabase(op[p].ref)
       THEN Fails(p)
       ELSE /\ Set(p, [op[p] EXCEPT !.pc = "planned", !.plan = PlanFrom(p)])
            /\ UNCHANGED <<db, lastOid, lock, meddled>>

----------------------------------------------------------------------------
(* initialize: every step of _initialize_confirmed.                            *)

\* The confirmation flag and the shape of the hash are checked before any connection.
Confirm(p) ==
  /\ op[p].pc = "planned"
  /\ Set(p, [op[p] EXCEPT !.pc = "waiting", !.confirmed = op[p].plan,
                         !.stage = "confirmation_validated"])
  /\ UNCHANGED <<db, lastOid, lock, meddled>>

AcquireLock(p) ==
  /\ op[p].pc = "waiting" /\ lock = Nobody
  /\ lock' = p
  /\ Set(p, [op[p] EXCEPT !.pc = "locked", !.stage = "target_lock_acquired"])
  /\ UNCHANGED <<db, lastOid, meddled>>

LockedReference(p) ==
  /\ op[p].pc = "locked"
  /\ Set(p, [op[p] EXCEPT !.pc = "lockedref", !.ref = db.oid])
  /\ UNCHANGED <<db, lastOid, lock, meddled>>

LockedInspect(p) ==
  /\ op[p].pc = "lockedref"
  /\ IF /\ op[p].ref = 0 \/ SameDatabase(op[p].ref)
        /\ PlanAccepted(op[p].confirmed, PlanFrom(p))
       THEN /\ Set(p, [op[p] EXCEPT !.pc = "replanned", !.plan = PlanFrom(p)])
            /\ UNCHANGED <<db, lastOid, lock, meddled>>
       ELSE Fails(p)

\* The reference is read a third time and compared with the plan's fields.
Revalidate(p) ==
  /\ op[p].pc = "replanned"
  /\ IF SameDatabase(op[p].plan.oid)
       THEN /\ Set(p, [op[p] EXCEPT !.pc = "revalidated", !.ref = 0,
                                    !.stage = "plan_revalidated"])
            /\ UNCHANGED <<db, lastOid, lock, meddled>>
       ELSE Fails(p)

Creating(p) == op[p].plan.oid = 0

\* _create_database refuses a name that exists by now.
CreateDatabase(p) ==
  /\ op[p].pc = "revalidated" /\ Creating(p)
  /\ IF db.oid # 0
       THEN Fails(p)
       ELSE /\ lastOid < MaxOid
            /\ db' = [Absent EXCEPT !.oid = lastOid + 1]
            /\ lastOid' = lastOid + 1
            /\ Set(p, [op[p] EXCEPT !.pc = "created"])
            /\ UNCHANGED <<lock, meddled>>

\* The reference every later step is compared with.  After a creation it only
\* has to exist.
ActiveReference(p) ==
  /\ \/ op[p].pc = "created"
     \/ op[p].pc = "revalidated" /\ ~Creating(p)
  /\ IF (Creating(p) /\ db.oid # 0) \/ (~Creating(p) /\ SameDatabase(op[p].plan.oid))
       THEN /\ Set(p, [op[p] EXCEPT !.pc = "ready", !.stage = "database_ready",
                                    !.oid = db.oid])
            /\ UNCHANGED <<db, lastOid, lock, meddled>>
       ELSE Fails(p)

\* _apply_all_migrations, first half: the identity of the connection, then
\* CREATE TABLE IF NOT EXISTS audit.schema_migrations, committed at once.
StartMigrations(p) ==
  /\ op[p].pc = "ready" /\ Creating(p)
  /\ IF SameDatabase(op[p].oid)
       THEN /\ db' = [db EXCEPT !.catalogued = TRUE]
            /\ Set(p, [op[p] EXCEPT !.pc = "migrating"])
            /\ UNCHANGED <<lastOid, lock, meddled>>
       ELSE Fails(p)

\* One migration and its catalogue row, in one transaction.
ApplyMigration(p) ==
  /\ op[p].pc = "migrating" /\ db.applied < Migrations
  /\ db' = [db EXCEPT !.applied = @ + 1]
  /\ UNCHANGED <<lastOid, lock, op, meddled>>

\* The loop over the migration files is through.
AllApplied(d) == d.applied = Migrations

\* A replay has nothing to migrate; the reference is compared all the same.
EndMigrations(p) ==
  /\ \/ op[p].pc = "migrating" /\ AllApplied(db)
     \/ op[p].pc = "ready" /\ ~Creating(p)
  /\ IF SameDatabase(op[p].oid)
       THEN /\ Set(p, [op[p] EXCEPT !.pc = "migrated", !.stage = "migrations_ready"])
            /\ UNCHANGED <<db, lastOid, lock, meddled>>
       ELSE Fails(p)

\* A reference read through the maintenance database must be the active one.
CompareReference(p, next) ==
  IF SameDatabase(op[p].oid)
    THEN /\ Set(p, [op[p] EXCEPT !.pc = next])
         /\ UNCHANGED <<db, lastOid, lock, meddled>>
    ELSE Fails(p)

\* Before the configuration is written: the reference, the inspection and the
\* schema contract, read in connections of their own.
SchemaReference(p) == op[p].pc = "migrated" /\ CompareReference(p, "schemaref")

SchemaInspect(p) ==
  /\ op[p].pc = "schemaref"
  /\ IF SameDatabase(op[p].oid) /\ Exact(db) /\ ~Blocked(db, op[p].account)
       THEN /\ Set(p, [op[p] EXCEPT !.pc = "inspected"])
            /\ UNCHANGED <<db, lastOid, lock, meddled>>
       ELSE Fails(p)

\* The contract looks for names only, which every complete catalogue has.
SchemaContract(p) ==
  /\ op[p].pc = "inspected"
  /\ IF SameDatabase(op[p].oid) /\ Exact(db)
       THEN /\ Set(p, [op[p] EXCEPT !.pc = "verified", !.stage = "schema_verified"])
            /\ UNCHANGED <<db, lastOid, lock, meddled>>
       ELSE Fails(p)

\* persist_guarded_live_configuration_snapshot inside its transaction: a
\* different configuration is a conflict, the same one a replay.  The stage is
\* set before the transaction commits.
Persist(p) ==
  /\ op[p].pc = "verified"
  /\ IF SameDatabase(op[p].oid) /\ db.confs \in {{}, {op[p].account}}
       THEN /\ Set(p, [op[p] EXCEPT !.pc = "persisting",
                                    !.stage = "configuration_persisted"])
            /\ UNCHANGED <<db, lastOid, lock, meddled>>
       ELSE Fails(p)

Commit(p) ==
  /\ op[p].pc = "persisting"
  /\ db' = [db EXCEPT !.confs = @ \cup {op[p].account}]
  /\ Set(p, [op[p] EXCEPT !.pc = "persisted"])
  /\ UNCHANGED <<lastOid, lock, meddled>>

\* verify(), after the commit: the reference, then the inspection, then the typed
\* reload of the configuration, again in connections of their own.
VerifyReference(p) == op[p].pc = "persisted" /\ CompareReference(p, "verifyref")

VerifyInspect(p) ==
  /\ op[p].pc = "verifyref"
  /\ IF SameDatabase(op[p].oid) /\ ~Blocked(db, op[p].account) /\ db.confs # {}
       THEN /\ Set(p, [op[p] EXCEPT !.pc = "examined"])
            /\ UNCHANGED <<db, lastOid, lock, meddled>>
       ELSE Fails(p)

\* Mutant of Reloaded: the connection of the reload is not identified.
ReloadedByName(p) == Exact(db) /\ op[p].account \in db.confs

\* The schema contract and the typed reload.
Reloaded(p) == SameDatabase(op[p].oid) /\ Exact(db) /\ op[p].account \in db.confs

VerifyReload(p) ==
  /\ op[p].pc = "examined"
  /\ IF Reloaded(p)
       THEN /\ Set(p, [op[p] EXCEPT !.pc = "done", !.plan = NoPlan,
                                    !.confirmed = NoPlan,
                                    !.stage = "verification_completed"])
            /\ lock' = Unlocked(p)
            /\ UNCHANGED <<db, lastOid, meddled>>
       ELSE Fails(p)

\* The process dies or a statement fails: an open transaction is rolled back,
\* whatever committed stays, and the session's lock is gone.
Interrupted(p) ==
  /\ op[p].pc \in Locked \cup {"waiting"}
  /\ Fails(p)

----------------------------------------------------------------------------
(* The database administrator and the applications of the database.            *)

Drop ==
  /\ db.oid # 0 /\ meddled < MaxMeddling /\ \A p \in Operators : ~Connected(p)
  /\ db' = Absent /\ meddled' = meddled + 1
  /\ UNCHANGED <<lastOid, lock, op>>

\* A database of the same name: empty, with objects of its own, or restored from
\* the dump of one that was configured for account a.
OtherDatabases ==
  {[Absent EXCEPT !.foreign = f] : f \in BOOLEAN}
    \cup {[Absent EXCEPT !.catalogued = TRUE, !.applied = Migrations, !.confs = {a}] :
             a \in Accounts}

CreateOther(d) ==
  /\ db.oid = 0 /\ lastOid < MaxOid /\ meddled < MaxMeddling
  /\ db' = [d EXCEPT !.oid = lastOid + 1]
  /\ lastOid' = lastOid + 1 /\ meddled' = meddled + 1
  /\ UNCHANGED <<lock, op>>

\* The guarded live tools start to use a configured database.
ApplicationRows ==
  /\ Exact(db) /\ db.confs # {} /\ ~db.rows /\ meddled < MaxMeddling
  /\ db' = [db EXCEPT !.rows = TRUE] /\ meddled' = meddled + 1
  /\ UNCHANGED <<lastOid, lock, op>>

Administrator == Drop \/ ApplicationRows \/ \E d \in OtherDatabases : CreateOther(d)

Step(p) ==
  \/ PlanInspect(p) \/ LockedReference(p) \/ LockedInspect(p)
  \/ Revalidate(p) \/ CreateDatabase(p) \/ ActiveReference(p) \/ StartMigrations(p)
  \/ ApplyMigration(p) \/ EndMigrations(p)
  \/ SchemaReference(p) \/ SchemaInspect(p) \/ SchemaContract(p)
  \/ Persist(p) \/ Commit(p)
  \/ VerifyReference(p) \/ VerifyInspect(p) \/ VerifyReload(p)

Next ==
  \/ \E p \in Operators : \/ \E a \in Accounts : PlanReference(p, a)
                          \/ Confirm(p) \/ AcquireLock(p) \/ Step(p) \/ Interrupted(p)
  \/ Administrator

Spec == Init /\ [][Next]_vars

\* A process that runs goes on running, and PostgreSQL grants a waited-for
\* advisory lock in turn.
Fairness ==
  \A p \in Operators : WF_vars(Step(p)) /\ SF_vars(AcquireLock(p))

FairSpec == Spec /\ Fairness

----------------------------------------------------------------------------
Databases == [oid : 0..MaxOid, catalogued : BOOLEAN, applied : 0..Migrations,
              foreign : BOOLEAN, rows : BOOLEAN, confs : SUBSET Accounts]

Plans == [oid : 0..MaxOid, state : CatalogStates, applied : 0..Migrations, foreign : BOOLEAN,
          rows : BOOLEAN, configured : Nat, account : Accounts, blocked : BOOLEAN]

Runs == [pc : Pcs, stage : Stages, ref : 0..MaxOid, oid : 0..MaxOid, plan : Plans,
         confirmed : Plans, account : Accounts, tries : 0..MaxTries]

\* The state of the database, the lock and every run has its shape, and the lock
\* is held by the one run that is past it.
TypeOK ==
  /\ db \in Databases
  /\ lastOid \in 0..MaxOid /\ meddled \in 0..MaxMeddling
  /\ lock \in Operators \cup {Nobody}
  /\ op \in [Operators -> Runs]
  /\ \A p \in Operators : op[p].pc \in Locked <=> lock = p

\* Whatever the administrator does between the steps, the configuration is only
\* ever in a database with exactly the expected catalogue and none of anybody
\* else's objects, also when the database found after the creation is not the one
\* that was created (_require_same_reference, allow_creation).
ConfiguredOnlyClean ==
  db.confs # {} => Exact(db) /\ ~db.foreign /\ Cardinality(db.confs) = 1

\* The first change an operator makes finds the database as the plan the operator
\* confirmed: another run's initialization between plan and lock is never built
\* upon (the plan_hash comparison under the lock).
FirstChangeAsPlanned ==
  [][\A p \in Operators :
       /\ CreateDatabase(p) /\ db' # db => op[p].confirmed.oid = 0
       /\ StartMigrations(p) /\ db' # db => op[p].confirmed.oid = 0
       /\ Persist(p) /\ op'[p].pc = "persisting" /\ ~Creating(p)
            => /\ db.oid = op[p].confirmed.oid
               /\ Cardinality(db.confs) = op[p].confirmed.configured]_vars

\* A run reports readiness only if the database it worked on is still the one
\* behind the name when the last of its separate reads is made, with the complete
\* catalogue, no objects of anybody else and its own account's configuration alone,
\* of which the inspection told, and not the last read.
ReadyForItsOwn ==
  [][\A p \in Operators :
       op[p].pc # "done" /\ op'[p].pc = "done" =>
         /\ db.oid = op[p].oid /\ Exact(db) /\ ~db.foreign
         /\ db.confs = {op[p].account}]_vars

\* The stage a run reports, failed or not, never claims more than is in the
\* database it worked on: migrations_ready and later a complete catalogue,
\* verification_completed the configuration too.  (configuration_persisted itself
\* is set before the commit, and says no more than schema_verified.)
StageTruthful ==
  \A p \in Operators :
    op[p].oid = db.oid =>
      /\ op[p].stage \in {"migrations_ready", "schema_verified",
                          "configuration_persisted", "verification_completed"}
           => Exact(db)
      /\ op[p].stage = "verification_completed" => db.confs = {op[p].account}

\* The database, the lock and what the runs say of them agree.
BootstrapSound == TypeOK /\ ConfiguredOnlyClean /\ StageTruthful

\* A run that waits for the lock or holds it comes to an end, so an interrupted
\* run never shuts the next operator out.
EveryRunEnds ==
  \A p \in Operators :
    op[p].pc \in Locked \cup {"waiting"} ~> op[p].pc \in {"failed", "done"}
=============================================================================
