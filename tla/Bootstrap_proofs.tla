--------------------------- MODULE Bootstrap_proofs ---------------------------
(***************************************************************************)
(* What the bootstrap promises for any number of operators, accounts,      *)
(* migrations and drops: BootstrapSound, FirstChangeAsPlanned and          *)
(* ReadyForItsOwn.                                                         *)
(*                                                                         *)
(* The database changes under a run from two sides: by the one run that    *)
(* holds the lock, and by the administrator.  RunOK(d, n, r) collects what *)
(* a run r may rely upon in a database d when n is the last oid used; one  *)
(* lemma for each way the database changes shows that it survives.         *)
(***************************************************************************)
EXTENDS Bootstrap, FiniteSetTheorems, TLAPS

LateStages == {"migrations_ready", "schema_verified", "configuration_persisted",
               "verification_completed"}

\* Where a run works with a plan it made under the lock.
Planned == {"replanned", "revalidated", "created", "ready", "migrating", "migrated",
            "schemaref", "inspected", "verified", "persisting", "persisted", "verifyref",
            "examined"}

\* Where a run has its active reference.
Referenced == {"ready", "migrating", "migrated", "schemaref", "inspected", "verified",
               "persisting", "persisted", "verifyref", "examined"}

RunOK(d, n, r) ==
    /\ r.oid <= n /\ r.plan.oid <= n
    /\ r.pc \in Referenced \/ r.stage \in LateStages => r.oid # 0
    /\ r.pc \in Planned => r.plan = r.confirmed
    /\ r.pc \in Referenced /\ r.plan.oid # 0 => r.oid = r.plan.oid
    /\ r.pc \in Planned \ {"persisted", "verifyref", "examined"} /\ r.plan.oid # 0 /\ r.plan.oid = d.oid
          => Exact(d) /\ Cardinality(d.confs) = r.plan.configured
    /\ r.pc \in {"migrating", "persisting"} => r.oid = d.oid
    /\ r.pc = "migrating" => d.catalogued
    /\ r.pc \in {"inspected", "verified", "persisting"} /\ r.oid = d.oid
          => Exact(d) /\ ~d.foreign /\ d.confs \subseteq {r.account}
    /\ r.pc = "examined" /\ r.oid = d.oid => ~d.foreign /\ d.confs = {r.account}
    /\ r.oid = d.oid /\ r.stage \in LateStages => Exact(d)
    /\ r.oid = d.oid /\ r.stage = "verification_completed" => d.confs = {r.account}

DatabaseOK(d, n) ==
    /\ d.oid <= n
    /\ d.oid = 0 => d = Absent
    /\ d.confs # {} => Exact(d) /\ ~d.foreign /\ Cardinality(d.confs) = 1

\* The inductive invariant: BootstrapSound alone does not say why a run past its
\* verification still finds what it verified.
IInv ==
    /\ TypeOK
    /\ DatabaseOK(db, lastOid)
    /\ \A p \in Operators : RunOK(db, lastOid, op[p])

USE BootstrapAssumption

-----------------------------------------------------------------------------
(* Types.                                                                  *)

LEMMA OidsAreNumbers == 0 .. MaxOid \subseteq Nat /\ 0 \in 0 .. MaxOid
  OBVIOUS

LEMMA AbsentType == Absent \in Databases
  BY DEF Absent, Databases

LEMMA PlanType ==
    ASSUME NEW d \in Databases, NEW a \in Accounts
    PROVE  PlanOf(d, a) \in Plans
  <1>1. CatalogState(d) \in CatalogStates
    BY DEF CatalogState, CatalogStates, Databases
  <1>2. Blocked(d, a) \in BOOLEAN
    BY DEF Blocked, Databases
  <1>3. IsFiniteSet(d.confs)
    BY FS_Subset DEF Databases
  <1>4. Cardinality(d.confs) \in Nat
    BY <1>3, FS_CardinalityType
  <1> QED
    BY <1>1, <1>2, <1>4 DEF PlanOf, Plans, Databases

LEMMA NoPlanType == NoPlan \in Plans /\ NoPlan.oid = 0 /\ NoPlan.account \in Accounts
  <1>1. (CHOOSE a \in Accounts : TRUE) \in Accounts
    OBVIOUS
  <1>2. NoPlan \in Plans
    BY <1>1, AbsentType, PlanType DEF NoPlan
  <1> QED
    BY <1>1, <1>2 DEF NoPlan, PlanOf, Absent

LEMMA IdleType == Idle \in Runs
  BY NoPlanType DEF Idle, Runs, Pcs, Locked, Stages

\* An absent database is not exact.
LEMMA ExactExists ==
    ASSUME NEW d \in Databases
    PROVE  Exact(d) <=> d.oid # 0 /\ d.catalogued /\ d.applied = Migrations
  BY DEF Exact, CatalogState, Databases

-----------------------------------------------------------------------------
(* How a run's claims survive a change of the database.                    *)

LEMMA AfterDrop ==
    ASSUME NEW d \in Databases, NEW n \in Nat, NEW r \in Runs, RunOK(d, n, r),
           r.pc \notin {"migrating", "persisting"}
    PROVE  RunOK(Absent, n, r)
  <1>1. Absent.oid = 0 /\ Absent.confs = {}
    BY DEF Absent
  <1> QED
    BY <1>1, AbsentType, ExactExists DEF RunOK, Referenced, Planned, LateStages, Runs, Plans

LEMMA AfterCreation ==
    ASSUME NEW d \in Databases, NEW n \in Nat, NEW r \in Runs, RunOK(d, n, r), d.oid = 0,
           NEW e \in Databases, e.oid = n + 1
    PROVE  RunOK(e, n + 1, r)
  <1>1. r.oid \in Nat /\ r.plan.oid \in Nat
    BY DEF Runs, Plans
  <1>2. r.pc \notin {"migrating", "persisting"}
    BY DEF RunOK, Referenced
  <1> QED
    BY <1>1, <1>2 DEF RunOK, Referenced, Planned, LateStages

\* A change that keeps oid, catalogue, objects and configurations.
LEMMA AfterRows ==
    ASSUME NEW d \in Databases, NEW n \in Nat, NEW r \in Runs, RunOK(d, n, r),
           NEW e \in Databases, e.oid = d.oid, e.catalogued = d.catalogued,
           e.applied = d.applied, e.foreign = d.foreign, e.confs = d.confs
    PROVE  RunOK(e, n, r)
  <1>1. Exact(e) <=> Exact(d)
    BY ExactExists
  <1> QED
    BY <1>1 DEF RunOK

\* A step of a migration: the run that is not past the lock keeps its claims.
LEMMA AfterMigration ==
    ASSUME NEW d \in Databases, NEW n \in Nat, NEW r \in Runs, RunOK(d, n, r),
           r.pc \notin Locked,
           NEW e \in Databases, e.oid = d.oid, Exact(d) => Exact(e), e.confs = d.confs
    PROVE  RunOK(e, n, r)
  BY DEF RunOK, Locked, Planned, Referenced

\* The configuration of an account, written to a database nobody else uses.
LEMMA AfterCommit ==
    ASSUME NEW d \in Databases, NEW n \in Nat, NEW r \in Runs, RunOK(d, n, r),
           r.pc \notin Locked,
           NEW a \in Accounts, d.confs \subseteq {a},
           NEW e \in Databases, e.oid = d.oid, Exact(e), e.confs = {a}
    PROVE  RunOK(e, n, r)
  BY DEF RunOK, Locked, Planned, Referenced

-----------------------------------------------------------------------------
(* Steps that change one run and the lock, and not the database.           *)

LEMMA RunStep ==
    ASSUME IInv, NEW p \in Operators, NEW r \in Runs, RunOK(db, lastOid, r),
           op' = [op EXCEPT ![p] = r], UNCHANGED <<db, lastOid, meddled>>,
           lock' \in Operators \cup {Nobody},
           r.pc \in Locked <=> lock' = p,
           \A q \in Operators \ {p} : lock' = q <=> lock = q
    PROVE  IInv'
  <1>1. op' \in [Operators -> Runs]
    BY DEF IInv, TypeOK
  <1>2. \A q \in Operators : op'[q] = IF q = p THEN r ELSE op[q]
    BY DEF IInv, TypeOK
  <1>3. TypeOK'
    BY <1>1, <1>2 DEF IInv, TypeOK
  <1>4. \A q \in Operators : RunOK(db', lastOid', op'[q])
    BY <1>2 DEF IInv
  <1> QED
    BY <1>3, <1>4 DEF IInv

LEMMA FailStep ==
    ASSUME IInv, NEW p \in Operators, Fails(p)
    PROVE  IInv'
  <1> DEFINE r == [op[p] EXCEPT !.pc = "failed", !.ref = 0, !.plan = NoPlan,
                                !.confirmed = NoPlan]
  <1>1. op[p] \in Runs
    BY DEF IInv, TypeOK
  <1>2. r \in Runs
    BY <1>1, NoPlanType, OidsAreNumbers DEF Runs, Pcs
  <1>3. RunOK(db, lastOid, r)
    <2>1. RunOK(db, lastOid, op[p]) /\ lastOid \in Nat
      BY DEF IInv, TypeOK
    <2> QED
      BY <1>1, <2>1, NoPlanType DEF RunOK, Runs, Planned, Referenced
  <1>4. r.pc \notin Locked
    BY <1>1 DEF Runs, Locked
  <1>5. /\ op' = [op EXCEPT ![p] = r] /\ UNCHANGED <<db, lastOid, meddled>>
        /\ lock' \in Operators \cup {Nobody} /\ lock' # p
        /\ \A q \in Operators \ {p} : lock' = q <=> lock = q
    BY DEF Fails, Unlocked, IInv, TypeOK
  <1> HIDE DEF r
  <1> QED
    BY <1>2, <1>3, <1>4, <1>5, RunStep

-----------------------------------------------------------------------------
(* The plan.                                                               *)

LEMMA PlanReferenceStep ==
    ASSUME IInv, NEW p \in Operators, NEW a \in Accounts, PlanReference(p, a)
    PROVE  IInv'
  <1> DEFINE r == [Idle EXCEPT !.pc = "planning", !.ref = db.oid, !.account = a,
                               !.tries = op[p].tries + 1]
  <1>1. op[p] \in Runs /\ op[p].tries + 1 \in 0 .. MaxTries /\ db.oid \in 0 .. MaxOid
    BY DEF IInv, TypeOK, Runs, PlanReference, Databases
  <1>2. r \in Runs
    BY <1>1, IdleType DEF Runs, Pcs
  <1>3. RunOK(db, lastOid, r)
    <2>1. r.pc = "planning" /\ r.stage = "not_started" /\ r.oid = 0 /\ r.plan.oid = 0
      BY IdleType, NoPlanType DEF Idle, Runs
    <2>2. lastOid \in Nat
      BY DEF IInv, TypeOK
    <2> QED
      BY <2>1, <2>2 DEF RunOK, Planned, Referenced, LateStages
  <1>4. r.pc \notin Locked /\ lock # p
    BY <1>2, IdleType DEF Runs, Locked, PlanReference, IInv, TypeOK
  <1>5. op' = [op EXCEPT ![p] = r] /\ UNCHANGED <<db, lastOid, lock, meddled>>
    BY DEF PlanReference, Set
  <1>6. lock \in Operators \cup {Nobody}
    BY DEF IInv, TypeOK
  <1> HIDE DEF r
  <1> QED
    BY <1>2, <1>3, <1>4, <1>5, <1>6, RunStep

\* The plan of a reference: of nothing, or of the database it names.
LEMMA PlanFromFacts ==
    ASSUME IInv, NEW p \in Operators, op[p].ref = 0 \/ SameDatabase(op[p].ref)
    PROVE  /\ PlanFrom(p) \in Plans
           /\ PlanFrom(p).oid <= lastOid
           /\ PlanFrom(p).oid # 0 => /\ PlanFrom(p).oid = db.oid
                                     /\ PlanFrom(p).blocked = Blocked(db, op[p].account)
                                     /\ PlanFrom(p).configured = Cardinality(db.confs)
  <1>1. op[p].account \in Accounts /\ db \in Databases /\ lastOid \in Nat /\ db.oid <= lastOid
    BY DEF IInv, TypeOK, Runs, DatabaseOK
  <1>2. PlanOf(Absent, op[p].account).oid = 0
    BY DEF PlanOf, Absent
  <1>3. CASE op[p].ref = 0
    BY <1>1, <1>2, <1>3, PlanType, AbsentType DEF PlanFrom
  <1>4. CASE op[p].ref # 0
    <2>1. PlanFrom(p) = PlanOf(db, op[p].account)
      BY <1>4 DEF PlanFrom
    <2> QED
      BY <1>1, <2>1, PlanType DEF PlanOf
  <1> QED
    BY <1>3, <1>4

LEMMA PlanInspectStep ==
    ASSUME IInv, NEW p \in Operators, PlanInspect(p)
    PROVE  IInv'
  <1>1. CASE Fails(p)
    BY <1>1, FailStep
  <1>2. CASE ~Fails(p)
    <2> DEFINE r == [op[p] EXCEPT !.pc = "planned", !.plan = PlanFrom(p)]
    <2>1. /\ op[p].pc = "planning" /\ (op[p].ref = 0 \/ SameDatabase(op[p].ref))
          /\ op' = [op EXCEPT ![p] = r] /\ UNCHANGED <<db, lastOid, lock, meddled>>
      BY <1>2 DEF PlanInspect, Set
    <2>2. op[p] \in Runs /\ RunOK(db, lastOid, op[p]) /\ lock \in Operators \cup {Nobody}
      BY DEF IInv, TypeOK
    <2>3. PlanFrom(p) \in Plans /\ PlanFrom(p).oid <= lastOid
      BY <2>1, PlanFromFacts
    <2>4. r \in Runs
      BY <2>2, <2>3 DEF Runs, Pcs
    <2>5. RunOK(db, lastOid, r)
      BY <2>2, <2>3 DEF RunOK, Runs, Planned, Referenced
    <2>6. r.pc \notin Locked /\ lock # p
      BY <2>1, <2>2 DEF Runs, Locked, IInv, TypeOK
    <2> HIDE DEF r
    <2> QED
      BY <2>1, <2>2, <2>4, <2>5, <2>6, RunStep
  <1> QED
    BY <1>1, <1>2

-----------------------------------------------------------------------------
(* Under the lock, without a change of the database.                       *)

\* What every step starts from.
LEMMA Here ==
    ASSUME IInv, NEW p \in Operators
    PROVE  /\ op[p] \in Runs /\ RunOK(db, lastOid, op[p]) /\ db \in Databases
           /\ lock \in Operators \cup {Nobody} /\ (op[p].pc \in Locked <=> lock = p)
           /\ db.oid \in 0 .. MaxOid /\ db.oid <= lastOid /\ lastOid \in Nat
  BY DEF IInv, TypeOK, Databases, DatabaseOK

LEMMA ConfirmStep ==
    ASSUME IInv, NEW p \in Operators, Confirm(p)
    PROVE  IInv'
  <1>1. CASE Fails(p)
    BY <1>1, FailStep
  <1>2. CASE ~Fails(p)
    <2> DEFINE r == [op[p] EXCEPT !.pc = "waiting", !.confirmed = op[p].plan,
                            !.stage = "confirmation_validated"]
    <2>1. /\ op' = [op EXCEPT ![p] = r] /\ UNCHANGED <<db, lastOid, lock, meddled>>
          /\ op[p].pc = "planned"
      BY <1>2 DEF Confirm, Set
    <2>2. op[p] \in Runs /\ RunOK(db, lastOid, op[p])
      BY Here
    <2>3. r \in Runs
      BY <2>1, <2>2, Here DEF Runs, Pcs, Locked, Stages
    <2>4. RunOK(db, lastOid, r)
      BY <2>1, <2>2, Here DEF RunOK, Runs, Plans, Planned, Referenced, LateStages
    <2>5. r.pc \in Locked <=> lock = p
      BY <2>1, <2>2, Here DEF Runs, Locked
    <2> HIDE DEF r
    <2> QED
      BY <2>1, <2>3, <2>4, <2>5, Here, RunStep
  <1> QED
    BY <1>1, <1>2

LEMMA LockedReferenceStep ==
    ASSUME IInv, NEW p \in Operators, LockedReference(p)
    PROVE  IInv'
  <1>1. CASE Fails(p)
    BY <1>1, FailStep
  <1>2. CASE ~Fails(p)
    <2> DEFINE r == [op[p] EXCEPT !.pc = "lockedref", !.ref = db.oid]
    <2>1. /\ op' = [op EXCEPT ![p] = r] /\ UNCHANGED <<db, lastOid, lock, meddled>>
          /\ op[p].pc = "locked"
      BY <1>2 DEF LockedReference, Set
    <2>2. op[p] \in Runs /\ RunOK(db, lastOid, op[p])
      BY Here
    <2>3. r \in Runs
      BY <2>1, <2>2, Here DEF Runs, Pcs, Locked, Stages
    <2>4. RunOK(db, lastOid, r)
      BY <2>1, <2>2, Here DEF RunOK, Runs, Plans, Planned, Referenced, LateStages
    <2>5. r.pc \in Locked <=> lock = p
      BY <2>1, <2>2, Here DEF Runs, Locked
    <2> HIDE DEF r
    <2> QED
      BY <2>1, <2>3, <2>4, <2>5, Here, RunStep
  <1> QED
    BY <1>1, <1>2

LEMMA RevalidateStep ==
    ASSUME IInv, NEW p \in Operators, Revalidate(p)
    PROVE  IInv'
  <1>1. CASE Fails(p)
    BY <1>1, FailStep
  <1>2. CASE ~Fails(p)
    <2> DEFINE r == [op[p] EXCEPT !.pc = "revalidated", !.ref = 0,
                            !.stage = "plan_revalidated"]
    <2>1. /\ op' = [op EXCEPT ![p] = r] /\ UNCHANGED <<db, lastOid, lock, meddled>>
          /\ op[p].pc = "replanned" /\ SameDatabase(op[p].plan.oid)
      BY <1>2 DEF Revalidate, Set
    <2>2. op[p] \in Runs /\ RunOK(db, lastOid, op[p])
      BY Here
    <2>3. r \in Runs
      BY <2>1, <2>2, Here, OidsAreNumbers DEF Runs, Pcs, Locked, Stages
    <2>4. RunOK(db, lastOid, r)
      BY <2>1, <2>2, Here DEF RunOK, Runs, Plans, Planned, Referenced, LateStages
    <2>5. r.pc \in Locked <=> lock = p
      BY <2>1, <2>2, Here DEF Runs, Locked
    <2> HIDE DEF r
    <2> QED
      BY <2>1, <2>3, <2>4, <2>5, Here, RunStep
  <1> QED
    BY <1>1, <1>2

LEMMA ActiveReferenceStep ==
    ASSUME IInv, NEW p \in Operators, ActiveReference(p)
    PROVE  IInv'
  <1>1. CASE Fails(p)
    BY <1>1, FailStep
  <1>2. CASE ~Fails(p)
    <2> DEFINE r == [op[p] EXCEPT !.pc = "ready", !.stage = "database_ready", !.oid = db.oid]
    <2>1. /\ op' = [op EXCEPT ![p] = r] /\ UNCHANGED <<db, lastOid, lock, meddled>>
          /\ op[p].pc \in {"created", "revalidated"}
          /\ \/ op[p].plan.oid = 0 /\ db.oid # 0
             \/ op[p].plan.oid # 0 /\ db.oid = op[p].plan.oid
      BY <1>2 DEF ActiveReference, Set, Creating, SameDatabase
    <2>2. op[p] \in Runs /\ RunOK(db, lastOid, op[p])
      BY Here
    <2>3. r \in Runs
      BY <2>1, <2>2, Here DEF Runs, Pcs, Locked, Stages
    <2>4. RunOK(db, lastOid, r)
      BY <2>1, <2>2, Here DEF RunOK, Runs, Plans, Planned, Referenced, LateStages
    <2>5. r.pc \in Locked <=> lock = p
      BY <2>1, <2>2, Here DEF Runs, Locked
    <2> HIDE DEF r
    <2> QED
      BY <2>1, <2>3, <2>4, <2>5, Here, RunStep
  <1> QED
    BY <1>1, <1>2

LEMMA EndMigrationsStep ==
    ASSUME IInv, NEW p \in Operators, EndMigrations(p)
    PROVE  IInv'
  <1>1. CASE Fails(p)
    BY <1>1, FailStep
  <1>2. CASE ~Fails(p)
    <2> DEFINE r == [op[p] EXCEPT !.pc = "migrated", !.stage = "migrations_ready"]
    <2>1. /\ op' = [op EXCEPT ![p] = r] /\ UNCHANGED <<db, lastOid, lock, meddled>>
          /\ db.oid = op[p].oid
          /\ \/ op[p].pc = "migrating" /\ db.applied = Migrations
             \/ op[p].pc = "ready" /\ op[p].plan.oid # 0
      BY <1>2 DEF EndMigrations, Set, Creating, SameDatabase, AllApplied
    <2>2. op[p] \in Runs /\ RunOK(db, lastOid, op[p])
      BY Here
    <2>3. r \in Runs
      BY <2>1, <2>2, Here DEF Runs, Pcs, Locked, Stages
    <2>4. RunOK(db, lastOid, r)
      <3>1. Exact(db)
        BY <2>1, <2>2, Here, ExactExists DEF RunOK, Runs, Plans, Planned, Referenced
      <3> QED
        BY <2>1, <2>2, <3>1, Here DEF RunOK, Runs, Plans, Planned, Referenced, LateStages
    <2>5. r.pc \in Locked <=> lock = p
      BY <2>1, <2>2, Here DEF Runs, Locked
    <2> HIDE DEF r
    <2> QED
      BY <2>1, <2>3, <2>4, <2>5, Here, RunStep
  <1> QED
    BY <1>1, <1>2

\* A reference that is compared and not kept.
LEMMA CompareReferenceStep ==
    ASSUME IInv, NEW p \in Operators, NEW n,
           \/ op[p].pc = "migrated" /\ n = "schemaref"
           \/ op[p].pc = "persisted" /\ n = "verifyref",
           CompareReference(p, n)
    PROVE  IInv'
  <1>1. CASE Fails(p)
    BY <1>1, FailStep
  <1>2. CASE ~Fails(p)
    <2> DEFINE r == [op[p] EXCEPT !.pc = n]
    <2>1. op' = [op EXCEPT ![p] = r] /\ UNCHANGED <<db, lastOid, lock, meddled>>
      BY <1>2 DEF CompareReference, Set
    <2>2. op[p] \in Runs /\ RunOK(db, lastOid, op[p])
      BY Here
    <2>3. r \in Runs
      BY <2>1, <2>2, Here DEF Runs, Pcs, Locked, Stages
    <2>4. RunOK(db, lastOid, r)
      BY <2>1, <2>2, Here DEF RunOK, Runs, Plans, Planned, Referenced, LateStages
    <2>5. r.pc \in Locked <=> lock = p
      BY <2>1, <2>2, Here DEF Runs, Locked
    <2> HIDE DEF r
    <2> QED
      BY <2>1, <2>3, <2>4, <2>5, Here, RunStep
  <1> QED
    BY <1>1, <1>2

LEMMA SchemaReferenceStep ==
    ASSUME IInv, NEW p \in Operators, SchemaReference(p)
    PROVE  IInv'
  BY CompareReferenceStep DEF SchemaReference

LEMMA VerifyReferenceStep ==
    ASSUME IInv, NEW p \in Operators, VerifyReference(p)
    PROVE  IInv'
  BY CompareReferenceStep DEF VerifyReference

LEMMA SchemaInspectStep ==
    ASSUME IInv, NEW p \in Operators, SchemaInspect(p)
    PROVE  IInv'
  <1>1. CASE Fails(p)
    BY <1>1, FailStep
  <1>2. CASE ~Fails(p)
    <2> DEFINE r == [op[p] EXCEPT !.pc = "inspected"]
    <2>1. /\ op' = [op EXCEPT ![p] = r] /\ UNCHANGED <<db, lastOid, lock, meddled>>
          /\ op[p].pc = "schemaref" /\ db.oid = op[p].oid
          /\ Exact(db) /\ ~Blocked(db, op[p].account)
      BY <1>2 DEF SchemaInspect, Set, SameDatabase
    <2>2. op[p] \in Runs /\ RunOK(db, lastOid, op[p])
      BY Here
    <2>3. r \in Runs
      BY <2>1, <2>2, Here DEF Runs, Pcs, Locked, Stages
    <2>4. RunOK(db, lastOid, r)
      <3>1. ~db.foreign /\ db.confs \subseteq {op[p].account}
        BY <2>1, <2>2, Here, ExactExists DEF Blocked
      <3> QED
        BY <2>1, <2>2, <3>1, Here DEF RunOK, Runs, Plans, Planned, Referenced, LateStages
    <2>5. r.pc \in Locked <=> lock = p
      BY <2>1, <2>2, Here DEF Runs, Locked
    <2> HIDE DEF r
    <2> QED
      BY <2>1, <2>3, <2>4, <2>5, Here, RunStep
  <1> QED
    BY <1>1, <1>2

LEMMA SchemaContractStep ==
    ASSUME IInv, NEW p \in Operators, SchemaContract(p)
    PROVE  IInv'
  <1>1. CASE Fails(p)
    BY <1>1, FailStep
  <1>2. CASE ~Fails(p)
    <2> DEFINE r == [op[p] EXCEPT !.pc = "verified", !.stage = "schema_verified"]
    <2>1. /\ op' = [op EXCEPT ![p] = r] /\ UNCHANGED <<db, lastOid, lock, meddled>>
          /\ op[p].pc = "inspected" /\ db.oid = op[p].oid /\ Exact(db)
      BY <1>2 DEF SchemaContract, Set, SameDatabase
    <2>2. op[p] \in Runs /\ RunOK(db, lastOid, op[p])
      BY Here
    <2>3. r \in Runs
      BY <2>1, <2>2, Here DEF Runs, Pcs, Locked, Stages
    <2>4. RunOK(db, lastOid, r)
      BY <2>1, <2>2, Here DEF RunOK, Runs, Plans, Planned, Referenced, LateStages
    <2>5. r.pc \in Locked <=> lock = p
      BY <2>1, <2>2, Here DEF Runs, Locked
    <2> HIDE DEF r
    <2> QED
      BY <2>1, <2>3, <2>4, <2>5, Here, RunStep
  <1> QED
    BY <1>1, <1>2

\* The inspection of the verification finds the run's own configuration alone.
LEMMA VerifyInspectStep ==
    ASSUME IInv, NEW p \in Operators, VerifyInspect(p)
    PROVE  IInv'
  <1>1. CASE Fails(p)
    BY <1>1, FailStep
  <1>2. CASE ~Fails(p)
    <2> DEFINE r == [op[p] EXCEPT !.pc = "examined"]
    <2>1. /\ op' = [op EXCEPT ![p] = r] /\ UNCHANGED <<db, lastOid, lock, meddled>>
          /\ op[p].pc = "verifyref" /\ db.oid = op[p].oid
          /\ ~Blocked(db, op[p].account) /\ db.confs # {}
      BY <1>2 DEF VerifyInspect, Set, SameDatabase
    <2>2. op[p] \in Runs /\ RunOK(db, lastOid, op[p])
      BY Here
    <2>3. r \in Runs
      BY <2>1, <2>2, Here DEF Runs, Pcs, Locked, Stages
    <2>4. RunOK(db, lastOid, r)
      <3>1. db.oid # 0
        BY <2>1, <2>2 DEF RunOK, Referenced
      <3>2. ~db.foreign /\ db.confs = {op[p].account}
        BY <2>1, <3>1 DEF Blocked
      <3> QED
        BY <2>1, <2>2, <3>2, Here DEF RunOK, Runs, Plans, Planned, Referenced, LateStages
    <2>5. r.pc \in Locked <=> lock = p
      BY <2>1, <2>2, Here DEF Runs, Locked
    <2> HIDE DEF r
    <2> QED
      BY <2>1, <2>3, <2>4, <2>5, Here, RunStep
  <1> QED
    BY <1>1, <1>2

LEMMA PersistStep ==
    ASSUME IInv, NEW p \in Operators, Persist(p)
    PROVE  IInv'
  <1>1. CASE Fails(p)
    BY <1>1, FailStep
  <1>2. CASE ~Fails(p)
    <2> DEFINE r == [op[p] EXCEPT !.pc = "persisting", !.stage = "configuration_persisted"]
    <2>1. /\ op' = [op EXCEPT ![p] = r] /\ UNCHANGED <<db, lastOid, lock, meddled>>
          /\ op[p].pc = "verified" /\ db.oid = op[p].oid
      BY <1>2 DEF Persist, Set, SameDatabase
    <2>2. op[p] \in Runs /\ RunOK(db, lastOid, op[p])
      BY Here
    <2>3. r \in Runs
      BY <2>1, <2>2, Here DEF Runs, Pcs, Locked, Stages
    <2>4. RunOK(db, lastOid, r)
      BY <2>1, <2>2, Here DEF RunOK, Runs, Plans, Planned, Referenced, LateStages
    <2>5. r.pc \in Locked <=> lock = p
      BY <2>1, <2>2, Here DEF Runs, Locked
    <2> HIDE DEF r
    <2> QED
      BY <2>1, <2>3, <2>4, <2>5, Here, RunStep
  <1> QED
    BY <1>1, <1>2

LEMMA LockedInspectStep ==
    ASSUME IInv, NEW p \in Operators, LockedInspect(p)
    PROVE  IInv'
  <1>1. CASE Fails(p)
    BY <1>1, FailStep
  <1>2. CASE ~Fails(p)
    <2> DEFINE r == [op[p] EXCEPT !.pc = "replanned", !.plan = PlanFrom(p)]
    <2>1. /\ op' = [op EXCEPT ![p] = r] /\ UNCHANGED <<db, lastOid, lock, meddled>>
          /\ op[p].pc = "lockedref" /\ (op[p].ref = 0 \/ SameDatabase(op[p].ref))
          /\ ~PlanFrom(p).blocked /\ PlanFrom(p) = op[p].confirmed
      BY <1>2 DEF LockedInspect, Set, PlanAccepted
    <2>2. op[p] \in Runs /\ RunOK(db, lastOid, op[p])
      BY Here
    <2>3. /\ PlanFrom(p) \in Plans /\ PlanFrom(p).oid <= lastOid
          /\ PlanFrom(p).oid # 0 => /\ PlanFrom(p).oid = db.oid
                                    /\ ~Blocked(db, op[p].account)
                                    /\ PlanFrom(p).configured = Cardinality(db.confs)
      BY <2>1, PlanFromFacts
    <2>4. PlanFrom(p).oid # 0 => Exact(db)
      BY <2>3 DEF Blocked
    <2>5. r \in Runs
      BY <2>2, <2>3 DEF Runs, Pcs, Locked
    <2>6. RunOK(db, lastOid, r)
      BY <2>1, <2>2, <2>3, <2>4 DEF RunOK, Runs, Planned, Referenced
    <2>7. r.pc \in Locked <=> lock = p
      BY <2>1, <2>2, Here DEF Runs, Locked
    <2> HIDE DEF r
    <2> QED
      BY <2>1, <2>5, <2>6, <2>7, Here, RunStep
  <1> QED
    BY <1>1, <1>2

LEMMA AcquireLockStep ==
    ASSUME IInv, NEW p \in Operators, AcquireLock(p)
    PROVE  IInv'
  <1> DEFINE r == [op[p] EXCEPT !.pc = "locked", !.stage = "target_lock_acquired"]
  <1>1. /\ op' = [op EXCEPT ![p] = r] /\ UNCHANGED <<db, lastOid, meddled>>
        /\ op[p].pc = "waiting" /\ lock = Nobody /\ lock' = p
    BY DEF AcquireLock, Set
  <1>2. op[p] \in Runs /\ RunOK(db, lastOid, op[p])
    BY Here
  <1>3. r \in Runs
    BY <1>2 DEF Runs, Pcs, Locked, Stages
  <1>4. RunOK(db, lastOid, r)
    BY <1>1, <1>2 DEF RunOK, Runs, Planned, Referenced, LateStages
  <1>5. r.pc \in Locked
    BY <1>2 DEF Runs, Locked
  <1>6. \A q \in Operators \ {p} : lock' = q <=> lock = q
    BY <1>1
  <1> HIDE DEF r
  <1> QED
    BY <1>1, <1>3, <1>4, <1>5, <1>6, RunStep

LEMMA VerifyReloadStep ==
    ASSUME IInv, NEW p \in Operators, VerifyReload(p)
    PROVE  IInv'
  <1>1. CASE Fails(p)
    BY <1>1, FailStep
  <1>2. CASE ~Fails(p)
    <2> DEFINE r == [op[p] EXCEPT !.pc = "done", !.plan = NoPlan, !.confirmed = NoPlan,
                                  !.stage = "verification_completed"]
    <2>1. /\ op' = [op EXCEPT ![p] = r] /\ UNCHANGED <<db, lastOid, meddled>>
          /\ op[p].pc = "examined" /\ db.oid = op[p].oid /\ Exact(db)
          /\ lock' = Unlocked(p)
      BY <1>2 DEF VerifyReload, Set, Reloaded, SameDatabase
    <2>2. op[p] \in Runs /\ RunOK(db, lastOid, op[p])
      BY Here
    <2>3. db.confs = {op[p].account}
      BY <2>1, <2>2 DEF RunOK
    <2>4. r \in Runs
      BY <2>2, NoPlanType DEF Runs, Pcs, Stages
    <2>5. RunOK(db, lastOid, r)
      BY <2>1, <2>2, <2>3, Here, NoPlanType DEF RunOK, Runs, Planned, Referenced, LateStages
    <2>6. /\ r.pc \notin Locked /\ lock' # p /\ lock' \in Operators \cup {Nobody}
          /\ \A q \in Operators \ {p} : lock' = q <=> lock = q
      BY <2>1, <2>2, Here DEF Runs, Locked, Unlocked
    <2> HIDE DEF r
    <2> QED
      BY <2>1, <2>4, <2>5, <2>6, RunStep
  <1> QED
    BY <1>1, <1>2

-----------------------------------------------------------------------------
(* Steps that change the database.                                         *)

\* A new database under the name: no run has worked on its oid.
LEMMA NewDatabase ==
    ASSUME IInv, NEW e \in Databases, db.oid = 0, e.oid = lastOid + 1,
           e.confs # {} => Exact(e) /\ ~e.foreign /\ Cardinality(e.confs) = 1
    PROVE  /\ DatabaseOK(e, lastOid + 1)
           /\ \A q \in Operators : RunOK(e, lastOid + 1, op[q])
  <1>1. lastOid \in Nat
    BY DEF IInv, TypeOK
  <1>2. DatabaseOK(e, lastOid + 1)
    BY <1>1 DEF DatabaseOK
  <1>3. ASSUME NEW q \in Operators
        PROVE  RunOK(e, lastOid + 1, op[q])
    <2>1. op[q] \in Runs /\ RunOK(db, lastOid, op[q]) /\ db \in Databases
      BY Here
    <2> QED
      BY <1>1, <2>1, AfterCreation
  <1> QED
    BY <1>2, <1>3

LEMMA CreateDatabaseStep ==
    ASSUME IInv, NEW p \in Operators, CreateDatabase(p)
    PROVE  IInv'
  <1>1. CASE Fails(p)
    BY <1>1, FailStep
  <1>2. CASE ~Fails(p)
    <2> DEFINE r == [op[p] EXCEPT !.pc = "created"]
               e == [Absent EXCEPT !.oid = lastOid + 1]
    <2>1. /\ op' = [op EXCEPT ![p] = r] /\ UNCHANGED <<lock, meddled>>
          /\ op[p].pc = "revalidated" /\ op[p].plan.oid = 0 /\ db.oid = 0
          /\ db' = e /\ lastOid < MaxOid /\ lastOid' = lastOid + 1
      BY <1>2 DEF CreateDatabase, Set, Creating
    <2>2. /\ op[p] \in Runs /\ lastOid \in 0 .. MaxOid /\ lastOid + 1 \in 0 .. MaxOid
      BY <2>1 DEF IInv, TypeOK
    <2>3. e \in Databases /\ e.oid = lastOid + 1 /\ e.confs = {}
      BY <2>2, AbsentType DEF Absent, Databases
    <2>4. r \in Runs /\ r.pc \in Locked /\ op[p].pc \in Locked
      BY <2>1, <2>2 DEF Runs, Pcs, Locked
    <2>5. /\ DatabaseOK(e, lastOid + 1)
          /\ \A q \in Operators : RunOK(e, lastOid + 1, op[q])
      BY <2>1, <2>3, NewDatabase
    <2>6. RunOK(e, lastOid + 1, r)
      BY <2>1, <2>2, <2>5 DEF RunOK, Runs, Planned, Referenced
    <2>7. \A q \in Operators : op'[q] = IF q = p THEN r ELSE op[q]
      BY <2>1 DEF IInv, TypeOK
    <2> HIDE DEF r, e
    <2>8. TypeOK'
      BY <2>1, <2>2, <2>3, <2>4, <2>7 DEF IInv, TypeOK
    <2> QED
      BY <2>1, <2>5, <2>6, <2>7, <2>8 DEF IInv
  <1> QED
    BY <1>1, <1>2

\* A step of the lock's holder that changes the database below every other run.
LEMMA HolderStep ==
    ASSUME IInv, NEW p \in Operators, NEW r \in Runs, NEW e \in Databases,
           op[p].pc \in Locked, r.pc \in Locked,
           db' = e, op' = [op EXCEPT ![p] = r], UNCHANGED <<lastOid, lock, meddled>>,
           DatabaseOK(e, lastOid), RunOK(e, lastOid, r),
           \A q \in Operators : op[q].pc \notin Locked => RunOK(e, lastOid, op[q])
    PROVE  IInv'
  <1>1. \A q \in Operators : op'[q] = IF q = p THEN r ELSE op[q]
    BY DEF IInv, TypeOK
  <1>2. \A q \in Operators \ {p} : op[q].pc \notin Locked
    BY DEF IInv, TypeOK
  <1>3. TypeOK'
    BY <1>1 DEF IInv, TypeOK
  <1>4. \A q \in Operators : RunOK(db', lastOid', op'[q])
    BY <1>1, <1>2
  <1> QED
    BY <1>3, <1>4 DEF IInv

LEMMA StartMigrationsStep ==
    ASSUME IInv, NEW p \in Operators, StartMigrations(p)
    PROVE  IInv'
  <1>1. CASE Fails(p)
    BY <1>1, FailStep
  <1>2. CASE ~Fails(p)
    <2> DEFINE r == [op[p] EXCEPT !.pc = "migrating"]
               e == [db EXCEPT !.catalogued = TRUE]
    <2>1. /\ op' = [op EXCEPT ![p] = r] /\ UNCHANGED <<lastOid, lock, meddled>>
          /\ op[p].pc = "ready" /\ op[p].plan.oid = 0 /\ db.oid = op[p].oid /\ db' = e
      BY <1>2 DEF StartMigrations, Set, Creating, SameDatabase
    <2>2. /\ op[p] \in Runs /\ RunOK(db, lastOid, op[p]) /\ db \in Databases
      BY Here
    <2>3. /\ e \in Databases /\ e.oid = db.oid /\ e.applied = db.applied /\ e.catalogued
          /\ e.foreign = db.foreign /\ e.confs = db.confs
      BY <2>2 DEF Databases
    <2>4. db.oid # 0
      BY <2>1, <2>2 DEF RunOK, Referenced
    <2>5. r \in Runs /\ r.pc \in Locked /\ op[p].pc \in Locked
      BY <2>1, <2>2 DEF Runs, Pcs, Locked
    <2>6. Exact(db) => Exact(e)
      BY <2>2, <2>3, ExactExists
    <2>7. DatabaseOK(e, lastOid)
      BY <2>3, <2>4, <2>6 DEF IInv, DatabaseOK
    <2>8. RunOK(e, lastOid, r)
      BY <2>1, <2>2, <2>3, <2>6 DEF RunOK, Runs, Planned, Referenced, LateStages
    <2>9. \A q \in Operators : op[q].pc \notin Locked => RunOK(e, lastOid, op[q])
      BY <2>3, <2>6, Here, AfterMigration
    <2> HIDE DEF r, e
    <2> QED
      BY <2>1, <2>3, <2>5, <2>7, <2>8, <2>9, HolderStep
  <1> QED
    BY <1>1, <1>2

LEMMA ApplyMigrationStep ==
    ASSUME IInv, NEW p \in Operators, ApplyMigration(p)
    PROVE  IInv'
  <1> DEFINE e == [db EXCEPT !.applied = @ + 1]
  <1>1. /\ op[p].pc = "migrating" /\ db.applied < Migrations /\ db' = e
        /\ UNCHANGED <<lastOid, lock, op, meddled>>
    BY DEF ApplyMigration
  <1>2. op[p] \in Runs /\ RunOK(db, lastOid, op[p]) /\ db \in Databases
    BY Here
  <1>3. db.applied \in 0 .. Migrations /\ db.applied + 1 \in 0 .. Migrations
    BY <1>1, <1>2 DEF Databases
  <1>4. /\ e \in Databases /\ e.oid = db.oid /\ e.catalogued = db.catalogued
        /\ e.foreign = db.foreign /\ e.confs = db.confs
    BY <1>2, <1>3 DEF Databases
  <1>5. ~Exact(db)
    BY <1>1, <1>2, <1>3, ExactExists
  <1>6. db.confs = {} /\ db.oid # 0
    <2>1. db.confs = {}
      BY <1>5 DEF IInv, DatabaseOK
    <2>2. op[p].oid # 0 /\ op[p].oid = db.oid
      BY <1>1, <1>2 DEF RunOK, Referenced
    <2> QED
      BY <2>1, <2>2
  <1>7. DatabaseOK(e, lastOid)
    BY <1>4, <1>6 DEF IInv, DatabaseOK
  <1>8. RunOK(e, lastOid, op[p])
    BY <1>1, <1>2, <1>4, <1>5 DEF RunOK, Runs, Planned, Referenced, LateStages
  <1>9. \A q \in Operators : op[q].pc \notin Locked => RunOK(e, lastOid, op[q])
    BY <1>4, <1>5, Here, AfterMigration
  <1>10. op' = [op EXCEPT ![p] = op[p]] /\ op[p].pc \in Locked
    BY <1>1 DEF IInv, TypeOK, Locked
  <1> HIDE DEF e
  <1> QED
    BY <1>1, <1>2, <1>4, <1>7, <1>8, <1>9, <1>10, HolderStep

LEMMA CommitStep ==
    ASSUME IInv, NEW p \in Operators, Commit(p)
    PROVE  IInv'
  <1> DEFINE r == [op[p] EXCEPT !.pc = "persisted"]
             a == op[p].account
             e == [db EXCEPT !.confs = @ \cup {a}]
  <1>1. /\ op' = [op EXCEPT ![p] = r] /\ UNCHANGED <<lastOid, lock, meddled>>
        /\ op[p].pc = "persisting" /\ db' = e
    BY DEF Commit, Set
  <1>2. op[p] \in Runs /\ RunOK(db, lastOid, op[p]) /\ db \in Databases
    BY Here
  <1>3. a \in Accounts
    BY <1>2 DEF Runs
  <1>4. /\ db.oid = op[p].oid /\ db.oid # 0 /\ Exact(db) /\ ~db.foreign
        /\ db.confs \subseteq {a}
    BY <1>1, <1>2 DEF RunOK, Referenced
  <1>5. /\ e \in Databases /\ e.oid = db.oid /\ e.catalogued = db.catalogued
        /\ e.applied = db.applied /\ e.foreign = db.foreign /\ e.confs = {a}
    BY <1>2, <1>3, <1>4 DEF Databases
  <1>6. Exact(e)
    BY <1>2, <1>4, <1>5, ExactExists
  <1>7. Cardinality({a}) = 1
    BY FS_Singleton
  <1>8. DatabaseOK(e, lastOid)
    BY <1>4, <1>5, <1>6, <1>7 DEF IInv, DatabaseOK
  <1>9. r \in Runs /\ r.pc \in Locked /\ op[p].pc \in Locked
    BY <1>1, <1>2 DEF Runs, Pcs, Locked
  <1>10. RunOK(e, lastOid, r)
    BY <1>1, <1>2, <1>5, <1>6 DEF RunOK, Runs, Planned, Referenced, LateStages
  <1>11. \A q \in Operators : op[q].pc \notin Locked => RunOK(e, lastOid, op[q])
    BY <1>3, <1>4, <1>5, <1>6, Here, AfterCommit
  <1> HIDE DEF r, e, a
  <1> QED
    BY <1>1, <1>5, <1>8, <1>9, <1>10, <1>11, HolderStep

-----------------------------------------------------------------------------
(* The administrator.                                                      *)

LEMMA DropStep ==
    ASSUME IInv, Drop
    PROVE  IInv'
  <1>1. db' = Absent /\ UNCHANGED <<lastOid, lock, op>> /\ meddled' = meddled + 1
        /\ meddled < MaxMeddling
    BY DEF Drop
  <1>2. TypeOK'
    BY <1>1, AbsentType DEF IInv, TypeOK
  <1>3. DatabaseOK(Absent, lastOid)
    BY Here DEF IInv, TypeOK, DatabaseOK, Absent
  <1>4. ASSUME NEW q \in Operators
        PROVE  RunOK(Absent, lastOid, op[q])
    <2>1. op[q].pc \notin {"migrating", "persisting"}
      BY DEF Drop, Connected
    <2> QED
      BY <2>1, Here, AfterDrop
  <1> QED
    BY <1>1, <1>2, <1>3, <1>4 DEF IInv

LEMMA CreateOtherStep ==
    ASSUME IInv, NEW d \in OtherDatabases, CreateOther(d)
    PROVE  IInv'
  <1> DEFINE e == [d EXCEPT !.oid = lastOid + 1]
  <1>1. /\ db.oid = 0 /\ db' = e /\ UNCHANGED <<lock, op>> /\ meddled' = meddled + 1
        /\ meddled < MaxMeddling /\ lastOid < MaxOid /\ lastOid' = lastOid + 1
    BY DEF CreateOther
  <1>2. lastOid + 1 \in 0 .. MaxOid /\ lastOid + 1 # 0
    BY <1>1 DEF IInv, TypeOK
  <1>3. /\ d \in Databases
        /\ d.confs # {} => /\ d.catalogued /\ d.applied = Migrations /\ ~d.foreign
                           /\ \E a \in Accounts : d.confs = {a}
    <2>1. CASE \E f \in BOOLEAN : d = [Absent EXCEPT !.foreign = f]
      BY <2>1, AbsentType DEF Absent, Databases
    <2>2. CASE \E a \in Accounts :
                  d = [Absent EXCEPT !.catalogued = TRUE, !.applied = Migrations, !.confs = {a}]
      <3>1. PICK a \in Accounts :
                 d = [Absent EXCEPT !.catalogued = TRUE, !.applied = Migrations, !.confs = {a}]
        BY <2>2
      <3>2. /\ Absent \in Databases /\ {a} \in SUBSET Accounts /\ Migrations \in 0 .. Migrations
            /\ Absent.foreign = FALSE
        BY AbsentType DEF Absent
      <3>3. /\ d \in Databases /\ d.catalogued = TRUE /\ d.applied = Migrations
            /\ d.foreign = FALSE /\ d.confs = {a}
        BY <3>1, <3>2 DEF Databases
      <3> QED
        BY <3>3
    <2> QED
      BY <2>1, <2>2 DEF OtherDatabases
  <1>4. /\ e \in Databases /\ e.oid = lastOid + 1 /\ e.catalogued = d.catalogued
        /\ e.applied = d.applied /\ e.foreign = d.foreign /\ e.confs = d.confs
    BY <1>2, <1>3 DEF Databases
  <1> HIDE DEF e
  <1>5. e.confs # {} => Exact(e) /\ ~e.foreign /\ Cardinality(e.confs) = 1
    BY <1>2, <1>3, <1>4, ExactExists, FS_Singleton
  <1>6. DatabaseOK(e, lastOid + 1) /\ \A q \in Operators : RunOK(e, lastOid + 1, op[q])
    BY <1>1, <1>4, <1>5, NewDatabase
  <1>7. TypeOK'
    BY <1>1, <1>2, <1>4 DEF IInv, TypeOK
  <1> QED
    BY <1>1, <1>6, <1>7 DEF IInv

LEMMA ApplicationRowsStep ==
    ASSUME IInv, ApplicationRows
    PROVE  IInv'
  <1> DEFINE e == [db EXCEPT !.rows = TRUE]
  <1>1. /\ db' = e /\ UNCHANGED <<lastOid, lock, op>> /\ meddled' = meddled + 1
        /\ meddled < MaxMeddling
    BY DEF ApplicationRows
  <1>2. db \in Databases /\ lastOid \in Nat
    BY DEF IInv, TypeOK
  <1>3. /\ e \in Databases /\ e.oid = db.oid /\ e.catalogued = db.catalogued
        /\ e.applied = db.applied /\ e.foreign = db.foreign /\ e.confs = db.confs
    BY <1>2 DEF Databases
  <1>4. Exact(e) <=> Exact(db)
    BY <1>2, <1>3, ExactExists
  <1>5. DatabaseOK(e, lastOid)
    <2>1. db.oid # 0
      BY <1>2, ExactExists DEF ApplicationRows
    <2> QED
      BY <1>3, <1>4, <2>1 DEF IInv, DatabaseOK
  <1>6. \A q \in Operators : RunOK(e, lastOid, op[q])
    BY <1>2, <1>3, Here, AfterRows
  <1> HIDE DEF e
  <1>7. TypeOK'
    BY <1>1, <1>3 DEF IInv, TypeOK
  <1> QED
    BY <1>1, <1>5, <1>6, <1>7 DEF IInv

-----------------------------------------------------------------------------
(* The theorems.                                                           *)

LEMMA InitOK == Init => IInv
  <1> SUFFICES ASSUME Init PROVE IInv
    OBVIOUS
  <1>1. TypeOK
    BY AbsentType, IdleType, OidsAreNumbers DEF Init, TypeOK, Idle, Locked, Runs
  <1>2. DatabaseOK(db, lastOid)
    BY DEF Init, DatabaseOK, Absent
  <1>3. RunOK(Absent, 0, Idle)
    BY NoPlanType DEF RunOK, Idle, Planned, Referenced, LateStages, Absent
  <1> QED
    BY <1>1, <1>2, <1>3 DEF IInv, Init

LEMMA NextOK == IInv /\ [Next]_vars => IInv'
  <1> SUFFICES ASSUME IInv, [Next]_vars PROVE IInv'
    OBVIOUS
  <1>1. CASE UNCHANGED vars
    BY <1>1 DEF vars, IInv, TypeOK, DatabaseOK, RunOK
  <1>2. ASSUME NEW p \in Operators, NEW a \in Accounts, PlanReference(p, a) PROVE IInv'
    BY <1>2, PlanReferenceStep
  <1>3. ASSUME NEW p \in Operators, Confirm(p) PROVE IInv'
    BY <1>3, ConfirmStep
  <1>4. ASSUME NEW p \in Operators, AcquireLock(p) PROVE IInv'
    BY <1>4, AcquireLockStep
  <1>5. ASSUME NEW p \in Operators, Interrupted(p) PROVE IInv'
    BY <1>5, FailStep DEF Interrupted
  <1>6. ASSUME NEW p \in Operators, Step(p) PROVE IInv'
    BY <1>6, PlanInspectStep, LockedReferenceStep, LockedInspectStep, RevalidateStep,
       CreateDatabaseStep, ActiveReferenceStep, StartMigrationsStep, ApplyMigrationStep,
       EndMigrationsStep, SchemaReferenceStep, SchemaInspectStep, SchemaContractStep,
       PersistStep, CommitStep, VerifyReferenceStep, VerifyInspectStep, VerifyReloadStep
       DEF Step
  <1>7. CASE Administrator
    BY <1>7, DropStep, CreateOtherStep, ApplicationRowsStep DEF Administrator
  <1> QED
    BY <1>1, <1>2, <1>3, <1>4, <1>5, <1>6, <1>7 DEF Next

LEMMA Invariant == Spec => []IInv
  <1> QED
    BY InitOK, NextOK, PTL DEF Spec

\* Whatever fails and whatever the administrator drops or creates: the lock is
\* one run's, a configuration is in a clean complete database or nowhere, and no
\* run reports a stage its database has not reached.
THEOREM BootstrapIsSound == Spec => []BootstrapSound
  <1>1. IInv => BootstrapSound
    <2> SUFFICES ASSUME IInv PROVE BootstrapSound
      OBVIOUS
    <2>1. TypeOK /\ ConfiguredOnlyClean
      BY DEF IInv, DatabaseOK, ConfiguredOnlyClean
    <2>2. StageTruthful
      BY DEF IInv, RunOK, StageTruthful, LateStages
    <2> QED
      BY <2>1, <2>2 DEF BootstrapSound
  <1> QED
    BY <1>1, Invariant, PTL

LEMMA FailedStep ==
    ASSUME IInv, NEW p \in Operators, NEW q \in Operators, Fails(q)
    PROVE  op'[p].pc = IF p = q THEN "failed" ELSE op[p].pc
  <1>1. op[q] \in Runs /\ op \in [Operators -> Runs]
    BY DEF IInv, TypeOK
  <1> QED
    BY <1>1 DEF Fails, Runs

\* A run builds upon nothing its operator has not confirmed.
THEOREM ChangesAsPlanned == Spec => FirstChangeAsPlanned
  <1>1. IInv => [\A p \in Operators :
                    /\ CreateDatabase(p) /\ db' # db => op[p].confirmed.oid = 0
                    /\ StartMigrations(p) /\ db' # db => op[p].confirmed.oid = 0
                    /\ Persist(p) /\ op'[p].pc = "persisting" /\ ~Creating(p)
                         => /\ db.oid = op[p].confirmed.oid
                            /\ Cardinality(db.confs) = op[p].confirmed.configured]_vars
    <2> SUFFICES ASSUME IInv, NEW p \in Operators
                 PROVE  /\ CreateDatabase(p) /\ db' # db => op[p].confirmed.oid = 0
                        /\ StartMigrations(p) /\ db' # db => op[p].confirmed.oid = 0
                        /\ Persist(p) /\ op'[p].pc = "persisting" /\ ~Creating(p)
                             => /\ db.oid = op[p].confirmed.oid
                                /\ Cardinality(db.confs) = op[p].confirmed.configured
      OBVIOUS
    <2>1. op[p] \in Runs /\ RunOK(db, lastOid, op[p])
      BY Here
    <2>2. CreateDatabase(p) => op[p].plan.oid = 0 /\ op[p].pc = "revalidated"
      BY DEF CreateDatabase, Creating
    <2>3. StartMigrations(p) => op[p].plan.oid = 0 /\ op[p].pc = "ready"
      BY DEF StartMigrations, Creating
    <2>4. Persist(p) /\ op'[p].pc = "persisting" /\ ~Creating(p)
            => op[p].pc = "verified" /\ op[p].plan.oid # 0 /\ db.oid = op[p].oid
      BY FailedStep DEF Persist, Creating, SameDatabase
    <2> QED
      BY <2>1, <2>2, <2>3, <2>4 DEF RunOK, Planned, Referenced
  <1> QED
    BY <1>1, Invariant, PTL DEF FirstChangeAsPlanned

\* Only the last read of the verification makes a run done.
LEMMA DoneByVerify ==
    ASSUME IInv, [Next]_vars, NEW p \in Operators, op[p].pc # "done", op'[p].pc = "done"
    PROVE  VerifyReload(p)
  <1>1. op \in [Operators -> Runs]
    BY DEF IInv, TypeOK
  <1>2. op' # op
    OBVIOUS
  <1>3. ~Administrator
    BY <1>2 DEF Administrator, Drop, CreateOther, ApplicationRows
  <1>4. \A q \in Operators : ~Fails(q)
    BY FailedStep
  <1>5. PICK q \in Operators : \/ \E a \in Accounts : PlanReference(q, a)
                               \/ Confirm(q) \/ AcquireLock(q) \/ Step(q)
    BY <1>2, <1>3, <1>4 DEF Next, vars, Interrupted
  <1>6. CASE \E a \in Accounts : PlanReference(q, a)
    BY <1>1, <1>6, IdleType DEF PlanReference, Set, Runs
  <1>7. CASE Confirm(q) \/ AcquireLock(q)
    BY <1>1, <1>7 DEF Confirm, AcquireLock, Set, Runs
  <1>8. CASE PlanInspect(q) \/ LockedReference(q) \/ LockedInspect(q) \/ Revalidate(q)
    BY <1>1, <1>4, <1>8 DEF PlanInspect, LockedReference, LockedInspect, Revalidate, Set, Runs
  <1>9. CASE CreateDatabase(q) \/ ActiveReference(q) \/ StartMigrations(q) \/ EndMigrations(q)
    BY <1>1, <1>4, <1>9
       DEF CreateDatabase, ActiveReference, StartMigrations, EndMigrations, Set, Runs
  <1>10. CASE Persist(q) \/ Commit(q)
    BY <1>1, <1>4, <1>10 DEF Persist, Commit, Set, Runs
  <1>11. CASE ApplyMigration(q)
    BY <1>2, <1>11 DEF ApplyMigration
  <1>12. CASE SchemaReference(q) \/ SchemaInspect(q) \/ SchemaContract(q)
    BY <1>1, <1>4, <1>12
       DEF SchemaReference, SchemaInspect, SchemaContract, CompareReference, Set, Runs
  <1>13. CASE VerifyReference(q) \/ VerifyInspect(q)
    BY <1>1, <1>4, <1>13 DEF VerifyReference, VerifyInspect, CompareReference, Set, Runs
  <1>14. CASE VerifyReload(q)
    <2>1. q = p
      BY <1>1, <1>4, <1>14 DEF VerifyReload, Set, Runs
    <2> QED
      BY <1>14, <2>1
  <1> QED
    BY <1>5, <1>6, <1>7, <1>8, <1>9, <1>10, <1>11, <1>12, <1>13, <1>14 DEF Step

\* What the separate reads of the verification told still holds together when a run
\* reports readiness: the database is the one it worked on, whatever was dropped,
\* created or restored under the name between two of them.
THEOREM ReadyIsItsOwn == Spec => ReadyForItsOwn
  <1>1. IInv /\ [Next]_vars =>
            [\A p \in Operators :
               op[p].pc # "done" /\ op'[p].pc = "done" =>
                 /\ db.oid = op[p].oid /\ Exact(db) /\ ~db.foreign
                 /\ db.confs = {op[p].account}]_vars
    <2> SUFFICES ASSUME IInv, [Next]_vars, NEW p \in Operators,
                        op[p].pc # "done", op'[p].pc = "done"
                 PROVE  /\ db.oid = op[p].oid /\ Exact(db) /\ ~db.foreign
                        /\ db.confs = {op[p].account}
      OBVIOUS
    <2>1. VerifyReload(p) /\ ~Fails(p)
      BY DoneByVerify, FailedStep
    <2>2. op[p].pc = "examined" /\ db.oid = op[p].oid /\ Exact(db)
      BY <2>1 DEF VerifyReload, Reloaded, SameDatabase
    <2>3. ~db.foreign /\ db.confs = {op[p].account}
      BY <2>2, Here DEF RunOK
    <2> QED
      BY <2>2, <2>3
  <1> QED
    BY <1>1, Invariant, PTL DEF Spec, ReadyForItsOwn
=============================================================================
