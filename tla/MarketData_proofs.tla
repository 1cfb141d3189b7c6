-------------------------- MODULE MarketData_proofs --------------------------
(***************************************************************************)
(* The collection, validation and storage of candles for any number of     *)
(* runs, any window, page limit and number of pages: StoreSound and        *)
(* RunsSound.                                                              *)
(*                                                                         *)
(* The invariant IInv is inductive:                                        *)
(*   TypeInv      every variable has its type;                             *)
(*   PagesInStep  while pages are collected, the candles known when the    *)
(*                collection began are still listed and those at or after  *)
(*                the cursor have been got, each time once;                *)
(*   RowsInStep   a dataset holds rows of its own provider, and is         *)
(*                complete once the collection returned;                   *)
(*   ReportsInStep  a stored report is the only one of its run id and      *)
(*                provider, and each of its rows is stored raw and either  *)
(*                quarantined or represented by a bar;                     *)
(*   BarsInStep   a bar is a row its report accepted, and a quarantined    *)
(*                row is one its report refused.                           *)
(***************************************************************************)
EXTENDS MarketData, FiniteSetTheorems, SequenceTheorems, WellFoundedInduction, TLAPS

Runs == [pc : {"idle", "binance", "okx", "reconcile", "persist", "ended"}, id : Ids,
         strict : BOOLEAN, fast : BOOLEAN, cursor : 0 .. End, most : 1 .. MaxPages,
         pages : 0 .. MaxPages - 1, got : SUBSET Row, known : SUBSET Window,
         rows : [Providers -> Seq(Row)], bad : SUBSET Providers, verdict : Verdicts]
Reports == [id : Ids, provider : Providers, rows : Seq(Row), strict : BOOLEAN]
Bars    == [provider : Providers, time : Times, value : Candles, query : 0 .. End, report : Ids]
Quarantines == [id : Ids, row : Row, reason : Reasons]

TypeInv ==
    /\ venue \in [Providers -> [Times -> Candles \cup {"none"}]]
    /\ changes \in 0 .. MaxChanges /\ runs \in 0 .. MaxRuns
    /\ run \in [Runners -> Runs]

TimesOf(rows) == {row.time : row \in rows}
OneEach(rows) == \A x, y \in rows : x.time = y.time => x = y

\* what the collection of pages of a run has got, and has still to get
Paging(q) ==
    /\ IsFiniteSet(q.got) /\ OneEach(q.got)
    /\ \A x \in q.got : x.provider = "okx" /\ q.cursor <= x.time
    /\ \A t \in q.known : venue["okx"][t] # "none"
    /\ \A t \in q.known : q.cursor <= t => t \in TimesOf(q.got)
PagesInStep(q) ==
    /\ q.pages < q.most
    /\ q.got # {} => q.pc = "okx"
    /\ q.pc = "binance" => q.known = {}
    /\ q.pc = "okx" => Paging(q)

Own(rows, p) == \A row \in ToSet(rows) : row.provider = p
RowsInStep(q) ==
    /\ \A p \in Providers : Own(q.rows[p], p)
    /\ q.pc \in {"reconcile", "persist"} /\ "okx" \notin q.bad
           => q.known \subseteq TimesOf(ToSet(q.rows["okx"]))
    /\ q.verdict # "reconciliation"

RefusedBy(rep) == FailedRows(rep.rows, rep.strict)
Covered(rep, s) ==
    /\ Own(rep.rows, rep.provider)
    /\ \A row \in ToSet(rep.rows) :
          /\ [id |-> rep.id, row |-> row] \in s.raw
          /\ row \in RefusedBy(rep) => \E q \in s.quarantine : q.id = rep.id /\ q.row = row
          /\ row \notin RefusedBy(rep) =>
                \E bar \in s.bars : bar.provider = row.provider /\ bar.time = row.time
AcceptedBy(bar, rep) == /\ rep.id = bar.report /\ rep.provider = bar.provider
                        /\ BarRow(bar) \in ToSet(rep.rows) /\ BarRow(bar) \notin RefusedBy(rep)
QuarantinedBy(q, rep) == /\ rep.id = q.id /\ rep.provider = q.row.provider
                         /\ q.row \in RefusedBy(rep)

StoreType(s) ==
    /\ s.raw \subseteq [id : Ids, row : Row]
    /\ s.reports \subseteq Reports
    /\ s.bars \subseteq Bars
    /\ s.quarantine \subseteq Quarantines
ReportsInStep(s) ==
    /\ \A rep \in s.reports : Covered(rep, s)
    /\ \A rep, old \in s.reports :
          rep.id = old.id /\ rep.provider = old.provider => rep = old
BarsInStep(s) ==
    /\ \A bar \in s.bars : \E rep \in s.reports : AcceptedBy(bar, rep)
    /\ \A q \in s.quarantine : \E rep \in s.reports : QuarantinedBy(q, rep)

RunsInv  == \A r \in Runners : PagesInStep(run[r]) /\ RowsInStep(run[r])
StoreInv(s) == StoreType(s) /\ ReportsInStep(s) /\ BarsInStep(s)
IInv == TypeInv /\ RunsInv /\ StoreInv(store)

-----------------------------------------------------------------------------
(* Numbers and finite sets.                                                *)

\* A set of natural numbers that is not empty has a least one.
LEMMA SmallestNat ==
    ASSUME NEW T \in SUBSET Nat, T # {}
    PROVE  Min(T) \in T /\ \A y \in T : Min(T) <= y
  <1>1. PICK x \in T : \A y \in T : ~(<<y, x>> \in OpToRel(<, Nat))
    BY NatLessThanWellFounded, WFMin
  <1>2. \A y \in T : x <= y
    <2> SUFFICES ASSUME NEW y \in T, y < x PROVE FALSE
      OBVIOUS
    <2>1. <<y, x>> \in OpToRel(<, Nat)
      BY DEF OpToRel
    <2> QED
      BY <1>1, <2>1
  <1> QED
    BY <1>1, <1>2 DEF Min

\* A bounded one has a greatest element.
LEMMA GreatestNat ==
    ASSUME NEW n \in Nat, NEW T \in SUBSET (0 .. n), T # {}
    PROVE  \E x \in T : \A y \in T : y <= x
  <1> DEFINE U == {n - x : x \in T}
  <1>1. U \in SUBSET Nat /\ U # {}
    OBVIOUS
  <1>2. PICK x \in T : Min(U) = n - x
    BY <1>1, SmallestNat
  <1>3. \A y \in T : n - x <= n - y
    BY <1>1, <1>2, SmallestNat
  <1>4. \A y \in T : y <= x
    BY <1>3
  <1> QED
    BY <1>4

\* The rows of a dataset stand in the order of their times, each of them once
\* and nothing else: ByTime lists the set it is given.
LEMMA ByTimeLists ==
    ASSUME NEW rows, IsFiniteSet(rows), \A x \in rows : x.time \in Nat, OneEach(rows)
    PROVE  /\ Cardinality(rows) \in Nat
           /\ ByTime(rows) \in [1 .. Cardinality(rows) -> rows]
           /\ ToSet(ByTime(rows)) = rows
  <1> DEFINE n == Cardinality(rows)
             B(x) == Before(rows, x)
             f == [x \in rows |-> Cardinality(B(x)) + 1]
  <1>1. n \in Nat /\ IsFiniteSet(1 .. n) /\ Cardinality(1 .. n) = n
    <2>1. n \in Nat
      BY FS_CardinalityType
    <2> QED
      BY <2>1, FS_Interval
  <1>2. ASSUME NEW x \in rows, NEW S, B(x) \subseteq S, x \in S, S \subseteq rows
        PROVE  Cardinality(B(x)) \in Nat /\ Cardinality(B(x)) < Cardinality(S)
    <2>1. IsFiniteSet(S) /\ Cardinality(S) \in Nat
      BY <1>2, FS_Subset, FS_CardinalityType
    <2>2. B(x) \in SUBSET S /\ x \notin B(x)
      BY <1>2 DEF Before
    <2>3. /\ IsFiniteSet(B(x)) /\ Cardinality(B(x)) <= Cardinality(S)
          /\ Cardinality(S) # Cardinality(B(x))
      BY <1>2, <2>1, <2>2, FS_Subset
    <2>4. Cardinality(B(x)) \in Nat
      BY <2>3, FS_CardinalityType
    <2> QED
      BY <2>1, <2>3, <2>4
  <1>3. f \in [rows -> 1 .. n]
    <2> SUFFICES ASSUME NEW x \in rows PROVE Cardinality(B(x)) + 1 \in 1 .. n
      OBVIOUS
    <2>1. B(x) \subseteq rows
      BY DEF Before
    <2>2. Cardinality(B(x)) \in Nat /\ Cardinality(B(x)) < n
      BY <1>2, <2>1
    <2> QED
      BY <1>1, <2>2
  <1>4. ASSUME NEW x \in rows, NEW y \in rows, x.time < y.time
        PROVE  f[x] < f[y]
    <2>1. B(x) \subseteq B(y) /\ x \in B(y) /\ B(y) \subseteq rows
      BY <1>4 DEF Before
    <2>2. Cardinality(B(x)) \in Nat /\ Cardinality(B(x)) < Cardinality(B(y))
      BY <1>2, <2>1
    <2>3. Cardinality(B(y)) \in Nat
      BY <1>2, <2>1, FS_Subset, FS_CardinalityType
    <2> QED
      BY <2>2, <2>3
  <1>5. ASSUME NEW x \in rows, NEW y \in rows, f[x] = f[y]
        PROVE  x = y
    <2>1. f[x] \in Nat /\ f[y] \in Nat
      BY <1>1, <1>3
    <2>2. ~(x.time < y.time) /\ ~(y.time < x.time)
      BY <1>4, <1>5, <2>1
    <2> QED
      BY <2>2 DEF OneEach
  <1>6. f \in Surjection(rows, 1 .. n)
    <2>1. f \in Injection(rows, 1 .. n)
      BY <1>3, <1>5 DEF Injection, IsInjective
    <2> HIDE DEF f
    <2> QED
      BY <1>1, <2>1, FS_Injection
  <1>7. ASSUME NEW i \in 1 .. n
        PROVE  /\ ByTime(rows)[i] \in rows
               /\ Cardinality(B(ByTime(rows)[i])) = i - 1
    <2>1. \E x \in rows : f[x] = i
      BY <1>6 DEF Surjection
    <2>2. PICK x \in rows : Cardinality(B(x)) + 1 = i
      BY <2>1
    <2>3. Cardinality(B(x)) \in Nat
      BY <1>2, FS_Subset DEF Before
    <2>4. Cardinality(B(x)) = i - 1
      BY <2>2, <2>3
    <2> QED
      BY <2>4 DEF ByTime
  <1>8. DOMAIN ByTime(rows) = 1 .. n
    BY DEF ByTime
  <1>9. ByTime(rows) \in [1 .. n -> rows]
    BY <1>7 DEF ByTime
  <1>10. ASSUME NEW x \in rows PROVE x \in ToSet(ByTime(rows))
    <2> DEFINE y == ByTime(rows)[f[x]]
    <2>1. f[x] \in 1 .. n /\ f[x] = Cardinality(B(x)) + 1
      BY <1>3
    <2>2. y \in rows /\ Cardinality(B(y)) = f[x] - 1
      BY <1>7, <2>1
    <2>3. f[y] = Cardinality(B(y)) + 1
      BY <2>2
    <2>4. f[y] = f[x]
      BY <1>1, <2>1, <2>2, <2>3
    <2>5. y = x
      BY <1>5, <2>2, <2>4
    <2> QED
      BY <1>8, <2>1, <2>5 DEF ToSet
  <1>11. ToSet(ByTime(rows)) \subseteq rows
    BY <1>9 DEF ToSet
  <1> QED
    BY <1>1, <1>9, <1>10, <1>11

-----------------------------------------------------------------------------
(* The checks of a dataset.                                                *)

\* The five checks and the positions they flag.
LEMMA FiveChecks ==
    ASSUME NEW rows, NEW strict
    PROVE  /\ DOMAIN Failing(rows, strict) = 1 .. 5
           /\ Failing(rows, strict)[1] = <<"missing", IF strict THEN Missing(rows) ELSE {}>>
           /\ Failing(rows, strict)[2] = <<"duplicated", Duplicated(rows)>>
           /\ Failing(rows, strict)[3] = <<"backward", Backward(rows)>>
           /\ Failing(rows, strict)[4] = <<"invalid", Invalid(rows)>>
           /\ Failing(rows, strict)[5] = <<"partial", Partial(rows)>>
  BY DEF Failing

\* A check names rows of the dataset, and its name is a quarantine reason.
LEMMA ChecksName ==
    ASSUME NEW rows \in Seq(Row), NEW strict, NEW k \in 1 .. 5
    PROVE  /\ Failing(rows, strict)[k][1] \in Reasons
           /\ Failing(rows, strict)[k][2] \subseteq DOMAIN rows
  <1>1. Missing(rows) \subseteq DOMAIN rows /\ Duplicated(rows) \subseteq DOMAIN rows
    BY DEF Missing, Duplicated
  <1>2. Invalid(rows) \subseteq DOMAIN rows /\ Partial(rows) \subseteq DOMAIN rows
    BY DEF Invalid, Partial
  <1>3. Backward(rows) \subseteq DOMAIN rows
    BY DEF Backward
  <1>4. k = 1 \/ k = 2 \/ k = 3 \/ k = 4 \/ k = 5
    OBVIOUS
  <1> QED
    BY <1>1, <1>2, <1>3, <1>4, FiveChecks DEF Reasons

\* What is refused: rows of the dataset, among them every row whose time
\* another row has, every broken one and every one OKX says is still forming.
LEMMA Refused ==
    ASSUME NEW rows \in Seq(Row), NEW strict
    PROVE  /\ FailedRows(rows, strict) \subseteq ToSet(rows)
           /\ \A i \in DOMAIN rows :
                 i \in Duplicated(rows) \/ i \in Invalid(rows) \/ i \in Partial(rows)
                     => rows[i] \in FailedRows(rows, strict)
  <1> DEFINE F == Failing(rows, strict)
  <1>1. DOMAIN F = 1 .. 5
    BY FiveChecks
  <1>2. \A k \in 1 .. 5 : \A i \in F[k][2] : i \in DOMAIN rows
    BY ChecksName
  <1>3. \A x : x \in FailedRows(rows, strict) <=> \E k \in 1 .. 5 : \E i \in F[k][2] : x = rows[i]
    BY <1>1 DEF FailedRows, Affected
  <1>4. F[2][2] = Duplicated(rows) /\ F[4][2] = Invalid(rows) /\ F[5][2] = Partial(rows)
    BY FiveChecks
  <1> HIDE DEF F
  <1>5. FailedRows(rows, strict) \subseteq ToSet(rows)
    BY <1>2, <1>3 DEF ToSet
  <1> QED
    BY <1>3, <1>4, <1>5

\* The quarantine holds exactly the refused rows, each under a reason.
LEMMA QuarantineNames ==
    ASSUME NEW rows \in Seq(Row), NEW strict
    PROVE  /\ \A q \in Quarantined(rows, strict) :
                 q[1] \in FailedRows(rows, strict) /\ q[2] \in Reasons
           /\ \A row \in FailedRows(rows, strict) :
                 \E q \in Quarantined(rows, strict) : q[1] = row
  <1> DEFINE F == Failing(rows, strict)
             Found(row) == {k \in DOMAIN F : row \in Affected(rows, F[k])}
  <1>1. ASSUME NEW row \in FailedRows(rows, strict)
        PROVE  F[Min(Found(row))][1] \in Reasons
    <2>1. DOMAIN F = 1 .. 5
      BY FiveChecks
    <2>2. Found(row) \in SUBSET Nat /\ Found(row) # {}
      BY <1>1, <2>1 DEF FailedRows
    <2>3. Min(Found(row)) \in Found(row)
      BY <2>2, SmallestNat
    <2>4. Min(Found(row)) \in 1 .. 5
      BY <2>1, <2>3
    <2> QED
      BY <2>4, ChecksName
  <1> DEFINE Name(row) == F[Min(Found(row))][1]
  <1>2. Quarantined(rows, strict) = {<<row, Name(row)>> : row \in FailedRows(rows, strict)}
    BY DEF Quarantined
  <1>3. \A row \in FailedRows(rows, strict) : Name(row) \in Reasons
    BY <1>1
  <1> HIDE DEF Name
  <1>4. \A q \in Quarantined(rows, strict) :
           \E row \in FailedRows(rows, strict) : q = <<row, Name(row)>>
    BY <1>2
  <1>5. \A row \in FailedRows(rows, strict) : <<row, Name(row)>> \in Quarantined(rows, strict)
    BY <1>2
  <1>6. \A q \in Quarantined(rows, strict) : q[1] \in FailedRows(rows, strict) /\ q[2] \in Reasons
    BY <1>3, <1>4
  <1>7. ASSUME NEW row \in FailedRows(rows, strict)
        PROVE  \E q \in Quarantined(rows, strict) : q[1] = row
    <2>1. <<row, Name(row)>>[1] = row
      OBVIOUS
    <2> QED
      BY <1>5, <2>1
  <1> QED
    BY <1>6, <1>7

\* The gate lets no two rows of one time through, so datasets are comparable.
LEMMA AlwaysComparable ==
    ASSUME TypeInv, NEW r \in Runners, NEW p \in Providers
    PROVE  Comparable(r, p)
  <1> DEFINE rows == run[r].rows[p]
  <1>1. rows \in Seq(Row)
    BY DEF TypeInv, Runs
  <1>2. \A i \in Accepted(r, p) :
            i \in DOMAIN rows /\ rows[i] \notin FailedRows(rows, run[r].strict)
    BY DEF Accepted, Gate
  <1>3. ASSUME NEW i \in Accepted(r, p), NEW j \in Accepted(r, p),
               rows[i].time = rows[j].time, i # j
        PROVE  FALSE
    <2>1. i \in DOMAIN rows /\ j \in DOMAIN rows
      BY <1>2
    <2>2. i \in Duplicated(rows)
      BY <1>3, <2>1 DEF Duplicated
    <2> QED
      BY <1>1, <1>2, <2>1, <2>2, Refused
  <1> QED
    BY <1>3 DEF Comparable

-----------------------------------------------------------------------------
(* The runs.                                                               *)

\* A step that gives one run its next record and leaves the venues alone.
RunBecomes(r, q) == /\ run' = [run EXCEPT ![r] = q] /\ q \in Runs
                    /\ PagesInStep(q) /\ RowsInStep(q)
                    /\ UNCHANGED <<venue, changes, runs>>

\* Such a step keeps what holds of all runs.
LEMMA RunsFollow ==
    ASSUME TypeInv, RunsInv, NEW r \in Runners, NEW q, RunBecomes(r, q)
    PROVE  TypeInv' /\ RunsInv'
  <1>1. run' \in [Runners -> Runs]
    BY DEF RunBecomes, TypeInv
  <1>2. \A x \in Runners : run'[x] = IF x = r THEN q ELSE run[x]
    BY DEF RunBecomes, TypeInv
  <1>3. TypeInv'
    BY <1>1 DEF TypeInv, RunBecomes
  <1>4. ASSUME NEW x \in Runners PROVE PagesInStep(run[x])' /\ RowsInStep(run[x])'
    <2>1. PagesInStep(run'[x]) /\ RowsInStep(run'[x])
      BY <1>2 DEF RunBecomes, RunsInv
    <2> QED
      BY <2>1 DEF PagesInStep, RowsInStep, Paging, RunBecomes
  <1> QED
    BY <1>3, <1>4 DEF RunsInv

\* The fields of a run.
LEMMA RunFields ==
    ASSUME TypeInv, RunsInv, NEW r \in Runners
    PROVE  /\ run[r] \in Runs /\ PagesInStep(run[r]) /\ RowsInStep(run[r])
           /\ run[r].id \in Ids /\ run[r].strict \in BOOLEAN /\ run[r].fast \in BOOLEAN
           /\ run[r].cursor \in 0 .. End /\ run[r].most \in 1 .. MaxPages
           /\ run[r].pages \in 0 .. MaxPages - 1 /\ run[r].got \subseteq Row
           /\ run[r].known \subseteq Window /\ run[r].bad \subseteq Providers
           /\ run[r].rows \in [Providers -> Seq(Row)]
  BY DEF TypeInv, RunsInv, Runs

\* Nothing is left of a run that ended or has not begun.
LEMMA RestIsFine ==
    ASSUME NEW q \in Runs, q.pages = 0, q.got = {}, q.pc \in {"idle", "ended", "binance"},
           q.known = {}, \A p \in Providers : q.rows[p] = <<>>, q.verdict # "reconciliation"
    PROVE  PagesInStep(q) /\ RowsInStep(q)
  <1>1. q.pages < q.most
    BY DEF Runs
  <1>2. \A p \in Providers : ToSet(q.rows[p]) = {}
    BY DEF ToSet
  <1> QED
    BY <1>1, <1>2 DEF PagesInStep, RowsInStep, Own

\* The record of a run that has not begun.
LEMMA IdleFields ==
    /\ Idle \in Runs /\ Idle.pages = 0 /\ Idle.got = {} /\ Idle.known = {} /\ Idle.pc = "idle"
    /\ Idle.verdict = "none" /\ \A p \in Providers : Idle.rows[p] = <<>>
  <1>1. 1 \in Ids /\ 0 \in 0 .. End /\ MaxPages \in 1 .. MaxPages /\ 0 \in 0 .. MaxPages - 1
    BY MarketDataAssumption DEF Ids
  <1>2. [p \in Providers |-> <<>>] \in [Providers -> Seq(Row)]
    OBVIOUS
  <1> QED
    BY <1>1, <1>2 DEF Idle, Runs, Verdicts

\* A run that returns or raises.
LEMMA ReturnedIsFine ==
    ASSUME TypeInv, RunsInv, NEW r \in Runners, NEW verdict \in Verdicts \ {"reconciliation"}
    PROVE  /\ Returned(r, verdict) \in Runs /\ PagesInStep(Returned(r, verdict))
           /\ RowsInStep(Returned(r, verdict)) /\ Returned(r, verdict).verdict = verdict
  <1> DEFINE q == Returned(r, verdict)
  <1>1. q \in Runs
    BY IdleFields, RunFields DEF Returned, Runs
  <1>2. /\ q.pages = 0 /\ q.got = {} /\ q.known = {} /\ q.pc = "ended" /\ q.verdict = verdict
        /\ \A p \in Providers : q.rows[p] = <<>>
    BY IdleFields DEF Returned, Runs
  <1>3. PagesInStep(q) /\ RowsInStep(q)
    <2> HIDE DEF q
    <2> QED
      BY <1>1, <1>2, RestIsFine
  <1> QED
    BY <1>1, <1>2, <1>3

\* A provider's collection ends with a dataset of its own rows or in failure;
\* the paged one has all that was listed when it began.
LEMMA AfterIsFine ==
    ASSUME TypeInv, RunsInv, NEW r \in Runners, NEW failed \in BOOLEAN, NEW rows \in Seq(Row),
           run[r].pc \in Providers, Own(rows, run[r].pc),
           run[r].pc = "okx" /\ ~failed => run[r].known \subseteq TimesOf(ToSet(rows))
    PROVE  /\ AfterProvider(r, failed, rows) \in Runs
           /\ PagesInStep(AfterProvider(r, failed, rows))
           /\ RowsInStep(AfterProvider(r, failed, rows))
  <1> DEFINE p == run[r].pc
             mine == IF failed THEN <<>> ELSE rows
             bad == IF failed THEN run[r].bad \cup {p} ELSE run[r].bad
             known == {t \in Window : p = "binance" /\ venue["okx"][t] # "none"} \cup run[r].known
             n == [run[r] EXCEPT !.pc = IF p = "binance" THEN "okx" ELSE "reconcile",
                                 !.rows[p] = mine, !.bad = bad, !.cursor = End, !.pages = 0,
                                 !.got = {}, !.known = known]
  <1>0. /\ run[r] \in Runs /\ PagesInStep(run[r]) /\ RowsInStep(run[r])
        /\ run[r].known \subseteq Window /\ run[r].rows \in [Providers -> Seq(Row)]
        /\ run[r].bad \subseteq Providers /\ run[r].most \in 1 .. MaxPages
    BY RunFields
  <1>1. CASE failed /\ run[r].fast
    <2>1. AfterProvider(r, failed, rows) = Returned(r, "stopped")
      BY <1>1 DEF AfterProvider
    <2> QED
      BY <2>1, ReturnedIsFine DEF Verdicts
  <1>2. CASE ~(failed /\ run[r].fast)
    <2>1. AfterProvider(r, failed, rows) = n
      BY <1>2 DEF AfterProvider
    <2>2. /\ mine \in Seq(Row) /\ Own(mine, p)
          /\ bad \subseteq Providers /\ known \subseteq Window
          /\ 0 \in 0 .. MaxPages - 1 /\ End \in 0 .. End
      BY <1>0, MarketDataAssumption DEF Own, ToSet
    <2>4. /\ p = "binance" => \A t \in known : venue["okx"][t] # "none"
          /\ p = "okx" => known = run[r].known
      BY <1>0 DEF PagesInStep
    <2>5. p = "okx" /\ "okx" \notin bad => known \subseteq TimesOf(ToSet(mine))
      BY <2>4
    <2>6. p \in Providers
      OBVIOUS
    <2> HIDE DEF mine, bad, known, p
    <2>7. /\ n \in Runs
          /\ n.pages = 0 /\ n.got = {} /\ n.most = run[r].most /\ n.cursor = End
          /\ n.known = known /\ n.bad = bad /\ n.verdict = run[r].verdict
          /\ n.pc = (IF p = "binance" THEN "okx" ELSE "reconcile")
      BY <1>0, <2>2, <2>6 DEF Runs
    <2>8. \A x \in Providers : n.rows[x] = IF x = p THEN mine ELSE run[r].rows[x]
      BY <1>0, <2>6 DEF Runs
    <2> HIDE DEF n
    <2>9. PagesInStep(n)
      <3>1. n.pages < n.most
        BY <1>0, <2>7
      <3>2. IsFiniteSet({})
        BY FS_EmptySet
      <3>3. ASSUME p = "binance" PROVE Paging(n)
        <4>1. IsFiniteSet(n.got) /\ OneEach(n.got) /\ \A x \in n.got : FALSE
          BY <2>7, <3>2 DEF OneEach
        <4>2. \A t \in n.known : venue["okx"][t] # "none"
          BY <2>4, <2>7, <3>3
        <4>3. \A t \in n.known : ~(n.cursor <= t)
          <5>1. \A t \in Window : ~(End <= t)
            BY MarketDataAssumption DEF Window
          <5> QED
            BY <2>2, <2>7, <5>1
        <4> QED
          BY <4>1, <4>2, <4>3 DEF Paging
      <3> QED
        BY <2>7, <3>1, <3>3 DEF PagesInStep
    <2>10. RowsInStep(n)
      <3>1. \A x \in Providers : Own(n.rows[x], x)
        BY <1>0, <2>2, <2>8 DEF RowsInStep
      <3>2. n.pc \in {"reconcile", "persist"} => p = "okx"
        BY <2>6, <2>7 DEF Providers
      <3>3. "okx" \in Providers
        BY DEF Providers
      <3> QED
        BY <1>0, <2>5, <2>7, <2>8, <3>1, <3>2, <3>3 DEF RowsInStep
    <2> QED
      BY <2>1, <2>7, <2>9, <2>10
  <1> QED
    BY <1>1, <1>2

\* The rows a response gives: of one provider and query, each time once.
LEMMA RowsGiven ==
    ASSUME TypeInv, NEW p \in Providers, NEW query \in 0 .. End, NEW times \in SUBSET Window,
           \A t \in times : venue[p][t] # "none"
    PROVE  LET rows == {RowOf(p, t, query) : t \in times}
           IN  /\ rows \subseteq Row /\ IsFiniteSet(rows) /\ OneEach(rows)
               /\ TimesOf(rows) = times /\ \A x \in rows : x.provider = p
  <1> DEFINE rows == {RowOf(p, t, query) : t \in times}
             f == [t \in times |-> RowOf(p, t, query)]
  <1>1. \A t \in times : /\ RowOf(p, t, query) \in Row
                         /\ RowOf(p, t, query).time = t /\ RowOf(p, t, query).provider = p
    <2>1. \A t \in times : t \in Times /\ venue[p][t] \in Candles
      BY MarketDataAssumption DEF TypeInv, Window, Times
    <2> QED
      BY <2>1 DEF RowOf, Row
  <1>2. IsFiniteSet(times)
    <2>1. IsFiniteSet(Window)
      BY MarketDataAssumption, FS_Interval DEF Window
    <2> QED
      BY <2>1, FS_Subset
  <1>3. f \in Surjection(times, rows)
    BY DEF Surjection
  <1>4. IsFiniteSet(rows)
    <2> HIDE DEF f, rows
    <2> QED
      BY <1>2, <1>3, FS_Surjection
  <1>5. rows \subseteq Row /\ OneEach(rows) /\ \A x \in rows : x.provider = p
    BY <1>1 DEF OneEach
  <1>6. TimesOf(rows) = times
    <2>1. \A x \in rows : x.time \in times
      BY <1>1
    <2>2. \A t \in times : \E x \in rows : x.time = t
      BY <1>1
    <2> HIDE DEF rows
    <2> QED
      BY <2>1, <2>2 DEF TimesOf
  <1> QED
    BY <1>4, <1>5, <1>6

\* What a page holds: listed rows before the cursor, with each of them every
\* later one, and all of them when it is not full.
LEMMA PageHolds ==
    ASSUME TypeInv, RunsInv, NEW r \in Runners
    PROVE  LET page == Page(r)  older == Listed("okx", 0 .. run[r].cursor - 1)
           IN  /\ page \subseteq older /\ page \subseteq Times
               /\ \A t \in page, u \in older : t < u => u \in page
               /\ Cardinality(page) < PageLimit => page = older
               /\ ~(Cardinality(page) < PageLimit)
                      => Min(page) \in page /\ \A t \in page : Min(page) <= t
  <1> DEFINE page == Page(r)
             older == Listed("okx", 0 .. run[r].cursor - 1)
             Newer(t) == {x \in older : x > t}
  <1>1. run[r].cursor \in 0 .. End /\ End \in Nat /\ PageLimit \in Nat \ {0}
    BY RunFields, MarketDataAssumption
  <1>2. older \subseteq 0 .. run[r].cursor - 1 /\ older \subseteq Times /\ IsFiniteSet(older)
    <2>1. IsFiniteSet(0 .. run[r].cursor - 1)
      <3>1. 0 \in Int /\ run[r].cursor - 1 \in Int
        BY <1>1
      <3> QED
        BY <3>1, FS_Interval
    <2>2. older \in SUBSET (0 .. run[r].cursor - 1)
      BY DEF Listed
    <2>3. IsFiniteSet(older)
      BY <2>1, <2>2, FS_Subset
    <2> QED
      BY <1>1, <2>2, <2>3 DEF Times
  <1>3. page = {t \in older : Cardinality(Newer(t)) < PageLimit}
    BY DEF Page
  <1> HIDE DEF page, older
  <1>4. \A t \in older : t \in Nat
    BY <1>2 DEF Times
  <1>5. ASSUME NEW S, S \subseteq older PROVE IsFiniteSet(S) /\ Cardinality(S) \in Nat
    BY <1>2, <1>5, FS_Subset, FS_CardinalityType
  <1>6. ASSUME NEW t \in page, NEW u \in older, t < u PROVE u \in page
    <2>0. t \in older /\ t \in Nat /\ u \in Nat
      BY <1>3, <1>4
    <2>1. Newer(u) \in SUBSET Newer(t) /\ Newer(t) \subseteq older
      <3>1. \A x \in older : x > u => x > t
        BY <1>4, <1>6, <2>0
      <3>2. Newer(u) \subseteq Newer(t) /\ Newer(t) \subseteq older
        BY <3>1
      <3> QED
        BY <3>2
    <2>2. Cardinality(Newer(u)) <= Cardinality(Newer(t))
      BY <1>5, <2>1, FS_Subset
    <2>3. Cardinality(Newer(u)) \in Nat /\ Cardinality(Newer(t)) \in Nat
      BY <1>5, <2>1
    <2> QED
      BY <1>1, <1>3, <2>2, <2>3
  <1>7. ASSUME Cardinality(page) < PageLimit PROVE page = older
    <2> SUFFICES ASSUME older \ page # {} PROVE FALSE
      BY <1>3
    <2>1. older \ page \in SUBSET (0 .. End)
      <3>1. Times \subseteq 0 .. End
        BY <1>1 DEF Times
      <3> QED
        BY <1>2, <3>1
    <2>2. PICK x \in older \ page : \A y \in older \ page : y <= x
      BY <1>1, <2>1, GreatestNat
    <2>3. Newer(x) \in SUBSET page
      BY <1>4, <2>2
    <2>4. IsFiniteSet(page) /\ Cardinality(page) \in Nat /\ Cardinality(Newer(x)) \in Nat
      BY <1>3, <1>5
    <2>5. Cardinality(Newer(x)) <= Cardinality(page)
      BY <2>3, <2>4, FS_Subset
    <2>6. Cardinality(Newer(x)) < PageLimit
      BY <1>1, <1>7, <2>4, <2>5
    <2> QED
      BY <1>3, <2>2, <2>6
  <1>8. ASSUME ~(Cardinality(page) < PageLimit)
        PROVE  Min(page) \in page /\ \A t \in page : Min(page) <= t
    <2>1. page # {}
      BY <1>1, <1>8, FS_EmptySet
    <2>2. page \in SUBSET Nat
      BY <1>3, <1>4
    <2> QED
      BY <2>1, <2>2, SmallestNat
  <1>9. page \subseteq older /\ page \subseteq Times
    BY <1>2, <1>3
  <1>10. /\ page \subseteq older /\ page \subseteq Times
         /\ \A t \in page, u \in older : t < u => u \in page
         /\ Cardinality(page) < PageLimit => page = older
         /\ ~(Cardinality(page) < PageLimit)
                => Min(page) \in page /\ \A t \in page : Min(page) <= t
    BY <1>6, <1>7, <1>8, <1>9
  <1> QED
    BY <1>10 DEF page, older

\* One page from the venue.
LEMMA BinanceIsFine ==
    ASSUME TypeInv, RunsInv, NEW r \in Runners, CollectBinance(r)
    PROVE  TypeInv' /\ RunsInv'
  <1> DEFINE times == Listed("binance", Window)
             rows == {RowOf("binance", t, 0) : t \in times}
             listed == ByTime(rows)
             page == SubSeq(listed, 1, Min({PageLimit, Len(listed)}))
             Mine == {x \in Row : x.provider = "binance"}
  <1>1. PICK answer \in {page} \cup {Append(page, page[i]) : i \in DOMAIN page} :
            run' = [run EXCEPT ![r] = AfterProvider(r, answer = <<>>, answer)]
    BY DEF CollectBinance
  <1>2. listed \in Seq(Mine)
    <2>1. times \in SUBSET Window /\ \A t \in times : venue["binance"][t] # "none"
      BY DEF Listed
    <2>2. "binance" \in Providers /\ 0 \in 0 .. End
      BY MarketDataAssumption DEF Providers
    <2>3. /\ rows \subseteq Row /\ IsFiniteSet(rows) /\ OneEach(rows)
          /\ \A x \in rows : x.provider = "binance"
      <3> HIDE DEF times
      <3> QED
        BY <2>1, <2>2, RowsGiven
    <2>4. \A x \in rows : x.time \in Nat
      BY <2>3 DEF Row, Times
    <2> HIDE DEF rows
    <2>5. Cardinality(rows) \in Nat /\ ByTime(rows) \in [1 .. Cardinality(rows) -> rows]
      BY <2>3, <2>4, ByTimeLists
    <2>6. rows \subseteq Mine
      BY <2>3
    <2> QED
      BY <2>5, <2>6
  <1> HIDE DEF listed, Mine
  <1>3. page \in Seq(Mine)
    <2>1. Len(listed) \in Nat /\ \A i \in 1 .. Len(listed) : listed[i] \in Mine
      BY <1>2
    <2> DEFINE m == Min({PageLimit, Len(listed)})
    <2>2. m \in {PageLimit, Len(listed)} /\ m <= Len(listed)
      <3>1. {PageLimit, Len(listed)} \in SUBSET Nat /\ {PageLimit, Len(listed)} # {}
        BY <2>1, MarketDataAssumption
      <3> QED
        BY <3>1, SmallestNat
    <2>3. m \in Nat
      BY <2>1, <2>2, MarketDataAssumption
    <2> HIDE DEF m
    <2>4. 1 \in Int /\ m \in Int /\ \A i \in 1 .. m : listed[i] \in Mine
      BY <2>1, <2>2, <2>3
    <2>5. SubSeq(listed, 1, m) \in Seq(Mine)
      BY <2>4, SubSeqProperties
    <2> QED
      BY <2>5 DEF m
  <1> HIDE DEF page
  <1>4. answer \in Seq(Mine)
    BY <1>1, <1>3
  <1>5. answer \in Seq(Row) /\ Own(answer, "binance")
    BY <1>4 DEF Mine, Own, ToSet
  <1> DEFINE q == AfterProvider(r, answer = <<>>, answer)
  <1>6. run[r].pc = "binance" /\ "binance" \in Providers
    BY DEF CollectBinance, Providers
  <1>7. q \in Runs /\ PagesInStep(q) /\ RowsInStep(q)
    BY <1>5, <1>6, AfterIsFine
  <1> HIDE DEF q
  <1>8. RunBecomes(r, q)
    BY <1>1, <1>7 DEF RunBecomes, q, CollectBinance
  <1> QED
    BY <1>8, RunsFollow

\* One more page: what is got so far is as it should be up to the new cursor,
\* and complete with the last page.
LEMMA OkxIsFine ==
    ASSUME TypeInv, RunsInv, NEW r \in Runners, CollectOkx(r)
    PROVE  TypeInv' /\ RunsInv'
  <1> DEFINE page == Page(r)
             older == Listed("okx", 0 .. run[r].cursor - 1)
             times == page \cap Window
             new == {RowOf("okx", t, run[r].cursor) : t \in times}
             got == run[r].got \cup new
             q == run[r]
  <1>0. /\ q \in Runs /\ PagesInStep(q) /\ RowsInStep(q) /\ q.cursor \in 0 .. End
        /\ q.known \subseteq Window /\ q.got \subseteq Row /\ q.pages \in 0 .. MaxPages - 1
        /\ q.most \in 1 .. MaxPages
    BY RunFields
  <1>1. q.pc = "okx" /\ "okx" \in Providers
    BY DEF CollectOkx, Providers
  <1>2. Paging(q)
    BY <1>0, <1>1 DEF PagesInStep
  <1>3. /\ page \subseteq older /\ page \subseteq Times
        /\ \A t \in page, u \in older : t < u => u \in page
        /\ Cardinality(page) < PageLimit => page = older
        /\ ~(Cardinality(page) < PageLimit)
               => Min(page) \in page /\ \A t \in page : Min(page) <= t
    BY PageHolds
  <1>4. /\ \A t \in older : t \in Nat /\ t < q.cursor /\ venue["okx"][t] # "none"
        /\ \A t \in Window : t \in Nat /\ t < q.cursor /\ venue["okx"][t] # "none" => t \in older
    BY <1>0, MarketDataAssumption DEF Listed, Window
  <1> HIDE DEF page, older
  <1>5. /\ new \subseteq Row /\ IsFiniteSet(new) /\ OneEach(new)
        /\ TimesOf(new) = times /\ \A x \in new : x.provider = "okx"
    <2>1. times \in SUBSET Window /\ \A t \in times : venue["okx"][t] # "none"
      BY <1>3, <1>4
    <2> HIDE DEF times
    <2> QED
      BY <1>0, <1>1, <2>1, RowsGiven
  <1>6. \A x \in new : x.time \in page /\ x.time \in Window
    BY <1>5 DEF TimesOf
  <1>7. \A t \in times : \E x \in new : x.time = t
    BY <1>5 DEF TimesOf
  <1> HIDE DEF new, q
  <1>8. /\ got \subseteq Row /\ IsFiniteSet(got) /\ OneEach(got)
        /\ \A x \in got : x.provider = "okx" /\ x.time \in Nat
    <2>1. got \subseteq Row
      BY <1>0, <1>5 DEF q
    <2>2. IsFiniteSet(got)
      BY <1>2, <1>5, FS_Union DEF Paging, q
    <2>3. \A x \in q.got : q.cursor <= x.time /\ x.provider = "okx"
      BY <1>2 DEF Paging
    <2>4. \A x \in new : x.time < q.cursor
      BY <1>3, <1>4, <1>6
    <2>5. \A x \in got : x.time \in Nat
      BY <2>1 DEF Row, Times
    <2>6. OneEach(got)
      <3>1. \A x \in q.got, y \in new : x.time # y.time
        BY <1>0, <2>3, <2>4, <2>5 DEF q
      <3> QED
        BY <1>2, <1>5, <3>1 DEF OneEach, Paging, q
    <2> QED
      BY <1>5, <2>1, <2>2, <2>3, <2>5, <2>6 DEF q
  <1>9. \A t \in q.known : t \in Nat /\ (t \in TimesOf(got) \/ (t \in older /\ t \notin page))
    <2> SUFFICES ASSUME NEW t \in q.known PROVE t \in Nat /\ (t \in TimesOf(got) \/ (t \in older /\ t \notin page))
      OBVIOUS
    <2>1. t \in Window /\ t \in Nat /\ venue["okx"][t] # "none"
      BY <1>0, <1>2, MarketDataAssumption DEF Paging, Window
    <2>2. CASE q.cursor <= t
      BY <1>2, <2>1, <2>2 DEF Paging, TimesOf, q
    <2>3. CASE t < q.cursor
      <3>1. t \in older
        BY <1>4, <2>1, <2>3
      <3>2. t \in page => t \in TimesOf(got)
        BY <1>7, <2>1 DEF TimesOf
      <3> QED
        BY <2>1, <3>1, <3>2
    <2> QED
      BY <1>0, <2>1, <2>2, <2>3
  <1> HIDE DEF got
  <1>10. CASE LastPage(r, page)
    <2> DEFINE failed == got = {}
               rows == ByTime(got)
               n == AfterProvider(r, failed, rows)
    <2>1. run' = [run EXCEPT ![r] = n]
      BY <1>10 DEF CollectOkx, page, got, new, q
    <2>2. /\ Cardinality(got) \in Nat /\ rows \in [1 .. Cardinality(got) -> got]
          /\ ToSet(rows) = got
      BY <1>8, ByTimeLists
    <2>3. rows \in Seq(Row)
      BY <1>8, <2>2
    <2>4. Own(rows, "okx")
      BY <1>8, <2>2 DEF Own
    <2>5. q.known \subseteq TimesOf(got)
      <3> SUFFICES ASSUME NEW t \in q.known, t \in older, t \notin page PROVE FALSE
        BY <1>9
      <3>1. PICK u \in page : u <= Start
        BY <1>3, <1>10 DEF LastPage
      <3>2. t \in Window /\ u \in Nat /\ u \in older
        BY <1>0, <1>3, <1>4
      <3>3. u < t \/ u = t
        BY <3>1, <3>2, MarketDataAssumption DEF Window
      <3> QED
        BY <1>3, <3>1, <3>3
    <2> HIDE DEF rows, failed
    <2>6. failed \in BOOLEAN
      BY DEF failed
    <2>7. n \in Runs /\ PagesInStep(n) /\ RowsInStep(n)
      BY <1>1, <2>2, <2>3, <2>4, <2>5, <2>6, AfterIsFine DEF q
    <2> HIDE DEF n
    <2>8. RunBecomes(r, n)
      BY <2>1, <2>7 DEF RunBecomes, CollectOkx
    <2> QED
      BY <2>8, RunsFollow
  <1>11. CASE ~LastPage(r, page) /\ q.pages + 1 = q.most
    <2> DEFINE n == AfterProvider(r, TRUE, <<>>)
    <2>1. run' = [run EXCEPT ![r] = n]
      BY <1>11 DEF CollectOkx, page, q
    <2>2. <<>> \in Seq(Row) /\ Own(<<>>, "okx")
      BY DEF Own, ToSet
    <2>3. n \in Runs /\ PagesInStep(n) /\ RowsInStep(n)
      BY <1>1, <2>2, AfterIsFine DEF q
    <2> HIDE DEF n
    <2>4. RunBecomes(r, n)
      BY <2>1, <2>3 DEF RunBecomes, CollectOkx
    <2> QED
      BY <2>4, RunsFollow
  <1>12. CASE ~LastPage(r, page) /\ q.pages + 1 # q.most
    <2> DEFINE low == Min(page)
               n == [run[r] EXCEPT !.got = got, !.cursor = low, !.pages = @ + 1]
    <2>1. run' = [run EXCEPT ![r] = n]
      BY <1>12 DEF CollectOkx, page, got, new, q, TypeInv
    <2>2. low \in page /\ (\A t \in page : low <= t) /\ low \in older /\ low < q.cursor
      BY <1>3, <1>4, <1>12 DEF LastPage
    <2>3. low \in 0 .. End /\ low \in Nat
      <3>1. low \in Nat /\ low < q.cursor /\ q.cursor \in 0 .. End /\ End \in Nat
        BY <1>0, <1>4, <2>2, MarketDataAssumption
      <3> QED
        BY <3>1
    <2>4. q.pages + 1 \in 0 .. MaxPages - 1 /\ q.pages + 1 < q.most
      BY <1>0, <1>12, MarketDataAssumption DEF PagesInStep
    <2> HIDE DEF low
    <2>5. /\ n \in Runs /\ n.got = got /\ n.cursor = low /\ n.pages = q.pages + 1
          /\ n.most = q.most /\ n.pc = q.pc /\ n.known = q.known /\ n.rows = q.rows
          /\ n.bad = q.bad /\ n.verdict = q.verdict
      BY <1>0, <1>8, <2>3, <2>4 DEF Runs, q
    <2> HIDE DEF n
    <2>6. Paging(n)
      <3>1. \A x \in got : low <= x.time
        <4>1. \A x \in q.got : q.cursor <= x.time
          BY <1>2 DEF Paging
        <4> QED
          BY <1>0, <1>6, <1>8, <2>2, <2>3, <4>1 DEF got, q
      <3>2. \A t \in q.known : low <= t => t \in TimesOf(got)
        <4> SUFFICES ASSUME NEW t \in q.known, low <= t, t \in older, t \notin page PROVE FALSE
          BY <1>9
        <4>1. low < t
          BY <1>4, <2>2, <2>3
        <4> QED
          BY <1>3, <2>2, <4>1
      <3> QED
        BY <1>2, <1>8, <2>5, <3>1, <3>2 DEF Paging
    <2>7. PagesInStep(n) /\ RowsInStep(n)
      BY <1>0, <1>1, <2>4, <2>5, <2>6 DEF PagesInStep, RowsInStep
    <2>8. RunBecomes(r, n)
      BY <2>1, <2>5, <2>7 DEF RunBecomes, CollectOkx
    <2> QED
      BY <2>8, RunsFollow
  <1> QED
    BY <1>10, <1>11, <1>12

\* Every other step of a run, and its beginning.
LEMMA OtherRunSteps ==
    ASSUME TypeInv, RunsInv, NEW r \in Runners
    PROVE  /\ CollectionFails(r) => TypeInv' /\ RunsInv'
           /\ Reconcile(r) => TypeInv' /\ RunsInv'
           /\ Persist(r) \/ PersistFails(r) => TypeInv' /\ RunsInv'
           /\ \A id \in 1 .. runs + 1, most \in 1 .. MaxPages, fast \in BOOLEAN :
                 Begin(r, id, most, fast) => TypeInv' /\ RunsInv'
  <1> DEFINE q == run[r]
  <1>0. q \in Runs /\ PagesInStep(q) /\ RowsInStep(q)
    BY RunFields
  <1>1. Verdict(r) \in Verdicts \ {"reconciliation"}
    BY DEF Verdict, Verdicts
  <1>2. ASSUME NEW verdict \in Verdicts \ {"reconciliation"},
               run' = [run EXCEPT ![r] = Returned(r, verdict)], UNCHANGED <<venue, changes, runs>>
        PROVE  TypeInv' /\ RunsInv'
    <2>1. RunBecomes(r, Returned(r, verdict))
      BY <1>2, ReturnedIsFine DEF RunBecomes
    <2> QED
      BY <2>1, RunsFollow
  <1>3. CollectionFails(r) => TypeInv' /\ RunsInv'
    <2> SUFFICES ASSUME CollectionFails(r) PROVE TypeInv' /\ RunsInv'
      OBVIOUS
    <2> DEFINE n == AfterProvider(r, TRUE, <<>>)
    <2>1. <<>> \in Seq(Row) /\ \A p : Own(<<>>, p)
      BY DEF Own, ToSet
    <2>2. n \in Runs /\ PagesInStep(n) /\ RowsInStep(n)
      BY <2>1, AfterIsFine DEF CollectionFails
    <2> HIDE DEF n
    <2>3. RunBecomes(r, n)
      BY <2>2 DEF RunBecomes, CollectionFails, n
    <2> QED
      BY <2>3, RunsFollow
  <1>4. Reconcile(r) => TypeInv' /\ RunsInv'
    <2> SUFFICES ASSUME Reconcile(r) PROVE TypeInv' /\ RunsInv'
      OBVIOUS
    <2>1. \A p \in Providers : Comparable(r, p)
      BY AlwaysComparable
    <2>2. CASE run' = [run EXCEPT ![r] = Returned(r, Verdict(r))]
      BY <1>1, <1>2, <2>2 DEF Reconcile
    <2>3. CASE run' = [run EXCEPT ![r].pc = "persist"]
      <3> DEFINE n == [q EXCEPT !.pc = "persist"]
      <3>1. n \in Runs /\ PagesInStep(n) /\ RowsInStep(n)
        <4>1. /\ n \in Runs /\ n.pc = "persist" /\ n.pages = q.pages /\ n.most = q.most
              /\ n.got = q.got /\ n.known = q.known /\ n.rows = q.rows /\ n.bad = q.bad
              /\ n.verdict = q.verdict
          BY <1>0 DEF Runs
        <4> HIDE DEF n
        <4> QED
          BY <1>0, <4>1 DEF PagesInStep, RowsInStep, Reconcile
      <3> HIDE DEF n
      <3>2. RunBecomes(r, n)
        BY <2>3, <3>1 DEF RunBecomes, Reconcile, n, TypeInv
      <3> QED
        BY <3>2, RunsFollow
    <2> QED
      BY <2>1, <2>2, <2>3 DEF Reconcile
  <1>5. Persist(r) \/ PersistFails(r) => TypeInv' /\ RunsInv'
    BY <1>1, <1>2 DEF Persist, PersistFails, Verdicts
  <1>6. ASSUME NEW id \in 1 .. runs + 1, NEW most \in 1 .. MaxPages, NEW fast \in BOOLEAN,
               Begin(r, id, most, fast)
        PROVE  TypeInv' /\ RunsInv'
    <2> DEFINE n == [Idle EXCEPT !.pc = "binance", !.id = id, !.strict = q.strict,
                                 !.most = most, !.fast = fast]
    <2>1. runs' \in 0 .. MaxRuns /\ id \in Ids
      BY <1>6, MarketDataAssumption DEF Begin, TypeInv, Ids
    <2>2. q.strict \in BOOLEAN
      BY <1>0 DEF Runs
    <2>3. /\ n \in Runs /\ n.pages = 0 /\ n.got = {} /\ n.known = {} /\ n.pc = "binance"
          /\ n.verdict = "none" /\ \A p \in Providers : n.rows[p] = <<>>
      BY <2>1, <2>2, IdleFields DEF Runs
    <2>4. run' = [run EXCEPT ![r] = n]
      BY <1>6 DEF Begin
    <2> HIDE DEF n
    <2>5. PagesInStep(n) /\ RowsInStep(n)
      BY <2>3, RestIsFine
    <2>6. run' \in [Runners -> Runs] /\ \A x \in Runners : run'[x] = IF x = r THEN n ELSE run[x]
      BY <2>3, <2>4 DEF TypeInv
    <2>7. TypeInv'
      BY <1>6, <2>1, <2>6 DEF TypeInv, Begin
    <2>8. \A x \in Runners : PagesInStep(run[x])' /\ RowsInStep(run[x])'
      <3>1. \A x \in Runners : PagesInStep(run'[x]) /\ RowsInStep(run'[x])
        BY <2>5, <2>6 DEF RunsInv
      <3> QED
        BY <1>6, <3>1 DEF PagesInStep, RowsInStep, Paging, Begin
    <2> QED
      BY <2>7, <2>8 DEF RunsInv
  <1> QED
    BY <1>3, <1>4, <1>5, <1>6

\* What a venue publishes or corrects in the meantime loses no listed candle.
LEMMA VenueKeepsRuns ==
    ASSUME TypeInv, RunsInv, NEW p \in Providers, NEW t \in Window, NEW value \in Candles,
           VenueChanges(p, t, value)
    PROVE  TypeInv' /\ RunsInv'
  <1>1. t \in Times
    BY MarketDataAssumption DEF Window, Times
  <1>2. venue' \in [Providers -> [Times -> Candles \cup {"none"}]]
    BY <1>1 DEF VenueChanges, TypeInv
  <1>3. \A u : venue["okx"][u] # "none" /\ u \in Times => venue'["okx"][u] # "none"
    BY <1>1 DEF VenueChanges, TypeInv, Providers, Candles
  <1>4. changes' \in 0 .. MaxChanges
    BY MarketDataAssumption DEF VenueChanges, TypeInv
  <1>5. TypeInv'
    BY <1>2, <1>4 DEF TypeInv, VenueChanges
  <1>6. ASSUME NEW x \in Runners PROVE PagesInStep(run[x])' /\ RowsInStep(run[x])'
    <2>1. PagesInStep(run[x]) /\ RowsInStep(run[x]) /\ run[x].known \subseteq Times
      BY RunFields, MarketDataAssumption DEF Window, Times
    <2>2. run'[x] = run[x]
      BY DEF VenueChanges
    <2>3. Paging(run[x]) => Paging(run[x])'
      BY <1>3, <2>1, <2>2 DEF Paging
    <2> QED
      BY <2>1, <2>2, <2>3 DEF PagesInStep, RowsInStep
  <1> QED
    BY <1>5, <1>6 DEF RunsInv

-----------------------------------------------------------------------------
(* The store.                                                              *)

\* A larger store covers what it covered.
LEMMA StillCovered ==
    ASSUME NEW s, NEW t, NEW rep, Covered(rep, s),
           s.raw \subseteq t.raw, s.quarantine \subseteq t.quarantine, s.bars \subseteq t.bars
    PROVE  Covered(rep, t)
  BY DEF Covered

\* The quarantine entries of one provider of a run.
Entries(r, p) == {[id |-> run[r].id, row |-> q[1], reason |-> q[2]] :
                    q \in Quarantined(run[r].rows[p], run[r].strict)}

\* The report of a provider that did not fail, and the rows it accepts.
LEMMA ProviderAdds ==
    ASSUME TypeInv, RunsInv, NEW r \in Runners, NEW p \in Saved(r)
    PROVE  /\ Report(r, p) \in Reports /\ Report(r, p).id = run[r].id
           /\ Report(r, p).provider = p /\ Report(r, p).rows = run[r].rows[p]
           /\ RefusedBy(Report(r, p)) = FailedRows(run[r].rows[p], run[r].strict)
           /\ RefusedBy(Report(r, p)) \subseteq ToSet(run[r].rows[p])
           /\ Own(run[r].rows[p], p) /\ ToSet(run[r].rows[p]) \subseteq Row
           /\ AcceptedRows(r, p) = ToSet(run[r].rows[p]) \ RefusedBy(Report(r, p))
  <1>1. /\ run[r].rows[p] \in Seq(Row) /\ run[r].id \in Ids /\ run[r].strict \in BOOLEAN
        /\ p \in Providers /\ p \notin run[r].bad /\ Own(run[r].rows[p], p)
    BY RunFields DEF Saved, RowsInStep
  <1>2. /\ Report(r, p) \in Reports /\ Report(r, p).id = run[r].id
        /\ Report(r, p).provider = p /\ Report(r, p).rows = run[r].rows[p]
        /\ Report(r, p).strict = run[r].strict
    BY <1>1 DEF Report, Reports
  <1>3. RefusedBy(Report(r, p)) = FailedRows(run[r].rows[p], run[r].strict)
    BY <1>2 DEF RefusedBy
  <1>4. RefusedBy(Report(r, p)) \subseteq ToSet(run[r].rows[p])
    BY <1>1, <1>3, Refused
  <1>5. ToSet(run[r].rows[p]) \subseteq Row
    BY <1>1 DEF ToSet
  <1>6. AcceptedRows(r, p) = ToSet(run[r].rows[p]) \ RefusedBy(Report(r, p))
    BY <1>1, <1>3 DEF AcceptedRows, Accepted, Gate, ToSet
  <1> QED
    BY <1>1, <1>2, <1>3, <1>4, <1>5, <1>6

\* The bars a provider adds are rows its report accepted, at most one a time.
LEMMA BarsAdded ==
    ASSUME TypeInv, RunsInv, NEW r \in Runners, NEW p \in Saved(r)
    PROVE  /\ \A bar \in NewBars(r, p) : bar \in Bars /\ AcceptedBy(bar, Report(r, p))
           /\ \A row \in AcceptedRows(r, p) :
                 \E bar \in NewBars(r, p) \cup store.bars :
                    bar.provider = row.provider /\ bar.time = row.time
  <1> DEFINE rep == Report(r, p)
             bar(row) == [provider |-> p, time |-> row.time, value |-> row.value,
                          query |-> row.query, report |-> run[r].id]
  <1>1. /\ p \in Providers /\ run[r].id \in Ids
    BY RunFields DEF Saved
  <1>2. /\ rep.id = run[r].id /\ rep.provider = p /\ rep.rows = run[r].rows[p]
        /\ Own(run[r].rows[p], p) /\ ToSet(run[r].rows[p]) \subseteq Row
        /\ AcceptedRows(r, p) = ToSet(run[r].rows[p]) \ RefusedBy(rep)
    BY ProviderAdds
  <1> HIDE DEF rep
  <1>3. ASSUME NEW row \in AcceptedRows(r, p)
        PROVE  /\ bar(row) \in Bars /\ AcceptedBy(bar(row), rep)
               /\ bar(row).provider = row.provider /\ bar(row).time = row.time
    <2>1. row \in Row /\ row.provider = p /\ row \in ToSet(rep.rows) /\ row \notin RefusedBy(rep)
      BY <1>2 DEF Own
    <2>2. BarRow(bar(row)) = row
      BY <2>1 DEF BarRow, Row
    <2>3. bar(row) \in Bars
      BY <1>1, <2>1 DEF Bars, Row
    <2> QED
      BY <1>2, <2>1, <2>2, <2>3 DEF AcceptedBy
  <1>4. NewBars(r, p) = {bar(row) : row \in {x \in AcceptedRows(r, p) :
                           ~\E b \in store.bars : b.provider = p /\ b.time = x.time}}
    BY DEF NewBars
  <1>5. \A row \in AcceptedRows(r, p) : row.provider = p
    BY <1>2 DEF Own
  <1> HIDE DEF bar
  <1>6. \A b \in NewBars(r, p) : \E row \in AcceptedRows(r, p) : b = bar(row)
    BY <1>4
  <1>7. \A b \in NewBars(r, p) : b \in Bars /\ AcceptedBy(b, rep)
    BY <1>3, <1>6
  <1>8. ASSUME NEW row \in AcceptedRows(r, p)
        PROVE  \E b \in NewBars(r, p) \cup store.bars :
                  b.provider = row.provider /\ b.time = row.time
    <2>1. CASE \E b \in store.bars : b.provider = p /\ b.time = row.time
      BY <1>5, <2>1
    <2>2. CASE ~\E b \in store.bars : b.provider = p /\ b.time = row.time
      <3>1. bar(row) \in NewBars(r, p)
        BY <1>4, <2>2
      <3> QED
        BY <1>3, <3>1
    <2> QED
      BY <2>1, <2>2
  <1> QED
    BY <1>7, <1>8 DEF rep

\* The quarantine entries a provider adds are rows its report refused, all of
\* them.
LEMMA EntriesAdded ==
    ASSUME TypeInv, RunsInv, NEW r \in Runners, NEW p \in Saved(r)
    PROVE  /\ \A q \in Entries(r, p) : q \in Quarantines /\ QuarantinedBy(q, Report(r, p))
           /\ \A row \in RefusedBy(Report(r, p)) :
                 \E q \in Entries(r, p) : q.id = run[r].id /\ q.row = row
  <1> DEFINE rep == Report(r, p)
             rows == run[r].rows[p]
             entry(q) == [id |-> run[r].id, row |-> q[1], reason |-> q[2]]
  <1>1. /\ rep.id = run[r].id /\ rep.provider = p /\ Own(rows, p) /\ ToSet(rows) \subseteq Row
        /\ RefusedBy(rep) = FailedRows(rows, run[r].strict)
        /\ RefusedBy(rep) \subseteq ToSet(rows)
    BY ProviderAdds
  <1>2. rows \in Seq(Row) /\ run[r].id \in Ids
    BY RunFields DEF Saved
  <1> HIDE DEF rep, rows
  <1>3. /\ \A q \in Quarantined(rows, run[r].strict) : q[1] \in RefusedBy(rep) /\ q[2] \in Reasons
        /\ \A row \in RefusedBy(rep) : \E q \in Quarantined(rows, run[r].strict) : q[1] = row
    BY <1>1, <1>2, QuarantineNames
  <1>4. ASSUME NEW q, q[1] \in RefusedBy(rep), q[2] \in Reasons
        PROVE  /\ entry(q) \in Quarantines /\ QuarantinedBy(entry(q), rep)
               /\ entry(q).id = run[r].id /\ entry(q).row = q[1]
    <2>1. q[1] \in Row /\ q[1].provider = p
      BY <1>1, <1>4 DEF Own
    <2> QED
      BY <1>1, <1>2, <1>4, <2>1 DEF Quarantines, QuarantinedBy
  <1>5. Entries(r, p) = {entry(q) : q \in Quarantined(rows, run[r].strict)}
    BY DEF Entries, rows
  <1> HIDE DEF entry
  <1>6. \A q \in Entries(r, p) : q \in Quarantines /\ QuarantinedBy(q, rep)
    BY <1>3, <1>4, <1>5
  <1>7. \A row \in RefusedBy(rep) : \E q \in Entries(r, p) : q.id = run[r].id /\ q.row = row
    BY <1>3, <1>4, <1>5
  <1> QED
    BY <1>6, <1>7 DEF rep

\* A run's rows as raw observations.
LEMMA RawAdded ==
    ASSUME TypeInv, RunsInv, NEW r \in Runners
    PROVE  /\ Raw(r) \subseteq [id : Ids, row : Row]
           /\ \A p \in Saved(r) : \A row \in ToSet(run[r].rows[p]) :
                 [id |-> run[r].id, row |-> row] \in {x \in Raw(r) : x.row.provider \in Saved(r)}
  <1>1. run[r].id \in Ids
    BY RunFields
  <1>2. \A p \in Saved(r) : Own(run[r].rows[p], p) /\ ToSet(run[r].rows[p]) \subseteq Row
    BY ProviderAdds
  <1> QED
    BY <1>1, <1>2 DEF Raw, Own

\* A transaction without conflict leaves a sound store.
LEMMA WrittenIsFine ==
    ASSUME TypeInv, RunsInv, StoreInv(store), NEW r \in Runners, ~ReportConflict(r)
    PROVE  StoreInv(Written(r, Saved(r)))
  <1> DEFINE S == Saved(r)
             t == Written(r, S)
             new == {Report(r, p) : p \in S}
  <1>1. /\ t.raw = store.raw \cup {x \in Raw(r) : x.row.provider \in S}
        /\ t.reports = store.reports \cup new
        /\ t.bars = store.bars \cup UNION {NewBars(r, p) : p \in S}
        /\ t.quarantine = store.quarantine \cup UNION {Entries(r, p) : p \in S}
    BY DEF Written, Entries
  <1>2. StoreType(store) /\ ReportsInStep(store) /\ BarsInStep(store)
    BY DEF StoreInv
  <1>3. \A p \in S : Report(r, p) \in Reports /\ Report(r, p) \in t.reports
    BY <1>1, ProviderAdds
  <1> HIDE DEF t, S
  <1>4. StoreType(t)
    <2>1. t.raw \subseteq [id : Ids, row : Row]
      BY <1>1, <1>2, RawAdded DEF StoreType
    <2>2. t.reports \subseteq Reports
      BY <1>1, <1>2, <1>3 DEF StoreType
    <2>3. t.bars \subseteq Bars
      BY <1>1, <1>2, BarsAdded DEF StoreType, S
    <2>4. t.quarantine \subseteq Quarantines
      BY <1>1, <1>2, EntriesAdded DEF StoreType, S
    <2> QED
      BY <2>1, <2>2, <2>3, <2>4 DEF StoreType
  <1>5. ASSUME NEW p \in S PROVE Covered(Report(r, p), t)
    <2> DEFINE rep == Report(r, p)
               rows == run[r].rows[p]
    <2>1. /\ rep.id = run[r].id /\ rep.provider = p /\ rep.rows = rows /\ Own(rows, p)
          /\ AcceptedRows(r, p) = ToSet(rows) \ RefusedBy(rep)
      BY <1>5, ProviderAdds DEF S
    <2>2. \A row \in ToSet(rows) : [id |-> run[r].id, row |-> row] \in t.raw
      BY <1>1, <1>5, RawAdded DEF S
    <2>3. \A row \in RefusedBy(rep) : \E q \in t.quarantine : q.id = run[r].id /\ q.row = row
      <3>1. Entries(r, p) \subseteq t.quarantine
        BY <1>1, <1>5
      <3> QED
        BY <1>5, <3>1, EntriesAdded DEF S
    <2>4. \A row \in AcceptedRows(r, p) :
              \E bar \in t.bars : bar.provider = row.provider /\ bar.time = row.time
      <3>1. NewBars(r, p) \cup store.bars \subseteq t.bars
        BY <1>1, <1>5
      <3> QED
        BY <1>5, <3>1, BarsAdded DEF S
    <2> HIDE DEF rep, rows
    <2>5. Covered(rep, t)
      BY <2>1, <2>2, <2>3, <2>4 DEF Covered
    <2> QED
      BY <2>5 DEF rep
  <1>6. ReportsInStep(t)
    <2>1. \A rep \in t.reports : Covered(rep, t)
      <3>1. \A rep \in store.reports : Covered(rep, t)
        BY <1>1, <1>2, StillCovered DEF ReportsInStep
      <3> QED
        BY <1>1, <1>5, <3>1
    <2>2. ASSUME NEW p \in S, NEW old \in store.reports, old.id = Report(r, p).id,
                 old.provider = Report(r, p).provider
          PROVE  old = Report(r, p)
      <3>1. old.id = run[r].id /\ old.provider = p
        BY <2>2, ProviderAdds DEF S
      <3> QED
        BY <2>2, <3>1 DEF ReportConflict, S
    <2>3. \A p, x \in S : Report(r, p).provider = Report(r, x).provider => p = x
      BY ProviderAdds DEF S
    <2>4. \A rep, old \in t.reports :
             rep.id = old.id /\ rep.provider = old.provider => rep = old
      BY <1>1, <1>2, <2>2, <2>3 DEF ReportsInStep
    <2> QED
      BY <2>1, <2>4 DEF ReportsInStep
  <1>7. BarsInStep(t)
    <2>1. \A bar \in t.bars : \E rep \in t.reports : AcceptedBy(bar, rep)
      <3>1. \A p \in S : \A bar \in NewBars(r, p) : AcceptedBy(bar, Report(r, p))
        BY BarsAdded DEF S
      <3> QED
        BY <1>1, <1>2, <1>3, <3>1 DEF BarsInStep
    <2>2. \A q \in t.quarantine : \E rep \in t.reports : QuarantinedBy(q, rep)
      <3>1. \A p \in S : \A q \in Entries(r, p) : QuarantinedBy(q, Report(r, p))
        BY EntriesAdded DEF S
      <3> QED
        BY <1>1, <1>2, <1>3, <3>1 DEF BarsInStep
    <2> QED
      BY <2>1, <2>2 DEF BarsInStep
  <1>8. StoreInv(t)
    BY <1>4, <1>6, <1>7 DEF StoreInv
  <1> QED
    BY <1>8 DEF t, S

\* The invariant holds at first,
LEMMA InitIInv == Init => IInv
  <1> SUFFICES ASSUME Init PROVE IInv
    OBVIOUS
  <1>1. PICK strict \in BOOLEAN : run = [r \in Runners |-> [Idle EXCEPT !.strict = strict]]
    BY DEF Init
  <1> DEFINE n == [Idle EXCEPT !.strict = strict]
  <1>2. /\ n \in Runs /\ n.pages = 0 /\ n.got = {} /\ n.known = {} /\ n.pc = "idle"
        /\ n.verdict = "none" /\ \A p \in Providers : n.rows[p] = <<>>
    BY IdleFields DEF Runs
  <1>3. \A r \in Runners : run[r] = n
    BY <1>1
  <1>4. run \in [Runners -> Runs]
    BY <1>1, <1>2
  <1> HIDE DEF n
  <1>5. RunsInv
    BY <1>2, <1>3, RestIsFine DEF RunsInv
  <1>6. venue \in [Providers -> [Times -> Candles \cup {"none"}]]
    BY DEF Init, Candles
  <1>7. TypeInv
    BY <1>4, <1>6, MarketDataAssumption DEF Init, TypeInv
  <1>8. StoreInv(store)
    BY DEF Init, EmptyStore, StoreInv, StoreType, ReportsInStep, BarsInStep
  <1> QED
    BY <1>5, <1>7, <1>8 DEF IInv

\* Only a run that persists changes the store.
LEMMA StoreFollows ==
    ASSUME IInv, [Next]_vars, store' # store
    PROVE  \E r \in Runners :
              /\ Persist(r) /\ run[r].pc = "persist" /\ ~ReportConflict(r)
              /\ store' = Written(r, Saved(r)) /\ run' = [run EXCEPT ![r] = Returned(r, Verdict(r))]
  <1>1. UNCHANGED vars => store' = store
    BY DEF vars
  <1>2. \A r \in Runners : CollectionFails(r) \/ CollectBinance(r) \/ CollectOkx(r)
                              \/ Reconcile(r) \/ PersistFails(r) => store' = store
    BY DEF CollectionFails, CollectBinance, CollectOkx, Reconcile, PersistFails
  <1>3. \A r \in Runners, id \in 1 .. runs + 1, most \in 1 .. MaxPages, fast \in BOOLEAN :
            Begin(r, id, most, fast) => store' = store
    BY DEF Begin
  <1>4. \A p \in Providers, t \in Window, value \in Candles :
            VenueChanges(p, t, value) => store' = store
    BY DEF VenueChanges
  <1>5. PICK r \in Runners : Persist(r)
    BY <1>1, <1>2, <1>3, <1>4 DEF Next, Step
  <1> QED
    BY <1>5 DEF Persist

\* every step keeps it,
LEMMA NextIInv == IInv /\ [Next]_vars => IInv'
  <1> SUFFICES ASSUME IInv, [Next]_vars PROVE IInv'
    OBVIOUS
  <1>0. TypeInv /\ RunsInv /\ StoreInv(store)
    BY DEF IInv
  <1>1. TypeInv' /\ RunsInv'
    <2>1. ASSUME NEW r \in Runners, Step(r) PROVE TypeInv' /\ RunsInv'
      BY <1>0, <2>1, BinanceIsFine, OkxIsFine, OtherRunSteps DEF Step
    <2>2. ASSUME NEW r \in Runners, NEW id \in 1 .. runs + 1, NEW most \in 1 .. MaxPages,
                 NEW fast \in BOOLEAN, Begin(r, id, most, fast)
          PROVE  TypeInv' /\ RunsInv'
      BY <1>0, <2>2, OtherRunSteps
    <2>3. ASSUME NEW p \in Providers, NEW t \in Window, NEW value \in Candles,
                 VenueChanges(p, t, value)
          PROVE  TypeInv' /\ RunsInv'
      BY <1>0, <2>3, VenueKeepsRuns
    <2>4. CASE UNCHANGED vars
      BY <1>0, <2>4 DEF vars, TypeInv, RunsInv, PagesInStep, RowsInStep, Paging
    <2> QED
      BY <2>1, <2>2, <2>3, <2>4 DEF Next
  <1>2. StoreInv(store')
    <2>1. CASE store' = store
      BY <1>0, <2>1
    <2>2. CASE store' # store
      BY <1>0, <2>2, StoreFollows, WrittenIsFine
    <2> QED
      BY <2>1, <2>2
  <1>3. StoreInv(store)'
    BY <1>2 DEF StoreInv, StoreType, ReportsInStep, BarsInStep, Covered, AcceptedBy, QuarantinedBy
  <1> QED
    BY <1>1, <1>3 DEF IInv

\* and so it always holds.
LEMMA SpecIInv == Spec => []IInv
  BY InitIInv, NextIInv, PTL DEF Spec

-----------------------------------------------------------------------------
(* The theorems.                                                           *)

\* For any number of runners, any window and any page limit: every stored bar
\* can be traced to a raw observation and a report that accepted it and
\* quarantined nothing of it, no malformed or unfinished candle is validated,
\* and no observation a report covers is lost (OhlcvPipeline._persist).
THEOREM StoreIsSound == Spec => []StoreSound
  <1>1. IInv => StoredSound
    <2> SUFFICES ASSUME IInv, NEW bar \in store.bars
                 PROVE  /\ [id |-> bar.report, row |-> BarRow(bar)] \in store.raw
                        /\ \E report \in store.reports :
                              /\ report.id = bar.report /\ report.provider = bar.provider
                              /\ BarRow(bar) \in ToSet(report.rows)
                        /\ \A q \in store.quarantine : q.id = bar.report => q.row # BarRow(bar)
                        /\ bar.value # "broken"
                        /\ bar.value = "forming" => bar.provider = "binance"
      BY DEF StoredSound
    <2>1. StoreType(store) /\ ReportsInStep(store) /\ BarsInStep(store)
      BY DEF IInv, StoreInv
    <2>2. PICK rep \in store.reports : AcceptedBy(bar, rep)
      BY <2>1 DEF BarsInStep
    <2>3. Covered(rep, store) /\ rep \in Reports /\ bar \in Bars
      BY <2>1 DEF ReportsInStep, StoreType
    <2>4. [id |-> bar.report, row |-> BarRow(bar)] \in store.raw
      BY <2>2, <2>3 DEF Covered, AcceptedBy
    <2>5. ASSUME NEW q \in store.quarantine, q.id = bar.report, q.row = BarRow(bar)
          PROVE  FALSE
      <3>1. PICK old \in store.reports : QuarantinedBy(q, old)
        BY <2>1 DEF BarsInStep
      <3>2. old.id = rep.id /\ old.provider = rep.provider
        BY <2>2, <2>5, <3>1 DEF AcceptedBy, QuarantinedBy, BarRow
      <3>3. old = rep
        BY <2>1, <3>2 DEF ReportsInStep
      <3> QED
        BY <2>2, <2>5, <3>1, <3>3 DEF AcceptedBy, QuarantinedBy
    <2>6. bar.value # "broken" /\ (bar.value = "forming" => bar.provider = "binance")
      <3>1. PICK i \in DOMAIN rep.rows : rep.rows[i] = BarRow(bar)
        BY <2>2 DEF AcceptedBy, ToSet
      <3>2. rep.rows \in Seq(Row)
        BY <2>3 DEF Reports
      <3>3. i \notin Invalid(rep.rows) /\ i \notin Partial(rep.rows)
        BY <2>2, <3>1, <3>2, Refused DEF AcceptedBy, RefusedBy
      <3>4. rep.rows[i].value = bar.value /\ rep.rows[i].provider = bar.provider
        BY <3>1 DEF BarRow
      <3> QED
        BY <2>3, <3>3, <3>4 DEF Invalid, Partial, Bars, Providers
    <2> QED
      BY <2>2, <2>4, <2>5, <2>6 DEF AcceptedBy
  <1>2. IInv => NothingLost
    BY DEF IInv, StoreInv, ReportsInStep, Covered, NothingLost
  <1> QED
    BY <1>1, <1>2, SpecIInv, PTL DEF StoreSound

\* For any number of runners, any window, page limit and number of pages: a
\* paged collection that returns has every candle the venue listed when it
\* began, whatever the venue publishes in between, and the reconciler never
\* refuses what the gate lets through (OkxPublicOhlcvProvider.fetch_ohlcv).
THEOREM RunsAreSound == Spec => []RunsSound
  <1>1. IInv => TypeOK
    <2> SUFFICES ASSUME IInv PROVE TypeOK
      OBVIOUS
    <2>1. TypeInv /\ RunsInv /\ StoreType(store)
      BY DEF IInv, StoreInv
    <2>2. ASSUME NEW r \in Runners
          PROVE  /\ run[r].pc \in {"idle", "binance", "okx", "reconcile", "persist", "ended"}
                 /\ run[r].id \in Ids /\ run[r].verdict \in Verdicts
                 /\ run[r].bad \subseteq Providers
                 /\ run[r].pages \in 0 .. MaxPages - 1 /\ run[r].cursor \in 0 .. End
                 /\ run[r].got \subseteq Row /\ (run[r].got # {} => run[r].pc = "okx")
                 /\ \A p \in Providers : ToSet(run[r].rows[p]) \subseteq Row
      <3>1. run[r] \in Runs /\ (run[r].got # {} => run[r].pc = "okx")
        BY <2>1 DEF TypeInv, RunsInv, PagesInStep
      <3>2. \A p \in Providers : run[r].rows[p] \in Seq(Row)
        BY <3>1 DEF Runs
      <3> QED
        BY <3>1, <3>2 DEF Runs, ToSet
    <2> QED
      BY <2>1, <2>2 DEF TypeOK, TypeInv, StoreType, Quarantines
  <1>2. IInv => PagesComplete
    BY DEF IInv, RunsInv, RowsInStep, PagesComplete, TimesOf
  <1>3. IInv => NeverRefused
    BY DEF IInv, RunsInv, RowsInStep, NeverRefused
  <1> QED
    BY <1>1, <1>2, <1>3, SpecIInv, PTL DEF RunsSound
=============================================================================
