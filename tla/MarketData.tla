----------------------------- MODULE MarketData -----------------------------
(***************************************************************************)
(* The public OHLCV pipeline: collection of one window of candles from two *)
(* venues (OKX page by page, Binance in one page), validation of each      *)
(* dataset, the gate, cross-source reconciliation and one database         *)
(* transaction.  Runners collect the same window while the venues          *)
(* publish, close and correct candles.  The venues are external.           *)
(***************************************************************************)
EXTENDS Integers, Sequences, FiniteSets, SequencesExt, FiniteSetsExt

CONSTANTS Runners,     \* processes that run the pipeline
          Start, End,  \* the half-open window [Start, End) of candle times
          PageLimit,   \* rows per page (request.limit)
          MaxPages,    \* the largest request.max_pages
          MaxChanges,  \* bound: candles the venues publish or correct
          MaxRuns      \* bound: pipeline runs

ASSUME MarketDataAssumption ==
    /\ Start \in Nat /\ End \in Nat /\ Start < End
    /\ PageLimit \in Nat \ {0} /\ MaxPages \in Nat \ {0}
    /\ MaxChanges \in Nat /\ MaxRuns \in Nat \ {0}

VARIABLES venue,       \* provider -> time -> the candle it lists
          changes, runs,
          run,         \* the pipeline run of each runner
          store        \* the database

vars == <<venue, changes, runs, run, store>>

Providers == {"binance", "okx"}
Ids       == 1 .. MaxRuns    \* collection and validation run ids
Times     == 0 .. End - 1
Window    == Start .. End - 1
\* a closed candle at one of two prices, one whose high is below its low, and
\* one still forming; only OKX says which candles are final
Candles   == {"p1", "p2", "broken", "forming"}
Row       == [provider : Providers, time : Times, value : Candles, query : 0 .. End]
Verdicts  == {"none", "succeeded", "partial", "failed", "stopped",
              "reconciliation", "persistence"}
Reasons   == {"missing", "duplicated", "backward", "invalid", "partial"}

Idle == [pc |-> "idle", id |-> 1, strict |-> FALSE, fast |-> FALSE,
         cursor |-> 0, most |-> MaxPages, pages |-> 0, got |-> {}, known |-> {},
         rows |-> [p \in Providers |-> <<>>], bad |-> {}, verdict |-> "none"]

EmptyStore == [raw |-> {}, reports |-> {}, bars |-> {}, quarantine |-> {}, compared |-> {}]

(***************************************************************************)
(* The checks of one dataset: the positions each of them flags.            *)
(***************************************************************************)
\* rows of different times in the order of their times: the i-th has i - 1 before it
Before(rows, row) == {x \in rows : x.time < row.time}
ByTime(rows) == [i \in 1 .. Cardinality(rows) |->
                   CHOOSE row \in rows : Cardinality(Before(rows, row)) = i - 1]

Gaps(rows) ==
    LET times == {rows[i].time : i \in DOMAIN rows}
    IN  \E a, b \in times : a + 1 < b /\ \A t \in a + 1 .. b - 1 : t \notin times

Missing(rows) == IF Gaps(rows) THEN DOMAIN rows ELSE {}

Duplicated(rows) ==
    {i \in DOMAIN rows : \E j \in DOMAIN rows \ {i} : rows[j].time = rows[i].time}

Backward(rows) ==
    UNION {{i, i + 1} : i \in {k \in 1 .. Len(rows) - 1 : rows[k + 1].time < rows[k].time}}

Invalid(rows) == {i \in DOMAIN rows : rows[i].value = "broken"}

Partial(rows) ==
    {i \in DOMAIN rows : rows[i].value = "forming" /\ rows[i].provider = "okx"}

\* the checks whose findings reject records, in their fixed order; a gap is a
\* warning unless the configuration says reject, and then it fails every bar
Failing(rows, strict) ==
    << <<"missing", IF strict THEN Missing(rows) ELSE {}>>, <<"duplicated", Duplicated(rows)>>,
       <<"backward", Backward(rows)>>, <<"invalid", Invalid(rows)>>, <<"partial", Partial(rows)>> >>

\* findings name observations: the id of an observation is its run and its content
Affected(rows, check) == {rows[i] : i \in check[2]}

FailedRows(rows, strict) ==
    UNION {Affected(rows, Failing(rows, strict)[k]) : k \in DOMAIN Failing(rows, strict)}

\* the positions whose bars the gate lets through
Gate(rows, strict) ==
    LET failed == FailedRows(rows, strict)
    IN  {i \in DOMAIN rows : rows[i] \notin failed}

\* quarantine written for the first failed check only
QuarantineFirstCheck(rows, strict) ==
    LET checks == Failing(rows, strict)
        found  == {k \in DOMAIN checks : checks[k][2] # {}}
    IN  IF found = {} THEN {}
        ELSE {<<row, checks[Min(found)][1]>> : row \in Affected(rows, checks[Min(found)])}

\* every failed observation with the first check that failed it
Quarantined(rows, strict) ==
    LET checks == Failing(rows, strict)
        First(row) == Min({k \in DOMAIN checks : row \in Affected(rows, checks[k])})
    IN  {<<row, checks[First(row)][1]>> : row \in FailedRows(rows, strict)}

(***************************************************************************)
(* A run: its providers in name order, then reconciliation and storage.    *)
(***************************************************************************)
Accepted(r, p) == IF p \in run[r].bad THEN {} ELSE Gate(run[r].rows[p], run[r].strict)

AcceptedRows(r, p) == {run[r].rows[p][i] : i \in Accepted(r, p)}

Eligible(r) == {p \in Providers : Accepted(r, p) # {}}

\* the times at which two providers disagree or only one has a bar
Differences(left, right) ==
    {t \in Window : \E v \in Candles :
        (\E row \in left : row.time = t /\ row.value = v)
            # (\E row \in right : row.time = t /\ row.value = v)}

Verdict(r) ==
    CASE Eligible(r) = {} -> "failed"
      [] /\ Eligible(r) = Providers
         /\ \A p \in Providers : Accepted(r, p) = DOMAIN run[r].rows[p] -> "succeeded"
      [] OTHER -> "partial"

\* a run under new ids, or under those of an earlier run
Begin(r, id, most, fast) ==
    /\ run[r].pc \in {"idle", "ended"}
    /\ runs < MaxRuns
    /\ runs' = runs + 1
    /\ run' = [run EXCEPT ![r] =
                 [Idle EXCEPT !.pc = "binance", !.id = id, !.strict = run[r].strict,
                              !.most = most, !.fast = fast]]
    /\ UNCHANGED <<venue, changes, store>>

\* what is left of a run that returned or raised
Returned(r, verdict) ==
    [Idle EXCEPT !.pc = "ended", !.id = run[r].id, !.strict = run[r].strict, !.verdict = verdict]

AfterProvider(r, failed, rows) ==
    LET p == run[r].pc
    IN  IF failed /\ run[r].fast
        THEN Returned(r, "stopped")
        ELSE [run[r] EXCEPT
                !.pc = IF p = "binance" THEN "okx" ELSE "reconcile",
                !.rows[p] = IF failed THEN <<>> ELSE rows,
                !.bad = IF failed THEN @ \cup {p} ELSE @,
                !.cursor = End, !.pages = 0, !.got = {},
                !.known = {t \in Window : p = "binance" /\ venue["okx"][t] # "none"} \cup run[r].known]

Listed(p, times) == {t \in times : venue[p][t] # "none"}

RowOf(p, t, query) == [provider |-> p, time |-> t, value |-> venue[p][t], query |-> query]

\* the transport fails, or the response cannot be decoded or parsed
CollectionFails(r) ==
    /\ run[r].pc \in Providers
    /\ run' = [run EXCEPT ![r] = AfterProvider(r, TRUE, <<>>)]
    /\ UNCHANGED <<venue, changes, runs, store>>

\* one page from the start of the window; the venue may repeat a row, in or
\* out of order, which only validation notices
CollectBinance(r) ==
    LET listed == ByTime({RowOf("binance", t, 0) : t \in Listed("binance", Window)})
        page   == SubSeq(listed, 1, Min({PageLimit, Len(listed)}))
    IN  /\ run[r].pc = "binance"
        /\ \E answer \in {page} \cup {Append(page, page[i]) : i \in DOMAIN page} :
              run' = [run EXCEPT ![r] = AfterProvider(r, answer = <<>>, answer)]
        /\ UNCHANGED <<venue, changes, runs, store>>

\* a page that is the last one allowed ends the collection, whatever is left
LastPageAlways(r, page) ==
    \/ Cardinality(page) < PageLimit
    \/ \E t \in page : t <= Start
    \/ run[r].pages + 1 = run[r].most

LastPage(r, page) == Cardinality(page) < PageLimit \/ \E t \in page : t <= Start

\* the newest rows before the cursor, back to the start of the window
Page(r) ==
    LET older == Listed("okx", 0 .. run[r].cursor - 1)
    IN  {t \in older : Cardinality({u \in older : u > t}) < PageLimit}

CollectOkx(r) ==
    LET page == Page(r)
        got  == run[r].got
                  \cup {RowOf("okx", t, run[r].cursor) : t \in page \cap Window}
    IN  /\ run[r].pc = "okx"
        /\ \/ /\ LastPage(r, page)
              /\ run' = [run EXCEPT ![r] = AfterProvider(r, got = {}, ByTime(got))]
           \/ /\ ~LastPage(r, page)
              /\ run' = IF run[r].pages + 1 = run[r].most
                        THEN [run EXCEPT ![r] = AfterProvider(r, TRUE, <<>>)]
                        ELSE [run EXCEPT ![r].got = got, ![r].cursor = Min(page),
                                         ![r].pages = @ + 1]
        /\ UNCHANGED <<venue, changes, runs, store>>

\* two datasets with the same time twice are refused by the reconciler
Comparable(r, p) == \A i, j \in Accepted(r, p) :
                       run[r].rows[p][i].time = run[r].rows[p][j].time => i = j

Reconcile(r) ==
    /\ run[r].pc = "reconcile"
    /\ IF Eligible(r) = Providers /\ \E p \in Providers : ~Comparable(r, p)
       THEN run' = [run EXCEPT ![r] = Returned(r, "reconciliation")]
       ELSE \/ run' = [run EXCEPT ![r].pc = "persist"]
            \/ run' = [run EXCEPT ![r] = Returned(r, Verdict(r))]  \* persistence disabled
    /\ UNCHANGED <<venue, changes, runs, store>>

(***************************************************************************)
(* One transaction stores the providers that did not fail.                 *)
(***************************************************************************)
Saved(r) == Providers \ run[r].bad

Raw(r) == {[id |-> run[r].id, row |-> row] :
             row \in UNION {ToSet(run[r].rows[p]) : p \in Saved(r)}}

\* an observation of another run has the same content: source_sha256 is unique
RawConflict(r) == \E old \in store.raw, new \in Raw(r) : old.row = new.row /\ old.id # new.id

Report(r, p) == [id |-> run[r].id, provider |-> p, rows |-> run[r].rows[p],
                 strict |-> run[r].strict]

\* the report of this run id and dataset is stored with another content
ReportConflict(r) ==
    \E p \in Saved(r), old \in store.reports :
        old.id = run[r].id /\ old.provider = p /\ old # Report(r, p)

\* bars keep the row stored first for their time
NewBars(r, p) ==
    {[provider |-> p, time |-> row.time, value |-> row.value, query |-> row.query,
      report |-> run[r].id] :
        row \in {x \in AcceptedRows(r, p) :
                   ~\E bar \in store.bars : bar.provider = p /\ bar.time = x.time}}

Written(r, providers) ==
    [raw        |-> store.raw \cup {x \in Raw(r) : x.row.provider \in providers},
     reports    |-> store.reports \cup {Report(r, p) : p \in providers},
     bars       |-> store.bars \cup UNION {NewBars(r, p) : p \in providers},
     quarantine |-> store.quarantine
                      \cup UNION {{[id |-> run[r].id, row |-> q[1], reason |-> q[2]] :
                                     q \in Quarantined(run[r].rows[p], run[r].strict)} :
                                     p \in providers},
     compared   |-> store.compared
                      \cup (IF Eligible(r) = Providers
                            THEN {[id |-> run[r].id,
                                   rows |-> [p \in Providers |-> AcceptedRows(r, p)],
                                   differ |-> Differences(AcceptedRows(r, "binance"),
                                                          AcceptedRows(r, "okx"))]}
                            ELSE {})]

Persist(r) ==
    /\ run[r].pc = "persist"
    /\ IF RawConflict(r) \/ ReportConflict(r)
       THEN /\ run' = [run EXCEPT ![r] = Returned(r, "persistence")]
            /\ UNCHANGED store
       ELSE /\ run' = [run EXCEPT ![r] = Returned(r, Verdict(r))]
            /\ store' = Written(r, Saved(r))
    /\ UNCHANGED <<venue, changes, runs>>

\* the database fails at some statement of the transaction
PersistFails(r) ==
    /\ run[r].pc = "persist"
    /\ run' = [run EXCEPT ![r] = Returned(r, "persistence")]
    /\ UNCHANGED <<venue, store, changes, runs>>

\* a venue lists a candle late, closes one, or corrects one
VenueChanges(p, t, value) ==
    /\ changes < MaxChanges
    /\ venue[p][t] # value
    /\ changes' = changes + 1
    /\ venue' = [venue EXCEPT ![p][t] = value]
    /\ UNCHANGED <<runs, run, store>>

Init ==
    /\ \E late \in 0 .. End :
         venue = [p \in Providers |->
                    [t \in Times |-> IF t = late /\ p = "okx" THEN "none" ELSE "p1"]]
    /\ changes = 0 /\ runs = 0
    /\ \E strict \in BOOLEAN : run = [r \in Runners |-> [Idle EXCEPT !.strict = strict]]
    /\ store = EmptyStore

Step(r) == CollectionFails(r) \/ CollectBinance(r) \/ CollectOkx(r)
             \/ Reconcile(r) \/ Persist(r) \/ PersistFails(r)

Next ==
    \/ \E r \in Runners : Step(r)
    \/ \E r \in Runners, id \in 1 .. runs + 1, most \in 1 .. MaxPages, fast \in BOOLEAN :
          Begin(r, id, most, fast)
    \/ \E p \in Providers, t \in Window, value \in Candles : VenueChanges(p, t, value)

Spec == Init /\ [][Next]_vars

-----------------------------------------------------------------------------
(***************************************************************************)
(* Properties                                                              *)
(***************************************************************************)
\* Every variable has its type, and rows wait only in a collection of pages.
TypeOK ==
    /\ venue \in [Providers -> [Times -> Candles \cup {"none"}]]
    /\ changes \in 0 .. MaxChanges /\ runs \in 0 .. MaxRuns
    /\ \A r \in Runners :
         /\ run[r].pc \in {"idle", "binance", "okx", "reconcile", "persist", "ended"}
         /\ run[r].id \in Ids /\ run[r].verdict \in Verdicts /\ run[r].bad \subseteq Providers
         /\ run[r].pages \in 0 .. MaxPages - 1 /\ run[r].cursor \in 0 .. End
         /\ run[r].got \subseteq Row /\ (run[r].got # {} => run[r].pc = "okx")
         /\ \A p \in Providers : ToSet(run[r].rows[p]) \subseteq Row
    /\ store.raw \subseteq [id : Ids, row : Row]
    /\ store.quarantine \subseteq [id : Ids, row : Row, reason : Reasons]

BarRow(bar) == [provider |-> bar.provider, time |-> bar.time, value |-> bar.value,
                query |-> bar.query]

\* A stored bar can be traced to its raw observation and to the report that
\* accepted it, that report quarantined nothing of it, and no malformed candle
\* and none that OKX says is still forming is ever stored as validated.
StoredSound ==
    \A bar \in store.bars :
        /\ [id |-> bar.report, row |-> BarRow(bar)] \in store.raw
        /\ \E report \in store.reports :
              /\ report.id = bar.report /\ report.provider = bar.provider
              /\ BarRow(bar) \in ToSet(report.rows)
        /\ \A q \in store.quarantine : q.id = bar.report => q.row # BarRow(bar)
        /\ bar.value # "broken"
        /\ bar.value = "forming" => bar.provider = "binance"

\* Nothing a stored report covers is lost: each of its observations is stored
\* raw and is either quarantined under it or has a validated bar at its time.
NothingLost ==
    \A report \in store.reports : \A row \in ToSet(report.rows) :
        /\ [id |-> report.id, row |-> row] \in store.raw
        /\ \/ \E q \in store.quarantine : q.id = report.id /\ q.row = row
           \/ \E bar \in store.bars : bar.provider = row.provider /\ bar.time = row.time

\* The paged collection skips nothing: when it returns, every candle of the
\* window that the venue listed when it began is among its observations, though
\* the venue went on publishing between the pages.
PagesComplete ==
    \A r \in Runners :
        run[r].pc \in {"reconcile", "persist"} /\ "okx" \notin run[r].bad
            => run[r].known \subseteq {row.time : row \in ToSet(run[r].rows["okx"])}

\* What the gate lets through is always what the reconciler can compare: a
\* run never fails because a dataset has two bars for a time.
NeverRefused == \A r \in Runners : run[r].verdict # "reconciliation"

\* The store accounts for every observation.
StoreSound == StoredSound /\ NothingLost

\* A run works on what it collected, all of it and each candle once.
RunsSound == TypeOK /\ PagesComplete /\ NeverRefused
=============================================================================
