------------------------------- MODULE Shadow --------------------------------
(* The shadow runtime (live/shadow_runtime.py) and its PostgreSQL store          *)
(* (live/shadow_repository.py).  A runner reads the market, from a fixture or    *)
(* with at most two public requests, decides with the guarded live policy, and   *)
(* stores one evidence bundle per run id in one transaction.  Runners share run   *)
(* ids, crash at any point and try again; a committed bundle is evidence.         *)
EXTENDS Naturals, FiniteSets, Sequences

CONSTANTS Runners, Nobody,
          RunIds,         \* shadow_run_id values
          Fixtures,       \* inputs of the fixture catalogue, see Input
          PublicFaults,   \* what a public market payload can be refused for
          MaxTries        \* bound: attempts of one runner

VARIABLES
  rows,      \* [RunIds -> committed row of audit.run_manifests, or NoRow]
  pending,   \* [RunIds -> the runner whose transaction inserted the row, or Nobody]
  run,       \* [Runners -> the state of one attempt]
  sent,      \* [Runners -> requests that left the process in this attempt]
  sources,   \* public source instances made so far: each has an id of its own
  answers    \* [RunIds -> how many attempts were answered "persisted"]

vars == <<rows, pending, run, sent, sources, answers>>

ASSUME ShadowAssumption == Nobody \notin Runners /\ MaxTries \in Nat

----------------------------------------------------------------------------
(* The decision: pure functions of the input.                                  *)

\* The checks of _market_validation_blockers, _account_validation_blockers and
\* _request_validation_blockers, in the order the functions make them.
MarketChecks ==
  <<"failure_kind", "metadata_present", "response_complete", "provider_code",
    "response_rows", "conflicting_sources", "replayed", "cached",
    "fixture_declared_operational", "operational_declared_fixture",
    "instrument_delisted", "instrument_not_live", "wrong_instrument_type",
    "market_price_not_finite", "bid_must_be_positive", "ask_must_be_positive",
    "market_price_must_be_positive", "crossed_bid_ask", "timestamp_malformed",
    "maximum_clock_skew", "public_market_future_timestamp", "stale_market_data">>

AccountChecks ==
  <<"malformed_account_snapshot", "conflicting_account_classification",
    "synthetic_permission_not_trade_enabled", "negative_synthetic_balance",
    "wrong_settlement_asset", "synthetic_derivative_exposure",
    "synthetic_short_position", "duplicate_synthetic_position",
    "excessive_reserved_notional">>

RequestChecks ==
  <<"quantity_not_finite", "quantity_must_be_positive", "instrument_not_allowed",
    "only_limit_orders_allowed", "quantity_below_minimum_after_rounding",
    "quantity_above_maximum_after_rounding">>

Names(checks) == {checks[i] : i \in DOMAIN checks}

\* An input: what each group of checks would find wrong with it, the reasons
\* evaluate_live_risk would give, and whether the balance covers the reservation.
Inputs == [market : SUBSET Names(MarketChecks), account : SUBSET Names(AccountChecks),
           request : SUBSET Names(RequestChecks), risk : SUBSET {"risk"}, short : BOOLEAN]

\* Each group stops at its first failing check.
FirstOf(checks, faults) ==
  {checks[i] : i \in {j \in DOMAIN checks :
                        checks[j] \in faults /\ \A k \in 1..(j - 1) : checks[k] \notin faults}}

MarketBlockers(input)  == FirstOf(MarketChecks, input.market)
AccountBlockers(input) == FirstOf(AccountChecks, input.account)
\* The request is looked at only beside a usable market snapshot.
RequestBlockers(input) ==
  IF MarketBlockers(input) # {} THEN {} ELSE FirstOf(RequestChecks, input.request)

PreflightBlockers(input) ==
  MarketBlockers(input) \cup AccountBlockers(input) \cup RequestBlockers(input)

\* Reservation and balance are looked at after the risk evaluation, whatever it said.
PolicyBlockers(input) ==
  input.risk \cup (IF input.short THEN {"insufficient_balance"} ELSE {})

\* Mutant of Outcome: an approved manifest is accepted whatever the risk says.
OutcomeApproved(input) ==
  LET pre == PreflightBlockers(input) IN
  [blockers |-> pre, intent |-> pre = {}, accepted |-> pre = {}]

\* Blocked by the preflight: no approval, no manifest, no intent.
BlockedOutcome(blockers) == [blockers |-> blockers, intent |-> FALSE, accepted |-> FALSE]

\* An approved manifest and an intent that the policy accepts or blocks, and that
\* is never submitted.
PolicyOutcome(blockers) ==
  [blockers |-> blockers, intent |-> TRUE, accepted |-> blockers = {}]

Outcome(input) ==
  IF PreflightBlockers(input) # {} THEN BlockedOutcome(PreflightBlockers(input))
                                   ELSE PolicyOutcome(PolicyBlockers(input))

\* The catalogue holds inputs, one of them clean; a public payload is refused for
\* its market part only; and an attempt is made under some run id.
ASSUME InputsAssumption ==
  /\ Fixtures \subseteq Inputs /\ \E f \in Fixtures : Outcome(f).accepted
  /\ PublicFaults \subseteq SUBSET Names(MarketChecks)
  /\ RunIds # {}

----------------------------------------------------------------------------
(* Bundles.                                                                    *)

Endpoints == 2   \* GET instruments, then GET history-trades

FixtureProvenance == [class |-> "fixture", reads |-> 0, source |-> 0]

\* What a decision hash binds: the input, the outcome, the provenance of the data.
Decision(input, provenance) ==
  [input |-> input, outcome |-> Outcome(input), provenance |-> provenance]

NoDecision == [input |-> CHOOSE f \in Fixtures : TRUE,
               outcome |-> [blockers |-> {}, intent |-> FALSE, accepted |-> FALSE],
               provenance |-> [class |-> "none", reads |-> 0, source |-> 0]]

NoRow == [status |-> "none", decision |-> NoDecision]

CleanFixture == CHOOSE f \in Fixtures : Outcome(f).accepted

Idle == [pc |-> "idle", id |-> CHOOSE i \in RunIds : TRUE, source |-> 0, reads |-> 0,
         decision |-> NoDecision, answer |-> "none", tries |-> 0]

Init ==
  /\ rows = [i \in RunIds |-> NoRow]
  /\ pending = [i \in RunIds |-> Nobody]
  /\ run = [r \in Runners |-> Idle]
  /\ sent = [r \in Runners |-> 0]
  /\ sources = 0
  /\ answers = [i \in RunIds |-> 0]

Ended == {"idle", "answered", "dead"}

----------------------------------------------------------------------------
(* One attempt.                                                                *)

\* run_fixture: no network; the decision is a function of the fixture.
RunFixture(r, i, input) ==
  /\ run[r].pc \in Ended /\ run[r].tries < MaxTries
  /\ run' = [run EXCEPT ![r] =
       [Idle EXCEPT !.pc = "decided", !.id = i, !.tries = run[r].tries + 1,
                    !.decision = Decision(input, FixtureProvenance)]]
  /\ sent' = [sent EXCEPT ![r] = 0]
  /\ UNCHANGED <<rows, pending, sources, answers>>

\* run_public with a source of its own: its instance id is random.
RunPublic(r, i) ==
  /\ run[r].pc \in Ended /\ run[r].tries < MaxTries
  /\ sources' = sources + 1
  /\ run' = [run EXCEPT ![r] =
       [Idle EXCEPT !.pc = "loading", !.id = i, !.tries = run[r].tries + 1,
                    !.source = sources + 1]]
  /\ sent' = [sent EXCEPT ![r] = 0]
  /\ UNCHANGED <<rows, pending, answers>>

\* _CountingPublicTransport.send: counted before it leaves.
Counted(reads) == reads + 1

\* A request that raises ends the load with the failure kind and the count so far.
SendFails(r) ==
  /\ run[r].pc = "loading" /\ run[r].reads < Endpoints
  /\ LET input == [CleanFixture EXCEPT !.market = {"failure_kind"}]
         reads == Counted(run[r].reads) IN
     /\ run' = [run EXCEPT ![r].pc = "decided", ![r].reads = reads,
                ![r].decision = Decision(input, [class |-> "unavailable", reads |-> reads,
                                                 source |-> run[r].source])]
     /\ sent' = [sent EXCEPT ![r] = @ + 1]
  /\ UNCHANGED <<rows, pending, sources, answers>>

SendAnswers(r) ==
  /\ run[r].pc = "loading" /\ run[r].reads < Endpoints
  /\ run' = [run EXCEPT ![r].reads = Counted(@)]
  /\ sent' = [sent EXCEPT ![r] = @ + 1]
  /\ UNCHANGED <<rows, pending, sources, answers>>

\* Not exactly one instrument, or no trade: a malformed answer that was counted.
AnswerUnusable(r) ==
  /\ run[r].pc = "loading" /\ run[r].reads \in 1..Endpoints
  /\ LET input == [CleanFixture EXCEPT !.market = {"failure_kind"}] IN
     run' = [run EXCEPT ![r].pc = "decided",
             ![r].decision = Decision(input, [class |-> "unavailable", reads |-> run[r].reads,
                                              source |-> run[r].source])]
  /\ UNCHANGED <<rows, pending, sent, sources, answers>>

\* Both answers are in: the payload goes through the same checks as a fixture's.
PublicDecides(r, faults) ==
  /\ run[r].pc = "loading" /\ run[r].reads = Endpoints
  /\ LET input == [CleanFixture EXCEPT !.market = faults] IN
     run' = [run EXCEPT ![r].pc = "decided",
             ![r].decision = Decision(input, [class |-> "public_network", reads |-> Endpoints,
                                              source |-> run[r].source])]
  /\ UNCHANGED <<rows, pending, sent, sources, answers>>

----------------------------------------------------------------------------
(* persist_bundle.                                                             *)

\* Mutant of MayInsert: the other transaction's uncommitted row is not waited for.
MayInsertAtOnce(i) == rows[i] = NoRow

\* INSERT ... ON CONFLICT DO NOTHING waits for a transaction that holds the key.
MayInsert(i) == rows[i] = NoRow /\ pending[i] = Nobody

Insert(r) ==
  /\ run[r].pc = "decided" /\ MayInsert(run[r].id)
  /\ pending' = [pending EXCEPT ![run[r].id] = r]
  /\ run' = [run EXCEPT ![r].pc = "preparing"]
  /\ UNCHANGED <<rows, sent, sources, answers>>

\* The stored bundle hash is compared with the one of the own bundle.
SameBundle(a, b) == a = b

\* The row is there: the same bundle is a replay, any other a conflict.
FindExisting(r) ==
  /\ run[r].pc = "decided" /\ rows[run[r].id] # NoRow
  /\ run' = [run EXCEPT ![r].pc = "answered",
             ![r].answer = IF SameBundle(rows[run[r].id].decision, run[r].decision)
                             THEN "idempotent_replay" ELSE "conflict"]
  /\ UNCHANGED <<rows, pending, sent, sources, answers>>

\* The UPDATE to the complete bundle, still inside the transaction.
Finalize(r) ==
  /\ run[r].pc = "preparing"
  /\ run' = [run EXCEPT ![r].pc = "final"]
  /\ UNCHANGED <<rows, pending, sent, sources, answers>>

CommitFrom == {"final"}

Commit(r) ==
  /\ run[r].pc \in CommitFrom
  /\ rows' = [rows EXCEPT ![run[r].id] =
       [status |-> IF run[r].pc = "final" THEN "complete" ELSE "preparing",
        decision |-> run[r].decision]]
  /\ pending' = [pending EXCEPT ![run[r].id] = Nobody]
  /\ run' = [run EXCEPT ![r].pc = "committed"]
  /\ UNCHANGED <<sent, sources, answers>>

Respond(r) ==
  /\ run[r].pc = "committed"
  /\ run' = [run EXCEPT ![r].pc = "answered", ![r].answer = "persisted"]
  /\ answers' = [answers EXCEPT ![run[r].id] = @ + 1]
  /\ UNCHANGED <<rows, pending, sent, sources>>

\* Mutant of Released: the transaction of a dead runner is not rolled back.
NotReleased(r) == pending

Released(r) == [i \in RunIds |-> IF pending[i] = r THEN Nobody ELSE pending[i]]

\* The process dies at any of its crash points, before, in and after the transaction.
Crash(r) ==
  /\ run[r].pc \notin Ended
  /\ run' = [run EXCEPT ![r] = [Idle EXCEPT !.pc = "dead", !.tries = run[r].tries]]
  /\ pending' = Released(r)
  /\ UNCHANGED <<rows, sent, sources, answers>>

\* An exception in a live process is answered: "failed" is all a caller learns,
\* also when the bundle was already committed.
Fail(r) ==
  /\ run[r].pc \in {"decided", "preparing", "final", "committed"}
  /\ run' = [run EXCEPT ![r].pc = "answered", ![r].answer = "failed"]
  /\ pending' = Released(r)
  /\ UNCHANGED <<rows, sent, sources, answers>>

----------------------------------------------------------------------------
Progress(r) ==
  \/ SendFails(r) \/ SendAnswers(r) \/ AnswerUnusable(r)
  \/ \E f \in PublicFaults : PublicDecides(r, f)
  \/ Insert(r) \/ FindExisting(r) \/ Finalize(r) \/ Commit(r) \/ Respond(r)

Next ==
  \E r \in Runners :
    \/ \E i \in RunIds : RunPublic(r, i) \/ \E f \in Fixtures : RunFixture(r, i, f)
    \/ Progress(r) \/ Crash(r) \/ Fail(r)

Spec == Init /\ [][Next]_vars

\* A process that is alive goes on.
FairSpec == Spec /\ \A r \in Runners : WF_vars(Progress(r))

----------------------------------------------------------------------------
Decisions == {run[r].decision : r \in Runners} \cup {rows[i].decision : i \in RunIds}

TypeOK ==
  /\ \A i \in RunIds : rows[i].status \in {"none", "complete"} /\ answers[i] \in Nat
  /\ pending \in [RunIds -> Runners \cup {Nobody}]
  /\ \A r \in Runners : /\ run[r].reads \in 0..Endpoints /\ run[r].tries \in 0..MaxTries
                        /\ run[r].pc \in Ended \cup {"loading", "decided", "preparing",
                                                     "final", "committed"}
  /\ \A d \in Decisions : d.input \in Inputs

\* A committed bundle is evidence: it is complete from its first commit on and no
\* retry, replay, conflict or crash of anyone ever changes it.
EvidenceImmutable ==
  [][\A i \in RunIds : rows[i] # NoRow => rows'[i] = rows[i]]_rows

\* What a caller was told is what is stored: after "persisted" or
\* "idempotent_replay" the run id holds exactly the bundle of that attempt, its
\* provenance included.
AnswerIsStored ==
  \A r \in Runners :
    run[r].pc = "answered" /\ run[r].answer \in {"persisted", "idempotent_replay"}
      => rows[run[r].id] = [status |-> "complete", decision |-> run[r].decision]

\* However many runners race for a run id, one of them at most is told that it
\* persisted the bundle.
OnePersister == \A i \in RunIds : answers[i] <= 1

\* Stored public evidence reports every request that left the process that stored
\* it, and an accepted decision from the network had both of its answers.
ReadsAccounted ==
  /\ \A r \in Runners :
       run[r].pc \in {"decided", "preparing", "final", "committed", "answered"}
         => run[r].decision.provenance.reads = sent[r]
  /\ \A i \in RunIds :
       LET d == rows[i].decision IN
       d.outcome.accepted /\ d.provenance.class # "fixture" => d.provenance.reads = Endpoints

\* An accepted decision is one nothing was wrong with, in any of the groups of
\* checks: no group hides what a later one would have refused.
AcceptedIsClean ==
  \A i \in RunIds :
    LET d == rows[i].decision IN
    d.outcome.accepted =>
      d.input.market \cup d.input.account \cup d.input.request \cup d.input.risk = {}
      /\ ~d.input.short

\* What is stored, what callers were told and what was read agree, and nothing is
\* accepted that a check would have refused.
EvidenceSound ==
  TypeOK /\ AnswerIsStored /\ OnePersister /\ ReadsAccounted /\ AcceptedIsClean

\* An attempt that is under way is answered or dies: a runner that waits for
\* another's uncommitted row is never left waiting.
EveryAttemptEnds ==
  \A r \in Runners : run[r].pc \notin Ended ~> run[r].pc \in Ended
=============================================================================
