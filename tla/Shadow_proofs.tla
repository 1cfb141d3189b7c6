---------------------------- MODULE Shadow_proofs ----------------------------
(***************************************************************************)
(* The evidence of the shadow runtime, for any number of runners, run ids, *)
(* fixtures, public faults and attempts: EvidenceSound and                 *)
(* EvidenceImmutable.                                                      *)
(*                                                                         *)
(* EvidenceSound is not inductive: it does not say who may commit, nor     *)
(* that a runner between its commit and its answer still finds its own     *)
(* bundle.  IInv adds                                                      *)
(*   Typed      every record has its type and every decision is one that   *)
(*              Decision makes from an input;                              *)
(*   HoldsOne   the transaction that inserted a row is that of the one     *)
(*              runner that is about to commit it;                         *)
(*   Stored     a committed or confirmed bundle is the stored one;         *)
(*   Persisters a run id has one persister, who was answered or will be;   *)
(*   Reads      a runner knows how many of its requests left the process.  *)
(***************************************************************************)
EXTENDS Shadow, WellFoundedInduction, TLAPS

Provenances == [class : {"fixture", "unavailable", "public_network"},
                reads : 0 .. Endpoints, source : Nat]

\* What a runner decides with, and what stands where nothing is decided.
Basis ==
  {b \in Inputs \X Provenances :
     /\ b[2].class = "unavailable" => ~Outcome(b[1]).accepted
     /\ b[2].class = "public_network" => b[2].reads = Endpoints}
Evidence == {NoDecision} \cup {Decision(b[1], b[2]) : b \in Basis}

InTransaction == {"preparing", "final"}
Active  == {"loading", "decided", "preparing", "final", "committed"}
Answers == {"none", "persisted", "idempotent_replay", "conflict", "failed"}

Complete(d) == [status |-> "complete", decision |-> d]
Rows == {NoRow} \cup [status : {"complete"}, decision : Evidence]
Runs == [pc : Ended \cup Active, id : RunIds, source : Nat, reads : 0 .. Endpoints,
         decision : Evidence, answer : Answers, tries : 0 .. MaxTries]

Typed ==
  /\ rows \in [RunIds -> Rows] /\ pending \in [RunIds -> Runners \cup {Nobody}]
  /\ run \in [Runners -> Runs] /\ sent \in [Runners -> Nat]
  /\ sources \in Nat /\ answers \in [RunIds -> Nat]

HoldsOne ==
  /\ \A i \in RunIds, r \in Runners :
       pending[i] = r <=> (run[r].pc \in InTransaction /\ run[r].id = i)
  /\ \A i \in RunIds : pending[i] # Nobody => rows[i] = NoRow

Confirmed(r) ==
  \/ r.pc = "committed"
  \/ r.pc = "answered" /\ r.answer \in {"persisted", "idempotent_replay"}
Stored == \A r \in Runners : Confirmed(run[r]) => rows[run[r].id] = Complete(run[r].decision)

Persisters ==
  /\ \A r, s \in Runners : /\ run[r].pc = "committed" /\ run[s].pc = "committed"
                           /\ run[r].id = run[s].id
                          => r = s
  /\ \A i \in RunIds : answers[i] <= 1 /\ (rows[i] = NoRow => answers[i] = 0)
  /\ \A r \in Runners : run[r].pc = "committed" => answers[run[r].id] = 0

Reported == {"decided", "preparing", "final", "committed", "answered"}
ReadsFine(r, n) == /\ r.pc = "loading" => n = r.reads
                   /\ r.pc \in Reported => r.decision.provenance.reads = n
Reads == \A r \in Runners : ReadsFine(run[r], sent[r])

IInv == Typed /\ HoldsOne /\ Stored /\ Persisters /\ Reads

USE ShadowAssumption, InputsAssumption

-----------------------------------------------------------------------------
(* The decision.                                                           *)

\* A group of checks that has a fault to find finds one.
LEMMA FirstFault ==
    ASSUME NEW n \in Nat, NEW checks, DOMAIN checks = 1 .. n,
           NEW faults, faults \subseteq Names(checks), faults # {}
    PROVE  FirstOf(checks, faults) # {}
  <1> DEFINE failing == {i \in 1 .. n : checks[i] \in faults}
  <1>1. failing \subseteq Nat /\ failing # {}
    BY DEF Names
  <1>2. PICK i \in failing : \A k \in failing : ~(<<k, i>> \in OpToRel(<, Nat))
    <2>1. \E i \in failing : \A k \in failing : ~(<<k, i>> \in OpToRel(<, Nat))
      BY <1>1, NatLessThanWellFounded, WFMin
    <2> QED
      BY <2>1
  <1>3. \A k \in failing : ~(k < i)
    BY <1>1, <1>2 DEF OpToRel
  <1>4. \A k \in 1 .. (i - 1) : checks[k] \notin faults
    BY <1>3
  <1>5. checks[i] \in FirstOf(checks, faults)
    BY <1>4 DEF FirstOf
  <1> QED
    BY <1>5

LEMMA CheckLists == /\ DOMAIN MarketChecks = 1 .. 22 /\ DOMAIN AccountChecks = 1 .. 9
                    /\ DOMAIN RequestChecks = 1 .. 6
  BY DEF MarketChecks, AccountChecks, RequestChecks

\* An accepted input has nothing wrong in any group.
LEMMA AcceptedInput ==
    ASSUME NEW input \in Inputs, Outcome(input).accepted
    PROVE  /\ input.market = {} /\ input.account = {} /\ input.request = {}
           /\ input.risk = {} /\ ~input.short
  <1>1. PreflightBlockers(input) = {} /\ PolicyBlockers(input) = {}
    <2>1. PreflightBlockers(input) = {}
      BY DEF Outcome, BlockedOutcome
    <2> QED
      BY <2>1 DEF Outcome, PolicyOutcome
  <1>2. /\ FirstOf(MarketChecks, input.market) = {}
        /\ FirstOf(AccountChecks, input.account) = {}
        /\ FirstOf(RequestChecks, input.request) = {}
    BY <1>1 DEF PreflightBlockers, MarketBlockers, AccountBlockers, RequestBlockers
  <1>3. /\ input.market \subseteq Names(MarketChecks)
        /\ input.account \subseteq Names(AccountChecks)
        /\ input.request \subseteq Names(RequestChecks)
    BY DEF Inputs
  <1>4. /\ input.market = {} /\ input.account = {} /\ input.request = {}
    <2>1. 22 \in Nat /\ 9 \in Nat /\ 6 \in Nat
      OBVIOUS
    <2> QED
      BY <1>2, <1>3, <2>1, FirstFault, CheckLists
  <1>5. input.risk = {} /\ ~input.short
    BY <1>1 DEF PolicyBlockers, Inputs
  <1> QED
    BY <1>4, <1>5

LEMMA CleanFixtureFine == CleanFixture \in Fixtures /\ CleanFixture \in Inputs
  BY DEF CleanFixture

\* A public input: the clean fixture with the faults found in the payload.
LEMMA PublicInput ==
    ASSUME NEW faults \in SUBSET Names(MarketChecks)
    PROVE  /\ [CleanFixture EXCEPT !.market = faults] \in Inputs
           /\ [CleanFixture EXCEPT !.market = faults].market = faults
  BY CleanFixtureFine DEF Inputs

LEMMA FixtureEvidence ==
    ASSUME NEW f \in Fixtures
    PROVE  /\ Decision(f, FixtureProvenance) \in Evidence
           /\ Decision(f, FixtureProvenance).provenance.reads = 0
  <1>1. <<f, FixtureProvenance>> \in Basis
    BY DEF Basis, FixtureProvenance, Provenances, Endpoints
  <1>2. Decision(f, FixtureProvenance) \in Evidence
    <2>1. Decision(<<f, FixtureProvenance>>[1], <<f, FixtureProvenance>>[2]) \in Evidence
      BY ONLY <1>1 DEF Evidence
    <2> QED
      BY <2>1
  <1> QED
    BY <1>2 DEF Decision, FixtureProvenance

LEMMA FailedLoad ==
    ASSUME NEW reads \in 0 .. Endpoints, NEW source \in Nat
    PROVE  LET d == Decision([CleanFixture EXCEPT !.market = {"failure_kind"}],
                             [class |-> "unavailable", reads |-> reads, source |-> source])
           IN  d \in Evidence /\ d.provenance.reads = reads
  <1> DEFINE input == [CleanFixture EXCEPT !.market = {"failure_kind"}]
             prov == [class |-> "unavailable", reads |-> reads, source |-> source]
  <1>1. {"failure_kind"} \in SUBSET Names(MarketChecks)
    <2>1. MarketChecks[1] = "failure_kind" /\ 1 \in DOMAIN MarketChecks
      BY DEF MarketChecks
    <2> QED
      BY <2>1 DEF Names
  <1>2. input \in Inputs /\ input.market # {}
    BY <1>1, PublicInput
  <1>3. ~Outcome(input).accepted
    BY <1>2, AcceptedInput
  <1>4. <<input, prov>> \in Basis
    <2>1. prov \in Provenances /\ prov.class = "unavailable"
      BY DEF Provenances
    <2> HIDE DEF input, prov
    <2> QED
      BY <1>2, <1>3, <2>1 DEF Basis
  <1>5. Decision(input, prov) \in Evidence
    <2> HIDE DEF input, prov
    <2>1. Decision(<<input, prov>>[1], <<input, prov>>[2]) \in Evidence
      BY ONLY <1>4 DEF Evidence
    <2> QED
      BY <2>1
  <1>6. Decision(input, prov).provenance.reads = reads
    BY DEF Decision
  <1> QED
    BY <1>5, <1>6

LEMMA PublicEvidence ==
    ASSUME NEW faults \in SUBSET Names(MarketChecks), NEW source \in Nat
    PROVE  LET d == Decision([CleanFixture EXCEPT !.market = faults],
                             [class |-> "public_network", reads |-> Endpoints,
                              source |-> source])
           IN  d \in Evidence /\ d.provenance.reads = Endpoints
  <1> DEFINE input == [CleanFixture EXCEPT !.market = faults]
             prov == [class |-> "public_network", reads |-> Endpoints, source |-> source]
  <1>1. input \in Inputs
    BY PublicInput
  <1>2. <<input, prov>> \in Basis
    <2>1. prov \in Provenances /\ prov.class = "public_network" /\ prov.reads = Endpoints
      BY DEF Provenances, Endpoints
    <2> HIDE DEF input, prov
    <2> QED
      BY <1>1, <2>1 DEF Basis
  <1>3. Decision(input, prov) \in Evidence
    <2> HIDE DEF input, prov
    <2>1. Decision(<<input, prov>>[1], <<input, prov>>[2]) \in Evidence
      BY ONLY <1>2 DEF Evidence
    <2> QED
      BY <2>1
  <1>4. Decision(input, prov).provenance.reads = Endpoints
    BY DEF Decision
  <1> QED
    BY <1>3, <1>4

\* What the properties say of one decision.
LEMMA EvidenceFine ==
    ASSUME NEW d \in Evidence
    PROVE  /\ d.input \in Inputs
           /\ d.outcome.accepted /\ d.provenance.class # "fixture"
                => d.provenance.reads = Endpoints
           /\ d.outcome.accepted =>
                /\ d.input.market \cup d.input.account \cup d.input.request
                     \cup d.input.risk = {}
                /\ ~d.input.short
  <1>1. CASE d = NoDecision
    <2>1. (CHOOSE f \in Fixtures : TRUE) \in Inputs
      OBVIOUS
    <2>2. d.input \in Inputs /\ ~d.outcome.accepted
      BY <1>1, <2>1 DEF NoDecision
    <2> QED
      BY <2>2
  <1>2. ASSUME NEW b \in Basis, d = Decision(b[1], b[2])
        PROVE  /\ d.input \in Inputs
               /\ d.outcome.accepted /\ d.provenance.class # "fixture"
                    => d.provenance.reads = Endpoints
               /\ d.outcome.accepted =>
                    /\ d.input.market \cup d.input.account \cup d.input.request
                         \cup d.input.risk = {}
                    /\ ~d.input.short
    <2>1. d.input = b[1] /\ d.outcome = Outcome(b[1]) /\ d.provenance = b[2]
      BY <1>2 DEF Decision
    <2>2. b[1] \in Inputs /\ b[2] \in Provenances
      BY DEF Basis
    <2>3. Outcome(b[1]).accepted /\ b[2].class # "fixture" => b[2].reads = Endpoints
      BY <2>2 DEF Basis, Provenances
    <2>4. Outcome(b[1]).accepted =>
             /\ b[1].market \cup b[1].account \cup b[1].request \cup b[1].risk = {}
             /\ ~b[1].short
      BY <2>2, AcceptedInput
    <2> QED
      BY <2>1, <2>2, <2>3, <2>4
  <1> QED
    BY <1>1, <1>2 DEF Evidence
-----------------------------------------------------------------------------
(* The inductive invariant.                                                *)

LEMMA IdleFine == Idle \in Runs /\ Idle.pc = "idle"
  <1>1. (CHOOSE i \in RunIds : TRUE) \in RunIds
    OBVIOUS
  <1>2. NoDecision \in Evidence
    BY DEF Evidence
  <1> QED
    BY <1>1, <1>2 DEF Idle, Runs, Ended, Answers, Endpoints

LEMMA InitInvariant == Init => IInv
  <1> SUFFICES ASSUME Init PROVE IInv
    OBVIOUS
  <1>1. Typed
    BY IdleFine DEF Init, Typed, Rows
  <1>2. \A r \in Runners : run[r].pc = "idle"
    BY IdleFine DEF Init
  <1>3. HoldsOne
    BY <1>2 DEF Init, HoldsOne, InTransaction
  <1>4. Stored /\ Reads
    BY <1>2 DEF Stored, Confirmed, Reads, ReadsFine, Reported
  <1>5. Persisters
    BY <1>2 DEF Init, Persisters
  <1> QED
    BY <1>1, <1>3, <1>4, <1>5 DEF IInv

\* A step of a runner outside its transaction that neither commits nor persists.
LEMMA Aside ==
    ASSUME IInv, NEW r \in Runners, NEW n \in Runs,
           run' = [run EXCEPT ![r] = n], run[r].pc \notin InTransaction,
           n.pc \notin InTransaction \cup {"committed"},
           Confirmed(n) => rows[n.id] = Complete(n.decision),
           NEW k \in Nat, sent' = [sent EXCEPT ![r] = k], ReadsFine(n, k),
           sources' \in Nat, UNCHANGED <<rows, pending, answers>>
    PROVE  IInv'
  <1>1. run'[r] = n /\ \A s \in Runners \ {r} : run'[s] = run[s]
    BY DEF IInv, Typed
  <1>2. sent'[r] = k /\ \A s \in Runners \ {r} : sent'[s] = sent[s]
    BY DEF IInv, Typed
  <1>3. Typed'
    BY DEF IInv, Typed
  <1>4. HoldsOne'
    BY <1>1 DEF IInv, HoldsOne
  <1>5. Stored'
    BY <1>1 DEF IInv, Stored
  <1>6. Persisters'
    BY <1>1 DEF IInv, Persisters
  <1>7. Reads'
    BY <1>1, <1>2 DEF IInv, Reads
  <1> QED
    BY <1>3, <1>4, <1>5, <1>6, <1>7 DEF IInv

LEMMA RunFixtureStep ==
    ASSUME IInv, NEW r \in Runners, NEW i \in RunIds, NEW f \in Fixtures, RunFixture(r, i, f)
    PROVE  IInv'
  <1> DEFINE n == [Idle EXCEPT !.pc = "decided", !.id = i, !.tries = run[r].tries + 1,
                               !.decision = Decision(f, FixtureProvenance)]
  <1>1. run[r].tries + 1 \in 0 .. MaxTries
    BY DEF RunFixture, IInv, Typed, Runs
  <1>2. n \in Runs /\ n.pc = "decided" /\ n.decision = Decision(f, FixtureProvenance)
    BY <1>1, IdleFine, FixtureEvidence DEF Runs, Active
  <1>3. ReadsFine(n, 0) /\ ~Confirmed(n)
    BY <1>2, FixtureEvidence DEF ReadsFine, Confirmed
  <1>4. run[r].pc \notin InTransaction
    BY DEF RunFixture, Ended, InTransaction
  <1>5. /\ run' = [run EXCEPT ![r] = n] /\ sources' \in Nat
        /\ sent' = [sent EXCEPT ![r] = 0] /\ UNCHANGED <<rows, pending, answers>>
    BY DEF RunFixture, IInv, Typed
  <1> HIDE DEF n
  <1> QED
    BY <1>2, <1>3, <1>4, <1>5, Aside DEF InTransaction

LEMMA RunPublicStep ==
    ASSUME IInv, NEW r \in Runners, NEW i \in RunIds, RunPublic(r, i)
    PROVE  IInv'
  <1> DEFINE n == [Idle EXCEPT !.pc = "loading", !.id = i, !.tries = run[r].tries + 1,
                               !.source = sources + 1]
  <1>1. run[r].tries + 1 \in 0 .. MaxTries /\ sources + 1 \in Nat
    BY DEF RunPublic, IInv, Typed, Runs
  <1>2. n \in Runs /\ n.pc = "loading" /\ n.reads = 0 /\ 0 \in Nat
    BY <1>1, IdleFine DEF Runs, Active, Idle
  <1>3. ReadsFine(n, 0) /\ ~Confirmed(n)
    BY <1>2 DEF ReadsFine, Reported, Confirmed
  <1>4. run[r].pc \notin InTransaction
    BY DEF RunPublic, Ended, InTransaction
  <1>5. /\ run' = [run EXCEPT ![r] = n] /\ sources' \in Nat
        /\ sent' = [sent EXCEPT ![r] = 0] /\ UNCHANGED <<rows, pending, answers>>
    BY <1>1 DEF RunPublic
  <1> HIDE DEF n
  <1> QED
    BY <1>2, <1>3, <1>4, <1>5, Aside DEF InTransaction

\* A load that ends in a decision, after reads requests.
LEMMA Decides ==
    ASSUME IInv, NEW r \in Runners, run[r].pc = "loading", NEW d \in Evidence,
           NEW reads \in 0 .. Endpoints, d.provenance.reads = reads,
           run' = [run EXCEPT ![r].pc = "decided", ![r].reads = reads, ![r].decision = d],
           sent' = [sent EXCEPT ![r] = reads], UNCHANGED <<rows, pending, sources, answers>>
    PROVE  IInv'
  <1> DEFINE n == [run[r] EXCEPT !.pc = "decided", !.reads = reads, !.decision = d]
  <1>1. run[r] \in Runs /\ sources' \in Nat /\ reads \in Nat
    BY DEF IInv, Typed, Endpoints
  <1>2. n \in Runs /\ n.pc = "decided" /\ n.decision = d
    BY <1>1 DEF Runs, Active
  <1>3. ReadsFine(n, reads) /\ ~Confirmed(n)
    BY <1>2 DEF ReadsFine, Confirmed
  <1>4. run' = [run EXCEPT ![r] = n]
    BY DEF IInv, Typed
  <1> HIDE DEF n
  <1> QED
    BY <1>1, <1>2, <1>3, <1>4, Aside DEF InTransaction

LEMMA SendFailsStep == ASSUME IInv, NEW r \in Runners, SendFails(r) PROVE IInv'
  <1> DEFINE reads == Counted(run[r].reads)
             d == Decision([CleanFixture EXCEPT !.market = {"failure_kind"}],
                           [class |-> "unavailable", reads |-> reads,
                            source |-> run[r].source])
  <1>1. run[r] \in Runs /\ sent[r] = run[r].reads /\ run[r].pc = "loading"
    BY DEF SendFails, IInv, Typed, Reads, ReadsFine
  <1>2. reads \in 0 .. Endpoints /\ reads = sent[r] + 1 /\ run[r].source \in Nat
    BY <1>1 DEF SendFails, Runs, Counted, Endpoints
  <1>3. d \in Evidence /\ d.provenance.reads = reads
    BY <1>2, FailedLoad
  <1>4. /\ run' = [run EXCEPT ![r].pc = "decided", ![r].reads = reads, ![r].decision = d]
        /\ sent' = [sent EXCEPT ![r] = reads]
    BY <1>2 DEF SendFails, IInv, Typed
  <1> HIDE DEF d, reads
  <1> QED
    BY <1>1, <1>2, <1>3, <1>4, Decides DEF SendFails

LEMMA SendAnswersStep == ASSUME IInv, NEW r \in Runners, SendAnswers(r) PROVE IInv'
  <1> DEFINE n == [run[r] EXCEPT !.reads = Counted(run[r].reads)]
  <1>1. run[r] \in Runs /\ sent[r] = run[r].reads /\ run[r].pc = "loading"
    BY DEF SendAnswers, IInv, Typed, Reads, ReadsFine
  <1>2. Counted(run[r].reads) \in 0 .. Endpoints /\ Counted(run[r].reads) = sent[r] + 1
    BY <1>1 DEF SendAnswers, Runs, Counted, Endpoints
  <1>3. n \in Runs /\ n.pc = "loading" /\ n.reads = sent[r] + 1
    BY <1>1, <1>2 DEF Runs
  <1>4. ReadsFine(n, sent[r] + 1) /\ ~Confirmed(n)
    BY <1>3 DEF ReadsFine, Reported, Confirmed
  <1>5. /\ run' = [run EXCEPT ![r] = n] /\ sent' = [sent EXCEPT ![r] = sent[r] + 1]
        /\ sent[r] + 1 \in Nat /\ sources' \in Nat
    BY DEF SendAnswers, IInv, Typed
  <1> HIDE DEF n
  <1> QED
    BY <1>1, <1>3, <1>4, <1>5, Aside DEF SendAnswers, InTransaction

LEMMA AnswerUnusableStep == ASSUME IInv, NEW r \in Runners, AnswerUnusable(r) PROVE IInv'
  <1> DEFINE reads == run[r].reads
             d == Decision([CleanFixture EXCEPT !.market = {"failure_kind"}],
                           [class |-> "unavailable", reads |-> reads,
                            source |-> run[r].source])
  <1>1. run[r] \in Runs /\ sent[r] = reads /\ run[r].pc = "loading"
    BY DEF AnswerUnusable, IInv, Typed, Reads, ReadsFine
  <1>2. reads \in 0 .. Endpoints /\ run[r].source \in Nat
    BY <1>1 DEF Runs
  <1>3. d \in Evidence /\ d.provenance.reads = reads
    BY <1>2, FailedLoad
  <1>4. /\ run' = [run EXCEPT ![r].pc = "decided", ![r].reads = reads, ![r].decision = d]
        /\ sent' = [sent EXCEPT ![r] = reads]
    BY <1>1 DEF AnswerUnusable, IInv, Typed, Runs
  <1> HIDE DEF d, reads
  <1> QED
    BY <1>1, <1>2, <1>3, <1>4, Decides DEF AnswerUnusable

LEMMA PublicDecidesStep ==
    ASSUME IInv, NEW r \in Runners, NEW f \in PublicFaults, PublicDecides(r, f)
    PROVE  IInv'
  <1> DEFINE d == Decision([CleanFixture EXCEPT !.market = f],
                           [class |-> "public_network", reads |-> Endpoints,
                            source |-> run[r].source])
  <1>1. /\ run[r] \in Runs /\ sent[r] = Endpoints /\ run[r].pc = "loading"
        /\ run[r].reads = Endpoints
    BY DEF PublicDecides, IInv, Typed, Reads, ReadsFine
  <1>2. Endpoints \in 0 .. Endpoints /\ run[r].source \in Nat /\ f \in SUBSET Names(MarketChecks)
    BY <1>1 DEF Runs, Endpoints
  <1>3. d \in Evidence /\ d.provenance.reads = Endpoints
    BY <1>2, PublicEvidence
  <1>4. /\ run' = [run EXCEPT ![r].pc = "decided", ![r].reads = Endpoints, ![r].decision = d]
        /\ sent' = [sent EXCEPT ![r] = Endpoints]
    BY <1>1 DEF PublicDecides, IInv, Typed, Runs
  <1> HIDE DEF d
  <1> QED
    BY <1>1, <1>2, <1>3, <1>4, Decides DEF PublicDecides

LEMMA FindExistingStep == ASSUME IInv, NEW r \in Runners, FindExisting(r) PROVE IInv'
  <1> DEFINE answer == IF SameBundle(rows[run[r].id].decision, run[r].decision)
                         THEN "idempotent_replay" ELSE "conflict"
             n == [run[r] EXCEPT !.pc = "answered", !.answer = answer]
  <1>1. run[r] \in Runs /\ run[r].pc = "decided"
    BY DEF FindExisting, IInv, Typed
  <1>2. /\ n \in Runs /\ n.pc = "answered" /\ n.answer = answer
        /\ n.id = run[r].id /\ n.decision = run[r].decision
    BY <1>1 DEF Runs, Ended, Answers
  <1>3. Confirmed(n) => rows[n.id] = Complete(n.decision)
    <2>1. rows[run[r].id] \in [status : {"complete"}, decision : Evidence]
      BY <1>1 DEF FindExisting, IInv, Typed, Rows, Runs
    <2>2. Confirmed(n) => rows[run[r].id].decision = run[r].decision
      BY <1>2 DEF Confirmed, SameBundle
    <2> QED
      BY <1>2, <2>1, <2>2 DEF Complete
  <1>4. ReadsFine(n, sent[r])
    BY <1>1, <1>2 DEF IInv, Reads, ReadsFine, Reported
  <1>5. /\ run' = [run EXCEPT ![r] = n] /\ sent' = [sent EXCEPT ![r] = sent[r]]
        /\ sent[r] \in Nat /\ sources' \in Nat /\ UNCHANGED <<rows, pending, answers>>
    BY DEF FindExisting, IInv, Typed
  <1> HIDE DEF n
  <1> QED
    BY <1>1, <1>2, <1>3, <1>4, <1>5, Aside DEF InTransaction

\* A step that changes the pc of one runner, and what the parts then rest on.
LEMMA Moves ==
    ASSUME IInv, NEW r \in Runners, NEW p \in Ended \cup Active,
           run' = [run EXCEPT ![r].pc = p]
    PROVE  /\ run' \in [Runners -> Runs] /\ run'[r].pc = p
           /\ run'[r].id = run[r].id /\ run'[r].decision = run[r].decision
           /\ run'[r].reads = run[r].reads /\ run'[r].answer = run[r].answer
           /\ \A s \in Runners \ {r} : run'[s] = run[s]
           /\ \A s \in Runners : /\ run'[s].id = run[s].id /\ run'[s].id \in RunIds
                                 /\ run'[s].decision = run[s].decision
  BY DEF IInv, Typed, Runs

LEMMA InsertStep == ASSUME IInv, NEW r \in Runners, Insert(r) PROVE IInv'
  <1>1. run' = [run EXCEPT ![r].pc = "preparing"] /\ "preparing" \in Ended \cup Active
    BY DEF Insert, Active
  <1>2. Typed'
    BY <1>1, Moves DEF Insert, IInv, Typed
  <1>3. HoldsOne'
    BY <1>1, Moves DEF Insert, MayInsert, IInv, Typed, HoldsOne, InTransaction
  <1>4. Stored'
    BY <1>1, Moves DEF Insert, IInv, Stored, Confirmed
  <1>5. Persisters'
    BY <1>1, Moves DEF Insert, IInv, Persisters
  <1>6. Reads'
    BY <1>1, Moves DEF Insert, IInv, Reads, ReadsFine, Reported
  <1> QED
    BY <1>2, <1>3, <1>4, <1>5, <1>6 DEF IInv

LEMMA FinalizeStep == ASSUME IInv, NEW r \in Runners, Finalize(r) PROVE IInv'
  <1>1. run' = [run EXCEPT ![r].pc = "final"] /\ "final" \in Ended \cup Active
    BY DEF Finalize, Active
  <1>2. Typed'
    BY <1>1, Moves DEF Finalize, IInv, Typed
  <1>3. HoldsOne'
    BY <1>1, Moves DEF Finalize, IInv, HoldsOne, InTransaction
  <1>4. Stored'
    BY <1>1, Moves DEF Finalize, IInv, Stored, Confirmed
  <1>5. Persisters'
    BY <1>1, Moves DEF Finalize, IInv, Persisters
  <1>6. Reads'
    BY <1>1, Moves DEF Finalize, IInv, Reads, ReadsFine, Reported
  <1> QED
    BY <1>2, <1>3, <1>4, <1>5, <1>6 DEF IInv

\* A commit stores the runner's own decision where nothing was stored.
LEMMA Commits ==
    ASSUME IInv, NEW r \in Runners, Commit(r)
    PROVE  /\ run[r].id \in RunIds /\ rows[run[r].id] = NoRow
           /\ rows' = [rows EXCEPT ![run[r].id] = Complete(run[r].decision)]
           /\ Complete(run[r].decision) \in Rows /\ Complete(run[r].decision) # NoRow
  <1>1. run[r] \in Runs /\ run[r].pc = "final"
    BY DEF Commit, CommitFrom, IInv, Typed
  <1>2. pending[run[r].id] = r /\ run[r].id \in RunIds
    BY <1>1 DEF IInv, HoldsOne, InTransaction, Runs
  <1>3. rows[run[r].id] = NoRow
    BY <1>2 DEF IInv, HoldsOne
  <1>4. Complete(run[r].decision) \in Rows
    BY <1>1 DEF Complete, Rows, Runs
  <1>5. Complete(run[r].decision) # NoRow
    <2>1. Complete(run[r].decision).status = "complete"
      BY DEF Complete
    <2>2. NoRow.status = "none"
      BY DEF NoRow
    <2> QED
      BY <2>1, <2>2
  <1> QED
    BY <1>1, <1>2, <1>3, <1>4, <1>5 DEF Commit, Complete

LEMMA CommitStep == ASSUME IInv, NEW r \in Runners, Commit(r) PROVE IInv'
  <1>1. run' = [run EXCEPT ![r].pc = "committed"] /\ "committed" \in Ended \cup Active
    BY DEF Commit, Active
  <1>2. /\ run[r].pc = "final" /\ pending' = [pending EXCEPT ![run[r].id] = Nobody]
        /\ UNCHANGED <<sent, sources, answers>>
    BY DEF Commit, CommitFrom
  <1>3. /\ \A i \in RunIds \ {run[r].id} : rows'[i] = rows[i] /\ pending'[i] = pending[i]
        /\ rows'[run[r].id] = Complete(run[r].decision) /\ pending'[run[r].id] = Nobody
    BY <1>2, Commits DEF IInv, Typed
  <1>4. pending[run[r].id] = r
    BY <1>2, Commits DEF IInv, HoldsOne, InTransaction
  <1>5. Typed'
    <2>1. run' \in [Runners -> Runs]
      BY <1>1, Moves
    <2>2. rows' \in [RunIds -> Rows]
      BY Commits DEF IInv, Typed
    <2> QED
      BY <1>2, <2>1, <2>2 DEF IInv, Typed
  <1>6. HoldsOne'
    <2>1. \A i \in RunIds, s \in Runners :
            pending'[i] = s <=> (run'[s].pc \in InTransaction /\ run'[s].id = i)
      <3>1. \A s \in Runners \ {r} : run'[s] = run[s]
        BY <1>1, Moves
      <3>2. run'[r].pc = "committed"
        BY <1>1, Moves
      <3>3. \A i \in RunIds : pending'[i] # r
        BY <1>2, <1>3 DEF IInv, HoldsOne, InTransaction
      <3>4. \A i \in RunIds, s \in Runners \ {r} : pending'[i] = s <=> pending[i] = s
        BY <1>3, <1>4
      <3>5. \A i \in RunIds, s \in Runners \ {r} :
              pending'[i] = s <=> (run'[s].pc \in InTransaction /\ run'[s].id = i)
        BY <3>1, <3>4 DEF IInv, HoldsOne
      <3> QED
        BY <3>2, <3>3, <3>5 DEF InTransaction
    <2>2. \A i \in RunIds : pending'[i] # Nobody => rows'[i] = NoRow
      BY <1>3 DEF IInv, HoldsOne
    <2> QED
      BY <2>1, <2>2 DEF HoldsOne
  <1>7. Stored'
    <2> SUFFICES ASSUME NEW s \in Runners, Confirmed(run'[s])
                 PROVE  rows'[run'[s].id] = Complete(run'[s].decision)
      BY DEF Stored
    <2>1. CASE s = r
      BY <1>1, <1>3, <2>1, Moves
    <2>2. CASE s # r
      <3>1. run'[s] = run[s] /\ run[s].id \in RunIds
        BY <1>1, <2>2, Moves
      <3>2. rows[run[s].id] = Complete(run[s].decision)
        BY <3>1 DEF IInv, Stored
      <3>3. rows[run[s].id] # NoRow
        <4>1. rows[run[s].id].status = "complete"
          BY <3>2 DEF Complete
        <4>2. NoRow.status = "none"
          BY DEF NoRow
        <4> QED
          BY <4>1, <4>2
      <3> QED
        BY <1>3, <3>1, <3>2, <3>3, Commits
    <2> QED
      BY <2>1, <2>2
  <1>8. Persisters'
    <2>1. answers[run[r].id] = 0
      BY Commits DEF IInv, Persisters
    <2>2. \A s \in Runners : run[s].pc = "committed" => run[s].id # run[r].id
      <3> SUFFICES ASSUME NEW s \in Runners, run[s].pc = "committed", run[s].id = run[r].id
                   PROVE  FALSE
        OBVIOUS
      <3>1. rows[run[r].id] = Complete(run[s].decision)
        BY DEF IInv, Stored, Confirmed
      <3>2. rows[run[r].id].status = "complete"
        BY <3>1 DEF Complete
      <3>3. rows[run[r].id].status = "none"
        BY Commits DEF NoRow
      <3> QED
        BY <3>2, <3>3
    <2>3. \A i \in RunIds : answers[i] <= 1 /\ (rows'[i] = NoRow => answers[i] = 0)
      BY <1>3, <2>1 DEF IInv, Persisters
    <2> QED
      BY <1>1, <1>2, <2>1, <2>2, <2>3, Moves DEF IInv, Persisters
  <1>9. Reads'
    BY <1>1, <1>2, Moves DEF IInv, Reads, ReadsFine, Reported
  <1> QED
    BY <1>5, <1>6, <1>7, <1>8, <1>9 DEF IInv

LEMMA RespondStep == ASSUME IInv, NEW r \in Runners, Respond(r) PROVE IInv'
  <1> DEFINE n == [run[r] EXCEPT !.pc = "answered", !.answer = "persisted"]
  <1>1. run[r] \in Runs /\ run[r].pc = "committed" /\ run[r].id \in RunIds
    BY DEF Respond, IInv, Typed, Runs
  <1>2. /\ n \in Runs /\ n.pc = "answered" /\ n.id = run[r].id
        /\ n.decision = run[r].decision
    BY <1>1 DEF Runs, Ended, Answers
  <1>3. run' = [run EXCEPT ![r] = n] /\ UNCHANGED <<rows, pending, sent, sources>>
    BY DEF Respond, IInv, Typed
  <1> HIDE DEF n
  <1>4. run'[r] = n /\ \A s \in Runners \ {r} : run'[s] = run[s]
    BY <1>3 DEF IInv, Typed
  <1>5. answers[run[r].id] = 0 /\ answers' = [answers EXCEPT ![run[r].id] = 1]
    <2>1. answers[run[r].id] = 0
      BY <1>1 DEF IInv, Persisters
    <2>2. answers' = [answers EXCEPT ![run[r].id] = answers[run[r].id] + 1]
      BY <1>1 DEF Respond, IInv, Typed
    <2> QED
      BY <2>1, <2>2
  <1>6. Typed'
    BY <1>2, <1>3, <1>5 DEF IInv, Typed
  <1>7. HoldsOne'
    BY <1>1, <1>2, <1>3, <1>4 DEF IInv, HoldsOne, InTransaction
  <1>8. rows[run[r].id] = Complete(run[r].decision)
    BY <1>1 DEF IInv, Stored, Confirmed
  <1>9. Stored'
    BY <1>2, <1>3, <1>4, <1>8 DEF IInv, Stored
  <1>10. Persisters'
    <2>1. rows[run[r].id] # NoRow
      <3>1. rows[run[r].id].status = "complete"
        BY <1>8 DEF Complete
      <3>2. NoRow.status = "none"
        BY DEF NoRow
      <3> QED
        BY <3>1, <3>2
    <2>2. \A i \in RunIds \ {run[r].id} : answers'[i] = answers[i]
      BY <1>5 DEF IInv, Typed
    <2>3. answers'[run[r].id] = 1
      BY <1>1, <1>5 DEF IInv, Typed
    <2>4. \A s \in Runners : run'[s].pc = "committed"
                             => s # r /\ run[s].pc = "committed" /\ run[s].id # run[r].id
      BY <1>1, <1>2, <1>4 DEF IInv, Persisters
    <2>5. \A i \in RunIds : answers'[i] <= 1 /\ (rows'[i] = NoRow => answers'[i] = 0)
      BY <1>3, <2>1, <2>2, <2>3 DEF IInv, Persisters
    <2>6. \A s \in Runners : run'[s].pc = "committed" => answers'[run'[s].id] = 0
      BY <1>4, <2>2, <2>4 DEF IInv, Persisters, Typed, Runs
    <2>7. \A s, t \in Runners : /\ run'[s].pc = "committed" /\ run'[t].pc = "committed"
                                /\ run'[s].id = run'[t].id
                               => s = t
      BY <1>4, <2>4 DEF IInv, Persisters
    <2> QED
      BY <2>5, <2>6, <2>7 DEF Persisters
  <1>11. Reads'
    BY <1>1, <1>2, <1>3, <1>4 DEF IInv, Reads, ReadsFine, Reported
  <1> QED
    BY <1>6, <1>7, <1>9, <1>10, <1>11 DEF IInv

\* An attempt that is over: its transaction, if it had one, is rolled back.
LEMMA Leaves ==
    ASSUME IInv, NEW r \in Runners, NEW n \in Runs, run' = [run EXCEPT ![r] = n],
           n.pc \in {"dead", "answered"}, ~Confirmed(n), ReadsFine(n, sent[r]),
           pending' = Released(r), UNCHANGED <<rows, sent, sources, answers>>
    PROVE  IInv'
  <1>1. run'[r] = n /\ \A s \in Runners \ {r} : run'[s] = run[s]
    BY DEF IInv, Typed
  <1>2. \A i \in RunIds : pending'[i] = IF pending[i] = r THEN Nobody ELSE pending[i]
    BY DEF Released
  <1>3. Typed'
    BY DEF IInv, Typed, Released
  <1>4. HoldsOne'
    <2>1. \A i \in RunIds : pending'[i] # r
      BY <1>2
    <2>2. \A i \in RunIds, s \in Runners \ {r} : pending'[i] = s <=> pending[i] = s
      BY <1>2
    <2> QED
      BY <1>1, <1>2, <2>1, <2>2 DEF IInv, HoldsOne, InTransaction
  <1>5. Stored'
    BY <1>1 DEF IInv, Stored
  <1>6. Persisters'
    BY <1>1 DEF IInv, Persisters
  <1>7. Reads'
    BY <1>1 DEF IInv, Reads
  <1> QED
    BY <1>3, <1>4, <1>5, <1>6, <1>7 DEF IInv

LEMMA CrashStep == ASSUME IInv, NEW r \in Runners, Crash(r) PROVE IInv'
  <1> DEFINE n == [Idle EXCEPT !.pc = "dead", !.tries = run[r].tries]
  <1>1. run[r].tries \in 0 .. MaxTries
    BY DEF IInv, Typed, Runs
  <1>2. n \in Runs /\ n.pc = "dead"
    BY <1>1, IdleFine DEF Runs, Ended
  <1>3. ~Confirmed(n) /\ ReadsFine(n, sent[r])
    BY <1>2 DEF Confirmed, ReadsFine, Reported
  <1>4. /\ run' = [run EXCEPT ![r] = n] /\ pending' = Released(r)
        /\ UNCHANGED <<rows, sent, sources, answers>>
    BY DEF Crash
  <1> HIDE DEF n
  <1> QED
    BY <1>2, <1>3, <1>4, Leaves

LEMMA FailStep == ASSUME IInv, NEW r \in Runners, Fail(r) PROVE IInv'
  <1> DEFINE n == [run[r] EXCEPT !.pc = "answered", !.answer = "failed"]
  <1>1. run[r] \in Runs /\ run[r].pc \in {"decided", "preparing", "final", "committed"}
    BY DEF Fail, IInv, Typed
  <1>2. /\ n \in Runs /\ n.pc = "answered" /\ n.answer = "failed"
        /\ n.decision = run[r].decision
    BY <1>1 DEF Runs, Ended, Answers
  <1>3. ~Confirmed(n) /\ ReadsFine(n, sent[r])
    BY <1>1, <1>2 DEF Confirmed, IInv, Reads, ReadsFine, Reported
  <1>4. /\ run' = [run EXCEPT ![r] = n] /\ pending' = Released(r)
        /\ UNCHANGED <<rows, sent, sources, answers>>
    BY DEF Fail, IInv, Typed
  <1> HIDE DEF n
  <1> QED
    BY <1>2, <1>3, <1>4, Leaves

LEMMA StutterStep == ASSUME IInv, UNCHANGED vars PROVE IInv'
  BY DEF vars, IInv, Typed, HoldsOne, Stored, Persisters, Reads

LEMMA NextStep == ASSUME IInv, [Next]_vars PROVE IInv'
  <1>1. CASE UNCHANGED vars
    BY <1>1, StutterStep
  <1>2. ASSUME NEW r \in Runners, Progress(r) PROVE IInv'
    BY <1>2, SendFailsStep, SendAnswersStep, AnswerUnusableStep, PublicDecidesStep,
       InsertStep, FindExistingStep, FinalizeStep, CommitStep, RespondStep DEF Progress
  <1> QED
    BY <1>1, <1>2, RunFixtureStep, RunPublicStep, CrashStep, FailStep DEF Next

\* The inductive invariant says what the evidence of a run has to be.
LEMMA InvariantIsSound == IInv => EvidenceSound
  <1> SUFFICES ASSUME IInv PROVE EvidenceSound
    OBVIOUS
  <1>1. \A i \in RunIds : rows[i].decision \in Evidence /\ rows[i].status \in {"none", "complete"}
    <2>1. NoRow.decision \in Evidence /\ NoRow.status = "none"
      BY DEF NoRow, Evidence
    <2> QED
      BY <2>1 DEF IInv, Typed, Rows
  <1>2. \A r \in Runners : run[r] \in Runs
    BY DEF IInv, Typed
  <1>3. TypeOK
    <2>1. \A d \in Decisions : d.input \in Inputs
      BY <1>1, <1>2, EvidenceFine DEF Decisions, Runs
    <2>2. \A r \in Runners : /\ run[r].reads \in 0 .. Endpoints /\ run[r].tries \in 0 .. MaxTries
                             /\ run[r].pc \in Ended \cup {"loading", "decided", "preparing",
                                                          "final", "committed"}
      BY <1>2 DEF Runs, Active
    <2> QED
      BY <1>1, <2>1, <2>2 DEF TypeOK, IInv, Typed
  <1>4. AnswerIsStored
    BY DEF AnswerIsStored, IInv, Stored, Confirmed, Complete
  <1>5. OnePersister
    BY DEF OnePersister, IInv, Persisters
  <1>6. ReadsAccounted
    <2>1. \A i \in RunIds : /\ rows[i].decision.outcome.accepted
                            /\ rows[i].decision.provenance.class # "fixture"
                           => rows[i].decision.provenance.reads = Endpoints
      BY <1>1, EvidenceFine
    <2> QED
      BY <2>1 DEF ReadsAccounted, IInv, Reads, ReadsFine, Reported
  <1>7. AcceptedIsClean
    BY <1>1, EvidenceFine DEF AcceptedIsClean
  <1> QED
    BY <1>3, <1>4, <1>5, <1>6, <1>7 DEF EvidenceSound

-----------------------------------------------------------------------------
(* The theorems.                                                           *)

LEMMA Invariance == Spec => []IInv
  BY InitInvariant, NextStep, PTL DEF Spec

\* Whatever runners, crashes and retries share a run id: what is stored, what
\* callers were told and what was read agree, at most one of them is told that it
\* persisted the bundle, and nothing is accepted that a check would have refused.
THEOREM EvidenceIsSound == Spec => []EvidenceSound
  BY Invariance, InvariantIsSound, PTL

\* A committed bundle never changes: no retry, replay, conflict, crash or failure
\* of any runner writes over it (persist_bundle).
THEOREM EvidenceNeverChanges == Spec => EvidenceImmutable
  <1>1. ASSUME IInv, [Next]_vars
        PROVE  [\A i \in RunIds : rows[i] # NoRow => rows'[i] = rows[i]]_rows
    <2>1. CASE UNCHANGED vars
      BY <2>1 DEF vars
    <2>2. ASSUME NEW r \in Runners, Commit(r)
          PROVE  \A i \in RunIds : rows[i] # NoRow => rows'[i] = rows[i]
      BY <1>1, <2>2, Commits DEF IInv, Typed
    <2>3. CASE Next /\ ~\E r \in Runners : Commit(r)
      <3>1. UNCHANGED rows
        BY <2>3 DEF Next, Progress, RunFixture, RunPublic, SendFails, SendAnswers,
           AnswerUnusable, PublicDecides, Insert, FindExisting, Finalize, Respond, Crash, Fail
      <3> QED
        BY <3>1
    <2> QED
      BY <1>1, <2>1, <2>2, <2>3
  <1> QED
    BY <1>1, Invariance, PTL DEF Spec, EvidenceImmutable
=============================================================================
