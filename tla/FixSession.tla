------------------------------ MODULE FixSession ------------------------------
(***************************************************************************)
(* SimulatedFixSession (fix/session.py): sequence numbers, replay,         *)
(* rejection, gaps, heartbeats, logon and logout of one simulated FIX      *)
(* session.  Each method is an operator on the session record; receive     *)
(* returns the session, the disposition and the messages it emitted.       *)
(*                                                                         *)
(* A message is its type, sequence number, PossDup flag, the one field the *)
(* session looks at (test id, NewSeqNo, order template) and whether it     *)
(* decodes and names the right CompIDs.  Its replay identity is the type   *)
(* and that field.  Time is injected by the caller and does not go back.   *)
(***************************************************************************)
EXTENDS Integers, Sequences

CONSTANTS MaxSeq,      \* bound: highest inbound sequence number
          MaxTime,     \* bound: last instant
          Heartbeat,   \* heartbeat_interval_seconds
          Grace,       \* test_request_grace_seconds
          Disconnect   \* disconnect_timeout_seconds

ASSUME SessionBounds == MaxSeq \in Nat \ {0} /\ MaxTime \in Nat
ASSUME SessionTimers == /\ Heartbeat \in Nat \ {0} /\ Grace \in Nat \ {0}
                        /\ Disconnect \in Nat /\ Disconnect >= Grace

States == {"disconnected", "logon_pending", "established", "test_request_pending",
           "logout_pending", "recovering", "terminated"}
OrderTypes == {"new_order", "cancel"}
MessageTypes == {"logon", "heartbeat", "test_request", "resend_request", "reject",
                 "sequence_reset", "logout"} \cup OrderTypes
Messages == [type : MessageTypes, seq : 1 .. MaxSeq, dup : BOOLEAN, arg : Nat,
             form : {"valid", "malformed", "wrong_comp_ids"}]

Identity(m) == [type |-> m.type, arg |-> m.arg]
NotAccepted == [type |-> "none", arg |-> 0]
Identities == [type : MessageTypes \cup {"none"}, arg : Nat]
Never == -1          \* None for a timestamp
NoTest == 0          \* no pending test request; a test id is the number that sent it

Sessions == [st : States, in : Nat \ {0}, out : Nat \ {0},
             lastIn : Int, lastOut : Int,
             test : Nat, sent : Int, deadline : Int, graceOver : BOOLEAN,
             acc : [1 .. MaxSeq -> Identities],
             rej : SUBSET Messages]

NewSession == [st |-> "disconnected", in |-> 1, out |-> 1, lastIn |-> Never, lastOut |-> Never,
               test |-> NoTest, sent |-> Never, deadline |-> Never, graceOver |-> FALSE,
               acc |-> [n \in 1 .. MaxSeq |-> NotAccepted], rej |-> {}]
-----------------------------------------------------------------------------
Emit(s, at) == [s EXCEPT !.out = @ + 1, !.lastOut = at]

Result(s, disposition, sent) == [ses |-> s, disp |-> disposition, sent |-> sent]

\* A message that does not decode, names other CompIDs or is out of place is
\* recorded for the audit and changes nothing else.
Refuse(s) == Result(s, "rejected", <<>>)

\* A low or backward number is answered with a Reject, once per occurrence: rej
\* holds the occurrences of this instant.
RefuseWithReject(s, m, at) ==
    IF m \in s.rej THEN Result(s, "rejected", <<>>)
    ELSE Result(Emit([s EXCEPT !.rej = @ \cup {m}], at), "rejected", <<"reject">>)

Unsupported(s, m) ==
    \/ m.type = "logon" /\ s.st \notin {"logon_pending", "disconnected"}
    \/ s.st = "logon_pending" /\ m.type # "logon"
    \/ m.type \in OrderTypes /\ s.st # "established"
    \/ s.st \in {"disconnected", "terminated"} /\ m.type # "logon"

ClearTest(s) == [s EXCEPT !.test = NoTest, !.sent = Never, !.deadline = Never,
                          !.graceOver = FALSE]

\* Mutant: a matching heartbeat restores the session at any time.
HeartbeatAnyTime(s, m, at) ==
    IF s.st = "test_request_pending" /\ m.arg = s.test
    THEN [ClearTest(s) EXCEPT !.st = "established"] ELSE s
MatchHeartbeat(s, m, at) ==
    IF s.st = "test_request_pending" /\ m.arg = s.test /\ at <= s.deadline
    THEN [ClearTest(s) EXCEPT !.st = "established"] ELSE s

\* The in-sequence message: recorded, counted, then handled by type.
Accept(s, m, at) ==
    LET n == [s EXCEPT !.lastIn = at, !.acc[m.seq] = Identity(m),
                       !.in = IF m.type = "sequence_reset" THEN m.arg ELSE @ + 1]
    IN  CASE m.type \in {"sequence_reset", "logon"} ->
                Result([n EXCEPT !.st = "established"], "accepted_new", <<>>)
          [] m.type = "heartbeat" -> Result(MatchHeartbeat(n, m, at), "accepted_new", <<>>)
          [] m.type = "test_request" -> Result(Emit(n, at), "accepted_new", <<"heartbeat">>)
          [] m.type = "resend_request" ->
                Result([n EXCEPT !.st = "recovering"], "accepted_new", <<>>)
          [] m.type = "logout" /\ s.st # "logout_pending" ->
                Result([Emit(n, at) EXCEPT !.st = "terminated"], "accepted_new", <<"logout">>)
          [] m.type = "logout" /\ s.st = "logout_pending" ->
                Result([n EXCEPT !.st = "terminated"], "accepted_new", <<>>)
          [] OTHER -> Result(n, "accepted_new", <<>>)

\* Mutant: a SequenceReset may move the expected number back.
BackwardResetNever(s, m) == FALSE
BackwardReset(s, m) == m.type = "sequence_reset" /\ m.arg <= s.in

Receive(s, m, at) ==
    CASE m.form # "valid" \/ Unsupported(s, m) -> Refuse(s)
      [] m.form = "valid" /\ ~Unsupported(s, m) /\ m.seq < s.in ->
            IF m.dup /\ s.acc[m.seq] = Identity(m)
            THEN Result(s, "accepted_replay", <<>>)
            ELSE RefuseWithReject(s, m, at)
      [] m.form = "valid" /\ ~Unsupported(s, m) /\ m.seq > s.in ->
            Result(Emit([s EXCEPT !.st = "recovering"], at), "sequence_gap", <<"resend_request">>)
      [] OTHER ->
            IF BackwardReset(s, m)
            THEN RefuseWithReject(s, m, at)
            ELSE Accept(s, m, at)

\* connect; reconnect is the same from "disconnected" alone.
Connect(s, at) == Emit([s EXCEPT !.st = "logon_pending"], at)

RequestLogout(s, at) == Emit([s EXCEPT !.st = "logout_pending"], at)

Drop(s) == [ClearTest(s) EXCEPT !.st = "disconnected"]

TickPending(s, at) ==
    IF at >= s.sent + Disconnect THEN Drop(s)
    ELSE IF at >= s.deadline THEN [s EXCEPT !.graceOver = TRUE] ELSE s

\* Peer silence is looked at first; only then the session's own.
TickEstablished(s, at) ==
    IF s.lastIn # Never /\ at - s.lastIn >= Heartbeat
    THEN [Emit(s, at) EXCEPT !.st = "test_request_pending", !.test = s.out, !.sent = at,
                             !.deadline = at + Grace, !.graceOver = FALSE]
    ELSE IF s.lastOut # Never /\ at - s.lastOut >= Heartbeat THEN Emit(s, at) ELSE s

Tick(s, at) == CASE s.st = "test_request_pending" -> TickPending(s, at)
                 [] s.st = "established" -> TickEstablished(s, at)
                 [] OTHER -> s
-----------------------------------------------------------------------------
(* What a session promises, whatever its peer sends.                       *)

\* A session that waits for the answer to a test request knows which one, since
\* when and until when: tick computes its deadlines from them (session.py:336).
TestKnown(s) == s.st = "test_request_pending" =>
                    s.test # NoTest /\ s.sent # Never /\ s.deadline = s.sent + Grace

\* Every number not yet expected is still free, so no message is taken for the
\* replay of one that was never accepted.
FutureFree(s) == \A n \in 1 .. MaxSeq : n >= s.in => s.acc[n] = NotAccepted

\* What was accepted under a number stays; the expected number never goes back.
KeepsAccepted(s, t) == /\ t.in >= s.in
                       /\ \A n \in 1 .. MaxSeq :
                              s.acc[n] # NotAccepted => t.acc[n] = s.acc[n]
=============================================================================
