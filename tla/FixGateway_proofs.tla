-------------------------- MODULE FixGateway_proofs --------------------------
(***************************************************************************)
(* Proofs about FixGateway, for every set of ClOrdIDs, templates, bars,    *)
(* faults and timers.                                                      *)
(*                                                                         *)
(* The inductive invariant IInv has three parts:                           *)
(*   SesInv   the session is typed, its unused numbers are free, and a     *)
(*            pending test is known; that FutureFree holds makes accepted  *)
(*            messages stay under their numbers,                           *)
(*   Rest     the clock, the faults and the delayed answers are typed,     *)
(*   Orderly  position and book agree (Holding), an unused ClOrdID has no  *)
(*            order and a used one has one (Once), and the view follows    *)
(*            the book (Follows).                                          *)
(* A session method is Serves (it keeps what was accepted and restores in  *)
(* time), Calm (it also keeps the expected number) or Quiet.  A market     *)
(* pass folds over the active orders: PassInv says of every prefix that    *)
(* the position holds and that the updates so far tell the book, and       *)
(* PassKeeps carries it from prefix to prefix.  Sums and folds are those   *)
(* of the community modules, as recursive functions on finite sets, with   *)
(* the induction over numbers and finite sets stated for sets (Good) and   *)
(* not for predicates.                                                     *)
(***************************************************************************)
EXTENDS FixGateway, FiniteSetTheorems, SequenceTheorems, WellFoundedInduction, TLAPS

-----------------------------------------------------------------------------
(* The session.                                                            *)

SesInv(s) == s \in Sessions /\ FutureFree(s) /\ TestKnown(s)

\* t differs from s by messages sent, rejections recorded or a lost connection.
Calm(s, t) == /\ SesInv(t)
              /\ t.in = s.in /\ t.acc = s.acc
              /\ t.st = s.st \/ t.st \in {"recovering", "disconnected"}

InTime(s, t, at) ==
    s.st = "test_request_pending" /\ t.st = "established"
        => at <= s.deadline \/ t.acc[s.in].type = "sequence_reset"
Serves(s, t, at) == SesInv(t) /\ KeepsAccepted(s, t) /\ InTime(s, t, at)

\* Sending a message is calm.
LEMMA EmitIsCalm ==
    ASSUME NEW s, SesInv(s), NEW n \in Nat, NEW at \in Nat
    PROVE  Calm(s, [s EXCEPT !.out = @ + n, !.lastOut = at])
  <1> DEFINE t == [s EXCEPT !.out = @ + n, !.lastOut = at]
  <1>1. s \in Sessions /\ s.out + n \in Nat \ {0} /\ at \in Int
    BY DEF SesInv, Sessions
  <1>2. t \in Sessions
    BY <1>1 DEF Sessions
  <1>3. /\ t.st = s.st /\ t.in = s.in /\ t.acc = s.acc /\ t.test = s.test
        /\ t.sent = s.sent /\ t.deadline = s.deadline
    BY <1>1 DEF Sessions
  <1> HIDE DEF t
  <1>4. FutureFree(t) /\ TestKnown(t)
    BY <1>3 DEF SesInv, FutureFree, TestKnown
  <1> QED
    BY <1>2, <1>3, <1>4 DEF Calm, SesInv, t

LEMMA EmitOneIsCalm ==
    ASSUME NEW s, SesInv(s), NEW at \in Nat
    PROVE  Calm(s, Emit(s, at))
  BY EmitIsCalm, 1 \in Nat DEF Emit

\* So is a lost connection.
LEMMA DropIsCalm ==
    ASSUME NEW s, SesInv(s)
    PROVE  Calm(s, Drop(s))
  <1>1. s \in Sessions /\ "disconnected" \in States /\ -1 \in Int /\ 0 \in Nat
    BY DEF SesInv, States
  <1>2. Drop(s) \in Sessions
    BY <1>1 DEF Sessions, Drop, ClearTest, NoTest, Never
  <1>3. Drop(s).st = "disconnected" /\ Drop(s).in = s.in /\ Drop(s).acc = s.acc
    BY <1>1 DEF Sessions, Drop, ClearTest, NoTest, Never
  <1>4. FutureFree(Drop(s)) /\ TestKnown(Drop(s))
    BY <1>3 DEF SesInv, FutureFree, TestKnown
  <1> QED
    BY <1>2, <1>3, <1>4 DEF Calm, SesInv

LEMMA CalmTwice ==
    ASSUME NEW s, NEW t, NEW u, Calm(s, t), Calm(t, u)
    PROVE  Calm(s, u)
  BY DEF Calm

\* After an answer, calm steps keep what it established.
LEMMA ServesThenCalm ==
    ASSUME NEW s, NEW t, NEW u, NEW at, Serves(s, t, at), Calm(t, u)
    PROVE  Serves(s, u, at)
  BY DEF Serves, Calm, KeepsAccepted, InTime

LEMMA CalmServes ==
    ASSUME NEW s, NEW t, NEW at, SesInv(s), Calm(s, t)
    PROVE  Serves(s, t, at)
  <1>1. s.in \in Nat
    BY DEF SesInv, Sessions
  <1> QED
    BY <1>1 DEF Serves, Calm, KeepsAccepted, InTime

-----------------------------------------------------------------------------
\* The dispositions of receive, one fact each.
Accepts(s, m) == /\ m.form = "valid" /\ ~Unsupported(s, m) /\ m.seq = s.in
                 /\ ~BackwardReset(s, m)
Gap(s, m) == m.form = "valid" /\ ~Unsupported(s, m) /\ m.seq > s.in

LEMMA ReceiveCases ==
    ASSUME NEW s \in Sessions, NEW m \in Messages, NEW at
    PROVE  /\ Accepts(s, m) => Receive(s, m, at) = Accept(s, m, at)
           /\ Gap(s, m) => Receive(s, m, at) =
                  Result(Emit([s EXCEPT !.st = "recovering"], at), "sequence_gap", <<"resend_request">>)
           /\ ~Accepts(s, m) /\ ~Gap(s, m) =>
                  Receive(s, m, at).ses \in {s, RefuseWithReject(s, m, at).ses}
  <1>1. s.in \in Int /\ m.seq \in Int
    BY DEF Sessions, Messages
  <1>2. CASE m.form # "valid" \/ Unsupported(s, m)
    <2>1. Receive(s, m, at) = Refuse(s)
      BY <1>2, Zenon DEF Receive
    <2>2. Receive(s, m, at).ses = s
      BY <2>1 DEF Refuse, Result
    <2> QED
      BY <2>2, <1>2 DEF Accepts, Gap
  <1>3. CASE m.form = "valid" /\ ~Unsupported(s, m) /\ m.seq < s.in
    <2>1. \/ Receive(s, m, at) = Result(s, "accepted_replay", <<>>)
          \/ Receive(s, m, at) = RefuseWithReject(s, m, at)
      <3>1. ~(m.form # "valid" \/ Unsupported(s, m)) /\ ~(m.seq > s.in)
        BY <1>1, <1>3
      <3> QED
        BY <1>3, <3>1, Zenon DEF Receive
    <2>2. CASE Receive(s, m, at) = Result(s, "accepted_replay", <<>>)
      <3>1. Receive(s, m, at).ses = s
        BY <2>2 DEF Result
      <3> QED
        BY <3>1, <1>1, <1>3 DEF Accepts, Gap
    <2>3. CASE Receive(s, m, at) = RefuseWithReject(s, m, at)
      BY <2>3, <1>1, <1>3 DEF Accepts, Gap
    <2> QED
      BY <2>1, <2>2, <2>3
  <1>4. CASE Gap(s, m)
    <2>1. ~(m.form # "valid" \/ Unsupported(s, m)) /\ ~(m.seq < s.in)
      BY <1>1, <1>4 DEF Gap
    <2>2. Receive(s, m, at) =
             Result(Emit([s EXCEPT !.st = "recovering"], at), "sequence_gap", <<"resend_request">>)
      BY <1>4, <2>1, Zenon DEF Receive, Gap
    <2> QED
      BY <2>2, <1>1, <1>4 DEF Accepts, Gap
  <1>5. CASE m.form = "valid" /\ ~Unsupported(s, m) /\ m.seq = s.in
    <2>1. /\ ~(m.form # "valid" \/ Unsupported(s, m)) /\ ~(m.seq < s.in) /\ ~(m.seq > s.in)
      BY <1>1, <1>5
    <2>2. Receive(s, m, at) = IF BackwardReset(s, m) THEN RefuseWithReject(s, m, at)
                              ELSE Accept(s, m, at)
      BY <2>1, Zenon DEF Receive
    <2> QED
      BY <2>1, <2>2, <1>5 DEF Accepts, Gap
  <1> QED
    BY <1>1, <1>2, <1>3, <1>4, <1>5 DEF Gap

\* A rejection is recorded and answered once.
LEMMA RejectIsCalm ==
    ASSUME NEW s, SesInv(s), NEW m \in Messages, NEW at \in Nat
    PROVE  /\ Calm(s, RefuseWithReject(s, m, at).ses)
           /\ RefuseWithReject(s, m, at).ses.st = s.st
  <1> DEFINE t == [s EXCEPT !.rej = @ \cup {m}]
  <1>1. s \in Sessions
    BY DEF SesInv
  <1>2. s.rej \cup {m} \in SUBSET Messages
    BY <1>1 DEF Sessions
  <1>3. t \in Sessions
    BY <1>1, <1>2 DEF Sessions
  <1>4. /\ t.st = s.st /\ t.in = s.in /\ t.acc = s.acc /\ t.test = s.test
        /\ t.sent = s.sent /\ t.deadline = s.deadline
    BY <1>1 DEF Sessions
  <1>5. RefuseWithReject(s, m, at).ses \in {s, Emit(t, at)}
    BY DEF RefuseWithReject, Result
  <1> HIDE DEF t
  <1>6. Calm(s, t) /\ SesInv(t)
    BY <1>3, <1>4 DEF Calm, SesInv, FutureFree, TestKnown
  <1>7. Calm(s, Emit(t, at)) /\ Calm(s, s)
    BY <1>6, EmitOneIsCalm, CalmTwice DEF Calm
  <1>8. Emit(t, at).st = s.st
    BY <1>3, <1>4 DEF Emit, Sessions
  <1> QED
    BY <1>5, <1>7, <1>8

\* So is a message from the future: the session asks for what it missed.
LEMMA GapIsCalm ==
    ASSUME NEW s, SesInv(s), NEW at \in Nat
    PROVE  Calm(s, Emit([s EXCEPT !.st = "recovering"], at))
  <1> DEFINE t == [s EXCEPT !.st = "recovering"]
  <1>1. s \in Sessions /\ "recovering" \in States
    BY DEF SesInv, States
  <1>2. t \in Sessions /\ t.st = "recovering" /\ t.in = s.in /\ t.acc = s.acc
    BY <1>1 DEF Sessions
  <1> HIDE DEF t
  <1>3. Calm(s, t) /\ SesInv(t)
    BY <1>2 DEF Calm, SesInv, FutureFree, TestKnown
  <1> QED
    BY <1>3, EmitOneIsCalm, CalmTwice DEF t

\* The state after the number of a message in sequence is recorded.
Recorded(s, m, at) ==
    [s EXCEPT !.lastIn = at, !.acc[m.seq] = Identity(m),
              !.in = IF m.type = "sequence_reset" THEN m.arg ELSE @ + 1]

LEMMA RecordedServes ==
    ASSUME NEW s, SesInv(s), NEW m \in Messages, NEW at \in Nat, Accepts(s, m)
    PROVE  LET n == Recorded(s, m, at) IN
           /\ SesInv(n) /\ KeepsAccepted(s, n) /\ n.in > s.in
           /\ n.acc[s.in] = Identity(m)
           /\ n.st = s.st /\ n.test = s.test /\ n.sent = s.sent /\ n.deadline = s.deadline
  <1> DEFINE next == IF m.type = "sequence_reset" THEN m.arg ELSE s.in + 1
             n == Recorded(s, m, at)
  <1>1. s \in Sessions /\ s.in \in Nat \ {0} /\ m.seq \in 1 .. MaxSeq /\ m.seq = s.in
        /\ m.arg \in Nat /\ m.type \in MessageTypes
    BY DEF SesInv, Sessions, Messages, Accepts
  <1>2. next \in Nat \ {0} /\ next > s.in
    BY <1>1 DEF Accepts, BackwardReset
  <1>3. Identity(m) \in Identities
    BY <1>1 DEF Identity, Identities
  <1>4. s.acc \in [1 .. MaxSeq -> Identities]
    BY <1>1 DEF Sessions
  <1>5. [s.acc EXCEPT ![m.seq] = Identity(m)] \in [1 .. MaxSeq -> Identities]
    BY <1>3, <1>4
  <1>6. at \in Int
    OBVIOUS
  <1>7. n = [s EXCEPT !.lastIn = at, !.acc = [s.acc EXCEPT ![m.seq] = Identity(m)], !.in = next]
    BY <1>1 DEF Recorded, Sessions
  <1> HIDE DEF next
  <1>8. n \in Sessions
    BY <1>1, <1>2, <1>5, <1>6, <1>7 DEF Sessions
  <1>9. /\ n.st = s.st /\ n.in = next /\ n.acc = [s.acc EXCEPT ![m.seq] = Identity(m)]
        /\ n.test = s.test /\ n.sent = s.sent /\ n.deadline = s.deadline
    BY <1>1, <1>7 DEF Sessions
  <1> HIDE DEF n
  <1>10. n.acc[s.in] = Identity(m) /\ \A k \in 1 .. MaxSeq : k # s.in => n.acc[k] = s.acc[k]
    BY <1>1, <1>4, <1>9
  <1>11. s.acc[s.in] = NotAccepted
    BY <1>1 DEF SesInv, FutureFree
  <1>12. FutureFree(n)
    <2> SUFFICES ASSUME NEW k \in 1 .. MaxSeq, k >= n.in PROVE n.acc[k] = NotAccepted
      BY DEF FutureFree
    <2>1. k > s.in
      BY <1>1, <1>2, <1>9
    <2> QED
      BY <1>1, <1>10, <2>1 DEF SesInv, FutureFree
  <1>13. KeepsAccepted(s, n)
    BY <1>1, <1>2, <1>9, <1>10, <1>11 DEF KeepsAccepted
  <1>14. TestKnown(n)
    BY <1>9 DEF SesInv, TestKnown
  <1> QED
    BY <1>1, <1>2, <1>8, <1>9, <1>10, <1>12, <1>13, <1>14 DEF SesInv, n

\* Only the state changes, to one in which no answer is awaited.
LEMMA Moved ==
    ASSUME NEW s, SesInv(s), NEW q \in States \ {"test_request_pending"}
    PROVE  LET t == [s EXCEPT !.st = q] IN
           SesInv(t) /\ t.st = q /\ t.in = s.in /\ t.acc = s.acc
  <1>1. s \in Sessions
    BY DEF SesInv
  <1>2. LET t == [s EXCEPT !.st = q] IN
        t \in Sessions /\ t.st = q /\ t.in = s.in /\ t.acc = s.acc
    BY <1>1 DEF Sessions
  <1> QED
    BY <1>2 DEF SesInv, FutureFree, TestKnown

LEMMA HeartbeatServes ==
    ASSUME NEW s, SesInv(s), NEW m, NEW at \in Nat
    PROVE  LET t == MatchHeartbeat(s, m, at) IN
           /\ SesInv(t) /\ t.in = s.in /\ t.acc = s.acc
           /\ s.st = "test_request_pending" /\ t.st = "established" => at <= s.deadline
           /\ t.st \in {s.st, "established"}
  <1>1. CASE s.st = "test_request_pending" /\ m.arg = s.test /\ at <= s.deadline
    <2> DEFINE t == [ClearTest(s) EXCEPT !.st = "established"]
    <2>1. MatchHeartbeat(s, m, at) = t
      BY <1>1 DEF MatchHeartbeat
    <2>2. s \in Sessions /\ "established" \in States /\ -1 \in Int /\ 0 \in Nat
      BY DEF SesInv, States
    <2>3. t \in Sessions
      BY <2>2 DEF Sessions, ClearTest, NoTest, Never
    <2>4. t.st = "established" /\ t.in = s.in /\ t.acc = s.acc
      BY <2>2 DEF Sessions, ClearTest, NoTest, Never
    <2> HIDE DEF t
    <2> QED
      BY <1>1, <2>1, <2>3, <2>4 DEF SesInv, FutureFree, TestKnown
  <1>2. CASE ~(s.st = "test_request_pending" /\ m.arg = s.test /\ at <= s.deadline)
    <2>1. MatchHeartbeat(s, m, at) = s
      BY <1>2 DEF MatchHeartbeat
    <2> QED
      BY <2>1
  <1> QED
    BY <1>1, <1>2

\* A message in sequence is served, and the expected number moves on.
LEMMA AcceptServes ==
    ASSUME NEW s, SesInv(s), NEW m \in Messages, NEW at \in Nat, Accepts(s, m)
    PROVE  LET t == Accept(s, m, at).ses IN Serves(s, t, at) /\ t.in > s.in
  <1> DEFINE n == Recorded(s, m, at)
             r == Accept(s, m, at)
  <1>1. /\ SesInv(n) /\ KeepsAccepted(s, n) /\ n.in > s.in /\ n.acc[s.in] = Identity(m)
        /\ n.st = s.st /\ n.test = s.test /\ n.sent = s.sent /\ n.deadline = s.deadline
    BY RecordedServes
  <1>2. "terminated" \in States /\ "established" \in States /\ "recovering" \in States
    BY DEF States
  <1>3. ASSUME NEW t, SesInv(t), t.in = n.in, t.acc = n.acc,
               t.st = "established" => \/ n.st # "test_request_pending"
                                       \/ at <= s.deadline
                                       \/ m.type = "sequence_reset"
        PROVE  Serves(s, t, at) /\ t.in > s.in
    <2>1. KeepsAccepted(s, t) /\ t.in > s.in
      BY <1>1, <1>3 DEF KeepsAccepted
    <2>2. InTime(s, t, at)
      BY <1>1, <1>3 DEF InTime, Identity
    <2> QED
      BY <1>3, <2>1, <2>2 DEF Serves
  <1>4. ASSUME NEW q \in States \ {"test_request_pending"},
               q = "established" => n.st # "test_request_pending" \/ m.type = "sequence_reset"
        PROVE  LET t == [n EXCEPT !.st = q] IN Serves(s, t, at) /\ t.in > s.in
    <2> DEFINE t == [n EXCEPT !.st = q]
    <2>1. SesInv(t) /\ t.st = q /\ t.in = n.in /\ t.acc = n.acc
      BY <1>1, Moved
    <2> HIDE DEF t
    <2>2. Serves(s, t, at) /\ t.in > s.in
      BY <1>3, <1>4, <2>1
    <2> QED
      BY <2>2 DEF t
  <1>5. ~(m.type = "logon" /\ n.st = "test_request_pending")
    BY <1>1 DEF Accepts, Unsupported
  <1>6. CASE m.type \in {"sequence_reset", "logon"}
    <2>1. r.ses = [n EXCEPT !.st = "established"]
      BY <1>6, Zenon DEF Accept, Result, Recorded
    <2>2. "established" = "established" => n.st # "test_request_pending" \/ m.type = "sequence_reset"
      BY <1>5, <1>6
    <2> HIDE DEF n, r
    <2>3. LET t == [n EXCEPT !.st = "established"] IN Serves(s, t, at) /\ t.in > s.in
      BY <1>2, <1>4, <2>2
    <2> QED
      BY <2>1, <2>3 DEF r
  <1>7. CASE m.type = "heartbeat"
    <2>1. r.ses = MatchHeartbeat(n, m, at)
      <3>1. m.type \notin {"sequence_reset", "logon"}
        BY <1>7
      <3> QED
        BY <1>7, <3>1, Zenon DEF Accept, Result, Recorded
    <2> HIDE DEF n, r
    <2>2. /\ SesInv(r.ses) /\ r.ses.in = n.in /\ r.ses.acc = n.acc
          /\ n.st = "test_request_pending" /\ r.ses.st = "established" => at <= n.deadline
      BY <1>1, <2>1, HeartbeatServes
    <2>3. Serves(s, r.ses, at) /\ r.ses.in > s.in
      BY <1>1, <1>3, <2>2
    <2> QED
      BY <2>3 DEF r
  <1>8. CASE m.type = "resend_request"
    <2>1. r.ses = [n EXCEPT !.st = "recovering"]
      <3>1. m.type \notin {"sequence_reset", "logon"} /\ m.type # "heartbeat"
            /\ m.type # "test_request"
        BY <1>8
      <3> QED
        BY <1>8, <3>1, Zenon DEF Accept, Result, Recorded
    <2> HIDE DEF n, r
    <2>2. LET t == [n EXCEPT !.st = "recovering"] IN Serves(s, t, at) /\ t.in > s.in
      BY <1>2, <1>4
    <2> QED
      BY <2>1, <2>2 DEF r
  <1>9. CASE m.type = "test_request"
    <2>1. r.ses = Emit(n, at)
      <3>1. m.type \notin {"sequence_reset", "logon"} /\ m.type # "heartbeat"
        BY <1>9
      <3> QED
        BY <1>9, <3>1, Zenon DEF Accept, Result, Recorded
    <2> HIDE DEF n, r
    <2>2. Serves(s, n, at)
      BY <1>1, <1>3
    <2>3. Calm(n, r.ses)
      BY <1>1, <2>1, EmitOneIsCalm
    <2>4. Serves(s, r.ses, at) /\ r.ses.in > s.in
      BY <1>1, <2>2, <2>3, ServesThenCalm DEF Calm
    <2> QED
      BY <2>4 DEF r
  <1>10. CASE m.type = "logout"
    <2>1. r.ses \in {[n EXCEPT !.st = "terminated"], [Emit(n, at) EXCEPT !.st = "terminated"]}
      <3>1. m.type \notin {"sequence_reset", "logon"} /\ m.type # "heartbeat"
            /\ m.type # "test_request" /\ m.type # "resend_request"
        BY <1>10
      <3>2. CASE s.st = "logout_pending"
        BY <1>10, <3>1, <3>2, Zenon DEF Accept, Result, Recorded
      <3>3. CASE s.st # "logout_pending"
        BY <1>10, <3>1, <3>3, Zenon DEF Accept, Result, Recorded
      <3> QED
        BY <3>2, <3>3
    <2> HIDE DEF n, r
    <2>2. LET t == [n EXCEPT !.st = "terminated"] IN Serves(s, t, at) /\ t.in > s.in
      BY <1>2, <1>4
    <2>3. LET t == [Emit(n, at) EXCEPT !.st = "terminated"] IN Serves(s, t, at) /\ t.in > s.in
      <3> DEFINE e == Emit(n, at)
                 t == [e EXCEPT !.st = "terminated"]
      <3>1. Calm(n, e)
        BY <1>1, EmitOneIsCalm
      <3> HIDE DEF e
      <3>2. SesInv(t) /\ t.st = "terminated" /\ t.in = e.in /\ t.acc = e.acc
        BY <1>2, <3>1, Moved DEF Calm
      <3> HIDE DEF t
      <3>3. Serves(s, t, at) /\ t.in > s.in
        BY <1>3, <3>1, <3>2 DEF Calm
      <3> QED
        BY <3>3 DEF t, e
    <2> QED
      BY <2>1, <2>2, <2>3 DEF r
  <1>11. CASE m.type \notin {"sequence_reset", "logon", "heartbeat", "test_request",
                             "resend_request", "logout"}
    <2>1. r.ses = n
      <3>1. m.type \notin {"sequence_reset", "logon"} /\ m.type # "heartbeat"
            /\ m.type # "test_request" /\ m.type # "resend_request" /\ m.type # "logout"
        BY <1>11
      <3> QED
        BY <3>1, Zenon DEF Accept, Result, Recorded
    <2> HIDE DEF n, r
    <2>2. Serves(s, n, at) /\ n.in > s.in
      BY <1>1, <1>3
    <2> QED
      BY <2>1, <2>2 DEF r
  <1> QED
    BY <1>6, <1>7, <1>8, <1>9, <1>10, <1>11

\* Whatever the peer sends is served.
LEMMA ReceiveServes ==
    ASSUME NEW s, SesInv(s), NEW m \in Messages, NEW at \in Nat
    PROVE  Serves(s, Receive(s, m, at).ses, at)
  <1>1. s \in Sessions
    BY DEF SesInv
  <1>2. CASE Accepts(s, m)
    BY <1>1, <1>2, AcceptServes, ReceiveCases
  <1>3. CASE Gap(s, m)
    <2>1. Receive(s, m, at).ses = Emit([s EXCEPT !.st = "recovering"], at)
      BY <1>1, <1>3, ReceiveCases DEF Result
    <2> QED
      BY <2>1, GapIsCalm, CalmServes
  <1>4. CASE ~Accepts(s, m) /\ ~Gap(s, m)
    <2>1. Receive(s, m, at).ses \in {s, RefuseWithReject(s, m, at).ses}
      BY <1>1, <1>4, ReceiveCases
    <2>2. Calm(s, s)
      BY DEF Calm
    <2> QED
      BY <2>1, <2>2, RejectIsCalm, CalmServes
  <1> QED
    BY <1>2, <1>3, <1>4

\* A message delivered twice changes nothing the second time.
LEMMA SecondIsCalm ==
    ASSUME NEW s, SesInv(s), NEW m \in Messages, NEW at \in Nat,
           NEW t, t = Receive(s, m, at).ses
    PROVE  Calm(t, Receive(t, m, at).ses)
  <1>1. s \in Sessions /\ SesInv(t) /\ t \in Sessions
    BY ReceiveServes DEF SesInv, Serves
  <1>2. s.in \in Nat /\ t.in \in Nat /\ m.seq \in Nat
    BY <1>1 DEF Sessions, Messages
  <1>3. ~Accepts(t, m)
    <2>1. CASE Accepts(s, m)
      <3>1. t = Accept(s, m, at).ses
        BY <1>1, <2>1, ReceiveCases
      <3>2. t.in > s.in
        BY <2>1, <3>1, AcceptServes
      <3> QED
        BY <1>2, <2>1, <3>2 DEF Accepts
    <2>2. CASE Gap(s, m)
      <3>1. t = Emit([s EXCEPT !.st = "recovering"], at)
        BY <1>1, <2>2, ReceiveCases DEF Result
      <3>2. t.in = s.in
        BY <3>1, GapIsCalm DEF Calm
      <3> QED
        BY <1>2, <2>2, <3>2 DEF Accepts, Gap
    <2>3. CASE ~Accepts(s, m) /\ ~Gap(s, m)
      <3>1. t \in {s, RefuseWithReject(s, m, at).ses}
        BY <1>1, <2>3, ReceiveCases
      <3>2. t.in = s.in /\ t.st = s.st
        BY <3>1, RejectIsCalm DEF Calm
      <3> QED
        BY <2>3, <3>2 DEF Accepts, Unsupported, BackwardReset
    <2> QED
      BY <2>1, <2>2, <2>3
  <1>4. CASE Gap(t, m)
    <2>1. Receive(t, m, at).ses = Emit([t EXCEPT !.st = "recovering"], at)
      BY <1>1, <1>4, ReceiveCases DEF Result
    <2> QED
      BY <1>1, <2>1, GapIsCalm
  <1>5. CASE ~Gap(t, m)
    <2>1. Receive(t, m, at).ses \in {t, RefuseWithReject(t, m, at).ses}
      BY <1>1, <1>3, <1>5, ReceiveCases
    <2> QED
      BY <1>1, <2>1, RejectIsCalm DEF Calm
  <1> QED
    BY <1>4, <1>5

-----------------------------------------------------------------------------
(* Induction and folds.  A property of numbers or of sets is given as the   *)
(* set of those that have it.                                              *)

\* Induction over the natural numbers.
LEMMA NumbersInduct ==
    ASSUME NEW Good \in SUBSET Nat, 0 \in Good, \A n \in Good : n + 1 \in Good
    PROVE  \A n \in Nat : n \in Good
  <1> SUFFICES ASSUME Nat \ Good # {} PROVE FALSE
    OBVIOUS
  <1>1. PICK x \in Nat \ Good : \A y \in Nat \ Good : ~(<<y, x>> \in OpToRel(<, Nat))
    BY NatLessThanWellFounded, WFMin
  <1>2. x # 0 /\ x - 1 \in Nat /\ x - 1 < x /\ (x - 1) + 1 = x
    OBVIOUS
  <1>3. x - 1 \in Good
    <2> SUFFICES ASSUME x - 1 \in Nat \ Good PROVE FALSE
      BY <1>2
    <2>1. <<x - 1, x>> \in OpToRel(<, Nat)
      BY <1>2 DEF OpToRel
    <2> QED
      BY <1>1, <2>1
  <1> QED
    BY <1>1, <1>2, <1>3

\* Induction over the subsets of a finite set.
LEMMA SubsetsInduct ==
    ASSUME NEW S, IsFiniteSet(S), NEW Good \in SUBSET (SUBSET S), {} \in Good,
           \A s \in SUBSET S : (\A x \in s : s \ {x} \in Good) => s \in Good
    PROVE  \A s \in SUBSET S : s \in Good
  <1> DEFINE Sized(n) == \A s \in SUBSET S : Cardinality(s) = n => s \in Good
             N == {n \in Nat : Sized(n)}
  <1>1. \A s \in SUBSET S : IsFiniteSet(s) /\ Cardinality(s) \in Nat
    BY FS_Subset, FS_CardinalityType
  <1>2. 0 \in N
    <2>1. \A s \in SUBSET S : Cardinality(s) = 0 => s = {}
      BY <1>1, FS_EmptySet
    <2> QED
      BY <2>1
  <1>3. ASSUME NEW n \in N PROVE n + 1 \in N
    <2> SUFFICES ASSUME NEW s \in SUBSET S, Cardinality(s) = n + 1 PROVE s \in Good
      OBVIOUS
    <2>1. \A x \in s : Cardinality(s \ {x}) = n
      BY <1>1, FS_RemoveElement
    <2>2. \A x \in s : s \ {x} \in Good
      BY <2>1
    <2> QED
      BY <2>2
  <1> HIDE DEF N
  <1>4. N \in SUBSET Nat
    BY DEF N
  <1>5. \A n \in Nat : n \in N
    BY <1>2, <1>3, <1>4, NumbersInduct
  <1> QED
    BY <1>1, <1>5 DEF N

Picks(pick, S) == \A s \in SUBSET S : s # {} => pick[s] \in s
FoldOf(h, S, base, pick, g) ==
    \A s \in SUBSET S : h[s] = IF s = {} THEN base ELSE g[pick[s]][h[s \ {pick[s]}]]

\* A fold that picks the elements of a finite set one after the other exists.
LEMMA FoldExists ==
    ASSUME NEW S, IsFiniteSet(S), NEW R, NEW base \in R, NEW pick, Picks(pick, S),
           NEW g \in [S -> [R -> R]]
    PROVE  \E h \in [SUBSET S -> R] : FoldOf(h, S, base, pick, g)
  <1> DEFINE Folds(h, n) ==
                 \A s \in SUBSET S : Cardinality(s) <= n =>
                     h[s] = IF s = {} THEN base ELSE g[pick[s]][h[s \ {pick[s]}]]
             N == {n \in Nat : \E h \in [SUBSET S -> R] : Folds(h, n)}
  <1>1. \A s \in SUBSET S : IsFiniteSet(s) /\ Cardinality(s) \in Nat
    BY FS_Subset, FS_CardinalityType
  <1>0. \A s \in SUBSET S : s # {} => pick[s] \in s
    BY DEF Picks
  <1>2. 0 \in N
    <2> DEFINE h == [s \in SUBSET S |-> base]
    <2>1. h \in [SUBSET S -> R]
      OBVIOUS
    <2>2. \A s \in SUBSET S : Cardinality(s) <= 0 => s = {}
      BY <1>1, FS_EmptySet
    <2>3. Folds(h, 0)
      BY <2>2
    <2> QED
      BY <2>1, <2>3
  <1>3. ASSUME NEW n \in N PROVE n + 1 \in N
    <2>1. n \in Nat
      OBVIOUS
    <2>2. PICK h \in [SUBSET S -> R] : Folds(h, n)
      OBVIOUS
    <2> DEFINE k == [s \in SUBSET S |-> IF Cardinality(s) = n + 1
                                        THEN g[pick[s]][h[s \ {pick[s]}]] ELSE h[s]]
    <2>3. ASSUME NEW s \in SUBSET S, s # {} PROVE g[pick[s]][h[s \ {pick[s]}]] \in R
      <3>1. pick[s] \in S /\ s \ {pick[s]} \in SUBSET S
        BY <1>0, <2>3
      <3> QED
        BY <3>1
    <2>4. \A s \in SUBSET S : Cardinality(s) = n + 1 => s # {}
      <3>1. Cardinality({}) = 0 /\ n + 1 # 0
        BY <2>1, FS_EmptySet
      <3> QED
        BY <3>1
    <2>5. k \in [SUBSET S -> R]
      BY <2>3, <2>4
    <2>6. \A s \in SUBSET S : s # {} => Cardinality(s \ {pick[s]}) = Cardinality(s) - 1
      BY <1>0, <1>1, FS_RemoveElement
    <2>7. Folds(k, n + 1)
      <3> SUFFICES ASSUME NEW s \in SUBSET S, Cardinality(s) <= n + 1
                   PROVE  k[s] = IF s = {} THEN base ELSE g[pick[s]][k[s \ {pick[s]}]]
        OBVIOUS
      <3>1. CASE s = {}
        <4>1. Cardinality(s) = 0
          BY <3>1, FS_EmptySet
        <4>2. 0 # n + 1 /\ 0 <= n
          BY <2>1
        <4>3. k[s] = h[s]
          BY <4>1, <4>2
        <4>4. h[s] = base
          BY <2>2, <3>1, <4>1, <4>2
        <4> QED
          BY <3>1, <4>3, <4>4
      <3>2. CASE s # {}
        <4>1. pick[s] \in s /\ s \ {pick[s]} \in SUBSET S
          BY <1>0, <3>2
        <4>2. Cardinality(s \ {pick[s]}) = Cardinality(s) - 1
          BY <2>6, <3>2
        <4>3. Cardinality(s \ {pick[s]}) # n + 1
          BY <1>1, <2>1, <4>2
        <4>4. k[s \ {pick[s]}] = h[s \ {pick[s]}]
          BY <4>1, <4>3
        <4>5. k[s] = g[pick[s]][h[s \ {pick[s]}]]
          <5>1. CASE Cardinality(s) = n + 1
            BY <5>1
          <5>2. CASE Cardinality(s) # n + 1
            <6>1. Cardinality(s) <= n
              BY <1>1, <2>1, <5>2
            <6> QED
              BY <2>2, <3>2, <5>2, <6>1
          <5> QED
            BY <5>1, <5>2
        <4> QED
          BY <3>2, <4>4, <4>5
      <3> QED
        BY <3>1, <3>2
    <2>8. n + 1 \in Nat
      BY <2>1
    <2> HIDE DEF k, Folds
    <2>9. \E q \in [SUBSET S -> R] : Folds(q, n + 1)
      BY <2>5, <2>7
    <2> QED
      BY <2>8, <2>9
  <1> HIDE DEF N
  <1>4. N \in SUBSET Nat
    BY DEF N
  <1>5. Cardinality(S) \in N
    BY <1>1, <1>2, <1>3, <1>4, NumbersInduct
  <1>6. PICK h \in [SUBSET S -> R] : Folds(h, Cardinality(S))
    BY <1>5 DEF N
  <1>7. \A s \in SUBSET S : Cardinality(s) <= Cardinality(S)
    BY FS_Subset
  <1> QED
    BY <1>6, <1>7 DEF FoldOf

-----------------------------------------------------------------------------
(* Sums over finite sets.                                                  *)

Total(g, S) == FoldFunctionOnSet(+, 0, g, S)
Chosen(s) == CHOOSE x \in s : TRUE
Adds(h, g, S) == \A s \in SUBSET S :
    h[s] = IF s = {} THEN 0 ELSE g[Chosen(s)] + h[s \ {Chosen(s)}]
Adder(g, S) ==
    CHOOSE h : h = [s \in SUBSET S |-> IF s = {} THEN 0
                                       ELSE g[Chosen(s)] + h[s \ {Chosen(s)}]]

LEMMA TotalIsAdder ==
    ASSUME NEW g, NEW S
    PROVE  Total(g, S) = Adder(g, S)[S]
  BY Zenon DEF Total, FoldFunctionOnSet, MapThenFoldSet, Adder, Chosen

LEMMA AdderAdds ==
    ASSUME NEW U, NEW g \in [U -> Int], NEW S \in SUBSET U, IsFiniteSet(S)
    PROVE  Adder(g, S) \in [SUBSET S -> Int] /\ Adds(Adder(g, S), g, S)
  <1> DEFINE pick == [s \in SUBSET S |-> Chosen(s)]
             add == [x \in S |-> [v \in Int |-> g[x] + v]]
             Body(h) == [s \in SUBSET S |-> IF s = {} THEN 0
                                            ELSE g[Chosen(s)] + h[s \ {Chosen(s)}]]
  <1>1. \A s \in SUBSET S : s # {} => Chosen(s) \in s
    BY DEF Chosen
  <1>2. add \in [S -> [Int -> Int]]
    OBVIOUS
  <1>3. Picks(pick, S)
    BY <1>1 DEF Picks
  <1> HIDE DEF pick, add
  <1>4. PICK h \in [SUBSET S -> Int] : FoldOf(h, S, 0, pick, add)
    BY <1>2, <1>3, FoldExists, 0 \in Int
  <1>5. \A s \in SUBSET S : h[s] = IF s = {} THEN 0 ELSE g[Chosen(s)] + h[s \ {Chosen(s)}]
    <2> SUFFICES ASSUME NEW s \in SUBSET S, s # {}
                 PROVE  h[s] = g[Chosen(s)] + h[s \ {Chosen(s)}]
      BY <1>4 DEF FoldOf
    <2>1. pick[s] = Chosen(s) /\ Chosen(s) \in S
      BY <1>1 DEF pick
    <2>2. h[s \ {Chosen(s)}] \in Int
      OBVIOUS
    <2>3. add[Chosen(s)][h[s \ {Chosen(s)}]] = g[Chosen(s)] + h[s \ {Chosen(s)}]
      BY <2>1, <2>2 DEF add
    <2> QED
      BY <1>4, <2>1, <2>3 DEF FoldOf
  <1>6. h = Body(h)
    BY <1>5
  <1>7. Adder(g, S) = Body(Adder(g, S))
    BY <1>6, Zenon DEF Adder
  <1>8. Adds(Adder(g, S), g, S)
    BY <1>7 DEF Adds
  <1> DEFINE Good == {s \in SUBSET S : Adder(g, S)[s] \in Int}
  <1>9. {} \in Good
    BY <1>8 DEF Adds
  <1>10. ASSUME NEW s \in SUBSET S, \A x \in s : s \ {x} \in Good PROVE s \in Good
    <2>1. CASE s = {}
      BY <1>9, <2>1
    <2>2. CASE s # {}
      <3>1. Chosen(s) \in s /\ Chosen(s) \in U
        BY <1>1, <2>2
      <3>2. Adder(g, S)[s \ {Chosen(s)}] \in Int
        BY <1>10, <3>1
      <3>3. g[Chosen(s)] + Adder(g, S)[s \ {Chosen(s)}] \in Int
        BY <3>1, <3>2
      <3> QED
        BY <1>8, <2>2, <3>3 DEF Adds
    <2> QED
      BY <2>1, <2>2
  <1> HIDE DEF Good
  <1>11. \A s \in SUBSET S : s \in Good
    <2>1. Good \in SUBSET (SUBSET S)
      BY DEF Good
    <2> QED
      BY <1>9, <1>10, <2>1, SubsetsInduct
  <1>12. \A s \in SUBSET S : Adder(g, S)[s] \in Int
    BY <1>11 DEF Good
  <1> QED
    BY <1>7, <1>8, <1>12

\* The sum depends on nothing but the values of the elements.
LEMMA AddersAgree ==
    ASSUME NEW U, NEW g \in [U -> Int], NEW f \in [U -> Int],
           NEW S \in SUBSET U, IsFiniteSet(S), NEW T \in SUBSET S,
           \A x \in T : f[x] = g[x]
    PROVE  Adder(f, T)[T] = Adder(g, S)[T]
  <1>1. IsFiniteSet(T) /\ T \in SUBSET U
    BY FS_Subset
  <1>2. Adds(Adder(f, T), f, T) /\ Adds(Adder(g, S), g, S)
    BY <1>1, AdderAdds
  <1> DEFINE Good == {s \in SUBSET T : Adder(f, T)[s] = Adder(g, S)[s]}
  <1>3. {} \in Good
    BY <1>2 DEF Adds
  <1>4. ASSUME NEW s \in SUBSET T, \A x \in s : s \ {x} \in Good PROVE s \in Good
    <2>1. CASE s = {}
      BY <1>3, <2>1
    <2>2. CASE s # {}
      <3>1. Chosen(s) \in s
        BY <2>2 DEF Chosen
      <3>2. Adder(f, T)[s \ {Chosen(s)}] = Adder(g, S)[s \ {Chosen(s)}]
        BY <1>4, <3>1
      <3>3. f[Chosen(s)] = g[Chosen(s)]
        BY <3>1
      <3>4. s \in SUBSET T /\ s \in SUBSET S
        OBVIOUS
      <3> QED
        BY <1>2, <2>2, <3>2, <3>3, <3>4 DEF Adds
    <2> QED
      BY <2>1, <2>2
  <1> HIDE DEF Good
  <1>5. \A s \in SUBSET T : s \in Good
    <2>1. Good \in SUBSET (SUBSET T)
      BY DEF Good
    <2> QED
      BY <1>1, <1>3, <1>4, <2>1, SubsetsInduct
  <1> QED
    BY <1>5 DEF Good

LEMMA TotalSame ==
    ASSUME NEW U, NEW g \in [U -> Int], NEW f \in [U -> Int],
           NEW S \in SUBSET U, IsFiniteSet(S), \A x \in S : f[x] = g[x]
    PROVE  Total(f, S) = Total(g, S)
  BY AddersAgree, TotalIsAdder

LEMMA TotalType ==
    ASSUME NEW U, NEW g \in [U -> Int], NEW S \in SUBSET U, IsFiniteSet(S)
    PROVE  Total(g, S) \in Int /\ Total(g, {}) = 0
  <1>1. Total(g, S) \in Int
    <2>1. Adder(g, S) \in [SUBSET S -> Int] /\ S \in SUBSET S
      BY AdderAdds
    <2> QED
      BY <2>1, TotalIsAdder
  <1>2. {} \in SUBSET U /\ IsFiniteSet({})
    BY FS_EmptySet
  <1>3. Total(g, {}) = 0
    <2>1. Adds(Adder(g, {}), g, {})
      BY <1>2, AdderAdds
    <2> QED
      BY <2>1, TotalIsAdder DEF Adds
  <1> QED
    BY <1>1, <1>3

\* Any element may be taken out of a sum.
LEMMA TotalRemove ==
    ASSUME NEW U, NEW g \in [U -> Int], NEW S \in SUBSET U, IsFiniteSet(S), NEW x \in S
    PROVE  Total(g, S) = g[x] + Total(g, S \ {x})
  <1> DEFINE Good == {s \in SUBSET S : \A y \in s : Total(g, s) = g[y] + Total(g, s \ {y})}
  <1>1. \A s \in SUBSET S : IsFiniteSet(s) /\ s \in SUBSET U
    BY FS_Subset
  <1>2. \A s \in SUBSET S : s # {} => /\ Chosen(s) \in s
                                      /\ Total(g, s) = g[Chosen(s)] + Total(g, s \ {Chosen(s)})
    <2> SUFFICES ASSUME NEW s \in SUBSET S, s # {}
                 PROVE  /\ Chosen(s) \in s
                        /\ Total(g, s) = g[Chosen(s)] + Total(g, s \ {Chosen(s)})
      OBVIOUS
    <2>1. Chosen(s) \in s
      BY DEF Chosen
    <2>2. Adds(Adder(g, s), g, s)
      BY <1>1, AdderAdds
    <2>3. Adder(g, s)[s] = g[Chosen(s)] + Adder(g, s)[s \ {Chosen(s)}]
      BY <2>2 DEF Adds
    <2>4. Adder(g, s \ {Chosen(s)})[s \ {Chosen(s)}] = Adder(g, s)[s \ {Chosen(s)}]
      BY <1>1, AddersAgree
    <2> QED
      BY <2>1, <2>3, <2>4, TotalIsAdder
  <1>3. \A s \in SUBSET S : Total(g, s) \in Int
    BY <1>1, TotalType
  <1>4. ASSUME NEW s \in SUBSET S, \A y \in s : s \ {y} \in Good PROVE s \in Good
    <2> SUFFICES ASSUME NEW y \in s PROVE Total(g, s) = g[y] + Total(g, s \ {y})
      OBVIOUS
    <2> DEFINE c == Chosen(s)
    <2>1. c \in s /\ Total(g, s) = g[c] + Total(g, s \ {c})
      BY <1>2
    <2>2. CASE c = y
      BY <2>1, <2>2
    <2>3. CASE c # y
      <3>1. y \in s \ {c} /\ c \in s \ {y}
        BY <2>1, <2>3
      <3>2. Total(g, s \ {c}) = g[y] + Total(g, (s \ {c}) \ {y})
        BY <1>4, <2>1, <3>1
      <3>3. Total(g, s \ {y}) = g[c] + Total(g, (s \ {y}) \ {c})
        BY <1>4, <3>1
      <3>4. (s \ {c}) \ {y} = (s \ {y}) \ {c}
        OBVIOUS
      <3>5. Total(g, (s \ {y}) \ {c}) \in Int /\ g[c] \in Int /\ g[y] \in Int
        BY <1>3, <3>1
      <3> DEFINE rest == Total(g, (s \ {y}) \ {c})
      <3> HIDE DEF c
      <3>6. Total(g, s) = g[c] + (g[y] + rest) /\ Total(g, s \ {y}) = g[c] + rest
        BY <2>1, <3>2, <3>3, <3>4
      <3> HIDE DEF rest
      <3>7. rest \in Int
        BY <3>5 DEF rest
      <3> QED
        BY <3>5, <3>6, <3>7
    <2> QED
      BY <2>2, <2>3
  <1>5. {} \in Good
    OBVIOUS
  <1> HIDE DEF Good
  <1>6. \A s \in SUBSET S : s \in Good
    <2>1. Good \in SUBSET (SUBSET S)
      BY DEF Good
    <2> QED
      BY <1>4, <1>5, <2>1, SubsetsInduct
  <1> QED
    BY <1>6 DEF Good

-----------------------------------------------------------------------------
(* The orders at work, in their order.                                     *)

\* The active orders stand by submission time and identity, each of them once.
LEMMA OrdersListed ==
    ASSUME NEW b \in [Ids -> Orders]
    PROVE  /\ IsFiniteSet(Active(b)) /\ Active(b) \subseteq Ids
           /\ Cardinality(Active(b)) \in Nat
           /\ InOrder(b) \in [1 .. Cardinality(Active(b)) -> Active(b)]
           /\ \A k, m \in 1 .. Cardinality(Active(b)) : InOrder(b)[k] = InOrder(b)[m] => k = m
  <1> DEFINE A == Active(b)
             n == Cardinality(A)
             B(x) == Sooner(b, x)
             f == [x \in A |-> Cardinality(B(x)) + 1]
  <1>1. A \subseteq Ids /\ IsFiniteSet(A) /\ n \in Nat
    <2>1. A \subseteq Ids
      BY DEF Active
    <2> QED
      BY <2>1, GatewayMessages, FS_Subset, FS_CardinalityType
  <1>2. IsFiniteSet(1 .. n) /\ Cardinality(1 .. n) = n
    BY <1>1, FS_Interval
  <1>3. \A x \in A : x \in Nat /\ b[x].sub \in Nat
    BY <1>1, GatewayMessages DEF Orders
  <1> HIDE DEF A
  <1>4. \A x, y \in A : y \in B(x) <=> b[y].sub < b[x].sub \/ (b[y].sub = b[x].sub /\ y < x)
    BY DEF Sooner, A
  <1>5. \A x \in A : B(x) \subseteq A /\ x \notin B(x)
    <2>1. \A x \in A : B(x) \subseteq A
      BY DEF Sooner, A
    <2> QED
      BY <1>3, <1>4, <2>1
  <1> HIDE DEF B, n
  <1>6. ASSUME NEW x \in A, NEW S \in SUBSET A, B(x) \subseteq S, x \in S
        PROVE  Cardinality(B(x)) \in Nat /\ Cardinality(B(x)) < Cardinality(S)
    <2>1. IsFiniteSet(S) /\ Cardinality(S) \in Nat
      BY <1>1, FS_Subset, FS_CardinalityType
    <2>2. B(x) \in SUBSET S /\ B(x) # S
      BY <1>5, <1>6
    <2>3. /\ IsFiniteSet(B(x)) /\ Cardinality(B(x)) <= Cardinality(S)
          /\ Cardinality(S) # Cardinality(B(x))
      BY <2>1, <2>2, FS_Subset
    <2>4. Cardinality(B(x)) \in Nat
      BY <2>3, FS_CardinalityType
    <2> QED
      BY <2>1, <2>3, <2>4
  <1>7. f \in [A -> 1 .. n]
    <2> SUFFICES ASSUME NEW x \in A PROVE Cardinality(B(x)) + 1 \in 1 .. n
      OBVIOUS
    <2>1. Cardinality(B(x)) \in Nat /\ Cardinality(B(x)) < n
      BY <1>5, <1>6 DEF n
    <2> QED
      BY <1>1, <2>1
  <1>8. ASSUME NEW x \in A, NEW y \in A, x \in B(y)
        PROVE  Cardinality(B(x)) # Cardinality(B(y))
    <2>1. B(x) \subseteq B(y)
      <3> SUFFICES ASSUME NEW z \in B(x) PROVE z \in B(y)
        OBVIOUS
      <3>1. z \in A
        BY <1>5
      <3> QED
        BY <1>3, <1>4, <1>8, <3>1
    <2>2. B(y) \in SUBSET A
      BY <1>5
    <2>3. Cardinality(B(x)) \in Nat /\ Cardinality(B(x)) < Cardinality(B(y))
      BY <1>6, <1>8, <2>1, <2>2
    <2>4. Cardinality(B(y)) \in Nat
      BY <1>1, <2>2, FS_Subset, FS_CardinalityType
    <2> QED
      BY <2>3, <2>4
  <1>9. ASSUME NEW x \in A, NEW y \in A, f[x] = f[y]
        PROVE  x = y
    <2>1. Cardinality(B(x)) \in Nat /\ Cardinality(B(y)) \in Nat
      BY <1>5, <1>6
    <2>2. Cardinality(B(x)) = Cardinality(B(y))
      BY <1>9, <2>1
    <2>3. x \notin B(y) /\ y \notin B(x)
      BY <1>8, <2>2
    <2> QED
      BY <1>3, <1>4, <2>3
  <1>10. f \in Surjection(A, 1 .. n)
    <2>1. f \in Injection(A, 1 .. n)
      BY <1>7, <1>9 DEF Injection, IsInjective
    <2> HIDE DEF f
    <2> QED
      BY <1>1, <1>2, <2>1, FS_Injection DEF n
  <1>11. ASSUME NEW k \in 1 .. n
         PROVE  InOrder(b)[k] \in A /\ Cardinality(B(InOrder(b)[k])) = k - 1
    <2>1. \E x \in A : f[x] = k
      BY <1>10 DEF Surjection
    <2>2. PICK x \in A : Cardinality(B(x)) + 1 = k
      BY <2>1
    <2>3. Cardinality(B(x)) \in Nat
      BY <1>5, <1>6
    <2>4. Cardinality(B(x)) = k - 1
      BY <2>2, <2>3
    <2> QED
      BY <2>4 DEF InOrder, A, B, n
  <1>12. InOrder(b) \in [1 .. n -> A]
    BY <1>11 DEF InOrder, A, n
  <1>13. \A k, m \in 1 .. n : InOrder(b)[k] = InOrder(b)[m] => k = m
    <2> SUFFICES ASSUME NEW k \in 1 .. n, NEW m \in 1 .. n, InOrder(b)[k] = InOrder(b)[m]
                 PROVE  k = m
      OBVIOUS
    <2>1. Cardinality(B(InOrder(b)[k])) = k - 1 /\ Cardinality(B(InOrder(b)[m])) = m - 1
      BY <1>11
    <2>2. k - 1 = m - 1
      BY <2>1
    <2> QED
      BY <1>1, <2>2
  <1> QED
    BY <1>1, <1>12, <1>13 DEF A, n

-----------------------------------------------------------------------------
(* What a market pass does to one order.                                   *)

Accounts == [held : Int, fails : SUBSET Ids]
Fills    == [id : Ids, side : {"buy", "sell"}, qty : Nat, price : Int, fee : Int, taker : BOOLEAN]
Results  == [book : [Ids -> Orders], acct : Accounts, upd : Seq(Ids \X OrderStates),
             fills : Seq(Fills), raised : BOOLEAN]

After(r, i) == r.acct.held + (IF r.book[i].side = "buy" THEN r.book[i].qty ELSE -r.book[i].qty)
Traded(r, i, fill) == [Market!Settled(r, i, "filled") EXCEPT
                           !.acct = [r.acct EXCEPT !.held = After(r, i)],
                           !.fills = Append(@, fill)]
Raises(r) == [r EXCEPT !.raised = TRUE]
Allowed(r, i) == ~Blocked(r.book[i], r.acct.held, r.book, i)

\* A fill raises, is rejected by risk, or trades the whole order.
FillOutcome(r, i, t) ==
    \/ t = Raises(r)
    \/ t = Market!Settled(r, i, "rejected")
    \/ Allowed(r, i) /\ \E fill \in Fills : t = Traded(r, i, fill)

LEMMA Filling ==
    ASSUME NEW r \in Results, NEW i \in Ids, NEW base \in Int,
           NEW taker \in BOOLEAN, NEW slips \in BOOLEAN
    PROVE  FillOutcome(r, i, Market!FillOrder(r, i, base, taker, slips))
  <1> DEFINE order == r.book[i]
             price == IF slips THEN Market!SlippedPrice(order.side, base) ELSE base
             fee == Market!FeeOf(price, order.qty, taker)
             fill == [id |-> i, side |-> order.side, qty |-> order.qty, price |-> price,
                      fee |-> fee, taker |-> taker]
             applied == ApplyFill(r.acct, i, fill)
             t == Market!FillOrder(r, i, base, taker, slips)
  <1>1. order \in Orders /\ r.acct \in Accounts
    BY DEF Results
  <1>2. order.qty \in Nat /\ order.side \in {"buy", "sell"}
    BY <1>1 DEF Orders
  <1>3. price \in Int
    BY <1>2, MarketPrices DEF Market!SlippedPrice
  <1>4. fee \in Int
    <2> HIDE DEF price, order
    <2>1. (price * order.qty * (IF taker THEN TakerBps ELSE MakerBps)) \in Int
      BY <1>2, <1>3, MarketPrices
    <2> QED
      BY <2>1 DEF Market!FeeOf
  <1>5. fill \in Fills
    <2> HIDE DEF price, order, fee
    <2> QED
      BY <1>2, <1>3, <1>4 DEF Fills
  <1>6. t = IF price <= 0 \/ (order.limit # Market!NoPrice /\ ~Market!Reaches(order, price))
            THEN [r EXCEPT !.raised = TRUE]
            ELSE IF ~PreFill(r.acct, r.book, i, price, fee) THEN Market!Settled(r, i, "rejected")
            ELSE IF ~applied.ok THEN [r EXCEPT !.raised = TRUE, !.acct = applied.acct]
            ELSE [Market!Settled(r, i, "filled") EXCEPT !.acct = applied.acct,
                                                        !.fills = Append(@, fill)]
    BY Zenon DEF Market!FillOrder
  <1>11. PreFill(r.acct, r.book, i, price, fee) <=> ~Blocked(order, r.acct.held, r.book, i)
    BY DEF PreFill
  <1>7. applied = IF (Spot /\ After(r, i) < 0) \/ i \in r.acct.fails
                  THEN [ok |-> FALSE, acct |-> r.acct]
                  ELSE [ok |-> TRUE, acct |-> [r.acct EXCEPT !.held = After(r, i)]]
    BY DEF ApplyFill, After
  <1>8. [r EXCEPT !.raised = TRUE, !.acct = r.acct] = Raises(r)
    BY DEF Raises, Results
  <1> HIDE DEF order, price, fee, fill, applied, t
  <1>9. CASE (Spot /\ After(r, i) < 0) \/ i \in r.acct.fails
    <2>1. ~applied.ok /\ applied.acct = r.acct
      BY <1>7, <1>9
    <2>2. t \in {Raises(r), Market!Settled(r, i, "rejected")}
      BY <1>6, <1>8, <2>1 DEF Raises
    <2> QED
      BY <2>2 DEF FillOutcome, t
  <1>10. CASE ~((Spot /\ After(r, i) < 0) \/ i \in r.acct.fails)
    <2>1. applied.ok /\ applied.acct = [r.acct EXCEPT !.held = After(r, i)]
      BY <1>7, <1>10
    <2>2. \/ t \in {Raises(r), Market!Settled(r, i, "rejected")}
          \/ t = Traded(r, i, fill) /\ ~Blocked(order, r.acct.held, r.book, i)
      BY <1>6, <1>11, <2>1 DEF Traded, Raises
    <2> QED
      BY <1>5, <2>2 DEF FillOutcome, t, Allowed, order
  <1> QED
    BY <1>9, <1>10

\* The parts of a result after an order settled, after a pass raised and after an
\* order traded.
LEMMA SettledParts ==
    ASSUME NEW r \in Results, NEW i \in Ids, NEW st \in OrderStates
    PROVE  LET t == Market!Settled(r, i, st) IN
           /\ t \in Results
           /\ t.book = [r.book EXCEPT ![i] = [@ EXCEPT !.st = st]]
           /\ t.acct = r.acct /\ t.upd = Append(r.upd, <<i, st>>) /\ t.raised = r.raised
           /\ t.fills = r.fills
  <1> DEFINE order == [r.book[i] EXCEPT !.st = st]
             b == [r.book EXCEPT ![i] = order]
             u == Append(r.upd, <<i, st>>)
             t == [r EXCEPT !.book = b, !.upd = u]
  <1>1. r.book \in [Ids -> Orders] /\ r.book[i] \in Orders /\ r.upd \in Seq(Ids \X OrderStates)
    BY DEF Results
  <1>2. order \in Orders
    BY <1>1 DEF Orders
  <1>3. b \in [Ids -> Orders]
    BY <1>1, <1>2
  <1>4. <<i, st>> \in Ids \X OrderStates
    OBVIOUS
  <1>5. u \in Seq(Ids \X OrderStates)
    BY <1>1, <1>4
  <1>6. Market!Settled(r, i, st) = t
    BY DEF Market!Settled, Results
  <1> HIDE DEF b, u
  <1>7. t \in Results /\ t.book = b /\ t.acct = r.acct /\ t.upd = u /\ t.raised = r.raised
        /\ t.fills = r.fills
    BY <1>3, <1>5 DEF Results
  <1> QED
    BY <1>6, <1>7 DEF b, u

LEMMA RaisesParts ==
    ASSUME NEW r \in Results
    PROVE  /\ Raises(r) \in Results /\ Raises(r).raised
           /\ Raises(r).book = r.book /\ Raises(r).acct = r.acct /\ Raises(r).upd = r.upd
  BY DEF Raises, Results

LEMMA TradedParts ==
    ASSUME NEW r \in Results, NEW i \in Ids, NEW fill \in Fills
    PROVE  LET t == Traded(r, i, fill) IN
           /\ t \in Results
           /\ t.book = [r.book EXCEPT ![i] = [@ EXCEPT !.st = "filled"]]
           /\ t.acct.held = After(r, i)
           /\ t.upd = Append(r.upd, <<i, "filled">>) /\ t.raised = r.raised
  <1> DEFINE s == Market!Settled(r, i, "filled")
             a == [r.acct EXCEPT !.held = After(r, i)]
             f == Append(s.fills, fill)
             t == [s EXCEPT !.acct = a, !.fills = f]
  <1>1. "filled" \in OrderStates
    BY DEF OrderStates
  <1>2. /\ s \in Results /\ s.book = [r.book EXCEPT ![i] = [@ EXCEPT !.st = "filled"]]
        /\ s.upd = Append(r.upd, <<i, "filled">>) /\ s.raised = r.raised
    BY <1>1, SettledParts
  <1>3. r.acct \in Accounts /\ r.book[i] \in Orders
    BY DEF Results
  <1>4. After(r, i) \in Int
    BY <1>3 DEF After, Accounts, Orders
  <1>5. a \in Accounts /\ a.held = After(r, i)
    BY <1>3, <1>4 DEF Accounts
  <1> HIDE DEF s
  <1>6. f \in Seq(Fills)
    <2>1. s.fills \in Seq(Fills)
      BY <1>2 DEF Results
    <2> QED
      BY <2>1
  <1>7. Traded(r, i, fill) = t
    BY DEF Traded, s
  <1> HIDE DEF a, f
  <1>8. t \in Results /\ t.book = s.book /\ t.acct = a /\ t.upd = s.upd /\ t.raised = s.raised
    BY <1>2, <1>5, <1>6 DEF Results
  <1> HIDE DEF t
  <1> QED
    BY <1>2, <1>5, <1>7, <1>8

-----------------------------------------------------------------------------
\* The book and the position agree, and what is at work for sale is held.
FilledOn(b, side) == {i \in Ids : b[i].st = "filled" /\ b[i].side = side}
Selling(b) == {i \in Active(b) : b[i].side = "sell"}
Holding(h, b) ==
    /\ h = Held + Quantity(b, FilledOn(b, "buy")) - Quantity(b, FilledOn(b, "sell"))
    /\ Spot => h >= Quantity(b, Selling(b))

LEMMA QuantityType ==
    ASSUME NEW b \in [Ids -> Orders], NEW S \in SUBSET Ids
    PROVE  IsFiniteSet(S) /\ Quantity(b, S) \in Int
  <1> DEFINE g == [j \in DOMAIN b |-> b[j].qty]
  <1>1. g \in [Ids -> Int]
    BY DEF Orders
  <1>2. IsFiniteSet(S)
    BY GatewayMessages, FS_Subset
  <1>3. Total(g, S) \in Int
    BY <1>1, <1>2, TotalType
  <1> QED
    BY <1>2, <1>3 DEF Quantity, Total

LEMMA QuantityRemove ==
    ASSUME NEW b \in [Ids -> Orders], NEW S \in SUBSET Ids, NEW i \in S
    PROVE  Quantity(b, S) = b[i].qty + Quantity(b, S \ {i})
  <1> DEFINE g == [j \in DOMAIN b |-> b[j].qty]
  <1>1. g \in [Ids -> Int] /\ g[i] = b[i].qty
    BY DEF Orders
  <1>2. IsFiniteSet(S)
    BY GatewayMessages, FS_Subset
  <1>3. Total(g, S) = g[i] + Total(g, S \ {i})
    BY <1>1, <1>2, TotalRemove
  <1> QED
    BY <1>1, <1>3 DEF Quantity, Total

LEMMA QuantitySame ==
    ASSUME NEW b \in [Ids -> Orders], NEW c \in [Ids -> Orders], NEW S \in SUBSET Ids,
           \A i \in S : c[i].qty = b[i].qty
    PROVE  Quantity(c, S) = Quantity(b, S)
  <1> DEFINE g == [j \in DOMAIN b |-> b[j].qty]
             f == [j \in DOMAIN c |-> c[j].qty]
  <1>1. g \in [Ids -> Int] /\ f \in [Ids -> Int] /\ \A i \in S : f[i] = g[i]
    BY DEF Orders
  <1>2. IsFiniteSet(S)
    BY GatewayMessages, FS_Subset
  <1>3. Total(f, S) = Total(g, S)
    BY <1>1, <1>2, TotalSame
  <1> QED
    BY <1>3 DEF Quantity, Total

\* c is b with the order i in another state.
Restated(b, c, i, st) ==
    /\ c \in [Ids -> Orders] /\ c[i] = [b[i] EXCEPT !.st = st]
    /\ \A j \in Ids \ {i} : c[j] = b[j]

LEMMA RestatedSets ==
    ASSUME NEW b \in [Ids -> Orders], NEW c, NEW i \in Ids, NEW st \in OrderStates,
           Restated(b, c, i, st), IsActive(b[i])
    PROVE  /\ c[i].st = st /\ c[i].side = b[i].side /\ c[i].qty = b[i].qty
           /\ \A S \in SUBSET Ids : Quantity(c, S) = Quantity(b, S)
           /\ st # "filled" => \A side : FilledOn(c, side) = FilledOn(b, side)
           /\ st = "filled" => /\ FilledOn(c, b[i].side) = FilledOn(b, b[i].side) \cup {i}
                               /\ i \notin FilledOn(b, b[i].side)
                               /\ \A side : side # b[i].side => FilledOn(c, side) = FilledOn(b, side)
           /\ st = "triggered" => Selling(c) = Selling(b)
           /\ st \in {"filled", "rejected", "expired", "cancelled"} =>
                  Selling(c) = Selling(b) \ {i}
  <1>1. b[i] \in Orders /\ c \in [Ids -> Orders]
    BY DEF Restated
  <1>2. c[i].st = st /\ c[i].side = b[i].side /\ c[i].qty = b[i].qty
    BY <1>1 DEF Restated, Orders
  <1>3. \A j \in Ids \ {i} : c[j] = b[j]
    BY DEF Restated
  <1>4. \A S \in SUBSET Ids : Quantity(c, S) = Quantity(b, S)
    <2>1. \A j \in Ids : c[j].qty = b[j].qty
      BY <1>2, <1>3
    <2> QED
      BY <1>1, <2>1, QuantitySame
  <1>5. b[i].st # "filled"
    BY DEF IsActive
  <1>6. st # "filled" => \A side : FilledOn(c, side) = FilledOn(b, side)
    BY <1>2, <1>3, <1>5 DEF FilledOn
  <1>7. st = "filled" => /\ FilledOn(c, b[i].side) = FilledOn(b, b[i].side) \cup {i}
                         /\ i \notin FilledOn(b, b[i].side)
                         /\ \A side : side # b[i].side => FilledOn(c, side) = FilledOn(b, side)
    BY <1>2, <1>3, <1>5 DEF FilledOn
  <1>8. DOMAIN b = Ids /\ DOMAIN c = Ids
    BY <1>1
  <1>9. st = "triggered" => Selling(c) = Selling(b)
    BY <1>2, <1>3, <1>8 DEF Selling, Active, IsActive
  <1>10. st \in {"filled", "rejected", "expired", "cancelled"} => Selling(c) = Selling(b) \ {i}
    BY <1>2, <1>3, <1>8 DEF Selling, Active, IsActive
  <1> QED
    BY <1>2, <1>4, <1>6, <1>7, <1>9, <1>10

LEMMA FilledAreIds ==
    ASSUME NEW b \in [Ids -> Orders]
    PROVE  Selling(b) \in SUBSET Ids /\ \A side : FilledOn(b, side) \in SUBSET Ids
  BY DEF Selling, FilledOn, Active

\* An order that is triggered, rejected, cancelled or expired needs no position.
LEMMA HoldingUntraded ==
    ASSUME NEW b \in [Ids -> Orders], NEW c, NEW i \in Ids, NEW h \in Int, Holding(h, b),
           NEW st \in {"triggered", "rejected", "expired", "cancelled"},
           Restated(b, c, i, st), IsActive(b[i])
    PROVE  Holding(h, c)
  <1>1. st \in OrderStates
    BY DEF OrderStates
  <1>2. /\ \A S \in SUBSET Ids : Quantity(c, S) = Quantity(b, S)
        /\ \A side : FilledOn(c, side) = FilledOn(b, side)
        /\ Selling(c) \in {Selling(b), Selling(b) \ {i}}
    BY <1>1, RestatedSets
  <1>3. /\ Selling(b) \in SUBSET Ids /\ Selling(b) \ {i} \in SUBSET Ids
        /\ \A side : FilledOn(b, side) \in SUBSET Ids
    BY FilledAreIds
  <1>4. h = Held + Quantity(c, FilledOn(c, "buy")) - Quantity(c, FilledOn(c, "sell"))
    <2>1. Quantity(c, FilledOn(c, "buy")) = Quantity(b, FilledOn(b, "buy"))
      BY <1>2, <1>3
    <2>2. Quantity(c, FilledOn(c, "sell")) = Quantity(b, FilledOn(b, "sell"))
      BY <1>2, <1>3
    <2> QED
      BY <2>1, <2>2 DEF Holding
  <1>5. ASSUME Spot PROVE h >= Quantity(c, Selling(c))
    <2>1. Quantity(c, Selling(c)) = Quantity(b, Selling(c))
      BY <1>2, <1>3
    <2>2. h >= Quantity(b, Selling(b))
      BY <1>5 DEF Holding
    <2>3. CASE Selling(c) = Selling(b) \ {i} /\ i \in Selling(b)
      <3>1. Quantity(b, Selling(b)) = b[i].qty + Quantity(b, Selling(c))
        BY <1>3, <2>3, QuantityRemove
      <3>2. Quantity(b, Selling(c)) \in Int /\ b[i].qty \in Nat
        BY <1>3, <2>3, QuantityType DEF Orders
      <3> QED
        BY <2>1, <2>2, <3>1, <3>2
    <2>4. CASE Selling(c) = Selling(b)
      BY <2>1, <2>2, <2>4
    <2> QED
      BY <1>2, <2>3, <2>4
  <1> QED
    BY <1>4, <1>5 DEF Holding

\* An order that trades changes the position by what it fills, and a sell only
\* trades what no other one needs.
LEMMA HoldingTraded ==
    ASSUME NEW r \in Results, NEW c, NEW i \in Ids, Holding(r.acct.held, r.book),
           Restated(r.book, c, i, "filled"), IsActive(r.book[i]), Allowed(r, i)
    PROVE  Holding(After(r, i), c)
  <1> DEFINE b == r.book
             h == r.acct.held
             side == b[i].side
             q == b[i].qty
             other == IF side = "buy" THEN "sell" ELSE "buy"
  <1>1. b \in [Ids -> Orders] /\ b[i] \in Orders /\ r.acct \in Accounts
    BY DEF Results
  <1>2. h \in Int /\ q \in Nat /\ side \in {"buy", "sell"}
    BY <1>1 DEF Accounts, Orders
  <1>3. "filled" \in OrderStates
    BY DEF OrderStates
  <1>4. /\ \A S \in SUBSET Ids : Quantity(c, S) = Quantity(b, S)
        /\ FilledOn(c, side) = FilledOn(b, side) \cup {i} /\ i \notin FilledOn(b, side)
        /\ FilledOn(c, other) = FilledOn(b, other)
        /\ Selling(c) = Selling(b) \ {i}
    <2>1. other # side
      BY <1>2
    <2>2. "filled" \in {"filled", "rejected", "expired", "cancelled"}
      OBVIOUS
    <2> HIDE DEF other
    <2>4. Restated(b, c, i, "filled") /\ IsActive(b[i])
      OBVIOUS
    <2> HIDE DEF b
    <2>3. /\ \A S \in SUBSET Ids : Quantity(c, S) = Quantity(b, S)
          /\ FilledOn(c, b[i].side) = FilledOn(b, b[i].side) \cup {i}
          /\ i \notin FilledOn(b, b[i].side)
          /\ \A s : s # b[i].side => FilledOn(c, s) = FilledOn(b, s)
          /\ Selling(c) = Selling(b) \ {i}
      BY <1>1, <1>3, <2>2, <2>4, RestatedSets
    <2> QED
      BY <2>1, <2>3
  <1>5. Selling(b) \in SUBSET Ids /\ \A s : FilledOn(b, s) \in SUBSET Ids
    BY <1>1, FilledAreIds
  <1>6. Holding(h, b)
    OBVIOUS
  <1>7. After(r, i) = h + (IF side = "buy" THEN q ELSE -q)
    BY DEF After
  <1>8. ~Blocked(b[i], h, b, i)
    BY DEF Allowed
  <1> HIDE DEF b, h
  <1>9. Quantity(c, FilledOn(c, side)) = q + Quantity(b, FilledOn(b, side))
    <2> DEFINE F == FilledOn(b, side) \cup {i}
    <2>1. F \in SUBSET Ids /\ i \in F /\ F \ {i} = FilledOn(b, side)
      BY <1>4, <1>5
    <2>2. Quantity(b, F) = q + Quantity(b, FilledOn(b, side))
      BY <1>1, <2>1, QuantityRemove
    <2> QED
      BY <1>4, <2>1, <2>2
  <1>10. Quantity(c, FilledOn(c, other)) = Quantity(b, FilledOn(b, other))
    BY <1>4, <1>5
  <1>11. \A s : Quantity(b, FilledOn(b, s)) \in Int
    BY <1>1, <1>5, QuantityType
  <1>12. After(r, i) = Held + Quantity(c, FilledOn(c, "buy")) - Quantity(c, FilledOn(c, "sell"))
    <2>1. h = Held + Quantity(b, FilledOn(b, "buy")) - Quantity(b, FilledOn(b, "sell"))
      BY <1>6 DEF Holding
    <2>2. Held \in Int
      BY GatewayConstants
    <2>3. CASE side = "buy"
      BY <1>2, <1>7, <1>9, <1>10, <1>11, <2>1, <2>2, <2>3
    <2>4. CASE side = "sell"
      BY <1>2, <1>7, <1>9, <1>10, <1>11, <2>1, <2>2, <2>4
    <2> QED
      BY <1>2, <2>3, <2>4
  <1>13. ASSUME Spot PROVE After(r, i) >= Quantity(c, Selling(c))
    <2>1. Quantity(c, Selling(c)) = Quantity(b, Selling(b) \ {i})
      BY <1>4, <1>5
    <2>2. h >= Quantity(b, Selling(b))
      BY <1>6, <1>13 DEF Holding
    <2>3. Quantity(b, Selling(b) \ {i}) \in Int
      BY <1>1, <1>5, QuantityType
    <2>4. CASE side = "buy"
      <3>1. Selling(b) \ {i} = Selling(b)
        BY <2>4 DEF Selling
      <3>2. Quantity(c, Selling(c)) <= h
        BY <2>1, <2>2, <3>1
      <3>3. Quantity(c, Selling(c)) \in Int
        BY <2>1, <2>3
      <3> QED
        BY <1>2, <1>7, <2>4, <3>2, <3>3
    <2>5. CASE side = "sell"
      <3>1. Reserved(b, i) = Quantity(b, Selling(b) \ {i})
        <4>1. {j \in Active(b) \ {i} : Spot /\ b[j].side = "sell"} = Selling(b) \ {i}
          BY <1>13 DEF Selling
        <4> QED
          BY <4>1 DEF Reserved
      <3>2. ~(q > h - Quantity(b, Selling(b) \ {i}))
        BY <1>8, <1>13, <2>5, <3>1 DEF Blocked
      <3> QED
        BY <1>2, <1>7, <2>1, <2>3, <2>5, <3>2
    <2> QED
      BY <1>2, <2>4, <2>5
  <1> QED
    BY <1>12, <1>13 DEF Holding

-----------------------------------------------------------------------------
\* The updates u of a pass that began with book b and has come to c: the last
\* update of an order, if there is one, names its state, and an order without
\* one is in the state it was in.
LastWord(u, i, k) == k \in 1 .. Len(u) /\ u[k][1] = i /\ \A m \in (k + 1) .. Len(u) : u[m][1] # i
Silent(u, i) == \A k \in 1 .. Len(u) : u[k][1] # i
Told(u, b, c) == \A i \in Ids : \/ Silent(u, i) /\ c[i].st = b[i].st
                                \/ \E k \in Nat : LastWord(u, i, k) /\ u[k][2] = c[i].st

LEMMA ToldMore ==
    ASSUME NEW b \in [Ids -> Orders], NEW c \in [Ids -> Orders], NEW u \in Seq(Ids \X OrderStates),
           Told(u, b, c), NEW i \in Ids, NEW st \in OrderStates, NEW d, Restated(c, d, i, st)
    PROVE  Told(Append(u, <<i, st>>), b, d)
  <1> DEFINE w == Append(u, <<i, st>>)
             n == Len(u)
  <1>1. n \in Nat /\ Len(w) = n + 1 /\ w[n + 1] = <<i, st>> /\ \A k \in 1 .. n : w[k] = u[k]
    BY DEF n
  <1>2. w[n + 1][1] = i /\ w[n + 1][2] = st
    BY <1>1
  <1>3. d[i].st = st /\ \A j \in Ids \ {i} : d[j] = c[j]
    <2>1. c[i] \in Orders
      OBVIOUS
    <2> QED
      BY <2>1 DEF Restated, Orders
  <1> SUFFICES ASSUME NEW j \in Ids
               PROVE  \/ Silent(w, j) /\ d[j].st = b[j].st
                      \/ \E k \in Nat : LastWord(w, j, k) /\ w[k][2] = d[j].st
    BY DEF Told
  <1> HIDE DEF w, n
  <1>4. CASE j = i
    <2>1. n + 1 \in Nat /\ n + 1 \in 1 .. Len(w) /\ (n + 1 + 1) .. Len(w) = {}
      BY <1>1
    <2>2. LastWord(w, i, n + 1)
      BY <1>2, <2>1 DEF LastWord
    <2> QED
      BY <1>2, <1>3, <1>4, <2>1, <2>2
  <1>5. CASE j # i
    <2>1. d[j] = c[j]
      BY <1>3, <1>5
    <2>2. CASE Silent(u, j) /\ c[j].st = b[j].st
      <3>1. Silent(w, j)
        <4> SUFFICES ASSUME NEW k \in 1 .. Len(w) PROVE w[k][1] # j
          BY DEF Silent
        <4>1. CASE k = n + 1
          BY <1>2, <1>5, <4>1
        <4>2. CASE k # n + 1
          <5>1. k \in 1 .. n
            BY <1>1, <4>2
          <5> QED
            BY <1>1, <2>2, <5>1 DEF Silent, n
        <4> QED
          BY <4>1, <4>2
      <3> QED
        BY <2>1, <2>2, <3>1
    <2>3. ASSUME NEW k \in Nat, LastWord(u, j, k), u[k][2] = c[j].st
          PROVE  LastWord(w, j, k) /\ w[k][2] = d[j].st
      <3>1. k \in 1 .. n /\ u[k][1] = j /\ \A m \in (k + 1) .. n : u[m][1] # j
        BY <2>3 DEF LastWord, n
      <3>2. k \in 1 .. Len(w) /\ w[k] = u[k]
        BY <1>1, <3>1
      <3>3. ASSUME NEW m \in (k + 1) .. Len(w) PROVE w[m][1] # j
        <4>1. CASE m = n + 1
          BY <1>2, <1>5, <4>1
        <4>2. CASE m # n + 1
          <5>1. m \in (k + 1) .. n /\ m \in 1 .. n
            BY <1>1, <3>1, <4>2
          <5> QED
            BY <1>1, <3>1, <5>1
        <4> QED
          BY <4>1, <4>2
      <3> QED
        BY <2>1, <2>3, <3>1, <3>2, <3>3 DEF LastWord
    <2>4. \/ Silent(u, j) /\ c[j].st = b[j].st
          \/ \E k \in Nat : LastWord(u, j, k) /\ u[k][2] = c[j].st
      BY DEF Told
    <2> QED
      BY <2>1, <2>2, <2>3, <2>4
  <1> QED
    BY <1>4, <1>5

-----------------------------------------------------------------------------
\* What a pass keeps from order to order.
PassInv(b, r) == r \in Results /\ Holding(r.acct.held, r.book) /\ Told(r.upd, b, r.book)

Small(r, t, i) ==
    \/ t = r \/ t = Raises(r)
    \/ \E st \in {"triggered", "rejected", "expired"} : t = Market!Settled(r, i, st)
    \/ Allowed(r, i) /\ \E fill \in Fills : t = Traded(r, i, fill)

LEMMA SmallType ==
    ASSUME NEW r \in Results, NEW i \in Ids, NEW t, Small(r, t, i)
    PROVE  t \in Results
  <1>1. {"triggered", "rejected", "expired"} \subseteq OrderStates
    BY DEF OrderStates
  <1>2. CASE t = r \/ t = Raises(r)
    BY <1>2, RaisesParts
  <1>3. ASSUME NEW st \in {"triggered", "rejected", "expired"}, t = Market!Settled(r, i, st)
        PROVE  t \in Results
    BY <1>1, <1>3, SettledParts
  <1>4. ASSUME NEW fill \in Fills, t = Traded(r, i, fill)
        PROVE  t \in Results
    BY <1>4, TradedParts
  <1> QED
    BY <1>2, <1>3, <1>4 DEF Small

LEMMA SmallKeeps ==
    ASSUME NEW b \in [Ids -> Orders], NEW r, PassInv(b, r), NEW i \in Ids,
           IsActive(r.book[i]), NEW t, Small(r, t, i)
    PROVE  PassInv(b, t) /\ \A j \in Ids \ {i} : t.book[j] = r.book[j]
  <1>1. /\ r \in Results /\ Holding(r.acct.held, r.book) /\ Told(r.upd, b, r.book)
        /\ r.book \in [Ids -> Orders] /\ r.book[i] \in Orders
        /\ r.upd \in Seq(Ids \X OrderStates) /\ r.acct.held \in Int
    BY DEF PassInv, Results, Accounts
  <1>2. t \in Results
    BY <1>1, SmallType
  <1>3. CASE t = r \/ t = Raises(r)
    BY <1>1, <1>2, <1>3, RaisesParts DEF PassInv
  <1>4. ASSUME NEW st \in OrderStates, t.book = [r.book EXCEPT ![i] = [@ EXCEPT !.st = st]]
        PROVE  Restated(r.book, t.book, i, st) /\ \A j \in Ids \ {i} : t.book[j] = r.book[j]
    <2>1. t.book \in [Ids -> Orders]
      BY <1>2 DEF Results
    <2> QED
      BY <1>1, <1>4, <2>1 DEF Restated
  <1>5. ASSUME NEW st \in {"triggered", "rejected", "expired"}, t = Market!Settled(r, i, st)
        PROVE  PassInv(b, t) /\ \A j \in Ids \ {i} : t.book[j] = r.book[j]
    <2>1. st \in OrderStates
      BY DEF OrderStates
    <2>2. /\ t.book = [r.book EXCEPT ![i] = [@ EXCEPT !.st = st]]
          /\ t.acct = r.acct /\ t.upd = Append(r.upd, <<i, st>>)
      BY <1>1, <1>5, <2>1, SettledParts
    <2>3. Restated(r.book, t.book, i, st) /\ \A j \in Ids \ {i} : t.book[j] = r.book[j]
      BY <1>4, <2>1, <2>2
    <2>4. Holding(r.acct.held, t.book)
      BY <1>1, <2>3, HoldingUntraded
    <2>5. Told(Append(r.upd, <<i, st>>), b, t.book)
      BY <1>1, <2>1, <2>3, ToldMore
    <2>6. Told(t.upd, b, t.book)
      BY <2>2, <2>5
    <2> QED
      BY <1>2, <2>2, <2>3, <2>4, <2>6 DEF PassInv
  <1>6. ASSUME NEW fill \in Fills, Allowed(r, i), t = Traded(r, i, fill)
        PROVE  PassInv(b, t) /\ \A j \in Ids \ {i} : t.book[j] = r.book[j]
    <2>1. "filled" \in OrderStates
      BY DEF OrderStates
    <2>2. /\ t.book = [r.book EXCEPT ![i] = [@ EXCEPT !.st = "filled"]]
          /\ t.acct.held = After(r, i) /\ t.upd = Append(r.upd, <<i, "filled">>)
      BY <1>1, <1>6, TradedParts
    <2>3. Restated(r.book, t.book, i, "filled") /\ \A j \in Ids \ {i} : t.book[j] = r.book[j]
      BY <1>4, <2>1, <2>2
    <2>4. Holding(After(r, i), t.book)
      BY <1>1, <1>6, <2>3, HoldingTraded
    <2>5. Told(Append(r.upd, <<i, "filled">>), b, t.book)
      BY <1>1, <2>1, <2>3, ToldMore
    <2>6. Told(t.upd, b, t.book)
      BY <2>2, <2>5
    <2> QED
      BY <1>2, <2>2, <2>3, <2>4, <2>6 DEF PassInv
  <1> QED
    BY <1>3, <1>5, <1>6 DEF Small

\* An order is settled once, or triggered and then settled.
Works(r, t, i) ==
    LET u == Market!Settled(r, i, "triggered") IN Small(r, t, i) \/ Small(u, t, i)

LEMMA WorksType ==
    ASSUME NEW r \in Results, NEW i \in Ids, NEW t, Works(r, t, i)
    PROVE  t \in Results
  <1> DEFINE u == Market!Settled(r, i, "triggered")
  <1>1. "triggered" \in OrderStates
    BY DEF OrderStates
  <1>2. u \in Results
    BY <1>1, SettledParts
  <1> QED
    BY <1>2, SmallType DEF Works

LEMMA WorksKeeps ==
    ASSUME NEW b \in [Ids -> Orders], NEW r, PassInv(b, r), NEW i \in Ids,
           IsActive(r.book[i]), NEW t, Works(r, t, i)
    PROVE  PassInv(b, t) /\ \A j \in Ids \ {i} : t.book[j] = r.book[j]
  <1> DEFINE u == Market!Settled(r, i, "triggered")
  <1>1. CASE Small(r, t, i)
    BY <1>1, SmallKeeps
  <1>2. CASE Small(u, t, i)
    <2>1. "triggered" \in OrderStates /\ r \in Results
      BY DEF OrderStates, PassInv
    <2>2. u.book = [r.book EXCEPT ![i] = [@ EXCEPT !.st = "triggered"]]
      BY <2>1, SettledParts
    <2>3. IsActive(u.book[i])
      <3>1. r.book \in [Ids -> Orders] /\ r.book[i] \in Orders
        BY <2>1 DEF Results
      <3> QED
        BY <2>2, <3>1 DEF IsActive, Orders
    <2>4. Small(r, u, i)
      BY DEF Small
    <2> HIDE DEF u
    <2>5. PassInv(b, u) /\ \A j \in Ids \ {i} : u.book[j] = r.book[j]
      BY <2>4, SmallKeeps
    <2>6. PassInv(b, t) /\ \A j \in Ids \ {i} : t.book[j] = u.book[j]
      BY <1>2, <2>3, <2>5, SmallKeeps
    <2> QED
      BY <2>5, <2>6
  <1> QED
    BY <1>1, <1>2 DEF Works

LEMMA FillingIsSmall ==
    ASSUME NEW r \in Results, NEW i \in Ids
    PROVE  /\ \A base \in Int, taker, slips \in BOOLEAN :
                  Small(r, Market!FillOrder(r, i, base, taker, slips), i)
           /\ \A st \in {"triggered", "rejected", "expired"} : Small(r, Market!Settled(r, i, st), i)
           /\ Small(r, r, i)
  <1>1. ASSUME NEW base \in Int, NEW taker \in BOOLEAN, NEW slips \in BOOLEAN
        PROVE  Small(r, Market!FillOrder(r, i, base, taker, slips), i)
    BY Filling DEF FillOutcome, Small
  <1>2. \A st \in {"triggered", "rejected", "expired"} : Small(r, Market!Settled(r, i, st), i)
    BY DEF Small
  <1>3. Small(r, r, i)
    BY DEF Small
  <1> QED
    BY <1>1, <1>2, <1>3

\* At the open, and over a completed bar.
LEMMA OpenWorks ==
    ASSUME NEW r \in Results, NEW i \in Ids, NEW open \in Nat
    PROVE  Works(r, Market!OpenOrder(r, i, open), i)
  <1> DEFINE t == Market!OpenOrder(r, i, open)
             u == Market!Settled(r, i, "triggered")
             S == {r, Market!Settled(r, i, "expired"),
                   Market!FillOrder(r, i, open, TRUE, TRUE), Market!FillOrder(r, i, open, FALSE, FALSE),
                   u, Market!Settled(u, i, "expired"), Market!FillOrder(u, i, open, TRUE, FALSE)}
             o == r.book[i]
             working == o.type = "limit" \/ (o.type = "stop_limit" /\ o.st = "triggered")
  <1>1. t \in S
    <2>1. CASE o.type = "market"
      BY <2>1, Zenon DEF Market!OpenOrder
    <2>2. CASE o.type # "market" /\ working
      BY <2>2, Zenon DEF Market!OpenOrder
    <2>3. CASE o.type # "market" /\ ~working /\ o.type = "stop"
      BY <2>3, Zenon DEF Market!OpenOrder
    <2>4. CASE o.type # "market" /\ ~working /\ o.type # "stop"
      BY <2>4, Zenon DEF Market!OpenOrder
    <2> QED
      BY <2>1, <2>2, <2>3, <2>4
  <1>2. "triggered" \in OrderStates /\ open \in Int
    BY DEF OrderStates
  <1>3. u \in Results
    BY <1>2, SettledParts
  <1> HIDE DEF t, u
  <1>4. \A x \in {r, Market!Settled(r, i, "expired"), Market!FillOrder(r, i, open, TRUE, TRUE),
                  Market!FillOrder(r, i, open, FALSE, FALSE)} : Small(r, x, i)
    BY <1>2, FillingIsSmall
  <1>5. \A x \in {u, Market!Settled(u, i, "expired"), Market!FillOrder(u, i, open, TRUE, FALSE)} :
            Small(u, x, i)
    BY <1>2, <1>3, FillingIsSmall
  <1>6. Small(r, t, i) \/ Small(u, t, i)
    BY <1>1, <1>4, <1>5
  <1> QED
    BY <1>6 DEF Works, t, u

LEMMA BarWorks ==
    ASSUME NEW r \in Results, NEW i \in Ids, NEW low \in Nat, NEW high \in Nat
    PROVE  Works(r, Market!BarOrder(r, i, low, high), i)
  <1> DEFINE t == Market!BarOrder(r, i, low, high)
             o == r.book[i]
  <1>1. t \in {r, Market!Settled(r, i, "triggered"), Market!FillOrder(r, i, o.limit, FALSE, FALSE),
               Market!FillOrder(r, i, o.stop, TRUE, TRUE)}
    BY Zenon DEF Market!BarOrder
  <1>2. o \in Orders /\ o.limit \in Int /\ o.stop \in Int
    BY DEF Results, Orders
  <1> HIDE DEF t, o
  <1>3. Small(r, t, i)
    BY <1>1, <1>2, FillingIsSmall
  <1> QED
    BY <1>3 DEF Works, t

-----------------------------------------------------------------------------
(* A market pass, order by order.                                          *)

LEMMA PrefixGreatest ==
    ASSUME NEW k \in Nat, 1 <= k
    PROVE  Market!Max(1 .. k) = k /\ Max(1 .. k) = k
  <1>1. k \in 1 .. k /\ \A y \in 1 .. k : k >= y
    OBVIOUS
  <1>2. \A x \in 1 .. k : (\A y \in 1 .. k : x >= y) => x = k
    OBVIOUS
  <1>3. Market!Max(1 .. k) = k
    BY <1>1, <1>2 DEF Market!Max
  <1>4. Max(1 .. k) = k
    BY <1>1, <1>2 DEF Max
  <1> QED
    BY <1>3, <1>4

LEMMA PrefixParts ==
    ASSUME NEW n \in Nat, NEW k \in 1 .. n
    PROVE  /\ (1 .. k) \in SUBSET (1 .. n)
           /\ (1 .. k) # {}
           /\ (1 .. k) \ {k} = 1 .. (k - 1)
  <1>1. k \in Nat /\ 1 <= k /\ k <= n
    OBVIOUS
  <1>2. \A y : y \in 1 .. k => y \in 1 .. n
    BY <1>1
  <1>3. k \in 1 .. k
    BY <1>1
  <1>4. \A y : y \in (1 .. k) \ {k} <=> y \in 1 .. (k - 1)
    BY <1>1
  <1>5. (1 .. k) \ {k} = 1 .. (k - 1)
    BY <1>4
  <1>6. (1 .. k) \in SUBSET (1 .. n)
    BY <1>2, Zenon
  <1>7. (1 .. k) # {}
    BY <1>3, Zenon
  <1> QED
    BY <1>5, <1>6, <1>7

LEMMA GreatestIn ==
    ASSUME NEW n \in Nat, NEW s \in SUBSET (1 .. n), s # {}
    PROVE  Market!Max(s) \in s /\ Max(s) \in s
  <1> DEFINE N == {m \in Nat : \A t \in SUBSET (1 .. m) : t # {} => \E x \in t : \A y \in t : x >= y}
  <1>1. 0 \in N
    <2>1. 1 .. 0 = {}
      OBVIOUS
    <2> QED
      BY <2>1
  <1>2. ASSUME NEW m \in N PROVE m + 1 \in N
    <2>1. m \in Nat /\ m + 1 \in Nat
      OBVIOUS
    <2> SUFFICES ASSUME NEW t \in SUBSET (1 .. (m + 1)), t # {}
                 PROVE  \E x \in t : \A y \in t : x >= y
      BY <2>1
    <2>2. CASE m + 1 \in t
      <3>1. \A y \in t : m + 1 >= y
        BY <2>1
      <3> QED
        BY <2>2, <3>1
    <2>3. CASE m + 1 \notin t
      <3>1. t \in SUBSET (1 .. m)
        <4>1. ASSUME NEW y \in t PROVE y \in 1 .. m
          <5>1. y \in 1 .. (m + 1) /\ y # m + 1
            BY <2>3
          <5> QED
            BY <2>1, <5>1
        <4> QED
          BY <4>1
      <3> QED
        BY <3>1
    <2> QED
      BY <2>2, <2>3
  <1> HIDE DEF N
  <1>3. n \in N
    <2>1. N \in SUBSET Nat
      BY DEF N
    <2> QED
      BY <1>1, <1>2, <2>1, NumbersInduct
  <1>4. \E x \in s : \A y \in s : x >= y
    BY <1>3 DEF N
  <1> QED
    BY <1>4 DEF Market!Max, Max

\* The order list is the one the pass uses.
LEMMA SameOrder ==
    ASSUME NEW b
    PROVE  Market!InOrder(b) = InOrder(b)
  <1>0. \A S : Market!Cardinality(S) = Cardinality(S)
    BY Zenon DEF Market!Cardinality, Cardinality
  <1>1. Market!Active(b) = Active(b)
    BY DEF Market!Active, Active, Market!IsActive, IsActive
  <1>2. \A i : Market!Sooner(b, i) = Sooner(b, i)
    BY <1>1 DEF Market!Sooner, Sooner
  <1> QED
    BY <1>0, <1>1, <1>2 DEF Market!InOrder, InOrder

PassStep(kind, r, i, bar, at) ==
    IF kind = "open"
    THEN IF r.raised \/ at < r.book[i].sub THEN r ELSE Market!OpenOrder(r, i, bar.open)
    ELSE IF r.raised \/ at <= r.book[i].sub \/ r.book[i].tif = "ioc" THEN r
         ELSE Market!BarOrder(r, i, bar.low, bar.high)

Prices == [open : Nat, low : Nat, high : Nat]

LEMMA PassStepWorks ==
    ASSUME NEW kind, NEW r \in Results, NEW i \in Ids, NEW bar \in Prices, NEW at
    PROVE  Works(r, PassStep(kind, r, i, bar, at), i)
  <1>1. bar.open \in Nat /\ bar.low \in Nat /\ bar.high \in Nat
    BY DEF Prices
  <1>2. Works(r, Market!OpenOrder(r, i, bar.open), i)
    BY <1>1, OpenWorks
  <1>3. Works(r, Market!BarOrder(r, i, bar.low, bar.high), i)
    BY <1>1, BarWorks
  <1>4. Works(r, r, i)
    BY DEF Works, Small
  <1> QED
    BY <1>2, <1>3, <1>4 DEF PassStep

LEMMA StartOfPass ==
    ASSUME NEW b \in [Ids -> Orders], NEW a \in Accounts
    PROVE  LET r == Market!Pass(b, a) IN
           r \in Results /\ r.book = b /\ r.acct = a /\ r.upd = <<>>
  BY DEF Market!Pass, Results

\* h[s] is the result of the orders at the positions s of the list q.
RunsPass(h, kind, b, a, bar, at) ==
    LET q == InOrder(b) IN
    \A s \in SUBSET DOMAIN q :
        h[s] = IF s = {} THEN Market!Pass(b, a)
               ELSE PassStep(kind, h[s \ {Market!Max(s)}], q[Market!Max(s)], bar, at)

LEMMA PassExists ==
    ASSUME NEW kind, NEW b \in [Ids -> Orders], NEW a \in Accounts, NEW bar \in Prices, NEW at
    PROVE  \E h \in [SUBSET DOMAIN InOrder(b) -> Results] : RunsPass(h, kind, b, a, bar, at)
  <1> DEFINE q == InOrder(b)
             n == Cardinality(Active(b))
             base == Market!Pass(b, a)
             pick == [s \in SUBSET (1 .. n) |-> Market!Max(s)]
             g == [k \in 1 .. n |-> [r \in Results |-> PassStep(kind, r, q[k], bar, at)]]
  <1>1. n \in Nat /\ q \in [1 .. n -> Ids] /\ DOMAIN q = 1 .. n
    BY OrdersListed
  <1>2. base \in Results
    BY StartOfPass
  <1> HIDE DEF q, n, base
  <1>3. IsFiniteSet(1 .. n)
    BY <1>1, FS_Interval
  <1>4. Picks(pick, 1 .. n)
    BY <1>1, GreatestIn DEF Picks
  <1>5. g \in [1 .. n -> [Results -> Results]]
    <2>1. ASSUME NEW k \in 1 .. n, NEW r \in Results
          PROVE  PassStep(kind, r, q[k], bar, at) \in Results
      <3>1. q[k] \in Ids
        BY <1>1
      <3> QED
        BY <3>1, PassStepWorks, WorksType
    <2> QED
      BY <2>1
  <1> HIDE DEF pick, g
  <1>6. PICK h \in [SUBSET (1 .. n) -> Results] : FoldOf(h, 1 .. n, base, pick, g)
    BY <1>2, <1>3, <1>4, <1>5, FoldExists
  <1>7. ASSUME NEW s \in SUBSET (1 .. n)
        PROVE  h[s] = IF s = {} THEN base
                      ELSE PassStep(kind, h[s \ {Market!Max(s)}], q[Market!Max(s)], bar, at)
    <2>1. CASE s = {}
      BY <1>6, <2>1 DEF FoldOf
    <2>2. CASE s # {}
      <3>1. pick[s] = Market!Max(s) /\ Market!Max(s) \in 1 .. n
        BY <1>1, <2>2, GreatestIn DEF pick
      <3>2. h[s \ {Market!Max(s)}] \in Results
        OBVIOUS
      <3>3. g[Market!Max(s)][h[s \ {Market!Max(s)}]]
                = PassStep(kind, h[s \ {Market!Max(s)}], q[Market!Max(s)], bar, at)
        BY <3>1, <3>2 DEF g
      <3> QED
        BY <1>6, <2>2, <3>1, <3>3 DEF FoldOf
    <2> QED
      BY <2>1, <2>2
  <1>8. RunsPass(h, kind, b, a, bar, at)
    BY <1>1, <1>7 DEF RunsPass, q, base
  <1> QED
    BY <1>1, <1>8 DEF q

\* The runs of the two passes, as the folds define them.
OpenStep(r, i, open, at) ==
    IF r.raised \/ at < r.book[i].sub THEN r ELSE Market!OpenOrder(r, i, open)
BarStep(r, i, low, high, at) ==
    IF r.raised \/ at <= r.book[i].sub \/ r.book[i].tif = "ioc" THEN r
    ELSE Market!BarOrder(r, i, low, high)

OpenRun(q, b, a, open, at) ==
    CHOOSE h : h = [s \in SUBSET DOMAIN q |->
                       IF s = {} THEN Market!Pass(b, a)
                       ELSE OpenStep(h[s \ {Market!Max(s)}], q[Market!Max(s)], open, at)]
BarRun(q, b, a, low, high, at) ==
    CHOOSE h : h = [s \in SUBSET DOMAIN q |->
                       IF s = {} THEN Market!Pass(b, a)
                       ELSE BarStep(h[s \ {Market!Max(s)}], q[Market!Max(s)], low, high, at)]

LEMMA OpenIsItsRun ==
    ASSUME NEW b, NEW a, NEW open, NEW at
    PROVE  Market!ProcessOpen(b, a, open, at)
               = OpenRun(InOrder(b), b, a, open, at)[DOMAIN InOrder(b)]
  <1>1. Market!InOrder(b) = InOrder(b)
    BY SameOrder
  <1>2. Market!ProcessOpen(b, a, open, at)
            = OpenRun(Market!InOrder(b), b, a, open, at)[DOMAIN Market!InOrder(b)]
    BY Zenon DEF Market!ProcessOpen, Market!FoldLeft, Market!MapThenFoldSet, OpenRun, OpenStep
  <1> QED
    BY <1>1, <1>2, Zenon

LEMMA BarIsItsRun ==
    ASSUME NEW b, NEW a, NEW low, NEW high, NEW at
    PROVE  Market!ProcessBar(b, a, low, high, at)
               = BarRun(InOrder(b), b, a, low, high, at)[DOMAIN InOrder(b)]
  <1>1. Market!InOrder(b) = InOrder(b)
    BY SameOrder
  <1>2. Market!ProcessBar(b, a, low, high, at)
            = BarRun(Market!InOrder(b), b, a, low, high, at)[DOMAIN Market!InOrder(b)]
    BY Zenon DEF Market!ProcessBar, Market!FoldLeft, Market!MapThenFoldSet, BarRun, BarStep
  <1> QED
    BY <1>1, <1>2, Zenon

LEMMA OpenRuns ==
    ASSUME NEW b \in [Ids -> Orders], NEW a \in Accounts, NEW bar \in Prices, NEW at
    PROVE  RunsPass(OpenRun(InOrder(b), b, a, bar.open, at), "open", b, a, bar, at)
  <1> DEFINE q == InOrder(b)
             run == OpenRun(q, b, a, bar.open, at)
             Body(h) == [s \in SUBSET DOMAIN q |->
                            IF s = {} THEN Market!Pass(b, a)
                            ELSE OpenStep(h[s \ {Market!Max(s)}], q[Market!Max(s)], bar.open, at)]
  <1>1. PICK h \in [SUBSET DOMAIN q -> Results] : RunsPass(h, "open", b, a, bar, at)
    BY PassExists
  <1>2. \A r, i : PassStep("open", r, i, bar, at) = OpenStep(r, i, bar.open, at)
    BY DEF PassStep, OpenStep
  <1>3. h = Body(h)
    <2>1. \A s \in SUBSET DOMAIN q :
              h[s] = IF s = {} THEN Market!Pass(b, a)
                     ELSE OpenStep(h[s \ {Market!Max(s)}], q[Market!Max(s)], bar.open, at)
      BY <1>1, <1>2, Zenon DEF RunsPass
    <2> QED
      BY <2>1
  <1>4. run = Body(run)
    BY <1>3, Zenon DEF OpenRun
  <1> HIDE DEF run, q
  <1>5. \A s \in SUBSET DOMAIN q :
            run[s] = IF s = {} THEN Market!Pass(b, a)
                     ELSE OpenStep(run[s \ {Market!Max(s)}], q[Market!Max(s)], bar.open, at)
    BY <1>4
  <1>6. ASSUME NEW s \in SUBSET DOMAIN q
        PROVE  run[s] = IF s = {} THEN Market!Pass(b, a)
                        ELSE PassStep("open", run[s \ {Market!Max(s)}], q[Market!Max(s)], bar, at)
    <2>1. CASE s = {}
      BY <1>5, <2>1
    <2>2. CASE s # {}
      <3> DEFINE x == run[s \ {Market!Max(s)}]
                 y == q[Market!Max(s)]
      <3>1. PassStep("open", x, y, bar, at) = OpenStep(x, y, bar.open, at)
        BY <1>2
      <3>2. run[s] = OpenStep(x, y, bar.open, at)
        BY <1>5, <2>2
      <3> QED
        BY <2>2, <3>1, <3>2, Zenon
    <2> QED
      BY <2>1, <2>2
  <1>7. RunsPass(run, "open", b, a, bar, at)
    BY <1>6, Zenon DEF RunsPass, q
  <1> QED
    BY <1>7 DEF run, q

LEMMA BarRuns ==
    ASSUME NEW b \in [Ids -> Orders], NEW a \in Accounts, NEW bar \in Prices, NEW at
    PROVE  RunsPass(BarRun(InOrder(b), b, a, bar.low, bar.high, at), "bar", b, a, bar, at)
  <1> DEFINE q == InOrder(b)
             run == BarRun(q, b, a, bar.low, bar.high, at)
             Body(h) == [s \in SUBSET DOMAIN q |->
                            IF s = {} THEN Market!Pass(b, a)
                            ELSE BarStep(h[s \ {Market!Max(s)}], q[Market!Max(s)], bar.low, bar.high, at)]
  <1>1. PICK h \in [SUBSET DOMAIN q -> Results] : RunsPass(h, "bar", b, a, bar, at)
    BY PassExists
  <1>2. \A r, i : PassStep("bar", r, i, bar, at) = BarStep(r, i, bar.low, bar.high, at)
    BY DEF PassStep, BarStep
  <1>3. h = Body(h)
    <2>1. \A s \in SUBSET DOMAIN q :
              h[s] = IF s = {} THEN Market!Pass(b, a)
                     ELSE BarStep(h[s \ {Market!Max(s)}], q[Market!Max(s)], bar.low, bar.high, at)
      BY <1>1, <1>2, Zenon DEF RunsPass
    <2> QED
      BY <2>1
  <1>4. run = Body(run)
    BY <1>3, Zenon DEF BarRun
  <1> HIDE DEF run, q
  <1>5. \A s \in SUBSET DOMAIN q :
            run[s] = IF s = {} THEN Market!Pass(b, a)
                     ELSE BarStep(run[s \ {Market!Max(s)}], q[Market!Max(s)], bar.low, bar.high, at)
    BY <1>4
  <1>6. ASSUME NEW s \in SUBSET DOMAIN q
        PROVE  run[s] = IF s = {} THEN Market!Pass(b, a)
                        ELSE PassStep("bar", run[s \ {Market!Max(s)}], q[Market!Max(s)], bar, at)
    <2>1. CASE s = {}
      BY <1>5, <2>1
    <2>2. CASE s # {}
      <3> DEFINE x == run[s \ {Market!Max(s)}]
                 y == q[Market!Max(s)]
      <3>1. PassStep("bar", x, y, bar, at) = BarStep(x, y, bar.low, bar.high, at)
        BY <1>2
      <3>2. run[s] = BarStep(x, y, bar.low, bar.high, at)
        BY <1>5, <2>2
      <3> QED
        BY <2>2, <3>1, <3>2, Zenon
    <2> QED
      BY <2>1, <2>2
  <1>7. RunsPass(run, "bar", b, a, bar, at)
    BY <1>6, Zenon DEF RunsPass, q
  <1> QED
    BY <1>7 DEF run, q

\* Who is not at work is left alone.
Spared(b, c) == \A i \in Ids : ~IsActive(b[i]) => c[i] = b[i]

\* After the first k orders the invariant holds, and the later ones are as before.
LEMMA PassKeeps ==
    ASSUME NEW b \in [Ids -> Orders], NEW a \in Accounts, Holding(a.held, b),
           NEW kind, NEW bar \in Prices, NEW at, NEW h, RunsPass(h, kind, b, a, bar, at)
    PROVE  PassInv(b, h[DOMAIN InOrder(b)]) /\ Spared(b, h[DOMAIN InOrder(b)].book)
  <1> DEFINE q == InOrder(b)
             n == Cardinality(Active(b))
             Done(k) == /\ PassInv(b, h[1 .. k]) /\ Spared(b, h[1 .. k].book)
                        /\ \A m \in 1 .. n : m > k => h[1 .. k].book[q[m]] = b[q[m]]
             Good == {k \in Nat : k <= n => Done(k)}
  <1>1. /\ n \in Nat /\ q \in [1 .. n -> Active(b)] /\ Active(b) \subseteq Ids /\ DOMAIN q = 1 .. n
        /\ \A k, m \in 1 .. n : q[k] = q[m] => k = m
    BY OrdersListed
  <1> HIDE DEF n, q
  <1>2. \A s \in SUBSET (1 .. n) :
            h[s] = IF s = {} THEN Market!Pass(b, a)
                   ELSE PassStep(kind, h[s \ {Market!Max(s)}], q[Market!Max(s)], bar, at)
    BY <1>1, Zenon DEF RunsPass, q
  <1>3. 0 \in Good
    <2>1. 1 .. 0 = {} /\ {} \in SUBSET (1 .. n)
      OBVIOUS
    <2>2. h[1 .. 0] = Market!Pass(b, a)
      BY <1>2, <2>1
    <2> DEFINE r == Market!Pass(b, a)
    <2>3. r \in Results /\ r.book = b /\ r.acct = a /\ r.upd = <<>>
      BY StartOfPass
    <2> HIDE DEF r
    <2>4. Told(<<>>, b, b)
      BY DEF Told, Silent
    <2>5. PassInv(b, r) /\ Spared(b, r.book)
      BY <2>3, <2>4 DEF PassInv, Spared
    <2> QED
      BY <2>2, <2>3, <2>5 DEF r
  <1>4. ASSUME NEW k \in Good PROVE k + 1 \in Good
    <2>1. k \in Nat /\ k + 1 \in Nat
      OBVIOUS
    <2> SUFFICES ASSUME k + 1 <= n PROVE Done(k + 1)
      BY <2>1
    <2>2. k + 1 \in 1 .. n /\ k <= n
      BY <1>1, <2>1
    <2>3. Done(k)
      BY <2>2
    <2>4. /\ (1 .. (k + 1)) \in SUBSET (1 .. n) /\ 1 .. (k + 1) # {}
          /\ Market!Max(1 .. (k + 1)) = k + 1 /\ (1 .. (k + 1)) \ {k + 1} = 1 .. k
      <3>1. (k + 1) - 1 = k /\ 1 <= k + 1
        BY <2>1
      <3>2. Market!Max(1 .. (k + 1)) = k + 1
        BY <2>1, <3>1, PrefixGreatest
      <3>3. /\ (1 .. (k + 1)) \in SUBSET (1 .. n) /\ 1 .. (k + 1) # {}
            /\ (1 .. (k + 1)) \ {k + 1} = 1 .. ((k + 1) - 1)
        BY <1>1, <2>2, PrefixParts
      <3> QED
        BY <3>1, <3>2, <3>3
    <2> DEFINE r == h[1 .. k]
               t == h[1 .. (k + 1)]
               i == q[k + 1]
    <2>5. t = PassStep(kind, r, i, bar, at)
      BY <1>2, <2>4
    <2>6. i \in Ids /\ IsActive(b[i]) /\ r.book[i] = b[i]
      <3>1. i \in Active(b) /\ i \in Ids
        BY <1>1, <2>2
      <3>2. k + 1 > k
        BY <2>1
      <3> QED
        BY <2>2, <2>3, <3>1, <3>2 DEF Active
    <2>7. PassInv(b, r) /\ r \in Results
      BY <2>3 DEF PassInv
    <2> HIDE DEF r, t
    <2>8. Works(r, t, i)
      BY <2>5, <2>6, <2>7, PassStepWorks
    <2>9. PassInv(b, t) /\ \A j \in Ids \ {i} : t.book[j] = r.book[j]
      BY <2>6, <2>7, <2>8, WorksKeeps
    <2>10. ASSUME NEW m \in 1 .. n, m > k + 1 PROVE t.book[q[m]] = b[q[m]]
      <3>1. m # k + 1 /\ m > k
        BY <2>1, <2>10
      <3>2. q[m] \in Ids \ {i}
        BY <1>1, <2>2, <3>1
      <3>3. r.book[q[m]] = b[q[m]]
        BY <2>3, <3>1 DEF r
      <3> QED
        BY <2>9, <3>2, <3>3
    <2>11. Spared(b, t.book)
      <3>1. Spared(b, r.book)
        BY <2>3 DEF r
      <3> QED
        BY <2>6, <2>9, <3>1 DEF Spared
    <2> QED
      BY <2>9, <2>10, <2>11 DEF t
  <1> HIDE DEF Good
  <1>5. n \in Good
    <2>1. Good \in SUBSET Nat
      BY DEF Good
    <2> QED
      BY <1>1, <1>3, <1>4, <2>1, NumbersInduct
  <1>6. PassInv(b, h[1 .. n]) /\ Spared(b, h[1 .. n].book)
    BY <1>1, <1>5 DEF Good
  <1> QED
    BY <1>1, <1>6 DEF q

\* What the two market passes leave behind.
Leaves(b, r) == PassInv(b, r) /\ Spared(b, r.book)

LEMMA PassesKeep ==
    ASSUME NEW b \in [Ids -> Orders], NEW a \in Accounts, Holding(a.held, b),
           NEW bar \in Prices, NEW at
    PROVE  /\ Leaves(b, Market!ProcessOpen(b, a, bar.open, at))
           /\ Leaves(b, Market!ProcessBar(b, a, bar.low, bar.high, at))
  <1>1. Leaves(b, OpenRun(InOrder(b), b, a, bar.open, at)[DOMAIN InOrder(b)])
    BY OpenRuns, PassKeeps DEF Leaves
  <1>2. Leaves(b, BarRun(InOrder(b), b, a, bar.low, bar.high, at)[DOMAIN InOrder(b)])
    BY BarRuns, PassKeeps DEF Leaves
  <1>3. /\ Market!ProcessOpen(b, a, bar.open, at)
               = OpenRun(InOrder(b), b, a, bar.open, at)[DOMAIN InOrder(b)]
        /\ Market!ProcessBar(b, a, bar.low, bar.high, at)
               = BarRun(InOrder(b), b, a, bar.low, bar.high, at)[DOMAIN InOrder(b)]
    BY OpenIsItsRun, BarIsItsRun
  <1> QED
    BY <1>1, <1>2, <1>3

-----------------------------------------------------------------------------
(* What the gateway shows after a pass.                                    *)

Views == [Ids -> OrderStates]
Noted(v, e) == [v EXCEPT ![e[1]] = e[2]]
Shown(v, u) == FoldLeft(LAMBDA w, e : [w EXCEPT ![e[1]] = e[2]], v, u)
ShowRun(v, u) ==
    CHOOSE h : h = [s \in SUBSET DOMAIN u |->
                       IF s = {} THEN v ELSE Noted(h[s \ {Max(s)}], u[Max(s)])]

LEMMA ShownIsItsRun ==
    ASSUME NEW v, NEW u
    PROVE  Shown(v, u) = ShowRun(v, u)[DOMAIN u]
  BY Zenon DEF Shown, FoldLeft, MapThenFoldSet, ShowRun, Noted

LEMMA ShowRuns ==
    ASSUME NEW v \in Views, NEW u \in Seq(Ids \X OrderStates)
    PROVE  \A s \in SUBSET (1 .. Len(u)) :
               ShowRun(v, u)[s] = IF s = {} THEN v
                                  ELSE Noted(ShowRun(v, u)[s \ {Max(s)}], u[Max(s)])
  <1> DEFINE n == Len(u)
             pick == [s \in SUBSET (1 .. n) |-> Max(s)]
             g == [k \in 1 .. n |-> [w \in Views |-> Noted(w, u[k])]]
             Body(h) == [s \in SUBSET DOMAIN u |->
                            IF s = {} THEN v ELSE Noted(h[s \ {Max(s)}], u[Max(s)])]
             run == ShowRun(v, u)
  <1>1. n \in Nat /\ DOMAIN u = 1 .. n /\ \A k \in 1 .. n : u[k] \in Ids \X OrderStates
    <2>1. n \in Nat /\ DOMAIN u = 1 .. n
      OBVIOUS
    <2>2. \A k \in 1 .. n : u[k] \in Ids \X OrderStates
      OBVIOUS
    <2> QED
      BY <2>1, <2>2
  <1> HIDE DEF n
  <1>2. IsFiniteSet(1 .. n)
    <2>1. n \in Int /\ 1 \in Int
      BY <1>1
    <2> QED
      BY <2>1, FS_Interval, Zenon
  <1>3. Picks(pick, 1 .. n)
    BY <1>1, GreatestIn DEF Picks
  <1>4. g \in [1 .. n -> [Views -> Views]]
    <2>1. ASSUME NEW k \in 1 .. n, NEW w \in Views PROVE Noted(w, u[k]) \in Views
      <3>1. u[k][1] \in Ids /\ u[k][2] \in OrderStates
        BY <1>1
      <3> QED
        BY <3>1 DEF Noted, Views
    <2> QED
      BY <2>1
  <1> HIDE DEF pick, g
  <1>5. PICK h \in [SUBSET (1 .. n) -> Views] : FoldOf(h, 1 .. n, v, pick, g)
    BY <1>2, <1>3, <1>4, FoldExists
  <1>6. ASSUME NEW s \in SUBSET (1 .. n)
        PROVE  h[s] = IF s = {} THEN v ELSE Noted(h[s \ {Max(s)}], u[Max(s)])
    <2>1. CASE s = {}
      BY <1>5, <2>1 DEF FoldOf
    <2>2. CASE s # {}
      <3>1. pick[s] = Max(s) /\ Max(s) \in 1 .. n
        BY <1>1, <2>2, GreatestIn DEF pick
      <3>2. h[s \ {Max(s)}] \in Views
        OBVIOUS
      <3>3. g[Max(s)][h[s \ {Max(s)}]] = Noted(h[s \ {Max(s)}], u[Max(s)])
        BY <3>1, <3>2 DEF g
      <3> QED
        BY <1>5, <2>2, <3>1, <3>3 DEF FoldOf
    <2> QED
      BY <2>1, <2>2
  <1>7. h = Body(h)
    BY <1>1, <1>6
  <1>8. run = Body(run)
    BY <1>7, Zenon DEF ShowRun
  <1> HIDE DEF run
  <1>9. \A s \in SUBSET (1 .. n) :
            run[s] = IF s = {} THEN v ELSE Noted(run[s \ {Max(s)}], u[Max(s)])
    BY <1>1, <1>8
  <1> QED
    BY <1>9 DEF run, n

\* The last update of an order is what is shown of it.
LEMMA ShownIsTold ==
    ASSUME NEW v \in Views, NEW u \in Seq(Ids \X OrderStates)
    PROVE  /\ Shown(v, u) \in Views
           /\ \A i \in Ids : /\ Silent(u, i) => Shown(v, u)[i] = v[i]
                             /\ \A k \in Nat : LastWord(u, i, k) => Shown(v, u)[i] = u[k][2]
  <1> DEFINE n == Len(u)
             run == ShowRun(v, u)
             Says(w, k) ==
                 /\ w \in Views
                 /\ \A i \in Ids :
                        /\ (\A m \in 1 .. k : u[m][1] # i) => w[i] = v[i]
                        /\ \A j \in 1 .. k :
                               u[j][1] = i /\ (\A m \in (j + 1) .. k : u[m][1] # i) => w[i] = u[j][2]
             Good == {k \in Nat : k <= n => Says(run[1 .. k], k)}
  <1>1. n \in Nat /\ DOMAIN u = 1 .. n /\ \A k \in 1 .. n : u[k] \in Ids \X OrderStates
    OBVIOUS
  <1>2. \A s \in SUBSET (1 .. n) : run[s] = IF s = {} THEN v ELSE Noted(run[s \ {Max(s)}], u[Max(s)])
    BY ShowRuns
  <1> HIDE DEF n, run
  <1>3. 0 \in Good
    <2>1. 1 .. 0 = {} /\ {} \in SUBSET (1 .. n)
      OBVIOUS
    <2>2. run[1 .. 0] = v
      BY <1>2, <2>1
    <2>3. Says(v, 0)
      BY <2>1
    <2> QED
      BY <2>2, <2>3
  <1>4. ASSUME NEW k \in Good PROVE k + 1 \in Good
    <2>1. k \in Nat /\ k + 1 \in Nat /\ (k + 1) - 1 = k /\ 1 <= k + 1
      OBVIOUS
    <2> SUFFICES ASSUME k + 1 <= n PROVE Says(run[1 .. (k + 1)], k + 1)
      BY <2>1
    <2>2. k + 1 \in 1 .. n /\ k <= n
      BY <1>1, <2>1
    <2> DEFINE w == run[1 .. k]
               x == run[1 .. (k + 1)]
    <2>3. Says(w, k)
      BY <2>2
    <2>4. Max(1 .. (k + 1)) = k + 1
      BY <2>1, PrefixGreatest
    <2>5. /\ (1 .. (k + 1)) \in SUBSET (1 .. n) /\ 1 .. (k + 1) # {}
          /\ (1 .. (k + 1)) \ {k + 1} = 1 .. ((k + 1) - 1)
      BY <1>1, <2>2, PrefixParts
    <2>6. x = Noted(w, u[k + 1])
      <3>1. (1 .. (k + 1)) \ {k + 1} = 1 .. k
        BY <2>1, <2>5
      <3>2. run[1 .. (k + 1)] = Noted(run[(1 .. (k + 1)) \ {Max(1 .. (k + 1))}],
                                      u[Max(1 .. (k + 1))])
        BY <1>2, <2>5, Zenon
      <3> QED
        BY <2>4, <3>1, <3>2, Zenon
    <2> DEFINE y == u[k + 1][1]
               z == u[k + 1][2]
    <2>7. y \in Ids /\ z \in OrderStates
      BY <1>1, <2>2
    <2>8. w \in Views
      BY <2>3
    <2> HIDE DEF w, x
    <2>9. x \in Views /\ x[y] = z /\ \A i \in Ids \ {y} : x[i] = w[i]
      BY <2>6, <2>7, <2>8 DEF Noted, Views
    <2>10. ASSUME NEW i \in Ids, \A m \in 1 .. (k + 1) : u[m][1] # i PROVE x[i] = v[i]
      <3>1. i # y /\ \A m \in 1 .. k : u[m][1] # i
        BY <2>1, <2>10
      <3> QED
        BY <2>3, <2>9, <3>1 DEF w
    <2>11. ASSUME NEW i \in Ids, NEW j \in 1 .. (k + 1), u[j][1] = i,
                  \A m \in (j + 1) .. (k + 1) : u[m][1] # i
           PROVE  x[i] = u[j][2]
      <3>1. CASE j = k + 1
        BY <2>9, <2>11, <3>1
      <3>2. CASE j # k + 1
        <4>1. j \in 1 .. k /\ k + 1 \in (j + 1) .. (k + 1)
          BY <2>1, <3>2
        <4>2. i # y /\ \A m \in (j + 1) .. k : u[m][1] # i
          <5>1. \A m \in (j + 1) .. k : m \in (j + 1) .. (k + 1)
            BY <2>1, <4>1
          <5> QED
            BY <2>11, <4>1, <5>1
        <4>3. w[i] = u[j][2]
          BY <2>3, <2>11, <4>1, <4>2 DEF w
        <4> QED
          BY <2>9, <4>2, <4>3
      <3> QED
        BY <3>1, <3>2
    <2> QED
      BY <2>9, <2>10, <2>11 DEF x
  <1> HIDE DEF Good
  <1>5. n \in Good
    <2>1. Good \in SUBSET Nat
      BY DEF Good
    <2> QED
      BY <1>1, <1>3, <1>4, <2>1, NumbersInduct
  <1>6. Says(run[1 .. n], n)
    BY <1>1, <1>5 DEF Good
  <1>7. Shown(v, u) = run[1 .. n]
    BY <1>1, ShownIsItsRun DEF run
  <1> QED
    BY <1>6, <1>7 DEF Silent, LastWord, n

\* After a pass that did not raise the gateway shows what the broker did.
LEMMA ShownAfterPass ==
    ASSUME NEW v \in Views, NEW b \in [Ids -> Orders], \A i \in Ids : v[i] = b[i].st,
           NEW r, PassInv(b, r)
    PROVE  \A i \in Ids : Shown(v, r.upd)[i] = r.book[i].st
  <1>1. r.upd \in Seq(Ids \X OrderStates) /\ Told(r.upd, b, r.book)
    BY DEF PassInv, Results
  <1> QED
    BY <1>1, ShownIsTold DEF Told

-----------------------------------------------------------------------------
(* The inductive invariant of the gateway.                                 *)

\* A ClOrdID that was not used has no order, and one that was has one.
Once(b, e, n) == \A i \in Ids : IF e[i] = NoTemplate THEN n[i] = 0 /\ b[i].st = "none"
                                ELSE n[i] = 1
Follows(v, b) == ~raised => \A i \in Ids : v[i] = b[i].st

\* What belongs together about the orders.
Orderly(b, e, v, n) ==
    /\ b \in [Ids -> Orders] /\ e \in [Ids -> DOMAIN Templates \cup {NoTemplate}]
    /\ v \in Views /\ n \in [Ids -> Nat]
    /\ Holding(held, b) /\ Once(b, e, n) /\ Follows(v, b)

Rest == /\ now \in 0 .. MaxTime /\ held \in Int /\ faults \subseteq FaultTypes
        /\ late \subseteq [at : Nat, reports : SUBSET Reports] /\ raised \in BOOLEAN

IInv == SesInv(ses) /\ Rest /\ Orderly(book, econ, view, submits)

LEMMA IInvGivesOrders ==
    ASSUME IInv
    PROVE  OrdersSound /\ ViewFollowsBroker
  <1>1. TypeOK
    BY DEF IInv, Rest, Orderly, TypeOK, SesInv, Views, Statuses
  <1>2. Selling(book) = {i \in Active(book) : book[i].side = "sell"}
    BY DEF Selling
  <1>3. InventoryExact /\ NeverOversold
    BY <1>2 DEF IInv, Orderly, Holding, FilledOn, InventoryExact, NeverOversold
  <1>4. OneOrderPerId
    <2>1. \A i \in Ids : submits[i] \in {0, 1}
      BY DEF IInv, Orderly, Once
    <2> QED
      BY <2>1 DEF OneOrderPerId
  <1>5. PendingTestKnown /\ ViewFollowsBroker
    BY DEF IInv, SesInv, PendingTestKnown, Orderly, Follows, ViewFollowsBroker
  <1> QED
    BY <1>1, <1>3, <1>4, <1>5 DEF OrdersSound

LEMMA NowIsNat ==
    ASSUME Rest
    PROVE  now \in Nat
  BY SessionBounds DEF Rest

LEMMA InitGives ==
    ASSUME Init
    PROVE  IInv
  <1>1. NewSession \in Sessions
    <2>1. /\ "disconnected" \in States /\ 1 \in Nat \ {0} /\ -1 \in Int /\ 0 \in Nat
          /\ FALSE \in BOOLEAN /\ {} \in SUBSET Messages
      BY DEF States
    <2>2. NotAccepted \in Identities
      BY DEF NotAccepted, Identities
    <2>3. [n \in 1 .. MaxSeq |-> NotAccepted] \in [1 .. MaxSeq -> Identities]
      BY <2>2
    <2> QED
      BY <2>1, <2>3 DEF NewSession, Sessions, Never, NoTest
  <1>2. SesInv(ses)
    BY <1>1 DEF Init, SesInv, FutureFree, TestKnown, NewSession
  <1>3. Rest
    <2>1. now \in 0 .. MaxTime /\ held \in Int
      BY SessionBounds, GatewayConstants DEF Init
    <2>2. faults \subseteq FaultTypes /\ raised \in BOOLEAN
      BY DEF Init
    <2>3. late = {}
      BY DEF Init
    <2> QED
      BY <2>1, <2>2, <2>3 DEF Rest
  <1>4. NoOrder \in Orders /\ NoOrder.st = "none"
    <2>1. "none" \in OrderStates /\ 0 \in Nat
      BY DEF OrderStates
    <2> QED
      BY <2>1 DEF NoOrder, Orders, NoPrice
  <1>5. book \in [Ids -> Orders] /\ \A i \in Ids : book[i].st = "none"
    BY <1>4 DEF Init
  <1>6. view \in Views /\ \A i \in Ids : view[i] = "none"
    BY DEF Init, Views, OrderStates
  <1>7. Selling(book) = {} /\ \A side : FilledOn(book, side) = {}
    BY <1>5 DEF Selling, Active, IsActive, FilledOn
  <1>8. Quantity(book, {}) = 0
    <2> DEFINE g == [j \in DOMAIN book |-> book[j].qty]
    <2>1. g \in [Ids -> Int]
      BY <1>5 DEF Orders
    <2>2. IsFiniteSet({}) /\ {} \in SUBSET Ids
      BY FS_EmptySet
    <2>3. Total(g, {}) = 0
      BY <2>1, <2>2, TotalType
    <2> QED
      BY <2>3 DEF Quantity, Total
  <1>9. Holding(held, book)
    <2>1. held = Held /\ Held \in Nat
      BY GatewayConstants DEF Init
    <2> QED
      BY <1>7, <1>8, <2>1 DEF Holding
  <1>10. /\ econ \in [Ids -> DOMAIN Templates \cup {NoTemplate}] /\ submits \in [Ids -> Nat]
         /\ Once(book, econ, submits) /\ Follows(view, book)
    BY <1>5, <1>6 DEF Init, Once, Follows
  <1> QED
    BY <1>2, <1>3, <1>5, <1>6, <1>9, <1>10 DEF IInv, Orderly

-----------------------------------------------------------------------------
(* What the handlers do to the orders.                                     *)

\* An order that is new to the book enters it, at work or rejected.
LEMMA PlacedHolds ==
    ASSUME NEW b \in [Ids -> Orders], Holding(held, b), held \in Int, NEW i \in Ids,
           b[i].st = "none", NEW order \in Orders, NEW at \in Nat, NEW accepted \in BOOLEAN,
           accepted => ~Blocked(order, held, b, Unknown),
           NEW c, c = Submitted(b, i, order, accepted, at)
    PROVE  /\ c \in [Ids -> Orders] /\ Holding(held, c)
           /\ c[i].st \in {"acknowledged", "rejected"}
           /\ \A j \in Ids \ {i} : c[j] = b[j]
  <1> DEFINE st == IF accepted THEN "acknowledged" ELSE "rejected"
             o == [order EXCEPT !.sub = at, !.st = st]
  <1>1. st \in OrderStates /\ st \in {"acknowledged", "rejected"}
    BY DEF OrderStates
  <1>2. o \in Orders /\ o.st = st /\ o.side = order.side /\ o.qty = order.qty /\ o.qty \in Nat
    BY <1>1 DEF Orders
  <1>3. c = [b EXCEPT ![i] = o]
    BY DEF Submitted
  <1> HIDE DEF o, st
  <1>4. c \in [Ids -> Orders] /\ c[i] = o /\ \A j \in Ids \ {i} : c[j] = b[j]
    BY <1>2, <1>3
  <1>5. c[i].st \in {"acknowledged", "rejected"}
    BY <1>1, <1>2, <1>4
  <1>6. \A S \in SUBSET Ids : i \notin S => Quantity(c, S) = Quantity(b, S)
    <2> SUFFICES ASSUME NEW S \in SUBSET Ids, i \notin S PROVE Quantity(c, S) = Quantity(b, S)
      OBVIOUS
    <2>1. \A j \in S : c[j].qty = b[j].qty
      BY <1>4
    <2> QED
      BY <1>4, <2>1, QuantitySame
  <1>7. \A side : FilledOn(c, side) = FilledOn(b, side) /\ i \notin FilledOn(b, side)
    BY <1>4, <1>5 DEF FilledOn
  <1>8. i \notin Selling(b) /\ Selling(b) \in SUBSET Ids
    BY FilledAreIds DEF Selling, Active, IsActive
  <1>9. Selling(c) = IF st = "acknowledged" /\ o.side = "sell"
                     THEN Selling(b) \cup {i} ELSE Selling(b)
    <2>1. IsActive(c[i]) <=> st = "acknowledged"
      BY <1>1, <1>2, <1>4 DEF IsActive
    <2>2. DOMAIN b = Ids /\ DOMAIN c = Ids
      BY <1>4
    <2> QED
      BY <1>4, <1>8, <2>1, <2>2 DEF Selling, Active
  <1>10. Quantity(c, Selling(b)) = Quantity(b, Selling(b)) /\ Quantity(b, Selling(b)) \in Int
    BY <1>6, <1>8, QuantityType
  <1>11. held = Held + Quantity(c, FilledOn(c, "buy")) - Quantity(c, FilledOn(c, "sell"))
    <2>1. \A side : Quantity(c, FilledOn(c, side)) = Quantity(b, FilledOn(b, side))
      BY <1>6, <1>7, FilledAreIds
    <2> QED
      BY <2>1 DEF Holding
  <1>12. ASSUME Spot PROVE held >= Quantity(c, Selling(c))
    <2>1. held >= Quantity(b, Selling(b))
      BY <1>12 DEF Holding
    <2>2. CASE st = "acknowledged" /\ o.side = "sell"
      <3>1. Selling(c) = Selling(b) \cup {i} /\ Selling(c) \in SUBSET Ids /\ i \in Selling(c)
        BY <1>8, <1>9, <2>2
      <3>2. Selling(c) \ {i} = Selling(b)
        BY <1>8, <3>1
      <3>3. Quantity(c, Selling(c)) = o.qty + Quantity(b, Selling(b))
        BY <1>4, <1>10, <3>1, <3>2, QuantityRemove
      <3>4. Reserved(b, Unknown) = Quantity(b, Selling(b))
        <4>1. Unknown \notin Active(b)
          BY GatewayMessages DEF Active
        <4>2. {j \in Active(b) \ {Unknown} : Spot /\ b[j].side = "sell"} = Selling(b)
          BY <1>12, <4>1 DEF Selling
        <4> QED
          BY <4>2 DEF Reserved
      <3>5. ~(order.qty > held - Quantity(b, Selling(b)))
        <4>1. accepted
          BY <2>2 DEF st
        <4> QED
          BY <1>2, <1>12, <2>2, <3>4, <4>1 DEF Blocked
      <3> QED
        BY <1>2, <1>10, <3>3, <3>5
    <2>3. CASE ~(st = "acknowledged" /\ o.side = "sell")
      BY <1>9, <1>10, <2>1, <2>3
    <2> QED
      BY <2>2, <2>3
  <1>13. Holding(held, c)
    BY <1>11, <1>12 DEF Holding
  <1> QED
    BY <1>4, <1>5, <1>13

\* What a handler of orders returns fits together and reports known orders.
Handled(d) == Orderly(d.book, d.econ, d.view, d.submits) /\ d.reports \in SUBSET Reports

LEMMA TemplateParts ==
    ASSUME NEW t \in DOMAIN Templates
    PROVE  Templates[t].id \in Ids /\ Templates[t].order \in Orders
  <1> DEFINE T == [id : Ids, order : Orders, acceptable : BOOLEAN]
  <1>1. Templates \in Seq(T)
    BY GatewayMessages
  <1>2. t \in 1 .. Len(Templates)
    BY <1>1
  <1> HIDE DEF T
  <1>3. Templates[t] \in T
    BY <1>1, <1>2, ElementOfSeq
  <1> QED
    BY <1>3 DEF T

LEMMA NewOrderHandled ==
    ASSUME IInv, NEW t \in DOMAIN Templates
    PROVE  Handled(NewOrder(t))
  <1> DEFINE template == Templates[t]
             i == template.id
             order == template.order
             accepted == ~Blocked(order, held, book, Unknown)
             placed == Submitted(book, i, order, accepted, now)
             d == NewOrder(t)
  <1>1. i \in Ids /\ order \in Orders
    BY TemplateParts
  <1>2. /\ book \in [Ids -> Orders] /\ view \in Views /\ submits \in [Ids -> Nat]
        /\ econ \in [Ids -> DOMAIN Templates \cup {NoTemplate}] /\ Holding(held, book)
        /\ Once(book, econ, submits) /\ Follows(view, book) /\ held \in Int /\ now \in Nat
    BY NowIsNat DEF IInv, Orderly, Rest
  <1>3. view[i] \in OrderStates
    BY <1>1, <1>2 DEF Views
  <1>4. CASE ~FirstUse(i)
    <2>1. d = [book |-> book, econ |-> econ, view |-> view, submits |-> submits,
               reports |-> IF econ[i] = t THEN {<<i, view[i]>>} ELSE {}]
      BY <1>4, Zenon DEF NewOrder
    <2>2. d.reports \in SUBSET Reports
      BY <1>1, <1>3, <2>1 DEF Reports, Statuses
    <2>3. d.book = book /\ d.econ = econ /\ d.view = view /\ d.submits = submits
      BY <2>1
    <2> HIDE DEF d
    <2>4. Orderly(d.book, d.econ, d.view, d.submits)
      BY <2>3 DEF IInv
    <2> QED
      BY <2>2, <2>4 DEF Handled, d
  <1>5. CASE FirstUse(i) /\ ~template.acceptable
    <2>1. d = [book |-> book, econ |-> econ, view |-> view, submits |-> submits, reports |-> {}]
      BY <1>5, Zenon DEF NewOrder
    <2>2. d.book = book /\ d.econ = econ /\ d.view = view /\ d.submits = submits /\ d.reports = {}
      BY <2>1
    <2> HIDE DEF d
    <2>3. Orderly(d.book, d.econ, d.view, d.submits)
      BY <2>2 DEF IInv
    <2> QED
      BY <2>2, <2>3 DEF Handled, d
  <1>6. CASE FirstUse(i) /\ template.acceptable
    <2> DEFINE e == [econ EXCEPT ![i] = t]
               v == [view EXCEPT ![i] = placed[i].st]
               n == [submits EXCEPT ![i] = @ + 1]
    <2>1. d = [book |-> placed, econ |-> e, view |-> v, submits |-> n,
               reports |-> {<<i, placed[i].st>>}]
      BY <1>6, Zenon DEF NewOrder
    <2>2. d.book = placed /\ d.econ = e /\ d.view = v /\ d.submits = n
          /\ d.reports = {<<i, placed[i].st>>}
      BY <2>1
    <2>3. econ[i] = NoTemplate /\ submits[i] = 0 /\ book[i].st = "none"
      BY <1>1, <1>2, <1>6 DEF FirstUse, Once
    <2>4. t # NoTemplate
      BY GatewayMessages DEF NoTemplate
    <2>5. accepted \in BOOLEAN
      BY DEF Blocked
    <2>6. /\ placed \in [Ids -> Orders] /\ Holding(held, placed)
          /\ placed[i].st \in {"acknowledged", "rejected"}
          /\ \A j \in Ids \ {i} : placed[j] = book[j]
      <3> HIDE DEF accepted, i, order, d
      <3>1. accepted => ~Blocked(order, held, book, Unknown)
        BY DEF accepted
      <3> QED
        BY <1>1, <1>2, <2>3, <2>5, <3>1, PlacedHolds
    <2> HIDE DEF placed, d, i
    <2>7. placed[i].st \in OrderStates
      BY <2>6 DEF OrderStates
    <2>8. v \in Views /\ e \in [Ids -> DOMAIN Templates \cup {NoTemplate}] /\ n \in [Ids -> Nat]
      BY <1>1, <1>2, <2>7 DEF Views
    <2>9. Once(placed, e, n)
      BY <1>1, <1>2, <2>3, <2>4, <2>6 DEF Once
    <2>10. Follows(v, placed)
      BY <1>1, <1>2, <2>6 DEF Follows, Views
    <2>11. Orderly(placed, e, v, n)
      BY <2>6, <2>8, <2>9, <2>10 DEF Orderly
    <2>12. d.reports \in SUBSET Reports
      BY <1>1, <2>2, <2>7 DEF Reports, Statuses
    <2> HIDE DEF e, v, n
    <2>13. Orderly(d.book, d.econ, d.view, d.submits)
      BY <2>2, <2>11
    <2> QED
      BY <2>12, <2>13 DEF Handled, d
  <1> QED
    BY <1>4, <1>5, <1>6

LEMMA CancelHandled ==
    ASSUME IInv, NEW i \in Ids \cup {Unknown}
    PROVE  Handled(CancelOrder(i))
  <1> DEFINE d == CancelOrder(i)
             idle == i = Unknown \/ view[i] = "none" \/ ~IsActive(book[i])
  <1>2. /\ book \in [Ids -> Orders] /\ view \in Views /\ submits \in [Ids -> Nat]
        /\ econ \in [Ids -> DOMAIN Templates \cup {NoTemplate}] /\ Holding(held, book)
        /\ Once(book, econ, submits) /\ Follows(view, book) /\ held \in Int
    BY DEF IInv, Orderly, Rest
  <1>3. CASE idle
    <2>1. d = [book |-> book, econ |-> econ, view |-> view, submits |-> submits, reports |-> {}]
      BY <1>3, Zenon DEF CancelOrder
    <2>2. d.book = book /\ d.econ = econ /\ d.view = view /\ d.submits = submits /\ d.reports = {}
      BY <2>1
    <2> HIDE DEF d
    <2>3. Orderly(d.book, d.econ, d.view, d.submits)
      BY <2>2 DEF IInv
    <2> QED
      BY <2>2, <2>3 DEF Handled, d
  <1>4. CASE ~idle
    <2> DEFINE v == [view EXCEPT ![i] = "cancelled"]
               c == Cancelled(book, i)
    <2>1. d = [book |-> c, econ |-> econ, submits |-> submits, view |-> v,
               reports |-> {<<i, "cancelled">>}]
      BY <1>4, Zenon DEF CancelOrder
    <2>2. d.book = c /\ d.econ = econ /\ d.view = v /\ d.submits = submits
          /\ d.reports = {<<i, "cancelled">>}
      BY <2>1
    <2>3. i \in Ids /\ IsActive(book[i]) /\ "cancelled" \in OrderStates
      BY <1>4 DEF OrderStates
    <2>4. Restated(book, c, i, "cancelled")
      <3>1. book[i] \in Orders /\ [book[i] EXCEPT !.st = "cancelled"] \in Orders
        BY <1>2, <2>3 DEF Orders
      <3>2. c = [book EXCEPT ![i] = [book[i] EXCEPT !.st = "cancelled"]]
        BY <2>3 DEF Cancelled
      <3> QED
        BY <1>2, <2>3, <3>1, <3>2 DEF Restated
    <2> HIDE DEF c, d
    <2>5. Holding(held, c)
      BY <1>2, <2>3, <2>4, HoldingUntraded
    <2>6. c \in [Ids -> Orders] /\ c[i].st = "cancelled" /\ \A j \in Ids \ {i} : c[j] = book[j]
      <3>1. book[i] \in Orders
        BY <1>2, <2>3
      <3> QED
        BY <2>4, <3>1 DEF Restated, Orders
    <2>7. v \in Views
      BY <1>2, <2>3 DEF Views
    <2>8. Once(c, econ, submits)
      <3>1. book[i].st # "none"
        BY <2>3 DEF IsActive
      <3> QED
        BY <1>2, <2>3, <2>6, <3>1 DEF Once
    <2>9. Follows(v, c)
      BY <1>2, <2>3, <2>6 DEF Follows, Views
    <2>10. Orderly(c, econ, v, submits)
      BY <1>2, <2>5, <2>6, <2>7, <2>8, <2>9 DEF Orderly
    <2>11. d.reports \in SUBSET Reports
      BY <2>2, <2>3 DEF Reports, Statuses
    <2> HIDE DEF v
    <2>12. Orderly(d.book, d.econ, d.view, d.submits)
      BY <2>2, <2>10
    <2> QED
      BY <2>11, <2>12 DEF Handled, d
  <1> QED
    BY <1>3, <1>4

-----------------------------------------------------------------------------
(* The session's own calls.                                                *)

\* t has what s accepted, and is not established unless s was.
Quiet(s, t) == /\ SesInv(t) /\ t.in = s.in /\ t.acc = s.acc
               /\ t.st = "established" => s.st = "established"

LEMMA QuietServes ==
    ASSUME NEW s, NEW t, NEW at, SesInv(s), Quiet(s, t)
    PROVE  Serves(s, t, at)
  <1>1. s.in \in Nat
    BY DEF SesInv, Sessions
  <1> QED
    BY <1>1 DEF Serves, Quiet, KeepsAccepted, InTime

LEMMA CalmIsQuiet ==
    ASSUME NEW s, NEW t, Calm(s, t)
    PROVE  Quiet(s, t)
  BY DEF Calm, Quiet

\* Another state than a pending test is entered by naming it and sending.
LEMMA EnterIsQuiet ==
    ASSUME NEW s, SesInv(s), NEW st \in {"logon_pending", "logout_pending"}, NEW at \in Nat
    PROVE  Quiet(s, Emit([s EXCEPT !.st = st], at))
  <1> DEFINE t == [s EXCEPT !.st = st]
  <1>1. s \in Sessions /\ st \in States
    BY DEF SesInv, States
  <1>2. t \in Sessions /\ t.st = st /\ t.in = s.in /\ t.acc = s.acc
    BY <1>1 DEF Sessions
  <1> HIDE DEF t
  <1>3. SesInv(t)
    BY <1>2 DEF SesInv, FutureFree, TestKnown
  <1>4. Calm(t, Emit(t, at))
    BY <1>3, EmitOneIsCalm
  <1> QED
    BY <1>2, <1>4 DEF Calm, Quiet, t

LEMMA TickIsQuiet ==
    ASSUME NEW s, SesInv(s), NEW at \in Nat
    PROVE  Quiet(s, Tick(s, at))
  <1>1. s \in Sessions /\ s.out \in Nat \ {0}
    BY DEF SesInv, Sessions
  <1>2. Quiet(s, s)
    BY DEF Quiet
  <1>3. Quiet(s, TickPending(s, at))
    <2> DEFINE t == [s EXCEPT !.graceOver = TRUE]
    <2>1. t \in Sessions /\ t.st = s.st /\ t.in = s.in /\ t.acc = s.acc /\ t.test = s.test
          /\ t.sent = s.sent /\ t.deadline = s.deadline
      BY <1>1 DEF Sessions
    <2> HIDE DEF t
    <2>2. Quiet(s, t)
      BY <2>1 DEF Quiet, SesInv, FutureFree, TestKnown
    <2>3. Quiet(s, Drop(s))
      BY DropIsCalm, CalmIsQuiet
    <2>4. TickPending(s, at) \in {Drop(s), t, s}
      BY Zenon DEF TickPending, t
    <2> QED
      BY <1>2, <2>2, <2>3, <2>4
  <1>4. Quiet(s, TickEstablished(s, at))
    <2> DEFINE e == Emit(s, at)
               t == [e EXCEPT !.st = "test_request_pending", !.test = s.out, !.sent = at,
                              !.deadline = at + Grace, !.graceOver = FALSE]
    <2>1. Calm(s, e)
      BY EmitOneIsCalm
    <2>2. e \in Sessions /\ e.in = s.in /\ e.acc = s.acc /\ SesInv(e)
      BY <2>1 DEF Calm, SesInv
    <2>3. /\ "test_request_pending" \in States /\ s.out \in Nat /\ at \in Int
          /\ at + Grace \in Int /\ FALSE \in BOOLEAN
      BY <1>1, SessionTimers DEF States
    <2> HIDE DEF e
    <2>4. t \in Sessions /\ t.st = "test_request_pending" /\ t.in = s.in /\ t.acc = s.acc
          /\ t.test = s.out /\ t.sent = at /\ t.deadline = at + Grace
      BY <2>2, <2>3 DEF Sessions
    <2> HIDE DEF t
    <2>5. Quiet(s, t)
      BY <1>1, <2>2, <2>4 DEF Quiet, SesInv, FutureFree, TestKnown, NoTest, Never
    <2>6. Quiet(s, e)
      BY <2>1, CalmIsQuiet
    <2>7. TickEstablished(s, at) \in {t, e, s}
      BY Zenon DEF TickEstablished, t, e
    <2> QED
      BY <1>2, <2>5, <2>6, <2>7
  <1>5. Tick(s, at) \in {TickPending(s, at), TickEstablished(s, at), s}
    <2>1. CASE s.st = "test_request_pending"
      BY <2>1, Zenon DEF Tick
    <2>2. CASE s.st = "established"
      <3>1. s.st # "test_request_pending"
        BY <2>2
      <3> QED
        BY <2>2, <3>1, Zenon DEF Tick
    <2>3. CASE s.st # "test_request_pending" /\ s.st # "established"
      BY <2>3, Zenon DEF Tick
    <2> QED
      BY <2>1, <2>2, <2>3
  <1> QED
    BY <1>2, <1>3, <1>4, <1>5

\* A new instant forgets the occurrences of the last one.
LEMMA ForgetIsQuiet ==
    ASSUME NEW s, SesInv(s)
    PROVE  Quiet(s, [s EXCEPT !.rej = {}])
  <1> DEFINE t == [s EXCEPT !.rej = {}]
  <1>1. s \in Sessions
    BY DEF SesInv
  <1>2. t \in Sessions /\ t.st = s.st /\ t.in = s.in /\ t.acc = s.acc /\ t.test = s.test
        /\ t.sent = s.sent /\ t.deadline = s.deadline
    BY <1>1 DEF Sessions
  <1> HIDE DEF t
  <1>3. Quiet(s, t)
    BY <1>2 DEF Quiet, SesInv, FutureFree, TestKnown
  <1> QED
    BY <1>3 DEF t

LEMMA EmitManyIsQuiet ==
    ASSUME NEW s, SesInv(s), NEW n \in Nat, now \in Nat
    PROVE  Quiet(s, EmitMany(s, n))
  <1>1. Quiet(s, s)
    BY DEF Quiet
  <1>2. Quiet(s, [s EXCEPT !.out = @ + n, !.lastOut = now])
    BY EmitIsCalm, CalmIsQuiet
  <1> QED
    BY <1>1, <1>2 DEF EmitMany

-----------------------------------------------------------------------------
(* Messages.                                                               *)

\* A message that names a template or an order that may be there.
WellNamed(m) == /\ m \in Messages
                /\ m.type = "new_order" => m.arg \in DOMAIN Templates
                /\ m.type = "cancel" => m.arg \in Ids \cup {Unknown}

LEMMA InboundIsWellNamed ==
    ASSUME SesInv(ses), NEW types \in SUBSET MessageTypes, NEW m \in Inbound(types)
    PROVE  WellNamed(m)
  <1>1. ses \in Sessions /\ ses.in \in Nat \ {0} /\ ses.test \in Nat
    BY DEF SesInv, Sessions
  <1>2. \A t \in types : \A a \in Arguments(t) :
            /\ a \in Nat
            /\ t = "new_order" => a \in DOMAIN Templates
            /\ t = "cancel" => a \in Ids \cup {Unknown}
    <2> SUFFICES ASSUME NEW t \in types, NEW a \in Arguments(t)
                 PROVE  /\ a \in Nat
                        /\ t = "new_order" => a \in DOMAIN Templates
                        /\ t = "cancel" => a \in Ids \cup {Unknown}
      OBVIOUS
    <2>1. CASE t = "heartbeat"
      <3>1. Arguments(t) = {NoTest, ses.test}
        BY <2>1, Zenon DEF Arguments
      <3> QED
        BY <1>1, <2>1, <3>1 DEF NoTest
    <2>2. CASE t = "sequence_reset"
      <3>1. Arguments(t) = {n \in {ses.in, ses.in + 2} : n <= MaxSeq}
        BY <2>2 DEF Arguments
      <3> QED
        BY <1>1, <2>2, <3>1
    <2>3. CASE t = "new_order"
      <3>1. Arguments(t) = DOMAIN Templates
        BY <2>3 DEF Arguments
      <3>2. DOMAIN Templates = 1 .. Len(Templates) /\ Len(Templates) \in Nat
        BY GatewayMessages
      <3> QED
        BY <2>3, <3>1, <3>2
    <2>4. CASE t = "cancel"
      <3>1. Arguments(t) = Ids \cup {Unknown}
        BY <2>4 DEF Arguments
      <3> QED
        BY <2>4, <3>1, GatewayMessages
    <2>5. CASE t \notin {"heartbeat", "sequence_reset", "new_order", "cancel"}
      <3>1. Arguments(t) = {1}
        BY <2>5 DEF Arguments
      <3> QED
        BY <2>5, <3>1
    <2> QED
      BY <2>1, <2>2, <2>3, <2>4, <2>5
  <1>3. CASE \E t \in types :
                m \in [type : {t}, seq : {n \in IF t \in Stray THEN (ses.in - 1) .. (ses.in + 1)
                                                            ELSE {ses.in} : n \in 1 .. MaxSeq},
                       dup : {t \in OrderTypes}, arg : Arguments(t), form : {"valid"}]
    <2>1. PICK t \in types :
              m \in [type : {t}, seq : {n \in IF t \in Stray THEN (ses.in - 1) .. (ses.in + 1)
                                                          ELSE {ses.in} : n \in 1 .. MaxSeq},
                     dup : {t \in OrderTypes}, arg : Arguments(t), form : {"valid"}]
      BY <1>3
    <2>2. m.type = t /\ m.arg \in Arguments(t)
      BY <2>1
    <2>3. m \in Messages
      <3>1. t \in MessageTypes /\ (t \in OrderTypes) \in BOOLEAN /\ Arguments(t) \subseteq Nat
        BY <1>2
      <3>2. {n \in IF t \in Stray THEN (ses.in - 1) .. (ses.in + 1)
                   ELSE {ses.in} : n \in 1 .. MaxSeq} \subseteq 1 .. MaxSeq
        OBVIOUS
      <3> QED
        BY <2>1, <3>1, <3>2 DEF Messages
    <2> QED
      BY <1>2, <2>2, <2>3 DEF WellNamed
  <1>4. CASE m \in [type : {"reject"}, seq : {ses.in} \cap 1 .. MaxSeq, dup : {FALSE}, arg : {1},
                    form : {"malformed", "wrong_comp_ids"}]
    <2>1. /\ "reject" \in MessageTypes /\ FALSE \in BOOLEAN /\ 1 \in Nat
          /\ {ses.in} \cap 1 .. MaxSeq \subseteq 1 .. MaxSeq
          /\ {"malformed", "wrong_comp_ids"} \subseteq {"valid", "malformed", "wrong_comp_ids"}
      BY DEF MessageTypes
    <2>2. m \in Messages
      BY <1>4, <2>1 DEF Messages
    <2>3. m.type = "reject"
      BY <1>4
    <2> QED
      BY <2>2, <2>3 DEF WellNamed
  <1> DEFINE Of(t) == [type : {t}, seq : {n \in IF t \in Stray THEN (ses.in - 1) .. (ses.in + 1)
                                                ELSE {ses.in} : n \in 1 .. MaxSeq},
                       dup : {t \in OrderTypes}, arg : Arguments(t), form : {"valid"}]
             refused == [type : {"reject"}, seq : {ses.in} \cap 1 .. MaxSeq, dup : {FALSE},
                         arg : {1}, form : {"malformed", "wrong_comp_ids"}]
  <1>5. m \in (UNION {Of(t) : t \in types}) \cup refused
    BY DEF Inbound
  <1>6. (\E t \in types : m \in Of(t)) \/ m \in refused
    <2> HIDE DEF Of, refused
    <2> QED
      BY <1>5
  <1> QED
    BY <1>3, <1>4, <1>6

LEMMA SkippedIsWellNamed ==
    ASSUME NEW m, WellNamed(m), NEW w, w = [m EXCEPT !.seq = @ + 1, !.dup = FALSE],
           w.seq <= MaxSeq
    PROVE  WellNamed(w)
  <1>1. m \in Messages /\ m.seq \in Nat /\ m.seq >= 1
    BY DEF WellNamed, Messages
  <1>2. w.seq = m.seq + 1 /\ w.type = m.type /\ w.arg = m.arg
    BY <1>1 DEF Messages
  <1>3. m.seq + 1 \in 1 .. MaxSeq /\ FALSE \in BOOLEAN
    BY <1>1, <1>2, SessionBounds
  <1>4. w \in Messages
    BY <1>1, <1>3 DEF Messages
  <1> QED
    BY <1>2, <1>4 DEF WellNamed

-----------------------------------------------------------------------------
(* The steps.                                                              *)

\* What a step must do: keep the invariant and serve the session.
Step == IInv' /\ Serves(ses, ses', now)

LEMMA KeepsAndServes ==
    ASSUME Serves(ses, ses', now), Rest', Orderly(book, econ, view, submits)'
    PROVE  Step
  BY DEF Step, IInv, Serves

\* Answers handed out or kept back are reports of known orders.
LEMMA HandKeeps ==
    ASSUME Rest, NEW reports \in SUBSET Reports, NEW answered, NEW pending \in SUBSET FaultTypes,
           Hand(reports, answered, pending)
    PROVE  /\ faults' \subseteq FaultTypes
           /\ late' \subseteq [at : Nat, reports : SUBSET Reports]
  <1>1. now + ReportDelay \in Nat
    BY NowIsNat, GatewayConstants
  <1>2. late \subseteq [at : Nat, reports : SUBSET Reports]
    BY DEF Rest
  <1>3. [at |-> now + ReportDelay, reports |-> reports] \in [at : Nat, reports : SUBSET Reports]
    BY <1>1
  <1>4. late' = late \/ late' = late \cup {[at |-> now + ReportDelay, reports |-> reports]}
    BY DEF Hand
  <1>5. faults' = pending \/ faults' = pending \ {"delayed_report"}
    BY DEF Hand
  <1> QED
    BY <1>2, <1>3, <1>4, <1>5

\* The orders are what they were.
LEMMA SameOrders ==
    ASSUME IInv, UNCHANGED <<book, held, econ, view, submits, raised>>
    PROVE  Orderly(book, econ, view, submits)'
  BY DEF IInv, Orderly, Follows

LEMMA DispatchStep ==
    ASSUME IInv, NEW m, WellNamed(m), NEW r, Serves(ses, r.ses, now),
           NEW pending \in SUBSET FaultTypes, Dispatch(m, r, pending), now' = now
    PROVE  Step
  <1>1. now \in Nat /\ Rest
    BY NowIsNat DEF IInv
  <1>2. CASE r.disp = "accepted_new" /\ m.type \in OrderTypes
    <2> DEFINE d == IF m.type = "new_order" THEN NewOrder(m.arg) ELSE CancelOrder(m.arg)
               drops == AckDrops(m, d.book)
    <2>1. /\ book' = d.book /\ econ' = d.econ /\ view' = d.view /\ submits' = d.submits
          /\ ses' = IF drops # {} THEN Drop(Emit(r.ses, now)) ELSE Emit(r.ses, now)
          /\ Hand(d.reports, TRUE, pending \ drops)
          /\ held' = held /\ raised' = raised
      BY <1>2, Zenon DEF Dispatch
    <2>2. Handled(d)
      <3>1. CASE m.type = "new_order"
        BY <3>1, NewOrderHandled DEF WellNamed
      <3>2. CASE m.type # "new_order"
        <4>1. m.type = "cancel"
          BY <1>2, <3>2 DEF OrderTypes
        <4> QED
          BY <3>2, <4>1, CancelHandled DEF WellNamed
      <3> QED
        BY <3>1, <3>2
    <2> HIDE DEF d, drops
    <2>3. faults' \subseteq FaultTypes /\ late' \subseteq [at : Nat, reports : SUBSET Reports]
      BY <1>1, <2>1, <2>2, HandKeeps DEF Handled
    <2>4. Rest'
      BY <1>1, <2>1, <2>3 DEF Rest
    <2>5. Orderly(book, econ, view, submits)'
      BY <2>1, <2>2 DEF Handled, Orderly, Follows
    <2>6. SesInv(r.ses)
      BY DEF Serves
    <2>7. Calm(r.ses, Emit(r.ses, now)) /\ SesInv(Emit(r.ses, now))
      BY <1>1, <2>6, EmitOneIsCalm DEF Calm
    <2>8. Calm(r.ses, Drop(Emit(r.ses, now)))
      BY <2>7, DropIsCalm, CalmTwice
    <2>9. Serves(ses, ses', now)
      <3>1. Calm(r.ses, ses')
        BY <2>1, <2>7, <2>8
      <3> QED
        BY <3>1, ServesThenCalm
    <2> QED
      BY <2>4, <2>5, <2>9, KeepsAndServes
  <1>3. CASE ~(r.disp = "accepted_new" /\ m.type \in OrderTypes)
    <2> DEFINE lossy == r.disp = "accepted_new" /\ m.type = "test_request"
                            /\ "heartbeat_loss" \in pending
               left == IF lossy THEN pending \ {"heartbeat_loss"} ELSE pending
    <2>1. /\ ses' = r.ses
          /\ Hand({}, r.disp = "accepted_new" /\ r.sent # <<>> /\ ~lossy, left)
          /\ UNCHANGED <<book, held, econ, view, submits, raised>>
      BY <1>3, Zenon DEF Dispatch
    <2>2. left \in SUBSET FaultTypes /\ {} \in SUBSET Reports
      OBVIOUS
    <2> HIDE DEF lossy, left
    <2>3. faults' \subseteq FaultTypes /\ late' \subseteq [at : Nat, reports : SUBSET Reports]
      BY <1>1, <2>1, <2>2, HandKeeps
    <2>4. Rest'
      BY <1>1, <2>1, <2>3 DEF Rest
    <2> QED
      BY <2>1, <2>4, SameOrders, KeepsAndServes
  <1> QED
    BY <1>2, <1>3

LEMMA MarketStep ==
    ASSUME IInv, NEW r, Leaves(book, r), MarketPass(r)
    PROVE  Step
  <1> DEFINE reports == {r.upd[k] : k \in DOMAIN r.upd}
             seen == Shown(view, r.upd)
  <1>1. /\ r.book \in [Ids -> Orders] /\ r.acct.held \in Int
        /\ r.upd \in Seq(Ids \X OrderStates) /\ Holding(r.acct.held, r.book)
        /\ Told(r.upd, book, r.book)
    BY DEF Leaves, PassInv, Results, Accounts
  <1>2. /\ now \in Nat /\ Rest /\ SesInv(ses) /\ Orderly(book, econ, view, submits)
    BY NowIsNat DEF IInv
  <1>3. /\ book' = r.book /\ held' = r.acct.held /\ now' = now /\ econ' = econ
        /\ submits' = submits
    BY Zenon DEF MarketPass
  <1>4. Len(r.upd) \in Nat /\ reports \in SUBSET Reports
    BY <1>1 DEF Reports, Statuses
  <1>5. Once(r.book, econ, submits)
    <2>1. ASSUME NEW i \in Ids, book[i].st = "none" PROVE r.book[i].st = "none"
      BY <2>1 DEF Leaves, Spared, IsActive
    <2> QED
      BY <1>2, <2>1 DEF Orderly, Once
  <1>6. CASE r.raised
    <2>1. raised' = TRUE /\ view' = view /\ late' = late /\ faults' = faults /\ ses' = ses
      BY <1>6, Zenon DEF MarketPass
    <2>2. Rest'
      BY <1>1, <1>2, <1>3, <2>1 DEF Rest
    <2>3. Orderly(book, econ, view, submits)'
      BY <1>1, <1>2, <1>3, <1>5, <2>1 DEF Orderly, Follows
    <2>4. Serves(ses, ses', now)
      BY <1>2, <2>1, QuietServes DEF Quiet
    <2> QED
      BY <2>2, <2>3, <2>4, KeepsAndServes
  <1>7. CASE ~r.raised
    <2>1. /\ view' = seen /\ ses' = EmitMany(ses, Len(r.upd))
          /\ Hand(reports, reports # {}, faults) /\ raised' = raised
      BY <1>7, Zenon DEF MarketPass, Shown
    <2> HIDE DEF reports, seen
    <2>2. faults' \subseteq FaultTypes /\ late' \subseteq [at : Nat, reports : SUBSET Reports]
      <3>1. faults \in SUBSET FaultTypes
        BY <1>2 DEF Rest
      <3> QED
        BY <1>2, <1>4, <2>1, <3>1, HandKeeps
    <2>3. Rest'
      BY <1>1, <1>2, <1>3, <2>1, <2>2 DEF Rest
    <2>4. seen \in Views
      BY <1>1, <1>2, ShownIsTold DEF Orderly, seen
    <2>5. ASSUME ~raised PROVE \A i \in Ids : seen[i] = r.book[i].st
      <3>1. view \in Views /\ book \in [Ids -> Orders] /\ \A i \in Ids : view[i] = book[i].st
        BY <1>2, <2>5 DEF Orderly, Follows
      <3> QED
        BY <3>1, ShownAfterPass DEF seen, Leaves
    <2>6. Orderly(book, econ, view, submits)'
      BY <1>1, <1>2, <1>3, <1>5, <2>1, <2>4, <2>5 DEF Orderly, Follows
    <2>7. Serves(ses, ses', now)
      BY <1>2, <1>4, <2>1, EmitManyIsQuiet, QuietServes
    <2> QED
      BY <2>3, <2>6, <2>7, KeepsAndServes
  <1> QED
    BY <1>6, <1>7

\* A step of the session alone.
LEMMA QuietStep ==
    ASSUME IInv, Quiet(ses, ses'), Rest', UNCHANGED <<book, held, econ, view, submits, raised>>
    PROVE  Step
  BY QuietServes, SameOrders, KeepsAndServes DEF IInv

LEMMA SessionStep ==
    ASSUME IInv, Quiet(ses, ses'), UNCHANGED <<now, gwVars>>
    PROVE  Step
  <1>1. Rest'
    BY DEF IInv, Rest, gwVars
  <1> QED
    BY <1>1, QuietStep DEF gwVars

\* What receive returns names its session.
LEMMA ReceiveIsRecord ==
    ASSUME NEW s, NEW m, NEW at, NEW t
    PROVE  [Receive(s, m, at) EXCEPT !.ses = t].ses = t
  <1>1. \A u, v, w : "ses" \in DOMAIN Result(u, v, w)
    BY DEF Result
  <1>2. "ses" \in DOMAIN Refuse(s) /\ "ses" \in DOMAIN RefuseWithReject(s, m, at)
    BY <1>1 DEF Refuse, RefuseWithReject
  <1>3. "ses" \in DOMAIN Accept(s, m, at)
    BY <1>1, Zenon DEF Accept
  <1>4. "ses" \in DOMAIN Receive(s, m, at)
    BY <1>1, <1>2, <1>3, Zenon DEF Receive
  <1> QED
    BY <1>4

LEMMA HandleStep ==
    ASSUME IInv, NEW m, WellNamed(m), Handle(m)
    PROVE  Step
  <1> DEFINE gap == "sequence_gap" \in faults
             twice == ~gap /\ "duplicate_inbound" \in faults
             msg == IF gap THEN [m EXCEPT !.seq = @ + 1, !.dup = FALSE] ELSE m
             first == Receive(ses, msg, now)
             second == Receive(first.ses, msg, now)
             again == [first EXCEPT !.ses = second.ses]
             left == faults \ (IF gap THEN {"sequence_gap"} ELSE {"duplicate_inbound"})
  <1>1. now \in Nat /\ SesInv(ses) /\ Rest
    BY NowIsNat DEF IInv
  <1>2. CASE m.type = "logon" /\ "drop_before_logon" \in faults
    <2>1. /\ ses' = Drop(ses) /\ faults' = faults \ {"drop_before_logon"}
          /\ UNCHANGED <<now, book, held, econ, view, late, submits, raised>>
      BY <1>2, Zenon DEF Handle
    <2>2. Rest'
      BY <1>1, <2>1 DEF Rest
    <2>3. Quiet(ses, ses')
      BY <1>1, <2>1, DropIsCalm, CalmIsQuiet
    <2> QED
      BY <2>1, <2>2, <2>3, QuietStep
  <1>3. CASE ~(m.type = "logon" /\ "drop_before_logon" \in faults)
    <2>1. /\ msg.seq <= MaxSeq /\ Dispatch(msg, IF twice THEN again ELSE first, left)
          /\ now' = now
      BY <1>3, Zenon DEF Handle
    <2>2. WellNamed(msg)
      <3>1. CASE gap
        BY <2>1, <3>1, SkippedIsWellNamed
      <3>2. CASE ~gap
        BY <3>2
      <3> QED
        BY <3>1, <3>2
    <2> HIDE DEF msg
    <2>3. Serves(ses, first.ses, now)
      BY <1>1, <2>2, ReceiveServes DEF WellNamed
    <2>4. Serves(ses, again.ses, now)
      <3>1. again.ses = second.ses
        BY ReceiveIsRecord
      <3>2. Calm(first.ses, second.ses)
        BY <1>1, <2>2, SecondIsCalm DEF WellNamed
      <3> HIDE DEF first, second, again
      <3> QED
        BY <2>3, <3>1, <3>2, ServesThenCalm
    <2>5. left \in SUBSET FaultTypes
      BY <1>1 DEF Rest
    <2> HIDE DEF first, again, left, twice
    <2> DEFINE r == IF twice THEN again ELSE first
    <2>6. Serves(ses, r.ses, now)
      BY <2>3, <2>4
    <2>7. Dispatch(msg, r, left)
      BY <2>1
    <2> HIDE DEF r
    <2> QED
      BY <2>1, <2>2, <2>5, <2>6, <2>7, DispatchStep
  <1> QED
    BY <1>2, <1>3

LEMMA HandleRawStep ==
    ASSUME IInv, NEW m, WellNamed(m), HandleRaw(m)
    PROVE  Step
  <1>1. now \in Nat /\ SesInv(ses) /\ faults \in SUBSET FaultTypes
    BY NowIsNat DEF IInv, Rest
  <1> DEFINE r == Receive(ses, m, now)
  <1>2. Serves(ses, r.ses, now)
    BY <1>1, ReceiveServes DEF WellNamed
  <1>3. Dispatch(m, r, faults) /\ now' = now
    BY DEF HandleRaw
  <1> HIDE DEF r
  <1> QED
    BY <1>1, <1>2, <1>3, DispatchStep

LEMMA AccountsOfPass ==
    ASSUME IInv, NEW fails \in Failing
    PROVE  Account(fails) \in Accounts /\ Account(fails).held = held
  <1>1. held \in Int /\ Active(book) \subseteq Ids
    BY DEF IInv, Rest, Orderly, Active
  <1>2. fails \in SUBSET Ids
    BY <1>1 DEF Failing
  <1> QED
    BY <1>1, <1>2 DEF Account, Accounts

\* Every step of the gateway.
LEMMA NextSteps ==
    ASSUME IInv, Next
    PROVE  Step
  <1>0. now \in Nat /\ SesInv(ses) /\ Rest /\ book \in [Ids -> Orders] /\ Holding(held, book)
    BY NowIsNat DEF IInv, Orderly
  <1>1. CASE Peer
    <2>1. PICK m \in Inbound(MessageTypes \ {"reject"}) : Handle(m)
      BY <1>1 DEF Peer
    <2> QED
      BY <1>0, <2>1, InboundIsWellNamed, HandleStep
  <1>2. CASE PeerRaw
    <2>1. PICK m \in Inbound({"new_order", "cancel"}) : HandleRaw(m)
      BY <1>2 DEF PeerRaw
    <2>2. {"new_order", "cancel"} \in SUBSET MessageTypes
      BY DEF MessageTypes, OrderTypes
    <2> QED
      BY <1>0, <2>1, <2>2, InboundIsWellNamed, HandleRawStep
  <1>3. CASE BarOpen
    <2>1. PICK bar \in Bars, fails \in Failing :
              MarketPass(Market!ProcessOpen(book, Account(fails), bar.open, now))
      BY <1>3 DEF BarOpen
    <2>2. bar \in Prices /\ Account(fails) \in Accounts /\ Account(fails).held = held
      BY MarketPrices, AccountsOfPass DEF Prices
    <2>3. Leaves(book, Market!ProcessOpen(book, Account(fails), bar.open, now))
      BY <1>0, <2>2, PassesKeep
    <2> QED
      BY <2>1, <2>3, MarketStep
  <1>4. CASE BarCompleted
    <2>1. PICK bar \in Bars, fails \in Failing :
              MarketPass(Market!ProcessBar(book, Account(fails), bar.low, bar.high, now))
      BY <1>4 DEF BarCompleted
    <2>2. bar \in Prices /\ Account(fails) \in Accounts /\ Account(fails).held = held
      BY MarketPrices, AccountsOfPass DEF Prices
    <2>3. Leaves(book, Market!ProcessBar(book, Account(fails), bar.low, bar.high, now))
      BY <1>0, <2>2, PassesKeep
    <2> QED
      BY <2>1, <2>3, MarketStep
  <1>5. CASE ReleaseDelayed
    <2>1. Rest'
      BY <1>0, <1>5 DEF ReleaseDelayed, Rest
    <2>2. Quiet(ses, ses')
      BY <1>0, <1>5 DEF ReleaseDelayed, Quiet
    <2> QED
      BY <1>5, <2>1, <2>2, QuietStep DEF ReleaseDelayed
  <1>6. CASE Logon
    <2>1. Quiet(ses, ses')
      BY <1>0, <1>6, EnterIsQuiet DEF Logon, Connect
    <2> QED
      BY <1>6, <2>1, SessionStep DEF Logon
  <1>7. CASE Reconnect
    <2>1. Rest'
      BY <1>0, <1>7 DEF Reconnect, Rest
    <2>2. Quiet(ses, ses)
      BY <1>0 DEF Quiet
    <2>3. Quiet(ses, Connect(ses, now))
      BY <1>0, EnterIsQuiet DEF Connect
    <2>4. Quiet(ses, ses')
      BY <1>7, <2>2, <2>3 DEF Reconnect
    <2> QED
      BY <1>7, <2>1, <2>4, QuietStep DEF Reconnect
  <1>8. CASE Logout
    <2>1. Quiet(ses, ses')
      BY <1>0, <1>8, EnterIsQuiet DEF Logout, RequestLogout
    <2> QED
      BY <1>8, <2>1, SessionStep DEF Logout
  <1>9. CASE Timer
    <2>1. Quiet(ses, ses')
      BY <1>0, <1>9, TickIsQuiet DEF Timer
    <2> QED
      BY <1>9, <2>1, SessionStep DEF Timer
  <1>10. CASE Disconnected
    <2>1. Quiet(ses, ses')
      BY <1>0, <1>10, DropIsCalm, CalmIsQuiet DEF Disconnected
    <2> QED
      BY <1>10, <2>1, SessionStep DEF Disconnected
  <1>11. CASE Clock
    <2>1. now' \in 0 .. MaxTime
      BY <1>0, <1>11, SessionBounds DEF Clock, Rest
    <2>2. Rest'
      BY <1>0, <1>11, <2>1 DEF Clock, Rest, gwVars
    <2>3. Quiet(ses, ses')
      BY <1>0, <1>11, ForgetIsQuiet DEF Clock
    <2> QED
      BY <1>11, <2>2, <2>3, QuietStep DEF Clock, gwVars
  <1> QED
    BY <1>1, <1>2, <1>3, <1>4, <1>5, <1>6, <1>7, <1>8, <1>9, <1>10, <1>11 DEF Next

LEMMA NextKeeps ==
    ASSUME IInv, [Next]_vars
    PROVE  IInv'
  <1>1. CASE Next
    BY <1>1, NextSteps DEF Step
  <1>2. CASE UNCHANGED vars
    <2>1. Quiet(ses, ses')
      BY <1>2 DEF vars, IInv, Quiet
    <2> QED
      BY <1>2, <2>1, SessionStep DEF vars, Step
  <1> QED
    BY <1>1, <1>2

LEMMA IInvAlways == Spec => []IInv
  <1>1. Init => IInv
    BY InitGives
  <1>2. IInv /\ [Next]_vars => IInv'
    BY NextKeeps
  <1> QED
    BY <1>1, <1>2, PTL DEF Spec

\* Whatever fills, faults, replays and failing accounting do, the position is
\* what was held plus what filled, a spot position covers every sell at work, a
\* ClOrdID makes one order, and a session that waits knows for what
\* (gateway.py:161, 226, 322; session.py:336).
THEOREM OrdersAreSound == Spec => []OrdersSound
  <1>1. IInv => OrdersSound
    BY IInvGivesOrders
  <1> QED
    BY <1>1, IInvAlways, PTL

\* Until a market pass raises, what the gateway tells its clients about an order
\* is what the broker did with it (gateway.py:411, 426).
THEOREM ViewIsTrue == Spec => []ViewFollowsBroker
  <1>1. IInv => ViewFollowsBroker
    BY IInvGivesOrders
  <1> QED
    BY <1>1, IInvAlways, PTL

\* No step takes back an accepted message or an expected number (session.py:228).
THEOREM AcceptedStays == Spec => AcceptedKept
  <1>1. IInv /\ [Next]_vars => [KeepsAccepted(ses, ses')]_ses
    BY NextSteps DEF Step, Serves, vars
  <1> QED
    BY <1>1, IInvAlways, PTL DEF Spec, AcceptedKept

\* A late heartbeat never restores a session (session.py:314).
THEOREM RestoredInTime == Spec => NoLateRestore
  <1>1. IInv /\ [Next]_vars =>
            [ses.st = "test_request_pending" /\ ses'.st = "established"
                 => now <= ses.deadline \/ ses'.acc[ses.in].type = "sequence_reset"]_ses
    BY NextSteps DEF Step, Serves, InTime, vars
  <1> QED
    BY <1>1, IInvAlways, PTL DEF Spec, NoLateRestore
=============================================================================
