------------------------- MODULE PaperEffects_proofs -------------------------
(***************************************************************************)
(* What PaperBroker asks of the venue and what it books of the venue's     *)
(* answers, for any number of workers and orders: BookingSound,            *)
(* NeverRecancelled, LeaseRespected, the ClaimedBeforeCall half of         *)
(* CallsSound, and all of CallsSound for a single worker.  With SyncSafe   *)
(* and RejectSafe, hypotheses about the jobs and the outcomes: SafeRelease *)
(* and the refinement ImplementsBudget.                                    *)
(*                                                                         *)
(* The invariant EInv is inductive together with PaperBroker_proofs' IInv: *)
(*   VenueInStep   the venue's sequence and cumulative quantity are those  *)
(*                 of its fills;                                           *)
(*   SeenInStep    no answer a worker holds is ahead of the venue;         *)
(*   RowsInStep    the ledger of an order holds fills of the venue, their  *)
(*                 sum and a projection not ahead of the venue, and an     *)
(*                 order nobody submitted has no outbox row;               *)
(*   CallsClaimed  a call made, or about to be made, has a claimed outbox  *)
(*                 row, and for a cancellation or an expiry no other       *)
(*                 worker is about to make it.                             *)
(* LeasesFine, about the clock and the token of a leased claim, and        *)
(* AloneInv, about a single worker, come with the theorems that need them; *)
(* SInv, about what is over and what is booked, with the release.          *)
(***************************************************************************)
EXTENDS PaperBroker_proofs

\* The quantity of a set of fills, summed in their order.
QtyOf(fs, i, s) == IF i \in s THEN fs[i].qty ELSE 0
SumUpto(fs, s) ==
    LET sum[k \in 0 .. Len(fs)] == IF k = 0 THEN 0 ELSE sum[k - 1] + QtyOf(fs, k, s)
    IN  sum
Total(fs, s) == SumUpto(fs, s)[Len(fs)]

VenueInStep(v) == /\ v.cum = Total(v.fills, 1 .. Len(v.fills))
                  /\ \A i \in 1 .. Len(v.fills) : v.fills[i].seq <= v.seq
NotAhead(ord, v) == ord.seq <= v.seq /\ ord.cum <= v.cum
RowInStep(row, v) == /\ row.fills \subseteq 1 .. Len(v.fills)
                     /\ row.filled = Total(v.fills, row.fills)
                     /\ row.proj.seq <= v.seq /\ row.proj.cum <= v.cum
Started(row) == row.sub = "none" =>
    row.dis.st = "none" /\ row.can.st = "none" /\ row.exp.st = "none"

Dispatched(row) == row.dis.st \notin {"none", "prepared"}
CancelClaimed(row) == row.can.st \notin {"none", "requested"}
ExpiryClaimed(row) == row.exp.st \notin {"none", "requested"}

SeenInStep == \A w \in Workers : ctx[w].o \in Orders => NotAhead(ctx[w].seen, venue[ctx[w].o])
RowsInStep == \A o \in Orders : RowInStep(db[o], venue[o]) /\ Started(db[o])

CallsClaimed ==
    /\ \A o \in Orders :
          /\ calls[o].submit > 0 => Dispatched(db[o])
          /\ calls[o].cancel > 0 => CancelClaimed(db[o])
          /\ calls[o].expire > 0 => ExpiryClaimed(db[o])
          /\ calls[o].cancel <= 1 /\ calls[o].expire <= 1
    /\ \A w \in Workers :
          /\ pc[w] = "send" => Dispatched(db[ctx[w].o])
          /\ pc[w] = "csend" => CancelClaimed(db[ctx[w].o]) /\ calls[ctx[w].o].cancel = 0
          /\ pc[w] = "xsend" => ExpiryClaimed(db[ctx[w].o]) /\ calls[ctx[w].o].expire = 0
    /\ \A w, x \in Workers : w # x /\ pc[w] = pc[x] /\ pc[w] \in {"csend", "xsend"}
                             => ctx[w].o # ctx[x].o

EInv == /\ \A o \in Orders : VenueInStep(venue[o])
        /\ SeenInStep /\ RowsInStep /\ CallsClaimed

-----------------------------------------------------------------------------
(* One order's rows.                                                       *)

RowGood(row, v) == RowInv(row) /\ RowInStep(row, v) /\ Started(row)
\* What a transaction must leave of the ledger and of what was claimed.
Carries(r, s, v) == /\ RowInStep(s, v) /\ Started(s)
                    /\ Dispatched(r) => Dispatched(s)
                    /\ CancelClaimed(r) => CancelClaimed(s)
                    /\ ExpiryClaimed(r) => ExpiryClaimed(s)
SameLedger(r, s) == s.fills = r.fills /\ s.filled = r.filled /\ s.proj = r.proj
SameBoxes(r, s) == s.dis.st = r.dis.st /\ s.can.st = r.can.st /\ s.exp.st = r.exp.st

\* A transaction that leaves the row alone carries its ledger.
LEMMA StayCarries == ASSUME NEW v, NEW row, RowGood(row, v) PROVE Carries(row, row, v)
  BY DEF RowGood, Carries

\* Two transactions, one after the other.
LEMMA CarriesTrans ==
    ASSUME NEW v, NEW r, NEW s, NEW t, Carries(r, s, v), Carries(s, t, v)
    PROVE  Carries(r, t, v)
  BY DEF Carries

\* The budget is closed; nothing else changes.
LEMMA SettledKeeps ==
    ASSUME NEW row \in Rows, NEW st
    PROVE  /\ SameLedger(row, Settled(row, st)) /\ SameBoxes(row, Settled(row, st))
           /\ Settled(row, st).sub = row.sub
  <1> DEFINE how == IF st = "filled" THEN "consumed" ELSE "released"
             r == Released(row, how)
  <1>1. r \in [sub : SubStates, counted : BOOLEAN, res : {"none", "open", "consumed", "released"},
               resQty : Nat, fills : SUBSET Nat, filled : Nat, dis : Boxes, can : Boxes,
               exp : Boxes, proj : Projections, obs : SUBSET Snapshots, ords : SUBSET Snapshots]
    BY DEF Released, Rows
  <1>2. SameLedger(row, r) /\ SameBoxes(row, r) /\ r.sub = row.sub
    BY DEF Released, Rows, SameLedger, SameBoxes
  <1>3. Settled(row, st) = [r EXCEPT !.counted = FALSE]
    BY DEF Settled, Closed
  <1> HIDE DEF r
  <1> QED
    BY <1>1, <1>2, <1>3 DEF SameLedger, SameBoxes

\* A transaction about the outboxes: no fill, no projection.
LEMMA BoxesCarry ==
    ASSUME NEW v, NEW row, RowGood(row, v), NEW w, NEW age
    PROVE  /\ ClaimDispatchOK(row) => Carries(row, ClaimDispatch(row, w, age), v)
           /\ Carries(row, ClaimDispatchRecovery(row, w, age), v)
           /\ Carries(row, DispatchUnknown(row), v)
           /\ Carries(row, PrepareCancel(row), v)
           /\ ClaimCancelOK(row) => Carries(row, ClaimCancel(row, w, age), v)
           /\ Carries(row, ClaimCancelRecovery(row, w, age), v)
           /\ Carries(row, CancelUnknown(row), v)
           /\ row.sub # "none" /\ PrepareExpiryOK(row) => Carries(row, PrepareExpiry(row), v)
           /\ ClaimExpiryOK(row) => Carries(row, ClaimExpiry(row, w, age), v)
           /\ Carries(row, ClaimExpiryRecovery(row, w, age), v)
           /\ row.exp.st # "none" => Carries(row, ExpiryUnknown(row), v)
           /\ Carries(row, RowTick(row), v)
  <1>1. /\ row \in Rows /\ row.dis \in Boxes /\ row.can \in Boxes /\ row.exp \in Boxes
        /\ RowInStep(row, v) /\ Started(row)
    BY DEF RowGood, RowInv, Rows
  <1>2. /\ ClaimDispatchOK(row) => Carries(row, ClaimDispatch(row, w, age), v)
        /\ Carries(row, ClaimDispatchRecovery(row, w, age), v)
        /\ Carries(row, DispatchUnknown(row), v)
    BY <1>1 DEF Carries, RowInStep, Started, Rows, Boxes, Dispatched, CancelClaimed, ExpiryClaimed,
           ClaimDispatchOK, ClaimDispatch, ClaimDispatchRecovery, DispatchUnknown, Claimed,
           RecoveryClaimed
  <1>3. /\ Carries(row, PrepareCancel(row), v)
        /\ ClaimCancelOK(row) => Carries(row, ClaimCancel(row, w, age), v)
        /\ Carries(row, ClaimCancelRecovery(row, w, age), v)
        /\ Carries(row, CancelUnknown(row), v)
    BY <1>1 DEF Carries, RowInStep, Started, Rows, Boxes, Dispatched, CancelClaimed, ExpiryClaimed,
           PrepareCancel, ClaimCancelOK, ClaimCancel, ClaimCancelRecovery, CancelUnknown, Claimed, RecoveryClaimed
  <1>4. /\ row.sub # "none" /\ PrepareExpiryOK(row) => Carries(row, PrepareExpiry(row), v)
        /\ ClaimExpiryOK(row) => Carries(row, ClaimExpiry(row, w, age), v)
        /\ Carries(row, ClaimExpiryRecovery(row, w, age), v)
        /\ row.exp.st # "none" => Carries(row, ExpiryUnknown(row), v)
    BY <1>1 DEF Carries, RowInStep, Started, Rows, Boxes, Dispatched, CancelClaimed, ExpiryClaimed,
           PrepareExpiryOK, PrepareExpiry, ClaimExpiryOK, ClaimExpiry, ClaimExpiryRecovery,
           ExpiryUnknown, Claimed, RecoveryClaimed
  <1>5. Carries(row, RowTick(row), v)
    BY <1>1 DEF Carries, RowInStep, Started, Rows, Boxes, Dispatched, CancelClaimed, ExpiryClaimed,
           RowTick, BoxTick
  <1> QED
    BY <1>2, <1>3, <1>4, <1>5

\* Deciding a dispatch.
LEMMA DispatchesCarry ==
    ASSUME NEW v, NEW row, RowGood(row, v), NEW ord \in Snapshots
    PROVE  /\ Carries(row, Acknowledge(row, ord), v)
           /\ Carries(row, Reject(row), v)
           /\ Carries(row, DispatchRecovered(row, ord), v)
  <1>1. row \in Rows /\ RowInStep(row, v) /\ Started(row)
    BY DEF RowGood, RowInv
  <1>2. \A st \in BoxStates : Decided(st) \in Boxes /\ Decided(st).st = st
    <2>1. NoBox \in Boxes
      BY NoRowInv DEF RowInv, NoRow, Rows
    <2> QED
      BY <2>1 DEF Decided, Boxes
  <1>3. {"acknowledged", "explicitly_rejected", "recovered"} \subseteq BoxStates
    BY DEF BoxStates
  <1>4. Carries(row, Acknowledge(row, ord), v)
    BY <1>1, <1>2, <1>3 DEF Carries, RowInStep, Started, Rows, Dispatched, CancelClaimed,
           ExpiryClaimed, Acknowledge
  <1>5. ASSUME NEW sub \in SubStates \ {"none"}, NEW ords \in SUBSET Snapshots,
               NEW st \in {"explicitly_rejected", "recovered"}, NEW how, NEW settled \in BOOLEAN
        PROVE  LET r == [row EXCEPT !.dis = Decided(st), !.sub = sub, !.ords = ords] IN
                   Carries(row, IF settled THEN Settled(r, how) ELSE r, v)
    <2> DEFINE r == [row EXCEPT !.dis = Decided(st), !.sub = sub, !.ords = ords]
    <2>1. r \in Rows /\ Decided(st).st = st
      BY <1>1, <1>2, <1>3 DEF Rows
    <2>2. SameLedger(row, r) /\ r.dis.st = st /\ r.can = row.can /\ r.exp = row.exp /\ r.sub = sub
      BY <1>1, <2>1 DEF Rows, SameLedger
    <2> HIDE DEF r
    <2>3. SameLedger(r, Settled(r, how)) /\ SameBoxes(r, Settled(r, how)) /\ Settled(r, how).sub = sub
      BY <2>1, <2>2, SettledKeeps
    <2>4. Carries(row, r, v) /\ Carries(row, Settled(r, how), v)
      BY <1>1, <2>2, <2>3 DEF Carries, RowInStep, Started, Dispatched, CancelClaimed,
             ExpiryClaimed, SameLedger, SameBoxes
    <2> QED
      BY <2>4 DEF r
  <1>6. Carries(row, Reject(row), v)
    <2>1. "rejected" \in SubStates \ {"none"} /\ row.ords \in SUBSET Snapshots
      BY <1>1 DEF SubStates, Rows
    <2>2. Reject(row) = Settled([row EXCEPT !.dis = Decided("explicitly_rejected"),
                                            !.sub = "rejected", !.ords = row.ords], "rejected")
      BY <1>1 DEF Reject, Rows
    <2> QED
      BY <1>5, <2>1, <2>2
  <1>7. Carries(row, DispatchRecovered(row, ord), v)
    <2>1. StateOf(row, ord) \in SubStates \ {"none"} /\ row.ords \cup {ord} \in SUBSET Snapshots
      BY <1>1 DEF StateOf, SubmissionState, SubStates, Snapshots, OrderStates, Open, Terminal, Rows
    <2>2. DispatchRecovered(row, ord) =
             LET r == [row EXCEPT !.dis = Decided("recovered"), !.sub = StateOf(row, ord),
                                  !.ords = row.ords \cup {ord}]
             IN  IF ord.st \in Terminal /\ FillComplete(row, ord.cum) THEN Settled(r, ord.st) ELSE r
      BY DEF DispatchRecovered
    <2> QED
      BY <1>5, <2>1, <2>2
  <1> QED
    BY <1>4, <1>6, <1>7

\* An observation leaves a row.
LEMMA ObservedRow ==
    ASSUME NEW row \in Rows, NEW ord \in Snapshots
    PROVE  Observe(row, ord) \in Rows
  <1> DEFINE p == Projected(row, ord)
  <1>1. p \in Rows
    <2>1. /\ ord.seq \in Nat /\ ord.cum \in Nat /\ Authority(row, ord) \in SubStates
          /\ Disposition(row, ord) \in Terminal \cup {"active"} /\ Canonical(row, ord) \in Snapshots
          /\ ord.st \in OrderStates
      BY AuthorityFinal DEF Snapshots
    <2>2. [on |-> TRUE, seq |-> ord.seq, cum |-> ord.cum, observed |-> ord.st,
           disp |-> Disposition(row, ord), auth |-> Authority(row, ord),
           complete |-> FillComplete(row, ord.cum)] \in Projections
      BY <2>1 DEF Projections, FillComplete
    <2>3. row.obs \cup {ord} \in SUBSET Snapshots
          /\ row.ords \cup {Canonical(row, ord)} \in SUBSET Snapshots
      BY <2>1 DEF Rows
    <2> QED
      BY <2>1, <2>2, <2>3 DEF Projected, Rows
  <1> HIDE DEF p
  <1>2. Closed(p) \in Rows
    BY <1>1 DEF Closed, Rows
  <1>3. \A st : Settled(p, st) \in Rows
    BY <1>1 DEF Settled, Released, Closed, Rows
  <1> QED
    BY <1>1, <1>2, <1>3 DEF Observe, p

\* An observation that is not ahead of the venue.
LEMMA ObserveCarries ==
    ASSUME NEW v, NEW row \in Rows, RowInStep(row, v), Started(row),
           NEW ord \in Snapshots, NotAhead(ord, v)
    PROVE  /\ Carries(row, Observe(row, ord), v)
           /\ Observe(row, ord).fills = row.fills /\ SameBoxes(row, Observe(row, ord))
           /\ row.sub # "none" => Observe(row, ord).sub # "none"
  <1> DEFINE p == Projected(row, ord)
             s == Observe(row, ord)
  <1>1. /\ ord.seq \in Nat /\ ord.cum \in Nat /\ Authority(row, ord) \in SubStates \ {"none"}
        /\ Disposition(row, ord) \in Terminal \cup {"active"} /\ Canonical(row, ord) \in Snapshots
        /\ ord.st \in OrderStates
    BY AuthorityFinal DEF Snapshots
  <1>2. /\ p \in Rows /\ p.fills = row.fills /\ p.filled = row.filled /\ SameBoxes(row, p)
        /\ p.sub = Authority(row, ord) /\ p.proj.seq = ord.seq /\ p.proj.cum = ord.cum
    <2>1. [on |-> TRUE, seq |-> ord.seq, cum |-> ord.cum, observed |-> ord.st,
           disp |-> Disposition(row, ord), auth |-> Authority(row, ord),
           complete |-> FillComplete(row, ord.cum)] \in Projections
      BY <1>1 DEF Projections, FillComplete
    <2>2. row.obs \cup {ord} \in SUBSET Snapshots
          /\ row.ords \cup {Canonical(row, ord)} \in SUBSET Snapshots
      BY <1>1 DEF Rows
    <2> QED
      BY <1>1, <2>1, <2>2 DEF Projected, Rows, SameBoxes
  <1> HIDE DEF p
  <1>3. CASE s = row
    <2>1. Carries(row, row, v)
      BY DEF Carries
    <2> QED
      BY <1>3, <2>1 DEF SameBoxes
  <1>4. ASSUME SameLedger(p, s), SameBoxes(p, s), s.sub = p.sub
        PROVE  /\ Carries(row, s, v) /\ s.fills = row.fills /\ SameBoxes(row, s)
               /\ row.sub # "none" => s.sub # "none"
    <2> HIDE DEF s
    <2>1. s.sub # "none" /\ SameBoxes(row, s) /\ s.fills = row.fills /\ s.filled = row.filled
      BY <1>1, <1>2, <1>4 DEF SameLedger, SameBoxes
    <2>2. s.proj.seq <= v.seq /\ s.proj.cum <= v.cum
      BY <1>2, <1>4 DEF SameLedger, NotAhead
    <2> QED
      BY <2>1, <2>2 DEF Carries, RowInStep, Started, SameBoxes, Dispatched, CancelClaimed,
                        ExpiryClaimed
  <1>5. CASE s = p
    BY <1>4, <1>5 DEF SameLedger, SameBoxes
  <1>6. CASE s = Closed(p)
    <2>1. SameLedger(p, Closed(p)) /\ SameBoxes(p, Closed(p)) /\ Closed(p).sub = p.sub
      BY <1>2 DEF Closed, SameLedger, SameBoxes, Rows
    <2> QED
      BY <1>4, <1>6, <2>1
  <1>7. CASE s = Settled(p, Disposition(row, ord))
    <2>1. LET t == Settled(p, Disposition(row, ord)) IN
              SameLedger(p, t) /\ SameBoxes(p, t) /\ t.sub = p.sub
      BY <1>2, SettledKeeps
    <2> QED
      BY <1>4, <1>7, <2>1
  <1> QED
    BY <1>3, <1>5, <1>6, <1>7 DEF Observe, p

\* The outcome of a cancellation and of an expiry that was asked for.
LEMMA OutcomesCarry ==
    ASSUME NEW v, NEW row, RowGood(row, v), NEW ord \in Snapshots \cup {NoSnapshot},
           NotAhead(ord, v)
    PROVE  /\ row.can.st # "none" => Carries(row, CancelOutcome(row, ord), v)
           /\ row.exp.st # "none" => Carries(row, ExpiryOutcome(row, ord), v)
           /\ ord \in Snapshots => Carries(row, Observe(row, ord), v)
  <1>1. row \in Rows /\ RowInStep(row, v) /\ Started(row)
    BY DEF RowGood, RowInv
  <1>2. CASE ord.st \notin Terminal
    <2>1. CancelOutcome(row, ord) = CancelUnknown(row) /\ ExpiryOutcome(row, ord) = ExpiryUnknown(row)
      BY <1>2 DEF CancelOutcome, ExpiryOutcome
    <2> QED
      BY <1>1, <2>1, BoxesCarry, ObserveCarries
  <1>3. CASE ord.st \in Terminal
    <2> DEFINE s == Observe(row, ord)
    <2>1. ord \in Snapshots
      BY <1>3 DEF NoSnapshot, Terminal
    <2>2. /\ Carries(row, s, v) /\ SameBoxes(row, s)
          /\ row.sub # "none" => s.sub # "none"
      BY <1>1, <2>1, ObserveCarries
    <2> HIDE DEF s
    <2>3. row.can.st # "none" => Carries(row, CancelOutcome(row, ord), v)
      <3> DEFINE t == IF ord.st = "cancelled" THEN "confirmed" ELSE "superseded"
                 box == [Decided(t) EXCEPT !.owner = row.can.owner]
                 c == [s EXCEPT !.can = box]
      <3>1. CancelOutcome(row, ord) = c
        BY <1>3 DEF CancelOutcome, CancelDone, s
      <3>2. box.st = t /\ t \notin {"none", "requested"}
        BY DEF Decided, NoBox
      <3> HIDE DEF box, t
      <3>3. /\ SameLedger(s, c) /\ c.dis = s.dis /\ c.exp = s.exp /\ c.sub = s.sub /\ c.can.st = t
        BY <2>2, <3>2, ObservedRow DEF SameLedger, s
      <3> QED
        BY <1>1, <2>2, <3>1, <3>2, <3>3 DEF Carries, RowInStep, Started, Dispatched, CancelClaimed,
               ExpiryClaimed, SameLedger, SameBoxes
    <2>4. row.exp.st # "none" => Carries(row, ExpiryOutcome(row, ord), v)
      <3> DEFINE c == [s EXCEPT !.exp.st = "confirmed"]
      <3>1. ExpiryOutcome(row, ord) = c
        BY <1>3 DEF ExpiryOutcome, s
      <3>2. /\ SameLedger(s, c) /\ c.dis = s.dis /\ c.can = s.can /\ c.sub = s.sub
            /\ c.exp.st = "confirmed"
        <4>1. s \in Rows
          BY <1>1, <2>1, ObservedRow DEF s
        <4> QED
          BY <4>1 DEF SameLedger, Rows, Boxes
      <3> QED
        BY <1>1, <2>2, <3>1, <3>2 DEF Carries, RowInStep, Started, Dispatched, CancelClaimed,
               ExpiryClaimed, SameLedger, SameBoxes
    <2> QED
      BY <2>2, <2>3, <2>4 DEF s
  <1> QED
    BY <1>2, <1>3

-----------------------------------------------------------------------------
(* Fills.                                                                  *)

\* The sum grows by one fill after the other.
LEMMA SumSteps ==
    ASSUME NEW fs, Len(fs) \in Nat, NEW s
    PROVE  /\ SumUpto(fs, s)[0] = 0
           /\ \A k \in 1 .. Len(fs) : SumUpto(fs, s)[k] = SumUpto(fs, s)[k - 1] + QtyOf(fs, k, s)
  <1> DEFINE n == Len(fs)
             Add(x, k) == x + QtyOf(fs, k, s)
             Body(h, j) == [k \in 0 .. j |-> IF k = 0 THEN 0 ELSE Add(h[k - 1], k)]
             N == {j \in Nat : \E h : h = Body(h, j)}
             sum == CHOOSE h : h = Body(h, n)
  <1>1. SumUpto(fs, s) = sum
    BY Zenon DEF SumUpto
  <1> HIDE DEF Add, n
  <1>2. 0 \in N
    <2> DEFINE h == [k \in 0 .. 0 |-> 0]
    <2>1. h = Body(h, 0)
      OBVIOUS
    <2> HIDE DEF h, Body
    <2> QED
      BY <2>1
  <1>3. ASSUME NEW j \in N PROVE j + 1 \in N
    <2>1. PICK h : h = Body(h, j)
      OBVIOUS
    <2>2. j \in Nat
      OBVIOUS
    <2> DEFINE g == [k \in 0 .. (j + 1) |-> IF k = j + 1 THEN Add(h[j], j + 1) ELSE h[k]]
    <2>3. \A k \in 0 .. j : g[k] = h[k]
      BY <2>2
    <2>4. ASSUME NEW k \in 0 .. (j + 1) PROVE g[k] = IF k = 0 THEN 0 ELSE Add(g[k - 1], k)
      <3>1. CASE k = 0
        BY <2>1, <2>2, <2>3, <3>1
      <3>2. CASE k = j + 1
        <4>1. k - 1 = j /\ j \in 0 .. j /\ k # 0
          BY <2>2, <3>2
        <4> QED
          BY <2>3, <3>2, <4>1
      <3>3. CASE k # 0 /\ k # j + 1
        <4>1. k \in 0 .. j /\ k - 1 \in 0 .. j
          BY <2>2, <3>3
        <4>2. h[k] = Add(h[k - 1], k)
          BY <2>1, <3>3, <4>1
        <4> QED
          BY <2>3, <3>3, <4>1, <4>2
      <3> QED
        BY <3>1, <3>2, <3>3
    <2>5. g = Body(g, j + 1)
      BY <2>4
    <2>6. j + 1 \in Nat
      BY <2>2
    <2> HIDE DEF g, Body
    <2> QED
      BY <2>5, <2>6
  <1>4. n \in N
    <2>1. N \in SUBSET Nat /\ n \in Nat
      BY DEF n
    <2> HIDE DEF N
    <2> QED
      BY <1>2, <1>3, <2>1, NumbersInduct
  <1>5. sum = Body(sum, n)
    <2> HIDE DEF Body
    <2> QED
      BY <1>4
  <1> HIDE DEF sum
  <1>6. n \in Nat
    BY DEF n
  <1>7. sum[0] = 0 /\ \A k \in 1 .. n : sum[k] = Add(sum[k - 1], k)
    BY <1>5, <1>6
  <1> QED
    BY <1>1, <1>7 DEF Add, n

\* What is known of a list of fills.
LEMMA FillList ==
    ASSUME NEW fs \in Seq(Fills)
    PROVE  /\ Len(fs) \in Nat
           /\ \A i \in 1 .. Len(fs) : i \in Nat /\ fs[i] \in Fills /\ fs[i].qty \in Nat \ {0}
           /\ \A s : \A i \in 1 .. Len(fs) : QtyOf(fs, i, s) \in Nat
  <1>1. Len(fs) \in Nat /\ \A i \in 1 .. Len(fs) : i \in Nat /\ fs[i] \in Fills
    OBVIOUS
  <1>2. \A i \in 1 .. Len(fs) : fs[i].qty \in Nat \ {0}
    BY <1>1 DEF Fills
  <1>3. \A s : \A i \in 1 .. Len(fs) : QtyOf(fs, i, s) \in Nat
    BY <1>2 DEF QtyOf
  <1> QED
    BY <1>1, <1>2, <1>3

\* Larger sets have larger sums.
LEMMA SumsGrow ==
    ASSUME NEW fs \in Seq(Fills), NEW t, NEW s, s \subseteq t
    PROVE  Total(fs, s) \in Nat /\ Total(fs, t) \in Nat /\ Total(fs, s) <= Total(fs, t)
  <1> DEFINE n == Len(fs)
             a == SumUpto(fs, s)
             b == SumUpto(fs, t)
             Has == {k \in Nat : a[k] \in Nat /\ b[k] \in Nat /\ a[k] <= b[k]}
  <1>1. n \in Nat
    BY FillList
  <1>2. /\ a[0] = 0 /\ b[0] = 0
        /\ \A k \in 1 .. n : /\ a[k] = a[k - 1] + QtyOf(fs, k, s)
                             /\ b[k] = b[k - 1] + QtyOf(fs, k, t)
    BY <1>1, SumSteps
  <1>3. \A k \in 1 .. n : /\ QtyOf(fs, k, s) \in Nat /\ QtyOf(fs, k, t) \in Nat
                          /\ QtyOf(fs, k, s) <= QtyOf(fs, k, t)
    <2>1. \A k \in 1 .. n : QtyOf(fs, k, s) \in Nat /\ QtyOf(fs, k, t) \in Nat
      BY FillList
    <2>2. \A k \in 1 .. n : QtyOf(fs, k, s) <= QtyOf(fs, k, t)
      <3>1. \A k \in 1 .. n : fs[k].qty \in Nat
        BY FillList
      <3> QED
        BY <3>1 DEF QtyOf
    <2> QED
      BY <2>1, <2>2
  <1>4. Total(fs, s) = a[n] /\ Total(fs, t) = b[n]
    BY DEF Total
  <1> HIDE DEF n, a, b
  <1>5. 0 \in Has
    BY <1>2
  <1>6. ASSUME NEW k \in 1 .. n, k - 1 \in Has PROVE k \in Has
    <2> DEFINE x == QtyOf(fs, k, s)
               y == QtyOf(fs, k, t)
    <2>1. k \in Nat /\ x \in Nat /\ y \in Nat /\ x <= y
      BY <1>1, <1>3
    <2> DEFINE p == a[k - 1]
               r == b[k - 1]
    <2>2. a[k] = p + x /\ b[k] = r + y
      BY <1>2
    <2>3. p \in Nat /\ r \in Nat /\ p <= r
      BY <1>6
    <2> HIDE DEF x, y, p, r
    <2>4. a[k] \in Nat /\ b[k] \in Nat /\ a[k] <= b[k]
      BY <2>1, <2>2, <2>3
    <2> QED
      BY <2>1, <2>4
  <1> HIDE DEF Has
  <1>7. n \in Has
    BY <1>1, <1>5, <1>6, BookedInduct
  <1> QED
    BY <1>4, <1>7 DEF Has

\* One more fill adds its quantity.
LEMMA SumAdds ==
    ASSUME NEW fs \in Seq(Fills), NEW s, NEW i \in 1 .. Len(fs), i \notin s
    PROVE  Total(fs, s \cup {i}) = Total(fs, s) + fs[i].qty
  <1> DEFINE n == Len(fs)
             q == fs[i].qty
             a == SumUpto(fs, s)
             b == SumUpto(fs, s \cup {i})
             Has == {k \in Nat : a[k] \in Nat /\ b[k] = IF k >= i THEN a[k] + q ELSE a[k]}
  <1>1. n \in Nat /\ i \in Nat /\ q \in Nat /\ i \in 1 .. n
    BY FillList
  <1>2. /\ a[0] = 0 /\ b[0] = 0
        /\ \A k \in 1 .. n : /\ a[k] = a[k - 1] + QtyOf(fs, k, s)
                             /\ b[k] = b[k - 1] + QtyOf(fs, k, s \cup {i})
    BY <1>1, SumSteps
  <1>3. ASSUME NEW k \in 1 .. n
        PROVE  /\ k \in Nat /\ QtyOf(fs, k, s) \in Nat
               /\ k = i => QtyOf(fs, k, s) = 0 /\ QtyOf(fs, k, s \cup {i}) = q
               /\ k # i => QtyOf(fs, k, s \cup {i}) = QtyOf(fs, k, s)
    <2>1. k \in Nat /\ QtyOf(fs, k, s) \in Nat
      BY FillList
    <2> QED
      BY <2>1 DEF QtyOf
  <1>4. Total(fs, s) = a[n] /\ Total(fs, s \cup {i}) = b[n]
    BY DEF Total
  <1> HIDE DEF n, a, b, q
  <1>5. 0 \in Has
    BY <1>1, <1>2
  <1>6. ASSUME NEW k \in 1 .. n, k - 1 \in Has PROVE k \in Has
    <2> DEFINE x == QtyOf(fs, k, s)
               y == QtyOf(fs, k, s \cup {i})
    <2>1. k \in Nat /\ x \in Nat /\ (k = i => x = 0 /\ y = q) /\ (k # i => y = x)
      BY <1>1, <1>3
    <2>2. a[k] = a[k - 1] + x /\ b[k] = b[k - 1] + y
      BY <1>2
    <2>3. a[k - 1] \in Nat /\ b[k - 1] = IF k - 1 >= i THEN a[k - 1] + q ELSE a[k - 1]
      BY <1>6
    <2> HIDE DEF x, y
    <2>4. a[k] \in Nat
      BY <2>1, <2>2, <2>3
    <2>5. CASE k = i
      <3>1. ~(k - 1 >= i) /\ k >= i
        BY <1>1, <2>1, <2>5
      <3>2. b[k] = a[k] + q
        BY <1>1, <2>1, <2>2, <2>3, <2>5, <3>1
      <3> QED
        BY <2>1, <2>4, <3>1, <3>2
    <2>6. CASE k # i
      <3>1. (k - 1 >= i) <=> (k >= i)
        BY <1>1, <2>1, <2>6
      <3>2. b[k] = IF k >= i THEN a[k] + q ELSE a[k]
        BY <1>1, <2>1, <2>2, <2>3, <2>6, <3>1
      <3> QED
        BY <2>1, <2>4, <3>2
    <2> QED
      BY <2>5, <2>6
  <1> HIDE DEF Has
  <1>7. n \in Has
    BY <1>1, <1>5, <1>6, BookedInduct
  <1>8. n >= i
    BY <1>1
  <1> QED
    BY <1>4, <1>7, <1>8 DEF Has, q

\* Nothing adds up to nothing, and n fills to n units at least.
LEMMA SumBounds ==
    ASSUME NEW fs \in Seq(Fills)
    PROVE  Total(fs, {}) = 0 /\ Total(fs, 1 .. Len(fs)) >= Len(fs)
  <1> DEFINE n == Len(fs)
             a == SumUpto(fs, {})
             b == SumUpto(fs, 1 .. n)
             Has == {k \in Nat : a[k] = 0 /\ b[k] \in Nat /\ b[k] >= k}
  <1>1. n \in Nat
    BY FillList
  <1>2. /\ a[0] = 0 /\ b[0] = 0
        /\ \A k \in 1 .. n : /\ a[k] = a[k - 1] + QtyOf(fs, k, {})
                             /\ b[k] = b[k - 1] + QtyOf(fs, k, 1 .. n)
    BY <1>1, SumSteps
  <1>3. \A k \in 1 .. n : QtyOf(fs, k, {}) = 0 /\ QtyOf(fs, k, 1 .. n) \in Nat \ {0}
    BY FillList DEF QtyOf
  <1>4. Total(fs, {}) = a[n] /\ Total(fs, 1 .. n) = b[n]
    BY DEF Total
  <1> HIDE DEF a, b
  <1>5. 0 \in Has
    BY <1>2
  <1>6. ASSUME NEW k \in 1 .. n, k - 1 \in Has PROVE k \in Has
    <2> DEFINE y == QtyOf(fs, k, 1 .. n)
    <2>1. k \in Nat /\ y \in Nat \ {0}
      BY <1>1, <1>3
    <2>2. a[k] = a[k - 1] + 0 /\ b[k] = b[k - 1] + y
      BY <1>2, <1>3
    <2>3. a[k - 1] = 0 /\ b[k - 1] \in Nat /\ b[k - 1] >= k - 1
      BY <1>6
    <2> HIDE DEF y
    <2> QED
      BY <2>1, <2>2, <2>3
  <1> HIDE DEF Has
  <1>7. n \in Has
    BY <1>1, <1>5, <1>6, BookedInduct
  <1> QED
    BY <1>4, <1>7 DEF Has

\* Sums over fills.
LEMMA Totals ==
    ASSUME NEW fs \in Seq(Fills), NEW s, s \subseteq 1 .. Len(fs)
    PROVE  /\ Total(fs, s) \in Nat /\ Total(fs, s) <= Total(fs, 1 .. Len(fs))
           /\ \A i \in 1 .. Len(fs) : i \notin s =>
                 Total(fs, s \cup {i}) = Total(fs, s) + fs[i].qty
  BY SumsGrow, SumAdds

\* A further fill at the end leaves the sums over the others alone.
LEMMA TotalsStay ==
    ASSUME NEW fs \in Seq(Fills), NEW gs \in Seq(Fills), Len(gs) = Len(fs) + 1,
           \A i \in 1 .. Len(fs) : gs[i] = fs[i], NEW s, s \subseteq 1 .. Len(fs)
    PROVE  Total(gs, s) = Total(fs, s)
  <1> DEFINE n == Len(fs)
             a == SumUpto(fs, s)
             b == SumUpto(gs, s)
             Has == {k \in Nat : a[k] \in Nat /\ b[k] = a[k]}
  <1>1. n \in Nat /\ Len(gs) = n + 1
    BY FillList
  <1>2. /\ a[0] = 0 /\ b[0] = 0
        /\ \A k \in 1 .. n : a[k] = a[k - 1] + QtyOf(fs, k, s)
        /\ \A k \in 1 .. (n + 1) : b[k] = b[k - 1] + QtyOf(gs, k, s)
    BY <1>1, SumSteps
  <1>3. /\ \A k \in 1 .. n : QtyOf(fs, k, s) \in Nat /\ QtyOf(gs, k, s) = QtyOf(fs, k, s)
        /\ QtyOf(gs, n + 1, s) = 0
    <2>1. \A k \in 1 .. n : QtyOf(fs, k, s) \in Nat /\ QtyOf(gs, k, s) = QtyOf(fs, k, s)
      BY FillList DEF QtyOf
    <2>2. n + 1 \notin s
      BY <1>1
    <2> QED
      BY <2>1, <2>2 DEF QtyOf
  <1>4. Total(fs, s) = a[n] /\ Total(gs, s) = b[n + 1]
    BY <1>1 DEF Total
  <1> HIDE DEF n, a, b
  <1>5. 0 \in Has
    BY <1>2
  <1>6. ASSUME NEW k \in 1 .. n, k - 1 \in Has PROVE k \in Has
    <2> DEFINE x == QtyOf(fs, k, s)
    <2>1. k \in Nat /\ k \in 1 .. (n + 1) /\ x \in Nat /\ QtyOf(gs, k, s) = x
      BY <1>1, <1>3
    <2>2. a[k] = a[k - 1] + x /\ b[k] = b[k - 1] + x
      BY <1>2, <2>1
    <2>3. a[k - 1] \in Nat /\ b[k - 1] = a[k - 1]
      BY <1>6
    <2> HIDE DEF x
    <2> QED
      BY <2>1, <2>2, <2>3
  <1> HIDE DEF Has
  <1>7. n \in Has
    BY <1>1, <1>5, <1>6, BookedInduct
  <1>8. b[n + 1] = b[n] + 0
    BY <1>1, <1>2, <1>3
  <1> QED
    BY <1>4, <1>7, <1>8 DEF Has

\* The venue's record of an order that is well-formed and in step.
VenueGood(v) == VenueFine(v) /\ VenueInStep(v)

\* Booking one fill of the venue that is not in the ledger yet.
LEMMA PersistFillCarries ==
    ASSUME NEW v, VenueGood(v), NEW row, RowGood(row, v), NEW i \in 1 .. Len(v.fills),
           i \notin row.fills, NEW vo \in Snapshots, NotAhead(vo, v),
           PersistFillOK(row, i, v.fills[i], vo)
    PROVE  /\ RowGood(PersistFill(row, i, v.fills[i], vo), v)
           /\ Carries(row, PersistFill(row, i, v.fills[i], vo), v)
           /\ PersistFill(row, i, v.fills[i], vo).fills = row.fills \cup {i}
  <1> DEFINE f == v.fills[i]
             b == Booked(row, i, f)
             ord == BookedOrder(row, f, vo)
             s == Observe(b, ord)
  <1>1. /\ v.fills \in Seq(Fills) /\ v.cum \in Nat /\ v.seq \in Nat
        /\ f \in Fills /\ i \in Nat /\ f.seq <= v.seq
    BY DEF VenueGood, VenueFine, VenueInStep, VenueOrders
  <1>2. /\ row \in Rows /\ RowInv(row) /\ RowInStep(row, v) /\ Started(row)
        /\ f.qty \in Nat \ {0} /\ f.seq \in Nat /\ vo.seq \in Nat /\ row.filled \in Nat
        /\ row.resQty \in Nat
    BY <1>1 DEF RowGood, RowInv, Rows, Fills, Snapshots
  <1>3. ord \in Snapshots /\ ord.cum = row.filled + f.qty
        /\ ord.seq \in {f.seq, vo.seq}
    BY <1>2 DEF BookedOrder, Snapshots, OrderStates, Open, Terminal
  <1>4. /\ row.filled + f.qty = Total(v.fills, row.fills \cup {i})
        /\ row.fills \cup {i} \subseteq 1 .. Len(v.fills)
        /\ row.filled + f.qty <= v.cum
    <2>1. row.fills \subseteq 1 .. Len(v.fills) /\ row.filled = Total(v.fills, row.fills)
      BY <1>2 DEF RowInStep
    <2>2. Total(v.fills, row.fills \cup {i}) = Total(v.fills, row.fills) + f.qty
      BY <1>1, <2>1, Totals
    <2>3. Total(v.fills, row.fills \cup {i}) <= Total(v.fills, 1 .. Len(v.fills))
      <3>1. row.fills \cup {i} \subseteq 1 .. Len(v.fills)
        BY <2>1
      <3> QED
        BY <1>1, <3>1, Totals
    <2> QED
      BY <2>1, <2>2, <2>3 DEF VenueGood, VenueInStep
  <1>5. NotAhead(ord, v)
    BY <1>1, <1>2, <1>3, <1>4 DEF NotAhead
  <1>6. /\ b \in Rows /\ b.fills = row.fills \cup {i} /\ b.filled = row.filled + f.qty
        /\ b.proj = row.proj /\ b.sub = row.sub /\ SameBoxes(row, b)
    <2> DEFINE r == [row EXCEPT !.fills = row.fills \cup {i}, !.filled = row.filled + f.qty]
    <2>1. row.fills \cup {i} \in SUBSET Nat /\ row.filled + f.qty \in Nat
      BY <1>2, <1>1 DEF Rows
    <2>2. /\ r \in Rows /\ r.fills = row.fills \cup {i} /\ r.filled = row.filled + f.qty
          /\ r.proj = row.proj /\ r.sub = row.sub /\ SameBoxes(row, r)
      BY <1>2, <2>1 DEF Rows, SameBoxes
    <2> HIDE DEF r
    <2>3. CASE row.res # "open"
      <3>1. b = r
        BY <2>3 DEF Booked, r
      <3> QED
        BY <2>2, <3>1
    <2>4. CASE row.res = "open"
      <3> DEFINE res == IF row.resQty = f.qty THEN "consumed" ELSE "open"
                 left == row.resQty - f.qty
      <3>1. left \in Nat /\ res \in {"consumed", "open"}
        BY <1>2, <2>4 DEF PersistFillOK
      <3>2. b = [r EXCEPT !.resQty = left, !.res = res]
        BY <2>4 DEF Booked, r
      <3> HIDE DEF res, left, b
      <3> QED
        BY <2>2, <3>1, <3>2 DEF Rows, SameBoxes
    <2> QED
      BY <2>3, <2>4
  <1>7. RowInStep(b, v) /\ Started(b)
    BY <1>2, <1>4, <1>6 DEF RowInStep, Started, SameBoxes
  <1>8. PersistFill(row, i, f, vo) = s
    BY DEF PersistFill
  <1>9. /\ Carries(b, s, v) /\ s.fills = row.fills \cup {i}
    <2> HIDE DEF b, ord
    <2> QED
      BY <1>3, <1>5, <1>6, <1>7, ObserveCarries
  <1>10. Carries(row, s, v)
    <2> HIDE DEF b, s
    <2> QED
      BY <1>6, <1>9 DEF Carries, SameBoxes, Dispatched, CancelClaimed, ExpiryClaimed
  <1>11. RowInv(s)
    BY <1>1, <1>2, <1>8, PersistFillSound DEF Sound
  <1>12. RowGood(s, v)
    BY <1>9, <1>11 DEF RowGood, Carries
  <1> QED
    BY <1>8, <1>9, <1>10, <1>12

\* Booking every missing fill of the venue's first n.
LEMMA SyncFillsCarries ==
    ASSUME NEW v, VenueGood(v), NEW row, RowGood(row, v), NEW n \in 0 .. Len(v.fills),
           NEW vo \in Snapshots \cup {NoSnapshot}, NotAhead(vo, v),
           SyncFillsOK(row, v.fills, n, vo)
    PROVE  /\ RowGood(SyncFills(row, v.fills, n, vo), v)
           /\ Carries(row, SyncFills(row, v.fills, n, vo), v)
  <1> DEFINE b == BookedUpto(row, v.fills, n, vo)
             Has == {k \in Nat : /\ RowGood(b[k], v) /\ Carries(row, b[k], v)
                                 /\ b[k].fills \subseteq row.fills \cup (1 .. k)}
  <1>1. v.fills \in Seq(Fills) /\ Len(v.fills) \in Nat /\ n \in Nat /\ n <= Len(v.fills)
    BY DEF VenueGood, VenueFine, VenueOrders
  <1>2. CASE Nothing(vo)
    BY <1>2, StayCarries DEF SyncFills
  <1>3. CASE ~Nothing(vo)
    <2>1. vo \in Snapshots
      BY <1>3 DEF Nothing
    <2>2. SyncFills(row, v.fills, n, vo) = b[n] /\ BookedInTurn(row, v.fills, n, vo, b)
      BY <1>1, <1>3, SyncFillsSteps
    <2> HIDE DEF b
    <2>3. 0 \in Has
      BY <2>2, StayCarries DEF BookedInTurn
    <2>4. ASSUME NEW k \in 1 .. n, k - 1 \in Has PROVE k \in Has
      <3> DEFINE r == b[k - 1]
      <3>1. /\ RowGood(r, v) /\ Carries(row, r, v) /\ r.fills \subseteq row.fills \cup (1 .. (k - 1))
            /\ k \in Nat /\ k \in 1 .. Len(v.fills)
        BY <1>1, <2>4
      <3>2. 1 .. (k - 1) \subseteq 1 .. k /\ k \in 1 .. k /\ k \notin 1 .. (k - 1)
        BY <3>1
      <3>3. CASE k \notin Missing(row, n)
        BY <2>2, <3>1, <3>2, <3>3 DEF BookedInTurn
      <3>4. CASE k \in Missing(row, n)
        <4>1. b[k] = PersistFill(r, k, v.fills[k], vo) /\ PersistFillOK(r, k, v.fills[k], vo)
          BY <2>2, <3>4 DEF BookedInTurn
        <4>2. k \notin r.fills
          BY <3>1, <3>2, <3>4 DEF Missing
        <4> HIDE DEF r
        <4>3. RowGood(b[k], v) /\ Carries(r, b[k], v) /\ b[k].fills = r.fills \cup {k}
          BY <2>1, <3>1, <4>1, <4>2, PersistFillCarries
        <4>4. Carries(row, b[k], v)
          BY <3>1, <4>3, CarriesTrans
        <4>5. b[k].fills \subseteq row.fills \cup (1 .. k)
          BY <3>1, <3>2, <4>3
        <4> QED
          BY <3>1, <4>3, <4>4, <4>5
      <3> QED
        BY <3>3, <3>4
    <2> HIDE DEF Has
    <2>5. n \in Has
      BY <1>1, <2>3, <2>4, BookedInduct
    <2> QED
      BY <2>2, <2>5 DEF Has
  <1> QED
    BY <1>2, <1>3

-----------------------------------------------------------------------------
(* The transactions of the actions.                                        *)

Good(o) == RowGood(db[o], venue[o]) /\ VenueGood(venue[o])
Carried == \A o \in Orders : Carries(db[o], db'[o], venue[o])

\* Both invariants, of one order.
LEMMA OrderGood == ASSUME IInv, EInv, NEW o \in Orders PROVE Good(o)
  BY DEF IInv, EInv, DbInv, VenueInv, RowsInStep, Good, RowGood, VenueGood

\* What a worker in the middle of an order's call has at hand.
LEMMA InHand ==
    ASSUME IInv, EInv, NEW w \in Workers, pc[w] \in OrderSteps
    PROVE  /\ ctx[w].o \in Orders /\ Good(ctx[w].o)
           /\ NotAhead(ctx[w].seen, venue[ctx[w].o])
           /\ ctx[w].seen \in Snapshots \cup {NoSnapshot}
           /\ pc[w] \in SeenSteps => ctx[w].seen \in Snapshots
           /\ ctx[w].got[ctx[w].o] \in 0 .. Len(venue[ctx[w].o].fills)
  BY AtHand, OrderGood DEF EInv, SeenInStep

\* No transaction.
LEMMA QuietCarries == ASSUME IInv, EInv, UNCHANGED db PROVE Carried
  BY OrderGood, StayCarries DEF Carried, Good

\* A commit writes the row of one order.
LEMMA CommitCarries ==
    ASSUME IInv, EInv, NEW w, NEW o \in Orders, NEW r, NEW own,
           Carries(db[o], r, venue[o]), Commit(w, o, r, own)
    PROVE  Carried
  <1>1. \A p \in Orders : db'[p] = IF p = o THEN r ELSE db[p]
    BY DEF Commit, IInv, DbInv
  <1>2. \A p \in Orders : Carries(db[p], db[p], venue[p])
    BY OrderGood, StayCarries DEF Good
  <1> QED
    BY <1>1, <1>2 DEF Carried

\* Claiming, sending and deciding a dispatch.
LEMMA SubmitCarries ==
    ASSUME IInv, EInv, NEW w \in Workers
    PROVE  Claim(w) \/ Ack(w) \/ Note(w) \/ MarkUnknown(w) \/ MarkRejected(w) => Carried
  <1> DEFINE o == ctx[w].o
             row == db[ctx[w].o]
             seen == ctx[w].seen
  <1>1. ASSUME Claim(w) PROVE Carried
    <2>1. pc[w] \in OrderSteps
      BY <1>1 DEF Claim, OrderSteps, Steps
    <2>2. o \in Orders /\ (ClaimDispatchOK(row) => Carries(row, ClaimDispatch(row, w, 0), venue[o]))
      BY <2>1, InHand, BoxesCarry DEF Good
    <2> QED
      BY <1>1, <2>2, CommitCarries, QuietCarries DEF Claim, NoCommit
  <1>2. ASSUME Ack(w) \/ Note(w) PROVE Carried
    <2>1. pc[w] \in OrderSteps /\ pc[w] \in SeenSteps
      BY <1>2 DEF Ack, Note, OrderSteps, Steps, SeenSteps
    <2>2. /\ o \in Orders /\ seen \in Snapshots /\ RowGood(row, venue[o])
          /\ NotAhead(seen, venue[o])
      BY <2>1, InHand DEF Good
    <2>3. /\ Carries(row, Acknowledge(row, seen), venue[o])
          /\ Carries(row, Observe(row, seen), venue[o])
      BY <2>2, DispatchesCarry, OutcomesCarry
    <2> QED
      BY <1>2, <2>2, <2>3, CommitCarries, QuietCarries DEF Ack, Note, NoCommit
  <1>3. ASSUME MarkUnknown(w) \/ MarkRejected(w) PROVE Carried
    <2>1. pc[w] \in OrderSteps
      BY <1>3 DEF MarkUnknown, MarkRejected, OrderSteps, Steps
    <2>2. o \in Orders /\ RowGood(row, venue[o])
      BY <2>1, InHand DEF Good
    <2>3. NoSnapshot \in Snapshots \cup {NoSnapshot}
      OBVIOUS
    <2>4. Carries(row, DispatchUnknown(row), venue[o])
      BY <2>2, BoxesCarry
    <2>5. Carries(row, Reject(row), venue[o])
      <3>1. [st |-> "unknown", cum |-> 0, seq |-> 0] \in Snapshots
        BY DEF Snapshots, OrderStates, Open
      <3> QED
        BY <2>2, <3>1, DispatchesCarry
    <2> QED
      BY <1>3, <2>2, <2>4, <2>5, CommitCarries, QuietCarries DEF MarkUnknown, MarkRejected, NoCommit
  <1> QED
    BY <1>1, <1>2, <1>3

\* A synchronised order, and with the recovery bundle its observation.
LEMMA BundleCarries ==
    ASSUME NEW o \in Orders, Good(o), NEW n \in 0 .. Len(venue[o].fills),
           NEW ord \in Snapshots \cup {NoSnapshot}, NotAhead(ord, venue[o]), NEW w
    PROVE  /\ SyncOK(w, o, n, ord) => Carries(db[o], Synced(o, n, ord), venue[o])
           /\ BundleOK(w, o, n, ord) => Carries(db[o], Bundled(o, n, ord), venue[o])
  <1> DEFINE s == Synced(o, n, ord)
  <1>1. SyncOK(w, o, n, ord) => RowGood(s, venue[o]) /\ Carries(db[o], s, venue[o])
    BY SyncFillsCarries DEF SyncOK, Synced, Good
  <1>2. ASSUME BundleOK(w, o, n, ord) PROVE Carries(db[o], Bundled(o, n, ord), venue[o])
    <2>1. RowGood(s, venue[o]) /\ Carries(db[o], s, venue[o])
      BY <1>1, <1>2 DEF BundleOK
    <2>2. CASE Nothing(ord)
      BY <2>1, <2>2 DEF Bundled
    <2>3. CASE ~Nothing(ord)
      <3>1. ord \in Snapshots
        BY <2>3 DEF Nothing
      <3> HIDE DEF s
      <3>2. Carries(s, Observe(s, ord), venue[o])
        BY <2>1, <3>1, OutcomesCarry
      <3> QED
        BY <2>1, <2>3, <3>2, CarriesTrans DEF Bundled, s
    <2> QED
      BY <2>2, <2>3
  <1> QED
    BY <1>1, <1>2

\* Applying a query's evidence, and recovering the dispatch and the cancellation.
LEMMA QueryCarries ==
    ASSUME IInv, EInv, NEW w \in Workers
    PROVE  /\ Apply(w) \/ QueryDispatch(w) \/ RecoverDispatch(w) => Carried
           /\ QueryCancel(w) \/ RecoverCancel(w) => Carried
  <1> DEFINE o == ctx[w].o
             row == db[ctx[w].o]
             seen == ctx[w].seen
  <1>1. ASSUME Apply(w) PROVE Carried
    <2> DEFINE n == ctx[w].got[ctx[w].o]
    <2>1. pc[w] \in OrderSteps /\ pc[w] \in SeenSteps
      BY <1>1 DEF Apply, OrderSteps, Steps, SeenSteps
    <2>2. /\ o \in Orders /\ Good(o) /\ seen \in Snapshots /\ NotAhead(seen, venue[o])
          /\ n \in 0 .. Len(venue[o].fills)
      BY <2>1, InHand
    <2>3. /\ BundleOK(w, o, n, seen) => Carries(row, Bundled(o, n, seen), venue[o])
          /\ Carries(row, Observe(row, seen), venue[o])
      BY <2>2, BundleCarries, OutcomesCarry DEF Good
    <2> QED
      BY <1>1, <2>2, <2>3, CommitCarries, QuietCarries DEF Apply, NoCommit
  <1>2. ASSUME pc[w] \in OrderSteps
        PROVE  /\ o \in Orders
               /\ Carries(row, DispatchUnknown(row), venue[o])
               /\ ~Nothing(seen) => Carries(row, DispatchRecovered(row, seen), venue[o])
               /\ Carries(row, ClaimDispatchRecovery(row, w, ctx[w].age), venue[o])
               /\ Carries(row, ClaimCancelRecovery(row, w, ctx[w].age), venue[o])
               /\ row.can.st # "none" => Carries(row, CancelOutcome(row, seen), venue[o])
    <2>1. /\ o \in Orders /\ RowGood(row, venue[o]) /\ NotAhead(seen, venue[o])
          /\ seen \in Snapshots \cup {NoSnapshot}
      BY <1>2, InHand DEF Good
    <2>2. /\ Carries(row, DispatchUnknown(row), venue[o])
          /\ Carries(row, ClaimDispatchRecovery(row, w, ctx[w].age), venue[o])
          /\ Carries(row, ClaimCancelRecovery(row, w, ctx[w].age), venue[o])
      BY <2>1, BoxesCarry
    <2>3. ~Nothing(seen) => Carries(row, DispatchRecovered(row, seen), venue[o])
      BY <2>1, DispatchesCarry DEF Nothing
    <2>4. row.can.st # "none" => Carries(row, CancelOutcome(row, seen), venue[o])
      BY <2>1, OutcomesCarry
    <2> QED
      BY <2>1, <2>2, <2>3, <2>4
  <1>3. ASSUME QueryDispatch(w) PROVE Carried
    <2>1. pc[w] \in OrderSteps
      BY <1>3 DEF QueryDispatch, OrderSteps, Steps
    <2> QED
      BY <1>2, <1>3, <2>1, CommitCarries, QuietCarries DEF QueryDispatch, NoCommit
  <1>4. ASSUME RecoverDispatch(w) PROVE Carried
    <2>1. pc[w] \in OrderSteps
      BY <1>4 DEF RecoverDispatch, OrderSteps, Steps
    <2> QED
      BY <1>2, <1>4, <2>1, CommitCarries, QuietCarries DEF RecoverDispatch, NoCommit
  <1>5. ASSUME QueryCancel(w) PROVE Carried
    <2>1. pc[w] \in OrderSteps
      BY <1>5 DEF QueryCancel, OrderSteps, Steps
    <2>2. Active(row.can, w, ctx[w].age) => row.can.st # "none"
      BY DEF Active
    <2> QED
      BY <1>2, <1>5, <2>1, <2>2, CommitCarries, QuietCarries DEF QueryCancel, NoCommit
  <1>6. ASSUME RecoverCancel(w) PROVE Carried
    <2>1. pc[w] \in OrderSteps
      BY <1>6 DEF RecoverCancel, OrderSteps, Steps
    <2>2. HoldsRecovery(row.can, w, ctx[w].age) => row.can.st # "none"
      BY DEF HoldsRecovery, Ambiguous
    <2> QED
      BY <1>2, <1>6, <2>1, <2>2, CommitCarries, QuietCarries DEF RecoverCancel, NoCommit
  <1> QED
    BY <1>1, <1>3, <1>4, <1>5, <1>6

\* sync_fills books the fills of every order under the order of the moment.
LEMMA SyncCarries ==
    ASSUME IInv, EInv, NEW w \in Workers, SyncApply(w)
    PROVE  Carried
  <1> DEFINE got == ctx[w].got
             synced == [o \in Orders |-> Synced(o, got[o], Snapshot(venue[o]))]
  <1>1. CASE UNCHANGED <<db, openCount>>
    BY <1>1, QuietCarries
  <1>2. CASE (\A o \in Orders : SyncOK(w, o, got[o], Snapshot(venue[o]))) /\ db' = synced
    <2>1. ASSUME NEW o \in Orders PROVE Carries(db[o], synced[o], venue[o])
      <3>1. Good(o) /\ venue[o] \in VenueOrders /\ Len(venue[o].fills) \in Nat
        BY OrderGood DEF Good, VenueGood, VenueFine, VenueOrders
      <3>2. got[o] \in 0 .. Len(venue[o].fills)
        BY <3>1 DEF IInv, CtxInv, CtxFine, Contexts
      <3>3. Snapshot(venue[o]) \in Snapshots \cup {NoSnapshot} /\ NotAhead(Snapshot(venue[o]), venue[o])
        BY <3>1 DEF VenueOrders, VenueStates, Known, Snapshot, Snapshots, NotAhead, NoSnapshot
      <3> QED
        BY <1>2, <3>1, <3>2, <3>3, BundleCarries
    <2> HIDE DEF synced
    <2> QED
      BY <1>2, <2>1 DEF Carried
  <1> QED
    BY <1>1, <1>2 DEF SyncApply

\* Requesting, claiming and completing a cancellation.
LEMMA CancelCarries ==
    ASSUME IInv, EInv, NEW w \in Workers
    PROVE  /\ (\E o \in Orders : StartCancel(w, o)) => Carried
           /\ CClaim(w) \/ CObs(w) \/ CDone(w) \/ CAmb(w) => Carried
  <1> DEFINE o == ctx[w].o
             row == db[ctx[w].o]
             seen == ctx[w].seen
  <1>1. ASSUME NEW p \in Orders, StartCancel(w, p) PROVE Carried
    <2>1. Carries(db[p], PrepareCancel(db[p]), venue[p])
      BY OrderGood, BoxesCarry DEF Good
    <2> QED
      BY <1>1, <2>1, CommitCarries DEF StartCancel
  <1>2. ASSUME pc[w] \in OrderSteps
        PROVE  /\ o \in Orders /\ Carries(row, row, venue[o])
               /\ Carries(row, CancelUnknown(row), venue[o])
               /\ ClaimCancelOK(row) => Carries(row, ClaimCancel(row, w, ctx[w].age), venue[o])
               /\ pc[w] \in SeenSteps => Carries(row, Observe(row, seen), venue[o])
               /\ row.can.st # "none" => Carries(row, CancelOutcome(row, seen), venue[o])
    <2>1. /\ o \in Orders /\ RowGood(row, venue[o]) /\ NotAhead(seen, venue[o])
          /\ seen \in Snapshots \cup {NoSnapshot} /\ (pc[w] \in SeenSteps => seen \in Snapshots)
      BY <1>2, InHand DEF Good
    <2>2. /\ Carries(row, row, venue[o]) /\ Carries(row, CancelUnknown(row), venue[o])
          /\ ClaimCancelOK(row) => Carries(row, ClaimCancel(row, w, ctx[w].age), venue[o])
      BY <2>1, BoxesCarry, StayCarries
    <2>3. /\ pc[w] \in SeenSteps => Carries(row, Observe(row, seen), venue[o])
          /\ row.can.st # "none" => Carries(row, CancelOutcome(row, seen), venue[o])
      BY <2>1, OutcomesCarry
    <2> QED
      BY <2>1, <2>2, <2>3
  <1>3. ASSUME CClaim(w) PROVE Carried
    <2>1. pc[w] \in OrderSteps
      BY <1>3 DEF CClaim, OrderSteps, Steps
    <2> QED
      BY <1>2, <1>3, <2>1, CommitCarries, QuietCarries DEF CClaim, NoCommit
  <1>4. ASSUME CObs(w) PROVE Carried
    <2>1. pc[w] \in OrderSteps /\ pc[w] \in SeenSteps
      BY <1>4 DEF CObs, OrderSteps, Steps, SeenSteps
    <2> QED
      BY <1>2, <1>4, <2>1, CommitCarries, QuietCarries DEF CObs, NoCommit
  <1>5. ASSUME CDone(w) PROVE Carried
    <2> DEFINE again == /\ db[o].can.st = "confirmed" /\ db[o].can.owner = w
                        /\ seen.st = "cancelled"
               next == IF again THEN db[o] ELSE CancelOutcome(db[o], seen)
    <2>1. pc[w] \in OrderSteps
      BY <1>5 DEF CDone, OrderSteps, Steps
    <2>2. CASE Commit(w, o, next, FALSE) /\ (again \/ Holds(row.can, w, 0))
      <3>1. Holds(row.can, w, 0) => row.can.st # "none"
        BY DEF Holds, Ambiguous
      <3>2. Carries(row, next, venue[o])
        BY <1>2, <2>1, <2>2, <3>1
      <3> HIDE DEF next
      <3> QED
        BY <1>2, <2>1, <2>2, <3>2, CommitCarries
    <2>3. CASE NoCommit
      BY <2>3, QuietCarries DEF NoCommit
    <2> QED
      BY <1>5, <2>2, <2>3 DEF CDone
  <1>6. ASSUME CAmb(w) PROVE Carried
    <2>1. pc[w] \in OrderSteps
      BY <1>6 DEF CAmb, OrderSteps, Steps
    <2> QED
      BY <1>2, <1>6, <2>1, CommitCarries, QuietCarries DEF CAmb, NoCommit
  <1> QED
    BY <1>1, <1>3, <1>4, <1>5, <1>6

\* Requesting, claiming, completing and recovering an expiry.
LEMMA ExpiryCarries ==
    ASSUME IInv, EInv, NEW w \in Workers
    PROVE  /\ (\E o \in Orders : StartExpire(w, o)) => Carried
           /\ XClaim(w) \/ XDone(w) \/ XAmb(w) => Carried
           /\ XRec(w) \/ XApply(w) \/ XRecDone(w) => Carried
  <1> DEFINE o == ctx[w].o
             row == db[ctx[w].o]
             seen == ctx[w].seen
  <1>1. ASSUME NEW p \in Orders, StartExpire(w, p) PROVE Carried
    <2>1. Carries(db[p], PrepareExpiry(db[p]), venue[p])
      BY <1>1, OrderGood, BoxesCarry DEF Good, StartExpire
    <2> QED
      BY <1>1, <2>1, CommitCarries DEF StartExpire
  <1>2. ASSUME pc[w] \in OrderSteps
        PROVE  /\ o \in Orders
               /\ ClaimExpiryOK(row) => Carries(row, ClaimExpiry(row, w, ctx[w].age), venue[o])
               /\ Carries(row, ClaimExpiryRecovery(row, w, ctx[w].age), venue[o])
               /\ row.exp.st # "none" => Carries(row, ExpiryUnknown(row), venue[o])
               /\ row.exp.st # "none" => Carries(row, ExpiryOutcome(row, seen), venue[o])
    <2>1. /\ o \in Orders /\ RowGood(row, venue[o]) /\ NotAhead(seen, venue[o])
          /\ seen \in Snapshots \cup {NoSnapshot}
      BY <1>2, InHand DEF Good
    <2>2. /\ ClaimExpiryOK(row) => Carries(row, ClaimExpiry(row, w, ctx[w].age), venue[o])
          /\ Carries(row, ClaimExpiryRecovery(row, w, ctx[w].age), venue[o])
          /\ row.exp.st # "none" => Carries(row, ExpiryUnknown(row), venue[o])
      BY <2>1, BoxesCarry
    <2>3. row.exp.st # "none" => Carries(row, ExpiryOutcome(row, seen), venue[o])
      BY <2>1, OutcomesCarry
    <2> QED
      BY <2>1, <2>2, <2>3
  <1>3. ASSUME XClaim(w) PROVE Carried
    <2>1. pc[w] \in OrderSteps
      BY <1>3 DEF XClaim, OrderSteps, Steps
    <2> QED
      BY <1>2, <1>3, <2>1, CommitCarries, QuietCarries DEF XClaim, NoCommit
  <1>4. ASSUME XDone(w) PROVE Carried
    <2>1. pc[w] \in OrderSteps
      BY <1>4 DEF XDone, OrderSteps, Steps
    <2>2. \/ NoCommit
          \/ row.exp.st # "none" /\ Commit(w, o, ExpiryOutcome(row, seen), FALSE)
      BY <1>4 DEF XDone
    <2> QED
      BY <1>2, <2>1, <2>2, CommitCarries, QuietCarries DEF NoCommit
  <1>5. ASSUME XAmb(w) PROVE Carried
    <2>1. pc[w] \in OrderSteps
      BY <1>5 DEF XAmb, OrderSteps, Steps
    <2>2. Holds(row.exp, w, ctx[w].age) => row.exp.st # "none"
      BY DEF Holds, Ambiguous
    <2> QED
      BY <1>2, <1>5, <2>1, <2>2, CommitCarries, QuietCarries DEF XAmb, NoCommit
  <1>6. ASSUME XRec(w) PROVE Carried
    <2>1. pc[w] \in OrderSteps
      BY <1>6 DEF XRec, OrderSteps, Steps
    <2> QED
      BY <1>2, <1>6, <2>1, CommitCarries, QuietCarries DEF XRec, NoCommit
  <1>7. ASSUME XApply(w) PROVE Carried
    <2> DEFINE n == ctx[w].got[ctx[w].o]
    <2>1. pc[w] \in OrderSteps
      BY <1>7 DEF XApply, OrderSteps, Steps
    <2>2. o \in Orders /\ (BundleOK(w, o, n, seen) => Carries(row, Bundled(o, n, seen), venue[o]))
      BY <2>1, InHand, BundleCarries
    <2> QED
      BY <1>7, <2>2, CommitCarries, QuietCarries DEF XApply, NoCommit
  <1>8. ASSUME XRecDone(w) PROVE Carried
    <2>1. pc[w] \in OrderSteps
      BY <1>8 DEF XRecDone, OrderSteps, Steps
    <2>2. \/ NoCommit
          \/ row.exp.st # "none" /\ Commit(w, o, ExpiryOutcome(row, seen), FALSE)
      BY <1>8 DEF XRecDone, Ambiguous
    <2> QED
      BY <1>2, <2>1, <2>2, CommitCarries, QuietCarries DEF NoCommit
  <1> QED
    BY <1>1, <1>3, <1>4, <1>5, <1>6, <1>7, <1>8

\* A new submission starts with an empty ledger and nothing claimed.
LEMMA PrepareCarries ==
    ASSUME IInv, EInv, NEW w \in Workers, NEW o \in Orders, PrepareNew(w, o)
    PROVE  Carried
  <1>1. Good(o) /\ db[o].sub = "none"
    BY OrderGood DEF PrepareNew
  <1>2. ~Dispatched(db[o]) /\ ~CancelClaimed(db[o]) /\ ~ExpiryClaimed(db[o])
    BY <1>1 DEF Good, RowGood, Started, Dispatched, CancelClaimed, ExpiryClaimed
  <1>3. venue[o].seq \in Nat /\ venue[o].cum \in Nat
    BY <1>1 DEF Good, VenueGood, VenueFine, VenueOrders
  <1>4. Total(venue[o].fills, {}) = 0
    BY <1>1, SumBounds DEF Good, VenueGood, VenueFine, VenueOrders
  <1>5. ASSUME NEW r, r.fills = {}, r.filled = 0, r.proj = NoProjection, r.sub # "none"
        PROVE  Carries(db[o], r, venue[o])
    BY <1>2, <1>3, <1>4, <1>5 DEF Carries, RowInStep, Started, NoProjection
  <1>6. /\ Blocked.fills = {} /\ Blocked.filled = 0 /\ Blocked.proj = NoProjection
        /\ Blocked.sub # "none"
        /\ Enqueued.fills = {} /\ Enqueued.filled = 0 /\ Enqueued.proj = NoProjection
        /\ Enqueued.sub # "none"
    BY DEF Blocked, Enqueued, NoRow
  <1>7. \A r : Carries(db[o], r, venue[o]) /\ db' = [db EXCEPT ![o] = r] => Carried
    <2> SUFFICES ASSUME NEW r, Carries(db[o], r, venue[o]), db' = [db EXCEPT ![o] = r]
                 PROVE  Carried
      OBVIOUS
    <2>1. \A p \in Orders : db'[p] = IF p = o THEN r ELSE db[p]
      BY DEF IInv, DbInv
    <2>2. \A p \in Orders : Carries(db[p], db[p], venue[p])
      BY OrderGood, StayCarries DEF Good
    <2> QED
      BY <2>1, <2>2 DEF Carried
  <1> QED
    BY <1>5, <1>6, <1>7 DEF PrepareNew

\* Every step carries every order's rows.
LEMMA NextCarries ==
    ASSUME IInv, EInv, [Next]_vars
    PROVE  Carried
  <1>0. UNCHANGED db => Carried
    BY QuietCarries
  <1>1. ASSUME NEW w \in Workers, WorkerCalls(w) PROVE Carried
    <2>1. Send(w) \/ Query(w) \/ QueryNone(w) \/ Fetch(w) \/ HydrateStep(w) \/ SyncFetch(w) => Carried
      BY <1>0 DEF Send, Query, QueryNone, Fetch, HydrateStep, SyncFetch, NoCommit
    <2>2. CSend(w) \/ XSend(w) \/ XQuery(w) \/ XFetch(w) => Carried
      BY <1>0 DEF CSend, XSend, XQuery, XFetch, NoCommit
    <2> QED
      BY <1>1, <2>1, <2>2, SubmitCarries, QueryCarries, SyncCarries, CancelCarries,
         ExpiryCarries DEF WorkerCalls
  <1>2. ASSUME NEW w \in Workers, WorkerStarts(w) \/ Crash(w) PROVE Carried
    <2>1. StartSync(w) \/ Crash(w) => Carried
      BY <1>0 DEF StartSync, Crash, NoCommit
    <2>2. \A o \in Orders : PrepareReplay(w, o) \/ StartQuery(w, o) \/ StartRecover(w, o) => Carried
      BY <1>0 DEF PrepareReplay, StartQuery, StartRecover, NoCommit
    <2> QED
      BY <1>2, <2>1, <2>2, PrepareCarries, CancelCarries, ExpiryCarries DEF WorkerStarts
  <1>3. ASSUME NEW o \in Orders, VenueActs(o) PROVE Carried
    BY <1>0, <1>3 DEF VenueActs, Arrive, VenueAcknowledge, VenueReject, VenueFill, ShowFill,
                      CompleteCancel, ExpireIoc, VenueMoves, NoCommit
  <1>4. CASE Tick
    <2>1. \A o \in Orders : Carries(db[o], RowTick(db[o]), venue[o])
      BY OrderGood, BoxesCarry DEF Good
    <2>2. \A o \in Orders : db'[o] = RowTick(db[o])
      BY <1>4 DEF Tick
    <2> QED
      BY <2>1, <2>2 DEF Carried
  <1>5. CASE TriggerKill \/ UNCHANGED vars
    BY <1>0, <1>5 DEF TriggerKill, NoCommit, vars
  <1> QED
    BY <1>1, <1>2, <1>3, <1>4, <1>5 DEF Next

-----------------------------------------------------------------------------
(* The venue.                                                              *)

\* The venue's record moves on: the sums over its fills so far stay.
Onward(v, u) == /\ VenueInStep(u) /\ v.seq <= u.seq /\ v.cum <= u.cum
                /\ \A s \in SUBSET (1 .. Len(v.fills)) :
                      s \subseteq 1 .. Len(u.fills) /\ Total(u.fills, s) = Total(v.fills, s)
VenueOnward == \A o \in Orders : Onward(venue[o], venue'[o])

\* What was true of an answer or of a ledger stays true.
LEMMA LaterInStep ==
    ASSUME NEW v, NEW u, VenueGood(v), VenueFine(u), Onward(v, u)
    PROVE  /\ \A ord : ord.seq \in Nat /\ ord.cum \in Nat /\ NotAhead(ord, v) => NotAhead(ord, u)
           /\ \A row : row.proj.seq \in Nat /\ row.proj.cum \in Nat /\ RowInStep(row, v)
                       => RowInStep(row, u)
  <1>1. v.seq \in Nat /\ v.cum \in Nat /\ u.seq \in Nat /\ u.cum \in Nat
        /\ v.seq <= u.seq /\ v.cum <= u.cum
    BY DEF VenueGood, VenueFine, VenueOrders, Onward
  <1>2. \A ord : ord.seq \in Nat /\ ord.cum \in Nat /\ NotAhead(ord, v) => NotAhead(ord, u)
    BY <1>1 DEF NotAhead
  <1>3. ASSUME NEW row, row.proj.seq \in Nat, row.proj.cum \in Nat, RowInStep(row, v)
        PROVE  RowInStep(row, u)
    <2>1. row.fills \in SUBSET (1 .. Len(v.fills)) /\ row.filled = Total(v.fills, row.fills)
          /\ row.proj.seq <= v.seq /\ row.proj.cum <= v.cum
      BY <1>3 DEF RowInStep
    <2>2. row.fills \subseteq 1 .. Len(u.fills) /\ Total(u.fills, row.fills) = Total(v.fills, row.fills)
      BY <2>1 DEF Onward
    <2> QED
      BY <1>1, <1>3, <2>1, <2>2 DEF RowInStep
  <1> QED
    BY <1>2, <1>3

\* Every operation but a fill leaves the fills alone.
LEMMA OperationsOnward ==
    ASSUME NEW v, VenueGood(v)
    PROVE  /\ Onward(v, v)
           /\ \A st \in OrderStates : Onward(v, Event(v, st))
           /\ Onward(v, [v EXCEPT !.st = "in_flight"])
           /\ Onward(v, CancelRequested(v))
           /\ Onward(v, Shown(v))
  <1>1. /\ v \in VenueOrders /\ v.seq \in Nat /\ v.cum \in Nat /\ v.fills \in Seq(Fills)
        /\ VenueInStep(v)
    BY DEF VenueGood, VenueFine, VenueOrders
  <1>2. \A i \in 1 .. Len(v.fills) : v.fills[i].seq \in Nat
    <2>1. \A i \in 1 .. Len(v.fills) : v.fills[i] \in Fills
      BY <1>1
    <2> QED
      BY <2>1 DEF Fills
  <1>3. ASSUME NEW u, u.fills = v.fills, u.cum = v.cum, u.seq \in {v.seq, v.seq + 1}
        PROVE  Onward(v, u)
    <2>1. v.seq <= u.seq /\ \A i \in 1 .. Len(v.fills) : v.fills[i].seq <= u.seq
      BY <1>1, <1>2, <1>3 DEF VenueInStep
    <2>2. VenueInStep(u)
      BY <1>1, <1>3, <2>1 DEF VenueInStep
    <2> QED
      BY <1>1, <1>3, <2>1, <2>2 DEF Onward
  <1>4. \A st : LET u == Event(v, st) IN
                    u.fills = v.fills /\ u.cum = v.cum /\ u.seq \in {v.seq, v.seq + 1}
    BY <1>1 DEF Event, VenueOrders
  <1>5. LET u == [v EXCEPT !.st = "in_flight"] IN
            u.fills = v.fills /\ u.cum = v.cum /\ u.seq \in {v.seq, v.seq + 1}
    BY <1>1 DEF VenueOrders
  <1>6. LET u == Shown(v) IN
            u.fills = v.fills /\ u.cum = v.cum /\ u.seq \in {v.seq, v.seq + 1}
    BY <1>1 DEF Shown, VenueOrders
  <1>7. Onward(v, v) /\ \A st : Onward(v, Event(v, st))
    BY <1>3, <1>4
  <1>8. Onward(v, CancelRequested(v))
    BY <1>7 DEF CancelRequested
  <1> QED
    BY <1>3, <1>5, <1>6, <1>7, <1>8

\* A fill adds its quantity at the end.
LEMMA FillOnward ==
    ASSUME NEW v, VenueGood(v), NEW q, CanFill(v, q)
    PROVE  Onward(v, Filled(v, q)) /\ Onward(v, Shown(Filled(v, q)))
  <1> DEFINE f == [qty |-> q, upto |-> v.cum + q, seq |-> v.seq + 1]
             u == Filled(v, q)
             n == Len(v.fills)
  <1>1. /\ v \in VenueOrders /\ v.seq \in Nat /\ v.cum \in Nat /\ v.fills \in Seq(Fills)
        /\ VenueInStep(v) /\ n \in Nat /\ VenueFine(v)
    BY DEF VenueGood, VenueFine, VenueOrders
  <1>2. VenueFine(u) /\ VenueFine(Shown(u))
    BY <1>1, VenueFills DEF VenueMoved
  <1>3. q \in Nat \ {0} /\ f \in Fills
    BY <1>1, QtyAssumption DEF CanFill, Fills
  <1>4. /\ u.fills = Append(v.fills, f) /\ u.cum = v.cum + q /\ u.seq = v.seq + 1
    BY <1>1 DEF Filled, Event, VenueOrders
  <1>5. /\ u.fills \in Seq(Fills) /\ Len(u.fills) = n + 1
        /\ u.fills[n + 1] = f /\ \A i \in 1 .. n : u.fills[i] = v.fills[i]
    BY <1>1, <1>2, <1>3, <1>4 DEF VenueFine
  <1>6. \A s \in SUBSET (1 .. n) : Total(u.fills, s) = Total(v.fills, s)
    <2> HIDE DEF u
    <2> QED
      BY <1>1, <1>5, TotalsStay
  <1>7. Total(u.fills, 1 .. (n + 1)) = v.cum + q
    <2>1. (1 .. n) \cup {n + 1} = 1 .. (n + 1) /\ 1 .. n \subseteq 1 .. (n + 1)
          /\ n + 1 \notin 1 .. n /\ n + 1 \in 1 .. (n + 1)
      BY <1>1
    <2>2. Total(u.fills, (1 .. n) \cup {n + 1}) = Total(u.fills, 1 .. n) + u.fills[n + 1].qty
      <3>1. 1 .. n \subseteq 1 .. Len(u.fills) /\ n + 1 \in 1 .. Len(u.fills)
        BY <1>5, <2>1
      <3> HIDE DEF u, n
      <3> QED
        BY <1>5, <2>1, <3>1, Totals
    <2>3. Total(u.fills, 1 .. n) = v.cum
      BY <1>1, <1>6 DEF VenueInStep
    <2>4. f.qty = q
      OBVIOUS
    <2> HIDE DEF u, n, f
    <2> QED
      BY <1>5, <2>1, <2>2, <2>3, <2>4
  <1>8. \A i \in 1 .. (n + 1) : u.fills[i].seq <= u.seq
    <2>1. ASSUME NEW i \in 1 .. n PROVE u.fills[i].seq <= u.seq
      <3>1. v.fills[i] \in Fills
        BY <1>1
      <3>2. v.fills[i].seq \in Nat /\ v.fills[i].seq <= v.seq
        BY <1>1, <3>1 DEF VenueInStep, Fills
      <3> QED
        BY <1>1, <1>4, <1>5, <3>2
    <2>2. u.fills[n + 1].seq <= u.seq
      BY <1>1, <1>4, <1>5
    <2>3. \A i \in 1 .. (n + 1) : i \in 1 .. n \/ i = n + 1
      BY <1>1
    <2> QED
      BY <2>1, <2>2, <2>3
  <1>9. v.seq <= u.seq /\ v.cum <= u.cum
    BY <1>1, <1>3, <1>4
  <1>10. VenueInStep(u)
    BY <1>4, <1>5, <1>7, <1>8 DEF VenueInStep
  <1>11. \A s \in SUBSET (1 .. n) : s \subseteq 1 .. Len(u.fills)
    BY <1>1, <1>5
  <1>12. Onward(v, u)
    BY <1>6, <1>9, <1>10, <1>11 DEF Onward
  <1>13. Onward(u, Shown(u))
    BY <1>2, <1>10, OperationsOnward DEF VenueGood
  <1>14. Shown(u).fills = u.fills /\ Shown(u).cum = u.cum /\ Shown(u).seq = u.seq
    BY <1>2 DEF Shown, VenueFine, VenueOrders
  <1>15. Onward(v, Shown(u))
    <2> HIDE DEF u
    <2> QED
      BY <1>12, <1>13, <1>14 DEF Onward
  <1> QED
    BY <1>12, <1>15

\* One order's record moves, or none.
LEMMA OnwardMove ==
    ASSUME IInv, EInv, NEW o \in Orders, NEW u, Onward(venue[o], u),
           venue' = [venue EXCEPT ![o] = u]
    PROVE  VenueOnward
  <1>1. \A p \in Orders : venue'[p] = IF p = o THEN u ELSE venue[p]
    BY DEF IInv, VenueInv
  <1>2. \A p \in Orders : Onward(venue[p], venue[p])
    BY OrderGood, OperationsOnward DEF Good
  <1> QED
    BY <1>1, <1>2 DEF VenueOnward

\* A step that leaves the venue alone.
LEMMA OnwardQuiet == ASSUME IInv, EInv, UNCHANGED venue PROVE VenueOnward
  BY OrderGood, OperationsOnward DEF Good, VenueOnward

\* Every step moves the venue's records on.
LEMMA NextOnward ==
    ASSUME IInv, EInv, [Next]_vars
    PROVE  VenueOnward
  <1>0. UNCHANGED venue => VenueOnward
    BY OnwardQuiet
  <1>1. ASSUME NEW o \in Orders
        PROVE  /\ \A st \in OrderStates : Onward(venue[o], Event(venue[o], st))
               /\ Onward(venue[o], [venue[o] EXCEPT !.st = "in_flight"])
               /\ Onward(venue[o], CancelRequested(venue[o]))
               /\ Onward(venue[o], Shown(venue[o]))
               /\ [venue EXCEPT ![o].st = "in_flight"]
                      = [venue EXCEPT ![o] = [venue[o] EXCEPT !.st = "in_flight"]]
    BY OrderGood, OperationsOnward DEF Good
  <1>2. {"pending_ack", "unknown", "acknowledged", "rejected", "cancelled", "expired"}
            \subseteq OrderStates
    BY DEF OrderStates, Terminal, Open
  <1>3. ASSUME NEW w \in Workers, Send(w) PROVE VenueOnward
    <2>1. ctx[w].o \in Orders
      BY <1>3, AtHand DEF Send, OrderSteps, Steps
    <2> QED
      BY <1>0, <1>1, <1>2, <1>3, <2>1, OnwardMove DEF Send, Submitted
  <1>4. ASSUME NEW w \in Workers, CSend(w) PROVE VenueOnward
    <2>1. ctx[w].o \in Orders
      BY <1>4, AtHand DEF CSend, OrderSteps, Steps
    <2> QED
      BY <1>0, <1>1, <1>4, <2>1, OnwardMove DEF CSend
  <1>5. ASSUME NEW w \in Workers, XSend(w) PROVE VenueOnward
    <2>1. ctx[w].o \in Orders
      BY <1>5, AtHand DEF XSend, OrderSteps, Steps
    <2> QED
      BY <1>0, <1>1, <1>2, <1>5, <2>1, OnwardMove DEF XSend, Expired
  <1>6. ASSUME NEW w \in Workers, WorkerCalls(w), ~Send(w), ~CSend(w), ~XSend(w)
        PROVE  VenueOnward
    <2>1. VenueQuiet
      BY <1>6 DEF WorkerCalls, Claim, Ack, Note, MarkUnknown, MarkRejected, Query, QueryNone,
                  Fetch, Apply, QueryDispatch, RecoverDispatch, QueryCancel, RecoverCancel,
                  HydrateStep, SyncFetch, SyncApply, CClaim, CObs, CDone, CAmb, XClaim, XDone,
                  XAmb, XRec, XQuery, XFetch, XApply, XRecDone
    <2> QED
      BY <1>0, <2>1 DEF VenueQuiet
  <1>7. ASSUME NEW w \in Workers, WorkerStarts(w) \/ Crash(w) PROVE VenueOnward
    BY <1>0, <1>7 DEF WorkerStarts, StartSync, PrepareNew, PrepareReplay, StartQuery,
                      StartCancel, StartExpire, StartRecover, Crash, VenueQuiet
  <1>8. ASSUME NEW o \in Orders, VenueActs(o) PROVE VenueOnward
    <2>1. CASE VenueFill(o)
      <3>1. PICK q \in 1 .. Qty : /\ CanFill(venue[o], q)
                                  /\ VenueMoves(o, IF LagFills THEN Filled(venue[o], q)
                                                   ELSE Shown(Filled(venue[o], q)))
        BY <2>1 DEF VenueFill
      <3>2. Onward(venue[o], Filled(venue[o], q)) /\ Onward(venue[o], Shown(Filled(venue[o], q)))
        BY <3>1, OrderGood, FillOnward DEF Good
      <3> QED
        BY <3>1, <3>2, OnwardMove DEF VenueMoves
    <2>2. CASE ShowFill(o)
      BY <1>1, <2>2, OnwardMove DEF ShowFill, VenueMoves
    <2>3. CASE Arrive(o) \/ VenueAcknowledge(o) \/ VenueReject(o) \/ CompleteCancel(o) \/ ExpireIoc(o)
      BY <1>1, <1>2, <2>3, OnwardMove
         DEF Arrive, VenueAcknowledge, VenueReject, CompleteCancel, ExpireIoc, VenueMoves,
             Submitted, Acknowledged, Rejected, Cancelled, Expired
    <2> QED
      BY <1>8, <2>1, <2>2, <2>3 DEF VenueActs
  <1>9. CASE Tick \/ TriggerKill \/ UNCHANGED vars
    BY <1>0, <1>9 DEF Tick, TriggerKill, VenueQuiet, vars
  <1> QED
    BY <1>3, <1>4, <1>5, <1>6, <1>7, <1>8, <1>9 DEF Next

-----------------------------------------------------------------------------
(* The workers' answers and calls.                                         *)

Sending == {"send", "csend", "xsend"}
Effects == SeenInStep /\ CallsClaimed
\* What every step gives: the rows and the venue's records move on.
Stepping == IInv' /\ Carried /\ VenueOnward

\* An answer fits the venue's record of its order now.
Fits(c) == c.o \in Orders => NotAhead(c.seen, venue[c.o])

\* The answers workers hold stay in step.
LEMMA SeenLater ==
    ASSUME IInv, EInv, Stepping
    PROVE  \A w \in Workers : ctx[w].o \in Orders => NotAhead(ctx[w].seen, venue'[ctx[w].o])
  <1> SUFFICES ASSUME NEW w \in Workers, ctx[w].o \in Orders
               PROVE  NotAhead(ctx[w].seen, venue'[ctx[w].o])
    OBVIOUS
  <1>1. NotAhead(ctx[w].seen, venue[ctx[w].o])
    BY DEF EInv, SeenInStep
  <1>2. ctx[w].seen.seq \in Nat /\ ctx[w].seen.cum \in Nat
    BY DEF IInv, CtxInv, CtxFine, Contexts, Snapshots, NoSnapshot
  <1>3. Onward(venue[ctx[w].o], venue'[ctx[w].o]) /\ VenueGood(venue[ctx[w].o])
    BY OrderGood DEF Stepping, VenueOnward, Good
  <1>4. VenueFine(venue'[ctx[w].o])
    BY DEF Stepping, IInv, VenueInv
  <1> QED
    BY <1>1, <1>2, <1>3, <1>4, LaterInStep

\* Nobody moves, nothing is asked of the venue.
LEMMA EffectsStay ==
    ASSUME IInv, EInv, Stepping, UNCHANGED <<pc, ctx, calls>>
    PROVE  Effects'
  <1>1. SeenInStep'
    BY SeenLater DEF SeenInStep
  <1>2. CallsClaimed'
    <2>1. /\ \A o \in Orders : /\ Dispatched(db[o]) => Dispatched(db'[o])
                               /\ CancelClaimed(db[o]) => CancelClaimed(db'[o])
                               /\ ExpiryClaimed(db[o]) => ExpiryClaimed(db'[o])
          /\ \A w \in Workers : pc[w] \in Sending => ctx[w].o \in Orders
      BY DEF Stepping, Carried, Carries, IInv, CtxInv, CtxFine, Sending, OrderSteps, Steps
    <2> QED
      BY <2>1 DEF EInv, CallsClaimed, Sending
  <1> QED
    BY <1>1, <1>2 DEF Effects

\* What a worker asks of the venue: nothing, or the call it was about to make.
Asks(w) == LET o == ctx[w].o IN
    \/ UNCHANGED calls
    \/ pc[w] = "send" /\ calls' = [calls EXCEPT ![o].submit = @ + 1]
    \/ pc[w] = "csend" /\ calls' = [calls EXCEPT ![o].cancel = @ + 1]
    \/ pc[w] = "xsend" /\ calls' = [calls EXCEPT ![o].expire = @ + 1]

\* What the counters of the calls become when a worker asks the venue.
LEMMA AskedCalls ==
    ASSUME IInv, EInv, NEW w \in Workers, Asks(w)
    PROVE  \A o \in Orders :
              /\ calls[o].cancel \in Nat /\ calls[o].expire \in Nat
              /\ calls'[o].submit > 0 => calls[o].submit > 0 \/ (pc[w] = "send" /\ ctx[w].o = o)
              /\ \/ calls'[o].cancel = calls[o].cancel
                 \/ pc[w] = "csend" /\ ctx[w].o = o /\ calls'[o].cancel = calls[o].cancel + 1
              /\ \/ calls'[o].expire = calls[o].expire
                 \/ pc[w] = "xsend" /\ ctx[w].o = o /\ calls'[o].expire = calls[o].expire + 1
  BY DEF Asks, IInv, RestInv, Calls

\* A worker moves to a step that does not call the venue.
LEMMA EffectsMove ==
    ASSUME IInv, EInv, Stepping, NEW w \in Workers, Asks(w), NEW step, NEW c,
           step \notin Sending, c.o \in Orders => NotAhead(c.seen, venue'[c.o]), Goto(w, step, c)
    PROVE  Effects'
  <1>1. /\ \A x \in Workers : pc'[x] = IF x = w THEN step ELSE pc[x]
        /\ \A x \in Workers : ctx'[x] = IF x = w THEN c ELSE ctx[x]
    BY DEF Goto, IInv, CtxInv
  <1>2. SeenInStep'
    BY <1>1, SeenLater DEF SeenInStep
  <1>3. CallsClaimed'
    <2>1. /\ \A o \in Orders : /\ Dispatched(db[o]) => Dispatched(db'[o])
                               /\ CancelClaimed(db[o]) => CancelClaimed(db'[o])
                               /\ ExpiryClaimed(db[o]) => ExpiryClaimed(db'[o])
          /\ \A x \in Workers : pc[x] \in Sending => ctx[x].o \in Orders
      BY DEF Stepping, Carried, Carries, IInv, CtxInv, CtxFine, Sending, OrderSteps, Steps
    <2>2. \A x \in Workers : pc'[x] \in Sending => x # w /\ pc'[x] = pc[x] /\ ctx'[x] = ctx[x]
      BY <1>1
    <2>3. \A o \in Orders :
             /\ calls'[o].submit > 0 => Dispatched(db'[o])
             /\ calls'[o].cancel > 0 => CancelClaimed(db'[o])
             /\ calls'[o].expire > 0 => ExpiryClaimed(db'[o])
             /\ calls'[o].cancel <= 1 /\ calls'[o].expire <= 1
      BY <2>1, AskedCalls DEF EInv, CallsClaimed
    <2>4. \A x \in Workers :
             /\ pc'[x] = "send" => Dispatched(db'[ctx'[x].o])
             /\ pc'[x] = "csend" => CancelClaimed(db'[ctx'[x].o]) /\ calls'[ctx'[x].o].cancel = 0
             /\ pc'[x] = "xsend" => ExpiryClaimed(db'[ctx'[x].o]) /\ calls'[ctx'[x].o].expire = 0
      BY <2>1, <2>2, AskedCalls DEF EInv, CallsClaimed, Sending
    <2>5. \A x, y \in Workers : x # y /\ pc'[x] = pc'[y] /\ pc'[x] \in {"csend", "xsend"}
                                => ctx'[x].o # ctx'[y].o
      BY <2>2 DEF EInv, CallsClaimed, Sending
    <2> QED
      BY <2>3, <2>4, <2>5 DEF CallsClaimed
  <1> QED
    BY <1>2, <1>3 DEF Effects

\* The moves of the actions that call nothing.
LEMMA EffectsMoves ==
    ASSUME IInv, EInv, Stepping, NEW w \in Workers, Asks(w)
    PROVE  /\ \A step, c : step \notin Sending /\ c.o = ctx[w].o /\ c.seen = ctx[w].seen
                                /\ Goto(w, step, c) => Effects'
           /\ \A step, c : step \notin Sending /\ c.seen = NoSnapshot /\ Goto(w, step, c) => Effects'
           /\ Done(w) \/ Return(w) \/ Raise(w) \/ QueryEnd(w) => Effects'
           /\ \A step, job : step \notin Sending /\ Goto(w, step, [Rest EXCEPT !.job = job])
                             => Effects'
  <1>1. ASSUME NEW step, NEW c, step \notin Sending, c.o = ctx[w].o, c.seen = ctx[w].seen,
               Goto(w, step, c)
        PROVE  Effects'
    BY <1>1, SeenLater, EffectsMove
  <1>2. \A o \in Orders : NotAhead(NoSnapshot, venue'[o])
    BY DEF Stepping, IInv, VenueInv, VenueFine, VenueOrders, NotAhead, NoSnapshot
  <1>3. ASSUME NEW step, NEW c, step \notin Sending, c.seen = NoSnapshot, Goto(w, step, c)
        PROVE  Effects'
    BY <1>2, <1>3, EffectsMove
  <1>4. Rest.seen = NoSnapshot /\ \A job : [Rest EXCEPT !.job = job].seen = NoSnapshot
    BY DEF Rest
  <1>5. "idle" \notin Sending /\ "hydrate" \notin Sending
    BY DEF Sending
  <1>6. Done(w) \/ Return(w) \/ QueryEnd(w) => Effects'
    BY <1>3, <1>4, <1>5 DEF Done, Return, QueryEnd
  <1>7. ASSUME NEW step, NEW job, step \notin Sending, Goto(w, step, [Rest EXCEPT !.job = job])
        PROVE  Effects'
    <2> DEFINE c == [Rest EXCEPT !.job = job]
    <2>1. c.seen = NoSnapshot /\ Goto(w, step, c)
      BY <1>4, <1>7
    <2> HIDE DEF c
    <2> QED
      BY <1>3, <1>7, <2>1
  <1>8. Raise(w) => Effects'
    BY <1>6 DEF Raise
  <1>9. \A step, c : step \notin Sending /\ c.o = ctx[w].o /\ c.seen = ctx[w].seen
                     /\ Goto(w, step, c) => Effects'
    BY <1>1
  <1>10. \A step, c : step \notin Sending /\ c.seen = NoSnapshot /\ Goto(w, step, c) => Effects'
    BY <1>3
  <1>11. \A step, job : step \notin Sending /\ Goto(w, step, [Rest EXCEPT !.job = job]) => Effects'
    BY <1>7
  <1> QED
    BY <1>6, <1>8, <1>9, <1>10, <1>11

\* Changes of a context that keep the order and the answer.
LEMMA SameAnswer ==
    ASSUME IInv, NEW w \in Workers
    PROVE  \A age, got, tok :
              /\ LET c == [ctx[w] EXCEPT !.age = age] IN
                    c.o = ctx[w].o /\ c.seen = ctx[w].seen
              /\ LET c == [ctx[w] EXCEPT !.got = got] IN
                    c.o = ctx[w].o /\ c.seen = ctx[w].seen
              /\ LET c == [ctx[w] EXCEPT !.age = age, !.got = got] IN
                    c.o = ctx[w].o /\ c.seen = ctx[w].seen
              /\ LET c == [ctx[w] EXCEPT !.tok = tok] IN
                    c.o = ctx[w].o /\ c.seen = ctx[w].seen
  BY DEF IInv, CtxInv, CtxFine, Contexts

\* The venue's own record is an answer not ahead of it.
LEMMA OwnSnapshot ==
    ASSUME NEW v, VenueFine(v)
    PROVE  NotAhead(Snapshot(v), v) /\ NotAhead(NoSnapshot, v)
  BY DEF VenueFine, VenueOrders, Snapshot, NotAhead, NoSnapshot

\* A worker moves on with the venue's record as it is now.
LEMMA EffectsAnswer ==
    ASSUME IInv, EInv, Stepping, NEW w \in Workers, Asks(w), NEW step,
           step \notin Sending, ctx[w].o \in Orders, venue' = venue,
           Goto(w, step, [ctx[w] EXCEPT !.seen = Snapshot(venue[ctx[w].o])])
    PROVE  Effects'
  <1> DEFINE c == [ctx[w] EXCEPT !.seen = Snapshot(venue[ctx[w].o])]
  <1>1. c.o = ctx[w].o /\ c.seen = Snapshot(venue[ctx[w].o])
    BY DEF IInv, CtxInv, CtxFine, Contexts
  <1>2. NotAhead(c.seen, venue'[c.o])
    BY <1>1, OwnSnapshot DEF IInv, VenueInv
  <1>3. Goto(w, step, c)
    OBVIOUS
  <1> HIDE DEF c
  <1> QED
    BY <1>2, <1>3, EffectsMove

\* Claiming an outbox row: the worker is about to make the call it claimed.
LEMMA ClaimMove ==
    ASSUME IInv, EInv, Stepping, UNCHANGED calls, NEW w \in Workers, NEW step \in Sending, NEW c,
           ctx[w].o \in Orders, c.o = ctx[w].o, c.seen = ctx[w].seen, Goto(w, step, c),
           step = "send" => Dispatched(db'[c.o]),
           step = "csend" => ~CancelClaimed(db[c.o]) /\ CancelClaimed(db'[c.o]),
           step = "xsend" => ~ExpiryClaimed(db[c.o]) /\ ExpiryClaimed(db'[c.o])
    PROVE  Effects'
  <1>1. /\ \A x \in Workers : pc'[x] = IF x = w THEN step ELSE pc[x]
        /\ \A x \in Workers : ctx'[x] = IF x = w THEN c ELSE ctx[x]
    BY DEF Goto, IInv, CtxInv
  <1>2. SeenInStep'
    BY <1>1, SeenLater DEF SeenInStep
  <1>3. /\ \A p \in Orders : /\ Dispatched(db[p]) => Dispatched(db'[p])
                             /\ CancelClaimed(db[p]) => CancelClaimed(db'[p])
                             /\ ExpiryClaimed(db[p]) => ExpiryClaimed(db'[p])
                             /\ calls[p].cancel \in Nat /\ calls[p].expire \in Nat
        /\ \A x \in Workers : pc[x] \in Sending => ctx[x].o \in Orders
    BY DEF Stepping, Carried, Carries, IInv, CtxInv, CtxFine, Sending, OrderSteps, Steps,
           RestInv, Calls
  <1>4. /\ \A x \in Workers : x # w => pc'[x] = pc[x] /\ ctx'[x] = ctx[x]
        /\ pc'[w] = step /\ ctx'[w].o = c.o
    BY <1>1
  <1>5. \A x \in Workers :
           /\ pc'[x] = "send" => Dispatched(db'[ctx'[x].o])
           /\ pc'[x] = "csend" => CancelClaimed(db'[ctx'[x].o]) /\ calls'[ctx'[x].o].cancel = 0
           /\ pc'[x] = "xsend" => ExpiryClaimed(db'[ctx'[x].o]) /\ calls'[ctx'[x].o].expire = 0
    BY <1>3, <1>4 DEF EInv, CallsClaimed, Sending
  <1>6. \A x, y \in Workers : x # y /\ pc'[x] = pc'[y] /\ pc'[x] \in {"csend", "xsend"}
                              => ctx'[x].o # ctx'[y].o
    BY <1>4 DEF EInv, CallsClaimed
  <1>7. \A o \in Orders :
           /\ calls'[o].submit > 0 => Dispatched(db'[o])
           /\ calls'[o].cancel > 0 => CancelClaimed(db'[o])
           /\ calls'[o].expire > 0 => ExpiryClaimed(db'[o])
           /\ calls'[o].cancel <= 1 /\ calls'[o].expire <= 1
    BY <1>3 DEF EInv, CallsClaimed
  <1> QED
    BY <1>2, <1>5, <1>6, <1>7 DEF Effects, CallsClaimed

\* The three claims.
LEMMA ClaimEffects ==
    ASSUME IInv, EInv, Stepping, NEW w \in Workers
    PROVE  Claim(w) \/ CClaim(w) \/ XClaim(w) => Effects'
  <1> DEFINE o == ctx[w].o
             row == db[ctx[w].o]
  <1>0. ASSUME Claim(w) \/ CClaim(w) \/ XClaim(w)
        PROVE  /\ UNCHANGED calls /\ Asks(w) /\ o \in Orders
               /\ row \in Rows /\ row.dis \in Boxes /\ row.can \in Boxes /\ row.exp \in Boxes
               /\ \A r, own : Commit(w, o, r, own) => db'[o] = r
    <2>1. UNCHANGED calls /\ o \in Orders
      BY <1>0, AtHand DEF Claim, CClaim, XClaim, VenueQuiet, OrderSteps, Steps
    <2>2. row \in Rows
      BY <2>1 DEF IInv, DbInv, RowInv
    <2>3. \A r, own : Commit(w, o, r, own) => db'[o] = r
      BY <2>1 DEF Commit, IInv, DbInv
    <2> QED
      BY <2>1, <2>2, <2>3 DEF Asks, Rows
  <1>1. "send" \in Sending /\ "csend" \in Sending /\ "xsend" \in Sending
    BY DEF Sending
  <1>2. ASSUME Claim(w) PROVE Effects'
    <2>1. CASE Raise(w)
      BY <1>0, <1>2, <2>1, EffectsMoves
    <2>2. CASE /\ Commit(w, o, ClaimDispatch(row, w, 0), TRUE)
               /\ Goto(w, "send", [ctx[w] EXCEPT !.tok = TRUE])
      <3> DEFINE c == [ctx[w] EXCEPT !.tok = TRUE]
      <3>1. c.o = o /\ c.seen = ctx[w].seen /\ Goto(w, "send", c)
        BY <2>2, SameAnswer
      <3>2. Dispatched(db'[o])
        <4>1. Dispatched(ClaimDispatch(row, w, 0))
          BY <1>0, <1>2 DEF ClaimDispatch, Claimed, Dispatched, Rows, Boxes
        <4> QED
          BY <1>0, <1>2, <2>2, <4>1
      <3> HIDE DEF c
      <3> QED
        BY <1>0, <1>1, <1>2, <3>1, <3>2, ClaimMove
    <2>3. CASE /\ row.dis.st \in {"acknowledged", "explicitly_rejected", "recovered"}
               /\ Goto(w, "send", ctx[w]) /\ NoCommit
      <3>1. Dispatched(db'[o])
        BY <2>3 DEF NoCommit, Dispatched
      <3> QED
        BY <1>0, <1>1, <1>2, <2>3, <3>1, ClaimMove
    <2> QED
      BY <1>2, <2>1, <2>2, <2>3 DEF Claim
  <1>3. ASSUME CClaim(w) PROVE Effects'
    <2>1. CASE Raise(w)
      BY <1>0, <1>3, <2>1, EffectsMoves
    <2>2. CASE /\ ClaimCancelOK(row) /\ Commit(w, o, ClaimCancel(row, w, ctx[w].age), TRUE)
               /\ Goto(w, "csend", ctx[w])
      <3>1. ~CancelClaimed(row) /\ CancelClaimed(ClaimCancel(row, w, ctx[w].age))
        BY <1>0, <1>3, <2>2 DEF ClaimCancelOK, ClaimCancel, Claimed, CancelClaimed, Rows, Boxes
      <3>2. db'[o] = ClaimCancel(row, w, ctx[w].age)
        BY <1>0, <1>3, <2>2
      <3> QED
        BY <1>0, <1>1, <1>3, <2>2, <3>1, <3>2, ClaimMove
    <2> QED
      BY <1>3, <2>1, <2>2 DEF CClaim
  <1>4. ASSUME XClaim(w) PROVE Effects'
    <2> DEFINE c == IF ctx[w].job = "expire" THEN ctx[w] ELSE [ctx[w] EXCEPT !.age = 0]
    <2>1. CASE Raise(w)
      BY <1>0, <1>4, <2>1, EffectsMoves
    <2>2. CASE /\ ClaimExpiryOK(row) /\ Commit(w, o, ClaimExpiry(row, w, ctx[w].age), TRUE)
               /\ Goto(w, "xsend", c)
      <3>1. ~ExpiryClaimed(row) /\ ExpiryClaimed(ClaimExpiry(row, w, ctx[w].age))
        BY <1>0, <1>4, <2>2 DEF ClaimExpiryOK, ClaimExpiry, Claimed, ExpiryClaimed, Rows, Boxes
      <3>2. db'[o] = ClaimExpiry(row, w, ctx[w].age)
        BY <1>0, <1>4, <2>2
      <3>3. c.o = o /\ c.seen = ctx[w].seen
        BY SameAnswer
      <3> HIDE DEF c
      <3> QED
        BY <1>0, <1>1, <1>4, <2>2, <3>1, <3>2, <3>3, ClaimMove
    <2> QED
      BY <1>4, <2>1, <2>2 DEF XClaim
  <1> QED
    BY <1>2, <1>3, <1>4

\* The three calls: the worker goes on with the venue's answer or without one.
LEMMA SendEffects ==
    ASSUME IInv, EInv, Stepping, NEW w \in Workers
    PROVE  Send(w) \/ CSend(w) \/ XSend(w) => Effects'
  <1> DEFINE o == ctx[w].o
             v == venue[ctx[w].o]
  <1>0. ASSUME Send(w) \/ CSend(w) \/ XSend(w)
        PROVE  /\ Asks(w) /\ o \in Orders
               /\ \A u : venue' = [venue EXCEPT ![o] = u] => venue'[o] = u
    <2>1. o \in Orders
      BY <1>0, AtHand DEF Send, CSend, XSend, OrderSteps, Steps
    <2>2. Asks(w)
      BY <1>0 DEF Send, CSend, XSend, Asks
    <2> QED
      BY <2>1, <2>2 DEF IInv, VenueInv
  <1>1. ASSUME o \in Orders, Asks(w), NEW step, step \notin Sending,
               Goto(w, step, [ctx[w] EXCEPT !.seen = Snapshot(venue'[o])])
        PROVE  Effects'
    <2> DEFINE c == [ctx[w] EXCEPT !.seen = Snapshot(venue'[o])]
    <2>1. c.o = o /\ c.seen = Snapshot(venue'[o])
      BY DEF IInv, CtxInv, CtxFine, Contexts
    <2>2. NotAhead(c.seen, venue'[c.o])
      BY <1>1, <2>1, OwnSnapshot DEF Stepping, IInv, VenueInv
    <2>3. Goto(w, step, c)
      BY <1>1
    <2> HIDE DEF c
    <2> QED
      BY <1>1, <2>2, <2>3, EffectsMove
  <1>2. /\ "ack" \notin Sending /\ "amb" \notin Sending /\ "rej" \notin Sending
        /\ "camb" \notin Sending /\ "cobs" \notin Sending /\ "cdone" \notin Sending
        /\ "xdone" \notin Sending /\ "xamb" \notin Sending
    BY DEF Sending
  <1>3. ASSUME Send(w) PROVE Effects'
    <2>1. CASE Goto(w, "amb", ctx[w]) \/ Goto(w, "rej", ctx[w])
      BY <1>0, <1>2, <1>3, <2>1, EffectsMoves
    <2>2. CASE Goto(w, "ack", [ctx[w] EXCEPT !.seen = Snapshot(v)]) /\ UNCHANGED venue
      BY <1>0, <1>2, <1>3, <2>2, EffectsAnswer
    <2>3. CASE Goto(w, "ack", [ctx[w] EXCEPT !.seen = Snapshot(venue'[o])])
      BY <1>0, <1>1, <1>2, <1>3, <2>3
    <2> QED
      BY <1>3, <2>1, <2>2, <2>3 DEF Send
  <1>4. ASSUME CSend(w) PROVE Effects'
    <2>1. CASE CancelRaises(w)
      BY <1>0, <1>2, <1>4, <2>1, EffectsMoves DEF CancelRaises
    <2>2. CASE CancelAnswered(w, Snapshot(venue'[o]))
      <3>1. PICK step \in {"cobs", "cdone"} :
                    Goto(w, step, [ctx[w] EXCEPT !.seen = Snapshot(venue'[o])])
        BY <2>2 DEF CancelAnswered
      <3> QED
        BY <1>0, <1>1, <1>2, <1>4, <3>1
    <2> QED
      BY <1>4, <2>1, <2>2 DEF CSend
  <1>5. ASSUME XSend(w) PROVE Effects'
    <2>1. CASE ExpireRaises(w)
      BY <1>0, <1>2, <1>5, <2>1, EffectsMoves DEF ExpireRaises
    <2>2. CASE Goto(w, "xdone", [ctx[w] EXCEPT !.seen = Snapshot(venue'[o])])
      BY <1>0, <1>1, <1>2, <1>5, <2>2
    <2> QED
      BY <1>5, <2>1, <2>2 DEF XSend
  <1> QED
    BY <1>3, <1>4, <1>5

\* The steps that ask nothing of the venue.
LEMMA CallEffects ==
    ASSUME IInv, EInv, Stepping, NEW w \in Workers
    PROVE  /\ Ack(w) \/ Note(w) \/ MarkUnknown(w) \/ MarkRejected(w) => Effects'
           /\ Query(w) \/ QueryNone(w) \/ Fetch(w) \/ Apply(w) => Effects'
           /\ QueryDispatch(w) \/ RecoverDispatch(w) \/ QueryCancel(w) \/ RecoverCancel(w) => Effects'
           /\ HydrateStep(w) \/ SyncFetch(w) \/ SyncApply(w) => Effects'
           /\ CObs(w) \/ CDone(w) \/ CAmb(w) => Effects'
           /\ XDone(w) \/ XAmb(w) \/ XRec(w) => Effects'
           /\ XQuery(w) \/ XFetch(w) \/ XApply(w) \/ XRecDone(w) => Effects'
  <1>0. VenueQuiet => Asks(w) /\ UNCHANGED venue
    BY DEF VenueQuiet, Asks
  <1>1. ASSUME VenueQuiet, NEW step, step \notin Sending,
               \/ Goto(w, step, ctx[w])
               \/ Goto(w, step, [ctx[w] EXCEPT !.age = 0])
               \/ Goto(w, step, [ctx[w] EXCEPT !.got = NoFills])
        PROVE  Effects'
    <2> DEFINE a == [ctx[w] EXCEPT !.age = 0]
               b == [ctx[w] EXCEPT !.got = NoFills]
    <2>1. a.o = ctx[w].o /\ a.seen = ctx[w].seen /\ b.o = ctx[w].o /\ b.seen = ctx[w].seen
      BY SameAnswer
    <2>2. Goto(w, step, ctx[w]) \/ Goto(w, step, a) \/ Goto(w, step, b)
      BY <1>1
    <2> HIDE DEF a, b
    <2> QED
      BY <1>0, <1>1, <2>1, <2>2, EffectsMoves
  <1>2. ASSUME VenueQuiet, NEW got,
               \/ Goto(w, "apply", [ctx[w] EXCEPT !.age = 0, !.got = got])
               \/ Goto(w, "xapply", [ctx[w] EXCEPT !.got = got])
               \/ Goto(w, "syncapply", [ctx[w] EXCEPT !.got = got])
        PROVE  Effects'
    <2> DEFINE a == [ctx[w] EXCEPT !.age = 0, !.got = got]
               b == [ctx[w] EXCEPT !.got = got]
    <2>1. a.o = ctx[w].o /\ a.seen = ctx[w].seen /\ b.o = ctx[w].o /\ b.seen = ctx[w].seen
      BY SameAnswer
    <2>2. Goto(w, "apply", a) \/ Goto(w, "xapply", b) \/ Goto(w, "syncapply", b)
      BY <1>2
    <2>3. "apply" \notin Sending /\ "xapply" \notin Sending /\ "syncapply" \notin Sending
      BY DEF Sending
    <2> HIDE DEF a, b
    <2> QED
      BY <1>0, <1>2, <2>1, <2>2, <2>3, EffectsMoves
  <1>3. /\ "amb" \notin Sending /\ "note" \notin Sending /\ "none" \notin Sending
        /\ "fetch" \notin Sending /\ "dis" \notin Sending /\ "disrec" \notin Sending
        /\ "can" \notin Sending /\ "canrec" \notin Sending /\ "hydrate" \notin Sending
        /\ "cdone" \notin Sending /\ "camb" \notin Sending /\ "xamb" \notin Sending
        /\ "xquery" \notin Sending /\ "xfetch" \notin Sending /\ "xrecdone" \notin Sending
    BY DEF Sending
  <1>4. VenueQuiet /\ (Done(w) \/ Return(w) \/ Raise(w) \/ QueryEnd(w)) => Effects'
    BY <1>0, EffectsMoves
  <1>5. Ack(w) \/ Note(w) \/ MarkUnknown(w) \/ MarkRejected(w) => Effects'
    BY <1>1, <1>3, <1>4 DEF Ack, Note, MarkUnknown, MarkRejected
  <1>6. ASSUME Query(w) PROVE Effects'
    <2>1. ctx[w].o \in Orders
      BY <1>6, AtHand DEF Query, OrderSteps, Steps
    <2>2. VenueQuiet
      BY <1>6 DEF Query
    <2>3. \/ Goto(w, "none", ctx[w]) \/ Raise(w)
          \/ Goto(w, "fetch", [ctx[w] EXCEPT !.seen = Snapshot(venue[ctx[w].o])])
      BY <1>6 DEF Query
    <2> QED
      BY <1>0, <1>1, <1>3, <1>4, <2>1, <2>2, <2>3, EffectsAnswer
  <1>7. QueryNone(w) \/ Fetch(w) \/ Apply(w) => Effects'
    <2>1. QueryNone(w) => Effects'
      BY <1>1, <1>3 DEF QueryNone
    <2>2. Fetch(w) => Effects'
      BY <1>2 DEF Fetch
    <2>3. Apply(w) => VenueQuiet /\ (Raise(w) \/ Goto(w, "dis", [ctx[w] EXCEPT !.got = NoFills]))
      BY DEF Apply
    <2> QED
      BY <1>1, <1>3, <1>4, <2>1, <2>2, <2>3
  <1>8. QueryDispatch(w) \/ RecoverDispatch(w) \/ QueryCancel(w) \/ RecoverCancel(w) => Effects'
    BY <1>1, <1>3, <1>4 DEF QueryDispatch, RecoverDispatch, QueryCancel, RecoverCancel
  <1>9. HydrateStep(w) \/ SyncFetch(w) \/ SyncApply(w) => Effects'
    <2>1. HydrateStep(w) \/ SyncApply(w) => VenueQuiet /\ Done(w)
      BY DEF HydrateStep, SyncApply
    <2>2. SyncFetch(w) => Effects'
      BY <1>2 DEF SyncFetch
    <2> QED
      BY <1>4, <2>1, <2>2
  <1>10. \A job : VenueQuiet /\ Goto(w, "hydrate", [Rest EXCEPT !.job = job]) => Effects'
    BY <1>0, <1>3, EffectsMoves
  <1>11. VenueQuiet /\ (CancelRaises(w) \/ ExpireRaises(w)) => Effects'
    BY <1>1, <1>3, <1>4 DEF CancelRaises, ExpireRaises
  <1>12. CObs(w) \/ CDone(w) \/ CAmb(w) => Effects'
    BY <1>1, <1>3, <1>4, <1>10, <1>11 DEF CObs, CDone, CAmb
  <1>13. XDone(w) \/ XAmb(w) \/ XRec(w) => Effects'
    BY <1>1, <1>3, <1>4, <1>10, <1>11 DEF XDone, XAmb, XRec
  <1>14. ASSUME XQuery(w) PROVE Effects'
    <2>1. ctx[w].o \in Orders /\ VenueQuiet
      BY <1>14, AtHand DEF XQuery, OrderSteps, Steps
    <2>2. Goto(w, "xfetch", [ctx[w] EXCEPT !.seen = Snapshot(venue[ctx[w].o])])
      BY <1>14 DEF XQuery
    <2> QED
      BY <1>0, <1>3, <2>1, <2>2, EffectsAnswer
  <1>15. XFetch(w) \/ XApply(w) \/ XRecDone(w) => Effects'
    <2>1. XFetch(w) => Effects'
      BY <1>2 DEF XFetch
    <2>2. XApply(w) => VenueQuiet
                      /\ (Raise(w) \/ Goto(w, "xrecdone", [ctx[w] EXCEPT !.got = NoFills]))
      BY DEF XApply
    <2>3. XRecDone(w) => VenueQuiet /\ (Return(w) \/ Raise(w))
      BY DEF XRecDone
    <2> QED
      BY <1>1, <1>3, <1>4, <2>1, <2>2, <2>3
  <1> QED
    BY <1>5, <1>6, <1>7, <1>8, <1>9, <1>12, <1>13, <1>14, <1>15

\* A call begins without an answer; a crash forgets the one there was.
LEMMA StartEffects ==
    ASSUME IInv, EInv, Stepping, NEW w \in Workers, WorkerStarts(w) \/ Crash(w)
    PROVE  Effects'
  <1>1. VenueQuiet /\ Asks(w)
    BY DEF WorkerStarts, StartSync, PrepareNew, PrepareReplay, StartQuery, StartCancel,
           StartExpire, StartRecover, Crash, VenueQuiet, Asks
  <1>2. UNCHANGED <<pc, ctx>> => Effects'
    BY <1>1, EffectsStay DEF VenueQuiet
  <1>3. \A o, job, suspect :
           /\ [Rest EXCEPT !.o = o, !.job = job].seen = NoSnapshot
           /\ [Rest EXCEPT !.o = o, !.job = job, !.suspect = suspect].seen = NoSnapshot
    BY DEF Rest
  <1>4. ASSUME NEW o, NEW job, NEW step \in PlainSteps \ Sending, Start(w, o, job, step)
        PROVE  Effects'
    <2> DEFINE c == [Rest EXCEPT !.o = o, !.job = job]
    <2>1. c.seen = NoSnapshot /\ Goto(w, step, c)
      BY <1>3, <1>4 DEF Start
    <2> HIDE DEF c
    <2> QED
      BY <1>1, <2>1, EffectsMoves
  <1>5. /\ {"claim", "query", "cclaim", "xclaim", "xrec"} \subseteq PlainSteps \ Sending
        /\ "syncfetch" \notin Sending
    BY StepNames DEF Sending
  <1>6. ASSUME StartSync(w) \/ Crash(w) PROVE Effects'
    BY <1>1, <1>5, <1>6, EffectsMoves DEF StartSync, Crash
  <1>7. ASSUME NEW o \in Orders, PrepareNew(w, o) \/ StartQuery(w, o) PROVE Effects'
    BY <1>2, <1>4, <1>5, <1>7 DEF PrepareNew, StartQuery
  <1>8. ASSUME NEW o \in Orders, PrepareReplay(w, o) PROVE Effects'
    <2>1. ResumeStep(db[o]) # "idle" => ResumeStep(db[o]) \in PlainSteps \ Sending
      BY <1>5 DEF ResumeStep
    <2> QED
      BY <1>4, <1>8, <2>1 DEF PrepareReplay
  <1>9. ASSUME NEW o \in Orders, StartCancel(w, o) \/ StartExpire(w, o) PROVE Effects'
    BY <1>4, <1>5, <1>9 DEF StartCancel, StartExpire
  <1>10. ASSUME NEW o \in Orders, StartRecover(w, o) PROVE Effects'
    <2> DEFINE suspect == Incomplete(db[o]) \/ db[o].sub = "pending_recovery"
               c == [Rest EXCEPT !.o = o, !.job = "recover", !.suspect = suspect]
    <2>1. RecoverStep(db[o]) # "idle" => RecoverStep(db[o]) \in PlainSteps \ Sending
      BY <1>5 DEF RecoverStep, ResumeStep
    <2>2. c.seen = NoSnapshot /\ Goto(w, RecoverStep(db[o]), c) /\ RecoverStep(db[o]) # "idle"
      BY <1>3, <1>10 DEF StartRecover
    <2> HIDE DEF c
    <2> QED
      BY <1>1, <2>1, <2>2, EffectsMoves
  <1> QED
    BY <1>6, <1>7, <1>8, <1>9, <1>10 DEF WorkerStarts

\* Growing old changes neither the order nor the answer.
LEMMA TickEffects ==
    ASSUME IInv, EInv, Stepping, Tick
    PROVE  Effects'
  <1>1. pc' = pc /\ calls' = calls
    BY DEF Tick, VenueQuiet
  <1>2. \A w \in Workers : ctx'[w].o = ctx[w].o /\ ctx'[w].seen = ctx[w].seen
    BY DEF Tick, IInv, CtxInv, CtxFine, Contexts
  <1>3. SeenInStep'
    BY <1>2, SeenLater DEF SeenInStep
  <1>4. CallsClaimed'
    <2>1. /\ \A o \in Orders : /\ Dispatched(db[o]) => Dispatched(db'[o])
                               /\ CancelClaimed(db[o]) => CancelClaimed(db'[o])
                               /\ ExpiryClaimed(db[o]) => ExpiryClaimed(db'[o])
          /\ \A w \in Workers : pc[w] \in Sending => ctx[w].o \in Orders
      BY DEF Stepping, Carried, Carries, IInv, CtxInv, CtxFine, Sending, OrderSteps, Steps
    <2> QED
      BY <1>1, <1>2, <2>1 DEF EInv, CallsClaimed, Sending
  <1> QED
    BY <1>3, <1>4 DEF Effects

\* Every step keeps the answers in step and the calls claimed.
LEMMA NextEffects ==
    ASSUME IInv, EInv, Stepping, [Next]_vars
    PROVE  Effects'
  <1>1. ASSUME NEW w \in Workers, WorkerCalls(w) PROVE Effects'
    BY <1>1, ClaimEffects, SendEffects, CallEffects DEF WorkerCalls
  <1>2. ASSUME NEW w \in Workers, WorkerStarts(w) \/ Crash(w) PROVE Effects'
    BY <1>2, StartEffects
  <1>3. ASSUME NEW o \in Orders, VenueActs(o) PROVE Effects'
    BY <1>3, EffectsStay DEF VenueActs, Arrive, VenueAcknowledge, VenueReject, VenueFill,
                             ShowFill, CompleteCancel, ExpireIoc, VenueMoves
  <1>4. CASE TriggerKill \/ UNCHANGED vars
    BY <1>4, EffectsStay DEF TriggerKill, VenueQuiet, vars
  <1> QED
    BY <1>1, <1>2, <1>3, <1>4, TickEffects DEF Next

-----------------------------------------------------------------------------
(* The invariant and what follows from it.                                 *)

\* The invariant holds at the start.
LEMMA InitEInv == Init => EInv
  <1> SUFFICES ASSUME Init PROVE EInv
    OBVIOUS
  <1>1. NoVenueOrder.fills = <<>> /\ NoVenueOrder.cum = 0 /\ NoVenueOrder.seq = 0
    BY DEF NoVenueOrder
  <1>2. Total(<<>>, {}) = 0
    <2>1. <<>> \in Seq(Fills)
      OBVIOUS
    <2> QED
      BY <2>1, SumBounds
  <1>3. 1 .. Len(<<>>) = {}
    OBVIOUS
  <1>4. VenueInStep(NoVenueOrder)
    BY <1>1, <1>2, <1>3 DEF VenueInStep
  <1>5. RowInStep(NoRow, NoVenueOrder) /\ Started(NoRow)
    BY <1>1, <1>2 DEF RowInStep, Started, NoRow, NoProjection, NoBox
  <1>6. SeenInStep
    BY OrdersAssumption DEF Init, SeenInStep, Rest
  <1>7. CallsClaimed
    BY DEF Init, CallsClaimed
  <1> QED
    BY <1>4, <1>5, <1>6, <1>7 DEF EInv, RowsInStep, Init

\* Every step preserves it.
LEMMA NextEInv == IInv /\ EInv /\ [Next]_vars => EInv'
  <1> SUFFICES ASSUME IInv, EInv, [Next]_vars PROVE EInv'
    OBVIOUS
  <1>1. Stepping
    BY NextIInv, NextCarries, NextOnward DEF Stepping
  <1>2. \A o \in Orders : VenueInStep(venue'[o])
    BY <1>1 DEF Stepping, VenueOnward, Onward
  <1>3. RowsInStep'
    <2> SUFFICES ASSUME NEW o \in Orders PROVE RowInStep(db'[o], venue'[o]) /\ Started(db'[o])
      BY DEF RowsInStep
    <2>1. RowInStep(db'[o], venue[o]) /\ Started(db'[o])
      BY <1>1 DEF Stepping, Carried, Carries
    <2>2. db'[o].proj.seq \in Nat /\ db'[o].proj.cum \in Nat
      BY <1>1 DEF Stepping, IInv, DbInv, RowInv, Rows, Projections
    <2>3. VenueGood(venue[o]) /\ VenueFine(venue'[o]) /\ Onward(venue[o], venue'[o])
      BY <1>1, OrderGood DEF Stepping, IInv, VenueInv, VenueOnward, Good
    <2> QED
      BY <2>1, <2>2, <2>3, LaterInStep
  <1> QED
    BY <1>1, <1>2, <1>3, NextEffects DEF EInv, Effects

\* Both invariants always hold.
LEMMA SpecEInv == Spec => [](IInv /\ EInv)
  BY InitIInv, NextIInv, InitEInv, NextEInv, PTL DEF Spec

\* Induction over the subsets of a finite set.
LEMMA SubsetsInduct ==
    ASSUME NEW S, IsFiniteSet(S), NEW Has \in SUBSET (SUBSET S), {} \in Has,
           \A s \in SUBSET S : (\A x \in s : s \ {x} \in Has) => s \in Has
    PROVE  \A s \in SUBSET S : s \in Has
  <1> DEFINE Sized(n) == \A s \in SUBSET S : Cardinality(s) = n => s \in Has
             N == {n \in Nat : Sized(n)}
  <1>1. \A s \in SUBSET S : IsFiniteSet(s) /\ Cardinality(s) \in Nat
    BY FS_Subset, FS_CardinalityType
  <1>2. 0 \in N
    <2>1. \A s \in SUBSET S : Cardinality(s) = 0 => s = {}
      BY <1>1, FS_EmptySet
    <2> QED
      BY <2>1
  <1>3. ASSUME NEW n \in N PROVE n + 1 \in N
    <2> SUFFICES ASSUME NEW s \in SUBSET S, Cardinality(s) = n + 1 PROVE s \in Has
      OBVIOUS
    <2>1. \A x \in s : Cardinality(s \ {x}) = n
      BY <1>1, FS_RemoveElement
    <2>2. \A x \in s : s \ {x} \in Has
      BY <2>1
    <2> QED
      BY <2>2
  <1> HIDE DEF N
  <1>4. N \in SUBSET Nat
    BY DEF N
  <1>5. \A n \in Nat : n \in N
    BY <1>2, <1>3, <1>4, NumbersInduct
  <1> QED
    BY <1>1, <1>5 DEF N

\* The library's sum over the booked fills is Total: its recursion over the
\* subsets has a fixed point, and that one only.
LEMMA SumOfFills ==
    ASSUME NEW fs \in Seq(Fills), NEW S, S \subseteq 1 .. Len(fs)
    PROVE  MapThenSumSet(LAMBDA i : fs[i].qty, S) = Total(fs, S)
  <1> DEFINE Pick(s) == CHOOSE x \in s : TRUE
             Body(g) == [s \in SUBSET S |-> IF s = {} THEN 0
                                            ELSE fs[Pick(s)].qty + g[s \ {Pick(s)}]]
             t == [s \in SUBSET S |-> Total(fs, s)]
             iter == CHOOSE g : g = Body(g)
             Has == {s \in SUBSET S : iter[s] = Total(fs, s)}
  <1>1. MapThenSumSet(LAMBDA i : fs[i].qty, S) = iter[S]
    BY DEF MapThenSumSet, MapThenFoldSet
  <1>2. Total(fs, {}) = 0
    BY SumBounds
  <1>3. \A s \in SUBSET S : s # {} =>
            /\ Pick(s) \in s
            /\ Total(fs, s) = fs[Pick(s)].qty + Total(fs, s \ {Pick(s)})
    <2> SUFFICES ASSUME NEW s \in SUBSET S, s # {}
                 PROVE  /\ Pick(s) \in s
                        /\ Total(fs, s) = fs[Pick(s)].qty + Total(fs, s \ {Pick(s)})
      OBVIOUS
    <2>1. Pick(s) \in s
      OBVIOUS
    <2> HIDE DEF Pick
    <2>2. s \ {Pick(s)} \subseteq 1 .. Len(fs) /\ Pick(s) \in 1 .. Len(fs)
          /\ Pick(s) \notin s \ {Pick(s)} /\ (s \ {Pick(s)}) \cup {Pick(s)} = s
      BY <2>1
    <2>3. /\ Total(fs, s) = Total(fs, s \ {Pick(s)}) + fs[Pick(s)].qty
          /\ Total(fs, s \ {Pick(s)}) \in Nat
      BY <2>2, Totals
    <2>4. fs[Pick(s)].qty \in Nat
      BY <2>2, FillList
    <2> QED
      BY <2>1, <2>3, <2>4
  <1> HIDE DEF Pick
  <1>4. t = Body(t)
    BY <1>2, <1>3
  <1>5. iter = Body(iter)
    <2> HIDE DEF t, Body
    <2> QED
      BY <1>4
  <1> HIDE DEF iter
  <1>6. {} \in Has
    BY <1>2, <1>5
  <1>7. ASSUME NEW s \in SUBSET S, \A x \in s : s \ {x} \in Has PROVE s \in Has
    <2>1. CASE s = {}
      BY <1>6, <2>1
    <2>2. CASE s # {}
      <3>1. Pick(s) \in s /\ Total(fs, s) = fs[Pick(s)].qty + Total(fs, s \ {Pick(s)})
        BY <1>3, <2>2
      <3>2. iter[s \ {Pick(s)}] = Total(fs, s \ {Pick(s)})
        BY <1>7, <3>1
      <3>3. iter[s] = fs[Pick(s)].qty + iter[s \ {Pick(s)}]
        BY <1>5, <2>2
      <3> QED
        BY <3>1, <3>2, <3>3
    <2> QED
      BY <2>1, <2>2
  <1>8. Has \in SUBSET (SUBSET S)
    OBVIOUS
  <1> HIDE DEF Has
  <1>9. IsFiniteSet(S)
    <2>1. IsFiniteSet(1 .. Len(fs))
      BY FillList, FS_Interval
    <2> QED
      BY <2>1, FS_Subset
  <1>10. S \in Has
    BY <1>6, <1>7, <1>8, <1>9, SubsetsInduct
  <1> QED
    BY <1>1, <1>10 DEF Has

\* What is booked and what is projected both follow the venue, for any number
\* of workers and orders: every venue fill is booked at most once and in full,
\* the booked quantity never exceeds the executed one, and no projection runs
\* ahead of the venue (persist_fill_bundle, persist_order_observation).
THEOREM BookingIsSound == Spec => []BookingSound
  <1>1. IInv /\ EInv => BookingSound
    <2> SUFFICES ASSUME IInv, EInv, NEW o \in Orders
                 PROVE  /\ db[o].fills \subseteq 1 .. Len(venue[o].fills)
                        /\ db[o].filled = MapThenSumSet(LAMBDA i : venue[o].fills[i].qty, db[o].fills)
                        /\ db[o].filled <= venue[o].cum
                        /\ db[o].res = "open" => db[o].resQty + db[o].filled = Qty
                        /\ db[o].proj.on => /\ db[o].proj.seq <= venue[o].seq
                                            /\ db[o].proj.cum <= venue[o].cum
                                            /\ db[o].proj.complete => db[o].proj.cum = db[o].filled
      BY DEF BookingSound, FillsBookedOnce, ProjectionAgrees
    <2>1. /\ RowInv(db[o]) /\ RowInStep(db[o], venue[o]) /\ VenueInStep(venue[o])
          /\ venue[o].fills \in Seq(Fills)
      BY OrderGood DEF Good, RowGood, VenueGood, VenueFine, VenueOrders
    <2>2. db[o].fills \subseteq 1 .. Len(venue[o].fills)
          /\ db[o].filled = Total(venue[o].fills, db[o].fills)
      BY <2>1 DEF RowInStep
    <2>3. db[o].filled = MapThenSumSet(LAMBDA i : venue[o].fills[i].qty, db[o].fills)
      BY <2>1, <2>2, SumOfFills
    <2>4. db[o].filled <= venue[o].cum
      BY <2>1, <2>2, Totals DEF VenueInStep
    <2>5. db[o].res = "open" => db[o].resQty + db[o].filled = Qty
      BY <2>1 DEF RowInv
    <2>6. db[o].proj.on => /\ db[o].proj.seq <= venue[o].seq /\ db[o].proj.cum <= venue[o].cum
                           /\ db[o].proj.complete => db[o].proj.cum = db[o].filled
      BY <2>1 DEF RowInv, RowInStep
    <2> QED
      BY <2>2, <2>3, <2>4, <2>5, <2>6
  <1> QED
    BY <1>1, SpecEInv, PTL

\* A cancellation and an expiry are each sent at most once, whatever crashes,
\* is retried or is recovered (claim_cancel, claim_expiry).
THEOREM NothingRepeated == Spec => []NeverRecancelled
  <1>1. EInv => NeverRecancelled
    BY DEF EInv, CallsClaimed, NeverRecancelled
  <1> QED
    BY <1>1, SpecEInv, PTL

\* Nothing is asked of the venue before the outbox row that says so is claimed.
THEOREM ClaimsBeforeCalls == Spec => []ClaimedBeforeCall
  <1>1. EInv => ClaimedBeforeCall
    BY DEF EInv, CallsClaimed, ClaimedBeforeCall, Dispatched, CancelClaimed, ExpiryClaimed
  <1> QED
    BY <1>1, SpecEInv, PTL

-----------------------------------------------------------------------------
(* A single worker.                                                        *)

\* Alone, a worker about to claim finds the dispatch as it read it, and what it
\* is about to send nobody has sent.
AloneInv == /\ \A w \in Workers : pc[w] = "claim" => db[ctx[w].o].dis.st = "prepared"
            /\ \A w \in Workers : pc[w] = "send" => calls[ctx[w].o].submit = 0
            /\ \A o \in Orders : calls[o].submit <= 1

Submitting == {"claim", "send"}
\* The worker neither is about to submit nor has just submitted.
Leaves(w) == pc'[w] \notin Submitting /\ \A o \in Orders : calls'[o].submit = calls[o].submit

\* Where a call ends.
LEMMA LeavesAtEnd ==
    ASSUME IInv, NEW w \in Workers
    PROVE  /\ \A step, c : Goto(w, step, c) => pc'[w] = step
           /\ Done(w) \/ Return(w) \/ Raise(w) \/ QueryEnd(w) => pc'[w] \in {"idle", "hydrate"}
           /\ CancelRaises(w) \/ ExpireRaises(w) => pc'[w] \in {"idle", "hydrate", "camb", "xamb"}
  <1>1. \A step, c : Goto(w, step, c) => pc'[w] = step
    BY DEF Goto, IInv, CtxInv
  <1>2. Done(w) \/ Return(w) \/ QueryEnd(w) => pc'[w] \in {"idle", "hydrate"}
    BY <1>1 DEF Done, Return, QueryEnd
  <1> QED
    BY <1>1, <1>2 DEF Raise, CancelRaises, ExpireRaises

\* Every call but the claim and the submission.
LEMMA OtherCallsLeave ==
    ASSUME IInv, NEW w \in Workers, WorkerCalls(w), ~Claim(w), ~Send(w)
    PROVE  Leaves(w)
  <1>1. UNCHANGED calls => \A o \in Orders : calls'[o].submit = calls[o].submit
    OBVIOUS
  <1>2. Ack(w) \/ Note(w) \/ MarkUnknown(w) \/ MarkRejected(w) => Leaves(w)
    BY <1>1, LeavesAtEnd DEF Leaves, Submitting, Ack, Note, MarkUnknown, MarkRejected, VenueQuiet
  <1>3. Query(w) \/ QueryNone(w) \/ Fetch(w) \/ Apply(w) => Leaves(w)
    BY <1>1, LeavesAtEnd DEF Leaves, Submitting, Query, QueryNone, Fetch, Apply, VenueQuiet
  <1>4. QueryDispatch(w) \/ RecoverDispatch(w) \/ QueryCancel(w) \/ RecoverCancel(w) => Leaves(w)
    BY <1>1, LeavesAtEnd DEF Leaves, Submitting, QueryDispatch, RecoverDispatch, QueryCancel,
                             RecoverCancel, VenueQuiet
  <1>5. HydrateStep(w) \/ SyncFetch(w) \/ SyncApply(w) => Leaves(w)
    BY <1>1, LeavesAtEnd DEF Leaves, Submitting, HydrateStep, SyncFetch, SyncApply, VenueQuiet
  <1>6. CClaim(w) \/ CObs(w) \/ CDone(w) \/ CAmb(w) => Leaves(w)
    BY <1>1, LeavesAtEnd DEF Leaves, Submitting, CClaim, CObs, CDone, CAmb, VenueQuiet
  <1>7. XClaim(w) \/ XDone(w) \/ XAmb(w) \/ XRec(w) => Leaves(w)
    BY <1>1, LeavesAtEnd DEF Leaves, Submitting, XClaim, XDone, XAmb, XRec, VenueQuiet
  <1>8. XQuery(w) \/ XFetch(w) \/ XApply(w) \/ XRecDone(w) => Leaves(w)
    BY <1>1, LeavesAtEnd DEF Leaves, Submitting, XQuery, XFetch, XApply, XRecDone, VenueQuiet
  <1>9. CSend(w) \/ XSend(w) => Leaves(w)
    <2>0. calls \in [Orders -> Calls]
      BY DEF IInv, RestInv
    <2>a. CSend(w) => \A o \in Orders : calls'[o].submit = calls[o].submit
      <3>1. CSend(w) => calls' = [calls EXCEPT ![ctx[w].o].cancel = @ + 1]
        BY DEF CSend
      <3> QED
        BY <3>1, <2>0 DEF Calls
    <2>b. XSend(w) => \A o \in Orders : calls'[o].submit = calls[o].submit
      <3>1. XSend(w) => calls' = [calls EXCEPT ![ctx[w].o].expire = @ + 1]
        BY DEF XSend
      <3> QED
        BY <3>1, <2>0 DEF Calls
    <2>1. CSend(w) \/ XSend(w) => \A o \in Orders : calls'[o].submit = calls[o].submit
      BY <2>a, <2>b
    <2>2. CSend(w) \/ XSend(w) => pc'[w] \notin Submitting
      BY LeavesAtEnd DEF CSend, XSend, CancelAnswered, Submitting
    <2> QED
      BY <2>1, <2>2 DEF Leaves
  <1> QED
    BY <1>2, <1>3, <1>4, <1>5, <1>6, <1>7, <1>8, <1>9 DEF WorkerCalls

\* Alone, every step keeps the invariant.
LEMMA NextAlone ==
    ASSUME NEW u, Workers = {u}, IInv, EInv, AloneInv, [Next]_vars
    PROVE  AloneInv'
  <1>0. /\ \A o \in Orders : calls[o].submit \in Nat
        /\ \A o \in Orders : ~Dispatched(db[o]) => calls[o].submit = 0
    BY DEF IInv, RestInv, Calls, EInv, CallsClaimed
  <1>1. Leaves(u) => AloneInv'
    BY DEF Leaves, AloneInv, Submitting
  <1>2. ASSUME Claim(u) PROVE AloneInv'
    <2>1. ctx[u].o \in Orders /\ db[ctx[u].o].dis.st = "prepared" /\ calls' = calls
      BY <1>2, AtHand DEF Claim, AloneInv, OrderSteps, Steps, VenueQuiet
    <2>2. CASE Raise(u)
      BY <1>1, <2>1, <2>2, LeavesAtEnd DEF Leaves, Submitting
    <2>3. CASE Goto(u, "send", [ctx[u] EXCEPT !.tok = TRUE])
      <3>1. pc'[u] = "send" /\ ctx'[u].o = ctx[u].o
        BY <2>3 DEF Goto, IInv, CtxInv, CtxFine, Contexts
      <3>2. calls[ctx[u].o].submit = 0
        BY <1>0, <2>1 DEF Dispatched
      <3> QED
        BY <2>1, <3>1, <3>2 DEF AloneInv
    <2>4. ~(db[ctx[u].o].dis.st \in {"acknowledged", "explicitly_rejected", "recovered"})
      BY <2>1
    <2> QED
      BY <1>2, <2>2, <2>3, <2>4 DEF Claim
  <1>3. ASSUME Send(u) PROVE AloneInv'
    <2>1. ctx[u].o \in Orders /\ calls[ctx[u].o].submit = 0
      BY <1>3, AtHand DEF Send, AloneInv, OrderSteps, Steps
    <2>2. calls' = [calls EXCEPT ![ctx[u].o].submit = @ + 1]
      BY <1>3 DEF Send
    <2>3. \A o \in Orders : calls'[o].submit <= 1
      BY <1>0, <2>1, <2>2 DEF AloneInv, IInv, RestInv, Calls
    <2>4. pc'[u] \notin Submitting
      BY <1>3, LeavesAtEnd DEF Send, Submitting
    <2> QED
      BY <2>3, <2>4 DEF AloneInv, Submitting
  <1>4. ASSUME NEW o \in Orders, NEW c, NEW step, Goto(u, step, c), c.o = o, calls' = calls,
               step # "send", step = "claim" => db'[o].dis.st = "prepared"
        PROVE  AloneInv'
    <2>1. pc'[u] = step /\ ctx'[u] = c
      BY <1>4 DEF Goto, IInv, CtxInv
    <2> QED
      BY <1>4, <2>1 DEF AloneInv
  <1>5. \A o, job, suspect : /\ [Rest EXCEPT !.o = o, !.job = job].o = o
                             /\ [Rest EXCEPT !.o = o, !.job = job, !.suspect = suspect].o = o
    BY DEF Rest
  <1>6. ASSUME NEW o \in Orders, NEW job, NEW step, Start(u, o, job, step), calls' = calls,
               step # "send", step = "claim" => db'[o].dis.st = "prepared"
        PROVE  AloneInv'
    <2> DEFINE c == [Rest EXCEPT !.o = o, !.job = job]
    <2>1. c.o = o /\ Goto(u, step, c)
      BY <1>5, <1>6 DEF Start
    <2> HIDE DEF c
    <2> QED
      BY <1>4, <1>6, <2>1
  <1>7. ASSUME NEW o \in Orders, PrepareNew(u, o) PROVE AloneInv'
    <2>1. calls' = calls /\ pc[u] = "idle"
      BY <1>7 DEF PrepareNew, VenueQuiet
    <2>2. CASE UNCHANGED <<pc, ctx>>
      BY <2>1, <2>2 DEF AloneInv
    <2>3. CASE db' = [db EXCEPT ![o] = Enqueued] /\ Start(u, o, "submit", "claim")
      <3>1. Enqueued.dis.st = "prepared"
        BY DEF Enqueued, NoRow, NoBox
      <3>2. db'[o] = Enqueued
        BY <2>3 DEF IInv, DbInv
      <3> QED
        BY <1>6, <2>1, <2>3, <3>1, <3>2
    <2> QED
      BY <1>7, <2>2, <2>3 DEF PrepareNew
  <1>8. ASSUME NEW o \in Orders, PrepareReplay(u, o) PROVE AloneInv'
    <2>1. ResumeStep(db[o]) # "send" /\ (ResumeStep(db[o]) = "claim" => db[o].dis.st = "prepared")
      BY DEF ResumeStep
    <2>2. db' = db /\ calls' = calls /\ Start(u, o, "submit", ResumeStep(db[o]))
      BY <1>8 DEF PrepareReplay, VenueQuiet
    <2> QED
      BY <1>6, <2>1, <2>2
  <1>9. ASSUME NEW o \in Orders, StartQuery(u, o) \/ StartCancel(u, o) \/ StartExpire(u, o)
        PROVE  AloneInv'
    BY <1>6, <1>9 DEF StartQuery, StartCancel, StartExpire, VenueQuiet
  <1>10. ASSUME NEW o \in Orders, StartRecover(u, o) PROVE AloneInv'
    <2> DEFINE suspect == Incomplete(db[o]) \/ db[o].sub = "pending_recovery"
               c == [Rest EXCEPT !.o = o, !.job = "recover", !.suspect = suspect]
    <2>1. RecoverStep(db[o]) # "send" /\ (RecoverStep(db[o]) = "claim" => db[o].dis.st = "prepared")
      BY DEF RecoverStep, ResumeStep
    <2>2. /\ c.o = o /\ Goto(u, RecoverStep(db[o]), c) /\ db' = db /\ calls' = calls
      BY <1>5, <1>10 DEF StartRecover, NoCommit, VenueQuiet
    <2> HIDE DEF c
    <2> QED
      BY <1>4, <2>1, <2>2
  <1>11. ASSUME StartSync(u) \/ Crash(u) PROVE AloneInv'
    BY <1>1, <1>11, LeavesAtEnd DEF StartSync, Crash, Leaves, Submitting, VenueQuiet
  <1>12. ASSUME UNCHANGED <<pc, calls>>, \A w \in Workers : ctx'[w].o = ctx[w].o,
                \A o \in Orders : db'[o].dis.st = db[o].dis.st
         PROVE  AloneInv'
    <2>1. pc[u] = "claim" => ctx[u].o \in Orders
      BY AtHand DEF OrderSteps, Steps
    <2> QED
      BY <1>12, <2>1 DEF AloneInv
  <1>13. ASSUME NEW o \in Orders, VenueActs(o) PROVE AloneInv'
    BY <1>12, <1>13 DEF VenueActs, Arrive, VenueAcknowledge, VenueReject, VenueFill, ShowFill,
                        CompleteCancel, ExpireIoc, VenueMoves, NoCommit
  <1>14. CASE Tick
    <2>1. \A w \in Workers : ctx'[w].o = ctx[w].o
      BY <1>14 DEF Tick, IInv, CtxInv, CtxFine, Contexts
    <2>2. \A o \in Orders : db'[o].dis.st = db[o].dis.st
      BY <1>14 DEF Tick, RowTick, BoxTick, IInv, DbInv, RowInv, Rows, Boxes
    <2> QED
      BY <1>12, <1>14, <2>1, <2>2 DEF Tick, VenueQuiet
  <1>15. CASE TriggerKill \/ UNCHANGED vars
    BY <1>12, <1>15 DEF TriggerKill, NoCommit, VenueQuiet, vars
  <1>16. ASSUME WorkerCalls(u) PROVE AloneInv'
    BY <1>1, <1>2, <1>3, <1>16, OtherCallsLeave
  <1>17. ASSUME WorkerStarts(u) \/ Crash(u) PROVE AloneInv'
    BY <1>7, <1>8, <1>9, <1>10, <1>11, <1>17 DEF WorkerStarts
  <1> QED
    BY <1>13, <1>14, <1>15, <1>16, <1>17 DEF Next

\* A single worker, however often it crashes and whatever it retries, sends an
\* order to the venue at most once and only after the claim.  (With two workers
\* it need not: see the README.)
THEOREM CallsOfOneWorker ==
    ASSUME NEW u, Workers = {u}
    PROVE  Spec => []CallsSound
  <1>1. Init => AloneInv
    BY DEF Init, AloneInv
  <1>2. IInv /\ EInv /\ AloneInv /\ [Next]_vars => AloneInv'
    BY NextAlone
  <1>3. EInv /\ AloneInv => CallsSound
    BY DEF EInv, CallsClaimed, AloneInv, CallsSound, SubmittedOnce, ClaimedBeforeCall,
           Dispatched, CancelClaimed, ExpiryClaimed
  <1> QED
    BY <1>1, <1>2, <1>3, SpecEInv, PTL DEF Spec
-----------------------------------------------------------------------------
(* Leases.  A claim is taken over only once its lease is over, so a        *)
(* recoverer and the owner never both hold a claimed row.                  *)

LeaseFine(b) == b.rowner # Nobody =>
    /\ b.st \notin {"none", "prepared", "requested"}
    /\ b.st = "claimed" => b.lease <= 0
RowLeased(row) == LeaseFine(row.dis) /\ LeaseFine(row.can) /\ LeaseFine(row.exp)
LeasesFine == \A o \in Orders : RowLeased(db[o])

\* A leased claim is left by one of `who` only.
GivenUp(b, c) == b.st = "claimed" /\ b.lease > 0 /\ c.st # "claimed"
Respects(b, c, who) == LeaseFine(c) /\ (GivenUp(b, c) => b.owner \in who)
RowRespects(r, s, who) == /\ Respects(r.dis, s.dis, who)
                          /\ Respects(r.can, s.can, who)
                          /\ Respects(r.exp, s.exp, who)
SameOutboxes(r, s) == s.dis = r.dis /\ s.can = r.can /\ s.exp = r.exp

\* A row whose outboxes nobody touches.
LEMMA SameRespects ==
    ASSUME NEW r, RowLeased(r), NEW s, SameOutboxes(r, s), NEW who
    PROVE  RowRespects(r, s, who)
  BY DEF RowLeased, SameOutboxes, RowRespects, Respects, GivenUp

\* Closing the budget leaves the outboxes alone.
LEMMA SettledOutboxes ==
    ASSUME NEW row \in Rows, NEW st
    PROVE  SameOutboxes(row, Settled(row, st))
  <1> DEFINE how == IF st = "filled" THEN "consumed" ELSE "released"
             r == Released(row, how)
  <1>1. r \in [sub : SubStates, counted : BOOLEAN, res : {"none", "open", "consumed", "released"},
               resQty : Nat, fills : SUBSET Nat, filled : Nat, dis : Boxes, can : Boxes,
               exp : Boxes, proj : Projections, obs : SUBSET Snapshots, ords : SUBSET Snapshots]
    BY DEF Released, Rows
  <1>2. SameOutboxes(row, r)
    BY DEF Released, Rows, SameOutboxes
  <1>3. Settled(row, st) = [r EXCEPT !.counted = FALSE]
    BY DEF Settled, Closed
  <1> HIDE DEF r
  <1> QED
    BY <1>1, <1>2, <1>3 DEF SameOutboxes

\* So does an observation.
LEMMA ObserveOutboxes ==
    ASSUME NEW row \in Rows, NEW ord \in Snapshots
    PROVE  SameOutboxes(row, Observe(row, ord))
  <1> DEFINE p == Projected(row, ord)
  <1>1. p \in Rows /\ SameOutboxes(row, p)
    <2>1. /\ ord.seq \in Nat /\ ord.cum \in Nat /\ Authority(row, ord) \in SubStates
          /\ Disposition(row, ord) \in Terminal \cup {"active"} /\ Canonical(row, ord) \in Snapshots
          /\ ord.st \in OrderStates
      BY AuthorityFinal DEF Snapshots
    <2>2. [on |-> TRUE, seq |-> ord.seq, cum |-> ord.cum, observed |-> ord.st,
           disp |-> Disposition(row, ord), auth |-> Authority(row, ord),
           complete |-> FillComplete(row, ord.cum)] \in Projections
      BY <2>1 DEF Projections, FillComplete
    <2>3. row.obs \cup {ord} \in SUBSET Snapshots
          /\ row.ords \cup {Canonical(row, ord)} \in SUBSET Snapshots
      BY <2>1 DEF Rows
    <2> QED
      BY <2>1, <2>2, <2>3 DEF Projected, Rows, SameOutboxes
  <1> HIDE DEF p
  <1>2. SameOutboxes(p, Closed(p))
    BY <1>1 DEF Closed, Rows, SameOutboxes
  <1>3. \A st : SameOutboxes(p, Settled(p, st))
    BY <1>1, SettledOutboxes
  <1> QED
    BY <1>1, <1>2, <1>3 DEF Observe, p, SameOutboxes

\* So does a booking.
LEMMA PersistFillOutboxes ==
    ASSUME NEW row \in Rows, NEW i \in Nat, NEW f \in Fills, NEW vo \in Snapshots,
           PersistFillOK(row, i, f, vo)
    PROVE  /\ PersistFill(row, i, f, vo) \in Rows
           /\ SameOutboxes(row, PersistFill(row, i, f, vo))
  <1> DEFINE b == Booked(row, i, f)
             ord == BookedOrder(row, f, vo)
             r == [row EXCEPT !.fills = row.fills \cup {i}, !.filled = row.filled + f.qty]
  <1>1. f.qty \in Nat /\ f.seq \in Nat /\ vo.seq \in Nat /\ row.filled \in Nat /\ row.resQty \in Nat
    BY DEF Rows, Fills, Snapshots
  <1>2. ord \in Snapshots
    BY <1>1 DEF BookedOrder, Snapshots, OrderStates, Open, Terminal
  <1>3. r \in Rows /\ SameOutboxes(row, r)
    <2>1. row.fills \cup {i} \in SUBSET Nat /\ row.filled + f.qty \in Nat
      BY <1>1 DEF Rows
    <2> QED
      BY <2>1 DEF Rows, SameOutboxes
  <1> HIDE DEF r, ord
  <1>4. b \in Rows /\ SameOutboxes(row, b)
    <2>1. CASE row.res # "open"
      <3>1. b = r
        BY <2>1 DEF Booked, r
      <3> QED
        BY <1>3, <3>1
    <2>2. CASE row.res = "open"
      <3> DEFINE res == IF row.resQty = f.qty THEN "consumed" ELSE "open"
                 left == row.resQty - f.qty
      <3>1. left \in Nat /\ res \in {"consumed", "open"}
        BY <1>1, <2>2 DEF PersistFillOK
      <3>2. b = [r EXCEPT !.resQty = left, !.res = res]
        BY <2>2 DEF Booked, r
      <3> HIDE DEF res, left, b
      <3> QED
        BY <1>3, <3>1, <3>2 DEF Rows, SameOutboxes
    <2> QED
      BY <2>1, <2>2
  <1> HIDE DEF b
  <1>5. Observe(b, ord) \in Rows /\ SameOutboxes(b, Observe(b, ord))
    BY <1>2, <1>4, ObservedRow, ObserveOutboxes
  <1>6. PersistFill(row, i, f, vo) = Observe(b, ord)
    BY DEF PersistFill, b, ord
  <1> QED
    BY <1>4, <1>5, <1>6 DEF SameOutboxes

\* And so does a synchronisation, with or without the recovery bundle.
LEMMA SyncFillsOutboxes ==
    ASSUME NEW row \in Rows, NEW fs \in Seq(Fills), NEW n \in 0 .. Len(fs),
           NEW vo \in Snapshots \cup {NoSnapshot}, SyncFillsOK(row, fs, n, vo)
    PROVE  /\ SyncFills(row, fs, n, vo) \in Rows
           /\ SameOutboxes(row, SyncFills(row, fs, n, vo))
  <1> DEFINE b == BookedUpto(row, fs, n, vo)
             Has == {k \in Nat : b[k] \in Rows /\ SameOutboxes(row, b[k])}
  <1>1. n \in Nat /\ \A k \in 1 .. n : fs[k] \in Fills /\ k \in Nat
    OBVIOUS
  <1>2. CASE Nothing(vo)
    BY <1>2 DEF SyncFills, SameOutboxes
  <1>3. CASE ~Nothing(vo)
    <2>1. vo \in Snapshots
      BY <1>3 DEF Nothing
    <2>2. SyncFills(row, fs, n, vo) = b[n] /\ BookedInTurn(row, fs, n, vo, b)
      BY <1>1, <1>3, SyncFillsSteps
    <2> HIDE DEF b
    <2>3. 0 \in Has
      BY <2>2 DEF BookedInTurn, SameOutboxes
    <2>4. ASSUME NEW k \in 1 .. n, k - 1 \in Has PROVE k \in Has
      <3> DEFINE r == b[k - 1]
      <3>1. r \in Rows /\ SameOutboxes(row, r) /\ k \in Nat
        BY <1>1, <2>4
      <3>2. CASE k \notin Missing(row, n)
        BY <2>2, <3>1, <3>2 DEF BookedInTurn
      <3>3. CASE k \in Missing(row, n)
        <4>1. b[k] = PersistFill(r, k, fs[k], vo) /\ PersistFillOK(r, k, fs[k], vo)
          BY <2>2, <3>3 DEF BookedInTurn
        <4> HIDE DEF r
        <4>2. b[k] \in Rows /\ SameOutboxes(r, b[k])
          BY <1>1, <2>1, <3>1, <4>1, PersistFillOutboxes
        <4> QED
          BY <3>1, <4>2 DEF SameOutboxes
      <3> QED
        BY <3>2, <3>3
    <2> HIDE DEF Has
    <2>5. n \in Has
      BY <1>1, <2>3, <2>4, BookedInduct
    <2> QED
      BY <2>2, <2>5 DEF Has
  <1> QED
    BY <1>2, <1>3
\* Claims, and what is written without an answer of the venue.
LEMMA BoxesRespect ==
    ASSUME NEW row \in Rows, RowLeased(row), NEW w \in Workers, NEW age \in 0 .. MaxAge, NEW who
    PROVE  /\ ClaimDispatchOK(row) => RowRespects(row, ClaimDispatch(row, w, age), who)
           /\ Recoverable(row.dis, age) => RowRespects(row, ClaimDispatchRecovery(row, w, age), who)
           /\ ClaimCancelOK(row) => RowRespects(row, ClaimCancel(row, w, age), who)
           /\ Recoverable(row.can, age) => RowRespects(row, ClaimCancelRecovery(row, w, age), who)
           /\ ClaimExpiryOK(row) => RowRespects(row, ClaimExpiry(row, w, age), who)
           /\ Recoverable(row.exp, age) => RowRespects(row, ClaimExpiryRecovery(row, w, age), who)
           /\ RowRespects(row, PrepareCancel(row), who)
           /\ PrepareExpiryOK(row) => RowRespects(row, PrepareExpiry(row), who)
  <1>1. /\ row.dis \in Boxes /\ row.can \in Boxes /\ row.exp \in Boxes
        /\ Lease \in Nat /\ MaxAge \in Nat /\ age \in Nat
        /\ w # Nobody
    BY LeaseAssumption, WorkersAssumption DEF Rows
  <1>2. \A b \in Boxes : Respects(b, b, who) \/ ~LeaseFine(b)
    BY DEF Respects, GivenUp
  <1>3. ASSUME NEW b \in Boxes, LeaseFine(b)
        PROVE  /\ b.st \in {"none", "prepared", "requested"} => Respects(b, Claimed(b, w, age), who)
               /\ Recoverable(b, age) => Respects(b, RecoveryClaimed(b, w, age), who)
               /\ b.st \in {"none", "requested"} => Respects(b, [b EXCEPT !.st = "requested"], who)
    <2>1. b.st \in {"none", "prepared", "requested"} => Respects(b, Claimed(b, w, age), who)
      BY <1>1, <1>3 DEF LeaseFine, Claimed, Boxes, Respects, GivenUp
    <2>2. Recoverable(b, age) => Respects(b, RecoveryClaimed(b, w, age), who)
      <3>1. Recoverable(b, age) /\ b.st = "claimed" => b.lease <= 0
        BY <1>1 DEF Recoverable, Boxes, Ticks
      <3> QED
        BY <1>1, <3>1 DEF LeaseFine, Recoverable, Ambiguous, RecoveryClaimed, Boxes, Respects, GivenUp
    <2>3. b.st \in {"none", "requested"} => Respects(b, [b EXCEPT !.st = "requested"], who)
      BY <1>3 DEF LeaseFine, Boxes, Respects, GivenUp
    <2> QED
      BY <2>1, <2>2, <2>3
  <1>4. LeaseFine(row.dis) /\ LeaseFine(row.can) /\ LeaseFine(row.exp)
    BY DEF RowLeased
  <1>5. /\ ClaimDispatchOK(row) => RowRespects(row, ClaimDispatch(row, w, age), who)
        /\ Recoverable(row.dis, age) => RowRespects(row, ClaimDispatchRecovery(row, w, age), who)
    BY <1>1, <1>2, <1>3, <1>4 DEF ClaimDispatchOK, ClaimDispatch, ClaimDispatchRecovery, Rows,
           RowRespects
  <1>6. /\ ClaimCancelOK(row) => RowRespects(row, ClaimCancel(row, w, age), who)
        /\ Recoverable(row.can, age) => RowRespects(row, ClaimCancelRecovery(row, w, age), who)
        /\ RowRespects(row, PrepareCancel(row), who)
    BY <1>1, <1>2, <1>3, <1>4 DEF ClaimCancelOK, ClaimCancel, ClaimCancelRecovery, PrepareCancel,
           Rows, RowRespects
  <1>7. /\ ClaimExpiryOK(row) => RowRespects(row, ClaimExpiry(row, w, age), who)
        /\ Recoverable(row.exp, age) => RowRespects(row, ClaimExpiryRecovery(row, w, age), who)
        /\ PrepareExpiryOK(row) => RowRespects(row, PrepareExpiry(row), who)
    BY <1>1, <1>2, <1>3, <1>4 DEF ClaimExpiryOK, ClaimExpiry, ClaimExpiryRecovery, PrepareExpiryOK,
           PrepareExpiry, Rows, RowRespects
  <1> QED
    BY <1>5, <1>6, <1>7

\* Time runs a lease down and gives no claim up.
LEMMA TickRespects ==
    ASSUME NEW row \in Rows, RowLeased(row), NEW who
    PROVE  RowRespects(row, RowTick(row), who)
  <1>1. ASSUME NEW b \in Boxes, LeaseFine(b) PROVE Respects(b, BoxTick(b), who)
    <2>1. b.lease \in Int /\ (b.lease <= 0 => Later(b.lease) <= 0)
      BY LeaseAssumption DEF Later, Boxes, Ticks
    <2>2. BoxTick(b).st = b.st /\ BoxTick(b).lease = Later(b.lease) /\ BoxTick(b).rowner = b.rowner
      BY DEF BoxTick, Boxes
    <2> QED
      BY <1>1, <2>1, <2>2 DEF LeaseFine, Respects, GivenUp
  <1> QED
    BY <1>1 DEF RowTick, Rows, RowRespects, RowLeased

\* What may leave a claim: the owner, or a recoverer once the lease is over.
MayDecide(b, who) == /\ b.st \notin {"none", "prepared", "requested"}
                     /\ b.st = "claimed" /\ b.lease > 0 => b.owner \in who

\* A completion holds the claim; a recovery holds the recovery of a claim whose
\* lease is over.
LEMMA Deciders ==
    ASSUME NEW b \in Boxes, LeaseFine(b), NEW w \in Workers, NEW age
    PROVE  /\ Holds(b, w, age) => MayDecide(b, {w})
           /\ Active(b, w, age) => MayDecide(b, {w})
           /\ HoldsRecovery(b, w, age) => MayDecide(b, {w})
           /\ Ambiguous(b) /\ b.rowner = w => MayDecide(b, {w})
           /\ b.st \in {"claimed", "unknown", "confirmed"} /\ b.owner = w => MayDecide(b, {w})
           /\ b.st = "confirmed" => MayDecide(b, {w})
  <1>1. w # Nobody
    BY WorkersAssumption
  <1>2. b.rowner = w => ~(b.st = "claimed" /\ b.lease > 0)
    <2>1. b.lease \in Int
      BY LeaseAssumption DEF Boxes, Ticks
    <2> QED
      BY <1>1, <2>1 DEF LeaseFine
  <1> QED
    BY <1>1, <1>2 DEF Holds, Active, HoldsRecovery, Ambiguous, MayDecide

\* The outcomes of a dispatch.
LEMMA DispatchesRespect ==
    ASSUME NEW row \in Rows, RowLeased(row), NEW who, MayDecide(row.dis, who)
    PROVE  /\ RowRespects(row, DispatchUnknown(row), who)
           /\ RowRespects(row, Reject(row), who)
           /\ \A ord \in Snapshots : /\ RowRespects(row, Acknowledge(row, ord), who)
                                     /\ RowRespects(row, DispatchRecovered(row, ord), who)
  <1>1. \A st \in BoxStates : Decided(st) \in Boxes /\ Decided(st).st = st /\ LeaseFine(Decided(st))
    <2>1. NoBox \in Boxes /\ NoBox.rowner = Nobody
      BY NoRowInv DEF RowInv, NoRow, Rows, NoBox
    <2> QED
      BY <2>1 DEF Decided, Boxes, LeaseFine
  <1>2. {"acknowledged", "explicitly_rejected", "recovered"} \subseteq BoxStates
    BY DEF BoxStates
  <1>3. LeaseFine(row.dis) /\ LeaseFine(row.can) /\ LeaseFine(row.exp)
    BY DEF RowLeased
  <1>4. ASSUME NEW s, s.can = row.can, s.exp = row.exp, LeaseFine(s.dis)
        PROVE  RowRespects(row, s, who)
    BY <1>3, <1>4 DEF RowRespects, Respects, GivenUp, MayDecide
  <1>5. RowRespects(row, DispatchUnknown(row), who)
    <2>1. LeaseFine(DispatchUnknown(row).dis)
      BY <1>3 DEF DispatchUnknown, Rows, Boxes, LeaseFine
    <2>2. DispatchUnknown(row).can = row.can /\ DispatchUnknown(row).exp = row.exp
      BY DEF DispatchUnknown, Rows
    <2> QED
      BY <1>4, <2>1, <2>2
  <1>6. \A ord \in Snapshots : RowRespects(row, Acknowledge(row, ord), who)
    <2> TAKE ord \in Snapshots
    <2>1. /\ Acknowledge(row, ord).dis = Decided("acknowledged")
          /\ Acknowledge(row, ord).can = row.can /\ Acknowledge(row, ord).exp = row.exp
      BY DEF Acknowledge, Rows
    <2> QED
      BY <1>1, <1>2, <1>4, <2>1
  <1>7. ASSUME NEW sub \in SubStates, NEW ords \in SUBSET Snapshots,
               NEW st \in {"explicitly_rejected", "recovered"}, NEW how, NEW settled \in BOOLEAN
        PROVE  LET r == [row EXCEPT !.dis = Decided(st), !.sub = sub, !.ords = ords] IN
                   RowRespects(row, IF settled THEN Settled(r, how) ELSE r, who)
    <2> DEFINE r == [row EXCEPT !.dis = Decided(st), !.sub = sub, !.ords = ords]
    <2>1. r \in Rows /\ r.dis = Decided(st) /\ r.can = row.can /\ r.exp = row.exp
      BY <1>1, <1>2 DEF Rows
    <2>2. LeaseFine(Decided(st))
      BY <1>1, <1>2
    <2> HIDE DEF r
    <2>3. SameOutboxes(r, Settled(r, how))
      BY <2>1, SettledOutboxes
    <2>4. RowRespects(row, r, who) /\ RowRespects(row, Settled(r, how), who)
      BY <1>4, <2>1, <2>2, <2>3 DEF SameOutboxes
    <2> QED
      BY <2>4 DEF r
  <1>8. RowRespects(row, Reject(row), who)
    <2>1. "rejected" \in SubStates /\ row.ords \in SUBSET Snapshots
      BY DEF SubStates, Rows
    <2>2. Reject(row) = Settled([row EXCEPT !.dis = Decided("explicitly_rejected"),
                                            !.sub = "rejected", !.ords = row.ords], "rejected")
      BY DEF Reject, Rows
    <2> QED
      BY <1>7, <2>1, <2>2
  <1>9. \A ord \in Snapshots : RowRespects(row, DispatchRecovered(row, ord), who)
    <2> TAKE ord \in Snapshots
    <2>1. StateOf(row, ord) \in SubStates /\ row.ords \cup {ord} \in SUBSET Snapshots
      BY DEF StateOf, SubmissionState, SubStates, Snapshots, OrderStates, Open, Terminal, Rows
    <2>2. DispatchRecovered(row, ord) =
             LET r == [row EXCEPT !.dis = Decided("recovered"), !.sub = StateOf(row, ord),
                                  !.ords = row.ords \cup {ord}]
             IN  IF ord.st \in Terminal /\ FillComplete(row, ord.cum) THEN Settled(r, ord.st) ELSE r
      BY DEF DispatchRecovered
    <2> QED
      BY <1>7, <2>1, <2>2
  <1> QED
    BY <1>5, <1>6, <1>8, <1>9

\* The outcomes of a cancellation and of an expiry.
LEMMA OutcomesRespect ==
    ASSUME NEW row \in Rows, RowLeased(row), NEW who, NEW ord \in Snapshots \cup {NoSnapshot}
    PROVE  /\ MayDecide(row.can, who) => /\ RowRespects(row, CancelUnknown(row), who)
                                         /\ RowRespects(row, CancelOutcome(row, ord), who)
           /\ MayDecide(row.exp, who) => /\ RowRespects(row, ExpiryUnknown(row), who)
                                         /\ RowRespects(row, ExpiryOutcome(row, ord), who)
  <1>1. LeaseFine(row.dis) /\ LeaseFine(row.can) /\ LeaseFine(row.exp)
    BY DEF RowLeased
  <1>2. ASSUME MayDecide(row.can, who), NEW s, s.dis = row.dis, s.exp = row.exp, LeaseFine(s.can)
        PROVE  RowRespects(row, s, who)
    BY <1>1, <1>2 DEF RowRespects, Respects, GivenUp, MayDecide
  <1>3. ASSUME MayDecide(row.exp, who), NEW s, s.dis = row.dis, s.can = row.can, LeaseFine(s.exp)
        PROVE  RowRespects(row, s, who)
    BY <1>1, <1>3 DEF RowRespects, Respects, GivenUp, MayDecide
  <1>4. ASSUME MayDecide(row.can, who) PROVE RowRespects(row, CancelUnknown(row), who)
    <2>1. /\ LeaseFine(CancelUnknown(row).can)
          /\ CancelUnknown(row).dis = row.dis /\ CancelUnknown(row).exp = row.exp
      BY <1>1 DEF CancelUnknown, Rows, Boxes, LeaseFine
    <2> QED
      BY <1>2, <1>4, <2>1
  <1>5. ASSUME MayDecide(row.exp, who) PROVE RowRespects(row, ExpiryUnknown(row), who)
    <2>1. /\ LeaseFine(ExpiryUnknown(row).exp)
          /\ ExpiryUnknown(row).dis = row.dis /\ ExpiryUnknown(row).can = row.can
      BY <1>1 DEF ExpiryUnknown, Rows, Boxes, LeaseFine
    <2> QED
      BY <1>3, <1>5, <2>1
  <1>6. CASE ord.st \notin Terminal
    BY <1>4, <1>5, <1>6 DEF CancelOutcome, ExpiryOutcome
  <1>7. CASE ord.st \in Terminal
    <2> DEFINE s == Observe(row, ord)
    <2>1. ord \in Snapshots
      BY <1>7 DEF NoSnapshot, Terminal
    <2>2. s \in Rows /\ SameOutboxes(row, s)
      BY <2>1, ObservedRow, ObserveOutboxes
    <2> HIDE DEF s
    <2>3. ASSUME MayDecide(row.can, who) PROVE RowRespects(row, CancelOutcome(row, ord), who)
      <3> DEFINE t == IF ord.st = "cancelled" THEN "confirmed" ELSE "superseded"
                 box == [Decided(t) EXCEPT !.owner = row.can.owner]
                 c == [s EXCEPT !.can = box]
      <3>1. CancelOutcome(row, ord) = c
        BY <1>7 DEF CancelOutcome, CancelDone, s
      <3>2. LeaseFine(box)
        BY DEF Decided, NoBox, LeaseFine
      <3> HIDE DEF box, t
      <3>3. c.dis = row.dis /\ c.exp = row.exp /\ LeaseFine(c.can)
        BY <2>2, <3>2 DEF Rows, SameOutboxes
      <3> QED
        BY <1>2, <2>3, <3>1, <3>3
    <2>4. ASSUME MayDecide(row.exp, who) PROVE RowRespects(row, ExpiryOutcome(row, ord), who)
      <3> DEFINE c == [s EXCEPT !.exp.st = "confirmed"]
      <3>1. ExpiryOutcome(row, ord) = c
        BY <1>7 DEF ExpiryOutcome, s
      <3>2. c.dis = row.dis /\ c.can = row.can /\ LeaseFine(c.exp)
        BY <1>1, <2>2 DEF Rows, Boxes, SameOutboxes, LeaseFine
      <3> QED
        BY <1>3, <2>4, <3>1, <3>2
    <2> QED
      BY <1>4, <1>5, <2>3, <2>4
  <1> QED
    BY <1>6, <1>7
Respected(who) == \A o \in Orders : RowRespects(db[o], db'[o], who)

\* No transaction gives no claim up.
LEMMA QuietRespects == ASSUME LeasesFine, UNCHANGED db, NEW who PROVE Respected(who)
  BY SameRespects DEF LeasesFine, Respected, SameOutboxes

\* A commit writes the row of one order.
LEMMA CommitRespects ==
    ASSUME IInv, LeasesFine, NEW w, NEW o \in Orders, NEW r, NEW own, NEW who,
           RowRespects(db[o], r, who), Commit(w, o, r, own)
    PROVE  Respected(who)
  <1>1. \A p \in Orders : db'[p] = IF p = o THEN r ELSE db[p]
    BY DEF Commit, IInv, DbInv
  <1>2. \A p \in Orders : RowRespects(db[p], db[p], who)
    BY SameRespects DEF LeasesFine, SameOutboxes
  <1> QED
    BY <1>1, <1>2 DEF Respected

\* What a worker in the middle of an order's call has at hand of its row.
LEMMA LeaseInHand ==
    ASSUME IInv, EInv, LeasesFine, NEW w \in Workers, pc[w] \in OrderSteps
    PROVE  /\ ctx[w].o \in Orders /\ db[ctx[w].o] \in Rows /\ RowLeased(db[ctx[w].o])
           /\ db[ctx[w].o].dis \in Boxes /\ db[ctx[w].o].can \in Boxes /\ db[ctx[w].o].exp \in Boxes
           /\ LeaseFine(db[ctx[w].o].dis) /\ LeaseFine(db[ctx[w].o].can)
           /\ LeaseFine(db[ctx[w].o].exp)
           /\ ctx[w].age \in 0 .. MaxAge
           /\ ctx[w].seen \in Snapshots \cup {NoSnapshot}
           /\ pc[w] \in SeenSteps => ctx[w].seen \in Snapshots
  <1>1. ctx[w].o \in Orders /\ db[ctx[w].o] \in Rows
    BY InHand DEF Good, RowGood, RowInv
  <1>2. ctx[w].age \in 0 .. MaxAge
    BY DEF IInv, CtxInv, CtxFine, Contexts
  <1> QED
    BY <1>1, <1>2, InHand DEF LeasesFine, RowLeased, Rows

\* Claiming, sending and deciding a dispatch.
LEMMA SubmitRespects ==
    ASSUME IInv, EInv, LeasesFine, NEW w \in Workers
    PROVE  Claim(w) \/ Ack(w) \/ Note(w) \/ MarkUnknown(w) \/ MarkRejected(w) => Respected({w})
  <1> DEFINE o == ctx[w].o
             row == db[ctx[w].o]
             seen == ctx[w].seen
  <1>1. ASSUME pc[w] \in OrderSteps
        PROVE  /\ o \in Orders
               /\ ClaimDispatchOK(row) => RowRespects(row, ClaimDispatch(row, w, 0), {w})
               /\ Holds(row.dis, w, 0) => /\ RowRespects(row, DispatchUnknown(row), {w})
                                          /\ RowRespects(row, Reject(row), {w})
               /\ Holds(row.dis, w, 0) /\ pc[w] \in SeenSteps
                    => RowRespects(row, Acknowledge(row, seen), {w})
               /\ pc[w] \in SeenSteps => RowRespects(row, Observe(row, seen), {w})
    <2>1. ClaimDispatchOK(row) => RowRespects(row, ClaimDispatch(row, w, 0), {w})
      <3>1. 0 \in 0 .. MaxAge
        BY LeaseAssumption
      <3> QED
        BY <1>1, <3>1, LeaseInHand, BoxesRespect
    <2>2. Holds(row.dis, w, 0) => MayDecide(row.dis, {w})
      BY <1>1, LeaseInHand, Deciders
    <2>3. pc[w] \in SeenSteps => RowRespects(row, Observe(row, seen), {w})
      BY <1>1, LeaseInHand, ObserveOutboxes, SameRespects
    <2> QED
      BY <1>1, <2>1, <2>2, <2>3, LeaseInHand, DispatchesRespect
  <1>2. Claim(w) => Respected({w})
    <2> SUFFICES ASSUME Claim(w) PROVE Respected({w})
      OBVIOUS
    <2>1. pc[w] \in OrderSteps
      BY DEF Claim, OrderSteps, Steps
    <2> QED
      BY <1>1, <2>1, CommitRespects, QuietRespects DEF Claim, NoCommit
  <1>3. Ack(w) \/ Note(w) => Respected({w})
    <2> SUFFICES ASSUME Ack(w) \/ Note(w) PROVE Respected({w})
      OBVIOUS
    <2>1. pc[w] \in OrderSteps /\ pc[w] \in SeenSteps
      BY DEF Ack, Note, OrderSteps, Steps, SeenSteps
    <2> QED
      BY <1>1, <2>1, CommitRespects, QuietRespects DEF Ack, Note, NoCommit, AcknowledgeOK
  <1>4. MarkUnknown(w) \/ MarkRejected(w) => Respected({w})
    <2> SUFFICES ASSUME MarkUnknown(w) \/ MarkRejected(w) PROVE Respected({w})
      OBVIOUS
    <2>1. pc[w] \in OrderSteps
      BY DEF MarkUnknown, MarkRejected, OrderSteps, Steps
    <2> QED
      BY <1>1, <2>1, CommitRespects, QuietRespects DEF MarkUnknown, MarkRejected, NoCommit, RejectOK
  <1> QED
    BY <1>2, <1>3, <1>4

\* A synchronised order, and with the recovery bundle its observation.
LEMMA BundleRespects ==
    ASSUME NEW o \in Orders, Good(o), RowLeased(db[o]), NEW n \in 0 .. Len(venue[o].fills),
           NEW ord \in Snapshots \cup {NoSnapshot}, NEW w, NEW who
    PROVE  /\ SyncOK(w, o, n, ord) => RowRespects(db[o], Synced(o, n, ord), who)
           /\ BundleOK(w, o, n, ord) => RowRespects(db[o], Bundled(o, n, ord), who)
  <1> DEFINE s == Synced(o, n, ord)
  <1>1. db[o] \in Rows /\ venue[o].fills \in Seq(Fills)
    BY DEF Good, RowGood, RowInv, VenueGood, VenueFine, VenueOrders
  <1>2. SyncOK(w, o, n, ord) => s \in Rows /\ SameOutboxes(db[o], s)
    BY <1>1, SyncFillsOutboxes DEF SyncOK, Synced
  <1> HIDE DEF s
  <1>3. SyncOK(w, o, n, ord) => RowRespects(db[o], s, who)
    BY <1>2, SameRespects
  <1>4. BundleOK(w, o, n, ord) => SameOutboxes(db[o], Bundled(o, n, ord))
    <2> SUFFICES ASSUME BundleOK(w, o, n, ord) PROVE SameOutboxes(db[o], Bundled(o, n, ord))
      OBVIOUS
    <2>1. s \in Rows /\ SameOutboxes(db[o], s)
      BY <1>2 DEF BundleOK
    <2>2. ~Nothing(ord) => SameOutboxes(s, Observe(s, ord))
      BY <2>1, ObserveOutboxes DEF Nothing
    <2>3. Bundled(o, n, ord) = IF Nothing(ord) THEN s ELSE Observe(s, ord)
      BY DEF Bundled, s
    <2> QED
      BY <2>1, <2>2, <2>3 DEF SameOutboxes
  <1> QED
    BY <1>3, <1>4, SameRespects DEF s

\* Applying a query's evidence, and recovering the dispatch and the cancellation.
LEMMA QueryRespects ==
    ASSUME IInv, EInv, LeasesFine, NEW w \in Workers
    PROVE  /\ Apply(w) \/ QueryDispatch(w) \/ RecoverDispatch(w) => Respected({w})
           /\ QueryCancel(w) \/ RecoverCancel(w) => Respected({w})
  <1> DEFINE o == ctx[w].o
             row == db[ctx[w].o]
             seen == ctx[w].seen
             age == ctx[w].age
  <1>1. Apply(w) => Respected({w})
    <2> SUFFICES ASSUME Apply(w) PROVE Respected({w})
      OBVIOUS
    <2> DEFINE n == ctx[w].got[ctx[w].o]
    <2>1. pc[w] \in OrderSteps /\ pc[w] \in SeenSteps
      BY DEF Apply, OrderSteps, Steps, SeenSteps
    <2>2. /\ BundleOK(w, o, n, seen) => RowRespects(row, Bundled(o, n, seen), {w})
          /\ RowRespects(row, Observe(row, seen), {w})
      BY <2>1, InHand, LeaseInHand, BundleRespects, ObserveOutboxes, SameRespects
    <2> QED
      BY <2>1, <2>2, LeaseInHand, CommitRespects, QuietRespects DEF Apply, NoCommit
  <1>2. ASSUME pc[w] \in OrderSteps
        PROVE  /\ o \in Orders
               /\ Active(row.dis, w, age) \/ HoldsRecovery(row.dis, w, age) =>
                     /\ RowRespects(row, DispatchUnknown(row), {w})
                     /\ ~Nothing(seen) => RowRespects(row, DispatchRecovered(row, seen), {w})
               /\ Recoverable(row.dis, age) => RowRespects(row, ClaimDispatchRecovery(row, w, age), {w})
               /\ Recoverable(row.can, age) => RowRespects(row, ClaimCancelRecovery(row, w, age), {w})
               /\ Active(row.can, w, age) \/ HoldsRecovery(row.can, w, age) =>
                     RowRespects(row, CancelOutcome(row, seen), {w})
    <2>1. /\ Active(row.dis, w, age) \/ HoldsRecovery(row.dis, w, age) => MayDecide(row.dis, {w})
          /\ Active(row.can, w, age) \/ HoldsRecovery(row.can, w, age) => MayDecide(row.can, {w})
      BY <1>2, LeaseInHand, Deciders
    <2>2. ~Nothing(seen) => seen \in Snapshots
      BY <1>2, LeaseInHand DEF Nothing
    <2> QED
      BY <1>2, <2>1, <2>2, LeaseInHand, BoxesRespect, DispatchesRespect, OutcomesRespect
  <1>3. QueryDispatch(w) => Respected({w})
    <2> SUFFICES ASSUME QueryDispatch(w) PROVE Respected({w})
      OBVIOUS
    <2>1. pc[w] \in OrderSteps
      BY DEF QueryDispatch, OrderSteps, Steps
    <2> QED
      BY <1>2, <2>1, CommitRespects, QuietRespects DEF QueryDispatch, NoCommit
  <1>4. RecoverDispatch(w) => Respected({w})
    <2> SUFFICES ASSUME RecoverDispatch(w) PROVE Respected({w})
      OBVIOUS
    <2>1. pc[w] \in OrderSteps
      BY DEF RecoverDispatch, OrderSteps, Steps
    <2> QED
      BY <1>2, <2>1, CommitRespects, QuietRespects DEF RecoverDispatch, NoCommit
  <1>5. QueryCancel(w) => Respected({w})
    <2> SUFFICES ASSUME QueryCancel(w) PROVE Respected({w})
      OBVIOUS
    <2>1. pc[w] \in OrderSteps
      BY DEF QueryCancel, OrderSteps, Steps
    <2> QED
      BY <1>2, <2>1, CommitRespects, QuietRespects DEF QueryCancel, NoCommit
  <1>6. RecoverCancel(w) => Respected({w})
    <2> SUFFICES ASSUME RecoverCancel(w) PROVE Respected({w})
      OBVIOUS
    <2>1. pc[w] \in OrderSteps
      BY DEF RecoverCancel, OrderSteps, Steps
    <2> QED
      BY <1>2, <2>1, CommitRespects, QuietRespects DEF RecoverCancel, NoCommit
  <1> QED
    BY <1>1, <1>3, <1>4, <1>5, <1>6

\* sync_fills touches no outbox.
LEMMA SyncRespects ==
    ASSUME IInv, EInv, LeasesFine, NEW w \in Workers, SyncApply(w), NEW who
    PROVE  Respected(who)
  <1> DEFINE got == ctx[w].got
             synced == [o \in Orders |-> Synced(o, got[o], Snapshot(venue[o]))]
  <1>1. CASE UNCHANGED <<db, openCount>>
    BY <1>1, QuietRespects
  <1>2. CASE (\A o \in Orders : SyncOK(w, o, got[o], Snapshot(venue[o]))) /\ db' = synced
    <2>1. ASSUME NEW o \in Orders PROVE RowRespects(db[o], synced[o], who)
      <3>1. Good(o) /\ venue[o] \in VenueOrders /\ Len(venue[o].fills) \in Nat /\ RowLeased(db[o])
        BY OrderGood DEF Good, VenueGood, VenueFine, VenueOrders, LeasesFine
      <3>2. got[o] \in 0 .. Len(venue[o].fills)
        BY <3>1 DEF IInv, CtxInv, CtxFine, Contexts
      <3>3. Snapshot(venue[o]) \in Snapshots \cup {NoSnapshot}
        BY <3>1 DEF VenueOrders, VenueStates, Known, Snapshot, Snapshots, NoSnapshot
      <3> QED
        BY <1>2, <3>1, <3>2, <3>3, BundleRespects
    <2> HIDE DEF synced
    <2> QED
      BY <1>2, <2>1 DEF Respected
  <1> QED
    BY <1>1, <1>2 DEF SyncApply
\* Requesting, claiming and completing a cancellation.
LEMMA CancelRespects ==
    ASSUME IInv, EInv, LeasesFine, NEW w \in Workers
    PROVE  /\ (\E o \in Orders : StartCancel(w, o)) => Respected({w})
           /\ CClaim(w) \/ CObs(w) \/ CDone(w) \/ CAmb(w) => Respected({w})
  <1> DEFINE o == ctx[w].o
             row == db[ctx[w].o]
             seen == ctx[w].seen
  <1>1. ASSUME NEW p \in Orders, StartCancel(w, p) PROVE Respected({w})
    <2>1. RowRespects(db[p], PrepareCancel(db[p]), {w})
      <3>1. 0 \in 0 .. MaxAge /\ db[p] \in Rows /\ RowLeased(db[p])
        BY LeaseAssumption, OrderGood DEF Good, RowGood, RowInv, LeasesFine
      <3> QED
        BY <3>1, BoxesRespect
    <2> QED
      BY <1>1, <2>1, CommitRespects DEF StartCancel
  <1>2. ASSUME pc[w] \in OrderSteps
        PROVE  /\ o \in Orders /\ RowRespects(row, row, {w})
               /\ ClaimCancelOK(row) => RowRespects(row, ClaimCancel(row, w, ctx[w].age), {w})
               /\ pc[w] \in SeenSteps => RowRespects(row, Observe(row, seen), {w})
               /\ Holds(row.can, w, 0) => /\ RowRespects(row, CancelUnknown(row), {w})
                                          /\ RowRespects(row, CancelOutcome(row, seen), {w})
    <2>1. Holds(row.can, w, 0) => MayDecide(row.can, {w})
      BY <1>2, LeaseInHand, Deciders
    <2>2. pc[w] \in SeenSteps => RowRespects(row, Observe(row, seen), {w})
      BY <1>2, LeaseInHand, ObserveOutboxes, SameRespects
    <2>3. RowRespects(row, row, {w})
      BY <1>2, LeaseInHand, SameRespects DEF SameOutboxes
    <2> QED
      BY <1>2, <2>1, <2>2, <2>3, LeaseInHand, BoxesRespect, OutcomesRespect
  <1>3. CClaim(w) => Respected({w})
    <2> SUFFICES ASSUME CClaim(w) PROVE Respected({w})
      OBVIOUS
    <2>1. pc[w] \in OrderSteps
      BY DEF CClaim, OrderSteps, Steps
    <2> QED
      BY <1>2, <2>1, CommitRespects, QuietRespects DEF CClaim, NoCommit
  <1>4. CObs(w) => Respected({w})
    <2> SUFFICES ASSUME CObs(w) PROVE Respected({w})
      OBVIOUS
    <2>1. pc[w] \in OrderSteps /\ pc[w] \in SeenSteps
      BY DEF CObs, OrderSteps, Steps, SeenSteps
    <2> QED
      BY <1>2, <2>1, CommitRespects, QuietRespects DEF CObs, NoCommit
  <1>5. CDone(w) => Respected({w})
    <2> SUFFICES ASSUME CDone(w) PROVE Respected({w})
      OBVIOUS
    <2> DEFINE again == /\ db[o].can.st = "confirmed" /\ db[o].can.owner = w
                        /\ seen.st = "cancelled"
               next == IF again THEN db[o] ELSE CancelOutcome(db[o], seen)
    <2>1. pc[w] \in OrderSteps
      BY DEF CDone, OrderSteps, Steps
    <2>2. CASE Commit(w, o, next, FALSE) /\ (again \/ Holds(row.can, w, 0))
      <3>1. RowRespects(row, next, {w})
        BY <1>2, <2>1, <2>2
      <3> HIDE DEF next
      <3> QED
        BY <1>2, <2>1, <2>2, <3>1, CommitRespects
    <2>3. CASE NoCommit
      BY <2>3, QuietRespects DEF NoCommit
    <2> QED
      BY <2>2, <2>3 DEF CDone
  <1>6. CAmb(w) => Respected({w})
    <2> SUFFICES ASSUME CAmb(w) PROVE Respected({w})
      OBVIOUS
    <2>1. pc[w] \in OrderSteps
      BY DEF CAmb, OrderSteps, Steps
    <2> QED
      BY <1>2, <2>1, CommitRespects, QuietRespects DEF CAmb, NoCommit
  <1> QED
    BY <1>1, <1>3, <1>4, <1>5, <1>6

\* Requesting, claiming, completing and recovering an expiry.
LEMMA ExpiryRespects ==
    ASSUME IInv, EInv, LeasesFine, NEW w \in Workers
    PROVE  /\ (\E o \in Orders : StartExpire(w, o)) => Respected({w})
           /\ XClaim(w) \/ XDone(w) \/ XAmb(w) => Respected({w})
           /\ XRec(w) \/ XApply(w) \/ XRecDone(w) => Respected({w})
  <1> DEFINE o == ctx[w].o
             row == db[ctx[w].o]
             seen == ctx[w].seen
             age == ctx[w].age
  <1>1. ASSUME NEW p \in Orders, StartExpire(w, p) PROVE Respected({w})
    <2>1. RowRespects(db[p], PrepareExpiry(db[p]), {w})
      <3>1. 0 \in 0 .. MaxAge /\ db[p] \in Rows /\ RowLeased(db[p]) /\ PrepareExpiryOK(db[p])
        BY <1>1, LeaseAssumption, OrderGood DEF Good, RowGood, RowInv, LeasesFine, StartExpire
      <3> QED
        BY <3>1, BoxesRespect
    <2> QED
      BY <1>1, <2>1, CommitRespects DEF StartExpire
  <1>2. ASSUME pc[w] \in OrderSteps
        PROVE  /\ o \in Orders
               /\ ClaimExpiryOK(row) => RowRespects(row, ClaimExpiry(row, w, age), {w})
               /\ Recoverable(row.exp, age) => RowRespects(row, ClaimExpiryRecovery(row, w, age), {w})
               /\ MayDecide(row.exp, {w}) => /\ RowRespects(row, ExpiryUnknown(row), {w})
                                             /\ RowRespects(row, ExpiryOutcome(row, seen), {w})
    BY <1>2, LeaseInHand, BoxesRespect, OutcomesRespect
  <1>3. XClaim(w) => Respected({w})
    <2> SUFFICES ASSUME XClaim(w) PROVE Respected({w})
      OBVIOUS
    <2>1. pc[w] \in OrderSteps
      BY DEF XClaim, OrderSteps, Steps
    <2> QED
      BY <1>2, <2>1, CommitRespects, QuietRespects DEF XClaim, NoCommit
  <1>4. XDone(w) => Respected({w})
    <2> SUFFICES ASSUME XDone(w) PROVE Respected({w})
      OBVIOUS
    <2>1. pc[w] \in OrderSteps
      BY DEF XDone, OrderSteps, Steps
    <2>2. \/ NoCommit
          \/ /\ row.exp.st \in {"claimed", "unknown", "confirmed"} /\ row.exp.owner = w
             /\ Commit(w, o, ExpiryOutcome(row, seen), FALSE)
      BY DEF XDone
    <2>3. row.exp.st \in {"claimed", "unknown", "confirmed"} /\ row.exp.owner = w
              => MayDecide(row.exp, {w})
      BY <2>1, LeaseInHand, Deciders
    <2> QED
      BY <1>2, <2>1, <2>2, <2>3, CommitRespects, QuietRespects DEF NoCommit
  <1>5. XAmb(w) => Respected({w})
    <2> SUFFICES ASSUME XAmb(w) PROVE Respected({w})
      OBVIOUS
    <2>1. pc[w] \in OrderSteps
      BY DEF XAmb, OrderSteps, Steps
    <2>2. Holds(row.exp, w, age) => MayDecide(row.exp, {w})
      BY <2>1, LeaseInHand, Deciders
    <2> QED
      BY <1>2, <2>1, <2>2, CommitRespects, QuietRespects DEF XAmb, NoCommit
  <1>6. XRec(w) => Respected({w})
    <2> SUFFICES ASSUME XRec(w) PROVE Respected({w})
      OBVIOUS
    <2>1. pc[w] \in OrderSteps
      BY DEF XRec, OrderSteps, Steps
    <2> QED
      BY <1>2, <2>1, CommitRespects, QuietRespects DEF XRec, NoCommit
  <1>7. XApply(w) => Respected({w})
    <2> SUFFICES ASSUME XApply(w) PROVE Respected({w})
      OBVIOUS
    <2> DEFINE n == ctx[w].got[ctx[w].o]
    <2>1. pc[w] \in OrderSteps
      BY DEF XApply, OrderSteps, Steps
    <2>2. BundleOK(w, o, n, seen) => RowRespects(row, Bundled(o, n, seen), {w})
      BY <2>1, InHand, LeaseInHand, BundleRespects
    <2> QED
      BY <1>2, <2>1, <2>2, CommitRespects, QuietRespects DEF XApply, NoCommit
  <1>8. XRecDone(w) => Respected({w})
    <2> SUFFICES ASSUME XRecDone(w) PROVE Respected({w})
      OBVIOUS
    <2>1. pc[w] \in OrderSteps
      BY DEF XRecDone, OrderSteps, Steps
    <2>2. \/ NoCommit
          \/ /\ \/ Ambiguous(row.exp) /\ row.exp.rowner = w
                \/ row.exp.st = "confirmed"
             /\ Commit(w, o, ExpiryOutcome(row, seen), FALSE)
      BY DEF XRecDone
    <2>3. (Ambiguous(row.exp) /\ row.exp.rowner = w) \/ row.exp.st = "confirmed"
              => MayDecide(row.exp, {w})
      BY <2>1, LeaseInHand, Deciders
    <2> QED
      BY <1>2, <2>1, <2>2, <2>3, CommitRespects, QuietRespects DEF NoCommit
  <1> QED
    BY <1>1, <1>3, <1>4, <1>5, <1>6, <1>7, <1>8

\* A new submission has no claim to give up.
LEMMA PrepareRespects ==
    ASSUME IInv, EInv, LeasesFine, NEW w \in Workers, NEW o \in Orders, PrepareNew(w, o), NEW who
    PROVE  Respected(who)
  <1>1. db[o].dis.st = "none" /\ db[o].can.st = "none" /\ db[o].exp.st = "none"
    BY DEF EInv, RowsInStep, Started, PrepareNew
  <1>2. ASSUME NEW r \in {Blocked, Enqueued} PROVE RowRespects(db[o], r, who)
    <2>1. /\ Blocked.dis.rowner = Nobody /\ Blocked.can.rowner = Nobody
          /\ Blocked.exp.rowner = Nobody
      BY DEF Blocked, NoRow, NoBox
    <2>2. /\ Enqueued.dis.rowner = Nobody /\ Enqueued.can.rowner = Nobody
          /\ Enqueued.exp.rowner = Nobody
      BY DEF Enqueued, NoRow, NoBox
    <2>3. r.dis.rowner = Nobody /\ r.can.rowner = Nobody /\ r.exp.rowner = Nobody
      BY <2>1, <2>2
    <2> QED
      BY <1>1, <2>3 DEF RowRespects, Respects, GivenUp, LeaseFine
  <1>3. ASSUME NEW r \in {Blocked, Enqueued}, db' = [db EXCEPT ![o] = r] PROVE Respected(who)
    <2>1. \A p \in Orders : db'[p] = IF p = o THEN r ELSE db[p]
      BY <1>3 DEF IInv, DbInv
    <2>2. \A p \in Orders : RowRespects(db[p], db[p], who)
      BY SameRespects DEF LeasesFine, SameOutboxes
    <2> QED
      BY <1>2, <2>1, <2>2 DEF Respected
  <1> QED
    BY <1>3 DEF PrepareNew

\* The worker that decides an outbox row goes on to another step.
LEMMA DecidersMoveOn ==
    ASSUME IInv, NEW w \in Workers
    PROVE  /\ Claim(w) \/ Ack(w) \/ Note(w) \/ MarkUnknown(w) \/ MarkRejected(w) => pc'[w] # pc[w]
           /\ Apply(w) \/ QueryDispatch(w) \/ RecoverDispatch(w) => pc'[w] # pc[w]
           /\ QueryCancel(w) \/ RecoverCancel(w) => pc'[w] # pc[w]
           /\ (\E o \in Orders : StartCancel(w, o) \/ StartExpire(w, o)) => pc'[w] # pc[w]
           /\ CClaim(w) \/ CObs(w) \/ CDone(w) \/ CAmb(w) => pc'[w] # pc[w]
           /\ XClaim(w) \/ XDone(w) \/ XAmb(w) => pc'[w] # pc[w]
           /\ XRec(w) \/ XApply(w) \/ XRecDone(w) => pc'[w] # pc[w]
  <1>1. \A step, c : Goto(w, step, c) => pc'[w] = step
    BY DEF Goto, IInv, CtxInv
  <1>2. /\ Done(w) => pc'[w] = "idle"
        /\ Return(w) => pc'[w] \in {"idle", "hydrate"}
        /\ Raise(w) => pc'[w] \in {"idle", "hydrate"}
        /\ QueryEnd(w) => pc'[w] \in {"idle", "hydrate"}
    BY <1>1 DEF Done, Return, Raise, QueryEnd
  <1>3. /\ CancelRaises(w) => pc'[w] \in {"camb", "idle", "hydrate"}
        /\ ExpireRaises(w) => pc'[w] \in {"xamb", "idle", "hydrate"}
        /\ \A o, job, step : Start(w, o, job, step) => pc'[w] = step
    BY <1>1, <1>2 DEF CancelRaises, ExpireRaises, Start
  <1>4. Claim(w) \/ Ack(w) \/ Note(w) \/ MarkUnknown(w) \/ MarkRejected(w) => pc'[w] # pc[w]
    BY <1>1, <1>2 DEF Claim, Ack, Note, MarkUnknown, MarkRejected
  <1>5. Apply(w) \/ QueryDispatch(w) \/ RecoverDispatch(w) => pc'[w] # pc[w]
    BY <1>1, <1>2 DEF Apply, QueryDispatch, RecoverDispatch
  <1>6. QueryCancel(w) \/ RecoverCancel(w) => pc'[w] # pc[w]
    BY <1>1, <1>2 DEF QueryCancel, RecoverCancel
  <1>7. (\E o \in Orders : StartCancel(w, o) \/ StartExpire(w, o)) => pc'[w] # pc[w]
    BY <1>3 DEF StartCancel, StartExpire
  <1>8. CClaim(w) \/ CObs(w) \/ CDone(w) \/ CAmb(w) => pc'[w] # pc[w]
    BY <1>1, <1>2, <1>3 DEF CClaim, CObs, CDone, CAmb
  <1>9. XClaim(w) \/ XDone(w) \/ XAmb(w) => pc'[w] # pc[w]
    BY <1>1, <1>2, <1>3 DEF XClaim, XDone, XAmb
  <1>10. XRec(w) \/ XApply(w) \/ XRecDone(w) => pc'[w] # pc[w]
    BY <1>1, <1>2 DEF XRec, XApply, XRecDone
  <1> QED
    BY <1>4, <1>5, <1>6, <1>7, <1>8, <1>9, <1>10

\* Every step leaves a leased claim alone, unless its owner takes it.
LEMMA NextRespects ==
    ASSUME IInv, EInv, LeasesFine, [Next]_vars
    PROVE  \E who \in SUBSET Workers : Respected(who) /\ \A w \in who : pc'[w] # pc[w]
  <1> DEFINE Goal == \E who \in SUBSET Workers : Respected(who) /\ \A w \in who : pc'[w] # pc[w]
  <1>0. Respected({}) => Goal
    <2> SUFFICES ASSUME Respected({}) PROVE Goal
      OBVIOUS
    <2> WITNESS {} \in SUBSET Workers
    <2> QED
      OBVIOUS
  <1>1. ASSUME NEW w \in Workers, Respected({w}), pc'[w] # pc[w] PROVE Goal
    <2> WITNESS {w} \in SUBSET Workers
    <2> QED
      BY <1>1
  <1>2. UNCHANGED db => Goal
    BY <1>0, QuietRespects
  <1> HIDE DEF Goal
  <1>3. ASSUME NEW w \in Workers, WorkerCalls(w) PROVE Goal
    <2>1. Send(w) \/ Query(w) \/ QueryNone(w) \/ Fetch(w) \/ HydrateStep(w) \/ SyncFetch(w) => Goal
      BY <1>2 DEF Send, Query, QueryNone, Fetch, HydrateStep, SyncFetch, NoCommit
    <2>2. CSend(w) \/ XSend(w) \/ XQuery(w) \/ XFetch(w) => Goal
      BY <1>2 DEF CSend, XSend, XQuery, XFetch, NoCommit
    <2>3. SyncApply(w) => Goal
      BY <1>0, SyncRespects
    <2> QED
      BY <1>1, <1>3, <2>1, <2>2, <2>3, SubmitRespects, QueryRespects, CancelRespects,
         ExpiryRespects, DecidersMoveOn DEF WorkerCalls
  <1>4. ASSUME NEW w \in Workers, WorkerStarts(w) \/ Crash(w) PROVE Goal
    <2>1. StartSync(w) \/ Crash(w) => Goal
      BY <1>2 DEF StartSync, Crash, NoCommit
    <2>2. \A o \in Orders : PrepareReplay(w, o) \/ StartQuery(w, o) \/ StartRecover(w, o) => Goal
      BY <1>2 DEF PrepareReplay, StartQuery, StartRecover, NoCommit
    <2>3. \A o \in Orders : PrepareNew(w, o) => Goal
      BY <1>0, PrepareRespects
    <2>4. \A o \in Orders : StartCancel(w, o) \/ StartExpire(w, o) => Goal
      BY <1>1, CancelRespects, ExpiryRespects, DecidersMoveOn
    <2> QED
      BY <1>4, <2>1, <2>2, <2>3, <2>4 DEF WorkerStarts
  <1>5. ASSUME NEW o \in Orders, VenueActs(o) PROVE Goal
    BY <1>2, <1>5 DEF VenueActs, Arrive, VenueAcknowledge, VenueReject, VenueFill, ShowFill,
                      CompleteCancel, ExpireIoc, VenueMoves, NoCommit
  <1>6. ASSUME Tick PROVE Goal
    <2>1. ASSUME NEW o \in Orders PROVE RowRespects(db[o], db'[o], {})
      <3>1. db[o] \in Rows /\ RowLeased(db[o])
        BY OrderGood DEF Good, RowGood, RowInv, LeasesFine
      <3> QED
        BY <1>6, <3>1, TickRespects DEF Tick
    <2> QED
      BY <1>0, <2>1 DEF Respected
  <1>7. ASSUME TriggerKill \/ UNCHANGED vars PROVE Goal
    BY <1>2, <1>7 DEF TriggerKill, NoCommit, vars
  <1> QED
    BY <1>3, <1>4, <1>5, <1>6, <1>7 DEF Next, Goal

\* LeasesFine holds of every reachable state.
LEMMA SpecLeases == Spec => []LeasesFine
  <1>1. Init => LeasesFine
    BY DEF Init, LeasesFine, RowLeased, LeaseFine, NoRow, NoBox
  <1>2. IInv /\ EInv /\ LeasesFine /\ [Next]_vars => LeasesFine'
    BY NextRespects DEF Respected, RowRespects, Respects, LeasesFine, RowLeased
  <1> QED
    BY <1>1, <1>2, SpecEInv, PTL DEF Spec

\* LeaseRespected: however many workers submit, recover, crash and look at old
\* clocks, a row that was claimed to be sent, cancelled or expired and whose claim
\* is leased is decided by the worker that claimed it and by no other.  It speaks
\* of that first claim only, not of the lease of a recovery.
\* (claim_*_recovery refuses a live lease, complete_* checks token and lease.)
THEOREM LeasesAreRespected == Spec => LeaseRespected
  <1> DEFINE Owners == \A o \in Orders : /\ OnlyByOwner(db[o].dis, db'[o].dis)
                                         /\ OnlyByOwner(db[o].can, db'[o].can)
                                         /\ OnlyByOwner(db[o].exp, db'[o].exp)
  <1>1. IInv /\ EInv /\ LeasesFine /\ [Next]_vars => [Owners]_vars
    <2> SUFFICES ASSUME IInv, EInv, LeasesFine, [Next]_vars PROVE Owners
      OBVIOUS
    <2>1. PICK who \in SUBSET Workers : Respected(who) /\ \A w \in who : pc'[w] # pc[w]
      BY NextRespects
    <2>2. ASSUME NEW b, NEW c, Respects(b, c, who) PROVE OnlyByOwner(b, c)
      BY <2>1, <2>2 DEF Respects, GivenUp, OnlyByOwner
    <2> QED
      BY <2>1, <2>2 DEF Respected, RowRespects
  <1> QED
    BY <1>1, SpecEInv, SpecLeases, PTL DEF Spec, LeaseRespected
-----------------------------------------------------------------------------
(* The release of a reservation.                                           *)
(*                                                                         *)
(* The two hypotheses leave out what makes a release wrong:                *)
(* synchronize_fills observes a fill under the venue's state of the moment *)
(* and the quantity booked so far, so that of an order that ended after    *)
(* several fills, and was not filled, the first one booked looks like all; *)
(* and a second worker sends again, without a claim, what the first was    *)
(* refused, so that an order turned away comes alive.                      *)

\* No synchronisation, or no order that can end with two fills and not filled:
\* two fills of at most two units fill it, and a filled order stays filled
\* unless the venue is asked to expire it.
SyncSafe == "sync" \notin Jobs \/ Qty = 1 \/ (Qty = 2 /\ "expire" \notin Jobs)
\* No explicit rejections, or a single worker.
RejectSafe == "rejected" \notin Outcomes \/ \E u : Workers = {u}

\* The venue can execute nothing more of the order.
Over(v) == v.st \in Terminal

\* A venue record: what has executed in full is over, an order the venue does
\* not know has executed nothing, and the i-th fill tells the quantity up to it.
VenueOver(v) ==
    /\ v.cum <= Qty
    /\ v.cum = Qty => Over(v)
    /\ v.cum = Qty /\ "expire" \notin Jobs => v.st = "filled"
    /\ v.st \in {"none", "in_flight"} => v.cum = 0
    /\ \A n \in 0 .. Len(v.fills) : FilledUpto(v, n) = Total(v.fills, 1 .. n)

\* An answer that tells of an end has the order's last word.
Final(ord, v) == ord.st \in Terminal => Over(v) /\ ord.cum = v.cum

\* A row: an end is projected, and the reservation given back, only with the
\* order over and all of it booked, or never sent; what was turned away never
\* came to the venue.
RowSafe(row, v) ==
    /\ row.proj.disp # "active" => Over(v) /\ row.proj.cum = v.cum
    /\ row.res \in {"consumed", "released"} =>
          /\ row.filled = v.cum
          /\ Over(v) \/ (v.st = "none" /\ row.dis.st = "explicitly_rejected")
    /\ row.dis.st = "explicitly_rejected" => v.st = "none" /\ "rejected" \in Outcomes
    /\ row.res = "none" => v.st = "none" /\ row.dis.st = "none"
    /\ row.sub = "none" => row.res = "none"
    /\ row.exp.st # "none" => Known(v) /\ "expire" \in Jobs

\* A worker: the end it holds is the order's end, it sends nothing that was
\* turned away, and it was refused an order the venue does not have.
WorkerSafe(w) ==
    /\ ctx[w].o \in Orders => Final(ctx[w].seen, venue[ctx[w].o])
    /\ pc[w] = "send" => db[ctx[w].o].dis.st # "explicitly_rejected"
    /\ pc[w] = "rej" => venue[ctx[w].o].st = "none" /\ "rejected" \in Outcomes
    /\ pc[w] \in {"syncfetch", "syncapply"} => "sync" \in Jobs

\* The invariant behind SafeRelease, inductive together with IInv and EInv.
SInv ==
    /\ \A o \in Orders : VenueOver(venue[o]) /\ RowSafe(db[o], venue[o])
    /\ \A o \in Orders : venue[o].st # "none" => calls[o].submit > 0
    /\ \A w \in Workers : WorkerSafe(w)

-----------------------------------------------------------------------------
(* The venue.                                                              *)

\* A venue record moves on: an order over is over for good, one that is known
\* stays known, and one nobody sent enters open.
Goes(v, u) == /\ VenueOver(u) /\ v.cum <= u.cum
              /\ Over(v) => Over(u) /\ u.cum = v.cum
              /\ Known(v) => Known(u)
              /\ v.st # "none" => u.st # "none"
              /\ v.st = "none" => ~Over(u) /\ u.cum = v.cum

\* An operation that executes nothing.
LEMMA GoesOn ==
    ASSUME NEW v, VenueGood(v), VenueOver(v), NEW u, u.fills = v.fills, u.cum = v.cum,
           Over(v) => u.st = v.st \/ (Over(u) /\ "expire" \in Jobs),
           Known(v) => Known(u),
           u.st = "none" => v.st = "none",
           v.st = "none" => ~Over(u)
    PROVE  Goes(v, u)
  <1>1. v.cum \in Nat
    BY DEF VenueGood, VenueFine, VenueOrders
  <1>2. \A n : FilledUpto(u, n) = FilledUpto(v, n)
    BY DEF FilledUpto
  <1>3. u.st \in {"none", "in_flight"} => v.st \in {"none", "in_flight"}
    BY DEF Known
  <1> QED
    BY <1>1, <1>2, <1>3 DEF Goes, VenueOver, Over

\* The venue's operations but the fill.
LEMMA OperationsGo ==
    ASSUME NEW v, VenueGood(v), VenueOver(v)
    PROVE  /\ Goes(v, v) /\ Goes(v, Shown(v))
           /\ ~Known(v) => /\ Goes(v, Submitted(v, "pending_ack")) /\ Goes(v, Submitted(v, "unknown"))
                           /\ Goes(v, [v EXCEPT !.st = "in_flight"])
           /\ CanAcknowledge(v) => Goes(v, Acknowledged(v))
           /\ v.st = "pending_ack" => Goes(v, Rejected(v))
           /\ Known(v) /\ "expire" \in Jobs => Goes(v, Expired(v))
           /\ Known(v) => Goes(v, CancelRequested(v))
           /\ CanCompleteCancel(v) => Goes(v, Cancelled(v))
  <1>1. \A st : Event(v, st).st = st /\ Event(v, st).fills = v.fills /\ Event(v, st).cum = v.cum
    BY DEF VenueGood, VenueFine, VenueOrders, Event
  <1>2. LET u == [v EXCEPT !.st = "in_flight"] IN
            u.st = "in_flight" /\ u.fills = v.fills /\ u.cum = v.cum
    BY DEF VenueGood, VenueFine, VenueOrders
  <1>3. Shown(v).st = v.st /\ Shown(v).fills = v.fills /\ Shown(v).cum = v.cum
    BY DEF VenueGood, VenueFine, VenueOrders, Shown
  <1>4. Goes(v, v) /\ Goes(v, Shown(v))
    BY <1>3, GoesOn DEF Known, Over, Terminal
  <1>5. ASSUME ~Known(v)
        PROVE  /\ Goes(v, Submitted(v, "pending_ack")) /\ Goes(v, Submitted(v, "unknown"))
               /\ Goes(v, [v EXCEPT !.st = "in_flight"])
    <2> DEFINE g == [v EXCEPT !.st = "in_flight"]
    <2>1. g.st = "in_flight" /\ g.fills = v.fills /\ g.cum = v.cum
      BY <1>2
    <2>2. ~Over(v)
      BY <1>5 DEF Known, Over, Terminal
    <2> HIDE DEF g
    <2>3. Goes(v, g)
      BY <1>5, <2>1, <2>2, GoesOn DEF Over, Terminal
    <2>4. Goes(v, Submitted(v, "pending_ack")) /\ Goes(v, Submitted(v, "unknown"))
      BY <1>1, <1>5, <2>2, GoesOn DEF Submitted, Over, Terminal
    <2> QED
      BY <2>3, <2>4 DEF g
  <1>6. /\ CanAcknowledge(v) => Goes(v, Acknowledged(v))
        /\ v.st = "pending_ack" => Goes(v, Rejected(v))
        /\ CanCompleteCancel(v) => Goes(v, Cancelled(v))
    BY <1>1, GoesOn DEF CanAcknowledge, Acknowledged, Rejected, CanCompleteCancel, Cancelled,
                        Known, Over, Terminal
  <1>7. Known(v) /\ "expire" \in Jobs => Goes(v, Expired(v))
    BY <1>1, GoesOn DEF Expired, Known, Over, Terminal
  <1>8. Known(v) => Goes(v, CancelRequested(v))
    BY <1>1, <1>4, GoesOn DEF CancelRequested, Known, Over, Terminal
  <1> QED
    BY <1>4, <1>5, <1>6, <1>7, <1>8

\* A fill.
LEMMA FillGoes ==
    ASSUME NEW v, VenueGood(v), VenueOver(v), NEW q, CanFill(v, q)
    PROVE  Goes(v, Filled(v, q)) /\ Goes(v, Shown(Filled(v, q)))
  <1> DEFINE f == [qty |-> q, upto |-> v.cum + q, seq |-> v.seq + 1]
             u == Filled(v, q)
             n == Len(v.fills)
  <1>1. /\ v \in VenueOrders /\ v.cum \in Nat /\ v.fills \in Seq(Fills) /\ n \in Nat
        /\ v.st \in {"acknowledged", "partially_filled"} /\ q \in 1 .. (Qty - v.cum)
    BY DEF VenueGood, VenueFine, VenueOrders, CanFill
  <1>2. /\ u.fills = Append(v.fills, f) /\ u.cum = v.cum + q
        /\ u.st = IF v.cum + q = Qty THEN "filled" ELSE "partially_filled"
    BY <1>1 DEF Filled, Event, VenueOrders
  <1>3. /\ Len(u.fills) = n + 1 /\ u.fills[n + 1].upto = v.cum + q
        /\ \A i \in 1 .. n : u.fills[i] = v.fills[i]
    BY <1>1, <1>2
  <1>4. VenueInStep(u) /\ \A s \in SUBSET (1 .. n) : Total(u.fills, s) = Total(v.fills, s)
    BY FillOnward DEF Onward
  <1>5. ASSUME NEW i \in 0 .. Len(u.fills) PROVE FilledUpto(u, i) = Total(u.fills, 1 .. i)
    <2>1. CASE i = n + 1
      <3>1. FilledUpto(u, i) = u.cum
        BY <1>1, <1>2, <1>3, <2>1 DEF FilledUpto
      <3> QED
        BY <1>3, <1>4, <2>1, <3>1 DEF VenueInStep
    <2>2. CASE i \in 0 .. n
      <3>1. FilledUpto(u, i) = FilledUpto(v, i)
        BY <1>3, <2>2 DEF FilledUpto
      <3>2. 1 .. i \in SUBSET (1 .. n)
        BY <1>1, <2>2
      <3> QED
        BY <1>4, <2>2, <3>1, <3>2 DEF VenueOver
    <2> QED
      BY <1>1, <1>3, <2>1, <2>2
  <1>6. VenueOver(u)
    <2>1. v.cum + q <= Qty /\ v.cum + q > 0
      BY <1>1, QtyAssumption
    <2>2. u.st \in {"filled", "partially_filled"} /\ (u.cum = Qty => u.st = "filled")
      BY <1>2
    <2> HIDE DEF u
    <2> QED
      BY <1>2, <1>5, <2>1, <2>2 DEF VenueOver, Over, Terminal
  <1>7. Goes(v, u)
    BY <1>1, <1>2, <1>6 DEF Goes, Over, Known, Terminal
  <1>8. VenueFine(u)
    BY VenueFills DEF VenueGood, VenueMoved
  <1>9. Goes(u, Shown(u)) /\ Shown(u).cum = u.cum /\ Shown(u).st = u.st
    <2> HIDE DEF u
    <2>1. Goes(u, Shown(u))
      BY <1>4, <1>6, <1>8, OperationsGo DEF VenueGood
    <2> QED
      BY <1>8, <2>1 DEF VenueFine, VenueOrders, Shown
  <1>10. Goes(v, Shown(u))
    <2> HIDE DEF u
    <2> QED
      BY <1>7, <1>9 DEF Goes, Over, Known
  <1> QED
    BY <1>7, <1>10

\* The call that brings an order to the venue.
Sends(o) == \E w \in Workers : pc[w] = "send" /\ ctx[w].o = o
\* One order's record moves on; only a submission ends that there is none.
Turn(o, u) == /\ venue' = [venue EXCEPT ![o] = u] /\ Goes(venue[o], u)
              /\ venue[o].st = "none" /\ u.st # "none" => Sends(o) /\ calls'[o].submit > 0
\* What a step does to the venue: nothing, or one order's record moves on.
VenueTurns == UNCHANGED venue \/ \E o \in Orders : \E u : Turn(o, u)

\* Nothing is executed or sent for an order the venue knows.
LEMMA KnownTurns ==
    ASSUME NEW o \in Orders, NEW u, Goes(venue[o], u), venue[o].st # "none" \/ u.st = "none",
           venue' = [venue EXCEPT ![o] = u]
    PROVE  VenueTurns
  <1>1. Turn(o, u)
    BY DEF Turn
  <1> QED
    BY <1>1 DEF VenueTurns

\* Every step moves the record of one order at most.
LEMMA NextTurns ==
    ASSUME IInv, EInv, SInv, [Next]_vars
    PROVE  VenueTurns
  <1>0. UNCHANGED venue => VenueTurns
    BY DEF VenueTurns
  <1>g. \A o \in Orders : VenueGood(venue[o]) /\ VenueOver(venue[o])
    BY OrderGood DEF Good, SInv
  <1>1. ASSUME NEW w \in Workers, Send(w) PROVE VenueTurns
    <2> DEFINE o == ctx[w].o
               v == venue[ctx[w].o]
               g == [v EXCEPT !.st = "in_flight"]
    <2>1. o \in Orders /\ pc[w] = "send"
      BY <1>1, AtHand DEF Send, OrderSteps, Steps
    <2>2. Sends(o) /\ calls'[o].submit > 0
      BY <1>1, <2>1 DEF Send, Sends, IInv, RestInv, Calls
    <2>3. /\ Goes(v, Submitted(v, "pending_ack")) \/ Known(v)
          /\ Goes(v, Submitted(v, "unknown")) \/ Known(v)
          /\ Goes(v, g) \/ Known(v)
      BY <1>g, <2>1, OperationsGo
    <2>4. [venue EXCEPT ![o].st = "in_flight"] = [venue EXCEPT ![o] = g]
      OBVIOUS
    <2>5. \/ UNCHANGED venue
          \/ ~Known(v) /\ venue' = [venue EXCEPT ![o] = Submitted(v, "pending_ack")]
          \/ ~Known(v) /\ venue' = [venue EXCEPT ![o] = Submitted(v, "unknown")]
          \/ ~Known(v) /\ venue' = [venue EXCEPT ![o] = g]
      BY <1>1, <2>4 DEF Send
    <2> HIDE DEF g
    <2>6. \A u : Goes(v, u) /\ venue' = [venue EXCEPT ![o] = u] => VenueTurns
      BY <2>1, <2>2 DEF Turn, VenueTurns
    <2> QED
      BY <1>0, <2>3, <2>5, <2>6
  <1>2. ASSUME NEW w \in Workers, CSend(w) PROVE VenueTurns
    <2>1. ctx[w].o \in Orders
      BY <1>2, AtHand DEF CSend, OrderSteps, Steps
    <2>2. \/ UNCHANGED venue
          \/ /\ Known(venue[ctx[w].o])
             /\ venue' = [venue EXCEPT ![ctx[w].o] = CancelRequested(venue[ctx[w].o])]
      BY <1>2 DEF CSend
    <2>3. Known(venue[ctx[w].o]) => Goes(venue[ctx[w].o], CancelRequested(venue[ctx[w].o]))
      BY <1>g, <2>1, OperationsGo
    <2> QED
      BY <1>0, <2>1, <2>2, <2>3, KnownTurns DEF Known
  <1>3. ASSUME NEW w \in Workers, XSend(w) PROVE VenueTurns
    <2>1. ctx[w].o \in Orders /\ pc[w] = "xsend"
      BY <1>3, AtHand DEF XSend, OrderSteps, Steps
    <2>2. Known(venue[ctx[w].o]) /\ "expire" \in Jobs
      BY <2>1 DEF EInv, CallsClaimed, ExpiryClaimed, SInv, RowSafe
    <2>3. \/ UNCHANGED venue
          \/ venue' = [venue EXCEPT ![ctx[w].o] = Expired(venue[ctx[w].o])]
      BY <1>3 DEF XSend
    <2>4. Goes(venue[ctx[w].o], Expired(venue[ctx[w].o]))
      BY <1>g, <2>1, <2>2, OperationsGo
    <2> QED
      BY <1>0, <2>1, <2>2, <2>3, <2>4, KnownTurns DEF Known
  <1>4. ASSUME NEW w \in Workers, WorkerCalls(w), ~Send(w), ~CSend(w), ~XSend(w)
        PROVE  VenueTurns
    <2>1. VenueQuiet
      BY <1>4 DEF WorkerCalls, Claim, Ack, Note, MarkUnknown, MarkRejected, Query, QueryNone,
                  Fetch, Apply, QueryDispatch, RecoverDispatch, QueryCancel, RecoverCancel,
                  HydrateStep, SyncFetch, SyncApply, CClaim, CObs, CDone, CAmb, XClaim, XDone,
                  XAmb, XRec, XQuery, XFetch, XApply, XRecDone
    <2> QED
      BY <1>0, <2>1 DEF VenueQuiet
  <1>5. ASSUME NEW w \in Workers, WorkerStarts(w) \/ Crash(w) PROVE VenueTurns
    BY <1>0, <1>5 DEF WorkerStarts, StartSync, PrepareNew, PrepareReplay, StartQuery,
                      StartCancel, StartExpire, StartRecover, Crash, VenueQuiet
  <1>6. ASSUME NEW o \in Orders, VenueActs(o) PROVE VenueTurns
    <2> DEFINE v == venue[o]
    <2>0. VenueGood(v) /\ VenueOver(v)
      BY <1>g
    <2>1. CASE VenueFill(o)
      <3>1. PICK q \in 1 .. Qty : /\ CanFill(venue[o], q)
                                  /\ VenueMoves(o, IF LagFills THEN Filled(venue[o], q)
                                                   ELSE Shown(Filled(venue[o], q)))
        BY <2>1 DEF VenueFill
      <3>2. Goes(v, Filled(v, q)) /\ Goes(v, Shown(Filled(v, q))) /\ v.st # "none"
        BY <2>0, <3>1, FillGoes DEF CanFill
      <3> QED
        BY <3>1, <3>2, KnownTurns DEF VenueMoves
    <2>2. CASE ShowFill(o)
      <3>1. Goes(v, Shown(v)) /\ venue' = [venue EXCEPT ![o] = Shown(v)] /\ Shown(v).st = v.st
        BY <2>0, <2>2, OperationsGo DEF ShowFill, VenueMoves, VenueGood, VenueFine, VenueOrders, Shown
      <3> QED
        BY <3>1, KnownTurns
    <2>3. CASE Arrive(o) \/ VenueReject(o)
      BY <2>0, <2>3, OperationsGo, KnownTurns DEF Arrive, VenueReject, VenueMoves, Known
    <2>4. CASE VenueAcknowledge(o) \/ CompleteCancel(o)
      BY <2>0, <2>4, OperationsGo, KnownTurns DEF VenueAcknowledge, CompleteCancel, VenueMoves,
                 CanAcknowledge, CanCompleteCancel
    <2>5. CASE ExpireIoc(o)
      BY <2>0, <2>5, OperationsGo, KnownTurns DEF ExpireIoc, VenueMoves, Known
    <2> QED
      BY <1>6, <2>1, <2>2, <2>3, <2>4, <2>5 DEF VenueActs
  <1>7. CASE Tick \/ TriggerKill \/ UNCHANGED vars
    BY <1>0, <1>7 DEF Tick, TriggerKill, VenueQuiet, vars
  <1> QED
    BY <1>1, <1>2, <1>3, <1>4, <1>5, <1>6, <1>7 DEF Next

-----------------------------------------------------------------------------
(* The workers: what they hold of the venue's answers and what they are    *)
(* about to do.                                                            *)

\* The steps about which WorkerSafe says something.
Marked == {"send", "rej", "syncfetch", "syncapply"}
\* A worker's answer is none, the one it had, or the venue's record of now.
Answers(w, c) == \/ c.seen = NoSnapshot
                 \/ c.o = ctx[w].o /\ c.seen = ctx[w].seen
                 \/ c.seen = Snapshot(venue'[c.o])
\* How a worker comes to a marked step.
Enters(w, step, c) ==
    \/ step \notin Marked
    \/ step = pc[w] /\ c.o = ctx[w].o
    \/ step = "send" /\ Claim(w) /\ c.o = ctx[w].o
    \/ /\ step = "rej" /\ pc[w] = "send" /\ UNCHANGED venue /\ "rejected" \in Outcomes
       /\ ~Known(venue[ctx[w].o]) /\ c.o = ctx[w].o
    \/ step = "syncapply" /\ pc[w] = "syncfetch"
    \/ step = "syncfetch" /\ "sync" \in Jobs
\* Every worker proceeds in one of these ways.
Proceeds == \A w \in Workers : Answers(w, ctx'[w]) /\ Enters(w, pc'[w], ctx'[w])

\* Nobody moves, or one worker does.
LEMMA ProceedsStay == ASSUME UNCHANGED <<pc, ctx>> PROVE Proceeds
  BY DEF Proceeds, Answers, Enters
LEMMA ProceedsMove ==
    ASSUME IInv, NEW w \in Workers, NEW step, NEW c, Goto(w, step, c),
           Answers(w, c), Enters(w, step, c)
    PROVE  Proceeds
  <1>1. /\ \A x \in Workers : pc'[x] = IF x = w THEN step ELSE pc[x]
        /\ \A x \in Workers : ctx'[x] = IF x = w THEN c ELSE ctx[x]
    BY DEF Goto, IInv, CtxInv
  <1>2. \A x \in Workers : Answers(x, ctx[x]) /\ Enters(x, pc[x], ctx[x])
    BY DEF Answers, Enters
  <1> QED
    BY <1>1, <1>2 DEF Proceeds

\* The moves to steps that are not marked.
LEMMA ProceedsMoves ==
    ASSUME IInv, NEW w \in Workers
    PROVE  /\ \A step, c : step \notin Marked /\ c.o = ctx[w].o /\ c.seen = ctx[w].seen
                                /\ Goto(w, step, c) => Proceeds
           /\ \A step, c : step \notin Marked /\ c.seen = NoSnapshot /\ Goto(w, step, c) => Proceeds
           /\ \A step, c : step \notin Marked /\ c.seen = Snapshot(venue'[c.o])
                                /\ Goto(w, step, c) => Proceeds
           /\ Done(w) \/ Return(w) \/ Raise(w) \/ QueryEnd(w) => Proceeds
           /\ \A step, job : step \notin Marked /\ Goto(w, step, [Rest EXCEPT !.job = job])
                             => Proceeds
  <1>1. \A step, c : step \notin Marked => Enters(w, step, c)
    BY DEF Enters
  <1>2. \A step, c : step \notin Marked /\ c.o = ctx[w].o /\ c.seen = ctx[w].seen
                     /\ Goto(w, step, c) => Proceeds
    BY <1>1, ProceedsMove DEF Answers
  <1>3. \A step, c : step \notin Marked /\ c.seen = NoSnapshot /\ Goto(w, step, c) => Proceeds
    BY <1>1, ProceedsMove DEF Answers
  <1>4. \A step, c : step \notin Marked /\ c.seen = Snapshot(venue'[c.o]) /\ Goto(w, step, c)
                     => Proceeds
    BY <1>1, ProceedsMove DEF Answers
  <1>5. Rest.seen = NoSnapshot /\ \A job : [Rest EXCEPT !.job = job].seen = NoSnapshot
    BY DEF Rest
  <1>6. "idle" \notin Marked /\ "hydrate" \notin Marked
    BY DEF Marked
  <1>7. ASSUME NEW step, NEW job, step \notin Marked, Goto(w, step, [Rest EXCEPT !.job = job])
        PROVE  Proceeds
    <2> DEFINE c == [Rest EXCEPT !.job = job]
    <2>1. c.seen = NoSnapshot /\ Goto(w, step, c)
      BY <1>5, <1>7
    <2> HIDE DEF c
    <2> QED
      BY <1>3, <1>7, <2>1
  <1>8. Done(w) \/ Return(w) \/ QueryEnd(w) => Proceeds
    BY <1>3, <1>5, <1>6 DEF Done, Return, QueryEnd
  <1>9. Raise(w) => Proceeds
    BY <1>8 DEF Raise
  <1>10. \A step, job : step \notin Marked /\ Goto(w, step, [Rest EXCEPT !.job = job]) => Proceeds
    BY <1>7
  <1> QED
    BY <1>2, <1>3, <1>4, <1>8, <1>9, <1>10

\* A worker that goes on with an answer of the venue.
LEMMA ProceedsAnswer ==
    ASSUME IInv, NEW w \in Workers, NEW step, step \notin Marked,
           Goto(w, step, [ctx[w] EXCEPT !.seen = Snapshot(venue'[ctx[w].o])])
    PROVE  Proceeds
  <1> DEFINE c == [ctx[w] EXCEPT !.seen = Snapshot(venue'[ctx[w].o])]
  <1>1. c.o = ctx[w].o /\ c.seen = Snapshot(venue'[ctx[w].o])
    BY DEF IInv, CtxInv, CtxFine, Contexts
  <1>2. Goto(w, step, c)
    OBVIOUS
  <1> HIDE DEF c
  <1> QED
    BY <1>1, <1>2, ProceedsMoves

\* Claiming and calling.
LEMMA SendersProceed ==
    ASSUME IInv, NEW w \in Workers
    PROVE  /\ Claim(w) \/ CClaim(w) \/ XClaim(w) => Proceeds
           /\ Send(w) \/ CSend(w) \/ XSend(w) => Proceeds
  <1> DEFINE o == ctx[w].o
  <1>0. /\ "ack" \notin Marked /\ "amb" \notin Marked /\ "camb" \notin Marked
        /\ "cobs" \notin Marked /\ "cdone" \notin Marked /\ "xdone" \notin Marked
        /\ "xamb" \notin Marked /\ "csend" \notin Marked /\ "xsend" \notin Marked
    BY DEF Marked
  <1>1. ASSUME Claim(w) PROVE Proceeds
    <2> DEFINE c == [ctx[w] EXCEPT !.tok = TRUE]
    <2>1. c.o = o /\ c.seen = ctx[w].seen
      BY SameAnswer
    <2>2. Raise(w) \/ Goto(w, "send", c) \/ Goto(w, "send", ctx[w])
      BY <1>1 DEF Claim
    <2>3. Answers(w, c) /\ Enters(w, "send", c) /\ Answers(w, ctx[w]) /\ Enters(w, "send", ctx[w])
      BY <1>1, <2>1 DEF Answers, Enters
    <2> HIDE DEF c
    <2> QED
      BY <2>2, <2>3, ProceedsMove, ProceedsMoves
  <1>2. CClaim(w) => Proceeds
    BY <1>0, ProceedsMoves DEF CClaim
  <1>3. ASSUME XClaim(w) PROVE Proceeds
    <2> DEFINE c == IF ctx[w].job = "expire" THEN ctx[w] ELSE [ctx[w] EXCEPT !.age = 0]
    <2>1. c.o = o /\ c.seen = ctx[w].seen
      BY SameAnswer
    <2>2. Raise(w) \/ Goto(w, "xsend", c)
      BY <1>3 DEF XClaim
    <2> HIDE DEF c
    <2> QED
      BY <1>0, <2>1, <2>2, ProceedsMoves
  <1>4. ASSUME Send(w) PROVE Proceeds
    <2>1. \/ Goto(w, "amb", ctx[w])
          \/ Goto(w, "ack", [ctx[w] EXCEPT !.seen = Snapshot(venue'[o])])
          \/ /\ Goto(w, "rej", ctx[w]) /\ UNCHANGED venue /\ "rejected" \in Outcomes
             /\ ~Known(venue[o]) /\ pc[w] = "send"
      BY <1>4 DEF Send
    <2>2. CASE Goto(w, "amb", ctx[w])
      BY <1>0, <2>2, ProceedsMoves
    <2>3. CASE Goto(w, "ack", [ctx[w] EXCEPT !.seen = Snapshot(venue'[o])])
      BY <1>0, <2>3, ProceedsAnswer
    <2>4. CASE /\ Goto(w, "rej", ctx[w]) /\ UNCHANGED venue /\ "rejected" \in Outcomes
               /\ ~Known(venue[o]) /\ pc[w] = "send"
      <3>1. Answers(w, ctx[w]) /\ Enters(w, "rej", ctx[w])
        BY <2>4 DEF Answers, Enters
      <3> QED
        BY <2>4, <3>1, ProceedsMove
    <2> QED
      BY <2>1, <2>2, <2>3, <2>4
  <1>5. ASSUME CSend(w) PROVE Proceeds
    <2>1. CancelRaises(w) \/ CancelAnswered(w, Snapshot(venue'[o]))
      BY <1>5 DEF CSend
    <2>2. CASE CancelRaises(w)
      BY <1>0, <2>2, ProceedsMoves DEF CancelRaises
    <2>3. CASE CancelAnswered(w, Snapshot(venue'[o]))
      <3>1. PICK step \in {"cobs", "cdone"} :
                    Goto(w, step, [ctx[w] EXCEPT !.seen = Snapshot(venue'[o])])
        BY <2>3 DEF CancelAnswered
      <3> QED
        BY <1>0, <3>1, ProceedsAnswer
    <2> QED
      BY <2>1, <2>2, <2>3
  <1>6. ASSUME XSend(w) PROVE Proceeds
    <2>1. ExpireRaises(w) \/ Goto(w, "xdone", [ctx[w] EXCEPT !.seen = Snapshot(venue'[o])])
      BY <1>6 DEF XSend
    <2> QED
      BY <1>0, <2>1, ProceedsMoves, ProceedsAnswer DEF ExpireRaises
  <1> QED
    BY <1>1, <1>2, <1>3, <1>4, <1>5, <1>6

\* The other calls.
LEMMA CallsProceed ==
    ASSUME IInv, NEW w \in Workers
    PROVE  /\ Ack(w) \/ Note(w) \/ MarkUnknown(w) \/ MarkRejected(w) => Proceeds
           /\ Query(w) \/ QueryNone(w) \/ Fetch(w) \/ Apply(w) => Proceeds
           /\ QueryDispatch(w) \/ RecoverDispatch(w) \/ QueryCancel(w) \/ RecoverCancel(w) => Proceeds
           /\ HydrateStep(w) \/ SyncFetch(w) \/ SyncApply(w) => Proceeds
           /\ CObs(w) \/ CDone(w) \/ CAmb(w) => Proceeds
           /\ XDone(w) \/ XAmb(w) \/ XRec(w) => Proceeds
           /\ XQuery(w) \/ XFetch(w) \/ XApply(w) \/ XRecDone(w) => Proceeds
  <1>1. ASSUME NEW step, step \notin Marked,
               \/ Goto(w, step, ctx[w])
               \/ Goto(w, step, [ctx[w] EXCEPT !.age = 0])
               \/ Goto(w, step, [ctx[w] EXCEPT !.got = NoFills])
        PROVE  Proceeds
    <2> DEFINE a == [ctx[w] EXCEPT !.age = 0]
               b == [ctx[w] EXCEPT !.got = NoFills]
    <2>1. a.o = ctx[w].o /\ a.seen = ctx[w].seen /\ b.o = ctx[w].o /\ b.seen = ctx[w].seen
      BY SameAnswer
    <2>2. Goto(w, step, ctx[w]) \/ Goto(w, step, a) \/ Goto(w, step, b)
      BY <1>1
    <2> HIDE DEF a, b
    <2> QED
      BY <1>1, <2>1, <2>2, ProceedsMoves
  <1>2. ASSUME NEW got,
               \/ Goto(w, "apply", [ctx[w] EXCEPT !.age = 0, !.got = got])
               \/ Goto(w, "xapply", [ctx[w] EXCEPT !.got = got])
               \/ Goto(w, "syncapply", [ctx[w] EXCEPT !.got = got]) /\ pc[w] = "syncfetch"
        PROVE  Proceeds
    <2> DEFINE a == [ctx[w] EXCEPT !.age = 0, !.got = got]
               b == [ctx[w] EXCEPT !.got = got]
    <2>1. a.o = ctx[w].o /\ a.seen = ctx[w].seen /\ b.o = ctx[w].o /\ b.seen = ctx[w].seen
      BY SameAnswer
    <2>2. \/ Goto(w, "apply", a) \/ Goto(w, "xapply", b)
          \/ Goto(w, "syncapply", b) /\ pc[w] = "syncfetch"
      BY <1>2
    <2>3. "apply" \notin Marked /\ "xapply" \notin Marked
      BY DEF Marked
    <2> HIDE DEF a, b
    <2>4. pc[w] = "syncfetch" => Answers(w, b) /\ Enters(w, "syncapply", b)
      BY <2>1 DEF Answers, Enters
    <2> QED
      BY <2>1, <2>2, <2>3, <2>4, ProceedsMove, ProceedsMoves
  <1>3. /\ "amb" \notin Marked /\ "note" \notin Marked /\ "none" \notin Marked
        /\ "fetch" \notin Marked /\ "dis" \notin Marked /\ "disrec" \notin Marked
        /\ "can" \notin Marked /\ "canrec" \notin Marked /\ "hydrate" \notin Marked
        /\ "cdone" \notin Marked /\ "camb" \notin Marked /\ "xamb" \notin Marked
        /\ "xquery" \notin Marked /\ "xfetch" \notin Marked /\ "xrecdone" \notin Marked
    BY DEF Marked
  <1>4. Done(w) \/ Return(w) \/ Raise(w) \/ QueryEnd(w) => Proceeds
    BY ProceedsMoves
  <1>5. Ack(w) \/ Note(w) \/ MarkUnknown(w) \/ MarkRejected(w) => Proceeds
    BY <1>1, <1>3, <1>4 DEF Ack, Note, MarkUnknown, MarkRejected
  <1>6. ASSUME Query(w) PROVE Proceeds
    <2>1. venue' = venue
      BY <1>6 DEF Query, VenueQuiet
    <2>2. \/ Goto(w, "none", ctx[w]) \/ Raise(w)
          \/ Goto(w, "fetch", [ctx[w] EXCEPT !.seen = Snapshot(venue'[ctx[w].o])])
      BY <1>6, <2>1 DEF Query
    <2> QED
      BY <1>1, <1>3, <1>4, <2>2, ProceedsAnswer
  <1>7. QueryNone(w) \/ Fetch(w) \/ Apply(w) => Proceeds
    <2>1. QueryNone(w) => Proceeds
      BY <1>1, <1>3 DEF QueryNone
    <2>2. Fetch(w) => Proceeds
      BY <1>2 DEF Fetch
    <2>3. Apply(w) => Raise(w) \/ Goto(w, "dis", [ctx[w] EXCEPT !.got = NoFills])
      BY DEF Apply
    <2> QED
      BY <1>1, <1>3, <1>4, <2>1, <2>2, <2>3
  <1>8. QueryDispatch(w) \/ RecoverDispatch(w) \/ QueryCancel(w) \/ RecoverCancel(w) => Proceeds
    BY <1>1, <1>3, <1>4 DEF QueryDispatch, RecoverDispatch, QueryCancel, RecoverCancel
  <1>9. HydrateStep(w) \/ SyncFetch(w) \/ SyncApply(w) => Proceeds
    <2>1. HydrateStep(w) \/ SyncApply(w) => Done(w)
      BY DEF HydrateStep, SyncApply
    <2>2. SyncFetch(w) => Proceeds
      BY <1>2 DEF SyncFetch
    <2> QED
      BY <1>4, <2>1, <2>2
  <1>10. \A job : Goto(w, "hydrate", [Rest EXCEPT !.job = job]) => Proceeds
    BY <1>3, ProceedsMoves
  <1>11. CancelRaises(w) \/ ExpireRaises(w) => Proceeds
    BY <1>1, <1>3, <1>4 DEF CancelRaises, ExpireRaises
  <1>12. CObs(w) \/ CDone(w) \/ CAmb(w) => Proceeds
    BY <1>1, <1>3, <1>4, <1>10, <1>11 DEF CObs, CDone, CAmb
  <1>13. XDone(w) \/ XAmb(w) \/ XRec(w) => Proceeds
    BY <1>1, <1>3, <1>4, <1>10, <1>11 DEF XDone, XAmb, XRec
  <1>14. ASSUME XQuery(w) PROVE Proceeds
    <2>1. Goto(w, "xfetch", [ctx[w] EXCEPT !.seen = Snapshot(venue'[ctx[w].o])])
      BY <1>14 DEF XQuery, VenueQuiet
    <2> QED
      BY <1>3, <2>1, ProceedsAnswer
  <1>15. XFetch(w) \/ XApply(w) \/ XRecDone(w) => Proceeds
    <2>1. XFetch(w) => Proceeds
      BY <1>2 DEF XFetch
    <2>2. XApply(w) => Raise(w) \/ Goto(w, "xrecdone", [ctx[w] EXCEPT !.got = NoFills])
      BY DEF XApply
    <2>3. XRecDone(w) => Return(w) \/ Raise(w)
      BY DEF XRecDone
    <2> QED
      BY <1>1, <1>3, <1>4, <2>1, <2>2, <2>3
  <1> QED
    BY <1>5, <1>6, <1>7, <1>8, <1>9, <1>12, <1>13, <1>14, <1>15

\* The beginning of a call, and a crash.
LEMMA StartsProceed ==
    ASSUME IInv, NEW w \in Workers, WorkerStarts(w) \/ Crash(w)
    PROVE  Proceeds
  <1>3. \A o, job, suspect :
           /\ [Rest EXCEPT !.o = o, !.job = job].seen = NoSnapshot
           /\ [Rest EXCEPT !.o = o, !.job = job, !.suspect = suspect].seen = NoSnapshot
    BY DEF Rest
  <1>4. ASSUME NEW o, NEW job, NEW step, step \notin Marked, Start(w, o, job, step)
        PROVE  Proceeds
    <2> DEFINE c == [Rest EXCEPT !.o = o, !.job = job]
    <2>1. c.seen = NoSnapshot /\ Goto(w, step, c)
      BY <1>3, <1>4 DEF Start
    <2> HIDE DEF c
    <2> QED
      BY <1>4, <2>1, ProceedsMoves
  <1>5. /\ "claim" \notin Marked /\ "query" \notin Marked /\ "cclaim" \notin Marked
        /\ "xclaim" \notin Marked /\ "xrec" \notin Marked /\ "idle" \notin Marked
    BY DEF Marked
  <1>6. ASSUME StartSync(w) \/ Crash(w) PROVE Proceeds
    <2> DEFINE c == [Rest EXCEPT !.job = "sync"]
    <2>1. c.seen = NoSnapshot
      BY DEF Rest
    <2>2. Done(w) \/ (Goto(w, "syncfetch", c) /\ "sync" \in Jobs)
      BY <1>6 DEF StartSync, Crash
    <2> HIDE DEF c
    <2>3. "sync" \in Jobs => Answers(w, c) /\ Enters(w, "syncfetch", c)
      BY <2>1 DEF Answers, Enters
    <2> QED
      BY <2>2, <2>3, ProceedsMove, ProceedsMoves
  <1>7. ASSUME NEW o \in Orders, PrepareNew(w, o) \/ StartQuery(w, o) PROVE Proceeds
    BY <1>4, <1>5, <1>7, ProceedsStay DEF PrepareNew, StartQuery
  <1>8. ASSUME NEW o \in Orders, PrepareReplay(w, o) PROVE Proceeds
    <2>1. ResumeStep(db[o]) \notin Marked
      BY <1>5 DEF ResumeStep
    <2> QED
      BY <1>4, <1>8, <2>1 DEF PrepareReplay
  <1>9. ASSUME NEW o \in Orders, StartCancel(w, o) \/ StartExpire(w, o) PROVE Proceeds
    BY <1>4, <1>5, <1>9 DEF StartCancel, StartExpire
  <1>10. ASSUME NEW o \in Orders, StartRecover(w, o) PROVE Proceeds
    <2> DEFINE suspect == Incomplete(db[o]) \/ db[o].sub = "pending_recovery"
               c == [Rest EXCEPT !.o = o, !.job = "recover", !.suspect = suspect]
    <2>1. RecoverStep(db[o]) \notin Marked
      BY <1>5 DEF RecoverStep, ResumeStep
    <2>2. c.seen = NoSnapshot /\ Goto(w, RecoverStep(db[o]), c)
      BY <1>3, <1>10 DEF StartRecover
    <2> HIDE DEF c
    <2> QED
      BY <2>1, <2>2, ProceedsMoves
  <1> QED
    BY <1>6, <1>7, <1>8, <1>9, <1>10 DEF WorkerStarts

\* Every step.
LEMMA NextProceeds ==
    ASSUME IInv, [Next]_vars
    PROVE  Proceeds
  <1>1. ASSUME NEW w \in Workers, WorkerCalls(w) PROVE Proceeds
    BY <1>1, SendersProceed, CallsProceed DEF WorkerCalls
  <1>2. ASSUME NEW w \in Workers, WorkerStarts(w) \/ Crash(w) PROVE Proceeds
    BY <1>2, StartsProceed
  <1>3. ASSUME NEW o \in Orders, VenueActs(o) PROVE Proceeds
    BY <1>3, ProceedsStay DEF VenueActs, Arrive, VenueAcknowledge, VenueReject, VenueFill,
                              ShowFill, CompleteCancel, ExpireIoc, VenueMoves
  <1>4. CASE TriggerKill \/ UNCHANGED vars
    BY <1>4, ProceedsStay DEF TriggerKill, vars
  <1>5. CASE Tick
    <2>1. \A w \in Workers : ctx'[w].o = ctx[w].o /\ ctx'[w].seen = ctx[w].seen
      BY <1>5 DEF Tick, IInv, CtxInv, CtxFine, Contexts
    <2>2. pc' = pc
      BY <1>5 DEF Tick
    <2> QED
      BY <2>1, <2>2 DEF Proceeds, Answers, Enters
  <1> QED
    BY <1>1, <1>2, <1>3, <1>4, <1>5 DEF Next

-----------------------------------------------------------------------------
(* One order's rows.                                                       *)

\* A worker has been refused by the venue and is about to record it.
Rejecting == \E w \in Workers : pc[w] = "rej"
\* What a transaction about an order that is on record leaves behind.
Safely(r, s, v) == /\ RowSafe(s, v) /\ r.filled <= s.filled
                   /\ (s.res = "none") = (r.res = "none")
                   /\ s.res = "open" => r.res = "open"
                   /\ s.dis.st = "explicitly_rejected" => r.dis.st = s.dis.st \/ Rejecting

\* A transaction that books nothing, closes the order only if it is over, and
\* does not turn it away.
Advances(r, s, v) ==
    /\ s.filled = r.filled
    /\ \/ s.res = r.res
       \/ /\ s.res \in {"consumed", "released"} /\ r.res # "none"
          /\ Over(v) /\ s.filled = v.cum
    /\ s.proj = r.proj \/ (s.proj.disp # "active" => Over(v) /\ s.proj.cum = v.cum)
    /\ \/ s.dis.st = r.dis.st
       \/ r.dis.st \notin {"none", "explicitly_rejected"} /\ s.dis.st # "explicitly_rejected"
    /\ s.sub = "none" => r.sub = "none"
    /\ s.exp.st # "none" => r.exp.st # "none" \/ (Known(v) /\ "expire" \in Jobs)

\* Such a transaction is safe.
LEMMA SafeStep ==
    ASSUME NEW v, NEW r, RowSafe(r, v), r.filled \in Nat, NEW s, Advances(r, s, v)
    PROVE  Safely(r, s, v)
  <1> USE DEF Advances
  <1>1. r.res = "none" => r.dis.st = "none" /\ s.dis.st = "none"
    BY DEF RowSafe
  <1>2. r.sub = "none" => r.res = "none"
    BY DEF RowSafe
  <1>3. s.proj.disp # "active" => Over(v) /\ s.proj.cum = v.cum
    BY DEF RowSafe
  <1>4. s.res \in {"consumed", "released"} =>
           /\ s.filled = v.cum
           /\ Over(v) \/ (v.st = "none" /\ s.dis.st = "explicitly_rejected")
    BY DEF RowSafe
  <1>5. s.dis.st = "explicitly_rejected" => r.dis.st = s.dis.st /\ v.st = "none"
                                            /\ "rejected" \in Outcomes
    BY DEF RowSafe
  <1>6. s.res = "none" <=> r.res = "none"
    OBVIOUS
  <1>7. s.exp.st # "none" => Known(v) /\ "expire" \in Jobs
    BY DEF RowSafe
  <1>8. s.res = "none" => v.st = "none" /\ s.dis.st = "none"
    BY <1>1, <1>6 DEF RowSafe
  <1>9. RowSafe(s, v)
    BY <1>2, <1>3, <1>4, <1>5, <1>6, <1>7, <1>8 DEF RowSafe
  <1> QED
    BY <1>5, <1>6, <1>9 DEF Safely

\* The hypotheses of the lemmas about one order.
RowHeld(row, v) == RowGood(row, v) /\ RowSafe(row, v) /\ VenueGood(v) /\ VenueOver(v)

\* So is none at all.
LEMMA StaySafe == ASSUME NEW v, NEW row, RowHeld(row, v) PROVE Safely(row, row, v)
  BY SafeStep DEF RowHeld, RowGood, RowInv, Rows, Advances

\* And one after another.
LEMMA SafelyTrans ==
    ASSUME NEW v, NEW r, NEW s, NEW t, r.filled \in Nat, s.filled \in Nat, t.filled \in Nat,
           Safely(r, s, v), Safely(s, t, v)
    PROVE  Safely(r, t, v)
  BY DEF Safely

\* A transaction about the outboxes.
LEMMA BoxesSafe ==
    ASSUME NEW v, NEW row, RowHeld(row, v), NEW w, NEW age
    PROVE  /\ ClaimDispatchOK(row) => Safely(row, ClaimDispatch(row, w, age), v)
           /\ Safely(row, ClaimDispatchRecovery(row, w, age), v)
           /\ Ambiguous(row.dis) => Safely(row, DispatchUnknown(row), v)
           /\ Safely(row, PrepareCancel(row), v)
           /\ Safely(row, ClaimCancel(row, w, age), v)
           /\ Safely(row, ClaimCancelRecovery(row, w, age), v)
           /\ Safely(row, CancelUnknown(row), v)
           /\ Known(v) /\ "expire" \in Jobs => Safely(row, PrepareExpiry(row), v)
           /\ ClaimExpiryOK(row) => Safely(row, ClaimExpiry(row, w, age), v)
           /\ Safely(row, ClaimExpiryRecovery(row, w, age), v)
           /\ row.exp.st # "none" => Safely(row, ExpiryUnknown(row), v)
           /\ Safely(row, RowTick(row), v)
  <1>1. /\ row \in Rows /\ row.dis \in Boxes /\ row.can \in Boxes /\ row.exp \in Boxes
        /\ RowSafe(row, v) /\ row.filled \in Nat
    BY DEF RowHeld, RowGood, RowInv, Rows
  <1>2. ASSUME NEW s, s.filled = row.filled, s.res = row.res, s.proj = row.proj,
               \/ s.dis.st = row.dis.st
               \/ row.dis.st \notin {"none", "explicitly_rejected"}
                     /\ s.dis.st # "explicitly_rejected",
               s.sub = "none" => row.sub = "none",
               s.exp.st # "none" => row.exp.st # "none" \/ (Known(v) /\ "expire" \in Jobs)
        PROVE  Safely(row, s, v)
    BY <1>1, <1>2, SafeStep DEF Advances
  <1>3. /\ ClaimDispatchOK(row) => Safely(row, ClaimDispatch(row, w, age), v)
        /\ Safely(row, ClaimDispatchRecovery(row, w, age), v)
        /\ Ambiguous(row.dis) => Safely(row, DispatchUnknown(row), v)
    BY <1>1, <1>2 DEF Rows, Boxes, Ambiguous, ClaimDispatchOK, ClaimDispatch,
           ClaimDispatchRecovery, DispatchUnknown, Claimed, RecoveryClaimed
  <1>4. /\ Safely(row, PrepareCancel(row), v)
        /\ Safely(row, ClaimCancel(row, w, age), v)
        /\ Safely(row, ClaimCancelRecovery(row, w, age), v)
        /\ Safely(row, CancelUnknown(row), v)
    BY <1>1, <1>2 DEF Rows, PrepareCancel, ClaimCancel, ClaimCancelRecovery, CancelUnknown
  <1>5. /\ Known(v) /\ "expire" \in Jobs => Safely(row, PrepareExpiry(row), v)
        /\ ClaimExpiryOK(row) => Safely(row, ClaimExpiry(row, w, age), v)
        /\ Safely(row, ClaimExpiryRecovery(row, w, age), v)
        /\ row.exp.st # "none" => Safely(row, ExpiryUnknown(row), v)
    BY <1>1, <1>2 DEF Rows, Boxes, PrepareExpiry, ClaimExpiryOK, ClaimExpiry,
           ClaimExpiryRecovery, ExpiryUnknown, Claimed, RecoveryClaimed
  <1>6. Safely(row, RowTick(row), v)
    BY <1>1, <1>2 DEF Rows, Boxes, RowTick, BoxTick
  <1> QED
    BY <1>3, <1>4, <1>5, <1>6

\* What closing the budget does to the reservation.
LEMMA SettledRes ==
    ASSUME NEW row \in Rows, NEW st
    PROVE  /\ row.res # "open" => Settled(row, st).res = row.res
           /\ row.res = "open" => Settled(row, st).res \in {"consumed", "released"}
           /\ Closed(row).res = row.res
  BY DEF Settled, Closed, Released, Rows

\* A dispatch is decided: the submission and what it learnt change with it.
DecidedRow(row, st, sub, ords) == [row EXCEPT !.dis = Decided(st), !.sub = sub, !.ords = ords]
\* A transaction that decides the dispatch and nothing else.
Deciding(row, r, st) == /\ r \in Rows /\ r.dis.st = st /\ r.sub # "none"
                        /\ SameLedger(row, r) /\ r.exp = row.exp /\ r.res = row.res

\* It leaves a row that is held.
LEMMA DecidingRow ==
    ASSUME NEW row \in Rows, NEW st \in BoxStates, NEW sub \in SubStates \ {"none"},
           NEW ords \in SUBSET Snapshots
    PROVE  Deciding(row, DecidedRow(row, st, sub, ords), st)
  <1>1. NoBox \in Boxes
    BY NoRowInv DEF RowInv, NoRow, Rows
  <1>2. Decided(st) \in Boxes /\ Decided(st).st = st
    BY <1>1 DEF Decided, Boxes
  <1> QED
    BY <1>2 DEF Deciding, DecidedRow, Rows, SameLedger

\* Deciding a dispatch.
LEMMA DispatchesSafe ==
    ASSUME NEW v, NEW row, RowHeld(row, v), Ambiguous(row.dis), NEW ord \in Snapshots
    PROVE  /\ Safely(row, Acknowledge(row, ord), v)
           /\ Final(ord, v) => Safely(row, DispatchRecovered(row, ord), v)
           /\ v.st = "none" /\ "rejected" \in Outcomes /\ Rejecting => Safely(row, Reject(row), v)
  <1>1. /\ row \in Rows /\ RowSafe(row, v) /\ row.filled \in Nat
        /\ row.dis.st \notin {"none", "explicitly_rejected"}
    BY DEF RowHeld, RowGood, RowInv, Rows, Ambiguous
  <1>2. row.res # "none"
    BY <1>1 DEF RowSafe
  <1>3. {"acknowledged", "explicitly_rejected", "recovered"} \subseteq BoxStates
    BY DEF BoxStates
  <1>4. row.ords \cup {ord} \in SUBSET Snapshots /\ row.ords \in SUBSET Snapshots
    BY <1>1 DEF Rows
  <1>5. Safely(row, Acknowledge(row, ord), v)
    <2> DEFINE sub == IF FillComplete(row, ord.cum) THEN "pending_ack" ELSE "pending_recovery"
               r == DecidedRow(row, "acknowledged", sub, row.ords \cup {ord})
    <2>1. sub \in SubStates \ {"none"}
      BY DEF SubStates
    <2>2. Acknowledge(row, ord) = r
      BY <1>1 DEF Acknowledge, DecidedRow, Rows
    <2> HIDE DEF sub
    <2>3. Deciding(row, r, "acknowledged")
      BY <1>1, <1>3, <1>4, <2>1, DecidingRow
    <2> HIDE DEF r
    <2>4. Advances(row, r, v)
      BY <1>1, <2>3 DEF Deciding, SameLedger, Advances
    <2> QED
      BY <1>1, <2>2, <2>4, SafeStep
  <1>6. ASSUME Final(ord, v) PROVE Safely(row, DispatchRecovered(row, ord), v)
    <2> DEFINE r == DecidedRow(row, "recovered", StateOf(row, ord), row.ords \cup {ord})
               s == DispatchRecovered(row, ord)
    <2>1. StateOf(row, ord) \in SubStates \ {"none"}
      BY <1>1 DEF StateOf, SubmissionState, SubStates, Snapshots, OrderStates, Open, Terminal, Rows
    <2>2. Deciding(row, r, "recovered")
      BY <1>1, <1>3, <1>4, <2>1, DecidingRow
    <2>3. s = IF ord.st \in Terminal /\ FillComplete(row, ord.cum) THEN Settled(r, ord.st) ELSE r
      BY <1>1 DEF DispatchRecovered, DecidedRow, Rows
    <2> HIDE DEF r, s
    <2>4. CASE s = r
      <3>1. Advances(row, s, v)
        BY <1>1, <2>2, <2>4 DEF Deciding, SameLedger, Advances
      <3> QED
        BY <1>1, <3>1, SafeStep DEF s
    <2>5. CASE s = Settled(r, ord.st) /\ ord.st \in Terminal /\ row.filled = ord.cum
      <3>1. Over(v) /\ row.filled = v.cum
        BY <1>6, <2>5 DEF Final
      <3>2. r \in Rows
        BY <2>2 DEF Deciding
      <3>3. SameLedger(r, s) /\ SameBoxes(r, s) /\ s.sub = r.sub
        BY <2>5, <3>2, SettledKeeps
      <3>4. s.res = r.res \/ s.res \in {"consumed", "released"}
        BY <2>5, <3>2, SettledRes DEF Rows
      <3>5. Advances(row, s, v)
        BY <1>1, <1>2, <2>2, <3>1, <3>3, <3>4 DEF Deciding, SameLedger, SameBoxes, Advances
      <3> QED
        BY <1>1, <3>5, SafeStep DEF s
    <2> QED
      BY <2>3, <2>4, <2>5 DEF s, FillComplete
  <1>7. ASSUME v.st = "none", "rejected" \in Outcomes, Rejecting
        PROVE  Safely(row, Reject(row), v)
    <2> DEFINE r == DecidedRow(row, "explicitly_rejected", "rejected", row.ords)
               s == Reject(row)
    <2>1. "rejected" \in SubStates \ {"none"}
      BY DEF SubStates
    <2>2. Deciding(row, r, "explicitly_rejected")
      BY <1>1, <1>3, <1>4, <2>1, DecidingRow
    <2>3. s = Settled(r, "rejected")
      BY <1>1 DEF Reject, DecidedRow, Rows
    <2> HIDE DEF r, s
    <2>4. r \in Rows
      BY <2>2 DEF Deciding
    <2>5. SameLedger(r, s) /\ SameBoxes(r, s) /\ s.sub = r.sub
      BY <2>3, <2>4, SettledKeeps
    <2>6. /\ s.filled = row.filled /\ s.proj = row.proj /\ s.dis.st = "explicitly_rejected"
          /\ s.exp.st = row.exp.st /\ s.sub # "none"
      BY <2>2, <2>5 DEF Deciding, SameLedger, SameBoxes
    <2>7. /\ r.res # "open" => s.res = r.res
          /\ r.res = "open" => s.res \in {"consumed", "released"}
      BY <2>3, <2>4, SettledRes
    <2>8. s.res # "none" /\ (s.res = "open" => row.res = "open")
      BY <1>2, <2>2, <2>7 DEF Deciding
    <2>9. row.filled = 0 /\ v.cum = 0
      <3>1. v.cum = 0
        BY <1>7 DEF RowHeld, VenueOver
      <3>2. row.filled <= v.cum
        BY Totals DEF RowHeld, RowGood, RowInStep, VenueGood, VenueFine, VenueInStep, VenueOrders
      <3> QED
        BY <1>1, <3>1, <3>2
    <2>10. ~Over(v) /\ ~Known(v)
      BY <1>7 DEF Over, Terminal, Known
    <2>11. RowSafe(s, v)
      BY <1>1, <1>7, <2>6, <2>8, <2>9, <2>10 DEF RowSafe
    <2>12. row.filled <= s.filled
      BY <1>1, <2>6
    <2> QED
      BY <1>2, <1>7, <2>6, <2>8, <2>11, <2>12 DEF Safely, s
  <1> QED
    BY <1>5, <1>6, <1>7

\* What an observation does to a row.
Observation(row, ord, s) ==
    /\ s \in Rows /\ s.filled = row.filled /\ SameBoxes(row, s)
    /\ s.sub = "none" => row.sub = "none"
    /\ s.proj.cum = ord.cum /\ (s.proj = row.proj \/ s.proj.disp = Disposition(row, ord))
    /\ \/ s.res = row.res
       \/ /\ row.res = "open" /\ s.res \in {"consumed", "released"}
          /\ Disposition(row, ord) # "active" /\ row.filled = ord.cum
          /\ s.proj.disp = Disposition(row, ord)

\* Observe is such an observation.
LEMMA Observing ==
    ASSUME NEW row \in Rows, NEW ord \in Snapshots
    PROVE  Observation(row, ord, Observe(row, ord))
  <1> DEFINE p == Projected(row, ord)
             s == Observe(row, ord)
  <1>1. /\ ord.seq \in Nat /\ ord.cum \in Nat /\ Authority(row, ord) \in SubStates \ {"none"}
        /\ Disposition(row, ord) \in Terminal \cup {"active"} /\ Canonical(row, ord) \in Snapshots
        /\ ord.st \in OrderStates
    BY AuthorityFinal DEF Snapshots
  <1>2. /\ p \in Rows /\ p.filled = row.filled /\ SameBoxes(row, p) /\ p.res = row.res
        /\ p.sub # "none" /\ p.proj.disp = Disposition(row, ord) /\ p.proj.cum = ord.cum
    <2>1. [on |-> TRUE, seq |-> ord.seq, cum |-> ord.cum, observed |-> ord.st,
           disp |-> Disposition(row, ord), auth |-> Authority(row, ord),
           complete |-> FillComplete(row, ord.cum)] \in Projections
      BY <1>1 DEF Projections, FillComplete
    <2>2. row.obs \cup {ord} \in SUBSET Snapshots
          /\ row.ords \cup {Canonical(row, ord)} \in SUBSET Snapshots
      BY <1>1 DEF Rows
    <2> QED
      BY <1>1, <2>1, <2>2 DEF Projected, Rows, SameBoxes
  <1> HIDE DEF p
  <1>3. s \in Rows
    BY ObservedRow
  <1>4. CASE s = row /\ Unchanged(row, ord)
    BY <1>4 DEF Observation, SameBoxes, Unchanged
  <1>5. ASSUME SameLedger(p, s), SameBoxes(p, s), s.sub = p.sub,
               \/ s.res = p.res
               \/ p.res = "open" /\ s.res \in {"consumed", "released"} /\ Settles(row, ord)
        PROVE  Observation(row, ord, s)
    <2> HIDE DEF s
    <2>1. /\ s.filled = row.filled /\ SameBoxes(row, s) /\ s.sub # "none"
          /\ s.proj.disp = Disposition(row, ord) /\ s.proj.cum = ord.cum
      BY <1>2, <1>5 DEF SameLedger, SameBoxes
    <2>2. \/ s.res = row.res
          \/ /\ row.res = "open" /\ s.res \in {"consumed", "released"}
             /\ Disposition(row, ord) # "active" /\ row.filled = ord.cum
             /\ s.proj.disp = Disposition(row, ord)
      BY <1>2, <1>5, <2>1 DEF Settles, FillComplete
    <2> QED
      BY <1>3, <2>1, <2>2 DEF Observation
  <1>6. CASE s = p
    BY <1>5, <1>6 DEF SameLedger, SameBoxes
  <1>7. CASE s = Closed(p)
    <2>1. SameLedger(p, Closed(p)) /\ SameBoxes(p, Closed(p)) /\ Closed(p).sub = p.sub
          /\ Closed(p).res = p.res
      BY <1>2 DEF Closed, SameLedger, SameBoxes, Rows
    <2> QED
      BY <1>5, <1>7, <2>1
  <1>8. CASE s = Settled(p, Disposition(row, ord)) /\ Settles(row, ord)
    <2> DEFINE t == Settled(p, Disposition(row, ord))
    <2>1. SameLedger(p, t) /\ SameBoxes(p, t) /\ t.sub = p.sub
      BY <1>2, SettledKeeps
    <2>2. /\ p.res # "open" => t.res = p.res
          /\ p.res = "open" => t.res \in {"consumed", "released"}
      BY <1>2, SettledRes
    <2> HIDE DEF t
    <2>3. s = t
      BY <1>8 DEF t
    <2> QED
      BY <1>5, <1>8, <2>1, <2>2, <2>3
  <1> QED
    BY <1>4, <1>6, <1>7, <1>8 DEF Observe, p

\* An observation that tells of an end only when the order is over.
LEMMA ObserveSafe ==
    ASSUME NEW v, NEW row, RowHeld(row, v), NEW ord \in Snapshots, NotAhead(ord, v),
           Final(ord, v), ObserveOK(row, ord)
    PROVE  Safely(row, Observe(row, ord), v)
  <1> DEFINE s == Observe(row, ord)
  <1>1. /\ row \in Rows /\ RowSafe(row, v) /\ row.filled \in Nat /\ ord.cum \in Nat
        /\ v.cum \in Nat /\ row.proj.cum \in Nat
    BY DEF RowHeld, RowGood, RowInv, Rows, Snapshots, VenueGood, VenueFine, VenueOrders, Projections
  <1>2. ASSUME Disposition(row, ord) # "active" PROVE Over(v) /\ ord.cum = v.cum
    <2>1. CASE row.proj.disp # "active"
      <3>1. Over(v) /\ row.proj.cum = v.cum
        BY <1>1, <2>1 DEF RowSafe
      <3>2. row.proj.on
        BY <2>1 DEF RowHeld, RowGood, RowInv, NoProjection
      <3>3. row.proj.cum <= ord.cum /\ ord.cum <= v.cum
        BY <3>2 DEF ObserveOK, NotAhead
      <3> QED
        BY <1>1, <3>1, <3>3
    <2>2. CASE row.proj.disp = "active"
      BY <1>2, <2>2 DEF Disposition, Final
    <2> QED
      BY <2>1, <2>2
  <1>3. Observation(row, ord, s)
    BY <1>1, Observing
  <1> HIDE DEF s
  <1>4. s.proj = row.proj \/ (s.proj.disp # "active" => Over(v) /\ s.proj.cum = v.cum)
    BY <1>2, <1>3 DEF Observation
  <1>5. \/ s.res = row.res
        \/ s.res \in {"consumed", "released"} /\ row.res # "none" /\ Over(v) /\ s.filled = v.cum
    BY <1>2, <1>3 DEF Observation
  <1>6. Advances(row, s, v)
    BY <1>3, <1>4, <1>5 DEF Observation, Advances, SameBoxes
  <1> QED
    BY <1>1, <1>6, SafeStep DEF s

\* A step that decides a cancellation or an expiry as well.
LEMMA OutcomesSafe ==
    ASSUME NEW v, NEW row, RowHeld(row, v), NEW ord \in Snapshots \cup {NoSnapshot},
           NotAhead(ord, v), Final(ord, v)
    PROVE  /\ CancelOutcomeOK(row, ord) => Safely(row, CancelOutcome(row, ord), v)
           /\ ExpiryOutcomeOK(row, ord) /\ row.exp.st # "none"
                 => Safely(row, ExpiryOutcome(row, ord), v)
  <1>1. CASE ord.st \notin Terminal
    <2>1. CancelOutcome(row, ord) = CancelUnknown(row) /\ ExpiryOutcome(row, ord) = ExpiryUnknown(row)
      BY <1>1 DEF CancelOutcome, ExpiryOutcome
    <2> QED
      BY <2>1, BoxesSafe
  <1>2. CASE ord.st \in Terminal
    <2> DEFINE s == Observe(row, ord)
    <2>1. ord \in Snapshots
      BY <1>2 DEF NoSnapshot, Terminal
    <2>2. row \in Rows /\ RowSafe(row, v) /\ row.filled \in Nat
      BY DEF RowHeld, RowGood, RowInv, Rows
    <2>3. ObserveOK(row, ord) => Safely(row, s, v)
      BY <2>1, ObserveSafe
    <2>4. s \in Rows /\ SameBoxes(row, s)
      BY <2>1, <2>2, Observing DEF Observation
    <2> HIDE DEF s
    <2>5. ASSUME NEW c, c.filled = s.filled, c.res = s.res, c.proj = s.proj, c.sub = s.sub,
                 c.dis.st = s.dis.st, c.exp.st = s.exp.st \/ row.exp.st # "none",
                 ObserveOK(row, ord)
          PROVE  Safely(row, c, v)
      <3>1. Safely(row, s, v)
        BY <2>3, <2>5
      <3>2. c.exp.st # "none" => Known(v) /\ "expire" \in Jobs
        BY <2>2, <2>4, <2>5 DEF RowSafe, SameBoxes
      <3>3. RowSafe(c, v)
        BY <2>5, <3>1, <3>2 DEF RowSafe, Safely
      <3> QED
        BY <2>5, <3>1, <3>3 DEF Safely
    <2>6. CancelOutcomeOK(row, ord) => Safely(row, CancelOutcome(row, ord), v)
      <3> DEFINE box == [Decided(IF ord.st = "cancelled" THEN "confirmed" ELSE "superseded")
                           EXCEPT !.owner = row.can.owner]
                 c == [s EXCEPT !.can = box]
      <3>1. CancelOutcome(row, ord) = c
        BY <1>2 DEF CancelOutcome, CancelDone, s
      <3> HIDE DEF box
      <3>2. /\ c.filled = s.filled /\ c.res = s.res /\ c.proj = s.proj /\ c.sub = s.sub
            /\ c.dis.st = s.dis.st /\ c.exp.st = s.exp.st
        BY <2>4 DEF Rows
      <3> HIDE DEF c
      <3> QED
        BY <1>2, <2>5, <3>1, <3>2 DEF CancelOutcomeOK
    <2>7. ExpiryOutcomeOK(row, ord) /\ row.exp.st # "none" => Safely(row, ExpiryOutcome(row, ord), v)
      <3> DEFINE c == [s EXCEPT !.exp.st = "confirmed"]
      <3>1. ExpiryOutcome(row, ord) = c
        BY <1>2 DEF ExpiryOutcome, s
      <3>2. /\ c.filled = s.filled /\ c.res = s.res /\ c.proj = s.proj /\ c.sub = s.sub
            /\ c.dis.st = s.dis.st
        BY <2>4 DEF Rows
      <3> HIDE DEF c
      <3> QED
        BY <1>2, <2>5, <3>1, <3>2 DEF ExpiryOutcomeOK
    <2> QED
      BY <2>6, <2>7
  <1> QED
    BY <1>1, <1>2

-----------------------------------------------------------------------------
(* Fills, one order's.                                                     *)

\* The ends of an order that is not filled, and a reservation no longer open.
Ends == {"cancelled", "expired", "rejected"}
ClosedRes(row) == row.res \in {"consumed", "released"}

\* What booking one fill does to a row.
Booking(row, f, vo, s) ==
    /\ s.filled = row.filled + f.qty /\ s.proj.cum = s.filled /\ SameBoxes(row, s)
    /\ s.sub = "none" => row.sub = "none"
    /\ s.proj.disp # "active" => row.proj.disp # "active" \/ vo.st \in Ends \/ s.filled = Qty
    /\ (s.res = "none") = (row.res = "none")
    /\ s.res = "open" => row.res = "open"
    /\ ClosedRes(s) => ClosedRes(row) \/ s.filled = Qty \/ s.proj.disp # "active"

\* Booking one fill.
LEMMA FillBooks ==
    ASSUME NEW v, VenueGood(v), NEW row, RowGood(row, v), NEW i \in 1 .. Len(v.fills),
           NEW vo \in Snapshots, PersistFillOK(row, i, v.fills[i], vo)
    PROVE  Booking(row, v.fills[i], vo, PersistFill(row, i, v.fills[i], vo))
  <1> DEFINE f == v.fills[i]
             b == Booked(row, i, f)
             ord == BookedOrder(row, f, vo)
             s == Observe(b, ord)
  <1>1. f \in Fills /\ i \in Nat
    BY DEF VenueGood, VenueFine, VenueOrders
  <1>2. /\ row \in Rows /\ RowInv(row) /\ f.qty \in Nat \ {0} /\ f.seq \in Nat /\ vo.seq \in Nat
        /\ row.filled \in Nat /\ row.resQty \in Nat
        /\ row.res \in {"none", "open", "consumed", "released"}
    BY <1>1 DEF RowGood, RowInv, Rows, Fills, Snapshots
  <1>3. /\ ord \in Snapshots /\ ord.cum = row.filled + f.qty
        /\ ord.st \in Terminal => vo.st \in Ends \/ row.filled + f.qty = Qty
    BY <1>2 DEF BookedOrder, Snapshots, OrderStates, Open, Terminal, Ends
  <1>4. /\ b \in Rows /\ b.filled = row.filled + f.qty
        /\ b.proj = row.proj /\ b.sub = row.sub /\ SameBoxes(row, b)
        /\ \/ b.res = row.res
           \/ row.res = "open" /\ b.res = "consumed" /\ row.filled + f.qty = Qty
    <2> DEFINE r == [row EXCEPT !.fills = row.fills \cup {i}, !.filled = row.filled + f.qty]
    <2>1. row.fills \cup {i} \in SUBSET Nat /\ row.filled + f.qty \in Nat
      BY <1>2, <1>1 DEF Rows
    <2>2. /\ r \in Rows /\ r.filled = row.filled + f.qty /\ r.res = row.res
          /\ r.proj = row.proj /\ r.sub = row.sub /\ SameBoxes(row, r)
      BY <1>2, <2>1 DEF Rows, SameBoxes
    <2> HIDE DEF r
    <2>3. CASE row.res # "open"
      <3>1. b = r
        BY <2>3 DEF Booked, r
      <3> QED
        BY <2>2, <3>1
    <2>4. CASE row.res = "open"
      <3> DEFINE res == IF row.resQty = f.qty THEN "consumed" ELSE "open"
                 left == row.resQty - f.qty
      <3>1. left \in Nat /\ res \in {"consumed", "open"}
        BY <1>2, <2>4 DEF PersistFillOK
      <3>2. b = [r EXCEPT !.resQty = left, !.res = res]
        BY <2>4 DEF Booked, r
      <3>3. res = "consumed" => row.filled + f.qty = Qty
        BY <1>2, <2>4 DEF RowInv
      <3>4. res = row.res \/ res = "consumed"
        BY <2>4
      <3> HIDE DEF res, left, b
      <3>5. b \in Rows /\ b.filled = r.filled /\ b.proj = r.proj /\ b.sub = r.sub
            /\ SameBoxes(r, b) /\ b.res = res
        BY <2>2, <3>1, <3>2 DEF Rows, SameBoxes
      <3> QED
        BY <2>2, <2>4, <3>3, <3>4, <3>5 DEF SameBoxes
    <2> QED
      BY <2>3, <2>4
  <1> HIDE DEF b, ord
  <1>5. Observation(b, ord, s)
    BY <1>3, <1>4, Observing
  <1>6. Disposition(b, ord) # "active" => row.proj.disp # "active" \/ ord.st \in Terminal
    BY <1>4 DEF Disposition
  <1> HIDE DEF s
  <1>7. /\ s.filled = row.filled + f.qty /\ s.proj.cum = s.filled /\ SameBoxes(row, s)
        /\ s.sub = "none" => row.sub = "none"
    BY <1>3, <1>4, <1>5 DEF Observation, SameBoxes
  <1>8. s.proj.disp # "active" => row.proj.disp # "active" \/ vo.st \in Ends \/ s.filled = Qty
    BY <1>3, <1>4, <1>5, <1>6 DEF Observation
  <1>9. /\ (s.res = "none") = (row.res = "none")
        /\ s.res = "open" => row.res = "open"
    BY <1>4, <1>5 DEF Observation
  <1>10. ClosedRes(s) => ClosedRes(row) \/ s.filled = Qty \/ s.proj.disp # "active"
    BY <1>3, <1>4, <1>5, <1>7 DEF Observation, ClosedRes
  <1>11. PersistFill(row, i, f, vo) = s
    BY DEF PersistFill, s, b, ord
  <1> QED
    BY <1>7, <1>8, <1>9, <1>10, <1>11 DEF Booking

\* What a row has booked, the venue has executed.
LEMMA FilledInStep ==
    ASSUME NEW v, VenueGood(v), NEW row, RowGood(row, v)
    PROVE  /\ row.filled \in Nat /\ v.cum \in Nat /\ row.filled <= v.cum
           /\ row.filled = Total(v.fills, row.fills)
           /\ \A s \in SUBSET row.fills : Total(v.fills, s) <= row.filled
  <1>1. /\ v.fills \in Seq(Fills) /\ v.cum \in Nat
        /\ v.cum = Total(v.fills, 1 .. Len(v.fills))
    BY DEF VenueGood, VenueFine, VenueInStep, VenueOrders
  <1>2. /\ row.filled \in Nat /\ row.filled = Total(v.fills, row.fills)
        /\ row.fills \subseteq 1 .. Len(v.fills)
    BY DEF RowGood, RowInv, RowInStep, Rows
  <1>3. Total(v.fills, row.fills) <= Total(v.fills, 1 .. Len(v.fills))
    BY <1>1, <1>2, Totals
  <1>4. \A s \in SUBSET row.fills : Total(v.fills, s) <= Total(v.fills, row.fills)
    BY <1>1, <1>2, SumsGrow
  <1> QED
    BY <1>1, <1>2, <1>3, <1>4

\* A fill was executed: the order is known and was not turned away.
LEMMA ExecutedKnown ==
    ASSUME NEW v, VenueOver(v), v.cum \in Nat \ {0}, NEW row, RowSafe(row, v)
    PROVE  Known(v) /\ row.res # "none" /\ row.dis.st # "explicitly_rejected"
  <1>1. v.st \notin {"none", "in_flight"}
    BY DEF VenueOver
  <1> QED
    BY <1>1 DEF Known, RowSafe

\* The last fills of an order that is over.
LEMMA EndSafe ==
    ASSUME NEW v, VenueGood(v), VenueOver(v), NEW row, RowSafe(row, v), NEW t, SameBoxes(row, t),
           v.cum \in Nat \ {0}, Over(v), t.filled = v.cum, t.proj.cum = v.cum,
           t.sub = "none" => row.sub = "none", (t.res = "none") = (row.res = "none"),
           t.res = "open" => row.res = "open", row.filled <= t.filled
    PROVE  Safely(row, t, v)
  <1>1. Known(v) /\ row.res # "none" /\ row.dis.st # "explicitly_rejected"
    BY ExecutedKnown
  <1>2. RowSafe(t, v)
    BY <1>1 DEF RowSafe, SameBoxes
  <1> QED
    BY <1>1, <1>2 DEF Safely, SameBoxes

\* One fill, booked under an order that tells of an end only with the last one.
LEMMA FillSafe ==
    ASSUME NEW v, VenueGood(v), VenueOver(v), NEW row, RowGood(row, v), RowSafe(row, v),
           NEW f \in Fills, NEW vo, NEW s, RowGood(s, v), Booking(row, f, vo, s),
           row.proj.cum <= s.proj.cum,
           vo.st \in Ends => Over(v) /\ s.filled = v.cum
    PROVE  Safely(row, s, v)
  <1>1. /\ row.filled \in Nat /\ s.filled \in Nat /\ v.cum \in Nat /\ s.filled <= v.cum
        /\ row.proj.cum \in Nat /\ f.qty \in Nat \ {0}
    BY FilledInStep DEF RowGood, RowInv, Rows, Projections, Fills
  <1>2. s.filled = row.filled + f.qty /\ s.proj.cum = s.filled /\ SameBoxes(row, s)
    BY DEF Booking
  <1>3. row.filled < s.filled /\ v.cum \in Nat \ {0} /\ row.filled <= s.filled /\ row.filled # v.cum
    BY <1>1, <1>2
  <1>4. Known(v) /\ row.res # "none" /\ row.dis.st # "explicitly_rejected"
    BY <1>3, ExecutedKnown
  <1>5. s.filled = Qty => Over(v) /\ s.filled = v.cum
    <2>1. v.cum <= Qty /\ Qty \in Nat
      BY QtyAssumption DEF VenueOver
    <2> QED
      BY <1>1, <2>1 DEF VenueOver
  <1>6. s.proj.disp # "active" => Over(v) /\ s.filled = v.cum
    <2>1. row.proj.disp # "active" => Over(v) /\ row.proj.cum = v.cum
      BY DEF RowSafe
    <2>2. row.proj.cum = v.cum => s.filled = v.cum
      BY <1>1, <1>2
    <2> QED
      BY <1>5, <2>1, <2>2 DEF Booking
  <1>7. ClosedRes(s) => Over(v) /\ s.filled = v.cum
    <2>1. ~ClosedRes(row)
      BY <1>3 DEF RowSafe, ClosedRes
    <2> QED
      BY <1>5, <1>6, <2>1 DEF Booking
  <1>8. /\ s.sub # "none" \/ row.sub = "none"
        /\ (s.res = "none") = (row.res = "none") /\ (s.res = "open" => row.res = "open")
    BY DEF Booking
  <1>9. RowSafe(s, v)
    BY <1>2, <1>4, <1>6, <1>7, <1>8 DEF RowSafe, SameBoxes, ClosedRes
  <1> QED
    BY <1>2, <1>3, <1>4, <1>8, <1>9 DEF Safely, SameBoxes

\* The fetched fills tell the whole order when it is reported as ended.
Apt(n, vo, v) == vo.st \in Ends /\ n > 0 => Over(v) /\ Total(v.fills, 1 .. n) = v.cum

\* A row and what booking some of its missing fills makes of it.
Onwards(row, s) ==
    /\ s.filled \in Nat /\ row.filled <= s.filled /\ SameBoxes(row, s)
    /\ s.sub = "none" => row.sub = "none"
    /\ (s.res = "none") = (row.res = "none")
    /\ s.res = "open" => row.res = "open"
    /\ s.fills # row.fills => s.filled # 0 /\ s.proj.cum = s.filled

LEMMA BookingOnwards ==
    ASSUME NEW row, row.filled \in Nat, NEW r, Onwards(row, r), NEW f \in Fills, NEW vo, NEW s,
           Booking(r, f, vo, s)
    PROVE  Onwards(row, s)
  <1>1. f.qty \in Nat \ {0} /\ r.filled \in Nat /\ row.filled <= r.filled
    BY DEF Fills, Onwards
  <1>2. s.filled = r.filled + f.qty /\ s.proj.cum = s.filled
    BY DEF Booking
  <1> DEFINE q == f.qty
  <1>3. q \in Nat \ {0} /\ s.filled = r.filled + q
    BY <1>1, <1>2
  <1> HIDE DEF q
  <1>4. s.filled \in Nat /\ row.filled <= s.filled /\ s.filled # 0
    BY <1>1, <1>3
  <1> QED
    BY <1>2, <1>4 DEF Onwards, Booking, SameBoxes

\* Booking every missing fill of the venue's first n.
LEMMA SyncFillsSafe ==
    ASSUME NEW v, NEW row, RowHeld(row, v), NEW n \in 0 .. Len(v.fills),
           NEW vo \in Snapshots \cup {NoSnapshot}, NotAhead(vo, v), Apt(n, vo, v),
           SyncFillsOK(row, v.fills, n, vo)
    PROVE  /\ RowHeld(SyncFills(row, v.fills, n, vo), v)
           /\ Safely(row, SyncFills(row, v.fills, n, vo), v)
  <1> DEFINE b == BookedUpto(row, v.fills, n, vo)
             all == SyncFills(row, v.fills, n, vo)
             LedgerAt(k) == row.fills \cup (Missing(row, n) \cap (1 .. k))
             Has == {k \in Nat : /\ RowGood(b[k], v) /\ b[k].fills = LedgerAt(k)
                                 /\ Onwards(row, b[k])
                                 /\ vo.st \notin Ends => Safely(row, b[k], v)}
  <1>1. /\ VenueGood(v) /\ VenueOver(v) /\ RowGood(row, v) /\ RowSafe(row, v) /\ RowInv(row)
        /\ v.fills \in Seq(Fills) /\ n \in Nat /\ n <= Len(v.fills) /\ Len(v.fills) \in Nat
        /\ \A k \in 1 .. Len(v.fills) : v.fills[k] \in Fills
    BY DEF RowHeld, RowGood, VenueGood, VenueFine, VenueOrders
  <1>2. RowGood(all, v)
    BY <1>1, SyncFillsCarries
  <1>3. Safely(row, all, v) => RowHeld(all, v) /\ Safely(row, all, v)
    BY <1>1, <1>2 DEF RowHeld, Safely
  <1>4. CASE Nothing(vo)
    <2>1. all = row
      BY <1>4 DEF SyncFills
    <2> QED
      BY <1>3, <2>1, StaySafe
  <1>5. CASE ~Nothing(vo)
    <2>1. vo \in Snapshots
      BY <1>5 DEF Nothing
    <2>2. all = b[n] /\ BookedInTurn(row, v.fills, n, vo, b)
      BY <1>1, <1>5, SyncFillsSteps
    <2>3. row.filled \in Nat
      BY <1>1, FilledInStep
    <2> HIDE DEF b, all
    <2>4. 0 \in Has
      <3>1. b[0] = row /\ LedgerAt(0) = row.fills
        BY <2>2 DEF BookedInTurn
      <3>2. Onwards(row, row)
        BY <2>3 DEF Onwards, SameBoxes
      <3> QED
        BY <1>1, <3>1, <3>2, StaySafe
    <2>5. ASSUME NEW k \in 1 .. n, k - 1 \in Has PROVE k \in Has
      <3> DEFINE r == b[k - 1]
      <3>1. /\ RowGood(r, v) /\ r.fills = LedgerAt(k - 1) /\ Onwards(row, r)
            /\ vo.st \notin Ends => Safely(row, r, v)
            /\ k \in Nat /\ k \in 1 .. Len(v.fills)
        BY <1>1, <2>5
      <3>2. 1 .. k = (1 .. (k - 1)) \cup {k} /\ k \notin 1 .. (k - 1)
        BY <3>1
      <3>3. CASE k \notin Missing(row, n)
        <4>1. b[k] = r
          BY <2>2, <3>3 DEF BookedInTurn
        <4>2. LedgerAt(k) = LedgerAt(k - 1)
          BY <3>2, <3>3
        <4> QED
          BY <3>1, <4>1, <4>2
      <3>4. CASE k \in Missing(row, n)
        <4>1. b[k] = PersistFill(r, k, v.fills[k], vo) /\ PersistFillOK(r, k, v.fills[k], vo)
          BY <2>2, <3>4 DEF BookedInTurn
        <4>2. k \notin r.fills /\ LedgerAt(k) = r.fills \cup {k} /\ v.fills[k] \in Fills
          BY <1>1, <3>1, <3>2, <3>4 DEF Missing
        <4> HIDE DEF r, LedgerAt
        <4>3. RowGood(b[k], v) /\ b[k].fills = r.fills \cup {k}
          BY <1>1, <2>1, <3>1, <4>1, <4>2, PersistFillCarries
        <4>4. Booking(r, v.fills[k], vo, b[k])
          BY <1>1, <2>1, <3>1, <4>1, <4>2, FillBooks
        <4>5. Onwards(row, b[k])
          BY <2>3, <3>1, <4>2, <4>4, BookingOnwards
        <4>6. r.proj.cum <= b[k].proj.cum
          BY <1>1, <2>1, <3>1, <4>1, <4>2, PersistFillSound DEF Sound, Kept, RowGood
        <4>7. ASSUME vo.st \notin Ends PROVE Safely(row, b[k], v)
          <5>1. Safely(row, r, v) /\ RowSafe(r, v)
            BY <3>1, <4>7 DEF Safely
          <5>2. Safely(r, b[k], v)
            BY <1>1, <3>1, <4>2, <4>3, <4>4, <4>6, <4>7, <5>1, FillSafe
          <5>3. r.filled \in Nat /\ b[k].filled \in Nat
            BY <1>1, <3>1, <4>3, FilledInStep
          <5> QED
            BY <2>3, <5>1, <5>2, <5>3, SafelyTrans
        <4> QED
          BY <3>1, <4>2, <4>3, <4>5, <4>7
      <3> QED
        BY <3>3, <3>4
    <2> HIDE DEF Has
    <2>6. n \in Has
      BY <1>1, <2>4, <2>5, BookedInduct
    <2>7. /\ RowGood(b[n], v) /\ b[n].fills = LedgerAt(n) /\ Onwards(row, b[n])
          /\ vo.st \notin Ends => Safely(row, b[n], v)
      BY <2>6 DEF Has
    <2>8. CASE vo.st \notin Ends
      BY <1>3, <2>2, <2>7, <2>8 DEF all
    <2>9. CASE b[n].fills = row.fills /\ vo.st \in Ends
      <3>1. Missing(row, n) = {}
        BY <2>7, <2>9 DEF Missing
      <3>2. all = row
        <4> DEFINE Same == {k \in Nat : b[k] = row}
        <4>1. 0 \in Same
          BY <2>2 DEF BookedInTurn
        <4>2. ASSUME NEW k \in 1 .. n, k - 1 \in Same PROVE k \in Same
          BY <1>1, <2>2, <3>1, <4>2 DEF BookedInTurn
        <4> HIDE DEF Same
        <4>3. n \in Same
          BY <1>1, <4>1, <4>2, BookedInduct
        <4> QED
          BY <2>2, <4>3 DEF Same
      <3> QED
        BY <1>1, <1>3, <3>2, StaySafe DEF all
    <2>10. CASE b[n].fills # row.fills /\ vo.st \in Ends
      <3> DEFINE t == b[n]
      <3>1. Missing(row, n) # {} /\ n > 0 /\ 1 .. n \subseteq t.fills
        <4>1. Missing(row, n) # {}
          BY <2>7, <2>10
        <4>2. n # 0
          BY <1>1, <4>1 DEF Missing
        <4>3. 1 .. n \subseteq LedgerAt(n)
          BY DEF Missing
        <4> QED
          BY <1>1, <2>7, <4>1, <4>2, <4>3
      <3>2. Over(v) /\ Total(v.fills, 1 .. n) = v.cum
        BY <2>10, <3>1 DEF Apt
      <3> HIDE DEF t
      <3>3. RowGood(t, v) /\ Onwards(row, t) /\ t.fills # row.fills
        BY <2>7, <2>10 DEF t
      <3>4. t.filled \in Nat /\ v.cum \in Nat /\ t.filled <= v.cum
            /\ Total(v.fills, 1 .. n) <= t.filled
        BY <1>1, <3>1, <3>3, FilledInStep
      <3>5. t.filled = v.cum
        BY <3>2, <3>4
      <3>6. Safely(row, t, v)
        BY <1>1, <3>2, <3>3, <3>4, <3>5, EndSafe DEF Onwards
      <3> QED
        BY <1>3, <2>2, <3>6 DEF t, all
    <2> QED
      BY <2>8, <2>9, <2>10
  <1> QED
    BY <1>4, <1>5

-----------------------------------------------------------------------------
(* The transactions of the actions, for the release.                       *)

\* What is known of one order, and what a transaction does to every order.
RowKept(o) == RowHeld(db[o], venue[o])
SafeRows == \A o \in Orders : Safely(db[o], db'[o], venue[o])

\* The three invariants, of one order.
LEMMA OrderKept == ASSUME IInv, EInv, SInv, NEW o \in Orders PROVE RowKept(o)
  BY OrderGood DEF SInv, RowKept, RowHeld, Good

\* What a worker in the middle of an order's call has at hand.
LEMMA InHandKept ==
    ASSUME IInv, EInv, SInv, NEW w \in Workers, pc[w] \in OrderSteps
    PROVE  /\ ctx[w].o \in Orders /\ RowHeld(db[ctx[w].o], venue[ctx[w].o])
           /\ NotAhead(ctx[w].seen, venue[ctx[w].o]) /\ Final(ctx[w].seen, venue[ctx[w].o])
           /\ ctx[w].seen \in Snapshots \cup {NoSnapshot}
           /\ pc[w] \in SeenSteps => ctx[w].seen \in Snapshots
           /\ ctx[w].got[ctx[w].o] \in 0 .. Len(venue[ctx[w].o].fills)
  BY InHand, OrderKept DEF RowKept, SInv, WorkerSafe

\* No transaction.
LEMMA QuietSafe == ASSUME IInv, EInv, SInv, UNCHANGED db PROVE SafeRows
  BY OrderKept, StaySafe DEF SafeRows, RowKept

\* A commit writes the row of one order.
LEMMA CommitSafe ==
    ASSUME IInv, EInv, SInv, NEW w, NEW o \in Orders, NEW r, NEW own,
           Safely(db[o], r, venue[o]), Commit(w, o, r, own)
    PROVE  SafeRows
  <1>1. \A p \in Orders : db'[p] = IF p = o THEN r ELSE db[p]
    BY DEF Commit, IInv, DbInv
  <1>2. \A p \in Orders : Safely(db[p], db[p], venue[p])
    BY OrderKept, StaySafe DEF RowKept
  <1> QED
    BY <1>1, <1>2 DEF SafeRows

\* Claiming, sending and deciding a dispatch.
LEMMA SubmitSafe ==
    ASSUME IInv, EInv, SInv, NEW w \in Workers
    PROVE  Claim(w) \/ Ack(w) \/ Note(w) \/ MarkUnknown(w) \/ MarkRejected(w) => SafeRows
  <1> DEFINE o == ctx[w].o
             row == db[ctx[w].o]
             seen == ctx[w].seen
  <1>1. ASSUME Claim(w) PROVE SafeRows
    <2>1. pc[w] \in OrderSteps
      BY <1>1 DEF Claim, OrderSteps, Steps
    <2>2. o \in Orders /\ (ClaimDispatchOK(row) => Safely(row, ClaimDispatch(row, w, 0), venue[o]))
      BY <2>1, InHandKept, BoxesSafe
    <2> QED
      BY <1>1, <2>2, CommitSafe, QuietSafe DEF Claim, NoCommit
  <1>2. ASSUME Ack(w) \/ Note(w) PROVE SafeRows
    <2>1. pc[w] \in OrderSteps /\ pc[w] \in SeenSteps
      BY <1>2 DEF Ack, Note, OrderSteps, Steps, SeenSteps
    <2>2. /\ o \in Orders /\ seen \in Snapshots /\ RowHeld(row, venue[o])
          /\ NotAhead(seen, venue[o]) /\ Final(seen, venue[o])
      BY <2>1, InHandKept
    <2>3. /\ AcknowledgeOK(row, w, seen) => Safely(row, Acknowledge(row, seen), venue[o])
          /\ ObserveOK(row, seen) => Safely(row, Observe(row, seen), venue[o])
      BY <2>2, DispatchesSafe, ObserveSafe DEF AcknowledgeOK, Holds
    <2> QED
      BY <1>2, <2>2, <2>3, CommitSafe, QuietSafe DEF Ack, Note, NoCommit
  <1>3. ASSUME MarkUnknown(w) PROVE SafeRows
    <2>1. pc[w] \in OrderSteps
      BY <1>3 DEF MarkUnknown, OrderSteps, Steps
    <2>2. o \in Orders /\ (Holds(row.dis, w, 0) => Safely(row, DispatchUnknown(row), venue[o]))
      BY <2>1, InHandKept, BoxesSafe DEF Holds
    <2> QED
      BY <1>3, <2>2, CommitSafe, QuietSafe DEF MarkUnknown, NoCommit
  <1>4. ASSUME MarkRejected(w) PROVE SafeRows
    <2>1. pc[w] \in OrderSteps /\ pc[w] = "rej"
      BY <1>4 DEF MarkRejected, OrderSteps, Steps
    <2>2. o \in Orders /\ RowHeld(row, venue[o])
      BY <2>1, InHandKept
    <2>3. venue[o].st = "none" /\ "rejected" \in Outcomes /\ Rejecting
      BY <2>1 DEF SInv, WorkerSafe, Rejecting
    <2>4. [st |-> "unknown", cum |-> 0, seq |-> 0] \in Snapshots
      BY DEF Snapshots, OrderStates, Open
    <2>5. RejectOK(row, w) => Safely(row, Reject(row), venue[o])
      BY <2>2, <2>3, <2>4, DispatchesSafe DEF RejectOK, Holds
    <2> QED
      BY <1>4, <2>2, <2>5, CommitSafe, QuietSafe DEF MarkRejected, NoCommit
  <1> QED
    BY <1>1, <1>2, <1>3, <1>4

\* Complete evidence of an order reported as ended is evidence of all of it.
LEMMA EvidenceApt ==
    ASSUME NEW o \in Orders, RowKept(o), NEW n \in 0 .. Len(venue[o].fills),
           NEW ord, Final(ord, venue[o]), EvidenceComplete(o, n, ord)
    PROVE  Apt(n, ord, venue[o])
  BY DEF EvidenceComplete, Apt, RowKept, RowHeld, VenueOver, Final, Ends, Terminal

\* What sync_fills reads of an order that has ended is all of it, unless two
\* fills may leave an order unfilled.
LEMMA SnapshotApt ==
    ASSUME SyncSafe, "sync" \in Jobs, NEW v, VenueGood(v), VenueOver(v), NEW n \in 0 .. Len(v.fills)
    PROVE  Apt(n, Snapshot(v), v)
  <1> SUFFICES ASSUME Snapshot(v).st \in Ends, n > 0
               PROVE  Over(v) /\ Total(v.fills, 1 .. n) = v.cum
    BY DEF Apt
  <1>1. v.st \in Ends /\ Over(v)
    BY DEF Snapshot, NoSnapshot, Known, Ends, Over, Terminal
  <1> DEFINE len == Len(v.fills)
  <1>2. /\ v.fills \in Seq(Fills) /\ len \in Nat /\ v.cum \in Nat
        /\ v.cum = Total(v.fills, 1 .. len) /\ v.cum <= Qty
    BY DEF VenueGood, VenueFine, VenueInStep, VenueOrders, VenueOver
  <1>3. len <= v.cum
    BY <1>2, SumBounds
  <1>4. CASE n = len
    BY <1>1, <1>2, <1>4
  <1>5. CASE n # len
    <2>1. n \in 0 .. len
      OBVIOUS
    <2> HIDE DEF len
    <2>2. len >= 2
      BY <1>2, <1>5, <2>1
    <2>3. Qty # 1 /\ (Qty = 2 => v.cum = Qty)
      BY <1>2, <1>3, <2>2, QtyAssumption
    <2>4. v.st # "filled"
      BY <1>1 DEF Ends
    <2> QED
      BY <2>3, <2>4 DEF SyncSafe, VenueOver
  <1> QED
    BY <1>4, <1>5

\* A synchronised order, and with the recovery bundle its observation.
LEMMA BundleSafe ==
    ASSUME NEW o \in Orders, RowKept(o), NEW n \in 0 .. Len(venue[o].fills),
           NEW ord \in Snapshots \cup {NoSnapshot}, NotAhead(ord, venue[o]), NEW w,
           Apt(n, ord, venue[o])
    PROVE  /\ SyncOK(w, o, n, ord) => Safely(db[o], Synced(o, n, ord), venue[o])
           /\ BundleOK(w, o, n, ord) /\ Final(ord, venue[o])
                 => Safely(db[o], Bundled(o, n, ord), venue[o])
  <1> DEFINE s == Synced(o, n, ord)
             v == venue[o]
  <1>1. SyncOK(w, o, n, ord) => RowHeld(s, v) /\ Safely(db[o], s, v)
    BY SyncFillsSafe DEF SyncOK, Synced, RowKept
  <1>2. ASSUME BundleOK(w, o, n, ord), Final(ord, v) PROVE Safely(db[o], Bundled(o, n, ord), v)
    <2>1. RowHeld(s, v) /\ Safely(db[o], s, v)
      BY <1>1, <1>2 DEF BundleOK
    <2>2. CASE Nothing(ord)
      BY <2>1, <2>2 DEF Bundled
    <2>3. CASE ~Nothing(ord)
      <3>1. ord \in Snapshots /\ ObserveOK(s, ord)
        BY <1>2, <2>3 DEF Nothing, BundleOK
      <3> HIDE DEF s
      <3>2. Safely(s, Observe(s, ord), v)
        BY <1>2, <2>1, <3>1, ObserveSafe
      <3>3. s \in Rows /\ db[o].filled \in Nat
        BY <2>1 DEF RowHeld, RowGood, RowInv, RowKept, Rows
      <3>4. s.filled \in Nat /\ Observe(s, ord).filled \in Nat
        BY <3>1, <3>3, Observing DEF Observation, Rows
      <3> QED
        BY <2>1, <2>3, <3>2, <3>3, <3>4, SafelyTrans DEF Bundled, s
    <2> QED
      BY <2>2, <2>3
  <1> QED
    BY <1>1, <1>2

\* Applying a query's evidence, and recovering the dispatch and the cancellation.
LEMMA QuerySafe ==
    ASSUME IInv, EInv, SInv, NEW w \in Workers
    PROVE  /\ Apply(w) \/ QueryDispatch(w) \/ RecoverDispatch(w) => SafeRows
           /\ QueryCancel(w) \/ RecoverCancel(w) => SafeRows
  <1> DEFINE o == ctx[w].o
             row == db[ctx[w].o]
             seen == ctx[w].seen
  <1>1. ASSUME Apply(w) PROVE SafeRows
    <2> DEFINE n == ctx[w].got[ctx[w].o]
    <2>1. pc[w] \in OrderSteps /\ pc[w] \in SeenSteps
      BY <1>1 DEF Apply, OrderSteps, Steps, SeenSteps
    <2>2. /\ o \in Orders /\ RowKept(o) /\ seen \in Snapshots /\ NotAhead(seen, venue[o])
          /\ Final(seen, venue[o]) /\ n \in 0 .. Len(venue[o].fills)
      BY <2>1, InHandKept DEF RowKept
    <2>3. /\ EvidenceComplete(o, n, seen) /\ BundleOK(w, o, n, seen)
                => Safely(row, Bundled(o, n, seen), venue[o])
          /\ ObserveOK(row, seen) => Safely(row, Observe(row, seen), venue[o])
      BY <2>2, EvidenceApt, BundleSafe, ObserveSafe DEF RowKept
    <2> QED
      BY <1>1, <2>2, <2>3, CommitSafe, QuietSafe DEF Apply, NoCommit
  <1>2. ASSUME pc[w] \in OrderSteps
        PROVE  /\ o \in Orders
               /\ Ambiguous(row.dis) => Safely(row, DispatchUnknown(row), venue[o])
               /\ ~Nothing(seen) /\ Ambiguous(row.dis)
                     => Safely(row, DispatchRecovered(row, seen), venue[o])
               /\ Safely(row, ClaimDispatchRecovery(row, w, ctx[w].age), venue[o])
               /\ Safely(row, ClaimCancelRecovery(row, w, ctx[w].age), venue[o])
               /\ CancelOutcomeOK(row, seen) => Safely(row, CancelOutcome(row, seen), venue[o])
    <2>1. /\ o \in Orders /\ RowHeld(row, venue[o]) /\ NotAhead(seen, venue[o])
          /\ seen \in Snapshots \cup {NoSnapshot} /\ Final(seen, venue[o])
      BY <1>2, InHandKept
    <2>2. /\ Ambiguous(row.dis) => Safely(row, DispatchUnknown(row), venue[o])
          /\ Safely(row, ClaimDispatchRecovery(row, w, ctx[w].age), venue[o])
          /\ Safely(row, ClaimCancelRecovery(row, w, ctx[w].age), venue[o])
      BY <2>1, BoxesSafe
    <2>3. ~Nothing(seen) /\ Ambiguous(row.dis) => Safely(row, DispatchRecovered(row, seen), venue[o])
      BY <2>1, DispatchesSafe DEF Nothing
    <2>4. CancelOutcomeOK(row, seen) => Safely(row, CancelOutcome(row, seen), venue[o])
      BY <2>1, OutcomesSafe
    <2> QED
      BY <2>1, <2>2, <2>3, <2>4
  <1>3. ASSUME QueryDispatch(w) PROVE SafeRows
    <2>1. pc[w] \in OrderSteps
      BY <1>3 DEF QueryDispatch, OrderSteps, Steps
    <2> QED
      BY <1>2, <1>3, <2>1, CommitSafe, QuietSafe DEF QueryDispatch, NoCommit
  <1>4. ASSUME RecoverDispatch(w) PROVE SafeRows
    <2>1. pc[w] \in OrderSteps
      BY <1>4 DEF RecoverDispatch, OrderSteps, Steps
    <2>2. HoldsRecovery(row.dis, w, ctx[w].age) => Ambiguous(row.dis)
      BY DEF HoldsRecovery
    <2> QED
      BY <1>2, <1>4, <2>1, <2>2, CommitSafe, QuietSafe DEF RecoverDispatch, NoCommit
  <1>5. ASSUME QueryCancel(w) PROVE SafeRows
    <2>1. pc[w] \in OrderSteps
      BY <1>5 DEF QueryCancel, OrderSteps, Steps
    <2> QED
      BY <1>2, <1>5, <2>1, CommitSafe, QuietSafe DEF QueryCancel, NoCommit
  <1>6. ASSUME RecoverCancel(w) PROVE SafeRows
    <2>1. pc[w] \in OrderSteps
      BY <1>6 DEF RecoverCancel, OrderSteps, Steps
    <2> QED
      BY <1>2, <1>6, <2>1, CommitSafe, QuietSafe DEF RecoverCancel, NoCommit
  <1> QED
    BY <1>1, <1>3, <1>4, <1>5, <1>6

\* sync_fills books the fills of every order under the order of the moment.
LEMMA SyncSafely ==
    ASSUME IInv, EInv, SInv, SyncSafe, NEW w \in Workers, SyncApply(w)
    PROVE  SafeRows
  <1> DEFINE got == ctx[w].got
             synced == [o \in Orders |-> Synced(o, got[o], Snapshot(venue[o]))]
  <1>1. CASE UNCHANGED <<db, openCount>>
    BY <1>1, QuietSafe
  <1>2. CASE (\A o \in Orders : SyncOK(w, o, got[o], Snapshot(venue[o]))) /\ db' = synced
    <2>1. ASSUME NEW o \in Orders PROVE Safely(db[o], synced[o], venue[o])
      <3>1. /\ RowKept(o) /\ venue[o] \in VenueOrders /\ Len(venue[o].fills) \in Nat
            /\ VenueGood(venue[o]) /\ VenueOver(venue[o])
        BY OrderKept DEF RowKept, RowHeld, VenueGood, VenueFine, VenueOrders
      <3>2. got[o] \in 0 .. Len(venue[o].fills)
        BY <3>1 DEF IInv, CtxInv, CtxFine, Contexts
      <3>3. Snapshot(venue[o]) \in Snapshots \cup {NoSnapshot} /\ NotAhead(Snapshot(venue[o]), venue[o])
        BY <3>1 DEF VenueOrders, VenueStates, Known, Snapshot, Snapshots, NotAhead, NoSnapshot
      <3>4. "sync" \in Jobs
        BY DEF SInv, WorkerSafe, SyncApply
      <3>5. Apt(got[o], Snapshot(venue[o]), venue[o])
        BY <3>1, <3>2, <3>4, SnapshotApt
      <3> QED
        BY <1>2, <3>1, <3>2, <3>3, <3>5, BundleSafe
    <2> HIDE DEF synced
    <2> QED
      BY <1>2, <2>1 DEF SafeRows
  <1> QED
    BY <1>1, <1>2 DEF SyncApply

\* Requesting, claiming and completing a cancellation.
LEMMA CancelSafe ==
    ASSUME IInv, EInv, SInv, NEW w \in Workers
    PROVE  /\ (\E o \in Orders : StartCancel(w, o)) => SafeRows
           /\ CClaim(w) \/ CObs(w) \/ CDone(w) \/ CAmb(w) => SafeRows
  <1> DEFINE o == ctx[w].o
             row == db[ctx[w].o]
             seen == ctx[w].seen
  <1>1. ASSUME NEW p \in Orders, StartCancel(w, p) PROVE SafeRows
    <2>1. Safely(db[p], PrepareCancel(db[p]), venue[p])
      BY OrderKept, BoxesSafe DEF RowKept
    <2> QED
      BY <1>1, <2>1, CommitSafe DEF StartCancel
  <1>2. ASSUME pc[w] \in OrderSteps
        PROVE  /\ o \in Orders /\ Safely(row, row, venue[o])
               /\ Safely(row, CancelUnknown(row), venue[o])
               /\ Safely(row, ClaimCancel(row, w, ctx[w].age), venue[o])
               /\ pc[w] \in SeenSteps /\ ObserveOK(row, seen)
                     => Safely(row, Observe(row, seen), venue[o])
               /\ CancelOutcomeOK(row, seen) => Safely(row, CancelOutcome(row, seen), venue[o])
    <2>1. /\ o \in Orders /\ RowHeld(row, venue[o]) /\ NotAhead(seen, venue[o])
          /\ seen \in Snapshots \cup {NoSnapshot} /\ Final(seen, venue[o])
          /\ (pc[w] \in SeenSteps => seen \in Snapshots)
      BY <1>2, InHandKept
    <2>2. /\ Safely(row, row, venue[o]) /\ Safely(row, CancelUnknown(row), venue[o])
          /\ Safely(row, ClaimCancel(row, w, ctx[w].age), venue[o])
      BY <2>1, BoxesSafe, StaySafe
    <2>3. pc[w] \in SeenSteps /\ ObserveOK(row, seen) => Safely(row, Observe(row, seen), venue[o])
      BY <2>1, ObserveSafe
    <2>4. CancelOutcomeOK(row, seen) => Safely(row, CancelOutcome(row, seen), venue[o])
      BY <2>1, OutcomesSafe
    <2> QED
      BY <2>1, <2>2, <2>3, <2>4
  <1>3. ASSUME CClaim(w) PROVE SafeRows
    <2>1. pc[w] \in OrderSteps
      BY <1>3 DEF CClaim, OrderSteps, Steps
    <2> QED
      BY <1>2, <1>3, <2>1, CommitSafe, QuietSafe DEF CClaim, NoCommit
  <1>4. ASSUME CObs(w) PROVE SafeRows
    <2>1. pc[w] \in OrderSteps /\ pc[w] \in SeenSteps
      BY <1>4 DEF CObs, OrderSteps, Steps, SeenSteps
    <2> QED
      BY <1>2, <1>4, <2>1, CommitSafe, QuietSafe DEF CObs, NoCommit
  <1>5. ASSUME CDone(w) PROVE SafeRows
    <2> DEFINE again == /\ db[o].can.st = "confirmed" /\ db[o].can.owner = w
                        /\ seen.st = "cancelled"
               next == IF again THEN db[o] ELSE CancelOutcome(db[o], seen)
    <2>1. pc[w] \in OrderSteps
      BY <1>5 DEF CDone, OrderSteps, Steps
    <2>2. CASE Commit(w, o, next, FALSE) /\ (again \/ CancelOutcomeOK(row, seen))
      <3>1. Safely(row, next, venue[o])
        BY <1>2, <2>1, <2>2
      <3> HIDE DEF next
      <3> QED
        BY <1>2, <2>1, <2>2, <3>1, CommitSafe
    <2>3. CASE NoCommit
      BY <2>3, QuietSafe DEF NoCommit
    <2> QED
      BY <1>5, <2>2, <2>3 DEF CDone
  <1>6. ASSUME CAmb(w) PROVE SafeRows
    <2>1. pc[w] \in OrderSteps
      BY <1>6 DEF CAmb, OrderSteps, Steps
    <2> QED
      BY <1>2, <1>6, <2>1, CommitSafe, QuietSafe DEF CAmb, NoCommit
  <1> QED
    BY <1>1, <1>3, <1>4, <1>5, <1>6

\* Requesting, claiming, completing and recovering an expiry.
LEMMA ExpirySafe ==
    ASSUME IInv, EInv, SInv, NEW w \in Workers
    PROVE  /\ (\E o \in Orders : StartExpire(w, o)) => SafeRows
           /\ XClaim(w) \/ XDone(w) \/ XAmb(w) => SafeRows
           /\ XRec(w) \/ XApply(w) \/ XRecDone(w) => SafeRows
  <1> DEFINE o == ctx[w].o
             row == db[ctx[w].o]
             seen == ctx[w].seen
  <1>1. ASSUME NEW p \in Orders, StartExpire(w, p) PROVE SafeRows
    <2>1. Known(venue[p]) /\ "expire" \in Jobs
      BY <1>1 DEF StartExpire, Known, Open
    <2>2. Safely(db[p], PrepareExpiry(db[p]), venue[p])
      BY <2>1, OrderKept, BoxesSafe DEF RowKept
    <2> QED
      BY <1>1, <2>2, CommitSafe DEF StartExpire
  <1>2. ASSUME pc[w] \in OrderSteps
        PROVE  /\ o \in Orders
               /\ ClaimExpiryOK(row) => Safely(row, ClaimExpiry(row, w, ctx[w].age), venue[o])
               /\ Safely(row, ClaimExpiryRecovery(row, w, ctx[w].age), venue[o])
               /\ row.exp.st # "none" => Safely(row, ExpiryUnknown(row), venue[o])
               /\ row.exp.st # "none" /\ ExpiryOutcomeOK(row, seen)
                     => Safely(row, ExpiryOutcome(row, seen), venue[o])
    <2>1. /\ o \in Orders /\ RowHeld(row, venue[o]) /\ NotAhead(seen, venue[o])
          /\ seen \in Snapshots \cup {NoSnapshot} /\ Final(seen, venue[o])
      BY <1>2, InHandKept
    <2>2. /\ ClaimExpiryOK(row) => Safely(row, ClaimExpiry(row, w, ctx[w].age), venue[o])
          /\ Safely(row, ClaimExpiryRecovery(row, w, ctx[w].age), venue[o])
          /\ row.exp.st # "none" => Safely(row, ExpiryUnknown(row), venue[o])
      BY <2>1, BoxesSafe
    <2>3. row.exp.st # "none" /\ ExpiryOutcomeOK(row, seen)
             => Safely(row, ExpiryOutcome(row, seen), venue[o])
      BY <2>1, OutcomesSafe
    <2> QED
      BY <2>1, <2>2, <2>3
  <1>3. ASSUME XClaim(w) PROVE SafeRows
    <2>1. pc[w] \in OrderSteps
      BY <1>3 DEF XClaim, OrderSteps, Steps
    <2> QED
      BY <1>2, <1>3, <2>1, CommitSafe, QuietSafe DEF XClaim, NoCommit
  <1>4. ASSUME XDone(w) PROVE SafeRows
    <2>1. pc[w] \in OrderSteps
      BY <1>4 DEF XDone, OrderSteps, Steps
    <2>2. \/ NoCommit
          \/ /\ row.exp.st # "none" /\ ExpiryOutcomeOK(row, seen)
             /\ Commit(w, o, ExpiryOutcome(row, seen), FALSE)
      BY <1>4 DEF XDone, ExpiryOutcomeOK
    <2> QED
      BY <1>2, <2>1, <2>2, CommitSafe, QuietSafe DEF NoCommit
  <1>5. ASSUME XAmb(w) PROVE SafeRows
    <2>1. pc[w] \in OrderSteps
      BY <1>5 DEF XAmb, OrderSteps, Steps
    <2>2. Holds(row.exp, w, ctx[w].age) => row.exp.st # "none"
      BY DEF Holds, Ambiguous
    <2> QED
      BY <1>2, <1>5, <2>1, <2>2, CommitSafe, QuietSafe DEF XAmb, NoCommit
  <1>6. ASSUME XRec(w) PROVE SafeRows
    <2>1. pc[w] \in OrderSteps
      BY <1>6 DEF XRec, OrderSteps, Steps
    <2> QED
      BY <1>2, <1>6, <2>1, CommitSafe, QuietSafe DEF XRec, NoCommit
  <1>7. ASSUME XApply(w) PROVE SafeRows
    <2> DEFINE n == ctx[w].got[ctx[w].o]
    <2>1. pc[w] \in OrderSteps
      BY <1>7 DEF XApply, OrderSteps, Steps
    <2>2. /\ o \in Orders /\ RowKept(o) /\ seen \in Snapshots \cup {NoSnapshot}
          /\ NotAhead(seen, venue[o]) /\ Final(seen, venue[o]) /\ n \in 0 .. Len(venue[o].fills)
      BY <2>1, InHandKept DEF RowKept
    <2>3. EvidenceComplete(o, n, seen) /\ BundleOK(w, o, n, seen)
             => Safely(row, Bundled(o, n, seen), venue[o])
      BY <2>2, EvidenceApt, BundleSafe
    <2> QED
      BY <1>7, <2>2, <2>3, CommitSafe, QuietSafe DEF XApply, NoCommit
  <1>8. ASSUME XRecDone(w) PROVE SafeRows
    <2>1. pc[w] \in OrderSteps
      BY <1>8 DEF XRecDone, OrderSteps, Steps
    <2>2. \/ NoCommit
          \/ /\ row.exp.st # "none" /\ ExpiryOutcomeOK(row, seen)
             /\ Commit(w, o, ExpiryOutcome(row, seen), FALSE)
      BY <1>8 DEF XRecDone, Ambiguous
    <2> QED
      BY <1>2, <2>1, <2>2, CommitSafe, QuietSafe DEF NoCommit
  <1> QED
    BY <1>1, <1>3, <1>4, <1>5, <1>6, <1>7, <1>8

\* Every step but the preparation of a new order.
Prepares == \E w \in Workers, o \in Orders : PrepareNew(w, o)
LEMMA NextSafe ==
    ASSUME IInv, EInv, SInv, SyncSafe, [Next]_vars
    PROVE  SafeRows \/ Prepares
  <1>0. UNCHANGED db => SafeRows
    BY QuietSafe
  <1>1. ASSUME NEW w \in Workers, WorkerCalls(w) PROVE SafeRows
    <2>1. Send(w) \/ Query(w) \/ QueryNone(w) \/ Fetch(w) \/ HydrateStep(w) \/ SyncFetch(w) => SafeRows
      BY <1>0 DEF Send, Query, QueryNone, Fetch, HydrateStep, SyncFetch, NoCommit
    <2>2. CSend(w) \/ XSend(w) \/ XQuery(w) \/ XFetch(w) => SafeRows
      BY <1>0 DEF CSend, XSend, XQuery, XFetch, NoCommit
    <2> QED
      BY <1>1, <2>1, <2>2, SubmitSafe, QuerySafe, SyncSafely, CancelSafe, ExpirySafe
         DEF WorkerCalls
  <1>2. ASSUME NEW w \in Workers, WorkerStarts(w) \/ Crash(w) PROVE SafeRows \/ Prepares
    <2>1. StartSync(w) \/ Crash(w) => SafeRows
      BY <1>0 DEF StartSync, Crash, NoCommit
    <2>2. \A o \in Orders : PrepareReplay(w, o) \/ StartQuery(w, o) \/ StartRecover(w, o) => SafeRows
      BY <1>0 DEF PrepareReplay, StartQuery, StartRecover, NoCommit
    <2> QED
      BY <1>2, <2>1, <2>2, CancelSafe, ExpirySafe DEF WorkerStarts, Prepares
  <1>3. ASSUME NEW o \in Orders, VenueActs(o) PROVE SafeRows
    BY <1>0, <1>3 DEF VenueActs, Arrive, VenueAcknowledge, VenueReject, VenueFill, ShowFill,
                      CompleteCancel, ExpireIoc, VenueMoves, NoCommit
  <1>4. CASE Tick
    <2>1. \A o \in Orders : Safely(db[o], RowTick(db[o]), venue[o])
      BY OrderKept, BoxesSafe DEF RowKept
    <2>2. \A o \in Orders : db'[o] = RowTick(db[o])
      BY <1>4 DEF Tick
    <2> QED
      BY <2>1, <2>2 DEF SafeRows
  <1>5. CASE TriggerKill \/ UNCHANGED vars
    BY <1>0, <1>5 DEF TriggerKill, NoCommit, vars
  <1> QED
    BY <1>1, <1>2, <1>3, <1>4, <1>5 DEF Next

-----------------------------------------------------------------------------
(* The invariant of the release.                                           *)

\* Every row stays safe under the venue's record of before the step.
RowsOn == \A o \in Orders :
    /\ RowSafe(db'[o], venue[o])
    /\ db'[o].dis.st = "explicitly_rejected" => db[o].dis.st = "explicitly_rejected" \/ Rejecting

\* A new submission: the venue has never heard of the order.
LEMMA PrepareSafe == ASSUME IInv, EInv, SInv, Prepares PROVE RowsOn
  <1>1. PICK w \in Workers, o \in Orders : PrepareNew(w, o)
    BY DEF Prepares
  <1>2. \A p \in Orders : RowSafe(db[p], venue[p])
    BY DEF SInv
  <1>3. venue[o].st = "none"
    BY <1>1, <1>2 DEF PrepareNew, RowSafe
  <1>4. RowSafe(Blocked, venue[o]) /\ Blocked.dis.st = "none"
    BY <1>3 DEF RowSafe, Blocked, NoRow, NoBox, NoProjection
  <1>5. RowSafe(Enqueued, venue[o]) /\ Enqueued.dis.st = "prepared"
    <2>1. /\ Enqueued.res = "open" /\ Enqueued.dis.st = "prepared" /\ Enqueued.sub = "prepared"
          /\ Enqueued.exp = NoBox /\ Enqueued.proj = NoProjection
      BY DEF Enqueued, NoRow, NoBox
    <2> QED
      BY <2>1 DEF RowSafe, NoBox, NoProjection
  <1>6. ASSUME NEW r, RowSafe(r, venue[o]), r.dis.st # "explicitly_rejected",
               db' = [db EXCEPT ![o] = r]
        PROVE  RowsOn
    <2>1. \A p \in Orders : db'[p] = IF p = o THEN r ELSE db[p]
      BY <1>6 DEF IInv, DbInv
    <2> QED
      BY <1>2, <1>6, <2>1 DEF RowsOn
  <1>7. db' = [db EXCEPT ![o] = Blocked] \/ db' = [db EXCEPT ![o] = Enqueued]
    BY <1>1 DEF PrepareNew
  <1> QED
    BY <1>4, <1>5, <1>6, <1>7

\* No step changes both the rows and the venue, and no call is unmade.
LEMMA RowsOrVenue == ASSUME [Next]_vars PROVE UNCHANGED db \/ UNCHANGED venue
  <1>1. ASSUME NEW w \in Workers, WorkerCalls(w) \/ WorkerStarts(w) \/ Crash(w)
        PROVE  UNCHANGED db \/ UNCHANGED venue
    <2>1. Send(w) \/ CSend(w) \/ XSend(w) => UNCHANGED db
      BY DEF Send, CSend, XSend, NoCommit
    <2>2. \/ Claim(w) \/ Ack(w) \/ Note(w) \/ MarkUnknown(w) \/ MarkRejected(w) \/ Query(w)
          \/ QueryNone(w) \/ Fetch(w) \/ Apply(w)
          => UNCHANGED venue
      BY DEF Claim, Ack, Note, MarkUnknown, MarkRejected, Query, QueryNone, Fetch, Apply, VenueQuiet
    <2>3. \/ QueryDispatch(w) \/ RecoverDispatch(w) \/ QueryCancel(w) \/ RecoverCancel(w)
          \/ HydrateStep(w) \/ SyncFetch(w) \/ SyncApply(w)
          => UNCHANGED venue
      BY DEF QueryDispatch, RecoverDispatch, QueryCancel, RecoverCancel, HydrateStep, SyncFetch,
             SyncApply, VenueQuiet
    <2>4. \/ CClaim(w) \/ CObs(w) \/ CDone(w) \/ CAmb(w) \/ XClaim(w) \/ XDone(w) \/ XAmb(w)
          \/ XRec(w) \/ XQuery(w) \/ XFetch(w) \/ XApply(w) \/ XRecDone(w)
          => UNCHANGED venue
      BY DEF CClaim, CObs, CDone, CAmb, XClaim, XDone, XAmb, XRec, XQuery, XFetch, XApply,
             XRecDone, VenueQuiet
    <2>5. WorkerStarts(w) \/ Crash(w) => UNCHANGED venue
      BY DEF WorkerStarts, Crash, StartSync, PrepareNew, PrepareReplay, StartQuery, StartCancel,
             StartExpire, StartRecover, VenueQuiet
    <2> QED
      BY <1>1, <2>1, <2>2, <2>3, <2>4, <2>5 DEF WorkerCalls
  <1>2. ASSUME NEW o \in Orders, VenueActs(o) PROVE UNCHANGED db
    BY <1>2 DEF VenueActs, Arrive, VenueAcknowledge, VenueReject, VenueFill, ShowFill,
                CompleteCancel, ExpireIoc, VenueMoves, NoCommit
  <1>3. Tick \/ TriggerKill \/ UNCHANGED vars => UNCHANGED db \/ UNCHANGED venue
    BY DEF Tick, TriggerKill, VenueQuiet, vars
  <1> QED
    BY <1>1, <1>2, <1>3 DEF Next

\* No submission is forgotten.
LEMMA CallsGrow ==
    ASSUME IInv, [Next]_vars
    PROVE  \A o \in Orders : calls[o].submit > 0 => calls'[o].submit > 0
  <1>0. calls \in [Orders -> Calls]
    BY DEF IInv, RestInv
  <1>1. UNCHANGED calls => \A o \in Orders : calls[o].submit > 0 => calls'[o].submit > 0
    OBVIOUS
  <1>2. ASSUME NEW w \in Workers, Send(w)
        PROVE  \A o \in Orders : calls[o].submit > 0 => calls'[o].submit > 0
    BY <1>0, <1>2 DEF Send, Calls
  <1>3. ASSUME NEW w \in Workers, WorkerCalls(w), ~Send(w)
        PROVE  \A o \in Orders : calls[o].submit > 0 => calls'[o].submit > 0
    <2>1. CASE Claim(w)
      BY <1>1, <2>1 DEF Claim, VenueQuiet
    <2>2. CASE ~Claim(w)
      BY <1>3, <2>2, OtherCallsLeave DEF Leaves
    <2> QED
      BY <2>1, <2>2
  <1>4. ASSUME NEW w \in Workers, WorkerStarts(w) \/ Crash(w) PROVE UNCHANGED calls
    BY <1>4 DEF WorkerStarts, Crash, StartSync, PrepareNew, PrepareReplay, StartQuery, StartCancel,
                StartExpire, StartRecover, VenueQuiet
  <1>5. ASSUME NEW o \in Orders, VenueActs(o) PROVE UNCHANGED calls
    BY <1>5 DEF VenueActs, Arrive, VenueAcknowledge, VenueReject, VenueFill, ShowFill,
                CompleteCancel, ExpireIoc, VenueMoves
  <1>6. Tick \/ TriggerKill \/ UNCHANGED vars => UNCHANGED calls
    BY DEF Tick, TriggerKill, VenueQuiet, vars
  <1> QED
    BY <1>1, <1>2, <1>3, <1>4, <1>5, <1>6 DEF Next

\* A row that is safe stays so when the venue moves on.
LEMMA RowLater ==
    ASSUME NEW row, NEW v, RowSafe(row, v), NEW u, Goes(v, u),
           v.st = "none" /\ u.st # "none" => row.dis.st \notin {"none", "explicitly_rejected"}
    PROVE  RowSafe(row, u)
  <1>1. Over(v) => Over(u) /\ u.cum = v.cum
    BY DEF Goes
  <1>2. v.st = "none" => u.cum = v.cum
    BY DEF Goes
  <1>3. Known(v) => Known(u)
    BY DEF Goes
  <1> QED
    BY <1>1, <1>2, <1>3 DEF RowSafe

\* No order is turned away by one worker while another handles it.
Alone == "rejected" \notin Outcomes \/ (AloneInv /\ \E u : Workers = {u})

\* Every step keeps SInv.
LEMMA NextSInv == IInv /\ EInv /\ SInv /\ Alone /\ SyncSafe /\ [Next]_vars => SInv'
  <1> SUFFICES ASSUME IInv, EInv, SInv, Alone, SyncSafe, [Next]_vars PROVE SInv'
    OBVIOUS
  <1>1. VenueTurns /\ Proceeds /\ IInv'
    BY NextTurns, NextProceeds, NextIInv
  <1>2. RowsOn
    <2>1. CASE SafeRows
      BY <2>1 DEF SafeRows, Safely, RowsOn
    <2> QED
      BY <2>1, NextSafe, PrepareSafe
  <1>3. /\ venue = [o \in Orders |-> venue[o]] /\ venue' = [o \in Orders |-> venue'[o]]
        /\ \A o \in Orders : VenueOver(venue[o]) /\ Goes(venue[o], venue[o])
    BY <1>1, OrderKept, OperationsGo DEF IInv, VenueInv, RowKept, RowHeld
  <1>4. \A o \in Orders :
           /\ Goes(venue[o], venue'[o])
           /\ venue[o].st = "none" /\ venue'[o].st # "none" => Sends(o) /\ calls'[o].submit > 0
    <2>1. CASE UNCHANGED venue
      BY <1>3, <2>1
    <2>2. ASSUME NEW p \in Orders, NEW u, Turn(p, u)
          PROVE  \A o \in Orders :
                   /\ Goes(venue[o], venue'[o])
                   /\ venue[o].st = "none" /\ venue'[o].st # "none"
                         => Sends(o) /\ calls'[o].submit > 0
      <3>1. \A o \in Orders : venue'[o] = IF o = p THEN u ELSE venue[o]
        BY <1>3, <2>2 DEF Turn
      <3> QED
        BY <1>3, <2>2, <3>1 DEF Turn
    <2> QED
      BY <1>1, <2>1, <2>2 DEF VenueTurns
  <1>5. ASSUME NEW o \in Orders, Sends(o)
        PROVE  db[o].dis.st \notin {"none", "explicitly_rejected"}
    BY <1>5 DEF Sends, SInv, WorkerSafe, EInv, CallsClaimed, Dispatched
  <1>6. ASSUME NEW o \in Orders PROVE VenueOver(venue'[o]) /\ RowSafe(db'[o], venue'[o])
    <2>1. VenueOver(venue'[o])
      BY <1>4 DEF Goes
    <2>2. CASE UNCHANGED venue
      BY <1>2, <2>1, <2>2 DEF RowsOn
    <2>3. CASE UNCHANGED db
      <3>1. RowSafe(db[o], venue[o])
        BY DEF SInv
      <3>2. RowSafe(db[o], venue'[o])
        BY <1>4, <1>5, <3>1, RowLater
      <3> QED
        BY <2>1, <2>3, <3>2
    <2> QED
      BY <2>2, <2>3, RowsOrVenue
  <1>7. ASSUME NEW o \in Orders, venue'[o].st # "none" PROVE calls'[o].submit > 0
    BY <1>4, <1>7, CallsGrow DEF SInv
  \* When an order may be turned away, there is one worker.
  <1>8. ASSUME "rejected" \in Outcomes, NEW w \in Workers
        PROVE  AloneInv /\ \A x \in Workers : x = w
    BY <1>8 DEF Alone
  <1>9. ASSUME NEW o \in Orders, db'[o].dis.st = "explicitly_rejected"
        PROVE  /\ "rejected" \in Outcomes
               /\ db[o].dis.st = "explicitly_rejected" \/ \E x \in Workers : pc[x] = "rej"
    BY <1>2, <1>9 DEF RowsOn, RowSafe, Rejecting
  <1>10. ASSUME NEW w \in Workers PROVE WorkerSafe(w)'
    <2>1. Answers(w, ctx'[w]) /\ Enters(w, pc'[w], ctx'[w]) /\ WorkerSafe(w)
      BY <1>1 DEF Proceeds, SInv
    <2>2. ASSUME ctx'[w].o \in Orders PROVE Final(ctx'[w].seen, venue'[ctx'[w].o])
      <3>1. CASE ctx'[w].seen = NoSnapshot
        BY <3>1 DEF Final, NoSnapshot, Terminal
      <3>2. CASE ctx'[w].o = ctx[w].o /\ ctx'[w].seen = ctx[w].seen
        BY <1>4, <2>1, <2>2, <3>2 DEF WorkerSafe, Final, Goes
      <3>3. CASE ctx'[w].seen = Snapshot(venue'[ctx'[w].o])
        BY <3>3 DEF Snapshot, NoSnapshot, Final, Over, Terminal
      <3> QED
        BY <2>1, <3>1, <3>2, <3>3 DEF Answers
    <2>3. ASSUME pc'[w] = "send" PROVE db'[ctx'[w].o].dis.st # "explicitly_rejected"
      <3>1. ctx'[w].o = ctx[w].o /\ (pc[w] = "send" \/ Claim(w))
        BY <2>1, <2>3 DEF Enters, Marked
      <3>2. pc[w] \in {"send", "claim"}
        BY <3>1 DEF Claim
      <3>3. ctx[w].o \in Orders
        BY <3>2, AtHand DEF OrderSteps, Steps
      <3> SUFFICES ASSUME db'[ctx[w].o].dis.st = "explicitly_rejected" PROVE FALSE
        BY <3>1
      <3>4. AloneInv /\ (\A x \in Workers : x = w)
        BY <1>8, <1>9, <3>3
      <3>5. db[ctx[w].o].dis.st = "explicitly_rejected"
        BY <1>9, <3>2, <3>3, <3>4
      <3> QED
        BY <2>1, <3>1, <3>4, <3>5 DEF WorkerSafe, AloneInv, Claim
    <2>4. ASSUME pc'[w] = "rej"
          PROVE  venue'[ctx'[w].o].st = "none" /\ "rejected" \in Outcomes
      <3>1. /\ ctx'[w].o = ctx[w].o /\ "rejected" \in Outcomes
            /\ pc[w] = "rej" \/ (pc[w] = "send" /\ UNCHANGED venue)
        BY <2>1, <2>4 DEF Enters, Marked, WorkerSafe
      <3>2. ctx[w].o \in Orders
        BY <3>1, AtHand DEF OrderSteps, Steps
      <3>3. AloneInv /\ (\A x \in Workers : x = w)
        BY <1>8, <3>1
      <3>4. CASE pc[w] = "rej"
        <4>1. venue[ctx[w].o].st = "none" /\ ~Sends(ctx[w].o)
          BY <2>1, <3>3, <3>4 DEF WorkerSafe, Sends
        <4> QED
          BY <1>4, <3>1, <3>2, <4>1
      <3>5. CASE pc[w] = "send" /\ UNCHANGED venue
        <4>1. calls[ctx[w].o].submit = 0
          BY <3>3, <3>5 DEF AloneInv
        <4>2. venue[ctx[w].o].st = "none"
          BY <3>2, <4>1 DEF SInv
        <4> QED
          BY <3>1, <3>5, <4>2
      <3> QED
        BY <3>1, <3>4, <3>5
    <2>5. ASSUME pc'[w] \in {"syncfetch", "syncapply"} PROVE "sync" \in Jobs
      BY <2>1, <2>5 DEF Enters, Marked, WorkerSafe
    <2> QED
      BY <2>2, <2>3, <2>4, <2>5 DEF WorkerSafe
  <1> QED
    BY <1>6, <1>7, <1>10 DEF SInv

\* It holds in the beginning.
LEMMA InitSInv == Init => SInv
  <1> SUFFICES ASSUME Init PROVE SInv
    OBVIOUS
  <1>1. \A o \in Orders : db[o] = NoRow /\ venue[o] = NoVenueOrder
    BY DEF Init
  <1>2. /\ NoVenueOrder.st = "none" /\ NoVenueOrder.cum = 0 /\ NoVenueOrder.fills = <<>>
        /\ Len(NoVenueOrder.fills) = 0
    BY DEF NoVenueOrder
  <1>3. VenueOver(NoVenueOrder)
    <2>1. Total(NoVenueOrder.fills, {}) = 0 /\ FilledUpto(NoVenueOrder, 0) = 0
      <3>1. <<>> \in Seq(Fills)
        OBVIOUS
      <3> QED
        BY <1>2, <3>1, SumBounds DEF FilledUpto
    <2>2. \A n \in 0 .. Len(NoVenueOrder.fills) : n = 0 /\ 1 .. n = {}
      BY <1>2
    <2>3. 0 <= Qty /\ Qty # 0
      BY QtyAssumption
    <2> QED
      BY <1>2, <2>1, <2>2, <2>3 DEF VenueOver
  <1>4. RowSafe(NoRow, NoVenueOrder)
    BY <1>2 DEF RowSafe, NoRow, NoBox, NoProjection
  <1>5. \A w \in Workers : pc[w] = "idle" /\ ctx[w].o \notin Orders
    BY OrdersAssumption DEF Init, Rest
  <1> QED
    BY <1>1, <1>2, <1>3, <1>4, <1>5 DEF SInv, WorkerSafe

\* Under the two hypotheses the invariants always hold.
LEMMA SpecSInv ==
    ASSUME SyncSafe, RejectSafe
    PROVE  Spec => [](IInv /\ EInv /\ SInv /\ Alone)
  <1>1. Init => Alone
    <2>1. Init => AloneInv
      BY DEF Init, AloneInv
    <2> QED
      BY <2>1 DEF Alone, RejectSafe
  <1>2. IInv /\ EInv /\ Alone /\ [Next]_vars => Alone'
    <2> SUFFICES ASSUME IInv, EInv, Alone, [Next]_vars PROVE Alone'
      OBVIOUS
    <2>1. CASE "rejected" \notin Outcomes
      BY <2>1 DEF Alone
    <2>2. CASE AloneInv /\ \E u : Workers = {u}
      <3>1. PICK u : Workers = {u}
        BY <2>2
      <3> QED
        BY <2>2, <3>1, NextAlone DEF Alone
    <2> QED
      BY <2>1, <2>2 DEF Alone
  <1>3. IInv /\ EInv /\ SInv /\ Alone /\ [Next]_vars => SInv'
    BY NextSInv
  <1> QED
    BY <1>1, <1>2, <1>3, InitIInv, NextIInv, InitEInv, NextEInv, InitSInv, PTL DEF Spec

\* A reservation is given back or used up only when the venue can execute
\* nothing more of the order and every executed quantity has been booked:
\* no timeout, lost answer, crash, late fill or concurrent worker frees it
\* earlier, where sync_fills and rejections cannot (_release,
\* _close_open_once, persist_order_observation).
THEOREM ReleaseIsSafe ==
    ASSUME SyncSafe, RejectSafe
    PROVE  Spec => []SafeRelease
  <1>1. SInv => SafeRelease
    BY DEF SInv, RowSafe, SafeRelease, Exposed, Over, Terminal, Open
  <1> QED
    BY <1>1, SpecSInv, PTL

-----------------------------------------------------------------------------
(* The order budget.                                                       *)

\* The four views of the budget that a step may leave alone.
SameHold == \A o \in Orders : HoldOf(db'[o]) = HoldOf(db[o])
SameWorld == \A o \in Orders : WorldOf(venue'[o]) = WorldOf(venue[o])
SameDone == \A o \in Orders : venue'[o].cum = venue[o].cum
SameBooked == \A o \in Orders : db'[o].filled = db[o].filled
HeldOrders == {o \in Orders : HoldOf(db[o]) = "held"}

\* The steps of the budget, order by order.
LEMMA BudgetSteps ==
    /\ SameHold /\ SameWorld /\ SameDone /\ SameBooked => UNCHANGED Budget!bvars
    /\ \A o \in Orders :
          /\ HoldOf(db[o]) = "free" /\ Cardinality(HeldOrders) < MaxOpen
          /\ \A p \in Orders : HoldOf(db'[p]) = IF p = o THEN "held" ELSE HoldOf(db[p])
          /\ SameWorld /\ SameDone /\ SameBooked
          => Budget!Take(o)
    /\ \A o \in Orders :
          /\ HoldOf(db[o]) = "held" /\ WorldOf(venue[o]) = "quiet"
          /\ \A p \in Orders : WorldOf(venue'[p]) = IF p = o THEN "live" ELSE WorldOf(venue[p])
          /\ SameHold /\ SameDone /\ SameBooked
          => Budget!Enter(o)
    /\ \A o \in Orders :
          /\ WorldOf(venue[o]) = "live" /\ WorldOf(venue'[o]) \in {"live", "closed"}
          /\ venue'[o].cum \in venue[o].cum .. Qty
          /\ \A p \in Orders : p # o => venue'[p] = venue[p]
          /\ SameHold /\ SameBooked
          => Budget!Execute(o)
  <1>1. SameHold => [o \in Orders |-> HoldOf(db[o])]' = [o \in Orders |-> HoldOf(db[o])]
    BY DEF SameHold
  <1>2. SameWorld => [o \in Orders |-> WorldOf(venue[o])]' = [o \in Orders |-> WorldOf(venue[o])]
    BY DEF SameWorld
  <1>3. SameDone => [o \in Orders |-> venue[o].cum]' = [o \in Orders |-> venue[o].cum]
    BY DEF SameDone
  <1>4. SameBooked => [o \in Orders |-> db[o].filled]' = [o \in Orders |-> db[o].filled]
    BY DEF SameBooked
  <1>5. SameHold /\ SameWorld /\ SameDone /\ SameBooked => UNCHANGED Budget!bvars
    BY <1>1, <1>2, <1>3, <1>4 DEF Budget!bvars
  <1>6. ASSUME NEW o \in Orders, HoldOf(db[o]) = "free", Cardinality(HeldOrders) < MaxOpen,
               \A p \in Orders : HoldOf(db'[p]) = IF p = o THEN "held" ELSE HoldOf(db[p]),
               SameWorld, SameDone, SameBooked
        PROVE  Budget!Take(o)
    <2>1. [p \in Orders |-> HoldOf(db[p])]' = [[p \in Orders |-> HoldOf(db[p])] EXCEPT ![o] = "held"]
      BY <1>6
    <2>2. Budget!Held = HeldOrders
      BY DEF Budget!Held, HeldOrders
    <2>3. \A S : Budget!Cardinality(S) = Cardinality(S)
      BY Zenon DEF Budget!Cardinality, Cardinality
    <2> QED
      BY <1>2, <1>3, <1>4, <1>6, <2>1, <2>2, <2>3 DEF Budget!Take
  <1>7. ASSUME NEW o \in Orders, HoldOf(db[o]) = "held", WorldOf(venue[o]) = "quiet",
               \A p \in Orders : WorldOf(venue'[p]) = IF p = o THEN "live" ELSE WorldOf(venue[p]),
               SameHold, SameDone, SameBooked
        PROVE  Budget!Enter(o)
    <2>1. [p \in Orders |-> WorldOf(venue[p])]'
             = [[p \in Orders |-> WorldOf(venue[p])] EXCEPT ![o] = "live"]
      BY <1>7
    <2> QED
      BY <1>1, <1>3, <1>4, <1>7, <2>1 DEF Budget!Enter
  <1>8. ASSUME NEW o \in Orders, WorldOf(venue[o]) = "live",
               WorldOf(venue'[o]) \in {"live", "closed"}, venue'[o].cum \in venue[o].cum .. Qty,
               \A p \in Orders : p # o => venue'[p] = venue[p], SameHold, SameBooked
        PROVE  Budget!Execute(o)
    <2>1. [p \in Orders |-> WorldOf(venue[p])]'
             \in {[p \in Orders |-> WorldOf(venue[p])],
                  [[p \in Orders |-> WorldOf(venue[p])] EXCEPT ![o] = "closed"]}
      <3>1. CASE WorldOf(venue'[o]) = "live"
        <4>1. SameWorld
          BY <1>8, <3>1 DEF SameWorld
        <4> QED
          BY <1>2, <4>1
      <3>2. CASE WorldOf(venue'[o]) = "closed"
        BY <1>8, <3>2
      <3> QED
        BY <1>8, <3>1, <3>2
    <2>2. [p \in Orders |-> venue[p].cum]'
             = [[p \in Orders |-> venue[p].cum] EXCEPT ![o] = venue'[o].cum]
      BY <1>8
    <2>3. [p \in Orders |-> venue[p].cum][o] = venue[o].cum
      OBVIOUS
    <2> QED
      BY <1>1, <1>4, <1>8, <2>1, <2>2, <2>3 DEF Budget!Execute
  <1> QED
    BY <1>5, <1>6, <1>7, <1>8

\* What the two invariants say of an order's reservation, booking and venue record.
HoldFine(row, v) ==
    /\ row.filled \in Nat /\ v.cum \in Nat /\ row.filled <= v.cum /\ v.cum <= Qty
    /\ row.res \in {"none", "open", "consumed", "released"}
    /\ row.counted <=> row.res = "open"
    /\ RowSafe(row, v) /\ VenueOver(v)

\* The invariants say so.
LEMMA HoldsFine ==
    ASSUME NEW v, NEW row, RowHeld(row, v)
    PROVE  HoldFine(row, v)
  BY FilledInStep DEF RowHeld, RowGood, RowInv, Rows, VenueOver, HoldFine

\* Transactions other than a new submission book and settle.
LEMMA BookStep ==
    ASSUME SafeRows, UNCHANGED venue,
           \A o \in Orders : HoldFine(db[o], venue[o]) /\ HoldFine(db'[o], venue'[o])
    PROVE  Budget!Book
  <1> DEFINE h == [o \in Orders |-> HoldOf(db[o])]
             k == [o \in Orders |-> db[o].filled]
             x == [o \in Orders |-> WorldOf(venue[o])]
             d == [o \in Orders |-> venue[o].cum]
  <1>1. ASSUME NEW o \in Orders
        PROVE  /\ db[o].filled \in Nat /\ db'[o].filled \in Nat /\ venue[o].cum \in Nat
               /\ db[o].filled <= db'[o].filled /\ db'[o].filled <= venue[o].cum
               /\ venue[o].cum <= Qty
    BY DEF HoldFine, SafeRows, Safely
  <1>2. ASSUME NEW o \in Orders
        PROVE  \/ HoldOf(db'[o]) = HoldOf(db[o])
               \/ /\ HoldOf(db[o]) = "held" /\ HoldOf(db'[o]) = "settled"
                  /\ WorldOf(venue[o]) # "live" /\ db'[o].filled = venue[o].cum
    <2>1. /\ (db'[o].res = "none") = (db[o].res = "none")
          /\ db'[o].res = "open" => db[o].res = "open"
          /\ db'[o].res \in {"none", "open", "consumed", "released"}
          /\ db[o].res \in {"none", "open", "consumed", "released"}
          /\ RowSafe(db'[o], venue[o])
      BY DEF HoldFine, SafeRows, Safely
    <2>2. db'[o].res \in {"consumed", "released"}
             => db'[o].filled = venue[o].cum /\ WorldOf(venue[o]) # "live"
      BY <2>1 DEF RowSafe, Over, WorldOf
    <2> QED
      BY <2>1, <2>2 DEF HoldOf
  <1>3. \A o \in Orders : HoldOf(db'[o]) \in {"free", "held", "settled"}
    BY DEF HoldOf
  <1>4. k' \in [Orders -> 0 .. Qty]
    <2>1. \A o \in Orders : db'[o].filled \in 0 .. Qty
      BY <1>1, QtyAssumption
    <2> QED
      BY <2>1
  <1>5. h' \in [Orders -> {"free", "held", "settled"}]
    BY <1>3
  <1>6. \A o \in Orders : k'[o] \in k[o] .. d[o]
    BY <1>1
  <1>7. \A o \in Orders : \/ h'[o] = h[o]
                          \/ h[o] = "held" /\ h'[o] = "settled" /\ Budget!Final(o)
    BY <1>2 DEF Budget!Final
  <1>8. x' = x /\ d' = d
    OBVIOUS
  <1> QED
    BY <1>4, <1>5, <1>6, <1>7, <1>8 DEF Budget!Book

\* A new submission takes a place in the budget, or is blocked.
LEMMA TakeStep ==
    ASSUME IInv, NEW w \in Workers, NEW o \in Orders, PrepareNew(w, o),
           \A p \in Orders : HoldFine(db[p], venue[p])
    PROVE  [Budget!BudgetNext]_(Budget!bvars)
  <1>1. venue' = venue /\ db[o].sub = "none"
    BY DEF PrepareNew, VenueQuiet
  <1>2. db[o].res = "none" /\ db[o].filled = 0
    BY <1>1 DEF HoldFine, RowSafe, VenueOver
  <1>3. SameWorld /\ SameDone
    BY <1>1 DEF SameWorld, SameDone
  <1>4. ASSUME NEW r, db' = [db EXCEPT ![o] = r], r.filled = 0
        PROVE  SameBooked /\ \A p \in Orders : db'[p] = IF p = o THEN r ELSE db[p]
    BY <1>2, <1>4 DEF SameBooked, IInv, DbInv
  <1>5. /\ Blocked.res = "none" /\ Blocked.filled = 0
        /\ Enqueued.res = "open" /\ Enqueued.filled = 0
    BY DEF Blocked, Enqueued, NoRow, NoBox
  <1>6. CASE db' = [db EXCEPT ![o] = Blocked]
    <2>1. SameHold
      BY <1>2, <1>4, <1>5, <1>6 DEF SameHold, HoldOf
    <2> QED
      BY <1>3, <1>4, <1>5, <1>6, <2>1, BudgetSteps
  <1>7. CASE ~RiskBlocks /\ db' = [db EXCEPT ![o] = Enqueued]
    <2>1. HeldOrders = Counted
      BY DEF HeldOrders, Counted, HoldOf, HoldFine
    <2>2. openCount = Cardinality(Counted) /\ ~(openCount >= MaxOpen)
      BY <1>7 DEF RiskBlocks
    <2>3. openCount \in Nat
      BY <2>2, CountedFinite, FS_CardinalityType
    <2>4. Cardinality(HeldOrders) < MaxOpen
      BY <2>1, <2>2, <2>3, BoundsAssumption
    <2>5. \A p \in Orders : HoldOf(db'[p]) = IF p = o THEN "held" ELSE HoldOf(db[p])
      <3>1. \A p \in Orders : db'[p] = IF p = o THEN Enqueued ELSE db[p]
        BY <1>4, <1>5, <1>7
      <3>2. HoldOf(Enqueued) = "held"
        BY <1>5 DEF HoldOf
      <3> QED
        BY <3>1, <3>2
    <2> QED
      BY <1>2, <1>3, <1>4, <1>5, <1>7, <2>4, <2>5, BudgetSteps DEF HoldOf, Budget!BudgetNext
  <1> QED
    BY <1>6, <1>7 DEF PrepareNew

\* The venue's record of an order moves on.
LEMMA VenueSteps ==
    ASSUME VenueInv, UNCHANGED db, NEW o \in Orders, NEW u, Turn(o, u),
           \A p \in Orders : HoldFine(db[p], venue[p]), HoldFine(db[o], u),
           Sends(o) => db[o].dis.st \notin {"none", "explicitly_rejected"}
    PROVE  [Budget!BudgetNext]_(Budget!bvars)
  <1> DEFINE v == venue[o]
  <1>1. \A p \in Orders : venue'[p] = IF p = o THEN u ELSE venue[p]
    BY DEF Turn, VenueInv
  <1>2. SameHold /\ SameBooked
    BY DEF SameHold, SameBooked
  <1>3. ASSUME u.cum = v.cum PROVE SameDone
    BY <1>1, <1>3 DEF SameDone
  <1>4. CASE WorldOf(u) = WorldOf(v) /\ u.cum = v.cum
    <2>1. SameWorld
      BY <1>1, <1>4 DEF SameWorld
    <2> QED
      BY <1>2, <1>3, <1>4, <2>1, BudgetSteps
  <1>5. CASE v.st = "none" /\ u.st # "none"
    <2>1. ~Over(u) /\ u.cum = v.cum /\ Sends(o)
      BY <1>5 DEF Turn, Goes
    <2>2. db[o].res = "open"
      BY <1>5, <2>1 DEF HoldFine, RowSafe, Over, Terminal
    <2>3. HoldOf(db[o]) = "held" /\ WorldOf(v) = "quiet" /\ WorldOf(u) = "live"
      BY <1>5, <2>1, <2>2 DEF HoldOf, WorldOf, Over
    <2>4. \A p \in Orders : WorldOf(venue'[p]) = IF p = o THEN "live" ELSE WorldOf(venue[p])
      BY <1>1, <2>3
    <2> QED
      BY <1>2, <1>3, <2>1, <2>3, <2>4, BudgetSteps DEF Budget!BudgetNext
  <1>6. CASE v.st # "none" /\ ~Over(v)
    <2>1. u.st # "none" /\ u.cum >= v.cum /\ u.cum <= Qty /\ u.cum \in Nat /\ v.cum \in Nat
      BY <1>6 DEF Turn, Goes, HoldFine
    <2>2. WorldOf(v) = "live" /\ WorldOf(venue'[o]) \in {"live", "closed"}
      BY <1>1, <1>6, <2>1 DEF WorldOf, Over
    <2>3. venue'[o].cum \in venue[o].cum .. Qty
      BY <1>1, <2>1, QtyAssumption
    <2>4. \A p \in Orders : p # o => venue'[p] = venue[p]
      BY <1>1
    <2> QED
      BY <1>2, <2>2, <2>3, <2>4, BudgetSteps DEF Budget!BudgetNext
  <1>7. CASE Over(v) \/ (v.st = "none" /\ u.st = "none")
    <2>1. u.cum = v.cum /\ WorldOf(u) = WorldOf(v)
      BY <1>7 DEF Turn, Goes, WorldOf, Over, Terminal
    <2> QED
      BY <1>4, <2>1
  <1> QED
    BY <1>5, <1>6, <1>7

\* Every step is a step of the budget, or leaves it alone.
LEMMA BudgetStep ==
    ASSUME SyncSafe, IInv, EInv, SInv, Alone, [Next]_vars
    PROVE  [Budget!BudgetNext]_(Budget!bvars)
  <1>1. IInv' /\ EInv' /\ SInv'
    BY NextIInv, NextEInv, NextSInv
  <1>2. \A o \in Orders : HoldFine(db[o], venue[o])
    BY OrderKept, HoldsFine DEF RowKept
  <1>3. \A o \in Orders : HoldFine(db'[o], venue'[o])
    <2> SUFFICES ASSUME NEW o \in Orders PROVE RowHeld(db'[o], venue'[o])
      BY HoldsFine
    <2> QED
      BY <1>1 DEF IInv, EInv, SInv, DbInv, VenueInv, RowsInStep, RowGood, VenueGood, RowHeld
  <1>4. VenueTurns
    BY NextTurns
  <1>5. CASE Prepares
    BY <1>2, <1>5, TakeStep DEF Prepares
  <1>6. CASE SafeRows /\ UNCHANGED venue
    BY <1>2, <1>3, <1>6, BookStep DEF Budget!BudgetNext
  <1>7. ASSUME UNCHANGED db, NEW o \in Orders, NEW u, Turn(o, u)
        PROVE  [Budget!BudgetNext]_(Budget!bvars)
    <2>1. venue'[o] = u
      BY <1>7 DEF Turn, IInv, VenueInv
    <2>2. Sends(o) => db[o].dis.st \notin {"none", "explicitly_rejected"}
      BY DEF Sends, SInv, WorkerSafe, EInv, CallsClaimed, Dispatched
    <2> QED
      BY <1>2, <1>3, <1>7, <2>1, <2>2, VenueSteps DEF IInv
  <1>8. SafeRows \/ Prepares
    BY NextSafe
  <1> QED
    BY <1>4, <1>5, <1>6, <1>7, <1>8, RowsOrVenue DEF VenueTurns

\* The initial states are initial states of the budget.
LEMMA BudgetStarts == Init => Budget!BudgetInit
  <1> SUFFICES ASSUME Init PROVE Budget!BudgetInit
    OBVIOUS
  <1>1. \A o \in Orders : db[o] = NoRow /\ venue[o] = NoVenueOrder
    BY DEF Init
  <1>2. NoRow.res = "none" /\ NoRow.filled = 0 /\ NoVenueOrder.st = "none" /\ NoVenueOrder.cum = 0
    BY DEF NoRow, NoVenueOrder
  <1> QED
    BY <1>1, <1>2 DEF Budget!BudgetInit, HoldOf, WorldOf

\* Durable paper trading implements the order budget: of any number of orders
\* never more than MaxOpen are held, every order the venue may execute is held,
\* and a hold is given back once, when all is over and booked
\* (_reserve_and_enqueue, submit_order, persist_fill_bundle, _release).
THEOREM BudgetImplemented ==
    ASSUME SyncSafe, RejectSafe
    PROVE  Spec => ImplementsBudget
  <1>1. IInv /\ EInv /\ SInv /\ Alone /\ [Next]_vars => [Budget!BudgetNext]_(Budget!bvars)
    BY BudgetStep
  <1> QED
    BY <1>1, BudgetStarts, SpecSInv, PTL DEF Spec, ImplementsBudget, Budget!BudgetSpec
=============================================================================
