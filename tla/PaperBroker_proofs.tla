------------------------- MODULE PaperBroker_proofs -------------------------
(***************************************************************************)
(* Theorems about PaperBroker for any number of workers and orders, any    *)
(* quantity in any number of fills, any lease and any choice of jobs and   *)
(* outcomes.                                                               *)
(*                                                                         *)
(* The inductive invariant IInv has one part per group of variables, and   *)
(* the proof that a step preserves it has one lemma per part:              *)
(*   DbInv     every order's rows satisfy RowInv, and the open-order       *)
(*             counter counts the counted rows;                            *)
(*   VenueInv  the venue's records are well-typed and shows no fill it     *)
(*             does not have;                                              *)
(*   CtxInv    a worker in a step about an order has one, a worker about   *)
(*             to record an answer has one, and no worker holds more fills *)
(*             than the venue has;                                         *)
(*   RestInv   the types of the other variables.                           *)
(* The budget and projection theorems follow from what DbInv says of a     *)
(* step, which the lemmas about one order's rows have per transaction.     *)
(***************************************************************************)
EXTENDS PaperBrokerProps, FiniteSetTheorems, WellFoundedInduction, TLAPS

-----------------------------------------------------------------------------
(* One order's rows.  Kept(r, s) says what a transaction that turns r into  *)
(* s may never undo; there is one lemma per transaction.                   *)

\* The reservation, the budget slot, the submission state and the projection
\* of one order agree.
RowInv(row) ==
    /\ row \in Rows
    /\ row.counted <=> row.res = "open"
    /\ row.res = "open" => row.resQty + row.filled = Qty
    /\ row.res # "open" => row.resQty = 0
    /\ row.sub \in Terminal => ~row.counted
    /\ row.sub = "none" => ~row.counted /\ ~row.proj.on
    /\ ~row.proj.on => row.proj = NoProjection
    /\ row.proj.on /\ row.proj.complete => row.proj.cum = row.filled

\* A budget slot and a reservation stay closed; the projection moves forward.
Kept(r, s) ==
    /\ s.counted => r.counted
    /\ s.res = "open" => r.res = "open"
    /\ s.resQty <= r.resQty
    /\ r.proj.disp # "active" => s.proj.disp = r.proj.disp
    /\ r.proj.seq <= s.proj.seq /\ r.proj.cum <= s.proj.cum

Sound(r, s) == RowInv(s) /\ Kept(r, s)

USE QtyAssumption, WorkersAssumption, LeaseAssumption

\* A transaction that touches neither the reservation, nor the submission
\* state, nor the projection, nor the ledger is sound.
LEMMA BoxesOnly ==
    ASSUME NEW r, RowInv(r), NEW s \in Rows,
           s.sub = r.sub, s.counted = r.counted, s.res = r.res, s.resQty = r.resQty,
           s.filled = r.filled, s.proj = r.proj
    PROVE  Sound(r, s)
  BY DEF Sound, RowInv, Kept, Rows, Projections

\* The same with a new submission state that is neither final nor "none".
LEMMA StateOnly ==
    ASSUME NEW r, RowInv(r), NEW s \in Rows,
           s.sub \notin Terminal \cup {"none"},
           s.counted = r.counted, s.res = r.res, s.resQty = r.resQty,
           s.filled = r.filled, s.proj = r.proj
    PROVE  Sound(r, s)
  BY DEF Sound, RowInv, Kept, Rows, Projections

\* Keeping is transitive.
LEMMA SoundTrans ==
    ASSUME NEW r, NEW s, NEW t, RowInv(r), Sound(r, s), Sound(s, t)
    PROVE  Sound(r, t)
  BY DEF Sound, Kept, RowInv, Rows, Projections

\* Outbox rows stay well-typed when they are claimed, recovered or decided.
LEMMA BoxTypes ==
    ASSUME NEW box \in Boxes, NEW w \in Workers, NEW age \in 0 .. MaxAge, NEW st \in BoxStates
    PROVE  /\ Claimed(box, w, age) \in Boxes
           /\ RecoveryClaimed(box, w, age) \in Boxes
           /\ Decided(st) \in Boxes
           /\ [box EXCEPT !.st = st] \in Boxes
           /\ [Decided(st) EXCEPT !.owner = box.owner] \in Boxes
  <1>1. Lease - age \in Ticks /\ 0 - MaxAge \in Ticks
    BY DEF Ticks
  <1>3. Claimed(box, w, age) \in Boxes
    BY <1>1 DEF Claimed, Boxes, BoxStates
  <1>4. RecoveryClaimed(box, w, age) \in Boxes
    BY <1>1 DEF RecoveryClaimed, Boxes
  <1>5. NoBox \in Boxes
    BY <1>1 DEF NoBox, Boxes, BoxStates
  <1>6. Decided(st) \in Boxes
    BY <1>5 DEF Decided, Boxes
  <1>7. [box EXCEPT !.st = st] \in Boxes
    BY DEF Boxes
  <1>8. [Decided(st) EXCEPT !.owner = box.owner] \in Boxes
    BY <1>6 DEF Boxes
  <1>9. QED
    BY <1>3, <1>4, <1>6, <1>7, <1>8

\* Nothing happened.
LEMMA StaySound ==
    ASSUME NEW r, RowInv(r)
    PROVE  Sound(r, r)
  BY BoxesOnly DEF RowInv

\* The empty rows of an order nobody has submitted.
LEMMA NoRowInv == RowInv(NoRow)
  <1>1. NoBox \in Boxes
    BY DEF NoBox, Boxes, BoxStates, Ticks
  <1>2. NoProjection \in Projections
    BY DEF NoProjection, Projections, OrderStates, SubStates
  <1>3. NoRow \in Rows
    BY <1>1, <1>2 DEF NoRow, Rows, SubStates
  <1>4. QED
    BY <1>3 DEF RowInv, NoRow, NoProjection, Terminal

\* A rejected intent, and an accepted one.
LEMMA NewRowsInv == RowInv(Blocked) /\ RowInv(Enqueued)
  <1>1. NoRow \in Rows /\ NoBox \in Boxes
    BY NoRowInv DEF RowInv, NoRow, Rows
  <1>2. Blocked \in Rows
    BY <1>1 DEF Blocked, Rows, SubStates
  <1>3. [NoBox EXCEPT !.st = "prepared"] \in Boxes
    BY <1>1 DEF Boxes, BoxStates
  <1>4. Enqueued \in Rows
    BY <1>1, <1>3 DEF Enqueued, NoRow, Rows, SubStates
  <1>5. QED
    BY <1>2, <1>4 DEF RowInv, Blocked, Enqueued, NoRow, NoProjection, Terminal
-----------------------------------------------------------------------------
(* Claims, and outcomes that settle nothing.                               *)

\* A lease running down changes the leases only.
LEMMA TickSound ==
    ASSUME NEW row, RowInv(row)
    PROVE  Sound(row, RowTick(row))
  <1>1. \A l \in Ticks : Later(l) \in Ticks
    BY DEF Ticks, Later
  <1>2. \A box \in Boxes : BoxTick(box) \in Boxes
    BY <1>1 DEF BoxTick, Boxes
  <1>3. RowTick(row) \in Rows
    BY <1>2 DEF RowInv, RowTick, Rows
  <1>4. QED
    BY <1>3, BoxesOnly DEF RowTick, RowInv, Rows

\* A new state of one outbox and nothing else.
LEMMA BoxSound ==
    ASSUME NEW row, RowInv(row), NEW box \in Boxes
    PROVE  /\ Sound(row, [row EXCEPT !.dis = box])
           /\ Sound(row, [row EXCEPT !.can = box])
           /\ Sound(row, [row EXCEPT !.exp = box])
  <1>1. /\ [row EXCEPT !.dis = box] \in Rows
        /\ [row EXCEPT !.can = box] \in Rows
        /\ [row EXCEPT !.exp = box] \in Rows
    BY DEF RowInv, Rows
  <1>2. QED
    BY <1>1, BoxesOnly DEF RowInv, Rows

\* A new state of one outbox and a submission state that is not final.
LEMMA BoxStateSound ==
    ASSUME NEW row, RowInv(row), NEW box \in Boxes, NEW st \in SubStates \ (Terminal \cup {"none"})
    PROVE  /\ Sound(row, [row EXCEPT !.dis = box, !.sub = st])
           /\ Sound(row, [row EXCEPT !.can = box, !.sub = st])
  <1>1. /\ [row EXCEPT !.dis = box, !.sub = st] \in Rows
        /\ [row EXCEPT !.can = box, !.sub = st] \in Rows
    BY DEF RowInv, Rows
  <1>2. QED
    BY <1>1, StateOnly DEF RowInv, Rows

\* Every claim of an outbox row and every recovery claim.
LEMMA ClaimsSound ==
    ASSUME NEW row, RowInv(row), NEW w \in Workers, NEW age \in 0 .. MaxAge
    PROVE  /\ Sound(row, ClaimDispatch(row, w, age))
           /\ Sound(row, ClaimDispatchRecovery(row, w, age))
           /\ Sound(row, ClaimCancel(row, w, age))
           /\ Sound(row, ClaimCancelRecovery(row, w, age))
           /\ Sound(row, ClaimExpiry(row, w, age))
           /\ Sound(row, ClaimExpiryRecovery(row, w, age))
  <1>1. row.dis \in Boxes /\ row.can \in Boxes /\ row.exp \in Boxes /\ "none" \in BoxStates
    BY DEF RowInv, Rows, BoxStates
  <1>2. \A box \in Boxes : Claimed(box, w, age) \in Boxes /\ RecoveryClaimed(box, w, age) \in Boxes
    BY <1>1, BoxTypes
  <1>3. "dispatch_claimed" \in SubStates \ (Terminal \cup {"none"})
    BY DEF SubStates, Terminal
  <1>4. Sound(row, ClaimDispatch(row, w, age))
    BY <1>1, <1>2, <1>3, BoxStateSound DEF ClaimDispatch
  <1>5. /\ Sound(row, ClaimDispatchRecovery(row, w, age))
        /\ Sound(row, ClaimCancel(row, w, age))
        /\ Sound(row, ClaimCancelRecovery(row, w, age))
    BY <1>1, <1>2, BoxSound DEF ClaimDispatchRecovery, ClaimCancel, ClaimCancelRecovery
  <1>6. /\ Sound(row, ClaimExpiry(row, w, age))
        /\ Sound(row, ClaimExpiryRecovery(row, w, age))
    BY <1>1, <1>2, BoxSound DEF ClaimExpiry, ClaimExpiryRecovery
  <1>7. QED
    BY <1>4, <1>5, <1>6

\* A request for a cancellation or an expiry, and an outcome nobody knows.
LEMMA RequestsSound ==
    ASSUME NEW row, RowInv(row)
    PROVE  /\ Sound(row, DispatchUnknown(row))
           /\ Sound(row, PrepareCancel(row))
           /\ Sound(row, CancelUnknown(row))
           /\ Sound(row, PrepareExpiry(row))
           /\ Sound(row, ExpiryUnknown(row))
  <1>1. \A box \in Boxes, st \in BoxStates : [box EXCEPT !.st = st] \in Boxes
    BY DEF Boxes
  <1>2. row.dis \in Boxes /\ row.can \in Boxes /\ row.exp \in Boxes
    BY DEF RowInv, Rows
  <1>3. "unknown" \in BoxStates /\ "requested" \in BoxStates
    BY DEF BoxStates
  <1>4. /\ "submission_unknown" \in SubStates \ (Terminal \cup {"none"})
        /\ "cancel_requested" \in SubStates \ (Terminal \cup {"none"})
        /\ "cancel_unknown" \in SubStates \ (Terminal \cup {"none"})
    BY DEF SubStates, Terminal
  <1>5. Sound(row, DispatchUnknown(row))
    <2>1. DispatchUnknown(row) = [row EXCEPT !.dis = [row.dis EXCEPT !.st = "unknown"],
                                            !.sub = "submission_unknown"]
      BY <1>2 DEF DispatchUnknown, RowInv, Rows
    <2>2. [row.dis EXCEPT !.st = "unknown"] \in Boxes
      BY <1>1, <1>2, <1>3
    <2>3. Sound(row, [row EXCEPT !.dis = [row.dis EXCEPT !.st = "unknown"],
                                 !.sub = "submission_unknown"])
      BY <2>2, <1>4, BoxStateSound
    <2>4. QED
      BY <2>1, <2>3
  <1>6. Sound(row, CancelUnknown(row))
    <2>1. CancelUnknown(row) = [row EXCEPT !.can = [row.can EXCEPT !.st = "unknown"],
                                          !.sub = "cancel_unknown"]
      BY <1>2 DEF CancelUnknown, RowInv, Rows
    <2>2. [row.can EXCEPT !.st = "unknown"] \in Boxes
      BY <1>1, <1>2, <1>3
    <2>3. Sound(row, [row EXCEPT !.can = [row.can EXCEPT !.st = "unknown"],
                                 !.sub = "cancel_unknown"])
      BY <2>2, <1>4, BoxStateSound
    <2>4. QED
      BY <2>1, <2>3
  <1>7. Sound(row, PrepareCancel(row))
    <2>1. [row EXCEPT !.can.st = "requested", !.sub = "cancel_requested"]
              = [row EXCEPT !.can = [row.can EXCEPT !.st = "requested"],
                            !.sub = "cancel_requested"]
      BY <1>2 DEF RowInv, Rows
    <2>2. QED
      BY <2>1, <1>1, <1>2, <1>3, <1>4, BoxStateSound, StaySound DEF PrepareCancel
  <1>8. Sound(row, PrepareExpiry(row)) /\ Sound(row, ExpiryUnknown(row))
    <2>1. \A st \in BoxStates : [row EXCEPT !.exp.st = st] = [row EXCEPT !.exp = [row.exp EXCEPT !.st = st]]
      BY <1>2 DEF RowInv, Rows
    <2>2. QED
      BY <2>1, <1>1, <1>2, <1>3, BoxSound DEF PrepareExpiry, ExpiryUnknown
  <1>9. QED
    BY <1>5, <1>6, <1>7, <1>8
-----------------------------------------------------------------------------
(* Settling, and observing what the venue said.                            *)

\* What an observation makes of an order that is open, settled, or whose last
\* fill has just been booked: its reservation may be consumed while the order
\* is still counted, if the observation is about to close it.
Observable(row, ord) ==
    /\ row \in Rows
    /\ row.res = "open" => row.counted /\ row.resQty + row.filled = Qty
    /\ row.res # "open" => row.resQty = 0
    /\ row.counted /\ row.res # "open" => Settles(row, ord)
    /\ ~row.proj.on => row.proj = NoProjection
    /\ ~Unchanged(row, ord)

\* The disposition, once terminal, stays; the authority is final only when the
\* observation settles the order.
LEMMA AuthorityFinal ==
    ASSUME NEW row \in Rows, NEW ord \in Snapshots
    PROVE  /\ Disposition(row, ord) \in Terminal \cup {"active"}
           /\ row.proj.disp # "active" => Disposition(row, ord) = row.proj.disp
           /\ Authority(row, ord) \in SubStates \ {"none"}
           /\ Authority(row, ord) \in Terminal => Settles(row, ord)
           /\ Canonical(row, ord) \in Snapshots
  <1>1. row.proj.disp \in Terminal \cup {"active"}
    BY DEF Rows, Projections
  <1>2. ord.st \in OrderStates
    BY DEF Snapshots
  <1>3. Disposition(row, ord) \in Terminal \cup {"active"}
    BY <1>1 DEF Disposition
  <1>4. row.proj.disp # "active" => Disposition(row, ord) = row.proj.disp
    BY DEF Disposition
  <1>5. Disposition(row, ord) = "active" => ord.st \in Open
    BY <1>2 DEF Disposition, OrderStates, Terminal
  <1>6. Authority(row, ord) \in SubStates \ {"none"}
    BY <1>2, <1>3 DEF Authority, SubmissionState, SubStates, OrderStates, Open, Terminal
  <1>7. Authority(row, ord) \in Terminal => Settles(row, ord)
    BY <1>5 DEF Authority, Settles, SubmissionState, Open, Terminal
  <1>8. Canonical(row, ord) \in Snapshots
    BY <1>3 DEF Canonical, Snapshots, OrderStates
  <1>9. QED
    BY <1>3, <1>4, <1>6, <1>7, <1>8

\* An observation that is not a repetition leaves the rows in order.
LEMMA FreshObservation ==
    ASSUME NEW row, NEW ord \in Snapshots, Observable(row, ord), ObserveOK(row, ord)
    PROVE  Sound(row, Observe(row, ord))
  <1> DEFINE p == Projected(row, ord)
  <1>1. row \in Rows /\ ord.seq \in Nat /\ ord.cum \in Nat /\ ord.st \in OrderStates
    BY DEF Observable, Snapshots
  <1>2. p \in Rows
    <2>1. p.proj \in Projections
      BY <1>1, AuthorityFinal DEF Projected, Projections, Rows, FillComplete
    <2>2. p.obs \subseteq Snapshots /\ p.ords \subseteq Snapshots
      BY <1>1, AuthorityFinal DEF Projected, Rows
    <2>3. p.sub \in SubStates
      BY <1>1, AuthorityFinal DEF Projected, Rows
    <2>4. QED
      BY <1>1, <2>1, <2>2, <2>3 DEF Projected, Rows
  <1>3. /\ p.sub = Authority(row, ord) /\ p.counted = row.counted /\ p.res = row.res
        /\ p.resQty = row.resQty /\ p.filled = row.filled
        /\ p.proj.on /\ p.proj.seq = ord.seq /\ p.proj.cum = ord.cum
        /\ p.proj.disp = Disposition(row, ord) /\ p.proj.complete = FillComplete(row, ord.cum)
    BY <1>1 DEF Projected, Rows
  <1>4. p.sub # "none" /\ (p.proj.complete => ord.cum = row.filled)
    BY <1>1, <1>3, AuthorityFinal DEF Projected, Rows, FillComplete
  <1>5. row.proj.seq <= ord.seq /\ row.proj.cum <= ord.cum
    BY <1>1 DEF ObserveOK, Observable, NoProjection
  <1>6. CASE ~Settles(row, ord)
    <2>1. Observe(row, ord) = p
      BY <1>6 DEF Observe, Observable
    <2>2. RowInv(p)
      BY <1>2, <1>3, <1>6, <1>1, AuthorityFinal DEF RowInv, Observable, FillComplete
    <2>3. Kept(row, p)
      BY <1>1, <1>3, <1>5, AuthorityFinal DEF Kept, Rows
    <2>4. QED
      BY <2>1, <2>2, <2>3 DEF Sound
  <1>7. CASE Settles(row, ord) /\ Disposition(row, ord) = "filled"
    <2> DEFINE s == Closed(p)
    <2>1. Observe(row, ord) = s
      BY <1>7 DEF Observe, Observable
    <2>2. row.res # "open" /\ row.resQty = 0
      BY <1>7 DEF ObserveOK, Observable
    <2>3. s \in Rows /\ ~s.counted /\ s.res = row.res /\ s.resQty = row.resQty /\ s.filled = row.filled
          /\ s.sub = p.sub /\ s.proj = p.proj
      BY <1>2, <1>3 DEF Closed, Rows
    <2>4. s.sub # "none" /\ s.proj.on /\ (s.proj.complete => s.proj.cum = s.filled)
      BY <1>4, <1>3, <2>3
    <2>5. RowInv(s)
      BY <2>2, <2>3, <2>4 DEF RowInv
    <2>6. Kept(row, s)
      BY <1>1, <1>3, <1>5, <2>3, AuthorityFinal DEF Kept, Rows
    <2>7. QED
      BY <2>1, <2>5, <2>6 DEF Sound
  <1>8. CASE Settles(row, ord) /\ Disposition(row, ord) # "filled"
    <2> DEFINE s == Settled(p, Disposition(row, ord))
    <2>1. Observe(row, ord) = s
      BY <1>8 DEF Observe, Observable
    <2>2. s \in Rows
      BY <1>2 DEF Settled, Closed, Released, Rows
    <2>3. ~s.counted /\ s.res # "open" /\ s.resQty = 0 /\ s.filled = row.filled
          /\ s.sub = p.sub /\ s.proj = p.proj
      BY <1>2, <1>3 DEF Settled, Closed, Released, Rows, Observable
    <2>4. s.sub # "none" /\ s.proj.on /\ (s.proj.complete => s.proj.cum = s.filled)
      BY <1>4, <1>3, <2>3
    <2>5. RowInv(s)
      BY <2>2, <2>3, <2>4 DEF RowInv
    <2>6. Kept(row, s)
      BY <1>1, <1>3, <1>5, <2>3, AuthorityFinal DEF Kept, Rows
    <2>7. QED
      BY <2>1, <2>5, <2>6 DEF Sound
  <1>9. QED
    BY <1>6, <1>7, <1>8

\* Any observation that commits is sound.
LEMMA ObserveSound ==
    ASSUME NEW row, RowInv(row), NEW ord \in Snapshots, ObserveOK(row, ord)
    PROVE  Sound(row, Observe(row, ord))
  <1>1. CASE Unchanged(row, ord)
    BY <1>1, StaySound DEF Observe
  <1>2. CASE ~Unchanged(row, ord)
    <2>1. Observable(row, ord)
      BY <1>2 DEF Observable, RowInv
    <2>2. QED
      BY <2>1, FreshObservation
  <1>3. QED
    BY <1>1, <1>2
-----------------------------------------------------------------------------
(* Outcomes of a dispatch, a cancellation or an expiry.                    *)

\* Settling a row whose submission state is final, if its fills are applied.
LEMMA SettledSound ==
    ASSUME NEW r, RowInv(r), NEW s \in Rows, NEW st,
           s.sub # "none", s.counted = r.counted, s.res = r.res, s.resQty = r.resQty,
           s.filled = r.filled, s.proj = r.proj
    PROVE  Sound(r, Settled(s, st))
  <1> DEFINE t == Settled(s, st)
  <1>1. t \in Rows
    BY DEF Settled, Closed, Released, Rows
  <1>2. /\ ~t.counted /\ t.res # "open" /\ t.resQty = 0
        /\ t.filled = r.filled /\ t.sub = s.sub /\ t.proj = r.proj
    BY DEF Settled, Closed, Released, Rows, RowInv
  <1>3. RowInv(t)
    BY <1>1, <1>2 DEF RowInv
  <1>4. Kept(r, t)
    BY <1>1, <1>2 DEF Kept, RowInv, Rows, Projections
  <1>5. QED
    BY <1>3, <1>4 DEF Sound

\* An acknowledged dispatch leaves the budget alone.
LEMMA AcknowledgeSound ==
    ASSUME NEW row, RowInv(row), NEW ord \in Snapshots
    PROVE  Sound(row, Acknowledge(row, ord))
  <1>1. Decided("acknowledged") \in Boxes
    BY DEF Decided, NoBox, Boxes, BoxStates, Ticks
  <1>2. Acknowledge(row, ord) \in Rows
    BY <1>1 DEF Acknowledge, RowInv, Rows, SubStates
  <1>3. QED
    BY <1>2, StateOnly DEF Acknowledge, RowInv, Rows, Terminal

\* A rejected dispatch gives slot and reservation back.
LEMMA RejectSound ==
    ASSUME NEW row, RowInv(row)
    PROVE  Sound(row, Reject(row))
  <1> DEFINE s == [row EXCEPT !.dis = Decided("explicitly_rejected"), !.sub = "rejected"]
  <1>1. Decided("explicitly_rejected") \in Boxes
    BY DEF Decided, NoBox, Boxes, BoxStates, Ticks
  <1>2. /\ s \in Rows /\ s.sub # "none" /\ s.counted = row.counted /\ s.res = row.res
        /\ s.resQty = row.resQty /\ s.filled = row.filled /\ s.proj = row.proj
    BY <1>1 DEF RowInv, Rows, SubStates
  <1>3. QED
    BY <1>2, SettledSound DEF Reject

\* A recovered dispatch settles the order only when its fills are applied.
LEMMA DispatchRecoveredSound ==
    ASSUME NEW row, RowInv(row), NEW ord \in Snapshots
    PROVE  Sound(row, DispatchRecovered(row, ord))
  <1> DEFINE s == [row EXCEPT !.dis = Decided("recovered"), !.sub = StateOf(row, ord),
                              !.ords = @ \cup {ord}]
  <1>1. Decided("recovered") \in Boxes
    BY DEF Decided, NoBox, Boxes, BoxStates, Ticks
  <1>2. StateOf(row, ord) \in SubStates \ {"none"}
    BY DEF StateOf, SubmissionState, Snapshots, OrderStates, Terminal, Open, SubStates
  <1>3. /\ s \in Rows /\ s.sub = StateOf(row, ord) /\ s.counted = row.counted
        /\ s.res = row.res /\ s.resQty = row.resQty /\ s.filled = row.filled
        /\ s.proj = row.proj
    BY <1>1, <1>2 DEF RowInv, Rows
  <1>4. CASE ord.st \in Terminal /\ FillComplete(row, ord.cum)
    BY <1>2, <1>3, <1>4, SettledSound DEF DispatchRecovered
  <1>5. CASE ~(ord.st \in Terminal /\ FillComplete(row, ord.cum))
    <2>1. StateOf(row, ord) \notin Terminal
      BY <1>5 DEF StateOf, SubmissionState, Terminal
    <2>2. QED
      BY <1>2, <1>3, <1>5, <2>1, StateOnly DEF DispatchRecovered
  <1>6. QED
    BY <1>4, <1>5

\* A cancellation answered, confirmed, superseded or not, observes the order.
LEMMA CancelOutcomeSound ==
    ASSUME NEW row, RowInv(row), NEW ord \in Snapshots \cup {NoSnapshot},
           CancelOutcomeOK(row, ord)
    PROVE  Sound(row, CancelOutcome(row, ord))
  <1>1. CASE ord.st \notin Terminal
    BY <1>1, RequestsSound DEF CancelOutcome
  <1>2. CASE ord.st \in Terminal
    <2> DEFINE r == Observe(row, ord)
               b == [Decided(IF ord.st = "cancelled" THEN "confirmed" ELSE "superseded")
                       EXCEPT !.owner = row.can.owner]
    <2>1. ord \in Snapshots
      BY <1>2 DEF NoSnapshot, Terminal
    <2>2. Sound(row, r)
      BY <1>2, <2>1, ObserveSound DEF CancelOutcomeOK
    <2>3. b \in Boxes
      <3>1. \A st \in BoxStates : Decided(st) \in Boxes
        BY DEF Decided, NoBox, Boxes, Ticks
      <3>2. row.can \in Boxes /\ "confirmed" \in BoxStates /\ "superseded" \in BoxStates
        BY DEF RowInv, Rows, BoxStates
      <3>3. QED
        BY <3>1, <3>2 DEF Boxes
    <2>4. Sound(r, [r EXCEPT !.can = b])
      BY <2>2, <2>3, BoxSound DEF Sound
    <2>5. QED
      BY <1>2, <2>2, <2>4, SoundTrans DEF CancelOutcome, CancelDone
  <1>3. QED
    BY <1>1, <1>2

\* An expiry answered observes the order in the same way.
LEMMA ExpiryOutcomeSound ==
    ASSUME NEW row, RowInv(row), NEW ord \in Snapshots \cup {NoSnapshot},
           ExpiryOutcomeOK(row, ord)
    PROVE  Sound(row, ExpiryOutcome(row, ord))
  <1>1. CASE ord.st \notin Terminal
    BY <1>1, RequestsSound DEF ExpiryOutcome
  <1>2. CASE ord.st \in Terminal
    <2> DEFINE r == Observe(row, ord)
               b == [r.exp EXCEPT !.st = "confirmed"]
    <2>1. ord \in Snapshots
      BY <1>2 DEF NoSnapshot, Terminal
    <2>2. Sound(row, r)
      BY <1>2, <2>1, ObserveSound DEF ExpiryOutcomeOK
    <2>3. r \in Rows /\ b \in Boxes
      BY <2>2 DEF Sound, RowInv, Rows, Boxes, BoxStates
    <2>4. Sound(r, [r EXCEPT !.exp = b])
      BY <2>2, <2>3, BoxSound DEF Sound
    <2>5. [r EXCEPT !.exp.st = "confirmed"] = [r EXCEPT !.exp = b]
      BY <2>3 DEF Rows
    <2>6. QED
      BY <1>2, <2>2, <2>4, <2>5, SoundTrans DEF ExpiryOutcome
  <1>3. QED
    BY <1>1, <1>2
-----------------------------------------------------------------------------
(* Fills.                                                                  *)

\* Booking one fill, observation included: the last fill consumes the
\* reservation and the observation that follows closes the order.
LEMMA PersistFillSound ==
    ASSUME NEW row, RowInv(row), NEW i \in Nat, NEW f \in Fills, NEW vo \in Snapshots,
           PersistFillOK(row, i, f, vo)
    PROVE  Sound(row, PersistFill(row, i, f, vo))
  <1> DEFINE b == Booked(row, i, f)
             ord == BookedOrder(row, f, vo)
  <1>1. /\ row \in Rows /\ f.qty \in Nat \ {0} /\ f.seq \in Nat /\ vo.seq \in Nat
        /\ row.filled \in Nat /\ row.resQty \in Nat
    BY DEF RowInv, Rows, Fills, Snapshots
  <1>2. ord \in Snapshots
    BY <1>1 DEF BookedOrder, Snapshots, OrderStates, Open, Terminal
  <1>3. b \in Rows
    <2> DEFINE r == [row EXCEPT !.fills = @ \cup {i}, !.filled = @ + f.qty]
    <2>1. row.fills \cup {i} \in SUBSET Nat /\ row.filled + f.qty \in Nat
      BY <1>1 DEF Rows
    <2>2. r \in Rows
      BY <1>1, <2>1 DEF Rows
    <2>3. CASE row.res # "open"
      BY <2>2, <2>3 DEF Booked
    <2>4. CASE row.res = "open"
      <3>1. row.resQty - f.qty \in Nat
        BY <1>1, <2>4 DEF PersistFillOK
      <3>2. b = [r EXCEPT !.resQty = row.resQty - f.qty,
                          !.res = IF row.resQty = f.qty THEN "consumed" ELSE "open"]
        BY <2>4 DEF Booked
      <3>3. QED
        BY <2>2, <3>1, <3>2 DEF Rows
    <2>5. QED
      BY <2>3, <2>4
  <1>4. /\ b.proj = row.proj /\ b.counted = row.counted /\ b.filled = row.filled + f.qty
        /\ row.res # "open" => b.res = row.res /\ b.resQty = row.resQty
        /\ row.res = "open" => b.resQty = row.resQty - f.qty
        /\ row.res = "open" /\ row.resQty = f.qty => b.res = "consumed"
        /\ row.res = "open" /\ row.resQty # f.qty => b.res = "open"
    BY <1>1 DEF Booked, Rows
  <1>5. FillComplete(b, ord.cum)
    BY <1>4 DEF FillComplete, BookedOrder
  <1>6. ~Unchanged(b, ord)
    BY <1>1, <1>4, <1>5 DEF Unchanged, RowInv, BookedOrder
  <1>7. ASSUME b.counted, b.res # "open"
        PROVE  Settles(b, ord)
    <2>1. row.filled + f.qty = Qty
      BY <1>1, <1>4, <1>7 DEF RowInv
    <2>2. ord.st \in Terminal
      BY <2>1 DEF BookedOrder, Terminal
    <2>3. Disposition(b, ord) # "active"
      BY <2>2 DEF Disposition, Terminal
    <2>4. QED
      BY <2>3, <1>5 DEF Settles
  <1>8. Observable(b, ord)
    BY <1>1, <1>3, <1>4, <1>6, <1>7 DEF Observable, RowInv
  <1>9. Sound(b, Observe(b, ord))
    BY <1>2, <1>8, FreshObservation DEF PersistFillOK
  <1>10. Kept(row, b)
    BY <1>1, <1>3, <1>4 DEF Kept, RowInv, Rows, Projections
  <1>11. QED
    BY <1>1, <1>3, <1>9, <1>10 DEF Sound, Kept, RowInv, Rows, Projections, PersistFill

\* Induction over the natural numbers; a property is the set of those that have it.
LEMMA NumbersInduct ==
    ASSUME NEW Has \in SUBSET Nat, 0 \in Has, \A n \in Has : n + 1 \in Has
    PROVE  \A n \in Nat : n \in Has
  <1> SUFFICES ASSUME Nat \ Has # {} PROVE FALSE
    OBVIOUS
  <1>1. PICK x \in Nat \ Has : \A y \in Nat \ Has : ~(<<y, x>> \in OpToRel(<, Nat))
    BY NatLessThanWellFounded, WFMin
  <1>2. x # 0 /\ x - 1 \in Nat /\ x - 1 < x /\ (x - 1) + 1 = x
    OBVIOUS
  <1>3. x - 1 \in Has
    <2> SUFFICES ASSUME x - 1 \in Nat \ Has PROVE FALSE
      BY <1>2
    <2>1. <<x - 1, x>> \in OpToRel(<, Nat)
      BY <1>2 DEF OpToRel
    <2> QED
      BY <1>1, <2>1
  <1> QED
    BY <1>1, <1>2, <1>3

\* One fill after the other: the rows in between exist and follow each other.
BookedNext(row, fs, n, vo, r, k) ==
    IF k \in Missing(row, n) THEN PersistFill(r, k, fs[k], vo) ELSE r

LEMMA BookedSteps ==
    ASSUME NEW row, NEW fs, NEW n \in Nat, NEW vo
    PROVE  /\ BookedUpto(row, fs, n, vo)[0] = row
           /\ \A k \in 1 .. n : BookedUpto(row, fs, n, vo)[k] =
                  BookedNext(row, fs, n, vo, BookedUpto(row, fs, n, vo)[k - 1], k)
  <1> DEFINE Then(r, k) == BookedNext(row, fs, n, vo, r, k)
             Body(h, j) == [k \in 0 .. j |-> IF k = 0 THEN row ELSE Then(h[k - 1], k)]
             N == {j \in Nat : \E h : h = Body(h, j)}
             b == CHOOSE h : h = Body(h, n)
  <1>1. BookedUpto(row, fs, n, vo) = b
    BY Zenon DEF BookedUpto, BookedNext
  <1> HIDE DEF Then
  <1>2. 0 \in N
    <2> DEFINE h == [k \in 0 .. 0 |-> row]
    <2>1. h = Body(h, 0)
      OBVIOUS
    <2> HIDE DEF h, Body
    <2> QED
      BY <2>1
  <1>3. ASSUME NEW j \in N PROVE j + 1 \in N
    <2>1. PICK h : h = Body(h, j)
      OBVIOUS
    <2>2. j \in Nat
      OBVIOUS
    <2> DEFINE g == [k \in 0 .. (j + 1) |-> IF k = j + 1 THEN Then(h[j], j + 1) ELSE h[k]]
    <2>3. \A k \in 0 .. j : g[k] = h[k]
      BY <2>2
    <2>4. ASSUME NEW k \in 0 .. (j + 1)
          PROVE  g[k] = IF k = 0 THEN row ELSE Then(g[k - 1], k)
      <3>1. CASE k = 0
        BY <2>1, <2>2, <2>3, <3>1
      <3>2. CASE k = j + 1
        <4>1. k - 1 = j /\ j \in 0 .. j /\ k # 0
          BY <2>2, <3>2
        <4> QED
          BY <2>3, <3>2, <4>1
      <3>3. CASE k # 0 /\ k # j + 1
        <4>1. k \in 0 .. j /\ k - 1 \in 0 .. j
          BY <2>2, <3>3
        <4>2. h[k] = Then(h[k - 1], k)
          BY <2>1, <3>3, <4>1
        <4> QED
          BY <2>3, <3>3, <4>1, <4>2
      <3> QED
        BY <3>1, <3>2, <3>3
    <2>5. g = Body(g, j + 1)
      BY <2>4
    <2>6. j + 1 \in Nat
      BY <2>2
    <2> HIDE DEF g, Body
    <2> QED
      BY <2>5, <2>6
  <1>4. n \in N
    <2>1. N \in SUBSET Nat
      OBVIOUS
    <2> HIDE DEF N
    <2> QED
      BY <1>2, <1>3, <2>1, NumbersInduct
  <1>5. b = Body(b, n)
    <2> HIDE DEF Body
    <2> QED
      BY <1>4
  <1> HIDE DEF b
  <1>6. b[0] = row /\ \A k \in 1 .. n : b[k] = Then(b[k - 1], k)
    BY <1>5
  <1> QED
    BY <1>1, <1>6 DEF Then

\* What holds of the row before the fills, and after each fill when it does
\* before it, holds after the last; Has is the set of fill numbers up to which it does.
LEMMA BookedInduct ==
    ASSUME NEW n \in Nat, NEW Has, 0 \in Has, \A k \in 1 .. n : k - 1 \in Has => k \in Has
    PROVE  n \in Has
  <1> DEFINE N == {k \in Nat : k <= n => k \in Has}
  <1>1. 0 \in N
    OBVIOUS
  <1>2. ASSUME NEW k \in N PROVE k + 1 \in N
    <2>1. k \in Nat /\ k + 1 \in Nat
      OBVIOUS
    <2>2. CASE k + 1 <= n
      <3>1. k \in Has
        BY <2>1, <2>2
      <3>2. k + 1 \in 1 .. n /\ (k + 1) - 1 = k
        BY <2>1, <2>2
      <3> QED
        BY <2>1, <3>1, <3>2
    <2>3. CASE ~(k + 1 <= n)
      BY <2>1, <2>3
    <2> QED
      BY <2>2, <2>3
  <1>3. N \in SUBSET Nat
    OBVIOUS
  <1> HIDE DEF N
  <1>4. \A k \in Nat : k \in N
    BY <1>1, <1>2, <1>3, NumbersInduct
  <1> QED
    BY <1>4 DEF N

\* A transaction that commits: each missing fill is booked on what is there.
BookedInTurn(row, fs, n, vo, b) ==
    /\ b[0] = row
    /\ \A k \in 1 .. n : IF k \in Missing(row, n)
                         THEN /\ PersistFillOK(b[k - 1], k, fs[k], vo)
                              /\ b[k] = PersistFill(b[k - 1], k, fs[k], vo)
                         ELSE b[k] = b[k - 1]

LEMMA SyncFillsSteps ==
    ASSUME NEW row, NEW fs, NEW n \in Nat, NEW vo, ~Nothing(vo), SyncFillsOK(row, fs, n, vo)
    PROVE  /\ SyncFills(row, fs, n, vo) = BookedUpto(row, fs, n, vo)[n]
           /\ BookedInTurn(row, fs, n, vo, BookedUpto(row, fs, n, vo))
  <1> DEFINE b == BookedUpto(row, fs, n, vo)
  <1>1. b[0] = row /\ \A k \in 1 .. n : b[k] = BookedNext(row, fs, n, vo, b[k - 1], k)
    BY BookedSteps
  <1>2. \A k \in Missing(row, n) : PersistFillOK(b[k - 1], k, fs[k], vo)
    BY DEF SyncFillsOK
  <1>3. SyncFills(row, fs, n, vo) = b[n]
    BY DEF SyncFills
  <1> HIDE DEF b
  <1>4. BookedInTurn(row, fs, n, vo, b)
    BY <1>1, <1>2 DEF BookedNext, BookedInTurn
  <1> QED
    BY <1>1, <1>3, <1>4 DEF b

\* All missing fills of one order in one transaction.
LEMMA SyncFillsSound ==
    ASSUME NEW row, RowInv(row), NEW fs \in Seq(Fills),
           NEW n \in 0 .. Len(fs), NEW vo \in Snapshots \cup {NoSnapshot},
           SyncFillsOK(row, fs, n, vo)
    PROVE  Sound(row, SyncFills(row, fs, n, vo))
  <1> DEFINE b == BookedUpto(row, fs, n, vo)
             Has == {k \in Nat : Sound(row, b[k])}
  <1>1. n \in Nat /\ \A k \in 1 .. n : fs[k] \in Fills /\ k \in Nat
    OBVIOUS
  <1>2. CASE Nothing(vo)
    BY <1>2, StaySound DEF SyncFills
  <1>3. CASE ~Nothing(vo)
    <2>1. vo \in Snapshots
      BY <1>3 DEF Nothing
    <2>2. SyncFills(row, fs, n, vo) = b[n] /\ BookedInTurn(row, fs, n, vo, b)
      BY <1>1, <1>3, SyncFillsSteps
    <2> HIDE DEF b
    <2>3. 0 \in Has
      BY <2>2, StaySound DEF BookedInTurn
    <2>4. ASSUME NEW k \in 1 .. n, k - 1 \in Has PROVE k \in Has
      <3> DEFINE r == b[k - 1]
      <3>1. Sound(row, r) /\ k \in Nat
        BY <1>1, <2>4
      <3>2. CASE k \notin Missing(row, n)
        BY <2>2, <3>1, <3>2 DEF BookedInTurn
      <3>3. CASE k \in Missing(row, n)
        <4>1. b[k] = PersistFill(r, k, fs[k], vo) /\ PersistFillOK(r, k, fs[k], vo) /\ RowInv(r)
          BY <2>2, <3>1, <3>3 DEF Sound, BookedInTurn
        <4> HIDE DEF r
        <4>2. Sound(r, b[k])
          BY <1>1, <2>1, <4>1, PersistFillSound
        <4> QED
          BY <3>1, <4>2, SoundTrans
      <3> QED
        BY <3>2, <3>3
    <2> HIDE DEF Has
    <2>5. n \in Has
      BY <1>1, <2>3, <2>4, BookedInduct
    <2> QED
      BY <2>2, <2>5 DEF Has
  <1> QED
    BY <1>2, <1>3
-----------------------------------------------------------------------------
(* The invariant.                                                          *)

\* Steps about the one order the worker handles.
OrderSteps == Steps \ {"idle", "hydrate", "syncfetch", "syncapply"}
\* Steps that record an answer which is there.
SeenSteps == {"ack", "note", "fetch", "apply", "cobs", "cdone", "xdone"}

DbInv == /\ db = [o \in Orders |-> db[o]]
         /\ \A o \in Orders : RowInv(db[o])
         /\ openCount = Cardinality(Counted)

VenueFine(v) == v \in VenueOrders /\ v.shown <= Len(v.fills)
VenueInv == /\ venue = [o \in Orders |-> venue[o]]
            /\ \A o \in Orders : VenueFine(venue[o])

CtxFine(step, c, ven) ==
    /\ step \in Steps /\ c \in Contexts
    /\ step \in OrderSteps => c.o \in Orders
    /\ step \in SeenSteps => c.seen \in Snapshots
    /\ \A o \in Orders : c.got[o] <= Len(ven[o].fills)
CtxInv == /\ pc = [w \in Workers |-> pc[w]]
          /\ ctx = [w \in Workers |-> ctx[w]]
          /\ \A w \in Workers : CtxFine(pc[w], ctx[w], venue)

RestInv == /\ kill \in {"armed", "triggered"}
           /\ calls \in [Orders -> Calls]
           /\ fresh \in [Workers -> [Orders -> BOOLEAN]]
           /\ crashes \in 0 .. MaxCrashes

IInv == DbInv /\ VenueInv /\ CtxInv /\ RestInv

\* What a step may do to the rows of an order: a new submission leaves the
\* projection alone, everything else keeps what must be kept.
Moved(r, s) == Kept(r, s) \/ (r.sub = "none" /\ s.proj = r.proj)
DbStep == DbInv' /\ \A o \in Orders : Moved(db[o], db'[o])

\* The venue never takes a fill back.
VenueStep == VenueInv' /\ \A o \in Orders : Len(venue[o].fills) <= Len(venue'[o].fills)

USE OrdersAssumption, JobsAssumption, BoundsAssumption

\* The counted orders are finitely many.
LEMMA CountedFinite == IsFiniteSet(Counted) /\ Cardinality(Counted) \in Nat
  <1>1. Counted \subseteq Orders
    BY DEF Counted
  <1>2. QED
    BY <1>1, FS_Subset, FS_CardinalityType

\* The rows stay as they are.
LEMMA DbQuiet ==
    ASSUME DbInv, UNCHANGED <<db, openCount>>
    PROVE  DbStep
  <1>1. DbInv'
    BY DEF DbInv, Counted
  <1>2. \A o \in Orders : Moved(db[o], db[o])
    BY StaySound DEF Moved, Sound, DbInv
  <1>3. QED
    BY <1>1, <1>2 DEF DbStep

\* One committed transaction.
LEMMA CommitStep ==
    ASSUME DbInv, NEW w, NEW o \in Orders, NEW r, NEW own,
           Sound(db[o], r), Commit(w, o, r, own)
    PROVE  DbStep
  <1>1. db' = [p \in Orders |-> IF p = o THEN r ELSE db[p]]
    BY DEF Commit, DbInv
  <1>2. \A p \in Orders : RowInv(db'[p]) /\ Moved(db[p], db'[p])
    BY <1>1, StaySound DEF DbInv, Sound, Moved
  <1>3. db[o].counted \in BOOLEAN /\ r.counted \in BOOLEAN /\ (r.counted => db[o].counted)
    BY DEF Sound, Kept, RowInv, DbInv, Rows
  <1>4. openCount' = Cardinality(Counted')
    <2>1. CASE db[o].counted /\ ~r.counted
      <3>1. Counted' = Counted \ {o} /\ o \in Counted
        BY <1>1, <2>1 DEF Counted
      <3>2. Cardinality(Counted') = Cardinality(Counted) - 1 /\ Cardinality(Counted) > 0
        <4>1. Cardinality(Counted \ {o}) = Cardinality(Counted) - 1
          BY <3>1, CountedFinite, FS_RemoveElement
        <4>2. Cardinality(Counted \ {o}) \in Nat
          BY CountedFinite, FS_RemoveElement, FS_CardinalityType
        <4>3. QED
          BY <3>1, <4>1, <4>2, CountedFinite
      <3>3. QED
        BY <2>1, <3>2 DEF Commit, DbInv
    <2>2. CASE ~(db[o].counted /\ ~r.counted)
      <3>1. Counted' = Counted
        BY <1>1, <1>3, <2>2 DEF Counted
      <3>2. QED
        BY <2>2, <3>1 DEF Commit, DbInv
    <2>3. QED
      BY <2>1, <2>2
  <1>5. QED
    BY <1>1, <1>2, <1>4 DEF DbStep, DbInv
-----------------------------------------------------------------------------
(* The rows: every action is a sound transaction or leaves them alone.     *)

\* What a worker in the middle of an order's call has at hand.
LEMMA AtHand ==
    ASSUME IInv, NEW w \in Workers, pc[w] \in OrderSteps
    PROVE  /\ ctx[w].o \in Orders /\ RowInv(db[ctx[w].o])
           /\ ctx[w].age \in 0 .. MaxAge /\ 0 \in 0 .. MaxAge
           /\ ctx[w].seen \in Snapshots \cup {NoSnapshot}
           /\ pc[w] \in SeenSteps => ctx[w].seen \in Snapshots
           /\ ctx[w].got[ctx[w].o] \in 0 .. Len(venue[ctx[w].o].fills)
           /\ VenueFine(venue[ctx[w].o])
  <1>1. CtxFine(pc[w], ctx[w], venue)
    BY DEF IInv, CtxInv
  <1>2. ctx[w].o \in Orders
    BY <1>1 DEF CtxFine
  <1>3. VenueFine(venue[ctx[w].o]) /\ RowInv(db[ctx[w].o])
    BY <1>2 DEF IInv, VenueInv, DbInv
  <1>4. venue[ctx[w].o].fills \in Seq(Fills)
    BY <1>3 DEF VenueFine, VenueOrders
  <1>5. /\ ctx[w].age \in 0 .. MaxAge /\ ctx[w].seen \in Snapshots \cup {NoSnapshot}
        /\ ctx[w].got \in [Orders -> Nat]
    BY <1>1 DEF CtxFine, Contexts
  <1>6. ctx[w].got[ctx[w].o] \in 0 .. Len(venue[ctx[w].o].fills)
    BY <1>1, <1>2, <1>4, <1>5 DEF CtxFine
  <1>7. 0 \in 0 .. MaxAge
    BY LeaseAssumption
  <1>8. QED
    BY <1>1, <1>2, <1>3, <1>5, <1>6, <1>7 DEF CtxFine

\* Claiming, sending and deciding a dispatch.
LEMMA SubmitDb ==
    ASSUME IInv, NEW w \in Workers
    PROVE  /\ Claim(w) => DbStep
           /\ Ack(w) => DbStep
           /\ Note(w) => DbStep
           /\ MarkUnknown(w) => DbStep
           /\ MarkRejected(w) => DbStep
  <1> DEFINE o == ctx[w].o
             row == db[ctx[w].o]
  <1>0. DbInv
    BY DEF IInv
  <1>1. ASSUME Claim(w) PROVE DbStep
    <2>1. pc[w] \in OrderSteps
      BY <1>1 DEF Claim, OrderSteps, Steps
    <2>2. Sound(row, ClaimDispatch(row, w, 0)) /\ o \in Orders
      BY <2>1, AtHand, ClaimsSound
    <2>3. QED
      BY <1>0, <1>1, <2>2, CommitStep, DbQuiet DEF Claim, NoCommit
  <1>2. ASSUME Ack(w) PROVE DbStep
    <2>1. pc[w] \in OrderSteps /\ pc[w] \in SeenSteps
      BY <1>2 DEF Ack, OrderSteps, Steps, SeenSteps
    <2>2. Sound(row, Acknowledge(row, ctx[w].seen)) /\ o \in Orders
      BY <2>1, AtHand, AcknowledgeSound
    <2>3. QED
      BY <1>0, <1>2, <2>2, CommitStep, DbQuiet DEF Ack, NoCommit
  <1>3. ASSUME Note(w) PROVE DbStep
    <2>1. pc[w] \in OrderSteps /\ pc[w] \in SeenSteps
      BY <1>3 DEF Note, OrderSteps, Steps, SeenSteps
    <2>2. o \in Orders /\ (ObserveOK(row, ctx[w].seen) => Sound(row, Observe(row, ctx[w].seen)))
      BY <2>1, AtHand, ObserveSound
    <2>3. QED
      BY <1>0, <1>3, <2>2, CommitStep, DbQuiet DEF Note, NoCommit
  <1>4. ASSUME MarkUnknown(w) PROVE DbStep
    <2>1. pc[w] \in OrderSteps
      BY <1>4 DEF MarkUnknown, OrderSteps, Steps
    <2>2. Sound(row, DispatchUnknown(row)) /\ o \in Orders
      BY <2>1, AtHand, RequestsSound
    <2>3. QED
      BY <1>0, <1>4, <2>2, CommitStep, DbQuiet DEF MarkUnknown, NoCommit
  <1>5. ASSUME MarkRejected(w) PROVE DbStep
    <2>1. pc[w] \in OrderSteps
      BY <1>5 DEF MarkRejected, OrderSteps, Steps
    <2>2. Sound(row, Reject(row)) /\ o \in Orders
      BY <2>1, AtHand, RejectSound
    <2>3. QED
      BY <1>0, <1>5, <2>2, CommitStep, DbQuiet DEF MarkRejected, NoCommit
  <1>6. QED
    BY <1>1, <1>2, <1>3, <1>4, <1>5

\* A synchronised order, and with the recovery bundle its observation.
LEMMA BundleSound ==
    ASSUME NEW o \in Orders, RowInv(db[o]), VenueFine(venue[o]),
           NEW n \in 0 .. Len(venue[o].fills), NEW ord \in Snapshots \cup {NoSnapshot}, NEW w
    PROVE  /\ SyncOK(w, o, n, ord) => Sound(db[o], Synced(o, n, ord))
           /\ BundleOK(w, o, n, ord) => Sound(db[o], Bundled(o, n, ord))
  <1>1. ASSUME SyncOK(w, o, n, ord) PROVE Sound(db[o], Synced(o, n, ord))
    BY <1>1, SyncFillsSound DEF SyncOK, Synced, VenueFine, VenueOrders
  <1>2. ASSUME BundleOK(w, o, n, ord) PROVE Sound(db[o], Bundled(o, n, ord))
    <2>1. Sound(db[o], Synced(o, n, ord))
      BY <1>1, <1>2 DEF BundleOK
    <2>2. CASE Nothing(ord)
      BY <2>1, <2>2 DEF Bundled
    <2>3. CASE ~Nothing(ord)
      <3>1. ord \in Snapshots /\ ObserveOK(Synced(o, n, ord), ord)
        BY <1>2, <2>3 DEF BundleOK, Nothing
      <3>2. Sound(Synced(o, n, ord), Observe(Synced(o, n, ord), ord))
        BY <2>1, <3>1, ObserveSound DEF Sound
      <3>3. QED
        BY <2>1, <2>3, <3>2, SoundTrans DEF Bundled
    <2>4. QED
      BY <2>2, <2>3
  <1>3. QED
    BY <1>1, <1>2

\* Applying a query's evidence, and recovering the dispatch and the cancellation.
LEMMA QueryDb ==
    ASSUME IInv, NEW w \in Workers
    PROVE  /\ Apply(w) => DbStep
           /\ QueryDispatch(w) => DbStep
           /\ RecoverDispatch(w) => DbStep
           /\ QueryCancel(w) => DbStep
           /\ RecoverCancel(w) => DbStep
  <1> DEFINE o == ctx[w].o
             row == db[ctx[w].o]
             seen == ctx[w].seen
  <1>0. DbInv
    BY DEF IInv
  <1>1. ASSUME Apply(w) PROVE DbStep
    <2> DEFINE n == ctx[w].got[ctx[w].o]
    <2>1. pc[w] \in OrderSteps /\ pc[w] \in SeenSteps
      BY <1>1 DEF Apply, OrderSteps, Steps, SeenSteps
    <2>2. o \in Orders /\ (BundleOK(w, o, n, seen) => Sound(row, Bundled(o, n, seen)))
      BY <2>1, AtHand, BundleSound
    <2>3. ObserveOK(row, seen) => Sound(row, Observe(row, seen))
      BY <2>1, AtHand, ObserveSound
    <2>4. QED
      BY <1>0, <1>1, <2>2, <2>3, CommitStep, DbQuiet DEF Apply, NoCommit
  <1>2. ASSUME pc[w] \in OrderSteps
        PROVE  /\ o \in Orders
               /\ Sound(row, DispatchUnknown(row))
               /\ ~Nothing(seen) => Sound(row, DispatchRecovered(row, seen))
               /\ Sound(row, ClaimDispatchRecovery(row, w, ctx[w].age))
               /\ Sound(row, ClaimCancelRecovery(row, w, ctx[w].age))
               /\ CancelOutcomeOK(row, seen) => Sound(row, CancelOutcome(row, seen))
    <2>1. /\ o \in Orders /\ RowInv(row) /\ ctx[w].age \in 0 .. MaxAge
          /\ seen \in Snapshots \cup {NoSnapshot}
      BY <1>2, AtHand
    <2>2. Sound(row, DispatchUnknown(row))
      BY <2>1, RequestsSound
    <2>3. ~Nothing(seen) => Sound(row, DispatchRecovered(row, seen))
      BY <2>1, DispatchRecoveredSound DEF Nothing
    <2>4. /\ Sound(row, ClaimDispatchRecovery(row, w, ctx[w].age))
          /\ Sound(row, ClaimCancelRecovery(row, w, ctx[w].age))
      BY <2>1, ClaimsSound
    <2>5. CancelOutcomeOK(row, seen) => Sound(row, CancelOutcome(row, seen))
      BY <2>1, CancelOutcomeSound
    <2>6. QED
      BY <2>1, <2>2, <2>3, <2>4, <2>5
  <1>3. ASSUME QueryDispatch(w) PROVE DbStep
    <2>1. pc[w] \in OrderSteps
      BY <1>3 DEF QueryDispatch, OrderSteps, Steps
    <2>2. QED
      BY <1>0, <1>2, <1>3, <2>1, CommitStep, DbQuiet DEF QueryDispatch, NoCommit
  <1>4. ASSUME RecoverDispatch(w) PROVE DbStep
    <2>1. pc[w] \in OrderSteps
      BY <1>4 DEF RecoverDispatch, OrderSteps, Steps
    <2>2. QED
      BY <1>0, <1>2, <1>4, <2>1, CommitStep, DbQuiet DEF RecoverDispatch, NoCommit
  <1>5. ASSUME QueryCancel(w) PROVE DbStep
    <2>1. pc[w] \in OrderSteps
      BY <1>5 DEF QueryCancel, OrderSteps, Steps
    <2>2. QED
      BY <1>0, <1>2, <1>5, <2>1, CommitStep, DbQuiet DEF QueryCancel, NoCommit
  <1>6. ASSUME RecoverCancel(w) PROVE DbStep
    <2>1. pc[w] \in OrderSteps
      BY <1>6 DEF RecoverCancel, OrderSteps, Steps
    <2>2. QED
      BY <1>0, <1>2, <1>6, <2>1, CommitStep, DbQuiet DEF RecoverCancel, NoCommit
  <1>7. QED
    BY <1>1, <1>3, <1>4, <1>5, <1>6

\* sync_fills books the fills of every order at once.
LEMMA SyncDb ==
    ASSUME IInv, NEW w \in Workers, SyncApply(w)
    PROVE  DbStep
  <1> DEFINE got == ctx[w].got
             synced == [o \in Orders |-> Synced(o, got[o], Snapshot(venue[o]))]
             closed == {o \in Counted : ~synced[o].counted}
  <1>0. DbInv
    BY DEF IInv
  <1>1. CASE UNCHANGED <<db, openCount>>
    BY <1>0, <1>1, DbQuiet
  <1>2. CASE /\ \A o \in Orders : SyncOK(w, o, got[o], Snapshot(venue[o]))
             /\ db' = synced
             /\ openCount' = IF Cardinality(closed) > openCount THEN 0
                             ELSE openCount - Cardinality(closed)
    <2>1. ASSUME NEW o \in Orders PROVE Sound(db[o], synced[o])
      <3>1. VenueFine(venue[o]) /\ RowInv(db[o])
        BY DEF IInv, VenueInv, DbInv
      <3>2. got[o] \in 0 .. Len(venue[o].fills)
        BY <3>1 DEF IInv, CtxInv, CtxFine, Contexts, VenueFine, VenueOrders
      <3>3. Snapshot(venue[o]) \in Snapshots \cup {NoSnapshot}
        BY <3>1 DEF VenueFine, VenueOrders, VenueStates, Known, Snapshot, Snapshots
      <3>4. QED
        BY <1>2, <3>1, <3>2, <3>3, BundleSound
    <2>2. \A o \in Orders : RowInv(db'[o]) /\ Moved(db[o], db'[o])
      BY <1>2, <2>1 DEF Sound, Moved
    <2>3. \A o \in Orders : synced[o].counted => db[o].counted
      BY <2>1 DEF Sound, Kept
    <2>4. Counted' = Counted \ closed
      BY <1>2, <2>3 DEF Counted
    <2>5. closed \subseteq Counted /\ Counted \cap closed = closed
      OBVIOUS
    <2>6. /\ Cardinality(Counted \ closed) = Cardinality(Counted) - Cardinality(closed)
          /\ Cardinality(closed) <= Cardinality(Counted)
          /\ IsFiniteSet(closed)
      BY <2>5, CountedFinite, FS_Difference, FS_Subset
    <2>7. Cardinality(closed) \in Nat
      BY <2>6, FS_CardinalityType
    <2>8. openCount' = Cardinality(Counted')
      <3> HIDE DEF closed
      <3>1. openCount = Cardinality(Counted) /\ Cardinality(Counted) \in Nat
        BY <1>0, CountedFinite DEF DbInv
      <3>2. openCount' = openCount - Cardinality(closed)
        BY <1>2, <2>6, <2>7, <3>1
      <3>3. QED
        BY <2>4, <2>6, <3>1, <3>2
    <2>9. QED
      BY <1>2, <2>2, <2>8 DEF DbStep, DbInv
  <1>3. QED
    BY <1>1, <1>2 DEF SyncApply

\* Requesting, claiming, sending and completing a cancellation.
LEMMA CancelDb ==
    ASSUME IInv, NEW w \in Workers
    PROVE  /\ (\E o \in Orders : StartCancel(w, o)) => DbStep
           /\ CClaim(w) => DbStep
           /\ CObs(w) => DbStep
           /\ CDone(w) => DbStep
           /\ CAmb(w) => DbStep
  <1> DEFINE o == ctx[w].o
             row == db[ctx[w].o]
             seen == ctx[w].seen
  <1>0. DbInv
    BY DEF IInv
  <1>1. ASSUME NEW p \in Orders, StartCancel(w, p) PROVE DbStep
    <2>1. Sound(db[p], PrepareCancel(db[p]))
      BY <1>0, RequestsSound DEF DbInv
    <2>2. QED
      BY <1>0, <1>1, <2>1, CommitStep DEF StartCancel
  <1>2. ASSUME CClaim(w) PROVE DbStep
    <2>1. pc[w] \in OrderSteps
      BY <1>2 DEF CClaim, OrderSteps, Steps
    <2>2. Sound(row, ClaimCancel(row, w, ctx[w].age)) /\ o \in Orders
      BY <2>1, AtHand, ClaimsSound
    <2>3. QED
      BY <1>0, <1>2, <2>2, CommitStep, DbQuiet DEF CClaim, NoCommit
  <1>3. ASSUME CObs(w) PROVE DbStep
    <2>1. pc[w] \in OrderSteps /\ pc[w] \in SeenSteps
      BY <1>3 DEF CObs, OrderSteps, Steps, SeenSteps
    <2>2. o \in Orders /\ (ObserveOK(row, seen) => Sound(row, Observe(row, seen)))
      BY <2>1, AtHand, ObserveSound
    <2>3. QED
      BY <1>0, <1>3, <2>2, CommitStep, DbQuiet DEF CObs, NoCommit
  <1>4. ASSUME CDone(w) PROVE DbStep
    <2> DEFINE again == /\ db[o].can.st = "confirmed" /\ db[o].can.owner = w
                        /\ seen.st = "cancelled"
               next == IF again THEN db[o] ELSE CancelOutcome(db[o], seen)
    <2>1. pc[w] \in OrderSteps
      BY <1>4 DEF CDone, OrderSteps, Steps
    <2>2. o \in Orders /\ (CancelOutcomeOK(row, seen) => Sound(row, CancelOutcome(row, seen)))
      BY <2>1, AtHand, CancelOutcomeSound
    <2>3. Sound(row, row)
      BY <1>0, <2>2, StaySound DEF DbInv
    <2>4. CASE Commit(w, o, next, FALSE) /\ (again \/ CancelOutcomeOK(row, seen))
      <3>1. Sound(row, next)
        BY <2>2, <2>3, <2>4
      <3>2. QED
        BY <1>0, <2>2, <2>4, <3>1, CommitStep
    <2>5. CASE NoCommit
      BY <1>0, <2>5, DbQuiet DEF NoCommit
    <2>6. QED
      BY <1>4, <2>4, <2>5 DEF CDone
  <1>5. ASSUME CAmb(w) PROVE DbStep
    <2>1. pc[w] \in OrderSteps
      BY <1>5 DEF CAmb, OrderSteps, Steps
    <2>2. Sound(row, CancelUnknown(row)) /\ o \in Orders
      BY <2>1, AtHand, RequestsSound
    <2>3. QED
      BY <1>0, <1>5, <2>2, CommitStep, DbQuiet DEF CAmb, NoCommit
  <1>6. QED
    BY <1>1, <1>2, <1>3, <1>4, <1>5

\* Requesting, claiming, completing and recovering an expiry.
LEMMA ExpiryDb ==
    ASSUME IInv, NEW w \in Workers
    PROVE  /\ (\E o \in Orders : StartExpire(w, o)) => DbStep
           /\ XClaim(w) => DbStep
           /\ XDone(w) => DbStep
           /\ XAmb(w) => DbStep
           /\ XRec(w) => DbStep
           /\ XApply(w) => DbStep
           /\ XRecDone(w) => DbStep
  <1> DEFINE o == ctx[w].o
             row == db[ctx[w].o]
             seen == ctx[w].seen
  <1>0. DbInv
    BY DEF IInv
  <1>1. ASSUME NEW p \in Orders, StartExpire(w, p) PROVE DbStep
    <2>1. Sound(db[p], PrepareExpiry(db[p]))
      BY <1>0, RequestsSound DEF DbInv
    <2>2. QED
      BY <1>0, <1>1, <2>1, CommitStep DEF StartExpire
  <1>2. ASSUME pc[w] \in OrderSteps
        PROVE  /\ o \in Orders
               /\ Sound(row, ClaimExpiry(row, w, ctx[w].age))
               /\ Sound(row, ClaimExpiryRecovery(row, w, ctx[w].age))
               /\ Sound(row, ExpiryUnknown(row))
               /\ ExpiryOutcomeOK(row, seen) => Sound(row, ExpiryOutcome(row, seen))
    <2>1. /\ o \in Orders /\ RowInv(row) /\ ctx[w].age \in 0 .. MaxAge
          /\ seen \in Snapshots \cup {NoSnapshot}
      BY <1>2, AtHand
    <2>2. /\ Sound(row, ClaimExpiry(row, w, ctx[w].age))
          /\ Sound(row, ClaimExpiryRecovery(row, w, ctx[w].age))
      BY <2>1, ClaimsSound
    <2>3. Sound(row, ExpiryUnknown(row))
      BY <2>1, RequestsSound
    <2>4. ExpiryOutcomeOK(row, seen) => Sound(row, ExpiryOutcome(row, seen))
      BY <2>1, ExpiryOutcomeSound
    <2>5. QED
      BY <2>1, <2>2, <2>3, <2>4
  <1>3. ASSUME XClaim(w) PROVE DbStep
    <2>1. pc[w] \in OrderSteps
      BY <1>3 DEF XClaim, OrderSteps, Steps
    <2>2. QED
      BY <1>0, <1>2, <1>3, <2>1, CommitStep, DbQuiet DEF XClaim, NoCommit
  <1>4. ASSUME XDone(w) PROVE DbStep
    <2>1. pc[w] \in OrderSteps
      BY <1>4 DEF XDone, OrderSteps, Steps
    <2>2. ObserveOK(row, seen) => ExpiryOutcomeOK(row, seen)
      BY DEF ExpiryOutcomeOK
    <2>3. QED
      BY <1>0, <1>2, <1>4, <2>1, <2>2, CommitStep, DbQuiet DEF XDone, NoCommit
  <1>5. ASSUME XAmb(w) PROVE DbStep
    <2>1. pc[w] \in OrderSteps
      BY <1>5 DEF XAmb, OrderSteps, Steps
    <2>2. QED
      BY <1>0, <1>2, <1>5, <2>1, CommitStep, DbQuiet DEF XAmb, NoCommit
  <1>6. ASSUME XRec(w) PROVE DbStep
    <2>1. pc[w] \in OrderSteps
      BY <1>6 DEF XRec, OrderSteps, Steps
    <2>2. QED
      BY <1>0, <1>2, <1>6, <2>1, CommitStep, DbQuiet DEF XRec, NoCommit
  <1>7. ASSUME XApply(w) PROVE DbStep
    <2> DEFINE n == ctx[w].got[ctx[w].o]
    <2>1. pc[w] \in OrderSteps
      BY <1>7 DEF XApply, OrderSteps, Steps
    <2>2. o \in Orders /\ (BundleOK(w, o, n, seen) => Sound(row, Bundled(o, n, seen)))
      BY <2>1, AtHand, BundleSound
    <2>3. QED
      BY <1>0, <1>7, <2>2, CommitStep, DbQuiet DEF XApply, NoCommit
  <1>8. ASSUME XRecDone(w) PROVE DbStep
    <2>1. pc[w] \in OrderSteps
      BY <1>8 DEF XRecDone, OrderSteps, Steps
    <2>2. QED
      BY <1>0, <1>2, <1>8, <2>1, CommitStep, DbQuiet DEF XRecDone, NoCommit
  <1>9. QED
    BY <1>1, <1>3, <1>4, <1>5, <1>6, <1>7, <1>8

\* A new submission: rejected, or enqueued and counted.
LEMMA PrepareDb ==
    ASSUME IInv, NEW w \in Workers, NEW o \in Orders, PrepareNew(w, o)
    PROVE  DbStep
  <1>0. DbInv /\ db[o].sub = "none" /\ RowInv(db[o])
    BY DEF IInv, DbInv, PrepareNew
  <1>1. ~db[o].counted /\ db[o].proj = NoProjection
    BY <1>0 DEF RowInv
  <1>2. Blocked.proj = NoProjection /\ Enqueued.proj = NoProjection
        /\ ~Blocked.counted /\ Enqueued.counted
    BY DEF Blocked, Enqueued, NoRow
  <1>3. CASE db' = [db EXCEPT ![o] = Blocked] /\ openCount' = openCount
    <2>1. \A p \in Orders : RowInv(db'[p]) /\ Moved(db[p], db'[p])
      BY <1>0, <1>1, <1>2, <1>3, NewRowsInv, StaySound DEF DbInv, Moved, Sound
    <2>2. Counted' = Counted
      BY <1>0, <1>1, <1>2, <1>3 DEF Counted, DbInv
    <2>3. QED
      BY <1>0, <1>3, <2>1, <2>2 DEF DbStep, DbInv
  <1>4. CASE db' = [db EXCEPT ![o] = Enqueued] /\ openCount' = openCount + 1
    <2>1. \A p \in Orders : RowInv(db'[p]) /\ Moved(db[p], db'[p])
      BY <1>0, <1>1, <1>2, <1>4, NewRowsInv, StaySound DEF DbInv, Moved, Sound
    <2>2. Counted' = Counted \cup {o} /\ o \notin Counted
      BY <1>0, <1>1, <1>2, <1>4 DEF Counted, DbInv
    <2>3. Cardinality(Counted') = Cardinality(Counted) + 1
      BY <2>2, CountedFinite, FS_AddElement
    <2>4. QED
      BY <1>0, <1>4, <2>1, <2>3 DEF DbStep, DbInv
  <1>5. QED
    BY <1>3, <1>4 DEF PrepareNew

\* Time changes the leases only.
LEMMA TickDb ==
    ASSUME IInv, Tick
    PROVE  DbStep
  <1>0. DbInv
    BY DEF IInv
  <1>1. \A o \in Orders : Sound(db[o], RowTick(db[o]))
    BY <1>0, TickSound DEF DbInv
  <1>2. \A o \in Orders : db'[o] = RowTick(db[o])
    BY DEF Tick
  <1>3. \A o \in Orders : RowInv(db'[o]) /\ Moved(db[o], db'[o])
    BY <1>1, <1>2 DEF Sound, Moved
  <1>4. \A o \in Orders : RowTick(db[o]).counted = db[o].counted
    BY <1>0 DEF DbInv, RowInv, Rows, RowTick
  <1>5. Counted' = Counted
    BY <1>2, <1>4 DEF Counted
  <1>6. QED
    BY <1>0, <1>3, <1>5 DEF DbStep, DbInv, Tick

\* Every other action leaves the rows alone.
LEMMA QuietDb ==
    ASSUME IInv, NEW w \in Workers
    PROVE  /\ Send(w) \/ Query(w) \/ QueryNone(w) \/ Fetch(w) => DbStep
           /\ HydrateStep(w) \/ SyncFetch(w) \/ StartSync(w) \/ CSend(w) => DbStep
           /\ XSend(w) \/ XQuery(w) \/ XFetch(w) \/ Crash(w) => DbStep
           /\ \A o \in Orders : PrepareReplay(w, o) => DbStep
           /\ \A o \in Orders : StartQuery(w, o) \/ StartRecover(w, o) => DbStep
  <1>0. UNCHANGED <<db, openCount>> => DbStep
    BY DbQuiet DEF IInv
  <1>1. Send(w) \/ Query(w) \/ QueryNone(w) \/ Fetch(w) => DbStep
    BY <1>0 DEF Send, Query, QueryNone, Fetch, NoCommit
  <1>2. HydrateStep(w) \/ SyncFetch(w) \/ StartSync(w) \/ CSend(w) => DbStep
    BY <1>0 DEF HydrateStep, SyncFetch, StartSync, CSend, NoCommit
  <1>3. XSend(w) \/ XQuery(w) \/ XFetch(w) \/ Crash(w) => DbStep
    BY <1>0 DEF XSend, XQuery, XFetch, Crash, NoCommit
  <1>4. \A o \in Orders : PrepareReplay(w, o) => DbStep
    BY <1>0 DEF PrepareReplay
  <1>5. \A o \in Orders : StartQuery(w, o) \/ StartRecover(w, o) => DbStep
    BY <1>0 DEF StartQuery, StartRecover, NoCommit
  <1>6. QED
    BY <1>1, <1>2, <1>3, <1>4, <1>5

\* Every step keeps the rows and the counter in order.
LEMMA NextDb ==
    ASSUME IInv, [Next]_vars
    PROVE  DbStep
  <1>1. ASSUME NEW w \in Workers, WorkerCalls(w) PROVE DbStep
    BY <1>1, SubmitDb, QueryDb, SyncDb, CancelDb, ExpiryDb, QuietDb DEF WorkerCalls
  <1>2. ASSUME NEW w \in Workers, WorkerStarts(w) PROVE DbStep
    BY <1>2, PrepareDb, CancelDb, ExpiryDb, QuietDb DEF WorkerStarts
  <1>3. ASSUME NEW w \in Workers, Crash(w) PROVE DbStep
    BY <1>3, QuietDb
  <1>4. ASSUME NEW o \in Orders, VenueActs(o) PROVE DbStep
    BY <1>4, DbQuiet DEF IInv, VenueActs, Arrive, VenueAcknowledge, VenueReject,
            VenueFill, ShowFill, CompleteCancel, ExpireIoc, VenueMoves, NoCommit
  <1>5. CASE TriggerKill
    BY <1>5, DbQuiet DEF IInv, TriggerKill, NoCommit
  <1>6. CASE UNCHANGED vars
    BY <1>6, DbQuiet DEF IInv, vars
  <1>7. QED
    BY <1>1, <1>2, <1>3, <1>4, <1>5, <1>6, TickDb DEF Next
-----------------------------------------------------------------------------
(* The venue.                                                              *)

\* A venue operation keeps the record well-formed and every fill in it.
VenueMoved(v, u) == VenueFine(u) /\ Len(v.fills) <= Len(u.fills)

\* Each operation of the venue leaves its record in order and keeps its fills.
LEMMA VenueOperations ==
    ASSUME NEW v, VenueFine(v)
    PROVE  /\ VenueMoved(v, v)
           /\ \A st \in OrderStates : VenueMoved(v, Event(v, st))
           /\ VenueMoved(v, [v EXCEPT !.st = "in_flight"])
           /\ VenueMoved(v, CancelRequested(v))
           /\ CanShow(v) => VenueMoved(v, Shown(v))
  <1>1. /\ v \in VenueOrders /\ v.seq \in Nat /\ v.shown \in Nat /\ v.fills \in Seq(Fills)
        /\ Len(v.fills) \in Nat /\ v.shown <= Len(v.fills)
    BY DEF VenueFine, VenueOrders
  <1>2. ASSUME NEW st \in OrderStates PROVE VenueMoved(v, Event(v, st))
    <2>1. st \in VenueStates /\ v.seq + 1 \in Nat
      BY <1>1 DEF VenueStates
    <2>2. Event(v, st) \in VenueOrders
      BY <1>1, <2>1 DEF Event, VenueOrders
    <2>3. Event(v, st).fills = v.fills /\ Event(v, st).shown = v.shown
      BY <1>1 DEF Event, VenueOrders
    <2>4. QED
      BY <1>1, <2>2, <2>3 DEF VenueMoved, VenueFine
  <1>3. VenueMoved(v, [v EXCEPT !.st = "in_flight"])
    BY <1>1 DEF VenueMoved, VenueFine, VenueOrders, VenueStates
  <1>4. VenueMoved(v, v)
    BY <1>1 DEF VenueMoved, VenueFine
  <1>5. VenueMoved(v, CancelRequested(v))
    BY <1>2, <1>4 DEF CancelRequested, OrderStates, Open
  <1>6. CanShow(v) => VenueMoved(v, Shown(v))
    BY <1>1 DEF CanShow, VenueMoved, VenueFine, Shown, VenueOrders
  <1>7. QED
    BY <1>2, <1>3, <1>4, <1>5, <1>6

\* A fill is one more entry of the list.
LEMMA VenueFills ==
    ASSUME NEW v, VenueFine(v), NEW q, CanFill(v, q)
    PROVE  VenueMoved(v, Filled(v, q)) /\ VenueMoved(v, Shown(Filled(v, q)))
  <1> DEFINE f == [qty |-> q, upto |-> v.cum + q, seq |-> v.seq + 1]
             u == Filled(v, q)
  <1>1. /\ v \in VenueOrders /\ v.seq \in Nat /\ v.cum \in Nat /\ v.shown \in Nat
        /\ v.fills \in Seq(Fills) /\ Len(v.fills) \in Nat /\ v.shown <= Len(v.fills)
    BY DEF VenueFine, VenueOrders
  <1>2. q \in Nat \ {0} /\ f \in Fills
    BY <1>1, QtyAssumption DEF CanFill, Fills
  <1>3. Append(v.fills, f) \in Seq(Fills) /\ Len(Append(v.fills, f)) = Len(v.fills) + 1
    BY <1>1, <1>2
  <1>4. u \in VenueOrders /\ u.fills = Append(v.fills, f) /\ u.shown = v.shown
    <2> DEFINE st == IF v.cum + q = Qty THEN "filled" ELSE "partially_filled"
    <2>1. Event(v, st) \in VenueOrders /\ Event(v, st).shown = v.shown
      BY VenueOperations DEF VenueMoved, VenueFine, OrderStates, Terminal, Open, Event, VenueOrders
    <2>2. v.cum + q \in Nat
      BY <1>1, <1>2
    <2>3. u = [Event(v, st) EXCEPT !.cum = v.cum + q, !.fills = Append(v.fills, f)]
      BY DEF Filled
    <2>4. QED
      BY <1>3, <2>1, <2>2, <2>3 DEF VenueOrders
  <1>5. VenueMoved(v, u) /\ CanShow(u)
    BY <1>1, <1>3, <1>4 DEF VenueMoved, VenueFine, CanShow
  <1>6. VenueMoved(u, Shown(u))
    BY <1>5, VenueOperations DEF VenueMoved
  <1>7. QED
    BY <1>1, <1>3, <1>4, <1>5, <1>6 DEF VenueMoved, VenueFine, VenueOrders

\* One order's record moves by an operation of the venue.
LEMMA VenueMoveStep ==
    ASSUME VenueInv, NEW o \in Orders, NEW u, VenueMoved(venue[o], u),
           venue' = [venue EXCEPT ![o] = u]
    PROVE  VenueStep
  <1>1. venue' = [p \in Orders |-> IF p = o THEN u ELSE venue[p]]
    BY DEF VenueInv
  <1>2. \A p \in Orders : VenueMoved(venue[p], venue'[p])
    BY <1>1, VenueOperations DEF VenueInv, VenueMoved
  <1>3. QED
    BY <1>1, <1>2 DEF VenueStep, VenueInv, VenueMoved

\* The venue's records stay as they are.
LEMMA VenueQuietStep ==
    ASSUME VenueInv, UNCHANGED venue
    PROVE  VenueStep
  <1>1. \A p \in Orders : VenueMoved(venue[p], venue[p])
    BY VenueOperations DEF VenueInv
  <1>2. QED
    BY <1>1 DEF VenueStep, VenueInv, VenueMoved

\* Every step keeps the venue's records in order.
LEMMA NextVenue ==
    ASSUME IInv, [Next]_vars
    PROVE  VenueStep
  <1>0. VenueInv /\ (UNCHANGED venue => VenueStep)
    BY VenueQuietStep DEF IInv
  <1>1. ASSUME NEW o \in Orders
        PROVE  /\ \A st \in OrderStates : VenueMoved(venue[o], Event(venue[o], st))
               /\ VenueMoved(venue[o], [venue[o] EXCEPT !.st = "in_flight"])
               /\ VenueMoved(venue[o], CancelRequested(venue[o]))
               /\ CanShow(venue[o]) => VenueMoved(venue[o], Shown(venue[o]))
               /\ [venue EXCEPT ![o].st = "in_flight"]
                      = [venue EXCEPT ![o] = [venue[o] EXCEPT !.st = "in_flight"]]
    BY <1>0, VenueOperations DEF VenueInv
  <1>2. {"pending_ack", "unknown", "acknowledged", "rejected", "cancelled", "expired"}
            \subseteq OrderStates
    BY DEF OrderStates, Terminal, Open
  <1>3. ASSUME NEW w \in Workers, Send(w) PROVE VenueStep
    <2>1. ctx[w].o \in Orders
      BY <1>3, AtHand DEF Send, OrderSteps, Steps
    <2>2. QED
      BY <1>0, <1>1, <1>2, <1>3, <2>1, VenueMoveStep DEF Send, Submitted
  <1>4. ASSUME NEW w \in Workers, CSend(w) PROVE VenueStep
    <2>1. ctx[w].o \in Orders
      BY <1>4, AtHand DEF CSend, OrderSteps, Steps
    <2>2. QED
      BY <1>0, <1>1, <1>4, <2>1, VenueMoveStep DEF CSend
  <1>5. ASSUME NEW w \in Workers, XSend(w) PROVE VenueStep
    <2>1. ctx[w].o \in Orders
      BY <1>5, AtHand DEF XSend, OrderSteps, Steps
    <2>2. QED
      BY <1>0, <1>1, <1>2, <1>5, <2>1, VenueMoveStep DEF XSend, Expired
  <1>6. ASSUME NEW w \in Workers, WorkerCalls(w), ~Send(w), ~CSend(w), ~XSend(w)
        PROVE  VenueStep
    <2>1. VenueQuiet
      BY <1>6 DEF WorkerCalls, Claim, Ack, Note, MarkUnknown, MarkRejected, Query, QueryNone,
                  Fetch, Apply, QueryDispatch, RecoverDispatch, QueryCancel, RecoverCancel,
                  HydrateStep, SyncFetch, SyncApply, CClaim, CObs, CDone, CAmb, XClaim, XDone,
                  XAmb, XRec, XQuery, XFetch, XApply, XRecDone
    <2>2. QED
      BY <1>0, <2>1 DEF VenueQuiet
  <1>7. ASSUME NEW w \in Workers, WorkerStarts(w) \/ Crash(w) PROVE VenueStep
    BY <1>0, <1>7 DEF WorkerStarts, StartSync, PrepareNew, PrepareReplay, StartQuery,
                      StartCancel, StartExpire, StartRecover, Crash, VenueQuiet
  <1>8. ASSUME NEW o \in Orders, VenueActs(o) PROVE VenueStep
    <2>1. CASE VenueFill(o)
      <3>1. PICK q \in 1 .. Qty : /\ CanFill(venue[o], q)
                                  /\ VenueMoves(o, IF LagFills THEN Filled(venue[o], q)
                                                   ELSE Shown(Filled(venue[o], q)))
        BY <2>1 DEF VenueFill
      <3>2. /\ VenueMoved(venue[o], Filled(venue[o], q))
            /\ VenueMoved(venue[o], Shown(Filled(venue[o], q)))
        BY <1>0, <3>1, VenueFills DEF VenueInv
      <3>3. QED
        BY <1>0, <3>1, <3>2, VenueMoveStep DEF VenueMoves
    <2>2. CASE ShowFill(o)
      BY <1>0, <1>1, <2>2, VenueMoveStep DEF ShowFill, VenueMoves
    <2>3. CASE Arrive(o) \/ VenueAcknowledge(o) \/ VenueReject(o) \/ CompleteCancel(o) \/ ExpireIoc(o)
      BY <1>0, <1>1, <1>2, <2>3, VenueMoveStep
         DEF Arrive, VenueAcknowledge, VenueReject, CompleteCancel, ExpireIoc, VenueMoves,
             Submitted, Acknowledged, Rejected, Cancelled, Expired
    <2>4. QED
      BY <1>8, <2>1, <2>2, <2>3 DEF VenueActs
  <1>9. CASE Tick \/ TriggerKill \/ UNCHANGED vars
    BY <1>0, <1>9 DEF Tick, TriggerKill, VenueQuiet, vars
  <1>10. QED
    BY <1>3, <1>4, <1>5, <1>6, <1>7, <1>8, <1>9 DEF Next
-----------------------------------------------------------------------------
(* The workers.                                                            *)

\* A context in the middle of an order's call.
Handling(c) == /\ c \in Contexts /\ c.o \in Orders
               /\ \A o \in Orders : c.got[o] <= Len(venue[o].fills)

\* The venue cannot make a context unfit.
LEMMA FineLater ==
    ASSUME IInv, VenueStep, NEW step, NEW c, CtxFine(step, c, venue)
    PROVE  CtxFine(step, c, venue')
  <1>1. \A o \in Orders : /\ Len(venue[o].fills) <= Len(venue'[o].fills)
                          /\ Len(venue[o].fills) \in Nat /\ Len(venue'[o].fills) \in Nat
    BY DEF VenueStep, IInv, VenueInv, VenueFine, VenueOrders
  <1>2. \A o \in Orders : c.got[o] \in Nat /\ c.got[o] <= Len(venue[o].fills)
    BY DEF CtxFine, Contexts
  <1>3. \A o \in Orders : c.got[o] <= Len(venue'[o].fills)
    BY <1>1, <1>2
  <1>4. QED
    BY <1>3 DEF CtxFine

\* A worker moves on to a step with a context that fits it.
LEMMA CtxMove ==
    ASSUME IInv, VenueStep, NEW w \in Workers, NEW step, NEW c,
           CtxFine(step, c, venue), Goto(w, step, c)
    PROVE  CtxInv'
  <1>1. /\ pc' = [x \in Workers |-> IF x = w THEN step ELSE pc[x]]
        /\ ctx' = [x \in Workers |-> IF x = w THEN c ELSE ctx[x]]
    BY DEF Goto, IInv, CtxInv
  <1>2. \A x \in Workers : CtxFine(pc'[x], ctx'[x], venue)
    BY <1>1 DEF IInv, CtxInv
  <1>3. \A x \in Workers : CtxFine(pc'[x], ctx'[x], venue')
    BY <1>2, FineLater
  <1>4. QED
    BY <1>1, <1>3 DEF CtxInv

\* The workers stay where they are, whatever the venue does.
LEMMA CtxStays ==
    ASSUME IInv, VenueStep, UNCHANGED <<pc, ctx>>
    PROVE  CtxInv'
  <1>1. \A x \in Workers : CtxFine(pc[x], ctx[x], venue')
    BY FineLater DEF IInv, CtxInv
  <1>2. QED
    BY <1>1 DEF CtxInv, IInv

\* The context between two calls, with the job that goes on, and with an order.
LEMMA RestFine ==
    ASSUME IInv
    PROVE  /\ CtxFine("idle", Rest, venue)
           /\ \A job \in AllJobs \cup {"none"}, step \in {"idle", "hydrate", "syncfetch"} :
                  CtxFine(step, [Rest EXCEPT !.job = job], venue)
           /\ \A o \in Orders, job \in AllJobs, suspect \in BOOLEAN :
                  Handling([Rest EXCEPT !.o = o, !.job = job, !.suspect = suspect])
           /\ \A o \in Orders, job \in AllJobs :
                  Handling([Rest EXCEPT !.o = o, !.job = job])
  <1>1. 0 \in 0 .. MaxAge
    BY LeaseAssumption
  <1>2. NoFills \in [Orders -> Nat] /\ \A o \in Orders : NoFills[o] <= Len(venue[o].fills)
    BY DEF NoFills, IInv, VenueInv, VenueFine, VenueOrders
  <1>3. Rest \in Contexts
    BY <1>1, <1>2 DEF Rest, Contexts
  <1>4. Rest.got = NoFills
    BY DEF Rest
  <1>5. /\ \A job \in AllJobs \cup {"none"} : [Rest EXCEPT !.job = job] \in Contexts
        /\ \A o \in Orders, job \in AllJobs, suspect \in BOOLEAN :
               [Rest EXCEPT !.o = o, !.job = job, !.suspect = suspect] \in Contexts
        /\ \A o \in Orders, job \in AllJobs : [Rest EXCEPT !.o = o, !.job = job] \in Contexts
    BY <1>3 DEF Contexts
  <1>6. CtxFine("idle", Rest, venue)
    BY <1>2, <1>3, <1>4 DEF CtxFine, Steps, OrderSteps, SeenSteps
  <1>7. \A job \in AllJobs \cup {"none"}, step \in {"idle", "hydrate", "syncfetch"} :
            CtxFine(step, [Rest EXCEPT !.job = job], venue)
    <2>1. \A job : [Rest EXCEPT !.job = job].got = NoFills
      BY DEF Rest
    <2>2. \A step \in {"idle", "hydrate", "syncfetch"} :
              step \in Steps /\ step \notin OrderSteps /\ step \notin SeenSteps
      BY DEF Steps, OrderSteps, SeenSteps
    <2>3. QED
      BY <1>2, <1>5, <2>1, <2>2 DEF CtxFine
  <1>8. QED
    BY <1>2, <1>4, <1>5, <1>6, <1>7 DEF Handling, Rest

\* A context in an order's call fits the next step of the call.
LEMMA HandlingFine ==
    ASSUME NEW c, Handling(c), NEW step \in OrderSteps,
           step \in SeenSteps => c.seen \in Snapshots
    PROVE  CtxFine(step, c, venue)
  BY DEF Handling, CtxFine, OrderSteps

\* What a worker does to its context during the call.
LEMMA HandlingKept ==
    ASSUME NEW c, Handling(c), VenueInv
    PROVE  /\ Handling([c EXCEPT !.tok = TRUE])
           /\ Handling([c EXCEPT !.age = 0])
           /\ Handling([c EXCEPT !.got = NoFills])
           /\ \A seen \in Snapshots \cup {NoSnapshot} : Handling([c EXCEPT !.seen = seen])
           /\ \A o \in Orders : LET got == [NoFills EXCEPT ![o] = venue[o].shown] IN
                  Handling([c EXCEPT !.age = 0, !.got = got]) /\ Handling([c EXCEPT !.got = got])
  <1>1. 0 \in 0 .. MaxAge /\ c \in Contexts /\ c.o \in Orders
    BY LeaseAssumption DEF Handling
  <1>2. \A o \in Orders : /\ venue[o].shown \in Nat /\ Len(venue[o].fills) \in Nat
                          /\ venue[o].shown <= Len(venue[o].fills)
    BY DEF VenueInv, VenueFine, VenueOrders
  <1>3. /\ Handling([c EXCEPT !.tok = TRUE])
        /\ Handling([c EXCEPT !.age = 0])
        /\ \A seen \in Snapshots \cup {NoSnapshot} : Handling([c EXCEPT !.seen = seen])
    BY <1>1 DEF Handling, Contexts
  <1>4. ASSUME NEW got \in [Orders -> Nat], \A o \in Orders : got[o] <= Len(venue[o].fills)
        PROVE  Handling([c EXCEPT !.age = 0, !.got = got]) /\ Handling([c EXCEPT !.got = got])
    BY <1>1, <1>4 DEF Handling, Contexts
  <1>5. NoFills \in [Orders -> Nat] /\ \A o \in Orders : NoFills[o] <= Len(venue[o].fills)
    BY <1>2 DEF NoFills
  <1>6. \A p \in Orders : LET got == [NoFills EXCEPT ![p] = venue[p].shown] IN
            got \in [Orders -> Nat] /\ \A o \in Orders : got[o] <= Len(venue[o].fills)
    BY <1>2, <1>5
  <1>7. QED
    BY <1>3, <1>4, <1>5, <1>6

PlainSteps == OrderSteps \ SeenSteps

\* Where a worker in an order's call may go.
LEMMA Moves ==
    ASSUME IInv, VenueStep, NEW w \in Workers
    PROVE  /\ \A step \in PlainSteps : \A c : Handling(c) /\ Goto(w, step, c) => CtxInv'
           /\ \A step \in SeenSteps : \A c :
                  Handling(c) /\ c.seen \in Snapshots /\ Goto(w, step, c) => CtxInv'
           /\ Done(w) => CtxInv'
           /\ \A job \in AllJobs \cup {"none"}, step \in {"idle", "hydrate", "syncfetch"} :
                  Goto(w, step, [Rest EXCEPT !.job = job]) => CtxInv'
           /\ Return(w) => CtxInv'
           /\ Raise(w) => CtxInv'
           /\ QueryEnd(w) => CtxInv'
  <1>1. ASSUME NEW step \in PlainSteps, NEW c, Handling(c), Goto(w, step, c) PROVE CtxInv'
    BY <1>1, HandlingFine, CtxMove DEF PlainSteps
  <1>2. ASSUME NEW step \in SeenSteps, NEW c, Handling(c), c.seen \in Snapshots, Goto(w, step, c)
        PROVE  CtxInv'
    <2>1. step \in OrderSteps
      BY DEF OrderSteps, SeenSteps, Steps
    <2>2. QED
      BY <1>2, <2>1, HandlingFine, CtxMove
  <1>3. Done(w) => CtxInv'
    BY RestFine, CtxMove DEF Done
  <1>4. \A job \in AllJobs \cup {"none"}, step \in {"idle", "hydrate", "syncfetch"} :
            Goto(w, step, [Rest EXCEPT !.job = job]) => CtxInv'
    BY RestFine, CtxMove
  <1>5. Return(w) => CtxInv'
    BY <1>3, <1>4 DEF Return, AllJobs
  <1>6. ctx[w].job \in AllJobs \cup {"none"}
    BY DEF IInv, CtxInv, CtxFine, Contexts
  <1>7. QueryEnd(w) => CtxInv'
    BY <1>4, <1>5, <1>6 DEF QueryEnd
  <1>8. QED
    BY <1>1, <1>2, <1>3, <1>4, <1>5, <1>7 DEF Raise

\* The steps by kind.
LEMMA StepNames ==
    /\ {"claim", "send", "amb", "rej", "query", "none", "dis", "disrec", "can", "canrec"}
           \subseteq PlainSteps
    /\ {"cclaim", "csend", "camb", "xclaim", "xsend", "xamb", "xrec", "xquery", "xfetch",
        "xapply", "xrecdone"} \subseteq PlainSteps
    /\ PlainSteps \cup SeenSteps = OrderSteps
  BY DEF PlainSteps, OrderSteps, SeenSteps, Steps

\* The context of a worker in an order's call.
LEMMA Working ==
    ASSUME IInv, NEW w \in Workers, pc[w] \in PlainSteps \cup SeenSteps
    PROVE  /\ Handling(ctx[w])
           /\ pc[w] \in SeenSteps => ctx[w].seen \in Snapshots
  BY StepNames DEF IInv, CtxInv, CtxFine, Handling

\* The steps of a submission hand on a context that fits the next step.
LEMMA SubmitCtx ==
    ASSUME IInv, VenueStep, NEW w \in Workers
    PROVE  /\ Claim(w) => CtxInv'
           /\ Send(w) => CtxInv'
           /\ Ack(w) => CtxInv'
           /\ Note(w) => CtxInv'
           /\ MarkUnknown(w) => CtxInv'
           /\ MarkRejected(w) => CtxInv'
  <1> DEFINE o == ctx[w].o
             v == venue[ctx[w].o]
  <1>1. ASSUME Claim(w) PROVE CtxInv'
    <2>1. Handling(ctx[w]) /\ Handling([ctx[w] EXCEPT !.tok = TRUE]) /\ "send" \in PlainSteps
      BY <1>1, StepNames, Working, HandlingKept DEF Claim, IInv
    <2>2. QED
      BY <1>1, <2>1, Moves DEF Claim
  <1>2. ASSUME Send(w) PROVE CtxInv'
    <2>1. Handling(ctx[w]) /\ "amb" \in PlainSteps /\ "rej" \in PlainSteps /\ "ack" \in SeenSteps
      BY <1>2, StepNames, Working DEF Send, SeenSteps
    <2>2. \A seen \in Snapshots : /\ Handling([ctx[w] EXCEPT !.seen = seen])
                                  /\ [ctx[w] EXCEPT !.seen = seen].seen = seen
      BY <2>1, HandlingKept DEF IInv, Handling, Contexts
    <2>3. Known(v) => Snapshot(v) \in Snapshots
      BY <2>1 DEF Handling, IInv, VenueInv, VenueFine, VenueOrders, VenueStates, Known,
                  Snapshot, Snapshots
    <2>4. venue' = [venue EXCEPT ![o] = Submitted(v, "pending_ack")]
              => Snapshot(venue'[o]) \in Snapshots
      <3>1. Snapshot(Submitted(v, "pending_ack")) \in Snapshots
        BY <2>1 DEF Handling, IInv, VenueInv, VenueFine, VenueOrders, Submitted, Event, Known,
                    Snapshot, Snapshots, OrderStates, Open
      <3>2. QED
        BY <2>1, <3>1 DEF Handling, IInv, VenueInv
    <2>5. CASE Goto(w, "ack", [ctx[w] EXCEPT !.seen = Snapshot(v)]) /\ Known(v)
      <3> DEFINE c == [ctx[w] EXCEPT !.seen = Snapshot(v)]
      <3>1. Handling(c) /\ c.seen \in Snapshots
        BY <2>2, <2>3, <2>5
      <3>2. QED
        BY <2>1, <2>5, <3>1, Moves
    <2>6. CASE /\ venue' = [venue EXCEPT ![o] = Submitted(v, "pending_ack")]
               /\ Goto(w, "ack", [ctx[w] EXCEPT !.seen = Snapshot(venue'[o])])
      <3> DEFINE c == [ctx[w] EXCEPT !.seen = Snapshot(venue'[o])]
      <3>1. Handling(c) /\ c.seen \in Snapshots
        BY <2>2, <2>4, <2>6
      <3>2. Goto(w, "ack", c)
        BY <2>6
      <3> HIDE DEF c
      <3>3. QED
        BY <2>1, <3>1, <3>2, Moves
    <2>7. CASE Goto(w, "amb", ctx[w]) \/ Goto(w, "rej", ctx[w])
      BY <2>1, <2>7, Moves
    <2>8. QED
      BY <1>2, <2>5, <2>6, <2>7 DEF Send
  <1>3. ASSUME Ack(w) PROVE CtxInv'
    <2>1. /\ Handling(ctx[w]) /\ ctx[w].seen \in Snapshots
          /\ "amb" \in PlainSteps /\ "note" \in SeenSteps
      BY <1>3, StepNames, Working DEF Ack, SeenSteps
    <2>2. QED
      BY <1>3, <2>1, Moves DEF Ack
  <1>4. ASSUME Note(w) PROVE CtxInv'
    <2>1. Handling(ctx[w]) /\ "amb" \in PlainSteps
      BY <1>4, StepNames, Working DEF Note, SeenSteps
    <2>2. QED
      BY <1>4, <2>1, Moves DEF Note
  <1>5. MarkUnknown(w) \/ MarkRejected(w) => CtxInv'
    BY Moves DEF MarkUnknown, MarkRejected
  <1>6. QED
    BY <1>1, <1>2, <1>3, <1>4, <1>5

\* The steps of a query do.
LEMMA QueryCtx ==
    ASSUME IInv, VenueStep, NEW w \in Workers
    PROVE  /\ Query(w) \/ QueryNone(w) \/ Fetch(w) \/ Apply(w) => CtxInv'
           /\ QueryDispatch(w) \/ RecoverDispatch(w) => CtxInv'
           /\ QueryCancel(w) \/ RecoverCancel(w) => CtxInv'
           /\ HydrateStep(w) => CtxInv'
  <1> DEFINE o == ctx[w].o
             ord == Snapshot(venue[ctx[w].o])
  <1>1. ASSUME Query(w) PROVE CtxInv'
    <2>1. Handling(ctx[w]) /\ "none" \in PlainSteps /\ "fetch" \in SeenSteps
      BY <1>1, StepNames, Working DEF Query, SeenSteps
    <2>2. Known(venue[o]) => ord \in Snapshots
      BY <2>1 DEF Handling, IInv, VenueInv, VenueFine, VenueOrders, VenueStates, Known,
                  Snapshot, Snapshots
    <2>3. Known(venue[o]) => /\ Handling([ctx[w] EXCEPT !.seen = ord])
                             /\ [ctx[w] EXCEPT !.seen = ord].seen = ord
      BY <2>1, <2>2, HandlingKept DEF IInv, Handling, Contexts
    <2>4. QED
      BY <1>1, <2>1, <2>2, <2>3, Moves DEF Query
  <1>2. ASSUME QueryNone(w) PROVE CtxInv'
    <2>1. Handling([ctx[w] EXCEPT !.age = 0]) /\ "dis" \in PlainSteps
      BY <1>2, StepNames, Working, HandlingKept DEF QueryNone, IInv
    <2>2. QED
      BY <1>2, <2>1, Moves DEF QueryNone
  <1>3. ASSUME Fetch(w) PROVE CtxInv'
    <2> DEFINE c == [ctx[w] EXCEPT !.age = 0, !.got = [NoFills EXCEPT ![o] = venue[o].shown]]
    <2>1. Handling(ctx[w]) /\ ctx[w].seen \in Snapshots /\ "apply" \in SeenSteps
      BY <1>3, Working DEF Fetch, SeenSteps
    <2>2. o \in Orders /\ VenueInv /\ c.seen = ctx[w].seen
      BY <2>1 DEF IInv, Handling, Contexts
    <2>3. Handling(c)
      BY <2>1, <2>2, HandlingKept
    <2>4. QED
      BY <1>3, <2>1, <2>2, <2>3, Moves DEF Fetch
  <1>4. ASSUME Apply(w) PROVE CtxInv'
    <2>1. Handling([ctx[w] EXCEPT !.got = NoFills]) /\ "dis" \in PlainSteps
      BY <1>4, StepNames, Working, HandlingKept DEF Apply, SeenSteps, IInv
    <2>2. QED
      BY <1>4, <2>1, Moves DEF Apply
  <1>5. ASSUME QueryDispatch(w) \/ RecoverDispatch(w) PROVE CtxInv'
    <2>1. Handling(ctx[w]) /\ "can" \in PlainSteps /\ "disrec" \in PlainSteps
      BY <1>5, StepNames, Working DEF QueryDispatch, RecoverDispatch
    <2>2. QED
      BY <1>5, <2>1, Moves DEF QueryDispatch, RecoverDispatch
  <1>6. ASSUME QueryCancel(w) \/ RecoverCancel(w) PROVE CtxInv'
    <2>1. Handling(ctx[w]) /\ "canrec" \in PlainSteps
      BY <1>6, StepNames, Working DEF QueryCancel, RecoverCancel
    <2>2. QED
      BY <1>6, <2>1, Moves DEF QueryCancel, RecoverCancel
  <1>7. HydrateStep(w) => CtxInv'
    BY Moves DEF HydrateStep
  <1>8. QED
    BY <1>1, <1>2, <1>3, <1>4, <1>5, <1>6, <1>7

\* The answer of a cancellation: observed first, or completed at once.
LEMMA CancelSendCtx ==
    ASSUME IInv, VenueStep, NEW w \in Workers, CSend(w)
    PROVE  CtxInv'
  <1> DEFINE o == ctx[w].o
             v == venue[ctx[w].o]
             ord == Snapshot(venue'[o])
  <1>1. /\ Handling(ctx[w]) /\ "camb" \in PlainSteps
        /\ "cobs" \in SeenSteps /\ "cdone" \in SeenSteps
    BY StepNames, Working DEF CSend, SeenSteps
  <1>2. CancelRaises(w) => CtxInv'
    BY <1>1, Moves DEF CancelRaises
  <1>3. CASE /\ Known(v) /\ venue' = [venue EXCEPT ![o] = CancelRequested(v)]
             /\ CancelAnswered(w, ord)
    <2>1. v \in VenueOrders /\ venue'[o] = CancelRequested(v)
      BY <1>1, <1>3 DEF Handling, IInv, VenueInv, VenueFine
    <2>2. ord \in Snapshots
      BY <1>3, <2>1 DEF CancelRequested, Event, VenueOrders, VenueStates, Known, Snapshot,
                        Snapshots, OrderStates, Open
    <2> DEFINE c == [ctx[w] EXCEPT !.seen = ord]
    <2>3. Handling(c) /\ c.seen \in Snapshots
      BY <1>1, <2>2, HandlingKept DEF IInv, Handling, Contexts
    <2>4. Goto(w, "cobs", c) \/ Goto(w, "cdone", c)
      BY <1>3 DEF CancelAnswered
    <2> HIDE DEF c
    <2>5. QED
      BY <1>1, <2>3, <2>4, Moves
  <1>4. QED
    BY <1>2, <1>3 DEF CSend

\* The other steps of a cancellation do.
LEMMA CancelCtx ==
    ASSUME IInv, VenueStep, NEW w \in Workers
    PROVE  CClaim(w) \/ CObs(w) \/ CDone(w) \/ CAmb(w) => CtxInv'
  <1>1. ASSUME CClaim(w) PROVE CtxInv'
    <2>1. Handling(ctx[w]) /\ "csend" \in PlainSteps
      BY <1>1, StepNames, Working DEF CClaim
    <2>2. QED
      BY <1>1, <2>1, Moves DEF CClaim
  <1>2. ASSUME CObs(w) PROVE CtxInv'
    <2>1. /\ Handling(ctx[w]) /\ ctx[w].seen \in Snapshots
          /\ "camb" \in PlainSteps /\ "cdone" \in SeenSteps
      BY <1>2, StepNames, Working DEF CObs, SeenSteps
    <2>2. QED
      BY <1>2, <2>1, Moves DEF CObs
  <1>3. ASSUME CDone(w) PROVE CtxInv'
    <2>1. Handling(ctx[w]) /\ "camb" \in PlainSteps
      BY <1>3, StepNames, Working DEF CDone, SeenSteps
    <2>2. ctx[w].job \in AllJobs \cup {"none"}
      BY <2>1 DEF Handling, Contexts
    <2>3. CancelRaises(w) => CtxInv'
      BY <2>1, Moves DEF CancelRaises
    <2>4. QED
      BY <1>3, <2>2, <2>3, Moves DEF CDone
  <1>4. CAmb(w) => CtxInv'
    BY Moves DEF CAmb
  <1>5. QED
    BY <1>1, <1>2, <1>3, <1>4

\* The steps of an expiry and of its recovery do.
LEMMA ExpiryCtx ==
    ASSUME IInv, VenueStep, NEW w \in Workers
    PROVE  /\ XClaim(w) \/ XSend(w) \/ XDone(w) \/ XAmb(w) => CtxInv'
           /\ XRec(w) \/ XQuery(w) \/ XFetch(w) \/ XApply(w) \/ XRecDone(w) => CtxInv'
  <1> DEFINE o == ctx[w].o
             v == venue[ctx[w].o]
  <1>0. /\ Handling(ctx[w]) /\ VenueInv => Handling([ctx[w] EXCEPT !.age = 0])
        /\ Handling(ctx[w]) /\ VenueInv => Handling([ctx[w] EXCEPT !.got = NoFills])
    BY HandlingKept
  <1>1. ASSUME XClaim(w) PROVE CtxInv'
    <2>1. /\ Handling(ctx[w]) /\ Handling([ctx[w] EXCEPT !.age = 0]) /\ "xsend" \in PlainSteps
      BY <1>0, <1>1, StepNames, Working DEF XClaim, IInv
    <2>2. QED
      BY <1>1, <2>1, Moves DEF XClaim
  <1>2. ASSUME XSend(w) PROVE CtxInv'
    <2>1. Handling(ctx[w]) /\ "xamb" \in PlainSteps /\ "xdone" \in SeenSteps
      BY <1>2, StepNames, Working DEF XSend, SeenSteps
    <2>2. ExpireRaises(w) => CtxInv'
      BY <2>1, Moves DEF ExpireRaises
    <2>3. CASE /\ venue' = [venue EXCEPT ![o] = Expired(v)]
               /\ Goto(w, "xdone", [ctx[w] EXCEPT !.seen = Snapshot(venue'[o])])
      <3> DEFINE ord == Snapshot(venue'[o])
                 c == [ctx[w] EXCEPT !.seen = ord]
      <3>1. v \in VenueOrders /\ venue'[o] = Expired(v)
        BY <2>1, <2>3 DEF Handling, IInv, VenueInv, VenueFine
      <3>2. ord \in Snapshots
        BY <3>1 DEF Expired, Event, VenueOrders, Known, Snapshot, Snapshots, OrderStates, Terminal
      <3>3. Handling(c) /\ c.seen \in Snapshots
        BY <2>1, <3>2, HandlingKept DEF IInv, Handling, Contexts
      <3>4. Goto(w, "xdone", c)
        BY <2>3
      <3> HIDE DEF c
      <3>5. QED
        BY <2>1, <3>3, <3>4, Moves
    <2>4. QED
      BY <1>2, <2>2, <2>3 DEF XSend
  <1>3. ASSUME XDone(w) PROVE CtxInv'
    <2>1. Handling(ctx[w]) /\ "xamb" \in PlainSteps
      BY <1>3, StepNames, Working DEF XDone, SeenSteps
    <2>2. ctx[w].job \in AllJobs \cup {"none"}
      BY <2>1 DEF Handling, Contexts
    <2>3. ExpireRaises(w) => CtxInv'
      BY <2>1, Moves DEF ExpireRaises
    <2>4. QED
      BY <1>3, <2>2, <2>3, Moves DEF XDone
  <1>4. XAmb(w) \/ XRecDone(w) => CtxInv'
    BY Moves DEF XAmb, XRecDone
  <1>5. ASSUME XRec(w) PROVE CtxInv'
    <2>1. Handling([ctx[w] EXCEPT !.age = 0]) /\ "xquery" \in PlainSteps
      BY <1>0, <1>5, StepNames, Working DEF XRec, IInv
    <2>2. QED
      BY <1>5, <2>1, Moves DEF XRec
  <1>6. ASSUME XQuery(w) PROVE CtxInv'
    <2>1. Handling(ctx[w]) /\ "xfetch" \in PlainSteps
      BY <1>6, StepNames, Working DEF XQuery
    <2>2. Snapshot(v) \in Snapshots \cup {NoSnapshot}
      BY <2>1 DEF Handling, IInv, VenueInv, VenueFine, VenueOrders, VenueStates, Known,
                  Snapshot, Snapshots
    <2>3. Handling([ctx[w] EXCEPT !.seen = Snapshot(v)])
      BY <2>1, <2>2, HandlingKept DEF IInv
    <2>4. QED
      BY <1>6, <2>1, <2>3, Moves DEF XQuery
  <1>7. ASSUME XFetch(w) PROVE CtxInv'
    <2> DEFINE c == [ctx[w] EXCEPT !.got = [NoFills EXCEPT ![o] = venue[o].shown]]
    <2>1. Handling(ctx[w]) /\ "xapply" \in PlainSteps
      BY <1>7, StepNames, Working DEF XFetch
    <2>2. o \in Orders /\ VenueInv
      BY <2>1 DEF IInv, Handling
    <2>3. Handling(c)
      BY <2>1, <2>2, HandlingKept
    <2>4. QED
      BY <1>7, <2>1, <2>3, Moves DEF XFetch
  <1>8. ASSUME XApply(w) PROVE CtxInv'
    <2>1. Handling([ctx[w] EXCEPT !.got = NoFills]) /\ "xrecdone" \in PlainSteps
      BY <1>0, <1>8, StepNames, Working DEF XApply, IInv
    <2>2. QED
      BY <1>8, <2>1, Moves DEF XApply
  <1>9. QED
    BY <1>1, <1>2, <1>3, <1>4, <1>5, <1>6, <1>7, <1>8

\* A call begins with a context that fits its first step.
LEMMA StartCtx ==
    ASSUME IInv, VenueStep, NEW w \in Workers
    PROVE  /\ StartSync(w) \/ SyncFetch(w) \/ SyncApply(w) \/ Crash(w) => CtxInv'
           /\ \A o \in Orders : \/ PrepareNew(w, o) \/ PrepareReplay(w, o) \/ StartQuery(w, o)
                                \/ StartCancel(w, o) \/ StartExpire(w, o) \/ StartRecover(w, o)
                                => CtxInv'
  <1>1. StartSync(w) \/ SyncApply(w) \/ Crash(w) => CtxInv'
    BY Moves DEF StartSync, SyncApply, Crash, AllJobs
  <1>2. ASSUME SyncFetch(w) PROVE CtxInv'
    <2> DEFINE got == [o \in Orders |-> venue[o].shown]
               c == [ctx[w] EXCEPT !.got = got]
    <2>1. ctx[w] \in Contexts
      BY DEF IInv, CtxInv, CtxFine
    <2>2. got \in [Orders -> Nat] /\ \A o \in Orders : got[o] <= Len(venue[o].fills)
      BY DEF IInv, VenueInv, VenueFine, VenueOrders
    <2>3. c \in Contexts /\ c.got = got
      BY <2>1, <2>2 DEF Contexts
    <2>4. CtxFine("syncapply", c, venue)
      BY <2>2, <2>3 DEF CtxFine, Steps, OrderSteps, SeenSteps
    <2>5. Goto(w, "syncapply", c)
      BY <1>2 DEF SyncFetch
    <2> HIDE DEF c
    <2>6. QED
      BY <2>4, <2>5, CtxMove
  <1>3. ASSUME NEW o \in Orders PROVE PrepareNew(w, o) \/ StartQuery(w, o) => CtxInv'
    <2>1. /\ \A job \in AllJobs : Handling([Rest EXCEPT !.o = o, !.job = job])
          /\ "claim" \in PlainSteps /\ "query" \in PlainSteps
          /\ "submit" \in AllJobs /\ "query" \in AllJobs
      BY RestFine, StepNames DEF AllJobs
    <2>2. StartQuery(w, o) => CtxInv'
      BY <2>1, Moves DEF StartQuery, Start
    <2>3. ASSUME PrepareNew(w, o) PROVE CtxInv'
      <3>1. UNCHANGED <<pc, ctx>> => CtxInv'
        BY CtxStays
      <3>2. Start(w, o, "submit", "claim") => CtxInv'
        BY <2>1, Moves DEF Start
      <3>3. QED
        BY <2>3, <3>1, <3>2 DEF PrepareNew
    <2>4. QED
      BY <2>2, <2>3
  <1>4. ASSUME NEW o \in Orders
        PROVE  PrepareReplay(w, o) \/ StartCancel(w, o) \/ StartExpire(w, o) => CtxInv'
    <2>1. /\ \A job \in AllJobs : Handling([Rest EXCEPT !.o = o, !.job = job])
          /\ "cclaim" \in PlainSteps /\ "xclaim" \in PlainSteps
          /\ "submit" \in AllJobs /\ "cancel" \in AllJobs /\ "expire" \in AllJobs
      BY RestFine, StepNames DEF AllJobs
    <2>2. ResumeStep(db[o]) # "idle" => ResumeStep(db[o]) \in PlainSteps
      BY StepNames DEF ResumeStep
    <2>3. StartCancel(w, o) \/ StartExpire(w, o) => CtxInv'
      BY <2>1, Moves DEF StartCancel, StartExpire, Start
    <2>4. PrepareReplay(w, o) => CtxInv'
      BY <2>1, <2>2, Moves DEF PrepareReplay, Start
    <2>5. QED
      BY <2>3, <2>4
  <1>5. ASSUME NEW o \in Orders, StartRecover(w, o) PROVE CtxInv'
    <2> DEFINE suspect == Incomplete(db[o]) \/ db[o].sub = "pending_recovery"
               c == [Rest EXCEPT !.o = o, !.job = "recover", !.suspect = suspect]
    <2>1. suspect \in BOOLEAN /\ "recover" \in AllJobs
      BY DEF AllJobs
    <2>2. Handling(c)
      BY <2>1, RestFine
    <2>3. RecoverStep(db[o]) # "idle" => RecoverStep(db[o]) \in PlainSteps
      BY StepNames DEF RecoverStep, ResumeStep
    <2>4. Goto(w, RecoverStep(db[o]), c) /\ RecoverStep(db[o]) # "idle"
      BY <1>5 DEF StartRecover
    <2> HIDE DEF c
    <2>5. QED
      BY <2>2, <2>3, <2>4, Moves
  <1>6. QED
    BY <1>1, <1>2, <1>3, <1>4, <1>5

\* Clock readings grow old only within their bound.
LEMMA TickCtx ==
    ASSUME IInv, Tick
    PROVE  CtxInv'
  <1>1. pc' = pc /\ venue' = venue
    BY DEF Tick, VenueQuiet
  <1>2. ASSUME NEW w \in Workers PROVE CtxFine(pc[w], ctx'[w], venue)
    <2>1. CtxFine(pc[w], ctx[w], venue) /\ ctx[w] \in Contexts
      BY DEF IInv, CtxInv, CtxFine
    <2>2. CASE ~IsDated(w)
      BY <2>1, <2>2 DEF Tick
    <2>3. CASE IsDated(w)
      <3>1. ctx[w].age + 1 \in 0 .. MaxAge
        BY <2>1, <2>3, LeaseAssumption DEF Tick, Contexts
      <3>2. ctx'[w] = [ctx[w] EXCEPT !.age = ctx[w].age + 1]
        BY <2>3 DEF Tick
      <3>3. ctx'[w] \in Contexts /\ ctx'[w].o = ctx[w].o /\ ctx'[w].seen = ctx[w].seen
            /\ ctx'[w].got = ctx[w].got
        BY <2>1, <3>1, <3>2 DEF Contexts
      <3>4. QED
        BY <2>1, <3>3 DEF CtxFine
    <2>4. QED
      BY <2>2, <2>3
  <1>3. ctx' = [w \in Workers |-> ctx'[w]]
    BY DEF Tick
  <1>4. QED
    BY <1>1, <1>2, <1>3 DEF CtxInv, IInv

\* Every step leaves every worker a context that fits its step.
LEMMA NextCtx ==
    ASSUME IInv, [Next]_vars
    PROVE  CtxInv'
  <1>0. VenueStep
    BY NextVenue
  <1>1. ASSUME NEW w \in Workers, WorkerCalls(w) PROVE CtxInv'
    BY <1>0, <1>1, SubmitCtx, QueryCtx, CancelSendCtx, CancelCtx, ExpiryCtx, StartCtx DEF WorkerCalls
  <1>2. ASSUME NEW w \in Workers, WorkerStarts(w) \/ Crash(w) PROVE CtxInv'
    BY <1>0, <1>2, StartCtx DEF WorkerStarts
  <1>3. ASSUME NEW o \in Orders, VenueActs(o) PROVE CtxInv'
    BY <1>0, <1>3, CtxStays DEF VenueActs, Arrive, VenueAcknowledge, VenueReject, VenueFill,
                                ShowFill, CompleteCancel, ExpireIoc, VenueMoves
  <1>4. CASE TriggerKill \/ UNCHANGED vars
    BY <1>0, <1>4, CtxStays DEF TriggerKill, vars
  <1>5. QED
    BY <1>1, <1>2, <1>3, <1>4, TickCtx DEF Next
-----------------------------------------------------------------------------
(* The other variables.                                                    *)

FreshFine == fresh \in [Workers -> [Orders -> BOOLEAN]]

\* What is known of the workers' memory stays a flag per order.
LEMMA NextFresh ==
    ASSUME FreshFine, [Next]_vars
    PROVE  FreshFine'
  <1>1. ASSUME NEW w, NEW o, NEW r, NEW own, Commit(w, o, r, own) PROVE FreshFine'
    <2>1. \A x \in Workers : [fresh[x] EXCEPT ![o] = @ /\ own /\ x = w] \in [Orders -> BOOLEAN]
      BY DEF FreshFine
    <2>2. QED
      BY <1>1, <2>1 DEF Commit, FreshFine
  <1>2. ASSUME NEW w, Hydrate(w) PROVE FreshFine'
    <2>1. [o \in Orders |-> TRUE] \in [Orders -> BOOLEAN]
      OBVIOUS
    <2>2. QED
      BY <1>2, <2>1 DEF Hydrate, FreshFine
  <1>3. ASSUME UNCHANGED fresh PROVE FreshFine'
    BY <1>3 DEF FreshFine
  <1>4. ASSUME NEW w \in Workers, WorkerCalls(w), ~SyncApply(w) PROVE FreshFine'
    <2>1. Claim(w) \/ Send(w) \/ Ack(w) \/ Note(w) \/ MarkUnknown(w) \/ MarkRejected(w) => FreshFine'
      BY <1>1, <1>3 DEF Claim, Send, Ack, Note, MarkUnknown, MarkRejected, NoCommit
    <2>2. Query(w) \/ QueryNone(w) \/ Fetch(w) \/ Apply(w) \/ HydrateStep(w) \/ SyncFetch(w) => FreshFine'
      BY <1>1, <1>2, <1>3 DEF Query, QueryNone, Fetch, Apply, HydrateStep, SyncFetch, NoCommit
    <2>3. QueryDispatch(w) \/ RecoverDispatch(w) \/ QueryCancel(w) \/ RecoverCancel(w) => FreshFine'
      BY <1>1, <1>3 DEF QueryDispatch, RecoverDispatch, QueryCancel, RecoverCancel, NoCommit
    <2>4. CClaim(w) \/ CSend(w) \/ CObs(w) \/ CDone(w) \/ CAmb(w) => FreshFine'
      BY <1>1, <1>3 DEF CClaim, CSend, CObs, CDone, CAmb, NoCommit
    <2>5. XClaim(w) \/ XSend(w) \/ XDone(w) \/ XAmb(w) => FreshFine'
      BY <1>1, <1>3 DEF XClaim, XSend, XDone, XAmb, NoCommit
    <2>6. XRec(w) \/ XQuery(w) \/ XFetch(w) \/ XApply(w) \/ XRecDone(w) => FreshFine'
      BY <1>1, <1>2, <1>3 DEF XRec, XQuery, XFetch, XApply, XRecDone, NoCommit
    <2>7. QED
      BY <1>4, <2>1, <2>2, <2>3, <2>4, <2>5, <2>6 DEF WorkerCalls
  <1>5. ASSUME NEW w \in Workers, SyncApply(w) PROVE FreshFine'
    <2> DEFINE got == ctx[w].got
               synced == [o \in Orders |-> Synced(o, got[o], Snapshot(venue[o]))]
    <2>1. CASE Hydrate(w)
      BY <1>2, <2>1
    <2>2. CASE fresh' = [x \in Workers |-> [o \in Orders |->
                            fresh[x][o] /\ (x = w \/ Memory(synced[o]) = Memory(db[o]))]]
      <3> HIDE DEF synced
      <3>1. QED
        BY <2>2 DEF FreshFine
    <2>3. QED
      BY <1>5, <2>1, <2>2 DEF SyncApply
  <1>6. ASSUME NEW w \in Workers, NEW o \in Orders, PrepareNew(w, o) PROVE FreshFine'
    <2>1. \A x \in Workers : (IF x = w THEN [p \in Orders |-> TRUE]
                              ELSE [fresh[x] EXCEPT ![o] = FALSE]) \in [Orders -> BOOLEAN]
      BY DEF FreshFine
    <2>2. CASE fresh' = [x \in Workers |-> IF x = w THEN [p \in Orders |-> TRUE]
                                           ELSE [fresh[x] EXCEPT ![o] = FALSE]]
      BY <2>1, <2>2 DEF FreshFine
    <2>3. QED
      BY <1>3, <1>6, <2>2 DEF PrepareNew
  <1>7. ASSUME NEW w \in Workers, WorkerStarts(w) \/ Crash(w),
               \A o \in Orders : ~PrepareNew(w, o)
        PROVE  FreshFine'
    BY <1>1, <1>2, <1>3, <1>7 DEF WorkerStarts, StartSync, PrepareReplay, StartQuery,
                                  StartCancel, StartExpire, StartRecover, Crash, NoCommit
  <1>8. ASSUME NEW o \in Orders, VenueActs(o) PROVE FreshFine'
    BY <1>3, <1>8 DEF VenueActs, Arrive, VenueAcknowledge, VenueReject, VenueFill, ShowFill,
                      CompleteCancel, ExpireIoc, VenueMoves, NoCommit
  <1>9. CASE Tick \/ TriggerKill \/ UNCHANGED vars
    BY <1>3, <1>9 DEF Tick, TriggerKill, NoCommit, vars
  <1>10. QED
    BY <1>4, <1>5, <1>6, <1>7, <1>8, <1>9 DEF Next

KillFine == kill \in {"armed", "triggered"}

\* The kill switch is armed or triggered.
LEMMA NextKill ==
    ASSUME KillFine, [Next]_vars
    PROVE  KillFine'
  <1>1. ASSUME NEW w \in Workers, WorkerCalls(w) PROVE KillFine'
    <2>1. (Raise(w) \/ CancelRaises(w) \/ ExpireRaises(w)) => KillFine'
      BY DEF KillFine, Raise, CancelRaises, ExpireRaises
    <2>2. Claim(w) \/ Send(w) \/ Ack(w) \/ Note(w) \/ MarkUnknown(w) \/ MarkRejected(w) => KillFine'
      BY <2>1 DEF KillFine, Claim, Send, Ack, Note, MarkUnknown, MarkRejected
    <2>3. Query(w) \/ QueryNone(w) \/ Fetch(w) \/ Apply(w) \/ HydrateStep(w) \/ SyncFetch(w) => KillFine'
      BY <2>1 DEF KillFine, Query, QueryNone, Fetch, Apply, HydrateStep, SyncFetch
    <2>4. QueryDispatch(w) \/ RecoverDispatch(w) \/ QueryCancel(w) \/ RecoverCancel(w) => KillFine'
      BY <2>1 DEF KillFine, QueryDispatch, RecoverDispatch, QueryCancel, RecoverCancel
    <2>5. CClaim(w) \/ CSend(w) \/ CObs(w) \/ CDone(w) \/ CAmb(w) \/ SyncApply(w) => KillFine'
      BY <2>1 DEF KillFine, CClaim, CSend, CObs, CDone, CAmb, SyncApply
    <2>6. XClaim(w) \/ XSend(w) \/ XDone(w) \/ XAmb(w) => KillFine'
      BY <2>1 DEF KillFine, XClaim, XSend, XDone, XAmb
    <2>7. XRec(w) \/ XQuery(w) \/ XFetch(w) \/ XApply(w) \/ XRecDone(w) => KillFine'
      BY <2>1 DEF KillFine, XRec, XQuery, XFetch, XApply, XRecDone
    <2>8. QED
      BY <1>1, <2>2, <2>3, <2>4, <2>5, <2>6, <2>7 DEF WorkerCalls
  <1>2. ASSUME NEW w \in Workers, WorkerStarts(w) \/ Crash(w) PROVE KillFine'
    BY <1>2 DEF KillFine, WorkerStarts, StartSync, PrepareNew, PrepareReplay, StartQuery, StartCancel,
                StartExpire, StartRecover, Crash
  <1>3. ASSUME NEW o \in Orders, VenueActs(o) PROVE KillFine'
    BY <1>3 DEF KillFine, VenueActs, Arrive, VenueAcknowledge, VenueReject, VenueFill, ShowFill,
                CompleteCancel, ExpireIoc, VenueMoves
  <1>4. CASE Tick \/ TriggerKill \/ UNCHANGED vars
    BY <1>4 DEF KillFine, Tick, TriggerKill, vars
  <1>5. QED
    BY <1>1, <1>2, <1>3, <1>4 DEF Next

\* What the venue is asked to do is counted per order; crashes are bounded.
LEMMA NextCalls ==
    ASSUME calls \in [Orders -> Calls], crashes \in 0 .. MaxCrashes, [Next]_vars
    PROVE  calls' \in [Orders -> Calls] /\ crashes' \in 0 .. MaxCrashes
  <1>1. ASSUME NEW w \in Workers, WorkerCalls(w)
        PROVE  crashes' = crashes /\ calls' \in [Orders -> Calls]
    <2>1. Send(w) \/ CSend(w) \/ XSend(w)
              => crashes' = crashes /\ calls' \in [Orders -> Calls]
      BY DEF Send, CSend, XSend, Calls
    <2>2. WorkerCalls(w) /\ ~(Send(w) \/ CSend(w) \/ XSend(w))
              => UNCHANGED <<calls, crashes>>
      BY DEF WorkerCalls, Claim, Ack, Note, MarkUnknown, MarkRejected, Query, QueryNone,
             Fetch, Apply, QueryDispatch, RecoverDispatch, QueryCancel, RecoverCancel,
             HydrateStep, SyncFetch, SyncApply, CClaim, CObs, CDone, CAmb, XClaim, XDone,
             XAmb, XRec, XQuery, XFetch, XApply, XRecDone, VenueQuiet
    <2>3. QED
      BY <1>1, <2>1, <2>2
  <1>2. ASSUME NEW w \in Workers, WorkerStarts(w) PROVE UNCHANGED <<calls, crashes>>
    BY <1>2 DEF WorkerStarts, StartSync, PrepareNew, PrepareReplay, StartQuery, StartCancel,
                StartExpire, StartRecover, VenueQuiet
  <1>3. ASSUME NEW w \in Workers, Crash(w) PROVE crashes' \in 0 .. MaxCrashes /\ calls' = calls
    BY <1>3 DEF Crash, VenueQuiet
  <1>4. ASSUME NEW o \in Orders, VenueActs(o) PROVE UNCHANGED <<calls, crashes>>
    BY <1>4 DEF VenueActs, Arrive, VenueAcknowledge, VenueReject, VenueFill, ShowFill,
                CompleteCancel, ExpireIoc, VenueMoves
  <1>5. CASE Tick \/ TriggerKill \/ UNCHANGED vars
    BY <1>5 DEF Tick, TriggerKill, VenueQuiet, vars
  <1>6. QED
    BY <1>1, <1>2, <1>3, <1>4, <1>5 DEF Next
-----------------------------------------------------------------------------
(* The inductive invariant and what follows from it.                       *)

\* The invariant holds at the start.
LEMMA InitIInv == Init => IInv
  <1> SUFFICES ASSUME Init PROVE IInv
    OBVIOUS
  <1>1. DbInv
    <2>1. \A o \in Orders : RowInv(db[o]) /\ ~db[o].counted
      BY NoRowInv DEF Init, NoRow
    <2>2. Counted = {}
      BY <2>1 DEF Counted
    <2>3. QED
      BY <2>1, <2>2, FS_EmptySet DEF DbInv, Init
  <1>2. VenueInv
    <2>1. NoVenueOrder \in VenueOrders /\ Len(NoVenueOrder.fills) = 0 /\ NoVenueOrder.shown = 0
      BY DEF NoVenueOrder, VenueOrders, VenueStates
    <2>2. VenueFine(NoVenueOrder)
      BY <2>1 DEF VenueFine
    <2>3. QED
      BY <2>2 DEF VenueInv, Init
  <1>3. CtxInv
    <2>1. Rest \in Contexts /\ Rest.got = NoFills
      BY LeaseAssumption DEF Rest, Contexts, NoFills
    <2>2. \A o \in Orders : NoFills[o] <= Len(venue[o].fills)
      BY <1>2 DEF NoFills, VenueInv, VenueFine, VenueOrders
    <2>3. CtxFine("idle", Rest, venue)
      BY <2>1, <2>2 DEF CtxFine, Steps, OrderSteps, SeenSteps
    <2>4. QED
      BY <2>3 DEF CtxInv, Init
  <1>4. RestInv
    BY DEF Init, RestInv, Calls
  <1>5. QED
    BY <1>1, <1>2, <1>3, <1>4 DEF IInv

\* Every step preserves the invariant.
LEMMA NextIInv == IInv /\ [Next]_vars => IInv'
  <1> SUFFICES ASSUME IInv, [Next]_vars PROVE IInv'
    OBVIOUS
  <1>1. DbInv' /\ VenueInv' /\ CtxInv'
    BY NextDb, NextVenue, NextCtx DEF DbStep, VenueStep
  <1>2. RestInv'
    BY NextFresh, NextKill, NextCalls DEF IInv, RestInv, FreshFine, KillFine
  <1>3. QED
    BY <1>1, <1>2 DEF IInv

\* The invariant always holds.
LEMMA SpecIInv == Spec => []IInv
  BY InitIInv, NextIInv, PTL DEF Spec

\* Every variable keeps its type: rows, outboxes, leases and projections, the
\* venue's records and the workers' contexts, whatever the workers, the venue,
\* crashes and time do.
THEOREM TypeCorrect == Spec => []TypeOK
  <1>1. IInv => TypeOK
    <2> SUFFICES ASSUME IInv PROVE TypeOK
      OBVIOUS
    <2>1. db \in [Orders -> Rows]
      BY DEF IInv, DbInv, RowInv
    <2>2. openCount \in Nat
      BY CountedFinite DEF IInv, DbInv
    <2>3. venue \in [Orders -> VenueOrders]
      BY DEF IInv, VenueInv, VenueFine
    <2>4. pc \in [Workers -> Steps] /\ ctx \in [Workers -> Contexts]
      BY DEF IInv, CtxInv, CtxFine
    <2>5. QED
      BY <2>1, <2>2, <2>3, <2>4 DEF TypeOK, IInv, RestInv
  <1>2. QED
    BY <1>1, SpecIInv, PTL

\* The open-order budget is exact: an order is counted exactly while its
\* reservation is open, and the run's counter is the number of such orders
\* (_reserve_and_enqueue, _release, _close_open_once).
THEOREM BudgetExact == Spec => []BudgetMatches
  <1>1. IInv => BudgetMatches
    BY DEF IInv, DbInv, RowInv, BudgetMatches
  <1>2. QED
    BY <1>1, SpecIInv, PTL

\* A submission in a terminal state has given its budget slot and its
\* reservation back.
THEOREM ClosedSettled == Spec => []ClosedMeansSettled
  <1>1. IInv => ClosedMeansSettled
    BY DEF IInv, DbInv, RowInv, ClosedMeansSettled
  <1>2. QED
    BY <1>1, SpecIInv, PTL

\* A slot or a reservation given back is never taken again, by no worker, no
\* recovery and no replay.
THEOREM NeverReopened == Spec => BudgetNeverReopens
  <1>1. IInv /\ [Next]_vars =>
            [\A o \in Orders : db[o].sub # "none" =>
                /\ db'[o].counted => db[o].counted
                /\ db'[o].res = "open" => db[o].res = "open"
                /\ db'[o].resQty <= db[o].resQty]_vars
    <2> SUFFICES ASSUME IInv, [Next]_vars, NEW o \in Orders, db[o].sub # "none"
                 PROVE  /\ db'[o].counted => db[o].counted
                        /\ db'[o].res = "open" => db[o].res = "open"
                        /\ db'[o].resQty <= db[o].resQty
      OBVIOUS
    <2>1. Kept(db[o], db'[o])
      BY NextDb DEF DbStep, Moved
    <2>2. QED
      BY <2>1 DEF Kept
  <1>2. QED
    BY <1>1, SpecIInv, PTL DEF Spec, BudgetNeverReopens

\* The venue's answers, applied late, twice or out of order, never take an
\* order's projected disposition, sequence or quantity back.
THEOREM ProjectionForward == Spec => ProjectionMonotone
  <1>1. IInv /\ [Next]_vars =>
            [\A o \in Orders : LET p == db[o].proj  q == db'[o].proj IN
                /\ p.disp # "active" => q.disp = p.disp
                /\ p.seq <= q.seq /\ p.cum <= q.cum]_vars
    <2> SUFFICES ASSUME IInv, [Next]_vars, NEW o \in Orders
                 PROVE  LET p == db[o].proj  q == db'[o].proj IN
                            /\ p.disp # "active" => q.disp = p.disp
                            /\ p.seq <= q.seq /\ p.cum <= q.cum
      OBVIOUS
    <2>1. Moved(db[o], db'[o])
      BY NextDb DEF DbStep
    <2>2. db[o].proj.seq \in Nat /\ db[o].proj.cum \in Nat
      BY DEF IInv, DbInv, RowInv, Rows, Projections
    <2>3. QED
      BY <2>1, <2>2 DEF Moved, Kept
  <1>2. QED
    BY <1>1, SpecIInv, PTL DEF Spec, ProjectionMonotone
=============================================================================
