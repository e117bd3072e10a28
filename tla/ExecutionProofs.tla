--------------------------- MODULE ExecutionProofs ---------------------------
(***************************************************************************)
(* What the hooks of the web application keep, for any number of views,    *)
(* accounts and transactions, in each of the eight flows.                  *)
(*                                                                         *)
(* A step changes one view and, at most, the fate of transactions          *)
(* (tx[h].kept).  RecordOK says what one view knows of its hashes at each  *)
(* await; a step that moves some transactions forward leaves it true of    *)
(* all other views (LEMMA OtherViews).                                     *)
(***************************************************************************)
EXTENDS Execution, FiniteSetTheorems, SequenceTheorems, TLAPS

-----------------------------------------------------------------------------
(* The inductive invariant.                                                *)

Kinds == {"approval", "reset", "swap", "payment", "create", "cancel",
          "ship", "activate", "retire", "dock", "faucet"}

LiveFacts == [allowance : {"none", "some", "enough"}, stage : {"open", "halfway", "closed"}, nonce : Nat]

Fates == {"sent", "stored", "failed", "lost", "cleared"}

Tx == [account : Accounts, kind : Kinds, nonce : Nat,
       status : {"pool", "success", "silent", "reverted"}, kept : Fates]

Reviews == [account : Accounts, kind : Kinds, nonce : Nat]

\* From the submission to the wallet's answer.
Signing == {"submitted", "checked", "handed", "prompted"}

Ops == {"idle", "preparing", "sent", "waiting"} \cup Signing

View == [mount : {"none", "never", "mounted", "detached"}, ctx : Accounts \cup {None},
         pending : Nat, review : Reviews \cup {None}, plan : Reviews \cup {None},
         op : Ops, hash : Nat, current : BOOLEAN, blocked : BOOLEAN]

TypeOK ==
    /\ flow \in Flows
    /\ wallet \in Accounts
    /\ live \in [Accounts -> LiveFacts]
    /\ disturbed \in Nat
    /\ tx \in Seq(Tx)
    /\ store \subseteq Hash
    /\ garbled \subseteq Accounts
    /\ view \in [Views -> View]

(* What a view r knows when the transactions are t.                        *)
RecordOK(r, t) ==
    /\ r.mount \in {"none", "never"} => r.op = "idle" /\ r.pending = NoHash /\ r.review = None
    /\ r.mount = "detached" => r.op # "idle" /\ r.pending = NoHash /\ r.review = None
    /\ r.current => r.mount = "mounted"
    /\ r.op \in Signing <=> r.plan # None
    /\ r.review # None => r.review.account = r.ctx /\ r.plan \in {None, r.review}
    /\ r.pending # NoHash => r.pending \in DOMAIN t /\ t[r.pending].kept # "sent"
    /\ r.pending # NoHash /\ r.op \in {"preparing", "sent"} \cup Signing =>
         t[r.pending].kept \in {"stored", "cleared"}
    /\ r.op = "sent" => r.hash \in DOMAIN t /\ t[r.hash].kept = "sent"
    /\ r.op = "waiting" =>
         /\ r.hash \in DOMAIN t /\ t[r.hash].kept # "sent"
         /\ r.mount = "mounted" /\ flow # "funding" => r.pending = r.hash
    /\ r.op \notin {"sent", "waiting"} => r.hash = NoHash

Records == \A v \in Views : RecordOK(view[v], tx)

(* A hash that has just been handed over is in one view.                   *)
OneHolder ==
    \A v, w \in Views :
        view[v].op = "sent" /\ view[w].op = "sent" /\ view[v].hash = view[w].hash => v = w

StoreInv ==
    /\ \A h \in store : tx[h].kept = "stored"
    /\ HashKeyedRecordSurvives

HooksInv == TypeOK /\ Records /\ OneHolder /\ StoreInv /\ UnstoredHashIsShown

-----------------------------------------------------------------------------
(* Records of views.                                                       *)

LEMMA AbsentView == Absent \in View /\ Never \in View /\ Never.mount = "never"
  BY DEF Absent, Never, View, Ops, NoHash

LEMMA EndedView ==
  ASSUME NEW r \in View
  PROVE  /\ Ended(r) \in View
         /\ r.mount = "detached" => Ended(r) = Absent
         /\ r.mount # "detached" =>
              /\ Ended(r).op = "idle" /\ Ended(r).hash = NoHash /\ ~Ended(r).current
              /\ Ended(r).mount = r.mount /\ Ended(r).ctx = r.ctx /\ Ended(r).pending = r.pending
              /\ Ended(r).review = r.review /\ Ended(r).plan = None
  <1>1. CASE r.mount = "detached"
    BY <1>1, AbsentView DEF Ended
  <1>2. CASE r.mount # "detached"
    BY <1>2 DEF Ended, View, Ops, NoHash
  <1> QED BY <1>1, <1>2

LEMMA DroppedView ==
  ASSUME NEW r \in View
  PROVE  /\ Dropped(r) \in View
         /\ Dropped(r).review = None /\ ~Dropped(r).current
         /\ Dropped(r).mount = r.mount /\ Dropped(r).ctx = r.ctx /\ Dropped(r).pending = r.pending
         /\ Dropped(r).op = r.op /\ Dropped(r).hash = r.hash /\ Dropped(r).plan = r.plan
  BY DEF Dropped, View, Ops

LEMMA ReadStored ==
  ASSUME TypeOK, NEW a
  PROVE  ReadPending(a) \subseteq store
  BY ExecutionAssumption DEF TypeOK, FlowNames, InvoiceFlows, StrategyFlows, ReadPending, ReadPendingSwaps,
       ReadPendingPayment, ReadPendingInvoices, ReadPendingStrategies, ReadFunding, Saved

\* Restoring keeps what is pending, or shows a saved record.
LEMMA RestoredView ==
  ASSUME TypeOK, NEW r \in View, NEW a, NEW n \in Restored(r, a)
  PROVE  /\ n \in View
         /\ n.mount = r.mount /\ n.ctx = r.ctx /\ n.review = r.review /\ n.op = r.op
         /\ n.hash = r.hash /\ n.current = r.current /\ n.plan = r.plan
         /\ r.pending # NoHash /\ flow # "funding" => n.pending = r.pending
         /\ n.pending \in {NoHash, r.pending} \cup store
  <1>1. PICK p : /\ p \in (IF r.pending # NoHash /\ flow # "funding" THEN {r.pending} ELSE Pick(ReadPending(a)))
                 /\ n = [r EXCEPT !.pending = p, !.blocked = Unreadable(a)]
    BY DEF Restored
  <1>2. Unreadable(a) \in BOOLEAN
    BY DEF Unreadable
  <1>3. /\ p \in {NoHash, r.pending} \cup store
        /\ r.pending # NoHash /\ flow # "funding" => p = r.pending
    BY <1>1, ReadStored DEF Pick
  <1>4. p \in Nat
    BY <1>3 DEF TypeOK, Hash, View, NoHash
  <1> QED BY <1>1, <1>2, <1>3, <1>4 DEF View

\* What becomes of the record o of a view when it turns into n and no
\* transaction changes.
Quiet(o, n) ==
    /\ n.mount = "never" <=> o.mount = "never"
    /\ n.op = "sent" => o.op = "sent" /\ n.hash = o.hash
    /\ o.mount = "mounted" /\ o.pending # NoHash /\ tx[o.pending].kept = "failed" /\ flow # "funding" =>
         n.mount = "mounted" /\ n.pending = o.pending

\* It begins no signature.
Unsigned(o, n) == n.plan # None => o.plan = n.plan

Calm(v, n) == n \in View /\ RecordOK(n, tx) /\ Quiet(view[v], n)

\* A step of v that changes nothing but its record.
CalmStep(v) ==
    /\ \E n : view' = [view EXCEPT ![v] = n] /\ Calm(v, n) /\ Unsigned(view[v], n)
    /\ UNCHANGED <<flow, wallet, live, disturbed, tx, store, garbled>>

LEMMA ShowCalm ==
  ASSUME NEW v, NEW recs, Show(v, recs), \A n \in recs : Calm(v, n) /\ Unsigned(view[v], n)
  PROVE  CalmStep(v)
  BY DEF Show, CalmStep

\* The records a view may show: those that are stored.
LEMMA StoredRecord ==
  ASSUME HooksInv, NEW h \in store
  PROVE  h \in DOMAIN tx /\ h # NoHash /\ tx[h].kept = "stored" /\ h \in Nat
  BY DEF HooksInv, StoreInv, TypeOK, Hash, NoHash

LEMMA ViewTyped ==
  ASSUME HooksInv, NEW v \in Views
  PROVE  view[v] \in View /\ RecordOK(view[v], tx)
  BY DEF HooksInv, TypeOK, Records

\* Restoring is calm, from any record that is right but for its pending hash.
LEMMA RestoredCalm ==
  ASSUME HooksInv, NEW v \in Views, NEW r \in View, RecordOK(r, tx), Quiet(view[v], r), Unsigned(view[v], r),
         r.mount = "mounted",
         flow = "swap" \/ ~r.current,
         NEW a, NEW n \in Restored(r, a)
  PROVE  Calm(v, n) /\ Unsigned(view[v], n)
  <1>1. /\ n \in View
        /\ n.mount = r.mount /\ n.ctx = r.ctx /\ n.review = r.review /\ n.op = r.op
        /\ n.hash = r.hash /\ n.current = r.current /\ n.plan = r.plan
        /\ r.pending # NoHash /\ flow # "funding" => n.pending = r.pending
        /\ n.pending \in {NoHash, r.pending} \cup store
    BY RestoredView DEF HooksInv
  <1>2. Quiet(view[v], n) /\ Unsigned(view[v], n)
    BY <1>1 DEF Quiet, Unsigned
  <1>3. n.pending # NoHash => n.pending = r.pending \/ (n.pending \in DOMAIN tx /\ tx[n.pending].kept = "stored")
    BY <1>1, StoredRecord
  <1>4. r.op = "waiting" /\ flow # "funding" => n.pending = r.pending
    BY <1>1, <1>3, StoredRecord, ViewTyped DEF RecordOK, View, TypeOK, HooksInv, Hash, NoHash
  <1>5. RecordOK(n, tx)
    BY <1>1, <1>3, <1>4 DEF RecordOK
  <1> QED BY <1>1, <1>2, <1>5 DEF Calm

-----------------------------------------------------------------------------
(* The steps that change a view only.                                      *)

LEMMA MountCalm ==
  ASSUME HooksInv, NEW v \in Views, Mount(v)
  PROVE  CalmStep(v)
  <1> DEFINE r == [Absent EXCEPT !.mount = "mounted", !.ctx = wallet]
  <1>1. /\ r \in View /\ r.mount = "mounted" /\ r.pending = NoHash /\ r.review = None
        /\ r.op = "idle" /\ r.hash = NoHash /\ ~r.current /\ r.plan = None
    BY DEF HooksInv, TypeOK, Absent, View, Ops, NoHash
  <1>2. Show(v, Restored(r, wallet)) /\ view[v].mount = "none"
    BY DEF Mount
  <1> HIDE DEF r
  <1>3. RecordOK(r, tx) /\ Quiet(view[v], r) /\ Unsigned(view[v], r)
    BY <1>1, <1>2 DEF RecordOK, Quiet, Unsigned, Signing
  <1> QED BY <1>1, <1>2, <1>3, RestoredCalm, ShowCalm

\* A view whose review was dropped is right, in any context.
LEMMA DroppedCalm ==
  ASSUME HooksInv, NEW v \in Views, Mounted(v), NEW a \in Accounts \cup {None}
  PROVE  LET r == [Dropped(view[v]) EXCEPT !.ctx = a]
         IN /\ r \in View /\ r.mount = "mounted" /\ ~r.current
            /\ RecordOK(r, tx) /\ Quiet(view[v], r) /\ Unsigned(view[v], r)
  <1> DEFINE d == Dropped(view[v])
             r == [d EXCEPT !.ctx = a]
  <1>1. /\ d \in View /\ d.review = None /\ ~d.current
        /\ d.mount = view[v].mount /\ d.pending = view[v].pending
        /\ d.op = view[v].op /\ d.hash = view[v].hash /\ d.plan = view[v].plan
    BY DroppedView, ViewTyped
  <1>2. RecordOK(view[v], tx) /\ view[v].mount = "mounted"
    BY ViewTyped DEF Mounted
  <1> HIDE DEF d
  <1>3. /\ r \in View /\ r.review = None /\ ~r.current
        /\ r.mount = view[v].mount /\ r.pending = view[v].pending
        /\ r.op = view[v].op /\ r.hash = view[v].hash /\ r.plan = view[v].plan
    BY <1>1 DEF View
  <1> HIDE DEF r
  <1>4. RecordOK(r, tx) /\ Quiet(view[v], r) /\ Unsigned(view[v], r)
    BY <1>2, <1>3 DEF RecordOK, Quiet, Unsigned
  <1> QED BY <1>2, <1>3, <1>4 DEF d, r

LEMMA RerenderCalm ==
  ASSUME HooksInv, NEW v \in Views, Rerender(v)
  PROVE  CalmStep(v)
  <1> DEFINE r == [Dropped(view[v]) EXCEPT !.ctx = wallet]
  <1>1. Mounted(v) /\ Show(v, Restored(r, wallet)) /\ wallet \in Accounts
    BY DEF Rerender, HooksInv, TypeOK
  <1>2. /\ r \in View /\ r.mount = "mounted" /\ ~r.current
        /\ RecordOK(r, tx) /\ Quiet(view[v], r) /\ Unsigned(view[v], r)
    BY <1>1, DroppedCalm
  <1> HIDE DEF r
  <1> QED BY <1>1, <1>2, RestoredCalm, ShowCalm

LEMMA EditCalm ==
  ASSUME HooksInv, NEW v \in Views, EditSwap(v) \/ EditPayment(v) \/ EditInvoice(v) \/ EditStrategy(v)
  PROVE  CalmStep(v)
  <1> DEFINE r == Dropped(view[v])
  <1>1. Mounted(v) /\ (Show(v, {r}) \/ Show(v, Restored(r, view[v].ctx)))
    BY DEF EditSwap, EditPayment, EditInvoice, EditStrategy, Edited
  <1>2. /\ r \in View /\ r.review = None /\ ~r.current
        /\ r.mount = view[v].mount /\ r.pending = view[v].pending
        /\ r.op = view[v].op /\ r.hash = view[v].hash /\ r.plan = view[v].plan
    BY DroppedView, ViewTyped
  <1>3. RecordOK(view[v], tx) /\ view[v].mount = "mounted"
    BY <1>1, ViewTyped DEF Mounted
  <1> HIDE DEF r
  <1>4. RecordOK(r, tx) /\ Quiet(view[v], r) /\ Unsigned(view[v], r)
    BY <1>2, <1>3 DEF RecordOK, Quiet, Unsigned
  <1>5. CASE Show(v, {r})
    BY <1>2, <1>4, <1>5, ShowCalm DEF Calm
  <1>6. CASE Show(v, Restored(r, view[v].ctx))
    BY <1>2, <1>3, <1>4, <1>6, RestoredCalm, ShowCalm
  <1> QED BY <1>1, <1>5, <1>6

LEMMA StorageEventCalm ==
  ASSUME HooksInv, NEW v \in Views, StorageEvent(v)
  PROVE  CalmStep(v)
  <1>1. flow = "swap" /\ view[v].mount = "mounted" /\ Show(v, Restored(view[v], view[v].ctx))
    BY DEF StorageEvent, Mounted
  <1>2. Quiet(view[v], view[v]) /\ Unsigned(view[v], view[v])
    BY DEF Quiet, Unsigned
  <1> QED BY <1>1, <1>2, ViewTyped, RestoredCalm, ShowCalm

\* What the remaining calm steps turn the record of v into.
LEMMA TurnCalm ==
  ASSUME NEW v, NEW n, view' = [view EXCEPT ![v] = n],
         n \in View, RecordOK(n, tx), Quiet(view[v], n), Unsigned(view[v], n),
         UNCHANGED <<flow, wallet, live, disturbed, tx, store, garbled>>
  PROVE  CalmStep(v)
  BY DEF CalmStep, Calm

LEMMA LapseCalm ==
  ASSUME HooksInv, NEW v \in Views, Lapse(v)
  PROVE  CalmStep(v)
  <1> DEFINE o == view[v]
             n == [o EXCEPT !.review = None]
  <1>1. /\ view' = [view EXCEPT ![v] = n]
        /\ UNCHANGED <<flow, wallet, live, disturbed, tx, store, garbled>>
        /\ o \in View /\ RecordOK(o, tx) /\ o.op = "idle" /\ o.mount = "mounted"
    BY ViewTyped DEF Lapse, Idle, Mounted
  <1> HIDE DEF o
  <1>2. /\ n \in View /\ n.review = None
        /\ n.mount = o.mount /\ n.pending = o.pending /\ n.op = o.op /\ n.hash = o.hash
        /\ n.current = o.current /\ n.plan = o.plan
    BY <1>1 DEF View
  <1> HIDE DEF n
  <1>3. RecordOK(n, tx) /\ Quiet(o, n) /\ Unsigned(o, n)
    BY <1>1, <1>2 DEF RecordOK, Quiet, Unsigned
  <1> QED BY <1>1, <1>2, <1>3, TurnCalm DEF o

\* An operation that ends lets go of its ticket; of its review and the hash on
\* display only if it failed before the broadcast.
LEMMA EndedCalm ==
  ASSUME HooksInv, NEW v \in Views, view[v].op \notin {"idle", "sent"},
         NEW review \in {view[v].review, None}, NEW pending \in {view[v].pending, NoHash},
         pending = view[v].pending \/ view[v].op # "waiting"
  PROVE  LET n == Ended([view[v] EXCEPT !.review = review, !.pending = pending])
         IN /\ n \in View /\ RecordOK(n, tx) /\ Quiet(view[v], n) /\ Unsigned(view[v], n)
            /\ n.op = "idle" /\ n.plan = None
            /\ view[v].current => n.mount = "mounted" /\ n.pending = pending
                                  /\ n.ctx = view[v].ctx /\ ~n.current /\ n.hash = NoHash
  <1> DEFINE o == view[v]
             x == [o EXCEPT !.review = review, !.pending = pending]
             n == Ended(x)
  <1>1. /\ o \in View /\ RecordOK(o, tx) /\ o.op \notin {"idle", "sent"} /\ review \in {o.review, None}
        /\ pending \in {o.pending, NoHash} /\ (pending = o.pending \/ o.op # "waiting")
    BY ViewTyped
  <1> HIDE DEF o
  <1>2. /\ x \in View /\ x.review = review
        /\ x.mount = o.mount /\ x.pending = pending /\ x.op = o.op /\ x.ctx = o.ctx
    <2>1. pending \in Nat /\ review \in Reviews \cup {None}
      BY <1>1 DEF View, NoHash
    <2> QED BY <1>1, <2>1 DEF View
  <1>3. o.pending # NoHash /\ pending = NoHash => tx[o.pending].kept # "failed"
    BY <1>1 DEF RecordOK, View, Ops
  <1> HIDE DEF x
  <1>4. CASE o.mount = "detached"
    <2>1. n = Absent
      BY <1>2, <1>4, EndedView
    <2> QED BY <1>1, <1>4, <2>1, AbsentView DEF Absent, RecordOK, Quiet, Unsigned, Signing, NoHash, o, x
  <1>5. CASE o.mount # "detached"
    <2>1. /\ n \in View /\ n.op = "idle" /\ n.hash = NoHash /\ ~n.current /\ n.plan = None
          /\ n.mount = o.mount /\ n.ctx = o.ctx /\ n.pending = pending /\ n.review = review
      BY <1>2, <1>5, EndedView
    <2> HIDE DEF n
    <2>2. RecordOK(n, tx) /\ Quiet(o, n) /\ Unsigned(o, n)
      BY <1>1, <1>3, <1>5, <2>1 DEF RecordOK, Quiet, Unsigned, Signing, NoHash
    <2>3. o.current => o.mount = "mounted"
      BY <1>1 DEF RecordOK
    <2> QED BY <2>1, <2>2, <2>3 DEF o, n, x
  <1> QED BY <1>4, <1>5

LEMMA FailedCalm ==
  ASSUME HooksInv, NEW v \in Views, view[v].op \in {"preparing"} \cup Signing
  PROVE  LET n == Failed(view[v])
         IN /\ n \in View /\ RecordOK(n, tx) /\ Quiet(view[v], n) /\ Unsigned(view[v], n)
            /\ n.op = "idle" /\ n.plan = None
  <1> DEFINE pending == IF view[v].current THEN NoHash ELSE view[v].pending
  <1>1. Failed(view[v]) = Ended([view[v] EXCEPT !.review = None, !.pending = pending])
    BY DEF Failed
  <1>2. pending \in {view[v].pending, NoHash} /\ view[v].op \notin {"idle", "sent", "waiting"}
    BY DEF Signing
  <1> DEFINE n == Ended([view[v] EXCEPT !.review = None, !.pending = pending])
  <1> HIDE DEF pending
  <1>3. /\ n \in View /\ RecordOK(n, tx) /\ Quiet(view[v], n) /\ Unsigned(view[v], n)
        /\ n.op = "idle" /\ n.plan = None
    BY <1>2, EndedCalm
  <1> HIDE DEF n
  <1>4. Failed(view[v]) = n
    BY <1>1 DEF n
  <1> QED BY <1>3, <1>4

LEMMA FailCalm ==
  ASSUME HooksInv, NEW v \in Views, Fail(v)
  PROVE  CalmStep(v)
  <1>1. view[v].op \in {"preparing"} \cup Signing
    BY DEF Fail, Signing
  <1> QED BY <1>1, FailedCalm, TurnCalm DEF Fail

LEMMA ReceiptFailsCalm ==
  ASSUME HooksInv, NEW v \in Views, ReceiptFails(v)
  PROVE  CalmStep(v)
  <1>1. /\ view[v].op = "waiting"
        /\ [view[v] EXCEPT !.review = view[v].review, !.pending = view[v].pending] = view[v]
    BY ViewTyped DEF ReceiptFails, View
  <1>2. LET n == Ended(view[v])
        IN n \in View /\ RecordOK(n, tx) /\ Quiet(view[v], n) /\ Unsigned(view[v], n)
    BY <1>1, EndedCalm
  <1> QED BY <1>2, TurnCalm DEF ReceiptFails

LEMMA TrackCalm ==
  ASSUME HooksInv, NEW v \in Views, Resume(v)
  PROVE  CalmStep(v)
  <1> DEFINE o == view[v]
             n == [o EXCEPT !.op = "waiting", !.hash = o.pending]
  <1>1. Track(v)
    BY DEF Resume, ResumeSwap, ResumePayment, ResumeInvoice, ResumeStrategy, ResumeFunding
  <1>2. /\ Show(v, {n})
        /\ o \in View /\ RecordOK(o, tx) /\ o.op = "idle" /\ o.mount = "mounted" /\ o.pending # NoHash
    BY <1>1, ViewTyped DEF Track, Idle, Mounted
  <1> HIDE DEF o
  <1>3. /\ n \in View /\ n.review = o.review /\ n.ctx = o.ctx
        /\ n.mount = o.mount /\ n.pending = o.pending /\ n.op = "waiting" /\ n.hash = o.pending
        /\ n.current = o.current /\ n.plan = o.plan
    BY <1>2 DEF View, Ops
  <1> HIDE DEF n
  <1>4. RecordOK(n, tx) /\ Quiet(o, n) /\ Unsigned(o, n)
    BY <1>2, <1>3 DEF RecordOK, Quiet, Unsigned, Signing
  <1> QED BY <1>2, <1>3, <1>4, ShowCalm DEF o, Calm

\* What a review asks to sign is one of the plans, for the account it is for.
LEMMA PlanKinds ==
  ASSUME TypeOK, NEW l, l.stage \in {"open", "halfway", "closed"}
  PROVE  PlanOf(l) \in Kinds \cup {None}
  <1>1. flow \in FlowNames
    BY ExecutionAssumption DEF TypeOK
  <1>2. SwapPlan(l) \in Kinds \cup {None}
    BY DEF SwapPlan, SwapTx, SwapApprovalTx, Kinds
  <1>3. PaymentPlan(l) \in Kinds \cup {None}
    BY DEF PaymentPlan, PaymentTx, PaymentApprovalTx, Kinds
  <1>4. InvoicePlan(l) \in Kinds \cup {None}
    BY DEF InvoicePlan, InvoiceTx, CancelInvoiceTx, Kinds
  <1>5. MakerApprovalTx(l) \in Kinds
    BY DEF MakerApprovalTx, Kinds
  <1>6. PublishPlan(l) \in Kinds \cup {None}
    BY <1>5 DEF PublishPlan, ShipTx, ActivateTx, Kinds
  <1>7. ApprovePlan(l) \in Kinds \cup {None}
    BY <1>5 DEF ApprovePlan
  <1>8. DeactivatePlan(l) \in Kinds \cup {None} /\ FundingPlan(l) \in Kinds \cup {None}
    BY DEF DeactivatePlan, RetireTx, DockTx, FundingPlan, FaucetTx, Kinds
  <1> QED BY <1>1, <1>2, <1>3, <1>4, <1>6, <1>7, <1>8 DEF PlanOf, FlowNames, InvoiceFlows, StrategyFlows

LEMMA ReviewTyped ==
  ASSUME TypeOK, NEW a \in Accounts, ReviewOf(a).kind # None
  PROVE  ReviewOf(a) \in Reviews /\ ReviewOf(a).account = a
  <1>1. flow \in FlowNames
    BY ExecutionAssumption DEF TypeOK
  <1>2. live[a] \in LiveFacts
    BY DEF TypeOK
  <1>3. /\ SwapFacts(a).stage = live[a].stage /\ PaymentFacts(a).stage = live[a].stage
        /\ StrategyFacts(a).stage = live[a].stage
    BY DEF SwapFacts, PaymentFacts, StrategyFacts, Facts
  <1>4. live[a].stage \in {"open", "halfway", "closed"}
    BY <1>2 DEF LiveFacts
  <1>5. CASE flow = "swap"
    <2>1. PlanOf(SwapFacts(a)) = SwapPlan(SwapFacts(a))
      BY <1>5 DEF PlanOf, InvoiceFlows, StrategyFlows
    <2>2. SwapPlan(SwapFacts(a)) \in Kinds \cup {None}
      BY <1>3, <1>4, <2>1, PlanKinds
    <2>3. ReviewOf(a) = Asks(a, SwapPlan(SwapFacts(a)))
      BY <1>5 DEF ReviewOf, SwapReview, InvoiceFlows, StrategyFlows
    <2> HIDE DEF Reviews
    <2> QED BY <2>2, <2>3 DEF Asks, Reviews
  <1>6. CASE flow = "payment"
    <2>1. PlanOf(PaymentFacts(a)) = PaymentPlan(PaymentFacts(a))
      BY <1>6 DEF PlanOf, InvoiceFlows, StrategyFlows
    <2>2. PaymentPlan(PaymentFacts(a)) \in Kinds \cup {None}
      BY <1>3, <1>4, <2>1, PlanKinds
    <2>3. ReviewOf(a) = Asks(a, PaymentPlan(PaymentFacts(a)))
      BY <1>6 DEF ReviewOf, PaymentReview, InvoiceFlows, StrategyFlows
    <2> QED BY <2>2, <2>3 DEF Asks, Reviews
  <1>7. CASE flow \in InvoiceFlows
    <2> DEFINE p == InvoicePlan(InvoiceFacts(a))
               n == IF flow = "create" THEN InvoiceFacts(a).nonce ELSE 0
    <2>1. p \in Kinds \cup {None}
      BY DEF InvoicePlan, InvoiceTx, CancelInvoiceTx, Kinds
    <2>2. n \in Nat
      <3>1. flow = "create" => InvoiceFacts(a).nonce = live[a].nonce
        BY DEF InvoiceFacts, Facts
      <3> QED BY <1>2, <3>1 DEF LiveFacts
    <2>3. ReviewOf(a) = [Asks(a, p) EXCEPT !.nonce = n]
      BY <1>7 DEF ReviewOf, InvoiceReview, InvoiceFlows, StrategyFlows
    <2> HIDE DEF p, n
    <2> QED BY <2>1, <2>2, <2>3 DEF Asks, Reviews
  <1>8. CASE flow \in StrategyFlows
    <2>1. PlanOf(StrategyFacts(a)) \in Kinds \cup {None}
      BY <1>3, <1>4, PlanKinds
    <2>2. ReviewOf(a) = Asks(a, PlanOf(StrategyFacts(a)))
      BY <1>8 DEF ReviewOf, StrategyReview, StrategyFlows, InvoiceFlows
    <2> QED BY <2>1, <2>2 DEF Asks, Reviews
  <1>9. CASE flow = "funding"
    <2>1. FundingPlan(live[a]) \in Kinds \cup {None}
      BY DEF FundingPlan, FaucetTx, Kinds
    <2>2. ReviewOf(a) = Asks(a, FundingPlan(live[a]))
      BY <1>9 DEF ReviewOf, FundingReview, StrategyFlows, InvoiceFlows
    <2> QED BY <2>1, <2>2 DEF Asks, Reviews
  <1> QED BY <1>1, <1>5, <1>6, <1>7, <1>8, <1>9 DEF FlowNames

LEMMA PreparedCalm ==
  ASSUME HooksInv, NEW v \in Views, Prepared(v)
  PROVE  CalmStep(v)
  <1> DEFINE o == view[v]
             e == Ended([o EXCEPT !.review = o.review, !.pending = o.pending])
             review == ReviewOf(wallet)
             n == [e EXCEPT !.review = review, !.pending = NoHash]
  <1>1. /\ o \in View /\ RecordOK(o, tx) /\ o.op = "preparing" /\ o.current /\ wallet = o.ctx
        /\ [o EXCEPT !.review = o.review, !.pending = o.pending] = o
    BY ViewTyped DEF Prepared, View
  <1>2. review \in Reviews /\ review.account = wallet
    BY ReviewTyped DEF Prepared, HooksInv, TypeOK
  <1>3. /\ e \in View /\ RecordOK(e, tx) /\ Quiet(o, e) /\ Unsigned(o, e)
        /\ e.mount = "mounted" /\ e.op = "idle" /\ e.plan = None /\ e.ctx = o.ctx
        /\ ~e.current /\ e.hash = NoHash
    BY <1>1, EndedCalm
  <1>4. /\ view' = [view EXCEPT ![v] = n]
        /\ UNCHANGED <<flow, wallet, live, disturbed, tx, store, garbled>>
    BY <1>1 DEF Prepared
  <1> HIDE DEF o, e, review
  <1>5. /\ n \in View /\ n.review = review
        /\ n.mount = e.mount /\ n.pending = NoHash /\ n.op = e.op /\ n.hash = e.hash
        /\ n.current = e.current /\ n.ctx = e.ctx /\ n.plan = e.plan
    BY <1>2, <1>3 DEF View, NoHash
  <1> HIDE DEF n
  <1>6. RecordOK(n, tx) /\ Quiet(o, n) /\ Unsigned(o, n)
    BY <1>1, <1>2, <1>3, <1>5 DEF RecordOK, Quiet, Unsigned, Signing
  <1> QED BY <1>4, <1>5, <1>6, TurnCalm DEF o

\* The swap hook, asked to prepare or to submit, shows a saved record instead.
LEMMA ShowQueuedCalm ==
  ASSUME HooksInv, NEW v \in Views, Enabled(v), ShowQueued(v)
  PROVE  CalmStep(v)
  <1> DEFINE o == view[v]
             turned(p) == [o EXCEPT !.pending = p, !.blocked = Unreadable(o.ctx),
                                    !.review = IF p = NoHash THEN @ ELSE None]
             n(p) == [o EXCEPT !.pending = p, !.blocked = Unreadable(o.ctx),
                               !.review = IF p = NoHash THEN o.review ELSE None]
  <1>1. /\ o \in View /\ RecordOK(o, tx) /\ o.op = "idle" /\ o.mount = "mounted" /\ o.pending = NoHash
    BY ViewTyped DEF Enabled, Idle, Mounted
  <1>2. Show(v, {turned(p) : p \in Pick(ReadPending(o.ctx))})
    BY DEF ShowQueued
  <1>3. Pick(ReadPending(o.ctx)) \subseteq {NoHash} \cup store
    BY ReadStored DEF HooksInv, Pick
  <1>4. Unreadable(o.ctx) \in BOOLEAN
    BY DEF Unreadable
  <1>5. ASSUME NEW p \in Pick(ReadPending(o.ctx))
        PROVE  Calm(v, turned(p)) /\ Unsigned(o, turned(p))
    <2>1. p \in Nat /\ (p # NoHash => p \in DOMAIN tx /\ tx[p].kept = "stored")
      BY <1>3, StoredRecord DEF NoHash
    <2>2. turned(p) = n(p)
      OBVIOUS
    <2> HIDE DEF o
    <2>3. /\ n(p) \in View /\ n(p).pending = p /\ n(p).mount = o.mount /\ n(p).ctx = o.ctx
          /\ n(p).op = o.op /\ n(p).hash = o.hash /\ n(p).current = o.current
          /\ n(p).review = (IF p = NoHash THEN o.review ELSE None) /\ n(p).plan = o.plan
      BY <1>1, <1>4, <2>1 DEF View
    <2> HIDE DEF n
    <2>4. RecordOK(n(p), tx) /\ Quiet(o, n(p)) /\ Unsigned(o, n(p))
      BY <1>1, <2>1, <2>3 DEF RecordOK, Quiet, Unsigned, Signing
    <2> HIDE DEF turned
    <2> QED BY <2>2, <2>3, <2>4 DEF Calm, o
  <1> HIDE DEF turned, n
  <1>6. \A r \in {turned(p) : p \in Pick(ReadPending(o.ctx))} : Calm(v, r) /\ Unsigned(view[v], r)
    BY <1>5
  <1> QED BY <1>2, <1>6, ShowCalm

LEMMA PrepareCalm ==
  ASSUME HooksInv, NEW v \in Views, Prepare(v)
  PROVE  CalmStep(v)
  <1>1. CASE Enabled(v) /\ ShowQueued(v)
    BY <1>1, ShowQueuedCalm
  <1>2. CASE StartPreparing(v)
    <2> DEFINE o == view[v]
               n == [o EXCEPT !.op = "preparing", !.review = None, !.current = TRUE]
    <2>1. /\ Show(v, {n}) /\ o.op = "idle" /\ o.mount = "mounted" /\ o.pending = NoHash
          /\ o \in View /\ RecordOK(o, tx)
      BY <1>2, ViewTyped DEF StartPreparing, Enabled, Idle, Mounted
    <2> HIDE DEF o
    <2>2. /\ n \in View /\ n.review = None /\ n.ctx = o.ctx
          /\ n.mount = o.mount /\ n.pending = o.pending /\ n.op = "preparing" /\ n.hash = o.hash
          /\ n.plan = o.plan
      BY <2>1 DEF View, Ops
    <2> HIDE DEF n
    <2>3. RecordOK(n, tx) /\ Quiet(o, n) /\ Unsigned(o, n)
      BY <2>1, <2>2 DEF RecordOK, Quiet, Unsigned, Signing
    <2> QED BY <2>1, <2>2, <2>3, ShowCalm DEF o, Calm
  <1> QED BY <1>1, <1>2 DEF Prepare, PrepareSwap, PreparePayment, PrepareInvoice, PrepareStrategy, PrepareFunding

LEMMA HandedOnCalm ==
  ASSUME HooksInv, NEW v \in Views, Check(v) \/ HandOver(v) \/ Prompt(v)
  PROVE  CalmStep(v)
  <1> DEFINE o == view[v]
  <1>1. /\ o.op \in Signing /\ o \in View /\ RecordOK(o, tx)
        /\ UNCHANGED <<flow, wallet, live, disturbed, tx, store, garbled>>
    BY ViewTyped DEF Check, HandOver, Prompt, Signing
  <1>2. PICK k \in Signing : view' = [view EXCEPT ![v] = [o EXCEPT !.op = k]]
    BY DEF Check, HandOver, Prompt, Signing
  <1> DEFINE n == [o EXCEPT !.op = k]
  <1> HIDE DEF o
  <1>3. /\ n \in View /\ n.review = o.review /\ n.ctx = o.ctx /\ n.current = o.current
        /\ n.mount = o.mount /\ n.pending = o.pending /\ n.op \in Signing /\ n.hash = o.hash
        /\ n.plan = o.plan
    BY <1>1 DEF View, Ops
  <1>4. view' = [view EXCEPT ![v] = n]
    BY <1>2
  <1> HIDE DEF n
  <1>5. RecordOK(n, tx) /\ Quiet(o, n) /\ Unsigned(o, n)
    BY <1>1, <1>3 DEF RecordOK, Quiet, Unsigned, Signing
  <1> QED BY <1>1, <1>3, <1>4, <1>5, TurnCalm DEF o

\* A review is consumed; the swap hook has found no record of the account.
BeginStep(v) ==
    /\ Enabled(v)
    /\ \E n : /\ view' = [view EXCEPT ![v] = n] /\ Calm(v, n)
              /\ n.op = "submitted" /\ n.plan = view[v].review /\ n.plan.account = view[v].ctx
    /\ flow = "swap" => Saved(view[v].ctx) = {}
    /\ UNCHANGED <<flow, wallet, live, disturbed, tx, store, garbled>>

LEMMA SubmitSteps ==
  ASSUME HooksInv, NEW v \in Views, Submit(v)
  PROVE  CalmStep(v) \/ BeginStep(v)
  <1>1. Submittable(v) /\ Enabled(v)
    BY DEF Submit, SubmitSwap, SubmitPayment, SubmitInvoice, SubmitStrategy, SubmitFunding, Submittable
  <1>2. CASE flow = "swap" /\ Queued(v) /\ ShowQueued(v)
    BY <1>1, <1>2, ShowQueuedCalm
  <1>3. CASE Begin(v) /\ ~(flow = "swap" /\ Queued(v))
    <2> DEFINE o == view[v]
               n == [o EXCEPT !.op = "submitted", !.plan = o.review, !.current = TRUE]
    <2>1. /\ view' = [view EXCEPT ![v] = n]
          /\ UNCHANGED <<flow, wallet, live, disturbed, tx, store, garbled>>
      BY <1>3 DEF Begin, Show
    <2>2. /\ o.op = "idle" /\ o.mount = "mounted" /\ o.pending = NoHash /\ o.review # None
          /\ o \in View /\ RecordOK(o, tx)
      BY <1>1, ViewTyped DEF Submittable, Enabled, Idle, Mounted
    <2> HIDE DEF o
    <2>3. /\ n \in View /\ n.review = o.review /\ n.ctx = o.ctx
          /\ n.mount = o.mount /\ n.pending = o.pending /\ n.op = "submitted" /\ n.hash = o.hash
          /\ n.plan = o.review
      BY <2>2 DEF View, Ops, Signing
    <2> HIDE DEF n
    <2>4. RecordOK(n, tx) /\ Quiet(o, n)
      BY <2>2, <2>3 DEF RecordOK, Quiet, Signing
    <2>5. n.plan.account = o.ctx
      BY <2>2, <2>3 DEF RecordOK
    <2>6. flow = "swap" => Saved(o.ctx) = {}
      BY <1>3 DEF Queued, o
    <2> QED BY <1>1, <2>1, <2>3, <2>4, <2>5, <2>6 DEF BeginStep, Calm, o
  <1> QED BY <1>2, <1>3 DEF Submit, SubmitSwap, SubmitPayment, SubmitInvoice, SubmitStrategy, SubmitFunding,
                          InvoiceFlows, StrategyFlows

-----------------------------------------------------------------------------
(* How the invariant follows from what a step does to one view and to the  *)
(* transactions.                                                           *)

\* Transactions may be added, and their hashes only move forward.
Onward(t, u) ==
    /\ DOMAIN t \subseteq DOMAIN u
    /\ \A h \in DOMAIN t :
         /\ u[h].account = t[h].account
         /\ t[h].kept # "sent" => u[h].kept # "sent"
         /\ t[h].kept \in {"stored", "cleared"} => u[h].kept \in {"stored", "cleared"}

LEMMA OtherViews ==
  ASSUME NEW r, NEW t, NEW u, RecordOK(r, t), Onward(t, u),
         r.op = "sent" => u[r.hash].kept = "sent"
  PROVE  RecordOK(r, u)
  BY DEF RecordOK, Onward

LEMMA RecordsKept ==
  ASSUME HooksInv, NEW v \in Views, NEW n \in View, view' = [view EXCEPT ![v] = n], flow' = flow,
         RecordOK(n, tx'), Onward(tx, tx'),
         \A w \in Views \ {v} : view[w].op = "sent" =>
            tx'[view[w].hash].kept = "sent" /\ (n.op = "sent" => view[w].hash # n.hash)
  PROVE  /\ view' \in [Views -> View] /\ Records' /\ OneHolder'
         /\ view'[v] = n /\ \A w \in Views \ {v} : view'[w] = view[w]
  <1>1. view \in [Views -> View]
    BY DEF HooksInv, TypeOK
  <1>2. view' \in [Views -> View] /\ view'[v] = n /\ \A w \in Views \ {v} : view'[w] = view[w]
    BY <1>1
  <1>3. ASSUME NEW w \in Views PROVE RecordOK(view'[w], tx')
    <2>1. CASE w = v
      BY <1>2, <2>1
    <2>2. CASE w # v
      BY <1>2, <2>2, ViewTyped, OtherViews
    <2> QED BY <2>1, <2>2
  <1>4. Records'
    BY <1>3 DEF Records, RecordOK
  <1>5. OneHolder'
    BY <1>2 DEF OneHolder, HooksInv
  <1> QED BY <1>2, <1>4, <1>5

\* A step that changes one view and no transaction keeps the invariant.
LEMMA TurnKeeps ==
  ASSUME HooksInv, NEW v \in Views, NEW n, view' = [view EXCEPT ![v] = n], Calm(v, n),
         UNCHANGED <<flow, wallet, live, disturbed, tx, store, garbled>>
  PROVE  HooksInv'
  <1>1. n \in View /\ RecordOK(n, tx) /\ Quiet(view[v], n)
    BY DEF Calm
  <1>2. Onward(tx, tx') /\ RecordOK(n, tx')
    BY <1>1 DEF Onward
  <1>3. \A w \in Views \ {v} : view[w].op = "sent" =>
            tx'[view[w].hash].kept = "sent" /\ (n.op = "sent" => view[w].hash # n.hash)
    BY <1>1, ViewTyped DEF RecordOK, Quiet, HooksInv, OneHolder
  <1>4. /\ view' \in [Views -> View] /\ Records' /\ OneHolder'
        /\ view'[v] = n /\ \A w \in Views \ {v} : view'[w] = view[w]
    BY <1>1, <1>2, <1>3, RecordsKept
  <1>5. TypeOK'
    BY <1>4 DEF HooksInv, TypeOK, Hash
  <1>6. StoreInv'
    BY DEF HooksInv, StoreInv, HashKeyedRecordSurvives, RecordSurvives, OneSlot, Hash
  <1>7. UnstoredHashIsShown'
    <2> SUFFICES ASSUME flow # "funding", NEW h \in Hash, tx[h].kept = "failed"
                 PROVE  \E w \in Views : Mounted(w)' /\ view'[w].pending = h
      BY DEF UnstoredHashIsShown, Hash
    <2>1. PICK w \in Views : Mounted(w) /\ view[w].pending = h
      BY DEF HooksInv, UnstoredHashIsShown
    <2>2. CASE w # v
      BY <1>4, <2>1, <2>2 DEF Mounted
    <2>3. CASE w = v
      BY <1>1, <1>4, <2>1, <2>3 DEF Mounted, Quiet, Hash, NoHash, HooksInv, TypeOK
    <2> QED BY <2>2, <2>3
  <1> QED BY <1>4, <1>5, <1>6, <1>7 DEF HooksInv

\* Moving one hash on.
Marked(t, h, k) == [t EXCEPT ![h].kept = k]

LEMMA MarkedTx ==
  ASSUME TypeOK, NEW h \in Hash, NEW k \in Fates
  PROVE  LET u == Marked(tx, h, k)
         IN /\ u \in Seq(Tx) /\ Len(u) = Len(tx) /\ DOMAIN u = Hash
            /\ u[h].kept = k /\ \A g \in Hash : g # h => u[g] = tx[g]
            /\ \A g \in Hash : u[g].account = tx[g].account /\ u[g].kind = tx[g].kind
  <1> DEFINE e == [tx[h] EXCEPT !.kept = k]
             u == [tx EXCEPT ![h] = e]
  <1>1. tx \in Seq(Tx) /\ tx[h] \in Tx /\ DOMAIN tx = Hash
    BY DEF TypeOK, Hash
  <1>2. e \in Tx /\ e.kept = k /\ e.account = tx[h].account /\ e.kind = tx[h].kind
    BY <1>1 DEF Tx
  <1>3. Marked(tx, h, k) = u
    BY DEF Marked
  <1> HIDE DEF e
  <1>4. u \in Seq(Tx) /\ Len(u) = Len(tx)
    BY <1>1, <1>2 DEF Hash
  <1> QED BY <1>1, <1>2, <1>3, <1>4

\* Losing some.
Losing(L) == [h \in Hash |-> IF h \in L THEN [tx[h] EXCEPT !.kept = "lost"] ELSE tx[h]]

LEMMA LosingTx ==
  ASSUME TypeOK, NEW L
  PROVE  LET u == Losing(L)
         IN /\ u \in Seq(Tx) /\ Len(u) = Len(tx) /\ DOMAIN u = Hash
            /\ \A g \in Hash : /\ g \in L => u[g].kept = "lost" /\ u[g].account = tx[g].account
                                             /\ u[g].kind = tx[g].kind
                               /\ g \notin L => u[g] = tx[g]
  <1> DEFINE u == Losing(L)
             e(g) == [tx[g] EXCEPT !.kept = "lost"]
  <1>1. tx \in Seq(Tx) /\ Len(tx) \in Nat /\ DOMAIN tx = Hash
    BY DEF TypeOK, Hash
  <1>2. ASSUME NEW g \in Hash
        PROVE  /\ e(g) \in Tx /\ e(g).kept = "lost" /\ e(g).account = tx[g].account /\ e(g).kind = tx[g].kind
               /\ tx[g] \in Tx
    <2>1. tx[g] \in Tx
      BY <1>1 DEF Hash
    <2> QED BY <2>1 DEF Tx, Fates
  <1>3. \A g \in Hash : u[g] = (IF g \in L THEN e(g) ELSE tx[g])
    BY DEF Losing
  <1>4. DOMAIN u = Hash
    BY DEF Losing
  <1>5. u = [h \in Hash |-> u[h]]
    BY DEF Losing
  <1> HIDE DEF u, e
  <1>6. u \in [1 .. Len(tx) -> Tx]
    BY <1>2, <1>3, <1>5 DEF Hash
  <1>7. u \in Seq(Tx)
    BY <1>1, <1>6, SeqDef
  <1>8. Len(u) = Len(tx)
    BY <1>1, <1>4, <1>7, LenProperties DEF Hash
  <1> QED BY <1>2, <1>3, <1>4, <1>7, <1>8 DEF u

-----------------------------------------------------------------------------
(* The steps that move a hash on.                                          *)

LEMMA OthersRecords ==
  ASSUME NEW h
  PROVE  /\ Others(h) \subseteq store /\ h \notin Others(h)
         /\ ~OneSlot /\ flow \in Flows => Others(h) = store \ {h}
  <1>1. Others(h) \subseteq store /\ h \notin Others(h)
    BY DEF Others
  <1>2. ASSUME ~OneSlot, flow \in Flows, NEW g, g # h PROVE StorageKey(g) # StorageKey(h)
    <2>1. flow \in FlowNames \ {"payment", "funding"}
      BY <1>2, ExecutionAssumption DEF OneSlot
    <2>2. StorageKey(g) = <<tx[g].account, g>> /\ StorageKey(h) = <<tx[h].account, h>>
      BY <2>1 DEF FlowNames, InvoiceFlows, StrategyFlows, StorageKey, SwapKey, InvoiceKey, StrategyKey
    <2> QED BY <1>2, <2>2
  <1> QED BY <1>1, <1>2 DEF Others

\* A hash that v holds or awaits gets a new fate.
LEMMA MarkKeeps ==
  ASSUME HooksInv, NEW v \in Views, NEW n \in View, view' = [view EXCEPT ![v] = n],
         NEW h \in Hash, h = view[v].hash, NEW k \in Fates \ {"sent"}, tx' = Marked(tx, h, k),
         view[v].op \in {"sent", "waiting"}, n.op # "sent", RecordOK(n, tx'),
         view[v].op = "waiting" => k = "cleared",
         flow # "funding" /\ k = "failed" => n.mount = "mounted" /\ n.pending = h,
         h \in store' <=> k = "stored",
         store' \ {h} \subseteq store, ~OneSlot => store \ {h} \subseteq store',
         garbled' \subseteq garbled, UNCHANGED <<flow, wallet, live, disturbed>>
  PROVE  HooksInv'
  <1>1. /\ tx' \in Seq(Tx) /\ Len(tx') = Len(tx) /\ DOMAIN tx' = Hash /\ DOMAIN tx = Hash
        /\ tx'[h].kept = k /\ \A g \in Hash : g # h => tx'[g] = tx[g]
        /\ \A g \in Hash : tx'[g].account = tx[g].account
    BY MarkedTx DEF HooksInv, TypeOK, Hash
  <1>2. RecordOK(view[v], tx)
    BY ViewTyped
  <1>3. Onward(tx, tx')
    BY <1>1, <1>2 DEF Onward, RecordOK
  <1>4. \A w \in Views \ {v} : view[w].op = "sent" =>
            tx'[view[w].hash].kept = "sent" /\ (n.op = "sent" => view[w].hash # n.hash)
    <2> SUFFICES ASSUME NEW w \in Views \ {v}, view[w].op = "sent"
                 PROVE  tx'[view[w].hash].kept = "sent"
      OBVIOUS
    <2>1. view[w].hash \in Hash /\ tx[view[w].hash].kept = "sent"
      BY <1>1, ViewTyped DEF RecordOK
    <2>2. view[w].hash # h
      BY <1>2, <2>1 DEF RecordOK, HooksInv, OneHolder
    <2> QED BY <1>1, <2>1, <2>2
  <1>5. /\ view' \in [Views -> View] /\ Records' /\ OneHolder'
        /\ view'[v] = n /\ \A w \in Views \ {v} : view'[w] = view[w]
    BY <1>3, <1>4, RecordsKept
  <1>6. Hash' = Hash /\ store \subseteq Hash
    BY <1>1 DEF Hash, HooksInv, TypeOK
  <1>7. TypeOK'
    BY <1>1, <1>5, <1>6 DEF HooksInv, TypeOK
  <1>8. StoreInv'
    <2>1. \A g \in store' : tx'[g].kept = "stored"
      BY <1>1, <1>6 DEF HooksInv, StoreInv
    <2>2. HashKeyedRecordSurvives'
      BY <1>1, <1>6 DEF HooksInv, StoreInv, HashKeyedRecordSurvives, RecordSurvives, OneSlot
    <2> QED BY <2>1, <2>2 DEF StoreInv
  <1>9. UnstoredHashIsShown'
    <2> SUFFICES ASSUME flow # "funding", NEW g \in Hash, tx'[g].kept = "failed"
                 PROVE  \E w \in Views : Mounted(w)' /\ view'[w].pending = g
      BY <1>6 DEF UnstoredHashIsShown
    <2>1. CASE g = h
      BY <1>1, <1>5, <2>1 DEF Mounted
    <2>2. CASE g # h
      <3>1. tx[g].kept = "failed"
        BY <1>1, <2>2
      <3>2. PICK w \in Views : Mounted(w) /\ view[w].pending = g
        BY <3>1 DEF HooksInv, UnstoredHashIsShown
      <3>3. w # v
        BY <1>2, <2>2, <3>1, <3>2 DEF RecordOK, Mounted, Hash, NoHash, HooksInv, TypeOK
      <3> QED BY <1>5, <3>2, <3>3 DEF Mounted
    <2> QED BY <2>1, <2>2
  <1> QED BY <1>5, <1>7, <1>8, <1>9 DEF HooksInv

LEMMA PersistKeeps ==
  ASSUME HooksInv, NEW v \in Views, Persist(v)
  PROVE  HooksInv'
  <1> DEFINE o == view[v]
             h == o.hash
             shown == IF Mounted(v) THEN h ELSE NoHash
             n == [o EXCEPT !.op = "waiting", !.pending = shown]
  <1>1. /\ o \in View /\ RecordOK(o, tx) /\ o.op = "sent" /\ view \in [Views -> View]
    BY ViewTyped DEF Persist, HooksInv, TypeOK
  <1>2. h \in Hash /\ h # NoHash /\ h \in Nat
    BY <1>1 DEF RecordOK, HooksInv, TypeOK, Hash, NoHash
  <1>3. /\ tx' = Marked(tx, h, "stored") /\ store' = Others(h) \cup {h} /\ garbled' \subseteq garbled
        /\ UNCHANGED <<flow, wallet, live, disturbed>>
    BY DEF Persist, Marked
  <1>4. view' = [view EXCEPT ![v] = n]
    BY <1>1 DEF Persist
  <1>5. DOMAIN tx' = Hash /\ tx'[h].kept = "stored"
    BY <1>2, <1>3, MarkedTx DEF HooksInv, Fates
  <1> HIDE DEF o
  <1>6. /\ n \in View /\ n.op = "waiting" /\ n.pending = shown /\ n.mount = o.mount
        /\ n.review = o.review /\ n.hash = h /\ n.current = o.current /\ n.ctx = o.ctx
        /\ n.plan = o.plan
    BY <1>1, <1>2 DEF View, Ops, NoHash
  <1>7. o.mount = "mounted" <=> Mounted(v)
    BY DEF Mounted, o
  <1> HIDE DEF n, h
  <1>8. RecordOK(n, tx')
    BY <1>1, <1>2, <1>5, <1>6, <1>7 DEF RecordOK, View, Signing
  <1>9. h = view[v].hash /\ view[v].op = "sent"
    BY <1>1 DEF h, o
  <1>10. "stored" \in Fates \ {"sent"} /\ "stored" # "failed"
    BY DEF Fates
  <1>11. h \in store' /\ store' \ {h} \subseteq store /\ (~OneSlot => store \ {h} \subseteq store')
    BY <1>3, OthersRecords DEF HooksInv, TypeOK
  <1> QED BY <1>2, <1>3, <1>4, <1>6, <1>8, <1>9, <1>10, <1>11, MarkKeeps

LEMMA PersistFailsKeeps ==
  ASSUME HooksInv, NEW v \in Views, PersistFails(v)
  PROVE  HooksInv'
  <1> DEFINE o == view[v]
             h == o.hash
             x == [o EXCEPT !.pending = h]
  <1>1. o \in View /\ RecordOK(o, tx) /\ o.op = "sent"
    BY ViewTyped DEF PersistFails
  <1>2. h \in Hash /\ h # NoHash /\ h \in Nat /\ tx[h].kept = "sent"
    BY <1>1 DEF RecordOK, HooksInv, TypeOK, Hash, NoHash
  <1>3. UNCHANGED <<flow, wallet, live, disturbed, store, garbled>>
    BY DEF PersistFails
  <1>4. h \notin store
    BY <1>2 DEF HooksInv, StoreInv
  <1>5. CASE Mounted(v)
    <2> DEFINE n == Ended(x)
    <2>1. tx' = Marked(tx, h, "failed") /\ view' = [view EXCEPT ![v] = n]
      BY <1>5 DEF PersistFails, Marked
    <2>2. DOMAIN tx' = Hash /\ tx'[h].kept = "failed"
      BY <1>2, <2>1, MarkedTx DEF HooksInv, Fates
    <2>3. o.mount = "mounted" /\ h = view[v].hash
      BY <1>5 DEF Mounted
    <2>4. /\ x \in View /\ x.pending = h /\ x.mount = "mounted" /\ x.review = o.review /\ x.ctx = o.ctx
      <3> HIDE DEF o
      <3> QED BY <1>1, <1>2, <2>3 DEF View
    <2> HIDE DEF x
    <2>5. /\ n \in View /\ n.op = "idle" /\ n.hash = NoHash /\ ~n.current
          /\ n.mount = "mounted" /\ n.ctx = o.ctx /\ n.pending = h /\ n.review = o.review /\ n.plan = None
      BY <2>4, EndedView
    <2> HIDE DEF n
    <2>6. RecordOK(n, tx')
      BY <1>1, <1>2, <2>2, <2>5 DEF RecordOK, Signing
    <2>7. "failed" \in Fates \ {"sent"} /\ "failed" # "stored"
      BY DEF Fates
    <2> HIDE DEF o, h
    <2>8. view[v].op = "sent"
      BY <1>1 DEF o
    <2> QED BY <1>2, <1>3, <1>4, <2>1, <2>3, <2>5, <2>6, <2>7, <2>8, MarkKeeps
  <1>6. CASE ~Mounted(v)
    <2>1. tx' = Marked(tx, h, "lost") /\ view' = [view EXCEPT ![v] = Absent]
      BY <1>6 DEF PersistFails, Marked
    <2>2. RecordOK(Absent, tx') /\ Absent \in View /\ Absent.op = "idle"
      BY AbsentView DEF RecordOK, Absent, Signing, NoHash
    <2>3. "lost" \in Fates \ {"sent"} /\ "lost" # "stored" /\ "lost" # "failed"
      BY DEF Fates
    <2> HIDE DEF o, h
    <2>4. view[v].op = "sent" /\ h = view[v].hash
      BY <1>1 DEF o, h
    <2> QED BY <1>2, <1>3, <1>4, <2>1, <2>2, <2>3, <2>4, MarkKeeps
  <1> QED BY <1>5, <1>6

\* What each hook shows next is a saved record, but not the one it finishes.
LEMMA FinishSteps ==
  ASSUME HooksInv, NEW v \in Views,
         FinishSwap(v) \/ FinishPayment(v) \/ FinishInvoice(v) \/ FinishStrategy(v) \/ FinishFunding(v)
  PROVE  /\ Waiting(v)
         /\ \E left \in SUBSET (store \ {view[v].hash}) : Finish(v, left)
  <1>1. NextPending(view[v].hash) \subseteq store \ {view[v].hash}
    BY OthersRecords DEF NextPending, Saved
  <1>2. {} \subseteq store \ {view[v].hash}
    OBVIOUS
  <1> QED BY <1>1, <1>2 DEF FinishSwap, FinishPayment, FinishInvoice, FinishStrategy, FinishFunding

LEMMA FinishKeeps ==
  ASSUME HooksInv, NEW v \in Views, Waiting(v),
         NEW left \in SUBSET (store \ {view[v].hash}), Finish(v, left)
  PROVE  HooksInv'
  <1> DEFINE o == view[v]
             h == o.hash
  <1>1. o \in View /\ RecordOK(o, tx) /\ o.op = "waiting"
    BY ViewTyped DEF Waiting
  <1>2. h \in Hash
    BY <1>1 DEF RecordOK, HooksInv, TypeOK, Hash
  <1>3. /\ tx' = Marked(tx, h, "cleared") /\ store' = Others(h) /\ garbled' \subseteq garbled
        /\ UNCHANGED <<flow, wallet, live, disturbed>>
    BY DEF Finish, Marked
  <1>4. PICK p \in Pick(left) :
          view' = [view EXCEPT ![v] =
             Ended([@ EXCEPT !.pending = IF Mounted(v) THEN p ELSE NoHash, !.review = None])]
    BY DEF Finish
  <1> DEFINE x == [o EXCEPT !.pending = IF Mounted(v) THEN p ELSE NoHash, !.review = None]
             n == Ended(x)
  <1>5. view' = [view EXCEPT ![v] = n]
    BY <1>4
  <1>6. p = NoHash \/ (p \in store /\ p # h)
    BY DEF Pick
  <1>7. p \in Nat /\ (p # NoHash => p \in Hash /\ p # h /\ tx[p].kept = "stored")
    BY <1>6, StoredRecord DEF NoHash, Hash, HooksInv, TypeOK
  <1>8. DOMAIN tx' = Hash /\ (p # NoHash => tx'[p].kept = "stored")
    BY <1>2, <1>3, <1>7, MarkedTx DEF HooksInv, Fates
  <1>9. o.mount = "mounted" <=> Mounted(v)
    BY DEF Mounted
  <1>10. /\ x \in View /\ x.pending = (IF Mounted(v) THEN p ELSE NoHash) /\ x.mount = o.mount /\ x.review = None
    <2> HIDE DEF o
    <2> QED BY <1>1, <1>7 DEF View, NoHash
  <1> HIDE DEF x
  <1>11. n \in View /\ RecordOK(n, tx') /\ n.op = "idle"
    <2>1. CASE o.mount = "detached"
      <3>1. n = Absent
        BY <1>10, <2>1, EndedView
      <3> QED BY <3>1, AbsentView DEF Absent, RecordOK, Signing, NoHash
    <2>2. CASE o.mount # "detached"
      <3>1. o.mount = "mounted"
        BY <1>1, <2>2 DEF RecordOK, View
      <3>2. /\ n \in View /\ n.op = "idle" /\ n.hash = NoHash /\ ~n.current
            /\ n.mount = "mounted" /\ n.pending = p /\ n.review = None /\ n.plan = None
        BY <1>9, <1>10, <2>2, <3>1, EndedView
      <3> HIDE DEF n
      <3> QED BY <1>8, <1>7, <3>2 DEF RecordOK, Signing
    <2> QED BY <2>1, <2>2
  <1> HIDE DEF n, o, h
  <1>12. view[v].op = "waiting" /\ h = view[v].hash
    BY <1>1 DEF o, h
  <1>13. "cleared" \in Fates \ {"sent"} /\ "cleared" # "stored" /\ "cleared" # "failed"
    BY DEF Fates
  <1>14. h \notin store' /\ store' \ {h} \subseteq store /\ (~OneSlot => store \ {h} \subseteq store')
    BY <1>3, OthersRecords DEF HooksInv, TypeOK
  <1> QED BY <1>2, <1>3, <1>5, <1>11, <1>12, <1>13, <1>14, MarkKeeps

-----------------------------------------------------------------------------
(* The other steps.                                                        *)

\* What is broadcast for a plan, and whether its hash came back.
Broadcast(plan, answered) ==
    [account |-> plan.account, kind |-> plan.kind, nonce |-> plan.nonce, status |-> "pool",
     kept |-> IF answered THEN "sent" ELSE "lost"]

\* The view may show anything by now, or be gone.
LEMMA SignEffect ==
  ASSUME HooksInv, NEW v \in Views, Sign(v)
  PROVE  /\ view[v].op = "prompted" /\ view[v].plan \in Reviews /\ view[v].plan # None
         /\ \E answered \in BOOLEAN, n \in View :
              /\ tx' = Append(tx, Broadcast(view[v].plan, answered))
              /\ view' = [view EXCEPT ![v] = n]
              /\ n.plan = None /\ n.mount # "never"
              /\ IF answered THEN /\ n.op = "sent" /\ n.hash = Len(tx) + 1 /\ n.review = None
                                  /\ n.mount = view[v].mount /\ n.pending = view[v].pending
                                  /\ n.current = view[v].current
                             ELSE n.op = "idle" /\ RecordOK(n, tx)
         /\ UNCHANGED <<flow, wallet, live, disturbed, store, garbled>>
  <1> DEFINE o == view[v]
             yes == [o EXCEPT !.op = "sent", !.hash = Len(tx) + 1, !.plan = None, !.review = None]
             no == Failed(o)
  <1>1. /\ o \in View /\ RecordOK(o, tx) /\ o.op = "prompted" /\ Len(tx) + 1 \in Nat
        /\ UNCHANGED <<flow, wallet, live, disturbed, store, garbled>>
    BY ViewTyped DEF Sign, HooksInv, TypeOK
  <1>2. o.plan \in Reviews /\ o.plan # None /\ o.mount # "never" /\ o.op \in Signing
    BY <1>1 DEF RecordOK, View, Signing
  <1>3. PICK answered \in BOOLEAN :
          /\ tx' = Append(tx, Broadcast(o.plan, answered))
          /\ view' = [view EXCEPT ![v] = IF answered THEN yes ELSE no]
    BY DEF Sign, Broadcast
  <1>4. /\ yes \in View /\ yes.mount = o.mount /\ yes.pending = o.pending /\ yes.plan = None
        /\ yes.review = None /\ yes.op = "sent" /\ yes.hash = Len(tx) + 1 /\ yes.current = o.current
    <2> HIDE DEF o
    <2> QED BY <1>1 DEF View, Ops
  <1>5. no \in View /\ RecordOK(no, tx) /\ Quiet(o, no) /\ no.op = "idle" /\ no.plan = None
    BY <1>2, FailedCalm
  <1> HIDE DEF yes, no
  <1>6. no.mount # "never"
    BY <1>2, <1>5 DEF Quiet
  <1>7. CASE answered
    BY <1>1, <1>2, <1>3, <1>4, <1>7
  <1>8. CASE ~answered
    BY <1>1, <1>2, <1>3, <1>5, <1>6, <1>8
  <1> QED BY <1>7, <1>8

LEMMA SignKeeps ==
  ASSUME HooksInv, NEW v \in Views, Sign(v)
  PROVE  HooksInv'
  <1> DEFINE o == view[v]
  <1>1. PICK answered \in BOOLEAN, n \in View :
          /\ tx' = Append(tx, Broadcast(o.plan, answered))
          /\ view' = [view EXCEPT ![v] = n]
          /\ n.plan = None /\ n.mount # "never"
          /\ IF answered THEN /\ n.op = "sent" /\ n.hash = Len(tx) + 1 /\ n.review = None
                              /\ n.mount = o.mount /\ n.pending = o.pending /\ n.current = o.current
                         ELSE n.op = "idle" /\ RecordOK(n, tx)
    BY SignEffect
  <1> DEFINE b == Broadcast(o.plan, answered)
  <1>2. /\ o.op = "prompted" /\ o.plan \in Reviews
        /\ UNCHANGED <<flow, wallet, live, disturbed, store, garbled>>
    BY SignEffect
  <1>3. b \in Tx /\ b.kept = (IF answered THEN "sent" ELSE "lost")
    BY <1>2 DEF Broadcast, Tx, Reviews, Fates
  <1> HIDE DEF b
  <1>4. /\ tx \in Seq(Tx) /\ Len(tx) \in Nat /\ DOMAIN tx = Hash
    BY DEF HooksInv, TypeOK, Hash
  <1>5. /\ tx' \in Seq(Tx) /\ Len(tx') = Len(tx) + 1 /\ DOMAIN tx' = 1 .. Len(tx) + 1
        /\ tx'[Len(tx) + 1] = b /\ \A h \in Hash : tx'[h] = tx[h]
    BY <1>1, <1>3, <1>4 DEF Hash, b
  <1>6. Hash' = Hash \cup {Len(tx) + 1} /\ Len(tx) + 1 \notin Hash /\ Len(tx) + 1 # NoHash
    BY <1>4, <1>5 DEF Hash, NoHash
  <1>7. Onward(tx, tx')
    BY <1>4, <1>5, <1>6 DEF Onward, Hash
  <1>8. RecordOK(o, tx) /\ o.op \in Signing /\ flow' = flow
    BY <1>2, ViewTyped DEF Signing
  <1>9. RecordOK(n, tx')
    <2>1. CASE answered
      BY <1>1, <1>3, <1>4, <1>5, <1>6, <1>8, <2>1 DEF RecordOK, Hash, Signing
    <2>2. CASE ~answered
      BY <1>1, <1>7, <2>2, OtherViews
    <2> QED BY <2>1, <2>2
  <1>10. \A w \in Views \ {v} : view[w].op = "sent" =>
            tx'[view[w].hash].kept = "sent" /\ (n.op = "sent" => view[w].hash # n.hash)
    <2> SUFFICES ASSUME NEW w \in Views \ {v}, view[w].op = "sent"
                 PROVE  tx'[view[w].hash].kept = "sent" /\ (n.op = "sent" => view[w].hash # n.hash)
      OBVIOUS
    <2>1. view[w].hash \in Hash /\ tx[view[w].hash].kept = "sent"
      BY <1>4, ViewTyped DEF RecordOK
    <2> QED BY <1>1, <1>5, <1>6, <2>1
  <1>11. /\ view' \in [Views -> View] /\ Records' /\ OneHolder'
         /\ view'[v] = n /\ \A w \in Views \ {v} : view'[w] = view[w]
    BY <1>1, <1>2, <1>7, <1>9, <1>10, RecordsKept
  <1>12. TypeOK'
    BY <1>2, <1>5, <1>6, <1>11 DEF HooksInv, TypeOK
  <1>13. StoreInv'
    <2>1. \A g \in store' : tx'[g].kept = "stored"
      BY <1>2, <1>5 DEF HooksInv, StoreInv, TypeOK
    <2>2. HashKeyedRecordSurvives'
      BY <1>2, <1>3, <1>5, <1>6 DEF HooksInv, StoreInv, HashKeyedRecordSurvives, RecordSurvives, OneSlot
    <2> QED BY <2>1, <2>2 DEF StoreInv
  <1>14. UnstoredHashIsShown'
    <2> SUFFICES ASSUME flow # "funding", NEW g \in Hash', tx'[g].kept = "failed"
                 PROVE  \E w \in Views : Mounted(w)' /\ view'[w].pending = g
      BY <1>2 DEF UnstoredHashIsShown
    <2>1. g \in Hash /\ tx[g].kept = "failed" /\ g # NoHash
      BY <1>3, <1>4, <1>5, <1>6 DEF Hash, NoHash
    <2>2. PICK w \in Views : Mounted(w) /\ view[w].pending = g
      BY <2>1 DEF HooksInv, UnstoredHashIsShown
    <2>3. w # v
      BY <1>8, <2>1, <2>2 DEF RecordOK
    <2> QED BY <1>11, <2>2, <2>3 DEF Mounted
  <1> QED BY <1>11, <1>12, <1>13, <1>14 DEF HooksInv

\* A view that goes takes with it the hashes only it knows.
LEMMA LeaveKeeps ==
  ASSUME HooksInv, NEW v \in Views, NEW n \in View, view' = [view EXCEPT ![v] = n],
         NEW L \in SUBSET Hash, tx' = Losing(L),
         \A h \in L : tx[h].kept \in {"sent", "failed"},
         \A h \in L : tx[h].kept = "sent" => view[v].op = "sent" /\ view[v].hash = h /\ n.op # "sent",
         \A h \in Hash : tx[h].kept = "failed" /\ view[v].pending = h => h \in L,
         n.op = "sent" => view[v].op = "sent" /\ n.hash = view[v].hash,
         RecordOK(n, tx), n.pending = NoHash, n.op # "sent" \/ view[v].hash \notin L,
         UNCHANGED <<flow, wallet, live, disturbed, store, garbled>>
  PROVE  HooksInv'
  <1>1. /\ tx' \in Seq(Tx) /\ Len(tx') = Len(tx) /\ DOMAIN tx' = Hash /\ DOMAIN tx = Hash
        /\ \A g \in Hash : /\ g \in L => tx'[g].kept = "lost" /\ tx'[g].account = tx[g].account
                           /\ g \notin L => tx'[g] = tx[g]
    BY LosingTx DEF HooksInv, TypeOK, Hash
  <1>2. Hash' = Hash
    BY <1>1 DEF Hash
  <1>3. Onward(tx, tx')
    BY <1>1 DEF Onward
  <1>4. RecordOK(n, tx')
    BY <1>1, <1>3, OtherViews DEF RecordOK
  <1>5. \A w \in Views \ {v} : view[w].op = "sent" =>
            tx'[view[w].hash].kept = "sent" /\ (n.op = "sent" => view[w].hash # n.hash)
    <2> SUFFICES ASSUME NEW w \in Views \ {v}, view[w].op = "sent"
                 PROVE  tx'[view[w].hash].kept = "sent" /\ (n.op = "sent" => view[w].hash # n.hash)
      OBVIOUS
    <2>1. view[w].hash \in Hash /\ tx[view[w].hash].kept = "sent"
      BY <1>1, ViewTyped DEF RecordOK
    <2>2. view[v].op = "sent" => view[w].hash # view[v].hash
      BY DEF HooksInv, OneHolder
    <2> QED BY <1>1, <2>1, <2>2
  <1>6. /\ view' \in [Views -> View] /\ Records' /\ OneHolder'
        /\ view'[v] = n /\ \A w \in Views \ {v} : view'[w] = view[w]
    BY <1>3, <1>4, <1>5, RecordsKept
  <1>7. TypeOK'
    BY <1>1, <1>2, <1>6 DEF HooksInv, TypeOK
  <1>8. StoreInv'
    <2>1. \A g \in store' : tx'[g].kept = "stored"
      BY <1>1 DEF HooksInv, StoreInv, TypeOK
    <2>2. HashKeyedRecordSurvives'
      BY <1>1, <1>2 DEF HooksInv, StoreInv, HashKeyedRecordSurvives, RecordSurvives, OneSlot
    <2> QED BY <2>1, <2>2 DEF StoreInv
  <1>9. UnstoredHashIsShown'
    <2> SUFFICES ASSUME flow # "funding", NEW g \in Hash, tx'[g].kept = "failed"
                 PROVE  \E w \in Views : Mounted(w)' /\ view'[w].pending = g
      BY <1>2 DEF UnstoredHashIsShown
    <2>1. g \notin L /\ tx[g].kept = "failed"
      BY <1>1
    <2>2. PICK w \in Views : Mounted(w) /\ view[w].pending = g
      BY <2>1 DEF HooksInv, UnstoredHashIsShown
    <2>3. w # v
      BY <2>1, <2>2
    <2> QED BY <1>6, <2>2, <2>3 DEF Mounted
  <1> QED BY <1>6, <1>7, <1>8, <1>9 DEF HooksInv

LEMMA UnmountKeeps ==
  ASSUME HooksInv, NEW v \in Views, Unmount(v)
  PROVE  HooksInv'
  <1> DEFINE o == view[v]
             d == [o EXCEPT !.mount = "detached", !.current = FALSE, !.pending = NoHash, !.review = None]
             n == IF o.op = "idle" THEN Absent ELSE d
             L == {h \in Hash : tx[h].kept = "failed" /\ o.pending = h}
  <1>1. /\ view' = [view EXCEPT ![v] = n] /\ tx' = Losing(L)
        /\ UNCHANGED <<flow, wallet, live, disturbed, store, garbled>>
    BY DEF Unmount, Losing
  <1>2. o \in View /\ RecordOK(o, tx)
    BY ViewTyped
  <1>3. /\ d \in View /\ d.mount = "detached" /\ ~d.current /\ d.pending = NoHash /\ d.review = None
        /\ d.op = o.op /\ d.hash = o.hash /\ d.plan = o.plan
    <2> HIDE DEF o
    <2> QED BY <1>2 DEF View, NoHash
  <1> HIDE DEF d
  <1>4. n \in View /\ RecordOK(n, tx) /\ n.pending = NoHash
        /\ (n.op = "sent" => o.op = "sent" /\ n.hash = o.hash)
    <2>1. CASE o.op = "idle"
      BY <2>1, AbsentView DEF Absent, RecordOK, Signing, NoHash
    <2>2. CASE o.op # "idle"
      BY <1>2, <1>3, <2>2 DEF RecordOK
    <2> QED BY <2>1, <2>2
  <1>5. n.op = "sent" => o.hash \notin L
    BY <1>2, <1>4 DEF RecordOK
  <1> HIDE DEF n
  <1>6. /\ L \in SUBSET Hash /\ \A h \in L : tx[h].kept = "failed"
        /\ \A h \in Hash : tx[h].kept = "failed" /\ o.pending = h => h \in L
    OBVIOUS
  <1> HIDE DEF L
  <1> QED BY <1>1, <1>4, <1>5, <1>6, LeaveKeeps

LEMMA CloseKeeps ==
  ASSUME HooksInv, NEW v \in Views, Close(v)
  PROVE  HooksInv'
  <1> DEFINE o == view[v]
             L == {h \in Hash : \/ tx[h].kept = "failed" /\ o.pending = h
                                \/ tx[h].kept = "sent" /\ o.hash = h}
  <1>1. /\ view' = [view EXCEPT ![v] = Absent] /\ tx' = Losing(L)
        /\ UNCHANGED <<flow, wallet, live, disturbed, store, garbled>>
    BY DEF Close, Forget, Losing
  <1>2. o \in View /\ RecordOK(o, tx)
    BY ViewTyped
  <1>3. /\ L \in SUBSET Hash /\ \A h \in L : tx[h].kept \in {"sent", "failed"}
        /\ \A h \in Hash : tx[h].kept = "failed" /\ o.pending = h => h \in L
    OBVIOUS
  <1>4. \A h \in L : tx[h].kept = "sent" => o.op = "sent" /\ o.hash = h
    BY <1>2 DEF RecordOK, Hash, NoHash, HooksInv, TypeOK
  <1>5. /\ Absent \in View /\ RecordOK(Absent, tx) /\ Absent.pending = NoHash /\ Absent.op # "sent"
    BY AbsentView DEF Absent, RecordOK, Signing, NoHash
  <1> HIDE DEF L
  <1> QED BY <1>1, <1>3, <1>4, <1>5, LeaveKeeps

\* A step that changes neither views, nor hashes, nor what is stored.
LEMMA AsideKeeps ==
  ASSUME HooksInv, TypeOK', Len(tx') = Len(tx),
         \A h \in Hash : tx'[h].kept = tx[h].kept /\ tx'[h].account = tx[h].account,
         UNCHANGED <<flow, store, view>>
  PROVE  HooksInv'
  <1>1. DOMAIN tx' = Hash /\ DOMAIN tx = Hash /\ Hash' = Hash
    BY DEF HooksInv, TypeOK, Hash
  <1>2. Onward(tx, tx')
    BY <1>1 DEF Onward
  <1>3. ASSUME NEW w \in Views PROVE RecordOK(view[w], tx')
    <2>1. RecordOK(view[w], tx)
      BY ViewTyped
    <2>2. view[w].op = "sent" => tx'[view[w].hash].kept = "sent"
      BY <1>1, <2>1 DEF RecordOK
    <2> QED BY <1>2, <2>1, <2>2, OtherViews
  <1>4. Records'
    BY <1>3 DEF Records, RecordOK
  <1>5. OneHolder' /\ StoreInv'
    BY <1>1 DEF HooksInv, OneHolder, StoreInv, TypeOK, HashKeyedRecordSurvives, RecordSurvives, OneSlot
  <1>6. UnstoredHashIsShown'
    BY <1>1 DEF HooksInv, UnstoredHashIsShown, Mounted
  <1> QED BY <1>4, <1>5, <1>6 DEF HooksInv

LEMMA AppliedFacts ==
  ASSUME NEW l \in LiveFacts, NEW kind \in Kinds
  PROVE  Applied(l, kind) \in LiveFacts
  <1>1. /\ [l EXCEPT !.allowance = "enough"] \in LiveFacts /\ [l EXCEPT !.allowance = "none"] \in LiveFacts
        /\ [l EXCEPT !.stage = "halfway"] \in LiveFacts /\ [l EXCEPT !.stage = "closed"] \in LiveFacts
        /\ [l EXCEPT !.nonce = @ + 1] \in LiveFacts
    BY DEF LiveFacts
  <1>2. [l EXCEPT !.allowance = "none", !.stage = "closed"] \in LiveFacts
    BY DEF LiveFacts
  <1>3. CASE kind \in {"approval", "reset", "swap"}
    BY <1>1, <1>3 DEF Applied
  <1>4. CASE kind = "payment"
    BY <1>2, <1>4 DEF Applied
  <1>5. CASE kind \in {"create", "ship", "retire"}
    BY <1>1, <1>5 DEF Applied
  <1>6. CASE kind \in {"cancel", "activate", "dock", "faucet"}
    BY <1>1, <1>6 DEF Applied
  <1> QED BY <1>3, <1>4, <1>5, <1>6 DEF Kinds

LEMMA MineKeeps ==
  ASSUME HooksInv, NEW h \in Hash, Mine(h)
  PROVE  HooksInv'
  <1> USE DEF HooksInv
  <1>1. PICK s \in {"success", "silent", "reverted"} :
          /\ tx' = [tx EXCEPT ![h].status = s]
          /\ live' = IF s \in {"success", "silent"}
                     THEN [live EXCEPT ![tx[h].account] = Applied(@, tx[h].kind)] ELSE live
    BY DEF Mine
  <1> DEFINE e == [tx[h] EXCEPT !.status = s]
  <1>2. tx \in Seq(Tx) /\ tx[h] \in Tx /\ Len(tx) \in Nat
    BY DEF TypeOK, Hash
  <1>3. e \in Tx /\ e.kept = tx[h].kept /\ e.account = tx[h].account
    BY <1>2 DEF Tx
  <1>4. tx' = [tx EXCEPT ![h] = e]
    BY <1>1
  <1> HIDE DEF e
  <1>5. /\ tx' \in Seq(Tx) /\ Len(tx') = Len(tx)
        /\ \A g \in Hash : tx'[g].kept = tx[g].kept /\ tx'[g].account = tx[g].account
    BY <1>2, <1>3, <1>4 DEF Hash
  <1>6. tx[h].account \in Accounts /\ tx[h].kind \in Kinds
    BY <1>2 DEF Tx
  <1>7. live' \in [Accounts -> LiveFacts]
    BY <1>1, <1>6, AppliedFacts DEF TypeOK
  <1>8. TypeOK' /\ UNCHANGED <<flow, store, view>>
    BY <1>5, <1>7 DEF TypeOK, Mine, Hash
  <1> QED BY <1>5, <1>8, AsideKeeps

LEMMA ElsewhereKeeps ==
  ASSUME HooksInv, ChangeWallet \/ Disturb \/ Garble \/ UNCHANGED vars
  PROVE  HooksInv'
  <1> USE DEF HooksInv
  <1>1. CASE ChangeWallet
    BY <1>1, AsideKeeps DEF ChangeWallet, TypeOK, Hash
  <1>2. CASE Disturb
    <2>1. PICK a \in Accounts :
            \E l \in {[live[a] EXCEPT !.allowance = w] : w \in Allowances \ {live[a].allowance}}
                    \cup {[live[a] EXCEPT !.stage = "closed"], [live[a] EXCEPT !.nonce = @ + 1]} :
              live' = [live EXCEPT ![a] = l]
      BY <1>2 DEF Disturb
    <2>2. PICK l \in {[live[a] EXCEPT !.allowance = w] : w \in Allowances \ {live[a].allowance}}
                    \cup {[live[a] EXCEPT !.stage = "closed"], [live[a] EXCEPT !.nonce = @ + 1]} :
              live' = [live EXCEPT ![a] = l]
      BY <2>1
    <2> DEFINE m == live[a]
    <2>3. m \in LiveFacts
      BY DEF TypeOK
    <2>4. Allowances \subseteq {"none", "some", "enough"}
      BY DEF Allowances
    <2>5. \/ \E w \in Allowances : l = [m EXCEPT !.allowance = w]
          \/ l = [m EXCEPT !.stage = "closed"] \/ l = [m EXCEPT !.nonce = m.nonce + 1]
      BY <2>2
    <2> HIDE DEF m
    <2>6. l \in LiveFacts
      BY <2>3, <2>4, <2>5 DEF LiveFacts
    <2>7. live' \in [Accounts -> LiveFacts]
      BY <2>2, <2>6 DEF TypeOK
    <2>8. TypeOK' /\ UNCHANGED <<flow, store, view, tx>>
      BY <1>2, <2>7 DEF TypeOK, Disturb, Hash
    <2> QED BY <2>8, AsideKeeps
  <1>3. CASE Garble
    BY <1>3, AsideKeeps DEF Garble, TypeOK, Hash
  <1>4. CASE UNCHANGED vars
    BY <1>4, AsideKeeps DEF vars, TypeOK, Hash
  <1> QED BY <1>1, <1>2, <1>3, <1>4

-----------------------------------------------------------------------------

LEMMA HooksInit == Init => HooksInv
  <1> SUFFICES ASSUME Init PROVE HooksInv
    OBVIOUS
  <1>1. \A v \in Views : view[v] \in {Absent, Never}
    BY DEF Init
  <1>2. /\ view \in [Views -> View] /\ tx = <<>> /\ store = {} /\ garbled = {}
        /\ wallet \in Accounts /\ flow \in Flows /\ disturbed = 0
    BY AbsentView DEF Init
  <1>3. live \in [Accounts -> LiveFacts]
    BY DEF Init, LiveFacts
  <1>4. Hash = {} /\ tx \in Seq(Tx)
    BY <1>2 DEF Hash
  <1>5. TypeOK
    BY <1>2, <1>3, <1>4 DEF TypeOK
  <1>6. ASSUME NEW v \in Views PROVE RecordOK(view[v], tx) /\ view[v].op = "idle"
    <2>1. /\ Absent.op = "idle" /\ Absent.pending = NoHash /\ Absent.review = None /\ ~Absent.current
          /\ Absent.hash = NoHash /\ Absent.mount = "none" /\ Absent.plan = None
          /\ Never.op = "idle" /\ Never.pending = NoHash /\ Never.review = None /\ ~Never.current
          /\ Never.hash = NoHash /\ Never.mount = "never" /\ Never.plan = None
      BY DEF Absent, Never
    <2> QED BY <1>1, <2>1 DEF RecordOK, Signing
  <1>7. Records /\ OneHolder
    BY <1>6 DEF Records, OneHolder
  <1>8. StoreInv /\ UnstoredHashIsShown
    BY <1>2, <1>4 DEF StoreInv, HashKeyedRecordSurvives, RecordSurvives, UnstoredHashIsShown
  <1> QED BY <1>5, <1>7, <1>8 DEF HooksInv

\* The kinds of steps of a view.
LEMMA ViewSteps ==
  ASSUME HooksInv, NEW v \in Views, ViewStep(v)
  PROVE  \/ CalmStep(v) \/ BeginStep(v) \/ Sign(v) \/ Persist(v) \/ PersistFails(v)
         \/ Unmount(v) \/ Close(v)
         \/ Waiting(v) /\ \E left \in SUBSET (store \ {view[v].hash}) : Finish(v, left)
  BY MountCalm, RerenderCalm, StorageEventCalm, LapseCalm, EditCalm, PrepareCalm, PreparedCalm,
     FailCalm, SubmitSteps, HandedOnCalm, TrackCalm, ReceiptFailsCalm, FinishSteps DEF ViewStep

LEMMA HooksNext == HooksInv /\ [Next]_vars => HooksInv'
  <1> SUFFICES ASSUME HooksInv, [Next]_vars PROVE HooksInv'
    OBVIOUS
  <1>1. ASSUME NEW v \in Views, ViewStep(v) PROVE HooksInv'
    <2>1. CASE CalmStep(v)
      BY <2>1, TurnKeeps DEF CalmStep
    <2>2. CASE BeginStep(v)
      BY <2>2, TurnKeeps DEF BeginStep
    <2>3. CASE Waiting(v) /\ \E left \in SUBSET (store \ {view[v].hash}) : Finish(v, left)
      BY <2>3, FinishKeeps
    <2> QED BY <1>1, <2>1, <2>2, <2>3, ViewSteps, SignKeeps, PersistKeeps, PersistFailsKeeps,
               UnmountKeeps, CloseKeeps
  <1>2. ASSUME NEW h \in Hash, Mine(h) PROVE HooksInv'
    BY <1>2, MineKeeps
  <1>3. CASE ChangeWallet \/ Disturb \/ Garble \/ UNCHANGED vars
    BY <1>3, ElsewhereKeeps
  <1> QED BY <1>1, <1>2, <1>3 DEF Next

LEMMA HooksAlways == Spec => []HooksInv
  BY HooksInit, HooksNext, PTL DEF Spec

\* Views, transactions and the store keep their shapes; nothing saved is for a
\* transaction that was not broadcast.
THEOREM TypeCorrect == Spec => []TypeOK
  <1>1. HooksInv => TypeOK
    BY DEF HooksInv
  <1> QED BY <1>1, HooksAlways, PTL

\* A stored hash of a swap, an invoice or a strategy leaves localStorage only
\* with its own receipt, whatever other views, accounts and records do: keys
\* that hold the hash never collide (useSwapExecution.ts:59).
THEOREM RecordsSurvive == Spec => []HashKeyedRecordSurvives
  <1>1. HooksInv => HashKeyedRecordSurvives
    BY DEF HooksInv, StoreInv
  <1> QED BY <1>1, HooksAlways, PTL

\* A hash that could not be stored stays on display in the view that got it
\* until its receipt is taken or the view goes, outside the funding hook
\* (execution.ts:48).
THEOREM UnstoredStaysShown == Spec => []UnstoredHashIsShown
  <1>1. HooksInv => UnstoredHashIsShown
    BY DEF HooksInv
  <1> QED BY <1>1, HooksAlways, PTL

\* Whatever becomes of inputs, account and page while a signature is on its way,
\* the review on display is for the account shown, and is the plan being signed
\* if one is: a page never offers one thing and has another signed
\* (transactionPort.ts:35).
THEOREM ReviewsAreShown == Spec => []ShownReviewIsSigned
  <1>1. HooksInv => ShownReviewIsSigned
    BY DEF HooksInv, Records, RecordOK, ShownReviewIsSigned
  <1> QED BY <1>1, HooksAlways, PTL

-----------------------------------------------------------------------------
(* The backlog of swaps.  It grows only where a review is consumed, and    *)
(* there the account has nothing saved: its busy views are then views that *)
(* are open.  From there on a signature only moves from a view to the      *)
(* store.                                                                  *)

BusyIn(r, t, a) ==
    \/ r.plan # None /\ r.plan.account = a
    \/ r.op = "sent" /\ t[r.hash].account = a

Busy(a) == {v \in Views : BusyIn(view[v], tx, a)}

BacklogInv ==
    flow = "swap" => \A a \in Accounts : Cardinality(Saved(a)) + Cardinality(Busy(a)) <= Cardinality(Open)

LEMMA BacklogFinite ==
  ASSUME HooksInv, NEW a
  PROVE  /\ IsFiniteSet(Open) /\ IsFiniteSet(Saved(a)) /\ IsFiniteSet(Busy(a))
         /\ Busy(a) \subseteq Open
         /\ Cardinality(Open) \in Nat /\ Cardinality(Saved(a)) \in Nat /\ Cardinality(Busy(a)) \in Nat
  <1>1. IsFiniteSet(Open)
    BY ExecutionAssumption, FS_Subset DEF Open
  <1>2. IsFiniteSet(Hash)
    BY FS_Interval DEF HooksInv, TypeOK, Hash
  <1>3. IsFiniteSet(Saved(a))
    BY <1>2, FS_Subset DEF Saved, HooksInv, TypeOK
  <1>4. Busy(a) \subseteq Open
    <2> SUFFICES ASSUME NEW v \in Busy(a) PROVE v \in Open
      OBVIOUS
    <2> QED BY ViewTyped DEF Busy, BusyIn, Open, RecordOK, Signing
  <1>5. IsFiniteSet(Busy(a))
    BY <1>1, <1>4, FS_Subset
  <1> QED BY <1>1, <1>3, <1>4, <1>5, FS_CardinalityType

LEMMA FewerBusy ==
  ASSUME HooksInv, HooksInv', BacklogInv, flow' = flow, Open' = Open,
         \A a \in Accounts : Saved(a)' \subseteq Saved(a) /\ Busy(a)' \subseteq Busy(a)
  PROVE  BacklogInv'
  <1> SUFFICES ASSUME flow = "swap", NEW a \in Accounts
               PROVE  Cardinality(Saved(a)') + Cardinality(Busy(a)') <= Cardinality(Open)
    BY DEF BacklogInv
  <1>1. /\ Cardinality(Saved(a)') <= Cardinality(Saved(a)) /\ Cardinality(Saved(a)') \in Nat
        /\ Cardinality(Busy(a)') <= Cardinality(Busy(a)) /\ Cardinality(Busy(a)') \in Nat
    BY BacklogFinite, FS_Subset, FS_CardinalityType
  <1>2. Cardinality(Saved(a)) + Cardinality(Busy(a)) <= Cardinality(Open)
    BY DEF BacklogInv
  <1> QED BY <1>1, <1>2, BacklogFinite

\* What a step of one view does to the views that are busy.
LEMMA TurnBusy ==
  ASSUME HooksInv, NEW v \in Views, NEW n, view' = [view EXCEPT ![v] = n],
         \A h \in Hash : tx'[h].account = tx[h].account
  PROVE  /\ \A a : /\ Busy(a)' \subseteq Busy(a) \cup {v}
                   /\ v \in Busy(a)' <=> BusyIn(n, tx', a)
                   /\ v \notin Busy(a)' => Busy(a)' \subseteq Busy(a) \ {v}
         /\ (n.mount = "never" <=> view[v].mount = "never") => Open' = Open
  <1>1. view \in [Views -> View] /\ DOMAIN tx = Hash
    BY DEF HooksInv, TypeOK, Hash
  <1>2. view'[v] = n /\ \A w \in Views \ {v} : view'[w] = view[w]
    BY <1>1
  <1>3. ASSUME NEW a, NEW w \in Views \ {v}, w \in Busy(a)' PROVE w \in Busy(a)
    <2>1. BusyIn(view[w], tx', a)
      BY <1>2, <1>3 DEF Busy, BusyIn
    <2>2. BusyIn(view[w], tx, a)
      BY <1>1, <2>1, ViewTyped DEF BusyIn, RecordOK
    <2> QED BY <2>2 DEF Busy
  <1>4. \A a : v \in Busy(a)' <=> BusyIn(n, tx', a)
    BY <1>2 DEF Busy, BusyIn
  <1>5. \A a : Busy(a)' \subseteq Views
    BY DEF Busy
  <1>6. (n.mount = "never" <=> view[v].mount = "never") => Open' = Open
    BY <1>2 DEF Open
  <1> QED BY <1>3, <1>4, <1>5, <1>6

\* A step of one view that neither begins a signature nor stores a hash.
LEMMA TurnBacklog ==
  ASSUME HooksInv, HooksInv', BacklogInv, flow' = flow,
         NEW v \in Views, NEW n, view' = [view EXCEPT ![v] = n],
         n.mount = "never" <=> view[v].mount = "never",
         \A a \in Accounts : BusyIn(n, tx', a) => BusyIn(view[v], tx, a),
         \A h \in Hash : tx'[h].account = tx[h].account,
         store' \subseteq store
  PROVE  BacklogInv'
  <1>1. \A a \in Accounts : Busy(a)' \subseteq Busy(a)
    BY TurnBusy DEF Busy
  <1>2. \A a \in Accounts : Saved(a)' \subseteq Saved(a)
    BY DEF Saved, HooksInv, TypeOK
  <1>3. Open' = Open
    BY TurnBusy
  <1> QED BY <1>1, <1>2, <1>3, FewerBusy

LEMMA CalmBacklog ==
  ASSUME HooksInv, HooksInv', BacklogInv, NEW v \in Views, CalmStep(v)
  PROVE  BacklogInv'
  <1>1. PICK n : view' = [view EXCEPT ![v] = n] /\ Calm(v, n) /\ Unsigned(view[v], n)
    BY DEF CalmStep
  <1>2. \A a \in Accounts : BusyIn(n, tx', a) => BusyIn(view[v], tx, a)
    BY <1>1 DEF CalmStep, Calm, Quiet, Unsigned, BusyIn
  <1>3. n.mount = "never" <=> view[v].mount = "never"
    BY <1>1 DEF Calm, Quiet
  <1>4. flow' = flow /\ store' = store /\ tx' = tx
    BY DEF CalmStep
  <1> QED BY <1>1, <1>2, <1>3, <1>4, TurnBacklog

LEMMA BeginBacklog ==
  ASSUME HooksInv, HooksInv', BacklogInv, NEW v \in Views, BeginStep(v)
  PROVE  BacklogInv'
  <1>1. PICK n : /\ view' = [view EXCEPT ![v] = n] /\ Calm(v, n)
                 /\ n.op = "submitted" /\ n.plan.account = view[v].ctx
    BY DEF BeginStep
  <1>2. flow' = flow /\ store' = store /\ tx' = tx /\ (flow = "swap" => Saved(view[v].ctx) = {})
    BY DEF BeginStep
  <1>3. Open' = Open
    BY <1>1, <1>2, TurnBusy DEF Calm, Quiet
  <1> SUFFICES ASSUME flow = "swap", NEW a \in Accounts
               PROVE  Cardinality(Saved(a)') + Cardinality(Busy(a)') <= Cardinality(Open)
    BY <1>2, <1>3 DEF BacklogInv
  <1>4. Saved(a)' = Saved(a)
    BY <1>2 DEF Saved
  <1>5. CASE a = view[v].ctx
    <2>1. Cardinality(Saved(a)') = 0
      BY <1>2, <1>4, <1>5, FS_EmptySet
    <2>2. v \in Open
      BY DEF BeginStep, Enabled, Idle, Mounted, Open
    <2>3. Busy(a)' \subseteq Open
      <3>1. Busy(a)' \subseteq Busy(a) \cup {v}
        BY <1>1, <1>2, TurnBusy
      <3> QED BY <2>2, <3>1, BacklogFinite
    <2>4. Cardinality(Busy(a)') <= Cardinality(Open) /\ Cardinality(Busy(a)') \in Nat
      BY <2>3, BacklogFinite, FS_Subset, FS_CardinalityType
    <2> QED BY <2>1, <2>4, BacklogFinite
  <1>6. CASE a # view[v].ctx
    <2>1. ~BusyIn(n, tx', a)
      BY <1>1, <1>6 DEF BusyIn
    <2>2. Busy(a)' \subseteq Busy(a)
      BY <1>1, <1>2, <2>1, TurnBusy
    <2>3. Cardinality(Busy(a)') <= Cardinality(Busy(a)) /\ Cardinality(Busy(a)') \in Nat
      BY <2>2, BacklogFinite, FS_Subset, FS_CardinalityType
    <2>4. Cardinality(Saved(a)) + Cardinality(Busy(a)) <= Cardinality(Open)
      BY DEF BacklogInv
    <2> QED BY <1>4, <2>3, <2>4, BacklogFinite
  <1> QED BY <1>5, <1>6

LEMMA PersistBacklog ==
  ASSUME HooksInv, HooksInv', BacklogInv, NEW v \in Views, Persist(v)
  PROVE  BacklogInv'
  <1> DEFINE o == view[v]
             h == o.hash
             shown == IF Mounted(v) THEN h ELSE NoHash
             n == [o EXCEPT !.op = "waiting", !.pending = shown]
  <1>1. o \in View /\ RecordOK(o, tx) /\ o.op = "sent" /\ view \in [Views -> View]
    BY ViewTyped DEF Persist, HooksInv, TypeOK
  <1>2. h \in Hash /\ h # NoHash /\ tx[h].kept = "sent"
    BY <1>1 DEF RecordOK, HooksInv, TypeOK, Hash, NoHash
  <1>3. /\ tx' = Marked(tx, h, "stored") /\ store' = Others(h) \cup {h} /\ flow' = flow
        /\ view' = [view EXCEPT ![v] = n]
    BY <1>1 DEF Persist, Marked
  <1>4. \A g \in Hash : tx'[g].account = tx[g].account
    BY <1>2, <1>3, MarkedTx DEF HooksInv, Fates
  <1> HIDE DEF o
  <1>5. n.op = "waiting" /\ n.mount = o.mount /\ n.plan = None
    BY <1>1 DEF View, RecordOK, Signing
  <1> HIDE DEF n, h
  <1>6. Open' = Open /\ \A a : v \notin Busy(a)' /\ Busy(a)' \subseteq Busy(a) \ {v}
    BY <1>3, <1>4, <1>5, TurnBusy DEF BusyIn, o
  <1>7. h \notin store /\ store \subseteq Hash
    BY <1>2 DEF HooksInv, StoreInv, TypeOK
  <1> SUFFICES ASSUME flow = "swap", NEW a \in Accounts
               PROVE  Cardinality(Saved(a)') + Cardinality(Busy(a)') <= Cardinality(Open)
    BY <1>3, <1>6 DEF BacklogInv
  <1>8. Cardinality(Saved(a)) + Cardinality(Busy(a)) <= Cardinality(Open)
    BY DEF BacklogInv
  <1>9. Saved(a)' \subseteq Saved(a) \cup {h} /\ (tx[h].account # a => Saved(a)' \subseteq Saved(a))
    BY <1>2, <1>3, <1>4, <1>7, OthersRecords DEF Saved
  <1>10. CASE tx[h].account = a
    <2>1. v \in Busy(a)
      BY <1>1, <1>10 DEF Busy, BusyIn, o, h
    <2>2. IsFiniteSet(Saved(a)) /\ h \notin Saved(a) /\ IsFiniteSet(Busy(a))
      BY <1>7, BacklogFinite DEF Saved
    <2>3. /\ IsFiniteSet(Saved(a) \cup {h}) /\ Cardinality(Saved(a) \cup {h}) = Cardinality(Saved(a)) + 1
      BY <2>2, FS_AddElement
    <2>4. /\ IsFiniteSet(Busy(a) \ {v}) /\ Cardinality(Busy(a) \ {v}) = Cardinality(Busy(a)) - 1
      BY <2>1, <2>2, FS_RemoveElement
    <2>5. /\ Cardinality(Saved(a)') <= Cardinality(Saved(a)) + 1 /\ Cardinality(Saved(a)') \in Nat
          /\ Cardinality(Busy(a)') <= Cardinality(Busy(a)) - 1 /\ Cardinality(Busy(a)') \in Nat
      BY <1>6, <1>9, <2>3, <2>4, FS_Subset, FS_CardinalityType
    <2> QED BY <1>8, <2>5, BacklogFinite
  <1>11. CASE tx[h].account # a
    <2>1. Saved(a)' \subseteq Saved(a) /\ Busy(a)' \subseteq Busy(a)
      BY <1>6, <1>9, <1>11
    <2>2. /\ Cardinality(Saved(a)') <= Cardinality(Saved(a)) /\ Cardinality(Saved(a)') \in Nat
          /\ Cardinality(Busy(a)') <= Cardinality(Busy(a)) /\ Cardinality(Busy(a)') \in Nat
      BY <2>1, BacklogFinite, FS_Subset, FS_CardinalityType
    <2> QED BY <1>8, <2>2, BacklogFinite
  <1> QED BY <1>10, <1>11

LEMMA SignBacklog ==
  ASSUME HooksInv, HooksInv', BacklogInv, NEW v \in Views, Sign(v)
  PROVE  BacklogInv'
  <1> DEFINE o == view[v]
  <1>1. PICK answered \in BOOLEAN, n \in View :
          /\ tx' = Append(tx, Broadcast(o.plan, answered))
          /\ view' = [view EXCEPT ![v] = n]
          /\ n.plan = None /\ n.mount # "never"
          /\ IF answered THEN n.op = "sent" /\ n.hash = Len(tx) + 1 ELSE n.op = "idle"
    BY SignEffect
  <1>2. /\ o.op = "prompted" /\ o.plan \in Reviews /\ o.plan # None /\ o.mount # "never"
        /\ flow' = flow /\ store' = store
    BY SignEffect, ViewTyped DEF RecordOK
  <1>3. Broadcast(o.plan, answered).account = o.plan.account
    BY DEF Broadcast
  <1> DEFINE b == Broadcast(o.plan, answered)
  <1> HIDE DEF b
  <1>4. tx' = Append(tx, b) /\ b.account = o.plan.account /\ tx \in Seq(Tx) /\ Len(tx) \in Nat
    BY <1>1, <1>3 DEF b, HooksInv, TypeOK
  <1>5. tx'[Len(tx) + 1] = b /\ \A h \in Hash : tx'[h] = tx[h]
    BY <1>4 DEF Hash
  <1>6. \A a \in Accounts : BusyIn(n, tx', a) => BusyIn(o, tx, a)
    BY <1>1, <1>2, <1>4, <1>5 DEF BusyIn
  <1> QED BY <1>1, <1>2, <1>5, <1>6, TurnBacklog

\* What ends an operation leaves a view that is not busy.
LEMMA EndedBacklog ==
  ASSUME HooksInv, HooksInv', BacklogInv, flow' = flow,
         NEW v \in Views, NEW n, view' = [view EXCEPT ![v] = n],
         n.mount # "never", view[v].op # "idle", n.op = "idle", n.plan = None,
         NEW h \in Hash, NEW k \in Fates, tx' = Marked(tx, h, k), store' \subseteq store
  PROVE  BacklogInv'
  <1>1. view[v].mount # "never"
    BY ViewTyped DEF RecordOK
  <1>2. \A g \in Hash : tx'[g].account = tx[g].account
    BY MarkedTx DEF HooksInv
  <1>3. \A a \in Accounts : BusyIn(n, tx', a) => BusyIn(view[v], tx, a)
    BY DEF BusyIn
  <1> QED BY <1>1, <1>2, <1>3, TurnBacklog

LEMMA EndedIdle ==
  ASSUME NEW r \in View, r.mount # "never"
  PROVE  Ended(r).op = "idle" /\ Ended(r).mount # "never" /\ Ended(r).plan = None
  BY EndedView, AbsentView DEF Absent

LEMMA PersistFailsBacklog ==
  ASSUME HooksInv, HooksInv', BacklogInv, NEW v \in Views, PersistFails(v)
  PROVE  BacklogInv'
  <1> DEFINE o == view[v]
             h == o.hash
             x == [o EXCEPT !.pending = h]
  <1>1. o \in View /\ RecordOK(o, tx) /\ o.op = "sent" /\ flow' = flow /\ store' = store
    BY ViewTyped DEF PersistFails
  <1>2. h \in Hash /\ h \in Nat /\ o.mount # "never"
    BY <1>1 DEF RecordOK, HooksInv, TypeOK, Hash
  <1>3. x \in View /\ x.mount # "never"
    <2> HIDE DEF o
    <2> QED BY <1>1, <1>2 DEF View
  <1>4. \/ tx' = Marked(tx, h, "failed") /\ view' = [view EXCEPT ![v] = Ended(x)]
        \/ tx' = Marked(tx, h, "lost") /\ view' = [view EXCEPT ![v] = Absent]
    BY DEF PersistFails, Marked
  <1> HIDE DEF x, h
  <1>5. /\ Ended(x).op = "idle" /\ Ended(x).mount # "never" /\ Ended(x).plan = None
        /\ Absent.op = "idle" /\ Absent.mount # "never" /\ Absent.plan = None
    BY <1>3, EndedIdle DEF Absent
  <1>6. "failed" \in Fates /\ "lost" \in Fates /\ view[v].op # "idle"
    BY <1>1 DEF Fates
  <1> QED BY <1>1, <1>2, <1>4, <1>5, <1>6, EndedBacklog

LEMMA FinishBacklog ==
  ASSUME HooksInv, HooksInv', BacklogInv, NEW v \in Views, Waiting(v),
         NEW left \in SUBSET (store \ {view[v].hash}), Finish(v, left)
  PROVE  BacklogInv'
  <1> DEFINE o == view[v]
             h == o.hash
  <1>1. o \in View /\ RecordOK(o, tx) /\ o.op = "waiting"
    BY ViewTyped DEF Waiting
  <1>2. h \in Hash /\ o.mount # "never"
    BY <1>1 DEF RecordOK, HooksInv, TypeOK, Hash
  <1>3. tx' = Marked(tx, h, "cleared") /\ store' = Others(h) /\ flow' = flow
    BY DEF Finish, Marked
  <1>4. PICK p \in Pick(left) :
          view' = [view EXCEPT ![v] =
             Ended([@ EXCEPT !.pending = IF Mounted(v) THEN p ELSE NoHash, !.review = None])]
    BY DEF Finish
  <1> DEFINE x == [o EXCEPT !.pending = IF Mounted(v) THEN p ELSE NoHash, !.review = None]
  <1>5. view' = [view EXCEPT ![v] = Ended(x)]
    BY <1>4
  <1>6. p \in Nat
    BY StoredRecord DEF Pick, NoHash
  <1>7. x \in View /\ x.mount # "never"
    <2> HIDE DEF o
    <2> QED BY <1>1, <1>2, <1>6 DEF View, NoHash
  <1> HIDE DEF x, h
  <1>8. Ended(x).op = "idle" /\ Ended(x).mount # "never" /\ Ended(x).plan = None /\ "cleared" \in Fates /\ view[v].op # "idle"
    BY <1>1, <1>7, EndedIdle DEF Fates
  <1> QED BY <1>2, <1>3, <1>5, <1>8, EndedBacklog, OthersRecords

LEMMA LeaveBacklog ==
  ASSUME HooksInv, HooksInv', BacklogInv, NEW v \in Views, Unmount(v) \/ Close(v)
  PROVE  BacklogInv'
  <1> DEFINE o == view[v]
             d == [o EXCEPT !.mount = "detached", !.current = FALSE, !.pending = NoHash, !.review = None]
             n == IF Unmount(v) /\ o.op # "idle" THEN d ELSE Absent
  <1>1. /\ o \in View /\ RecordOK(o, tx) /\ o.mount # "never" /\ flow' = flow /\ store' = store
    BY ViewTyped DEF Unmount, Close, Mounted
  <1>2. \A h \in Hash : tx'[h].account = tx[h].account
    <2>1. CASE Unmount(v)
      <3> DEFINE L == {h \in Hash : tx[h].kept = "failed" /\ o.pending = h}
      <3>1. tx' = Losing(L)
        BY <2>1 DEF Unmount, Losing
      <3> HIDE DEF L
      <3> QED BY <3>1, LosingTx DEF HooksInv
    <2>2. CASE Close(v)
      <3> DEFINE L == {h \in Hash : \/ tx[h].kept = "failed" /\ o.pending = h
                                    \/ tx[h].kept = "sent" /\ o.hash = h}
      <3>1. tx' = Losing(L)
        BY <2>2 DEF Close, Forget, Losing
      <3> HIDE DEF L
      <3> QED BY <3>1, LosingTx DEF HooksInv
    <2> QED BY <2>1, <2>2
  <1>3. d.mount = "detached" /\ d.plan = o.plan /\ d.op = o.op /\ d.hash = o.hash
    <2> HIDE DEF o
    <2> QED BY <1>1 DEF View
  <1>4. \E m \in {d, Absent} : view' = [view EXCEPT ![v] = m]
    BY DEF Unmount, Close
  <1>5. PICK m \in {d, Absent} : view' = [view EXCEPT ![v] = m]
    BY <1>4
  <1> HIDE DEF d
  <1>6. /\ m.mount # "never" /\ (m.op = "sent" => o.op = "sent" /\ m.hash = o.hash)
        /\ m.plan \in {None, o.plan}
    BY <1>3 DEF Absent
  <1>7. o.op = "sent" => o.hash \in Hash
    BY <1>1 DEF RecordOK, HooksInv, TypeOK, Hash
  <1>8. \A a \in Accounts : BusyIn(m, tx', a) => BusyIn(o, tx, a)
    BY <1>2, <1>6, <1>7 DEF BusyIn
  <1> QED BY <1>1, <1>2, <1>5, <1>6, <1>8, TurnBacklog

LEMMA AsideBacklog ==
  ASSUME HooksInv, HooksInv', BacklogInv, UNCHANGED <<flow, store, view>>,
         \A h \in Hash : tx'[h].account = tx[h].account
  PROVE  BacklogInv'
  <1>1. DOMAIN tx = Hash
    BY DEF HooksInv, TypeOK, Hash
  <1>2. \A a \in Accounts : Saved(a)' \subseteq Saved(a)
    BY DEF Saved, HooksInv, TypeOK
  <1>3. ASSUME NEW a \in Accounts, NEW v \in Busy(a)' PROVE v \in Busy(a)
    BY <1>1, <1>3, ViewTyped DEF Busy, BusyIn, RecordOK
  <1>4. Open' = Open
    BY DEF Open
  <1> QED BY <1>2, <1>3, <1>4, FewerBusy

LEMMA BacklogInit == Init => BacklogInv
  <1> SUFFICES ASSUME Init, NEW a \in Accounts
               PROVE  Cardinality(Saved(a)) + Cardinality(Busy(a)) <= Cardinality(Open)
    BY DEF BacklogInv
  <1>1. \A v \in Views : view[v] \in {Absent, Never}
    BY DEF Init
  <1>2. \A v \in Views : view[v].op = "idle" /\ view[v].plan = None
    BY <1>1 DEF Absent, Never
  <1>3. Saved(a) = {} /\ Busy(a) = {}
    BY <1>2 DEF Init, Saved, Busy, BusyIn
  <1>4. Cardinality(Saved(a)) = 0 /\ Cardinality(Busy(a)) = 0
    BY <1>3, FS_EmptySet
  <1>5. Cardinality(Open) \in Nat
    BY HooksInit, BacklogFinite
  <1> QED BY <1>4, <1>5

LEMMA BacklogNext == HooksInv /\ HooksInv' /\ BacklogInv /\ [Next]_vars => BacklogInv'
  <1> SUFFICES ASSUME HooksInv, HooksInv', BacklogInv, [Next]_vars PROVE BacklogInv'
    OBVIOUS
  <1>1. ASSUME NEW v \in Views, ViewStep(v) PROVE BacklogInv'
    BY <1>1, ViewSteps, CalmBacklog, BeginBacklog, SignBacklog, PersistBacklog, PersistFailsBacklog,
       LeaveBacklog, FinishBacklog
  <1>2. ASSUME NEW h \in Hash, Mine(h) PROVE BacklogInv'
    <2>1. PICK s : tx' = [tx EXCEPT ![h].status = s]
      BY <1>2 DEF Mine
    <2> DEFINE e == [tx[h] EXCEPT !.status = s]
    <2>2. tx \in Seq(Tx) /\ tx[h] \in Tx
      BY DEF HooksInv, TypeOK, Hash
    <2>3. e.account = tx[h].account /\ tx' = [tx EXCEPT ![h] = e]
      BY <2>1, <2>2 DEF Tx
    <2> HIDE DEF e
    <2>4. \A g \in Hash : tx'[g].account = tx[g].account
      BY <2>2, <2>3 DEF Hash
    <2> QED BY <1>2, <2>4, AsideBacklog DEF Mine
  <1>3. CASE ChangeWallet \/ Disturb \/ Garble \/ UNCHANGED vars
    BY <1>3, AsideBacklog DEF ChangeWallet, Disturb, Garble, vars
  <1> QED BY <1>1, <1>2, <1>3 DEF Next

\* However many views of the swap hook submit at once, an account never has
\* more records and submissions open together than there are views: each view
\* reads the records before it signs, and what was stored since stops it.
THEOREM BacklogBounded == Spec => []SwapBacklogBounded
  <1>1. HooksInv /\ BacklogInv => SwapBacklogBounded
    BY DEF BacklogInv, SwapBacklogBounded, Busy, BusyIn
  <1>2. Spec => []BacklogInv
    BY BacklogInit, BacklogNext, HooksAlways, PTL DEF Spec
  <1> QED BY <1>1, <1>2, HooksAlways, PTL
=============================================================================
