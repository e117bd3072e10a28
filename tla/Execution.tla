------------------------------ MODULE Execution ------------------------------
(***************************************************************************)
(* Reviewing, signing and tracking one transaction at a time in the web    *)
(* application: the hooks of apps/web/src/features, the wallet ports of    *)
(* apps/web/src/wallet and the SDK's executeReviewed, for the eight        *)
(* actions they offer (flow).  Several views (instances of a hook, in one page or  *)
(* in several tabs) share the wallet, the chain and localStorage.          *)
(*                                                                         *)
(* An await is a step boundary.  A quote, a block, a gas budget and every  *)
(* expiry are abstracted to "the check may fail" (Fail) and "the review on *)
(* display may lapse" (Lapse); a hash is the index of its transaction.     *)
(***************************************************************************)
EXTENDS Naturals, Sequences, FiniteSets

CONSTANTS
    Views,       \* hook instances
    Teams,       \* for each flow, the sets of views that may be open (bound)
    Accounts,    \* wallet accounts
    Flows,       \* which of the eight actions the views are about
    MaxTx,       \* bound on the transactions broadcast
    MaxDisturb,  \* bound on changes made by others while one view is open
                 \* (none when several are)
    None         \* no account, no review

InvoiceFlows == {"create", "cancel"}
StrategyFlows == {"publish", "approve", "deactivate"}
FlowNames == {"swap", "payment", "funding"} \cup InvoiceFlows \cup StrategyFlows

ASSUME ExecutionAssumption ==
    /\ Flows \subseteq FlowNames
    /\ Teams \in [Flows -> SUBSET SUBSET Views]
    /\ MaxTx \in Nat /\ MaxDisturb \in Nat
    /\ None \notin Accounts
    /\ IsFiniteSet(Views)    \* a browser has so many documents open

VARIABLES
    flow,      \* the action under study, fixed
    wallet,    \* the account the wallet would sign with; being disconnected or on
               \* another chain only makes checks fail, see Fail
    live,      \* what the chain says: allowance, stage of the object, merchant nonce
    disturbed, \* changes made by others so far
    tx,        \* transactions broadcast, in order
    store,     \* localStorage: the hashes of the saved records
    garbled,   \* accounts with a saved record that does not decode
    view       \* the hook instances

vars == <<flow, wallet, live, disturbed, tx, store, garbled, view>>

Hash == 1..Len(tx)
NoHash == 0

Absent == [mount |-> "none", ctx |-> None, pending |-> NoHash, review |-> None, plan |-> None,
           op |-> "idle", hash |-> NoHash, current |-> FALSE, blocked |-> FALSE]
Never == [Absent EXCEPT !.mount = "never"]
Open == {v \in Views : view[v].mount # "never"}

Init ==
    /\ flow \in Flows
    /\ wallet \in Accounts
    /\ live = [a \in Accounts |-> [allowance |-> "none", stage |-> "open", nonce |-> 0]]
    /\ disturbed = 0
    /\ tx = <<>>
    /\ store = {}
    /\ garbled = {}
    /\ \E team \in Teams[flow] : view = [v \in Views |-> IF v \in team THEN Absent ELSE Never]

(***************************************************************************)
(* localStorage                                                            *)
(***************************************************************************)
(* The key of a record: its hash, or one slot for an account (and, for     *)
(* payments, the invoice under study).                                     *)
SharedSwapKey(h) == <<tx[h].account>>
SwapKey(h)     == <<tx[h].account, h>>
PaymentKey(h)  == <<tx[h].account>>
InvoiceKey(h)  == <<tx[h].account, h>>
StrategyKey(h) == <<tx[h].account, h>>
FundingKey(h)  == <<tx[h].account>>

StorageKey(h) ==
    CASE flow = "swap"               -> SwapKey(h)
      [] flow = "payment"            -> PaymentKey(h)
      [] flow \in InvoiceFlows -> InvoiceKey(h)
      [] flow \in StrategyFlows -> StrategyKey(h)
      [] flow = "funding"            -> FundingKey(h)

OneSlot == flow \in {"payment", "funding"}
Others(h) == {r \in store : StorageKey(r) # StorageKey(h)}

(* What reading back the records of an account gives; a record that does   *)
(* not decode, or is not bound to this account, makes the read throw.      *)
Saved(a) == {h \in store : tx[h].account = a}
Unreadable(a) == a \in garbled

ReadPendingSwaps(a)    == IF Unreadable(a) THEN {} ELSE Saved(a)
ReadPendingPayment(a)  == IF Unreadable(a) THEN {} ELSE Saved(a)
ReadPendingInvoices(a) == IF Unreadable(a) THEN {} ELSE {h \in Saved(a) : tx[h].kind = flow}
ReadPendingStrategies(a) == IF Unreadable(a) THEN {} ELSE Saved(a)
ReadFunding(a)         == IF Unreadable(a) THEN {} ELSE Saved(a)

ReadPending(a) ==
    CASE a = None                    -> {}
      [] flow = "swap"               -> ReadPendingSwaps(a)
      [] flow = "payment"            -> ReadPendingPayment(a)
      [] flow \in InvoiceFlows -> ReadPendingInvoices(a)
      [] flow \in StrategyFlows -> ReadPendingStrategies(a)
      [] flow = "funding"            -> ReadFunding(a)

(* Records are listed by hash, in no order the model knows.                *)
Pick(S) == IF S = {} THEN {NoHash} ELSE S

(***************************************************************************)
(* The life of a view                                                      *)
(***************************************************************************)
Mounted(v) == view[v].mount = "mounted"
Idle(v) == Mounted(v) /\ view[v].op = "idle"

(* An operation of an unmounted view ends without a trace.                 *)
Ended(rec) ==
    IF rec.mount = "detached" THEN Absent
    ELSE [rec EXCEPT !.op = "idle", !.plan = None, !.hash = NoHash, !.current = FALSE]

(* The effects that restore a saved record: a pending one is kept, except  *)
(* that the funding hook starts over at every change of its scope.         *)
Restored(rec, a) ==
    {[rec EXCEPT !.pending = p, !.blocked = Unreadable(a)] :
        p \in IF rec.pending # NoHash /\ flow # "funding" THEN {rec.pending}
              ELSE Pick(ReadPending(a))}

Show(v, recs) ==
    /\ \E rec \in recs : view' = [view EXCEPT ![v] = rec]
    /\ UNCHANGED <<flow, wallet, live, disturbed, tx, store, garbled>>

Mount(v) ==
    /\ view[v].mount = "none"
    /\ Show(v, Restored([Absent EXCEPT !.mount = "mounted", !.ctx = wallet], wallet))

(* A plausible fault: only the ticket is ended.                            *)
Dropped_TicketOnly(rec) == [rec EXCEPT !.current = FALSE]

(* A new context ends the ticket of whatever is in flight and drops the    *)
(* review on display.                                                      *)
Dropped(rec) == [rec EXCEPT !.review = None, !.current = FALSE]

(* The wallet's account reached the hook.                                  *)
Rerender(v) ==
    /\ Mounted(v) /\ view[v].ctx # wallet
    /\ Show(v, Restored([Dropped(view[v]) EXCEPT !.ctx = wallet], wallet))

(* Changed inputs.  Only the swap hook does not read its records again,    *)
(* and the funding hook has no inputs in its scope.                        *)
EditSwap(v) == flow = "swap" /\ Mounted(v) /\ Show(v, {Dropped(view[v])})

Edited(v) == Mounted(v) /\ Show(v, Restored(Dropped(view[v]), view[v].ctx))
EditPayment(v)  == flow = "payment" /\ Edited(v)
EditInvoice(v)  == flow \in InvoiceFlows /\ Edited(v)
EditStrategy(v) == flow \in StrategyFlows /\ Edited(v)

(* The swap hook listens to 'storage' events of other documents.           *)
StorageEvent(v) ==
    /\ flow = "swap" /\ Mounted(v) /\ view[v].ctx # None
    /\ Show(v, Restored(view[v], view[v].ctx))

(* The review on display expires.                                          *)
Lapse(v) ==
    /\ Idle(v) /\ view[v].review # None
    /\ view' = [view EXCEPT ![v].review = None]
    /\ UNCHANGED <<flow, wallet, live, disturbed, tx, store, garbled>>

(* A hash that only this view shows, because storing it failed, or that it *)
(* has just been handed, goes with the view.                               *)
Forget(v) ==
    [h \in Hash |-> IF \/ tx[h].kept = "failed" /\ view[v].pending = h
                       \/ tx[h].kept = "sent" /\ view[v].hash = h
                    THEN [tx[h] EXCEPT !.kept = "lost"] ELSE tx[h]]

(* Leaving the page of the hook: its promises go on without it.            *)
Unmount(v) ==
    /\ Mounted(v)
    /\ view' = [view EXCEPT ![v] =
           IF @.op = "idle" THEN Absent
           ELSE [@ EXCEPT !.mount = "detached", !.current = FALSE,
                          !.pending = NoHash, !.review = None]]
    /\ tx' = [h \in Hash |-> IF tx[h].kept = "failed" /\ view[v].pending = h
                             THEN [tx[h] EXCEPT !.kept = "lost"] ELSE tx[h]]
    /\ UNCHANGED <<flow, wallet, live, disturbed, store, garbled>>

(* Closing or reloading the document: everything in memory is lost.  If    *)
(* the wallet's prompt stays and is confirmed later, nobody learns the     *)
(* hash: that is a Sign without an answer, taken before the Close.         *)
Close(v) ==
    /\ view[v].mount \in {"mounted", "detached"}
    /\ view' = [view EXCEPT ![v] = Absent]
    /\ tx' = Forget(v)
    /\ UNCHANGED <<flow, wallet, live, disturbed, store, garbled>>

(***************************************************************************)
(* What a review would ask to sign, from the chain's current facts: one of *)
(* the plans the SDK builds.  What a builder checks of numbers, addresses, *)
(* quotes and expiry is part of Fail.                                      *)
(***************************************************************************)
Covers(l) == l.allowance = "enough"

SwapTx == "swap"
InvoiceTx == "create"
ShipTx == "ship"
ActivateTx == "activate"
RetireTx == "retire"
DockTx == "dock"
FaucetTx == "faucet"

(* Only an unpaid invoice is paid or cancelled.                            *)
Unpaid(l) == l.stage = "open"
PaymentTx(l) == IF Unpaid(l) THEN "payment" ELSE None
CancelInvoiceTx(l) == IF Unpaid(l) THEN "cancel" ELSE None

(* An allowance that does not cover the operation is raised first, to just *)
(* what it needs, by an action of its own.                                 *)
SwapApprovalTx == "approval"
PaymentApprovalTx(l) == IF PaymentTx(l) = None THEN None ELSE "approval"

(* A maker's insufficient allowance is reset before it is replaced.        *)
MakerApprovalTx(l) == IF l.allowance = "some" THEN "reset" ELSE "approval"

SwapPlan(l) ==
    CASE l.stage # "open" -> None
      [] l.stage = "open" /\ Covers(l) -> SwapTx
      [] l.stage = "open" /\ ~Covers(l) -> SwapApprovalTx
PaymentPlan(l) == IF Covers(l) THEN PaymentTx(l) ELSE PaymentApprovalTx(l)
InvoicePlan(l) == IF flow = "create" THEN InvoiceTx ELSE CancelInvoiceTx(l)
PublishPlan(l) ==
    CASE l.stage = "closed" -> None
      [] l.stage # "closed" /\ ~Covers(l) -> MakerApprovalTx(l)
      [] l.stage = "open" /\ Covers(l) -> ShipTx
      [] l.stage = "halfway" /\ Covers(l) -> ActivateTx
ApprovePlan(l) == IF l.stage = "open" /\ ~Covers(l) THEN MakerApprovalTx(l) ELSE None
DeactivatePlan(l) ==
    CASE l.stage = "open"    -> RetireTx
      [] l.stage = "halfway" -> DockTx
      [] l.stage = "closed"  -> None
FundingPlan(l) == IF l.stage = "open" THEN FaucetTx ELSE None

PlanOf(l) ==
    CASE flow = "swap"               -> SwapPlan(l)
      [] flow = "payment"            -> PaymentPlan(l)
      [] flow \in InvoiceFlows -> InvoicePlan(l)
      [] flow = "publish"            -> PublishPlan(l)
      [] flow = "approve"            -> ApprovePlan(l)
      [] flow = "deactivate"         -> DeactivatePlan(l)
      [] flow = "funding"            -> FundingPlan(l)

(* What the wallet's ports observe for an account, all of it at one block. *)
(* A configuration whose maker nonce was used is closed as well.           *)
Facts(a, names) == [n \in names |-> live[a][n]]

SwapFacts(a)     == Facts(a, {"allowance", "stage"})
PaymentFacts(a)  == Facts(a, {"allowance", "stage"})
InvoiceFacts(a)  == Facts(a, {IF flow = "create" THEN "nonce" ELSE "stage"})
StrategyFacts(a) == Facts(a, {"allowance", "stage"})

(* A review binds the plan to the account it was prepared for; the         *)
(* merchant nonce is part of the review of a creation only.                *)
Asks(a, kind) == [account |-> a, kind |-> kind, nonce |-> 0]

SwapReview(a)     == Asks(a, SwapPlan(SwapFacts(a)))
PaymentReview(a)  == Asks(a, PaymentPlan(PaymentFacts(a)))
InvoiceReview(a)  == [Asks(a, InvoicePlan(InvoiceFacts(a))) EXCEPT
                         !.nonce = IF flow = "create" THEN InvoiceFacts(a).nonce ELSE 0]
StrategyReview(a) == Asks(a, PlanOf(StrategyFacts(a)))
FundingReview(a)  == Asks(a, FundingPlan(live[a]))

ReviewOf(a) ==
    CASE flow = "swap"               -> SwapReview(a)
      [] flow = "payment"            -> PaymentReview(a)
      [] flow \in InvoiceFlows -> InvoiceReview(a)
      [] flow \in StrategyFlows -> StrategyReview(a)
      [] flow = "funding"            -> FundingReview(a)

(* Every flow observes the chain again between the click and the wallet    *)
(* and refuses a review that no longer is the next action.                 *)
SwapStillTrue(r)     == SwapPlan(SwapFacts(r.account)) = r.kind
PaymentStillTrue(r)  == PaymentPlan(PaymentFacts(r.account)) = r.kind
InvoiceStillTrue(r)  == LET l == InvoiceFacts(r.account) IN
                        /\ InvoicePlan(l) = r.kind
                        /\ flow = "create" => l.nonce = r.nonce
StrategyStillTrue(r) == PlanOf(StrategyFacts(r.account)) = r.kind
FundingStillTrue(r)  == FundingPlan(live[r.account]) = r.kind

StillTrue(r) ==
    CASE flow = "swap"               -> SwapStillTrue(r)
      [] flow = "payment"            -> PaymentStillTrue(r)
      [] flow \in InvoiceFlows -> InvoiceStillTrue(r)
      [] flow \in StrategyFlows -> StrategyStillTrue(r)
      [] flow = "funding"            -> FundingStillTrue(r)

(***************************************************************************)
(* Prepare a review                                                        *)
(***************************************************************************)
Enabled(v) == Idle(v) /\ view[v].ctx # None /\ ~view[v].blocked /\ view[v].pending = NoHash

(* The swap hook reads its records again before it prepares or submits,    *)
(* and shows one instead if there is any.                                  *)
Queued_OnlyUnreadable(v) == flow = "swap" /\ Unreadable(view[v].ctx)
Queued(v) == flow = "swap" /\ (Unreadable(view[v].ctx) \/ Saved(view[v].ctx) # {})
ShowQueued(v) ==
    Show(v, {[view[v] EXCEPT !.pending = p,
                             !.blocked = Unreadable(view[v].ctx),
                             !.review = IF p = NoHash THEN @ ELSE None] :
                 p \in Pick(ReadPending(view[v].ctx))})

StartPreparing(v) ==
    /\ Enabled(v)
    /\ Show(v, {[view[v] EXCEPT !.op = "preparing", !.review = None, !.current = TRUE]})

PrepareSwap(v) ==
    /\ flow = "swap" /\ Enabled(v)
    /\ IF Queued(v) THEN ShowQueued(v) ELSE StartPreparing(v)
PreparePayment(v)  == flow = "payment" /\ StartPreparing(v)
PrepareInvoice(v)  == flow \in InvoiceFlows /\ StartPreparing(v)
PrepareStrategy(v) == flow \in StrategyFlows /\ StartPreparing(v)
PrepareFunding(v)  == flow = "funding" /\ StartPreparing(v)

Prepare(v) ==
    \/ PrepareSwap(v) \/ PreparePayment(v) \/ PrepareInvoice(v)
    \/ PrepareStrategy(v) \/ PrepareFunding(v)

(* The identity, the observation and the estimate are all checked while    *)
(* the ticket is current.                                                  *)
Prepared(v) ==
    /\ view[v].op = "preparing" /\ view[v].current
    /\ wallet = view[v].ctx
    /\ ReviewOf(wallet).kind # None
    /\ view' = [view EXCEPT ![v] = [Ended(@) EXCEPT !.review = ReviewOf(wallet), !.pending = NoHash]]
    /\ UNCHANGED <<flow, wallet, live, disturbed, tx, store, garbled>>

(* The error is shown in place of all else, but only while the ticket is   *)
(* current.                                                                *)
Failed(rec) ==
    Ended([rec EXCEPT !.review = None, !.pending = IF rec.current THEN NoHash ELSE @])

(* Any step before the broadcast can fail: a guard, a lapse of time, an    *)
(* RPC error, a changed budget, a changed wallet, the user's refusal.      *)
Fail(v) ==
    /\ view[v].op \in {"preparing", "submitted", "checked", "handed", "prompted"}
    /\ view' = [view EXCEPT ![v] = Failed(@)]
    /\ UNCHANGED <<flow, wallet, live, disturbed, tx, store, garbled>>

(***************************************************************************)
(* Submit a review                                                         *)
(***************************************************************************)
Submittable(v) == Enabled(v) /\ view[v].review # None

(* The plan to be signed is taken from the review before the first await.  *)
Begin(v) ==
    Show(v, {[view[v] EXCEPT !.op = "submitted", !.plan = view[v].review, !.current = TRUE]})

SubmitSwap(v) ==
    /\ flow = "swap" /\ Submittable(v)
    /\ IF Queued(v) THEN ShowQueued(v) ELSE Begin(v)

SubmitPayment(v)  == flow = "payment" /\ Submittable(v) /\ Begin(v)
SubmitInvoice(v)  == flow \in InvoiceFlows /\ Submittable(v) /\ Begin(v)
SubmitStrategy(v) == flow \in StrategyFlows /\ Submittable(v) /\ Begin(v)
SubmitFunding(v)  == flow = "funding" /\ Submittable(v) /\ Begin(v)

Submit(v) ==
    \/ SubmitSwap(v) \/ SubmitPayment(v) \/ SubmitInvoice(v)
    \/ SubmitStrategy(v) \/ SubmitFunding(v)

(* executeReviewed before its second identity check: the wallet's account, *)
(* the live state behind the review and the budget.                        *)
Guard(v) == view[v].current
SameIdentity(v) == wallet = view[v].plan.account

Check(v) ==
    /\ view[v].op = "submitted"
    /\ Guard(v) /\ SameIdentity(v) /\ StillTrue(view[v].plan)
    /\ view' = [view EXCEPT ![v].op = "checked"]
    /\ UNCHANGED <<flow, wallet, live, disturbed, tx, store, garbled>>

(* The second identity check and the port's last guard.  From here on      *)
(* nobody asks the view again, whatever becomes of it.                     *)
HandOver(v) ==
    /\ view[v].op = "checked"
    /\ Guard(v) /\ SameIdentity(v)
    /\ view' = [view EXCEPT ![v].op = "handed"]
    /\ UNCHANGED <<flow, wallet, live, disturbed, tx, store, garbled>>

(* The wallet's session compares its account again, then opens the prompt. *)
Prompt(v) ==
    /\ view[v].op = "handed"
    /\ SameIdentity(v)
    /\ view' = [view EXCEPT ![v].op = "prompted"]
    /\ UNCHANGED <<flow, wallet, live, disturbed, tx, store, garbled>>

(* The user confirms; the wallet signs for the account of the plan and     *)
(* broadcasts.  Its answer may be lost (a transport error after the        *)
(* broadcast): nobody learns the hash then.                                *)
Sign(v) ==
    /\ view[v].op = "prompted" /\ Len(tx) < MaxTx
    /\ \E answered \in BOOLEAN :
         /\ tx' = Append(tx, [account |-> view[v].plan.account, kind |-> view[v].plan.kind,
                              nonce |-> view[v].plan.nonce, status |-> "pool",
                              kept |-> IF answered THEN "sent" ELSE "lost"])
         /\ view' = [view EXCEPT ![v] =
               IF answered THEN [@ EXCEPT !.op = "sent", !.hash = Len(tx) + 1, !.plan = None, !.review = None]
               ELSE Failed(@)]
    /\ UNCHANGED <<flow, wallet, live, disturbed, store, garbled>>

(* The hash is shown first, then stored; a failing store is not retried    *)
(* and the receipt is not awaited.                                         *)
Persist(v) ==
    /\ view[v].op = "sent"
    /\ LET h == view[v].hash
           shown == IF Mounted(v) THEN h ELSE NoHash
       IN  /\ tx' = [tx EXCEPT ![h].kept = "stored"]
           /\ store' = Others(h) \cup {h}
           /\ garbled' = IF OneSlot THEN garbled \ {tx[h].account} ELSE garbled
           /\ view' = [view EXCEPT ![v].op = "waiting", ![v].pending = shown]
    /\ UNCHANGED <<flow, wallet, live, disturbed>>

(* A plausible fault: like any other failure, it is only shown if the      *)
(* inputs and the account are still those of the submission.               *)
PersistFails_IfCurrent(v) ==
    /\ view[v].op = "sent"
    /\ LET h == view[v].hash IN
       IF Mounted(v)
       THEN /\ tx' = [tx EXCEPT ![h].kept = "failed"]
            /\ view' = [view EXCEPT ![v] = Ended(IF @.current THEN [@ EXCEPT !.pending = h] ELSE @)]
       ELSE /\ tx' = [tx EXCEPT ![h].kept = "lost"]
            /\ view' = [view EXCEPT ![v] = Absent]
    /\ UNCHANGED <<flow, wallet, live, disturbed, store, garbled>>

PersistFails(v) ==
    /\ view[v].op = "sent"
    /\ LET h == view[v].hash IN
       IF Mounted(v)
       THEN /\ tx' = [tx EXCEPT ![h].kept = "failed"]
            /\ view' = [view EXCEPT ![v] = Ended([@ EXCEPT !.pending = h])]
       ELSE /\ tx' = [tx EXCEPT ![h].kept = "lost"]
            /\ view' = [view EXCEPT ![v] = Absent]
    /\ UNCHANGED <<flow, wallet, live, disturbed, store, garbled>>

(***************************************************************************)
(* Track the receipt                                                       *)
(***************************************************************************)
(* Public tracking: any account may resume a pending record.               *)
Track(v) ==
    /\ Idle(v) /\ view[v].pending # NoHash
    /\ Show(v, {[view[v] EXCEPT !.op = "waiting", !.hash = view[v].pending]})

ResumeSwap(v)     == flow = "swap" /\ Track(v)
ResumePayment(v)  == flow = "payment" /\ Track(v)
ResumeInvoice(v)  == flow \in InvoiceFlows /\ Track(v)
ResumeStrategy(v) == flow \in StrategyFlows /\ Track(v)
ResumeFunding(v)  == flow = "funding" /\ Track(v)

Resume(v) ==
    \/ ResumeSwap(v) \/ ResumePayment(v) \/ ResumeInvoice(v)
    \/ ResumeStrategy(v) \/ ResumeFunding(v)

(* What each hook takes for the end of a transaction.  A success has to    *)
(* show the event of the action ("silent" does not), except for a swap's   *)
(* approval and for payments.  The port refuses a replacement that is not  *)
(* a repricing: such a transaction stays in the pool here.                 *)
SwapSettled(t)     == t.status \in {"reverted", "success"} \/ (t.kind = "approval" /\ t.status = "silent")
PaymentSettled(t)  == t.status \in {"reverted", "success", "silent"}
InvoiceSettled(t)  == t.status \in {"reverted", "success"}
StrategySettled(t) == t.status \in {"reverted", "success"}
FundingSettled(t)  == t.status \in {"reverted", "success"}

(* The record goes, and the view shows the next one, if any.               *)
Finish(v, left) ==
    LET h == view[v].hash IN
    /\ tx' = [tx EXCEPT ![h].kept = "cleared"]
    /\ store' = Others(h)
    /\ garbled' = IF OneSlot THEN garbled \ {tx[h].account} ELSE garbled
    /\ \E p \in Pick(left) :
         view' = [view EXCEPT ![v] =
             Ended([@ EXCEPT !.pending = IF Mounted(v) THEN p ELSE NoHash, !.review = None])]
    /\ UNCHANGED <<flow, wallet, live, disturbed>>

Waiting(v) == view[v].op = "waiting"

(* The swap hook goes on with the next saved record of the account.        *)
NextPending(h) ==
    IF Unreadable(tx[h].account) THEN {} ELSE Saved(tx[h].account) \cap Others(h)

FinishSwap(v) ==
    /\ flow = "swap" /\ Waiting(v) /\ SwapSettled(tx[view[v].hash])
    /\ Finish(v, NextPending(view[v].hash))
FinishPayment(v) ==
    flow = "payment" /\ Waiting(v) /\ PaymentSettled(tx[view[v].hash]) /\ Finish(v, {})
FinishInvoice(v) ==
    flow \in InvoiceFlows /\ Waiting(v) /\ InvoiceSettled(tx[view[v].hash]) /\ Finish(v, {})
FinishStrategy(v) ==
    flow \in StrategyFlows /\ Waiting(v) /\ StrategySettled(tx[view[v].hash]) /\ Finish(v, {})
FinishFunding(v) ==
    flow = "funding" /\ Waiting(v) /\ FundingSettled(tx[view[v].hash]) /\ Finish(v, {})

(* Timed out, unreachable, no longer canonical, or not the reviewed action.*)
ReceiptFails(v) ==
    /\ view[v].op = "waiting"
    /\ view' = [view EXCEPT ![v] = Ended(@)]
    /\ UNCHANGED <<flow, wallet, live, disturbed, tx, store, garbled>>

(***************************************************************************)
(* Everything else: the wallet's owner, the chain, other programs          *)
(***************************************************************************)
ChangeWallet ==
    /\ \E a \in Accounts \ {wallet} : wallet' = a
    /\ UNCHANGED <<flow, live, disturbed, tx, store, garbled, view>>

(* The effect of an action that succeeds.                                  *)
Applied(l, kind) ==
    CASE kind = "approval" -> [l EXCEPT !.allowance = "enough"]
      [] kind \in {"reset", "swap"} -> [l EXCEPT !.allowance = "none"]
      [] kind = "payment"  -> [l EXCEPT !.allowance = "none", !.stage = "closed"]
      [] kind = "create"   -> [l EXCEPT !.nonce = @ + 1]
      [] kind \in {"ship", "retire"} -> [l EXCEPT !.stage = "halfway"]
      [] kind \in {"cancel", "activate", "dock", "faucet"} -> [l EXCEPT !.stage = "closed"]

Succeeds(t) == t.kind \in {"approval", "reset"} \/ PlanOf(live[t.account]) = t.kind

Mine(h) ==
    /\ tx[h].status = "pool"
    /\ \E s \in {"success", "silent", "reverted"} :
         /\ s \in {"success", "silent"} => Succeeds(tx[h])
         /\ tx' = [tx EXCEPT ![h].status = s]
         /\ live' = IF s \in {"success", "silent"}
                    THEN [live EXCEPT ![tx[h].account] = Applied(@, tx[h].kind)] ELSE live
    /\ UNCHANGED <<flow, wallet, disturbed, store, garbled, view>>

Undisturbed == disturbed < MaxDisturb /\ Cardinality(Open) = 1

(* Only a maker's plans tell an insufficient allowance from none.           *)
Allowances == {"none", "enough"} \cup IF flow \in StrategyFlows THEN {"some"} ELSE {}

Disturb ==
    /\ Undisturbed
    /\ disturbed' = disturbed + 1
    /\ \E a \in Accounts :
         \E l \in {[live[a] EXCEPT !.allowance = w] : w \in Allowances \ {live[a].allowance}}
                    \cup {[live[a] EXCEPT !.stage = "closed"], [live[a] EXCEPT !.nonce = @ + 1]} :
             live' = [live EXCEPT ![a] = l]
    /\ UNCHANGED <<flow, wallet, tx, store, garbled, view>>

(* Somebody damages a saved record, or saves one that does not decode.     *)
Garble ==
    /\ \E a \in Accounts \ garbled : garbled' = garbled \cup {a}
    /\ Undisturbed
    /\ disturbed' = disturbed + 1
    /\ UNCHANGED <<flow, wallet, live, tx, store, view>>

ViewStep(v) ==
    \/ Mount(v) \/ Rerender(v) \/ StorageEvent(v) \/ Lapse(v) \/ Unmount(v) \/ Close(v)
    \/ EditSwap(v) \/ EditPayment(v) \/ EditInvoice(v) \/ EditStrategy(v)
    \/ Prepare(v) \/ Prepared(v) \/ Fail(v) \/ Submit(v) \/ Check(v)
    \/ HandOver(v) \/ Prompt(v) \/ Sign(v)
    \/ Persist(v) \/ PersistFails(v) \/ Resume(v) \/ ReceiptFails(v)
    \/ FinishSwap(v) \/ FinishPayment(v) \/ FinishInvoice(v) \/ FinishStrategy(v)
    \/ FinishFunding(v)

Next ==
    \/ \E v \in Views : ViewStep(v)
    \/ \E h \in Hash : Mine(h)
    \/ ChangeWallet \/ Disturb \/ Garble

Spec == Init /\ [][Next]_vars

(***************************************************************************)
(* Properties                                                              *)
(***************************************************************************)
(* A stored hash stays in localStorage until its own receipt is taken:     *)
(* another tab, another account or another record never overwrites or      *)
(* removes it (useSwapExecution.ts:59, usePayment.ts:37).                  *)
RecordSurvives == \A h \in Hash : tx[h].kept = "stored" => h \in store

(* The same for the hooks that give every hash a key of its own.           *)
HashKeyedRecordSurvives == ~OneSlot => RecordSurvives

(* When storing fails, the view that got the hash keeps showing it: it is  *)
(* never replaced by a saved record of another account or a new review     *)
(* (execution.ts:48).  The funding hook starts over with its scope.        *)
UnstoredHashIsShown ==
    flow # "funding" =>
        \A h \in Hash : tx[h].kept = "failed" => \E v \in Views : Mounted(v) /\ view[v].pending = h

(* The swap hook reads its records before every submission, so the records *)
(* and submissions of one account that are open together were all begun    *)
(* before the first of them was stored: never more than there are views,   *)
(* though views change account or go while the wallet's prompt is open.    *)
SwapBacklogBounded ==
    flow = "swap" =>
        \A a \in Accounts :
            Cardinality(Saved(a)) +
            Cardinality({v \in Views : \/ view[v].plan # None /\ view[v].plan.account = a
                                       \/ view[v].op = "sent" /\ tx[view[v].hash].account = a})
                <= Cardinality(Open)

(* A page never offers one thing and has another signed: the review on     *)
(* display is for the account the page shows, and from the submission to   *)
(* the wallet's answer it is the plan being signed, or there is none       *)
(* because inputs or account changed meanwhile.  The prompt itself stays   *)
(* open then (transactionPort.ts:35, no guard comes after it).             *)
ShownReviewIsSigned ==
    \A v \in Views : view[v].review # None =>
        /\ view[v].review.account = view[v].ctx
        /\ view[v].plan \in {None, view[v].review}
=============================================================================
