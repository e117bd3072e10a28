----------------------------- MODULE Deployment -----------------------------
(***************************************************************************)
(* Deployment to Arc (scripts/lib/arc-deployment.mjs): a plan of           *)
(* transactions at consecutive nonces, the last of which renounces the     *)
(* router, its journal on disk, the wallet page that has them signed       *)
(* (scripts/arc-wallet-server.mjs) in browser tabs that share a saved      *)
(* attempt, and the activation of the result.                              *)
(*                                                                         *)
(* Handlers of the utility run one at a time, in its queue and under the   *)
(* lock file of the plan; each is an action, and Killed* are the utility   *)
(* being killed in one: what it had saved stays.  The chain is final: what *)
(* is mined stays mined.  Abstracted: bytecode, addresses and getters (a   *)
(* step's transaction does what the step says), gas and fees (a quote is a *)
(* value), balances and base fee (any status may be blocked), every tab's  *)
(* connected wallet, and browser storage that fails.                       *)
(***************************************************************************)
EXTENDS Naturals, Sequences, FiniteSets, SequencesExt

CONSTANTS
  Tabs, Teams,      \* tabs of the page; which of them a person may use
  Kept,             \* the tab that HashIsFollowed is about
  Steps,            \* transactions of the plan
  Quotes,           \* by step, values that tell two reviews of it apart
  MaxNonce,         \* bound: transactions the chain mines for the deployer
  PromptEvents,     \* a tab handles a storage event before anything else
  None

\* Transactions, answers of the utility and saved attempts.
Txs == [step : 0 .. Steps, quote : (UNION {Quotes[k] : k \in 0 .. Steps - 1}) \cup {None}]
Answers == [phase : {"blocked", "pending", "complete", "ready"}, confirmed : 0 .. Steps,
            pending : Txs \cup {None}, next : Txs \cup {None}]
Attempts == [confirmed : 0 .. Steps + 1, hash : Txs \cup {None}]

ASSUME DeploymentAssumption ==
  /\ Teams \subseteq SUBSET Tabs /\ Kept \in Tabs
  /\ Steps \in Nat \ {0} /\ MaxNonce \in Nat /\ PromptEvents \in BOOLEAN
  /\ None \notin Txs \cup Answers \cup Attempts

VARIABLES
  tabs,             \* the tabs the person may have open
  mined, sent,      \* transactions of the deployer: by nonce, from the plan's first; broadcast
  requests,         \* of the wallet, open: <<tab, transaction>>
  journal,          \* state.json: confirmed, pending, review
  files,            \* published: a set of "report", "manifest"
  serving,          \* the application runs on the deployment
  csrf,             \* tabs whose page has the token of the utility that runs
  store,            \* the attempt in local storage
  view, attempt,    \* by tab: the last status, None if it is closed; the attempt in memory
  refresher, sender \* by tab: where refresh and sendLocked (or recover) are

chain == <<mined, sent, requests>>
disk == <<journal, files>>
page == <<store, view, attempt, refresher, sender>>
vars == <<tabs, csrf, chain, disk, serving, page>>

Other == [step |-> Steps, quote |-> None]    \* a transaction that is not of the plan
Unknown == Steps + 1                         \* "confirmed" of an attempt without one

Idle == [at |-> "idle"]
Posting == {"post", "recover"}
NoJournal == [confirmed |-> <<>>, pending |-> None, review |-> None]

Init ==
  /\ tabs \in Teams
  /\ mined = <<>> /\ sent = {} /\ requests = {}
  /\ journal = NoJournal /\ files = {}
  /\ serving = FALSE /\ csrf = {}
  /\ store = None
  /\ view = [t \in Tabs |-> None] /\ attempt = [t \in Tabs |-> None]
  /\ refresher = [t \in Tabs |-> Idle] /\ sender = [t \in Tabs |-> Idle]

-----------------------------------------------------------------------------
(* The plan, prepared once and never overwritten, and its journal.         *)

Mined(tx) ==
  /\ Len(mined) > tx.step
  /\ mined[tx.step + 1] = tx

\* The transaction is the one that was reviewed.
Valid(tx, j) == tx = j.review /\ tx.step = Len(j.confirmed)

Complete(j) == Len(j.confirmed) = Steps /\ j.pending = None

Refreshed(j) ==
  IF j.pending # None /\ Valid(j.pending, j) /\ Mined(j.pending)
  THEN [confirmed |-> Append(j.confirmed, j.pending), pending |-> None, review |-> None]
  ELSE j

Answer(j, phase, next) ==
  [phase |-> phase, confirmed |-> Len(j.confirmed), pending |-> j.pending, next |-> next]

\* A plausible fault: each status estimates the gas anew.
Reviews_Anew(j) ==
  {[j EXCEPT !.review = [step |-> Len(j.confirmed), quote |-> q]] : q \in Quotes[Len(j.confirmed)]}

\* A saved review is never replaced: a tab or the wallet may be signing it.
Reviews(j) ==
  IF j.review # None THEN {j}
  ELSE {[j EXCEPT !.review = [step |-> Len(j.confirmed), quote |-> q]] : q \in Quotes[Len(j.confirmed)]}

\* The journals and answers getArcStatus may end with: the RPC may fail it, or
\* preflight block it, before or after it has refreshed the journal.
Blocked == {<<j, Answer(j, "blocked", None)>> : j \in {journal, Refreshed(journal)}}
Verified ==
  LET j == Refreshed(journal) IN
  IF j.pending # None THEN {<<j, Answer(j, "pending", None)>>}
  ELSE IF Complete(j) THEN {<<j, Answer(j, "complete", None)>>}
  ELSE IF Len(mined) # Len(j.confirmed) THEN {<<j, Answer(j, "blocked", None)>>}
  ELSE {<<k, Answer(k, "ready", k.review)>> : k \in Reviews(j)}

\* The journals recordArcTransaction saves for a hash, in order, if it accepts it;
\* a transaction the RPC cannot see yet is not validated.
Accepts(tx) ==
  /\ journal.pending \in {None, tx}
  /\ journal.review # None /\ journal.review.step = Len(journal.confirmed)
Tracked(tx) == [journal EXCEPT !.pending = tx]
Recorded(tx) ==
  IF tx \in Range(journal.confirmed) THEN {journal}
  ELSE {j \in {Refreshed(Tracked(tx))} : Accepts(tx) /\ Valid(tx, journal)}
         \cup {j \in {Tracked(tx)} : Accepts(tx)}

\* A plausible fault: the manifest, which enables the application, first.
Publication_ManifestFirst == <<"manifest", "report">>
Publication == <<"report", "manifest">>

\* Activation and the application's start verify the journal and every receipt.
VerifiedCompletion(j) ==
  /\ Complete(j)
  /\ \A i \in 1 .. Steps : Mined(j.confirmed[i])

-----------------------------------------------------------------------------
(* The utility is killed in a handler, or between two.  It goes on when a   *)
(* person has removed the lock file and has started it again, with a new   *)
(* token: pages it served before read on, but every POST of theirs is      *)
(* refused until they are reloaded.                                        *)

Killed(j, published) ==
  /\ journal' = j /\ files' = published
  /\ csrf' = {}
  /\ UNCHANGED <<tabs, chain, serving, page>>

KilledInStatus == \E o \in Blocked \cup Verified : Killed(o[1], files)

KilledInRecord ==
  \E t \in Tabs : \E f \in {refresher[t], sender[t]} :
    /\ t \in csrf /\ f.at \in Posting
    /\ \E j \in {journal} \cup Recorded(f.hash) : Killed(j, files)

-----------------------------------------------------------------------------
(* The page.                                                               *)

\* The tab runs, and has handled the storage events there are.
Runs(t) == t \in tabs /\ (PromptEvents /\ view[t] # None => attempt[t] = store)

\* A prompt of its wallet may stay open, or go with it.
Close(t) ==
  /\ view[t] # None
  /\ view' = [view EXCEPT ![t] = None] /\ attempt' = [attempt EXCEPT ![t] = None]
  /\ refresher' = [refresher EXCEPT ![t] = Idle] /\ sender' = [sender EXCEPT ![t] = Idle]
  /\ requests' \in {requests, {r \in requests : r[1] # t}}
  /\ csrf' = csrf \ {t}
  /\ UNCHANGED <<tabs, mined, sent, disk, serving, store>>

StorageEvent(t) ==
  /\ view[t] # None /\ attempt[t] # store
  /\ attempt' = [attempt EXCEPT ![t] = store]
  /\ UNCHANGED <<tabs, csrf, chain, disk, serving, store, view, refresher, sender>>

Saves(t, a) == store' = a /\ attempt' = [attempt EXCEPT ![t] = a]

\* GET /api/status of the tab, answered with one of these outcomes.
Status(t, outcomes, o) ==
  /\ Runs(t)
  /\ o \in outcomes
  /\ journal' = o[1]
  /\ UNCHANGED <<tabs, chain, files, serving>>

\* A plausible fault: only the tab that sent a transaction posts its hash.
Reposts_Not(a, answer) == FALSE

\* A saved hash is posted again after a reload or an interrupted post.
Reposts(a, answer) ==
  /\ a # None /\ a.hash # None
  /\ answer.pending = None /\ answer.phase # "complete"

Over(a, answer) == a # None /\ answer.confirmed > a.confirmed

\* The first answer loads the page.  An answer is handled as it is given:
\* handled later, it would leave no staler a view.
Refresh(t, outcomes) ==
  /\ refresher[t].at = "idle"
  /\ \E o \in outcomes :
       /\ Status(t, outcomes, o)
       /\ view' = [view EXCEPT ![t] = o[2]]
       /\ LET loaded == IF view[t] = None THEN store ELSE attempt[t]
              a == IF Over(loaded, o[2]) THEN None ELSE loaded
          IN  /\ store' = IF Over(loaded, o[2]) THEN None ELSE store
              /\ attempt' = [attempt EXCEPT ![t] = a]
              /\ refresher' = [refresher EXCEPT ![t] =
                   IF Reposts(a, o[2]) THEN [at |-> "post", hash |-> a.hash] ELSE Idle]
  /\ csrf' = IF view[t] = None THEN csrf \cup {t} ELSE csrf
  /\ UNCHANGED sender

\* What the page repeats by itself, while it sends nothing and until the end.
Poll(t, outcomes) ==
  /\ view[t] # None /\ view[t].phase # "complete" /\ sender[t] = Idle
  /\ Refresh(t, outcomes)

\* POST /api/transaction, if it has the token and the hash is recorded.
Posts(t, f) ==
  /\ t \in csrf /\ f.at \in Posting
  /\ journal' \in Recorded(f.hash)
  /\ UNCHANGED <<tabs, csrf, chain, files, serving, store, view, attempt>>

RefreshPosts(t) ==
  /\ Runs(t) /\ Posts(t, refresher[t])
  /\ refresher' = [refresher EXCEPT ![t] = [at |-> "again"]]
  /\ UNCHANGED sender

RefreshAgain(t, outcomes) ==
  /\ refresher[t].at = "again"
  /\ \E o \in outcomes :
       /\ Status(t, outcomes, o)
       /\ view' = [view EXCEPT ![t] = o[2]]
       /\ IF Over(attempt[t], o[2]) THEN Saves(t, None) ELSE UNCHANGED <<store, attempt>>
  /\ refresher' = [refresher EXCEPT ![t] = Idle]
  /\ UNCHANGED <<csrf, sender>>

\* The utility stopped or refuses the token or the hash, or the RPC failed it.
RefreshFails(t) ==
  /\ Runs(t) /\ refresher[t].at \in {"post", "again"}
  /\ refresher' = [refresher EXCEPT ![t] = Idle]
  /\ UNCHANGED <<tabs, csrf, chain, disk, serving, store, view, attempt, sender>>

-----------------------------------------------------------------------------
(* sendLocked: only one tab holds the browser's lock while it runs.        *)

HoldsLock(t) == sender[t].at \in {"status", "identity", "prompt", "answered", "post"}

SendAsks(t) ==
  /\ sender[t] = Idle /\ \A u \in Tabs : ~HoldsLock(u)
  /\ view[t] # None /\ view[t].phase = "ready" /\ attempt[t] = None
  /\ \E o \in Blocked \cup Verified :
       /\ Status(t, Blocked \cup Verified, o)
       /\ sender' = [sender EXCEPT ![t] =
            [at |-> "status", reviewed |-> view[t].next, got |-> o[2]]]
  /\ UNCHANGED <<csrf, store, view, attempt, refresher>>

\* The status and the attempt are read again, and must be what the person saw.
SendGets(t) ==
  /\ Runs(t) /\ sender[t].at = "status"
  /\ LET answer == sender[t].got IN
     /\ view' = [view EXCEPT ![t] = answer]
     /\ attempt' = [attempt EXCEPT ![t] = store]
     /\ sender' = [sender EXCEPT ![t] =
          IF store = None /\ answer.phase = "ready" /\ answer.next = sender[t].reviewed
          THEN [at |-> "identity"] ELSE Idle]
  /\ UNCHANGED <<tabs, csrf, chain, disk, serving, store, refresher>>

\* A plausible fault: the attempt is saved once the wallet has answered.
SavedBeforePrompt_Not(t) == UNCHANGED <<store, attempt>>

\* The attempt is saved before the wallet is asked.
SavedBeforePrompt(t) == Saves(t, [confirmed |-> view[t].confirmed, hash |-> None])

\* Once the wallet has shown account and network, it is asked to send what the
\* view then holds.  Fails: another account or network, or no transaction now.
SendPrompts(t) ==
  /\ Runs(t) /\ sender[t].at = "identity"
  /\ \/ /\ sender' = [sender EXCEPT ![t] = Idle]
        /\ UNCHANGED <<requests, store, attempt>>
     \/ /\ view[t].next # None
        /\ SavedBeforePrompt(t)
        /\ requests' = requests \cup {<<t, view[t].next>>}
        /\ sender' = [sender EXCEPT ![t] = [at |-> "prompt"]]
  /\ UNCHANGED <<tabs, csrf, mined, sent, disk, serving, view, refresher>>

Minable(tx) == tx.step = Len(mined)

\* What becomes of the tab that asked, if it is still there.
Answered(t, state) == sender' = IF sender[t].at = "prompt" THEN [sender EXCEPT ![t] = state] ELSE sender

WalletSends(r) ==
  /\ r \in requests /\ Minable(r[2])
  /\ requests' = requests \ {r} /\ sent' = sent \cup {r[2]}
  /\ Answered(r[1], [at |-> "answered", hash |-> r[2]])
  /\ UNCHANGED <<tabs, csrf, mined, disk, serving, store, view, attempt, refresher>>

\* Only a rejection by the person (4001) clears the attempt.
WalletRejects(r) ==
  /\ r \in requests
  /\ requests' = requests \ {r}
  /\ Answered(r[1], Idle)
  /\ IF sender[r[1]].at = "prompt" THEN Saves(r[1], None) ELSE UNCHANGED <<store, attempt>>
  /\ UNCHANGED <<tabs, csrf, mined, sent, disk, serving, view, refresher>>

\* Any other error; the transaction may have been sent all the same.
WalletFails(r) ==
  /\ r \in requests
  /\ requests' = requests \ {r}
  /\ sent' \in {sent} \cup {sent \cup {tx} : tx \in {u \in {r[2]} : Minable(u)}}
  /\ Answered(r[1], Idle)
  /\ UNCHANGED <<tabs, csrf, mined, disk, serving, store, view, attempt, refresher>>

\* The hash is saved with the attempt before it is posted.
SendStores(t) ==
  /\ Runs(t) /\ sender[t].at = "answered"
  /\ LET hash == sender[t].hash IN
     /\ Saves(t, IF attempt[t] = None THEN [confirmed |-> Unknown, hash |-> hash]
                 ELSE [attempt[t] EXCEPT !.hash = hash])
     /\ sender' = [sender EXCEPT ![t] = [at |-> "post", hash |-> hash]]
  /\ UNCHANGED <<tabs, csrf, chain, disk, serving, view, refresher>>

\* A person pastes the hash that the wallet shows for the request.
Recover(t) ==
  /\ Runs(t) /\ sender[t] = Idle
  /\ view[t] # None /\ view[t].pending = None /\ attempt[t] # None
  /\ LET confirmed == IF attempt[t].confirmed = Unknown THEN view[t].confirmed
                      ELSE attempt[t].confirmed
     IN  \E tx \in sent :
           /\ tx.step = confirmed
           /\ Saves(t, [confirmed |-> confirmed, hash |-> tx])
           /\ sender' = [sender EXCEPT ![t] = [at |-> "recover", hash |-> tx]]
  /\ UNCHANGED <<tabs, csrf, chain, disk, serving, view, refresher>>

SenderPosts(t) ==
  /\ Runs(t) /\ Posts(t, sender[t])
  /\ sender' = [sender EXCEPT ![t] = Idle]
  /\ UNCHANGED refresher

SenderFails(t) ==
  /\ Runs(t) /\ sender[t].at \in Posting
  /\ sender' = [sender EXCEPT ![t] = Idle]
  /\ UNCHANGED <<tabs, csrf, chain, disk, serving, store, view, attempt, refresher>>

-----------------------------------------------------------------------------
(* Activation, the application's start and the chain.                      *)

\* POST /api/activate of the tab is accepted.
Activates(t) ==
  /\ Runs(t) /\ t \in csrf /\ sender[t] = Idle
  /\ view[t] # None /\ view[t].phase = "complete" /\ attempt[t] = None
  /\ VerifiedCompletion(Refreshed(journal))

Activate(t) ==
  /\ Activates(t)
  /\ journal' = Refreshed(journal) /\ files' = Range(Publication)
  /\ UNCHANGED <<tabs, csrf, chain, serving, page>>

KilledInActivation ==
  /\ \E t \in Tabs : Activates(t)
  /\ \E n \in 0 .. 1 : Killed(Refreshed(journal), files \cup Range(SubSeq(Publication, 1, n)))

\* verify-active reads only; a tester may skip it.
VerifiedActive == "report" \in files /\ VerifiedCompletion(journal)

Serve(skipped) ==
  /\ ~serving
  /\ "manifest" \in files
  /\ skipped \/ VerifiedActive
  /\ serving' = TRUE
  /\ UNCHANGED <<tabs, csrf, chain, disk, page>>

Mines(tx) ==
  /\ Len(mined) < MaxNonce
  /\ mined' = Append(mined, tx)
  /\ UNCHANGED <<tabs, csrf, sent, requests, disk, serving, page>>

MineSent == \E tx \in sent : Minable(tx) /\ Mines(tx)

-----------------------------------------------------------------------------

Next ==
  \/ KilledInStatus \/ KilledInRecord \/ KilledInActivation
  \/ MineSent \/ Mines(Other)
  \/ \E skipped \in BOOLEAN : Serve(skipped)
  \/ \E r \in requests : WalletSends(r) \/ WalletRejects(r) \/ WalletFails(r)
  \/ \E t \in Tabs :
       \/ Close(t) \/ StorageEvent(t)
       \/ Refresh(t, Blocked \cup Verified)
       \/ RefreshPosts(t) \/ RefreshAgain(t, Blocked \cup Verified) \/ RefreshFails(t)
       \/ SendAsks(t) \/ SendGets(t) \/ SendPrompts(t) \/ SendStores(t)
       \/ Recover(t) \/ SenderPosts(t) \/ SenderFails(t) \/ Activate(t)

Spec == Init /\ [][Next]_vars

\* The chain mines what it can.  Of one tab: the browser tells it what another
\* stored; its polls, and its posts while its token is good, are answered now
\* and then.  Nobody has to open a tab, to reload it or to start the utility.
Fairness ==
  /\ WF_vars(MineSent)
  /\ WF_vars(StorageEvent(Kept))
  /\ SF_vars(Poll(Kept, Verified) \/ RefreshAgain(Kept, Verified))
  /\ SF_vars(RefreshPosts(Kept))

FairSpec == Spec /\ Fairness

-----------------------------------------------------------------------------
(* Properties.                                                             *)

\* A transaction the wallet may sign or the chain may mine for the plan is the
\* saved review, whatever was killed or closed since the person saw it; so its
\* receipt will be accepted.
SignedIsReviewed ==
  \A tx \in sent \cup {r[2] : r \in requests} : Minable(tx) => tx = journal.review

\* No tab asks the wallet for a step while another request of it is open or
\* after its transaction may have been sent.
NeverAskedTwice ==
  \A k \in 0 .. Steps - 1 :
    Cardinality({r \in requests : r[2].step = k}) + Cardinality({tx \in sent : tx.step = k}) <= 1

\* The manifest is published, and the application runs on it, only after the
\* whole plan is mined at its nonces and the report is written: even if the
\* utility is killed while it publishes, verify-active does not fail ever after.
ActiveIsVerified == "manifest" \in files \/ serving => VerifiedActive

\* The utility served the tab and is not killed any more, the tab stays open, and
\* what it sends comes to an end: the wallet answers.
Stays(t) == <>[](t \in csrf) /\ []<>(sender[t] = Idle)

\* Whatever posts were lost, whatever was closed or killed before, one tab that
\* stays is enough: a saved hash, of this tab or of another, is followed until
\* its step is confirmed, unless its nonce went to a transaction that is not of
\* the plan.
HashIsFollowed ==
  Stays(Kept) =>
    \A k \in 0 .. Steps - 1 :
      (store # None /\ store.hash # None /\ store.hash.step = k)
        ~> (Len(journal.confirmed) > k \/ Other \in Range(mined))
=============================================================================
