# Verification of Aqua Orbital

TLA+ models of this repository: the payments contract and the router's swap
settlement, the event indexer with its database, the API's quotes, reads and
event stream, the search behind a payment quote, the web application's pages and
its review, signature and tracking of transactions, and the utility that deploys
the contracts. TLC checks them on small instances; TLAPS proves the refinements and
every safety property that a passing run checks for every value of the constants.

    tlc -workers 2 -config MCPayments.cfg MCPayments.tla      # and so on, see "Runs"
    tlapm PaymentsProofs.tla                              # and each other *Proofs.tla

## 1. The system

A maker keeps tokens in a wallet and allocates them, through the *Aqua* ledger,
to *strategies*. A strategy is activated at the *router*, which prices swaps on
a curve certified on-chain. A merchant creates an invoice in *OrbitalPayments*;
a payer settles it in USDC, or in another token through one swap at the router.
The contracts emit logs. The *indexer* follows the chain and writes blocks, logs
and derived rows to PostgreSQL, and NOTIFYs its commits. The *API* answers
queries and quotes from the database and the RPC node, and forwards the
notifications on `/events`. The *SDK* and the *web* application prepare a review
of a transaction, hand it to the wallet, and track its receipt.

Paths are relative to `src/`; `contracts` is `packages/contracts/src`.

| Component | State it keeps | Operations | Hard part |
|---|---|---|---|
| `contracts/OrbitalPayments.sol` | invoices, merchant nonces, reentrancy guard; balances and allowances in tokens | create, cancel, payWithUSDC, payWithSwap | every token call may run foreign code; taxed tokens; aliasing accounts; rounding |
| `contracts/OrbitalSwapVMRouter.sol`, `libraries/OrbitalStorage.sol`, `OrbitalSettlement.sol`, `StrategyInitializer.sol`, `OrbitalOrderCodec.sol` | strategies (principal, fees, surplus, version), nonces, guard, pending crossings, snapshot | activate, retire, swap | three ledgers (wallets, Aqua, principal and fees) have to agree while transfers run foreign code |
| Aqua (vendored) | allocation and token count of an entry | ship, dock, push, pull | the maker may dock, anybody may push, at any time |
| curve mathematics (`libraries/*`) | none | pure | budgets, bracketing, order of tick crossings, 512-bit arithmetic |
| `apps/indexer/src`, `packages/db/src` | blocks, logs, projections, coverage and cursors by deployment, resync latch | scan and roll back, backfill receipts, index a batch | reorganisations between two reads, several workers and deployments on the same rows, crashes between commits |
| `apps/api/src/event-stream.ts`, `postgres-events.ts` | streams, subscribers, one LISTEN connection | request, deliver, close, lose the connection, shut down | everything can change in an await; notifications are lost with the connection |
| `apps/api/src/runtime.ts`, `quote-*.ts`, `payment-*.ts`, `readiness.ts`, metrics and reads | RPC weight, quote places, quote cache | quote, payment quote, readiness, metrics, invoices, strategies | admission and release around timeouts; database, node, database reads that must belong together; a cache under a clock that steps |
| `apps/api/src/payment-search.ts`, `payment-validation.ts` | none that outlives a call | the search for an input that pays | doubling and halving under three budgets, rounding, the domain's edges |
| `packages/sdk/src/execution.ts`, `*-review.ts`, `plans.ts`; `apps/web/src/features/use*.ts`, `wallet/*` | review, pending record in localStorage | review, send, persist, await receipt, resume | several tabs, closed pages, lost answers, stale reviews |
| `apps/web/src`: query client, quote hooks, lists, balances | one observation by page and context | fetch, retry, refresh, poll, expire, page through a list, Max | late answers of another context, expiry, rollbacks between two pages of a list |
| `scripts/lib/arc-deployment.mjs`, `arc-wallet-server.mjs` | a plan's journal, report and manifest on disk; the token of the process that serves the page; a tab's attempt in localStorage | status, record a hash, activate, serve | kills between two files, pages of an earlier process, several tabs, lost posts, rejections |
| views, static pages, codecs, schemas, local scripts, python oracle | none that outlives a call | | |

Interaction: the contracts call each other synchronously (payments → router →
Aqua → tokens); the indexer reads the chain through an RPC node that may change
its mind between two reads; the indexer's workers meet in PostgreSQL under one
advisory lock for each chain; the API meets the indexer in the database and in
NOTIFY; the pages ask the API and the wallet; tabs of a browser meet in
localStorage; the deployment utility meets its tabs over HTTP and the chain over
RPC.

What makes each component correct:

* Payments: an invoice is paid at most once, before its expiry, to the last
  unit; a reverted payment leaves no trace; donations stay apart; the contract
  never blocks an honest payment.
* Router: allocations equal principal, fees, surplus and gifts; nothing is left
  in the router; a version names one state; honest swaps settle.
* Indexer: readers see exactly one chain's logs from the start to the cursor and
  complete histories; rollbacks and resyncs are justified; it catches up.
* Event stream: nothing leaks, the capacity holds, and no client stays
  connected without hearing of a commit.
* API: capacities hold and come back whatever times out; an answer is of one
  canonical, indexed block; nothing cached outlives its age or a clear.
* Payment search: it stays within its budgets and its conclusion is true of what
  it tried.
* Execution: a hash that was sent is recorded or on screen until its receipt,
  and a page never offers one review while another of its reviews is signed.
* Pages: what is shown as current is of the present context and unexpired; a walk
  through a list shows a row once; a page left alone recovers.
* Deployment: only the saved review is signed, once; one page that stays open and
  is not refused follows its hash; what is published is verified.

## 2. Modules

### Payments, InvoiceBook, PaymentsProofs

`InvoiceBook` is what a merchant believes: create, cancel and pay are single
steps. `Payments` is the contract. A payment is cut at every external call:

| Action | Code |
|---|---|
| `CreateInvoice`, `CancelInvoice` | `createInvoice`, `cancelInvoice` |
| `PayWithUSDC`, `PayWithSwap` (both `Begin`) | `guarded`, `_begin`, the route's guards, the balances noted first |
| `Pull`, `AcceptPull` | `safeTransferFrom` and the two comparisons after it |
| `RouterSwap`, `AcceptSwap` | `ROUTER.swap`, `forceApprove(0)` and the comparison with what came |
| `Send`, `AcceptSend` | one `_send`: the transfer, the two comparisons |
| `Finish` | receipt, status and the last checks |
| `Revert` | any failed check and anything else that reverts: back to `saved` |
| `Move`, `Tick` | other accounts' transfers, also inside a token call; block time |

A token debits `n` or `n + 1` and credits `n` or `n - 1`. `settled` and
`donated` are history variables: by how much each invoice changed the balances
it names, and what was sent to the contract outside a payment. `CreateInvoice`,
`CancelInvoice` and another payment inside a token call fail on `entered`,
which is a guard of theirs and not of `Move`. The router is what its own
settlement promises (exact input and output, or a revert).

### Router, RouterProofs

The router, its settlement and Aqua's ledger for it. A swap is `Begin` (all of
it up to the first transfer), `TakerPays`, `AquaPush`, `AquaPull`, `Finish`.
Between those, and between swaps, `Ship`, `Dock`, `Push` (which Aqua lets the maker
do too) and `Move` are other accounts' calls and code of tokens. Principal is kept in internal units, `Scale`
of them to a raw one (10^(18-decimals) 2^64 in the code), allocations and fees
in raw units. The curve is abstract: `Solve` allows every payout that the
output principal can bear, which contains what the certificate allows, so the
accounting properties do not depend on the mathematics. Left out: decoding of
orders, deadline and threshold (a `Revert`), the maker's allowance to Aqua, the
tokens' `decimals()` calls, the keys of crossed ticks (only that they are
pending), `quote()` and the getters. `Init` is after `renounceOwnership`; the
token list is fixed.

### Indexer, LogFollower, IndexerProofs

`LogFollower` is the promise: what a deployment's readers see are the logs of
its contracts on one branch up to a top block; the top goes up or down one
branch, never sideways. `Indexer` is `syncDeploymentOnce` run in a loop by
several workers, against one database. A step is one RPC read or one database
transaction:

| Actions | Code |
|---|---|
| `Snapshot`, `ReadCursor`, `ReadHead` | `indexerSnapshot`, `deploymentCursor`, the head |
| `Scan`, `RecheckTop`, `Reconcile` | the descending header scan, its recheck, `reconcileCanonicalChain` with its rollback and its resync latch |
| `ReadPending`, `CheckPending`, `CommitBackfill` | `pendingSwapBackfill`, the two header reads, `atomicSwapBackfill` |
| `Plan`, `ReadHeader`, `ReadLogs`, `Hydrate`, `CheckTip` | the batch of new blocks, its logs, the configurations of activated strategies read at their block, the last look at the tip |
| `CommitEmpty`, `CommitBlock` | `atomicEmptyDeploymentBlocks` for a run without logs, `atomicDeploymentBlock` for one block with logs and projections |
| `Fail`, `Switch` | crash, RPC or database error; a reorganisation or growth of the chain |

The chain is a fixed tree with one canonical branch; a block stands for its
hash. Header reads are one by one although the code groups eight: the finer
steps contain the coarser ones. `ReadPending` takes the three pool queries of
`pendingSwapBackfill` as one; a commit in between changes what is backfilled in
vain and nothing else, since `atomicSwapBackfill` reads the rows again under the
lock and `CommitBackfill` compares them. A projection is an event and the version it
leaves; `Fits` is what `swapEvent`, `strategyEvent` and `invoiceEvent` demand of
the row they continue. There is one strategy for each router and one invoice for
each payments contract. What the chain says in a log's data is taken as valid.
Rows from before swap receipts always have the snapshot of their activation, so
the backfill's `ACTIVATION_CONFIG_MISMATCH` cannot occur and is left out, as are
NOTIFY (see EventStream), several logs of an emitter in one block, and
`syncOnce`/`atomicBlock`, which only tests call. Production RPC offers
`getLogsRange`, hence `ByRange = TRUE`.

### EventStream, EventStreamProofs

`registerEventStream` over `PostgresNotifications`. JavaScript runs to its next
await, so a step is the code between two awaits or one callback: `Request`,
`FirstReady`, `Connect`/`ConnectFails`, `Read`, `Decide`; `Deliver`, `Lost`,
`Disconnect`, `Shutdown`; outside them `Commit` and `Break`. `Read` is the last
database read of the second `checkReadiness`; its answer is used only in
`Decide`. `version` counts commits and `seen[r]` is what the client of `r` has
been told. A client reads everything anew on any frame, so a frame tells of all
commits before it, although the block number in the first frame may be older;
the repository has no client of `/events` to look at, this is the contract that
postgres-events.ts:34-35 states. `checkReadiness` does not throw. A heartbeat
that meets a full buffer is a `Disconnect`. Headers, the forced close 500 ms
after `end()`, and notifications of other chains are left out.

### Api, QuoteCache, ApiProofs

`QuoteCache` has the operations of quote-cache.ts as functions from a cache to
the next; a cache is the set of its entries, each with the turn in which it was
put, which stands for the order of the `Map`. `Api` runs requests for swap quotes, payment quotes by swap, direct and
of an invoice that is not there, readiness, metrics, invoices and strategies
over one runtime. A service is the sequence of its database and RPC reads; one
action takes the result of a read, checks it and begins the next, as the code
does between two awaits. Around the requests are the node (which grows, and
changes its branch), the indexer (which follows it or latches a resync), the
clock (which may step back), deadlines (`QuoteGivesUp`, `ReaderGivesUp`), reads
that outlive their request (`DatabaseSettles`, `RpcSettles`) and the server's
close. `rpc` is the counter of RPC weight, `held` what each request holds of it,
`places` the quotes' places and `reading` the requests whose database read is
under way, also after they were answered. Data is abstracted to the block it
was read at. Left out: the rate limiter (quote-http.ts:8-21), shipments (the
shape of strategies), the three attempts inside one RPC read, eviction by bytes,
and ages and expiries as numbers, which are among the checks that may fail.

### PaymentSearch, QuoteProofs

The pure algorithm of a payment quote: `Fund` (payment-validation.ts and the
domain of inputs), `Inspect` (route-selection.ts, with the charge for each batch
of strategies), `Expand` and `Refine` (doubling from the first input, halving
below the first that pays), `RecheckContext` (the final stage and the second
inspection). Nothing is assumed of the answers: each stage is sufficient or not,
also against a monotone curve. The numbers are those of the code: 14 stages, 32
strategies, 9 eligible, 44 batches. The last is met exactly in the worst case
(12 batches of inspection, 28 of quotes, 4 at the end). Which strategy wins a
stage and its output are abstracted to whether one delivers enough.

### Execution, ExecutionProofs

The hooks of the eight actions (swap, payment, creating and cancelling an
invoice, publishing, approving and deactivating a strategy, the faucet), the
ports of `wallet/` and `executeReviewed`. `flow` says which action a behaviour is
about. An await is a step boundary: `Prepare` and `Prepared`, `Submit`, the second
observation `Check`, `HandOver` (the last guards of the view and of the port, then
`wallet.send`), `Prompt` (the wallet's session has compared its own account and
asks the user), `Sign`, `Persist` or `PersistFails`, `Resume`, the receipt
(`Finish...`, `ReceiptFails`), and between any two of them a changed account
(`Rerender`), changed inputs (`Edit...`), a closed or unmounted page, an answer
lost after the broadcast, storage that fails or holds a record that does not
decode, a record of another tab, and changes of the chain by others.

No guard of the view follows transactionPort.ts:35. A prompt that was opened
before the view changes account, drops its review or is gone may still be
confirmed, and what it asks for is broadcast; so `plan`, what was submitted, is
kept apart from `review`, what is on display, and `Sign` has no guard of the page.
What the code does guarantee then is `ShownReviewIsSigned` (while a submission is
out the page offers that review or none: a new one cannot be prepared) and that
the hash which comes back is recorded or shown like any other. `tx[h].kept` says what became of a hash: sent, stored, failed to store,
lost or done. Numbers, gas, quotes and expiries of the builders make a check
fail (`Fail`) or a review lapse (`Lapse`). Left out: `removeItem` that fails after
a settlement, replaced transactions, the drafts of useStrategyPublication, and
the batch builders `buildMakerPlan` and `buildRetireAndDockPlan`, which the
application does not call. `completedPayment` is subsumed by the stage of an
object; a maker configuration whose nonce was used counts as closed. Two
behaviours of the code that the properties leave room for: useDemoFunding's
scope effect drops a hash that could not be stored, and the create and publish
hooks may sign again while a record of another account is hidden.

### Pages, Listing, QuoteProofs

`Listing` is what the lists of strategies and invoices hold at a pinned block
(`Listed`, the arrangement of an owner's rows from the newest place to the oldest)
and which page follows a cursor. `Pages` is a mounted page of each kind, or the
balance card on the swap page: `BeginFetch` and `FetchStep` are its requests with
their retries, `Timer` its refresh and polling, `Tick` time, `Maximum` the Max
button, `World` what changes outside (a rotated deployment, a rollback of the
index, new blocks) and `User` what the person does. Only the pages named in `Refocused` read anew when
a hidden tab is shown (the balance, a payment, the strategy pages); the others wait
for their poll or refresh (WalletProvider.tsx:52), and the list of
invoices, unlike that of strategies, stays on the screen while it is read anew.
Simplifications: one page is
mounted at a time and leaving it drops its state, also the answers of pages of
a walk (the library keeps them five minutes); the balance, settings and tokens
of a form are one `form`; a list's filter is part of its scope like the account;
the API's check that a cursor's row exists holds by construction; rows of all
deployments are alike; a request that outlasts a unit of five seconds, an empty
balance and a stale detail answer are faults; the retry delay of 600 ms and
the debounce of 300 ms take no time; one estimate stands for Max's quote, review
and simulation; only tokens that share the gas estimate.

### Deployment, DeploymentProofs

arc-deployment.mjs with the wallet page it serves. `Refresh` opens a page or is the
`Poll` of an open one, `RefreshPosts`, `RefreshAgain` and `RefreshFails` are the
rest of its polling of the status, `SendAsks`,
`SendGets`, `SendPrompts`, `SendStores`, `SenderPosts` and `SenderFails` a click
on send, `Recover` a hash pasted by hand, `Activate` and `Serve` what follows.
The utility makes a token for each process, writes it into the page and refuses
every other with 403 (arc-wallet-server.mjs:13,61,201): `csrf` holds the tabs
whose page has the token of the process that runs. A page served before a restart
reads on, but its posts (`Posts`, also the one behind `Activates`) are refused until
a person reloads it, which is a `Close` and a `Refresh`. Handlers of the utility
run in its queue under the plan's lock, so each is one action; `KilledInStatus`, `KilledInRecord` and `KilledInActivation` are the
utility being killed at any write of one (it starts again when a person has
removed the lock file it left). Assumed: the utility answers a tab's requests in
their order, and a tab handles a storage event before the status that arrives
after it (`PromptEvents`). Without the second, TLC finds `NeverAskedTwice`
violated in 16 states: a tab whose own attempt is confirmed clears the attempt
another tab has just stored (arc-wallet-server.mjs:112). Also seen in the code
and kept by the model: an attempt `{...undefined, hash}` is never cleared, and a
wallet error other than a rejection leaves an attempt that the page offers no way
to discard. Left out: activation of two plans, replaced transactions, a wrong
hash pasted, receipts that leave the chain, the bindings (lines 409-460),
artifacts and evidence, what `prepare` blocks on, the local runner, the children
of dev-arc, the command line, and failing localStorage.

## 3. Runs

States are distinct states. All runs disable deadlock checking because their
bounds (faults, moves, versions, time) make the systems stop.

| Run | Checks | Size |
|---|---|---|
| `payments` | `TypeOK`, `PaidExactly`, `Custody`, `HonestPaymentCompletes`, refinement `ImplementsBook` | 228 311 |
| `router` | `SurplusConserved`, `NothingLeftBehind`, `HonestSwapCompletes`, `OneStrategyPerNonce`, `VersionTells` | 3 205 904 |
| `indexer` | `StoredChain`, `HistoryComplete`, `KeepsCanonical`, `ResyncJustified`, refinement `ImplementsFollower`, liveness `Follows` | 363 431 |
| `indexer_flip` | `CoveredComplete`, violated | |
| `indexer_gap` | `RollsBack`, violated | |
| `event_stream` | `TypeOK`, `NoLeak`, `NothingMissed`, `ResyncCloses`, liveness `Told` and `Drains` | 66 905 |
| `api` | `CapacityHeld`, `CachedQuotesAreRecent`, `AnswersOnePinnedBlock`, liveness `CapacityReturns` | 136 241 |
| `search` | `WithinBudget`, `Conclusive` | 4 170 266 |
| `execution` | `HashKeyedRecordSurvives`, `UnstoredHashIsShown`, `SwapBacklogBounded`, `ShownReviewIsSigned` | 5 129 340 |
| `execution_slot` | `RecordSurvives`, violated | |
| `pages` | `ShownIsCurrent`, `ListedOnce`, `MaxLeavesGas`, liveness `Recovers` | 586 692 |
| `deployment` | `SignedIsReviewed`, `NeverAskedTwice`, `ActiveIsVerified`, liveness `HashIsFollowed` | 625 710 |

`TypeOK` of `Router`, `Execution` and `Deployment` is not listed in a run, since it
is proved (section 5).

Bounds, and why they suffice:

* `payments`: two invoices of one merchant, one payer who is a recipient of one
  invoice, a maker who is a recipient of the other; shares that round, one of
  them to zero; five sets of terms that must be refused; one outside transfer at
  any point; time 0 and 1 around an expiry at 1. Three recipients are the
  contract's own limit. Two invoices let one payment be tried inside or after
  another; `MaxMoves = 1` puts a donation or a callback at each point of a
  payment, and a second one meets the same comparisons.
* `router`: two strategies on one wallet, amounts of one to five units, `Scale`
  2 and principals that are not whole units, a fee that rounds up, two outside
  actions, two swaps for a strategy that is not retired (`MaxVersion = 3`).
  Ship is not counted among the outside actions, since each entry ships once.
* `indexer`: a tree of height 5 with branches above heights 1 and 2,
  `REORG_WINDOW = 2` and `MaxBlocks = 2`, so that a reorganisation may be inside
  the window, at its edge and below it; an empty database or one with rows from
  before swap receipts. Two settings: two workers of one deployment, on a trunk
  of height 4 or 5, with two switches or crashes (`Alone`), and one worker for
  each of two deployments that share the Aqua contract, on any branch, with one
  (`Shared`). In this run a branch that was left does not come back
  (`Return = FALSE`); what happens when it does is `indexer_flip`.
  `indexer_gap` starts the second deployment two blocks later with
  `MaxBlocks = 1`, for more than 64 blocks in the code.
* `event_stream`: two requests for one place, two connection attempts of one
  `connect()`, three commits, three faults. More places or requests change
  nothing in who waits for whom, and the proofs hold for every number of both.
* `api`: five teams of two or three requests, chosen for what they share: three
  swaps of one intent with the cache, a clock that steps back and two places; a
  swap and the metrics under close; a payment and readiness on an Arc network; a
  direct payment and a missing invoice under a resync latch; both lists. Each has
  one reorganisation or block to cross. `RpcCapacity = 8` lets one batch in and
  refuses a second; `Ttl = 2` and `MaxEntries = 2` let an entry expire and be
  evicted.
* `search`: the code's own limits. The invoices reach from the least input to
  more than eight doublings, with the payer's maximum, his balance and the
  curve's domain as the least bound, tokens of 4, 6 and 7 decimals, and refused
  invoices. Every set of eligible strategies may hold each of the three fees.
* `execution`: two accounts, two transactions, one view of each hook and two of
  the swap hook, one change by others. Two transactions are what a record needs
  to be overwritten; views and accounts are interchangeable (symmetry).
* `pages`: three blocks with a fork, four rows of two owners, pages of one row;
  two faults. In units of five seconds: a quote is valid for 3 (20 s in the code),
  refreshed after 1 (5 s), after a failure 2 (15 s), polled every 2 (10 s), tried
  twice. As in the code a refresh comes well before expiry, and one failure with
  its wait may or may not reach it.
* `deployment`: a plan of two steps, the first of which can be reviewed in two
  ways, one or two tabs, two transactions of the deployer, of which either may be
  one that is not of the plan. `Kept` is the tab whose staying is the premise of
  `HashIsFollowed`; the other comes and goes, and tabs are alike.

Fairness.

* `indexer`, `indexer_gap`: weak fairness of each worker's next step, since
  index.ts polls for ever and reads have timeouts. Switches and failures are
  bounded, so the chain is quiet at last.
* `event_stream`: promises settle (readiness and the driver have timeouts), the
  driver hands over what it received and reports a lost connection some time;
  nobody has to commit, hang up or shut down.
* `api`: a request's deadline fires (`QuoteGivesUp`, `ReaderGivesUp`), and the
  database and the node settle each read, with an answer or an error; both have
  timeouts of their own.
* `pages`: time passes, and the page's timers and requests get their turn, as one
  weak fairness; units are long against requests. Faults are bounded.
  `Recovers` does not speak of the list of strategies and of later pages of
  invoices, which the code does not poll, and of the balance only while the
  deployment the page knows is the one that is served.
* `deployment`: the chain mines what was sent; an open tab handles its storage
  events; its status and record requests, which the page repeats for ever, are
  answered now and then (strong fairness: a lost request or a kill disables them in
  between). Fairness speaks of the tab `Kept` only and forces no page open: `Poll`
  and `RefreshPosts` are steps of an open tab, the latter of one that the utility
  does not refuse. That it stays so is the premise of `HashIsFollowed`
  (`Stays(Kept)`): the process that served it is not killed any more, it is not
  closed, and the wallet answers what it is asked. Before that, and in other tabs,
  anything may be lost, closed or killed. If the premise is weakened to a tab that
  stays open, TLC finds the counterexample of a kill: the page of the old process
  polls for ever and its posts are refused.

Each property of a passing run is broken by a mutant of the code's definitions,
written next to the definition and named in `PROJECT.json`: a reserve that
includes its fee, a cursor that is not rewound, a capacity that forgets streams in
preparation, a cache that is not cleared with the clock, a review estimated anew.

## 4. Findings

1. `indexer_flip`. materializer.ts:111-113 and empty-materialization.ts:5-7 say
   that the last look at the tip authenticates the whole prefetched window. It
   does so for the headers. Logs are asked for by block number in between. If
   they are answered while another branch is canonical, or by a node of a
   balanced provider that lags, and the first branch is canonical again at the
   last look, blocks with logs are committed as empty and never read again. Logs
   of a wrong block are refused (`canonicalLogs`), logs that are missing are not.
2. `indexer_gap`. Two deployments of one chain whose start blocks are farther
   apart than a batch leave a gap in `indexed_blocks` until the earlier one has
   caught up. A reorganisation above the gap in that time makes
   `reconcileCanonicalChain` throw `INCONSISTENT_CANONICAL_CHAIN` (reorg.ts:43)
   in every attempt of every worker: neither a rollback nor the resync latch
   follows, against index.ts:9.
3. `execution_slot`. usePayment keeps one record for a chain, an account and an
   invoice, and shows a pending record of another account instead of the one it
   read (usePayment.ts:39). When that other one has settled, storage is not read
   again (96-100): the present account may sign another payment, whose record
   overwrites that of its earlier, still unsettled hash, although usePayment.ts:37
   says that submitted hashes survive. Records keyed by hash do not have this
   (`HashKeyedRecordSurvives` of run `execution`).

## 5. Proofs

| Module | Theorem | Statement |
|---|---|---|
| `PaymentsProofs` | `TypeCorrect` | `Spec => []TypeOK` |
| | `CustodyKept` | `Spec => []Custody` |
| | `BookImplemented` | `Spec => ImplementsBook`, the refinement of `InvoiceBook` |
| | `PaymentsAreExact` | `Spec => []PaidExactly` |
| | `HonestPaymentsComplete` | `Spec => []HonestPaymentCompletes` |
| `RouterProofs` | `TypeCorrect` | `Spec => []TypeOK` (no run lists this one) |
| | `RouterKeepsNothing` | `Spec => []NothingLeftBehind` |
| | `LedgersAgree` | `Spec => []SurplusConserved` |
| | `VersionIsState` | `Spec => VersionTells`, an action property |
| | `NoncesAreUsedOnce` | `Spec => []OneStrategyPerNonce` |
| | `HonestSwapsSettle` | `Spec => []HonestSwapCompletes` |
| `IndexerProofs` | `RowsAreOneChain` | `Spec => []StoredChain` |
| | `HistoryIsComplete` | `Spec => [](AskedSafely => HistoryComplete)` |
| | `FollowerImplemented` | `AskedSafely` proves `Spec => ImplementsFollower`, the refinement of `LogFollower` |
| | `RollbacksKeepCanonical` | `~Return` proves `Spec => KeepsCanonical`, an action property |
| | `ResyncIsJustified` | `~Return` proves `Spec => ResyncJustified`, an action property |
| `EventStreamProofs` | `TypeCorrect` | `Spec => []TypeOK`, the capacity included |
| | `PlacesKept` | `Spec => []NoLeak` |
| | `NoneMissed` | `Spec => []NothingMissed` |
| | `ResyncNoticed` | `Spec => []ResyncCloses` |
| `ApiProofs` | `ApiInductive` | `Spec => []ApiInv` (the inductive invariant; no run lists it) |
| | `CapacityIsHeld` | `Spec => []CapacityHeld` |
| | `CacheIsRecent` | `Spec => []CachedQuotesAreRecent` |
| | `AnswersArePinned` | `Spec => AnswersOnePinnedBlock`, an action property |
| `QuoteProofs` | `SearchWithinBudget` | `SearchSpec => []WithinBudget` |
| | `SearchConclusive` | `SearchSpec => []Conclusive` |
| | `PagesInductive` | `Spec => []PagesInv` (the inductive invariant; no run lists it) |
| | `PagesShowCurrent` | `Spec => []ShownIsCurrent` |
| | `MaxKeepsGas` | `Spec => MaxLeavesGas`, an action property |
| | `ListsInductive` | `Spec => []ListInv` (the inductive invariant; no run lists it) |
| | `PagesListOnce` | `Spec => []ListedOnce` |
| `ExecutionProofs` | `TypeCorrect` | `Spec => []TypeOK` (no run lists this one) |
| | `RecordsSurvive` | `Spec => []HashKeyedRecordSurvives` |
| | `UnstoredStaysShown` | `Spec => []UnstoredHashIsShown` |
| | `ReviewsAreShown` | `Spec => []ShownReviewIsSigned` |
| | `BacklogBounded` | `Spec => []SwapBacklogBounded` |
| `DeploymentProofs` | `TypeCorrect` | `Spec => [](TypeOK /\ csrf \subseteq Tabs)` (no run lists this one) |
| | `Reviewed` | `Spec => []SignedIsReviewed` |
| | `PublishedIsVerified` | `Spec => []ActiveIsVerified` |
| | `AskedAtMostOnce` | `Spec => [](PromptEvents => NeverAskedTwice)` |

They hold for all constants that satisfy the assumption of the module
(`ConstantsAssumption`, `ApiAssumption` and `CacheAssumption`,
`SearchAssumption`, `ListingAssumption`, `PagesAssumption`, `ExecutionAssumption`,
`DeploymentAssumption`), which TLC
evaluates in the runs: any number of accounts,
tokens, orders, blocks, workers, deployments, requests, views, tabs and steps, of
any amounts. What the assumptions say beyond types:

* A placeholder (`Nobody`, `None`) is none of the values it stands beside.
* The contract under study holds nothing at first and is neither a merchant nor
  a maker. A router has at least two tokens and finitely many, a browser
  finitely many documents, the event stream finitely many requests.
* Blocks form a forest: `Ancestors` is what `Parent` spans, a child is one higher
  than its parent, a branch has one block at each height.
* Rows of the lists are finitely many, a page of a list holds at least one, and
  the ancestors of a block are no higher than it, with one at each height: by
  that, one log writes one row and no two rows have the same position.
* The mounted page is one of the seven; balances, gas costs, the reserve and the
  validity of an answer are natural numbers.
* A database from before swap receipts (`Migrated`) holds one branch from the
  start block on, as the indexer of that time left it.

Three hypotheses are not in the assumptions, because a finding or an observation
stands behind each:

* `AskedSafely` (`~(ByRange /\ Return)`): either logs are asked for by block
  hash, or a branch that was left does not come back while a batch is being
  read. Without it, `HistoryComplete` is false: finding 1. `StoredChain` needs
  no such hypothesis.
* `~Return`: the chain does not come back to a branch that it has left. It is the
  condition of the two theorems about rollbacks and resyncs. A scan reads its
  headers one by one; a header from a branch that is canonical again when the
  rollback commits makes the rollback delete canonical blocks. That is harmless
  for readers (`FollowerImplemented` holds, the blocks are read again), but it is
  not what `KeepsCanonical` says.
* `PromptEvents`: a tab handles a storage event before a later status (see
  Deployment in section 2). The other theorems about the deployment do without.

### The arguments

*Payments.* The typing argument strengthens `TypeOK` to `Typed`: it adds what an
open payment knows (`TxInv`: its invoice is in progress, its payer and payees
are accounts other than the contract, its index is within the recipients, what
it received covers what is due) and that every created invoice has terms that
passed the checks. `Custody` speaks of the time between transactions and is not
inductive: during a payment the contract holds other people's tokens.
`CustodyInv` says instead, of an open payment, that the saved state is clean,
that the noted `beforeUsdc` is the donated USDC, that the noted `beforeIn` and
the present balances of the other tokens cover their donations (and the pulled
input while the swap is pending), and which allowance may be set. `Finish` gets
`Custody` back from the contract's last comparisons, `Revert` from the saved
state; each action has a lemma.

The refinement maps the invoices as a reader sees them after the transaction: the
saved ones while a payment is open. `BookInv` says that the present ones differ
from these in the paid invoice alone, and that every invoice was numbered by its
merchant's nonce; so a payment is a stutter up to `Finish`, which is one step of
the book. `PaidExactly` follows from `SettledInv`: at every step of a payment
the shares before `tx.i` were sent as rounded, what remains is what is due minus
these, and `settled` has changed by these sums and by nothing else. For
`HonestPaymentCompletes`, `CleanInv` gives the balances of an undisturbed
payment at each of its steps, which decide the contract's comparisons.

*Router.* `Typed` is `TypeOK` with `TxInv`: which locks are set while a swap is
open and what its order, tokens and amounts may be. `RestInv` says that the
router holds what was donated to it: always of a token that is not in the open
swap, and of all tokens in the saved state. `LedgerInv` is `SurplusConserved`
carried through a swap: at each step the allocation of the open swap's order and
its principal, fees, surplus and gifts differ by `Due`, what the swap has still
to move, and those of any other order agree (`Agrees`), now and in the saved
state. Foreign code in a token call could drive them apart here: whatever it
does is a gift, docks the order, or makes the swap's own comparisons revert. `OpenInv`
says that an open swap changed its own strategy alone, by one version, which
gives `VersionTells`. `NonceInv` counts: a maker's nonce is the number of his
strategies and these have one nonce each. `CleanInv` says of an undisturbed swap
which of its legs are paid.

*Indexer.* `IndexInv` is proved in one induction with a lemma for each action:

* `DbOK`, `TipOK` and `WorkOK` type the database, the node and what a worker
  carries between two reads. `LocalsOK` says what a batch under way may be used
  for: its headers are canonical or the chain has left them, they hang together
  (`Joined`), and its logs are complete or were asked for a block already gone.
* `ChainInv` (each deployment covers exactly the branch from its start block to
  its cursor, `stored` is the union of these, and lies on one branch),
  `LegacyInv`, `EventsInv` (what readers see belongs to covered blocks) and
  `HistoryInv`.

The node may change between any two reads; what a batch is worth is decided by
`CheckTip`: when its last header is canonical so are the others, since they hang
together, and by `AskedSafely` they were when their logs were read. A commit
compares its batch with the cursors and rows under the lock (`Adjacent`,
`Continues`), which is why what other workers did in between does not matter.
Facts about branches (two blocks below a common block are comparable, a branch
has no gaps) are proved without induction, from the least height at which they would fail (lemma `Least`). For
the refinement it is enough that a step only adds rows above a deployment's top
or only removes them from a height on (`RowsGrowOrShrink`): then the view of the
follower is that of an ancestor or a descendant of its top.

`ScanInv` is a second invariant, about what a scan may conclude. A worker holds the
headers it has `seen` and the stored blocks it has `left` to look up, from the
cursor it took down. If these cover every height down to `n`, then there are
rows at every height down to `n`, and wherever it saw another header than the
snapshot's chain has, that chain's block is gone (`Backed`). This is stable while
others commit and roll back: a rollback moves the cursor, a commit adds above it
(`ScanStable`), and the node only adds to what is gone (`ScanMoves`). When
`reconcileCanonicalChain` then finds the cursor unmoved, all it deletes lies
above the highest header that agrees, and is gone (`DeletedAreGone`). It latches
a resync when no header of the window agrees; the window is linked and so has as
many blocks as it has heights (`WindowSize`), all of them gone and, as rows are
finitely many, either all that is stored or as many as a rollback may look back
on (`ResyncIsDue`). Deployments with different start blocks are included: the
argument needs rows at the heights a scan covers, not below.

*EventStream.* The invariant has two parts. `Placed` says, for each await, whether
the request must be, may be or must not be in `streams` and `subscribers`, and
that there are subscribers only with a connection, which is why `Lost` and
`Shutdown` find all of them. `Pending` says that an open stream which was not
told of a commit has a notification or a loss to come and, for the resync
latch, extends this to requests that already hold a positive answer of the
second readiness: `ResyncCloses` says nothing of these, and they are the ones
that open next. The capacity follows because `FirstReady` counts again after
its await.

*Api.* `ApiInv` relates each request to what it holds at each await. `ReqOK`: from
its second step on it has the pin that its first read fixed, and data of that
block alone. `HoldsOK`: the counter of RPC weight is the number of units that the
requests hold, a unit being a request with a number, so that a change of one
request's share changes a cardinality and no sum has to be taken. `PlacesOK`: a
quote that runs has its place, one that was answered with a read still under way
drains it, and the places are as many as these. `CacheOK`: an entry is of the
present generation, of the block in its key and as old as its stamp, and a key
has one entry. `CachedQuotesAreRecent` and `AnswersOnePinnedBlock` follow from the
look at the cache and the last read with its checks; a deadline, a hang-up or a
step of the clock in between leaves each conjunct as it is.

*PaymentSearch.* `SearchInv` adds to the types what was found (`Found`: the
selected amount was sufficient when it was asked), how doubling and halving stand
to each other (`Progress`), and that each phase has spent no more of stages,
strategies and batches than its own share, which leaves enough for the phases
that follow (`Spent`). The worst case of 44 batches is the sum of these shares.
The proof is for any positive limit of the domain and any invoice, balance and
decimals; the budgets are the code's.

*Pages.* `PagesInv` holds for each of the seven pages. `AnswersOK`: every answer
in the cache is the one to its key (`AskedFor`: the account, inputs and cursor that
the key stands for), of the deployment whose manifest its request read, and, for a
balance, of the deployment in the key. `FetchOK`: the request under way was asked
for the present context at each of its steps, because whatever changes the key
drops it (`Recontext`, `Walked`). So an answer, however late, is stored under the
key it was asked for, and the decoders have compared the rest. `LapseOK`: in a
visible tab an estimate whose time is over is marked as expired, also when it
lapsed in a hidden tab (`Show`) or arrived with nothing left (`Success`).
`MaxOK` types the run of Max: a candidate that is decided on is positive;
`Accepted` and `MaximumSwapInput` then give both reserves.

*Lists.* A list is defined as some arrangement of the rows in order, so the first
thing to prove is that there is one: positions are in a total order
(`BeforeOrders`), every row has its own (`OnePlaceOneRow`), and a smallest set of
rows without an arrangement would have one, its oldest row put last
(`ArrangementExists`). Then the page after the k-th row is what the list holds from
row k + 1 on, up to the page's size, and its cursor names the last of it (`PageIs`).
`ListInv` carries this through a walk. `HeldOK`: every answer in the cache, also one
kept through a failure, is the page that follows the cursor of its key, at that
cursor's block. `RequestedOK`: so is the answer under way, for the cursor on the
screen. `WalkOK`: what was shown before a page is the list at the cursor's block,
up to the row that the cursor names. The rows of another block never get in
between because a cursor carries its block and the API refuses one that is no
longer an ancestor; the account's own rows are seen only by it because a walk
counts for the account that made it (`Nav`). A page on the screen then continues
the list where the pages before it ended (`PageExtends`), and `ListedOnce` follows.

*Execution.* `HooksInv` says what a view's fields mean at each of its awaits
(`Records`): whose review it has, that the hash it sends, awaits or shows was
broadcast, and what has become of it. With it go that a hash just handed over is
in one view (`OneHolder`) and that every stored hash is known as stored
(`StoreInv`). `Records` also says whose plan is out at each await
from `Submit` to the answer and that the review beside it is that plan or gone,
which is `ShownReviewIsSigned`: only `Prepared` sets a review, and a view with a
submission out does not prepare. `BacklogInv` bounds the saved records and the views that may still
save one, together, by the open views.

*Deployment.* `PlanInv` says that the journal follows the chain (`JournalOK`: every
confirmed transaction is mined, in order, and the review is of the step after
them), that whatever was sent or is asked of a wallet is a confirmed step or the
review (`Known`), and that every hash a tab may post was broadcast
(`HashesSent`); it holds however late a storage event is. `AttemptInv` is about
tabs against each other: one at most holds the lock, a step is asked for once
(`AskedOnce`), while a transaction of the current step is out the store has its
attempt, and a tab about to ask does so for the current step and only while none
is out (`Fresh`).

### Only model-checked

* Liveness (`Follows`, `Told`, `Drains`, `CapacityReturns`, `Recovers`,
  `HashIsFollowed`): the prover has no rules for fairness and ENABLED.
* The violated properties, of course.

## 6. Plan

Modelled: every component that keeps state of its own, see `PROJECT.json` for what
each model leaves out. What is left are the bracket of `RootBracket` and the prefix
walk of `FrontierComposition`, as algorithms with recursive functions over small
integers.

## 7. Not modelled

* Interval and 512-bit arithmetic of the curve: out of reach of TLC, and the
  tests compare it with a Python oracle. The router's payout is any value the
  principal can bear, so its accounting does not depend on it.
* Replacement of a transaction (speed up, cancel) while its receipt is awaited,
  in `Execution` and `Deployment`: the models' chains mine what was sent.
* `syncOnce` and `atomicBlock`, which only tests call; the demo token, one ERC-20
  with a cooldown; the rate limiter and the endpoint of shipments.
* What keeps no state: views and static pages, codecs, schemas, the generated
  ABI, the Python oracle, local test networks and one-shot scripts.
