------------------------------- MODULE Pages -------------------------------
(* The reading half of the web application: one mounted page, or the balance *)
(* on the swap page, asks the API or the wallet for observations and shows   *)
(* them, while the wallet's account, the inputs, the deployment the API      *)
(* serves, the indexed chain, time and the tab's visibility change under it. *)
(* Time is counted in units of five seconds.                                 *)
EXTENDS Listing

CONSTANTS
  Routes,        \* the pages that may be mounted
  Deployments,   \* deployments whose manifest the API may serve
  Typed,         \* inputs the user types: [token, amount]
  Balances,      \* what the fresh balance read of Max may find
  Gases,         \* gas costs a simulation may estimate
  MinReserve,    \* the least gas reserve (50000 raw)
  Validity,      \* units a quote or balance is valid after its block (20 s)
  RefreshUnits,  \* units from an answer to the next refresh (5 s)
  FailedUnits,   \* ... from a failure (15 s)
  PollUnits,     \* ... of the detail pages and the first page of invoices (10 s)
  Attempts,      \* tries of one quote request (3)
  MaxFaults      \* bound on faults: rotations, rollbacks, failures, slow answers

ASSUME PagesAssumption ==
  /\ Routes \subseteq {"swap", "balance", "payment", "strategies", "invoices", "strategy", "invoice"}
  /\ Typed # {} /\ \A f \in Typed : f = [token |-> f.token, amount |-> f.amount]
  /\ Balances \subseteq Nat /\ Gases \subseteq Nat /\ MinReserve \in Nat
  /\ Validity \in Nat
  /\ None \notin [deployment : Deployments, pin : Blocks, after : Nat \X Nat]

VARIABLES
  route,      \* the mounted page
  served,     \* the deployment whose manifest the API serves
  tip,        \* the block the read models are at
  account,    \* the wallet's, or None
  form,       \* the inputs
  known,      \* the deployment the page learned
  visible,    \* the tab is in front
  paused,     \* a review or a submitted transaction is open
  intent,     \* the swap page asks for quotes of the present context
  navigation, \* the cursors walked, whose they are, and what was shown before each (history)
  cache,      \* the answers and failures held, by query key
  due,        \* the query must fetch at once: mounted, rekeyed, focused, enabled
  fetch,      \* the request under way, or None
  max,        \* the run of Max under way, or None
  faults      \* faults so far

page == <<route, paused, navigation>>
reading == <<cache, due, fetch>>
vars == <<route, served, tip, account, form, known, visible, paused, intent, navigation, cache, due, fetch, max, faults>>

Quotes == {"swap", "payment"}
Lists == {"strategies", "invoices"}
\* The pages whose view turns stale with time by itself.
Expires == {"swap", "balance", "payment", "strategy"}

Nothing == [data |-> None, failed |-> FALSE, age |-> 0, expired |-> FALSE]

FirstPage(a) == [scope |-> a, pages |-> <<None>>, seen |-> << <<>> >>]

\* What a page remembers of a walk counts for the account it was walked by.
Walk(n, a) == IF n.scope = a THEN n ELSE FirstPage(a)
Nav == Walk(navigation, account)
Cursor == Nav.pages[Len(Nav.pages)]

\* Mutant of QuoteKey: without the account.
QuoteKeyNoAccount(a, f, d) == <<f, d>>

\* A quote is held for the account, the inputs and the deployment known.
QuoteKey(a, f, d) == <<a, f, d>>

KeyOf(a, f, d, n) ==
  CASE route \in Quotes -> QuoteKey(a, f, d)
    [] route = "balance" -> <<a, f.token, d>>
    [] route \in Lists -> <<a, Walk(n, a).pages[Len(Walk(n, a).pages)]>>
    [] OTHER -> <<route>>

Key == KeyOf(account, form, known, navigation)
Entry == IF Key \in DOMAIN cache THEN cache[Key] ELSE Nothing
With(entry) == [k \in DOMAIN cache \cup {Key} |-> IF k = Key THEN entry ELSE cache[k]]
Empty == [k \in {} |-> Nothing]

Asked ==
  [account |-> IF route \in Quotes \cup Lists \cup {"balance"} THEN account ELSE None,
   form |-> CASE route \in Quotes -> form [] route = "balance" -> form.token [] OTHER -> None,
   cursor |-> IF route \in Lists THEN Cursor ELSE None]

Valid == form.amount > 0
Paused == paused \/ max # None

\* The strategies are not asked for again by themselves, nor are later invoices.
Polled == route # "strategies" /\ (route = "invoices" => Cursor = None)

Enabled ==
  CASE route = "swap" -> account # None /\ intent
    [] route = "balance" -> account # None /\ visible
    [] route = "payment" -> account # None /\ visible /\ ~paused
    [] route \in Lists -> account # None
    [] OTHER -> TRUE

Fault == faults < MaxFaults /\ faults' = faults + 1

Init ==
  /\ route \in Routes
  /\ served \in Deployments /\ known = served
  /\ tip \in {b \in Blocks : Parent[b] = None}
  /\ account = None /\ form = CHOOSE f \in Typed : TRUE
  /\ visible = TRUE /\ paused = FALSE /\ intent = FALSE
  /\ navigation = FirstPage(None)
  /\ cache = Empty /\ due = (route # "swap") /\ fetch = None /\ max = None
  /\ faults = 0

-----------------------------------------------------------------------------
(* The world: deployments rotate and may return, the read models move.      *)

Rotate(d) ==
  /\ d # served /\ Fault /\ served' = d
  /\ UNCHANGED <<tip, account, form, known, visible, intent, max, page, reading>>

Index(b) ==
  /\ route \in Lists
  /\ \/ Parent[b] = tip /\ UNCHANGED faults
     \/ Parent[tip] = b /\ Fault
  /\ tip' = b
  /\ UNCHANGED <<served, account, form, known, visible, intent, max, page, reading>>

-----------------------------------------------------------------------------
(* The user and the wallet. A new key drops the request under way and, but  *)
(* for the pages of one walk, the answers held.                             *)

Recontext(a, f, d) ==
  /\ account' = a /\ form' = f /\ known' = d
  /\ IF KeyOf(a, f, d, navigation) = Key
     THEN UNCHANGED <<reading, intent, max>>
     ELSE /\ cache' = Empty
          /\ due' = (route # "swap") /\ fetch' = None
          /\ intent' = FALSE /\ max' = None

Connect(a) ==
  /\ a # account /\ Recontext(a, form, known)
  /\ UNCHANGED <<served, tip, visible, page, faults>>

Type(f) ==
  /\ route \in Quotes \cup {"balance"} /\ f # form /\ Recontext(account, f, known)
  /\ UNCHANGED <<served, tip, visible, page, faults>>

LearnDeployment ==
  /\ route \in Quotes \cup {"balance"} /\ known # served /\ Recontext(account, form, served)
  /\ UNCHANGED <<served, tip, visible, page, faults>>

Review(open) ==
  /\ route \in Quotes /\ paused = ~open
  /\ open => account # None /\ max = None
  /\ paused' = open
  /\ due' = (due \/ (route = "payment" /\ ~open /\ fetch = None))
  /\ UNCHANGED <<route, served, tip, account, form, known, visible, intent, navigation, cache, fetch, max, faults>>

Hide ==
  /\ visible /\ visible' = FALSE
  /\ UNCHANGED <<served, tip, account, form, known, intent, max, page, reading, faults>>

\* A quote or balance is expired, as a rendering or a visibility event finds.
Lapsed(entry) == route \in Expires /\ entry.data # None /\ entry.data.left = 0

\* The pages whose query fetches anew when the tab returns: it asks for that, or
\* was switched off in the hidden tab. The others wait for their next poll.
Refocused == route \in {"balance", "payment", "strategy", "strategies"}

Show ==
  /\ ~visible /\ visible' = TRUE
  /\ cache' = IF Lapsed(Entry) THEN With([Entry EXCEPT !.expired = TRUE]) ELSE cache
  /\ due' = (due \/ (Refocused /\ fetch = None))
  /\ UNCHANGED <<served, tip, account, form, known, intent, fetch, max, page, faults>>

\* Get quote or Refresh quote.
Click ==
  /\ route = "swap" /\ fetch = None /\ ~due /\ ~Paused /\ account # None /\ Valid
  /\ intent' = TRUE /\ cache' = Empty /\ due' = TRUE
  /\ UNCHANGED <<served, tip, account, form, known, visible, fetch, max, page, faults>>

\* isFetching: a query that must fetch does so with the rendering.
Fetching == fetch # None \/ (due /\ Enabled)

\* The answers of the pages that stay on the walk are kept.
Walked(pages, seen, keys) ==
  /\ navigation' = [scope |-> account, pages |-> pages, seen |-> seen]
  /\ cache' = [k \in DOMAIN cache \cap keys |-> cache[k]]
  /\ due' = TRUE /\ fetch' = None
  /\ UNCHANGED <<route, served, tip, account, form, known, visible, paused, intent, max, faults>>

Keys(pages) == {<<account, c>> : c \in Range(pages)}

ListNext ==
  /\ route \in Lists /\ account # None /\ ~Fetching /\ ~Entry.failed
  /\ Entry.data # None /\ Entry.data.reply.next # None
  /\ LET pages == Append(Nav.pages, Entry.data.reply.next)
     IN Walked(pages, Append(Nav.seen, Last(Nav.seen) \o Entry.data.reply.items), Keys(pages))

ListPrevious ==
  /\ route \in Lists /\ account # None /\ ~Fetching /\ Len(Nav.pages) > 1
  /\ Walked(Front(Nav.pages), Front(Nav.seen), Keys(Nav.pages))

\* Restart is a new generation of keys.
Restart ==
  /\ route \in Lists /\ account # None
  /\ Walked(<<None>>, << <<>> >>, {})

-----------------------------------------------------------------------------
(* Timers and time. In a visible tab no timer that is due is overtaken by   *)
(* time; in a hidden one they are late.                                     *)

IntentDue == route = "swap" /\ visible /\ account # None /\ Valid /\ ~Paused /\ ~intent

IntentTimer ==
  /\ IntentDue
  /\ intent' = TRUE /\ due' = TRUE
  /\ UNCHANGED <<served, tip, account, form, known, visible, cache, fetch, max, page, faults>>

RefreshAge ==
  CASE route \in Quotes -> IF Entry.failed THEN FailedUnits ELSE RefreshUnits
    [] OTHER -> PollUnits

\* A swap quote about to expire is refreshed before its time.
NearExpiry == route = "swap" /\ ~Entry.failed /\ Entry.data # None /\ Entry.data.left <= 1

\* Mutant of RefreshDue: a failure without data before it is not tried again.
RefreshDueOnData ==
  /\ Enabled /\ visible /\ ~Fetching
  /\ route = "swap" => ~Paused
  /\ Polled
  /\ Entry.data # None
  /\ Entry.age >= RefreshAge \/ NearExpiry

RefreshDue ==
  /\ Enabled /\ visible /\ ~Fetching
  /\ route = "swap" => ~Paused
  /\ Polled
  /\ Entry.data # None \/ Entry.failed
  /\ Entry.age >= RefreshAge \/ NearExpiry

Started == [asked |-> Asked, at |-> "manifest", manifest |-> None, api |-> None, reply |-> None, attempt |-> 1]

RefreshTimer ==
  /\ RefreshDue /\ fetch' = Started
  /\ UNCHANGED <<served, tip, account, form, known, visible, intent, cache, due, max, page, faults>>

\* The timer of a tab that was hidden at the expiry.
ExpiryTimer ==
  /\ Lapsed(Entry) /\ ~Entry.expired
  /\ cache' = With([Entry EXCEPT !.expired = TRUE])
  /\ UNCHANGED <<served, tip, account, form, known, visible, intent, due, fetch, max, page, faults>>

Timer == IntentTimer \/ RefreshTimer \/ ExpiryTimer

Less(n, units) == IF n > units THEN n - units ELSE 0

\* The entry after some units; a visible tab notices the expiry in time.
Older(entry, units) ==
  LET data == IF entry.data = None \/ route \notin Expires THEN entry.data
              ELSE [entry.data EXCEPT !.left = Less(@, units)]
      aged == [entry EXCEPT !.age = IF @ + units > FailedUnits THEN FailedUnits ELSE @ + units,
                            !.data = data]
  IN [aged EXCEPT !.expired = @ \/ (visible /\ Lapsed(aged))]

\* Only what the screen shows and the answer under way age; a request that a
\* unit does not finish is a fault.
Tick ==
  /\ Polled
  /\ visible => ~IntentDue /\ ~RefreshDue /\ ~(due /\ Enabled)
  /\ IF fetch = None THEN UNCHANGED faults ELSE Fault
  /\ cache' = IF Key \in DOMAIN cache THEN With(Older(Entry, 1)) ELSE cache
  /\ fetch' = IF fetch # None /\ fetch.at = "recheck" THEN [fetch EXCEPT !.reply.left = Less(@, 1)] ELSE fetch
  /\ <<cache', fetch'>> # <<cache, fetch>>
  /\ UNCHANGED <<served, tip, account, form, known, visible, intent, due, max, page>>

-----------------------------------------------------------------------------
(* One request: the manifest, for a payment and a balance the wallet, the    *)
(* answer, and for quotes and balances the manifest again.                   *)

BeginFetch ==
  /\ due /\ Enabled /\ fetch = None
  /\ due' = FALSE /\ fetch' = Started
  /\ UNCHANGED <<served, tip, account, form, known, visible, intent, cache, max, page, faults>>

\* A failure keeps the data of the answer before it.
Failure == fetch' = None /\ cache' = With([Entry EXCEPT !.failed = TRUE, !.age = 0])

\* A swap quote's validated "unavailable" replaces it.
Unavailable == fetch' = None /\ cache' = With([Nothing EXCEPT !.failed = TRUE])

ReadManifest ==
  /\ fetch.at = "manifest"
  /\ IF route = "balance" /\ served # known
     THEN Failure
     ELSE /\ fetch' = [fetch EXCEPT !.at = IF route \in {"balance", "payment"} THEN "balance" ELSE "ask", !.manifest = served]
          /\ UNCHANGED cache
  /\ UNCHANGED faults

\* The wallet's balance at the latest block; it bounds what a payment may
\* spend, and an empty one is a fault.
ReadBalance ==
  /\ fetch.at = "balance"
  /\ IF route = "payment"
     THEN fetch' = [fetch EXCEPT !.at = "ask"]
     ELSE \E left \in 1 .. Validity :
            fetch' = [fetch EXCEPT !.at = "recheck", !.reply = [deployment |-> fetch.manifest, asked |-> fetch.asked, left |-> left]]
  /\ UNCHANGED <<cache, faults>>

\* The decoders of the answers: of the deployment read before, to what was
\* asked, not expired; the pages of a list at one pin, each row after the one
\* before it, and a cursor at the last of them.
SwapDecoded(reply) == reply.deployment = fetch.manifest /\ reply.asked = fetch.asked /\ reply.left > 0

InvoiceDecoded(reply) == reply.deployment = fetch.manifest

PaymentDecoded(reply) == InvoiceDecoded(reply) /\ reply.asked = fetch.asked /\ reply.left > 0

StrategyDecoded(reply) == reply.deployment = fetch.manifest

Successive(reply) ==
  LET cursor == fetch.asked.cursor
      at(i) == IF i > 0 THEN reply.items[i].at ELSE IF cursor = None THEN None ELSE cursor.after
  IN /\ \A i \in DOMAIN reply.items :
          /\ Owner[reply.items[i].row] = fetch.asked.account
          /\ at(i - 1) = None \/ Before(at(i), at(i - 1))
     /\ \A c \in {cursor, reply.next} \ {None} : c.deployment = reply.deployment /\ c.pin = reply.pin
     /\ reply.next # None => reply.next.after = at(Len(reply.items))

InvoicesDecoded(reply) == InvoiceDecoded(reply) /\ Successive(reply)

StrategiesDecoded(reply) == StrategyDecoded(reply) /\ Successive(reply)

Decoded(reply) ==
  CASE route = "swap" -> SwapDecoded(reply)
    [] route = "payment" -> PaymentDecoded(reply)
    [] route = "strategy" -> StrategyDecoded(reply)
    [] route = "invoice" -> InvoiceDecoded(reply)
    [] route = "strategies" -> StrategiesDecoded(reply)
    [] route = "invoices" -> InvoicesDecoded(reply)
    [] OTHER -> TRUE

Success(reply) ==
  IF Decoded(reply)
  THEN /\ fetch' = None
       /\ cache' = With([Nothing EXCEPT !.data = [asked |-> fetch.asked, manifest |-> fetch.manifest, reply |-> reply, left |-> reply.left],
                                        !.expired = route \in Expires /\ reply.left = 0])
  ELSE Failure

Orphaned(b) == b \notin Ancestors[tip]

\* The API reads its manifest and starts on the answer.
Serving(reply) == fetch' = [fetch EXCEPT !.at = "serve", !.api = served, !.reply = reply] /\ UNCHANGED cache

ServeQuote == fetch.at = "ask" /\ route \in Quotes /\ Serving(None)

ServeDetail == fetch.at = "ask" /\ route \in {"strategy", "invoice"} /\ Serving(None)

\* A cursor counts for the deployment and the pin it was given for.
Stands(cursor) == cursor.deployment = served /\ ~Orphaned(cursor.pin)

ServePage ==
  /\ fetch.at = "ask" /\ route \in Lists
  /\ LET cursor == fetch.asked.cursor
         pin == IF cursor = None THEN tip ELSE cursor.pin
         after == IF cursor = None THEN None ELSE cursor.after
     IN IF cursor = None \/ Stands(cursor)
        THEN Serving([deployment |-> served, pin |-> pin, left |-> 1,
                      items |-> Page(route, fetch.asked.account, pin, after),
                      next |-> NextCursor(route, fetch.asked.account, served, pin, after)])
        ELSE Failure

Serve == (ServeQuote \/ ServeDetail \/ ServePage) /\ UNCHANGED faults

Wire(left) == [deployment |-> fetch.api, asked |-> fetch.asked, left |-> left]

\* A quote goes out if the API's manifest is the same still.
Priced == served = fetch.api /\ UNCHANGED cache /\ \E left \in 1 .. Validity : fetch' = [fetch EXCEPT !.at = "recheck", !.reply = Wire(left)]

AnswerSwap == route = "swap" /\ (Priced \/ (served # fetch.api /\ Unavailable)) /\ UNCHANGED faults

AnswerPayment == route = "payment" /\ (Priced \/ (served # fetch.api /\ Failure)) /\ UNCHANGED faults

\* An observation may be stale when it is made: a fault of the indexer.
AnswerDetail ==
  /\ route \in {"strategy", "invoice"}
  /\ \E left \in 0 .. Validity : Success(Wire(left)) /\ (IF left = 0 THEN Fault ELSE UNCHANGED faults)

\* A page goes out if its pin is canonical still.
AnswerPage ==
  /\ route \in Lists
  /\ IF Orphaned(fetch.reply.pin) THEN Failure ELSE Success(fetch.reply)
  /\ UNCHANGED faults

Answer == fetch.at = "serve" /\ (AnswerSwap \/ AnswerPayment \/ AnswerDetail \/ AnswerPage)

\* A quote that may come later is asked for again, so many times.
Retry ==
  /\ route \in Quotes /\ fetch.at = "serve" /\ Fault
  /\ IF fetch.attempt < Attempts
     THEN /\ fetch' = [fetch EXCEPT !.at = "ask", !.attempt = @ + 1] /\ UNCHANGED cache
     ELSE IF route = "swap" THEN Unavailable ELSE Failure

Recheck ==
  /\ fetch.at = "recheck"
  /\ IF served = fetch.manifest THEN Success(fetch.reply) ELSE Failure
  /\ UNCHANGED faults

\* No answer at all: an error at once, or the deadline of six units.
Lost ==
  /\ Fault /\ fetch' = None
  /\ \E units \in {0, 6} :
       cache' = With([Older(Entry, units) EXCEPT !.failed = TRUE, !.age = 0])

FetchStep ==
  /\ fetch # None
  /\ ReadManifest \/ ReadBalance \/ Serve \/ Answer \/ Retry \/ Recheck \/ Lost
  /\ UNCHANGED <<served, tip, account, form, known, visible, intent, due, max, page>>

-----------------------------------------------------------------------------
(* Max: an amount that leaves gas for its own transaction, when the input   *)
(* token is the one gas is paid in.                                         *)

MaximumSwapInput(balance, gas) ==
  LET reserve == IF 2 * gas > MinReserve THEN 2 * gas ELSE MinReserve
  IN IF balance > reserve THEN balance - reserve ELSE 0

SharesGas == form.token = "usdc"

MaxStart ==
  /\ route = "swap" /\ account # None /\ ~Paused
  /\ max' = [at |-> "balance", balance |-> 0, candidate |-> 0, gas |-> 0, step |-> 0]
  /\ UNCHANGED <<served, tip, account, form, known, visible, intent, page, reading, faults>>

\* The form takes the amount: a new context, unless it holds it already.
SetAmount(n) ==
  LET f == [form EXCEPT !.amount = n]
  IN /\ account' = account /\ known' = known /\ form' = f
     /\ cache' = Empty /\ due' = FALSE /\ fetch' = None /\ intent' = FALSE /\ max' = None

MaxBalance ==
  /\ max # None /\ max.at = "balance"
  /\ \E b \in Balances :
       IF SharesGas
       THEN /\ max' = [max EXCEPT !.at = "estimate", !.balance = b, !.candidate = MaximumSwapInput(b, 0)]
            /\ UNCHANGED <<account, form, known, intent, reading>>
       ELSE SetAmount(b)
  /\ UNCHANGED <<served, tip, visible, page, faults>>

\* The candidate is quoted, reviewed and simulated, never signed.
MaxEstimate ==
  /\ max # None /\ max.at = "estimate" /\ max.candidate > 0 /\ max.step < 3
  /\ \E g \in Gases : max' = [max EXCEPT !.at = "decide", !.gas = g, !.step = @ + 1]
  /\ UNCHANGED <<served, tip, account, form, known, visible, intent, page, reading, faults>>

\* Mutant of Accepted: the last candidate is taken unverified.
AcceptedLast(candidate, balance, gas) == max.step = 3 \/ MaximumSwapInput(balance, gas) >= candidate

\* A candidate stands if its own estimate asks for no smaller one.
Accepted(candidate, balance, gas) == MaximumSwapInput(balance, gas) >= candidate

MaxDecide ==
  /\ max # None /\ max.at = "decide"
  /\ IF Accepted(max.candidate, max.balance, max.gas)
     THEN SetAmount(max.candidate)
     ELSE /\ max' = [max EXCEPT !.at = "estimate", !.candidate = MaximumSwapInput(max.balance, max.gas)]
          /\ UNCHANGED <<account, form, known, intent, reading>>
  /\ UNCHANGED <<served, tip, visible, page, faults>>

\* No fresh balance, an approval to send first, a failed estimate, a candidate
\* of nothing, three candidates refused, or thirty seconds.
MaxFails ==
  /\ max # None /\ max.at \in {"balance", "estimate"}
  /\ max' = None
  /\ UNCHANGED <<served, tip, account, form, known, visible, intent, page, reading, faults>>

-----------------------------------------------------------------------------

World == (\E d \in Deployments : Rotate(d)) \/ (\E b \in Blocks : Index(b))

User ==
  \/ \E a \in Accounts[route] \cup {None} : Connect(a)
  \/ \E f \in Typed : Type(f)
  \/ LearnDeployment \/ Hide \/ Show \/ Click
  \/ \E open \in BOOLEAN : Review(open)
  \/ ListNext \/ ListPrevious \/ Restart

Maximum == MaxStart \/ MaxBalance \/ MaxEstimate \/ MaxDecide \/ MaxFails

Next == World \/ User \/ Timer \/ Tick \/ BeginFetch \/ FetchStep \/ Maximum

Spec == Init /\ [][Next]_vars

\* The browser and the network do not stand still: of the timers that are due,
\* the request under way and the passing of time something goes on.
Fairness == WF_vars(BeginFetch \/ FetchStep \/ Timer \/ Tick)

FairSpec == Spec /\ Fairness

-----------------------------------------------------------------------------

\* What a page shows as an observation of now: an estimate until it expires,
\* a balance, an invoice or a list of them unless the last read failed, a strategy
\* or a list of them unless it is being read again.
EstimateShown == Entry.data # None /\ ~Entry.expired
BalanceShown == EstimateShown /\ ~Entry.failed
StrategyShown == EstimateShown /\ ~Entry.failed /\ ~Fetching
InvoiceShown == Entry.data # None /\ ~Entry.failed
ListShown == Entry.data # None /\ ~Entry.failed /\ (route = "strategies" => ~Fetching)

Shown ==
  CASE route \in Quotes -> EstimateShown
    [] route = "balance" -> BalanceShown
    [] route = "strategy" -> StrategyShown
    [] route = "invoice" -> InvoiceShown
    [] OTHER -> ListShown

\* Whatever a visible page shows as current was asked for by the account and
\* inputs on the screen, was read under one deployment, and has not expired.
\* (useSwap.ts query key, freshUntil and expired; the decoders of the SDK.)
ShownIsCurrent ==
  visible /\ Shown =>
    /\ Entry.data.asked = Asked
    /\ Entry.data.reply.deployment = Entry.data.manifest
    /\ route = "balance" => Entry.data.manifest = known
    /\ route \in Expires => Entry.data.left > 0

\* Pages walked forward at one pin show, in order, the rows of the listing at
\* that pin, each once, and all of them once no page follows, whatever the
\* indexer adds or rolls back meanwhile. (useStrategies.ts and useInvoices.ts
\* navigation; the cursors of strategy-reads.ts and invoice-reads.ts.)
ListedOnce ==
  route \in Lists /\ account # None /\ Entry.data # None /\ ~Entry.failed =>
    LET reply == Entry.data.reply
        shown == Last(Nav.seen) \o reply.items
        rows == Listed(route, account, reply.pin)
    IN IF reply.next = None THEN shown = rows ELSE IsPrefix(shown, rows)

\* The amount Max sets is positive and leaves twice the gas, and at least the
\* least reserve, that the simulation of this very amount asked for.
\* (swap-controls.ts:18 "acceptance requires the final candidate's own
\* remaining-gas estimate")
MaxLeavesGas ==
  [][max # None /\ max.at = "decide" /\ form'.amount # form.amount /\ max' = None /\ form' \notin Typed =>
       /\ form'.amount = max.candidate /\ form'.amount > 0
       /\ form'.amount + 2 * max.gas <= max.balance
       /\ form'.amount + MinReserve <= max.balance]_vars

Steady ==
  /\ visible /\ ~Paused /\ account # None
  /\ route = "swap" => Valid
  /\ route = "balance" => known = served
  /\ Polled

\* No change of context, no hiding or review, no request dropped by Restart.
Undisturbed ==
  /\ UNCHANGED <<account, form, known, visible, page, max>>
  /\ fetch # None /\ fetch' = None => ~due'

\* Left alone in a visible tab, a page that refreshes by itself shows a current
\* observation again and again, whatever failed, rotated, was rolled back or
\* expired before. (useSwap.ts effects, refetchInterval of the others)
Recovers == (<>[]Steady /\ <>[][Undisturbed]_vars) => []<>Shown
=============================================================================
