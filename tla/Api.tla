-------------------------------- MODULE Api ---------------------------------
(***************************************************************************)
(* The reading side of the API: quotes for swaps and payments, readiness,  *)
(* metrics, invoices and strategies.  Every request reads the indexer's    *)
(* database, then the node, then the database again, and answers only if   *)
(* all it read belongs together.  Meanwhile the node grows or changes its  *)
(* branch, the indexer follows it, other requests share the weight of the  *)
(* RPC reads, the two places for quotes and the cache of quote batches,    *)
(* deadlines pass, clients hang up and the server closes.                  *)
(*                                                                         *)
(* What a service reads is a sequence of steps.  JavaScript runs from one  *)
(* await to the next without interruption: one action takes the result of  *)
(* a step, checks it and begins the next step.                             *)
(*                                                                         *)
(* Data is abstracted to the block it was read at.  Failed checks of ages, *)
(* times, schemas and coverage are in Fails.  One batch of inspections and *)
(* one of quotes stands for up to twelve and sixteen; the search for the   *)
(* input of a payment is module PaymentSearch.                             *)
(***************************************************************************)
EXTENDS QuoteCache, Sequences

CONSTANTS Requests,
          Kind,            \* the service each request asks for
          Intent,          \* what a quote asks: equal intents share cached batches
          Settings,        \* who asks, and what happens meanwhile, in one behaviour
          Places,          \* quotes served at a time
          RpcCapacity,     \* weight of the RPC reads under way at a time
          MaxHeight,       \* of the node's chain
          None

Kinds == {"swap", "payment", "direct", "absent", "ready", "metrics", "invoices", "strategies"}
Quotes == {"swap", "payment", "direct", "absent"}
Branches == {"a", "b"}

ASSUME ApiAssumption ==
  /\ Kind \in [Requests -> Kinds]
  /\ Places \in Nat \ {0}
  /\ RpcCapacity \in Nat \ {0}
  /\ None \notin Int \X Branches
  /\ \A s \in Settings : s.team \subseteq Requests /\ s.arc \in BOOLEAN

VARIABLES
  setting,    \* the team of requests, the network, and what the environment may still do
  node,       \* the head of the node's chain and its branch
  index,      \* the indexed blocks: the last one's height and branch, and the indexer's status
  req,        \* each request
  rpc,        \* activeRpcRequests
  held,       \* the part of it each request has reserved
  reading,    \* the requests with a database read under way
  places,     \* activeQuoteServices
  lease,      \* of a quote's place: "none", "held", "draining"
  cache, clock, closed

vars == <<setting, node, index, req, rpc, held, reading, places, lease, cache, clock, closed>>
capacity == <<rpc, held, reading, places, lease>>

-----------------------------------------------------------------------------
(* Blocks.  Branches share block 1; a block is its height and its branch.  *)

BlockOf(chain, h) == <<h, IF h = 1 THEN "a" ELSE chain.branch>>
OnNode(b) == b[1] <= node.head /\ b = BlockOf(node, b[1])
Indexed(b) == b[1] <= index.tip /\ b = BlockOf(index, b[1])
Tip == BlockOf(index, index.tip)

\* A later observation may advance, but not go back or replace the same tip.
CursorFollows(previous, current) ==
  current[1] > previous[1] \/ current = previous

\* Two confirmations, neither fewer nor more; on Arc the index may lag behind.
Confirmed(head, block) == head >= block[1] + 2
IsFreshIndexedHead(head, block) ==
  Confirmed(head, block) /\ head - block[1] <= (IF setting.arc THEN 8 ELSE 2)

-----------------------------------------------------------------------------
(* What one transaction of the database shows: the cursor, the block the   *)
(* rows are as of, and whether the read is complete.                       *)

Shows(complete, block) == [ok |-> complete, cursor |-> Tip, block |-> block]

\* A plausible fault: the rows of a pinned read are those of the tip.
RowsAt_Tip(pin) == Tip
RowsAt(pin) == IF pin = None THEN Tip ELSE pin

ReadStrategies(pin) ==
  Shows(index.status = "indexing" /\ Indexed(IF pin = None THEN Tip ELSE pin), RowsAt(pin))

ReadInvoices(pin) ==
  Shows(index.status = "indexing" /\ Indexed(IF pin = None THEN Tip ELSE pin), RowsAt(pin))

ReadReceiptMetrics == Shows(index.status = "indexing", Tip)

ReadIndexedState == Shows(index.status = "indexing", Tip)

-----------------------------------------------------------------------------
(* The steps of each service.  The kinds "payment", "direct" and "absent"  *)
(* are payment quotes of an invoice paid by a swap, paid in USDC and not   *)
(* found.                                                                  *)

SwapSteps == <<"candidates", "identity", "inspect", "quote", "identity", "candidates">>
PaymentSteps ==
  <<"invoice", "identity", "context", "candidates", "inspect", "quote", "context", "identity", "invoice", "candidates">>
DirectSteps == <<"invoice", "identity", "context", "context", "identity", "invoice">>
AbsentSteps == <<"invoice", "identity", "identity", "invoice">>
ReadySteps == <<"state", "blocks", "state">>
MetricsSteps == <<"totals", "blocks", "totals">>
InvoiceSteps == <<"invoice", "blocks", "invoice">>
StrategySteps == <<"strategies", "getters", "strategies">>

Steps(r) ==
  CASE Kind[r] = "swap" -> SwapSteps
    [] Kind[r] = "payment" -> PaymentSteps
    [] Kind[r] = "direct" -> DirectSteps
    [] Kind[r] = "absent" -> AbsentSteps
    [] Kind[r] = "ready" -> ReadySteps
    [] Kind[r] = "metrics" -> MetricsSteps
    [] Kind[r] = "invoices" -> InvoiceSteps
    [] Kind[r] = "strategies" -> StrategySteps

DatabaseSteps == {"candidates", "invoice", "state", "totals", "strategies"}

\* The number of calls in a step's batch or group is what it reserves.
Weights(r, step) ==
  CASE step = "identity" -> {3}
    [] step = "context" -> {IF Kind[r] = "direct" THEN 7 ELSE 8}
    [] step = "inspect" -> {3, 8}
    [] step = "quote" -> {1}
    [] step = "blocks" -> IF Kind[r] = "metrics" THEN {3, 5} ELSE {3}
    [] step = "getters" -> {3, 6}

IsQuote(r) == Kind[r] \in Quotes
Step(r) == Steps(r)[req[r].at]

-----------------------------------------------------------------------------
(* Requests.                                                               *)

Idle == [at |-> 0, doing |-> "idle", pin |-> None, cursor |-> None, head |-> 0, got |-> {},
         data |-> {}, age |-> 0, stamps |-> {}, answer |-> "none"]

Init ==
  /\ setting \in Settings
  /\ node = [head |-> 4, branch |-> "a"]
  /\ index = [tip |-> 2, branch |-> "a", status |-> "indexing"]
  /\ req = [r \in Requests |-> Idle]
  /\ rpc = 0
  /\ held = [r \in Requests |-> 0]
  /\ reading = {}
  /\ places = 0
  /\ lease = [r \in Requests |-> "none"]
  /\ cache = EmptyCache
  /\ clock = 0
  /\ closed = FALSE

Environment == <<setting, node, index, clock, closed>>

Ended(r, answer) ==
  req' = [req EXCEPT ![r] = [Idle EXCEPT !.doing = "done", !.answer = answer]]

\* A plausible fault: the place of a quote is free as soon as it is answered.
LeaseEnds_AtOnce(r, stillReading) ==
  IF IsQuote(r)
  THEN places' = places - 1 /\ lease' = [lease EXCEPT ![r] = "none"]
  ELSE UNCHANGED <<places, lease>>

\* A plausible fault: a place whose database read goes on is never given back.
LeaseEnds_Lost(r, stillReading) ==
  IF IsQuote(r) /\ ~stillReading
  THEN places' = places - 1 /\ lease' = [lease EXCEPT ![r] = "none"]
  ELSE UNCHANGED <<places, lease>>

\* The place is given back when the service ends; if a database read of it is
\* still under way, only once that has settled.
LeaseEnds(r, stillReading) ==
  IF ~IsQuote(r) THEN UNCHANGED <<places, lease>>
  ELSE IF stillReading
  THEN lease' = [lease EXCEPT ![r] = "draining"] /\ UNCHANGED places
  ELSE places' = places - 1 /\ lease' = [lease EXCEPT ![r] = "none"]

Releases(r) == rpc' = rpc - held[r] /\ held' = [held EXCEPT ![r] = 0]

Answers(r, answer) ==
  /\ Ended(r, answer)
  /\ Releases(r)
  /\ reading' = reading \ {r}
  /\ LeaseEnds(r, FALSE)

BeginsReading(r, q) ==
  /\ req' = [req EXCEPT ![r] = [q EXCEPT !.doing = "db"]]
  /\ Releases(r)
  /\ reading' = reading \cup {r}
  /\ UNCHANGED <<places, lease>>

\* A plausible fault: the counter is compared before the batch is added to it.
Reserves_ChecksBefore(r, q, weight) ==
  /\ rpc - held[r] < RpcCapacity
  /\ req' = [req EXCEPT ![r] = [q EXCEPT !.doing = "rpc"]]
  /\ rpc' = rpc - held[r] + weight
  /\ held' = [held EXCEPT ![r] = weight]
  /\ reading' = reading \ {r}
  /\ UNCHANGED <<places, lease>>

\* RPC weight is refused at once, not waited for, when it would pass eight.
Reserves(r, q, weight) ==
  /\ rpc - held[r] + weight <= RpcCapacity
  /\ req' = [req EXCEPT ![r] = [q EXCEPT !.doing = "rpc"]]
  /\ rpc' = rpc - held[r] + weight
  /\ held' = [held EXCEPT ![r] = weight]
  /\ reading' = reading \ {r}
  /\ UNCHANGED <<places, lease>>

\* Step q.at is done and c is the cache after it: the next step begins, or the
\* request is answered.  A batch of quotes found in the cache is not read.
GoesOn(r, q, c) ==
  LET quoting == q.at < Len(Steps(r)) /\ Steps(r)[q.at + 1] = "quote"
      hits == IF quoting THEN Found(c, clock, <<q.pin, Intent[r]>>) ELSE {}
      next == q.at + 1 + Cardinality(hits)
      looked == IF quoting THEN Timed(c, clock) ELSE c
      p == [q EXCEPT !.at = next, !.got = {},
                     !.stamps = IF quoting /\ hits = {} THEN Begun(looked, clock) ELSE {},
                     !.data = @ \cup {e.block : e \in hits},
                     !.age = IF hits = {} THEN @ ELSE clock - (CHOOSE e \in hits : TRUE).stamp.at]
  IN /\ cache' = looked
     /\ IF next > Len(Steps(r))
        THEN Answers(r, IF closed /\ IsQuote(r) THEN "unavailable" ELSE "observed")
        ELSE IF closed THEN Answers(r, "unavailable")
        ELSE IF Steps(r)[next] \in DatabaseSteps THEN BeginsReading(r, p)
        ELSE \E w \in Weights(r, Steps(r)[next]) :
               \/ Reserves(r, p, w)
               \/ rpc - held[r] + w > RpcCapacity /\ Answers(r, "unavailable")

-----------------------------------------------------------------------------
(* Admission: two quotes at a time and no queue.                           *)

ObserveQuote(r) ==
  /\ IsQuote(r)
  /\ IF closed \/ places >= Places
     THEN Ended(r, "refused") /\ UNCHANGED <<reading, places, lease>>
     ELSE /\ places' = places + 1
          /\ lease' = [lease EXCEPT ![r] = "held"]
          /\ reading' = reading \cup {r}
          /\ req' = [req EXCEPT ![r] = [Idle EXCEPT !.at = 1, !.doing = "db"]]

BeginRead(r) ==
  /\ ~IsQuote(r)
  /\ IF closed
     THEN Ended(r, "unavailable") /\ UNCHANGED reading
     ELSE /\ reading' = reading \cup {r}
          /\ req' = [req EXCEPT ![r] = [Idle EXCEPT !.at = 1, !.doing = "db"]]
  /\ UNCHANGED <<places, lease>>

Arrives(r) ==
  /\ r \in setting.team
  /\ req[r].doing = "idle"
  /\ ObserveQuote(r) \/ BeginRead(r)
  /\ UNCHANGED <<rpc, held, cache>>
  /\ UNCHANGED Environment

-----------------------------------------------------------------------------
(* Database reads.  s is what the transaction shows.                       *)

ReadDatabase(r) ==
  CASE Step(r) \in {"candidates", "strategies"} -> ReadStrategies(req[r].pin)
    [] Step(r) = "invoice" -> ReadInvoices(req[r].pin)
    [] Step(r) = "totals" -> ReadReceiptMetrics
    [] Step(r) = "state" -> ReadIndexedState

\* The candidates again, at their pin: on Arc the tip must not have gone back.
SwapAccepts(q, s) ==
  /\ setting.arc => CursorFollows(q.cursor, s.cursor)
  /\ IsFreshIndexedHead(q.head, s.cursor)

\* Candidates at the invoice's pin, then both again after the RPC reads; off
\* Arc the tip may not move between two reads of candidates and invoice.
PaymentAccepts(q, s, first) ==
  /\ IF setting.arc \/ q.at = 9
     THEN setting.arc => CursorFollows(q.cursor, s.cursor)
     ELSE s.cursor = q.cursor
  /\ first \/ IsFreshIndexedHead(q.head, s.cursor)

\* Readiness and metrics allow no change at all.
ReadinessAccepts(q, s) == s.cursor = q.pin
MetricsAccepts(q, s) == s.cursor = q.pin

\* Listings only need their pinned rows; a tip that moved is shown as such.
InvoicesAccept(q, s) == s.block = q.pin
StrategiesAccept(q, s) == s.block = q.pin

Accepts(r, q, s) ==
  /\ s.ok
  /\ q.pin # None =>
       CASE Kind[r] = "swap" -> SwapAccepts(q, s)
         [] Kind[r] = "payment" -> PaymentAccepts(q, s, q.at = 4)
         [] Kind[r] \in {"direct", "absent"} ->
              /\ setting.arc => CursorFollows(q.cursor, s.cursor)
              /\ IsFreshIndexedHead(q.head, s.cursor)
         [] Kind[r] = "ready" -> ReadinessAccepts(q, s)
         [] Kind[r] = "metrics" -> MetricsAccepts(q, s)
         [] Kind[r] = "invoices" -> InvoicesAccept(q, s)
         [] Kind[r] = "strategies" -> StrategiesAccept(q, s)

DatabaseReturns(r) ==
  /\ req[r].doing = "db"
  /\ ~(closed /\ IsQuote(r))
  /\ LET q == req[r]
         s == ReadDatabase(r)
     IN IF Accepts(r, q, s)
        THEN GoesOn(r, [q EXCEPT !.pin = IF @ = None THEN s.block ELSE @,
                                 !.cursor = s.cursor,
                                 !.data = @ \cup {s.block}], cache)
        ELSE Answers(r, "unavailable") /\ UNCHANGED cache
  /\ UNCHANGED Environment

-----------------------------------------------------------------------------
(* RPC reads.  A batch is answered by one node at one moment; calls name   *)
(* the pinned block's hash and fail when it is no longer canonical.        *)

Batches == {"identity", "context", "inspect", "quote"}

IdentityHolds(q) ==
  /\ OnNode(q.pin)
  /\ Confirmed(node.head, q.pin)
  /\ IF q.head = 0 THEN IsFreshIndexedHead(node.head, q.cursor) ELSE node.head >= q.head

ReadQuoteIdentity(r) ==
  /\ IdentityHolds(req[r])
  /\ GoesOn(r, [req[r] EXCEPT !.head = node.head], cache)

ReadPaymentContext(r) ==
  /\ OnNode(req[r].pin)
  /\ GoesOn(r, [req[r] EXCEPT !.data = @ \cup {req[r].pin}], cache)

ReadInspections(r) ==
  /\ OnNode(req[r].pin)
  /\ GoesOn(r, [req[r] EXCEPT !.data = @ \cup {req[r].pin}], cache)

\* A batch with a revert, a partial fill or an empty quote is not kept.
ReadQuotes(r) ==
  LET q == req[r] IN
  /\ OnNode(q.pin)
  /\ \E c \in {cache, Put(cache, clock, <<q.pin, Intent[r]>>, q.stamps, q.pin)} :
       GoesOn(r, [q EXCEPT !.data = @ \cup {q.pin}], c)

BatchReturns(r) ==
  /\ req[r].doing = "rpc"
  /\ Step(r) \in Batches
  /\ ~closed
  /\ \/ Step(r) = "identity" /\ ReadQuoteIdentity(r)
     \/ Step(r) = "context" /\ ReadPaymentContext(r)
     \/ Step(r) = "inspect" /\ ReadInspections(r)
     \/ Step(r) = "quote" /\ ReadQuotes(r)
  /\ UNCHANGED Environment

\* Readiness, metrics, invoices and strategies send their calls one by one;
\* the answers may be of different moments.
Parts(r) == IF Kind[r] = "strategies" THEN {"head", "block", "calls"} ELSE {"head", "block"}

GroupAccepts(r, q) ==
  /\ "orphaned" \notin q.got
  /\ Confirmed(q.head, q.pin)
  /\ Kind[r] = "ready" => IsFreshIndexedHead(q.head, q.pin)

PartReturns(r) ==
  /\ req[r].doing = "rpc"
  /\ Step(r) \notin Batches
  /\ ~closed
  /\ \E part \in Parts(r) \ req[r].got :
       LET orphaned == part # "head" /\ ~OnNode(req[r].pin)
           q == [req[r] EXCEPT !.got = @ \cup {part} \cup (IF orphaned THEN {"orphaned"} ELSE {}),
                               !.head = IF part = "head" THEN node.head ELSE @]
       IN IF ~(Parts(r) \subseteq q.got)
          THEN /\ req' = [req EXCEPT ![r] = q]
               /\ UNCHANGED <<capacity, cache>>
          ELSE IF GroupAccepts(r, q)
          THEN GoesOn(r, q, cache)
          ELSE Answers(r, "unavailable") /\ UNCHANGED cache
  /\ UNCHANGED Environment

-----------------------------------------------------------------------------
(* Failures, deadlines and the end of the server.                          *)

\* A read fails, or what it returned fails a check that is not modelled.
Fails(r) ==
  /\ req[r].doing \in {"db", "rpc"}
  /\ Answers(r, "unavailable")
  /\ UNCHANGED cache
  /\ UNCHANGED Environment

\* The deadline of the quote passes, its client hangs up or the server closes:
\* RPC reads are aborted and their weight is free, a database read goes on.
QuoteGivesUp(r) ==
  /\ IsQuote(r)
  /\ req[r].doing \in {"db", "rpc"}
  /\ Ended(r, "unavailable")
  /\ Releases(r)
  /\ LeaseEnds(r, r \in reading)
  /\ UNCHANGED <<reading, cache>>
  /\ UNCHANGED Environment

\* A bounded read of the other services is answered late: whatever it is doing
\* goes on and keeps what it holds until it settles.
ReaderGivesUp(r) ==
  /\ ~IsQuote(r)
  /\ req[r].doing \in {"db", "rpc"}
  /\ Ended(r, "unavailable")
  /\ UNCHANGED <<capacity, cache>>
  /\ UNCHANGED Environment

DatabaseSettles(r) ==
  /\ req[r].doing = "done"
  /\ r \in reading
  /\ reading' = reading \ {r}
  /\ IF lease[r] = "draining"
     THEN places' = places - 1 /\ lease' = [lease EXCEPT ![r] = "none"]
     ELSE UNCHANGED <<places, lease>>
  /\ UNCHANGED <<req, rpc, held, cache>>
  /\ UNCHANGED Environment

RpcSettles(r) ==
  /\ req[r].doing = "done"
  /\ held[r] > 0
  /\ Releases(r)
  /\ UNCHANGED <<req, reading, places, lease, cache>>
  /\ UNCHANGED Environment

Close ==
  /\ setting.close
  /\ ~closed
  /\ closed' = TRUE
  /\ cache' = Cleared(cache)
  /\ UNCHANGED <<setting, node, index, req, capacity, clock>>

-----------------------------------------------------------------------------
(* The environment, within the bounds of the setting.                      *)

Spend(what) == setting[what] > 0 /\ setting' = [setting EXCEPT ![what] = @ - 1]

Mine ==
  /\ Spend("blocks")
  /\ node.head < MaxHeight
  /\ node' = [node EXCEPT !.head = @ + 1]
  /\ UNCHANGED <<index, req, capacity, cache, clock, closed>>

Reorganises ==
  /\ Spend("reorgs")
  /\ \E h \in {node.head - 1, node.head} :
       node' = [head |-> h, branch |-> IF node.branch = "a" THEN "b" ELSE "a"]
  /\ UNCHANGED <<index, req, capacity, cache, clock, closed>>

\* The indexer adds a confirmed block, or removes the blocks the node left.
Follows ==
  /\ \/ /\ OnNode(Tip)
        /\ index.tip + 2 < node.head
        /\ index' = [index EXCEPT !.tip = @ + 1, !.branch = node.branch]
     \/ /\ ~OnNode(Tip)
        /\ index' = [index EXCEPT !.tip = 1, !.branch = "a"]
  /\ UNCHANGED <<setting, node, req, capacity, cache, clock, closed>>

\* The indexer demands a resync, or the deployment's projection falls behind
\* the chain's cursor; later both are settled.
Unsettles ==
  /\ Spend("latches")
  /\ index.status = "indexing"
  /\ index' = [index EXCEPT !.status = "unready"]
  /\ UNCHANGED <<node, req, capacity, cache, clock, closed>>

Settles ==
  /\ index.status = "unready"
  /\ index' = [index EXCEPT !.status = "indexing"]
  /\ UNCHANGED <<setting, node, req, capacity, cache, clock, closed>>

Ticks ==
  /\ Spend("ticks")
  /\ clock' = clock + 1
  /\ UNCHANGED <<node, index, req, capacity, cache, closed>>

GoesBack ==
  /\ Spend("backs")
  /\ clock > 0
  /\ clock' = clock - 1
  /\ UNCHANGED <<node, index, req, capacity, cache, closed>>

-----------------------------------------------------------------------------
RequestNext(r) ==
  \/ Arrives(r) \/ DatabaseReturns(r) \/ BatchReturns(r) \/ PartReturns(r)
  \/ Fails(r) \/ QuoteGivesUp(r) \/ ReaderGivesUp(r) \/ DatabaseSettles(r) \/ RpcSettles(r)

EnvironmentNext ==
  Close \/ Mine \/ Reorganises \/ Follows \/ Unsettles \/ Settles \/ Ticks \/ GoesBack

Next == (\E r \in Requests : RequestNext(r)) \/ EnvironmentNext

Spec == Init /\ [][Next]_vars

\* Every service has a deadline, and so has every query (query_timeout,
\* statement_timeout) and every RPC read (its signal).
Fairness ==
  \A r \in Requests :
    /\ WF_vars(QuoteGivesUp(r) \/ ReaderGivesUp(r))
    /\ WF_vars(DatabaseSettles(r))
    /\ WF_vars(RpcSettles(r))

FairSpec == Spec /\ Fairness

-----------------------------------------------------------------------------
(* Properties.                                                             *)

\* The RPC reads each request has reserved, one by one.
Reserved == UNION {{r} \X (1 .. held[r]) : r \in Requests}

\* The weight of the RPC reads under way never passes the capacity, and the
\* counter is what the requests hold: reads that fail, time out, are aborted
\* or outlive their answer all give back what they took, once.
RpcWeightAccounted == rpc = Cardinality(Reserved) /\ rpc <= RpcCapacity

\* Quotes never have more database reads under way than there are places, the
\* reads of quotes already answered included: a stream of quotes that time out
\* cannot take the connections of the other services.
QuoteReadsBounded ==
  Cardinality({r \in reading : IsQuote(r)}) <= Places

\* Both limits the requests share hold, whatever times out or is cancelled
\* (runtime.ts:26-30, 145-153).
CapacityHeld == RpcWeightAccounted /\ QuoteReadsBounded

\* An answer is made of data of one block, and at the moment of its last read
\* the indexer was ready and had that block on its chain; readiness and metrics
\* speak of the indexed tip itself.  (A request is forgotten when it is
\* answered: what it read is that of its last state.)
AnswersOnePinnedBlock ==
  [][\A r \in Requests :
       req'[r].answer = "observed" /\ req[r].answer = "none" =>
         /\ req[r].data \cup {ReadDatabase(r).block} = {req[r].pin}
         /\ Indexed(req[r].pin)
         /\ index.status = "indexing"
         /\ Kind[r] \in {"ready", "metrics"} => Tip = req[r].pin]_vars

\* A quote is never made of a batch that is older than the cache's time, counted
\* from before the batch was read, nor of one read before the cache was cleared.
CachedQuotesAreRecent ==
  /\ \A r \in Requests : req[r].age < Ttl
  /\ \A e \in cache.entries : e.stamp.generation = cache.generation

\* All capacity comes back in the end, whatever requests, reads and the server's
\* close were doing.
CapacityReturns == <>[](rpc = 0 /\ places = 0 /\ reading = {})
=============================================================================
