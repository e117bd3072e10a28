------------------------------ MODULE Indexer ------------------------------
(***************************************************************************)
(* The event indexer: workers that run syncDeploymentOnce                  *)
(* (apps/indexer/src/materializer.ts) in a loop against one PostgreSQL     *)
(* database (packages/db/src), while the chain reorganises under them.     *)
(*                                                                         *)
(* A step of a worker is one RPC read or one database transaction: between *)
(* two of them other workers commit and the chain changes its tip.  The    *)
(* chain is a fixed tree of blocks of which one branch is canonical; a     *)
(* block stands for its hash, so it carries its height and its parent.     *)
(* The log of an emitter in a block is one log; a router has one strategy  *)
(* and a payments contract one invoice.  A worker may fail at any          *)
(* point: a crash, an RPC error and a rolled back transaction all lose     *)
(* what it had read and nothing else.                                      *)
(***************************************************************************)
EXTENDS Integers, Sequences, FiniteSets

CONSTANTS
  Blocks, None,
  Height, Parent,  \* of a block; the parent of the lowest blocks is None
  Ancestors,       \* Ancestors[b]: b and all the blocks below it
  Tips,            \* blocks that can be the tip of the canonical chain
  Emitters,        \* contract addresses
  LogsOf,          \* LogsOf[b]: emitters with a log in block b
  EventOf,         \* EventOf[b][e]: which event that log is
  Deployments,
  EmittersOf,      \* EmittersOf[d]: Aqua, router and payments of a deployment
  RouterOf,        \* its router
  PaymentsOf,      \* its payments contract
  StartOf,         \* its startBlock
  Workers,
  Settings,        \* which deployment each worker is started for, the tips the
                   \* chain may have then, and how many tip changes and worker
                   \* failures a behaviour may have
  Migrated,        \* blocks indexed before swap receipts existed, or {}
  MigratedFor,     \* the deployment they were indexed for
  REORG_WINDOW,    \* stored blocks a rollback may look back on (64)
  MaxBlocks,       \* MAX_SYNC_BLOCKS (64)
  ByRange,         \* logs are fetched by number range, else by block hash
  Return           \* a branch the chain has left may become canonical again

ASSUME ConstantsAssumption ==
  /\ None \notin Blocks
  /\ Height \in [Blocks -> Nat] /\ Parent \in [Blocks -> Blocks \cup {None}]
  /\ Ancestors \in [Blocks -> SUBSET Blocks]
  /\ \A b \in Blocks :
       /\ Ancestors[b] = {b} \cup (IF Parent[b] = None THEN {} ELSE Ancestors[Parent[b]])
       /\ Parent[b] # None => Height[b] = Height[Parent[b]] + 1
       /\ \A c, e \in Ancestors[b] : Height[c] = Height[e] => c = e
  /\ Tips \subseteq Blocks
  /\ LogsOf \in [Blocks -> SUBSET Emitters]
  /\ EmittersOf \in [Deployments -> SUBSET Emitters]
  /\ \A d \in Deployments :
       {RouterOf[d], PaymentsOf[d]} \subseteq EmittersOf[d] /\ StartOf[d] \in Nat
  /\ \A s \in Settings :
       s.serves \in [Workers -> Deployments] /\ s.from \subseteq Tips /\ s.faults \in Nat
  /\ Migrated \subseteq Blocks /\ MigratedFor \in Deployments
  /\ Migrated = {}
     \/ \E b \in Migrated : Migrated = {c \in Ancestors[b] : Height[c] >= StartOf[MigratedFor]}
  /\ REORG_WINDOW \in Nat \ {0} /\ MaxBlocks \in Nat \ {0}
  /\ ByRange \in BOOLEAN /\ Return \in BOOLEAN

VARIABLES
  setting,   \* the workers' deployments, the first tips and the bound on faults
  tip,       \* tip of the canonical chain
  gone,      \* blocks that were canonical and are not (kept when ~Return)
  stored,    \* indexed_blocks
  cursor,    \* indexer_cursor
  status,    \* indexer_state
  events,    \* chain_events: pairs <<block, emitter>>
  snapshots, \* strategy_snapshots and invoice_snapshots of a deployment: the
             \* events they are projected from, by deployment
  coverage,  \* deployment_blocks, by deployment
  legacy,    \* those of coverage with swap_projection_version 0
  dcursor,   \* deployment_cursor, by deployment
  work,      \* the locals of each worker
  faults     \* tip changes and failures so far

chain == <<setting, tip, gone>>
db == <<stored, cursor, status, events, snapshots, coverage, legacy, dcursor>>
vars == <<setting, tip, gone, stored, cursor, status, events, snapshots, coverage, legacy, dcursor,
          work, faults>>

Rest == [pc |-> "rest", cursor |-> None, left |-> {}, seen |-> {}, dcursor |-> None, head |-> 0,
         pending |-> None, sources |-> {}, headers |-> <<>>, logs |-> <<>>]

Highest(S) == IF S = {} THEN None ELSE CHOOSE b \in S : \A c \in S : Height[c] <= Height[b]
Lowest(S) == IF S = {} THEN None ELSE CHOOSE b \in S : \A c \in S : Height[c] >= Height[b]

\* Mutant of Window: one row fewer than the limit.
WindowShort(S) == {b \in S : Cardinality({c \in S : Height[c] >= Height[b]}) < REORG_WINDOW}

\* ORDER BY height DESC LIMIT 64
Window(S) == {b \in S : Cardinality({c \in S : Height[c] > Height[b]}) < REORG_WINDOW}

Scoped(d, b) == LogsOf[b] \cap EmittersOf[d]

StrategyEvents == {"StrategyActivated", "OrbitalSwapExecuted", "StrategyRetired"}
InvoiceEvents == {"InvoiceCreated", "InvoicePaid", "InvoiceCancelled"}

\* decode: the logs that are projected are the strategy events of the router
\* and the invoice events of the payments contract; Aqua's are kept raw.
Decoded ==
  [d \in Deployments |-> [b \in Blocks |->
     {e \in Scoped(d, b) : \/ e = RouterOf[d] /\ EventOf[b][e] \in StrategyEvents
                           \/ e = PaymentsOf[d] /\ EventOf[b][e] \in InvoiceEvents}]]

\* What a log is projected to: its event and the version it leaves behind.
Projection ==
  [b \in Blocks |-> [e \in Emitters |->
     [event |-> EventOf[b][e], version |-> Cardinality({c \in Ancestors[b] : e \in LogsOf[c]})]]]

Rows(d, b, projected) == {<<b, e>> : e \in Decoded[d][b] \cap projected}

Init ==
  /\ setting \in Settings
  /\ tip \in setting.from
  /\ stored \in {{}, Migrated}
  /\ gone = IF Return THEN {} ELSE stored \ Ancestors[tip]
  /\ cursor = Highest(stored)
  /\ status = "indexing"
  /\ events = {p \in stored \X Emitters : p[2] \in Scoped(MigratedFor, p[1])}
  /\ coverage = [d \in Deployments |-> IF d = MigratedFor THEN stored ELSE {}]
  /\ legacy = coverage
  /\ snapshots = [d \in Deployments |->
       UNION {{r \in Rows(d, b, Emitters) : EventOf[b][r[2]] # "OrbitalSwapExecuted"} : b \in coverage[d]}]
  /\ dcursor = [d \in Deployments |-> Highest(coverage[d])]
  /\ work = [w \in Workers |-> Rest]
  /\ faults = 0

-----------------------------------------------------------------------------
(* The chain and its provider *)

\* The canonical block of a height, as a set: a short chain has none.
CanonicalAt(n) == {b \in Ancestors[tip] : Height[b] = n}

Canonical(b) == b \in Ancestors[tip]

Switch(b) ==
  /\ faults < setting.faults
  /\ b # tip
  /\ Ancestors[b] \cap gone = {}
  /\ tip' = b
  /\ gone' = IF Return THEN {} ELSE gone \cup (Ancestors[tip] \ Ancestors[b])
  /\ faults' = faults + 1
  /\ UNCHANGED <<setting, db, work>>

-----------------------------------------------------------------------------
(* One attempt of a worker.  Return to Rest is the end of an attempt: idle, *)
(* retry, rolled_back, backfilled, indexed and every thrown error poll      *)
(* again; resync_required stops the process (index.ts).                     *)

At(w, pc) == work[w].pc = pc
Set(w, new) == work' = [work EXCEPT ![w] = new]
Goto(w, pc) == Set(w, [work[w] EXCEPT !.pc = pc])
EndAttempt(w) == Set(w, Rest)
Stop(w) == Set(w, [Rest EXCEPT !.pc = "stopped"])

\* indexerSnapshot: one repeatable-read transaction.
Snapshot(w) ==
  /\ At(w, "rest")
  /\ IF status = "resync_required" THEN Stop(w)
     ELSE Set(w, [Rest EXCEPT !.pc = "cursor", !.cursor = cursor, !.left = Window(stored)])
  /\ UNCHANGED <<chain, db, faults>>

\* deploymentCursor: another query, after the snapshot.
ReadCursor(w) ==
  /\ At(w, "cursor")
  /\ Set(w, [work[w] EXCEPT !.pc = "head", !.dcursor = dcursor[setting.serves[w]]])
  /\ UNCHANGED <<chain, db, faults>>

ReadHead(w) ==
  /\ At(w, "head")
  /\ LET head == Height[tip]
         pc == IF work[w].cursor = None THEN "backfill" ELSE "scan"
     IN IF pc = "scan" /\ (head < Height[work[w].cursor] \/ work[w].left = {}) THEN EndAttempt(w)
        ELSE Set(w, [work[w] EXCEPT !.pc = pc, !.head = head])
  /\ UNCHANGED <<chain, db, faults>>

\* One header of the descending scan, until one is the header that is stored.
Scan(w) ==
  /\ At(w, "scan")
  /\ LET b == Highest(work[w].left)
         read == CanonicalAt(Height[b])
         left == IF b \in read THEN {} ELSE work[w].left \ {b}
     IN IF read = {} THEN EndAttempt(w)
        ELSE Set(w, [work[w] EXCEPT !.seen = @ \cup read, !.left = left,
                                    !.pc = IF left = {} THEN "recheck" ELSE "scan"])
  /\ UNCHANGED <<chain, db, faults>>

RecheckTop(w) ==
  /\ At(w, "recheck")
  /\ IF Canonical(Highest(work[w].seen)) THEN Goto(w, "reconcile") ELSE EndAttempt(w)
  /\ UNCHANGED <<chain, db, faults>>

\* The headers of a scan must be one chain, from the cursor's height down.
ValidWindow(w) ==
  LET seen == work[w].seen
  IN /\ Height[Highest(seen)] = Height[work[w].cursor]
     /\ \A b \in seen \ {Lowest(seen)} : Parent[b] \in seen

\* Mutant of Rewound: rows are deleted, deployment cursors stay.
NotRewound(d, anc, kept) == dcursor[d]

\* rollbackDeploymentCursors
Rewound(d, anc, kept) ==
  IF dcursor[d] # None /\ Height[dcursor[d]] > Height[anc] THEN Highest(coverage[d] \cap kept)
  ELSE dcursor[d]

\* DELETE FROM indexed_blocks and its cascades, then the cursors.
RollbackTo(anc) ==
  LET kept == {b \in stored : Height[b] <= Height[anc]} IN
  /\ stored' = kept
  /\ cursor' = anc
  /\ events' = {p \in events : p[1] \in kept}
  /\ coverage' = [d \in Deployments |-> coverage[d] \cap kept]
  /\ legacy' = [d \in Deployments |-> legacy[d] \cap kept]
  /\ snapshots' = [d \in Deployments |-> {r \in snapshots[d] : r[1] \in kept}]
  /\ dcursor' = [d \in Deployments |-> Rewound(d, anc, kept)]
  /\ UNCHANGED status

\* Mutant of Unmoved: the cursor under the lock is not compared.
AlwaysUnmoved(w) == TRUE

\* The cursor has not moved since the snapshot (else cursor_changed).
Unmoved(w) == cursor = work[w].cursor

\* reconcileCanonicalChain: one transaction under the chain's advisory lock.
Reconcile(w) ==
  LET seen == work[w].seen
      window == Window(stored)
      common == window \cap seen
      usable == ValidWindow(w) /\ Unmoved(w)
      stopped == status = "resync_required"
  IN /\ At(w, "reconcile")
     /\ \/ ~usable /\ EndAttempt(w) /\ UNCHANGED db
        \/ usable /\ stopped /\ Stop(w) /\ UNCHANGED db
        \/ /\ usable /\ ~stopped /\ common = {}
           /\ IF window = {} \/ Height[Lowest(seen)] > Height[Lowest(window)]
              THEN EndAttempt(w) /\ UNCHANGED db
              ELSE /\ status' = "resync_required"
                   /\ Stop(w)
                   /\ UNCHANGED <<stored, cursor, events, snapshots, coverage, legacy, dcursor>>
        \/ /\ usable /\ ~stopped /\ Highest(common) = cursor
           /\ Goto(w, "backfill") /\ UNCHANGED db
        \/ /\ usable /\ ~stopped /\ common # {} /\ Highest(common) # cursor
           /\ RollbackTo(Highest(common)) /\ EndAttempt(w)
     /\ UNCHANGED <<chain, faults>>

-----------------------------------------------------------------------------
(* Projections: each row continues the history of its strategy or invoice.  *)

\* The latest row of a contract in the blocks below.
Prior(d, b, e) == Highest({r[1] : r \in {q \in snapshots[d] : q[2] = e /\ Height[q[1]] < Height[b]}})

Succeeds(d, b, e, ends) ==
  LET prior == Prior(d, b, e) IN
  /\ prior # None
  /\ Projection[prior][e].event \notin ends
  /\ Projection[b][e].version = Projection[prior][e].version + 1

\* swapEvent: a swap of an active strategy that leaves the next version.
SwapFollows(d, b, e) == Succeeds(d, b, e, {"StrategyRetired"})

StrategyFollows(d, b, e) ==
  CASE EventOf[b][e] = "StrategyActivated" -> Prior(d, b, e) = None
    [] EventOf[b][e] = "StrategyRetired" -> Succeeds(d, b, e, {"StrategyRetired"})
    [] EventOf[b][e] = "OrbitalSwapExecuted" -> SwapFollows(d, b, e)

\* invoiceEvent: an invoice is created once, and paid or cancelled once.
InvoiceFollows(d, b, e) ==
  IF EventOf[b][e] = "InvoiceCreated" THEN Prior(d, b, e) = None
  ELSE Succeeds(d, b, e, {"InvoicePaid", "InvoiceCancelled"})

\* A projection that does not fit fails the transaction it is part of.
Fits(d, b, projected) ==
  \A e \in Decoded[d][b] \cap projected :
    IF e = RouterOf[d] THEN StrategyFollows(d, b, e) ELSE InvoiceFollows(d, b, e)

-----------------------------------------------------------------------------
(* Swap receipts of blocks indexed before swap receipts existed, oldest first. *)

RouterLogs(d, b) == {p \in events : p = <<b, RouterOf[d]>>}

\* Mutant of NextLegacy: pending blocks are left for later.
NoLegacy(d) == None

NextLegacy(d) == Lowest(legacy[d])

\* pendingSwapBackfill
ReadPending(w) ==
  LET d == setting.serves[w]
      b == NextLegacy(d)
  IN /\ At(w, "backfill")
     /\ IF b = None THEN Goto(w, "plan")
        ELSE Set(w, [work[w] EXCEPT !.pc = "check", !.pending = b, !.sources = RouterLogs(d, b)])
     /\ UNCHANGED <<chain, db, faults>>

\* The header of the pending block, read before its logs are decoded and after.
CheckPending(w) ==
  /\ work[w].pc \in {"check", "again"}
  /\ IF Canonical(work[w].pending) THEN Goto(w, IF At(w, "check") THEN "again" ELSE "project")
     ELSE EndAttempt(w)
  /\ UNCHANGED <<chain, db, faults>>

\* atomicSwapBackfill; receipts are what turns a legacy row into a full one.
CommitBackfill(w) ==
  LET d == setting.serves[w]
      b == work[w].pending
      current == /\ status # "resync_required"
                 /\ Lowest(legacy[d]) = b
                 /\ RouterLogs(d, b) = work[w].sources
                 /\ Fits(d, b, {RouterOf[d]})
  IN /\ At(w, "project")
     /\ legacy' = IF current THEN [legacy EXCEPT ![d] = @ \ {b}] ELSE legacy
     /\ snapshots' = IF current THEN [snapshots EXCEPT ![d] = @ \cup Rows(d, b, {RouterOf[d]})] ELSE snapshots
     /\ EndAttempt(w)
     /\ UNCHANGED <<chain, stored, cursor, status, events, coverage, dcursor, faults>>

-----------------------------------------------------------------------------
(* New blocks: read headers, read logs, check the tip, commit one by one.   *)

NextHeight(w) ==
  LET d == work[w].dcursor IN IF d = None THEN StartOf[setting.serves[w]] ELSE Height[d] + 1

\* Mutant of Count: one block fewer than the confirmed ones.
CountShort(w) ==
  LET confirmed == work[w].head - NextHeight(w) - 2 IN IF confirmed < MaxBlocks THEN confirmed ELSE MaxBlocks

\* Blocks to read, two below the head at most; none is "idle".
Count(w) ==
  LET confirmed == work[w].head - NextHeight(w) - 1 IN IF confirmed < MaxBlocks THEN confirmed ELSE MaxBlocks

Plan(w) ==
  /\ At(w, "plan")
  /\ IF Count(w) < 1 THEN EndAttempt(w) ELSE Goto(w, "headers")
  /\ UNCHANGED <<chain, db, faults>>

\* Every header is the child of the one before, the first of the cursor read.
Linked(w, headers) ==
  \A i \in DOMAIN headers :
    LET prior == IF i = 1 THEN work[w].dcursor ELSE headers[i - 1]
    IN prior # None => Parent[headers[i]] = prior

ReadHeader(w) ==
  LET headers == work[w].headers IN
  /\ At(w, "headers")
  /\ IF CanonicalAt(NextHeight(w) + Len(headers)) = {} THEN EndAttempt(w)
     ELSE \E b \in CanonicalAt(NextHeight(w) + Len(headers)) :
            LET all == Append(headers, b)
                more == Len(all) < Count(w)
            IN IF ~more /\ ~Linked(w, all) THEN EndAttempt(w)
               ELSE Set(w, [work[w] EXCEPT !.headers = all, !.pc = IF more THEN "headers" ELSE "logs"])
  /\ UNCHANGED <<chain, db, faults>>

\* getLogsRange answers for the blocks that are canonical now, getLogs is asked
\* by hash and answers for no other block.
Answer(d, b) == IF ByRange /\ ~Canonical(b) THEN {} ELSE Scoped(d, b)

\* canonicalLogs refuses a log of another block than the header's.
OnlyCanonicalLogs(d, b) ==
  ByRange /\ ~Canonical(b) => \A c \in CanonicalAt(Height[b]) : Scoped(d, c) = {}

Activates(d, b) == \E e \in Decoded[d][b] : EventOf[b][e] = "StrategyActivated"

ReadLogs(w) ==
  LET d == setting.serves[w]
      headers == work[w].headers
      logs == [i \in DOMAIN headers |-> Answer(d, headers[i])]
      activated == \E i \in DOMAIN headers : logs[i] # {} /\ Activates(d, headers[i])
  IN /\ At(w, "logs")
     /\ IF \E i \in DOMAIN headers : ~OnlyCanonicalLogs(d, headers[i]) THEN EndAttempt(w)
        ELSE Set(w, [work[w] EXCEPT !.logs = logs, !.pc = IF activated THEN "hydrate" ELSE "tip"])
     /\ UNCHANGED <<chain, db, faults>>

\* prepareProjections reads the configuration of an activated strategy at the
\* hash of its block, which the provider refuses when it is not canonical.
Hydrate(w) ==
  LET d == setting.serves[w]
      headers == work[w].headers
  IN /\ At(w, "hydrate")
     /\ IF \A i \in DOMAIN headers : Activates(d, headers[i]) => Canonical(headers[i])
        THEN Goto(w, "tip") ELSE EndAttempt(w)
     /\ UNCHANGED <<chain, db, faults>>

\* Mutant of TipUnchanged: the tip is not read again.
TipTrusted(b) == TRUE

TipUnchanged(b) == Canonical(b)

CheckTip(w) ==
  LET headers == work[w].headers IN
  /\ At(w, "tip")
  /\ IF TipUnchanged(headers[Len(headers)]) THEN Goto(w, "commit") ELSE EndAttempt(w)
  /\ UNCHANGED <<chain, db, faults>>

\* The leading blocks without logs, or the first block alone.
Batch(w) ==
  LET headers == work[w].headers
      logs == work[w].logs
      run == {n \in DOMAIN logs : \A i \in 1 .. n : logs[i] = {}}
  IN SubSeq(headers, 1, IF run = {} THEN 1 ELSE CHOOSE n \in run : \A k \in run : k <= n)

\* The chain's cursor and the stored rows around the batch belong to its chain.
Adjacent(first, last, batch) ==
  /\ cursor # None /\ Height[cursor] < Height[first] => cursor = Parent[first]
  /\ \A r \in stored :
       /\ Height[r] \in Height[first] .. Height[last] => r \in batch
       /\ Height[r] = Height[first] - 1 => r = Parent[first]
       /\ Height[r] = Height[last] + 1 => Parent[r] = last

\* The batch starts where the deployment's rows end.
Continues(d, first, batch) ==
  /\ IF dcursor[d] = None THEN Height[first] = StartOf[d] ELSE dcursor[d] = Parent[first]
  /\ batch \cap coverage[d] = {}

\* No log of the batch is known, from another deployment perhaps.
KnownEmpty(d, batch) ==
  /\ dcursor[d] # None => cursor # None
  /\ ~\E p \in events : p[1] \in batch /\ p[2] \in EmittersOf[d]

\* Both transactions add the blocks to the chain and to the deployment.
Store(d, batch, last) ==
  /\ stored' = stored \cup batch
  /\ coverage' = [coverage EXCEPT ![d] = @ \cup batch]
  /\ dcursor' = [dcursor EXCEPT ![d] = last]
  /\ cursor' = IF cursor = None \/ Height[last] > Height[cursor] THEN last ELSE cursor
  /\ UNCHANGED <<status, legacy>>

\* The rest of the attempt's blocks, or the end of it.
Proceed(w, n) ==
  LET rest == [work[w] EXCEPT !.headers = SubSeq(@, n + 1, Len(@)), !.logs = SubSeq(@, n + 1, Len(@))]
  IN Set(w, IF rest.headers = <<>> THEN Rest ELSE rest)

\* atomicEmptyDeploymentBlocks: the leading blocks without logs.
CommitEmpty(w) ==
  LET d == setting.serves[w]
      new == Batch(w)
      first == new[1]
      last == new[Len(new)]
      batch == {new[i] : i \in 1 .. Len(new)}
      replay == dcursor[d] = last
      usable == /\ status # "resync_required"
                /\ Adjacent(first, last, batch) /\ KnownEmpty(d, batch)
                /\ IF replay THEN batch \subseteq coverage[d] \ legacy[d] ELSE Continues(d, first, batch)
  IN /\ At(w, "commit") /\ work[w].logs[1] = {}
     /\ \/ ~usable /\ EndAttempt(w) /\ UNCHANGED db
        \/ usable /\ replay /\ Proceed(w, Len(new)) /\ UNCHANGED db
        \/ /\ usable /\ ~replay /\ Proceed(w, Len(new))
           /\ Store(d, batch, last)
           /\ UNCHANGED <<events, snapshots>>
     /\ UNCHANGED <<chain, faults>>

\* atomicDeploymentBlock: one block with its logs and their projections.
CommitBlock(w) ==
  LET d == setting.serves[w]
      block == work[w].headers[1]
      logs == work[w].logs[1]
      replay == dcursor[d] = block
      usable == /\ status # "resync_required"
                /\ replay \/ (/\ Continues(d, block, {block}) /\ Adjacent(block, block, {block})
                              /\ Fits(d, block, logs))
  IN /\ At(w, "commit") /\ logs # {}
     /\ \/ ~usable /\ EndAttempt(w) /\ UNCHANGED db
        \/ usable /\ replay /\ Proceed(w, 1) /\ UNCHANGED db
        \/ /\ usable /\ ~replay /\ Proceed(w, 1)
           /\ Store(d, {block}, block)
           /\ events' = events \cup {<<block, e>> : e \in logs}
           /\ snapshots' = [snapshots EXCEPT ![d] = @ \cup Rows(d, block, logs)]
     /\ UNCHANGED <<chain, faults>>

-----------------------------------------------------------------------------

\* A crash, an RPC error or a database error; the process starts over.
Fail(w) ==
  /\ faults < setting.faults
  /\ work[w].pc \notin {"rest", "stopped"}
  /\ faults' = faults + 1
  /\ EndAttempt(w)
  /\ UNCHANGED <<chain, db>>

Step(w) ==
  \/ Snapshot(w) \/ ReadCursor(w) \/ ReadHead(w) \/ Scan(w) \/ RecheckTop(w) \/ Reconcile(w)
  \/ ReadPending(w) \/ CheckPending(w) \/ CommitBackfill(w)
  \/ Plan(w) \/ ReadHeader(w) \/ ReadLogs(w) \/ Hydrate(w) \/ CheckTip(w)
  \/ CommitEmpty(w) \/ CommitBlock(w)

Next ==
  \/ \E w \in Workers : Step(w) \/ Fail(w)
  \/ \E b \in Tips : Switch(b)

Spec == Init /\ [][Next]_vars

\* The loop of index.ts polls for ever.
Fairness == \A w \in Workers : WF_vars(Step(w))
FairSpec == Spec /\ Fairness

-----------------------------------------------------------------------------
(* Properties *)

From(d, b) == IF b = None THEN {} ELSE {c \in Ancestors[b] : Height[c] >= StartOf[d]}

\* The rows of every transaction of every worker together describe one chain:
\* a deployment covers the blocks from its start to its cursor, without a gap
\* and of one branch; the stored blocks are the covered ones, one per height
\* and each the parent of the next; the chain's cursor is the highest.
StoredChain ==
  /\ \A d \in Deployments : coverage[d] = From(d, dcursor[d])
  /\ stored = UNION {coverage[d] : d \in Deployments}
  /\ \A b, c \in stored :
       /\ Height[b] = Height[c] => b = c
       /\ Height[b] + 1 = Height[c] => Parent[c] = b
  /\ cursor = Highest(stored)

\* The rows that readers take for the history of a strategy or an invoice are
\* those of the deployment's blocks, of one branch and complete, through
\* rollbacks and another deployment's writes; only swaps of blocks that wait
\* for the backfill are missing, and no block that has its swaps is above one
\* that waits: a row is never built on a predecessor that is not there yet.
HistoryComplete ==
  \A d \in Deployments :
    /\ snapshots[d] =
         {p \in events : /\ p[1] \in coverage[d] /\ p[2] \in Decoded[d][p[1]]
                         /\ p[1] \in legacy[d] => EventOf[p[1]][p[2]] # "OrbitalSwapExecuted"}
    /\ legacy[d] \subseteq coverage[d]
    /\ \A b \in legacy[d], c \in coverage[d] \ legacy[d] : Height[c] < Height[b]

\* A rollback never deletes a block of the canonical chain, however old the
\* scan it acts on and whatever other workers stored since (reorg.ts:51).
\* (For chains that do not return to a branch they have left.)
KeepsCanonical == [][(stored \ stored') \cap Ancestors[tip] = {}]_vars

\* Indexing is given up for a manual resync only when the chain really left
\* the last REORG_WINDOW stored blocks, or all that are stored (reorg.ts:64).
ResyncJustified ==
  [][status' # status =>
       LET lost == stored \ Ancestors[tip]
       IN lost = stored \/ Cardinality(lost) >= REORG_WINDOW]_vars

LogsFromStart ==
  [d \in Deployments |-> [b \in Blocks |-> IF Height[b] < StartOf[d] THEN {} ELSE Scoped(d, b)]]

Follower == INSTANCE LogFollower WITH
  top <- dcursor,
  view <- [d \in Deployments |-> {p \in events : p[1] \in coverage[d] /\ p[2] \in EmittersOf[d]}],
  Logs <- LogsFromStart

\* What a deployment's readers find is all the logs of its contracts from its
\* start to its cursor and no others, through reorganisations, failures
\* between the commits of one attempt and concurrent workers.
ImplementsFollower == Follower!Spec

\* The logs of covered blocks are complete.  materializer.ts:111-113 says the
\* last read binds the whole window to the canonical tip, and
\* empty-materialization.ts:5-7 that the range was authenticated as empty.
CoveredComplete ==
  \A d \in Deployments : \A b \in coverage[d] : \A e \in Scoped(d, b) : <<b, e>> \in events

Caught(d) ==
  \/ Height[tip] < StartOf[d] + 2
  \/ dcursor[d] # None /\ Canonical(dcursor[d]) /\ Height[dcursor[d]] >= Height[tip] - 2

\* A provider whose chain is shorter than what is stored: every attempt retries.
Lagging == cursor # None /\ Height[tip] < Height[cursor]

\* Once the chain is quiet every deployment catches up with it, two blocks
\* below the head, unless a resync is required or the chain is shorter than
\* what was indexed (materializer.ts:44): no worker blocks another, none loops.
Served(d) == \E w \in Workers : setting.serves[w] = d

Follows ==
  <>[](\A d \in Deployments : Served(d) => status = "resync_required" \/ Lagging \/ Caught(d))

\* index.ts:9: "Bounded canonical reorg rollback/replay runs automatically."
\* A stored tip that left the canonical chain is eventually rolled back, or
\* the rows are declared unusable.
RollsBack == <>[](cursor # None => Canonical(cursor) \/ Lagging \/ status = "resync_required")
=============================================================================
