---------------------------- MODULE EventStream ----------------------------
(***************************************************************************)
(* The API's event stream: event-stream.ts over postgres-events.ts.        *)
(*                                                                         *)
(* A request for /events is asked twice whether the indexer is ready, with *)
(* a subscription to PostgreSQL's notifications in between, and then gets  *)
(* frames until somebody closes it.  JavaScript runs to the next await, so *)
(* a step is the code between two awaits, or one callback of a socket or   *)
(* a timer.  Notifications are lost with the connection that carries them, *)
(* and nobody knows before the driver reports it.                          *)
(*                                                                         *)
(* A client that is told anything reads everything anew, so a frame tells  *)
(* it of all commits before the frame.  Headers, frame contents, other     *)
(* chains' notifications and the 500 ms of a forced close are left out.    *)
(***************************************************************************)
EXTENDS Integers, Sequences, FiniteSets

CONSTANTS
  Requests,
  Capacity,   \* streams.size may not exceed it (100)
  Attempts,   \* connection attempts of one connect() (3)
  MaxCommits, MaxFaults  \* bounds of the model

ASSUME ConstantsAssumption ==
  /\ IsFiniteSet(Requests)
  /\ Capacity \in Nat \ {0} /\ Attempts \in Nat \ {0}
  /\ MaxCommits \in Nat /\ MaxFaults \in Nat

VARIABLES
  version,      \* commits of the indexer
  resync,       \* indexer_state is resync_required
  client,       \* PostgresNotifications.client: "none", "up", or "broken" and not yet reported
  wire,         \* notifications sent to it and not yet handled
  attempt,      \* of the connect() under way, or 0
  closing,      \* the server is closing; the source is closed with it
  req,          \* each request: where it awaits, closed, ready, gone
  streams,
  subscribers,
  seen,         \* history: commits the client of a request has been told of
  faults

source == <<client, wire, attempt>>
vars == <<version, resync, client, wire, attempt, closing, req, streams, subscribers, seen, faults>>

Init ==
  /\ version = 0 /\ resync = FALSE
  /\ client = "none" /\ wire = <<>> /\ attempt = 0
  /\ closing = FALSE
  /\ req = [r \in Requests |-> [pc |-> "idle", closed |-> FALSE, ready |-> FALSE, gone |-> FALSE]]
  /\ streams = {} /\ subscribers = {}
  /\ seen = [r \in Requests |-> 0]
  /\ faults = 0

At(pc) == {r \in Requests : req[r].pc = pc}

-----------------------------------------------------------------------------
(* The rest of the world *)

\* An indexer transaction with its NOTIFY: blocks and entities, or the latch
\* that asks for a resync.
Commit(kind) ==
  /\ version < MaxCommits /\ ~resync
  /\ version' = version + 1
  /\ resync' = (kind = "resync")
  /\ wire' = IF client = "up" THEN Append(wire, kind) ELSE wire
  /\ UNCHANGED <<client, attempt, closing, req, streams, subscribers, seen, faults>>

Break ==
  /\ client = "up" /\ faults < MaxFaults
  /\ client' = "broken" /\ wire' = <<>>
  /\ faults' = faults + 1
  /\ UNCHANGED <<version, resync, attempt, closing, req, streams, subscribers, seen>>

-----------------------------------------------------------------------------
(* Closing streams *)

\* close() of the requests in S: those that have not answered yet find out when
\* they are resumed.
Closed(S) ==
  [r \in Requests |->
     IF r \notin S THEN req[r]
     ELSE [req[r] EXCEPT !.closed = TRUE, !.pc = IF req[r].pc = "open" THEN "done" ELSE req[r].pc]]

Close(S) ==
  /\ req' = Closed(S)
  /\ streams' = streams \ S
  /\ subscribers' = subscribers \ S

\* A client hangs up, or a heartbeat finds its buffer full.  A request that
\* waits for its first readiness has no listener for that yet.
Disconnect(r) ==
  /\ req[r].pc \notin {"idle", "done"} /\ ~req[r].gone
  /\ LET now == IF req[r].pc = "first" THEN req ELSE Closed({r})
     IN req' = [now EXCEPT ![r].gone = TRUE]
  /\ IF req[r].pc = "first" THEN UNCHANGED <<streams, subscribers>>
     ELSE /\ streams' = streams \ {r}
          /\ subscribers' = subscribers \ {r}
  /\ UNCHANGED <<version, resync, source, closing, seen, faults>>

-----------------------------------------------------------------------------
(* PostgresNotifications *)

\* Mutant of Unavailable: the streams of a lost connection stay open.
Forgotten == UNCHANGED <<req, streams, subscribers>>

\* Every subscription of a lost connection ends: the gap cannot be replayed.
Unavailable == Close(subscribers)

Lost ==
  /\ client = "broken"
  /\ client' = "none"
  /\ Unavailable
  /\ UNCHANGED <<version, resync, wire, attempt, closing, seen, faults>>

\* One notification to all subscribers: the open ones get a frame, or are
\* closed because their buffer is full; a resync closes them all.
Deliver ==
  /\ client = "up" /\ wire # <<>>
  /\ \E slow \in SUBSET (subscribers \cap At("open")) :
       /\ Close(IF Head(wire) = "resync" THEN subscribers ELSE slow)
       /\ seen' = [r \in Requests |-> IF r \in (subscribers \cap At("open")) \ slow THEN version ELSE seen[r]]
  /\ wire' = Tail(wire)
  /\ UNCHANGED <<version, resync, client, attempt, closing, faults>>

Subscribed ==
  [r \in Requests |-> IF req[r].pc = "subscribe" THEN [req[r] EXCEPT !.pc = "read"] ELSE req[r]]

Unsubscribed ==
  [r \in Requests |-> IF req[r].pc = "subscribe" THEN [req[r] EXCEPT !.pc = "done", !.closed = TRUE] ELSE req[r]]

\* connect() succeeds: all that wait for it subscribe.
Connect ==
  /\ attempt > 0 /\ ~closing
  /\ client' = "up" /\ wire' = <<>> /\ attempt' = 0
  /\ subscribers' = subscribers \cup At("subscribe")
  /\ req' = Subscribed
  /\ UNCHANGED <<version, resync, closing, streams, seen, faults>>

\* An attempt fails; after the last one, or on a closed source, so do all
\* subscriptions that wait.
ConnectFails ==
  /\ attempt > 0
  /\ closing \/ faults < MaxFaults
  /\ faults' = IF closing THEN faults ELSE faults + 1
  /\ IF attempt < Attempts /\ ~closing
       THEN /\ attempt' = attempt + 1
            /\ UNCHANGED <<req, streams>>
       ELSE /\ attempt' = 0
            /\ req' = Unsubscribed
            /\ streams' = streams \ At("subscribe")
  /\ UNCHANGED <<version, resync, client, wire, closing, subscribers, seen>>

\* preClose: the streams, then the source.
Shutdown ==
  /\ ~closing
  /\ closing' = TRUE
  /\ Close(streams \cup subscribers)
  /\ client' = "none" /\ wire' = <<>>
  /\ UNCHANGED <<version, resync, attempt, seen, faults>>

-----------------------------------------------------------------------------
(* A request *)

\* Mutant of Full: streams that are being prepared are not counted.
FullOfOpen == closing \/ Cardinality(At("open")) >= Capacity

Full == closing \/ Cardinality(streams) >= Capacity

Resumed(r, pc) == [req EXCEPT ![r].pc = pc]

Finished(r) == [req EXCEPT ![r].pc = "done", ![r].closed = TRUE]

Request(r) ==
  /\ req[r].pc = "idle"
  /\ req' = IF Full THEN Finished(r) ELSE Resumed(r, "first")
  /\ UNCHANGED <<version, resync, source, closing, streams, subscribers, seen, faults>>

\* checkReadiness says ready of an indexer that is; it may say less.
Ready == IF resync THEN {FALSE} ELSE BOOLEAN

\* The first answer, the second look at the capacity, and subscribe() up to its
\* first await.
FirstReady(r) ==
  /\ req[r].pc = "first"
  /\ \E ready \in Ready :
       IF ~ready \/ Full
         THEN /\ req' = Finished(r)
              /\ UNCHANGED <<streams, subscribers, attempt>>
         ELSE /\ streams' = streams \cup {r}
              /\ req' = Resumed(r, IF client = "none" THEN "subscribe" ELSE "read")
              /\ subscribers' = IF client = "none" THEN subscribers ELSE subscribers \cup {r}
              /\ attempt' = IF client = "none" /\ attempt = 0 THEN 1 ELSE attempt
  /\ UNCHANGED <<version, resync, client, wire, closing, seen, faults>>

Answered(r, ready) == [req EXCEPT ![r].pc = "decide", ![r].ready = ready]

\* The last read of the second checkReadiness; its answer comes later.
Read(r) ==
  /\ req[r].pc = "read"
  /\ \E ready \in Ready : req' = Answered(r, ready)
  /\ UNCHANGED <<version, resync, source, closing, streams, subscribers, seen, faults>>

\* Mutant of Usable: what happened to the request meanwhile is not looked at.
ReadyOnly(r) == req[r].ready

Usable(r) == req[r].ready /\ ~req[r].closed /\ ~req[r].gone /\ ~closing

\* Mutant of Refuse: the subscription is kept.
RefuseSubscribed(r) ==
  /\ req' = Finished(r)
  /\ streams' = streams \ {r}
  /\ UNCHANGED subscribers

Refuse(r) ==
  /\ req' = Finished(r)
  /\ streams' = streams \ {r}
  /\ subscribers' = subscribers \ {r}

\* Mutant of Refresh: the stream starts silently.
NoRefresh(r) == UNCHANGED seen

\* The frame every stream starts with.
Refresh(r) == seen' = [seen EXCEPT ![r] = version]

\* The second answer: the stream starts, unless its first frame is too much.
Decide(r) ==
  /\ req[r].pc = "decide"
  /\ IF Usable(r)
       THEN \/ /\ req' = Resumed(r, "open")
               /\ Refresh(r)
               /\ UNCHANGED <<streams, subscribers>>
            \/ /\ Close({r}) /\ UNCHANGED seen
       ELSE Refuse(r) /\ UNCHANGED seen
  /\ UNCHANGED <<version, resync, source, closing, faults>>

-----------------------------------------------------------------------------
Handle(r) == FirstReady(r) \/ Read(r) \/ Decide(r)

Next ==
  \/ \E kind \in {"change", "resync"} : Commit(kind)
  \/ Break \/ Lost \/ Deliver \/ Connect \/ ConnectFails \/ Shutdown
  \/ \E r \in Requests : Request(r) \/ Handle(r) \/ Disconnect(r)

Spec == Init /\ [][Next]_vars

\* Promises settle: readiness is bounded by its timeouts and a connection
\* attempt by the driver's; the driver hands over what it received and reports
\* what it lost.
Fairness ==
  /\ \A r \in Requests : WF_vars(Handle(r))
  /\ WF_vars(Deliver) /\ WF_vars(Lost)
  /\ WF_vars(Connect \/ ConnectFails)

FairSpec == Spec /\ Fairness

-----------------------------------------------------------------------------
(* Properties *)

RequestType ==
  [pc : {"idle", "first", "subscribe", "read", "decide", "open", "done"},
   closed : BOOLEAN, ready : BOOLEAN, gone : BOOLEAN]

\* Shapes, and the capacity of the server, which is checked before and added
\* to after an await (event-stream.ts:14, 17, 40).
TypeOK ==
  /\ version \in 0 .. MaxCommits /\ resync \in BOOLEAN
  /\ client \in {"none", "up", "broken"} /\ wire \in Seq({"change", "resync"})
  /\ attempt \in 0 .. Attempts /\ closing \in BOOLEAN
  /\ req \in [Requests -> RequestType]
  /\ streams \subseteq Requests /\ subscribers \subseteq Requests
  /\ seen \in [Requests -> 0 .. version]
  /\ faults \in 0 .. MaxFaults
  /\ Cardinality(streams) <= Capacity

\* Nothing that is over holds a place or a callback, and nothing that is open
\* lacks one: closing works in whichever await it finds a request
\* (event-stream.ts:22-25, 39-53; postgres-events.ts:24, 36-37).
NoLeak ==
  \A r \in Requests :
    /\ req[r].pc = "done" => r \notin streams \cup subscribers
    /\ req[r].pc = "open" => r \in streams \cap subscribers

\* A commit an open stream was not told of is on its way to it, or the loss of
\* the connection is, which will close it: neither the await between
\* subscription and first frame nor a reconnection loses one
\* (event-stream.ts:47-49; postgres-events.ts:33-37).
NothingMissed ==
  \A r \in At("open") : seen[r] < version => wire # <<>> \/ client = "broken"

\* No stream outlives the resync latch unnoticed (event-stream.ts:45, 50).
ResyncCloses ==
  resync /\ At("open") # {} =>
    client = "broken" \/ \E i \in DOMAIN wire : wire[i] = "resync"

\* An open stream hears of every commit, or is closed.
Told ==
  \A r \in Requests, n \in 1 .. MaxCommits :
    (req[r].pc = "open" /\ version = n) ~> (req[r].pc # "open" \/ seen[r] >= n)

\* A closing server gets rid of every request and every subscription, those in
\* the middle of an await included.
Drains == closing ~> (subscribers = {} /\ \A r \in Requests : req[r].pc \in {"idle", "done"})
=============================================================================
