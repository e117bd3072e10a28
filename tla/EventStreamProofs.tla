-------------------------- MODULE EventStreamProofs --------------------------
(* Theorems about EventStream, for every value of its constants. *)
EXTENDS EventStream, FiniteSetTheorems, TLAPS

-----------------------------------------------------------------------------
(* The inductive invariant: where a request may be listed, by where it       *)
(* awaits, and what is still under way for it.                               *)

Source ==
  /\ attempt > 0 => client = "none"
  /\ client = "none" => subscribers = {}

Places(r) ==
  /\ req[r].pc \in {"idle", "first", "done"} => r \notin streams \cup subscribers
  /\ req[r].pc = "subscribe" => r \notin subscribers
  /\ req[r].pc \in {"subscribe", "read", "decide"} /\ ~req[r].closed => r \in streams
  /\ req[r].pc \in {"read", "decide"} /\ ~req[r].closed => r \in subscribers
  /\ req[r].pc = "open" => r \in streams \cap subscribers

Coming == wire # <<>> \/ client = "broken"

ResyncComing == client = "broken" \/ \E i \in DOMAIN wire : wire[i] = "resync"

Pending(r) ==
  /\ req[r].pc = "open" /\ seen[r] < version => Coming
  /\ resync /\ (req[r].pc = "open" \/ (req[r].pc = "decide" /\ req[r].ready /\ ~req[r].closed))
       => ResyncComing

Placed == Source /\ \A r \in Requests : Places(r)

Inv == Placed /\ \A r \in Requests : Pending(r)

-----------------------------------------------------------------------------
(* Types *)

\* Closing keeps requests well typed; what was open is done, what awaits knows.
LEMMA ClosedTyped ==
  ASSUME req \in [Requests -> RequestType], NEW S
  PROVE  /\ Closed(S) \in [Requests -> RequestType]
         /\ \A r \in Requests :
              /\ r \notin S => Closed(S)[r] = req[r]
              /\ r \in S => /\ Closed(S)[r].closed
                            /\ Closed(S)[r].ready = req[r].ready
                            /\ Closed(S)[r].pc = IF req[r].pc = "open" THEN "done" ELSE req[r].pc
  <1>1. ASSUME NEW r \in Requests
        PROVE  /\ Closed(S)[r] \in RequestType
               /\ r \notin S => Closed(S)[r] = req[r]
               /\ r \in S => /\ Closed(S)[r].closed
                             /\ Closed(S)[r].ready = req[r].ready
                             /\ Closed(S)[r].pc = IF req[r].pc = "open" THEN "done" ELSE req[r].pc
    <2> DEFINE q == req[r]
               pc == IF q.pc = "open" THEN "done" ELSE q.pc
    <2>1. q \in RequestType
      OBVIOUS
    <2>2. Closed(S)[r] = IF r \notin S THEN q ELSE [q EXCEPT !.closed = TRUE, !.pc = pc]
      BY DEF Closed
    <2>3. pc \in {"idle", "first", "subscribe", "read", "decide", "open", "done"}
      BY <2>1 DEF RequestType
    <2> HIDE DEF q, pc
    <2>4. LET c == [q EXCEPT !.closed = TRUE, !.pc = pc]
          IN c \in RequestType /\ c.closed = TRUE /\ c.ready = q.ready /\ c.pc = pc
      BY <2>1, <2>3 DEF RequestType
    <2> QED BY <2>1, <2>2, <2>4 DEF q, pc
  <1>2. Closed(S) = [r \in Requests |-> Closed(S)[r]]
    BY DEF Closed
  <1> QED BY <1>1, <1>2

\* A request that is refused or fails is done.
LEMMA FinishedTyped ==
  ASSUME req \in [Requests -> RequestType], NEW r \in Requests
  PROVE  /\ Finished(r) \in [Requests -> RequestType]
         /\ Finished(r)[r].pc = "done"
         /\ \A x \in Requests \ {r} : Finished(r)[x] = req[x]
  <1> DEFINE q == req[r]
             c == [q EXCEPT !.pc = "done", !.closed = TRUE]
  <1>1. q \in RequestType
    OBVIOUS
  <1>2. Finished(r) = [req EXCEPT ![r] = c]
    BY DEF Finished
  <1>3. c \in RequestType /\ c.pc = "done"
    BY <1>1 DEF RequestType
  <1> HIDE DEF c
  <1> QED BY <1>2, <1>3

\* What Close does to the three variables, and to no other request.
LEMMA CloseTyped ==
  ASSUME TypeOK, NEW S, Close(S)
  PROVE  /\ req' \in [Requests -> RequestType]
         /\ streams' \subseteq streams /\ subscribers' \subseteq subscribers
         /\ Cardinality(streams') <= Capacity
  <1>1. IsFiniteSet(streams) /\ Cardinality(streams) <= Capacity
    BY ConstantsAssumption, FS_Subset DEF TypeOK
  <1>2. streams' \in SUBSET streams
    BY DEF Close
  <1>3. Cardinality(streams') <= Cardinality(streams)
    BY <1>1, <1>2, FS_Subset
  <1>4. Cardinality(streams) \in Nat /\ Cardinality(streams') \in Nat
    BY <1>1, <1>2, FS_Subset, FS_CardinalityType
  <1> QED BY <1>1, <1>2, <1>3, <1>4, ClosedTyped, ConstantsAssumption DEF Close, TypeOK
\* One field of one request changes.
LEMMA MovedTyped ==
  ASSUME req \in [Requests -> RequestType], NEW r \in Requests,
         NEW pc \in {"first", "subscribe", "read", "open"}
  PROVE  LET g == Resumed(r, pc) IN
         /\ g \in [Requests -> RequestType]
         /\ g[r].pc = pc /\ g[r].closed = req[r].closed /\ g[r].ready = req[r].ready
         /\ \A x \in Requests \ {r} : g[x] = req[x]
  <1> DEFINE q == req[r]
             c == [q EXCEPT !.pc = pc]
             g == Resumed(r, pc)
  <1>1. q \in RequestType
    OBVIOUS
  <1>2. g = [req EXCEPT ![r] = c]
    BY DEF Resumed
  <1> HIDE DEF q
  <1>3. c \in RequestType /\ c.pc = pc /\ c.closed = q.closed /\ c.ready = q.ready
    BY <1>1 DEF RequestType
  <1> HIDE DEF c, g
  <1> QED BY <1>2, <1>3 DEF q, g

\* The answer of the second readiness is kept.
LEMMA ReadTyped ==
  ASSUME req \in [Requests -> RequestType], NEW r \in Requests, NEW ready \in BOOLEAN
  PROVE  LET g == Answered(r, ready) IN
         /\ g \in [Requests -> RequestType]
         /\ g[r].pc = "decide" /\ g[r].closed = req[r].closed /\ g[r].ready = ready
         /\ \A x \in Requests \ {r} : g[x] = req[x]
  <1> DEFINE q == req[r]
             c == [[q EXCEPT !.pc = "decide"] EXCEPT !.ready = ready]
             g == Answered(r, ready)
  <1>1. q \in RequestType
    OBVIOUS
  <1>2. g = [req EXCEPT ![r] = c]
    BY DEF Answered
  <1> HIDE DEF q
  <1>3. c \in RequestType /\ c.pc = "decide" /\ c.closed = q.closed /\ c.ready = ready
    <2> DEFINE e == [q EXCEPT !.pc = "decide"]
    <2>1. e \in RequestType /\ e.pc = "decide" /\ e.closed = q.closed
      BY <1>1 DEF RequestType
    <2> HIDE DEF e
    <2>2. LET f == [e EXCEPT !.ready = ready]
          IN f \in RequestType /\ f.pc = "decide" /\ f.closed = e.closed /\ f.ready = ready
      BY <2>1 DEF RequestType
    <2> QED BY <2>1, <2>2 DEF e
  <1> HIDE DEF c, g
  <1> QED BY <1>2, <1>3 DEF q, g

\* A hang-up is noted beside whatever else happens to the requests.
LEMMA GoneTyped ==
  ASSUME NEW h \in [Requests -> RequestType], NEW r \in Requests
  PROVE  LET g == [h EXCEPT ![r].gone = TRUE] IN
         /\ g \in [Requests -> RequestType]
         /\ \A x \in Requests : g[x].pc = h[x].pc /\ g[x].closed = h[x].closed /\ g[x].ready = h[x].ready
  <1> DEFINE q == h[r]
             c == [q EXCEPT !.gone = TRUE]
             g == [h EXCEPT ![r].gone = TRUE]
  <1>1. q \in RequestType
    OBVIOUS
  <1>2. g = [h EXCEPT ![r] = c]
    OBVIOUS
  <1> HIDE DEF q
  <1>3. c \in RequestType /\ c.pc = q.pc /\ c.closed = q.closed /\ c.ready = q.ready
    BY <1>1 DEF RequestType
  <1> HIDE DEF c, g
  <1> QED BY <1>2, <1>3 DEF q, g

\* Those that wait for a connection go on, or fail, together.
LEMMA WaitersTyped ==
  ASSUME req \in [Requests -> RequestType]
  PROVE  /\ Subscribed \in [Requests -> RequestType] /\ Unsubscribed \in [Requests -> RequestType]
         /\ \A r \in Requests :
              /\ req[r].pc # "subscribe" => Subscribed[r] = req[r] /\ Unsubscribed[r] = req[r]
              /\ req[r].pc = "subscribe" =>
                   /\ Subscribed[r].pc = "read" /\ Subscribed[r].closed = req[r].closed
                   /\ Subscribed[r].ready = req[r].ready
                   /\ Unsubscribed[r].pc = "done"
  <1> SUFFICES ASSUME NEW r \in Requests
      PROVE  LET on == [req[r] EXCEPT !.pc = "read"]
                 off == [req[r] EXCEPT !.pc = "done", !.closed = TRUE]
             IN /\ on \in RequestType /\ off \in RequestType
                /\ on.pc = "read" /\ on.closed = req[r].closed /\ on.ready = req[r].ready
                /\ off.pc = "done"
    BY Zenon DEF Subscribed, Unsubscribed
  <1> DEFINE q == req[r]
  <1>1. q \in RequestType
    OBVIOUS
  <1> HIDE DEF q
  <1>2. LET on == [q EXCEPT !.pc = "read"]
            off == [q EXCEPT !.pc = "done", !.closed = TRUE]
        IN /\ on \in RequestType /\ off \in RequestType
           /\ on.pc = "read" /\ on.closed = q.closed /\ on.ready = q.ready
           /\ off.pc = "done"
    BY <1>1 DEF RequestType
  <1> QED BY <1>2 DEF q
LEMMA TypeInit == Init => TypeOK
  <1> SUFFICES ASSUME Init PROVE TypeOK
    OBVIOUS
  <1>1. [pc |-> "idle", closed |-> FALSE, ready |-> FALSE, gone |-> FALSE] \in RequestType
    BY DEF RequestType
  <1>2. Cardinality({}) = 0
    BY FS_EmptySet
  <1>3. wire \in Seq({"change", "resync"}) /\ 0 \in 0 .. Attempts /\ 0 \in 0 .. MaxCommits /\ 0 \in 0 .. MaxFaults
    BY ConstantsAssumption DEF Init
  <1>4. seen \in [Requests -> 0 .. version]
    BY DEF Init
  <1>5. req \in [Requests -> RequestType]
    BY <1>1 DEF Init
  <1>6. Cardinality(streams) <= Capacity
    BY <1>2, ConstantsAssumption DEF Init
  <1> QED BY <1>3, <1>4, <1>5, <1>6 DEF Init, TypeOK

\* Requests leave places; the streams that stay are no more than before.
LEMMA FewerStreams ==
  ASSUME TypeOK, NEW S \in SUBSET streams
  PROVE  Cardinality(S) <= Capacity
  <1>1. IsFiniteSet(streams)
    BY ConstantsAssumption, FS_Subset DEF TypeOK
  <1>2. Cardinality(S) <= Cardinality(streams) /\ IsFiniteSet(S)
    BY <1>1, FS_Subset
  <1>3. Cardinality(S) \in Nat /\ Cardinality(streams) \in Nat
    BY <1>1, <1>2, FS_CardinalityType
  <1> QED BY <1>2, <1>3, ConstantsAssumption DEF TypeOK

\* The second look at the capacity leaves room for one more.
LEMMA OneMoreStream ==
  ASSUME TypeOK, NEW r \in Requests, ~Full
  PROVE  Cardinality(streams \cup {r}) <= Capacity
  <1>1. IsFiniteSet(streams)
    BY ConstantsAssumption, FS_Subset DEF TypeOK
  <1>2. Cardinality(streams) \in Nat
    BY <1>1, FS_CardinalityType
  <1> DEFINE n == Cardinality(streams)
             m == Cardinality(streams \cup {r})
  <1>3. m = IF r \in streams THEN n ELSE n + 1
    BY <1>1, FS_AddElement
  <1>4. n \in Nat /\ ~(n >= Capacity)
    BY <1>2 DEF Full
  <1> HIDE DEF n, m
  <1>5. m <= Capacity
    BY <1>3, <1>4, ConstantsAssumption
  <1> QED BY <1>5 DEF m

LEMMA TypeNext == TypeOK /\ [Next]_vars => TypeOK'
  <1> SUFFICES ASSUME TypeOK, [Next]_vars PROVE TypeOK'
    OBVIOUS
  <1>0. /\ req \in [Requests -> RequestType] /\ streams \subseteq Requests /\ subscribers \subseteq Requests
        /\ wire \in Seq({"change", "resync"}) /\ version \in Nat /\ attempt \in Nat /\ faults \in Nat
        /\ seen \in [Requests -> 0 .. version] /\ MaxFaults \in Nat /\ MaxCommits \in Nat /\ Attempts \in Nat \ {0}
    BY ConstantsAssumption DEF TypeOK
  <1>1. ASSUME NEW kind \in {"change", "resync"}, Commit(kind) PROVE TypeOK'
    BY <1>0, <1>1 DEF Commit, TypeOK
  <1>2. CASE Break
    BY <1>0, <1>2 DEF Break, TypeOK
  <1>3. CASE Lost
    BY <1>0, <1>3, CloseTyped DEF Lost, Unavailable, TypeOK
  <1>4. CASE Deliver
    <2>1. PICK slow \in SUBSET (subscribers \cap At("open")) :
            /\ Close(IF Head(wire) = "resync" THEN subscribers ELSE slow)
            /\ seen' = [r \in Requests |-> IF r \in (subscribers \cap At("open")) \ slow THEN version ELSE seen[r]]
      BY <1>4 DEF Deliver
    <2>2. /\ req' \in [Requests -> RequestType] /\ streams' \subseteq streams /\ subscribers' \subseteq subscribers
          /\ Cardinality(streams') <= Capacity
      BY <2>1, CloseTyped
    <2>3. seen' \in [Requests -> 0 .. version]
      BY <1>0, <2>1
    <2>4. wire' \in Seq({"change", "resync"})
      BY <1>0, <1>4 DEF Deliver
    <2> QED BY <1>0, <1>4, <2>2, <2>3, <2>4 DEF Deliver, TypeOK
  <1>5. CASE Connect
    <2>1. req' \in [Requests -> RequestType]
      BY <1>0, <1>5, WaitersTyped DEF Connect
    <2> QED BY <1>0, <1>5, <2>1 DEF Connect, TypeOK, At
  <1>6. CASE ConnectFails
    <2>0. attempt \in 0 .. Attempts
      BY DEF TypeOK
    <2>1. req' \in [Requests -> RequestType] /\ streams' \in SUBSET streams /\ attempt' \in 0 .. Attempts
      BY <1>0, <1>6, <2>0, WaitersTyped DEF ConnectFails
    <2>2. faults' \in 0 .. MaxFaults
      <3>1. faults \in 0 .. MaxFaults
        BY DEF TypeOK
      <3> QED BY <1>0, <1>6, <3>1 DEF ConnectFails
    <2>3. Cardinality(streams') <= Capacity
      BY <2>1, FewerStreams
    <2> QED BY <1>0, <1>6, <2>1, <2>2, <2>3 DEF ConnectFails, TypeOK
  <1>7. CASE Shutdown
    BY <1>0, <1>7, CloseTyped DEF Shutdown, TypeOK
  <1>8. ASSUME NEW r \in Requests, Request(r) PROVE TypeOK'
    <2>1. req' \in [Requests -> RequestType]
      BY <1>0, <1>8, FinishedTyped, MovedTyped DEF Request
    <2> QED BY <1>0, <1>8, <2>1 DEF Request, source, TypeOK
  <1>9. ASSUME NEW r \in Requests, FirstReady(r) PROVE TypeOK'
    <2>1. req' \in [Requests -> RequestType]
      BY <1>0, <1>9, FinishedTyped, MovedTyped DEF FirstReady
    <2>2. streams' = streams \/ (~Full /\ streams' = streams \cup {r})
      BY <1>9 DEF FirstReady
    <2>3. Cardinality(streams') <= Capacity
      BY <2>2, OneMoreStream DEF TypeOK
    <2>4. subscribers' \subseteq Requests /\ attempt' \in 0 .. Attempts
      BY <1>0, <1>9 DEF FirstReady, TypeOK
    <2> QED BY <1>0, <1>9, <2>1, <2>2, <2>3, <2>4 DEF FirstReady, TypeOK
  <1>10. ASSUME NEW r \in Requests, Read(r) PROVE TypeOK'
    <2>1. req' \in [Requests -> RequestType]
      <3>1. PICK ready \in BOOLEAN : req' = Answered(r, ready)
        BY <1>10, Zenon DEF Read, Ready
      <3> QED BY <1>0, <3>1, ReadTyped
    <2> QED BY <1>0, <1>10, <2>1 DEF Read, source, TypeOK
  <1>11. ASSUME NEW r \in Requests, Decide(r) PROVE TypeOK'
    <2>1. CASE Close({r}) /\ UNCHANGED seen
      BY <1>0, <1>11, <2>1, CloseTyped DEF Decide, source, TypeOK
    <2>2. CASE Refuse(r) /\ UNCHANGED seen
      <3>1. streams' \in SUBSET streams
        BY <2>2 DEF Refuse
      <3>2. Cardinality(streams') <= Capacity
        BY <3>1, FewerStreams
      <3> QED BY <1>0, <1>11, <2>2, <3>1, <3>2, FinishedTyped DEF Decide, Refuse, source, TypeOK
    <2>3. CASE req' = Resumed(r, "open") /\ Refresh(r) /\ UNCHANGED <<streams, subscribers>>
      <3>1. req' \in [Requests -> RequestType]
        BY <1>0, <2>3, MovedTyped
      <3>2. seen' \in [Requests -> 0 .. version]
        BY <1>0, <2>3 DEF Refresh
      <3> QED BY <1>0, <1>11, <2>3, <3>1, <3>2 DEF Decide, source, TypeOK
    <2> QED BY <1>11, <2>1, <2>2, <2>3 DEF Decide
  <1>12. ASSUME NEW r \in Requests, Disconnect(r) PROVE TypeOK'
    <2>1. req' \in [Requests -> RequestType]
      BY <1>0, <1>12, ClosedTyped, GoneTyped DEF Disconnect
    <2>2. streams' \in SUBSET streams /\ subscribers' \in SUBSET subscribers
      BY <1>12 DEF Disconnect
    <2>3. Cardinality(streams') <= Capacity
      BY <2>2, FewerStreams
    <2> QED BY <1>0, <1>12, <2>1, <2>2, <2>3 DEF Disconnect, source, TypeOK
  <1>13. CASE UNCHANGED vars
    BY <1>13 DEF vars, TypeOK
  <1> QED BY <1>1, <1>2, <1>3, <1>4, <1>5, <1>6, <1>7, <1>8, <1>9, <1>10, <1>11, <1>12, <1>13 DEF Next, Handle

\* Every reachable state is well typed, and no interleaving of awaits lets more
\* streams in than the capacity.
THEOREM TypeCorrect == Spec => []TypeOK
  BY TypeInit, TypeNext, PTL DEF Spec
-----------------------------------------------------------------------------
(* Places and callbacks *)

\* Closing takes away place and callback of those it closes, and of no others.
LEMMA CloseFacts ==
  ASSUME TypeOK, NEW S, Close(S), NEW r \in Requests
  PROVE  /\ r \notin S => /\ req'[r] = req[r]
                          /\ r \in streams' <=> r \in streams
                          /\ r \in subscribers' <=> r \in subscribers
         /\ r \in S => /\ r \notin streams' /\ r \notin subscribers'
                       /\ req'[r].closed
                       /\ req'[r].pc = IF req[r].pc = "open" THEN "done" ELSE req[r].pc
  BY ClosedTyped DEF Close, TypeOK

LEMMA ClosePlaces ==
  ASSUME TypeOK, NEW S, Close(S), NEW r \in Requests, Places(r)
  PROVE  Places(r)'
  BY CloseFacts DEF Places

LEMMA PlacedInit == Init => Placed
  BY DEF Init, Placed, Source, Places

LEMMA PlacedNext == TypeOK /\ Placed /\ [Next]_vars => Placed'
  <1> SUFFICES ASSUME TypeOK, Placed, [Next]_vars PROVE Placed'
    OBVIOUS
  <1>0. /\ req \in [Requests -> RequestType] /\ streams \subseteq Requests /\ subscribers \subseteq Requests
        /\ attempt \in Nat /\ Source /\ \A r \in Requests : Places(r)
    BY ConstantsAssumption DEF TypeOK, Placed
  <1>1. ASSUME NEW kind \in {"change", "resync"}, Commit(kind) PROVE Placed'
    BY <1>1 DEF Commit, Placed, Source, Places
  <1>2. CASE Break
    <2>1. Source'
      BY <1>0, <1>2 DEF Break, Source
    <2>2. \A r \in Requests : Places(r)'
      BY <1>0, <1>2 DEF Break, Places
    <2> QED BY <2>1, <2>2 DEF Placed
  <1>3. CASE Lost
    <2>1. Close(subscribers)
      BY <1>3 DEF Lost, Unavailable
    <2>2. subscribers' = {}
      BY <2>1 DEF Close
    <2>3. \A r \in Requests : Places(r)'
      BY <1>0, <2>1, ClosePlaces
    <2> QED BY <1>0, <1>3, <2>2, <2>3 DEF Lost, Placed, Source
  <1>4. CASE Deliver
    <2>1. PICK slow \in SUBSET (subscribers \cap At("open")) :
            Close(IF Head(wire) = "resync" THEN subscribers ELSE slow)
      BY <1>4 DEF Deliver
    <2>2. \A r \in Requests : Places(r)'
      BY <1>0, <2>1, ClosePlaces
    <2>3. Source'
      BY <1>0, <1>4 DEF Deliver, Source
    <2> QED BY <2>2, <2>3 DEF Placed
  <1>5. CASE Connect
    <2>1. req' = Subscribed /\ streams' = streams /\ subscribers' = subscribers \cup At("subscribe")
      BY <1>5 DEF Connect
    <2>2. \A r \in Requests : r \in At("subscribe") <=> req[r].pc = "subscribe"
      BY DEF At
    <2>3. ASSUME NEW r \in Requests PROVE Places(r)'
      <3>1. Places(r)
        BY <1>0
      <3>2. CASE req[r].pc = "subscribe"
        <4>1. req'[r].pc = "read" /\ req'[r].closed = req[r].closed /\ r \in subscribers'
          BY <1>0, <2>1, <2>2, <3>2, WaitersTyped
        <4> QED BY <2>1, <3>1, <3>2, <4>1 DEF Places
      <3>3. CASE req[r].pc # "subscribe"
        <4>1. req'[r] = req[r] /\ (r \in subscribers' <=> r \in subscribers)
          BY <1>0, <2>1, <2>2, <3>3, WaitersTyped
        <4> QED BY <2>1, <3>1, <4>1 DEF Places
      <3> QED BY <3>2, <3>3
    <2> QED BY <1>5, <2>3 DEF Connect, Placed, Source
  <1>6. CASE ConnectFails
    <2>1. Source'
      BY <1>0, <1>6 DEF ConnectFails, Source
    <2>2. subscribers' = subscribers
      BY <1>6 DEF ConnectFails
    <2>3. CASE UNCHANGED <<req, streams>>
      BY <1>0, <2>1, <2>2, <2>3 DEF Placed, Places
    <2>4. CASE req' = Unsubscribed /\ streams' = streams \ At("subscribe")
      <3>1. ASSUME NEW r \in Requests PROVE Places(r)'
        <4>1. Places(r)
          BY <1>0
        <4>2. CASE req[r].pc = "subscribe"
          <5>1. req'[r].pc = "done" /\ r \notin streams'
            BY <1>0, <2>4, <4>2, WaitersTyped DEF At
          <5> QED BY <2>2, <4>1, <4>2, <5>1 DEF Places
        <4>3. CASE req[r].pc # "subscribe"
          <5>1. req'[r] = req[r] /\ (r \in streams' <=> r \in streams)
            BY <1>0, <2>4, <4>3, WaitersTyped DEF At
          <5> QED BY <2>2, <4>1, <5>1 DEF Places
        <4> QED BY <4>2, <4>3
      <3> QED BY <2>1, <3>1 DEF Placed
    <2> QED BY <1>6, <2>3, <2>4 DEF ConnectFails
  <1>7. CASE Shutdown
    <2>1. Close(streams \cup subscribers)
      BY <1>7 DEF Shutdown
    <2>2. subscribers' = {}
      BY <2>1 DEF Close
    <2>3. \A r \in Requests : Places(r)'
      BY <1>0, <2>1, ClosePlaces
    <2> QED BY <1>0, <1>7, <2>2, <2>3 DEF Shutdown, Placed, Source
  <1>8. ASSUME NEW r \in Requests, Request(r) PROVE Placed'
    <2>1. /\ req'[r].pc \in {"done", "first"}
          /\ \A x \in Requests \ {r} : req'[x] = req[x]
      BY <1>0, <1>8, FinishedTyped, MovedTyped DEF Request
    <2>2. \A x \in Requests : Places(x)'
      BY <1>0, <1>8, <2>1 DEF Request, Places
    <2> QED BY <1>0, <1>8, <2>2 DEF Request, source, Placed, Source
  <1>9. ASSUME NEW r \in Requests, FirstReady(r) PROVE Placed'
    <2>0. r \notin streams \cup subscribers
      BY <1>0, <1>9 DEF FirstReady, Places
    <2>1. CASE req' = Finished(r) /\ UNCHANGED <<streams, subscribers, attempt>>
      <3>1. req'[r].pc = "done" /\ \A x \in Requests \ {r} : req'[x] = req[x]
        BY <1>0, <2>1, FinishedTyped
      <3>2. \A x \in Requests : Places(x)'
        BY <1>0, <2>0, <2>1, <3>1 DEF Places
      <3> QED BY <1>0, <1>9, <2>1, <3>2 DEF FirstReady, Placed, Source
    <2>2. CASE /\ streams' = streams \cup {r}
               /\ req' = Resumed(r, IF client = "none" THEN "subscribe" ELSE "read")
               /\ subscribers' = (IF client = "none" THEN subscribers ELSE subscribers \cup {r})
               /\ attempt' = (IF client = "none" /\ attempt = 0 THEN 1 ELSE attempt)
      <3>1. /\ req'[r].pc = IF client = "none" THEN "subscribe" ELSE "read"
            /\ \A x \in Requests \ {r} : req'[x] = req[x]
        BY <1>0, <2>2, MovedTyped
      <3>2. Places(r)'
        BY <2>0, <2>2, <3>1 DEF Places
      <3>3. ASSUME NEW x \in Requests \ {r} PROVE Places(x)'
        BY <1>0, <2>2, <3>1 DEF Places
      <3>4. client' = client
        BY <1>9 DEF FirstReady
      <3>5. Source'
        BY <1>0, <2>2, <3>4 DEF Source
      <3> QED BY <3>2, <3>3, <3>5 DEF Placed
    <2> QED BY <1>9, <2>1, <2>2, Zenon DEF FirstReady
  <1>10. ASSUME NEW r \in Requests, Read(r) PROVE Placed'
    <2>1. PICK ready \in BOOLEAN : req' = Answered(r, ready)
      BY <1>10, Zenon DEF Read, Ready
    <2>2. /\ req'[r].pc = "decide" /\ req'[r].closed = req[r].closed
          /\ \A x \in Requests \ {r} : req'[x] = req[x]
      BY <1>0, <2>1, ReadTyped
    <2>3. UNCHANGED <<streams, subscribers, client, attempt>>
      BY <1>10 DEF Read, source
    <2>4. req[r].pc = "read"
      BY <1>10 DEF Read
    <2>5. \A x \in Requests : Places(x)'
      BY <1>0, <2>2, <2>3, <2>4 DEF Places
    <2> QED BY <1>0, <2>3, <2>5 DEF Placed, Source
  <1>11. ASSUME NEW r \in Requests, Decide(r) PROVE Placed'
    <2>0. UNCHANGED <<client, attempt>> /\ req[r].pc = "decide"
      BY <1>11 DEF Decide, source
    <2>1. CASE Close({r})
      <3>1. \A x \in Requests : Places(x)'
        BY <1>0, <2>1, ClosePlaces
      <3>2. subscribers' \subseteq subscribers
        BY <2>1 DEF Close
      <3> QED BY <1>0, <2>0, <3>1, <3>2 DEF Placed, Source
    <2>2. CASE Refuse(r)
      <3>1. /\ req'[r].pc = "done" /\ \A x \in Requests \ {r} : req'[x] = req[x]
            /\ streams' = streams \ {r} /\ subscribers' = subscribers \ {r}
        BY <1>0, <2>2, FinishedTyped DEF Refuse
      <3>2. \A x \in Requests : Places(x)'
        BY <1>0, <3>1 DEF Places
      <3> QED BY <1>0, <2>0, <3>1, <3>2 DEF Placed, Source
    <2>3. CASE Usable(r) /\ req' = Resumed(r, "open") /\ UNCHANGED <<streams, subscribers>>
      <3>1. req'[r].pc = "open" /\ \A x \in Requests \ {r} : req'[x] = req[x]
        BY <1>0, <2>3, MovedTyped
      <3>2. \A x \in Requests : Places(x)'
        BY <1>0, <2>0, <2>3, <3>1 DEF Places, Usable
      <3> QED BY <1>0, <2>0, <2>3, <3>2 DEF Placed, Source
    <2> QED BY <1>11, <2>1, <2>2, <2>3 DEF Decide
  <1>12. ASSUME NEW r \in Requests, Disconnect(r) PROVE Placed'
    <2>0. UNCHANGED <<client, attempt>>
      BY <1>12 DEF Disconnect, source
    <2>1. CASE req[r].pc = "first"
      <3>1. /\ \A x \in Requests : req'[x].pc = req[x].pc /\ req'[x].closed = req[x].closed
            /\ UNCHANGED <<streams, subscribers>>
        BY <1>0, <1>12, <2>1, GoneTyped DEF Disconnect
      <3>2. \A x \in Requests : Places(x)'
        BY <1>0, <3>1 DEF Places
      <3> QED BY <1>0, <2>0, <3>1, <3>2 DEF Placed, Source
    <2>2. CASE req[r].pc # "first"
      <3>1. /\ \A x \in Requests : req'[x].pc = Closed({r})[x].pc /\ req'[x].closed = Closed({r})[x].closed
            /\ streams' = streams \ {r} /\ subscribers' = subscribers \ {r}
        BY <1>0, <1>12, <2>2, ClosedTyped, GoneTyped DEF Disconnect
      <3>2. \A x \in Requests : Places(x)'
        BY <1>0, <3>1, ClosedTyped DEF Places
      <3> QED BY <1>0, <2>0, <3>1, <3>2 DEF Placed, Source
    <2> QED BY <2>1, <2>2
  <1>13. CASE UNCHANGED vars
    BY <1>13 DEF vars, Placed, Source, Places
  <1> QED BY <1>1, <1>2, <1>3, <1>4, <1>5, <1>6, <1>7, <1>8, <1>9, <1>10, <1>11, <1>12, <1>13 DEF Next, Handle

\* Whichever await a request is closed in, by its client, by the shutdown or by
\* the loss of the connection, it gives back its place and its callback, and no
\* stream is open without them.
THEOREM PlacesKept == Spec => []NoLeak
  <1>1. TypeOK /\ Placed => NoLeak
    BY DEF Placed, Places, NoLeak
  <1> QED BY <1>1, PlacedInit, PlacedNext, TypeCorrect, PTL DEF Spec
-----------------------------------------------------------------------------
(* Notifications *)

\* A request that waits for its answer, or has a stream, is listening.
Listens(r) == req[r].pc = "open" \/ (req[r].pc = "decide" /\ ~req[r].closed)

\* Whoever listens is a subscriber, and there is a connection.
LEMMA Listening ==
  ASSUME Placed, NEW r \in Requests, Listens(r)
  PROVE  r \in subscribers /\ client # "none" /\ ~(attempt > 0)
  BY DEF Placed, Places, Source, Listens

\* A step that ends no request's wait and loses no notification keeps what is
\* pending.
LEMMA PendingKept ==
  ASSUME NEW r \in Requests, Pending(r),
         Listens(r)' => Listens(r) /\ req'[r] = req[r],
         UNCHANGED <<wire, client, version, resync>>, seen'[r] = seen[r]
  PROVE  Pending(r)'
  BY DEF Pending, Listens, Coming, ResyncComing

\* A request that has been closed, or is not as far as its answer, waits for nothing.
LEMMA NothingPending ==
  ASSUME NEW r \in Requests, ~Listens(r)' PROVE Pending(r)'
  BY DEF Pending, Listens

\* Closing leaves the others as they were, and those it closes do not listen.
LEMMA CloseListens ==
  ASSUME TypeOK, NEW S, Close(S), NEW r \in Requests
  PROVE  Listens(r)' => r \notin S /\ Listens(r) /\ req'[r] = req[r]
  BY CloseFacts DEF Listens

LEMMA PendingInit == Init => \A r \in Requests : Pending(r)
  BY DEF Init, Pending

\* A notification is sent to whoever is connected.
LEMMA CommitPending ==
  ASSUME TypeOK, Placed, NEW kind \in {"change", "resync"}, Commit(kind), NEW r \in Requests
  PROVE  Pending(r)'
  <1>1. req' = req /\ client' = client /\ ~resync /\ (resync' <=> kind = "resync")
    BY DEF Commit
  <1>2. CASE ~Listens(r)
    BY <1>1, <1>2, NothingPending DEF Listens
  <1>3. CASE Listens(r)
    <2>1. client \in {"up", "broken"}
      BY <1>3, Listening DEF TypeOK
    <2>2. CASE client = "broken"
      BY <1>1, <2>2 DEF Pending, Coming, ResyncComing
    <2>3. CASE client = "up"
      <3>1. wire' = Append(wire, kind) /\ wire \in Seq({"change", "resync"})
        BY <2>3 DEF Commit, TypeOK
      <3>2. Len(wire') \in DOMAIN wire' /\ wire'[Len(wire')] = kind /\ wire' # <<>>
        BY <3>1
      <3> QED BY <1>1, <3>2 DEF Pending, Coming, ResyncComing
    <2> QED BY <2>1, <2>2, <2>3
  <1> QED BY <1>2, <1>3

\* Whoever still listens after a notification has been told, or waits for a
\* later one.
LEMMA DeliverPending ==
  ASSUME TypeOK, Placed, Deliver, NEW r \in Requests, Pending(r)
  PROVE  Pending(r)'
  <1>1. PICK slow \in SUBSET (subscribers \cap At("open")) :
          /\ Close(IF Head(wire) = "resync" THEN subscribers ELSE slow)
          /\ seen' = [x \in Requests |-> IF x \in (subscribers \cap At("open")) \ slow THEN version ELSE seen[x]]
    BY DEF Deliver
  <1>2. CASE ~Listens(r)'
    BY <1>2, NothingPending
  <1>3. CASE Listens(r)'
    <2>1. /\ r \notin IF Head(wire) = "resync" THEN subscribers ELSE slow
          /\ Listens(r) /\ req'[r] = req[r]
      BY <1>1, <1>3, CloseListens
    <2>2. r \in subscribers
      BY <2>1, Listening
    <2>3. Head(wire) # "resync" /\ r \notin slow
      BY <2>1, <2>2
    <2>4. req[r].pc = "open" => seen'[r] = version
      BY <1>1, <2>2, <2>3 DEF At
    <2>5. client = "up" /\ UNCHANGED <<version, resync, client>> /\ wire # <<>> /\ wire' = Tail(wire)
      BY DEF Deliver
    <2>6. version \in Nat
      BY ConstantsAssumption DEF TypeOK
    <2>7. ASSUME NEW i \in DOMAIN wire, wire[i] = "resync" PROVE \E j \in DOMAIN wire' : wire'[j] = "resync"
      <3>1. wire \in Seq({"change", "resync"})
        BY DEF TypeOK
      <3>2. i \in 1 .. Len(wire) /\ i # 1
        BY <2>3, <2>5, <2>7, <3>1
      <3>3. i - 1 \in DOMAIN wire' /\ wire'[i - 1] = wire[i]
        BY <2>5, <3>1, <3>2
      <3> QED BY <2>7, <3>3
    <2> QED BY <2>1, <2>4, <2>5, <2>6, <2>7 DEF Pending, Coming, ResyncComing
  <1> QED BY <1>2, <1>3

LEMMA PendingNext == TypeOK /\ Inv /\ [Next]_vars => \A r \in Requests : Pending(r)'
  <1> SUFFICES ASSUME TypeOK, Inv, [Next]_vars, NEW r \in Requests PROVE Pending(r)'
    OBVIOUS
  <1>0. /\ req \in [Requests -> RequestType] /\ Placed /\ Pending(r) /\ version \in Nat
    BY ConstantsAssumption DEF TypeOK, Inv
  <1>1. ASSUME NEW kind \in {"change", "resync"}, Commit(kind) PROVE Pending(r)'
    BY <1>0, <1>1, CommitPending
  <1>2. CASE Break
    BY <1>2 DEF Break, Pending, Coming, ResyncComing
  <1>3. CASE Lost
    <2>1. Close(subscribers)
      BY <1>3 DEF Lost, Unavailable
    <2>2. ~Listens(r)'
      BY <1>0, <2>1, CloseListens, Listening
    <2> QED BY <2>2, NothingPending
  <1>4. CASE Deliver
    BY <1>0, <1>4, DeliverPending
  <1>5. CASE Connect
    <2>1. ~Listens(r)
      BY <1>0, <1>5, Listening DEF Connect
    <2>2. ~Listens(r)'
      BY <1>0, <1>5, <2>1, WaitersTyped DEF Connect, Listens
    <2> QED BY <2>2, NothingPending
  <1>6. CASE ConnectFails
    <2>1. ~Listens(r)
      BY <1>0, <1>6, Listening DEF ConnectFails
    <2>2. ~Listens(r)'
      BY <1>0, <1>6, <2>1, WaitersTyped DEF ConnectFails, Listens
    <2> QED BY <2>2, NothingPending
  <1>7. CASE Shutdown
    <2>1. Close(streams \cup subscribers)
      BY <1>7 DEF Shutdown
    <2>2. ~Listens(r)'
      BY <1>0, <2>1, CloseListens, Listening
    <2> QED BY <2>2, NothingPending
  <1>8. ASSUME NEW q \in Requests, Request(q) PROVE Pending(r)'
    <2>1. Listens(r)' => req'[r] = req[r]
      BY <1>0, <1>8, FinishedTyped, MovedTyped DEF Request, Listens
    <2> QED BY <1>0, <1>8, <2>1, PendingKept DEF Request, source, Listens
  <1>9. ASSUME NEW q \in Requests, FirstReady(q) PROVE Pending(r)'
    <2>1. req' = Finished(q) \/ req' = Resumed(q, "subscribe") \/ req' = Resumed(q, "read")
      BY <1>9 DEF FirstReady
    <2>2. Listens(r)' => req'[r] = req[r]
      BY <1>0, <2>1, FinishedTyped, MovedTyped DEF Listens
    <2> QED BY <1>0, <1>9, <2>2, PendingKept DEF FirstReady, Listens
  <1>10. ASSUME NEW q \in Requests, Read(q) PROVE Pending(r)'
    <2>1. PICK ready \in Ready : req' = Answered(q, ready)
      BY <1>10, Zenon DEF Read
    <2>2. ready \in BOOLEAN /\ (resync => ready = FALSE)
      BY <2>1, Zenon DEF Ready
    <2>3. UNCHANGED <<wire, client, version, resync, seen>>
      BY <1>10 DEF Read, source
    <2>4. CASE r = q
      <3>1. req'[r].pc = "decide" /\ req'[r].ready = ready
        BY <1>0, <2>1, <2>2, <2>4, ReadTyped
      <3> QED BY <2>2, <2>3, <3>1 DEF Pending
    <2>5. CASE r # q
      <3>1. req'[r] = req[r]
        BY <1>0, <2>1, <2>2, <2>5, ReadTyped
      <3> QED BY <1>0, <2>3, <3>1, PendingKept DEF Listens
    <2> QED BY <2>4, <2>5
  <1>11. ASSUME NEW q \in Requests, Decide(q) PROVE Pending(r)'
    <2>0. UNCHANGED <<wire, client, version, resync>> /\ req[q].pc = "decide"
      BY <1>11 DEF Decide, source
    <2>1. CASE Close({q}) /\ UNCHANGED seen
      <3>1. Listens(r)' => Listens(r) /\ req'[r] = req[r]
        BY <2>1, CloseListens
      <3> QED BY <1>0, <2>0, <2>1, <3>1, PendingKept
    <2>2. CASE Refuse(q) /\ UNCHANGED seen
      <3>1. Listens(r)' => req'[r] = req[r]
        BY <1>0, <2>2, FinishedTyped DEF Refuse, Listens
      <3> QED BY <1>0, <2>0, <2>2, <3>1, PendingKept DEF Listens
    <2>3. CASE Usable(q) /\ req' = Resumed(q, "open") /\ Refresh(q)
      <3>1. CASE r = q
        <4>1. seen'[r] = version
          BY <2>3, <3>1 DEF Refresh, TypeOK
        <4>2. resync => ResyncComing
          BY <1>0, <2>0, <2>3, <3>1 DEF Pending, Usable
        <4> QED BY <1>0, <2>0, <4>1, <4>2 DEF Pending, Coming, ResyncComing
      <3>2. CASE r # q
        <4>1. req'[r] = req[r] /\ seen'[r] = seen[r]
          BY <1>0, <2>3, <3>2, MovedTyped DEF Refresh, TypeOK
        <4> QED BY <1>0, <2>0, <4>1, PendingKept DEF Listens
      <3> QED BY <3>1, <3>2
    <2> QED BY <1>11, <2>1, <2>2, <2>3 DEF Decide
  <1>12. ASSUME NEW q \in Requests, Disconnect(q) PROVE Pending(r)'
    <2>0. UNCHANGED <<wire, client, version, resync, seen>>
      BY <1>12 DEF Disconnect, source
    <2>1. \/ \A x \in Requests : req'[x].pc = req[x].pc /\ req'[x].closed = req[x].closed /\ req'[x].ready = req[x].ready
          \/ \A x \in Requests : /\ req'[x].pc = Closed({q})[x].pc /\ req'[x].closed = Closed({q})[x].closed
                                 /\ req'[x].ready = Closed({q})[x].ready
      BY <1>0, <1>12, ClosedTyped, GoneTyped DEF Disconnect
    <2>2. Listens(r)' => req'[r].pc = req[r].pc /\ req'[r].closed = req[r].closed /\ req'[r].ready = req[r].ready
      BY <1>0, <2>1, ClosedTyped DEF Listens
    <2> QED BY <1>0, <2>0, <2>2 DEF Pending, Listens, Coming, ResyncComing
  <1>13. CASE UNCHANGED vars
    BY <1>0, <1>13 DEF vars, Pending, Coming, ResyncComing
  <1> QED BY <1>1, <1>2, <1>3, <1>4, <1>5, <1>6, <1>7, <1>8, <1>9, <1>10, <1>11, <1>12, <1>13 DEF Next, Handle

LEMMA InvAlways == Spec => []Inv
  <1>1. Init => Inv
    BY PlacedInit, PendingInit DEF Inv
  <1>2. TypeOK /\ Inv /\ [Next]_vars => Inv'
    BY PlacedNext, PendingNext DEF Inv
  <1> QED BY <1>1, <1>2, TypeCorrect, PTL DEF Spec

\* An open stream has been told of every commit, or a notification or the
\* report of a lost connection is still to come: whatever awaits it went through
\* on the way, and however often the connection was lost and rebuilt.
THEOREM NoneMissed == Spec => []NothingMissed
  <1>1. Inv => NothingMissed
    BY DEF Inv, Pending, NothingMissed, At, Coming
  <1> QED BY <1>1, InvAlways, PTL

\* No stream that is open under the resync latch stays open unnoticed.
THEOREM ResyncNoticed == Spec => []ResyncCloses
  <1>1. Inv => ResyncCloses
    BY DEF Inv, Pending, ResyncCloses, At, ResyncComing
  <1> QED BY <1>1, InvAlways, PTL
=============================================================================
