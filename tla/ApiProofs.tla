------------------------------ MODULE ApiProofs ------------------------------
(* Theorems about Api, for every value of its constants: any number of       *)
(* requests, places and settings, any capacity, any cache.                   *)
EXTENDS Api, FiniteSetTheorems, TLAPS

-----------------------------------------------------------------------------
(* The inductive invariant.                                                *)

Block == Int \X Branches
Stamp == [at : Int, generation : Nat]
Received == {"head", "block", "calls", "orphaned"}

ReqType ==
  [at : Nat, doing : {"idle", "db", "rpc", "done"}, pin : Block \cup {None}, cursor : Block \cup {None},
   head : Int, got : SUBSET Received, data : SUBSET Block, age : Int, stamps : SUBSET Stamp,
   answer : {"none", "refused", "unavailable", "observed"}]

Active(q) == q.doing \in {"db", "rpc"}

\* What a request has in hand is of its pin, which the first read fixes.
ReqOK(r, q) ==
  /\ q \in ReqType
  /\ q.answer # "none" => q.doing = "done"
  /\ q.age < Ttl
  /\ Active(q) =>
       /\ q.at \in 1 .. Len(Steps(r))
       /\ q.doing = "db" <=> Steps(r)[q.at] \in DatabaseSteps
       /\ q.at = 1 => q.pin = None /\ q.data = {}
       /\ q.at # 1 => q.pin \in Block /\ q.data = {q.pin}

\* An entry is of the present generation, of the block in its key, and as old
\* as its stamp says; a key has one entry.
CacheOK(c) ==
  /\ c = [entries |-> c.entries, generation |-> c.generation, previous |-> c.previous]
  /\ c.generation \in Nat /\ c.previous \in Int
  /\ \A e \in c.entries :
       /\ e.at \in Int /\ e.at = e.stamp.at
       /\ e.stamp.generation = c.generation
       /\ e.block = e.key[1]
  /\ \A e, f \in c.entries : e.key = f.key => e = f

WorldOK ==
  /\ node \in [head : Int, branch : Branches]
  /\ index \in [tip : Int, branch : Branches, status : {"indexing", "unready"}]
  /\ clock \in Int

Units(h) == UNION {{r} \X (1 .. h[r]) : r \in Requests}
Leased(l) == {r \in Requests : l[r] # "none"}

HoldsOK ==
  /\ held \in [Requests -> Nat]
  /\ IsFiniteSet(Units(held)) /\ rpc = Cardinality(Units(held)) /\ rpc <= RpcCapacity

\* A quote that runs holds its place; a quote's database read has one while it lasts.
PlaceOK(r, doing, place, reads) ==
  /\ ~IsQuote(r) => place = "none"
  /\ doing = "idle" => place = "none" /\ ~reads
  /\ IsQuote(r) /\ doing \in {"db", "rpc"} => place = "held"
  /\ doing = "done" => place # "held"
  /\ IsQuote(r) /\ reads => place # "none"
  /\ place = "draining" => reads

PlacesOK ==
  /\ lease \in [Requests -> {"none", "held", "draining"}]
  /\ IsFiniteSet(Leased(lease)) /\ places = Cardinality(Leased(lease)) /\ places <= Places
  /\ reading \subseteq Requests
  /\ \A r \in Requests : PlaceOK(r, req[r].doing, lease[r], r \in reading)

RequestsOK == req \in [Requests -> ReqType] /\ \A r \in Requests : ReqOK(r, req[r])

ApiInv == WorldOK /\ RequestsOK /\ CacheOK(cache) /\ HoldsOK /\ PlacesOK

-----------------------------------------------------------------------------
(* The steps of the services.                                              *)

RpcSteps == {"identity", "context", "inspect", "quote", "blocks", "getters"}

\* Every service begins and ends with a read of the database.
LEMMA StepsShape ==
  ASSUME NEW r \in Requests
  PROVE  /\ Len(Steps(r)) \in Nat /\ Len(Steps(r)) > 1
         /\ Steps(r)[1] \in DatabaseSteps /\ Steps(r)[Len(Steps(r))] \in DatabaseSteps
         /\ \A i \in 1 .. Len(Steps(r)) : Steps(r)[i] \in DatabaseSteps \cup RpcSteps
  <1> USE DEF Steps, DatabaseSteps, RpcSteps
  <1>1. Kind[r] \in Kinds
    BY ApiAssumption
  <1>2. CASE Kind[r] = "swap"
    BY <1>2 DEF SwapSteps
  <1>3. CASE Kind[r] = "payment"
    BY <1>3 DEF PaymentSteps
  <1>4. CASE Kind[r] = "direct"
    BY <1>4 DEF DirectSteps
  <1>5. CASE Kind[r] = "absent"
    BY <1>5 DEF AbsentSteps
  <1>6. CASE Kind[r] = "ready"
    BY <1>6 DEF ReadySteps
  <1>7. CASE Kind[r] = "metrics"
    BY <1>7 DEF MetricsSteps
  <1>8. CASE Kind[r] = "invoices"
    BY <1>8 DEF InvoiceSteps
  <1>9. CASE Kind[r] = "strategies"
    BY <1>9 DEF StrategySteps
  <1> QED BY <1>1, <1>2, <1>3, <1>4, <1>5, <1>6, <1>7, <1>8, <1>9 DEF Kinds

LEMMA WeightsNat ==
  ASSUME NEW r \in Requests, NEW step \in RpcSteps, NEW w \in Weights(r, step)
  PROVE  w \in Nat
  <1>1. CASE step = "identity"
    BY <1>1 DEF Weights
  <1>2. CASE step = "context"
    BY <1>2 DEF Weights
  <1>3. CASE step = "inspect"
    BY <1>3 DEF Weights
  <1>4. CASE step = "quote"
    BY <1>4 DEF Weights
  <1>5. CASE step = "blocks"
    BY <1>5 DEF Weights
  <1>6. CASE step = "getters"
    BY <1>6 DEF Weights
  <1> QED BY <1>1, <1>2, <1>3, <1>4, <1>5, <1>6 DEF RpcSteps

-----------------------------------------------------------------------------
(* Counting.                                                               *)

\* Reserving n for a request changes the count by what it reserved before.
LEMMA UnitsChange ==
  ASSUME NEW h \in [Requests -> Nat], IsFiniteSet(Units(h)), NEW r \in Requests, NEW n \in Nat
  PROVE  LET g == [h EXCEPT ![r] = n] IN
         /\ IsFiniteSet(Units(g))
         /\ Cardinality(Units(g)) = Cardinality(Units(h)) - h[r] + n
         /\ h[r] <= Cardinality(Units(h))
  <1> DEFINE g == [h EXCEPT ![r] = n]
             Rest == UNION {{x} \X (1 .. h[x]) : x \in Requests \ {r}}
             Own(k) == {r} \X (1 .. k)
  <1>1. /\ Units(h) = Rest \cup Own(h[r])
        /\ Units(g) = Rest \cup Own(n)
    BY DEF Units
  <1>2. IsFiniteSet(Rest)
    <2>1. Rest \subseteq Units(h)
      BY <1>1
    <2> QED BY <2>1, FS_Subset
  <1>3. ASSUME NEW k \in Nat
        PROVE  /\ IsFiniteSet(Own(k)) /\ Cardinality(Own(k)) = k
               /\ Rest \cap Own(k) = {}
               /\ IsFiniteSet(Rest \cup Own(k)) /\ Cardinality(Rest \cup Own(k)) = Cardinality(Rest) + k
    <2>1. IsFiniteSet({r}) /\ Cardinality({r}) = 1
      BY FS_Singleton
    <2>2. IsFiniteSet(1 .. k) /\ Cardinality(1 .. k) = k
      BY FS_Interval
    <2>3. IsFiniteSet(Own(k)) /\ Cardinality(Own(k)) = 1 * k
      BY <2>1, <2>2, FS_Product
    <2>4. Rest \cap Own(k) = {}
      OBVIOUS
    <2> HIDE DEF Own, Rest
    <2>5. IsFiniteSet(Rest \cup Own(k)) /\ Cardinality(Rest \cup Own(k)) = Cardinality(Rest) + k - Cardinality({})
      BY <1>2, <2>3, <2>4, FS_Union
    <2>6. Cardinality(Rest) \in Nat /\ Cardinality({}) = 0
      BY <1>2, FS_CardinalityType, FS_EmptySet
    <2> QED BY <2>3, <2>4, <2>5, <2>6
  <1>4. Cardinality(Rest) \in Nat
    BY <1>2, FS_CardinalityType
  <1>5. h[r] \in Nat
    OBVIOUS
  <1> HIDE DEF Own, Rest, g
  <1>6. IsFiniteSet(Units(g)) /\ Cardinality(Units(g)) = Cardinality(Units(h)) - h[r] + n /\ h[r] <= Cardinality(Units(h))
    <2>1. IsFiniteSet(Units(g)) /\ Cardinality(Units(g)) = Cardinality(Rest) + n
      BY <1>1, <1>3
    <2>2. Cardinality(Units(h)) = Cardinality(Rest) + h[r]
      BY <1>1, <1>3, <1>5
    <2> QED BY <2>1, <2>2, <1>4, <1>5
  <1> QED BY <1>6 DEF g

-----------------------------------------------------------------------------
(* The cache.                                                              *)

LEMMA TimedOK ==
  ASSUME NEW c, CacheOK(c), NEW now \in Int
  PROVE  /\ CacheOK(Timed(c, now))
         /\ Timed(c, now).generation \in Nat
         /\ ~Backwards(c, now) => /\ Timed(c, now).generation = c.generation
                                  /\ \A e \in Timed(c, now).entries : e \in c.entries /\ now - e.at < Ttl
  <1>1. c.generation \in Nat /\ c.previous \in Int
    BY DEF CacheOK
  <1>2. CASE Backwards(c, now)
    <2>1. Timed(c, now) = [entries |-> {}, generation |-> c.generation + 1, previous |-> now]
      BY <1>2 DEF Timed, Cleared, CacheOK
    <2> QED BY <1>1, <1>2, <2>1 DEF CacheOK
  <1>3. CASE ~Backwards(c, now)
    <2> DEFINE kept == {e \in c.entries : now - e.at < Ttl}
    <2>1. Timed(c, now) = [entries |-> kept, generation |-> c.generation, previous |-> now]
      BY <1>3 DEF Timed, CacheOK
    <2>2. kept \subseteq c.entries /\ \A e \in kept : now - e.at < Ttl
      OBVIOUS
    <2> HIDE DEF kept
    <2>3. CacheOK(Timed(c, now))
      BY <1>1, <2>1, <2>2 DEF CacheOK
    <2> QED BY <1>1, <1>3, <2>1, <2>2, <2>3
  <1> QED BY <1>2, <1>3

LEMMA BegunOK ==
  ASSUME NEW c, CacheOK(c), NEW now \in Int
  PROVE  Begun(c, now) \subseteq Stamp
  BY DEF Begun, Stamp, CacheOK

\* What is found is of the key's block and young enough, and it is one at most.
LEMMA FoundOK ==
  ASSUME NEW c, CacheOK(c), NEW now \in Int, NEW key
  PROVE  LET hits == Found(c, now, key) IN
         /\ \A e \in hits : e.block = key[1] /\ now - e.stamp.at \in Int /\ now - e.stamp.at < Ttl
         /\ Cardinality(hits) = IF hits = {} THEN 0 ELSE 1
  <1> DEFINE hits == Found(c, now, key)
  <1>1. CASE Backwards(c, now)
    <2>1. hits = {}
      BY <1>1 DEF Found
    <2> QED BY <2>1, FS_EmptySet
  <1>2. CASE ~Backwards(c, now)
    <2>1. hits = {e \in Timed(c, now).entries : e.key = key}
      BY <1>2 DEF Found
    <2>2. \A e \in hits : e \in c.entries /\ e.key = key /\ now - e.at < Ttl
      BY <1>2, <2>1, TimedOK
    <2>3. \A e, f \in hits : e = f
      BY <2>2 DEF CacheOK
    <2>4. \A e \in hits : e.block = key[1] /\ now - e.stamp.at \in Int /\ now - e.stamp.at < Ttl
      BY <2>2 DEF CacheOK
    <2> HIDE DEF hits
    <2>5. CASE hits = {}
      BY <2>4, <2>5, FS_EmptySet DEF hits
    <2>6. CASE hits # {}
      <3>1. PICK e : hits = {e}
        BY <2>3, <2>6
      <3>2. Cardinality(hits) = 1
        BY <3>1, FS_Singleton
      <3> QED BY <2>4, <2>6, <3>2 DEF hits
    <2> QED BY <2>5, <2>6
  <1> QED BY <1>1, <1>2

LEMMA PutOK ==
  ASSUME NEW c, CacheOK(c), NEW now \in Int, NEW key, NEW stamps \in SUBSET Stamp
  PROVE  CacheOK(Put(c, now, key, stamps, key[1]))
  <1> DEFINE t == Timed(c, now)
             good == {s \in stamps : /\ ~Backwards(c, now)
                                     /\ s.generation = t.generation
                                     /\ s.at <= now
                                     /\ now - s.at < Ttl
                                     /\ \A e \in t.entries : e.key # key}
             room == IF Cardinality(t.entries) >= MaxEntries THEN WithoutOldest(t.entries) ELSE t.entries
             stamp == CHOOSE s \in good : TRUE
             entry == Entry(key, stamp, now, key[1], NextTurn(t.entries))
  <1>1. CacheOK(t)
    BY TimedOK
  <1>2. Put(c, now, key, stamps, key[1]) = IF good = {} THEN t ELSE [t EXCEPT !.entries = room \cup {entry}]
    BY DEF Put
  <1>3. room \subseteq t.entries
    BY DEF WithoutOldest
  <1>4. ASSUME good # {}
        PROVE  /\ stamp \in Stamp /\ stamp.generation = t.generation
               /\ \A e \in t.entries : e.key # key
    <2>1. stamp \in good
      BY <1>4
    <2> QED BY <2>1
  <1>5. /\ entry.key = key /\ entry.at = stamp.at /\ entry.stamp = stamp /\ entry.block = key[1]
    BY DEF Entry
  <1> HIDE DEF t, good, room, stamp, entry
  <1>6. CASE good = {}
    BY <1>1, <1>2, <1>6
  <1>7. CASE good # {}
    <2> DEFINE all == room \cup {entry}
               p == [entries |-> all, generation |-> t.generation, previous |-> t.previous]
    <2>1. Put(c, now, key, stamps, key[1]) = p
      <3>1. t = [entries |-> t.entries, generation |-> t.generation, previous |-> t.previous]
        BY <1>1 DEF CacheOK
      <3> QED BY <1>2, <1>7, <3>1
    <2>2. \A e \in all : e \in t.entries \/ e = entry
      BY <1>3
    <2>3. stamp.at \in Int /\ entry.stamp.generation = t.generation
      BY <1>4, <1>5, <1>7 DEF Stamp
    <2> HIDE DEF all
    <2>4. \A e \in all :
            e.at \in Int /\ e.at = e.stamp.at /\ e.stamp.generation = t.generation /\ e.block = e.key[1]
      BY <1>1, <1>5, <2>2, <2>3 DEF CacheOK
    <2>5. \A e, f \in all : e.key = f.key => e = f
      BY <1>1, <1>4, <1>5, <1>7, <2>2 DEF CacheOK
    <2>6. p.entries = all /\ p.generation = t.generation /\ p.previous = t.previous
      OBVIOUS
    <2>7. t.generation \in Nat /\ t.previous \in Int
      BY <1>1 DEF CacheOK
    <2>8. p = [entries |-> p.entries, generation |-> p.generation, previous |-> p.previous]
      OBVIOUS
    <2> HIDE DEF p
    <2> QED BY <2>1, <2>4, <2>5, <2>6, <2>7, <2>8 DEF CacheOK
  <1> QED BY <1>6, <1>7

-----------------------------------------------------------------------------
(* What a request takes and gives back.                                    *)

LEMMA RequestSet ==
  ASSUME RequestsOK, NEW r \in Requests, NEW q, ReqOK(r, q), req' = [req EXCEPT ![r] = q]
  PROVE  RequestsOK' /\ req'[r] = q /\ \A x \in Requests \ {r} : req'[x] = req[x]
  <1>1. q \in ReqType
    BY DEF ReqOK
  <1>2. req' \in [Requests -> ReqType] /\ req'[r] = q /\ \A x \in Requests \ {r} : req'[x] = req[x]
    BY <1>1 DEF RequestsOK
  <1>3. \A x \in Requests : ReqOK(x, req'[x])
    BY <1>2 DEF RequestsOK
  <1> QED BY <1>2, <1>3 DEF RequestsOK

LEMMA HoldsSet ==
  ASSUME HoldsOK, NEW r \in Requests, NEW n \in Nat, held' = [held EXCEPT ![r] = n],
         rpc' = rpc - held[r] + n, rpc - held[r] + n <= RpcCapacity
  PROVE  HoldsOK'
  <1>1. /\ IsFiniteSet(Units(held')) /\ Cardinality(Units(held')) = Cardinality(Units(held)) - held[r] + n
    BY UnitsChange DEF HoldsOK
  <1> QED BY <1>1 DEF HoldsOK

LEMMA ReleasesOK ==
  ASSUME HoldsOK, NEW r \in Requests, Releases(r)
  PROVE  HoldsOK'
  <1>1. held[r] \in Nat /\ rpc \in Nat /\ RpcCapacity \in Nat /\ rpc <= RpcCapacity
    BY FS_CardinalityType, ApiAssumption DEF HoldsOK
  <1>2. held' = [held EXCEPT ![r] = 0] /\ rpc' = rpc - held[r] + 0 /\ rpc - held[r] + 0 <= RpcCapacity
    BY <1>1 DEF Releases
  <1> QED BY <1>2, HoldsSet

\* A step of one request changes its place and its read alone.
LEMMA PlacesSet ==
  ASSUME PlacesOK, NEW r \in Requests, \A x \in Requests \ {r} : req'[x] = req[x],
         NEW place \in {"none", "held", "draining"},
         lease' = [lease EXCEPT ![r] = place],
         places' = IF lease[r] = "none" THEN (IF place = "none" THEN places ELSE places + 1)
                   ELSE (IF place = "none" THEN places - 1 ELSE places),
         lease[r] = "none" /\ place # "none" => places < Places,
         reading' \subseteq Requests, \A x \in Requests \ {r} : x \in reading' <=> x \in reading,
         PlaceOK(r, req'[r].doing, place, r \in reading')
  PROVE  PlacesOK'
  <1>1. lease' \in [Requests -> {"none", "held", "draining"}]
    BY DEF PlacesOK
  <1>2. IsFiniteSet(Leased(lease')) /\ places' = Cardinality(Leased(lease'))
    <2> DEFINE before == Leased(lease)
               after == Leased(lease')
    <2>1. IsFiniteSet(before) /\ places = Cardinality(before) /\ places \in Nat /\ (r \in before <=> lease[r] # "none")
      BY FS_CardinalityType DEF PlacesOK, Leased
    <2>2. CASE place = "none"
      <3>1. after = before \ {r}
        BY <2>2 DEF Leased, PlacesOK
      <3> HIDE DEF before, after
      <3>2. IsFiniteSet(after) /\ Cardinality(after) = IF r \in before THEN places - 1 ELSE places
        BY <2>1, <3>1, FS_RemoveElement
      <3> QED BY <2>1, <2>2, <3>2 DEF after
    <2>3. CASE place # "none"
      <3>1. after = before \cup {r}
        BY <2>3 DEF Leased, PlacesOK
      <3> HIDE DEF before, after
      <3>2. IsFiniteSet(after) /\ Cardinality(after) = IF r \in before THEN places ELSE places + 1
        BY <2>1, <3>1, FS_AddElement
      <3> QED BY <2>1, <2>3, <3>2 DEF after
    <2> QED BY <2>2, <2>3
  <1>3. places' <= Places
    <2>1. places \in Nat /\ Places \in Nat /\ places <= Places
      BY FS_CardinalityType, ApiAssumption DEF PlacesOK
    <2> QED BY <2>1
  <1>4. lease'[r] = place /\ \A x \in Requests \ {r} : lease'[x] = lease[x]
    BY DEF PlacesOK
  <1>5. ASSUME NEW x \in Requests PROVE PlaceOK(x, req'[x].doing, lease'[x], x \in reading')
    <2>1. CASE x = r
      BY <1>4, <2>1
    <2>2. CASE x # r
      <3>1. PlaceOK(x, req[x].doing, lease[x], x \in reading)
        BY DEF PlacesOK
      <3> QED BY <1>4, <2>2, <3>1 DEF PlaceOK
    <2> QED BY <2>1, <2>2
  <1> QED BY <1>1, <1>2, <1>3, <1>5 DEF PlacesOK, PlaceOK

\* When the service ends its place is free, or will be when its read settles.
LEMMA LeaseEndsEffect ==
  ASSUME PlacesOK, NEW r \in Requests, Active(req[r]), NEW reads \in BOOLEAN, LeaseEnds(r, reads)
  PROVE  LET place == IF IsQuote(r) /\ reads THEN "draining" ELSE "none" IN
         /\ lease' = [lease EXCEPT ![r] = place]
         /\ places' = IF lease[r] = "none" THEN (IF place = "none" THEN places ELSE places + 1)
                      ELSE (IF place = "none" THEN places - 1 ELSE places)
         /\ lease[r] = "none" /\ place # "none" => places < Places
  <1>1. PlaceOK(r, req[r].doing, lease[r], r \in reading) /\ lease \in [Requests -> {"none", "held", "draining"}]
    BY DEF PlacesOK
  <1>2. CASE ~IsQuote(r)
    <2>1. lease[r] = "none" /\ UNCHANGED <<places, lease>>
      BY <1>1, <1>2 DEF LeaseEnds, PlaceOK
    <2>2. lease = [lease EXCEPT ![r] = "none"]
      BY <1>1, <2>1
    <2> QED BY <1>2, <2>1, <2>2
  <1>3. CASE IsQuote(r)
    <2>1. lease[r] = "held"
      BY <1>1, <1>3 DEF Active, PlaceOK
    <2> QED BY <1>3, <2>1 DEF LeaseEnds
  <1> QED BY <1>2, <1>3

LEMMA EndedOK ==
  ASSUME RequestsOK, NEW r \in Requests, NEW answer \in {"refused", "unavailable", "observed"}, Ended(r, answer)
  PROVE  RequestsOK' /\ req'[r].doing = "done" /\ req'[r].answer = answer
         /\ \A x \in Requests \ {r} : req'[x] = req[x]
  <1> DEFINE q == [Idle EXCEPT !.doing = "done", !.answer = answer]
  <1>0. q \in ReqType /\ q.doing = "done" /\ q.answer = answer /\ q.age = 0
    <2>1. Idle \in ReqType /\ Idle.age = 0
      BY DEF ReqType, Idle
    <2> QED BY <2>1 DEF ReqType
  <1>1. ReqOK(r, q)
    <2> HIDE DEF q
    <2>1. 0 < Ttl /\ ~Active(q)
      BY <1>0, CacheAssumption DEF Active
    <2> QED BY <1>0, <2>1 DEF ReqOK
  <1>2. req' = [req EXCEPT ![r] = q]
    BY DEF Ended
  <1> HIDE DEF q
  <1> QED BY <1>0, <1>1, <1>2, RequestSet

\* The three ways in which a step of a service ends.
LEMMA AnswersOK ==
  ASSUME RequestsOK, HoldsOK, PlacesOK, NEW r \in Requests, Active(req[r]),
         NEW answer \in {"unavailable", "observed"}, Answers(r, answer)
  PROVE  /\ RequestsOK' /\ HoldsOK' /\ PlacesOK'
         /\ req'[r].answer = answer /\ \A x \in Requests \ {r} : req'[x] = req[x]
  <1>1. RequestsOK' /\ req'[r].doing = "done" /\ req'[r].answer = answer /\ \A x \in Requests \ {r} : req'[x] = req[x]
    BY EndedOK DEF Answers
  <1>2. HoldsOK'
    BY ReleasesOK DEF Answers
  <1>3. reading' = reading \ {r} /\ reading \subseteq Requests
    BY DEF Answers, PlacesOK
  <1>4. PlaceOK(r, req'[r].doing, "none", r \in reading')
    BY <1>1, <1>3 DEF PlaceOK
  <1>5. PlacesOK'
    <2>1. /\ lease' = [lease EXCEPT ![r] = "none"]
          /\ places' = IF lease[r] = "none" THEN places ELSE places - 1
      BY LeaseEndsEffect DEF Answers
    <2> QED BY <1>1, <1>3, <1>4, <2>1, PlacesSet
  <1> QED BY <1>1, <1>2, <1>5

LEMMA KeptPlace ==
  ASSUME PlacesOK, NEW r \in Requests, UNCHANGED <<places, lease>>,
         \A x \in Requests \ {r} : req'[x] = req[x],
         reading' \subseteq Requests, \A x \in Requests \ {r} : x \in reading' <=> x \in reading,
         PlaceOK(r, req'[r].doing, lease[r], r \in reading')
  PROVE  PlacesOK'
  <1>1. lease[r] \in {"none", "held", "draining"} /\ lease' = [lease EXCEPT ![r] = lease[r]]
    BY DEF PlacesOK
  <1> QED BY <1>1, PlacesSet

LEMMA BeginsReadingOK ==
  ASSUME RequestsOK, HoldsOK, PlacesOK, NEW r \in Requests, Active(req[r]),
         NEW q, ReqOK(r, [q EXCEPT !.doing = "db"]), q \in ReqType, BeginsReading(r, q)
  PROVE  /\ RequestsOK' /\ HoldsOK' /\ PlacesOK'
         /\ req'[r].answer = "none" /\ \A x \in Requests \ {r} : req'[x] = req[x]
  <1> DEFINE p == [q EXCEPT !.doing = "db"]
  <1>0. p.doing = "db" /\ ReqOK(r, p)
    BY DEF ReqType
  <1> HIDE DEF p
  <1>1. p.doing = "db" /\ p.answer = "none"
    BY <1>0 DEF ReqOK
  <1>2. RequestsOK' /\ req'[r] = p /\ \A x \in Requests \ {r} : req'[x] = req[x]
    BY <1>0, RequestSet DEF BeginsReading, p
  <1>3. HoldsOK'
    BY ReleasesOK DEF BeginsReading
  <1>4. reading' = reading \cup {r} /\ UNCHANGED <<places, lease>> /\ reading \subseteq Requests
    BY DEF BeginsReading, PlacesOK
  <1>5. PlaceOK(r, req'[r].doing, lease[r], r \in reading')
    <2>1. PlaceOK(r, req[r].doing, lease[r], r \in reading)
      BY DEF PlacesOK
    <2> QED BY <1>1, <1>2, <1>4, <2>1 DEF PlaceOK, Active
  <1> QED BY <1>1, <1>2, <1>3, <1>4, <1>5, KeptPlace

LEMMA ReservesOK ==
  ASSUME RequestsOK, HoldsOK, PlacesOK, NEW r \in Requests, Active(req[r]), NEW w \in Nat,
         NEW q, ReqOK(r, [q EXCEPT !.doing = "rpc"]), q \in ReqType, Reserves(r, q, w)
  PROVE  /\ RequestsOK' /\ HoldsOK' /\ PlacesOK'
         /\ req'[r].answer = "none" /\ \A x \in Requests \ {r} : req'[x] = req[x]
  <1> DEFINE p == [q EXCEPT !.doing = "rpc"]
  <1>0. p.doing = "rpc" /\ ReqOK(r, p)
    BY DEF ReqType
  <1> HIDE DEF p
  <1>1. p.doing = "rpc" /\ p.answer = "none"
    BY <1>0 DEF ReqOK
  <1>2. RequestsOK' /\ req'[r] = p /\ \A x \in Requests \ {r} : req'[x] = req[x]
    BY <1>0, RequestSet DEF Reserves, p
  <1>3. HoldsOK'
    BY HoldsSet DEF Reserves
  <1>4. reading' = reading \ {r} /\ UNCHANGED <<places, lease>> /\ reading \subseteq Requests
    BY DEF Reserves, PlacesOK
  <1>5. PlaceOK(r, req'[r].doing, lease[r], r \in reading')
    <2>1. PlaceOK(r, req[r].doing, lease[r], r \in reading)
      BY DEF PlacesOK
    <2> QED BY <1>1, <1>2, <1>4, <2>1 DEF PlaceOK, Active
  <1> QED BY <1>1, <1>2, <1>3, <1>4, <1>5, KeptPlace

\* A step that is done leads to the next one, or from the last to the answer.
LEMMA GoesOnOK ==
  ASSUME RequestsOK, HoldsOK, PlacesOK, clock \in Int, NEW r \in Requests, Active(req[r]),
         NEW q \in ReqType, q.at = req[r].at, q.answer = "none",
         q.pin \in Block, q.data = {q.pin}, q.age < Ttl,
         NEW c, CacheOK(c), GoesOn(r, q, c)
  PROVE  /\ RequestsOK' /\ HoldsOK' /\ PlacesOK' /\ CacheOK(cache')
         /\ \A x \in Requests \ {r} : req'[x] = req[x]
         /\ req'[r].answer = "observed" => q.at = Len(Steps(r))
  <1> DEFINE n == Len(Steps(r))
             quoting == q.at < n /\ Steps(r)[q.at + 1] = "quote"
             hits == IF quoting THEN Found(c, clock, <<q.pin, Intent[r]>>) ELSE {}
             next == q.at + 1 + Cardinality(hits)
             looked == IF quoting THEN Timed(c, clock) ELSE c
             stamps == IF quoting /\ hits = {} THEN Begun(looked, clock) ELSE {}
             data == q.data \cup {e.block : e \in hits}
             age == IF hits = {} THEN q.age ELSE clock - (CHOOSE e \in hits : TRUE).stamp.at
             p == [q EXCEPT !.at = next, !.got = {}, !.stamps = stamps, !.data = data, !.age = age]
  <1>1. /\ cache' = looked
        /\ IF next > n
           THEN Answers(r, IF closed /\ IsQuote(r) THEN "unavailable" ELSE "observed")
           ELSE IF closed THEN Answers(r, "unavailable")
           ELSE IF Steps(r)[next] \in DatabaseSteps THEN BeginsReading(r, p)
           ELSE \E w \in Weights(r, Steps(r)[next]) :
                  \/ Reserves(r, p, w)
                  \/ rpc - held[r] + w > RpcCapacity /\ Answers(r, "unavailable")
    BY DEF GoesOn
  <1>2. CacheOK(looked)
    BY TimedOK
  <1>3. /\ n \in Nat /\ q.at \in 1 .. n
        /\ Steps(r)[n] \in DatabaseSteps
        /\ \A i \in 1 .. n : Steps(r)[i] \in DatabaseSteps \cup RpcSteps
    BY StepsShape DEF RequestsOK, ReqOK
  <1>4. /\ \A e \in hits : e.block = q.pin /\ clock - e.stamp.at \in Int /\ clock - e.stamp.at < Ttl
        /\ Cardinality(hits) = IF hits = {} THEN 0 ELSE 1
        /\ hits # {} => quoting
    <2>1. CASE quoting
      <3>1. <<q.pin, Intent[r]>>[1] = q.pin
        OBVIOUS
      <3> QED BY <2>1, <3>1, FoundOK
    <2>2. CASE ~quoting
      BY <2>2, FS_EmptySet
    <2> QED BY <2>1, <2>2
  <1>5. stamps \subseteq Stamp
    BY <1>2, BegunOK
  <1> HIDE DEF hits, looked, stamps
  <1>6. data = {q.pin}
    BY <1>4
  <1>7. age \in Int /\ age < Ttl
    <2>1. CASE hits = {}
      BY <2>1 DEF ReqType
    <2>2. CASE hits # {}
      <3>1. (CHOOSE e \in hits : TRUE) \in hits
        BY <2>2
      <3> QED BY <1>4, <2>2, <3>1
    <2> QED BY <2>1, <2>2
  <1>8. /\ next \in Nat /\ next > 1 /\ next > q.at
        /\ next > n => q.at = n
    <2>1. CASE hits = {}
      BY <1>3, <1>4, <2>1
    <2>2. CASE hits # {}
      <3>1. q.at + 1 \in 1 .. n /\ Steps(r)[q.at + 1] = "quote"
        BY <1>3, <1>4, <2>2
      <3>2. q.at + 1 # n
        BY <1>3, <3>1 DEF DatabaseSteps
      <3> QED BY <1>3, <1>4, <2>2, <3>1, <3>2
    <2> QED BY <2>1, <2>2
  <1> HIDE DEF next, data, age, quoting
  <1>9. /\ p \in ReqType /\ p.at = next /\ p.pin = q.pin /\ p.data = {q.pin} /\ p.age = age /\ p.answer = "none"
    BY <1>5, <1>6, <1>7, <1>8 DEF ReqType
  <1> HIDE DEF p
  <1>10. CASE next > n
    <2>1. (IF closed /\ IsQuote(r) THEN "unavailable" ELSE "observed") \in {"unavailable", "observed"}
      OBVIOUS
    <2> QED BY <1>1, <1>2, <1>8, <1>10, <2>1, AnswersOK
  <1>11. CASE next <= n /\ Answers(r, "unavailable")
    BY <1>1, <1>2, <1>11, AnswersOK
  <1>12. CASE next <= n /\ Steps(r)[next] \in DatabaseSteps /\ BeginsReading(r, p)
    <2> DEFINE s == [p EXCEPT !.doing = "db"]
    <2>1. s \in ReqType /\ s.doing = "db" /\ s.at = next /\ s.pin = q.pin /\ s.data = {q.pin} /\ s.age = age /\ s.answer = "none"
      BY <1>9 DEF ReqType
    <2> HIDE DEF s
    <2>2. ReqOK(r, s)
      BY <1>3, <1>7, <1>8, <1>12, <2>1 DEF ReqOK
    <2> QED BY <1>1, <1>2, <1>9, <1>12, <2>2, BeginsReadingOK DEF s
  <1>13. ASSUME next <= n, Steps(r)[next] \notin DatabaseSteps, NEW w \in Weights(r, Steps(r)[next]), Reserves(r, p, w)
         PROVE  /\ RequestsOK' /\ HoldsOK' /\ PlacesOK' /\ CacheOK(cache')
                /\ \A x \in Requests \ {r} : req'[x] = req[x]
                /\ req'[r].answer = "observed" => q.at = Len(Steps(r))
    <2> DEFINE s == [p EXCEPT !.doing = "rpc"]
    <2>1. s \in ReqType /\ s.doing = "rpc" /\ s.at = next /\ s.pin = q.pin /\ s.data = {q.pin} /\ s.age = age /\ s.answer = "none"
      BY <1>9 DEF ReqType
    <2> HIDE DEF s
    <2>2. ReqOK(r, s)
      BY <1>3, <1>7, <1>8, <1>13, <2>1 DEF ReqOK
    <2>3. Steps(r)[next] \in RpcSteps
      BY <1>3, <1>8, <1>13
    <2>4. w \in Nat
      BY <1>13, <2>3, WeightsNat
    <2> QED BY <1>1, <1>2, <1>9, <1>13, <2>2, <2>4, ReservesOK DEF s
  <1> QED
    <2>1. next \in Nat /\ n \in Nat
      BY <1>3, <1>8
    <2> HIDE DEF n
    <2> QED BY <1>1, <1>10, <1>11, <1>12, <1>13, <2>1 DEF n

-----------------------------------------------------------------------------
(* The actions of a request.                                               *)

\* A service's last read was accepted.
Final(r) == req[r].doing = "db" /\ req[r].at = Len(Steps(r)) /\ Accepts(r, req[r], ReadDatabase(r))

Kept(r) ==
  /\ RequestsOK' /\ HoldsOK' /\ PlacesOK' /\ CacheOK(cache)'
  /\ \A x \in Requests \ {r} : req'[x] = req[x]
  /\ req'[r].answer = "observed" /\ req[r].answer = "none" => Final(r)

LEMMA BlocksTyped ==
  ASSUME WorldOK
  PROVE  Tip \in Block /\ Tip[1] = index.tip /\ Indexed(Tip) /\ None \notin Block
  <1>1. index.tip \in Int /\ index.branch \in Branches /\ Tip = <<index.tip, IF index.tip = 1 THEN "a" ELSE index.branch>>
    BY DEF WorldOK, Tip, BlockOf
  <1>2. "a" \in Branches
    BY DEF Branches
  <1>3. Tip \in Block /\ Tip[1] = index.tip
    BY <1>1, <1>2 DEF Block
  <1>4. Indexed(Tip)
    BY <1>1, <1>3 DEF Indexed, Tip
  <1> QED BY <1>3, <1>4, ApiAssumption DEF Block

\* Readiness and metrics have reads of their own.
LEMMA OwnReads ==
  ASSUME NEW r \in Requests, NEW i \in 1 .. Len(Steps(r)), Steps(r)[i] \in DatabaseSteps
  PROVE  /\ Steps(r)[i] = "state" <=> Kind[r] = "ready"
         /\ Steps(r)[i] = "totals" <=> Kind[r] = "metrics"
  <1> USE DEF Steps, DatabaseSteps
  <1>1. Kind[r] \in Kinds
    BY ApiAssumption
  <1>2. CASE Kind[r] = "swap"
    BY <1>2 DEF SwapSteps
  <1>3. CASE Kind[r] = "payment"
    BY <1>3 DEF PaymentSteps
  <1>4. CASE Kind[r] = "direct"
    BY <1>4 DEF DirectSteps
  <1>5. CASE Kind[r] = "absent"
    BY <1>5 DEF AbsentSteps
  <1>6. CASE Kind[r] = "ready"
    BY <1>6 DEF ReadySteps
  <1>7. CASE Kind[r] = "metrics"
    BY <1>7 DEF MetricsSteps
  <1>8. CASE Kind[r] = "invoices"
    BY <1>8 DEF InvoiceSteps
  <1>9. CASE Kind[r] = "strategies"
    BY <1>9 DEF StrategySteps
  <1> QED BY <1>1, <1>2, <1>3, <1>4, <1>5, <1>6, <1>7, <1>8, <1>9 DEF Kinds

\* What an accepted read of the database says.
LEMMA AcceptedRead ==
  ASSUME WorldOK, RequestsOK, NEW r \in Requests, req[r].doing = "db",
         NEW s, s = ReadDatabase(r), Accepts(r, req[r], s)
  PROVE  /\ s.block \in Block /\ s.cursor \in Block
         /\ req[r].at # 1 => /\ s.block = req[r].pin /\ Indexed(req[r].pin)
                             /\ Kind[r] \in {"ready", "metrics"} => Tip = req[r].pin
         /\ index.status = "indexing"
  <1> DEFINE q == req[r]
  <1>1. /\ q.at \in 1 .. Len(Steps(r)) /\ Step(r) = Steps(r)[q.at] /\ Step(r) \in DatabaseSteps
        /\ q.at = 1 => q.pin = None
        /\ q.at # 1 => q.pin \in Block
    BY DEF RequestsOK, ReqOK, Active, Step
  <1>2. /\ Step(r) = "state" <=> Kind[r] = "ready"
        /\ Step(r) = "totals" <=> Kind[r] = "metrics"
    BY <1>1, OwnReads
  <1>3. Tip \in Block /\ Indexed(Tip) /\ None \notin Block
    BY BlocksTyped
  <1>4. s.ok
    BY DEF Accepts
  <1> HIDE DEF q
  <1>5. CASE Kind[r] \in {"ready", "metrics"}
    <2>1. s = Shows(index.status = "indexing", Tip)
      <3>1. CASE Kind[r] = "ready"
        BY <1>2, <3>1 DEF ReadDatabase, ReadIndexedState
      <3>2. CASE Kind[r] = "metrics"
        BY <1>2, <3>2 DEF ReadDatabase, ReadReceiptMetrics
      <3> QED BY <1>5, <3>1, <3>2
    <2>2. s.ok = (index.status = "indexing") /\ s.cursor = Tip /\ s.block = Tip
      BY <2>1 DEF Shows
    <2>3. q.at # 1 => s.cursor = q.pin
      <3>1. CASE Kind[r] = "ready"
        BY <1>1, <1>3, <3>1 DEF Accepts, ReadinessAccepts, q
      <3>2. CASE Kind[r] = "metrics"
        BY <1>1, <1>3, <3>2 DEF Accepts, MetricsAccepts, q
      <3> QED BY <1>5, <3>1, <3>2
    <2> QED BY <1>3, <1>4, <2>2, <2>3 DEF q
  <1>6. CASE Kind[r] \notin {"ready", "metrics"}
    <2> DEFINE ok == index.status = "indexing" /\ Indexed(IF q.pin = None THEN Tip ELSE q.pin)
    <2>1. s = Shows(ok, RowsAt(q.pin))
      <3>1. Step(r) \in {"candidates", "invoice", "strategies"}
        BY <1>1, <1>2, <1>6 DEF DatabaseSteps
      <3>2. CASE Step(r) = "invoice"
        BY <3>2 DEF ReadDatabase, ReadInvoices, q
      <3>3. CASE Step(r) \in {"candidates", "strategies"}
        BY <3>3 DEF ReadDatabase, ReadStrategies, q
      <3> QED BY <3>1, <3>2, <3>3
    <2>2. s.ok = ok /\ s.cursor = Tip /\ s.block = RowsAt(q.pin)
      BY <2>1 DEF Shows
    <2> QED BY <1>1, <1>3, <1>4, <1>6, <2>2 DEF RowsAt, q
  <1> QED BY <1>5, <1>6

LEMMA DatabaseReturnsOK ==
  ASSUME ApiInv, NEW r \in Requests, DatabaseReturns(r)
  PROVE  Kept(r)
  <1> DEFINE q == req[r]
  <1> USE DEF ApiInv
  <1>1. q.doing = "db" /\ Active(q) /\ ReqOK(r, q) /\ q \in ReqType /\ clock \in Int
    BY DEF DatabaseReturns, Active, RequestsOK, WorldOK
  <1>2. PICK s : s = ReadDatabase(r)
    OBVIOUS
  <1>3. CASE ~Accepts(r, q, s)
    <2>1. Answers(r, "unavailable") /\ cache' = cache
      BY <1>2, <1>3 DEF DatabaseReturns
    <2> QED BY <1>1, <2>1, AnswersOK DEF Kept
  <1>4. CASE Accepts(r, q, s)
    <2>1. s.block \in Block /\ s.cursor \in Block /\ (q.at # 1 => s.block = q.pin)
      BY <1>1, <1>2, <1>4, AcceptedRead
    <2> DEFINE pin == IF q.pin = None THEN s.block ELSE q.pin
               p == [q EXCEPT !.pin = pin, !.cursor = s.cursor, !.data = q.data \cup {s.block}]
    <2>2. GoesOn(r, p, cache)
      BY <1>2, <1>4 DEF DatabaseReturns
    <2>3. pin \in Block /\ q.data \cup {s.block} = {pin}
      <3>1. CASE q.at = 1
        BY <1>1, <2>1, <3>1 DEF ReqOK
      <3>2. CASE q.at # 1
        BY <1>1, <2>1, <3>2, BlocksTyped DEF ReqOK
      <3> QED BY <3>1, <3>2
    <2> HIDE DEF pin
    <2>4. /\ p \in ReqType /\ p.at = q.at /\ p.answer = q.answer /\ p.pin = pin /\ p.data = {pin} /\ p.age = q.age
      BY <1>1, <2>1, <2>3 DEF ReqType
    <2>5. q.answer = "none" /\ q.age < Ttl
      BY <1>1 DEF ReqOK
    <2> HIDE DEF p
    <2>6. /\ RequestsOK' /\ HoldsOK' /\ PlacesOK' /\ CacheOK(cache')
          /\ \A x \in Requests \ {r} : req'[x] = req[x]
          /\ req'[r].answer = "observed" => p.at = Len(Steps(r))
      BY <1>1, <2>2, <2>3, <2>4, <2>5, GoesOnOK
    <2> QED BY <1>1, <1>2, <1>4, <2>4, <2>6 DEF Kept, Final
  <1> QED BY <1>3, <1>4

\* An RPC step is neither the first nor the last, and goes on with its pin.
LEMMA RpcStep ==
  ASSUME ApiInv, NEW r \in Requests, req[r].doing = "rpc",
         NEW p, NEW c, CacheOK(c), GoesOn(r, p, c),
         NEW head \in Int, NEW got \in SUBSET Received, NEW data, data = {req[r].pin},
         p = [req[r] EXCEPT !.head = head, !.got = got, !.data = data]
  PROVE  Kept(r)
  <1> DEFINE q == req[r]
  <1> USE DEF ApiInv
  <1>1. Active(q) /\ ReqOK(r, q) /\ q \in ReqType /\ clock \in Int
    BY DEF Active, RequestsOK, WorldOK
  <1>2. q.at \in 1 .. Len(Steps(r)) /\ Steps(r)[q.at] \notin DatabaseSteps
    BY <1>1 DEF ReqOK
  <1>3. q.at # 1 /\ q.at # Len(Steps(r))
    BY <1>2, StepsShape
  <1>4. q.pin \in Block /\ q.answer = "none" /\ q.age < Ttl
    BY <1>1, <1>3 DEF ReqOK
  <1>5. p \in ReqType /\ p.at = q.at /\ p.answer = "none" /\ p.pin = q.pin /\ p.data = {q.pin} /\ p.age = q.age
    BY <1>1, <1>4 DEF ReqType
  <1>6. /\ RequestsOK' /\ HoldsOK' /\ PlacesOK' /\ CacheOK(cache')
        /\ \A x \in Requests \ {r} : req'[x] = req[x]
        /\ req'[r].answer = "observed" => p.at = Len(Steps(r))
    BY <1>1, <1>4, <1>5, GoesOnOK
  <1> QED BY <1>3, <1>5, <1>6 DEF Kept

LEMMA BatchReturnsOK ==
  ASSUME ApiInv, NEW r \in Requests, BatchReturns(r)
  PROVE  Kept(r)
  <1> DEFINE q == req[r]
  <1>1. q.doing = "rpc" /\ Active(q) /\ ReqOK(r, q) /\ q \in ReqType /\ CacheOK(cache)
    BY DEF BatchReturns, Active, ApiInv, RequestsOK
  <1>2. q.at # 1
    BY <1>1, StepsShape DEF ReqOK
  <1>3. q.pin \in Block /\ q.data = {q.pin} /\ q.data \cup {q.pin} = {q.pin}
    BY <1>1, <1>2 DEF ReqOK
  <1>4. q.head \in Int /\ q.got \in SUBSET Received /\ q.stamps \in SUBSET Stamp
    BY <1>1 DEF ReqType
  <1>5. CASE ReadQuoteIdentity(r)
    <2>1. node.head \in Int
      BY DEF ApiInv, WorldOK
    <2>2. PICK p : p = [q EXCEPT !.head = node.head]
      OBVIOUS
    <2>3. p = [q EXCEPT !.head = node.head, !.got = q.got, !.data = q.data]
      BY <1>1, <2>2 DEF ReqType
    <2>4. GoesOn(r, p, cache)
      BY <1>5, <2>2 DEF ReadQuoteIdentity
    <2> QED BY <1>1, <1>3, <1>4, <2>1, <2>3, <2>4, RpcStep
  <1>6. ASSUME NEW c, CacheOK(c), GoesOn(r, [q EXCEPT !.data = @ \cup {q.pin}], c)
        PROVE  Kept(r)
    <2>1. PICK p : p = [q EXCEPT !.data = @ \cup {q.pin}]
      OBVIOUS
    <2>2. p = [q EXCEPT !.head = q.head, !.got = q.got, !.data = q.data]
      BY <1>1, <1>3, <2>1 DEF ReqType
    <2>3. GoesOn(r, p, c)
      BY <1>6, <2>1
    <2> QED BY <1>1, <1>3, <1>4, <1>6, <2>2, <2>3, RpcStep
  <1>7. CASE ReadPaymentContext(r) \/ ReadInspections(r)
    BY <1>1, <1>6, <1>7 DEF ReadPaymentContext, ReadInspections
  <1>8. CASE ReadQuotes(r)
    <2>1. PICK key : key = <<q.pin, Intent[r]>>
      OBVIOUS
    <2>2. key[1] = q.pin
      BY <2>1
    <2>3. PICK c \in {cache, Put(cache, clock, key, q.stamps, key[1])} :
            GoesOn(r, [q EXCEPT !.data = @ \cup {q.pin}], c)
      BY <1>8, <2>1, <2>2 DEF ReadQuotes
    <2>4. clock \in Int
      BY DEF ApiInv, WorldOK
    <2>5. CacheOK(c)
      BY <1>1, <1>4, <2>3, <2>4, PutOK
    <2> QED BY <1>6, <2>3, <2>5
  <1> QED BY <1>5, <1>7, <1>8 DEF BatchReturns

\* A step that changes only what a running request has in hand.
LEMMA InHand ==
  ASSUME ApiInv, NEW r \in Requests, NEW p, ReqOK(r, p), p.doing = req[r].doing, p.answer = "none",
         req' = [req EXCEPT ![r] = p], UNCHANGED <<capacity, cache>>
  PROVE  Kept(r)
  <1>1. RequestsOK' /\ req'[r] = p /\ \A x \in Requests \ {r} : req'[x] = req[x]
    BY RequestSet DEF ApiInv
  <1>2. HoldsOK' /\ CacheOK(cache')
    BY DEF ApiInv, HoldsOK, capacity, Units
  <1>3. PlacesOK'
    <2>1. PlaceOK(r, req[r].doing, lease[r], r \in reading) /\ PlacesOK /\ reading \subseteq Requests
      BY DEF ApiInv, PlacesOK
    <2>2. PlaceOK(r, req'[r].doing, lease[r], r \in reading')
      BY <1>1, <2>1 DEF capacity
    <2> QED BY <1>1, <2>1, <2>2, KeptPlace DEF capacity
  <1> QED BY <1>1, <1>2, <1>3 DEF Kept

LEMMA PartReturnsOK ==
  ASSUME ApiInv, NEW r \in Requests, PartReturns(r)
  PROVE  Kept(r)
  <1> DEFINE q == req[r]
  <1>1. /\ q.doing = "rpc" /\ Active(q) /\ ReqOK(r, q) /\ q \in ReqType /\ q.answer = "none"
        /\ RequestsOK /\ HoldsOK /\ PlacesOK /\ CacheOK(cache)
    BY DEF PartReturns, Active, ApiInv, RequestsOK, ReqOK
  <1>2. q.at # 1
    BY <1>1, StepsShape DEF ReqOK
  <1>3. q.pin \in Block /\ q.data = {q.pin}
    BY <1>1, <1>2 DEF ReqOK
  <1>4. PICK part \in Parts(r) \ q.got :
          LET orphaned == part # "head" /\ ~OnNode(q.pin)
              p == [q EXCEPT !.got = @ \cup {part} \cup (IF orphaned THEN {"orphaned"} ELSE {}),
                             !.head = IF part = "head" THEN node.head ELSE @]
          IN IF ~(Parts(r) \subseteq p.got)
             THEN /\ req' = [req EXCEPT ![r] = p]
                  /\ UNCHANGED <<capacity, cache>>
             ELSE IF GroupAccepts(r, p)
             THEN GoesOn(r, p, cache)
             ELSE Answers(r, "unavailable") /\ UNCHANGED cache
    BY DEF PartReturns
  <1>5. PICK got : got = q.got \cup {part} \cup (IF part # "head" /\ ~OnNode(q.pin) THEN {"orphaned"} ELSE {})
    OBVIOUS
  <1>6. PICK head : head = IF part = "head" THEN node.head ELSE q.head
    OBVIOUS
  <1>7. PICK p : p = [q EXCEPT !.got = got, !.head = head]
    OBVIOUS
  <1>8. \/ req' = [req EXCEPT ![r] = p] /\ UNCHANGED <<capacity, cache>>
        \/ GoesOn(r, p, cache)
        \/ Answers(r, "unavailable") /\ UNCHANGED cache
    BY <1>4, <1>5, <1>6, <1>7
  <1>9. got \in SUBSET Received /\ head \in Int
    <2>1. part \in Received
      <3>1. part \in {"head", "block", "calls"}
        BY DEF Parts
      <3> QED BY <3>1 DEF Received
    <2>2. node.head \in Int /\ q.got \subseteq Received /\ q.head \in Int
      BY <1>1 DEF ApiInv, WorldOK, ReqType
    <2> QED BY <1>5, <1>6, <2>1, <2>2 DEF Received
  <1> HIDE DEF q
  <1>10. CASE req' = [req EXCEPT ![r] = p] /\ UNCHANGED <<capacity, cache>>
    <2>1. /\ p \in ReqType /\ p.at = q.at /\ p.doing = q.doing /\ p.pin = q.pin /\ p.data = q.data
          /\ p.age = q.age /\ p.answer = q.answer
      BY <1>1, <1>7, <1>9 DEF ReqType
    <2>2. ReqOK(r, p)
      BY <1>1, <2>1 DEF ReqOK, Active
    <2> QED BY <1>1, <1>10, <2>1, <2>2, InHand DEF q
  <1>11. CASE GoesOn(r, p, cache)
    <2>1. p = [q EXCEPT !.head = head, !.got = got, !.data = q.data]
      BY <1>1, <1>7 DEF ReqType
    <2> QED BY <1>1, <1>3, <1>9, <1>11, <2>1, RpcStep DEF q
  <1>12. CASE Answers(r, "unavailable") /\ UNCHANGED cache
    <2>1. Active(req[r])
      BY <1>1 DEF q
    <2> QED BY <1>1, <1>12, <2>1, AnswersOK DEF Kept
  <1> QED BY <1>8, <1>10, <1>11, <1>12

LEMMA FailsOK ==
  ASSUME ApiInv, NEW r \in Requests, Fails(r)
  PROVE  Kept(r)
  <1>1. Active(req[r]) /\ Answers(r, "unavailable") /\ cache' = cache
    BY DEF Fails, Active
  <1> QED BY <1>1, AnswersOK DEF Kept, ApiInv

\* A quote that gives up keeps its place while its database read goes on.
LEMMA QuoteGivesUpOK ==
  ASSUME ApiInv, NEW r \in Requests, QuoteGivesUp(r)
  PROVE  Kept(r)
  <1> USE DEF ApiInv
  <1>1. Active(req[r]) /\ IsQuote(r) /\ cache' = cache /\ reading' = reading
    BY DEF QuoteGivesUp, Active
  <1>2. RequestsOK' /\ req'[r].doing = "done" /\ req'[r].answer = "unavailable"
        /\ \A x \in Requests \ {r} : req'[x] = req[x]
    BY EndedOK DEF QuoteGivesUp
  <1>3. HoldsOK'
    BY ReleasesOK DEF QuoteGivesUp
  <1>4. LeaseEnds(r, r \in reading) /\ (r \in reading) \in BOOLEAN
    BY DEF QuoteGivesUp
  <1>6. PICK place \in {"none", "draining"} : place = IF IsQuote(r) /\ r \in reading THEN "draining" ELSE "none"
    OBVIOUS
  <1>7. /\ lease' = [lease EXCEPT ![r] = place]
        /\ places' = IF lease[r] = "none" THEN (IF place = "none" THEN places ELSE places + 1)
                     ELSE (IF place = "none" THEN places - 1 ELSE places)
        /\ lease[r] = "none" /\ place # "none" => places < Places
    BY <1>1, <1>4, <1>6, LeaseEndsEffect
  <1>8. PlaceOK(r, req'[r].doing, place, r \in reading')
    BY <1>1, <1>2, <1>6 DEF PlaceOK
  <1>9. PlacesOK'
    <2>1. reading' \subseteq Requests
      BY <1>1 DEF PlacesOK
    <2> QED BY <1>1, <1>2, <1>7, <1>8, <2>1, PlacesSet
  <1> QED BY <1>1, <1>2, <1>3, <1>9 DEF Kept

LEMMA ReaderGivesUpOK ==
  ASSUME ApiInv, NEW r \in Requests, ReaderGivesUp(r)
  PROVE  Kept(r)
  <1>1. RequestsOK' /\ req'[r].doing = "done" /\ req'[r].answer = "unavailable"
        /\ \A x \in Requests \ {r} : req'[x] = req[x]
    BY EndedOK DEF ReaderGivesUp, ApiInv
  <1>2. UNCHANGED <<rpc, held, reading, places, lease, cache>> /\ ~IsQuote(r)
    BY DEF ReaderGivesUp, capacity
  <1>3. HoldsOK' /\ CacheOK(cache')
    BY <1>2 DEF ApiInv, HoldsOK, Units
  <1>4. PlacesOK'
    <2>1. PlaceOK(r, req[r].doing, lease[r], r \in reading) /\ PlacesOK /\ reading' \subseteq Requests
      BY <1>2 DEF ApiInv, PlacesOK
    <2>2. PlaceOK(r, req'[r].doing, lease[r], r \in reading')
      BY <1>1, <1>2, <2>1 DEF PlaceOK
    <2> QED BY <1>1, <1>2, <2>1, <2>2, KeptPlace
  <1> QED BY <1>1, <1>3, <1>4 DEF Kept

LEMMA DatabaseSettlesOK ==
  ASSUME ApiInv, NEW r \in Requests, DatabaseSettles(r)
  PROVE  Kept(r)
  <1>1. /\ UNCHANGED <<req, rpc, held, cache>> /\ req[r].doing = "done"
        /\ reading' = reading \ {r} /\ reading \subseteq Requests /\ PlacesOK
    BY DEF DatabaseSettles, ApiInv, PlacesOK
  <1>2. RequestsOK' /\ HoldsOK' /\ CacheOK(cache')
    BY <1>1 DEF ApiInv, RequestsOK, HoldsOK, Units
  <1>3. PlaceOK(r, req[r].doing, lease[r], r \in reading) /\ lease \in [Requests -> {"none", "held", "draining"}]
    BY DEF ApiInv, PlacesOK
  <1>4. lease[r] \in {"none", "draining"}
    BY <1>1, <1>3 DEF PlaceOK
  <1>5. /\ lease' = [lease EXCEPT ![r] = "none"]
        /\ places' = IF lease[r] = "none" THEN places ELSE places - 1
    BY <1>3, <1>4 DEF DatabaseSettles
  <1>6. PlaceOK(r, req'[r].doing, "none", r \in reading')
    BY <1>1 DEF PlaceOK
  <1>7. PlacesOK'
    BY <1>1, <1>5, <1>6, PlacesSet
  <1> QED BY <1>1, <1>2, <1>7 DEF Kept

LEMMA RpcSettlesOK ==
  ASSUME ApiInv, NEW r \in Requests, RpcSettles(r)
  PROVE  Kept(r)
  <1>1. UNCHANGED <<req, reading, places, lease, cache>> /\ Releases(r)
    BY DEF RpcSettles
  <1>2. HoldsOK'
    BY <1>1, ReleasesOK DEF ApiInv
  <1>3. RequestsOK' /\ PlacesOK' /\ CacheOK(cache')
    BY <1>1 DEF ApiInv, RequestsOK, PlacesOK, Leased
  <1> QED BY <1>1, <1>2, <1>3 DEF Kept

\* A quote is let in only while a place is free.
LEMMA ArrivesOK ==
  ASSUME ApiInv, NEW r \in Requests, Arrives(r)
  PROVE  Kept(r)
  <1> DEFINE q == [Idle EXCEPT !.at = 1, !.doing = "db"]
  <1> USE DEF ApiInv
  <1>1. /\ UNCHANGED <<rpc, held, cache>> /\ req[r].doing = "idle"
        /\ PlaceOK(r, "idle", lease[r], r \in reading) /\ reading \subseteq Requests
        /\ lease \in [Requests -> {"none", "held", "draining"}]
    BY DEF Arrives, PlacesOK
  <1>2. HoldsOK' /\ CacheOK(cache')
    BY <1>1 DEF HoldsOK, Units
  <1>3. lease[r] = "none" /\ r \notin reading
    BY <1>1 DEF PlaceOK
  <1>4. /\ q \in ReqType /\ q.at = 1 /\ q.doing = "db" /\ q.pin = None /\ q.data = {} /\ q.age = 0 /\ q.answer = "none"
    <2>1. Idle \in ReqType /\ Idle.pin = None /\ Idle.data = {} /\ Idle.age = 0 /\ Idle.answer = "none"
      BY DEF ReqType, Idle
    <2> QED BY <2>1 DEF ReqType
  <1> HIDE DEF q
  <1>5. ReqOK(r, q)
    <2>1. 1 \in 1 .. Len(Steps(r)) /\ Steps(r)[1] \in DatabaseSteps
      BY StepsShape
    <2>2. 0 < Ttl
      BY CacheAssumption
    <2> QED BY <1>4, <2>1, <2>2 DEF ReqOK
  <1>6. CASE Ended(r, "refused") /\ UNCHANGED <<reading, places, lease>>
    <2>1. RequestsOK' /\ req'[r].doing = "done" /\ req'[r].answer = "refused"
          /\ \A x \in Requests \ {r} : req'[x] = req[x]
      BY <1>6, EndedOK
    <2>2. PlaceOK(r, req'[r].doing, lease[r], r \in reading')
      BY <1>3, <1>6, <2>1 DEF PlaceOK
    <2>3. PlacesOK'
      BY <1>1, <1>6, <2>1, <2>2, KeptPlace
    <2> QED BY <1>2, <2>1, <2>3 DEF Kept
  <1>7. CASE Ended(r, "unavailable") /\ UNCHANGED <<reading, places, lease>>
    <2>1. RequestsOK' /\ req'[r].doing = "done" /\ req'[r].answer = "unavailable"
          /\ \A x \in Requests \ {r} : req'[x] = req[x]
      BY <1>7, EndedOK
    <2>2. PlaceOK(r, req'[r].doing, lease[r], r \in reading')
      BY <1>3, <1>7, <2>1 DEF PlaceOK
    <2>3. PlacesOK'
      BY <1>1, <1>7, <2>1, <2>2, KeptPlace
    <2> QED BY <1>2, <2>1, <2>3 DEF Kept
  <1>8. CASE req' = [req EXCEPT ![r] = q] /\ reading' = reading \cup {r}
    <2>1. RequestsOK' /\ req'[r] = q /\ \A x \in Requests \ {r} : req'[x] = req[x]
      BY <1>5, <1>8, RequestSet
    <2>2. req'[r].doing = "db" /\ req'[r].answer = "none" /\ reading' \subseteq Requests /\ r \in reading'
          /\ \A x \in Requests \ {r} : x \in reading' <=> x \in reading
      BY <1>1, <1>4, <1>8, <2>1
    <2>3. CASE ~IsQuote(r) /\ UNCHANGED <<places, lease>>
      <3>1. PlaceOK(r, req'[r].doing, lease[r], r \in reading')
        BY <1>3, <2>2, <2>3 DEF PlaceOK
      <3>2. PlacesOK'
        BY <2>1, <2>2, <2>3, <3>1, KeptPlace
      <3> QED BY <1>2, <2>1, <2>2, <3>2 DEF Kept
    <2>4. CASE IsQuote(r) /\ places' = places + 1 /\ lease' = [lease EXCEPT ![r] = "held"] /\ ~(places >= Places)
      <3>1. PlaceOK(r, req'[r].doing, "held", r \in reading')
        BY <2>2, <2>4 DEF PlaceOK
      <3>2. places < Places
        <4>1. places \in Nat /\ Places \in Nat
          BY FS_CardinalityType, ApiAssumption DEF PlacesOK
        <4> QED BY <2>4, <4>1
      <3>3. PlacesOK'
        BY <1>3, <2>1, <2>2, <2>4, <3>1, <3>2, PlacesSet
      <3> QED BY <1>2, <2>1, <2>2, <3>3 DEF Kept
    <2> QED
      <3>1. IsQuote(r) => ObserveQuote(r)
        BY DEF Arrives, BeginRead
      <3>2. ~IsQuote(r) => BeginRead(r)
        BY DEF Arrives, ObserveQuote
      <3>3. req'[r].doing # "done"
        BY <2>2
      <3>4. ~Ended(r, "refused") /\ ~Ended(r, "unavailable")
        BY <3>3, EndedOK
      <3> QED BY <2>3, <2>4, <3>1, <3>2, <3>4 DEF ObserveQuote, BeginRead
  <1> QED BY <1>6, <1>7, <1>8 DEF Arrives, ObserveQuote, BeginRead, q

LEMMA RequestNextOK ==
  ASSUME ApiInv, NEW r \in Requests, RequestNext(r)
  PROVE  Kept(r) /\ ApiInv'
  <1>1. Kept(r)
    BY ArrivesOK, DatabaseReturnsOK, BatchReturnsOK, PartReturnsOK, FailsOK, QuoteGivesUpOK, ReaderGivesUpOK,
       DatabaseSettlesOK, RpcSettlesOK DEF RequestNext
  <1>2. UNCHANGED Environment
    BY DEF RequestNext, Arrives, DatabaseReturns, BatchReturns, PartReturns, Fails, QuoteGivesUp, ReaderGivesUp,
           DatabaseSettles, RpcSettles
  <1>3. WorldOK'
    BY <1>2 DEF ApiInv, WorldOK, Environment
  <1> QED BY <1>1, <1>3 DEF Kept, ApiInv

-----------------------------------------------------------------------------
(* What happens meanwhile leaves the requests as they are.                 *)

LEMMA WorldOnly ==
  ASSUME ApiInv, UNCHANGED <<req, capacity>>, WorldOK', CacheOK(cache')
  PROVE  ApiInv'
  <1>1. UNCHANGED <<req, rpc, held, reading, places, lease>>
    BY DEF capacity
  <1> QED BY <1>1 DEF ApiInv, RequestsOK, HoldsOK, Units, PlacesOK, Leased

LEMMA EnvironmentOK ==
  ASSUME ApiInv, EnvironmentNext
  PROVE  ApiInv' /\ req' = req
  <1> USE DEF ApiInv, WorldOK
  <1>1. UNCHANGED <<req, capacity>>
    BY DEF EnvironmentNext, Close, Mine, Reorganises, Follows, Unsettles, Settles, Ticks, GoesBack
  <1>2. CASE Close
    <2>1. cache' = [entries |-> {}, generation |-> cache.generation + 1, previous |-> cache.previous]
          /\ cache.generation \in Nat /\ cache.previous \in Int
      BY <1>2 DEF Close, Cleared, CacheOK
    <2>2. CacheOK(cache')
      BY <2>1 DEF CacheOK
    <2>3. WorldOK'
      BY <1>2 DEF Close
    <2> QED BY <1>1, <2>2, <2>3, WorldOnly
  <1>3. CASE ~Close
    <2>1. cache' = cache
      BY <1>3 DEF EnvironmentNext, Mine, Reorganises, Follows, Unsettles, Settles, Ticks, GoesBack
    <2>2. node' \in [head : Int, branch : Branches]
      <3>1. CASE Mine
        BY <3>1 DEF Mine
      <3>2. CASE Reorganises
        BY <3>2 DEF Reorganises, Branches
      <3>3. CASE node' = node
        BY <3>3
      <3> QED BY <1>3, <3>1, <3>2, <3>3 DEF EnvironmentNext, Follows, Unsettles, Settles, Ticks, GoesBack
    <2>3. index' \in [tip : Int, branch : Branches, status : {"indexing", "unready"}]
      <3>1. CASE Follows
        <4>1. /\ index \in [tip : Int, branch : Branches, status : {"indexing", "unready"}]
              /\ node.branch \in Branches /\ index.tip + 1 \in Int
          OBVIOUS
        <4> HIDE DEF ApiInv, WorldOK
        <4>2. ASSUME NEW tip \in Int, NEW branch \in Branches, index' = [index EXCEPT !.tip = tip, !.branch = branch]
              PROVE  index' \in [tip : Int, branch : Branches, status : {"indexing", "unready"}]
          BY <4>1, <4>2
        <4>3. CASE index' = [index EXCEPT !.tip = @ + 1, !.branch = node.branch]
          BY <4>1, <4>2, <4>3
        <4>4. CASE index' = [index EXCEPT !.tip = 1, !.branch = "a"]
          <5>1. 1 \in Int /\ "a" \in Branches
            BY DEF Branches
          <5> QED BY <4>2, <4>4, <5>1
        <4> QED BY <3>1, <4>3, <4>4 DEF Follows
      <3>2. CASE Unsettles \/ Settles
        <4>1. PICK status \in {"indexing", "unready"} : index' = [index EXCEPT !.status = status]
          BY <3>2 DEF Unsettles, Settles
        <4> QED BY <4>1
      <3>3. CASE index' = index
        BY <3>3
      <3> QED BY <1>3, <3>1, <3>2, <3>3 DEF EnvironmentNext, Mine, Reorganises, Ticks, GoesBack
    <2>4. clock' \in Int
      BY <1>3 DEF EnvironmentNext, Mine, Reorganises, Follows, Unsettles, Settles, Ticks, GoesBack
    <2> QED BY <1>1, <2>1, <2>2, <2>3, <2>4, WorldOnly
  <1> QED BY <1>1, <1>2, <1>3 

LEMMA ApiInit == Init => ApiInv
  <1> SUFFICES ASSUME Init PROVE ApiInv
    OBVIOUS
  <1>1. WorldOK
    BY DEF Init, WorldOK, Branches
  <1>2. RequestsOK
    <2>1. Idle \in ReqType /\ Idle.answer = "none" /\ Idle.age = 0 /\ ~Active(Idle)
      BY DEF ReqType, Idle, Active
    <2>2. 0 < Ttl
      BY CacheAssumption
    <2>3. \A r \in Requests : req[r] = Idle
      BY DEF Init
    <2>4. req \in [Requests -> ReqType]
      BY <2>1 DEF Init
    <2> HIDE DEF Init
    <2> QED BY <2>1, <2>2, <2>3, <2>4 DEF RequestsOK, ReqOK
  <1>3. CacheOK(cache)
    BY DEF Init, EmptyCache, CacheOK
  <1>4. HoldsOK
    <2>1. Units(held) = {}
      BY DEF Init, Units
    <2>2. RpcCapacity \in Nat
      BY ApiAssumption
    <2> QED BY <2>1, <2>2, FS_EmptySet DEF Init, HoldsOK
  <1>5. PlacesOK
    <2>1. Leased(lease) = {}
      BY DEF Init, Leased
    <2>2. Places \in Nat
      BY ApiAssumption
    <2>3. \A r \in Requests : req[r].doing = "idle" /\ lease[r] = "none" /\ r \notin reading
      BY DEF Init, Idle
    <2>4. \A r \in Requests : PlaceOK(r, req[r].doing, lease[r], r \in reading)
      BY <2>3 DEF PlaceOK
    <2> QED BY <2>1, <2>2, <2>4, FS_EmptySet DEF Init, PlacesOK
  <1> QED BY <1>1, <1>2, <1>3, <1>4, <1>5 DEF ApiInv

LEMMA Stutters ==
  ASSUME ApiInv, UNCHANGED vars
  PROVE  ApiInv'
  <1>1. UNCHANGED <<req, capacity>> /\ UNCHANGED <<node, index, clock>> /\ cache' = cache
    BY DEF vars, capacity
  <1> QED BY <1>1, WorldOnly DEF ApiInv, WorldOK

\* Api.tla: the invariant the properties of the API rest on.  Whatever the
\* order of reads, failures, deadlines, closing and settling, a request has in
\* hand data of one block alone, every unit of RPC weight and every place has
\* its holder, and the cache has entries of its own generation.
THEOREM ApiInductive == Spec => []ApiInv
  <1>1. ApiInv /\ [Next]_vars => ApiInv'
    <2>1. ASSUME ApiInv, Next PROVE ApiInv'
      BY <2>1, RequestNextOK, EnvironmentOK DEF Next
    <2> QED BY <2>1, Stutters
  <1> QED BY ApiInit, <1>1, PTL DEF Spec

-----------------------------------------------------------------------------
(* What follows from it.                                                   *)

\* runtime.ts, database.ts: the weight of RPC reads under way is what the
\* requests hold and never passes the capacity, and quotes never have more
\* database reads under way than there are places.
THEOREM CapacityIsHeld == Spec => []CapacityHeld
  <1>1. ApiInv => CapacityHeld
    <2> SUFFICES ASSUME ApiInv PROVE CapacityHeld
      OBVIOUS
    <2>1. RpcWeightAccounted
      BY DEF ApiInv, HoldsOK, Units, RpcWeightAccounted, Reserved
    <2>2. QuoteReadsBounded
      <3> DEFINE quotes == {r \in reading : IsQuote(r)}
      <3>1. quotes \subseteq Leased(lease)
        BY DEF ApiInv, PlacesOK, PlaceOK, Leased
      <3>2. IsFiniteSet(Leased(lease)) /\ Cardinality(Leased(lease)) <= Places
        BY DEF ApiInv, PlacesOK
      <3> HIDE DEF quotes
      <3>3. IsFiniteSet(quotes) /\ Cardinality(quotes) <= Cardinality(Leased(lease))
        BY <3>1, <3>2, FS_Subset
      <3>4. Cardinality(quotes) \in Nat /\ Cardinality(Leased(lease)) \in Nat /\ Places \in Nat
        BY <3>2, <3>3, FS_CardinalityType, ApiAssumption
      <3>5. Cardinality(quotes) <= Places
        BY <3>2, <3>3, <3>4
      <3> QED BY <3>5 DEF QuoteReadsBounded, quotes
    <2> QED BY <2>1, <2>2 DEF CapacityHeld
  <1> QED BY <1>1, ApiInductive, PTL

\* quote-cache.ts: a quote is never made of a batch that is too old, counted
\* from before it was read, nor of one read before the cache was cleared.
THEOREM CacheIsRecent == Spec => []CachedQuotesAreRecent
  <1>1. ApiInv => CachedQuotesAreRecent
    BY DEF ApiInv, RequestsOK, ReqOK, CacheOK, CachedQuotesAreRecent
  <1> QED BY <1>1, ApiInductive, PTL

\* queries.ts, service.ts: an answer is of one block, and at its last read the
\* indexer was ready and had that block on its chain.
THEOREM AnswersArePinned == Spec => AnswersOnePinnedBlock
  <1> DEFINE Pinned(r) ==
        req'[r].answer = "observed" /\ req[r].answer = "none" =>
          /\ req[r].data \cup {ReadDatabase(r).block} = {req[r].pin}
          /\ Indexed(req[r].pin)
          /\ index.status = "indexing"
          /\ Kind[r] \in {"ready", "metrics"} => Tip = req[r].pin
  <1>1. ASSUME ApiInv, NEW r \in Requests, Kept(r)
        PROVE  Pinned(r)
    <2> SUFFICES ASSUME req'[r].answer = "observed", req[r].answer = "none"
                 PROVE  /\ req[r].data \cup {ReadDatabase(r).block} = {req[r].pin}
                        /\ Indexed(req[r].pin)
                        /\ index.status = "indexing"
                        /\ Kind[r] \in {"ready", "metrics"} => Tip = req[r].pin
      OBVIOUS
    <2>1. req[r].doing = "db" /\ req[r].at = Len(Steps(r)) /\ Accepts(r, req[r], ReadDatabase(r))
      BY <1>1 DEF Kept, Final
    <2>2. req[r].at # 1
      BY <2>1, StepsShape
    <2>3. req[r].data = {req[r].pin}
      BY <1>1, <2>1, <2>2 DEF ApiInv, RequestsOK, ReqOK, Active
    <2>4. PICK s : s = ReadDatabase(r)
      OBVIOUS
    <2>5. /\ s.block = req[r].pin /\ Indexed(req[r].pin)
          /\ Kind[r] \in {"ready", "metrics"} => Tip = req[r].pin
          /\ index.status = "indexing"
      BY <1>1, <2>1, <2>2, <2>4, AcceptedRead DEF ApiInv
    <2> QED BY <2>3, <2>4, <2>5
  <1>2. ApiInv /\ [Next]_vars => [\A r \in Requests : Pinned(r)]_vars
    <2>1. ASSUME ApiInv, NEW x \in Requests, RequestNext(x), NEW r \in Requests
          PROVE  Pinned(r)
      <3>1. Kept(x)
        BY <2>1, RequestNextOK
      <3>2. CASE r = x
        BY <1>1, <2>1, <3>1, <3>2
      <3>3. CASE r # x
        <4>1. req'[r] = req[r]
          BY <3>1, <3>3 DEF Kept
        <4> QED BY <4>1
      <3> QED BY <3>2, <3>3
    <2>2. ASSUME ApiInv, EnvironmentNext, NEW r \in Requests
          PROVE  Pinned(r)
      <3>1. req' = req
        BY <2>2, EnvironmentOK
      <3> QED BY <3>1
    <2> HIDE DEF Pinned
    <2> QED BY <2>1, <2>2 DEF Next
  <1> QED BY <1>2, ApiInductive, PTL DEF Spec, AnswersOnePinnedBlock
=============================================================================
