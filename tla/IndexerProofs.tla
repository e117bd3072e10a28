--------------------------- MODULE IndexerProofs ----------------------------
(***************************************************************************)
(* What the indexer's rows keep for any tree of blocks, any deployments of *)
(* one chain, any number of workers and any history of reorganisations and *)
(* failures: they are one chain, the history that is read from them is the *)
(* whole one, and readers see what LogFollower says; and on chains that do *)
(* not return to a branch they have left, what a scan of headers concludes *)
(* is true of the chain whenever it is acted on.                           *)
(*                                                                         *)
(* Facts about all blocks below a block are proved without induction, by a *)
(* least counterexample: Least says that every set of naturals has one.    *)
(***************************************************************************)
EXTENDS Indexer, SequenceTheorems, FiniteSetTheorems, WellFoundedInduction, TLAPS

-----------------------------------------------------------------------------
(* The inductive invariant.                                                *)

\* A provider that may return to a branch it has left is asked for logs by hash.
AskedSafely == ~(ByRange /\ Return)

OrNone(S) == S \cup {None}

Pcs == {"rest", "stopped", "cursor", "head", "scan", "recheck", "reconcile", "backfill", "check",
        "again", "project", "plan", "headers", "logs", "hydrate", "tip", "commit"}

Locals ==
  [pc : Pcs, cursor : OrNone(Blocks), left : SUBSET Blocks, seen : SUBSET Blocks,
   dcursor : OrNone(Blocks), head : Nat, pending : OrNone(Blocks),
   sources : SUBSET (Blocks \X Emitters), headers : Seq(Blocks), logs : Seq(SUBSET Emitters)]

DbOK ==
  /\ stored \subseteq Blocks /\ cursor \in OrNone(Blocks)
  /\ events \subseteq Blocks \X Emitters
  /\ snapshots \in [Deployments -> SUBSET (Blocks \X Emitters)]
  /\ coverage \in [Deployments -> SUBSET Blocks] /\ legacy \in [Deployments -> SUBSET Blocks]
  /\ dcursor \in [Deployments -> OrNone(Blocks)]

\* A block that was canonical is canonical or gone.
TipOK ==
  /\ setting \in Settings /\ tip \in Tips /\ gone \subseteq Blocks
  /\ gone \cap Ancestors[tip] = {}

\* Each header is the parent of the next.
Joined(headers) == \A i \in 1 .. Len(headers) - 1 : Parent[headers[i + 1]] = headers[i]

\* The logs of a header are all of them, but for a block that was left already
\* when they were asked for.
Logged(w, l, i) ==
  \/ l.logs[i] = Scoped(setting.serves[w], l.headers[i])
  \/ /\ l.logs[i] = {} /\ ByRange
     /\ Return \/ (l.pc # "commit" /\ l.headers[i] \in gone)

\* What a worker has in hand.
LocalsOK(w, l) ==
  /\ l \in Locals
  /\ l.pc \in {"check", "again", "project"} => l.pending # None
  /\ l.pc \in {"plan", "headers", "logs", "hydrate", "tip", "commit"} => legacy[setting.serves[w]] = {}
  /\ \A i \in 1 .. Len(l.headers) : Return \/ l.headers[i] \in Ancestors[tip] \cup gone
  /\ l.pc \in {"logs", "hydrate", "tip", "commit"} => l.headers # <<>> /\ Joined(l.headers)
  /\ l.pc \in {"hydrate", "tip", "commit"} =>
       Len(l.logs) = Len(l.headers) /\ \A i \in 1 .. Len(l.headers) : Logged(w, l, i)

WorkOK == work \in [Workers -> Locals] /\ \A w \in Workers : LocalsOK(w, work[w])

\* StoredChain, with tops named instead of chosen.
CoveredChain ==
  \A d \in Deployments :
    /\ coverage[d] = From(d, dcursor[d])
    /\ dcursor[d] # None => dcursor[d] \in coverage[d]

OneChain ==
  \A b, c \in stored :
    /\ Height[b] = Height[c] => b = c
    /\ Height[b] + 1 = Height[c] => Parent[c] = b

CursorOnTop ==
  /\ cursor = None => stored = {}
  /\ cursor # None => cursor \in stored /\ \A b \in stored : Height[b] <= Height[cursor]

ChainInv ==
  /\ CoveredChain
  /\ stored = UNION {coverage[d] : d \in Deployments}
  /\ OneChain
  /\ CursorOnTop

LegacyInv ==
  \A d \in Deployments :
    /\ legacy[d] \subseteq coverage[d]
    /\ \A b \in legacy[d], c \in coverage[d] \ legacy[d] : Height[c] < Height[b]

EventsInv == \A p \in events : p[1] \in stored /\ p[2] \in LogsOf[p[1]]

\* The rows of a deployment's history.
Visible(d) ==
  {p \in events : /\ p[1] \in coverage[d] /\ p[2] \in Decoded[d][p[1]]
                  /\ p[1] \in legacy[d] => EventOf[p[1]][p[2]] # "OrbitalSwapExecuted"}

HistoryInv ==
  AskedSafely => CoveredComplete /\ \A d \in Deployments : snapshots[d] = Visible(d)

IndexInv ==
  /\ DbOK /\ TipOK /\ WorkOK
  /\ ChainInv /\ LegacyInv /\ EventsInv
  /\ HistoryInv

-----------------------------------------------------------------------------
(* Sets of naturals, and the tree of blocks.                               *)

LEMMA Least ==
  ASSUME NEW T \in SUBSET Nat, T # {}
  PROVE  \E n \in T : \A m \in T : n <= m
  <1> DEFINE R == OpToRel(<, Nat)
  <1>1. IsWellFoundedOn(R, Nat)
    BY NatLessThanWellFounded
  <1>2. \A n, m \in Nat : n < m => <<n, m>> \in R
    BY DEF OpToRel
  <1> HIDE DEF R
  <1>3. PICK n \in T : \A m \in T : <<m, n>> \notin R
    BY <1>1, WFMin
  <1>4. ASSUME NEW m \in T PROVE n <= m
    <2>1. ~(m < n)
      <3>1. m \in Nat /\ n \in Nat /\ <<m, n>> \notin R
        BY <1>3
      <3> QED BY <1>2, <3>1
    <2> QED BY <2>1
  <1> QED BY <1>4

LEMMA Greatest ==
  ASSUME NEW T \in SUBSET Nat, T # {}, NEW bound \in Nat, \A n \in T : n <= bound
  PROVE  \E n \in T : \A m \in T : m <= n
  <1> DEFINE U == {bound - n : n \in T}
  <1>1. U \in SUBSET Nat /\ U # {}
    <2>1. \A n \in T : bound - n \in Nat
      OBVIOUS
    <2>2. U \subseteq Nat
      BY <2>1
    <2>3. PICK n \in T : TRUE
      OBVIOUS
    <2>4. bound - n \in U
      OBVIOUS
    <2> QED BY <2>2, <2>4
  <1>2. PICK u \in U : \A v \in U : u <= v
    <2> HIDE DEF U
    <2> QED BY <1>1, Least
  <1>3. PICK n \in T : u = bound - n
    OBVIOUS
  <1>4. ASSUME NEW m \in T PROVE m <= n
    <2>1. bound - n <= bound - m
      BY <1>2, <1>3
    <2> QED BY <2>1
  <1> QED BY <1>4

LEMMA Blocks0 ==
  ASSUME NEW b \in Blocks
  PROVE  /\ b # None /\ Height[b] \in Nat /\ Parent[b] \in OrNone(Blocks)
         /\ Ancestors[b] \subseteq Blocks /\ b \in Ancestors[b]
         /\ Ancestors[b] = {b} \cup (IF Parent[b] = None THEN {} ELSE Ancestors[Parent[b]])
         /\ Parent[b] # None => Parent[b] \in Blocks /\ Height[b] = Height[Parent[b]] + 1
         /\ \A c, e \in Ancestors[b] : Height[c] = Height[e] => c = e
  BY ConstantsAssumption DEF OrNone

\* What is below a block: none is higher, and all that is below that.
Below(b) ==
  \A c \in Ancestors[b] :
    /\ Height[c] <= Height[b]
    /\ Ancestors[c] \subseteq Ancestors[b]
    /\ \A e \in Ancestors[b] : Height[c] <= Height[e] => c \in Ancestors[e]

LEMMA BelowFollows ==
  ASSUME NEW b \in Blocks, Parent[b] # None => Below(Parent[b])
  PROVE  Below(b)
  <1>1. CASE Parent[b] = None
    <2>1. Ancestors[b] = {b} /\ Height[b] <= Height[b]
      BY <1>1, Blocks0
    <2> QED BY <2>1 DEF Below
  <1>2. CASE Parent[b] # None
    <2> DEFINE p == Parent[b]
    <2>1. p \in Blocks /\ Height[b] = Height[p] + 1 /\ Ancestors[b] = {b} \cup Ancestors[p]
          /\ Height[p] \in Nat /\ Ancestors[p] \subseteq Blocks
      BY <1>2, Blocks0
    <2> HIDE DEF p
    <2>2. Below(p)
      BY <1>2 DEF p
    <2>3. \A c \in Ancestors[p] : Height[c] \in Nat /\ Height[c] < Height[b]
      BY <2>1, <2>2, Blocks0 DEF Below
    <2>4. Height[b] \in Nat /\ b \in Ancestors[b]
      BY Blocks0
    <2>5. ASSUME NEW c \in Ancestors[b]
          PROVE  /\ Height[c] <= Height[b]
                 /\ Ancestors[c] \subseteq Ancestors[b]
                 /\ \A e \in Ancestors[b] : Height[c] <= Height[e] => c \in Ancestors[e]
      <3>1. CASE c = b
        BY <2>1, <2>3, <2>4, <3>1
      <3>2. CASE c \in Ancestors[p]
        BY <2>1, <2>2, <2>3, <2>4, <3>2 DEF Below
      <3> QED BY <2>1, <3>1, <3>2
    <2> QED BY <2>5 DEF Below
  <1> QED BY <1>1, <1>2

LEMMA AllBelow == \A b \in Blocks : Below(b)
  <1> DEFINE bad == {b \in Blocks : ~Below(b)}
             T == {Height[b] : b \in bad}
  <1> SUFFICES ASSUME bad # {} PROVE FALSE
    OBVIOUS
  <1>1. T \in SUBSET Nat /\ T # {}
    BY Blocks0
  <1>2. PICK n \in T : \A m \in T : n <= m
    <2> HIDE DEF T
    <2> QED BY <1>1, Least
  <1>3. PICK b \in bad : n = Height[b]
    OBVIOUS
  <1>4. Parent[b] # None => Below(Parent[b])
    <2> SUFFICES ASSUME Parent[b] # None, ~Below(Parent[b]) PROVE FALSE
      OBVIOUS
    <2>1. Parent[b] \in Blocks /\ Height[b] = Height[Parent[b]] + 1 /\ Height[Parent[b]] \in Nat
      BY Blocks0
    <2>2. Height[Parent[b]] \in T
      BY <2>1
    <2>3. n <= Height[Parent[b]] /\ n = Height[Parent[b]] + 1
      <3> HIDE DEF T
      <3> QED BY <1>2, <1>3, <2>1, <2>2
    <2> QED BY <2>1, <2>3
  <1> QED BY <1>3, <1>4, BelowFollows

\* The tree: Ancestors is transitive, and the blocks below a block are a chain.
LEMMA Tree ==
  ASSUME NEW b \in Blocks, NEW c \in Ancestors[b]
  PROVE  /\ c \in Blocks /\ Height[c] <= Height[b] /\ Ancestors[c] \subseteq Ancestors[b]
         /\ \A e \in Ancestors[b] :
              /\ Height[c] <= Height[e] => c \in Ancestors[e]
              /\ Height[c] = Height[e] => c = e
              /\ Height[c] + 1 = Height[e] => Parent[e] = c
         /\ c # b => Height[c] < Height[b]
  <1>1. c \in Blocks /\ Height[c] \in Nat /\ Height[b] \in Nat /\ b \in Ancestors[b]
        /\ (\A e \in Ancestors[b] : e \in Blocks /\ (Height[c] = Height[e] => c = e))
    BY Blocks0
  <1>2. Height[c] <= Height[b] /\ Ancestors[c] \subseteq Ancestors[b]
        /\ (\A e \in Ancestors[b] : Height[c] <= Height[e] => c \in Ancestors[e])
    BY AllBelow DEF Below
  <1>3. c # b => Height[c] < Height[b]
    BY <1>1, <1>2
  <1>4. ASSUME NEW e \in Ancestors[b], Height[c] + 1 = Height[e] PROVE Parent[e] = c
    <2>1. e \in Blocks /\ Height[e] \in Nat /\ c \in Ancestors[e] /\ c # e
      BY <1>1, <1>2, <1>4, Blocks0
    <2>2. Parent[e] # None /\ c \in Ancestors[Parent[e]]
      BY <2>1, Blocks0
    <2>3. Parent[e] \in Blocks /\ Height[e] = Height[Parent[e]] + 1 /\ Height[Parent[e]] \in Nat
          /\ Parent[e] \in Ancestors[Parent[e]]
      BY <2>1, <2>2, Blocks0
    <2>4. Height[c] = Height[Parent[e]]
      BY <1>1, <1>4, <2>3
    <2> QED BY <2>2, <2>3, <2>4, Blocks0
  <1> QED BY <1>1, <1>2, <1>3, <1>4

\* A run of headers, each the child of the one before.
Base(b) == IF Parent[b] = None THEN {} ELSE Ancestors[Parent[b]]

LEMMA RunBelow ==
  ASSUME NEW s \in Seq(Blocks), Joined(s), NEW n \in 1 .. Len(s)
  PROVE  /\ Ancestors[s[n]] = {s[i] : i \in 1 .. n} \cup Base(s[1])
         /\ Height[s[n]] = Height[s[1]] + n - 1
         /\ s[n] \in Blocks
  <1> DEFINE P(k) == /\ Ancestors[s[k]] = {s[i] : i \in 1 .. k} \cup Base(s[1])
                     /\ Height[s[k]] = Height[s[1]] + k - 1
             T == {k \in 1 .. Len(s) : ~P(k)}
  <1>1. Len(s) \in Nat /\ \A k \in 1 .. Len(s) : s[k] \in Blocks
    OBVIOUS
  <1>2. SUFFICES ASSUME T # {} PROVE FALSE
    BY <1>1
  <1>3. PICK k \in T : \A m \in T : k <= m
    <2>1. T \in SUBSET Nat
      OBVIOUS
    <2> HIDE DEF T
    <2> QED BY <1>2, <2>1, Least
  <1>4. k # 1
    <2> SUFFICES P(1)
      OBVIOUS
    <2>1. {s[i] : i \in 1 .. 1} = {s[1]}
      OBVIOUS
    <2>2. Height[s[1]] \in Nat /\ Ancestors[s[1]] = {s[1]} \cup Base(s[1])
      BY <1>1, Blocks0 DEF Base
    <2> QED BY <2>1, <2>2
  <1>5. k - 1 \in 1 .. Len(s) /\ P(k - 1)
    <2>1. k \in Nat /\ k \in 1 .. Len(s) /\ k - 1 \in 1 .. Len(s)
      BY <1>4
    <2>2. k - 1 \notin T
      <3>1. ~(k <= k - 1)
        BY <2>1
      <3> HIDE DEF T
      <3> QED BY <1>3, <3>1
    <2> QED BY <2>1, <2>2
  <1>6. Parent[s[k]] = s[k - 1]
    <2>1. k - 1 \in 1 .. Len(s) - 1 /\ (k - 1) + 1 = k
      BY <1>5
    <2> QED BY <2>1 DEF Joined
  <1>7. /\ s[k] \in Blocks /\ s[k - 1] \in Blocks /\ s[k - 1] # None
        /\ Ancestors[s[k]] = {s[k]} \cup Ancestors[s[k - 1]]
        /\ Height[s[k]] = Height[s[k - 1]] + 1 /\ Height[s[1]] \in Nat
    <2>1. s[k] \in Blocks /\ s[k - 1] \in Blocks /\ s[1] \in Blocks
      BY <1>1, <1>5
    <2>2. s[k - 1] # None
      BY <2>1, Blocks0
    <2> QED BY <1>6, <2>1, <2>2, Blocks0
  <1>8. {s[i] : i \in 1 .. k} = {s[k]} \cup {s[i] : i \in 1 .. k - 1}
    <2>1. 1 .. k = {k} \cup 1 .. k - 1
      BY <1>5
    <2> QED BY <2>1
  <1>9. P(k)
    BY <1>5, <1>7, <1>8
  <1> QED BY <1>9

\* Tops of sets of blocks.
LEMMA TopExists ==
  ASSUME NEW S \in SUBSET Blocks, S # {}, NEW bound \in Nat, \A b \in S : Height[b] <= bound
  PROVE  Highest(S) \in S /\ \A c \in S : Height[c] <= Height[Highest(S)]
  <1> DEFINE T == {Height[b] : b \in S}
  <1>1. T \in SUBSET Nat /\ T # {} /\ \A n \in T : n <= bound
    BY Blocks0
  <1>2. PICK n \in T : \A m \in T : m <= n
    <2> HIDE DEF T
    <2> QED BY <1>1, Greatest
  <1>3. \E b \in S : \A c \in S : Height[c] <= Height[b]
    BY <1>2
  <1> QED BY <1>3 DEF Highest

LEMMA TopIs ==
  ASSUME NEW S \in SUBSET Blocks, NEW b \in S, \A c \in S : Height[c] <= Height[b],
         \A c \in S : Height[c] = Height[b] => c = b
  PROVE  Highest(S) = b
  <1>1. Highest(S) \in S /\ \A c \in S : Height[c] <= Height[Highest(S)]
    BY DEF Highest
  <1>2. Height[Highest(S)] = Height[b]
    BY <1>1, Blocks0
  <1> QED BY <1>1, <1>2

LEMMA BottomExists ==
  ASSUME NEW S \in SUBSET Blocks, S # {}
  PROVE  Lowest(S) \in S /\ \A c \in S : Height[c] >= Height[Lowest(S)]
  <1> DEFINE T == {Height[b] : b \in S}
  <1>1. T \in SUBSET Nat /\ T # {}
    BY Blocks0
  <1>2. PICK n \in T : \A m \in T : n <= m
    <2> HIDE DEF T
    <2> QED BY <1>1, Least
  <1>3. \E b \in S : \A c \in S : Height[c] >= Height[b]
    <2>1. PICK b \in S : n = Height[b]
      BY <1>2
    <2>2. \A c \in S : Height[c] >= Height[b]
      BY <1>2, <2>1, Blocks0
    <2> QED BY <2>2
  <1> QED BY <1>3 DEF Lowest

-----------------------------------------------------------------------------
(* What a worker has in hand.                                              *)

LEMMA TipFacts ==
  ASSUME TipOK
  PROVE  tip \in Blocks /\ setting.serves \in [Workers -> Deployments]
         /\ \A b \in Ancestors[tip] : b \in Blocks /\ b # None
  BY ConstantsAssumption DEF TipOK

\* What a worker holds stays good while others store, roll back and fill in,
\* and while the chain moves.
LEMMA LocalsStable ==
  ASSUME NEW w \in Workers, NEW l, LocalsOK(w, l),
         setting' = setting,
         Return \/ Ancestors[tip] \cup gone \subseteq Ancestors[tip'] \cup gone',
         Return \/ gone \subseteq gone',
         legacy'[setting.serves[w]] \subseteq legacy[setting.serves[w]]
  PROVE  LocalsOK(w, l)'
  <1>1. ASSUME NEW i \in 1 .. Len(l.headers), Logged(w, l, i)
        PROVE  Logged(w, l, i)'
    BY <1>1 DEF Logged
  <1>2. \A i \in 1 .. Len(l.headers) : Return \/ l.headers[i] \in Ancestors[tip'] \cup gone'
    BY DEF LocalsOK
  <1>3. l.pc \in {"plan", "headers", "logs", "hydrate", "tip", "commit"} => legacy'[setting'.serves[w]] = {}
    BY DEF LocalsOK
  <1> QED BY <1>1, <1>2, <1>3 DEF LocalsOK

LEMMA WorkMoves ==
  ASSUME WorkOK, NEW w \in Workers, NEW l, LocalsOK(w, l), work' = [work EXCEPT ![w] = l],
         UNCHANGED chain, TipOK, \A d \in Deployments : legacy'[d] \subseteq legacy[d]
  PROVE  WorkOK'
  <1>1. setting' = setting /\ tip' = tip /\ gone' = gone
    BY DEF chain
  <1>2. \A v \in Workers : setting.serves[v] \in Deployments
    BY TipFacts
  <1>3. LocalsOK(w, l)'
    BY <1>1, <1>2, LocalsStable
  <1>4. ASSUME NEW v \in Workers, v # w PROVE LocalsOK(v, work[v])'
    <2> DEFINE o == work[v]
    <2>1. LocalsOK(v, o) /\ work'[v] = o
      BY <1>4 DEF WorkOK
    <2> HIDE DEF o
    <2>2. \A x : LocalsOK(v, x) => LocalsOK(v, x)'
      BY <1>1, <1>2, LocalsStable
    <2> QED BY <1>4, <2>1, <2>2
  <1>5. l \in Locals /\ work \in [Workers -> Locals]
    BY DEF WorkOK, LocalsOK
  <1> QED BY <1>3, <1>4, <1>5 DEF WorkOK

\* A step that changes what one worker holds and no rows but the chain's status.
LEMMA RowsKept ==
  ASSUME IndexInv, NEW w \in Workers, NEW l, LocalsOK(w, l), work' = [work EXCEPT ![w] = l],
         UNCHANGED <<chain, stored, cursor, events, snapshots, coverage, legacy, dcursor>>
  PROVE  IndexInv'
  <1>1. WorkOK'
    <2>1. \A d \in Deployments : legacy'[d] \subseteq legacy[d]
      OBVIOUS
    <2>2. WorkOK /\ TipOK
      BY DEF IndexInv
    <2> QED BY <2>1, <2>2, WorkMoves
  <1>2. setting' = setting /\ tip' = tip /\ gone' = gone
        /\ stored' = stored /\ cursor' = cursor /\ events' = events /\ snapshots' = snapshots
        /\ coverage' = coverage /\ legacy' = legacy /\ dcursor' = dcursor
    BY DEF chain
  <1>3. (DbOK /\ TipOK)'
    BY <1>2 DEF IndexInv, DbOK, TipOK
  <1>4. ChainInv'
    BY <1>2 DEF IndexInv, ChainInv, CoveredChain, OneChain, CursorOnTop
  <1>5. (LegacyInv /\ EventsInv)'
    BY <1>2 DEF IndexInv, LegacyInv, EventsInv
  <1>6. HistoryInv'
    <2>1. \A d \in Deployments : Visible(d)' = Visible(d)
      BY <1>2 DEF Visible
    <2>2. CoveredComplete' = CoveredComplete
      BY <1>2 DEF CoveredComplete
    <2> QED BY <1>2, <2>1, <2>2 DEF IndexInv, HistoryInv
  <1> QED BY <1>1, <1>3, <1>4, <1>5, <1>6 DEF IndexInv

LEMMA LocalKept ==
  ASSUME IndexInv, NEW w \in Workers, NEW l, LocalsOK(w, l), work' = [work EXCEPT ![w] = l],
         UNCHANGED <<chain, db>>
  PROVE  IndexInv'
  BY RowsKept DEF db

LEMMA RestOK ==
  ASSUME NEW w \in Workers
  PROVE  LocalsOK(w, Rest) /\ LocalsOK(w, [Rest EXCEPT !.pc = "stopped"])
  <1>1. <<>> \in Seq(Blocks) /\ <<>> \in Seq(SUBSET Emitters) /\ Len(<<>>) = 0
    OBVIOUS
  <1>2. \A i \in 1 .. 0 : FALSE
    OBVIOUS
  <1> QED BY <1>1, <1>2 DEF LocalsOK, Locals, Rest, Pcs, OrNone

\* What every worker has, as facts about its record.
LEMMA Held ==
  ASSUME IndexInv, NEW w \in Workers
  PROVE  /\ work \in [Workers -> Locals] /\ LocalsOK(w, work[w]) /\ work[w] \in Locals
         /\ setting.serves[w] \in Deployments
         /\ DbOK /\ TipOK /\ tip \in Blocks
  BY TipFacts DEF IndexInv, WorkOK

\* Attempts that end.
LEMMA Ended ==
  ASSUME IndexInv, NEW w \in Workers, EndAttempt(w) \/ Stop(w), UNCHANGED <<chain, db>>
  PROVE  IndexInv'
  <1>1. CASE EndAttempt(w)
    <2>1. work' = [work EXCEPT ![w] = Rest]
      BY <1>1 DEF EndAttempt, Set
    <2> QED BY <2>1, RestOK, LocalKept
  <1>2. CASE Stop(w)
    <2> DEFINE n == [Rest EXCEPT !.pc = "stopped"]
    <2>1. work' = [work EXCEPT ![w] = n] /\ LocalsOK(w, n)
      BY <1>2, RestOK DEF Stop, Set
    <2> HIDE DEF n
    <2> QED BY <2>1, LocalKept
  <1> QED BY <1>1, <1>2

\* Steps that only move on.
LEMMA Moved ==
  ASSUME IndexInv, NEW w \in Workers, NEW pc \in Pcs, Goto(w, pc), UNCHANGED <<chain, db>>,
         pc \in {"check", "again", "project"} => work[w].pc \in {"check", "again"},
         pc = "plan" => legacy[setting.serves[w]] = {},
         pc = "headers" => work[w].pc = "plan",
         pc # "logs",
         pc = "hydrate" => FALSE,
         pc \in {"tip", "commit"} => work[w].pc \in {"hydrate", "tip"},
         pc = "commit" => \A i \in 1 .. Len(work[w].headers) : Return \/ work[w].headers[i] \notin gone
  PROVE  IndexInv'
  <1> DEFINE o == work[w]
             n == [o EXCEPT !.pc = pc]
  <1>1. o \in Locals /\ LocalsOK(w, o) /\ work' = [work EXCEPT ![w] = n]
    BY Held DEF Goto, Set
  <1>2. /\ pc \in {"check", "again", "project"} => o.pc \in {"check", "again"}
        /\ pc = "headers" => o.pc = "plan"
        /\ pc \in {"tip", "commit"} => o.pc \in {"hydrate", "tip"}
        /\ pc = "commit" => \A i \in 1 .. Len(o.headers) : Return \/ o.headers[i] \notin gone
    OBVIOUS
  <1> HIDE DEF o
  <1>3. n \in Locals /\ n.pc = pc /\ n.headers = o.headers /\ n.logs = o.logs /\ n.pending = o.pending
    BY <1>1 DEF Locals
  <1> HIDE DEF n
  <1>4. ASSUME NEW i \in 1 .. Len(o.headers), pc \in {"tip", "commit"} PROVE Logged(w, n, i)
    <2>1. Logged(w, o, i)
      BY <1>1, <1>2, <1>4 DEF LocalsOK
    <2> QED BY <1>2, <1>3, <1>4, <2>1 DEF Logged
  <1>5. LocalsOK(w, n)
    BY <1>1, <1>2, <1>3, <1>4 DEF LocalsOK
  <1> QED BY <1>1, <1>5, LocalKept

-----------------------------------------------------------------------------
(* The reads of an attempt.                                                *)

LEMMA SnapshotKept ==
  ASSUME IndexInv, NEW w \in Workers, Snapshot(w)
  PROVE  IndexInv'
  <1>1. CASE status = "resync_required"
    BY <1>1, Ended DEF Snapshot
  <1>2. CASE status # "resync_required"
    <2> DEFINE n == [Rest EXCEPT !.pc = "cursor", !.cursor = cursor, !.left = Window(stored)]
    <2>1. work' = [work EXCEPT ![w] = n] /\ UNCHANGED <<chain, db>>
      BY <1>2 DEF Snapshot, Set
    <2>2. cursor \in OrNone(Blocks) /\ Window(stored) \subseteq Blocks
      BY DEF IndexInv, DbOK, Window
    <2>3. n \in Locals /\ n.pc = "cursor" /\ n.headers = <<>>
      BY <2>2, RestOK DEF LocalsOK, Locals, Pcs, Rest
    <2> HIDE DEF n
    <2>4. \A i \in 1 .. Len(<<>>) : FALSE
      OBVIOUS
    <2>5. LocalsOK(w, n)
      BY <2>3, <2>4 DEF LocalsOK
    <2> QED BY <2>1, <2>5, LocalKept
  <1> QED BY <1>1, <1>2

\* A worker's record when only what it read of the rows and the window changes.
LEMMA Window0 ==
  ASSUME IndexInv, NEW w \in Workers, NEW n \in Locals,
         n.headers = work[w].headers, n.pc \in {"head", "scan", "recheck", "backfill"},
         work' = [work EXCEPT ![w] = n], UNCHANGED <<chain, db>>
  PROVE  IndexInv'
  <1>1. LocalsOK(w, n)
    BY Held DEF LocalsOK
  <1> QED BY <1>1, LocalKept

LEMMA ReadCursorKept ==
  ASSUME IndexInv, NEW w \in Workers, ReadCursor(w)
  PROVE  IndexInv'
  <1> DEFINE o == work[w]
             d == dcursor[setting.serves[w]]
             n == [o EXCEPT !.pc = "head", !.dcursor = d]
  <1>1. work' = [work EXCEPT ![w] = n] /\ UNCHANGED <<chain, db>> /\ o \in Locals /\ d \in OrNone(Blocks)
    BY Held DEF ReadCursor, Set, DbOK
  <1> HIDE DEF d
  <1>2. o.headers = work[w].headers
    OBVIOUS
  <1> HIDE DEF o
  <1>3. n \in Locals /\ n.pc = "head" /\ n.headers = work[w].headers
    BY <1>1, <1>2 DEF Locals, Pcs
  <1> HIDE DEF n
  <1> QED BY <1>1, <1>3, Window0

LEMMA ReadHeadKept ==
  ASSUME IndexInv, NEW w \in Workers, ReadHead(w)
  PROVE  IndexInv'
  <1> DEFINE o == work[w]
             head == Height[tip]
             pc == IF o.cursor = None THEN "backfill" ELSE "scan"
             n == [o EXCEPT !.pc = pc, !.head = head]
  <1>1. CASE pc = "scan" /\ (head < Height[o.cursor] \/ o.left = {})
    BY <1>1, Ended DEF ReadHead
  <1>2. CASE ~(pc = "scan" /\ (head < Height[o.cursor] \/ o.left = {}))
    <2>1. work' = [work EXCEPT ![w] = n] /\ UNCHANGED <<chain, db>> /\ o \in Locals
          /\ pc \in {"backfill", "scan"} /\ head \in Nat
      BY <1>2, Held, Blocks0 DEF ReadHead, Set
    <2>2. o.headers = work[w].headers
      OBVIOUS
    <2> HIDE DEF pc, head, o
    <2>3. n \in Locals /\ n.pc = pc /\ n.headers = work[w].headers
      BY <2>1, <2>2 DEF Locals, Pcs
    <2> HIDE DEF n
    <2> QED BY <2>1, <2>3, Window0
  <1> QED BY <1>1, <1>2

LEMMA ScanKept ==
  ASSUME IndexInv, NEW w \in Workers, Scan(w)
  PROVE  IndexInv'
  <1> DEFINE o == work[w]
             b == Highest(o.left)
             read == CanonicalAt(Height[b])
             left == IF b \in read THEN {} ELSE o.left \ {b}
             pc == IF left = {} THEN "recheck" ELSE "scan"
             n == [o EXCEPT !.seen = @ \cup read, !.left = left, !.pc = pc]
  <1>1. CASE read = {}
    BY <1>1, Ended DEF Scan
  <1>2. CASE read # {}
    <2>1. work' = [work EXCEPT ![w] = n] /\ UNCHANGED <<chain, db>> /\ o \in Locals
      BY <1>2, Held DEF Scan, Set
    <2>2. read \subseteq Blocks
      BY Held, TipFacts DEF CanonicalAt
    <2>3. pc \in {"recheck", "scan"} /\ o.headers = work[w].headers
      OBVIOUS
    <2> HIDE DEF pc, read
    <2>4. left \subseteq Blocks /\ o.seen \subseteq Blocks
      BY <2>1 DEF Locals
    <2> HIDE DEF left, o
    <2>5. n \in Locals /\ n.pc = pc /\ n.headers = work[w].headers
      BY <2>1, <2>2, <2>3, <2>4 DEF Locals, Pcs
    <2> HIDE DEF n
    <2> QED BY <2>1, <2>3, <2>5, Window0
  <1> QED BY <1>1, <1>2

LEMMA RecheckTopKept ==
  ASSUME IndexInv, NEW w \in Workers, RecheckTop(w)
  PROVE  IndexInv'
  <1>1. "reconcile" \in Pcs
    BY DEF Pcs
  <1>2. UNCHANGED <<chain, db>> /\ (Goto(w, "reconcile") \/ EndAttempt(w))
    BY DEF RecheckTop
  <1>3. CASE Goto(w, "reconcile")
    BY <1>1, <1>2, <1>3, Moved
  <1> QED BY <1>2, <1>3, Ended

LEMMA ReadPendingKept ==
  ASSUME IndexInv, NEW w \in Workers, ReadPending(w)
  PROVE  IndexInv'
  <1> DEFINE d == setting.serves[w]
             b == NextLegacy(d)
             o == work[w]
             sources == RouterLogs(d, b)
             n == [o EXCEPT !.pc = "check", !.pending = b, !.sources = sources]
  <1>1. d \in Deployments /\ legacy[d] \subseteq Blocks /\ UNCHANGED <<chain, db>> /\ At(w, "backfill")
    BY Held DEF DbOK, ReadPending
  <1>2. legacy[d] # {} => b \in Blocks /\ b # None
    BY <1>1, BottomExists, Blocks0 DEF NextLegacy
  <1>3. CASE b = None
    <2>1. legacy[d] = {} /\ Goto(w, "plan") /\ "plan" \in Pcs
      BY <1>2, <1>3 DEF ReadPending, Pcs
    <2> QED BY <1>1, <2>1, Moved
  <1>4. CASE b # None
    <2>1. work' = [work EXCEPT ![w] = n] /\ o \in Locals /\ LocalsOK(w, o) /\ o.pc = "backfill"
      BY <1>1, <1>4, Held DEF ReadPending, Set, At
    <2>2. b \in Blocks
      BY <1>2, <1>4 DEF NextLegacy, Lowest
    <2>3. sources \subseteq Blocks \X Emitters
      BY DEF RouterLogs, IndexInv, DbOK
    <2> HIDE DEF o, b, sources
    <2>4. n \in Locals /\ n.pc = "check" /\ n.pending = b /\ n.headers = o.headers
      BY <2>1, <2>2, <2>3 DEF Locals, Pcs, OrNone
    <2> HIDE DEF n, d
    <2>5. LocalsOK(w, n)
      BY <1>4, <2>1, <2>4 DEF LocalsOK
    <2> QED BY <1>1, <2>1, <2>5, LocalKept
  <1> QED BY <1>3, <1>4

LEMMA CheckPendingKept ==
  ASSUME IndexInv, NEW w \in Workers, CheckPending(w)
  PROVE  IndexInv'
  <1> DEFINE pc == IF At(w, "check") THEN "again" ELSE "project"
  <1>1. UNCHANGED <<chain, db>> /\ work[w].pc \in {"check", "again"} /\ (Goto(w, pc) \/ EndAttempt(w))
    BY DEF CheckPending
  <1>2. pc \in {"again", "project"} /\ {"again", "project"} \subseteq Pcs
    BY DEF Pcs
  <1> HIDE DEF pc
  <1>3. CASE Goto(w, pc)
    BY <1>1, <1>2, <1>3, Moved
  <1> QED BY <1>1, <1>3, Ended

LEMMA PlanKept ==
  ASSUME IndexInv, NEW w \in Workers, Plan(w)
  PROVE  IndexInv'
  <1>1. "headers" \in Pcs
    BY DEF Pcs
  <1>2. UNCHANGED <<chain, db>> /\ work[w].pc = "plan" /\ (Goto(w, "headers") \/ EndAttempt(w))
    BY DEF Plan, At
  <1>3. CASE Goto(w, "headers")
    BY <1>1, <1>2, <1>3, Moved
  <1> QED BY <1>2, <1>3, Ended

LEMMA HydrateKept ==
  ASSUME IndexInv, NEW w \in Workers, Hydrate(w)
  PROVE  IndexInv'
  <1>1. "tip" \in Pcs
    BY DEF Pcs
  <1>2. UNCHANGED <<chain, db>> /\ work[w].pc = "hydrate" /\ (Goto(w, "tip") \/ EndAttempt(w))
    BY DEF Hydrate, At
  <1>3. CASE Goto(w, "tip")
    BY <1>1, <1>2, <1>3, Moved
  <1> QED BY <1>2, <1>3, Ended

\* All headers of a run are below the last: when that is canonical they are.
LEMMA CheckTipKept ==
  ASSUME IndexInv, NEW w \in Workers, CheckTip(w)
  PROVE  IndexInv'
  <1> DEFINE s == work[w].headers
  <1>1. UNCHANGED <<chain, db>> /\ work[w].pc = "tip" /\ "commit" \in Pcs
    BY DEF CheckTip, At, Pcs
  <1>2. CASE TipUnchanged(s[Len(s)])
    <2>1. Goto(w, "commit") /\ s[Len(s)] \in Ancestors[tip]
      BY <1>2 DEF CheckTip, TipUnchanged, Canonical
    <2>2. s \in Seq(Blocks) /\ s # <<>> /\ Joined(s) /\ tip \in Blocks /\ gone \cap Ancestors[tip] = {}
      BY <1>1, Held DEF LocalsOK, Locals, TipOK
    <2>3. \A i \in 1 .. Len(s) : s[i] \notin gone
      <3> HIDE DEF s
      <3>1. Len(s) \in 1 .. Len(s)
        BY <2>2
      <3>2. {s[i] : i \in 1 .. Len(s)} \subseteq Ancestors[s[Len(s)]]
        BY <2>2, <3>1, RunBelow
      <3>3. Ancestors[s[Len(s)]] \subseteq Ancestors[tip]
        BY <2>1, <2>2, Tree
      <3> QED BY <2>2, <3>2, <3>3
    <2> QED BY <1>1, <2>1, <2>3, Moved
  <1>3. CASE ~TipUnchanged(s[Len(s)])
    BY <1>1, <1>3, Ended DEF CheckTip
  <1> QED BY <1>2, <1>3

LEMMA ReadHeaderKept ==
  ASSUME IndexInv, NEW w \in Workers, ReadHeader(w)
  PROVE  IndexInv'
  <1> DEFINE o == work[w]
             read == CanonicalAt(NextHeight(w) + Len(o.headers))
  <1>1. UNCHANGED <<chain, db>> /\ o.pc = "headers"
    BY DEF ReadHeader, At
  <1>2. ASSUME ~EndAttempt(w) PROVE IndexInv'
    <2>1. PICK b \in read :
            LET all == Append(o.headers, b)
                more == Len(all) < Count(w)
            IN (more \/ Linked(w, all))
               /\ Set(w, [o EXCEPT !.headers = all, !.pc = IF more THEN "headers" ELSE "logs"])
      BY <1>2 DEF ReadHeader
    <2> DEFINE all == Append(o.headers, b)
               pc == IF Len(all) < Count(w) THEN "headers" ELSE "logs"
               n == [o EXCEPT !.headers = all, !.pc = pc]
    <2>2. b \in Ancestors[tip] /\ b \in Blocks
      BY Held, TipFacts DEF CanonicalAt
    <2>3. work' = [work EXCEPT ![w] = n]
      BY <2>1 DEF Set
    <2>4. pc \in {"headers", "logs"} /\ (pc = "logs" => Linked(w, all))
      BY <2>1
    <2>5. LocalsOK(w, o) /\ o \in Locals /\ o.headers \in Seq(Blocks)
      BY Held DEF Locals
    <2> HIDE DEF pc, o, read
    <2>6. all \in Seq(Blocks) /\ Len(all) = Len(o.headers) + 1 /\ all # <<>>
          /\ (\A i \in 1 .. Len(all) : all[i] \in Blocks /\ ((all[i] = o.headers[i] /\ i \in 1 .. Len(o.headers)) \/ all[i] = b))
      BY <2>2, <2>5
    <2>7. n \in Locals /\ n.pc = pc /\ n.headers = all
      BY <2>4, <2>5, <2>6 DEF Locals, Pcs
    <2> HIDE DEF n, all
    <2>8. pc = "logs" => Joined(all)
      <3> SUFFICES ASSUME pc = "logs", NEW i \in 1 .. Len(all) - 1 PROVE Parent[all[i + 1]] = all[i]
        BY DEF Joined
      <3>1. Linked(w, all)
        BY <2>4
      <3>2. Len(all) \in Nat /\ DOMAIN all = 1 .. Len(all)
        BY <2>6
      <3>3. i + 1 \in DOMAIN all /\ i + 1 # 1 /\ (i + 1) - 1 = i /\ i \in 1 .. Len(all)
        BY <3>2
      <3>4. all[i] # None
        BY <2>6, <3>3, Blocks0
      <3> QED BY <3>1, <3>3, <3>4 DEF Linked
    <2>9. \A i \in 1 .. Len(all) : Return \/ all[i] \in Ancestors[tip] \cup gone
      BY <2>2, <2>5, <2>6 DEF LocalsOK
    <2>10. legacy[setting.serves[w]] = {}
      BY <1>1, <2>5 DEF LocalsOK
    <2>11. LocalsOK(w, n)
      BY <2>4, <2>6, <2>7, <2>8, <2>9, <2>10 DEF LocalsOK
    <2> QED BY <1>1, <2>3, <2>11, LocalKept
  <1> QED BY <1>1, <1>2, Ended

LEMMA ReadLogsKept ==
  ASSUME IndexInv, NEW w \in Workers, ReadLogs(w)
  PROVE  IndexInv'
  <1> DEFINE o == work[w]
             d == setting.serves[w]
             logs == [i \in DOMAIN o.headers |-> Answer(d, o.headers[i])]
             activated == \E i \in DOMAIN o.headers : logs[i] # {} /\ Activates(d, o.headers[i])
             pc == IF activated THEN "hydrate" ELSE "tip"
             n == [o EXCEPT !.logs = logs, !.pc = pc]
  <1>1. UNCHANGED <<chain, db>> /\ o.pc = "logs" /\ o \in Locals /\ LocalsOK(w, o)
        /\ d \in Deployments /\ tip \in Blocks
    BY Held DEF ReadLogs, At
  <1>2. ASSUME ~EndAttempt(w) PROVE IndexInv'
    <2>1. work' = [work EXCEPT ![w] = n]
      BY <1>2 DEF ReadLogs, Set
    <2>2. pc \in {"hydrate", "tip"}
      OBVIOUS
    <2> HIDE DEF pc, o
    <2>3. o.headers \in Seq(Blocks) /\ Len(o.headers) \in Nat /\ DOMAIN o.headers = 1 .. Len(o.headers)
          /\ (\A i \in 1 .. Len(o.headers) : o.headers[i] \in Blocks)
      BY <1>1 DEF Locals
    <2>4. \A b \in Blocks : Answer(d, b) \in SUBSET Emitters
      BY ConstantsAssumption DEF Answer, Scoped
    <2>5. logs \in Seq(SUBSET Emitters) /\ Len(logs) = Len(o.headers)
          /\ (\A i \in 1 .. Len(o.headers) : logs[i] = Answer(d, o.headers[i]))
      <3> DEFINE A(i) == Answer(d, o.headers[i])
      <3>1. \A i \in 1 .. Len(o.headers) : A(i) \in SUBSET Emitters
        BY <2>3, <2>4
      <3>2. logs = [i \in 1 .. Len(o.headers) |-> A(i)]
        BY <2>3
      <3> HIDE DEF A, logs
      <3>3. logs \in Seq(SUBSET Emitters) /\ Len(logs) = Len(o.headers)
            /\ (\A i \in 1 .. Len(o.headers) : logs[i] = A(i))
        BY <2>3, <3>1, <3>2
      <3> QED BY <3>3 DEF A
    <2> HIDE DEF logs
    <2>6. n \in Locals /\ n.pc = pc /\ n.headers = o.headers /\ n.logs = logs
      BY <1>1, <2>2, <2>5 DEF Locals, Pcs
    <2> HIDE DEF n
    <2>7. \A i \in 1 .. Len(o.headers) : Return \/ o.headers[i] \in Ancestors[tip] \cup gone
      BY <1>1 DEF LocalsOK
    <2>8. ASSUME NEW i \in 1 .. Len(o.headers) PROVE Logged(w, n, i)
      <3>1. n.logs[i] = IF ByRange /\ o.headers[i] \notin Ancestors[tip] THEN {} ELSE Scoped(d, o.headers[i])
        BY <2>5, <2>6 DEF Answer, Canonical
      <3>2. CASE ByRange /\ o.headers[i] \notin Ancestors[tip]
        BY <2>2, <2>6, <2>7, <3>1, <3>2 DEF Logged
      <3>3. CASE ~(ByRange /\ o.headers[i] \notin Ancestors[tip])
        BY <2>6, <3>1, <3>3 DEF Logged
      <3> QED BY <3>2, <3>3
    <2>9. LocalsOK(w, n)
      BY <1>1, <2>2, <2>5, <2>6, <2>7, <2>8 DEF LocalsOK
    <2> QED BY <1>1, <2>1, <2>9, LocalKept
  <1> QED BY <1>1, <1>2, Ended

LEMMA FailKept ==
  ASSUME IndexInv, NEW w \in Workers, Fail(w)
  PROVE  IndexInv'
  BY Ended DEF Fail

LEMMA SwitchKept ==
  ASSUME IndexInv, NEW b \in Tips, Switch(b)
  PROVE  IndexInv'
  <1>1. setting' = setting /\ tip' = b /\ work' = work /\ stored' = stored /\ cursor' = cursor
        /\ events' = events /\ snapshots' = snapshots /\ coverage' = coverage /\ legacy' = legacy
        /\ dcursor' = dcursor /\ Ancestors[b] \cap gone = {}
        /\ gone' = IF Return THEN {} ELSE gone \cup (Ancestors[tip] \ Ancestors[b])
    BY DEF Switch, db
  <1>2. TipOK'
    <2>1. b \in Blocks /\ Ancestors[tip] \subseteq Blocks
      BY Held, TipFacts, ConstantsAssumption DEF IndexInv
    <2> QED BY <1>1, <2>1 DEF IndexInv, TipOK
  <1>3. ASSUME NEW w \in Workers PROVE LocalsOK(w, work[w])'
    <2> DEFINE o == work[w]
    <2>1. LocalsOK(w, o) /\ work'[w] = o
      BY <1>1 DEF IndexInv, WorkOK
    <2> HIDE DEF o
    <2>2. Return \/ (Ancestors[tip] \cup gone \subseteq Ancestors[tip'] \cup gone' /\ gone \subseteq gone')
      BY <1>1
    <2>3. \A x : LocalsOK(w, x) => LocalsOK(w, x)'
      BY <1>1, <2>2, LocalsStable
    <2> QED BY <2>1, <2>3
  <1>4. WorkOK'
    BY <1>1, <1>3 DEF IndexInv, WorkOK
  <1>5. (DbOK /\ ChainInv /\ LegacyInv /\ EventsInv)'
    BY <1>1 DEF IndexInv, DbOK, ChainInv, CoveredChain, OneChain, CursorOnTop, LegacyInv, EventsInv
  <1>6. HistoryInv'
    <2>1. \A d \in Deployments : Visible(d)' = Visible(d)
      BY <1>1 DEF Visible
    <2>2. CoveredComplete' = CoveredComplete
      BY <1>1 DEF CoveredComplete
    <2> QED BY <1>1, <2>1, <2>2 DEF IndexInv, HistoryInv
  <1> QED BY <1>2, <1>4, <1>5, <1>6 DEF IndexInv

-----------------------------------------------------------------------------
(* Rollback.                                                               *)

LEMMA CoverageFacts ==
  ASSUME DbOK, ChainInv, NEW d \in Deployments
  PROVE  /\ coverage[d] \subseteq stored /\ coverage[d] \subseteq Blocks /\ StartOf[d] \in Nat
         /\ dcursor[d] = None => coverage[d] = {}
         /\ dcursor[d] # None =>
              /\ dcursor[d] \in Blocks /\ dcursor[d] \in coverage[d]
              /\ coverage[d] = {c \in Ancestors[dcursor[d]] : Height[c] >= StartOf[d]}
              /\ coverage[d] \subseteq Ancestors[dcursor[d]]
  BY ConstantsAssumption DEF DbOK, ChainInv, CoveredChain, From, OrNone

\* What is left of a deployment is the chain below its new cursor.
LEMMA RewoundChain ==
  ASSUME DbOK, ChainInv, NEW d \in Deployments, NEW anc \in stored, NEW kept,
         kept = {b \in stored : Height[b] <= Height[anc]}
  PROVE  LET top == Rewound(d, anc, kept)
         IN /\ top \in OrNone(Blocks)
            /\ coverage[d] \cap kept = From(d, top)
            /\ top # None => top \in coverage[d] \cap kept
  <1> DEFINE dc == dcursor[d]
             left == coverage[d] \cap kept
  <1>1. /\ left \subseteq Blocks /\ anc \in Blocks /\ Height[anc] \in Nat
        /\ \A c \in left : Height[c] <= Height[anc]
        /\ \A c \in coverage[d] : c \in left <=> Height[c] <= Height[anc]
    BY CoverageFacts, Blocks0 DEF DbOK
  <1>2. CASE dc = None
    <2>1. coverage[d] = {}
      BY <1>2, CoverageFacts
    <2> QED BY <1>2, <2>1 DEF Rewound, From, OrNone
  <1>3. CASE dc # None /\ ~(Height[dc] > Height[anc])
    <2>1. /\ dc \in Blocks /\ dc \in coverage[d] /\ coverage[d] \subseteq Ancestors[dc]
          /\ coverage[d] = From(d, dc) /\ Height[dc] \in Nat
      BY <1>3, CoverageFacts, Blocks0 DEF From
    <2> HIDE DEF dc, left
    <2>2. \A c \in coverage[d] : Height[c] <= Height[anc]
      <3> SUFFICES ASSUME NEW c \in coverage[d] PROVE Height[c] <= Height[anc]
        OBVIOUS
      <3>1. Height[c] <= Height[dc] /\ c \in Blocks
        BY <2>1, Tree
      <3>2. Height[c] \in Nat
        BY <3>1, Blocks0
      <3> QED BY <1>1, <1>3, <2>1, <3>1, <3>2
    <2>3. left = coverage[d] /\ Rewound(d, anc, kept) = dc
      BY <1>1, <1>3, <2>2 DEF Rewound, dc, left
    <2> QED BY <2>1, <2>3 DEF OrNone, left
  <1>4. CASE dc # None /\ Height[dc] > Height[anc]
    <2> DEFINE top == Highest(left)
    <2>1. Rewound(d, anc, kept) = top
      BY <1>4 DEF Rewound
    <2>2. CASE left = {}
      BY <2>1, <2>2 DEF Highest, From, OrNone
    <2>3. CASE left # {}
      <3>1. top \in left /\ \A c \in left : Height[c] <= Height[top]
        <4> HIDE DEF left
        <4> QED BY <1>1, <2>3, TopExists
      <3>2. /\ dc \in Blocks /\ left \subseteq Ancestors[dc] /\ StartOf[d] \in Nat
            /\ coverage[d] = {c \in Ancestors[dc] : Height[c] >= StartOf[d]}
        BY <1>4, CoverageFacts
      <3>3. top \in Blocks /\ top # None /\ top \in Ancestors[dc] /\ Height[top] <= Height[anc]
            /\ Height[top] \in Nat
        BY <1>1, <3>1, <3>2, Blocks0
      <3> HIDE DEF top
      <3>4. ASSUME NEW c \in left PROVE c \in From(d, top)
        <4>1. c \in Ancestors[dc] /\ Height[c] <= Height[top] /\ Height[c] >= StartOf[d]
          BY <3>1, <3>2
        <4>2. c \in Ancestors[top]
          BY <3>2, <3>3, <4>1, Tree
        <4> QED BY <3>3, <4>1, <4>2 DEF From
      <3>5. ASSUME NEW c \in From(d, top) PROVE c \in left
        <4>1. c \in Ancestors[top] /\ Height[c] >= StartOf[d]
          BY <3>3 DEF From
        <4>2. c \in Ancestors[dc]
          BY <3>2, <3>3, <4>1, Tree
        <4>3. Height[c] <= Height[top] /\ Height[c] \in Nat
          <5>1. c \in Blocks /\ Height[c] <= Height[top]
            BY <3>3, <4>1, Tree
          <5> QED BY <5>1, Blocks0
        <4>4. c \in coverage[d]
          BY <3>2, <4>1, <4>2
        <4>5. Height[c] <= Height[anc]
          BY <1>1, <3>3, <4>3
        <4> QED BY <1>1, <4>4, <4>5
      <3> QED BY <2>1, <3>1, <3>3, <3>4, <3>5 DEF OrNone
    <2> QED BY <2>2, <2>3
  <1> QED BY <1>2, <1>3, <1>4

LEMMA RollbackRows ==
  ASSUME IndexInv, NEW anc \in stored, RollbackTo(anc)
  PROVE  (DbOK /\ ChainInv /\ LegacyInv /\ EventsInv /\ HistoryInv)'
  <1> DEFINE kept == {b \in stored : Height[b] <= Height[anc]}
  <1>1. /\ stored' = kept /\ cursor' = anc /\ events' = {p \in events : p[1] \in kept}
        /\ coverage' = [d \in Deployments |-> coverage[d] \cap kept]
        /\ legacy' = [d \in Deployments |-> legacy[d] \cap kept]
        /\ snapshots' = [d \in Deployments |-> {r \in snapshots[d] : r[1] \in kept}]
        /\ dcursor' = [d \in Deployments |-> Rewound(d, anc, kept)]
    BY DEF RollbackTo
  <1>2. kept \subseteq stored /\ anc \in kept /\ (\A b \in kept : Height[b] <= Height[anc])
        /\ stored \subseteq Blocks
    BY Blocks0 DEF IndexInv, DbOK
  <1>3. \A d \in Deployments :
          /\ dcursor'[d] \in OrNone(Blocks) /\ coverage'[d] = From(d, dcursor'[d])
          /\ dcursor'[d] # None => dcursor'[d] \in coverage'[d]
    BY <1>1, RewoundChain DEF IndexInv
  <1> HIDE DEF kept
  <1>4. DbOK'
    BY <1>1, <1>2, <1>3 DEF IndexInv, DbOK, OrNone
  <1>5. ChainInv'
    <2>1. CoveredChain'
      BY <1>3 DEF CoveredChain, From
    <2>2. stored' = UNION {coverage'[d] : d \in Deployments}
      BY <1>1, <1>2 DEF IndexInv, ChainInv
    <2>3. OneChain'
      BY <1>1, <1>2 DEF IndexInv, ChainInv, OneChain
    <2>4. CursorOnTop'
      <3>1. anc # None
        BY <1>2, Blocks0
      <3> QED BY <1>1, <1>2, <3>1 DEF CursorOnTop
    <2> QED BY <2>1, <2>2, <2>3, <2>4 DEF ChainInv
  <1>6. (LegacyInv /\ EventsInv)'
    BY <1>1 DEF IndexInv, LegacyInv, EventsInv
  <1>7. HistoryInv'
    <2> SUFFICES ASSUME AskedSafely PROVE CoveredComplete' /\ \A d \in Deployments : snapshots'[d] = Visible(d)'
      BY DEF HistoryInv, AskedSafely
    <2>1. CoveredComplete /\ \A d \in Deployments : snapshots[d] = Visible(d)
      BY DEF IndexInv, HistoryInv
    <2>2. CoveredComplete'
      BY <1>1, <2>1 DEF CoveredComplete
    <2>3. ASSUME NEW d \in Deployments PROVE snapshots'[d] = Visible(d)'
      <3>1. snapshots'[d] = {r \in Visible(d) : r[1] \in kept}
        BY <1>1, <2>1
      <3>2. coverage'[d] = coverage[d] \cap kept /\ legacy'[d] = legacy[d] \cap kept
        BY <1>1
      <3> QED BY <1>1, <3>1, <3>2 DEF Visible
    <2> QED BY <2>2, <2>3
  <1> QED BY <1>4, <1>5, <1>6, <1>7

\* A step of a worker that changes rows, for the better or for what they were.
LEMMA StepKept ==
  ASSUME IndexInv, NEW w \in Workers, NEW l, LocalsOK(w, l), work' = [work EXCEPT ![w] = l],
         UNCHANGED chain, \A d \in Deployments : legacy'[d] \subseteq legacy[d],
         (DbOK /\ ChainInv /\ LegacyInv /\ EventsInv /\ HistoryInv)'
  PROVE  IndexInv'
  <1>1. WorkOK'
    BY WorkMoves DEF IndexInv
  <1>2. TipOK'
    BY DEF IndexInv, TipOK, chain
  <1> QED BY <1>1, <1>2 DEF IndexInv

LEMMA ReconcileKept ==
  ASSUME IndexInv, NEW w \in Workers, Reconcile(w)
  PROVE  IndexInv'
  <1> DEFINE seen == work[w].seen
             window == Window(stored)
             common == window \cap seen
  <1>1. UNCHANGED chain
    BY DEF Reconcile
  <1>2. CASE EndAttempt(w) /\ UNCHANGED db
    BY <1>1, <1>2, Ended
  <1>3. CASE Stop(w) /\ UNCHANGED <<stored, cursor, events, snapshots, coverage, legacy, dcursor>>
    <2> DEFINE n == [Rest EXCEPT !.pc = "stopped"]
    <2>1. work' = [work EXCEPT ![w] = n] /\ LocalsOK(w, n)
      BY <1>3, RestOK DEF Stop, Set
    <2> HIDE DEF n
    <2> QED BY <1>1, <1>3, <2>1, RowsKept
  <1>4. CASE Goto(w, "backfill") /\ UNCHANGED db
    <2>1. "backfill" \in Pcs
      BY DEF Pcs
    <2> QED BY <1>1, <1>4, <2>1, Moved
  <1>5. CASE common # {} /\ RollbackTo(Highest(common)) /\ EndAttempt(w)
    <2> DEFINE anc == Highest(common)
    <2>1. common \subseteq stored /\ stored \subseteq Blocks
      BY DEF Window, IndexInv, DbOK
    <2>2. cursor \in stored /\ \A b \in stored : Height[b] <= Height[cursor]
      BY <1>5, <2>1 DEF IndexInv, ChainInv, CursorOnTop
    <2>3. Height[cursor] \in Nat
      BY <2>1, <2>2, Blocks0
    <2>4. anc \in stored
      <3> HIDE DEF common
      <3> QED BY <1>5, <2>1, <2>2, <2>3, TopExists
    <2>5. RollbackTo(anc) /\ work' = [work EXCEPT ![w] = Rest]
      BY <1>5 DEF EndAttempt, Set
    <2> HIDE DEF anc
    <2>6. (DbOK /\ ChainInv /\ LegacyInv /\ EventsInv /\ HistoryInv)'
      BY <2>4, <2>5, RollbackRows
    <2>7. \A d \in Deployments : legacy'[d] \subseteq legacy[d]
      BY <2>5 DEF RollbackTo
    <2> QED BY <1>1, <2>5, <2>6, <2>7, RestOK, StepKept
  <1> QED BY <1>2, <1>3, <1>4, <1>5 DEF Reconcile, db

-----------------------------------------------------------------------------
(* Receipts of older blocks.                                               *)

LEMMA DecodedIs ==
  ASSUME NEW d \in Deployments, NEW b \in Blocks
  PROVE  /\ Decoded[d][b] = {e \in Scoped(d, b) : \/ e = RouterOf[d] /\ EventOf[b][e] \in StrategyEvents
                                                  \/ e = PaymentsOf[d] /\ EventOf[b][e] \in InvoiceEvents}
         /\ Decoded[d][b] \subseteq Scoped(d, b)
         /\ Scoped(d, b) \subseteq LogsOf[b] /\ Scoped(d, b) \subseteq Emitters
         /\ \A e \in Decoded[d][b] : EventOf[b][e] = "OrbitalSwapExecuted" => e = RouterOf[d]
  <1>1. Decoded[d][b] = {e \in Scoped(d, b) : \/ e = RouterOf[d] /\ EventOf[b][e] \in StrategyEvents
                                              \/ e = PaymentsOf[d] /\ EventOf[b][e] \in InvoiceEvents}
    BY DEF Decoded
  <1>2. Scoped(d, b) \subseteq LogsOf[b] /\ LogsOf[b] \subseteq Emitters
    BY ConstantsAssumption DEF Scoped
  <1>3. "OrbitalSwapExecuted" \notin InvoiceEvents
    BY DEF InvoiceEvents
  <1> QED BY <1>1, <1>2, <1>3

LEMMA CommitBackfillKept ==
  ASSUME IndexInv, NEW w \in Workers, CommitBackfill(w)
  PROVE  IndexInv'
  <1>0. PICK d \in Deployments, b \in OrNone(Blocks) : d = setting.serves[w] /\ b = work[w].pending
    BY Held DEF Locals
  <1>1. /\ UNCHANGED <<chain, stored, cursor, status, events, coverage, dcursor>>
        /\ work' = [work EXCEPT ![w] = Rest] /\ b # None /\ d \in Deployments
    BY <1>0, Held DEF CommitBackfill, EndAttempt, Set, At, LocalsOK
  <1>2. CASE UNCHANGED <<legacy, snapshots>>
    BY <1>1, <1>2, RestOK, RowsKept
  <1>3. CASE /\ Lowest(legacy[d]) = b
             /\ legacy' = [legacy EXCEPT ![d] = @ \ {b}]
             /\ snapshots' = [snapshots EXCEPT ![d] = @ \cup Rows(d, b, {RouterOf[d]})]
    <2>1. /\ legacy[d] \subseteq coverage[d] /\ coverage[d] \subseteq Blocks
          /\ legacy \in [Deployments -> SUBSET Blocks] /\ snapshots \in [Deployments -> SUBSET (Blocks \X Emitters)]
      BY <1>1 DEF IndexInv, DbOK, LegacyInv
    <2>2. b \in legacy[d] /\ \A c \in legacy[d] : Height[c] >= Height[b]
      <3>1. legacy[d] # {}
        BY <1>1, <1>3 DEF Lowest
      <3> QED BY <1>3, <2>1, <3>1, BottomExists
    <2>3. b \in Blocks /\ b \in coverage[d]
      BY <2>1, <2>2
    <2>4. /\ legacy'[d] = legacy[d] \ {b} /\ \A x \in Deployments : x # d => legacy'[x] = legacy[x]
          /\ snapshots'[d] = snapshots[d] \cup Rows(d, b, {RouterOf[d]})
          /\ \A x \in Deployments : x # d => snapshots'[x] = snapshots[x]
      BY <1>1, <1>3, <2>1
    <2>5. Rows(d, b, {RouterOf[d]}) \subseteq Blocks \X Emitters
      BY <1>1, <2>3, DecodedIs DEF Rows
    <2>6. DbOK'
      <3>1. \A x \in Deployments : legacy'[x] \subseteq Blocks /\ snapshots'[x] \subseteq Blocks \X Emitters
        BY <2>1, <2>4, <2>5
      <3>2. legacy' \in [Deployments -> SUBSET Blocks]
        BY <1>3, <2>1
      <3>3. snapshots' \in [Deployments -> SUBSET (Blocks \X Emitters)]
        BY <1>3, <2>1, <2>5, <1>1
      <3> QED BY <1>1, <3>2, <3>3 DEF IndexInv, DbOK
    <2>7. (ChainInv /\ EventsInv)'
      BY <1>1 DEF IndexInv, ChainInv, CoveredChain, OneChain, CursorOnTop, EventsInv
    <2>8. LegacyInv'
      <3>1. ASSUME NEW x \in Deployments, NEW e \in legacy'[x], NEW c \in coverage[x] \ legacy'[x]
            PROVE  Height[c] < Height[e]
        <4>1. CASE x # d \/ c # b
          BY <2>4, <3>1, <4>1 DEF IndexInv, LegacyInv
        <4>2. CASE x = d /\ c = b
          <5>1. e \in legacy[d] /\ e # b /\ e \in coverage[d]
            BY <2>1, <2>4, <3>1, <4>2
          <5>2. dcursor[d] \in Blocks /\ coverage[d] \subseteq Ancestors[dcursor[d]]
            BY <1>1, <2>3, CoverageFacts DEF IndexInv
          <5>3. Height[e] # Height[b]
            BY <2>3, <5>1, <5>2, Blocks0
          <5> QED BY <2>1, <2>2, <2>3, <4>2, <5>1, <5>3, Blocks0
        <4> QED BY <4>1, <4>2
      <3>2. \A x \in Deployments : legacy'[x] \subseteq coverage[x]
        BY <2>4 DEF IndexInv, LegacyInv
      <3> QED BY <1>1, <3>1, <3>2 DEF LegacyInv
    <2>9. HistoryInv'
      <3> SUFFICES ASSUME AskedSafely
                   PROVE  CoveredComplete' /\ \A x \in Deployments : snapshots'[x] = Visible(x)'
        BY DEF HistoryInv, AskedSafely
      <3>1. CoveredComplete /\ \A x \in Deployments : snapshots[x] = Visible(x)
        BY DEF IndexInv, HistoryInv
      <3>2. CoveredComplete'
        BY <1>1, <3>1 DEF CoveredComplete
      <3>3. ASSUME NEW x \in Deployments, x # d PROVE snapshots'[x] = Visible(x)'
        BY <1>1, <2>4, <3>1, <3>3 DEF Visible
      <3>4. snapshots'[d] = Visible(d)'
        <4> DEFINE new == {p \in events : /\ p[1] = b /\ p[2] \in Decoded[d][b]
                                          /\ EventOf[b][p[2]] = "OrbitalSwapExecuted"}
        <4>1. Visible(d)' = {p \in events : /\ p[1] \in coverage[d] /\ p[2] \in Decoded[d][p[1]]
                                            /\ p[1] \in legacy[d] \ {b} => EventOf[p[1]][p[2]] # "OrbitalSwapExecuted"}
          <5>1. events' = events /\ coverage' = coverage /\ legacy'[d] = legacy[d] \ {b}
            BY <1>1, <2>4
          <5> QED BY <5>1 DEF Visible
        <4>2. Visible(d)' = Visible(d) \cup new
          BY <2>2, <2>3, <4>1 DEF Visible
        <4>3. Rows(d, b, {RouterOf[d]}) \subseteq Visible(d)'
          <5> SUFFICES ASSUME NEW e \in Decoded[d][b] \cap {RouterOf[d]} PROVE <<b, e>> \in Visible(d)'
            BY DEF Rows
          <5>1. <<b, e>> \in events
            BY <1>1, <2>3, <3>1, DecodedIs DEF CoveredComplete
          <5> QED BY <2>3, <4>1, <5>1
        <4>4. new \subseteq Rows(d, b, {RouterOf[d]})
          <5> SUFFICES ASSUME NEW p \in new PROVE p \in Rows(d, b, {RouterOf[d]})
            OBVIOUS
          <5>1. p = <<p[1], p[2]>>
            BY DEF IndexInv, DbOK
          <5>2. p[1] = b /\ p[2] \in Decoded[d][b] \cap {RouterOf[d]}
            BY <1>1, <2>3, DecodedIs
          <5>3. p = <<b, p[2]>>
            BY <5>1, <5>2
          <5> HIDE DEF new
          <5> QED BY <5>2, <5>3 DEF Rows
        <4>5. snapshots'[d] = Visible(d) \cup Rows(d, b, {RouterOf[d]})
          BY <1>1, <2>4, <3>1
        <4> HIDE DEF new
        <4> QED BY <4>2, <4>3, <4>4, <4>5
      <3> QED BY <3>2, <3>3, <3>4
    <2>10. \A x \in Deployments : legacy'[x] \subseteq legacy[x]
      BY <2>4
    <2> QED BY <1>1, <2>6, <2>7, <2>8, <2>9, <2>10, RestOK, StepKept
  <1> QED BY <1>0, <1>1, <1>2, <1>3 DEF CommitBackfill

-----------------------------------------------------------------------------
(* New blocks.                                                             *)

\* The blocks from first to last of one branch.
Batched(first, last, batch) ==
  /\ batch \subseteq Blocks /\ first \in batch /\ last \in batch
  /\ Ancestors[last] = batch \cup Base(first)
  /\ \A c \in batch : Height[first] <= Height[c] /\ Height[c] <= Height[last]

LEMMA RunIsBatch ==
  ASSUME NEW s \in Seq(Blocks), Joined(s), NEW n \in 1 .. Len(s)
  PROVE  Batched(s[1], s[n], {s[i] : i \in 1 .. n})
  <1> DEFINE batch == {s[i] : i \in 1 .. n}
  <1>1. 1 \in 1 .. n /\ n \in 1 .. n /\ 1 .. n \subseteq 1 .. Len(s) /\ n \in Nat
    OBVIOUS
  <1>2. \A i \in 1 .. n : s[i] \in Blocks /\ Height[s[i]] = Height[s[1]] + i - 1
    BY <1>1, RunBelow
  <1>3. Height[s[1]] \in Nat
    BY <1>1, <1>2, Blocks0
  <1>4. \A i \in 1 .. n : Height[s[1]] <= Height[s[i]] /\ Height[s[i]] <= Height[s[n]]
    BY <1>1, <1>2, <1>3
  <1>5. Ancestors[s[n]] = batch \cup Base(s[1])
    BY RunBelow
  <1>6. batch \subseteq Blocks /\ s[1] \in batch /\ s[n] \in batch
    BY <1>1, <1>2
  <1> QED BY <1>4, <1>5, <1>6 DEF Batched

\* What a deployment covers after a batch is the chain below its last block.
LEMMA StoreCovers ==
  ASSUME DbOK, ChainInv, NEW d \in Deployments, NEW first, NEW last, NEW batch,
         Batched(first, last, batch), Continues(d, first, batch)
  PROVE  coverage[d] \cup batch = From(d, last)
  <1>1. /\ first \in Blocks /\ last \in Blocks /\ last # None /\ Height[first] \in Nat
        /\ StartOf[d] \in Nat /\ Parent[first] \in OrNone(Blocks)
        /\ Ancestors[last] = batch \cup Base(first)
        /\ \A c \in batch : Height[c] \in Nat /\ Height[c] >= Height[first]
    BY Blocks0, CoverageFacts DEF Batched
  <1>2. CASE dcursor[d] = None
    <2>1. coverage[d] = {} /\ Height[first] = StartOf[d]
      BY <1>2, CoverageFacts DEF Continues
    <2>2. ASSUME NEW c \in Base(first) PROVE ~(Height[c] >= StartOf[d])
      <3>1. /\ Parent[first] \in Blocks /\ c \in Ancestors[Parent[first]]
            /\ Height[first] = Height[Parent[first]] + 1 /\ Height[Parent[first]] \in Nat
        BY <1>1, <2>2, Blocks0 DEF Base
      <3>2. c \in Blocks /\ Height[c] <= Height[Parent[first]]
        BY <3>1, Tree
      <3>3. Height[c] \in Nat
        BY <3>2, Blocks0
      <3> QED BY <2>1, <3>1, <3>2, <3>3
    <2>3. \A c \in batch : Height[c] >= StartOf[d]
      BY <1>1, <2>1
    <2> QED BY <1>1, <2>1, <2>2, <2>3 DEF From
  <1>3. CASE dcursor[d] # None
    <2> DEFINE dc == dcursor[d]
    <2>1. dc = Parent[first] /\ dc # None /\ dc \in Blocks /\ dc \in coverage[d]
          /\ coverage[d] = {c \in Ancestors[dc] : Height[c] >= StartOf[d]}
      BY <1>3, CoverageFacts DEF Continues
    <2>2. Base(first) = Ancestors[dc] /\ Height[first] = Height[dc] + 1 /\ Height[dc] \in Nat
      BY <1>1, <2>1, Blocks0 DEF Base
    <2>3. \A c \in batch : Height[c] >= StartOf[d]
      BY <1>1, <2>1, <2>2
    <2> QED BY <1>1, <2>1, <2>2, <2>3 DEF From
  <1> QED BY <1>2, <1>3

LEMMA StoreJoins ==
  ASSUME stored \subseteq Blocks, OneChain, NEW first, NEW last, NEW batch,
         Batched(first, last, batch), Adjacent(first, last, batch),
         NEW b \in stored \cup batch, NEW c \in stored \cup batch
  PROVE  /\ Height[b] = Height[c] => b = c
         /\ Height[b] + 1 = Height[c] => Parent[c] = b
  <1>1. /\ first \in Blocks /\ last \in Blocks /\ Height[first] \in Nat /\ Height[last] \in Nat
        /\ first \in batch /\ last \in batch /\ batch \subseteq Ancestors[last]
        /\ b \in Blocks /\ c \in Blocks /\ Height[b] \in Nat /\ Height[c] \in Nat
        /\ (\A e \in batch : Height[first] <= Height[e] /\ Height[e] <= Height[last])
    BY Blocks0 DEF Batched
  <1>2. ASSUME NEW r \in stored
        PROVE  /\ Height[r] \in Nat
               /\ Height[r] >= Height[first] /\ Height[r] <= Height[last] => r \in batch
               /\ Height[r] = Height[first] - 1 => r = Parent[first]
               /\ Height[r] = Height[last] + 1 => Parent[r] = last
    <2>1. Height[r] \in Nat
      BY Blocks0
    <2> QED BY <1>1, <2>1 DEF Adjacent
  <1>3. CASE b \in stored /\ c \in stored
    BY <1>3 DEF OneChain
  <1>4. \A x, y \in batch :
          /\ Height[x] = Height[y] => x = y
          /\ Height[x] + 1 = Height[y] => Parent[y] = x
    BY <1>1, Tree
  <1>5. CASE b \in batch /\ c \in batch
    BY <1>4, <1>5
  <1>6. CASE b \in stored /\ b \notin batch /\ c \in batch
    <2>1. Height[b] < Height[first] \/ Height[b] > Height[last]
      BY <1>1, <1>2, <1>6
    <2>2. Height[first] <= Height[c] /\ Height[c] <= Height[last]
      BY <1>1, <1>6
    <2>3. Height[b] # Height[c]
      BY <1>1, <2>1, <2>2
    <2>4. Height[b] + 1 = Height[c] => Height[c] = Height[first] /\ Height[b] = Height[first] - 1
      BY <1>1, <2>1, <2>2
    <2>5. Height[c] = Height[first] => c = first
      BY <1>1, <1>4, <1>6
    <2> QED BY <1>2, <1>6, <2>3, <2>4, <2>5
  <1>7. CASE b \in batch /\ c \in stored /\ c \notin batch
    <2>1. Height[c] < Height[first] \/ Height[c] > Height[last]
      BY <1>1, <1>2, <1>7
    <2>2. Height[first] <= Height[b] /\ Height[b] <= Height[last]
      BY <1>1, <1>7
    <2>3. Height[b] # Height[c]
      BY <1>1, <2>1, <2>2
    <2>4. Height[b] + 1 = Height[c] => Height[b] = Height[last] /\ Height[c] = Height[last] + 1
      BY <1>1, <2>1, <2>2
    <2>5. Height[b] = Height[last] => b = last
      BY <1>1, <1>4, <1>7
    <2> QED BY <1>2, <1>7, <2>3, <2>4, <2>5
  <1> QED BY <1>3, <1>5, <1>6, <1>7

LEMMA StoreRows ==
  ASSUME DbOK, ChainInv, LegacyInv, NEW d \in Deployments, NEW first, NEW last, NEW batch,
         Batched(first, last, batch), Continues(d, first, batch), Adjacent(first, last, batch),
         Store(d, batch, last), legacy[d] = {}
  PROVE  /\ ChainInv' /\ LegacyInv'
         /\ stored' = stored \cup batch /\ stored' \subseteq Blocks /\ cursor' \in OrNone(Blocks)
         /\ coverage' \in [Deployments -> SUBSET Blocks] /\ dcursor' \in [Deployments -> OrNone(Blocks)]
         /\ coverage'[d] = coverage[d] \cup batch
         /\ \A x \in Deployments : x # d => coverage'[x] = coverage[x]
         /\ legacy' = legacy /\ batch \cap coverage[d] = {}
  <1>1. /\ stored' = stored \cup batch /\ coverage' = [coverage EXCEPT ![d] = @ \cup batch]
        /\ dcursor' = [dcursor EXCEPT ![d] = last] /\ legacy' = legacy
        /\ cursor' = IF cursor = None \/ Height[last] > Height[cursor] THEN last ELSE cursor
    BY DEF Store
  <1>2. /\ batch \subseteq Blocks /\ last \in batch /\ last \in Blocks /\ last # None /\ Height[last] \in Nat
        /\ \A c \in batch : Height[c] <= Height[last]
    BY Blocks0 DEF Batched
  <1>3. /\ stored \subseteq Blocks /\ coverage \in [Deployments -> SUBSET Blocks] /\ cursor \in OrNone(Blocks)
        /\ dcursor \in [Deployments -> OrNone(Blocks)]
    BY DEF DbOK
  <1>4. /\ coverage'[d] = coverage[d] \cup batch /\ dcursor'[d] = last
        /\ \A x \in Deployments : x # d => coverage'[x] = coverage[x] /\ dcursor'[x] = dcursor[x]
    BY <1>1, <1>3
  <1>5. CoveredChain'
    <2>1. ASSUME NEW x \in Deployments
          PROVE  /\ coverage'[x] = From(x, dcursor'[x])
                 /\ dcursor'[x] # None => dcursor'[x] \in coverage'[x]
      <3>1. CASE x = d
        <4>1. coverage[d] \cup batch = From(d, last)
          BY StoreCovers
        <4> QED BY <1>2, <1>4, <3>1, <4>1
      <3>2. CASE x # d
        BY <1>4, <3>2 DEF ChainInv, CoveredChain
      <3> QED BY <3>1, <3>2
    <2> QED BY <2>1 DEF CoveredChain, From
  <1>6. stored' = UNION {coverage'[x] : x \in Deployments}
    <2>1. stored = UNION {coverage[x] : x \in Deployments}
      BY DEF ChainInv
    <2>2. \A b : b \in stored' <=> \E x \in Deployments : b \in coverage'[x]
      BY <1>1, <1>4, <2>1
    <2> QED BY <2>2
  <1>7. OneChain'
    <2>1. \A b, c \in stored \cup batch :
            /\ Height[b] = Height[c] => b = c
            /\ Height[b] + 1 = Height[c] => Parent[c] = b
      BY <1>3, StoreJoins DEF ChainInv
    <2> QED BY <1>1, <2>1 DEF OneChain
  <1>8. CursorOnTop'
    <2>1. /\ cursor = None => stored = {}
          /\ cursor # None => cursor \in stored /\ Height[cursor] \in Nat
                              /\ \A b \in stored : Height[b] <= Height[cursor] /\ Height[b] \in Nat
      BY <1>3, Blocks0 DEF ChainInv, CursorOnTop
    <2>2. \A c \in batch : Height[c] \in Nat
      BY <1>2, Blocks0
    <2>3. CASE cursor = None
      <3>1. cursor' = last /\ stored' = batch
        BY <1>1, <2>1, <2>3
      <3> QED BY <1>2, <3>1 DEF CursorOnTop
    <2>4. CASE cursor # None /\ Height[last] > Height[cursor]
      <3>1. cursor' = last
        BY <1>1, <2>4
      <3>2. \A b \in stored : Height[b] <= Height[last]
        BY <1>2, <2>1, <2>4
      <3> QED BY <1>1, <1>2, <3>1, <3>2 DEF CursorOnTop
    <2>5. CASE cursor # None /\ ~(Height[last] > Height[cursor])
      <3>1. cursor' = cursor
        BY <1>1, <2>5
      <3>2. \A b \in batch : Height[b] <= Height[cursor]
        BY <1>2, <2>1, <2>2, <2>5
      <3> QED BY <1>1, <2>1, <2>5, <3>1, <3>2 DEF CursorOnTop
    <2> QED BY <2>3, <2>4, <2>5
  <1>9. LegacyInv'
    BY <1>1, <1>4 DEF LegacyInv
  <1>10. batch \cap coverage[d] = {}
    BY DEF Continues
  <1> QED BY <1>1, <1>2, <1>3, <1>4, <1>5, <1>6, <1>7, <1>8, <1>9, <1>10 DEF ChainInv, OrNone

\* The blocks of an attempt that are left are again a run with its logs.
LEMMA ProceedOK ==
  ASSUME IndexInv, NEW w \in Workers, At(w, "commit"), NEW n \in 1 .. Len(work[w].headers), Proceed(w, n)
  PROVE  \E l : LocalsOK(w, l) /\ work' = [work EXCEPT ![w] = l]
  <1> DEFINE o == work[w]
             len == Len(o.headers)
             heads == SubSeq(o.headers, n + 1, len)
             tails == SubSeq(o.logs, n + 1, Len(o.logs))
             rest == [o EXCEPT !.headers = heads, !.logs = tails]
             l == IF rest.headers = <<>> THEN Rest ELSE rest
  <1>1. work' = [work EXCEPT ![w] = l] /\ o \in Locals /\ LocalsOK(w, o) /\ o.pc = "commit"
    BY Held DEF Proceed, Set, At
  <1>2. CASE rest.headers = <<>>
    BY <1>1, <1>2, RestOK
  <1>3. CASE rest.headers # <<>>
    <2>1. n \in 1 .. len /\ work' = [work EXCEPT ![w] = rest]
      BY <1>1, <1>3
    <2> HIDE DEF o
    <2>2. o.headers \in Seq(Blocks) /\ o.logs \in Seq(SUBSET Emitters) /\ len \in Nat /\ Len(o.logs) = len
          /\ Joined(o.headers) /\ legacy[setting.serves[w]] = {}
          /\ (\A i \in 1 .. len : Logged(w, o, i) /\ (Return \/ o.headers[i] \in Ancestors[tip] \cup gone))
      BY <1>1 DEF LocalsOK, Locals
    <2>3. /\ heads \in Seq(Blocks) /\ tails \in Seq(SUBSET Emitters)
          /\ Len(heads) = len - n /\ Len(tails) = len - n
          /\ \A i \in 1 .. len - n : heads[i] = o.headers[n + i] /\ tails[i] = o.logs[n + i]
      <3>1. n \in Nat /\ len \in Nat /\ n <= len /\ n + 1 \in Int /\ n + 1 > 0
        BY <2>1, <2>2
      <3>2. \A i \in n + 1 .. len : o.headers[i] \in Blocks /\ o.logs[i] \in SUBSET Emitters
        <4>1. \A i \in n + 1 .. len : i \in 1 .. len
          BY <3>1
        <4> QED BY <2>2, <4>1
      <3>3. heads \in Seq(Blocks) /\ (Len(heads) = IF n + 1 <= len THEN len - (n + 1) + 1 ELSE 0)
            /\ (\A i \in 1 .. len - (n + 1) + 1 : heads[i] = o.headers[(n + 1) + i - 1])
        <4> HIDE DEF len
        <4> QED BY <3>1, <3>2, SubSeqProperties
      <3>4. tails \in Seq(SUBSET Emitters) /\ (Len(tails) = IF n + 1 <= len THEN len - (n + 1) + 1 ELSE 0)
            /\ (\A i \in 1 .. len - (n + 1) + 1 : tails[i] = o.logs[(n + 1) + i - 1])
        <4>1. tails = SubSeq(o.logs, n + 1, len)
          BY <2>2
        <4> HIDE DEF len, tails
        <4> QED BY <3>1, <3>2, <4>1, SubSeqProperties
      <3> HIDE DEF heads, tails, len
      <3>5. len - (n + 1) + 1 = len - n /\ (~(n + 1 <= len) => len - n = 0)
            /\ \A i \in 1 .. len - n : (n + 1) + i - 1 = n + i
        BY <3>1
      <3>6. Len(heads) = len - n /\ Len(tails) = len - n
        BY <3>3, <3>4, <3>5
      <3>7. \A i \in 1 .. len - n : heads[i] = o.headers[n + i] /\ tails[i] = o.logs[n + i]
        BY <3>3, <3>4, <3>5
      <3> QED BY <3>3, <3>4, <3>6, <3>7
    <2> HIDE DEF heads, tails
    <2>4. rest \in Locals /\ rest.pc = "commit" /\ rest.headers = heads /\ rest.logs = tails
      BY <1>1, <2>3 DEF Locals
    <2>5. heads # <<>>
      BY <1>3, <2>4
    <2> HIDE DEF rest, len
    <2>6. \A i \in 1 .. len - n : n + i \in 1 .. len
      BY <2>1, <2>2
    <2>7. Joined(heads)
      <3> SUFFICES ASSUME NEW i \in 1 .. Len(heads) - 1 PROVE Parent[heads[i + 1]] = heads[i]
        BY DEF Joined
      <3>1. i \in 1 .. len - n /\ i + 1 \in 1 .. len - n /\ n + i \in 1 .. len - 1 /\ n + (i + 1) = (n + i) + 1
        BY <2>1, <2>2, <2>3
      <3>2. Len(o.headers) - 1 = len - 1
        BY DEF len
      <3>3. Parent[o.headers[(n + i) + 1]] = o.headers[n + i]
        BY <2>2, <3>1, <3>2 DEF Joined
      <3> QED BY <2>3, <3>1, <3>3
    <2>8. ASSUME NEW i \in 1 .. Len(heads)
          PROVE  Logged(w, rest, i) /\ (Return \/ heads[i] \in Ancestors[tip] \cup gone)
      <3>1. i \in 1 .. len - n /\ n + i \in 1 .. len
        BY <2>3, <2>6
      <3>2. Logged(w, o, n + i) /\ (Return \/ o.headers[n + i] \in Ancestors[tip] \cup gone)
        BY <2>2, <3>1
      <3>3. heads[i] = o.headers[n + i] /\ tails[i] = o.logs[n + i]
        BY <2>3, <3>1
      <3> QED BY <1>1, <2>4, <3>2, <3>3 DEF Logged
    <2>9. LocalsOK(w, rest)
      BY <2>2, <2>3, <2>4, <2>5, <2>7, <2>8 DEF LocalsOK
    <2> QED BY <2>1, <2>9
  <1> QED BY <1>2, <1>3

\* What a worker commits from.
LEMMA ToCommit ==
  ASSUME IndexInv, NEW w \in Workers, At(w, "commit")
  PROVE  LET s == work[w].headers
             logs == work[w].logs
             d == setting.serves[w]
         IN /\ s \in Seq(Blocks) /\ Joined(s) /\ Len(s) \in Nat /\ 1 \in 1 .. Len(s)
            /\ logs \in Seq(SUBSET Emitters) /\ Len(logs) = Len(s) /\ legacy[d] = {}
            /\ \A i \in 1 .. Len(s) : s[i] \in Blocks /\ logs[i] \in {{}, Scoped(d, s[i])}
                                      /\ (AskedSafely => logs[i] = Scoped(d, s[i]))
  <1> DEFINE o == work[w]
  <1>1. o \in Locals /\ LocalsOK(w, o) /\ o.pc = "commit"
    BY Held DEF At
  <1> HIDE DEF o
  <1>2. o.headers \in Seq(Blocks) /\ o.headers # <<>> /\ Joined(o.headers)
        /\ o.logs \in Seq(SUBSET Emitters) /\ Len(o.logs) = Len(o.headers)
        /\ legacy[setting.serves[w]] = {} /\ (\A i \in 1 .. Len(o.headers) : Logged(w, o, i))
    BY <1>1 DEF LocalsOK, Locals
  <1>3. Len(o.headers) \in Nat /\ 1 \in 1 .. Len(o.headers) /\ (\A i \in 1 .. Len(o.headers) : o.headers[i] \in Blocks)
    BY <1>2
  <1>4. \A i \in 1 .. Len(o.headers) :
          /\ o.logs[i] \in {{}, Scoped(setting.serves[w], o.headers[i])}
          /\ AskedSafely => o.logs[i] = Scoped(setting.serves[w], o.headers[i])
    BY <1>1, <1>2 DEF Logged, AskedSafely
  <1> QED BY <1>2, <1>3, <1>4 DEF o

\* The empty batch is a prefix of what the worker holds.
LEMMA BatchIs ==
  ASSUME IndexInv, NEW w \in Workers, At(w, "commit"), work[w].logs[1] = {}
  PROVE  \E n \in 1 .. Len(work[w].headers) :
           /\ Batch(w) = SubSeq(work[w].headers, 1, n)
           /\ Len(Batch(w)) = n
           /\ \A i \in 1 .. n : Batch(w)[i] = work[w].headers[i] /\ work[w].logs[i] = {}
  <1> DEFINE s == work[w].headers
             logs == work[w].logs
             run == {n \in DOMAIN logs : \A i \in 1 .. n : logs[i] = {}}
             n == CHOOSE k \in run : \A j \in run : j <= k
  <1>1. s \in Seq(Blocks) /\ Len(s) \in Nat /\ 1 \in 1 .. Len(s) /\ DOMAIN logs = 1 .. Len(s)
        /\ logs[1] = {} /\ (\A i \in 1 .. Len(s) : s[i] \in Blocks)
    BY ToCommit
  <1>2. Batch(w) = SubSeq(s, 1, IF run = {} THEN 1 ELSE n)
    BY DEF Batch
  <1> HIDE DEF s, logs
  <1>3. 1 \in run
    <2>1. \A i \in 1 .. 1 : i = 1
      OBVIOUS
    <2> QED BY <1>1, <2>1
  <1>4. run \in SUBSET Nat /\ \A k \in run : k <= Len(s)
    BY <1>1
  <1>5. n \in run
    <2>1. \E k \in run : \A j \in run : j <= k
      <3> HIDE DEF run
      <3> QED BY <1>1, <1>3, <1>4, Greatest
    <2> HIDE DEF run
    <2> QED BY <2>1
  <1>6. n \in 1 .. Len(s) /\ \A i \in 1 .. n : logs[i] = {}
    BY <1>1, <1>5
  <1>7. Batch(w) = SubSeq(s, 1, n)
    BY <1>2, <1>3
  <1> HIDE DEF n, run
  <1>8. Len(SubSeq(s, 1, n)) = n /\ \A i \in 1 .. n : SubSeq(s, 1, n)[i] = s[i]
    BY <1>1, <1>6
  <1> QED BY <1>6, <1>7, <1>8 DEF s, logs

LEMMA CommitEmptyKept ==
  ASSUME IndexInv, NEW w \in Workers, CommitEmpty(w)
  PROVE  IndexInv'
  <1> DEFINE s == work[w].headers
             new == Batch(w)
             first == new[1]
             last == new[Len(new)]
             batch == {new[i] : i \in 1 .. Len(new)}
  <1>1. PICK d \in Deployments : d = setting.serves[w]
    BY Held
  <1>2. UNCHANGED chain /\ At(w, "commit") /\ work[w].logs[1] = {}
    BY DEF CommitEmpty
  <1>3. CASE EndAttempt(w) /\ UNCHANGED db
    BY <1>2, <1>3, Ended
  <1>4. PICK n \in 1 .. Len(s) :
          /\ new = SubSeq(s, 1, n) /\ Len(new) = n
          /\ \A i \in 1 .. n : new[i] = s[i] /\ work[w].logs[i] = {}
    BY <1>2, BatchIs
  <1>5. \E l : LocalsOK(w, l) /\ work' = [work EXCEPT ![w] = l]
    <2>1. CASE Proceed(w, Len(new))
      BY <1>2, <1>4, <2>1, ProceedOK
    <2>2. CASE ~Proceed(w, Len(new))
      BY <2>2, RestOK DEF CommitEmpty, EndAttempt, Set
    <2> QED BY <2>1, <2>2
  <1>6. PICK l : LocalsOK(w, l) /\ work' = [work EXCEPT ![w] = l]
    BY <1>5
  <1>7. CASE UNCHANGED db
    BY <1>2, <1>6, <1>7, LocalKept
  <1>8. CASE /\ Adjacent(first, last, batch) /\ Continues(d, first, batch)
             /\ Store(d, batch, last) /\ UNCHANGED <<events, snapshots>>
    <2>1. /\ s \in Seq(Blocks) /\ Joined(s) /\ legacy[d] = {}
          /\ AskedSafely => \A i \in 1 .. Len(s) : work[w].logs[i] = Scoped(d, s[i])
      BY <1>1, <1>2, ToCommit
    <2>2. first = s[1] /\ last = s[n] /\ batch = {s[i] : i \in 1 .. n} /\ n \in 1 .. Len(s)
      BY <1>4
    <2>3. Batched(first, last, batch)
      <3> HIDE DEF first, last, batch, s
      <3> QED BY <2>1, <2>2, RunIsBatch
    <2>4. AskedSafely => \A c \in batch : Scoped(d, c) = {}
      BY <1>4, <2>1, <2>2
    <2> HIDE DEF first, last, batch, s, new
    <2>5. DbOK /\ ChainInv /\ LegacyInv /\ EventsInv /\ HistoryInv
      BY DEF IndexInv
    <2>6. /\ ChainInv' /\ LegacyInv'
          /\ stored' = stored \cup batch /\ stored' \subseteq Blocks /\ cursor' \in OrNone(Blocks)
          /\ coverage' \in [Deployments -> SUBSET Blocks] /\ dcursor' \in [Deployments -> OrNone(Blocks)]
          /\ coverage'[d] = coverage[d] \cup batch
          /\ \A x \in Deployments : x # d => coverage'[x] = coverage[x]
          /\ legacy' = legacy /\ batch \cap coverage[d] = {}
      BY <1>8, <2>1, <2>3, <2>5, StoreRows
    <2>7. events' = events /\ snapshots' = snapshots
      BY <1>8
    <2>8. DbOK' /\ EventsInv'
      BY <2>5, <2>6, <2>7 DEF DbOK, EventsInv
    <2>9. HistoryInv'
      <3> SUFFICES ASSUME AskedSafely
                   PROVE  CoveredComplete' /\ \A x \in Deployments : snapshots'[x] = Visible(x)'
        BY DEF HistoryInv, AskedSafely
      <3>1. CoveredComplete /\ (\A x \in Deployments : snapshots[x] = Visible(x))
            /\ (\A c \in batch : Scoped(d, c) = {})
        BY <2>4, <2>5 DEF HistoryInv
      <3>2. CoveredComplete'
        BY <2>6, <2>7, <3>1 DEF CoveredComplete
      <3>3. ASSUME NEW x \in Deployments, x # d PROVE snapshots'[x] = Visible(x)'
        BY <2>6, <2>7, <3>1, <3>3 DEF Visible
      <3>4. snapshots'[d] = Visible(d)'
        <4>1. \A c \in batch : Decoded[d][c] = {}
          BY <2>3, <3>1, DecodedIs DEF Batched
        <4>2. \A p : p \in Visible(d)' <=> p \in Visible(d)
          BY <2>6, <2>7, <4>1 DEF Visible
        <4>3. Visible(d)' = Visible(d)
          BY <4>2
        <4> QED BY <2>7, <3>1, <4>3
      <3> QED BY <3>2, <3>3, <3>4
    <2>10. \A x \in Deployments : legacy'[x] \subseteq legacy[x]
      BY <2>6
    <2> QED BY <1>2, <1>6, <2>6, <2>8, <2>9, <2>10, StepKept
  <1> QED BY <1>1, <1>3, <1>7, <1>8 DEF CommitEmpty

LEMMA CommitBlockKept ==
  ASSUME IndexInv, NEW w \in Workers, CommitBlock(w)
  PROVE  IndexInv'
  <1> DEFINE s == work[w].headers
             block == s[1]
             logs == work[w].logs[1]
  <1>1. PICK d \in Deployments : d = setting.serves[w]
    BY Held
  <1>2. UNCHANGED chain /\ At(w, "commit") /\ logs # {}
    BY DEF CommitBlock
  <1>3. CASE EndAttempt(w) /\ UNCHANGED db
    BY <1>2, <1>3, Ended
  <1>4. /\ s \in Seq(Blocks) /\ Joined(s) /\ 1 \in 1 .. Len(s) /\ block \in Blocks
        /\ legacy[d] = {} /\ logs \in {{}, Scoped(d, block)}
    BY <1>1, <1>2, ToCommit
  <1>5. \E l : LocalsOK(w, l) /\ work' = [work EXCEPT ![w] = l]
    <2>1. CASE Proceed(w, 1)
      BY <1>2, <1>4, <2>1, ProceedOK
    <2>2. CASE ~Proceed(w, 1)
      BY <2>2, RestOK DEF CommitBlock, EndAttempt, Set
    <2> QED BY <2>1, <2>2
  <1>6. PICK l : LocalsOK(w, l) /\ work' = [work EXCEPT ![w] = l]
    BY <1>5
  <1>7. CASE UNCHANGED db
    BY <1>2, <1>6, <1>7, LocalKept
  <1>8. CASE /\ Continues(d, block, {block}) /\ Adjacent(block, block, {block})
             /\ Store(d, {block}, block)
             /\ events' = events \cup {<<block, e>> : e \in logs}
             /\ snapshots' = [snapshots EXCEPT ![d] = @ \cup Rows(d, block, logs)]
    <2>1. Batched(block, block, {block})
      <3>1. {s[i] : i \in 1 .. 1} = {s[1]}
        OBVIOUS
      <3> HIDE DEF s
      <3> QED BY <1>4, <3>1, RunIsBatch
    <2>2. logs = Scoped(d, block)
      BY <1>2, <1>4
    <2> HIDE DEF block, s, logs
    <2>3. DbOK /\ ChainInv /\ LegacyInv /\ EventsInv /\ HistoryInv
      BY DEF IndexInv
    <2>4. /\ ChainInv' /\ LegacyInv'
          /\ stored' = stored \cup {block} /\ stored' \subseteq Blocks /\ cursor' \in OrNone(Blocks)
          /\ coverage' \in [Deployments -> SUBSET Blocks] /\ dcursor' \in [Deployments -> OrNone(Blocks)]
          /\ coverage'[d] = coverage[d] \cup {block}
          /\ \A x \in Deployments : x # d => coverage'[x] = coverage[x]
          /\ legacy' = legacy /\ {block} \cap coverage[d] = {}
      BY <1>4, <1>8, <2>1, <2>3, StoreRows
    <2>5. /\ logs \subseteq Emitters /\ logs \subseteq LogsOf[block]
          /\ Decoded[d][block] \subseteq logs
      BY <1>4, <2>2, DecodedIs
    <2>6. Rows(d, block, logs) = {<<block, e>> : e \in Decoded[d][block]}
      BY <2>5 DEF Rows
    <2>7. /\ snapshots'[d] = snapshots[d] \cup Rows(d, block, logs)
          /\ \A x \in Deployments : x # d => snapshots'[x] = snapshots[x]
      BY <1>8, <2>3 DEF DbOK
    <2>8. DbOK'
      <3>1. events' \subseteq Blocks \X Emitters
        BY <1>4, <1>8, <2>3, <2>5 DEF DbOK
      <3>2. Rows(d, block, logs) \subseteq Blocks \X Emitters
        BY <1>4, <2>5, <2>6
      <3>3. snapshots' \in [Deployments -> SUBSET (Blocks \X Emitters)]
        <4> HIDE DEF Rows
        <4> QED BY <1>8, <2>3, <3>2 DEF DbOK
      <3> QED BY <2>3, <2>4, <3>1, <3>3 DEF DbOK
    <2>9. EventsInv'
      BY <1>8, <2>3, <2>4, <2>5 DEF EventsInv
    <2>10. HistoryInv'
      <3> SUFFICES ASSUME AskedSafely
                   PROVE  CoveredComplete' /\ \A x \in Deployments : snapshots'[x] = Visible(x)'
        BY DEF HistoryInv, AskedSafely
      <3>1. CoveredComplete /\ \A x \in Deployments : snapshots[x] = Visible(x)
        BY <2>3 DEF HistoryInv
      <3>2. CoveredComplete'
        <4> SUFFICES ASSUME NEW x \in Deployments, NEW b \in coverage'[x], NEW e \in Scoped(x, b)
                     PROVE  <<b, e>> \in events'
          BY DEF CoveredComplete, Scoped
        <4>1. CASE b \in coverage[x]
          BY <1>8, <3>1, <4>1 DEF CoveredComplete
        <4>2. CASE b \notin coverage[x]
          <5>1. x = d /\ b = block
            BY <2>4, <4>2
          <5> QED BY <1>8, <2>2, <5>1
        <4> QED BY <4>1, <4>2
      <3>3. ASSUME NEW x \in Deployments, x # d PROVE snapshots'[x] = Visible(x)'
        <4>1. coverage'[x] = coverage[x] /\ legacy'[x] = legacy[x] /\ snapshots'[x] = snapshots[x]
              /\ coverage[x] \subseteq Blocks
          BY <2>3, <2>4, <2>7, <3>3 DEF DbOK
        <4>2. ASSUME NEW e \in logs, block \in coverage[x], e \in Decoded[x][block]
              PROVE  <<block, e>> \in events
          <5>1. e \in Scoped(x, block)
            BY <1>4, <4>2, DecodedIs
          <5> QED BY <3>1, <4>2, <5>1 DEF CoveredComplete
        <4>3. \A p : p \in Visible(x)' <=> p \in Visible(x)
          BY <1>8, <4>1, <4>2 DEF Visible
        <4> QED BY <3>1, <4>1, <4>3
      <3>4. snapshots'[d] = Visible(d)'
        <4>1. \A p : p \in Visible(d) <=> p \in events /\ p[1] \in coverage[d] /\ p[2] \in Decoded[d][p[1]]
          BY <1>4 DEF Visible
        <4>2. \A p : p \in Visible(d)' <=>
                       p \in events' /\ p[1] \in coverage[d] \cup {block} /\ p[2] \in Decoded[d][p[1]]
          BY <1>4, <2>4 DEF Visible
        <4>3. ASSUME NEW p \in Visible(d)' PROVE p \in Visible(d) \cup Rows(d, block, logs)
          <5>1. CASE p[1] = block
            <6>1. p = <<p[1], p[2]>>
              BY <2>8, <4>2 DEF DbOK
            <6> QED BY <2>6, <4>2, <5>1, <6>1
          <5>2. CASE p[1] # block
            BY <1>8, <4>1, <4>2, <5>2
          <5> QED BY <5>1, <5>2
        <4>4. ASSUME NEW e \in Decoded[d][block] PROVE <<block, e>> \in Visible(d)'
          BY <1>8, <2>5, <4>2
        <4>5. Visible(d) \subseteq Visible(d)'
          BY <1>8, <4>1, <4>2
        <4>6. Visible(d)' = Visible(d) \cup Rows(d, block, logs)
          BY <2>6, <4>3, <4>4, <4>5
        <4> QED BY <2>7, <3>1, <4>6
      <3> QED BY <3>2, <3>3, <3>4
    <2>11. \A x \in Deployments : legacy'[x] \subseteq legacy[x]
      BY <2>4
    <2> QED BY <1>2, <1>6, <2>4, <2>8, <2>9, <2>10, <2>11, StepKept
  <1> QED BY <1>1, <1>3, <1>7, <1>8 DEF CommitBlock

-----------------------------------------------------------------------------
(* The invariant, and what it says of the rows.                            *)

LEMMA InitOK ==
  ASSUME Init
  PROVE  IndexInv
  <1> DEFINE m == MigratedFor
  <1>1. /\ setting \in Settings /\ tip \in setting.from /\ stored \in {{}, Migrated}
        /\ gone = (IF Return THEN {} ELSE stored \ Ancestors[tip]) /\ cursor = Highest(stored)
        /\ events = {p \in stored \X Emitters : p[2] \in Scoped(m, p[1])}
        /\ coverage = [d \in Deployments |-> IF d = m THEN stored ELSE {}]
        /\ legacy = coverage /\ dcursor = [d \in Deployments |-> Highest(coverage[d])]
        /\ work = [w \in Workers |-> Rest]
    BY DEF Init
  <1>2. m \in Deployments /\ stored \subseteq Blocks /\ tip \in Tips /\ StartOf[m] \in Nat
    BY <1>1, ConstantsAssumption
  <1>3. \/ stored = {} /\ cursor = None
        \/ /\ cursor \in stored /\ cursor # None /\ \A b \in stored : Height[b] <= Height[cursor]
           /\ stored = {c \in Ancestors[cursor] : Height[c] >= StartOf[m]}
    <2>1. CASE stored = {}
      BY <1>1, <2>1 DEF Highest
    <2>2. CASE stored # {}
      <3>1. PICK b \in Migrated : Migrated = {c \in Ancestors[b] : Height[c] >= StartOf[m]}
        BY <1>1, <2>2, ConstantsAssumption
      <3>2. stored = Migrated /\ b \in Blocks /\ b # None /\ b \in stored /\ stored \subseteq Ancestors[b]
        BY <1>1, <1>2, <2>2, <3>1, Blocks0
      <3>3. \A c \in stored : Height[c] <= Height[b] /\ (Height[c] = Height[b] => c = b)
        BY <3>2, Blocks0, Tree
      <3>4. cursor = b
        BY <1>1, <1>2, <3>2, <3>3, TopIs
      <3> QED BY <3>1, <3>2, <3>3, <3>4
    <2> QED BY <2>1, <2>2
  <1>4. /\ coverage[m] = stored /\ \A d \in Deployments : d # m => coverage[d] = {}
        /\ dcursor[m] = cursor /\ \A d \in Deployments : d # m => dcursor[d] = None
    BY <1>1, <1>2 DEF Highest
  <1>5. /\ coverage \in [Deployments -> SUBSET Blocks] /\ dcursor \in [Deployments -> OrNone(Blocks)]
        /\ cursor \in OrNone(Blocks)
    <2>1. cursor \in OrNone(Blocks)
      BY <1>2, <1>3 DEF OrNone
    <2>2. \A d \in Deployments : dcursor[d] \in OrNone(Blocks)
      BY <1>4, <2>1 DEF OrNone
    <2> QED BY <1>1, <1>2, <2>1, <2>2
  <1>6. ASSUME NEW d \in Deployments
        PROVE  /\ snapshots[d] \subseteq Blocks \X Emitters
               /\ snapshots[d] = Visible(d)
    <2> DEFINE rows(b) == {r \in Rows(d, b, Emitters) : EventOf[b][r[2]] # "OrbitalSwapExecuted"}
    <2>1. snapshots[d] = UNION {rows(b) : b \in coverage[d]}
      BY DEF Init
    <2>2. \A b \in Blocks : Rows(d, b, Emitters) = {<<b, e>> : e \in Decoded[d][b]}
      BY DecodedIs DEF Rows
    <2>3. ASSUME NEW p PROVE p \in snapshots[d] <=> p \in Visible(d)
      <3>1. CASE d # m
        <4>1. coverage[d] = {}
          BY <1>4, <3>1
        <4> QED BY <2>1, <4>1 DEF Visible
      <3>2. CASE d = m
        <4>1. ASSUME p \in snapshots[d] PROVE p \in Visible(d)
          <5>1. PICK b \in stored : p \in rows(b)
            BY <1>4, <2>1, <3>2, <4>1
          <5>2. PICK e \in Decoded[d][b] : p = <<b, e>>
            BY <1>2, <2>2, <5>1
          <5>3. EventOf[b][e] # "OrbitalSwapExecuted"
            BY <5>1, <5>2
          <5>4. e \in Emitters /\ e \in Scoped(m, b)
            BY <1>2, <3>2, <5>2, DecodedIs
          <5> QED BY <1>1, <1>4, <3>2, <5>2, <5>3, <5>4 DEF Visible
        <4>2. ASSUME p \in Visible(d) PROVE p \in snapshots[d]
          <5>1. /\ p = <<p[1], p[2]>> /\ p[1] \in stored /\ p[2] \in Decoded[d][p[1]]
                /\ EventOf[p[1]][p[2]] # "OrbitalSwapExecuted"
            BY <1>1, <1>4, <3>2, <4>2 DEF Visible
          <5>2. p \in Rows(d, p[1], Emitters)
            BY <1>2, <2>2, <5>1
          <5>3. p \in rows(p[1])
            BY <5>1, <5>2
          <5> QED BY <1>4, <2>1, <3>2, <5>1, <5>3
        <4> QED BY <4>1, <4>2
      <3> QED BY <3>1, <3>2
    <2>4. Visible(d) \subseteq Blocks \X Emitters
      BY <1>1, <1>2 DEF Visible
    <2> QED BY <2>3, <2>4
  <1>7. DbOK
    <2>1. events \subseteq Blocks \X Emitters
      BY <1>1, <1>2
    <2>2. snapshots \in [Deployments -> SUBSET (Blocks \X Emitters)]
      <3>1. snapshots = [d \in Deployments |-> snapshots[d]]
        BY DEF Init
      <3> QED BY <1>6, <3>1
    <2> QED BY <1>1, <1>2, <1>5, <2>1, <2>2 DEF DbOK
  <1>8. TipOK
    BY <1>1, <1>2, ConstantsAssumption DEF TipOK
  <1>9. WorkOK
    <2>1. \A w \in Workers : LocalsOK(w, Rest) /\ work[w] = Rest
      BY <1>1, RestOK
    <2> QED BY <1>1, <2>1 DEF WorkOK, LocalsOK
  <1>10. ChainInv
    <2>1. CoveredChain
      BY <1>2, <1>3, <1>4 DEF CoveredChain, From
    <2>2. stored = UNION {coverage[d] : d \in Deployments}
      <3>1. \A b : b \in stored <=> \E d \in Deployments : b \in coverage[d]
        BY <1>2, <1>4
      <3> QED BY <3>1
    <2>3. OneChain
      <3>1. CASE stored = {}
        BY <3>1 DEF OneChain
      <3>2. CASE stored # {}
        <4>1. cursor \in Blocks /\ stored \subseteq Ancestors[cursor]
          BY <1>2, <1>3, <3>2
        <4> QED BY <4>1, Tree DEF OneChain
      <3> QED BY <3>1, <3>2
    <2>4. CursorOnTop
      BY <1>3 DEF CursorOnTop
    <2> QED BY <2>1, <2>2, <2>3, <2>4 DEF ChainInv
  <1>11. LegacyInv
    BY <1>1 DEF LegacyInv
  <1>12. EventsInv
    BY <1>1 DEF EventsInv, Scoped
  <1>13. HistoryInv
    <2>1. CoveredComplete
      <3> SUFFICES ASSUME NEW d \in Deployments, NEW b \in coverage[d], NEW e \in Scoped(d, b)
                   PROVE  <<b, e>> \in events
        BY DEF CoveredComplete
      <3>1. d = m /\ b \in stored
        BY <1>4
      <3>2. e \in Emitters
        BY <1>2, <3>1, DecodedIs
      <3> QED BY <1>1, <3>1, <3>2
    <2> QED BY <1>6, <2>1 DEF HistoryInv
  <1> QED BY <1>7, <1>8, <1>9, <1>10, <1>11, <1>12, <1>13 DEF IndexInv

LEMMA NextKept ==
  ASSUME IndexInv, [Next]_vars
  PROVE  IndexInv'
  <1>1. CASE UNCHANGED vars
    <2>1. UNCHANGED <<chain, stored, cursor, events, snapshots, coverage, legacy, dcursor>> /\ work' = work
      BY <1>1 DEF vars, chain
    <2>2. ASSUME NEW w \in Workers PROVE IndexInv'
      <3>1. work \in [Workers -> Locals] /\ LocalsOK(w, work[w])
        BY Held
      <3>2. PICK l : l = work[w]
        OBVIOUS
      <3>3. work' = [work EXCEPT ![w] = l] /\ LocalsOK(w, l)
        BY <2>1, <3>1, <3>2
      <3> QED BY <2>1, <3>3, RowsKept
    <2>3. CASE Workers = {}
      <3>1. WorkOK'
        BY <2>1, <2>3 DEF IndexInv, WorkOK
      <3>2. setting' = setting /\ tip' = tip /\ gone' = gone
        BY <1>1 DEF vars
      <3>3. (DbOK /\ TipOK /\ ChainInv /\ LegacyInv /\ EventsInv)'
        BY <2>1, <3>2 DEF IndexInv, DbOK, TipOK, ChainInv, CoveredChain, OneChain, CursorOnTop, LegacyInv, EventsInv
      <3>4. HistoryInv'
        BY <2>1 DEF IndexInv, HistoryInv, Visible, CoveredComplete
      <3> QED BY <3>1, <3>3, <3>4 DEF IndexInv
    <2> QED BY <2>2, <2>3
  <1>2. ASSUME NEW w \in Workers, Step(w) PROVE IndexInv'
    BY <1>2, SnapshotKept, ReadCursorKept, ReadHeadKept, ScanKept, RecheckTopKept, ReconcileKept,
       ReadPendingKept, CheckPendingKept, CommitBackfillKept, PlanKept, ReadHeaderKept, ReadLogsKept,
       HydrateKept, CheckTipKept, CommitEmptyKept, CommitBlockKept DEF Step
  <1> QED BY <1>1, <1>2, FailKept, SwitchKept DEF Next

\* The rows, what every worker holds and the chain's history fit together, for
\* any interleaving of workers, reorganisations and failures.
THEOREM IndexCorrect == Spec => []IndexInv
  <1>1. Init => IndexInv
    BY InitOK
  <1>2. IndexInv /\ [Next]_vars => IndexInv'
    BY NextKept
  <1> QED BY <1>1, <1>2, PTL DEF Spec

\* The indexed blocks are one chain, in every deployment from its start to its
\* cursor without a gap: reconcileCanonicalChain and the checks of both commits
\* under the chain's lock keep it so, whatever the provider answers.
THEOREM RowsAreOneChain == Spec => []StoredChain
  <1>1. IndexInv => StoredChain
    <2> SUFFICES ASSUME IndexInv PROVE StoredChain
      OBVIOUS
    <2>1. ChainInv /\ stored \subseteq Blocks
      BY DEF IndexInv, DbOK
    <2>2. cursor = Highest(stored)
      <3>1. CASE cursor = None
        BY <2>1, <3>1 DEF ChainInv, CursorOnTop, Highest
      <3>2. CASE cursor # None
        <4>1. cursor \in stored /\ (\A b \in stored : Height[b] <= Height[cursor])
              /\ (\A b \in stored : Height[b] = Height[cursor] => b = cursor)
          BY <2>1, <3>2 DEF ChainInv, CursorOnTop, OneChain
        <4> QED BY <2>1, <4>1, TopIs
      <3> QED BY <3>1, <3>2
    <2> QED BY <2>1, <2>2 DEF StoredChain, ChainInv, CoveredChain, OneChain
  <1> QED BY <1>1, IndexCorrect, PTL

\* What is read as the history of strategies and invoices is all of it, through
\* rollbacks, backfills and another deployment's writes, as long as the chain
\* does not return to a branch it has left while logs are fetched by number.
THEOREM HistoryIsComplete == Spec => [](AskedSafely => HistoryComplete)
  <1>1. IndexInv => (AskedSafely => HistoryComplete)
    BY DEF IndexInv, HistoryInv, LegacyInv, HistoryComplete, Visible
  <1> QED BY <1>1, IndexCorrect, PTL

-----------------------------------------------------------------------------
(* LogFollower is implemented: what readers find follows from the rows, and *)
(* a deployment's rows only grow or shrink.                                *)

LEMMA ViewIs ==
  ASSUME NEW d \in Deployments, NEW b \in OrNone(Blocks), NEW evs \in SUBSET (Blocks \X Emitters),
         NEW covered, covered = From(d, b),
         \A p \in evs : p[2] \in LogsOf[p[1]],
         \A c \in covered : \A e \in Scoped(d, c) : <<c, e>> \in evs
  PROVE  {p \in evs : p[1] \in covered /\ p[2] \in EmittersOf[d]} = Follower!UpTo(d, b)
  <1> DEFINE view == {p \in evs : p[1] \in covered /\ p[2] \in EmittersOf[d]}
             below == UNION {{<<c, l>> : l \in LogsFromStart[d][c]} : c \in Ancestors[b]}
  <1>1. CASE b = None
    <2>1. covered = {}
      BY <1>1 DEF From
    <2> QED BY <1>1, <2>1 DEF Follower!UpTo
  <1>2. CASE b # None
    <2>1. b \in Blocks /\ Ancestors[b] \subseteq Blocks /\ covered = {c \in Ancestors[b] : Height[c] >= StartOf[d]}
          /\ StartOf[d] \in Nat
      BY <1>2, Blocks0, ConstantsAssumption DEF OrNone, From
    <2>2. \A c \in Ancestors[b] :
            LogsFromStart[d][c] = IF c \in covered THEN Scoped(d, c) ELSE {}
      <3> SUFFICES ASSUME NEW c \in Ancestors[b]
                   PROVE  LogsFromStart[d][c] = IF c \in covered THEN Scoped(d, c) ELSE {}
        OBVIOUS
      <3>1. Height[c] \in Nat /\ c \in Blocks
        BY <2>1, Blocks0
      <3>2. Height[c] < StartOf[d] <=> ~(Height[c] >= StartOf[d])
        BY <2>1, <3>1
      <3> QED BY <2>1, <3>1, <3>2 DEF LogsFromStart
    <2>3. ASSUME NEW p \in view PROVE p \in below
      <3>1. p = <<p[1], p[2]>> /\ p[1] \in Ancestors[b] /\ p[1] \in covered
        BY <2>1
      <3>2. p[2] \in LogsOf[p[1]] /\ p[2] \in EmittersOf[d]
        OBVIOUS
      <3>3. p[2] \in LogsFromStart[d][p[1]]
        <4>1. LogsFromStart[d][p[1]] = Scoped(d, p[1])
          BY <2>2, <3>1
        <4>2. p[2] \in Scoped(d, p[1])
          BY <3>2 DEF Scoped
        <4> QED BY <4>1, <4>2
      <3>4. p \in {<<p[1], l>> : l \in LogsFromStart[d][p[1]]}
        BY <3>1, <3>3
      <3> QED BY <3>1, <3>4
    <2>4. ASSUME NEW p \in below PROVE p \in view
      <3>1. PICK c \in Ancestors[b] : \E l \in LogsFromStart[d][c] : p = <<c, l>>
        OBVIOUS
      <3>2. PICK l \in LogsFromStart[d][c] : p = <<c, l>>
        BY <3>1
      <3>3. c \in covered /\ l \in Scoped(d, c)
        BY <2>2, <3>2
      <3> QED BY <3>2, <3>3 DEF Scoped
    <2>5. Follower!UpTo(d, b) = below
      BY <1>2 DEF Follower!UpTo
    <2> HIDE DEF view, below
    <2>6. view = below
      BY <2>3, <2>4
    <2> QED BY <2>5, <2>6 DEF view
  <1> QED BY <1>1, <1>2

Grow == \A d \in Deployments : coverage[d] \subseteq coverage'[d]
Shrink == \A d \in Deployments : coverage'[d] \subseteq coverage[d]

LEMMA RowsGrowOrShrink ==
  ASSUME IndexInv, [Next]_vars
  PROVE  Grow \/ Shrink
  <1>1. CASE coverage' = coverage
    BY <1>1 DEF Grow
  <1>2. ASSUME NEW w \in Workers, Reconcile(w) PROVE Grow \/ Shrink
    <2>1. \/ coverage' = coverage
          \/ RollbackTo(Highest(Window(stored) \cap work[w].seen))
      BY <1>2 DEF Reconcile, db
    <2>2. ASSUME NEW anc, RollbackTo(anc) PROVE Shrink
      BY <2>2 DEF RollbackTo, Shrink
    <2> QED BY <1>1, <2>1, <2>2
  <1>3. ASSUME NEW d \in Deployments, NEW batch, coverage' = [coverage EXCEPT ![d] = @ \cup batch]
        PROVE  Grow
    BY <1>3 DEF Grow, IndexInv, DbOK
  <1>4. ASSUME NEW w \in Workers, CommitEmpty(w) PROVE Grow
    <2> DEFINE d == setting.serves[w]
               new == Batch(w)
               batch == {new[i] : i \in 1 .. Len(new)}
    <2>1. \/ coverage' = coverage
          \/ coverage' = [coverage EXCEPT ![d] = @ \cup batch]
      BY <1>4 DEF CommitEmpty, Store, db
    <2>2. d \in Deployments
      BY Held
    <2> HIDE DEF d, batch
    <2> QED BY <1>3, <2>1, <2>2 DEF Grow
  <1>5. ASSUME NEW w \in Workers, CommitBlock(w) PROVE Grow
    <2> DEFINE d == setting.serves[w]
               batch == {work[w].headers[1]}
    <2>1. \/ coverage' = coverage
          \/ coverage' = [coverage EXCEPT ![d] = @ \cup batch]
      BY <1>5 DEF CommitBlock, Store, db
    <2>2. d \in Deployments
      BY Held
    <2> HIDE DEF d, batch
    <2> QED BY <1>3, <2>1, <2>2 DEF Grow
  <1>6. ASSUME NEW w \in Workers, Step(w) PROVE Reconcile(w) \/ CommitEmpty(w) \/ CommitBlock(w) \/ coverage' = coverage
    BY <1>6 DEF Step, Snapshot, ReadCursor, ReadHead, Scan, RecheckTop, ReadPending, CheckPending,
                CommitBackfill, Plan, ReadHeader, ReadLogs, Hydrate, CheckTip, db
  <1>7. ASSUME NEW w \in Workers, Fail(w) PROVE coverage' = coverage
    BY <1>7 DEF Fail, db
  <1>8. ASSUME NEW b \in Tips, Switch(b) PROVE coverage' = coverage
    BY <1>8 DEF Switch, db
  <1>9. CASE UNCHANGED vars
    BY <1>1, <1>9 DEF vars
  <1> QED BY <1>1, <1>2, <1>4, <1>5, <1>6, <1>7, <1>8, <1>9 DEF Next

LEMMA FollowerStep ==
  ASSUME IndexInv, IndexInv', [Next]_vars, AskedSafely
  PROVE  Follower!Next
  <1>1. ASSUME NEW d \in Deployments
        PROVE  Follower!Extend(d) \/ Follower!Rewind(d) \/ dcursor'[d] = dcursor[d]
    <2>1. /\ dcursor[d] = None => coverage[d] = {}
          /\ dcursor[d] # None => dcursor[d] \in Blocks /\ dcursor[d] \in coverage[d]
                                  /\ coverage[d] \subseteq Ancestors[dcursor[d]]
      BY CoverageFacts DEF IndexInv
    <2>2. dcursor'[d] \in OrNone(Blocks) /\ coverage'[d] = From(d, dcursor'[d])
          /\ (dcursor'[d] # None => dcursor'[d] \in coverage'[d])
      BY DEF IndexInv, DbOK, ChainInv, CoveredChain, From
    <2>3. /\ dcursor'[d] = None => coverage'[d] = {}
          /\ dcursor'[d] # None => dcursor'[d] \in Blocks /\ coverage'[d] \subseteq Ancestors[dcursor'[d]]
      BY <2>2 DEF From, OrNone
    <2>4. CASE coverage[d] \subseteq coverage'[d]
      BY <2>1, <2>2, <2>3, <2>4 DEF Follower!Extend
    <2>5. CASE coverage'[d] \subseteq coverage[d]
      BY <2>1, <2>2, <2>3, <2>5 DEF Follower!Rewind
    <2> QED BY <2>4, <2>5, RowsGrowOrShrink DEF Grow, Shrink
  <1>2. ASSUME NEW d \in Deployments
        PROVE  {p \in events' : p[1] \in coverage'[d] /\ p[2] \in EmittersOf[d]} = Follower!UpTo(d, dcursor'[d])
    <2>1. /\ dcursor'[d] \in OrNone(Blocks) /\ events' \in SUBSET (Blocks \X Emitters)
          /\ coverage'[d] = From(d, dcursor'[d])
      BY DEF IndexInv, DbOK, ChainInv, CoveredChain, From
    <2>2. \A p \in events' : p[2] \in LogsOf[p[1]]
      BY DEF IndexInv, EventsInv
    <2>3. \A c \in coverage'[d] : \A e \in Scoped(d, c) : <<c, e>> \in events'
      BY DEF IndexInv, HistoryInv, CoveredComplete, AskedSafely, Scoped
    <2> QED BY <2>1, <2>2, <2>3, ViewIs
  <1> QED BY <1>1, <1>2 DEF Follower!Next

\* Readers of a deployment see all logs of its contracts up to one block and no
\* others; every step of every worker extends or rewinds that block's chain or
\* leaves it (materializer.ts, reorg.ts and the transactions of packages/db).
THEOREM FollowerImplemented ==
  ASSUME AskedSafely
  PROVE  Spec => ImplementsFollower
  <1>1. Init => Follower!Init
    <2> SUFFICES ASSUME Init PROVE Follower!Init
      OBVIOUS
    <2>1. IndexInv
      BY InitOK
    <2>2. dcursor \in [Deployments -> Blocks \cup {None}]
      BY <2>1 DEF IndexInv, DbOK, OrNone
    <2>3. ASSUME NEW d \in Deployments
          PROVE  {p \in events : p[1] \in coverage[d] /\ p[2] \in EmittersOf[d]} = Follower!UpTo(d, dcursor[d])
      <3>1. /\ dcursor[d] \in OrNone(Blocks) /\ events \in SUBSET (Blocks \X Emitters)
            /\ coverage[d] = From(d, dcursor[d])
        BY <2>1 DEF IndexInv, DbOK, ChainInv, CoveredChain
      <3>2. \A p \in events : p[2] \in LogsOf[p[1]]
        BY <2>1 DEF IndexInv, EventsInv
      <3>3. \A c \in coverage[d] : \A e \in Scoped(d, c) : <<c, e>> \in events
        BY <2>1 DEF IndexInv, HistoryInv, CoveredComplete
      <3> QED BY <3>1, <3>2, <3>3, ViewIs
    <2> QED BY <2>2, <2>3 DEF Follower!Init
  <1>2. IndexInv /\ IndexInv' /\ [Next]_vars => Follower!Next
    BY FollowerStep
  <1> QED BY <1>1, <1>2, IndexCorrect, PTL DEF Spec, ImplementsFollower, Follower!Spec
-----------------------------------------------------------------------------
(* What a scan may conclude.  For chains that do not return to a branch     *)
(* they have left: the headers a worker has seen since it took its snapshot *)
(* tell which stored blocks have been left for good, as long as they reach  *)
(* from the cursor down without a gap.                                      *)

\* The blocks that are or have been canonical.
Known == Ancestors[tip] \cup gone

Heights(S) == {Height[b] : b \in S}

\* Rows at every height from n to the cursor.
Filled(n) == \A m \in n .. Height[cursor] : m \in Heights(stored)

Scanning(l) == l.pc \in {"cursor", "head", "scan", "recheck", "reconcile"} /\ l.cursor # None

\* What is seen and what is left to see reaches from the cursor down to n.
Covers(l, n) == n .. Height[l.cursor] \subseteq Heights(l.left \cup l.seen)

\* The rows have been filled to n, of blocks that were canonical; where another
\* header was seen, the block of the snapshot's chain is gone.
Backed(l, n) ==
  /\ Filled(n)
  /\ \A x \in Ancestors[l.cursor] :
       Height[x] >= n =>
         x \in Known /\ \A s \in l.seen : Height[s] = Height[x] /\ s # x => x \in gone

ScanOK(l) ==
  Scanning(l) =>
    /\ cursor # None
    /\ \A b \in l.left \cup l.seen : Height[b] <= Height[l.cursor]
    /\ l.pc = "scan" => l.left # {}
    /\ l.pc \in {"recheck", "reconcile"} => l.seen # {}
    /\ \A n \in Nat : Covers(l, n) => Backed(l, n)

ScanInv == stored \subseteq Known /\ \A w \in Workers : ScanOK(work[w])

\* Above a filled height the rows are the chain below the cursor.
LEMMA AboveFilled ==
  ASSUME DbOK, ChainInv, cursor # None, NEW n \in Nat, Filled(n)
  PROVE  \A x \in Blocks : Height[x] >= n => (x \in stored <=> x \in Ancestors[cursor])
  <1>1. /\ cursor \in Blocks /\ cursor \in stored /\ stored \subseteq Blocks
        /\ Height[cursor] \in Nat /\ cursor \in Ancestors[cursor]
        /\ \A b \in stored : Height[b] <= Height[cursor]
    BY Blocks0 DEF DbOK, ChainInv, CursorOnTop
  <1>2. \A b, c \in stored :
          /\ Height[b] = Height[c] => b = c
          /\ Height[b] + 1 = Height[c] => Parent[c] = b
    BY DEF ChainInv, OneChain
  <1>3. \A m \in n .. Height[cursor] : \E r \in stored : Height[r] = m
    BY DEF Filled, Heights
  <1>4. ASSUME NEW r0 \in stored, Height[r0] >= n, r0 \notin Ancestors[cursor] PROVE FALSE
    <2> DEFINE bad == {r \in stored : Height[r] >= n /\ r \notin Ancestors[cursor]}
               T == {Height[r] : r \in bad}
    <2>1. T \in SUBSET Nat /\ T # {} /\ \A m \in T : m <= Height[cursor]
      BY <1>1, <1>4, Blocks0
    <2>2. PICK top \in T : \A m \in T : m <= top
      <3> HIDE DEF T
      <3> QED BY <1>1, <2>1, Greatest
    <2>3. PICK r \in bad : top = Height[r]
      OBVIOUS
    <2>4. r \in stored /\ r \in Blocks /\ r # None /\ Height[r] \in Nat /\ Height[r] >= n
          /\ r \notin Ancestors[cursor] /\ Height[r] # Height[cursor] /\ Height[r] <= Height[cursor]
      BY <1>1, <1>2, <2>3, Blocks0
    <2>5. Height[r] + 1 \in n .. Height[cursor]
      BY <1>1, <2>4
    <2>6. PICK q \in stored : Height[q] = Height[r] + 1
      BY <1>3, <2>5
    <2>7. q \in Ancestors[cursor]
      <3> SUFFICES ASSUME q \notin Ancestors[cursor] PROVE FALSE
        OBVIOUS
      <3>1. Height[q] \in T
        BY <2>4, <2>6
      <3>2. Height[q] <= Height[r]
        <4> HIDE DEF T, bad
        <4> QED BY <2>2, <2>3, <3>1
      <3> QED BY <2>4, <2>6, <3>2
    <2>8. Parent[q] = r /\ q \in Blocks
      BY <1>1, <1>2, <2>4, <2>6
    <2>9. r \in Ancestors[q]
      BY <2>4, <2>8, Blocks0
    <2>10. Ancestors[q] \subseteq Ancestors[cursor]
      BY <1>1, <2>7, Tree
    <2> QED BY <2>4, <2>9, <2>10
  <1>5. ASSUME NEW x \in Ancestors[cursor], Height[x] >= n PROVE x \in stored
    <2>1. x \in Blocks /\ Height[x] \in Nat /\ Height[x] <= Height[cursor]
      BY <1>1, Tree, Blocks0
    <2>2. PICK r \in stored : Height[r] = Height[x]
      BY <1>1, <1>3, <1>5, <2>1
    <2>3. r \in Ancestors[cursor]
      BY <1>4, <1>5, <2>2
    <2> QED BY <1>1, <2>2, <2>3, Blocks0
  <1> QED BY <1>4, <1>5

\* The headers of a valid window leave no height out.
LEMMA SeenCovers ==
  ASSUME NEW w \in Workers, work[w] \in Locals, work[w].cursor # None, work[w].seen # {}, ValidWindow(w),
         \A b \in work[w].seen : Height[b] <= Height[work[w].cursor]
  PROVE  /\ Lowest(work[w].seen) \in work[w].seen
         /\ Height[Lowest(work[w].seen)] .. Height[work[w].cursor] \subseteq Heights(work[w].seen)
  <1> DEFINE seen == work[w].seen
             top == Height[work[w].cursor]
             lo == Lowest(seen)
  <1>1. seen \subseteq Blocks /\ work[w].cursor \in Blocks /\ top \in Nat
    BY Blocks0 DEF Locals, OrNone
  <1>2. lo \in seen /\ lo \in Blocks /\ Height[lo] \in Nat
    BY <1>1, BottomExists, Blocks0
  <1>3. Highest(seen) \in seen /\ Height[Highest(seen)] = top
        /\ \A b \in seen \ {lo} : Parent[b] \in seen
    <2>1. Highest(seen) \in seen
      BY <1>1, TopExists
    <2> QED BY <2>1 DEF ValidWindow
  <1> HIDE DEF seen, top, lo
  <1> DEFINE T == {m \in Height[lo] .. top : m \notin Heights(seen)}
  <1>4. SUFFICES ASSUME T # {} PROVE FALSE
    BY <1>2 DEF seen, top, lo
  <1>5. PICK m \in T : \A k \in T : k <= m
    <2>1. T \in SUBSET Nat /\ \A k \in T : k <= top
      BY <1>1, <1>2
    <2> HIDE DEF T
    <2> QED BY <1>1, <1>4, <2>1, Greatest
  <1>6. m # top
    BY <1>3 DEF Heights
  <1>7. m \in Nat /\ m + 1 \in Height[lo] .. top /\ m + 1 \notin T
    <2>1. m \in Nat /\ m >= Height[lo] /\ m < top
      BY <1>1, <1>2, <1>6
    <2>2. m + 1 \notin T
      <3>1. ~(m + 1 <= m)
        BY <2>1
      <3> HIDE DEF T
      <3> QED BY <1>5, <3>1
    <2> QED BY <1>1, <1>2, <2>1, <2>2
  <1>8. PICK s \in seen : Height[s] = m + 1
    BY <1>7 DEF Heights
  <1>9. s # lo
    BY <1>2, <1>5, <1>7, <1>8
  <1>10. Parent[s] \in seen /\ Parent[s] # None /\ Height[s] = Height[Parent[s]] + 1 /\ Height[Parent[s]] \in Nat
    BY <1>1, <1>3, <1>8, <1>9, Blocks0
  <1>11. Height[Parent[s]] = m
    BY <1>7, <1>8, <1>10
  <1> QED BY <1>5, <1>10, <1>11 DEF Heights

\* What a scan has shown outlives what others do to the rows and to the chain.
LEMMA ScanStable ==
  ASSUME NEW l, ScanOK(l), Known \subseteq Known', gone \subseteq gone',
         cursor # None => cursor' # None,
         cursor # None => \A n \in Nat : Filled(n) => Filled(n)'
  PROVE  ScanOK(l)'
  <1> SUFFICES ASSUME Scanning(l)
               PROVE  /\ cursor' # None
                      /\ \A b \in l.left \cup l.seen : Height[b] <= Height[l.cursor]
                      /\ l.pc = "scan" => l.left # {}
                      /\ l.pc \in {"recheck", "reconcile"} => l.seen # {}
                      /\ \A n \in Nat : Covers(l, n) => Backed(l, n)'
    BY DEF ScanOK, Scanning, Covers, Heights
  <1>1. /\ cursor # None
        /\ \A b \in l.left \cup l.seen : Height[b] <= Height[l.cursor]
        /\ l.pc = "scan" => l.left # {}
        /\ l.pc \in {"recheck", "reconcile"} => l.seen # {}
    BY DEF ScanOK
  <1>2. ASSUME NEW n \in Nat, Covers(l, n) PROVE Backed(l, n)'
    <2>1. Backed(l, n)
      BY <1>2 DEF ScanOK
    <2>2. Filled(n)'
      BY <1>1, <2>1 DEF Backed
    <2>3. \A x \in Ancestors[l.cursor] : Height[x] >= n =>
            x \in Known' /\ \A s \in l.seen : Height[s] = Height[x] /\ s # x => x \in gone'
      BY <2>1 DEF Backed
    <2> QED BY <2>2, <2>3 DEF Backed
  <1> QED BY <1>1, <1>2

LEMMA ScanMoves ==
  ASSUME IndexInv, ScanInv, NEW w \in Workers, NEW l, ScanOK(l)', work' = [work EXCEPT ![w] = l],
         stored' \subseteq Known', UNCHANGED chain,
         cursor # None => cursor' # None,
         cursor # None => \A n \in Nat : Filled(n) => Filled(n)'
  PROVE  ScanInv'
  <1>1. Known \subseteq Known' /\ gone \subseteq gone'
    BY DEF chain, Known
  <1>2. ASSUME NEW v \in Workers, v # w PROVE ScanOK(work[v])'
    <2>1. PICK o : o = work[v]
      OBVIOUS
    <2>2. ScanOK(o) /\ work'[v] = o
      BY <1>2, <2>1, Held DEF ScanInv
    <2>3. ScanOK(o)'
      BY <1>1, <2>2, ScanStable
    <2> QED BY <2>2, <2>3
  <1>3. work'[w] = l
    BY Held
  <1> QED BY <1>2, <1>3 DEF ScanInv

\* A step of a worker that reads.
LEMMA ScanReads ==
  ASSUME IndexInv, ScanInv, NEW w \in Workers, NEW l, ScanOK(l), work' = [work EXCEPT ![w] = l],
         UNCHANGED <<chain, stored, cursor>>
  PROVE  ScanInv'
  <1>1. tip' = tip /\ gone' = gone /\ stored' = stored /\ cursor' = cursor
    BY DEF chain
  <1>2. Known' = Known /\ \A n \in Nat : Filled(n)' = Filled(n)
    BY <1>1 DEF Known, Filled
  <1>3. ScanOK(l)'
    BY <1>1, <1>2, ScanStable
  <1> QED BY <1>1, <1>2, <1>3, ScanMoves DEF ScanInv

LEMMA NotScanning ==
  ASSUME NEW l, ~Scanning(l)
  PROVE  ScanOK(l) /\ ScanOK(l)'
  BY DEF ScanOK, Scanning

\* Workers that are not scanning after their step.
LEMMA Leaves ==
  ASSUME NEW w \in Workers, EndAttempt(w) \/ Stop(w)
  PROVE  \E l : work' = [work EXCEPT ![w] = l] /\ ~Scanning(l)
  <1>1. ~Scanning(Rest)
    BY DEF Rest, Scanning
  <1>2. CASE EndAttempt(w)
    BY <1>1, <1>2 DEF EndAttempt, Set
  <1>3. CASE Stop(w)
    <2> DEFINE l == [Rest EXCEPT !.pc = "stopped"]
    <2>1. work' = [work EXCEPT ![w] = l]
      BY <1>3 DEF Stop, Set
    <2>2. l.pc = "stopped"
      BY DEF Rest
    <2> HIDE DEF l
    <2> QED BY <2>1, <2>2 DEF Scanning
  <1> QED BY <1>2, <1>3

LEMMA MovesAside ==
  ASSUME IndexInv, NEW w \in Workers, NEW pc, Goto(w, pc),
         pc \notin {"cursor", "head", "scan", "recheck", "reconcile"}
  PROVE  \E l : work' = [work EXCEPT ![w] = l] /\ ~Scanning(l)
  <1> DEFINE o == work[w]
             l == [o EXCEPT !.pc = pc]
  <1>1. o \in Locals /\ work' = [work EXCEPT ![w] = l]
    BY Held DEF Goto, Set
  <1> HIDE DEF o
  <1>2. l.pc = pc
    BY <1>1 DEF Locals
  <1> HIDE DEF l
  <1> QED BY <1>1, <1>2 DEF Scanning

LEMMA SnapshotScans ==
  ASSUME IndexInv, ScanInv, NEW w \in Workers, Snapshot(w)
  PROVE  ScanInv'
  <1>0. UNCHANGED <<chain, stored, cursor>>
    BY DEF Snapshot, db
  <1>1. CASE status = "resync_required"
    <2>1. PICK l : work' = [work EXCEPT ![w] = l] /\ ~Scanning(l)
      BY <1>1, Leaves DEF Snapshot
    <2> QED BY <1>0, <2>1, NotScanning, ScanReads
  <1>2. CASE status # "resync_required"
    <2> DEFINE l == [Rest EXCEPT !.pc = "cursor", !.cursor = cursor, !.left = Window(stored)]
    <2>1. work' = [work EXCEPT ![w] = l]
      BY <1>2 DEF Snapshot, Set
    <2>2. l.pc = "cursor" /\ l.cursor = cursor /\ l.left = Window(stored) /\ l.seen = {}
      BY DEF Rest
    <2> HIDE DEF l
    <2>3. Window(stored) \subseteq stored
      BY DEF Window
    <2>4. ASSUME Scanning(l) PROVE ScanOK(l)
      <3>1. cursor # None /\ cursor \in Blocks /\ DbOK /\ ChainInv /\ stored \subseteq Known
        BY <2>2, <2>4 DEF Scanning, IndexInv, DbOK, OrNone, ScanInv
      <3>2. \A b \in l.left \cup l.seen : Height[b] <= Height[l.cursor]
        BY <2>2, <2>3, <3>1 DEF ChainInv, CursorOnTop
      <3>3. ASSUME NEW n \in Nat, Covers(l, n) PROVE Backed(l, n)
        <4>1. Filled(n)
          BY <2>2, <2>3, <3>3 DEF Covers, Filled, Heights
        <4>2. \A x \in Ancestors[cursor] : Height[x] >= n => x \in stored
          BY <3>1, <4>1, AboveFilled, Blocks0
        <4> QED BY <2>2, <3>1, <4>1, <4>2 DEF Backed
      <3> QED BY <2>2, <3>1, <3>2, <3>3 DEF ScanOK
    <2>5. ScanOK(l)
      BY <2>4, NotScanning
    <2> QED BY <1>0, <2>1, <2>5, ScanReads
  <1> QED BY <1>1, <1>2

\* Records with the same view.
LEMMA SameView ==
  ASSUME NEW l, NEW o, ScanOK(o), Scanning(o), l.cursor = o.cursor, l.left = o.left, l.seen = o.seen,
         l.pc = "scan" => l.left # {}, l.pc \in {"recheck", "reconcile"} => l.seen # {}
  PROVE  ScanOK(l)
  BY DEF ScanOK, Covers, Backed

LEMMA ReadCursorScans ==
  ASSUME IndexInv, ScanInv, NEW w \in Workers, ReadCursor(w)
  PROVE  ScanInv'
  <1> DEFINE o == work[w]
             d == dcursor[setting.serves[w]]
             l == [o EXCEPT !.pc = "head", !.dcursor = d]
  <1>1. /\ work' = [work EXCEPT ![w] = l] /\ UNCHANGED <<chain, stored, cursor>>
        /\ o \in Locals /\ ScanOK(o) /\ o.pc = "cursor"
    BY Held DEF ReadCursor, Set, At, db, ScanInv
  <1> HIDE DEF o, d
  <1>2. l.pc = "head" /\ l.cursor = o.cursor /\ l.left = o.left /\ l.seen = o.seen
    BY <1>1 DEF Locals
  <1> HIDE DEF l
  <1>3. Scanning(l) => Scanning(o)
    BY <1>1, <1>2 DEF Scanning
  <1>4. ScanOK(l)
    BY <1>1, <1>2, <1>3, SameView, NotScanning
  <1> QED BY <1>1, <1>4, ScanReads

LEMMA ReadHeadScans ==
  ASSUME IndexInv, ScanInv, NEW w \in Workers, ReadHead(w)
  PROVE  ScanInv'
  <1> DEFINE o == work[w]
             head == Height[tip]
             pc == IF o.cursor = None THEN "backfill" ELSE "scan"
             l == [o EXCEPT !.pc = pc, !.head = head]
  <1>0. UNCHANGED <<chain, stored, cursor>>
    BY DEF ReadHead, db
  <1>1. CASE EndAttempt(w)
    <2>1. PICK k : work' = [work EXCEPT ![w] = k] /\ ~Scanning(k)
      BY <1>1, Leaves
    <2> QED BY <1>0, <2>1, NotScanning, ScanReads
  <1>2. CASE ~EndAttempt(w)
    <2>1. /\ work' = [work EXCEPT ![w] = l] /\ ~(pc = "scan" /\ o.left = {})
          /\ o \in Locals /\ ScanOK(o) /\ o.pc = "head"
      BY <1>2, Held DEF ReadHead, Set, At, ScanInv
    <2>2. pc \in {"backfill", "scan"}
      OBVIOUS
    <2> HIDE DEF o, pc, head
    <2>3. l.pc = pc /\ l.cursor = o.cursor /\ l.left = o.left /\ l.seen = o.seen
      BY <2>1 DEF Locals
    <2> HIDE DEF l
    <2>4. Scanning(l) => Scanning(o) /\ (l.pc = "scan" => l.left # {}) /\ l.pc \notin {"recheck", "reconcile"}
      BY <2>1, <2>2, <2>3 DEF Scanning
    <2>5. ScanOK(l)
      BY <2>1, <2>3, <2>4, SameView, NotScanning
    <2> QED BY <1>0, <2>1, <2>5, ScanReads
  <1> QED BY <1>1, <1>2

\* A header is read at the height of a block that was left to see: when the
\* snapshot's chain has another block there, that one is not canonical.
LEMMA ScanScans ==
  ASSUME IndexInv, ScanInv, NEW w \in Workers, Scan(w)
  PROVE  ScanInv'
  <1> DEFINE o == work[w]
             b == Highest(o.left)
             read == CanonicalAt(Height[b])
             left == IF b \in read THEN {} ELSE o.left \ {b}
             pc == IF left = {} THEN "recheck" ELSE "scan"
             l == [o EXCEPT !.seen = @ \cup read, !.left = left, !.pc = pc]
  <1>0. UNCHANGED <<chain, stored, cursor>>
    BY DEF Scan, db
  <1>1. CASE EndAttempt(w)
    <2>1. PICK k : work' = [work EXCEPT ![w] = k] /\ ~Scanning(k)
      BY <1>1, Leaves
    <2> QED BY <1>0, <2>1, NotScanning, ScanReads
  <1>2. CASE ~EndAttempt(w)
    <2>1. /\ work' = [work EXCEPT ![w] = l] /\ read # {}
          /\ o \in Locals /\ ScanOK(o) /\ o.pc = "scan"
      BY <1>2, Held DEF Scan, Set, At, ScanInv
    <2>2. /\ pc \in {"recheck", "scan"} /\ (pc = "scan" => left # {}) /\ left \subseteq o.left
          /\ \A r \in read : r \in Ancestors[tip] /\ Height[r] = Height[b]
      BY DEF CanonicalAt
    <2>3. b = Highest(o.left)
      OBVIOUS
    <2> HIDE DEF pc, left, read, b, o
    <2>4. l.pc = pc /\ l.cursor = o.cursor /\ l.left = left /\ l.seen = o.seen \cup read
      BY <2>1 DEF Locals
    <2> HIDE DEF l
    <2>5. ASSUME Scanning(l) PROVE ScanOK(l)
      <3>1. /\ Scanning(o) /\ o.left # {} /\ cursor # None
            /\ \A c \in o.left \cup o.seen : Height[c] <= Height[o.cursor]
            /\ \A n \in Nat : Covers(o, n) => Backed(o, n)
        BY <2>1, <2>4, <2>5 DEF ScanOK, Scanning
      <3>2. o.cursor \in Blocks /\ o.left \subseteq Blocks /\ Height[o.cursor] \in Nat
            /\ Ancestors[o.cursor] \subseteq Blocks
        BY <2>1, <3>1, Blocks0 DEF Locals, OrNone, Scanning
      <3>3. b \in o.left
        BY <2>3, <3>1, <3>2, TopExists
      <3>4. \A c \in l.left \cup l.seen : Height[c] <= Height[l.cursor]
        BY <2>2, <2>4, <3>1, <3>3
      <3>5. Heights(l.left \cup l.seen) \subseteq Heights(o.left \cup o.seen)
        BY <2>2, <2>4, <3>3 DEF Heights
      <3>6. ASSUME NEW n \in Nat, Covers(l, n) PROVE Backed(l, n)
        <4>1. Backed(o, n)
          BY <2>4, <3>1, <3>5, <3>6 DEF Covers
        <4>2. ASSUME NEW x \in Ancestors[o.cursor], Height[x] >= n, NEW s \in l.seen,
                     Height[s] = Height[x], s # x
              PROVE  x \in gone
          <5>1. CASE s \in o.seen
            BY <4>1, <4>2, <5>1 DEF Backed
          <5>2. CASE s \in read
            <6>1. s \in Ancestors[tip] /\ x \in Known
              BY <2>2, <4>1, <4>2, <5>2 DEF Backed
            <6>2. x \notin Ancestors[tip]
              BY <4>2, <6>1, Held, Blocks0
            <6> QED BY <6>1, <6>2 DEF Known
          <5> QED BY <2>4, <5>1, <5>2
        <4> QED BY <2>4, <4>1, <4>2 DEF Backed
      <3> QED BY <2>1, <2>2, <2>4, <3>1, <3>4, <3>6 DEF ScanOK
    <2>6. ScanOK(l)
      BY <2>5, NotScanning
    <2> QED BY <1>0, <2>1, <2>6, ScanReads
  <1> QED BY <1>1, <1>2

LEMMA RecheckTopScans ==
  ASSUME IndexInv, ScanInv, NEW w \in Workers, RecheckTop(w)
  PROVE  ScanInv'
  <1> DEFINE o == work[w]
             l == [o EXCEPT !.pc = "reconcile"]
  <1>0. UNCHANGED <<chain, stored, cursor>>
    BY DEF RecheckTop, db
  <1>1. CASE EndAttempt(w)
    <2>1. PICK k : work' = [work EXCEPT ![w] = k] /\ ~Scanning(k)
      BY <1>1, Leaves
    <2> QED BY <1>0, <2>1, NotScanning, ScanReads
  <1>2. CASE ~EndAttempt(w)
    <2>1. work' = [work EXCEPT ![w] = l] /\ o \in Locals /\ ScanOK(o) /\ o.pc = "recheck"
      BY <1>2, Held DEF RecheckTop, Goto, Set, At, ScanInv
    <2> HIDE DEF o
    <2>2. l.pc = "reconcile" /\ l.cursor = o.cursor /\ l.left = o.left /\ l.seen = o.seen
      BY <2>1 DEF Locals
    <2> HIDE DEF l
    <2>3. Scanning(l) => Scanning(o) /\ l.seen # {}
      BY <2>1, <2>2 DEF Scanning, ScanOK
    <2>4. ScanOK(l)
      BY <2>1, <2>2, <2>3, SameView, NotScanning
    <2> QED BY <1>0, <2>1, <2>4, ScanReads
  <1> QED BY <1>1, <1>2

\* The rest of an attempt is no part of its scan.
LEMMA HeaderAside ==
  ASSUME IndexInv, NEW w \in Workers, ReadHeader(w)
  PROVE  /\ UNCHANGED <<chain, stored, cursor>>
         /\ \E l : work' = [work EXCEPT ![w] = l] /\ ~Scanning(l)
  <1> DEFINE o == work[w]
             read == CanonicalAt(NextHeight(w) + Len(o.headers))
  <1>1. UNCHANGED <<chain, db>> /\ o \in Locals
    BY Held DEF ReadHeader
  <1>2. UNCHANGED <<chain, stored, cursor>>
    BY <1>1 DEF db
  <1>3. ASSUME ~EndAttempt(w) PROVE \E l : work' = [work EXCEPT ![w] = l] /\ ~Scanning(l)
    <2>1. PICK b \in read :
            LET all == Append(o.headers, b)
                more == Len(all) < Count(w)
            IN (more \/ Linked(w, all))
               /\ Set(w, [o EXCEPT !.headers = all, !.pc = IF more THEN "headers" ELSE "logs"])
      BY <1>3 DEF ReadHeader
    <2> DEFINE all == Append(o.headers, b)
               pc == IF Len(all) < Count(w) THEN "headers" ELSE "logs"
               l == [o EXCEPT !.headers = all, !.pc = pc]
    <2>2. work' = [work EXCEPT ![w] = l] /\ pc \in {"headers", "logs"}
      BY <2>1 DEF Set
    <2> HIDE DEF all, pc, o
    <2>3. l.pc = pc
      BY <1>1 DEF Locals
    <2> HIDE DEF l
    <2> QED BY <2>2, <2>3 DEF Scanning
  <1> QED BY <1>2, <1>3, Leaves

LEMMA ReadsAside ==
  ASSUME IndexInv, NEW w \in Workers,
         ReadPending(w) \/ CheckPending(w) \/ CommitBackfill(w) \/ Plan(w) \/ ReadHeader(w)
         \/ ReadLogs(w) \/ Hydrate(w) \/ CheckTip(w) \/ Fail(w)
  PROVE  /\ UNCHANGED <<chain, stored, cursor>>
         /\ \E l : work' = [work EXCEPT ![w] = l] /\ ~Scanning(l)
  <1> DEFINE o == work[w]
             Off == \E l : work' = [work EXCEPT ![w] = l] /\ ~Scanning(l)
  <1>1. o \in Locals
    BY Held
  <1>2. EndAttempt(w) => Off
    BY Leaves
  <1>3. ASSUME NEW pc \in {"plan", "again", "project", "headers", "tip", "commit"}, Goto(w, pc) PROVE Off
    BY <1>3, MovesAside
  <1>4. ASSUME NEW l, work' = [work EXCEPT ![w] = l], l.pc \notin {"cursor", "head", "scan", "recheck", "reconcile"}
        PROVE  Off
    BY <1>4 DEF Scanning
  <1> HIDE DEF Off
  <1>5. CASE ReadPending(w)
    <2> DEFINE b == NextLegacy(setting.serves[w])
               sources == RouterLogs(setting.serves[w], b)
               l == [o EXCEPT !.pc = "check", !.pending = b, !.sources = sources]
    <2>1. (Goto(w, "plan") \/ work' = [work EXCEPT ![w] = l]) /\ UNCHANGED <<chain, stored, cursor>>
      BY <1>5 DEF ReadPending, Set, db
    <2> HIDE DEF b, sources, o
    <2>2. l.pc = "check"
      BY <1>1 DEF Locals
    <2> HIDE DEF l
    <2>3. Goto(w, "plan") => Off
      BY <1>3
    <2> QED BY <1>4, <2>1, <2>2, <2>3 DEF Off
  <1>6. CASE ReadHeader(w)
    BY <1>6, HeaderAside DEF Off
  <1>7. CASE ReadLogs(w)
    <2> DEFINE d == setting.serves[w]
               logs == [i \in DOMAIN o.headers |-> Answer(d, o.headers[i])]
               activated == \E i \in DOMAIN o.headers : logs[i] # {} /\ Activates(d, o.headers[i])
               pc == IF activated THEN "hydrate" ELSE "tip"
               l == [o EXCEPT !.logs = logs, !.pc = pc]
    <2>1. (EndAttempt(w) \/ work' = [work EXCEPT ![w] = l]) /\ UNCHANGED <<chain, stored, cursor>>
      BY <1>7 DEF ReadLogs, Set, db
    <2>2. pc \in {"hydrate", "tip"}
      OBVIOUS
    <2> HIDE DEF pc, logs, o
    <2>3. l.pc = pc
      BY <1>1 DEF Locals
    <2> HIDE DEF l
    <2> QED BY <1>2, <1>4, <2>1, <2>2, <2>3 DEF Off
  <1>8. ASSUME NEW pc \in {"plan", "again", "project", "headers", "tip", "commit"},
               EndAttempt(w) \/ Goto(w, pc), UNCHANGED <<chain, stored, cursor>>
        PROVE  UNCHANGED <<chain, stored, cursor>> /\ Off
    BY <1>2, <1>3, <1>8
  <1>9. CASE CheckPending(w)
    <2>1. /\ EndAttempt(w) \/ Goto(w, "again") \/ Goto(w, "project")
          /\ UNCHANGED <<chain, stored, cursor>>
      BY <1>9 DEF CheckPending, db
    <2> QED BY <1>8, <2>1 DEF Off
  <1>10. CASE CommitBackfill(w) \/ Fail(w)
    BY <1>2, <1>10 DEF CommitBackfill, Fail, db, Off
  <1>11. CASE Plan(w)
    <2>1. (EndAttempt(w) \/ Goto(w, "headers")) /\ UNCHANGED <<chain, stored, cursor>>
      BY <1>11 DEF Plan, db
    <2> QED BY <1>8, <2>1 DEF Off
  <1>12. CASE Hydrate(w)
    <2>1. (EndAttempt(w) \/ Goto(w, "tip")) /\ UNCHANGED <<chain, stored, cursor>>
      BY <1>12 DEF Hydrate, db
    <2> QED BY <1>8, <2>1 DEF Off
  <1>13. CASE CheckTip(w)
    <2>1. (EndAttempt(w) \/ Goto(w, "commit")) /\ UNCHANGED <<chain, stored, cursor>>
      BY <1>13 DEF CheckTip, db
    <2> QED BY <1>8, <2>1 DEF Off
  <1> QED BY <1>5, <1>6, <1>7, <1>9, <1>10, <1>11, <1>12, <1>13

\* A rollback keeps the rows below its ancestor, and leaves that as the cursor.
LEMMA RollbackFills ==
  ASSUME DbOK, ChainInv, NEW anc \in stored, RollbackTo(anc)
  PROVE  /\ stored' \subseteq stored /\ cursor # None /\ cursor' # None
         /\ \A n \in Nat : Filled(n) => Filled(n)'
  <1>1. /\ cursor \in stored /\ stored \subseteq Blocks /\ cursor \in Blocks /\ anc \in Blocks /\ anc # None
        /\ Height[anc] <= Height[cursor] /\ Height[anc] \in Nat /\ Height[cursor] \in Nat /\ cursor # None
    BY Blocks0 DEF DbOK, ChainInv, CursorOnTop
  <1>2. stored' = {b \in stored : Height[b] <= Height[anc]} /\ cursor' = anc
    BY DEF RollbackTo
  <1>3. ASSUME NEW n \in Nat, Filled(n), NEW m \in n .. Height[anc] PROVE m \in Heights(stored')
    <2>1. m \in n .. Height[cursor]
      BY <1>1
    <2>2. PICK r \in stored : Height[r] = m
      BY <1>3, <2>1 DEF Filled, Heights
    <2>3. r \in stored'
      BY <1>1, <1>2, <2>2
    <2> QED BY <2>2, <2>3 DEF Heights
  <1> QED BY <1>1, <1>2, <1>3 DEF Filled, Heights

\* A batch is joined to the rows below it, so no height is left out.
LEMMA StoreFills ==
  ASSUME DbOK, ChainInv, NEW s \in Seq(Blocks), Joined(s), NEW k \in 1 .. Len(s),
         NEW batch, batch = {s[i] : i \in 1 .. k}, Adjacent(s[1], s[k], batch),
         NEW d, Store(d, batch, s[k]), cursor # None
  PROVE  cursor' # None /\ \A n \in Nat : Filled(n) => Filled(n)'
  <1>1. /\ \A i \in 1 .. k : s[i] \in Blocks /\ Height[s[i]] = Height[s[1]] + i - 1
        /\ s[1] \in Blocks /\ s[k] \in Blocks /\ s[k] # None /\ Height[s[1]] \in Nat
        /\ Height[s[k]] = Height[s[1]] + k - 1 /\ k \in Nat /\ k >= 1
    <2>1. 1 \in 1 .. k /\ k \in 1 .. k /\ 1 .. k \subseteq 1 .. Len(s) /\ k \in Nat /\ k >= 1
      OBVIOUS
    <2>2. \A i \in 1 .. k : s[i] \in Blocks /\ Height[s[i]] = Height[s[1]] + i - 1
      BY <2>1, RunBelow
    <2> QED BY <2>1, <2>2, Blocks0
  <1>2. /\ stored' = stored \cup batch
        /\ cursor' = IF cursor = None \/ Height[s[k]] > Height[cursor] THEN s[k] ELSE cursor
    BY DEF Store
  <1>3. cursor \in Blocks /\ Height[cursor] \in Nat
    BY Blocks0 DEF DbOK, OrNone
  <1>4. cursor' # None
    BY <1>1, <1>2
  <1>5. ASSUME NEW n \in Nat, Filled(n), NEW m \in n .. Height[cursor'] PROVE m \in Heights(stored')
    <2>1. CASE m <= Height[cursor]
      <3>1. m \in n .. Height[cursor]
        BY <1>3, <2>1
      <3> QED BY <1>2, <1>5, <3>1 DEF Filled, Heights
    <2>2. CASE m > Height[cursor]
      <3>1. cursor' = s[k] /\ m <= Height[s[k]] /\ Height[s[k]] > Height[cursor]
        BY <1>1, <1>2, <1>3, <2>2
      <3>2. m >= Height[s[1]]
        <4> SUFFICES ASSUME m < Height[s[1]] PROVE FALSE
          BY <1>1
        <4>1. Height[cursor] < Height[s[1]]
          BY <1>1, <1>3, <2>2
        <4>2. cursor = Parent[s[1]]
          BY <4>1 DEF Adjacent
        <4>3. Height[s[1]] = Height[cursor] + 1
          BY <1>1, <4>2, Blocks0
        <4> QED BY <1>3, <2>2, <4>3
      <3>3. m - Height[s[1]] + 1 \in 1 .. k
        BY <1>1, <3>1, <3>2
      <3>4. PICK i \in 1 .. k : i = m - Height[s[1]] + 1
        BY <3>3
      <3>5. Height[s[i]] = m
        <4>1. PICK low \in Nat : low = Height[s[1]]
          BY <1>1
        <4>2. Height[s[i]] = Height[s[1]] + i - 1
          BY <1>1
        <4>3. i = m - low + 1 /\ Height[s[i]] = low + i - 1
          BY <3>4, <4>1, <4>2
        <4>4. i \in Int /\ m \in Int
          OBVIOUS
        <4> QED BY <4>3, <4>4
      <3>6. s[i] \in stored'
        BY <1>2
      <3> QED BY <3>5, <3>6 DEF Heights
    <2> QED BY <1>3, <2>1, <2>2
  <1> QED BY <1>4, <1>5 DEF Filled, Heights

LEMMA ProceedAside ==
  ASSUME IndexInv, NEW w \in Workers, At(w, "commit"), NEW n, Proceed(w, n)
  PROVE  \E l : work' = [work EXCEPT ![w] = l] /\ ~Scanning(l)
  <1> DEFINE o == work[w]
             heads == SubSeq(o.headers, n + 1, Len(o.headers))
             tails == SubSeq(o.logs, n + 1, Len(o.logs))
             rest == [o EXCEPT !.headers = heads, !.logs = tails]
  <1>1. o \in Locals /\ o.pc = "commit"
        /\ (work' = [work EXCEPT ![w] = Rest] \/ work' = [work EXCEPT ![w] = rest])
    BY Held DEF Proceed, Set, At
  <1> HIDE DEF heads, tails, o
  <1>2. rest.pc = "commit"
    BY <1>1 DEF Locals
  <1> HIDE DEF rest
  <1>3. ~Scanning(Rest) /\ ~Scanning(rest)
    BY <1>2 DEF Rest, Scanning
  <1> QED BY <1>1, <1>3

\* The blocks that are stored were canonical when their headers were read.
LEMMA StoreScans ==
  ASSUME ~Return, IndexInv, ScanInv, NEW w \in Workers, At(w, "commit"), UNCHANGED chain,
         NEW k \in 1 .. Len(work[w].headers), Proceed(w, k),
         NEW batch, batch = {work[w].headers[i] : i \in 1 .. k},
         Adjacent(work[w].headers[1], work[w].headers[k], batch),
         NEW d, Store(d, batch, work[w].headers[k])
  PROVE  ScanInv'
  <1> DEFINE o == work[w]
             s == o.headers
  <1>1. s \in Seq(Blocks) /\ Joined(s)
    BY ToCommit
  <1>2. \A i \in 1 .. Len(s) : s[i] \in Known
    BY Held DEF LocalsOK, Known
  <1>3. /\ tip' = tip /\ gone' = gone /\ stored' = stored \cup batch /\ DbOK /\ ChainInv /\ stored \subseteq Known
    BY DEF chain, Store, IndexInv, ScanInv
  <1>4. PICK l : work' = [work EXCEPT ![w] = l] /\ ~Scanning(l)
    BY ProceedAside
  <1>5. batch \subseteq Known
    <2>1. Len(s) \in Nat /\ 1 .. k \subseteq 1 .. Len(s)
      BY <1>1
    <2> QED BY <1>2, <2>1
  <1>6. cursor # None => cursor' # None /\ \A n \in Nat : Filled(n) => Filled(n)'
    <2> HIDE DEF s
    <2>1. k \in 1 .. Len(s) /\ batch = {s[i] : i \in 1 .. k} /\ Adjacent(s[1], s[k], batch) /\ Store(d, batch, s[k])
      BY DEF s
    <2> QED BY <1>1, <1>3, <2>1, StoreFills
  <1>7. stored' \subseteq Known'
    BY <1>3, <1>5 DEF Known
  <1> QED BY <1>4, <1>6, <1>7, NotScanning, ScanMoves

LEMMA CommitScans ==
  ASSUME ~Return, IndexInv, ScanInv, NEW w \in Workers, CommitEmpty(w) \/ CommitBlock(w)
  PROVE  ScanInv'
  <1> DEFINE s == work[w].headers
             new == Batch(w)
             batch == {new[i] : i \in 1 .. Len(new)}
             d == setting.serves[w]
  <1>1. UNCHANGED chain /\ At(w, "commit")
    BY DEF CommitEmpty, CommitBlock
  <1>2. CASE UNCHANGED db
    <2>1. UNCHANGED <<chain, stored, cursor>>
      BY <1>1, <1>2 DEF db
    <2>2. EndAttempt(w) \/ Proceed(w, Len(new)) \/ Proceed(w, 1)
      BY DEF CommitEmpty, CommitBlock
    <2>3. PICK l : work' = [work EXCEPT ![w] = l] /\ ~Scanning(l)
      BY <1>1, <2>2, Leaves, ProceedAside
    <2> QED BY <2>1, <2>3, NotScanning, ScanReads
  <1>3. CASE CommitEmpty(w) /\ ~UNCHANGED db
    <2>1. /\ Adjacent(new[1], new[Len(new)], batch) /\ Proceed(w, Len(new))
          /\ Store(d, batch, new[Len(new)]) /\ work[w].logs[1] = {}
      BY <1>3 DEF CommitEmpty
    <2>2. PICK k \in 1 .. Len(s) : Len(new) = k /\ \A i \in 1 .. k : new[i] = s[i]
      BY <1>1, <2>1, BatchIs
    <2>3. 1 \in 1 .. k /\ k \in 1 .. k
      OBVIOUS
    <2>4. batch = {s[i] : i \in 1 .. k} /\ new[1] = s[1] /\ new[Len(new)] = s[k]
      BY <2>2, <2>3
    <2>5. Adjacent(s[1], s[k], batch) /\ Proceed(w, k) /\ Store(d, batch, s[k])
      BY <2>1, <2>2, <2>4
    <2> HIDE DEF batch, d, new
    <2> QED BY <1>1, <2>4, <2>5, StoreScans
  <1>4. CASE CommitBlock(w) /\ ~UNCHANGED db
    <2>1. Adjacent(s[1], s[1], {s[1]}) /\ Proceed(w, 1) /\ Store(d, {s[1]}, s[1])
      BY <1>4 DEF CommitBlock
    <2>2. 1 \in 1 .. Len(s)
      BY <1>1, ToCommit
    <2>3. {s[1]} = {s[i] : i \in 1 .. 1}
      OBVIOUS
    <2> HIDE DEF d
    <2> QED BY <1>1, <2>1, <2>2, <2>3, StoreScans
  <1> QED BY <1>2, <1>3, <1>4

LEMMA ReconcileScans ==
  ASSUME IndexInv, ScanInv, NEW w \in Workers, Reconcile(w)
  PROVE  ScanInv'
  <1> DEFINE common == Window(stored) \cap work[w].seen
             anc == Highest(common)
  <1>1. UNCHANGED chain
    BY DEF Reconcile
  <1>2. CASE UNCHANGED <<stored, cursor>>
    <2>1. EndAttempt(w) \/ Stop(w) \/ Goto(w, "backfill")
      BY DEF Reconcile
    <2>2. PICK l : work' = [work EXCEPT ![w] = l] /\ ~Scanning(l)
      BY <2>1, Leaves, MovesAside
    <2> QED BY <1>1, <1>2, <2>2, NotScanning, ScanReads
  <1>3. CASE common # {} /\ RollbackTo(anc) /\ EndAttempt(w)
    <2>1. common \subseteq stored /\ stored \subseteq Blocks /\ DbOK /\ ChainInv
      BY DEF Window, IndexInv, DbOK
    <2>2. cursor \in stored /\ Height[cursor] \in Nat /\ \A b \in stored : Height[b] <= Height[cursor]
      BY <1>3, <2>1, Blocks0 DEF ChainInv, CursorOnTop
    <2>3. anc \in stored
      <3> HIDE DEF common
      <3> QED BY <1>3, <2>1, <2>2, TopExists
    <2>4. /\ stored' \subseteq stored /\ cursor # None /\ cursor' # None
          /\ \A n \in Nat : Filled(n) => Filled(n)'
      <3> HIDE DEF anc
      <3> QED BY <1>3, <2>1, <2>3, RollbackFills
    <2>5. PICK l : work' = [work EXCEPT ![w] = l] /\ ~Scanning(l)
      BY <1>3, Leaves
    <2>6. stored' \subseteq Known'
      BY <1>1, <2>4 DEF ScanInv, chain, Known
    <2> QED BY <1>1, <2>4, <2>5, <2>6, NotScanning, ScanMoves
  <1> QED BY <1>2, <1>3 DEF Reconcile, db

LEMMA SwitchScans ==
  ASSUME ~Return, IndexInv, ScanInv, NEW b \in Tips, Switch(b)
  PROVE  ScanInv'
  <1>1. tip' = b /\ gone' = gone \cup (Ancestors[tip] \ Ancestors[b]) /\ work' = work /\ stored' = stored
        /\ cursor' = cursor
    BY DEF Switch, db
  <1>2. Known \subseteq Known' /\ gone \subseteq gone'
    BY <1>1 DEF Known
  <1>3. \A n \in Nat : Filled(n) => Filled(n)'
    BY <1>1 DEF Filled
  <1>4. ASSUME NEW w \in Workers PROVE ScanOK(work[w])'
    <2>1. PICK o : o = work[w]
      OBVIOUS
    <2>2. ScanOK(o) /\ work'[w] = o
      BY <1>1, <2>1 DEF ScanInv
    <2>3. ScanOK(o)'
      BY <1>1, <1>2, <1>3, <2>2, ScanStable
    <2> QED BY <2>2, <2>3
  <1> QED BY <1>1, <1>2, <1>4 DEF ScanInv

LEMMA ScanInit ==
  ASSUME ~Return, Init
  PROVE  ScanInv
  <1>1. stored \subseteq Known
    BY DEF Init, Known
  <1>2. ~Scanning(Rest)
    BY DEF Rest, Scanning
  <1>3. \A w \in Workers : work[w] = Rest
    BY DEF Init
  <1> QED BY <1>1, <1>2, <1>3, NotScanning DEF ScanInv

LEMMA ScanNext ==
  ASSUME ~Return, IndexInv, ScanInv, [Next]_vars
  PROVE  ScanInv'
  <1>1. CASE UNCHANGED vars
    <2>1. tip' = tip /\ gone' = gone /\ stored' = stored /\ cursor' = cursor /\ work' = work
      BY <1>1 DEF vars
    <2>2. Known' = Known /\ \A n \in Nat : Filled(n)' = Filled(n)
      BY <2>1 DEF Known, Filled
    <2>3. ASSUME NEW w \in Workers PROVE ScanOK(work[w])'
      <3>1. PICK o : o = work[w]
        OBVIOUS
      <3>2. ScanOK(o) /\ work'[w] = o
        BY <2>1, <3>1 DEF ScanInv
      <3>3. ScanOK(o)'
        BY <2>1, <2>2, <3>2, ScanStable
      <3> QED BY <3>2, <3>3
    <2> QED BY <2>1, <2>2, <2>3 DEF ScanInv
  <1>2. ASSUME NEW w \in Workers,
               ReadPending(w) \/ CheckPending(w) \/ CommitBackfill(w) \/ Plan(w) \/ ReadHeader(w)
               \/ ReadLogs(w) \/ Hydrate(w) \/ CheckTip(w) \/ Fail(w)
        PROVE  ScanInv'
    <2>1. UNCHANGED <<chain, stored, cursor>>
      BY <1>2, ReadsAside
    <2>2. PICK l : work' = [work EXCEPT ![w] = l] /\ ~Scanning(l)
      BY <1>2, ReadsAside
    <2> QED BY <2>1, <2>2, NotScanning, ScanReads
  <1>3. ASSUME NEW w \in Workers, Step(w) PROVE ScanInv'
    BY <1>2, <1>3, SnapshotScans, ReadCursorScans, ReadHeadScans, ScanScans, RecheckTopScans,
       ReconcileScans, CommitScans DEF Step
  <1> QED BY <1>1, <1>2, <1>3, SwitchScans DEF Next

LEMMA RowsFinite ==
  ASSUME DbOK, ChainInv
  PROVE  IsFiniteSet(stored)
  <1>1. CASE cursor = None
    <2>1. stored = {}
      BY <1>1 DEF ChainInv, CursorOnTop
    <2> QED BY <2>1, FS_EmptySet
  <1>2. CASE cursor # None
    <2> DEFINE f == [b \in stored |-> Height[b]]
               T == 0 .. Height[cursor]
    <2>1. /\ Height[cursor] \in Nat
          /\ \A b \in stored : Height[b] \in Nat /\ Height[b] <= Height[cursor]
          /\ \A b, c \in stored : Height[b] = Height[c] => b = c
      BY <1>2, Blocks0 DEF DbOK, OrNone, ChainInv, CursorOnTop, OneChain
    <2>2. f \in Injection(stored, T)
      BY <2>1 DEF Injection, IsInjective
    <2>3. IsFiniteSet(T)
      BY <2>1, FS_Interval
    <2> HIDE DEF f, T
    <2> QED BY <2>2, <2>3, FS_Injection
  <1> QED BY <1>1, <1>2

\* The window is all the rows, or as many as it may hold.
LEMMA WindowSize ==
  ASSUME NEW S \in SUBSET Blocks, IsFiniteSet(S), NEW bound \in Nat, \A b \in S : Height[b] <= bound
  PROVE  /\ Window(S) \subseteq S
         /\ Window(S) = S \/ Cardinality(Window(S)) >= REORG_WINDOW
  <1>1. Window(S) \subseteq S
    BY DEF Window
  <1>2. ASSUME Window(S) # S PROVE Cardinality(Window(S)) >= REORG_WINDOW
    <2> DEFINE below == S \ Window(S)
               x == Highest(below)
               above == {c \in S : Height[c] > Height[x]}
    <2>1. below # {} /\ below \subseteq Blocks
      BY <1>1, <1>2
    <2>2. x \in below /\ \A c \in below : Height[c] <= Height[x]
      <3>1. \A b \in below : Height[b] <= bound
        OBVIOUS
      <3> HIDE DEF below
      <3> QED BY <2>1, <3>1, TopExists
    <2>3. x \in S /\ x \notin Window(S) /\ x \in Blocks
      BY <2>2
    <2>4. above \subseteq Window(S)
      <3> SUFFICES ASSUME NEW c \in S, Height[c] > Height[x], c \notin Window(S) PROVE FALSE
        OBVIOUS
      <3>1. Height[c] <= Height[x]
        BY <2>2
      <3> HIDE DEF x
      <3>2. Height[c] \in Nat /\ Height[x] \in Nat
        BY <2>3, Blocks0
      <3> QED BY <3>1, <3>2
    <2> HIDE DEF x, below
    <2>5. ~(Cardinality(above) < REORG_WINDOW)
      BY <2>3 DEF Window
    <2>6. IsFiniteSet(Window(S))
      BY <1>1, FS_Subset
    <2>7. Cardinality(above) \in Nat /\ Cardinality(above) <= Cardinality(Window(S)) /\ Cardinality(Window(S)) \in Nat
      <3>1. above \in SUBSET Window(S)
        BY <2>4
      <3> HIDE DEF above
      <3> QED BY <2>6, <3>1, FS_Subset, FS_CardinalityType
    <2> HIDE DEF above
    <2> QED BY <2>5, <2>7, ConstantsAssumption
  <1> QED BY <1>1, <1>2

\* Rows above a row of the window are in it.
LEMMA WindowAbove ==
  ASSUME NEW S \in SUBSET Blocks, IsFiniteSet(S), NEW a \in Window(S), NEW b \in S, Height[b] >= Height[a]
  PROVE  b \in Window(S)
  <1> DEFINE ups(x) == {c \in S : Height[c] > Height[x]}
  <1>1. a \in S /\ Cardinality(ups(a)) < REORG_WINDOW
    BY DEF Window
  <1>2. ups(b) \subseteq ups(a) /\ ups(a) \subseteq S
    <2>1. ASSUME NEW c \in S, Height[c] > Height[b] PROVE Height[c] > Height[a]
      <3>1. Height[c] \in Nat /\ Height[b] \in Nat /\ Height[a] \in Nat
        BY <1>1, Blocks0
      <3> QED BY <2>1, <3>1
    <2> QED BY <2>1
  <1>3. Cardinality(ups(b)) <= Cardinality(ups(a)) /\ Cardinality(ups(a)) \in Nat /\ Cardinality(ups(b)) \in Nat
    <2>1. ups(a) \in SUBSET S /\ ups(b) \in SUBSET ups(a)
      BY <1>2
    <2> HIDE DEF ups
    <2>2. IsFiniteSet(ups(a))
      BY <2>1, FS_Subset
    <2>3. IsFiniteSet(ups(b)) /\ Cardinality(ups(b)) <= Cardinality(ups(a))
      BY <2>1, <2>2, FS_Subset
    <2> QED BY <2>2, <2>3, FS_CardinalityType
  <1>4. Cardinality(ups(b)) < REORG_WINDOW
    <2> HIDE DEF ups
    <2> QED BY <1>1, <1>3, ConstantsAssumption
  <1> QED BY <1>4 DEF Window

\* What a usable scan says of the rows: from its lowest header up they are the
\* chain below the cursor, and where another header was seen they are gone.
LEMMA Verdict ==
  ASSUME IndexInv, ScanInv, NEW w \in Workers, At(w, "reconcile"), ValidWindow(w), Unmoved(w),
         work[w].cursor # None
  PROVE  /\ Lowest(work[w].seen) \in work[w].seen /\ work[w].seen \subseteq Blocks
         /\ \A x \in stored :
              Height[x] >= Height[Lowest(work[w].seen)] =>
                \E s \in work[w].seen : Height[s] = Height[x] /\ (s = x \/ x \in gone)
  <1> DEFINE o == work[w]
             n == Height[Lowest(o.seen)]
  <1>1. /\ o \in Locals /\ ScanOK(o) /\ Scanning(o) /\ o.pc = "reconcile" /\ o.cursor = cursor /\ cursor # None
        /\ DbOK /\ ChainInv
    BY Held DEF At, ScanInv, Scanning, Unmoved, IndexInv
  <1>2. /\ o.seen # {} /\ o.seen \subseteq Blocks
        /\ \A b \in o.seen : Height[b] <= Height[o.cursor]
        /\ \A k \in Nat : Covers(o, k) => Backed(o, k)
    BY <1>1 DEF ScanOK, Locals
  <1>3. /\ Lowest(o.seen) \in o.seen
        /\ n .. Height[o.cursor] \subseteq Heights(o.seen)
    BY <1>1, <1>2, SeenCovers
  <1>4. n \in Nat /\ stored \subseteq Blocks
    BY <1>1, <1>2, <1>3, Blocks0 DEF DbOK
  <1> HIDE DEF n
  <1>5. Covers(o, n)
    BY <1>3 DEF Covers, Heights
  <1>6. Backed(o, n)
    BY <1>2, <1>4, <1>5
  <1>7. ASSUME NEW x \in stored, Height[x] >= n
        PROVE  \E s \in o.seen : Height[s] = Height[x] /\ (s = x \/ x \in gone)
    <2>1. x \in Ancestors[cursor]
      <3>1. Filled(n)
        BY <1>6 DEF Backed
      <3> QED BY <1>1, <1>4, <1>7, <3>1, AboveFilled
    <2>2. Height[x] \in n .. Height[o.cursor]
      <3>1. Height[x] \in Nat /\ Height[cursor] \in Nat /\ Height[x] <= Height[cursor]
        BY <1>1, <1>4, Blocks0 DEF ChainInv, CursorOnTop
      <3> QED BY <1>1, <1>4, <1>7, <3>1
    <2>3. PICK s \in o.seen : Height[s] = Height[x]
      BY <1>3, <2>2 DEF Heights
    <2>4. s # x => x \in gone
      BY <1>1, <1>6, <1>7, <2>1, <2>3 DEF Backed
    <2> QED BY <2>3, <2>4
  <1> QED BY <1>2, <1>3, <1>7 DEF n

\* Steps that delete rows, and that change the chain's status.
LEMMA OnlyReconcile ==
  ASSUME IndexInv, [Next]_vars
  PROVE  \/ stored \subseteq stored' /\ status' = status
         \/ \E w \in Workers : Reconcile(w)
  <1>1. CASE UNCHANGED vars
    BY <1>1 DEF vars
  <1>2. ASSUME NEW w \in Workers, Step(w) PROVE (stored \subseteq stored' /\ status' = status) \/ Reconcile(w)
    <2>1. CASE CommitEmpty(w) \/ CommitBlock(w)
      <3>1. UNCHANGED db \/ \E d, batch, last : Store(d, batch, last)
        BY <2>1 DEF CommitEmpty, CommitBlock
      <3> QED BY <3>1 DEF Store, db
    <2>2. CASE CommitBackfill(w)
      BY <2>2 DEF CommitBackfill
    <2>3. CASE UNCHANGED db
      BY <2>3 DEF db
    <2>4. ReadHeader(w) => UNCHANGED db
      BY DEF ReadHeader
    <2>5. \/ CommitEmpty(w) \/ CommitBlock(w) \/ CommitBackfill(w) \/ Reconcile(w) \/ UNCHANGED db
      BY <1>2, <2>4 DEF Step, Snapshot, ReadCursor, ReadHead, Scan, RecheckTop, ReadPending, CheckPending,
                        Plan, ReadLogs, Hydrate, CheckTip
    <2> QED BY <2>1, <2>2, <2>3, <2>5
  <1>3. ASSUME NEW w \in Workers, Fail(w) PROVE stored \subseteq stored' /\ status' = status
    BY <1>3 DEF Fail, db
  <1>4. ASSUME NEW b \in Tips, Switch(b) PROVE stored \subseteq stored' /\ status' = status
    BY <1>4 DEF Switch, db
  <1> QED BY <1>1, <1>2, <1>3, <1>4 DEF Next

\* What Reconcile has when it changes rows or the status.
LEMMA Decides ==
  ASSUME IndexInv, ScanInv, NEW w \in Workers, Reconcile(w), ~(stored \subseteq stored' /\ status' = status)
  PROVE  LET window == Window(stored)
             common == window \cap work[w].seen
         IN /\ ValidWindow(w) /\ Unmoved(w) /\ At(w, "reconcile")
            /\ \/ common # {} /\ RollbackTo(Highest(common))
               \/ /\ common = {} /\ window # {} /\ stored' = stored
                  /\ ~(Height[Lowest(work[w].seen)] > Height[Lowest(window)])
  BY DEF Reconcile, db

LEMMA DeletedAreGone ==
  ASSUME ~Return, IndexInv, ScanInv, [Next]_vars
  PROVE  (stored \ stored') \cap Ancestors[tip] = {}
  <1> SUFFICES ASSUME NEW b \in stored, b \notin stored', b \in Ancestors[tip] PROVE FALSE
    OBVIOUS
  <1>1. PICK w \in Workers : Reconcile(w)
    BY OnlyReconcile
  <1> DEFINE seen == work[w].seen
             window == Window(stored)
             common == window \cap seen
             anc == Highest(common)
  <1>2. ValidWindow(w) /\ Unmoved(w) /\ At(w, "reconcile") /\ common # {} /\ RollbackTo(anc)
    BY <1>1, Decides
  <1>3. /\ DbOK /\ ChainInv /\ stored \subseteq Blocks /\ IsFiniteSet(stored) /\ gone \cap Ancestors[tip] = {}
        /\ window \subseteq stored /\ common \subseteq stored
    BY RowsFinite DEF IndexInv, TipOK, DbOK, Window
  <1>4. cursor \in stored /\ Height[cursor] \in Nat /\ \A r \in stored : Height[r] <= Height[cursor]
    BY <1>3, Blocks0 DEF ChainInv, CursorOnTop
  <1>5. anc \in common /\ \A c \in common : Height[c] <= Height[anc]
    <2> HIDE DEF common
    <2> QED BY <1>2, <1>3, <1>4, TopExists
  <1>6. Height[b] > Height[anc] /\ Height[b] \in Nat /\ Height[anc] \in Nat
    <2>1. ~(Height[b] <= Height[anc]) /\ anc \in stored
      BY <1>2, <1>3, <1>5 DEF RollbackTo
    <2> HIDE DEF anc
    <2>2. Height[b] \in Nat /\ Height[anc] \in Nat
      BY <1>3, <2>1, Blocks0
    <2> QED BY <2>1, <2>2
  <1>7. work[w].cursor # None
    <2>1. cursor # None
      BY <1>3, <1>4, Blocks0
    <2> QED BY <1>2, <2>1 DEF Unmoved
  <1>8. /\ Lowest(seen) \in seen /\ seen \subseteq Blocks
        /\ \A x \in stored : Height[x] >= Height[Lowest(seen)] =>
             \E s \in seen : Height[s] = Height[x] /\ (s = x \/ x \in gone)
    BY <1>2, <1>7, Verdict
  <1>9. Height[b] >= Height[Lowest(seen)]
    <2>1. anc \in seen
      BY <1>5
    <2> HIDE DEF anc, seen
    <2>2. Height[anc] >= Height[Lowest(seen)] /\ Height[Lowest(seen)] \in Nat
      BY <1>8, <2>1, BottomExists, Blocks0
    <2> QED BY <1>6, <2>2
  <1>10. PICK s \in seen : Height[s] = Height[b] /\ (s = b \/ b \in gone)
    BY <1>8, <1>9
  <1>11. b \notin gone
    BY <1>3
  <1>12. b \in window
    <2> HIDE DEF anc
    <2> QED BY <1>3, <1>5, <1>6, WindowAbove
  <1>13. Height[b] <= Height[anc]
    BY <1>5, <1>10, <1>11, <1>12
  <1> HIDE DEF anc
  <1> QED BY <1>6, <1>13

LEMMA ResyncIsDue ==
  ASSUME ~Return, IndexInv, ScanInv, [Next]_vars, status' # status, NEW lost, lost = stored \ Ancestors[tip]
  PROVE  lost = stored \/ Cardinality(lost) >= REORG_WINDOW
  <1>1. PICK w \in Workers : Reconcile(w)
    BY OnlyReconcile
  <1> DEFINE seen == work[w].seen
             window == Window(stored)
             common == window \cap seen
  <1>2. /\ ValidWindow(w) /\ Unmoved(w) /\ At(w, "reconcile") /\ common = {} /\ window # {}
        /\ ~(Height[Lowest(seen)] > Height[Lowest(window)])
    <2>1. \A anc : RollbackTo(anc) => status' = status
      BY DEF RollbackTo
    <2> QED BY <1>1, <2>1, Decides
  <1>3. /\ DbOK /\ ChainInv /\ stored \subseteq Blocks /\ IsFiniteSet(stored) /\ gone \cap Ancestors[tip] = {}
        /\ window \subseteq stored
    BY RowsFinite DEF IndexInv, TipOK, DbOK, Window
  <1>4. cursor \in stored /\ Height[cursor] \in Nat /\ \A r \in stored : Height[r] <= Height[cursor]
    BY <1>2, <1>3, Blocks0 DEF ChainInv, CursorOnTop
  <1>5. work[w].cursor # None
    <2>1. cursor # None
      BY <1>3, <1>4, Blocks0
    <2> QED BY <1>2, <2>1 DEF Unmoved
  <1>6. /\ Lowest(seen) \in seen /\ seen \subseteq Blocks
        /\ \A x \in stored : Height[x] >= Height[Lowest(seen)] =>
             \E s \in seen : Height[s] = Height[x] /\ (s = x \/ x \in gone)
    BY <1>2, <1>5, Verdict
  <1>7. Lowest(window) \in window /\ \A x \in window : Height[x] >= Height[Lowest(window)]
    <2> HIDE DEF window
    <2> QED BY <1>2, <1>3, BottomExists
  <1>8. ASSUME NEW x \in window PROVE x \in lost
    <2>1. Height[x] >= Height[Lowest(seen)]
      <3>1. Height[x] >= Height[Lowest(window)] /\ ~(Height[Lowest(seen)] > Height[Lowest(window)])
            /\ Lowest(window) \in Blocks /\ Lowest(seen) \in Blocks /\ x \in Blocks
        BY <1>2, <1>3, <1>6, <1>7
      <3> HIDE DEF seen, window
      <3>2. Height[x] \in Nat /\ Height[Lowest(window)] \in Nat /\ Height[Lowest(seen)] \in Nat
        BY <3>1, Blocks0
      <3> QED BY <3>1, <3>2
    <2>2. x \in stored
      BY <1>3
    <2>3. PICK s \in seen : s = x \/ x \in gone
      BY <1>6, <2>1, <2>2
    <2>4. x \in gone
      BY <1>2, <2>3
    <2> QED BY <1>3, <2>2, <2>4
  <1> HIDE DEF window
  <1>9. CASE window = stored
    BY <1>8, <1>9
  <1>10. CASE window # stored
    <2>1. Cardinality(window) >= REORG_WINDOW
      BY <1>3, <1>4, <1>10, WindowSize DEF window
    <2>2. lost \in SUBSET stored /\ window \in SUBSET lost
      BY <1>8
    <2>3. IsFiniteSet(lost) /\ Cardinality(lost) \in Nat
      BY <1>3, <2>2, FS_Subset, FS_CardinalityType
    <2>4. Cardinality(window) <= Cardinality(lost) /\ Cardinality(window) \in Nat
      BY <2>2, <2>3, FS_Subset, FS_CardinalityType
    <2> QED BY <2>1, <2>3, <2>4, ConstantsAssumption
  <1> QED BY <1>9, <1>10

LEMMA ScanCorrect ==
  ASSUME ~Return
  PROVE  Spec => [](IndexInv /\ ScanInv)
  <1>1. Init => ScanInv
    BY ScanInit
  <1>2. IndexInv /\ ScanInv /\ [Next]_vars => ScanInv'
    BY ScanNext
  <1> QED BY <1>1, <1>2, IndexCorrect, PTL DEF Spec

\* A rollback deletes no block of the canonical chain, although its scan is of
\* headers read one by one while the chain moved and other workers committed
\* and rolled back: reconcileCanonicalChain may act on any window of linked
\* headers from the cursor it finds unmoved (materializer/reorg.ts:51), on a
\* chain that does not return to a branch it has left.
THEOREM RollbacksKeepCanonical ==
  ASSUME ~Return
  PROVE  Spec => KeepsCanonical
  <1>1. IndexInv /\ ScanInv /\ [Next]_vars => [(stored \ stored') \cap Ancestors[tip] = {}]_vars
    BY DeletedAreGone
  <1> QED BY <1>1, ScanCorrect, PTL DEF Spec, KeepsCanonical

\* Indexing stops for a manual resync only when the chain has left all stored
\* blocks or as many of them as a rollback may look back on, on the same chains
\* (materializer/reorg.ts:64).
THEOREM ResyncIsJustified ==
  ASSUME ~Return
  PROVE  Spec => ResyncJustified
  <1>1. IndexInv /\ ScanInv /\ [Next]_vars =>
          [status' # status => LET lost == stored \ Ancestors[tip]
                               IN lost = stored \/ Cardinality(lost) >= REORG_WINDOW]_vars
    BY ResyncIsDue
  <1> QED BY <1>1, ScanCorrect, PTL DEF Spec, ResyncJustified

=============================================================================
