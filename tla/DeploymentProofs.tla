-------------------------- MODULE DeploymentProofs ---------------------------
(***************************************************************************)
(* What the deployment keeps for any plan, any number of tabs, any history *)
(* of kills, closed tabs and wallets that fail.                            *)
(*                                                                         *)
(* PlanInv is about the journal and what it says of the chain; it holds    *)
(* however late a tab hears of storage events.  AttemptInv, about the      *)
(* attempt the tabs share, needs them to be prompt.                        *)
(***************************************************************************)
EXTENDS Deployment, FiniteSetTheorems, SequenceTheorems, TLAPS

-----------------------------------------------------------------------------
(* The inductive invariants.                                               *)

OrNone(S) == S \cup {None}

Phases == {"blocked", "pending", "complete", "ready"}
Journals == [confirmed : Seq(Txs), pending : OrNone(Txs), review : OrNone(Txs)]

Refreshers == {Idle} \cup [at : {"post"}, hash : Txs] \cup [at : {"again"}]
Senders ==
  {Idle} \cup [at : {"status"}, reviewed : OrNone(Txs), got : Answers]
         \cup [at : {"identity", "prompt"}]
         \cup [at : {"answered", "post", "recover"}, hash : Txs]

TypeOK ==
  /\ tabs \subseteq Tabs
  /\ mined \in Seq(Txs) /\ sent \subseteq Txs /\ requests \subseteq Tabs \X Txs
  /\ journal \in Journals /\ files \subseteq {"report", "manifest"}
  /\ serving \in BOOLEAN
  /\ store \in OrNone(Attempts)
  /\ view \in [Tabs -> OrNone(Answers)] /\ attempt \in [Tabs -> OrNone(Attempts)]
  /\ refresher \in [Tabs -> Refreshers] /\ sender \in [Tabs -> Senders]

\* What the wallet has been asked to send or has sent.
Out == sent \cup {r[2] : r \in requests}

\* The journal follows the chain, and holds only what was sent.
JournalOK(j) ==
  /\ Len(j.confirmed) <= Steps /\ Len(j.confirmed) <= Len(mined)
  /\ \A i \in 1 .. Len(j.confirmed) :
       j.confirmed[i] \in sent /\ j.confirmed[i].step = i - 1 /\ Mined(j.confirmed[i])
  /\ j.review # None => j.review.step = Len(j.confirmed) /\ Len(j.confirmed) < Steps
  /\ j.pending # None => j.review # None /\ j.pending \in sent

\* A transaction that was reviewed once is confirmed or still the review.
Known(tx, j) == tx.step < Len(j.confirmed) \/ tx = j.review

KnownAnswer(answer, j) ==
  /\ answer.confirmed <= Len(j.confirmed)
  /\ answer.next # None => Known(answer.next, j) /\ answer.next.step = answer.confirmed

\* Whatever a tab may post was sent.
HashesSent ==
  /\ store # None /\ store.hash # None => store.hash \in sent
  /\ \A t \in Tabs :
       /\ attempt[t] # None /\ attempt[t].hash # None => attempt[t].hash \in sent
       /\ refresher[t].at = "post" => refresher[t].hash \in sent
       /\ sender[t].at \in {"answered", "post", "recover"} => sender[t].hash \in sent

PlanInv ==
  /\ TypeOK
  /\ JournalOK(journal)
  /\ \A tx \in Out : Known(tx, journal)
  /\ HashesSent
  /\ \A t \in Tabs :
       /\ view[t] # None => KnownAnswer(view[t], journal)
       /\ sender[t].at = "status" => KnownAnswer(sender[t].got, journal)
       /\ sender[t].at # "idle" \/ refresher[t].at # "idle" => view[t] # None
  /\ ActiveIsVerified

\* No transaction of the next step is out.
NoneOut == \A tx \in Out : tx.step # Len(journal.confirmed)

\* Every step is in one request or one transaction.
AskedOnce ==
  /\ \A r, s \in requests : r[2].step = s[2].step => r = s
  /\ \A x, y \in sent : x.step = y.step => x = y
  /\ \A r \in requests, x \in sent : r[2].step # x.step

OneLock == \A t, u \in Tabs : HoldsLock(t) /\ HoldsLock(u) => t = u

\* A tab that is about to ask does so for the next step, which nobody has sent.
Fresh(t) ==
  /\ sender[t].at \in {"status", "identity"} => NoneOut
  /\ sender[t].at = "status" /\ sender[t].got.next # None =>
       sender[t].got.next.step = Len(journal.confirmed)
  /\ sender[t].at = "identity" /\ view[t].next # None =>
       view[t].next.step = Len(journal.confirmed)

AttemptInv ==
  /\ AskedOnce
  /\ OneLock
  /\ NoneOut \/ (store # None /\ store.confirmed = Len(journal.confirmed))
  /\ \A t \in Tabs : Fresh(t)

-----------------------------------------------------------------------------
(* The journal.                                                            *)

LEMMA TabsTyped ==
  ASSUME TypeOK, NEW t \in Tabs
  PROVE  /\ view[t] # None => view[t] \in Answers
         /\ attempt[t] # None => attempt[t] \in Attempts
         /\ refresher[t].at \in {"idle", "post", "again"}
         /\ refresher[t].at = "post" => refresher[t].hash \in Txs
         /\ sender[t].at \in {"idle", "status", "identity", "prompt", "answered", "post", "recover"}
         /\ sender[t].at = "status" => sender[t].got \in Answers /\ sender[t].reviewed \in OrNone(Txs)
         /\ sender[t].at \in {"answered", "post", "recover"} => sender[t].hash \in Txs
  <1>1. refresher[t] \in Refreshers /\ sender[t] \in Senders
    BY DEF TypeOK
  <1>2. /\ refresher[t].at \in {"idle", "post", "again"}
        /\ refresher[t].at = "post" => refresher[t].hash \in Txs
    BY <1>1 DEF Refreshers, Idle
  <1>3. /\ sender[t].at \in {"idle", "status", "identity", "prompt", "answered", "post", "recover"}
        /\ sender[t].at = "status" => sender[t].got \in Answers /\ sender[t].reviewed \in OrNone(Txs)
        /\ sender[t].at \in {"answered", "post", "recover"} => sender[t].hash \in Txs
    <2> HIDE DEF Txs, Answers
    <2> QED BY <1>1 DEF Senders, Idle
  <1> QED BY <1>2, <1>3 DEF TypeOK, OrNone

\* A journal with what is confirmed and reviewed now, and perhaps a hash.
Base(j) ==
  /\ j \in Journals /\ JournalOK(j)
  /\ j.confirmed = journal.confirmed /\ j.review = journal.review

\* What the utility may turn the journal into.
Follows(j) ==
  /\ j \in Journals /\ JournalOK(j)
  /\ Len(journal.confirmed) <= Len(j.confirmed)
  /\ \A tx \in Txs : Known(tx, journal) => Known(tx, j)
  /\ VerifiedCompletion(journal) => VerifiedCompletion(j)
  /\ NoneOut => Len(j.confirmed) = Len(journal.confirmed)

LEMMA JournalTyped ==
  ASSUME NEW j \in Journals
  PROVE  /\ j.confirmed \in Seq(Txs) /\ Len(j.confirmed) \in Nat
         /\ j.pending \in OrNone(Txs) /\ j.review \in OrNone(Txs)
  BY DEF Journals

LEMMA TxTyped ==
  ASSUME NEW tx \in Txs
  PROVE  tx.step \in 0 .. Steps /\ tx.step \in Nat /\ tx # None
  BY DeploymentAssumption DEF Txs

LEMMA BaseJournal == PlanInv => Base(journal) /\ Follows(journal)
  BY JournalTyped DEF PlanInv, TypeOK, Base, Follows

\* A complete journal has no review left, and nothing can be tracked in it.
LEMMA CompleteRests ==
  ASSUME NEW j \in Journals, JournalOK(j), Len(j.confirmed) = Steps
  PROVE  j.review = None /\ j.pending = None
  BY DEF JournalOK

LEMMA BaseFollows ==
  ASSUME PlanInv, NEW j, Base(j)
  PROVE  Follows(j)
  <1>1. journal \in Journals /\ JournalOK(journal)
    BY DEF PlanInv, TypeOK
  <1>2. VerifiedCompletion(journal) => VerifiedCompletion(j)
    BY CompleteRests DEF Base, VerifiedCompletion, Complete
  <1>3. \A tx \in Txs : Known(tx, journal) => Known(tx, j)
    BY DEF Base, Known
  <1> QED BY <1>1, <1>2, <1>3, JournalTyped DEF Base, Follows

LEMMA RefreshedFollows ==
  ASSUME PlanInv, NEW j, Base(j)
  PROVE  /\ Follows(Refreshed(j))
         /\ Refreshed(j).pending # None => Refreshed(j) = j
  <1>1. CASE j.pending # None /\ Valid(j.pending, j) /\ Mined(j.pending)
    <2> DEFINE c == j.confirmed
               p == j.pending
               k == [confirmed |-> Append(c, p), pending |-> None, review |-> None]
    <2>1. Refreshed(j) = k
      BY <1>1 DEF Refreshed
    <2>2. /\ c \in Seq(Txs) /\ Len(c) \in Nat /\ p \in Txs /\ p.step = Len(c) /\ p = j.review
          /\ p \in sent /\ Mined(p) /\ Len(c) < Steps /\ Len(c) <= Len(mined)
          /\ \A i \in 1 .. Len(c) : c[i] \in sent /\ c[i].step = i - 1 /\ Mined(c[i])
          /\ c = journal.confirmed /\ p = journal.review
      BY <1>1, JournalTyped DEF Base, JournalOK, Valid, OrNone
    <2>3. Len(mined) > Len(c) /\ Len(mined) \in Nat
      BY <2>2 DEF Mined, PlanInv, TypeOK
    <2>4. /\ k \in Journals /\ k.review = None /\ k.pending = None /\ k.confirmed = Append(c, p)
      BY <2>2 DEF Journals, OrNone
    <2> HIDE DEF k
    <2> DEFINE d == Append(c, p)
    <2>5. /\ Len(d) = Len(c) + 1 /\ d[Len(c) + 1] = p
          /\ \A i \in 1 .. Len(c) : d[i] = c[i]
      BY <2>2
    <2>6. ASSUME NEW i \in 1 .. Len(d) PROVE d[i] \in sent /\ d[i].step = i - 1 /\ Mined(d[i])
      <3> HIDE DEF c, p, d
      <3>1. CASE i = Len(c) + 1
        BY <2>2, <2>5, <3>1
      <3>2. CASE i \in 1 .. Len(c)
        BY <2>2, <2>5, <3>2
      <3> QED BY <2>2, <2>5, <3>1, <3>2
    <2> HIDE DEF d
    <2>7. JournalOK(k)
      BY <2>2, <2>3, <2>4, <2>5, <2>6, DeploymentAssumption DEF JournalOK, d
    <2>8. \A tx \in Txs : Known(tx, journal) => Known(tx, k)
      BY <2>2, <2>4, <2>5, TxTyped DEF Known, d
    <2>9. ~NoneOut
      BY <2>2 DEF NoneOut, Out
    <2>10. ~VerifiedCompletion(journal)
      BY <2>2, DeploymentAssumption DEF VerifiedCompletion, Complete
    <2>11. Len(journal.confirmed) <= Len(k.confirmed)
      BY <2>2, <2>4, <2>5 DEF d
    <2> QED BY <2>1, <2>4, <2>7, <2>8, <2>9, <2>10, <2>11 DEF Follows
  <1>2. CASE ~(j.pending # None /\ Valid(j.pending, j) /\ Mined(j.pending))
    BY <1>2, BaseFollows DEF Refreshed
  <1> QED BY <1>1, <1>2

\* What getArcStatus saves and answers.
LEMMA StatusOutcome ==
  ASSUME PlanInv, NEW o \in Blocked \cup Verified
  PROVE  /\ Follows(o[1])
         /\ o[2] \in Answers /\ KnownAnswer(o[2], o[1])
         /\ o[2].confirmed = Len(o[1].confirmed)
  <1> DEFINE r == Refreshed(journal)
  <1>1. Follows(journal) /\ Follows(r)
    BY BaseJournal, RefreshedFollows
  <1>2. ASSUME NEW j, Follows(j), NEW phase \in Phases, NEW next, next = None \/ (next = j.review /\ next # None)
        PROVE  /\ Answer(j, phase, next) \in Answers /\ KnownAnswer(Answer(j, phase, next), j)
               /\ Answer(j, phase, next).confirmed = Len(j.confirmed)
    <2>1. /\ Len(j.confirmed) \in 0 .. Steps /\ j.pending \in Txs \cup {None} /\ next \in Txs \cup {None}
          /\ next # None => next.step = Len(j.confirmed)
      BY <1>2, JournalTyped, DeploymentAssumption DEF Follows, JournalOK, OrNone
    <2> HIDE DEF Follows
    <2> QED BY <1>2, <2>1 DEF Answer, Answers, KnownAnswer, Known, Phases
  <1>3. CASE o \in Blocked
    <2>1. PICK j \in {journal, r} : o = <<j, Answer(j, "blocked", None)>>
      BY <1>3 DEF Blocked
    <2> HIDE DEF r
    <2> QED BY <1>1, <1>2, <2>1 DEF Phases
  <1>4. CASE o \in Verified /\ ~(r.pending = None /\ ~Complete(r) /\ Len(mined) = Len(r.confirmed))
    <2>1. \E phase \in Phases : o = <<r, Answer(r, phase, None)>>
      BY <1>4 DEF Verified, Phases
    <2> HIDE DEF r
    <2> QED BY <1>1, <1>2, <2>1
  <1>5. CASE o \in Verified /\ r.pending = None /\ ~Complete(r) /\ Len(mined) = Len(r.confirmed)
    <2>1. PICK k \in Reviews(r) : o = <<k, Answer(k, "ready", k.review)>>
      BY <1>5 DEF Verified
    <2> HIDE DEF r
    <2>2. Follows(k) /\ k.review # None
      <3>1. CASE r.review # None
        BY <1>1, <2>1, <3>1 DEF Reviews
      <3>2. CASE r.review = None
        <4> DEFINE c == r.confirmed
        <4>1. PICK q \in Quotes[Len(c)] : k = [r EXCEPT !.review = [step |-> Len(c), quote |-> q]]
          BY <2>1, <3>2 DEF Reviews
        <4> DEFINE tx == [step |-> Len(c), quote |-> q]
        <4>2. r \in Journals /\ JournalOK(r) /\ c \in Seq(Txs) /\ Len(c) \in Nat /\ Len(c) < Steps
          BY <1>1, <1>5, JournalTyped, DeploymentAssumption DEF Follows, JournalOK, Complete
        <4>3. Len(c) \in 0 .. Steps - 1 /\ q \in UNION {Quotes[i] : i \in 0 .. Steps - 1}
          BY <4>2, DeploymentAssumption
        <4>4. tx \in Txs /\ tx.step = Len(c) /\ tx # None
          <5>1. tx \in Txs /\ tx.step = Len(c)
            BY <4>2, <4>3, DeploymentAssumption DEF Txs
          <5> HIDE DEF tx
          <5> QED BY <5>1, TxTyped
        <4>5. k = [r EXCEPT !.review = tx]
          BY <4>1
        <4> HIDE DEF tx
        <4>6. k \in Journals /\ k.confirmed = c /\ k.pending = r.pending /\ k.review = tx
          BY <4>2, <4>4, <4>5 DEF Journals, OrNone
        <4>7. JournalOK(k)
          BY <1>5, <4>2, <4>4, <4>6 DEF JournalOK
        <4>8. ASSUME NEW u \in Txs, Known(u, r) PROVE Known(u, k)
          BY <3>2, <4>6, <4>8, TxTyped DEF Known
        <4>9. VerifiedCompletion(r) => VerifiedCompletion(k)
          BY <4>6 DEF VerifiedCompletion, Complete
        <4> QED BY <1>1, <4>4, <4>6, <4>7, <4>8, <4>9 DEF Follows
      <3> QED BY <3>1, <3>2
    <2> QED BY <1>2, <2>1, <2>2 DEF Phases
  <1> QED BY <1>3, <1>4, <1>5

\* What recordArcTransaction saves for a hash.
LEMMA RecordOutcome ==
  ASSUME PlanInv, NEW tx \in sent, NEW j \in Recorded(tx)
  PROVE  Follows(j)
  <1>1. CASE j = journal
    BY <1>1, BaseJournal
  <1>2. CASE Accepts(tx) /\ j \in {Tracked(tx), Refreshed(Tracked(tx))}
    <2> DEFINE u == Tracked(tx)
    <2>1. journal \in Journals /\ JournalOK(journal) /\ tx \in Txs
      BY DEF PlanInv, TypeOK
    <2>2. u \in Journals /\ u.confirmed = journal.confirmed /\ u.review = journal.review /\ u.pending = tx
      BY <2>1 DEF Tracked, Journals, OrNone
    <2>3. journal.review # None
      BY <1>2 DEF Accepts
    <2> HIDE DEF u
    <2>4. Base(u)
      BY <2>1, <2>2, <2>3 DEF Base, JournalOK
    <2>5. Follows(u) /\ Follows(Refreshed(u))
      BY <2>4, BaseFollows, RefreshedFollows
    <2> QED BY <1>2, <2>5 DEF u
  <1> QED BY <1>1, <1>2 DEF Recorded

-----------------------------------------------------------------------------
(* The steps keep PlanInv.                                                 *)

LEMMA AnswerStays ==
  ASSUME PlanInv, NEW answer \in Answers, KnownAnswer(answer, journal), NEW j, Follows(j)
  PROVE  KnownAnswer(answer, j)
  <1>1. answer.confirmed \in Nat /\ answer.next \in OrNone(Txs)
    BY DeploymentAssumption DEF Answers, OrNone
  <1>2. Len(journal.confirmed) \in Nat /\ Len(j.confirmed) \in Nat
    BY JournalTyped DEF Follows, PlanInv, TypeOK
  <1> QED BY <1>1, <1>2 DEF KnownAnswer, Follows, OrNone

\* What is left to show of a step that mines nothing.
LEMMA PlanKept ==
  ASSUME PlanInv, TypeOK', Follows(journal'), mined' = mined, sent \subseteq sent',
         \A tx \in Out' : Known(tx, journal) \/ Known(tx, journal'), HashesSent', ActiveIsVerified',
         \A t \in Tabs :
           /\ view'[t] # None => view'[t] = view[t] \/ KnownAnswer(view'[t], journal')
           /\ sender'[t].at = "status" =>
                sender'[t] = sender[t] \/ KnownAnswer(sender'[t].got, journal')
           /\ sender'[t].at # "idle" \/ refresher'[t].at # "idle" => view'[t] # None
  PROVE  PlanInv'
  <1>1. JournalOK(journal)'
    BY DEF Follows, JournalOK, Mined
  <1>2. ASSUME NEW tx \in Out' PROVE Known(tx, journal')
    <2>1. tx \in Txs
      BY DEF TypeOK, Out
    <2> QED BY <1>2, <2>1 DEF Follows
  <1>3. ASSUME NEW t \in Tabs, view'[t] # None PROVE KnownAnswer(view'[t], journal')
    <2>1. CASE view'[t] = view[t]
      <3>1. view[t] # None /\ view[t] \in Answers /\ KnownAnswer(view[t], journal)
        BY <1>3, <2>1, TabsTyped DEF PlanInv
      <3> QED BY <2>1, <3>1, AnswerStays
    <2> QED BY <1>3, <2>1
  <1>4. ASSUME NEW t \in Tabs, sender'[t].at = "status" PROVE KnownAnswer(sender'[t].got, journal')
    <2>1. CASE sender'[t] = sender[t]
      <3>1. sender[t].at = "status" /\ sender[t].got \in Answers /\ KnownAnswer(sender[t].got, journal)
        BY <1>4, <2>1, TabsTyped DEF PlanInv
      <3> QED BY <2>1, <3>1, AnswerStays
    <2> QED BY <1>4, <2>1
  <1>5. /\ \A tx \in Out' : Known(tx, journal')
        /\ \A t \in Tabs : /\ view'[t] # None => KnownAnswer(view'[t], journal')
                           /\ sender'[t].at = "status" => KnownAnswer(sender'[t].got, journal')
    BY <1>2, <1>3, <1>4
  <1> QED BY <1>1, <1>5 DEF PlanInv, Known, KnownAnswer

\* The application stays verified as long as nothing is published.
LEMMA StaysVerified ==
  ASSUME PlanInv, Follows(journal'), mined' = mined, files' = files, serving' = serving
  PROVE  ActiveIsVerified'
  BY DEF PlanInv, Follows, ActiveIsVerified, VerifiedActive, VerifiedCompletion, Mined, Complete

\* The utility alone has changed something, killed or not.
LEMMA PublishedKeeps ==
  ASSUME PlanInv, NEW j, NEW published, journal' = j, files' = published,
         UNCHANGED <<tabs, chain, serving, page>>, Follows(j), published \subseteq {"report", "manifest"}, ActiveIsVerified'
  PROVE  PlanInv'
  <1>1. TypeOK'
    BY DEF PlanInv, TypeOK, Follows, chain, page
  <1>2. Out' = Out /\ HashesSent' /\ mined' = mined /\ sent' = sent
    BY DEF PlanInv, HashesSent, Out, chain, page
  <1> QED BY <1>1, <1>2, PlanKept DEF PlanInv, page

LEMMA KilledInStatusKeeps == PlanInv /\ KilledInStatus => PlanInv'
  <1> SUFFICES ASSUME PlanInv, KilledInStatus PROVE PlanInv'
    OBVIOUS
  <1>1. PICK o \in Blocked \cup Verified : Killed(o[1], files)
    BY DEF KilledInStatus
  <1>2. Follows(o[1])
    BY StatusOutcome
  <1>3. ActiveIsVerified'
    BY <1>1, <1>2, StaysVerified DEF Killed, chain
  <1> QED BY <1>1, <1>2, <1>3, PublishedKeeps DEF Killed, PlanInv, TypeOK

LEMMA KilledInRecordKeeps == PlanInv /\ KilledInRecord => PlanInv'
  <1> SUFFICES ASSUME PlanInv, KilledInRecord PROVE PlanInv'
    OBVIOUS
  <1>1. PICK t \in Tabs : \E f \in {refresher[t], sender[t]} :
          f.at \in Posting /\ \E j \in {journal} \cup Recorded(f.hash) : Killed(j, files)
    BY DEF KilledInRecord, PlanInv, TypeOK, Refreshers
  <1>2. PICK f \in {refresher[t], sender[t]} :
          f.at \in Posting /\ \E j \in {journal} \cup Recorded(f.hash) : Killed(j, files)
    BY <1>1
  <1>3. PICK j \in {journal} \cup Recorded(f.hash) : Killed(j, files)
    BY <1>2
  <1>4. f.hash \in sent
    BY <1>2, TabsTyped DEF PlanInv, HashesSent, Posting
  <1>5. Follows(j)
    BY <1>4, RecordOutcome, BaseJournal
  <1>6. ActiveIsVerified'
    BY <1>3, <1>5, StaysVerified DEF Killed, chain
  <1> QED BY <1>3, <1>5, <1>6, PublishedKeeps DEF Killed, PlanInv, TypeOK

\* What a completed journal allows to be published, in this order.
LEMMA PublishesVerified ==
  ASSUME PlanInv, VerifiedCompletion(Refreshed(journal)), journal' = Refreshed(journal),
         mined' = mined, files \subseteq files',
         "manifest" \in files' => "report" \in files' \/ "manifest" \in files, serving' = serving
  PROVE  ActiveIsVerified'
  <1>1. VerifiedCompletion(journal)'
    BY DEF VerifiedCompletion, Complete, Mined
  <1> QED BY <1>1 DEF PlanInv, ActiveIsVerified, VerifiedActive

LEMMA KilledInActivationKeeps == PlanInv /\ KilledInActivation => PlanInv'
  <1> SUFFICES ASSUME PlanInv, KilledInActivation PROVE PlanInv'
    OBVIOUS
  <1> DEFINE j == Refreshed(journal)
  <1>1. PICK n \in 0 .. 1 : Killed(j, files \cup Range(SubSeq(Publication, 1, n)))
    BY DEF KilledInActivation
  <1>2. Range(SubSeq(Publication, 1, n)) \subseteq {"report"}
    <2> DEFINE s == SubSeq(Publication, 1, n)
    <2>1. \A i \in DOMAIN s : i = 1 /\ s[i] = "report"
      BY DEF Publication
    <2> HIDE DEF s
    <2>2. Range(s) \subseteq {"report"}
      BY <2>1 DEF Range
    <2> QED BY <2>2 DEF s
  <1>3. Follows(j)
    BY BaseJournal, RefreshedFollows
  <1>4. /\ journal' = j /\ mined' = mined /\ serving' = serving /\ VerifiedCompletion(j)
        /\ files' = files \cup Range(SubSeq(Publication, 1, n))
    BY <1>1 DEF Killed, KilledInActivation, Activates, chain
  <1>5. ActiveIsVerified'
    BY <1>2, <1>4, PublishesVerified
  <1>6. files \cup Range(SubSeq(Publication, 1, n)) \subseteq {"report", "manifest"}
    BY <1>2 DEF PlanInv, TypeOK
  <1> QED BY <1>1, <1>3, <1>5, <1>6, PublishedKeeps DEF Killed

LEMMA ActivateKeeps == \A t \in Tabs : PlanInv /\ Activate(t) => PlanInv'
  <1> SUFFICES ASSUME NEW t \in Tabs, PlanInv, Activate(t) PROVE PlanInv'
    OBVIOUS
  <1> DEFINE j == Refreshed(journal)
  <1>1. Range(Publication) = {"report", "manifest"}
    <2> DEFINE s == Publication
    <2>1. DOMAIN s = {1, 2} /\ s[1] = "report" /\ s[2] = "manifest"
      BY DEF Publication
    <2> HIDE DEF s
    <2>2. Range(s) = {"report", "manifest"}
      BY <2>1 DEF Range
    <2> QED BY <2>2 DEF s
  <1>2. Follows(j)
    BY BaseJournal, RefreshedFollows
  <1>3. /\ journal' = j /\ files' = {"report", "manifest"} /\ VerifiedCompletion(j)
        /\ UNCHANGED <<tabs, chain, serving, page>>
    BY <1>1 DEF Activate, Activates
  <1>4. ActiveIsVerified'
    BY <1>3, PublishesVerified DEF chain, PlanInv, TypeOK
  <1> QED BY <1>2, <1>3, <1>4, PublishedKeeps

\* A step of a page that asks and sends nothing.
LEMMA PageKept ==
  ASSUME PlanInv, TypeOK', Follows(journal'), UNCHANGED <<mined, sent, files, serving>>,
         requests' \subseteq requests, HashesSent',
         \A t \in Tabs :
           /\ view'[t] # None => view'[t] = view[t] \/ KnownAnswer(view'[t], journal')
           /\ sender'[t].at = "status" =>
                sender'[t] = sender[t] \/ KnownAnswer(sender'[t].got, journal')
           /\ sender'[t].at # "idle" \/ refresher'[t].at # "idle" => view'[t] # None
  PROVE  PlanInv'
  <1>1. ActiveIsVerified'
    BY StaysVerified
  <1>2. \A tx \in Out' : Known(tx, journal)
    BY DEF Out, PlanInv
  <1> QED BY <1>1, <1>2, PlanKept

LEMMA TypeFunctions ==
  ASSUME TypeOK
  PROVE  /\ view \in [Tabs -> OrNone(Answers)] /\ attempt \in [Tabs -> OrNone(Attempts)]
         /\ refresher \in [Tabs -> Refreshers] /\ sender \in [Tabs -> Senders]
         /\ Idle \in Refreshers /\ Idle \in Senders /\ Idle.at = "idle"
         /\ None \in OrNone(Answers) /\ None \in OrNone(Attempts)
         /\ store \in OrNone(Attempts)
  BY DEF TypeOK, Idle, Refreshers, Senders, OrNone

LEMMA CloseKeeps == \A t \in Tabs : PlanInv /\ Close(t) => PlanInv'
  <1> SUFFICES ASSUME NEW t \in Tabs, PlanInv, Close(t) PROVE PlanInv'
    OBVIOUS
  <1>1. /\ view' = [view EXCEPT ![t] = None] /\ attempt' = [attempt EXCEPT ![t] = None]
        /\ refresher' = [refresher EXCEPT ![t] = Idle] /\ sender' = [sender EXCEPT ![t] = Idle]
        /\ requests' \subseteq requests
        /\ UNCHANGED <<tabs, mined, sent, disk, serving, store>>
    BY DEF Close
  <1>2. TypeOK'
    BY <1>1, TypeFunctions DEF PlanInv, TypeOK, disk
  <1>3. HashesSent'
    BY <1>1, TypeFunctions DEF PlanInv, HashesSent
  <1>4. Follows(journal')
    BY <1>1, BaseJournal DEF disk
  <1>5. \A u \in Tabs :
           /\ view'[u] # None => view'[u] = view[u] \/ KnownAnswer(view'[u], journal')
           /\ sender'[u].at = "status" =>
                sender'[u] = sender[u] \/ KnownAnswer(sender'[u].got, journal')
           /\ sender'[u].at # "idle" \/ refresher'[u].at # "idle" => view'[u] # None
    BY <1>1, TypeFunctions DEF PlanInv
  <1> QED BY <1>1, <1>2, <1>3, <1>4, <1>5, PageKept DEF disk

LEMMA StorageEventKeeps == \A t \in Tabs : PlanInv /\ StorageEvent(t) => PlanInv'
  <1> SUFFICES ASSUME NEW t \in Tabs, PlanInv, StorageEvent(t) PROVE PlanInv'
    OBVIOUS
  <1>1. /\ attempt' = [attempt EXCEPT ![t] = store]
        /\ UNCHANGED <<tabs, mined, sent, requests, journal, files, serving, store, view, refresher, sender>>
    BY DEF StorageEvent, chain, disk
  <1>2. TypeOK'
    BY <1>1, TypeFunctions DEF PlanInv, TypeOK
  <1>3. HashesSent'
    BY <1>1, TypeFunctions DEF PlanInv, HashesSent
  <1> QED BY <1>1, <1>2, <1>3, BaseJournal, PageKept DEF PlanInv

\* The three reads of the status.
LEMMA StatusRead ==
  ASSUME PlanInv, NEW t \in Tabs, NEW o \in Blocked \cup Verified, Status(t, Blocked \cup Verified, o)
  PROVE  /\ journal' = o[1] /\ Follows(journal')
         /\ o[2] \in Answers /\ o[2] # None /\ KnownAnswer(o[2], journal')
         /\ o[2].confirmed = Len(journal'.confirmed)
         /\ UNCHANGED <<tabs, mined, sent, requests, files, serving>>
         /\ Runs(t)
  <1>1. \A answer \in Answers : answer # None
    BY DeploymentAssumption
  <1> QED BY <1>1, StatusOutcome DEF Status, chain

LEMMA RefreshKeeps == \A t \in Tabs : PlanInv /\ Refresh(t, Blocked \cup Verified) => PlanInv'
  <1> SUFFICES ASSUME NEW t \in Tabs, PlanInv, Refresh(t, Blocked \cup Verified) PROVE PlanInv'
    OBVIOUS
  <1>1. PICK o \in Blocked \cup Verified :
          /\ Status(t, Blocked \cup Verified, o)
          /\ view' = [view EXCEPT ![t] = o[2]]
          /\ LET loaded == IF view[t] = None THEN store ELSE attempt[t]
                 a == IF Over(loaded, o[2]) THEN None ELSE loaded
             IN  /\ store' = IF Over(loaded, o[2]) THEN None ELSE store
                 /\ attempt' = [attempt EXCEPT ![t] = a]
                 /\ refresher' = [refresher EXCEPT ![t] =
                      IF Reposts(a, o[2]) THEN [at |-> "post", hash |-> a.hash] ELSE Idle]
    BY DEF Refresh
  <1> DEFINE loaded == IF view[t] = None THEN store ELSE attempt[t]
             a == IF Over(loaded, o[2]) THEN None ELSE loaded
             f == IF Reposts(a, o[2]) THEN [at |-> "post", hash |-> a.hash] ELSE Idle
  <1>2. /\ store' \in {store, None} /\ attempt' = [attempt EXCEPT ![t] = a]
        /\ refresher' = [refresher EXCEPT ![t] = f] /\ sender' = sender
    BY <1>1 DEF Refresh
  <1>3. a \in {None, store, attempt[t]}
    OBVIOUS
  <1>4. a \in OrNone(Attempts) /\ (a # None /\ a.hash # None => a.hash \in sent)
    BY <1>3, TypeFunctions DEF PlanInv, HashesSent
  <1> HIDE DEF a, loaded
  <1>5. f \in Refreshers /\ (f.at = "post" => f.hash \in sent)
    <2>1. CASE Reposts(a, o[2])
      <3>1. a # None /\ a.hash # None
        BY <2>1 DEF Reposts
      <3>2. a.hash \in Txs /\ a.hash \in sent
        BY <1>4, <3>1 DEF OrNone, Attempts
      <3> HIDE DEF Txs
      <3> QED BY <2>1, <3>2 DEF Refreshers
    <2>2. CASE ~Reposts(a, o[2])
      BY <2>2, TypeFunctions DEF PlanInv
    <2> QED BY <2>1, <2>2
  <1> HIDE DEF f
  <1>6. /\ journal' = o[1] /\ Follows(journal')
        /\ o[2] \in Answers /\ o[2] # None /\ KnownAnswer(o[2], journal')
        /\ UNCHANGED <<tabs, mined, sent, requests, files, serving>>
    BY <1>1, StatusRead
  <1>7. TypeOK'
    <2>1. view' \in [Tabs -> OrNone(Answers)]
      BY <1>1, <1>6, TypeFunctions DEF PlanInv, OrNone
    <2>2. /\ attempt' \in [Tabs -> OrNone(Attempts)] /\ refresher' \in [Tabs -> Refreshers]
          /\ store' \in OrNone(Attempts) /\ sender' \in [Tabs -> Senders]
      BY <1>2, <1>4, <1>5, TypeFunctions DEF PlanInv
    <2> QED BY <1>6, <2>1, <2>2 DEF PlanInv, TypeOK, Follows
  <1>8. HashesSent'
    BY <1>2, <1>4, <1>5, <1>6, TypeFunctions DEF PlanInv, HashesSent
  <1>9. \A u \in Tabs :
           /\ view'[u] # None => view'[u] = view[u] \/ KnownAnswer(view'[u], journal')
           /\ sender'[u].at = "status" =>
                sender'[u] = sender[u] \/ KnownAnswer(sender'[u].got, journal')
           /\ sender'[u].at # "idle" \/ refresher'[u].at # "idle" => view'[u] # None
    BY <1>1, <1>2, <1>6, TypeFunctions DEF PlanInv
  <1> QED BY <1>6, <1>7, <1>8, <1>9, PageKept

LEMMA RefreshAgainKeeps == \A t \in Tabs : PlanInv /\ RefreshAgain(t, Blocked \cup Verified) => PlanInv'
  <1> SUFFICES ASSUME NEW t \in Tabs, PlanInv, RefreshAgain(t, Blocked \cup Verified) PROVE PlanInv'
    OBVIOUS
  <1>1. PICK o \in Blocked \cup Verified :
          /\ Status(t, Blocked \cup Verified, o)
          /\ view' = [view EXCEPT ![t] = o[2]]
          /\ IF Over(attempt[t], o[2]) THEN Saves(t, None) ELSE UNCHANGED <<store, attempt>>
    BY DEF RefreshAgain
  <1>2. /\ store' \in {store, None}
        /\ attempt' = [attempt EXCEPT ![t] = None] \/ attempt' = attempt
        /\ refresher' = [refresher EXCEPT ![t] = Idle] /\ sender' = sender
    BY <1>1 DEF RefreshAgain, Saves
  <1>3. /\ journal' = o[1] /\ Follows(journal')
        /\ o[2] \in Answers /\ o[2] # None /\ KnownAnswer(o[2], journal')
        /\ UNCHANGED <<tabs, mined, sent, requests, files, serving>>
    BY <1>1, StatusRead
  <1>4. TypeOK'
    <2>1. view' \in [Tabs -> OrNone(Answers)]
      BY <1>1, <1>3, TypeFunctions DEF PlanInv, OrNone
    <2>2. /\ attempt' \in [Tabs -> OrNone(Attempts)] /\ refresher' \in [Tabs -> Refreshers]
          /\ store' \in OrNone(Attempts) /\ sender' \in [Tabs -> Senders]
      BY <1>2, TypeFunctions DEF PlanInv
    <2> QED BY <1>3, <2>1, <2>2 DEF PlanInv, TypeOK, Follows
  <1>5. HashesSent'
    BY <1>2, <1>3, TypeFunctions DEF PlanInv, HashesSent
  <1>6. \A u \in Tabs :
           /\ view'[u] # None => view'[u] = view[u] \/ KnownAnswer(view'[u], journal')
           /\ sender'[u].at = "status" =>
                sender'[u] = sender[u] \/ KnownAnswer(sender'[u].got, journal')
           /\ sender'[u].at # "idle" \/ refresher'[u].at # "idle" => view'[u] # None
    BY <1>1, <1>2, <1>3, TypeFunctions DEF PlanInv
  <1> QED BY <1>3, <1>4, <1>5, <1>6, PageKept

\* A post saves what the hash is good for, and leaves the page as it is.
LEMMA PostFollows ==
  ASSUME PlanInv, NEW t \in Tabs, NEW f \in {refresher[t], sender[t]}, Posts(t, f)
  PROVE  /\ Follows(journal') /\ UNCHANGED <<tabs, mined, sent, requests, files, serving, store, view, attempt>>
         /\ f.hash \in sent /\ f.at \in Posting
  <1>1. f.hash \in sent
    BY TabsTyped DEF Posts, PlanInv, HashesSent, Posting
  <1> QED BY <1>1, RecordOutcome DEF Posts, chain

\* What is left of an operation of the page that is over.
LEMMA IdleKeeps ==
  ASSUME PlanInv, NEW t \in Tabs, Follows(journal'),
         UNCHANGED <<tabs, mined, sent, requests, files, serving, store, view, attempt>>,
         \/ sender' = [sender EXCEPT ![t] = Idle] /\ refresher' = refresher
         \/ sender' = sender /\ refresher' = [refresher EXCEPT ![t] = Idle]
         \/ /\ sender' = sender /\ refresher[t].at # "idle"
            /\ refresher' = [refresher EXCEPT ![t] = [at |-> "again"]]
  PROVE  PlanInv'
  <1>1. [at |-> "again"] \in Refreshers
    BY DEF Refreshers
  <1>2. TypeOK'
    BY <1>1, TypeFunctions DEF PlanInv, TypeOK, Follows
  <1>3. HashesSent'
    BY TypeFunctions DEF PlanInv, HashesSent
  <1>4. \A u \in Tabs :
           /\ view'[u] # None => view'[u] = view[u] \/ KnownAnswer(view'[u], journal')
           /\ sender'[u].at = "status" =>
                sender'[u] = sender[u] \/ KnownAnswer(sender'[u].got, journal')
           /\ sender'[u].at # "idle" \/ refresher'[u].at # "idle" => view'[u] # None
    BY TypeFunctions DEF PlanInv
  <1> QED BY <1>2, <1>3, <1>4, PageKept

LEMMA PostsKeep ==
  \A t \in Tabs : PlanInv /\ (RefreshPosts(t) \/ SenderPosts(t) \/ RefreshFails(t) \/ SenderFails(t)) => PlanInv'
  <1> SUFFICES ASSUME NEW t \in Tabs, PlanInv,
                      RefreshPosts(t) \/ SenderPosts(t) \/ RefreshFails(t) \/ SenderFails(t)
               PROVE  PlanInv'
    OBVIOUS
  <1>1. CASE RefreshPosts(t)
    BY <1>1, PostFollows, IdleKeeps DEF RefreshPosts, Posting
  <1>2. CASE SenderPosts(t)
    BY <1>2, PostFollows, IdleKeeps DEF SenderPosts
  <1>3. CASE RefreshFails(t) \/ SenderFails(t)
    BY <1>3, BaseJournal, IdleKeeps DEF RefreshFails, SenderFails, chain, disk
  <1> QED BY <1>1, <1>2, <1>3

-----------------------------------------------------------------------------
(* The sender and the wallet keep PlanInv.                                 *)

\* A step of a sender, which reads a status at most.
LEMMA SenderKept ==
  ASSUME PlanInv, NEW t \in Tabs, Follows(journal'),
         UNCHANGED <<tabs, mined, sent, requests, files, serving, refresher>>,
         NEW f \in Senders, sender' = [sender EXCEPT ![t] = f],
         f.at = "status" => KnownAnswer(f.got, journal'),
         f.at \in {"answered", "post", "recover"} => f.hash \in sent,
         NEW v, v = view[t] \/ (v \in Answers /\ KnownAnswer(v, journal')),
         view[t] # None, v # None, view' = [view EXCEPT ![t] = v],
         NEW a \in OrNone(Attempts), a # None /\ a.hash # None => a.hash \in sent,
         attempt' = [attempt EXCEPT ![t] = a], store' \in {store, a}
  PROVE  PlanInv'
  <1>1. v \in OrNone(Answers)
    BY TypeFunctions DEF PlanInv, OrNone
  <1>2. TypeOK'
    BY <1>1, TypeFunctions DEF PlanInv, TypeOK, Follows
  <1>3. HashesSent'
    BY TypeFunctions DEF PlanInv, HashesSent
  <1>4. \A u \in Tabs :
           /\ view'[u] # None => view'[u] = view[u] \/ KnownAnswer(view'[u], journal')
           /\ sender'[u].at = "status" =>
                sender'[u] = sender[u] \/ KnownAnswer(sender'[u].got, journal')
           /\ sender'[u].at # "idle" \/ refresher'[u].at # "idle" => view'[u] # None
    BY TypeFunctions DEF PlanInv
  <1> QED BY <1>2, <1>3, <1>4, PageKept

LEMMA Unmoved ==
  ASSUME TypeOK, NEW t \in Tabs
  PROVE  /\ view = [view EXCEPT ![t] = view[t]]
         /\ attempt = [attempt EXCEPT ![t] = attempt[t]]
         /\ sender = [sender EXCEPT ![t] = sender[t]]
         /\ view[t] \in OrNone(Answers) /\ attempt[t] \in OrNone(Attempts)
         /\ sender[t] \in Senders
  BY TypeFunctions

LEMMA SendAsksKeeps == \A t \in Tabs : PlanInv /\ SendAsks(t) => PlanInv'
  <1> SUFFICES ASSUME NEW t \in Tabs, PlanInv, SendAsks(t) PROVE PlanInv'
    OBVIOUS
  <1>1. PICK o \in Blocked \cup Verified :
          /\ Status(t, Blocked \cup Verified, o)
          /\ sender' = [sender EXCEPT ![t] =
               [at |-> "status", reviewed |-> view[t].next, got |-> o[2]]]
    BY DEF SendAsks
  <1> DEFINE f == [at |-> "status", reviewed |-> view[t].next, got |-> o[2]]
  <1>2. /\ Follows(journal') /\ o[2] \in Answers /\ KnownAnswer(o[2], journal')
        /\ UNCHANGED <<tabs, mined, sent, requests, files, serving>>
    BY <1>1, StatusRead
  <1>3. view[t] # None /\ UNCHANGED <<store, view, attempt, refresher>>
    BY DEF SendAsks
  <1>4. view[t].next \in OrNone(Txs)
    BY <1>3, TabsTyped DEF PlanInv, Answers, OrNone
  <1>5. f \in Senders /\ f.at = "status" /\ f.got = o[2]
    <2> HIDE DEF Answers, Txs
    <2> QED BY <1>2, <1>4 DEF Senders
  <1>6. sender' = [sender EXCEPT ![t] = f]
    BY <1>1
  <1> HIDE DEF f
  <1> DEFINE v == view[t]
             a == attempt[t]
  <1>7. a # None /\ a.hash # None => a.hash \in sent
    BY DEF PlanInv, HashesSent
  <1>8. /\ view' = [view EXCEPT ![t] = v] /\ attempt' = [attempt EXCEPT ![t] = a] /\ store' = store
        /\ a \in OrNone(Attempts) /\ v = view[t] /\ v # None
    BY <1>3, Unmoved DEF PlanInv
  <1> HIDE DEF v, a
  <1> QED BY <1>2, <1>3, <1>5, <1>6, <1>7, <1>8, SenderKept

LEMMA SendGetsKeeps == \A t \in Tabs : PlanInv /\ SendGets(t) => PlanInv'
  <1> SUFFICES ASSUME NEW t \in Tabs, PlanInv, SendGets(t) PROVE PlanInv'
    OBVIOUS
  <1> DEFINE answer == sender[t].got
             f == IF store = None /\ answer.phase = "ready" /\ answer.next = sender[t].reviewed
                  THEN [at |-> "identity"] ELSE Idle
  <1>1. /\ sender[t].at = "status" /\ view' = [view EXCEPT ![t] = answer]
        /\ attempt' = [attempt EXCEPT ![t] = store] /\ sender' = [sender EXCEPT ![t] = f]
        /\ UNCHANGED <<tabs, mined, sent, requests, journal, files, serving, store, refresher>>
    BY DEF SendGets, chain, disk
  <1>2. f \in Senders /\ f.at \in {"identity", "idle"}
    BY DEF Senders, Idle
  <1> HIDE DEF f
  <1>3. answer \in Answers /\ answer # None /\ KnownAnswer(answer, journal) /\ view[t] # None
    <2>1. answer \in Answers /\ KnownAnswer(answer, journal) /\ view[t] # None
      BY <1>1, TabsTyped DEF PlanInv
    <2> QED BY <2>1, DeploymentAssumption
  <1> HIDE DEF answer
  <1>4. Follows(journal') /\ KnownAnswer(answer, journal')
    BY <1>1, <1>3, BaseJournal
  <1>5. store \in OrNone(Attempts) /\ (store # None /\ store.hash # None => store.hash \in sent)
    BY TypeFunctions DEF PlanInv, HashesSent
  <1> QED BY <1>1, <1>2, <1>3, <1>4, <1>5, SenderKept

\* The attempt of the request that a tab makes.
LEMMA NewAttempt ==
  ASSUME NEW c \in 0 .. Steps + 1, NEW h \in OrNone(Txs)
  PROVE  [confirmed |-> c, hash |-> h] \in Attempts
  <1> HIDE DEF Txs
  <1> QED BY DEF Attempts, OrNone

\* What the tab that holds the lock asks is known.
LEMMA SendPromptsKeeps == \A t \in Tabs : PlanInv /\ SendPrompts(t) => PlanInv'
  <1> SUFFICES ASSUME NEW t \in Tabs, PlanInv, SendPrompts(t) PROVE PlanInv'
    OBVIOUS
  <1>1. /\ sender[t].at = "identity" /\ view[t] # None
        /\ UNCHANGED <<tabs, mined, sent, journal, files, serving, view, refresher>>
    BY DEF SendPrompts, disk, PlanInv
  <1>2. Follows(journal')
    BY <1>1, BaseJournal
  <1>3. CASE sender' = [sender EXCEPT ![t] = Idle] /\ UNCHANGED <<requests, store, attempt>>
    BY <1>1, <1>2, <1>3, IdleKeeps
  <1>4. CASE /\ view[t].next # None
             /\ SavedBeforePrompt(t)
             /\ requests' = requests \cup {<<t, view[t].next>>}
             /\ sender' = [sender EXCEPT ![t] = [at |-> "prompt"]]
    <2> DEFINE a == [confirmed |-> view[t].confirmed, hash |-> None]
               f == [at |-> "prompt"]
               tx == view[t].next
    <2>1. view[t] \in Answers /\ KnownAnswer(view[t], journal)
      BY <1>1, TabsTyped DEF PlanInv
    <2>2. tx \in Txs /\ view[t].confirmed \in 0 .. Steps + 1
      BY <1>4, <2>1, DeploymentAssumption DEF Answers
    <2>3. a \in Attempts /\ a.hash = None
      BY <2>2, NewAttempt DEF OrNone
    <2>4. f \in Senders /\ f.at = "prompt"
      BY DEF Senders
    <2>5. /\ store' = a /\ attempt' = [attempt EXCEPT ![t] = a]
          /\ sender' = [sender EXCEPT ![t] = f] /\ requests' = requests \cup {<<t, tx>>}
      BY <1>4 DEF SavedBeforePrompt, Saves
    <2>6. Known(tx, journal)
      BY <1>4, <2>1 DEF KnownAnswer
    <2> HIDE DEF a, f, tx
    <2>7. TypeOK'
      BY <1>1, <2>2, <2>3, <2>4, <2>5, TypeFunctions DEF PlanInv, TypeOK, OrNone
    <2>8. HashesSent'
      BY <1>1, <2>3, <2>4, <2>5, TypeFunctions DEF PlanInv, HashesSent
    <2>9. \A x \in Out' : Known(x, journal)
      BY <1>1, <2>5, <2>6 DEF Out, PlanInv
    <2>10. ActiveIsVerified'
      BY <1>1, <1>2, StaysVerified
    <2>11. \A u \in Tabs :
           /\ view'[u] # None => view'[u] = view[u] \/ KnownAnswer(view'[u], journal')
           /\ sender'[u].at = "status" =>
                sender'[u] = sender[u] \/ KnownAnswer(sender'[u].got, journal')
           /\ sender'[u].at # "idle" \/ refresher'[u].at # "idle" => view'[u] # None
      BY <1>1, <2>4, <2>5, TypeFunctions DEF PlanInv
    <2> QED BY <1>1, <1>2, <2>7, <2>8, <2>9, <2>10, <2>11, PlanKept
  <1> QED BY <1>3, <1>4 DEF SendPrompts

\* A request the wallet has answered, sent or not.
LEMMA RequestAnswered ==
  ASSUME PlanInv, NEW r \in requests, requests' = requests \ {r}, sent' \in {sent, sent \cup {r[2]}},
         UNCHANGED <<tabs, mined, journal, files, serving, view, refresher>>,
         NEW f \in Senders, f.at \notin {"status", "post", "recover"},
         f.at = "answered" => f.hash \in sent', Answered(r[1], f),
         \/ UNCHANGED <<store, attempt>>
         \/ store' = None /\ attempt' = [attempt EXCEPT ![r[1]] = None]
  PROVE  PlanInv'
  <1>1. r[1] \in Tabs /\ r[2] \in Txs /\ r[2] \in Out
    BY DEF PlanInv, TypeOK, Out
  <1>2. \/ sender' = sender
        \/ sender' = [sender EXCEPT ![r[1]] = f] /\ sender[r[1]].at = "prompt"
    BY DEF Answered
  <1>3. TypeOK'
    BY <1>1, <1>2, TypeFunctions DEF PlanInv, TypeOK
  <1>4. HashesSent'
    BY <1>1, <1>2, TypeFunctions DEF PlanInv, HashesSent
  <1>5. \A x \in Out' : Known(x, journal)
    BY <1>1 DEF Out, PlanInv
  <1>6. Follows(journal')
    BY BaseJournal
  <1>7. ActiveIsVerified'
    BY <1>6, StaysVerified
  <1>8. \A u \in Tabs :
         /\ view'[u] # None => view'[u] = view[u] \/ KnownAnswer(view'[u], journal')
         /\ sender'[u].at = "status" =>
              sender'[u] = sender[u] \/ KnownAnswer(sender'[u].got, journal')
         /\ sender'[u].at # "idle" \/ refresher'[u].at # "idle" => view'[u] # None
    BY <1>1, <1>2, TypeFunctions DEF PlanInv
  <1> QED BY <1>3, <1>4, <1>5, <1>6, <1>7, <1>8, PlanKept

LEMMA WalletKeeps ==
  \A r \in requests : PlanInv /\ (WalletSends(r) \/ WalletRejects(r) \/ WalletFails(r)) => PlanInv'
  <1> SUFFICES ASSUME NEW r \in requests, PlanInv, WalletSends(r) \/ WalletRejects(r) \/ WalletFails(r)
               PROVE  PlanInv'
    OBVIOUS
  <1>1. Idle \in Senders /\ Idle.at = "idle"
    BY TypeFunctions DEF PlanInv
  <1>2. CASE WalletSends(r)
    <2> DEFINE f == [at |-> "answered", hash |-> r[2]]
    <2>1. r[2] \in Txs
      BY DEF PlanInv, TypeOK
    <2>2. f \in Senders /\ f.at = "answered" /\ f.hash = r[2]
      <3> HIDE DEF Txs
      <3> QED BY <2>1 DEF Senders
    <2>3. Answered(r[1], f) /\ requests' = requests \ {r} /\ sent' = sent \cup {r[2]}
          /\ UNCHANGED <<tabs, mined, journal, files, serving, store, view, attempt, refresher>>
      BY <1>2 DEF WalletSends, disk
    <2> HIDE DEF f
    <2> QED BY <2>2, <2>3, RequestAnswered
  <1>3. CASE WalletRejects(r)
    BY <1>1, <1>3, RequestAnswered DEF WalletRejects, Saves, disk
  <1>4. CASE WalletFails(r)
    BY <1>1, <1>4, RequestAnswered DEF WalletFails, disk
  <1> QED BY <1>2, <1>3, <1>4

LEMMA SendStoresKeeps == \A t \in Tabs : PlanInv /\ SendStores(t) => PlanInv'
  <1> SUFFICES ASSUME NEW t \in Tabs, PlanInv, SendStores(t) PROVE PlanInv'
    OBVIOUS
  <1> DEFINE hash == sender[t].hash
             f == [at |-> "post", hash |-> hash]
             a == IF attempt[t] = None THEN [confirmed |-> Unknown, hash |-> hash]
                  ELSE [attempt[t] EXCEPT !.hash = hash]
  <1>1. /\ sender[t].at = "answered" /\ view[t] # None
        /\ UNCHANGED <<tabs, mined, sent, requests, journal, files, serving, view, refresher>>
    BY DEF SendStores, chain, disk, PlanInv
  <1>2. hash \in Txs /\ hash \in sent
    BY <1>1, TabsTyped DEF PlanInv, HashesSent
  <1>3. store' = a /\ attempt' = [attempt EXCEPT ![t] = a] /\ sender' = [sender EXCEPT ![t] = f]
    BY DEF SendStores, Saves
  <1> HIDE DEF hash
  <1>4. a \in Attempts /\ a.hash = hash
    <2>1. CASE attempt[t] = None
      BY <1>2, <2>1, NewAttempt, DeploymentAssumption DEF Unknown, OrNone
    <2>2. CASE attempt[t] # None
      <3>1. attempt[t] \in Attempts
        BY <2>2, TabsTyped DEF PlanInv
      <3> HIDE DEF Txs
      <3> QED BY <1>2, <2>2, <3>1 DEF Attempts
    <2> QED BY <2>1, <2>2
  <1>5. f \in Senders /\ f.at = "post" /\ f.hash = hash
    <2> HIDE DEF Txs
    <2> QED BY <1>2 DEF Senders
  <1> HIDE DEF f, a
  <1> DEFINE v == view[t]
  <1>6. /\ Follows(journal') /\ view' = [view EXCEPT ![t] = v] /\ a \in OrNone(Attempts)
        /\ v = view[t] /\ v # None
    BY <1>1, <1>4, BaseJournal, Unmoved DEF PlanInv, OrNone
  <1> HIDE DEF v
  <1> QED BY <1>1, <1>2, <1>3, <1>4, <1>5, <1>6, SenderKept

LEMMA RecoverKeeps == \A t \in Tabs : PlanInv /\ Recover(t) => PlanInv'
  <1> SUFFICES ASSUME NEW t \in Tabs, PlanInv, Recover(t) PROVE PlanInv'
    OBVIOUS
  <1> DEFINE c == IF attempt[t].confirmed = Unknown THEN view[t].confirmed ELSE attempt[t].confirmed
  <1>1. PICK tx \in sent :
           /\ tx.step = c
           /\ Saves(t, [confirmed |-> c, hash |-> tx])
           /\ sender' = [sender EXCEPT ![t] = [at |-> "recover", hash |-> tx]]
    BY DEF Recover
  <1>2. /\ view[t] # None /\ attempt[t] # None
        /\ UNCHANGED <<tabs, mined, sent, requests, journal, files, serving, view, refresher>>
    BY DEF Recover, chain, disk
  <1>3. tx \in Txs /\ c \in 0 .. Steps + 1
    <2>1. tx \in Txs /\ tx.step \in 0 .. Steps
      BY TxTyped DEF PlanInv, TypeOK
    <2> QED BY <1>1, <2>1, DeploymentAssumption
  <1> HIDE DEF c
  <1> DEFINE a == [confirmed |-> c, hash |-> tx]
             f == [at |-> "recover", hash |-> tx]
  <1>4. a \in Attempts /\ a.hash = tx
    BY <1>3, NewAttempt DEF OrNone
  <1>5. f \in Senders /\ f.at = "recover" /\ f.hash = tx
    <2> HIDE DEF Txs
    <2> QED BY <1>3 DEF Senders
  <1>6. store' = a /\ attempt' = [attempt EXCEPT ![t] = a] /\ sender' = [sender EXCEPT ![t] = f]
    BY <1>1 DEF Saves
  <1> HIDE DEF f, a
  <1> DEFINE v == view[t]
  <1>7. /\ Follows(journal') /\ view' = [view EXCEPT ![t] = v] /\ a \in OrNone(Attempts)
        /\ v = view[t] /\ v # None
    BY <1>2, <1>4, BaseJournal, Unmoved DEF PlanInv, OrNone
  <1> HIDE DEF v
  <1> QED BY <1>2, <1>4, <1>5, <1>6, <1>7, SenderKept

-----------------------------------------------------------------------------
(* The chain, the application, and the theorems about the plan.            *)

LEMMA OtherTyped == Other \in Txs
  <1>1. Steps \in 0 .. Steps /\ None \in (UNION {Quotes[k] : k \in 0 .. Steps - 1}) \cup {None}
    BY DeploymentAssumption
  <1> QED BY <1>1 DEF Other, Txs

\* What is mined stays mined.
LEMMA MinesKeeps == \A tx \in Txs : PlanInv /\ Mines(tx) => PlanInv'
  <1> SUFFICES ASSUME NEW tx \in Txs, PlanInv, Mines(tx) PROVE PlanInv'
    OBVIOUS
  <1>1. /\ mined \in Seq(Txs) /\ mined' = Append(mined, tx)
        /\ UNCHANGED <<tabs, sent, requests, journal, files, serving, store, view, attempt, refresher, sender>>
    BY DEF Mines, disk, page, PlanInv, TypeOK
  <1>2. /\ mined' \in Seq(Txs) /\ Len(mined') = Len(mined) + 1 /\ Len(mined) \in Nat
        /\ \A i \in 1 .. Len(mined) : mined'[i] = mined[i]
    BY <1>1
  <1>3. ASSUME NEW u, u \in Txs, Mined(u) PROVE Mined(u)'
    BY <1>2, <1>3, TxTyped DEF Mined
  <1>4. TypeOK'
    BY <1>1, <1>2 DEF PlanInv, TypeOK
  <1>5. journal \in Journals /\ journal.confirmed \in Seq(Txs) /\ Len(journal.confirmed) \in Nat
    BY JournalTyped DEF PlanInv, TypeOK
  <1>6. ASSUME NEW i \in 1 .. Len(journal.confirmed), Mined(journal.confirmed[i])
        PROVE  Mined(journal.confirmed[i])'
    <2>1. journal.confirmed[i] \in Txs
      BY <1>5
    <2> QED BY <1>1, <1>3, <1>6, <2>1
  <1>7. JournalOK(journal)'
    BY <1>1, <1>2, <1>5, <1>6 DEF PlanInv, JournalOK
  <1>8. VerifiedCompletion(journal) => VerifiedCompletion(journal)'
    <2>1. Complete(journal) => Steps = Len(journal.confirmed)
      BY DEF Complete
    <2> QED BY <1>1, <1>6, <2>1 DEF VerifiedCompletion, Complete
  <1>9. ActiveIsVerified'
    BY <1>1, <1>8 DEF PlanInv, ActiveIsVerified, VerifiedActive
  <1> QED BY <1>1, <1>4, <1>7, <1>9 DEF PlanInv, Out, HashesSent, Known, KnownAnswer

LEMMA ServeKeeps == \A skipped \in BOOLEAN : PlanInv /\ Serve(skipped) => PlanInv'
  <1> SUFFICES ASSUME NEW skipped \in BOOLEAN, PlanInv, Serve(skipped) PROVE PlanInv'
    OBVIOUS
  <1>1. /\ "manifest" \in files /\ serving' = TRUE
        /\ UNCHANGED <<tabs, mined, sent, requests, journal, files, store, view, attempt, refresher, sender>>
    BY DEF Serve, chain, disk, page
  <1>2. ActiveIsVerified'
    BY <1>1 DEF PlanInv, ActiveIsVerified, VerifiedActive, VerifiedCompletion, Mined
  <1> QED BY <1>1, <1>2 DEF PlanInv, TypeOK, JournalOK, Mined, Out, HashesSent, Known, KnownAnswer

LEMMA PlanUnchanged == PlanInv /\ UNCHANGED vars => PlanInv'
  BY DEF PlanInv, vars, chain, disk, page, TypeOK, JournalOK, Mined, Out, HashesSent, Known,
         KnownAnswer, ActiveIsVerified, VerifiedActive, VerifiedCompletion

LEMMA PlanInit == Init => PlanInv
  <1> SUFFICES ASSUME Init PROVE PlanInv
    OBVIOUS
  <1>1. NoJournal \in Journals /\ NoJournal.confirmed = <<>> /\ NoJournal.pending = None
        /\ NoJournal.review = None
    BY DEF NoJournal, Journals, OrNone
  <1>2. Idle \in Senders /\ Idle \in Refreshers /\ Idle.at = "idle"
    BY DEF Idle, Senders, Refreshers
  <1>3. TypeOK
    <2>1. <<>> \in Seq(Txs) /\ tabs \subseteq Tabs
      BY DeploymentAssumption DEF Init
    <2>2. None \in OrNone(Answers) /\ None \in OrNone(Attempts)
      BY DEF OrNone
    <2> QED BY <1>1, <1>2, <2>1, <2>2 DEF Init, TypeOK
  <1>4. JournalOK(journal)
    BY <1>1, DeploymentAssumption DEF Init, JournalOK
  <1>5. Out = {}
    BY DEF Init, Out
  <1>6. HashesSent
    BY <1>2 DEF Init, HashesSent
  <1> QED BY <1>2, <1>3, <1>4, <1>5, <1>6 DEF Init, PlanInv, ActiveIsVerified

LEMMA PlanNext == PlanInv /\ [Next]_vars => PlanInv'
  <1> SUFFICES ASSUME PlanInv, [Next]_vars PROVE PlanInv'
    OBVIOUS
  <1>1. CASE KilledInStatus \/ KilledInRecord \/ KilledInActivation
    BY <1>1, KilledInStatusKeeps, KilledInRecordKeeps, KilledInActivationKeeps
  <1>2. CASE MineSent \/ Mines(Other)
    BY <1>2, MinesKeeps, OtherTyped DEF MineSent, PlanInv, TypeOK
  <1>3. CASE \E skipped \in BOOLEAN : Serve(skipped)
    BY <1>3, ServeKeeps
  <1>4. CASE \E r \in requests : WalletSends(r) \/ WalletRejects(r) \/ WalletFails(r)
    BY <1>4, WalletKeeps
  <1>5. ASSUME NEW t \in Tabs,
               \/ Close(t) \/ StorageEvent(t)
               \/ Refresh(t, Blocked \cup Verified)
               \/ RefreshPosts(t) \/ RefreshAgain(t, Blocked \cup Verified) \/ RefreshFails(t)
               \/ SendAsks(t) \/ SendGets(t) \/ SendPrompts(t) \/ SendStores(t)
               \/ Recover(t) \/ SenderPosts(t) \/ SenderFails(t) \/ Activate(t)
        PROVE PlanInv'
    BY <1>5, CloseKeeps, StorageEventKeeps, RefreshKeeps, RefreshAgainKeeps, PostsKeep, SendAsksKeeps,
       SendGetsKeeps, SendPromptsKeeps, SendStoresKeeps, RecoverKeeps, ActivateKeeps
  <1>6. CASE UNCHANGED vars
    BY <1>6, PlanUnchanged
  <1> QED BY <1>1, <1>2, <1>3, <1>4, <1>5, <1>6 DEF Next

\* Every run keeps the invariant of the journal.
LEMMA PlanAlways == Spec => []PlanInv
  BY PlanInit, PlanNext, PTL DEF Spec

\* The state of the utility, of the wallet and of every tab has its type: an
\* answer, an attempt and a hash are of the plan or of the deployer's nonces.
THEOREM TypeCorrect == Spec => [](TypeOK /\ csrf \subseteq Tabs)
  <1>1. PlanInv => TypeOK
    BY DEF PlanInv
  <1> DEFINE TokensOK == csrf \subseteq Tabs
  <1>2. Init => TokensOK
    BY DEF Init
  <1>3. TokensOK /\ [Next]_vars => TokensOK'
    <2> SUFFICES ASSUME csrf \subseteq Tabs, [Next]_vars PROVE csrf' \subseteq Tabs
      OBVIOUS
    <2>1. CASE KilledInStatus \/ KilledInRecord \/ KilledInActivation
      BY <2>1 DEF KilledInStatus, KilledInRecord, KilledInActivation, Killed
    <2>2. CASE MineSent \/ Mines(Other) \/ \E skipped \in BOOLEAN : Serve(skipped)
      BY <2>2 DEF MineSent, Mines, Serve
    <2>3. CASE \E r \in requests : WalletSends(r) \/ WalletRejects(r) \/ WalletFails(r)
      BY <2>3 DEF WalletSends, WalletRejects, WalletFails
    <2>4. ASSUME NEW t \in Tabs, Close(t) \/ Refresh(t, Blocked \cup Verified)
          PROVE  csrf' \subseteq Tabs
      BY <2>4 DEF Close, Refresh
    <2>5. ASSUME NEW t \in Tabs,
                 \/ StorageEvent(t) \/ RefreshPosts(t) \/ RefreshFails(t)
                 \/ RefreshAgain(t, Blocked \cup Verified)
                 \/ SendAsks(t) \/ SendGets(t) \/ SendPrompts(t) \/ SendStores(t)
                 \/ Recover(t) \/ SenderPosts(t) \/ SenderFails(t) \/ Activate(t)
          PROVE  csrf' \subseteq Tabs
      BY <2>5 DEF StorageEvent, RefreshPosts, RefreshFails, RefreshAgain, SendAsks, SendGets, SendPrompts,
         SendStores, Recover, SenderPosts, SenderFails, Activate, Posts
    <2>6. CASE UNCHANGED vars
      BY <2>6 DEF vars
    <2> QED BY <2>1, <2>2, <2>3, <2>4, <2>5, <2>6 DEF Next
  <1> HIDE DEF TokensOK
  <1>4. Spec => []TypeOK /\ []TokensOK
    BY <1>1, <1>2, <1>3, PlanAlways, PTL DEF Spec
  <1> QED BY <1>4, PTL DEF TokensOK

\* A transaction the wallet may still sign, or the chain mine, at the plan's next
\* nonce is the review that is saved: getArcStatus replaces no review, so no kill,
\* reload or second tab leaves the wallet with another transaction.
THEOREM Reviewed == Spec => []SignedIsReviewed
  <1>1. PlanInv => SignedIsReviewed
    <2> SUFFICES ASSUME PlanInv, NEW tx \in Out, Minable(tx) PROVE tx = journal.review
      BY DEF SignedIsReviewed, Out
    <2>1. Known(tx, journal) /\ tx.step = Len(mined) /\ Len(journal.confirmed) <= Len(mined)
      BY DEF PlanInv, JournalOK, Minable
    <2>2. Len(mined) \in Nat /\ Len(journal.confirmed) \in Nat
      BY JournalTyped DEF PlanInv, TypeOK
    <2> QED BY <2>1, <2>2 DEF Known
  <1> QED BY <1>1, PlanAlways, PTL

\* The application runs on a deployment, and the manifest that enables it is on
\* disk, only when the report is too and every transaction of the plan is mined
\* where the journal says: activation writes the report first and reads the chain.
THEOREM PublishedIsVerified == Spec => []ActiveIsVerified
  <1>1. PlanInv => ActiveIsVerified
    BY DEF PlanInv
  <1> QED BY <1>1, PlanAlways, PTL

-----------------------------------------------------------------------------
(* The attempt that the tabs share keeps AttemptInv.                       *)

\* The journal advances only past a transaction that is out, and what is out then
\* is of steps it has confirmed.
LEMMA OutMoves ==
  ASSUME PlanInv, Follows(journal'), Out' \subseteq Out
  PROVE  /\ NoneOut => NoneOut' /\ Len(journal'.confirmed) = Len(journal.confirmed)
         /\ Len(journal'.confirmed) # Len(journal.confirmed) => NoneOut'
  <1>1. NoneOut => NoneOut' /\ Len(journal'.confirmed) = Len(journal.confirmed)
    BY DEF Follows, NoneOut
  <1>2. ASSUME Len(journal'.confirmed) # Len(journal.confirmed), NEW tx \in Out'
        PROVE  tx.step # Len(journal'.confirmed)
    <2>1. tx \in Txs /\ Known(tx, journal)
      BY DEF PlanInv, TypeOK, Out
    <2>2. /\ Len(journal.confirmed) \in Nat /\ Len(journal'.confirmed) \in Nat
          /\ Len(journal.confirmed) < Len(journal'.confirmed)
      BY <1>2, JournalTyped DEF Follows, PlanInv, TypeOK
    <2>3. tx.step \in Nat /\ tx.step <= Len(journal.confirmed)
      <3>1. tx.step \in Nat /\ tx # None
        BY <2>1, TxTyped
      <3> QED BY <2>1, <2>2, <3>1 DEF Known, PlanInv, JournalOK
    <2> QED BY <2>2, <2>3
  <1> QED BY <1>1, <1>2 DEF NoneOut

\* What is left to show of a step that asks the wallet for nothing.
LEMMA AttemptKept ==
  ASSUME PlanInv, AttemptInv, Follows(journal'), Out' \subseteq Out, AskedOnce',
         \/ NoneOut' \/ store' = store
         \/ (store # None => store' # None /\ store'.confirmed = store.confirmed),
         \A t \in Tabs :
           /\ HoldsLock(t)' => HoldsLock(t)
           /\ (sender'[t] = sender[t] /\ view'[t] = view[t]) \/ Fresh(t)'
  PROVE  AttemptInv'
  <1>1. NoneOut' \/ (store' # None /\ store'.confirmed = Len(journal'.confirmed))
    BY OutMoves DEF AttemptInv
  <1>2. OneLock'
    BY DEF AttemptInv, OneLock
  <1>3. ASSUME NEW t \in Tabs PROVE Fresh(t)'
    <2>1. CASE sender'[t] = sender[t] /\ view'[t] = view[t]
      BY <2>1, OutMoves DEF AttemptInv, Fresh
    <2> QED BY <2>1
  <1> QED BY <1>1, <1>2, <1>3 DEF AttemptInv

\* The wallet answers requests of those there are, and at most sends them.
LEMMA FewerAsked ==
  ASSUME AskedOnce, requests' \subseteq requests, sent' = sent
  PROVE  AskedOnce' /\ Out' \subseteq Out
  BY DEF AskedOnce, Out

LEMMA AskedMoves ==
  ASSUME TypeOK, AskedOnce, NEW r \in requests, requests' = requests \ {r}, sent' \in {sent, sent \cup {r[2]}}
  PROVE  AskedOnce' /\ Out' \subseteq Out
  <1>1. Out' \subseteq Out
    BY DEF Out
  <1>2. \A p, q \in requests' : p[2].step = q[2].step => p = q
    BY DEF AskedOnce
  <1>3. \A x, y \in sent' : x.step = y.step => x = y
    BY DEF AskedOnce
  <1>4. \A p \in requests', x \in sent' : p[2].step # x.step
    BY DEF AskedOnce
  <1> QED BY <1>1, <1>2, <1>3, <1>4 DEF AskedOnce

\* A tab that runs has the attempt that is stored.
LEMMA RunsPrompt ==
  ASSUME PromptEvents, NEW t \in Tabs, Runs(t), view[t] # None
  PROVE  attempt[t] = store
  BY DEF Runs

\* The attempt of a tab that does not ask is left alone by the utility.
LEMMA UtilityAttempts ==
  ASSUME PlanInv, AttemptInv, Follows(journal'), UNCHANGED <<sent, requests, page>>
  PROVE  AttemptInv'
  <1>1. AskedOnce' /\ Out' \subseteq Out
    BY FewerAsked DEF AttemptInv
  <1>2. \A t \in Tabs : HoldsLock(t)' => HoldsLock(t)
    BY DEF HoldsLock, page
  <1> QED BY <1>1, <1>2, AttemptKept DEF page

LEMMA OtherAttempts ==
  ASSUME PlanInv, AttemptInv,
         \/ KilledInStatus \/ KilledInRecord \/ KilledInActivation
         \/ \E t \in Tabs : Activate(t)
         \/ MineSent \/ Mines(Other) \/ \E skipped \in BOOLEAN : Serve(skipped)
  PROVE  AttemptInv'
  <1>1. CASE KilledInStatus
    <2>1. PICK o \in Blocked \cup Verified : Killed(o[1], files)
      BY <1>1 DEF KilledInStatus
    <2> QED BY <2>1, StatusOutcome, UtilityAttempts DEF Killed, chain
  <1>2. CASE KilledInRecord
    <2>1. PICK t \in Tabs : \E f \in {refresher[t], sender[t]} :
            f.at \in Posting /\ \E j \in {journal} \cup Recorded(f.hash) : Killed(j, files)
      BY <1>2 DEF KilledInRecord
    <2>2. PICK f \in {refresher[t], sender[t]} :
            f.at \in Posting /\ \E j \in {journal} \cup Recorded(f.hash) : Killed(j, files)
      BY <2>1
    <2>3. PICK j \in {journal} \cup Recorded(f.hash) : Killed(j, files)
      BY <2>2
    <2>4. f.hash \in sent
      BY <2>2, TabsTyped DEF PlanInv, HashesSent, Posting
    <2>5. Follows(j)
      BY <2>4, RecordOutcome, BaseJournal
    <2> QED BY <2>3, <2>5, UtilityAttempts DEF Killed, chain
  <1>3. CASE KilledInActivation
    <2>1. Follows(Refreshed(journal))
      BY BaseJournal, RefreshedFollows
    <2> QED BY <1>3, <2>1, UtilityAttempts DEF KilledInActivation, Killed, chain
  <1>4. CASE \E t \in Tabs : Activate(t)
    <2>1. Follows(Refreshed(journal))
      BY BaseJournal, RefreshedFollows
    <2> QED BY <1>4, <2>1, UtilityAttempts DEF Activate, chain
  <1>5. CASE MineSent \/ Mines(Other) \/ \E skipped \in BOOLEAN : Serve(skipped)
    BY <1>5, BaseJournal, UtilityAttempts DEF MineSent, Mines, Serve, chain, disk
  <1> QED BY <1>1, <1>2, <1>3, <1>4, <1>5

LEMMA CloseAttempts == ASSUME PlanInv, AttemptInv, NEW t \in Tabs, Close(t) PROVE AttemptInv'
  <1>1. /\ requests' \subseteq requests /\ sent' = sent /\ store' = store /\ journal' = journal
        /\ view' = [view EXCEPT ![t] = None] /\ sender' = [sender EXCEPT ![t] = Idle]
    BY DEF Close, disk
  <1>2. AskedOnce' /\ Out' \subseteq Out /\ Follows(journal')
    BY <1>1, FewerAsked, BaseJournal DEF AttemptInv
  <1>3. \A u \in Tabs : HoldsLock(u)' => HoldsLock(u)
    BY <1>1, TypeFunctions DEF HoldsLock, PlanInv
  <1>4. \A u \in Tabs : (sender'[u] = sender[u] /\ view'[u] = view[u]) \/ Fresh(u)'
    BY <1>1, TypeFunctions DEF Fresh, PlanInv
  <1> QED BY <1>1, <1>2, <1>3, <1>4, AttemptKept

LEMMA EventAttempts == ASSUME PlanInv, AttemptInv, NEW t \in Tabs, StorageEvent(t) PROVE AttemptInv'
  <1>1. UNCHANGED <<sent, requests, store, journal, view, sender>>
    BY DEF StorageEvent, chain, disk
  <1>2. AskedOnce' /\ Out' \subseteq Out /\ Follows(journal')
    BY <1>1, FewerAsked, BaseJournal DEF AttemptInv
  <1>3. \A u \in Tabs : HoldsLock(u)' => HoldsLock(u)
    BY <1>1 DEF HoldsLock
  <1> QED BY <1>1, <1>2, <1>3, AttemptKept

\* A status that is read clears an attempt only if the journal has confirmed past
\* it; a tab whose person asked meanwhile then has the next step in view.
LEMMA ReadAttempts ==
  ASSUME PlanInv, AttemptInv, Follows(journal'), UNCHANGED <<sent, requests, sender>>,
         NEW t \in Tabs, NEW answer \in Answers, view' = [view EXCEPT ![t] = answer],
         KnownAnswer(answer, journal'), answer.confirmed = Len(journal'.confirmed),
         store' = IF Over(store, answer) THEN None ELSE store
  PROVE  AttemptInv'
  <1>1. AskedOnce' /\ Out' \subseteq Out
    BY FewerAsked DEF AttemptInv
  <1>2. NoneOut' \/ store' = store
    <2>1. CASE Over(store, answer)
      <3>1. store # None /\ Len(journal'.confirmed) # store.confirmed
        <4>1. store # None /\ Len(journal'.confirmed) > store.confirmed
          BY <2>1 DEF Over
        <4>2. store.confirmed \in Nat /\ Len(journal'.confirmed) \in Nat
          <5>1. store \in Attempts
            BY <4>1 DEF PlanInv, TypeOK, OrNone
          <5> QED BY <5>1, JournalTyped, DeploymentAssumption DEF Attempts, Follows
        <4> QED BY <4>1, <4>2
      <3> QED BY <1>1, <3>1, OutMoves DEF AttemptInv
    <2>2. CASE ~Over(store, answer)
      BY <2>2
    <2> QED BY <2>1, <2>2
  <1>3. \A u \in Tabs : HoldsLock(u)' => HoldsLock(u)
    BY DEF HoldsLock
  <1>4. \A u \in Tabs \ {t} : sender'[u] = sender[u] /\ view'[u] = view[u]
    BY TypeFunctions DEF PlanInv
  <1>5. Fresh(t)'
    <2>1. view'[t] = answer /\ sender'[t] = sender[t]
      BY TypeFunctions DEF PlanInv
    <2>2. answer.next # None => answer.next.step = Len(journal'.confirmed)
      BY DEF KnownAnswer
    <2> QED BY <1>1, <2>1, <2>2, OutMoves DEF AttemptInv, Fresh
  <1> QED BY <1>1, <1>2, <1>3, <1>4, <1>5, AttemptKept

LEMMA RefreshAttempts ==
  ASSUME PromptEvents, PlanInv, AttemptInv, NEW t \in Tabs,
         Refresh(t, Blocked \cup Verified) \/ RefreshAgain(t, Blocked \cup Verified)
  PROVE  AttemptInv'
  <1>1. CASE Refresh(t, Blocked \cup Verified)
    <2>1. PICK o \in Blocked \cup Verified :
          /\ Status(t, Blocked \cup Verified, o)
          /\ view' = [view EXCEPT ![t] = o[2]]
          /\ LET loaded == IF view[t] = None THEN store ELSE attempt[t]
             IN  store' = IF Over(loaded, o[2]) THEN None ELSE store
      BY <1>1 DEF Refresh
    <2>2. store' = IF Over(store, o[2]) THEN None ELSE store
      BY <2>1, StatusRead, RunsPrompt
    <2>3. sender' = sender
      BY <1>1 DEF Refresh
    <2> QED BY <2>1, <2>2, <2>3, StatusRead, ReadAttempts
  <1>2. CASE RefreshAgain(t, Blocked \cup Verified)
    <2>1. PICK o \in Blocked \cup Verified :
          /\ Status(t, Blocked \cup Verified, o)
          /\ view' = [view EXCEPT ![t] = o[2]]
          /\ IF Over(attempt[t], o[2]) THEN Saves(t, None) ELSE UNCHANGED <<store, attempt>>
      BY <1>2 DEF RefreshAgain
    <2>2. view[t] # None /\ sender' = sender
      BY <1>2 DEF RefreshAgain, PlanInv
    <2>3. store' = IF Over(store, o[2]) THEN None ELSE store
      BY <2>1, <2>2, StatusRead, RunsPrompt DEF Saves
    <2> QED BY <2>1, <2>2, <2>3, StatusRead, ReadAttempts
  <1> QED BY <1>1, <1>2

LEMMA PostAttempts ==
  ASSUME PlanInv, AttemptInv, NEW t \in Tabs,
         RefreshPosts(t) \/ SenderPosts(t) \/ RefreshFails(t) \/ SenderFails(t)
  PROVE  AttemptInv'
  <1>1. /\ Follows(journal') /\ UNCHANGED <<sent, requests, store, view>>
        /\ sender' = sender \/ sender' = [sender EXCEPT ![t] = Idle]
    <2>1. CASE RefreshPosts(t)
      BY <2>1, PostFollows DEF RefreshPosts
    <2>2. CASE SenderPosts(t)
      BY <2>2, PostFollows DEF SenderPosts
    <2>3. CASE RefreshFails(t) \/ SenderFails(t)
      BY <2>3, BaseJournal DEF RefreshFails, SenderFails, chain, disk
    <2> QED BY <2>1, <2>2, <2>3
  <1>2. AskedOnce' /\ Out' \subseteq Out
    BY <1>1, FewerAsked DEF AttemptInv
  <1>3. \A u \in Tabs : HoldsLock(u)' => HoldsLock(u)
    BY <1>1, TypeFunctions DEF HoldsLock, PlanInv
  <1>4. \A u \in Tabs : (sender'[u] = sender[u] /\ view'[u] = view[u]) \/ Fresh(u)'
    BY <1>1, TypeFunctions DEF Fresh, PlanInv
  <1> QED BY <1>1, <1>2, <1>3, <1>4, AttemptKept

-----------------------------------------------------------------------------
(* The sender and the wallet keep AttemptInv.                              *)

LEMMA AsksAttempts == ASSUME PromptEvents, PlanInv, AttemptInv, NEW t \in Tabs, SendAsks(t) PROVE AttemptInv'
  <1>1. PICK o \in Blocked \cup Verified :
          /\ Status(t, Blocked \cup Verified, o)
          /\ sender' = [sender EXCEPT ![t] =
               [at |-> "status", reviewed |-> view[t].next, got |-> o[2]]]
    BY DEF SendAsks
  <1>2. /\ Follows(journal') /\ UNCHANGED <<sent, requests>>
        /\ o[2].next # None => o[2].next.step = Len(journal'.confirmed)
    BY <1>1, StatusRead DEF KnownAnswer
  <1>3. store = None /\ store' = store /\ view' = view
    BY <1>1, RunsPrompt DEF SendAsks, Status
  <1>4. NoneOut
    BY <1>3 DEF AttemptInv
  <1>5. AskedOnce' /\ Out' \subseteq Out
    BY <1>2, FewerAsked DEF AttemptInv
  <1>6. NoneOut'
    BY <1>2, <1>4, <1>5, OutMoves
  <1> DEFINE f == [at |-> "status", reviewed |-> view[t].next, got |-> o[2]]
  <1>7. f.at = "status" /\ f.got = o[2] /\ sender' = [sender EXCEPT ![t] = f]
    BY <1>1
  <1> HIDE DEF f
  <1>8. OneLock'
    <2>1. \A u \in Tabs : HoldsLock(u)' => u = t
      BY <1>7, TypeFunctions DEF SendAsks, HoldsLock, PlanInv
    <2> QED BY <2>1 DEF OneLock
  <1>9. ASSUME NEW u \in Tabs PROVE Fresh(u)'
    <2>1. CASE u = t
      BY <1>2, <1>6, <1>7, <2>1, TypeFunctions DEF Fresh, PlanInv
    <2>2. CASE u # t
      <3>1. sender'[u] = sender[u] /\ ~HoldsLock(u)
        BY <1>7, <2>2, TypeFunctions DEF SendAsks, PlanInv
      <3> QED BY <3>1 DEF Fresh, HoldsLock
    <2> QED BY <2>1, <2>2
  <1> QED BY <1>5, <1>6, <1>8, <1>9 DEF AttemptInv

\* A step of a sender in its lock that asks the wallet for nothing.
LEMMA LockedAttempts ==
  ASSUME PlanInv, AttemptInv, NEW t \in Tabs, UNCHANGED <<sent, requests, journal>>,
         NEW f, sender' = [sender EXCEPT ![t] = f], HoldsLock(t) \/ f.at \in {"idle", "recover"},
         \A u \in Tabs \ {t} : view'[u] = view[u],
         f.at # "status" /\ (f.at = "identity" =>
           NoneOut /\ (view'[t].next # None => view'[t].next.step = Len(journal.confirmed))),
         \/ NoneOut \/ store' = store
         \/ (store # None => store' # None /\ store'.confirmed = store.confirmed)
  PROVE  AttemptInv'
  <1>1. AskedOnce' /\ Out' = Out /\ Follows(journal') /\ NoneOut' = NoneOut
    BY FewerAsked, BaseJournal DEF AttemptInv, Out, NoneOut
  <1>2. sender'[t] = f /\ \A u \in Tabs \ {t} : sender'[u] = sender[u]
    BY TypeFunctions DEF PlanInv
  <1>3. \A u \in Tabs : HoldsLock(u)' => HoldsLock(u)
    BY <1>2 DEF HoldsLock
  <1>4. Fresh(t)'
    BY <1>1, <1>2 DEF Fresh
  <1> QED BY <1>1, <1>2, <1>3, <1>4, AttemptKept

LEMMA GetsAttempts == ASSUME PlanInv, AttemptInv, NEW t \in Tabs, SendGets(t) PROVE AttemptInv'
  <1> DEFINE answer == sender[t].got
             f == IF store = None /\ answer.phase = "ready" /\ answer.next = sender[t].reviewed
                  THEN [at |-> "identity"] ELSE Idle
  <1>1. /\ sender[t].at = "status" /\ view' = [view EXCEPT ![t] = answer]
        /\ sender' = [sender EXCEPT ![t] = f]
        /\ UNCHANGED <<sent, requests, journal, store>>
    BY DEF SendGets, chain, disk
  <1>2. f.at \in {"identity", "idle"}
    BY DEF Idle
  <1> HIDE DEF f
  <1>3. Fresh(t) /\ HoldsLock(t)
    BY <1>1 DEF AttemptInv, HoldsLock
  <1>4. view'[t] = answer /\ \A u \in Tabs \ {t} : view'[u] = view[u]
    BY <1>1, TypeFunctions DEF PlanInv
  <1>5. NoneOut /\ (view'[t].next # None => view'[t].next.step = Len(journal.confirmed))
    BY <1>1, <1>3, <1>4 DEF Fresh
  <1> QED BY <1>1, <1>2, <1>3, <1>4, <1>5, LockedAttempts

\* The wallet is asked for a step of which nothing is out, and the attempt of that
\* step has been saved.
LEMMA PromptsAttempts == ASSUME PlanInv, AttemptInv, NEW t \in Tabs, SendPrompts(t) PROVE AttemptInv'
  <1>1. /\ sender[t].at = "identity" /\ UNCHANGED <<sent, journal, view>> /\ HoldsLock(t)
    BY DEF SendPrompts, disk, HoldsLock
  <1>2. CASE sender' = [sender EXCEPT ![t] = Idle] /\ UNCHANGED <<requests, store, attempt>>
    <2>1. Idle.at = "idle" /\ \A u \in Tabs \ {t} : view'[u] = view[u]
      BY <1>1 DEF Idle
    <2> QED BY <1>1, <1>2, <2>1, LockedAttempts
  <1>3. CASE /\ view[t].next # None
             /\ SavedBeforePrompt(t)
             /\ requests' = requests \cup {<<t, view[t].next>>}
             /\ sender' = [sender EXCEPT ![t] = [at |-> "prompt"]]
    <2> DEFINE a == [confirmed |-> view[t].confirmed, hash |-> None]
               tx == view[t].next
    <2>1. NoneOut /\ tx.step = Len(journal.confirmed)
      BY <1>1, <1>3 DEF AttemptInv, Fresh
    <2>2. view[t].confirmed = tx.step
      BY <1>1, <1>3 DEF PlanInv, KnownAnswer
    <2>3. store' = a /\ a # None /\ a.confirmed = Len(journal.confirmed)
      <3>1. view[t] # None
        BY <1>1 DEF PlanInv
      <3>2. view[t].confirmed \in 0 .. Steps + 1
        BY <3>1, TabsTyped, DeploymentAssumption DEF PlanInv, Answers
      <3>3. a \in Attempts
        BY <3>2, NewAttempt DEF OrNone
      <3>4. a # None
        BY <3>3, DeploymentAssumption
      <3> QED BY <1>3, <2>1, <2>2, <3>4 DEF SavedBeforePrompt, Saves
    <2> HIDE DEF tx, a
    <2>4. requests' = requests \cup {<<t, tx>>}
      BY <1>3 DEF tx
    <2>5. /\ \A r \in requests : r[2].step # tx.step
          /\ \A x \in sent : x.step # tx.step
      BY <2>1 DEF NoneOut, Out
    <2>6. AskedOnce'
      BY <1>1, <2>4, <2>5 DEF AttemptInv, AskedOnce
    <2>7. sender'[t].at = "prompt" /\ \A u \in Tabs \ {t} : sender'[u] = sender[u]
      BY <1>3, TypeFunctions DEF PlanInv
    <2>8. OneLock'
      BY <1>1, <2>7 DEF AttemptInv, OneLock, HoldsLock
    <2>9. ASSUME NEW u \in Tabs PROVE Fresh(u)'
      <3>1. CASE u = t
        BY <2>7, <3>1 DEF Fresh
      <3>2. CASE u # t
        <4>1. ~HoldsLock(u)
          BY <1>1, <3>2 DEF AttemptInv, OneLock
        <4> QED BY <2>7, <3>2, <4>1 DEF Fresh, HoldsLock
      <3> QED BY <3>1, <3>2
    <2> QED BY <1>1, <2>3, <2>6, <2>8, <2>9 DEF AttemptInv
  <1> QED BY <1>2, <1>3 DEF SendPrompts

\* Once the request of a step is gone unsent, nothing of the next step is out: a
\* request of an earlier step would stand beside the transaction that was sent.
LEMMA RejectedAlone ==
  ASSUME PlanInv, AskedOnce, NEW r \in requests
  PROVE  \A s \in requests : s[2].step = Len(journal.confirmed)
  <1>1. ASSUME NEW s \in requests PROVE s[2].step = Len(journal.confirmed)
    <2>1. s[2] \in Txs /\ s[2] \in Out /\ Known(s[2], journal)
      BY DEF PlanInv, TypeOK, Out
    <2>2. s[2].step \in Nat /\ s[2] # None /\ Len(journal.confirmed) \in Nat
      BY <2>1, TxTyped, JournalTyped DEF PlanInv, TypeOK
    <2>3. CASE s[2].step < Len(journal.confirmed)
      <3> DEFINE i == s[2].step + 1
      <3>1. i \in 1 .. Len(journal.confirmed)
        BY <2>2, <2>3
      <3>2. journal.confirmed[i] \in sent /\ journal.confirmed[i].step = s[2].step
        <4>1. journal.confirmed[i] \in sent /\ journal.confirmed[i].step = i - 1
          BY <3>1 DEF PlanInv, JournalOK
        <4> QED BY <2>2, <4>1
      <3> QED BY <3>2 DEF AskedOnce
    <2>4. CASE s[2] = journal.review
      BY <2>2, <2>4 DEF PlanInv, JournalOK
    <2> QED BY <2>1, <2>3, <2>4 DEF Known
  <1> QED BY <1>1

LEMMA WalletAttempts ==
  ASSUME PlanInv, AttemptInv, NEW r \in requests, WalletSends(r) \/ WalletRejects(r) \/ WalletFails(r)
  PROVE  AttemptInv'
  <1>1. PICK f : /\ Answered(r[1], f) /\ f.at \in {"idle", "answered"}
                 /\ requests' = requests \ {r} /\ sent' \in {sent, sent \cup {r[2]}}
                 /\ UNCHANGED <<journal, view>>
    <2>1. CASE WalletSends(r)
      <3> DEFINE f == [at |-> "answered", hash |-> r[2]]
      <3>1. f.at = "answered" /\ Answered(r[1], f)
        BY <2>1 DEF WalletSends
      <3> HIDE DEF f
      <3> QED BY <2>1, <3>1 DEF WalletSends, disk
    <2>2. CASE WalletRejects(r)
      BY <2>2 DEF WalletRejects, disk, Idle
    <2>3. CASE WalletFails(r)
      BY <2>3 DEF WalletFails, disk, Idle
    <2> QED BY <2>1, <2>2, <2>3
  <1>2. AskedOnce' /\ Out' \subseteq Out /\ Follows(journal') /\ r[1] \in Tabs
    BY <1>1, AskedMoves, BaseJournal DEF AttemptInv, PlanInv, TypeOK
  <1>3. \/ sender' = sender
        \/ sender' = [sender EXCEPT ![r[1]] = f] /\ sender[r[1]].at = "prompt"
    BY <1>1 DEF Answered
  <1>4. \A u \in Tabs : HoldsLock(u)' => HoldsLock(u)
    BY <1>1, <1>2, <1>3, TypeFunctions DEF HoldsLock, PlanInv
  <1>5. \A u \in Tabs : (sender'[u] = sender[u] /\ view'[u] = view[u]) \/ Fresh(u)'
    BY <1>1, <1>2, <1>3, TypeFunctions DEF Fresh, PlanInv
  <1>6. store' = store \/ NoneOut'
    <2>1. CASE WalletRejects(r)
      <3>1. requests' = {} /\ sent' = sent
        BY <1>1, <2>1, RejectedAlone DEF WalletRejects, AttemptInv, AskedOnce
      <3>2. \A x \in sent : x.step # Len(journal.confirmed)
        BY RejectedAlone DEF AttemptInv, AskedOnce
      <3> QED BY <1>1, <3>1, <3>2 DEF NoneOut, Out
    <2>2. CASE WalletSends(r) \/ WalletFails(r)
      BY <2>2 DEF WalletSends, WalletFails
    <2> QED BY <2>1, <2>2
  <1> QED BY <1>2, <1>4, <1>5, <1>6, AttemptKept

LEMMA StoresAttempts == ASSUME PromptEvents, PlanInv, AttemptInv, NEW t \in Tabs, SendStores(t) PROVE AttemptInv'
  <1> DEFINE f == [at |-> "post", hash |-> sender[t].hash]
  <1>1. /\ sender[t].at = "answered" /\ HoldsLock(t)
        /\ sender' = [sender EXCEPT ![t] = f] /\ f.at = "post"
        /\ UNCHANGED <<sent, requests, journal, view>>
    BY DEF SendStores, chain, disk, HoldsLock
  <1> HIDE DEF f
  <1>2. attempt[t] = store
    BY <1>1, RunsPrompt DEF SendStores, PlanInv
  <1>3. NoneOut \/ (store # None => store' # None /\ store'.confirmed = store.confirmed)
    <2>1. ASSUME store # None PROVE store' # None /\ store'.confirmed = store.confirmed
      <3> DEFINE a == [store EXCEPT !.hash = sender[t].hash]
      <3>1. store' = a
        BY <1>2, <2>1 DEF SendStores, Saves
      <3>2. store \in Attempts /\ sender[t].hash \in Txs
        BY <1>1, <2>1, TabsTyped DEF PlanInv, TypeOK, OrNone
      <3>3. a \in Attempts /\ a.confirmed = store.confirmed
        <4> HIDE DEF Txs
        <4> QED BY <3>2 DEF Attempts
      <3> HIDE DEF a
      <3>4. a # None
        BY <3>3, DeploymentAssumption
      <3> QED BY <3>1, <3>3, <3>4
    <2> QED BY <2>1
  <1> QED BY <1>1, <1>3, LockedAttempts

LEMMA RecoverAttempts == ASSUME PromptEvents, PlanInv, AttemptInv, NEW t \in Tabs, Recover(t) PROVE AttemptInv'
  <1> DEFINE c == IF attempt[t].confirmed = Unknown THEN view[t].confirmed ELSE attempt[t].confirmed
  <1>1. PICK tx \in sent :
           /\ tx.step = c
           /\ Saves(t, [confirmed |-> c, hash |-> tx])
           /\ sender' = [sender EXCEPT ![t] = [at |-> "recover", hash |-> tx]]
    BY DEF Recover
  <1> DEFINE f == [at |-> "recover", hash |-> tx]
             a == [confirmed |-> c, hash |-> tx]
  <1>2. /\ sender' = [sender EXCEPT ![t] = f] /\ f.at = "recover" /\ store' = a /\ a.confirmed = c
        /\ UNCHANGED <<sent, requests, journal, view>>
    BY <1>1 DEF Recover, Saves, chain, disk
  <1>3. attempt[t] = store /\ store # None
    BY RunsPrompt DEF Recover
  <1>4. a # None
    <2>1. tx \in Txs /\ tx.step \in 0 .. Steps
      BY TxTyped DEF PlanInv, TypeOK
    <2>2. c \in 0 .. Steps + 1
      BY <1>1, <2>1, DeploymentAssumption
    <2> HIDE DEF c
    <2>3. a \in Attempts
      BY <2>1, <2>2, NewAttempt DEF OrNone
    <2> QED BY <2>3, DeploymentAssumption
  <1>5. NoneOut \/ c = store.confirmed
    <2>1. CASE store.confirmed = Unknown
      <3>1. Len(journal.confirmed) \in Nat /\ Len(journal.confirmed) <= Steps
        BY JournalTyped DEF PlanInv, TypeOK, JournalOK
      <3> QED BY <2>1, <3>1, DeploymentAssumption DEF AttemptInv, Unknown
    <2>2. CASE store.confirmed # Unknown
      BY <1>3, <2>2
    <2> QED BY <2>1, <2>2
  <1> HIDE DEF f, a, c
  <1> QED BY <1>2, <1>4, <1>5, LockedAttempts

-----------------------------------------------------------------------------
(* No tab asks twice.                                                      *)

LEMMA AttemptInit == Init => AttemptInv
  <1> SUFFICES ASSUME Init PROVE AttemptInv
    OBVIOUS
  <1>1. Idle.at = "idle" /\ Out = {}
    BY DEF Init, Idle, Out
  <1> QED BY <1>1 DEF Init, AttemptInv, AskedOnce, OneLock, HoldsLock, Fresh, NoneOut

LEMMA AttemptNext == ASSUME PromptEvents, PlanInv, AttemptInv, [Next]_vars PROVE AttemptInv'
  <1>1. CASE KilledInStatus \/ KilledInRecord \/ KilledInActivation
             \/ MineSent \/ Mines(Other) \/ \E skipped \in BOOLEAN : Serve(skipped)
    BY <1>1, OtherAttempts
  <1>2. CASE \E r \in requests : WalletSends(r) \/ WalletRejects(r) \/ WalletFails(r)
    BY <1>2, WalletAttempts
  <1>3. ASSUME NEW t \in Tabs,
               \/ Close(t) \/ StorageEvent(t)
               \/ Refresh(t, Blocked \cup Verified)
               \/ RefreshPosts(t) \/ RefreshAgain(t, Blocked \cup Verified) \/ RefreshFails(t)
               \/ SendAsks(t) \/ SendGets(t) \/ SendPrompts(t) \/ SendStores(t)
               \/ Recover(t) \/ SenderPosts(t) \/ SenderFails(t) \/ Activate(t)
        PROVE AttemptInv'
    BY <1>3, OtherAttempts, CloseAttempts, EventAttempts, RefreshAttempts, PostAttempts, AsksAttempts,
       GetsAttempts, PromptsAttempts, StoresAttempts, RecoverAttempts
  <1>4. CASE UNCHANGED vars
    BY <1>4, BaseJournal, UtilityAttempts DEF vars, chain, disk
  <1> QED BY <1>1, <1>2, <1>3, <1>4 DEF Next

LEMMA AtMostOne ==
  ASSUME NEW S, \A x, y \in S : x = y
  PROVE  Cardinality(S) \in {0, 1} /\ (S = {} <=> Cardinality(S) = 0)
  <1>1. CASE S = {}
    BY <1>1, FS_EmptySet
  <1>2. CASE S # {}
    <2>1. PICK x : S = {x}
      BY <1>2
    <2> QED BY <2>1, FS_Singleton
  <1> QED BY <1>1, <1>2

LEMMA AskedOnceCounted == ASSUME AskedOnce PROVE NeverAskedTwice
  <1> SUFFICES ASSUME NEW k \in 0 .. Steps - 1
               PROVE  Cardinality({r \in requests : r[2].step = k})
                        + Cardinality({tx \in sent : tx.step = k}) <= 1
    BY DEF NeverAskedTwice
  <1> DEFINE R == {r \in requests : r[2].step = k}
             S == {tx \in sent : tx.step = k}
  <1>1. (\A x, y \in R : x = y) /\ (\A x, y \in S : x = y) /\ (R = {} \/ S = {})
    BY DEF AskedOnce
  <1> HIDE DEF R, S
  <1>2. /\ Cardinality(R) \in {0, 1} /\ (R = {} => Cardinality(R) = 0)
        /\ Cardinality(S) \in {0, 1} /\ (S = {} => Cardinality(S) = 0)
    BY <1>1, AtMostOne
  <1>3. Cardinality(R) + Cardinality(S) <= 1
    BY <1>1, <1>2
  <1> QED BY <1>3 DEF R, S

\* Where a tab hears of a storage event before it does anything else, the wallet is
\* asked for each step of the plan in one request at a time and never again once
\* its transaction may have been sent: the attempt is saved before the prompt, and
\* only a rejection or a confirmed step clears it.
THEOREM AskedAtMostOnce == Spec => [](PromptEvents => NeverAskedTwice)
  <1> DEFINE Inv == PlanInv /\ (PromptEvents => AttemptInv)
  <1>1. Init => Inv
    BY PlanInit, AttemptInit
  <1>2. Inv /\ [Next]_vars => Inv'
    BY PlanNext, AttemptNext
  <1>3. Inv => (PromptEvents => NeverAskedTwice)
    BY AskedOnceCounted DEF AttemptInv
  <1> HIDE DEF Inv
  <1> QED BY <1>1, <1>2, <1>3, PTL DEF Spec
=============================================================================
