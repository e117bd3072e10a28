----------------------------- MODULE QuoteProofs -----------------------------
(* Theorems about quotes: PaymentSearch, by which the API finds the input of *)
(* a payment, for all invoices, scales and answers of the strategies; and    *)
(* Pages, which shows quotes, balances and lists, for all deployments,       *)
(* accounts, inputs, blocks and periods.                                     *)
EXTENDS PaymentSearch, Pages, TLAPS, FiniteSetTheorems, WellFoundedInduction, SequenceTheorems

-----------------------------------------------------------------------------
(* Arithmetic *)

LEMMA DivBounds ==
  ASSUME NEW n \in Nat, NEW d \in Nat \ {0}
  PROVE  n \div d \in Nat /\ d * (n \div d) <= n /\ n < d * (n \div d) + d
  OBVIOUS

\* A factor of a product that is at most c * q is at most q.
LEMMA Cancel ==
  ASSUME NEW c \in Nat \ {0}, NEW q \in Nat, NEW n \in Nat, c * q <= n, NEW k \in Nat, n < c * (k + 1)
  PROVE  q <= k
  <1> SUFFICES ASSUME q >= k + 1 PROVE FALSE
    OBVIOUS
  <1>1. c * (k + 1) <= c * q
    OBVIOUS
  <1> QED BY <1>1

LEMMA Monotone ==
  ASSUME NEW a \in Nat, NEW b \in Nat, NEW c \in Nat, a <= b
  PROVE  c * a <= c * b /\ c * a \in Nat /\ c * b \in Nat
  OBVIOUS

Cap(c) == AtMost(MaxStages, MaxQuoteCalls \div c)

\* Stages of at most MaxQuoteCalls calls, and of at most 28 batches.
LEMMA CapBounds ==
  ASSUME NEW c \in 1 .. MaxEligible
  PROVE  Cap(c) \in 4 .. 16 /\ c * Cap(c) <= MaxQuoteCalls /\ Batches(c) * Cap(c) <= 28 /\ Batches(c) \in Nat
  <1> DEFINE q == 128 \div c
  <1>1. c \in Nat \ {0} /\ c <= 32
    BY DEF MaxEligible
  <1>2. q \in Nat /\ c * q <= 128 /\ 128 < c * q + c
    BY <1>1, DivBounds
  <1> HIDE DEF q
  <1>3. Cap(c) = IF 16 < q THEN 16 ELSE q
    BY DEF Cap, AtMost, MaxStages, MaxQuoteCalls, q
  <1>4. q >= 4
    <2> SUFFICES ASSUME q <= 3 PROVE FALSE
      BY <1>2
    <2>1. c * q <= c * 3
      BY <1>1, <1>2, Monotone
    <2> QED BY <1>1, <1>2, <2>1
  <1>5. Cap(c) \in 4 .. 16 /\ Cap(c) <= q
    BY <1>2, <1>3, <1>4
  <1>6. c * Cap(c) <= 128
    BY <1>1, <1>2, <1>5, Monotone
  <1>7. Batches(c) * Cap(c) <= 28 /\ Batches(c) \in Nat
    <2>1. CASE c <= 8
      <3>1. Batches(c) = 1
        BY <1>1, <2>1 DEF Batches, BatchSize
      <3> QED BY <1>5, <3>1
    <2>2. CASE c > 8 /\ c <= 16
      <3>1. Batches(c) = 2
        BY <1>1, <2>2 DEF Batches, BatchSize
      <3>2. q <= 14
        BY <1>1, <1>2, <2>2, Cancel
      <3> QED BY <1>5, <3>1, <3>2, <1>2
    <2>3. CASE c > 16 /\ c <= 24
      <3>1. Batches(c) = 3
        BY <1>1, <2>3 DEF Batches, BatchSize
      <3>2. q <= 7
        BY <1>1, <1>2, <2>3, Cancel
      <3> QED BY <1>5, <3>1, <3>2, <1>2
    <2>4. CASE c > 24
      <3>1. Batches(c) = 4
        BY <1>1, <2>4 DEF Batches, BatchSize
      <3>2. q <= 5
        BY <1>1, <1>2, <2>4, Cancel
      <3> QED BY <1>5, <3>1, <3>2, <1>2
    <2> QED BY <1>1, <2>1, <2>2, <2>3, <2>4
  <1> QED BY <1>5, <1>6, <1>7 DEF MaxQuoteCalls

\* What is inspected is at most 96 calls in 12 batches.
LEMMA InspectionBatches ==
  ASSUME NEW n \in 0 .. MaxEligible
  PROVE  Batches(3 * n) \in 0 .. 12 /\ Batches(0) = 0
  BY DEF Batches, BatchSize, MaxEligible

LEMMA BatchesNat ==
  ASSUME NEW n \in Nat
  PROVE  Batches(n) \in Nat
  BY DEF Batches, BatchSize

-----------------------------------------------------------------------------
(* Inputs worth trying *)

LEMMA BoundInt ==
  ASSUME NEW i \in Invoices
  PROVE  /\ Bound(i) \in Int /\ Bound(i) <= i.maximum /\ Bound(i) <= i.balance
         /\ i.maximum \in Nat /\ i.balance \in Nat /\ i.due \in Nat
         /\ Bound(i) >= 2 => Seed(i) \in 2 .. Bound(i)
         /\ \A n \in Nat : n <= Bound(i) => n * Scale[i.decimals] < GrossLimit
  <1> DEFINE s == Scale[i.decimals]
             q == (GrossLimit - 1) \div s
             m == i.maximum
             b == i.balance
  <1>1. m \in Nat /\ b \in Nat /\ i.due \in Nat /\ s \in Nat \ {0} /\ GrossLimit - 1 \in Nat /\ GrossLimit \in Nat
        /\ i.decimals \in Nat
    BY SearchAssumption
  <1>2. q \in Nat /\ s * q <= GrossLimit - 1
    BY <1>1, DivBounds
  <1>3. Bound(i) = AtMost(AtMost(m, b), q)
    BY DEF Bound
  <1>4. \A n \in Nat : n <= q => n * s < GrossLimit
    <2> HIDE DEF s, q
    <2> SUFFICES ASSUME NEW n \in Nat, n <= q PROVE n * s < GrossLimit
      OBVIOUS
    <2>1. s * n <= s * q /\ s * n \in Nat
      BY <1>1, <1>2, Monotone
    <2>2. n * s = s * n
      BY <1>1
    <2> QED BY <1>1, <1>2, <2>1, <2>2
  <1> HIDE DEF q, m, b, s
  <1>5. Bound(i) \in Nat /\ Bound(i) <= m /\ Bound(i) <= b /\ Bound(i) <= q
    BY <1>1, <1>2, <1>3 DEF AtMost
  <1>6. Bound(i) >= 2 => Seed(i) \in 2 .. Bound(i)
    <2> DEFINE unit == 10 ^ i.decimals
               x == (i.due * unit + 999999) \div 1000000
    <2>1. unit \in Int
      BY <1>1
    <2> HIDE DEF unit
    <2>2. i.due * unit \in Int
      BY <1>1, <2>1
    <2>3. x \in Int
      BY <2>2
    <2>4. Seed(i) = AtMost(AtLeast(x, 2), Bound(i))
      BY DEF Seed, unit
    <2> HIDE DEF x
    <2> QED BY <1>5, <2>3, <2>4 DEF AtMost, AtLeast
  <1> QED BY <1>1, <1>2, <1>4, <1>5, <1>6 DEF m, b, s

\* Every input from two to the bound is fine for every fee.
LEMMA SameForAll ==
  ASSUME invoice \in Invoices, NEW n \in 2 .. bound
  PROVE  SameStrategies(n) /\ AcceptedFees(n) = Fees
  <1> DEFINE ok(k) == \A f \in Fees : RangeSupported(k, f)
  <1>1. bound \in Int /\ (bound >= 2 => seed \in 2 .. bound)
    BY BoundInt DEF bound, seed
  <1>2. ASSUME NEW k \in 2 .. bound, NEW f \in Fees PROVE RangeSupported(k, f)
    <2>1. k \in Nat /\ k <= bound /\ k >= 2
      BY <1>1
    <2>2. k * Scale[invoice.decimals] < GrossLimit
      BY <2>1, BoundInt DEF bound
    <2>3. FeeIn(k, f) < k
      <3>1. CASE f = 100
        BY <2>1, <3>1 DEF FeeIn
      <3>2. CASE f = 500
        BY <2>1, <3>2 DEF FeeIn
      <3>3. CASE f = 1000
        BY <2>1, <3>3 DEF FeeIn
      <3> QED BY <3>1, <3>2, <3>3 DEF Fees
    <2> QED BY <2>2, <2>3 DEF RangeSupported
  <1>3. \A k \in 2 .. bound : AcceptedFees(k) = Fees
    BY <1>2 DEF AcceptedFees
  <1>4. seed \in 2 .. bound
    BY <1>1
  <1> QED BY <1>3, <1>4 DEF SameStrategies

-----------------------------------------------------------------------------
(* The search *)

SearchType ==
  /\ invoice \in Invoices
  /\ inspected \in 0 .. MaxEligible /\ count \in 0 .. inspected
  /\ phase \in {"fund", "inspect", "expand", "refine", "recheck", "done"}
  /\ amount \in Nat /\ cursor \in Nat /\ selected \in Nat
  /\ expansions \in Nat /\ refinements \in Nat
  /\ members \in Nat /\ batches \in Nat
  /\ passed \subseteq Nat /\ failed \subseteq Nat

\* The least sufficient input is selected; the cursor is the greatest insufficient
\* one, or one less than any input.
Found ==
  /\ selected # NoInput => selected \in passed /\ selected <= bound /\ cursor < selected
  /\ \A a \in passed : selected # NoInput /\ selected <= a
  /\ \A a \in failed : a <= cursor
  /\ cursor >= 1 /\ (cursor = 1 \/ cursor \in failed)

Fresh == outcome = "none" /\ selected = NoInput /\ count = 0 /\ inspected = 0 /\ expansions = 0 /\ refinements = 0 /\ cursor = 1

\* What each phase has found so far.
Progress ==
  /\ phase = "fund" => Fresh
  /\ phase = "inspect" => Fresh /\ bound >= 2 /\ amount = seed
  /\ phase = "expand" =>
       /\ outcome = "none" /\ selected = NoInput /\ count >= 1
       /\ expansions < ExpansionCap /\ refinements = 0
       /\ amount \in 2 .. bound /\ cursor < amount
  /\ phase = "refine" => outcome = "none" /\ selected # NoInput /\ count >= 1
  /\ phase \in {"recheck", "done"} =>
       /\ outcome \notin Errors
       /\ outcome = "direct" => amount <= invoice.maximum /\ amount <= invoice.balance
       /\ outcome = "search_exhausted" => bound \in failed /\ selected = NoInput
       /\ outcome = "adjacent_cursor" => selected # NoInput /\ selected - cursor <= 1

\* What the reads so far have been charged.
Spent ==
  /\ StagesUsed <= IF count = 0 THEN 0 ELSE Cap(count)
  /\ members <= 3 + (IF phase = "fund" THEN 0 ELSE 8) + 3 * inspected + count * StagesUsed
                + (IF phase = "done" THEN 11 ELSE 0)
  /\ batches <= 1 + (IF phase = "fund" THEN 0 ELSE 1) + Batches(3 * inspected) + Batches(count) * StagesUsed
                + (IF phase = "done" THEN 2 ELSE 0)

SearchInv == SearchType /\ Found /\ Progress /\ Spent

\* Constants of the bounds.
LEMMA BoundFacts ==
  ASSUME SearchType
  PROVE  /\ bound \in Int /\ bound <= invoice.maximum /\ bound <= invoice.balance
         /\ invoice.maximum \in Nat /\ invoice.balance \in Nat /\ invoice.due \in Nat
         /\ bound >= 2 => seed \in 2 .. bound
  BY BoundInt DEF SearchType, bound, seed

\* What a quote is charged stays below the limits, in every phase.
LEMMA SpentBounds ==
  ASSUME SearchType, Spent
  PROVE  /\ count * StagesUsed <= MaxQuoteCalls /\ count * StagesUsed \in Nat
         /\ Batches(count) * StagesUsed <= 28
         /\ members <= 235 + (IF phase = "done" THEN 11 ELSE 0)
         /\ batches <= 42 + (IF phase = "done" THEN 2 ELSE 0)
         /\ count # 0 => StagesUsed <= Cap(count) /\ count \in 1 .. MaxEligible
         /\ StagesUsed \in Nat
  <1> DEFINE u == StagesUsed
             calls == count * u
             rounds == Batches(count) * u
             inspection == Batches(3 * inspected)
  <1>1. u \in Nat /\ count \in 0 .. MaxEligible /\ inspected \in 0 .. MaxEligible
    BY DEF SearchType, StagesUsed, MaxEligible
  <1>2. inspection \in 0 .. 12 /\ 3 * inspected <= 96 /\ 3 * inspected \in Nat
    BY <1>1, InspectionBatches DEF MaxEligible
  <1>3. count # 0 => u <= Cap(count) /\ count \in 1 .. MaxEligible
    BY <1>1 DEF Spent, MaxEligible
  <1>4. calls <= 128 /\ calls \in Nat /\ rounds <= 28 /\ rounds \in Nat
    <2>1. CASE count = 0
      <3>1. u = 0
        BY <1>1, <2>1 DEF Spent
      <3>2. Batches(0) = 0
        BY InspectionBatches DEF MaxEligible
      <3> HIDE DEF u
      <3> QED BY <2>1, <3>1, <3>2
    <2>2. CASE count # 0
      <3>1. /\ Cap(count) \in Nat /\ count * Cap(count) <= 128 /\ Batches(count) * Cap(count) <= 28
            /\ Batches(count) \in Nat
        BY <1>3, <2>2, CapBounds DEF MaxQuoteCalls
      <3>2. u <= Cap(count) /\ count \in Nat
        BY <1>1, <1>3, <2>2
      <3> DEFINE c == Cap(count)
                 p == Batches(count)
      <3> HIDE DEF u, c, p
      <3>3. count * u <= count * c /\ count * u \in Nat
        BY <1>1, <3>1, <3>2, Monotone DEF c
      <3>4. p * u <= p * c /\ p * u \in Nat
        BY <1>1, <3>1, <3>2, Monotone DEF c, p
      <3> QED BY <1>1, <3>1, <3>3, <3>4 DEF c, p
    <2> QED BY <2>1, <2>2
  <1>5. /\ members <= 3 + (IF phase = "fund" THEN 0 ELSE 8) + 3 * inspected + calls + (IF phase = "done" THEN 11 ELSE 0)
        /\ batches <= 1 + (IF phase = "fund" THEN 0 ELSE 1) + inspection + rounds + (IF phase = "done" THEN 2 ELSE 0)
        /\ members \in Nat /\ batches \in Nat
    BY DEF Spent, SearchType
  <1>6. members <= 235 + (IF phase = "done" THEN 11 ELSE 0) /\ batches <= 42 + (IF phase = "done" THEN 2 ELSE 0)
    <2> HIDE DEF u, calls, rounds, inspection
    <2> QED BY <1>2, <1>4, <1>5
  <1> QED BY <1>1, <1>3, <1>4, <1>6 DEF MaxQuoteCalls

LEMMA InitSearch == SearchInit => SearchInv
  <1> SUFFICES ASSUME SearchInit PROVE SearchInv
    OBVIOUS
  <1> USE DEF SearchInit, NoInput, MaxEligible
  <1>1. SearchType
    BY DEF SearchType
  <1>2. Found /\ Progress
    BY DEF Found, Progress, Fresh
  <1>3. Spent
    <2>1. Batches(3 * 0) = 0 /\ StagesUsed = 0
      BY DEF Batches, BatchSize, StagesUsed
    <2>2. Batches(0) = 0
      BY InspectionBatches
    <2> QED BY <2>1, <2>2 DEF Spent
  <1> QED BY <1>1, <1>2, <1>3 DEF SearchInv

LEMMA FundStep ==
  ASSUME SearchInv, Fund
  PROVE  SearchInv'
  <1>1. /\ phase = "fund" /\ members' = members + ContextCalls /\ batches' = batches + 1
        /\ UNCHANGED <<invoice, inspected, count, cursor, selected, expansions, refinements, passed, failed>>
    BY DEF Fund, Charge, tried
  <1>2. Fresh /\ SearchType /\ Found /\ Spent
    BY <1>1 DEF SearchInv, Progress
  <1>3. ContextCalls \in 0 .. 8
    BY DEF ContextCalls
  <1>4. bound' = bound
    BY <1>1 DEF bound
  <1>5. Refusal \notin Errors \cup {"direct", "search_exhausted", "adjacent_cursor"}
    BY DEF Refusal, Errors
  <1>6. \/ /\ Refusal # "none" /\ phase' = "recheck" /\ outcome' = Refusal /\ amount' = amount
        \/ /\ Refusal = "none" /\ invoice.usdc /\ phase' = "recheck" /\ outcome' = "direct" /\ amount' = invoice.due
        \/ /\ Refusal = "none" /\ ~invoice.usdc /\ phase' = "inspect" /\ amount' = seed /\ outcome' = outcome
    BY DEF Fund, Ends
  <1>7. SearchType' /\ Progress'
    <2>1. CASE Refusal # "none"
      BY <1>1, <1>2, <1>3, <1>5, <1>6, <2>1 DEF SearchType, Progress
    <2>2. CASE Refusal = "none" /\ invoice.usdc
      <3>1. invoice.due <= invoice.maximum /\ invoice.due <= invoice.balance /\ invoice.due \in Nat
        BY <1>2, <2>2, BoundFacts DEF Refusal
      <3>2. phase' = "recheck" /\ outcome' = "direct" /\ amount' = invoice.due
        BY <1>6, <2>2
      <3> QED BY <1>1, <1>2, <1>3, <3>1, <3>2 DEF SearchType, Progress, Errors
    <2>3. CASE Refusal = "none" /\ ~invoice.usdc
      <3>1. bound >= 2
        BY <1>2, <2>3, BoundFacts DEF Refusal
      <3>2. seed \in Nat
        BY <1>2, <3>1, BoundFacts
      <3>3. phase' = "inspect" /\ amount' = seed /\ outcome' = outcome /\ seed' = seed
        BY <1>1, <1>6, <2>3 DEF seed, bound
      <3> QED BY <1>1, <1>2, <1>3, <1>4, <3>1, <3>2, <3>3 DEF SearchType, Progress, Fresh
    <2> QED BY <2>1, <2>2, <2>3
  <1>8. Found'
    BY <1>1, <1>2, <1>4 DEF Found
  <1>9. Spent'
    <2>1. phase' \notin {"fund", "done"} /\ StagesUsed' = StagesUsed
      BY <1>1, <1>6 DEF StagesUsed
    <2>2. /\ inspected = 0 /\ count = 0 /\ StagesUsed = 0
      BY <1>2 DEF Fresh, StagesUsed
    <2>3. Batches(3 * 0) = 0 /\ Batches(0) = 0
      BY DEF Batches, BatchSize
    <2>4. members <= 3 /\ batches <= 1 /\ members \in Nat /\ batches \in Nat
      BY <1>1, <1>2, <2>2, <2>3 DEF Spent, SearchType
    <2> QED BY <1>1, <1>3, <2>1, <2>2, <2>3, <2>4 DEF Spent
  <1> QED BY <1>7, <1>8, <1>9 DEF SearchInv

LEMMA InspectStep ==
  ASSUME SearchInv, Inspect
  PROVE  SearchInv'
  <1>1. /\ phase = "inspect" /\ Fresh /\ SearchType /\ Found /\ Spent /\ bound >= 2 /\ amount = seed
    BY DEF Inspect, SearchInv, Progress
  <1>2. PICK accepted \in IF AcceptedFees(seed) = {} THEN {0} ELSE 0 .. MaxEligible + 1 :
          inspected' = AtMost(accepted, MaxEligible)
    BY DEF Inspect
  <1>3. inspected' \in 0 .. MaxEligible
    BY <1>2 DEF AtMost, MaxEligible
  <1>4. /\ count' \in 0 .. inspected'
        /\ members' = members + 3 * inspected' /\ batches' = batches + Batches(3 * inspected')
        /\ UNCHANGED <<invoice, amount, cursor, selected, expansions, refinements, passed, failed>>
    BY DEF Inspect, Charge, tried
  <1>5. \/ count' = 0 /\ phase' = "recheck" /\ outcome' = "no_eligible_strategies"
        \/ count' # 0 /\ phase' = "expand" /\ outcome' = outcome
    BY DEF Inspect, Ends
  <1>6. bound' = bound /\ seed \in 2 .. bound
    BY <1>1, <1>4, BoundFacts DEF bound
  <1>7. Batches(3 * inspected') \in 0 .. 12
    BY <1>3, InspectionBatches
  <1>m. PICK n \in 0 .. 32, c \in 0 .. 32 : n = inspected' /\ c = count' /\ c \in 0 .. n
    BY <1>3, <1>4 DEF MaxEligible
  <1> DEFINE b == Batches(3 * n)
             p == Batches(c)
  <1>n. /\ b \in Nat /\ p \in Nat /\ 3 * n \in Nat
        /\ members' = members + 3 * n /\ batches' = batches + b
    <2>1. n \in Nat /\ c \in Nat /\ 3 * n \in Nat
      OBVIOUS
    <2>2. b \in Nat
      BY <2>1, BatchesNat
    <2>3. p \in Nat
      BY <2>1, BatchesNat
    <2> QED BY <1>4, <1>m, <2>1, <2>2, <2>3
  <1> HIDE DEF b, p
  <1>8. SearchType'
    <2>1. members' \in Nat /\ batches' \in Nat
      BY <1>1, <1>n DEF SearchType
    <2> QED BY <1>1, <1>3, <1>4, <1>5, <2>1 DEF SearchType
  <1>9. Found'
    BY <1>1, <1>4, <1>6 DEF Found, Fresh
  <1>10. Progress'
    <2>1. CASE count' = 0
      <3>1. phase' = "recheck" /\ outcome' = "no_eligible_strategies"
        BY <1>5, <2>1
      <3> QED BY <3>1 DEF Progress, Errors
    <2>2. CASE count' # 0
      <3>1. phase' = "expand" /\ outcome' = outcome /\ count' >= 1 /\ count' \in 1 .. MaxEligible
        BY <1>3, <1>4, <1>5, <2>2 DEF MaxEligible
      <3>2. ExpansionCap' = AtMost(MaxExpansions, Cap(count'))
        BY DEF ExpansionCap, StageCap, Cap
      <3>3. ExpansionCap' >= 4
        BY <3>1, <3>2, CapBounds DEF AtMost, MaxExpansions
      <3>4. expansions' = 0 /\ refinements' = 0 /\ cursor' = 1 /\ selected' = NoInput /\ amount' \in 2 .. bound'
        BY <1>1, <1>4, <1>6 DEF Fresh
      <3>5. expansions' < ExpansionCap'
        BY <3>3, <3>4, <3>1, <3>2, CapBounds DEF AtMost, MaxExpansions
      <3> QED BY <1>1, <3>1, <3>4, <3>5 DEF Progress, Fresh
    <2> QED BY <2>1, <2>2
  <1>11. Spent'
    <2>1. /\ inspected = 0 /\ count = 0 /\ StagesUsed = 0 /\ StagesUsed' = 0
      BY <1>1, <1>4 DEF Fresh, StagesUsed
    <2>2. Batches(3 * 0) = 0 /\ Batches(0) = 0
      BY DEF Batches, BatchSize
    <2>3. members <= 11 /\ batches <= 2 /\ members \in Nat /\ batches \in Nat
      BY <1>1, <2>1, <2>2 DEF Spent, SearchType
    <2>4. phase' \notin {"fund", "done"}
      BY <1>5
    <2>5. 0 <= IF count' = 0 THEN 0 ELSE Cap(count')
      <3>1. count' # 0 => count' \in 1 .. MaxEligible
        BY <1>3, <1>4 DEF MaxEligible
      <3> QED BY <3>1, CapBounds
    <2>6. c * 0 = 0 /\ p * 0 = 0
      BY <1>n
    <2>7. members' <= 3 + 8 + 3 * n + c * 0 + 0 /\ batches' <= 1 + 1 + b + p * 0 + 0
      BY <1>n, <2>3, <2>6
    <2> QED BY <1>m, <2>1, <2>4, <2>5, <2>7 DEF Spent, b, p
  <1> QED BY <1>8, <1>9, <1>10, <1>11 DEF SearchInv

\* A stage is charged one call for each strategy.
LEMMA StageSpent ==
  ASSUME SearchType, Spent, phase \notin {"fund", "done"}, phase' \notin {"fund", "done"},
         members' = members + count, batches' = batches + Batches(count),
         UNCHANGED <<inspected, count>>, StagesUsed' = StagesUsed + 1, count >= 1, StagesUsed < Cap(count)
  PROVE  Spent' /\ members' \in Nat /\ batches' \in Nat
  <1> DEFINE u == StagesUsed
             c == count
             p == Batches(c)
             b == Batches(3 * inspected)
             i == 3 * inspected
  <1>1. c \in Nat /\ c \in 1 .. MaxEligible /\ u \in Nat /\ i \in Nat /\ members \in Nat /\ batches \in Nat
    BY DEF SearchType, StagesUsed, MaxEligible
  <1>2. p \in Nat /\ b \in Nat /\ Cap(c) \in Nat
    BY <1>1, BatchesNat, CapBounds
  <1>3. u + 1 <= Cap(c)
    BY <1>1, <1>2
  <1>4. members <= 3 + 8 + i + c * u + 0 /\ batches <= 1 + 1 + b + p * u + 0
    BY DEF Spent
  <1>5. members' = members + c /\ batches' = batches + p
    OBVIOUS
  <1> HIDE DEF u, c, p, b, i
  <1>6. c * (u + 1) = c * u + c /\ p * (u + 1) = p * u + p /\ c * u \in Nat /\ p * u \in Nat
    BY <1>1, <1>2
  <1>7. members' <= 3 + 8 + i + c * (u + 1) + 0 /\ batches' <= 1 + 1 + b + p * (u + 1) + 0
    BY <1>1, <1>2, <1>4, <1>5, <1>6
  <1>8. members' \in Nat /\ batches' \in Nat
    BY <1>1, <1>2, <1>5
  <1>9. c # 0
    BY <1>1
  <1> QED BY <1>3, <1>7, <1>8, <1>9 DEF Spent, u, c, p, b, i

\* No stage that the search comes to is barred, for any answers.
LEMMA NotBarred ==
  ASSUME SearchType, count >= 1, StagesUsed < Cap(count), NEW n \in 2 .. bound
  PROVE  ~Barred(n)
  <1>1. StageCap = Cap(count)
    BY DEF StageCap, Cap
  <1> QED BY <1>1, SameForAll DEF Barred, StageAllowed, SearchType

\* An input that is sufficient becomes the one selected.
LEMMA FoundPassed ==
  ASSUME SearchType, Found, NEW x \in Nat, cursor < x, x <= bound, selected # NoInput => x < selected,
         selected' = x, passed' = passed \cup {x}, failed' = failed, cursor' = cursor, bound' = bound
  PROVE  Found' /\ passed' \subseteq Nat /\ failed' \subseteq Nat
  <1>1. /\ cursor \in Nat /\ cursor >= 1 /\ passed \subseteq Nat /\ failed \subseteq Nat /\ selected \in Nat
        /\ (cursor = 1 \/ cursor \in failed) /\ (\A a \in failed : a <= cursor)
    BY DEF SearchType, Found
  <1>2. ASSUME NEW a \in passed' PROVE x <= a /\ a \in Nat
    <2>1. CASE a \in passed
      <3>1. selected # NoInput /\ selected <= a /\ a \in Nat
        BY <1>1, <2>1 DEF Found
      <3> QED BY <1>1, <3>1
    <2>2. CASE a = x
      BY <2>2
    <2> QED BY <2>1, <2>2
  <1>3. selected' # NoInput /\ selected' \in passed' /\ selected' <= bound' /\ cursor' < selected'
    BY <1>1 DEF NoInput
  <1>4. \A a \in passed' : selected' # NoInput /\ selected' <= a
    BY <1>2, <1>3
  <1>5. /\ \A a \in failed' : a <= cursor'
        /\ cursor' >= 1 /\ (cursor' = 1 \/ cursor' \in failed')
    BY <1>1
  <1>6. Found'
    BY <1>3, <1>4, <1>5 DEF Found
  <1> QED BY <1>1, <1>2, <1>6

\* An input that is not becomes the cursor.
LEMMA FoundFailed ==
  ASSUME SearchType, Found, NEW x \in Nat, cursor < x, selected # NoInput => x < selected,
         selected' = selected, passed' = passed, failed' = failed \cup {x}, cursor' = x, bound' = bound
  PROVE  Found' /\ passed' \subseteq Nat /\ failed' \subseteq Nat
  <1>1. /\ cursor \in Nat /\ cursor >= 1 /\ passed \subseteq Nat /\ failed \subseteq Nat
    BY DEF SearchType, Found
  <1>2. ASSUME NEW a \in failed' PROVE a <= x /\ a \in Nat
    <2>1. CASE a \in failed
      <3>1. a <= cursor /\ a \in Nat
        BY <1>1, <2>1 DEF Found
      <3> QED BY <1>1, <3>1
    <2>2. CASE a = x
      BY <2>2
    <2> QED BY <2>1, <2>2
  <1>3. /\ selected' # NoInput => selected' \in passed' /\ selected' <= bound' /\ cursor' < selected'
        /\ \A a \in passed' : selected' # NoInput /\ selected' <= a
    BY DEF Found
  <1>4. /\ \A a \in failed' : a <= cursor'
        /\ cursor' >= 1 /\ cursor' \in failed'
    BY <1>1, <1>2
  <1>5. Found'
    BY <1>3, <1>4 DEF Found
  <1> QED BY <1>1, <1>2, <1>5

LEMMA ExpandStep ==
  ASSUME SearchInv, Expand
  PROVE  SearchInv'
  <1> DEFINE x == ExpansionInput
  <1>1. /\ phase = "expand" /\ SearchType /\ Found /\ Spent
        /\ outcome = "none" /\ selected = NoInput /\ count >= 1
        /\ expansions < ExpansionCap /\ refinements = 0
        /\ amount \in 2 .. bound /\ cursor < amount
        /\ UNCHANGED <<invoice, inspected, count, refinements>>
    BY DEF Expand, SearchInv, Progress
  <1>2. bound \in Int /\ bound' = bound
    BY <1>1, BoundFacts DEF bound
  <1>3. count \in 1 .. MaxEligible /\ Cap(count) \in 4 .. 16 /\ expansions \in Nat
    <2>1. count \in 1 .. MaxEligible /\ expansions \in Nat
      BY <1>1 DEF SearchType, MaxEligible
    <2> QED BY <2>1, CapBounds
  <1>4. ExpansionCap = AtMost(MaxExpansions, Cap(count)) /\ ExpansionCap' = ExpansionCap /\ ExpansionCap \in Nat
    BY <1>1, <1>3 DEF ExpansionCap, StageCap, Cap, AtMost, MaxExpansions
  <1>5. StagesUsed < Cap(count) /\ StagesUsed = expansions
    BY <1>1, <1>3, <1>4 DEF StagesUsed, AtMost, MaxExpansions
  <1>6. x \in 2 .. bound /\ cursor < x /\ (expansions = ExpansionCap - 1 => x = bound)
    BY <1>1, <1>2 DEF ExpansionInput, SearchType
  <1>7. ~Barred(x)
    BY <1>1, <1>5, <1>6, NotBarred
  <1>8. PICK quoted \in BOOLEAN :
          /\ Stage(x, quoted)
          /\ expansions' = expansions + 1
          /\ IF quoted
             THEN phase' = "refine" /\ UNCHANGED <<outcome, amount, cursor>>
             ELSE /\ cursor' = x
                  /\ amount' = Doubled(x)
                  /\ IF x = bound \/ expansions' = ExpansionCap
                     THEN Ends("search_exhausted")
                     ELSE UNCHANGED <<phase, outcome>>
    BY <1>7 DEF Expand
  <1>9. /\ members' = members + count /\ batches' = batches + Batches(count)
        /\ quoted => selected' = x /\ passed' = passed \cup {x} /\ failed' = failed
        /\ ~quoted => failed' = failed \cup {x} /\ selected' = selected /\ passed' = passed
    BY <1>8 DEF Stage, Charge
  <1> HIDE DEF x
  <1>10. phase' \in {"expand", "refine", "recheck"}
    BY <1>1, <1>8 DEF Ends
  <1>11. Spent' /\ members' \in Nat /\ batches' \in Nat
    <2>1. StagesUsed' = StagesUsed + 1
      BY <1>1, <1>3, <1>8 DEF StagesUsed
    <2> QED BY <1>1, <1>5, <1>9, <1>10, <2>1, StageSpent
  <1>12. CASE quoted
    <2>0. x \in Nat /\ x <= bound
      BY <1>2, <1>6
    <2>1. Found' /\ passed' \subseteq Nat /\ failed' \subseteq Nat
      BY <1>1, <1>2, <1>6, <1>8, <1>9, <1>12, <2>0, FoundPassed
    <2>2. SearchType'
      BY <1>1, <1>3, <1>8, <1>9, <1>10, <1>11, <1>12, <2>0, <2>1 DEF SearchType
    <2>3. Progress'
      BY <1>1, <1>2, <1>6, <1>8, <1>9, <1>12 DEF Progress, NoInput
    <2> QED BY <1>11, <2>1, <2>2, <2>3 DEF SearchInv
  <1>13. CASE ~quoted
    <2>1. x < bound => Doubled(x) \in 2 .. bound /\ x < Doubled(x)
      BY <1>2, <1>6 DEF Doubled
    <2>2. Doubled(x) \in Nat
      BY <1>2, <1>6 DEF Doubled
    <2>3. cursor' = x /\ amount' = Doubled(x) /\ x \in Nat /\ x >= 2
      BY <1>2, <1>6, <1>8, <1>13
    <2>4. Found' /\ passed' \subseteq Nat /\ failed' \subseteq Nat
      BY <1>1, <1>2, <1>6, <1>9, <1>13, <2>3, FoundFailed
    <2>5. SearchType'
      <3>1. expansions' \in Nat /\ selected' \in Nat
        BY <1>1, <1>3, <1>8, <1>9, <1>13 DEF SearchType
      <3> QED BY <1>1, <1>10, <1>11, <2>2, <2>3, <2>4, <3>1 DEF SearchType
    <2>6. CASE x = bound \/ expansions' = ExpansionCap
      <3>1. phase' = "recheck" /\ outcome' = "search_exhausted" /\ x = bound
        BY <1>3, <1>4, <1>6, <1>8, <1>13, <2>6 DEF Ends
      <3>2. Progress'
        BY <1>1, <1>2, <1>9, <1>13, <3>1 DEF Progress, Errors
      <3> QED BY <1>11, <2>4, <2>5, <3>2 DEF SearchInv
    <2>7. CASE x # bound /\ expansions' # ExpansionCap
      <3>1. phase' = "expand" /\ outcome' = "none" /\ expansions' < ExpansionCap'
        BY <1>1, <1>3, <1>4, <1>8, <1>13, <2>7
      <3>2. Progress'
        BY <1>1, <1>2, <1>6, <1>9, <1>13, <2>1, <2>3, <2>7, <3>1 DEF Progress
      <3> QED BY <1>11, <2>4, <2>5, <3>2 DEF SearchInv
    <2> QED BY <2>6, <2>7
  <1> QED BY <1>12, <1>13

LEMMA RefineStep ==
  ASSUME SearchInv, Refine
  PROVE  SearchInv'
  <1> DEFINE m == (cursor + selected) \div 2
  <1>1. /\ phase = "refine" /\ SearchType /\ Found /\ Spent /\ outcome = "none" /\ selected # NoInput /\ count >= 1
        /\ UNCHANGED <<invoice, inspected, count, amount, expansions>>
    BY DEF Refine, SearchInv, Progress
  <1>2. bound \in Int /\ bound' = bound
    BY <1>1, BoundFacts DEF bound
  <1>3. StageCap = Cap(count) /\ count \in 1 .. MaxEligible /\ Cap(count) \in 4 .. 16
    BY <1>1, CapBounds DEF StageCap, Cap, SearchType, MaxEligible
  <1>4. CASE /\ \/ selected - cursor <= 1 /\ Ends("adjacent_cursor")
                \/ Ends("aggregate_limit") \/ Ends("refinement_limit") \/ Ends("refinement_skipped")
             /\ UNCHANGED <<cursor, selected, refinements, work, tried>>
    <2>1. /\ UNCHANGED <<cursor, selected, refinements, members, batches, passed, failed>>
          /\ phase' = "recheck"
          /\ outcome' \in {"adjacent_cursor", "aggregate_limit", "refinement_limit", "refinement_skipped"}
          /\ outcome' = "adjacent_cursor" => selected - cursor <= 1
      BY <1>4 DEF Ends, work, tried
    <2>2. SearchType' /\ Found'
      BY <1>1, <1>2, <2>1 DEF SearchType, Found
    <2>3. Progress'
      BY <1>1, <2>1 DEF Progress, Errors
    <2>4. Spent'
      BY <1>1, <2>1 DEF Spent, StagesUsed
    <2> QED BY <2>2, <2>3, <2>4 DEF SearchInv
  <1>5. CASE /\ selected - cursor > 1 /\ StagesUsed < StageCap
             /\ IF Barred(m)
                THEN /\ Ends(BarredBy(m))
                     /\ UNCHANGED <<cursor, selected, refinements, work, tried>>
                ELSE \E quoted \in BOOLEAN :
                  /\ Stage(m, quoted)
                  /\ refinements' = refinements + 1
                  /\ cursor' = CursorAfter(m, quoted)
                  /\ UNCHANGED <<phase, outcome>>
    <2>1. m \in Nat /\ cursor < m /\ m < selected /\ m \in 2 .. bound
      BY <1>1, <1>2, <1>5 DEF SearchType, Found
    <2> HIDE DEF m
    <2>2. ~Barred(m)
      BY <1>1, <1>3, <1>5, <2>1, NotBarred
    <2>3. PICK quoted \in BOOLEAN :
            /\ Stage(m, quoted)
            /\ refinements' = refinements + 1
            /\ cursor' = CursorAfter(m, quoted)
            /\ UNCHANGED <<phase, outcome>>
      BY <1>5, <2>2
    <2>4. /\ members' = members + count /\ batches' = batches + Batches(count)
          /\ quoted => selected' = m /\ passed' = passed \cup {m} /\ failed' = failed /\ cursor' = cursor
          /\ ~quoted => failed' = failed \cup {m} /\ selected' = selected /\ passed' = passed /\ cursor' = m
      BY <2>3 DEF Stage, Charge, CursorAfter
    <2>5. Spent' /\ members' \in Nat /\ batches' \in Nat
      <3>1. StagesUsed' = StagesUsed + 1
        BY <1>1, <2>3 DEF StagesUsed, SearchType
      <3> QED BY <1>1, <1>3, <1>5, <2>3, <2>4, <3>1, StageSpent
    <2>6. Found' /\ passed' \subseteq Nat /\ failed' \subseteq Nat
      <3>1. m <= bound
        BY <1>2, <2>1
      <3>2. CASE quoted
        BY <1>1, <1>2, <2>1, <2>4, <3>1, <3>2, FoundPassed
      <3>3. CASE ~quoted
        BY <1>1, <1>2, <2>1, <2>4, <3>3, FoundFailed
      <3> QED BY <3>2, <3>3
    <2>7. SearchType'
      <3>1. refinements' \in Nat /\ selected' \in Nat /\ cursor' \in Nat
        BY <1>1, <2>1, <2>3, <2>4 DEF SearchType
      <3> QED BY <1>1, <2>3, <2>5, <2>6, <3>1 DEF SearchType
    <2>8. Progress'
      BY <1>1, <2>1, <2>3, <2>4 DEF Progress, NoInput
    <2> QED BY <2>5, <2>6, <2>7, <2>8 DEF SearchInv
  <1> QED BY <1>4, <1>5 DEF Refine

LEMMA RecheckStep ==
  ASSUME SearchInv, RecheckContext
  PROVE  SearchInv'
  <1>1. /\ phase = "recheck" /\ members' = members + (3 + ContextCalls) /\ batches' = batches + 2
        /\ phase' = "done" /\ outcome' = IF Exceeded' THEN "PAYMENT_WORK_EXCEEDED" ELSE outcome
        /\ UNCHANGED <<invoice, inspected, count, amount, cursor, selected, expansions, refinements, passed, failed>>
    BY DEF RecheckContext, Charge, tried
  <1>2. SearchType /\ Found /\ Progress /\ Spent
    BY DEF SearchInv
  <1>3. ContextCalls \in 0 .. 8 /\ members \in Nat /\ batches \in Nat
    BY <1>2 DEF ContextCalls, SearchType
  <1>4. members <= 235 + 0 /\ batches <= 42 + 0
    BY <1>1, <1>2, SpentBounds
  <1>5. ~Exceeded' /\ members' \in Nat /\ batches' \in Nat
    BY <1>1, <1>3, <1>4 DEF Exceeded
  <1>6. outcome' = outcome /\ bound' = bound
    BY <1>1, <1>5 DEF bound
  <1>7. SearchType' /\ Found'
    BY <1>1, <1>2, <1>5, <1>6 DEF SearchType, Found
  <1>8. Progress'
    BY <1>1, <1>2, <1>6 DEF Progress
  <1>9. Spent'
    <2> DEFINE r == 3 * inspected + count * StagesUsed
               s == Batches(3 * inspected) + Batches(count) * StagesUsed
    <2>1. /\ members <= 3 + 8 + 3 * inspected + count * StagesUsed + 0
          /\ batches <= 1 + 1 + Batches(3 * inspected) + Batches(count) * StagesUsed + 0
          /\ StagesUsed <= IF count = 0 THEN 0 ELSE Cap(count)
      BY <1>1, <1>2 DEF Spent
    <2>2. /\ 3 * inspected \in Nat /\ count * StagesUsed \in Nat
          /\ Batches(3 * inspected) \in Nat /\ Batches(count) * StagesUsed \in Nat
      <3>1. inspected \in Nat /\ count \in Nat /\ StagesUsed \in Nat
        BY <1>2 DEF SearchType, StagesUsed
      <3>2. 3 * inspected \in Nat /\ Batches(count) \in Nat
        BY <3>1, BatchesNat
      <3>3. Batches(3 * inspected) \in Nat
        BY <3>2, BatchesNat
      <3> DEFINE p == Batches(count)
      <3> HIDE DEF p
      <3>4. count * StagesUsed \in Nat /\ p * StagesUsed \in Nat
        BY <3>1, <3>2 DEF p
      <3> QED BY <3>2, <3>3, <3>4 DEF p
    <2>3. /\ members' <= 3 + 8 + 3 * inspected + count * StagesUsed + 11
          /\ batches' <= 1 + 1 + Batches(3 * inspected) + Batches(count) * StagesUsed + 2
      <3> DEFINE i == 3 * inspected
                 c == count * StagesUsed
                 b == Batches(3 * inspected)
                 p == Batches(count) * StagesUsed
      <3>1. /\ members <= 3 + 8 + i + c + 0 /\ batches <= 1 + 1 + b + p + 0
            /\ i \in Nat /\ c \in Nat /\ b \in Nat /\ p \in Nat
        BY <2>1, <2>2
      <3> HIDE DEF i, c, b, p
      <3>2. members' <= 3 + 8 + i + c + 11 /\ batches' <= 1 + 1 + b + p + 2
        BY <1>1, <1>3, <3>1
      <3> QED BY <3>2 DEF i, c, b, p
    <2>4. StagesUsed' = StagesUsed /\ inspected' = inspected /\ count' = count /\ phase' = "done"
      BY <1>1 DEF StagesUsed
    <2> QED BY <2>1, <2>3, <2>4 DEF Spent
  <1> QED BY <1>7, <1>8, <1>9 DEF SearchInv

LEMMA SearchAlways == SearchSpec => []SearchInv
  <1>1. SearchInv /\ [SearchNext]_searchVars => SearchInv'
    <2> SUFFICES ASSUME SearchInv, [SearchNext]_searchVars PROVE SearchInv'
      OBVIOUS
    <2>1. CASE UNCHANGED searchVars
      BY <2>1 DEF searchVars, work, tried, SearchInv, SearchType, Found, Progress, Fresh, Spent, bound, seed,
                  ExpansionCap, StageCap, StagesUsed
    <2> QED BY <2>1, FundStep, InspectStep, ExpandStep, RefineStep, RecheckStep DEF SearchNext
  <1> QED BY <1>1, InitSearch, PTL DEF SearchSpec

\* Whatever the strategies answer, no limit of the search or of the service is
\* exceeded and none of its errors is thrown.
THEOREM SearchWithinBudget == SearchSpec => []WithinBudget
  <1>1. ASSUME SearchInv PROVE WithinBudget
    <2>1. SearchType /\ Spent /\ Progress
      BY <1>1 DEF SearchInv
    <2>2. outcome \notin Errors
      BY <2>1 DEF Progress, Fresh, SearchType, Errors
    <2>3. members <= 246 /\ batches <= 44
      BY <2>1, SpentBounds DEF SearchType
    <2>4. ~Exceeded
      BY <2>1, <2>3 DEF Exceeded, SearchType
    <2> QED BY <2>1, <2>2, <2>4, SpentBounds DEF WithinBudget
  <1> QED BY <1>1, SearchAlways, PTL

\* The search answers the least input it found sufficient, within what the payer
\* allows and owns, and gives up only after the greatest input has failed.
THEOREM SearchConclusive == SearchSpec => []Conclusive
  <1>1. ASSUME SearchInv PROVE Conclusive
    <2>1. SearchType /\ Found /\ Progress
      BY <1>1 DEF SearchInv
    <2>2. bound \in Int /\ bound <= invoice.maximum /\ bound <= invoice.balance
          /\ invoice.maximum \in Nat /\ invoice.balance \in Nat
      BY <2>1, BoundFacts
    <2>3. Answered => AmountIn <= invoice.maximum /\ AmountIn <= invoice.balance
      BY <2>1, <2>2 DEF Answered, AmountIn, Progress, Found, SearchType
    <2>4. \A a \in failed : a <= cursor /\ (selected # NoInput => a < selected)
      BY <2>1 DEF Found, SearchType
    <2>5. outcome = "search_exhausted" => bound \in failed /\ selected = NoInput
      BY <2>1 DEF Progress, Fresh, SearchType
    <2>6. outcome = "adjacent_cursor" => selected = 2 \/ selected - 1 \in failed
      <3> SUFFICES ASSUME outcome = "adjacent_cursor" PROVE selected = 2 \/ selected - 1 \in failed
        OBVIOUS
      <3>1. selected # NoInput /\ selected - cursor <= 1
        BY <2>1 DEF Progress, Fresh, SearchType
      <3>2. cursor = selected - 1
        BY <2>1, <3>1 DEF Found, SearchType
      <3> QED BY <2>1, <3>2 DEF Found, SearchType
    <2> QED BY <2>1, <2>3, <2>4, <2>5, <2>6 DEF Conclusive, Found
  <1> QED BY <1>1, SearchAlways, PTL

-----------------------------------------------------------------------------
(* Pages: the invariant. *)

\* What an answer held under a key was asked for.
AskedFor(k) ==
  [account |-> IF route \in Quotes \cup Lists \cup {"balance"} THEN k[1] ELSE None,
   form |-> CASE route \in Quotes -> k[2] [] route = "balance" -> k[2] [] OTHER -> None,
   cursor |-> IF route \in Lists THEN k[2] ELSE None]

DataOK(k, d) ==
  /\ d = [asked |-> d.asked, manifest |-> d.manifest, reply |-> d.reply, left |-> d.left]
  /\ d.asked = AskedFor(k)
  /\ d.reply.deployment = d.manifest
  /\ route = "balance" => d.manifest = k[3]
  /\ route \in Expires => d.left \in Nat

EntryOK(k, e) ==
  /\ e = [data |-> e.data, failed |-> e.failed, age |-> e.age, expired |-> e.expired]
  /\ e.data # None => DataOK(k, e.data)

\* Every answer held is the one to its key.
AnswersOK == \A k \in DOMAIN cache : EntryOK(k, cache[k])

\* In a visible tab an expiry has been noticed.
LapseOK == visible /\ Lapsed(Entry) => Entry.expired

\* A request under way is of the present context, also at its later steps.
FetchOK ==
  fetch # None =>
    /\ fetch = [asked |-> fetch.asked, at |-> fetch.at, manifest |-> fetch.manifest, api |-> fetch.api,
                reply |-> fetch.reply, attempt |-> fetch.attempt]
    /\ fetch.asked = Asked
    /\ route = "balance" =>
         /\ fetch.at \in {"manifest", "balance", "recheck"}
         /\ fetch.at # "manifest" => fetch.manifest = known
    /\ fetch.at = "recheck" =>
         /\ fetch.reply = [deployment |-> fetch.reply.deployment, asked |-> fetch.reply.asked, left |-> fetch.reply.left]
         /\ fetch.reply.left \in Nat
         /\ route = "balance" => fetch.reply.deployment = fetch.manifest

FormOK == route \in Routes /\ form = [token |-> form.token, amount |-> form.amount]

MaxOK ==
  max # None =>
    /\ max = [at |-> max.at, balance |-> max.balance, candidate |-> max.candidate, gas |-> max.gas, step |-> max.step]
    /\ max.balance \in Nat /\ max.candidate \in Nat /\ max.gas \in Nat
    /\ max.at = "decide" => max.candidate > 0

PagesInv == AnswersOK /\ LapseOK /\ FetchOK /\ FormOK /\ MaxOK

-----------------------------------------------------------------------------

LEMMA EntryFields ==
  ASSUME NEW e, e = [data |-> e.data, failed |-> e.failed, age |-> e.age, expired |-> e.expired], NEW v
  PROVE  /\ [e EXCEPT !.expired = v] = [data |-> e.data, failed |-> e.failed, age |-> e.age, expired |-> v]
         /\ [e EXCEPT !.failed = v] = [data |-> e.data, failed |-> v, age |-> e.age, expired |-> e.expired]
         /\ [e EXCEPT !.age = v] = [data |-> e.data, failed |-> e.failed, age |-> v, expired |-> e.expired]
         /\ [e EXCEPT !.data = v] = [data |-> v, failed |-> e.failed, age |-> e.age, expired |-> e.expired]
  OBVIOUS

LEMMA FailedAndAge ==
  ASSUME NEW e, e = [data |-> e.data, failed |-> e.failed, age |-> e.age, expired |-> e.expired], NEW v, NEW w
  PROVE  [e EXCEPT !.failed = v, !.age = w] = [data |-> e.data, failed |-> v, age |-> w, expired |-> e.expired]
  <1> DEFINE h == [e EXCEPT !.failed = v]
  <1>1. h = [data |-> e.data, failed |-> v, age |-> e.age, expired |-> e.expired]
    BY EntryFields
  <1>2. /\ h = [data |-> h.data, failed |-> h.failed, age |-> h.age, expired |-> h.expired]
        /\ h.data = e.data /\ h.failed = v /\ h.age = e.age /\ h.expired = e.expired
    BY <1>1
  <1>3. [e EXCEPT !.failed = v, !.age = w] = [h EXCEPT !.age = w]
    OBVIOUS
  <1> HIDE DEF h
  <1>4. [h EXCEPT !.age = w] = [data |-> h.data, failed |-> h.failed, age |-> w, expired |-> h.expired]
    BY <1>2, EntryFields
  <1> QED BY <1>2, <1>3, <1>4

LEMMA AgeAndData ==
  ASSUME NEW e, e = [data |-> e.data, failed |-> e.failed, age |-> e.age, expired |-> e.expired], NEW v, NEW w
  PROVE  [e EXCEPT !.age = v, !.data = w] = [data |-> w, failed |-> e.failed, age |-> v, expired |-> e.expired]
  <1> DEFINE h == [e EXCEPT !.age = v]
  <1>1. h = [data |-> e.data, failed |-> e.failed, age |-> v, expired |-> e.expired]
    BY EntryFields
  <1>2. /\ h = [data |-> h.data, failed |-> h.failed, age |-> h.age, expired |-> h.expired]
        /\ h.data = e.data /\ h.failed = e.failed /\ h.age = v /\ h.expired = e.expired
    BY <1>1
  <1>3. [e EXCEPT !.age = v, !.data = w] = [h EXCEPT !.data = w]
    OBVIOUS
  <1> HIDE DEF h
  <1>4. [h EXCEPT !.data = w] = [data |-> w, failed |-> h.failed, age |-> h.age, expired |-> h.expired]
    BY <1>2, EntryFields
  <1> QED BY <1>2, <1>3, <1>4

LEMMA DataAndExpired ==
  ASSUME NEW e, e = [data |-> e.data, failed |-> e.failed, age |-> e.age, expired |-> e.expired], NEW v, NEW w
  PROVE  [e EXCEPT !.data = v, !.expired = w] = [data |-> v, failed |-> e.failed, age |-> e.age, expired |-> w]
  <1> DEFINE h == [e EXCEPT !.data = v]
  <1>1. h = [data |-> v, failed |-> e.failed, age |-> e.age, expired |-> e.expired]
    BY EntryFields
  <1>2. /\ h = [data |-> h.data, failed |-> h.failed, age |-> h.age, expired |-> h.expired]
        /\ h.data = v /\ h.failed = e.failed /\ h.age = e.age /\ h.expired = e.expired
    BY <1>1
  <1>3. [e EXCEPT !.data = v, !.expired = w] = [h EXCEPT !.expired = w]
    OBVIOUS
  <1> HIDE DEF h
  <1>4. [h EXCEPT !.expired = w] = [data |-> h.data, failed |-> h.failed, age |-> h.age, expired |-> w]
    BY <1>2, EntryFields
  <1> QED BY <1>2, <1>3, <1>4

LEMMA NothingFields ==
  /\ Nothing = [data |-> Nothing.data, failed |-> Nothing.failed, age |-> Nothing.age, expired |-> Nothing.expired]
  /\ Nothing.data = None /\ Nothing.failed = FALSE /\ Nothing.age = 0 /\ Nothing.expired = FALSE
  BY DEF Nothing

LEMMA NothingAnswered ==
  ASSUME NEW v, NEW w
  PROVE  [Nothing EXCEPT !.data = v, !.expired = w] = [data |-> v, failed |-> FALSE, age |-> 0, expired |-> w]
  <1>1. [Nothing EXCEPT !.data = v, !.expired = w] = [data |-> v, failed |-> Nothing.failed, age |-> Nothing.age, expired |-> w]
    <2>1. PICK n : n = Nothing
      OBVIOUS
    <2>2. n = [data |-> n.data, failed |-> n.failed, age |-> n.age, expired |-> n.expired]
      BY <2>1, NothingFields
    <2>3. [n EXCEPT !.data = v, !.expired = w] = [data |-> v, failed |-> n.failed, age |-> n.age, expired |-> w]
      BY ONLY <2>2, DataAndExpired, ZenonT(60)
    <2> QED BY <2>1, <2>3
  <1> QED BY <1>1, NothingFields

LEMMA KeyAsked ==
  /\ AskedFor(Key) = Asked
  /\ route = "balance" => Key[3] = known
  <1> USE DEF AskedFor, Key, KeyOf, Asked, QuoteKey, Quotes, Lists
  <1>1. CASE route \in Quotes
    BY <1>1
  <1>2. CASE route = "balance"
    BY <1>2
  <1>3. CASE route \in Lists
    BY <1>3 DEF Cursor, Nav
  <1>4. CASE route \notin Quotes \cup Lists \cup {"balance"}
    BY <1>4
  <1> QED BY <1>1, <1>2, <1>3, <1>4

LEMMA KeyAskedNext ==
  /\ AskedFor(Key)' = Asked'
  /\ route' = "balance" => Key'[3] = known'
  <1> USE DEF AskedFor, Key, KeyOf, Asked, QuoteKey, Quotes, Lists
  <1>1. CASE route' \in Quotes
    BY <1>1
  <1>2. CASE route' = "balance"
    BY <1>2
  <1>3. CASE route' \in Lists
    BY <1>3 DEF Cursor, Nav
  <1>4. CASE route' \notin Quotes \cup Lists \cup {"balance"}
    BY <1>4
  <1> QED BY <1>1, <1>2, <1>3, <1>4

context == <<route, account, form, known, navigation>>

LEMMA SameContext ==
  ASSUME UNCHANGED context
  PROVE  Key' = Key /\ Asked' = Asked
  BY DEF context, Key, KeyOf, Asked, Cursor, Nav

LEMMA SameEntries ==
  ASSUME route' = route
  PROVE  \A k, e : EntryOK(k, e)' <=> EntryOK(k, e)
  BY DEF EntryOK, DataOK, AskedFor

-----------------------------------------------------------------------------
(* What the ways of changing the cache leave of the invariant. *)

\* The entry of the present key after it was written.
LEMMA EntryWith ==
  ASSUME NEW e, Key' = Key, cache' = With(e)
  PROVE  Entry' = e /\ \A k \in DOMAIN cache' \ {Key} : k \in DOMAIN cache /\ cache'[k] = cache[k]
  <1>1. Key \in DOMAIN cache' /\ cache'[Key] = e
    BY DEF With
  <1>2. Entry' = e
    BY <1>1 DEF Entry
  <1>3. \A k \in DOMAIN cache' \ {Key} : k \in DOMAIN cache /\ cache'[k] = cache[k]
    BY DEF With
  <1> QED BY <1>2, <1>3

LEMMA AnswersWith ==
  ASSUME AnswersOK, UNCHANGED context, NEW e, EntryOK(Key, e), cache' = With(e)
  PROVE  AnswersOK' /\ Entry' = e
  <1>1. Key' = Key /\ route' = route
    BY SameContext DEF context
  <1>2. cache'[Key] = e
    BY DEF With
  <1>3. \A k \in DOMAIN cache' : EntryOK(k, cache'[k])
    BY <1>1, <1>2, EntryWith DEF AnswersOK
  <1>4. \A k, f : EntryOK(k, f)' <=> EntryOK(k, f)
    BY <1>1, SameEntries
  <1>5. AnswersOK'
    BY <1>3, <1>4 DEF AnswersOK
  <1> QED BY <1>1, <1>5, EntryWith

\* The entry of the present key, there or not.
LEMMA EntryIsOK ==
  ASSUME AnswersOK
  PROVE  EntryOK(Key, Entry)
  <1>1. CASE Key \in DOMAIN cache
    BY <1>1 DEF AnswersOK, Entry
  <1>2. CASE Key \notin DOMAIN cache
    BY <1>2 DEF Entry, Nothing, EntryOK
  <1> QED BY <1>1, <1>2

\* Without answers and requests there is nothing to go wrong.
LEMMA Dropped ==
  ASSUME cache' = Empty, fetch' = None
  PROVE  AnswersOK' /\ LapseOK' /\ FetchOK'
  <1>1. DOMAIN cache' = {}
    BY DEF Empty
  <1>2. Entry' = Nothing
    BY <1>1 DEF Entry, Nothing
  <1>3. LapseOK'
    BY <1>2 DEF LapseOK, Lapsed, Nothing
  <1> QED BY <1>1, <1>3 DEF AnswersOK, FetchOK

\* Answers in the same context.
LEMMA AnswersStay ==
  ASSUME AnswersOK, LapseOK, UNCHANGED context, cache' = cache, visible' => visible
  PROVE  AnswersOK' /\ LapseOK'
  <1>1. Key' = Key /\ route' = route
    BY SameContext DEF context
  <1>2. \A k, f : EntryOK(k, f)' <=> EntryOK(k, f)
    BY <1>1, SameEntries
  <1>3. AnswersOK'
    BY <1>2 DEF AnswersOK
  <1>4. Entry' = Entry
    BY <1>1 DEF Entry, Nothing
  <1>5. LapseOK'
    BY <1>1, <1>4 DEF LapseOK, Lapsed
  <1> QED BY <1>3, <1>5

LEMMA FetchStays ==
  ASSUME FetchOK, UNCHANGED context, fetch' = fetch
  PROVE  FetchOK'
  <1>1. Asked' = Asked /\ route' = route /\ known' = known
    BY SameContext DEF context
  <1> QED BY <1>1 DEF FetchOK

LEMMA MaxStays ==
  ASSUME MaxOK, max' \in {max, None}
  PROVE  MaxOK'
  BY DEF MaxOK

LEMMA FormStays ==
  ASSUME FormOK, form' = form, route' = route
  PROVE  FormOK'
  BY DEF FormOK

\* A new entry keeps what the others have, and says whether it has lapsed.
LEMMA EntryWritten ==
  ASSUME AnswersOK, UNCHANGED context, NEW e, EntryOK(Key, e), cache' = With(e),
         visible' /\ Lapsed(e) => e.expired
  PROVE  AnswersOK' /\ LapseOK'
  <1>1. AnswersOK' /\ Entry' = e
    BY AnswersWith
  <1>2. LapseOK'
    BY <1>1 DEF LapseOK, Lapsed, context
  <1> QED BY <1>1, <1>2

-----------------------------------------------------------------------------
(* Initially, and the world. *)

LEMMA PagesInit == Init => PagesInv
  <1> SUFFICES ASSUME Init PROVE PagesInv
    OBVIOUS
  <1>1. form \in Typed
    BY PagesAssumption DEF Init
  <1>2. FormOK
    BY <1>1, PagesAssumption DEF FormOK, Init
  <1>3. DOMAIN cache = {} /\ fetch = None /\ max = None
    BY DEF Init, Empty
  <1>4. Entry = Nothing
    BY <1>3 DEF Entry, Nothing
  <1>5. LapseOK
    BY <1>4 DEF LapseOK, Lapsed, Nothing
  <1> QED BY <1>2, <1>3, <1>5 DEF PagesInv, AnswersOK, FetchOK, MaxOK

\* Steps outside the context, the answers, the request and Max.
LEMMA Aside ==
  ASSUME PagesInv, UNCHANGED context, UNCHANGED <<cache, fetch, max>>, visible' => visible
  PROVE  PagesInv'
  <1>1. AnswersOK' /\ LapseOK'
    BY AnswersStay DEF PagesInv
  <1>2. FetchOK'
    BY FetchStays DEF PagesInv
  <1>3. MaxOK' /\ FormOK'
    BY MaxStays, FormStays DEF PagesInv, context
  <1> QED BY <1>1, <1>2, <1>3 DEF PagesInv

LEMMA WorldPages ==
  ASSUME PagesInv, World
  PROVE  PagesInv'
  <1>1. UNCHANGED context /\ UNCHANGED <<cache, fetch, max>> /\ visible' = visible
    BY DEF World, Rotate, Index, context, page, reading
  <1> QED BY <1>1, Aside

-----------------------------------------------------------------------------
(* The user. *)

LEMMA RecontextPages ==
  ASSUME PagesInv, NEW a, NEW f, NEW d, Recontext(a, f, d), f = form \/ f \in Typed,
         UNCHANGED <<route, navigation, visible>>
  PROVE  PagesInv'
  <1>1. FormOK'
    BY PagesAssumption DEF PagesInv, FormOK, Recontext
  <1>2. Key' = KeyOf(a, f, d, navigation)
    BY DEF Key, Recontext, KeyOf
  <1>3. CASE KeyOf(a, f, d, navigation) = Key
    <2>1. Key' = Key /\ cache' = cache /\ fetch' = fetch /\ max' = max /\ route' = route /\ visible' = visible
      BY <1>2, <1>3 DEF Recontext, reading
    <2>2. \A k, e : EntryOK(k, e)' <=> EntryOK(k, e)
      BY SameEntries
    <2>3. AnswersOK'
      BY <2>1, <2>2 DEF AnswersOK, PagesInv
    <2>4. Entry' = Entry
      BY <2>1 DEF Entry, Nothing
    <2>5. LapseOK'
      BY <2>1, <2>4 DEF LapseOK, Lapsed, PagesInv
    <2>6. AskedFor(Key)' = AskedFor(Key)
      BY <2>1 DEF AskedFor
    <2>7. Asked' = Asked /\ (route = "balance" => known' = known)
      BY <2>1, <2>6, KeyAsked, KeyAskedNext
    <2>8. FetchOK'
      BY <2>1, <2>7 DEF FetchOK, PagesInv
    <2>9. MaxOK'
      BY <2>1, MaxStays DEF PagesInv
    <2> QED BY <1>1, <2>3, <2>5, <2>8, <2>9 DEF PagesInv
  <1>4. CASE KeyOf(a, f, d, navigation) # Key
    <2>1. cache' = Empty /\ fetch' = None /\ max' = None
      BY <1>4 DEF Recontext
    <2>2. AnswersOK' /\ LapseOK' /\ FetchOK'
      BY <2>1, Dropped
    <2>3. MaxOK'
      BY <2>1, MaxStays DEF PagesInv
    <2> QED BY <1>1, <2>2, <2>3 DEF PagesInv
  <1> QED BY <1>3, <1>4

\* Walking a list keeps answers and drops the request.
LEMMA WalkedPages ==
  ASSUME PagesInv, route \in Lists, NEW pages, NEW seen, NEW keys, Walked(pages, seen, keys)
  PROVE  PagesInv'
  <1>1. DOMAIN cache' \subseteq DOMAIN cache /\ \A k \in DOMAIN cache' : cache'[k] = cache[k]
    BY DEF Walked
  <1>2. route' = route /\ fetch' = None /\ form' = form /\ max' = max
    BY DEF Walked
  <1>3. \A k, e : EntryOK(k, e)' <=> EntryOK(k, e)
    BY <1>2, SameEntries
  <1>4. AnswersOK'
    BY <1>1, <1>3 DEF AnswersOK, PagesInv
  <1>5. LapseOK'
    BY <1>2 DEF LapseOK, Lapsed, Lists, Expires
  <1>6. FetchOK'
    BY <1>2 DEF FetchOK
  <1>7. MaxOK' /\ FormOK'
    BY <1>2, MaxStays, FormStays DEF PagesInv, context
  <1> QED BY <1>4, <1>5, <1>6, <1>7 DEF PagesInv

LEMMA UserPages ==
  ASSUME PagesInv, User
  PROVE  PagesInv'
  <1> USE DEF page
  <1>1. ASSUME NEW a \in Accounts[route] \cup {None}, Connect(a) PROVE PagesInv'
    BY <1>1, RecontextPages DEF Connect
  <1>2. ASSUME NEW f \in Typed, Type(f) PROVE PagesInv'
    BY <1>2, RecontextPages DEF Type
  <1>3. ASSUME LearnDeployment PROVE PagesInv'
    BY <1>3, RecontextPages DEF LearnDeployment
  <1>4. ASSUME Hide PROVE PagesInv'
    <2>1. UNCHANGED context /\ UNCHANGED <<cache, fetch, max>> /\ ~visible'
      BY <1>4 DEF Hide, context, reading
    <2> QED BY <2>1, Aside
  <1>5. ASSUME Show PROVE PagesInv'
    <2>1. UNCHANGED context /\ fetch' = fetch /\ max' = max
      BY <1>5 DEF Show, context
    <2>2. AnswersOK' /\ LapseOK'
      <3>1. CASE Lapsed(Entry)
        <4> DEFINE e == [Entry EXCEPT !.expired = TRUE]
        <4>1. EntryOK(Key, Entry)
          BY EntryIsOK DEF PagesInv
        <4>5. Entry = [data |-> Entry.data, failed |-> Entry.failed, age |-> Entry.age, expired |-> Entry.expired]
          BY <4>1 DEF EntryOK
        <4>6. e = [data |-> Entry.data, failed |-> Entry.failed, age |-> Entry.age, expired |-> TRUE]
          BY <4>5, EntryFields
        <4> HIDE DEF e
        <4>2. EntryOK(Key, e) /\ e.expired
          BY <4>1, <4>6 DEF EntryOK
        <4>3. cache' = With(e)
          BY <1>5, <3>1 DEF Show, e
        <4> QED BY <2>1, <4>2, <4>3, EntryWritten DEF PagesInv
      <3>2. CASE ~Lapsed(Entry)
        <4>1. cache' = cache /\ Key' = Key /\ route' = route
          BY <1>5, <2>1, <3>2, SameContext DEF Show, context
        <4>2. \A k, f : EntryOK(k, f)' <=> EntryOK(k, f)
          BY <4>1, SameEntries
        <4>3. AnswersOK'
          BY <4>1, <4>2 DEF AnswersOK, PagesInv
        <4>4. Entry' = Entry
          BY <4>1 DEF Entry, Nothing
        <4>5. LapseOK'
          BY <3>2, <4>1, <4>4 DEF LapseOK, Lapsed
        <4> QED BY <4>3, <4>5
      <3> QED BY <3>1, <3>2
    <2>3. FetchOK' /\ MaxOK' /\ FormOK'
      BY <2>1, FetchStays, MaxStays, FormStays DEF PagesInv, context
    <2> QED BY <2>2, <2>3 DEF PagesInv
  <1>6. ASSUME Click PROVE PagesInv'
    <2>1. cache' = Empty /\ fetch' = None /\ max' = max /\ form' = form
      BY <1>6 DEF Click
    <2>2. AnswersOK' /\ LapseOK' /\ FetchOK'
      BY <2>1, Dropped
    <2> QED BY <1>6, <2>1, <2>2, MaxStays, FormStays DEF PagesInv, Click
  <1>7. ASSUME NEW open \in BOOLEAN, Review(open) PROVE PagesInv'
    <2>1. UNCHANGED context /\ UNCHANGED <<cache, fetch, max, visible>>
      BY <1>7 DEF Review, context
    <2> QED BY <2>1, Aside
  <1>8. ASSUME ListNext PROVE PagesInv'
    BY <1>8, WalkedPages DEF ListNext
  <1>9. ASSUME ListPrevious PROVE PagesInv'
    BY <1>9, WalkedPages DEF ListPrevious
  <1>10. ASSUME Restart PROVE PagesInv'
    BY <1>10, WalkedPages DEF Restart
  <1> QED BY <1>1, <1>2, <1>3, <1>4, <1>5, <1>6, <1>7, <1>8, <1>9, <1>10 DEF User

-----------------------------------------------------------------------------
(* Entries and their age. *)

LEMMA EntryOf ==
  ASSUME NEW k, NEW d, d # None => DataOK(k, d), NEW u, NEW v, NEW w
  PROVE  EntryOK(k, [data |-> d, failed |-> u, age |-> v, expired |-> w])
  BY DEF EntryOK

LEMMA DataFields ==
  ASSUME NEW d, d = [asked |-> d.asked, manifest |-> d.manifest, reply |-> d.reply, left |-> d.left], NEW n
  PROVE  [d EXCEPT !.left = n] = [asked |-> d.asked, manifest |-> d.manifest, reply |-> d.reply, left |-> n]
  OBVIOUS

LEMMA LessIsNat ==
  ASSUME NEW n \in Nat, NEW units \in Nat
  PROVE  Less(n, units) \in Nat
  BY DEF Less

\* Time takes of what is left and nothing else; in a visible tab it is noticed.
LEMMA OlderIsOK ==
  ASSUME NEW k, NEW e, EntryOK(k, e), NEW units \in Nat
  PROVE  /\ EntryOK(k, Older(e, units))
         /\ visible /\ Lapsed(Older(e, units)) => Older(e, units).expired
         /\ route \notin Expires => Older(e, units).data = e.data
  <1> DEFINE age == IF e.age + units > FailedUnits THEN FailedUnits ELSE e.age + units
             data == IF e.data = None \/ route \notin Expires THEN e.data
                     ELSE [e.data EXCEPT !.left = Less(e.data.left, units)]
             aged == [data |-> data, failed |-> e.failed, age |-> age, expired |-> e.expired]
             older == [data |-> data, failed |-> e.failed, age |-> age,
                       expired |-> e.expired \/ (visible /\ Lapsed(aged))]
  <1>1. e = [data |-> e.data, failed |-> e.failed, age |-> e.age, expired |-> e.expired]
    BY DEF EntryOK
  <1>2. [e EXCEPT !.age = IF @ + units > FailedUnits THEN FailedUnits ELSE @ + units,
                  !.data = data] = aged
    <2> HIDE DEF data
    <2>1. [e EXCEPT !.age = age, !.data = data] = aged
      <3> HIDE DEF age
      <3> QED BY <1>1, AgeAndData
    <2> QED BY <2>1
  <1>3. Older(e, units) = older
    <2> HIDE DEF age, data
    <2>1. aged = [data |-> aged.data, failed |-> aged.failed, age |-> aged.age, expired |-> aged.expired]
      OBVIOUS
    <2>2. /\ aged.data = data /\ aged.failed = e.failed /\ aged.age = age /\ aged.expired = e.expired
      OBVIOUS
    <2> DEFINE lapsed == e.expired \/ (visible /\ Lapsed(aged))
    <2> HIDE DEF aged, lapsed
    <2>3. [aged EXCEPT !.expired = lapsed] = [data |-> aged.data, failed |-> aged.failed, age |-> aged.age, expired |-> lapsed]
      BY <2>1, EntryFields
    <2>4. Older(e, units) = [aged EXCEPT !.expired = lapsed]
      BY <1>2, <2>2 DEF Older, lapsed, data, age
    <2> QED BY <2>2, <2>3, <2>4 DEF lapsed
  <1>4. data # None => DataOK(k, data)
    <2>1. CASE e.data = None \/ route \notin Expires
      BY <2>1 DEF EntryOK
    <2>2. CASE ~(e.data = None \/ route \notin Expires)
      <3>1. DataOK(k, e.data) /\ route \in Expires
        BY <2>2 DEF EntryOK
      <3>2. data = [asked |-> e.data.asked, manifest |-> e.data.manifest, reply |-> e.data.reply,
                    left |-> Less(e.data.left, units)]
        BY <2>2, <3>1, DataFields DEF DataOK
      <3>3. Less(e.data.left, units) \in Nat
        BY <3>1, LessIsNat DEF DataOK
      <3> HIDE DEF data
      <3> QED BY <3>1, <3>2, <3>3 DEF DataOK
    <2> QED BY <2>1, <2>2
  <1>8. route \notin Expires => data = e.data
    OBVIOUS
  <1> HIDE DEF age, data
  <1>5. EntryOK(k, older)
    BY <1>4, EntryOf
  <1>6. Lapsed(older) <=> Lapsed(aged)
    BY DEF Lapsed
  <1>7. visible /\ Lapsed(aged) => older.expired
    OBVIOUS
  <1>9. route \notin Expires => older.data = e.data
    BY <1>8
  <1> QED BY <1>3, <1>5, <1>6, <1>7, <1>9

LEMMA FailedIsOK ==
  ASSUME NEW k, NEW e, EntryOK(k, e)
  PROVE  LET f == [e EXCEPT !.failed = TRUE, !.age = 0]
         IN EntryOK(k, f) /\ f.data = e.data /\ f.expired = e.expired
  <1>1. e = [data |-> e.data, failed |-> e.failed, age |-> e.age, expired |-> e.expired]
    BY DEF EntryOK
  <1>2. [e EXCEPT !.failed = TRUE, !.age = 0] = [data |-> e.data, failed |-> TRUE, age |-> 0, expired |-> e.expired]
    BY <1>1, FailedAndAge
  <1>3. e.data # None => DataOK(k, e.data)
    BY DEF EntryOK
  <1>4. EntryOK(k, [data |-> e.data, failed |-> TRUE, age |-> 0, expired |-> e.expired])
    BY <1>3, EntryOf
  <1> QED BY <1>2, <1>4

-----------------------------------------------------------------------------
(* Timers and time. *)

\* A request starts with the present context and has read nothing.
LEMMA StartedPages ==
  ASSUME PagesInv, UNCHANGED context, UNCHANGED <<visible, cache, max>>, fetch' = Started
  PROVE  PagesInv'
  <1>1. Asked' = Asked /\ form' = form
    BY SameContext DEF context
  <1>2. FetchOK'
    BY <1>1 DEF FetchOK, Started
  <1> QED BY <1>1, <1>2, AnswersStay, MaxStays, FormStays DEF PagesInv, context

LEMMA BeginPages ==
  ASSUME PagesInv, BeginFetch
  PROVE  PagesInv'
  BY StartedPages DEF BeginFetch, context, page

LEMMA TimerPages ==
  ASSUME PagesInv, Timer
  PROVE  PagesInv'
  <1> USE DEF page
  <1>1. ASSUME IntentTimer PROVE PagesInv'
    BY <1>1, Aside DEF IntentTimer, context
  <1>2. ASSUME RefreshTimer PROVE PagesInv'
    BY <1>2, StartedPages DEF RefreshTimer, context
  <1>3. ASSUME ExpiryTimer PROVE PagesInv'
    <2> DEFINE e == [Entry EXCEPT !.expired = TRUE]
               f == [data |-> Entry.data, failed |-> Entry.failed, age |-> Entry.age, expired |-> TRUE]
    <2>1. UNCHANGED context /\ fetch' = fetch /\ max' = max /\ cache' = With(e) /\ form' = form
      BY <1>3 DEF ExpiryTimer, context
    <2>2. EntryOK(Key, Entry)
      BY EntryIsOK DEF PagesInv
    <2>3. e = f
      BY <2>2, EntryFields DEF EntryOK
    <2>4. EntryOK(Key, f) /\ f.expired
      BY <2>2, EntryOf DEF EntryOK
    <2> HIDE DEF e, f
    <2>5. AnswersOK' /\ LapseOK'
      BY <2>1, <2>3, <2>4, EntryWritten DEF PagesInv
    <2> QED BY <2>1, <2>5, FetchStays, MaxStays, FormStays DEF PagesInv, context
  <1> QED BY <1>1, <1>2, <1>3 DEF Timer

LEMMA TickPages ==
  ASSUME PagesInv, Tick
  PROVE  PagesInv'
  <1>1. UNCHANGED context /\ visible' = visible /\ max' = max /\ form' = form
    BY DEF Tick, context, page
  <1>2. AnswersOK' /\ LapseOK'
    <2>1. CASE Key \in DOMAIN cache
      <3>1. cache' = With(Older(Entry, 1))
        BY <2>1 DEF Tick
      <3>2. EntryOK(Key, Entry)
        BY EntryIsOK DEF PagesInv
      <3>3. /\ EntryOK(Key, Older(Entry, 1))
            /\ visible /\ Lapsed(Older(Entry, 1)) => Older(Entry, 1).expired
        BY <3>2, OlderIsOK
      <3> QED BY <1>1, <3>1, <3>3, EntryWritten DEF PagesInv
    <2>2. CASE Key \notin DOMAIN cache
      BY <1>1, <2>2, AnswersStay DEF Tick, PagesInv
    <2> QED BY <2>1, <2>2
  <1>3. FetchOK'
    <2>1. CASE fetch # None /\ fetch.at = "recheck"
      <3> DEFINE r == fetch.reply
                 reply == [deployment |-> r.deployment, asked |-> r.asked, left |-> Less(r.left, 1)]
      <3>1. r = [deployment |-> r.deployment, asked |-> r.asked, left |-> r.left] /\ r.left \in Nat
        BY <2>1 DEF PagesInv, FetchOK
      <3>2. [r EXCEPT !.left = Less(@, 1)] = reply
        <4> HIDE DEF r
        <4> QED BY <3>1
      <3>3. fetch' = [fetch EXCEPT !.reply = reply]
        <4>1. fetch' = [fetch EXCEPT !.reply = [r EXCEPT !.left = Less(@, 1)]]
          BY <2>1 DEF Tick
        <4> HIDE DEF r, reply
        <4> QED BY <3>2, <4>1
      <3>4. fetch = [asked |-> fetch.asked, at |-> fetch.at, manifest |-> fetch.manifest, api |-> fetch.api,
                     reply |-> fetch.reply, attempt |-> fetch.attempt]
        BY <2>1 DEF PagesInv, FetchOK
      <3>5. fetch' = [asked |-> fetch.asked, at |-> fetch.at, manifest |-> fetch.manifest, api |-> fetch.api,
                      reply |-> reply, attempt |-> fetch.attempt]
        <4> HIDE DEF r, reply
        <4> QED BY <3>3, <3>4
      <3>6. Less(r.left, 1) \in Nat
        BY <3>1, LessIsNat
      <3>7. Asked' = Asked /\ route' = route /\ known' = known
        BY <1>1, SameContext DEF context
      <3>8. fetch.asked = Asked /\ (route = "balance" => fetch.manifest = known /\ r.deployment = fetch.manifest)
        BY <2>1 DEF PagesInv, FetchOK
      <3> HIDE DEF r
      <3> QED BY <2>1, <3>5, <3>6, <3>7, <3>8 DEF FetchOK
    <2>2. CASE ~(fetch # None /\ fetch.at = "recheck")
      BY <1>1, <2>2, FetchStays DEF Tick, PagesInv
    <2> QED BY <2>1, <2>2
  <1> QED BY <1>1, <1>2, <1>3, MaxStays, FormStays DEF PagesInv, context

-----------------------------------------------------------------------------
(* A request. *)

LEMMA FailurePages ==
  ASSUME PagesInv, UNCHANGED context, UNCHANGED <<visible, max>>, Failure
  PROVE  PagesInv'
  <1> DEFINE f == [Entry EXCEPT !.failed = TRUE, !.age = 0]
  <1>1. EntryOK(Key, Entry)
    BY EntryIsOK DEF PagesInv
  <1>2. EntryOK(Key, f) /\ f.data = Entry.data /\ f.expired = Entry.expired
    BY <1>1, FailedIsOK
  <1>3. cache' = With(f) /\ fetch' = None
    BY DEF Failure
  <1> HIDE DEF f
  <1>4. visible' /\ Lapsed(f) => f.expired
    BY <1>2 DEF PagesInv, LapseOK, Lapsed
  <1>5. AnswersOK' /\ LapseOK'
    BY <1>2, <1>3, <1>4, EntryWritten DEF PagesInv
  <1> QED BY <1>3, <1>5, MaxStays, FormStays DEF PagesInv, FetchOK, context

LEMMA UnavailablePages ==
  ASSUME PagesInv, UNCHANGED context, UNCHANGED <<visible, max>>, Unavailable
  PROVE  PagesInv'
  <1> DEFINE f == [data |-> None, failed |-> TRUE, age |-> 0, expired |-> FALSE]
  <1>1. [Nothing EXCEPT !.failed = TRUE] = f
    <2>1. [Nothing EXCEPT !.failed = TRUE]
            = [data |-> Nothing.data, failed |-> TRUE, age |-> Nothing.age, expired |-> Nothing.expired]
      BY NothingFields, EntryFields
    <2> QED BY <2>1, NothingFields
  <1>2. EntryOK(Key, f) /\ ~Lapsed(f)
    BY EntryOf DEF Lapsed
  <1>3. cache' = With(f) /\ fetch' = None
    BY <1>1 DEF Unavailable
  <1> HIDE DEF f
  <1>5. AnswersOK' /\ LapseOK'
    BY <1>2, <1>3, EntryWritten DEF PagesInv
  <1> QED BY <1>3, <1>5, MaxStays, FormStays DEF PagesInv, FetchOK, context

\* An answer that passed its decoder is one to what was asked.
LEMMA SuccessPages ==
  ASSUME PagesInv, UNCHANGED context, UNCHANGED <<visible, max>>, NEW reply, Success(reply),
         fetch # None,
         route \in Expires => reply.left \in Nat,
         route = "balance" => reply.deployment = fetch.manifest /\ fetch.manifest = known
  PROVE  PagesInv'
  <1>1. CASE ~Decoded(reply)
    BY <1>1, FailurePages DEF Success
  <1>2. CASE Decoded(reply)
    <2>1. reply.deployment = fetch.manifest
      <3> USE <1>2 DEF Decoded
      <3>1. CASE route = "swap"
        BY <3>1 DEF SwapDecoded
      <3>2. CASE route = "payment"
        BY <3>2 DEF PaymentDecoded, InvoiceDecoded
      <3>3. CASE route = "strategy"
        BY <3>3 DEF StrategyDecoded
      <3>4. CASE route = "invoice"
        BY <3>4 DEF InvoiceDecoded
      <3>5. CASE route = "strategies"
        BY <3>5 DEF StrategiesDecoded, StrategyDecoded
      <3>6. CASE route = "invoices"
        BY <3>6 DEF InvoicesDecoded, InvoiceDecoded
      <3>7. CASE route = "balance"
        BY <3>7
      <3> QED BY <3>1, <3>2, <3>3, <3>4, <3>5, <3>6, <3>7, PagesAssumption DEF PagesInv, FormOK
    <2> DEFINE d == [asked |-> fetch.asked, manifest |-> fetch.manifest, reply |-> reply, left |-> reply.left]
               f == [data |-> d, failed |-> FALSE, age |-> 0, expired |-> (route \in Expires /\ reply.left = 0)]
    <2>2. cache' = With(f) /\ fetch' = None
      <3>1. [Nothing EXCEPT !.data = d, !.expired = (route \in Expires /\ reply.left = 0)] = f
        <4> HIDE DEF d
        <4> QED BY NothingAnswered
      <3> QED BY <1>2, <3>1 DEF Success
    <2>3. fetch.asked = AskedFor(Key) /\ (route = "balance" => fetch.manifest = Key[3])
      BY KeyAsked DEF PagesInv, FetchOK
    <2>4. DataOK(Key, d)
      BY <2>1, <2>3 DEF DataOK
    <2>5. Lapsed(f) => f.expired
      BY DEF Lapsed
    <2> HIDE DEF d
    <2>6. EntryOK(Key, f)
      BY <2>4, EntryOf
    <2> HIDE DEF f
    <2>7. AnswersOK' /\ LapseOK'
      BY <2>2, <2>5, <2>6, EntryWritten DEF PagesInv
    <2> QED BY <2>2, <2>7, MaxStays, FormStays DEF PagesInv, FetchOK, context
  <1> QED BY <1>1, <1>2

\* The steps of a request that change nothing but what it has read.
RequestOK ==
  /\ fetch' = [asked |-> fetch'.asked, at |-> fetch'.at, manifest |-> fetch'.manifest, api |-> fetch'.api,
               reply |-> fetch'.reply, attempt |-> fetch'.attempt]
  /\ fetch'.asked = fetch.asked

LEMMA RequestPages ==
  ASSUME PagesInv, UNCHANGED context, UNCHANGED <<visible, max, cache>>, fetch # None,
         RequestOK,
         route = "balance" =>
           /\ fetch'.at \in {"manifest", "balance", "recheck"}
           /\ fetch'.at # "manifest" => fetch'.manifest = known,
         fetch'.at = "recheck" =>
           /\ fetch'.reply = [deployment |-> fetch'.reply.deployment, asked |-> fetch'.reply.asked,
                              left |-> fetch'.reply.left]
           /\ fetch'.reply.left \in Nat
           /\ route = "balance" => fetch'.reply.deployment = fetch'.manifest
  PROVE  PagesInv'
  <1>1. Asked' = Asked /\ form' = form /\ route' = route /\ known' = known
    BY SameContext DEF context
  <1>2. fetch.asked = Asked
    BY DEF PagesInv, FetchOK
  <1>3. FetchOK'
    BY <1>1, <1>2 DEF FetchOK, RequestOK
  <1> QED BY <1>1, <1>3, AnswersStay, MaxStays, FormStays DEF PagesInv

LEMMA FetchFields ==
  ASSUME NEW f, f = [asked |-> f.asked, at |-> f.at, manifest |-> f.manifest, api |-> f.api,
                     reply |-> f.reply, attempt |-> f.attempt],
         NEW v
  PROVE  /\ [f EXCEPT !.at = v] = [asked |-> f.asked, at |-> v, manifest |-> f.manifest, api |-> f.api,
                                   reply |-> f.reply, attempt |-> f.attempt]
         /\ [f EXCEPT !.manifest = v] = [asked |-> f.asked, at |-> f.at, manifest |-> v, api |-> f.api,
                                         reply |-> f.reply, attempt |-> f.attempt]
         /\ [f EXCEPT !.api = v] = [asked |-> f.asked, at |-> f.at, manifest |-> f.manifest, api |-> v,
                                    reply |-> f.reply, attempt |-> f.attempt]
         /\ [f EXCEPT !.reply = v] = [asked |-> f.asked, at |-> f.at, manifest |-> f.manifest, api |-> f.api,
                                      reply |-> v, attempt |-> f.attempt]
         /\ [f EXCEPT !.attempt = v] = [asked |-> f.asked, at |-> f.at, manifest |-> f.manifest, api |-> f.api,
                                        reply |-> f.reply, attempt |-> v]
  OBVIOUS

LEMMA AtAndManifest ==
  ASSUME NEW f, f = [asked |-> f.asked, at |-> f.at, manifest |-> f.manifest, api |-> f.api,
                     reply |-> f.reply, attempt |-> f.attempt], NEW v, NEW w
  PROVE  [f EXCEPT !.at = v, !.manifest = w]
           = [asked |-> f.asked, at |-> v, manifest |-> w, api |-> f.api,
              reply |-> f.reply, attempt |-> f.attempt]
  <1> DEFINE h == [f EXCEPT !.at = v]
  <1>1. h = [asked |-> f.asked, at |-> v, manifest |-> f.manifest, api |-> f.api,
             reply |-> f.reply, attempt |-> f.attempt]
    BY FetchFields
  <1>2. /\ h = [asked |-> h.asked, at |-> h.at, manifest |-> h.manifest, api |-> h.api,
                reply |-> h.reply, attempt |-> h.attempt]
        /\ h.asked = f.asked /\ h.at = v /\ h.manifest = f.manifest /\ h.api = f.api /\ h.reply = f.reply /\ h.attempt = f.attempt
    BY <1>1
  <1>3. [f EXCEPT !.at = v, !.manifest = w] = [h EXCEPT !.manifest = w]
    OBVIOUS
  <1> HIDE DEF h
  <1>4. [h EXCEPT !.manifest = w] = [asked |-> h.asked, at |-> h.at, manifest |-> w, api |-> h.api,
                                reply |-> h.reply, attempt |-> h.attempt]
    BY <1>2, FetchFields
  <1> QED BY <1>2, <1>3, <1>4

LEMMA AtAndReply ==
  ASSUME NEW f, f = [asked |-> f.asked, at |-> f.at, manifest |-> f.manifest, api |-> f.api,
                     reply |-> f.reply, attempt |-> f.attempt], NEW v, NEW w
  PROVE  [f EXCEPT !.at = v, !.reply = w]
           = [asked |-> f.asked, at |-> v, manifest |-> f.manifest, api |-> f.api,
              reply |-> w, attempt |-> f.attempt]
  <1> DEFINE h == [f EXCEPT !.at = v]
  <1>1. h = [asked |-> f.asked, at |-> v, manifest |-> f.manifest, api |-> f.api,
             reply |-> f.reply, attempt |-> f.attempt]
    BY FetchFields
  <1>2. /\ h = [asked |-> h.asked, at |-> h.at, manifest |-> h.manifest, api |-> h.api,
                reply |-> h.reply, attempt |-> h.attempt]
        /\ h.asked = f.asked /\ h.at = v /\ h.manifest = f.manifest /\ h.api = f.api /\ h.reply = f.reply /\ h.attempt = f.attempt
    BY <1>1
  <1>3. [f EXCEPT !.at = v, !.reply = w] = [h EXCEPT !.reply = w]
    OBVIOUS
  <1> HIDE DEF h
  <1>4. [h EXCEPT !.reply = w] = [asked |-> h.asked, at |-> h.at, manifest |-> h.manifest, api |-> h.api,
                                reply |-> w, attempt |-> h.attempt]
    BY <1>2, FetchFields
  <1> QED BY <1>2, <1>3, <1>4

LEMMA AtAndAttempt ==
  ASSUME NEW f, f = [asked |-> f.asked, at |-> f.at, manifest |-> f.manifest, api |-> f.api,
                     reply |-> f.reply, attempt |-> f.attempt], NEW v, NEW w
  PROVE  [f EXCEPT !.at = v, !.attempt = w]
           = [asked |-> f.asked, at |-> v, manifest |-> f.manifest, api |-> f.api,
              reply |-> f.reply, attempt |-> w]
  <1> DEFINE h == [f EXCEPT !.at = v]
  <1>1. h = [asked |-> f.asked, at |-> v, manifest |-> f.manifest, api |-> f.api,
             reply |-> f.reply, attempt |-> f.attempt]
    BY FetchFields
  <1>2. /\ h = [asked |-> h.asked, at |-> h.at, manifest |-> h.manifest, api |-> h.api,
                reply |-> h.reply, attempt |-> h.attempt]
        /\ h.asked = f.asked /\ h.at = v /\ h.manifest = f.manifest /\ h.api = f.api /\ h.reply = f.reply /\ h.attempt = f.attempt
    BY <1>1
  <1>3. [f EXCEPT !.at = v, !.attempt = w] = [h EXCEPT !.attempt = w]
    OBVIOUS
  <1> HIDE DEF h
  <1>4. [h EXCEPT !.attempt = w] = [asked |-> h.asked, at |-> h.at, manifest |-> h.manifest, api |-> h.api,
                                reply |-> h.reply, attempt |-> w]
    BY <1>2, FetchFields
  <1> QED BY <1>2, <1>3, <1>4

LEMMA AtAndApi ==
  ASSUME NEW f, f = [asked |-> f.asked, at |-> f.at, manifest |-> f.manifest, api |-> f.api,
                     reply |-> f.reply, attempt |-> f.attempt], NEW v, NEW w
  PROVE  [f EXCEPT !.at = v, !.api = w]
           = [asked |-> f.asked, at |-> v, manifest |-> f.manifest, api |-> w,
              reply |-> f.reply, attempt |-> f.attempt]
  <1> DEFINE h == [f EXCEPT !.at = v]
  <1>1. h = [asked |-> f.asked, at |-> v, manifest |-> f.manifest, api |-> f.api,
             reply |-> f.reply, attempt |-> f.attempt]
    BY FetchFields
  <1>2. /\ h = [asked |-> h.asked, at |-> h.at, manifest |-> h.manifest, api |-> h.api,
                reply |-> h.reply, attempt |-> h.attempt]
        /\ h.asked = f.asked /\ h.at = v /\ h.manifest = f.manifest /\ h.api = f.api /\ h.reply = f.reply /\ h.attempt = f.attempt
    BY <1>1
  <1>3. [f EXCEPT !.at = v, !.api = w] = [h EXCEPT !.api = w]
    OBVIOUS
  <1> HIDE DEF h
  <1>4. [h EXCEPT !.api = w] = [asked |-> h.asked, at |-> h.at, manifest |-> h.manifest, api |-> w,
                                reply |-> h.reply, attempt |-> h.attempt]
    BY <1>2, FetchFields
  <1> QED BY <1>2, <1>3, <1>4

LEMMA AtApiAndReply ==
  ASSUME NEW f, f = [asked |-> f.asked, at |-> f.at, manifest |-> f.manifest, api |-> f.api,
                     reply |-> f.reply, attempt |-> f.attempt], NEW u, NEW v, NEW w
  PROVE  [f EXCEPT !.at = u, !.api = v, !.reply = w]
           = [asked |-> f.asked, at |-> u, manifest |-> f.manifest, api |-> v,
              reply |-> w, attempt |-> f.attempt]
  <1> DEFINE h == [f EXCEPT !.at = u, !.api = v]
  <1>1. h = [asked |-> f.asked, at |-> u, manifest |-> f.manifest, api |-> v,
             reply |-> f.reply, attempt |-> f.attempt]
    BY AtAndApi
  <1>2. /\ h = [asked |-> h.asked, at |-> h.at, manifest |-> h.manifest, api |-> h.api,
                reply |-> h.reply, attempt |-> h.attempt]
        /\ h.asked = f.asked /\ h.at = u /\ h.manifest = f.manifest /\ h.api = v /\ h.reply = f.reply /\ h.attempt = f.attempt
    BY <1>1
  <1>3. [f EXCEPT !.at = u, !.api = v, !.reply = w] = [h EXCEPT !.reply = w]
    OBVIOUS
  <1> HIDE DEF h
  <1>4. [h EXCEPT !.reply = w] = [asked |-> h.asked, at |-> h.at, manifest |-> h.manifest, api |-> h.api,
                                 reply |-> w, attempt |-> h.attempt]
    BY <1>2, FetchFields
  <1> QED BY <1>2, <1>3, <1>4

LEMMA FetchShape ==
  ASSUME FetchOK, fetch # None
  PROVE  /\ fetch = [asked |-> fetch.asked, at |-> fetch.at, manifest |-> fetch.manifest, api |-> fetch.api,
                     reply |-> fetch.reply, attempt |-> fetch.attempt]
         /\ fetch.asked = Asked
         /\ route = "balance" => fetch.at \in {"manifest", "balance", "recheck"}
         /\ route = "balance" /\ fetch.at # "manifest" => fetch.manifest = known
  BY DEF FetchOK

LEMMA ReadManifestPages ==
  ASSUME PagesInv, UNCHANGED context, UNCHANGED <<visible, max>>, fetch # None, ReadManifest
  PROVE  PagesInv'
  <1>1. CASE route = "balance" /\ served # known
    BY <1>1, FailurePages DEF ReadManifest
  <1>2. CASE ~(route = "balance" /\ served # known)
    <2> DEFINE at == IF route \in {"balance", "payment"} THEN "balance" ELSE "ask"
    <2>1. fetch' = [fetch EXCEPT !.at = at, !.manifest = served] /\ cache' = cache
      BY <1>2 DEF ReadManifest
    <2>2. at # "recheck" /\ (route = "balance" => at = "balance" /\ served = known)
      BY <1>2
    <2> HIDE DEF at
    <2>3. fetch' = [asked |-> fetch.asked, at |-> at, manifest |-> served, api |-> fetch.api,
                    reply |-> fetch.reply, attempt |-> fetch.attempt]
      BY <2>1, FetchShape, AtAndManifest DEF PagesInv
    <2>4. RequestOK /\ fetch'.at = at /\ fetch'.manifest = served
      BY <2>3 DEF RequestOK
    <2> QED BY <2>1, <2>2, <2>4, RequestPages
  <1> QED BY <1>1, <1>2

LEMMA ReadBalancePages ==
  ASSUME PagesInv, UNCHANGED context, UNCHANGED <<visible, max>>, fetch # None, ReadBalance
  PROVE  PagesInv'
  <1>1. fetch.at = "balance" /\ cache' = cache
    BY DEF ReadBalance
  <1>2. CASE route = "payment"
    <2>1. fetch' = [asked |-> fetch.asked, at |-> "ask", manifest |-> fetch.manifest, api |-> fetch.api,
                    reply |-> fetch.reply, attempt |-> fetch.attempt]
      BY <1>2, FetchShape, FetchFields DEF PagesInv, ReadBalance
    <2> QED BY <1>1, <1>2, <2>1, RequestPages DEF RequestOK
  <1>3. CASE route # "payment"
    <2>1. PICK left \in 1 .. Validity :
            fetch' = [fetch EXCEPT !.at = "recheck", !.reply = [deployment |-> fetch.manifest, asked |-> fetch.asked, left |-> left]]
      BY <1>3 DEF ReadBalance
    <2> DEFINE reply == [deployment |-> fetch.manifest, asked |-> fetch.asked, left |-> left]
    <2>2. reply = [deployment |-> reply.deployment, asked |-> reply.asked, left |-> reply.left]
          /\ reply.deployment = fetch.manifest /\ reply.left \in Nat
      BY PagesAssumption
    <2>3. fetch' = [fetch EXCEPT !.at = "recheck", !.reply = reply]
      BY <2>1
    <2> HIDE DEF reply
    <2>4. fetch' = [asked |-> fetch.asked, at |-> "recheck", manifest |-> fetch.manifest, api |-> fetch.api,
                    reply |-> reply, attempt |-> fetch.attempt]
      BY <2>3, FetchShape, AtAndReply DEF PagesInv
    <2>5. route = "balance" => fetch.manifest = known
      BY <1>1, FetchShape DEF PagesInv
    <2> QED BY <1>1, <2>2, <2>4, <2>5, RequestPages DEF RequestOK
  <1> QED BY <1>2, <1>3

\* The API's own reads, of which none is for a balance.
LEMMA ServePages ==
  ASSUME PagesInv, UNCHANGED context, UNCHANGED <<visible, max>>, fetch # None, Serve
  PROVE  PagesInv'
  <1>1. fetch.at = "ask"
    BY DEF Serve, ServeQuote, ServeDetail, ServePage
  <1>2. route # "balance"
    BY <1>1, FetchShape DEF PagesInv
  <1>3. ASSUME NEW reply, Serving(reply) PROVE PagesInv'
    <2>1. fetch' = [asked |-> fetch.asked, at |-> "serve", manifest |-> fetch.manifest, api |-> served,
                    reply |-> reply, attempt |-> fetch.attempt] /\ cache' = cache
      BY <1>3, FetchShape, AtApiAndReply DEF PagesInv, Serving
    <2> QED BY <1>2, <2>1, RequestPages DEF RequestOK
  <1>4. CASE ServeQuote
    BY <1>3, <1>4 DEF ServeQuote
  <1>5. CASE ServeDetail
    BY <1>3, <1>5 DEF ServeDetail
  <1>6. CASE ServePage
    BY <1>3, <1>6, FailurePages DEF ServePage
  <1> QED BY <1>4, <1>5, <1>6 DEF Serve

LEMMA PricedPages ==
  ASSUME PagesInv, UNCHANGED context, UNCHANGED <<visible, max>>, fetch # None, route # "balance", Priced
  PROVE  PagesInv'
  <1>1. PICK left \in 1 .. Validity : fetch' = [fetch EXCEPT !.at = "recheck", !.reply = Wire(left)]
    BY DEF Priced
  <1> DEFINE reply == Wire(left)
  <1>2. reply = [deployment |-> reply.deployment, asked |-> reply.asked, left |-> reply.left] /\ reply.left \in Nat
    BY PagesAssumption DEF Wire
  <1> HIDE DEF reply
  <1>3. fetch' = [asked |-> fetch.asked, at |-> "recheck", manifest |-> fetch.manifest, api |-> fetch.api,
                  reply |-> reply, attempt |-> fetch.attempt]
    BY <1>1, FetchShape, AtAndReply DEF PagesInv, reply
  <1>4. cache' = cache
    BY DEF Priced
  <1> QED BY <1>2, <1>3, <1>4, RequestPages DEF RequestOK

LEMMA AnswerPages ==
  ASSUME PagesInv, UNCHANGED context, UNCHANGED <<visible, max>>, fetch # None, Answer
  PROVE  PagesInv'
  <1>1. fetch.at = "serve"
    BY DEF Answer
  <1>2. route # "balance"
    BY <1>1, FetchShape DEF PagesInv
  <1>3. CASE AnswerSwap
    BY <1>2, <1>3, PricedPages, UnavailablePages DEF AnswerSwap
  <1>4. CASE AnswerPayment
    BY <1>2, <1>4, PricedPages, FailurePages DEF AnswerPayment
  <1>5. CASE AnswerDetail
    <2>1. PICK left \in 0 .. Validity : Success(Wire(left))
      BY <1>5 DEF AnswerDetail
    <2>2. Wire(left).left \in Nat
      BY PagesAssumption DEF Wire
    <2> QED BY <1>2, <2>1, <2>2, SuccessPages
  <1>6. CASE AnswerPage
    <2>1. route \notin Expires
      BY <1>6 DEF AnswerPage, Lists, Expires
    <2> QED BY <1>2, <1>6, <2>1, FailurePages, SuccessPages DEF AnswerPage
  <1> QED BY <1>3, <1>4, <1>5, <1>6 DEF Answer

LEMMA RetryPages ==
  ASSUME PagesInv, UNCHANGED context, UNCHANGED <<visible, max>>, fetch # None, Retry
  PROVE  PagesInv'
  <1>1. route # "balance"
    BY DEF Retry, Quotes
  <1>2. CASE fetch.attempt < Attempts
    <2>1. fetch' = [fetch EXCEPT !.at = "ask", !.attempt = @ + 1] /\ cache' = cache
      BY <1>2 DEF Retry
    <2>2. fetch' = [asked |-> fetch.asked, at |-> "ask", manifest |-> fetch.manifest, api |-> fetch.api,
                    reply |-> fetch.reply, attempt |-> fetch.attempt + 1]
      BY <2>1, FetchShape, AtAndAttempt DEF PagesInv
    <2> QED BY <1>1, <2>1, <2>2, RequestPages DEF RequestOK
  <1>3. CASE ~(fetch.attempt < Attempts)
    BY <1>3, UnavailablePages, FailurePages DEF Retry
  <1> QED BY <1>2, <1>3

LEMMA RecheckPages ==
  ASSUME PagesInv, UNCHANGED context, UNCHANGED <<visible, max>>, fetch # None, Recheck
  PROVE  PagesInv'
  <1>1. fetch.at = "recheck"
    BY DEF Recheck
  <1>2. fetch.reply.left \in Nat /\ (route = "balance" => fetch.reply.deployment = fetch.manifest /\ fetch.manifest = known)
    BY <1>1 DEF PagesInv, FetchOK
  <1> QED BY <1>2, SuccessPages, FailurePages DEF Recheck

LEMMA LostPages ==
  ASSUME PagesInv, UNCHANGED context, UNCHANGED <<visible, max>>, fetch # None, Lost
  PROVE  PagesInv'
  <1>1. PICK units \in {0, 6} : cache' = With([Older(Entry, units) EXCEPT !.failed = TRUE, !.age = 0])
    BY DEF Lost
  <1>2. fetch' = None
    BY DEF Lost
  <1> DEFINE e == Older(Entry, units)
             f == [e EXCEPT !.failed = TRUE, !.age = 0]
  <1>3. EntryOK(Key, Entry)
    BY EntryIsOK DEF PagesInv
  <1>4. EntryOK(Key, e) /\ (visible /\ Lapsed(e) => e.expired)
    BY <1>3, OlderIsOK
  <1> HIDE DEF e
  <1>5. EntryOK(Key, f) /\ f.data = e.data /\ f.expired = e.expired
    BY <1>4, FailedIsOK
  <1>6. cache' = With(f)
    BY <1>1 DEF e
  <1> HIDE DEF f
  <1>7. visible' /\ Lapsed(f) => f.expired
    BY <1>4, <1>5 DEF Lapsed
  <1>8. AnswersOK' /\ LapseOK'
    BY <1>5, <1>6, <1>7, EntryWritten DEF PagesInv
  <1> QED BY <1>2, <1>8, MaxStays, FormStays DEF PagesInv, FetchOK, context

LEMMA FetchPages ==
  ASSUME PagesInv, FetchStep
  PROVE  PagesInv'
  <1>1. UNCHANGED context /\ UNCHANGED <<visible, max>> /\ fetch # None
    BY DEF FetchStep, context, page
  <1>2. ReadManifest \/ ReadBalance \/ Serve \/ Answer \/ Retry \/ Recheck \/ Lost
    BY DEF FetchStep
  <1> QED BY <1>1, <1>2, ReadManifestPages, ReadBalancePages, ServePages, AnswerPages, RetryPages,
             RecheckPages, LostPages

-----------------------------------------------------------------------------
(* Max. *)

LEMMA MaximumIsNat ==
  ASSUME NEW balance \in Nat, NEW gas \in Nat
  PROVE  /\ MaximumSwapInput(balance, gas) \in Nat
         /\ MaximumSwapInput(balance, gas) > 0 =>
              /\ MaximumSwapInput(balance, gas) + 2 * gas <= balance
              /\ MaximumSwapInput(balance, gas) + MinReserve <= balance
  BY PagesAssumption DEF MaximumSwapInput

LEMMA MaxFields ==
  ASSUME NEW m, m = [at |-> m.at, balance |-> m.balance, candidate |-> m.candidate, gas |-> m.gas, step |-> m.step],
         NEW v
  PROVE  /\ [m EXCEPT !.at = v] = [at |-> v, balance |-> m.balance, candidate |-> m.candidate, gas |-> m.gas, step |-> m.step]
         /\ [m EXCEPT !.balance = v] = [at |-> m.at, balance |-> v, candidate |-> m.candidate, gas |-> m.gas, step |-> m.step]
         /\ [m EXCEPT !.candidate = v] = [at |-> m.at, balance |-> m.balance, candidate |-> v, gas |-> m.gas, step |-> m.step]
         /\ [m EXCEPT !.gas = v] = [at |-> m.at, balance |-> m.balance, candidate |-> m.candidate, gas |-> v, step |-> m.step]
         /\ [m EXCEPT !.step = v] = [at |-> m.at, balance |-> m.balance, candidate |-> m.candidate, gas |-> m.gas, step |-> v]
  OBVIOUS

LEMMA AtAndCandidate ==
  ASSUME NEW m, m = [at |-> m.at, balance |-> m.balance, candidate |-> m.candidate, gas |-> m.gas, step |-> m.step],
         NEW u, NEW v
  PROVE  [m EXCEPT !.at = u, !.candidate = v] = [at |-> u, balance |-> m.balance, candidate |-> v, gas |-> m.gas, step |-> m.step]
  <1> DEFINE h == [m EXCEPT !.at = u]
  <1>1. h = [at |-> u, balance |-> m.balance, candidate |-> m.candidate, gas |-> m.gas, step |-> m.step]
    BY MaxFields
  <1>2. /\ h = [at |-> h.at, balance |-> h.balance, candidate |-> h.candidate, gas |-> h.gas, step |-> h.step]
        /\ h.at = u /\ h.balance = m.balance /\ h.candidate = m.candidate /\ h.gas = m.gas /\ h.step = m.step
    BY <1>1
  <1>3. [m EXCEPT !.at = u, !.candidate = v] = [h EXCEPT !.candidate = v]
    OBVIOUS
  <1> HIDE DEF h
  <1>4. [h EXCEPT !.candidate = v] = [at |-> h.at, balance |-> h.balance, candidate |-> v, gas |-> h.gas, step |-> h.step]
    BY <1>2, MaxFields
  <1> QED BY <1>2, <1>3, <1>4

LEMMA AtAndBalance ==
  ASSUME NEW m, m = [at |-> m.at, balance |-> m.balance, candidate |-> m.candidate, gas |-> m.gas, step |-> m.step],
         NEW u, NEW v
  PROVE  [m EXCEPT !.at = u, !.balance = v] = [at |-> u, balance |-> v, candidate |-> m.candidate, gas |-> m.gas, step |-> m.step]
  <1> DEFINE h == [m EXCEPT !.at = u]
  <1>1. h = [at |-> u, balance |-> m.balance, candidate |-> m.candidate, gas |-> m.gas, step |-> m.step]
    BY MaxFields
  <1>2. /\ h = [at |-> h.at, balance |-> h.balance, candidate |-> h.candidate, gas |-> h.gas, step |-> h.step]
        /\ h.at = u /\ h.balance = m.balance /\ h.candidate = m.candidate /\ h.gas = m.gas /\ h.step = m.step
    BY <1>1
  <1>3. [m EXCEPT !.at = u, !.balance = v] = [h EXCEPT !.balance = v]
    OBVIOUS
  <1> HIDE DEF h
  <1>4. [h EXCEPT !.balance = v] = [at |-> h.at, balance |-> v, candidate |-> h.candidate, gas |-> h.gas, step |-> h.step]
    BY <1>2, MaxFields
  <1> QED BY <1>2, <1>3, <1>4

LEMMA AtBalanceCandidate ==
  ASSUME NEW m, m = [at |-> m.at, balance |-> m.balance, candidate |-> m.candidate, gas |-> m.gas, step |-> m.step],
         NEW u, NEW v, NEW w
  PROVE  [m EXCEPT !.at = u, !.balance = v, !.candidate = w] = [at |-> u, balance |-> v, candidate |-> w, gas |-> m.gas, step |-> m.step]
  <1> DEFINE h == [m EXCEPT !.at = u, !.balance = v]
  <1>1. h = [at |-> u, balance |-> v, candidate |-> m.candidate, gas |-> m.gas, step |-> m.step]
    BY AtAndBalance
  <1>2. /\ h = [at |-> h.at, balance |-> h.balance, candidate |-> h.candidate, gas |-> h.gas, step |-> h.step]
        /\ h.at = u /\ h.balance = v /\ h.candidate = m.candidate /\ h.gas = m.gas /\ h.step = m.step
    BY <1>1
  <1>3. [m EXCEPT !.at = u, !.balance = v, !.candidate = w] = [h EXCEPT !.candidate = w]
    OBVIOUS
  <1> HIDE DEF h
  <1>4. [h EXCEPT !.candidate = w] = [at |-> h.at, balance |-> h.balance, candidate |-> w, gas |-> h.gas, step |-> h.step]
    BY <1>2, MaxFields
  <1> QED BY <1>2, <1>3, <1>4

LEMMA AtAndGas ==
  ASSUME NEW m, m = [at |-> m.at, balance |-> m.balance, candidate |-> m.candidate, gas |-> m.gas, step |-> m.step],
         NEW u, NEW v
  PROVE  [m EXCEPT !.at = u, !.gas = v] = [at |-> u, balance |-> m.balance, candidate |-> m.candidate, gas |-> v, step |-> m.step]
  <1> DEFINE h == [m EXCEPT !.at = u]
  <1>1. h = [at |-> u, balance |-> m.balance, candidate |-> m.candidate, gas |-> m.gas, step |-> m.step]
    BY MaxFields
  <1>2. /\ h = [at |-> h.at, balance |-> h.balance, candidate |-> h.candidate, gas |-> h.gas, step |-> h.step]
        /\ h.at = u /\ h.balance = m.balance /\ h.candidate = m.candidate /\ h.gas = m.gas /\ h.step = m.step
    BY <1>1
  <1>3. [m EXCEPT !.at = u, !.gas = v] = [h EXCEPT !.gas = v]
    OBVIOUS
  <1> HIDE DEF h
  <1>4. [h EXCEPT !.gas = v] = [at |-> h.at, balance |-> h.balance, candidate |-> h.candidate, gas |-> v, step |-> h.step]
    BY <1>2, MaxFields
  <1> QED BY <1>2, <1>3, <1>4

LEMMA AtGasStep ==
  ASSUME NEW m, m = [at |-> m.at, balance |-> m.balance, candidate |-> m.candidate, gas |-> m.gas, step |-> m.step],
         NEW u, NEW v, NEW w
  PROVE  [m EXCEPT !.at = u, !.gas = v, !.step = w] = [at |-> u, balance |-> m.balance, candidate |-> m.candidate, gas |-> v, step |-> w]
  <1> DEFINE h == [m EXCEPT !.at = u, !.gas = v]
  <1>1. h = [at |-> u, balance |-> m.balance, candidate |-> m.candidate, gas |-> v, step |-> m.step]
    BY AtAndGas
  <1>2. /\ h = [at |-> h.at, balance |-> h.balance, candidate |-> h.candidate, gas |-> h.gas, step |-> h.step]
        /\ h.at = u /\ h.balance = m.balance /\ h.candidate = m.candidate /\ h.gas = v /\ h.step = m.step
    BY <1>1
  <1>3. [m EXCEPT !.at = u, !.gas = v, !.step = w] = [h EXCEPT !.step = w]
    OBVIOUS
  <1> HIDE DEF h
  <1>4. [h EXCEPT !.step = w] = [at |-> h.at, balance |-> h.balance, candidate |-> h.candidate, gas |-> h.gas, step |-> w]
    BY <1>2, MaxFields
  <1> QED BY <1>2, <1>3, <1>4

LEMMA FormFields ==
  ASSUME FormOK, NEW n
  PROVE  [form EXCEPT !.amount = n] = [token |-> form.token, amount |-> n]
  BY DEF FormOK

\* A new amount drops the answers and the run of Max.
LEMMA SetAmountPages ==
  ASSUME PagesInv, NEW n, SetAmount(n), route' = route
  PROVE  PagesInv' /\ form'.amount = n
  <1>1. form' = [token |-> form.token, amount |-> n]
    BY FormFields DEF SetAmount, PagesInv
  <1>2. AnswersOK' /\ LapseOK' /\ FetchOK'
    BY Dropped DEF SetAmount
  <1>3. FormOK' /\ form'.amount = n
    BY <1>1 DEF FormOK, PagesInv
  <1> QED BY <1>2, <1>3 DEF PagesInv, MaxOK, SetAmount

LEMMA MaxBegins ==
  ASSUME PagesInv, MaxOK', UNCHANGED context, UNCHANGED <<visible, cache, fetch>>
  PROVE  PagesInv'
  BY AnswersStay, FetchStays, FormStays DEF PagesInv, context

LEMMA MaximumPages ==
  ASSUME PagesInv, Maximum
  PROVE  PagesInv'
  <1> USE DEF page, reading
  <1>0. ASSUME max # None
        PROVE  /\ max = [at |-> max.at, balance |-> max.balance, candidate |-> max.candidate, gas |-> max.gas, step |-> max.step]
               /\ max.balance \in Nat /\ max.candidate \in Nat /\ max.gas \in Nat
    BY <1>0 DEF PagesInv, MaxOK
  <1>1. CASE MaxStart
    <2>1. max' = [at |-> "balance", balance |-> 0, candidate |-> 0, gas |-> 0, step |-> 0]
      BY <1>1 DEF MaxStart
    <2>2. MaxOK'
      BY <2>1 DEF MaxOK
    <2> QED BY <1>1, <2>2, MaxBegins DEF MaxStart, context
  <1>2. CASE MaxBalance
    <2>1. PICK b \in Balances :
            IF SharesGas
            THEN /\ max' = [max EXCEPT !.at = "estimate", !.balance = b, !.candidate = MaximumSwapInput(b, 0)]
                 /\ UNCHANGED <<account, form, known, intent, reading>>
            ELSE SetAmount(b)
      BY <1>2 DEF MaxBalance
    <2>2. b \in Nat
      BY PagesAssumption
    <2>3. CASE SharesGas
      <3>1. max' = [at |-> "estimate", balance |-> b, candidate |-> MaximumSwapInput(b, 0), gas |-> max.gas, step |-> max.step]
        BY <1>0, <1>2, <2>1, <2>3, AtBalanceCandidate DEF MaxBalance
      <3>2. MaximumSwapInput(b, 0) \in Nat
        BY <2>2, MaximumIsNat
      <3>3. MaxOK'
        BY <1>0, <1>2, <2>2, <3>1, <3>2 DEF MaxOK, MaxBalance
      <3> QED BY <1>2, <2>1, <2>3, <3>3, MaxBegins DEF MaxBalance, context
    <2>4. CASE ~SharesGas
      BY <1>2, <2>1, <2>4, SetAmountPages DEF MaxBalance
    <2> QED BY <2>3, <2>4
  <1>3. CASE MaxEstimate
    <2>1. PICK g \in Gases : max' = [max EXCEPT !.at = "decide", !.gas = g, !.step = @ + 1]
      BY <1>3 DEF MaxEstimate
    <2>2. g \in Nat
      BY PagesAssumption
    <2>3. max' = [at |-> "decide", balance |-> max.balance, candidate |-> max.candidate, gas |-> g, step |-> max.step + 1]
      BY <1>0, <1>3, <2>1, AtGasStep DEF MaxEstimate
    <2>4. MaxOK'
      BY <1>0, <1>3, <2>2, <2>3 DEF MaxOK, MaxEstimate
    <2> QED BY <1>3, <2>4, MaxBegins DEF MaxEstimate, context
  <1>4. CASE MaxDecide
    <2>1. CASE Accepted(max.candidate, max.balance, max.gas)
      BY <1>4, <2>1, SetAmountPages DEF MaxDecide
    <2>2. CASE ~Accepted(max.candidate, max.balance, max.gas)
      <3> DEFINE c == MaximumSwapInput(max.balance, max.gas)
      <3>1. c \in Nat
        BY <1>0, <1>4, MaximumIsNat DEF MaxDecide
      <3>2. max' = [max EXCEPT !.at = "estimate", !.candidate = c]
        BY <1>4, <2>2 DEF MaxDecide
      <3> HIDE DEF c
      <3>3. max' = [at |-> "estimate", balance |-> max.balance, candidate |-> c, gas |-> max.gas, step |-> max.step]
        BY <1>0, <1>4, <3>2, AtAndCandidate DEF MaxDecide
      <3>4. MaxOK'
        BY <1>0, <1>4, <3>1, <3>3 DEF MaxOK, MaxDecide
      <3> QED BY <1>4, <2>2, <3>4, MaxBegins DEF MaxDecide, context
    <2> QED BY <2>1, <2>2
  <1>5. CASE MaxFails
    <2>1. MaxOK'
      BY <1>5 DEF MaxFails, MaxOK
    <2> QED BY <1>5, <2>1, MaxBegins DEF MaxFails, context
  <1> QED BY <1>1, <1>2, <1>3, <1>4, <1>5 DEF Maximum

LEMMA PagesStutter ==
  ASSUME PagesInv, UNCHANGED vars
  PROVE  PagesInv'
  BY Aside DEF vars, context, page, reading

LEMMA PagesNext ==
  ASSUME PagesInv, [Next]_vars
  PROVE  PagesInv'
  BY WorldPages, UserPages, TimerPages, TickPages, BeginPages, FetchPages, MaximumPages, PagesStutter DEF Next

-----------------------------------------------------------------------------
(* Lists: sets of items, their positions and their order. *)

LEMMA Least ==
  ASSUME NEW T \in SUBSET Nat, T # {}
  PROVE  \E n \in T : \A m \in T : n <= m
  <1> DEFINE R == OpToRel(<, Nat)
  <1>1. IsWellFoundedOn(R, Nat)
    BY NatLessThanWellFounded
  <1>2. \A n, m \in Nat : n < m => <<n, m>> \in R
    BY DEF OpToRel
  <1> HIDE DEF R
  <1>3. PICK n \in T : \A m \in T : <<m, n>> \notin R
    BY <1>1, WFMin
  <1>4. ASSUME NEW m \in T PROVE n <= m
    <2>1. ~(m < n)
      <3>1. m \in Nat /\ n \in Nat /\ <<m, n>> \notin R
        BY <1>3
      <3> QED BY <1>2, <3>1
    <2> QED BY <2>1
  <1> QED BY <1>4

LEMMA Greatest ==
  ASSUME NEW T \in SUBSET Nat, T # {}, NEW most \in Nat, \A n \in T : n <= most
  PROVE  \E n \in T : \A m \in T : m <= n
  <1> DEFINE U == {most - n : n \in T}
  <1>1. U \in SUBSET Nat /\ U # {}
    <2>1. \A n \in T : most - n \in Nat
      OBVIOUS
    <2>2. U \subseteq Nat
      BY <2>1
    <2>3. PICK n \in T : TRUE
      OBVIOUS
    <2>4. most - n \in U
      OBVIOUS
    <2> QED BY <2>2, <2>4
  <1>2. PICK u \in U : \A v \in U : u <= v
    <2> HIDE DEF U
    <2> QED BY <1>1, Least
  <1>3. PICK n \in T : u = most - n
    OBVIOUS
  <1>4. ASSUME NEW m \in T PROVE m <= n
    <2>1. most - n <= most - m
      BY <1>2, <1>3
    <2> QED BY <2>1
  <1> QED BY <1>4

\* Before is a total order of the positions.
LEMMA BeforeOrders ==
  ASSUME NEW p \in Nat \X Nat, NEW q \in Nat \X Nat
  PROVE  /\ ~(Before(p, q) /\ Before(q, p))
         /\ ~Before(p, p)
         /\ p = q \/ Before(p, q) \/ Before(q, p)
         /\ \A r \in Nat \X Nat : Before(p, q) /\ Before(q, r) => Before(p, r)
  BY DEF Before

LEMMA LeastPosition ==
  ASSUME NEW S \in SUBSET (Nat \X Nat), S # {}
  PROVE  \E p \in S : \A q \in S \ {p} : Before(p, q)
  <1> DEFINE heights == {p[1] : p \in S}
  <1>1. PICK h \in heights : \A g \in heights : h <= g
    <2>1. heights \in SUBSET Nat /\ heights # {}
      OBVIOUS
    <2> QED BY <2>1, Least
  <1> DEFINE logs == {p[2] : p \in {q \in S : q[1] = h}}
  <1>2. PICK n \in logs : \A m \in logs : n <= m
    <2>1. logs \in SUBSET Nat /\ logs # {}
      OBVIOUS
    <2> QED BY <2>1, Least
  <1>3. PICK p \in S : p[1] = h /\ p[2] = n
    OBVIOUS
  <1>4. ASSUME NEW q \in S \ {p} PROVE Before(p, q)
    <2>1. q[1] \in heights /\ (q[1] = h => q[2] \in logs)
      OBVIOUS
    <2>2. h <= q[1] /\ (q[1] = h => n <= q[2])
      BY <1>1, <1>2, <2>1
    <2>3. p \in Nat \X Nat /\ q \in Nat \X Nat /\ p # q
      OBVIOUS
    <2> QED BY <1>3, <2>2, <2>3 DEF Before
  <1> QED BY <1>4

LEMMA GreatestPosition ==
  ASSUME NEW S \in SUBSET (Nat \X Nat), S # {}, NEW top \in Nat, \A p \in S : p[1] <= top,
         NEW most \in [Nat -> Nat], \A p \in S : p[2] <= most[p[1]]
  PROVE  \E p \in S : \A q \in S \ {p} : Before(q, p)
  <1> DEFINE heights == {p[1] : p \in S}
  <1>1. PICK h \in heights : \A g \in heights : g <= h
    <2>1. heights \in SUBSET Nat /\ heights # {} /\ \A g \in heights : g <= top
      OBVIOUS
    <2> QED BY <2>1, Greatest
  <1> DEFINE logs == {p[2] : p \in {q \in S : q[1] = h}}
  <1>2. PICK n \in logs : \A m \in logs : m <= n
    <2>1. logs \in SUBSET Nat /\ logs # {} /\ \A m \in logs : m <= most[h]
      OBVIOUS
    <2>2. most[h] \in Nat
      OBVIOUS
    <2> QED BY <2>1, <2>2, Greatest
  <1>3. PICK p \in S : p[1] = h /\ p[2] = n
    OBVIOUS
  <1>4. ASSUME NEW q \in S \ {p} PROVE Before(q, p)
    <2>1. q[1] \in heights /\ (q[1] = h => q[2] \in logs)
      OBVIOUS
    <2>2. q[1] <= h /\ (q[1] = h => q[2] <= n)
      BY <1>1, <1>2, <2>1
    <2>3. p \in Nat \X Nat /\ q \in Nat \X Nat /\ p # q
      OBVIOUS
    <2> QED BY <1>3, <2>2, <2>3 DEF Before
  <1> QED BY <1>4

\* A place is of one block and one log.
LEMMA PlacesAre ==
  ASSUME NEW row, NEW pin \in Blocks, NEW p
  PROVE  p \in Places(row, pin) <=>
           \E b \in Ancestors[pin] : \E n \in DOMAIN Touched[b] : Touched[b][n] = row /\ p = <<Height[b], n>>
  BY DEF Places

LEMMA LogsAreNat ==
  ASSUME NEW b \in Blocks
  PROVE  /\ Height[b] \in Nat
         /\ Len(Touched[b]) \in Nat /\ DOMAIN Touched[b] = 1 .. Len(Touched[b])
         /\ Touched[b] \in Seq(Rows)
  <1>1. Touched[b] \in Seq(Rows) /\ Height[b] \in Nat
    BY ListingAssumption
  <1> QED BY <1>1, LenProperties

LEMMA PlacesType ==
  ASSUME NEW row, NEW pin \in Blocks
  PROVE  Places(row, pin) \in SUBSET (Nat \X Nat)
  <1>1. ASSUME NEW p \in Places(row, pin) PROVE p \in Nat \X Nat
    <2>1. PICK b \in Ancestors[pin] : \E n \in DOMAIN Touched[b] : Touched[b][n] = row /\ p = <<Height[b], n>>
      BY PlacesAre
    <2>2. b \in Blocks
      BY ListingAssumption
    <2> QED BY <2>1, <2>2, LogsAreNat
  <1> QED BY <1>1

LEMMA OnePlaceOneRow ==
  ASSUME NEW r, NEW q, NEW pin \in Blocks, NEW p \in Places(r, pin), p \in Places(q, pin)
  PROVE  r = q
  <1>1. PICK b \in Ancestors[pin] : \E n \in DOMAIN Touched[b] : Touched[b][n] = r /\ p = <<Height[b], n>>
    BY PlacesAre
  <1>2. PICK c \in Ancestors[pin] : \E n \in DOMAIN Touched[c] : Touched[c][n] = q /\ p = <<Height[c], n>>
    BY PlacesAre
  <1>3. Height[b] = Height[c]
    BY <1>1, <1>2
  <1>4. b = c
    BY <1>3, ListingAssumption
  <1> QED BY <1>1, <1>2, <1>4

\* The position of a row is one of its places.
LEMMA PositionIs ==
  ASSUME NEW list, NEW row, NEW pin \in Blocks, Places(row, pin) # {}
  PROVE  Position(list, Places(row, pin)) \in Places(row, pin)
  <1> DEFINE S == Places(row, pin)
  <1>1. S \in SUBSET (Nat \X Nat)
    BY PlacesType
  <1>2. First(S) \in S
    <2>1. \E p \in S : \A q \in S \ {p} : Before(p, q)
      BY <1>1, LeastPosition
    <2> HIDE DEF S
    <2> QED BY <2>1 DEF First
  <1>3. Latest(S) \in S
    <2> DEFINE most == [h \in Nat |-> IF \E b \in Ancestors[pin] : Height[b] = h
                                      THEN Len(Touched[CHOOSE b \in Ancestors[pin] : Height[b] = h]) ELSE 0]
    <2>1. most \in [Nat -> Nat]
      <3>1. ASSUME NEW h \in Nat, \E b \in Ancestors[pin] : Height[b] = h
            PROVE  Len(Touched[CHOOSE b \in Ancestors[pin] : Height[b] = h]) \in Nat
        <4>1. (CHOOSE b \in Ancestors[pin] : Height[b] = h) \in Ancestors[pin]
          BY <3>1
        <4>2. Ancestors[pin] \subseteq Blocks
          BY ListingAssumption
        <4> QED BY <4>1, <4>2, LogsAreNat
      <3> QED BY <3>1
    <2>2. ASSUME NEW p \in S PROVE p[1] <= Height[pin] /\ p[2] <= most[p[1]]
      <3>1. PICK b \in Ancestors[pin] : \E n \in DOMAIN Touched[b] : Touched[b][n] = row /\ p = <<Height[b], n>>
        BY PlacesAre
      <3>2. b \in Blocks /\ Height[b] <= Height[pin]
        BY ListingAssumption
      <3> DEFINE c == CHOOSE c \in Ancestors[pin] : Height[c] = Height[b]
      <3>3. c \in Ancestors[pin] /\ Height[c] = Height[b]
        OBVIOUS
      <3>4. c = b
        BY <3>3, ListingAssumption
      <3>5. p[1] = Height[b] /\ p[2] \in DOMAIN Touched[b] /\ Height[b] \in Nat
        BY <3>1, <3>2, LogsAreNat
      <3>6. most[Height[b]] = Len(Touched[c])
        BY <3>5
      <3>7. p[2] <= Len(Touched[b])
        BY <3>2, <3>5, LogsAreNat
      <3> QED BY <3>2, <3>4, <3>5, <3>6, <3>7
    <2>3. Height[pin] \in Nat
      BY LogsAreNat
    <2> HIDE DEF most, S
    <2>4. S # {}
      BY DEF S
    <2>5. \E p \in S : \A q \in S \ {p} : Before(q, p)
      BY <1>1, <2>1, <2>2, <2>3, <2>4, GreatestPosition
    <2> QED BY <2>5 DEF Latest
  <1> QED BY <1>2, <1>3 DEF Position

All == [row : Rows, at : Nat \X Nat]

\* Items that can be put in order: finitely many, no two at one position.
Ranked(items) ==
  /\ IsFiniteSet(items) /\ items \in SUBSET All
  /\ \A p, q \in items : p.at = q.at => p = q

LEMMA ItemsRanked ==
  ASSUME NEW list, NEW owner, NEW pin \in Blocks
  PROVE  Ranked(Items(list, owner, pin))
  <1> DEFINE own == {r \in Rows : Owner[r] = owner /\ Places(r, pin) # {}}
             at(r) == Position(list, Places(r, pin))
             f == [r \in own |-> [row |-> r, at |-> at(r)]]
             items == Items(list, owner, pin)
  <1>1. items = {[row |-> r, at |-> at(r)] : r \in own}
    BY DEF Items
  <1>2. \A r \in own : at(r) \in Places(r, pin)
    BY PositionIs
  <1>3. \A r \in own : at(r) \in Nat \X Nat
    BY <1>2, PlacesType
  <1>4. \A r, q \in own : at(r) = at(q) => r = q
    BY <1>2, OnePlaceOneRow
  <1>5. IsFiniteSet(own)
    BY ListingAssumption, FS_Subset
  <1> HIDE DEF at, items
  <1>6. items \in SUBSET All
    BY <1>1, <1>3 DEF All
  <1>7. \A p, q \in items : p.at = q.at => p = q
    BY <1>1, <1>4
  <1>8. IsFiniteSet(items)
    <2>1. f \in Surjection(own, items)
      BY <1>1 DEF Surjection
    <2> QED BY <1>5, <2>1, FS_Surjection
  <1> QED BY <1>6, <1>7, <1>8 DEF Ranked, items

Arranges(s, items) ==
  /\ s \in [1 .. Cardinality(items) -> items] /\ Range(s) = items
  /\ \A i, j \in DOMAIN s : i < j => Before(s[j].at, s[i].at)

LEMMA RankedSubset ==
  ASSUME NEW items, Ranked(items), NEW some \in SUBSET items
  PROVE  Ranked(some) /\ Cardinality(some) \in Nat
  BY FS_Subset, FS_CardinalityType DEF Ranked

\* The oldest of some items.
LEMMA Oldest ==
  ASSUME NEW items, Ranked(items), items # {}
  PROVE  \E o \in items : \A q \in items \ {o} : Before(o.at, q.at)
  <1> DEFINE positions == {p.at : p \in items}
  <1>1. positions \in SUBSET (Nat \X Nat) /\ positions # {}
    BY DEF Ranked, All
  <1>2. PICK p \in positions : \A q \in positions \ {p} : Before(p, q)
    <2> HIDE DEF positions
    <2> QED BY <1>1, LeastPosition
  <1>3. PICK o \in items : o.at = p
    OBVIOUS
  <1>4. ASSUME NEW q \in items \ {o} PROVE Before(o.at, q.at)
    <2>1. q.at \in positions /\ q.at # p
      BY <1>3 DEF Ranked
    <2> QED BY <1>2, <1>3, <2>1
  <1> QED BY <1>4

\* An order of all but the oldest, with the oldest put last.
LEMMA PutLast ==
  ASSUME NEW items, Ranked(items), NEW o \in items, \A q \in items \ {o} : Before(o.at, q.at),
         NEW s, Arranges(s, items \ {o})
  PROVE  \E t : Arranges(t, items)
  <1> DEFINE n == Cardinality(items)
             t == [i \in 1 .. n |-> IF i = n THEN o ELSE s[i]]
  <1>1. n \in Nat /\ n > 0 /\ Cardinality(items \ {o}) = n - 1
    <2>1. IsFiniteSet(items)
      BY DEF Ranked
    <2>2. n \in Nat /\ Cardinality(items \ {o}) = n - 1 /\ IsFiniteSet(items \ {o})
      BY <2>1, FS_CardinalityType, FS_RemoveElement
    <2>3. Cardinality(items \ {o}) \in Nat
      BY <2>2, FS_CardinalityType
    <2> QED BY <2>2, <2>3
  <1> HIDE DEF n
  <1>2. s \in [1 .. n - 1 -> items \ {o}] /\ Range(s) = items \ {o}
    BY <1>1 DEF Arranges
  <1>3. t \in [1 .. n -> items]
    BY <1>1, <1>2
  <1>4. Range(t) = items
    <2>1. ASSUME NEW q \in items PROVE q \in Range(t)
      <3>1. CASE q = o
        <4>1. n \in DOMAIN t /\ t[n] = o
          BY <1>1
        <4> QED BY <3>1, <4>1 DEF Range
      <3>2. CASE q # o
        <4>1. PICK i \in 1 .. n - 1 : s[i] = q
          BY <1>2, <3>2 DEF Range
        <4>2. i \in DOMAIN t /\ t[i] = q
          BY <1>1, <4>1
        <4> QED BY <4>2 DEF Range
      <3> QED BY <3>1, <3>2
    <2>2. Range(t) \subseteq items
      BY <1>3 DEF Range
    <2> QED BY <2>1, <2>2
  <1>5. ASSUME NEW i \in DOMAIN t, NEW j \in DOMAIN t, i < j PROVE Before(t[j].at, t[i].at)
    <2>1. i \in 1 .. n - 1 /\ t[i] = s[i] /\ s[i] \in items \ {o}
      BY <1>1, <1>2, <1>5
    <2>2. CASE j = n
      BY <2>1, <2>2
    <2>3. CASE j # n
      <3>1. j \in 1 .. n - 1 /\ t[j] = s[j]
        BY <1>1, <2>3
      <3> QED BY <1>2, <1>5, <2>1, <3>1 DEF Arranges
    <2> QED BY <2>2, <2>3
  <1>6. Arranges(t, items)
    <2> HIDE DEF t
    <2> QED BY <1>3, <1>4, <1>5 DEF Arranges, n
  <1> QED BY <1>6

\* Items have an order: otherwise some fewest of them would have none.
LEMMA ArrangementExists ==
  ASSUME NEW items, Ranked(items)
  PROVE  \E s : Arranges(s, items)
  <1> DEFINE bad == {some \in SUBSET items : \A s : ~Arranges(s, some)}
             sizes == {Cardinality(some) : some \in bad}
  <1> SUFFICES ASSUME bad # {} PROVE FALSE
    OBVIOUS
  <1>1. sizes \in SUBSET Nat /\ sizes # {}
    BY RankedSubset
  <1>2. PICK n \in sizes : \A m \in sizes : n <= m
    <2> HIDE DEF sizes
    <2> QED BY <1>1, Least
  <1>3. PICK some \in bad : Cardinality(some) = n
    OBVIOUS
  <1>4. Ranked(some) /\ IsFiniteSet(some) /\ n \in Nat
    BY <1>1, <1>3, RankedSubset DEF Ranked
  <1>5. some # {}
    <2> SUFFICES ASSUME some = {} PROVE \E s : Arranges(s, some)
      BY <1>3
    <2> DEFINE s == [i \in {} |-> 0]
    <2>1. Cardinality(some) = 0
      BY FS_EmptySet
    <2>2. s \in [1 .. 0 -> some] /\ Range(s) = {} /\ DOMAIN s = {}
      BY DEF Range
    <2> HIDE DEF s
    <2> QED BY <2>1, <2>2 DEF Arranges
  <1>6. PICK o \in some : \A q \in some \ {o} : Before(o.at, q.at)
    BY <1>4, <1>5, Oldest
  <1>7. Cardinality(some \ {o}) = n - 1
    BY <1>3, <1>4, FS_RemoveElement
  <1>8. some \ {o} \notin bad
    <2> SUFFICES ASSUME some \ {o} \in bad PROVE FALSE
      OBVIOUS
    <2>1. n - 1 \in sizes
      BY <1>7
    <2> HIDE DEF sizes
    <2> QED BY <1>2, <1>4, <2>1
  <1>9. PICK s : Arranges(s, some \ {o})
    BY <1>8
  <1> QED BY <1>3, <1>4, <1>6, <1>9, PutLast

\* A list holds the owner's items in order.
LEMMA ListedArranges ==
  ASSUME NEW list \in {"strategies", "invoices"}, NEW owner \in Accounts[list], NEW pin \in Blocks
  PROVE  Arranges(Listed(list, owner, pin), Items(list, owner, pin))
  <1> DEFINE items == Items(list, owner, pin)
             t == CHOOSE t \in Tables : t.list = list /\ t.owner = owner /\ t.pin = pin
  <1>1. Arranges(NewestFirst(items), items)
    <2> HIDE DEF items
    <2>1. Ranked(items)
      BY ItemsRanked DEF items
    <2>2. PICK s : Arranges(s, items)
      BY <2>1, ArrangementExists
    <2> QED BY <2>2 DEF NewestFirst, Arranges
  <1>2. \E u \in Tables : u.list = list /\ u.owner = owner /\ u.pin = pin
    <2> DEFINE u == [list |-> list, owner |-> owner, pin |-> pin, items |-> NewestFirst(items)]
    <2>1. u \in Tables
      BY DEF Tables
    <2>2. u.list = list /\ u.owner = owner /\ u.pin = pin
      OBVIOUS
    <2> HIDE DEF u
    <2> QED BY <2>1, <2>2
  <1>3. t \in Tables /\ t.list = list /\ t.owner = owner /\ t.pin = pin
    BY <1>2
  <1> HIDE DEF t
  <1>4. t.items = NewestFirst(items)
    BY <1>3 DEF Tables
  <1> QED BY <1>1, <1>4 DEF Listed, t

LEMMA ListedIs ==
  ASSUME NEW list \in {"strategies", "invoices"}, NEW owner \in Accounts[list], NEW pin \in Blocks
  PROVE  LET all == Listed(list, owner, pin)
         IN /\ all \in Seq(All) /\ Len(all) \in Nat /\ DOMAIN all = 1 .. Len(all)
            /\ \A i \in 1 .. Len(all) : all[i].at \in Nat \X Nat
            /\ \A i, j \in 1 .. Len(all) : i < j => Before(all[j].at, all[i].at)
  <1> DEFINE all == Listed(list, owner, pin)
             items == Items(list, owner, pin)
             n == Cardinality(items)
  <1>1. Arranges(all, items) /\ Ranked(items)
    BY ListedArranges, ItemsRanked
  <1>2. n \in Nat
    BY <1>1, FS_CardinalityType DEF Ranked
  <1> HIDE DEF all, items
  <1>3. all \in [1 .. n -> All]
    BY <1>1 DEF Arranges, Ranked
  <1>4. all \in Seq(All)
    <2> HIDE DEF n
    <2> QED BY <1>2, <1>3, SeqDef
  <1>5. Len(all) \in Nat /\ DOMAIN all = 1 .. Len(all)
    BY <1>4, LenProperties
  <1>6. ASSUME NEW i \in 1 .. Len(all) PROVE all[i].at \in Nat \X Nat
    <2>1. all[i] \in All
      BY <1>4, ElementOfSeq
    <2> QED BY <2>1 DEF All
  <1>7. \A i, j \in 1 .. Len(all) : i < j => Before(all[j].at, all[i].at)
    BY <1>1, <1>5 DEF Arranges
  <1> QED BY <1>4, <1>5, <1>6, <1>7 DEF all

\* What follows the k-th item of a list, or no cursor, is the rest of it.
LEMMA FollowingIs ==
  ASSUME NEW list \in {"strategies", "invoices"}, NEW owner \in Accounts[list], NEW pin \in Blocks,
         NEW k \in 0 .. Len(Listed(list, owner, pin))
  PROVE  LET all == Listed(list, owner, pin)
         IN Following(list, owner, pin, IF k = 0 THEN None ELSE all[k].at) = SubSeq(all, k + 1, Len(all))
  <1> DEFINE all == Listed(list, owner, pin)
             after == IF k = 0 THEN None ELSE all[k].at
             skipped == {i \in DOMAIN all : after # None /\ ~Before(all[i].at, after)}
  <1>1. /\ Len(all) \in Nat /\ DOMAIN all = 1 .. Len(all)
        /\ \A i \in 1 .. Len(all) : all[i].at \in Nat \X Nat
        /\ \A i, j \in 1 .. Len(all) : i < j => Before(all[j].at, all[i].at)
    BY ListedIs
  <1>2. k \in 0 .. Len(all)
    OBVIOUS
  <1> HIDE DEF all
  <1>3. skipped = 1 .. k
    <2>1. CASE k = 0
      BY <2>1
    <2>2. CASE k # 0
      <3>1. k \in 1 .. Len(all) /\ after = all[k].at /\ after \in Nat \X Nat /\ after # None
        BY <1>1, <1>2, <2>2, ListingAssumption
      <3> HIDE DEF after
      <3>2. ASSUME NEW i \in 1 .. Len(all) PROVE ~Before(all[i].at, after) <=> i <= k
        <4>0. all[i].at \in Nat \X Nat
          BY <1>1
        <4>1. CASE i < k
          <5>1. Before(after, all[i].at)
            BY <1>1, <3>1, <4>1
          <5> QED BY <3>1, <4>0, <4>1, <5>1, BeforeOrders
        <4>2. CASE i = k
          BY <3>1, <4>2, BeforeOrders
        <4>3. CASE i > k
          <5>1. Before(all[i].at, after)
            BY <1>1, <3>1, <4>3
          <5> QED BY <3>1, <4>3, <5>1
        <4> QED BY <3>1, <4>1, <4>2, <4>3
      <3> QED BY <1>1, <3>1, <3>2
    <2> QED BY <2>1, <2>2
  <1>4. Cardinality(skipped) = k
    <2>1. Cardinality(1 .. k) = k
      BY <1>1, <1>2, FS_Interval
    <2> QED BY <1>3, <2>1
  <1> QED BY <1>4 DEF Following, Rest, all

\* The page that follows so many items, and the cursor after it.
LEMMA PageIs ==
  ASSUME NEW list \in {"strategies", "invoices"}, NEW owner \in Accounts[list], NEW pin \in Blocks,
         NEW k \in 0 .. Len(Listed(list, owner, pin)), NEW deployment
  PROVE  LET all == Listed(list, owner, pin)
             after == IF k = 0 THEN None ELSE all[k].at
             m == IF Len(all) - k > PageSize THEN k + PageSize ELSE Len(all)
         IN /\ Page(list, owner, pin, after) = SubSeq(all, k + 1, m)
            /\ NextCursor(list, owner, deployment, pin, after) =
                 IF Len(all) - k > PageSize THEN [deployment |-> deployment, pin |-> pin, after |-> all[m].at] ELSE None
  <1> DEFINE all == Listed(list, owner, pin)
             after == IF k = 0 THEN None ELSE all[k].at
             m == IF Len(all) - k > PageSize THEN k + PageSize ELSE Len(all)
             rest == SubSeq(all, k + 1, Len(all))
             size == IF Len(rest) < PageSize THEN Len(rest) ELSE PageSize
  <1>1. all \in Seq(All) /\ Len(all) \in Nat
    BY ListedIs
  <1>2. Following(list, owner, pin, after) = rest
    BY FollowingIs
  <1>3. k \in 0 .. Len(all) /\ PageSize \in Nat /\ PageSize > 0
    BY ListingAssumption
  <1> HIDE DEF all, after
  <1>4. \A i \in 1 .. Len(all) : all[i] \in All
    BY <1>1, ElementOfSeq
  <1>5. rest \in Seq(All) /\ Len(rest) = Len(all) - k
    <2>1. \A i \in k + 1 .. Len(all) : all[i] \in All
      BY <1>1, <1>3, <1>4
    <2>2. k + 1 \in Int /\ Len(all) \in Int
      BY <1>1, <1>3
    <2>3. rest \in Seq(All) /\ Len(rest) = IF k + 1 <= Len(all) THEN Len(all) - (k + 1) + 1 ELSE 0
      BY <2>1, <2>2, SubSeqProperties
    <2> QED BY <1>1, <1>3, <2>3
  <1>6. Page(list, owner, pin, after) = SubSeq(rest, 1, size)
    BY <1>2 DEF Page
  <1>7. size = m - k /\ m \in k .. Len(all)
    BY <1>1, <1>3, <1>5
  <1>8. SubSeq(rest, 1, size) = SubSeq(all, k + 1, m)
    <2>1. CASE m = k
      <3>1. SubSeq(all, k + 1, m) = <<>>
        BY <1>1, <1>3, <2>1, SubSeqEmpty
      <3>2. SubSeq(rest, 1, size) = <<>>
        BY <1>3, <1>7, <2>1, SubSeqEmpty
      <3> QED BY <3>1, <3>2
    <2>2. CASE m # k
      <3> HIDE DEF m, size
      <3>1. k + 1 \in 1 .. Len(all) /\ Len(all) \in 1 .. Len(all)
        BY <1>1, <1>3, <1>7, <2>2
      <3>2. 1 \in 1 .. Len(all) - (k + 1) + 1 /\ size \in 1 .. Len(all) - (k + 1) + 1
        BY <1>1, <1>3, <1>7, <2>2
      <3>3. SubSeq(rest, 1, size) = SubSeq(all, (k + 1) + 1 - 1, (k + 1) + size - 1)
        BY <1>1, <3>1, <3>2, SubSeqOfSubSeq
      <3>4. (k + 1) + 1 - 1 = k + 1 /\ (k + 1) + size - 1 = m
        BY <1>1, <1>3, <1>7
      <3> QED BY <3>3, <3>4
    <2> QED BY <2>1, <2>2
  <1>9. Page(list, owner, pin, after) = SubSeq(all, k + 1, m)
    BY <1>6, <1>8
  <1>10. ASSUME Len(all) - k > PageSize PROVE Last(Page(list, owner, pin, after)) = all[m]
    <2> HIDE DEF m
    <2>1. m = k + PageSize /\ m \in k + 1 .. Len(all)
      BY <1>1, <1>3, <1>10 DEF m
    <2>2. \A i \in k + 1 .. m : all[i] \in All
      BY <1>1, <1>3, <1>4, <2>1
    <2>3. k + 1 \in Int /\ m \in Int
      BY <1>1, <1>3, <2>1
    <2>4. /\ Len(SubSeq(all, k + 1, m)) = IF k + 1 <= m THEN m - (k + 1) + 1 ELSE 0
          /\ \A i \in 1 .. m - (k + 1) + 1 : SubSeq(all, k + 1, m)[i] = all[(k + 1) + i - 1]
      BY <2>2, <2>3, SubSeqProperties
    <2>5. Len(SubSeq(all, k + 1, m)) = m - k /\ m - k \in 1 .. m - (k + 1) + 1
      BY <1>1, <1>3, <2>1, <2>4
    <2>6. SubSeq(all, k + 1, m)[m - k] = all[(k + 1) + (m - k) - 1]
      BY <2>4, <2>5
    <2>7. (k + 1) + (m - k) - 1 = m
      BY <1>1, <1>3, <2>1
    <2> QED BY <1>9, <2>5, <2>6, <2>7 DEF Last
  <1>11. NextCursor(list, owner, deployment, pin, after) =
           IF Len(all) - k > PageSize THEN [deployment |-> deployment, pin |-> pin, after |-> all[m].at] ELSE None
    <2> HIDE DEF m
    <2> QED BY <1>2, <1>5, <1>10 DEF NextCursor
  <1> QED BY <1>9, <1>11 DEF all, after

-----------------------------------------------------------------------------
(* Pages: a walk through a list. *)

Cursors == [deployment : Deployments, pin : Blocks, after : Nat \X Nat]

\* What was shown before a page is the list up to the item its cursor names.
PrefixOK(owner, c, shown) ==
  IF c = None THEN shown = <<>>
  ELSE /\ c \in Cursors
       /\ LET all == Listed(route, owner, c.pin)
          IN \E k \in 1 .. Len(all) : shown = SubSeq(all, 1, k) /\ c.after = all[k].at

\* An answer holds the page that follows its cursor, at the cursor's pin.
PageOK(owner, c, reply) ==
  /\ reply.pin \in Blocks /\ reply.deployment \in Deployments
  /\ c # None => reply.pin = c.pin
  /\ LET after == IF c = None THEN None ELSE c.after
     IN /\ reply.items = Page(route, owner, reply.pin, after)
        /\ reply.next = NextCursor(route, owner, reply.deployment, reply.pin, after)

WalkOK ==
  /\ navigation.pages \in Seq(Cursors \cup {None}) /\ navigation.seen \in Seq(Seq(All))
  /\ Len(navigation.pages) = Len(navigation.seen) /\ Len(navigation.pages) > 0
  /\ \A i \in 1 .. Len(navigation.pages) : PrefixOK(navigation.scope, navigation.pages[i], navigation.seen[i])

WorldOK == served \in Deployments /\ tip \in Blocks /\ account \in Accounts[route] \cup {None}

\* Every page held, also one read before a failure, is the one of its key.
HeldOK == \A k \in DOMAIN cache : cache[k].data # None => PageOK(k[1], k[2], cache[k].data.reply)

\* The API's answer under way is the page that was asked for.
RequestedOK ==
  fetch # None =>
    /\ fetch.at \in {"manifest", "ask", "serve"}
    /\ fetch.at = "serve" => PageOK(account, Cursor, fetch.reply)

ListInv == route \in Lists => WorldOK /\ HeldOK /\ RequestedOK /\ WalkOK

\* A page carries the list on from where the pages before it have come.
LEMMA PageExtends ==
  ASSUME route \in Lists, NEW owner \in Accounts[route], NEW c, NEW shown, PrefixOK(owner, c, shown),
         NEW reply, PageOK(owner, c, reply)
  PROVE  LET all == Listed(route, owner, reply.pin)
         IN /\ all \in Seq(All) /\ Len(all) \in Nat
            /\ \E m \in 0 .. Len(all) :
                 /\ shown \o reply.items = SubSeq(all, 1, m)
                 /\ reply.next = None => m = Len(all)
                 /\ reply.next # None =>
                      /\ m > 0 /\ reply.next \in Cursors
                      /\ reply.next.pin = reply.pin /\ reply.next.after = all[m].at
  <1> DEFINE all == Listed(route, owner, reply.pin)
             after == IF c = None THEN None ELSE c.after
  <1>1. route \in {"strategies", "invoices"} /\ reply.pin \in Blocks /\ reply.deployment \in Deployments
    BY DEF Lists, PageOK
  <1>2. /\ all \in Seq(All) /\ Len(all) \in Nat
        /\ \A i \in 1 .. Len(all) : all[i].at \in Nat \X Nat
    BY <1>1, ListedIs
  <1>3. PICK k \in 0 .. Len(all) : shown = SubSeq(all, 1, k) /\ after = IF k = 0 THEN None ELSE all[k].at
    <2>1. CASE c = None
      <3>1. shown = <<>> /\ SubSeq(all, 1, 0) = <<>>
        BY <2>1, SubSeqEmpty DEF PrefixOK
      <3>2. 0 \in 0 .. Len(all)
        BY <1>2
      <3> QED BY <2>1, <3>1, <3>2
    <2>2. CASE c # None
      <3>1. reply.pin = c.pin
        BY <2>2 DEF PageOK
      <3>2. PICK k \in 1 .. Len(all) : shown = SubSeq(all, 1, k) /\ c.after = all[k].at
        BY <2>2, <3>1 DEF PrefixOK
      <3>3. k \in 0 .. Len(all) /\ k # 0
        BY <1>2
      <3> QED BY <2>2, <3>2, <3>3
    <2> QED BY <2>1, <2>2
  <1> DEFINE m == IF Len(all) - k > PageSize THEN k + PageSize ELSE Len(all)
             next == [deployment |-> reply.deployment, pin |-> reply.pin, after |-> all[m].at]
  <1>4. /\ Page(route, owner, reply.pin, after) = SubSeq(all, k + 1, m)
        /\ NextCursor(route, owner, reply.deployment, reply.pin, after) =
             IF Len(all) - k > PageSize THEN next ELSE None
    <2> DEFINE at == IF k = 0 THEN None ELSE all[k].at
    <2>1. /\ Page(route, owner, reply.pin, at) = SubSeq(all, k + 1, m)
          /\ NextCursor(route, owner, reply.deployment, reply.pin, at) =
               IF Len(all) - k > PageSize THEN next ELSE None
      <3>1. k \in 0 .. Len(Listed(route, owner, reply.pin))
        OBVIOUS
      <3> QED BY <1>1, <3>1, PageIs, Zenon
    <2>2. after = at
      BY <1>3
    <2> HIDE DEF at, after, all, m, next
    <2> QED BY <2>1, <2>2
  <1>5. reply.items = Page(route, owner, reply.pin, after)
        /\ reply.next = NextCursor(route, owner, reply.deployment, reply.pin, after)
    BY DEF PageOK
  <1>6. PageSize \in Nat /\ PageSize > 0
    BY ListingAssumption
  <1> HIDE DEF all, after
  <1>7. m \in k .. Len(all) /\ m \in 0 .. Len(all) /\ (Len(all) - k > PageSize => m > 0)
    BY <1>2, <1>3, <1>6
  <1>8. shown \o reply.items = SubSeq(all, 1, m)
    <2> HIDE DEF m
    <2>1. 1 \in 1 .. Len(all) + 1 /\ k \in 1 - 1 .. Len(all)
      BY <1>2, <1>3
    <2>2. SubSeq(all, 1, k) \o SubSeq(all, k + 1, m) = SubSeq(all, 1, m)
      BY <1>2, <1>7, <2>1, ConcatAdjacentSubSeq
    <2> QED BY <1>3, <1>4, <1>5, <2>2
  <1>9. ASSUME Len(all) - k > PageSize PROVE next \in Cursors /\ next # None
    <2>1. all[m].at \in Nat \X Nat
      <3>1. m \in 1 .. Len(all)
        BY <1>2, <1>7, <1>9
      <3> HIDE DEF m
      <3> QED BY <1>2, <3>1
    <2> HIDE DEF m
    <2>2. next \in Cursors
      BY <1>1, <2>1 DEF Cursors
    <2> HIDE DEF next
    <2> QED BY <2>2, PagesAssumption DEF Cursors
  <1>10. next.pin = reply.pin /\ next.after = all[m].at
    OBVIOUS
  <1>11. reply.next = IF Len(all) - k > PageSize THEN next ELSE None
    BY <1>4, <1>5
  <1>12. reply.next = None => m = Len(all)
    BY <1>9, <1>11
  <1> HIDE DEF next
  <1>13. reply.next # None => /\ m > 0 /\ reply.next \in Cursors
                              /\ reply.next.pin = reply.pin /\ reply.next.after = all[m].at
    <2> HIDE DEF m
    <2> QED BY <1>7, <1>9, <1>10, <1>11
  <1> HIDE DEF m
  <1> QED BY <1>2, <1>7, <1>8, <1>12, <1>13 DEF all

-----------------------------------------------------------------------------
(* Lists: what stays of the answers, the request and the walk. *)

walk == <<route, account, navigation>>

LEMMA SameCursor ==
  ASSUME UNCHANGED walk
  PROVE  Cursor' = Cursor /\ (route \in Lists => Key' = Key)
  <1>1. Cursor' = Cursor
    BY DEF walk, Cursor, Nav
  <1>2. ASSUME route \in Lists PROVE Key' = Key
    BY <1>2 DEF walk, Key, KeyOf, Quotes, Lists
  <1> QED BY <1>1, <1>2

LEMMA ListKey ==
  ASSUME route \in Lists
  PROVE  Key = <<account, Cursor>> /\ Asked.account = account /\ Asked.cursor = Cursor
  BY DEF Key, KeyOf, Quotes, Lists, Cursor, Nav, Asked

LEMMA SamePages ==
  ASSUME route' = route
  PROVE  /\ \A owner, c, reply : PageOK(owner, c, reply)' <=> PageOK(owner, c, reply)
         /\ \A owner, c, shown : PrefixOK(owner, c, shown)' <=> PrefixOK(owner, c, shown)
  BY DEF PageOK, PrefixOK

LEMMA SameWalk ==
  ASSUME WalkOK, route' = route, navigation' = navigation
  PROVE  WalkOK'
  BY SamePages DEF WalkOK

\* What is held when nothing was added.
LEMMA HeldStays ==
  ASSUME HeldOK, route' = route, DOMAIN cache' \subseteq DOMAIN cache, \A k \in DOMAIN cache' : cache'[k] = cache[k]
  PROVE  HeldOK'
  <1>1. \A owner, c, reply : PageOK(owner, c, reply)' <=> PageOK(owner, c, reply)
    BY SamePages
  <1> QED BY <1>1 DEF HeldOK

LEMMA HeldWith ==
  ASSUME HeldOK, route \in Lists, UNCHANGED walk,
         NEW e, e.data # None => PageOK(account, Cursor, e.data.reply), cache' = With(e)
  PROVE  HeldOK'
  <1>1. Key = <<account, Cursor>> /\ route' = route
    BY ListKey DEF walk
  <1>2. \A owner, c, reply : PageOK(owner, c, reply)' <=> PageOK(owner, c, reply)
    BY <1>1, SamePages
  <1>3. Key' = Key
    BY SameCursor
  <1>4. cache'[Key] = e /\ \A k \in DOMAIN cache' \ {Key} : k \in DOMAIN cache /\ cache'[k] = cache[k]
    BY DEF With
  <1>5. Key[1] = account /\ Key[2] = Cursor
    BY <1>1
  <1> SUFFICES ASSUME NEW k \in DOMAIN cache', cache'[k].data # None PROVE PageOK(k[1], k[2], cache'[k].data.reply)
    BY <1>2 DEF HeldOK
  <1>6. CASE k = Key
    BY <1>4, <1>5, <1>6
  <1>7. CASE k # Key
    BY <1>4, <1>7 DEF HeldOK
  <1> QED BY <1>6, <1>7

LEMMA RequestedStays ==
  ASSUME RequestedOK, UNCHANGED walk, fetch' = fetch
  PROVE  RequestedOK'
  <1>1. Cursor' = Cursor /\ route' = route /\ account' = account
    BY SameCursor DEF walk
  <1>2. \A owner, c, reply : PageOK(owner, c, reply)' <=> PageOK(owner, c, reply)
    BY <1>1, SamePages
  <1> QED BY <1>1, <1>2 DEF RequestedOK

\* The page on the screen, if there is one.
LEMMA EntryPaged ==
  ASSUME HeldOK, route \in Lists
  PROVE  Entry.data # None => PageOK(account, Cursor, Entry.data.reply)
  <1>1. Key[1] = account /\ Key[2] = Cursor
    BY ListKey
  <1>2. CASE Key \in DOMAIN cache
    BY <1>1, <1>2 DEF HeldOK, Entry
  <1>3. CASE Key \notin DOMAIN cache
    BY <1>3 DEF Entry, Nothing
  <1> QED BY <1>2, <1>3

\* The cursors of the present account, and what was shown before them.
LEMMA NavOK ==
  ASSUME WalkOK
  PROVE  /\ Nav.pages \in Seq(Cursors \cup {None}) /\ Nav.seen \in Seq(Seq(All))
         /\ Len(Nav.pages) = Len(Nav.seen) /\ Len(Nav.pages) \in Nat \ {0}
         /\ \A i \in 1 .. Len(Nav.pages) : PrefixOK(account, Nav.pages[i], Nav.seen[i])
         /\ Cursor \in Cursors \cup {None} /\ PrefixOK(account, Cursor, Last(Nav.seen))
  <1>1. /\ Nav.pages \in Seq(Cursors \cup {None}) /\ Nav.seen \in Seq(Seq(All))
        /\ Len(Nav.pages) = Len(Nav.seen) /\ Len(Nav.pages) > 0
        /\ \A i \in 1 .. Len(Nav.pages) : PrefixOK(account, Nav.pages[i], Nav.seen[i])
    <2>1. CASE navigation.scope = account
      BY <2>1 DEF WalkOK, Nav, Walk
    <2>2. CASE navigation.scope # account
      <3>1. Nav.pages = <<None>> /\ Nav.seen = << <<>> >>
        BY <2>2 DEF Nav, Walk, FirstPage
      <3>2. <<>> \in Seq(All)
        BY EmptySeq
      <3>3. <<None>> \in Seq(Cursors \cup {None}) /\ << <<>> >> \in Seq(Seq(All))
        BY <3>2
      <3>4. PrefixOK(account, None, <<>>)
        BY DEF PrefixOK
      <3> QED BY <3>1, <3>3, <3>4
    <2> QED BY <2>1, <2>2
  <1> DEFINE pages == Nav.pages
             seen == Nav.seen
  <1>2. Len(pages) \in Nat /\ Len(pages) > 0
    BY <1>1, LenProperties
  <1>3. Len(pages) \in 1 .. Len(pages)
    BY <1>2
  <1>4. pages[Len(pages)] \in Cursors \cup {None}
    <2> HIDE DEF pages
    <2> QED BY <1>1, <1>3, ElementOfSeq DEF pages
  <1>5. PrefixOK(account, pages[Len(pages)], seen[Len(seen)])
    BY <1>1, <1>3
  <1> QED BY <1>1, <1>2, <1>4, <1>5 DEF Cursor, Last

-----------------------------------------------------------------------------
(* Lists: initially, and the world. *)

LEMMA ListInit == Init => ListInv
  <1> SUFFICES ASSUME Init, route \in Lists PROVE WorldOK /\ HeldOK /\ RequestedOK /\ WalkOK
    BY DEF ListInv
  <1>1. WorldOK
    BY DEF Init, WorldOK
  <1>2. HeldOK /\ RequestedOK
    BY DEF Init, HeldOK, RequestedOK, Empty
  <1>3. WalkOK
    <2>1. navigation.pages = <<None>> /\ navigation.seen = << <<>> >> /\ navigation.scope = None
      BY DEF Init, FirstPage
    <2>2. <<>> \in Seq(All)
      BY EmptySeq
    <2>3. <<None>> \in Seq(Cursors \cup {None}) /\ << <<>> >> \in Seq(Seq(All))
      BY <2>2
    <2>4. PrefixOK(None, None, <<>>)
      BY DEF PrefixOK
    <2> QED BY <2>1, <2>3, <2>4 DEF WalkOK
  <1> QED BY <1>1, <1>2, <1>3

\* Steps that leave the walk alone.
LEMMA ListSteps ==
  ASSUME ListInv, UNCHANGED walk, route \in Lists => served' \in Deployments /\ tip' \in Blocks /\ HeldOK' /\ RequestedOK'
  PROVE  ListInv'
  <1>1. route' = route /\ account' = account /\ navigation' = navigation
    BY DEF walk
  <1> SUFFICES ASSUME route \in Lists PROVE WorldOK' /\ HeldOK' /\ RequestedOK' /\ WalkOK'
    BY <1>1 DEF ListInv
  <1>2. WorldOK'
    BY <1>1 DEF ListInv, WorldOK
  <1>3. WalkOK'
    BY <1>1, SameWalk DEF ListInv
  <1> QED BY <1>2, <1>3

LEMMA ListAside ==
  ASSUME ListInv, UNCHANGED walk, route \in Lists => served' \in Deployments /\ tip' \in Blocks /\ UNCHANGED <<cache, fetch>>
  PROVE  ListInv'
  <1>1. ASSUME route \in Lists PROVE HeldOK' /\ RequestedOK'
    <2>1. route' = route /\ cache' = cache /\ fetch' = fetch
      BY <1>1 DEF walk
    <2> QED BY <1>1, <2>1, HeldStays, RequestedStays DEF ListInv
  <1> QED BY <1>1, ListSteps

LEMMA ListWith ==
  ASSUME ListInv, route \in Lists, UNCHANGED walk, UNCHANGED <<served, tip>>, fetch' = None,
         NEW e, e.data # None => PageOK(account, Cursor, e.data.reply), cache' = With(e)
  PROVE  ListInv'
  <1>1. HeldOK'
    BY HeldWith DEF ListInv
  <1>2. RequestedOK'
    BY DEF RequestedOK
  <1> QED BY <1>1, <1>2, ListSteps DEF ListInv, WorldOK

\* Steps that drop the answers and the request.
LEMMA ListDropped ==
  ASSUME ListInv, UNCHANGED <<route, navigation, served, tip>>, account' \in Accounts[route] \cup {None},
         cache' = Empty, fetch' = None
  PROVE  ListInv'
  <1> SUFFICES ASSUME route \in Lists PROVE WorldOK' /\ HeldOK' /\ RequestedOK' /\ WalkOK'
    BY DEF ListInv
  <1>1. WorldOK'
    BY DEF ListInv, WorldOK
  <1>2. HeldOK' /\ RequestedOK'
    BY DEF HeldOK, RequestedOK, Empty
  <1>3. WalkOK'
    BY SameWalk DEF ListInv
  <1> QED BY <1>1, <1>2, <1>3

LEMMA WorldLists ==
  ASSUME ListInv, World
  PROVE  ListInv'
  <1> USE DEF page, reading, walk
  <1>1. ASSUME NEW d \in Deployments, Rotate(d) PROVE ListInv'
    BY <1>1, ListAside DEF Rotate, ListInv, WorldOK
  <1>2. ASSUME NEW b \in Blocks, Index(b) PROVE ListInv'
    BY <1>2, ListAside DEF Index, ListInv, WorldOK
  <1> QED BY <1>1, <1>2 DEF World

-----------------------------------------------------------------------------
(* Walking. *)

LEMMA WalkedLists ==
  ASSUME ListInv, route \in Lists,
         NEW pages \in Seq(Cursors \cup {None}), NEW seen \in Seq(Seq(All)), NEW keys, Walked(pages, seen, keys),
         Len(pages) = Len(seen), Len(pages) > 0,
         \A i \in 1 .. Len(pages) : PrefixOK(account, pages[i], seen[i])
  PROVE  ListInv'
  <1>1. UNCHANGED <<route, served, tip, account>> /\ fetch' = None
    BY DEF Walked
  <1>2. navigation'.scope = account /\ navigation'.pages = pages /\ navigation'.seen = seen
    BY DEF Walked
  <1>3. DOMAIN cache' \subseteq DOMAIN cache /\ \A k \in DOMAIN cache' : cache'[k] = cache[k]
    BY DEF Walked
  <1>4. HeldOK'
    BY <1>1, <1>3, HeldStays DEF ListInv
  <1>5. WorldOK' /\ RequestedOK'
    BY <1>1 DEF ListInv, WorldOK, RequestedOK
  <1>6. \A owner, c, shown : PrefixOK(owner, c, shown)' <=> PrefixOK(owner, c, shown)
    BY <1>1, SamePages
  <1>7. WalkOK'
    BY <1>2, <1>6 DEF WalkOK
  <1> QED BY <1>4, <1>5, <1>7 DEF ListInv

LEMMA NextLists ==
  ASSUME ListInv, ListNext
  PROVE  ListInv'
  <1> DEFINE reply == Entry.data.reply
             last == Last(Nav.seen)
             pages == Append(Nav.pages, reply.next)
             seen == Append(Nav.seen, last \o reply.items)
             all == Listed(route, account, reply.pin)
  <1>1. route \in Lists /\ account # None /\ Entry.data # None /\ reply.next # None /\ Walked(pages, seen, Keys(pages))
    BY DEF ListNext
  <1>2. WalkOK /\ HeldOK /\ account \in Accounts[route]
    BY <1>1 DEF ListInv, WorldOK
  <1>3. PageOK(account, Cursor, reply)
    BY <1>1, <1>2, EntryPaged
  <1>4. /\ Nav.pages \in Seq(Cursors \cup {None}) /\ Nav.seen \in Seq(Seq(All))
        /\ Len(Nav.pages) = Len(Nav.seen) /\ Len(Nav.pages) \in Nat
        /\ \A i \in 1 .. Len(Nav.pages) : PrefixOK(account, Nav.pages[i], Nav.seen[i])
        /\ PrefixOK(account, Cursor, last)
    BY <1>2, NavOK
  <1> HIDE DEF reply, last
  <1>5. /\ all \in Seq(All) /\ Len(all) \in Nat
        /\ \E m \in 0 .. Len(all) :
             /\ last \o reply.items = SubSeq(all, 1, m)
             /\ reply.next # None =>
                  /\ m > 0 /\ reply.next \in Cursors
                  /\ reply.next.pin = reply.pin /\ reply.next.after = all[m].at
    BY <1>1, <1>2, <1>3, <1>4, PageExtends
  <1>6. PICK m \in 0 .. Len(all) :
          /\ last \o reply.items = SubSeq(all, 1, m)
          /\ m > 0 /\ reply.next \in Cursors
          /\ reply.next.pin = reply.pin /\ reply.next.after = all[m].at
    BY <1>1, <1>5
  <1>7. PrefixOK(account, reply.next, last \o reply.items)
    <2>1. m \in 1 .. Len(all)
      BY <1>5, <1>6
    <2> QED BY <1>1, <1>6, <2>1 DEF PrefixOK
  <1>8. last \o reply.items \in Seq(All)
    <2>1. m \in Int /\ 1 \in Int /\ \A i \in 1 .. m : all[i] \in All
      <3> HIDE DEF all
      <3>1. \A i \in 1 .. Len(all) : all[i] \in All
        BY <1>5, ElementOfSeq
      <3> QED BY <1>5, <3>1
    <2> HIDE DEF all
    <2>2. SubSeq(all, 1, m) \in Seq(All)
      BY <2>1, SubSeqProperties
    <2> QED BY <1>6, <2>2
  <1> DEFINE p == Nav.pages
             s == Nav.seen
             x == last \o reply.items
             n == Len(p)
  <1>9. /\ p \in Seq(Cursors \cup {None}) /\ s \in Seq(Seq(All)) /\ Len(s) = n /\ n \in Nat
        /\ \A i \in 1 .. n : PrefixOK(account, p[i], s[i])
        /\ reply.next \in Cursors \cup {None} /\ x \in Seq(All) /\ PrefixOK(account, reply.next, x)
        /\ pages = Append(p, reply.next) /\ seen = Append(s, x)
    BY <1>4, <1>6, <1>7, <1>8
  <1> HIDE DEF p, s, x, pages, seen
  <1>10. /\ pages \in Seq(Cursors \cup {None}) /\ Len(pages) = n + 1
         /\ \A i \in 1 .. n : pages[i] = p[i]
         /\ pages[n + 1] = reply.next
    BY <1>9, AppendProperties
  <1>11. /\ seen \in Seq(Seq(All)) /\ Len(seen) = n + 1
         /\ \A i \in 1 .. n : seen[i] = s[i]
         /\ seen[n + 1] = x
    BY <1>9, AppendProperties
  <1> HIDE DEF n
  <1>12. ASSUME NEW i \in 1 .. Len(pages) PROVE PrefixOK(account, pages[i], seen[i])
    <2>1. i \in 1 .. n \/ i = n + 1
      BY <1>9, <1>10
    <2> QED BY <1>9, <1>10, <1>11, <2>1
  <1>13. Len(pages) = Len(seen) /\ Len(pages) > 0
    BY <1>9, <1>10, <1>11
  <1> QED BY <1>1, <1>10, <1>11, <1>12, <1>13, WalkedLists

LEMMA PreviousLists ==
  ASSUME ListInv, ListPrevious
  PROVE  ListInv'
  <1> DEFINE p == Nav.pages
             s == Nav.seen
             n == Len(p)
             pages == Front(p)
             seen == Front(s)
  <1>1. route \in Lists /\ Walked(pages, seen, Keys(p)) /\ n > 1
    BY DEF ListPrevious
  <1>2. /\ p \in Seq(Cursors \cup {None}) /\ s \in Seq(Seq(All)) /\ Len(s) = n /\ n \in Nat
        /\ \A i \in 1 .. n : PrefixOK(account, p[i], s[i])
    BY <1>1, NavOK DEF ListInv
  <1>3. pages = SubSeq(p, 1, n - 1) /\ seen = SubSeq(s, 1, n - 1)
    BY <1>2 DEF Front
  <1> HIDE DEF p, s, n, pages, seen
  <1>4. 1 \in Int /\ n - 1 \in Int /\ n - 1 > 0
    BY <1>1, <1>2
  <1>5. /\ pages \in Seq(Cursors \cup {None}) /\ Len(pages) = n - 1
        /\ \A i \in 1 .. n - 1 : pages[i] = p[i]
    <2>1. \A i \in 1 .. n : p[i] \in Cursors \cup {None}
      BY <1>2, ElementOfSeq DEF n
    <2>2. \A i \in 1 .. n - 1 : p[i] \in Cursors \cup {None}
      BY <1>2, <2>1
    <2>3. /\ SubSeq(p, 1, n - 1) \in Seq(Cursors \cup {None})
          /\ Len(SubSeq(p, 1, n - 1)) = IF 1 <= n - 1 THEN n - 1 - 1 + 1 ELSE 0
          /\ \A i \in 1 .. n - 1 - 1 + 1 : SubSeq(p, 1, n - 1)[i] = p[1 + i - 1]
      BY <1>4, <2>2, SubSeqProperties
    <2> QED BY <1>2, <1>3, <1>4, <2>3
  <1>6. /\ seen \in Seq(Seq(All)) /\ Len(seen) = n - 1
        /\ \A i \in 1 .. n - 1 : seen[i] = s[i]
    <2>1. \A i \in 1 .. n : s[i] \in Seq(All)
      BY <1>2, ElementOfSeq
    <2>2. \A i \in 1 .. n - 1 : s[i] \in Seq(All)
      BY <1>2, <2>1
    <2>3. /\ SubSeq(s, 1, n - 1) \in Seq(Seq(All))
          /\ Len(SubSeq(s, 1, n - 1)) = IF 1 <= n - 1 THEN n - 1 - 1 + 1 ELSE 0
          /\ \A i \in 1 .. n - 1 - 1 + 1 : SubSeq(s, 1, n - 1)[i] = s[1 + i - 1]
      BY <1>4, <2>2, SubSeqProperties
    <2> QED BY <1>2, <1>3, <1>4, <2>3
  <1>7. ASSUME NEW i \in 1 .. Len(pages) PROVE PrefixOK(account, pages[i], seen[i])
    <2>1. i \in 1 .. n - 1 /\ i \in 1 .. n
      BY <1>2, <1>5
    <2> QED BY <1>2, <1>5, <1>6, <2>1
  <1>8. Len(pages) = Len(seen) /\ Len(pages) > 0
    BY <1>4, <1>5, <1>6
  <1> QED BY <1>1, <1>5, <1>6, <1>7, <1>8, WalkedLists

LEMMA RestartLists ==
  ASSUME ListInv, Restart
  PROVE  ListInv'
  <1> DEFINE pages == <<None>>
             seen == << <<>> >>
  <1>1. route \in Lists /\ Walked(pages, seen, {})
    BY DEF Restart
  <1>2. <<>> \in Seq(All)
    BY EmptySeq
  <1>3. pages \in Seq(Cursors \cup {None}) /\ seen \in Seq(Seq(All)) /\ Len(pages) = Len(seen) /\ Len(pages) > 0
    BY <1>2
  <1>4. PrefixOK(account, None, <<>>)
    BY DEF PrefixOK
  <1>5. \A i \in 1 .. Len(pages) : PrefixOK(account, pages[i], seen[i])
    BY <1>4
  <1> HIDE DEF pages, seen
  <1> QED BY <1>1, <1>3, <1>5, WalkedLists

-----------------------------------------------------------------------------
(* Lists: the user, timers and time. *)

LEMMA RecontextLists ==
  ASSUME ListInv, NEW a \in Accounts[route] \cup {None}, NEW f, NEW d, Recontext(a, f, d),
         UNCHANGED <<route, navigation, served, tip>>
  PROVE  ListInv'
  <1>1. CASE KeyOf(a, f, d, navigation) = Key
    <2>1. account' = a /\ cache' = cache /\ fetch' = fetch
      BY <1>1 DEF Recontext, reading
    <2>2. ASSUME route \in Lists PROVE a = account
      <3>1. KeyOf(a, f, d, navigation)[1] = a
        BY <2>2 DEF KeyOf, Quotes, Lists
      <3>2. Key[1] = account
        BY <2>2, ListKey
      <3> QED BY <1>1, <3>1, <3>2
    <2>3. CASE route \in Lists
      <3>1. UNCHANGED walk
        BY <2>1, <2>2, <2>3 DEF walk
      <3> QED BY <2>1, <2>3, <3>1, ListAside DEF ListInv, WorldOK
    <2>4. CASE route \notin Lists
      BY <2>4 DEF ListInv
    <2> QED BY <2>3, <2>4
  <1>2. CASE KeyOf(a, f, d, navigation) # Key
    <2>1. account' = a /\ cache' = Empty /\ fetch' = None
      BY <1>2 DEF Recontext
    <2> QED BY <2>1, ListDropped
  <1> QED BY <1>1, <1>2

\* No page of the lists is looked at by these steps.
LEMMA OtherPages ==
  ASSUME route \notin Lists, route' = route
  PROVE  ListInv'
  BY DEF ListInv

LEMMA UserLists ==
  ASSUME ListInv, User
  PROVE  ListInv'
  <1> USE DEF page, reading, walk
  <1>1. ASSUME NEW a \in Accounts[route] \cup {None}, Connect(a) PROVE ListInv'
    BY <1>1, RecontextLists DEF Connect
  <1>2. ASSUME NEW f \in Typed, Type(f) PROVE ListInv'
    BY <1>2, OtherPages DEF Type, Quotes, Lists
  <1>3. ASSUME LearnDeployment PROVE ListInv'
    BY <1>3, OtherPages DEF LearnDeployment, Quotes, Lists
  <1>4. ASSUME Hide PROVE ListInv'
    BY <1>4, ListAside DEF Hide, ListInv, WorldOK
  <1>5. ASSUME Show PROVE ListInv'
    <2>1. route \in Lists => ~Lapsed(Entry)
      BY DEF Lapsed, Lists, Expires
    <2> QED BY <1>5, <2>1, ListAside DEF Show, ListInv, WorldOK
  <1>6. ASSUME Click PROVE ListInv'
    BY <1>6, OtherPages DEF Click, Lists
  <1>7. ASSUME NEW open \in BOOLEAN, Review(open) PROVE ListInv'
    BY <1>7, OtherPages DEF Review, Quotes, Lists
  <1>8. ASSUME ListNext PROVE ListInv'
    BY <1>8, NextLists
  <1>9. ASSUME ListPrevious PROVE ListInv'
    BY <1>9, PreviousLists
  <1>10. ASSUME Restart PROVE ListInv'
    BY <1>10, RestartLists
  <1> QED BY <1>1, <1>2, <1>3, <1>4, <1>5, <1>6, <1>7, <1>8, <1>9, <1>10 DEF User

LEMMA StartedLists ==
  ASSUME ListInv, UNCHANGED walk, UNCHANGED <<served, tip, cache>>, fetch' = Started
  PROVE  ListInv'
  <1>1. ASSUME route \in Lists PROVE HeldOK' /\ RequestedOK'
    <2>1. HeldOK'
      BY <1>1, HeldStays DEF ListInv, walk
    <2>2. fetch'.at = "manifest"
      BY DEF Started
    <2> QED BY <2>1, <2>2 DEF RequestedOK
  <1> QED BY <1>1, ListSteps DEF ListInv, WorldOK

LEMMA TimerLists ==
  ASSUME ListInv, Timer
  PROVE  ListInv'
  <1> USE DEF page, reading, walk
  <1>1. ASSUME IntentTimer PROVE ListInv'
    BY <1>1, OtherPages DEF IntentTimer, IntentDue, Lists
  <1>2. ASSUME RefreshTimer PROVE ListInv'
    BY <1>2, StartedLists DEF RefreshTimer
  <1>3. ASSUME ExpiryTimer PROVE ListInv'
    BY <1>3, OtherPages DEF ExpiryTimer, Lapsed, Lists, Expires
  <1> QED BY <1>1, <1>2, <1>3 DEF Timer

LEMMA BeginLists ==
  ASSUME ListInv, BeginFetch
  PROVE  ListInv'
  BY StartedLists DEF BeginFetch, page, walk

\* Time takes nothing from a page of a list.
LEMMA TickLists ==
  ASSUME PagesInv, ListInv, Tick
  PROVE  ListInv'
  <1>1. UNCHANGED walk /\ UNCHANGED <<served, tip>>
    BY DEF Tick, page, walk
  <1>2. ASSUME route \in Lists PROVE HeldOK' /\ RequestedOK'
    <2>1. fetch' = fetch
      BY <1>2 DEF Tick, ListInv, RequestedOK
    <2>2. RequestedOK'
      BY <1>1, <1>2, <2>1, RequestedStays DEF ListInv
    <2>3. CASE Key \in DOMAIN cache
      <3> DEFINE e == Older(Entry, 1)
      <3>1. EntryOK(Key, Entry) /\ route \notin Expires
        BY <1>2, EntryIsOK DEF PagesInv, Lists, Expires
      <3>2. e.data = Entry.data
        BY <3>1, OlderIsOK
      <3>3. cache' = With(e)
        BY <2>3 DEF Tick
      <3> HIDE DEF e
      <3>4. e.data # None => PageOK(account, Cursor, e.data.reply)
        BY <1>2, <3>2, EntryPaged DEF ListInv
      <3>5. HeldOK'
        BY <1>1, <1>2, <3>3, <3>4, HeldWith DEF ListInv
      <3> QED BY <2>2, <3>5
    <2>4. CASE Key \notin DOMAIN cache
      <3>1. cache' = cache
        BY <2>4 DEF Tick
      <3>2. HeldOK'
        BY <1>1, <1>2, <3>1, HeldStays DEF ListInv, walk
      <3> QED BY <2>2, <3>2
    <2> QED BY <2>3, <2>4
  <1> QED BY <1>1, <1>2, ListSteps DEF ListInv, WorldOK

-----------------------------------------------------------------------------
(* A request for a page. *)

LEMMA FailureLists ==
  ASSUME PagesInv, ListInv, route \in Lists, UNCHANGED walk, UNCHANGED <<served, tip>>, Failure
  PROVE  ListInv'
  <1> DEFINE f == [Entry EXCEPT !.failed = TRUE, !.age = 0]
  <1>1. f.data = Entry.data
    BY EntryIsOK, FailedIsOK DEF PagesInv
  <1>2. cache' = With(f) /\ fetch' = None
    BY DEF Failure
  <1> HIDE DEF f
  <1>3. f.data # None => PageOK(account, Cursor, f.data.reply)
    BY <1>1, EntryPaged DEF ListInv
  <1> QED BY <1>2, <1>3, ListWith

LEMMA LostLists ==
  ASSUME PagesInv, ListInv, route \in Lists, UNCHANGED walk, UNCHANGED <<served, tip>>, Lost
  PROVE  ListInv'
  <1>1. PICK units \in {0, 6} : cache' = With([Older(Entry, units) EXCEPT !.failed = TRUE, !.age = 0])
    BY DEF Lost
  <1> DEFINE e == Older(Entry, units)
             f == [e EXCEPT !.failed = TRUE, !.age = 0]
  <1>2. EntryOK(Key, Entry) /\ route \notin Expires
    BY EntryIsOK DEF PagesInv, Lists, Expires
  <1>3. EntryOK(Key, e) /\ e.data = Entry.data
    BY <1>2, OlderIsOK
  <1>4. cache' = With(f) /\ fetch' = None
    BY <1>1 DEF Lost
  <1> HIDE DEF e
  <1>5. f.data = e.data
    BY <1>3, FailedIsOK
  <1> HIDE DEF f
  <1>6. f.data # None => PageOK(account, Cursor, f.data.reply)
    BY <1>3, <1>5, EntryPaged DEF ListInv
  <1> QED BY <1>4, <1>6, ListWith

\* The API reads the page its cursor asks for, at the cursor's block or, for
\* the first page, at the one the read models are at.
LEMMA ServeLists ==
  ASSUME PagesInv, ListInv, route \in Lists, UNCHANGED walk, UNCHANGED <<served, tip>>, fetch # None, Serve
  PROVE  ListInv'
  <1> DEFINE at == Cursor
             pin == IF at = None THEN tip ELSE at.pin
             after == IF at = None THEN None ELSE at.after
             reply == [deployment |-> served, pin |-> pin, left |-> 1,
                       items |-> Page(route, account, pin, after),
                       next |-> NextCursor(route, account, served, pin, after)]
  <1>1. ServePage
    BY DEF Serve, ServeQuote, ServeDetail, Quotes, Lists
  <1>2. fetch.asked.account = account /\ fetch.asked.cursor = at
    BY FetchShape, ListKey DEF PagesInv
  <1>3. Serving(reply) \/ Failure
    BY <1>1, <1>2 DEF ServePage
  <1>4. CASE Serving(reply)
    <2>1. served \in Deployments /\ tip \in Blocks /\ at \in Cursors \cup {None}
      BY NavOK DEF ListInv, WorldOK
    <2>2. pin \in Blocks
      BY <2>1 DEF Cursors
    <2>3. reply.pin = pin /\ reply.deployment = served /\ reply.items = Page(route, account, pin, after)
          /\ reply.next = NextCursor(route, account, served, pin, after)
      OBVIOUS
    <2>4. at # None => pin = at.pin
      OBVIOUS
    <2>5. PageOK(account, at, reply)
      <3> HIDE DEF reply, pin, at
      <3> QED BY <2>1, <2>2, <2>3, <2>4 DEF PageOK
    <2> HIDE DEF reply
    <2>6. fetch' = [asked |-> fetch.asked, at |-> "serve", manifest |-> fetch.manifest, api |-> served,
                    reply |-> reply, attempt |-> fetch.attempt] /\ cache' = cache
      BY <1>4, FetchShape, AtApiAndReply DEF PagesInv, Serving
    <2>7. HeldOK'
      BY <2>6, HeldStays DEF ListInv, walk
    <2>8. fetch'.at = "serve" /\ fetch'.reply = reply
      BY <2>6
    <2>9. Cursor' = Cursor /\ account' = account /\ route' = route
      BY SameCursor DEF walk
    <2>10. RequestedOK'
      <3>1. \A o, c, r : PageOK(o, c, r)' <=> PageOK(o, c, r)
        BY <2>9, SamePages
      <3> QED BY <2>5, <2>8, <2>9, <3>1 DEF RequestedOK
    <2> QED BY <2>1, <2>7, <2>10, ListSteps
  <1>5. CASE Failure
    BY <1>5, FailureLists
  <1> QED BY <1>3, <1>4, <1>5

LEMMA AnswerLists ==
  ASSUME PagesInv, ListInv, route \in Lists, UNCHANGED walk, UNCHANGED <<served, tip>>, fetch # None, Answer
  PROVE  ListInv'
  <1>1. fetch.at = "serve" /\ AnswerPage
    BY DEF Answer, AnswerSwap, AnswerPayment, AnswerDetail, Lists
  <1>2. PageOK(account, Cursor, fetch.reply)
    BY <1>1 DEF ListInv, RequestedOK
  <1>3. CASE Success(fetch.reply) /\ Decoded(fetch.reply)
    <2> DEFINE d == [asked |-> fetch.asked, manifest |-> fetch.manifest, reply |-> fetch.reply, left |-> fetch.reply.left]
               expired == route \in Expires /\ fetch.reply.left = 0
               f == [data |-> d, failed |-> FALSE, age |-> 0, expired |-> expired]
    <2>1. d.reply = fetch.reply
      OBVIOUS
    <2>2. cache' = With(f) /\ fetch' = None
      <3>1. [Nothing EXCEPT !.data = d, !.expired = expired] = f
        <4> HIDE DEF d
        <4> QED BY NothingAnswered
      <3> QED BY <1>3, <3>1 DEF Success
    <2> HIDE DEF d
    <2>3. f.data = d
      OBVIOUS
    <2> HIDE DEF f
    <2> QED BY <1>2, <2>1, <2>2, <2>3, ListWith
  <1>4. CASE Failure
    BY <1>4, FailureLists
  <1> QED BY <1>1, <1>3, <1>4 DEF AnswerPage, Success

LEMMA FetchLists ==
  ASSUME PagesInv, ListInv, FetchStep
  PROVE  ListInv'
  <1>1. UNCHANGED walk /\ UNCHANGED <<served, tip>> /\ fetch # None /\ route' = route
    BY DEF FetchStep, page, walk
  <1>2. CASE route \notin Lists
    BY <1>1, <1>2, OtherPages
  <1>3. CASE route \in Lists
    <2>1. ReadManifest \/ Serve \/ Answer \/ Lost
      <3>1. fetch.at \in {"manifest", "ask", "serve"}
        BY <1>1, <1>3 DEF ListInv, RequestedOK
      <3> QED BY <1>3, <3>1 DEF FetchStep, ReadBalance, Retry, Recheck, Quotes, Lists
    <2>2. ASSUME ReadManifest PROVE ListInv'
      <3>1. fetch' = [fetch EXCEPT !.at = "ask", !.manifest = served] /\ cache' = cache
        BY <1>3, <2>2 DEF ReadManifest, Lists
      <3>2. fetch'.at = "ask"
        BY <1>1, <3>1, FetchShape, AtAndManifest DEF PagesInv
      <3>3. HeldOK' /\ RequestedOK'
        BY <1>1, <1>3, <3>1, <3>2, HeldStays DEF RequestedOK, ListInv
      <3> QED BY <1>1, <1>3, <3>3, ListSteps DEF ListInv, WorldOK
    <2> QED BY <1>1, <1>3, <2>1, <2>2, ServeLists, AnswerLists, LostLists
  <1> QED BY <1>2, <1>3

LEMMA MaximumLists ==
  ASSUME ListInv, Maximum
  PROVE  ListInv'
  <1> USE DEF page, reading, walk
  <1>1. route' = route /\ navigation' = navigation /\ served' = served /\ tip' = tip /\ account' = account
    BY DEF Maximum, MaxStart, MaxBalance, MaxEstimate, MaxDecide, MaxFails, SetAmount
  <1>2. UNCHANGED <<cache, fetch>> \/ (cache' = Empty /\ fetch' = None)
    BY DEF Maximum, MaxStart, MaxBalance, MaxEstimate, MaxDecide, MaxFails, SetAmount
  <1>3. CASE UNCHANGED <<cache, fetch>>
    BY <1>1, <1>3, ListAside DEF ListInv, WorldOK
  <1>4. CASE cache' = Empty /\ fetch' = None
    <2>1. CASE route \in Lists
      BY <1>1, <1>4, <2>1, ListDropped DEF ListInv, WorldOK
    <2>2. CASE route \notin Lists
      BY <1>1, <2>2, OtherPages
    <2> QED BY <2>1, <2>2
  <1> QED BY <1>2, <1>3, <1>4

LEMMA ListNextStep ==
  ASSUME PagesInv, ListInv, [Next]_vars
  PROVE  ListInv'
  <1>1. CASE UNCHANGED vars
    BY <1>1, ListAside DEF vars, walk, ListInv, WorldOK
  <1> QED BY <1>1, WorldLists, UserLists, TimerLists, TickLists, BeginLists, FetchLists, MaximumLists DEF Next

-----------------------------------------------------------------------------

\* Pages.tla: what the caches of the pages hold is the answer to their key, and
\* what is under way is asked for the present context.
THEOREM PagesInductive == Spec => []PagesInv
  <1>1. PagesInv /\ [Next]_vars => PagesInv'
    BY PagesNext
  <1> QED BY PagesInit, <1>1, PTL DEF Spec

\* useSwap.ts and the other hooks, with the decoders of the SDK: whatever a
\* visible page shows as current is of its account, inputs and deployment and
\* has not expired.
THEOREM PagesShowCurrent == Spec => []ShownIsCurrent
  <1>1. PagesInv => ShownIsCurrent
    <2> SUFFICES ASSUME PagesInv, visible, Shown PROVE
            /\ Entry.data.asked = Asked
            /\ Entry.data.reply.deployment = Entry.data.manifest
            /\ route = "balance" => Entry.data.manifest = known
            /\ route \in Expires => Entry.data.left > 0
      BY DEF ShownIsCurrent
    <2>1. Entry.data # None
      BY DEF Shown, EstimateShown, BalanceShown, StrategyShown, InvoiceShown, ListShown
    <2>2. DataOK(Key, Entry.data)
      BY <2>1, EntryIsOK DEF PagesInv, EntryOK
    <2>3. /\ Entry.data.asked = Asked
          /\ Entry.data.reply.deployment = Entry.data.manifest
          /\ route = "balance" => Entry.data.manifest = known
      BY <2>2, KeyAsked DEF DataOK
    <2>4. ASSUME route \in Expires PROVE Entry.data.left > 0
      <3>1. ~Entry.expired
        BY <2>4 DEF Expires, Quotes, Shown, EstimateShown, BalanceShown, StrategyShown
      <3>2. Entry.data.left # 0
        BY <2>1, <2>4, <3>1 DEF PagesInv, LapseOK, Lapsed
      <3>3. Entry.data.left \in Nat
        BY <2>2, <2>4 DEF DataOK
      <3> QED BY <3>2, <3>3
    <2> QED BY <2>3, <2>4
  <1> QED BY <1>1, PagesInductive, PTL

\* swap-controls.ts, useSwap.ts: the amount Max sets is positive and leaves the
\* reserve that the simulation of this very amount asked for.
THEOREM MaxKeepsGas == Spec => MaxLeavesGas
  <1> DEFINE sets == max # None /\ max.at = "decide" /\ form'.amount # form.amount /\ max' = None /\ form' \notin Typed
             leaves == /\ form'.amount = max.candidate /\ form'.amount > 0
                       /\ form'.amount + 2 * max.gas <= max.balance
                       /\ form'.amount + MinReserve <= max.balance
  <1>1. ASSUME PagesInv, [Next]_vars, sets PROVE leaves
    <2>1. form' # form
      BY <1>1
    <2>2. MaxDecide
      <3>1. ~World /\ ~Timer /\ ~Tick /\ ~BeginFetch /\ ~FetchStep
        BY <2>1 DEF World, Rotate, Index, Timer, IntentTimer, RefreshTimer, ExpiryTimer, Tick, BeginFetch, FetchStep
      <3>2. ~User
        BY <1>1, <2>1 DEF User, Connect, Type, LearnDeployment, Hide, Show, Click, Review, ListNext, ListPrevious,
             Restart, Walked, Recontext
      <3>3. ~MaxStart /\ ~MaxBalance /\ ~MaxEstimate /\ ~MaxFails
        BY <1>1, <2>1 DEF MaxStart, MaxBalance, MaxEstimate, MaxFails
      <3> QED BY <1>1, <2>1, <3>1, <3>2, <3>3 DEF Next, Maximum, vars
    <2>3. Accepted(max.candidate, max.balance, max.gas) /\ SetAmount(max.candidate)
      BY <2>1, <2>2 DEF MaxDecide
    <2>4. form'.amount = max.candidate
      BY <1>1, <2>2, <2>3, SetAmountPages DEF MaxDecide, page
    <2>5. max.balance \in Nat /\ max.candidate \in Nat /\ max.gas \in Nat /\ max.candidate > 0
      BY <1>1 DEF PagesInv, MaxOK
    <2>6. MaximumSwapInput(max.balance, max.gas) >= max.candidate
      BY <2>3 DEF Accepted
    <2> DEFINE most == MaximumSwapInput(max.balance, max.gas)
    <2>7. most \in Nat /\ (most > 0 => most + 2 * max.gas <= max.balance /\ most + MinReserve <= max.balance)
      BY <2>5, MaximumIsNat
    <2> HIDE DEF most
    <2>8. most >= max.candidate
      BY <2>6 DEF most
    <2> QED BY <2>4, <2>5, <2>7, <2>8, PagesAssumption
  <1>2. PagesInv /\ [Next]_vars => [sets => leaves]_vars
    BY <1>1
  <1> QED BY <1>2, PagesInductive, PTL DEF MaxLeavesGas, Spec

\* Pages.tla: whatever a list holds is the page after its cursor, and what was
\* shown before a page is the list up to the item that cursor names.
THEOREM ListsInductive == Spec => []ListInv
  <1>1. PagesInv /\ ListInv /\ [Next]_vars => ListInv'
    BY ListNextStep
  <1> QED BY ListInit, PagesInductive, <1>1, PTL DEF Spec

\* useStrategies.ts, useInvoices.ts and the cursors of the API: pages walked
\* forward at one pin show the list at that pin, in order, each row once, and
\* all of it once no page follows.
THEOREM PagesListOnce == Spec => []ListedOnce
  <1>1. ListInv => ListedOnce
    <2> DEFINE reply == Entry.data.reply
               last == Last(Nav.seen)
               shown == last \o reply.items
               all == Listed(route, account, reply.pin)
    <2> SUFFICES ASSUME ListInv, route \in Lists, account # None, Entry.data # None
                 PROVE  IF reply.next = None THEN shown = all ELSE IsPrefix(shown, all)
      BY DEF ListedOnce
    <2>1. account \in Accounts[route] /\ HeldOK /\ WalkOK
      BY DEF ListInv, WorldOK
    <2>2. PageOK(account, Cursor, reply) /\ PrefixOK(account, Cursor, last)
      BY <2>1, EntryPaged, NavOK
    <2> HIDE DEF reply, last
    <2>3. /\ all \in Seq(All) /\ Len(all) \in Nat
          /\ \E m \in 0 .. Len(all) :
               /\ shown = SubSeq(all, 1, m)
               /\ reply.next = None => m = Len(all)
      BY <2>1, <2>2, PageExtends
    <2>4. PICK m \in 0 .. Len(all) : shown = SubSeq(all, 1, m) /\ (reply.next = None => m = Len(all))
      BY <2>3
    <2> HIDE DEF all, shown
    <2>5. SubSeq(all, 1, Len(all)) = all
      BY <2>3
    <2>6. 1 \in Int /\ m \in Int /\ \A i \in 1 .. m : all[i] \in All
      <3>1. \A i \in 1 .. Len(all) : all[i] \in All
        BY <2>3, ElementOfSeq
      <3> QED BY <2>3, <3>1
    <2>7. SubSeq(all, 1, m) \in Seq(All) /\ Len(SubSeq(all, 1, m)) = IF 1 <= m THEN m - 1 + 1 ELSE 0
      BY <2>6, SubSeqProperties
    <2>8. shown \in Seq(All) /\ Len(shown) = m /\ m <= Len(all)
      BY <2>3, <2>4, <2>7
    <2>9. IsPrefix(shown, all)
      BY <2>4, <2>8 DEF IsPrefix
    <2> QED BY <2>4, <2>5, <2>9
  <1> QED BY <1>1, ListsInductive, PTL
=============================================================================
