---------------------------- MODULE RouterProofs ----------------------------
(* Theorems about Router, for every value of its constants. *)
EXTENDS Router, FiniteSetTheorems, TLAPS

-----------------------------------------------------------------------------
(* Typing needs to know where a swap is, and how far versions have grown.   *)

Locked == [entered |-> TRUE, pending |-> TRUE, snapshot |-> TRUE]

TxInv ==
  IF tx.pc = "idle" THEN tx = Idle /\ locks = Unlocked ELSE
    /\ locks = Locked
    /\ tx.order \in Orders /\ tx.i \in Tokens /\ tx.j \in Tokens /\ tx.i # tx.j
    /\ tx.taker \in Accounts /\ tx.taker \notin {MakerOf[tx.order], Self}
    /\ tx.recipient \in Accounts /\ tx.recipient \notin {MakerOf[tx.order], Self}
    /\ tx.out > 0

\* A strategy that was not activated is blank, and the versions of active ones are bounded.
Sound(strategies) ==
  \A o \in Orders :
    /\ strategies[o].status = "Unknown" => strategies[o] = Unknown
    /\ strategies[o].status = "Active" => strategies[o].version <= MaxVersion

StoreOK ==
  /\ strategy \in [Orders -> StrategyType]
  /\ nonce \in [Accounts -> Nat]
  /\ approved \in [Tokens -> Nat]
  /\ aqua \in [Orders -> [Tokens -> EntryType]]
  /\ bal \in [Tokens -> [Accounts -> Nat]]
  /\ gifts \in [Orders -> [Tokens -> Nat]]
  /\ donated \in [Tokens -> Nat]

Typed ==
  /\ StoreOK /\ saved \in StoreType
  /\ tx \in TxType /\ moves \in 0 .. MaxMoves
  /\ Sound(strategy) /\ Sound(saved.strategy)
  /\ TxInv

\* Snapshot is well typed when the variables it collects are.
LEMMA SnapshotTyped == StoreOK <=> Snapshot \in StoreType
  BY DEF StoreOK, Snapshot, StoreType

LEMMA NTokensNat == NTokens \in Nat /\ NTokens >= 2
  BY ConstantsAssumption, FS_CardinalityType DEF NTokens

\* The fee is a natural number.
LEMMA FeeNat ==
  ASSUME NEW gross \in Nat
  PROVE  FeeOf(gross) \in Nat
  <1> DEFINE n == gross * FeePpm
  <1>1. n \in Nat /\ FeeUnit \in Nat /\ FeeUnit > 0
    BY ConstantsAssumption
  <1> HIDE DEF n
  <1>2. n + FeeUnit - 1 \in Nat
    BY <1>1
  <1>3. (n + FeeUnit - 1) \div FeeUnit \in Nat
    BY <1>1, <1>2
  <1> QED BY <1>3 DEF FeeOf, n

\* Converting token units keeps amounts natural and their order.
LEMMA ScaleNat ==
  ASSUME NEW n \in Nat
  PROVE  n * Scale \in Nat
  BY ConstantsAssumption

LEMMA TypedInit == Init => Typed
  <1> SUFFICES ASSUME Init PROVE Typed
    OBVIOUS
  <1> USE ConstantsAssumption, NTokensNat DEF Init
  <1>1. Unknown \in StrategyType /\ NoEntry \in EntryType
    BY DEF Unknown, StrategyType, Zero, NoEntry, EntryType
  <1>2. StoreOK
    BY <1>1 DEF StoreOK, Zero
  <1>3. tx \in TxType /\ TxInv
    BY DEF Idle, TxType, TxInv
  <1>4. Sound(strategy) /\ Sound(saved.strategy)
    BY DEF Sound, Unknown, Snapshot
  <1> QED BY <1>2, <1>3, <1>4, SnapshotTyped DEF Typed

-----------------------------------------------------------------------------
(* What each step changes. *)

SameSwap ==
  /\ tx'.order = tx.order /\ tx'.taker = tx.taker /\ tx'.recipient = tx.recipient
  /\ tx'.i = tx.i /\ tx'.j = tx.j /\ tx'.gross = tx.gross /\ tx'.out = tx.out

\* A debit that is covered and a credit touch two holders of one token.
LEMMA TransferEffect ==
  ASSUME bal \in [Tokens -> [Accounts -> Nat]],
         NEW t \in Tokens, NEW from \in Accounts, NEW to \in Accounts,
         NEW debit \in Nat, NEW credit \in Nat, from # to,
         Transfer(t, from, to, debit, credit)
  PROVE  /\ bal' \in [Tokens -> [Accounts -> Nat]]
         /\ bal'[t][from] = bal[t][from] - debit
         /\ bal'[t][to] = bal[t][to] + credit
         /\ \A a \in Accounts : a \notin {from, to} => bal'[t][a] = bal[t][a]
         /\ \A u \in Tokens : u # t => bal'[u] = bal[u]
  <1> DEFINE b == bal[t]
             c == Moved(b, from, to, debit, credit)
  <1>1. bal' = [bal EXCEPT ![t] = c] /\ b \in [Accounts -> Nat] /\ b[from] >= debit
    BY DEF Transfer
  <1> HIDE DEF b
  <1>2. /\ c \in [Accounts -> Nat]
        /\ c[from] = b[from] - debit /\ c[to] = b[to] + credit
        /\ \A a \in Accounts : a \notin {from, to} => c[a] = b[a]
    BY <1>1 DEF Moved
  <1> HIDE DEF c
  <1>3. bal' \in [Tokens -> [Accounts -> Nat]] /\ bal'[t] = c /\ \A u \in Tokens : u # t => bal'[u] = bal[u]
    BY <1>1, <1>2
  <1> QED BY <1>2, <1>3 DEF b

\* The same, if the two may be one: no other holder and no other token is touched.
LEMMA TransferFrame ==
  ASSUME bal \in [Tokens -> [Accounts -> Nat]],
         NEW t \in Tokens, NEW from \in Accounts, NEW to \in Accounts,
         NEW debit \in Nat, NEW credit \in Nat,
         Transfer(t, from, to, debit, credit)
  PROVE  /\ bal' \in [Tokens -> [Accounts -> Nat]]
         /\ \A a \in Accounts : a \notin {from, to} => bal'[t][a] = bal[t][a]
         /\ \A u \in Tokens : u # t => bal'[u] = bal[u]
  <1> DEFINE b == bal[t]
             c == Moved(b, from, to, debit, credit)
  <1>1. bal' = [bal EXCEPT ![t] = c] /\ b \in [Accounts -> Nat] /\ b[from] >= debit
    BY DEF Transfer
  <1> HIDE DEF b
  <1>2. c \in [Accounts -> Nat] /\ \A a \in Accounts : a \notin {from, to} => c[a] = b[a]
    BY <1>1 DEF Moved
  <1> HIDE DEF c
  <1>3. bal' \in [Tokens -> [Accounts -> Nat]] /\ bal'[t] = c /\ \A u \in Tokens : u # t => bal'[u] = bal[u]
    BY <1>1, <1>2
  <1> QED BY <1>2, <1>3 DEF b

\* Setting the amount of one allocation leaves its count and the others alone.
RawSet(o, t, n) == aqua' = [aqua EXCEPT ![o][t].raw = n]

RawOnly(o, t, n) ==
  /\ aqua' \in [Orders -> [Tokens -> EntryType]]
  /\ aqua'[o][t].raw = n /\ aqua'[o][t].count = aqua[o][t].count
  /\ \A p \in Orders, u \in Tokens : p # o \/ u # t => aqua'[p][u] = aqua[p][u]

LEMMA RawEffect ==
  ASSUME StoreOK, NEW o \in Orders, NEW t \in Tokens, NEW n \in Nat, RawSet(o, t, n)
  PROVE  RawOnly(o, t, n)
  <1>0. aqua \in [Orders -> [Tokens -> EntryType]] /\ aqua' = [aqua EXCEPT ![o][t].raw = n]
    BY DEF StoreOK, RawSet
  <1> DEFINE e == aqua[o][t]
             f == [e EXCEPT !.raw = n]
  <1>1. e \in EntryType /\ aqua' = [aqua EXCEPT ![o] = [aqua[o] EXCEPT ![t] = f]]
    BY <1>0
  <1> HIDE DEF e
  <1>2. f \in EntryType /\ f.raw = n /\ f.count = e.count
    BY <1>1 DEF EntryType
  <1> HIDE DEF f
  <1> DEFINE row == [aqua[o] EXCEPT ![t] = f]
  <1>3. row \in [Tokens -> EntryType] /\ row[t] = f /\ \A u \in Tokens : u # t => row[u] = aqua[o][u]
    BY <1>0, <1>2
  <1>4. aqua' = [aqua EXCEPT ![o] = row]
    BY <1>1
  <1> HIDE DEF row
  <1>5. aqua' \in [Orders -> [Tokens -> EntryType]] /\ aqua'[o] = row /\ \A p \in Orders : p # o => aqua'[p] = aqua[p]
    BY <1>0, <1>3, <1>4
  <1> QED BY <1>2, <1>3, <1>5 DEF e, RawOnly

\* The swap goes on: a transfer of a token from one holder to another.
LegDone(from, next, t, payer, payee, amount) ==
  /\ tx.pc = from /\ tx'.pc = next /\ SameSwap /\ tx' \in TxType /\ TxInv'
  /\ bal' \in [Tokens -> [Accounts -> Nat]]
  /\ \A a \in Accounts : a \notin {payer, payee} => bal'[t][a] = bal[t][a]
  /\ \A u \in Tokens : u # t => bal'[u] = bal[u]
  /\ tx'.clean =>
       /\ tx.clean
       /\ bal'[t][payer] = bal[t][payer] - amount
       /\ bal'[t][payee] = bal[t][payee] + amount

\* One transfer of the swap: the token moves what was asked when the step is clean.
LEMMA LegEffect ==
  ASSUME Typed, NEW from, from # "idle", NEW next \in {"paid", "pushed", "pulled"}, NEW t \in Tokens,
         NEW payer \in Accounts, NEW payee \in Accounts, payer # payee, NEW amount \in Nat,
         Leg(from, next, t, payer, payee, amount), locks' = locks
  PROVE  LegDone(from, next, t, payer, payee, amount)
  <1>1. PICK debit \in Debits(amount), credit \in Credits(amount) :
          /\ Transfer(t, payer, payee, debit, credit)
          /\ tx' = [tx EXCEPT !.pc = next, !.clean = @ /\ debit = amount /\ credit = amount]
    BY DEF Leg
  <1>2. debit \in Nat /\ credit \in Nat
    BY DEF Debits, Credits
  <1>3. /\ bal' \in [Tokens -> [Accounts -> Nat]]
        /\ bal'[t][payer] = bal[t][payer] - debit
        /\ bal'[t][payee] = bal[t][payee] + credit
        /\ \A a \in Accounts : a \notin {payer, payee} => bal'[t][a] = bal[t][a]
        /\ \A u \in Tokens : u # t => bal'[u] = bal[u]
    BY <1>1, <1>2, TransferEffect DEF Typed, StoreOK
  <1> DEFINE clean == tx.clean /\ debit = amount /\ credit = amount
  <1>4. tx' = [tx EXCEPT !.pc = next, !.clean = clean] /\ clean \in BOOLEAN /\ tx \in TxType /\ tx.pc = from
    BY <1>1 DEF Typed, Leg
  <1> HIDE DEF clean
  <1>5. tx' \in TxType /\ tx'.pc = next /\ SameSwap /\ tx'.clean = clean
    BY <1>4 DEF TxType, SameSwap
  <1>6. TxInv'
    BY <1>4, <1>5 DEF Typed, TxInv, SameSwap
  <1> QED BY <1>3, <1>4, <1>5, <1>6 DEF clean, LegDone

\* Whoever interferes changes nothing of the swap but that it is no longer clean.
LEMMA OutsideEffect ==
  ASSUME Typed, Outside
  PROVE  /\ UNCHANGED <<locks, approved, saved, nonce, strategy>> /\ moves' \in 0 .. MaxMoves
         /\ tx.pc = "idle" => tx' = tx
         /\ tx' \in TxType /\ tx'.pc = tx.pc /\ SameSwap
         /\ tx.pc # "idle" => ~tx'.clean
         /\ TxInv'
  <1> DEFINE clean == tx.pc = "idle"
  <1>1. tx' = [tx EXCEPT !.clean = clean] /\ clean \in BOOLEAN /\ tx \in TxType
    BY DEF Outside, Typed
  <1>2. /\ UNCHANGED <<locks, approved, saved, nonce, strategy>> /\ moves' = moves + 1 /\ moves < MaxMoves
    BY DEF Outside
  <1>3. tx.pc = "idle" => tx' = tx
    <2> SUFFICES ASSUME tx.pc = "idle" PROVE tx' = tx
      OBVIOUS
    <2>1. tx.clean = TRUE
      BY DEF Typed, TxInv, Idle
    <2>2. tx' = [tx EXCEPT !.clean = TRUE] /\ tx \in TxType
      BY <1>1
    <2> QED BY <2>1, <2>2 DEF TxType
  <1> HIDE DEF clean
  <1>4. tx' \in TxType /\ tx'.pc = tx.pc /\ SameSwap /\ tx'.clean = clean
    BY <1>1 DEF TxType, SameSwap
  <1>5. TxInv'
    BY <1>2, <1>3, <1>4 DEF Typed, TxInv, SameSwap
  <1>6. moves' \in 0 .. MaxMoves
    BY <1>2, ConstantsAssumption DEF Typed
  <1> QED BY <1>2, <1>3, <1>4, <1>5, <1>6 DEF clean

\* What a swap makes of its strategy: gross input and payout change what is
\* required of the two tokens, however the fee was rounded.
LEMMA TradedEffect ==
  ASSUME NEW s \in StrategyType, NEW i \in Tokens, NEW j \in Tokens, i # j,
         NEW gross \in Nat, FeeOf(gross) < gross, NEW out \in Nat, out * Scale <= s.principal[j],
         s.version < MaxVersion
  PROVE  LET w == Traded(s, i, j, gross, out) IN
         /\ w \in StrategyType /\ w.status = s.status /\ w.version = s.version + 1 /\ w.surplus = s.surplus
         /\ Required(w, i) = Required(s, i) + gross * Scale
         /\ Required(w, j) = Required(s, j) - out * Scale
         /\ \A t \in Tokens : t \notin {i, j} => Required(w, t) = Required(s, t)
  <1> DEFINE w == Traded(s, i, j, gross, out)
             net == (gross - FeeOf(gross)) * Scale
             paid == out * Scale
             fee == FeeOf(gross)
             principal == [s.principal EXCEPT ![i] = @ + net, ![j] = @ - paid]
             fees == [s.fees EXCEPT ![i] = @ + fee]
             version == s.version + 1
  <1>1. /\ fee \in Nat /\ gross - fee \in Nat /\ net \in Nat /\ paid \in Nat /\ version \in 0 .. MaxVersion + 1
        /\ s.principal \in [Tokens -> Nat] /\ s.fees \in [Tokens -> Nat] /\ Scale \in Nat
    <2>1. fee \in Nat
      BY FeeNat
    <2>2. gross - fee \in Nat
      BY <2>1
    <2> HIDE DEF fee
    <2>3. (gross - fee) * Scale \in Nat /\ paid \in Nat
      BY <2>2, ScaleNat
    <2>4. version \in 0 .. MaxVersion + 1
      BY ConstantsAssumption DEF StrategyType
    <2> QED BY <2>1, <2>2, <2>3, <2>4, ConstantsAssumption DEF StrategyType, fee
  <1>2. w = [s EXCEPT !.principal = principal, !.fees = fees, !.version = version]
    BY DEF Traded, Reserves, Fees, NextVersion
  <1> HIDE DEF net, paid, fee, version, w
  <1>3. /\ principal \in [Tokens -> Nat] /\ fees \in [Tokens -> Nat]
        /\ principal[i] = s.principal[i] + net /\ principal[j] = s.principal[j] - paid
        /\ fees[i] = s.fees[i] + fee /\ fees[j] = s.fees[j]
        /\ \A t \in Tokens : t \notin {i, j} => principal[t] = s.principal[t] /\ fees[t] = s.fees[t]
    <2>1. paid <= s.principal[j]
      BY DEF paid
    <2> QED BY <1>1, <2>1
  <1> HIDE DEF principal, fees
  <1>4. /\ w \in StrategyType /\ w.principal = principal /\ w.fees = fees /\ w.version = version
        /\ w.status = s.status /\ w.surplus = s.surplus
    BY <1>1, <1>2, <1>3 DEF StrategyType
  <1>5. Required(w, i) = Required(s, i) + gross * Scale
    <2>1. net = gross * Scale - fee * Scale
      BY <1>1 DEF net, fee
    <2>2. (s.fees[i] + fee) * Scale = s.fees[i] * Scale + fee * Scale
      BY <1>1
    <2>3. /\ s.principal[i] \in Nat /\ s.fees[i] * Scale \in Nat /\ fee * Scale \in Nat /\ gross * Scale \in Nat
      BY <1>1, ScaleNat
    <2>4. Required(w, i) = s.principal[i] + net + (s.fees[i] + fee) * Scale
      BY <1>3, <1>4 DEF Required
    <2>5. Required(s, i) = s.principal[i] + s.fees[i] * Scale
      BY DEF Required
    <2> QED BY <2>1, <2>2, <2>3, <2>4, <2>5
  <1>6. Required(w, j) = Required(s, j) - paid
    <2>1. /\ s.principal[j] \in Nat /\ s.fees[j] * Scale \in Nat
      BY <1>1, ScaleNat
    <2> QED BY <1>1, <1>3, <1>4, <2>1 DEF Required
  <1>7. \A t \in Tokens : t \notin {i, j} => Required(w, t) = Required(s, t)
    BY <1>3, <1>4 DEF Required
  <1> QED BY <1>4, <1>5, <1>6, <1>7 DEF version, paid, w

\* An activated strategy requires its initial principal; the rest of the
\* allocation is its surplus.
LEMMA ActivateEffect ==
  ASSUME Typed, NEW o \in Orders, ActivateStrategy(o)
  PROVE  /\ tx.pc = "idle" /\ strategy[o].status = "Unknown" /\ NonceOf[o] = nonce[MakerOf[o]] /\ Live(o)
         /\ strategy' = [strategy EXCEPT ![o] = Activated(o)]
         /\ nonce' = [nonce EXCEPT ![MakerOf[o]] = @ + 1]
         /\ Activated(o) \in StrategyType /\ Activated(o).status = "Active" /\ Activated(o).version = 1
         /\ \A t \in Tokens :
              aqua[o][t].raw * Scale = Required(Activated(o), t) + Activated(o).surplus[t]
         /\ UNCHANGED <<locks, approved, aqua, bal, gifts, donated, tx, saved, moves>>
  <1> DEFINE s == Activated(o)
             raw(t) == aqua[o][t].raw
  <1>1. /\ ~locks.entered /\ strategy[o].status = "Unknown" /\ NonceOf[o] = nonce[MakerOf[o]] /\ Live(o)
        /\ Backed(s, o) /\ strategy' = [strategy EXCEPT ![o] = s] /\ nonce' = NextNonce(MakerOf[o])
        /\ UNCHANGED <<locks, approved, aqua, bal, gifts, donated, tx, saved, moves>>
    BY DEF ActivateStrategy
  <1>2. tx.pc = "idle"
    BY <1>1 DEF Typed, TxInv, Locked
  <1>3. \A t \in Tokens : raw(t) * Scale \in Nat /\ Initial[o][t] \in Nat
    BY ScaleNat, ConstantsAssumption DEF Typed, StoreOK, EntryType
  <1>4. \A t \in Tokens :
          /\ Required(s, t) = Initial[o][t]
          /\ s.surplus[t] = raw(t) * Scale - Initial[o][t]
    <2>1. ASSUME NEW t \in Tokens PROVE s.principal[t] = Initial[o][t] /\ s.fees[t] = 0
      BY DEF Activated, Zero
    <2>2. 0 * Scale = 0
      BY ConstantsAssumption
    <2>3. ASSUME NEW t \in Tokens PROVE Required(s, t) = Initial[o][t]
      BY <1>3, <2>1, <2>2 DEF Required
    <2>4. ASSUME NEW t \in Tokens PROVE s.surplus[t] = raw(t) * Scale - Initial[o][t]
      BY DEF Activated
    <2> QED BY <2>3, <2>4
  <1>5. \A t \in Tokens : raw(t) * Scale - Initial[o][t] \in Nat
    BY <1>1, <1>3, <1>4 DEF Backed
  <1>6. s \in StrategyType /\ s.status = "Active" /\ s.version = 1
    <2> DEFINE surplus == [t \in Tokens |-> raw(t) * Scale - Initial[o][t]]
               principal == Initial[o]
    <2>1. surplus \in [Tokens -> Nat]
      BY <1>5
    <2>2. principal \in [Tokens -> Nat] /\ Zero \in [Tokens -> Nat] /\ 1 \in 0 .. MaxVersion + 1
      BY ConstantsAssumption DEF Zero
    <2>3. s = [status |-> "Active", version |-> 1, principal |-> principal, fees |-> Zero, surplus |-> surplus]
      BY DEF Activated
    <2> HIDE DEF surplus, principal, s
    <2> QED BY <2>1, <2>2, <2>3 DEF StrategyType
  <1>7. \A t \in Tokens : raw(t) * Scale = Required(s, t) + s.surplus[t]
    BY <1>3, <1>4
  <1> QED BY <1>1, <1>2, <1>6, <1>7 DEF NextNonce

LEMMA RetireEffect ==
  ASSUME Typed, NEW o \in Orders, RetireStrategy(o)
  PROVE  /\ tx.pc = "idle" /\ strategy[o].status = "Active"
         /\ strategy' \in [Orders -> StrategyType]
         /\ strategy'[o].status = "Retired" /\ strategy'[o].version = strategy[o].version + 1
         /\ strategy'[o].principal = strategy[o].principal /\ strategy'[o].fees = strategy[o].fees
         /\ strategy'[o].surplus = strategy[o].surplus
         /\ \A p \in Orders \ {o} : strategy'[p] = strategy[p]
         /\ UNCHANGED <<nonce, locks, approved, aqua, bal, gifts, donated, tx, saved, moves>>
  <1> DEFINE s == strategy[o]
             version == s.version + 1
             w == [s EXCEPT !.status = "Retired", !.version = version]
  <1>1. /\ ~locks.entered /\ s.status = "Active" /\ s \in StrategyType /\ s.version <= MaxVersion
        /\ strategy \in [Orders -> StrategyType]
        /\ UNCHANGED <<nonce, locks, approved, aqua, bal, gifts, donated, tx, saved, moves>>
    BY DEF RetireStrategy, Typed, StoreOK, Sound
  <1>2. tx.pc = "idle"
    BY <1>1 DEF Typed, TxInv, Locked
  <1>3. strategy' = [strategy EXCEPT ![o] = w]
    BY <1>1 DEF RetireStrategy
  <1>4. version \in 0 .. MaxVersion + 1
    BY <1>1, ConstantsAssumption DEF StrategyType
  <1> HIDE DEF s
  <1>5. /\ w \in StrategyType /\ w.status = "Retired" /\ w.version = version
        /\ w.principal = s.principal /\ w.fees = s.fees /\ w.surplus = s.surplus
    <2> HIDE DEF version
    <2> QED BY <1>1, <1>4 DEF StrategyType
  <1> HIDE DEF w, version
  <1> QED BY <1>1, <1>2, <1>3, <1>5 DEF s, version

LEMMA BeginEffect ==
  ASSUME Typed, NEW o \in Orders, NEW taker \in Accounts, NEW recipient \in Accounts,
         NEW i \in Tokens, NEW j \in Tokens, NEW gross \in Grosses,
         Begin(o, taker, recipient, i, j, gross)
  PROVE  /\ tx.pc = "idle" /\ locks' = Locked /\ Live(o) /\ strategy[o].status = "Active" /\ i # j
         /\ tx' \in TxType /\ tx'.pc = "pay" /\ tx'.order = o /\ tx'.i = i /\ tx'.j = j
         /\ tx'.taker = taker /\ tx'.recipient = recipient /\ tx'.gross = gross /\ gross \in Nat
         /\ taker \notin {MakerOf[o], Self} /\ recipient \notin {MakerOf[o], Self}
         /\ tx'.out \in Nat /\ tx'.out > 0 /\ tx'.out * Scale <= strategy[o].principal[j]
         /\ FeeOf(gross) < gross /\ strategy[o].version < MaxVersion
         /\ strategy' = [strategy EXCEPT ![o] = Traded(strategy[o], i, j, gross, tx'.out)]
         /\ saved' = Snapshot
         /\ UNCHANGED <<nonce, approved, aqua, bal, gifts, donated, moves>>
  <1> DEFINE s == strategy[o]
  <1>1. PICK out \in Solve(s, j) :
          /\ tx' = [pc |-> "pay", order |-> o, taker |-> taker, recipient |-> recipient, i |-> i, j |-> j,
                    gross |-> gross, out |-> out, clean |-> TRUE]
          /\ strategy' = [strategy EXCEPT ![o] = Traded(s, i, j, gross, out)]
    BY DEF Begin
  <1>2. /\ locks = Unlocked /\ s.status = "Active" /\ s.version < MaxVersion /\ i # j
        /\ taker \notin {MakerOf[o], Self} /\ recipient \notin {MakerOf[o], Self}
        /\ Live(o) /\ FeeOf(gross) < gross
        /\ locks' = Locked /\ saved' = Snapshot
        /\ UNCHANGED <<nonce, approved, aqua, bal, gifts, donated, moves>>
    BY DEF Begin, Locked
  <1>3. tx.pc = "idle"
    BY <1>2 DEF Typed, TxInv, Locked, Unlocked
  <1>4. out \in Nat /\ out > 0 /\ out * Scale <= s.principal[j] /\ gross \in Nat
    <2>1. s.principal[j] \in Nat
      BY DEF Typed, StoreOK, StrategyType
    <2> QED BY <2>1, ConstantsAssumption DEF Solve
  <1>5. tx' \in TxType
    BY <1>1, <1>4 DEF TxType
  <1> QED BY <1>1, <1>2, <1>3, <1>4, <1>5

-----------------------------------------------------------------------------
(* The transfers of a swap, and its end. *)

\* Who and what an open swap is about.
LEMMA OpenSwap ==
  ASSUME Typed, tx.pc # "idle"
  PROVE  /\ tx.order \in Orders /\ tx.i \in Tokens /\ tx.j \in Tokens /\ tx.i # tx.j
         /\ tx.taker \in Accounts /\ tx.recipient \in Accounts /\ MakerOf[tx.order] \in Accounts /\ Self \in Accounts
         /\ tx.taker # MakerOf[tx.order] /\ tx.recipient # MakerOf[tx.order] /\ MakerOf[tx.order] # Self
         /\ tx.taker # Self /\ tx.recipient # Self
         /\ tx.gross \in Nat /\ tx.out \in Nat /\ tx.out > 0 /\ locks = Locked
  BY ConstantsAssumption DEF Typed, TxInv, TxType

LEMMA TakerPaysEffect ==
  ASSUME Typed, TakerPays
  PROVE  /\ LegDone("pay", "paid", tx.i, tx.taker, Self, tx.gross)
         /\ approved' = [approved EXCEPT ![tx.i] = tx.gross]
         /\ UNCHANGED <<strategy, nonce, locks, aqua, gifts, donated, saved, moves>>
  <1>1. /\ Leg("pay", "paid", tx.i, tx.taker, Self, tx.gross)
        /\ approved' = [approved EXCEPT ![tx.i] = tx.gross]
        /\ UNCHANGED <<strategy, nonce, locks, aqua, gifts, donated, saved, moves>>
    BY DEF TakerPays
  <1>2. tx.pc = "pay"
    BY <1>1 DEF Leg
  <1> QED BY <1>1, <1>2, OpenSwap, LegEffect

LEMMA AquaPushEffect ==
  ASSUME Typed, AquaPush
  PROVE  /\ LegDone("paid", "pushed", tx.i, Self, MakerOf[tx.order], tx.gross)
         /\ aqua[tx.order][tx.i].count \notin {0, Docked}
         /\ aqua' \in [Orders -> [Tokens -> EntryType]]
         /\ aqua'[tx.order][tx.i].raw = aqua[tx.order][tx.i].raw + tx.gross
         /\ aqua'[tx.order][tx.i].count = aqua[tx.order][tx.i].count
         /\ \A o \in Orders, t \in Tokens : o # tx.order \/ t # tx.i => aqua'[o][t] = aqua[o][t]
         /\ \E left \in Nat : approved' = [approved EXCEPT ![tx.i] = left]
         /\ UNCHANGED <<strategy, nonce, locks, gifts, donated, saved, moves>>
  <1> DEFINE n == aqua[tx.order][tx.i].raw + tx.gross
  <1>1. /\ Leg("paid", "pushed", tx.i, Self, MakerOf[tx.order], tx.gross)
        /\ aqua[tx.order][tx.i].count \notin {0, Docked}
        /\ aqua' = [aqua EXCEPT ![tx.order][tx.i].raw = n]
        /\ \E left \in {0, tx.gross} : approved' = [approved EXCEPT ![tx.i] = left]
        /\ UNCHANGED <<strategy, nonce, locks, gifts, donated, saved, moves>>
    BY DEF AquaPush
  <1>2. tx.pc = "paid"
    BY <1>1 DEF Leg
  <1>3. n \in Nat /\ StoreOK
    BY <1>2, OpenSwap DEF Typed, StoreOK, EntryType
  <1>4. LegDone("paid", "pushed", tx.i, Self, MakerOf[tx.order], tx.gross)
    BY <1>1, <1>2, OpenSwap, LegEffect
  <1>5. \E left \in Nat : approved' = [approved EXCEPT ![tx.i] = left]
    BY <1>1, <1>2, OpenSwap
  <1> HIDE DEF n
  <1>6. RawSet(tx.order, tx.i, n) /\ tx.order \in Orders /\ tx.i \in Tokens
    BY <1>1, <1>2, OpenSwap DEF RawSet
  <1>7. RawOnly(tx.order, tx.i, n)
    BY <1>3, <1>6, RawEffect
  <1> QED BY <1>1, <1>4, <1>5, <1>7 DEF n, RawOnly

LEMMA AquaPullEffect ==
  ASSUME Typed, AquaPull
  PROVE  /\ LegDone("pushed", "pulled", tx.j, MakerOf[tx.order], tx.recipient, tx.out)
         /\ aqua[tx.order][tx.j].raw >= tx.out
         /\ aqua' \in [Orders -> [Tokens -> EntryType]]
         /\ aqua'[tx.order][tx.j].raw = aqua[tx.order][tx.j].raw - tx.out
         /\ aqua'[tx.order][tx.j].count = aqua[tx.order][tx.j].count
         /\ \A o \in Orders, t \in Tokens : o # tx.order \/ t # tx.j => aqua'[o][t] = aqua[o][t]
         /\ UNCHANGED <<strategy, nonce, locks, approved, gifts, donated, saved, moves>>
  <1> DEFINE n == aqua[tx.order][tx.j].raw - tx.out
  <1>1. /\ Leg("pushed", "pulled", tx.j, MakerOf[tx.order], tx.recipient, tx.out)
        /\ aqua[tx.order][tx.j].raw >= tx.out
        /\ aqua' = [aqua EXCEPT ![tx.order][tx.j].raw = n]
        /\ UNCHANGED <<strategy, nonce, locks, approved, gifts, donated, saved, moves>>
    BY DEF AquaPull
  <1>2. tx.pc = "pushed"
    BY <1>1 DEF Leg
  <1>3. n \in Nat /\ StoreOK
    BY <1>1, <1>2, OpenSwap DEF Typed, StoreOK, EntryType
  <1>4. LegDone("pushed", "pulled", tx.j, MakerOf[tx.order], tx.recipient, tx.out)
    BY <1>1, <1>2, OpenSwap, LegEffect
  <1> HIDE DEF n
  <1>6. RawSet(tx.order, tx.j, n) /\ tx.order \in Orders /\ tx.j \in Tokens
    BY <1>1, <1>2, OpenSwap DEF RawSet
  <1>7. RawOnly(tx.order, tx.j, n)
    BY <1>3, <1>6, RawEffect
  <1> QED BY <1>1, <1>4, <1>7 DEF n, RawOnly

LEMMA FinishEffect ==
  ASSUME Typed, Finish
  PROVE  /\ tx.pc = "pulled" /\ Settled /\ tx' = Idle /\ locks' = Unlocked
         /\ approved' \in [Tokens -> Nat]
         /\ approved'[tx.i] = 0 /\ approved'[tx.j] = 0
         /\ \A t \in Tokens \ {tx.i, tx.j} : approved'[t] = approved[t]
         /\ UNCHANGED <<strategy, nonce, aqua, bal, gifts, donated, saved, moves>>
  <1>1. /\ tx.pc = "pulled" /\ Settled
        /\ approved' = [approved EXCEPT ![tx.i] = 0, ![tx.j] = 0]
        /\ locks' = Unlocked /\ tx' = Idle
        /\ UNCHANGED <<strategy, nonce, aqua, bal, gifts, donated, saved, moves>>
    BY DEF Finish
  <1>2. approved \in [Tokens -> Nat] /\ tx.i \in Tokens /\ tx.j \in Tokens
    BY <1>1, OpenSwap DEF Typed, StoreOK
  <1> QED BY <1>1, <1>2

-----------------------------------------------------------------------------
(* Everybody else. *)

\* A set of a strategy's tokens has at most as many members as all of them.
LEMMA FewTokens ==
  ASSUME NEW T \in SUBSET Tokens
  PROVE  IsFiniteSet(T) /\ Cardinality(T) \in 0 .. NTokens
  <1>1. IsFiniteSet(T) /\ Cardinality(T) <= Cardinality(Tokens)
    BY ConstantsAssumption, FS_Subset
  <1>2. Cardinality(T) \in Nat /\ Cardinality(Tokens) \in Nat
    BY <1>1, ConstantsAssumption, FS_CardinalityType
  <1> QED BY <1>1, <1>2 DEF NTokens

\* As many tokens as there are, are all of them.
LEMMA AllTokens ==
  ASSUME NEW T \in SUBSET Tokens, Cardinality(T) = NTokens
  PROVE  T = Tokens
  BY ConstantsAssumption, FS_Subset DEF NTokens

\* Entries of a set of tokens become one and the same entry.
LEMMA RowEffect ==
  ASSUME aqua \in [Orders -> [Tokens -> EntryType]], NEW o \in Orders, NEW T \in SUBSET Tokens,
         NEW e \in EntryType,
         aqua' = [aqua EXCEPT ![o] = [t \in Tokens |-> IF t \in T THEN e ELSE aqua[o][t]]]
  PROVE  /\ aqua' \in [Orders -> [Tokens -> EntryType]]
         /\ \A t \in T : aqua'[o][t] = e
         /\ \A t \in Tokens \ T : aqua'[o][t] = aqua[o][t]
         /\ \A p \in Orders \ {o} : aqua'[p] = aqua[p]
  <1> DEFINE row == [t \in Tokens |-> IF t \in T THEN e ELSE aqua[o][t]]
  <1>1. row \in [Tokens -> EntryType] /\ (\A t \in T : row[t] = e) /\ \A t \in Tokens \ T : row[t] = aqua[o][t]
    OBVIOUS
  <1>2. aqua' = [aqua EXCEPT ![o] = row]
    OBVIOUS
  <1> HIDE DEF row
  <1> QED BY <1>1, <1>2

LEMMA ShipEffect ==
  ASSUME Typed, NEW o \in Orders, NEW T \in SUBSET Tokens, NEW n \in Shipments, Ship(o, T, n)
  PROVE  /\ T # {} /\ (\A t \in T : aqua[o][t].count = 0)
         /\ aqua' \in [Orders -> [Tokens -> EntryType]]
         /\ \A t \in T : aqua'[o][t] = [raw |-> n, count |-> Cardinality(T)]
         /\ \A t \in Tokens \ T : aqua'[o][t] = aqua[o][t]
         /\ \A p \in Orders \ {o} : aqua'[p] = aqua[p]
         /\ UNCHANGED <<strategy, nonce, locks, approved, bal, gifts, donated, tx, saved, moves>>
  <1> DEFINE e == [raw |-> n, count |-> Cardinality(T)]
  <1>1. e \in EntryType
    BY FewTokens, ConstantsAssumption DEF EntryType
  <1>2. /\ T # {} /\ (\A t \in T : aqua[o][t].count = 0)
        /\ aqua' = [aqua EXCEPT ![o] = [t \in Tokens |-> IF t \in T THEN e ELSE aqua[o][t]]]
        /\ UNCHANGED <<strategy, nonce, locks, approved, bal, gifts, donated, tx, saved, moves>>
    BY DEF Ship
  <1> DEFINE w == e
  <1>3. w \in EntryType /\ w = e /\ aqua' = [aqua EXCEPT ![o] = [t \in Tokens |-> IF t \in T THEN w ELSE aqua[o][t]]]
    BY <1>1, <1>2
  <1> HIDE DEF w
  <1>4. /\ aqua' \in [Orders -> [Tokens -> EntryType]]
        /\ \A t \in T : aqua'[o][t] = w
        /\ \A t \in Tokens \ T : aqua'[o][t] = aqua[o][t]
        /\ \A p \in Orders \ {o} : aqua'[p] = aqua[p]
    BY <1>3, RowEffect DEF Typed, StoreOK
  <1> QED BY <1>2, <1>3, <1>4

LEMMA DockEffect ==
  ASSUME Typed, NEW o \in Orders, NEW T \in SUBSET Tokens, Dock(o, T)
  PROVE  /\ Outside /\ T # {} /\ (\A t \in T : aqua[o][t].count = Cardinality(T))
         /\ aqua' \in [Orders -> [Tokens -> EntryType]]
         /\ \A t \in T : aqua'[o][t].raw = 0 /\ aqua'[o][t].count = Docked
         /\ \A t \in Tokens \ T : aqua'[o][t] = aqua[o][t]
         /\ \A p \in Orders \ {o} : aqua'[p] = aqua[p]
         /\ UNCHANGED <<bal, gifts, donated>>
  <1> DEFINE e == [raw |-> 0, count |-> Docked]
  <1>1. e \in EntryType /\ e.raw = 0 /\ e.count = Docked
    BY DEF EntryType
  <1>2. /\ Outside /\ T # {} /\ (\A t \in T : aqua[o][t].count = Cardinality(T))
        /\ aqua' = [aqua EXCEPT ![o] = [t \in Tokens |-> IF t \in T THEN e ELSE aqua[o][t]]]
        /\ UNCHANGED <<bal, gifts, donated>>
    BY DEF Dock
  <1> HIDE DEF e
  <1>4. /\ aqua' \in [Orders -> [Tokens -> EntryType]]
        /\ \A t \in T : aqua'[o][t] = e
        /\ \A t \in Tokens \ T : aqua'[o][t] = aqua[o][t]
        /\ \A p \in Orders \ {o} : aqua'[p] = aqua[p]
    BY <1>1, <1>2, RowEffect DEF Typed, StoreOK
  <1> QED BY <1>1, <1>2, <1>4

\* Accounting for a gift, when the strategy is one to have it.
LEMMA GiftEffect ==
  ASSUME gifts \in [Orders -> [Tokens -> Nat]], NEW o \in Orders, NEW t \in Tokens, NEW n \in Nat
  PROVE  LET w == [gifts EXCEPT ![o][t] = n] IN
         /\ w \in [Orders -> [Tokens -> Nat]] /\ w[o][t] = n
         /\ \A p \in Orders, u \in Tokens : p # o \/ u # t => w[p][u] = gifts[p][u]
  <1> DEFINE row == [gifts[o] EXCEPT ![t] = n]
             w == [gifts EXCEPT ![o][t] = n]
  <1>1. row \in [Tokens -> Nat] /\ row[t] = n /\ \A u \in Tokens : u # t => row[u] = gifts[o][u]
    OBVIOUS
  <1>2. w = [gifts EXCEPT ![o] = row]
    OBVIOUS
  <1> HIDE DEF row, w
  <1>3. w \in [Orders -> [Tokens -> Nat]] /\ w[o] = row /\ \A p \in Orders : p # o => w[p] = gifts[p]
    BY <1>1, <1>2
  <1> QED BY <1>1, <1>3 DEF w

LEMMA PushEffect ==
  ASSUME Typed, NEW o \in Orders, NEW t \in Tokens, NEW from \in Accounts, Push(o, t, from, 1)
  PROVE  /\ Outside /\ aqua[o][t].count \notin {0, Docked} /\ from # Self
         /\ Transfer(t, from, MakerOf[o], 1, 1)
         /\ aqua' \in [Orders -> [Tokens -> EntryType]]
         /\ aqua'[o][t].raw = aqua[o][t].raw + 1 /\ aqua'[o][t].count = aqua[o][t].count
         /\ \A p \in Orders, u \in Tokens : p # o \/ u # t => aqua'[p][u] = aqua[p][u]
         /\ gifts' \in [Orders -> [Tokens -> Nat]]
         /\ strategy[o].status = "Unknown" => gifts' = gifts
         /\ strategy[o].status # "Unknown" => gifts'[o][t] = gifts[o][t] + 1
         /\ \A p \in Orders, u \in Tokens : p # o \/ u # t => gifts'[p][u] = gifts[p][u]
         /\ UNCHANGED donated
  <1> DEFINE n == aqua[o][t].raw + 1
             g == gifts[o][t] + 1
  <1>1. /\ Outside /\ aqua[o][t].count \notin {0, Docked} /\ from # Self
        /\ Transfer(t, from, MakerOf[o], 1, 1)
        /\ aqua' = [aqua EXCEPT ![o][t].raw = n]
        /\ gifts' = IF strategy[o].status = "Unknown" THEN gifts ELSE [gifts EXCEPT ![o][t] = g]
        /\ UNCHANGED donated
    BY DEF Push
  <1>2. /\ n \in Nat /\ g \in Nat /\ StoreOK
        /\ gifts \in [Orders -> [Tokens -> Nat]]
    BY DEF Typed, StoreOK, EntryType
  <1> HIDE DEF n, g
  <1>3. RawOnly(o, t, n)
    <2>1. RawSet(o, t, n)
      BY <1>1 DEF RawSet
    <2> QED BY <1>2, <2>1, RawEffect
  <1>4. /\ gifts' \in [Orders -> [Tokens -> Nat]]
        /\ strategy[o].status # "Unknown" => gifts'[o][t] = g
        /\ \A p \in Orders, u \in Tokens : p # o \/ u # t => gifts'[p][u] = gifts[p][u]
    BY <1>1, <1>2, GiftEffect
  <1> QED BY <1>1, <1>3, <1>4 DEF n, g, RawOnly

LEMMA MoveEffect ==
  ASSUME Typed, NEW t \in Tokens, NEW from \in Accounts, NEW to \in Accounts, Move(t, from, to, 1)
  PROVE  /\ Outside /\ from # Self /\ from # to /\ Transfer(t, from, to, 1, 1)
         /\ donated' \in [Tokens -> Nat]
         /\ to = Self /\ t \notin {tx.i, tx.j} => donated'[t] = donated[t] + 1
         /\ ~(to = Self /\ t \notin {tx.i, tx.j}) => donated' = donated
         /\ \A u \in Tokens \ {t} : donated'[u] = donated[u]
         /\ UNCHANGED <<aqua, gifts>>
  <1>1. /\ Outside /\ from # Self /\ from # to /\ Transfer(t, from, to, 1, 1)
        /\ donated' = IF to = Self /\ t \notin {tx.i, tx.j} THEN [donated EXCEPT ![t] = @ + 1] ELSE donated
        /\ UNCHANGED <<aqua, gifts>>
    BY DEF Move
  <1>2. donated \in [Tokens -> Nat]
    BY DEF Typed, StoreOK
  <1> QED BY <1>1, <1>2

-----------------------------------------------------------------------------
(* The shapes are kept by every step. *)

\* Strategies other than one keep being sound; so does that one.
LEMMA SoundKept ==
  ASSUME Sound(strategy), NEW o \in Orders, strategy'[o].status \in {"Active", "Retired"},
         strategy'[o].status = "Active" => strategy'[o].version <= MaxVersion,
         \A p \in Orders \ {o} : strategy'[p] = strategy[p]
  PROVE  Sound(strategy')
  BY DEF Sound

\* The swap that interferers leave alone is the one there was.
LEMMA OutsideTyped ==
  ASSUME Typed, Outside,
         bal' \in [Tokens -> [Accounts -> Nat]], aqua' \in [Orders -> [Tokens -> EntryType]],
         gifts' \in [Orders -> [Tokens -> Nat]], donated' \in [Tokens -> Nat]
  PROVE  Typed'
  BY OutsideEffect DEF Typed, StoreOK, Sound

LEMMA TypedNext == Typed /\ [Next]_vars => Typed'
  <1> SUFFICES ASSUME Typed, [Next]_vars PROVE Typed'
    OBVIOUS
  <1> USE DEF Typed
  <1>1. ASSUME NEW o \in Orders, ActivateStrategy(o) PROVE Typed'
    <2>0. Typed
      OBVIOUS
    <2> DEFINE s == Activated(o)
    <2>1. /\ s \in StrategyType /\ s.status = "Active" /\ s.version = 1
          /\ strategy' = [strategy EXCEPT ![o] = s]
          /\ nonce' = [nonce EXCEPT ![MakerOf[o]] = @ + 1]
          /\ UNCHANGED <<locks, approved, aqua, bal, gifts, donated, tx, saved, moves>>
      BY <1>1, <2>0, ActivateEffect
    <2> HIDE DEF s
    <2>2. strategy' \in [Orders -> StrategyType] /\ Sound(strategy')
      <3>1. strategy' \in [Orders -> StrategyType] /\ strategy'[o] = s /\ \A p \in Orders \ {o} : strategy'[p] = strategy[p]
        BY <2>1 DEF StoreOK
      <3>2. 1 <= MaxVersion
        BY ConstantsAssumption
      <3> QED BY <2>1, <3>1, <3>2, SoundKept
    <2>3. nonce' \in [Accounts -> Nat]
      <3> DEFINE m == MakerOf[o]
      <3>1. nonce' = [nonce EXCEPT ![m] = @ + 1] /\ nonce \in [Accounts -> Nat]
        BY <2>1 DEF StoreOK
      <3>2. m \in Accounts
        BY ConstantsAssumption
      <3> HIDE DEF m
      <3> QED BY <3>1, <3>2
    <2> QED BY <2>1, <2>2, <2>3 DEF StoreOK, TxInv
  <1>2. ASSUME NEW o \in Orders, RetireStrategy(o) PROVE Typed'
    <2>0. Typed
      OBVIOUS
    <2>1. /\ strategy' \in [Orders -> StrategyType] /\ strategy'[o].status = "Retired"
          /\ \A p \in Orders \ {o} : strategy'[p] = strategy[p]
          /\ UNCHANGED <<nonce, locks, approved, aqua, bal, gifts, donated, tx, saved, moves>>
      BY <1>2, <2>0, RetireEffect
    <2>2. Sound(strategy')
      BY <2>1, SoundKept
    <2> QED BY <2>1, <2>2 DEF StoreOK, TxInv
  <1>3. ASSUME NEW o \in Orders, NEW taker \in Accounts, NEW recipient \in Accounts,
               NEW i \in Tokens, NEW j \in Tokens, NEW gross \in Grosses,
               Begin(o, taker, recipient, i, j, gross)
        PROVE  Typed'
    <2>0. Typed
      OBVIOUS
    <2> DEFINE s == Traded(strategy[o], i, j, gross, tx'.out)
    <2>1. /\ locks' = Locked /\ strategy[o].status = "Active" /\ i # j
          /\ tx' \in TxType /\ tx'.pc = "pay" /\ tx'.order = o /\ tx'.i = i /\ tx'.j = j
          /\ tx'.taker = taker /\ tx'.recipient = recipient /\ gross \in Nat
          /\ taker \notin {MakerOf[o], Self} /\ recipient \notin {MakerOf[o], Self}
          /\ tx'.out \in Nat /\ tx'.out > 0 /\ tx'.out * Scale <= strategy[o].principal[j]
          /\ FeeOf(gross) < gross /\ strategy[o].version < MaxVersion
          /\ strategy' = [strategy EXCEPT ![o] = s]
          /\ saved' = Snapshot
          /\ UNCHANGED <<nonce, approved, aqua, bal, gifts, donated, moves>>
      BY <1>3, <2>0, BeginEffect
    <2>2. s \in StrategyType /\ s.status = "Active" /\ s.version = strategy[o].version + 1
      BY <2>1, TradedEffect DEF StoreOK
    <2> HIDE DEF s
    <2>3. strategy' \in [Orders -> StrategyType] /\ Sound(strategy')
      <3>1. strategy' \in [Orders -> StrategyType] /\ strategy'[o] = s /\ \A p \in Orders \ {o} : strategy'[p] = strategy[p]
        BY <2>1, <2>2 DEF StoreOK
      <3>2. s.version <= MaxVersion
        BY <2>1, <2>2, ConstantsAssumption DEF StoreOK, StrategyType
      <3> QED BY <2>2, <3>1, <3>2, SoundKept
    <2>4. TxInv'
      BY <2>1 DEF TxInv
    <2>5. saved'.strategy = strategy /\ saved' \in StoreType
      BY <2>1, SnapshotTyped DEF Snapshot
    <2>6. StoreOK'
      BY <2>1, <2>3 DEF StoreOK
    <2> QED BY <2>1, <2>3, <2>4, <2>5, <2>6
  <1>4. ASSUME NEW o \in Orders, NEW T \in SUBSET Tokens, Dock(o, T) PROVE Typed'
    <2>0. Typed
      OBVIOUS
    <2>1. Outside /\ aqua' \in [Orders -> [Tokens -> EntryType]] /\ UNCHANGED <<bal, gifts, donated>>
      BY <1>4, <2>0, DockEffect
    <2> QED BY <2>0, <2>1, OutsideTyped DEF StoreOK
  <1>5. ASSUME NEW o \in Orders, NEW T \in SUBSET Tokens, NEW n \in Shipments, Ship(o, T, n) PROVE Typed'
    <2>0. Typed
      OBVIOUS
    <2>1. /\ aqua' \in [Orders -> [Tokens -> EntryType]]
          /\ UNCHANGED <<strategy, nonce, locks, approved, bal, gifts, donated, tx, saved, moves>>
      BY <1>5, <2>0, ShipEffect
    <2> QED BY <2>1 DEF StoreOK, TxInv
  <1>6. ASSUME NEW o \in Orders, NEW t \in Tokens, NEW from \in Accounts, Push(o, t, from, 1) PROVE Typed'
    <2>0. Typed
      OBVIOUS
    <2>1. /\ Outside /\ from # Self /\ Transfer(t, from, MakerOf[o], 1, 1)
          /\ aqua' \in [Orders -> [Tokens -> EntryType]] /\ gifts' \in [Orders -> [Tokens -> Nat]]
          /\ UNCHANGED donated
      BY <1>6, <2>0, PushEffect
    <2>2. MakerOf[o] \in Accounts /\ bal \in [Tokens -> [Accounts -> Nat]]
      BY ConstantsAssumption DEF StoreOK
    <2>3. bal' \in [Tokens -> [Accounts -> Nat]]
      BY <2>1, <2>2, TransferFrame
    <2> QED BY <2>0, <2>1, <2>3, OutsideTyped DEF StoreOK
  <1>7. ASSUME NEW t \in Tokens, NEW from \in Accounts, NEW to \in Accounts, Move(t, from, to, 1) PROVE Typed'
    <2>0. Typed
      OBVIOUS
    <2>1. /\ Outside /\ from # to /\ Transfer(t, from, to, 1, 1)
          /\ donated' \in [Tokens -> Nat] /\ UNCHANGED <<aqua, gifts>>
      BY <1>7, <2>0, MoveEffect
    <2>2. bal' \in [Tokens -> [Accounts -> Nat]]
      BY <2>1, TransferEffect DEF StoreOK
    <2> QED BY <2>0, <2>1, <2>2, OutsideTyped DEF StoreOK
  <1>8. CASE TakerPays
    <2>0. Typed
      OBVIOUS
    <2>1. /\ bal' \in [Tokens -> [Accounts -> Nat]] /\ TxInv' /\ tx' \in TxType
          /\ approved' = [approved EXCEPT ![tx.i] = tx.gross]
          /\ tx.gross \in Nat
          /\ UNCHANGED <<strategy, nonce, locks, aqua, gifts, donated, saved, moves>>
      BY <1>8, <2>0, TakerPaysEffect DEF LegDone, TxType
    <2> QED BY <2>1 DEF StoreOK
  <1>9. CASE AquaPush
    <2>0. Typed
      OBVIOUS
    <2>1. /\ bal' \in [Tokens -> [Accounts -> Nat]] /\ TxInv' /\ tx' \in TxType
          /\ aqua' \in [Orders -> [Tokens -> EntryType]]
          /\ \E left \in Nat : approved' = [approved EXCEPT ![tx.i] = left]
          /\ UNCHANGED <<strategy, nonce, locks, gifts, donated, saved, moves>>
      BY <1>9, <2>0, AquaPushEffect DEF LegDone
    <2> QED BY <2>1 DEF StoreOK
  <1>10. CASE AquaPull
    <2>0. Typed
      OBVIOUS
    <2>1. /\ bal' \in [Tokens -> [Accounts -> Nat]] /\ TxInv' /\ tx' \in TxType
          /\ aqua' \in [Orders -> [Tokens -> EntryType]]
          /\ UNCHANGED <<strategy, nonce, locks, approved, gifts, donated, saved, moves>>
      BY <1>10, <2>0, AquaPullEffect DEF LegDone
    <2> QED BY <2>1 DEF StoreOK
  <1>11. CASE Finish
    <2>0. Typed
      OBVIOUS
    <2>1. /\ tx' = Idle /\ locks' = Unlocked /\ approved' \in [Tokens -> Nat]
          /\ UNCHANGED <<strategy, nonce, aqua, bal, gifts, donated, saved, moves>>
      BY <1>11, <2>0, FinishEffect
    <2> QED BY <2>1 DEF StoreOK, TxInv, TxType, Idle
  <1>12. CASE Revert
    <2>1. /\ strategy' = saved.strategy /\ nonce' = saved.nonce /\ approved' = saved.approved
          /\ aqua' = saved.aqua /\ bal' = saved.bal /\ gifts' = saved.gifts /\ donated' = saved.donated
          /\ locks' = Unlocked /\ tx' = Idle /\ UNCHANGED <<saved, moves>>
      BY <1>12 DEF Revert
    <2>2. StoreOK'
      BY <2>1 DEF StoreOK, StoreType
    <2> QED BY <2>1, <2>2 DEF TxInv, TxType, Idle
  <1>13. CASE UNCHANGED vars
    BY <1>13 DEF vars, StoreOK, TxInv
  <1> QED BY <1>1, <1>2, <1>3, <1>4, <1>5, <1>6, <1>7, <1>8, <1>9, <1>10, <1>11, <1>12, <1>13 DEF Next

LEMMA TypedAlways == Spec => []Typed
  BY TypedInit, TypedNext, PTL DEF Spec

\* Every variable of the router, of Aqua and of the tokens keeps its shape; no
\* principal, surplus or allocation ever becomes negative.
THEOREM TypeCorrect == Spec => []TypeOK
  <1>1. ASSUME Typed PROVE TypeOK
    <2>1. locks \in [entered : BOOLEAN, pending : BOOLEAN, snapshot : BOOLEAN]
      <3>1. locks = Unlocked \/ locks = Locked
        BY <1>1 DEF Typed, TxInv
      <3>2. /\ Unlocked \in [entered : BOOLEAN, pending : BOOLEAN, snapshot : BOOLEAN]
            /\ Locked \in [entered : BOOLEAN, pending : BOOLEAN, snapshot : BOOLEAN]
        BY DEF Unlocked, Locked
      <3> QED BY <3>1, <3>2
    <2> QED BY <1>1, <2>1, SnapshotTyped DEF Typed, TypeOK
  <1> QED BY <1>1, TypedAlways, PTL

-----------------------------------------------------------------------------
(* What the router keeps *)

\* Holdings of the router are the donations, and Aqua may take none of them.
Clear(holders, gift, allowed) == \A t \in Tokens : holders[t][Self] = gift[t] /\ allowed[t] = 0

\* During a swap that is so of the state a revert goes back to, and still of
\* every token the swap is not about.
RestInv ==
  IF AtRest THEN Clear(bal, donated, approved) ELSE
    /\ Clear(saved.bal, saved.donated, saved.approved)
    /\ \A t \in Tokens \ {tx.i} : approved[t] = 0
    /\ \A t \in Tokens \ {tx.i, tx.j} : bal[t][Self] = donated[t]
    /\ \A t \in {tx.i, tx.j} : donated[t] = saved.donated[t]

\* Nobody else takes from the router, and gives only donations.
LEMMA OutsideRest ==
  ASSUME Typed, RestInv, Outside, donated' \in [Tokens -> Nat],
         \A t \in Tokens \ {tx.i, tx.j} : bal[t][Self] = donated[t] => bal'[t][Self] = donated'[t],
         \A t \in Tokens \cap {tx.i, tx.j} : donated'[t] = donated[t],
         bal' \in [Tokens -> [Accounts -> Nat]]
  PROVE  RestInv'
  <1>1. /\ UNCHANGED <<approved, saved>> /\ tx'.pc = tx.pc /\ tx'.i = tx.i /\ tx'.j = tx.j
    BY OutsideEffect DEF SameSwap
  <1>4. CASE tx.pc = "idle"
    <2>1. \A t \in Tokens : t \notin {tx.i, tx.j}
      BY <1>4, ConstantsAssumption DEF Typed, TxInv, Idle
    <2> QED BY <1>1, <1>4, <2>1 DEF RestInv, AtRest, Clear
  <1>5. CASE tx.pc # "idle"
    <2>1. tx.i \in Tokens /\ tx.j \in Tokens
      BY <1>5, OpenSwap
    <2> QED BY <1>1, <1>5, <2>1 DEF RestInv, AtRest
  <1> QED BY <1>4, <1>5

LEMMA RestNext == Typed /\ RestInv /\ [Next]_vars => RestInv'
  <1> SUFFICES ASSUME Typed, RestInv, [Next]_vars PROVE RestInv'
    OBVIOUS
  <1>1. ASSUME NEW o \in Orders, ActivateStrategy(o) PROVE RestInv'
    BY <1>1, ActivateEffect DEF RestInv, AtRest, Clear
  <1>2. ASSUME NEW o \in Orders, RetireStrategy(o) PROVE RestInv'
    BY <1>2, RetireEffect DEF RestInv, AtRest, Clear
  <1>3. ASSUME NEW o \in Orders, NEW taker \in Accounts, NEW recipient \in Accounts,
               NEW i \in Tokens, NEW j \in Tokens, NEW gross \in Grosses,
               Begin(o, taker, recipient, i, j, gross)
        PROVE  RestInv'
    <2>1. /\ tx.pc = "idle" /\ tx'.pc = "pay" /\ tx'.i = i /\ tx'.j = j /\ saved' = Snapshot
          /\ UNCHANGED <<approved, bal, donated>>
      BY <1>3, BeginEffect
    <2>2. saved'.bal = bal /\ saved'.donated = donated /\ saved'.approved = approved
      BY <2>1 DEF Snapshot
    <2> QED BY <2>1, <2>2 DEF RestInv, AtRest, Clear
  <1>4. ASSUME NEW o \in Orders, NEW T \in SUBSET Tokens, Dock(o, T) PROVE RestInv'
    <2>1. Outside /\ UNCHANGED <<bal, donated>>
      BY <1>4, DockEffect
    <2> QED BY <2>1, OutsideRest DEF Typed, StoreOK
  <1>5. ASSUME NEW o \in Orders, NEW T \in SUBSET Tokens, NEW n \in Shipments, Ship(o, T, n) PROVE RestInv'
    BY <1>5, ShipEffect DEF RestInv, AtRest, Clear
  <1>6. ASSUME NEW o \in Orders, NEW t \in Tokens, NEW from \in Accounts, Push(o, t, from, 1) PROVE RestInv'
    <2>1. Outside /\ from # Self /\ Transfer(t, from, MakerOf[o], 1, 1) /\ UNCHANGED donated
      BY <1>6, PushEffect
    <2>2. MakerOf[o] \in Accounts \ {Self} /\ Self \in Accounts /\ bal \in [Tokens -> [Accounts -> Nat]]
      BY ConstantsAssumption DEF Typed, StoreOK
    <2>3. /\ bal' \in [Tokens -> [Accounts -> Nat]]
          /\ \A a \in Accounts : a \notin {from, MakerOf[o]} => bal'[t][a] = bal[t][a]
          /\ \A u \in Tokens : u # t => bal'[u] = bal[u]
      BY <2>1, <2>2, TransferFrame
    <2>4. \A u \in Tokens : bal'[u][Self] = bal[u][Self]
      BY <2>1, <2>2, <2>3
    <2> QED BY <2>1, <2>3, <2>4, OutsideRest DEF Typed, StoreOK
  <1>7. ASSUME NEW t \in Tokens, NEW from \in Accounts, NEW to \in Accounts, Move(t, from, to, 1) PROVE RestInv'
    <2>1. /\ Outside /\ from # Self /\ from # to /\ Transfer(t, from, to, 1, 1) /\ donated' \in [Tokens -> Nat]
          /\ to = Self /\ t \notin {tx.i, tx.j} => donated'[t] = donated[t] + 1
          /\ ~(to = Self /\ t \notin {tx.i, tx.j}) => donated' = donated
          /\ \A u \in Tokens \ {t} : donated'[u] = donated[u]
      BY <1>7, MoveEffect
    <2>2. /\ bal' \in [Tokens -> [Accounts -> Nat]] /\ bal'[t][to] = bal[t][to] + 1
          /\ \A a \in Accounts : a \notin {from, to} => bal'[t][a] = bal[t][a]
          /\ \A u \in Tokens : u # t => bal'[u] = bal[u]
      <3>1. bal \in [Tokens -> [Accounts -> Nat]]
        BY DEF Typed, StoreOK
      <3>2. from # to /\ Transfer(t, from, to, 1, 1) /\ 1 \in Nat
        BY <2>1
      <3> QED BY <3>1, <3>2, TransferEffect
    <2>3. \A u \in Tokens : bal[u][Self] \in Nat /\ donated[u] \in Nat
      BY ConstantsAssumption DEF Typed, StoreOK
    <2>4. \A u \in Tokens \ {tx.i, tx.j} : bal[u][Self] = donated[u] => bal'[u][Self] = donated'[u]
      <3> SUFFICES ASSUME NEW u \in Tokens \ {tx.i, tx.j}, bal[u][Self] = donated[u]
                   PROVE  bal'[u][Self] = donated'[u]
        OBVIOUS
      <3>1. CASE u = t /\ to = Self
        BY <2>1, <2>2, <3>1
      <3>2. CASE ~(u = t /\ to = Self)
        <4>1. bal'[u][Self] = bal[u][Self]
          BY <2>1, <2>2, <3>2, ConstantsAssumption
        <4>2. donated'[u] = donated[u]
          BY <2>1, <3>2
        <4> QED BY <4>1, <4>2
      <3> QED BY <3>1, <3>2
    <2>5. \A u \in Tokens \cap {tx.i, tx.j} : donated'[u] = donated[u]
      BY <2>1
    <2> QED BY <2>1, <2>2, <2>4, <2>5, OutsideRest
  <1>8. CASE TakerPays
    <2>1. /\ tx.pc = "pay" /\ tx'.pc = "paid" /\ tx'.i = tx.i /\ tx'.j = tx.j
          /\ \A u \in Tokens : u # tx.i => bal'[u] = bal[u]
          /\ approved' = [approved EXCEPT ![tx.i] = tx.gross]
          /\ UNCHANGED <<donated, saved>>
      BY <1>8, TakerPaysEffect DEF LegDone, SameSwap
    <2>2. approved \in [Tokens -> Nat]
      BY DEF Typed, StoreOK
    <2>3. \A t \in Tokens \ {tx.i} : approved'[t] = approved[t]
      BY <2>1, <2>2
    <2> QED BY <2>1, <2>3 DEF RestInv, AtRest
  <1>9. CASE AquaPush
    <2>1. /\ tx.pc = "paid" /\ tx'.pc = "pushed" /\ tx'.i = tx.i /\ tx'.j = tx.j
          /\ \A u \in Tokens : u # tx.i => bal'[u] = bal[u]
          /\ \E left \in Nat : approved' = [approved EXCEPT ![tx.i] = left]
          /\ UNCHANGED <<donated, saved>>
      BY <1>9, AquaPushEffect DEF LegDone, SameSwap
    <2>2. approved \in [Tokens -> Nat]
      BY DEF Typed, StoreOK
    <2>3. \A t \in Tokens \ {tx.i} : approved'[t] = approved[t]
      BY <2>1, <2>2
    <2> QED BY <2>1, <2>3 DEF RestInv, AtRest
  <1>10. CASE AquaPull
    <2>1. /\ tx.pc = "pushed" /\ tx'.pc = "pulled" /\ tx'.i = tx.i /\ tx'.j = tx.j
          /\ \A u \in Tokens : u # tx.j => bal'[u] = bal[u]
          /\ UNCHANGED <<approved, donated, saved>>
      BY <1>10, AquaPullEffect DEF LegDone, SameSwap
    <2> QED BY <2>1 DEF RestInv, AtRest
  <1>11. CASE Finish
    <2>1. /\ tx.pc = "pulled" /\ Settled /\ tx' = Idle
          /\ approved'[tx.i] = 0 /\ approved'[tx.j] = 0
          /\ \A t \in Tokens \ {tx.i, tx.j} : approved'[t] = approved[t]
          /\ UNCHANGED <<bal, donated>>
      BY <1>11, FinishEffect
    <2>2. /\ Self # MakerOf[tx.order] /\ Self # tx.taker /\ Self # tx.recipient
          /\ tx.i \in Tokens /\ tx.j \in Tokens /\ Self \in Accounts
      BY <2>1, OpenSwap
    <2>3. ASSUME NEW t \in {tx.i, tx.j} PROVE bal[t][Self] = saved.bal[t][Self]
      <3>1. bal[t][Self] = saved.bal[t][Self] + Delta(t, Self)
        BY <2>1 DEF Settled, Roles
      <3>2. Delta(t, Self) = 0
        BY <2>2 DEF Delta
      <3>3. saved.bal[t][Self] \in Nat
        BY <2>2 DEF Typed, StoreType
      <3> QED BY <3>1, <3>2, <3>3
    <2>4. \A t \in Tokens : bal[t][Self] = donated[t]
      BY <2>1, <2>2, <2>3 DEF RestInv, AtRest, Clear
    <2>5. \A t \in Tokens : approved'[t] = 0
      BY <2>1, <2>2 DEF RestInv, AtRest
    <2>6. tx'.pc = "idle"
      BY <2>1 DEF Idle
    <2> QED BY <2>1, <2>4, <2>5, <2>6 DEF RestInv, AtRest, Clear
  <1>12. CASE Revert
    <2>1. /\ tx.pc # "idle" /\ tx' = Idle /\ bal' = saved.bal /\ donated' = saved.donated /\ approved' = saved.approved
      BY <1>12 DEF Revert
    <2>2. tx'.pc = "idle"
      BY <2>1 DEF Idle
    <2> QED BY <2>1, <2>2 DEF RestInv, AtRest, Clear
  <1>13. CASE UNCHANGED vars
    BY <1>13 DEF vars, RestInv, AtRest, Clear
  <1> QED BY <1>1, <1>2, <1>3, <1>4, <1>5, <1>6, <1>7, <1>8, <1>9, <1>10, <1>11, <1>12, <1>13 DEF Next

\* Between transactions the router holds the donations and nothing else, Aqua
\* may take none of it, and no lock of an earlier swap is left.
THEOREM RouterKeepsNothing == Spec => []NothingLeftBehind
  <1>1. Init => RestInv
    BY ConstantsAssumption DEF Init, RestInv, AtRest, Clear, Idle, Zero
  <1>2. Typed /\ RestInv => NothingLeftBehind
    BY DEF Typed, TxInv, RestInv, AtRest, Clear, NothingLeftBehind
  <1> QED BY <1>1, <1>2, RestNext, TypedAlways, PTL DEF Spec

-----------------------------------------------------------------------------
(* The two ledgers *)

\* What Aqua allocates to a strategy covers what the strategy requires, its
\* surplus and the gifts, but for what the open swap has still to move.  An entry
\* of an activated strategy has the count of all tokens, or was docked.
Agrees(s, t, e, g, due) ==
  IF s.status = "Unknown" THEN g = 0 ELSE
    /\ e.count \in {NTokens, Docked}
    /\ e.count = NTokens => (e.raw + due) * Scale = Required(s, t) + s.surplus[t] + g * Scale

Due(o, t) ==
  IF o # tx.order THEN 0
  ELSE IF t = tx.i /\ tx.pc \in {"pay", "paid"} THEN tx.gross
  ELSE IF t = tx.j /\ tx.pc \in {"pay", "paid", "pushed"} THEN -tx.out
  ELSE 0

SavedLedger ==
  ~AtRest => \A o \in Orders, t \in Tokens :
    Agrees(saved.strategy[o], t, saved.aqua[o][t], saved.gifts[o][t], 0)

LedgerInv ==
  /\ \A o \in Orders, t \in Tokens : Agrees(strategy[o], t, aqua[o][t], gifts[o][t], Due(o, t))
  /\ SavedLedger

\* Amounts of an activated strategy are integers.
LEMMA RequiredNat ==
  ASSUME NEW s \in StrategyType, NEW t \in Tokens
  PROVE  Required(s, t) \in Nat /\ s.surplus[t] \in Nat
  <1>1. s.principal[t] \in Nat /\ s.fees[t] \in Nat /\ s.surplus[t] \in Nat
    BY DEF StrategyType
  <1>2. s.fees[t] * Scale \in Nat
    BY <1>1, ScaleNat
  <1> QED BY <1>1, <1>2 DEF Required

\* An amount that reaches the allocation is no longer due.
LEMMA AgreesMoved ==
  ASSUME NEW s, NEW t \in Tokens, NEW e \in EntryType, NEW f \in EntryType, NEW g \in Nat,
         NEW due \in Int, NEW n \in Int, f.raw = e.raw + n, f.count = e.count,
         Agrees(s, t, e, g, due)
  PROVE  Agrees(s, t, f, g, due - n)
  <1>1. e.raw \in Int
    BY DEF EntryType
  <1>2. f.raw + (due - n) = e.raw + due
    BY <1>1
  <1> QED BY <1>2 DEF Agrees

\* A gift enters the allocation and the history of gifts.
LEMMA AgreesGift ==
  ASSUME NEW s \in StrategyType, NEW t \in Tokens, NEW e \in EntryType, NEW f \in EntryType, NEW g \in Nat,
         NEW due \in Int, s.status # "Unknown", f.raw = e.raw + 1, f.count = e.count,
         Agrees(s, t, e, g, due)
  PROVE  Agrees(s, t, f, g + 1, due)
  <1> DEFINE n == e.raw + due
             r == Required(s, t) + s.surplus[t]
  <1>1. n \in Int /\ r \in Int /\ Scale \in Int /\ f.raw + due = n + 1
    <2>1. Required(s, t) \in Nat /\ s.surplus[t] \in Nat
      BY RequiredNat
    <2>2. e.raw \in Nat
      BY DEF EntryType
    <2>3. f.raw + due = n + 1 /\ n \in Int
      BY <2>2
    <2>4. Scale \in Int
      BY ConstantsAssumption
    <2> HIDE DEF n
    <2> QED BY <2>1, <2>3, <2>4
  <1>2. e.count = NTokens => n * Scale = r + g * Scale
    BY DEF Agrees
  <1> HIDE DEF n, r
  <1>3. (n + 1) * Scale = n * Scale + Scale /\ (g + 1) * Scale = g * Scale + Scale
    BY <1>1
  <1>4. n * Scale \in Int /\ g * Scale \in Int
    BY <1>1
  <1>5. n * Scale = r + g * Scale => (n + 1) * Scale = r + (g + 1) * Scale
    BY <1>1, <1>3, <1>4
  <1>6. e.count = NTokens => (f.raw + due) * Scale = r + (g + 1) * Scale
    BY <1>1, <1>2, <1>5
  <1> QED BY <1>6 DEF Agrees, r

\* A swap that changes what a strategy requires makes the change due.
LEMMA AgreesDue ==
  ASSUME NEW s \in StrategyType, NEW w \in StrategyType, NEW t \in Tokens, NEW e \in EntryType, NEW g \in Nat,
         NEW n \in Int, s.status # "Unknown", w.status # "Unknown", w.surplus = s.surplus,
         Required(w, t) = Required(s, t) + n * Scale,
         Agrees(s, t, e, g, 0)
  PROVE  Agrees(w, t, e, g, n)
  <1> DEFINE a == e.raw
             r == Required(s, t)
             v == s.surplus[t]
             p == g * Scale
  <1>1. a \in Int /\ r \in Int /\ v \in Int /\ Scale \in Int
    BY RequiredNat, ConstantsAssumption DEF EntryType
  <1>2. p \in Int
    BY <1>1
  <1>3. e.count = NTokens => (a + 0) * Scale = r + v + p
    BY DEF Agrees
  <1>4. Required(w, t) = r + n * Scale /\ w.surplus[t] = v
    OBVIOUS
  <1> HIDE DEF a, r, v, p
  <1>5. a + 0 = a /\ (a + n) * Scale = a * Scale + n * Scale /\ a * Scale \in Int /\ n * Scale \in Int
    BY <1>1
  <1>6. a * Scale = r + v + p => (a + n) * Scale = r + n * Scale + v + p
    BY <1>1, <1>2, <1>5
  <1>7. e.count = NTokens => (a + n) * Scale = Required(w, t) + w.surplus[t] + p
    BY <1>3, <1>4, <1>5, <1>6
  <1> QED BY <1>7 DEF Agrees, a, p

\* Nothing is due of a swap that has not begun or has made its transfers.
LEMMA NothingDue ==
  ASSUME NEW o, NEW t, tx.pc \in {"idle", "pulled"}
  PROVE  Due(o, t) = 0
  BY DEF Due

\* A step that leaves both ledgers and the swap's amounts keeps their agreement.
LEMMA LedgerUntouched ==
  ASSUME LedgerInv, SavedLedger',
         UNCHANGED <<strategy, aqua, gifts>>,
         \A o \in Orders, t \in Tokens : Due(o, t)' = Due(o, t)
  PROVE  LedgerInv'
  BY DEF LedgerInv

\* Whoever interferes leaves what is due of the swap, and the state to go back to.
LEMMA OutsideDue ==
  ASSUME Typed, LedgerInv, Outside
  PROVE  SavedLedger' /\ \A o \in Orders, t \in Tokens : Due(o, t)' = Due(o, t)
  <1>1. UNCHANGED saved /\ tx'.pc = tx.pc /\ SameSwap
    BY OutsideEffect
  <1> QED BY <1>1 DEF LedgerInv, SavedLedger, AtRest, SameSwap, Due

LEMMA LedgerTyped ==
  ASSUME Typed, NEW o \in Orders, NEW t \in Tokens
  PROVE  /\ strategy[o] \in StrategyType /\ aqua[o][t] \in EntryType /\ gifts[o][t] \in Nat /\ Due(o, t) \in Int
         /\ tx.gross \in Nat /\ tx.out \in Nat
  BY DEF Typed, StoreOK, TxType, Due

LEMMA LedgerActivate ==
  ASSUME Typed, LedgerInv, NEW o \in Orders, ActivateStrategy(o)
  PROVE  LedgerInv'
  <1> DEFINE s == Activated(o)
  <1>1. /\ strategy[o].status = "Unknown" /\ Live(o) /\ strategy' = [strategy EXCEPT ![o] = s]
        /\ s.status = "Active"
        /\ \A t \in Tokens : aqua[o][t].raw * Scale = Required(s, t) + s.surplus[t]
        /\ UNCHANGED <<aqua, gifts, tx, saved>> /\ tx.pc = "idle" /\ s \in StrategyType
    BY ActivateEffect
  <1> HIDE DEF s
  <1>2. SavedLedger'
    BY <1>1 DEF SavedLedger, AtRest
  <1>3. strategy'[o] = s /\ \A p \in Orders \ {o} : strategy'[p] = strategy[p]
    BY <1>1 DEF Typed, StoreOK
  <1>4. ASSUME NEW p \in Orders, NEW t \in Tokens
        PROVE  Agrees(strategy'[p], t, aqua'[p][t], gifts'[p][t], Due(p, t)')
    <2>1. Due(p, t)' = 0 /\ Due(p, t) = 0
      BY <1>1 DEF Due
    <2>2. CASE p = o
      <3>1. gifts[o][t] = 0 /\ aqua[o][t].count = NTokens
        BY <1>1 DEF LedgerInv, Agrees, Live
      <3>2. aqua[o][t].raw \in Int /\ Required(s, t) \in Int /\ s.surplus[t] \in Int
        BY <1>1, RequiredNat, LedgerTyped DEF EntryType
      <3>3. aqua[o][t].raw + 0 = aqua[o][t].raw /\ 0 * Scale = 0
        BY <3>2, ConstantsAssumption
      <3>4. (aqua[o][t].raw + 0) * Scale = Required(s, t) + s.surplus[t] + 0 * Scale
        BY <1>1, <3>2, <3>3
      <3>5. Agrees(s, t, aqua[o][t], 0, 0)
        BY <1>1, <3>1, <3>4 DEF Agrees
      <3> QED BY <1>1, <1>3, <2>1, <2>2, <3>1, <3>5
    <2>3. CASE p # o
      BY <1>1, <1>3, <2>1, <2>3 DEF LedgerInv
    <2> QED BY <2>2, <2>3
  <1> QED BY <1>2, <1>4 DEF LedgerInv

LEMMA LedgerRetire ==
  ASSUME Typed, LedgerInv, NEW o \in Orders, RetireStrategy(o)
  PROVE  LedgerInv'
  <1>1. /\ tx.pc = "idle" /\ strategy[o].status = "Active" /\ strategy'[o].status = "Retired"
        /\ strategy'[o].principal = strategy[o].principal /\ strategy'[o].fees = strategy[o].fees
        /\ strategy'[o].surplus = strategy[o].surplus
        /\ \A p \in Orders \ {o} : strategy'[p] = strategy[p]
        /\ UNCHANGED <<aqua, gifts, tx, saved>>
    BY RetireEffect
  <1>2. SavedLedger'
    BY <1>1 DEF SavedLedger, AtRest
  <1>3. ASSUME NEW p \in Orders, NEW t \in Tokens
        PROVE  Agrees(strategy'[p], t, aqua'[p][t], gifts'[p][t], Due(p, t)')
    <2>1. Due(p, t)' = Due(p, t)
      BY <1>1 DEF Due
    <2>2. Agrees(strategy[p], t, aqua[p][t], gifts[p][t], Due(p, t))
      BY DEF LedgerInv
    <2>3. CASE p = o
      <3>1. Required(strategy'[o], t) = Required(strategy[o], t)
        BY <1>1 DEF Required
      <3> QED BY <1>1, <2>1, <2>2, <2>3, <3>1 DEF Agrees
    <2>4. CASE p # o
      BY <1>1, <2>1, <2>2, <2>4
    <2> QED BY <2>3, <2>4
  <1> QED BY <1>2, <1>3 DEF LedgerInv

LEMMA LedgerBegin ==
  ASSUME Typed, LedgerInv, NEW o \in Orders, NEW taker \in Accounts, NEW recipient \in Accounts,
         NEW i \in Tokens, NEW j \in Tokens, NEW gross \in Grosses,
         Begin(o, taker, recipient, i, j, gross)
  PROVE  LedgerInv'
  <1> DEFINE s == strategy[o]
             out == tx'.out
             w == Traded(s, i, j, gross, out)
  <1>1. /\ tx.pc = "idle" /\ s.status = "Active" /\ i # j
        /\ tx'.pc = "pay" /\ tx'.order = o /\ tx'.i = i /\ tx'.j = j /\ tx'.gross = gross /\ gross \in Nat
        /\ out \in Nat /\ out * Scale <= s.principal[j]
        /\ FeeOf(gross) < gross /\ s.version < MaxVersion
        /\ strategy' = [strategy EXCEPT ![o] = w]
        /\ saved' = Snapshot
        /\ UNCHANGED <<aqua, gifts>>
    BY BeginEffect
  <1>2. s \in StrategyType /\ strategy \in [Orders -> StrategyType]
    BY DEF Typed, StoreOK
  <1> HIDE DEF s, out
  <1>3. /\ w \in StrategyType /\ w.status = s.status /\ w.surplus = s.surplus
        /\ Required(w, i) = Required(s, i) + gross * Scale
        /\ Required(w, j) = Required(s, j) - out * Scale
        /\ \A t \in Tokens : t \notin {i, j} => Required(w, t) = Required(s, t)
    BY <1>1, <1>2, TradedEffect
  <1> HIDE DEF w
  <1>4. strategy'[o] = w /\ \A p \in Orders \ {o} : strategy'[p] = strategy[p]
    BY <1>1, <1>2
  <1>5. \A p \in Orders, t \in Tokens : Agrees(strategy[p], t, aqua[p][t], gifts[p][t], 0)
    BY <1>1, NothingDue DEF LedgerInv
  <1>6. SavedLedger'
    <2>1. saved'.strategy = strategy /\ saved'.aqua = aqua /\ saved'.gifts = gifts
      BY <1>1 DEF Snapshot
    <2> QED BY <1>5, <2>1 DEF SavedLedger
  <1>7. ASSUME NEW p \in Orders, NEW t \in Tokens
        PROVE  Agrees(strategy'[p], t, aqua'[p][t], gifts'[p][t], Due(p, t)')
    <2>1. CASE p # o
      <3>1. Due(p, t)' = 0
        BY <1>1, <2>1 DEF Due
      <3> QED BY <1>1, <1>4, <1>5, <2>1, <3>1
    <2>2. CASE p = o
      <3>1. aqua[o][t] \in EntryType /\ gifts[o][t] \in Nat /\ Agrees(s, t, aqua[o][t], gifts[o][t], 0)
        BY <1>5, LedgerTyped DEF s
      <3>2. CASE t = i
        <4>1. Due(p, t)' = gross
          BY <1>1, <2>2, <3>2 DEF Due
        <4>2. Agrees(w, t, aqua[o][t], gifts[o][t], gross)
          BY <1>1, <1>2, <1>3, <3>1, <3>2, AgreesDue
        <4> QED BY <1>1, <1>4, <2>2, <4>1, <4>2
      <3>3. CASE t = j
        <4>1. Due(p, t)' = -out
          BY <1>1, <2>2, <3>3 DEF Due, out
        <4> DEFINE n == -out
        <4>2. n \in Int /\ Required(w, t) = Required(s, t) + n * Scale
          <5>1. Required(s, t) \in Int /\ Scale \in Int /\ out \in Int
            BY <1>1, <1>2, RequiredNat, ConstantsAssumption
          <5>2. n * Scale = -(out * Scale) /\ out * Scale \in Int /\ n \in Int
            BY <5>1
          <5> HIDE DEF n
          <5> QED BY <1>3, <3>3, <5>1, <5>2
        <4> HIDE DEF n
        <4>3. Agrees(w, t, aqua[o][t], gifts[o][t], n)
          BY <1>1, <1>2, <1>3, <3>1, <4>2, AgreesDue
        <4> QED BY <1>1, <1>4, <2>2, <4>1, <4>3 DEF n
      <3>4. CASE t \notin {i, j}
        <4>1. Due(p, t)' = 0
          BY <1>1, <2>2, <3>4 DEF Due
        <4>2. Required(w, t) = Required(s, t)
          BY <1>3, <3>4
        <4> QED BY <1>1, <1>3, <1>4, <2>2, <3>1, <4>1, <4>2 DEF Agrees
      <3> QED BY <3>2, <3>3, <3>4
    <2> QED BY <2>1, <2>2
  <1> QED BY <1>6, <1>7 DEF LedgerInv

LEMMA LedgerShip ==
  ASSUME Typed, LedgerInv, NEW o \in Orders, NEW T \in SUBSET Tokens, NEW n \in Shipments, Ship(o, T, n)
  PROVE  LedgerInv'
  <1>1. /\ T # {} /\ (\A t \in T : aqua[o][t].count = 0)
        /\ \A t \in Tokens \ T : aqua'[o][t] = aqua[o][t]
        /\ \A p \in Orders \ {o} : aqua'[p] = aqua[p]
        /\ UNCHANGED <<strategy, gifts, tx, saved>>
    BY ShipEffect
  <1>2. SavedLedger'
    BY <1>1 DEF LedgerInv, SavedLedger, AtRest
  <1>3. strategy[o].status = "Unknown"
    BY <1>1, NTokensNat DEF LedgerInv, Agrees, Docked
  <1>4. ASSUME NEW p \in Orders, NEW t \in Tokens
        PROVE  Agrees(strategy'[p], t, aqua'[p][t], gifts'[p][t], Due(p, t)')
    <2>1. Due(p, t)' = Due(p, t) /\ Agrees(strategy[p], t, aqua[p][t], gifts[p][t], Due(p, t))
      BY <1>1 DEF Due, LedgerInv
    <2>2. CASE p = o
      BY <1>1, <1>3, <2>1, <2>2 DEF Agrees
    <2>3. CASE p # o
      BY <1>1, <2>1, <2>3
    <2> QED BY <2>2, <2>3
  <1> QED BY <1>2, <1>4 DEF LedgerInv

LEMMA LedgerDock ==
  ASSUME Typed, LedgerInv, NEW o \in Orders, NEW T \in SUBSET Tokens, Dock(o, T)
  PROVE  LedgerInv'
  <1>1. /\ Outside
        /\ \A t \in T : aqua'[o][t].count = Docked
        /\ \A t \in Tokens \ T : aqua'[o][t] = aqua[o][t]
        /\ \A p \in Orders \ {o} : aqua'[p] = aqua[p]
        /\ UNCHANGED gifts
    BY DockEffect
  <1>2. UNCHANGED strategy
    BY <1>1, OutsideEffect
  <1>3. SavedLedger' /\ \A p \in Orders, t \in Tokens : Due(p, t)' = Due(p, t)
    BY <1>1, OutsideDue
  <1>4. ASSUME NEW p \in Orders, NEW t \in Tokens
        PROVE  Agrees(strategy'[p], t, aqua'[p][t], gifts'[p][t], Due(p, t)')
    <2>1. Due(p, t)' = Due(p, t) /\ Agrees(strategy[p], t, aqua[p][t], gifts[p][t], Due(p, t))
      BY <1>3 DEF LedgerInv
    <2>2. CASE p = o /\ t \in T
      <3>1. aqua'[o][t].count = Docked /\ Docked # NTokens
        BY <1>1, <2>2, NTokensNat DEF Docked
      <3> QED BY <1>1, <1>2, <2>1, <2>2, <3>1 DEF Agrees
    <2>3. CASE ~(p = o /\ t \in T)
      BY <1>1, <1>2, <2>1, <2>3
    <2> QED BY <2>2, <2>3
  <1> QED BY <1>3, <1>4 DEF LedgerInv

LEMMA LedgerPush ==
  ASSUME Typed, LedgerInv, NEW o \in Orders, NEW t \in Tokens, NEW from \in Accounts, Push(o, t, from, 1)
  PROVE  LedgerInv'
  <1>1. /\ Outside /\ aqua' \in [Orders -> [Tokens -> EntryType]]
        /\ aqua'[o][t].raw = aqua[o][t].raw + 1 /\ aqua'[o][t].count = aqua[o][t].count
        /\ \A p \in Orders, u \in Tokens : p # o \/ u # t => aqua'[p][u] = aqua[p][u]
        /\ strategy[o].status = "Unknown" => gifts' = gifts
        /\ strategy[o].status # "Unknown" => gifts'[o][t] = gifts[o][t] + 1
        /\ \A p \in Orders, u \in Tokens : p # o \/ u # t => gifts'[p][u] = gifts[p][u]
    BY PushEffect
  <1>2. UNCHANGED strategy
    BY <1>1, OutsideEffect
  <1>3. SavedLedger' /\ \A p \in Orders, u \in Tokens : Due(p, u)' = Due(p, u)
    BY <1>1, OutsideDue
  <1>4. ASSUME NEW p \in Orders, NEW u \in Tokens
        PROVE  Agrees(strategy'[p], u, aqua'[p][u], gifts'[p][u], Due(p, u)')
    <2>1. Due(p, u)' = Due(p, u) /\ Agrees(strategy[p], u, aqua[p][u], gifts[p][u], Due(p, u))
      BY <1>3 DEF LedgerInv
    <2>2. CASE p # o \/ u # t
      BY <1>1, <1>2, <2>1, <2>2
    <2>3. CASE p = o /\ u = t /\ strategy[o].status = "Unknown"
      BY <1>1, <1>2, <2>1, <2>3 DEF Agrees
    <2>4. CASE p = o /\ u = t /\ strategy[o].status # "Unknown"
      <3>1. /\ strategy[o] \in StrategyType /\ aqua[o][t] \in EntryType /\ gifts[o][t] \in Nat /\ Due(o, t) \in Int
            /\ aqua'[o][t] \in EntryType
        BY <1>1, LedgerTyped
      <3>2. Agrees(strategy[o], t, aqua'[o][t], gifts[o][t] + 1, Due(o, t))
        BY <1>1, <2>1, <2>4, <3>1, AgreesGift
      <3> QED BY <1>1, <1>2, <2>1, <2>4, <3>2
    <2> QED BY <2>2, <2>3, <2>4
  <1> QED BY <1>3, <1>4 DEF LedgerInv

LEMMA LedgerAquaPush ==
  ASSUME Typed, LedgerInv, AquaPush
  PROVE  LedgerInv'
  <1>1. /\ tx.pc = "paid" /\ tx'.pc = "pushed" /\ SameSwap
        /\ aqua' \in [Orders -> [Tokens -> EntryType]]
        /\ aqua'[tx.order][tx.i].raw = aqua[tx.order][tx.i].raw + tx.gross
        /\ aqua'[tx.order][tx.i].count = aqua[tx.order][tx.i].count
        /\ \A o \in Orders, t \in Tokens : o # tx.order \/ t # tx.i => aqua'[o][t] = aqua[o][t]
        /\ UNCHANGED <<strategy, gifts, saved>>
    BY AquaPushEffect DEF LegDone
  <1>2. SavedLedger'
    BY <1>1 DEF LedgerInv, SavedLedger, AtRest
  <1>3. tx.i # tx.j
    BY <1>1, OpenSwap
  <1>4. ASSUME NEW p \in Orders, NEW u \in Tokens
        PROVE  Agrees(strategy'[p], u, aqua'[p][u], gifts'[p][u], Due(p, u)')
    <2>1. Agrees(strategy[p], u, aqua[p][u], gifts[p][u], Due(p, u))
      BY DEF LedgerInv
    <2>2. CASE p # tx.order \/ u # tx.i
      <3>1. Due(p, u)' = Due(p, u)
        BY <1>1, <2>2 DEF Due, SameSwap
      <3> QED BY <1>1, <2>1, <2>2, <3>1
    <2>3. CASE p = tx.order /\ u = tx.i
      <3>1. Due(p, u) = tx.gross /\ Due(p, u)' = 0
        BY <1>1, <1>3, <2>3 DEF Due, SameSwap
      <3>2. /\ aqua[p][u] \in EntryType /\ aqua'[p][u] \in EntryType /\ gifts[p][u] \in Nat /\ tx.gross \in Int
            /\ aqua'[p][u].raw = aqua[p][u].raw + tx.gross /\ aqua'[p][u].count = aqua[p][u].count
        BY <1>1, <2>3, LedgerTyped
      <3>3. Agrees(strategy[p], u, aqua[p][u], gifts[p][u], tx.gross)
        BY <2>1, <3>1
      <3>4. Agrees(strategy[p], u, aqua'[p][u], gifts[p][u], tx.gross - tx.gross)
        BY <3>2, <3>3, AgreesMoved
      <3>5. tx.gross - tx.gross = 0
        BY <3>2
      <3> QED BY <1>1, <3>1, <3>4, <3>5
    <2> QED BY <2>2, <2>3
  <1> QED BY <1>2, <1>4 DEF LedgerInv

LEMMA LedgerAquaPull ==
  ASSUME Typed, LedgerInv, AquaPull
  PROVE  LedgerInv'
  <1>1. /\ tx.pc = "pushed" /\ tx'.pc = "pulled" /\ SameSwap
        /\ aqua' \in [Orders -> [Tokens -> EntryType]]
        /\ aqua'[tx.order][tx.j].raw = aqua[tx.order][tx.j].raw - tx.out
        /\ aqua'[tx.order][tx.j].count = aqua[tx.order][tx.j].count
        /\ \A o \in Orders, t \in Tokens : o # tx.order \/ t # tx.j => aqua'[o][t] = aqua[o][t]
        /\ UNCHANGED <<strategy, gifts, saved>>
    BY AquaPullEffect DEF LegDone
  <1>2. SavedLedger'
    BY <1>1 DEF LedgerInv, SavedLedger, AtRest
  <1>3. tx.i # tx.j
    BY <1>1, OpenSwap
  <1>4. ASSUME NEW p \in Orders, NEW u \in Tokens
        PROVE  Agrees(strategy'[p], u, aqua'[p][u], gifts'[p][u], Due(p, u)')
    <2>1. Agrees(strategy[p], u, aqua[p][u], gifts[p][u], Due(p, u))
      BY DEF LedgerInv
    <2>2. CASE p # tx.order \/ u # tx.j
      <3>1. Due(p, u)' = Due(p, u)
        BY <1>1, <2>2 DEF Due, SameSwap
      <3> QED BY <1>1, <2>1, <2>2, <3>1
    <2>3. CASE p = tx.order /\ u = tx.j
      <3> DEFINE n == -tx.out
      <3>1. Due(p, u) = n /\ Due(p, u)' = 0
        BY <1>1, <1>3, <2>3 DEF Due, SameSwap
      <3>2. /\ aqua[p][u] \in EntryType /\ aqua'[p][u] \in EntryType /\ gifts[p][u] \in Nat
            /\ aqua'[p][u].raw = aqua[p][u].raw - tx.out /\ aqua'[p][u].count = aqua[p][u].count
            /\ tx.out \in Nat
        BY <1>1, <2>3, LedgerTyped
      <3>3. n \in Int /\ aqua'[p][u].raw = aqua[p][u].raw + n /\ n - n = 0
        BY <3>2 DEF EntryType
      <3> HIDE DEF n
      <3>4. Agrees(strategy[p], u, aqua[p][u], gifts[p][u], n)
        BY <2>1, <3>1
      <3>5. Agrees(strategy[p], u, aqua'[p][u], gifts[p][u], n - n)
        BY <3>2, <3>3, <3>4, AgreesMoved
      <3> QED BY <1>1, <3>1, <3>3, <3>5
    <2> QED BY <2>2, <2>3
  <1> QED BY <1>2, <1>4 DEF LedgerInv

LEMMA LedgerNext == Typed /\ LedgerInv /\ [Next]_vars => LedgerInv'
  <1> SUFFICES ASSUME Typed, LedgerInv, [Next]_vars PROVE LedgerInv'
    OBVIOUS
  <1>1. ASSUME NEW t \in Tokens, NEW from \in Accounts, NEW to \in Accounts, Move(t, from, to, 1) PROVE LedgerInv'
    <2>1. Outside /\ UNCHANGED <<aqua, gifts>>
      BY <1>1, MoveEffect
    <2> QED BY <2>1, OutsideEffect, OutsideDue, LedgerUntouched
  <1>2. CASE TakerPays
    <2>1. tx.pc = "pay" /\ tx'.pc = "paid" /\ SameSwap /\ UNCHANGED <<strategy, aqua, gifts, saved>>
      BY <1>2, TakerPaysEffect DEF LegDone
    <2>2. SavedLedger' /\ \A o \in Orders, t \in Tokens : Due(o, t)' = Due(o, t)
      BY <2>1 DEF SameSwap, Due, LedgerInv, SavedLedger, AtRest
    <2> QED BY <2>1, <2>2, LedgerUntouched
  <1>3. CASE Finish
    <2>1. tx.pc = "pulled" /\ tx' = Idle /\ UNCHANGED <<strategy, aqua, gifts>>
      BY <1>3, FinishEffect
    <2>2. tx'.pc = "idle"
      BY <2>1 DEF Idle
    <2>3. SavedLedger' /\ \A o \in Orders, t \in Tokens : Due(o, t)' = Due(o, t)
      BY <2>1, <2>2 DEF Due, SavedLedger, AtRest
    <2> QED BY <2>1, <2>3, LedgerUntouched
  <1>4. CASE Revert
    <2>1. /\ tx.pc # "idle" /\ tx' = Idle
          /\ strategy' = saved.strategy /\ aqua' = saved.aqua /\ gifts' = saved.gifts
      BY <1>4 DEF Revert
    <2>2. tx'.pc = "idle"
      BY <2>1 DEF Idle
    <2>3. SavedLedger' /\ \A o \in Orders, t \in Tokens : Due(o, t)' = 0
      BY <2>1, <2>2 DEF Due, SavedLedger, AtRest
    <2> QED BY <2>1, <2>3 DEF LedgerInv, SavedLedger, AtRest
  <1>5. CASE UNCHANGED vars
    <2>1. UNCHANGED <<strategy, aqua, gifts, tx, saved>>
      BY <1>5 DEF vars
    <2>2. SavedLedger' /\ \A o \in Orders, t \in Tokens : Due(o, t)' = Due(o, t)
      BY <2>1 DEF Due, LedgerInv, SavedLedger, AtRest
    <2> QED BY <2>1, <2>2, LedgerUntouched
  <1> QED
    BY <1>1, <1>2, <1>3, <1>4, <1>5, LedgerActivate, LedgerRetire, LedgerBegin, LedgerDock, LedgerShip,
       LedgerPush, LedgerAquaPush, LedgerAquaPull DEF Next

LEMMA LedgerInit == Init => LedgerInv
  <1> SUFFICES ASSUME Init PROVE LedgerInv
    OBVIOUS
  <1>1. tx.pc = "idle"
    BY DEF Init, Idle
  <1>2. \A o \in Orders, t \in Tokens : strategy[o].status = "Unknown" /\ gifts[o][t] = 0
    BY DEF Init, Unknown, Zero
  <1> QED BY <1>1, <1>2 DEF LedgerInv, SavedLedger, AtRest, Agrees

LEMMA LedgerAlways == Spec => []LedgerInv
  BY LedgerInit, LedgerNext, TypedAlways, PTL DEF Spec

\* The allocation of a live strategy is its principal, its fees, the surplus it
\* was activated with and the gifts it got, to the last internal unit, after any
\* swaps with any interference.
THEOREM LedgersAgree == Spec => []SurplusConserved
  <1>1. ASSUME Typed, LedgerInv PROVE SurplusConserved
    <2> SUFFICES ASSUME AtRest, NEW o \in Orders, NEW t \in Tokens, strategy[o].status # "Unknown", Live(o)
                 PROVE  aqua[o][t].raw * Scale = Required(strategy[o], t) + strategy[o].surplus[t] + gifts[o][t] * Scale
      BY DEF SurplusConserved
    <2>1. Due(o, t) = 0 /\ Agrees(strategy[o], t, aqua[o][t], gifts[o][t], Due(o, t))
      BY <1>1, NothingDue DEF LedgerInv, AtRest
    <2>2. aqua[o][t].count = NTokens /\ aqua[o][t].raw \in Nat
      BY <1>1, LedgerTyped DEF Live, EntryType
    <2>3. aqua[o][t].raw + 0 = aqua[o][t].raw
      BY <2>2
    <2> QED BY <2>1, <2>2, <2>3 DEF Agrees
  <1> QED BY <1>1, TypedAlways, LedgerAlways, PTL

-----------------------------------------------------------------------------
(* Versions and nonces *)

\* An open swap has changed its own strategy by one version, and nothing else of
\* the state a revert goes back to that readers take for the strategies.
OpenInv ==
  ~AtRest =>
    /\ nonce = saved.nonce
    /\ \A o \in Orders \ {tx.order} : strategy[o] = saved.strategy[o]
    /\ strategy[tx.order].status = "Active" /\ saved.strategy[tx.order].status = "Active"
    /\ strategy[tx.order].version = saved.strategy[tx.order].version + 1

\* The kinds of steps: between swaps, opening one, within one, and its two ends.
Idling(o) == AtRest /\ AtRest' /\ (ActivateStrategy(o) \/ RetireStrategy(o))
Waiting == AtRest /\ AtRest' /\ UNCHANGED <<strategy, nonce>>
Swapping == ~AtRest /\ ~AtRest' /\ SameSwap /\ UNCHANGED <<strategy, nonce, saved>>

Opening(o) ==
  /\ AtRest /\ ~AtRest' /\ tx'.order = o /\ saved' = Snapshot /\ nonce' = nonce
  /\ strategy' \in [Orders -> StrategyType]
  /\ strategy[o].status = "Active" /\ strategy'[o].status = "Active"
  /\ strategy'[o].version = strategy[o].version + 1
  /\ \A p \in Orders \ {o} : strategy'[p] = strategy[p]

Closing ==
  /\ ~AtRest /\ AtRest'
  /\ \/ UNCHANGED <<strategy, nonce>>
     \/ strategy' = saved.strategy /\ nonce' = saved.nonce

LEMMA OutsideKind ==
  ASSUME Typed, Outside
  PROVE  Waiting \/ Swapping
  BY OutsideEffect DEF Waiting, Swapping, AtRest

LEMMA LegKind ==
  ASSUME NEW from, from # "idle", NEW next, next # "idle", NEW t, NEW payer, NEW payee, NEW amount,
         LegDone(from, next, t, payer, payee, amount), UNCHANGED <<strategy, nonce, saved>>
  PROVE  Swapping
  BY DEF LegDone, Swapping, AtRest

LEMMA BeginKind ==
  ASSUME Typed, NEW o \in Orders, NEW taker \in Accounts, NEW recipient \in Accounts,
         NEW i \in Tokens, NEW j \in Tokens, NEW gross \in Grosses,
         Begin(o, taker, recipient, i, j, gross)
  PROVE  Opening(o)
  <1> DEFINE s == strategy[o]
             out == tx'.out
             w == Traded(s, i, j, gross, out)
  <1>1. /\ tx.pc = "idle" /\ s.status = "Active" /\ i # j
        /\ tx'.pc = "pay" /\ tx'.order = o /\ gross \in Nat
        /\ out \in Nat /\ out * Scale <= s.principal[j]
        /\ FeeOf(gross) < gross /\ s.version < MaxVersion
        /\ strategy' = [strategy EXCEPT ![o] = w]
        /\ saved' = Snapshot /\ UNCHANGED nonce
    BY BeginEffect
  <1>2. s \in StrategyType /\ strategy \in [Orders -> StrategyType]
    BY DEF Typed, StoreOK
  <1>3. w \in StrategyType /\ w.status = s.status /\ w.version = s.version + 1
    <2> HIDE DEF s, out
    <2> QED BY <1>1, <1>2, TradedEffect
  <1> HIDE DEF w
  <1>4. /\ strategy' \in [Orders -> StrategyType]
        /\ strategy'[o] = w /\ \A p \in Orders \ {o} : strategy'[p] = strategy[p]
    BY <1>1, <1>2, <1>3
  <1> QED BY <1>1, <1>3, <1>4 DEF Opening, AtRest

LEMMA StepKinds ==
  ASSUME Typed, [Next]_vars
  PROVE  \/ Waiting \/ Swapping \/ Closing
         \/ \E o \in Orders : Idling(o) \/ Opening(o)
  <1>1. ASSUME NEW o \in Orders, ActivateStrategy(o) PROVE Idling(o)
    BY <1>1, ActivateEffect DEF Idling, AtRest
  <1>2. ASSUME NEW o \in Orders, RetireStrategy(o) PROVE Idling(o)
    BY <1>2, RetireEffect DEF Idling, AtRest
  <1>3. ASSUME NEW o \in Orders, NEW T \in SUBSET Tokens, Dock(o, T) PROVE Waiting \/ Swapping
    BY <1>3, DockEffect, OutsideKind
  <1>4. ASSUME NEW o \in Orders, NEW T \in SUBSET Tokens, NEW n \in Shipments, Ship(o, T, n)
        PROVE  Waiting \/ Swapping
    BY <1>4, ShipEffect DEF Waiting, Swapping, AtRest, SameSwap
  <1>5. ASSUME NEW o \in Orders, NEW t \in Tokens, NEW from \in Accounts, Push(o, t, from, 1)
        PROVE  Waiting \/ Swapping
    BY <1>5, PushEffect, OutsideKind
  <1>6. ASSUME NEW t \in Tokens, NEW from \in Accounts, NEW to \in Accounts, Move(t, from, to, 1)
        PROVE  Waiting \/ Swapping
    BY <1>6, MoveEffect, OutsideKind
  <1>7. CASE TakerPays
    BY <1>7, TakerPaysEffect, LegKind
  <1>8. CASE AquaPush
    BY <1>8, AquaPushEffect, LegKind
  <1>9. CASE AquaPull
    BY <1>9, AquaPullEffect, LegKind
  <1>10. CASE Finish
    BY <1>10, FinishEffect DEF Closing, AtRest, Idle
  <1>11. CASE Revert
    BY <1>11 DEF Revert, Closing, AtRest, Idle
  <1>12. CASE UNCHANGED vars
    BY <1>12 DEF vars, Waiting, Swapping, AtRest, SameSwap
  <1> QED
    BY <1>1, <1>2, <1>3, <1>4, <1>5, <1>6, <1>7, <1>8, <1>9, <1>10, <1>11, <1>12, BeginKind DEF Next

LEMMA OpenNext == Typed /\ OpenInv /\ [Next]_vars => OpenInv'
  <1> SUFFICES ASSUME Typed, OpenInv, [Next]_vars PROVE OpenInv'
    OBVIOUS
  <1>1. CASE Swapping
    BY <1>1 DEF OpenInv, Swapping, SameSwap
  <1>2. ASSUME NEW o \in Orders, Opening(o) PROVE OpenInv'
    <2>1. saved'.strategy = strategy /\ saved'.nonce = nonce
      BY <1>2 DEF Opening, Snapshot
    <2> QED BY <1>2, <2>1 DEF OpenInv, Opening
  <1>3. CASE AtRest'
    BY <1>3 DEF OpenInv
  <1> QED BY <1>1, <1>2, <1>3, StepKinds DEF Waiting, Closing, Idling

LEMMA OpenAlways == Spec => []OpenInv
  <1>1. Init => OpenInv
    BY DEF Init, Idle, OpenInv, AtRest
  <1> QED BY <1>1, OpenNext, TypedAlways, PTL DEF Spec

VersionStep ==
  \A o \in Orders :
    LET s == Committed.strategy[o]
        t == Committed'.strategy[o]
    IN s # t => /\ s.status # "Retired"
                /\ t.version = s.version + 1
                /\ Rank(t.status) >= Rank(s.status)

\* The strategies a reader of the chain sees.
LEMMA CommittedStrategy ==
  /\ Committed.strategy = IF AtRest THEN strategy ELSE saved.strategy
  /\ Committed'.strategy = IF AtRest' THEN strategy' ELSE saved'.strategy
  BY DEF Committed, Snapshot

LEMMA VersionNext == Typed /\ OpenInv /\ [Next]_vars => VersionStep
  <1> SUFFICES ASSUME Typed, OpenInv, [Next]_vars PROVE VersionStep
    OBVIOUS
  <1> DEFINE c == Committed.strategy
             d == Committed'.strategy
  <1>0. /\ AtRest => c = strategy
        /\ ~AtRest => c = saved.strategy
        /\ AtRest' => d = strategy'
        /\ ~AtRest' => d = saved'.strategy
    BY CommittedStrategy
  <1> HIDE DEF c, d
  <1>q. SUFFICES ASSUME NEW o \in Orders, c[o] # d[o]
                 PROVE  /\ c[o].status # "Retired"
                        /\ d[o].version = c[o].version + 1
                        /\ Rank(d[o].status) >= Rank(c[o].status)
    BY DEF VersionStep, c, d
  <1>1. ~Waiting
    BY <1>0, <1>q DEF Waiting
  <1>2. ~Swapping
    BY <1>0, <1>q DEF Swapping
  <1>3. \A p \in Orders : ~Opening(p)
    BY <1>0, <1>q DEF Opening, Snapshot
  <1>4. CASE Closing
    <2>1. c = saved.strategy /\ d = strategy' /\ (strategy' = strategy \/ strategy' = saved.strategy)
      BY <1>0, <1>4 DEF Closing
    <2>2. d = strategy
      BY <1>q, <2>1
    <2>3. o = tx.order /\ d[o].status = "Active" /\ c[o].status = "Active" /\ d[o].version = c[o].version + 1
      BY <1>4, <1>q, <2>1, <2>2 DEF OpenInv, Closing
    <2> QED BY <2>3 DEF Rank
  <1>5. ASSUME NEW p \in Orders, Idling(p)
        PROVE  /\ c[o].status # "Retired"
               /\ d[o].version = c[o].version + 1
               /\ Rank(d[o].status) >= Rank(c[o].status)
    <2>1. c = strategy /\ d = strategy'
      BY <1>0, <1>5 DEF Idling
    <2>2. CASE ActivateStrategy(p)
      <3>1. /\ strategy[p].status = "Unknown" /\ strategy' = [strategy EXCEPT ![p] = Activated(p)]
            /\ Activated(p).status = "Active" /\ Activated(p).version = 1
        BY <2>2, ActivateEffect
      <3>2. strategy \in [Orders -> StrategyType]
        BY DEF Typed, StoreOK
      <3>3. strategy'[p] = Activated(p) /\ \A u \in Orders \ {p} : strategy'[u] = strategy[u]
        BY <3>1, <3>2
      <3>4. p = o
        BY <1>q, <2>1, <3>3
      <3>5. strategy[p].version = 0
        BY <3>1 DEF Typed, Sound, Unknown
      <3>6. c[o].status = "Unknown" /\ c[o].version = 0 /\ d[o].status = "Active" /\ d[o].version = 1
        BY <2>1, <3>1, <3>3, <3>4, <3>5
      <3> QED BY <3>6 DEF Rank
    <2>3. CASE RetireStrategy(p)
      <3>1. /\ strategy[p].status = "Active" /\ strategy'[p].status = "Retired"
            /\ strategy'[p].version = strategy[p].version + 1
            /\ \A u \in Orders \ {p} : strategy'[u] = strategy[u]
        BY <2>3, RetireEffect
      <3>2. p = o
        BY <1>q, <2>1, <3>1
      <3>3. c[o].status = "Active" /\ d[o].status = "Retired" /\ d[o].version = c[o].version + 1
        BY <2>1, <3>1, <3>2
      <3> QED BY <3>3 DEF Rank
    <2> QED BY <1>5, <2>2, <2>3 DEF Idling
  <1> QED BY <1>1, <1>2, <1>3, <1>4, <1>5, StepKinds

\* What is committed for a strategy changes together with its version, by one,
\* and never after it was retired: a reader may take a version for a state.
THEOREM VersionIsState == Spec => VersionTells
  <1>1. Spec => [][VersionStep]_vars
    BY VersionNext, TypedAlways, OpenAlways, PTL DEF Spec
  <1>2. VersionTells <=> [][VersionStep]_vars
    BY PTL DEF VersionTells, VersionStep
  <1> QED BY <1>1, <1>2

-----------------------------------------------------------------------------
(* Nonces *)

UsedBy(m) == {o \in Orders : MakerOf[o] = m /\ strategy[o].status # "Unknown"}

\* The strategies of a maker are finitely many, one for each nonce so far.
NonceInv ==
  \A m \in Accounts :
    /\ IsFiniteSet(UsedBy(m)) /\ Cardinality(UsedBy(m)) = nonce[m]
    /\ {NonceOf[o] : o \in UsedBy(m)} = 0 .. nonce[m] - 1

LEMMA NonceKept ==
  ASSUME NonceInv, UNCHANGED nonce,
         \A o \in Orders : strategy'[o].status = "Unknown" <=> strategy[o].status = "Unknown"
  PROVE  NonceInv'
  <1>1. \A m \in Accounts : UsedBy(m)' = UsedBy(m)
    BY DEF UsedBy
  <1> QED BY <1>1 DEF NonceInv

LEMMA NonceActivate ==
  ASSUME Typed, NonceInv, NEW o \in Orders, ActivateStrategy(o)
  PROVE  NonceInv'
  <1>1. /\ strategy[o].status = "Unknown" /\ NonceOf[o] = nonce[MakerOf[o]]
        /\ strategy' = [strategy EXCEPT ![o] = Activated(o)] /\ Activated(o).status = "Active"
        /\ nonce' = [nonce EXCEPT ![MakerOf[o]] = @ + 1]
    BY ActivateEffect
  <1>2. PICK maker \in Accounts : maker = MakerOf[o]
    BY ConstantsAssumption
  <1>3. nonce'[maker] = nonce[maker] + 1 /\ \A m \in Accounts \ {maker} : nonce'[m] = nonce[m]
    BY <1>1, <1>2 DEF Typed, StoreOK
  <1>4. strategy'[o].status = "Active" /\ \A p \in Orders \ {o} : strategy'[p] = strategy[p]
    BY <1>1 DEF Typed, StoreOK
  <1>5. \A m \in Accounts \ {maker} : UsedBy(m)' = UsedBy(m)
    BY <1>2, <1>4 DEF UsedBy
  <1>6. UsedBy(maker)' = UsedBy(maker) \cup {o} /\ o \notin UsedBy(maker)
    BY <1>1, <1>2, <1>4 DEF UsedBy
  <1>7. IsFiniteSet(UsedBy(maker)') /\ Cardinality(UsedBy(maker)') = nonce'[maker]
    <2>1. IsFiniteSet(UsedBy(maker)) /\ Cardinality(UsedBy(maker)) = nonce[maker]
      BY DEF NonceInv
    <2>2. /\ IsFiniteSet(UsedBy(maker) \cup {o})
          /\ Cardinality(UsedBy(maker) \cup {o}) = Cardinality(UsedBy(maker)) + 1
      BY <1>6, <2>1, FS_AddElement
    <2> QED BY <1>3, <1>6, <2>1, <2>2
  <1>8. {NonceOf[p] : p \in UsedBy(maker)'} = 0 .. nonce'[maker] - 1
    <2>1. {NonceOf[p] : p \in UsedBy(maker)} = 0 .. nonce[maker] - 1
      BY DEF NonceInv
    <2>2. {NonceOf[p] : p \in UsedBy(maker)'} = {NonceOf[p] : p \in UsedBy(maker)} \cup {nonce[maker]}
      BY <1>1, <1>2, <1>6
    <2>3. nonce[maker] \in Nat
      BY DEF Typed, StoreOK
    <2>4. (0 .. nonce[maker] - 1) \cup {nonce[maker]} = 0 .. nonce[maker]
      BY <2>3
    <2>5. nonce'[maker] - 1 = nonce[maker]
      BY <1>3, <2>3
    <2> QED BY <2>1, <2>2, <2>4, <2>5
  <1> QED BY <1>3, <1>5, <1>7, <1>8 DEF NonceInv

LEMMA NonceNext == Typed /\ OpenInv /\ NonceInv /\ [Next]_vars => NonceInv'
  <1> SUFFICES ASSUME Typed, OpenInv, NonceInv, [Next]_vars PROVE NonceInv'
    OBVIOUS
  <1>1. CASE Waiting \/ Swapping
    BY <1>1, NonceKept DEF Waiting, Swapping
  <1>2. ASSUME NEW o \in Orders, Opening(o) PROVE NonceInv'
    BY <1>2, NonceKept DEF Opening
  <1>3. ASSUME NEW o \in Orders, Idling(o) PROVE NonceInv'
    <2>1. CASE RetireStrategy(o)
      BY <2>1, RetireEffect, NonceKept
    <2> QED BY <1>3, <2>1, NonceActivate DEF Idling
  <1>4. CASE Closing
    <2>1. \A o \in Orders : saved.strategy[o].status = "Unknown" <=> strategy[o].status = "Unknown"
      BY <1>4 DEF OpenInv, Closing
    <2> QED BY <1>4, <2>1, NonceKept DEF Closing, OpenInv
  <1> QED BY <1>1, <1>2, <1>3, <1>4, StepKinds

LEMMA NonceInit == Init => NonceInv
  <1> SUFFICES ASSUME Init, NEW m \in Accounts
               PROVE  /\ IsFiniteSet(UsedBy(m)) /\ Cardinality(UsedBy(m)) = nonce[m]
                      /\ {NonceOf[o] : o \in UsedBy(m)} = 0 .. nonce[m] - 1
    BY DEF NonceInv
  <1>1. UsedBy(m) = {} /\ nonce[m] = 0
    BY DEF Init, UsedBy, Unknown
  <1>2. {NonceOf[o] : o \in UsedBy(m)} = {} /\ 0 .. 0 - 1 = {}
    BY <1>1
  <1> QED BY <1>1, <1>2, FS_EmptySet

\* No two strategies of a maker were activated with one nonce, and none was skipped.
THEOREM NoncesAreUsedOnce == Spec => []OneStrategyPerNonce
  <1>1. NonceInv => OneStrategyPerNonce
    BY DEF NonceInv, OneStrategyPerNonce, UsedBy
  <1> QED BY <1>1, NonceInit, NonceNext, TypedAlways, OpenAlways, PTL DEF Spec

-----------------------------------------------------------------------------
(* Honest swaps *)

Change(x, n) == IF x THEN n ELSE 0

\* What the legs made so far have changed a role's balance of a token by.
Paid(t, x) ==
  LET m == MakerOf[tx.order] IN
    Change(tx.pc # "pay" /\ t = tx.i /\ x = tx.taker, -tx.gross)
  + Change(tx.pc = "paid" /\ t = tx.i /\ x = Self, tx.gross)
  + Change(tx.pc \in {"pushed", "pulled"} /\ t = tx.i /\ x = m, tx.gross)
  + Change(tx.pc = "pulled" /\ t = tx.j /\ x = m, -tx.out)
  + Change(tx.pc = "pulled" /\ t = tx.j /\ x = tx.recipient, tx.out)

\* As long as tokens did what they were asked to and nobody interfered, exactly
\* the legs made so far have changed balances and allocations.
CleanInv ==
  ~AtRest /\ tx.clean =>
    /\ Live(tx.order)
    /\ \A t \in {tx.i, tx.j}, x \in Accounts : bal[t][x] = saved.bal[t][x] + Paid(t, x)
    /\ aqua[tx.order][tx.i].raw = saved.aqua[tx.order][tx.i].raw + Change(tx.pc \in {"pushed", "pulled"}, tx.gross)
    /\ aqua[tx.order][tx.j].raw = saved.aqua[tx.order][tx.j].raw - Change(tx.pc = "pulled", tx.out)

\* An exact transfer, holder by holder.
Shift(t, x, token, payer, payee, amount) ==
  Change(t = token /\ x = payer, -amount) + Change(t = token /\ x = payee, amount)

LEMMA CleanShift ==
  ASSUME Typed, NEW from, NEW next, NEW token \in Tokens, NEW payer \in Accounts, NEW payee \in Accounts,
         NEW amount \in Nat, payer # payee, LegDone(from, next, token, payer, payee, amount), tx'.clean,
         NEW t \in Tokens, NEW x \in Accounts
  PROVE  bal'[t][x] = bal[t][x] + Shift(t, x, token, payer, payee, amount)
  <1>1. /\ \A a \in Accounts : a \notin {payer, payee} => bal'[token][a] = bal[token][a]
        /\ \A u \in Tokens : u # token => bal'[u] = bal[u]
        /\ bal'[token][payer] = bal[token][payer] - amount
        /\ bal'[token][payee] = bal[token][payee] + amount
    BY DEF LegDone
  <1>2. bal[t][x] \in Nat
    BY DEF Typed, StoreOK
  <1>3. CASE t = token /\ x = payer
    <2>1. Shift(t, x, token, payer, payee, amount) = -amount + 0
      BY <1>3 DEF Shift, Change
    <2> QED BY <1>1, <1>2, <1>3, <2>1
  <1>4. CASE t = token /\ x = payee
    <2>1. Shift(t, x, token, payer, payee, amount) = 0 + amount
      BY <1>4 DEF Shift, Change
    <2> QED BY <1>1, <1>2, <1>4, <2>1
  <1>5. CASE t # token \/ x \notin {payer, payee}
    <2>1. Shift(t, x, token, payer, payee, amount) = 0
      BY <1>5 DEF Shift, Change
    <2>2. bal'[t][x] = bal[t][x]
      BY <1>1, <1>5
    <2> QED BY <1>2, <2>1, <2>2
  <1> QED BY <1>3, <1>4, <1>5

\* Changes are integers.
LEMMA PaidInt ==
  ASSUME Typed, NEW t, NEW x
  PROVE  Paid(t, x) \in Int
  BY DEF Typed, TxType, Paid, Change

LEMMA PaidPays ==
  ASSUME Typed, tx.pc = "pay", tx'.pc = "paid", SameSwap, NEW t \in {tx.i, tx.j}, NEW x \in Accounts
  PROVE  Paid(t, x)' = Paid(t, x) + Shift(t, x, tx.i, tx.taker, Self, tx.gross)
  BY OpenSwap DEF SameSwap, Paid, Shift, Change

LEMMA PaidPush ==
  ASSUME Typed, tx.pc = "paid", tx'.pc = "pushed", SameSwap, NEW t \in {tx.i, tx.j}, NEW x \in Accounts
  PROVE  Paid(t, x)' = Paid(t, x) + Shift(t, x, tx.i, Self, MakerOf[tx.order], tx.gross)
  BY OpenSwap DEF SameSwap, Paid, Shift, Change

LEMMA PaidPull ==
  ASSUME Typed, tx.pc = "pushed", tx'.pc = "pulled", SameSwap, NEW t \in {tx.i, tx.j}, NEW x \in Accounts
  PROVE  Paid(t, x)' = Paid(t, x) + Shift(t, x, tx.j, MakerOf[tx.order], tx.recipient, tx.out)
  BY OpenSwap DEF SameSwap, Paid, Shift, Change

\* Balances follow the legs, when a leg and the amount made so far agree.
LEMMA CleanBalances ==
  ASSUME Typed, CleanInv, ~AtRest, SameSwap, saved' = saved, tx'.clean, tx.clean,
         NEW from, NEW next, NEW token \in Tokens, NEW payer \in Accounts, NEW payee \in Accounts,
         NEW amount \in Nat, payer # payee, LegDone(from, next, token, payer, payee, amount),
         \A t \in {tx.i, tx.j}, x \in Accounts :
           Paid(t, x)' = Paid(t, x) + Shift(t, x, token, payer, payee, amount)
  PROVE  \A t \in {tx'.i, tx'.j}, x \in Accounts : bal'[t][x] = saved'.bal[t][x] + Paid(t, x)'
  <1> SUFFICES ASSUME NEW t \in {tx.i, tx.j}, NEW x \in Accounts
               PROVE  bal'[t][x] = saved.bal[t][x] + Paid(t, x)'
    BY DEF SameSwap
  <1> DEFINE n == Shift(t, x, token, payer, payee, amount)
             p == Paid(t, x)
             q == Paid(t, x)'
             b == saved.bal[t][x]
  <1>1. t \in Tokens
    BY OpenSwap DEF AtRest
  <1>2. bal[t][x] = b + p
    BY DEF CleanInv
  <1>3. bal'[t][x] = bal[t][x] + n
    BY <1>1, CleanShift
  <1>4. q = p + n
    OBVIOUS
  <1>5. p \in Int /\ b \in Int
    BY <1>1, PaidInt DEF Typed, StoreType
  <1>6. n \in Int
    BY DEF Shift, Change
  <1> HIDE DEF n, p, q, b
  <1>7. bal'[t][x] = b + q
    BY <1>2, <1>3, <1>4, <1>5, <1>6
  <1> QED BY <1>7 DEF b, q

LEMMA CleanPays ==
  ASSUME Typed, CleanInv, TakerPays
  PROVE  CleanInv'
  <1>1. /\ LegDone("pay", "paid", tx.i, tx.taker, Self, tx.gross)
        /\ UNCHANGED <<aqua, saved>>
    BY TakerPaysEffect
  <1>2. /\ tx.pc = "pay" /\ tx'.pc = "paid" /\ SameSwap /\ (tx'.clean => tx.clean)
    BY <1>1 DEF LegDone
  <1> SUFFICES ASSUME tx'.clean PROVE CleanInv'
    BY DEF CleanInv
  <1>3. /\ tx.i \in Tokens /\ tx.taker \in Accounts /\ Self \in Accounts /\ tx.taker # Self /\ tx.gross \in Nat
    BY <1>2, OpenSwap
  <1>4. \A t \in {tx.i, tx.j}, x \in Accounts :
          Paid(t, x)' = Paid(t, x) + Shift(t, x, tx.i, tx.taker, Self, tx.gross)
    BY <1>2, PaidPays
  <1>5. \A t \in {tx'.i, tx'.j}, x \in Accounts : bal'[t][x] = saved'.bal[t][x] + Paid(t, x)'
    BY <1>1, <1>2, <1>3, <1>4, CleanBalances DEF AtRest
  <1>6. /\ Live(tx.order)
        /\ aqua[tx.order][tx.i].raw = saved.aqua[tx.order][tx.i].raw + 0
        /\ aqua[tx.order][tx.j].raw = saved.aqua[tx.order][tx.j].raw - 0
    BY <1>2 DEF CleanInv, AtRest, Change
  <1>7. Live(tx.order)'
    BY <1>1, <1>2, <1>6 DEF Live, SameSwap
  <1>8. /\ (aqua[tx.order][tx.i].raw = saved.aqua[tx.order][tx.i].raw + Change(tx.pc \in {"pushed", "pulled"}, tx.gross))'
        /\ (aqua[tx.order][tx.j].raw = saved.aqua[tx.order][tx.j].raw - Change(tx.pc = "pulled", tx.out))'
    BY <1>1, <1>2, <1>6 DEF SameSwap, Change
  <1> QED BY <1>5, <1>7, <1>8 DEF CleanInv

LEMMA CleanPush ==
  ASSUME Typed, CleanInv, AquaPush
  PROVE  CleanInv'
  <1>1. /\ LegDone("paid", "pushed", tx.i, Self, MakerOf[tx.order], tx.gross)
        /\ aqua'[tx.order][tx.i].raw = aqua[tx.order][tx.i].raw + tx.gross
        /\ aqua'[tx.order][tx.i].count = aqua[tx.order][tx.i].count
        /\ \A o \in Orders, t \in Tokens : o # tx.order \/ t # tx.i => aqua'[o][t] = aqua[o][t]
        /\ UNCHANGED saved
    BY AquaPushEffect
  <1>2. /\ tx.pc = "paid" /\ tx'.pc = "pushed" /\ SameSwap /\ (tx'.clean => tx.clean)
    BY <1>1 DEF LegDone
  <1> SUFFICES ASSUME tx'.clean PROVE CleanInv'
    BY DEF CleanInv
  <1>3. /\ tx.i \in Tokens /\ tx.j \in Tokens /\ tx.i # tx.j /\ tx.order \in Orders
        /\ MakerOf[tx.order] \in Accounts /\ Self \in Accounts
        /\ MakerOf[tx.order] # Self /\ tx.gross \in Nat
    BY <1>2, OpenSwap
  <1>4. \A t \in {tx.i, tx.j}, x \in Accounts :
          Paid(t, x)' = Paid(t, x) + Shift(t, x, tx.i, Self, MakerOf[tx.order], tx.gross)
    BY <1>2, PaidPush
  <1>5. \A t \in {tx'.i, tx'.j}, x \in Accounts : bal'[t][x] = saved'.bal[t][x] + Paid(t, x)'
    BY <1>1, <1>2, <1>3, <1>4, CleanBalances DEF AtRest
  <1>6. /\ Live(tx.order)
        /\ aqua[tx.order][tx.i].raw = saved.aqua[tx.order][tx.i].raw + 0
        /\ aqua[tx.order][tx.j].raw = saved.aqua[tx.order][tx.j].raw - 0
    BY <1>2 DEF CleanInv, AtRest, Change
  <1>7. Live(tx.order)'
    BY <1>1, <1>2, <1>3, <1>6 DEF Live, SameSwap
  <1>8. saved.aqua[tx.order][tx.i].raw \in Nat
    BY <1>3 DEF Typed, StoreType, EntryType
  <1>9. /\ aqua'[tx.order][tx.i].raw = saved.aqua[tx.order][tx.i].raw + tx.gross
        /\ aqua'[tx.order][tx.j].raw = saved.aqua[tx.order][tx.j].raw - 0
    BY <1>1, <1>3, <1>6, <1>8
  <1>10. /\ (aqua[tx.order][tx.i].raw = saved.aqua[tx.order][tx.i].raw + Change(tx.pc \in {"pushed", "pulled"}, tx.gross))'
         /\ (aqua[tx.order][tx.j].raw = saved.aqua[tx.order][tx.j].raw - Change(tx.pc = "pulled", tx.out))'
    BY <1>1, <1>2, <1>9 DEF SameSwap, Change
  <1> QED BY <1>5, <1>7, <1>10 DEF CleanInv

LEMMA CleanPull ==
  ASSUME Typed, CleanInv, AquaPull
  PROVE  CleanInv'
  <1>1. /\ LegDone("pushed", "pulled", tx.j, MakerOf[tx.order], tx.recipient, tx.out)
        /\ aqua'[tx.order][tx.j].raw = aqua[tx.order][tx.j].raw - tx.out
        /\ aqua'[tx.order][tx.j].count = aqua[tx.order][tx.j].count
        /\ \A o \in Orders, t \in Tokens : o # tx.order \/ t # tx.j => aqua'[o][t] = aqua[o][t]
        /\ UNCHANGED saved
    BY AquaPullEffect
  <1>2. /\ tx.pc = "pushed" /\ tx'.pc = "pulled" /\ SameSwap /\ (tx'.clean => tx.clean)
    BY <1>1 DEF LegDone
  <1> SUFFICES ASSUME tx'.clean PROVE CleanInv'
    BY DEF CleanInv
  <1>3. /\ tx.i \in Tokens /\ tx.j \in Tokens /\ tx.i # tx.j /\ tx.order \in Orders
        /\ MakerOf[tx.order] \in Accounts /\ tx.recipient \in Accounts
        /\ MakerOf[tx.order] # tx.recipient /\ tx.out \in Nat
    BY <1>2, OpenSwap
  <1>4. \A t \in {tx.i, tx.j}, x \in Accounts :
          Paid(t, x)' = Paid(t, x) + Shift(t, x, tx.j, MakerOf[tx.order], tx.recipient, tx.out)
    BY <1>2, PaidPull
  <1>5. \A t \in {tx'.i, tx'.j}, x \in Accounts : bal'[t][x] = saved'.bal[t][x] + Paid(t, x)'
    BY <1>1, <1>2, <1>3, <1>4, CleanBalances DEF AtRest
  <1>6. /\ Live(tx.order)
        /\ aqua[tx.order][tx.i].raw = saved.aqua[tx.order][tx.i].raw + tx.gross
        /\ aqua[tx.order][tx.j].raw = saved.aqua[tx.order][tx.j].raw - 0
    BY <1>2 DEF CleanInv, AtRest, Change
  <1>7. Live(tx.order)'
    BY <1>1, <1>2, <1>3, <1>6 DEF Live, SameSwap
  <1>8. saved.aqua[tx.order][tx.j].raw \in Nat
    BY <1>3 DEF Typed, StoreType, EntryType
  <1>9. /\ aqua'[tx.order][tx.i].raw = saved.aqua[tx.order][tx.i].raw + tx.gross
        /\ aqua'[tx.order][tx.j].raw = saved.aqua[tx.order][tx.j].raw - tx.out
    BY <1>1, <1>3, <1>6, <1>8
  <1>10. /\ (aqua[tx.order][tx.i].raw = saved.aqua[tx.order][tx.i].raw + Change(tx.pc \in {"pushed", "pulled"}, tx.gross))'
         /\ (aqua[tx.order][tx.j].raw = saved.aqua[tx.order][tx.j].raw - Change(tx.pc = "pulled", tx.out))'
    BY <1>1, <1>2, <1>9 DEF SameSwap, Change
  <1> QED BY <1>5, <1>7, <1>10 DEF CleanInv

LEMMA CleanBegin ==
  ASSUME Typed, NEW o \in Orders, NEW taker \in Accounts, NEW recipient \in Accounts,
         NEW i \in Tokens, NEW j \in Tokens, NEW gross \in Grosses,
         Begin(o, taker, recipient, i, j, gross)
  PROVE  CleanInv'
  <1>1. /\ Live(o) /\ tx'.pc = "pay" /\ tx'.order = o /\ tx'.i = i /\ tx'.j = j /\ tx'.gross = gross
        /\ saved' = Snapshot /\ UNCHANGED <<aqua, bal>>
    BY BeginEffect
  <1>2. saved'.bal = bal /\ saved'.aqua = aqua
    BY <1>1 DEF Snapshot
  <1>3. Live(tx.order)'
    BY <1>1 DEF Live
  <1>4. ASSUME NEW t \in {i, j}, NEW x \in Accounts PROVE bal'[t][x] = saved'.bal[t][x] + Paid(t, x)'
    <2>1. bal[t][x] \in Nat
      BY DEF Typed, StoreOK
    <2>2. Paid(t, x)' = 0
      BY <1>1 DEF Paid, Change
    <2> QED BY <1>1, <1>2, <2>1, <2>2
  <1>5. aqua[o][i].raw \in Nat /\ aqua[o][j].raw \in Nat
    BY LedgerTyped DEF EntryType
  <1>6. /\ (aqua[tx.order][tx.i].raw = saved.aqua[tx.order][tx.i].raw + Change(tx.pc \in {"pushed", "pulled"}, tx.gross))'
        /\ (aqua[tx.order][tx.j].raw = saved.aqua[tx.order][tx.j].raw - Change(tx.pc = "pulled", tx.out))'
    BY <1>1, <1>2, <1>5 DEF Change
  <1> QED BY <1>1, <1>3, <1>4, <1>6 DEF CleanInv

LEMMA CleanShip ==
  ASSUME Typed, CleanInv, NEW o \in Orders, NEW T \in SUBSET Tokens, NEW n \in Shipments, Ship(o, T, n)
  PROVE  CleanInv'
  <1>1. /\ T # {} /\ (\A t \in T : aqua[o][t].count = 0)
        /\ \A p \in Orders \ {o} : aqua'[p] = aqua[p]
        /\ UNCHANGED <<bal, tx, saved>>
    BY ShipEffect
  <1> SUFFICES ASSUME ~AtRest, tx.clean PROVE CleanInv'
    BY <1>1 DEF CleanInv, AtRest
  <1>2. Live(tx.order) /\ tx.order \in Orders
    BY OpenSwap DEF CleanInv, AtRest
  <1>3. tx.order # o
    BY <1>1, <1>2, NTokensNat DEF Live
  <1>4. aqua'[tx.order] = aqua[tx.order]
    BY <1>1, <1>2, <1>3
  <1>5. \A t, x : Paid(t, x)' = Paid(t, x)
    BY <1>1 DEF Paid
  <1> QED BY <1>1, <1>4, <1>5 DEF CleanInv, AtRest, Live

LEMMA CleanOutside ==
  ASSUME Typed, Outside
  PROVE  CleanInv'
  BY OutsideEffect DEF CleanInv, AtRest

LEMMA CleanNext == Typed /\ CleanInv /\ [Next]_vars => CleanInv'
  <1> SUFFICES ASSUME Typed, CleanInv, [Next]_vars PROVE CleanInv'
    OBVIOUS
  <1>1. CASE Finish \/ Revert
    BY <1>1 DEF Finish, Revert, Idle, CleanInv, AtRest
  <1>2. ASSUME NEW o \in Orders, ActivateStrategy(o) \/ RetireStrategy(o) PROVE CleanInv'
    BY <1>2, ActivateEffect, RetireEffect DEF CleanInv, AtRest
  <1>3. ASSUME NEW o \in Orders, NEW T \in SUBSET Tokens, Dock(o, T) PROVE CleanInv'
    BY <1>3, DockEffect, CleanOutside
  <1>4. ASSUME NEW o \in Orders, NEW t \in Tokens, NEW from \in Accounts, Push(o, t, from, 1) PROVE CleanInv'
    BY <1>4, PushEffect, CleanOutside
  <1>5. ASSUME NEW t \in Tokens, NEW from \in Accounts, NEW to \in Accounts, Move(t, from, to, 1) PROVE CleanInv'
    BY <1>5, MoveEffect, CleanOutside
  <1>6. CASE UNCHANGED vars
    <2>1. UNCHANGED <<aqua, bal, tx, saved>>
      BY <1>6 DEF vars
    <2>2. \A t, x : Paid(t, x)' = Paid(t, x)
      BY <2>1 DEF Paid
    <2> QED BY <2>1, <2>2 DEF CleanInv, AtRest, Live
  <1> QED
    BY <1>1, <1>2, <1>3, <1>4, <1>5, <1>6, CleanBegin, CleanShip, CleanPays, CleanPush, CleanPull DEF Next

LEMMA CleanAlways == Spec => []CleanInv
  <1>1. Init => CleanInv
    BY DEF Init, Idle, CleanInv, AtRest
  <1> QED BY <1>1, CleanNext, TypedAlways, PTL DEF Spec

\* A ledger that agrees backs the strategy.
LEMMA AgreeingBacks ==
  ASSUME Typed, LedgerInv, NEW o \in Orders, strategy[o].status # "Unknown", Live(o),
         \A t \in Tokens : Due(o, t) = 0
  PROVE  Backed(strategy[o], o)
  <1> SUFFICES ASSUME NEW t \in Tokens
               PROVE  Required(strategy[o], t) <= aqua[o][t].raw * Scale
    BY DEF Backed
  <1>1. /\ strategy[o] \in StrategyType /\ aqua[o][t].raw \in Nat /\ gifts[o][t] \in Nat
        /\ aqua[o][t].count = NTokens
    BY LedgerTyped DEF EntryType, Live
  <1>2. (aqua[o][t].raw + 0) * Scale = Required(strategy[o], t) + strategy[o].surplus[t] + gifts[o][t] * Scale
    BY <1>1 DEF LedgerInv, Agrees
  <1>3. Required(strategy[o], t) \in Nat /\ strategy[o].surplus[t] \in Nat /\ gifts[o][t] * Scale \in Nat
    BY <1>1, RequiredNat, ScaleNat
  <1>4. aqua[o][t].raw + 0 = aqua[o][t].raw
    BY <1>1
  <1> QED BY <1>2, <1>3, <1>4

\* A swap whose tokens moved what they were asked to, and with which nobody
\* interfered, passes every check of the settlement, for any fee, scale and payout.
THEOREM HonestSwapsSettle == Spec => []HonestSwapCompletes
  <1>1. ASSUME Typed, OpenInv, LedgerInv, CleanInv PROVE HonestSwapCompletes
    <2> SUFFICES ASSUME tx.pc = "pulled", tx.clean PROVE Settled
      BY DEF HonestSwapCompletes
    <2> DEFINE o == tx.order
    <2>1. /\ o \in Orders /\ tx.i \in Tokens /\ tx.j \in Tokens /\ tx.i # tx.j
          /\ tx.taker \in Accounts /\ tx.recipient \in Accounts /\ MakerOf[o] \in Accounts /\ Self \in Accounts
          /\ tx.gross \in Nat /\ tx.out \in Nat
      BY <1>1, OpenSwap
    <2>2. strategy[o].status = "Active"
      BY <1>1 DEF OpenInv, AtRest
    <2>3. /\ Live(o)
          /\ \A t \in {tx.i, tx.j}, x \in Accounts : bal[t][x] = saved.bal[t][x] + Paid(t, x)
          /\ aqua[o][tx.i].raw = saved.aqua[o][tx.i].raw + tx.gross
          /\ aqua[o][tx.j].raw = saved.aqua[o][tx.j].raw - tx.out
      BY <1>1 DEF CleanInv, AtRest, Change
    <2>4. Backed(strategy[o], o)
      BY <1>1, <2>1, <2>2, <2>3, NothingDue, AgreeingBacks
    <2>5. ASSUME NEW t \in {tx.i, tx.j}, NEW x \in Roles PROVE bal[t][x] = saved.bal[t][x] + Delta(t, x)
      <3>1. x \in Accounts
        BY <2>1 DEF Roles
      <3>2. x # Self => Paid(t, x) = Delta(t, x)
        BY <2>1 DEF Paid, Delta, Change
      <3>3. Paid(t, Self) = Delta(t, Self)
        BY <2>1 DEF Paid, Delta, Change
      <3> QED BY <2>3, <3>1, <3>2, <3>3
    <2>6. /\ aqua[o][tx.i].raw - saved.aqua[o][tx.i].raw = tx.gross
          /\ aqua[o][tx.j].raw - saved.aqua[o][tx.j].raw = -tx.out
      <3>1. saved.aqua[o][tx.i].raw \in Nat /\ saved.aqua[o][tx.j].raw \in Nat
        BY <1>1, <2>1 DEF Typed, StoreType, EntryType
      <3> QED BY <2>1, <2>3, <3>1
    <2> QED BY <2>2, <2>3, <2>4, <2>5, <2>6 DEF Settled
  <1> QED BY <1>1, TypedAlways, OpenAlways, LedgerAlways, CleanAlways, PTL

=============================================================================
