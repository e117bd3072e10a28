------------------------------- MODULE Router -------------------------------
(***************************************************************************)
(* OrbitalSwapVMRouter.sol with OrbitalStorage.sol and OrbitalSettlement.sol: *)
(* strategies that makers fund from their own wallets through Aqua, and    *)
(* swaps against them.                                                     *)
(*                                                                         *)
(* Three ledgers must agree: the tokens in the wallets, the allocations in *)
(* Aqua (whole token units, the maker's to dock), and the strategy's       *)
(* principal and fees in the router (principal in internal units, Scale of *)
(* them to a token unit).  A swap changes all three, and between its       *)
(* transfers token code may run: anyone may then move tokens of their own, *)
(* push to or dock a strategy, and call the router again.  The curve is    *)
(* abstract: Solve is any payout that the output principal can bear.       *)
(* An allowance or a deadline that does not suffice is a Revert.  Init is  *)
(* after the owner renounced the router.                                   *)
(***************************************************************************)
EXTENDS Integers, FiniteSets

CONSTANTS
  Accounts,   \* addresses holding tokens, Self included
  Self,       \* this router
  Nobody,     \* no account
  Tokens,     \* the tokens of every strategy
  Orders,     \* order hashes: a configuration and its canonical order
  MakerOf, NonceOf,  \* of an order's configuration
  Initial,    \* principal at activation, in internal units, of an order and a token
  Scale,      \* internal units of one token unit
  FeePpm, FeeUnit,   \* the fee is FeePpm / FeeUnit of the gross input
  Grosses,    \* gross inputs takers offer
  Shipments,  \* amounts makers ship
  Genesis,    \* token balances at deployment
  MaxVersion, MaxMoves  \* bounds of the model

Docked == -1
NTokens == Cardinality(Tokens)

ASSUME ConstantsAssumption ==
  /\ Self \in Accounts /\ Nobody \notin Accounts \cup Tokens
  /\ IsFiniteSet(Tokens) /\ NTokens >= 2
  /\ MakerOf \in [Orders -> Accounts \ {Self}] /\ NonceOf \in [Orders -> Nat]
  /\ Initial \in [Orders -> [Tokens -> Nat]]
  /\ Scale \in Nat \ {0} /\ FeePpm \in Nat \ {0} /\ FeeUnit \in Nat \ {0}
  /\ Grosses \subseteq Nat /\ Shipments \subseteq Nat
  /\ Genesis \in [Tokens -> [Accounts -> Nat]]
  /\ \A t \in Tokens : Genesis[t][Self] = 0
  /\ MaxVersion \in Nat \ {0} /\ MaxMoves \in Nat

VARIABLES
  strategy,  \* layout().strategies: status, version, principal, fees, surplus
  nonce,     \* layout().nextNonce
  locks,     \* layout().entered, layout().pending.active, snapshot.active
  approved,  \* approved[t]: allowance of the router to Aqua
  aqua,      \* _balances of the orders' makers for this router: raw, count
  bal,       \* bal[t][a]: balanceOf in token t
  gifts,     \* history: pushes to an active order by others than the router
  donated,   \* history: tokens sent to the router, those of an open swap apart
  tx,        \* the swap in progress
  saved,     \* the state a revert goes back to, and the settlement snapshot
  moves      \* outside actions, bounded by MaxMoves

vars == <<strategy, nonce, locks, approved, aqua, bal, gifts, donated, tx, saved, moves>>

Zero == [t \in Tokens |-> 0]
Unknown == [status |-> "Unknown", version |-> 0, principal |-> Zero, fees |-> Zero, surplus |-> Zero]
Unlocked == [entered |-> FALSE, pending |-> FALSE, snapshot |-> FALSE]
NoEntry == [raw |-> 0, count |-> 0]

Idle == [pc |-> "idle", order |-> Nobody, taker |-> Nobody, recipient |-> Nobody, i |-> Nobody, j |-> Nobody,
         gross |-> 0, out |-> 0, clean |-> TRUE]

Snapshot == [strategy |-> strategy, nonce |-> nonce, approved |-> approved, aqua |-> aqua,
             bal |-> bal, gifts |-> gifts, donated |-> donated]

Init ==
  /\ strategy = [o \in Orders |-> Unknown]
  /\ nonce = [m \in Accounts |-> 0]
  /\ locks = Unlocked
  /\ approved = Zero
  /\ aqua = [o \in Orders |-> [t \in Tokens |-> NoEntry]]
  /\ bal = Genesis
  /\ gifts = [o \in Orders |-> Zero]
  /\ donated = Zero
  /\ tx = Idle
  /\ saved = Snapshot
  /\ moves = 0

-----------------------------------------------------------------------------
(* Strategies *)

\* Smallest raw amount that covers an internal one.
RawUp(n) == (n + Scale - 1) \div Scale

\* principal and fees of a token, in internal units.
Required(s, t) == s.principal[t] + s.fees[t] * Scale

Live(o) == \A t \in Tokens : aqua[o][t].count = NTokens

Backed(s, o) == \A t \in Tokens : Required(s, t) <= aqua[o][t].raw * Scale

Activated(o) ==
  [status |-> "Active", version |-> 1, principal |-> Initial[o], fees |-> Zero,
   surplus |-> [t \in Tokens |-> aqua[o][t].raw * Scale - Initial[o][t]]]

\* Mutant of NextNonce: the nonce is not used up.
SameNonce(m) == nonce

NextNonce(m) == [nonce EXCEPT ![m] = @ + 1]

ActivateStrategy(o) ==
  /\ ~locks.entered
  /\ strategy[o].status = "Unknown"
  /\ NonceOf[o] = nonce[MakerOf[o]]
  /\ Live(o)
  /\ Backed(Activated(o), o)
  /\ \A t \in Tokens : bal[t][MakerOf[o]] >= RawUp(Initial[o][t])
  /\ strategy' = [strategy EXCEPT ![o] = Activated(o)]
  /\ nonce' = NextNonce(MakerOf[o])
  /\ UNCHANGED <<locks, approved, aqua, bal, gifts, donated, tx, saved, moves>>

RetireStrategy(o) ==
  /\ ~locks.entered
  /\ strategy[o].status = "Active"
  /\ strategy' = [strategy EXCEPT ![o].status = "Retired", ![o].version = @ + 1]
  /\ UNCHANGED <<nonce, locks, approved, aqua, bal, gifts, donated, tx, saved, moves>>

-----------------------------------------------------------------------------
(* A swap *)

\* feeIn: rounded up.
FeeOf(gross) == (gross * FeePpm + FeeUnit - 1) \div FeeUnit

\* executeSwap: payouts the curve may certify for an input.
Solve(s, j) == {out \in 1 .. s.principal[j] : out * Scale <= s.principal[j]}

\* Mutant of Reserves: the fee is added to the reserves as well.
ReservesWithFee(s, i, j, gross, out) ==
  [s.principal EXCEPT ![i] = @ + gross * Scale, ![j] = @ - out * Scale]

\* commitResult: the net input enters the reserves, the payout leaves them.
Reserves(s, i, j, gross, out) ==
  [s.principal EXCEPT ![i] = @ + (gross - FeeOf(gross)) * Scale, ![j] = @ - out * Scale]

\* Mutant of Fees: the fee is charged and not accrued.
FeesKept(s, i, gross) == s.fees

\* accrueFee
Fees(s, i, gross) == [s.fees EXCEPT ![i] = @ + FeeOf(gross)]

\* Mutant of NextVersion: a swap leaves the version.
SameVersion(s) == s.version

NextVersion(s) == s.version + 1

Traded(s, i, j, gross, out) ==
  [s EXCEPT !.principal = Reserves(s, i, j, gross, out), !.fees = Fees(s, i, gross), !.version = NextVersion(s)]

\* _beforeSwap and the program, up to the first transfer; all calls are views.
\* The maker must own the output (executeSwap); what it holds is promised to
\* several strategies at once.
Begin(o, taker, recipient, i, j, gross) ==
  LET s == strategy[o] IN
  /\ locks = Unlocked
  /\ s.status = "Active" /\ s.version < MaxVersion
  /\ gross > 0 /\ i # j
  /\ taker \notin {MakerOf[o], Self} /\ recipient \notin {MakerOf[o], Self}
  /\ Live(o) /\ Backed(s, o)
  /\ FeeOf(gross) < gross
  /\ \E out \in Solve(s, j) :
       /\ bal[j][MakerOf[o]] >= out
       /\ tx' = [pc |-> "pay", order |-> o, taker |-> taker, recipient |-> recipient, i |-> i, j |-> j,
                 gross |-> gross, out |-> out, clean |-> TRUE]
       /\ strategy' = [strategy EXCEPT ![o] = Traded(s, i, j, gross, out)]
  /\ locks' = [entered |-> TRUE, pending |-> TRUE, snapshot |-> TRUE]
  /\ saved' = Snapshot
  /\ UNCHANGED <<nonce, approved, aqua, bal, gifts, donated, moves>>

\* The holders of one token after a debit and a credit, perhaps of one account.
Moved(holders, from, to, debit, credit) ==
  LET change(x, n) == IF x THEN n ELSE 0
  IN [a \in DOMAIN holders |-> holders[a] - change(a = from, debit) + change(a = to, credit)]

\* Debit and credit are the amount asked for, unless the token says otherwise.
Transfer(t, from, to, debit, credit) ==
  /\ bal[t][from] >= debit
  /\ bal' = [bal EXCEPT ![t] = Moved(bal[t], from, to, debit, credit)]

Debits(n) == {n, n + 1}
Credits(n) == {n, n - 1} \cap Nat

\* One transfer of the swap; afterwards the token's code may still be running.
Leg(from, next, t, payer, payee, amount) ==
  /\ tx.pc = from
  /\ \E debit \in Debits(amount), credit \in Credits(amount) :
       /\ Transfer(t, payer, payee, debit, credit)
       /\ tx' = [tx EXCEPT !.pc = next, !.clean = @ /\ debit = amount /\ credit = amount]

\* _transferIn: the taker pays the router, which approves Aqua.
TakerPays ==
  /\ Leg("pay", "paid", tx.i, tx.taker, Self, tx.gross)
  /\ approved' = [approved EXCEPT ![tx.i] = tx.gross]
  /\ UNCHANGED <<strategy, nonce, locks, aqua, gifts, donated, saved, moves>>

\* Aqua.push for the maker.  The token may not consume the approval.
AquaPush ==
  /\ Leg("paid", "pushed", tx.i, Self, MakerOf[tx.order], tx.gross)
  /\ aqua[tx.order][tx.i].count \notin {0, Docked}
  /\ aqua' = [aqua EXCEPT ![tx.order][tx.i].raw = @ + tx.gross]
  /\ \E left \in {0, tx.gross} : approved' = [approved EXCEPT ![tx.i] = left]
  /\ UNCHANGED <<strategy, nonce, locks, gifts, donated, saved, moves>>

\* _transferOut: Aqua.pull from the maker.
AquaPull ==
  /\ Leg("pushed", "pulled", tx.j, MakerOf[tx.order], tx.recipient, tx.out)
  /\ aqua[tx.order][tx.j].raw >= tx.out
  /\ aqua' = [aqua EXCEPT ![tx.order][tx.j].raw = @ - tx.out]
  /\ UNCHANGED <<strategy, nonce, locks, approved, gifts, donated, saved, moves>>

\* What a role's balance of a token must have changed by.
Delta(t, a) ==
  LET change(x, n) == IF x THEN n ELSE 0
  IN change(t = tx.i /\ a = MakerOf[tx.order], tx.gross) - change(t = tx.i /\ a = tx.taker, tx.gross)
     + change(t = tx.j /\ a = tx.recipient, tx.out) - change(t = tx.j /\ a = MakerOf[tx.order], tx.out)

\* Mutant of Roles: the router's own balances are not compared.
RolesOutside == {MakerOf[tx.order], tx.taker, tx.recipient}

Roles == {Self, MakerOf[tx.order], tx.taker, tx.recipient}

\* Settlement.finish: balances, allocations and backing, against the snapshot.
Settled ==
  LET o == tx.order
      grown(t) == aqua[o][t].raw - saved.aqua[o][t].raw
  IN /\ strategy[o].status = "Active"
     /\ \A t \in {tx.i, tx.j}, a \in Roles : bal[t][a] = saved.bal[t][a] + Delta(t, a)
     /\ Live(o)
     /\ grown(tx.i) = tx.gross /\ grown(tx.j) = -tx.out
     /\ Backed(strategy[o], o)

\* _afterSwap: allowances, snapshot, crossings and the guard are cleared.
Finish ==
  /\ tx.pc = "pulled"
  /\ Settled
  /\ approved' = [approved EXCEPT ![tx.i] = 0, ![tx.j] = 0]
  /\ locks' = Unlocked
  /\ tx' = Idle
  /\ UNCHANGED <<strategy, nonce, aqua, bal, gifts, donated, saved, moves>>

Revert ==
  /\ tx.pc # "idle"
  /\ strategy' = saved.strategy /\ nonce' = saved.nonce /\ approved' = saved.approved
  /\ aqua' = saved.aqua /\ bal' = saved.bal /\ gifts' = saved.gifts /\ donated' = saved.donated
  /\ locks' = Unlocked
  /\ tx' = Idle
  /\ UNCHANGED <<saved, moves>>

-----------------------------------------------------------------------------
(* Everybody else: between swaps, or in a callback during one *)

Outside ==
  /\ moves < MaxMoves
  /\ moves' = moves + 1
  /\ tx' = [tx EXCEPT !.clean = (tx.pc = "idle")]
  /\ UNCHANGED <<locks, approved, saved, nonce, strategy>>

\* Aqua.ship: an entry is shipped once, with the number of tokens of its call.
Ship(o, T, n) ==
  /\ T # {} /\ \A t \in T : aqua[o][t].count = 0
  /\ aqua' = [aqua EXCEPT ![o] = [t \in Tokens |->
                IF t \in T THEN [raw |-> n, count |-> Cardinality(T)] ELSE aqua[o][t]]]
  /\ UNCHANGED <<strategy, nonce, locks, approved, bal, gifts, donated, tx, saved, moves>>

\* Aqua.dock, by the maker, for all the tokens of the ship call.
Dock(o, T) ==
  /\ Outside
  /\ T # {} /\ \A t \in T : aqua[o][t].count = Cardinality(T)
  /\ aqua' = [aqua EXCEPT ![o] = [t \in Tokens |->
                IF t \in T THEN [raw |-> 0, count |-> Docked] ELSE aqua[o][t]]]
  /\ UNCHANGED <<bal, gifts, donated>>

\* Aqua.push by anyone.
Push(o, t, from, n) ==
  /\ Outside
  /\ aqua[o][t].count \notin {0, Docked}
  /\ from # Self
  /\ Transfer(t, from, MakerOf[o], n, n)
  /\ aqua' = [aqua EXCEPT ![o][t].raw = @ + n]
  /\ gifts' = IF strategy[o].status = "Unknown" THEN gifts ELSE [gifts EXCEPT ![o][t] = @ + n]
  /\ UNCHANGED donated

\* Any account moves tokens of its own.
Move(t, from, to, n) ==
  /\ Outside
  /\ from # Self /\ from # to
  /\ Transfer(t, from, to, n, n)
  /\ donated' = IF to = Self /\ t \notin {tx.i, tx.j} THEN [donated EXCEPT ![t] = @ + n] ELSE donated
  /\ UNCHANGED <<aqua, gifts>>

Next ==
  \/ \E o \in Orders :
       \/ ActivateStrategy(o) \/ RetireStrategy(o)
       \/ \E taker, recipient \in Accounts, i, j \in Tokens, gross \in Grosses :
            Begin(o, taker, recipient, i, j, gross)
       \/ \E T \in SUBSET Tokens : Dock(o, T) \/ \E n \in Shipments : Ship(o, T, n)
       \/ \E t \in Tokens, from \in Accounts : Push(o, t, from, 1)
  \/ TakerPays \/ AquaPush \/ AquaPull \/ Finish \/ Revert
  \/ \E t \in Tokens, from, to \in Accounts : Move(t, from, to, 1)

Spec == Init /\ [][Next]_vars

-----------------------------------------------------------------------------
(* Properties *)

StrategyType ==
  [status : {"Unknown", "Active", "Retired"}, version : 0 .. MaxVersion + 1,
   principal : [Tokens -> Nat], fees : [Tokens -> Nat], surplus : [Tokens -> Nat]]

EntryType == [raw : Nat, count : {Docked} \cup 0 .. NTokens]

StoreType ==
  [strategy : [Orders -> StrategyType], nonce : [Accounts -> Nat], approved : [Tokens -> Nat],
   aqua : [Orders -> [Tokens -> EntryType]], bal : [Tokens -> [Accounts -> Nat]],
   gifts : [Orders -> [Tokens -> Nat]], donated : [Tokens -> Nat]]

TxType ==
  [pc : {"idle", "pay", "paid", "pushed", "pulled"}, order : Orders \cup {Nobody},
   taker : Accounts \cup {Nobody}, recipient : Accounts \cup {Nobody},
   i : Tokens \cup {Nobody}, j : Tokens \cup {Nobody}, gross : Nat, out : Nat, clean : BOOLEAN]

\* The shapes of the router's storage, of Aqua's and of the open swap; no
\* amount is negative, principal and surplus least of all.
TypeOK ==
  /\ Snapshot \in StoreType /\ saved \in StoreType
  /\ locks \in [entered : BOOLEAN, pending : BOOLEAN, snapshot : BOOLEAN]
  /\ tx \in TxType
  /\ moves \in 0 .. MaxMoves

AtRest == tx.pc = "idle"

\* Aqua's ledger and the router's agree to the last internal unit: what is
\* allocated to a live strategy is its principal, its fees, the surplus it was
\* activated with and what others pushed to it.  No swap, whatever was called
\* during its transfers, eats the maker's inventory or leaves fees unbacked
\* (OrbitalStorage.sol:82-88, 153-163; OrbitalSettlement.sol:112-117).
SurplusConserved ==
  AtRest =>
    \A o \in Orders, t \in Tokens :
      strategy[o].status # "Unknown" /\ Live(o) =>
        aqua[o][t].raw * Scale =
          Required(strategy[o], t) + strategy[o].surplus[t] + gifts[o][t] * Scale

\* Between transactions the router holds what was donated to it and nothing
\* else: a taxed transfer is not made good from a donation, and a donation
\* during a swap does not pass for part of it.  Aqua may take none of it, and no
\* lock, snapshot or pending crossing of an earlier swap is left to block the
\* next one (OrbitalSettlement.sol:99-111, 120; OrbitalStorage.sol:187).
NothingLeftBehind ==
  AtRest =>
    /\ locks = Unlocked
    /\ \A t \in Tokens : bal[t][Self] = donated[t] /\ approved[t] = 0

\* A swap in which tokens moved what they were asked to, and nobody
\* interfered, passes every check of Settlement.finish, whoever receives it
\* and however fee and payout were rounded.
HonestSwapCompletes == tx.pc = "pulled" /\ tx.clean => Settled

Committed == IF AtRest THEN Snapshot ELSE saved

Rank(status) == CASE status = "Unknown" -> 0 [] status = "Active" -> 1 [] status = "Retired" -> 2

\* Readers take a version for a state: whatever is committed for a strategy
\* changes together with its version, by one, and a retired strategy never
\* changes again (the pins of packages/db/src/strategy-reads.ts).
VersionTells ==
  [][\A o \in Orders :
       LET s == Committed.strategy[o]
           t == Committed'.strategy[o]
       IN s # t => /\ s.status # "Retired"
                   /\ t.version = s.version + 1
                   /\ Rank(t.status) >= Rank(s.status)]_vars

\* No two strategies of a maker were activated with the same nonce, and every
\* nonce below the next one belongs to a strategy.
OneStrategyPerNonce ==
  \A m \in Accounts :
    LET used == {o \in Orders : MakerOf[o] = m /\ strategy[o].status # "Unknown"}
    IN /\ {NonceOf[o] : o \in used} = 0 .. nonce[m] - 1
       /\ Cardinality(used) = nonce[m]
=============================================================================
