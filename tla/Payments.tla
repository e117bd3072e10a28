------------------------------ MODULE Payments ------------------------------
(***************************************************************************)
(* OrbitalPayments.sol: invoices paid in USDC, directly or through one     *)
(* swap at the Orbital router.                                             *)
(*                                                                         *)
(* A transaction is atomic on the chain but not for the contract: every    *)
(* token call may run foreign code before it returns.  A payment is        *)
(* therefore a sequence of steps, one per external call and one per check  *)
(* after it.  While a call is open any other account may move its own      *)
(* tokens and call back into the contract; a token may also debit or       *)
(* credit an amount that is not the one asked for.  A failed check, and    *)
(* anything else that reverts, is Revert: it restores what the transaction *)
(* found.  Amounts are raw token units; ids are the hashed <<merchant,     *)
(* nonce>>; memo and route hashes are not kept.                            *)
(***************************************************************************)
EXTENDS Integers, Sequences, FiniteSets

CONSTANTS
  Accounts,       \* addresses holding tokens, Self included
  Self,           \* this contract
  Nobody,         \* address(0), no account
  Tokens,         \* token contracts, Usdc included
  Usdc,           \* USDC
  AllowedTokens,  \* allowedToken, fixed by the constructor
  Merchants,      \* accounts that create invoices
  Terms,          \* arguments createInvoice may be called with
  Routes,         \* orders payWithSwap may be called with
  Inputs,         \* input amounts offered to payWithSwap
  Minimums,       \* minimum outputs asked of payWithSwap
  Outputs,        \* amounts a route may return
  Genesis,        \* token balances at deployment
  MinLead, MaxLead, \* five minutes and thirty days
  MaxDue,         \* 2^160 / (10^12 * 2^64)
  MaxNonce, MaxTime, MaxMoves  \* bounds of the model

InvoiceIds == Merchants \X (0 .. MaxNonce - 1)
Slots == 1 .. 3
Whole == 10000

ASSUME ConstantsAssumption ==
  /\ Self \in Accounts /\ Nobody \notin Accounts
  /\ Merchants \subseteq Accounts \ {Self}
  /\ Usdc \in AllowedTokens /\ AllowedTokens \subseteq Tokens
  /\ Terms \subseteq [due : Nat, expiresAt : Nat, recipients : Seq(Accounts \cup {Nobody}), bps : Seq(Nat)]
  /\ Routes \subseteq [maker : Accounts \ {Self}, input : Tokens, hasUsdc : BOOLEAN]
  /\ Inputs \subseteq Nat /\ Minimums \subseteq Nat /\ Outputs \subseteq Nat
  /\ Genesis \in [Tokens -> [Accounts -> Nat]]
  /\ \A t \in Tokens : Genesis[t][Self] = 0
  /\ MinLead \in Nat \ {0} /\ MaxLead \in Nat /\ MaxDue \in Nat
  /\ MaxNonce \in Nat /\ MaxTime \in Nat /\ MaxMoves \in Nat

VARIABLES
  now,       \* block.timestamp
  invoices,  \* _invoices
  nonce,     \* nextMerchantNonce
  entered,   \* _entered
  bal,       \* bal[t][a]: balanceOf in token t
  allow,     \* allow[t]: allowance of this contract to the router
  settled,   \* history: by how much each invoice changed the balances it names
  donated,   \* history: tokens sent to this contract outside a payment
  tx,        \* the payment in progress
  saved,     \* the state a revert goes back to
  moves      \* number of outside transfers, bounded by MaxMoves

store == <<invoices, nonce, bal, allow, settled>>
vars == <<now, invoices, nonce, entered, bal, allow, settled, donated, tx, saved, moves>>

NoReceipt == [payer |-> Nobody, inputRaw |-> 0, receivedRaw |-> 0, refundRaw |-> 0]
NoTerms == [due |-> 0, expiresAt |-> 0, recipients |-> <<>>, bps |-> <<>>]
NotSettled == [taken |-> 0, shares |-> [i \in Slots |-> 0], refund |-> 0]
Invoice(id, t, s) == [merchant |-> id[1], terms |-> t, status |-> s, receipt |-> NoReceipt]

Idle == [pc |-> "idle", id |-> Nobody, payer |-> Nobody, maker |-> Nobody, token |-> Usdc, amount |-> 0, minimum |-> 0,
         beforeIn |-> 0, beforeUsdc |-> 0, beforePayer |-> 0, received |-> 0,
         i |-> 1, remaining |-> 0, to |-> Nobody, sending |-> 0, beforeTo |-> 0, beforeSelf |-> 0, clean |-> TRUE]

Snapshot == [invoices |-> invoices, nonce |-> nonce, bal |-> bal, allow |-> allow, settled |-> settled]

Init ==
  /\ now = 0
  /\ invoices = [id \in InvoiceIds |-> Invoice(id, NoTerms, "Unknown")]
  /\ nonce = [m \in Merchants |-> 0]
  /\ entered = FALSE
  /\ bal = Genesis
  /\ allow = [t \in Tokens |-> 0]
  /\ settled = [id \in InvoiceIds |-> NotSettled]
  /\ donated = [t \in Tokens |-> 0]
  /\ tx = Idle
  /\ saved = Snapshot
  /\ moves = 0

-----------------------------------------------------------------------------
(* Invoices *)

Total(bps) == LET at(i) == IF i \in DOMAIN bps THEN bps[i] ELSE 0 IN at(1) + at(2) + at(3)

\* The argument checks of createInvoice.
ValidTerms(t) ==
  /\ t.due > 0 /\ t.due < MaxDue
  /\ t.expiresAt >= now + MinLead /\ t.expiresAt <= now + MaxLead
  /\ Len(t.recipients) \in Slots /\ Len(t.recipients) = Len(t.bps)
  /\ \A i \in DOMAIN t.recipients :
        /\ t.recipients[i] \notin {Nobody, Self}
        /\ t.bps[i] > 0
        /\ \A j \in 1 .. i - 1 : t.recipients[j] # t.recipients[i]
  /\ Total(t.bps) = Whole

WithStatus(id, s) == [invoices EXCEPT ![id].status = s]

CreateInvoice(m, t) ==
  LET id == <<m, nonce[m]>> IN
  /\ ~entered
  /\ ValidTerms(t)
  /\ nonce[m] < MaxNonce
  /\ nonce' = [nonce EXCEPT ![m] = @ + 1]
  /\ invoices' = [invoices EXCEPT ![id] = Invoice(id, t, "Unpaid")]
  /\ UNCHANGED <<now, entered, bal, allow, settled, donated, tx, saved, moves>>

CancelInvoice(id, caller) ==
  /\ ~entered
  /\ invoices[id].status # "Unknown"
  /\ invoices[id].merchant = caller
  /\ invoices[id].status = "Unpaid"
  /\ invoices' = WithStatus(id, "Cancelled")
  /\ UNCHANGED <<now, nonce, entered, bal, allow, settled, donated, tx, saved, moves>>

-----------------------------------------------------------------------------
(* Tokens *)

\* Mutant of Exact: a surplus is tolerated.
ExactOrMore(t, a, amount) == bal[t][a] >= amount

Exact(t, a, amount) == bal[t][a] = amount

\* The holders of one token after a debit and a credit.
Moved(holders, from, to, debit, credit) == [holders EXCEPT ![from] = @ - debit, ![to] = @ + credit]

\* Mutant of Transfer: no balance check.
TransferUnfunded(t, from, to, debit, credit) ==
  bal' = [bal EXCEPT ![t] = Moved(bal[t], from, to, debit, credit)]

\* Debit and credit are the amount asked for, unless the token says otherwise.
Transfer(t, from, to, debit, credit) ==
  /\ bal[t][from] >= debit
  /\ bal' = [bal EXCEPT ![t] = Moved(bal[t], from, to, debit, credit)]

Debits(n) == {n, n + 1}
Credits(n) == {n, n - 1} \cap Nat

\* pc values at which a call into a token is still open.
Open == {"pulled", "swap", "swapped", "sent"}

-----------------------------------------------------------------------------
(* Payments *)

\* The locals of a payment function after _begin and its first balance reads.
Opened(id, payer, token, maker, amount, minimum) ==
  [pc |-> "pull", id |-> id, payer |-> payer, maker |-> maker, token |-> token, amount |-> amount, minimum |-> minimum,
   beforeIn |-> bal[token][Self], beforeUsdc |-> bal[Usdc][Self], beforePayer |-> bal[token][payer], received |-> 0,
   i |-> 1, remaining |-> 0, to |-> Nobody, sending |-> 0, beforeTo |-> 0, beforeSelf |-> 0, clean |-> TRUE]

\* Mutant of Begin: an invoice can still be paid at the instant it expires.
BeginLate(id, payer, token, maker, amount, minimum) ==
  /\ ~entered
  /\ invoices[id].status = "Unpaid"
  /\ now <= invoices[id].terms.expiresAt
  /\ entered' = TRUE
  /\ invoices' = WithStatus(id, "InProgress")
  /\ saved' = Snapshot
  /\ tx' = Opened(id, payer, token, maker, amount, minimum)
  /\ UNCHANGED <<now, nonce, bal, allow, settled, donated, moves>>

\* guarded and _begin, with the balances both payment functions note first.
Begin(id, payer, token, maker, amount, minimum) ==
  /\ ~entered
  /\ invoices[id].status = "Unpaid"
  /\ now < invoices[id].terms.expiresAt
  /\ entered' = TRUE
  /\ invoices' = WithStatus(id, "InProgress")
  /\ saved' = Snapshot
  /\ tx' = Opened(id, payer, token, maker, amount, minimum)
  /\ UNCHANGED <<now, nonce, bal, allow, settled, donated, moves>>

PayWithUSDC(id, payer) ==
  Begin(id, payer, Usdc, Nobody, invoices[id].terms.due, 0)

PayWithSwap(id, payer, route, amount, minimum) ==
  /\ route.maker # payer
  /\ route.hasUsdc
  /\ route.input # Usdc /\ route.input \in AllowedTokens
  /\ amount # 0
  /\ Begin(id, payer, route.input, route.maker, amount, minimum)

\* safeTransferFrom(payer, this, amount)
Pull ==
  /\ tx.pc = "pull"
  /\ \E debit \in Debits(tx.amount), credit \in Credits(tx.amount) :
       /\ Transfer(tx.token, tx.payer, Self, debit, credit)
       /\ tx' = [tx EXCEPT !.pc = "pulled", !.clean = (debit = tx.amount /\ credit = tx.amount)]
  /\ UNCHANGED <<now, invoices, nonce, entered, allow, settled, donated, saved, moves>>

PullExact ==
  /\ Exact(tx.token, Self, tx.beforeIn + tx.amount)
  /\ Exact(tx.token, tx.payer, tx.beforePayer - tx.amount)

WithTaken(id, n) == [settled EXCEPT ![id].taken = n]

AcceptPull ==
  /\ tx.pc = "pulled"
  /\ PullExact
  /\ settled' = WithTaken(tx.id, tx.beforePayer - bal[tx.token][tx.payer])
  /\ IF tx.token = Usdc
     THEN /\ tx' = [tx EXCEPT !.pc = "send", !.received = tx.amount,
                              !.remaining = invoices[tx.id].terms.due]
          /\ UNCHANGED allow
     ELSE /\ tx' = [tx EXCEPT !.pc = "swap"]
          /\ allow' = [allow EXCEPT ![tx.token] = tx.amount]
  /\ UNCHANGED <<now, invoices, nonce, entered, bal, donated, saved, moves>>

Threshold ==
  LET due == invoices[tx.id].terms.due IN IF tx.minimum > due THEN tx.minimum ELSE due

\* ROUTER.swap settles exactly (Settlement.finish) or reverts.  The token may
\* leave the allowance it was given unconsumed.
RouterSwap ==
  /\ tx.pc = "swap"
  /\ bal[tx.token][Self] >= tx.amount
  /\ \E out \in Outputs :
       /\ out >= Threshold
       /\ bal[Usdc][tx.maker] >= out
       /\ bal' = [bal EXCEPT
            ![tx.token] = Moved(bal[tx.token], Self, tx.maker, tx.amount, tx.amount),
            ![Usdc] = Moved(bal[Usdc], tx.maker, Self, out, out)]
       /\ tx' = [tx EXCEPT !.pc = "swapped", !.received = out]
  /\ \E left \in {0, tx.amount} : allow' = [allow EXCEPT ![tx.token] = left]
  /\ UNCHANGED <<now, invoices, nonce, entered, settled, donated, saved, moves>>

SwapExact ==
  /\ Exact(Usdc, Self, tx.beforeUsdc + tx.received)
  /\ tx.received >= invoices[tx.id].terms.due
  /\ tx.received >= tx.minimum
  /\ Exact(tx.token, Self, tx.beforeIn)

\* forceApprove(router, 0), then the comparison of what was reported with what came.
AcceptSwap ==
  /\ tx.pc = "swapped"
  /\ allow' = [allow EXCEPT ![tx.token] = 0]
  /\ SwapExact
  /\ tx' = [tx EXCEPT !.pc = "send", !.remaining = invoices[tx.id].terms.due]
  /\ UNCHANGED <<now, invoices, nonce, entered, bal, settled, donated, saved, moves>>

Payees == invoices[tx.id].terms.recipients
Refund == tx.received - invoices[tx.id].terms.due

\* Mutant of ShareOf: the last share is rounded down like the others.
ShareRoundedDown(terms, i, remaining) == (terms.due * terms.bps[i]) \div Whole

\* The last recipient gets what the rounded shares of the others left.
ShareOf(terms, i, remaining) ==
  IF i = Len(terms.recipients) THEN remaining ELSE (terms.due * terms.bps[i]) \div Whole

\* One _send: to the next recipient, then the refund to the payer.
Send ==
  /\ tx.pc = "send"
  /\ LET last == tx.i > Len(Payees)
         amount == IF last THEN Refund ELSE ShareOf(invoices[tx.id].terms, tx.i, tx.remaining)
         to == IF last THEN tx.payer ELSE Payees[tx.i]
     IN /\ last \/ amount <= tx.remaining
        /\ \E debit \in Debits(amount), credit \in Credits(amount) :
             /\ Transfer(Usdc, Self, to, debit, credit)
             /\ tx' = [tx EXCEPT !.pc = "sent", !.to = to, !.sending = amount,
                         !.beforeTo = bal[Usdc][to], !.beforeSelf = bal[Usdc][Self],
                         !.remaining = IF last THEN @ ELSE @ - amount,
                         !.clean = @ /\ debit = amount /\ credit = amount]
  /\ UNCHANGED <<now, invoices, nonce, entered, allow, settled, donated, saved, moves>>

\* Mutant of SendExact: only the contract's own balance is compared.
SendExactOwn == Exact(Usdc, Self, tx.beforeSelf - tx.sending)

SendExact ==
  /\ Exact(Usdc, tx.to, tx.beforeTo + tx.sending)
  /\ Exact(Usdc, Self, tx.beforeSelf - tx.sending)

WithShare(id, i, n) == [settled EXCEPT ![id].shares[i] = n]
WithRefund(id, n) == [settled EXCEPT ![id].refund = n]

AcceptSend ==
  /\ tx.pc = "sent"
  /\ SendExact
  /\ LET n == Len(Payees)
         more == tx.i < n \/ (tx.i = n /\ Refund # 0)
         gain == bal[Usdc][tx.to] - tx.beforeTo
     IN /\ tx' = [tx EXCEPT !.i = @ + 1, !.pc = IF more THEN "send" ELSE "finish"]
        /\ settled' = IF tx.i <= n THEN WithShare(tx.id, tx.i, gain) ELSE WithRefund(tx.id, gain)
  /\ UNCHANGED <<now, invoices, nonce, entered, bal, allow, donated, saved, moves>>

Restored ==
  /\ Exact(Usdc, Self, tx.beforeUsdc)
  /\ tx.token # Usdc => allow[tx.token] = 0

Paid(id, receipt) == [invoices EXCEPT ![id].status = "Paid", ![id].receipt = receipt]

\* The tail of _finish, the last check of the caller, and the end of guarded.
Finish ==
  /\ tx.pc = "finish"
  /\ Restored
  /\ invoices' = Paid(tx.id, [payer |-> tx.payer, inputRaw |-> tx.amount,
                                receivedRaw |-> tx.received, refundRaw |-> Refund])
  /\ entered' = FALSE
  /\ tx' = Idle
  /\ UNCHANGED <<now, nonce, bal, allow, settled, donated, saved, moves>>

Revert ==
  /\ tx.pc # "idle"
  /\ invoices' = saved.invoices /\ nonce' = saved.nonce /\ bal' = saved.bal
  /\ allow' = saved.allow /\ settled' = saved.settled
  /\ entered' = FALSE
  /\ tx' = Idle
  /\ UNCHANGED <<now, donated, saved, moves>>

-----------------------------------------------------------------------------
(* The rest of the chain *)

\* Any account moves tokens of its own, between payments or inside a token call.
Move(t, from, to, n) ==
  /\ moves < MaxMoves
  /\ tx.pc \in Open \cup {"idle"}
  /\ from # Self /\ from # to
  /\ Transfer(t, from, to, n, n)
  /\ moves' = moves + 1
  /\ donated' = IF tx.pc = "idle" /\ to = Self THEN [donated EXCEPT ![t] = @ + n] ELSE donated
  /\ tx' = IF tx.pc = "idle" THEN tx ELSE [tx EXCEPT !.clean = FALSE]
  /\ UNCHANGED <<now, invoices, nonce, entered, allow, settled, saved>>

Tick ==
  /\ tx.pc = "idle"
  /\ now < MaxTime
  /\ now' = now + 1
  /\ UNCHANGED <<invoices, nonce, entered, bal, allow, settled, donated, tx, saved, moves>>

Next ==
  \/ \E m \in Merchants, t \in Terms : CreateInvoice(m, t)
  \/ \E id \in InvoiceIds, a \in Accounts \ {Self} :
       \/ CancelInvoice(id, a)
       \/ PayWithUSDC(id, a)
       \/ \E r \in Routes, amount \in Inputs, minimum \in Minimums : PayWithSwap(id, a, r, amount, minimum)
  \/ Pull \/ AcceptPull \/ RouterSwap \/ AcceptSwap
  \/ Send \/ AcceptSend \/ Finish \/ Revert
  \/ \E t \in Tokens, from, to \in Accounts : Move(t, from, to, 1)
  \/ Tick

Spec == Init /\ [][Next]_vars

-----------------------------------------------------------------------------
(* Properties *)

TxType ==
  [pc : {"idle", "pull", "pulled", "swap", "swapped", "send", "sent", "finish"},
   id : InvoiceIds \cup {Nobody}, payer : Accounts \cup {Nobody}, maker : Accounts \cup {Nobody}, token : Tokens,
   amount : Nat, minimum : Nat, beforeIn : Nat, beforeUsdc : Nat, beforePayer : Nat, received : Nat,
   i : 1 .. 5, remaining : Nat, to : Accounts \cup {Nobody}, sending : Nat, beforeTo : Nat,
   beforeSelf : Nat, clean : BOOLEAN]

InvoiceType ==
  [merchant : Merchants, terms : Terms \cup {NoTerms},
   status : {"Unknown", "Unpaid", "InProgress", "Paid", "Cancelled"},
   receipt : [payer : Accounts \cup {Nobody}, inputRaw : Nat, receivedRaw : Nat, refundRaw : Int]]

SettledType == [taken : Int, shares : [Slots -> Int], refund : Int]

StoreType ==
  [invoices : [InvoiceIds -> InvoiceType], nonce : [Merchants -> 0 .. MaxNonce],
   bal : [Tokens -> [Accounts -> Nat]], allow : [Tokens -> Nat],
   settled : [InvoiceIds -> SettledType]]

\* The shapes of the contract's storage, of the open payment and of the saved state.
TypeOK ==
  /\ now \in Nat /\ entered \in BOOLEAN /\ moves \in Nat
  /\ Snapshot \in StoreType /\ saved \in StoreType
  /\ donated \in [Tokens -> Nat]
  /\ tx \in TxType

\* What the chain would show if the open transaction were dropped.
Committed == IF tx.pc = "idle" THEN Snapshot ELSE saved

\* A paid invoice changed balances by exactly what it says: the payer's by
\* inputRaw, each recipient's but the last by its share rounded down, all of
\* them together by the amount due, and the payer's again by the excess.  An
\* invoice that is not paid changed none, whatever payments of it were
\* reverted half-way (_finish, _send).
PaidExactly ==
  \A id \in InvoiceIds :
    LET inv == Committed.invoices[id]
        t == inv.terms
        n == Len(t.recipients)
        s == Committed.settled[id]
    IN IF inv.status # "Paid" THEN s = NotSettled ELSE
       /\ s.taken = inv.receipt.inputRaw
       /\ s.shares[1] + s.shares[2] + s.shares[3] = t.due
       /\ \A i \in Slots : i < n => s.shares[i] = (t.due * t.bps[i]) \div Whole
       /\ \A i \in Slots : i > n => s.shares[i] = 0
       /\ s.refund = inv.receipt.receivedRaw - t.due

\* Between transactions the contract holds the USDC that was sent to it outside
\* any payment and no more, at least what was so sent of every other token, and
\* the router has no allowance: a payment keeps no USDC and spends no donation
\* (lines 61, 84 and 86).
Custody ==
  tx.pc = "idle" =>
    /\ bal[Usdc][Self] = donated[Usdc]
    /\ \A t \in Tokens : bal[t][Self] >= donated[t] /\ allow[t] = 0

\* A payment in which every token call moved exactly what was asked, and
\* nobody interfered, passes every check the contract makes, whichever
\* accounts payer, maker and recipients share and however the shares round.
HonestPaymentCompletes ==
  tx.clean =>
    /\ tx.pc = "pulled" => PullExact
    /\ tx.pc = "swapped" => SwapExact
    /\ tx.pc = "send" /\ tx.i <= Len(Payees) =>
         /\ Payees[tx.i] \in Accounts
         /\ ShareOf(invoices[tx.id].terms, tx.i, tx.remaining) <= tx.remaining
    /\ tx.pc = "sent" => SendExact
    /\ tx.pc = "finish" => Restored

Book == INSTANCE InvoiceBook WITH clock <- now, book <- Committed.invoices

\* Seen from outside, payments are the atomic operations of InvoiceBook: no
\* double payment, no payment of an expired or cancelled invoice, one invoice
\* per transaction, terms that never change, numbers that are never reused.
ImplementsBook == Book!Spec
=============================================================================
