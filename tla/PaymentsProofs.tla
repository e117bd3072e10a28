--------------------------- MODULE PaymentsProofs ---------------------------
(* Theorems about Payments, for every value of its constants. *)
EXTENDS Payments, TLAPS

-----------------------------------------------------------------------------
(* Typing needs to know where a payment is: which fields of tx mean         *)
(* something at which pc, and that only well-formed terms are ever stored.  *)

GoodTerms(t) ==
  /\ t \in Terms
  /\ t.due \in Nat /\ t.expiresAt \in Nat
  /\ Len(t.recipients) \in Slots /\ Len(t.bps) = Len(t.recipients)
  /\ \A i \in 1 .. Len(t.recipients) : t.recipients[i] \in Accounts \ {Self} /\ t.bps[i] \in Nat
  /\ Total(t.bps) = Whole

KnownTerms(inv) == \A id \in InvoiceIds : inv[id].status # "Unknown" => GoodTerms(inv[id].terms)

Steps == {"pull", "pulled", "swap", "swapped", "send", "sent", "finish"}

TxInv ==
  IF tx.pc = "idle" THEN ~entered /\ tx = Idle ELSE
    /\ entered
    /\ tx.id \in InvoiceIds
    /\ tx.payer \in Accounts \ {Self}
    /\ invoices[tx.id].status = "InProgress"
    /\ tx.token # Usdc => tx.maker \in Accounts \ {Self}
    /\ tx.pc \in {"swap", "swapped"} => tx.token # Usdc
    /\ tx.pc \in {"pull", "pulled", "swap", "swapped"} => tx.i = 1
    /\ tx.token = Usdc => tx.amount = invoices[tx.id].terms.due
    /\ tx.pc \in {"send", "sent"} => tx.i \in 1 .. Len(Payees) + 1
    /\ tx.pc \in {"send", "sent", "finish"} => tx.received >= invoices[tx.id].terms.due
    /\ tx.pc = "sent" => tx.to \in Accounts \ {Self}

StoreOK ==
  /\ invoices \in [InvoiceIds -> InvoiceType]
  /\ nonce \in [Merchants -> 0 .. MaxNonce]
  /\ bal \in [Tokens -> [Accounts -> Nat]]
  /\ allow \in [Tokens -> Nat]
  /\ settled \in [InvoiceIds -> SettledType]

Typed ==
  /\ now \in Nat /\ entered \in BOOLEAN /\ moves \in Nat
  /\ StoreOK /\ saved \in StoreType
  /\ donated \in [Tokens -> Nat]
  /\ tx \in TxType
  /\ KnownTerms(invoices) /\ KnownTerms(saved.invoices)
  /\ TxInv

USE DEF Slots

\* Snapshot is well typed when the variables it collects are.
LEMMA SnapshotTyped == StoreOK <=> Snapshot \in StoreType
  BY DEF StoreOK, Snapshot, StoreType

\* The inductive type invariant holds at deployment.
LEMMA TypedInit == Init => Typed
  <1> SUFFICES ASSUME Init PROVE Typed
    OBVIOUS
  <1> USE ConstantsAssumption DEF Init
  <1>1. NoReceipt \in [payer : Accounts \cup {Nobody}, inputRaw : Nat, receivedRaw : Nat, refundRaw : Int]
    BY DEF NoReceipt
  <1>2. \A id \in InvoiceIds : LET v == Invoice(id, NoTerms, "Unknown") IN v \in InvoiceType /\ v.status = "Unknown"
    BY <1>1 DEF InvoiceIds, Invoice, InvoiceType
  <1>3. StoreOK
    BY <1>2 DEF StoreOK, NotSettled, SettledType
  <1>4. Idle \in TxType
    BY DEF Idle, TxType
  <1>5. KnownTerms(invoices) /\ KnownTerms(saved.invoices)
    BY <1>2 DEF KnownTerms, Snapshot
  <1>6. TxInv
    BY DEF TxInv, Idle
  <1> QED BY <1>3, <1>4, <1>5, <1>6, SnapshotTyped DEF Typed

\* Changing one status keeps the invoices well typed and changes nothing else.
LEMMA StatusTyped ==
  ASSUME invoices \in [InvoiceIds -> InvoiceType], KnownTerms(invoices),
         NEW id \in InvoiceIds, NEW s \in {"InProgress", "Cancelled"}, invoices[id].status # "Unknown"
  PROVE  LET g == WithStatus(id, s) IN
         /\ g \in [InvoiceIds -> InvoiceType] /\ KnownTerms(g)
         /\ g[id].status = s
         /\ \A x \in InvoiceIds : g[x].terms = invoices[x].terms /\ g[x].receipt = invoices[x].receipt
         /\ \A x \in InvoiceIds \ {id} : g[x] = invoices[x]
  <1> DEFINE g == WithStatus(id, s)
             v == invoices[id]
  <1>1. v \in InvoiceType
    OBVIOUS
  <1>2. g = [invoices EXCEPT ![id] = [v EXCEPT !.status = s]]
    BY DEF WithStatus
  <1>3. [v EXCEPT !.status = s] \in InvoiceType
    BY <1>1 DEF InvoiceType
  <1>4. g \in [InvoiceIds -> InvoiceType] /\ g[id] = [v EXCEPT !.status = s]
    BY <1>2, <1>3
  <1>5. g[id].status = s /\ g[id].terms = v.terms /\ g[id].receipt = v.receipt
    BY <1>1, <1>4 DEF InvoiceType
  <1>6. \A x \in InvoiceIds \ {id} : g[x] = invoices[x]
    BY <1>2
  <1>7. KnownTerms(g)
    BY <1>5, <1>6 DEF KnownTerms
  <1> QED BY <1>4, <1>5, <1>6, <1>7

\* A debit that is covered and a credit touch two holders and keep balances natural.
LEMMA MovedTyped ==
  ASSUME NEW b \in [Accounts -> Nat], NEW from \in Accounts, NEW to \in Accounts, from # to,
         NEW debit \in Nat, NEW credit \in Nat, b[from] >= debit
  PROVE  LET c == Moved(b, from, to, debit, credit) IN
         /\ c \in [Accounts -> Nat]
         /\ c[from] = b[from] - debit /\ c[to] = b[to] + credit
         /\ \A a \in Accounts : a \notin {from, to} => c[a] = b[a]
  BY DEF Moved

\* A token call keeps balances natural numbers.
LEMMA TransferTyped ==
  ASSUME bal \in [Tokens -> [Accounts -> Nat]],
         NEW t \in Tokens, NEW from \in Accounts, NEW to \in Accounts,
         NEW debit \in Nat, NEW credit \in Nat, from # to,
         Transfer(t, from, to, debit, credit)
  PROVE  /\ bal' \in [Tokens -> [Accounts -> Nat]]
         /\ bal'[t][from] = bal[t][from] - debit
         /\ bal'[t][to] = bal[t][to] + credit
         /\ \A a \in Accounts : a \notin {from, to} => bal'[t][a] = bal[t][a]
         /\ \A u \in Tokens : u # t => bal'[u] = bal[u]
  <1> DEFINE b == bal[t]
             c == Moved(b, from, to, debit, credit)
  <1>0. bal' = [bal EXCEPT ![t] = c]
    BY DEF Transfer
  <1>1. b \in [Accounts -> Nat] /\ b[from] >= debit
    BY DEF Transfer
  <1> HIDE DEF b
  <1>2. /\ c \in [Accounts -> Nat]
        /\ c[from] = b[from] - debit /\ c[to] = b[to] + credit
        /\ \A a \in Accounts : a \notin {from, to} => c[a] = b[a]
    BY <1>1 DEF Moved
  <1> HIDE DEF c
  <1>3. bal' \in [Tokens -> [Accounts -> Nat]] /\ bal'[t] = c
    BY <1>0, <1>2
  <1>4. \A u \in Tokens : u # t => bal'[u] = bal[u]
    BY <1>0
  <1> QED BY <1>2, <1>3, <1>4 DEF b

\* What createInvoice accepts is well formed.
LEMMA ValidTermsGood ==
  ASSUME NEW t \in Terms, ValidTerms(t)
  PROVE  GoodTerms(t)
  <1>1. t \in [due : Nat, expiresAt : Nat, recipients : Seq(Accounts \cup {Nobody}), bps : Seq(Nat)]
    BY ConstantsAssumption
  <1>2. /\ Len(t.recipients) \in Slots /\ Len(t.bps) = Len(t.recipients)
        /\ \A i \in DOMAIN t.recipients : t.recipients[i] \notin {Nobody, Self}
        /\ Total(t.bps) = Whole
    BY DEF ValidTerms
  <1> QED BY <1>1, <1>2 DEF GoodTerms

-----------------------------------------------------------------------------
(* Each action preserves Typed. *)

LEMMA CreateTyped ==
  ASSUME Typed, NEW m \in Merchants, NEW t \in Terms, CreateInvoice(m, t)
  PROVE  Typed'
  <1> USE DEF Typed, StoreOK
  <1> USE DEF CreateInvoice
  <1> DEFINE id == <<m, nonce[m]>>
             new == Invoice(id, t, "Unpaid")
  <1>1. id \in InvoiceIds /\ nonce' \in [Merchants -> 0 .. MaxNonce]
    <2>1. nonce[m] \in 0 .. MaxNonce - 1
      BY ConstantsAssumption
    <2> DEFINE next == nonce[m] + 1
    <2>4. nonce' = [nonce EXCEPT ![m] = next] /\ nonce \in [Merchants -> 0 .. MaxNonce]
      OBVIOUS
    <2>5. next \in 0 .. MaxNonce
      BY <2>1, ConstantsAssumption
    <2> HIDE DEF next
    <2>2. nonce' \in [Merchants -> 0 .. MaxNonce]
      BY <2>4, <2>5
    <2>3. id \in InvoiceIds
      BY <2>1 DEF InvoiceIds
    <2> QED BY <2>2, <2>3
  <1>2. new \in InvoiceType /\ new.terms = t
    BY <1>1 DEF Invoice, InvoiceType, NoReceipt, InvoiceIds
  <1>3. invoices' \in [InvoiceIds -> InvoiceType]
    BY <1>1, <1>2
  <1>4. KnownTerms(invoices')
    BY <1>1, <1>2, ValidTermsGood DEF KnownTerms
  <1>5. TxInv'
    BY DEF TxInv, Idle
  <1> QED BY <1>1, <1>3, <1>4, <1>5

LEMMA CancelTyped ==
  ASSUME Typed, NEW id \in InvoiceIds, NEW a, CancelInvoice(id, a)
  PROVE  Typed'
  <1> USE DEF Typed, StoreOK, CancelInvoice
  <1>1. invoices' \in [InvoiceIds -> InvoiceType] /\ KnownTerms(invoices')
    BY StatusTyped
  <1>2. TxInv'
    BY DEF TxInv, Idle
  <1> QED BY <1>1, <1>2

LEMMA OpenedTyped ==
  ASSUME StoreOK, NEW id \in InvoiceIds, NEW payer \in Accounts, NEW token \in Tokens,
         NEW maker \in Accounts \cup {Nobody}, NEW amount \in Nat, NEW minimum \in Nat
  PROVE  LET v == Opened(id, payer, token, maker, amount, minimum) IN
         /\ v \in TxType /\ v.pc = "pull" /\ v.id = id /\ v.payer = payer /\ v.token = token
         /\ v.maker = maker /\ v.i = 1
         /\ v.amount = amount /\ v.minimum = minimum /\ v.beforeIn = bal[token][Self]
         /\ v.beforeUsdc = bal[Usdc][Self] /\ v.beforePayer = bal[token][payer]
  <1> DEFINE v == Opened(id, payer, token, maker, amount, minimum)
  <1>1. bal[token][Self] \in Nat /\ bal[Usdc][Self] \in Nat /\ bal[token][payer] \in Nat
    BY ConstantsAssumption DEF StoreOK
  <1> QED BY <1>1 DEF Opened, TxType

LEMMA BeginTyped ==
  ASSUME Typed, NEW id \in InvoiceIds, NEW payer \in Accounts \ {Self}, NEW token \in Tokens,
         NEW maker \in (Accounts \ {Self}) \cup {Nobody}, token # Usdc => maker # Nobody,
         NEW amount \in Nat, token = Usdc => amount = invoices[id].terms.due, NEW minimum \in Nat,
         Begin(id, payer, token, maker, amount, minimum)
  PROVE  Typed'
  <1> DEFINE v == Opened(id, payer, token, maker, amount, minimum)
  <1>0. StoreOK /\ tx' = v /\ payer \in Accounts /\ maker \in Accounts \cup {Nobody}
    BY DEF Begin, Typed
  <1>1. /\ tx' \in TxType /\ tx'.pc = "pull" /\ tx'.id = id /\ tx'.payer = payer
        /\ tx'.token = token /\ tx'.maker = maker /\ tx'.i = 1 /\ tx'.amount = amount
    <2> HIDE DEF v
    <2>1. /\ v \in TxType /\ v.pc = "pull" /\ v.id = id /\ v.payer = payer /\ v.token = token
          /\ v.maker = maker /\ v.i = 1 /\ v.amount = amount
      BY <1>0, OpenedTyped DEF v
    <2> QED BY <1>0, <2>1
  <1> HIDE DEF v
  <1> USE DEF Begin
  <1>2. /\ invoices' \in [InvoiceIds -> InvoiceType] /\ KnownTerms(invoices')
        /\ invoices'[id].status = "InProgress" /\ invoices'[id].terms = invoices[id].terms
    BY StatusTyped DEF Typed, StoreOK
  <1>3. saved' \in StoreType /\ KnownTerms(saved'.invoices)
    BY SnapshotTyped DEF Snapshot, Typed
  <1>4. TxInv'
    BY <1>1, <1>2 DEF TxInv
  <1> QED BY <1>1, <1>2, <1>3, <1>4 DEF Typed, StoreOK

LEMMA PullTyped == Typed /\ Pull => Typed'
  <1> SUFFICES ASSUME Typed, Pull PROVE Typed'
    OBVIOUS
  <1>0. tx \in TxType /\ tx.payer \in Accounts \ {Self} /\ tx.pc # "idle"
    BY DEF Typed, TxInv, Pull
  <1>1. PICK debit \in Debits(tx.amount), credit \in Credits(tx.amount) :
          /\ Transfer(tx.token, tx.payer, Self, debit, credit)
          /\ tx' = [tx EXCEPT !.pc = "pulled", !.clean = (debit = tx.amount /\ credit = tx.amount)]
    BY DEF Pull
  <1>2. /\ tx' \in TxType /\ tx'.pc = "pulled" /\ tx'.id = tx.id /\ tx'.payer = tx.payer
        /\ tx'.maker = tx.maker /\ tx'.token = tx.token /\ tx'.amount = tx.amount /\ tx'.i = tx.i
    BY <1>0, <1>1 DEF TxType
  <1>3. debit \in Nat /\ credit \in Nat
    BY <1>0 DEF Debits, Credits, TxType
  <1>4. bal' \in [Tokens -> [Accounts -> Nat]]
    <2>1. tx.token \in Tokens /\ tx.payer \in Accounts /\ Self \in Accounts /\ tx.payer # Self
      BY <1>0, ConstantsAssumption DEF TxType
    <2> QED BY <1>1, <1>3, <2>1, TransferTyped DEF Typed, StoreOK
  <1>5. TxInv'
    BY <1>0, <1>2 DEF Pull, Typed, TxInv
  <1> QED BY <1>2, <1>4, <1>5 DEF Pull, Typed, StoreOK

\* Recording an effect of a payment keeps the history well typed and touches one entry.
LEMMA SettledTyped ==
  ASSUME settled \in [InvoiceIds -> SettledType], NEW id \in InvoiceIds, NEW n \in Int
  PROVE  /\ WithTaken(id, n) \in [InvoiceIds -> SettledType]
         /\ WithRefund(id, n) \in [InvoiceIds -> SettledType]
         /\ \A i \in Slots : WithShare(id, i, n) \in [InvoiceIds -> SettledType]
  <1> DEFINE v == settled[id]
  <1>1. v \in SettledType
    OBVIOUS
  <1>2. [v EXCEPT !.taken = n] \in SettledType /\ [v EXCEPT !.refund = n] \in SettledType
    BY <1>1 DEF SettledType
  <1>3. \A i \in Slots : [v EXCEPT !.shares = [v.shares EXCEPT ![i] = n]] \in SettledType
    BY <1>1 DEF SettledType
  <1>4. /\ WithTaken(id, n) = [settled EXCEPT ![id] = [v EXCEPT !.taken = n]]
        /\ WithRefund(id, n) = [settled EXCEPT ![id] = [v EXCEPT !.refund = n]]
    BY DEF WithTaken, WithRefund
  <1>5. \A i \in Slots :
          WithShare(id, i, n) = [settled EXCEPT ![id] = [v EXCEPT !.shares = [v.shares EXCEPT ![i] = n]]]
    BY DEF WithShare
  <1> HIDE DEF v
  <1> QED BY <1>2, <1>3, <1>4, <1>5

\* The terms of the invoice being paid are well formed.
LEMMA OpenTerms ==
  ASSUME Typed, tx.pc # "idle"
  PROVE  /\ tx \in TxType /\ tx.id \in InvoiceIds /\ invoices[tx.id].status = "InProgress"
         /\ GoodTerms(invoices[tx.id].terms)
  BY DEF Typed, TxInv, KnownTerms

LEMMA AcceptPullTyped == Typed /\ AcceptPull => Typed'
  <1> SUFFICES ASSUME Typed, AcceptPull PROVE Typed'
    OBVIOUS
  <1>0. /\ tx \in TxType /\ tx.id \in InvoiceIds /\ tx.pc = "pulled" /\ tx.i = 1
        /\ tx.payer \in Accounts \ {Self} /\ tx.token \in Tokens /\ tx.amount \in Nat /\ entered
        /\ tx.token = Usdc => tx.amount = invoices[tx.id].terms.due
        /\ tx.token # Usdc => tx.maker \in Accounts \ {Self}
        /\ invoices[tx.id].status = "InProgress"
    BY OpenTerms DEF Typed, TxInv, AcceptPull, TxType
  <1>1. GoodTerms(invoices[tx.id].terms)
    BY <1>0, OpenTerms
  <1>2. settled' \in [InvoiceIds -> SettledType]
    <2>1. tx.beforePayer - bal[tx.token][tx.payer] \in Int
      BY <1>0 DEF Typed, StoreOK, TxType
    <2> QED BY <1>0, <2>1, SettledTyped DEF AcceptPull, Typed, StoreOK
  <1>3. CASE tx.token = Usdc
    <2>1. tx' = [tx EXCEPT !.pc = "send", !.received = tx.amount, !.remaining = invoices[tx.id].terms.due]
      BY <1>3 DEF AcceptPull
    <2>2. invoices[tx.id].terms.due \in Nat /\ Len(invoices[tx.id].terms.recipients) \in Slots
      BY <1>1 DEF GoodTerms
    <2> DEFINE due == invoices[tx.id].terms.due
    <2>3. due \in Nat /\ tx' = [tx EXCEPT !.pc = "send", !.received = tx.amount, !.remaining = due]
      BY <2>1, <2>2
    <2> HIDE DEF due
    <2>4. /\ tx' \in TxType /\ tx'.pc = "send" /\ tx'.id = tx.id /\ tx'.payer = tx.payer
          /\ tx'.maker = tx.maker /\ tx'.token = tx.token /\ tx'.i = tx.i
          /\ tx'.amount = tx.amount /\ tx'.received = tx.amount
      BY <1>0, <2>3 DEF TxType
    <2>5. UNCHANGED <<invoices, entered>>
      BY DEF AcceptPull
    <2>6. tx.amount = invoices'[tx'.id].terms.due /\ tx.amount \in Nat
      BY <1>0, <1>3, <2>4, <2>5
    <2>7. tx'.i \in 1 .. Len(Payees') + 1
      <3>1. Payees' = Payees /\ Len(Payees) \in Slots
        BY <2>2, <2>4, <2>5 DEF Payees
      <3> QED BY <1>0, <2>4, <3>1
    <2>8. TxInv'
      BY <1>0, <1>3, <2>4, <2>5, <2>6, <2>7 DEF TxInv
    <2> QED BY <1>2, <1>3, <2>4, <2>8 DEF AcceptPull, Typed, StoreOK
  <1>4. CASE tx.token # Usdc
    <2>1. tx' = [tx EXCEPT !.pc = "swap"] /\ allow' = [allow EXCEPT ![tx.token] = tx.amount]
      BY <1>4 DEF AcceptPull
    <2>2. /\ tx' \in TxType /\ tx'.pc = "swap" /\ tx'.id = tx.id /\ tx'.payer = tx.payer
          /\ tx'.maker = tx.maker /\ tx'.token = tx.token /\ tx'.i = tx.i
        /\ tx'.amount = tx.amount
      BY <1>0, <2>1 DEF TxType
    <2>3. TxInv'
      BY <1>0, <1>4, <2>2 DEF AcceptPull, TxInv
    <2> QED BY <1>0, <1>2, <2>1, <2>2, <2>3 DEF AcceptPull, Typed, StoreOK
  <1> QED BY <1>3, <1>4

LEMMA RouterSwapTyped == Typed /\ RouterSwap => Typed'
  <1> SUFFICES ASSUME Typed, RouterSwap PROVE Typed'
    OBVIOUS
  <1>0. /\ tx \in TxType /\ tx.pc = "swap" /\ tx.token \in Tokens /\ tx.token # Usdc
        /\ tx.maker \in Accounts \ {Self} /\ tx.amount \in Nat
        /\ Usdc \in Tokens /\ Self \in Accounts /\ bal[tx.token][Self] >= tx.amount
    BY ConstantsAssumption DEF Typed, TxInv, RouterSwap, TxType
  <1>1. PICK out \in Outputs :
          /\ bal[Usdc][tx.maker] >= out
          /\ bal' = [bal EXCEPT
               ![tx.token] = Moved(bal[tx.token], Self, tx.maker, tx.amount, tx.amount),
               ![Usdc] = Moved(bal[Usdc], tx.maker, Self, out, out)]
          /\ tx' = [tx EXCEPT !.pc = "swapped", !.received = out]
    BY DEF RouterSwap
  <1>2. out \in Nat
    BY ConstantsAssumption
  <1>3. bal' \in [Tokens -> [Accounts -> Nat]]
    <2>1. bal \in [Tokens -> [Accounts -> Nat]]
      BY DEF Typed, StoreOK
    <2>2. /\ Moved(bal[tx.token], Self, tx.maker, tx.amount, tx.amount) \in [Accounts -> Nat]
          /\ Moved(bal[Usdc], tx.maker, Self, out, out) \in [Accounts -> Nat]
      BY <1>0, <1>1, <1>2, <2>1, MovedTyped
    <2> QED BY <1>0, <1>1, <2>1, <2>2
  <1>4. /\ tx' \in TxType /\ tx'.pc = "swapped" /\ tx'.id = tx.id /\ tx'.payer = tx.payer
        /\ tx'.maker = tx.maker /\ tx'.token = tx.token /\ tx'.i = tx.i
        /\ tx'.amount = tx.amount
    BY <1>0, <1>1, <1>2 DEF TxType
  <1>5. allow' \in [Tokens -> Nat]
    BY <1>0 DEF RouterSwap, Typed, StoreOK
  <1>6. TxInv'
    BY <1>0, <1>4 DEF RouterSwap, Typed, TxInv
  <1> QED BY <1>3, <1>4, <1>5, <1>6 DEF RouterSwap, Typed, StoreOK

LEMMA AcceptSwapTyped == Typed /\ AcceptSwap => Typed'
  <1> SUFFICES ASSUME Typed, AcceptSwap PROVE Typed'
    OBVIOUS
  <1>0. tx.pc = "swapped"
    BY DEF AcceptSwap
  <1>1. invoices[tx.id].terms.due \in Nat /\ Len(invoices[tx.id].terms.recipients) \in Slots
    BY <1>0, OpenTerms DEF GoodTerms
  <1> DEFINE due == invoices[tx.id].terms.due
  <1>2. /\ due \in Nat /\ tx' = [tx EXCEPT !.pc = "send", !.remaining = due]
        /\ tx.received >= due
    BY <1>1 DEF AcceptSwap, SwapExact
  <1> HIDE DEF due
  <1>3. tx \in TxType /\ tx.i = 1 /\ tx.token \in Tokens
    BY <1>0 DEF Typed, TxInv, TxType
  <1>4. /\ tx' \in TxType /\ tx'.pc = "send" /\ tx'.id = tx.id /\ tx'.payer = tx.payer
        /\ tx'.maker = tx.maker /\ tx'.token = tx.token /\ tx'.i = tx.i
        /\ tx'.amount = tx.amount /\ tx'.received = tx.received
    BY <1>2, <1>3 DEF TxType
  <1>5. allow' \in [Tokens -> Nat]
    BY <1>3 DEF AcceptSwap, Typed, StoreOK
  <1>6. TxInv'
    BY <1>0, <1>1, <1>2, <1>3, <1>4 DEF AcceptSwap, Typed, TxInv, Payees, due
  <1> QED BY <1>4, <1>5, <1>6 DEF AcceptSwap, Typed, StoreOK

\* What one _send is for: its recipient is another account and its amount a natural number.
LEMMA SendTarget ==
  ASSUME Typed, tx.pc = "send"
  PROVE  LET n == Len(Payees)
             terms == invoices[tx.id].terms
         IN /\ n \in Slots /\ tx.i \in 1 .. n + 1
            /\ tx.i <= n => /\ Payees[tx.i] \in Accounts \ {Self}
                            /\ ShareOf(terms, tx.i, tx.remaining) \in Nat
            /\ Refund \in Nat /\ tx.payer \in Accounts \ {Self}
  <1> DEFINE terms == invoices[tx.id].terms
  <1>1. /\ tx \in TxType /\ tx.i \in 1 .. Len(Payees) + 1 /\ tx.payer \in Accounts \ {Self}
        /\ tx.received >= terms.due /\ GoodTerms(terms)
    BY OpenTerms DEF Typed, TxInv
  <1>2. tx.remaining \in Nat /\ tx.received \in Nat /\ tx.i \in Nat
    BY <1>1 DEF TxType
  <1> HIDE DEF terms
  <1>3. /\ terms.due \in Nat /\ Len(terms.recipients) \in Slots
        /\ tx.i <= Len(terms.recipients) => terms.recipients[tx.i] \in Accounts \ {Self} /\ terms.bps[tx.i] \in Nat
    <2>1. terms.due \in Nat /\ Len(terms.recipients) \in Slots
      BY <1>1 DEF GoodTerms
    <2>2. \A i \in 1 .. Len(terms.recipients) :
            terms.recipients[i] \in Accounts \ {Self} /\ terms.bps[i] \in Nat
      BY <1>1 DEF GoodTerms
    <2>3. tx.i >= 1
      BY <1>1
    <2> QED BY <1>2, <2>1, <2>2, <2>3
  <1>4. Refund \in Nat
    BY <1>1, <1>2, <1>3 DEF Refund, terms
  <1>5. ASSUME tx.i <= Len(terms.recipients) PROVE ShareOf(terms, tx.i, tx.remaining) \in Nat
    <2>1. terms.due * terms.bps[tx.i] \in Nat
      BY <1>3, <1>5
    <2>2. (terms.due * terms.bps[tx.i]) \div Whole \in Nat
      BY <2>1 DEF Whole
    <2> QED BY <1>2, <2>2 DEF ShareOf
  <1> QED BY <1>1, <1>3, <1>4, <1>5 DEF terms, Payees

LEMMA SendTyped == Typed /\ Send => Typed'
  <1> SUFFICES ASSUME Typed, Send PROVE Typed'
    OBVIOUS
  <1> DEFINE last == tx.i > Len(Payees)
             amount == IF last THEN Refund ELSE ShareOf(invoices[tx.id].terms, tx.i, tx.remaining)
             to == IF last THEN tx.payer ELSE Payees[tx.i]
  <1>0. /\ tx.pc = "send" /\ tx \in TxType /\ last \in BOOLEAN
        /\ UNCHANGED <<now, invoices, nonce, entered, allow, settled, donated, saved, moves>>
    BY DEF Send, Typed
  <1>1. amount \in Nat /\ to \in Accounts \ {Self}
    BY <1>0, SendTarget DEF TxType
  <1>2. PICK debit \in Debits(amount), credit \in Credits(amount) :
          /\ last \/ amount <= tx.remaining
          /\ Transfer(Usdc, Self, to, debit, credit)
          /\ tx' = [tx EXCEPT !.pc = "sent", !.to = to, !.sending = amount,
                      !.beforeTo = bal[Usdc][to], !.beforeSelf = bal[Usdc][Self],
                      !.remaining = IF last THEN @ ELSE @ - amount,
                      !.clean = @ /\ debit = amount /\ credit = amount]
    BY DEF Send
  <1> HIDE DEF last, amount, to
  <1>3. debit \in Nat /\ credit \in Nat
    BY <1>1 DEF Debits, Credits
  <1>4. bal' \in [Tokens -> [Accounts -> Nat]]
    <2>1. Usdc \in Tokens /\ Self \in Accounts /\ to # Self
      BY <1>1, ConstantsAssumption
    <2> QED BY <1>1, <1>2, <1>3, <2>1, TransferTyped DEF Typed, StoreOK
  <1>5. /\ tx' \in TxType /\ tx'.pc = "sent" /\ tx'.id = tx.id /\ tx'.payer = tx.payer
        /\ tx'.maker = tx.maker /\ tx'.token = tx.token /\ tx'.i = tx.i
        /\ tx'.amount = tx.amount /\ tx'.received = tx.received /\ tx'.to = to
    <2>1. bal[Usdc][to] \in Nat /\ bal[Usdc][Self] \in Nat
      BY <1>1, ConstantsAssumption DEF Typed, StoreOK
    <2>2. (IF last THEN tx.remaining ELSE tx.remaining - amount) \in Nat
      BY <1>0, <1>1, <1>2 DEF TxType
    <2>3. (tx.clean /\ debit = amount /\ credit = amount) \in BOOLEAN
      OBVIOUS
    <2> DEFINE rest == IF last THEN tx.remaining ELSE tx.remaining - amount
               beforeTo == bal[Usdc][to]
               beforeSelf == bal[Usdc][Self]
               clean == tx.clean /\ debit = amount /\ credit = amount
    <2>4. tx' = [tx EXCEPT !.pc = "sent", !.to = to, !.sending = amount, !.beforeTo = beforeTo,
                   !.beforeSelf = beforeSelf, !.remaining = rest, !.clean = clean]
      BY <1>2
    <2>5. beforeTo \in Nat /\ beforeSelf \in Nat /\ rest \in Nat /\ clean \in BOOLEAN
      BY <2>1, <2>2, <2>3
    <2> HIDE DEF rest, beforeTo, beforeSelf, clean
    <2> QED BY <1>0, <1>1, <2>4, <2>5 DEF TxType
  <1>6. TxInv'
    BY <1>0, <1>1, <1>5 DEF Typed, TxInv, Payees
  <1> QED BY <1>0, <1>4, <1>5, <1>6 DEF Typed, StoreOK

LEMMA AcceptSendTyped == Typed /\ AcceptSend => Typed'
  <1> SUFFICES ASSUME Typed, AcceptSend PROVE Typed'
    OBVIOUS
  <1> DEFINE n == Len(Payees)
             more == tx.i < n \/ (tx.i = n /\ Refund # 0)
             gain == bal[Usdc][tx.to] - tx.beforeTo
  <1>1. /\ tx.pc = "sent" /\ tx' = [tx EXCEPT !.i = @ + 1, !.pc = IF more THEN "send" ELSE "finish"]
        /\ settled' = IF tx.i <= n THEN WithShare(tx.id, tx.i, gain) ELSE WithRefund(tx.id, gain)
        /\ UNCHANGED <<now, invoices, nonce, entered, bal, allow, donated, saved, moves>>
    BY DEF AcceptSend
  <1>2. /\ tx \in TxType /\ n \in Slots /\ tx.i \in 1 .. n + 1 /\ tx.id \in InvoiceIds
        /\ tx.to \in Accounts
    <2>0. GoodTerms(invoices[tx.id].terms)
      <3>1. tx.pc # "idle"
        BY <1>1
      <3> HIDE DEF n, more, gain
      <3> QED BY <3>1, OpenTerms
    <2>1. n \in Slots
      BY <2>0 DEF GoodTerms, Payees
    <2>2. tx \in TxType /\ tx.i \in 1 .. Len(Payees) + 1 /\ tx.id \in InvoiceIds /\ tx.to \in Accounts
      BY <1>1 DEF Typed, TxInv
    <2> QED BY <2>1, <2>2
  <1>3. gain \in Int
    <2>1. bal[Usdc][tx.to] \in Nat
      BY <1>2, ConstantsAssumption DEF Typed, StoreOK
    <2>2. tx.beforeTo \in Nat
      BY <1>2 DEF TxType
    <2> QED BY <2>1, <2>2
  <1>4. more => tx.i + 1 \in 1 .. n + 1
    BY <1>2
  <1> HIDE DEF n, more, gain
  <1>5. settled' \in [InvoiceIds -> SettledType]
    <2>1. tx.i <= n => tx.i \in Slots
      BY <1>2
    <2>2. settled \in [InvoiceIds -> SettledType]
      BY DEF Typed, StoreOK
    <2>3. /\ WithRefund(tx.id, gain) \in [InvoiceIds -> SettledType]
          /\ \A i \in Slots : WithShare(tx.id, i, gain) \in [InvoiceIds -> SettledType]
      BY <1>2, <1>3, <2>2, SettledTyped
    <2> QED BY <1>1, <2>1, <2>3
  <1>6. /\ tx' \in TxType /\ tx'.pc = (IF more THEN "send" ELSE "finish") /\ tx'.id = tx.id
        /\ tx'.payer = tx.payer /\ tx'.maker = tx.maker /\ tx'.token = tx.token /\ tx'.i = tx.i + 1
        /\ tx'.amount = tx.amount /\ tx'.received = tx.received
    <2>1. tx.i + 1 \in 1 .. 5
      BY <1>2
    <2> DEFINE pc == IF more THEN "send" ELSE "finish"
    <2>2. pc \in {"send", "finish"} /\ tx' = [tx EXCEPT !.i = @ + 1, !.pc = pc]
      BY <1>1
    <2> HIDE DEF pc
    <2>3. /\ tx' \in TxType /\ tx'.pc = pc /\ tx'.id = tx.id
          /\ tx'.payer = tx.payer /\ tx'.maker = tx.maker /\ tx'.token = tx.token /\ tx'.i = tx.i + 1
          /\ tx'.amount = tx.amount /\ tx'.received = tx.received
      BY <1>2, <2>1, <2>2 DEF TxType
    <2> QED BY <2>3 DEF pc
  <1>7. TxInv'
    <2>1. Payees' = Payees
      BY <1>1, <1>6 DEF Payees
    <2>2. more => tx'.i \in 1 .. Len(Payees') + 1
      BY <1>4, <1>6, <2>1 DEF n
    <2> QED BY <1>1, <1>6, <2>2 DEF Typed, TxInv
  <1> QED BY <1>1, <1>5, <1>6, <1>7 DEF Typed, StoreOK

LEMMA FinishTyped == Typed /\ Finish => Typed'
  <1> SUFFICES ASSUME Typed, Finish PROVE Typed'
    OBVIOUS
  <1> DEFINE receipt == [payer |-> tx.payer, inputRaw |-> tx.amount,
                         receivedRaw |-> tx.received, refundRaw |-> Refund]
             v == invoices[tx.id]
  <1>1. /\ tx.pc = "finish" /\ invoices' = Paid(tx.id, receipt) /\ entered' = FALSE /\ tx' = Idle
        /\ UNCHANGED <<now, nonce, bal, allow, settled, donated, saved, moves>>
    BY DEF Finish
  <1>2. /\ tx \in TxType /\ tx.id \in InvoiceIds /\ GoodTerms(v.terms)
        /\ tx.payer \in Accounts /\ v \in InvoiceType
    BY <1>1, OpenTerms DEF Typed, StoreOK, TxInv
  <1>3. receipt \in [payer : Accounts \cup {Nobody}, inputRaw : Nat, receivedRaw : Nat, refundRaw : Int]
    <2>1. tx.amount \in Nat /\ tx.received \in Nat
      BY <1>2 DEF TxType
    <2>2. v.terms.due \in Nat
      BY <1>2 DEF GoodTerms
    <2>3. Refund \in Int
      BY <2>1, <2>2 DEF Refund
    <2> QED BY <1>2, <2>1, <2>3
  <1> HIDE DEF receipt
  <1>4. invoices' = [invoices EXCEPT ![tx.id] = [v EXCEPT !.status = "Paid", !.receipt = receipt]]
    BY <1>1 DEF Paid
  <1> DEFINE w == [v EXCEPT !.status = "Paid", !.receipt = receipt]
  <1>5. w \in InvoiceType /\ w.terms = v.terms
    <2> HIDE DEF v
    <2> QED BY <1>2, <1>3 DEF InvoiceType
  <1> HIDE DEF w
  <1>6. invoices' = [invoices EXCEPT ![tx.id] = w]
    BY <1>4 DEF w
  <1>7. invoices' \in [InvoiceIds -> InvoiceType]
    BY <1>2, <1>5, <1>6 DEF Typed, StoreOK
  <1>8. KnownTerms(invoices')
    BY <1>2, <1>5, <1>6 DEF Typed, StoreOK, KnownTerms
  <1>9. tx' \in TxType /\ TxInv'
    BY <1>1, ConstantsAssumption DEF TxInv, TxType, Idle
  <1> QED BY <1>1, <1>7, <1>8, <1>9 DEF Typed, StoreOK

LEMMA RevertTyped == Typed /\ Revert => Typed'
  <1> SUFFICES ASSUME Typed, Revert PROVE Typed'
    OBVIOUS
  <1>1. tx' \in TxType /\ TxInv'
    BY ConstantsAssumption DEF Revert, TxInv, TxType, Idle
  <1>2. StoreOK'
    BY DEF Revert, Typed, StoreOK, StoreType
  <1> QED BY <1>1, <1>2 DEF Revert, Typed

LEMMA MoveTyped ==
  ASSUME Typed, NEW t \in Tokens, NEW from \in Accounts, NEW to \in Accounts, Move(t, from, to, 1)
  PROVE  Typed'
  <1>1. /\ bal' \in [Tokens -> [Accounts -> Nat]]
    BY TransferTyped DEF Move, Typed, StoreOK
  <1>2. donated' \in [Tokens -> Nat]
    BY DEF Move, Typed
  <1>3. tx' \in TxType /\ TxInv'
    <2>1. CASE tx.pc = "idle"
      BY <2>1 DEF Move, Typed, TxInv
    <2>2. CASE tx.pc # "idle"
      <3>1. tx \in TxType /\ tx' = [tx EXCEPT !.clean = FALSE]
        BY <2>2 DEF Move, Typed
      <3>2. /\ tx' \in TxType /\ tx'.pc = tx.pc /\ tx'.id = tx.id /\ tx'.payer = tx.payer
            /\ tx'.maker = tx.maker /\ tx'.token = tx.token /\ tx'.i = tx.i
            /\ tx'.amount = tx.amount /\ tx'.received = tx.received /\ tx'.to = tx.to
        BY <3>1 DEF TxType
      <3>3. UNCHANGED <<invoices, entered>>
        BY DEF Move
      <3> QED BY <2>2, <3>2, <3>3 DEF Typed, TxInv, Payees
    <2> QED BY <2>1, <2>2
  <1> QED BY <1>1, <1>2, <1>3 DEF Move, Typed, StoreOK

\* Typed is preserved by every step, stuttering included.
LEMMA TypedNext == Typed /\ [Next]_vars => Typed'
  <1> SUFFICES ASSUME Typed, [Next]_vars PROVE Typed'
    OBVIOUS
  <1>1. CASE \E m \in Merchants, t \in Terms : CreateInvoice(m, t)
    BY <1>1, CreateTyped
  <1>2. ASSUME NEW id \in InvoiceIds, NEW a \in Accounts \ {Self}, CancelInvoice(id, a) PROVE Typed'
    BY <1>2, CancelTyped
  <1>3. ASSUME NEW id \in InvoiceIds, NEW a \in Accounts \ {Self}, PayWithUSDC(id, a) PROVE Typed'
    <2>1. Begin(id, a, Usdc, Nobody, invoices[id].terms.due, 0)
      BY <1>3 DEF PayWithUSDC
    <2>2. Usdc \in Tokens /\ invoices[id].terms.due \in Nat
      BY <2>1, ConstantsAssumption DEF Begin, Typed, KnownTerms, GoodTerms
    <2> QED BY <2>1, <2>2, BeginTyped
  <1>4. ASSUME NEW id \in InvoiceIds, NEW a \in Accounts \ {Self}, NEW r \in Routes,
               NEW amount \in Inputs, NEW minimum \in Minimums, PayWithSwap(id, a, r, amount, minimum)
        PROVE  Typed'
    <2>1. Begin(id, a, r.input, r.maker, amount, minimum) /\ r.input # Usdc
      BY <1>4 DEF PayWithSwap
    <2>2. r.input \in Tokens /\ r.maker \in Accounts \ {Self} /\ r.maker # Nobody
          /\ amount \in Nat /\ minimum \in Nat
      BY ConstantsAssumption
    <2> QED BY <2>1, <2>2, BeginTyped
  <1>5. CASE Pull \/ AcceptPull \/ RouterSwap \/ AcceptSwap
    BY <1>5, PullTyped, AcceptPullTyped, RouterSwapTyped, AcceptSwapTyped
  <1>6. CASE Send \/ AcceptSend \/ Finish \/ Revert
    BY <1>6, SendTyped, AcceptSendTyped, FinishTyped, RevertTyped
  <1>7. CASE \E t \in Tokens, from, to \in Accounts : Move(t, from, to, 1)
    BY <1>7, MoveTyped
  <1>8. CASE Tick
    BY <1>8 DEF Tick, Typed, StoreOK, TxInv, Payees
  <1>9. CASE UNCHANGED vars
    BY <1>9 DEF vars, Typed, StoreOK, TxInv, Payees
  <1> QED BY <1>1, <1>2, <1>3, <1>4, <1>5, <1>6, <1>7, <1>8, <1>9 DEF Next

LEMMA TypedAlways == Spec => []Typed
  BY TypedInit, TypedNext, PTL DEF Spec

\* The shapes of the contract's storage and of the open payment hold in every
\* reachable state: no step leaves a balance negative, pays an account that is
\* none, or keeps an index beyond the recipients.
THEOREM TypeCorrect == Spec => []TypeOK
  <1>1. Typed => TypeOK
    BY SnapshotTyped DEF Typed, TypeOK
  <1> QED BY <1>1, TypedAlways, PTL

-----------------------------------------------------------------------------
(* Custody.  A payment starts from a state in which the contract owns its   *)
(* donations only; what it notes before the first call is what Finish       *)
(* compares with, and the other tokens never fall below their donations.    *)

Clean(b, al) ==
  /\ b[Usdc][Self] = donated[Usdc]
  /\ \A t \in Tokens : b[t][Self] >= donated[t] /\ al[t] = 0

CustodyInv ==
  IF tx.pc = "idle" THEN Clean(bal, allow) ELSE
    /\ Clean(saved.bal, saved.allow)
    /\ tx.beforeUsdc = donated[Usdc]
    /\ tx.token # Usdc => tx.beforeIn >= donated[tx.token]
    /\ tx.pc = "swap" => bal[tx.token][Self] >= donated[tx.token] + tx.amount
    /\ \A t \in Tokens \ {Usdc} : bal[t][Self] >= donated[t]
    /\ \A t \in Tokens : t # tx.token \/ tx.pc \notin {"swap", "swapped"} => allow[t] = 0

LEMMA CustodyInit == Init => CustodyInv
  <1> SUFFICES ASSUME Init PROVE CustodyInv
    OBVIOUS
  <1>1. \A t \in Tokens : bal[t][Self] = 0 /\ allow[t] = 0 /\ donated[t] = 0
    BY ConstantsAssumption DEF Init
  <1>2. tx.pc = "idle" /\ Usdc \in Tokens
    BY ConstantsAssumption DEF Init, Idle
  <1> QED BY <1>1, <1>2 DEF CustodyInv, Clean

LEMMA BeginCustody ==
  ASSUME Typed, CustodyInv, NEW id \in InvoiceIds, NEW payer \in Accounts, NEW token \in Tokens,
         NEW maker \in Accounts \cup {Nobody}, NEW amount \in Nat, NEW minimum \in Nat,
         Begin(id, payer, token, maker, amount, minimum)
  PROVE  CustodyInv'
  <1>1. /\ ~entered /\ saved' = Snapshot /\ UNCHANGED <<bal, allow, donated>>
        /\ tx' = Opened(id, payer, token, maker, amount, minimum)
    BY DEF Begin
  <1>2. tx.pc = "idle" /\ StoreOK
    BY <1>1 DEF Typed, TxInv
  <1>3. /\ tx'.pc = "pull" /\ tx'.token = token /\ tx'.beforeIn = bal[token][Self]
        /\ tx'.beforeUsdc = bal[Usdc][Self]
    BY <1>1, <1>2, OpenedTyped
  <1>4. saved'.bal = bal /\ saved'.allow = allow
    BY <1>1 DEF Snapshot
  <1> QED BY <1>1, <1>2, <1>3, <1>4 DEF CustodyInv, Clean

\* A call whose tokens arrive at the contract lowers none of its balances.
LEMMA PullCustody == Typed /\ CustodyInv /\ Pull => CustodyInv'
  <1> SUFFICES ASSUME Typed, CustodyInv, Pull PROVE CustodyInv'
    OBVIOUS
  <1>0. /\ tx \in TxType /\ tx.payer \in Accounts /\ tx.payer # Self /\ tx.token \in Tokens
        /\ Self \in Accounts /\ tx.pc = "pull" /\ bal \in [Tokens -> [Accounts -> Nat]]
        /\ donated \in [Tokens -> Nat] /\ UNCHANGED <<allow, donated, saved>>
    BY ConstantsAssumption DEF Typed, StoreOK, TxInv, Pull, TxType
  <1>1. PICK debit \in Debits(tx.amount), credit \in Credits(tx.amount) :
          /\ Transfer(tx.token, tx.payer, Self, debit, credit)
          /\ tx' = [tx EXCEPT !.pc = "pulled", !.clean = (debit = tx.amount /\ credit = tx.amount)]
    BY DEF Pull
  <1>2. /\ tx'.pc = "pulled" /\ tx'.token = tx.token /\ tx'.beforeIn = tx.beforeIn
        /\ tx'.beforeUsdc = tx.beforeUsdc
    BY <1>0, <1>1 DEF TxType
  <1>3. debit \in Nat /\ credit \in Nat
    BY <1>0 DEF Debits, Credits, TxType
  <1>4. \A t \in Tokens : bal'[t][Self] >= bal[t][Self]
    <2>1. /\ bal'[tx.token][Self] = bal[tx.token][Self] + credit
          /\ \A u \in Tokens : u # tx.token => bal'[u] = bal[u]
      BY <1>0, <1>1, <1>3, TransferTyped
    <2>2. \A t \in Tokens : bal[t][Self] \in Nat
      BY <1>0
    <2> QED BY <1>3, <2>1, <2>2
  <1>5. \A t \in Tokens : bal[t][Self] \in Nat /\ bal'[t][Self] \in Nat /\ donated[t] \in Nat
    BY <1>0, PullTyped DEF Typed, StoreOK
  <1> QED BY <1>0, <1>2, <1>4, <1>5 DEF CustodyInv, Clean

LEMMA AcceptPullCustody == Typed /\ CustodyInv /\ AcceptPull => CustodyInv'
  <1> SUFFICES ASSUME Typed, CustodyInv, AcceptPull PROVE CustodyInv'
    OBVIOUS
  <1>0. /\ tx \in TxType /\ tx.pc = "pulled" /\ tx.token \in Tokens /\ allow \in [Tokens -> Nat]
        /\ tx.beforeIn \in Nat /\ tx.amount \in Nat /\ donated \in [Tokens -> Nat]
        /\ bal[tx.token][Self] = tx.beforeIn + tx.amount
        /\ UNCHANGED <<bal, donated, saved>>
    BY DEF Typed, StoreOK, AcceptPull, PullExact, Exact, TxType
  <1>1. CASE tx.token = Usdc
    <2> DEFINE due == invoices[tx.id].terms.due
    <2>1. tx' = [tx EXCEPT !.pc = "send", !.received = tx.amount, !.remaining = due] /\ UNCHANGED allow
      BY <1>1 DEF AcceptPull
    <2> HIDE DEF due
    <2>2. /\ tx'.pc = "send" /\ tx'.token = tx.token /\ tx'.beforeUsdc = tx.beforeUsdc
      BY <1>0, <2>1 DEF TxType
    <2> QED BY <1>0, <1>1, <2>1, <2>2 DEF CustodyInv, Clean
  <1>2. CASE tx.token # Usdc
    <2>1. tx' = [tx EXCEPT !.pc = "swap"] /\ allow' = [allow EXCEPT ![tx.token] = tx.amount]
      BY <1>2 DEF AcceptPull
    <2>2. /\ tx'.pc = "swap" /\ tx'.token = tx.token /\ tx'.beforeUsdc = tx.beforeUsdc
          /\ tx'.beforeIn = tx.beforeIn /\ tx'.amount = tx.amount
      BY <1>0, <2>1 DEF TxType
    <2>3. bal[tx.token][Self] >= donated[tx.token] + tx.amount
      BY <1>0, <1>2 DEF CustodyInv
    <2> QED BY <1>0, <1>2, <2>1, <2>2, <2>3 DEF CustodyInv, Clean
  <1> QED BY <1>1, <1>2

\* The router takes the input that AcceptPull checked and leaves the other tokens alone.
LEMMA RouterSwapCustody == Typed /\ CustodyInv /\ RouterSwap => CustodyInv'
  <1> SUFFICES ASSUME Typed, CustodyInv, RouterSwap PROVE CustodyInv'
    OBVIOUS
  <1>0. /\ tx \in TxType /\ tx.pc = "swap" /\ tx.token \in Tokens /\ tx.token # Usdc /\ Usdc \in Tokens
        /\ tx.maker \in Accounts /\ tx.maker # Self /\ tx.amount \in Nat /\ Self \in Accounts
        /\ bal \in [Tokens -> [Accounts -> Nat]] /\ allow \in [Tokens -> Nat] /\ donated \in [Tokens -> Nat]
        /\ bal[tx.token][Self] >= tx.amount
        /\ UNCHANGED <<donated, saved>>
    BY ConstantsAssumption DEF Typed, StoreOK, TxInv, RouterSwap, TxType
  <1>1. PICK out \in Outputs :
          /\ bal' = [bal EXCEPT
               ![tx.token] = Moved(bal[tx.token], Self, tx.maker, tx.amount, tx.amount),
               ![Usdc] = Moved(bal[Usdc], tx.maker, Self, out, out)]
          /\ tx' = [tx EXCEPT !.pc = "swapped", !.received = out]
    BY DEF RouterSwap
  <1>2. /\ tx'.pc = "swapped" /\ tx'.token = tx.token /\ tx'.beforeIn = tx.beforeIn
        /\ tx'.beforeUsdc = tx.beforeUsdc
    BY <1>0, <1>1 DEF TxType
  <1>3. bal'[tx.token][Self] = bal[tx.token][Self] - tx.amount
    <2>1. bal'[tx.token] = Moved(bal[tx.token], Self, tx.maker, tx.amount, tx.amount)
      BY <1>0, <1>1
    <2> DEFINE b == bal[tx.token]
               c == Moved(b, Self, tx.maker, tx.amount, tx.amount)
    <2>2. b \in [Accounts -> Nat] /\ b[Self] >= tx.amount /\ Self # tx.maker
      BY <1>0
    <2> HIDE DEF b
    <2>3. c[Self] = b[Self] - tx.amount
      BY <1>0, <2>2 DEF Moved
    <2> QED BY <2>1, <2>3 DEF b
  <1>4. \A t \in Tokens \ {Usdc, tx.token} : bal'[t] = bal[t]
    BY <1>0, <1>1
  <1>5. \A t \in Tokens : t # tx.token => allow'[t] = allow[t]
    BY <1>0 DEF RouterSwap
  <1>6. \A t \in Tokens : bal[t][Self] \in Nat /\ donated[t] \in Nat
    BY <1>0
  <1>7. /\ Clean(saved.bal, saved.allow) /\ tx.beforeUsdc = donated[Usdc] /\ tx.beforeIn >= donated[tx.token]
        /\ bal[tx.token][Self] >= donated[tx.token] + tx.amount
        /\ \A t \in Tokens \ {Usdc} : bal[t][Self] >= donated[t]
        /\ \A t \in Tokens : t # tx.token => allow[t] = 0
    BY <1>0 DEF CustodyInv
  <1>8. \A t \in Tokens \ {Usdc} : bal'[t][Self] >= donated[t]
    BY <1>0, <1>3, <1>4, <1>6, <1>7
  <1> QED BY <1>0, <1>2, <1>5, <1>7, <1>8 DEF CustodyInv, Clean

LEMMA AcceptSwapCustody == Typed /\ CustodyInv /\ AcceptSwap => CustodyInv'
  <1> SUFFICES ASSUME Typed, CustodyInv, AcceptSwap PROVE CustodyInv'
    OBVIOUS
  <1>0. /\ tx \in TxType /\ tx.pc = "swapped" /\ tx.token \in Tokens /\ allow \in [Tokens -> Nat]
        /\ UNCHANGED <<bal, donated, saved>> /\ allow' = [allow EXCEPT ![tx.token] = 0]
    BY DEF Typed, StoreOK, AcceptSwap, TxType
  <1> DEFINE due == invoices[tx.id].terms.due
  <1>1. tx' = [tx EXCEPT !.pc = "send", !.remaining = due]
    BY DEF AcceptSwap
  <1> HIDE DEF due
  <1>2. /\ tx'.pc = "send" /\ tx'.token = tx.token /\ tx'.beforeIn = tx.beforeIn
        /\ tx'.beforeUsdc = tx.beforeUsdc
    BY <1>0, <1>1 DEF TxType
  <1> QED BY <1>0, <1>2 DEF CustodyInv, Clean

\* Shares and refund leave in USDC only.
LEMMA SendCustody == Typed /\ CustodyInv /\ Send => CustodyInv'
  <1> SUFFICES ASSUME Typed, CustodyInv, Send PROVE CustodyInv'
    OBVIOUS
  <1> DEFINE last == tx.i > Len(Payees)
             amount == IF last THEN Refund ELSE ShareOf(invoices[tx.id].terms, tx.i, tx.remaining)
             to == IF last THEN tx.payer ELSE Payees[tx.i]
  <1>0. /\ tx.pc = "send" /\ tx \in TxType /\ last \in BOOLEAN
        /\ UNCHANGED <<allow, donated, saved>>
    BY DEF Send, Typed
  <1>1. PICK debit \in Debits(amount), credit \in Credits(amount) :
          /\ Transfer(Usdc, Self, to, debit, credit)
          /\ tx' = [tx EXCEPT !.pc = "sent", !.to = to, !.sending = amount,
                      !.beforeTo = bal[Usdc][to], !.beforeSelf = bal[Usdc][Self],
                      !.remaining = IF last THEN @ ELSE @ - amount,
                      !.clean = @ /\ debit = amount /\ credit = amount]
    BY DEF Send
  <1> HIDE DEF last, amount, to
  <1>2. \A t \in Tokens \ {Usdc} : bal'[t] = bal[t]
    BY <1>1 DEF Transfer, Typed, StoreOK
  <1>3. /\ tx'.pc = "sent" /\ tx'.token = tx.token /\ tx'.beforeIn = tx.beforeIn
        /\ tx'.beforeUsdc = tx.beforeUsdc
    <2> DEFINE rest == IF last THEN tx.remaining ELSE tx.remaining - amount
               beforeTo == bal[Usdc][to]
               beforeSelf == bal[Usdc][Self]
               clean == tx.clean /\ debit = amount /\ credit = amount
    <2>1. tx' = [tx EXCEPT !.pc = "sent", !.to = to, !.sending = amount, !.beforeTo = beforeTo,
                   !.beforeSelf = beforeSelf, !.remaining = rest, !.clean = clean]
      BY <1>1
    <2> HIDE DEF rest, beforeTo, beforeSelf, clean
    <2> QED BY <1>0, <2>1 DEF TxType
  <1> QED BY <1>0, <1>2, <1>3 DEF CustodyInv, Clean

LEMMA AcceptSendCustody == Typed /\ CustodyInv /\ AcceptSend => CustodyInv'
  <1> SUFFICES ASSUME Typed, CustodyInv, AcceptSend PROVE CustodyInv'
    OBVIOUS
  <1> DEFINE pc == IF tx.i < Len(Payees) \/ (tx.i = Len(Payees) /\ Refund # 0) THEN "send" ELSE "finish"
  <1>1. /\ tx.pc = "sent" /\ tx \in TxType /\ pc \in {"send", "finish"}
        /\ tx' = [tx EXCEPT !.i = @ + 1, !.pc = pc]
        /\ UNCHANGED <<bal, allow, donated, saved>>
    BY DEF AcceptSend, Typed
  <1> HIDE DEF pc
  <1>2. /\ tx'.pc = pc /\ tx'.token = tx.token /\ tx'.beforeIn = tx.beforeIn
        /\ tx'.beforeUsdc = tx.beforeUsdc
    BY <1>1 DEF TxType
  <1> QED BY <1>1, <1>2 DEF CustodyInv, Clean

\* The last comparison closes the payment: the USDC balance is the noted one.
LEMMA FinishCustody == Typed /\ CustodyInv /\ Finish => CustodyInv'
  <1> SUFFICES ASSUME Typed, CustodyInv, Finish PROVE CustodyInv'
    OBVIOUS
  <1>1. /\ tx.pc = "finish" /\ tx'.pc = "idle" /\ bal[Usdc][Self] = tx.beforeUsdc
        /\ UNCHANGED <<bal, allow, donated>>
    BY DEF Finish, Restored, Exact, Idle
  <1>2. Usdc \in Tokens /\ donated[Usdc] \in Nat
    BY ConstantsAssumption DEF Typed
  <1> QED BY <1>1, <1>2 DEF CustodyInv, Clean

LEMMA RevertCustody == Typed /\ CustodyInv /\ Revert => CustodyInv'
  BY DEF Revert, CustodyInv, Clean, Idle

\* Outside transfers give to the contract and are donations between payments.
LEMMA MoveCustody ==
  ASSUME Typed, CustodyInv, NEW t \in Tokens, NEW from \in Accounts, NEW to \in Accounts,
         Move(t, from, to, 1)
  PROVE  CustodyInv'
  <1>0. /\ from # Self /\ from # to /\ Transfer(t, from, to, 1, 1) /\ UNCHANGED <<allow, saved>>
        /\ donated' = IF tx.pc = "idle" /\ to = Self THEN [donated EXCEPT ![t] = @ + 1] ELSE donated
        /\ bal \in [Tokens -> [Accounts -> Nat]] /\ donated \in [Tokens -> Nat]
        /\ Self \in Accounts /\ tx \in TxType /\ Usdc \in Tokens
    BY ConstantsAssumption DEF Move, Typed, StoreOK
  <1>1. /\ bal'[t][to] = bal[t][to] + 1
        /\ \A a \in Accounts : a \notin {from, to} => bal'[t][a] = bal[t][a]
        /\ \A u \in Tokens : u # t => bal'[u] = bal[u]
    BY <1>0, TransferTyped
  <1>2. \A u \in Tokens : bal[u][Self] \in Nat /\ donated[u] \in Nat
    BY <1>0
  <1>3. \A u \in Tokens : bal'[u][Self] = IF u = t /\ to = Self THEN bal[u][Self] + 1 ELSE bal[u][Self]
    BY <1>0, <1>1
  <1>4. CASE tx.pc = "idle"
    <2>1. tx' = tx
      BY <1>4 DEF Move
    <2>2. \A u \in Tokens : donated'[u] = IF u = t /\ to = Self THEN donated[u] + 1 ELSE donated[u]
      BY <1>0, <1>4
    <2> QED BY <1>0, <1>2, <1>3, <1>4, <2>1, <2>2 DEF CustodyInv, Clean
  <1>5. CASE tx.pc # "idle"
    <2>1. tx' = [tx EXCEPT !.clean = FALSE]
      BY <1>5 DEF Move
    <2>2. /\ tx'.pc = tx.pc /\ tx'.token = tx.token /\ tx'.beforeIn = tx.beforeIn
          /\ tx'.beforeUsdc = tx.beforeUsdc /\ tx'.amount = tx.amount /\ tx.amount \in Nat
          /\ tx.token \in Tokens
      BY <1>0, <2>1 DEF TxType
    <2>3. donated' = donated
      BY <1>0, <1>5
    <2>4. \A u \in Tokens : bal'[u][Self] >= bal[u][Self] /\ bal'[u][Self] \in Nat
      BY <1>2, <1>3
    <2> QED BY <1>0, <1>2, <1>5, <2>2, <2>3, <2>4 DEF CustodyInv, Clean
  <1> QED BY <1>4, <1>5

LEMMA CustodyNext == Typed /\ CustodyInv /\ [Next]_vars => CustodyInv'
  <1> SUFFICES ASSUME Typed, CustodyInv, [Next]_vars PROVE CustodyInv'
    OBVIOUS
  <1>1. ASSUME NEW m \in Merchants, NEW t \in Terms, CreateInvoice(m, t) PROVE CustodyInv'
    BY <1>1 DEF CreateInvoice, CustodyInv, Clean
  <1>2. ASSUME NEW id \in InvoiceIds, NEW a \in Accounts \ {Self}, CancelInvoice(id, a) PROVE CustodyInv'
    BY <1>2 DEF CancelInvoice, CustodyInv, Clean
  <1>3. ASSUME NEW id \in InvoiceIds, NEW a \in Accounts \ {Self}, PayWithUSDC(id, a) PROVE CustodyInv'
    <2>1. Begin(id, a, Usdc, Nobody, invoices[id].terms.due, 0)
      BY <1>3 DEF PayWithUSDC
    <2>2. Usdc \in Tokens /\ invoices[id].terms.due \in Nat
      BY <2>1, ConstantsAssumption DEF Begin, Typed, KnownTerms, GoodTerms
    <2> QED BY <2>1, <2>2, BeginCustody
  <1>4. ASSUME NEW id \in InvoiceIds, NEW a \in Accounts \ {Self}, NEW r \in Routes,
               NEW amount \in Inputs, NEW minimum \in Minimums, PayWithSwap(id, a, r, amount, minimum)
        PROVE  CustodyInv'
    <2>1. Begin(id, a, r.input, r.maker, amount, minimum)
      BY <1>4 DEF PayWithSwap
    <2>2. r.input \in Tokens /\ r.maker \in Accounts /\ amount \in Nat /\ minimum \in Nat
      BY ConstantsAssumption
    <2> QED BY <2>1, <2>2, BeginCustody
  <1>5. CASE Pull \/ AcceptPull \/ RouterSwap \/ AcceptSwap
    BY <1>5, PullCustody, AcceptPullCustody, RouterSwapCustody, AcceptSwapCustody
  <1>6. CASE Send \/ AcceptSend \/ Finish \/ Revert
    BY <1>6, SendCustody, AcceptSendCustody, FinishCustody, RevertCustody
  <1>7. CASE \E t \in Tokens, from, to \in Accounts : Move(t, from, to, 1)
    BY <1>7, MoveCustody
  <1>8. CASE Tick
    BY <1>8 DEF Tick, CustodyInv, Clean
  <1>9. CASE UNCHANGED vars
    BY <1>9 DEF vars, CustodyInv, Clean
  <1> QED BY <1>1, <1>2, <1>3, <1>4, <1>5, <1>6, <1>7, <1>8, <1>9 DEF Next

LEMMA CustodyAlways == Spec => []CustodyInv
  BY CustodyInit, CustodyNext, TypedAlways, PTL DEF Spec

\* Between transactions the contract owns its donations and nothing else of
\* USDC, at least its donations of every other token, and has approved no one:
\* whatever tokens debit, credit or call back in the middle of payments, and
\* whichever payments are reverted.
THEOREM CustodyKept == Spec => []Custody
  <1>1. CustodyInv => Custody
    BY DEF CustodyInv, Clean, Custody
  <1> QED BY <1>1, CustodyAlways, PTL

-----------------------------------------------------------------------------
(* What each step of a payment changes, field by field.                     *)

SameDeal ==
  /\ tx'.id = tx.id /\ tx'.payer = tx.payer /\ tx'.maker = tx.maker /\ tx'.token = tx.token
  /\ tx'.amount = tx.amount /\ tx'.minimum = tx.minimum
  /\ tx'.beforeIn = tx.beforeIn /\ tx'.beforeUsdc = tx.beforeUsdc /\ tx'.beforePayer = tx.beforePayer

LEMMA PullEffect ==
  ASSUME Typed, Pull
  PROVE  /\ tx.pc = "pull" /\ tx'.pc = "pulled" /\ SameDeal /\ tx'.i = tx.i
         /\ UNCHANGED <<now, invoices, nonce, entered, allow, settled, donated, saved>>
         /\ tx'.clean =>
              /\ bal'[tx.token][tx.payer] = bal[tx.token][tx.payer] - tx.amount
              /\ bal'[tx.token][Self] = bal[tx.token][Self] + tx.amount
         /\ tx.token # Usdc => bal'[Usdc] = bal[Usdc]
  <1>0. /\ tx \in TxType /\ tx.payer \in Accounts /\ tx.payer # Self /\ tx.token \in Tokens
        /\ Self \in Accounts /\ Usdc \in Tokens /\ bal \in [Tokens -> [Accounts -> Nat]] /\ tx.amount \in Nat
    BY ConstantsAssumption DEF Typed, StoreOK, TxInv, Pull, TxType
  <1>1. PICK debit \in Debits(tx.amount), credit \in Credits(tx.amount) :
          /\ Transfer(tx.token, tx.payer, Self, debit, credit)
          /\ tx' = [tx EXCEPT !.pc = "pulled", !.clean = (debit = tx.amount /\ credit = tx.amount)]
    BY DEF Pull
  <1>2. debit \in Nat /\ credit \in Nat
    BY <1>0 DEF Debits, Credits
  <1>3. /\ bal'[tx.token][tx.payer] = bal[tx.token][tx.payer] - debit
        /\ bal'[tx.token][Self] = bal[tx.token][Self] + credit
        /\ \A u \in Tokens : u # tx.token => bal'[u] = bal[u]
    BY <1>0, <1>1, <1>2, TransferTyped
  <1>4. /\ tx'.pc = "pulled" /\ SameDeal /\ tx'.i = tx.i
        /\ tx'.clean <=> debit = tx.amount /\ credit = tx.amount
    BY <1>0, <1>1 DEF TxType, SameDeal
  <1> QED BY <1>0, <1>3, <1>4 DEF Pull

LEMMA AcceptPullEffect ==
  ASSUME Typed, AcceptPull
  PROVE  /\ tx.pc = "pulled" /\ PullExact /\ SameDeal /\ tx'.i = tx.i /\ tx'.clean = tx.clean
         /\ UNCHANGED <<now, invoices, nonce, entered, bal, donated, saved>>
         /\ settled' = WithTaken(tx.id, tx.amount)
         /\ tx.token = Usdc =>
              /\ tx'.pc = "send" /\ tx'.received = tx.amount /\ tx'.remaining = invoices[tx.id].terms.due
              /\ UNCHANGED allow
         /\ tx.token # Usdc => tx'.pc = "swap"
  <1>0. /\ tx \in TxType /\ tx.payer \in Accounts /\ tx.token \in Tokens /\ tx.amount \in Nat
        /\ tx.beforePayer \in Nat /\ bal \in [Tokens -> [Accounts -> Nat]]
    BY DEF Typed, StoreOK, TxInv, AcceptPull, TxType
  <1>1. tx.beforePayer - bal[tx.token][tx.payer] = tx.amount
    <2>1. bal[tx.token][tx.payer] = tx.beforePayer - tx.amount
      BY DEF AcceptPull, PullExact, Exact
    <2> QED BY <1>0, <2>1
  <1>2. CASE tx.token = Usdc
    <2> DEFINE due == invoices[tx.id].terms.due
    <2>1. tx' = [tx EXCEPT !.pc = "send", !.received = tx.amount, !.remaining = due]
      BY <1>2 DEF AcceptPull
    <2> HIDE DEF due
    <2>2. /\ tx'.pc = "send" /\ tx'.received = tx.amount /\ tx'.remaining = due
          /\ SameDeal /\ tx'.i = tx.i /\ tx'.clean = tx.clean
      BY <1>0, <2>1 DEF TxType, SameDeal
    <2> QED BY <1>1, <1>2, <2>2 DEF AcceptPull, due
  <1>3. CASE tx.token # Usdc
    <2>1. tx' = [tx EXCEPT !.pc = "swap"]
      BY <1>3 DEF AcceptPull
    <2>2. tx'.pc = "swap" /\ SameDeal /\ tx'.i = tx.i /\ tx'.clean = tx.clean
      BY <1>0, <2>1 DEF TxType, SameDeal
    <2> QED BY <1>1, <1>3, <2>2 DEF AcceptPull
  <1> QED BY <1>2, <1>3

LEMMA RouterSwapEffect ==
  ASSUME Typed, RouterSwap
  PROVE  /\ tx.pc = "swap" /\ tx'.pc = "swapped" /\ SameDeal /\ tx'.i = tx.i /\ tx'.clean = tx.clean
         /\ UNCHANGED <<now, invoices, nonce, entered, settled, donated, saved>>
         /\ tx'.received >= Threshold /\ tx'.received \in Nat
         /\ bal'[Usdc][Self] = bal[Usdc][Self] + tx'.received
         /\ bal'[tx.token][Self] = bal[tx.token][Self] - tx.amount
  <1>0. /\ tx \in TxType /\ tx.pc = "swap" /\ tx.token \in Tokens /\ tx.token # Usdc /\ Usdc \in Tokens
        /\ tx.maker \in Accounts /\ tx.maker # Self /\ tx.amount \in Nat /\ Self \in Accounts
        /\ bal \in [Tokens -> [Accounts -> Nat]] /\ bal[tx.token][Self] >= tx.amount
    BY ConstantsAssumption DEF Typed, StoreOK, TxInv, RouterSwap, TxType
  <1>1. PICK out \in Outputs :
          /\ out >= Threshold /\ bal[Usdc][tx.maker] >= out
          /\ bal' = [bal EXCEPT
               ![tx.token] = Moved(bal[tx.token], Self, tx.maker, tx.amount, tx.amount),
               ![Usdc] = Moved(bal[Usdc], tx.maker, Self, out, out)]
          /\ tx' = [tx EXCEPT !.pc = "swapped", !.received = out]
    BY DEF RouterSwap
  <1>2. out \in Nat
    BY ConstantsAssumption
  <1> DEFINE input == Moved(bal[tx.token], Self, tx.maker, tx.amount, tx.amount)
             output == Moved(bal[Usdc], tx.maker, Self, out, out)
  <1>3. input[Self] = bal[tx.token][Self] - tx.amount /\ output[Self] = bal[Usdc][Self] + out
    <2> DEFINE b == bal[tx.token]
               c == bal[Usdc]
    <2>1. b \in [Accounts -> Nat] /\ c \in [Accounts -> Nat] /\ b[Self] >= tx.amount /\ c[tx.maker] >= out
      BY <1>0, <1>1
    <2> HIDE DEF b, c
    <2>2. Moved(b, Self, tx.maker, tx.amount, tx.amount)[Self] = b[Self] - tx.amount
      BY <1>0, <2>1 DEF Moved
    <2>3. Moved(c, tx.maker, Self, out, out)[Self] = c[Self] + out
      BY <1>0, <1>2, <2>1 DEF Moved
    <2> QED BY <2>2, <2>3 DEF b, c
  <1>4. bal' = [bal EXCEPT ![tx.token] = input, ![Usdc] = output]
    BY <1>1
  <1> HIDE DEF input, output
  <1>5. bal'[tx.token] = input /\ bal'[Usdc] = output
    BY <1>0, <1>4
  <1>6. tx'.pc = "swapped" /\ tx'.received = out /\ SameDeal /\ tx'.i = tx.i /\ tx'.clean = tx.clean
    BY <1>0, <1>1 DEF TxType, SameDeal
  <1> QED BY <1>0, <1>1, <1>2, <1>3, <1>5, <1>6 DEF RouterSwap

LEMMA AcceptSwapEffect ==
  ASSUME Typed, AcceptSwap
  PROVE  /\ tx.pc = "swapped" /\ tx'.pc = "send" /\ SameDeal /\ tx'.i = tx.i /\ tx'.clean = tx.clean
         /\ UNCHANGED <<now, invoices, nonce, entered, bal, settled, donated, saved>>
         /\ tx'.received = tx.received /\ tx'.remaining = invoices[tx.id].terms.due
         /\ SwapExact
  <1> DEFINE due == invoices[tx.id].terms.due
  <1>1. tx \in TxType /\ tx' = [tx EXCEPT !.pc = "send", !.remaining = due]
    BY DEF AcceptSwap, Typed
  <1> HIDE DEF due
  <1>2. /\ tx'.pc = "send" /\ SameDeal /\ tx'.i = tx.i /\ tx'.clean = tx.clean
        /\ tx'.received = tx.received /\ tx'.remaining = due
    BY <1>1 DEF TxType, SameDeal
  <1> QED BY <1>2 DEF AcceptSwap, due

SendLast == tx.i > Len(Payees)
SendAmount == IF SendLast THEN Refund ELSE ShareOf(invoices[tx.id].terms, tx.i, tx.remaining)
SendTo == IF SendLast THEN tx.payer ELSE Payees[tx.i]

LEMMA SendEffect ==
  ASSUME Typed, Send
  PROVE  /\ tx.pc = "send" /\ tx'.pc = "sent" /\ SameDeal /\ tx'.i = tx.i /\ tx'.received = tx.received
         /\ UNCHANGED <<now, invoices, nonce, entered, allow, settled, donated, saved>>
         /\ SendLast \/ SendAmount <= tx.remaining
         /\ SendAmount \in Nat /\ tx'.sending = SendAmount /\ tx'.to = SendTo
         /\ SendTo \in Accounts \ {Self}
         /\ tx'.remaining = IF SendLast THEN tx.remaining ELSE tx.remaining - SendAmount
         /\ tx'.beforeTo = bal[Usdc][SendTo] /\ tx'.beforeSelf = bal[Usdc][Self]
         /\ tx'.clean =>
              /\ tx.clean
              /\ bal'[Usdc][SendTo] = bal[Usdc][SendTo] + SendAmount
              /\ bal'[Usdc][Self] = bal[Usdc][Self] - SendAmount
  <1> DEFINE amount == SendAmount
             to == SendTo
             last == SendLast
  <1>0. /\ tx.pc = "send" /\ tx \in TxType /\ last \in BOOLEAN
        /\ UNCHANGED <<now, invoices, nonce, entered, allow, settled, donated, saved>>
        /\ bal \in [Tokens -> [Accounts -> Nat]] /\ Usdc \in Tokens /\ Self \in Accounts
    BY ConstantsAssumption DEF Send, SendLast, Typed, StoreOK
  <1>1. amount \in Nat /\ to \in Accounts \ {Self}
    BY <1>0, SendTarget DEF TxType, SendAmount, SendTo, SendLast
  <1>2. PICK debit \in Debits(amount), credit \in Credits(amount) :
          /\ last \/ amount <= tx.remaining
          /\ Transfer(Usdc, Self, to, debit, credit)
          /\ tx' = [tx EXCEPT !.pc = "sent", !.to = to, !.sending = amount,
                      !.beforeTo = bal[Usdc][to], !.beforeSelf = bal[Usdc][Self],
                      !.remaining = IF last THEN @ ELSE @ - amount,
                      !.clean = @ /\ debit = amount /\ credit = amount]
    BY DEF Send, SendAmount, SendTo, SendLast
  <1> HIDE DEF amount, to, last
  <1>3. debit \in Nat /\ credit \in Nat
    BY <1>1 DEF Debits, Credits
  <1>4. /\ bal'[Usdc][Self] = bal[Usdc][Self] - debit
        /\ bal'[Usdc][to] = bal[Usdc][to] + credit
    BY <1>0, <1>1, <1>2, <1>3, TransferTyped
  <1> DEFINE rest == IF last THEN tx.remaining ELSE tx.remaining - amount
             beforeTo == bal[Usdc][to]
             beforeSelf == bal[Usdc][Self]
             clean == tx.clean /\ debit = amount /\ credit = amount
  <1>5. tx' = [tx EXCEPT !.pc = "sent", !.to = to, !.sending = amount, !.beforeTo = beforeTo,
                 !.beforeSelf = beforeSelf, !.remaining = rest, !.clean = clean]
    BY <1>2
  <1> HIDE DEF rest, beforeTo, beforeSelf, clean
  <1>6. /\ tx'.pc = "sent" /\ SameDeal /\ tx'.i = tx.i /\ tx'.received = tx.received
        /\ tx'.sending = amount /\ tx'.to = to /\ tx'.remaining = rest
        /\ tx'.beforeTo = beforeTo /\ tx'.beforeSelf = beforeSelf /\ tx'.clean = clean
    BY <1>0, <1>5 DEF TxType, SameDeal
  <1> QED BY <1>0, <1>1, <1>2, <1>4, <1>6 DEF rest, beforeTo, beforeSelf, clean, amount, to, last

SendMore == tx.i < Len(Payees) \/ (tx.i = Len(Payees) /\ Refund # 0)

LEMMA AcceptSendEffect ==
  ASSUME Typed, AcceptSend
  PROVE  /\ tx.pc = "sent" /\ SameDeal /\ tx'.i = tx.i + 1 /\ tx'.clean = tx.clean
         /\ tx'.pc = (IF SendMore THEN "send" ELSE "finish")
         /\ UNCHANGED <<now, invoices, nonce, entered, bal, allow, donated, saved>>
         /\ tx'.received = tx.received /\ tx'.remaining = tx.remaining
         /\ settled' = IF tx.i <= Len(Payees) THEN WithShare(tx.id, tx.i, tx.sending)
                                              ELSE WithRefund(tx.id, tx.sending)
  <1> DEFINE pc == IF SendMore THEN "send" ELSE "finish"
             gain == bal[Usdc][tx.to] - tx.beforeTo
  <1>1. /\ tx.pc = "sent" /\ tx \in TxType /\ tx' = [tx EXCEPT !.i = @ + 1, !.pc = pc]
        /\ settled' = IF tx.i <= Len(Payees) THEN WithShare(tx.id, tx.i, gain) ELSE WithRefund(tx.id, gain)
        /\ UNCHANGED <<now, invoices, nonce, entered, bal, allow, donated, saved>>
        /\ bal[Usdc][tx.to] = tx.beforeTo + tx.sending
    BY DEF AcceptSend, SendMore, Typed, SendExact, Exact
  <1>2. gain = tx.sending
    <2>1. tx.beforeTo \in Nat /\ tx.sending \in Nat
      BY <1>1 DEF TxType
    <2> QED BY <1>1, <2>1
  <1> HIDE DEF pc, gain
  <1>3. /\ tx'.pc = pc /\ SameDeal /\ tx'.i = tx.i + 1 /\ tx'.clean = tx.clean
        /\ tx'.received = tx.received /\ tx'.remaining = tx.remaining
    BY <1>1 DEF TxType, SameDeal
  <1> QED BY <1>1, <1>2, <1>3 DEF pc

LEMMA MoveEffect ==
  ASSUME Typed, NEW t \in Tokens, NEW from \in Accounts, NEW to \in Accounts, Move(t, from, to, 1)
  PROVE  /\ UNCHANGED <<now, invoices, nonce, entered, allow, settled, saved>>
         /\ tx.pc = "idle" => tx' = tx
         /\ tx.pc # "idle" =>
              /\ tx.pc \in Open
              /\ tx'.pc = tx.pc /\ SameDeal /\ tx'.i = tx.i /\ ~tx'.clean
              /\ tx'.received = tx.received /\ tx'.remaining = tx.remaining /\ tx'.sending = tx.sending
  <1>1. CASE tx.pc # "idle"
    <2>1. tx \in TxType /\ tx' = [tx EXCEPT !.clean = FALSE] /\ tx.pc \in Open
      BY <1>1 DEF Move, Typed
    <2>2. /\ tx'.pc = tx.pc /\ SameDeal /\ tx'.i = tx.i /\ ~tx'.clean
          /\ tx'.received = tx.received /\ tx'.remaining = tx.remaining /\ tx'.sending = tx.sending
      BY <2>1 DEF TxType, SameDeal
    <2> QED BY <1>1, <2>1, <2>2 DEF Move
  <1> QED BY <1>1 DEF Move
-----------------------------------------------------------------------------
(* The book.  Seen from outside an invoice is in the book as the last       *)
(* completed transaction left it; the open payment has changed nothing but  *)
(* the status of its own invoice.                                           *)

\* Exactly the ids below the merchant's next number are known.
Numbered(inv, n) ==
  \A id \in InvoiceIds :
    /\ inv[id].status # "Unknown" <=> id[2] < n[id[1]]
    /\ inv[id].status = "Unknown" => inv[id] = Invoice(id, NoTerms, "Unknown")

BookInv ==
  /\ Numbered(Committed.invoices, Committed.nonce)
  /\ tx.pc # "idle" =>
       /\ nonce = saved.nonce
       /\ saved.invoices[tx.id].status = "Unpaid"
       /\ now < saved.invoices[tx.id].terms.expiresAt
       /\ invoices = [saved.invoices EXCEPT ![tx.id].status = "InProgress"]

\* What a step inside a transaction, or between two, leaves alone.
Quiet ==
  /\ UNCHANGED <<now, invoices, nonce, saved>>
  /\ tx'.id = tx.id /\ (tx'.pc = "idle" <=> tx.pc = "idle")
  /\ tx.pc = "idle" => settled' = settled

InnerStep ==
  \/ Pull \/ AcceptPull \/ RouterSwap \/ AcceptSwap \/ Send \/ AcceptSend
  \/ \E t \in Tokens, from, to \in Accounts : Move(t, from, to, 1)

\* What the committed state is, in and outside a transaction.
LEMMA CommittedIs ==
  /\ tx.pc = "idle" =>
       Committed.invoices = invoices /\ Committed.nonce = nonce /\ Committed.settled = settled
  /\ tx.pc # "idle" => Committed = saved
  BY DEF Committed, Snapshot

LEMMA CommittedIsNext ==
  /\ tx'.pc = "idle" =>
       Committed'.invoices = invoices' /\ Committed'.nonce = nonce' /\ Committed'.settled = settled'
  /\ tx'.pc # "idle" => Committed' = saved'
  BY DEF Committed, Snapshot

LEMMA InnerQuiet ==
  ASSUME Typed, InnerStep
  PROVE  /\ Quiet
         /\ Committed'.invoices = Committed.invoices /\ Committed'.nonce = Committed.nonce
         /\ Committed'.settled = Committed.settled
  <1>1. Quiet
    <2>1. CASE Pull
      BY <2>1, PullEffect DEF Quiet, SameDeal
    <2>2. CASE AcceptPull
      BY <2>2, AcceptPullEffect DEF Quiet, SameDeal
    <2>3. CASE RouterSwap
      BY <2>3, RouterSwapEffect DEF Quiet, SameDeal
    <2>4. CASE AcceptSwap
      BY <2>4, AcceptSwapEffect DEF Quiet, SameDeal
    <2>5. CASE Send
      BY <2>5, SendEffect DEF Quiet, SameDeal
    <2>6. CASE AcceptSend
      BY <2>6, AcceptSendEffect DEF Quiet, SameDeal
    <2>7. CASE \E t \in Tokens, from, to \in Accounts : Move(t, from, to, 1)
      BY <2>7, MoveEffect DEF Quiet, SameDeal
    <2> QED BY <2>1, <2>2, <2>3, <2>4, <2>5, <2>6, <2>7 DEF InnerStep
  <1> QED BY <1>1, CommittedIs, CommittedIsNext DEF Quiet

\* A payment opens on an unpaid invoice that has not expired, and what it goes
\* back to is the state it found.
LEMMA BeginEffect ==
  ASSUME Typed, NEW id \in InvoiceIds, NEW payer \in Accounts, NEW token \in Tokens,
         NEW maker \in Accounts \cup {Nobody}, NEW amount \in Nat, NEW minimum \in Nat,
         Begin(id, payer, token, maker, amount, minimum)
  PROVE  /\ tx.pc = "idle" /\ tx'.pc = "pull" /\ tx'.id = id
         /\ tx'.payer = payer /\ tx'.token = token /\ tx'.amount = amount
         /\ tx'.beforeIn = bal[token][Self] /\ tx'.beforeUsdc = bal[Usdc][Self]
         /\ tx'.beforePayer = bal[token][payer] /\ tx'.i = 1
         /\ invoices[id].status = "Unpaid" /\ now < invoices[id].terms.expiresAt
         /\ invoices' = [invoices EXCEPT ![id].status = "InProgress"]
         /\ invoices'[id].terms = invoices[id].terms /\ invoices'[id].status = "InProgress"
         /\ UNCHANGED <<now, nonce, bal, allow, settled>>
         /\ saved'.invoices = invoices /\ saved'.nonce = nonce /\ saved'.settled = settled
         /\ Committed'.invoices = Committed.invoices /\ Committed'.nonce = Committed.nonce
         /\ Committed'.settled = Committed.settled
  <1>1. /\ ~entered /\ saved' = Snapshot /\ UNCHANGED <<now, nonce, bal, allow, settled>>
        /\ invoices[id].status = "Unpaid" /\ now < invoices[id].terms.expiresAt
        /\ invoices' = WithStatus(id, "InProgress")
        /\ tx' = Opened(id, payer, token, maker, amount, minimum)
    BY DEF Begin
  <1>2. tx.pc = "idle" /\ StoreOK
    BY <1>1 DEF Typed, TxInv
  <1>3. /\ tx'.pc = "pull" /\ tx'.id = id /\ tx'.payer = payer /\ tx'.token = token /\ tx'.amount = amount
        /\ tx'.beforeIn = bal[token][Self] /\ tx'.beforeUsdc = bal[Usdc][Self]
        /\ tx'.beforePayer = bal[token][payer] /\ tx'.i = 1
    BY <1>1, <1>2, OpenedTyped
  <1>4. saved'.invoices = invoices /\ saved'.nonce = nonce /\ saved'.settled = settled
    BY <1>1 DEF Snapshot
  <1>5. invoices'[id].terms = invoices[id].terms /\ invoices'[id].status = "InProgress"
    BY <1>1, StatusTyped DEF Typed, StoreOK
  <1>6. invoices' = [invoices EXCEPT ![id].status = "InProgress"]
    BY <1>1 DEF WithStatus
  <1> QED BY <1>1, <1>2, <1>3, <1>4, <1>5, <1>6, CommittedIs, CommittedIsNext

\* Both payment functions open with _begin.
LEMMA PayBegins ==
  ASSUME Typed, NEW id \in InvoiceIds, NEW payer \in Accounts \ {Self},
         \/ PayWithUSDC(id, payer)
         \/ \E r \in Routes, amount \in Inputs, minimum \in Minimums : PayWithSwap(id, payer, r, amount, minimum)
  PROVE  \E token \in Tokens, maker \in Accounts \cup {Nobody}, amount \in Nat, minimum \in Nat :
           Begin(id, payer, token, maker, amount, minimum)
  <1>1. CASE PayWithUSDC(id, payer)
    <2>1. Begin(id, payer, Usdc, Nobody, invoices[id].terms.due, 0)
      BY <1>1 DEF PayWithUSDC
    <2>2. Usdc \in Tokens /\ invoices[id].terms.due \in Nat
      BY <2>1, ConstantsAssumption DEF Begin, Typed, KnownTerms, GoodTerms
    <2> QED BY <2>1, <2>2
  <1>2. ASSUME NEW r \in Routes, NEW amount \in Inputs, NEW minimum \in Minimums,
               PayWithSwap(id, payer, r, amount, minimum)
        PROVE  \E token \in Tokens, maker \in Accounts \cup {Nobody}, a \in Nat, b \in Nat :
                 Begin(id, payer, token, maker, a, b)
    <2>1. Begin(id, payer, r.input, r.maker, amount, minimum)
      BY <1>2 DEF PayWithSwap
    <2>2. r.input \in Tokens /\ r.maker \in Accounts /\ amount \in Nat /\ minimum \in Nat
      BY ConstantsAssumption
    <2> QED BY <2>1, <2>2
  <1> QED BY <1>1, <1>2

\* The entry a completed payment leaves: its terms, status Paid and the receipt.
LEMMA FinishEffect ==
  ASSUME Typed, BookInv, Finish
  PROVE  LET receipt == [payer |-> tx.payer, inputRaw |-> tx.amount,
                         receivedRaw |-> tx.received, refundRaw |-> Refund]
             v == saved.invoices[tx.id]
         IN /\ tx.pc = "finish" /\ tx'.pc = "idle" /\ tx.id \in InvoiceIds /\ Restored
            /\ Committed.invoices = saved.invoices /\ Committed'.invoices = invoices'
            /\ Committed.nonce = nonce /\ Committed'.nonce = nonce /\ Committed'.settled = settled
            /\ invoices' = [saved.invoices EXCEPT ![tx.id].status = "Paid", ![tx.id].receipt = receipt]
            /\ \A id \in InvoiceIds \ {tx.id} : invoices'[id] = saved.invoices[id]
            /\ invoices'[tx.id].status = "Paid" /\ invoices'[tx.id].receipt = receipt
            /\ invoices'[tx.id].terms = v.terms /\ invoices[tx.id].terms = v.terms
            /\ UNCHANGED <<now, settled>>
  <1> DEFINE receipt == [payer |-> tx.payer, inputRaw |-> tx.amount,
                         receivedRaw |-> tx.received, refundRaw |-> Refund]
             v == saved.invoices[tx.id]
  <1>1. /\ tx.pc = "finish" /\ invoices' = Paid(tx.id, receipt) /\ tx'.pc = "idle" /\ Restored
        /\ UNCHANGED <<now, nonce, settled>>
    BY DEF Finish, Idle
  <1>2. /\ tx.id \in InvoiceIds /\ saved.invoices \in [InvoiceIds -> InvoiceType] /\ v \in InvoiceType
        /\ nonce = saved.nonce
        /\ invoices = [saved.invoices EXCEPT ![tx.id].status = "InProgress"]
    BY <1>1 DEF Typed, TxInv, StoreType, BookInv
  <1> HIDE DEF receipt
  <1>3. invoices = [saved.invoices EXCEPT ![tx.id] = [v EXCEPT !.status = "InProgress"]]
    BY <1>2
  <1> HIDE DEF v
  <1> DEFINE u == [v EXCEPT !.status = "InProgress"]
             w == [u EXCEPT !.status = "Paid", !.receipt = receipt]
  <1>4. u.terms = v.terms /\ w = [v EXCEPT !.status = "Paid", !.receipt = receipt]
        /\ w.status = "Paid" /\ w.receipt = receipt /\ w.terms = v.terms
    BY <1>2 DEF InvoiceType
  <1>5. invoices[tx.id] = u /\ \A id \in InvoiceIds \ {tx.id} : invoices[id] = saved.invoices[id]
    BY <1>2, <1>3
  <1>6. invoices' = [invoices EXCEPT ![tx.id] = w]
    BY <1>1, <1>5 DEF Paid
  <1> HIDE DEF u, w
  <1>7. invoices' = [saved.invoices EXCEPT ![tx.id] = w]
    BY <1>2, <1>3, <1>6
  <1>8. invoices' = [saved.invoices EXCEPT ![tx.id].status = "Paid", ![tx.id].receipt = receipt]
    BY <1>4, <1>7 DEF v
  <1>9. invoices'[tx.id] = w /\ \A id \in InvoiceIds \ {tx.id} : invoices'[id] = saved.invoices[id]
    BY <1>2, <1>7
  <1>10. /\ Committed.invoices = saved.invoices /\ Committed'.invoices = invoices'
         /\ Committed.nonce = nonce /\ Committed'.nonce = nonce /\ Committed'.settled = settled
    BY <1>1, <1>2, CommittedIs, CommittedIsNext
  <1> QED BY <1>1, <1>2, <1>4, <1>5, <1>8, <1>9, <1>10 DEF v, receipt

\* createInvoice makes the next number of its merchant known, and no other.
LEMMA CreateEffect ==
  ASSUME Typed, BookInv, NEW m \in Merchants, NEW t \in Terms, CreateInvoice(m, t)
  PROVE  LET id == <<m, nonce[m]>> IN
         /\ id \in InvoiceIds /\ tx.pc = "idle" /\ tx'.pc = "idle"
         /\ invoices[id] = Invoice(id, NoTerms, "Unknown") /\ GoodTerms(t) /\ ValidTerms(t)
         /\ invoices' = [invoices EXCEPT ![id] = Invoice(id, t, "Unpaid")]
         /\ nonce[m] \in Nat /\ nonce' = [nonce EXCEPT ![m] = nonce[m] + 1]
         /\ Committed.invoices = invoices /\ Committed'.invoices = invoices'
         /\ Committed.nonce = nonce /\ Committed'.nonce = nonce'
         /\ Committed.settled = settled /\ Committed'.settled = settled
         /\ now' = now
  <1> DEFINE id == <<m, nonce[m]>>
  <1>1. /\ ~entered /\ ValidTerms(t) /\ nonce[m] < MaxNonce
        /\ nonce' = [nonce EXCEPT ![m] = @ + 1]
        /\ invoices' = [invoices EXCEPT ![id] = Invoice(id, t, "Unpaid")]
        /\ UNCHANGED <<now, tx, settled>>
    BY DEF CreateInvoice
  <1>2. tx.pc = "idle" /\ tx'.pc = "idle"
    BY <1>1 DEF Typed, TxInv
  <1>3. nonce[m] \in Nat /\ nonce[m] \in 0 .. MaxNonce - 1
    BY <1>1, ConstantsAssumption DEF Typed, StoreOK
  <1>4. id \in InvoiceIds
    BY <1>3 DEF InvoiceIds
  <1>5. /\ Committed.invoices = invoices /\ Committed'.invoices = invoices'
        /\ Committed.nonce = nonce /\ Committed'.nonce = nonce'
        /\ Committed.settled = settled /\ Committed'.settled = settled
    BY <1>1, <1>2, CommittedIs, CommittedIsNext
  <1>6. Numbered(invoices, nonce)
    BY <1>5 DEF BookInv
  <1>7. ~(id[2] < nonce[id[1]])
    BY <1>3
  <1>8. invoices[id] = Invoice(id, NoTerms, "Unknown")
    BY <1>4, <1>6, <1>7 DEF Numbered
  <1> QED BY <1>1, <1>2, <1>3, <1>4, <1>5, <1>8, ValidTermsGood

LEMMA BookInit == Init => BookInv
  <1> SUFFICES ASSUME Init PROVE BookInv
    OBVIOUS
  <1>1. tx.pc = "idle"
    BY DEF Init, Idle
  <1>2. Numbered(invoices, nonce)
    BY DEF Init, Numbered, InvoiceIds, Invoice
  <1> QED BY <1>1, <1>2, CommittedIs DEF BookInv

LEMMA CreateBook ==
  ASSUME Typed, BookInv, NEW m \in Merchants, NEW t \in Terms, CreateInvoice(m, t)
  PROVE  BookInv'
  <1> DEFINE new == <<m, nonce[m]>>
  <1>1. /\ new \in InvoiceIds /\ tx'.pc = "idle"
        /\ invoices' = [invoices EXCEPT ![new] = Invoice(new, t, "Unpaid")]
        /\ nonce[m] \in Nat /\ nonce' = [nonce EXCEPT ![m] = nonce[m] + 1]
        /\ Committed'.invoices = invoices' /\ Committed'.nonce = nonce'
        /\ Numbered(invoices, nonce)
    BY CreateEffect DEF BookInv
  <1>2. nonce \in [Merchants -> 0 .. MaxNonce] /\ invoices \in [InvoiceIds -> InvoiceType]
    BY DEF Typed, StoreOK
  <1>3. ASSUME NEW id \in InvoiceIds, id # new
        PROVE  /\ invoices'[id] = invoices[id]
               /\ id[2] < nonce'[id[1]] <=> id[2] < nonce[id[1]]
    <2>1. id[1] \in Merchants /\ id[2] \in Nat /\ id = <<id[1], id[2]>>
      BY DEF InvoiceIds
    <2>2. invoices'[id] = invoices[id]
      BY <1>1, <1>2, <1>3
    <2>3. CASE id[1] = m
      <3>1. id[2] # nonce[m] /\ nonce'[id[1]] = nonce[m] + 1
        BY <1>1, <1>2, <1>3, <2>1, <2>3
      <3> QED BY <1>1, <2>1, <2>2, <2>3, <3>1
    <2>4. CASE id[1] # m
      BY <1>1, <1>2, <2>1, <2>2, <2>4
    <2> QED BY <2>3, <2>4
  <1>4. invoices'[new].status = "Unpaid" /\ new[2] < nonce'[new[1]]
    BY <1>1, <1>2 DEF Invoice
  <1>5. Numbered(invoices', nonce')
    BY <1>1, <1>3, <1>4 DEF Numbered
  <1> QED BY <1>1, <1>5 DEF BookInv

\* Statuses other than Unknown may change without disturbing the numbers.
LEMMA StatusBook ==
  ASSUME NEW inv, NEW n, Numbered(inv, n), NEW id \in InvoiceIds, NEW next,
         inv[id].status # "Unknown", next[id].status # "Unknown",
         \A other \in InvoiceIds \ {id} : next[other] = inv[other]
  PROVE  Numbered(next, n)
  BY DEF Numbered

LEMMA CancelEffect ==
  ASSUME Typed, NEW id \in InvoiceIds, NEW a, CancelInvoice(id, a)
  PROVE  /\ tx.pc = "idle" /\ tx'.pc = "idle"
         /\ invoices[id].status = "Unpaid" /\ invoices'[id].status = "Cancelled"
         /\ invoices' = [invoices EXCEPT ![id].status = "Cancelled"]
         /\ \A x \in InvoiceIds \ {id} : invoices'[x] = invoices[x]
         /\ Committed.invoices = invoices /\ Committed'.invoices = invoices'
         /\ Committed.nonce = nonce /\ Committed'.nonce = nonce
         /\ Committed.settled = settled /\ Committed'.settled = settled
         /\ now' = now
  <1>1. /\ ~entered /\ invoices[id].status = "Unpaid" /\ invoices' = WithStatus(id, "Cancelled")
        /\ UNCHANGED <<now, nonce, settled, tx>>
    BY DEF CancelInvoice
  <1>2. tx.pc = "idle" /\ tx'.pc = "idle"
    BY <1>1 DEF Typed, TxInv
  <1>3. invoices'[id].status = "Cancelled" /\ \A x \in InvoiceIds \ {id} : invoices'[x] = invoices[x]
    BY <1>1, StatusTyped DEF Typed, StoreOK
  <1>4. invoices' = [invoices EXCEPT ![id].status = "Cancelled"]
    BY <1>1 DEF WithStatus
  <1> QED BY <1>1, <1>2, <1>3, <1>4, CommittedIs, CommittedIsNext

LEMMA CancelBook ==
  ASSUME Typed, BookInv, NEW id \in InvoiceIds, NEW a, CancelInvoice(id, a)
  PROVE  BookInv'
  <1>1. Numbered(invoices, nonce) /\ tx'.pc = "idle"
    BY CancelEffect DEF BookInv
  <1>2. Numbered(invoices', nonce)
    BY <1>1, CancelEffect, StatusBook
  <1> QED BY <1>1, <1>2, CancelEffect DEF BookInv

LEMMA BeginBook ==
  ASSUME Typed, BookInv, NEW id \in InvoiceIds, NEW payer \in Accounts, NEW token \in Tokens,
         NEW maker \in Accounts \cup {Nobody}, NEW amount \in Nat, NEW minimum \in Nat,
         Begin(id, payer, token, maker, amount, minimum)
  PROVE  BookInv'
  BY BeginEffect DEF BookInv

LEMMA FinishBook == Typed /\ BookInv /\ Finish => BookInv'
  <1> SUFFICES ASSUME Typed, BookInv, Finish PROVE BookInv'
    OBVIOUS
  <1>1. Numbered(saved.invoices, nonce) /\ saved.invoices[tx.id].status = "Unpaid"
    BY FinishEffect DEF BookInv
  <1>2. /\ tx.id \in InvoiceIds /\ tx'.pc = "idle" /\ invoices'[tx.id].status = "Paid"
        /\ Committed'.invoices = invoices' /\ Committed'.nonce = nonce
        /\ \A id \in InvoiceIds \ {tx.id} : invoices'[id] = saved.invoices[id]
    BY FinishEffect
  <1>3. Numbered(invoices', nonce)
    BY <1>1, <1>2, StatusBook
  <1> QED BY <1>2, <1>3 DEF BookInv

\* A revert commits what was committed before the payment.
LEMMA RevertEffect ==
  ASSUME Revert
  PROVE  /\ tx.pc # "idle" /\ tx'.pc = "idle" /\ now' = now
         /\ Committed'.invoices = Committed.invoices /\ Committed'.nonce = Committed.nonce
         /\ Committed'.settled = Committed.settled
  <1>1. /\ tx.pc # "idle" /\ tx'.pc = "idle" /\ now' = now
        /\ invoices' = saved.invoices /\ nonce' = saved.nonce /\ settled' = saved.settled
    BY DEF Revert, Idle
  <1> QED BY <1>1, CommittedIs, CommittedIsNext

LEMMA BookNext == Typed /\ BookInv /\ [Next]_vars => BookInv'
  <1> SUFFICES ASSUME Typed, BookInv, [Next]_vars PROVE BookInv'
    OBVIOUS
  <1>1. ASSUME NEW m \in Merchants, NEW t \in Terms, CreateInvoice(m, t) PROVE BookInv'
    BY <1>1, CreateBook
  <1>2. ASSUME NEW id \in InvoiceIds, NEW a \in Accounts \ {Self}, CancelInvoice(id, a) PROVE BookInv'
    BY <1>2, CancelBook
  <1>3. ASSUME NEW id \in InvoiceIds, NEW a \in Accounts \ {Self},
               \/ PayWithUSDC(id, a)
               \/ \E r \in Routes, amount \in Inputs, minimum \in Minimums : PayWithSwap(id, a, r, amount, minimum)
        PROVE  BookInv'
    BY <1>3, PayBegins, BeginBook
  <1>4. CASE InnerStep
    <2>1. Quiet
      BY <1>4, InnerQuiet
    <2> QED BY <1>4, <2>1, InnerQuiet DEF Quiet, BookInv
  <1>5. CASE Finish
    BY <1>5, FinishBook
  <1>6. CASE Revert
    BY <1>6, RevertEffect DEF BookInv
  <1>7. CASE Tick
    BY <1>7 DEF Tick, BookInv, Committed, Snapshot
  <1>8. CASE UNCHANGED vars
    BY <1>8 DEF vars, BookInv, Committed, Snapshot
  <1> QED BY <1>1, <1>2, <1>3, <1>4, <1>5, <1>6, <1>7, <1>8 DEF Next, InnerStep

LEMMA BookAlways == Spec => []BookInv
  BY TypedAlways, BookInit, BookNext, PTL DEF Spec

\* Each step of the contract is a step of the book or none at all.
LEMMA BookStep == Typed /\ BookInv /\ [Next]_vars => [Book!Next]_<<now, Committed.invoices>>
  <1> SUFFICES ASSUME Typed, BookInv, [Next]_vars
               PROVE  Book!Next \/ UNCHANGED <<now, Committed.invoices>>
    OBVIOUS
  <1>1. ASSUME NEW m \in Merchants, NEW t \in Terms, CreateInvoice(m, t) PROVE Book!Next
    <2> DEFINE id == <<m, nonce[m]>>
    <2>1. /\ id \in InvoiceIds /\ now' = now /\ invoices[id] = Invoice(id, NoTerms, "Unknown")
          /\ Committed.invoices = invoices /\ Committed'.invoices = invoices'
          /\ invoices' = [invoices EXCEPT ![id] = Invoice(id, t, "Unpaid")]
          /\ Numbered(invoices, nonce) /\ ValidTerms(t) /\ GoodTerms(t)
      BY <1>1, CreateEffect DEF BookInv
    <2>2. \A other \in InvoiceIds : other[1] = id[1] /\ other[2] < id[2] => invoices[other].status # "Unknown"
      BY <2>1 DEF Numbered
    <2>3. now < t.expiresAt
      BY <2>1, ConstantsAssumption DEF ValidTerms, GoodTerms, Typed
    <2>4. invoices' = [invoices EXCEPT ![id].terms = t, ![id].status = "Unpaid"]
      <3> DEFINE v == invoices[id]
                 w == Invoice(id, t, "Unpaid")
      <3>1. v = Invoice(id, NoTerms, "Unknown") /\ invoices' = [invoices EXCEPT ![id] = w]
        BY <2>1
      <3> HIDE DEF v
      <3>2. w = [v EXCEPT !.terms = t, !.status = "Unpaid"]
        <4> DEFINE u == [v EXCEPT !.terms = t]
        <4>1. u = Invoice(id, t, "Unknown")
          BY <3>1 DEF Invoice
        <4>2. [v EXCEPT !.terms = t, !.status = "Unpaid"] = [u EXCEPT !.status = "Unpaid"]
          OBVIOUS
        <4> HIDE DEF u
        <4>3. [u EXCEPT !.status = "Unpaid"] = w
          BY <4>1 DEF Invoice
        <4> QED BY <4>2, <4>3
      <3>3. DOMAIN invoices = InvoiceIds
        BY DEF Typed, StoreOK
      <3> HIDE DEF w, id
      <3> QED BY <2>1, <3>1, <3>2, <3>3 DEF v
    <2>5. Book!Create(id, t)
      <3> HIDE DEF id
      <3>1. Committed'.invoices = [Committed.invoices EXCEPT ![id].terms = t, ![id].status = "Unpaid"]
        BY <2>1, <2>4
      <3>2. Committed.invoices[id].status = "Unknown"
        BY <2>1 DEF Invoice
      <3>3. \A other \in InvoiceIds :
              other[1] = id[1] /\ other[2] < id[2] => Committed.invoices[other].status # "Unknown"
        BY <2>1, <2>2
      <3> QED BY <2>1, <2>3, <3>1, <3>2, <3>3 DEF Book!Create
    <2> QED BY <2>1, <2>5 DEF Book!Next
  <1>2. ASSUME NEW id \in InvoiceIds, NEW a \in Accounts \ {Self}, CancelInvoice(id, a) PROVE Book!Next
    <2>1. Book!Cancel(id)
      BY <1>2, CancelEffect DEF Book!Cancel
    <2> QED BY <2>1 DEF Book!Next
  <1>3. ASSUME NEW id \in InvoiceIds, NEW a \in Accounts \ {Self},
               \/ PayWithUSDC(id, a)
               \/ \E r \in Routes, amount \in Inputs, minimum \in Minimums : PayWithSwap(id, a, r, amount, minimum)
        PROVE  UNCHANGED <<now, Committed.invoices>>
    BY <1>3, PayBegins, BeginEffect
  <1>4. CASE InnerStep
    BY <1>4, InnerQuiet DEF Quiet
  <1>5. CASE Finish
    <2> DEFINE receipt == [payer |-> tx.payer, inputRaw |-> tx.amount,
                           receivedRaw |-> tx.received, refundRaw |-> Refund]
    <2>1. /\ tx.pc = "finish" /\ tx.id \in InvoiceIds
          /\ Committed.invoices = saved.invoices /\ Committed'.invoices = invoices'
          /\ invoices' = [saved.invoices EXCEPT ![tx.id].status = "Paid", ![tx.id].receipt = receipt]
          /\ invoices'[tx.id].receipt = receipt
          /\ invoices[tx.id].terms = saved.invoices[tx.id].terms
          /\ UNCHANGED now
      BY <1>5, FinishEffect
    <2>2. saved.invoices[tx.id].status = "Unpaid" /\ now < saved.invoices[tx.id].terms.expiresAt
      BY <2>1 DEF BookInv
    <2>3. tx.payer \in Accounts /\ tx.received >= invoices[tx.id].terms.due
      BY <2>1 DEF Typed, TxInv
    <2>4. Book!Pay(tx.id, receipt)
      BY <2>1, <2>2, <2>3 DEF Book!Pay, Refund
    <2> QED BY <2>1, <2>4 DEF Book!Next
  <1>6. CASE Revert
    BY <1>6, RevertEffect
  <1>7. CASE Tick
    BY <1>7 DEF Tick, Book!Next, Book!Tick, Committed, Snapshot
  <1>8. CASE UNCHANGED vars
    BY <1>8 DEF vars, Committed, Snapshot
  <1> QED BY <1>1, <1>2, <1>3, <1>4, <1>5, <1>6, <1>7, <1>8 DEF Next, InnerStep

\* Seen from outside, the contract is the book of invoices: an invoice is
\* created once under the next number of its merchant, is cancelled or paid at
\* most once, never after it expired and never against other terms, and a
\* payment is one step, whatever foreign code runs inside it (guarded, _begin).
THEOREM BookImplemented == Spec => ImplementsBook
  <1>1. Init => Book!Init
    <2> SUFFICES ASSUME Init PROVE Book!Init
      OBVIOUS
    <2>1. tx.pc = "idle"
      BY DEF Init, Idle
    <2> QED BY <2>1, CommittedIs DEF Init, Book!Init, Invoice
  <1>2. Typed /\ BookInv /\ [Next]_vars => [Book!Next]_<<now, Committed.invoices>>
    BY BookStep
  <1> QED BY <1>1, <1>2, TypedAlways, BookAlways, PTL DEF Spec, ImplementsBook, Book!Spec

-----------------------------------------------------------------------------
(* The settlement.  What a payment has moved so far, and what is left to    *)
(* move, add up to the amount due at every step of its loop over the        *)
(* recipients; the steps together give what PaidExactly says.               *)

\* A recipient's share before the last recipient takes the rest.
Rounded(t, j) == (t.due * t.bps[j]) \div Whole

Count(t) == Len(t.recipients)

Sent(s) == s.shares[1] + s.shares[2] + s.shares[3]

\* What the history s of an invoice says, by the invoice's own record.
SettledAs(inv, s) ==
  LET t == inv.terms
      n == Count(t)
  IN IF inv.status # "Paid" THEN s = NotSettled ELSE
     /\ s.taken = inv.receipt.inputRaw
     /\ Sent(s) = t.due
     /\ \A i \in Slots : i < n => s.shares[i] = Rounded(t, i)
     /\ \A i \in Slots : i > n => s.shares[i] = 0
     /\ s.refund = inv.receipt.receivedRaw - t.due

\* How far payment x of an invoice with terms t is settled, s being its
\* history: what was pulled, the shares of the recipients before x.i, and
\* what remains for the others.
ProgressOf(t, s, x) ==
  LET n == Count(t)
  IN /\ s.taken = IF x.pc \in {"pull", "pulled"} THEN 0 ELSE x.amount
     /\ \A j \in Slots : j < x.i /\ j < n => s.shares[j] = Rounded(t, j)
     /\ \A j \in Slots : j >= x.i \/ j > n => s.shares[j] = 0
     /\ x.pc # "finish" => s.refund = 0
     /\ x.pc = "send" => x.remaining = t.due - Sent(s)
     /\ x.pc = "sent" /\ x.i <= n =>
          /\ x.remaining = t.due - Sent(s) - x.sending
          /\ x.i < n => x.sending = Rounded(t, x.i)
          /\ x.i = n => x.remaining = 0
     /\ x.pc \in {"send", "sent"} /\ x.i > n => Sent(s) = t.due
     /\ x.pc = "sent" /\ x.i > n => x.sending = x.received - t.due /\ x.remaining = 0
     /\ x.pc = "finish" => Sent(s) = t.due /\ s.refund = x.received - t.due /\ x.i > n

Progress == ProgressOf(invoices[tx.id].terms, settled[tx.id], tx)

SettledInv ==
  /\ \A id \in InvoiceIds : SettledAs(Committed.invoices[id], Committed.settled[id])
  /\ tx.pc # "idle" =>
       /\ \A id \in InvoiceIds \ {tx.id} : settled[id] = saved.settled[id]
       /\ Progress

\* What the three records of an effect change in the entry they touch.
LEMMA TakenEffect ==
  ASSUME settled \in [InvoiceIds -> SettledType], NEW id \in InvoiceIds, NEW n \in Int
  PROVE  LET w == WithTaken(id, n) IN
         /\ \A other \in InvoiceIds \ {id} : w[other] = settled[other]
         /\ w[id].taken = n /\ w[id].refund = settled[id].refund /\ w[id].shares = settled[id].shares
  <1> DEFINE v == settled[id]
             u == [v EXCEPT !.taken = n]
  <1>1. v \in SettledType /\ DOMAIN settled = InvoiceIds /\ WithTaken(id, n) = [settled EXCEPT ![id] = u]
    BY DEF WithTaken
  <1> HIDE DEF v
  <1>2. u.taken = n /\ u.refund = v.refund /\ u.shares = v.shares
    BY <1>1 DEF SettledType
  <1> QED BY <1>1, <1>2 DEF v

LEMMA RefundEffect ==
  ASSUME settled \in [InvoiceIds -> SettledType], NEW id \in InvoiceIds, NEW n \in Int
  PROVE  LET w == WithRefund(id, n) IN
         /\ \A other \in InvoiceIds \ {id} : w[other] = settled[other]
         /\ w[id].refund = n /\ w[id].taken = settled[id].taken /\ w[id].shares = settled[id].shares
  <1> DEFINE v == settled[id]
             u == [v EXCEPT !.refund = n]
  <1>1. v \in SettledType /\ DOMAIN settled = InvoiceIds /\ WithRefund(id, n) = [settled EXCEPT ![id] = u]
    BY DEF WithRefund
  <1> HIDE DEF v
  <1>2. u.refund = n /\ u.taken = v.taken /\ u.shares = v.shares
    BY <1>1 DEF SettledType
  <1> QED BY <1>1, <1>2 DEF v

LEMMA ShareEffect ==
  ASSUME settled \in [InvoiceIds -> SettledType], NEW id \in InvoiceIds, NEW i \in Slots, NEW n \in Int
  PROVE  LET w == WithShare(id, i, n) IN
         /\ \A other \in InvoiceIds \ {id} : w[other] = settled[other]
         /\ w[id].taken = settled[id].taken /\ w[id].refund = settled[id].refund
         /\ \A j \in Slots : w[id].shares[j] = IF j = i THEN n ELSE settled[id].shares[j]
  <1> DEFINE v == settled[id]
             shares == [v.shares EXCEPT ![i] = n]
             u == [v EXCEPT !.shares = shares]
  <1>1. v \in SettledType /\ DOMAIN settled = InvoiceIds /\ WithShare(id, i, n) = [settled EXCEPT ![id] = u]
    BY DEF WithShare
  <1> HIDE DEF v
  <1>2. \A j \in Slots : shares[j] = IF j = i THEN n ELSE v.shares[j]
    BY <1>1 DEF SettledType
  <1> HIDE DEF shares
  <1>3. u.shares = shares /\ u.taken = v.taken /\ u.refund = v.refund
    BY <1>1 DEF SettledType
  <1> HIDE DEF u
  <1>4. WithShare(id, i, n)[id] = u
    BY <1>1
  <1>5. \A other \in InvoiceIds \ {id} : WithShare(id, i, n)[other] = settled[other]
    BY <1>1
  <1> QED BY <1>2, <1>3, <1>4, <1>5 DEF v

LEMMA SettledInit == Init => SettledInv
  <1> SUFFICES ASSUME Init PROVE SettledInv
    OBVIOUS
  <1>1. tx.pc = "idle"
    BY DEF Init, Idle
  <1>2. \A id \in InvoiceIds : settled[id] = NotSettled /\ invoices[id].status = "Unknown"
    BY DEF Init, Invoice
  <1> QED BY <1>1, <1>2, CommittedIs DEF SettledInv, SettledAs

\* An invoice that is not paid has changed no balance.
LEMMA Untouched ==
  ASSUME SettledInv, NEW id \in InvoiceIds, Committed.invoices[id].status # "Paid"
  PROVE  Committed.settled[id] = NotSettled
  BY DEF SettledInv, SettledAs

LEMMA CreateSettled ==
  ASSUME Typed, BookInv, SettledInv, NEW m \in Merchants, NEW t \in Terms, CreateInvoice(m, t)
  PROVE  SettledInv'
  <1> DEFINE new == <<m, nonce[m]>>
             v == Invoice(new, t, "Unpaid")
  <1>1. /\ new \in InvoiceIds /\ tx.pc = "idle" /\ tx'.pc = "idle"
        /\ invoices[new] = Invoice(new, NoTerms, "Unknown")
        /\ invoices' = [invoices EXCEPT ![new] = v]
        /\ Committed.invoices = invoices /\ Committed'.invoices = invoices'
        /\ Committed.settled = settled /\ Committed'.settled = settled
        /\ DOMAIN invoices = InvoiceIds
    BY CreateEffect DEF Typed, StoreOK
  <1>2. invoices[new].status = "Unknown" /\ v.status = "Unpaid"
    BY <1>1 DEF Invoice
  <1>3. settled[new] = NotSettled
    BY <1>1, <1>2, Untouched
  <1> HIDE DEF new, v
  <1>4. SettledAs(invoices'[new], settled[new])
    BY <1>1, <1>2, <1>3 DEF SettledAs
  <1>5. \A id \in InvoiceIds \ {new} : invoices'[id] = invoices[id]
    BY <1>1
  <1> QED BY <1>1, <1>4, <1>5 DEF SettledInv

LEMMA CancelSettled ==
  ASSUME Typed, SettledInv, NEW id \in InvoiceIds, NEW a, CancelInvoice(id, a)
  PROVE  SettledInv'
  <1>1. /\ tx'.pc = "idle" /\ invoices[id].status = "Unpaid" /\ invoices'[id].status = "Cancelled"
        /\ \A x \in InvoiceIds \ {id} : invoices'[x] = invoices[x]
        /\ Committed.invoices = invoices /\ Committed'.invoices = invoices'
        /\ Committed.settled = settled /\ Committed'.settled = settled
    BY CancelEffect
  <1>2. settled[id] = NotSettled
    BY <1>1, Untouched
  <1>3. SettledAs(invoices'[id], settled[id])
    BY <1>1, <1>2 DEF SettledAs
  <1> QED BY <1>1, <1>3 DEF SettledInv

LEMMA BeginSettled ==
  ASSUME Typed, SettledInv, NEW id \in InvoiceIds, NEW payer \in Accounts, NEW token \in Tokens,
         NEW maker \in Accounts \cup {Nobody}, NEW amount \in Nat, NEW minimum \in Nat,
         Begin(id, payer, token, maker, amount, minimum)
  PROVE  SettledInv'
  <1>1. /\ tx.pc = "idle" /\ tx'.pc = "pull" /\ tx'.id = id /\ tx'.i = 1
        /\ invoices[id].status = "Unpaid" /\ settled' = settled /\ saved'.settled = settled
        /\ Committed'.invoices = Committed.invoices /\ Committed'.settled = Committed.settled
    BY BeginEffect
  <1>2. settled[id] = NotSettled
    BY <1>1, CommittedIs, Untouched
  <1>3. Progress'
    <2> DEFINE t == invoices'[id].terms
    <2>1. settled'[tx'.id] = NotSettled /\ invoices'[tx'.id].terms = t
      BY <1>1, <1>2
    <2> HIDE DEF t
    <2>2. ProgressOf(t, NotSettled, tx')
      BY <1>1 DEF ProgressOf, NotSettled
    <2> QED BY <2>1, <2>2 DEF Progress
  <1> QED BY <1>1, <1>3 DEF SettledInv

\* The terms being paid and the history of the payment, at every inner step.
LEMMA OpenSettled ==
  ASSUME Typed, SettledInv, tx.pc # "idle"
  PROVE  /\ settled[tx.id] \in SettledType /\ GoodTerms(invoices[tx.id].terms)
         /\ ProgressOf(invoices[tx.id].terms, settled[tx.id], tx)
         /\ tx \in TxType /\ tx.id \in InvoiceIds
  BY OpenTerms DEF SettledInv, Progress, Typed, StoreOK

\* An inner step keeps SettledInv when it touches no other history and
\* advances that of its own payment.
LEMMA InnerSettled ==
  ASSUME Typed, SettledInv, InnerStep, tx.pc # "idle",
         \A id \in InvoiceIds \ {tx.id} : settled'[id] = settled[id],
         ProgressOf(invoices[tx.id].terms, settled'[tx.id], tx')
  PROVE  SettledInv'
  <1>1. /\ Quiet /\ Committed'.invoices = Committed.invoices /\ Committed'.settled = Committed.settled
    BY InnerQuiet
  <1>2. Progress'
    BY <1>1 DEF Progress, Quiet
  <1>3. \A id \in InvoiceIds \ {tx.id} : settled'[id] = saved'.settled[id]
    BY <1>1 DEF Quiet, SettledInv
  <1> QED BY <1>1, <1>2, <1>3 DEF SettledInv, Quiet

LEMMA PullSettled == Typed /\ SettledInv /\ Pull => SettledInv'
  <1> SUFFICES ASSUME Typed, SettledInv, Pull PROVE SettledInv'
    OBVIOUS
  <1> DEFINE t == invoices[tx.id].terms
             s == settled[tx.id]
  <1>1. /\ tx.pc = "pull" /\ tx'.pc = "pulled" /\ tx'.i = tx.i /\ tx'.amount = tx.amount
        /\ settled' = settled /\ ProgressOf(t, s, tx)
    BY PullEffect, OpenSettled DEF SameDeal
  <1> HIDE DEF t, s
  <1>2. ProgressOf(t, s, tx')
    BY <1>1 DEF ProgressOf
  <1> QED BY <1>1, <1>2, InnerSettled DEF InnerStep, t, s

LEMMA RouterSwapSettled == Typed /\ SettledInv /\ RouterSwap => SettledInv'
  <1> SUFFICES ASSUME Typed, SettledInv, RouterSwap PROVE SettledInv'
    OBVIOUS
  <1> DEFINE t == invoices[tx.id].terms
             s == settled[tx.id]
  <1>1. /\ tx.pc = "swap" /\ tx'.pc = "swapped" /\ tx'.i = tx.i /\ tx'.amount = tx.amount
        /\ settled' = settled /\ ProgressOf(t, s, tx)
    BY RouterSwapEffect, OpenSettled DEF SameDeal
  <1> HIDE DEF t, s
  <1>2. ProgressOf(t, s, tx')
    BY <1>1 DEF ProgressOf
  <1> QED BY <1>1, <1>2, InnerSettled DEF InnerStep, t, s

\* Nothing is sent yet when the loop over the recipients begins.
LEMMA AcceptSwapSettled == Typed /\ SettledInv /\ AcceptSwap => SettledInv'
  <1> SUFFICES ASSUME Typed, SettledInv, AcceptSwap PROVE SettledInv'
    OBVIOUS
  <1> DEFINE t == invoices[tx.id].terms
             s == settled[tx.id]
  <1>1. /\ tx.pc = "swapped" /\ tx'.pc = "send" /\ tx'.i = tx.i /\ tx'.amount = tx.amount
        /\ tx'.remaining = t.due
        /\ settled' = settled /\ ProgressOf(t, s, tx) /\ tx.i = 1
        /\ t.due \in Nat /\ Count(t) \in Slots
    BY AcceptSwapEffect, OpenSettled DEF SameDeal, Typed, TxInv, GoodTerms, Count
  <1> HIDE DEF t, s
  <1>2. Sent(s) = 0
    BY <1>1 DEF ProgressOf, Sent
  <1>3. ProgressOf(t, s, tx')
    BY <1>1, <1>2 DEF ProgressOf
  <1> QED BY <1>1, <1>3, InnerSettled DEF InnerStep, t, s

LEMMA AcceptPullSettled == Typed /\ SettledInv /\ AcceptPull => SettledInv'
  <1> SUFFICES ASSUME Typed, SettledInv, AcceptPull PROVE SettledInv'
    OBVIOUS
  <1> DEFINE t == invoices[tx.id].terms
             s == settled[tx.id]
             u == settled'[tx.id]
  <1>1. /\ tx.pc = "pulled" /\ tx'.i = tx.i /\ tx'.amount = tx.amount
        /\ \/ tx'.pc = "send" /\ tx'.remaining = t.due
           \/ tx'.pc = "swap"
        /\ settled' = WithTaken(tx.id, tx.amount) /\ ProgressOf(t, s, tx) /\ tx.i = 1
        /\ t.due \in Nat /\ Count(t) \in Slots /\ tx.amount \in Nat /\ tx.id \in InvoiceIds
    BY AcceptPullEffect, OpenSettled DEF SameDeal, Typed, TxInv, TxType, GoodTerms, Count
  <1>2. /\ \A id \in InvoiceIds \ {tx.id} : settled'[id] = settled[id]
        /\ u.taken = tx.amount /\ u.refund = s.refund /\ u.shares = s.shares
    <2> DEFINE w == WithTaken(tx.id, tx.amount)
    <2>1. settled \in [InvoiceIds -> SettledType] /\ tx.amount \in Int /\ tx.id \in InvoiceIds
      BY <1>1 DEF Typed, StoreOK
    <2>2. /\ \A id \in InvoiceIds \ {tx.id} : w[id] = settled[id]
          /\ w[tx.id].taken = tx.amount /\ w[tx.id].refund = s.refund /\ w[tx.id].shares = s.shares
      BY <2>1, TakenEffect
    <2> HIDE DEF w
    <2>3. settled' = w
      BY <1>1 DEF w
    <2> QED BY <2>2, <2>3
  <1> HIDE DEF t, s, u
  <1>3. Sent(u) = 0
    BY <1>1, <1>2 DEF ProgressOf, Sent
  <1>4. ProgressOf(t, u, tx')
    BY <1>1, <1>2, <1>3 DEF ProgressOf
  <1> QED BY <1>1, <1>2, <1>4, InnerSettled DEF InnerStep, t, s, u

\* Choosing the next amount keeps what is sent and what remains in balance.
LEMMA SendSettled == Typed /\ SettledInv /\ Send => SettledInv'
  <1> SUFFICES ASSUME Typed, SettledInv, Send PROVE SettledInv'
    OBVIOUS
  <1> DEFINE t == invoices[tx.id].terms
             s == settled[tx.id]
             n == Count(t)
  <1>1. /\ tx.pc = "send" /\ tx'.pc = "sent" /\ tx'.i = tx.i /\ tx'.amount = tx.amount
        /\ tx'.received = tx.received /\ settled' = settled /\ ProgressOf(t, s, tx)
        /\ tx \in TxType /\ s \in SettledType /\ n \in Slots /\ t.due \in Nat
    BY SendEffect, OpenSettled DEF SameDeal, GoodTerms, Count
  <1>2. /\ tx.i > n => tx'.sending = tx.received - t.due /\ tx'.remaining = tx.remaining
        /\ tx.i = n => tx'.sending = tx.remaining /\ tx'.remaining = tx.remaining - tx'.sending
        /\ tx.i < n => tx'.sending = Rounded(t, tx.i) /\ tx'.remaining = tx.remaining - tx'.sending
    <2>1. /\ tx'.sending = SendAmount
          /\ tx'.remaining = IF SendLast THEN tx.remaining ELSE tx.remaining - SendAmount
      BY SendEffect
    <2>2. tx.i \in Nat /\ n \in Nat
      BY <1>1 DEF TxType
    <2> QED BY <2>1, <2>2 DEF SendAmount, SendLast, ShareOf, Rounded, Refund, Payees, Count
  <1> HIDE DEF t, s
  <1>3. tx.remaining \in Nat /\ tx.i \in Nat /\ Sent(s) \in Int /\ tx.received \in Nat
    BY <1>1 DEF TxType, SettledType, Sent
  <1>4. ProgressOf(t, s, tx')
    BY <1>1, <1>2, <1>3 DEF ProgressOf
  <1> QED BY <1>1, <1>4, InnerSettled DEF InnerStep, t, s

\* The balances that SendExact compares are what the history records.
LEMMA AcceptSendSettled == Typed /\ SettledInv /\ AcceptSend => SettledInv'
  <1> SUFFICES ASSUME Typed, SettledInv, AcceptSend PROVE SettledInv'
    OBVIOUS
  <1> DEFINE t == invoices[tx.id].terms
             s == settled[tx.id]
             u == settled'[tx.id]
             n == Count(t)
  <1>1. /\ tx.pc = "sent" /\ tx'.i = tx.i + 1 /\ tx'.amount = tx.amount
        /\ tx'.received = tx.received /\ tx'.remaining = tx.remaining
        /\ tx'.pc = (IF tx.i < n \/ (tx.i = n /\ tx.received - t.due # 0) THEN "send" ELSE "finish")
        /\ settled' = IF tx.i <= n THEN WithShare(tx.id, tx.i, tx.sending) ELSE WithRefund(tx.id, tx.sending)
    BY AcceptSendEffect DEF SameDeal, SendMore, Payees, Refund, Count
  <1>2. /\ ProgressOf(t, s, tx) /\ tx \in TxType /\ s \in SettledType /\ n \in Slots /\ t.due \in Nat
        /\ tx.id \in InvoiceIds /\ tx.i \in 1 .. n + 1
    BY <1>1, OpenSettled DEF GoodTerms, Typed, TxInv, Payees, Count
  <1>3. tx.sending \in Nat /\ tx.i \in Nat /\ tx.received \in Nat /\ tx.remaining \in Nat
    BY <1>2 DEF TxType
  <1>4. CASE tx.i <= n
    <2>1. tx.i \in Slots /\ settled' = WithShare(tx.id, tx.i, tx.sending)
      BY <1>1, <1>2, <1>3, <1>4
    <2>2. /\ \A id \in InvoiceIds \ {tx.id} : settled'[id] = settled[id]
          /\ u.taken = s.taken /\ u.refund = s.refund
          /\ \A j \in Slots : u.shares[j] = IF j = tx.i THEN tx.sending ELSE s.shares[j]
      <3> DEFINE w == WithShare(tx.id, tx.i, tx.sending)
                 i == tx.i
      <3>1. /\ settled \in [InvoiceIds -> SettledType] /\ tx.sending \in Int /\ tx.id \in InvoiceIds
            /\ i \in Slots
        BY <1>2, <1>3, <2>1 DEF Typed, StoreOK
      <3>2. /\ \A id \in InvoiceIds \ {tx.id} : w[id] = settled[id]
            /\ w[tx.id].taken = s.taken /\ w[tx.id].refund = s.refund
            /\ \A j \in Slots : w[tx.id].shares[j] = IF j = tx.i THEN tx.sending ELSE s.shares[j]
        BY <3>1, ShareEffect
      <3> HIDE DEF w
      <3>3. settled' = w
        BY <2>1 DEF w
      <3> QED BY <3>2, <3>3
    <2> HIDE DEF t, s, u
    <2>3. s.shares \in [Slots -> Int] /\ s.shares[tx.i] = 0
      BY <1>2, <2>1 DEF ProgressOf, SettledType
    <2>4. \A j \in Slots : u.shares[j] = IF j = tx.i THEN tx.sending ELSE s.shares[j]
      BY <2>2
    <2>5. Sent(u) = Sent(s) + tx.sending
      BY <1>3, <2>1, <2>3, <2>4 DEF Sent
    <2>6. Sent(s) \in Int
      BY <2>3 DEF Sent
    <2>7. ProgressOf(t, u, tx')
      <3>1. /\ s.taken = tx.amount /\ s.refund = 0
            /\ \A j \in Slots : j < tx.i /\ j < n => s.shares[j] = Rounded(t, j)
            /\ \A j \in Slots : j >= tx.i \/ j > n => s.shares[j] = 0
            /\ tx.remaining = t.due - Sent(s) - tx.sending
            /\ tx.i < n => tx.sending = Rounded(t, tx.i)
            /\ tx.i = n => tx.remaining = 0
        BY <1>1, <1>2, <1>4 DEF ProgressOf
      <3>2. n \in Nat /\ (tx.i < n \/ tx.i = n)
        BY <1>2, <1>3, <1>4
      <3> HIDE DEF n
      <3>3. \A j \in Slots : j < tx'.i /\ j < n => u.shares[j] = Rounded(t, j)
        BY <1>1, <1>3, <2>4, <3>1, <3>2
      <3>4. \A j \in Slots : j >= tx'.i \/ j > n => u.shares[j] = 0
        BY <1>1, <1>3, <2>4, <3>1, <3>2
      <3>5. tx'.remaining = t.due - Sent(u) /\ (tx.i = n => Sent(u) = t.due)
        BY <1>1, <1>2, <1>3, <2>5, <2>6, <3>1
      <3>6. tx'.pc \in {"send", "finish"} /\ (tx'.i > n => tx.i = n) /\ (tx'.pc = "finish" => tx'.i > n)
        BY <1>1, <1>3, <3>2
      <3>7. tx'.pc = "finish" => u.refund = tx'.received - t.due
        BY <1>1, <1>2, <1>3, <2>2, <3>1, <3>2
      <3> QED BY <1>1, <2>2, <3>1, <3>3, <3>4, <3>5, <3>6, <3>7 DEF ProgressOf, n
    <2> QED BY <1>1, <2>2, <2>7, InnerSettled DEF InnerStep, t, s, u
  <1>5. CASE tx.i > n
    <2>1. settled' = WithRefund(tx.id, tx.sending)
      BY <1>1, <1>2, <1>3, <1>5
    <2>2. /\ \A id \in InvoiceIds \ {tx.id} : settled'[id] = settled[id]
          /\ u.taken = s.taken /\ u.refund = tx.sending /\ u.shares = s.shares
      <3> DEFINE w == WithRefund(tx.id, tx.sending)
      <3>1. settled \in [InvoiceIds -> SettledType] /\ tx.sending \in Int /\ tx.id \in InvoiceIds
        BY <1>2, <1>3 DEF Typed, StoreOK
      <3>2. /\ \A id \in InvoiceIds \ {tx.id} : w[id] = settled[id]
            /\ w[tx.id].taken = s.taken /\ w[tx.id].refund = tx.sending /\ w[tx.id].shares = s.shares
        BY <3>1, RefundEffect
      <3> HIDE DEF w
      <3>3. settled' = w
        BY <2>1 DEF w
      <3> QED BY <3>2, <3>3
    <2> HIDE DEF t, s, u
    <2>3. Sent(u) = Sent(s)
      BY <2>2 DEF Sent
    <2>4. ProgressOf(t, u, tx')
      BY <1>1, <1>2, <1>3, <1>5, <2>2, <2>3 DEF ProgressOf
    <2> QED BY <1>1, <2>2, <2>4, InnerSettled DEF InnerStep, t, s, u
  <1> QED BY <1>2, <1>3, <1>4, <1>5

LEMMA MoveSettled ==
  ASSUME Typed, SettledInv, NEW t \in Tokens, NEW from \in Accounts, NEW to \in Accounts, Move(t, from, to, 1)
  PROVE  SettledInv'
  <1>1. InnerStep /\ settled' = settled
    BY MoveEffect DEF InnerStep
  <1>2. CASE tx.pc = "idle"
    BY <1>1, <1>2, InnerQuiet DEF SettledInv, Quiet
  <1>3. CASE tx.pc # "idle"
    <2> DEFINE terms == invoices[tx.id].terms
               s == settled[tx.id]
    <2>1. /\ tx'.pc = tx.pc /\ tx'.i = tx.i /\ tx'.amount = tx.amount /\ tx'.received = tx.received
          /\ tx'.remaining = tx.remaining /\ tx'.sending = tx.sending
          /\ ProgressOf(terms, s, tx)
      BY <1>3, MoveEffect, OpenSettled DEF SameDeal
    <2> HIDE DEF terms, s
    <2>2. ProgressOf(terms, s, tx')
      BY <2>1 DEF ProgressOf
    <2> QED BY <1>1, <1>3, <2>2, InnerSettled DEF terms, s
  <1> QED BY <1>2, <1>3

LEMMA FinishSettled == Typed /\ BookInv /\ SettledInv /\ Finish => SettledInv'
  <1> SUFFICES ASSUME Typed, BookInv, SettledInv, Finish PROVE SettledInv'
    OBVIOUS
  <1> DEFINE receipt == [payer |-> tx.payer, inputRaw |-> tx.amount,
                         receivedRaw |-> tx.received, refundRaw |-> Refund]
             t == invoices[tx.id].terms
             s == settled[tx.id]
             v == invoices'[tx.id]
  <1>1. /\ tx.pc = "finish" /\ tx'.pc = "idle" /\ tx.id \in InvoiceIds /\ settled' = settled
        /\ Committed.invoices = saved.invoices /\ Committed'.invoices = invoices' /\ Committed'.settled = settled
        /\ \A id \in InvoiceIds \ {tx.id} : invoices'[id] = saved.invoices[id]
        /\ v.status = "Paid" /\ v.receipt = receipt /\ v.terms = t
    BY FinishEffect
  <1>2. /\ ProgressOf(t, s, tx) /\ Count(t) \in Slots /\ tx \in TxType
        /\ \A id \in InvoiceIds \ {tx.id} : settled[id] = saved.settled[id]
        /\ Committed.settled = saved.settled
    BY <1>1, OpenSettled, CommittedIs DEF SettledInv, GoodTerms, Count
  <1>3. receipt.inputRaw = tx.amount /\ receipt.receivedRaw = tx.received
    OBVIOUS
  <1>4. SettledAs(v, s)
    <2> HIDE DEF t, s, v, receipt
    <2>1. tx.i \in Nat
      BY <1>2 DEF TxType
    <2> QED BY <1>1, <1>2, <1>3, <2>1 DEF ProgressOf, SettledAs
  <1>5. \A id \in InvoiceIds \ {tx.id} : SettledAs(invoices'[id], settled[id])
    BY <1>1, <1>2 DEF SettledInv
  <1> QED BY <1>1, <1>4, <1>5 DEF SettledInv

LEMMA SettledNext == Typed /\ BookInv /\ SettledInv /\ [Next]_vars => SettledInv'
  <1> SUFFICES ASSUME Typed, BookInv, SettledInv, [Next]_vars PROVE SettledInv'
    OBVIOUS
  <1>1. ASSUME NEW m \in Merchants, NEW t \in Terms, CreateInvoice(m, t) PROVE SettledInv'
    BY <1>1, CreateSettled
  <1>2. ASSUME NEW id \in InvoiceIds, NEW a \in Accounts \ {Self}, CancelInvoice(id, a) PROVE SettledInv'
    BY <1>2, CancelSettled
  <1>3. ASSUME NEW id \in InvoiceIds, NEW a \in Accounts \ {Self},
               \/ PayWithUSDC(id, a)
               \/ \E r \in Routes, amount \in Inputs, minimum \in Minimums : PayWithSwap(id, a, r, amount, minimum)
        PROVE  SettledInv'
    BY <1>3, PayBegins, BeginSettled
  <1>4. CASE Pull \/ AcceptPull \/ RouterSwap \/ AcceptSwap
    BY <1>4, PullSettled, AcceptPullSettled, RouterSwapSettled, AcceptSwapSettled
  <1>5. CASE Send \/ AcceptSend \/ Finish
    BY <1>5, SendSettled, AcceptSendSettled, FinishSettled
  <1>6. CASE Revert
    BY <1>6, RevertEffect DEF SettledInv
  <1>7. CASE \E t \in Tokens, from, to \in Accounts : Move(t, from, to, 1)
    BY <1>7, MoveSettled
  <1>8. CASE Tick
    BY <1>8 DEF Tick, SettledInv, Progress, Committed, Snapshot
  <1>9. CASE UNCHANGED vars
    BY <1>9 DEF vars, SettledInv, Progress, Committed, Snapshot
  <1> QED BY <1>1, <1>2, <1>3, <1>4, <1>5, <1>6, <1>7, <1>8, <1>9 DEF Next

LEMMA SettledAlways == Spec => []SettledInv
  BY TypedAlways, BookAlways, SettledInit, SettledNext, PTL DEF Spec

\* A paid invoice took from the payer what its receipt says, gave every
\* recipient but the last its rounded share and all of them together the
\* amount due, and gave back the excess; an invoice that is not paid took and
\* gave nothing: for any terms, however the shares round, and whatever calls
\* were reverted or ran in between (_finish, _send).
THEOREM PaymentsAreExact == Spec => []PaidExactly
  <1>1. SettledInv => PaidExactly
    BY DEF SettledInv, SettledAs, PaidExactly, Sent, Rounded, Count
  <1> QED BY <1>1, SettledAlways, PTL

-----------------------------------------------------------------------------
(* The balances of a payment that nobody interfered with.                   *)

CleanInv ==
  tx.pc # "idle" =>
    LET own == bal[Usdc][Self]
        in == bal[tx.token][Self]
    IN /\ tx.token = Usdc => tx.beforeIn = tx.beforeUsdc
       /\ tx.pc = "pull" => in = tx.beforeIn /\ own = tx.beforeUsdc /\ bal[tx.token][tx.payer] = tx.beforePayer
       /\ tx.clean =>
            /\ tx.pc = "pulled" => PullExact
            /\ tx.pc \in {"pulled", "swap"} /\ tx.token # Usdc => own = tx.beforeUsdc
            /\ tx.pc = "swap" => in = tx.beforeIn + tx.amount
            /\ tx.pc = "swapped" => SwapExact
            /\ tx.pc = "send" => own = tx.beforeUsdc + tx.remaining + Refund
            /\ tx.pc = "sent" =>
                 /\ SendExact
                 /\ own = tx.beforeUsdc + tx.remaining + (IF tx.i > Len(Payees) THEN 0 ELSE Refund)
            /\ tx.pc = "finish" => own = tx.beforeUsdc

LEMMA CleanInit == Init => CleanInv
  BY DEF Init, Idle, CleanInv

LEMMA BeginClean ==
  ASSUME Typed, NEW id \in InvoiceIds, NEW payer \in Accounts, NEW token \in Tokens,
         NEW maker \in Accounts \cup {Nobody}, NEW amount \in Nat, NEW minimum \in Nat,
         Begin(id, payer, token, maker, amount, minimum)
  PROVE  CleanInv'
  BY BeginEffect DEF CleanInv

LEMMA PullClean == Typed /\ CleanInv /\ Pull => CleanInv'
  <1> SUFFICES ASSUME Typed, CleanInv, Pull PROVE CleanInv'
    OBVIOUS
  <1>1. /\ tx.pc = "pull" /\ tx'.pc = "pulled" /\ SameDeal
        /\ tx'.clean =>
             /\ bal'[tx.token][tx.payer] = bal[tx.token][tx.payer] - tx.amount
             /\ bal'[tx.token][Self] = bal[tx.token][Self] + tx.amount
        /\ tx.token # Usdc => bal'[Usdc] = bal[Usdc]
    BY PullEffect
  <1>2. /\ bal[tx.token][Self] = tx.beforeIn /\ bal[Usdc][Self] = tx.beforeUsdc
        /\ bal[tx.token][tx.payer] = tx.beforePayer /\ (tx.token = Usdc => tx.beforeIn = tx.beforeUsdc)
    BY <1>1 DEF CleanInv
  <1>3. tx'.clean => PullExact'
    BY <1>1, <1>2 DEF PullExact, Exact, SameDeal
  <1> QED BY <1>1, <1>2, <1>3 DEF CleanInv, SameDeal

LEMMA AcceptPullClean == Typed /\ CleanInv /\ AcceptPull => CleanInv'
  <1> SUFFICES ASSUME Typed, CleanInv, AcceptPull PROVE CleanInv'
    OBVIOUS
  <1> DEFINE due == invoices[tx.id].terms.due
  <1>1. /\ tx.pc = "pulled" /\ SameDeal /\ tx'.clean = tx.clean /\ UNCHANGED <<bal, invoices>>
        /\ bal[tx.token][Self] = tx.beforeIn + tx.amount
        /\ tx.token = Usdc => tx'.pc = "send" /\ tx'.received = tx.amount /\ tx'.remaining = due
        /\ tx.token # Usdc => tx'.pc = "swap"
    BY AcceptPullEffect DEF PullExact, Exact
  <1>2. /\ tx.token = Usdc => tx.beforeIn = tx.beforeUsdc
        /\ tx.clean /\ tx.token # Usdc => bal[Usdc][Self] = tx.beforeUsdc
    BY <1>1 DEF CleanInv
  <1>3. due \in Nat /\ tx.amount \in Nat /\ tx.beforeIn \in Nat
    BY <1>1, OpenTerms DEF GoodTerms, TxType
  <1>4. Refund' = tx'.received - due
    BY <1>1 DEF Refund, SameDeal
  <1> HIDE DEF due
  <1>5. CASE tx.token = Usdc
    BY <1>1, <1>2, <1>3, <1>4, <1>5 DEF CleanInv, SameDeal
  <1>6. CASE tx.token # Usdc
    BY <1>1, <1>2, <1>6 DEF CleanInv, SameDeal
  <1> QED BY <1>5, <1>6

LEMMA RouterSwapClean == Typed /\ CleanInv /\ RouterSwap => CleanInv'
  <1> SUFFICES ASSUME Typed, CleanInv, RouterSwap PROVE CleanInv'
    OBVIOUS
  <1> DEFINE due == invoices[tx.id].terms.due
  <1>1. /\ tx.pc = "swap" /\ tx'.pc = "swapped" /\ SameDeal /\ tx'.clean = tx.clean /\ invoices' = invoices
        /\ tx'.received >= Threshold /\ tx'.received \in Nat
        /\ bal'[Usdc][Self] = bal[Usdc][Self] + tx'.received
        /\ bal'[tx.token][Self] = bal[tx.token][Self] - tx.amount
    BY RouterSwapEffect
  <1>2. due \in Nat /\ tx.minimum \in Nat /\ tx.amount \in Nat /\ tx.beforeIn \in Nat /\ tx.token # Usdc
    BY <1>1, OpenTerms DEF GoodTerms, TxType, Typed, TxInv
  <1>3. tx'.received >= due /\ tx'.received >= tx.minimum
    <2> HIDE DEF due
    <2>1. tx'.received >= IF tx.minimum > due THEN tx.minimum ELSE due
      BY <1>1 DEF Threshold, due
    <2> QED BY <1>1, <1>2, <2>1
  <1>4. tx.clean => bal[Usdc][Self] = tx.beforeUsdc /\ bal[tx.token][Self] = tx.beforeIn + tx.amount
    BY <1>1, <1>2 DEF CleanInv
  <1>5. tx'.clean => SwapExact'
    <2>1. tx.clean => bal'[tx.token][Self] = tx.beforeIn
      BY <1>1, <1>2, <1>4
    <2> QED BY <1>1, <1>3, <1>4, <2>1 DEF SwapExact, Exact, SameDeal
  <1> QED BY <1>1, <1>2, <1>5 DEF CleanInv, SameDeal

LEMMA AcceptSwapClean == Typed /\ CleanInv /\ AcceptSwap => CleanInv'
  <1> SUFFICES ASSUME Typed, CleanInv, AcceptSwap PROVE CleanInv'
    OBVIOUS
  <1> DEFINE due == invoices[tx.id].terms.due
  <1>1. /\ tx.pc = "swapped" /\ tx'.pc = "send" /\ SameDeal /\ UNCHANGED <<bal, invoices>>
        /\ tx'.received = tx.received /\ tx'.remaining = due
        /\ bal[Usdc][Self] = tx.beforeUsdc + tx.received
    BY AcceptSwapEffect DEF SwapExact, Exact
  <1>2. due \in Nat /\ tx.received \in Nat /\ tx.beforeUsdc \in Nat /\ (tx.token = Usdc => tx.beforeIn = tx.beforeUsdc)
    BY <1>1, OpenTerms DEF GoodTerms, TxType, CleanInv
  <1>3. Refund' = tx.received - due
    BY <1>1 DEF Refund, SameDeal
  <1> HIDE DEF due
  <1> QED BY <1>1, <1>2, <1>3 DEF CleanInv, SameDeal

LEMMA SendClean == Typed /\ CleanInv /\ Send => CleanInv'
  <1> SUFFICES ASSUME Typed, CleanInv, Send PROVE CleanInv'
    OBVIOUS
  <1> DEFINE own == bal[Usdc][Self]
             amount == SendAmount
             to == SendTo
  <1>1. /\ tx.pc = "send" /\ tx'.pc = "sent" /\ SameDeal /\ tx'.i = tx.i /\ invoices' = invoices
        /\ tx'.received = tx.received /\ tx'.sending = amount /\ tx'.to = to /\ amount \in Nat
        /\ tx'.remaining = IF SendLast THEN tx.remaining ELSE tx.remaining - amount
        /\ tx'.beforeTo = bal[Usdc][to] /\ tx'.beforeSelf = own
        /\ tx'.clean =>
             /\ tx.clean
             /\ bal'[Usdc][to] = bal[Usdc][to] + amount
             /\ bal'[Usdc][Self] = own - amount
        /\ to \in Accounts
    BY SendEffect
  <1>2. SendLast => amount = Refund
    BY DEF SendAmount
  <1>3. /\ tx.clean => own = tx.beforeUsdc + tx.remaining + Refund
        /\ tx.token = Usdc => tx.beforeIn = tx.beforeUsdc
    BY <1>1 DEF CleanInv
  <1>4. /\ own \in Nat /\ tx.beforeUsdc \in Nat /\ tx.remaining \in Nat /\ Refund \in Nat
    <2>1. own \in Nat
      BY ConstantsAssumption DEF Typed, StoreOK
    <2>2. tx.beforeUsdc \in Nat /\ tx.remaining \in Nat
      BY DEF Typed, TxType
    <2> QED BY <1>1, <2>1, <2>2, SendTarget
  <1>5. Refund' = Refund /\ Payees' = Payees
    BY <1>1 DEF Refund, Payees, SameDeal
  <1> HIDE DEF own, amount, to
  <1>6. tx'.clean => SendExact'
    BY <1>1 DEF SendExact, Exact, own
  <1>7. tx'.clean => bal'[Usdc][Self] = tx'.beforeUsdc + tx'.remaining + (IF tx'.i > Len(Payees') THEN 0 ELSE Refund')
    <2>1. tx'.i > Len(Payees') <=> SendLast
      BY <1>1, <1>5 DEF SendLast
    <2> QED BY <1>1, <1>2, <1>3, <1>4, <1>5, <2>1 DEF SameDeal
  <1> QED BY <1>1, <1>3, <1>6, <1>7 DEF CleanInv, SameDeal

LEMMA AcceptSendClean == Typed /\ CleanInv /\ SettledInv /\ AcceptSend => CleanInv'
  <1> SUFFICES ASSUME Typed, CleanInv, SettledInv, AcceptSend PROVE CleanInv'
    OBVIOUS
  <1> DEFINE own == bal[Usdc][Self]
             n == Len(Payees)
             t == invoices[tx.id].terms
  <1>1. /\ tx.pc = "sent" /\ SameDeal /\ tx'.i = tx.i + 1 /\ tx'.clean = tx.clean
        /\ tx'.pc = (IF SendMore THEN "send" ELSE "finish")
        /\ UNCHANGED <<bal, invoices>> /\ tx'.received = tx.received /\ tx'.remaining = tx.remaining
    BY AcceptSendEffect
  <1>2. /\ tx.clean => own = tx.beforeUsdc + tx.remaining + (IF tx.i > n THEN 0 ELSE Refund)
        /\ tx.token = Usdc => tx.beforeIn = tx.beforeUsdc
    BY <1>1 DEF CleanInv
  <1>3. /\ tx.beforeUsdc \in Nat /\ tx.remaining \in Nat /\ tx.i \in Nat /\ n \in Nat /\ Refund \in Int
        /\ ProgressOf(t, settled[tx.id], tx) /\ n = Count(t)
    <2>1. GoodTerms(t) /\ tx \in TxType /\ ProgressOf(t, settled[tx.id], tx)
      BY <1>1, OpenSettled
    <2>2. n = Count(t) /\ Refund = tx.received - t.due
      BY DEF Refund, Payees, Count
    <2>3. t.due \in Nat /\ Count(t) \in Slots
      BY <2>1 DEF GoodTerms, Count
    <2> HIDE DEF t, n
    <2>4. tx.received \in Nat /\ tx.beforeUsdc \in Nat /\ tx.remaining \in Nat /\ tx.i \in Nat
      BY <2>1 DEF TxType
    <2>5. Refund \in Int /\ n \in Nat
      BY <2>2, <2>3, <2>4
    <2> QED BY <2>1, <2>2, <2>4, <2>5
  <1>4. Refund' = Refund
    BY <1>1 DEF Refund, SameDeal
  <1> HIDE DEF own, t
  <1>5. tx.i >= n => tx.remaining = 0
    <2> HIDE DEF n
    <2> QED BY <1>1, <1>3 DEF ProgressOf
  <1>6. CASE SendMore
    <2>1. tx.i <= n
      BY <1>3, <1>6 DEF SendMore
    <2>2. tx'.pc = "send" /\ (tx'.clean => own = tx'.beforeUsdc + tx'.remaining + Refund')
      BY <1>1, <1>2, <1>3, <1>4, <1>6, <2>1 DEF SameDeal
    <2> QED BY <1>1, <1>2, <2>2 DEF CleanInv, SameDeal, own
  <1>7. CASE ~SendMore
    <2>1. tx.i >= n /\ (tx.i > n \/ Refund = 0)
      BY <1>3, <1>7 DEF SendMore
    <2>2. tx'.pc = "finish" /\ (tx'.clean => own = tx'.beforeUsdc)
      BY <1>1, <1>2, <1>3, <1>5, <1>7, <2>1 DEF SameDeal
    <2> QED BY <1>1, <1>2, <2>2 DEF CleanInv, SameDeal, own
  <1> QED BY <1>6, <1>7

LEMMA CleanNext == Typed /\ SettledInv /\ CleanInv /\ [Next]_vars => CleanInv'
  <1> SUFFICES ASSUME Typed, SettledInv, CleanInv, [Next]_vars PROVE CleanInv'
    OBVIOUS
  <1>1. CASE \/ \E m \in Merchants, t \in Terms : CreateInvoice(m, t)
             \/ \E id \in InvoiceIds, a \in Accounts \ {Self} : CancelInvoice(id, a)
    BY <1>1 DEF CreateInvoice, CancelInvoice, CleanInv, Typed, TxInv
  <1>2. ASSUME NEW id \in InvoiceIds, NEW a \in Accounts \ {Self},
               \/ PayWithUSDC(id, a)
               \/ \E r \in Routes, amount \in Inputs, minimum \in Minimums : PayWithSwap(id, a, r, amount, minimum)
        PROVE  CleanInv'
    BY <1>2, PayBegins, BeginClean
  <1>3. CASE Pull \/ AcceptPull \/ RouterSwap \/ AcceptSwap
    BY <1>3, PullClean, AcceptPullClean, RouterSwapClean, AcceptSwapClean
  <1>4. CASE Send \/ AcceptSend
    BY <1>4, SendClean, AcceptSendClean
  <1>5. CASE Finish \/ Revert
    BY <1>5 DEF Finish, Revert, Idle, CleanInv
  <1>6. ASSUME NEW t \in Tokens, NEW from \in Accounts, NEW to \in Accounts, Move(t, from, to, 1)
        PROVE  CleanInv'
    BY <1>6, MoveEffect DEF CleanInv, Open, SameDeal
  <1>7. CASE Tick
    BY <1>7 DEF Tick, CleanInv
  <1>8. CASE UNCHANGED vars
    BY <1>8 DEF vars, CleanInv, PullExact, SwapExact, SendExact, Exact, Refund, Payees
  <1> QED BY <1>1, <1>2, <1>3, <1>4, <1>5, <1>6, <1>7, <1>8 DEF Next

\* Two rounded shares of an amount are together no more than the amount.
LEMMA RoundedSum ==
  ASSUME NEW d \in Nat, NEW a \in Nat, NEW b \in Nat, a + b <= Whole
  PROVE  /\ (d * a) \div Whole \in Nat /\ (d * b) \div Whole \in Nat
         /\ (d * a) \div Whole + (d * b) \div Whole <= d
  <1> DEFINE x == d * a
             y == d * b
  <1>1. x \in Nat /\ y \in Nat /\ x + y <= 10000 * d
    <2>1. x + y = d * (a + b) /\ x \in Nat /\ y \in Nat
      OBVIOUS
    <2>2. d * (a + b) <= d * 10000
      BY DEF Whole
    <2> QED BY <2>1, <2>2
  <1> HIDE DEF x, y
  <1>2. /\ x \div 10000 \in Nat /\ y \div 10000 \in Nat /\ 10000 * (x \div 10000) <= x /\ 10000 * (y \div 10000) <= y
    BY <1>1
  <1>3. x \div 10000 + y \div 10000 <= d
    BY <1>1, <1>2
  <1> QED BY <1>2, <1>3 DEF Whole, x, y

\* What is not yet sent covers the next rounded share: the basis points of the
\* recipients add up to the whole.
LEMMA ShareCovered ==
  ASSUME Typed, SettledInv, tx.pc = "send", tx.i <= Len(Payees)
  PROVE  ShareOf(invoices[tx.id].terms, tx.i, tx.remaining) <= tx.remaining
  <1> DEFINE t == invoices[tx.id].terms
             s == settled[tx.id]
             n == Count(t)
             d == t.due
             at(i) == IF i \in DOMAIN t.bps THEN t.bps[i] ELSE 0
  <1>1. /\ GoodTerms(t) /\ ProgressOf(t, s, tx) /\ tx \in TxType /\ s \in SettledType
        /\ tx.i \in 1 .. n + 1 /\ tx.i <= n
    BY OpenSettled DEF Typed, TxInv, Payees, Count
  <1>2. d \in Nat /\ n \in Slots /\ Len(t.bps) = n /\ at(1) + at(2) + at(3) = Whole
        /\ (\A i \in 1 .. n : t.bps[i] \in Nat) /\ t.bps \in Seq(Nat)
    BY <1>1, ConstantsAssumption DEF GoodTerms, Count, Total
  <1> HIDE DEF t, s, n, d
  <1>3. /\ \A i \in 1 .. n : at(i) = t.bps[i] /\ at(i) \in Nat
        /\ \A i \in Slots : at(i) \in Nat
    BY <1>2
  <1> HIDE DEF at
  <1>4. tx.i \in 1 .. n /\ tx.remaining \in Nat /\ tx.i \in Nat
    BY <1>1, <1>2 DEF TxType
  <1>5. CASE tx.i = n
    BY <1>4, <1>5 DEF ShareOf, n, t, Count
  <1>6. CASE tx.i = 1 /\ n > 1
    <2>1. at(1) + at(2) <= Whole
      BY <1>2, <1>3 DEF Whole
    <2>2. Rounded(t, 1) <= d
      <3>1. at(1) = t.bps[1] /\ at(1) \in Nat /\ at(2) \in Nat
        BY <1>2, <1>3
      <3>2. /\ (d * at(1)) \div Whole \in Nat /\ (d * at(2)) \div Whole \in Nat
            /\ (d * at(1)) \div Whole + (d * at(2)) \div Whole <= d
        BY <1>2, <2>1, <3>1, RoundedSum
      <3>3. (d * at(1)) \div Whole <= d
        BY <1>2, <3>2
      <3> QED BY <3>1, <3>3 DEF Rounded, d
    <2>3. s.shares[1] = 0 /\ s.shares[2] = 0 /\ s.shares[3] = 0 /\ tx.remaining = d - Sent(s)
      BY <1>1, <1>6 DEF ProgressOf, d
    <2>4. tx.remaining = d
      BY <1>2, <2>3 DEF Sent
    <2> QED BY <1>4, <1>6, <2>2, <2>4 DEF ShareOf, Rounded, n, t, Count
  <1>7. CASE tx.i = 2 /\ n = 3
    <2>1. at(1) + at(2) <= Whole
      BY <1>2, <1>3 DEF Whole
    <2>2. Rounded(t, 1) \in Nat /\ Rounded(t, 2) \in Nat /\ Rounded(t, 1) + Rounded(t, 2) <= d
      <3>1. at(1) = t.bps[1] /\ at(2) = t.bps[2] /\ at(1) \in Nat /\ at(2) \in Nat
        BY <1>2, <1>3, <1>7
      <3>2. /\ (d * at(1)) \div Whole \in Nat /\ (d * at(2)) \div Whole \in Nat
            /\ (d * at(1)) \div Whole + (d * at(2)) \div Whole <= d
        BY <1>2, <2>1, <3>1, RoundedSum
      <3> QED BY <3>1, <3>2 DEF Rounded, d
    <2>3. s.shares[1] = Rounded(t, 1) /\ s.shares[2] = 0 /\ s.shares[3] = 0 /\ tx.remaining = d - Sent(s)
      BY <1>1, <1>7 DEF ProgressOf, d, n
    <2>4. Rounded(t, 2) <= tx.remaining
      BY <1>2, <2>2, <2>3 DEF Sent
    <2>5. ShareOf(t, tx.i, tx.remaining) = Rounded(t, 2)
      BY <1>7 DEF ShareOf, Rounded, n, Count
    <2> QED BY <2>4, <2>5 DEF t
  <1> QED BY <1>2, <1>4, <1>5, <1>6, <1>7

LEMMA CleanAlways == Spec => []CleanInv
  BY TypedAlways, SettledAlways, CleanInit, CleanNext, PTL DEF Spec

\* When every token moves exactly what was asked and nobody else moves tokens
\* during the payment, no check of the contract fails, whichever accounts payer,
\* maker and recipients share, for any terms an invoice can have: the rounded
\* shares never exceed what is left, and the last balance is the first.
THEOREM HonestPaymentsComplete == Spec => []HonestPaymentCompletes
  <1>1. Typed /\ SettledInv /\ CustodyInv /\ CleanInv => HonestPaymentCompletes
    <2> SUFFICES ASSUME Typed, SettledInv, CustodyInv, CleanInv, tx.clean PROVE HonestPaymentCompletes
      BY DEF HonestPaymentCompletes
    <2>1. tx.pc = "pulled" => PullExact
      BY DEF CleanInv
    <2>2. tx.pc = "swapped" => SwapExact
      BY DEF CleanInv
    <2>3. tx.pc = "sent" => SendExact
      BY DEF CleanInv
    <2>4. ASSUME tx.pc = "send", tx.i <= Len(Payees)
          PROVE  /\ Payees[tx.i] \in Accounts
                 /\ ShareOf(invoices[tx.id].terms, tx.i, tx.remaining) <= tx.remaining
      BY <2>4, SendTarget, ShareCovered
    <2>5. tx.pc = "finish" => Restored
      BY DEF CleanInv, CustodyInv, Restored, Exact, Typed, TxType
    <2> QED BY <2>1, <2>2, <2>3, <2>4, <2>5 DEF HonestPaymentCompletes
  <1> QED BY <1>1, TypedAlways, SettledAlways, CustodyAlways, CleanAlways, PTL
=============================================================================
