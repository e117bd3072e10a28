---------------------------- MODULE InvoiceBook ----------------------------
(***************************************************************************)
(* What OrbitalPayments promises about invoices, as a book with one entry  *)
(* per <<merchant, nonce>>.  Every operation is one step: nobody ever sees *)
(* a payment half done.  Payments.tla implements this book.                *)
(***************************************************************************)
EXTENDS Integers

CONSTANTS Accounts,    \* addresses
          InvoiceIds,  \* merchant and nonce, the preimage of the invoice id
          Terms        \* what an invoice may ask for

VARIABLES clock,  \* block.timestamp
          book    \* book[id]: the entry of invoice id

Init ==
  /\ clock = 0
  /\ \A id \in InvoiceIds : book[id].status = "Unknown"

\* A merchant's invoices are numbered without gaps, and never renumbered.
Create(id, t) ==
  /\ book[id].status = "Unknown"
  /\ \A other \in InvoiceIds :
        other[1] = id[1] /\ other[2] < id[2] => book[other].status # "Unknown"
  /\ clock < t.expiresAt
  /\ book' = [book EXCEPT ![id].terms = t, ![id].status = "Unpaid"]
  /\ UNCHANGED clock

Cancel(id) ==
  /\ book[id].status = "Unpaid"
  /\ book' = [book EXCEPT ![id].status = "Cancelled"]
  /\ UNCHANGED clock

\* At least the amount due came in, and all that was not due went back.
Pay(id, receipt) ==
  /\ book[id].status = "Unpaid"
  /\ clock < book[id].terms.expiresAt
  /\ receipt.payer \in Accounts
  /\ receipt.receivedRaw >= book[id].terms.due
  /\ receipt.refundRaw = receipt.receivedRaw - book[id].terms.due
  /\ book' = [book EXCEPT ![id].status = "Paid", ![id].receipt = receipt]
  /\ UNCHANGED clock

Tick ==
  /\ clock' = clock + 1
  /\ UNCHANGED book

Next ==
  \/ Tick
  \/ \E id \in InvoiceIds :
       \/ \E t \in Terms : Create(id, t)
       \/ Cancel(id)
       \/ Pay(id, book'[id].receipt)

Spec == Init /\ [][Next]_<<clock, book>>
=============================================================================
