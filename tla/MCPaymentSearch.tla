-------------------------- MODULE MCPaymentSearch ---------------------------
(* Bounds from the least to more than eight doublings above the first       *)
(* input, which is below, inside or above them; tokens of 4, 6 and 7        *)
(* decimals and the curve's range as the least of the three bounds; direct  *)
(* invoices that the maximum or the balance does and does not cover.        *)
EXTENDS PaymentSearch

Offers(dues, decimals, usdc, maxima, balances) ==
  [status : {"unpaid"}, expired : {FALSE}, due : dues, decimals : decimals,
   usdc : {usdc}, maximum : maxima, balance : balances]

MCInvoices ==
  Offers({1, 40}, {6, 7}, FALSE, {1, 2, 5, 13, 700}, {1000})
    \cup Offers({3}, {4}, FALSE, {10000}, {900})
    \cup Offers({40}, {6}, TRUE, {39, 40}, {39, 40})
    \cup {[i EXCEPT !.status = "paid"] : i \in Offers({40}, {6}, FALSE, {40}, {40})}
    \cup {[i EXCEPT !.expired = TRUE] : i \in Offers({40}, {6}, TRUE, {40}, {40})}

MCScale == [d \in 0 .. 18 |-> IF d <= 6 THEN 10 ^ (8 - d) ELSE 12]
MCGrossLimit == 60100
=============================================================================
