----------------------------- MODULE MCPayments -----------------------------
(* Constants of the Payments runs. *)
EXTENDS Payments

CONSTANTS m, p, k, self, usdc, tok

MCTerms ==
  LET t(due, e, to, bps) == [due |-> due, expiresAt |-> e, recipients |-> to, bps |-> bps]
  IN { t(3, 1, <<m, p>>, <<5000, 5000>>),           \* the payer is a recipient
       t(2, 2, <<m, k, p>>, <<3333, 3333, 3334>>),  \* so is the maker; shares round to zero
       t(2, 2, <<m>>, <<9999>>),                    \* shares that do not add up
       t(2, 2, <<m, m>>, <<5000, 5000>>),           \* a recipient twice
       t(2, 2, <<m, self>>, <<5000, 5000>>),        \* the contract itself
       t(2, 0, <<m>>, <<10000>>),                   \* an expiry that is too near
       t(2, 4, <<m>>, <<10000>>) }                  \* an expiry that is too far

MCRoutes == { [maker |-> k, input |-> tok, hasUsdc |-> TRUE],
              [maker |-> k, input |-> tok, hasUsdc |-> FALSE],
              [maker |-> k, input |-> usdc, hasUsdc |-> TRUE] }

MCGenesis == [t \in {usdc, tok} |-> [a \in {m, p, k, self} |->
                IF a = self THEN 0 ELSE IF t = usdc THEN 4 ELSE IF a = p THEN 2 ELSE 0]]
=============================================================================
