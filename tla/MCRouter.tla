------------------------------ MODULE MCRouter ------------------------------
(* Constants of the Router run: two strategies that share the wallet of *)
(* their maker.                                                         *)
EXTENDS Router

CONSTANTS k, a, b, self, t1, t2, o1, o2

MCMakerOf == [o \in Orders |-> k]
MCNonceOf == [o \in Orders |-> IF o = o2 THEN 1 ELSE 0]

\* Principals that are no whole number of token units.
MCInitial == [o \in Orders |-> [t \in Tokens |-> IF o = o1 THEN 3 ELSE 1]]

MCGenesis == [t \in Tokens |-> [x \in Accounts |->
                CASE x = k -> 3 [] x = a -> (IF t = t1 THEN 5 ELSE 1) [] OTHER -> 0]]
=============================================================================
