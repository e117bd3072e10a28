---------------------------- MODULE MCDeployment ----------------------------
(* The Deployment run: a plan of two transactions, the second of which      *)
(* renounces the router, worked on in one tab or in two.                    *)
EXTENDS Deployment

CONSTANTS t1, t2, q1, q2

MCTabs == {t1, t2}
MCTeams == {{t1}, {t1, t2}}

\* The first step can be reviewed anew with another outcome.
MCQuotes == [k \in 0 .. 1 |-> IF k = 0 THEN {q1, q2} ELSE {q1}]
=============================================================================
