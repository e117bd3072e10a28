------------------------------ MODULE MCPages ------------------------------
(* Three blocks with a fork above the first, four rows of two owners.        *)
EXTENDS Pages

CONSTANTS a1, a2, d1, d2, b1, b2, c2

MCParent == [b \in Blocks |-> IF b = b1 THEN None ELSE b1]
MCHeight == [b \in Blocks |-> IF b = b1 THEN 1 ELSE 2]
MCAncestors == [b \in Blocks |-> {b1, b}]
\* Block b2 opens a row and updates an old one; the fork writes others.
MCTouched == [b \in Blocks |-> CASE b = b1 -> <<"r1", "r2">> [] b = b2 -> <<"r3", "r1">> [] OTHER -> <<"r4", "r2">>]
MCOwner == [row \in Rows |-> IF row = "r4" THEN a2 ELSE a1]
MCAccounts == [r \in Routes |-> IF r \in Lists THEN {a1, a2} ELSE {a1}]
MCTyped == {[token |-> "usdc", amount |-> 0], [token |-> "demo", amount |-> 1]}
=============================================================================
