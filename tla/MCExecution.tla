----------------------------- MODULE MCExecution -----------------------------
(* Two accounts; one instance of each hook, and two of the swap hook.      *)
(* Views and accounts are interchangeable.                                 *)
EXTENDS Execution, TLC

CONSTANTS v1, v2, a1, a2

MCViews == {v1, v2}
MCAccounts == {a1, a2}
Solo == {{v} : v \in MCViews}
MCTeams == [f \in Flows |-> IF f = "swap" THEN Solo \cup {MCViews} ELSE Solo]
Symmetry == Permutations(MCViews) \cup Permutations(MCAccounts)
=============================================================================
