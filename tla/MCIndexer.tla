----------------------------- MODULE MCIndexer -----------------------------
(* The chain of the Indexer runs: a trunk "a", a branch "b" that leaves it  *)
(* above height 2 and a branch "c" that leaves it above height 1.           *)
EXTENDS Indexer

CONSTANTS aqua, router1, router2, payments1, payments2, d1, d2, w1, w2

Trunk == {<<h, "a">> : h \in 1 .. 5}
MCBlocks == Trunk \cup {<<h, "b">> : h \in 3 .. 5} \cup {<<h, "c">> : h \in 2 .. 5}

MCHeight == [b \in MCBlocks |-> b[1]]

MCParent ==
  [b \in MCBlocks |->
     CASE b[1] = 1 -> None
       [] b = <<3, "b">> -> <<2, "a">>
       [] b = <<2, "c">> -> <<1, "a">>
       [] OTHER -> <<b[1] - 1, b[2]>>]

MCAncestors ==
  [b \in MCBlocks |->
     {c \in MCBlocks : c[1] <= b[1] /\ (c[2] = b[2] \/ (c[2] = "a" /\ c[1] <= (IF b[2] = "b" THEN 2 ELSE 1)))}]

\* The branch heads, and a trunk that has not grown to its full height yet.
MCTips == {<<4, "a">>, <<5, "a">>, <<5, "b">>, <<5, "c">>}

\* The events of a router's strategy, of a payments contract's invoice and of
\* the contract the deployments share.  The branches tell different stories;
\* blocks 3 to 5 of a branch are such that a batch can be cut in two.
Story(b, e) ==
  CASE e = router1 /\ b = <<1, "a">> -> "StrategyActivated"
    [] e = router1 /\ b \in {<<2, "a">>, <<3, "b">>} -> "OrbitalSwapExecuted"
    [] e = router1 /\ b = <<3, "c">> -> "StrategyRetired"
    [] e = router2 /\ b = <<2, "a">> -> "StrategyActivated"
    [] e = payments1 /\ b = <<1, "a">> -> "InvoiceCreated"
    [] e = payments1 /\ b = <<3, "a">> -> "InvoicePaid"
    [] e = payments1 /\ b = <<3, "b">> -> "InvoiceCancelled"
    [] e = aqua /\ b \in {<<3, "a">>, <<3, "b">>} -> "Pushed"
    [] OTHER -> "none"

MCEmitters == {aqua, router1, router2, payments1, payments2}
MCEventOf == [b \in MCBlocks |-> [e \in MCEmitters |-> Story(b, e)]]
MCLogsOf == [b \in MCBlocks |-> {e \in MCEmitters : MCEventOf[b][e] # "none"}]
MCRouterOf == [d \in Deployments |-> IF d = d1 THEN router1 ELSE router2]
MCPaymentsOf == [d \in Deployments |-> IF d = d1 THEN payments1 ELSE payments2]
MCEmittersOf == [d \in Deployments |-> {aqua, MCRouterOf[d], MCPaymentsOf[d]}]

SameStart == [d \in Deployments |-> 1]
\* The starts are farther apart than a batch: with MaxBlocks = 1 a distance of
\* two stands for the more than 64 blocks between two real deployments.
LaterStart == [d \in Deployments |-> IF d = d1 THEN 1 ELSE 3]

OneDeployment == [w \in Workers |-> d1]
OneEach == [w \in Workers |-> IF w = w1 THEN d1 ELSE d2]

Alone == [serves |-> OneDeployment, from |-> {<<4, "a">>, <<5, "a">>}, faults |-> 2]
Shared == [serves |-> OneEach, from |-> MCTips, faults |-> 1]

MCSettings == {Alone, Shared}
AloneOnly == {Alone}
SharedOnly == {Shared}

OldRows == {<<1, "a">>, <<2, "a">>}
NoRows == {}
=============================================================================
