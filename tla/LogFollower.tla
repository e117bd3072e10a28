---------------------------- MODULE LogFollower ----------------------------
(***************************************************************************)
(* What the indexer promises to its readers.  For each deployment there is *)
(* a top block, and what a reader sees are the logs of the deployment in   *)
(* all the blocks from its start up to that top: none missing, none from   *)
(* another branch.  The top moves along one branch at a time, down by a    *)
(* rollback and up by indexing, never sideways.                            *)
(***************************************************************************)
CONSTANTS Deployments, Blocks, None,
          Ancestors,  \* Ancestors[b]: the blocks of b's chain, b included
          Logs        \* Logs[d][b]: what b holds for deployment d, {} before its start

VARIABLES top,   \* top[d]: the last block indexed for d, or None
          view   \* view[d]: the pairs <<block, log>> that d's readers see

UpTo(d, b) ==
  IF b = None THEN {} ELSE UNION {{<<c, l>> : l \in Logs[d][c]} : c \in Ancestors[b]}

Init ==
  /\ top \in [Deployments -> Blocks \cup {None}]
  /\ view = [d \in Deployments |-> UpTo(d, top[d])]

Extend(d) == top'[d] \in Blocks /\ (top[d] # None => top[d] \in Ancestors[top'[d]])

Rewind(d) == top[d] # None /\ top'[d] \in Ancestors[top[d]] \cup {None}

\* One rollback may rewind several deployments of the same chain.
Next ==
  /\ \A d \in Deployments : Extend(d) \/ Rewind(d) \/ top'[d] = top[d]
  /\ view' = [d \in Deployments |-> UpTo(d, top'[d])]

Spec == Init /\ [][Next]_<<top, view>>
=============================================================================
