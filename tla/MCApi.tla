------------------------------- MODULE MCApi --------------------------------
(***************************************************************************)
(* Five teams of requests, each with what may happen while they run.       *)
(***************************************************************************)
EXTENDS Api

MCRequests == {"s1", "s2", "s3", "pay", "usdc", "none", "ready", "totals", "list", "book"}

MCKind ==
  [r \in MCRequests |->
     CASE r \in {"s1", "s2", "s3"} -> "swap"
       [] r = "pay" -> "payment"
       [] r = "usdc" -> "direct"
       [] r = "none" -> "absent"
       [] r = "ready" -> "ready"
       [] r = "totals" -> "metrics"
       [] r = "list" -> "invoices"
       [] r = "book" -> "strategies"]

MCIntent == [r \in MCRequests |-> IF MCKind[r] = "swap" THEN "swap" ELSE r]

Quiet == [team |-> {}, arc |-> FALSE, reorgs |-> 0, blocks |-> 0, latches |-> 0,
          ticks |-> 0, backs |-> 0, close |-> FALSE]

MCSettings ==
  { [Quiet EXCEPT !.team = {"s1", "s2", "s3"}, !.ticks = 2, !.backs = 1],
    [Quiet EXCEPT !.team = {"s1", "totals"}, !.reorgs = 1, !.blocks = 1, !.close = TRUE],
    [Quiet EXCEPT !.team = {"pay", "ready"}, !.arc = TRUE, !.reorgs = 1, !.blocks = 1],
    [Quiet EXCEPT !.team = {"usdc", "none"}, !.blocks = 1, !.latches = 1],
    [Quiet EXCEPT !.team = {"book", "list"}, !.reorgs = 1, !.blocks = 1, !.latches = 1] }
=============================================================================
