--------------------------- MODULE MCEventStream ---------------------------
(* The EventStream run: its constants are plain values of the .cfg.         *)
EXTENDS EventStream
=============================================================================
