--------------------------- MODULE MCLoopThreads ---------------------------
(* LoopThreads on the instance of the configuration. *)
EXTENDS LoopThreads
=============================================================================
