---------------------------- MODULE MCEpollRoom ----------------------------
(* Three clients with descriptors for two; the third only connects.  Two   *)
(* that connect at once are one event of the listener, the third is another.*)
EXTENDS EpollRoom, TLC

CONSTANTS c1, c2, c3

MCClient == {c1, c2, c3}
MCMortals == {c1, c2}
MCMaxHellos == (c1 :> 2 @@ c2 :> 1 @@ c3 :> 0)
=============================================================================
