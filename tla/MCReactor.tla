----------------------------- MODULE MCReactor -----------------------------
(* Model-checking instance of Reactor: two clients, the first of which     *)
(* sends enough to fill every buffer on its way.                           *)
EXTENDS Reactor, TLC

CONSTANTS c1, c2

MCClient == {c1, c2}
MCMaxBytes == (c1 :> 4 @@ c2 :> 1)
=============================================================================
