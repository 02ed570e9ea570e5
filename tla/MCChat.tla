------------------------------- MODULE MCChat -------------------------------
(* Two clients and bytes of one bit: lengths of two bytes run to 3, one more *)
(* than the server accepts.                                                  *)
EXTENDS Chat, TLC

CONSTANTS c1, c2

MCClient == {c1, c2}
MCScript == (c1 :> << <<1>> >> @@ c2 :> << << >>, <<1, 1>> >>)
=============================================================================
