--------------------------- MODULE MCSelectServer ---------------------------
(* SelectServer with three clients and descriptors for two, the second of    *)
(* which is past the end of an fd_set.  One client sends, and can fill       *)
(* recv_msg.                                                                 *)
EXTENDS SelectServer, TLC

CONSTANTS c1, c2, c3

MCClient == {c1, c2, c3}
MCLeavers == {c1}
MCMaxBytes == (c1 :> 2 @@ c2 :> 0 @@ c3 :> 0)
=============================================================================
