----------------------------- MODULE ByteQueue -----------------------------
(***************************************************************************)
(* What ccnet's Buffer promises its users, TcpConnection foremost: a queue *)
(* of bytes.  Bytes enter at the back, leave at the front, and are never   *)
(* altered, lost or reordered in between.  How the bytes are stored is of  *)
(* no concern here; module Buffer says that and is shown to implement this *)
(* specification.                                                          *)
(***************************************************************************)
EXTENDS Integers, Sequences

CONSTANT Byte

VARIABLE bytes

QInit == bytes = << >>

\* Some bytes enter at the back: what was queued is a prefix of what is.
Put ==
  /\ bytes' \in Seq(Byte)
  /\ Len(bytes') >= Len(bytes)
  /\ \A i \in 1..Len(bytes) : bytes'[i] = bytes[i]

\* The first k bytes leave, the others keep their order.
Take ==
  \E k \in 0..Len(bytes) :
    bytes' = [i \in 1..(Len(bytes) - k) |-> bytes[i + k]]

QNext == Put \/ Take

QSpec == QInit /\ [][QNext]_bytes
=============================================================================
