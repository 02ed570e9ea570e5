------------------------------ MODULE MCBuffer ------------------------------
(* Model-checking instance of Buffer: three characters, every chunk of up  *)
(* to three of them, a vector of two reserved and two usable cells.        *)
EXTENDS Buffer, SequencesExt

MCByte == {"0", "a", "b"}
MCChunks == BoundedSeq({"a", "b"}, 3)
=============================================================================
