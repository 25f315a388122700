--------------------------- MODULE MCCompression ---------------------------
(* Every sequence of two values up to eleven bytes and some of more values,  *)
(* in blocks of ten; a tag has two bits for its literals and two for a run.  *)
EXTENDS Compression

MCInputs == UNION {[1 .. n -> {1, 5}] : n \in 0 .. 11} \cup [1 .. 6 -> 0 .. 2] \cup {[i \in 1 .. n |-> i] : n \in 7 .. 12}
MCLimits == {0, 1}
MCDamaged == {0, 9, 15}
=============================================================================
