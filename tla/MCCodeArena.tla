---------------------------- MODULE MCCodeArena ----------------------------
(* A small instance of CodeArena: slots aligned to 2 bytes, pages of 4.    *)
EXTENDS CodeArena, TLC

\* A request of one page, of two slots that fill the first page and start the
\* second, an empty list, a zero size, and one that only fits without rounding.
MCRequests == {<<1>>, <<3, 2>>, <<>>, <<0>>, <<13>>}
MCCapacities == {0, 9, 14}

\* Payloads are only compared with each other.
MCSymmetry == Permutations(Payloads)
=============================================================================
