--------------------------- MODULE MCFileLibrary ----------------------------
(* Values of the constants of FileLibrary for TLC.                         *)
EXTENDS FileLibrary, TLC

CONSTANTS raiz, p1, f1, f2, f3, n1, n2, o1, o2

Simetria == Permutations({f1, f2, f3}) \cup Permutations({o1, o2})
=============================================================================
