----------------------------- MODULE MCSetIndex -----------------------------
(* A set of three ways, three hashes and three responses at a time.         *)
EXTENDS SetIndex, TLC

CONSTANTS p1, p2, p3

ResponseSymmetry == Permutations({p1, p2, p3})
=============================================================================
