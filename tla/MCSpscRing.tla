----------------------------- MODULE MCSpscRing -----------------------------
(* Model-checking instances of SpscRing.  Payloads are interchangeable.    *)
EXTENDS SpscRing, TLC

Symmetry == Permutations(T)
=============================================================================
