--------------------------- MODULE MC_NonceCounter ---------------------------
(* Model-checking instances of NonceCounter. *)
EXTENDS NonceCounter, TLC

Symmetry == Permutations(Procs) \cup Permutations(Scopes)
=============================================================================
