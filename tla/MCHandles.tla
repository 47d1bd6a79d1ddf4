----------------------------- MODULE MCHandles -----------------------------
(* Handles on a few wrappers, those of one type interchangeable.           *)
EXTENDS Handles, TLC

Symmetry == Permutations(Contexts) \cup Permutations(StorePaths)
=============================================================================
