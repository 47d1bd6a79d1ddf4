----------------------------- MODULE MCPrimOps -----------------------------
(***************************************************************************)
(* Small instances of PrimOps for TLC.  Primops, names, values and states  *)
(* are interchangeable: nothing in PrimOps or its invariants picks one.    *)
(***************************************************************************)
EXTENDS PrimOps, TLC

Symmetry ==
  Permutations(Prims) \cup Permutations(Names) \cup Permutations(Values)
  \cup Permutations(States)
=============================================================================
