---------------------------- MODULE MCValueRefs ----------------------------
(* ValueRefs on a heap of interchangeable cells.                           *)
EXTENDS ValueRefs, TLC

Symmetry == Permutations(Cells)
=============================================================================
