-------------------------- MODULE MCExternalValues --------------------------
(* ExternalValues with two payloads of one type and one of another.        *)
EXTENDS ExternalValues, TLC

CONSTANTS a1, a2, b1, A, B

MCTypeId == a1 :> A @@ a2 :> A @@ b1 :> B

Symmetry == Permutations(Externals) \cup Permutations(Handles)
=============================================================================
