--------------------------- MODULE MCErrorBuffer ---------------------------
\* Instances of ErrorBuffer for TLC: contexts are interchangeable.
EXTENDS ErrorBuffer, TLC

Symmetry == Permutations(Contexts)
=============================================================================
