------------------------------ MODULE MC_Mirror ------------------------------
EXTENDS Mirror, TLC

\* Symmetry of the written values: they are only compared for equality.
ValSymmetry == Permutations(Vals)

=============================================================================
