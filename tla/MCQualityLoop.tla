---------------------------- MODULE MCQualityLoop ----------------------------
EXTENDS QualityLoop, TLC

Symmetry == Permutations(Handlers)

=============================================================================
