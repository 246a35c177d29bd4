----------------------------- MODULE MCFatChain -----------------------------
\* FatChain with interchangeable file names.
EXTENDS FatChain, TLC

CONSTANTS a, b

MCNames == {a, b}
Symmetry == Permutations(MCNames)
=============================================================================
