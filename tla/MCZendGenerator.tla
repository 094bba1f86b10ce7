-------------------------- MODULE MCZendGenerator --------------------------
EXTENDS ZendGenerator, TLC

\* The names of generators do not matter.
Symmetry == Permutations(Gens)
=============================================================================
