---------------------------- MODULE MCZendFiber ----------------------------
EXTENDS ZendFiber, TLC

\* The names of fibers do not matter.
Symmetry == Permutations(Fibers)
=============================================================================
