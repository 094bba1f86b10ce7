----------------------------- MODULE MCZendHash -----------------------------
EXTENDS ZendHash, TLC
CONSTANT name
Traversed == {<<2, 2>>}
NameHash == [n \in Names |-> 1]
Symmetry == Permutations(Tables) \cup Permutations(Vars)
=============================================================================
