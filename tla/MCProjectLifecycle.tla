------------------------ MODULE MCProjectLifecycle ------------------------
EXTENDS ProjectLifecycle, TLC

\* Calls are interchangeable: any two slots may be swapped.
Symmetry == Permutations(Calls)
=============================================================================
