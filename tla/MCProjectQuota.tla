--------------------------- MODULE MCProjectQuota ---------------------------
EXTENDS ProjectQuota, TLC

\* Users, project ids and call slots are each interchangeable.
Symmetry == Permutations(Users) \cup Permutations(Projects) \cup Permutations(Calls)
=============================================================================
