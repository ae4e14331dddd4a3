-------------------------- MODULE MCChatStatement --------------------------
EXTENDS ChatStatement, TLC

\* Message ids and call slots are each interchangeable.
Symmetry == Permutations(Messages) \cup Permutations(Calls)
=============================================================================
