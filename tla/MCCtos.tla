------------------------------- MODULE MCCtos -------------------------------
EXTENDS Ctos, TLC

Symmetry == Permutations(Tasks) \cup Permutations(Queues)
=============================================================================
