------------------------------- MODULE MCFvfsd -------------------------------
EXTENDS Fvfsd, TLC

Symmetry == Permutations(Files) \cup Permutations(Data) \cup Permutations(Clients)
=============================================================================
