------------------------------ MODULE MCVfscFuse ------------------------------
EXTENDS VfscFuse, TLC

\* A file of each length, so that a longer one may be cut to a shorter.
MCWrites == {<<1, 2>>, <<2>>}

Symmetry ==
    Permutations(Files) \cup Permutations(Conns) \cup Permutations(Workers)
=============================================================================
