--------------------------- MODULE MCMigratedFvfsd ---------------------------
EXTENDS MigratedFvfsd, TLC

CONSTANTS f1, f2, odd

\* The file called odd has a backslash where f1 has a slash.
MCVfsPath == [n \in {f1, f2, odd} |-> IF n = odd THEN f1 ELSE n]

Present(tr) == {x \in Source \X Names : tr[x[1]][x[2]] # Absent}

\* Up to two files: f1 on either side, f2 only locally, odd only beside f1.
MCTrees ==
    {tr \in [Source -> [Names -> Data \cup {Absent}]] :
        /\ tr[Nas][odd] = Absent /\ tr[Nas][f2] = Absent
        /\ tr[Local][odd] # Absent => tr[Local][f1] # Absent
        /\ Cardinality(Present(tr)) <= 2}

MCRoots == {{}, Source}

MCSymmetry == Permutations(Data)
=============================================================================
