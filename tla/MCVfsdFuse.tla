------------------------------ MODULE MCVfsdFuse ------------------------------
EXTENDS VfsdFuse, TLC

CONSTANTS dir, file1, file2, c1

\* /dir, /dir/file1 and /file2.
MCParent == [p \in {dir, file1, file2} |-> IF p = file1 THEN dir ELSE Root]

MCAncestors[p \in {Root, dir, file1, file2}] ==
    IF p = Root THEN {} ELSE {MCParent[p]} \cup MCAncestors[MCParent[p]]

MCWrites == {<<2, 2>>}
MCCallers == {c1, Fuse}
=============================================================================
