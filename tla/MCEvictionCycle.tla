--------------------------- MODULE MCEvictionCycle ---------------------------
EXTENDS EvictionCycle

CONSTANTS f1, f2, f3

\* The first file is in each of the states that writes, uploads and migrations
\* leave: small or large, old or recent, read or not.  The second is small and
\* either read or recent, so that the weights decide; the third is large, old
\* and on all tiers.
MCFirst ==
    {r \in [id : {1}, bm : {{Local}, {Local, S3}, {Local, Nas, S3}},
            size : Sizes, at : {0, 2}, count : {0, 1}] : r.at = 2 => r.count = 0}
MCSecond ==
    {r \in [id : {2}, bm : {{Local, S3}},
            size : {1}, at : {0, 2}, count : {0, 1}] : r.at = 0 <=> r.count = 1}
MCThird ==
    [id : {3}, bm : {{Local, Nas, S3}}, size : {2}, at : {0}, count : {0}]

MCStart ==
    {[f \in {f1, f2, f3} |-> IF f = f1 THEN r ELSE IF f = f2 THEN s ELSE t] :
        r \in MCFirst, s \in MCSecond, t \in MCThird}

MCHigh == [t \in {Local, Nas} |-> 3]
MCLow  == [t \in {Local, Nas} |-> 2]
=============================================================================
