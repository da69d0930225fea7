---------------------------- MODULE MetadataStore ----------------------------
(***************************************************************************)
(* The SQLite metadata store (fvfs-core/src/metadata.rs).  Every method    *)
(* runs one statement under the connection's mutex, so each is one atomic  *)
(* step.  The table files is three functions of the path (its UNIQUE key), *)
(* with row id 0 where there is no row; wal_pending is a set of records.   *)
(* Sizes, times and access counts only feed the eviction order and are     *)
(* left out.                                                               *)
(***************************************************************************)
EXTENDS FvfsTypes

VARIABLES
    rowid,      \* files.id of each path, 0 for no row
    bitmask,    \* files.tier_bitmask
    sha,        \* files.sha256, Absent for none
    wal,        \* the rows of wal_pending
    lastRowid   \* sqlite3_last_insert_rowid() of the one connection

fileVars == <<rowid, bitmask, sha>>
metaVars == <<rowid, bitmask, sha, wal, lastRowid>>

WalEntry == [id : Nat \ {0}, fid : Nat \ {0}, op : WalOp, attempts : Nat]

MetadataTypeOK ==
    /\ rowid \in [Paths -> Nat]
    /\ bitmask \in [Paths -> SUBSET Tier]
    /\ sha \in [Paths -> Data \cup {Absent}]
    /\ wal \subseteq WalEntry
    /\ lastRowid \in Nat

MetadataInit ==
    /\ rowid = [p \in Paths |-> 0]
    /\ bitmask = [p \in Paths |-> {}]
    /\ sha = [p \in Paths |-> Absent]
    /\ wal = {}
    /\ lastRowid = 0

\* SQLite's choice for an INTEGER PRIMARY KEY without AUTOINCREMENT: one more
\* than the largest id in use (a set of one element), so ids are reused.
NextRowids(S) == {n \in {x + 1 : x \in S \cup {0}} : \A x \in S : x < n}

HasRow(p) == rowid[p] # 0

\* The paths of the row with this id: none, or one.
PathsOf(id) == {p \in Paths : HasRow(p) /\ rowid[p] = id}

\* upsert: INSERT ... ON CONFLICT(path) DO UPDATE.  The id it returns is
\* lastRowid', which an update of an existing row leaves alone.
Upsert(p, bm, s) ==
    /\ IF HasRow(p)
         THEN UNCHANGED <<rowid, lastRowid>>
         ELSE \E n \in NextRowids({rowid[q] : q \in Paths}) :
                /\ rowid' = [rowid EXCEPT ![p] = n]
                /\ lastRowid' = n
    /\ bitmask' = [bitmask EXCEPT ![p] = bm]
    /\ sha' = [sha EXCEPT ![p] = s]
    /\ UNCHANGED wal

\* UPDATE files SET tier_bitmask WHERE id: whatever file now has the id.
SetTierBitmask(id, bm) ==
    /\ bitmask' = [p \in Paths |-> IF p \in PathsOf(id) THEN bm ELSE bitmask[p]]
    /\ UNCHANGED <<rowid, sha, wal, lastRowid>>

DeleteRow_no_cascade(p) ==
    /\ rowid' = [rowid EXCEPT ![p] = 0]
    /\ bitmask' = [bitmask EXCEPT ![p] = {}]
    /\ sha' = [sha EXCEPT ![p] = Absent]
    /\ UNCHANGED <<wal, lastRowid>>

\* DELETE FROM files WHERE path, which cascades to wal_pending.
DeleteRow(p) ==
    /\ rowid' = [rowid EXCEPT ![p] = 0]
    /\ bitmask' = [bitmask EXCEPT ![p] = {}]
    /\ sha' = [sha EXCEPT ![p] = Absent]
    /\ wal' = {e \in wal : e.fid # rowid[p]}
    /\ UNCHANGED lastRowid

\* The foreign key of wal_pending.file_id holds for this id.
ForeignKeyOk(id) == PathsOf(id) # {}

\* wal_enqueue of an id that satisfies the foreign key.
WalEnqueue(id, op) ==
    /\ \E n \in NextRowids({e.id : e \in wal}) :
         /\ wal' = wal \cup {[id |-> n, fid |-> id, op |-> op, attempts |-> 0]}
         /\ lastRowid' = n
    /\ UNCHANGED fileVars

\* DELETE FROM wal_pending WHERE id.
WalComplete(id) ==
    /\ wal' = {e \in wal : e.id # id}
    /\ UNCHANGED <<rowid, bitmask, sha, lastRowid>>

\* UPDATE wal_pending SET attempts = attempts + 1 WHERE id.
WalRecordFailure(id) ==
    /\ wal' = {IF e.id = id THEN [e EXCEPT !.attempts = @ + 1] ELSE e : e \in wal}
    /\ UNCHANGED <<rowid, bitmask, sha, lastRowid>>
=============================================================================
