------------------------------ MODULE Namespace ------------------------------
(***************************************************************************)
(* The directory tree of the daemon: the rows of files (fvfs-core's        *)
(* metadata.rs), the local tier's files and directories, and the router's  *)
(* calls on them (fvfsd/src/router.rs), each a sequence of steps that      *)
(* other callers' steps may interleave with.  The caller is the FUSE mount *)
(* or an HTTP request.  The colder tiers and the WAL are in Fvfsd; here    *)
(* every file stays on the local tier, and what can go wrong there or in   *)
(* the WAL is a call that returns an error.                                *)
(***************************************************************************)
EXTENDS FvfsPath, FileBytes

CONSTANTS
    Parent,     \* FvfsPath::parent of each path but the root
    Ancestors,  \* the directories above each path: its parent, and those above it
    Directory,  \* the local tier has a directory at the path
    Callers     \* who may be inside a router call at the same time

ASSUME TreeAssumption ==
    /\ Parent \in [Paths \ {Root} -> Paths]
    /\ Ancestors \in [Paths -> SUBSET Paths]
    /\ \A p \in Paths :
         Ancestors[p] = IF p = Root THEN {} ELSE {Parent[p]} \cup Ancestors[Parent[p]]
    /\ \A p \in Paths : p \notin Ancestors[p]
    /\ Directory \notin Contents \cup {Absent}

VARIABLES
    rowid,      \* files.id of each path, 0 for no row
    isDir,      \* files.is_dir
    disk,       \* what the local tier holds at each path
    calls       \* calls[c]: the router call that c is in

treeVars == <<rowid, isDir, disk, calls>>

NoCall == [pc |-> "idle", op |-> "none", path |-> Root, cur |-> Root, off |-> 0, data |-> <<>>,
           res |-> "none"]

NamespaceTypeOK ==
    /\ rowid \in [Paths -> Nat]
    /\ isDir \in [Paths -> BOOLEAN]
    /\ disk \in [Paths -> Contents \cup {Absent, Directory}]
    /\ \A c \in Callers :
         /\ calls[c].pc \in {"idle", "put", "fill", "upsert", "mkdir", "parents", "mkparent",
                             "row", "body", "delete", "rm", "rmrow", "returned"}
         /\ calls[c].path \in Paths /\ calls[c].cur \in Paths
         /\ calls[c].data \in Contents
         /\ calls[c].res \in {"none", "ok", "notfound", "error"}

NamespaceInit ==
    /\ rowid = [p \in Paths |-> 0]
    /\ isDir = [p \in Paths |-> FALSE]
    /\ disk = [p \in Paths |-> IF p = Root THEN Directory ELSE Absent]
    /\ calls = [c \in Callers |-> NoCall]

HasRow(p) == rowid[p] # 0

At(c, pc) == calls[c].pc = pc
Go(c, pc) == calls' = [calls EXCEPT ![c].pc = pc]
Result(c, res) == calls' = [calls EXCEPT ![c].pc = "returned", ![c].res = res]

\* Enter a router call.
Call(c, pc, op, p, off, data) ==
    calls' = [calls EXCEPT ![c] =
        [pc |-> pc, op |-> op, path |-> p, cur |-> p, off |-> off, data |-> data, res |-> "none"]]

\* upsert: SQLite gives a new row one more than the largest id in use.
UpsertRow(p, d) ==
    /\ isDir' = [isDir EXCEPT ![p] = d]
    /\ IF HasRow(p)
         THEN UNCHANGED rowid
         ELSE \E n \in {rowid[q] + 1 : q \in Paths} :
                /\ \A q \in Paths : rowid[q] < n
                /\ rowid' = [rowid EXCEPT ![p] = n]

\* write: local.put makes the directories above the file and empties it.
WriteCreate(c) ==
    LET p == calls[c].path IN
    /\ At(c, "put")
    /\ IF disk[p] = Directory \/ \E q \in Ancestors[p] : disk[q] \in Contents
         THEN Result(c, "error") /\ UNCHANGED disk
         ELSE /\ Go(c, "fill")
              /\ disk' = [q \in Paths |-> IF q = p THEN <<>>
                                          ELSE IF q \in Ancestors[p] THEN Directory ELSE disk[q]]
    /\ UNCHANGED <<rowid, isDir>>

\* write: write_all of local.put, over what another handle has written.
WriteFill(c) ==
    /\ At(c, "fill")
    /\ disk' = [disk EXCEPT ![calls[c].path] = Splice(@, 0, calls[c].data)]
    /\ Go(c, "upsert")
    /\ UNCHANGED <<rowid, isDir>>

\* write: the row of the file.
WriteUpsert(c) ==
    /\ At(c, "upsert")
    /\ UpsertRow(calls[c].path, FALSE)
    /\ Go(c, "parents")
    /\ UNCHANGED disk

\* mkdir: the row of the directory; nothing is made on disk.
MkdirUpsert(c) ==
    /\ At(c, "mkdir")
    /\ UpsertRow(calls[c].path, TRUE)
    /\ Go(c, "parents")
    /\ UNCHANGED disk

\* ensure_parent_dirs: get the parent's row.  At the root a mkdir is done; a write
\* still enqueues its WAL entries, which fails when the id that upsert returned
\* is not that of a row (Fvfsd).
ParentRow(c) ==
    LET cur == calls[c].cur IN
    /\ At(c, "parents")
    /\ IF cur = Root THEN \E res \in IF calls[c].op = "mkdir" THEN {"ok"} ELSE {"ok", "error"} :
                              Result(c, res)
       ELSE IF HasRow(Parent[cur]) THEN calls' = [calls EXCEPT ![c].cur = Parent[cur]]
       ELSE Go(c, "mkparent")
    /\ UNCHANGED <<rowid, isDir, disk>>

ParentUpsert_no_climb(c) ==
    /\ At(c, "mkparent")
    /\ UpsertRow(Parent[calls[c].cur], TRUE)
    /\ Result(c, "ok")
    /\ UNCHANGED disk

\* ensure_parent_dirs: the missing parent was seen a step ago.
ParentUpsert(c) ==
    LET cur == calls[c].cur IN
    /\ At(c, "mkparent")
    /\ UpsertRow(Parent[cur], TRUE)
    /\ calls' = [calls EXCEPT ![c].pc = "parents", ![c].cur = Parent[cur]]
    /\ UNCHANGED disk

\* read: require_metadata, and no directory.
ReadRow(c) ==
    LET p == calls[c].path IN
    /\ At(c, "row")
    /\ IF ~HasRow(p) THEN Result(c, "notfound")
       ELSE IF isDir[p] THEN Result(c, "error") ELSE Go(c, "body")
    /\ UNCHANGED <<rowid, isDir, disk>>

\* read: the local tier's bytes.
ReadBody(c) ==
    LET p == calls[c].path IN
    /\ At(c, "body")
    /\ IF disk[p] \in Contents
         THEN calls' = [calls EXCEPT ![c].pc = "returned", ![c].res = "ok", ![c].data = disk[p]]
         ELSE Result(c, "notfound")
    /\ UNCHANGED <<rowid, isDir, disk>>

\* delete: require_metadata.
DeleteRequire(c) ==
    /\ At(c, "delete")
    /\ IF HasRow(calls[c].path) THEN Go(c, "rm") ELSE Result(c, "notfound")
    /\ UNCHANGED <<rowid, isDir, disk>>

\* delete: remove_file, whose failure on a directory is ignored.  A put with the
\* file open goes on writing to a file without a name.
DeleteFile(c) ==
    LET p == calls[c].path IN
    /\ At(c, "rm")
    /\ disk' = IF disk[p] \in Contents THEN [disk EXCEPT ![p] = Absent] ELSE disk
    /\ calls' = [b \in Callers |->
                   IF b = c THEN [calls[c] EXCEPT !.pc = "rmrow"]
                   ELSE IF At(b, "fill") /\ calls[b].path = p
                   THEN [calls[b] EXCEPT !.pc = "upsert"] ELSE calls[b]]
    /\ UNCHANGED <<rowid, isDir>>

\* delete: DELETE FROM files, of this path alone.
DeleteRow(c) ==
    LET p == calls[c].path IN
    /\ At(c, "rmrow")
    /\ rowid' = [rowid EXCEPT ![p] = 0]
    /\ isDir' = [isDir EXCEPT ![p] = FALSE]
    /\ Result(c, "ok")
    /\ UNCHANGED disk

\* An I/O, database or colder-tier error ends the call where it is.
CallFails(c) ==
    /\ calls[c].pc \notin {"idle", "returned"}
    /\ Result(c, "error")
    /\ UNCHANGED <<rowid, isDir, disk>>

RouterStep(c) ==
    \/ WriteCreate(c) \/ WriteFill(c) \/ WriteUpsert(c) \/ MkdirUpsert(c) \/ ParentRow(c) \/ ParentUpsert(c)
    \/ ReadRow(c) \/ ReadBody(c)
    \/ DeleteRequire(c) \/ DeleteFile(c) \/ DeleteRow(c)

\* list_dir: the paths that extend the directory's prefix by no further "/".
\* The prefix of the root is "/", which the root's own path extends too.
ListDir(d) ==
    {p \in Paths : HasRow(p) /\ (IF p = Root THEN d = Root ELSE Parent[p] = d)}

\* Every row's parent has a row too, or a call that is still in
\* ensure_parent_dirs below it is going to add it.
Connected ==
    \A p \in Paths \ {Root} : HasRow(p) =>
        \/ HasRow(Parent[p])
        \/ \E c \in Callers :
             /\ calls[c].pc \in {"parents", "mkparent"}
             /\ p = calls[c].cur \/ p \in Ancestors[calls[c].cur]
=============================================================================
