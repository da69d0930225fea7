------------------------------- MODULE VfsdFuse -------------------------------
(***************************************************************************)
(* fvfsd's FUSE mount (fvfsd/src/fuse_handler.rs) with its inode table, on *)
(* the daemon's directory tree, beside HTTP requests on the same tree.     *)
(* fuser calls the handlers one at a time; while one blocks in the router  *)
(* the HTTP handlers go on.  Requests are those the kernel sends: on       *)
(* inodes it was given, create and mkdir of names it has found missing,    *)
(* rmdir of directories and read and write of files.                       *)
(***************************************************************************)
EXTENDS InodeTable, Namespace

CONSTANTS
    Http,           \* HTTP requests in progress at once
    Writes,         \* the bodies of HTTP PUTs
    INO_HINT,       \* what lookup adds to a row id: 10
    MaxCalls,       \* bound: handlers and HTTP PUTs begun
    MaxUnlinks, MaxDeletes, MaxFaults,
    MaxDisturbances \* bound: unlinks, HTTP DELETEs and failures together

Fuse == "fuse"

ASSUME CallersAssumption == Callers = Http \cup {Fuse} /\ Fuse \notin Http
ASSUME WritesAssumption == Writes \subseteq Contents
ASSUME ByteAssumption == 1 \in Bytes      \* the byte that the mount writes
ASSUME HintAssumption == INO_HINT \in Nat \ {0}

VARIABLES
    counts,     \* history: how much of each bound is used
    seen        \* history: the contents of the file being written since the write began

vars == <<tableVars, treeVars, counts, seen>>

\* The type invariant of the mount and the tree.
VfsdTypeOK ==
    /\ TableTypeOK
    /\ NamespaceTypeOK
    /\ seen \subseteq Contents

Init ==
    /\ TableInit
    /\ NamespaceInit
    /\ counts = [call |-> 0, unlink |-> 0, delete |-> 0, fault |-> 0]
    /\ seen = {}

Count(what, bound) ==
    /\ counts[what] < bound
    /\ what = "call" \/ counts.unlink + counts.delete + counts.fault < MaxDisturbances
    /\ counts' = [counts EXCEPT ![what] = @ + 1]

\* What a read of the path finds; a missing file reads as an empty one.
Existing(p) == IF HasRow(p) /\ disk[p] \in Contents THEN disk[p] ELSE <<>>

Observe ==
    seen' = IF calls[Fuse].op # "write" THEN seen
            ELSE seen \cup (({disk'[calls[Fuse].path]} \cap Contents)
                            \cup IF rowid'[calls[Fuse].path] = 0 \/ disk'[calls[Fuse].path] = Absent
                                 THEN {<<>>} ELSE {})

\* An inode the kernel has been given and the path it stands for.
Knows(p) == HasPath(p) /\ HasIno(path_to_ino[p])
PathOf(i) == ino_to_path[i]

\* The children whose parent directory the mount resolves to this path.
Child(p) == p # Root /\ \E i \in DOMAIN ino_to_path : PathOf(i) = Parent[p]

-----------------------------------------------------------------------------
(* Handlers that make no router call that changes the tree. *)

\* lookup: the row's id plus ten is the inode number asked for.
Lookup(p) ==
    /\ At(Fuse, "idle") /\ Child(p)
    /\ IF HasRow(p) THEN get_or_alloc(p, rowid[p] + INO_HINT) ELSE UNCHANGED tableVars
    /\ UNCHANGED <<treeVars, counts, seen>>

\* One entry of readdir: an inode without a hint for each row listed, until the
\* kernel's buffer is full.
ReaddirEntry(d, p) ==
    /\ At(Fuse, "idle") /\ Knows(d) /\ p \in ListDir(d)
    /\ get_or_alloc(p, NoHint)
    /\ UNCHANGED <<treeVars, counts, seen>>

-----------------------------------------------------------------------------
(* Handlers that block in the router. *)

Begin(pc, op, p, off, data) ==
    /\ At(Fuse, "idle")
    /\ Call(Fuse, pc, op, p, off, data)
    /\ Count("call", MaxCalls)
    /\ UNCHANGED <<tableVars, rowid, isDir, disk>>

BeginCreate(p) ==
    /\ Child(p) /\ ~HasRow(p)
    /\ Begin("put", "create", p, 0, <<>>)
    /\ UNCHANGED seen

BeginMkdir(p) ==
    /\ Child(p) /\ ~HasRow(p)
    /\ Begin("mkdir", "mkdir", p, 0, <<>>)
    /\ UNCHANGED seen

\* write: first router.read of the old contents.
BeginWrite(i, off) ==
    LET p == PathOf(i) IN
    /\ p # Root /\ ~isDir[p]
    /\ Begin("row", "write", p, off, <<>>)
    /\ seen' = {Existing(p)} \cup ({disk[p]} \cap Contents)

\* setattr with size 0; another size is ignored.
BeginTruncate(i) ==
    LET p == PathOf(i) IN
    /\ p # Root /\ ~isDir[p]
    /\ Begin("put", "truncate", p, 0, <<>>)
    /\ UNCHANGED seen

\* unlink of a file, and rmdir of a directory, which is the same call.
BeginUnlink(p) ==
    /\ At(Fuse, "idle") /\ Child(p) /\ HasRow(p)
    /\ Call(Fuse, "delete", "unlink", p, 0, <<>>)
    /\ Count("unlink", MaxUnlinks)
    /\ UNCHANGED <<tableVars, rowid, isDir, disk, seen>>

Returned(op) == At(Fuse, "returned") /\ calls[Fuse].op = op
Ok == calls[Fuse].res = "ok"
Finish == calls' = [calls EXCEPT ![Fuse] = NoCall]

WriteBack_from_empty ==
    /\ Returned("write")
    /\ Call(Fuse, "put", "written", calls[Fuse].path, calls[Fuse].off,
            Splice(<<>>, calls[Fuse].off, <<1>>))
    /\ UNCHANGED <<tableVars, rowid, isDir, disk, counts, seen>>

\* write: splice into what was read, or into nothing if the read failed
\* (unwrap_or_default), and router.write the result.
WriteBack ==
    LET old == IF Ok THEN calls[Fuse].data ELSE <<>> IN
    /\ Returned("write")
    /\ Call(Fuse, "put", "written", calls[Fuse].path, calls[Fuse].off,
            Splice(old, calls[Fuse].off, <<1>>))
    /\ UNCHANGED <<tableVars, rowid, isDir, disk, counts, seen>>

\* create and mkdir: on success an inode without a hint, otherwise EIO.
EntryReply ==
    /\ Returned("create") \/ Returned("mkdir")
    /\ IF Ok THEN get_or_alloc(calls[Fuse].path, NoHint) ELSE UNCHANGED tableVars
    /\ Finish
    /\ UNCHANGED <<rowid, isDir, disk, counts, seen>>

UnlinkReply_keeps_inode ==
    /\ Returned("unlink")
    /\ Finish
    /\ UNCHANGED <<tableVars, rowid, isDir, disk, counts, seen>>

\* unlink: on success the inode is forgotten.
UnlinkReply ==
    /\ Returned("unlink")
    /\ IF Ok THEN remove(calls[Fuse].path) ELSE UNCHANGED tableVars
    /\ Finish
    /\ UNCHANGED <<rowid, isDir, disk, counts, seen>>

\* write has its answer; setattr ignores that of its truncation.
WriteReply ==
    /\ Returned("written") \/ Returned("truncate")
    /\ Finish
    /\ seen' = {}
    /\ UNCHANGED <<tableVars, rowid, isDir, disk, counts>>

-----------------------------------------------------------------------------
(* HTTP requests. *)

HttpPut(c, p, data) ==
    /\ At(c, "idle") /\ p # Root
    /\ Call(c, "put", "put", p, 0, data)
    /\ Count("call", MaxCalls)
    /\ UNCHANGED <<tableVars, rowid, isDir, disk, seen>>

HttpDelete(c, p) ==
    /\ At(c, "idle") /\ p # Root /\ HasRow(p)
    /\ Call(c, "delete", "delete", p, 0, <<>>)
    /\ Count("delete", MaxDeletes)
    /\ UNCHANGED <<tableVars, rowid, isDir, disk, seen>>

HttpReply(c) ==
    /\ At(c, "returned")
    /\ calls' = [calls EXCEPT ![c] = NoCall]
    /\ UNCHANGED <<tableVars, rowid, isDir, disk, counts, seen>>

-----------------------------------------------------------------------------
FuseStep ==
    \/ \E p \in Paths : Lookup(p) \/ BeginCreate(p) \/ BeginMkdir(p) \/ BeginUnlink(p)
    \/ \E d, p \in Paths : ReaddirEntry(d, p)
    \/ \E i \in DOMAIN ino_to_path : BeginTruncate(i) \/ \E off \in 0..(MaxLen - 1) : BeginWrite(i, off)
    \/ WriteBack \/ EntryReply \/ UnlinkReply \/ WriteReply

HttpStep ==
    \E c \in Http :
        \/ \E p \in Paths, data \in Writes : HttpPut(c, p, data)
        \/ \E p \in Paths : HttpDelete(c, p)
        \/ HttpReply(c)

CallStep ==
    \E c \in Callers :
        \/ RouterStep(c) /\ Observe /\ UNCHANGED <<tableVars, counts>>
        \/ CallFails(c) /\ Count("fault", MaxFaults) /\ UNCHANGED <<tableVars, seen>>

Next == FuseStep \/ HttpStep \/ CallStep

Spec == Init /\ [][Next]_vars

-----------------------------------------------------------------------------
(***************************************************************************)
(* What write stores is the written byte spliced into contents the file    *)
(* really had after the request arrived: the rest of the file is kept      *)
(* (VfsdFuse::write: "read existing data, splice in new bytes, write       *)
(* back").  It takes that no call fails: a read that fails counts as one   *)
(* of an empty file.                                                       *)
(***************************************************************************)
WriteSplices ==
    (calls[Fuse].op = "written" /\ counts.fault = 0) =>
        \E c \in seen : calls[Fuse].data = Splice(c, calls[Fuse].off, <<1>>)

(***************************************************************************)
(* The inode table stays a bijection through creates, lookups, listings    *)
(* and unlinks that interleave with HTTP PUTs and failures, as long as     *)
(* nothing is deleted over HTTP, of which the mount does not hear, and the *)
(* numbers counted up from 2 stay below those made of row ids.             *)
(***************************************************************************)
MountInodesCoherent ==
    (counts.delete = 0 /\ next_ino <= INO_HINT + 1) => InodesCoherent

\* Nothing has been deleted and no call has failed so far.
Undisturbed == counts.unlink = 0 /\ counts.delete = 0 /\ counts.fault = 0

(***************************************************************************)
(* Until something is deleted or fails, everything stored can be reached   *)
(* from the root: however calls interleave, a row whose parent is missing  *)
(* has a call above it that is still adding ancestors                      *)
(* (TierRouter::write, mkdir and ensure_parent_dirs).                      *)
(***************************************************************************)
GrowsConnected == Undisturbed => Connected
=============================================================================
