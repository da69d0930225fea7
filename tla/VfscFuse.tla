------------------------------- MODULE VfscFuse -------------------------------
(***************************************************************************)
(* fvfsc's FUSE mount (fvfsc/src/fuse_handler.rs) with its inode table and *)
(* read cache, against a daemon that other devices write to.  The mount is *)
(* read-only (MountOption::RO), so the kernel sends lookup, getattr, read  *)
(* and readdir; getattr changes nothing.  fuser calls the handlers one at  *)
(* a time, but every RPC and every cache access is a point where the other *)
(* devices, the daemon and the spawned cache puts may run.                 *)
(*                                                                         *)
(* The daemon is seen through its HTTP API: the bytes of a file and the    *)
(* SHA-256 in its metadata row, which a PUT changes in separate steps (the *)
(* tiers and the WAL behind them are in Fvfsd).  The modelled files are    *)
(* children of the root.                                                   *)
(***************************************************************************)
EXTENDS InodeTable, LocalCache

CONSTANTS
    Conns,          \* bound: requests of other devices in flight at once
    Writes,         \* the contents other devices PUT
    MaxPuts, MaxDeletes, MaxFaults, MaxRestarts

ASSUME WritesAssumption == Writes \subseteq Contents

VARIABLES
    bytes,      \* the daemon's file at each path, Absent for none
    row,        \* files.sha256 of each path, Absent for no row
    conns,      \* conns[k]: a PUT or DELETE the daemon is serving
    h,          \* the read handler
    seen,       \* history: what bytes and row of the path read have been since
                \* the read began
    counts      \* history: how much of each bound is used

daemonVars == <<bytes, row, conns>>
vars == <<tableVars, cacheVars, daemonVars, h, seen, counts>>

Files == Paths \ {Root}
Stored == Contents \cup {Absent}
Size == MaxLen      \* the kernel asks for at least a page

Idle == [pc |-> "idle", path |-> Root, offset |-> 0, hash |-> Absent, reply |-> <<>>]
NoConn == [pc |-> "idle", path |-> Root, data |-> <<>>]

\* The type invariant of the mount, its cache and the daemon it talks to.
VfscTypeOK ==
    /\ TableTypeOK
    /\ CacheTypeOK
    /\ bytes \in [Files -> Stored]
    /\ row \in [Files -> Stored]
    /\ conns \in [Conns -> [pc : {"idle", "create", "fill", "upsert", "rmfile", "rmrow"},
                            path : Paths, data : Contents]]
    /\ h \in [pc : {"idle", "stat", "cache", "get", "body", "done"}, path : Paths,
              offset : 0..MaxLen, hash : Stored, reply : Contents]
    /\ seen \subseteq Stored
    /\ counts \in [put : Nat, delete : Nat, fault : Nat, restart : Nat]

Init ==
    /\ TableInit
    /\ CacheInit
    /\ bytes = [p \in Files |-> Absent]
    /\ row = [p \in Files |-> Absent]
    /\ conns = [k \in Conns |-> NoConn]
    /\ h = Idle
    /\ seen = {}
    /\ counts = [put |-> 0, delete |-> 0, fault |-> 0, restart |-> 0]

Count(what, bound) ==
    /\ counts[what] < bound
    /\ counts' = [counts EXCEPT ![what] = @ + 1]

\* Keep the history of the path that is being read.
Observe ==
    seen' = IF h.pc = "idle" THEN {} ELSE seen \cup {bytes'[h.path], row'[h.path]}

-----------------------------------------------------------------------------
(* The daemon, serving other devices. *)

RequestPut(k, p, data) ==
    /\ conns[k].pc = "idle"
    /\ conns' = [conns EXCEPT ![k] = [pc |-> "create", path |-> p, data |-> data]]
    /\ Count("put", MaxPuts)
    /\ UNCHANGED <<tableVars, cacheVars, bytes, row, h, seen>>

\* File::create of LocalDiskBackend::put.
ServeCreate(k) ==
    /\ conns[k].pc = "create"
    /\ conns' = [conns EXCEPT ![k].pc = "fill"]
    /\ bytes' = [bytes EXCEPT ![conns[k].path] = <<>>]
    /\ UNCHANGED row
    /\ Observe
    /\ UNCHANGED <<tableVars, cacheVars, h, counts>>

\* write_all at the start of whatever another handle has written.
ServeFill(k) ==
    /\ conns[k].pc = "fill"
    /\ conns' = [conns EXCEPT ![k].pc = "upsert"]
    /\ bytes' = [bytes EXCEPT ![conns[k].path] = Splice(@, 0, conns[k].data)]
    /\ UNCHANGED row
    /\ Observe
    /\ UNCHANGED <<tableVars, cacheVars, h, counts>>

\* The metadata upsert with the SHA-256 of the body.
ServeUpsert(k) ==
    /\ conns[k].pc = "upsert"
    /\ conns' = [conns EXCEPT ![k] = NoConn]
    /\ row' = [row EXCEPT ![conns[k].path] = conns[k].data]
    /\ UNCHANGED bytes
    /\ Observe
    /\ UNCHANGED <<tableVars, cacheVars, h, counts>>

\* A DELETE of a file that has a row (otherwise 404 and no change).
RequestDelete(k, p) ==
    /\ conns[k].pc = "idle"
    /\ row[p] # Absent
    /\ conns' = [conns EXCEPT ![k] = [pc |-> "rmfile", path |-> p, data |-> <<>>]]
    /\ Count("delete", MaxDeletes)
    /\ UNCHANGED <<tableVars, cacheVars, bytes, row, h, seen>>

\* remove_file; a PUT with the file open goes on writing to a file without a name.
ServeRemoveFile(k) ==
    LET p == conns[k].path IN
    /\ conns[k].pc = "rmfile"
    /\ conns' = [j \in Conns |->
                   IF j = k THEN [conns[k] EXCEPT !.pc = "rmrow"]
                   ELSE IF conns[j].path = p /\ conns[j].pc = "fill"
                   THEN [conns[j] EXCEPT !.pc = "upsert"] ELSE conns[j]]
    /\ bytes' = [bytes EXCEPT ![p] = Absent]
    /\ UNCHANGED row
    /\ Observe
    /\ UNCHANGED <<tableVars, cacheVars, h, counts>>

ServeRemoveRow(k) ==
    /\ conns[k].pc = "rmrow"
    /\ conns' = [conns EXCEPT ![k] = NoConn]
    /\ row' = [row EXCEPT ![conns[k].path] = Absent]
    /\ UNCHANGED bytes
    /\ Observe
    /\ UNCHANGED <<tableVars, cacheVars, h, counts>>

\* The other device disconnects, which drops the daemon's handler, or the
\* handler fails.  A file system call that a thread has taken over runs all the
\* same: then this comes after it.
Disconnect(k) ==
    /\ conns[k].pc # "idle"
    /\ conns' = [conns EXCEPT ![k] = NoConn]
    /\ Count("fault", MaxFaults)
    /\ UNCHANGED <<tableVars, cacheVars, bytes, row, h, seen>>

-----------------------------------------------------------------------------
(* The handlers. *)

\* lookup: stat, then an inode for the child; ENOENT when it has no row.
Lookup(p) ==
    /\ h.pc = "idle"
    /\ IF row[p] = Absent THEN UNCHANGED tableVars ELSE get_or_alloc(p, NoHint)
    /\ UNCHANGED <<cacheVars, daemonVars, h, seen, counts>>

\* One entry of readdir.  After the list RPC each child gets its inode the way
\* lookup gives it one, until the kernel's buffer is full; the root's own row,
\* which the list contains, has inode 1 already.
ReaddirEntry(p) == row[p] # Absent /\ Lookup(p)

BeginRead_one_based(i, offset) ==
    /\ h.pc = "idle"
    /\ HasIno(i) /\ ino_to_path[i] # Root
    /\ h' = [Idle EXCEPT !.pc = "stat", !.path = ino_to_path[i], !.offset = offset + 1]
    /\ seen' = {bytes[ino_to_path[i]], row[ino_to_path[i]]}
    /\ UNCHANGED <<tableVars, cacheVars, daemonVars, counts>>

\* read of an inode the table knows (ENOENT otherwise).
BeginRead(i, offset) ==
    /\ h.pc = "idle"
    /\ HasIno(i) /\ ino_to_path[i] # Root
    /\ h' = [Idle EXCEPT !.pc = "stat", !.path = ino_to_path[i], !.offset = offset]
    /\ seen' = {bytes[ino_to_path[i]], row[ino_to_path[i]]}
    /\ UNCHANGED <<tableVars, cacheVars, daemonVars, counts>>

\* client.stat: with a row go on to the cache, without one to the GET.
ReadStat ==
    /\ h.pc = "stat"
    /\ h' = [h EXCEPT !.pc = IF row[h.path] = Absent THEN "get" ELSE "cache",
                      !.hash = row[h.path]]
    /\ UNCHANGED <<tableVars, cacheVars, daemonVars, seen, counts>>

\* A stat that fails or times out is treated as a cache miss.
ReadStatFails ==
    /\ h.pc = "stat"
    /\ h' = [h EXCEPT !.pc = "get"]
    /\ Count("fault", MaxFaults)
    /\ UNCHANGED <<tableVars, cacheVars, daemonVars, seen>>

\* reply.data of the requested range.
Reply(data) ==
    h' = [h EXCEPT !.pc = "done", !.reply = ReadRange(data, h.offset, Size)]

\* cache.get_by_hash: whatever the file of that name holds is the data.
ReadCache ==
    /\ h.pc = "cache"
    /\ IF cache[h.hash] = Absent THEN h' = [h EXCEPT !.pc = "get"]
                                 ELSE Reply(cache[h.hash])
    /\ UNCHANGED <<tableVars, cacheVars, daemonVars, seen, counts>>

\* client.get, the daemon's metadata lookup: 404 ends the read with ENOENT.
ReadGet ==
    /\ h.pc = "get"
    /\ h' = IF row[h.path] = Absent THEN Idle ELSE [h EXCEPT !.pc = "body"]
    /\ seen' = IF row[h.path] = Absent THEN {} ELSE seen
    /\ UNCHANGED <<tableVars, cacheVars, daemonVars, counts>>

ReadBody_caches_under_stat_hash ==
    /\ h.pc = "body"
    /\ bytes[h.path] # Absent
    /\ Reply(bytes[h.path])
    /\ \E w \in Workers :
         /\ puts[w].pc = "idle"
         /\ puts' = [puts EXCEPT ![w] = [pc |-> "exists", data |-> bytes[h.path], pos |-> 0,
                       hash |-> IF h.hash = Absent THEN bytes[h.path] ELSE h.hash]]
         /\ UNCHANGED <<cache, interrupted>>
    /\ UNCHANGED <<tableVars, daemonVars, seen, counts>>

\* client.get, the body: it is handed to a spawned cache put and to the kernel.
ReadBody ==
    /\ h.pc = "body"
    /\ bytes[h.path] # Absent
    /\ Reply(bytes[h.path])
    /\ \E w \in Workers : Spawn(w, bytes[h.path])
    /\ UNCHANGED <<tableVars, daemonVars, seen, counts>>

\* The file has gone between the daemon's lookup and its read: 404.
ReadBodyGone ==
    /\ h.pc = "body"
    /\ bytes[h.path] = Absent
    /\ h' = Idle /\ seen' = {}
    /\ UNCHANGED <<tableVars, cacheVars, daemonVars, counts>>

\* The GET fails or times out: EIO.
ReadFails ==
    /\ h.pc \in {"get", "body"}
    /\ h' = Idle /\ seen' = {}
    /\ Count("fault", MaxFaults)
    /\ UNCHANGED <<tableVars, cacheVars, daemonVars>>

\* The kernel has the reply and may send the next request.
Return ==
    /\ h.pc = "done"
    /\ h' = Idle /\ seen' = {}
    /\ UNCHANGED <<tableVars, cacheVars, daemonVars, counts>>

\* fvfsc is killed and mounts again: an empty table and the old cache files.
Restart ==
    /\ ino_to_path' = [i \in {ROOT_INO} |-> Root]
    /\ path_to_ino' = [p \in {Root} |-> ROOT_INO]
    /\ next_ino' = 2
    /\ CacheRestart
    /\ h' = Idle /\ seen' = {}
    /\ Count("restart", MaxRestarts)
    /\ UNCHANGED daemonVars

-----------------------------------------------------------------------------
DaemonStep ==
    \E k \in Conns :
        \/ \E p \in Files, data \in Writes : RequestPut(k, p, data)
        \/ \E p \in Files : RequestDelete(k, p)
        \/ ServeCreate(k) \/ ServeFill(k) \/ ServeUpsert(k)
        \/ ServeRemoveFile(k) \/ ServeRemoveRow(k)
        \/ Disconnect(k)

HandlerStep ==
    \/ \E p \in Files : Lookup(p) \/ ReaddirEntry(p)
    \/ \E i \in DOMAIN ino_to_path, offset \in 0..MaxLen : BeginRead(i, offset)
    \/ ReadStat \/ ReadStatFails \/ ReadCache
    \/ ReadGet \/ ReadBody \/ ReadBodyGone \/ ReadFails
    \/ Return

CacheStep ==
    \E w \in Workers :
        \/ /\ PutExists(w) \/ PutCreate(w) \/ PutFill(w) \/ PutDone(w)
           /\ UNCHANGED <<tableVars, daemonVars, h, seen, counts>>
        \/ /\ PutFails(w)
           /\ Count("fault", MaxFaults)
           /\ UNCHANGED <<tableVars, daemonVars, h, seen>>

Next == DaemonStep \/ HandlerStep \/ CacheStep \/ Restart

Spec == Init /\ [][Next]_vars

-----------------------------------------------------------------------------
\* s is c, cut short or with holes of zeros: what an unfinished put leaves.
Unfinished(s, c) ==
    /\ Len(s) <= Len(c)
    /\ \A i \in 1..Len(s) : s[i] \in {c[i], 0}

(***************************************************************************)
(* Every file of the cache holds bytes of the contents its name is the     *)
(* hash of, at their place, whatever puts race, fail or are killed: a read *)
(* that loses a race between its stat and its GET still caches what it got *)
(* under the right name (LocalCache::put, VfscFuse::read).                 *)
(***************************************************************************)
CacheAddressed ==
    \A c \in Contents : cache[c] # Absent => Unfinished(cache[c], c)

(***************************************************************************)
(* Reads may put one contents twice at once, the later create emptying     *)
(* emptying what the earlier put has written; when all have ended the file *)
(* is whole, unless one failed or was killed while it wrote.  Then the     *)
(* name exists and is never put again (LocalCache::put).                   *)
(***************************************************************************)
CacheWhole ==
    \A c \in Contents \ interrupted :
        \/ cache[c] \in {Absent, c}
        \/ \E w \in Workers : Writing(w) /\ puts[w].hash = c

(***************************************************************************)
(* A read never mixes files or versions: its bytes are those of one        *)
(* contents that the daemon had for this path, on disk or in its row,      *)
(* during the read, at the offset asked for; an unfinished cache file can  *)
(* only shorten them or blank some (VfscFuse::read).                       *)
(***************************************************************************)
ReadsFresh ==
    h.pc = "done" =>
        \E c \in seen \ {Absent}, s \in Contents :
            Unfinished(s, c) /\ h.reply = ReadRange(s, h.offset, Size)
=============================================================================
