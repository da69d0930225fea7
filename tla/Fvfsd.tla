-------------------------------- MODULE Fvfsd --------------------------------
(***************************************************************************)
(* The daemon fvfsd (run_serve of fvfsd/src/main.rs): request handlers and *)
(* the background tasks over one metadata store and three backends, with   *)
(* crashes.  Startup replays the WAL; only then are the tasks spawned and  *)
(* requests served.  A crash keeps the database and the backends and loses *)
(* everything in memory.                                                   *)
(***************************************************************************)
EXTENDS WalReplay, EvictionTask, Promotion

CONSTANT MaxCrashes     \* bound: crashes of the daemon
ASSUME CrashAssumption == MaxCrashes \in Nat

VARIABLE crashes        \* history: crashes so far

vars == <<metaVars, storeVars, routerVars, workVars, evictVars, crashes>>

TypeOK ==
    /\ MetadataTypeOK
    /\ StoreTypeOK
    /\ RouterTypeOK
    /\ WorkTypeOK
    /\ EvictTypeOK
    /\ crashes \in Nat

Init ==
    /\ MetadataInit
    /\ StoreInit
    /\ RouterInit
    /\ WorkInit
    /\ EvictInit
    /\ crashes = 0

Request(c) ==
    /\ \/ \E f \in Files, d \in Data : BeginWrite(c, f, d)
       \/ \E f \in Files : BeginRead(c, f)
       \/ \E f \in Files : BeginDelete(c, f)
    /\ UNCHANGED <<workVars, evictVars, crashes>>

Handle(c) ==
    /\ ClientStep(c)
    /\ UNCHANGED <<workVars, evictVars, crashes>>

Drop(c) ==
    /\ Abort(c)
    /\ UNCHANGED <<workVars, evictVars, crashes>>

Upload == UploaderStep /\ UNCHANGED <<evictVars, crashes>>
Replay == ReplayStep   /\ UNCHANGED <<evictVars, crashes>>
Evict  == EvictStep    /\ UNCHANGED <<workVars, crashes>>
Promote == PromoteStep /\ UNCHANGED <<workVars, evictVars, crashes>>

\* The process dies.  A file being written stays as it is; the new connection
\* has no last_insert_rowid.
Crash ==
    /\ crashes < MaxCrashes
    /\ crashes' = crashes + 1
    /\ pc' = Restarted
    /\ path' = [p \in Procs |-> Root]
    /\ buf' = [p \in Procs |-> Absent]
    /\ rbm' = [p \in Procs |-> {}]
    /\ fbm' = [p \in Procs |-> {}]
    /\ fid' = [p \in Procs |-> 0]
    /\ promotions' = <<>>
    /\ openers' = [f \in Files |-> {}]
    /\ mixing' = {}
    /\ lastRowid' = 0
    /\ todo' = {} /\ entry' = {} /\ skipped' = {}
    /\ victims' = {} /\ etier' = Local
    /\ UNCHANGED <<fileVars, wal, store, lapsed, boundVars>>

Next ==
    \/ \E c \in Clients : Request(c) \/ Handle(c) \/ Drop(c)
    \/ Upload \/ Replay \/ Evict \/ Promote \/ Crash

Spec == Init /\ [][Next]_vars

\* Started handlers run to their end, replay makes progress and the uploader
\* is woken by its interval; nothing is assumed of clients, eviction,
\* promotion or crashes.
Fairness ==
    /\ \A c \in Clients : WF_vars(Handle(c))
    /\ WF_vars(Upload)
    /\ WF_vars(Replay)

FairSpec == Spec /\ Fairness

-----------------------------------------------------------------------------
(* Properties *)

\* A tier holds the content the metadata records.
Recoverable(f) == HasRow(f) /\ \E t \in Tier : store[t][f] = sha[f]

\* No client is in the middle of writing or deleting f.
Quiet(f) == \A c \in Clients : path[c] = f => pc[c] \notin ClientLabels

\* The evictor has removed a copy of f and not yet written the bitmask.
BeingEvicted(f) == pc[Evictor] = "e_bits" /\ path[Evictor] = f

\* What a read that starts now and meets no fault returns.
Served(f) ==
    IF Local \in bitmask[f] /\ Holds(Local, f) THEN store[Local][f]
    ELSE IF bitmask[f] \cap {Nas, S3} = {} THEN Absent
    ELSE store[ColdTier(bitmask[f])][f]

\* README "everything durably in S3": the last acknowledged content of a file
\* is still on some tier, whatever upload, eviction, promotion and replay did,
\* unless a database error has left its upload queued after it was done: then
\* the file is uploaded again from whatever a read of it returns.
AckedRecoverable == \A f \in acked \ lapsed : Quiet(f) => Recoverable(f)

\* router.rs write: when a write is acknowledged its S3 upload is queued, and
\* it stays queued until the S3 bit is set; the bit then stays.  Replay alone
\* makes NAS copies: when a database error keeps it from an upload, the file is
\* served with a NAS bit while its upload is queued, and a promotion from the
\* NAS may write the bitmask without the S3 bit back after the upload.
AckedQueued ==
    \A f \in acked \ lapsed : Quiet(f) =>
        \/ S3 \in bitmask[f]
        \/ \E e \in wal : e.fid = rowid[f] /\ e.op = UploadS3

\* TierBitmask "which tiers currently hold a copy": with the S3 bit set, S3
\* holds the recorded content, and eviction relies on it.  It ends with an
\* upload that stays queued after it was done (s3_uploader.rs drops the error of
\* wal_complete): the second one may read a promotion's truncated copy.
S3BitTruthful ==
    \A f \in Files \ lapsed : HasRow(f) /\ S3 \in bitmask[f] => store[S3][f] = sha[f]

\* The read path of router.rs finds a copy of every file that has a row.
Readable ==
    \A f \in Files : HasRow(f) /\ Quiet(f) /\ ~BeingEvicted(f) => Served(f) # Absent

\* The content of each file that has a row and a good copy.
StoredContent ==
    [f \in Files |-> IF Recoverable(f) THEN sha[f] ELSE Absent]

WriteOnce == INSTANCE WriteOnceStore WITH content <- StoredContent, exposed <- lapsed

\* Written once, a file keeps its content through every tier movement, and may
\* lose it only once an upload of it has stayed queued after it was done.
ImplementsWriteOnce == WriteOnce!Spec

\* SQLite schema: ids identify rows, and no WAL entry outlives its file.
RowIdsUnique == \A p, q \in Paths : HasRow(p) /\ rowid[p] = rowid[q] => p = q
WalIdsUnique == \A e, x \in wal : e.id = x.id => e = x
WalRefsFiles == \A e \in wal : ForeignKeyOk(e.fid)

\* Referential integrity of the database (metadata.rs, SCHEMA_SQL) under
\* overwrites, deletes that race uploads, id reuse and crashes.
WalIntegrity == RowIdsUnique /\ WalIdsUnique /\ WalRefsFiles

\* MAX_ATTEMPTS of wal_replay.rs and s3_uploader.rs: replay and uploader
\* together never record more attempts of an entry, also where the uploader's
\* snapshot is older than the entry that now has the id.
AttemptsBounded == \A e \in wal : e.attempts <= MAX_ATTEMPTS

\* wal_replay.rs "before serving any requests": when the daemon starts to
\* serve, replay has finished every entry or used up its attempts, but for those
\* that it left because a database call for them, or the load of all, failed.
ReplayDrains ==
    [][~Serving /\ Serving' =>
        \A e \in wal' : e.attempts >= MAX_ATTEMPTS \/ e.id \in skipped]_vars

\* wal_replay.rs: replay comes to an end after every restart.
ReplayEnds == []<>Serving

\* An upload of f has used up its attempts: nothing tries it again.
GivenUp(f) == \E e \in wal : e.fid = rowid[f] /\ e.op = UploadS3 /\ e.attempts >= MAX_ATTEMPTS

\* README "everything durably in S3": through restarts and failed uploads an
\* acknowledged file gets its S3 bit or, after MAX_ATTEMPTS recorded failures, is
\* given up; no upload is forgotten, and no task's write of an older bitmask
\* takes the bit away again (but see AckedQueued for lapsed files).
AckedReachesS3 ==
    \A f \in Files : (f \in acked) ~> [](S3 \in bitmask[f] \/ GivenUp(f) \/ f \in lapsed)
=============================================================================
