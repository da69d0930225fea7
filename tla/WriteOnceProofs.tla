--------------------------- MODULE WriteOnceProofs ---------------------------
(***************************************************************************)
(* Theorems about files that are written once: workloads in which every    *)
(* file is written at most once and none is deleted.  Which other bounds   *)
(* they need (no crash, or none) is said at each theorem; files, contents, *)
(* clients, faults, reads and attempts are arbitrary.                      *)
(***************************************************************************)
EXTENDS FvfsdProofs

WritesOnce == MaxWrites = 1 /\ MaxDeletes = 0

-----------------------------------------------------------------------------
(* Rows and their writers *)

\* A client that is writing, and one whose row is already there.
WriteLabels == {"w_fill", "w_upsert", "w_parents", "w_root", "w_nas", "w_s3"}
RowLabels   == {"w_parents", "w_root", "w_nas", "w_s3"}

\* A file that no write has begun on has no row and no writer.
Unwritten ==
    /\ deletes = 0
    /\ \A c \in Clients : pc[c] # "d_tiers"
    /\ \A f \in Files : writes[f] = 0 =>
         ~HasRow(f) /\ \A c \in Clients : pc[c] \in WriteLabels => path[c] # f

\* A file has one writer, which gives it its row and then knows the row's id.
OneWriter ==
    /\ \A c, d \in Clients :
         pc[c] \in WriteLabels /\ pc[d] \in WriteLabels /\ path[c] = path[d] => c = d
    /\ \A c \in Clients : pc[c] \in {"w_fill", "w_upsert"} => ~HasRow(path[c])
    /\ \A c \in Clients : pc[c] \in RowLabels =>
         HasRow(path[c]) /\ fid[c] = rowid[path[c]]

\* A row records a content; without a row there are no bits.
RowContent ==
    /\ \A f \in Files : HasRow(f) => sha[f] \in Data
    /\ \A p \in Paths : ~HasRow(p) => bitmask[p] = {}

RowInv == Unwritten /\ OneWriter /\ RowContent

-----------------------------------------------------------------------------
(* WAL entries and their workers *)

\* The file with this row id.
IsFileId(id) == \E f \in Files : HasRow(f) /\ rowid[f] = id

\* Entries are of files, at most one of them an upload, none before the file's
\* writer has enqueued it.
EntriesOfFiles ==
    /\ \A e \in wal : IsFileId(e.fid)
    /\ \A e, x \in wal : e.op = UploadS3 /\ x.op = UploadS3 /\ e.fid = x.fid => e = x
    /\ \A c \in Clients, e \in wal : pc[c] \in RowLabels /\ e.op = UploadS3 => e.fid # fid[c]

\* A snapshot never goes stale: what a worker holds is in the table, but for the
\* attempts that replay counts and fails to record.
SnapshotCurrent ==
    /\ todo \subseteq wal
    /\ \A e \in entry : \E x \in wal : x.id = e.id /\ x.fid = e.fid /\ x.op = e.op
    /\ Serving => entry \subseteq wal /\ \A e \in todo \cup entry : e.op = UploadS3

\* Where the uploader or replay works on the entry in hand.
HandLabels == {"r_meta", "r_local", "r_cold", "data", "error", "u_bits", "u_done",
               "y_nas", "y_fill", "y_bits", "y_done"}

InHand ==
    /\ pc[Uploader] # "u_drop"
    /\ \A p \in {Uploader, Replayer} : pc[p] \in HandLabels =>
         /\ path[p] \in Files /\ HasRow(path[p]) /\ fid[p] = rowid[path[p]]
         /\ entry # {} /\ \A e \in entry : e.fid = fid[p]

EntryInv == EntriesOfFiles /\ SnapshotCurrent /\ InHand

-----------------------------------------------------------------------------
(* Bits and queued uploads *)

\* The daemon has not been restarted.
FirstRun == crashes = 0

\* After a restart, a database error may have left an upload of f queued that the
\* uploader does while f is on a cold tier.
Loose(f) == ~FirstRun /\ f \in lapsed

\* Nothing more happens to the S3 bit of f: it is set, or the uploads of f have
\* used up their attempts, which takes a restart and no writer is left then; or
\* nothing is promised of it.
Settled(f) ==
    /\ HasRow(f)
    /\ \/ S3 \in bitmask[f]
       \/ Loose(f)
       \/ /\ ~FirstRun
          /\ \A c \in Clients : pc[c] \in WriteLabels => path[c] # f
          /\ \A e \in wal : e.op = UploadS3 /\ e.fid = rowid[f] => e.attempts >= MAX_ATTEMPTS

\* The first replay has nothing to do.
FirstReplay ==
    FirstRun =>
        /\ pc[Replayer] \in {"y_load", "y_next", "off"}
        /\ ~Serving => /\ wal = {} /\ todo = {} /\ promotions = <<>>
                       /\ \A f \in Files : ~HasRow(f)

\* The bitmask that the uploader or replay writes back.
WorkerBits ==
    /\ pc[Replayer] \in HandLabels \ {"y_done"} => fbm[Replayer] = bitmask[path[Replayer]]
    /\ pc[Replayer] = "y_done" => \A e \in entry : e.op = UploadS3 => S3 \in bitmask[path[Replayer]]
    /\ pc[Uploader] = "u_done" => S3 \in bitmask[path[Uploader]] \/ Loose(path[Uploader])

\* A file that has been on a cold tier is settled: so the bitmask that the
\* promoter or the evictor writes back does not undo an upload.
ColdReads ==
    Serving =>
        /\ \A f \in Files : Nas \in bitmask[f] => Settled(f)
        /\ \A p \in Procs : pc[p] \in {"r_local", "r_cold"} /\ rbm[p] # {Local} => Settled(path[p])
        /\ \A i \in DOMAIN promotions : Settled(promotions[i])

Movers ==
    /\ \A p \in Procs : pc[p] = "r_cold" => rbm[p] # {Local}
    /\ \A i \in DOMAIN promotions : HasRow(promotions[i])
    /\ pc[Promoter] # "idle" => path[Promoter] \in Files /\ Settled(path[Promoter])
    /\ pc[Promoter] = "p_bits" =>
         /\ fid[Promoter] = rowid[path[Promoter]]
         /\ (S3 \in bitmask[path[Promoter]] <=> S3 \in fbm[Promoter]) \/ Loose(path[Promoter])
    /\ pc[Evictor] \in {"e_delete", "e_bits"} =>
         /\ path[Evictor] \in Files /\ HasRow(path[Evictor])
         /\ S3 \in bitmask[path[Evictor]] \/ Loose(path[Evictor])
         /\ fid[Evictor] = rowid[path[Evictor]] /\ S3 \in fbm[Evictor]

ColdInv == FirstReplay /\ WorkerBits /\ ColdReads /\ Movers

\* An acknowledged file has a row and its upload is done or queued.
Queued == \A f \in acked :
    /\ HasRow(f)
    /\ \/ S3 \in bitmask[f] \/ Loose(f)
       \/ \E e \in wal : e.fid = rowid[f] /\ e.op = UploadS3

-----------------------------------------------------------------------------
(* Copies, until the first restart *)

\* Nothing is on the NAS before replay has put it there.
NoNas ==
    /\ \A f \in Files : Nas \notin bitmask[f]
    /\ \A p \in Procs : Nas \notin fbm[p]

\* The S3 bit of a file is set by the uploader when it is done with the only
\* upload of the file, not before.  Unless wal_complete has failed, the upload
\* is not done again.
UploadsPending ==
    /\ \A c \in Clients : pc[c] \in RowLabels => S3 \notin bitmask[path[c]]
    /\ \A f \in Files \ lapsed, e \in wal :
         e.op = UploadS3 /\ e.fid = rowid[f] /\ S3 \in bitmask[f] =>
             pc[Uploader] = "u_done" /\ e \in entry
    /\ pc[Uploader] \in HandLabels \ {"u_done"} =>
         S3 \notin bitmask[path[Uploader]] \/ path[Uploader] \in lapsed

Uploaded(f) == HasRow(f) /\ S3 \in bitmask[f]

\* The first replay leaves nothing queued: what database errors leave behind is
\* uploaded.
LapsedUploaded == \A f \in lapsed : Uploaded(f)

\* S3 holds an object once the bit is set, with the recorded content unless an
\* upload is done again; until then the local tier holds it.
CopyInv ==
    /\ \A f \in Files : Uploaded(f) =>
         Holds(S3, f) /\ (f \in lapsed \/ store[S3][f] = sha[f])
    /\ \A f \in Files : HasRow(f) /\ ~Uploaded(f) =>
         Local \in bitmask[f] /\ store[Local][f] = sha[f] /\ openers[f] = {}
    /\ pc[Uploader] = "data" =>
         /\ buf[Uploader] # Absent
         /\ path[Uploader] \in lapsed \/ buf[Uploader] = sha[path[Uploader]]
    /\ pc[Uploader] = "u_bits" =>
         /\ Holds(S3, path[Uploader])
         /\ path[Uploader] \in lapsed \/ store[S3][path[Uploader]] = sha[path[Uploader]]

\* The handle of a write, and what it leaves.
HandleInv ==
    /\ \A f \in Files : writes[f] = 0 => openers[f] = {}
    /\ \A c \in Clients : pc[c] = "w_fill" => openers[path[c]] = {c} /\ path[c] \notin mixing
    /\ \A c \in Clients : pc[c] = "w_upsert" =>
         openers[path[c]] = {} /\ store[Local][path[c]] = buf[c]

FirstRunInv == FirstRun => NoNas /\ UploadsPending /\ LapsedUploaded /\ CopyInv /\ HandleInv
-----------------------------------------------------------------------------
(* Frames: what a step of one process leaves alone *)

\* The daemon's tasks are four processes, none of them a request handler.
LEMMA TaskNames ==
    /\ {Uploader, Promoter, Evictor, Replayer} \subseteq Procs \ Clients
    /\ Uploader # Promoter /\ Uploader # Evictor /\ Uploader # Replayer
    /\ Promoter # Evictor /\ Promoter # Replayer /\ Evictor # Replayer
  BY ProcAssumption DEF Procs, Uploader, Promoter, Evictor, Replayer

\* The local variables of every process but p.
Others(p) == \A q \in Procs \ {p} :
    /\ pc'[q] = pc[q] /\ path'[q] = path[q] /\ buf'[q] = buf[q]
    /\ rbm'[q] = rbm[q] /\ fbm'[q] = fbm[q] /\ fid'[q] = fid[q]

\* Leaving an operation.
LEMMA ReturnFrame ==
    ASSUME ProcTypeOK, NEW p \in Procs, NEW l, Return(p, l)
    PROVE  Others(p) /\ pc'[p] = l /\ path'[p] = Root /\ rbm'[p] = {} /\ fbm'[p] = {}
  BY DEF ProcTypeOK, Return, Goto, Others

\* A step of a read, by any process.
LEMMA ReadFrame ==
    ASSUME ProcTypeOK, NEW p \in Procs, ReadMeta(p) \/ ReadLocal(p) \/ ReadCold(p)
    PROVE  /\ Others(p)
           /\ pc[p] \in {"r_meta", "r_local", "r_cold"}
           /\ pc'[p] \in {"r_local", "r_cold", "data", "error"}
           /\ path'[p] = path[p] /\ fid'[p] = fid[p] /\ fbm'[p] = fbm[p]
           /\ UNCHANGED <<metaVars, storeVars, acked, writes, deletes>>
  <1> USE DEF ProcTypeOK, Others, Goto
  <1>1. CASE ReadMeta(p)
    BY <1>1 DEF ReadMeta, boundVars, DbFault
  <1>2. CASE ReadLocal(p)
    BY <1>2 DEF ReadLocal
  <1>3. CASE ReadCold(p)
    BY <1>3 DEF ReadCold
  <1> QED  BY <1>1, <1>2, <1>3

\* A step of a request.
LEMMA ClientFrame ==
    ASSUME ProcTypeOK, NEW c \in Clients,
           \/ \E f \in Files : \/ \E d \in Data : BeginWrite(c, f, d)
                              \/ BeginRead(c, f) \/ BeginDelete(c, f)
           \/ ClientStep(c) \/ Abort(c)
    PROVE  Others(c)
  <1> c \in Procs
    BY ClientsAreProcs
  <1>1. CASE \E f \in Files : \/ \E d \in Data : BeginWrite(c, f, d)
                           \/ BeginRead(c, f) \/ BeginDelete(c, f)
    BY <1>1 DEF BeginWrite, BeginRead, BeginDelete, ProcTypeOK, Others, Goto
  <1>2. CASE Abort(c)
    BY <1>2, ReturnFrame DEF Abort
  <1>3. CASE WriteFill(c) \/ WriteUpsert(c) \/ WriteParents(c) \/ WriteRoot(c)
    BY <1>3 DEF WriteFill, WriteUpsert, WriteParents, WriteRoot, ProcTypeOK, Others, Goto
  <1>4. CASE WriteEnqueueNas(c) \/ WriteEnqueueS3(c) \/ Reply(c) \/ DeleteMeta(c)
    <2>1. CASE Return(c, "idle")
      BY <2>1, ReturnFrame
    <2>2. CASE Goto(c, "w_s3") /\ UNCHANGED <<path, buf, rbm, fbm, fid>>
      BY <2>2 DEF ProcTypeOK, Others, Goto
    <2> QED  BY <1>4, <2>1, <2>2 DEF WriteEnqueueNas, WriteEnqueueS3, Reply, DeleteMeta
  <1>5. CASE ReadMeta(c) \/ ReadLocal(c) \/ ReadCold(c)
    BY <1>5, ReadFrame
  <1>6. CASE DeleteFromTier(c)
    BY <1>6 DEF DeleteFromTier, ProcTypeOK, Others
  <1> QED  BY <1>1, <1>2, <1>3, <1>4, <1>5, <1>6 DEF ClientStep

\* A step of the uploader.
LEMMA UploadFrame ==
    ASSUME ProcTypeOK, Upload
    PROVE  Others(Uploader)
  <1> Uploader \in Procs
    BY TaskNames
  <1>1. CASE UploadLoad \/ UploadNext \/ UploadSkip \/ UploadEnd \/ UploadPut \/ UploadBits
    BY <1>1 DEF UploadLoad, UploadNext, UploadSkip, UploadEnd, UploadPut, UploadBits, S3Put,
           ProcTypeOK, Others, Goto, DbFault, localVars
  <1>2. CASE UploadComplete \/ UploadFail
    BY <1>2, ReturnFrame DEF UploadComplete, UploadFail, DbFault
  <1>3. CASE UploaderRead
    BY <1>3, ReadFrame DEF UploaderRead
  <1> QED  BY <1>1, <1>2, <1>3 DEF Upload, UploaderStep

\* A step of replay.
LEMMA ReplayFrame ==
    ASSUME ProcTypeOK, Replay
    PROVE  Others(Replayer)
  <1> Replayer \in Procs
    BY TaskNames
  <1>1. CASE \/ ReplayLoad \/ ReplayNext \/ ReplayEnd \/ ReplayGiveUp \/ ReplaySkip
             \/ ReplayLook \/ ReplayNasCreate \/ ReplayNasFill \/ ReplayPut \/ ReplayBits
    BY <1>1 DEF ReplayLoad, ReplayNext, ReplayEnd, ReplayGiveUp, ReplaySkip, ReplayLook,
           ReplayNasCreate, ReplayNasFill, ReplayPut, ReplayBits, S3Put, ProcTypeOK, Others, Goto,
           SkipEntry, DbFault
  <1>2. CASE ReplayComplete \/ ReplayFail
    BY <1>2, ReturnFrame DEF ReplayComplete, ReplayFail, SkipEntry, DbFault
  <1>3. CASE ReplayerRead
    BY <1>3, ReadFrame DEF ReplayerRead
  <1> QED  BY <1>1, <1>2, <1>3 DEF Replay, ReplayStep

\* A step of the evictor.
LEMMA EvictFrame ==
    ASSUME ProcTypeOK, Evict
    PROVE  Others(Evictor)
  <1> Evictor \in Procs
    BY TaskNames
  <1>1. CASE EvictScan \/ EvictEnd \/ EvictLookup
    BY <1>1 DEF EvictScan, EvictEnd, EvictLookup, ProcTypeOK, Others, Goto
  <1>2. CASE EvictDelete \/ EvictBits
    <2>1. CASE Return(Evictor, "e_next")
      BY <2>1, ReturnFrame
    <2>2. CASE Goto(Evictor, "e_bits") /\ UNCHANGED <<path, buf, rbm, fbm, fid>>
      BY <2>2 DEF ProcTypeOK, Others, Goto
    <2> QED  BY <1>2, <2>1, <2>2 DEF EvictDelete, EvictBits, DbFault
  <1> QED  BY <1>1, <1>2 DEF Evict, EvictStep

\* A step of the promoter.
LEMMA PromoteFrame ==
    ASSUME ProcTypeOK, Promote
    PROVE  Others(Promoter)
  <1> Promoter \in Procs
    BY TaskNames
  <1>1. CASE PromoteRecv \/ PromoteCreate
    BY <1>1 DEF PromoteRecv, PromoteCreate, ProcTypeOK, Others, Goto
  <1>2. CASE PromoteRead
    BY <1>2, ReadFrame DEF PromoteRead
  <1>3. CASE PromoteSkip \/ PromoteFill \/ PromoteMeta \/ PromoteBits \/ PromoteLost
    <2>1. CASE Return(Promoter, "idle")
      BY <2>1, ReturnFrame
    <2>2. CASE ~Return(Promoter, "idle")
      BY <1>3, <2>2 DEF PromoteSkip, PromoteFill, PromoteMeta, PromoteBits, PromoteLost, ProcTypeOK,
             Others, Goto, DbFault
    <2> QED  BY <2>1, <2>2
  <1> QED  BY <1>1, <1>2, <1>3 DEF Promote, PromoteStep
-----------------------------------------------------------------------------
(* Rows: a file is written by one request, and its row stays *)

\* No row or content changes, and no request starts to write.
RowQuiet ==
    /\ UNCHANGED <<rowid, sha, writes, deletes>>
    /\ \A p \in Paths : bitmask'[p] = bitmask[p] \/ HasRow(p)
    /\ \A c \in Clients :
         \/ pc'[c] \notin ClientLabels
         \/ /\ path'[c] = path[c] /\ fid'[c] = fid[c]
            /\ \/ pc'[c] = pc[c]
               \/ pc[c] = "w_fill" /\ pc'[c] = "w_upsert"
               \/ pc[c] \in RowLabels /\ pc'[c] \in RowLabels

\* Rows keep their ids, and those of files their contents.
RowsKept ==
    /\ \A p \in Paths : HasRow(p) => rowid'[p] = rowid[p] /\ HasRow(p)'
    /\ \A f \in Files : HasRow(f) => sha'[f] = sha[f]

\* Such a step keeps the row invariant.
LEMMA QuietRows ==
    ASSUME TypeInv, RowInv, RowQuiet
    PROVE  RowInv' /\ RowsKept
  <1>1. Unwritten'
    BY DEF RowInv, Unwritten, RowQuiet, ClientLabels, WriteLabels, RowLabels, HasRow
  <1>2. OneWriter'
    BY DEF RowInv, OneWriter, RowQuiet, ClientLabels, WriteLabels, RowLabels, HasRow
  <1>3. RowContent'
    BY DEF RowInv, RowContent, RowQuiet, HasRow, Paths
  <1> QED  BY <1>1, <1>2, <1>3 DEF RowInv, RowsKept, RowQuiet, HasRow, Paths

\* set_tier_bitmask only changes rows.
LEMMA BitmaskOfRows ==
    ASSUME MetadataTypeOK, NEW id, NEW bm, SetTierBitmask(id, bm)
    PROVE  /\ UNCHANGED <<rowid, sha, wal, lastRowid>>
           /\ \A p \in Paths : bitmask'[p] = IF HasRow(p) /\ rowid[p] = id THEN bm ELSE bitmask[p]
  BY DEF MetadataTypeOK, SetTierBitmask, PathsOf

\* The tasks and a crash.
LEMMA TasksQuiet ==
    ASSUME TypeInv, Upload \/ Replay \/ Evict \/ Promote \/ Crash \/ UNCHANGED vars
    PROVE  RowQuiet
  <1> USE DEF TypeInv, TypeOK, RouterTypeOK
  <1>1. UNCHANGED <<rowid, sha, writes, deletes>> /\ \A p \in Paths : bitmask'[p] = bitmask[p] \/ HasRow(p)
    <2>1. CASE Upload
      <3>1. CASE UploadBits
        BY <3>1, BitmaskOfRows DEF UploadBits, boundVars, DbFault, metaVars, fileVars
      <3>2. CASE UploaderRead
        BY <3>2, ReadFrame, TaskNames DEF UploaderRead, metaVars
      <3> QED  BY <2>1, <3>1, <3>2 DEF Upload, UploaderStep, UploadLoad, UploadNext, UploadSkip,
                  UploadEnd, UploadPut, UploadComplete, UploadFail, WalComplete, WalRecordFailure,
                  metaVars, boundVars, DbFault
    <2>2. CASE Replay
      <3>1. CASE ReplayBits
        BY <3>1, BitmaskOfRows DEF ReplayBits, boundVars, DbFault, metaVars, fileVars
      <3>2. CASE ReplayerRead
        BY <3>2, ReadFrame, TaskNames DEF ReplayerRead, metaVars
      <3> QED  BY <2>2, <3>1, <3>2 DEF Replay, ReplayStep, ReplayLoad, ReplayNext, ReplayEnd,
                  ReplayGiveUp, ReplaySkip, ReplayLook, ReplayNasCreate, ReplayNasFill, ReplayPut,
                  ReplayComplete, ReplayFail, WalComplete, WalRecordFailure, metaVars, boundVars,
                  SkipEntry, DbFault
    <2>3. CASE Evict
      <3>1. CASE EvictBits
        BY <3>1, BitmaskOfRows DEF EvictBits, boundVars, DbFault, metaVars, fileVars
      <3> QED  BY <2>3, <3>1 DEF Evict, EvictStep, EvictScan, EvictEnd, EvictLookup, EvictDelete,
                  metaVars, boundVars
    <2>4. CASE Promote
      <3>1. CASE PromoteBits
        BY <3>1, BitmaskOfRows DEF PromoteBits, boundVars
      <3>2. CASE PromoteRead
        BY <3>2, ReadFrame, TaskNames DEF PromoteRead, metaVars
      <3> QED  BY <2>4, <3>1, <3>2 DEF Promote, PromoteStep, PromoteRecv, PromoteSkip,
                  PromoteCreate, PromoteFill, PromoteMeta, PromoteLost, metaVars, boundVars, DbFault
    <2>5. CASE Crash \/ UNCHANGED vars
      BY <2>5 DEF Crash, vars, fileVars, metaVars, routerVars, boundVars
    <2> QED  BY <2>1, <2>2, <2>3, <2>4, <2>5
  <1>2. \A c \in Clients : \/ pc'[c] \notin ClientLabels
                           \/ pc'[c] = pc[c] /\ path'[c] = path[c] /\ fid'[c] = fid[c]
    <2>1. CASE Upload \/ Replay \/ Evict \/ Promote
      BY <2>1, TaskNames, ClientsAreProcs, UploadFrame, ReplayFrame, EvictFrame, PromoteFrame
         DEF Others
    <2>2. CASE Crash
      BY <2>2, ClientsAreProcs DEF Crash, Restarted, ClientLabels
    <2>3. CASE UNCHANGED vars
      BY <2>3 DEF vars, routerVars, localVars
    <2> QED  BY <2>1, <2>2, <2>3
  <1> QED  BY <1>1, <1>2 DEF RowQuiet

\* The steps of a request that neither start a write nor insert a row.
LEMMA RequestsQuiet ==
    ASSUME TypeInv, NEW c \in Clients,
           \/ \E f \in Files : BeginRead(c, f)
           \/ WriteFill(c) \/ WriteParents(c) \/ WriteEnqueueNas(c) \/ WriteEnqueueS3(c)
           \/ ReadMeta(c) \/ ReadLocal(c) \/ ReadCold(c) \/ Reply(c) \/ Abort(c)
    PROVE  RowQuiet
  <1> USE DEF TypeInv, TypeOK, RouterTypeOK
  <1> c \in Procs
    BY ClientsAreProcs
  <1>1. UNCHANGED <<rowid, sha, bitmask, writes, deletes>>
    <2>1. CASE ReadMeta(c) \/ ReadLocal(c) \/ ReadCold(c)
      BY <2>1, ReadFrame DEF metaVars
    <2> QED  BY <2>1 DEF BeginRead, WriteFill, WriteParents, WriteEnqueueNas, WriteEnqueueS3, Reply,
                Abort, WalEnqueue, fileVars, metaVars, boundVars
  <1>2. \/ pc'[c] \notin ClientLabels
        \/ /\ path'[c] = path[c] /\ fid'[c] = fid[c]
           /\ \/ pc[c] = "w_fill" /\ pc'[c] = "w_upsert"
              \/ pc[c] \in RowLabels /\ pc'[c] \in RowLabels
    <2>1. CASE ReadMeta(c) \/ ReadLocal(c) \/ ReadCold(c)
      BY <2>1, ReadFrame DEF ClientLabels
    <2>2. CASE Return(c, "idle")
      BY <2>2, ReturnFrame DEF ClientLabels
    <2>3. CASE (\E f \in Files : BeginRead(c, f)) \/ WriteFill(c) \/ WriteParents(c)
      BY <2>3 DEF BeginRead, WriteFill, WriteParents, ProcTypeOK, Goto, ClientLabels, RowLabels
    <2>4. CASE WriteEnqueueNas(c) /\ ~Return(c, "idle")
      BY <2>4 DEF WriteEnqueueNas, ProcTypeOK, Goto, RowLabels
    <2> QED  BY <2>1, <2>2, <2>3, <2>4 DEF WriteEnqueueS3, Reply, Abort
  <1>3. Others(c)
    BY ClientFrame DEF ClientStep
  <1> QED  BY <1>1, <1>2, <1>3, ClientsAreProcs DEF RowQuiet, Others

\* BeginWrite is the first and only write of its file.
LEMMA BeginWriteRows ==
    ASSUME WritesOnce, TypeInv, RowInv, NEW c \in Clients, NEW f \in Files, NEW d \in Data,
           BeginWrite(c, f, d)
    PROVE  RowInv' /\ RowsKept
  <1> USE DEF TypeInv, TypeOK, RouterTypeOK
  <1> c \in Procs
    BY ClientsAreProcs
  <1>1. writes[f] = 0 /\ writes'[f] = 1 /\ \A g \in Files \ {f} : writes'[g] = writes[g]
    BY DEF BeginWrite, WritesOnce, BoundTypeOK
  <1>2. pc'[c] = "w_fill" /\ path'[c] = f /\ Others(c)
    <2>1. Others(c)
      BY ClientFrame
    <2> QED  BY <2>1 DEF BeginWrite, ProcTypeOK, Goto
  <1>3. UNCHANGED <<rowid, sha, bitmask, deletes>>
    BY DEF BeginWrite, metaVars
  <1>4. Unwritten'
    BY <1>1, <1>2, <1>3, ClientsAreProcs DEF RowInv, Unwritten, Others, HasRow
  <1>5. OneWriter'
    BY <1>1, <1>2, <1>3, ClientsAreProcs DEF RowInv, Unwritten, OneWriter, Others, HasRow,
       WriteLabels, RowLabels
  <1> QED  BY <1>3, <1>4, <1>5 DEF RowInv, RowContent, RowsKept, HasRow, Paths

\* The writer inserts the row of its file and learns its id.
LEMMA WriteUpsertRows ==
    ASSUME TypeInv, RowInv, NEW c \in Clients, WriteUpsert(c)
    PROVE  /\ RowInv' /\ RowsKept
           /\ pc'[c] = "w_parents" /\ path'[c] = path[c] /\ fid'[c] = rowid'[path[c]]
           /\ ~HasRow(path[c]) /\ HasRow(path[c])' /\ \A q \in Paths : rowid[q] < rowid'[path[c]]
           /\ \A q \in Paths \ {path[c]} : /\ rowid'[q] = rowid[q] /\ bitmask'[q] = bitmask[q]
                                          /\ sha'[q] = sha[q]
           /\ bitmask'[path[c]] = {Local} /\ sha'[path[c]] = buf[c]
  <1> USE DEF TypeInv, TypeOK, RouterTypeOK
  <1>0. c \in Procs /\ path[c] \in Files /\ path[c] \in Paths /\ buf[c] \in Data
    BY ClientsAreProcs DEF PathInv, WriteUpsert, ClientLabels, Paths
  <1>1. ~HasRow(path[c])
    BY DEF RowInv, OneWriter, WriteUpsert
  <1>2. PICK n \in NextRowids({rowid[q] : q \in Paths}) :
           rowid' = [rowid EXCEPT ![path[c]] = n] /\ lastRowid' = n
    BY <1>1 DEF WriteUpsert, Upsert
  <1>3. n \in Nat \ {0} /\ \A q \in Paths : rowid[q] < n
    BY DEF NextRowids, MetadataTypeOK
  <1>4. rowid'[path[c]] = n /\ \A q \in Paths \ {path[c]} : rowid'[q] = rowid[q]
    BY <1>0, <1>2 DEF MetadataTypeOK
  <1>5. /\ bitmask'[path[c]] = {Local} /\ sha'[path[c]] = buf[c]
        /\ \A q \in Paths \ {path[c]} : bitmask'[q] = bitmask[q] /\ sha'[q] = sha[q]
    BY <1>0 DEF WriteUpsert, Upsert, MetadataTypeOK
  <1>6. pc[c] = "w_upsert" /\ pc'[c] = "w_parents" /\ path' = path /\ fid'[c] = n
    BY <1>0, <1>2 DEF WriteUpsert, ProcTypeOK, Goto
  <1>7. Others(c)
    BY ClientFrame DEF ClientStep
  <1>8. UNCHANGED <<writes, deletes>>
    BY DEF WriteUpsert, boundVars
  <1>9. Unwritten'
    <2>1. writes[path[c]] # 0
      BY <1>0, <1>6 DEF RowInv, Unwritten, WriteLabels
    <2> QED  BY <1>0, <1>4, <1>6, <1>7, <1>8, <2>1, ClientsAreProcs DEF RowInv, Unwritten, Others,
                HasRow, WriteLabels, Paths
  <1>10. OneWriter'
    <2>1. \A a \in Clients \ {c} : pc[a] \in WriteLabels => path[a] # path[c]
      BY <1>6 DEF RowInv, OneWriter, WriteLabels
    <2>2. \A a \in Clients : pc[a] \in WriteLabels => path[a] \in Paths
      BY DEF PathInv, WriteLabels, ClientLabels, Paths
    <2>3. \A a \in Clients \ {c} : pc'[a] = pc[a] /\ fid'[a] = fid[a]
      BY <1>7, ClientsAreProcs DEF Others
    <2>4. \A a, b \in Clients : pc'[a] \in WriteLabels /\ pc'[b] \in WriteLabels /\ path'[a] = path'[b] => a = b
      BY <1>6, <2>1, <2>3 DEF RowInv, OneWriter, WriteLabels
    <2>5. \A a \in Clients : pc'[a] \in {"w_fill", "w_upsert"} => ~HasRow(path[a])'
      BY <1>4, <1>6, <2>1, <2>2, <2>3 DEF RowInv, OneWriter, WriteLabels, HasRow
    <2>6. \A a \in Clients : pc'[a] \in RowLabels => HasRow(path[a])' /\ fid'[a] = rowid'[path'[a]]
      BY <1>3, <1>4, <1>6, <2>1, <2>2, <2>3 DEF RowInv, OneWriter, WriteLabels, RowLabels, HasRow
    <2> QED  BY <2>4, <2>5, <2>6 DEF OneWriter
  <1>11. RowContent'
    BY <1>0, <1>3, <1>4, <1>5 DEF RowInv, RowContent, HasRow, Paths
  <1>12. RowsKept
    BY <1>1, <1>4, <1>5 DEF RowsKept, HasRow, Paths
  <1> QED  BY <1>0, <1>1, <1>3, <1>4, <1>5, <1>6, <1>9, <1>10, <1>11, <1>12 DEF RowInv, HasRow

\* The root directory gets its row; files are not affected.
LEMMA WriteRootRows ==
    ASSUME TypeInv, RowInv, NEW c \in Clients, WriteRoot(c)
    PROVE  /\ RowInv' /\ RowsKept
           /\ \A f \in Files : rowid'[f] = rowid[f] /\ bitmask'[f] = bitmask[f] /\ sha'[f] = sha[f]
  <1> USE DEF TypeInv, TypeOK, RouterTypeOK
  <1>0. c \in Procs /\ Root \in Paths /\ Root \notin Files
    BY ClientsAreProcs, PathAssumption DEF Paths
  <1>1. \A f \in Files : rowid'[f] = rowid[f] /\ bitmask'[f] = bitmask[f] /\ sha'[f] = sha[f]
    BY <1>0 DEF WriteRoot, Upsert, MetadataTypeOK, Paths
  <1>2. HasRow(Root) => rowid'[Root] = rowid[Root]
    BY DEF WriteRoot, Upsert
  <1>3. HasRow(Root)'
    <2>1. CASE HasRow(Root)
      BY <1>2, <2>1 DEF HasRow
    <2>2. CASE ~HasRow(Root)
      <3>1. PICK n \in NextRowids({rowid[q] : q \in Paths}) : rowid' = [rowid EXCEPT ![Root] = n]
        BY <2>2 DEF WriteRoot, Upsert
      <3>2. n \in Nat \ {0}
        BY DEF NextRowids, MetadataTypeOK
      <3> QED  BY <1>0, <3>1, <3>2 DEF HasRow, MetadataTypeOK
    <2> QED  BY <2>1, <2>2
  <1>4. Others(c) /\ pc[c] = "w_root" /\ pc'[c] = "w_nas" /\ path' = path /\ fid' = fid
    <2>1. Others(c)
      BY ClientFrame DEF ClientStep
    <2> QED  BY <1>0, <2>1 DEF WriteRoot, ProcTypeOK, Goto
  <1>5. UNCHANGED <<writes, deletes>>
    BY DEF WriteRoot, boundVars
  <1>6. \A a \in Clients : pc'[a] = pc[a] \/ (pc[a] \in RowLabels /\ pc'[a] \in RowLabels)
    BY <1>4, ClientsAreProcs DEF Others, RowLabels
  <1>7. \A a \in Clients : pc[a] \in WriteLabels => path[a] \in Files
    BY DEF PathInv, WriteLabels, ClientLabels
  <1>8. Unwritten'
    BY <1>1, <1>4, <1>5, <1>6 DEF RowInv, Unwritten, HasRow, RowLabels, WriteLabels
  <1>9. OneWriter'
    BY <1>1, <1>4, <1>6, <1>7 DEF RowInv, OneWriter, HasRow, RowLabels, WriteLabels
  <1>10. RowContent' /\ RowsKept
    BY <1>1, <1>2, <1>3 DEF RowInv, RowContent, RowsKept, HasRow, Paths
  <1> QED  BY <1>1, <1>8, <1>9, <1>10 DEF RowInv

\* The row invariant is inductive, and rows stay.
LEMMA RowInvInit == Init => RowInv
  BY DEF Init, MetadataInit, RouterInit, ProcInit, Restarted, RowInv, Unwritten, OneWriter,
     RowContent, HasRow, Procs, WriteLabels, RowLabels, Paths

\* Every step keeps it, and every row.
LEMMA RowStep ==
    ASSUME WritesOnce, TypeInv, RowInv, [Next]_vars
    PROVE  RowInv' /\ RowsKept
  <1>1. ASSUME NEW c \in Clients, NEW f \in Files, BeginDelete(c, f) PROVE FALSE
    BY <1>1 DEF BeginDelete, WritesOnce, TypeInv, TypeOK, RouterTypeOK, BoundTypeOK
  <1>2. ASSUME NEW c \in Clients, DeleteFromTier(c) \/ DeleteMeta(c) PROVE FALSE
    BY <1>2 DEF DeleteFromTier, DeleteMeta, RowInv, Unwritten
  <1>3. ASSUME NEW c \in Clients, Request(c) PROVE RowInv' /\ RowsKept
    BY <1>1, <1>3, BeginWriteRows, RequestsQuiet, QuietRows DEF Request
  <1>4. ASSUME NEW c \in Clients, Handle(c) PROVE RowInv' /\ RowsKept
    BY <1>2, <1>4, WriteUpsertRows, WriteRootRows, RequestsQuiet, QuietRows DEF Handle, ClientStep
  <1>5. ASSUME NEW c \in Clients, Drop(c) PROVE RowInv' /\ RowsKept
    BY <1>5, RequestsQuiet, QuietRows DEF Drop
  <1>6. CASE Upload \/ Replay \/ Evict \/ Promote \/ Crash \/ UNCHANGED vars
    BY <1>6, TasksQuiet, QuietRows
  <1> QED  BY <1>3, <1>4, <1>5, <1>6 DEF Next
-----------------------------------------------------------------------------
(* WAL entries: every entry is of a file with a row, and snapshots stay current *)

\* wal_pending loses rows and counts attempts, and gets no new row.
WalShrinks == \A x \in wal' : \E y \in wal : y.id = x.id /\ y.fid = x.fid /\ y.op = x.op

\* A step that enqueues nothing keeps the entries tied to files.
LEMMA EntriesStay ==
    ASSUME RowsKept, WalShrinks, WalIntegrity', EntriesOfFiles,
           \A c \in Clients : pc'[c] \in RowLabels =>
               (pc[c] \in RowLabels /\ fid'[c] = fid[c]) \/ \A e \in wal : e.fid # fid'[c]
    PROVE  EntriesOfFiles'
  <1>1. ASSUME NEW x \in wal' PROVE IsFileId(x.fid)'
    <2>1. PICK y \in wal : y.fid = x.fid
      BY DEF WalShrinks
    <2>2. PICK f \in Files : HasRow(f) /\ rowid[f] = y.fid
      BY DEF EntriesOfFiles, IsFileId
    <2>3. HasRow(f)' /\ rowid'[f] = x.fid
      BY <2>1, <2>2 DEF RowsKept, Paths
    <2> QED  BY <2>3 DEF IsFileId
  <1>2. ASSUME NEW x \in wal', NEW z \in wal', x.op = UploadS3, z.op = UploadS3, x.fid = z.fid
        PROVE  x = z
    <2>1. PICK y \in wal : y.id = x.id /\ y.fid = x.fid /\ y.op = x.op
      BY DEF WalShrinks
    <2>2. PICK w \in wal : w.id = z.id /\ w.fid = z.fid /\ w.op = z.op
      BY DEF WalShrinks
    <2>3. y = w
      BY <1>2, <2>1, <2>2 DEF EntriesOfFiles
    <2> QED  BY <2>1, <2>2, <2>3 DEF WalIntegrity, WalIdsUnique
  <1>3. ASSUME NEW c \in Clients, NEW x \in wal', pc'[c] \in RowLabels, x.op = UploadS3
        PROVE  x.fid # fid'[c]
    <2>1. PICK y \in wal : y.fid = x.fid /\ y.op = x.op
      BY DEF WalShrinks
    <2> QED  BY <1>3, <2>1 DEF EntriesOfFiles
  <1> QED  BY <1>1, <1>2, <1>3 DEF EntriesOfFiles

\* wal_complete and wal_record_failure touch the entries with one id only.
LEMMA OneIdChanges ==
    ASSUME MetadataTypeOK, NEW id, WalComplete(id) \/ WalRecordFailure(id)
    PROVE  WalShrinks /\ \A y \in wal : y.id # id => y \in wal'
  <1>1. CASE WalComplete(id)
    BY <1>1 DEF WalComplete, WalShrinks
  <1>2. CASE WalRecordFailure(id)
    <2> DEFINE Bump(e) == IF e.id = id THEN [e EXCEPT !.attempts = @ + 1] ELSE e
    <2>1. wal' = {Bump(e) : e \in wal}
      BY <1>2 DEF WalRecordFailure
    <2>2. \A e \in wal : Bump(e).id = e.id /\ Bump(e).fid = e.fid /\ Bump(e).op = e.op
      BY DEF MetadataTypeOK, WalEntry
    <2>3. \A e \in wal : e.id # id => Bump(e) = e
      OBVIOUS
    <2> HIDE DEF Bump
    <2>4. \A y \in wal : y.id # id => y \in wal'
      BY <2>1, <2>3
    <2>5. ASSUME NEW x \in wal' PROVE \E y \in wal : y.id = x.id /\ y.fid = x.fid /\ y.op = x.op
      <3>1. PICK y \in wal : x = Bump(y)
        BY <2>1
      <3> QED  BY <2>2, <3>1
    <2> QED  BY <2>4, <2>5 DEF WalShrinks
  <1> QED  BY <1>1, <1>2

\* A step of a process that is no WAL worker and enqueues nothing.
EntryQuiet ==
    /\ UNCHANGED <<wal, todo, entry>>
    /\ \A p \in {Uploader, Replayer} : pc'[p] = pc[p] /\ path'[p] = path[p] /\ fid'[p] = fid[p]
    /\ \A c \in Clients : pc'[c] \in RowLabels =>
           (pc[c] \in RowLabels /\ fid'[c] = fid[c]) \/ \A e \in wal : e.fid # fid'[c]

\* A step that leaves the workers and their entries alone keeps the entry invariant.
LEMMA QuietEntries ==
    ASSUME RowsKept, WalIntegrity', EntryInv, EntryQuiet
    PROVE  EntryInv'
  <1>1. EntriesOfFiles'
    <2>1. WalShrinks
      BY DEF EntryQuiet, WalShrinks
    <2> QED  BY <2>1, EntriesStay DEF EntryInv, EntryQuiet
  <1>2. SnapshotCurrent'
    BY DEF EntryInv, EntryQuiet, SnapshotCurrent, Serving
  <1>3. InHand'
    BY DEF EntryInv, EntryQuiet, InHand, RowsKept, Paths
  <1> QED  BY <1>1, <1>2, <1>3 DEF EntryInv

\* Requests enqueue at most for the file they have written.
LEMMA RequestEntries ==
    ASSUME TypeInv, WalIntegrity, WalIntegrity', RowInv, RowInv', RowsKept, EntryInv,
           NEW c \in Clients, Request(c) \/ Handle(c) \/ Drop(c)
    PROVE  EntryInv'
  <1> USE DEF TypeInv, TypeOK, RouterTypeOK
  <1>0. c \in Procs
    BY ClientsAreProcs
  <1>1. Others(c)
    BY ClientFrame DEF Request, Handle, Drop
  <1>2. /\ \A p \in {Uploader, Replayer} : pc'[p] = pc[p] /\ path'[p] = path[p] /\ fid'[p] = fid[p]
        /\ \A a \in Clients \ {c} : pc'[a] = pc[a] /\ fid'[a] = fid[a]
    BY <1>1, TaskNames, ClientsAreProcs DEF Others
  <1>3. UNCHANGED <<todo, entry>>
    BY DEF Request, Handle, Drop, workVars, lapseVars
  <1>4. ASSUME wal' = wal,
               pc'[c] \in RowLabels => (pc[c] \in RowLabels /\ fid'[c] = fid[c]) \/ \A e \in wal : e.fid # fid'[c]
        PROVE  EntryInv'
    <2>1. EntryQuiet
      BY <1>2, <1>3, <1>4 DEF EntryQuiet
    <2> QED  BY <2>1, QuietEntries
  <1>5. ASSUME wal' = wal, pc'[c] \notin RowLabels PROVE EntryInv'
    BY <1>4, <1>5
  <1>6. CASE Request(c) \/ Drop(c) \/ WriteFill(c) \/ Reply(c)
    <2>1. wal' = wal
      BY <1>6 DEF Request, BeginWrite, BeginRead, BeginDelete, Drop, Abort, WriteFill, Reply, metaVars
    <2>2. pc'[c] \notin RowLabels
      BY <1>0, <1>6 DEF Request, BeginWrite, BeginRead, BeginDelete, Drop, Abort, WriteFill, Reply,
         Return, Goto, ProcTypeOK, RowLabels
    <2> QED  BY <1>5, <2>1, <2>2
  <1>7. CASE ReadMeta(c) \/ ReadLocal(c) \/ ReadCold(c)
    BY <1>0, <1>5, <1>7, ReadFrame DEF RowLabels, metaVars
  <1>8. CASE WriteUpsert(c)
    <2>1. fid'[c] = rowid'[path[c]] /\ \A q \in Paths : rowid[q] < rowid'[path[c]]
      BY <1>8, WriteUpsertRows
    <2>2. \A e \in wal : \E q \in Paths : rowid[q] = e.fid
      BY DEF WalIntegrity, WalRefsFiles, ForeignKeyOk, PathsOf
    <2>3. \A q \in Paths : rowid[q] \in Nat
      BY DEF MetadataTypeOK
    <2>4. \A e \in wal : e.fid # fid'[c]
      BY <2>1, <2>2, <2>3
    <2>5. wal' = wal
      BY <1>8 DEF WriteUpsert, Upsert
    <2> QED  BY <1>4, <2>4, <2>5
  <1>9. CASE WriteParents(c) \/ WriteRoot(c)
    <2>1. wal' = wal /\ pc[c] \in RowLabels /\ fid'[c] = fid[c]
      BY <1>9 DEF WriteParents, WriteRoot, Upsert, metaVars, RowLabels
    <2> QED  BY <1>4, <2>1
  <1>10. CASE WriteEnqueueNas(c) \/ WriteEnqueueS3(c)
    <2>1. pc[c] \in RowLabels /\ path[c] \in Files /\ HasRow(path[c]) /\ fid[c] = rowid[path[c]]
      BY <1>10 DEF WriteEnqueueNas, WriteEnqueueS3, RowInv, OneWriter, RowLabels, PathInv, ClientLabels
    <2>2. ForeignKeyOk(fid[c])
      BY <2>1 DEF ForeignKeyOk, PathsOf, Paths
    <2>3. PICK op \in WalOp : /\ WalEnqueue(fid[c], op)
                              /\ op = UploadS3 => pc'[c] = "idle"
                              /\ pc'[c] \in RowLabels => fid'[c] = fid[c]
      BY <1>0, <1>10, <2>2 DEF WriteEnqueueNas, WriteEnqueueS3, WalOp, Return, Goto, ProcTypeOK,
         RowLabels, UploadS3, ReplicateNas
    <2>4. PICK n : wal' = wal \cup {[id |-> n, fid |-> fid[c], op |-> op, attempts |-> 0]}
      BY <2>3 DEF WalEnqueue
    <2>5. UNCHANGED <<rowid, sha>>
      BY <2>3 DEF WalEnqueue, fileVars
    <2>6. PICK new : wal' = wal \cup {new} /\ new.fid = fid[c] /\ new.op = op
      <3>1. PICK r : r = [id |-> n, fid |-> fid[c], op |-> op, attempts |-> 0]
        OBVIOUS
      <3>2. r.fid = fid[c] /\ r.op = op
        BY <3>1
      <3> QED  BY <2>4, <3>1, <3>2
    <2>7. EntriesOfFiles'
      <3>1. \A e \in wal' : IsFileId(e.fid)'
        BY <2>1, <2>5, <2>6 DEF EntryInv, EntriesOfFiles, IsFileId, HasRow
      <3>2. \A e, x \in wal' : e.op = UploadS3 /\ x.op = UploadS3 /\ e.fid = x.fid => e = x
        BY <2>1, <2>6 DEF EntryInv, EntriesOfFiles
      <3>3. ASSUME NEW a \in Clients, NEW e \in wal', pc'[a] \in RowLabels, e.op = UploadS3
            PROVE  e.fid # fid'[a]
        <4>1. CASE a = c
          BY <2>1, <2>3, <2>6, <3>3, <4>1 DEF EntryInv, EntriesOfFiles, RowLabels
        <4>2. CASE a # c
          <5>1. pc[a] \in RowLabels /\ fid'[a] = fid[a]
            BY <1>2, <3>3, <4>2
          <5>2. path[a] # path[c] /\ fid[a] = rowid[path[a]] /\ path[a] \in Paths /\ HasRow(path[a])
            BY <2>1, <4>2, <5>1 DEF RowInv, OneWriter, RowLabels, WriteLabels, PathInv, ClientLabels, Paths
          <5>3. fid[a] # fid[c]
            BY <2>1, <5>2 DEF WalIntegrity, RowIdsUnique, Paths
          <5> QED  BY <2>6, <3>3, <5>1, <5>3 DEF EntryInv, EntriesOfFiles
        <4> QED  BY <4>1, <4>2
      <3> QED  BY <3>1, <3>2, <3>3 DEF EntriesOfFiles
    <2>8. SnapshotCurrent' /\ InHand'
      BY <1>2, <1>3, <2>5, <2>6 DEF EntryInv, SnapshotCurrent, InHand, Serving, HasRow
    <2> QED  BY <2>7, <2>8 DEF EntryInv
  <1>11. CASE DeleteFromTier(c) \/ DeleteMeta(c)
    BY <1>11 DEF DeleteFromTier, DeleteMeta, RowInv, Unwritten
  <1> QED  BY <1>6, <1>7, <1>8, <1>9, <1>10, <1>11 DEF Handle, ClientStep

\* Eviction and promotion have nothing to do with the WAL.
LEMMA MoverEntries ==
    ASSUME TypeInv, WorkInv, WalIntegrity', RowsKept, EntryInv, Evict \/ Promote
    PROVE  EntryInv'
  <1>1. Others(Evictor) \/ Others(Promoter)
    BY EvictFrame, PromoteFrame DEF TypeInv, TypeOK, RouterTypeOK
  <1>2. UNCHANGED <<wal, todo, entry>>
    BY DEF Evict, EvictStep, EvictScan, EvictEnd, EvictLookup, EvictDelete, EvictBits, Promote,
           PromoteStep, PromoteRecv, PromoteRead, PromoteSkip, PromoteCreate, PromoteFill,
           PromoteMeta, PromoteBits, PromoteLost, ReadMeta, ReadLocal, ReadCold, SetTierBitmask,
           metaVars, workVars, lapseVars, DbFault
  <1>3. EntryQuiet
    BY <1>1, <1>2, TaskNames, ClientsAreProcs DEF Others, EntryQuiet
  <1> QED  BY <1>3, QuietEntries

\* The file of an entry.
LEMMA EntryFile ==
    ASSUME TypeInv, WalIntegrity, EntryInv, NEW e \in wal
    PROVE  /\ PathsOf(e.fid) # {}
           /\ \A p \in PathsOf(e.fid) : p \in Files /\ HasRow(p) /\ rowid[p] = e.fid
  <1>1. PICK f \in Files : HasRow(f) /\ rowid[f] = e.fid
    BY DEF EntryInv, EntriesOfFiles, IsFileId
  <1>2. f \in PathsOf(e.fid)
    BY <1>1 DEF PathsOf, Paths
  <1>3. \A p \in PathsOf(e.fid) : p = f
    BY <1>1 DEF PathsOf, Paths, WalIntegrity, RowIdsUnique
  <1> QED  BY <1>1, <1>2, <1>3

\* A worker that completes or fails its entry leaves the rest of the snapshot.
LEMMA EntryLeaves ==
    ASSUME TypeInv, WorkInv, EntryInv, NEW e \in entry,
           WalComplete(e.id) \/ WalRecordFailure(e.id)
    PROVE  WalShrinks /\ todo \subseteq wal' /\ \A x \in todo : x.id # e.id
  <1>1. WalShrinks /\ \A y \in wal : y.id # e.id => y \in wal'
    BY OneIdChanges DEF TypeInv, TypeOK
  <1>2. \A x \in todo : x.id # e.id
    BY DEF WorkInv, SnapshotDistinct
  <1> QED  BY <1>1, <1>2 DEF EntryInv, SnapshotCurrent

\* The uploader.
LEMMA UploadEntries ==
    ASSUME TypeInv, WalIntegrity, WalIntegrity', WorkInv, RowsKept, EntryInv, Upload
    PROVE  EntryInv'
  <1> USE DEF TypeInv, TypeOK, RouterTypeOK
  <1>0. Uploader \in Procs /\ Replayer \in Procs /\ Uploader # Replayer
    BY TaskNames
  <1>1. Serving /\ pc'[Replayer] = "off" /\ Serving' /\ "off" \notin HandLabels
    BY UploadWhileServing DEF WorkInv, Serving, HandLabels
  <1>2. Others(Uploader)
    BY UploadFrame
  <1>3. ASSUME WalShrinks PROVE EntriesOfFiles'
    BY <1>2, <1>3, TaskNames, ClientsAreProcs, EntriesStay DEF Others, EntryInv
  <1>4. ASSUME wal' = wal PROVE EntriesOfFiles'
    BY <1>3, <1>4 DEF WalShrinks
  <1>5. ASSUME pc'[Uploader] \notin HandLabels, pc'[Uploader] # "u_drop" PROVE InHand'
    BY <1>1, <1>5 DEF InHand
  <1>6. CASE UploadLoad
    <2>1. wal' = wal /\ todo' = {e \in wal : Retriable(e)} /\ entry' = {}
      BY <1>1, <1>6 DEF UploadLoad, metaVars, WorkInv, WorkerPlace
    <2>2. SnapshotCurrent'
      BY <2>1 DEF SnapshotCurrent, Retriable
    <2>3. pc'[Uploader] = "u_next"
      BY <1>0, <1>6 DEF UploadLoad, Goto, ProcTypeOK
    <2> QED  BY <1>4, <1>5, <2>1, <2>2, <2>3 DEF EntryInv, HandLabels
  <1>7. CASE UploadNext
    <2>1. PICK e \in todo :
             /\ entry' = {e} /\ todo' = todo \ {e}
             /\ IF PathsOf(e.fid) = {}
                  THEN Goto(Uploader, "u_drop") /\ UNCHANGED <<path, fbm, fid>>
                  ELSE \E p \in PathsOf(e.fid) :
                         /\ path' = [path EXCEPT ![Uploader] = p]
                         /\ fbm' = [fbm EXCEPT ![Uploader] = bitmask[p]]
                         /\ fid' = [fid EXCEPT ![Uploader] = e.fid]
                         /\ Goto(Uploader, "r_meta")
      BY <1>7 DEF UploadNext, Oldest
    <2>2. wal' = wal /\ UNCHANGED <<rowid, sha, bitmask>>
      BY <1>7 DEF UploadNext, metaVars
    <2>3. SnapshotCurrent'
      BY <1>1, <2>1, <2>2 DEF EntryInv, SnapshotCurrent
    <2>4. e \in wal
      BY DEF EntryInv, SnapshotCurrent
    <2>5. PICK p \in PathsOf(e.fid) :
             /\ path' = [path EXCEPT ![Uploader] = p]
             /\ fid' = [fid EXCEPT ![Uploader] = e.fid]
             /\ Goto(Uploader, "r_meta")
      BY <2>1, <2>4, EntryFile
    <2>6. p \in Files /\ HasRow(p) /\ rowid[p] = e.fid
      BY <2>4, EntryFile
    <2>7. path'[Uploader] = p /\ fid'[Uploader] = e.fid /\ pc'[Uploader] = "r_meta"
      BY <1>0, <2>5 DEF Goto, ProcTypeOK
    <2>8. InHand'
      BY <1>1, <2>1, <2>2, <2>6, <2>7 DEF InHand, HasRow
    <2> QED  BY <1>4, <2>2, <2>3, <2>8 DEF EntryInv
  <1>11. CASE UploadSkip
    <2>1. UNCHANGED <<wal, entry, pc, path, fid, rowid>> /\ todo' \subseteq todo
      BY <1>11 DEF UploadSkip, DbFault, metaVars, fileVars, localVars
    <2>2. SnapshotCurrent'
      BY <1>1, <2>1 DEF EntryInv, SnapshotCurrent
    <2>3. InHand'
      BY <2>1 DEF EntryInv, InHand, HasRow
    <2> QED  BY <1>4, <2>1, <2>2, <2>3 DEF EntryInv
  <1>8. CASE UploadEnd
    <2>1. UNCHANGED <<wal, todo, entry>> /\ pc'[Uploader] = "idle"
      BY <1>0, <1>8 DEF UploadEnd, metaVars, workVars, lapseVars, Goto, ProcTypeOK
    <2>2. SnapshotCurrent'
      BY <1>1, <2>1 DEF EntryInv, SnapshotCurrent
    <2> QED  BY <1>4, <1>5, <2>1, <2>2 DEF EntryInv, HandLabels
  <1>9. CASE UploaderRead \/ UploadPut \/ UploadBits
    <2>1. UNCHANGED <<wal, todo, entry>>
      BY <1>9 DEF UploaderRead, UploadPut, UploadBits, ReadMeta, ReadLocal, ReadCold,
                  SetTierBitmask, metaVars, workVars, lapseVars, DbFault
    <2>2. /\ pc[Uploader] \in HandLabels /\ pc'[Uploader] # "u_drop"
          /\ path'[Uploader] = path[Uploader] /\ fid'[Uploader] = fid[Uploader]
      <3>1. CASE UploaderRead
        BY <1>0, <3>1, ReadFrame DEF UploaderRead, HandLabels
      <3>2. CASE UploadPut \/ UploadBits
        BY <1>0, <3>2 DEF UploadPut, UploadBits, S3Put, Goto, ProcTypeOK, HandLabels, DbFault
      <3> QED  BY <1>9, <3>1, <3>2
    <2>3. SnapshotCurrent'
      BY <1>1, <2>1 DEF EntryInv, SnapshotCurrent
    <2>4. InHand'
      BY <1>1, <2>1, <2>2 DEF EntryInv, InHand, RowsKept, Paths
    <2> QED  BY <1>4, <2>1, <2>3, <2>4 DEF EntryInv
  <1>10. CASE UploadComplete \/ UploadFail
    <2>2. WalShrinks /\ todo \subseteq wal'
      <3>1. CASE wal' = wal
        BY <3>1 DEF EntryInv, SnapshotCurrent, WalShrinks
      <3>2. CASE wal' # wal
        <4>1. PICK e \in entry : WalComplete(e.id) \/ WalRecordFailure(e.id)
          BY <1>10, <3>2 DEF UploadComplete, UploadFail, DbFault, metaVars
        <4> QED  BY <4>1, EntryLeaves
      <3> QED  BY <3>1, <3>2
    <2>3. todo' = todo /\ entry' = {} /\ pc'[Uploader] = "u_next"
      BY <1>0, <1>10, ReturnFrame DEF UploadComplete, UploadFail, DbFault
    <2>4. SnapshotCurrent'
      BY <1>1, <2>2, <2>3 DEF EntryInv, SnapshotCurrent
    <2> QED  BY <1>3, <1>5, <2>2, <2>3, <2>4 DEF EntryInv, HandLabels
  <1> QED  BY <1>6, <1>7, <1>8, <1>9, <1>10, <1>11 DEF Upload, UploaderStep

\* Replay.
LEMMA ReplayEntries ==
    ASSUME TypeInv, WalIntegrity, WalIntegrity', WorkInv, RowsKept, EntryInv, Replay
    PROVE  EntryInv'
  <1> USE DEF TypeInv, TypeOK, RouterTypeOK
  <1>0. Uploader \in Procs /\ Replayer \in Procs /\ Uploader # Replayer
    BY TaskNames
  <1>1. Others(Replayer)
    BY ReplayFrame
  <1>2. ~Serving /\ pc[Uploader] = "idle" /\ pc'[Uploader] = "idle" /\ "idle" \notin HandLabels
    <2>1. ~Serving
      BY DEF Replay, ReplayStep, ReplayLoad, ReplayNext, ReplayEnd, ReplayGiveUp, ReplaySkip,
             ReplayLook, ReplayerRead, ReplayNasCreate, ReplayNasFill, ReplayPut, ReplayBits,
             ReplayComplete, ReplayFail, ReadMeta, ReadLocal, ReadCold, Serving, SkipEntry, DbFault
    <2> QED  BY <1>0, <1>1, <2>1 DEF WorkInv, WorkerPlace, Others, HandLabels
  <1>3. ASSUME WalShrinks PROVE EntriesOfFiles'
    BY <1>1, <1>3, TaskNames, ClientsAreProcs, EntriesStay DEF Others, EntryInv
  <1>4. ASSUME wal' = wal PROVE EntriesOfFiles'
    BY <1>3, <1>4 DEF WalShrinks
  <1>5. ASSUME pc'[Replayer] \notin HandLabels PROVE InHand'
    BY <1>2, <1>5 DEF InHand
  <1>6. CASE ReplayLoad
    <2>1. wal' = wal /\ todo' \subseteq wal /\ entry' = {} /\ pc'[Replayer] = "y_next"
      BY <1>0, <1>2, <1>6 DEF ReplayLoad, metaVars, WorkInv, WorkerPlace, Goto, ProcTypeOK,
         DbFault, EntryInv, SnapshotCurrent
    <2>2. SnapshotCurrent'
      BY <2>1 DEF SnapshotCurrent, Serving
    <2> QED  BY <1>4, <1>5, <2>1, <2>2 DEF EntryInv, HandLabels
  <1>7. CASE ReplayNext \/ ReplayGiveUp \/ ReplaySkip \/ ReplayEnd
    <2>1. wal' = wal /\ todo' \subseteq todo /\ entry' \subseteq todo \cup entry
      BY <1>7 DEF ReplayNext, ReplayGiveUp, ReplaySkip, ReplayEnd, Oldest, metaVars, SkipEntry,
         DbFault
    <2>2. pc'[Replayer] \in {"y_look", "y_next", "off"}
      BY <1>0, <1>7 DEF ReplayNext, ReplayGiveUp, ReplaySkip, ReplayEnd, Goto, ProcTypeOK
    <2>3. Serving' => todo' = {} /\ entry' = {}
      BY <1>0, <1>2, <1>7 DEF ReplayNext, ReplayGiveUp, ReplaySkip, ReplayEnd, Goto, ProcTypeOK,
         Serving, WorkInv, WorkerPlace
    <2>4. SnapshotCurrent'
      BY <2>1, <2>3 DEF EntryInv, SnapshotCurrent
    <2> QED  BY <1>4, <1>5, <2>1, <2>2, <2>4 DEF EntryInv, HandLabels
  <1>8. CASE ReplayLook
    <2>1. PICK e \in entry :
             IF PathsOf(e.fid) = {}
               THEN Goto(Replayer, "y_done") /\ UNCHANGED <<path, fbm, fid>>
               ELSE /\ Goto(Replayer, IF e.op = ReplicateNas THEN "y_nas" ELSE "r_meta")
                    /\ \E p \in PathsOf(e.fid) :
                         /\ path' = [path EXCEPT ![Replayer] = p]
                         /\ fbm' = [fbm EXCEPT ![Replayer] = bitmask[p]]
                         /\ fid' = [fid EXCEPT ![Replayer] = e.fid]
      BY <1>8 DEF ReplayLook
    <2>2. UNCHANGED <<rowid, wal, todo, entry>>
      BY <1>8 DEF ReplayLook, metaVars, workVars, lapseVars
    <2>3. (\E x \in wal : x.fid = e.fid) /\ \A x \in entry : x = e
      BY DEF EntryInv, SnapshotCurrent, WorkInv, SnapshotDistinct
    <2>4. PICK p \in PathsOf(e.fid) :
             /\ path' = [path EXCEPT ![Replayer] = p]
             /\ fid' = [fid EXCEPT ![Replayer] = e.fid]
             /\ Goto(Replayer, IF e.op = ReplicateNas THEN "y_nas" ELSE "r_meta")
      BY <2>1, <2>3, EntryFile
    <2>5. p \in Files /\ HasRow(p) /\ rowid[p] = e.fid
      BY <2>3, EntryFile
    <2>6. path'[Replayer] = p /\ fid'[Replayer] = e.fid /\ pc'[Replayer] \in {"y_nas", "r_meta"}
      BY <1>0, <2>4 DEF Goto, ProcTypeOK
    <2>7. InHand'
      BY <1>2, <2>2, <2>3, <2>5, <2>6 DEF InHand, HasRow
    <2>8. SnapshotCurrent'
      BY <2>2, <2>6 DEF EntryInv, SnapshotCurrent, Serving
    <2> QED  BY <1>4, <2>2, <2>7, <2>8 DEF EntryInv
  <1>9. CASE ReplayerRead \/ ReplayNasCreate \/ ReplayNasFill \/ ReplayPut \/ ReplayBits
    <2>1. UNCHANGED <<wal, todo, entry>>
      BY <1>9 DEF ReplayerRead, ReplayNasCreate, ReplayNasFill, ReplayPut, ReplayBits, ReadMeta,
         ReadLocal, ReadCold, SetTierBitmask, metaVars, workVars, lapseVars, DbFault
    <2>2. /\ pc[Replayer] \in HandLabels /\ pc'[Replayer] # "off"
          /\ path'[Replayer] = path[Replayer] /\ fid'[Replayer] = fid[Replayer]
      <3>1. CASE ReplayerRead
        BY <1>0, <3>1, ReadFrame DEF ReplayerRead, HandLabels
      <3>2. CASE ReplayNasCreate \/ ReplayNasFill \/ ReplayPut \/ ReplayBits
        BY <1>0, <3>2 DEF ReplayNasCreate, ReplayNasFill, ReplayPut, ReplayBits, S3Put, Goto,
           ProcTypeOK, HandLabels, DbFault
      <3> QED  BY <1>9, <3>1, <3>2
    <2>3. SnapshotCurrent'
      BY <2>1, <2>2 DEF EntryInv, SnapshotCurrent, Serving
    <2>4. InHand'
      BY <1>2, <2>1, <2>2 DEF EntryInv, InHand, RowsKept, Paths
    <2> QED  BY <1>4, <2>1, <2>3, <2>4 DEF EntryInv
  <1>10. CASE ReplayComplete
    <2>2. WalShrinks /\ todo \subseteq wal'
      <3>1. CASE wal' = wal
        BY <3>1 DEF EntryInv, SnapshotCurrent, WalShrinks
      <3>2. CASE wal' # wal
        <4>1. PICK e \in entry : WalComplete(e.id)
          BY <1>10, <3>2 DEF ReplayComplete, SkipEntry, DbFault, metaVars
        <4> QED  BY <4>1, EntryLeaves
      <3> QED  BY <3>1, <3>2
    <2>3. todo' = todo /\ entry' = {} /\ pc'[Replayer] = "y_next"
      BY <1>0, <1>10, ReturnFrame DEF ReplayComplete, SkipEntry, DbFault
    <2>4. SnapshotCurrent'
      BY <2>2, <2>3 DEF EntryInv, SnapshotCurrent, Serving
    <2> QED  BY <1>3, <1>5, <2>2, <2>3, <2>4 DEF EntryInv, HandLabels
  <1>11. CASE ReplayFail
    <2>1. PICK e \in entry : /\ WalRecordFailure(e.id) \/ wal' = wal
                            /\ entry' = {[e EXCEPT !.attempts = @ + 1]}
      BY <1>11 DEF ReplayFail, SkipEntry, DbFault, metaVars
    <2>2. WalShrinks /\ todo \subseteq wal'
      BY <2>1, EntryLeaves DEF EntryInv, SnapshotCurrent, WalShrinks
    <2>3. todo' = todo /\ pc'[Replayer] = "y_look"
      BY <1>0, <1>11, ReturnFrame DEF ReplayFail
    <2>4. \A y \in entry' : \E x \in wal' : x.id = y.id /\ x.fid = y.fid /\ x.op = y.op
      <3>1. PICK x \in wal : x.id = e.id /\ x.fid = e.fid /\ x.op = e.op
        BY DEF EntryInv, SnapshotCurrent
      <3>2. PICK y : y = [e EXCEPT !.attempts = @ + 1]
        OBVIOUS
      <3>3. entry' = {y} /\ y.id = e.id /\ y.fid = e.fid /\ y.op = e.op
        BY <2>1, <3>2 DEF WorkTypeOK, WalEntry
      <3>4. CASE WalRecordFailure(e.id)
        <4>1. wal' = {IF z.id = e.id THEN [z EXCEPT !.attempts = @ + 1] ELSE z : z \in wal}
          BY <3>4 DEF WalRecordFailure
        <4>2. PICK z : z = IF x.id = e.id THEN [x EXCEPT !.attempts = @ + 1] ELSE x
          OBVIOUS
        <4>3. z \in wal'
          BY <4>1, <4>2
        <4>4. z.id = x.id /\ z.fid = x.fid /\ z.op = x.op
          BY <4>2 DEF MetadataTypeOK, WalEntry
        <4> QED  BY <3>1, <3>3, <4>3, <4>4
      <3> QED  BY <2>1, <3>1, <3>3, <3>4
    <2>5. SnapshotCurrent'
      BY <2>2, <2>3, <2>4 DEF SnapshotCurrent, Serving
    <2> QED  BY <1>3, <1>5, <2>2, <2>3, <2>5 DEF EntryInv, HandLabels
  <1> QED  BY <1>6, <1>7, <1>8, <1>9, <1>10, <1>11 DEF Replay, ReplayStep

\* No table, no entries.
LEMMA EntryInvInit == Init => EntryInv
  BY TaskNames DEF Init, MetadataInit, RouterInit, ProcInit, Restarted, WorkInit, EntryInv,
     EntriesOfFiles, SnapshotCurrent, InHand, HandLabels

\* The entry invariant is inductive, given that rows stay.
LEMMA EntryStep ==
    ASSUME TypeInv, WalIntegrity, WalIntegrity', WorkInv, RowInv, RowInv', RowsKept, EntryInv,
           [Next]_vars
    PROVE  EntryInv'
  <1>1. CASE \E c \in Clients : Request(c) \/ Handle(c) \/ Drop(c)
    BY <1>1, RequestEntries
  <1>2. CASE Upload \/ Replay \/ Evict \/ Promote
    BY <1>2, UploadEntries, ReplayEntries, MoverEntries
  <1>3. CASE Crash
    <2>1. wal' = wal /\ todo' = {} /\ entry' = {} /\ pc' = Restarted
      BY <1>3 DEF Crash
    <2>2. \A p \in Procs : pc'[p] \in {"idle", "y_load"}
      BY <2>1 DEF Restarted
    <2>3. SnapshotCurrent' /\ InHand'
      BY <2>1, <2>2, TaskNames DEF SnapshotCurrent, InHand, HandLabels
    <2>4. EntriesOfFiles'
      BY <2>1, <2>2, EntriesStay, ClientsAreProcs DEF WalShrinks, EntryInv, RowLabels
    <2> QED  BY <2>3, <2>4 DEF EntryInv
  <1>4. CASE UNCHANGED vars
    <2>1. EntryQuiet
      BY <1>4 DEF vars, metaVars, workVars, lapseVars, routerVars, localVars, EntryQuiet
    <2> QED  BY <2>1, QuietEntries
  <1> QED  BY <1>1, <1>2, <1>3, <1>4 DEF Next
-----------------------------------------------------------------------------
(* Bits: no task's write of an older bitmask takes the S3 bit away *)

BaseInv == TypeInv /\ WalIntegrity /\ WorkInv /\ RowInv /\ EntryInv

\* The S3 bit stays; it does not change on a settled file; and a step that
\* leaves the daemon serving puts the NAS bit on settled files only.  Files that
\* a database error has left with an upload queued are exempt after a restart.
BitsKept == \A f \in Files : S3 \in bitmask[f] => S3 \in bitmask'[f] \/ Loose(f)

SettledFixed ==
    Serving => \A f \in Files : Settled(f) /\ S3 \in bitmask'[f] => S3 \in bitmask[f] \/ Loose(f)

NasSettled ==
    Serving => \A f \in Files : Nas \in bitmask'[f] =>
        Nas \in bitmask[f] \/ S3 \in bitmask'[f] \/ Settled(f)

\* set_tier_bitmask with the id of a file writes the bits of that file.
LEMMA BitmaskOfFile ==
    ASSUME TypeInv, WalIntegrity, NEW f \in Paths, HasRow(f), NEW id, id = rowid[f], NEW bm,
           SetTierBitmask(id, bm)
    PROVE  /\ bitmask'[f] = bm /\ UNCHANGED <<rowid, sha, wal, lastRowid>>
           /\ \A p \in Paths \ {f} : bitmask'[p] = bitmask[p]
  BY BitmaskOfRows DEF TypeInv, TypeOK, WalIntegrity, RowIdsUnique

\* Replay runs alone; everything else runs after it.
LEMMA WhoRuns ==
    ASSUME TypeInv, WorkInv
    PROVE  /\ Replay => ~Serving
           /\ Upload \/ Evict \/ Promote => Serving /\ Serving' /\ pc'[Replayer] = "off"
           /\ \A c \in Clients : Request(c) \/ Handle(c) \/ Drop(c)
                  => Serving /\ Serving' /\ pc'[Replayer] = "off"
  <1>1. Replay => ~Serving
    BY DEF Replay, ReplayStep, ReplayLoad, ReplayNext, ReplayEnd, ReplayGiveUp, ReplaySkip,
           ReplayLook, ReplayerRead, ReplayNasCreate, ReplayNasFill, ReplayPut, ReplayBits,
           ReplayComplete, ReplayFail, ReadMeta, ReadLocal, ReadCold, Serving, SkipEntry, DbFault
  <1>2. WorkerPlace
    BY DEF WorkInv
  <1> QED  BY <1>1, <1>2, UploadWhileServing, TaskStepsElsewhere, ClientStepsElsewhere
              DEF Elsewhere, Serving

\* The bits a step can write, action by action.
LEMMA UploadBitsWritten ==
    ASSUME BaseInv, UploadBits, bitmask' # bitmask
    PROVE  /\ path[Uploader] \in Files /\ HasRow(path[Uploader])
           /\ bitmask'[path[Uploader]] = fbm[Uploader] \cup {S3}
           /\ \A p \in Paths \ {path[Uploader]} : bitmask'[p] = bitmask[p]
  <1>1. /\ path[Uploader] \in Files /\ HasRow(path[Uploader])
        /\ fid[Uploader] = rowid[path[Uploader]]
    BY DEF BaseInv, UploadBits, EntryInv, InHand, HandLabels, DbFault
  <1>2. PICK f \in Paths : f = path[Uploader]
    BY <1>1 DEF Paths
  <1>3. SetTierBitmask(fid[Uploader], fbm[Uploader] \cup {S3})
    BY DEF UploadBits, DbFault, metaVars, fileVars
  <1>4. bitmask'[f] = fbm[Uploader] \cup {S3} /\ \A p \in Paths \ {f} : bitmask'[p] = bitmask[p]
    BY <1>1, <1>2, <1>3, BitmaskOfFile DEF BaseInv
  <1> QED  BY <1>1, <1>2, <1>4

\* Replay adds the tier of its entry to the bits of its file.
LEMMA ReplayBitsWritten ==
    ASSUME BaseInv, WorkerBits, ReplayBits, bitmask' # bitmask
    PROVE  /\ path[Replayer] \in Files /\ HasRow(path[Replayer])
           /\ \E e \in entry :
                bitmask'[path[Replayer]] = bitmask[path[Replayer]] \cup {TargetTier(e.op)}
           /\ \A p \in Paths \ {path[Replayer]} : bitmask'[p] = bitmask[p]
  <1>1. /\ path[Replayer] \in Files /\ HasRow(path[Replayer])
        /\ fid[Replayer] = rowid[path[Replayer]] /\ fbm[Replayer] = bitmask[path[Replayer]]
    BY DEF BaseInv, WorkerBits, ReplayBits, EntryInv, InHand, HandLabels, DbFault
  <1>2. PICK e \in entry : SetTierBitmask(fid[Replayer], fbm[Replayer] \cup {TargetTier(e.op)})
    BY DEF ReplayBits, DbFault, metaVars, fileVars
  <1>3. PICK f \in Paths : f = path[Replayer]
    BY <1>1 DEF Paths
  <1>4. /\ bitmask'[f] = fbm[Replayer] \cup {TargetTier(e.op)}
        /\ \A p \in Paths \ {f} : bitmask'[p] = bitmask[p]
    <2>1. TypeInv /\ WalIntegrity /\ HasRow(f) /\ fid[Replayer] = rowid[f]
      BY <1>1, <1>3 DEF BaseInv
    <2> QED  BY <1>2, <2>1, BitmaskOfFile
  <1> QED  BY <1>1, <1>3, <1>4

\* The evictor writes back the bits of an uploaded file, or one that lost its S3
\* bit, without its tier.
LEMMA EvictBitsWritten ==
    ASSUME BaseInv, Movers, EvictBits, bitmask' # bitmask
    PROVE  /\ path[Evictor] \in Files /\ HasRow(path[Evictor])
           /\ S3 \in bitmask[path[Evictor]] \/ Loose(path[Evictor])
           /\ bitmask'[path[Evictor]] = fbm[Evictor] \ {etier} /\ S3 \in bitmask'[path[Evictor]]
           /\ \A p \in Paths \ {path[Evictor]} : bitmask'[p] = bitmask[p]
  <1>1. /\ path[Evictor] \in Files /\ HasRow(path[Evictor])
        /\ S3 \in bitmask[path[Evictor]] \/ Loose(path[Evictor])
        /\ fid[Evictor] = rowid[path[Evictor]] /\ S3 \in fbm[Evictor]
    BY DEF Movers, EvictBits
  <1>2. S3 # etier
    BY DEF BaseInv, TypeInv, TypeOK, EvictTypeOK, S3, Local, Nas
  <1>3. PICK f \in Paths : f = path[Evictor]
    BY <1>1 DEF Paths
  <1>4. SetTierBitmask(fid[Evictor], fbm[Evictor] \ {etier})
    BY DEF EvictBits, DbFault, metaVars, fileVars
  <1>5. bitmask'[f] = fbm[Evictor] \ {etier} /\ \A p \in Paths \ {f} : bitmask'[p] = bitmask[p]
    <2>1. TypeInv /\ WalIntegrity /\ HasRow(f) /\ fid[Evictor] = rowid[f]
      BY <1>1, <1>3 DEF BaseInv
    <2> QED  BY <1>4, <2>1, BitmaskOfFile
  <1> QED  BY <1>1, <1>2, <1>3, <1>5

\* The promoter writes back the bits of a settled file with the local one.
LEMMA PromoteBitsWritten ==
    ASSUME BaseInv, Movers, PromoteBits
    PROVE  /\ path[Promoter] \in Files /\ Settled(path[Promoter])
           /\ bitmask'[path[Promoter]] = fbm[Promoter] \cup {Local}
           /\ (S3 \in bitmask[path[Promoter]] <=> S3 \in fbm[Promoter]) \/ Loose(path[Promoter])
           /\ \A p \in Paths \ {path[Promoter]} : bitmask'[p] = bitmask[p]
  <1>1. /\ path[Promoter] \in Files /\ Settled(path[Promoter])
        /\ fid[Promoter] = rowid[path[Promoter]]
        /\ (S3 \in bitmask[path[Promoter]] <=> S3 \in fbm[Promoter]) \/ Loose(path[Promoter])
    BY DEF Movers, PromoteBits
  <1> QED  BY <1>1, BitmaskOfFile DEF BaseInv, PromoteBits, Paths, Settled

\* Every other step of a task leaves the bits alone.
LEMMA BitsUntouched ==
    ASSUME BaseInv, [Next]_vars,
           \A c \in Clients : ~WriteUpsert(c) /\ ~WriteRoot(c),
           ~UploadBits, ~ReplayBits, ~EvictBits, ~PromoteBits
    PROVE  bitmask' = bitmask
  <1> USE DEF metaVars, fileVars
  <1>1. ASSUME NEW c \in Clients, Request(c) \/ Handle(c) \/ Drop(c) PROVE bitmask' = bitmask
    BY <1>1 DEF Request, Handle, Drop, BeginWrite, BeginRead, BeginDelete, Abort, ClientStep,
       WriteFill, WriteParents, WriteEnqueueNas, WriteEnqueueS3, WalEnqueue, ReadMeta, ReadLocal,
       ReadCold, Reply, DeleteFromTier, DeleteMeta, BaseInv, RowInv, Unwritten, DbFault
  <1>2. CASE Upload
    BY <1>2 DEF Upload, UploaderStep, UploadLoad, UploadNext, UploadSkip, UploadEnd, UploaderRead,
       UploadPut, UploadComplete, UploadFail, WalComplete, WalRecordFailure, ReadMeta, ReadLocal,
       ReadCold, DbFault
  <1>3. CASE Replay
    BY <1>3 DEF Replay, ReplayStep, ReplayLoad, ReplayNext, ReplayEnd, ReplayGiveUp, ReplaySkip,
       ReplayLook, ReplayerRead, ReplayNasCreate, ReplayNasFill, ReplayPut, ReplayComplete,
       ReplayFail, WalComplete, WalRecordFailure, ReadMeta, ReadLocal, ReadCold, SkipEntry, DbFault
  <1>4. CASE Evict \/ Promote
    BY <1>4 DEF Evict, EvictStep, EvictScan, EvictEnd, EvictLookup, EvictDelete, Promote,
       PromoteStep, PromoteRecv, PromoteRead, PromoteSkip, PromoteCreate, PromoteFill, PromoteMeta,
       PromoteLost, ReadMeta, ReadLocal, ReadCold, DbFault
  <1>5. CASE Crash \/ UNCHANGED vars
    BY <1>5 DEF Crash, vars
  <1> QED  BY <1>1, <1>2, <1>3, <1>4, <1>5 DEF Next

\* What every step does to the S3 and NAS bits.
LEMMA BitsStep ==
    ASSUME BaseInv, WorkerBits, Movers, [Next]_vars
    PROVE  BitsKept /\ SettledFixed /\ NasSettled
  <1> USE DEF BitsKept, SettledFixed, NasSettled
  <1>0. TypeInv /\ RowInv /\ WorkInv /\ EntryInv /\ \A f \in Files : f \in Paths
    BY DEF BaseInv, Paths
  <1>1. ASSUME NEW c \in Clients, WriteUpsert(c) PROVE BitsKept /\ SettledFixed /\ NasSettled
    <2>1. ~HasRow(path[c]) /\ bitmask'[path[c]] = {Local}
          /\ \A q \in Paths \ {path[c]} : bitmask'[q] = bitmask[q]
      BY <1>0, <1>1, WriteUpsertRows
    <2>2. bitmask[path[c]] = {}
      BY <1>0, <2>1, ClientsAreProcs DEF RowInv, RowContent, TypeInv, TypeOK, RouterTypeOK, ProcTypeOK
    <2>3. S3 # Local /\ Nas # Local
      BY DEF S3, Nas, Local
    <2> QED  BY <1>0, <2>1, <2>2, <2>3
  <1>2. ASSUME NEW c \in Clients, WriteRoot(c) PROVE BitsKept /\ SettledFixed /\ NasSettled
    BY <1>0, <1>2, WriteRootRows
  <1>3. ASSUME UploadBits, bitmask' # bitmask PROVE BitsKept /\ SettledFixed /\ NasSettled
    <2>1. PICK g \in Files : g = path[Uploader]
      BY <1>3, UploadBitsWritten
    <2>2. HasRow(g) /\ S3 \in bitmask'[g] /\ \A p \in Paths \ {g} : bitmask'[p] = bitmask[p]
      BY <1>3, <2>1, UploadBitsWritten
    <2>3. Settled(g) => S3 \in bitmask[g] \/ Loose(g)
      <3>1. PICK e \in entry : e.fid = rowid[g]
        BY <1>0, <1>3, <2>1 DEF UploadBits, EntryInv, InHand, HandLabels, DbFault
      <3>2. Serving
        BY <1>0, <1>3, TaskNames DEF UploadBits, WorkInv, WorkerPlace, DbFault
      <3>3. e \in wal /\ e.op = UploadS3 /\ e.attempts < MAX_ATTEMPTS /\ e.attempts \in Nat
        BY <1>0, <3>2 DEF EntryInv, SnapshotCurrent, WorkInv, UploadSnapshot, TypeInv, TypeOK,
           WorkTypeOK, WalEntry
      <3> QED  BY <3>1, <3>3, AttemptsAssumption DEF Settled
    <2> QED  BY <1>0, <2>2, <2>3
  <1>4. ASSUME ReplayBits, bitmask' # bitmask PROVE BitsKept /\ SettledFixed /\ NasSettled
    <2>1. ~Serving
      BY <1>4 DEF ReplayBits, Serving, DbFault
    <2>2. PICK g \in Files : g = path[Replayer]
      BY <1>4, ReplayBitsWritten
    <2>3. bitmask[g] \subseteq bitmask'[g] /\ \A p \in Paths \ {g} : bitmask'[p] = bitmask[p]
      BY <1>4, <2>2, ReplayBitsWritten
    <2> QED  BY <1>0, <2>1, <2>3
  <1>5. ASSUME EvictBits, bitmask' # bitmask PROVE BitsKept /\ SettledFixed /\ NasSettled
    <2>1. PICK g \in Files : g = path[Evictor]
      BY <1>5, EvictBitsWritten
    <2>2. /\ S3 \in bitmask[g] \/ Loose(g)
          /\ S3 \in bitmask'[g] /\ \A p \in Paths \ {g} : bitmask'[p] = bitmask[p]
      BY <1>5, <2>1, EvictBitsWritten
    <2> QED  BY <1>0, <2>2
  <1>6. ASSUME PromoteBits PROVE BitsKept /\ SettledFixed /\ NasSettled
    <2>1. PICK g \in Files : g = path[Promoter]
      BY <1>6, PromoteBitsWritten
    <2>2. /\ Settled(g) /\ bitmask'[g] = fbm[Promoter] \cup {Local}
          /\ (S3 \in bitmask[g] <=> S3 \in fbm[Promoter]) \/ Loose(g)
          /\ \A p \in Paths \ {g} : bitmask'[p] = bitmask[p]
      BY <1>6, <2>1, PromoteBitsWritten
    <2>3. (S3 \in bitmask'[g] <=> S3 \in bitmask[g]) \/ Loose(g)
      BY <2>2 DEF S3, Local
    <2> QED  BY <1>0, <2>2, <2>3
  <1>7. CASE bitmask' = bitmask
    BY <1>7
  <1> QED  BY <1>1, <1>2, <1>3, <1>4, <1>5, <1>6, <1>7, BitsUntouched

\* A settled file stays settled: no step begins to write a file that has a
\* row, takes attempts back, or enqueues for a file it is not writing.
SettlesOn ==
    /\ FirstRun' => FirstRun
    /\ lapsed \subseteq lapsed'
    /\ \A c \in Clients, f \in Files :
         HasRow(f) /\ pc'[c] \in WriteLabels /\ path'[c] = f => pc[c] \in WriteLabels /\ path[c] = f
    /\ \A x \in wal' : x.op = UploadS3 =>
         \/ \E y \in wal : y.op = UploadS3 /\ y.fid = x.fid /\ x.attempts >= y.attempts
         \/ \E c \in Clients : /\ pc[c] \in WriteLabels /\ path[c] \in Files /\ HasRow(path[c])
                               /\ x.fid = rowid[path[c]]

\* A settled file stays settled.
LEMMA SettledStays ==
    ASSUME TypeInv, WalIntegrity, RowsKept, BitsKept, SettlesOn, TypeInv',
           NEW f \in Files, Settled(f)
    PROVE  Settled(f)'
  <1>1. HasRow(f)' /\ rowid'[f] = rowid[f]
    BY DEF RowsKept, Settled, Paths
  <1>2. CASE S3 \in bitmask[f] \/ Loose(f)
    <2>1. Loose(f) => Loose(f)'
      BY DEF SettlesOn, Loose
    <2> QED  BY <1>1, <1>2, <2>1 DEF BitsKept, Settled
  <1>3. CASE ~(S3 \in bitmask[f] \/ Loose(f))
    <2>1. /\ HasRow(f) /\ ~FirstRun
          /\ \A c \in Clients : pc[c] \in WriteLabels => path[c] # f
          /\ \A e \in wal : e.op = UploadS3 /\ e.fid = rowid[f] => e.attempts >= MAX_ATTEMPTS
      BY <1>3 DEF Settled
    <2>2. ~FirstRun' /\ \A c \in Clients : pc'[c] \in WriteLabels => path'[c] # f
      BY <2>1 DEF SettlesOn
    <2>3. ASSUME NEW x \in wal', x.op = UploadS3, x.fid = rowid'[f]
          PROVE  x.attempts >= MAX_ATTEMPTS
      <3>1. ASSUME NEW c \in Clients, pc[c] \in WriteLabels, path[c] \in Files, HasRow(path[c]),
                   x.fid = rowid[path[c]]
            PROVE  FALSE
        <4>1. path[c] = f
          BY <1>1, <2>1, <2>3, <3>1 DEF WalIntegrity, RowIdsUnique, Paths
        <4> QED  BY <2>1, <3>1, <4>1
      <3>2. PICK y \in wal : y.op = UploadS3 /\ y.fid = x.fid /\ x.attempts >= y.attempts
        BY <2>3, <3>1 DEF SettlesOn
      <3>3. y.attempts \in Nat /\ x.attempts \in Nat /\ MAX_ATTEMPTS \in Nat
        BY AttemptsAssumption DEF TypeInv, TypeOK, MetadataTypeOK, WalEntry
      <3>4. y.attempts >= MAX_ATTEMPTS
        BY <1>1, <2>1, <2>3, <3>2
      <3> QED  BY <3>2, <3>3, <3>4
    <2> QED  BY <1>1, <2>2, <2>3 DEF Settled
  <1> QED  BY <1>2, <1>3

\* wal_complete and wal_record_failure take no attempts back.
LEMMA AttemptsGrow ==
    ASSUME MetadataTypeOK, NEW id, WalComplete(id) \/ WalRecordFailure(id), NEW x \in wal'
    PROVE  \E y \in wal : y.op = x.op /\ y.fid = x.fid /\ x.attempts >= y.attempts
  <1>0. \A y \in wal : y.attempts \in Nat
    BY DEF MetadataTypeOK, WalEntry
  <1>1. CASE WalComplete(id)
    BY <1>0, <1>1 DEF WalComplete
  <1>2. CASE WalRecordFailure(id)
    <2>1. PICK y \in wal : x = IF y.id = id THEN [y EXCEPT !.attempts = @ + 1] ELSE y
      BY <1>2 DEF WalRecordFailure
    <2>2. x.op = y.op /\ x.fid = y.fid /\ x.attempts \in {y.attempts, y.attempts + 1}
      BY <2>1 DEF MetadataTypeOK, WalEntry
    <2> QED  BY <1>0, <2>2
  <1> QED  BY <1>1, <1>2

\* Where the entries of the next state come from.
LEMMA EntrySources ==
    ASSUME BaseInv, [Next]_vars, NEW x \in wal', x.op = UploadS3
    PROVE  \/ \E y \in wal : y.op = UploadS3 /\ y.fid = x.fid /\ x.attempts >= y.attempts
           \/ \E c \in Clients : /\ WriteEnqueueS3(c)
                                 /\ pc[c] \in WriteLabels /\ path[c] \in Files /\ HasRow(path[c])
                                 /\ x.fid = rowid[path[c]]
  <1>0. TypeInv /\ RowInv /\ MetadataTypeOK /\ \A y \in wal : y.attempts \in Nat
    BY DEF BaseInv, TypeInv, TypeOK, MetadataTypeOK, WalEntry
  <1>1. CASE wal' = wal
    BY <1>0, <1>1
  <1>2. ASSUME NEW id, WalComplete(id) \/ WalRecordFailure(id)
        PROVE  \E y \in wal : y.op = UploadS3 /\ y.fid = x.fid /\ x.attempts >= y.attempts
    BY <1>0, <1>2, AttemptsGrow
  <1>3. ASSUME NEW c \in Clients, Request(c) \/ Handle(c) \/ Drop(c)
        PROVE  \/ wal' = wal
               \/ WriteEnqueueNas(c) /\ WalEnqueue(fid[c], ReplicateNas)
               \/ WriteEnqueueS3(c) /\ WalEnqueue(fid[c], UploadS3)
    BY <1>0, <1>3 DEF Request, Handle, Drop, BeginWrite, BeginRead, BeginDelete, Abort, ClientStep,
       WriteFill, WriteUpsert, WriteParents, WriteRoot, Upsert, WriteEnqueueNas, WriteEnqueueS3,
       ReadMeta, ReadLocal, ReadCold, Reply, DeleteFromTier, DeleteMeta, RowInv, Unwritten,
       metaVars, DbFault
  <1>4. ASSUME NEW c \in Clients, NEW op, WalEnqueue(fid[c], op), x \notin wal
        PROVE  x.fid = fid[c] /\ x.op = op
    <2>1. PICK n : wal' = wal \cup {[id |-> n, fid |-> fid[c], op |-> op, attempts |-> 0]}
      BY <1>4 DEF WalEnqueue
    <2>2. x = [id |-> n, fid |-> fid[c], op |-> op, attempts |-> 0]
      BY <1>4, <2>1
    <2> QED  BY <2>2
  <1>5. ASSUME NEW c \in Clients, WriteEnqueueS3(c)
        PROVE  /\ pc[c] \in WriteLabels /\ path[c] \in Files /\ HasRow(path[c])
               /\ fid[c] = rowid[path[c]]
    BY <1>0, <1>5 DEF WriteEnqueueS3, WriteLabels, RowLabels, ClientLabels, TypeInv, PathInv, RowInv,
       OneWriter
  <1>6. ReplicateNas # UploadS3
    BY DEF ReplicateNas, UploadS3
  <1>7. CASE \E c \in Clients : Request(c) \/ Handle(c) \/ Drop(c)
    <2>1. PICK c \in Clients : Request(c) \/ Handle(c) \/ Drop(c)
      BY <1>7
    <2>2. CASE x \in wal
      BY <1>0, <2>2
    <2>3. CASE WriteEnqueueS3(c) /\ WalEnqueue(fid[c], UploadS3) /\ x \notin wal
      BY <1>4, <1>5, <2>3
    <2>4. CASE WalEnqueue(fid[c], ReplicateNas) /\ x \notin wal
      BY <1>4, <1>6, <2>4
    <2> QED  BY <1>1, <1>3, <2>1, <2>2, <2>3, <2>4
  <1>8. CASE Upload
    <2>1. CASE UploadComplete \/ UploadFail
      BY <1>1, <1>2, <2>1 DEF UploadComplete, UploadFail, DbFault, metaVars
    <2>2. CASE ~(UploadComplete \/ UploadFail)
      BY <1>1, <1>8, <2>2 DEF Upload, UploaderStep, UploadLoad, UploadNext, UploadSkip, UploadEnd,
         UploaderRead, UploadPut, UploadBits, ReadMeta, ReadLocal, ReadCold, SetTierBitmask,
         metaVars, DbFault
    <2> QED  BY <2>1, <2>2
  <1>9. CASE Replay
    <2>1. CASE ReplayComplete \/ ReplayFail
      BY <1>1, <1>2, <2>1 DEF ReplayComplete, ReplayFail, SkipEntry, DbFault, metaVars
    <2>2. CASE ~(ReplayComplete \/ ReplayFail)
      BY <1>1, <1>9, <2>2 DEF Replay, ReplayStep, ReplayLoad, ReplayNext, ReplayEnd, ReplayGiveUp,
         ReplaySkip, ReplayLook, ReplayerRead, ReplayNasCreate, ReplayNasFill, ReplayPut,
         ReplayBits, ReadMeta, ReadLocal, ReadCold, SetTierBitmask, metaVars, SkipEntry, DbFault
    <2> QED  BY <2>1, <2>2
  <1>10. CASE Evict \/ Promote \/ Crash \/ UNCHANGED vars
    BY <1>1, <1>10 DEF Evict, EvictStep, EvictScan, EvictEnd, EvictLookup, EvictDelete, EvictBits,
           Promote, PromoteStep, PromoteRecv, PromoteRead, PromoteSkip, PromoteCreate, PromoteFill,
           PromoteMeta, PromoteBits, PromoteLost, ReadMeta, ReadLocal, ReadCold, SetTierBitmask,
           Crash, vars, metaVars, DbFault
  <1> QED  BY <1>7, <1>8, <1>9, <1>10 DEF Next

\* No step begins to write a file that has a row.
LEMMA WritersStay ==
    ASSUME WritesOnce, BaseInv, [Next]_vars, NEW c \in Clients, NEW f \in Files, HasRow(f),
           pc'[c] \in WriteLabels, path'[c] = f
    PROVE  pc[c] \in WriteLabels /\ path[c] = f
  <1> USE ClientsAreProcs DEF BaseInv
  <1>1. CASE RowQuiet
    BY <1>1 DEF RowQuiet, WriteLabels, RowLabels, ClientLabels
  <1>2. ASSUME NEW a \in Clients, NEW g \in Files, NEW d \in Data, BeginWrite(a, g, d)
        PROVE  pc[c] \in WriteLabels /\ path[c] = f
    <2>1. Others(a) /\ path'[a] = g
      <3>1. Others(a)
        BY <1>2, ClientFrame DEF TypeInv, TypeOK, RouterTypeOK
      <3> QED  BY <1>2, <3>1 DEF BeginWrite, TypeInv, TypeOK, RouterTypeOK, ProcTypeOK
    <2>2. writes[g] = 0
      BY <1>2 DEF BeginWrite, WritesOnce, TypeInv, TypeOK, RouterTypeOK, BoundTypeOK
    <2>3. c # a
      BY <2>1, <2>2 DEF RowInv, Unwritten
    <2> QED  BY <2>1, <2>3 DEF Others
  <1>3. ASSUME NEW a \in Clients, WriteUpsert(a) \/ WriteRoot(a)
        PROVE  pc[c] \in WriteLabels /\ path[c] = f
    <2>1. Others(a)
      BY <1>3, ClientFrame DEF TypeInv, TypeOK, RouterTypeOK, ClientStep
    <2>2. pc[a] \in WriteLabels /\ path'[a] = path[a]
      BY <1>3 DEF WriteUpsert, WriteRoot, WriteLabels
    <2> QED  BY <2>1, <2>2 DEF Others
  <1>4. ASSUME NEW a \in Clients, \/ \E g \in Files : BeginDelete(a, g)
                                  \/ DeleteFromTier(a) \/ DeleteMeta(a)
        PROVE  FALSE
    BY <1>4 DEF BeginDelete, DeleteFromTier, DeleteMeta, RowInv, Unwritten, WritesOnce, TypeInv,
       TypeOK, RouterTypeOK, BoundTypeOK
  <1>5. CASE \E a \in Clients : Request(a) \/ Handle(a) \/ Drop(a)
    BY <1>1, <1>2, <1>3, <1>4, <1>5, RequestsQuiet DEF Request, Handle, Drop, ClientStep
  <1>6. CASE Upload \/ Replay \/ Evict \/ Promote \/ Crash \/ UNCHANGED vars
    BY <1>1, <1>6, TasksQuiet
  <1> QED  BY <1>5, <1>6 DEF Next

\* Only a crash ends the first run of the daemon.
LEMMA FirstRunEnds ==
    ASSUME TypeInv, [Next]_vars
    PROVE  (FirstRun' => FirstRun) /\ (Crash => ~FirstRun')
  <1>1. CASE Crash
    BY <1>1 DEF Crash, FirstRun, TypeInv, TypeOK
  <1>2. CASE ~Crash
    BY <1>2 DEF Next, Request, Handle, Drop, Upload, Replay, Evict, Promote, FirstRun, vars
  <1> QED  BY <1>1, <1>2

\* What a database error has left behind is never forgotten.
LEMMA LapsedGrows ==
    ASSUME [Next]_vars
    PROVE  lapsed \subseteq lapsed'
  <1> USE DEF workVars, lapseVars
  <1>1. CASE Upload
    BY <1>1 DEF Upload, UploaderStep, UploadLoad, UploadNext, UploadSkip, UploadEnd, UploaderRead,
       UploadPut, UploadBits, UploadComplete, UploadFail
  <1>2. CASE Replay
    BY <1>2 DEF Replay, ReplayStep, ReplayLoad, ReplayNext, ReplayEnd, ReplayGiveUp, ReplaySkip,
       ReplayLook, ReplayerRead, ReplayNasCreate, ReplayNasFill, ReplayPut, ReplayBits,
       ReplayComplete, ReplayFail
  <1>3. CASE \/ \E c \in Clients : Request(c) \/ Handle(c) \/ Drop(c)
             \/ Evict \/ Promote \/ Crash \/ UNCHANGED vars
    BY <1>3 DEF Request, Handle, Drop, Evict, Promote, Crash, vars
  <1> QED  BY <1>1, <1>2, <1>3 DEF Next

\* Every step keeps settled files settled.
LEMMA SettlesOnStep ==
    ASSUME WritesOnce, BaseInv, [Next]_vars
    PROVE  SettlesOn
  BY EntrySources, WritersStay, FirstRunEnds, LapsedGrows DEF SettlesOn, BaseInv

\* How a process gets to the tier reads of the router.
LEMMA ReadEntered ==
    ASSUME TypeInv, [Next]_vars, NEW p \in Procs, pc'[p] \in {"r_local", "r_cold"}
    PROVE  \/ ReadMeta(p) \/ ReadLocal(p) \/ ReadCold(p)
           \/ pc'[p] = pc[p] /\ rbm'[p] = rbm[p] /\ path'[p] = path[p]
  <1> DEFINE Goal == \/ ReadMeta(p) \/ ReadLocal(p) \/ ReadCold(p)
                     \/ pc'[p] = pc[p] /\ rbm'[p] = rbm[p] /\ path'[p] = path[p]
  <1> USE DEF TypeInv, TypeOK, RouterTypeOK, ProcTypeOK
  <1>1. ASSUME NEW c \in Clients, Request(c) \/ Handle(c) \/ Drop(c) PROVE Goal
    <2>1. CASE p # c
      BY <1>1, <2>1, ClientFrame DEF Request, Handle, Drop, Others
    <2>2. CASE p = c
      BY <1>1, <2>2 DEF Request, Handle, Drop, BeginWrite, BeginRead, BeginDelete, Abort, ClientStep,
         WriteFill, WriteUpsert, WriteParents, WriteRoot, WriteEnqueueNas, WriteEnqueueS3,
         Reply, DeleteFromTier, DeleteMeta, Return, Goto
    <2> QED  BY <2>1, <2>2
  <1>2. CASE Upload
    <2>1. CASE p # Uploader
      BY <1>2, <2>1, UploadFrame DEF Others
    <2>2. CASE p = Uploader
      BY <1>2, <2>2 DEF Upload, UploaderStep, UploadLoad, UploadNext, UploadSkip, UploadEnd,
         UploaderRead, UploadPut, UploadBits, UploadComplete, UploadFail, S3Put, Return, Goto,
         localVars
    <2> QED  BY <2>1, <2>2
  <1>3. CASE Replay
    <2>1. CASE p # Replayer
      BY <1>3, <2>1, ReplayFrame DEF Others
    <2>2. CASE p = Replayer
      BY <1>3, <2>2 DEF Replay, ReplayStep, ReplayLoad, ReplayNext, ReplayEnd, ReplayGiveUp,
         ReplaySkip, ReplayLook, ReplayerRead, ReplayNasCreate, ReplayNasFill, ReplayPut,
         ReplayBits, ReplayComplete, ReplayFail, S3Put, Return, Goto, SkipEntry, DbFault
    <2> QED  BY <2>1, <2>2
  <1>4. CASE Evict
    <2>1. CASE p # Evictor
      BY <1>4, <2>1, EvictFrame DEF Others
    <2>2. CASE p = Evictor
      BY <1>4, <2>2 DEF Evict, EvictStep, EvictScan, EvictEnd, EvictLookup, EvictDelete, EvictBits,
         Return, Goto, DbFault
    <2> QED  BY <2>1, <2>2
  <1>5. CASE Promote
    <2>1. CASE p # Promoter
      BY <1>5, <2>1, PromoteFrame DEF Others
    <2>2. CASE p = Promoter
      BY <1>5, <2>2 DEF Promote, PromoteStep, PromoteRecv, PromoteRead, PromoteSkip, PromoteCreate,
         PromoteFill, PromoteMeta, PromoteBits, PromoteLost, Return, Goto, DbFault
    <2> QED  BY <2>1, <2>2
  <1>6. CASE Crash
    BY <1>6 DEF Crash, Restarted
  <1>7. CASE UNCHANGED vars
    BY <1>7 DEF vars, routerVars, localVars
  <1> QED  BY <1>1, <1>2, <1>3, <1>4, <1>5, <1>6, <1>7 DEF Next

\* The promotion queue: a cold read appends, the promoter takes, a crash clears.
LEMMA PromotionSources ==
    ASSUME [Next]_vars
    PROVE  \/ promotions' \in {promotions, <<>>}
           \/ promotions # <<>> /\ promotions' = Tail(promotions)
           \/ \E p \in Procs : pc[p] = "r_cold" /\ promotions' = Append(promotions, path[p])
  <1>1. ASSUME NEW p \in Procs, ReadCold(p)
        PROVE  \/ promotions' = promotions
               \/ pc[p] = "r_cold" /\ promotions' = Append(promotions, path[p])
    BY <1>1 DEF ReadCold
  <1>2. ASSUME NEW c \in Clients, Request(c) \/ Handle(c) \/ Drop(c)
        PROVE  promotions' = promotions \/ ReadCold(c)
    BY <1>2 DEF Request, Handle, Drop, BeginWrite, BeginRead, BeginDelete, Abort, ClientStep,
         WriteFill, WriteUpsert, WriteParents, WriteRoot, WriteEnqueueNas, WriteEnqueueS3, ReadMeta,
         ReadLocal, Reply, DeleteFromTier, DeleteMeta, DbFault
  <1>3. CASE Upload
    <2>1. promotions' = promotions \/ ReadCold(Uploader)
      BY <1>3 DEF Upload, UploaderStep, UploadLoad, UploadNext, UploadSkip, UploadEnd, UploaderRead,
         UploadPut, UploadBits, UploadComplete, UploadFail, ReadMeta, ReadLocal, DbFault
    <2> QED  BY <1>1, <2>1, TaskNames
  <1>4. CASE Replay
    <2>1. promotions' = promotions \/ ReadCold(Replayer)
      BY <1>4 DEF Replay, ReplayStep, ReplayLoad, ReplayNext, ReplayEnd, ReplayGiveUp, ReplaySkip,
         ReplayLook, ReplayerRead, ReplayNasCreate, ReplayNasFill, ReplayPut, ReplayBits,
         ReplayComplete, ReplayFail, ReadMeta, ReadLocal, SkipEntry, DbFault
    <2> QED  BY <1>1, <2>1, TaskNames
  <1>5. CASE Evict
    BY <1>5 DEF Evict, EvictStep, EvictScan, EvictEnd, EvictLookup, EvictDelete, EvictBits, DbFault
  <1>6. CASE Promote
    <2>1. \/ promotions' = promotions \/ ReadCold(Promoter)
          \/ promotions # <<>> /\ promotions' = Tail(promotions)
      BY <1>6 DEF Promote, PromoteStep, PromoteRecv, PromoteRead, PromoteSkip, PromoteCreate,
         PromoteFill, PromoteMeta, PromoteBits, PromoteLost, ReadMeta, ReadLocal, DbFault
    <2> QED  BY <1>1, <2>1, TaskNames
  <1>7. CASE Crash \/ UNCHANGED vars
    BY <1>7 DEF Crash, vars, routerVars
  <1> QED  BY <1>1, <1>2, <1>3, <1>4, <1>5, <1>6, <1>7, ClientsAreProcs DEF Next

\* The promoter: where its path and the bitmask it writes back come from.
LEMMA PromoterSources ==
    ASSUME TypeInv, [Next]_vars
    PROVE  /\ pc'[Promoter] # "idle" =>
                \/ pc[Promoter] # "idle" /\ path'[Promoter] = path[Promoter]
                \/ Serving /\ promotions # <<>> /\ path'[Promoter] = Head(promotions)
           /\ pc'[Promoter] = "p_bits" =>
                /\ pc[Promoter] # "idle" /\ path'[Promoter] = path[Promoter]
                /\ \/ /\ pc[Promoter] = "p_bits"
                      /\ fid'[Promoter] = fid[Promoter] /\ fbm'[Promoter] = fbm[Promoter]
                   \/ /\ fbm'[Promoter] = bitmask[path[Promoter]] /\ UNCHANGED <<bitmask, rowid>>
                      /\ fid'[Promoter] = rowid[path[Promoter]]
  <1> USE DEF TypeInv, TypeOK, RouterTypeOK, ProcTypeOK
  <1>0. Promoter \in Procs
    BY TaskNames
  <1>1. CASE \/ \E c \in Clients : Request(c) \/ Handle(c) \/ Drop(c)
             \/ Upload \/ Replay \/ Evict
    <2>1. \E q \in Procs \ {Promoter} : Others(q)
      BY <1>1, TaskNames, ClientsAreProcs, ClientFrame, UploadFrame, ReplayFrame, EvictFrame
         DEF Request, Handle, Drop
    <2> QED  BY <1>0, <2>1 DEF Others
  <1>2. CASE Promote
    <2>1. CASE PromoteRecv \/ PromoteCreate
      BY <1>0, <2>1 DEF PromoteRecv, PromoteCreate, Goto
    <2>2. CASE PromoteRead
      BY <1>0, <2>2, ReadFrame DEF PromoteRead
    <2>3. CASE Return(Promoter, "idle")
      BY <1>0, <2>3, ReturnFrame
    <2>4. CASE (PromoteFill \/ PromoteMeta) /\ ~Return(Promoter, "idle")
      BY <1>0, <2>4 DEF PromoteFill, PromoteMeta, Goto, metaVars
    <2> QED  BY <1>2, <2>1, <2>2, <2>3, <2>4 DEF Promote, PromoteStep, PromoteSkip, PromoteBits,
                PromoteLost
  <1>3. CASE Crash
    BY <1>0, <1>3, TaskNames DEF Crash, Restarted
  <1>4. CASE UNCHANGED vars
    BY <1>4 DEF vars, routerVars, localVars
  <1> QED  BY <1>1, <1>2, <1>3, <1>4 DEF Next

\* The evictor, likewise.
LEMMA EvictorSources ==
    ASSUME TypeInv, [Next]_vars, pc'[Evictor] \in {"e_delete", "e_bits"}
    PROVE  \/ /\ pc[Evictor] \in {"e_delete", "e_bits"} /\ path'[Evictor] = path[Evictor]
              /\ fid'[Evictor] = fid[Evictor] /\ fbm'[Evictor] = fbm[Evictor]
           \/ /\ path'[Evictor] \in Files /\ HasRow(path'[Evictor])
              /\ S3 \in bitmask[path'[Evictor]] /\ UNCHANGED <<bitmask, rowid>>
              /\ fid'[Evictor] = rowid[path'[Evictor]]
              /\ fbm'[Evictor] = bitmask[path'[Evictor]]
  <1> USE DEF TypeInv, TypeOK, RouterTypeOK, ProcTypeOK
  <1>0. Evictor \in Procs
    BY TaskNames
  <1>1. CASE \/ \E c \in Clients : Request(c) \/ Handle(c) \/ Drop(c)
             \/ Upload \/ Replay \/ Promote
    <2>1. \E q \in Procs \ {Evictor} : Others(q)
      BY <1>1, TaskNames, ClientsAreProcs, ClientFrame, UploadFrame, ReplayFrame, PromoteFrame
         DEF Request, Handle, Drop
    <2> QED  BY <1>0, <2>1 DEF Others
  <1>2. CASE Evict
    <2>1. CASE EvictScan \/ EvictEnd
      BY <1>0, <2>1 DEF EvictScan, EvictEnd, Goto
    <2>2. CASE EvictLookup
      <3>1. PICK f \in victims :
               IF HasRow(f) /\ SafeToEvictFrom(bitmask[f], etier)
                 THEN /\ path' = [path EXCEPT ![Evictor] = f]
                      /\ fbm' = [fbm EXCEPT ![Evictor] = bitmask[f]]
                      /\ fid' = [fid EXCEPT ![Evictor] = rowid[f]]
                      /\ Goto(Evictor, "e_delete")
                 ELSE UNCHANGED <<pc, path, fbm, fid>>
        BY <2>2 DEF EvictLookup
      <3>2. f \in Files /\ UNCHANGED <<bitmask, rowid>> /\ pc[Evictor] = "e_next"
        BY <2>2 DEF EvictLookup, EvictTypeOK, metaVars
      <3> QED  BY <1>0, <3>1, <3>2 DEF SafeToEvictFrom, Goto
    <2>3. CASE Return(Evictor, "e_next")
      BY <1>0, <2>3, ReturnFrame
    <2>4. CASE EvictDelete /\ ~Return(Evictor, "e_next")
      BY <1>0, <2>4 DEF EvictDelete, Goto
    <2> QED  BY <1>2, <2>1, <2>2, <2>3, <2>4 DEF Evict, EvictStep, EvictBits, DbFault
  <1>3. CASE Crash
    BY <1>0, <1>3, TaskNames DEF Crash, Restarted
  <1>4. CASE UNCHANGED vars
    BY <1>4 DEF vars, routerVars, localVars
  <1> QED  BY <1>1, <1>2, <1>3, <1>4 DEF Next

\* The first replay ends at once.
LEMMA FirstReplayStep ==
    ASSUME BaseInv, FirstReplay, [Next]_vars
    PROVE  FirstReplay'
  <1> SUFFICES ASSUME FirstRun'
               PROVE  /\ pc'[Replayer] \in {"y_load", "y_next", "off"}
                      /\ ~Serving' => /\ wal' = {} /\ todo' = {} /\ promotions' = <<>>
                                      /\ \A f \in Files : ~HasRow(f)'
    BY DEF FirstReplay
  <1>0. TypeInv /\ WorkInv /\ FirstRun /\ ~Crash
    BY FirstRunEnds DEF BaseInv
  <1>1. CASE (\E c \in Clients : Request(c) \/ Handle(c) \/ Drop(c)) \/ Upload \/ Evict \/ Promote
    BY <1>0, <1>1, WhoRuns
  <1>2. CASE Replay
    <2>1. ~Serving
      BY <1>0, <1>2, WhoRuns
    <2>2. /\ pc[Replayer] \in {"y_load", "y_next"} /\ wal = {} /\ todo = {} /\ promotions = <<>>
          /\ \A f \in Files : ~HasRow(f)
      BY <1>0, <2>1 DEF FirstReplay, Serving
    <2>3. ReplayLoad \/ ReplayEnd
      BY <1>2, <2>2 DEF Replay, ReplayStep, ReplayNext, ReplayGiveUp, ReplaySkip, ReplayLook,
         ReplayerRead, ReplayNasCreate, ReplayNasFill, ReplayPut, ReplayBits, ReplayComplete, ReplayFail,
         ReadMeta, ReadLocal, ReadCold, Oldest, SkipEntry, DbFault
    <2> QED  BY <1>0, <2>2, <2>3, TaskNames DEF ReplayLoad, ReplayEnd, Goto, Serving, HasRow,
                metaVars, workVars, lapseVars, TypeInv, TypeOK, RouterTypeOK, ProcTypeOK, DbFault
  <1>3. CASE UNCHANGED vars
    BY <1>0, <1>3 DEF FirstReplay, vars, metaVars, routerVars, localVars, workVars, lapseVars,
       Serving, HasRow
  <1> QED  BY <1>0, <1>1, <1>2, <1>3 DEF Next

\* What is loose stays loose.
LEMMA LooseStays ==
    ASSUME SettlesOn, NEW f, Loose(f)
    PROVE  Loose(f)'
  BY DEF SettlesOn, Loose

\* The bitmasks in the hands of the WAL workers.
LEMMA WorkerBitsStep ==
    ASSUME BaseInv, WorkerBits, BitsKept, SettlesOn, [Next]_vars
    PROVE  WorkerBits'
  <1> USE DEF BaseInv
  <1>0. Uploader \in Procs /\ Replayer \in Procs /\ Uploader # Replayer /\ ProcTypeOK
    BY TaskNames DEF TypeInv, TypeOK, RouterTypeOK
  <1>1. pc'[Uploader] = "u_done" => S3 \in bitmask'[path'[Uploader]] \/ Loose(path[Uploader])'
    <2>1. ASSUME pc'[Uploader] = pc[Uploader], path'[Uploader] = path[Uploader],
                 pc'[Uploader] = "u_done"
          PROVE  S3 \in bitmask'[path'[Uploader]] \/ Loose(path[Uploader])'
      <3>1. PICK f \in Files : f = path[Uploader] /\ (S3 \in bitmask[f] \/ Loose(f))
        BY <2>1 DEF WorkerBits, EntryInv, InHand, HandLabels
      <3>2. S3 \in bitmask'[f] \/ Loose(f)'
        BY <3>1, LooseStays DEF BitsKept
      <3> QED  BY <2>1, <3>1, <3>2
    <2>2. CASE \/ \E c \in Clients : Request(c) \/ Handle(c) \/ Drop(c)
               \/ Replay \/ Evict \/ Promote
      <3>1. \E q \in Procs \ {Uploader} : Others(q)
        BY <1>0, <2>2, TaskNames, ClientsAreProcs, ClientFrame, ReplayFrame, EvictFrame, PromoteFrame
           DEF Request, Handle, Drop
      <3> QED  BY <1>0, <2>1, <3>1 DEF Others
    <2>3. CASE Upload
      <3>1. CASE UploadBits
        <4>1. CASE pc'[Uploader] = "error"
          BY <4>1
        <4>2. CASE pc'[Uploader] # "error"
          <5>1. SetTierBitmask(fid[Uploader], fbm[Uploader] \cup {S3}) /\ path' = path
            BY <1>0, <3>1, <4>2 DEF UploadBits, Goto, ProcTypeOK
          <5>2. PICK f \in Paths : f = path[Uploader] /\ HasRow(f) /\ fid[Uploader] = rowid[f]
            BY <3>1 DEF UploadBits, EntryInv, InHand, HandLabels, Paths
          <5>3. bitmask'[f] = fbm[Uploader] \cup {S3}
            BY <5>1, <5>2, BitmaskOfFile
          <5> QED  BY <5>1, <5>2, <5>3
        <4> QED  BY <4>1, <4>2
      <3>2. CASE UploaderRead
        BY <1>0, <3>2, ReadFrame DEF UploaderRead
      <3>3. CASE UploadComplete \/ UploadFail
        BY <1>0, <3>3, ReturnFrame DEF UploadComplete, UploadFail, DbFault
      <3>4. CASE UploadLoad \/ UploadNext \/ UploadSkip \/ UploadEnd \/ UploadPut
        BY <1>0, <3>4 DEF UploadLoad, UploadNext, UploadSkip, UploadEnd, UploadPut, S3Put, Goto,
           ProcTypeOK, localVars
      <3> QED  BY <2>3, <3>1, <3>2, <3>3, <3>4 DEF Upload, UploaderStep
    <2>4. CASE Crash
      BY <1>0, <2>4 DEF Crash, Restarted
    <2>5. CASE UNCHANGED vars
      BY <2>1, <2>5 DEF vars, routerVars, localVars
    <2> QED  BY <2>2, <2>3, <2>4, <2>5 DEF Next
  <1>2. /\ pc'[Replayer] \in HandLabels \ {"y_done"} => fbm'[Replayer] = bitmask'[path'[Replayer]]
        /\ pc'[Replayer] = "y_done" => \A e \in entry' : e.op = UploadS3 => S3 \in bitmask'[path'[Replayer]]
    <2>1. CASE \/ \E c \in Clients : Request(c) \/ Handle(c) \/ Drop(c)
               \/ Upload \/ Evict \/ Promote
      BY <2>1, WhoRuns DEF HandLabels
    <2>2. CASE ReplayBits
      <3>1. /\ path[Replayer] \in Files /\ HasRow(path[Replayer]) /\ fid[Replayer] = rowid[path[Replayer]]
            /\ fbm[Replayer] = bitmask[path[Replayer]]
        BY <2>2 DEF WorkerBits, ReplayBits, EntryInv, InHand, HandLabels
      <3>2. path' = path /\ entry' = entry /\ fbm' = fbm
        BY <2>2 DEF ReplayBits, workVars
      <3>3. CASE pc'[Replayer] = "y_done"
        <4>1. PICK e \in entry : SetTierBitmask(fid[Replayer], fbm[Replayer] \cup {TargetTier(e.op)})
          BY <1>0, <2>2, <3>3 DEF ReplayBits, Goto, ProcTypeOK
        <4>2. \A x \in entry : x = e
          BY DEF WorkInv, SnapshotDistinct
        <4>3. e.op = UploadS3 => TargetTier(e.op) = S3
          BY DEF TargetTier, UploadS3, ReplicateNas
        <4>4. PICK f \in Paths : f = path[Replayer]
          BY <3>1 DEF Paths
        <4>5. bitmask'[f] = fbm[Replayer] \cup {TargetTier(e.op)}
          BY <3>1, <4>1, <4>4, BitmaskOfFile
        <4> QED  BY <3>2, <3>3, <4>2, <4>3, <4>4, <4>5
      <3>4. CASE pc'[Replayer] # "y_done"
        <4>1. bitmask' = bitmask
          BY <1>0, <2>2, <3>4 DEF ReplayBits, Goto, ProcTypeOK, DbFault, metaVars
        <4> QED  BY <3>1, <3>2, <3>4, <4>1
      <3> QED  BY <3>3, <3>4
    <2>3. CASE ReplayerRead
      <3>1. pc[Replayer] \in HandLabels \ {"y_done"} /\ pc'[Replayer] # "y_done"
            /\ fbm'[Replayer] = fbm[Replayer] /\ path'[Replayer] = path[Replayer] /\ bitmask' = bitmask
        BY <1>0, <2>3, ReadFrame DEF ReplayerRead, HandLabels, metaVars
      <3> QED  BY <3>1 DEF WorkerBits
    <2>4. CASE ReplayNasCreate \/ ReplayNasFill \/ ReplayPut
      <3>1. pc[Replayer] \in HandLabels \ {"y_done"} /\ pc'[Replayer] # "y_done"
            /\ fbm'[Replayer] = fbm[Replayer] /\ path'[Replayer] = path[Replayer] /\ bitmask' = bitmask
        BY <1>0, <2>4 DEF ReplayNasCreate, ReplayNasFill, ReplayPut, S3Put, Goto, ProcTypeOK, HandLabels,
           metaVars
      <3> QED  BY <3>1 DEF WorkerBits
    <2>5. CASE ReplayLook
      <3>1. PICK e \in entry :
               IF PathsOf(e.fid) = {}
                 THEN Goto(Replayer, "y_done") /\ UNCHANGED <<path, fbm, fid>>
                 ELSE /\ Goto(Replayer, IF e.op = ReplicateNas THEN "y_nas" ELSE "r_meta")
                      /\ \E p \in PathsOf(e.fid) :
                           /\ path' = [path EXCEPT ![Replayer] = p]
                           /\ fbm' = [fbm EXCEPT ![Replayer] = bitmask[p]]
                           /\ fid' = [fid EXCEPT ![Replayer] = e.fid]
        BY <2>5 DEF ReplayLook
      <3>2. PathsOf(e.fid) # {}
        <4>1. PICK x \in wal : x.fid = e.fid
          BY DEF EntryInv, SnapshotCurrent
        <4> QED  BY <4>1, EntryFile
      <3>3. bitmask' = bitmask
        BY <2>5 DEF ReplayLook, metaVars
      <3> QED  BY <1>0, <3>1, <3>2, <3>3 DEF Goto, ProcTypeOK
    <2>6. CASE ReplayLoad \/ ReplayNext \/ ReplayEnd \/ ReplayGiveUp \/ ReplaySkip
      BY <1>0, <2>6 DEF ReplayLoad, ReplayNext, ReplayEnd, ReplayGiveUp, ReplaySkip, Goto,
         ProcTypeOK, HandLabels, SkipEntry, DbFault
    <2>7. CASE ReplayComplete \/ ReplayFail
      BY <1>0, <2>7, ReturnFrame DEF ReplayComplete, ReplayFail, HandLabels, SkipEntry, DbFault
    <2>8. CASE Crash
      BY <1>0, <2>8 DEF Crash, Restarted, HandLabels
    <2>9. CASE UNCHANGED vars
      BY <2>9 DEF vars, routerVars, localVars, metaVars, workVars, lapseVars, WorkerBits
    <2> QED  BY <2>1, <2>2, <2>3, <2>4, <2>5, <2>6, <2>7, <2>8, <2>9 DEF Next, Replay, ReplayStep
  <1> QED  BY <1>1, <1>2 DEF WorkerBits

\* The daemon starts to serve when replay ends: nothing else runs then.
LEMMA ServingStarts ==
    ASSUME BaseInv, ~Serving, Serving', [Next]_vars
    PROVE  /\ ReplayEnd /\ rowid' = rowid
           /\ \A p \in Procs : pc'[p] \in {"idle", "off"}
  <1> USE DEF BaseInv
  <1>1. ~UNCHANGED vars /\ ~Crash
    BY TaskNames DEF vars, routerVars, localVars, Crash, Restarted, Serving
  <1>2. Replay
    BY <1>1, WhoRuns DEF Next
  <1>3. ReplayEnd
    BY <1>2, TaskNames DEF Replay, ReplayStep, ReplayLoad, ReplayNext, ReplayGiveUp, ReplaySkip,
       ReplayLook, ReplayerRead, ReplayNasCreate, ReplayNasFill, ReplayPut, ReplayBits,
       ReplayComplete, ReplayFail, ReadMeta, ReadLocal, ReadCold, S3Put, Goto, Return, Serving,
       TypeInv, TypeOK, RouterTypeOK, ProcTypeOK, SkipEntry, DbFault
  <1>4. \A p \in Procs \ {Replayer} : pc'[p] = "idle"
    BY <1>2, ReplayFrame DEF Others, WorkInv, WorkerPlace, TypeInv, TypeOK, RouterTypeOK
  <1>5. rowid' = rowid
    BY <1>3 DEF ReplayEnd, metaVars
  <1> QED  BY <1>3, <1>4, <1>5 DEF Serving

\* When replay ends, every file with a row is settled.
LEMMA ReplayEndSettles ==
    ASSUME BaseInv, ColdInv, ~Serving, Serving', [Next]_vars, NEW f \in Files, HasRow(f)
    PROVE  Settled(f)'
  <1> USE DEF BaseInv
  <1>1. ReplayEnd /\ ~Crash
    BY ServingStarts, TaskNames DEF Crash, Restarted, Serving
  <1>2. \A c \in Clients : pc'[c] = "idle"
    <2>1. \A c \in Clients : c \in Procs /\ c # Replayer
      BY ClientsAreProcs, TaskNames
    <2> QED  BY <2>1, ServingStarts, TaskNames DEF ReplayEnd, Goto, WorkInv, WorkerPlace, TypeInv,
                TypeOK, RouterTypeOK, ProcTypeOK
  <1>3. UNCHANGED <<wal, rowid>> /\ lapsed' = lapsed \cup UploadsLeft
    BY <1>1 DEF ReplayEnd, metaVars, fileVars
  <1>4. ~FirstRun /\ ~FirstRun'
    <2>1. ~FirstRun
      BY DEF ColdInv, FirstReplay
    <2>2. FirstRun' => FirstRun
      BY FirstRunEnds
    <2> QED  BY <2>1, <2>2
  <1>5. CASE f \in UploadsLeft
    BY <1>3, <1>4, <1>5 DEF Settled, Loose, HasRow
  <1>6. CASE f \notin UploadsLeft
    <2>1. ASSUME NEW e \in wal, e.op = UploadS3, e.fid = rowid[f] PROVE e.attempts >= MAX_ATTEMPTS
      <3>1. e.attempts \in Nat /\ MAX_ATTEMPTS \in Nat
        BY AttemptsAssumption DEF TypeInv, TypeOK, MetadataTypeOK, WalEntry
      <3> QED  BY <1>6, <2>1, <3>1 DEF UploadsLeft, Retriable
    <2> QED  BY <1>2, <1>3, <1>4, <2>1 DEF Settled, WriteLabels, HasRow
  <1> QED  BY <1>5, <1>6

\* The reads that reach a cold tier are of settled files.
LEMMA ColdReadsStep ==
    ASSUME WritesOnce, BaseInv, BaseInv', RowsKept, ColdInv, [Next]_vars
    PROVE  ColdReads' /\ (\A p \in Procs : pc'[p] = "r_cold" => rbm'[p] # {Local})
                      /\ (\A i \in DOMAIN promotions' : HasRow(promotions[i])')
  <1> USE DEF BaseInv
  <1>0. WorkerBits /\ Movers /\ ColdReads
    BY DEF ColdInv
  <1>1. BitsKept /\ NasSettled /\ SettlesOn
    BY <1>0, BitsStep, SettlesOnStep
  <1>2. \A f \in Files : Settled(f) => Settled(f)'
    BY <1>1, SettledStays
  <1>3. ASSUME ~Serving, Serving', NEW f \in Files, HasRow(f) PROVE Settled(f)'
    BY <1>3, ReplayEndSettles
  <1>4. \A f \in Files : HasRow(f) => HasRow(f)'
    BY DEF RowsKept, Paths
  <1>5. ASSUME NEW p \in Procs, pc'[p] \in {"r_local", "r_cold"}
        PROVE  /\ path'[p] = path[p]
               /\ pc'[p] = "r_cold" => rbm'[p] # {Local}
               /\ Serving /\ rbm'[p] # {Local} => Settled(path[p])
    <2>1. CASE pc'[p] = pc[p] /\ rbm'[p] = rbm[p] /\ path'[p] = path[p]
      BY <1>0, <1>5, <2>1 DEF Movers, ColdReads
    <2>2. CASE ReadMeta(p)
      <3>1. HasRow(path[p]) /\ path[p] # Root /\ bitmask[path[p]] # {} /\ rbm'[p] = bitmask[path[p]]
            /\ path' = path /\ (pc'[p] = "r_cold" => Local \notin bitmask[path[p]])
        BY <1>5, <2>2 DEF ReadMeta, Goto, TypeInv, TypeOK, RouterTypeOK, ProcTypeOK, DbFault
      <3>2. path[p] \in Files /\ bitmask[path[p]] \subseteq Tier
        BY <3>1 DEF TypeInv, TypeOK, RouterTypeOK, ProcTypeOK, MetadataTypeOK, Paths
      <3>3. rbm'[p] # {Local} => Nas \in bitmask[path[p]] \/ S3 \in bitmask[path[p]]
        BY <3>1, <3>2 DEF Tier
      <3> QED  BY <1>0, <3>1, <3>2, <3>3 DEF ColdReads, Settled
    <2>3. CASE ReadLocal(p)
      <3>1. path' = path /\ rbm' = rbm /\ pc[p] = "r_local" /\ rbm[p] # {Local}
        BY <1>5, <2>3 DEF ReadLocal, Goto, TypeInv, TypeOK, RouterTypeOK, ProcTypeOK
      <3> QED  BY <1>0, <3>1 DEF ColdReads
    <2>4. CASE ReadCold(p)
      BY <1>5, <2>4 DEF ReadCold, Goto, TypeInv, TypeOK, RouterTypeOK, ProcTypeOK
    <2> QED  BY <1>5, <2>1, <2>2, <2>3, <2>4, ReadEntered
  <1>6. ASSUME NEW p \in Procs, pc[p] = "r_cold"
        PROVE  path[p] \in Files /\ HasRow(path[p]) /\ (Serving => Settled(path[p]))
    <2>1. path[p] \in Files /\ rbm[p] # {Local}
      BY <1>0, <1>6 DEF TypeInv, PathInv, Movers
    <2>2. CASE Serving
      BY <1>0, <1>6, <2>1, <2>2 DEF ColdReads, Settled
    <2>3. CASE ~Serving
      <3>1. p = Replayer
        BY <1>6, <2>3 DEF WorkInv, WorkerPlace
      <3> QED  BY <1>6, <2>1, <2>3, <3>1 DEF EntryInv, InHand, HandLabels
    <2> QED  BY <2>1, <2>2, <2>3
  <1>7. ASSUME NEW i \in DOMAIN promotions'
        PROVE  promotions'[i] \in Files /\ HasRow(promotions'[i]) /\ (Serving => Settled(promotions'[i]))
    <2>0. promotions \in Seq(Files)
      BY DEF TypeInv, TypeOK, RouterTypeOK, BoundTypeOK
    <2>1. \A j \in DOMAIN promotions : promotions[j] \in Files /\ HasRow(promotions[j])
                                       /\ (Serving => Settled(promotions[j]))
      BY <1>0, <2>0 DEF Movers, ColdReads
    <2>2. CASE promotions' = promotions
      BY <1>7, <2>1, <2>2
    <2>3. CASE promotions' = <<>>
      BY <1>7, <2>3
    <2>4. CASE promotions # <<>> /\ promotions' = Tail(promotions)
      <3>1. i + 1 \in DOMAIN promotions /\ promotions'[i] = promotions[i + 1]
        BY <1>7, <2>0, <2>4
      <3> QED  BY <2>1, <3>1
    <2>5. ASSUME NEW p \in Procs, pc[p] = "r_cold", promotions' = Append(promotions, path[p])
          PROVE  promotions'[i] \in Files /\ HasRow(promotions'[i]) /\ (Serving => Settled(promotions'[i]))
      <3>1. (i \in DOMAIN promotions /\ promotions'[i] = promotions[i]) \/ promotions'[i] = path[p]
        BY <1>7, <2>0, <2>5
      <3> QED  BY <1>6, <2>1, <2>5, <3>1
    <2> QED  BY <2>2, <2>3, <2>4, <2>5, PromotionSources
  <1>8. ColdReads'
    <2> SUFFICES ASSUME Serving'
                 PROVE  /\ \A f \in Files : Nas \in bitmask'[f] => Settled(f)'
                        /\ \A p \in Procs : pc'[p] \in {"r_local", "r_cold"} /\ rbm'[p] # {Local}
                                                => Settled(path[p])'
                        /\ \A i \in DOMAIN promotions' : Settled(promotions[i])'
      BY DEF ColdReads
    <2>1. ASSUME NEW f \in Files, Nas \in bitmask'[f] PROVE Settled(f)'
      <3>1. HasRow(f)'
        BY <2>1 DEF RowInv, RowContent, Paths
      <3>2. CASE Serving
        BY <1>0, <1>1, <1>2, <2>1, <3>1, <3>2 DEF NasSettled, ColdReads, Settled
      <3>3. CASE ~Serving
        <4>1. HasRow(f)
          BY <3>1, <3>3, ServingStarts DEF HasRow
        <4> QED  BY <1>3, <3>3, <4>1
      <3> QED  BY <3>2, <3>3
    <2>2. ASSUME NEW p \in Procs, pc'[p] \in {"r_local", "r_cold"}, rbm'[p] # {Local}
          PROVE  Settled(path[p])'
      <3>1. PICK f \in Files : f = path'[p] /\ f = path[p]
        BY <1>5, <2>2 DEF TypeInv, PathInv
      <3>2. CASE Serving
        BY <1>2, <1>5, <2>2, <3>1, <3>2
      <3>3. CASE ~Serving
        BY <2>2, <3>3, ServingStarts
      <3> QED  BY <3>2, <3>3
    <2>3. ASSUME NEW i \in DOMAIN promotions' PROVE Settled(promotions[i])'
      <3>1. PICK f \in Files : f = promotions'[i] /\ HasRow(f) /\ (Serving => Settled(f))
        BY <1>7, <2>3
      <3>2. Settled(f)'
        BY <1>2, <1>3, <3>1
      <3> QED  BY <3>1, <3>2
    <2> QED  BY <2>1, <2>2, <2>3
  <1>9. \A i \in DOMAIN promotions' : HasRow(promotions[i])'
    BY <1>4, <1>7
  <1> QED  BY <1>5, <1>8, <1>9

\* The promoter and the evictor.
LEMMA MoversStep ==
    ASSUME WritesOnce, BaseInv, BaseInv', RowsKept, ColdInv, [Next]_vars
    PROVE  Movers'
  <1> USE DEF BaseInv
  <1>0. WorkerBits /\ Movers /\ ColdReads
    BY DEF ColdInv
  <1>1. BitsKept /\ SettledFixed /\ SettlesOn
    BY <1>0, BitsStep, SettlesOnStep
  <1>2. \A f \in Files : Settled(f) => Settled(f)'
    BY <1>1, SettledStays
  <1>3. pc'[Promoter] # "idle" => path'[Promoter] \in Files /\ Settled(path[Promoter])'
    <2> SUFFICES ASSUME pc'[Promoter] # "idle"
                 PROVE  path'[Promoter] \in Files /\ Settled(path[Promoter])'
      OBVIOUS
    <2>1. PICK f \in Files : path'[Promoter] = f /\ Settled(f)
      <3>1. CASE pc[Promoter] # "idle" /\ path'[Promoter] = path[Promoter]
        BY <1>0, <3>1 DEF Movers
      <3>2. CASE Serving /\ promotions # <<>> /\ path'[Promoter] = Head(promotions)
        <4>1. promotions \in Seq(Files)
          BY DEF TypeInv, TypeOK, RouterTypeOK, BoundTypeOK
        <4>2. 1 \in DOMAIN promotions /\ Head(promotions) = promotions[1] /\ promotions[1] \in Files
          BY <3>2, <4>1
        <4> QED  BY <1>0, <3>2, <4>2 DEF ColdReads
      <3> QED  BY <3>1, <3>2, PromoterSources
    <2>2. Settled(f)'
      BY <1>2, <2>1
    <2> QED  BY <2>1, <2>2
  <1>4. pc'[Promoter] = "p_bits" =>
            /\ fid'[Promoter] = rowid'[path'[Promoter]]
            /\ (S3 \in bitmask'[path'[Promoter]] <=> S3 \in fbm'[Promoter]) \/ Loose(path[Promoter])'
    <2> SUFFICES ASSUME pc'[Promoter] = "p_bits"
                 PROVE  /\ fid'[Promoter] = rowid'[path'[Promoter]]
                        /\ \/ S3 \in bitmask'[path'[Promoter]] <=> S3 \in fbm'[Promoter]
                           \/ Loose(path[Promoter])'
      OBVIOUS
    <2>1. PICK f \in Files : path'[Promoter] = f /\ path[Promoter] = f /\ Settled(f)
      BY <1>0, PromoterSources DEF Movers
    <2>2. CASE fbm'[Promoter] = bitmask[f] /\ UNCHANGED <<bitmask, rowid>> /\ fid'[Promoter] = rowid[f]
      BY <2>1, <2>2
    <2>3. CASE pc[Promoter] = "p_bits" /\ fid'[Promoter] = fid[Promoter] /\ fbm'[Promoter] = fbm[Promoter]
      <3>1. Serving
        BY <2>3, TaskNames DEF WorkInv, WorkerPlace
      <3>2. (S3 \in bitmask'[f] <=> S3 \in bitmask[f]) \/ Loose(f)
        BY <1>1, <2>1, <3>1 DEF BitsKept, SettledFixed
      <3>3. rowid'[f] = rowid[f]
        BY <2>1 DEF RowsKept, Settled, Paths
      <3>4. Loose(f) => Loose(f)'
        BY <1>1, LooseStays
      <3>5. fid[Promoter] = rowid[f] /\ ((S3 \in bitmask[f] <=> S3 \in fbm[Promoter]) \/ Loose(f))
        BY <1>0, <2>1, <2>3 DEF Movers
      <3> QED  BY <2>1, <2>3, <3>2, <3>3, <3>4, <3>5
    <2> QED  BY <2>1, <2>2, <2>3, PromoterSources
  <1>5. pc'[Evictor] \in {"e_delete", "e_bits"} =>
            /\ path'[Evictor] \in Files /\ HasRow(path[Evictor])'
            /\ S3 \in bitmask'[path'[Evictor]] \/ Loose(path[Evictor])'
            /\ fid'[Evictor] = rowid'[path'[Evictor]] /\ S3 \in fbm'[Evictor]
    <2>1. CASE /\ pc[Evictor] \in {"e_delete", "e_bits"} /\ path'[Evictor] = path[Evictor]
               /\ fid'[Evictor] = fid[Evictor] /\ fbm'[Evictor] = fbm[Evictor]
      <3>1. PICK f \in Files : f = path[Evictor] /\ f = path'[Evictor]
        BY <1>0, <2>1 DEF Movers
      <3>2. S3 \in bitmask'[f] \/ Loose(f)'
        BY <1>0, <1>1, <2>1, <3>1, LooseStays DEF Movers, BitsKept
      <3> QED  BY <1>0, <2>1, <3>1, <3>2 DEF Movers, RowsKept, Paths
    <2>2. CASE /\ path'[Evictor] \in Files /\ HasRow(path'[Evictor])
               /\ S3 \in bitmask[path'[Evictor]] /\ UNCHANGED <<bitmask, rowid>>
               /\ fid'[Evictor] = rowid[path'[Evictor]]
               /\ fbm'[Evictor] = bitmask[path'[Evictor]]
      BY <2>2 DEF HasRow
    <2> QED  BY <2>1, <2>2, EvictorSources
  <1> QED  BY <1>3, <1>4, <1>5, ColdReadsStep DEF Movers

\* Before the first request.
LEMMA ColdInvInit == Init => ColdInv
  <1> SUFFICES ASSUME Init PROVE ColdInv
    OBVIOUS
  <1>1. /\ pc = Restarted /\ wal = {} /\ todo = {} /\ promotions = <<>>
        /\ \A f \in Files : ~HasRow(f)
    BY DEF Init, MetadataInit, RouterInit, ProcInit, WorkInit, HasRow, Paths
  <1>2. pc[Replayer] = "y_load" /\ \A p \in Procs \ {Replayer} : pc[p] = "idle"
    BY <1>1, TaskNames DEF Restarted
  <1> QED  BY <1>1, <1>2, TaskNames DEF ColdInv, FirstReplay, WorkerBits, ColdReads, Movers, Serving,
              HandLabels

\* The bit invariant is inductive.
LEMMA ColdStep ==
    ASSUME WritesOnce, BaseInv, BaseInv', RowsKept, ColdInv, [Next]_vars
    PROVE  ColdInv'
  BY FirstReplayStep, BitsStep, SettlesOnStep, WorkerBitsStep, ColdReadsStep, MoversStep DEF ColdInv

\* The invariants so far, together.
LEMMA BaseStep ==
    ASSUME WritesOnce, BaseInv, [Next]_vars
    PROVE  BaseInv' /\ RowsKept
  <1> USE DEF BaseInv
  <1>1. TypeInv' /\ WalIntegrity' /\ WorkInv'
    BY TypeStep, WorkStep, StepsCallMethods, MethodsKeepIntegrity DEF TypeInv, TypeOK
  <1>2. RowInv' /\ RowsKept
    BY RowStep
  <1>3. EntryInv'
    BY <1>1, <1>2, EntryStep
  <1> QED  BY <1>1, <1>2, <1>3

\* They hold at the start.
LEMMA BaseInit == Init => BaseInv
  <1>1. Init => WalIntegrity
    BY DEF Init, MetadataInit, WalIntegrity, RowIdsUnique, WalIdsUnique, WalRefsFiles, HasRow
  <1> QED  BY <1>1, TypeInit, WorkInvInit, RowInvInit, EntryInvInit DEF BaseInv

\* A queued upload stays queued, with more attempts perhaps, until its file has
\* the S3 bit.
LEMMA UploadStaysQueued ==
    ASSUME BaseInv, ColdInv, [Next]_vars, NEW f \in Files, HasRow(f),
           NEW e \in wal, e.fid = rowid[f], e.op = UploadS3
    PROVE  S3 \in bitmask[f] \/ Loose(f) \/ \E x \in wal' : x.fid = e.fid /\ x.op = UploadS3
  <1> USE DEF BaseInv
  <1>1. CASE wal \subseteq wal'
    BY <1>1
  <1>2. ASSUME NEW id, WalRecordFailure(id) PROVE \E x \in wal' : x.fid = e.fid /\ x.op = UploadS3
    <2>1. [e EXCEPT !.attempts = @ + 1].fid = e.fid /\ [e EXCEPT !.attempts = @ + 1].op = e.op
      BY DEF TypeInv, TypeOK, MetadataTypeOK, WalEntry
    <2>2. wal' = {IF x.id = id THEN [x EXCEPT !.attempts = @ + 1] ELSE x : x \in wal}
      BY <1>2 DEF WalRecordFailure
    <2>3. CASE e.id = id
      <3>1. [e EXCEPT !.attempts = @ + 1] \in wal'
        BY <2>2, <2>3
      <3> QED  BY <2>1, <3>1
    <2>4. CASE e.id # id
      <3>1. e \in wal'
        BY <2>2, <2>4
      <3> QED  BY <3>1
    <2> QED  BY <2>3, <2>4
  <1>3. ASSUME NEW p \in {Uploader, Replayer}, pc[p] \in {"u_done", "y_done"}, NEW d \in entry, WalComplete(d.id),
               \A x \in entry : x.op = UploadS3 => S3 \in bitmask[path[p]] \/ Loose(path[p])
        PROVE  S3 \in bitmask[f] \/ Loose(f) \/ \E x \in wal' : x.fid = e.fid /\ x.op = UploadS3
    <2>1. CASE e.id # d.id
      BY <1>3, <2>1 DEF WalComplete
    <2>2. CASE e.id = d.id
      <3>1. d.fid = e.fid /\ d.op = e.op
        BY <2>2 DEF EntryInv, SnapshotCurrent, WalIntegrity, WalIdsUnique
      <3>2. path[p] \in Files /\ HasRow(path[p]) /\ rowid[path[p]] = e.fid
        BY <1>3, <3>1 DEF EntryInv, InHand, HandLabels
      <3>3. path[p] = f
        BY <3>2 DEF WalIntegrity, RowIdsUnique, Paths
      <3> QED  BY <1>3, <3>1, <3>3
    <2> QED  BY <2>1, <2>2
  <1>4. ASSUME NEW c \in Clients, Request(c) \/ Handle(c) \/ Drop(c) PROVE wal \subseteq wal'
    BY <1>4 DEF Request, Handle, Drop, BeginWrite, BeginRead, BeginDelete, Abort, ClientStep,
       WriteFill, WriteUpsert, WriteParents, WriteRoot, Upsert, WriteEnqueueNas, WriteEnqueueS3,
       WalEnqueue, ReadMeta, ReadLocal, ReadCold, Reply, DeleteFromTier, DeleteMeta, RowInv,
       Unwritten, metaVars, DbFault
  <1>5. CASE Upload
    <2>1. CASE UploadComplete
      <3>1. pc[Uploader] = "u_done"
        BY <2>1 DEF UploadComplete, EntryInv, InHand, DbFault
      <3>2. S3 \in bitmask[path[Uploader]] \/ Loose(path[Uploader])
        BY <3>1 DEF ColdInv, WorkerBits
      <3> QED  BY <1>1, <1>3, <2>1, <3>1, <3>2 DEF UploadComplete, DbFault, metaVars
    <2>2. CASE UploadFail
      BY <1>1, <1>2, <2>2 DEF UploadFail, DbFault, metaVars
    <2>3. CASE ~UploadComplete /\ ~UploadFail
      BY <1>1, <1>5, <2>3 DEF Upload, UploaderStep, UploadLoad, UploadNext, UploadSkip, UploadEnd,
         UploaderRead, UploadPut, UploadBits, ReadMeta, ReadLocal, ReadCold, SetTierBitmask,
         metaVars, DbFault
    <2> QED  BY <2>1, <2>2, <2>3
  <1>6. CASE Replay
    <2>1. CASE ReplayComplete
      <3>1. pc[Replayer] = "y_done" /\ \A x \in entry : x.op = UploadS3 => S3 \in bitmask[path[Replayer]]
        BY <2>1 DEF ReplayComplete, ColdInv, WorkerBits, SkipEntry, DbFault
      <3> QED  BY <1>1, <1>3, <2>1, <3>1 DEF ReplayComplete, SkipEntry, DbFault, metaVars
    <2>2. CASE ReplayFail
      BY <1>1, <1>2, <2>2 DEF ReplayFail, SkipEntry, DbFault, metaVars
    <2>3. CASE ~ReplayComplete /\ ~ReplayFail
      BY <1>1, <1>6, <2>3 DEF Replay, ReplayStep, ReplayLoad, ReplayNext, ReplayEnd, ReplayGiveUp,
         ReplaySkip, ReplayLook, ReplayerRead, ReplayNasCreate, ReplayNasFill, ReplayPut,
         ReplayBits, ReadMeta, ReadLocal, ReadCold, SetTierBitmask, metaVars, SkipEntry, DbFault
    <2> QED  BY <2>1, <2>2, <2>3
  <1>7. CASE Evict \/ Promote \/ Crash \/ UNCHANGED vars
    BY <1>1, <1>7 DEF Evict, EvictStep, EvictScan, EvictEnd, EvictLookup, EvictDelete, EvictBits,
           Promote, PromoteStep, PromoteRecv, PromoteRead, PromoteSkip, PromoteCreate, PromoteFill,
           PromoteMeta, PromoteBits, PromoteLost, ReadMeta, ReadLocal, ReadCold, SetTierBitmask,
           Crash, vars, metaVars, DbFault
  <1> QED  BY <1>1, <1>4, <1>5, <1>6, <1>7 DEF Next

\* Only the last step of a write acknowledges it, and it enqueues the upload.
LEMMA NewlyAcked ==
    ASSUME BaseInv, [Next]_vars, NEW f \in acked', f \notin acked
    PROVE  /\ f \in Files /\ HasRow(f) /\ UNCHANGED fileVars
           /\ \E e \in wal' : e.fid = rowid[f] /\ e.op = UploadS3
  <1> USE DEF BaseInv
  <1>1. ASSUME NEW c \in Clients, Request(c) \/ Handle(c) \/ Drop(c)
        PROVE  WriteEnqueueS3(c) \/ f \in acked
    BY <1>1 DEF Request, Handle, Drop, BeginWrite, BeginRead, BeginDelete, Abort, ClientStep,
       WriteFill, WriteUpsert, WriteParents, WriteRoot, WriteEnqueueNas, ReadMeta, ReadLocal,
       ReadCold, Reply, DeleteFromTier, DeleteMeta, boundVars, DbFault
  <1>2. ASSUME Upload \/ Replay PROVE FALSE
    BY <1>2 DEF Upload, UploaderStep, UploadLoad, UploadNext, UploadSkip, UploadEnd, UploaderRead,
       UploadPut, UploadBits, UploadComplete, UploadFail, ReadMeta, ReadLocal, ReadCold, Replay,
       ReplayStep, ReplayLoad, ReplayNext, ReplayEnd, ReplayGiveUp, ReplaySkip, ReplayLook,
       ReplayerRead, ReplayNasCreate, ReplayNasFill, ReplayPut, ReplayBits, ReplayComplete,
       ReplayFail, boundVars, SkipEntry, DbFault
  <1>3. ASSUME Evict \/ Promote \/ Crash \/ UNCHANGED vars PROVE FALSE
    BY <1>3 DEF Evict, EvictStep, EvictScan, EvictEnd, EvictLookup, EvictDelete, EvictBits, Promote,
           PromoteStep, PromoteRecv, PromoteRead, PromoteSkip, PromoteCreate, PromoteFill,
           PromoteMeta, PromoteBits, PromoteLost, ReadMeta, ReadLocal, ReadCold, Crash, vars,
           routerVars, boundVars, DbFault
  <1>4. PICK c \in Clients : WriteEnqueueS3(c)
    BY <1>1, <1>2, <1>3 DEF Next
  <1>5. path[c] \in Files /\ HasRow(path[c]) /\ fid[c] = rowid[path[c]] /\ f = path[c]
    BY <1>4 DEF WriteEnqueueS3, RowInv, OneWriter, RowLabels, TypeInv, PathInv, ClientLabels
  <1>6. ForeignKeyOk(fid[c])
    BY <1>5 DEF ForeignKeyOk, PathsOf, Paths
  <1>7. PICK n : wal' = wal \cup {[id |-> n, fid |-> fid[c], op |-> UploadS3, attempts |-> 0]}
    BY <1>4, <1>6 DEF WriteEnqueueS3, WalEnqueue
  <1>8. PICK r : r = [id |-> n, fid |-> fid[c], op |-> UploadS3, attempts |-> 0]
    OBVIOUS
  <1>9. r \in wal' /\ r.fid = fid[c] /\ r.op = UploadS3
    BY <1>7, <1>8
  <1>10. UNCHANGED fileVars
    BY <1>4, <1>6 DEF WriteEnqueueS3, WalEnqueue
  <1> QED  BY <1>5, <1>9, <1>10

\* What is acknowledged is uploaded or queued.
LEMMA QueuedStep ==
    ASSUME WritesOnce, BaseInv, BaseInv', RowsKept, ColdInv, Queued, [Next]_vars
    PROVE  Queued'
  <1>1. SUFFICES ASSUME NEW f \in acked'
                 PROVE  /\ HasRow(f)'
                        /\ \/ S3 \in bitmask'[f] \/ Loose(f)'
                           \/ \E e \in wal' : e.fid = rowid'[f] /\ e.op = UploadS3
    BY DEF Queued
  <1>2. CASE f \notin acked
    BY <1>2, NewlyAcked DEF fileVars, HasRow
  <1>3. CASE f \in acked
    <2>1. f \in Files /\ HasRow(f)
      BY <1>3 DEF BaseInv, TypeInv, TypeOK, RouterTypeOK, BoundTypeOK, Queued
    <2>2. HasRow(f)' /\ rowid'[f] = rowid[f]
      BY <2>1 DEF RowsKept, Paths
    <2>3. BitsKept /\ (Loose(f) => Loose(f)')
      BY BitsStep, SettlesOnStep, LooseStays DEF ColdInv
    <2>4. CASE S3 \in bitmask[f] \/ Loose(f)
      BY <2>1, <2>2, <2>3, <2>4 DEF BitsKept
    <2>5. CASE ~(S3 \in bitmask[f] \/ Loose(f))
      <3>1. PICK e \in wal : e.fid = rowid[f] /\ e.op = UploadS3
        BY <1>3, <2>5 DEF Queued
      <3> QED  BY <2>1, <2>2, <2>5, <3>1, UploadStaysQueued
    <2> QED  BY <2>4, <2>5
  <1> QED  BY <1>2, <1>3

\* router.rs write, s3_uploader.rs, wal_replay.rs: an acknowledged write has its
\* S3 upload queued until the S3 bit is set, and the bit stays, through any number
\* of crashes, failed attempts, database errors and tier movements, for files
\* written once; but for files of which a database error has left an upload queued
\* after it was done, or past replay.
THEOREM AckedStaysQueued ==
    ASSUME WritesOnce
    PROVE  Spec => []AckedQueued
  <1>1. Init => BaseInv /\ ColdInv /\ Queued
    BY BaseInit, ColdInvInit DEF Init, RouterInit, Queued
  <1>2. BaseInv /\ ColdInv /\ Queued /\ [Next]_vars => (BaseInv /\ ColdInv /\ Queued)'
    BY BaseStep, ColdStep, QueuedStep
  <1>3. Queued => AckedQueued
    BY DEF Queued, AckedQueued, Loose
  <1> QED  BY <1>1, <1>2, <1>3, PTL DEF Spec
-----------------------------------------------------------------------------
(* Copies: until the first restart S3 holds what the S3 bit says *)

\* The S3 bit taken together with the other invariants on bits: before the
\* first restart a cold read, a promotion and an eviction are of uploaded files.
LEMMA SettledUploaded ==
    ASSUME FirstRun, NEW f, Settled(f)
    PROVE  Uploaded(f)
  BY DEF Settled, Loose, Uploaded

\* The hypotheses of a step of the first run.
FirstStep ==
    /\ WritesOnce /\ BaseInv /\ BaseInv' /\ RowsKept /\ ColdInv
    /\ FirstRun /\ FirstRun' /\ [Next]_vars

\* What they imply.
LEMMA FirstStepFacts ==
    ASSUME FirstStep
    PROVE  /\ TypeInv /\ ProcTypeOK /\ StoreTypeOK /\ WalIntegrity /\ WorkInv /\ RowInv /\ EntryInv
           /\ WorkerBits /\ Movers /\ ColdReads /\ BitsKept /\ lapsed \subseteq lapsed'
           /\ pc[Replayer] \in {"y_load", "y_next", "off"} /\ ~ReplayBits /\ ~Crash
           /\ \A f \in Files : f \in Paths
  <1>1. /\ TypeInv /\ ProcTypeOK /\ StoreTypeOK /\ WalIntegrity /\ WorkInv /\ RowInv /\ EntryInv
        /\ WorkerBits /\ Movers /\ ColdReads
    BY DEF FirstStep, BaseInv, ColdInv, TypeInv, TypeOK, RouterTypeOK
  <1>2. BitsKept /\ lapsed \subseteq lapsed'
    BY <1>1, BitsStep, LapsedGrows DEF FirstStep
  <1>3. pc[Replayer] \in {"y_load", "y_next", "off"}
    BY DEF FirstStep, ColdInv, FirstReplay
  <1>4. ~Crash
    BY <1>1, FirstRunEnds DEF FirstStep
  <1> QED  BY <1>1, <1>2, <1>3, <1>4 DEF ReplayBits, Paths, DbFault

\* In the first run replay does nothing but start the servers.
LEMMA FirstReplayQuiet ==
    ASSUME FirstStep, Replay
    PROVE  ReplayLoad \/ ReplayNext \/ ReplayEnd
  BY FirstStepFacts DEF Replay, ReplayStep, ReplayGiveUp, ReplaySkip, ReplayLook, ReplayerRead,
     ReplayNasCreate, ReplayNasFill, ReplayPut, ReplayBits, ReplayComplete, ReplayFail, ReadMeta, ReadLocal,
     ReadCold, SkipEntry, DbFault

\* Only the uploader sets an S3 bit.
LEMMA NewS3Bit ==
    ASSUME FirstStep, NEW f \in Files, S3 \in bitmask'[f], S3 \notin bitmask[f]
    PROVE  UploadBits /\ path[Uploader] = f
  <1>0. BaseInv /\ [Next]_vars /\ f \in Paths
    BY FirstStepFacts DEF FirstStep
  <1>1. ASSUME NEW c \in Clients, WriteUpsert(c) PROVE FALSE
    <2>1. /\ bitmask'[path[c]] = {Local}
          /\ \A q \in Paths \ {path[c]} : bitmask'[q] = bitmask[q]
      BY <1>1, WriteUpsertRows, FirstStepFacts
    <2> QED  BY <1>0, <2>1 DEF S3, Local
  <1>2. ASSUME NEW c \in Clients, WriteRoot(c) PROVE FALSE
    BY <1>2, WriteRootRows, FirstStepFacts
  <1>3. ~EvictBits
    BY <1>0, EvictBitsWritten, FirstStepFacts DEF Loose, FirstStep
  <1>4. ~PromoteBits
    <2>1. SUFFICES ASSUME PromoteBits PROVE FALSE
      OBVIOUS
    <2>2. /\ bitmask'[path[Promoter]] = fbm[Promoter] \cup {Local}
          /\ S3 \in bitmask[path[Promoter]] <=> S3 \in fbm[Promoter]
          /\ \A p \in Paths \ {path[Promoter]} : bitmask'[p] = bitmask[p]
      BY <1>0, <2>1, PromoteBitsWritten, FirstStepFacts DEF Loose, FirstStep
    <2> QED  BY <1>0, <2>2 DEF S3, Local
  <1>5. UploadBits
    BY <1>0, <1>1, <1>2, <1>3, <1>4, BitsUntouched, FirstStepFacts
  <1> QED  BY <1>0, <1>5, UploadBitsWritten

\* The bits of a file without the S3 bit change only when its row is inserted
\* or when the upload is done.
LEMMA LocalOnlyBits ==
    ASSUME FirstStep, NEW f \in Files, HasRow(f), S3 \notin bitmask'[f]
    PROVE  bitmask'[f] = bitmask[f]
  <1>0. BaseInv /\ [Next]_vars /\ f \in Paths /\ S3 \notin bitmask[f]
    BY FirstStepFacts DEF FirstStep, BitsKept, Loose
  <1>1. ASSUME NEW c \in Clients, WriteUpsert(c) PROVE bitmask'[f] = bitmask[f]
    BY <1>0, <1>1, WriteUpsertRows, FirstStepFacts
  <1>2. ASSUME NEW c \in Clients, WriteRoot(c) PROVE bitmask'[f] = bitmask[f]
    BY <1>2, WriteRootRows, FirstStepFacts
  <1>3. CASE EvictBits /\ bitmask' # bitmask
    BY <1>0, <1>3, EvictBitsWritten, FirstStepFacts
  <1>4. CASE PromoteBits
    <2>1. Settled(path[Promoter]) /\ \A p \in Paths \ {path[Promoter]} : bitmask'[p] = bitmask[p]
      BY <1>0, <1>4, PromoteBitsWritten, FirstStepFacts
    <2>2. S3 \in bitmask[path[Promoter]]
      BY <2>1 DEF Settled, Loose, FirstStep
    <2> QED  BY <1>0, <2>1, <2>2
  <1>5. CASE UploadBits /\ bitmask' # bitmask
    <2>1. /\ bitmask'[path[Uploader]] = fbm[Uploader] \cup {S3}
          /\ \A p \in Paths \ {path[Uploader]} : bitmask'[p] = bitmask[p]
      BY <1>0, <1>5, UploadBitsWritten
    <2> QED  BY <1>0, <2>1
  <1> QED  BY <1>0, <1>1, <1>2, <1>3, <1>4, <1>5, BitsUntouched, FirstStepFacts


-----------------------------------------------------------------------------
(* The NAS stays empty in the first run *)

\* The bitmask a process keeps to write back is one that it holds already, none,
\* or that of a file.
LEMMA KeptBitmask ==
    ASSUME FirstStep, NEW p \in Procs
    PROVE  fbm'[p] \in {fbm[p], {}} \/ \E f \in Files : HasRow(f) /\ fbm'[p] = bitmask[f]
  <1> DEFINE Goal == fbm'[p] \in {fbm[p], {}} \/ \E f \in Files : HasRow(f) /\ fbm'[p] = bitmask[f]
  <1>0. /\ TypeInv /\ ProcTypeOK /\ RowInv /\ EntryInv /\ WalIntegrity /\ Movers /\ EvictTypeOK
        /\ [Next]_vars /\ ~Crash
    BY FirstStepFacts DEF FirstStep, TypeInv, TypeOK
  <1>1. ASSUME NEW l, NEW a \in Procs, Return(a, l) PROVE Goal
    BY <1>0, <1>1, ReturnFrame DEF Others
  <1>2. ASSUME NEW a \in Procs, ReadMeta(a) \/ ReadLocal(a) \/ ReadCold(a) PROVE Goal
    BY <1>0, <1>2, ReadFrame DEF Others
  <1>3. ASSUME NEW c \in Clients, Request(c) \/ Handle(c) \/ Drop(c) PROVE Goal
    <2>1. ASSUME NEW f \in Files, BeginDelete(c, f) PROVE FALSE
      BY <1>0, <2>1 DEF BeginDelete, FirstStep, WritesOnce, RowInv, Unwritten
    <2>2. ~DeleteFromTier(c)
      BY <1>0 DEF DeleteFromTier, RowInv, Unwritten
    <2>3. CASE fbm' = fbm
      BY <2>3
    <2> QED  BY <1>1, <1>2, <1>3, <2>1, <2>2, <2>3, ClientsAreProcs DEF Request, Handle, Drop, BeginWrite,
             BeginRead, Abort, ClientStep, WriteFill, WriteUpsert, WriteParents, WriteRoot,
             WriteEnqueueNas, WriteEnqueueS3, Reply, DeleteMeta
  <1>4. CASE Upload
    <2>1. CASE UploadNext
      <3>1. PICK e \in todo : \/ UNCHANGED fbm
                              \/ \E q \in PathsOf(e.fid) : fbm' = [fbm EXCEPT ![Uploader] = bitmask[q]]
        BY <2>1 DEF UploadNext, Oldest
      <3>2. e \in wal
        BY <1>0 DEF EntryInv, SnapshotCurrent
      <3>3. \A q \in PathsOf(e.fid) : q \in Files /\ HasRow(q)
        BY <1>0, <3>2, EntryFile
      <3> QED  BY <1>0, <3>1, <3>3, TaskNames DEF ProcTypeOK
    <2>2. CASE UploaderRead
      BY <1>2, <2>2, TaskNames DEF UploaderRead
    <2>3. CASE UploadComplete \/ UploadFail
      BY <1>1, <2>3, TaskNames DEF UploadComplete, UploadFail, DbFault
    <2>4. CASE UploadLoad \/ UploadSkip \/ UploadEnd \/ UploadPut \/ UploadBits
      BY <2>4 DEF UploadLoad, UploadSkip, UploadEnd, UploadPut, UploadBits, localVars
    <2> QED  BY <1>4, <2>1, <2>2, <2>3, <2>4 DEF Upload, UploaderStep
  <1>5. CASE Replay
    BY <1>5, FirstReplayQuiet DEF ReplayLoad, ReplayNext, ReplayEnd, DbFault
  <1>6. CASE Evict
    <2>1. CASE EvictLookup
      <3>1. \/ fbm' = fbm
            \/ \E f \in victims : HasRow(f) /\ fbm' = [fbm EXCEPT ![Evictor] = bitmask[f]]
        BY <2>1 DEF EvictLookup
      <3> QED  BY <1>0, <3>1, TaskNames DEF EvictTypeOK, ProcTypeOK
    <2>2. CASE EvictScan \/ EvictEnd \/ EvictDelete \/ EvictBits
      BY <1>1, <2>2, TaskNames DEF EvictScan, EvictEnd, EvictDelete, EvictBits, DbFault
    <2> QED  BY <1>6, <2>1, <2>2 DEF Evict, EvictStep
  <1>7. CASE Promote
    <2>1. CASE PromoteMeta
      <3>1. pc[Promoter] # "idle" => path[Promoter] \in Files
        BY <1>0 DEF Movers
      <3> QED  BY <1>0, <1>1, <2>1, <3>1, TaskNames DEF PromoteMeta, ProcTypeOK
    <2>2. CASE PromoteRead
      BY <1>2, <2>2, TaskNames DEF PromoteRead
    <2>3. CASE \/ PromoteRecv \/ PromoteSkip \/ PromoteCreate \/ PromoteFill \/ PromoteBits
               \/ PromoteLost
      BY <1>1, <2>3, TaskNames DEF PromoteRecv, PromoteSkip, PromoteCreate, PromoteFill, PromoteBits,
         PromoteLost
    <2> QED  BY <1>7, <2>1, <2>2, <2>3 DEF Promote, PromoteStep
  <1>8. CASE UNCHANGED vars
    BY <1>8 DEF vars, routerVars, localVars
  <1> QED  BY <1>0, <1>3, <1>4, <1>5, <1>6, <1>7, <1>8 DEF Next

\* Nothing is put on the NAS before a restart.
LEMMA NoNasStep ==
    ASSUME FirstStep, NoNas
    PROVE  NoNas'
  <1>0. BaseInv /\ [Next]_vars /\ Nas # S3 /\ Nas # Local
    BY DEF FirstStep, Nas, S3, Local
  <1>1. ASSUME NEW p \in Procs PROVE Nas \notin fbm'[p]
    BY <1>1, KeptBitmask DEF NoNas
  <1>2. ASSUME NEW f \in Files PROVE Nas \notin bitmask'[f]
    <2>0. f \in Paths /\ Nas \notin bitmask[f]
      BY FirstStepFacts DEF NoNas
    <2>1. ASSUME NEW c \in Clients, WriteUpsert(c) PROVE Nas \notin bitmask'[f]
      <3>1. bitmask'[path[c]] = {Local} /\ \A q \in Paths \ {path[c]} : bitmask'[q] = bitmask[q]
        BY <2>1, WriteUpsertRows, FirstStepFacts
      <3> QED  BY <1>0, <2>0, <3>1
    <2>2. ASSUME NEW c \in Clients, WriteRoot(c) PROVE Nas \notin bitmask'[f]
      BY <2>0, <2>2, WriteRootRows, FirstStepFacts
    <2>3. CASE EvictBits /\ bitmask' # bitmask
      <3>1. /\ bitmask'[path[Evictor]] = fbm[Evictor] \ {etier}
            /\ \A p \in Paths \ {path[Evictor]} : bitmask'[p] = bitmask[p]
        BY <1>0, <2>3, EvictBitsWritten, FirstStepFacts
      <3> QED  BY <1>0, <2>0, <3>1, TaskNames DEF NoNas
    <2>4. CASE PromoteBits
      <3>1. /\ bitmask'[path[Promoter]] = fbm[Promoter] \cup {Local}
            /\ \A p \in Paths \ {path[Promoter]} : bitmask'[p] = bitmask[p]
        BY <1>0, <2>4, PromoteBitsWritten, FirstStepFacts
      <3> QED  BY <1>0, <2>0, <3>1, TaskNames DEF NoNas
    <2>5. CASE UploadBits /\ bitmask' # bitmask
      <3>1. /\ bitmask'[path[Uploader]] = fbm[Uploader] \cup {S3}
            /\ \A p \in Paths \ {path[Uploader]} : bitmask'[p] = bitmask[p]
        BY <1>0, <2>5, UploadBitsWritten
      <3> QED  BY <1>0, <2>0, <3>1, TaskNames DEF NoNas
    <2> QED  BY <1>0, <2>0, <2>1, <2>2, <2>3, <2>4, <2>5, BitsUntouched, FirstStepFacts
  <1> QED  BY <1>1, <1>2 DEF NoNas


-----------------------------------------------------------------------------
(* The S3 bit and the upload in hand *)

\* While other processes run the uploader stays where it is, and no entry goes.
LEMMA UploaderWaits ==
    ASSUME FirstStep, Serving, ~Upload
    PROVE  /\ pc'[Uploader] = pc[Uploader] /\ path'[Uploader] = path[Uploader]
           /\ buf'[Uploader] = buf[Uploader] /\ rbm'[Uploader] = rbm[Uploader]
           /\ fbm'[Uploader] = fbm[Uploader] /\ fid'[Uploader] = fid[Uploader]
           /\ entry' = entry /\ wal \subseteq wal'
  <1>0. TypeInv /\ ProcTypeOK /\ RowInv /\ WorkInv /\ [Next]_vars /\ ~Crash
    BY FirstStepFacts DEF FirstStep
  <1>1. ~Replay
    BY <1>0, WhoRuns
  <1>2. ASSUME NEW c \in Clients, Request(c) \/ Handle(c) \/ Drop(c)
        PROVE  Others(c) /\ entry' = entry /\ wal \subseteq wal'
    <2>1. Others(c)
      BY <1>0, <1>2, ClientFrame DEF Request, Handle, Drop
    <2> QED  BY <1>0, <1>2, <2>1 DEF Request, Handle, Drop, BeginWrite, BeginRead, BeginDelete,
       Abort, ClientStep, WriteFill, WriteUpsert, WriteParents, WriteRoot, Upsert, WriteEnqueueNas,
       WriteEnqueueS3, WalEnqueue, ReadMeta, ReadLocal, ReadCold, Reply, DeleteFromTier, DeleteMeta,
       RowInv, Unwritten, metaVars, workVars, lapseVars, DbFault
  <1>3. ASSUME Evict \/ Promote
        PROVE  (Others(Evictor) \/ Others(Promoter)) /\ entry' = entry /\ wal' = wal
    <2>1. Others(Evictor) \/ Others(Promoter)
      BY <1>0, <1>3, EvictFrame, PromoteFrame
    <2> QED  BY <1>3, <2>1 DEF Evict, EvictStep, EvictScan, EvictEnd, EvictLookup, EvictDelete,
           EvictBits, Promote, PromoteStep, PromoteRecv, PromoteRead, PromoteSkip, PromoteCreate,
           PromoteFill, PromoteMeta, PromoteBits, PromoteLost, ReadMeta, ReadLocal, ReadCold,
           SetTierBitmask, metaVars, workVars, lapseVars, DbFault
  <1>4. CASE UNCHANGED vars
    BY <1>4 DEF vars, metaVars, workVars, lapseVars, routerVars, localVars
  <1>5. CASE \E c \in Clients : Request(c) \/ Handle(c) \/ Drop(c)
    BY <1>2, <1>5, TaskNames DEF Others
  <1>6. CASE Evict \/ Promote
    BY <1>3, <1>6, TaskNames DEF Others
  <1> QED  BY <1>0, <1>1, <1>4, <1>5, <1>6 DEF Next

\* The uploader has an entry in hand only while the daemon serves.
LEMMA UploaderStays ==
    ASSUME FirstStep, ~Upload, pc'[Uploader] \in HandLabels
    PROVE  Serving
  <1>0. TypeInv /\ WorkInv /\ ProcTypeOK /\ [Next]_vars /\ ~Crash /\ "idle" \notin HandLabels
    BY FirstStepFacts DEF FirstStep, HandLabels
  <1>1. SUFFICES ASSUME ~Serving PROVE FALSE
    OBVIOUS
  <1>2. pc[Uploader] = "idle"
    BY <1>0, <1>1, TaskNames DEF WorkInv, WorkerPlace
  <1>3. CASE Replay
    BY <1>0, <1>2, <1>3, ReplayFrame, TaskNames DEF Others
  <1>4. CASE UNCHANGED vars
    BY <1>0, <1>2, <1>4 DEF vars, routerVars, localVars
  <1>5. ~(\E c \in Clients : Request(c) \/ Handle(c) \/ Drop(c)) /\ ~Evict /\ ~Promote
    BY <1>0, <1>1, WhoRuns
  <1> QED  BY <1>0, <1>3, <1>4, <1>5 DEF Next

\* The entry in hand of the uploader is the upload of its file.
LEMMA UploadInHand ==
    ASSUME BaseInv, pc[Uploader] \in HandLabels
    PROVE  /\ Serving /\ path[Uploader] \in Files /\ HasRow(path[Uploader])
           /\ fid[Uploader] = rowid[path[Uploader]] /\ entry # {}
           /\ \A e \in entry : e \in wal /\ e.op = UploadS3 /\ e.fid = rowid[path[Uploader]]
           /\ \A e \in entry, x \in wal : x.op = UploadS3 /\ x.fid = rowid[path[Uploader]] => x = e
  <1> USE DEF BaseInv
  <1>1. Serving
    <2>1. "idle" \notin HandLabels
      BY DEF HandLabels
    <2> QED  BY <2>1, TaskNames DEF WorkInv, WorkerPlace
  <1>2. /\ path[Uploader] \in Files /\ HasRow(path[Uploader])
        /\ fid[Uploader] = rowid[path[Uploader]] /\ entry # {}
        /\ \A e \in entry : e \in wal /\ e.op = UploadS3 /\ e.fid = rowid[path[Uploader]]
    BY <1>1 DEF EntryInv, InHand, SnapshotCurrent
  <1> QED  BY <1>1, <1>2 DEF EntryInv, EntriesOfFiles

\* A writer that is not done has no S3 bit on its file.
LEMMA PendingWriter ==
    ASSUME FirstStep, UploadsPending, NEW c \in Clients, pc'[c] \in RowLabels
    PROVE  S3 \notin bitmask'[path'[c]]
  <1>0. BaseInv /\ BaseInv' /\ [Next]_vars /\ RowInv /\ EntryInv
    BY FirstStepFacts DEF FirstStep
  <1>1. path'[c] \in Files
    BY <1>0 DEF BaseInv, TypeInv, PathInv, RowLabels, ClientLabels
  <1>2. PICK f \in Files : f = path'[c]
    BY <1>1
  <1>3. SUFFICES ASSUME S3 \in bitmask'[f] PROVE FALSE
    BY <1>2
  <1>4. CASE ~HasRow(f)
    <2>1. S3 \notin bitmask[f]
      BY <1>0, <1>4 DEF RowInv, RowContent, Paths
    <2>2. UploadBits /\ path[Uploader] = f
      BY <1>3, <2>1, NewS3Bit
    <2> QED  BY <1>0, <1>3, <1>4, <2>1, <2>2, UploadBitsWritten
  <1>5. CASE HasRow(f)
    <2>1. pc'[c] \in WriteLabels
      BY DEF RowLabels, WriteLabels
    <2>2. pc[c] \in WriteLabels /\ path[c] = f
      BY <1>0, <1>2, <1>5, <2>1, WritersStay DEF FirstStep
    <2>3. pc[c] \in RowLabels
      BY <1>0, <1>5, <2>2 DEF RowInv, OneWriter, RowLabels, WriteLabels
    <2>4. S3 \notin bitmask[f] /\ fid[c] = rowid[f]
      BY <1>0, <2>2, <2>3 DEF UploadsPending, RowInv, OneWriter
    <2>5. UploadBits /\ path[Uploader] = f
      BY <1>3, <2>4, NewS3Bit
    <2>6. pc[Uploader] \in HandLabels
      BY <2>5 DEF UploadBits, HandLabels, DbFault
    <2>7. PICK e \in entry : e \in wal /\ e.op = UploadS3 /\ e.fid = rowid[f]
      BY <1>0, <2>5, <2>6, UploadInHand
    <2> QED  BY <1>0, <2>3, <2>4, <2>7 DEF EntryInv, EntriesOfFiles
  <1> QED  BY <1>4, <1>5

\* A queued upload of a file that has the S3 bit is the one the uploader is
\* about to complete, or has failed to.
LEMMA PendingEntry ==
    ASSUME FirstStep, UploadsPending, NEW f \in Files \ lapsed', NEW x \in wal', x.op = UploadS3,
           x.fid = rowid'[f], S3 \in bitmask'[f]
    PROVE  pc'[Uploader] = "u_done" /\ x \in entry'
  <1>0. /\ BaseInv /\ BaseInv' /\ [Next]_vars /\ RowInv /\ EntryInv /\ EntryInv' /\ f \in Paths
        /\ ProcTypeOK /\ f \notin lapsed
    BY FirstStepFacts DEF FirstStep, BaseInv
  <1>1. CASE S3 \in bitmask[f]
    <2>1. HasRow(f) /\ rowid'[f] = rowid[f]
      BY <1>0, <1>1 DEF RowInv, RowContent, FirstStep, RowsKept
    <2>2. PICK y \in wal : y.op = UploadS3 /\ y.fid = rowid[f]
      <3>1. ASSUME NEW c \in Clients, WriteEnqueueS3(c), path[c] \in Files, HasRow(path[c]),
                   x.fid = rowid[path[c]]
            PROVE  FALSE
        <4>1. path[c] = f
          BY <1>0, <2>1, <3>1 DEF BaseInv, WalIntegrity, RowIdsUnique, Paths
        <4>2. pc[c] \in RowLabels
          BY <3>1 DEF WriteEnqueueS3, RowLabels
        <4> QED  BY <1>1, <4>1, <4>2 DEF UploadsPending
      <3> QED  BY <1>0, <2>1, <3>1, EntrySources
    <2>3. pc[Uploader] = "u_done" /\ y \in entry
      BY <1>0, <1>1, <2>2 DEF UploadsPending
    <2>4. pc[Uploader] \in HandLabels
      BY <2>3 DEF HandLabels
    <2>5. Serving /\ rowid[path[Uploader]] = rowid[f]
      BY <1>0, <2>2, <2>3, <2>4, UploadInHand
    <2>6. \A e \in entry, z \in wal : z.op = UploadS3 /\ z.fid = rowid[f] => z = e
      BY <1>0, <2>4, <2>5, UploadInHand
    <2>7. CASE Upload
      <3>1. UploadComplete
        BY <2>3, <2>7 DEF Upload, UploaderStep, UploadLoad, UploadNext, UploadSkip, UploadEnd,
           UploaderRead, UploadPut, UploadBits, UploadFail, ReadMeta, ReadLocal, ReadCold
      <3>0. path[Uploader] = f /\ f # Root
        <4>1. path[Uploader] \in Files /\ HasRow(path[Uploader])
          BY <1>0, <2>4, UploadInHand
        <4> QED  BY <1>0, <2>1, <2>5, <4>1, PathAssumption DEF BaseInv, WalIntegrity, RowIdsUnique, Paths
      <3>2. PICK e \in entry : WalComplete(e.id)
        BY <3>0, <3>1 DEF UploadComplete
      <3>3. x \in wal /\ x.id # e.id
        BY <3>2 DEF WalComplete
      <3>4. x = e
        BY <2>1, <2>6, <3>3
      <3> QED  BY <3>3, <3>4
    <2>8. CASE ~Upload
      <3>1. pc'[Uploader] = "u_done" /\ entry' = entry /\ y \in wal'
        BY <2>3, <2>5, <2>8, UploaderWaits
      <3>2. x = y
        BY <1>0, <2>1, <2>2, <3>1 DEF EntryInv, EntriesOfFiles
      <3> QED  BY <2>3, <3>1, <3>2
    <2> QED  BY <2>7, <2>8
  <1>2. CASE S3 \notin bitmask[f]
    <2>1. UploadBits /\ path[Uploader] = f
      BY <1>2, NewS3Bit
    <2>2. pc[Uploader] \in HandLabels
      BY <2>1 DEF UploadBits, HandLabels, DbFault
    <2>3. wal' = wal /\ rowid' = rowid /\ entry' = entry /\ pc'[Uploader] = "u_done"
      BY <1>0, <1>2, <2>1, TaskNames DEF UploadBits, SetTierBitmask, workVars, Goto, ProcTypeOK,
         DbFault, metaVars, fileVars
    <2>4. PICK e \in entry : e \in wal /\ \A z \in wal : z.op = UploadS3 /\ z.fid = rowid[f] => z = e
      BY <1>0, <2>1, <2>2, UploadInHand
    <2> QED  BY <2>3, <2>4
  <1> QED  BY <1>1, <1>2

\* The uploader works on a file that has the bit already only when it has failed
\* to complete the upload.
LEMMA PendingUpload ==
    ASSUME FirstStep, UploadsPending, pc'[Uploader] \in HandLabels \ {"u_done"}
    PROVE  S3 \notin bitmask'[path'[Uploader]] \/ path'[Uploader] \in lapsed'
  <1>0. /\ BaseInv /\ BaseInv' /\ [Next]_vars /\ TypeInv /\ WalIntegrity /\ EntryInv /\ ProcTypeOK
        /\ Uploader \in Procs /\ ~Crash /\ lapsed \subseteq lapsed'
    BY FirstStepFacts, TaskNames DEF FirstStep
  <1>1. path'[Uploader] \in Files
    BY <1>0 DEF BaseInv, EntryInv, InHand
  <1>2. PICK f \in Files : f = path'[Uploader]
    BY <1>1
  <1>3. SUFFICES ASSUME S3 \in bitmask'[f], f \notin lapsed PROVE FALSE
    BY <1>0, <1>2
  <1>4. S3 \in bitmask[f]
    <2>1. SUFFICES ASSUME S3 \notin bitmask[f] PROVE FALSE
      OBVIOUS
    <2>2. UploadBits
      BY <1>3, <2>1, NewS3Bit
    <2> QED  BY <1>0, <1>3, <2>1, <2>2 DEF UploadBits, Goto, ProcTypeOK, DbFault, metaVars, fileVars
  <1>5. ASSUME pc[Uploader] \in HandLabels \ {"u_done"}, path'[Uploader] = path[Uploader] PROVE FALSE
    BY <1>2, <1>3, <1>4, <1>5 DEF UploadsPending
  <1>6. CASE Upload
    <2>1. CASE UploadNext
      <3>1. pc[Uploader] = "u_next" /\ Serving
        BY <1>0, <1>6, <2>1, WhoRuns DEF UploadNext, BaseInv
      <3>2. PICK d \in todo : \/ PathsOf(d.fid) = {}
                              \/ \E q \in PathsOf(d.fid) : path' = [path EXCEPT ![Uploader] = q]
        BY <2>1 DEF UploadNext, Oldest
      <3>3. d \in wal /\ d.op = UploadS3
        BY <1>0, <3>1 DEF EntryInv, SnapshotCurrent
      <3>4. PathsOf(d.fid) # {} /\ \A q \in PathsOf(d.fid) : rowid[q] = d.fid
        BY <1>0, <3>3, EntryFile
      <3>5. PICK q \in PathsOf(d.fid) : path' = [path EXCEPT ![Uploader] = q]
        BY <3>2, <3>4
      <3>6. q = f
        BY <1>0, <1>2, <3>5 DEF ProcTypeOK
      <3> QED  BY <1>3, <1>4, <3>1, <3>3, <3>4, <3>6 DEF UploadsPending
    <2>2. CASE UploaderRead
      <3>1. pc[Uploader] \in {"r_meta", "r_local", "r_cold"} /\ path'[Uploader] = path[Uploader]
        BY <1>0, <2>2, ReadFrame DEF UploaderRead
      <3> QED  BY <1>5, <3>1 DEF HandLabels
    <2>3. CASE UploadPut
      BY <1>5, <2>3 DEF UploadPut, HandLabels
    <2>4. CASE UploadLoad \/ UploadSkip \/ UploadEnd \/ UploadComplete \/ UploadFail
      BY <1>0, <2>4 DEF UploadLoad, UploadSkip, UploadEnd, UploadComplete, UploadFail, Return, Goto,
         ProcTypeOK, HandLabels, localVars
    <2>5. CASE UploadBits
      BY <1>5, <2>5 DEF UploadBits, HandLabels
    <2> QED  BY <1>6, <2>1, <2>2, <2>3, <2>4, <2>5 DEF Upload, UploaderStep
  <1>7. CASE ~Upload
    BY <1>5, <1>7, UploaderStays, UploaderWaits
  <1> QED  BY <1>6, <1>7

\* The three together.
LEMMA UploadsPendingStep ==
    ASSUME FirstStep, UploadsPending
    PROVE  UploadsPending'
  <1>1. \A c \in Clients : pc'[c] \in RowLabels => S3 \notin bitmask'[path'[c]]
    BY PendingWriter
  <1>2. \A f \in Files \ lapsed', x \in wal' :
          x.op = UploadS3 /\ x.fid = rowid'[f] /\ S3 \in bitmask'[f] => pc'[Uploader] = "u_done" /\ x \in entry'
    BY PendingEntry
  <1> QED  BY <1>1, <1>2, PendingUpload DEF UploadsPending

\* In the first run an upload is left queued only once it is done.
LEMMA NewlyLapsed ==
    ASSUME FirstStep, lapsed' # lapsed
    PROVE  /\ path[Uploader] \in Files /\ Uploaded(path[Uploader])
           /\ lapsed' = lapsed \cup {path[Uploader]} /\ UNCHANGED <<metaVars, storeVars>>
  <1>0. BaseInv /\ WorkerBits /\ FirstRun /\ WorkInv /\ [Next]_vars
    BY FirstStepFacts DEF FirstStep
  <1>1. ~Replay
    <2>1. SUFFICES ASSUME Replay PROVE FALSE
      OBVIOUS
    <2>2. wal = {}
      <3>1. ~Serving
        BY <1>0, <2>1, WhoRuns DEF BaseInv
      <3> QED  BY <3>1 DEF FirstStep, ColdInv, FirstReplay
    <2>3. UploadsLeft = {}
      BY <2>2 DEF UploadsLeft
    <2> QED  BY <2>1, <2>3, FirstReplayQuiet DEF ReplayLoad, ReplayNext, ReplayEnd, lapseVars
  <1>2. Upload
    BY <1>0, <1>1 DEF Next, Request, Handle, Drop, Evict, Promote, Crash, vars, workVars, lapseVars
  <1>3. UploadComplete
    BY <1>2 DEF Upload, UploaderStep, UploadLoad, UploadNext, UploadSkip, UploadEnd, UploaderRead,
       UploadPut, UploadBits, UploadFail, workVars, lapseVars
  <1>4. pc[Uploader] = "u_done"
    BY <1>0, <1>3 DEF UploadComplete, BaseInv, EntryInv, InHand
  <1>5. path[Uploader] \in Files /\ HasRow(path[Uploader]) /\ path[Uploader] # Root
    BY <1>0, <1>4, UploadInHand, PathAssumption DEF HandLabels
  <1>6. lapsed' = lapsed \cup {path[Uploader]} /\ UNCHANGED <<metaVars, storeVars>>
    BY <1>3, <1>5 DEF UploadComplete, DbFault
  <1>7. S3 \in bitmask[path[Uploader]]
    BY <1>0, <1>4 DEF WorkerBits, Loose
  <1> QED  BY <1>5, <1>6, <1>7 DEF Uploaded

\* What database errors leave behind is uploaded.
LEMMA LapsedStep ==
    ASSUME FirstStep, LapsedUploaded
    PROVE  LapsedUploaded'
  <1>0. BitsKept /\ RowsKept /\ FirstRun /\ lapsed \subseteq Files
    BY FirstStepFacts DEF FirstStep, TypeInv, TypeOK, WorkTypeOK
  <1>1. \A f \in Files : Uploaded(f) => Uploaded(f)'
    BY <1>0 DEF BitsKept, RowsKept, Uploaded, Loose, Paths
  <1>2. CASE lapsed' = lapsed
    BY <1>0, <1>1, <1>2 DEF LapsedUploaded
  <1>3. CASE lapsed' # lapsed
    BY <1>0, <1>1, <1>3, NewlyLapsed DEF LapsedUploaded
  <1> QED  BY <1>2, <1>3


-----------------------------------------------------------------------------
(* What is on the local tier and on S3 *)

\* The local file of f stays as it is, with its open handles.
LocalSame(f) ==
    /\ store'[Local][f] = store[Local][f] /\ openers'[f] = openers[f]
    /\ f \in mixing' <=> f \in mixing

\* Before the upload of a file only its writer touches the local copy:
\* promotion and eviction are of uploaded files.
LEMMA LocalTouched ==
    ASSUME FirstStep, NEW f \in Files, ~Uploaded(f)
    PROVE  \/ LocalSame(f)
           \/ \E c \in Clients, d \in Data : BeginWrite(c, f, d)
           \/ \E c \in Clients : path[c] = f /\ (WriteFill(c) \/ Abort(c))
  <1> DEFINE Goal == \/ LocalSame(f)
                     \/ \E c \in Clients, d \in Data : BeginWrite(c, f, d)
                     \/ \E c \in Clients : path[c] = f /\ (WriteFill(c) \/ Abort(c))
  <1>0. TypeInv /\ ProcTypeOK /\ StoreTypeOK /\ RowInv /\ Movers /\ FirstRun /\ [Next]_vars /\ ~Crash
    BY FirstStepFacts DEF FirstStep
  <1>1. ASSUME UNCHANGED storeVars PROVE LocalSame(f)
    BY <1>1 DEF storeVars, LocalSame
  <1>2. ASSUME NEW p \in Procs, NEW g \in Files \ {f}, NEW d,
               LocalCreate(p, g) \/ LocalFill(p, g, d) \/ LocalClose(p, g)
        PROVE  LocalSame(f)
    BY <1>0, <1>2 DEF LocalCreate, LocalFill, LocalClose, StoreTypeOK, LocalSame, Tier
  <1>3. ASSUME NEW c \in Clients, Request(c) \/ Handle(c) \/ Drop(c) PROVE Goal
    <2>1. ASSUME NEW g \in Files, NEW d \in Data, BeginWrite(c, g, d) PROVE Goal
      <3>1. CASE g = f
        BY <2>1, <3>1
      <3>2. CASE g # f
        BY <1>2, <2>1, <3>2, ClientsAreProcs DEF BeginWrite
      <3> QED  BY <3>1, <3>2
    <2>2. ASSUME WriteFill(c) \/ Abort(c) PROVE Goal
      <3>1. path[c] \in Files
        BY <1>0, <2>2 DEF WriteFill, Abort, TypeInv, PathInv, ClientLabels
      <3>2. CASE path[c] = f
        BY <2>2, <3>2
      <3>3. CASE path[c] # f
        BY <1>2, <2>2, <3>1, <3>3, ClientsAreProcs DEF WriteFill, Abort
      <3> QED  BY <3>2, <3>3
    <2>3. ~DeleteFromTier(c)
      BY <1>0 DEF DeleteFromTier, RowInv, Unwritten
    <2> QED  BY <1>1, <1>3, <2>1, <2>2, <2>3 DEF Request, Handle, Drop, BeginRead, BeginDelete,
             ClientStep, WriteUpsert, WriteParents, WriteRoot, WriteEnqueueNas, WriteEnqueueS3,
             ReadMeta, ReadLocal, ReadCold, Reply, DeleteMeta, DbFault
  <1>4. CASE Upload
    <2>1. CASE UploadPut
      <3>1. StorePut(S3, path[Uploader], buf[Uploader]) \/ UNCHANGED storeVars
        BY <2>1 DEF UploadPut, S3Put
      <3>2. S3 # Local /\ Local \in Tier
        BY DEF S3, Local, Tier
      <3> QED  BY <1>0, <1>1, <3>1, <3>2 DEF StorePut, StoreTypeOK, LocalSame
    <2> QED  BY <1>1, <1>4, <2>1 DEF Upload, UploaderStep, UploadLoad, UploadNext, UploadSkip,
             UploadEnd, UploaderRead, UploadBits, UploadComplete, UploadFail, ReadMeta, ReadLocal,
             ReadCold, DbFault
  <1>5. CASE Replay
    BY <1>1, <1>5, FirstReplayQuiet DEF ReplayLoad, ReplayNext, ReplayEnd, DbFault
  <1>6. CASE Evict
    <2>1. CASE EvictDelete
      <3>1. path[Evictor] \in Files /\ Uploaded(path[Evictor])
        BY <1>0, <2>1 DEF EvictDelete, Movers, Uploaded, Loose
      <3>2. StoreDelete(etier, path[Evictor]) \/ UNCHANGED storeVars
        BY <2>1 DEF EvictDelete
      <3>3. path[Evictor] # f /\ etier \in Tier /\ Local \in Tier
        BY <1>0, <3>1 DEF TypeInv, TypeOK, EvictTypeOK, Tier
      <3>4. ASSUME StoreDelete(etier, path[Evictor]) PROVE LocalSame(f)
        <4>1. store'[Local][f] = store[Local][f]
          BY <1>0, <3>3, <3>4 DEF StoreDelete, StoreTypeOK
        <4>2. openers'[f] = openers[f] /\ mixing' = mixing
          BY <1>0, <3>1, <3>3, <3>4 DEF StoreDelete, StoreTypeOK
        <4> QED  BY <4>1, <4>2 DEF LocalSame
      <3> QED  BY <1>1, <3>2, <3>4
    <2> QED  BY <1>1, <1>6, <2>1 DEF Evict, EvictStep, EvictScan, EvictEnd, EvictLookup, EvictBits,
       DbFault
  <1>7. CASE Promote
    <2>1. CASE PromoteCreate \/ PromoteFill
      <3>1. path[Promoter] \in Files /\ Settled(path[Promoter])
        BY <1>0, <2>1 DEF PromoteCreate, PromoteFill, Movers
      <3>2. path[Promoter] \in Files \ {f}
        BY <1>0, <3>1, SettledUploaded
      <3> QED  BY <1>2, <2>1, <3>2, TaskNames DEF PromoteCreate, PromoteFill
    <2> QED  BY <1>1, <1>7, <2>1 DEF Promote, PromoteStep, PromoteRecv, PromoteRead, PromoteSkip,
             PromoteMeta, PromoteBits, PromoteLost, ReadMeta, ReadLocal, ReadCold, DbFault
  <1>8. CASE UNCHANGED vars
    BY <1>1, <1>8 DEF vars
  <1> QED  BY <1>0, <1>3, <1>4, <1>5, <1>6, <1>7, <1>8 DEF Next

\* In the first run only the uploader writes to S3, and nothing is deleted.
LEMMA S3Touched ==
    ASSUME FirstStep, NEW f \in Files
    PROVE  \/ store'[S3][f] = store[S3][f]
           \/ UploadPut /\ path[Uploader] = f /\ store'[S3][f] = buf[Uploader]
  <1> DEFINE Same == store'[S3][f] = store[S3][f]
  <1>0. /\ TypeInv /\ ProcTypeOK /\ StoreTypeOK /\ RowInv /\ EvictTypeOK /\ PathInv /\ [Next]_vars /\ ~Crash
        /\ S3 \in Tier /\ Local \in Tier /\ S3 # Local /\ S3 # Nas
    BY FirstStepFacts DEF FirstStep, TypeInv, TypeOK, S3, Local, Nas, Tier
  <1>1. ASSUME UNCHANGED storeVars PROVE Same
    BY <1>1 DEF storeVars
  <1>2. ASSUME NEW p, NEW g, NEW d, LocalCreate(p, g) \/ LocalFill(p, g, d) \/ LocalClose(p, g)
        PROVE  Same
    BY <1>0, <1>2 DEF LocalCreate, LocalFill, LocalClose, StoreTypeOK
  <1>3. ASSUME NEW c \in Clients, Request(c) \/ Handle(c) \/ Drop(c) PROVE Same
    <2>1. ~DeleteFromTier(c)
      BY <1>0 DEF DeleteFromTier, RowInv, Unwritten
    <2> QED  BY <1>1, <1>2, <1>3, <2>1 DEF Request, Handle, Drop, BeginWrite, BeginRead,
             BeginDelete, Abort, ClientStep, WriteFill, WriteUpsert, WriteParents, WriteRoot,
             WriteEnqueueNas, WriteEnqueueS3, ReadMeta, ReadLocal, ReadCold, Reply, DeleteMeta,
             DbFault
  <1>4. ASSUME Upload
        PROVE  Same \/ (UploadPut /\ path[Uploader] = f /\ store'[S3][f] = buf[Uploader])
    <2>1. CASE UploadPut
      <3>1. StorePut(S3, path[Uploader], buf[Uploader]) \/ UNCHANGED storeVars
        BY <2>1 DEF UploadPut, S3Put
      <3> QED  BY <1>0, <1>1, <2>1, <3>1 DEF StorePut, StoreTypeOK
    <2> QED  BY <1>1, <1>4, <2>1 DEF Upload, UploaderStep, UploadLoad, UploadNext, UploadSkip,
             UploadEnd, UploaderRead, UploadBits, UploadComplete, UploadFail, ReadMeta, ReadLocal,
             ReadCold, DbFault
  <1>5. CASE Replay
    BY <1>1, <1>5, FirstReplayQuiet DEF ReplayLoad, ReplayNext, ReplayEnd, DbFault
  <1>6. CASE Evict
    <2>1. CASE EvictDelete
      <3>1. etier # S3 /\ (StoreDelete(etier, path[Evictor]) \/ UNCHANGED storeVars)
        BY <1>0, <2>1 DEF EvictDelete, EvictTypeOK
      <3> QED  BY <1>0, <1>1, <3>1 DEF StoreDelete, StoreTypeOK
    <2> QED  BY <1>1, <1>6, <2>1 DEF Evict, EvictStep, EvictScan, EvictEnd, EvictLookup, EvictBits,
       DbFault
  <1>7. CASE Promote
    BY <1>1, <1>2, <1>7 DEF Promote, PromoteStep, PromoteRecv, PromoteRead, PromoteSkip,
             PromoteCreate, PromoteFill, PromoteMeta, PromoteBits, PromoteLost, ReadMeta, ReadLocal,
             ReadCold, DbFault
  <1>8. CASE UNCHANGED vars
    BY <1>1, <1>8 DEF vars
  <1> QED  BY <1>0, <1>3, <1>4, <1>5, <1>6, <1>7, <1>8 DEF Next

\* A row is inserted by the writer of the file.
LEMMA NewRow ==
    ASSUME FirstStep, NEW f \in Files, ~HasRow(f), HasRow(f)'
    PROVE  \E c \in Clients : WriteUpsert(c) /\ path[c] = f
  <1>0. TypeInv /\ RowInv /\ [Next]_vars /\ f \in Paths
    BY FirstStepFacts DEF FirstStep
  <1>1. ~(Upload \/ Replay \/ Evict \/ Promote \/ Crash \/ UNCHANGED vars)
    BY <1>0, TasksQuiet DEF RowQuiet, HasRow
  <1>2. PICK c \in Clients : Request(c) \/ Handle(c) \/ Drop(c)
    BY <1>0, <1>1 DEF Next
  <1>3. ~WriteRoot(c)
    BY <1>0, WriteRootRows DEF HasRow
  <1>4. WriteUpsert(c)
    BY <1>0, <1>2, <1>3 DEF Request, Handle, Drop, BeginWrite, BeginRead, BeginDelete, Abort,
       ClientStep, WriteFill, WriteParents, WriteEnqueueNas, WriteEnqueueS3, WalEnqueue, ReadMeta,
       ReadLocal, ReadCold, Reply, DeleteFromTier, DeleteMeta, RowInv, Unwritten, HasRow, metaVars,
       fileVars, DbFault
  <1> QED  BY <1>0, <1>4, WriteUpsertRows DEF HasRow


-----------------------------------------------------------------------------
(* The first run: copies *)

\* A write has one handle on its file, and nobody else touches the file.
LEMMA HandleAlone ==
    ASSUME FirstStep, NEW c \in Clients, pc[c] \in {"w_fill", "w_upsert"}, pc'[c] = pc[c]
    PROVE  LocalSame(path[c])
  <1>0. TypeInv /\ RowInv /\ ProcTypeOK /\ c \in Procs
    BY FirstStepFacts, ClientsAreProcs
  <1>1. PICK f \in Files : f = path[c]
    BY <1>0 DEF TypeInv, PathInv, ClientLabels
  <1>2. ~Uploaded(f)
    BY <1>0, <1>1 DEF RowInv, OneWriter, Uploaded
  <1>3. pc[c] \in WriteLabels
    BY DEF WriteLabels
  <1>4. ASSUME NEW a \in Clients, NEW d \in Data, BeginWrite(a, f, d) PROVE FALSE
    <2>1. writes[f] = 0
      BY <1>4 DEF BeginWrite, FirstStep, WritesOnce, BaseInv, TypeInv, TypeOK, RouterTypeOK, BoundTypeOK
    <2> QED  BY <1>0, <1>1, <1>3, <2>1 DEF RowInv, Unwritten
  <1>5. ASSUME NEW a \in Clients, path[a] = f, WriteFill(a) \/ Abort(a) PROVE FALSE
    <2>1. pc[a] \in WriteLabels
      BY <1>0, <1>5 DEF WriteFill, Abort, ClientLabels, WriteLabels, RowInv, Unwritten
    <2>2. a = c
      BY <1>0, <1>1, <1>3, <1>5, <2>1 DEF RowInv, OneWriter
    <2> QED  BY <1>0, <1>5, <2>2 DEF WriteFill, Abort, Return, Goto, ProcTypeOK
  <1> QED  BY <1>1, <1>2, <1>4, <1>5, LocalTouched

\* How a request comes to hold the handle, and to have closed it.
LEMMA WriterPlace ==
    ASSUME FirstStep, NEW c \in Clients, pc'[c] \in {"w_fill", "w_upsert"}
    PROVE  \/ pc'[c] = pc[c] /\ path'[c] = path[c] /\ buf'[c] = buf[c]
           \/ \E f \in Files, d \in Data : BeginWrite(c, f, d)
           \/ WriteFill(c)
  <1>0. TypeInv /\ ProcTypeOK /\ c \in Procs /\ ~Crash /\ [Next]_vars
    BY FirstStepFacts, ClientsAreProcs DEF FirstStep
  <1>1. CASE Upload \/ Replay \/ Evict \/ Promote
    BY <1>0, <1>1, UploadFrame, ReplayFrame, EvictFrame, PromoteFrame, TaskNames DEF Others
  <1>2. CASE UNCHANGED vars
    BY <1>2 DEF vars, routerVars, localVars
  <1>3. ASSUME NEW a \in Clients, a # c, Request(a) \/ Handle(a) \/ Drop(a)
        PROVE  pc'[c] = pc[c] /\ path'[c] = path[c] /\ buf'[c] = buf[c]
    <2>1. Others(a)
      BY <1>0, <1>3, ClientFrame DEF Request, Handle, Drop
    <2> QED  BY <1>0, <1>3, <2>1 DEF Others
  <1>4. ASSUME Request(c) \/ Handle(c) \/ Drop(c)
        PROVE  (\E f \in Files, d \in Data : BeginWrite(c, f, d)) \/ WriteFill(c)
    <2>1. CASE Request(c)
      BY <1>0, <2>1 DEF Request, BeginRead, BeginDelete, Goto, ProcTypeOK
    <2>2. CASE Drop(c)
      BY <1>0, <2>2, ReturnFrame DEF Drop, Abort
    <2>3. CASE Handle(c)
      <3>1. CASE ReadMeta(c) \/ ReadLocal(c) \/ ReadCold(c)
        BY <1>0, <3>1, ReadFrame
      <3>2. CASE DeleteFromTier(c) \/ DeleteMeta(c)
        BY <1>0, <3>2, FirstStepFacts DEF DeleteFromTier, DeleteMeta, RowInv, Unwritten
      <3>3. CASE Return(c, "idle")
        BY <1>0, <3>3, ReturnFrame
      <3>4. CASE WriteUpsert(c) \/ WriteParents(c) \/ WriteRoot(c) \/ WriteEnqueueNas(c)
        BY <1>0, <3>3, <3>4 DEF WriteUpsert, WriteParents, WriteRoot, WriteEnqueueNas, Goto, ProcTypeOK
      <3> QED  BY <2>3, <3>1, <3>2, <3>3, <3>4 DEF Handle, ClientStep, WriteEnqueueS3, Reply
    <2> QED  BY <1>4, <2>1, <2>2, <2>3
  <1>5. CASE \E a \in Clients : Request(a) \/ Handle(a) \/ Drop(a)
    BY <1>3, <1>4, <1>5
  <1> QED  BY <1>0, <1>1, <1>2, <1>5 DEF Next

\* The handle invariant is inductive in the first run.
LEMMA HandleStep ==
    ASSUME FirstStep, HandleInv
    PROVE  HandleInv'
  <1>0. /\ TypeInv /\ ProcTypeOK /\ StoreTypeOK /\ BoundTypeOK /\ RowInv /\ RowInv' /\ [Next]_vars
        /\ Local \in Tier
    BY FirstStepFacts DEF FirstStep, BaseInv, TypeInv, TypeOK, RouterTypeOK, Tier
  <1>1. ASSUME NEW c \in Clients, NEW f \in Files, NEW d \in Data, BeginWrite(c, f, d)
        PROVE  writes[f] = 0 /\ writes'[f] = 1 /\ openers'[f] = {c} /\ f \notin mixing' /\ path'[c] = f
               /\ pc'[c] = "w_fill"
    <2>1. writes[f] = 0
      BY <1>0, <1>1 DEF BeginWrite, FirstStep, WritesOnce, BoundTypeOK
    <2>2. openers[f] = {}
      BY <2>1 DEF HandleInv
    <2> QED  BY <1>0, <1>1, <2>1, <2>2, ClientsAreProcs DEF BeginWrite, LocalCreate, StoreTypeOK, BoundTypeOK,
             ProcTypeOK, Goto
  <1>2. ASSUME NEW f \in Files, writes'[f] = 0 PROVE openers'[f] = {}
    <2>1. writes[f] = 0
      <3>1. CASE writes'[f] = writes[f]
        BY <1>2, <3>1
      <3>2. ASSUME NEW c \in Clients, NEW g \in Files, NEW d \in Data, BeginWrite(c, g, d)
            PROVE  writes[f] = 0
        <4>1. CASE g = f
          BY <1>1, <1>2, <3>2, <4>1
        <4>2. CASE g # f
          BY <1>0, <1>2, <3>2, <4>2 DEF BeginWrite, BoundTypeOK
        <4> QED  BY <4>1, <4>2
      <3>3. ASSUME Upload \/ Replay \/ Evict \/ Promote \/ Crash \/ UNCHANGED vars PROVE writes' = writes
        BY <1>0, <3>3, TasksQuiet DEF RowQuiet
      <3>4. ASSUME NEW c \in Clients, Request(c) \/ Handle(c) \/ Drop(c)
            PROVE  writes' = writes \/ \E g \in Files, d \in Data : BeginWrite(c, g, d)
        BY <3>4 DEF Request, Handle, Drop, BeginRead, BeginDelete, Abort, ClientStep, WriteFill,
             WriteUpsert, WriteParents, WriteRoot, WriteEnqueueNas, WriteEnqueueS3, ReadMeta,
             ReadLocal, ReadCold, Reply, DeleteFromTier, DeleteMeta, boundVars, DbFault
      <3> QED  BY <1>0, <3>1, <3>2, <3>3, <3>4 DEF Next
    <2>2. openers[f] = {} /\ ~Uploaded(f)
      BY <1>0, <2>1 DEF HandleInv, RowInv, Unwritten, Uploaded
    <2>3. ASSUME NEW c \in Clients, path[c] = f, WriteFill(c) \/ Abort(c) PROVE FALSE
      BY <1>0, <2>1, <2>3 DEF WriteFill, Abort, RowInv, Unwritten, ClientLabels, WriteLabels
    <2>4. LocalSame(f)
      BY <1>1, <1>2, <2>2, <2>3, LocalTouched
    <2> QED  BY <2>2, <2>4 DEF LocalSame
  <1>3. ASSUME NEW c \in Clients, pc'[c] = "w_fill" PROVE openers'[path'[c]] = {c} /\ path'[c] \notin mixing'
    <2>1. CASE pc'[c] = pc[c] /\ path'[c] = path[c]
      BY <1>3, <2>1, HandleAlone DEF LocalSame, HandleInv
    <2>2. ASSUME NEW f \in Files, NEW d \in Data, BeginWrite(c, f, d)
          PROVE  openers'[path'[c]] = {c} /\ path'[c] \notin mixing'
      BY <1>1, <2>2
    <2>3. ~WriteFill(c)
      BY <1>0, <1>3, ClientsAreProcs DEF WriteFill, Goto, ProcTypeOK
    <2> QED  BY <1>3, <2>1, <2>2, <2>3, WriterPlace
  <1>4. ASSUME NEW c \in Clients, pc'[c] = "w_upsert"
        PROVE  openers'[path'[c]] = {} /\ store'[Local][path'[c]] = buf'[c]
    <2>1. CASE pc'[c] = pc[c] /\ path'[c] = path[c] /\ buf'[c] = buf[c]
      BY <1>4, <2>1, HandleAlone DEF LocalSame, HandleInv
    <2>2. ASSUME NEW f \in Files, NEW d \in Data, BeginWrite(c, f, d) PROVE FALSE
      BY <1>1, <1>4, <2>2
    <2>3. CASE WriteFill(c)
      <3>1. PICK f \in Files : f = path[c]
        BY <1>0, <2>3 DEF WriteFill, TypeInv, PathInv, ClientLabels
      <3>2. openers[f] = {c} /\ f \notin mixing
        BY <2>3, <3>1 DEF WriteFill, HandleInv
      <3>3. LocalFill(c, f, buf[c]) /\ path' = path /\ buf' = buf
        BY <2>3, <3>1 DEF WriteFill
      <3>4. openers'[f] = {} /\ store' = [store EXCEPT ![Local][f] = buf[c]]
        BY <1>0, <3>2, <3>3 DEF LocalFill, StoreTypeOK
      <3> QED  BY <1>0, <3>1, <3>3, <3>4 DEF StoreTypeOK
    <2> QED  BY <1>4, <2>1, <2>2, <2>3, WriterPlace
  <1> QED  BY <1>2, <1>3, <1>4 DEF HandleInv


\* An uploaded file is on S3, with the recorded content unless it is uploaded again.
LEMMA UploadedCopy ==
    ASSUME FirstStep, CopyInv, NEW f \in Files, Uploaded(f)'
    PROVE  Holds(S3, f)' /\ (f \in lapsed' \/ store'[S3][f] = sha'[f])
  <1>0. BaseInv /\ RowInv /\ RowsKept /\ f \in Paths /\ lapsed \subseteq lapsed'
    BY FirstStepFacts DEF FirstStep
  <1>1. CASE Uploaded(f)
    <2>1. Holds(S3, f) /\ (f \in lapsed \/ store[S3][f] = sha[f]) /\ sha'[f] = sha[f]
      BY <1>0, <1>1 DEF CopyInv, Uploaded, RowsKept
    <2>2. ASSUME UploadPut, path[Uploader] = f, store'[S3][f] = buf[Uploader]
          PROVE  store'[S3][f] # Absent /\ (f \in lapsed \/ store'[S3][f] = sha[f])
      BY <2>2 DEF UploadPut, CopyInv
    <2> QED  BY <1>0, <2>1, <2>2, S3Touched DEF Holds
  <1>2. CASE ~Uploaded(f)
    <2>1. S3 \notin bitmask[f] /\ S3 \in bitmask'[f]
      BY <1>0, <1>2 DEF Uploaded, RowInv, RowContent
    <2>2. UploadBits /\ path[Uploader] = f
      BY <2>1, NewS3Bit
    <2>3. pc[Uploader] = "u_bits" /\ store' = store /\ sha' = sha
      BY <2>2 DEF UploadBits, SetTierBitmask, storeVars, DbFault, metaVars, fileVars
    <2> QED  BY <1>0, <2>2, <2>3 DEF CopyInv, Holds
  <1> QED  BY <1>1, <1>2

\* The recorded content of a file that is not uploaded yet is on the local tier.
LEMMA LocalCopy ==
    ASSUME FirstStep, CopyInv, HandleInv, NEW f \in Files, HasRow(f)', ~Uploaded(f)'
    PROVE  Local \in bitmask'[f] /\ store'[Local][f] = sha'[f] /\ openers'[f] = {}
  <1>0. /\ BaseInv /\ TypeInv /\ RowInv /\ StoreTypeOK /\ RowsKept /\ f \in Paths /\ BitsKept
        /\ S3 \notin bitmask'[f]
    BY FirstStepFacts DEF FirstStep, Uploaded
  <1>1. CASE HasRow(f)
    <2>1. ~Uploaded(f)
      BY <1>0 DEF BitsKept, Uploaded, Loose, FirstStep
    <2>2. /\ Local \in bitmask[f] /\ store[Local][f] = sha[f] /\ openers[f] = {}
          /\ bitmask'[f] = bitmask[f] /\ sha'[f] = sha[f]
      BY <1>0, <1>1, <2>1, LocalOnlyBits DEF CopyInv, RowsKept
    <2>3. ASSUME NEW c \in Clients, NEW d \in Data, BeginWrite(c, f, d) PROVE FALSE
      <3>1. writes[f] = 0
        BY <1>0, <2>3 DEF BeginWrite, FirstStep, WritesOnce, TypeInv, TypeOK, RouterTypeOK, BoundTypeOK
      <3> QED  BY <1>0, <1>1, <3>1 DEF RowInv, Unwritten
    <2>4. ASSUME NEW c \in Clients, path[c] = f, WriteFill(c) PROVE FALSE
      BY <1>0, <1>1, <2>4 DEF WriteFill, RowInv, OneWriter
    <2>5. ASSUME NEW c \in Clients, path[c] = f, Abort(c)
          PROVE  store'[Local][f] = store[Local][f] /\ openers'[f] = {}
      BY <1>0, <2>2, <2>5 DEF Abort, LocalClose, StoreTypeOK
    <2> QED  BY <2>1, <2>2, <2>3, <2>4, <2>5, LocalTouched DEF LocalSame
  <1>2. CASE ~HasRow(f)
    <2>1. PICK c \in Clients : WriteUpsert(c) /\ path[c] = f
      BY <1>2, NewRow
    <2>2. bitmask'[f] = {Local} /\ sha'[f] = buf[c]
      BY <1>0, <2>1, WriteUpsertRows
    <2>3. store' = store /\ openers' = openers /\ pc[c] = "w_upsert"
      BY <2>1 DEF WriteUpsert, storeVars
    <2> QED  BY <2>1, <2>2, <2>3 DEF HandleInv
  <1> QED  BY <1>1, <1>2

\* The uploader reads something, and the recorded content in a first upload.
LEMMA UploaderData ==
    ASSUME FirstStep, UploadsPending, CopyInv, pc'[Uploader] = "data"
    PROVE  /\ buf'[Uploader] # Absent
           /\ path'[Uploader] \in lapsed' \/ buf'[Uploader] = sha'[path'[Uploader]]
  <1>0. /\ BaseInv /\ ProcTypeOK /\ RowsKept /\ Movers /\ ColdReads /\ FirstRun /\ Uploader \in Procs
        /\ "data" \in HandLabels /\ lapsed \subseteq lapsed'
    BY FirstStepFacts, TaskNames DEF FirstStep, HandLabels
  <1>1. ASSUME pc[Uploader] \in HandLabels PROVE sha'[path[Uploader]] = sha[path[Uploader]]
    BY <1>0, <1>1, UploadInHand DEF RowsKept
  <1>2. CASE ~Upload
    <2>1. Serving /\ pc[Uploader] = "data"
      BY <1>0, <1>2, UploaderStays, UploaderWaits
    <2>2. path'[Uploader] = path[Uploader] /\ buf'[Uploader] = buf[Uploader]
      BY <1>2, <2>1, UploaderWaits
    <2> QED  BY <1>0, <1>1, <2>1, <2>2 DEF CopyInv
  <1>3. CASE ReadLocal(Uploader)
    <2>1. pc[Uploader] \in HandLabels \ {"u_done"} /\ path' = path
      BY <1>3 DEF ReadLocal, HandLabels
    <2>2. buf'[Uploader] = store[Local][path[Uploader]] /\ buf'[Uploader] # Absent
      BY <1>0, <1>3 DEF ReadLocal, Goto, ProcTypeOK, Holds
    <2>3. path[Uploader] \in Files /\ HasRow(path[Uploader])
      BY <1>0, <2>1, UploadInHand
    <2>4. ~Uploaded(path[Uploader]) \/ path[Uploader] \in lapsed
      BY <2>1 DEF UploadsPending, Uploaded
    <2> QED  BY <1>0, <1>1, <2>1, <2>2, <2>3, <2>4 DEF CopyInv
  <1>4. CASE ReadCold(Uploader)
    <2>2. pc[Uploader] = "r_cold" /\ path' = path
      BY <1>4 DEF ReadCold
    <2>3. pc[Uploader] \in HandLabels \ {"u_done"}
      BY <2>2 DEF HandLabels
    <2>4. buf'[Uploader] # Absent
      BY <1>0, <1>4 DEF ReadCold, Goto, ProcTypeOK, Holds
    <2>5. path[Uploader] \in lapsed
      <3>1. SUFFICES ASSUME path[Uploader] \notin lapsed PROVE FALSE
        OBVIOUS
      <3>2. Serving /\ S3 \notin bitmask[path[Uploader]]
        BY <1>0, <2>3, <3>1, UploadInHand DEF UploadsPending
      <3>3. Settled(path[Uploader])
        BY <1>0, <2>2, <3>2 DEF Movers, ColdReads
      <3> QED  BY <1>0, <3>2, <3>3 DEF Settled, Loose
    <2> QED  BY <1>0, <2>2, <2>4, <2>5
  <1>5. ~ReadMeta(Uploader)
    BY <1>0 DEF ReadMeta, Goto, ProcTypeOK
  <1>6. ~(UploadLoad \/ UploadNext \/ UploadEnd \/ UploadPut \/ UploadBits \/ UploadComplete \/ UploadFail)
    BY <1>0 DEF UploadLoad, UploadNext, UploadEnd, UploadPut, S3Put, UploadBits, UploadComplete,
       UploadFail, Return, Goto, ProcTypeOK
  <1>7. ~UploadSkip
    BY <1>0 DEF UploadSkip, localVars
  <1> QED  BY <1>2, <1>3, <1>4, <1>5, <1>6, <1>7 DEF Upload, UploaderStep, UploaderRead

\* When the uploader is about to set the bit, S3 holds an object, with the content
\* in a first upload.
LEMMA UploaderStored ==
    ASSUME FirstStep, UploadsPending, CopyInv, pc'[Uploader] = "u_bits"
    PROVE  /\ Holds(S3, path[Uploader])'
           /\ path'[Uploader] \in lapsed' \/ store'[S3][path'[Uploader]] = sha'[path'[Uploader]]
  <1>0. /\ BaseInv /\ ProcTypeOK /\ StoreTypeOK /\ RowsKept /\ Uploader \in Procs
        /\ "u_bits" \in HandLabels /\ "data" \in HandLabels /\ S3 \in Tier /\ lapsed \subseteq lapsed'
    BY FirstStepFacts, TaskNames DEF FirstStep, HandLabels, Tier
  <1>1. ASSUME pc[Uploader] \in HandLabels
        PROVE  path[Uploader] \in Files /\ sha'[path[Uploader]] = sha[path[Uploader]]
    BY <1>0, <1>1, UploadInHand DEF RowsKept
  <1>2. CASE ~Upload
    <2>1. Serving /\ pc[Uploader] = "u_bits"
      BY <1>0, <1>2, UploaderStays, UploaderWaits
    <2>2. path'[Uploader] = path[Uploader] /\ ~UploadPut
      BY <1>2, <2>1, UploaderWaits DEF UploadPut
    <2>3. store'[S3][path[Uploader]] = store[S3][path[Uploader]]
      BY <1>0, <1>1, <2>1, <2>2, S3Touched
    <2> QED  BY <1>0, <1>1, <2>1, <2>2, <2>3 DEF CopyInv, Holds
  <1>3. CASE UploadPut
    <2>1. pc[Uploader] = "data" /\ path' = path
      BY <1>3 DEF UploadPut
    <2>2. StorePut(S3, path[Uploader], buf[Uploader])
      BY <1>0, <1>3 DEF UploadPut, S3Put, Goto, ProcTypeOK
    <2>3. store'[S3][path[Uploader]] = buf[Uploader]
      BY <1>0, <1>1, <2>1, <2>2 DEF StorePut, StoreTypeOK
    <2> QED  BY <1>0, <1>1, <2>1, <2>3 DEF CopyInv, Holds
  <1>4. ~UploaderRead
    BY <1>0, ReadFrame DEF UploaderRead
  <1>5. ~(UploadLoad \/ UploadNext \/ UploadEnd \/ UploadBits \/ UploadComplete \/ UploadFail)
    BY <1>0 DEF UploadLoad, UploadNext, UploadEnd, UploadBits, UploadComplete, UploadFail, Return,
       Goto, ProcTypeOK
  <1>6. ~UploadSkip
    BY <1>0 DEF UploadSkip, localVars
  <1> QED  BY <1>2, <1>3, <1>4, <1>5, <1>6 DEF Upload, UploaderStep

\* The invariant of the first run is inductive.
LEMMA FirstRunStep ==
    ASSUME WritesOnce, BaseInv, BaseInv', RowsKept, ColdInv, FirstRunInv, [Next]_vars
    PROVE  FirstRunInv'
  <1>1. SUFFICES ASSUME FirstRun' PROVE (NoNas /\ UploadsPending /\ LapsedUploaded /\ CopyInv /\ HandleInv)'
    BY DEF FirstRunInv
  <1>2. FirstRun
    BY <1>1, FirstRunEnds DEF BaseInv
  <1>3. FirstStep /\ NoNas /\ UploadsPending /\ LapsedUploaded /\ CopyInv /\ HandleInv
    BY <1>1, <1>2 DEF FirstStep, FirstRunInv
  <1>4. NoNas' /\ UploadsPending' /\ LapsedUploaded' /\ HandleInv'
    BY <1>3, NoNasStep, UploadsPendingStep, LapsedStep, HandleStep
  <1>5. CopyInv'
    BY <1>3, UploadedCopy, LocalCopy, UploaderData, UploaderStored DEF CopyInv
  <1> QED  BY <1>4, <1>5

\* No row, no copy, no handle.
LEMMA FirstRunInit == Init => FirstRunInv
  BY TaskNames, ClientsAreProcs DEF Init, MetadataInit, StoreInit, RouterInit, ProcInit, WorkInit,
     Restarted, FirstRunInv, NoNas, UploadsPending, LapsedUploaded, CopyInv, HandleInv, Uploaded, HasRow, Paths,
     RowLabels, HandLabels

\* What holds at every step of a run with files written once.
RunInv == BaseInv /\ ColdInv /\ Queued /\ FirstRunInv

\* All of it together is inductive.
LEMMA RunInvHolds ==
    ASSUME WritesOnce
    PROVE  Spec => []RunInv
  <1>1. Init => RunInv
    BY BaseInit, ColdInvInit, FirstRunInit DEF Init, RouterInit, Queued, RunInv
  <1>2. RunInv /\ [Next]_vars => RunInv'
    BY BaseStep, ColdStep, QueuedStep, FirstRunStep DEF RunInv
  <1> QED  BY <1>1, <1>2, PTL DEF Spec

\* What the invariant says of the copies of a file before the first restart.
LEMMA FirstRunCopies ==
    ASSUME RunInv, FirstRun
    PROVE  /\ S3BitTruthful /\ Readable /\ AckedRecoverable
           /\ \A f \in Files \ lapsed : Recoverable(f) <=> HasRow(f)
  <1>0. TypeInv /\ RowInv /\ NoNas /\ CopyInv /\ Local \in Tier /\ S3 \in Tier /\ Nas # S3 /\ Queued
    BY DEF RunInv, BaseInv, FirstRunInv, Local, S3, Nas, Tier
  <1>1. S3BitTruthful
    BY <1>0 DEF S3BitTruthful, CopyInv, Uploaded
  <1>2. \A f \in Files \ lapsed : Recoverable(f) <=> HasRow(f)
    BY <1>0 DEF CopyInv, Recoverable, Uploaded
  <1>3. ASSUME NEW f \in Files, HasRow(f) PROVE Served(f) # Absent
    <2>1. sha[f] # Absent
      BY <1>0, <1>3, DataAssumption DEF RowInv, RowContent
    <2>2. CASE Uploaded(f)
      BY <1>0, <2>1, <2>2 DEF CopyInv, Uploaded, Served, Holds, ColdTier, NoNas
    <2>3. CASE ~Uploaded(f)
      BY <1>0, <1>3, <2>1, <2>3 DEF CopyInv, Served, Holds
    <2> QED  BY <2>2, <2>3
  <1>4. AckedRecoverable
    BY <1>0, <1>2 DEF AckedRecoverable, Queued, TypeInv, TypeOK, RouterTypeOK, BoundTypeOK
  <1> QED  BY <1>1, <1>2, <1>3, <1>4 DEF Readable


\* s3_uploader.rs, eviction_task.rs: until the first restart the S3 bit is only
\* set on a file whose recorded content is in S3, whatever clients, uploads,
\* evictions, promotions and faults interleave, for files written once; but for
\* files whose upload a database error has left queued after it was done.
THEOREM S3BitStaysTruthful ==
    ASSUME WritesOnce
    PROVE  Spec => [](FirstRun => S3BitTruthful)
  <1>1. RunInv => (FirstRun => S3BitTruthful)
    BY FirstRunCopies
  <1> QED  BY <1>1, RunInvHolds, PTL

\* router.rs read: until the first restart a read finds a copy of every file
\* that has a row, for files written once.
THEOREM FilesStayReadable ==
    ASSUME WritesOnce
    PROVE  Spec => [](FirstRun => Readable)
  <1>1. RunInv => (FirstRun => Readable)
    BY FirstRunCopies
  <1> QED  BY <1>1, RunInvHolds, PTL

\* README "everything durably in S3": until the first restart the acknowledged
\* content of a file is on some tier, for files written once whose upload no
\* database error has left queued after it was done.  The run CrashCorrupts
\* shows that a restart can end this.
THEOREM AckedStaysRecoverable ==
    ASSUME WritesOnce
    PROVE  Spec => [](FirstRun => AckedRecoverable)
  <1>1. RunInv => (FirstRun => AckedRecoverable)
    BY FirstRunCopies
  <1> QED  BY <1>1, RunInvHolds, PTL

\* The S3 bits of files that no database error has left queued stay.
S3BitsStay == \A f \in Files \ lapsed : S3 \in bitmask[f] => S3 \in bitmask'[f]

\* TierBitmask, set_tier_bitmask: no task that writes back a bitmask it read
\* earlier ever takes an S3 bit away, through any number of crashes, for files
\* written once; but for files of which a database error has left an upload
\* queued after it was done, or past replay.
THEOREM S3BitNeverLost ==
    ASSUME WritesOnce
    PROVE  Spec => [][S3BitsStay]_vars
  <1>1. RunInv /\ [Next]_vars => BitsKept
    BY BitsStep DEF RunInv, ColdInv
  <1>2. RunInv /\ [Next]_vars => [S3BitsStay]_vars
    BY <1>1 DEF BitsKept, S3BitsStay, Loose
  <1> QED  BY <1>2, RunInvHolds, PTL DEF Spec

-----------------------------------------------------------------------------
(* Refinement *)

\* Without a restart the content of a file is the one its row records, unless the
\* file is lapsed; a content there is anyway.
StoredInRows ==
    /\ \A f \in Files \ lapsed : StoredContent[f] = IF HasRow(f) THEN sha[f] ELSE Absent
    /\ StoredContent \in [Files -> Data \cup {Absent}]

\* The invariant of the first run gives this.
LEMMA StoredRows ==
    ASSUME RunInv, FirstRun
    PROVE  StoredInRows
  <1>1. \A f \in Files \ lapsed : Recoverable(f) <=> HasRow(f)
    BY FirstRunCopies
  <1>2. \A f \in Files : Recoverable(f) => sha[f] \in Data
    BY DEF Recoverable, RunInv, BaseInv, RowInv, RowContent
  <1> QED  BY <1>1, <1>2 DEF StoredInRows, StoredContent

\* The contents depend on rows and copies only.
LEMMA ContentSame ==
    ASSUME NEW f \in Files, rowid'[f] = rowid[f], sha'[f] = sha[f], store' = store
    PROVE  StoredContent'[f] = StoredContent[f]
  BY DEF StoredContent, Recoverable, HasRow

\* Every step of the daemon stores a file that had no content, exposes one that
\* has its content, or leaves the contents of the others alone.
LEMMA StoreStep ==
    ASSUME WritesOnce, RunInv, RunInv', FirstRun, FirstRun', StoredInRows, StoredInRows', [Next]_vars
    PROVE  WriteOnce!Next
  <1>0. /\ FirstStep /\ TypeInv /\ RowInv /\ RowInv' /\ RowsKept /\ \A f \in Files : f \in Paths
        /\ LapsedUploaded /\ lapsed \subseteq Files
    BY BaseStep DEF RunInv, BaseInv, FirstStep, Paths, FirstRunInv, TypeInv, TypeOK, WorkTypeOK
  <1>1. ASSUME lapsed' = lapsed, \A f \in Files : HasRow(f)' => HasRow(f)
        PROVE  WriteOnce!Waver
    <2>1. \A f \in Files : /\ HasRow(f)' <=> HasRow(f)
                           /\ HasRow(f) => sha'[f] = sha[f]
      BY <1>0, <1>1 DEF RowsKept
    <2>2. \A f \in Files \ lapsed : StoredContent'[f] = StoredContent[f]
      BY <1>1, <2>1 DEF StoredInRows
    <2> QED  BY <1>1, <2>2 DEF StoredInRows, WriteOnce!Waver
  <1>2. ASSUME NEW f \in Files, ~HasRow(f), HasRow(f)' PROVE \E d \in Data : WriteOnce!Store(f, d)
    <2>1. PICK c \in Clients : WriteUpsert(c) /\ path[c] = f
      BY <1>0, <1>2, NewRow
    <2>2. \A g \in Files \ {f} : rowid'[g] = rowid[g] /\ sha'[g] = sha[g]
      BY <1>0, <2>1, WriteUpsertRows
    <2>3. PICK d \in Data : d = sha'[f]
      BY <1>0, <1>2 DEF RowInv, RowContent
    <2>4. store' = store /\ lapsed' = lapsed
      <3>1. store' = store
        BY <2>1 DEF WriteUpsert, storeVars
      <3>2. UNCHANGED metaVars => FALSE
        BY <1>2 DEF metaVars, fileVars, HasRow
      <3> QED  BY <1>0, <3>1, <3>2, NewlyLapsed
    <2>5. f \notin lapsed
      BY <1>0, <1>2 DEF LapsedUploaded, Uploaded
    <2>6. StoredContent[f] = Absent /\ StoredContent'[f] = d
      BY <1>2, <2>3, <2>4, <2>5 DEF StoredInRows
    <2>7. \A g \in Files \ {f} : StoredContent'[g] = StoredContent[g]
      BY <2>2, <2>4, ContentSame
    <2>8. StoredContent' = [StoredContent EXCEPT ![f] = d]
      BY <2>6, <2>7 DEF StoredInRows
    <2> QED  BY <2>3, <2>4, <2>6, <2>8 DEF WriteOnce!Store
  <1>3. ASSUME lapsed' # lapsed PROVE \E f \in Files : WriteOnce!Expose(f)
    <2>1. PICK f \in Files : f = path[Uploader]
      BY <1>0, <1>3, NewlyLapsed
    <2>2. Uploaded(f) /\ lapsed' = lapsed \cup {f} /\ UNCHANGED <<metaVars, storeVars>>
      BY <1>0, <1>3, <2>1, NewlyLapsed
    <2>3. StoredContent' = StoredContent
      BY <2>2 DEF StoredContent, Recoverable, HasRow, metaVars, fileVars, storeVars
    <2>4. f \notin lapsed
      BY <1>3, <2>2
    <2>5. StoredContent[f] # Absent
      BY <1>0, <2>2, <2>4, DataAssumption DEF StoredInRows, Uploaded, RowInv, RowContent
    <2> QED  BY <2>2, <2>3, <2>5 DEF WriteOnce!Expose
  <1> QED  BY <1>1, <1>2, <1>3 DEF WriteOnce!Next

\* The tier stack of a daemon that is not restarted implements the store of
\* files that are written once: no file's content changes or is lost, however
\* it moves between tiers, unless a database error left an upload of the file
\* queued that was done.
THEOREM TiersImplementWriteOnce ==
    ASSUME WritesOnce, MaxCrashes = 0
    PROVE  Spec => ImplementsWriteOnce
  <1>1. RunInv /\ FirstRun /\ [Next]_vars => FirstRun'
    <2>1. SUFFICES ASSUME RunInv, FirstRun, [Next]_vars PROVE FirstRun'
      OBVIOUS
    <2>2. ~Crash
      BY <2>1 DEF Crash, FirstRun
    <2> QED  BY <2>1, <2>2 DEF Next, Request, Handle, Drop, Upload, Replay, Evict, Promote, FirstRun, vars
  <1>2. Init => FirstRun /\ WriteOnce!Init
    BY DEF Init, MetadataInit, WorkInit, FirstRun, WriteOnce!Init, StoredContent, Recoverable,
       HasRow, Paths
  <1>3. RunInv /\ FirstRun => StoredInRows
    BY StoredRows
  <1>4. RunInv /\ RunInv' /\ FirstRun /\ FirstRun' /\ StoredInRows /\ StoredInRows' /\ [Next]_vars
          => [WriteOnce!Next]_(WriteOnce!storeState)
    BY StoreStep
  <1> QED  BY <1>1, <1>2, <1>3, <1>4, RunInvHolds, PTL DEF Spec, ImplementsWriteOnce, WriteOnce!Spec
=============================================================================
