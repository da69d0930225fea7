----------------------------- MODULE FvfsdProofs -----------------------------
(***************************************************************************)
(* Theorems about the daemon, for every set of files, contents and clients *)
(* and every value of the bounds: types, referential integrity of the      *)
(* database, the bound on the attempts of a WAL entry, and what startup    *)
(* replay leaves behind.  They hold for every workload: overwrites,        *)
(* deletes, faults and crashes.                                            *)
(***************************************************************************)
EXTENDS Fvfsd, TLAPS

-----------------------------------------------------------------------------
(* Type correctness *)

\* A read past its metadata lookup and a request work on a file, and a write holds the
\* complete content of a file.
PathInv ==
    /\ \A p \in Procs : pc[p] \in {"r_local", "r_cold", "data"} => path[p] \in Files
    /\ \A c \in Clients : pc[c] \in ClientLabels => path[c] \in Files
    /\ \A c \in Clients : pc[c] \in {"w_fill", "w_upsert"} => buf[c] \in Data

\* What a step of the router or of a task has to preserve; the variables of
\* the other tasks are not touched by it.
CoreInv == MetadataTypeOK /\ StoreTypeOK /\ ProcTypeOK /\ BoundTypeOK /\ PathInv

TypeInv == TypeOK /\ PathInv

\* Every request handler is a process.
LEMMA ClientsAreProcs == Clients \subseteq Procs
  BY DEF Procs

\* The methods of MetadataStore keep its tables well typed.
LEMMA UpsertType ==
    ASSUME MetadataTypeOK, NEW p \in Paths, NEW bm \in SUBSET Tier,
           NEW s \in Data \cup {Absent}, Upsert(p, bm, s)
    PROVE  MetadataTypeOK'
  <1>1. CASE HasRow(p)
    BY <1>1 DEF MetadataTypeOK, Upsert
  <1>2. CASE ~HasRow(p)
    <2>1. PICK n \in NextRowids({rowid[q] : q \in Paths}) :
             rowid' = [rowid EXCEPT ![p] = n] /\ lastRowid' = n
      BY <1>2 DEF Upsert
    <2>2. n \in Nat
      BY DEF NextRowids, MetadataTypeOK
    <2> QED  BY <2>1, <2>2 DEF MetadataTypeOK, Upsert
  <1> QED  BY <1>1, <1>2

\* set_tier_bitmask with a set of tiers, whatever the id.
LEMMA SetTierBitmaskType ==
    ASSUME MetadataTypeOK, NEW id, NEW bm \in SUBSET Tier, SetTierBitmask(id, bm)
    PROVE  MetadataTypeOK'
  BY DEF MetadataTypeOK, SetTierBitmask

\* Deleting a row, with its cascade.
LEMMA DeleteRowType ==
    ASSUME MetadataTypeOK, NEW p \in Paths, DeleteRow(p)
    PROVE  MetadataTypeOK'
  BY DEF MetadataTypeOK, DeleteRow

\* wal_enqueue of an id the foreign key accepts: that id is positive.
LEMMA WalEnqueueType ==
    ASSUME MetadataTypeOK, NEW id, ForeignKeyOk(id), NEW op \in WalOp,
           WalEnqueue(id, op)
    PROVE  MetadataTypeOK'
  <1>1. id \in Nat \ {0}
    BY DEF ForeignKeyOk, PathsOf, HasRow, MetadataTypeOK
  <1>2. PICK n \in NextRowids({e.id : e \in wal}) :
           /\ wal' = wal \cup {[id |-> n, fid |-> id, op |-> op, attempts |-> 0]}
           /\ lastRowid' = n
    BY DEF WalEnqueue
  <1>3. n \in Nat \ {0}
    BY DEF NextRowids, MetadataTypeOK, WalEntry
  <1>4. [id |-> n, fid |-> id, op |-> op, attempts |-> 0] \in WalEntry
    BY <1>1, <1>3 DEF WalEntry
  <1> QED  BY <1>2, <1>3, <1>4 DEF MetadataTypeOK, WalEnqueue, fileVars

\* wal_complete only removes.
LEMMA WalCompleteType ==
    ASSUME MetadataTypeOK, NEW id, WalComplete(id)
    PROVE  MetadataTypeOK'
  BY DEF MetadataTypeOK, WalComplete

\* One more attempt is still a natural number.
LEMMA WalRecordFailureType ==
    ASSUME MetadataTypeOK, NEW id, WalRecordFailure(id)
    PROVE  MetadataTypeOK'
  <1>1. \A e \in wal : [e EXCEPT !.attempts = @ + 1] \in WalEntry
    BY DEF MetadataTypeOK, WalEntry
  <1> QED  BY <1>1 DEF MetadataTypeOK, WalRecordFailure

\* So do the backends' operations for the copies they hold.
LEMMA StorePutType ==
    ASSUME StoreTypeOK, NEW t \in Tier, NEW f, NEW d \in Content, StorePut(t, f, d)
    PROVE  StoreTypeOK'
  BY DEF StoreTypeOK, StorePut

\* delete leaves nothing, and closes handles on the local tier only.
LEMMA StoreDeleteType ==
    ASSUME StoreTypeOK, NEW t \in Tier, NEW f, StoreDelete(t, f)
    PROVE  StoreTypeOK'
  BY DEF StoreTypeOK, StoreDelete, Content

\* The two halves of the local put, and a handle dropped between them.
LEMMA LocalPutType ==
    ASSUME StoreTypeOK, NEW p \in Procs, NEW f \in Paths, NEW d \in Content,
           \/ f \in Files /\ LocalCreate(p, f)
           \/ LocalFill(p, f, d)
           \/ LocalClose(p, f)
    PROVE  StoreTypeOK'
  <1>1. ASSUME f \in Files, LocalCreate(p, f) PROVE StoreTypeOK'
    <2>1. store' \in [Tier -> [Files -> Content]]
      BY <1>1 DEF StoreTypeOK, LocalCreate, Content, Tier
    <2>2. openers' \in [Files -> SUBSET Procs]
      BY <1>1 DEF StoreTypeOK, LocalCreate
    <2>3. mixing' \subseteq Files
      BY <1>1 DEF StoreTypeOK, LocalCreate
    <2> QED  BY <2>1, <2>2, <2>3 DEF StoreTypeOK
  <1>2. ASSUME LocalFill(p, f, d) PROVE StoreTypeOK'
    <2>1. store' \in [Tier -> [Files -> Content]]
      BY <1>2 DEF StoreTypeOK, LocalFill, Content, Tier
    <2>2. openers' \in [Files -> SUBSET Procs] /\ mixing' \subseteq Files
      BY <1>2 DEF StoreTypeOK, LocalFill
    <2> QED  BY <2>1, <2>2 DEF StoreTypeOK
  <1>3. ASSUME LocalClose(p, f) PROVE StoreTypeOK'
    BY <1>3 DEF StoreTypeOK, LocalClose
  <1> QED  BY <1>1, <1>2, <1>3

\* A failed database call changes no table and is counted.
LEMMA DbFaultType ==
    ASSUME MetadataTypeOK, BoundTypeOK, DbFault,
           UNCHANGED <<promotions, acked, writes, deletes>>
    PROVE  MetadataTypeOK' /\ BoundTypeOK'
  BY BoundAssumption DEF DbFault, MetadataTypeOK, BoundTypeOK, metaVars

\* Leaving an operation keeps the local variables well typed.
LEMMA ReturnType ==
    ASSUME ProcTypeOK, PathInv, NEW p \in Procs,
           NEW l \in Labels \ ({"r_local", "r_cold", "data"} \cup ClientLabels), Return(p, l)
    PROVE  ProcTypeOK' /\ PathInv'
  BY ClientsAreProcs DEF ProcTypeOK, PathInv, Return, Goto, Paths, Content, ClientLabels

\* Steps of a read, by whatever process.
LEMMA ReadType ==
    ASSUME CoreInv, NEW p \in Procs,
           ReadMeta(p) \/ ReadLocal(p) \/ ReadCold(p)
    PROVE  CoreInv'
  <1>1. MetadataTypeOK' /\ StoreTypeOK'
    BY DEF ReadMeta, ReadLocal, ReadCold, DbFault, CoreInv, MetadataTypeOK, StoreTypeOK,
           metaVars, storeVars
  <1>2. CASE ReadMeta(p)
    <2>1. ProcTypeOK'
      BY <1>2 DEF ReadMeta, CoreInv, MetadataTypeOK, ProcTypeOK, Goto, Labels, ReadLabels
    <2>2. BoundTypeOK'
      <3>1. UNCHANGED faults \/ DbFault
        BY <1>2 DEF ReadMeta
      <3> QED  BY <1>2, <3>1, DbFaultType DEF ReadMeta, CoreInv, BoundTypeOK
    <2>3. PathInv'
      <3>1. pc'[p] \in {"error"} \/ (pc'[p] \in {"r_local", "r_cold"} /\ path[p] \in Files)
        BY <1>2 DEF ReadMeta, CoreInv, ProcTypeOK, Goto, Paths
      <3>2. path' = path /\ buf' = buf /\ \A q \in Procs \ {p} : pc'[q] = pc[q]
        BY <1>2 DEF ReadMeta, CoreInv, ProcTypeOK, Goto
      <3> QED  BY <3>1, <3>2, ClientsAreProcs DEF CoreInv, PathInv, ClientLabels
    <2> QED  BY <1>1, <2>1, <2>2, <2>3 DEF CoreInv
  <1>3. CASE ReadLocal(p)
    <2>1. store[Local][path[p]] \in Content
      BY <1>3 DEF ReadLocal, CoreInv, StoreTypeOK, PathInv, Tier
    <2>2. ProcTypeOK'
      BY <1>3, <2>1 DEF ReadLocal, CoreInv, ProcTypeOK, Goto, Labels, ReadLabels
    <2>3. BoundTypeOK'
      BY <1>3 DEF ReadLocal, CoreInv, BoundTypeOK, Fault
    <2>4. PathInv'
      BY <1>3, ClientsAreProcs DEF ReadLocal, CoreInv, ProcTypeOK, PathInv, Goto, ClientLabels
    <2> QED  BY <1>1, <2>2, <2>3, <2>4 DEF CoreInv
  <1>4. CASE ReadCold(p)
    <2> DEFINE t == ColdTier(rbm[p])
    <2>1. path[p] \in Files /\ store[t][path[p]] \in Content
      BY <1>4 DEF ReadCold, CoreInv, StoreTypeOK, PathInv, Tier, ColdTier
    <2>2. ProcTypeOK'
      BY <1>4, <2>1 DEF ReadCold, CoreInv, ProcTypeOK, Goto, Labels, ReadLabels
    <2>3. BoundTypeOK'
      <3>1. promotions' \in {promotions, Append(promotions, path[p])}
        BY <1>4 DEF ReadCold
      <3>2. promotions' \in Seq(Files)
        BY <2>1, <3>1 DEF CoreInv, BoundTypeOK
      <3> QED  BY <1>4, <3>2 DEF ReadCold, CoreInv, BoundTypeOK, Fault
    <2>4. PathInv'
      BY <1>4, ClientsAreProcs DEF ReadCold, CoreInv, ProcTypeOK, PathInv, Goto, ClientLabels
    <2> QED  BY <1>1, <2>2, <2>3, <2>4 DEF CoreInv
  <1> QED  BY <1>2, <1>3, <1>4

\* The first step of a request.
LEMMA BeginWriteType ==
    ASSUME CoreInv, NEW c \in Clients, NEW f \in Files, NEW d \in Data, BeginWrite(c, f, d)
    PROVE  CoreInv'
  <1> c \in Procs /\ f \in Paths
    BY ClientsAreProcs DEF Paths
  <1>1. MetadataTypeOK'
    BY DEF BeginWrite, CoreInv, MetadataTypeOK, metaVars
  <1>2. StoreTypeOK'
    <2>1. Absent \in Content
      BY DEF Content
    <2> QED  BY <2>1, LocalPutType DEF BeginWrite, CoreInv
  <1>3. ProcTypeOK'
    BY DEF BeginWrite, CoreInv, ProcTypeOK, Goto, Labels, ClientLabels, Content
  <1>4. BoundTypeOK'
    BY DEF BeginWrite, CoreInv, BoundTypeOK
  <1>5. PathInv'
    BY ClientsAreProcs DEF BeginWrite, CoreInv, ProcTypeOK, PathInv, Goto, ClientLabels
  <1> QED  BY <1>1, <1>2, <1>3, <1>4, <1>5 DEF CoreInv

\* A read only notes the path; a delete takes the bitmask of a row.
LEMMA BeginReadDeleteType ==
    ASSUME CoreInv, NEW c \in Clients, NEW f \in Files, BeginRead(c, f) \/ BeginDelete(c, f)
    PROVE  CoreInv'
  <1> c \in Procs /\ f \in Paths
    BY ClientsAreProcs DEF Paths
  <1>1. MetadataTypeOK' /\ StoreTypeOK'
    BY DEF BeginRead, BeginDelete, CoreInv, MetadataTypeOK, StoreTypeOK, metaVars, storeVars
  <1>2. ProcTypeOK'
    BY DEF BeginRead, BeginDelete, CoreInv, MetadataTypeOK, ProcTypeOK, Goto, Labels,
           ClientLabels, ReadLabels
  <1>3. BoundTypeOK'
    BY DEF BeginRead, BeginDelete, CoreInv, BoundTypeOK, boundVars
  <1>4. PathInv'
    BY ClientsAreProcs DEF BeginRead, BeginDelete, CoreInv, ProcTypeOK, PathInv, Goto,
           ClientLabels
  <1> QED  BY <1>1, <1>2, <1>3, <1>4 DEF CoreInv

\* The later steps of a write.
LEMMA WriteType ==
    ASSUME CoreInv, NEW c \in Clients,
           \/ WriteFill(c) \/ WriteUpsert(c) \/ WriteParents(c) \/ WriteRoot(c)
           \/ WriteEnqueueNas(c) \/ WriteEnqueueS3(c) \/ Abort(c)
    PROVE  CoreInv'
  <1> c \in Procs
    BY ClientsAreProcs
  <1> path[c] \in Paths /\ buf[c] \in Content
    BY DEF CoreInv, ProcTypeOK
  <1> Root \in Paths /\ Absent \in Data \cup {Absent} /\ ALL \in SUBSET Tier
    BY DEF Paths, ALL
  <1>1. CASE WriteFill(c)
    <2>1. MetadataTypeOK' /\ BoundTypeOK'
      BY <1>1 DEF WriteFill, CoreInv, MetadataTypeOK, BoundTypeOK, metaVars, boundVars
    <2>2. StoreTypeOK'
      BY <1>1, LocalPutType DEF WriteFill, CoreInv
    <2>3. ProcTypeOK'
      BY <1>1 DEF WriteFill, CoreInv, ProcTypeOK, Goto, Labels, ClientLabels
    <2>4. PathInv'
      BY <1>1, ClientsAreProcs DEF WriteFill, CoreInv, ProcTypeOK, PathInv, Goto, ClientLabels
    <2> QED  BY <2>1, <2>2, <2>3, <2>4 DEF CoreInv
  <1>2. CASE WriteUpsert(c)
    <2>1. MetadataTypeOK'
      <3>1. buf[c] \in Data \cup {Absent} /\ {Local} \in SUBSET Tier
        BY <1>2 DEF WriteUpsert, CoreInv, PathInv, Tier
      <3> QED  BY <1>2, <3>1, UpsertType DEF WriteUpsert, CoreInv
    <2>2. StoreTypeOK' /\ BoundTypeOK'
      BY <1>2 DEF WriteUpsert, CoreInv, StoreTypeOK, BoundTypeOK, storeVars, boundVars
    <2>3. ProcTypeOK'
      BY <1>2, <2>1 DEF WriteUpsert, CoreInv, MetadataTypeOK, ProcTypeOK, Goto, Labels,
                        ClientLabels
    <2>4. PathInv'
      BY <1>2, ClientsAreProcs DEF WriteUpsert, CoreInv, ProcTypeOK, PathInv, Goto, ClientLabels
    <2> QED  BY <2>1, <2>2, <2>3, <2>4 DEF CoreInv
  <1>3. CASE WriteParents(c)
    <2>1. MetadataTypeOK' /\ StoreTypeOK' /\ BoundTypeOK'
      BY <1>3 DEF WriteParents, CoreInv, MetadataTypeOK, StoreTypeOK, BoundTypeOK,
                  metaVars, storeVars, boundVars
    <2>2. ProcTypeOK'
      BY <1>3 DEF WriteParents, CoreInv, ProcTypeOK, Goto, Labels, ClientLabels
    <2>3. PathInv'
      BY <1>3, ClientsAreProcs DEF WriteParents, CoreInv, ProcTypeOK, PathInv, Goto, ClientLabels
    <2> QED  BY <2>1, <2>2, <2>3 DEF CoreInv
  <1>4. CASE WriteRoot(c)
    <2>1. MetadataTypeOK'
      BY <1>4, UpsertType DEF WriteRoot, CoreInv
    <2>2. StoreTypeOK' /\ BoundTypeOK'
      BY <1>4 DEF WriteRoot, CoreInv, StoreTypeOK, BoundTypeOK, storeVars, boundVars
    <2>3. ProcTypeOK'
      BY <1>4 DEF WriteRoot, CoreInv, ProcTypeOK, Goto, Labels, ClientLabels
    <2>4. PathInv'
      BY <1>4, ClientsAreProcs DEF WriteRoot, CoreInv, ProcTypeOK, PathInv, Goto, ClientLabels
    <2> QED  BY <2>1, <2>2, <2>3, <2>4 DEF CoreInv
  <1>5. CASE WriteEnqueueNas(c)
    <2>1. StoreTypeOK' /\ BoundTypeOK'
      BY <1>5 DEF WriteEnqueueNas, CoreInv, StoreTypeOK, BoundTypeOK, storeVars, boundVars
    <2>2. CASE ForeignKeyOk(fid[c])
      <3>1. MetadataTypeOK'
        BY <1>5, <2>2, WalEnqueueType DEF WriteEnqueueNas, CoreInv, WalOp
      <3>2. ProcTypeOK'
        BY <1>5, <2>2 DEF WriteEnqueueNas, CoreInv, ProcTypeOK, Goto, Labels, ClientLabels
      <3>3. PathInv'
        BY <1>5, <2>2, ClientsAreProcs DEF WriteEnqueueNas, CoreInv, ProcTypeOK, PathInv, Goto, ClientLabels
      <3> QED  BY <2>1, <3>1, <3>2, <3>3 DEF CoreInv
    <2>3. CASE ~ForeignKeyOk(fid[c])
      <3>1. MetadataTypeOK'
        BY <1>5, <2>3 DEF WriteEnqueueNas, CoreInv, MetadataTypeOK, metaVars
      <3>2. ProcTypeOK' /\ PathInv'
        BY <1>5, <2>3, ReturnType DEF WriteEnqueueNas, CoreInv, Labels, ClientLabels
      <3> QED  BY <2>1, <3>1, <3>2 DEF CoreInv
    <2> QED  BY <2>2, <2>3
  <1>6. CASE WriteEnqueueS3(c)
    <2>1. StoreTypeOK'
      BY <1>6 DEF WriteEnqueueS3, CoreInv, StoreTypeOK, storeVars
    <2>2. MetadataTypeOK'
      <3>1. CASE ForeignKeyOk(fid[c])
        BY <1>6, <3>1, WalEnqueueType DEF WriteEnqueueS3, CoreInv, WalOp
      <3>2. CASE ~ForeignKeyOk(fid[c])
        BY <1>6, <3>2 DEF WriteEnqueueS3, CoreInv, MetadataTypeOK, metaVars
      <3> QED  BY <3>1, <3>2
    <2>3. ProcTypeOK' /\ PathInv'
      BY <1>6, ReturnType DEF WriteEnqueueS3, CoreInv, Labels, ClientLabels
    <2>4. BoundTypeOK'
      BY <1>6 DEF WriteEnqueueS3, CoreInv, BoundTypeOK, PathInv, ClientLabels, metaVars, WalEnqueue
    <2> QED  BY <2>1, <2>2, <2>3, <2>4 DEF CoreInv
  <1>7. CASE Abort(c)
    <2>1. MetadataTypeOK' /\ BoundTypeOK'
      BY <1>7 DEF Abort, CoreInv, MetadataTypeOK, BoundTypeOK, metaVars, Fault
    <2>2. StoreTypeOK'
      BY <1>7, LocalPutType DEF Abort, CoreInv
    <2>3. ProcTypeOK' /\ PathInv'
      BY <1>7, ReturnType DEF Abort, CoreInv, Labels, ClientLabels
    <2> QED  BY <2>1, <2>2, <2>3 DEF CoreInv
  <1> QED  BY <1>1, <1>2, <1>3, <1>4, <1>5, <1>6, <1>7

\* The rest of a request: the reply to a read, and a delete.
LEMMA ReplyDeleteType ==
    ASSUME CoreInv, NEW c \in Clients,
           Reply(c) \/ DeleteFromTier(c) \/ DeleteMeta(c)
    PROVE  CoreInv'
  <1> c \in Procs
    BY ClientsAreProcs
  <1> path[c] \in Paths
    BY DEF CoreInv, ProcTypeOK
  <1>1. CASE Reply(c)
    <2>1. MetadataTypeOK' /\ StoreTypeOK' /\ BoundTypeOK'
      BY <1>1 DEF Reply, CoreInv, MetadataTypeOK, StoreTypeOK, BoundTypeOK,
                  metaVars, storeVars, boundVars
    <2>2. ProcTypeOK' /\ PathInv'
      BY <1>1, ReturnType DEF Reply, CoreInv, Labels, ClientLabels
    <2> QED  BY <2>1, <2>2 DEF CoreInv
  <1>2. CASE DeleteFromTier(c)
    <2>1. PICK t \in fbm[c] :
             /\ fbm' = [fbm EXCEPT ![c] = @ \ {t}]
             /\ \/ StoreDelete(t, path[c]) /\ UNCHANGED faults
                \/ Fault /\ UNCHANGED storeVars
      BY <1>2 DEF DeleteFromTier
    <2>2. t \in Tier
      BY DEF CoreInv, ProcTypeOK
    <2>3. StoreTypeOK'
      BY <2>1, <2>2, StoreDeleteType DEF CoreInv, StoreTypeOK, storeVars
    <2>4. MetadataTypeOK' /\ BoundTypeOK'
      BY <1>2, <2>1 DEF DeleteFromTier, CoreInv, MetadataTypeOK, BoundTypeOK, metaVars, Fault
    <2>5. ProcTypeOK' /\ PathInv'
      BY <1>2, <2>1 DEF DeleteFromTier, CoreInv, ProcTypeOK, PathInv
    <2> QED  BY <2>3, <2>4, <2>5 DEF CoreInv
  <1>3. CASE DeleteMeta(c)
    <2>1. MetadataTypeOK'
      BY <1>3, DeleteRowType DEF DeleteMeta, CoreInv
    <2>2. StoreTypeOK' /\ BoundTypeOK'
      BY <1>3 DEF DeleteMeta, CoreInv, StoreTypeOK, BoundTypeOK, storeVars, boundVars
    <2>3. ProcTypeOK' /\ PathInv'
      BY <1>3, ReturnType DEF DeleteMeta, CoreInv, Labels, ClientLabels
    <2> QED  BY <2>1, <2>2, <2>3 DEF CoreInv
  <1> QED  BY <1>1, <1>2, <1>3

\* Uploads to S3, shared by the uploader and by replay.
LEMMA S3PutType ==
    ASSUME CoreInv, NEW p \in Procs \ Clients,
           NEW l \in Labels \ {"r_local", "r_cold", "data"}, S3Put(p, l),
           UNCHANGED <<metaVars, path, buf, rbm, fbm, fid, promotions, acked, writes, deletes>>
    PROVE  CoreInv'
  <1>1. StoreTypeOK'
    <2>1. S3 \in Tier /\ buf[p] \in Content
      BY DEF CoreInv, ProcTypeOK, Tier
    <2>2. StorePut(S3, path[p], buf[p]) \/ UNCHANGED storeVars
      BY DEF S3Put
    <2> QED  BY <2>1, <2>2, StorePutType DEF CoreInv, StoreTypeOK, storeVars
  <1>2. MetadataTypeOK' /\ BoundTypeOK'
    BY DEF S3Put, CoreInv, MetadataTypeOK, BoundTypeOK, metaVars, Fault
  <1>3. ProcTypeOK'
    BY DEF S3Put, CoreInv, ProcTypeOK, Goto, Labels, ReadLabels
  <1>4. PathInv'
    BY ClientsAreProcs DEF S3Put, CoreInv, ProcTypeOK, PathInv, Goto
  <1> QED  BY <1>1, <1>2, <1>3, <1>4 DEF CoreInv

\* The uploader.
LEMMA UploadType ==
    ASSUME CoreInv, WorkTypeOK, UploaderStep
    PROVE  CoreInv' /\ WorkTypeOK'
  <1> Uploader \in Procs \ Clients
    BY ProcAssumption DEF Procs
  <1>1. CASE UploadLoad \/ UploadEnd
    <2>1. MetadataTypeOK' /\ StoreTypeOK' /\ BoundTypeOK'
      BY <1>1 DEF UploadLoad, UploadEnd, CoreInv, MetadataTypeOK, StoreTypeOK, BoundTypeOK,
                  metaVars, storeVars, boundVars
    <2>2. ProcTypeOK'
      BY <1>1 DEF UploadLoad, UploadEnd, CoreInv, ProcTypeOK, Goto, Labels, UploadLabels
    <2>3. PathInv'
      BY <1>1, ClientsAreProcs DEF UploadLoad, UploadEnd, CoreInv, ProcTypeOK, PathInv, Goto
    <2>4. WorkTypeOK'
      BY <1>1 DEF UploadLoad, UploadEnd, CoreInv, WorkTypeOK, MetadataTypeOK, workVars,
                  lapseVars
    <2> QED  BY <2>1, <2>2, <2>3, <2>4 DEF CoreInv
  <1>2. CASE UploadNext
    <2>1. PICK e \in Oldest(todo) :
             /\ entry' = {e}
             /\ todo' = todo \ {e}
             /\ IF PathsOf(e.fid) = {}
                  THEN Goto(Uploader, "u_drop") /\ UNCHANGED <<path, fbm, fid>>
                  ELSE \E p \in PathsOf(e.fid) :
                         /\ path' = [path EXCEPT ![Uploader] = p]
                         /\ fbm' = [fbm EXCEPT ![Uploader] = bitmask[p]]
                         /\ fid' = [fid EXCEPT ![Uploader] = e.fid]
                         /\ Goto(Uploader, "r_meta")
      BY <1>2 DEF UploadNext
    <2>2. e \in WalEntry /\ e.fid \in Nat
      BY DEF Oldest, WorkTypeOK, WalEntry
    <2>3. WorkTypeOK'
      BY <1>2, <2>1, <2>2 DEF UploadNext, WorkTypeOK, lapseVars
    <2>4. MetadataTypeOK' /\ StoreTypeOK' /\ BoundTypeOK'
      BY <1>2 DEF UploadNext, CoreInv, MetadataTypeOK, StoreTypeOK, BoundTypeOK,
                  metaVars, storeVars, boundVars
    <2>5. ProcTypeOK'
      BY <1>2, <2>1, <2>2 DEF UploadNext, CoreInv, MetadataTypeOK, ProcTypeOK, Goto, Labels,
                  UploadLabels, ReadLabels, PathsOf
    <2>6. PathInv'
      BY <1>2, <2>1, ClientsAreProcs DEF UploadNext, CoreInv, ProcTypeOK, PathInv, Goto
    <2> QED  BY <2>3, <2>4, <2>5, <2>6 DEF CoreInv
  <1>3. CASE UploaderRead
    BY <1>3, ReadType DEF UploaderRead, WorkTypeOK, workVars, lapseVars
  <1>4. CASE UploadPut
    BY <1>4, S3PutType DEF UploadPut, WorkTypeOK, workVars, lapseVars, Labels, UploadLabels
  <1>5. CASE UploadBits
    <2>1. MetadataTypeOK' /\ BoundTypeOK'
      <3>1. fbm[Uploader] \cup {S3} \in SUBSET Tier
        BY DEF CoreInv, ProcTypeOK, Tier
      <3>2. \/ SetTierBitmask(fid[Uploader], fbm[Uploader] \cup {S3}) /\ UNCHANGED faults
            \/ DbFault
        BY <1>5 DEF UploadBits
      <3> QED  BY <1>5, <3>1, <3>2, SetTierBitmaskType, DbFaultType
               DEF UploadBits, CoreInv, BoundTypeOK
    <2>2. StoreTypeOK' /\ WorkTypeOK'
      BY <1>5 DEF UploadBits, CoreInv, StoreTypeOK, WorkTypeOK, storeVars, workVars, lapseVars
    <2>3. ProcTypeOK'
      BY <1>5 DEF UploadBits, CoreInv, ProcTypeOK, Goto, Labels, UploadLabels, ReadLabels
    <2>4. PathInv'
      BY <1>5, ClientsAreProcs DEF UploadBits, CoreInv, ProcTypeOK, PathInv, Goto
    <2> QED  BY <2>1, <2>2, <2>3, <2>4 DEF CoreInv
  <1>6. CASE UploadComplete \/ UploadFail
    <2>1. MetadataTypeOK' /\ BoundTypeOK'
      <3>1. \/ (\E e \in entry : WalComplete(e.id) \/ WalRecordFailure(e.id)) /\ UNCHANGED faults
            \/ DbFault
        BY <1>6 DEF UploadComplete, UploadFail
      <3> QED  BY <1>6, <3>1, WalCompleteType, WalRecordFailureType, DbFaultType
               DEF UploadComplete, UploadFail, CoreInv, BoundTypeOK
    <2>2. StoreTypeOK' /\ WorkTypeOK'
      <3>1. path[Uploader] \in Files \cup {Root}
        BY DEF CoreInv, ProcTypeOK, Paths
      <3> QED  BY <1>6, <3>1 DEF UploadComplete, UploadFail, CoreInv, StoreTypeOK, WorkTypeOK,
                  storeVars, lapseVars
    <2>3. ProcTypeOK' /\ PathInv'
      BY <1>6, ReturnType DEF UploadComplete, UploadFail, CoreInv, Labels, UploadLabels,
                  ClientLabels
    <2> QED  BY <2>1, <2>2, <2>3 DEF CoreInv
  <1>7. CASE UploadSkip
    <2>1. MetadataTypeOK' /\ BoundTypeOK'
      BY <1>7, DbFaultType DEF UploadSkip, CoreInv
    <2>2. StoreTypeOK' /\ ProcTypeOK' /\ PathInv'
      BY <1>7 DEF UploadSkip, CoreInv, StoreTypeOK, ProcTypeOK, PathInv, storeVars, localVars
    <2>3. WorkTypeOK'
      BY <1>7 DEF UploadSkip, WorkTypeOK, lapseVars
    <2> QED  BY <2>1, <2>2, <2>3 DEF CoreInv
  <1> QED  BY <1>1, <1>2, <1>3, <1>4, <1>5, <1>6, <1>7 DEF UploaderStep

\* Startup replay.
LEMMA ReplayType ==
    ASSUME CoreInv, WorkTypeOK, ReplayStep
    PROVE  CoreInv' /\ WorkTypeOK'
  <1> Replayer \in Procs \ Clients
    BY ProcAssumption DEF Procs
  <1> \A e \in entry : e.id \in Nat
    BY DEF WorkTypeOK, WalEntry
  <1> \A e \in wal : e.id \in Nat
    BY DEF CoreInv, MetadataTypeOK, WalEntry
  <1>1. CASE ReplayLoad \/ ReplayNext \/ ReplayEnd \/ ReplayGiveUp
    <2>1. MetadataTypeOK' /\ StoreTypeOK' /\ BoundTypeOK'
      <3>1. CASE ReplayLoad
        <4>1. MetadataTypeOK' /\ BoundTypeOK'
          <5>1. UNCHANGED <<metaVars, faults>> \/ DbFault
            BY <3>1 DEF ReplayLoad
          <5>2. CASE UNCHANGED <<metaVars, faults>>
            BY <3>1, <5>2 DEF ReplayLoad, CoreInv, MetadataTypeOK, BoundTypeOK, metaVars
          <5> QED  BY <3>1, <5>1, <5>2, DbFaultType DEF ReplayLoad, CoreInv
        <4> QED  BY <3>1, <4>1 DEF ReplayLoad, CoreInv, StoreTypeOK, storeVars
      <3>2. CASE ReplayNext \/ ReplayEnd \/ ReplayGiveUp
        BY <3>2 DEF ReplayNext, ReplayEnd, ReplayGiveUp, CoreInv, MetadataTypeOK,
                    StoreTypeOK, BoundTypeOK, metaVars, storeVars, boundVars
      <3> QED  BY <1>1, <3>1, <3>2
    <2>2. ProcTypeOK'
      BY <1>1 DEF ReplayLoad, ReplayNext, ReplayEnd, ReplayGiveUp, CoreInv, ProcTypeOK, Goto,
                  Labels, ReplayLabels
    <2>3. PathInv'
      BY <1>1, ClientsAreProcs DEF ReplayLoad, ReplayNext, ReplayEnd, ReplayGiveUp, CoreInv,
                  ProcTypeOK, PathInv, Goto
    <2>4. WorkTypeOK'
      BY <1>1 DEF ReplayLoad, ReplayNext, ReplayEnd, ReplayGiveUp, CoreInv, WorkTypeOK,
                  MetadataTypeOK, lapseVars, Oldest, UploadsLeft, Ids
    <2> QED  BY <2>1, <2>2, <2>3, <2>4 DEF CoreInv
  <1>2. CASE ReplayLook
    <2>1. PICK e \in entry :
             IF PathsOf(e.fid) = {}
               THEN Goto(Replayer, "y_done") /\ UNCHANGED <<path, fbm, fid>>
               ELSE /\ Goto(Replayer, IF e.op = ReplicateNas THEN "y_nas" ELSE "r_meta")
                    /\ \E p \in PathsOf(e.fid) :
                         /\ path' = [path EXCEPT ![Replayer] = p]
                         /\ fbm' = [fbm EXCEPT ![Replayer] = bitmask[p]]
                         /\ fid' = [fid EXCEPT ![Replayer] = e.fid]
      BY <1>2 DEF ReplayLook
    <2>2. e.fid \in Nat
      BY DEF WorkTypeOK, WalEntry
    <2>3. MetadataTypeOK' /\ StoreTypeOK' /\ BoundTypeOK' /\ WorkTypeOK'
      BY <1>2 DEF ReplayLook, CoreInv, MetadataTypeOK, StoreTypeOK, BoundTypeOK, WorkTypeOK,
                  metaVars, storeVars, boundVars, workVars, lapseVars
    <2>4. ProcTypeOK'
      BY <1>2, <2>1, <2>2 DEF ReplayLook, CoreInv, MetadataTypeOK, ProcTypeOK, Goto, Labels,
                  ReplayLabels, ReadLabels, PathsOf
    <2>5. PathInv'
      BY <1>2, <2>1, ClientsAreProcs DEF ReplayLook, CoreInv, ProcTypeOK, PathInv, Goto
    <2> QED  BY <2>3, <2>4, <2>5 DEF CoreInv
  <1>3. CASE ReplayerRead
    BY <1>3, ReadType DEF ReplayerRead, WorkTypeOK, workVars, lapseVars
  <1>4. CASE ReplayNasCreate
    <2>1. StoreTypeOK'
      BY <1>4, StorePutType DEF ReplayNasCreate, CoreInv, StoreTypeOK, storeVars, Tier, Content
    <2>2. path[Replayer] # Root => store[Local][path[Replayer]] \in Content
      BY DEF CoreInv, StoreTypeOK, ProcTypeOK, Tier, Paths
    <2>3. MetadataTypeOK' /\ BoundTypeOK' /\ WorkTypeOK'
      BY <1>4 DEF ReplayNasCreate, CoreInv, MetadataTypeOK, BoundTypeOK, WorkTypeOK,
                  metaVars, workVars, lapseVars, Fault
    <2>4. ProcTypeOK'
      BY <1>4, <2>2 DEF ReplayNasCreate, CoreInv, ProcTypeOK, Goto, Labels, ReplayLabels,
                  ReadLabels
    <2>5. PathInv'
      BY <1>4, ClientsAreProcs DEF ReplayNasCreate, CoreInv, ProcTypeOK, PathInv, Goto
    <2> QED  BY <2>1, <2>3, <2>4, <2>5 DEF CoreInv
  <1>5. CASE ReplayNasFill
    <2>1. StoreTypeOK'
      <3>1. Nas \in Tier /\ buf[Replayer] \in Content
        BY DEF CoreInv, ProcTypeOK, Tier
      <3> QED  BY <1>5, <3>1, StorePutType DEF ReplayNasFill, CoreInv, StoreTypeOK, storeVars
    <2>2. MetadataTypeOK' /\ BoundTypeOK' /\ WorkTypeOK'
      BY <1>5 DEF ReplayNasFill, CoreInv, MetadataTypeOK, BoundTypeOK, WorkTypeOK,
                  metaVars, workVars, lapseVars, Fault
    <2>3. ProcTypeOK'
      BY <1>5 DEF ReplayNasFill, CoreInv, ProcTypeOK, Goto, Labels, ReplayLabels, ReadLabels
    <2>4. PathInv'
      BY <1>5, ClientsAreProcs DEF ReplayNasFill, CoreInv, ProcTypeOK, PathInv, Goto
    <2> QED  BY <2>1, <2>2, <2>3, <2>4 DEF CoreInv
  <1>6. CASE ReplayPut
    BY <1>6, S3PutType DEF ReplayPut, WorkTypeOK, workVars, lapseVars, Labels, ReplayLabels
  <1>7. CASE ReplayBits
    <2>1. MetadataTypeOK' /\ BoundTypeOK'
      <3>1. \A e \in entry : fbm[Replayer] \cup {TargetTier(e.op)} \in SUBSET Tier
        BY DEF CoreInv, ProcTypeOK, Tier, TargetTier
      <3>2. \/ /\ \E e \in entry :
                    SetTierBitmask(fid[Replayer], fbm[Replayer] \cup {TargetTier(e.op)})
               /\ UNCHANGED faults
            \/ DbFault
        BY <1>7 DEF ReplayBits
      <3> QED  BY <1>7, <3>1, <3>2, SetTierBitmaskType, DbFaultType
               DEF ReplayBits, CoreInv, BoundTypeOK
    <2>2. StoreTypeOK' /\ WorkTypeOK'
      BY <1>7 DEF ReplayBits, CoreInv, StoreTypeOK, WorkTypeOK, storeVars, workVars, lapseVars
    <2>3. ProcTypeOK'
      BY <1>7 DEF ReplayBits, CoreInv, ProcTypeOK, Goto, Labels, ReplayLabels, ReadLabels
    <2>4. PathInv'
      BY <1>7, ClientsAreProcs DEF ReplayBits, CoreInv, ProcTypeOK, PathInv, Goto
    <2> QED  BY <2>1, <2>2, <2>3, <2>4 DEF CoreInv
  <1>8. CASE ReplayComplete \/ ReplayFail
    <2>1. MetadataTypeOK' /\ BoundTypeOK'
      <3>1. \/ (\E e \in entry : WalComplete(e.id) \/ WalRecordFailure(e.id)) /\ UNCHANGED faults
            \/ DbFault
        BY <1>8 DEF ReplayComplete, ReplayFail, SkipEntry
      <3> QED  BY <1>8, <3>1, WalCompleteType, WalRecordFailureType, DbFaultType
               DEF ReplayComplete, ReplayFail, CoreInv, BoundTypeOK
    <2>2. StoreTypeOK'
      BY <1>8 DEF ReplayComplete, ReplayFail, CoreInv, StoreTypeOK, storeVars
    <2>3. WorkTypeOK'
      <3>1. \A e \in entry : [e EXCEPT !.attempts = @ + 1] \in WalEntry
        BY DEF WorkTypeOK, WalEntry
      <3>2. skipped' \subseteq Nat
        BY <1>8 DEF ReplayComplete, ReplayFail, SkipEntry, Ids, WorkTypeOK
      <3> QED  BY <1>8, <3>1, <3>2 DEF ReplayComplete, ReplayFail, WorkTypeOK
    <2>4. ProcTypeOK' /\ PathInv'
      BY <1>8, ReturnType DEF ReplayComplete, ReplayFail, CoreInv, Labels, ReplayLabels,
                  ClientLabels
    <2> QED  BY <2>1, <2>2, <2>3, <2>4 DEF CoreInv
  <1>9. CASE ReplaySkip
    <2>1. MetadataTypeOK' /\ BoundTypeOK'
      BY <1>9, DbFaultType DEF ReplaySkip, SkipEntry, CoreInv
    <2>2. StoreTypeOK' /\ ProcTypeOK'
      BY <1>9 DEF ReplaySkip, CoreInv, StoreTypeOK, ProcTypeOK, Goto, Labels, ReplayLabels,
                  storeVars
    <2>3. PathInv'
      BY <1>9, ClientsAreProcs DEF ReplaySkip, CoreInv, ProcTypeOK, PathInv, Goto
    <2>4. WorkTypeOK'
      BY <1>9 DEF ReplaySkip, SkipEntry, Ids, WorkTypeOK
    <2> QED  BY <2>1, <2>2, <2>3, <2>4 DEF CoreInv
  <1> QED  BY <1>1, <1>2, <1>3, <1>4, <1>5, <1>6, <1>7, <1>8, <1>9 DEF ReplayStep

\* The eviction task.
LEMMA EvictType ==
    ASSUME CoreInv, EvictTypeOK, EvictStep
    PROVE  CoreInv' /\ EvictTypeOK'
  <1> Evictor \in Procs \ Clients
    BY ProcAssumption DEF Procs
  <1>1. CASE EvictScan \/ EvictEnd \/ EvictLookup
    <2>1. MetadataTypeOK' /\ StoreTypeOK' /\ BoundTypeOK'
      BY <1>1 DEF EvictScan, EvictEnd, EvictLookup, CoreInv, MetadataTypeOK, StoreTypeOK,
                  BoundTypeOK, metaVars, storeVars, boundVars
    <2>2. ProcTypeOK'
      <3>1. CASE EvictScan \/ EvictEnd
        BY <3>1 DEF EvictScan, EvictEnd, CoreInv, ProcTypeOK, Goto, Labels, EvictLabels
      <3>2. CASE EvictLookup
        BY <3>2 DEF EvictLookup, CoreInv, EvictTypeOK, MetadataTypeOK, ProcTypeOK, Goto,
                    Labels, EvictLabels, Paths
      <3> QED  BY <1>1, <3>1, <3>2
    <2>3. PathInv'
      BY <1>1, ClientsAreProcs DEF EvictScan, EvictEnd, EvictLookup, CoreInv, ProcTypeOK,
                  PathInv, Goto
    <2>4. EvictTypeOK'
      BY <1>1 DEF EvictScan, EvictEnd, EvictLookup, EvictTypeOK, NextTier
    <2> QED  BY <2>1, <2>2, <2>3, <2>4 DEF CoreInv
  <1>2. CASE EvictDelete
    <2>1. MetadataTypeOK' /\ BoundTypeOK' /\ EvictTypeOK'
      BY <1>2 DEF EvictDelete, CoreInv, MetadataTypeOK, BoundTypeOK, EvictTypeOK,
                  metaVars, evictVars, Fault
    <2>2. StoreTypeOK'
      BY <1>2, StoreDeleteType DEF EvictDelete, CoreInv, StoreTypeOK, storeVars, EvictTypeOK,
                  Tier
    <2>3. ProcTypeOK' /\ PathInv'
      <3>1. CASE Return(Evictor, "e_next")
        BY <3>1, ReturnType DEF CoreInv, Labels, EvictLabels, ClientLabels
      <3>2. CASE Goto(Evictor, "e_bits") /\ UNCHANGED <<path, buf, rbm, fbm, fid>>
        <4>1. ProcTypeOK'
          BY <3>2 DEF CoreInv, ProcTypeOK, Goto, Labels, EvictLabels
        <4>2. PathInv'
          BY <3>2, ClientsAreProcs DEF CoreInv, ProcTypeOK, PathInv, Goto
        <4> QED  BY <4>1, <4>2
      <3> QED  BY <1>2, <3>1, <3>2 DEF EvictDelete
    <2> QED  BY <2>1, <2>2, <2>3 DEF CoreInv
  <1>3. CASE EvictBits
    <2>1. MetadataTypeOK' /\ BoundTypeOK'
      <3>1. fbm[Evictor] \ {etier} \in SUBSET Tier
        BY DEF CoreInv, ProcTypeOK
      <3>2. \/ SetTierBitmask(fid[Evictor], fbm[Evictor] \ {etier}) /\ UNCHANGED faults
            \/ DbFault
        BY <1>3 DEF EvictBits
      <3> QED  BY <1>3, <3>1, <3>2, SetTierBitmaskType, DbFaultType
               DEF EvictBits, CoreInv, BoundTypeOK
    <2>2. StoreTypeOK' /\ EvictTypeOK'
      BY <1>3 DEF EvictBits, CoreInv, StoreTypeOK, EvictTypeOK, storeVars, evictVars
    <2>3. ProcTypeOK' /\ PathInv'
      BY <1>3, ReturnType DEF EvictBits, CoreInv, Labels, EvictLabels, ClientLabels
    <2> QED  BY <2>1, <2>2, <2>3 DEF CoreInv
  <1> QED  BY <1>1, <1>2, <1>3 DEF EvictStep

\* The promotion task.
LEMMA PromoteType ==
    ASSUME CoreInv, PromoteStep
    PROVE  CoreInv'
  <1> Promoter \in Procs \ Clients
    BY ProcAssumption DEF Procs
  <1> path[Promoter] \in Paths /\ buf[Promoter] \in Content
    BY DEF CoreInv, ProcTypeOK
  <1>1. CASE PromoteRecv
    <2>1. Head(promotions) \in Files /\ Tail(promotions) \in Seq(Files)
      BY <1>1 DEF PromoteRecv, CoreInv, BoundTypeOK
    <2>2. MetadataTypeOK' /\ StoreTypeOK' /\ BoundTypeOK'
      BY <1>1, <2>1 DEF PromoteRecv, CoreInv, MetadataTypeOK, StoreTypeOK, BoundTypeOK,
                  metaVars, storeVars, boundVars
    <2>3. ProcTypeOK'
      BY <1>1, <2>1 DEF PromoteRecv, CoreInv, ProcTypeOK, Goto, Labels, ReadLabels, Paths
    <2>4. PathInv'
      BY <1>1, ClientsAreProcs DEF PromoteRecv, CoreInv, ProcTypeOK, PathInv, Goto
    <2> QED  BY <2>2, <2>3, <2>4 DEF CoreInv
  <1>2. CASE PromoteRead
    BY <1>2, ReadType DEF PromoteRead
  <1>3. CASE PromoteSkip
    <2>1. MetadataTypeOK' /\ StoreTypeOK' /\ BoundTypeOK'
      BY <1>3 DEF PromoteSkip, CoreInv, MetadataTypeOK, StoreTypeOK, BoundTypeOK,
                  metaVars, storeVars, boundVars
    <2>2. ProcTypeOK' /\ PathInv'
      BY <1>3, ReturnType DEF PromoteSkip, CoreInv, Labels, ClientLabels
    <2> QED  BY <2>1, <2>2 DEF CoreInv
  <1>4. CASE PromoteCreate
    <2>1. MetadataTypeOK' /\ BoundTypeOK'
      BY <1>4 DEF PromoteCreate, CoreInv, MetadataTypeOK, BoundTypeOK, metaVars, boundVars
    <2>2. StoreTypeOK'
      BY <1>4, LocalPutType DEF PromoteCreate, CoreInv, PathInv
    <2>3. ProcTypeOK'
      BY <1>4 DEF PromoteCreate, CoreInv, ProcTypeOK, Goto, Labels, PromoLabels
    <2>4. PathInv'
      BY <1>4, ClientsAreProcs DEF PromoteCreate, CoreInv, ProcTypeOK, PathInv, Goto
    <2> QED  BY <2>1, <2>2, <2>3, <2>4 DEF CoreInv
  <1>5. CASE PromoteFill
    <2>1. MetadataTypeOK' /\ BoundTypeOK'
      BY <1>5 DEF PromoteFill, CoreInv, MetadataTypeOK, BoundTypeOK, metaVars, Fault
    <2>2. StoreTypeOK'
      BY <1>5, LocalPutType DEF PromoteFill, CoreInv
    <2>3. ProcTypeOK' /\ PathInv'
      <3>1. CASE Return(Promoter, "idle")
        BY <3>1, ReturnType DEF CoreInv, Labels, ClientLabels
      <3>2. CASE Goto(Promoter, "p_meta") /\ UNCHANGED <<path, buf, rbm, fbm, fid>>
        <4>1. ProcTypeOK'
          BY <3>2 DEF CoreInv, ProcTypeOK, Goto, Labels, PromoLabels
        <4>2. PathInv'
          BY <3>2, ClientsAreProcs DEF CoreInv, ProcTypeOK, PathInv, Goto
        <4> QED  BY <4>1, <4>2
      <3> QED  BY <1>5, <3>1, <3>2 DEF PromoteFill
    <2> QED  BY <2>1, <2>2, <2>3 DEF CoreInv
  <1>6. CASE PromoteMeta
    <2>1. MetadataTypeOK' /\ StoreTypeOK' /\ BoundTypeOK'
      BY <1>6 DEF PromoteMeta, CoreInv, MetadataTypeOK, StoreTypeOK, BoundTypeOK,
                  metaVars, storeVars, boundVars
    <2>2. CASE ~HasRow(path[Promoter])
      <3>1. ProcTypeOK' /\ PathInv'
        BY <1>6, <2>2, ReturnType DEF PromoteMeta, CoreInv, Labels, ClientLabels
      <3> QED  BY <2>1, <3>1 DEF CoreInv
    <2>3. CASE HasRow(path[Promoter])
      <3>1. ProcTypeOK'
        BY <1>6, <2>3 DEF PromoteMeta, CoreInv, MetadataTypeOK, ProcTypeOK, Goto, Labels,
                    PromoLabels
      <3>2. PathInv'
        BY <1>6, <2>3, ClientsAreProcs DEF PromoteMeta, CoreInv, ProcTypeOK, PathInv, Goto
      <3> QED  BY <2>1, <3>1, <3>2 DEF CoreInv
    <2> QED  BY <2>2, <2>3
  <1>7. CASE PromoteBits
    <2>1. MetadataTypeOK'
      <3>1. fbm[Promoter] \cup {Local} \in SUBSET Tier
        BY DEF CoreInv, ProcTypeOK, Tier
      <3> QED  BY <1>7, <3>1, SetTierBitmaskType DEF PromoteBits, CoreInv
    <2>2. StoreTypeOK' /\ BoundTypeOK'
      BY <1>7 DEF PromoteBits, CoreInv, StoreTypeOK, BoundTypeOK, storeVars, boundVars
    <2>3. ProcTypeOK' /\ PathInv'
      BY <1>7, ReturnType DEF PromoteBits, CoreInv, Labels, ClientLabels
    <2> QED  BY <2>1, <2>2, <2>3 DEF CoreInv
  <1>8. CASE PromoteLost
    <2>1. MetadataTypeOK' /\ BoundTypeOK'
      BY <1>8, DbFaultType DEF PromoteLost, CoreInv
    <2>2. StoreTypeOK'
      BY <1>8 DEF PromoteLost, CoreInv, StoreTypeOK, storeVars
    <2>3. ProcTypeOK' /\ PathInv'
      BY <1>8, ReturnType DEF PromoteLost, CoreInv, Labels, ClientLabels
    <2> QED  BY <2>1, <2>2, <2>3 DEF CoreInv
  <1> QED  BY <1>1, <1>2, <1>3, <1>4, <1>5, <1>6, <1>7, <1>8 DEF PromoteStep

\* A crash leaves a well-typed state behind.
LEMMA CrashType ==
    ASSUME TypeInv, Crash
    PROVE  TypeInv'
  <1>1. MetadataTypeOK' /\ StoreTypeOK' /\ WorkTypeOK' /\ EvictTypeOK' /\ crashes' \in Nat
    BY DEF Crash, TypeInv, TypeOK, MetadataTypeOK, StoreTypeOK, WorkTypeOK, EvictTypeOK,
           fileVars
  <1>2. ProcTypeOK'
    BY DEF Crash, Restarted, ProcTypeOK, Labels, ReplayLabels, Paths, Content
  <1>3. BoundTypeOK'
    BY DEF Crash, TypeInv, TypeOK, RouterTypeOK, BoundTypeOK, boundVars
  <1>4. PathInv'
    BY ClientsAreProcs DEF Crash, Restarted, PathInv, ClientLabels
  <1> QED  BY <1>1, <1>2, <1>3, <1>4 DEF TypeInv, TypeOK, RouterTypeOK

\* The type invariant is inductive.
LEMMA TypeInit == Init => TypeInv
  <1> SUFFICES ASSUME Init PROVE TypeInv
    OBVIOUS
  <1>1. MetadataTypeOK /\ StoreTypeOK /\ WorkTypeOK /\ EvictTypeOK /\ crashes \in Nat
    BY DEF Init, MetadataInit, StoreInit, WorkInit, EvictInit, MetadataTypeOK, StoreTypeOK,
           WorkTypeOK, EvictTypeOK, Content
  <1>2. ProcTypeOK
    BY DEF Init, RouterInit, ProcInit, Restarted, ProcTypeOK, Labels, ReplayLabels, Paths,
           Content
  <1>3. BoundTypeOK
    BY DEF Init, RouterInit, ProcInit, BoundTypeOK
  <1>4. PathInv
    BY ClientsAreProcs DEF Init, RouterInit, ProcInit, Restarted, PathInv, ClientLabels
  <1> QED  BY <1>1, <1>2, <1>3, <1>4 DEF TypeInv, TypeOK, RouterTypeOK

\* Every step keeps it: one case per process.
LEMMA TypeStep == TypeInv /\ [Next]_vars => TypeInv'
  <1> SUFFICES ASSUME TypeInv, [Next]_vars PROVE TypeInv'
    OBVIOUS
  <1>1. CoreInv /\ WorkTypeOK /\ EvictTypeOK /\ crashes \in Nat
    BY DEF TypeInv, TypeOK, RouterTypeOK, CoreInv
  <1>2. ASSUME CoreInv', WorkTypeOK', EvictTypeOK', crashes' \in Nat PROVE TypeInv'
    BY <1>2 DEF TypeInv, TypeOK, RouterTypeOK, CoreInv
  <1>3. ASSUME UNCHANGED workVars PROVE WorkTypeOK'
    BY <1>1, <1>3 DEF WorkTypeOK, workVars, lapseVars
  <1>4. ASSUME UNCHANGED evictVars PROVE EvictTypeOK'
    BY <1>1, <1>4 DEF EvictTypeOK, evictVars
  <1>5. ASSUME NEW c \in Clients, Request(c) PROVE TypeInv'
    <2>1. CoreInv'
      BY <1>1, <1>5, BeginWriteType, BeginReadDeleteType DEF Request
    <2> QED  BY <1>1, <1>2, <1>3, <1>4, <1>5, <2>1 DEF Request
  <1>6. ASSUME NEW c \in Clients, Handle(c) PROVE TypeInv'
    <2>1. CoreInv'
      BY <1>1, <1>6, ClientsAreProcs, ReadType, WriteType, ReplyDeleteType
         DEF Handle, ClientStep
    <2> QED  BY <1>1, <1>2, <1>3, <1>4, <1>6, <2>1 DEF Handle
  <1>7. ASSUME NEW c \in Clients, Drop(c) PROVE TypeInv'
    <2>1. CoreInv'
      BY <1>1, <1>7, WriteType DEF Drop
    <2> QED  BY <1>1, <1>2, <1>3, <1>4, <1>7, <2>1 DEF Drop
  <1>8. CASE Upload
    BY <1>1, <1>2, <1>4, <1>8, UploadType DEF Upload
  <1>9. CASE Replay
    BY <1>1, <1>2, <1>4, <1>9, ReplayType DEF Replay
  <1>10. CASE Evict
    BY <1>1, <1>2, <1>3, <1>10, EvictType DEF Evict
  <1>11. CASE Promote
    BY <1>1, <1>2, <1>3, <1>4, <1>11, PromoteType DEF Promote
  <1>12. CASE Crash
    BY <1>12, CrashType
  <1>13. CASE UNCHANGED vars
    <2>1. MetadataTypeOK' /\ StoreTypeOK' /\ WorkTypeOK' /\ EvictTypeOK' /\ crashes' \in Nat
      BY <1>1, <1>13 DEF vars, CoreInv, MetadataTypeOK, StoreTypeOK, WorkTypeOK, EvictTypeOK,
                  metaVars, storeVars, workVars, lapseVars, evictVars
    <2>2. ProcTypeOK' /\ BoundTypeOK' /\ PathInv'
      BY <1>1, <1>13 DEF vars, CoreInv, ProcTypeOK, BoundTypeOK, PathInv, routerVars,
                  localVars, boundVars
    <2> QED  BY <1>2, <2>1, <2>2 DEF CoreInv
  <1> QED
    BY <1>5, <1>6, <1>7, <1>8, <1>9, <1>10, <1>11, <1>12, <1>13 DEF Next

\* Every variable of the daemon keeps its type, under any interleaving of
\* requests, tasks, faults and crashes.
THEOREM TypeCorrect == Spec => []TypeOK
  <1>1. TypeInv => TypeOK
    BY DEF TypeInv
  <1> QED  BY <1>1, TypeInit, TypeStep, PTL DEF Spec

-----------------------------------------------------------------------------
(* Referential integrity *)

\* What a step may do to the tables files (its ids) and wal_pending: one call
\* of a method of MetadataStore, or nothing.
MethodCall ==
    \/ UNCHANGED <<rowid, wal>>
    \/ \E p \in Paths : \E bm, s : Upsert(p, bm, s)
    \/ \E p \in Paths : DeleteRow(p)
    \/ \E id : \E op \in WalOp : ForeignKeyOk(id) /\ WalEnqueue(id, op)
    \/ \E id : WalComplete(id) \/ WalRecordFailure(id)

\* Every step of the daemon touches the database through at most one method.
LEMMA StepsCallMethods ==
    ASSUME TypeInv, [Next]_vars
    PROVE  MethodCall
  <1>1. ASSUME NEW c \in Clients, Request(c) \/ Drop(c) PROVE UNCHANGED <<rowid, wal>>
    BY <1>1 DEF Request, Drop, BeginWrite, BeginRead, BeginDelete, Abort, metaVars
  <1>2. ASSUME NEW c \in Clients, Handle(c) PROVE MethodCall
    <2>1. path[c] \in Paths /\ Root \in Paths
      BY ClientsAreProcs DEF TypeInv, TypeOK, RouterTypeOK, ProcTypeOK, Paths
    <2>2. CASE WriteUpsert(c) \/ WriteRoot(c)
      BY <2>1, <2>2 DEF WriteUpsert, WriteRoot, MethodCall
    <2>3. CASE WriteEnqueueNas(c) \/ WriteEnqueueS3(c)
      <3>1. CASE ForeignKeyOk(fid[c])
        <4>1. WalEnqueue(fid[c], ReplicateNas) \/ WalEnqueue(fid[c], UploadS3)
          BY <2>3, <3>1 DEF WriteEnqueueNas, WriteEnqueueS3
        <4>2. ReplicateNas \in WalOp /\ UploadS3 \in WalOp
          BY DEF WalOp
        <4> QED  BY <3>1, <4>1, <4>2 DEF MethodCall
      <3>2. CASE ~ForeignKeyOk(fid[c])
        <4>1. UNCHANGED <<rowid, wal>>
          BY <2>3, <3>2 DEF WriteEnqueueNas, WriteEnqueueS3, metaVars
        <4> QED  BY <4>1 DEF MethodCall
      <3> QED  BY <3>1, <3>2
    <2>4. CASE DeleteMeta(c)
      BY <2>1, <2>4 DEF DeleteMeta, MethodCall
    <2>5. CASE \/ WriteFill(c) \/ WriteParents(c) \/ ReadMeta(c) \/ ReadLocal(c)
               \/ ReadCold(c) \/ Reply(c) \/ DeleteFromTier(c)
      <3>1. UNCHANGED <<rowid, wal>>
        BY <2>5 DEF WriteFill, WriteParents, ReadMeta, ReadLocal, ReadCold, Reply,
                    DeleteFromTier, DbFault, metaVars
      <3> QED  BY <3>1 DEF MethodCall
    <2> QED  BY <1>2, <2>2, <2>3, <2>4, <2>5 DEF Handle, ClientStep
  <1>3. CASE Upload
    <2>1. CASE UploadComplete \/ UploadFail
      BY <2>1 DEF UploadComplete, UploadFail, DbFault, metaVars, MethodCall
    <2>2. CASE \/ UploadLoad \/ UploadNext \/ UploadSkip \/ UploadEnd \/ UploaderRead
               \/ UploadPut \/ UploadBits
      <3>1. UNCHANGED <<rowid, wal>>
        BY <2>2 DEF UploadLoad, UploadNext, UploadSkip, UploadEnd, UploaderRead, UploadPut,
                    UploadBits, ReadMeta, ReadLocal, ReadCold, SetTierBitmask, DbFault, metaVars
      <3> QED  BY <3>1 DEF MethodCall
    <2> QED  BY <1>3, <2>1, <2>2 DEF Upload, UploaderStep
  <1>4. CASE Replay
    <2>1. CASE ReplayComplete \/ ReplayFail
      BY <2>1 DEF ReplayComplete, ReplayFail, SkipEntry, DbFault, metaVars, MethodCall
    <2>2. CASE \/ ReplayLoad \/ ReplayNext \/ ReplayEnd \/ ReplayGiveUp \/ ReplaySkip
               \/ ReplayLook \/ ReplayerRead \/ ReplayNasCreate \/ ReplayNasFill \/ ReplayPut \/ ReplayBits
      <3>1. UNCHANGED <<rowid, wal>>
        BY <2>2 DEF ReplayLoad, ReplayNext, ReplayEnd, ReplayGiveUp, ReplaySkip, SkipEntry,
                    ReplayLook, ReplayerRead, ReplayNasCreate, ReplayNasFill, ReplayPut,
                    ReplayBits, ReadMeta, ReadLocal, ReadCold, SetTierBitmask, DbFault, metaVars
      <3> QED  BY <3>1 DEF MethodCall
    <2> QED  BY <1>4, <2>1, <2>2 DEF Replay, ReplayStep
  <1>5. ASSUME Evict \/ Promote \/ Crash \/ UNCHANGED vars PROVE UNCHANGED <<rowid, wal>>
    BY <1>5 DEF Evict, EvictStep, EvictScan, EvictEnd, EvictLookup, EvictDelete, EvictBits,
                Promote, PromoteStep, PromoteRecv, PromoteRead, PromoteSkip, PromoteCreate,
                PromoteFill, PromoteMeta, PromoteBits, PromoteLost, ReadMeta, ReadLocal,
                ReadCold, SetTierBitmask, DbFault, Crash, vars, metaVars, fileVars
  <1> QED  BY <1>1, <1>2, <1>3, <1>4, <1>5 DEF Next, MethodCall

\* Each method keeps ids unique and every WAL entry's file in place.
LEMMA MethodsKeepIntegrity ==
    ASSUME MetadataTypeOK, WalIntegrity, MethodCall
    PROVE  WalIntegrity'
  <1>1. CASE UNCHANGED <<rowid, wal>>
    BY <1>1 DEF WalIntegrity, RowIdsUnique, WalIdsUnique, WalRefsFiles, ForeignKeyOk,
                PathsOf, HasRow
  <1>2. ASSUME NEW p \in Paths, NEW bm, NEW s, Upsert(p, bm, s) PROVE WalIntegrity'
    <2>1. CASE HasRow(p)
      <3>1. UNCHANGED <<rowid, wal>>
        BY <1>2, <2>1 DEF Upsert
      <3> QED  BY <1>1, <3>1
    <2>2. CASE ~HasRow(p)
      <3>1. PICK n \in NextRowids({rowid[q] : q \in Paths}) :
               rowid' = [rowid EXCEPT ![p] = n]
        BY <1>2, <2>2 DEF Upsert
      <3>2. n \in Nat \ {0} /\ \A q \in Paths : rowid[q] < n
        BY DEF NextRowids, MetadataTypeOK
      <3>3. rowid'[p] = n /\ \A q \in Paths \ {p} : rowid'[q] = rowid[q]
        BY <3>1 DEF MetadataTypeOK
      <3>4. RowIdsUnique'
        BY <3>2, <3>3 DEF WalIntegrity, RowIdsUnique, HasRow, MetadataTypeOK
      <3>5. wal' = wal
        BY <1>2 DEF Upsert
      <3>6. WalRefsFiles'
        BY <2>2, <3>3, <3>5 DEF WalIntegrity, WalRefsFiles, ForeignKeyOk, PathsOf, HasRow
      <3> QED  BY <3>4, <3>5, <3>6 DEF WalIntegrity, WalIdsUnique
    <2> QED  BY <2>1, <2>2
  <1>3. ASSUME NEW p \in Paths, DeleteRow(p) PROVE WalIntegrity'
    <2>1. rowid'[p] = 0 /\ \A q \in Paths \ {p} : rowid'[q] = rowid[q]
      BY <1>3 DEF DeleteRow, MetadataTypeOK
    <2>2. wal' = {e \in wal : e.fid # rowid[p]}
      BY <1>3 DEF DeleteRow
    <2>3. RowIdsUnique'
      BY <2>1 DEF WalIntegrity, RowIdsUnique, HasRow, MetadataTypeOK
    <2>4. WalRefsFiles'
      BY <2>1, <2>2 DEF WalIntegrity, WalRefsFiles, ForeignKeyOk, PathsOf, HasRow
    <2> QED  BY <2>2, <2>3, <2>4 DEF WalIntegrity, WalIdsUnique
  <1>4. ASSUME NEW id, NEW op \in WalOp, ForeignKeyOk(id), WalEnqueue(id, op)
        PROVE  WalIntegrity'
    <2>1. PICK n \in NextRowids({e.id : e \in wal}) :
             wal' = wal \cup {[id |-> n, fid |-> id, op |-> op, attempts |-> 0]}
      BY <1>4 DEF WalEnqueue
    <2>2. \A e \in wal : e.id # n
      <3>1. \A x \in {e.id : e \in wal} : x < n
        BY DEF NextRowids
      <3>2. n \in Nat
        BY DEF NextRowids, MetadataTypeOK, WalEntry
      <3>3. \A e \in wal : e.id \in Nat /\ e.id < n
        BY <3>1 DEF MetadataTypeOK, WalEntry
      <3> QED  BY <3>2, <3>3
    <2>3. rowid' = rowid
      BY <1>4 DEF WalEnqueue, fileVars
    <2> QED  BY <1>4, <2>1, <2>2, <2>3 DEF WalIntegrity, RowIdsUnique, WalIdsUnique,
                    WalRefsFiles, ForeignKeyOk, PathsOf, HasRow
  <1>5. ASSUME NEW id, WalComplete(id) PROVE WalIntegrity'
    BY <1>5 DEF WalComplete, WalIntegrity, RowIdsUnique, WalIdsUnique, WalRefsFiles,
                ForeignKeyOk, PathsOf, HasRow
  <1>6. ASSUME NEW id, WalRecordFailure(id) PROVE WalIntegrity'
    <2> DEFINE Bump(e) == IF e.id = id THEN [e EXCEPT !.attempts = @ + 1] ELSE e
    <2>1. wal' = {Bump(e) : e \in wal} /\ rowid' = rowid
      BY <1>6 DEF WalRecordFailure
    <2>2. \A e \in wal : Bump(e).id = e.id /\ Bump(e).fid = e.fid
      BY DEF MetadataTypeOK, WalEntry
    <2> HIDE DEF Bump
    <2>3. WalIdsUnique'
      <3>1. ASSUME NEW x \in wal', NEW y \in wal', x.id = y.id PROVE x = y
        <4>1. PICK d \in wal : x = Bump(d)
          BY <2>1
        <4>2. PICK e \in wal : y = Bump(e)
          BY <2>1
        <4>3. d = e
          BY <2>2, <3>1, <4>1, <4>2 DEF WalIntegrity, WalIdsUnique
        <4> QED  BY <4>1, <4>2, <4>3
      <3> QED  BY <3>1 DEF WalIdsUnique
    <2>4. WalRefsFiles'
      BY <2>1, <2>2 DEF WalIntegrity, WalRefsFiles, ForeignKeyOk, PathsOf, HasRow
    <2> QED  BY <2>1, <2>3, <2>4 DEF WalIntegrity, RowIdsUnique, HasRow
  <1> QED  BY <1>1, <1>2, <1>3, <1>4, <1>5, <1>6 DEF MethodCall

\* Row ids and WAL ids identify their rows and no WAL entry outlives its file,
\* although SQLite reuses ids and uploads race deletes.
THEOREM Integrity == Spec => []WalIntegrity
  <1>1. Init => WalIntegrity
    BY DEF Init, MetadataInit, WalIntegrity, RowIdsUnique, WalIdsUnique, WalRefsFiles, HasRow
  <1>2. TypeInv /\ WalIntegrity /\ [Next]_vars => WalIntegrity'
    BY StepsCallMethods, MethodsKeepIntegrity DEF TypeInv, TypeOK
  <1> QED  BY <1>1, <1>2, TypeInit, TypeStep, PTL DEF Spec

-----------------------------------------------------------------------------
(* Attempts and replay *)

\* How the snapshot a WAL worker holds relates to the table.  The entries in
\* hand are distinct.  The uploader only holds ids whose entry, an older or a
\* newer one, has an attempt left.  Replay holds the very attempts of the
\* table, and holds every entry that has an attempt left, unless a database
\* error made it skip the entry or miss counting an attempt of it.
SnapshotDistinct ==
    /\ \A e, x \in todo \cup entry : e.id = x.id => e = x
    /\ \A e, x \in entry : e = x
    /\ todo \cap entry = {}

UploadSnapshot ==
    Serving => \A e \in todo \cup entry, x \in wal : x.id = e.id => x.attempts < MAX_ATTEMPTS

ReplaySnapshot ==
    ~Serving =>
        /\ \A e \in todo \cup entry, x \in wal : x.id = e.id =>
               \/ x.attempts = e.attempts
               \/ (x.attempts < e.attempts /\ x.id \in skipped)
        /\ pc[Replayer] \notin {"y_load", "y_next", "y_look"} =>
               \A e \in entry : e.attempts < MAX_ATTEMPTS
        /\ pc[Replayer] # "y_load" =>
               \A x \in wal : x.attempts < MAX_ATTEMPTS =>
                   x.id \in skipped \/ \E e \in todo \cup entry : e.id = x.id

WorkerPlace ==
    /\ ~Serving => \A p \in Procs \ {Replayer} : pc[p] = "idle"
    /\ pc[Uploader] \in {"idle", "u_next"} /\ (Serving \/ pc[Replayer] \in {"y_load", "y_next"})
           => entry = {}
    /\ pc[Uploader] = "idle" /\ (Serving \/ pc[Replayer] = "y_load") => todo = {}

WorkInv ==
    /\ AttemptsBounded
    /\ SnapshotDistinct
    /\ UploadSnapshot
    /\ ReplaySnapshot
    /\ WorkerPlace

\* An empty table and no snapshot.
LEMMA WorkInvInit == Init => WorkInv
  BY AttemptsAssumption DEF Init, MetadataInit, WorkInit, RouterInit, ProcInit,
     Restarted, WorkInv, AttemptsBounded, SnapshotDistinct, UploadSnapshot, ReplaySnapshot,
     WorkerPlace, Serving, Procs

\* A step of a process that works on no WAL entry: the daemon is serving, the
\* WAL workers stay where they are, and a new entry has no attempts yet.
Elsewhere ==
    /\ Serving
    /\ pc'[Uploader] = pc[Uploader] /\ pc'[Replayer] = pc[Replayer]
    /\ UNCHANGED <<todo, entry>>
    /\ \A x \in wal' : x \in wal \/ x.attempts = 0

\* Requests run only while serving, and a write enqueues with no attempts.
LEMMA ClientStepsElsewhere ==
    ASSUME TypeInv, WorkerPlace, NEW c \in Clients, Request(c) \/ Handle(c) \/ Drop(c)
    PROVE  Elsewhere
  <1>1. c \in Procs /\ c # Uploader /\ c # Replayer /\ {Uploader, Replayer} \subseteq Procs
    BY ProcAssumption DEF Procs
  <1>2. Serving
    <2>1. Serving \/ pc[c] # "idle"
      BY DEF Request, Handle, Drop, BeginWrite, BeginRead, BeginDelete, Abort, ClientStep,
             WriteFill, WriteUpsert, WriteParents, WriteRoot, WriteEnqueueNas,
             WriteEnqueueS3, ReadMeta, ReadLocal, ReadCold, Reply, DeleteFromTier,
             DeleteMeta, ClientLabels
    <2> QED  BY <1>1, <2>1 DEF WorkerPlace
  <1>3. pc'[Uploader] = pc[Uploader] /\ pc'[Replayer] = pc[Replayer]
    <2> USE <1>1 DEF TypeInv, TypeOK, RouterTypeOK, ProcTypeOK, Goto, Return
    <2>1. CASE Request(c) \/ Drop(c)
      BY <2>1 DEF Request, Drop, BeginWrite, BeginRead, BeginDelete, Abort
    <2>2. CASE WriteFill(c) \/ WriteUpsert(c) \/ WriteParents(c) \/ WriteRoot(c)
      BY <2>2 DEF WriteFill, WriteUpsert, WriteParents, WriteRoot
    <2>3. CASE WriteEnqueueNas(c) \/ WriteEnqueueS3(c)
      BY <2>3 DEF WriteEnqueueNas, WriteEnqueueS3
    <2>4. CASE ReadMeta(c) \/ ReadLocal(c) \/ ReadCold(c) \/ Reply(c)
      BY <2>4 DEF ReadMeta, ReadLocal, ReadCold, Reply
    <2>5. CASE DeleteFromTier(c) \/ DeleteMeta(c)
      BY <2>5 DEF DeleteFromTier, DeleteMeta
    <2> QED  BY <2>1, <2>2, <2>3, <2>4, <2>5 DEF Handle, ClientStep
  <1>4. UNCHANGED <<todo, entry>>
    BY DEF Request, Handle, Drop, workVars
  <1>5. \A x \in wal' : x \in wal \/ x.attempts = 0
    <2>1. CASE WriteEnqueueNas(c) \/ WriteEnqueueS3(c)
      <3>1. CASE wal' = wal
        BY <3>1
      <3>2. CASE WalEnqueue(fid[c], ReplicateNas) \/ WalEnqueue(fid[c], UploadS3)
        <4>1. PICK n, op : wal' = wal \cup {[id |-> n, fid |-> fid[c], op |-> op, attempts |-> 0]}
          BY <3>2 DEF WalEnqueue
        <4> QED  BY <4>1
      <3> QED  BY <2>1, <3>1, <3>2 DEF WriteEnqueueNas, WriteEnqueueS3, metaVars
    <2>2. CASE DeleteMeta(c)
      BY <2>2 DEF DeleteMeta, DeleteRow
    <2>3. CASE \/ Request(c) \/ Drop(c) \/ WriteFill(c) \/ WriteUpsert(c) \/ WriteParents(c)
               \/ WriteRoot(c) \/ ReadMeta(c) \/ ReadLocal(c) \/ ReadCold(c) \/ Reply(c)
               \/ DeleteFromTier(c)
      BY <2>3 DEF Request, Drop, BeginWrite, BeginRead, BeginDelete, Abort, WriteFill,
                  WriteUpsert, WriteParents, WriteRoot, Upsert, ReadMeta, ReadLocal,
                  ReadCold, Reply, DeleteFromTier, DbFault, metaVars
    <2> QED  BY <2>1, <2>2, <2>3 DEF Handle, ClientStep
  <1> QED  BY <1>2, <1>3, <1>4, <1>5 DEF Elsewhere

\* The eviction and promotion tasks never touch the WAL.
LEMMA TaskStepsElsewhere ==
    ASSUME TypeInv, WorkerPlace, Evict \/ Promote
    PROVE  Elsewhere
  <1>1. Evictor \in Procs /\ Promoter \in Procs /\ Uploader \in Procs /\ Replayer \in Procs
        /\ {Evictor, Promoter} \cap {Uploader, Replayer} = {}
    BY DEF Procs, Evictor, Promoter, Uploader, Replayer
  <1>2. Serving
    <2>1. Serving \/ pc[Evictor] # "idle" \/ pc[Promoter] # "idle"
      BY DEF Evict, EvictStep, EvictScan, EvictEnd, EvictLookup, EvictDelete, EvictBits,
             Promote, PromoteStep, PromoteRecv, PromoteRead, PromoteSkip, PromoteCreate,
             PromoteFill, PromoteMeta, PromoteBits, PromoteLost, ReadMeta, ReadLocal, ReadCold
    <2> QED  BY <1>1, <2>1 DEF WorkerPlace
  <1>3. pc'[Uploader] = pc[Uploader] /\ pc'[Replayer] = pc[Replayer]
    <2>1. CASE Evict
      BY <1>1, <2>1 DEF TypeInv, TypeOK, RouterTypeOK, ProcTypeOK, Evict, EvictStep, EvictScan,
             EvictEnd, EvictLookup, EvictDelete, EvictBits, Goto, Return
    <2>2. CASE Promote
      BY <1>1, <2>2 DEF TypeInv, TypeOK, RouterTypeOK, ProcTypeOK, Promote, PromoteStep,
             PromoteRecv, PromoteRead, PromoteSkip, PromoteCreate, PromoteFill, PromoteMeta,
             PromoteBits, PromoteLost, ReadMeta, ReadLocal, ReadCold, Goto, Return
    <2> QED  BY <2>1, <2>2
  <1>4. UNCHANGED <<todo, entry, wal>>
    BY DEF Evict, EvictStep, EvictScan, EvictEnd, EvictLookup, EvictDelete, EvictBits,
           Promote, PromoteStep, PromoteRecv, PromoteRead, PromoteSkip, PromoteCreate,
           PromoteFill, PromoteMeta, PromoteBits, PromoteLost, ReadMeta, ReadLocal, ReadCold,
           SetTierBitmask, DbFault, metaVars, workVars
  <1> QED  BY <1>2, <1>3, <1>4 DEF Elsewhere

\* A new entry may reuse the id of one in hand: it has every attempt left.
LEMMA ElsewhereKeepsWork ==
    ASSUME TypeInv, WorkInv, Elsewhere
    PROVE  WorkInv'
  <1>1. Serving'
    BY DEF Elsewhere, Serving
  <1>2. AttemptsBounded' /\ UploadSnapshot'
    BY AttemptsAssumption DEF Elsewhere, WorkInv, AttemptsBounded, UploadSnapshot
  <1>3. SnapshotDistinct' /\ WorkerPlace'
    BY <1>1 DEF Elsewhere, WorkInv, SnapshotDistinct, WorkerPlace
  <1> QED  BY <1>1, <1>2, <1>3 DEF WorkInv, ReplaySnapshot

\* wal_record_failure adds one attempt to the entries with that id.
LEMMA FailedAttempt ==
    ASSUME MetadataTypeOK, NEW id, WalRecordFailure(id)
    PROVE  \A x \in wal' :
               \/ x \in wal /\ x.id # id
               \/ \E y \in wal : y.id = id /\ x.id = id /\ x.attempts = y.attempts + 1
  <1>1. ASSUME NEW x \in wal'
        PROVE  \/ x \in wal /\ x.id # id
               \/ \E y \in wal : y.id = id /\ x.id = id /\ x.attempts = y.attempts + 1
    <2>1. PICK y \in wal : x = IF y.id = id THEN [y EXCEPT !.attempts = @ + 1] ELSE y
      BY <1>1 DEF WalRecordFailure
    <2> QED  BY <2>1 DEF MetadataTypeOK, WalEntry
  <1> QED  BY <1>1

\* The uploader is spawned after replay and does not restart it.
LEMMA UploadWhileServing ==
    ASSUME TypeInv, WorkerPlace, Upload
    PROVE  Serving /\ pc'[Replayer] = pc[Replayer]
  <1>1. Uploader \in Procs /\ Replayer \in Procs /\ Uploader # Replayer
    BY DEF Procs, Uploader, Replayer
  <1>2. Serving \/ pc[Uploader] # "idle"
    BY DEF Upload, UploaderStep, UploadLoad, UploadNext, UploadSkip, UploadEnd, UploaderRead,
           UploadPut, UploadBits, UploadComplete, UploadFail, ReadMeta, ReadLocal, ReadCold
  <1>3. Serving
    BY <1>1, <1>2 DEF WorkerPlace
  <1>4. pc'[Replayer] = pc[Replayer]
    BY <1>1 DEF TypeInv, TypeOK, RouterTypeOK, ProcTypeOK, Upload, UploaderStep,
           UploadLoad, UploadNext, UploadSkip, UploadEnd, UploaderRead, UploadPut, UploadBits,
           UploadComplete, UploadFail, ReadMeta, ReadLocal, ReadCold, S3Put, Goto, Return,
           localVars
  <1> QED  BY <1>3, <1>4

\* The uploader counts a failure only against an entry with an attempt left.
LEMMA UploadKeepsWork ==
    ASSUME TypeInv, WalIntegrity, WorkInv, Upload
    PROVE  WorkInv'
  <1>1. Uploader \in Procs /\ Replayer \in Procs /\ Uploader # Replayer
    BY DEF Procs, Uploader, Replayer
  <1>2. Serving
    BY UploadWhileServing DEF WorkInv
  <1>3. pc'[Replayer] = pc[Replayer] /\ Serving'
    BY <1>2, UploadWhileServing DEF WorkInv, Serving
  <1>4. SUFFICES AttemptsBounded' /\ SnapshotDistinct' /\ UploadSnapshot' /\ WorkerPlace'
    BY <1>3 DEF WorkInv, ReplaySnapshot
  <1>5. CASE UploadLoad
    <2>1. todo' = {e \in wal : Retriable(e)} /\ wal' = wal /\ entry' = {}
      BY <1>2, <1>5 DEF UploadLoad, metaVars, WorkInv, WorkerPlace
    <2>2. pc'[Uploader] = "u_next"
      BY <1>1, <1>5 DEF UploadLoad, Goto, TypeInv, TypeOK, RouterTypeOK, ProcTypeOK
    <2>3. SnapshotDistinct'
      BY <2>1 DEF SnapshotDistinct, WalIntegrity, WalIdsUnique
    <2>4. UploadSnapshot'
      BY <2>1 DEF UploadSnapshot, WalIntegrity, WalIdsUnique, Retriable
    <2>5. WorkerPlace'
      BY <1>3, <2>1, <2>2 DEF WorkerPlace
    <2> QED  BY <2>1, <2>3, <2>4, <2>5 DEF WorkInv, AttemptsBounded
  <1>6. CASE UploadNext
    <2>1. PICK e \in todo : entry' = {e} /\ todo' = todo \ {e}
      BY <1>6 DEF UploadNext, Oldest
    <2>2. wal' = wal /\ entry = {}
      BY <1>2, <1>6 DEF UploadNext, metaVars, WorkInv, WorkerPlace
    <2>3. pc'[Uploader] \notin {"idle", "u_next"}
      BY <1>1, <1>6 DEF UploadNext, Goto, TypeInv, TypeOK, RouterTypeOK, ProcTypeOK
    <2>4. todo' \cup entry' = todo \cup entry
      BY <2>1, <2>2
    <2>5. SnapshotDistinct' /\ UploadSnapshot'
      BY <1>2, <2>1, <2>2, <2>4 DEF WorkInv, SnapshotDistinct, UploadSnapshot
    <2>6. WorkerPlace'
      BY <1>3, <2>3 DEF WorkerPlace
    <2> QED  BY <2>2, <2>5, <2>6 DEF WorkInv, AttemptsBounded
  <1>7. CASE UploadEnd
    <2>1. UNCHANGED <<wal, todo, entry>> /\ todo = {} /\ entry = {}
      BY <1>2, <1>7 DEF UploadEnd, metaVars, workVars, WorkInv, WorkerPlace
    <2>2. WorkerPlace'
      BY <1>3, <2>1 DEF WorkerPlace
    <2> QED  BY <2>1, <2>2 DEF WorkInv, AttemptsBounded, SnapshotDistinct, UploadSnapshot
  <1>8. CASE UploaderRead \/ UploadPut \/ UploadBits
    <2>1. UNCHANGED <<wal, todo, entry>>
      BY <1>8 DEF UploaderRead, UploadPut, UploadBits, ReadMeta, ReadLocal, ReadCold,
                  SetTierBitmask, DbFault, metaVars, workVars
    <2>2. pc'[Uploader] \notin {"idle", "u_next"}
      BY <1>1, <1>8 DEF UploaderRead, UploadPut, UploadBits, ReadMeta, ReadLocal, ReadCold,
                  S3Put, Goto, TypeInv, TypeOK, RouterTypeOK, ProcTypeOK
    <2>3. WorkerPlace'
      BY <1>3, <2>2 DEF WorkerPlace
    <2> QED  BY <1>2, <2>1, <2>3 DEF WorkInv, AttemptsBounded, SnapshotDistinct, UploadSnapshot
  <1>9. CASE UploadComplete
    <2>1. wal' \subseteq wal /\ todo' = todo /\ entry' = {}
      BY <1>9 DEF UploadComplete, WalComplete, DbFault, metaVars
    <2>2. pc'[Uploader] = "u_next"
      BY <1>1, <1>9 DEF UploadComplete, Return, Goto, TypeInv, TypeOK, RouterTypeOK, ProcTypeOK
    <2>3. WorkerPlace'
      BY <1>3, <2>1, <2>2 DEF WorkerPlace
    <2> QED  BY <1>2, <2>1, <2>3 DEF WorkInv, AttemptsBounded, SnapshotDistinct, UploadSnapshot
  <1>10. CASE UploadFail /\ ~DbFault
    <2>1. PICK e \in entry : WalRecordFailure(e.id)
      BY <1>10 DEF UploadFail
    <2>2. todo' = todo /\ entry' = {}
      BY <1>10 DEF UploadFail
    <2>3. pc'[Uploader] = "u_next"
      BY <1>1, <1>10 DEF UploadFail, Return, Goto, TypeInv, TypeOK, RouterTypeOK, ProcTypeOK
    <2>4. \A x \in wal' : \/ x \in wal /\ x.id # e.id
                          \/ \E y \in wal : y.id = e.id /\ x.id = e.id /\ x.attempts = y.attempts + 1
      BY <2>1, FailedAttempt DEF TypeInv, TypeOK
    <2>5. AttemptsBounded'
      BY <1>2, <2>4, AttemptsAssumption DEF WorkInv, UploadSnapshot, AttemptsBounded, TypeInv,
             TypeOK, MetadataTypeOK, WalEntry
    <2>6. \A x \in todo : x.id # e.id
      BY DEF WorkInv, SnapshotDistinct
    <2>7. UploadSnapshot'
      BY <1>2, <2>2, <2>4, <2>6 DEF WorkInv, UploadSnapshot
    <2>8. SnapshotDistinct' /\ WorkerPlace'
      BY <1>3, <2>2, <2>3 DEF WorkInv, SnapshotDistinct, WorkerPlace
    <2> QED  BY <2>5, <2>7, <2>8
  <1>11. CASE UploadFail /\ DbFault
    <2>1. wal' = wal /\ todo' = todo /\ entry' = {}
      BY <1>11 DEF UploadFail, DbFault, metaVars
    <2>2. pc'[Uploader] = "u_next"
      BY <1>1, <1>11 DEF UploadFail, Return, Goto, TypeInv, TypeOK, RouterTypeOK, ProcTypeOK
    <2>3. WorkerPlace'
      BY <1>3, <2>1, <2>2 DEF WorkerPlace
    <2> QED  BY <1>2, <2>1, <2>3 DEF WorkInv, AttemptsBounded, SnapshotDistinct, UploadSnapshot
  <1>12. CASE UploadSkip
    <2>1. wal' = wal /\ todo' \subseteq todo /\ entry' = entry /\ pc' = pc
      BY <1>12 DEF UploadSkip, DbFault, metaVars, localVars
    <2>2. WorkerPlace'
      BY <1>2, <1>3, <1>12, <2>1 DEF UploadSkip, WorkInv, WorkerPlace
    <2> QED  BY <1>2, <2>1, <2>2 DEF WorkInv, AttemptsBounded, SnapshotDistinct, UploadSnapshot
  <1> QED  BY <1>5, <1>6, <1>7, <1>8, <1>9, <1>10, <1>11, <1>12 DEF Upload, UploaderStep

\* Replay lets go of an entry only when it is completed or given up.
LEMMA ReplayKeepsWork ==
    ASSUME TypeInv, WalIntegrity, WorkInv, Replay
    PROVE  WorkInv'
  <1>1. Uploader \in Procs /\ Replayer \in Procs /\ Uploader # Replayer
    BY DEF Procs, Uploader, Replayer
  <1>2. ~Serving /\ pc[Uploader] = "idle"
    <2>1. ~Serving
      BY DEF Replay, ReplayStep, ReplayLoad, ReplayNext, ReplayEnd, ReplayGiveUp, ReplaySkip,
             ReplayLook, ReplayerRead, ReplayNasCreate, ReplayNasFill, ReplayPut, ReplayBits,
             ReplayComplete, ReplayFail, ReadMeta, ReadLocal, ReadCold, Serving
    <2> QED  BY <1>1, <2>1 DEF WorkInv, WorkerPlace
  <1>3. \A p \in Procs \ {Replayer} : pc'[p] = "idle"
    <2>1. \A p \in Procs \ {Replayer} : pc'[p] = pc[p]
      BY <1>1 DEF TypeInv, TypeOK, RouterTypeOK, ProcTypeOK, Replay, ReplayStep, ReplayLoad,
             ReplayNext, ReplayEnd, ReplayGiveUp, ReplaySkip, ReplayLook, ReplayerRead,
             ReplayNasCreate, ReplayNasFill, ReplayPut, ReplayBits, ReplayComplete, ReplayFail, ReadMeta,
             ReadLocal, ReadCold, S3Put, Goto, Return
    <2> QED  BY <1>2, <2>1 DEF WorkInv, WorkerPlace
  <1>4. CASE ReplayLoad
    <2>1. /\ wal' = wal /\ entry' = {} /\ pc'[Replayer] = "y_next"
          /\ todo' = wal \/ (todo' = {} /\ skipped' = {e.id : e \in wal})
      BY <1>1, <1>2, <1>4 DEF ReplayLoad, Goto, DbFault, Ids, metaVars, WorkInv, WorkerPlace,
             TypeInv, TypeOK, RouterTypeOK, ProcTypeOK
    <2>2. SnapshotDistinct'
      BY <2>1 DEF SnapshotDistinct, WalIntegrity, WalIdsUnique
    <2>3. ReplaySnapshot' /\ UploadSnapshot'
      BY <2>1 DEF ReplaySnapshot, UploadSnapshot, Serving, WalIntegrity, WalIdsUnique
    <2>4. WorkerPlace'
      BY <1>3, <2>1 DEF WorkerPlace, Serving
    <2> QED  BY <2>1, <2>2, <2>3, <2>4 DEF WorkInv, AttemptsBounded
  <1>5. CASE ReplayNext
    <2>1. PICK e \in todo : entry' = {e} /\ todo' = todo \ {e}
      BY <1>5 DEF ReplayNext, Oldest
    <2>2. /\ wal' = wal /\ entry = {} /\ pc'[Replayer] = "y_look" /\ pc[Replayer] = "y_next"
          /\ skipped' = skipped
      BY <1>1, <1>2, <1>5 DEF ReplayNext, Goto, metaVars, lapseVars, WorkInv, WorkerPlace, TypeInv,
             TypeOK, RouterTypeOK, ProcTypeOK
    <2>3. todo' \cup entry' = todo \cup entry
      BY <2>1, <2>2
    <2>4. SnapshotDistinct'
      BY <2>1, <2>2, <2>3 DEF WorkInv, SnapshotDistinct
    <2>5. ReplaySnapshot' /\ UploadSnapshot'
      BY <1>2, <2>2, <2>3 DEF WorkInv, ReplaySnapshot, UploadSnapshot, Serving
    <2>6. WorkerPlace'
      BY <1>3, <2>2 DEF WorkerPlace, Serving
    <2> QED  BY <2>2, <2>4, <2>5, <2>6 DEF WorkInv, AttemptsBounded
  <1>6. CASE ReplayEnd
    <2>1. UNCHANGED <<wal, todo, entry>> /\ todo = {} /\ entry = {} /\ pc'[Replayer] = "off"
      BY <1>1, <1>2, <1>6 DEF ReplayEnd, Goto, metaVars, WorkInv, WorkerPlace,
             TypeInv, TypeOK, RouterTypeOK, ProcTypeOK
    <2>2. WorkerPlace'
      BY <1>3, <2>1 DEF WorkerPlace, Serving
    <2> QED  BY <2>1, <2>2 DEF WorkInv, AttemptsBounded, SnapshotDistinct, UploadSnapshot,
                ReplaySnapshot, Serving
  <1>7. CASE ReplayGiveUp
    <2>1. PICK e \in entry : e.attempts >= MAX_ATTEMPTS
      BY <1>7 DEF ReplayGiveUp
    <2>2. /\ wal' = wal /\ todo' = todo /\ entry' = {} /\ pc'[Replayer] = "y_next"
          /\ pc[Replayer] = "y_look" /\ skipped' = skipped
      BY <1>1, <1>7 DEF ReplayGiveUp, Goto, metaVars, lapseVars, TypeInv, TypeOK, RouterTypeOK,
             ProcTypeOK
    <2>3. ASSUME NEW x \in wal, x.attempts < MAX_ATTEMPTS
          PROVE  x.id \in skipped \/ \E y \in todo : y.id = x.id
      <3> SUFFICES ASSUME x.id \notin skipped PROVE \E y \in todo : y.id = x.id
        OBVIOUS
      <3>1. PICK y \in todo \cup entry : y.id = x.id
        BY <1>2, <2>2, <2>3 DEF WorkInv, ReplaySnapshot
      <3>2. y.attempts = x.attempts
        BY <1>2, <3>1 DEF WorkInv, ReplaySnapshot
      <3>3. e.attempts \in Nat /\ x.attempts \in Nat /\ MAX_ATTEMPTS \in Nat
        BY AttemptsAssumption DEF TypeInv, TypeOK, WorkTypeOK, MetadataTypeOK, WalEntry
      <3>4. y # e
        BY <2>1, <2>3, <3>2, <3>3
      <3> QED  BY <3>1, <3>4 DEF WorkInv, SnapshotDistinct
    <2>4. ReplaySnapshot' /\ UploadSnapshot'
      BY <1>2, <2>2, <2>3 DEF WorkInv, ReplaySnapshot, UploadSnapshot, Serving
    <2>5. WorkerPlace'
      BY <1>3, <2>2 DEF WorkerPlace, Serving
    <2> QED  BY <2>2, <2>4, <2>5 DEF WorkInv, AttemptsBounded, SnapshotDistinct
  <1>8. CASE \/ ReplayLook \/ ReplayerRead \/ ReplayNasCreate \/ ReplayNasFill
             \/ ReplayPut \/ ReplayBits
    <2>1. UNCHANGED <<wal, todo, entry, skipped>>
      BY <1>8 DEF ReplayLook, ReplayerRead, ReplayNasCreate, ReplayNasFill, ReplayPut,
             ReplayBits, ReadMeta, ReadLocal, ReadCold, SetTierBitmask, DbFault, metaVars,
             workVars, lapseVars
    <2>2. pc'[Replayer] \notin {"y_load", "y_next", "y_look", "off"} /\ pc[Replayer] # "y_load"
      BY <1>1, <1>8 DEF ReplayLook, ReplayerRead, ReplayNasCreate, ReplayNasFill, ReplayPut,
             ReplayBits, ReadMeta, ReadLocal, ReadCold, S3Put, Goto, TypeInv, TypeOK,
             RouterTypeOK, ProcTypeOK
    <2>3. \A e \in entry : e.attempts < MAX_ATTEMPTS
      <3>1. CASE ReplayLook
        BY <3>1 DEF ReplayLook, WorkInv, SnapshotDistinct
      <3>2. CASE pc[Replayer] \notin {"y_load", "y_next", "y_look"}
        BY <1>2, <3>2 DEF WorkInv, ReplaySnapshot
      <3> QED  BY <1>8, <3>1, <3>2 DEF ReplayerRead, ReplayNasCreate, ReplayNasFill, ReplayPut,
                  ReplayBits, ReadMeta, ReadLocal, ReadCold
    <2>4. ReplaySnapshot' /\ UploadSnapshot'
      BY <1>2, <2>1, <2>2, <2>3 DEF WorkInv, ReplaySnapshot, UploadSnapshot, Serving
    <2>5. WorkerPlace'
      BY <1>3, <2>2 DEF WorkerPlace, Serving
    <2> QED  BY <2>1, <2>4, <2>5 DEF WorkInv, AttemptsBounded, SnapshotDistinct
  <1>9. CASE ReplayComplete /\ ~SkipEntry
    <2>1. PICK e \in entry : WalComplete(e.id)
      BY <1>9 DEF ReplayComplete
    <2>2. wal' = {x \in wal : x.id # e.id}
      BY <2>1 DEF WalComplete
    <2>3. /\ todo' = todo /\ entry' = {} /\ pc'[Replayer] = "y_next"
          /\ pc[Replayer] = "y_done" /\ skipped' = skipped
      BY <1>1, <1>9 DEF ReplayComplete, Return, Goto, TypeInv, TypeOK, RouterTypeOK, ProcTypeOK
    <2>4. ASSUME NEW x \in wal', x.attempts < MAX_ATTEMPTS
          PROVE  x.id \in skipped \/ \E y \in todo : y.id = x.id
      <3> SUFFICES ASSUME x.id \notin skipped PROVE \E y \in todo : y.id = x.id
        OBVIOUS
      <3>1. PICK y \in todo \cup entry : y.id = x.id
        BY <1>2, <2>2, <2>3, <2>4 DEF WorkInv, ReplaySnapshot
      <3> QED  BY <2>2, <3>1 DEF WorkInv, SnapshotDistinct
    <2>5. ReplaySnapshot' /\ UploadSnapshot'
      BY <1>2, <2>2, <2>3, <2>4 DEF WorkInv, ReplaySnapshot, UploadSnapshot, Serving
    <2>6. WorkerPlace'
      BY <1>3, <2>3 DEF WorkerPlace, Serving
    <2> QED  BY <2>2, <2>3, <2>5, <2>6 DEF WorkInv, AttemptsBounded, SnapshotDistinct
  <1>10. CASE ReplayFail /\ ~SkipEntry
    <2>1. PICK e \in entry : /\ WalRecordFailure(e.id)
                             /\ entry' = {[e EXCEPT !.attempts = @ + 1]}
                             /\ skipped' = skipped
      BY <1>10 DEF ReplayFail
    <2>2. todo' = todo /\ pc'[Replayer] = "y_look" /\ pc[Replayer] = "error"
      BY <1>1, <1>10 DEF ReplayFail, Return, Goto, TypeInv, TypeOK, RouterTypeOK, ProcTypeOK
    <2>3. \A x \in wal' : \/ x \in wal /\ x.id # e.id
                          \/ \E y \in wal : y.id = e.id /\ x.id = e.id /\ x.attempts = y.attempts + 1
      BY <2>1, FailedAttempt DEF TypeInv, TypeOK
    <2>4. e \in WalEntry /\ e.attempts < MAX_ATTEMPTS
      BY <1>2, <2>2 DEF WorkInv, ReplaySnapshot, TypeInv, TypeOK, WorkTypeOK
    <2>5. PICK n : entry' = {n} /\ n.id = e.id /\ n.attempts = e.attempts + 1
      <3>1. /\ [e EXCEPT !.attempts = @ + 1].id = e.id
            /\ [e EXCEPT !.attempts = @ + 1].attempts = e.attempts + 1
        BY <2>4 DEF WalEntry
      <3> QED  BY <2>1, <3>1
    <2>6. AttemptsBounded'
      <3>1. \A y \in wal : y.id = e.id => y.attempts = e.attempts \/ y.attempts < e.attempts
        BY <1>2 DEF WorkInv, ReplaySnapshot
      <3>2. \A y \in wal : y.attempts \in Nat
        BY DEF TypeInv, TypeOK, MetadataTypeOK, WalEntry
      <3> QED  BY <2>3, <2>4, <3>1, <3>2, AttemptsAssumption
               DEF WorkInv, AttemptsBounded, WalEntry
    <2>7. \A x \in todo : x.id # e.id
      BY DEF WorkInv, SnapshotDistinct
    <2>8. SnapshotDistinct'
      BY <2>2, <2>5, <2>7 DEF WorkInv, SnapshotDistinct
    <2>9. ASSUME NEW x \in wal', NEW y \in todo' \cup entry', x.id = y.id
          PROVE  x.attempts = y.attempts \/ (x.attempts < y.attempts /\ x.id \in skipped)
      <3>1. CASE x.id # e.id
        BY <1>2, <2>2, <2>3, <2>5, <2>9, <3>1 DEF WorkInv, ReplaySnapshot
      <3>2. CASE x.id = e.id
        <4>1. PICK z \in wal : z.id = e.id /\ x.attempts = z.attempts + 1
          BY <2>3, <3>2
        <4>2. z.attempts = e.attempts \/ (z.attempts < e.attempts /\ z.id \in skipped)
          BY <1>2, <4>1 DEF WorkInv, ReplaySnapshot
        <4>3. y.attempts = e.attempts + 1
          BY <2>2, <2>5, <2>7, <2>9, <3>2
        <4>4. z.attempts \in Nat /\ e.attempts \in Nat
          BY <2>4 DEF TypeInv, TypeOK, MetadataTypeOK, WalEntry
        <4> QED  BY <3>2, <4>1, <4>2, <4>3, <4>4
      <3> QED  BY <3>1, <3>2
    <2>10. ASSUME NEW x \in wal', x.attempts < MAX_ATTEMPTS, x.id \notin skipped
           PROVE  \E y \in todo' \cup entry' : y.id = x.id
      <3>1. CASE x.id = e.id
        BY <2>5, <3>1
      <3>2. CASE x.id # e.id
        <4>1. x \in wal
          BY <2>3, <3>2
        <4>2. PICK y \in todo \cup entry : y.id = x.id
          BY <1>2, <2>2, <2>10, <4>1 DEF WorkInv, ReplaySnapshot
        <4> QED  BY <2>2, <3>2, <4>2 DEF WorkInv, SnapshotDistinct
      <3> QED  BY <3>1, <3>2
    <2>11. ReplaySnapshot' /\ UploadSnapshot'
      BY <2>1, <2>2, <2>9, <2>10 DEF ReplaySnapshot, UploadSnapshot, Serving
    <2>12. WorkerPlace'
      BY <1>3, <2>2 DEF WorkerPlace, Serving
    <2> QED  BY <2>6, <2>8, <2>11, <2>12 DEF WorkInv
  <1>11. CASE (ReplayComplete /\ SkipEntry) \/ ReplaySkip
    <2>1. /\ wal' = wal /\ todo' = todo /\ entry' = {} /\ pc'[Replayer] = "y_next"
          /\ pc[Replayer] # "y_load" /\ skipped' = skipped \cup {e.id : e \in entry}
      BY <1>1, <1>11 DEF ReplayComplete, ReplaySkip, SkipEntry, DbFault, Ids, metaVars, Return,
             Goto, TypeInv, TypeOK, RouterTypeOK, ProcTypeOK
    <2>2. ReplaySnapshot' /\ UploadSnapshot'
      BY <1>2, <2>1 DEF WorkInv, ReplaySnapshot, UploadSnapshot, Serving
    <2>3. WorkerPlace'
      BY <1>3, <2>1 DEF WorkerPlace, Serving
    <2> QED  BY <2>1, <2>2, <2>3 DEF WorkInv, AttemptsBounded, SnapshotDistinct
  <1>12. CASE ReplayFail /\ SkipEntry
    <2>1. PICK e \in entry : entry' = {[e EXCEPT !.attempts = @ + 1]}
      BY <1>12 DEF ReplayFail
    <2>2. /\ wal' = wal /\ todo' = todo /\ pc'[Replayer] = "y_look" /\ pc[Replayer] = "error"
          /\ skipped' = skipped \cup {x.id : x \in entry}
      BY <1>1, <1>12 DEF ReplayFail, SkipEntry, DbFault, Ids, metaVars, Return, Goto, TypeInv,
             TypeOK, RouterTypeOK, ProcTypeOK
    <2>3. e \in WalEntry
      BY DEF TypeInv, TypeOK, WorkTypeOK
    <2>4. PICK n : entry' = {n} /\ n.id = e.id /\ n.attempts = e.attempts + 1
      <3>1. /\ [e EXCEPT !.attempts = @ + 1].id = e.id
            /\ [e EXCEPT !.attempts = @ + 1].attempts = e.attempts + 1
        BY <2>3 DEF WalEntry
      <3> QED  BY <2>1, <3>1
    <2>5. \A x \in todo : x.id # e.id
      BY DEF WorkInv, SnapshotDistinct
    <2>6. SnapshotDistinct'
      BY <2>2, <2>4, <2>5 DEF WorkInv, SnapshotDistinct
    <2>7. ASSUME NEW x \in wal, NEW y \in todo' \cup entry', x.id = y.id
          PROVE  x.attempts = y.attempts \/ (x.attempts < y.attempts /\ x.id \in skipped')
      <3>1. CASE y \in todo
        BY <1>2, <2>2, <2>7, <3>1 DEF WorkInv, ReplaySnapshot
      <3>2. CASE y = n
        <4>1. x.id = e.id /\ x.id \in skipped'
          BY <2>2, <2>4, <2>7, <3>2
        <4>2. x.attempts = e.attempts \/ x.attempts < e.attempts
          BY <1>2, <4>1 DEF WorkInv, ReplaySnapshot
        <4>3. x.attempts \in Nat /\ e.attempts \in Nat
          BY <2>3 DEF TypeInv, TypeOK, MetadataTypeOK, WalEntry
        <4> QED  BY <2>4, <3>2, <4>1, <4>2, <4>3
      <3> QED  BY <2>2, <2>4, <3>1, <3>2
    <2>8. ReplaySnapshot' /\ UploadSnapshot'
      <3>1. \A x \in wal : x.attempts < MAX_ATTEMPTS =>
               x.id \in skipped' \/ \E y \in todo' \cup entry' : y.id = x.id
        BY <1>2, <2>2 DEF WorkInv, ReplaySnapshot
      <3> QED  BY <2>2, <2>7, <3>1 DEF ReplaySnapshot, UploadSnapshot, Serving
    <2>9. WorkerPlace'
      BY <1>3, <2>2 DEF WorkerPlace, Serving
    <2> QED  BY <2>2, <2>6, <2>8, <2>9 DEF WorkInv, AttemptsBounded
  <1> QED  BY <1>4, <1>5, <1>6, <1>7, <1>8, <1>9, <1>10, <1>11, <1>12 DEF Replay, ReplayStep

\* A crash drops the snapshot and keeps the table.
LEMMA CrashKeepsWork ==
    ASSUME WorkInv, Crash
    PROVE  WorkInv'
  <1>1. todo' = {} /\ entry' = {} /\ wal' = wal
    BY DEF Crash
  <1>2. pc' = Restarted /\ pc'[Replayer] = "y_load"
    BY DEF Crash, Restarted, Procs
  <1>3. WorkerPlace'
    BY <1>1, <1>2 DEF WorkerPlace, Serving, Restarted
  <1> QED  BY <1>1, <1>2, <1>3 DEF WorkInv, AttemptsBounded, SnapshotDistinct, UploadSnapshot,
              ReplaySnapshot, Serving

\* The worker invariant is inductive, given types and integrity.
LEMMA WorkStep == TypeInv /\ WalIntegrity /\ WorkInv /\ [Next]_vars => WorkInv'
  <1> SUFFICES ASSUME TypeInv, WalIntegrity, WorkInv, [Next]_vars PROVE WorkInv'
    OBVIOUS
  <1>1. WorkerPlace
    BY DEF WorkInv
  <1>2. CASE \E c \in Clients : Request(c) \/ Handle(c) \/ Drop(c)
    BY <1>1, <1>2, ClientStepsElsewhere, ElsewhereKeepsWork
  <1>3. CASE Evict \/ Promote
    BY <1>1, <1>3, TaskStepsElsewhere, ElsewhereKeepsWork
  <1>4. CASE Upload \/ Replay \/ Crash
    BY <1>4, UploadKeepsWork, ReplayKeepsWork, CrashKeepsWork
  <1>5. CASE UNCHANGED vars
    BY <1>5 DEF vars, metaVars, workVars, lapseVars, routerVars, localVars, WorkInv,
           AttemptsBounded,
           SnapshotDistinct, UploadSnapshot, ReplaySnapshot, WorkerPlace, Serving
  <1> QED  BY <1>2, <1>3, <1>4, <1>5 DEF Next

\* The uploader and startup replay together never try a WAL entry more than
\* MAX_ATTEMPTS times, in one life of the daemon or over many.
THEOREM AttemptsStayBounded == Spec => []AttemptsBounded
  <1>1. WorkInv => AttemptsBounded
    BY DEF WorkInv
  <1> QED  BY <1>1, TypeInit, TypeStep, Integrity, WorkInvInit, WorkStep, PTL DEF Spec

\* When startup replay hands over to the servers, no WAL entry is left that
\* still has an attempt, but for those it skipped over a failed database call.
THEOREM ReplayLeavesNone == Spec => ReplayDrains
  <1>1. TypeInv /\ WorkInv /\ [Next]_vars
        => [~Serving /\ Serving' =>
               \A e \in wal' : e.attempts >= MAX_ATTEMPTS \/ e.id \in skipped]_vars
    <2> SUFFICES ASSUME TypeInv, WorkInv, [Next]_vars, ~Serving, Serving', NEW e \in wal',
                        e.id \notin skipped
                 PROVE  e.attempts >= MAX_ATTEMPTS
      OBVIOUS
    <2>1. Replayer \in Procs /\ Uploader \in Procs
      BY DEF Procs
    <2>2. ReplayEnd
      <3>1. ~UNCHANGED vars /\ ~Crash
        BY <2>1 DEF vars, routerVars, localVars, Crash, Restarted, Serving
      <3>2. ~Evict /\ ~Promote /\ ~Upload
        BY TaskStepsElsewhere, UploadWhileServing DEF WorkInv, Elsewhere
      <3>3. \A c \in Clients : ~(Request(c) \/ Handle(c) \/ Drop(c))
        BY ClientStepsElsewhere DEF WorkInv, Elsewhere
      <3>4. Replay
        BY <3>1, <3>2, <3>3 DEF Next
      <3> QED  BY <2>1, <3>4 DEF Replay, ReplayStep, ReplayLoad, ReplayNext, ReplayGiveUp,
                  ReplaySkip, ReplayLook, ReplayerRead, ReplayNasCreate, ReplayNasFill, ReplayPut,
                  ReplayBits, ReplayComplete, ReplayFail, ReadMeta, ReadLocal, ReadCold,
                  S3Put, Goto, Return, Serving, TypeInv, TypeOK, RouterTypeOK, ProcTypeOK
    <2>3. pc[Uploader] = "idle"
      BY <2>1 DEF WorkInv, WorkerPlace, Uploader, Replayer
    <2>4. wal' = wal /\ todo = {} /\ entry = {} /\ pc[Replayer] = "y_next"
      BY <2>2, <2>3 DEF ReplayEnd, metaVars, WorkInv, WorkerPlace
    <2>5. e.attempts \in Nat /\ MAX_ATTEMPTS \in Nat
      BY <2>4, AttemptsAssumption DEF TypeInv, TypeOK, MetadataTypeOK, WalEntry
    <2> QED  BY <2>4, <2>5 DEF WorkInv, ReplaySnapshot
  <1> QED  BY <1>1, TypeInit, TypeStep, Integrity, WorkInvInit, WorkStep, PTL DEF Spec, ReplayDrains
=============================================================================
