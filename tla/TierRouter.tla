----------------------------- MODULE TierRouter -----------------------------
(***************************************************************************)
(* TierRouter (fvfsd/src/router.rs) and the request handlers that call it. *)
(* A process runs one operation at a time; between two awaits it is at a   *)
(* label pc.  Every read ends at "data" with its bytes in buf or at        *)
(* "error", where its caller (a request, or one of the background tasks,   *)
(* in modules of their own) takes over.                                    *)
(*                                                                         *)
(* A step that can fail, for an I/O error, a database error, a timeout or  *)
(* a client that goes away, may fail while the fault budget lasts.         *)
(***************************************************************************)
EXTENDS MetadataStore, StorageBackend

CONSTANTS
    MaxWrites,      \* bound: writes begun per file
    MaxDeletes,     \* bound: deletes begun
    MaxFaults,      \* bound: failed steps
    DbFaultCost,    \* bound: how many of them a failed call of the database counts for
    MaxQueue        \* bound: promotions queued when a request starts reading

ASSUME BoundAssumption ==
    {MaxWrites, MaxDeletes, MaxFaults, DbFaultCost, MaxQueue} \subseteq Nat

VARIABLES
    pc,             \* where each process is
    path,           \* the path it works on, Root for none
    buf,            \* the bytes it holds
    rbm,            \* the bitmask a read in progress looked up
    fbm,            \* the bitmask it read earlier and may write back
    fid,            \* the file id it read earlier
    promotions,     \* the unbounded promotion channel
    acked,          \* history: files whose last write was acknowledged
    writes,         \* history: writes begun, per file
    deletes,        \* history: deletes begun
    faults          \* history: failed steps

localVars  == <<pc, path, buf, rbm, fbm, fid>>
boundVars  == <<acked, writes, deletes, faults>>
routerVars == <<localVars, promotions, boundVars>>

ClientLabels == {"w_fill", "w_upsert", "w_parents", "w_root", "w_nas", "w_s3", "d_tiers"}
ReadLabels   == {"r_meta", "r_local", "r_cold", "data", "error"}
UploadLabels == {"u_next", "u_drop", "u_bits", "u_done"}
ReplayLabels == {"y_load", "y_next", "y_look", "y_nas", "y_fill", "y_bits", "y_done", "off"}
EvictLabels  == {"e_next", "e_delete", "e_bits"}
PromoLabels  == {"p_fill", "p_meta", "p_bits"}
Labels == {"idle"} \cup ClientLabels \cup ReadLabels \cup UploadLabels
            \cup ReplayLabels \cup EvictLabels \cup PromoLabels

ProcTypeOK ==
    /\ pc \in [Procs -> Labels]
    /\ path \in [Procs -> Paths]
    /\ buf \in [Procs -> Content]
    /\ rbm \in [Procs -> SUBSET Tier]
    /\ fbm \in [Procs -> SUBSET Tier]
    /\ fid \in [Procs -> Nat]

BoundTypeOK ==
    /\ promotions \in Seq(Files)
    /\ acked \subseteq Files
    /\ writes \in [Files -> Nat]
    /\ deletes \in Nat
    /\ faults \in Nat

RouterTypeOK == ProcTypeOK /\ BoundTypeOK

\* The daemon starts by replaying the WAL; nothing else runs until then.
Restarted == [p \in Procs |-> IF p = Replayer THEN "y_load" ELSE "idle"]

ProcInit ==
    /\ pc = Restarted
    /\ path = [p \in Procs |-> Root]
    /\ buf = [p \in Procs |-> Absent]
    /\ rbm = [p \in Procs |-> {}]
    /\ fbm = [p \in Procs |-> {}]
    /\ fid = [p \in Procs |-> 0]
    /\ promotions = <<>>

RouterInit ==
    /\ ProcInit
    /\ acked = {}
    /\ writes = [f \in Files |-> 0]
    /\ deletes = 0
    /\ faults = 0

Serving == pc[Replayer] = "off"

Goto(p, label) == pc' = [pc EXCEPT ![p] = label]

\* Leave an operation for label and drop its local variables.
Return(p, label) ==
    /\ Goto(p, label)
    /\ path' = [path EXCEPT ![p] = Root]
    /\ buf' = [buf EXCEPT ![p] = Absent]
    /\ rbm' = [rbm EXCEPT ![p] = {}]
    /\ fbm' = [fbm EXCEPT ![p] = {}]
    /\ fid' = [fid EXCEPT ![p] = 0]

Fault == faults < MaxFaults /\ faults' = faults + 1

\* A database call fails: its statement has no effect.
DbFault ==
    /\ faults + DbFaultCost <= MaxFaults
    /\ faults' = faults + DbFaultCost
    /\ UNCHANGED metaVars

-----------------------------------------------------------------------------
(* write *)

\* PUT: the local put opens and truncates the file.
BeginWrite(c, f, d) ==
    /\ Serving /\ pc[c] = "idle"
    /\ writes[f] < MaxWrites
    /\ LocalCreate(c, f)
    /\ Goto(c, "w_fill")
    /\ path' = [path EXCEPT ![c] = f]
    /\ buf' = [buf EXCEPT ![c] = d]
    /\ writes' = [writes EXCEPT ![f] = @ + 1]
    /\ acked' = acked \ {f}
    /\ UNCHANGED <<metaVars, rbm, fbm, fid, promotions, deletes, faults>>

\* The local put writes the bytes and returns.
WriteFill(c) ==
    /\ pc[c] = "w_fill"
    /\ LocalFill(c, path[c], buf[c])
    /\ Goto(c, "w_upsert")
    /\ UNCHANGED <<metaVars, path, buf, rbm, fbm, fid, promotions, boundVars>>

\* The row, on the local tier only; file_id is what upsert returned.
WriteUpsert(c) ==
    /\ pc[c] = "w_upsert"
    /\ Upsert(path[c], {Local}, buf[c])
    /\ fid' = [fid EXCEPT ![c] = lastRowid']
    /\ Goto(c, "w_parents")
    /\ UNCHANGED <<storeVars, path, buf, rbm, fbm, promotions, boundVars>>

\* ensure_parent_dirs looks the parent up ...
WriteParents(c) ==
    /\ pc[c] = "w_parents"
    /\ Goto(c, IF HasRow(Root) THEN "w_nas" ELSE "w_root")
    /\ UNCHANGED <<metaVars, storeVars, path, buf, rbm, fbm, fid, promotions, boundVars>>

\* ... and inserts it when it was missing.
WriteRoot(c) ==
    /\ pc[c] = "w_root"
    /\ Upsert(Root, ALL, Absent)
    /\ Goto(c, "w_nas")
    /\ UNCHANGED <<storeVars, path, buf, rbm, fbm, fid, promotions, boundVars>>

\* wal_enqueue(file_id, ReplicateNas); a foreign-key error fails the write.
WriteEnqueueNas(c) ==
    /\ pc[c] = "w_nas"
    /\ IF ForeignKeyOk(fid[c])
         THEN /\ WalEnqueue(fid[c], ReplicateNas)
              /\ Goto(c, "w_s3")
              /\ UNCHANGED <<path, buf, rbm, fbm, fid>>
         ELSE Return(c, "idle") /\ UNCHANGED metaVars
    /\ UNCHANGED <<storeVars, promotions, boundVars>>

\* wal_enqueue(file_id, UploadS3); then the write is acknowledged.
WriteEnqueueS3(c) ==
    /\ pc[c] = "w_s3"
    /\ Return(c, "idle")
    /\ IF ForeignKeyOk(fid[c])
         THEN WalEnqueue(fid[c], UploadS3) /\ acked' = acked \cup {path[c]}
         ELSE UNCHANGED <<metaVars, acked>>
    /\ UNCHANGED <<storeVars, promotions, writes, deletes, faults>>

\* A write ends early: a failing put, a database error, or a request dropped
\* because its connection closed.  What it already did stays.  A delete can
\* only end early once its spawned tier deletes are done.
Abort(c) ==
    /\ pc[c] \in ClientLabels
    /\ pc[c] = "d_tiers" => fbm[c] = {}
    /\ Fault
    /\ LocalClose(c, path[c])
    /\ Return(c, "idle")
    /\ UNCHANGED <<metaVars, promotions, acked, writes, deletes>>

-----------------------------------------------------------------------------
(* read *)

BeginRead(c, f) ==
    /\ Serving /\ pc[c] = "idle"
    /\ Len(promotions) < MaxQueue
    /\ Goto(c, "r_meta")
    /\ path' = [path EXCEPT ![c] = f]
    /\ UNCHANGED <<metaVars, storeVars, buf, rbm, fbm, fid, promotions, boundVars>>

\* The tier after the local one that a read with this bitmask asks.
ColdTier(bm) == IF Nas \in bm THEN Nas ELSE S3

\* require_metadata, the directory check and the choice of the first tier.
ReadMeta(p) ==
    /\ pc[p] = "r_meta"
    /\ LET f  == path[p]
           bm == bitmask[f]
       IN  \/ /\ Goto(p, IF ~HasRow(f) \/ f = Root \/ bm = {} THEN "error"
                         ELSE IF Local \in bm THEN "r_local"
                         ELSE "r_cold")
              /\ rbm' = [rbm EXCEPT ![p] = bm]
              /\ UNCHANGED <<metaVars, faults>>
           \/ Goto(p, "error") /\ DbFault /\ UNCHANGED rbm
    /\ UNCHANGED <<storeVars, path, buf, fbm, fid, promotions, acked, writes, deletes>>

\* local.get; when it fails the read falls back to a colder tier.
ReadLocal(p) ==
    /\ pc[p] = "r_local"
    /\ \/ /\ Holds(Local, path[p])
          /\ buf' = [buf EXCEPT ![p] = store[Local][path[p]]]
          /\ Goto(p, "data")
          /\ UNCHANGED faults
       \/ /\ IF Holds(Local, path[p]) THEN Fault ELSE UNCHANGED faults
          /\ Goto(p, IF rbm[p] = {Local} THEN "error" ELSE "r_cold")
          /\ UNCHANGED buf
    /\ UNCHANGED <<metaVars, storeVars, path, rbm, fbm, fid, promotions, acked, writes, deletes>>

\* nas.get or s3.get, whichever the bitmask names first; its failure is the
\* read's, and its success queues a promotion.
ReadCold(p) ==
    /\ pc[p] = "r_cold"
    /\ LET f == path[p]
           t == ColdTier(rbm[p])
       IN  \/ /\ Holds(t, f)
              /\ buf' = [buf EXCEPT ![p] = store[t][f]]
              /\ promotions' = Append(promotions, f)
              /\ Goto(p, "data")
              /\ UNCHANGED faults
           \/ /\ IF Holds(t, f) THEN Fault ELSE UNCHANGED faults
              /\ Goto(p, "error")
              /\ UNCHANGED <<buf, promotions>>
    /\ UNCHANGED <<metaVars, storeVars, path, rbm, fbm, fid, acked, writes, deletes>>

\* The response to a GET.
Reply(c) ==
    /\ pc[c] \in {"data", "error"}
    /\ Return(c, "idle")
    /\ UNCHANGED <<metaVars, storeVars, promotions, boundVars>>

-----------------------------------------------------------------------------
(* S3 uploads, called by the uploader and by replay *)

S3Put_ignores_error(p, next) ==
    LET Put == StorePut(S3, path[p], buf[p])
    IN  /\ Goto(p, next)
        /\ \/ Put /\ UNCHANGED faults
           \/ (Put \/ UNCHANGED storeVars) /\ Fault

\* s3.put of the bytes in hand; a put that fails may have been stored.
S3Put(p, next) ==
    LET Put == StorePut(S3, path[p], buf[p])
    IN  \/ Put /\ Goto(p, next) /\ UNCHANGED faults
        \/ (Put \/ UNCHANGED storeVars) /\ Goto(p, "error") /\ Fault

-----------------------------------------------------------------------------
(* delete *)

\* DELETE: require_metadata; one task per tier in the bitmask.
BeginDelete(c, f) ==
    /\ Serving /\ pc[c] = "idle"
    /\ HasRow(f)
    /\ deletes < MaxDeletes
    /\ Goto(c, "d_tiers")
    /\ path' = [path EXCEPT ![c] = f]
    /\ fbm' = [fbm EXCEPT ![c] = bitmask[f]]
    /\ deletes' = deletes + 1
    /\ acked' = acked \ {f}
    /\ UNCHANGED <<metaVars, storeVars, buf, rbm, fid, promotions, writes, faults>>

\* One of those tasks; its failure is ignored.
DeleteFromTier(c) ==
    /\ pc[c] = "d_tiers"
    /\ \E t \in fbm[c] :
         /\ fbm' = [fbm EXCEPT ![c] = @ \ {t}]
         /\ \/ StoreDelete(t, path[c]) /\ UNCHANGED faults
            \/ Fault /\ UNCHANGED storeVars
    /\ UNCHANGED <<metaVars, pc, path, buf, rbm, fid, promotions, acked, writes, deletes>>

\* The row goes last.
DeleteMeta(c) ==
    /\ pc[c] = "d_tiers"
    /\ fbm[c] = {}
    /\ DeleteRow(path[c])
    /\ Return(c, "idle")
    /\ UNCHANGED <<storeVars, promotions, boundVars>>

ClientStep(c) ==
    \/ WriteFill(c) \/ WriteUpsert(c) \/ WriteParents(c) \/ WriteRoot(c)
    \/ WriteEnqueueNas(c) \/ WriteEnqueueS3(c)
    \/ ReadMeta(c) \/ ReadLocal(c) \/ ReadCold(c) \/ Reply(c)
    \/ DeleteFromTier(c) \/ DeleteMeta(c)
=============================================================================
