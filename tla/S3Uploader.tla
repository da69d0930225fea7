----------------------------- MODULE S3Uploader -----------------------------
(***************************************************************************)
(* The S3 uploader (fvfsd/src/s3_uploader.rs): on a tick or a manual flush *)
(* it loads the pending uploads and works through that snapshot, reading   *)
(* each file through the router, putting it to S3, writing the bitmask     *)
(* back with the S3 bit added and deleting the WAL entry.  Of the database *)
(* calls only the one that sets the bitmask has its error looked at.       *)
(***************************************************************************)
EXTENDS TierRouter

CONSTANT MAX_ATTEMPTS
ASSUME AttemptsAssumption == MAX_ATTEMPTS \in Nat \ {0}

VARIABLES
    todo,   \* WAL entries still to do, as loaded (uploader, or startup replay)
    entry,  \* the ones in hand: none, or one
    lapsed, \* history: files of which a database error has left an upload queued
            \*   that was done, or that replay should have finished
    skipped \* history: ids of entries that a database error kept from replay

lapseVars == <<lapsed, skipped>>
workVars  == <<todo, entry, lapseVars>>

WorkTypeOK ==
    /\ todo \subseteq WalEntry /\ entry \subseteq WalEntry
    /\ lapsed \subseteq Files /\ skipped \subseteq Nat

WorkInit == todo = {} /\ entry = {} /\ lapsed = {} /\ skipped = {}

\* The oldest entry of a snapshot: ids grow with the enqueue time.
Oldest(S) == {e \in S : \A x \in S : e.id <= x.id}

Retriable_once(e)     == e.op = UploadS3 /\ e.attempts < 1
Retriable_one_more(e) == e.op = UploadS3 /\ e.attempts <= MAX_ATTEMPTS

\* The uploader leaves entries alone that have failed MAX_ATTEMPTS times.
Retriable(e) == e.op = UploadS3 /\ e.attempts < MAX_ATTEMPTS

\* wal_pending, filtered; with nothing to do, or when it fails, the flush is
\* over.
UploadLoad ==
    /\ Serving /\ pc[Uploader] = "idle"
    /\ todo' = {e \in wal : Retriable(e)}
    /\ todo' # {}
    /\ Goto(Uploader, "u_next")
    /\ UNCHANGED <<metaVars, storeVars, entry, lapseVars, path, buf, rbm, fbm, fid, promotions,
                   boundVars>>

\* The next entry of the snapshot and get_by_id of its file.
UploadNext ==
    /\ pc[Uploader] = "u_next"
    /\ \E e \in Oldest(todo) :
         /\ entry' = {e}
         /\ todo' = todo \ {e}
         /\ IF PathsOf(e.fid) = {}
              THEN Goto(Uploader, "u_drop") /\ UNCHANGED <<path, fbm, fid>>
              ELSE \E p \in PathsOf(e.fid) :
                     /\ path' = [path EXCEPT ![Uploader] = p]
                     /\ fbm' = [fbm EXCEPT ![Uploader] = bitmask[p]]
                     /\ fid' = [fid EXCEPT ![Uploader] = e.fid]
                     /\ Goto(Uploader, "r_meta")
    /\ UNCHANGED <<metaVars, storeVars, lapseVars, buf, rbm, promotions, boundVars>>

\* get_by_id fails, and the entry is left to a later flush.
UploadSkip ==
    /\ pc[Uploader] = "u_next"
    /\ \E e \in Oldest(todo) : todo' = todo \ {e}
    /\ DbFault
    /\ UNCHANGED <<storeVars, entry, lapseVars, localVars, promotions, acked, writes, deletes>>

UploadEnd ==
    /\ pc[Uploader] = "u_next"
    /\ todo = {}
    /\ Goto(Uploader, "idle")
    /\ UNCHANGED <<metaVars, storeVars, workVars, path, buf, rbm, fbm, fid, promotions, boundVars>>

\* s3.put of what the read returned.
UploadPut ==
    /\ pc[Uploader] = "data"
    /\ S3Put(Uploader, "u_bits")
    /\ UNCHANGED <<metaVars, workVars, path, buf, rbm, fbm, fid, promotions, acked, writes, deletes>>

\* The bitmask loaded with the file, with the S3 bit added.
UploadBits ==
    /\ pc[Uploader] = "u_bits"
    /\ \/ /\ SetTierBitmask(fid[Uploader], fbm[Uploader] \cup {S3})
          /\ Goto(Uploader, "u_done")
          /\ UNCHANGED faults
       \/ Goto(Uploader, "error") /\ DbFault
    /\ UNCHANGED <<storeVars, workVars, path, buf, rbm, fbm, fid, promotions, acked, writes, deletes>>

\* wal_complete, of an entry done or of one whose file is gone.  When it fails
\* the entry stays, and a later flush uploads the file again.
UploadComplete ==
    /\ pc[Uploader] \in {"u_done", "u_drop"}
    /\ \/ /\ \E e \in entry : WalComplete(e.id)
          /\ UNCHANGED <<lapsed, faults>>
       \/ /\ DbFault
          /\ lapsed' = lapsed \cup ({path[Uploader]} \ {Root})
    /\ entry' = {}
    /\ Return(Uploader, "u_next")
    /\ UNCHANGED <<storeVars, todo, skipped, promotions, acked, writes, deletes>>

UploadFail_forgets ==
    /\ pc[Uploader] = "error"
    /\ \E e \in entry : WalComplete(e.id)
    /\ entry' = {}
    /\ Return(Uploader, "u_next")
    /\ UNCHANGED <<storeVars, todo, lapseVars, promotions, boundVars>>

\* wal_record_failure after a failed read, put or update of the bitmask; it
\* may fail too.
UploadFail ==
    /\ pc[Uploader] = "error"
    /\ \/ (\E e \in entry : WalRecordFailure(e.id)) /\ UNCHANGED faults
       \/ DbFault
    /\ entry' = {}
    /\ Return(Uploader, "u_next")
    /\ UNCHANGED <<storeVars, todo, lapseVars, promotions, acked, writes, deletes>>

UploaderRead ==
    /\ ReadMeta(Uploader) \/ ReadLocal(Uploader) \/ ReadCold(Uploader)
    /\ UNCHANGED workVars

UploaderStep ==
    \/ UploadLoad \/ UploadNext \/ UploadSkip \/ UploadEnd \/ UploaderRead
    \/ UploadPut \/ UploadBits \/ UploadComplete \/ UploadFail
=============================================================================
