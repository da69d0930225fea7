------------------------------ MODULE WalReplay ------------------------------
(***************************************************************************)
(* Startup replay (fvfsd/src/wal_replay.rs).  It loads every WAL entry and *)
(* retries each until it succeeds or MAX_ATTEMPTS is reached, before any   *)
(* task is spawned and any request served.  The sleep between two attempts *)
(* has no effect on the state.  A database error is logged and replay goes *)
(* on without the entry; skipped is the entries this has happened to.      *)
(***************************************************************************)
EXTENDS S3Uploader

\* The ids of some entries.
Ids(S) == {e.id : e \in S}

\* wal_pending; when it fails replay is over.
ReplayLoad ==
    /\ pc[Replayer] = "y_load"
    /\ \/ todo' = wal /\ UNCHANGED <<metaVars, skipped, faults>>
       \/ skipped' = Ids(wal) /\ DbFault /\ UNCHANGED todo
    /\ Goto(Replayer, "y_next")
    /\ UNCHANGED <<storeVars, entry, lapsed, path, buf, rbm, fbm, fid, promotions, acked, writes,
                   deletes>>

ReplayNext_repeats ==
    /\ pc[Replayer] = "y_next"
    /\ \E e \in Oldest(todo) : entry' = {e}
    /\ Goto(Replayer, "y_look")
    /\ UNCHANGED <<metaVars, storeVars, todo, lapseVars, path, buf, rbm, fbm, fid, promotions,
                   boundVars>>

ReplayNext ==
    /\ pc[Replayer] = "y_next"
    /\ \E e \in Oldest(todo) :
         /\ entry' = {e}
         /\ todo' = todo \ {e}
    /\ Goto(Replayer, "y_look")
    /\ UNCHANGED <<metaVars, storeVars, lapseVars, path, buf, rbm, fbm, fid, promotions, boundVars>>

\* The files whose upload the uploader will find still queued.
UploadsLeft == {f \in Files : \E e \in wal : Retriable(e) /\ e.fid = rowid[f]}

\* The daemon starts serving.
ReplayEnd ==
    /\ pc[Replayer] = "y_next"
    /\ todo = {}
    /\ Goto(Replayer, "off")
    /\ lapsed' = lapsed \cup UploadsLeft
    /\ skipped' = {}
    /\ UNCHANGED <<metaVars, storeVars, todo, entry, path, buf, rbm, fbm, fid, promotions, boundVars>>

\* The head of the retry loop gives an entry up after MAX_ATTEMPTS; it stays
\* in the table.
ReplayGiveUp ==
    /\ pc[Replayer] = "y_look"
    /\ \E e \in entry : e.attempts >= MAX_ATTEMPTS
    /\ entry' = {}
    /\ Goto(Replayer, "y_next")
    /\ UNCHANGED <<metaVars, storeVars, todo, lapseVars, path, buf, rbm, fbm, fid, promotions,
                   boundVars>>

\* Leave the entry in hand to a later start, or to the uploader.
SkipEntry == skipped' = skipped \cup Ids(entry) /\ DbFault

\* get_by_id fails, which ends the retry loop.
ReplaySkip ==
    /\ pc[Replayer] = "y_look"
    /\ \E e \in entry : e.attempts < MAX_ATTEMPTS
    /\ SkipEntry
    /\ entry' = {}
    /\ Goto(Replayer, "y_next")
    /\ UNCHANGED <<storeVars, todo, lapsed, path, buf, rbm, fbm, fid, promotions, acked, writes,
                   deletes>>

\* get_by_id of the entry's file; without one the entry is dropped.
ReplayLook ==
    /\ pc[Replayer] = "y_look"
    /\ \E e \in entry :
         /\ e.attempts < MAX_ATTEMPTS
         /\ IF PathsOf(e.fid) = {}
              THEN Goto(Replayer, "y_done") /\ UNCHANGED <<path, fbm, fid>>
              ELSE /\ Goto(Replayer, IF e.op = ReplicateNas THEN "y_nas" ELSE "r_meta")
                   /\ \E p \in PathsOf(e.fid) :
                        /\ path' = [path EXCEPT ![Replayer] = p]
                        /\ fbm' = [fbm EXCEPT ![Replayer] = bitmask[p]]
                        /\ fid' = [fid EXCEPT ![Replayer] = e.fid]
    /\ UNCHANGED <<metaVars, storeVars, workVars, buf, rbm, promotions, boundVars>>

\* ReplicateNas: local.get, then nas.put truncates the NAS file.  A path that
\* is the root directory cannot be read.
ReplayNasCreate ==
    /\ pc[Replayer] = "y_nas"
    /\ LET f == path[Replayer]
       IN  \/ /\ f # Root /\ Holds(Local, f)
              /\ buf' = [buf EXCEPT ![Replayer] = store[Local][f]]
              /\ StorePut(Nas, f, Torn)
              /\ Goto(Replayer, "y_fill")
              /\ UNCHANGED faults
           \/ /\ IF f # Root /\ Holds(Local, f) THEN Fault ELSE UNCHANGED faults
              /\ Goto(Replayer, "error")
              /\ UNCHANGED <<storeVars, buf>>
    /\ UNCHANGED <<metaVars, workVars, path, rbm, fbm, fid, promotions, acked, writes, deletes>>

\* nas.put writes the bytes, or fails half-way.
ReplayNasFill ==
    /\ pc[Replayer] = "y_fill"
    /\ \/ /\ StorePut(Nas, path[Replayer], buf[Replayer])
          /\ Goto(Replayer, "y_bits")
          /\ UNCHANGED faults
       \/ /\ Goto(Replayer, "error")
          /\ Fault
          /\ UNCHANGED storeVars
    /\ UNCHANGED <<metaVars, workVars, path, buf, rbm, fbm, fid, promotions, acked, writes, deletes>>

\* UploadS3: s3.put of what the read returned.
ReplayPut ==
    /\ pc[Replayer] = "data"
    /\ S3Put(Replayer, "y_bits")
    /\ UNCHANGED <<metaVars, workVars, path, buf, rbm, fbm, fid, promotions, acked, writes, deletes>>

ReplayBits ==
    /\ pc[Replayer] = "y_bits"
    /\ \/ /\ \E e \in entry :
               SetTierBitmask(fid[Replayer], fbm[Replayer] \cup {TargetTier(e.op)})
          /\ Goto(Replayer, "y_done")
          /\ UNCHANGED faults
       \/ Goto(Replayer, "error") /\ DbFault
    /\ UNCHANGED <<storeVars, workVars, path, buf, rbm, fbm, fid, promotions, acked, writes, deletes>>

\* wal_complete; when it fails the entry stays.
ReplayComplete ==
    /\ pc[Replayer] = "y_done"
    /\ \/ (\E e \in entry : WalComplete(e.id)) /\ UNCHANGED <<skipped, faults>>
       \/ SkipEntry
    /\ entry' = {}
    /\ Return(Replayer, "y_next")
    /\ UNCHANGED <<storeVars, todo, lapsed, promotions, acked, writes, deletes>>

ReplayFail_no_retry ==
    /\ pc[Replayer] = "error"
    /\ \E e \in entry : WalRecordFailure(e.id)
    /\ entry' = {}
    /\ Return(Replayer, "y_next")
    /\ UNCHANGED <<storeVars, todo, lapseVars, promotions, boundVars>>

\* wal_record_failure, then the loop again with attempt + 1.  When it fails the
\* loop counts the attempt and the table does not.
ReplayFail ==
    /\ pc[Replayer] = "error"
    /\ \E e \in entry :
         /\ \/ WalRecordFailure(e.id) /\ UNCHANGED <<skipped, faults>>
            \/ SkipEntry
         /\ entry' = {[e EXCEPT !.attempts = @ + 1]}
    /\ Return(Replayer, "y_look")
    /\ UNCHANGED <<storeVars, todo, lapsed, promotions, acked, writes, deletes>>

ReplayerRead ==
    /\ ReadMeta(Replayer) \/ ReadLocal(Replayer) \/ ReadCold(Replayer)
    /\ UNCHANGED workVars

ReplayStep ==
    \/ ReplayLoad \/ ReplayNext \/ ReplayEnd \/ ReplayGiveUp \/ ReplaySkip
    \/ ReplayLook \/ ReplayerRead \/ ReplayNasCreate \/ ReplayNasFill \/ ReplayPut
    \/ ReplayBits \/ ReplayComplete \/ ReplayFail
=============================================================================
