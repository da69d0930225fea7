---------------------------- MODULE EvictionTask ----------------------------
(***************************************************************************)
(* The eviction task (fvfsd/src/eviction_task.rs) with                     *)
(* TierRouter::evict_from_tier.  A cycle over a tier that is above its     *)
(* high watermark loads the files on the tier and evicts them, coldest     *)
(* first, until usage is down to the low watermark; local and NAS cycles   *)
(* alternate.  Sizes and scores are left out: whether a cycle starts, in   *)
(* which order it takes the files and when it has freed enough is free.    *)
(***************************************************************************)
EXTENDS TierRouter

VARIABLES
    victims,    \* the files the cycle has yet to consider
    etier       \* the tier of the current, or of the next, cycle

evictVars == <<victims, etier>>

EvictTypeOK == victims \subseteq Files /\ etier \in {Local, Nas}
EvictInit   == victims = {} /\ etier = Local

\* files_on_tier, and the safe_to_evict_from filter of the loop over it.  A
\* database error here or in EvictLookup ends the cycle or passes a file over,
\* as EvictEnd may do at any time.
EvictScan ==
    /\ Serving /\ pc[Evictor] = "idle"
    /\ victims' = {f \in Files : /\ HasRow(f) /\ etier \in bitmask[f]
                                 /\ SafeToEvictFrom(bitmask[f], etier)}
    /\ Goto(Evictor, "e_next")
    /\ UNCHANGED <<metaVars, storeVars, etier, path, buf, rbm, fbm, fid, promotions, boundVars>>

NextTier_all(t) == CASE t = Local -> Nas [] t = Nas -> S3 [] t = S3 -> Local

\* Local and NAS cycles alternate; there is none for S3.
NextTier(t) == IF t = Local THEN Nas ELSE Local

\* Enough is freed, or the list is at its end.
EvictEnd ==
    /\ pc[Evictor] = "e_next"
    /\ victims' = {}
    /\ etier' = NextTier(etier)
    /\ Goto(Evictor, "idle")
    /\ UNCHANGED <<metaVars, storeVars, path, buf, rbm, fbm, fid, promotions, boundVars>>

\* evict_from_tier looks the file up again and checks again.
EvictLookup ==
    /\ pc[Evictor] = "e_next"
    /\ \E f \in victims :
         /\ victims' = victims \ {f}
         /\ IF HasRow(f) /\ SafeToEvictFrom(bitmask[f], etier)
              THEN /\ path' = [path EXCEPT ![Evictor] = f]
                   /\ fbm' = [fbm EXCEPT ![Evictor] = bitmask[f]]
                   /\ fid' = [fid EXCEPT ![Evictor] = rowid[f]]
                   /\ Goto(Evictor, "e_delete")
              ELSE UNCHANGED <<pc, path, fbm, fid>>
    /\ UNCHANGED <<metaVars, storeVars, etier, buf, rbm, promotions, boundVars>>

\* backend.delete; its failure, of a missing copy too, ends the eviction of
\* this file.
EvictDelete ==
    /\ pc[Evictor] = "e_delete"
    /\ LET f == path[Evictor]
       IN  \/ /\ Holds(etier, f)
              /\ StoreDelete(etier, f)
              /\ Goto(Evictor, "e_bits")
              /\ UNCHANGED <<path, buf, rbm, fbm, fid, faults>>
           \/ /\ IF Holds(etier, f) THEN Fault ELSE UNCHANGED faults
              /\ Return(Evictor, "e_next")
              /\ UNCHANGED storeVars
    /\ UNCHANGED <<metaVars, evictVars, promotions, acked, writes, deletes>>

\* The bitmask loaded before the delete, without the tier; when it fails the
\* row keeps the bit of a copy that is gone.
EvictBits ==
    /\ pc[Evictor] = "e_bits"
    /\ \/ SetTierBitmask(fid[Evictor], fbm[Evictor] \ {etier}) /\ UNCHANGED faults
       \/ DbFault
    /\ Return(Evictor, "e_next")
    /\ UNCHANGED <<storeVars, evictVars, promotions, acked, writes, deletes>>

EvictStep == EvictScan \/ EvictEnd \/ EvictLookup \/ EvictDelete \/ EvictBits
=============================================================================
