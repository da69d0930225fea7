------------------------------ MODULE Promotion ------------------------------
(***************************************************************************)
(* The promotion task (fvfsd/src/main.rs): for every signal it reads the   *)
(* file through the router, puts it to the local tier and sets the local   *)
(* bit in the bitmask it then loads.                                       *)
(***************************************************************************)
EXTENDS TierRouter

PromoteRecv ==
    /\ Serving /\ pc[Promoter] = "idle"
    /\ promotions # <<>>
    /\ promotions' = Tail(promotions)
    /\ path' = [path EXCEPT ![Promoter] = Head(promotions)]
    /\ Goto(Promoter, "r_meta")
    /\ UNCHANGED <<metaVars, storeVars, buf, rbm, fbm, fid, boundVars>>

PromoteRead == ReadMeta(Promoter) \/ ReadLocal(Promoter) \/ ReadCold(Promoter)

\* A read that failed ends the promotion.
PromoteSkip ==
    /\ pc[Promoter] = "error"
    /\ Return(Promoter, "idle")
    /\ UNCHANGED <<metaVars, storeVars, promotions, boundVars>>

\* local.put opens and truncates the file.
PromoteCreate ==
    /\ pc[Promoter] = "data"
    /\ LocalCreate(Promoter, path[Promoter])
    /\ Goto(Promoter, "p_fill")
    /\ UNCHANGED <<metaVars, path, buf, rbm, fbm, fid, promotions, boundVars>>

\* local.put writes the bytes, or fails half-way and the promotion ends.
PromoteFill ==
    /\ pc[Promoter] = "p_fill"
    /\ LET f == path[Promoter]
       IN  \/ /\ LocalFill(Promoter, f, buf[Promoter])
              /\ Goto(Promoter, "p_meta")
              /\ UNCHANGED <<path, buf, rbm, fbm, fid, faults>>
           \/ /\ LocalClose(Promoter, f)
              /\ Return(Promoter, "idle")
              /\ Fault
    /\ UNCHANGED <<metaVars, promotions, acked, writes, deletes>>

\* meta.get; without a row the copy stays without its bit.
PromoteMeta ==
    /\ pc[Promoter] = "p_meta"
    /\ LET f == path[Promoter]
       IN  IF HasRow(f)
             THEN /\ fbm' = [fbm EXCEPT ![Promoter] = bitmask[f]]
                  /\ fid' = [fid EXCEPT ![Promoter] = rowid[f]]
                  /\ Goto(Promoter, "p_bits")
                  /\ UNCHANGED <<path, buf, rbm>>
             ELSE Return(Promoter, "idle")
    /\ UNCHANGED <<metaVars, storeVars, promotions, boundVars>>

PromoteBits ==
    /\ pc[Promoter] = "p_bits"
    /\ SetTierBitmask(fid[Promoter], fbm[Promoter] \cup {Local})
    /\ Return(Promoter, "idle")
    /\ UNCHANGED <<storeVars, promotions, boundVars>>

\* One of the two calls fails, which nobody hears of.
PromoteLost ==
    /\ pc[Promoter] \in {"p_meta", "p_bits"}
    /\ DbFault
    /\ Return(Promoter, "idle")
    /\ UNCHANGED <<storeVars, promotions, acked, writes, deletes>>

PromoteStep ==
    \/ PromoteRecv \/ PromoteRead \/ PromoteSkip
    \/ PromoteCreate \/ PromoteFill \/ PromoteMeta \/ PromoteBits \/ PromoteLost
=============================================================================
