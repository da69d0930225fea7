---------------------------- MODULE EvictionCycle ----------------------------
(***************************************************************************)
(* How much the eviction task evicts, and in which order                   *)
(* (fvfsd/src/eviction_task.rs, fvfs-core/src/eviction.rs).  EvictionTask  *)
(* leaves sizes, scores and watermarks out to explore what evictions do to *)
(* the copies of a file; here they are the subject.  A cycle over a tier   *)
(* measures its usage, loads and sorts its files, and evicts from that     *)
(* snapshot while requests, uploads, promotions and the clock go on        *)
(* changing the table.                                                     *)
(*                                                                         *)
(* A row has the columns the task reads.  What others do is one step per   *)
(* operation; events counts those, failures and crashes.                   *)
(***************************************************************************)
EXTENDS FvfsTypes, FiniteSetsExt, SequencesExt

CONSTANTS
    Sizes,              \* sizes in bytes of the files written
    Start,              \* tables the daemon may find when it starts
    High, Low,          \* TierWatermarks of each evicted tier
    RecencyWeight,      \* the two weights of the score, scaled to integers
    FrequencyWeight,
    MaxEvents           \* bound: what others do, failures and crashes

ASSUME SizeAssumption == Sizes \subseteq Nat
ASSUME WatermarkAssumption ==
    /\ High \in [{Local, Nas} -> Nat] /\ Low \in [{Local, Nas} -> Nat]
    /\ \A t \in {Local, Nas} : Low[t] <= High[t]
ASSUME WeightAssumption == RecencyWeight \in Nat /\ FrequencyWeight \in Nat
ASSUME EventAssumption == MaxEvents \in Nat

VARIABLES
    row,        \* the table files: the row of each file that has one
    held,       \* held[f]: the tiers that really hold a copy of f
    now,        \* now_unix()
    permit,     \* the permit stored in evict_notify
    epc,        \* where the eviction task is
    etier,      \* the tier of its cycle
    used,       \* usage of the tier when the cycle measured it
    queue,      \* the rest of the sorted snapshot
    seen,       \* the row evict_from_tier looked up
    freed,      \* bytes the cycle counts as freed
    disturbed,  \* history: something else happened since used was measured
    events      \* history: what others did, failures and crashes

tableVars == <<row, held, now>>
taskVars  == <<permit, epc, etier, used, queue, seen, freed>>
vars      == <<tableVars, taskVars, disturbed, events>>

Row == [id : Nat \ {0}, bm : SUBSET Tier, size : Nat, at : Nat, count : Nat]

\* A table has finitely many rows, each with an id of its own.
IsTable(r) ==
    /\ r \in [DOMAIN r -> Row] /\ DOMAIN r \subseteq Files /\ IsFiniteSet(DOMAIN r)
    /\ \A f, g \in DOMAIN r : r[f].id = r[g].id => f = g

ASSUME StartAssumption == \A r \in Start : IsTable(r)

Snapshot == [path : Files, bm : SUBSET Tier, size : Nat, at : Nat, count : Nat]

CycleTypeOK ==
    /\ IsTable(row)
    /\ held \in [Files -> SUBSET Tier]
    /\ now \in Nat /\ permit \in BOOLEAN
    /\ epc \in {"wait", "usage", "load", "loop", "delete", "bits"}
    /\ etier \in {Local, Nas}
    /\ used \in Nat /\ freed \in Nat
    /\ queue \in Seq(Snapshot)
    /\ seen \in [id : Nat, bm : SUBSET Tier]
    /\ disturbed \in BOOLEAN /\ events \in 0..MaxEvents

----------------------------------------------------------------------------
(* The queries of the metadata store *)

FilesOn(t) == {f \in DOMAIN row : t \in row[f].bm}

\* SELECT SUM(size) over the files of a table.
SizeSum(table, fs) == MapThenSumSet(LAMBDA f : table[f].size, fs)

\* bytes_on_tier
BytesOn(t) == SizeSum(row, FilesOn(t))

\* A file as files_on_tier returns it.
SnapshotOf(f) ==
    [path |-> f, bm |-> row[f].bm, size |-> row[f].size,
     at |-> row[f].at, count |-> row[f].count]

FreshId_last_used == Max({0} \cup {row[f].id : f \in DOMAIN row})

\* The id of a new row.
FreshId == 1 + Max({0} \cup {row[f].id : f \in DOMAIN row})

\* set_tier_bitmask: the row that has the id now, if any.
WithBits(id, bm) ==
    [f \in DOMAIN row |-> IF row[f].id = id THEN [row[f] EXCEPT !.bm = bm] ELSE row[f]]

----------------------------------------------------------------------------
(* ArcInspiredPolicy *)

Age(r) == Max({now - r.at, 1})

\* score(a) < score(b), for score = RecencyWeight / Age + FrequencyWeight * count
\* with both sides multiplied by the two ages.
Colder(a, b) ==
    LET scaled(x, y) == (RecencyWeight + FrequencyWeight * x.count * Age(x)) * Age(y)
    IN  scaled(a, b) < scaled(b, a)

\* May a come before b?  The sort is stable and its input ordered by accessed_at.
InOrder_hottest_first(a, b) == Colder(b, a) \/ (~Colder(a, b) /\ a.at <= b.at)
InOrder(a, b) == Colder(a, b) \/ (~Colder(b, a) /\ a.at <= b.at)

\* The sorted snapshots of a tier: several where rows tie.  The loop passes over
\* the files that are not safe to evict; here they are left out of the order.
Sorted(t) ==
    {q \in SetToSeqs({SnapshotOf(f) : f \in {g \in FilesOn(t) : SafeToEvictFrom(row[g].bm, t)}}) :
        \A i, j \in 1..Len(q) : i < j => InOrder(q[i], q[j])}

----------------------------------------------------------------------------
(* What others do *)

Event == events < MaxEvents /\ events' = events + 1 /\ disturbed' = TRUE

\* TierRouter::write
Write(f, s) ==
    /\ Event
    /\ LET id == IF f \in DOMAIN row THEN row[f].id ELSE FreshId
           r  == [id |-> id, bm |-> {Local}, size |-> s, at |-> now, count |-> 0]
       IN  row' = [g \in DOMAIN row \cup {f} |-> IF g = f THEN r ELSE row[g]]
    /\ held' = [held EXCEPT ![f] = @ \cup {Local}]
    /\ UNCHANGED <<now, taskVars>>

\* TierRouter::read finds the bytes: a NAS bit that is not true ends the search.
Readable(f) ==
    /\ f \in DOMAIN row
    /\ LET bm == row[f].bm
       IN  \/ Local \in bm \cap held[f]
           \/ Nas \in bm \cap held[f]
           \/ Nas \notin bm /\ S3 \in bm \cap held[f]

\* A read, or one of the background tasks reading the file, records an access.
Accessed(f) == [row[f] EXCEPT !.at = now, !.count = @ + 1]

Read(f) ==
    /\ Event
    /\ Readable(f)
    /\ row' = [row EXCEPT ![f] = Accessed(f)]
    /\ UNCHANGED <<held, now, taskVars>>

\* The uploader reads the file, puts it to S3 and sets the bit.
Upload(f) ==
    /\ Event
    /\ Readable(f) /\ S3 \notin row[f].bm
    /\ row' = [row EXCEPT ![f] = [Accessed(f) EXCEPT !.bm = @ \cup {S3}]]
    /\ held' = [held EXCEPT ![f] = @ \cup {S3}]
    /\ UNCHANGED <<now, taskVars>>

\* After a read from a colder tier the promotion task reads the file and puts it
\* back to the local tier.
Promote(f) ==
    /\ Event
    /\ Readable(f) /\ Local \notin row[f].bm \cap held[f]
    /\ row' = [row EXCEPT ![f] = [Accessed(f) EXCEPT !.bm = @ \cup {Local}]]
    /\ held' = [held EXCEPT ![f] = @ \cup {Local}]
    /\ UNCHANGED <<now, taskVars>>

\* TierRouter::delete
Delete(f) ==
    /\ Event
    /\ f \in DOMAIN row
    /\ held' = [held EXCEPT ![f] = @ \ row[f].bm]
    /\ row' = [g \in DOMAIN row \ {f} |-> row[g]]
    /\ UNCHANGED <<now, taskVars>>

ClockTicks ==
    /\ Event
    /\ now' = now + 1
    /\ UNCHANGED <<row, held, taskVars>>

\* POST /v1/admin/evict: notify_one stores at most one permit.
AdminEvict ==
    /\ ~permit /\ permit' = TRUE
    /\ UNCHANGED <<tableVars, epc, etier, used, queue, seen, freed, disturbed, events>>

\* The daemon dies and starts again: the table and the copies survive.  Before
\* the task runs again, replay copies files with pending entries to the NAS,
\* from the local tier, and to S3.
Crash ==
    /\ Event
    /\ permit' = FALSE /\ epc' = "wait" /\ etier' = Local
    /\ used' = 0 /\ queue' = <<>> /\ seen' = [id |-> 0, bm |-> {}] /\ freed' = 0
    /\ \E toNas \in SUBSET {f \in DOMAIN row : Local \in held[f]},
          toS3 \in SUBSET {f \in DOMAIN row : Readable(f) /\ S3 \notin row[f].bm} :
         LET New(f) == (IF f \in toNas THEN {Nas} ELSE {}) \cup (IF f \in toS3 THEN {S3} ELSE {})
         IN  /\ row' = [f \in DOMAIN row |->
                          [IF f \in toS3 THEN Accessed(f) ELSE row[f] EXCEPT !.bm = @ \cup New(f)]]
             /\ held' = [f \in Files |-> held[f] \cup New(f)]
    /\ UNCHANGED now

Others ==
    \/ \E f \in Files :
         \/ \E s \in Sizes : Write(f, s)
         \/ Read(f) \/ Upload(f) \/ Promote(f) \/ Delete(f)
    \/ ClockTicks \/ AdminEvict \/ Crash

----------------------------------------------------------------------------
(* The eviction task *)

\* select! of the ticker and the notification.
TickerTick ==
    /\ epc = "wait" /\ epc' = "usage"
    /\ UNCHANGED <<tableVars, permit, etier, used, queue, seen, freed, disturbed, events>>

Notified ==
    /\ epc = "wait" /\ permit
    /\ epc' = "usage" /\ permit' = FALSE
    /\ UNCHANGED <<tableVars, etier, used, queue, seen, freed, disturbed, events>>

\* The end of a cycle: the NAS follows the local tier, then the task waits.
CycleEnds ==
    /\ IF etier = Local THEN etier' = Nas /\ epc' = "usage"
                        ELSE etier' = Local /\ epc' = "wait"
    /\ used' = 0 /\ queue' = <<>> /\ seen' = [id |-> 0, bm |-> {}] /\ freed' = 0

\* The usage decides whether there is anything to do.
CheckUsage ==
    /\ epc = "usage"
    /\ disturbed' = FALSE
    /\ IF BytesOn(etier) <= High[etier]
         THEN CycleEnds
         ELSE /\ epc' = "load" /\ used' = BytesOn(etier)
              /\ UNCHANGED <<etier, queue, seen, freed>>
    /\ UNCHANGED <<tableVars, permit, events>>

\* A query of the cycle fails: the cycle is over.
QueryFails ==
    /\ epc \in {"usage", "load"}
    /\ Event
    /\ CycleEnds
    /\ UNCHANGED <<tableVars, permit>>

\* files_on_tier and the sort.
LoadFiles ==
    /\ epc = "load" /\ epc' = "loop"
    /\ queue' \in Sorted(etier)
    /\ UNCHANGED <<tableVars, permit, etier, used, seen, freed, disturbed, events>>

TargetFree_to_high == Max({0, used - High[etier]})

\* used.saturating_sub(low_bytes)
TargetFree == Max({0, used - Low[etier]})

\* Enough is freed, or no file is left.
LoopBreaks ==
    /\ epc = "loop" /\ (freed >= TargetFree \/ queue = <<>>)
    /\ CycleEnds
    /\ UNCHANGED <<tableVars, permit, disturbed, events>>

\* evict_from_tier looks the next file up and checks again.
EvictLookup ==
    /\ epc = "loop" /\ freed < TargetFree /\ queue # <<>>
    /\ LET f == Head(queue).path
       IN  IF f \in DOMAIN row /\ SafeToEvictFrom(row[f].bm, etier)
             THEN /\ seen' = [id |-> row[f].id, bm |-> row[f].bm]
                  /\ epc' = "delete"
                  /\ UNCHANGED queue
             ELSE queue' = Tail(queue) /\ UNCHANGED <<seen, epc>>
    /\ UNCHANGED <<tableVars, permit, etier, used, freed, disturbed, events>>

NextFile_gives_up == queue' = <<>> /\ seen' = [id |-> 0, bm |-> {}] /\ epc' = "loop"

\* An error of evict_from_tier: a warning, and on to the next file.
NextFile == queue' = Tail(queue) /\ seen' = [id |-> 0, bm |-> {}] /\ epc' = "loop"

\* backend.delete removes the copy; a missing one is an error.
EvictDelete ==
    /\ epc = "delete"
    /\ LET f == Head(queue).path
       IN  IF etier \in held[f]
             THEN /\ held' = [held EXCEPT ![f] = @ \ {etier}]
                  /\ epc' = "bits" /\ UNCHANGED <<queue, seen>>
             ELSE NextFile /\ UNCHANGED held
    /\ UNCHANGED <<row, now, permit, etier, used, freed, disturbed, events>>

EvictBits_uncounted ==
    /\ epc = "bits"
    /\ row' = WithBits(seen.id, seen.bm \ {etier})
    /\ NextFile
    /\ UNCHANGED <<held, now, permit, etier, used, freed, disturbed, events>>

\* set_tier_bitmask with the bits read before the delete; freed grows by the
\* size in the snapshot.
EvictBits ==
    /\ epc = "bits"
    /\ row' = WithBits(seen.id, seen.bm \ {etier})
    /\ freed' = freed + Head(queue).size
    /\ NextFile
    /\ UNCHANGED <<held, now, permit, etier, used, disturbed, events>>

\* The delete or the update fails: after the delete, the bit stays behind.
EvictFails ==
    /\ epc \in {"delete", "bits"}
    /\ Event
    /\ NextFile
    /\ UNCHANGED <<tableVars, permit, etier, used, freed>>

CycleStep ==
    \/ CheckUsage \/ QueryFails \/ LoadFiles \/ LoopBreaks
    \/ EvictLookup \/ EvictDelete \/ EvictBits \/ EvictFails

----------------------------------------------------------------------------

Init ==
    /\ row \in Start
    /\ held = [f \in Files |-> IF f \in DOMAIN row THEN row[f].bm ELSE {}]
    /\ now = Max({0} \cup {row[f].at : f \in DOMAIN row})
    /\ permit = FALSE /\ epc = "wait" /\ etier = Local
    /\ used = 0 /\ queue = <<>> /\ seen = [id |-> 0, bm |-> {}] /\ freed = 0
    /\ disturbed = FALSE /\ events = 0

Next == Others \/ TickerTick \/ Notified \/ CycleStep

\* The ticker goes on ticking and the runtime polls the task; nothing makes a
\* request, a failure or a crash happen.
Spec ==
    /\ Init /\ [][Next]_vars
    /\ WF_vars(TickerTick)
    /\ WF_vars(CheckUsage) /\ WF_vars(LoadFiles) /\ WF_vars(LoopBreaks)
    /\ WF_vars(EvictLookup) /\ WF_vars(EvictDelete) /\ WF_vars(EvictBits)

----------------------------------------------------------------------------
(* Properties *)

\* The files an eviction from the tier could succeed on.
Evictable(t) == {f \in FilesOn(t) : SafeToEvictFrom(row[f].bm, t) /\ t \in held[f]}

\* An eviction is begun only on a tier that is above its low watermark, in a
\* cycle that nothing has disturbed since it measured the usage: what the task
\* counts as freed is what the table has lost.
EvictsOnlyAboveLow ==
    [][epc = "loop" /\ epc' = "delete" /\ ~disturbed => BytesOn(etier) > Low[etier]]_vars

\* A cycle that evicts and that nothing disturbs leaves the tier at its low
\* watermark, or no file on it that could still be evicted.
CycleReachesLow ==
    [][(epc = "loop" /\ etier' # etier /\ ~disturbed /\ ~disturbed')
         => BytesOn(etier) <= Low[etier] \/ Evictable(etier) = {}]_vars

\* The file an undisturbed cycle evicts is the coldest there is: no file that
\* could be evicted as well has a lower score.
ColdestFirst ==
    [][(epc = "loop" /\ epc' = "delete" /\ ~disturbed)
         => \A f \in Evictable(etier) : ~Colder(row[f], row[Head(queue).path])]_vars

\* Once nothing else happens, each tier stays at its high watermark or below,
\* or holds nothing more that could be evicted: failed evictions, stale
\* snapshots and crashes are made good by later cycles.
UsageSettles ==
    <>[](\A t \in {Local, Nas} : BytesOn(t) <= High[t] \/ Evictable(t) = {})
=============================================================================
