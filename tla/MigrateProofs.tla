---------------------------- MODULE MigrateProofs ----------------------------
(***************************************************************************)
(* Theorems about a migration and the daemon that then serves what it      *)
(* left: the types, what the rows say, what can be read, and what S3       *)
(* holds.  They hold for every set of files, names and contents, whatever  *)
(* the source directories hold and other programs change, every number of  *)
(* failures, kills and reruns, and any number of reads, evictions,         *)
(* promotions, failed steps and crashes of the daemon afterwards.  What    *)
(* writes and deletes do to a file is the subject of Fvfsd; here the       *)
(* daemon serves reads.                                                    *)
(***************************************************************************)
EXTENDS MigratedFvfsd, FvfsdProofs, FiniteSetTheorems

\* Clients write and delete nothing, as in the run of this specification.
ReadsOnly == MaxWrites = 0 /\ MaxDeletes = 0

-----------------------------------------------------------------------------
(* The inductive invariant *)

\* The daemon has not begun before the migration is over, and then has no
\* writes to replay or upload.
DaemonIdle ==
    /\ wal = {} /\ todo = {} /\ entry = {}
    /\ mpc # "off" => pc = Restarted
    /\ pc[Uploader] = "idle"
    /\ pc[Replayer] \in {"y_load", "y_next", "off"}
    /\ \A c \in Clients : pc[c] \in {"idle"} \cup ReadLabels

\* The report is about finitely many files.
MigrateTypeInv == MigrateTypeOK /\ IsFiniteSet(hashed)

\* A file that nobody has changed still has the content it was hashed with.
HashedCurrent == \A x \in hashed : x.name \notin edited => tree[x.tier][x.name] = x.sha

\* The file in hand: what was read again, and then put, is what was hashed,
\* unless somebody has changed the file.
ItemCurrent ==
    /\ mpc \in {"put", "upsert"} =>
         /\ \E x \in hashed : item = {x}
         /\ mbuf \in Data
         /\ \A x \in item : x.name \notin edited => mbuf = x.sha
    /\ mpc = "upsert" =>
         \A x \in item : x.name \notin edited => store[S3][VfsPath[x.name]] = x.sha

\* S3 holds nothing but a content of the path's source files.
ObjectsOfSources ==
    \A f \in Files : Unambiguous(f) => store[S3][f] \in SourceContents(f) \cup {Absent}

\* The only sources of this path are local files.
OnlyLocal(f) == Unambiguous(f) /\ \A x \in SourcesOf(f) : x[1] = Local

\* Every row has the S3 bit; it is true, and the hash is that of a source file.
RowsTrue ==
    \A f \in Files : HasRow(f) =>
        /\ S3 \in bitmask[f]
        /\ Unambiguous(f) => sha[f] \in SourceContents(f) /\ store[S3][f] = sha[f]
        /\ OnlyLocal(f) => Nas \notin bitmask[f]

\* The bitmask that the promoter or the evictor writes back is one of its file.
MoverLabels == {"p_bits", "e_delete", "e_bits"}
MoverTrue(p) ==
    /\ path[p] \in Files /\ HasRow(path[p]) /\ fid[p] = rowid[path[p]]
    /\ S3 \in fbm[p]
    /\ OnlyLocal(path[p]) => Nas \notin fbm[p]
MoversTrue ==
    /\ pc[Promoter] \in {"p_fill", "p_meta"} => path[Promoter] \in Files
    /\ \A p \in {Promoter, Evictor} : pc[p] \in MoverLabels => MoverTrue(p)

\* Until an error is counted, every content that was hashed is still to be put
\* to S3, is being put, or is there.
UploadsAccounted ==
    (mpc \in {"next", "put", "upsert", "off"} /\ report.errors = 0
        /\ \A f \in Files : Unambiguous(f)) =>
        \A x \in hashed :
            \/ \E y \in uploads : y.sha = x.sha
            \/ mpc = "put" /\ \E y \in item : y.sha = x.sha
            \/ \E f \in Files : store[S3][f] = x.sha

\* The loop has tried every file when it ends.
AllTried == mpc = "off" => uploads = {}

SourceInv == HashedCurrent /\ ItemCurrent /\ ObjectsOfSources
MigratedInv ==
    /\ TypeInv /\ WalIntegrity /\ MigrateTypeInv
    /\ DaemonIdle /\ SourceInv /\ RowsTrue /\ MoversTrue /\ UploadsAccounted /\ AllTried

-----------------------------------------------------------------------------
(* The source files of a path *)

\* The tasks are four processes, none of them a client.
LEMMA TasksDistinct ==
    /\ {Uploader, Promoter, Evictor, Replayer} \subseteq Procs
    /\ Uploader # Promoter /\ Uploader # Evictor /\ Uploader # Replayer
    /\ Promoter # Evictor /\ Promoter # Replayer /\ Evictor # Replayer
    /\ \A c \in Clients : c \in Procs /\ c # Uploader /\ c # Promoter /\ c # Evictor /\ c # Replayer
  BY ProcAssumption DEF Procs, Uploader, Promoter, Evictor, Replayer

\* A step that leaves the directories alone leaves the sources of a path alone.
LEMMA SourcesSame ==
    ASSUME UNCHANGED <<tree, edited>>, NEW f
    PROVE  /\ SourcesOf(f)' = SourcesOf(f) /\ SourceContents(f)' = SourceContents(f)
           /\ Unambiguous(f)' <=> Unambiguous(f)
           /\ OnlyLocal(f)' <=> OnlyLocal(f)
  <1>1. SourcesOf(f)' = SourcesOf(f)
    BY DEF SourcesOf
  <1>2. SourceContents(f)' = SourceContents(f)
    BY <1>1 DEF SourceContents
  <1>3. Unambiguous(f)' <=> Unambiguous(f)
    BY <1>2 DEF Unambiguous
  <1> QED  BY <1>1, <1>2, <1>3 DEF OnlyLocal

\* Edit: a path that is still unambiguous has the sources it had.
LEMMA SourcesEdited ==
    ASSUME MigrateTypeOK, Edit, NEW f \in Files, Unambiguous(f)'
    PROVE  /\ SourcesOf(f)' = SourcesOf(f) /\ SourceContents(f)' = SourceContents(f)
           /\ Unambiguous(f)
  <1>1. PICK t \in Source, n \in Volatile \ edited, c \in Data \cup {Absent} :
             edited' = edited \cup {n} /\ tree' = [tree EXCEPT ![t][n] = c]
    BY DEF Edit
  <1>2. VfsPath[n] # f
    BY <1>1 DEF Unambiguous
  <1>3. ASSUME NEW u \in Source, NEW m \in Names, VfsPath[m] = f
        PROVE  tree'[u][m] = tree[u][m]
    BY <1>1, <1>2, <1>3 DEF MigrateTypeOK
  <1>4. SourcesOf(f)' = SourcesOf(f)
    BY <1>3 DEF SourcesOf
  <1>5. SourceContents(f)' = SourceContents(f)
    <2>1. \A x \in SourcesOf(f) : tree'[x[1]][x[2]] = tree[x[1]][x[2]]
      BY <1>3 DEF SourcesOf
    <2> QED  BY <1>4, <2>1 DEF SourceContents
  <1>6. Unambiguous(f)
    BY <1>1, <1>5 DEF Unambiguous
  <1> QED  BY <1>4, <1>5, <1>6

\* Every step of a migration either leaves the directories alone or is an Edit,
\* so what is unambiguous afterwards was so before, with the same sources.
LEMMA SourcesKept ==
    ASSUME MigrateTypeOK, MigratedNext, NEW f \in Files, Unambiguous(f)'
    PROVE  /\ SourcesOf(f)' = SourcesOf(f) /\ SourceContents(f)' = SourceContents(f)
           /\ Unambiguous(f)
  <1>1. Edit \/ UNCHANGED <<tree, edited>>
    BY DEF MigratedNext, Migrating, MigrateStep, Crawl, HashFile, Dedup, ReadNext, PutItem,
           UpsertItem, MigrationEnds, Rerun, Serve, migrateVars
  <1> QED  BY <1>1, SourcesEdited, SourcesSame

\* A hashed file that nobody has changed is a source of its path.
LEMMA HashedIsSource ==
    ASSUME MigrateTypeOK, HashedCurrent, NEW x \in hashed, x.name \notin edited
    PROVE  /\ x.tier \in Source /\ x.name \in Names /\ x.sha \in Data /\ x.sha # Absent
           /\ VfsPath[x.name] \in Files
           /\ <<x.tier, x.name>> \in SourcesOf(VfsPath[x.name])
           /\ x.sha \in SourceContents(VfsPath[x.name])
  <1>1. x.tier \in Source /\ x.name \in Names /\ x.sha \in Data
    BY DEF MigrateTypeOK, Hashed
  <1>2. VfsPath[x.name] \in Files /\ x.sha # Absent
    BY <1>1, NamesAssumption, DataAssumption
  <1>3. tree[x.tier][x.name] = x.sha
    BY DEF HashedCurrent
  <1>4. <<x.tier, x.name>> \in SourcesOf(VfsPath[x.name])
    BY <1>1, <1>2, <1>3 DEF SourcesOf
  <1>5. x.sha \in SourceContents(VfsPath[x.name])
    BY <1>3, <1>4 DEF SourceContents
  <1> QED  BY <1>1, <1>2, <1>4, <1>5

-----------------------------------------------------------------------------
(* Types *)

\* The counters of the report stay numbers: finitely many files are hashed.
LEMMA DedupType ==
    ASSUME MigrateTypeInv, Dedup
    PROVE  MigrateTypeInv'
  <1>1. PICK S \in SUBSET hashed :
          /\ uploads' = S
          /\ report' = [report EXCEPT !.total = Cardinality(hashed),
                                      !.duplicates = Cardinality(hashed \ S)]
    BY DEF Dedup
  <1>2. Cardinality(hashed) \in Nat
    BY FS_CardinalityType DEF MigrateTypeInv
  <1>3. Cardinality(hashed \ S) \in Nat
    <2>1. IsFiniteSet(hashed \ S)
      BY FS_Subset DEF MigrateTypeInv
    <2> QED  BY <2>1, FS_CardinalityType
  <1>4. PICK total \in Nat, duplicates \in Nat :
             report' = [report EXCEPT !.total = total, !.duplicates = duplicates]
    BY <1>1, <1>2, <1>3
  <1>5. report' \in [{"total", "duplicates", "uploaded", "errors"} -> Nat]
    BY <1>4 DEF MigrateTypeInv, MigrateTypeOK
  <1>6. uploads' \subseteq hashed' /\ hashed' = hashed /\ mpc' = "next"
    BY <1>1 DEF Dedup
  <1> QED  BY <1>5, <1>6 DEF Dedup, MigrateTypeInv, MigrateTypeOK

\* Every step keeps the types of the migration.
LEMMA MigrateTypeStep ==
    ASSUME MigrateTypeInv, MigratedNext
    PROVE  MigrateTypeInv'
  <1>1. CASE \E t \in Source : Crawl(t)
    <2>1. PICK t \in Source : Crawl(t)
      BY <1>1
    <2>2. found' \subseteq Source \X Names
      BY <2>1 DEF Crawl, MigrateTypeInv, MigrateTypeOK
    <2>3. mpc' \in {"hash", "crawl"} /\ crawl' \subseteq Source
      BY <2>1 DEF Crawl, MigrateTypeInv, MigrateTypeOK
    <2> QED  BY <2>1, <2>2, <2>3 DEF Crawl, reportVars, MigrateTypeInv, MigrateTypeOK
  <1>2. CASE HashFile
    <2>1. PICK x \in found : HashFile!2!(x)
      BY <1>2 DEF HashFile
    <2>2. x \in Source \X Names /\ x[1] \in Source /\ x[2] \in Names
      BY DEF MigrateTypeInv, MigrateTypeOK
    <2>3. \/ hashed' = hashed
          \/ \E y \in Hashed : hashed' = hashed \cup {y}
      <3>1. tree[x[1]][x[2]] \in Data \cup {Absent}
        BY <2>2 DEF MigrateTypeInv, MigrateTypeOK
      <3>2. tree[x[1]][x[2]] # Absent =>
              [tier |-> x[1], name |-> x[2], sha |-> tree[x[1]][x[2]]] \in Hashed
        BY <2>2, <3>1 DEF Hashed
      <3> QED  BY <2>1, <3>2
    <2>4. hashed' \subseteq Hashed /\ hashed \subseteq hashed' /\ IsFiniteSet(hashed')
      BY <2>3, FS_AddElement DEF MigrateTypeInv, MigrateTypeOK
    <2>5. found' \subseteq found
      BY <2>1
    <2> QED  BY <1>2, <2>4, <2>5 DEF HashFile, MigrateTypeInv, MigrateTypeOK
  <1>3. CASE Dedup
    BY <1>3, DedupType
  <1>4. CASE ReadNext
    <2>1. PICK x \in uploads : ReadNext!2!(x)
      BY <1>4 DEF ReadNext
    <2>2. x \in hashed /\ x.tier \in Source /\ x.name \in Names
      BY DEF MigrateTypeInv, MigrateTypeOK, Hashed
    <2>3. tree[x.tier][x.name] \in Data \cup {Absent}
      BY <2>2 DEF MigrateTypeInv, MigrateTypeOK
    <2>4. item' \subseteq hashed /\ mbuf' \in Data \cup {Absent} /\ mpc' \in {"next", "put"}
      BY <1>4, <2>1, <2>2, <2>3 DEF ReadNext, MigrateTypeInv, MigrateTypeOK
    <2>5. report' \in [{"total", "duplicates", "uploaded", "errors"} -> Nat]
      BY <2>1 DEF MigrateTypeInv, MigrateTypeOK
    <2>6. uploads' \subseteq uploads
      BY <2>1
    <2> QED  BY <1>4, <2>4, <2>5, <2>6 DEF ReadNext, MigrateTypeInv, MigrateTypeOK
  <1>5. CASE PutItem
    <2>1. mpc' \in {"next", "upsert"} /\ item' \subseteq item /\ mbuf' \in {mbuf, Absent}
      BY <1>5 DEF PutItem, ForgetItem
    <2>2. report' \in [{"total", "duplicates", "uploaded", "errors"} -> Nat]
      BY <1>5 DEF PutItem, MigrateTypeInv, MigrateTypeOK
    <2> QED  BY <1>5, <2>1, <2>2 DEF PutItem, MigrateTypeInv, MigrateTypeOK
  <1>6. CASE UpsertItem \/ MigrationEnds
    BY <1>6 DEF UpsertItem, MigrationEnds, ForgetItem, reportVars, MigrateTypeInv, MigrateTypeOK
  <1>7. CASE Edit
    <2>1. edited' \subseteq Volatile /\ tree' \in [Source -> [Names -> Data \cup {Absent}]]
      BY <1>7, NamesAssumption DEF Edit, MigrateTypeInv, MigrateTypeOK
    <2> QED  BY <1>7, <2>1 DEF Edit, reportVars, MigrateTypeInv, MigrateTypeOK
  <1>8. CASE Rerun
    BY <1>8, FS_EmptySet DEF Rerun, NoReport, MigrateTypeInv, MigrateTypeOK
  <1>9. CASE Serve
    BY <1>9 DEF Serve, migrateVars, MigrateTypeInv, MigrateTypeOK
  <1> QED  BY <1>1, <1>2, <1>3, <1>4, <1>5, <1>6, <1>7, <1>8, <1>9
           DEF MigratedNext, Migrating, MigrateStep

\* Every step keeps the types of the database, the backends and the daemon.
LEMMA DaemonTypeStep ==
    ASSUME TypeInv, MigrateTypeInv, ItemCurrent, MigratedNext
    PROVE  TypeInv'
  <1>1. CASE Serve
    BY <1>1, TypeStep DEF Serve
  <1>2. CASE Migrating \/ Rerun
    <2>1. UNCHANGED daemonVars
      BY <1>2 DEF Migrating, Rerun
    <2>2. crashes' \in Nat
      BY <1>2 DEF Migrating, Rerun, TypeInv, TypeOK
    <2>3. faults' \in Nat
      <3>1. faults \in Nat
        BY DEF TypeInv, TypeOK, RouterTypeOK, BoundTypeOK
      <3>2. ASSUME Fault PROVE faults' \in Nat
        BY <3>1, <3>2 DEF Fault
      <3>3. Fault \/ UNCHANGED faults
        <4>1. CASE \E t \in Source : Crawl(t)
          BY <4>1 DEF Crawl
        <4>2. CASE HashFile \/ ReadNext
          BY <4>2 DEF HashFile, ReadNext
        <4>3. CASE PutItem \/ UpsertItem
          BY <4>3 DEF PutItem, UpsertItem
        <4>4. CASE Dedup \/ MigrationEnds \/ Edit \/ Rerun
          BY <4>4 DEF Dedup, MigrationEnds, Edit, Rerun
        <4> QED  BY <1>2, <4>1, <4>2, <4>3, <4>4 DEF Migrating, MigrateStep
      <3> QED  BY <3>1, <3>2, <3>3
    <2>4. WorkTypeOK' /\ EvictTypeOK'
      BY <2>1 DEF daemonVars, workVars, lapseVars, evictVars, TypeInv, TypeOK, WorkTypeOK,
         EvictTypeOK
    <2>5. ProcTypeOK' /\ PathInv'
      BY <2>1 DEF daemonVars, localVars, TypeInv, TypeOK, RouterTypeOK, ProcTypeOK, PathInv
    <2>6. BoundTypeOK'
      BY <2>1, <2>3 DEF daemonVars, TypeInv, TypeOK, RouterTypeOK, BoundTypeOK
    <2>7. MetadataTypeOK'
      <3>1. CASE UpsertItem
        <4>1. PICK x \in item : Upsert(VfsPath[x.name], MigratedBits(x.tier), x.sha) \/ UNCHANGED metaVars
          BY <3>1 DEF UpsertItem
        <4>2. VfsPath[x.name] \in Paths /\ MigratedBits(x.tier) \in SUBSET Tier /\ x.sha \in Data
          BY NamesAssumption DEF MigrateTypeInv, MigrateTypeOK, Hashed, Paths, MigratedBits, Source, Tier
        <4> QED  BY <4>1, <4>2, UpsertType DEF TypeInv, TypeOK, MetadataTypeOK, metaVars
      <3>2. CASE ~UpsertItem
        <4>1. UNCHANGED <<rowid, bitmask, sha, wal>> /\ lastRowid' \in {lastRowid, 0}
          BY <1>2, <3>2 DEF Migrating, MigrateStep, Crawl, HashFile, Dedup, ReadNext, PutItem,
                 MigrationEnds, Edit, Rerun, metaVars, fileVars
        <4> QED  BY <4>1 DEF TypeInv, TypeOK, MetadataTypeOK
      <3> QED  BY <3>1, <3>2
    <2>8. StoreTypeOK'
      <3>1. CASE PutItem
        <4>1. PICK x \in item : StorePut(S3, VfsPath[x.name], mbuf) \/ UNCHANGED storeVars
          BY <3>1 DEF PutItem
        <4>2. S3 \in Tier /\ mbuf \in Content
          BY <3>1 DEF PutItem, ItemCurrent, Tier, Content
        <4>3. CASE StorePut(S3, VfsPath[x.name], mbuf)
          BY <4>2, <4>3, StorePutType DEF TypeInv, TypeOK
        <4>4. CASE UNCHANGED storeVars
          BY <4>4 DEF TypeInv, TypeOK, StoreTypeOK, storeVars
        <4> QED  BY <4>1, <4>3, <4>4
      <3>2. CASE Edit
        <4>1. PICK t \in Source, n \in Volatile \ edited, c \in Data \cup {Absent} :
                   store' = IF t \in rooted /\ n \in Files THEN [store EXCEPT ![t][n] = c] ELSE store
          BY <3>2 DEF Edit
        <4>2. store' \in [Tier -> [Files -> Content]]
          BY <4>1 DEF TypeInv, TypeOK, StoreTypeOK, Content
        <4>3. UNCHANGED <<openers, mixing>>
          BY <3>2 DEF Edit
        <4> QED  BY <4>2, <4>3 DEF TypeInv, TypeOK, StoreTypeOK
      <3>3. CASE ~PutItem /\ ~Edit
        <4>1. UNCHANGED storeVars
          BY <1>2, <3>3 DEF Migrating, MigrateStep, Crawl, HashFile, Dedup, ReadNext, UpsertItem,
                 MigrationEnds, Rerun
        <4> QED  BY <4>1 DEF TypeInv, TypeOK, StoreTypeOK, storeVars
      <3> QED  BY <3>1, <3>2, <3>3
    <2> QED  BY <2>2, <2>4, <2>5, <2>6, <2>7, <2>8 DEF TypeInv, TypeOK, RouterTypeOK
  <1> QED  BY <1>1, <1>2 DEF MigratedNext

\* Rows get their ids from the database alone, in the migration as elsewhere.
LEMMA MigratedIntegrity ==
    ASSUME TypeInv, MigrateTypeInv, WalIntegrity, MigratedNext
    PROVE  WalIntegrity'
  <1>1. MethodCall
    <2>1. CASE Serve
      BY <2>1, StepsCallMethods DEF Serve
    <2>2. CASE UpsertItem
      <3>1. PICK x \in item : Upsert(VfsPath[x.name], MigratedBits(x.tier), x.sha) \/ UNCHANGED metaVars
        BY <2>2 DEF UpsertItem
      <3>2. VfsPath[x.name] \in Paths
        BY NamesAssumption DEF MigrateTypeInv, MigrateTypeOK, Hashed, Paths
      <3> QED  BY <3>1, <3>2 DEF MethodCall, metaVars
    <2>3. CASE ~Serve /\ ~UpsertItem
      <3>1. UNCHANGED <<rowid, wal>>
        BY <2>3 DEF MigratedNext, Migrating, MigrateStep, Crawl, HashFile, Dedup, ReadNext, PutItem,
               MigrationEnds, Edit, Rerun, metaVars, fileVars
      <3> QED  BY <3>1 DEF MethodCall
    <2> QED  BY <2>1, <2>2, <2>3
  <1> QED  BY <1>1, MethodsKeepIntegrity DEF TypeInv, TypeOK

-----------------------------------------------------------------------------
(* The daemon after the migration *)

\* What a step of the daemon may do to rows and S3 objects when nobody writes.
ServeEffect ==
    /\ UNCHANGED <<rowid, sha, wal, todo, entry>>
    /\ \A f \in Files : store'[S3][f] = store[S3][f]
    /\ \/ UNCHANGED bitmask
       \/ \E p \in {Promoter, Evictor}, bm \in SUBSET Tier :
            /\ pc[p] \in MoverLabels
            /\ SetTierBitmask(fid[p], bm)
            /\ S3 \in fbm[p] => S3 \in bm
            /\ Nas \in bm => Nas \in fbm[p]

\* Where the processes are while the daemon serves.
PlacesOk ==
    /\ pc[Uploader] = "idle"
    /\ pc[Replayer] \in {"y_load", "y_next", "off"}
    /\ \A c \in Clients : pc[c] \in {"idle"} \cup ReadLabels

\* A step that leaves the promoter and the evictor where they are.
MoversStay ==
    \A p \in {Promoter, Evictor} : /\ pc'[p] = pc[p] /\ path'[p] = path[p]
                                   /\ fid'[p] = fid[p] /\ fbm'[p] = fbm[p]

\* A read of a process moves it to another label of a read, and nothing else.
LEMMA ReadEffect ==
    ASSUME TypeInv, NEW p \in Procs, ReadMeta(p) \/ ReadLocal(p) \/ ReadCold(p)
    PROVE  /\ UNCHANGED <<metaVars, storeVars, path, fbm, fid>>
           /\ pc[p] \in ReadLabels
           /\ \E l \in ReadLabels : pc' = [pc EXCEPT ![p] = l]
  <1>1. CASE ReadMeta(p)
    BY <1>1 DEF ReadMeta, Goto, ReadLabels, DbFault
  <1>2. CASE ReadLocal(p)
    BY <1>2 DEF ReadLocal, Goto, ReadLabels
  <1>3. CASE ReadCold(p)
    BY <1>3 DEF ReadCold, Goto, ReadLabels
  <1> QED  BY <1>1, <1>2, <1>3

LEMMA ClientsServe ==
    ASSUME ReadsOnly, TypeInv, DaemonIdle, NEW c \in Clients, Request(c) \/ Handle(c) \/ Drop(c)
    PROVE  ServeEffect /\ PlacesOk' /\ MoversStay
  <1>1. c \in Procs /\ pc \in [Procs -> Labels] /\ pc[c] \in {"idle"} \cup ReadLabels
    BY TasksDistinct DEF TypeInv, TypeOK, RouterTypeOK, ProcTypeOK, DaemonIdle
  <1>2. ASSUME UNCHANGED <<metaVars, storeVars, workVars>>,
               NEW l \in {"idle"} \cup ReadLabels, pc' = [pc EXCEPT ![c] = l],
               \A p \in {Promoter, Evictor} : /\ path'[p] = path[p]
                                              /\ fid'[p] = fid[p] /\ fbm'[p] = fbm[p]
        PROVE  ServeEffect /\ PlacesOk' /\ MoversStay
    <2>1. ServeEffect
      BY <1>2 DEF ServeEffect, metaVars, storeVars, workVars, lapseVars
    <2>2. PlacesOk'
      BY <1>1, <1>2, TasksDistinct DEF PlacesOk, DaemonIdle
    <2>3. MoversStay
      BY <1>1, <1>2, TasksDistinct DEF MoversStay
    <2> QED  BY <2>1, <2>2, <2>3
  <1>3. CASE Request(c)
    <2>1. ASSUME NEW f \in Files, NEW d \in Data, BeginWrite(c, f, d) PROVE FALSE
      <3>1. writes[f] \in Nat /\ writes[f] < MaxWrites
        BY <2>1 DEF BeginWrite, TypeInv, TypeOK, RouterTypeOK, BoundTypeOK
      <3> QED  BY <3>1 DEF ReadsOnly
    <2>2. ASSUME NEW f \in Files, BeginDelete(c, f) PROVE FALSE
      <3>1. deletes \in Nat /\ deletes < MaxDeletes
        BY <2>2 DEF BeginDelete, TypeInv, TypeOK, RouterTypeOK, BoundTypeOK
      <3> QED  BY <3>1 DEF ReadsOnly
    <2>3. PICK f \in Files : BeginRead(c, f)
      BY <1>3, <2>1, <2>2 DEF Request
    <2>4. UNCHANGED <<metaVars, storeVars, workVars, fbm, fid>> /\ pc' = [pc EXCEPT ![c] = "r_meta"]
      BY <1>3, <2>3 DEF Request, BeginRead, Goto
    <2>5. path' = [path EXCEPT ![c] = f]
      BY <2>3 DEF BeginRead
    <2>6. "r_meta" \in {"idle"} \cup ReadLabels
      BY DEF ReadLabels
    <2>7. \A p \in {Promoter, Evictor} : path'[p] = path[p]
      BY <2>5, TasksDistinct DEF TypeInv, TypeOK, RouterTypeOK, ProcTypeOK
    <2> QED  BY <1>2, <2>4, <2>6, <2>7
  <1>4. CASE Handle(c)
    <2>1. UNCHANGED workVars
      BY <1>4 DEF Handle
    <2>2. CASE ReadMeta(c) \/ ReadLocal(c) \/ ReadCold(c)
      BY <1>1, <1>2, <2>1, <2>2, ReadEffect
    <2>3. CASE Reply(c)
      <3>1. UNCHANGED <<metaVars, storeVars>> /\ pc' = [pc EXCEPT ![c] = "idle"]
        BY <2>3 DEF Reply, Return, Goto
      <3>2. \A p \in {Promoter, Evictor} : /\ path'[p] = path[p]
                                           /\ fid'[p] = fid[p] /\ fbm'[p] = fbm[p]
        BY <2>3, TasksDistinct DEF Reply, Return, TypeInv, TypeOK, RouterTypeOK, ProcTypeOK
      <3> QED  BY <1>2, <2>1, <3>1, <3>2
    <2>4. ~(\/ WriteFill(c) \/ WriteUpsert(c) \/ WriteParents(c) \/ WriteRoot(c)
            \/ WriteEnqueueNas(c) \/ WriteEnqueueS3(c) \/ DeleteFromTier(c) \/ DeleteMeta(c))
      BY <1>1 DEF ReadLabels, WriteFill, WriteUpsert, WriteParents, WriteRoot, WriteEnqueueNas,
                  WriteEnqueueS3, DeleteFromTier, DeleteMeta
    <2> QED  BY <1>4, <2>2, <2>3, <2>4 DEF Handle, ClientStep
  <1>5. ~Drop(c)
    BY <1>1 DEF Drop, Abort, ClientLabels, ReadLabels
  <1> QED  BY <1>3, <1>4, <1>5

\* The uploader has nothing to do, and replay ends at once.
LEMMA WorkersServe ==
    ASSUME TypeInv, DaemonIdle, Upload \/ Replay
    PROVE  ServeEffect /\ PlacesOk' /\ MoversStay
  <1>1. ~Upload
    <2>1. ~UploadLoad
      BY DEF UploadLoad, DaemonIdle
    <2>2. ~(\/ UploadNext \/ UploadSkip \/ UploadEnd \/ UploaderRead \/ UploadPut \/ UploadBits
            \/ UploadComplete \/ UploadFail)
      BY DEF UploadNext, UploadSkip, UploadEnd, UploaderRead, UploadPut, UploadBits, UploadComplete, UploadFail,
             ReadMeta, ReadLocal, ReadCold, DaemonIdle, DbFault
    <2> QED  BY <2>1, <2>2 DEF Upload, UploaderStep
  <1>2. ReplayLoad \/ ReplayEnd
    <2>1. ~ReplayNext
      BY DEF ReplayNext, Oldest, DaemonIdle
    <2>2. ~(\/ ReplayGiveUp \/ ReplaySkip \/ ReplayLook \/ ReplayerRead \/ ReplayNasCreate \/ ReplayNasFill \/ ReplayPut
            \/ ReplayBits \/ ReplayComplete \/ ReplayFail)
      BY DEF ReplayGiveUp, ReplaySkip, ReplayLook, ReplayerRead, ReplayNasCreate, ReplayNasFill, ReplayPut,
             ReplayBits, ReplayComplete, ReplayFail, ReadMeta, ReadLocal, ReadCold, DaemonIdle,
             SkipEntry, DbFault
    <2> QED  BY <1>1, <2>1, <2>2 DEF Replay, ReplayStep
  <1>3. /\ UNCHANGED <<metaVars, storeVars, entry, path, fbm, fid>> /\ todo' = todo
        /\ \E l \in {"y_next", "off"} : pc' = [pc EXCEPT ![Replayer] = l]
    BY <1>2 DEF ReplayLoad, ReplayEnd, Goto, workVars, lapseVars, DaemonIdle, DbFault
  <1>4. ServeEffect
    BY <1>3 DEF ServeEffect, metaVars, storeVars
  <1>5. PlacesOk' /\ MoversStay
    BY <1>3, TasksDistinct DEF PlacesOk, MoversStay, DaemonIdle, TypeInv, TypeOK, RouterTypeOK, ProcTypeOK
  <1> QED  BY <1>4, <1>5

\* A mover that a step leaves alone keeps what it holds.
LEMMA MoverKept ==
    ASSUME UNCHANGED <<rowid, tree, edited>>, NEW p, MoverTrue(p),
           path'[p] = path[p], fid'[p] = fid[p], fbm'[p] = fbm[p]
    PROVE  MoverTrue(p)'
  <1>1. PICK f : f = path[p]
    OBVIOUS
  <1>2. OnlyLocal(f)' <=> OnlyLocal(f)
    BY SourcesSame
  <1>3. OnlyLocal(path[p])' => OnlyLocal(path[p])
    <2>1. path'[p] = f
      BY <1>1
    <2>2. OnlyLocal(path[p])' <=> OnlyLocal(f)'
      BY <2>1 DEF OnlyLocal, Unambiguous, SourceContents, SourcesOf
    <2>3. OnlyLocal(path[p]) <=> OnlyLocal(f)
      BY <1>1
    <2> QED  BY <1>2, <2>2, <2>3
  <1> QED  BY <1>3 DEF MoverTrue, HasRow

\* A mover that loads the row of a file holds what MoverTrue asks for.
LEMMA MoverLoads ==
    ASSUME UNCHANGED <<rowid, tree, edited>>, RowsTrue, NEW p, NEW f \in Files, HasRow(f),
           path'[p] = f, fid'[p] = rowid[f], fbm'[p] = bitmask[f]
    PROVE  MoverTrue(p)'
  <1>1. OnlyLocal(f)' <=> OnlyLocal(f)
    BY SourcesSame
  <1>2. OnlyLocal(path[p])' <=> OnlyLocal(f)'
    BY DEF OnlyLocal, Unambiguous, SourceContents, SourcesOf
  <1>3. S3 \in bitmask[f] /\ (OnlyLocal(f) => Nas \notin bitmask[f])
    BY DEF RowsTrue
  <1> QED  BY <1>1, <1>2, <1>3 DEF MoverTrue, HasRow

LEMMA EvictorServes ==
    ASSUME TypeInv, DaemonIdle, RowsTrue, MoversTrue, UNCHANGED <<tree, edited>>, Evict
    PROVE  ServeEffect /\ PlacesOk' /\ MoversTrue'
  <1>1. /\ pc \in [Procs -> Labels] /\ path \in [Procs -> Paths] /\ fid \in [Procs -> Nat]
        /\ fbm \in [Procs -> SUBSET Tier] /\ etier \in {Local, Nas} /\ victims \subseteq Files
    BY DEF TypeInv, TypeOK, RouterTypeOK, ProcTypeOK, EvictTypeOK
  <1>2. ASSUME NEW l \in {"idle", "e_next", "e_delete", "e_bits"}, pc' = [pc EXCEPT ![Evictor] = l],
               UNCHANGED <<rowid, sha, wal>>,
               \A q \in Procs \ {Evictor} : path'[q] = path[q] /\ fid'[q] = fid[q] /\ fbm'[q] = fbm[q],
               l \in MoverLabels => MoverTrue(Evictor)'
        PROVE  PlacesOk' /\ MoversTrue'
    <2>1. PlacesOk'
      BY <1>1, <1>2, TasksDistinct DEF PlacesOk, DaemonIdle
    <2>2. /\ pc'[Promoter] = pc[Promoter] /\ path'[Promoter] = path[Promoter]
          /\ fid'[Promoter] = fid[Promoter] /\ fbm'[Promoter] = fbm[Promoter]
      BY <1>1, <1>2, TasksDistinct
    <2>3. pc'[Promoter] \in MoverLabels => MoverTrue(Promoter)'
      BY <1>2, <2>2, MoverKept DEF MoversTrue
    <2>4. pc'[Evictor] = l
      BY <1>1, <1>2, TasksDistinct
    <2> QED  BY <1>2, <2>1, <2>2, <2>3, <2>4 DEF MoversTrue
  <1>3. UNCHANGED workVars
    BY DEF Evict
  <1>4. CASE EvictScan \/ EvictEnd
    <2>1. /\ UNCHANGED <<metaVars, storeVars, path, fid, fbm>>
          /\ \E l \in {"idle", "e_next"} : pc' = [pc EXCEPT ![Evictor] = l]
      BY <1>4 DEF EvictScan, EvictEnd, Goto
    <2>2. ServeEffect
      BY <1>3, <2>1 DEF ServeEffect, metaVars, storeVars, workVars, lapseVars
    <2>3. UNCHANGED <<rowid, sha, wal>>
      BY <2>1 DEF metaVars
    <2>4. "idle" \notin MoverLabels /\ "e_next" \notin MoverLabels
      BY DEF MoverLabels
    <2> QED  BY <1>2, <2>1, <2>2, <2>3, <2>4
  <1>5. CASE EvictLookup
    <2>1. PICK f \in victims : EvictLookup!2!(f)
      BY <1>5 DEF EvictLookup
    <2>2. f \in Files
      BY <1>1
    <2>3. UNCHANGED <<metaVars, storeVars>>
      BY <1>5 DEF EvictLookup
    <2>4. ServeEffect /\ UNCHANGED <<rowid, sha, wal>>
      BY <1>3, <2>3 DEF ServeEffect, metaVars, storeVars, workVars, lapseVars
    <2>5. CASE HasRow(f) /\ SafeToEvictFrom(bitmask[f], etier)
      <3>1. /\ pc' = [pc EXCEPT ![Evictor] = "e_delete"] /\ path' = [path EXCEPT ![Evictor] = f]
            /\ fbm' = [fbm EXCEPT ![Evictor] = bitmask[f]] /\ fid' = [fid EXCEPT ![Evictor] = rowid[f]]
        BY <2>1, <2>5 DEF Goto
      <3>2. path'[Evictor] = f /\ fbm'[Evictor] = bitmask[f] /\ fid'[Evictor] = rowid[f]
        BY <1>1, <3>1, TasksDistinct
      <3>3. MoverTrue(Evictor)'
        BY <2>2, <2>4, <2>5, <3>2, MoverLoads
      <3>4. \A q \in Procs \ {Evictor} : path'[q] = path[q] /\ fid'[q] = fid[q] /\ fbm'[q] = fbm[q]
        BY <1>1, <3>1
      <3> QED  BY <1>2, <2>4, <3>1, <3>3, <3>4
    <2>6. CASE ~(HasRow(f) /\ SafeToEvictFrom(bitmask[f], etier))
      <3>1. UNCHANGED <<pc, path, fid, fbm>> /\ pc[Evictor] = "e_next"
        BY <1>5, <2>1, <2>6 DEF EvictLookup
      <3>2. pc' = [pc EXCEPT ![Evictor] = "e_next"]
        BY <1>1, <3>1
      <3>3. "e_next" \notin MoverLabels
        BY DEF MoverLabels
      <3> QED  BY <1>2, <2>4, <3>1, <3>2, <3>3
    <2> QED  BY <2>5, <2>6
  <1>6. CASE EvictDelete
    <2>1. pc[Evictor] = "e_delete" /\ MoverTrue(Evictor) /\ UNCHANGED metaVars
      BY <1>6 DEF EvictDelete, MoversTrue, MoverLabels
    <2>2. UNCHANGED <<rowid, bitmask, sha, wal>>
      BY <2>1 DEF metaVars
    <2>3. \A f \in Files : store'[S3][f] = store[S3][f]
      <3>1. StoreDelete(etier, path[Evictor]) \/ UNCHANGED storeVars
        BY <1>6 DEF EvictDelete
      <3>2. S3 \in Tier /\ etier # S3
        BY <1>1 DEF Tier, Local, Nas, S3
      <3> QED  BY <3>1, <3>2 DEF StoreDelete, storeVars, TypeInv, TypeOK, StoreTypeOK
    <2>4. ServeEffect
      BY <1>3, <2>2, <2>3 DEF ServeEffect, workVars, lapseVars
    <2>5. CASE pc' = [pc EXCEPT ![Evictor] = "e_bits"] /\ UNCHANGED <<path, fbm, fid>>
      <3>1. MoverTrue(Evictor)'
        BY <2>1, <2>2, <2>5, MoverKept
      <3> QED  BY <1>2, <2>2, <2>4, <2>5, <3>1
    <2>6. CASE Return(Evictor, "e_next")
      <3>1. pc' = [pc EXCEPT ![Evictor] = "e_next"]
        BY <2>6 DEF Return, Goto
      <3>2. \A q \in Procs \ {Evictor} : path'[q] = path[q] /\ fid'[q] = fid[q] /\ fbm'[q] = fbm[q]
        BY <1>1, <2>6 DEF Return
      <3>3. "e_next" \notin MoverLabels
        BY DEF MoverLabels
      <3> QED  BY <1>2, <2>2, <2>4, <3>1, <3>2, <3>3
    <2> QED  BY <1>6, <2>5, <2>6 DEF EvictDelete, Goto
  <1>7. CASE EvictBits
    <2>1. pc[Evictor] \in MoverLabels
      BY <1>7 DEF EvictBits, MoverLabels, DbFault
    <2>2. UNCHANGED <<rowid, sha, wal>>
      BY <1>7 DEF EvictBits, SetTierBitmask, DbFault, metaVars, fileVars
    <2>3. ServeEffect
      <3>1. PICK bm : bm = fbm[Evictor] \ {etier}
        OBVIOUS
      <3>2. bm \in SUBSET Tier /\ (S3 \in fbm[Evictor] => S3 \in bm) /\ (Nas \in bm => Nas \in fbm[Evictor])
        BY <1>1, <3>1, TasksDistinct DEF Local, Nas, S3
      <3>3. (SetTierBitmask(fid[Evictor], bm) \/ UNCHANGED bitmask) /\ UNCHANGED storeVars
        BY <1>7, <3>1 DEF EvictBits, DbFault, metaVars, fileVars
      <3> QED  BY <1>3, <2>1, <2>2, <3>2, <3>3 DEF ServeEffect, storeVars, workVars, lapseVars
    <2>4. pc' = [pc EXCEPT ![Evictor] = "e_next"]
      BY <1>7 DEF EvictBits, Return, Goto, DbFault
    <2>5. \A q \in Procs \ {Evictor} : path'[q] = path[q] /\ fid'[q] = fid[q] /\ fbm'[q] = fbm[q]
      BY <1>1, <1>7 DEF EvictBits, Return, DbFault
    <2>6. "e_next" \notin MoverLabels
      BY DEF MoverLabels
    <2> QED  BY <1>2, <2>2, <2>3, <2>4, <2>5, <2>6
  <1> QED  BY <1>4, <1>5, <1>6, <1>7 DEF Evict, EvictStep

LEMMA PromoterServes ==
    ASSUME TypeInv, DaemonIdle, RowsTrue, MoversTrue, UNCHANGED <<tree, edited>>, Promote
    PROVE  ServeEffect /\ PlacesOk' /\ MoversTrue'
  <1>1. /\ pc \in [Procs -> Labels] /\ path \in [Procs -> Paths] /\ fid \in [Procs -> Nat]
        /\ fbm \in [Procs -> SUBSET Tier]
    BY DEF TypeInv, TypeOK, RouterTypeOK, ProcTypeOK
  <1>2. ASSUME NEW l \in {"idle"} \cup ReadLabels \cup PromoLabels, pc' = [pc EXCEPT ![Promoter] = l],
               UNCHANGED <<rowid, sha, wal>>,
               \A q \in Procs \ {Promoter} : path'[q] = path[q] /\ fid'[q] = fid[q] /\ fbm'[q] = fbm[q],
               l \in {"p_fill", "p_meta"} => path'[Promoter] \in Files,
               l = "p_bits" => MoverTrue(Promoter)'
        PROVE  PlacesOk' /\ MoversTrue'
    <2>1. PlacesOk'
      BY <1>1, <1>2, TasksDistinct DEF PlacesOk, DaemonIdle
    <2>2. /\ pc'[Evictor] = pc[Evictor] /\ path'[Evictor] = path[Evictor]
          /\ fid'[Evictor] = fid[Evictor] /\ fbm'[Evictor] = fbm[Evictor]
      BY <1>1, <1>2, TasksDistinct
    <2>3. pc'[Evictor] \in MoverLabels => MoverTrue(Evictor)'
      BY <1>2, <2>2, MoverKept DEF MoversTrue
    <2>4. pc'[Promoter] = l
      BY <1>1, <1>2, TasksDistinct
    <2>5. l \in MoverLabels => l = "p_bits"
      BY <1>2 DEF MoverLabels, ReadLabels, PromoLabels
    <2> QED  BY <1>2, <2>1, <2>3, <2>4, <2>5 DEF MoversTrue
  <1>3. UNCHANGED workVars
    BY DEF Promote
  <1>4. ASSUME Return(Promoter, "idle"), UNCHANGED <<rowid, sha, wal>>
        PROVE  PlacesOk' /\ MoversTrue'
    <2>1. pc' = [pc EXCEPT ![Promoter] = "idle"]
      BY <1>4 DEF Return, Goto
    <2>2. \A q \in Procs \ {Promoter} : path'[q] = path[q] /\ fid'[q] = fid[q] /\ fbm'[q] = fbm[q]
      BY <1>1, <1>4 DEF Return
    <2> QED  BY <1>2, <1>4, <2>1, <2>2
  <1>5. ASSUME UNCHANGED <<metaVars, storeVars>>
        PROVE  ServeEffect /\ UNCHANGED <<rowid, sha, wal>>
    BY <1>3, <1>5 DEF ServeEffect, metaVars, storeVars, workVars, lapseVars
  <1>6. ASSUME UNCHANGED metaVars, \A f \in Files : store'[S3][f] = store[S3][f]
        PROVE  ServeEffect /\ UNCHANGED <<rowid, sha, wal>>
    BY <1>3, <1>6 DEF ServeEffect, metaVars, workVars, lapseVars
  <1>7. CASE PromoteRecv
    <2>1. /\ UNCHANGED <<metaVars, storeVars, fbm, fid>> /\ pc' = [pc EXCEPT ![Promoter] = "r_meta"]
          /\ path' = [path EXCEPT ![Promoter] = Head(promotions)]
      BY <1>7 DEF PromoteRecv, Goto
    <2>2. \A q \in Procs \ {Promoter} : path'[q] = path[q]
      BY <1>1, <2>1
    <2>3. "r_meta" \in ReadLabels
      BY DEF ReadLabels
    <2> QED  BY <1>2, <1>5, <2>1, <2>2, <2>3
  <1>8. CASE PromoteRead
    <2>1. UNCHANGED <<metaVars, storeVars, path, fbm, fid>>
      BY <1>8, ReadEffect, TasksDistinct DEF PromoteRead
    <2>2. PICK l \in ReadLabels : pc' = [pc EXCEPT ![Promoter] = l]
      BY <1>8, ReadEffect, TasksDistinct DEF PromoteRead
    <2>3. l \notin {"p_fill", "p_meta", "p_bits"}
      BY DEF ReadLabels
    <2> QED  BY <1>2, <1>5, <2>1, <2>2, <2>3
  <1>9. CASE PromoteSkip
    BY <1>4, <1>5, <1>9 DEF PromoteSkip
  <1>10. CASE PromoteCreate
    <2>1. path[Promoter] \in Files
      BY <1>10, TasksDistinct DEF PromoteCreate, TypeInv, PathInv
    <2>2. \A f \in Files : store'[S3][f] = store[S3][f]
      BY <1>10 DEF PromoteCreate, LocalCreate, TypeInv, TypeOK, StoreTypeOK, Tier, Local, S3
    <2>3. UNCHANGED <<metaVars, path, fbm, fid>> /\ pc' = [pc EXCEPT ![Promoter] = "p_fill"]
      BY <1>10 DEF PromoteCreate, Goto
    <2>4. "p_fill" \in PromoLabels
      BY DEF PromoLabels
    <2> QED  BY <1>2, <1>6, <2>1, <2>2, <2>3, <2>4
  <1>11. CASE PromoteFill
    <2>1. path[Promoter] \in Files
      BY <1>11 DEF PromoteFill, MoversTrue
    <2>2. UNCHANGED metaVars
      BY <1>11 DEF PromoteFill
    <2>3. CASE /\ LocalFill(Promoter, path[Promoter], buf[Promoter])
               /\ Goto(Promoter, "p_meta") /\ UNCHANGED <<path, fbm, fid>>
      <3>1. \A f \in Files : store'[S3][f] = store[S3][f]
        BY <2>3 DEF LocalFill, TypeInv, TypeOK, StoreTypeOK, Tier, Local, S3
      <3>2. UNCHANGED <<path, fbm, fid>> /\ pc' = [pc EXCEPT ![Promoter] = "p_meta"]
        BY <2>3 DEF Goto
      <3>3. "p_meta" \in PromoLabels
        BY DEF PromoLabels
      <3> QED  BY <1>2, <1>6, <2>1, <2>2, <3>1, <3>2, <3>3
    <2>4. CASE LocalClose(Promoter, path[Promoter]) /\ Return(Promoter, "idle")
      <3>1. UNCHANGED store /\ Return(Promoter, "idle")
        BY <2>4 DEF LocalClose
      <3>2. \A f \in Files : store'[S3][f] = store[S3][f]
        BY <3>1
      <3> QED  BY <1>4, <1>6, <2>2, <3>1, <3>2
    <2> QED  BY <1>11, <2>3, <2>4 DEF PromoteFill
  <1>12. CASE PromoteMeta
    <2>1. PICK f \in Files : f = path[Promoter]
      BY <1>12 DEF PromoteMeta, MoversTrue
    <2>2. UNCHANGED <<metaVars, storeVars>>
      BY <1>12 DEF PromoteMeta
    <2>3. CASE HasRow(f)
      <3>1. /\ fbm' = [fbm EXCEPT ![Promoter] = bitmask[f]] /\ fid' = [fid EXCEPT ![Promoter] = rowid[f]]
            /\ pc' = [pc EXCEPT ![Promoter] = "p_bits"] /\ UNCHANGED path
        BY <1>12, <2>1, <2>3 DEF PromoteMeta, Goto
      <3>2. path'[Promoter] = f /\ fbm'[Promoter] = bitmask[f] /\ fid'[Promoter] = rowid[f]
        BY <1>1, <2>1, <3>1, TasksDistinct
      <3>3. MoverTrue(Promoter)'
        BY <1>5, <2>2, <2>3, <3>2, MoverLoads
      <3>4. \A q \in Procs \ {Promoter} : path'[q] = path[q] /\ fid'[q] = fid[q] /\ fbm'[q] = fbm[q]
        BY <1>1, <3>1
      <3>5. "p_bits" \in PromoLabels
        BY DEF PromoLabels
      <3> QED  BY <1>2, <1>5, <2>2, <3>1, <3>3, <3>4, <3>5
    <2>4. CASE ~HasRow(f)
      <3>1. Return(Promoter, "idle")
        BY <1>12, <2>1, <2>4 DEF PromoteMeta
      <3> QED  BY <1>4, <1>5, <2>2, <3>1
    <2> QED  BY <2>3, <2>4
  <1>13. CASE PromoteBits
    <2>1. pc[Promoter] \in MoverLabels
      BY <1>13 DEF PromoteBits, MoverLabels
    <2>2. UNCHANGED <<rowid, sha, wal>>
      BY <1>13 DEF PromoteBits, SetTierBitmask
    <2>3. ServeEffect
      <3>1. PICK bm : bm = fbm[Promoter] \cup {Local}
        OBVIOUS
      <3>2. bm \in SUBSET Tier /\ (S3 \in fbm[Promoter] => S3 \in bm) /\ (Nas \in bm => Nas \in fbm[Promoter])
        BY <1>1, <3>1, TasksDistinct DEF Tier, Local, Nas, S3
      <3>3. SetTierBitmask(fid[Promoter], bm) /\ UNCHANGED storeVars
        BY <1>13, <3>1 DEF PromoteBits
      <3> QED  BY <1>3, <2>1, <2>2, <3>2, <3>3 DEF ServeEffect, storeVars, workVars, lapseVars
    <2> QED  BY <1>4, <1>13, <2>2, <2>3 DEF PromoteBits
  <1>14. CASE PromoteLost
    <2>1. Return(Promoter, "idle") /\ UNCHANGED <<metaVars, storeVars>>
      BY <1>14 DEF PromoteLost, DbFault
    <2> QED  BY <1>4, <1>5, <2>1
  <1> QED  BY <1>7, <1>8, <1>9, <1>10, <1>11, <1>12, <1>13, <1>14 DEF Promote, PromoteStep

\* A daemon that crashes starts again with nothing to replay.
LEMMA CrashServes ==
    ASSUME TypeInv, DaemonIdle, Crash
    PROVE  ServeEffect /\ PlacesOk' /\ MoversTrue'
  <1>1. UNCHANGED <<rowid, bitmask, sha, wal, store>> /\ todo' = {} /\ entry' = {} /\ pc' = Restarted
    BY DEF Crash, fileVars
  <1>2. ServeEffect
    BY <1>1 DEF ServeEffect, DaemonIdle
  <1>3. PlacesOk'
    BY <1>1, TasksDistinct DEF PlacesOk, Restarted
  <1>4. pc'[Promoter] = "idle" /\ pc'[Evictor] = "idle"
    BY <1>1, TasksDistinct DEF Restarted
  <1> QED  BY <1>2, <1>3, <1>4 DEF MoversTrue, MoverLabels

\* Every step of the daemon on a migrated store.
LEMMA ServeStep ==
    ASSUME ReadsOnly, TypeInv, DaemonIdle, RowsTrue, MoversTrue, Serve
    PROVE  ServeEffect /\ DaemonIdle' /\ MoversTrue'
  <1>1. UNCHANGED <<tree, edited, mpc>> /\ mpc = "off"
    BY DEF Serve, migrateVars
  <1>2. ASSUME ServeEffect, MoversStay PROVE MoversTrue'
    <2>1. UNCHANGED <<rowid, tree, edited>>
      BY <1>1, <1>2 DEF ServeEffect
    <2>2. ASSUME NEW p \in {Promoter, Evictor}, pc'[p] \in MoverLabels PROVE MoverTrue(p)'
      BY <1>2, <2>1, <2>2, MoverKept DEF MoversStay, MoversTrue
    <2> QED  BY <1>2, <2>2 DEF MoversStay, MoversTrue
  <1>3. ServeEffect /\ PlacesOk' /\ MoversTrue'
    <2>1. CASE \E c \in Clients : Request(c) \/ Handle(c) \/ Drop(c)
      BY <1>2, <2>1, ClientsServe
    <2>2. CASE Upload \/ Replay
      BY <1>2, <2>2, WorkersServe
    <2>3. CASE Evict
      BY <1>1, <2>3, EvictorServes
    <2>4. CASE Promote
      BY <1>1, <2>4, PromoterServes
    <2>5. CASE Crash
      BY <2>5, CrashServes
    <2> QED  BY <2>1, <2>2, <2>3, <2>4, <2>5 DEF Serve, Next
  <1> QED  BY <1>1, <1>3 DEF ServeEffect, PlacesOk, DaemonIdle

-----------------------------------------------------------------------------
(* The steps of the migration *)

\* No step of the migration or of another program is one of the daemon.
LEMMA MigratingIdle ==
    ASSUME DaemonIdle, Migrating \/ Rerun
    PROVE  DaemonIdle' /\ MoversTrue'
  <1>1. mpc # "off"
    BY DEF Migrating, MigrateStep, Crawl, HashFile, Dedup, ReadNext, PutItem, UpsertItem, MigrationEnds,
           Edit, Rerun
  <1>2. UNCHANGED <<pc, todo, entry>>
    BY DEF Migrating, Rerun, daemonVars, localVars, workVars, lapseVars
  <1>3. wal' = wal
    BY DEF Migrating, MigrateStep, Crawl, HashFile, Dedup, ReadNext, PutItem, UpsertItem, MigrationEnds,
           Edit, Rerun, Upsert, metaVars
  <1>4. pc' = Restarted /\ pc = Restarted
    BY <1>1, <1>2 DEF DaemonIdle
  <1>5. pc'[Promoter] = "idle" /\ pc'[Evictor] = "idle"
    BY <1>4, TasksDistinct DEF Restarted
  <1>6. MoversTrue'
    BY <1>5 DEF MoversTrue, MoverLabels
  <1> QED  BY <1>2, <1>3, <1>4, <1>6 DEF DaemonIdle

\* Only the put of the migration changes an S3 object.
LEMMA ObjectsKept ==
    ASSUME TypeInv, MigrateTypeInv, MigratedNext, ~PutItem, Serve => ServeEffect
    PROVE  \A f \in Files : store'[S3][f] = store[S3][f]
  <1>1. CASE Serve
    BY <1>1 DEF ServeEffect
  <1>2. CASE Edit
    <2>1. PICK t \in Source, n \in Volatile \ edited, c \in Data \cup {Absent} :
               store' = IF t \in rooted /\ n \in Files THEN [store EXCEPT ![t][n] = c] ELSE store
      BY <1>2 DEF Edit
    <2>2. t # S3 /\ S3 \in Tier
      BY DEF Source, Tier, Local, Nas, S3
    <2> QED  BY <2>1, <2>2 DEF TypeInv, TypeOK, StoreTypeOK
  <1>3. CASE ~Serve /\ ~Edit
    <2>1. UNCHANGED storeVars
      BY <1>3 DEF MigratedNext, Migrating, MigrateStep, Crawl, HashFile, Dedup, ReadNext, UpsertItem,
             MigrationEnds, Rerun
    <2> QED  BY <2>1 DEF storeVars
  <1> QED  BY <1>1, <1>2, <1>3

\* What the put of the migration leaves in S3.
LEMMA PutObjects ==
    ASSUME TypeInv, MigrateTypeInv, ItemCurrent, PutItem
    PROVE  \E x \in hashed :
             /\ item = {x}
             /\ \A f \in Files : f # VfsPath[x.name] => store'[S3][f] = store[S3][f]
             /\ store'[S3][VfsPath[x.name]] \in {store[S3][VfsPath[x.name]], mbuf}
             /\ mpc' = "upsert" => store'[S3][VfsPath[x.name]] = mbuf /\ UNCHANGED <<item, mbuf>>
             /\ mpc' \in {"next", "upsert"}
             /\ mpc' = "next" => report'.errors = report.errors + 1
             /\ mpc' = "upsert" => report'.errors = report.errors
  <1>1. PICK x \in hashed : item = {x}
    BY DEF PutItem, ItemCurrent
  <1>2. VfsPath[x.name] \in Files /\ S3 \in Tier
    BY NamesAssumption DEF MigrateTypeInv, MigrateTypeOK, Hashed, Tier
  <1>3. ASSUME StorePut(S3, VfsPath[x.name], mbuf)
        PROVE  /\ \A f \in Files : f # VfsPath[x.name] => store'[S3][f] = store[S3][f]
               /\ store'[S3][VfsPath[x.name]] = mbuf
    BY <1>2, <1>3 DEF StorePut, TypeInv, TypeOK, StoreTypeOK
  <1>4. ASSUME UNCHANGED storeVars
        PROVE  \A f \in Files : store'[S3][f] = store[S3][f]
    BY <1>4 DEF storeVars
  <1>5. \/ /\ StorePut(S3, VfsPath[x.name], mbuf)
           /\ mpc' = "upsert" /\ report' = [report EXCEPT !.uploaded = @ + 1]
           /\ UNCHANGED <<item, mbuf>>
        \/ /\ StorePut(S3, VfsPath[x.name], mbuf) \/ UNCHANGED storeVars
           /\ mpc' = "next" /\ report' = [report EXCEPT !.errors = @ + 1]
    BY <1>1 DEF PutItem
  <1>6. /\ report' = [report EXCEPT !.uploaded = @ + 1] => report'.errors = report.errors
        /\ report' = [report EXCEPT !.errors = @ + 1] => report'.errors = report.errors + 1
    BY DEF MigrateTypeInv, MigrateTypeOK
  <1>7. CASE mpc' = "upsert"
    <2>1. /\ StorePut(S3, VfsPath[x.name], mbuf) /\ UNCHANGED <<item, mbuf>>
          /\ report'.errors = report.errors
      BY <1>5, <1>6, <1>7
    <2> QED  BY <1>1, <1>3, <1>7, <2>1
  <1>8. CASE mpc' = "next"
    <2>1. /\ StorePut(S3, VfsPath[x.name], mbuf) \/ UNCHANGED storeVars
          /\ report'.errors = report.errors + 1
      BY <1>5, <1>6, <1>8
    <2> QED  BY <1>1, <1>2, <1>3, <1>4, <1>8, <2>1
  <1> QED  BY <1>5, <1>7, <1>8

\* hash_file and the edits of other programs.
LEMMA HashedStep ==
    ASSUME MigrateTypeInv, HashedCurrent, MigratedNext
    PROVE  HashedCurrent'
  <1>1. CASE HashFile
    <2>1. PICK x \in found : HashFile!2!(x)
      BY <1>1 DEF HashFile
    <2>2. UNCHANGED <<tree, edited>>
      BY <1>1 DEF HashFile
    <2>3. \/ hashed' = hashed
          \/ hashed' = hashed \cup {[tier |-> x[1], name |-> x[2], sha |-> tree[x[1]][x[2]]]}
      BY <2>1
    <2> QED  BY <2>2, <2>3 DEF HashedCurrent
  <1>2. CASE Edit
    <2>1. PICK t \in Source, n \in Volatile \ edited, c \in Data \cup {Absent} :
               edited' = edited \cup {n} /\ tree' = [tree EXCEPT ![t][n] = c]
      BY <1>2 DEF Edit
    <2>2. hashed' = hashed
      BY <1>2 DEF Edit, reportVars
    <2>3. ASSUME NEW x \in hashed, x.name \notin edited' PROVE tree'[x.tier][x.name] = x.sha
      <3>1. x.tier \in Source /\ x.name \in Names /\ x.name # n /\ x.name \notin edited
        BY <2>1, <2>3 DEF MigrateTypeInv, MigrateTypeOK, Hashed
      <3>2. tree'[x.tier][x.name] = tree[x.tier][x.name]
        BY <2>1, <3>1 DEF MigrateTypeInv, MigrateTypeOK
      <3> QED  BY <3>1, <3>2 DEF HashedCurrent
    <2> QED  BY <2>2, <2>3 DEF HashedCurrent
  <1>3. CASE Rerun
    BY <1>3 DEF Rerun, HashedCurrent
  <1>4. CASE ~HashFile /\ ~Edit /\ ~Rerun
    <2>1. UNCHANGED <<hashed, tree, edited>>
      BY <1>4 DEF MigratedNext, Migrating, MigrateStep, Crawl, Dedup, ReadNext, PutItem, UpsertItem,
             MigrationEnds, Serve, migrateVars, reportVars
    <2> QED  BY <2>1 DEF HashedCurrent
  <1> QED  BY <1>1, <1>2, <1>3, <1>4

\* The upload loop reads a file again, puts what it read and forgets it.
LEMMA ItemStep ==
    ASSUME TypeInv, MigrateTypeInv, HashedCurrent, ItemCurrent, MigratedNext, Serve => ServeEffect
    PROVE  ItemCurrent'
  <1>1. CASE ReadNext
    <2>1. PICK x \in uploads : ReadNext!2!(x)
      BY <1>1 DEF ReadNext
    <2>2. x \in hashed /\ x.tier \in Source /\ x.name \in Names
      BY DEF MigrateTypeInv, MigrateTypeOK, Hashed
    <2>3. tree[x.tier][x.name] \in Data \cup {Absent}
      BY <2>2 DEF MigrateTypeInv, MigrateTypeOK
    <2>4. UNCHANGED <<hashed, edited>> /\ mpc = "next"
      BY <1>1 DEF ReadNext
    <2>5. CASE mpc' = "put"
      <3>1. item' = {x} /\ mbuf' = tree[x.tier][x.name] /\ mbuf' \in Data
        BY <2>1, <2>3, <2>4, <2>5
      <3>2. x.name \notin edited => mbuf' = x.sha
        BY <2>2, <3>1 DEF HashedCurrent
      <3> QED  BY <2>2, <2>4, <2>5, <3>1, <3>2 DEF ItemCurrent
    <2>6. CASE mpc' # "put"
      <3>1. mpc' = "next"
        BY <2>1, <2>4, <2>6
      <3> QED  BY <3>1 DEF ItemCurrent
    <2> QED  BY <2>5, <2>6
  <1>2. CASE PutItem
    <2>1. PICK x \in hashed :
             /\ item = {x}
             /\ mpc' = "upsert" => store'[S3][VfsPath[x.name]] = mbuf /\ UNCHANGED <<item, mbuf>>
             /\ mpc' \in {"next", "upsert"}
      BY <1>2, PutObjects
    <2>2. UNCHANGED <<hashed, edited>> /\ mpc = "put"
      BY <1>2 DEF PutItem
    <2>3. CASE mpc' = "upsert"
      BY <2>1, <2>2, <2>3 DEF ItemCurrent
    <2>4. CASE mpc' = "next"
      BY <2>4 DEF ItemCurrent
    <2> QED  BY <2>1, <2>3, <2>4
  <1>3. CASE Edit
    <2>1. UNCHANGED <<hashed, mpc, item, mbuf>> /\ edited \subseteq edited'
      BY <1>3 DEF Edit, reportVars
    <2>2. \A f \in Files : store'[S3][f] = store[S3][f]
      <3>1. ~PutItem
        BY <1>3 DEF Edit, PutItem
      <3> QED  BY <3>1, ObjectsKept
    <2>3. \A x \in item : VfsPath[x.name] \in Files
      BY NamesAssumption DEF MigrateTypeInv, MigrateTypeOK, Hashed
    <2> QED  BY <2>1, <2>2, <2>3 DEF ItemCurrent
  <1>4. CASE ~ReadNext /\ ~PutItem /\ ~Edit
    <2>1. mpc' \notin {"put", "upsert"}
      <3>1. CASE \E t \in Source : Crawl(t)
        BY <3>1 DEF Crawl
      <3>2. CASE HashFile \/ Dedup \/ UpsertItem \/ MigrationEnds \/ Rerun
        BY <3>2 DEF HashFile, Dedup, UpsertItem, MigrationEnds, Rerun
      <3>3. CASE Serve
        BY <3>3 DEF Serve, migrateVars
      <3> QED  BY <1>4, <3>1, <3>2, <3>3 DEF MigratedNext, Migrating, MigrateStep
    <2> QED  BY <2>1 DEF ItemCurrent
  <1> QED  BY <1>1, <1>2, <1>3, <1>4

\* What is put to S3 is a content of the path's sources.
LEMMA ObjectsStep ==
    ASSUME TypeInv, MigrateTypeInv, SourceInv, MigratedNext, Serve => ServeEffect
    PROVE  ObjectsOfSources'
  <1>1. SUFFICES ASSUME NEW f \in Files, Unambiguous(f)'
                 PROVE  store'[S3][f] \in SourceContents(f)' \cup {Absent}
    BY DEF ObjectsOfSources
  <1>2. SourceContents(f)' = SourceContents(f) /\ Unambiguous(f)
    BY <1>1, SourcesKept DEF MigrateTypeInv
  <1>3. store[S3][f] \in SourceContents(f) \cup {Absent}
    BY <1>2 DEF SourceInv, ObjectsOfSources
  <1>4. CASE ~PutItem
    BY <1>2, <1>3, <1>4, ObjectsKept
  <1>5. CASE PutItem
    <2>1. PICK x \in hashed :
             /\ item = {x}
             /\ f # VfsPath[x.name] => store'[S3][f] = store[S3][f]
             /\ store'[S3][VfsPath[x.name]] \in {store[S3][VfsPath[x.name]], mbuf}
      BY <1>5, PutObjects DEF SourceInv
    <2>2. CASE f = VfsPath[x.name]
      <3>1. x.name \notin edited
        BY <1>2, <2>2 DEF Unambiguous
      <3>2. mbuf = x.sha
        BY <1>5, <2>1, <3>1 DEF PutItem, SourceInv, ItemCurrent
      <3>3. x.sha \in SourceContents(f)
        BY <2>2, <3>1, HashedIsSource DEF SourceInv, MigrateTypeInv
      <3> QED  BY <1>2, <1>3, <2>1, <2>2, <3>2, <3>3
    <2> QED  BY <1>2, <1>3, <2>1, <2>2
  <1> QED  BY <1>4, <1>5

\* A new put of a path that has a row stores what the row already says.
LEMMA RowsStep ==
    ASSUME TypeInv, WalIntegrity, MigrateTypeInv, SourceInv, RowsTrue, MoversTrue, MigratedNext,
           Serve => ServeEffect
    PROVE  RowsTrue'
  <1>1. SUFFICES ASSUME NEW f \in Files, HasRow(f)'
                 PROVE  /\ S3 \in bitmask'[f]
                        /\ Unambiguous(f)' => sha'[f] \in SourceContents(f)' /\ store'[S3][f] = sha'[f]
                        /\ OnlyLocal(f)' => Nas \notin bitmask'[f]
    BY DEF RowsTrue
  <1>2. f \in Paths /\ rowid \in [Paths -> Nat] /\ bitmask \in [Paths -> SUBSET Tier]
        /\ sha \in [Paths -> Data \cup {Absent}]
    BY DEF TypeInv, TypeOK, MetadataTypeOK, Paths
  <1>3. Unambiguous(f)' => SourceContents(f)' = SourceContents(f) /\ Unambiguous(f)
    BY SourcesKept DEF MigrateTypeInv
  <1>4. OnlyLocal(f)' => OnlyLocal(f)
    BY SourcesKept DEF MigrateTypeInv, OnlyLocal
  <1>5. CASE UpsertItem
    <2>1. PICK x \in item : Upsert(VfsPath[x.name], MigratedBits(x.tier), x.sha) \/ UNCHANGED metaVars
      BY <1>5 DEF UpsertItem
    <2>2. x \in hashed /\ store' = store
      BY <1>5 DEF UpsertItem, storeVars, MigrateTypeInv, MigrateTypeOK
    <2>3. CASE UNCHANGED metaVars \/ VfsPath[x.name] # f
      <3>1. rowid'[f] = rowid[f] /\ bitmask'[f] = bitmask[f] /\ sha'[f] = sha[f]
        BY <1>2, <2>1, <2>3 DEF Upsert, metaVars
      <3>2. HasRow(f)
        BY <1>1, <3>1 DEF HasRow
      <3> QED  BY <1>3, <1>4, <2>2, <3>1, <3>2 DEF RowsTrue
    <2>4. CASE Upsert(VfsPath[x.name], MigratedBits(x.tier), x.sha) /\ VfsPath[x.name] = f
      <3>1. bitmask'[f] = {x.tier, S3} /\ sha'[f] = x.sha
        BY <1>2, <2>4 DEF Upsert, MigratedBits
      <3>2. ASSUME Unambiguous(f)'
            PROVE  sha'[f] \in SourceContents(f)' /\ store'[S3][f] = sha'[f]
        <4>1. x.name \notin edited
          BY <1>3, <2>4, <3>2 DEF Unambiguous
        <4>2. store[S3][f] = x.sha
          BY <1>5, <2>4, <4>1 DEF UpsertItem, SourceInv, ItemCurrent
        <4>3. x.sha \in SourceContents(f)
          BY <2>2, <2>4, <4>1, HashedIsSource DEF SourceInv, MigrateTypeInv
        <4> QED  BY <1>3, <2>2, <3>1, <3>2, <4>2, <4>3
      <3>3. ASSUME OnlyLocal(f)' PROVE Nas \notin bitmask'[f]
        <4>1. x.name \notin edited
          BY <1>4, <2>4, <3>3 DEF Unambiguous, OnlyLocal
        <4>2. <<x.tier, x.name>> \in SourcesOf(f)
          BY <2>2, <2>4, <4>1, HashedIsSource DEF SourceInv, MigrateTypeInv
        <4>3. x.tier = Local
          BY <1>4, <3>3, <4>2 DEF OnlyLocal
        <4> QED  BY <3>1, <4>3 DEF Local, Nas, S3
      <3> QED  BY <3>1, <3>2, <3>3
    <2> QED  BY <2>1, <2>3, <2>4
  <1>6. CASE PutItem
    <2>1. UNCHANGED <<rowid, bitmask, sha>>
      BY <1>6 DEF PutItem, metaVars
    <2>2. HasRow(f)
      BY <1>1, <2>1 DEF HasRow
    <2>3. ASSUME Unambiguous(f)
          PROVE  sha[f] \in SourceContents(f) /\ store'[S3][f] = sha[f]
      <3>1. sha[f] \in SourceContents(f) /\ store[S3][f] = sha[f]
        BY <2>2, <2>3 DEF RowsTrue
      <3>2. PICK x \in hashed :
               /\ item = {x}
               /\ f # VfsPath[x.name] => store'[S3][f] = store[S3][f]
               /\ store'[S3][VfsPath[x.name]] \in {store[S3][VfsPath[x.name]], mbuf}
        BY <1>6, PutObjects DEF SourceInv
      <3>3. CASE f = VfsPath[x.name]
        <4>1. x.name \notin edited
          BY <2>3, <3>3 DEF Unambiguous
        <4>2. mbuf = x.sha
          BY <1>6, <3>2, <4>1 DEF PutItem, SourceInv, ItemCurrent
        <4>3. x.sha \in SourceContents(f)
          BY <3>3, <4>1, HashedIsSource DEF SourceInv, MigrateTypeInv
        <4>4. x.sha = sha[f]
          BY <2>3, <3>1, <4>3 DEF Unambiguous
        <4> QED  BY <3>1, <3>2, <3>3, <4>2, <4>4
      <3> QED  BY <3>1, <3>2, <3>3
    <2> QED  BY <1>3, <1>4, <2>1, <2>2, <2>3 DEF RowsTrue
  <1>7. CASE Serve
    <2>1. ServeEffect /\ rowid' = rowid /\ sha' = sha /\ store'[S3][f] = store[S3][f]
      BY <1>7 DEF ServeEffect
    <2>2. HasRow(f)
      BY <1>1, <2>1 DEF HasRow
    <2>3. S3 \in bitmask'[f] /\ (OnlyLocal(f) => Nas \notin bitmask'[f])
      <3>1. CASE bitmask' = bitmask
        BY <2>2, <3>1 DEF RowsTrue
      <3>2. CASE bitmask' # bitmask
        <4>1. PICK p \in {Promoter, Evictor}, bm \in SUBSET Tier :
                 /\ pc[p] \in MoverLabels
                 /\ SetTierBitmask(fid[p], bm)
                 /\ S3 \in fbm[p] => S3 \in bm
                 /\ Nas \in bm => Nas \in fbm[p]
          BY <2>1, <3>2 DEF ServeEffect
        <4>2. MoverTrue(p)
          BY <4>1 DEF MoversTrue
        <4>3. CASE path[p] = f
          <5>1. f \in PathsOf(fid[p])
            BY <1>2, <2>2, <4>2, <4>3 DEF MoverTrue, PathsOf
          <5>2. bitmask'[f] = bm
            BY <1>2, <4>1, <5>1 DEF SetTierBitmask
          <5> QED  BY <4>1, <4>2, <4>3, <5>2 DEF MoverTrue
        <4>4. CASE path[p] # f
          <5>1. f \notin PathsOf(fid[p])
            BY <1>2, <2>2, <4>2, <4>4 DEF MoverTrue, PathsOf, WalIntegrity, RowIdsUnique, Paths
          <5>2. bitmask'[f] = bitmask[f]
            BY <1>2, <4>1, <5>1 DEF SetTierBitmask
          <5> QED  BY <2>2, <5>2 DEF RowsTrue
        <4> QED  BY <4>3, <4>4
      <3> QED  BY <3>1, <3>2
    <2> QED  BY <1>3, <1>4, <2>1, <2>2, <2>3 DEF RowsTrue
  <1>8. CASE ~UpsertItem /\ ~PutItem /\ ~Serve
    <2>1. UNCHANGED <<rowid, bitmask, sha>>
      BY <1>8 DEF MigratedNext, Migrating, MigrateStep, Crawl, HashFile, Dedup, ReadNext, MigrationEnds,
             Edit, Rerun, metaVars, fileVars
    <2>2. store'[S3][f] = store[S3][f]
      BY <1>8, ObjectsKept
    <2>3. HasRow(f)
      BY <1>1, <2>1 DEF HasRow
    <2> QED  BY <1>3, <1>4, <2>1, <2>2, <2>3 DEF RowsTrue
  <1> QED  BY <1>5, <1>6, <1>7, <1>8

\* No content gets lost between the hashing and the last put.
LEMMA AccountStep ==
    ASSUME TypeInv, MigrateTypeInv, SourceInv, UploadsAccounted, MigratedNext, Serve => ServeEffect
    PROVE  UploadsAccounted'
  <1>1. SUFFICES ASSUME mpc' \in {"next", "put", "upsert", "off"}, report'.errors = 0,
                        \A f \in Files : Unambiguous(f)',
                        NEW x \in hashed'
                 PROVE  \/ \E y \in uploads' : y.sha = x.sha
                        \/ mpc' = "put" /\ \E y \in item' : y.sha = x.sha
                        \/ \E f \in Files : store'[S3][f] = x.sha
    BY DEF UploadsAccounted
  <1>2. \A f \in Files : Unambiguous(f)
    BY <1>1, SourcesKept DEF MigrateTypeInv
  <1>3. report.errors \in Nat
    BY DEF MigrateTypeInv, MigrateTypeOK
  <1>4. ASSUME x \in hashed, mpc \in {"next", "put", "upsert", "off"}, report.errors = 0
        PROVE  \/ \E y \in uploads : y.sha = x.sha
               \/ mpc = "put" /\ \E y \in item : y.sha = x.sha
               \/ \E f \in Files : store[S3][f] = x.sha
    BY <1>2, <1>4 DEF UploadsAccounted
  <1>5. CASE Dedup
    <2>1. PICK S \in SUBSET hashed : OneFilePerHash(S) /\ uploads' = S
      BY <1>5 DEF Dedup
    <2>2. x \in hashed
      BY <1>1, <1>5 DEF Dedup
    <2> QED  BY <2>1, <2>2 DEF OneFilePerHash
  <1>6. CASE ReadNext
    <2>1. PICK z \in uploads : ReadNext!2!(z)
      BY <1>6 DEF ReadNext
    <2>2. mpc = "next" /\ hashed' = hashed /\ UNCHANGED store
      BY <1>6 DEF ReadNext, storeVars
    <2>3. report' = [report EXCEPT !.errors = @ + 1] => report'.errors = report.errors + 1
      BY DEF MigrateTypeInv, MigrateTypeOK
    <2>4. mpc' = "put" /\ item' = {z} /\ uploads' = uploads \ {z} /\ report' = report
      BY <1>1, <1>3, <2>1, <2>3
    <2>5. CASE \E y \in uploads : y.sha = x.sha
      BY <2>4, <2>5
    <2>6. CASE \E f \in Files : store[S3][f] = x.sha
      BY <2>2, <2>6
    <2> QED  BY <1>1, <1>4, <2>2, <2>4, <2>5, <2>6
  <1>7. CASE PutItem
    <2>1. PICK z \in hashed :
             /\ item = {z}
             /\ \A f \in Files : f # VfsPath[z.name] => store'[S3][f] = store[S3][f]
             /\ mpc' = "upsert" => store'[S3][VfsPath[z.name]] = mbuf /\ UNCHANGED <<item, mbuf>>
             /\ mpc' \in {"next", "upsert"}
             /\ mpc' = "next" => report'.errors = report.errors + 1
             /\ mpc' = "upsert" => report'.errors = report.errors
      BY <1>7, PutObjects DEF SourceInv
    <2>2. mpc' = "upsert" /\ report.errors = 0
      BY <1>1, <1>3, <2>1
    <2>3. mpc = "put" /\ UNCHANGED <<hashed, uploads>>
      BY <1>7 DEF PutItem
    <2>4. z.name \in Names /\ VfsPath[z.name] \in Files
      BY NamesAssumption DEF MigrateTypeInv, MigrateTypeOK, Hashed
    <2>5. z.name \notin edited
      BY <1>2, <2>4 DEF Unambiguous
    <2>6. store'[S3][VfsPath[z.name]] = z.sha /\ z.sha \in SourceContents(VfsPath[z.name])
      BY <2>1, <2>2, <2>3, <2>5, HashedIsSource DEF SourceInv, ItemCurrent, MigrateTypeInv
    <2>7. CASE \E f \in Files : store[S3][f] = x.sha
      <3>1. PICK f \in Files : store[S3][f] = x.sha
        BY <2>7
      <3>2. CASE f = VfsPath[z.name]
        <4>1. x.sha \in Data
          BY <1>1, <2>3 DEF MigrateTypeInv, MigrateTypeOK, Hashed
        <4>2. x.sha \in SourceContents(f)
          BY <1>2, <3>1, <4>1, DataAssumption DEF SourceInv, ObjectsOfSources
        <4>3. x.sha = z.sha
          BY <1>2, <2>6, <3>2, <4>2 DEF Unambiguous
        <4> QED  BY <2>4, <2>6, <4>3
      <3> QED  BY <2>1, <3>1, <3>2
    <2> QED  BY <1>1, <1>4, <2>1, <2>2, <2>3, <2>4, <2>6, <2>7
  <1>8. CASE UpsertItem \/ MigrationEnds \/ Edit \/ Serve
    <2>1. UNCHANGED <<hashed, uploads, report>>
      BY <1>8 DEF UpsertItem, MigrationEnds, Edit, Serve, migrateVars, reportVars
    <2>2. mpc \in {"next", "put", "upsert", "off"} /\ (mpc = "put" => mpc' = "put" /\ item' = item)
      BY <1>1, <1>8 DEF UpsertItem, MigrationEnds, Edit, Serve, migrateVars
    <2>3. \A f \in Files : store'[S3][f] = store[S3][f]
      <3>1. ~PutItem
        BY <1>8 DEF UpsertItem, MigrationEnds, Edit, Serve, migrateVars, PutItem
      <3> QED  BY <3>1, ObjectsKept
    <2> QED  BY <1>1, <1>4, <2>1, <2>2, <2>3
  <1>9. ~(HashFile \/ Rerun \/ \E t \in Source : Crawl(t))
    BY <1>1 DEF HashFile, Rerun, Crawl
  <1> QED  BY <1>5, <1>6, <1>7, <1>8, <1>9 DEF MigratedNext, Migrating, MigrateStep

LEMMA TriedStep ==
    ASSUME AllTried, MigratedNext
    PROVE  AllTried'
  <1>1. CASE MigrationEnds \/ Serve
    BY <1>1 DEF MigrationEnds, Serve, migrateVars, reportVars, AllTried
  <1>2. CASE ~MigrationEnds /\ ~Serve
    <2>1. mpc' # "off"
      <3>1. CASE (\E t \in Source : Crawl(t)) \/ HashFile \/ Dedup \/ UpsertItem \/ Edit \/ Rerun
        BY <3>1 DEF Crawl, HashFile, Dedup, UpsertItem, Edit, Rerun
      <3>2. CASE ReadNext \/ PutItem
        BY <3>2 DEF ReadNext, PutItem
      <3> QED  BY <1>2, <3>1, <3>2 DEF MigratedNext, Migrating, MigrateStep
    <2> QED  BY <2>1 DEF AllTried
  <1> QED  BY <1>1, <1>2

-----------------------------------------------------------------------------
(* Theorems *)

LEMMA MigratedInitInv == MigratedInit => MigratedInv
  <1> SUFFICES ASSUME MigratedInit PROVE MigratedInv
    OBVIOUS
  <1>1. tree \in [Source -> [Names -> Data \cup {Absent}]] /\ rooted \subseteq Source
    BY TreesAssumption DEF MigratedInit
  <1>2. MigrateTypeInv
    BY <1>1, FS_EmptySet DEF MigratedInit, MigrationBegins, NoReport, MigrateTypeInv, MigrateTypeOK
  <1>3. TypeInv
    <2>1. store \in [Tier -> [Files -> Content]]
      <3>1. \A t \in rooted, f \in Files : tree[t][f] \in Content
        BY <1>1, NamesAssumption DEF Content
      <3>2. Absent \in Content
        BY DEF Content
      <3> QED  BY <3>1, <3>2 DEF MigratedInit
    <2>2. MetadataTypeOK /\ StoreTypeOK /\ WorkTypeOK /\ EvictTypeOK /\ crashes \in Nat
      BY <2>1 DEF MigratedInit, MetadataInit, WorkInit, EvictInit, MetadataTypeOK, StoreTypeOK,
             WorkTypeOK, EvictTypeOK
    <2>3. ProcTypeOK
      BY DEF MigratedInit, RouterInit, ProcInit, Restarted, ProcTypeOK, Labels, ReplayLabels, Paths, Content
    <2>4. BoundTypeOK
      BY DEF MigratedInit, RouterInit, ProcInit, BoundTypeOK
    <2>5. PathInv
      BY ClientsAreProcs DEF MigratedInit, RouterInit, ProcInit, Restarted, PathInv, ClientLabels
    <2> QED  BY <2>2, <2>3, <2>4, <2>5 DEF TypeInv, TypeOK, RouterTypeOK
  <1>4. WalIntegrity
    BY DEF MigratedInit, MetadataInit, WalIntegrity, RowIdsUnique, WalIdsUnique, WalRefsFiles, HasRow
  <1>5. DaemonIdle /\ MoversTrue
    <2>1. pc = Restarted /\ wal = {} /\ todo = {} /\ entry = {}
      BY DEF MigratedInit, MetadataInit, RouterInit, ProcInit, WorkInit
    <2>2. /\ pc[Uploader] = "idle" /\ pc[Promoter] = "idle" /\ pc[Evictor] = "idle"
          /\ pc[Replayer] = "y_load" /\ \A c \in Clients : pc[c] = "idle"
      BY <2>1, TasksDistinct DEF Restarted
    <2> QED  BY <2>1, <2>2 DEF DaemonIdle, MoversTrue, MoverLabels
  <1>6. mpc = "crawl" /\ hashed = {} /\ \A f \in Files : ~HasRow(f) /\ store[S3][f] = Absent
    <2>1. S3 \notin rooted /\ S3 \in Tier
      BY <1>1 DEF Source, Tier, Local, Nas, S3
    <2> QED  BY <2>1 DEF MigratedInit, MigrationBegins, MetadataInit, HasRow, Paths
  <1>7. SourceInv /\ RowsTrue /\ UploadsAccounted /\ AllTried
    BY <1>6 DEF SourceInv, HashedCurrent, ItemCurrent, ObjectsOfSources, RowsTrue, UploadsAccounted, AllTried
  <1> QED  BY <1>2, <1>3, <1>4, <1>5, <1>7 DEF MigratedInv

\* A step that changes nothing.
LEMMA MigratedStutter ==
    ASSUME MigratedInv, UNCHANGED migratedVars
    PROVE  MigratedInv'
  <1>1. UNCHANGED vars /\ UNCHANGED migrateVars
    BY DEF migratedVars
  <1>2. TypeInv' /\ WalIntegrity'
    BY <1>1, TypeStep, StepsCallMethods, MethodsKeepIntegrity DEF MigratedInv, TypeInv, TypeOK
  <1>3. /\ UNCHANGED <<rowid, bitmask, sha, wal, store, pc, path, fid, fbm, todo, entry>>
        /\ UNCHANGED <<tree, rooted, mpc, crawl, found, hashed, uploads, item, mbuf, report, edited>>
    BY <1>1 DEF vars, metaVars, storeVars, routerVars, localVars, workVars, lapseVars, migrateVars
  <1>4. MigrateTypeInv' /\ DaemonIdle' /\ HashedCurrent' /\ ItemCurrent' /\ AllTried'
    BY <1>3 DEF MigratedInv, SourceInv, MigrateTypeInv, MigrateTypeOK, DaemonIdle, HashedCurrent, ItemCurrent,
           AllTried
  <1>5. \A f \in Files : /\ SourceContents(f)' = SourceContents(f)
                         /\ Unambiguous(f)' <=> Unambiguous(f)
                         /\ OnlyLocal(f)' <=> OnlyLocal(f)
    BY <1>3, SourcesSame
  <1>6. ObjectsOfSources' /\ RowsTrue'
    BY <1>3, <1>5 DEF MigratedInv, SourceInv, ObjectsOfSources, RowsTrue, HasRow
  <1>7. MoversTrue'
    <2>1. ASSUME NEW p \in {Promoter, Evictor}, pc'[p] \in MoverLabels PROVE MoverTrue(p)'
      BY <1>3, <2>1, MoverKept DEF MigratedInv, MoversTrue
    <2> QED  BY <1>3, <2>1 DEF MigratedInv, MoversTrue
  <1>8. UploadsAccounted'
    BY <1>3, <1>5 DEF MigratedInv, UploadsAccounted
  <1> QED  BY <1>2, <1>4, <1>6, <1>7, <1>8 DEF MigratedInv, SourceInv

LEMMA MigratedStep ==
    ASSUME ReadsOnly, MigratedInv, [MigratedNext]_migratedVars
    PROVE  MigratedInv'
  <1>1. CASE UNCHANGED migratedVars
    BY <1>1, MigratedStutter
  <1>2. CASE MigratedNext
    <2>1. Serve => ServeEffect /\ DaemonIdle' /\ MoversTrue'
      BY ServeStep DEF MigratedInv
    <2>2. DaemonIdle' /\ MoversTrue'
      BY <1>2, <2>1, MigratingIdle DEF MigratedInv, MigratedNext
    <2>3. TypeInv' /\ WalIntegrity' /\ MigrateTypeInv'
      BY <1>2, DaemonTypeStep, MigratedIntegrity, MigrateTypeStep DEF MigratedInv, SourceInv
    <2>4. SourceInv'
      BY <1>2, <2>1, HashedStep, ItemStep, ObjectsStep DEF MigratedInv, SourceInv
    <2>5. RowsTrue' /\ UploadsAccounted' /\ AllTried'
      BY <1>2, <2>1, RowsStep, AccountStep, TriedStep DEF MigratedInv
    <2> QED  BY <2>2, <2>3, <2>4, <2>5 DEF MigratedInv
  <1> QED  BY <1>1, <1>2

LEMMA MigratedInvHolds ==
    ASSUME ReadsOnly
    PROVE  MigratedSpec => []MigratedInv
  <1>1. MigratedInv /\ [MigratedNext]_migratedVars => MigratedInv'
    BY MigratedStep
  <1> QED  BY <1>1, MigratedInitInv, PTL DEF MigratedSpec

\* run_migration: every variable of a migration keeps its type, through
\* failures, kills, reruns, edits and any workload of the daemon afterwards.
THEOREM MigrateTypeCorrect == MigratedSpec => []MigrateTypeOK
  <1>1. MigratedInit => MigrateTypeInv
    BY MigratedInitInv DEF MigratedInv
  <1>2. MigrateTypeInv /\ [MigratedNext]_migratedVars => MigrateTypeInv'
    <2>1. ASSUME MigrateTypeInv, UNCHANGED migratedVars PROVE MigrateTypeInv'
      BY <2>1 DEF migratedVars, migrateVars, MigrateTypeInv, MigrateTypeOK
    <2> QED  BY <2>1, MigrateTypeStep
  <1>3. MigrateTypeInv => MigrateTypeOK
    BY DEF MigrateTypeInv
  <1> QED  BY <1>1, <1>2, <1>3, PTL DEF MigratedSpec

\* migrate.rs sets the S3 bit without a WAL entry: it is true for every path
\* whose sources agree and were left alone, after any failed put, kill and
\* rerun, and however the daemon then evicts and promotes.
THEOREM MigratedBitStaysTruthful ==
    ASSUME ReadsOnly
    PROVE  MigratedSpec => []MigratedS3Truthful
  <1>1. MigratedInv => MigratedS3Truthful
    BY DEF MigratedInv, RowsTrue, MigratedS3Truthful
  <1> QED  BY <1>1, MigratedInvHolds, PTL

\* "Migrate existing data ... into the FVFS" (main.rs): the row of such a path
\* has the hash of its source file, and that content can be recovered.
THEOREM MigratedStaysRecoverable ==
    ASSUME ReadsOnly
    PROVE  MigratedSpec => []MigratedRecoverable
  <1>1. MigratedInv => MigratedRecoverable
    BY DEF MigratedInv, RowsTrue, MigratedRecoverable, Recoverable, Tier
  <1> QED  BY <1>1, MigratedInvHolds, PTL

\* router.rs read: such a path whose sources are local files can be read
\* whenever the daemon serves.  The run MigratedNas shows that one found on
\* the NAS cannot.
THEOREM MigratedStaysReadable ==
    ASSUME ReadsOnly
    PROVE  MigratedSpec => []MigratedReadable
  <1>1. ASSUME MigratedInv, NEW f \in Files, HasRow(f), OnlyLocal(f) PROVE Served(f) # Absent
    <2>1. S3 \in bitmask[f] /\ Nas \notin bitmask[f] /\ sha[f] \in SourceContents(f) /\ store[S3][f] = sha[f]
      BY <1>1 DEF MigratedInv, RowsTrue, OnlyLocal
    <2>2. store[S3][f] # Absent
      BY <2>1 DEF SourceContents, SourcesOf
    <2>3. bitmask[f] \cap {Nas, S3} # {} /\ ColdTier(bitmask[f]) = S3
      BY <2>1 DEF ColdTier
    <2> QED  BY <2>2, <2>3 DEF Served, Holds
  <1>2. MigratedInv => MigratedReadable
    BY <1>1 DEF MigratedReadable, OnlyLocal
  <1> QED  BY <1>2, MigratedInvHolds, PTL

\* "uploads unique content to S3" (migrate.rs): when the report counts no
\* error, S3 holds every content that was hashed, although only one file per
\* hash is put and a later file of the same path replaces an object.
THEOREM NoErrorsMeansUploaded ==
    ASSUME ReadsOnly
    PROVE  MigratedSpec => []NoErrorsAllUploaded
  <1>1. MigratedInv => NoErrorsAllUploaded
    BY DEF MigratedInv, UploadsAccounted, AllTried, NoErrorsAllUploaded
  <1> QED  BY <1>1, MigratedInvHolds, PTL
=============================================================================
