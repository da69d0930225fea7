--------------------------- MODULE MigratedFvfsd ---------------------------
(***************************************************************************)
(* A migration into an empty FVFS, run again when it is killed, and then   *)
(* the daemon on what it left (run_migrate and run_serve of                *)
(* fvfsd/src/main.rs).                                                     *)
(***************************************************************************)
EXTENDS Fvfsd, Migrate

CONSTANTS
    Trees,      \* what the source directories may hold at first
    Roots,      \* the choices of source directories
    MaxEvents   \* bound: requests of clients, faults, reruns and edits, together

ASSUME TreesAssumption ==
    /\ Trees \subseteq [Source -> [Names -> Data \cup {Absent}]]
    /\ Roots \subseteq SUBSET Source
    /\ MaxEvents \in Nat

VARIABLE reads  \* history: requests of clients

daemonVars == <<localVars, promotions, acked, writes, deletes, workVars, evictVars>>

migratedVars == <<vars, migrateVars, reads>>

\* The backends of the crawled tiers hold the files crawled.
MigratedInit ==
    /\ tree \in Trees
    /\ rooted \in Roots
    /\ store = [t \in Tier |-> [f \in Files |-> IF t \in rooted THEN tree[t][f] ELSE Absent]]
    /\ openers = [f \in Files |-> {}]
    /\ mixing = {}
    /\ MetadataInit /\ RouterInit /\ WorkInit /\ EvictInit
    /\ crashes = 0
    /\ MigrationBegins
    /\ edited = {} /\ reads = 0

Bounded == reads' + faults' + crashes' + Cardinality(edited') <= MaxEvents

Migrating == (MigrateStep \/ Edit) /\ UNCHANGED <<daemonVars, crashes, reads>> /\ Bounded

\* The migration is killed and started again from nothing, on a new connection.
Rerun ==
    /\ mpc # "off"
    /\ crashes < MaxCrashes
    /\ crashes' = crashes + 1
    /\ mpc' = "crawl"
    /\ crawl' = Source
    /\ found' = {} /\ hashed' = {} /\ uploads' = {} /\ item' = {}
    /\ mbuf' = Absent
    /\ report' = NoReport
    /\ lastRowid' = 0
    /\ UNCHANGED <<daemonVars, fileVars, wal, storeVars, faults, tree, rooted, edited, reads>>
    /\ Bounded

\* The daemon, once the migration is over.
Serve ==
    /\ mpc = "off"
    /\ Next
    /\ reads' = reads + Cardinality({c \in Clients : pc[c] = "idle" /\ pc'[c] # "idle"})
    /\ UNCHANGED migrateVars
    /\ Bounded

MigratedNext == Migrating \/ Rerun \/ Serve

MigratedSpec == MigratedInit /\ [][MigratedNext]_migratedVars

-----------------------------------------------------------------------------
(* Properties *)

\* The files that have this FVFS path.
SourcesOf(f) == {x \in Source \X Names : VfsPath[x[2]] = f /\ tree[x[1]][x[2]] # Absent}

\* The contents they have.
SourceContents(f) == {tree[x[1]][x[2]] : x \in SourcesOf(f)}

\* No other program has changed the files of this path, and they agree.
Unambiguous(f) ==
    /\ \A n \in edited : VfsPath[n] # f
    /\ \A c, d \in SourceContents(f) : c = d

(***************************************************************************)
(* Through failed and repeated puts, ignored database errors, kills and    *)
(* reruns, and then eviction, promotion and crashes of the daemon: a path  *)
(* that has a row has the hash of its source file, and some tier holds     *)
(* that content ("Migrate existing data ... into the FVFS", main.rs).  It  *)
(* is asked of paths whose source files agree and are left alone.          *)
(***************************************************************************)
MigratedRecoverable ==
    \A f \in Files : HasRow(f) /\ Unambiguous(f) =>
        sha[f] \in SourceContents(f) /\ Recoverable(f)

(***************************************************************************)
(* The S3 bit that migrate.rs sets without a WAL entry is true: eviction   *)
(* relies on it from the first cycle after the migration.                  *)
(***************************************************************************)
MigratedS3Truthful ==
    \A f \in Files : HasRow(f) /\ Unambiguous(f) /\ S3 \in bitmask[f] => store[S3][f] = sha[f]

(***************************************************************************)
(* A path whose only source is a local file of its own name can be read    *)
(* whenever the daemon serves, also when the file was never in the local   *)
(* tier's directory and only the S3 object exists (router.rs, read).       *)
(***************************************************************************)
MigratedReadable ==
    \A f \in Files :
        /\ Serving /\ HasRow(f) /\ ~BeingEvicted(f)
        /\ Unambiguous(f) /\ \A x \in SourcesOf(f) : x[1] = Local
        => Served(f) # Absent

(***************************************************************************)
(* README "If local and NAS copies are lost, the file is recoverable from  *)
(* S3": a daemon that starts on a migrated store can read every file that  *)
(* has a row.  It cannot: migrate sets the NAS bit for what it found below *)
(* --nas-src, and a read that the bitmask sends to the NAS ends there.     *)
(***************************************************************************)
ServesMigrated == Serving => Readable

(***************************************************************************)
(* "uploads unique content to S3" (migrate.rs): when a migration reports   *)
(* no errors, S3 holds every content that was hashed, for good.  It is     *)
(* asked when every path is unambiguous: a second file of a path replaces  *)
(* the object of the first, which may be the only one kept for its hash.   *)
(***************************************************************************)
NoErrorsAllUploaded ==
    mpc = "off" /\ report.errors = 0 /\ (\A f \in Files : Unambiguous(f)) =>
        \A x \in hashed : \E f \in Files : store[S3][f] = x.sha
=============================================================================
