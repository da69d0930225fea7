------------------------------ MODULE FvfsTypes ------------------------------
(***************************************************************************)
(* Types shared by the daemon's components (fvfs-core/src/types.rs): the   *)
(* storage tiers, the tier bitmask of a file as a set of tiers, the        *)
(* operations of the write-ahead log, and what a backend can hold at a     *)
(* path.  A file's bytes are one value of Data, which also stands for the  *)
(* SHA-256 recorded for them.                                              *)
(***************************************************************************)
EXTENDS Integers, Sequences, FiniteSets

CONSTANTS
    Files,      \* file paths
    Root,       \* the directory "/", parent of every modelled file
    Data,       \* complete file contents
    Absent,     \* a backend holds nothing at the path
    Torn,       \* a truncated or half-written file
    Clients     \* concurrent request handlers (HTTP and FUSE)

Uploader == "uploader"
Promoter == "promoter"
Evictor  == "evictor"
Replayer == "replayer"
Procs    == Clients \cup {Uploader, Promoter, Evictor, Replayer}

ASSUME PathAssumption == Root \notin Files
ASSUME DataAssumption == Absent \notin Data /\ Torn \notin Data /\ Absent # Torn
ASSUME ProcAssumption ==
    Clients \cap {Uploader, Promoter, Evictor, Replayer} = {}

Paths == Files \cup {Root}

\* What a backend holds at a path.
Content == Data \cup {Absent, Torn}

Local == "local"
Nas   == "nas"
S3    == "s3"
Tier  == {Local, Nas, S3}

\* TierBitmask::ALL, given to every directory.
ALL == Tier

SafeToEvictFrom_ignores_s3(bm, tier) == tier # S3

\* A file may leave the local or NAS tier once its S3 bit is set; S3 is never
\* evicted.
SafeToEvictFrom(bm, tier) == tier # S3 /\ S3 \in bm

ReplicateNas == "replicate_nas"
UploadS3     == "upload_s3"
WalOp        == {ReplicateNas, UploadS3}

\* The tier a WAL operation copies a file to.
TargetTier(op) == IF op = ReplicateNas THEN Nas ELSE S3
=============================================================================
