------------------------------- MODULE FvfsPath -------------------------------
(***************************************************************************)
(* The virtual paths both FUSE mounts work on (FvfsPath in fvfs-core's     *)
(* types.rs), normalised, absolute and compared for equality only.         *)
(***************************************************************************)
CONSTANTS
    Paths,      \* the modelled FvfsPaths
    Root        \* "/"

ASSUME RootAssumption == Root \in Paths
=============================================================================
