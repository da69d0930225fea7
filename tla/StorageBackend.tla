---------------------------- MODULE StorageBackend ----------------------------
(***************************************************************************)
(* The three backends (fvfs-core/src/backend).  A get, a delete and an S3  *)
(* put are one step.  LocalDiskBackend::put, used for the local and the    *)
(* NAS tier, is two: File::create truncates the file, then write_all and   *)
(* flush fill it.  Between them the file is Torn.  An open handle outlives *)
(* the file's name: what is written after a remove_file is lost, and two   *)
(* handles on one file may mix their bytes.                                *)
(***************************************************************************)
EXTENDS FvfsTypes

VARIABLES
    store,      \* store[t][f]: what tier t holds at f
    openers,    \* processes with a handle on the linked local file
    mixing      \* files on which two handles have been open at once

storeVars == <<store, openers, mixing>>

StoreTypeOK ==
    /\ store \in [Tier -> [Files -> Content]]
    /\ openers \in [Files -> SUBSET Procs]
    /\ mixing \subseteq Files

StoreInit ==
    /\ store = [t \in Tier |-> [f \in Files |-> Absent]]
    /\ openers = [f \in Files |-> {}]
    /\ mixing = {}

Holds(t, f) == store[t][f] # Absent

StorePut(t, f, c) ==
    /\ store' = [store EXCEPT ![t][f] = c]
    /\ UNCHANGED <<openers, mixing>>

\* File::create of the local put.
LocalCreate(p, f) ==
    /\ store' = [store EXCEPT ![Local][f] = Torn]
    /\ openers' = [openers EXCEPT ![f] = @ \cup {p}]
    /\ mixing' = IF openers[f] \subseteq {p} THEN mixing \ {f} ELSE mixing \cup {f}

\* Dropping the handle without having written.
LocalClose(p, f) ==
    /\ openers' = [openers EXCEPT ![f] = @ \ {p}]
    /\ UNCHANGED <<store, mixing>>

\* write_all and flush of the local put.
LocalFill(p, f, data) ==
    /\ openers' = [openers EXCEPT ![f] = @ \ {p}]
    /\ UNCHANGED mixing
    /\ \/ p \notin openers[f] /\ UNCHANGED store
       \/ p \in openers[f] /\ store' = [store EXCEPT ![Local][f] = data]
       \/ p \in openers[f] /\ f \in mixing /\ store' = [store EXCEPT ![Local][f] = Torn]

\* delete of an existing object: on the local tier open handles lose it.
StoreDelete(t, f) ==
    /\ store' = [store EXCEPT ![t][f] = Absent]
    /\ openers' = IF t = Local THEN [openers EXCEPT ![f] = {}] ELSE openers
    /\ UNCHANGED mixing
=============================================================================
