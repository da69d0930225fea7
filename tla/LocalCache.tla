------------------------------ MODULE LocalCache ------------------------------
(***************************************************************************)
(* fvfsc's read cache on disk (fvfsc/src/local_cache.rs).  A file of the   *)
(* cache is named after the SHA-256 of the contents it is meant to hold,   *)
(* so those contents stand for the name.  A put is a task of its own,      *)
(* spawned by the read handler; other tasks run between any two of its     *)
(* steps, and write_all of a large file takes several.  evict_if_needed    *)
(* has no caller: an entry is never removed.                               *)
(***************************************************************************)
EXTENDS FileBytes

CONSTANTS Workers   \* bound: cache puts in flight at once

VARIABLES
    cache,      \* cache[h]: the file named h, Absent if there is none
    puts,       \* puts[w]: a spawned LocalCache::put and its file position
    interrupted \* history: names of which a put ended before it had written all

cacheVars == <<cache, puts, interrupted>>

NoPut == [pc |-> "idle", hash |-> <<>>, data |-> <<>>, pos |-> 0]

CacheTypeOK ==
    /\ cache \in [Contents -> Contents \cup {Absent}]
    /\ puts \in [Workers -> [pc : {"idle", "exists", "create", "fill"},
                             hash : Contents, data : Contents, pos : 0..MaxLen]]
    /\ interrupted \subseteq Contents

\* The put has created the file and not written all of it.
Writing(w) == puts[w].pc = "fill" /\ puts[w].pos < Len(puts[w].data)

CacheInit ==
    /\ cache = [h \in Contents |-> Absent]
    /\ puts = [w \in Workers |-> NoPut]
    /\ interrupted = {}

\* rt.spawn(cache.put(data)), which hashes the data it is given.
Spawn(w, data) ==
    /\ puts[w].pc = "idle"
    /\ puts' = [puts EXCEPT ![w] =
                  [pc |-> "exists", hash |-> data, data |-> data, pos |-> 0]]
    /\ UNCHANGED <<cache, interrupted>>

\* cache_path.exists().
PutExists(w) ==
    /\ puts[w].pc = "exists"
    /\ puts' = [puts EXCEPT ![w] = IF cache[puts[w].hash] = Absent
                                     THEN [puts[w] EXCEPT !.pc = "create"]
                                     ELSE NoPut]
    /\ UNCHANGED <<cache, interrupted>>

\* File::create, which empties a file that has appeared meanwhile.
PutCreate(w) ==
    /\ puts[w].pc = "create"
    /\ puts' = [puts EXCEPT ![w].pc = "fill"]
    /\ cache' = [cache EXCEPT ![puts[w].hash] = <<>>]
    /\ UNCHANGED interrupted

PutFill_at_start(w) ==
    LET t == puts[w] IN
    /\ Writing(w)
    /\ puts' = [puts EXCEPT ![w].pos = @ + 1]
    /\ UNCHANGED interrupted
    /\ cache' = [cache EXCEPT ![t.hash] = Splice(@, 0, <<t.data[t.pos + 1]>>)]

\* The next piece of write_all, at the position of this handle.
PutFill(w) ==
    LET t == puts[w] IN
    /\ Writing(w)
    /\ puts' = [puts EXCEPT ![w].pos = @ + 1]
    /\ UNCHANGED interrupted
    /\ cache' = [cache EXCEPT ![t.hash] = Splice(@, t.pos, <<t.data[t.pos + 1]>>)]

PutDone_unawaited(w) ==
    /\ puts[w].pc = "fill"
    /\ puts' = [puts EXCEPT ![w] = NoPut]
    /\ UNCHANGED <<cache, interrupted>>

PutDone(w) ==
    /\ puts[w].pc = "fill" /\ ~Writing(w)
    /\ puts' = [puts EXCEPT ![w] = NoPut]
    /\ UNCHANGED <<cache, interrupted>>

\* create_dir_all, create or write_all fails: logged, the file stays as it is.
PutFails(w) ==
    /\ puts[w].pc # "idle"
    /\ puts' = [puts EXCEPT ![w] = NoPut]
    /\ interrupted' = interrupted \cup {c \in {puts[w].hash} : Writing(w)}
    /\ UNCHANGED cache

\* The process ends: the tasks are gone, the files stay.
CacheRestart ==
    /\ puts' = [w \in Workers |-> NoPut]
    /\ interrupted' = interrupted \cup {puts[w].hash : w \in {v \in Workers : Writing(v)}}
    /\ UNCHANGED cache
=============================================================================
