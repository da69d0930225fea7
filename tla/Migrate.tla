------------------------------- MODULE Migrate -------------------------------
(***************************************************************************)
(* The one-time migration (run_migration of fvfsd/src/migrate.rs): crawl a *)
(* local and a NAS directory, hash every file, keep one file per hash, put *)
(* each of these to S3 and give it a row.  The two directories are those   *)
(* of the tiers unless the command line names others (rooted).  The files  *)
(* may be changed by other programs while the migration runs (Volatile).   *)
(*                                                                         *)
(* A file is crawled under its name relative to the directory; its FVFS    *)
(* path is VfsPath of the name, which is not injective: a backslash        *)
(* becomes a slash.  The files that a tier's backend would read are those  *)
(* whose name is their path.                                               *)
(***************************************************************************)
EXTENDS TierRouter

CONSTANTS
    Names,      \* names of files relative to a source directory
    VfsPath,    \* the FVFS path of each name
    Volatile    \* bound: the names that other programs may change, once each

ASSUME NamesAssumption ==
    /\ Files \subseteq Names
    /\ VfsPath \in [Names -> Files]
    /\ \A f \in Files : VfsPath[f] = f
    /\ Volatile \subseteq Names

VARIABLES
    tree,       \* tree[t][n]: what the directory crawled for tier t holds
    rooted,     \* the tiers whose own directory is crawled
    mpc,        \* where the migration is
    crawl,      \* the tiers still to crawl
    found,      \* the files crawled and not yet hashed
    hashed,     \* the files with their hashes
    uploads,    \* to_upload: the files still to put to S3
    item,       \* the one in hand: none, or one
    mbuf,       \* its bytes
    report,     \* the counters of MigrateReport, in files
    edited      \* history: the names whose files other programs have changed

migrateVars == <<tree, rooted, mpc, crawl, found, hashed, uploads, item, mbuf, report, edited>>
reportVars  == <<hashed, uploads, report>>

Source == {Local, Nas}
Hashed == [tier : Source, name : Names, sha : Data]

NoReport == [total |-> 0, duplicates |-> 0, uploaded |-> 0, errors |-> 0]

\* The type invariant of the migration.
MigrateTypeOK ==
    /\ tree \in [Source -> [Names -> Data \cup {Absent}]]
    /\ rooted \subseteq Source
    /\ mpc \in {"crawl", "hash", "next", "put", "upsert", "off"}
    /\ crawl \subseteq Source
    /\ found \subseteq Source \X Names
    /\ hashed \subseteq Hashed /\ uploads \subseteq hashed /\ item \subseteq hashed
    /\ mbuf \in Data \cup {Absent}
    /\ report \in [{"total", "duplicates", "uploaded", "errors"} -> Nat]
    /\ edited \subseteq Volatile

\* run_migration begins, on whatever trees there are.
MigrationBegins ==
    /\ mpc = "crawl"
    /\ crawl = Source
    /\ found = {} /\ hashed = {} /\ uploads = {} /\ item = {}
    /\ mbuf = Absent
    /\ report = NoReport

\* collect_files of one tier, which runs beside the other's; when it fails the
\* tier's files are left out.
Crawl(t) ==
    /\ mpc = "crawl" /\ t \in crawl
    /\ crawl' = crawl \ {t}
    /\ mpc' = IF crawl' = {} THEN "hash" ELSE "crawl"
    /\ \/ /\ found' = found \cup {<<t, n>> : n \in {m \in Names : tree[t][m] # Absent}}
          /\ UNCHANGED faults
       \/ Fault /\ UNCHANGED found
    /\ UNCHANGED <<metaVars, storeVars, reportVars, tree, rooted, item, mbuf, edited>>

HashFile_of_missing ==
    /\ mpc = "hash"
    /\ \E x \in found :
         LET t == x[1]
             n == x[2]
         IN  /\ found' = found \ {x}
             /\ hashed' = hashed \cup {[tier |-> t, name |-> n, sha |-> tree[t][n]]}
    /\ UNCHANGED <<metaVars, storeVars, faults, tree, rooted, mpc, crawl, uploads, item, mbuf, report, edited>>

\* hash_file of one file; a file that cannot be read is left out.
HashFile ==
    /\ mpc = "hash"
    /\ \E x \in found :
         LET t == x[1]
             n == x[2]
         IN  /\ found' = found \ {x}
             /\ \/ /\ tree[t][n] # Absent
                   /\ hashed' = hashed \cup {[tier |-> t, name |-> n, sha |-> tree[t][n]]}
                   /\ UNCHANGED faults
                \/ /\ IF tree[t][n] = Absent THEN UNCHANGED faults ELSE Fault
                   /\ UNCHANGED hashed
    /\ UNCHANGED <<metaVars, storeVars, tree, rooted, mpc, crawl, uploads, item, mbuf, report, edited>>

\* The first file of each hash.  Local files come before those of the NAS, and
\* files of one tier in any order.
OneFilePerHash(S) ==
    /\ S \subseteq hashed
    /\ \A x \in hashed : \E y \in S : y.sha = x.sha /\ (x.tier = Local => y.tier = Local)
    /\ \A y, z \in S : y.sha = z.sha => y = z

Dedup ==
    /\ mpc = "hash" /\ found = {}
    /\ \E S \in SUBSET hashed :
         /\ OneFilePerHash(S)
         /\ uploads' = S
         /\ report' = [report EXCEPT !.total = Cardinality(hashed),
                                     !.duplicates = Cardinality(hashed \ S)]
    /\ mpc' = "next"
    /\ UNCHANGED <<metaVars, storeVars, faults, tree, rooted, crawl, found, hashed, item, mbuf, edited>>

\* The head of the upload loop reads the next file again.
ReadNext ==
    /\ mpc = "next"
    /\ \E x \in uploads :
         LET content == tree[x.tier][x.name]
         IN  /\ x.tier = Nas => \A y \in uploads : y.tier = Nas
             /\ uploads' = uploads \ {x}
             /\ \/ /\ content # Absent
                   /\ item' = {x} /\ mbuf' = content
                   /\ mpc' = "put"
                   /\ UNCHANGED <<report, faults>>
                \/ /\ IF content = Absent THEN UNCHANGED faults ELSE Fault
                   /\ report' = [report EXCEPT !.errors = @ + 1]
                   /\ UNCHANGED <<mpc, item, mbuf>>
    /\ UNCHANGED <<metaVars, storeVars, tree, rooted, crawl, found, hashed, edited>>

ForgetItem == item' = {} /\ mbuf' = Absent

PutItem_ignores_error ==
    /\ mpc = "put"
    /\ \E x \in item :
         LET Put == StorePut(S3, VfsPath[x.name], mbuf)
         IN  /\ \/ Put /\ UNCHANGED faults
                \/ (Put \/ UNCHANGED storeVars) /\ Fault
             /\ mpc' = "upsert"
             /\ report' = [report EXCEPT !.uploaded = @ + 1]
    /\ UNCHANGED <<metaVars, tree, rooted, crawl, found, hashed, uploads, item, mbuf, edited>>

PutItem_error_not_counted ==
    /\ mpc = "put"
    /\ \E x \in item :
         LET Put == StorePut(S3, VfsPath[x.name], mbuf)
         IN  \/ /\ Put
                /\ mpc' = "upsert"
                /\ report' = [report EXCEPT !.uploaded = @ + 1]
                /\ UNCHANGED <<faults, item, mbuf>>
             \/ /\ Put \/ UNCHANGED storeVars
                /\ Fault
                /\ mpc' = "next"
                /\ UNCHANGED report
                /\ ForgetItem
    /\ UNCHANGED <<metaVars, tree, rooted, crawl, found, hashed, uploads, edited>>

\* s3.put of what was read; one that fails may have been stored, and the file
\* gets no row.
PutItem ==
    /\ mpc = "put"
    /\ \E x \in item :
         LET Put == StorePut(S3, VfsPath[x.name], mbuf)
         IN  \/ /\ Put
                /\ mpc' = "upsert"
                /\ report' = [report EXCEPT !.uploaded = @ + 1]
                /\ UNCHANGED <<faults, item, mbuf>>
             \/ /\ Put \/ UNCHANGED storeVars
                /\ Fault
                /\ mpc' = "next"
                /\ report' = [report EXCEPT !.errors = @ + 1]
                /\ ForgetItem
    /\ UNCHANGED <<metaVars, tree, rooted, crawl, found, hashed, uploads, edited>>

MigratedBits_all(t) == ALL

\* The bitmask of a migrated file's row.
MigratedBits(t) == {t, S3}

\* The row, with the hash of the first read; a database error is ignored.
UpsertItem ==
    /\ mpc = "upsert"
    /\ \E x \in item :
         \/ Upsert(VfsPath[x.name], MigratedBits(x.tier), x.sha) /\ UNCHANGED faults
         \/ Fault /\ UNCHANGED metaVars
    /\ mpc' = "next"
    /\ ForgetItem
    /\ UNCHANGED <<storeVars, reportVars, tree, rooted, crawl, found, edited>>

\* The report; the process ends.
MigrationEnds ==
    /\ mpc = "next" /\ uploads = {}
    /\ mpc' = "off"
    /\ UNCHANGED <<metaVars, storeVars, faults, reportVars, tree, rooted, crawl, found, item, mbuf, edited>>

MigrateStep ==
    \/ \E t \in Source : Crawl(t)
    \/ HashFile \/ Dedup \/ ReadNext \/ PutItem \/ UpsertItem \/ MigrationEnds

\* Another program changes or removes a file of a source directory.
Edit ==
    /\ mpc # "off"
    /\ \E t \in Source, n \in Volatile \ edited, c \in Data \cup {Absent} :
         /\ edited' = edited \cup {n}
         /\ tree' = [tree EXCEPT ![t][n] = c]
         /\ store' = IF t \in rooted /\ n \in Files THEN [store EXCEPT ![t][n] = c] ELSE store
    /\ UNCHANGED <<metaVars, openers, mixing, faults, reportVars, rooted, mpc, crawl, found, item, mbuf>>
=============================================================================
