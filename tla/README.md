# fvfs: a TLA+ verification project

fvfs is a personal virtual filesystem over three storage tiers: a local disk, a
NAS and S3.  This directory holds TLA+ models of its daemon, of its migration and
of its client mount, TLC configurations that check them on small instances, and TLAPS proofs
about them.

    tlc -workers 2 -config WriteOnce.cfg MCFvfsd      one run
    tlc -workers 2 -config Mount.cfg MCVfsdFuse
    tlapm FvfsdProofs.tla                             the proofs of one module

## 1. Inventory

| Component | Source | State | Operations |
|---|---|---|---|
| Types | `fvfs-core/src/types.rs` | none | tier bitmask; `FvfsPath`: `new`, `parent`, `file_name`, `join` |
| Metadata store | `fvfs-core/src/metadata.rs` | SQLite tables `files`, `wal_pending`, `devices`; one connection behind a mutex | `upsert`, `get`, `get_by_id`, `list_dir`, `set_tier_bitmask`, `delete`, `record_access`, `files_on_tier`, `bytes_on_tier`, `wal_*` |
| Backends | `fvfs-core/src/backend/*` | files on disk, objects in S3 | `put`, `get`, `delete`, `list`, `exists` |
| Eviction policy | `fvfs-core/src/eviction.rs` | none | score of a file: recency and frequency |
| Tier router | `fvfsd/src/router.rs` | none of its own; the promotion channel | `write`, `read`, `delete`, `mkdir`, `list`, `stat`, `evict_from_tier` |
| HTTP API | `fvfsd/src/http_api.rs` | two `Notify` handles | one handler per endpoint |
| WAL replay | `fvfsd/src/wal_replay.rs` | snapshot of the WAL, attempt counter | run once, before serving |
| S3 uploader | `fvfsd/src/s3_uploader.rs` | snapshot of the WAL | run on a tick or a manual flush |
| Eviction task | `fvfsd/src/eviction_task.rs` | sorted snapshot of a tier's files, bytes freed | run on a tick or a manual trigger, for the local tier, then the NAS |
| Promotion task | `fvfsd/src/main.rs` | unbounded channel of paths | one promotion per signal |
| Server FUSE mount | `fvfsd/src/fuse_handler.rs` | inode table | one handler per system call |
| Migration | `fvfsd/src/migrate.rs` | files found, hash map, report | a one-time crawl of two directories, before the daemon runs |
| Client FUSE mount, cache, HTTP client, mDNS | `fvfsc/src/*` | inode table, cache directory | proxied system calls |

How they interact.  Every request and every task is a tokio task of one
process; all share the metadata store and the backends, and none takes a lock
across an `await`.  A write puts the file to the local disk, upserts its row
with the local bit only, inserts missing parent directories and enqueues two
WAL entries.  A read loads the row and asks the first tier its bitmask names; a
read from a cold tier sends the path to the promotion task.  The uploader, the
replay, the evictor and the promoter each load a row, work on backends, and
then write back the bitmask they loaded with one bit changed.  The daemon's FUSE
thread serves one system call at a time by blocking on router calls that
interleave with everything else, and keeps an inode table that only it sees.
The client's mount does the same with HTTP requests, and hands what it has
fetched to cache puts that run on as tasks of their own.

What is hard here:

* *stale bitmasks*: three tasks do read-modify-write on `tier_bitmask` with
  awaits in between, and requests overwrite and delete the row meanwhile;
* *row ids*: SQLite reuses them, and `upsert` returns `last_insert_rowid()`;
* *files on disk*: `put` truncates in place, a reader sees the torn file, an
  unlink hides what an open handle still writes, a crash leaves what there is;
* *the WAL*: replay and uploader share one attempt limit, both work on
  snapshots, and replay of `upload_s3` reads through the tier stack;
* *partial failure*: a put that reports an error may have happened, a request
  may be dropped between any two awaits, and most database errors of the
  background tasks are logged or dropped;
* *inode numbers*: the daemon's mount takes them from row ids and from a
  counter, and never hears of files that HTTP requests delete;
* *the tree*: a path's ancestors get their rows one by one, after its own, while
  other calls do the same;
* *migration*: it sets bits without a WAL, ignores database errors, can be killed
  and repeated, and runs while other programs change the files it reads;
* *the watermarks*: a cycle evicts from a snapshot whose sizes, scores and bits
  change under it, and trusts its own count of what it freed;
* *paths as strings*: one string is normalised, matched by LIKE, put in a URL
  and parsed again, with other characters special at each stage;
* *the client cache*: an entry is visible before it is complete, and a read asks
  for the hash and for the bytes in two requests.

What makes it correct: acknowledged content is never lost and reaches S3; the
S3 bit, on which eviction relies, is true; a file with a row can be read; the
database is consistent; replay terminates and leaves only what it gave up or an
error took from it;
what was migrated is there; eviction takes the coldest files, no more than it
needs, and keeps the tiers below their watermarks; a path string means a list of
names, at both ends of a request; what is stored can be reached from the root; an inode number means one path; a
mount returns and keeps the bytes of one version of a file.

## 2. Modules

| Module | Models |
|---|---|
| `FvfsTypes` | tiers, bitmasks as sets of tiers, WAL operations, processes |
| `MetadataStore` | the tables `files` and `wal_pending`, one action per method |
| `StorageBackend` | the three backends, with truncate-then-write and open handles |
| `TierRouter` | `write`, `read`, `delete`, one action per await, for every client |
| `S3Uploader` | `flush_pending` |
| `WalReplay` | `replay_wal` (extends `S3Uploader`: both share the snapshot variables, they never run at once) |
| `EvictionTask` | `run_eviction_cycle` and `evict_from_tier` |
| `Promotion` | the promotion loop of `run_serve` |
| `Fvfsd` | the composition, with crashes; the properties |
| `WriteOnceStore` | abstract specification: a file has no content, or one that never changes while the file is not exposed |
| `MCFvfsd` | symmetry sets for TLC |
| `FvfsdProofs`, `WriteOnceProofs` | theorems about `Fvfsd`, the last for files written once |
| `EvictionCycle`, `MCEvictionCycle` | `run_eviction` and `run_eviction_cycle` with sizes, watermarks and scores; the tables it starts from |
| `EvictionProofs` | theorems about `EvictionCycle` |
| `Migrate` | `run_migration` |
| `MigratedFvfsd`, `MCMigratedFvfsd` | a migration with kills and reruns, then `Fvfsd` on what it left |
| `MigrateProofs` | theorems about `MigratedFvfsd` |
| `PathStrings`, `MCPathStrings` | `FvfsPath` on strings, the LIKE patterns of `list_dir`, the client's URLs and the daemon's `parse_path` |
| `PathProofs` | theorems about `PathStrings` |
| `FvfsPath`, `FileBytes` | paths as values; contents as byte sequences, with the range of a read and the splice of a write |
| `InodeTable` | the table of both mounts, with the daemon's hints |
| `Namespace` | the rows and local files of a directory tree, and the router's calls on it |
| `VfsdFuse`, `MCVfsdFuse` | the daemon's mount on `Namespace`, beside HTTP requests |
| `LocalCache` | the client's read cache |
| `VfscFuse`, `MCVfscFuse` | the client's mount with `InodeTable` and `LocalCache`, against a daemon that others write to |
| `FileBytesProofs`, `CacheProofs`, `MountProofs` | theorems about both mounts |

State and code.  The row of a path is `rowid[p]` (0 for no row), `bitmask[p]`
and `sha[p]`; the content of a file is one value of `Data`, which is also its
hash.  `store[t][f]` is what tier `t` holds: `Absent`, `Torn` or a content.  A
process is at a label `pc[p]` between two awaits, and `path`, `buf`, `rbm`,
`fbm`, `fid` are its local variables: the path, the bytes, the bitmask of a read
in progress, and the bitmask and file id it loaded earlier and may write back.
`todo` and `entry` are the WAL snapshot.  `acked`, `writes`, `deletes`,
`faults` and `crashes` are history variables; the last four bound the runs.
`lapsed` and `skipped` are history too: what errors of the database have left
queued, by file and by WAL id (see below).

Each action is one piece of code between two awaits, in the code's order, with
its error path.  A step that can fail does so while `faults < MaxFaults`.
A database error or a dropped connection ends a request early (`Abort`).

A database error in a background task (`DbFault`) has no effect on the tables,
and then the task does what the code does, which differs from call to call:

| Call | On an error | Action |
|---|---|---|
| replay `wal_pending` | replay returns; the daemon serves with every entry pending | `ReplayLoad` |
| replay `get_by_id` | `break`: the entry stays | `ReplaySkip` |
| replay `set_tier_bitmask` | a failed attempt | `ReplayBits` |
| replay `wal_complete` | dropped: the entry stays, done or of a deleted file | `ReplayComplete` |
| replay `wal_record_failure` | dropped: the table's count stays behind the loop's | `ReplayFail` |
| uploader `get_by_id` | `continue`: the entry waits for a later flush | `UploadSkip` |
| uploader `set_tier_bitmask` | a failed attempt | `UploadBits` |
| uploader `wal_complete` | dropped: the entry stays after the S3 bit is set | `UploadComplete` |
| uploader `wal_record_failure` | dropped: the attempt does not count | `UploadFail` |
| promoter `get`, `set_tier_bitmask` | dropped: the copy stays without its bit | `PromoteLost` |
| evictor `set_tier_bitmask` | logged: the bit outlives the copy | `EvictBits` |
| `get` inside a read | the read fails | `ReadMeta` |

An error of the uploader's `wal_pending` is a flush that does nothing, and one of
the evictor's queries ends a cycle or passes a file over, which `EvictEnd` may do
anyway.  `skipped` holds the ids of entries that replay left to the uploader or to
a later start.  `lapsed` holds the files whose upload stays queued after it was
done (`UploadComplete`), or is still queued with attempts left when replay ends.

In `Namespace` and `VfsdFuse` a router call is a record `calls[c]`: where it is,
the handler it belongs to, its path, how far `ensure_parent_dirs` has climbed
(`cur`), its bytes and its result.  `rowid`, `isDir` and `disk` are the row and
the local file of each path; `ino_to_path`, `path_to_ino` and `next_ino` the
table.  In `VfscFuse` `h` is the read handler, `conns` the requests of other devices, `bytes` and `row`
the daemon's file and the hash in its row, `cache` and `puts` the cache files and
the tasks that write them.  `seen` and `counts` are history variables: what the
file being read or written has contained since the request began, and the bounds.

In `Migrate` `tree[t][n]` is the directory crawled for tier `t`, and `rooted` the
tiers whose own directory that is: the daemon's `store` follows it there.
`VfsPath` gives the FVFS path of a file's name; two names may have one path, since
a backslash becomes a slash.  In `EvictionCycle` `row[f]` has the columns the task
reads, `held[f]` the copies that exist, and `queue`, `used`, `freed` and `seen` are
the task's variables; `disturbed` says that something else happened since the
cycle measured the usage.

The compositions share components by abstraction, not by state.  `Fvfsd` has the
tiers and the WAL with a flat namespace; `MigratedFvfsd` extends it and shares its
tables and backends.  `VfsdFuse` has the tree with the local tier only (what can
go wrong behind it is a call that fails), `VfscFuse` sees the daemon through its
HTTP API, and `EvictionCycle` sees requests and the other tasks as one step per
operation: what happens between their awaits is in `Fvfsd`.

Abstractions to know about:

* In `EvictionCycle` the uploads, promotions, reads, writes and deletes of others
  are one step each (`Others`); what happens between their awaits is in `Fvfsd`.
* A crash is the death of the process, not a power failure: what was written
  stays written, SQLite keeps every statement.
* `put` on a disk has two visible states, truncated and written.  When two handles are open on one
  file at once the result may be one content, the other, or torn.
* In `Fvfsd` sizes, times and scores are left out, so an eviction cycle may start
  at any time and take any safe victim: every watermark and every policy is
  covered.  `EvictionCycle` has them, with exact arithmetic (the two sides of a
  comparison are multiplied by both ages), one clock reading per sort, and the
  low watermark at or below the high one, which nothing in the code enforces.
* WAL entries are taken in the order of their ids.  The code orders by
  `enqueued_at`, which agrees as long as the clock does not step back.
* In `Fvfsd` the namespace is flat: every file's parent is `Root`.
* The kernel sends what it sends: requests on inodes it was given, `create` and
  `mkdir` of names found missing, `rmdir` of directories, reads and writes of
  files, one request at a time (fuser's session loop).  The client is mounted
  `RO`, so its write handlers are never called.
* `lookup` and each entry of `readdir` are one step.  Their RPC and their change
  of the inode table could be two, but other processes never touch the table and
  the change depends on nothing but what the RPC returned, so the steps commute.
* A contents stands for its SHA-256: hashes do not collide.
* A write through the mount is one byte at some offset; a cache put writes its
  bytes one at a time.
* In `Namespace` the WAL enqueue at the end of a write succeeds or fails freely;
  when it does which is in `Fvfsd`.

## 3. Runs

| Run | Workload | Shows |
|---|---|---|
| `write_once` | one file written once, one client, two reads queued, three faults or one and a database error | `TypeOK`, `S3BitTruthful`, `Readable`, `ImplementsWriteOnce` |
| `restart` | one file written once, one crash, two faults or one database error, fairness | `AckedRecoverable`, `AckedQueued`, `ReplayDrains`, `ReplayEnds`, `AckedReachesS3` |
| `general` | one file, two clients, two writes, a delete, a crash | `WalIntegrity`, `AttemptsBounded` |
| `migrate` | up to two files migrated; two of: failure, database error, kill and rerun, edit of a source file, and afterwards a request or a crash of the daemon | `MigrateTypeOK`, `MigratedRecoverable`, `MigratedS3Truthful`, `MigratedReadable`, `NoErrorsAllUploaded` |
| `eviction` | three files; two of: write, read, upload, promotion, delete, clock tick, failure, crash; fairness | `CycleTypeOK`, `EvictsOnlyAboveLow`, `CycleReachesLow`, `ColdestFirst`, `UsageSettles` |
| `mount` | daemon mount: a tree of four paths, three calls, and an unlink, an HTTP delete or a fault | `VfsdTypeOK`, `OneInodePerPath`, `MountInodesCoherent`, `GrowsConnected`, `WriteSplices` |
| `cache` | client mount: two PUTs and a DELETE by other devices, two cache puts in flight, one fault, one restart | `VfscTypeOK`, `CacheAddressed`, `ReadsFresh`, `CacheWhole` |
| `paths` | strings of up to three parts, paths up to three names deep | `PathDenotesNames`, `ListingIs`, `UrlRoundTrip` |
| `overwrite` | two writes | violates `AckedQueued` |
| `stale_bit` | two writes | violates `AckedRecoverable` |
| `crash_corrupts` | one write, one read, two crashes | violates `AckedRecoverable` |
| `migrated_nas` | a migration, nothing fails | violates `ServesMigrated` |

The passing runs of the tier stack say what it does for files that are written
once and for the database under any workload.  `ImplementsWriteOnce` is a
refinement: the content of a file with a row and a good copy, as a function of the
daemon's state, changes only from nothing to something, until the file is exposed,
which is mapped to `lapsed`.  That exception is the code's: when `wal_complete`
fails after an upload (`s3_uploader.rs:124`) the entry stays, the file may be
evicted meanwhile and promoted again, the second upload may read the promotion's
truncated copy, and a later one may put that over the good object.  The three properties
`S3BitTruthful`, `AckedRecoverable` and `ImplementsWriteOnce` say that nothing else,
and no other database error, leads there.

`restart` says what becomes of an acknowledged file: its S3 bit is set for good,
or its upload has failed `MAX_ATTEMPTS` times, since neither the uploader nor replay
tries it after that; two faults with two attempts let the run give an upload up.
`ReplayDrains` says what is left when the daemon starts to serve: entries that are
given up, and those that a database error kept from replay.

`migrate` says that a migration, however often it fails or is repeated, leaves no
row without its content, and that the bits it sets can be relied on by eviction
from the first cycle on.  It is asked of paths whose source files agree and are
left alone while it runs.

`eviction` says that a cycle which nothing disturbs evicts the coldest file first,
begins no eviction at or below the low watermark and ends there, and that whatever
disturbs the cycles, in the end no tier stays above its high watermark with a file
that could be evicted.

The runs of the mounts say that the client's cache never gives one file's or one
version's bytes for another's, that the daemon's inode table is sound as long as
files are deleted through it only, that concurrent growth of the tree leaves
nothing unreachable, and that a write through the mount keeps the rest of the file.

`paths` compares the operations on strings with the lists of names they stand for,
over names with `%`, `_`, the escape character, a tab, a space at the end and both
cases.

A listing differs from its documentation, and `ListingIs` says by how much: `metadata.rs:122`
has "List direct children of dir_path (non-recursive)" and `metadata.rs:125` "exactly one
segment deeper", but the root's own row is in the root's listing, and a directory
lists the children of every directory whose path is its own but for the case of
letters, since LIKE does not tell it.  Nothing else is listed.

The violations are disagreements between the code and its documentation,
each with its finding in `PROJECT.json`: an overwrite enqueues its WAL entries
for the wrong row (`metadata.rs:89`); an upload that started before an overwrite
marks the new content as being in S3 (`s3_uploader.rs:109`); a crash in a
promotion's `put` leaves a torn local file that replay spreads to the NAS and to S3
(`local.rs:44`, `wal_replay.rs:89`); and a file migrated from a directory that is
not the NAS tier's own has the NAS bit, so that no read of it succeeds although S3
has it (`migrate.rs:161`, `router.rs:166`).

More limits of the code bound what can be stated, without a run of their own:

* the promoter writes back the bitmask it loaded (`main.rs:146`) and can bring
  back the NAS bit of a copy evicted meanwhile, after which reads end at the NAS;
  it takes a NAS copy, hence a restart, so `Readable` is checked without crashes;
* when a database error keeps an upload from replay, the file is served with a NAS
  bit while its upload is queued: a promotion from the NAS may then take back the S3
  bit that the uploader sets meanwhile, so `AckedQueued` and `AckedReachesS3` except it;
* a cache entry is visible before it is filled (`local_cache.rs:63`), so
  `ReadsFresh` lets an entry shorten or blank what a read returns; one whose put
  failed or was killed stays so, and `CacheWhole` excepts its name;
* after an HTTP DELETE a reused row id binds an inode number to another path
  (`fuse_handler.rs:200`), and counted numbers reach the hinted ones after nine
  allocations (`fuse_handler.rs:53`), so `MountInodesCoherent` is asked before either;
* `rmdir` of a directory with children cuts them off (`fuse_handler.rs:518`), so
  `GrowsConnected` ends with the first delete;
* a mount write whose read fails goes on with an empty file
  (`fuse_handler.rs:308`), so `WriteSplices` is asked until the first failure; an
  HTTP PUT between its read and its write is lost (`fuse_handler.rs:321`);
* `?`, `#`, `%`, the backslash, tabs, line breaks and spaces at the end do not survive a
  URL (`http_client.rs:28`: `Url::join` trims, drops and reinterprets them), so
  `UrlRoundTrip` excludes them;
* when the bitmask update after an eviction's delete fails the bytes stay counted
  for good, so `UsageSettles` speaks of files with a copy;
* two source files with one FVFS path overwrite each other in S3, and migrated
  files get no rows for their parent directories (`migrate.rs:179`).

Bounds.  One file suffices where a property is about one file's tiers: files share
no copy, row or entry, and replay and the uploader take entries one by one (a file
has two, one of each kind).  `general` has the two clients for every pairwise race
of requests; in `write_once` one client writes and then reads, and the races are
with the four tasks, which are always there; the theorems are about any number of
both.  `DbFaultCost` is what a database error counts for in the budget of faults:
two in `write_once`, which has three, and in `restart`, which has two, and one in
`migrate`, so that `restart` tries any two failed steps of the other kinds or any
one database error, and `write_once` one more step of the other kinds with either.
Two writes are the first overwrite, two attempts distinguish a first failure from
giving up, one crash puts every prefix of every operation before a restart, and
`crash_corrupts` needs the second crash because the NAS copy that promotion reads
exists only after a first one.  A write-once workload with both reads and crashes is
not among the passing runs: that is where the NAS bit comes back and where
`crash_corrupts` finds its violation.

A migration meets its cases with two files: two of one content, two of one path, one
below each directory.  `MaxEvents` lets any two of its disturbances happen in any
order, those of the daemon that then serves included.  In `eviction` three files are
the fewest of which a cycle evicts one, passes over one and leaves one; sizes 1 and
2 against watermarks 3 and 2 give cycles that evict none, one or two, and ages and
counts are chosen so that both terms of the score decide.

For the mounts, a directory, a file in it and a file beside it are the smallest
tree with a parent that may be missing, siblings, and two row ids to confuse.
One HTTP request beside the mount gives every pairwise interleaving of router
calls; two bytes are the shortest file with a byte to keep beside the one
written, and the shortest cache entry that can be half filled.  Two cache puts
of one contents are the race that leaves holes.  `mount` has `INO_HINT = 2` instead
of the code's 10, so that two counted allocations reach the numbers made of row ids;
`MaxDisturbances` allows one unlink, HTTP delete or failure, at any point.

Fairness.  `restart`: started handlers run on, replay runs on, and the uploader is
woken, which the tokio runtime and the uploader's interval timer guarantee.
`eviction`: the ticker ticks and the runtime polls the eviction task.  Nothing is
assumed of clients, the promoter, failures or crashes; in `restart` nothing of the
evictor either.  Every other property is a safety property.

Deadlock is checked in every run: a daemon that is up can always start an
eviction cycle, an idle mount can always look a name up, a path can always be
made anew.

## 4. Proofs

All hold for every set of files, contents and clients, every tree, and every bound
that a theorem does not name among its hypotheses.

Any workload of the daemon:

* `FvfsdProofs!TypeCorrect`: `Spec => []TypeOK`.  Types are not inductive alone:
  that a read or an upload indexes a backend by a file, never by `Root`, needs
  `PathInv`, which ties the label of a process to its path and its bytes.
* `FvfsdProofs!Integrity`: `Spec => []WalIntegrity`.  Every step calls at most one
  method of the metadata store (`StepsCallMethods`), and every method keeps
  integrity (`MethodsKeepIntegrity`): new ids exceed all old ones, an enqueue
  passes the foreign key, a delete cascades.
* `FvfsdProofs!AttemptsStayBounded` and `FvfsdProofs!ReplayLeavesNone`: `Spec =>
  []AttemptsBounded` and `Spec => ReplayDrains`.  Both need `WorkInv`, which says
  how the snapshot of a WAL worker relates to the table.  The uploader may hold
  the id of an entry that was deleted and whose id was reused, so its half only
  says that whatever entry has that id has an attempt left; replay runs alone,
  so its half says that attempts agree, or that the table's count is behind and the
  entry is in `skipped`, and that every entry with an attempt left is held by replay
  or in `skipped`.

Files written once (`WriteOnceProofs`).  `WritesOnce` is `MaxWrites = 1 /\
MaxDeletes = 0`; the runs `overwrite` and `stale_bit` show that a second write
ends what is proved here.

* `AckedStaysQueued`: `[]AckedQueued`, through any number of crashes and failures.
* `S3BitNeverLost`: no step takes an S3 bit away, through any number of crashes, from
  a file that is not in `lapsed`.
* `S3BitStaysTruthful`, `FilesStayReadable`, `AckedStaysRecoverable`: the
  invariants `S3BitTruthful`, `Readable` and `AckedRecoverable` until the first
  restart (`FirstRun`).  The restriction is needed: after a restart there are NAS
  copies, and `crash_corrupts` loses an acknowledged content.
* `TiersImplementWriteOnce`: with `MaxCrashes = 0` the tier stack implements
  `WriteOnceStore`.  A step that changes the mapped content of a file that is not
  exposed is the upsert of the only write (`Store`); the failed `wal_complete` is
  `Expose`, which needs that the file then has its content; what happens to exposed
  files is `Waver`; every other step maps to a stutter.

Their invariant is `RunInv`.  `RowInv` and `EntryInv` say that a file has one
writer, which knows its row's id, and that a WAL worker's snapshot never goes stale,
neither of which holds with overwrites or deletes.  `ColdInv` is about the
bitmasks that are written back: the promoter only ever works on a file that was
found on a cold tier, and such a file is `Settled`, that is, its S3 bit no longer
changes, or it is `Loose`: a database error has left an upload of it queued past a
restart; the evictor only works on files that have the bit.  `FirstRunInv` adds
where the copies are: nothing on the NAS (`NoNas`), an S3 bit only behind the one
upload of the file (`UploadsPending`), and always on one whose upload is done again
(`LapsedUploaded`), an object in S3 once the bit is set, of the recorded content
unless the file is in `lapsed`, and that content whole on the local tier until then
(`CopyInv`), and nobody but the writer with a handle on a file that has no row yet
(`HandleInv`).  `Readable` has no exception: an upload that is done again stores
something, if not the right thing.

Migration (`MigrateProofs`).  `MigrateTypeCorrect` is `MigratedSpec =>
[]MigrateTypeOK` for any workload; that the counters are numbers needs that finitely
many files are hashed.  The others assume `ReadsOnly` (`MaxWrites = MaxDeletes = 0`),
as the run does: a write replaces what was migrated, and what it then does is the
subject of `Fvfsd`.

* `MigratedBitStaysTruthful`, `MigratedStaysRecoverable`, `MigratedStaysReadable` and
  `NoErrorsMeansUploaded` prove the run's four other invariants, for any source
  directories and any number of failures, kills, reruns and edits.  The invariant
  follows a content through the loop: a hashed file that nobody has edited still
  has its content (`HashedCurrent`), so has the one in hand (`ItemCurrent`), so S3
  holds only contents of a path's sources (`ObjectsOfSources`), and when these agree
  a repeated put stores what the row already says (`RowsTrue`).  Afterwards no step
  of the daemon, failed ones and crashes (`CrashServes`) among them, touches a hash or
  an S3 object (`ServeEffect`), and the bitmask the
  promoter or the evictor holds has the S3 bit, and no NAS bit for a file that was
  never on the NAS (`MoversTrue`).  `UploadsAccounted` says that every hash is still
  to be put, being put, or in S3, until an error is counted.

The client's mount (`CacheProofs`):

* `CacheStaysAddressed` and `ReadsStayFresh`: `Spec => []CacheAddressed` and `Spec =>
  []ReadsFresh`.  The invariant adds the types, that a put's name is its data, that a
  put which is writing has its file, and that the hash and the current state the
  handler works with are among the versions seen since the read began.  A put's
  step is a `Splice`, whose value at each place is a lemma of `FileBytesProofs`.
* `CacheStaysWhole`: `Spec => []CacheWhole`.  A put that empties what another has
  written does not say that the file will be whole: the strengthening (`CoverInv`) is
  about each byte, which is in the file, or some put that is writing the file has not
  come to it yet.  A put that fails or is killed has its name in `interrupted`.
* `ClientTypeCorrect`: `Spec => []VfscTypeOK`, from the same invariant with the types
  of the table and of the history.

The daemon's mount (`MountProofs`):

* `OneInodeAlways`: `Spec => []OneInodePerPath`, with hints, reused ids and deletes.
  It is inductive alone: an overwritten entry loses its number, and no path gains a
  second one.
* `GrowthStaysConnected`: `Spec => []GrowsConnected`, that is, until the first delete
  or failure a row without parent row has a call climbing at it or below it.  The
  invariant (`GrowInv`) adds the types, that a call that has not begun its climb
  stands at its own path, and that a call about to add a parent is not at the root.
  `ClimbBegins`, `ClimbGoesOn` and `ClimbLooks` are the three kinds of step of a climb.
* `MountTypeCorrect`: `Spec => []VfsdTypeOK`, with deletes and failures.  That a
  `write_all` leaves a content on disk needs `TreeInv`, that the file a put is
  filling is still a file, and `DirsMade`, that the directories a put made above its
  file stay, so that no other put turns the file into one.  This uses that no path
  is its own ancestor (`TreeAssumption`; `parent` drops a component).
* `WritesSpliceSeen`: `Spec => []WriteSplices`.  `WriteReads` and `WriteGot` say that
  what the handler's read returned is one of the contents seen since the write
  began, while HTTP requests overwrite, delete or turn the path into a directory.
* `MountInodesStayCoherent`: `Spec => []MountInodesCoherent`.  `NumbersInv` says where
  a number comes from: it was counted up, or it is the id of the path's row plus
  `INO_HINT`, or an unlink that has removed the row is about to forget it.

Eviction (`EvictionProofs`), for any files, sizes, watermarks and weights, and any
number of disturbances, failures and crashes, from any table with finitely many rows
of distinct ids (`StartAssumption`):

* `EvictionTypeCorrect`: `Spec => []CycleTypeOK`.  A new id differs from all others
  because the largest of finitely many exists, and a usage is a number because the
  sum over finitely many files is one.
* `EvictsOnlyAboveLowTheorem`, `CycleReachesLowTheorem` and `ColdestFirstTheorem`:
  the three action properties of the run.  None of them is visible in the step it
  speaks of: that step compares `freed` with `used`, or takes the head of a queue.
  The invariant (`CycleInv`) is that in a cycle nothing has disturbed the usage
  measured is what the tier holds now plus what the cycle counts as freed
  (`Measured`), that the queue is made of current rows, has every file once, is
  sorted, and misses no file that can still be evicted (`QueueOK`), and that the
  row looked up is the current one of the queue's head (`SeenCurrent`).

`EvictionProofs` also proves what the usage of a tier is, as a fold over a set: the sum
exists, is unique, and loses exactly the size of a file that leaves the set (`SumExists`
to `SumCongruence`).  These are inductions over finite sets.  They are stated about the
subset of numbers or of sets on which a formula holds, so that they need no operator
as a parameter, and rest on a least counterexample (`SetNatInduction`,
`FiniteInduction`).

Paths (`PathProofs`), for names over any characters, inputs with any number of parts
and paths of any depth.  `NameAssumption` says what a name is: no slash, no NUL, and
none of the parts that `normalize` drops.

* `PathDenotes`: `Spec => []PathDenotesNames`.  The invariant is that the string is
  the rendering of names (`PathInv`); the work is in the operators.  `Split` takes a
  joined string apart (`SplitJoined`).  The loop of `normalize` is a stack, while
  `Resolve` says which names stay by counting the `..` after them; the two meet in
  `StackOf`, the positions that are kept after each part, which a name extends and a
  `..` shortens (`StackPushes`, `StackPops`).
* `ListingIsExact`: `Spec => []ListingIs`.  `LikePrefix` is the lemma it rests on:
  whatever follows, the escaped text of a directory matches that text and nothing
  else, up to letter case, so `%` and `%/%` only decide about what is left.
* `UrlKeepsPath`: `Spec => []UrlRoundTrip`.  `TrimEndAll` says that nothing is trimmed off
  a path that does not end in a space, and `DecodesUrl` that the decoder gives
  back each encoded character before it meets the next.

The loops of `PathStrings` are recursive functions.  For each, a lemma shows by
induction over the string that a function with the defining equation exists
(`SplitExists`, `PushExists`, `LikeRest`, `Decoded`), and further inductions say what it
computes (`SeqInduction`, stated for a set of sequences).

TLC checked the larger inductive invariants before they were proved: `WorkInv` on
the instance of `general`, the parts of `RunInv` on that of `write_once` with two
queued reads, those of the daemon's mount on that of `mount` with two disturbances,
`MigratedInv` on that of `migrate`, and `CycleInv` on that of `eviction`.

Only model-checked:

* the liveness properties `ReplayEnds`, `AckedReachesS3` and `UsageSettles`, which are
  out of the prover's reach;
* `AckedRecoverable` across a restart, which `restart` checks for a workload
  without reads and one crash.  It does not hold for two: a crash between the
  update of the bits and `wal_complete` in `replay_wal` makes the second replay copy
  to the NAS again, over the good copy, and when that put fails and the attempts run
  out the row has a NAS bit for a torn copy.  An upload whose local read fails then
  takes the torn copy for the file, and eviction removes the last good one.

Every other invariant, action property and refinement that a passing run checks is
stated by a theorem.

## 5. Plan

Done, in this order: the tier stack with its tasks (`Fvfsd`), the client's mount
and cache (`VfscFuse`), the tree and the daemon's mount (`VfsdFuse`), migration
(`MigratedFvfsd`), the watermark loop and the score (`EvictionCycle`), paths as
strings (`PathStrings`); then theorems about all of these.  Left:

1. `AckedRecoverable` across one restart, for files written once and never read from a
   cold tier (`MaxQueue = 0 /\ MaxCrashes <= 1`), which `restart` checks.
2. The kind of a path against the disk: `mkdir` over a file being put, orphan
   copies after a delete that races an upload or a promotion.

## 6. Not modelled

* Configuration and error texts: structures without state.
* mDNS registration and discovery: network I/O around a library.
* The CLI, the device registry, status counters and read-only listings of the
  HTTP API: they display, and no other part relies on them.
* The write handlers of the client's mount, which is mounted read-only.
* Code without callers: `evict_if_needed` of the cache, `decay_access_counts`,
  `rank_for_eviction`, `is_prefix_of`.
* Benchmarks.
