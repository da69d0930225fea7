----------------------------- MODULE MountProofs -----------------------------
(***************************************************************************)
(* fvfsd's mount and directory tree, for any tree, any number of HTTP      *)
(* requests and any contents: a path has at most one inode number; until   *)
(* something is deleted or fails every stored path is reachable from the   *)
(* root; every variable keeps its type; a write splices into contents the  *)
(* file had; and the inode table stays a bijection until an HTTP delete.   *)
(***************************************************************************)
EXTENDS VfsdFuse, FileBytesProofs

-----------------------------------------------------------------------------
(* The inode table, with and without hints. *)

\* get_or_alloc: an overwritten number is lost to its old path, never shared.
LEMMA AllocKeepsOne ==
    ASSUME OneInodePerPath, NEW p, NEW hint, get_or_alloc(p, hint) PROVE OneInodePerPath'
<1>1. CASE HasPath(p)
  BY <1>1 DEF get_or_alloc, OneInodePerPath, HasPath, tableVars
<1>2. CASE ~HasPath(p)
  <2> DEFINE n == InoOf(p, hint)
  <2>1. ino_to_path' = Insert(ino_to_path, n, p) /\ path_to_ino' = Insert(path_to_ino, p, n)
    BY <1>2 DEF get_or_alloc
  <2> HIDE DEF n
  <2> QED BY <1>2, <2>1 DEF Insert, OneInodePerPath, HasPath
<1> QED BY <1>1, <1>2

\* remove: the path and the number it has go together.
LEMMA RemoveKeepsOne ==
    ASSUME OneInodePerPath, NEW p, remove(p) PROVE OneInodePerPath'
<1>1. CASE HasPath(p)
  BY <1>1 DEF remove, Without, OneInodePerPath, HasPath
<1>2. CASE ~HasPath(p)
  BY <1>2 DEF remove, OneInodePerPath, HasPath, tableVars
<1> QED BY <1>1, <1>2

\* Every step of the mount and of the HTTP requests.
LEMMA OneInodeStep == OneInodePerPath /\ [Next]_vars => OneInodePerPath'
<1> SUFFICES ASSUME OneInodePerPath, [Next]_vars PROVE OneInodePerPath'
  OBVIOUS
<1>1. ASSUME UNCHANGED tableVars PROVE OneInodePerPath'
  BY <1>1 DEF OneInodePerPath, HasPath, tableVars
<1>2. CASE FuseStep
  <2>1. ASSUME NEW p \in Paths, Lookup(p) PROVE OneInodePerPath'
    BY <1>1, <2>1, AllocKeepsOne DEF Lookup
  <2>2. ASSUME NEW d \in Paths, NEW p \in Paths, ReaddirEntry(d, p) PROVE OneInodePerPath'
    BY <2>2, AllocKeepsOne DEF ReaddirEntry
  <2>3. CASE EntryReply
    BY <1>1, <2>3, AllocKeepsOne DEF EntryReply
  <2>4. CASE UnlinkReply
    BY <1>1, <2>4, RemoveKeepsOne DEF UnlinkReply
  <2>5. CASE \/ \E p \in Paths : BeginCreate(p) \/ BeginMkdir(p) \/ BeginUnlink(p)
             \/ \E i \in DOMAIN ino_to_path :
                  BeginTruncate(i) \/ \E off \in 0..(MaxLen - 1) : BeginWrite(i, off)
             \/ WriteBack \/ WriteReply
    BY <1>1, <2>5 DEF BeginCreate, BeginMkdir, BeginUnlink, BeginTruncate, BeginWrite, Begin,
                      WriteBack, WriteReply
  <2> QED BY <1>2, <2>1, <2>2, <2>3, <2>4, <2>5 DEF FuseStep
<1>3. CASE HttpStep \/ CallStep \/ UNCHANGED vars
  <2>1. UNCHANGED tableVars
    BY <1>3 DEF HttpStep, HttpPut, HttpDelete, HttpReply, CallStep, vars
  <2> QED BY <1>1, <2>1
<1> QED BY <1>2, <1>3 DEF Next

(***************************************************************************)
(* Whatever row ids are reused and whatever HTTP requests delete, no path  *)
(* of fvfsd's mount is ever known under two inode numbers, and removing a  *)
(* path leaves no number that still resolves to it (InodeTable).           *)
(***************************************************************************)
THEOREM OneInodeAlways == Spec => []OneInodePerPath
<1>1. Init => OneInodePerPath
  BY DEF Init, TableInit, OneInodePerPath, HasPath
<1> QED BY <1>1, OneInodeStep, PTL DEF Spec

-----------------------------------------------------------------------------
(* The tree while nothing is deleted and nothing fails. *)

Deleting == {"delete", "rm", "rmrow"}

Pcs == Deleting \cup {"idle", "put", "fill", "upsert", "mkdir", "parents", "mkparent", "row", "body",
                      "returned"}

Ops == {"none", "create", "mkdir", "write", "written", "truncate", "unlink", "put", "delete"}

CallRec ==
    [pc : Pcs, op : Ops, path : Paths, cur : Paths, off : 0..(MaxLen - 1),
     data : Contents, res : {"none", "ok", "notfound", "error"}]

CountsType == [call : Nat, unlink : Nat, delete : Nat, fault : Nat]

CallsInv ==
    /\ calls \in [Callers -> CallRec]
    /\ counts \in CountsType
    /\ \A c \in Callers :
         /\ calls[c].pc \in {"put", "fill", "upsert", "mkdir"} => calls[c].cur = calls[c].path
         /\ calls[c].pc = "mkparent" => calls[c].cur # Root
         /\ calls[c].pc \notin Deleting

\* A router call that has still to give p's parent its row.
Climbs(p) ==
    \E c \in Callers :
        /\ calls[c].pc \in {"parents", "mkparent"}
        /\ p = calls[c].cur \/ p \in Ancestors[calls[c].cur]

GrowInv == rowid \in [Paths -> Nat] /\ CallsInv /\ Connected

\* An upsert adds the one row.
LEMMA UpsertAdds ==
    ASSUME rowid \in [Paths -> Nat], NEW p \in Paths, NEW d, UpsertRow(p, d)
    PROVE  /\ rowid' \in [Paths -> Nat]
           /\ \A q \in Paths : HasRow(q)' <=> HasRow(q) \/ q = p
<1>1. CASE HasRow(p)
  BY <1>1 DEF UpsertRow, HasRow
<1>2. CASE ~HasRow(p)
  <2>1. PICK n \in {rowid[q] + 1 : q \in Paths} : rowid' = [rowid EXCEPT ![p] = n]
    BY <1>2 DEF UpsertRow
  <2>2. n \in Nat /\ n # 0
    BY <2>1
  <2> QED BY <2>1, <2>2 DEF HasRow
<1> QED BY <1>1, <1>2

\* A step that adds no row, and after which every climb that was needed is
\* still going on, keeps the tree connected.
LEMMA StillConnected ==
    ASSUME Connected, rowid' = rowid,
           \A p \in Paths \ {Root} : Climbs(p) => Climbs(p)' \/ HasRow(Parent[p])
    PROVE  Connected'
BY DEF Connected, Climbs, HasRow

\* A call of another process, or one that is not climbing, does not matter.
LEMMA OthersClimb ==
    ASSUME CallsInv, NEW c \in Callers, calls[c].pc \notin {"parents", "mkparent"},
           NEW r, calls' = [calls EXCEPT ![c] = r], NEW p, Climbs(p)
    PROVE  Climbs(p)'
BY DEF CallsInv, Climbs

\* A caller that is not climbing goes on to another step of its call, to
\* another call, or is done.
LEMMA CallReplaced ==
    ASSUME GrowInv, NEW c \in Callers, calls[c].pc \notin {"parents", "mkparent"},
           NEW r \in CallRec, calls' = [calls EXCEPT ![c] = r],
           r.pc \in {"put", "fill", "upsert", "mkdir"} => r.cur = r.path, r.pc \notin Deleting \cup {"mkparent"},
           rowid' = rowid, counts' \in CountsType
    PROVE  GrowInv'
<1>1. CallsInv'
  BY DEF GrowInv, CallsInv, CountsType, Deleting
<1>2. Connected'
  BY OthersClimb, StillConnected DEF GrowInv
<1> QED BY <1>1, <1>2 DEF GrowInv

\* The other callers' records stay.
LEMMA OneCall ==
    ASSUME calls \in [Callers -> CallRec], NEW c \in Callers, NEW r \in CallRec,
           calls' = [calls EXCEPT ![c] = r]
    PROVE  /\ calls' \in [Callers -> CallRec] /\ calls'[c] = r
           /\ \A b \in Callers \ {c} : calls'[b] = calls[b]
OBVIOUS

\* Two changes of one record are one change.
LEMMA OneChange ==
    ASSUME calls \in [Callers -> CallRec], NEW c \in Callers
    PROVE  /\ \A pc : [calls EXCEPT ![c].pc = pc] = [calls EXCEPT ![c] = [calls[c] EXCEPT !.pc = pc]]
           /\ \A res : [calls EXCEPT ![c].pc = "returned", ![c].res = res]
                      = [calls EXCEPT ![c] = [calls[c] EXCEPT !.pc = "returned", !.res = res]]
           /\ \A d : [calls EXCEPT ![c].pc = "returned", ![c].res = "ok", ![c].data = d]
                      = [calls EXCEPT ![c] = [calls[c] EXCEPT !.pc = "returned", !.res = "ok", !.data = d]]
           /\ \A q : [calls EXCEPT ![c].pc = "parents", ![c].cur = q]
                      = [calls EXCEPT ![c] = [calls[c] EXCEPT !.pc = "parents", !.cur = q]]
OBVIOUS

\* The file's or the directory's own row is added and the climb begins.
LEMMA ClimbBegins ==
    ASSUME GrowInv, NEW c \in Callers, calls[c].pc \in {"upsert", "mkdir"}, NEW d,
           UpsertRow(calls[c].path, d), Go(c, "parents"), UNCHANGED counts
    PROVE  GrowInv'
<1> PICK p : p = calls[c].path
  OBVIOUS
<1> PICK r : r = [calls[c] EXCEPT !.pc = "parents"]
  OBVIOUS
<1>1. /\ calls[c] \in CallRec /\ calls \in [Callers -> CallRec] /\ calls[c].cur = p
      /\ rowid \in [Paths -> Nat] /\ CallsInv /\ Connected
  BY DEF GrowInv, CallsInv
<1>2. p \in Paths
  BY <1>1 DEF CallRec
<1>3. rowid' \in [Paths -> Nat] /\ \A q \in Paths : HasRow(q)' <=> HasRow(q) \/ q = p
  BY <1>1, <1>2, UpsertAdds
<1>4. r \in CallRec /\ r.pc = "parents" /\ r.cur = p
  BY <1>1 DEF CallRec, Pcs
<1>5. calls' = [calls EXCEPT ![c] = r]
  BY <1>1, OneChange DEF Go
<1>6. /\ calls' \in [Callers -> CallRec] /\ calls'[c] = r
      /\ \A b \in Callers \ {c} : calls'[b] = calls[b]
  BY <1>1, <1>4, <1>5, OneCall
<1>7. CallsInv'
  BY <1>1, <1>4, <1>6 DEF CallsInv, Deleting
<1>8. \A q \in Paths : Climbs(q) => Climbs(q)'
  BY <1>4, <1>6 DEF Climbs
<1>9. Climbs(p)'
  BY <1>4, <1>6 DEF Climbs
<1>10. \A q \in Paths \ {Root} : HasRow(q)' => HasRow(Parent[q])' \/ Climbs(q)'
  <2> SUFFICES ASSUME NEW q \in Paths \ {Root}, HasRow(q)', q # p
               PROVE  HasRow(Parent[q])' \/ Climbs(q)'
    BY <1>9
  <2>1. HasRow(Parent[q]) \/ Climbs(q)
    BY <1>1, <1>3 DEF Connected, Climbs
  <2>2. Parent[q] \in Paths
    BY TreeAssumption
  <2> QED BY <1>3, <1>8, <2>1, <2>2
<1> QED BY <1>3, <1>7, <1>10 DEF GrowInv, Connected, Climbs

\* The parent has its row: the climb goes on from there.
LEMMA ClimbGoesOn ==
    ASSUME GrowInv, NEW c \in Callers, calls[c].pc \in {"parents", "mkparent"},
           calls[c].cur # Root, rowid' \in [Paths -> Nat],
           \A q \in Paths : HasRow(q)' <=> HasRow(q) \/ q = Parent[calls[c].cur],
           calls' = [calls EXCEPT ![c].pc = "parents", ![c].cur = Parent[calls[c].cur]],
           UNCHANGED counts
    PROVE  GrowInv'
<1> PICK cur, up : cur = calls[c].cur /\ up = Parent[cur]
  OBVIOUS
<1> PICK r : r = [calls[c] EXCEPT !.pc = "parents", !.cur = up]
  OBVIOUS
<1>1. /\ calls[c] \in CallRec /\ calls \in [Callers -> CallRec] /\ CallsInv /\ Connected
  BY DEF GrowInv, CallsInv
<1>2. cur \in Paths \ {Root} /\ up \in Paths /\ Ancestors[cur] = {up} \cup Ancestors[up]
  BY <1>1, TreeAssumption DEF CallRec
<1>3. r \in CallRec /\ r.pc = "parents" /\ r.cur = up
  BY <1>1, <1>2 DEF CallRec, Pcs
<1>4. calls' = [calls EXCEPT ![c] = r]
  BY <1>1, OneChange
<1>5. \A q \in Paths : HasRow(q)' <=> HasRow(q) \/ q = up
  OBVIOUS
<1>7. /\ calls' \in [Callers -> CallRec] /\ calls'[c] = r
      /\ \A b \in Callers \ {c} : calls'[b] = calls[b]
  BY <1>1, <1>3, <1>4, OneCall
<1>8. CallsInv'
  BY <1>1, <1>3, <1>7 DEF CallsInv, Deleting
<1>9. \A q \in Paths : Climbs(q) => Climbs(q)' \/ q = cur
  BY <1>2, <1>3, <1>7 DEF Climbs
<1>10. HasRow(up)' /\ Climbs(up)'
  BY <1>2, <1>3, <1>5, <1>7 DEF Climbs
<1>11. \A q \in Paths \ {Root} : HasRow(q)' => HasRow(Parent[q])' \/ Climbs(q)'
  <2> SUFFICES ASSUME NEW q \in Paths \ {Root}, HasRow(q)'
               PROVE  HasRow(Parent[q])' \/ Climbs(q)'
    OBVIOUS
  <2>1. Parent[q] \in Paths
    BY TreeAssumption
  <2>2. CASE q = up \/ q = cur
    BY <1>10, <2>2
  <2>3. CASE q # up /\ q # cur
    <3>1. HasRow(Parent[q]) \/ Climbs(q)
      BY <1>1, <1>5, <2>3 DEF Connected, Climbs
    <3> QED BY <1>5, <1>9, <2>1, <2>3, <3>1
  <2> QED BY <2>2, <2>3
<1> QED BY <1>8, <1>11 DEF GrowInv, Connected, Climbs

\* The climb has reached the root, or has found a parent without a row.
LEMMA ClimbLooks ==
    ASSUME GrowInv, NEW c \in Callers, ParentRow(c), UNCHANGED counts PROVE GrowInv'
<1> DEFINE cur == calls[c].cur
<1>1. /\ calls[c].pc = "parents" /\ rowid' = rowid
      /\ calls[c] \in CallRec /\ calls \in [Callers -> CallRec]
      /\ CallsInv /\ Connected /\ rowid \in [Paths -> Nat]
  BY DEF GrowInv, CallsInv, ParentRow, At
<1>2. cur \in Paths
  BY <1>1 DEF CallRec
<1>3. CASE cur = Root
  <2> PICK res \in {"ok", "error"} : Result(c, res)
    BY <1>3 DEF ParentRow
  <2> PICK r : r = [calls[c] EXCEPT !.pc = "returned", !.res = res]
    OBVIOUS
  <2>1. r \in CallRec /\ r.pc = "returned"
    BY <1>1 DEF CallRec, Pcs
  <2>2. calls' = [calls EXCEPT ![c] = r]
    BY <1>1, OneChange DEF Result
  <2>3. /\ calls' \in [Callers -> CallRec] /\ calls'[c] = r
        /\ \A b \in Callers \ {c} : calls'[b] = calls[b]
    BY <1>1, <2>1, <2>2, OneCall
  <2>4. CallsInv'
    BY <1>1, <2>1, <2>3 DEF CallsInv, Deleting
  <2>5. Ancestors[Root] = {}
    BY RootAssumption, TreeAssumption
  <2>6. \A q \in Paths \ {Root} : Climbs(q) => Climbs(q)'
    BY <1>3, <2>3, <2>5 DEF Climbs
  <2> QED BY <1>1, <2>4, <2>6, StillConnected DEF GrowInv
<1>4. CASE cur # Root /\ HasRow(Parent[cur])
  <2>1. calls' = [calls EXCEPT ![c].cur = Parent[cur]]
    BY <1>4 DEF ParentRow
  <2>2. calls' = [calls EXCEPT ![c].pc = "parents", ![c].cur = Parent[cur]]
    BY <1>1, <2>1 DEF CallRec
  <2>3. \A q \in Paths : HasRow(q)' <=> HasRow(q) \/ q = Parent[cur]
    BY <1>1, <1>4 DEF HasRow
  <2> QED BY <1>1, <1>4, <2>2, <2>3, ClimbGoesOn
<1>5. CASE cur # Root /\ ~HasRow(Parent[cur])
  <2> PICK r : r = [calls[c] EXCEPT !.pc = "mkparent"]
    OBVIOUS
  <2>1. r \in CallRec /\ r.pc = "mkparent" /\ r.cur = cur
    BY <1>1 DEF CallRec, Pcs
  <2>2. calls' = [calls EXCEPT ![c] = r]
    BY <1>1, <1>5, OneChange DEF ParentRow, Go
  <2>3. /\ calls' \in [Callers -> CallRec] /\ calls'[c] = r
        /\ \A b \in Callers \ {c} : calls'[b] = calls[b]
    BY <1>1, <2>1, <2>2, OneCall
  <2>4. CallsInv'
    BY <1>1, <1>5, <2>1, <2>3 DEF CallsInv, Deleting
  <2>5. \A q \in Paths : Climbs(q) => Climbs(q)'
    BY <2>1, <2>3 DEF Climbs
  <2> QED BY <1>1, <2>4, <2>5, StillConnected DEF GrowInv
<1> QED BY <1>3, <1>4, <1>5

\* Go and Result of a call that is not climbing, to a step that is not a climb.
LEMMA GoGrows ==
    ASSUME GrowInv, NEW c \in Callers, calls[c].pc \notin {"parents", "mkparent"},
           NEW pc \in {"fill", "upsert", "body"}, Go(c, pc),
           pc # "body" => calls[c].pc \in {"put", "fill"}, rowid' = rowid, UNCHANGED counts
    PROVE  GrowInv'
<1> PICK r : r = [calls[c] EXCEPT !.pc = pc]
  OBVIOUS
<1>1. /\ calls[c] \in CallRec /\ calls \in [Callers -> CallRec] /\ counts \in CountsType
      /\ pc # "body" => calls[c].cur = calls[c].path
  BY DEF GrowInv, CallsInv
<1>2. r \in CallRec /\ r.pc = pc /\ r.cur = calls[c].cur /\ r.path = calls[c].path
  <2>1. pc \in Pcs
    BY DEF Pcs
  <2> QED BY <1>1, <2>1 DEF CallRec
<1>3. calls' = [calls EXCEPT ![c] = r]
  BY <1>1, OneChange DEF Go
<1> QED BY <1>1, <1>2, <1>3, CallReplaced DEF Deleting

\* A call that ends.
LEMMA ResultGrows ==
    ASSUME GrowInv, NEW c \in Callers, calls[c].pc \notin {"parents", "mkparent"},
           NEW res \in {"ok", "notfound", "error"}, Result(c, res),
           rowid' = rowid, UNCHANGED counts
    PROVE  GrowInv'
<1> PICK r : r = [calls[c] EXCEPT !.pc = "returned", !.res = res]
  OBVIOUS
<1>1. calls[c] \in CallRec /\ calls \in [Callers -> CallRec] /\ counts \in CountsType
  BY DEF GrowInv, CallsInv
<1>2. r \in CallRec /\ r.pc = "returned"
  BY <1>1 DEF CallRec, Pcs
<1>3. calls' = [calls EXCEPT ![c] = r]
  BY <1>1, OneChange DEF Result
<1> QED BY <1>1, <1>2, <1>3, CallReplaced DEF Deleting

\* A new call, or the end of one.
LEMMA CallGrows ==
    ASSUME GrowInv, NEW c \in Callers, calls[c].pc \notin {"parents", "mkparent"},
           NEW pc \in {"idle", "put", "mkdir", "row"}, NEW op \in Ops, NEW p \in Paths,
           NEW off \in 0..(MaxLen - 1), NEW data \in Contents,
           Call(c, pc, op, p, off, data), rowid' = rowid, counts' \in CountsType
    PROVE  GrowInv'
<1> DEFINE r == [pc |-> pc, op |-> op, path |-> p, cur |-> p, off |-> off, data |-> data,
                 res |-> "none"]
<1>1. r \in CallRec /\ r.pc = pc /\ r.cur = p /\ r.path = p
  BY DEF CallRec, Pcs
<1>2. calls' = [calls EXCEPT ![c] = r]
  BY DEF Call
<1> HIDE DEF r
<1> QED BY <1>1, <1>2, CallReplaced DEF Deleting

\* Finish and HttpReply.
LEMMA DoneGrows ==
    ASSUME GrowInv, NEW c \in Callers, calls[c].pc = "returned",
           calls' = [calls EXCEPT ![c] = NoCall], rowid' = rowid, UNCHANGED counts
    PROVE  GrowInv'
<1>1. 0 \in 0..(MaxLen - 1) /\ <<>> \in Contents /\ counts \in CountsType
  BY MaxLenAssumption, EmptyContents DEF GrowInv, CallsInv
<1>2. Call(c, "idle", "none", Root, 0, <<>>)
  BY DEF Call, NoCall
<1> QED BY <1>1, <1>2, RootAssumption, CallGrows DEF Ops

\* Every step of a router call.
LEMMA RouterGrows ==
    ASSUME GrowInv, NEW c \in Callers, RouterStep(c), UNCHANGED counts PROVE GrowInv'
<1>1. /\ calls[c] \in CallRec /\ calls[c].pc \in Pcs /\ calls[c].path \in Paths
      /\ calls[c].cur \in Paths /\ calls \in [Callers -> CallRec]
      /\ calls[c].pc = "mkparent" => calls[c].cur # Root
      /\ calls[c].pc \notin Deleting
      /\ rowid \in [Paths -> Nat] /\ counts \in CountsType
  BY DEF GrowInv, CallsInv, CallRec
<1>2. CASE WriteCreate(c) \/ WriteFill(c)
  <2>1. calls[c].pc \in {"put", "fill"} /\ rowid' = rowid
    BY <1>2 DEF WriteCreate, WriteFill, At
  <2>2. Result(c, "error") \/ Go(c, "fill") \/ Go(c, "upsert")
    BY <1>2 DEF WriteCreate, WriteFill
  <2> QED BY <2>1, <2>2, ResultGrows, GoGrows
<1>3. CASE WriteUpsert(c)
  BY <1>3, ClimbBegins DEF WriteUpsert, At
<1>4. CASE MkdirUpsert(c)
  BY <1>4, ClimbBegins DEF MkdirUpsert, At
<1>5. CASE ParentRow(c)
  BY <1>5, ClimbLooks
<1>6. CASE ParentUpsert(c)
  <2>1. calls[c].pc = "mkparent" /\ calls[c].cur # Root
    BY <1>1, <1>6 DEF ParentUpsert, At
  <2>2. Parent[calls[c].cur] \in Paths
    BY <1>1, <2>1, TreeAssumption
  <2>3. UpsertRow(Parent[calls[c].cur], TRUE)
    BY <1>6 DEF ParentUpsert
  <2>4. /\ rowid' \in [Paths -> Nat]
        /\ \A q \in Paths : HasRow(q)' <=> HasRow(q) \/ q = Parent[calls[c].cur]
    BY <1>1, <2>2, <2>3, UpsertAdds
  <2>5. calls' = [calls EXCEPT ![c].pc = "parents", ![c].cur = Parent[calls[c].cur]]
    BY <1>6 DEF ParentUpsert
  <2> QED BY <2>1, <2>4, <2>5, ClimbGoesOn
<1>7. CASE ReadRow(c)
  <2>1. calls[c].pc = "row" /\ rowid' = rowid
    BY <1>7 DEF ReadRow, At
  <2>2. Result(c, "notfound") \/ Result(c, "error") \/ Go(c, "body")
    BY <1>7 DEF ReadRow
  <2> QED BY <2>1, <2>2, ResultGrows, GoGrows
<1>8. CASE ReadBody(c)
  <2>1. calls[c].pc = "body" /\ rowid' = rowid
    BY <1>8 DEF ReadBody, At
  <2>2. CASE Result(c, "notfound")
    BY <2>1, <2>2, ResultGrows
  <2>3. CASE ~Result(c, "notfound")
    <3> PICK d \in Contents :
           calls' = [calls EXCEPT ![c].pc = "returned", ![c].res = "ok", ![c].data = d]
      BY <1>8, <2>3 DEF ReadBody
    <3> PICK r : r = [calls[c] EXCEPT !.pc = "returned", !.res = "ok", !.data = d]
      OBVIOUS
    <3>1. r \in CallRec /\ r.pc = "returned"
      BY <1>1 DEF CallRec, Pcs
    <3>2. calls' = [calls EXCEPT ![c] = r]
      BY <1>1, OneChange
    <3> QED BY <1>1, <2>1, <3>1, <3>2, CallReplaced DEF Deleting
  <2> QED BY <2>2, <2>3
<1>9. CASE DeleteRequire(c) \/ DeleteFile(c) \/ DeleteRow(c)
  BY <1>1, <1>9 DEF DeleteRequire, DeleteFile, DeleteRow, At, Deleting
<1> QED BY <1>2, <1>3, <1>4, <1>5, <1>6, <1>7, <1>8, <1>9 DEF RouterStep

\* Counting: an undisturbed step was undisturbed before and counts calls only.
LEMMA CountsUp ==
    ASSUME counts \in CountsType, NEW w \in {"call", "unlink", "delete", "fault"}, NEW n, Count(w, n)
    PROVE  counts' \in CountsType /\ (Undisturbed' => Undisturbed /\ w = "call")
BY DEF Count, CountsType, Undisturbed

\* A step of the mount.
LEMMA FuseGrows ==
    ASSUME Undisturbed', GrowInv, TableTypeOK, FuseStep PROVE GrowInv'
<1>1. /\ Fuse \in Callers /\ 0 \in 0..(MaxLen - 1) /\ <<>> \in Contents
      /\ counts \in CountsType /\ calls[Fuse] \in CallRec
  BY CallersAssumption, MaxLenAssumption, EmptyContents DEF GrowInv, CallsInv
<1>2. ASSUME NEW pc \in {"put", "mkdir", "row"}, NEW op \in Ops, NEW p \in Paths,
             NEW off \in 0..(MaxLen - 1), Begin(pc, op, p, off, <<>>)
      PROVE  GrowInv'
  BY <1>1, <1>2, CountsUp, CallGrows DEF Begin, At
<1>3. ASSUME NEW p \in Paths, BeginCreate(p) \/ BeginMkdir(p) PROVE GrowInv'
  BY <1>1, <1>2, <1>3 DEF BeginCreate, BeginMkdir, Ops
<1>4. ASSUME NEW i \in DOMAIN ino_to_path, NEW off \in 0..(MaxLen - 1),
             BeginTruncate(i) \/ BeginWrite(i, off)
      PROVE  GrowInv'
  <2>1. PathOf(i) \in Paths
    BY DEF TableTypeOK, PathOf
  <2> QED BY <1>1, <1>2, <1>4, <2>1 DEF BeginTruncate, BeginWrite, Ops
<1>5. CASE WriteBack
  <2> DEFINE old == IF Ok THEN calls[Fuse].data ELSE <<>>
             new == Splice(old, calls[Fuse].off, <<1>>)
  <2>1. calls[Fuse].off \in 0..(MaxLen - 1) /\ calls[Fuse].path \in Paths /\ old \in Contents
    BY <1>1 DEF CallRec
  <2>2. <<1>> \in Contents /\ Len(<<1>>) = 1
    <3>1. <<1>> \in Seq(Bytes) /\ Len(<<1>>) = 1
      BY ByteAssumption
    <3>2. Len(<<1>>) <= MaxLen
      BY <3>1, MaxLenAssumption
    <3> QED BY <3>1, <3>2, ContentsAreSeqs, Zenon
  <2>3. calls[Fuse].off \in Nat /\ calls[Fuse].off + Len(<<1>>) <= MaxLen
    BY <2>1, <2>2, MaxLenAssumption
  <2>4. new \in Contents
    BY <2>1, <2>2, <2>3, SpliceContents
  <2>5. /\ Call(Fuse, "put", "written", calls[Fuse].path, calls[Fuse].off, new)
        /\ calls[Fuse].pc = "returned" /\ rowid' = rowid /\ counts' \in CountsType
    BY <1>1, <1>5 DEF WriteBack, Returned, At
  <2> HIDE DEF new
  <2> QED BY <1>1, <2>1, <2>4, <2>5, CallGrows DEF Ops
<1>6. CASE EntryReply \/ UnlinkReply \/ WriteReply
  BY <1>1, <1>6, DoneGrows DEF EntryReply, UnlinkReply, WriteReply, Returned, At, Finish
<1>7. ASSUME NEW p \in Paths, Lookup(p) \/ BeginUnlink(p) \/ \E d \in Paths : ReaddirEntry(d, p)
      PROVE  GrowInv'
  <2>1. UNCHANGED <<treeVars, counts>>
    BY <1>1, <1>7, CountsUp DEF Lookup, BeginUnlink, ReaddirEntry
  <2> QED BY <2>1 DEF treeVars, GrowInv, CallsInv, Connected, HasRow
<1> QED BY <1>1, <1>3, <1>4, <1>5, <1>6, <1>7 DEF FuseStep

\* A step of an HTTP request.
LEMMA HttpGrows ==
    ASSUME Undisturbed', GrowInv, HttpStep PROVE GrowInv'
<1> PICK c \in Http : \/ \E p \in Paths, data \in Writes : HttpPut(c, p, data)
                      \/ \E p \in Paths : HttpDelete(c, p)
                      \/ HttpReply(c)
  BY DEF HttpStep
<1>1. c \in Callers /\ counts \in CountsType /\ 0 \in 0..(MaxLen - 1)
  BY CallersAssumption, MaxLenAssumption DEF GrowInv, CallsInv
<1>2. ASSUME NEW p \in Paths, NEW data \in Writes, HttpPut(c, p, data) PROVE GrowInv'
  <2>1. data \in Contents
    BY WritesAssumption
  <2> QED BY <1>1, <1>2, <2>1, CountsUp, CallGrows DEF HttpPut, At, Ops
<1>3. ASSUME NEW p \in Paths PROVE ~HttpDelete(c, p)
  BY <1>1, CountsUp DEF HttpDelete
<1>4. CASE HttpReply(c)
  BY <1>1, <1>4, DoneGrows DEF HttpReply, At
<1> QED BY <1>2, <1>3, <1>4

\* The type of the inode table, which the mount's requests rest on.
LEMMA AllocType ==
    ASSUME TableTypeOK, NEW p \in Paths, NEW hint \in Nat, get_or_alloc(p, hint)
    PROVE  TableTypeOK'
<1>1. CASE HasPath(p)
  BY <1>1 DEF get_or_alloc, TableTypeOK, tableVars
<1>2. CASE ~HasPath(p)
  <2> DEFINE n == InoOf(p, hint)
  <2>1. n \in Nat
    BY <1>2 DEF InoOf, TableTypeOK
  <2>2. /\ ino_to_path' = Insert(ino_to_path, n, p) /\ path_to_ino' = Insert(path_to_ino, p, n)
        /\ next_ino' \in Nat
    BY <1>2 DEF get_or_alloc, TableTypeOK
  <2> HIDE DEF n
  <2> QED BY <2>1, <2>2 DEF Insert, TableTypeOK
<1> QED BY <1>1, <1>2

\* remove keeps the table's types.
LEMMA RemoveType ==
    ASSUME TableTypeOK, NEW p, remove(p) PROVE TableTypeOK'
BY DEF remove, Without, TableTypeOK, tableVars

\* The type of the inode table in every step.
LEMMA TableTypeStep ==
    ASSUME rowid \in [Paths -> Nat], calls \in [Callers -> CallRec], TableTypeOK, [Next]_vars
    PROVE  TableTypeOK'
<1>1. ASSUME UNCHANGED tableVars PROVE TableTypeOK'
  BY <1>1 DEF TableTypeOK, tableVars
<1>2. NoHint \in Nat /\ \A p \in Paths : rowid[p] + INO_HINT \in Nat
  BY HintAssumption DEF NoHint
<1>3. calls[Fuse].path \in Paths
  BY CallersAssumption DEF CallRec
<1>4. CASE FuseStep
  <2>1. ASSUME NEW p \in Paths, Lookup(p) PROVE TableTypeOK'
    BY <1>1, <1>2, <2>1, AllocType DEF Lookup
  <2>2. ASSUME NEW d \in Paths, NEW p \in Paths, ReaddirEntry(d, p) PROVE TableTypeOK'
    BY <1>2, <2>2, AllocType DEF ReaddirEntry
  <2>3. CASE EntryReply
    BY <1>1, <1>2, <1>3, <2>3, AllocType DEF EntryReply
  <2>4. CASE UnlinkReply
    BY <1>1, <2>4, RemoveType DEF UnlinkReply
  <2>5. CASE \/ \E p \in Paths : BeginCreate(p) \/ BeginMkdir(p) \/ BeginUnlink(p)
             \/ \E i \in DOMAIN ino_to_path :
                  BeginTruncate(i) \/ \E off \in 0..(MaxLen - 1) : BeginWrite(i, off)
             \/ WriteBack \/ WriteReply
    BY <1>1, <2>5 DEF BeginCreate, BeginMkdir, BeginUnlink, BeginTruncate, BeginWrite, Begin,
                      WriteBack, WriteReply
  <2> QED BY <1>4, <2>1, <2>2, <2>3, <2>4, <2>5 DEF FuseStep
<1>5. CASE HttpStep \/ CallStep \/ UNCHANGED vars
  <2>1. UNCHANGED tableVars
    BY <1>5 DEF HttpStep, HttpPut, HttpDelete, HttpReply, CallStep, vars
  <2> QED BY <1>1, <2>1
<1> QED BY <1>4, <1>5 DEF Next

\* Every step, while nothing is deleted and nothing fails.
LEMMA GrowStep ==
    ASSUME GrowInv, TableTypeOK, [Next]_vars, Undisturbed' PROVE GrowInv'
<1>1. CASE FuseStep
  BY <1>1, FuseGrows
<1>2. CASE HttpStep
  BY <1>2, HttpGrows
<1>3. CASE CallStep
  <2>1. PICK c \in Callers : \/ RouterStep(c) /\ UNCHANGED counts
                             \/ Count("fault", MaxFaults)
    BY <1>3 DEF CallStep
  <2>2. ~Count("fault", MaxFaults)
    BY CountsUp DEF GrowInv, CallsInv
  <2> QED BY <2>1, <2>2, RouterGrows
<1>4. CASE UNCHANGED vars
  BY <1>4 DEF vars, treeVars, GrowInv, CallsInv, Connected, HasRow
<1> QED BY <1>1, <1>2, <1>3, <1>4 DEF Next

\* The counters only grow.
LEMMA CountsStep ==
    ASSUME counts \in CountsType, [Next]_vars
    PROVE  counts' \in CountsType /\ (Undisturbed' => Undisturbed)
<1>1. CASE UNCHANGED counts
  BY <1>1 DEF Undisturbed
<1>2. ASSUME NEW w \in {"call", "unlink", "delete", "fault"}, NEW n, Count(w, n)
      PROVE  counts' \in CountsType /\ (Undisturbed' => Undisturbed)
  BY <1>2, CountsUp
<1>3. CASE FuseStep
  BY <1>1, <1>2, <1>3 DEF FuseStep, Lookup, ReaddirEntry, BeginCreate, BeginMkdir, BeginWrite,
       BeginTruncate, Begin, BeginUnlink, WriteBack, EntryReply, UnlinkReply, WriteReply
<1>4. CASE HttpStep
  BY <1>1, <1>2, <1>4 DEF HttpStep, HttpPut, HttpDelete, HttpReply
<1>5. CASE CallStep
  BY <1>1, <1>2, <1>5 DEF CallStep
<1>6. CASE UNCHANGED vars
  BY <1>1, <1>6 DEF vars
<1> QED BY <1>3, <1>4, <1>5, <1>6 DEF Next

(***************************************************************************)
(* Until something is deleted or fails, every stored path is reachable     *)
(* from the root by its ancestors' rows, or a call still inside            *)
(* ensure_parent_dirs is about to add the one that is missing: for every   *)
(* tree, every number of HTTP requests and every order of their steps      *)
(* (TierRouter::write, mkdir, ensure_parent_dirs).                         *)
(***************************************************************************)
THEOREM GrowthStaysConnected == Spec => []GrowsConnected
<1> DEFINE Inv == counts \in CountsType /\ (Undisturbed => GrowInv /\ TableTypeOK)
<1>1. Init => Inv
  <2> SUFFICES ASSUME Init PROVE Inv
    OBVIOUS
  <2>1. rowid \in [Paths -> Nat] /\ Connected
    BY DEF Init, NamespaceInit, Connected, HasRow
  <2>2. NoCall \in CallRec /\ NoCall.pc = "idle"
    BY MaxLenAssumption, EmptyContents, RootAssumption DEF NoCall, CallRec, Pcs, Ops
  <2>3. CallsInv
    BY <2>2 DEF Init, NamespaceInit, CallsInv, CountsType, Deleting
  <2>4. TableTypeOK
    BY RootAssumption DEF Init, TableInit, TableTypeOK, ROOT_INO
  <2> QED BY <2>1, <2>3, <2>4 DEF GrowInv, CallsInv
<1>2. Inv => GrowsConnected
  BY DEF GrowInv, GrowsConnected
<1>3. Inv /\ [Next]_vars => Inv'
  <2>1. GrowInv => rowid \in [Paths -> Nat] /\ calls \in [Callers -> CallRec]
    BY DEF GrowInv, CallsInv
  <2> QED BY <2>1, GrowStep, TableTypeStep, CountsStep
<1> QED BY <1>1, <1>2, <1>3, PTL DEF Spec

-----------------------------------------------------------------------------
(* The tree and the calls in every step, deletes and failures included. *)

\* What a call's record may be, for the mount's own handler and for HTTP requests.
CallOk(c, r) ==
    /\ r \in CallRec
    /\ r.pc = "idle" => r.op = "none"
    /\ r.pc = "mkparent" => r.cur # Root
    /\ r.pc \in {"put", "fill", "upsert", "mkdir"} => r.cur = r.path
    /\ r.op = "write" => r.pc \in {"row", "body", "returned"}
    /\ r.pc \in {"row", "body"} => r.op = "write"
    /\ r.pc = "mkdir" => r.op = "mkdir"
    /\ r.pc \in Deleting => r.op \in {"unlink", "delete"}
    /\ c # Fuse => r.op \in {"none", "put", "delete"}

\* An open file is there: a put whose file is deleted has moved on.
TreeInv ==
    /\ rowid \in [Paths -> Nat] /\ isDir \in [Paths -> BOOLEAN]
    /\ disk \in [Paths -> Contents \cup {Absent, Directory}]
    /\ calls \in [Callers -> CallRec]
    /\ \A c \in Callers :
         /\ CallOk(c, calls[c])
         /\ calls[c].pc = "fill" => disk[calls[c].path] \in Contents

\* A put has made the directories above the file, which nothing removes.
DirsMade ==
    \A c \in Callers : \A q \in Ancestors[calls[c].cur] :
        calls[c].pc \in {"fill", "upsert", "parents", "mkparent"} /\ calls[c].op # "mkdir"
            => disk[q] = Directory

\* The record s may follow r in one call.
Follows(r, s) ==
    /\ s.op = r.op /\ s.path = r.path /\ s.off = r.off
    /\ r.pc # "body" => s.data = r.data
    /\ s.pc = "fill" => r.pc \in {"fill", "put"}
    /\ s.pc = "upsert" => r.pc \in {"fill", "upsert"}
    /\ s.pc \in {"parents", "mkparent"} => r.pc \in {"upsert", "mkdir", "parents", "mkparent"}
    /\ s.cur = r.cur \/ (r.cur # Root /\ s.cur = Parent[r.cur])

\* c's router call has gone on, and the others' have not, except that a put may
\* have lost its file.
CallsFollow(c) ==
    /\ calls' \in [Callers -> CallRec]
    /\ \A b \in Callers :
         /\ CallOk(b, calls'[b])
         /\ Follows(calls[b], calls'[b])
         /\ b # c => \/ calls'[b] = calls[b]
                     \/ calls[b].pc = "fill" /\ calls'[b].pc = "upsert"

\* One record changes.
LEMMA OneFollows ==
    ASSUME TreeInv, NEW c \in Callers, NEW r, CallOk(c, r), Follows(calls[c], r),
           calls' = [calls EXCEPT ![c] = r]
    PROVE  CallsFollow(c)
<1>1. r \in CallRec /\ calls \in [Callers -> CallRec]
  BY DEF TreeInv, CallOk
<1>2. /\ calls' \in [Callers -> CallRec] /\ calls'[c] = r
      /\ \A b \in Callers \ {c} : calls'[b] = calls[b]
  BY <1>1, OneCall
<1>3. \A b \in Callers : CallOk(b, calls[b]) /\ Follows(calls[b], calls[b])
  BY DEF TreeInv, Follows
<1> QED BY <1>2, <1>3 DEF CallsFollow

\* Go to a step that may come next.
LEMMA GoFollows ==
    ASSUME TreeInv, NEW c \in Callers, NEW pc \in Pcs, Go(c, pc),
           pc = "fill" => calls[c].pc = "put",
           pc = "upsert" => calls[c].pc = "fill",
           pc = "parents" => calls[c].pc \in {"upsert", "mkdir"},
           pc = "mkparent" => calls[c].pc = "parents" /\ calls[c].cur # Root,
           pc = "body" => calls[c].pc = "row",
           pc = "rm" => calls[c].pc = "delete",
           pc \in {"fill", "upsert", "parents", "mkparent", "body", "rm"}
    PROVE  CallsFollow(c)
<1>1. calls[c] \in CallRec /\ CallOk(c, calls[c]) /\ calls \in [Callers -> CallRec]
  BY DEF TreeInv
<1> PICK r : r = [calls[c] EXCEPT !.pc = pc]
  OBVIOUS
<1>2. /\ r \in CallRec /\ r.pc = pc /\ r.cur = calls[c].cur /\ r.path = calls[c].path
      /\ r.op = calls[c].op /\ r.off = calls[c].off /\ r.data = calls[c].data
  BY <1>1 DEF CallRec
<1>3. calls' = [calls EXCEPT ![c] = r]
  BY <1>1, OneChange DEF Go
<1>4. CallOk(c, r)
  BY <1>1, <1>2 DEF CallOk, Deleting
<1>5. Follows(calls[c], r)
  BY <1>1, <1>2 DEF Follows
<1> QED BY <1>3, <1>4, <1>5, OneFollows

\* A call may always return.
LEMMA ResultFollows ==
    ASSUME TreeInv, NEW c \in Callers, NEW res \in {"ok", "notfound", "error"}, Result(c, res)
    PROVE  /\ CallsFollow(c) /\ calls'[c].pc = "returned" /\ calls'[c].res = res
           /\ \A b \in Callers \ {c} : calls'[b] = calls[b]
<1>1. calls[c] \in CallRec /\ CallOk(c, calls[c]) /\ calls \in [Callers -> CallRec]
  BY DEF TreeInv
<1> PICK r : r = [calls[c] EXCEPT !.pc = "returned", !.res = res]
  OBVIOUS
<1>2. /\ r \in CallRec /\ r.pc = "returned" /\ r.cur = calls[c].cur /\ r.path = calls[c].path
      /\ r.op = calls[c].op /\ r.off = calls[c].off /\ r.data = calls[c].data /\ r.res = res
  BY <1>1 DEF CallRec, Pcs
<1>3. calls' = [calls EXCEPT ![c] = r]
  BY <1>1, OneChange DEF Result
<1>4. CallOk(c, r)
  BY <1>1, <1>2 DEF CallOk, Deleting
<1>5. Follows(calls[c], r)
  BY <1>1, <1>2 DEF Follows
<1>6. calls'[c] = r /\ \A b \in Callers \ {c} : calls'[b] = calls[b]
  BY <1>1, <1>2, <1>3, OneCall
<1> QED BY <1>2, <1>3, <1>4, <1>5, <1>6, OneFollows

\* A climb goes on from the parent.
LEMMA CurFollows ==
    ASSUME TreeInv, NEW c \in Callers, calls[c].pc \in {"parents", "mkparent"},
           calls[c].cur # Root,
           calls' = [calls EXCEPT ![c].pc = "parents", ![c].cur = Parent[calls[c].cur]]
    PROVE  CallsFollow(c)
<1>1. calls[c] \in CallRec /\ CallOk(c, calls[c]) /\ calls \in [Callers -> CallRec]
  BY DEF TreeInv
<1> PICK up : up = Parent[calls[c].cur]
  OBVIOUS
<1>0. up \in Paths
  BY <1>1, TreeAssumption DEF CallRec
<1> PICK r : r = [calls[c] EXCEPT !.pc = "parents", !.cur = up]
  OBVIOUS
<1>2. /\ r \in CallRec /\ r.pc = "parents" /\ r.cur = up /\ r.path = calls[c].path
      /\ r.op = calls[c].op /\ r.off = calls[c].off /\ r.data = calls[c].data
  BY <1>0, <1>1 DEF CallRec, Pcs
<1>3. calls' = [calls EXCEPT ![c] = r]
  BY <1>1, OneChange
<1>4. CallOk(c, r)
  BY <1>1, <1>2 DEF CallOk, Deleting
<1>5. Follows(calls[c], r)
  BY <1>1, <1>2 DEF Follows
<1> QED BY <1>3, <1>4, <1>5, OneFollows

\* A read that has found the file.
LEMMA BodyFollows ==
    ASSUME TreeInv, NEW c \in Callers, calls[c].pc = "body", NEW d \in Contents,
           calls' = [calls EXCEPT ![c].pc = "returned", ![c].res = "ok", ![c].data = d]
    PROVE  CallsFollow(c) /\ calls'[c].res = "ok" /\ calls'[c].data = d
<1>1. calls[c] \in CallRec /\ CallOk(c, calls[c]) /\ calls \in [Callers -> CallRec]
  BY DEF TreeInv
<1> PICK r : r = [calls[c] EXCEPT !.pc = "returned", !.res = "ok", !.data = d]
  OBVIOUS
<1>2. /\ r \in CallRec /\ r.pc = "returned" /\ r.cur = calls[c].cur /\ r.path = calls[c].path
      /\ r.op = calls[c].op /\ r.off = calls[c].off /\ r.data = d /\ r.res = "ok"
  BY <1>1 DEF CallRec, Pcs
<1>3. calls' = [calls EXCEPT ![c] = r]
  BY <1>1, OneChange
<1>4. CallOk(c, r)
  BY <1>1, <1>2 DEF CallOk, Deleting
<1>5. Follows(calls[c], r)
  BY <1>1, <1>2 DEF Follows
<1>6. calls'[c] = r
  BY <1>1, <1>2, <1>3, OneCall
<1> QED BY <1>2, <1>3, <1>4, <1>5, <1>6, OneFollows

\* remove_file takes the name of a file that puts have open.
LEMMA DeleteFollows ==
    ASSUME TreeInv, NEW c \in Callers, DeleteFile(c)
    PROVE  /\ CallsFollow(c) /\ calls'[c].pc = "rmrow"
           /\ \A b \in Callers :
                /\ calls'[b].res = calls[b].res
                /\ calls'[b].pc = "fill" =>
                     calls[b].pc = "fill" /\ calls[b].path # calls[c].path
<1>1. \A b \in Callers : calls[b] \in CallRec /\ CallOk(b, calls[b])
  BY DEF TreeInv
<1>2. calls[c].pc = "rm"
  BY DEF DeleteFile, At
<1> DEFINE pc(b) == IF b = c THEN "rmrow"
                    ELSE IF calls[b].pc = "fill" /\ calls[b].path = calls[c].path THEN "upsert"
                    ELSE calls[b].pc
<1>3. ASSUME NEW b \in Callers
      PROVE  /\ calls'[b] \in CallRec /\ calls'[b].pc = pc(b)
             /\ calls'[b].cur = calls[b].cur /\ calls'[b].path = calls[b].path
             /\ calls'[b].op = calls[b].op /\ calls'[b].off = calls[b].off
             /\ calls'[b].data = calls[b].data /\ calls'[b].res = calls[b].res
             /\ b # c => calls'[b] = calls[b] \/ (calls[b].pc = "fill" /\ pc(b) = "upsert")
  <2>0. calls[b] \in CallRec
    BY <1>1
  <2>1. CASE b = c
    <3>1. calls'[b] = [calls[b] EXCEPT !.pc = "rmrow"]
      BY <2>1 DEF DeleteFile
    <3> QED BY <2>0, <2>1, <3>1 DEF CallRec, Pcs, Deleting
  <2>2. CASE b # c /\ calls[b].pc = "fill" /\ calls[b].path = calls[c].path
    <3>1. calls'[b] = [calls[b] EXCEPT !.pc = "upsert"]
      BY <2>2 DEF DeleteFile, At
    <3> QED BY <2>0, <2>2, <3>1 DEF CallRec, Pcs
  <2>3. CASE b # c /\ ~(calls[b].pc = "fill" /\ calls[b].path = calls[c].path)
    <3>1. calls'[b] = calls[b]
      BY <2>3 DEF DeleteFile, At
    <3> QED BY <2>0, <2>3, <3>1
  <2> QED BY <2>1, <2>2, <2>3
<1>4. calls' \in [Callers -> CallRec]
  BY <1>3 DEF DeleteFile
<1>5. ASSUME NEW b \in Callers PROVE CallOk(b, calls'[b])
  <2>1. CASE b = c
    BY <1>1, <1>2, <1>3, <2>1 DEF CallOk, Deleting
  <2>2. CASE b # c
    BY <1>1, <1>3, <2>2 DEF CallOk, Deleting
  <2> QED BY <2>1, <2>2
<1>6. ASSUME NEW b \in Callers PROVE Follows(calls[b], calls'[b])
  BY <1>3 DEF Follows
<1> QED BY <1>3, <1>4, <1>5, <1>6 DEF CallsFollow

\* Every step of a router call.
LEMMA RouterFollows ==
    ASSUME TreeInv, NEW c \in Callers, RouterStep(c) PROVE CallsFollow(c)
<1>1. calls[c] \in CallRec /\ CallOk(c, calls[c]) /\ calls \in [Callers -> CallRec]
  BY DEF TreeInv
<1>2. CASE WriteCreate(c) \/ WriteFill(c)
  <2>1. Result(c, "error") \/ (calls[c].pc = "put" /\ Go(c, "fill"))
        \/ (calls[c].pc = "fill" /\ Go(c, "upsert"))
    BY <1>2 DEF WriteCreate, WriteFill, At
  <2> QED BY <2>1, ResultFollows, GoFollows DEF Pcs
<1>3. CASE WriteUpsert(c) \/ MkdirUpsert(c)
  <2>1. calls[c].pc \in {"upsert", "mkdir"} /\ Go(c, "parents")
    BY <1>3 DEF WriteUpsert, MkdirUpsert, At
  <2> QED BY <2>1, GoFollows DEF Pcs
<1>4. CASE ParentRow(c)
  <2>1. calls[c].pc = "parents"
    BY <1>4 DEF ParentRow, At
  <2>2. CASE calls[c].cur = Root
    BY <1>4, <2>2, ResultFollows DEF ParentRow
  <2>3. CASE calls[c].cur # Root /\ HasRow(Parent[calls[c].cur])
    <3>1. calls' = [calls EXCEPT ![c].cur = Parent[calls[c].cur]]
      BY <1>4, <2>3 DEF ParentRow
    <3>2. calls' = [calls EXCEPT ![c].pc = "parents", ![c].cur = Parent[calls[c].cur]]
      BY <1>1, <2>1, <3>1 DEF CallRec
    <3> QED BY <2>1, <2>3, <3>2, CurFollows
  <2>4. CASE calls[c].cur # Root /\ ~HasRow(Parent[calls[c].cur])
    <3>1. Go(c, "mkparent")
      BY <1>4, <2>4 DEF ParentRow
    <3> QED BY <2>1, <2>4, <3>1, GoFollows DEF Pcs
  <2> QED BY <2>2, <2>3, <2>4
<1>5. CASE ParentUpsert(c)
  <2>1. /\ calls[c].pc = "mkparent" /\ calls[c].cur # Root
        /\ calls' = [calls EXCEPT ![c].pc = "parents", ![c].cur = Parent[calls[c].cur]]
    BY <1>1, <1>5 DEF ParentUpsert, At, CallOk
  <2> QED BY <2>1, CurFollows
<1>6. CASE ReadRow(c)
  <2>1. Result(c, "notfound") \/ Result(c, "error") \/ (calls[c].pc = "row" /\ Go(c, "body"))
    BY <1>6 DEF ReadRow, At
  <2> QED BY <2>1, ResultFollows, GoFollows DEF Pcs
<1>7. CASE ReadBody(c)
  <2>1. \/ Result(c, "notfound")
        \/ \E d \in Contents :
             calls' = [calls EXCEPT ![c].pc = "returned", ![c].res = "ok", ![c].data = d]
    BY <1>7 DEF ReadBody
  <2>2. calls[c].pc = "body"
    BY <1>7 DEF ReadBody, At
  <2> QED BY <2>1, <2>2, ResultFollows, BodyFollows
<1>8. CASE DeleteRequire(c)
  <2>1. Result(c, "notfound") \/ (calls[c].pc = "delete" /\ Go(c, "rm"))
    BY <1>8 DEF DeleteRequire, At
  <2> QED BY <2>1, ResultFollows, GoFollows DEF Pcs, Deleting
<1>9. CASE DeleteFile(c)
  BY <1>9, DeleteFollows
<1>10. CASE DeleteRow(c)
  BY <1>10, ResultFollows DEF DeleteRow
<1> QED BY <1>2, <1>3, <1>4, <1>5, <1>6, <1>7, <1>8, <1>9, <1>10 DEF RouterStep

\* An upsert keeps the types of the rows.
LEMMA UpsertTypes ==
    ASSUME TreeInv, NEW p \in Paths, NEW d \in BOOLEAN, UpsertRow(p, d)
    PROVE  rowid' \in [Paths -> Nat] /\ isDir' \in [Paths -> BOOLEAN]
<1>1. rowid' \in [Paths -> Nat]
  BY UpsertAdds DEF TreeInv
<1>2. isDir' \in [Paths -> BOOLEAN]
  BY DEF TreeInv, UpsertRow
<1> QED BY <1>1, <1>2

\* The rows, in every step of a router call.
LEMMA RowTypes ==
    ASSUME TreeInv, NEW c \in Callers, RouterStep(c)
    PROVE  rowid' \in [Paths -> Nat] /\ isDir' \in [Paths -> BOOLEAN]
<1>1. /\ CallOk(c, calls[c]) /\ calls[c].path \in Paths /\ calls[c].cur \in Paths
      /\ rowid \in [Paths -> Nat] /\ isDir \in [Paths -> BOOLEAN]
  BY DEF TreeInv, CallRec
<1>2. CASE UNCHANGED <<rowid, isDir>>
  BY <1>1, <1>2
<1>3. CASE WriteUpsert(c) \/ MkdirUpsert(c)
  BY <1>1, <1>3, UpsertTypes DEF WriteUpsert, MkdirUpsert
<1>4. CASE ParentUpsert(c)
  <2>1. calls[c].cur # Root /\ UpsertRow(Parent[calls[c].cur], TRUE)
    BY <1>1, <1>4 DEF ParentUpsert, At, CallOk
  <2>2. Parent[calls[c].cur] \in Paths
    BY <1>1, <2>1, TreeAssumption
  <2> QED BY <2>1, <2>2, UpsertTypes
<1>5. CASE DeleteRow(c)
  BY <1>1, <1>5 DEF DeleteRow
<1> QED BY <1>2, <1>3, <1>4, <1>5 DEF RouterStep, WriteCreate, WriteFill, ParentRow, ReadRow,
           ReadBody, DeleteRequire, DeleteFile

\* The disk, in every step: files stay files while a put fills them, unless they
\* are deleted, and directories stay for good and are never made of files.
LEMMA DiskStep ==
    ASSUME TreeInv, NEW c \in Callers, RouterStep(c)
    PROVE  /\ disk' \in [Paths -> Contents \cup {Absent, Directory}]
           /\ \A b \in Callers : calls'[b].pc = "fill" => disk'[calls'[b].path] \in Contents
           /\ \A q \in Paths : disk[q] = Directory => disk'[q] = Directory
           /\ \A q \in Paths : disk'[q] = Directory => disk[q] \notin Contents
<1>1. /\ calls[c] \in CallRec /\ CallOk(c, calls[c]) /\ calls[c].path \in Paths
      /\ disk \in [Paths -> Contents \cup {Absent, Directory}]
      /\ \A b \in Callers :
           calls[b].path \in Paths /\ (calls[b].pc = "fill" => disk[calls[b].path] \in Contents)
  BY DEF TreeInv, CallRec
<1>2. CallsFollow(c)
  BY RouterFollows
<1>3. /\ \A b \in Callers : calls'[b].path = calls[b].path
      /\ \A b \in Callers \ {c} : calls'[b].pc = "fill" => calls[b].pc = "fill"
      /\ calls'[c].pc = "fill" => calls[c].pc \in {"fill", "put"}
  BY <1>2 DEF CallsFollow, Follows
<1>4. Directory \notin Contents /\ Directory # Absent /\ <<>> \in Contents
  BY TreeAssumption, EmptyContents
<1>5. CASE WriteCreate(c)
  <2>1. CASE UNCHANGED disk /\ Result(c, "error")
    <3>1. calls'[c].pc = "returned"
      BY <2>1, ResultFollows
    <3> QED BY <1>1, <1>3, <1>4, <2>1, <3>1
  <2>2. CASE ~(UNCHANGED disk /\ Result(c, "error"))
    <3>1. /\ disk[calls[c].path] # Directory
          /\ \A q \in Ancestors[calls[c].path] : disk[q] \notin Contents
          /\ disk' = [q \in Paths |-> IF q = calls[c].path THEN <<>>
                                      ELSE IF q \in Ancestors[calls[c].path] THEN Directory
                                      ELSE disk[q]]
      BY <1>5, <2>2 DEF WriteCreate
    <3>2. disk' \in [Paths -> Contents \cup {Absent, Directory}]
      BY <1>1, <1>4, <3>1
    <3>3. \A q \in Paths : disk[q] \in Contents => disk'[q] \in Contents
      BY <1>1, <1>4, <3>1
    <3>4. disk'[calls[c].path] \in Contents
      BY <1>1, <1>4, <3>1
    <3>5. \A q \in Paths : disk[q] = Directory => disk'[q] = Directory
      BY <1>1, <3>1
    <3>6. \A q \in Paths : disk'[q] = Directory => disk[q] \notin Contents
      BY <1>1, <1>4, <3>1
    <3> QED BY <1>1, <1>3, <3>2, <3>3, <3>4, <3>5, <3>6
  <2> QED BY <2>1, <2>2
<1>6. CASE WriteFill(c)
  <2> PICK p, r : p = calls[c].path /\ r = Splice(disk[p], 0, calls[c].data)
    OBVIOUS
  <2>1. p \in Paths /\ disk[p] \in Contents /\ calls[c].data \in Contents
    BY <1>1, <1>6 DEF WriteFill, At, CallRec
  <2>2. 0 + Len(calls[c].data) <= MaxLen
    BY <2>1, ContentsAreSeqs
  <2>3. r \in Contents
    BY <2>1, <2>2, SpliceContents
  <2>4. disk' = [disk EXCEPT ![p] = r]
    BY <1>6 DEF WriteFill
  <2>5. \A q \in Paths : disk[q] \in Contents => disk'[q] \in Contents
    BY <1>1, <2>3, <2>4
  <2>6. calls[c].pc = "fill"
    BY <1>6 DEF WriteFill, At
  <2>7. \A b \in Callers : calls'[b].pc = "fill" => disk'[calls'[b].path] \in Contents
    BY <1>1, <1>3, <2>5, <2>6
  <2> QED BY <1>1, <1>4, <2>1, <2>3, <2>4, <2>7
<1>7. CASE DeleteFile(c)
  <2> PICK p : p = calls[c].path
    OBVIOUS
  <2>1. disk' = disk \/ (disk[p] \in Contents /\ disk' = [disk EXCEPT ![p] = Absent])
    BY <1>7 DEF DeleteFile
  <2>2. \A b \in Callers : calls'[b].pc = "fill" => calls[b].pc = "fill" /\ calls[b].path # p
    BY <1>7, DeleteFollows
  <2>3. \A b \in Callers : calls'[b].pc = "fill" => disk'[calls'[b].path] \in Contents
    BY <1>1, <1>3, <2>1, <2>2
  <2> QED BY <1>1, <1>4, <2>1, <2>3
<1>8. CASE UNCHANGED disk /\ calls[c].pc # "put"
  BY <1>1, <1>3, <1>4, <1>8
<1> QED BY <1>5, <1>6, <1>7, <1>8 DEF RouterStep, WriteUpsert, MkdirUpsert, ParentRow, ParentUpsert,
           ReadRow, ReadBody, DeleteRequire, DeleteRow, At

\* The tree's invariant, in every step of a router call.
LEMMA TreeRouter ==
    ASSUME TreeInv, NEW c \in Callers, RouterStep(c) PROVE TreeInv'
<1>1. CallsFollow(c)
  BY RouterFollows
<1>2. rowid' \in [Paths -> Nat] /\ isDir' \in [Paths -> BOOLEAN]
  BY RowTypes
<1>3. /\ disk' \in [Paths -> Contents \cup {Absent, Directory}]
      /\ \A b \in Callers : calls'[b].pc = "fill" => disk'[calls'[b].path] \in Contents
  BY DiskStep
<1>4. calls' \in [Callers -> CallRec] /\ \A b \in Callers : CallOk(b, calls'[b])
  BY <1>1 DEF CallsFollow
<1> QED BY <1>2, <1>3, <1>4 DEF TreeInv, CallOk

\* A climb is over directories the put has made, or that were there.
LEMMA DirsRouter ==
    ASSUME TreeInv, DirsMade, NEW c \in Callers, RouterStep(c) PROVE DirsMade'
<1>1. /\ CallsFollow(c) /\ \A b \in Callers : calls[b] \in CallRec /\ CallOk(b, calls[b])
  BY RouterFollows DEF TreeInv
<1>2. \A q \in Paths : disk[q] = Directory => disk'[q] = Directory
  BY DiskStep
<1> SUFFICES ASSUME NEW b \in Callers, NEW q \in Ancestors[calls'[b].cur],
                    calls'[b].pc \in {"fill", "upsert", "parents", "mkparent"},
                    calls'[b].op # "mkdir"
             PROVE  disk'[q] = Directory
  BY DEF DirsMade
<1>3. /\ calls[b].op # "mkdir" /\ calls[b].cur \in Paths /\ Follows(calls[b], calls'[b])
      /\ CallOk(b, calls[b])
  BY <1>1 DEF CallsFollow, Follows, CallRec
<1>4. q \in Ancestors[calls[b].cur] /\ q \in Paths
  <2>1. calls'[b].cur = calls[b].cur
        \/ (calls[b].cur # Root /\ calls'[b].cur = Parent[calls[b].cur])
    BY <1>3 DEF Follows
  <2> QED BY <1>3, <2>1, TreeAssumption
<1>5. CASE calls[b].pc \in {"fill", "upsert", "parents", "mkparent"}
  BY <1>2, <1>3, <1>4, <1>5 DEF DirsMade
<1>6. CASE calls[b].pc = "put"
  <2>1. b = c
    BY <1>1, <1>6 DEF CallsFollow
  <2>2. WriteCreate(c) /\ calls[c].cur = calls[c].path
    BY <1>3, <1>6, <2>1 DEF RouterStep, WriteFill, WriteUpsert, MkdirUpsert, ParentRow,
            ParentUpsert, ReadRow, ReadBody, DeleteRequire, DeleteFile, DeleteRow, At, CallOk
  <2>3. ~Result(c, "error")
    BY <2>1, ResultFollows
  <2>4. disk' = [p \in Paths |-> IF p = calls[c].path THEN <<>>
                                 ELSE IF p \in Ancestors[calls[c].path] THEN Directory
                                 ELSE disk[p]]
    BY <2>2, <2>3 DEF WriteCreate
  <2>5. q # calls[c].path
    BY <1>3, <1>4, <2>1, <2>2, TreeAssumption
  <2> QED BY <1>4, <2>1, <2>2, <2>4, <2>5
<1>7. calls[b].pc \in {"put", "fill", "upsert", "parents", "mkparent"}
  BY <1>3 DEF Follows, CallOk
<1> QED BY <1>5, <1>6, <1>7

\* A call that begins or ends touches neither rows nor disk.
LEMMA NewCall ==
    ASSUME TreeInv, DirsMade, NEW c \in Callers, NEW r, CallOk(c, r),
           r.pc \notin {"fill", "upsert", "parents", "mkparent"},
           calls' = [calls EXCEPT ![c] = r], UNCHANGED <<rowid, isDir, disk>>
    PROVE  TreeInv' /\ DirsMade'
<1>1. r \in CallRec /\ calls \in [Callers -> CallRec]
  BY DEF TreeInv, CallOk
<1>2. /\ calls' \in [Callers -> CallRec] /\ calls'[c] = r
      /\ \A b \in Callers \ {c} : calls'[b] = calls[b]
  BY <1>1, OneCall
<1>3. \A b \in Callers :
        /\ CallOk(b, calls'[b])
        /\ calls'[b].pc = "fill" => disk[calls'[b].path] \in Contents
  BY <1>2 DEF TreeInv
<1>4. TreeInv'
  BY <1>2, <1>3 DEF TreeInv, CallOk
<1>5. DirsMade'
  BY <1>2 DEF DirsMade
<1> QED BY <1>4, <1>5

\* The record of a call that begins.
LEMMA CallRecord ==
    ASSUME NEW c \in Callers, NEW pc \in {"put", "mkdir", "row", "delete"}, NEW op \in Ops,
           NEW p \in Paths, NEW off \in 0..(MaxLen - 1), NEW data \in Contents,
           op = "write" <=> pc = "row", pc = "mkdir" => op = "mkdir",
           pc = "delete" => op \in {"unlink", "delete"}, c # Fuse => op \in {"put", "delete"},
           Call(c, pc, op, p, off, data)
    PROVE  \E r : /\ CallOk(c, r) /\ r.pc = pc /\ r.op = op /\ r.path = p /\ r.off = off
                  /\ r.data = data /\ calls' = [calls EXCEPT ![c] = r]
<1> PICK r : r = [pc |-> pc, op |-> op, path |-> p, cur |-> p, off |-> off, data |-> data,
                  res |-> "none"]
  OBVIOUS
<1>1. /\ r \in CallRec /\ r.pc = pc /\ r.cur = p /\ r.path = p /\ r.op = op /\ r.off = off
      /\ r.data = data
  BY DEF CallRec, Pcs, Deleting
<1>2. CallOk(c, r)
  BY <1>1 DEF CallOk, Deleting
<1>3. calls' = [calls EXCEPT ![c] = r]
  BY DEF Call
<1> QED BY <1>1, <1>2, <1>3

\* The record of no call.
LEMMA IdleRecord ==
    /\ NoCall \in CallRec /\ NoCall.pc = "idle" /\ NoCall.op = "none"
    /\ \A c \in Callers : CallOk(c, NoCall)
<1>1. NoCall \in CallRec /\ NoCall.pc = "idle" /\ NoCall.op = "none"
  BY MaxLenAssumption, EmptyContents, RootAssumption DEF NoCall, CallRec, Pcs, Ops
<1> QED BY <1>1 DEF CallOk, Deleting

\* What a write stores: the byte at its offset in contents, for which there is room.
LEMMA WriteFits ==
    ASSUME NEW old \in Contents, NEW off \in 0..(MaxLen - 1)
    PROVE  Splice(old, off, <<1>>) \in Contents
<1>1. <<1>> \in Contents /\ Len(<<1>>) = 1
  <2>1. <<1>> \in Seq(Bytes) /\ Len(<<1>>) = 1
    BY ByteAssumption
  <2>2. Len(<<1>>) <= MaxLen
    BY <2>1, MaxLenAssumption
  <2> QED BY <2>1, <2>2, ContentsAreSeqs, Zenon
<1>2. off \in Nat /\ off + Len(<<1>>) <= MaxLen
  BY <1>1, MaxLenAssumption
<1> QED BY <1>1, <1>2, SpliceContents

\* The mount's own steps: requests begin, go on with a second call, and end.
LEMMA FuseCalls ==
    ASSUME TreeInv, TableTypeOK, FuseStep
    PROVE  /\ UNCHANGED <<rowid, isDir, disk>>
           /\ \E r : /\ CallOk(Fuse, r) /\ calls' = [calls EXCEPT ![Fuse] = r]
                     /\ r.pc \in {"idle", "put", "mkdir", "row", "delete"}
                     /\ r.op = "written" => WriteBack
                     /\ r.op = "write" => \E i \in DOMAIN ino_to_path, off \in 0..(MaxLen - 1) :
                                            BeginWrite(i, off) /\ r.path = PathOf(i)
                     /\ r.op # "delete"
<1>1. /\ Fuse \in Callers /\ 0 \in 0..(MaxLen - 1) /\ <<>> \in Contents
      /\ calls \in [Callers -> CallRec] /\ calls[Fuse] \in CallRec /\ CallOk(Fuse, calls[Fuse])
  BY CallersAssumption, MaxLenAssumption, EmptyContents DEF TreeInv
<1> DEFINE Change == \E r : /\ CallOk(Fuse, r) /\ calls' = [calls EXCEPT ![Fuse] = r]
                            /\ r.pc \in {"idle", "put", "mkdir", "row", "delete"}
                            /\ r.op = "written" => WriteBack
                            /\ r.op = "write" => \E i \in DOMAIN ino_to_path, off \in 0..(MaxLen - 1) :
                                                   BeginWrite(i, off) /\ r.path = PathOf(i)
                            /\ r.op # "delete"
<1>2. UNCHANGED <<rowid, isDir, disk>>
  BY DEF FuseStep, Lookup, ReaddirEntry, BeginCreate, BeginMkdir, BeginWrite, BeginTruncate, Begin,
         BeginUnlink, WriteBack, EntryReply, UnlinkReply, WriteReply, treeVars
<1>3. ASSUME NEW p \in Paths, BeginCreate(p) \/ BeginMkdir(p) \/ BeginUnlink(p) PROVE Change
  <2>1. \/ Call(Fuse, "put", "create", p, 0, <<>>)
        \/ Call(Fuse, "mkdir", "mkdir", p, 0, <<>>)
        \/ Call(Fuse, "delete", "unlink", p, 0, <<>>)
    BY <1>3 DEF BeginCreate, BeginMkdir, BeginUnlink, Begin
  <2>2. PICK pc \in {"put", "mkdir", "delete"}, op \in {"create", "mkdir", "unlink"} :
          /\ Call(Fuse, pc, op, p, 0, <<>>)
          /\ pc = "mkdir" => op = "mkdir"
          /\ pc = "delete" => op = "unlink"
    BY <2>1
  <2>3. op \in Ops
    BY DEF Ops
  <2>4. PICK r : /\ CallOk(Fuse, r) /\ r.pc = pc /\ r.op = op /\ calls' = [calls EXCEPT ![Fuse] = r]
    BY <1>1, <2>2, <2>3, CallRecord
  <2> QED BY <2>2, <2>4
<1>4. ASSUME NEW i \in DOMAIN ino_to_path, BeginTruncate(i) PROVE Change
  <2>1. PathOf(i) \in Paths /\ Call(Fuse, "put", "truncate", PathOf(i), 0, <<>>)
    BY <1>4 DEF TableTypeOK, PathOf, BeginTruncate, Begin
  <2>2. PICK r : CallOk(Fuse, r) /\ r.pc = "put" /\ r.op = "truncate"
                 /\ calls' = [calls EXCEPT ![Fuse] = r]
    BY <1>1, <2>1, CallRecord DEF Ops
  <2> QED BY <2>2
<1>5. ASSUME NEW i \in DOMAIN ino_to_path, NEW off \in 0..(MaxLen - 1), BeginWrite(i, off)
      PROVE  Change
  <2>1. PathOf(i) \in Paths /\ Call(Fuse, "row", "write", PathOf(i), off, <<>>)
    BY <1>5 DEF TableTypeOK, PathOf, BeginWrite, Begin
  <2>2. PICK r : CallOk(Fuse, r) /\ r.pc = "row" /\ r.op = "write" /\ r.path = PathOf(i)
                 /\ calls' = [calls EXCEPT ![Fuse] = r]
    BY <1>1, <2>1, CallRecord DEF Ops
  <2> QED BY <1>5, <2>2
<1>6. CASE WriteBack
  <2> PICK old, new : old = (IF Ok THEN calls[Fuse].data ELSE <<>>)
                      /\ new = Splice(old, calls[Fuse].off, <<1>>)
    OBVIOUS
  <2>1. calls[Fuse].off \in 0..(MaxLen - 1) /\ calls[Fuse].path \in Paths /\ old \in Contents
    BY <1>1 DEF CallRec
  <2>2. new \in Contents
    BY <2>1, WriteFits
  <2>3. Call(Fuse, "put", "written", calls[Fuse].path, calls[Fuse].off, new)
    BY <1>6 DEF WriteBack
  <2>4. PICK r : CallOk(Fuse, r) /\ r.pc = "put" /\ r.op = "written"
                 /\ calls' = [calls EXCEPT ![Fuse] = r]
    BY <1>1, <2>1, <2>2, <2>3, CallRecord DEF Ops
  <2> QED BY <1>2, <1>6, <2>4
<1>7. CASE EntryReply \/ UnlinkReply \/ WriteReply
  <2>1. calls' = [calls EXCEPT ![Fuse] = NoCall]
    BY <1>7 DEF EntryReply, UnlinkReply, WriteReply, Finish
  <2> QED BY <1>1, <1>2, <2>1, IdleRecord
<1>8. ASSUME NEW p \in Paths, Lookup(p) \/ \E d \in Paths : ReaddirEntry(d, p) PROVE Change
  <2>1. calls' = calls /\ calls[Fuse].pc = "idle"
    BY <1>8 DEF Lookup, ReaddirEntry, treeVars, At
  <2>2. calls' = [calls EXCEPT ![Fuse] = calls[Fuse]]
    BY <1>1, <2>1
  <2>3. calls[Fuse].op = "none"
    BY <1>1, <2>1 DEF CallOk
  <2> QED BY <1>1, <2>1, <2>2, <2>3
<1> QED BY <1>2, <1>3, <1>4, <1>5, <1>6, <1>7, <1>8 DEF FuseStep

\* An HTTP request begins or has its answer.
LEMMA HttpCalls ==
    ASSUME TreeInv, NEW c \in Http,
           \/ \E p \in Paths, data \in Writes : HttpPut(c, p, data)
           \/ \E p \in Paths : HttpDelete(c, p)
           \/ HttpReply(c)
    PROVE  /\ UNCHANGED <<rowid, isDir, disk>>
           /\ \E r : /\ CallOk(c, r) /\ calls' = [calls EXCEPT ![c] = r]
                     /\ r.pc \in {"idle", "put", "delete"}
                     /\ r.op = "delete" => Count("delete", MaxDeletes)
<1>1. c \in Callers /\ c # Fuse /\ 0 \in 0..(MaxLen - 1) /\ <<>> \in Contents
  BY CallersAssumption, MaxLenAssumption, EmptyContents
<1>2. UNCHANGED <<rowid, isDir, disk>>
  BY DEF HttpPut, HttpDelete, HttpReply
<1>3. ASSUME NEW p \in Paths, NEW data \in Writes, HttpPut(c, p, data)
      PROVE  \E r : /\ CallOk(c, r) /\ calls' = [calls EXCEPT ![c] = r]
                    /\ r.pc = "put" /\ r.op = "put"
  <2>1. data \in Contents /\ Call(c, "put", "put", p, 0, data)
    BY <1>3, WritesAssumption DEF HttpPut
  <2> QED BY <1>1, <2>1, CallRecord DEF Ops
<1>4. ASSUME NEW p \in Paths, HttpDelete(c, p)
      PROVE  \E r : /\ CallOk(c, r) /\ calls' = [calls EXCEPT ![c] = r]
                    /\ r.pc = "delete" /\ Count("delete", MaxDeletes)
  <2>1. Call(c, "delete", "delete", p, 0, <<>>) /\ Count("delete", MaxDeletes)
    BY <1>4 DEF HttpDelete
  <2> QED BY <1>1, <2>1, CallRecord DEF Ops
<1>5. CASE HttpReply(c)
  <2>1. calls' = [calls EXCEPT ![c] = NoCall]
    BY <1>5 DEF HttpReply
  <2> QED BY <1>1, <1>2, <2>1, IdleRecord
<1> QED BY <1>2, <1>3, <1>4, <1>5

\* The tree's invariant in every step.
LEMMA TreeStep ==
    ASSUME TreeInv, DirsMade, TableTypeOK, [Next]_vars PROVE TreeInv' /\ DirsMade'
<1>1. CASE FuseStep
  BY <1>1, CallersAssumption, FuseCalls, NewCall
<1>2. CASE HttpStep
  BY <1>2, CallersAssumption, HttpCalls, NewCall DEF HttpStep
<1>3. CASE CallStep
  <2> PICK c \in Callers : RouterStep(c) \/ CallFails(c)
    BY <1>3 DEF CallStep
  <2>1. CASE RouterStep(c)
    BY <2>1, TreeRouter, DirsRouter
  <2>2. CASE CallFails(c)
    <3>1. CallsFollow(c) /\ calls'[c].pc = "returned" /\ UNCHANGED <<rowid, isDir, disk>>
          /\ \A b \in Callers \ {c} : calls'[b] = calls[b]
      BY <2>2, ResultFollows DEF CallFails
    <3>2. calls' \in [Callers -> CallRec] /\ CallOk(c, calls'[c])
      BY <3>1 DEF CallsFollow
    <3>3. calls' = [calls EXCEPT ![c] = calls'[c]]
      BY <3>1, <3>2 DEF TreeInv
    <3> QED BY <3>1, <3>2, <3>3, NewCall
  <2> QED BY <2>1, <2>2
<1>4. CASE UNCHANGED vars
  BY <1>4 DEF vars, treeVars, TreeInv, DirsMade, CallOk
<1> QED BY <1>1, <1>2, <1>3, <1>4 DEF Next

\* What a write has seen is contents.
LEMMA SeenStep ==
    ASSUME seen \subseteq Contents, [Next]_vars PROVE seen' \subseteq Contents
<1>1. CASE seen' \in {seen, {}}
  BY <1>1
<1>2. CASE Observe
  BY <1>2, EmptyContents DEF Observe
<1>3. ASSUME NEW i, NEW off, BeginWrite(i, off) PROVE seen' \subseteq Contents
  BY <1>3, EmptyContents DEF BeginWrite, Existing
<1>4. CASE FuseStep
  BY <1>1, <1>3, <1>4 DEF FuseStep, Lookup, ReaddirEntry, BeginCreate, BeginMkdir, BeginTruncate,
       BeginUnlink, WriteBack, EntryReply, UnlinkReply, WriteReply
<1>5. CASE HttpStep \/ CallStep \/ UNCHANGED vars
  BY <1>1, <1>2, <1>5 DEF HttpStep, HttpPut, HttpDelete, HttpReply, CallStep, vars
<1> QED BY <1>4, <1>5 DEF Next

\* The initial state.
LEMMA TreeInitial == Init => TreeInv /\ DirsMade /\ TableTypeOK /\ seen \subseteq Contents
<1> SUFFICES ASSUME Init PROVE TreeInv /\ DirsMade /\ TableTypeOK /\ seen \subseteq Contents
  OBVIOUS
<1>1. \A c \in Callers : calls[c] = NoCall
  BY DEF Init, NamespaceInit
<1>2. TreeInv
  BY <1>1, IdleRecord DEF Init, NamespaceInit, TreeInv, CallOk
<1>3. DirsMade
  BY <1>1, IdleRecord DEF DirsMade
<1>4. TableTypeOK
  BY RootAssumption DEF Init, TableInit, TableTypeOK, ROOT_INO
<1> QED BY <1>2, <1>3, <1>4 DEF Init

(***************************************************************************)
(* Every variable of fvfsd's mount and tree keeps its type, whatever is    *)
(* deleted and whatever fails.  That the disk holds contents after every   *)
(* write_all needs that the file a put has open is still there or the put  *)
(* has moved on, and that no put makes a directory of a file (TierRouter,  *)
(* LocalDiskBackend::put, InodeTable).                                     *)
(***************************************************************************)
THEOREM MountTypeCorrect == Spec => []VfsdTypeOK
<1> DEFINE Inv == TreeInv /\ DirsMade /\ TableTypeOK /\ seen \subseteq Contents
<1>1. Inv /\ [Next]_vars => Inv'
  <2>1. TreeInv => rowid \in [Paths -> Nat] /\ calls \in [Callers -> CallRec]
    BY DEF TreeInv
  <2> QED BY <2>1, TreeStep, TableTypeStep, SeenStep
<1>2. Inv => VfsdTypeOK
  BY DEF TreeInv, VfsdTypeOK, NamespaceTypeOK, CallRec, Pcs, Deleting
<1> QED BY <1>1, <1>2, TreeInitial, PTL DEF Spec

-----------------------------------------------------------------------------
(* What a write splices into. *)

\* While a write reads the file, seen has what the file holds now, and the
\* empty contents whenever the read may not find it.
WriteReads ==
    LET p == calls[Fuse].path IN
    calls[Fuse].op = "write" =>
        /\ disk[p] \in Contents => disk[p] \in seen
        /\ disk[p] \notin Contents \/ rowid[p] = 0 \/ isDir[p] => <<>> \in seen

\* What the read has returned was seen.
WriteGot ==
    (calls[Fuse].op = "write" /\ calls[Fuse].pc = "returned" /\ counts.fault = 0) =>
        IF Ok THEN calls[Fuse].data \in seen ELSE <<>> \in seen

WriteInv == WriteReads /\ WriteGot /\ WriteSplices

\* A row becomes a directory's while the mount writes to its path only when a
\* put has made the directory: an HTTP request never calls mkdir.
LEMMA NewDir ==
    ASSUME TreeInv, DirsMade, NEW c \in Callers, RouterStep(c), calls[Fuse].op = "write",
           NEW p \in Paths, isDir'[p], ~isDir[p]
    PROVE  disk[p] = Directory
<1>1. CallOk(c, calls[c]) /\ CallOk(Fuse, calls[Fuse]) /\ calls[c].cur \in Paths
      /\ calls[c].path \in Paths /\ isDir \in [Paths -> BOOLEAN]
  BY CallersAssumption DEF TreeInv, CallRec
<1>2. CASE UNCHANGED isDir
  BY <1>2
<1>3. CASE WriteUpsert(c) \/ DeleteRow(c)
  <2>1. isDir' = [isDir EXCEPT ![calls[c].path] = FALSE]
    BY <1>3 DEF WriteUpsert, DeleteRow, UpsertRow
  <2> QED BY <1>1, <2>1
<1>4. CASE MkdirUpsert(c)
  <2>1. calls[c].pc = "mkdir" /\ calls[c].op = "mkdir"
    BY <1>1, <1>4 DEF MkdirUpsert, At, CallOk
  <2> QED BY <1>1, <2>1 DEF CallOk
<1>5. CASE ParentUpsert(c)
  <2>1. calls[c].pc = "mkparent" /\ calls[c].cur # Root
        /\ isDir' = [isDir EXCEPT ![Parent[calls[c].cur]] = TRUE]
    BY <1>1, <1>5 DEF ParentUpsert, At, CallOk, UpsertRow
  <2>2. p = Parent[calls[c].cur]
    BY <1>1, <2>1
  <2>3. p \in Ancestors[calls[c].cur]
    <3>1. \A q \in Paths : q # Root => Ancestors[q] = {Parent[q]} \cup Ancestors[Parent[q]]
      BY TreeAssumption
    <3> QED BY <1>1, <2>1, <2>2, <3>1
  <2>4. calls[c].op # "mkdir"
    BY <1>1, <2>1 DEF CallOk
  <2> QED BY <2>1, <2>3, <2>4 DEF DirsMade
<1> QED BY <1>2, <1>3, <1>4, <1>5 DEF RouterStep, WriteCreate, WriteFill, ParentRow, ReadRow,
           ReadBody, DeleteRequire, DeleteFile

\* The read of a write, while other calls go on.
LEMMA WriteRouter ==
    ASSUME TreeInv, DirsMade, WriteInv, NEW c \in Callers, RouterStep(c), Observe, UNCHANGED counts
    PROVE  WriteInv'
<1>1. Fuse \in Callers /\ calls[Fuse] \in CallRec /\ calls[Fuse].path \in Paths
      /\ CallOk(Fuse, calls[Fuse])
  BY CallersAssumption DEF TreeInv, CallRec
<1>2. CallsFollow(c)
  BY RouterFollows
<1>3. /\ calls'[Fuse].op = calls[Fuse].op /\ calls'[Fuse].path = calls[Fuse].path
      /\ calls'[Fuse].off = calls[Fuse].off
      /\ calls[Fuse].pc # "body" => calls'[Fuse].data = calls[Fuse].data
      /\ c # Fuse => calls'[Fuse] = calls[Fuse] \/ calls'[Fuse].pc = "upsert"
  BY <1>1, <1>2 DEF CallsFollow, Follows
<1>4. CASE calls[Fuse].op # "write"
  <2>1. WriteReads' /\ WriteGot'
    BY <1>3, <1>4 DEF WriteReads, WriteGot
  <2>2. seen' = seen
    BY <1>4 DEF Observe
  <2>3. calls[Fuse].pc # "body"
    BY <1>1, <1>4 DEF CallOk
  <2>4. WriteSplices'
    BY <1>3, <2>2, <2>3 DEF WriteInv, WriteSplices
  <2> QED BY <2>1, <2>4 DEF WriteInv
<1>5. CASE calls[Fuse].op = "write"
  <2> PICK p : p = calls[Fuse].path
    OBVIOUS
  <2>0. p \in Paths
    BY <1>1
  <2>1. /\ seen \subseteq seen'
        /\ disk'[p] \in Contents => disk'[p] \in seen'
        /\ rowid'[p] = 0 \/ disk'[p] = Absent => <<>> \in seen'
    BY <1>5 DEF Observe
  <2>2. /\ disk' \in [Paths -> Contents \cup {Absent, Directory}]
        /\ disk'[p] = Directory => disk[p] \notin Contents
    BY <2>0, DiskStep
  <2>3. disk'[p] \notin Contents => <<>> \in seen'
    <3>1. disk'[p] = Directory => <<>> \in seen
      BY <1>5, <2>2 DEF WriteInv, WriteReads
    <3> QED BY <2>0, <2>1, <2>2, <3>1
  <2>4. isDir'[p] => <<>> \in seen'
    <3>1. CASE isDir[p]
      BY <1>5, <2>1, <3>1 DEF WriteInv, WriteReads
    <3>2. ASSUME ~isDir[p], isDir'[p] PROVE <<>> \in seen'
      <4>1. disk[p] = Directory
        BY <1>5, <2>0, <3>2, NewDir
      <4>2. disk[p] \notin Contents
        BY <4>1, TreeAssumption
      <4> QED BY <1>5, <2>1, <4>2 DEF WriteInv, WriteReads
    <3> QED BY <3>1, <3>2
  <2>5. WriteReads'
    BY <1>3, <2>1, <2>3, <2>4 DEF WriteReads
  <2>6. WriteSplices'
    BY <1>3, <1>5 DEF WriteSplices
  <2>7. WriteGot'
    <3> SUFFICES ASSUME calls'[Fuse].pc = "returned", counts.fault = 0
                 PROVE  IF calls'[Fuse].res = "ok" THEN calls'[Fuse].data \in seen'
                                                   ELSE <<>> \in seen'
      BY DEF WriteGot, Ok
    <3>1. CASE c # Fuse
      <4>1. calls'[Fuse] = calls[Fuse]
        BY <1>3, <3>1
      <4> QED BY <1>5, <2>1, <4>1 DEF WriteInv, WriteGot, Ok
    <3>2. CASE c = Fuse
      <4>1. ReadRow(Fuse) \/ ReadBody(Fuse)
        <5>1. calls[Fuse].pc \in {"row", "body", "returned"}
          BY <1>1, <1>5 DEF CallOk
        <5> QED BY <3>2, <5>1 DEF RouterStep, WriteCreate, WriteFill, WriteUpsert, MkdirUpsert,
                   ParentRow, ParentUpsert, ReadRow, ReadBody, DeleteRequire, DeleteFile,
                   DeleteRow, At
      <4>2. CASE ReadRow(Fuse)
        <5>1. ~Go(Fuse, "body")
          <6>1. calls[Fuse].pc = "row" /\ calls \in [Callers -> CallRec]
            BY <4>2 DEF ReadRow, At, TreeInv
          <6>2. Go(Fuse, "body") => calls'[Fuse].pc = "body"
            BY <1>1, <6>1 DEF Go, CallRec
          <6> QED BY <6>2
        <5>2. /\ rowid[p] = 0 \/ isDir[p]
              /\ Result(Fuse, "notfound") \/ Result(Fuse, "error")
          BY <4>2, <5>1 DEF ReadRow, HasRow
        <5>3. calls'[Fuse].res # "ok"
          BY <1>1, <5>2, ResultFollows
        <5> QED BY <1>5, <2>1, <5>2, <5>3 DEF WriteInv, WriteReads
      <4>3. CASE ReadBody(Fuse)
        <5>1. calls[Fuse].pc = "body"
          BY <4>3 DEF ReadBody, At
        <5>2. CASE disk[p] \in Contents
          <6>1. calls' = [calls EXCEPT ![Fuse].pc = "returned", ![Fuse].res = "ok",
                                       ![Fuse].data = disk[p]]
            BY <4>3, <5>2 DEF ReadBody
          <6>2. calls'[Fuse].res = "ok" /\ calls'[Fuse].data = disk[p]
            BY <1>1, <5>1, <5>2, <6>1, BodyFollows
          <6> QED BY <1>5, <2>1, <5>2, <6>2 DEF WriteInv, WriteReads
        <5>3. CASE disk[p] \notin Contents
          <6>1. Result(Fuse, "notfound")
            BY <4>3, <5>3 DEF ReadBody
          <6>2. calls'[Fuse].res # "ok"
            BY <1>1, <6>1, ResultFollows
          <6> QED BY <1>5, <2>1, <5>3, <6>2 DEF WriteInv, WriteReads
        <5> QED BY <5>2, <5>3
      <4> QED BY <4>1, <4>2, <4>3
    <3> QED BY <3>1, <3>2
  <2> QED BY <2>5, <2>6, <2>7 DEF WriteInv
<1> QED BY <1>4, <1>5

\* The mount's own steps.
LEMMA WriteFuse ==
    ASSUME TreeInv, TableTypeOK, WriteInv, FuseStep PROVE WriteInv'
<1>1. Fuse \in Callers /\ calls[Fuse] \in CallRec /\ calls \in [Callers -> CallRec]
  BY CallersAssumption DEF TreeInv
<1>2. PICK r : /\ CallOk(Fuse, r) /\ calls' = [calls EXCEPT ![Fuse] = r]
               /\ r.pc \in {"idle", "put", "mkdir", "row", "delete"}
               /\ r.op = "written" => WriteBack
               /\ r.op = "write" => \E i \in DOMAIN ino_to_path, off \in 0..(MaxLen - 1) :
                                      BeginWrite(i, off) /\ r.path = PathOf(i)
  BY FuseCalls
<1>3. calls'[Fuse] = r /\ UNCHANGED <<rowid, isDir, disk>>
  BY <1>1, <1>2, FuseCalls
<1>4. WriteGot'
  BY <1>2, <1>3 DEF WriteGot
<1>5. WriteReads'
  <2> SUFFICES ASSUME r.op = "write" PROVE WriteReads'
    BY <1>3 DEF WriteReads
  <2>1. PICK i \in DOMAIN ino_to_path, off \in 0..(MaxLen - 1) :
             BeginWrite(i, off) /\ r.path = PathOf(i)
    BY <1>2
  <2>2. /\ ~isDir[r.path]
        /\ seen' = {Existing(r.path)} \cup ({disk[r.path]} \cap Contents)
    BY <2>1 DEF BeginWrite
  <2> QED BY <1>3, <2>2 DEF WriteReads, Existing, HasRow
<1>6. WriteSplices'
  <2> SUFFICES ASSUME r.op = "written", counts'.fault = 0
               PROVE  \E c \in seen' : r.data = Splice(c, r.off, <<1>>)
    BY <1>3 DEF WriteSplices
  <2>1. WriteBack
    BY <1>2
  <2> PICK old : old = (IF Ok THEN calls[Fuse].data ELSE <<>>)
    OBVIOUS
  <2>2. r.off = calls[Fuse].off /\ r.data = Splice(old, calls[Fuse].off, <<1>>)
    <3> PICK new : new = Splice(old, calls[Fuse].off, <<1>>)
      OBVIOUS
    <3>1. Call(Fuse, "put", "written", calls[Fuse].path, calls[Fuse].off, new)
      BY <2>1 DEF WriteBack
    <3>2. calls'[Fuse] = [pc |-> "put", op |-> "written", path |-> calls[Fuse].path,
                          cur |-> calls[Fuse].path, off |-> calls[Fuse].off, data |-> new,
                          res |-> "none"]
      BY <1>1, <3>1 DEF Call
    <3> QED BY <1>3, <3>2
  <2>3. UNCHANGED <<counts, seen>> /\ calls[Fuse].pc = "returned" /\ calls[Fuse].op = "write"
    BY <2>1 DEF WriteBack, Returned, At
  <2>4. old \in seen
    BY <2>3 DEF WriteInv, WriteGot
  <2> QED BY <2>2, <2>3, <2>4
<1> QED BY <1>4, <1>5, <1>6 DEF WriteInv

\* Failures and HTTP DELETEs are only ever added.
LEMMA CountsGrow ==
    ASSUME counts \in CountsType, [Next]_vars
    PROVE  (counts'.fault = 0 => counts.fault = 0) /\ (counts'.delete = 0 => counts.delete = 0)
<1>1. CASE UNCHANGED counts
  BY <1>1
<1>2. ASSUME NEW w \in {"call", "unlink", "delete", "fault"}, NEW n, Count(w, n)
      PROVE  (counts'.fault = 0 => counts.fault = 0) /\ (counts'.delete = 0 => counts.delete = 0)
  BY <1>2 DEF Count, CountsType
<1>3. CASE FuseStep
  BY <1>1, <1>2, <1>3 DEF FuseStep, Lookup, ReaddirEntry, BeginCreate, BeginMkdir, BeginWrite,
       BeginTruncate, Begin, BeginUnlink, WriteBack, EntryReply, UnlinkReply, WriteReply
<1>4. CASE HttpStep \/ CallStep \/ UNCHANGED vars
  BY <1>1, <1>2, <1>4 DEF HttpStep, HttpPut, HttpDelete, HttpReply, CallStep, vars
<1> QED BY <1>3, <1>4 DEF Next

\* Every step.
LEMMA WriteStep ==
    ASSUME TreeInv, DirsMade, TableTypeOK, counts \in CountsType, WriteInv, [Next]_vars
    PROVE  WriteInv'
<1>1. Fuse \in Callers /\ Fuse \notin Http /\ Http \subseteq Callers
  BY CallersAssumption
<1>2. ASSUME calls'[Fuse] = calls[Fuse], UNCHANGED <<rowid, isDir, disk, seen>> PROVE WriteInv'
  BY <1>2, CountsGrow DEF WriteInv, WriteReads, WriteGot, WriteSplices, Ok
<1>3. CASE FuseStep
  BY <1>3, WriteFuse
<1>4. CASE HttpStep
  <2>1. PICK c \in Http : \/ \E p \in Paths, data \in Writes : HttpPut(c, p, data)
                          \/ \E p \in Paths : HttpDelete(c, p)
                          \/ HttpReply(c)
    BY <1>4 DEF HttpStep
  <2>2. UNCHANGED <<rowid, isDir, disk>> /\ \E r : calls' = [calls EXCEPT ![c] = r]
    BY <2>1, HttpCalls
  <2>3. seen' = seen
    BY <2>1 DEF HttpPut, HttpDelete, HttpReply
  <2>4. calls'[Fuse] = calls[Fuse]
    BY <1>1, <2>2 DEF TreeInv
  <2> QED BY <1>2, <2>2, <2>3, <2>4
<1>5. CASE CallStep
  <2> PICK c \in Callers : \/ RouterStep(c) /\ Observe /\ UNCHANGED counts
                           \/ CallFails(c) /\ Count("fault", MaxFaults) /\ UNCHANGED seen
    BY <1>5 DEF CallStep
  <2>1. CASE RouterStep(c) /\ Observe /\ UNCHANGED counts
    BY <2>1, WriteRouter
  <2>2. CASE CallFails(c) /\ Count("fault", MaxFaults) /\ UNCHANGED seen
    <3>1. CallsFollow(c) /\ UNCHANGED <<rowid, isDir, disk>>
      BY <2>2, ResultFollows DEF CallFails
    <3>2. counts'.fault # 0
      BY <2>2 DEF Count, CountsType
    <3>3. calls'[Fuse].op = calls[Fuse].op /\ calls'[Fuse].path = calls[Fuse].path
      BY <1>1, <3>1 DEF CallsFollow, Follows
    <3> QED BY <2>2, <3>1, <3>2, <3>3 DEF WriteInv, WriteReads, WriteGot, WriteSplices
  <2> QED BY <2>1, <2>2
<1>6. CASE UNCHANGED vars
  BY <1>2, <1>6 DEF vars, treeVars
<1> QED BY <1>3, <1>4, <1>5, <1>6 DEF Next

(***************************************************************************)
(* However HTTP requests write, delete and turn into a directory the file  *)
(* that the mount is writing to, what VfsdFuse::write stores is its bytes  *)
(* spliced into contents the file had since the request arrived, or into   *)
(* the empty file when it was missing meanwhile, as long as no call fails. *)
(***************************************************************************)
THEOREM WritesSpliceSeen == Spec => []WriteSplices
<1> DEFINE Inv == /\ TreeInv /\ DirsMade /\ TableTypeOK /\ counts \in CountsType /\ WriteInv
<1>1. Init => Inv
  <2> SUFFICES ASSUME Init PROVE Inv
    OBVIOUS
  <2>1. calls[Fuse].op = "none"
    BY CallersAssumption, IdleRecord DEF Init, NamespaceInit
  <2>2. WriteInv
    BY <2>1 DEF WriteInv, WriteReads, WriteGot, WriteSplices
  <2>3. counts \in CountsType
    BY DEF Init, CountsType
  <2> QED BY <2>2, <2>3, TreeInitial
<1>2. Inv /\ [Next]_vars => Inv'
  <2>1. TreeInv => rowid \in [Paths -> Nat] /\ calls \in [Callers -> CallRec]
    BY DEF TreeInv
  <2> QED BY <2>1, TreeStep, TableTypeStep, CountsStep, WriteStep
<1>3. Inv => WriteSplices
  BY DEF WriteInv
<1> QED BY <1>1, <1>2, <1>3, PTL DEF Spec

-----------------------------------------------------------------------------
(* Inode numbers while nothing is deleted over HTTP. *)

RowsUnique == \A p, q \in Paths : HasRow(p) /\ rowid[p] = rowid[q] => p = q

\* A call that deletes is counted, or is the mount's own unlink.
DeletesCounted == \A c \in Callers : calls[c].op = "delete" => counts.delete # 0

\* An unlink that has deleted the row and is about to forget the inode.
Unlinked(p) ==
    calls[Fuse].pc = "returned" /\ calls[Fuse].op = "unlink" /\ Ok /\ calls[Fuse].path = p

\* A number was counted up, or it is still that of the path's row.
Numbered(p) ==
    path_to_ino[p] < next_ino \/ (HasRow(p) /\ path_to_ino[p] = rowid[p] + INO_HINT)

NumbersInv ==
    (counts.delete = 0 /\ next_ino <= INO_HINT + 1) =>
        /\ InodesCoherent
        /\ \A p \in DOMAIN path_to_ino : Numbered(p) \/ Unlinked(p)

\* A row's id is one more than any in use, and no other row's changes.
LEMMA UpsertUnique ==
    ASSUME TreeInv, RowsUnique, NEW p \in Paths, NEW d, UpsertRow(p, d)
    PROVE  RowsUnique' /\ \A q \in Paths : HasRow(q) => rowid'[q] = rowid[q]
<1>1. rowid \in [Paths -> Nat]
  BY DEF TreeInv
<1>2. CASE HasRow(p)
  BY <1>2 DEF UpsertRow, RowsUnique, HasRow
<1>3. CASE ~HasRow(p)
  <2>1. PICK n \in {rowid[q] + 1 : q \in Paths} :
          (\A q \in Paths : rowid[q] < n) /\ rowid' = [rowid EXCEPT ![p] = n]
    BY <1>3 DEF UpsertRow
  <2>2. n \in Nat
    BY <1>1, <2>1
  <2>3. \A q \in Paths : rowid'[q] = IF q = p THEN n ELSE rowid[q]
    BY <1>1, <2>1
  <2>4. \A q \in Paths : rowid[q] # n /\ rowid[q] \in Nat
    BY <1>1, <2>1, <2>2
  <2>5. RowsUnique'
    BY <2>3, <2>4 DEF RowsUnique, HasRow
  <2> QED BY <1>3, <2>3, <2>5
<1> QED BY <1>2, <1>3

\* The rows, in every step of a router call: only a delete takes one away.
LEMMA RowsRouter ==
    ASSUME TreeInv, RowsUnique, NEW c \in Callers, RouterStep(c)
    PROVE  /\ RowsUnique'
           /\ \A q \in Paths : HasRow(q) =>
                rowid'[q] = rowid[q] \/ (DeleteRow(c) /\ q = calls[c].path)
<1>1. /\ CallOk(c, calls[c]) /\ calls[c].path \in Paths /\ calls[c].cur \in Paths
      /\ rowid \in [Paths -> Nat]
  BY DEF TreeInv, CallRec
<1>2. CASE UNCHANGED rowid
  BY <1>2 DEF RowsUnique, HasRow
<1>3. CASE WriteUpsert(c) \/ MkdirUpsert(c)
  BY <1>1, <1>3, UpsertUnique DEF WriteUpsert, MkdirUpsert
<1>4. CASE ParentUpsert(c)
  <2>1. calls[c].cur # Root /\ UpsertRow(Parent[calls[c].cur], TRUE)
    BY <1>1, <1>4 DEF ParentUpsert, At, CallOk
  <2>2. Parent[calls[c].cur] \in Paths
    BY <1>1, <2>1, TreeAssumption
  <2> QED BY <2>1, <2>2, UpsertUnique
<1>5. CASE DeleteRow(c)
  <2>1. rowid' = [rowid EXCEPT ![calls[c].path] = 0]
    BY <1>5 DEF DeleteRow
  <2>2. \A q \in Paths : rowid'[q] = IF q = calls[c].path THEN 0 ELSE rowid[q]
    BY <1>1, <2>1
  <2>3. RowsUnique'
    BY <2>2 DEF RowsUnique, HasRow
  <2> QED BY <1>5, <2>2, <2>3
<1> QED BY <1>2, <1>3, <1>4, <1>5 DEF RouterStep, WriteCreate, WriteFill, ParentRow, ReadRow,
           ReadBody, DeleteRequire, DeleteFile

\* get_or_alloc, with the row's number or the next one: the number is free.
LEMMA AllocNumbers ==
    ASSUME TableTypeOK, InodesCoherent, RowsUnique, rowid \in [Paths -> Nat], rowid' = rowid,
           \A q \in DOMAIN path_to_ino : Numbered(q), next_ino' <= INO_HINT + 1,
           NEW p \in Paths, NEW hint, get_or_alloc(p, hint),
           hint = NoHint \/ (HasRow(p) /\ hint = rowid[p] + INO_HINT)
    PROVE  InodesCoherent' /\ \A q \in DOMAIN path_to_ino' : Numbered(q)'
<1>1. CASE HasPath(p)
  <2>1. UNCHANGED tableVars
    BY <1>1 DEF get_or_alloc
  <2> QED BY <2>1 DEF tableVars, InodesCoherent, OneInodePerPath, HasIno, HasPath, Numbered, HasRow
<1>2. CASE ~HasPath(p)
  <2> PICK n : n = InoOf(p, hint)
    OBVIOUS
  <2>1. /\ ino_to_path' = Insert(ino_to_path, n, p) /\ path_to_ino' = Insert(path_to_ino, p, n)
        /\ next_ino' = IF hint = NoHint THEN next_ino + 1 ELSE next_ino
    BY <1>2 DEF get_or_alloc
  <2>2. /\ DOMAIN ino_to_path' = DOMAIN ino_to_path \cup {n}
        /\ DOMAIN path_to_ino' = DOMAIN path_to_ino \cup {p}
        /\ \A i \in DOMAIN ino_to_path' : ino_to_path'[i] = IF i = n THEN p ELSE ino_to_path[i]
        /\ \A q \in DOMAIN path_to_ino' : path_to_ino'[q] = IF q = p THEN n ELSE path_to_ino[q]
    BY <2>1 DEF Insert
  <2>3. /\ next_ino \in Nat /\ INO_HINT \in Nat \ {0} /\ DOMAIN path_to_ino \subseteq Paths
        /\ \A q \in DOMAIN path_to_ino : path_to_ino[q] \in Nat
    BY HintAssumption DEF TableTypeOK
  <2>4. \/ n = next_ino /\ next_ino' = next_ino + 1 /\ next_ino <= INO_HINT
        \/ HasRow(p) /\ n = rowid[p] + INO_HINT /\ next_ino' = next_ino
           /\ next_ino <= INO_HINT + 1
    <3>1. CASE hint = NoHint
      BY <1>2, <2>1, <2>3, <3>1 DEF InoOf
    <3>2. CASE hint # NoHint
      BY <1>2, <2>1, <3>2 DEF InoOf
    <3> QED BY <3>1, <3>2
  <2>5. n \notin DOMAIN ino_to_path
    <3> SUFFICES ASSUME n \in DOMAIN ino_to_path PROVE FALSE
      OBVIOUS
    <3> PICK q : q = ino_to_path[n]
      OBVIOUS
    <3>1. q \in DOMAIN path_to_ino /\ path_to_ino[q] = n /\ q # p
      BY <1>2 DEF InodesCoherent, OneInodePerPath, HasPath
    <3>2. Numbered(q) /\ q \in Paths /\ rowid[q] \in Nat /\ rowid[p] \in Nat
      BY <2>3, <3>1
    <3>3. CASE n < next_ino
      BY <2>3, <2>4, <3>2, <3>3 DEF HasRow
    <3>4. CASE HasRow(q) /\ n = rowid[q] + INO_HINT
      <4>1. n > INO_HINT
        BY <2>3, <3>2, <3>4 DEF HasRow
      <4>2. HasRow(p) /\ n = rowid[p] + INO_HINT
        BY <2>3, <2>4, <4>1
      <4>3. rowid[p] = rowid[q]
        BY <2>3, <3>2, <3>4, <4>2
      <4> QED BY <3>1, <3>2, <4>2, <4>3 DEF RowsUnique
    <3> QED BY <3>1, <3>2, <3>3, <3>4 DEF Numbered
  <2>6. OneInodePerPath'
    BY <1>2, <2>2, <2>5 DEF InodesCoherent, OneInodePerPath, HasPath
  <2>7. \A q \in DOMAIN path_to_ino' :
          path_to_ino'[q] \in DOMAIN ino_to_path' /\ ino_to_path'[path_to_ino'[q]] = q
    BY <1>2, <2>2, <2>5 DEF InodesCoherent, HasIno, HasPath
  <2>8. InodesCoherent'
    BY <2>6, <2>7 DEF InodesCoherent, HasIno
  <2>9. \A q \in DOMAIN path_to_ino' : Numbered(q)'
    <3> SUFFICES ASSUME NEW q \in DOMAIN path_to_ino'
                 PROVE  path_to_ino'[q] < next_ino'
                        \/ (HasRow(q) /\ path_to_ino'[q] = rowid[q] + INO_HINT)
      BY DEF Numbered, HasRow
    <3>1. CASE q = p
      BY <2>2, <2>3, <2>4, <3>1
    <3>2. CASE q # p
      <4>1. q \in DOMAIN path_to_ino /\ path_to_ino'[q] = path_to_ino[q]
        BY <2>2, <3>2
      <4>2. next_ino <= next_ino'
        BY <2>3, <2>4
      <4> QED BY <2>1, <2>3, <4>1, <4>2 DEF Numbered
    <3> QED BY <3>1, <3>2
  <2> QED BY <2>8, <2>9
<1> QED BY <1>1, <1>2

\* remove: the rest of the table stays as it is.
LEMMA RemoveNumbers ==
    ASSUME InodesCoherent, rowid' = rowid, NEW p, remove(p),
           \A q \in DOMAIN path_to_ino : Numbered(q) \/ q = p
    PROVE  InodesCoherent' /\ \A q \in DOMAIN path_to_ino' : Numbered(q)'
<1>1. CASE HasPath(p)
  <2> PICK n : n = path_to_ino[p]
    OBVIOUS
  <2>1. /\ ino_to_path' = Without(ino_to_path, n) /\ path_to_ino' = Without(path_to_ino, p)
        /\ next_ino' = next_ino
    BY <1>1 DEF remove
  <2>2. /\ DOMAIN ino_to_path' = DOMAIN ino_to_path \ {n}
        /\ DOMAIN path_to_ino' = DOMAIN path_to_ino \ {p}
        /\ \A i \in DOMAIN ino_to_path' : ino_to_path'[i] = ino_to_path[i]
        /\ \A q \in DOMAIN path_to_ino' : path_to_ino'[q] = path_to_ino[q]
    BY <2>1 DEF Without
  <2>3. OneInodePerPath'
    BY <1>1, <2>2 DEF InodesCoherent, OneInodePerPath, HasPath
  <2>4. \A q \in DOMAIN path_to_ino' :
          path_to_ino'[q] \in DOMAIN ino_to_path' /\ ino_to_path'[path_to_ino'[q]] = q
    BY <1>1, <2>2 DEF InodesCoherent, HasIno, HasPath
  <2>5. \A q \in DOMAIN path_to_ino' : Numbered(q)'
    BY <2>1, <2>2 DEF Numbered, HasRow
  <2> QED BY <2>3, <2>4, <2>5 DEF InodesCoherent, HasIno
<1>2. CASE ~HasPath(p)
  <2>1. UNCHANGED tableVars
    BY <1>2 DEF remove
  <2> QED BY <1>2, <2>1 DEF tableVars, InodesCoherent, OneInodePerPath, HasIno, HasPath, Numbered,
             HasRow
<1> QED BY <1>1, <1>2

\* The mount's own steps.
LEMMA NumbersFuse ==
    ASSUME TreeInv, TableTypeOK, RowsUnique, NumbersInv, FuseStep,
           counts.delete = 0, next_ino' <= INO_HINT + 1
    PROVE  InodesCoherent' /\ \A p \in DOMAIN path_to_ino' : Numbered(p)'
<1>1. /\ Fuse \in Callers /\ calls[Fuse] \in CallRec /\ calls[Fuse].path \in Paths
      /\ rowid \in [Paths -> Nat] /\ rowid' = rowid /\ next_ino \in Nat /\ INO_HINT \in Nat
  BY CallersAssumption, HintAssumption, FuseCalls DEF TreeInv, TableTypeOK, CallRec
<1>2. next_ino' \in Nat /\ next_ino <= next_ino'
  <2>1. ASSUME NEW p, NEW hint, get_or_alloc(p, hint) PROVE next_ino' \in Nat /\ next_ino <= next_ino'
    BY <1>1, <2>1 DEF get_or_alloc, tableVars
  <2>2. ASSUME NEW p, remove(p) PROVE next_ino' \in Nat /\ next_ino <= next_ino'
    BY <1>1, <2>2 DEF remove, tableVars
  <2>3. ASSUME UNCHANGED tableVars PROVE next_ino' \in Nat /\ next_ino <= next_ino'
    BY <1>1, <2>3 DEF tableVars
  <2> QED BY <2>1, <2>2, <2>3 DEF FuseStep, Lookup, ReaddirEntry, BeginCreate, BeginMkdir,
       BeginWrite, BeginTruncate, Begin, BeginUnlink, WriteBack, EntryReply, UnlinkReply, WriteReply
<1>3. InodesCoherent /\ \A p \in DOMAIN path_to_ino : Numbered(p) \/ Unlinked(p)
  BY <1>1, <1>2 DEF NumbersInv
<1>4. ASSUME UNCHANGED tableVars, \A p : ~Unlinked(p)
      PROVE  InodesCoherent' /\ \A p \in DOMAIN path_to_ino' : Numbered(p)'
  BY <1>1, <1>3, <1>4 DEF tableVars, InodesCoherent, OneInodePerPath, HasIno, HasPath, Numbered,
     HasRow
<1>5. ASSUME NEW p \in Paths, NEW hint, get_or_alloc(p, hint), \A q : ~Unlinked(q),
             hint = NoHint \/ (HasRow(p) /\ hint = rowid[p] + INO_HINT)
      PROVE  InodesCoherent' /\ \A q \in DOMAIN path_to_ino' : Numbered(q)'
  BY <1>1, <1>3, <1>5, AllocNumbers
<1>6. ASSUME calls[Fuse].pc # "returned" \/ calls[Fuse].op # "unlink" \/ ~Ok
      PROVE  \A p : ~Unlinked(p)
  BY <1>6 DEF Unlinked
<1>7. ASSUME NEW p \in Paths, Lookup(p) \/ \E d \in Paths : ReaddirEntry(d, p)
      PROVE  InodesCoherent' /\ \A q \in DOMAIN path_to_ino' : Numbered(q)'
  <2>1. \A q : ~Unlinked(q)
    BY <1>6, <1>7 DEF Lookup, ReaddirEntry, At
  <2>2. \/ UNCHANGED tableVars \/ get_or_alloc(p, NoHint)
        \/ (HasRow(p) /\ get_or_alloc(p, rowid[p] + INO_HINT))
    BY <1>7 DEF Lookup, ReaddirEntry
  <2> QED BY <1>4, <1>5, <2>1, <2>2
<1>8. CASE EntryReply
  <2>1. \A q : ~Unlinked(q)
    BY <1>6, <1>8 DEF EntryReply, Returned
  <2>2. UNCHANGED tableVars \/ get_or_alloc(calls[Fuse].path, NoHint)
    BY <1>8 DEF EntryReply
  <2> QED BY <1>1, <1>4, <1>5, <2>1, <2>2
<1>9. CASE UnlinkReply
  <2>1. CASE Ok
    <3>1. remove(calls[Fuse].path)
      BY <1>9, <2>1 DEF UnlinkReply
    <3>2. \A q \in DOMAIN path_to_ino : Numbered(q) \/ q = calls[Fuse].path
      BY <1>3 DEF Unlinked
    <3> QED BY <1>1, <1>3, <3>1, <3>2, RemoveNumbers
  <2>2. CASE ~Ok
    BY <1>4, <1>6, <1>9, <2>2 DEF UnlinkReply
  <2> QED BY <2>1, <2>2
<1>10. CASE \/ \E p \in Paths : BeginCreate(p) \/ BeginMkdir(p) \/ BeginUnlink(p)
            \/ \E i \in DOMAIN ino_to_path :
                 BeginTruncate(i) \/ \E off \in 0..(MaxLen - 1) : BeginWrite(i, off)
  <2>1. UNCHANGED tableVars /\ calls[Fuse].pc = "idle"
    BY <1>10 DEF BeginCreate, BeginMkdir, BeginUnlink, BeginTruncate, BeginWrite, Begin, At
  <2> QED BY <1>4, <1>6, <2>1
<1>11. CASE WriteBack \/ WriteReply
  <2>1. UNCHANGED tableVars /\ calls[Fuse].op # "unlink"
    BY <1>11 DEF WriteBack, WriteReply, Returned
  <2> QED BY <1>4, <1>6, <2>1
<1> QED BY <1>7, <1>8, <1>9, <1>10, <1>11 DEF FuseStep

\* The other steps leave the table alone; the row of a path in it can only go
\* with the mount's own unlink.
LEMMA NumbersCall ==
    ASSUME TreeInv, TableTypeOK, RowsUnique, DeletesCounted, NumbersInv,
           counts.delete = 0, next_ino <= INO_HINT + 1, UNCHANGED tableVars,
           NEW c \in Callers, RouterStep(c)
    PROVE  InodesCoherent' /\ \A p \in DOMAIN path_to_ino' : Numbered(p)' \/ Unlinked(p)'
<1>1. /\ Fuse \in Callers /\ CallOk(c, calls[c]) /\ DOMAIN path_to_ino \subseteq Paths
      /\ CallsFollow(c) /\ rowid \in [Paths -> Nat]
  BY CallersAssumption, RouterFollows DEF TreeInv, TableTypeOK
<1>2. InodesCoherent /\ \A p \in DOMAIN path_to_ino : Numbered(p) \/ Unlinked(p)
  BY DEF NumbersInv
<1>3. InodesCoherent'
  BY <1>2 DEF tableVars, InodesCoherent, OneInodePerPath, HasIno, HasPath
<1>4. ASSUME NEW p \in DOMAIN path_to_ino, Unlinked(p) PROVE Unlinked(p)'
  <2>1. calls[Fuse].pc = "returned"
    BY <1>4 DEF Unlinked
  <2>2. c # Fuse
    BY <2>1 DEF RouterStep, WriteCreate, WriteFill, WriteUpsert, MkdirUpsert, ParentRow,
       ParentUpsert, ReadRow, ReadBody, DeleteRequire, DeleteFile, DeleteRow, At
  <2>3. calls'[Fuse] = calls[Fuse]
    BY <1>1, <2>1, <2>2 DEF CallsFollow
  <2> QED BY <1>4, <2>3 DEF Unlinked, Ok
<1>5. ASSUME NEW p \in DOMAIN path_to_ino, Numbered(p) PROVE Numbered(p)' \/ Unlinked(p)'
  <2>1. CASE HasRow(p) => rowid'[p] = rowid[p]
    BY <1>5, <2>1 DEF Numbered, HasRow, tableVars
  <2>2. CASE ~(HasRow(p) => rowid'[p] = rowid[p])
    <3>1. DeleteRow(c) /\ p = calls[c].path
      BY <1>1, <2>2, RowsRouter
    <3>2. calls[c].pc = "rmrow" /\ Result(c, "ok")
      BY <3>1 DEF DeleteRow, At
    <3>3. calls[c].op = "unlink" /\ c = Fuse
      BY <1>1, <3>2 DEF CallOk, DeletesCounted, Deleting
    <3>4. calls'[Fuse].pc = "returned" /\ calls'[Fuse].res = "ok"
      BY <3>2, <3>3, ResultFollows
    <3>5. calls'[Fuse].op = "unlink" /\ calls'[Fuse].path = p
      BY <1>1, <3>1, <3>3 DEF CallsFollow, Follows
    <3> QED BY <3>4, <3>5 DEF Unlinked, Ok
  <2> QED BY <2>1, <2>2
<1>6. path_to_ino' = path_to_ino
  BY DEF tableVars
<1> QED BY <1>2, <1>3, <1>4, <1>5, <1>6

\* Every step.
LEMMA NumbersStep ==
    ASSUME TreeInv, TableTypeOK, counts \in CountsType, RowsUnique, DeletesCounted, NumbersInv,
           [Next]_vars
    PROVE  RowsUnique' /\ DeletesCounted' /\ NumbersInv'
<1>1. Fuse \in Callers /\ Fuse \notin Http /\ Http \subseteq Callers
      /\ calls \in [Callers -> CallRec]
  BY CallersAssumption DEF TreeInv
<1>0. counts'.delete = 0 => counts.delete = 0
  BY CountsGrow
<1>2. ASSUME UNCHANGED <<rowid, tableVars>>, calls'[Fuse] = calls[Fuse] PROVE NumbersInv'
  BY <1>0, <1>2 DEF NumbersInv, tableVars, InodesCoherent, OneInodePerPath, HasIno, HasPath,
     Numbered, HasRow, Unlinked, Ok
<1>3. ASSUME rowid' = rowid PROVE RowsUnique'
  BY <1>3 DEF RowsUnique, HasRow
<1>4. ASSUME NEW c \in Callers, NEW r, calls' = [calls EXCEPT ![c] = r],
             r.op = "delete" => calls[c].op = "delete" \/ Count("delete", MaxDeletes)
      PROVE  DeletesCounted'
  <2>1. \A b \in Callers : calls'[b].op = "delete" =>
          calls[b].op = "delete" \/ Count("delete", MaxDeletes)
    BY <1>1, <1>4
  <2>2. Count("delete", MaxDeletes) => counts'.delete # 0
    BY DEF Count, CountsType
  <2> QED BY <1>0, <2>1, <2>2 DEF DeletesCounted
<1>5. CASE FuseStep
  <2>1. rowid' = rowid /\ \E r : calls' = [calls EXCEPT ![Fuse] = r] /\ r.op # "delete"
    BY <1>5, FuseCalls
  <2>2. NumbersInv'
    BY <1>0, <1>5, NumbersFuse DEF NumbersInv
  <2> QED BY <1>1, <1>3, <1>4, <2>1, <2>2
<1>6. CASE HttpStep
  <2>1. PICK c \in Http : \/ \E p \in Paths, data \in Writes : HttpPut(c, p, data)
                          \/ \E p \in Paths : HttpDelete(c, p)
                          \/ HttpReply(c)
    BY <1>6 DEF HttpStep
  <2>2. /\ UNCHANGED <<rowid, isDir, disk>>
        /\ \E r : /\ calls' = [calls EXCEPT ![c] = r]
                  /\ r.op = "delete" => Count("delete", MaxDeletes)
    BY <2>1, HttpCalls
  <2>3. UNCHANGED tableVars
    BY <2>1 DEF HttpPut, HttpDelete, HttpReply
  <2>4. calls'[Fuse] = calls[Fuse]
    BY <1>1, <2>2
  <2> QED BY <1>1, <1>2, <1>3, <1>4, <2>2, <2>3, <2>4
<1>7. CASE CallStep
  <2>1. PICK c \in Callers : /\ RouterStep(c) \/ CallFails(c)
                             /\ UNCHANGED tableVars
    BY <1>7 DEF CallStep
  <2>2. CASE RouterStep(c)
    <3>1. RowsUnique'
      BY <2>2, RowsRouter
    <3>2. DeletesCounted'
      BY <1>0, <2>2, RouterFollows DEF CallsFollow, Follows, DeletesCounted
    <3>3. next_ino' = next_ino
      BY <2>1 DEF tableVars
    <3>4. NumbersInv'
      BY <1>0, <2>1, <2>2, <3>3, NumbersCall DEF NumbersInv
    <3> QED BY <3>1, <3>2, <3>4
  <2>3. CASE CallFails(c)
    <3>1. CallsFollow(c) /\ rowid' = rowid /\ calls[c].pc \notin {"idle", "returned"}
          /\ \A b \in Callers \ {c} : calls'[b] = calls[b]
      BY <2>3, ResultFollows DEF CallFails
    <3>2. DeletesCounted'
      BY <1>0, <3>1 DEF CallsFollow, Follows, DeletesCounted
    <3>3. CASE c # Fuse
      BY <1>1, <1>2, <1>3, <2>1, <3>1, <3>2, <3>3
    <3>4. CASE c = Fuse
      <4>1. \A p : ~Unlinked(p)
        BY <3>1, <3>4 DEF Unlinked
      <4>2. NumbersInv'
        BY <1>0, <2>1, <3>1, <4>1 DEF NumbersInv, tableVars, InodesCoherent, OneInodePerPath,
           HasIno, HasPath, Numbered, HasRow
      <4> QED BY <1>3, <3>1, <3>2, <4>2
    <3> QED BY <3>3, <3>4
  <2> QED BY <2>1, <2>2, <2>3
<1>8. CASE UNCHANGED vars
  BY <1>2, <1>3, <1>8 DEF vars, treeVars, DeletesCounted
<1> QED BY <1>5, <1>6, <1>7, <1>8 DEF Next

(***************************************************************************)
(* The two maps of fvfsd's mount stay inverse to each other, so that every *)
(* inode number the kernel holds leads to the file it was given for,       *)
(* through any creates, lookups, listings, unlinks, HTTP PUTs and          *)
(* failures, as long as nothing is deleted over HTTP and the numbers       *)
(* counted up stay below INO_HINT.  A number made of a row id can be       *)
(* reused only once the row is gone, and then the same unlink forgets it   *)
(* before the next request is handled (VfsdFuse::lookup, unlink,           *)
(* InodeTable::get_or_alloc).                                              *)
(***************************************************************************)
THEOREM MountInodesStayCoherent == Spec => []MountInodesCoherent
<1> DEFINE Inv == /\ TreeInv /\ DirsMade /\ TableTypeOK /\ counts \in CountsType
                  /\ RowsUnique /\ DeletesCounted /\ NumbersInv
<1>1. Init => Inv
  <2> SUFFICES ASSUME Init PROVE Inv
    OBVIOUS
  <2>1. DeletesCounted
    BY IdleRecord DEF Init, NamespaceInit, DeletesCounted
  <2>2. counts \in CountsType /\ RowsUnique
    BY DEF Init, NamespaceInit, CountsType, RowsUnique, HasRow
  <2>3. NumbersInv
    BY DEF Init, TableInit, NumbersInv, InodesCoherent, OneInodePerPath, HasIno, HasPath, Numbered,
       ROOT_INO
  <2> QED BY <2>1, <2>2, <2>3, TreeInitial
<1>2. Inv /\ [Next]_vars => Inv'
  <2>1. TreeInv => rowid \in [Paths -> Nat] /\ calls \in [Callers -> CallRec]
    BY DEF TreeInv
  <2> QED BY <2>1, TreeStep, TableTypeStep, CountsStep, NumbersStep
<1>3. Inv => MountInodesCoherent
  BY DEF NumbersInv, MountInodesCoherent
<1> QED BY <1>1, <1>2, <1>3, PTL DEF Spec
=============================================================================
