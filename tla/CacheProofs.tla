----------------------------- MODULE CacheProofs -----------------------------
(***************************************************************************)
(* fvfsc's mount, for any number of files, devices, cache puts, contents,  *)
(* faults and restarts: the cache files hold what their names say as far   *)
(* as they go, and are whole unless a put was interrupted, and a read      *)
(* never mixes files or versions.                                          *)
(***************************************************************************)
EXTENDS VfscFuse, FileBytesProofs

-----------------------------------------------------------------------------
\* A contents is an unfinished copy of itself.
LEMMA FinishedIsUnfinished == ASSUME NEW c \in Contents PROVE Unfinished(c, c)
BY ContentsAreSeqs DEF Unfinished

-----------------------------------------------------------------------------
(* The cache. *)

\* A put task names its file by the data it writes, has created it before it
\* writes, and starts at its beginning.
PutsInv ==
    \A w \in Workers :
        /\ puts[w].hash = puts[w].data
        /\ puts[w].pc # "fill" => puts[w].pos = 0
        /\ puts[w].pc = "fill" => cache[puts[w].hash] # Absent

\* The byte at i is in the file, or a put that is writing it comes to it later.
Covered(c, i) ==
    \/ i <= Len(cache[c]) /\ cache[c][i] = c[i]
    \/ \E w \in Workers : puts[w].pc = "fill" /\ puts[w].hash = c /\ puts[w].pos < i

CoverInv ==
    \A c \in Contents \ interrupted : cache[c] # Absent =>
        \A i \in 1..Len(c) : Covered(c, i)

CacheInv == CacheTypeOK /\ PutsInv /\ CacheAddressed /\ CoverInv

\* What the rest of the system does to the cache: nothing, a new put, or the
\* end of all puts.
CacheAction ==
    \/ UNCHANGED cacheVars
    \/ \E w \in Workers :
         \/ \E data \in Contents : Spawn(w, data)
         \/ PutExists(w) \/ PutCreate(w) \/ PutFill(w) \/ PutDone(w) \/ PutFails(w)
    \/ CacheRestart

\* A piece of write_all sets one byte.
LEMMA FilledBytes ==
    ASSUME NEW c \in Contents, NEW s \in Contents, NEW pos \in Nat, pos < Len(c),
           NEW r, r = Splice(s, pos, <<c[pos + 1]>>)
    PROVE  /\ Len(s) \in Nat
           /\ Len(r) = Larger(Len(s), pos + 1)
           /\ \A k \in 1..Len(r) : r[k] = IF k = pos + 1 THEN c[k]
                                          ELSE IF k <= Len(s) THEN s[k] ELSE 0
<1>1. PICK d : d = <<c[pos + 1]>>
  OBVIOUS
<1>2. c \in Seq(Bytes) /\ Len(c) <= MaxLen /\ Len(s) \in Nat
  BY ContentsAreSeqs
<1>3. d \in Seq(Bytes) /\ Len(d) = 1 /\ d[1] = c[pos + 1]
  BY <1>1, <1>2
<1>4. d \in Contents /\ pos + Len(d) <= MaxLen
  BY <1>2, <1>3, ContentsAreSeqs, MaxLenAssumption
<1>5. /\ Len(r) = Larger(Len(s), pos + Len(d))
      /\ \A i \in 1..Len(r) :
           r[i] = IF i > pos /\ i <= pos + Len(d) THEN d[i - pos]
                  ELSE IF i <= Len(s) THEN s[i] ELSE 0
  BY <1>1, <1>4, SpliceContents
<1>6. Len(r) \in Nat
  BY <1>2, <1>3, <1>5 DEF Larger
<1>7. ASSUME NEW k \in 1..Len(r)
      PROVE  r[k] = IF k = pos + 1 THEN c[k] ELSE IF k <= Len(s) THEN s[k] ELSE 0
  BY <1>3, <1>5, <1>6, <1>7
<1> QED BY <1>2, <1>3, <1>5, <1>7

\* A piece of write_all leaves an unfinished copy of the data.
LEMMA FillUnfinished ==
    ASSUME NEW c \in Contents, NEW s \in Contents, Unfinished(s, c),
           NEW pos \in Nat, pos < Len(c)
    PROVE  Splice(s, pos, <<c[pos + 1]>>) \in Contents
           /\ Unfinished(Splice(s, pos, <<c[pos + 1]>>), c)
<1> DEFINE d == <<c[pos + 1]>>
           r == Splice(s, pos, d)
<1>1. /\ c \in Seq(Bytes) /\ Len(c) <= MaxLen
      /\ s \in Seq(Bytes) /\ Len(s) <= Len(c)
      /\ \A i \in 1..Len(s) : s[i] \in {c[i], 0}
  BY ContentsAreSeqs DEF Unfinished
<1>2. d \in Seq(Bytes) /\ Len(d) = 1 /\ d[1] = c[pos + 1]
  BY <1>1
<1> HIDE DEF d
<1>3. d \in Contents /\ pos + Len(d) <= MaxLen
  BY <1>1, <1>2, ContentsAreSeqs, MaxLenAssumption
<1>4. /\ r \in Contents
      /\ Len(r) = Larger(Len(s), pos + Len(d))
      /\ \A i \in 1..Len(r) :
           r[i] = IF i > pos /\ i <= pos + Len(d) THEN d[i - pos]
                  ELSE IF i <= Len(s) THEN s[i] ELSE 0
  BY <1>3, SpliceContents
<1> HIDE DEF r
<1>5. Len(r) \in Nat /\ Len(r) <= Len(c)
  BY <1>1, <1>2, <1>4 DEF Larger
<1>6. ASSUME NEW i \in 1..Len(r) PROVE r[i] \in {c[i], 0}
  <2>1. CASE i = pos + 1
    BY <2>1, <1>2, <1>4
  <2>2. CASE i # pos + 1 /\ i <= Len(s)
    BY <2>2, <1>1, <1>2, <1>4, <1>5
  <2>3. CASE i # pos + 1 /\ ~(i <= Len(s))
    BY <2>3, <1>2, <1>4, <1>5
  <2> QED BY <2>1, <2>2, <2>3
<1> QED BY <1>4, <1>5, <1>6 DEF Unfinished, r, d

\* Every step of the cache keeps every byte of a file covered: a create empties
\* the file and brings a put that is at its start, a piece of write_all puts one
\* byte and keeps the others.
LEMMA CoverStep ==
    ASSUME CacheInv, CacheAction PROVE CoverInv'
<1> USE DEF CacheInv
<1>1. ASSUME UNCHANGED cache, interrupted \subseteq interrupted',
             \A w \in Workers : Writing(w) =>
                \/ puts'[w] = puts[w]
                \/ puts[w].hash \in interrupted'
      PROVE  CoverInv'
  <2> SUFFICES ASSUME NEW c \in Contents \ interrupted', cache[c] # Absent, NEW i \in 1..Len(c)
               PROVE  Covered(c, i)'
    BY <1>1 DEF CoverInv
  <2>1. Covered(c, i) /\ Len(c) \in Nat
    BY <1>1, ContentsAreSeqs DEF CoverInv
  <2>2. CASE i <= Len(cache[c]) /\ cache[c][i] = c[i]
    BY <1>1, <2>2 DEF Covered
  <2>3. ASSUME NEW w \in Workers, puts[w].pc = "fill", puts[w].hash = c, puts[w].pos < i
        PROVE  Covered(c, i)'
    <3>1. puts[w].pos \in Nat /\ puts[w].data = c
      BY <2>3, MaxLenAssumption DEF CacheTypeOK, PutsInv
    <3>2. Writing(w)
      BY <2>1, <2>3, <3>1 DEF Writing
    <3>3. puts'[w] = puts[w]
      BY <1>1, <2>3, <3>2
    <3> QED BY <2>3, <3>3 DEF Covered
  <2> QED BY <2>1, <2>2, <2>3 DEF Covered
<1>2. CASE UNCHANGED cacheVars
  BY <1>1, <1>2 DEF cacheVars
<1>3. ASSUME NEW w \in Workers, NEW data \in Contents, Spawn(w, data) PROVE CoverInv'
  <2>1. UNCHANGED <<cache, interrupted>> /\ \A v \in Workers \ {w} : puts'[v] = puts[v]
    BY <1>3 DEF Spawn, CacheTypeOK
  <2>2. ~Writing(w)
    BY <1>3 DEF Spawn, Writing
  <2> QED BY <1>1, <2>1, <2>2
<1>4. ASSUME NEW w \in Workers, PutExists(w) \/ PutDone(w) PROVE CoverInv'
  <2>1. UNCHANGED <<cache, interrupted>> /\ \A v \in Workers \ {w} : puts'[v] = puts[v]
    BY <1>4 DEF PutExists, PutDone, CacheTypeOK
  <2>2. ~Writing(w)
    BY <1>4 DEF PutExists, PutDone, Writing
  <2> QED BY <1>1, <2>1, <2>2
<1>5. ASSUME NEW w \in Workers, PutFails(w) PROVE CoverInv'
  <2>1. /\ UNCHANGED cache /\ interrupted \subseteq interrupted'
        /\ \A v \in Workers \ {w} : puts'[v] = puts[v]
        /\ Writing(w) => puts[w].hash \in interrupted'
    BY <1>5 DEF PutFails, CacheTypeOK
  <2> QED BY <1>1, <2>1
<1>6. CASE CacheRestart
  <2>1. /\ UNCHANGED cache /\ interrupted \subseteq interrupted'
        /\ \A v \in Workers : Writing(v) => puts[v].hash \in interrupted'
    BY <1>6 DEF CacheRestart
  <2> QED BY <1>1, <2>1
<1>7. ASSUME NEW w \in Workers, PutCreate(w) PROVE CoverInv'
  <2>1. /\ interrupted' = interrupted
        /\ cache' = [cache EXCEPT ![puts[w].hash] = <<>>]
        /\ puts'[w] = [puts[w] EXCEPT !.pc = "fill"]
        /\ \A v \in Workers \ {w} : puts'[v] = puts[v]
        /\ puts[w].hash \in Contents
    BY <1>7 DEF PutCreate, CacheTypeOK
  <2>2. puts[w].pos = 0
    BY <1>7 DEF PutCreate, PutsInv
  <2> SUFFICES ASSUME NEW c \in Contents \ interrupted, cache'[c] # Absent, NEW i \in 1..Len(c)
               PROVE  Covered(c, i)'
    BY <2>1 DEF CoverInv
  <2>3. i \in Nat /\ i > 0
    BY ContentsAreSeqs
  <2>4. CASE c = puts[w].hash
    <3>1. puts'[w].pc = "fill" /\ puts'[w].hash = c /\ puts'[w].pos < i
      BY <2>1, <2>2, <2>3, <2>4 DEF CacheTypeOK
    <3> QED BY <3>1 DEF Covered
  <2>5. CASE c # puts[w].hash
    <3>1. cache'[c] = cache[c]
      BY <2>1, <2>5 DEF CacheTypeOK
    <3>2. Covered(c, i)
      BY <3>1 DEF CoverInv
    <3>3. puts[w].pc # "fill"
      BY <1>7 DEF PutCreate
    <3> QED BY <2>1, <3>1, <3>2, <3>3 DEF Covered
  <2> QED BY <2>4, <2>5
<1>8. ASSUME NEW w \in Workers, PutFill(w) PROVE CoverInv'
  <2>1. PICK n \in Contents, pos \in Nat : n = puts[w].hash /\ pos = puts[w].pos
    BY MaxLenAssumption DEF CacheTypeOK
  <2>2. puts[w].data = n /\ pos < Len(n) /\ puts[w].pc = "fill" /\ Len(n) \in Nat
    BY <1>8, <2>1, ContentsAreSeqs DEF PutFill, Writing, PutsInv
  <2>3. PICK s \in Contents : s = cache[n]
    BY <2>1, <2>2 DEF CacheTypeOK, PutsInv
  <2>4. Unfinished(s, n)
    BY <2>2, <2>1, <2>3 DEF PutsInv, CacheAddressed
  <2>5. PICK r \in Contents : r = Splice(s, pos, <<n[pos + 1]>>)
    BY <2>2, <2>4, FillUnfinished
  <2>6. /\ interrupted' = interrupted
        /\ cache' = [cache EXCEPT ![n] = r]
        /\ puts'[w] = [puts[w] EXCEPT !.pos = pos + 1]
        /\ \A v \in Workers \ {w} : puts'[v] = puts[v]
    BY <1>8, <2>1, <2>2, <2>3, <2>5 DEF PutFill, CacheTypeOK
  <2> SUFFICES ASSUME NEW c \in Contents \ interrupted, cache'[c] # Absent, NEW i \in 1..Len(c)
               PROVE  Covered(c, i)'
    BY <2>6 DEF CoverInv
  <2>7. i \in Nat
    BY ContentsAreSeqs
  <2>8. CASE c # n
    <3>1. cache'[c] = cache[c]
      BY <2>6, <2>8 DEF CacheTypeOK
    <3>2. Covered(c, i)
      BY <3>1 DEF CoverInv
    <3>3. puts[w].hash # c
      BY <2>1, <2>8
    <3> QED BY <2>6, <3>1, <3>2, <3>3 DEF Covered
  <2>9. CASE c = n
    <3>1. s # Absent /\ Covered(c, i)
      BY <2>3, <2>9, AbsentAssumption DEF CoverInv
    <3>2. /\ Len(s) \in Nat /\ cache'[c] = r /\ cache[c] = s
          /\ Len(r) = Larger(Len(s), pos + 1)
          /\ \A k \in 1..Len(r) : r[k] = IF k = pos + 1 THEN c[k]
                                         ELSE IF k <= Len(s) THEN s[k] ELSE 0
      BY <2>2, <2>3, <2>5, <2>6, <2>9, FilledBytes DEF CacheTypeOK
    <3>3. CASE i = pos + 1
      <4>1. i <= Len(r) /\ i \in 1..Len(r)
        BY <2>1, <2>7, <3>2, <3>3 DEF Larger
      <4>2. r[i] = c[i]
        BY <3>2, <3>3, <4>1
      <4> QED BY <3>2, <4>1, <4>2 DEF Covered
    <3>4. CASE i # pos + 1 /\ i <= Len(s) /\ s[i] = c[i]
      <4>1. i <= Len(r) /\ i \in 1..Len(r)
        BY <2>1, <2>7, <3>2, <3>4 DEF Larger
      <4>2. r[i] = c[i]
        BY <3>2, <3>4, <4>1
      <4> QED BY <3>2, <4>1, <4>2 DEF Covered
    <3>5. ASSUME i # pos + 1, NEW v \in Workers, puts[v].pc = "fill", puts[v].hash = c, puts[v].pos < i
          PROVE  Covered(c, i)'
      <4>1. CASE v # w
        BY <2>6, <3>5, <4>1 DEF Covered
      <4>2. CASE v = w
        <5>1. pos + 1 < i
          BY <2>1, <2>7, <3>5, <4>2
        <5>2. puts'[w].pc = "fill" /\ puts'[w].hash = c /\ puts'[w].pos = pos + 1
          BY <2>1, <2>2, <2>6, <2>9 DEF CacheTypeOK
        <5> QED BY <5>1, <5>2 DEF Covered
      <4> QED BY <4>1, <4>2
    <3> QED BY <3>1, <3>2, <3>3, <3>4, <3>5 DEF Covered
  <2> QED BY <2>8, <2>9
<1> QED BY <1>2, <1>3, <1>4, <1>5, <1>6, <1>7, <1>8 DEF CacheAction

\* Every step of the cache keeps its invariant.
LEMMA CacheStepInv == CacheInv /\ CacheAction => CacheInv'
<1> SUFFICES ASSUME CacheInv, CacheAction PROVE CacheInv'
  OBVIOUS
<1>0. CoverInv'
  BY CoverStep
<1> USE DEF CacheInv
<1>1. CASE UNCHANGED cacheVars
  BY <1>0, <1>1 DEF CacheTypeOK, PutsInv, CacheAddressed, cacheVars
<1>2. ASSUME NEW w \in Workers, NEW data \in Contents, Spawn(w, data) PROVE CacheInv'
  <2>1. CacheTypeOK'
    BY <1>2, MaxLenAssumption DEF CacheTypeOK, Spawn
  <2> QED BY <1>0, <1>2, <2>1 DEF CacheTypeOK, PutsInv, CacheAddressed, Spawn
<1>3. ASSUME NEW w \in Workers, PutExists(w) \/ PutDone(w) \/ PutFails(w) PROVE CacheInv'
  <2>1. /\ UNCHANGED cache
        /\ \/ puts' = [puts EXCEPT ![w] = NoPut]
           \/ puts' = [puts EXCEPT ![w] = [puts[w] EXCEPT !.pc = "create"]]
    BY <1>3 DEF PutExists, PutDone, PutFails
  <2>0. interrupted' \subseteq Contents
    BY <1>3 DEF PutExists, PutDone, PutFails, CacheTypeOK
  <2>2. CacheTypeOK'
    BY <2>0, <2>1, EmptyContents, MaxLenAssumption DEF CacheTypeOK, NoPut
  <2>5. puts[w].pc = "exists" => puts[w].pos = 0
    BY DEF PutsInv
  <2>6. puts' = [puts EXCEPT ![w] = [puts[w] EXCEPT !.pc = "create"]] => puts[w].pc = "exists"
    BY <1>3 DEF PutExists, PutDone, PutFails, NoPut, CacheTypeOK
  <2>3. PutsInv'
    BY <2>1, <2>5, <2>6 DEF CacheTypeOK, PutsInv, NoPut
  <2>4. CacheAddressed'
    BY <2>1 DEF CacheAddressed
  <2> QED BY <1>0, <2>2, <2>3, <2>4
<1>4. ASSUME NEW w \in Workers, PutCreate(w) PROVE CacheInv'
  <2>1. CacheTypeOK'
    BY <1>4, EmptyContents DEF CacheTypeOK, PutCreate
  <2>2. <<>> # Absent
    BY EmptyContents, AbsentAssumption
  <2>3. PutsInv'
    BY <1>4, <2>2 DEF CacheTypeOK, PutsInv, PutCreate
  <2>4. \A c \in Contents : Unfinished(<<>>, c)
    BY ContentsAreSeqs DEF Unfinished
  <2>5. CacheAddressed'
    BY <1>4, <2>4 DEF CacheTypeOK, CacheAddressed, PutCreate
  <2> QED BY <1>0, <2>1, <2>3, <2>5
<1>5. ASSUME NEW w \in Workers, PutFill(w) PROVE CacheInv'
  <2> DEFINE t == puts[w]
             s == cache[t.hash]
             r == Splice(s, t.pos, <<t.data[t.pos + 1]>>)
  <2>1. /\ t.hash \in Contents /\ t.data = t.hash /\ t.pos \in 0..MaxLen /\ t.pos \in Nat
        /\ t.pos < Len(t.hash)
    BY <1>5, MaxLenAssumption DEF CacheTypeOK, PutsInv, PutFill, Writing
  <2>2. s \in Contents /\ Unfinished(s, t.hash)
    BY <1>5, <2>1 DEF CacheTypeOK, PutsInv, PutFill, Writing, CacheAddressed
  <2>3. r \in Contents /\ Unfinished(r, t.hash)
    BY <2>1, <2>2, FillUnfinished
  <2>4. /\ puts' = [puts EXCEPT ![w].pos = @ + 1]
        /\ cache' = [cache EXCEPT ![t.hash] = r] /\ interrupted' = interrupted /\ t.pc = "fill"
    BY <1>5 DEF PutFill, Writing
  <2> HIDE DEF r
  <2>5. t.pos + 1 \in 0..MaxLen
    BY <2>1, ContentsAreSeqs, MaxLenAssumption
  <2>6. CacheTypeOK'
    BY <2>3, <2>4, <2>5 DEF CacheTypeOK
  <2>7. r # Absent
    BY <2>3, AbsentAssumption
  <2>8. PutsInv'
    BY <2>4, <2>7 DEF CacheTypeOK, PutsInv
  <2>9. CacheAddressed'
    BY <2>1, <2>3, <2>4 DEF CacheTypeOK, CacheAddressed
  <2> QED BY <1>0, <2>6, <2>8, <2>9
<1>6. CASE CacheRestart
  <2>1. CacheTypeOK'
    BY <1>6, EmptyContents, MaxLenAssumption DEF CacheTypeOK, CacheRestart, NoPut
  <2> QED BY <1>0, <1>6, <2>1 DEF PutsInv, CacheAddressed, CacheRestart, NoPut
<1> QED BY <1>1, <1>2, <1>3, <1>4, <1>5, <1>6 DEF CacheAction

-----------------------------------------------------------------------------
(* The daemon, as the mount sees it. *)

DaemonInv ==
    /\ bytes \in [Files -> Stored]
    /\ row \in [Files -> Stored]
    /\ conns \in [Conns -> [pc : {"idle", "create", "fill", "upsert", "rmfile", "rmrow"},
                            path : Paths, data : Contents]]
    /\ \A k \in Conns :
         /\ conns[k].pc # "idle" => conns[k].path \in Files
         /\ conns[k].pc = "fill" => bytes[conns[k].path] \in Contents

\* The bodies of PUTs that race on one file, a DELETE among them, leave contents.
LEMMA DaemonStepInv == DaemonInv /\ DaemonStep => DaemonInv'
<1> SUFFICES ASSUME DaemonInv, NEW k \in Conns,
                    \/ \E p \in Files, data \in Writes : RequestPut(k, p, data)
                    \/ \E p \in Files : RequestDelete(k, p)
                    \/ ServeCreate(k) \/ ServeFill(k) \/ ServeUpsert(k)
                    \/ ServeRemoveFile(k) \/ ServeRemoveRow(k)
                    \/ Disconnect(k)
             PROVE  DaemonInv'
  BY DEF DaemonStep
<1>0. Root \in Paths /\ Files \subseteq Paths /\ <<>> \in Contents /\ Writes \subseteq Contents
  BY RootAssumption, EmptyContents, WritesAssumption DEF Files
<1>1. ASSUME NEW p \in Files, NEW data \in Writes, RequestPut(k, p, data) PROVE DaemonInv'
  BY <1>0, <1>1 DEF DaemonInv, RequestPut
<1>2. ASSUME NEW p \in Files, RequestDelete(k, p) PROVE DaemonInv'
  BY <1>0, <1>2 DEF DaemonInv, RequestDelete
<1>3. CASE ServeCreate(k)
  BY <1>0, <1>3 DEF DaemonInv, ServeCreate, Stored
<1>4. CASE ServeFill(k)
  <2> DEFINE p == conns[k].path
             r == Splice(bytes[p], 0, conns[k].data)
  <2>1. p \in Files /\ bytes[p] \in Contents /\ conns[k].data \in Contents
    BY <1>4 DEF DaemonInv, ServeFill
  <2>2. 0 + Len(conns[k].data) <= MaxLen
    BY <2>1, ContentsAreSeqs
  <2>3. r \in Contents
    BY <2>1, <2>2, SpliceContents
  <2>4. bytes' = [bytes EXCEPT ![p] = r] /\ row' = row
        /\ conns' = [conns EXCEPT ![k].pc = "upsert"]
    BY <1>4 DEF ServeFill
  <2> HIDE DEF r
  <2> QED BY <2>1, <2>3, <2>4 DEF DaemonInv, Stored
<1>5. CASE ServeUpsert(k)
  BY <1>0, <1>5 DEF DaemonInv, ServeUpsert, Stored, NoConn
<1>6. CASE ServeRemoveFile(k)
  <2>1. bytes' \in [Files -> Stored] /\ row' \in [Files -> Stored]
    BY <1>6 DEF DaemonInv, ServeRemoveFile, Stored
  <2>2. \A j \in Conns :
          /\ conns'[j].path = conns[j].path /\ conns'[j].data = conns[j].data
          /\ conns'[j].pc = IF j = k THEN "rmrow"
                            ELSE IF conns[j].path = conns[k].path /\ conns[j].pc = "fill"
                            THEN "upsert" ELSE conns[j].pc
          /\ conns'[j] \in [pc : {"idle", "create", "fill", "upsert", "rmfile", "rmrow"},
                            path : Paths, data : Contents]
    BY <1>6 DEF DaemonInv, ServeRemoveFile
  <2>3. conns' \in [Conns -> [pc : {"idle", "create", "fill", "upsert", "rmfile", "rmrow"},
                            path : Paths, data : Contents]]
    BY <1>6, <2>2 DEF ServeRemoveFile
  <2>4. \A j \in Conns : conns'[j].pc = "fill" =>
          conns[j].pc = "fill" /\ conns[j].path # conns[k].path
    BY <2>2
  <2>5. \A j \in Conns :
          /\ conns'[j].pc # "idle" => conns'[j].path \in Files
          /\ conns'[j].pc = "fill" => bytes'[conns'[j].path] \in Contents
    BY <1>6, <2>2, <2>4 DEF DaemonInv, ServeRemoveFile
  <2> QED BY <2>1, <2>3, <2>5 DEF DaemonInv
<1>7. CASE ServeRemoveRow(k)
  BY <1>0, <1>7 DEF DaemonInv, ServeRemoveRow, Stored, NoConn
<1>8. CASE Disconnect(k)
  BY <1>0, <1>8 DEF DaemonInv, Disconnect, NoConn
<1> QED BY <1>1, <1>2, <1>3, <1>4, <1>5, <1>6, <1>7, <1>8

-----------------------------------------------------------------------------
(* The read handler. *)

\* While a read runs, seen has what the daemon holds now; past the stat, it
\* has the hash the handler looks up.
HandlerInv ==
    /\ h \in [pc : {"idle", "stat", "cache", "get", "body", "done"}, path : Paths,
              offset : 0..MaxLen, hash : Stored, reply : Contents]
    /\ h.pc # "idle" => h.path \in Files /\ bytes[h.path] \in seen /\ row[h.path] \in seen
    /\ h.pc = "cache" => h.hash \in Contents /\ h.hash \in seen
    /\ ReadsFresh

PathsInv == \A i \in DOMAIN ino_to_path : ino_to_path[i] \in Paths

\* The daemon's steps only add to what the read has seen.
LEMMA DaemonObserved ==
    ASSUME DaemonInv, HandlerInv, DaemonStep PROVE HandlerInv'
<1>1. /\ h' = h
      /\ h.pc # "idle" =>
           seen \subseteq seen' /\ bytes'[h.path] \in seen' /\ row'[h.path] \in seen'
  <2> PICK k \in Conns : \/ \E p \in Files, data \in Writes : RequestPut(k, p, data)
                         \/ \E p \in Files : RequestDelete(k, p)
                         \/ ServeCreate(k) \/ ServeFill(k) \/ ServeUpsert(k)
                         \/ ServeRemoveFile(k) \/ ServeRemoveRow(k)
                         \/ Disconnect(k)
    BY DEF DaemonStep
  <2>1. CASE \/ \E p \in Files, data \in Writes : RequestPut(k, p, data)
             \/ \E p \in Files : RequestDelete(k, p)
             \/ Disconnect(k)
    BY <2>1 DEF RequestPut, RequestDelete, Disconnect, HandlerInv
  <2>2. CASE ServeCreate(k) \/ ServeFill(k) \/ ServeUpsert(k)
             \/ ServeRemoveFile(k) \/ ServeRemoveRow(k)
    <3>1. h' = h /\ Observe
      BY <2>2 DEF ServeCreate, ServeFill, ServeUpsert, ServeRemoveFile, ServeRemoveRow
    <3> QED BY <3>1 DEF Observe
  <2> QED BY <2>1, <2>2
<1>2. ReadsFresh'
  BY <1>1 DEF HandlerInv, ReadsFresh
<1> QED BY <1>1, <1>2 DEF HandlerInv

\* The state a read that ends, or has not begun, leaves the handler in.
LEMMA IdleHandler == Idle \in [pc : {"idle", "stat", "cache", "get", "body", "done"}, path : Paths,
                              offset : 0..MaxLen, hash : Stored, reply : Contents]
                    /\ Idle.pc = "idle"
BY RootAssumption, EmptyContents, MaxLenAssumption DEF Idle, Stored

\* Replying with an unfinished copy of something seen.
LEMMA ReplyFresh ==
    ASSUME HandlerInv, NEW c \in seen, c \in Contents, NEW s \in Contents, Unfinished(s, c),
           h.pc # "idle", Reply(s), UNCHANGED <<bytes, row, seen>>
    PROVE  HandlerInv'
<1> DEFINE r == ReadRange(s, h.offset, Size)
<1>1. h.offset \in Nat /\ Size \in Nat
  BY MaxLenAssumption DEF HandlerInv, Size
<1>2. r \in Contents
  BY <1>1, RangeContents
<1>3. h' = [h EXCEPT !.pc = "done", !.reply = r]
  BY DEF Reply
<1>4. c \in seen' \ {Absent}
  BY AbsentAssumption
<1> HIDE DEF r
<1>5. /\ h' \in [pc : {"idle", "stat", "cache", "get", "body", "done"}, path : Paths,
                 offset : 0..MaxLen, hash : Stored, reply : Contents]
      /\ h'.pc = "done" /\ h'.path = h.path /\ h'.offset = h.offset /\ h'.reply = r
  BY <1>2, <1>3 DEF HandlerInv
<1>6. ReadsFresh'
  BY <1>4, <1>5 DEF ReadsFresh, r
<1> QED BY <1>5, <1>6 DEF HandlerInv

\* The mount's own steps.
LEMMA HandlerStepInv ==
    ASSUME DaemonInv, CacheInv, PathsInv, HandlerInv, HandlerStep PROVE HandlerInv'
<1>0. UNCHANGED daemonVars
  BY DEF HandlerStep, Lookup, ReaddirEntry, BeginRead, ReadStat, ReadStatFails, ReadCache,
         ReadGet, ReadBody, ReadBodyGone, ReadFails, Return
<1>1. ASSUME UNCHANGED <<h, seen>> PROVE HandlerInv'
  BY <1>0, <1>1 DEF HandlerInv, ReadsFresh, daemonVars
<1>2. ASSUME h' = Idle PROVE HandlerInv'
  <2>1. h'.pc = "idle"
    BY <1>2, IdleHandler
  <2> QED BY <1>2, <2>1, IdleHandler DEF HandlerInv, ReadsFresh
<1>3. ASSUME NEW p \in Files, Lookup(p) \/ ReaddirEntry(p) PROVE HandlerInv'
  BY <1>1, <1>3 DEF Lookup, ReaddirEntry
<1>4. ASSUME NEW i \in DOMAIN ino_to_path, NEW offset \in 0..MaxLen, BeginRead(i, offset)
      PROVE  HandlerInv'
  <2>1. ino_to_path[i] \in Files /\ ino_to_path[i] \in Paths
    BY <1>4 DEF PathsInv, BeginRead, Files
  <2>2. /\ h' \in [pc : {"idle", "stat", "cache", "get", "body", "done"}, path : Paths,
                   offset : 0..MaxLen, hash : Stored, reply : Contents]
        /\ h'.pc = "stat" /\ h'.path = ino_to_path[i]
    BY <1>4, <2>1, IdleHandler DEF BeginRead, Idle
  <2> QED BY <1>0, <1>4, <2>1, <2>2 DEF HandlerInv, BeginRead, ReadsFresh, daemonVars
<1>5. CASE ReadStat
  <2>1. row[h.path] \in Stored /\ row[h.path] \in seen
    BY <1>5 DEF ReadStat, HandlerInv, DaemonInv
  <2>2. /\ h' \in [pc : {"idle", "stat", "cache", "get", "body", "done"}, path : Paths,
                   offset : 0..MaxLen, hash : Stored, reply : Contents]
        /\ h'.pc = IF row[h.path] = Absent THEN "get" ELSE "cache"
        /\ h'.path = h.path /\ h'.hash = row[h.path] /\ seen' = seen
    BY <1>5, <2>1 DEF ReadStat, HandlerInv
  <2>3. h.path \in Files
    BY <1>5 DEF ReadStat, HandlerInv
  <2> QED BY <1>0, <1>5, <2>1, <2>2, <2>3 DEF HandlerInv, ReadStat, ReadsFresh, daemonVars, Stored
<1>6. CASE ReadStatFails
  BY <1>0, <1>6 DEF HandlerInv, ReadStatFails, ReadsFresh, daemonVars
<1>7. CASE ReadCache
  <2>1. h.hash \in Contents /\ h.hash \in seen /\ h.pc # "idle" /\ UNCHANGED <<bytes, row, seen>>
    BY <1>0, <1>7 DEF HandlerInv, ReadCache, daemonVars
  <2>2. CASE cache[h.hash] = Absent
    BY <1>7, <2>1, <2>2 DEF HandlerInv, ReadCache, ReadsFresh
  <2>3. CASE cache[h.hash] # Absent
    <3>1. cache[h.hash] \in Contents /\ Unfinished(cache[h.hash], h.hash)
      BY <2>1, <2>3 DEF CacheInv, CacheTypeOK, CacheAddressed
    <3>2. Reply(cache[h.hash])
      BY <1>7, <2>3 DEF ReadCache
    <3> QED BY <2>1, <3>1, <3>2, ReplyFresh
  <2> QED BY <2>2, <2>3
<1>8. CASE ReadGet
  <2>1. CASE row[h.path] = Absent
    BY <1>2, <1>8, <2>1 DEF ReadGet
  <2>2. CASE row[h.path] # Absent
    BY <1>0, <1>8, <2>2 DEF HandlerInv, ReadGet, ReadsFresh, daemonVars
  <2> QED BY <2>1, <2>2
<1>9. CASE ReadBody
  <2>1. /\ bytes[h.path] \in Contents /\ bytes[h.path] \in seen /\ h.pc # "idle"
        /\ UNCHANGED <<bytes, row, seen>> /\ Reply(bytes[h.path])
    BY <1>0, <1>9 DEF HandlerInv, DaemonInv, ReadBody, daemonVars, Stored
  <2> QED BY <2>1, FinishedIsUnfinished, ReplyFresh
<1>10. CASE ReadBodyGone \/ ReadFails \/ Return
  BY <1>2, <1>10 DEF ReadBodyGone, ReadFails, Return
<1> QED BY <1>3, <1>4, <1>5, <1>6, <1>7, <1>8, <1>9, <1>10 DEF HandlerStep

-----------------------------------------------------------------------------
(* The mount with its cache and the daemon. *)

MountInv == DaemonInv /\ CacheInv /\ PathsInv /\ HandlerInv

\* Inodes are only ever given to paths.
LEMMA PathsStep ==
    ASSUME PathsInv, [Next]_vars PROVE PathsInv'
<1>1. ASSUME UNCHANGED tableVars PROVE PathsInv'
  BY <1>1 DEF PathsInv, tableVars
<1>2. ASSUME NEW p \in Files, Lookup(p) \/ ReaddirEntry(p) PROVE PathsInv'
  <2>1. p \in Paths
    BY DEF Files
  <2>2. UNCHANGED tableVars \/ ino_to_path' = Insert(ino_to_path, InoOf(p, NoHint), p)
    BY <1>2 DEF Lookup, ReaddirEntry, get_or_alloc
  <2> QED BY <1>1, <2>1, <2>2 DEF PathsInv, Insert
<1>3. CASE Restart
  BY <1>3, RootAssumption DEF Restart, PathsInv
<1>4. CASE DaemonStep \/ CacheStep \/ UNCHANGED vars
  <2>1. UNCHANGED tableVars
    BY <1>4 DEF DaemonStep, RequestPut, RequestDelete, ServeCreate, ServeFill, ServeUpsert,
                ServeRemoveFile, ServeRemoveRow, Disconnect, CacheStep, vars
  <2> QED BY <1>1, <2>1
<1>5. CASE HandlerStep
  <2>1. \/ \E p \in Files : Lookup(p) \/ ReaddirEntry(p)
        \/ UNCHANGED tableVars
    BY <1>5 DEF HandlerStep, BeginRead, ReadStat, ReadStatFails, ReadCache, ReadGet, ReadBody,
                ReadBodyGone, ReadFails, Return
  <2> QED BY <1>1, <1>2, <2>1
<1> QED BY <1>3, <1>4, <1>5 DEF Next

\* The initial state.
LEMMA MountInitial == Init => MountInv
<1> SUFFICES ASSUME Init PROVE MountInv
  OBVIOUS
<1>1. Root \in Paths /\ <<>> \in Contents /\ 0 \in 0..MaxLen
  BY RootAssumption, EmptyContents, MaxLenAssumption
<1>2. DaemonInv
  BY <1>1 DEF Init, DaemonInv, Stored, NoConn
<1>3. CacheInv
  BY <1>1 DEF Init, CacheInit, CacheInv, CacheTypeOK, PutsInv, CacheAddressed,
                   CoverInv, NoPut
<1>4. PathsInv
  BY <1>1 DEF Init, TableInit, PathsInv
<1>5. HandlerInv
  BY IdleHandler DEF Init, HandlerInv, ReadsFresh
<1> QED BY <1>2, <1>3, <1>4, <1>5 DEF MountInv

\* Every step of the mount, the other devices and the cache tasks.
LEMMA MountStep == MountInv /\ [Next]_vars => MountInv'
<1> SUFFICES ASSUME MountInv, [Next]_vars PROVE MountInv'
  OBVIOUS
<1>0. DaemonInv /\ CacheInv /\ PathsInv /\ HandlerInv /\ PathsInv'
  BY PathsStep DEF MountInv
<1>1. CASE DaemonStep
  <2>1. UNCHANGED cacheVars
    BY <1>1 DEF DaemonStep, RequestPut, RequestDelete, ServeCreate, ServeFill, ServeUpsert,
                ServeRemoveFile, ServeRemoveRow, Disconnect
  <2>2. CacheInv'
    BY <1>0, <2>1, CacheStepInv DEF CacheAction
  <2> QED BY <1>0, <1>1, <2>2, DaemonStepInv, DaemonObserved DEF MountInv
<1>2. ASSUME UNCHANGED daemonVars PROVE DaemonInv'
  BY <1>0, <1>2 DEF DaemonInv, daemonVars
<1>3. CASE HandlerStep
  <2>1. UNCHANGED daemonVars
    BY <1>3 DEF HandlerStep, Lookup, ReaddirEntry, BeginRead, ReadStat, ReadStatFails, ReadCache,
                ReadGet, ReadBody, ReadBodyGone, ReadFails, Return
  <2>2. CASE ReadBody
    <3>1. bytes[h.path] \in Contents
      BY <1>0, <2>2 DEF ReadBody, DaemonInv, HandlerInv, Stored
    <3>2. CacheAction
      BY <2>2, <3>1 DEF ReadBody, CacheAction
    <3> QED BY <1>0, <1>2, <1>3, <2>1, <3>2, CacheStepInv, HandlerStepInv DEF MountInv
  <2>3. CASE UNCHANGED cacheVars
    BY <1>0, <1>2, <1>3, <2>1, <2>3, CacheStepInv, HandlerStepInv DEF MountInv, CacheAction
  <2> QED BY <1>3, <2>2, <2>3 DEF HandlerStep, Lookup, ReaddirEntry, BeginRead, ReadStat,
              ReadStatFails, ReadCache, ReadGet, ReadBodyGone, ReadFails, Return
<1>4. CASE CacheStep
  <2>1. CacheAction /\ UNCHANGED daemonVars /\ UNCHANGED <<h, seen>>
    BY <1>4 DEF CacheStep, CacheAction
  <2>2. HandlerInv'
    BY <1>0, <2>1 DEF HandlerInv, ReadsFresh, daemonVars
  <2> QED BY <1>0, <1>2, <2>1, <2>2, CacheStepInv DEF MountInv
<1>5. CASE Restart
  <2>1. CacheAction /\ UNCHANGED daemonVars /\ h' = Idle
    BY <1>5 DEF Restart, CacheAction
  <2>2. HandlerInv'
    <3>1. h'.pc = "idle"
      BY <2>1, IdleHandler
    <3> QED BY <2>1, <3>1, IdleHandler DEF HandlerInv, ReadsFresh
  <2> QED BY <1>0, <1>2, <2>1, <2>2, CacheStepInv DEF MountInv
<1>6. CASE UNCHANGED vars
  <2>1. UNCHANGED cacheVars /\ UNCHANGED daemonVars /\ UNCHANGED <<h, seen>>
    BY <1>6 DEF vars
  <2>2. HandlerInv'
    BY <1>0, <2>1 DEF HandlerInv, ReadsFresh, daemonVars
  <2> QED BY <1>0, <1>2, <2>1, <2>2, CacheStepInv DEF MountInv, CacheAction
<1> QED BY <1>1, <1>3, <1>4, <1>5, <1>6 DEF Next

(***************************************************************************)
(* However many cache puts race, fail or are killed, a file of the cache   *)
(* only holds bytes of the contents it is named after (LocalCache::put).   *)
(***************************************************************************)
THEOREM CacheStaysAddressed == Spec => []CacheAddressed
<1>1. MountInv => CacheAddressed
  BY DEF MountInv, CacheInv
<1> QED BY <1>1, MountInitial, MountStep, PTL DEF Spec

(***************************************************************************)
(* However many puts of one contents create and write the file at once, it *)
(* is whole when they have ended, unless one of them was interrupted while *)
(* it wrote (LocalCache::put).                                             *)
(***************************************************************************)
THEOREM CacheStaysWhole == Spec => []CacheWhole
<1>1. MountInv => CacheWhole
  <2> SUFFICES ASSUME MountInv, NEW c \in Contents \ interrupted, cache[c] # Absent,
                      \A w \in Workers : ~(Writing(w) /\ puts[w].hash = c)
               PROVE  cache[c] = c
    BY DEF CacheWhole
  <2>1. CacheTypeOK /\ PutsInv /\ CacheAddressed /\ CoverInv
    BY DEF MountInv, CacheInv
  <2>2. PICK s \in Contents : s = cache[c]
    BY <2>1 DEF CacheTypeOK
  <2>3. s \in Seq(Bytes) /\ c \in Seq(Bytes) /\ Len(s) <= Len(c)
    BY <2>1, <2>2, ContentsAreSeqs DEF CacheAddressed, Unfinished
  <2>4. ASSUME NEW i \in 1..Len(c) PROVE i <= Len(s) /\ s[i] = c[i]
    <3>1. Covered(c, i)
      BY <2>1 DEF CoverInv
    <3>2. ASSUME NEW w \in Workers, puts[w].pc = "fill", puts[w].hash = c, puts[w].pos < i
          PROVE  FALSE
      <4>1. puts[w].pos \in Nat /\ puts[w].data = c
        BY <2>1, <3>2, MaxLenAssumption DEF CacheTypeOK, PutsInv
      <4>2. puts[w].pos < Len(c)
        BY <2>3, <3>2, <4>1
      <4> QED BY <3>2, <4>1, <4>2 DEF Writing
    <3> QED BY <2>2, <3>1, <3>2 DEF Covered
  <2>5. Len(s) = Len(c)
    BY <2>3, <2>4
  <2> QED BY <2>2, <2>3, <2>4, <2>5
<1> QED BY <1>1, MountInitial, MountStep, PTL DEF Spec

(***************************************************************************)
(* Whatever the other devices do during a read, and in whatever state the  *)
(* cache is, its reply has the bytes of one version of this one file, at   *)
(* the offset asked for, as far as it goes (VfscFuse::read).               *)
(***************************************************************************)
THEOREM ReadsStayFresh == Spec => []ReadsFresh
<1>1. MountInv => ReadsFresh
  BY DEF MountInv, HandlerInv
<1> QED BY <1>1, MountInitial, MountStep, PTL DEF Spec

-----------------------------------------------------------------------------
(* The type invariant: what MountInv leaves of it. *)

CountsOK == counts \in [put : Nat, delete : Nat, fault : Nat, restart : Nat]

HistoryInv == TableTypeOK /\ seen \subseteq Stored /\ CountsOK

\* get_or_alloc of a path keeps the two maps functions between numbers and paths.
LEMMA AllocTypes ==
    ASSUME TableTypeOK, NEW p \in Paths, get_or_alloc(p, NoHint) PROVE TableTypeOK'
<1>1. CASE HasPath(p)
  BY <1>1 DEF get_or_alloc, TableTypeOK, tableVars
<1>2. CASE ~HasPath(p)
  <2>1. /\ ino_to_path' = Insert(ino_to_path, next_ino, p)
        /\ path_to_ino' = Insert(path_to_ino, p, next_ino)
        /\ next_ino' = next_ino + 1
    BY <1>2 DEF get_or_alloc, InoOf
  <2>2. /\ DOMAIN ino_to_path' = DOMAIN ino_to_path \cup {next_ino}
        /\ DOMAIN path_to_ino' = DOMAIN path_to_ino \cup {p}
    BY <2>1 DEF Insert
  <2>3. ino_to_path' \in [DOMAIN ino_to_path \cup {next_ino} -> Paths]
    BY <2>1 DEF Insert, TableTypeOK
  <2>4. path_to_ino' \in [DOMAIN path_to_ino \cup {p} -> Nat]
    BY <2>1 DEF Insert, TableTypeOK
  <2> QED BY <2>1, <2>2, <2>3, <2>4 DEF TableTypeOK
<1> QED BY <1>1, <1>2

\* The table, in every step: it is left alone, extended, or made anew.
LEMMA TableTypeStep == ASSUME TableTypeOK, [Next]_vars PROVE TableTypeOK'
<1>1. ASSUME UNCHANGED tableVars PROVE TableTypeOK'
  BY <1>1 DEF TableTypeOK, tableVars
<1>2. ASSUME NEW p \in Files, Lookup(p) \/ ReaddirEntry(p) PROVE TableTypeOK'
  <2>1. p \in Paths
    BY DEF Files
  <2>2. UNCHANGED tableVars \/ get_or_alloc(p, NoHint)
    BY <1>2 DEF Lookup, ReaddirEntry
  <2> QED BY <1>1, <2>1, <2>2, AllocTypes
<1>3. CASE Restart
  BY <1>3, RootAssumption DEF Restart, TableTypeOK, ROOT_INO
<1>4. CASE DaemonStep \/ CacheStep \/ UNCHANGED vars
  <2>1. UNCHANGED tableVars
    BY <1>4 DEF DaemonStep, RequestPut, RequestDelete, ServeCreate, ServeFill, ServeUpsert,
                ServeRemoveFile, ServeRemoveRow, Disconnect, CacheStep, vars
  <2> QED BY <1>1, <2>1
<1>5. CASE HandlerStep
  <2>1. \/ \E p \in Files : Lookup(p) \/ ReaddirEntry(p)
        \/ UNCHANGED tableVars
    BY <1>5 DEF HandlerStep, BeginRead, ReadStat, ReadStatFails, ReadCache, ReadGet, ReadBody,
                ReadBodyGone, ReadFails, Return
  <2> QED BY <1>1, <1>2, <2>1
<1> QED BY <1>3, <1>4, <1>5 DEF Next

\* What a read has seen is contents, or the absence of the file or of its row.
LEMMA SeenStep ==
    ASSUME MountInv, DaemonInv', seen \subseteq Stored, [Next]_vars PROVE seen' \subseteq Stored
<1>0. DaemonInv /\ HandlerInv /\ PathsInv
  BY DEF MountInv
<1>1. CASE DaemonStep
  <2> PICK k \in Conns : \/ \E p \in Files, data \in Writes : RequestPut(k, p, data)
                         \/ \E p \in Files : RequestDelete(k, p)
                         \/ ServeCreate(k) \/ ServeFill(k) \/ ServeUpsert(k)
                         \/ ServeRemoveFile(k) \/ ServeRemoveRow(k)
                         \/ Disconnect(k)
    BY <1>1 DEF DaemonStep
  <2>1. seen' = seen \/ Observe
    BY DEF RequestPut, RequestDelete, Disconnect, ServeCreate, ServeFill, ServeUpsert,
           ServeRemoveFile, ServeRemoveRow
  <2>2. h.pc # "idle" => bytes'[h.path] \in Stored /\ row'[h.path] \in Stored
    BY <1>0 DEF HandlerInv, DaemonInv
  <2> QED BY <2>1, <2>2 DEF Observe
<1>2. ASSUME NEW i \in DOMAIN ino_to_path, NEW offset \in 0..MaxLen, BeginRead(i, offset)
      PROVE  seen' \subseteq Stored
  <2>1. ino_to_path[i] \in Files
    BY <1>0, <1>2 DEF PathsInv, BeginRead, Files
  <2> QED BY <1>0, <1>2, <2>1 DEF BeginRead, DaemonInv
<1>3. CASE HandlerStep
  <2>1. \/ \E i \in DOMAIN ino_to_path, offset \in 0..MaxLen : BeginRead(i, offset)
        \/ seen' \in {seen, {}}
    BY <1>3 DEF HandlerStep, Lookup, ReaddirEntry, ReadStat, ReadStatFails, ReadCache, ReadGet,
                ReadBody, ReadBodyGone, ReadFails, Return
  <2> QED BY <1>2, <2>1
<1>4. CASE CacheStep \/ Restart \/ UNCHANGED vars
  <2>1. seen' \in {seen, {}}
    BY <1>4 DEF CacheStep, Restart, vars
  <2> QED BY <2>1
<1> QED BY <1>1, <1>3, <1>4 DEF Next

\* A step that uses up a bound.
LEMMA CountStep ==
    ASSUME CountsOK, NEW what \in {"put", "delete", "fault", "restart"}, NEW bound,
           Count(what, bound)
    PROVE  CountsOK'
BY DEF CountsOK, Count

\* The counters, in every step.
LEMMA CountsStep == ASSUME CountsOK, [Next]_vars PROVE CountsOK'
<1>1. \/ counts' = counts
      \/ \E what \in {"put", "delete", "fault", "restart"} : \E bound : Count(what, bound)
  <2>1. ASSUME DaemonStep
        PROVE  counts' = counts \/ Count("put", MaxPuts) \/ Count("delete", MaxDeletes)
               \/ Count("fault", MaxFaults)
    BY <2>1 DEF DaemonStep, RequestPut, RequestDelete, Disconnect, ServeCreate, ServeFill,
                ServeUpsert, ServeRemoveFile, ServeRemoveRow
  <2>2. ASSUME HandlerStep PROVE counts' = counts \/ Count("fault", MaxFaults)
    BY <2>2 DEF HandlerStep, Lookup, ReaddirEntry, BeginRead, ReadStat, ReadStatFails, ReadCache,
                ReadGet, ReadBody, ReadBodyGone, ReadFails, Return
  <2>3. ASSUME CacheStep PROVE counts' = counts \/ Count("fault", MaxFaults)
    BY <2>3 DEF CacheStep
  <2>4. ASSUME Restart PROVE Count("restart", MaxRestarts)
    BY <2>4 DEF Restart
  <2>5. ASSUME UNCHANGED vars PROVE counts' = counts
    BY <2>5 DEF vars
  <2> QED BY <2>1, <2>2, <2>3, <2>4, <2>5 DEF Next
<1>2. CASE counts' = counts
  BY <1>2 DEF CountsOK
<1> QED BY <1>1, <1>2, CountStep

(***************************************************************************)
(* Every variable of fvfsc's mount keeps its type.  That the cache and the *)
(* daemon hold contents after every racing write_all is what the invariant *)
(* of the reads gives; the inode table, the history and the counters are   *)
(* added here (VfscFuse, InodeTable, LocalCache).                          *)
(***************************************************************************)
THEOREM ClientTypeCorrect == Spec => []VfscTypeOK
<1>1. Init => HistoryInv
  <2> SUFFICES ASSUME Init PROVE HistoryInv
    OBVIOUS
  <2>1. TableTypeOK
    BY RootAssumption DEF Init, TableInit, TableTypeOK, ROOT_INO
  <2> QED BY <2>1 DEF Init, HistoryInv, CountsOK
<1>2. MountInv /\ HistoryInv /\ [Next]_vars => MountInv' /\ HistoryInv'
  <2> SUFFICES ASSUME MountInv, HistoryInv, [Next]_vars PROVE MountInv' /\ HistoryInv'
    OBVIOUS
  <2>1. MountInv'
    BY MountStep
  <2>2. DaemonInv'
    BY <2>1 DEF MountInv
  <2> QED BY <2>1, <2>2, TableTypeStep, SeenStep, CountsStep DEF HistoryInv
<1>3. MountInv /\ HistoryInv => VfscTypeOK
  BY DEF MountInv, HistoryInv, DaemonInv, CacheInv, HandlerInv, CountsOK, VfscTypeOK
<1> QED BY <1>1, <1>2, <1>3, MountInitial, PTL DEF Spec
=============================================================================
