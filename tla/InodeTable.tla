------------------------------ MODULE InodeTable ------------------------------
(***************************************************************************)
(* The in-memory inode table of a FUSE mount.  fvfsd and fvfsc each have   *)
(* one, differing only in the hint: fvfsd's lookup asks for an inode       *)
(* number derived from the row id, fvfsc always takes the next free one.   *)
(* The two hash maps are functions with a changing domain.                 *)
(***************************************************************************)
EXTENDS FvfsPath, Naturals

VARIABLES ino_to_path, path_to_ino, next_ino

tableVars == <<ino_to_path, path_to_ino, next_ino>>

ROOT_INO == 1
NoHint   == 0

TableTypeOK ==
    /\ DOMAIN ino_to_path \subseteq Nat
    /\ ino_to_path \in [DOMAIN ino_to_path -> Paths]
    /\ DOMAIN path_to_ino \subseteq Paths
    /\ path_to_ino \in [DOMAIN path_to_ino -> Nat]
    /\ next_ino \in Nat

\* HashMap::insert and HashMap::remove.
Insert(f, k, v) == [x \in DOMAIN f \cup {k} |-> IF x = k THEN v ELSE f[x]]
Without(f, k)   == [x \in DOMAIN f \ {k} |-> f[x]]

TableInit_from_root ==
    /\ ino_to_path = [i \in {ROOT_INO} |-> Root]
    /\ path_to_ino = [p \in {Root} |-> ROOT_INO]
    /\ next_ino = ROOT_INO

TableInit ==
    /\ ino_to_path = [i \in {ROOT_INO} |-> Root]
    /\ path_to_ino = [p \in {Root} |-> ROOT_INO]
    /\ next_ino = 2

\* The table knows the inode, or the path.
HasIno(i)  == i \in DOMAIN ino_to_path
HasPath(p) == p \in DOMAIN path_to_ino

\* The number get_or_alloc returns.
InoOf(p, hint) ==
    IF HasPath(p) THEN path_to_ino[p] ELSE IF hint = NoHint THEN next_ino ELSE hint

\* get_or_alloc: a hinted number is inserted without asking whether it is taken.
get_or_alloc(p, hint) ==
    IF HasPath(p)
      THEN UNCHANGED tableVars
      ELSE /\ ino_to_path' = Insert(ino_to_path, InoOf(p, hint), p)
           /\ path_to_ino' = Insert(path_to_ino, p, InoOf(p, hint))
           /\ next_ino' = IF hint = NoHint THEN next_ino + 1 ELSE next_ino

remove_keeps_inode(p) ==
    /\ path_to_ino' = Without(path_to_ino, p)
    /\ UNCHANGED <<ino_to_path, next_ino>>

remove(p) ==
    IF HasPath(p)
      THEN /\ ino_to_path' = Without(ino_to_path, path_to_ino[p])
           /\ path_to_ino' = Without(path_to_ino, p)
           /\ UNCHANGED next_ino
      ELSE UNCHANGED tableVars

(***************************************************************************)
(* A path has at most one live inode number: every entry of ino_to_path is *)
(* the one path_to_ino has for that path, so no file is seen under two     *)
(* numbers and remove leaves no number behind (InodeTable).                *)
(***************************************************************************)
OneInodePerPath ==
    \A i \in DOMAIN ino_to_path :
        HasPath(ino_to_path[i]) /\ path_to_ino[ino_to_path[i]] = i

(***************************************************************************)
(* The two maps are inverse to each other: besides, an inode number stands *)
(* for one path, and a path that has one is found under it.  This is the   *)
(* "inode <-> FvfsPath map" of the fvfsd handler's header comment.         *)
(***************************************************************************)
InodesCoherent ==
    /\ OneInodePerPath
    /\ \A p \in DOMAIN path_to_ino :
         HasIno(path_to_ino[p]) /\ ino_to_path[path_to_ino[p]] = p
=============================================================================
