----------------------------- MODULE PathStrings -----------------------------
(***************************************************************************)
(* FvfsPath as the code computes it (fvfs-core/src/types.rs): a string,    *)
(* here a sequence of characters, that is normalised, cut and extended.    *)
(* Beside it goes what the string stands for, the sequence of its names,   *)
(* and the properties compare the two.  The string also travels: into the  *)
(* LIKE patterns of list_dir (metadata.rs) and into the URLs of the client *)
(* (fvfsc/src/http_client.rs), which the daemon parses back.               *)
(***************************************************************************)
EXTENDS Integers, Sequences, FiniteSets, SequencesExt

CONSTANTS
    Chars,      \* the characters of names
    Names,      \* names of files and directories, sequences of characters
    BadName,    \* a name with a NUL character
    MaxNames,   \* bound: the depth of a path
    MaxParts    \* bound: the parts of a string given to new or join

ASSUME BoundAssumption == MaxNames \in Nat /\ MaxParts \in Nat \ {0}

\* What split('/') can return and the loop of normalize keeps.
ASSUME NameAssumption ==
    /\ "/" \notin Chars
    /\ \A name \in Names :
         name \in Seq(Chars) /\ name \notin {<<>>, <<".">>, <<".", ".">>} /\ ~Contains(name, "NUL")
    /\ BadName \in Seq(Chars) /\ Contains(BadName, "NUL")

VARIABLES
    path,       \* the FvfsPath in hand
    names       \* history: the names it stands for

vars == <<path, names>>

Slash == <<"/">>
Dot == <<".">>
DotDot == <<".", ".">>
Invalid == <<"invalid">>

\* A vector of components that normalize never builds.
Rejected == <<<<>>>>

----------------------------------------------------------------------------
(* The operations on strings *)

\* split('/')
Split(s) ==
    LET parts[n \in 0..Len(s)] ==
          IF n = 0 THEN <<<<>>>>
          ELSE LET before == parts[n - 1]
               IN  IF s[n] = "/" THEN Append(before, <<>>)
                   ELSE [before EXCEPT ![Len(before)] = Append(@, s[n])]
    IN  parts[Len(s)]

\* format!("/{}", components.join("/"))
Joined(components) == FlattenSeq([i \in DOMAIN components |-> Slash \o components[i]])

Render(components) == IF components = <<>> THEN Slash ELSE Joined(components)

PopOf_empty_climbs(components) == IF components = <<>> THEN <<DotDot>> ELSE Front(components)

\* Vec::pop, which leaves an empty vector alone.
PopOf(components) == IF components = <<>> THEN <<>> ELSE Front(components)

\* One part of the loop of normalize; Rejected once a part has had a NUL.
PushPart(components, part) ==
    IF components = Rejected THEN Rejected
    ELSE CASE part \in {<<>>, Dot}  -> components
           [] part = DotDot         -> PopOf(components)
           [] Contains(part, "NUL") -> Rejected
           [] OTHER                 -> Append(components, part)

\* The loop.
PushAll(parts) ==
    LET pushed[n \in 0..Len(parts)] ==
          IF n = 0 THEN <<>> ELSE PushPart(pushed[n - 1], parts[n])
    IN  pushed[Len(parts)]

Normalize(s) ==
    LET absolute   == IF s # <<>> /\ s[1] = "/" THEN s ELSE Slash \o s
        components == PushAll(Split(absolute))
    IN  IF s = <<>> \/ components = Rejected THEN Invalid ELSE Render(components)

\* rfind('/')
RFind(s) == CHOOSE i \in DOMAIN s : s[i] = "/" /\ \A j \in (i + 1)..Len(s) : s[j] # "/"

\* parent, of a path that is not the root.
ParentOf(p) == IF RFind(p) = 1 THEN Slash ELSE SubSeq(p, 1, RFind(p) - 1)

\* file_name
FileName(p) == IF p = Slash THEN Slash ELSE SubSeq(p, RFind(p) + 1, Len(p))

\* join
JoinOf(p, segment) ==
    Normalize((IF p = Slash THEN Slash ELSE p \o Slash) \o segment)

----------------------------------------------------------------------------
(* The listing of a directory *)

EscapeLike_forgets_underscore(s) ==
    FlattenSeq([i \in DOMAIN s |-> IF s[i] \in {"\\", "%"} THEN <<"\\", s[i]>> ELSE <<s[i]>>])

\* escape_like
EscapeLike(s) ==
    FlattenSeq([i \in DOMAIN s |-> IF s[i] \in {"\\", "%", "_"} THEN <<"\\", s[i]>> ELSE <<s[i]>>])

\* LIKE does not tell the case of an ASCII letter.
Fold(c) == IF c = "A" THEN "a" ELSE c

\* SQLite's LIKE with ESCAPE '\': rest[j] are the positions of s from which on it
\* matches the pattern from j on.
Like(s, pattern) ==
    LET rest[j \in 1..(Len(pattern) + 1)] ==
          IF j > Len(pattern) THEN {Len(s) + 1}
          ELSE LET c       == pattern[j]
                   after   == rest[j + 1]
                   escaped == rest[j + 2]
               IN  CASE c = "%"  -> {i \in 1..(Len(s) + 1) : \E k \in after : i <= k}
                     [] c = "_"  -> {i \in DOMAIN s : i + 1 \in after}
                     [] c = "\\" -> {i \in DOMAIN s : /\ j < Len(pattern)
                                                      /\ Fold(s[i]) = Fold(pattern[j + 1])
                                                      /\ i + 1 \in escaped}
                     [] OTHER    -> {i \in DOMAIN s : Fold(s[i]) = Fold(c) /\ i + 1 \in after}
    IN  1 \in rest[1]

\* list_dir: does the listing of directory d show the row of q?
Lists(d, q) ==
    LET prefix == EscapeLike(IF d = Slash THEN Slash ELSE d \o Slash)
    IN  Like(q, prefix \o <<"%">>) /\ ~Like(q, prefix \o <<"%", "/", "%">>)

----------------------------------------------------------------------------
(* A path in a URL *)

\* The first part of s up to a character of S.
UpTo(s, S) ==
    LET ends == {i \in DOMAIN s : s[i] \in S} \cup {Len(s) + 1}
    IN  SubSeq(s, 1, (CHOOSE i \in ends : \A j \in ends : i <= j) - 1)

\* Url::join cuts control characters and spaces off the end of its input.
TrimEnd(s) ==
    LET kept == {i \in DOMAIN s : s[i] \notin {" ", "TAB"}}
    IN  IF kept = {} THEN <<>> ELSE SubSeq(s, 1, CHOOSE i \in kept : \A j \in kept : j <= i)

\* In a URL "\" is a "/", a space is encoded and "%" is not, and tabs and line
\* breaks, for which TAB stands, drop out.
UrlEncode(s) ==
    FlattenSeq([i \in DOMAIN s |-> CASE s[i] = "\\"  -> Slash
                                     [] s[i] = " "   -> <<"%", "2", "0">>
                                     [] s[i] = "TAB" -> <<>>
                                     [] OTHER        -> <<s[i]>>])

\* The path of the URL the client parses; a query or a fragment ends it.  (The
\* names have no "." that a dropped TAB or a "\" would make a segment of.)
UrlPath(p) == UrlEncode(UpTo(TrimEnd(p), {"?", "#"}))

\* The daemon's decoding of the path of a request.
PercentDecode(s) ==
    LET decoded[i \in 1..(Len(s) + 1)] ==
          LET rest == SubSeq(s, i, Len(s))
          IN  CASE rest = <<>>                       -> <<>>
                [] IsPrefix(<<"%", "2", "0">>, rest) -> <<" ">> \o decoded[i + 3]
                [] IsPrefix(<<"%", "4", "1">>, rest) -> <<"A">> \o decoded[i + 3]
                [] OTHER                             -> <<s[i]>> \o decoded[i + 1]
    IN  decoded[1]

\* trim_start_matches('/')
TrimStart(s) ==
    LET kept == {i \in DOMAIN s : s[i] # "/"}
    IN  IF kept = {} THEN <<>> ELSE SubSeq(s, CHOOSE i \in kept : \A j \in kept : i <= j, Len(s))

ParsePath_of_raw_url(url) == Normalize(Slash \o TrimStart(url))

\* parse_path of the decoded wildcard.
ParsePath(url) == Normalize(Slash \o TrimStart(PercentDecode(url)))

----------------------------------------------------------------------------
(* What the operations mean on the names a path stands for *)

IsName(part) == part \notin {<<>>, Dot, DotDot}

\* The numbers of names and of ".." in i..j.
Downs(parts, i, j) == Cardinality({k \in i..j : IsName(parts[k])})
Ups(parts, i, j)   == Cardinality({k \in i..j : parts[k] = DotDot})

\* A name stays unless the ".." after it outnumber the names after it somewhere.
Kept(parts, i) ==
    /\ IsName(parts[i])
    /\ \A j \in (i + 1)..Len(parts) : Ups(parts, i + 1, j) <= Downs(parts, i + 1, j)

Resolve(parts) == [k \in 1..Cardinality({i \in DOMAIN parts : Kept(parts, i)}) |->
    parts[CHOOSE i \in DOMAIN parts :
            /\ Kept(parts, i)
            /\ Cardinality({j \in 1..i : Kept(parts, j)}) = k]]

Valid(parts) == parts # <<<<>>>> /\ \A i \in DOMAIN parts : parts[i] # BadName

----------------------------------------------------------------------------

Parts == {s \in BoundedSeq(Names \cup {<<>>, Dot, DotDot, BadName}, MaxParts) : s # <<>>}

\* The string with these parts.
Text(parts) == Tail(Joined(parts))

Init == path = Slash /\ names = <<>>

\* FvfsPath::new; the caller keeps the path it has when there is an error.
New ==
    \E parts \in Parts :
      /\ path' = LET p == Normalize(Text(parts)) IN IF p = Invalid THEN path ELSE p
      /\ names' = IF Valid(parts) THEN Resolve(parts) ELSE names

Parent ==
    /\ path # Slash
    /\ path' = ParentOf(path)
    /\ names' = Front(names)

Join ==
    \E parts \in Parts :
      /\ Len(names) + Len(parts) <= MaxNames
      /\ path' = LET p == JoinOf(path, Text(parts)) IN IF p = Invalid THEN path ELSE p
      /\ names' = IF Valid(parts) \/ parts = <<<<>>>> THEN Resolve(names \o parts) ELSE names

Next == New \/ Parent \/ Join

Spec == Init /\ [][Next]_vars

----------------------------------------------------------------------------
(* Properties *)

\* The rows a listing is asked about.
Universe == {Render(ns) : ns \in BoundedSeq(Names, MaxNames)}

\* new, parent and join give the string of exactly the names that their input
\* stands for, "." and ".." resolved and never above the root; the string is
\* in the one normal form, and file_name is its last name.
PathDenotesNames ==
    /\ path = Render(names)
    /\ Normalize(path) = path
    /\ names # <<>> => FileName(path) = Last(names)

SameButCase(d, e) == Len(d) = Len(e) /\ \A i \in DOMAIN d : Fold(d[i]) = Fold(e[i])

\* What a listing shows, whatever wildcards a name or the directory's path
\* holds.  It is more than the "direct children of dir_path" and the paths
\* "exactly one segment deeper" that metadata.rs:122 and :125 speak of: the row
\* of the root is in the root's own listing, and a directory also shows the
\* children of those whose paths differ from its own in letter case.
ListingIs ==
    \A q \in Universe :
        Lists(path, q) <=> IF q = Slash THEN path = Slash ELSE SameButCase(ParentOf(q), path)

\* A path without the characters that mean something in a URL, and without a
\* space at its end, reaches the daemon as the client meant it.
UrlRoundTrip ==
    /\ \A c \in {"?", "#", "%", "\\", "TAB"} : ~Contains(path, c)
    /\ Last(path) # " "
    => ParsePath(UrlPath(path)) = path
=============================================================================
