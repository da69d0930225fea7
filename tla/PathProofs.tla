----------------------------- MODULE PathProofs -----------------------------
(***************************************************************************)
(* Proofs about paths as strings (PathStrings): for names over any         *)
(* characters, paths of any depth and inputs with any number of parts.     *)
(*                                                                         *)
(* Split, normalize, join, LIKE and the decoding of a URL are loops over a *)
(* string.  Each is first shown to satisfy its recursive equation, by      *)
(* induction over the string; the equations then say what it does to the   *)
(* strings that paths are.                                                 *)
(***************************************************************************)
EXTENDS PathStrings, TLAPS, FiniteSetTheorems, SequenceTheorems

----------------------------------------------------------------------------
(* Induction *)

\* Every non-empty set of naturals has a least element.
LEMMA LeastNatural ==
    ASSUME NEW N, N \subseteq Nat, N # {}
    PROVE  \E n \in N : \A m \in N : n <= m
<1> DEFINE I == {0..n : n \in N}
<1>1. I \subseteq FiniteSubsetsOf(Nat) /\ I # {}
  <2>1. \A n \in N : IsFiniteSet(0..n) /\ 0..n \in SUBSET Nat
    BY FS_Interval
  <2>2. QED BY <2>1 DEF FiniteSubsetsOf
<1> HIDE DEF I
<1>2. PICK i \in I : \A j \in I : ~(<<j, i>> \in StrictSubsetOrdering(Nat))
  BY <1>1, FS_StrictSubsetOrderingWellFounded, WFMin
<1>3. PICK n \in N : i = 0..n
  BY <1>2 DEF I
<1>4. ASSUME NEW m \in N PROVE n <= m
  <2>1. <<0..m, 0..n>> \notin StrictSubsetOrdering(Nat)
    BY <1>2, <1>3 DEF I
  <2>2. ~(0..m \subseteq 0..n /\ 0..m # 0..n)
    BY <2>1 DEF StrictSubsetOrdering
  <2>3. QED BY <2>2
<1>5. QED BY <1>4

\* Induction over the naturals, for a set.
LEMMA SetNatInduction ==
    ASSUME NEW C, 0 \in C, \A n \in Nat : n \in C => n + 1 \in C
    PROVE  Nat \subseteq C
<1>1. SUFFICES ASSUME Nat \ C # {} PROVE FALSE
  OBVIOUS
<1>2. PICK n \in Nat \ C : \A m \in Nat \ C : n <= m
  BY <1>1, LeastNatural
<1>3. n # 0 /\ n - 1 \in Nat
  BY <1>2
<1>4. n - 1 \in C
  BY <1>2, <1>3
<1>5. (n - 1) + 1 \in C
  BY <1>3, <1>4
<1>6. QED BY <1>2, <1>5

\* Induction over the sequences on a set, for a set of sequences.
LEMMA SeqInduction ==
    ASSUME NEW S, NEW C, <<>> \in C,
           \A s \in Seq(S) : \A e \in S : s \in C => Append(s, e) \in C
    PROVE  Seq(S) \subseteq C
<1> DEFINE N == {n \in Nat : \A s \in Seq(S) : Len(s) = n => s \in C}
<1>1. 0 \in N
  <2>1. \A s \in Seq(S) : Len(s) = 0 => s = <<>>
    BY EmptySeq
  <2>2. QED BY <2>1
<1>2. ASSUME NEW n \in Nat, n \in N PROVE n + 1 \in N
  <2>1. SUFFICES ASSUME NEW s \in Seq(S), Len(s) = n + 1 PROVE s \in C
    OBVIOUS
  <2>2. s # <<>>
    BY <2>1, EmptySeq
  <2>3. PICK f \in Seq(S), e \in S : s = Append(f, e)
    BY <2>2, SequenceEmptyOrAppend
  <2>4. Len(f) = n
    BY <2>1, <2>3, AppendProperties, LenProperties
  <2>5. f \in C
    BY <1>2, <2>4
  <2>6. QED BY <2>3, <2>5
<1>3. Nat \subseteq N
  <2> HIDE DEF N
  <2>1. QED BY <1>1, <1>2, SetNatInduction
<1>4. QED BY <1>3, LenProperties

----------------------------------------------------------------------------
(* The equations of the loops *)

SplitStep(before, c) ==
    IF c = "/" THEN Append(before, <<>>)
    ELSE [before EXCEPT ![Len(before)] = Append(@, c)]

\* g satisfies the defining equation of the parts of s's prefixes.
IsSplit(g, s) ==
    g = [n \in 0..Len(s) |-> IF n = 0 THEN <<<<>>>> ELSE SplitStep(g[n - 1], s[n])]

LEMMA SplitUnfold ==
    ASSUME NEW s
    PROVE  Split(s) = (CHOOSE g : IsSplit(g, s))[Len(s)]
BY DEF Split, IsSplit, SplitStep

LEMMA SplitExists ==
    ASSUME NEW A
    PROVE  \A s \in Seq(A) : \E g : IsSplit(g, s)
<1> DEFINE C == {s \in Seq(A) : \E g : IsSplit(g, s)}
<1>1. <<>> \in C
  <2>1. \E g : g = [n \in 0..0 |-> <<<<>>>>]
    OBVIOUS
  <2>2. PICK g : g = [n \in 0..0 |-> <<<<>>>>]
    BY <2>1
  <2>3. IsSplit(g, <<>>)
    BY <2>2 DEF IsSplit
  <2>4. QED BY <2>3
<1>2. ASSUME NEW s \in Seq(A), NEW e \in A, s \in C PROVE Append(s, e) \in C
  <2>1. PICK g : IsSplit(g, s)
    BY <1>2
  <2>2. \E h, t : /\ t = Append(s, e)
                  /\ h = [n \in 0..(Len(s) + 1) |->
                            IF n <= Len(s) THEN g[n] ELSE SplitStep(g[Len(s)], e)]
    OBVIOUS
  <2>3. PICK h, t : /\ t = Append(s, e)
                    /\ h = [n \in 0..(Len(s) + 1) |->
                              IF n <= Len(s) THEN g[n] ELSE SplitStep(g[Len(s)], e)]
    BY <2>2
  <2>4. /\ Len(s) \in Nat /\ Len(t) = Len(s) + 1 /\ t[Len(s) + 1] = e
        /\ \A n \in 1..Len(s) : t[n] = s[n]
    BY <2>3, AppendProperties
  <2>5. ASSUME NEW n \in 0..Len(t)
        PROVE  h[n] = IF n = 0 THEN <<<<>>>> ELSE SplitStep(h[n - 1], t[n])
    <3>1. CASE n = 0
      <4>1. h[0] = g[0]
        BY <2>3, <2>4
      <4>2. g[0] = <<<<>>>>
        BY <2>1, <2>4 DEF IsSplit
      <4>3. QED BY <3>1, <4>1, <4>2
    <3>2. CASE n \in 1..Len(s)
      <4>1. h[n] = g[n] /\ h[n - 1] = g[n - 1]
        BY <2>3, <2>4, <3>2
      <4>2. g[n] = SplitStep(g[n - 1], s[n])
        BY <2>1, <2>4, <3>2 DEF IsSplit
      <4>3. QED BY <2>4, <3>2, <4>1, <4>2
    <3>3. CASE n = Len(s) + 1
      <4>1. h[n] = SplitStep(g[Len(s)], e) /\ h[n - 1] = g[Len(s)]
        BY <2>3, <2>4, <3>3
      <4>2. QED BY <2>4, <3>3, <4>1
    <3>4. QED BY <2>4, <3>1, <3>2, <3>3
  <2>6. h = [n \in 0..Len(t) |-> IF n = 0 THEN <<<<>>>> ELSE SplitStep(h[n - 1], t[n])]
    BY <2>3, <2>4, <2>5
  <2>7. IsSplit(h, t)
    BY <2>6 DEF IsSplit
  <2>8. QED BY <2>3, <2>7, AppendProperties
<1>3. Seq(A) \subseteq C
  <2> HIDE DEF C
  <2>1. QED BY <1>1, <1>2, SeqInduction
<1>4. QED BY <1>3

\* split('/') of one more character.
LEMMA SplitAppend ==
    ASSUME NEW A, NEW s \in Seq(A), NEW e \in A
    PROVE  Split(Append(s, e)) = SplitStep(Split(s), e)
<1>1. PICK t : t = Append(s, e)
  OBVIOUS
<1>2. /\ t \in Seq(A) /\ Len(s) \in Nat /\ Len(t) = Len(s) + 1 /\ t[Len(s) + 1] = e
      /\ \A n \in 1..Len(s) : t[n] = s[n]
  BY <1>1, AppendProperties
<1>3. PICK g : IsSplit(g, s) /\ Split(s) = g[Len(s)]
  <2>1. IsSplit(CHOOSE g : IsSplit(g, s), s)
    BY SplitExists
  <2>2. QED BY <2>1, SplitUnfold
<1>4. PICK h : IsSplit(h, t) /\ Split(t) = h[Len(t)]
  <2>1. IsSplit(CHOOSE x : IsSplit(x, t), t)
    BY <1>2, SplitExists
  <2>2. QED BY <2>1, SplitUnfold
<1> DEFINE C == {n \in Nat : n <= Len(s) => h[n] = g[n]}
<1>5. 0 \in C
  BY <1>2, <1>3, <1>4 DEF IsSplit
<1>6. ASSUME NEW n \in Nat, n \in C PROVE n + 1 \in C
  <2>1. SUFFICES ASSUME n + 1 <= Len(s) PROVE h[n + 1] = g[n + 1]
    <3>1. n + 1 \in Nat
      OBVIOUS
    <3>2. QED BY <3>1
  <2>2. h[n] = g[n] /\ n + 1 \in 1..Len(s) /\ n + 1 \in 0..Len(t) /\ n + 1 \in 0..Len(s)
    BY <1>2, <1>6, <2>1
  <2>3. g[n + 1] = SplitStep(g[n], s[n + 1])
    <3>1. \A k \in 0..Len(s) : g[k] = IF k = 0 THEN <<<<>>>> ELSE SplitStep(g[k - 1], s[k])
      BY <1>3 DEF IsSplit
    <3>2. n + 1 # 0 /\ (n + 1) - 1 = n
      OBVIOUS
    <3>3. QED BY <2>2, <3>1, <3>2
  <2>4. h[n + 1] = SplitStep(h[n], t[n + 1])
    <3>1. \A k \in 0..Len(t) : h[k] = IF k = 0 THEN <<<<>>>> ELSE SplitStep(h[k - 1], t[k])
      BY <1>4 DEF IsSplit
    <3>2. n + 1 # 0 /\ (n + 1) - 1 = n
      OBVIOUS
    <3>3. QED BY <2>2, <3>1, <3>2
  <2>5. QED BY <1>2, <2>2, <2>3, <2>4
<1>7. Nat \subseteq C
  <2> HIDE DEF C
  <2>1. QED BY <1>5, <1>6, SetNatInduction
<1>8. h[Len(s)] = g[Len(s)]
  BY <1>2, <1>7
<1>9. h[Len(s) + 1] = SplitStep(h[Len(s)], t[Len(s) + 1])
  BY <1>2, <1>4 DEF IsSplit
<1>10. QED BY <1>1, <1>2, <1>3, <1>4, <1>8, <1>9

LEMMA SplitEmpty == Split(<<>>) = <<<<>>>>
<1>1. PICK g : IsSplit(g, <<>>) /\ Split(<<>>) = g[0]
  <2>1. <<>> \in Seq({})
    OBVIOUS
  <2>2. IsSplit(CHOOSE g : IsSplit(g, <<>>), <<>>)
    BY <2>1, SplitExists
  <2>3. QED BY <2>2, SplitUnfold
<1>2. QED BY <1>1 DEF IsSplit

\* g satisfies the defining equation of the components after each part.
IsPushed(g, parts) ==
    g = [n \in 0..Len(parts) |-> IF n = 0 THEN <<>> ELSE PushPart(g[n - 1], parts[n])]

LEMMA PushUnfold ==
    ASSUME NEW parts
    PROVE  PushAll(parts) = (CHOOSE g : IsPushed(g, parts))[Len(parts)]
BY DEF PushAll, IsPushed

LEMMA PushExists ==
    ASSUME NEW A
    PROVE  \A s \in Seq(A) : \E g : IsPushed(g, s)
<1> DEFINE C == {s \in Seq(A) : \E g : IsPushed(g, s)}
<1>1. <<>> \in C
  <2>1. \E g : g = [n \in 0..0 |-> <<>>]
    OBVIOUS
  <2>2. PICK g : g = [n \in 0..0 |-> <<>>]
    BY <2>1
  <2>3. IsPushed(g, <<>>)
    BY <2>2 DEF IsPushed
  <2>4. QED BY <2>3
<1>2. ASSUME NEW s \in Seq(A), NEW e \in A, s \in C PROVE Append(s, e) \in C
  <2>1. PICK g : IsPushed(g, s)
    BY <1>2
  <2>2. \E h, t : /\ t = Append(s, e)
                  /\ h = [n \in 0..(Len(s) + 1) |->
                            IF n <= Len(s) THEN g[n] ELSE PushPart(g[Len(s)], e)]
    OBVIOUS
  <2>3. PICK h, t : /\ t = Append(s, e)
                    /\ h = [n \in 0..(Len(s) + 1) |->
                              IF n <= Len(s) THEN g[n] ELSE PushPart(g[Len(s)], e)]
    BY <2>2
  <2>4. /\ Len(s) \in Nat /\ Len(t) = Len(s) + 1 /\ t[Len(s) + 1] = e
        /\ \A n \in 1..Len(s) : t[n] = s[n]
    BY <2>3, AppendProperties
  <2>5. ASSUME NEW n \in 0..Len(t)
        PROVE  h[n] = IF n = 0 THEN <<>> ELSE PushPart(h[n - 1], t[n])
    <3>1. CASE n = 0
      <4>1. h[0] = g[0]
        BY <2>3, <2>4
      <4>2. g[0] = <<>>
        BY <2>1, <2>4 DEF IsPushed
      <4>3. QED BY <3>1, <4>1, <4>2
    <3>2. CASE n \in 1..Len(s)
      <4>1. h[n] = g[n] /\ h[n - 1] = g[n - 1]
        BY <2>3, <2>4, <3>2
      <4>2. g[n] = PushPart(g[n - 1], s[n])
        BY <2>1, <2>4, <3>2 DEF IsPushed
      <4>3. QED BY <2>4, <3>2, <4>1, <4>2
    <3>3. CASE n = Len(s) + 1
      <4>1. h[n] = PushPart(g[Len(s)], e) /\ h[n - 1] = g[Len(s)]
        BY <2>3, <2>4, <3>3
      <4>2. QED BY <2>4, <3>3, <4>1
    <3>4. QED BY <2>4, <3>1, <3>2, <3>3
  <2>6. h = [n \in 0..Len(t) |-> IF n = 0 THEN <<>> ELSE PushPart(h[n - 1], t[n])]
    BY <2>3, <2>4, <2>5
  <2>7. IsPushed(h, t)
    BY <2>6 DEF IsPushed
  <2>8. QED BY <2>3, <2>7, AppendProperties
<1>3. Seq(A) \subseteq C
  <2> HIDE DEF C
  <2>1. QED BY <1>1, <1>2, SeqInduction
<1>4. QED BY <1>3

\* The loop of normalize over one more part.
LEMMA PushAppend ==
    ASSUME NEW A, NEW s \in Seq(A), NEW e \in A
    PROVE  PushAll(Append(s, e)) = PushPart(PushAll(s), e)
<1>1. PICK t : t = Append(s, e)
  OBVIOUS
<1>2. /\ t \in Seq(A) /\ Len(s) \in Nat /\ Len(t) = Len(s) + 1 /\ t[Len(s) + 1] = e
      /\ \A n \in 1..Len(s) : t[n] = s[n]
  BY <1>1, AppendProperties
<1>3. PICK g : IsPushed(g, s) /\ PushAll(s) = g[Len(s)]
  <2>1. IsPushed(CHOOSE g : IsPushed(g, s), s)
    BY PushExists
  <2>2. QED BY <2>1, PushUnfold
<1>4. PICK h : IsPushed(h, t) /\ PushAll(t) = h[Len(t)]
  <2>1. IsPushed(CHOOSE x : IsPushed(x, t), t)
    BY <1>2, PushExists
  <2>2. QED BY <2>1, PushUnfold
<1> DEFINE C == {n \in Nat : n <= Len(s) => h[n] = g[n]}
<1>5. 0 \in C
  BY <1>2, <1>3, <1>4 DEF IsPushed
<1>6. ASSUME NEW n \in Nat, n \in C PROVE n + 1 \in C
  <2>1. SUFFICES ASSUME n + 1 <= Len(s) PROVE h[n + 1] = g[n + 1]
    <3>1. n + 1 \in Nat
      OBVIOUS
    <3>2. QED BY <3>1
  <2>2. h[n] = g[n] /\ n + 1 \in 1..Len(s) /\ n + 1 \in 0..Len(t) /\ n + 1 \in 0..Len(s)
    BY <1>2, <1>6, <2>1
  <2>3. g[n + 1] = PushPart(g[n], s[n + 1])
    BY <1>3, <2>2 DEF IsPushed
  <2>4. h[n + 1] = PushPart(h[n], t[n + 1])
    BY <1>4, <2>2 DEF IsPushed
  <2>5. QED BY <1>2, <2>2, <2>3, <2>4
<1>7. Nat \subseteq C
  <2> HIDE DEF C
  <2>1. QED BY <1>5, <1>6, SetNatInduction
<1>8. h[Len(s)] = g[Len(s)]
  BY <1>2, <1>7
<1>9. h[Len(s) + 1] = PushPart(h[Len(s)], t[Len(s) + 1])
  BY <1>2, <1>4 DEF IsPushed
<1>10. QED BY <1>1, <1>2, <1>3, <1>4, <1>8, <1>9

LEMMA PushEmpty == PushAll(<<>>) = <<>>
<1>1. PICK g : IsPushed(g, <<>>) /\ PushAll(<<>>) = g[0]
  <2>1. <<>> \in Seq({})
    OBVIOUS
  <2>2. IsPushed(CHOOSE g : IsPushed(g, <<>>), <<>>)
    BY <2>1, PushExists
  <2>3. QED BY <2>2, PushUnfold
<1>2. QED BY <1>1 DEF IsPushed

Cat(s, t) == s \o t

\* g satisfies the defining equation of the library's FlattenSeq.
IsFlat(g, ss) == g = [i \in 1..Len(ss) |-> IF i = 1 THEN ss[i] ELSE Cat(g[i - 1], ss[i])]

LEMMA FlatUnfold ==
    ASSUME NEW ss
    PROVE  FlattenSeq(ss) = IF Len(ss) = 0 THEN ss ELSE (CHOOSE g : IsFlat(g, ss))[Len(ss)]
BY DEF FlattenSeq, IsFlat, Cat

LEMMA FlatExists ==
    ASSUME NEW A
    PROVE  \A s \in Seq(A) : \E g : IsFlat(g, s)
<1> DEFINE C == {s \in Seq(A) : \E g : IsFlat(g, s)}
<1>1. <<>> \in C
  <2>1. \E g : g = [n \in 1..0 |-> <<>>]
    OBVIOUS
  <2>2. PICK g : g = [n \in 1..0 |-> <<>>]
    BY <2>1
  <2>3. IsFlat(g, <<>>)
    BY <2>2 DEF IsFlat
  <2>4. QED BY <2>3
<1>2. ASSUME NEW s \in Seq(A), NEW e \in A, s \in C PROVE Append(s, e) \in C
  <2>1. PICK g : IsFlat(g, s)
    BY <1>2
  <2>2. \E h, t : /\ t = Append(s, e)
                  /\ h = [n \in 1..(Len(s) + 1) |->
                            IF n <= Len(s) THEN g[n]
                            ELSE IF n = 1 THEN e ELSE Cat(g[Len(s)], e)]
    OBVIOUS
  <2>3. PICK h, t : /\ t = Append(s, e)
                    /\ h = [n \in 1..(Len(s) + 1) |->
                              IF n <= Len(s) THEN g[n]
                              ELSE IF n = 1 THEN e ELSE Cat(g[Len(s)], e)]
    BY <2>2
  <2>4. /\ Len(s) \in Nat /\ Len(t) = Len(s) + 1 /\ t[Len(s) + 1] = e
        /\ \A n \in 1..Len(s) : t[n] = s[n]
    BY <2>3, AppendProperties
  <2>5. ASSUME NEW n \in 1..Len(t)
        PROVE  h[n] = IF n = 1 THEN t[n] ELSE Cat(h[n - 1], t[n])
    <3>1. CASE n = 1 /\ Len(s) # 0
      <4>1. h[1] = g[1]
        BY <2>3, <2>4, <3>1
      <4>2. g[1] = s[1]
        BY <2>1, <2>4, <3>1 DEF IsFlat
      <4>3. QED BY <2>4, <3>1, <4>1, <4>2
    <3>2. CASE n \in 2..Len(s)
      <4>1. h[n] = g[n] /\ h[n - 1] = g[n - 1]
        BY <2>3, <2>4, <3>2
      <4>2. g[n] = Cat(g[n - 1], s[n])
        BY <2>1, <2>4, <3>2 DEF IsFlat
      <4>3. QED BY <2>4, <3>2, <4>1, <4>2
    <3>3. CASE n = Len(s) + 1 /\ Len(s) # 0
      <4>1. h[n] = Cat(g[Len(s)], e) /\ h[n - 1] = g[Len(s)]
        BY <2>3, <2>4, <3>3
      <4>2. QED BY <2>4, <3>3, <4>1
    <3>4. CASE n = 1 /\ Len(s) = 0
      BY <2>3, <2>4, <3>4
    <3>5. QED BY <2>4, <3>1, <3>2, <3>3, <3>4
  <2>6. h = [n \in 1..Len(t) |-> IF n = 1 THEN t[n] ELSE Cat(h[n - 1], t[n])]
    BY <2>3, <2>4, <2>5
  <2>7. IsFlat(h, t)
    BY <2>6 DEF IsFlat
  <2>8. QED BY <2>3, <2>7, AppendProperties
<1>3. Seq(A) \subseteq C
  <2> HIDE DEF C
  <2>1. QED BY <1>1, <1>2, SeqInduction
<1>4. QED BY <1>3

LEMMA FlatEmpty == FlattenSeq(<<>>) = <<>>
BY FlatUnfold

\* FlattenSeq of one more sequence.
LEMMA FlatAppend ==
    ASSUME NEW S, NEW s \in Seq(Seq(S)), NEW e \in Seq(S)
    PROVE  FlattenSeq(Append(s, e)) = FlattenSeq(s) \o e
<1>1. PICK t : t = Append(s, e)
  OBVIOUS
<1>2. /\ t \in Seq(Seq(S)) /\ Len(s) \in Nat /\ Len(t) = Len(s) + 1 /\ t[Len(s) + 1] = e
      /\ \A n \in 1..Len(s) : t[n] = s[n]
  BY <1>1, AppendProperties
<1>3. PICK h : IsFlat(h, t) /\ FlattenSeq(t) = h[Len(t)]
  <2>1. IsFlat(CHOOSE x : IsFlat(x, t), t)
    BY <1>2, FlatExists
  <2>2. Len(t) # 0
    BY <1>2
  <2>3. QED BY <2>1, <2>2, FlatUnfold
<1>4. CASE Len(s) = 0
  <2>1. FlattenSeq(t) = e
    BY <1>2, <1>3, <1>4 DEF IsFlat
  <2>2. s = <<>>
    BY <1>4, EmptySeq
  <2>3. FlattenSeq(s) \o e = e
    BY <2>2, FlatEmpty, ConcatEmptySeq
  <2>4. QED BY <1>1, <2>1, <2>3
<1>5. CASE Len(s) # 0
  <2>1. PICK g : IsFlat(g, s) /\ FlattenSeq(s) = g[Len(s)]
    <3>1. IsFlat(CHOOSE g : IsFlat(g, s), s)
      BY FlatExists
    <3>2. QED BY <1>5, <3>1, FlatUnfold
  <2> DEFINE C == {n \in Nat : n \in 1..Len(s) => h[n] = g[n]}
  <2>2. 0 \in C
    BY <1>2
  <2>3. ASSUME NEW n \in Nat, n \in C PROVE n + 1 \in C
    <3>1. SUFFICES ASSUME n + 1 \in 1..Len(s) PROVE h[n + 1] = g[n + 1]
      OBVIOUS
    <3>2. n + 1 \in 1..Len(t)
      BY <1>2, <3>1
    <3>3. g[n + 1] = IF n + 1 = 1 THEN s[n + 1] ELSE Cat(g[n], s[n + 1])
      BY <2>1, <3>1 DEF IsFlat
    <3>4. h[n + 1] = IF n + 1 = 1 THEN t[n + 1] ELSE Cat(h[n], t[n + 1])
      BY <1>3, <3>2 DEF IsFlat
    <3>5. n + 1 # 1 => h[n] = g[n]
      BY <1>2, <2>3, <3>1
    <3>6. QED BY <1>2, <3>1, <3>3, <3>4, <3>5
  <2>4. Nat \subseteq C
    <3> HIDE DEF C
    <3>1. QED BY <2>2, <2>3, SetNatInduction
  <2>5. h[Len(s)] = g[Len(s)]
    BY <1>2, <1>5, <2>4
  <2>6. h[Len(t)] = Cat(h[Len(s)], e)
    <3>1. Len(t) \in 1..Len(t) /\ Len(t) # 1 /\ Len(t) - 1 = Len(s)
      BY <1>2, <1>5
    <3>2. h[Len(t)] = Cat(h[Len(t) - 1], t[Len(t)])
      BY <1>3, <3>1 DEF IsFlat
    <3>3. QED BY <1>2, <3>1, <3>2
  <2>7. QED BY <1>1, <1>3, <2>1, <2>5, <2>6 DEF Cat
<1>6. QED BY <1>4, <1>5

LEMMA FlatType ==
    ASSUME NEW S
    PROVE  \A s \in Seq(Seq(S)) : FlattenSeq(s) \in Seq(S)
<1> DEFINE C == {s \in Seq(Seq(S)) : FlattenSeq(s) \in Seq(S)}
<1>1. <<>> \in C
  BY FlatEmpty, EmptySeq
<1>2. ASSUME NEW s \in Seq(Seq(S)), NEW e \in Seq(S), s \in C PROVE Append(s, e) \in C
  <2>1. FlattenSeq(Append(s, e)) = FlattenSeq(s) \o e
    BY FlatAppend
  <2>2. QED BY <1>2, <2>1, ConcatProperties, AppendProperties
<1>3. Seq(Seq(S)) \subseteq C
  <2> HIDE DEF C
  <2>1. QED BY <1>1, <1>2, SeqInduction
<1>4. QED BY <1>3

\* The sequence of F's values.
Mapped(F, s) == [i \in DOMAIN s |-> F[s[i]]]

LEMMA MapValues ==
    ASSUME NEW A, NEW F, NEW s \in Seq(A)
    PROVE  /\ Len(Mapped(F, s)) = Len(s)
           /\ \A i \in 1..Len(s) : Mapped(F, s)[i] = F[s[i]]
<1>1. Len(s) \in Nat /\ DOMAIN s = 1..Len(s)
  BY LenProperties
<1>2. Mapped(F, s) = [i \in 1..Len(s) |-> F[s[i]]]
  BY <1>1 DEF Mapped
<1>3. QED BY <1>1, <1>2

LEMMA MapType ==
    ASSUME NEW A, NEW B, NEW F \in [A -> B], NEW s \in Seq(A)
    PROVE  Mapped(F, s) \in Seq(B)
<1>1. Len(s) \in Nat /\ DOMAIN s = 1..Len(s)
  BY LenProperties
<1>2. \A i \in 1..Len(s) : F[s[i]] \in B
  BY ElementOfSeq
<1>3. Mapped(F, s) = [i \in 1..Len(s) |-> F[s[i]]]
  BY <1>1 DEF Mapped
<1>4. QED BY <1>1, <1>2, <1>3

LEMMA MapAppend ==
    ASSUME NEW A, NEW B, NEW F \in [A -> B], NEW s \in Seq(A), NEW e \in A
    PROVE  Mapped(F, Append(s, e)) = Append(Mapped(F, s), F[e])
<1>1. PICK t \in Seq(A) : t = Append(s, e)
  BY AppendProperties
<1>2. PICK n \in Nat : n = Len(s)
  BY LenProperties
<1>3. Len(t) = n + 1 /\ t[n + 1] = e /\ \A k \in 1..n : t[k] = s[k]
  BY <1>1, <1>2, AppendProperties
<1>4. PICK u \in Seq(B) : u = Mapped(F, s) /\ Len(u) = n /\ \A i \in 1..n : u[i] = F[s[i]]
  <2>1. /\ Mapped(F, s) \in Seq(B) /\ Len(Mapped(F, s)) = Len(s)
        /\ \A i \in 1..Len(s) : Mapped(F, s)[i] = F[s[i]]
    BY MapType, MapValues
  <2>2. QED BY <1>2, <2>1
<1>5. PICK v \in Seq(B) : v = Mapped(F, t) /\ Len(v) = n + 1 /\ \A i \in 1..(n + 1) : v[i] = F[t[i]]
  <2>1. /\ Mapped(F, t) \in Seq(B) /\ Len(Mapped(F, t)) = Len(t)
        /\ \A i \in 1..Len(t) : Mapped(F, t)[i] = F[t[i]]
    BY MapType, MapValues
  <2>2. QED BY <1>3, <2>1
<1>6. PICK w : w = Append(u, F[e])
  OBVIOUS
<1>7. /\ w \in Seq(B) /\ Len(w) = n + 1 /\ w[n + 1] = F[e]
      /\ \A i \in 1..n : w[i] = u[i]
  BY <1>4, <1>6, AppendProperties
<1>8. ASSUME NEW i \in 1..(n + 1) PROVE v[i] = w[i]
  <2>1. CASE i = n + 1
    BY <1>3, <1>5, <1>7, <2>1
  <2>2. CASE i \in 1..n
    BY <1>3, <1>4, <1>5, <1>7, <2>2
  <2>3. QED BY <2>1, <2>2
<1>9. v = w
  BY <1>5, <1>7, <1>8, SeqEqual
<1>10. QED BY <1>1, <1>4, <1>5, <1>6, <1>9

\* A string made of what each element of a sequence is translated to.
Translated(F, s) == FlattenSeq(Mapped(F, s))

LEMMA TranslatedFacts ==
    ASSUME NEW A, NEW B, NEW F \in [A -> Seq(B)]
    PROVE  /\ Translated(F, <<>>) = <<>>
           /\ \A s \in Seq(A) : Translated(F, s) \in Seq(B)
           /\ \A s \in Seq(A), e \in A : Translated(F, Append(s, e)) = Translated(F, s) \o F[e]
<1>0. PICK C : C = Seq(B)
  OBVIOUS
<1>1. Translated(F, <<>>) = <<>>
  <2>1. PICK z \in Seq(A) : z = <<>> /\ Len(z) = 0
    BY EmptySeq
  <2>2. F \in [A -> C]
    BY <1>0
  <2>3. Mapped(F, z) \in Seq(C) /\ Len(Mapped(F, z)) = Len(z)
    BY <2>2, MapType, MapValues
  <2>4. Mapped(F, z) = <<>>
    BY <2>1, <2>3, EmptySeq
  <2>5. QED BY <2>1, <2>4, FlatEmpty DEF Translated
<1>2. ASSUME NEW s \in Seq(A) PROVE Translated(F, s) \in Seq(B)
  <2>1. F \in [A -> C]
    BY <1>0
  <2>2. Mapped(F, s) \in Seq(C)
    BY <2>1, MapType
  <2>3. QED BY <1>0, <2>2, FlatType DEF Translated
<1>3. ASSUME NEW s \in Seq(A), NEW e \in A
      PROVE  Translated(F, Append(s, e)) = Translated(F, s) \o F[e]
  <2>1. F \in [A -> C]
    BY <1>0
  <2>2. Mapped(F, Append(s, e)) = Append(Mapped(F, s), F[e])
    BY <2>1, MapAppend
  <2>3. PICK m \in Seq(Seq(B)), f \in Seq(B) : m = Mapped(F, s) /\ f = F[e]
    <3>1. Mapped(F, s) \in Seq(C)
      BY <2>1, MapType
    <3>2. QED BY <1>0, <3>1
  <2>4. FlattenSeq(Append(m, f)) = FlattenSeq(m) \o f
    BY FlatAppend
  <2>5. QED BY <2>2, <2>3, <2>4 DEF Translated
<1>4. QED BY <1>1, <1>2, <1>3

----------------------------------------------------------------------------
(* Joining and splitting *)

PartChars == Chars \cup {"."}
PathChars == PartChars \cup {"/"}

\* What stands between two slashes, and a string of such parts.
Part == Seq(PartChars)
String == Seq(PathChars)

LEMMA PartFacts ==
    /\ "/" \notin PartChars /\ "/" \in PathChars
    /\ Part \subseteq String
    /\ Slash \in String
    /\ Names \subseteq Part /\ BadName \in Part
    /\ <<>> \in Part /\ Dot \in Part /\ DotDot \in Part
<1>1. "/" \notin PartChars /\ "/" \in PathChars
  BY NameAssumption DEF PartChars, PathChars
<1>2. Part \subseteq String
  BY SeqMonotonic DEF Part, String, PathChars
<1>3. Slash \in String
  BY DEF Slash, String, PathChars
<1>4. Seq(Chars) \subseteq Part
  BY SeqMonotonic DEF Part, PartChars
<1>5. Names \subseteq Part /\ BadName \in Part
  BY <1>4, NameAssumption
<1>6. <<>> \in Part /\ Dot \in Part /\ DotDot \in Part
  BY DEF Part, PartChars, Dot, DotDot
<1>7. QED BY <1>1, <1>2, <1>3, <1>5, <1>6

\* A concatenation grows at its end.
LEMMA ConcatAppend ==
    ASSUME NEW S, NEW s \in Seq(S), NEW t \in Seq(S), NEW e \in S
    PROVE  s \o Append(t, e) = Append(s \o t, e)
<1>1. Append(t, e) = t \o <<e>> /\ Append(s \o t, e) = (s \o t) \o <<e>>
  BY AppendIsConcat, ConcatProperties
<1>2. <<e>> \in Seq(S)
  OBVIOUS
<1>3. QED BY <1>1, <1>2, ConcatAssociative

\* What joining does to a part.
SlashPart == [p \in Part |-> Slash \o p]

LEMMA JoinedIsTranslated ==
    /\ SlashPart \in [Part -> Seq(PathChars)]
    /\ \A ps \in Seq(Part) : Joined(ps) = Translated(SlashPart, ps)
<1>1. \A p \in Part : Slash \o p \in Seq(PathChars)
  BY PartFacts, ConcatProperties DEF String
<1>2. ASSUME NEW ps \in Seq(Part) PROVE Joined(ps) = Translated(SlashPart, ps)
  <2>1. \A i \in DOMAIN ps : ps[i] \in Part
    BY ElementOfSeq, LenProperties
  <2>2. [i \in DOMAIN ps |-> Slash \o ps[i]] = [i \in DOMAIN ps |-> SlashPart[ps[i]]]
    BY <2>1 DEF SlashPart
  <2>3. QED BY <2>2 DEF Joined, Translated, Mapped
<1>3. QED BY <1>1, <1>2 DEF SlashPart

LEMMA JoinedEmpty == Joined(<<>>) = <<>>
BY JoinedIsTranslated, TranslatedFacts, EmptySeq

\* One more part.
LEMMA JoinedAppend ==
    ASSUME NEW ps \in Seq(Part), NEW p \in Part
    PROVE  Joined(Append(ps, p)) = Joined(ps) \o (Slash \o p)
<1>1. Append(ps, p) \in Seq(Part)
  BY AppendProperties
<1>2. Translated(SlashPart, Append(ps, p)) = Translated(SlashPart, ps) \o SlashPart[p]
  BY JoinedIsTranslated, TranslatedFacts
<1>3. QED BY <1>1, <1>2, JoinedIsTranslated DEF SlashPart

LEMMA JoinedType ==
    ASSUME NEW ps \in Seq(Part)
    PROVE  Joined(ps) \in String
BY JoinedIsTranslated, TranslatedFacts DEF String

LEMMA JoinedConcat ==
    ASSUME NEW ps \in Seq(Part)
    PROVE  \A qs \in Seq(Part) : Joined(ps \o qs) = Joined(ps) \o Joined(qs)
<1> DEFINE C == {qs \in Seq(Part) : Joined(ps \o qs) = Joined(ps) \o Joined(qs)}
<1>1. <<>> \in C
  <2>1. ps \o <<>> = ps /\ Joined(ps) \o <<>> = Joined(ps)
    BY JoinedType, ConcatEmptySeq DEF String
  <2>2. QED BY <2>1, JoinedEmpty, EmptySeq
<1>2. ASSUME NEW qs \in Seq(Part), NEW q \in Part, qs \in C PROVE Append(qs, q) \in C
  <2>1. ps \o Append(qs, q) = Append(ps \o qs, q) /\ ps \o qs \in Seq(Part)
    BY ConcatAppend, ConcatProperties
  <2>2. Joined(Append(ps \o qs, q)) = Joined(ps \o qs) \o (Slash \o q)
    BY <2>1, JoinedAppend
  <2>3. Joined(Append(qs, q)) = Joined(qs) \o (Slash \o q)
    BY JoinedAppend
  <2>4. Slash \o q \in String /\ Joined(ps) \in String /\ Joined(qs) \in String
    BY PartFacts, ConcatProperties, JoinedType DEF String
  <2>5. (Joined(ps) \o Joined(qs)) \o (Slash \o q) = Joined(ps) \o (Joined(qs) \o (Slash \o q))
    <3>1. PICK a \in Seq(PathChars), b \in Seq(PathChars), c \in Seq(PathChars) :
            a = Joined(ps) /\ b = Joined(qs) /\ c = Slash \o q
      BY <2>4 DEF String
    <3>2. (a \o b) \o c = a \o (b \o c)
      BY ConcatAssociative
    <3>3. QED BY <3>1, <3>2
  <2>6. Joined(ps \o qs) = Joined(ps) \o Joined(qs)
    BY <1>2
  <2>7. QED BY <2>1, <2>2, <2>3, <2>5, <2>6, AppendProperties
<1>3. Seq(Part) \subseteq C
  <2> HIDE DEF C
  <2>1. QED BY <1>1, <1>2, SeqInduction
<1>4. QED BY <1>3

\* One part.
LEMMA JoinedOne ==
    ASSUME NEW p \in Part
    PROVE  Joined(<<p>>) = Slash \o p
<1>1. <<p>> = Append(<<>>, p) /\ <<>> \in Seq(Part)
  OBVIOUS
<1>2. Joined(<<p>>) = <<>> \o (Slash \o p)
  BY <1>1, JoinedAppend, JoinedEmpty
<1>3. Slash \o p \in String
  BY PartFacts, ConcatProperties DEF String
<1>4. QED BY <1>2, <1>3, ConcatEmptySeq DEF String

\* A character appended to the last part.
LEMMA ExceptLast ==
    ASSUME NEW S, NEW u \in Seq(Seq(S)), NEW v \in Seq(S), NEW c \in S
    PROVE  [Append(u, v) EXCEPT ![Len(Append(u, v))] = Append(@, c)] = Append(u, Append(v, c))
<1>1. PICK w : w = Append(u, v)
  OBVIOUS
<1>2. /\ w \in Seq(Seq(S)) /\ Len(u) \in Nat /\ Len(w) = Len(u) + 1 /\ w[Len(u) + 1] = v
      /\ \A n \in 1..Len(u) : w[n] = u[n]
  BY <1>1, AppendProperties, LenProperties
<1>3. PICK d \in Seq(S) : d = Append(v, c)
  BY AppendProperties
<1>4. PICK x : x = [w EXCEPT ![Len(w)] = d]
  OBVIOUS
<1>5. /\ x \in Seq(Seq(S)) /\ Len(x) = Len(u) + 1
      /\ \A j \in 1..(Len(u) + 1) : x[j] = IF j = Len(u) + 1 THEN d ELSE w[j]
  BY <1>2, <1>4, ExceptSeq
<1>6. PICK y : y = Append(u, d)
  OBVIOUS
<1>7. /\ y \in Seq(Seq(S)) /\ Len(y) = Len(u) + 1 /\ y[Len(u) + 1] = d
      /\ \A n \in 1..Len(u) : y[n] = u[n]
  BY <1>6, AppendProperties
<1>8. ASSUME NEW j \in 1..Len(x) PROVE x[j] = y[j]
  <2>1. x[j] = IF j = Len(u) + 1 THEN d ELSE w[j]
    BY <1>5
  <2>2. CASE j = Len(u) + 1
    BY <1>7, <2>1, <2>2
  <2>3. CASE j # Len(u) + 1
    <3>1. j \in 1..Len(u)
      BY <1>2, <1>5, <2>3
    <3>2. QED BY <1>2, <1>7, <2>1, <2>3, <3>1
  <2>4. QED BY <2>2, <2>3
<1>9. x = y
  BY <1>5, <1>7, <1>8, SeqEqual
<1>10. [w EXCEPT ![Len(w)] = Append(@, c)] = [w EXCEPT ![Len(w)] = d]
  BY <1>2, <1>3
<1>11. QED BY <1>1, <1>3, <1>4, <1>6, <1>9, <1>10

\* Characters other than a slash go on with the last part.
LEMMA SplitGoesOn ==
    ASSUME NEW t \in String, NEW u \in Seq(Part), NEW v \in Part, Split(t) = Append(u, v)
    PROVE  \A p \in Part : Split(t \o p) = Append(u, v \o p)
<1> DEFINE C == {p \in Part : Split(t \o p) = Append(u, v \o p)}
<1>1. <<>> \in C
  BY PartFacts, ConcatEmptySeq DEF String, Part
<1>2. ASSUME NEW p \in Seq(PartChars), NEW c \in PartChars, p \in C PROVE Append(p, c) \in C
  <2>1. c \in PathChars /\ c # "/" /\ p \in String /\ p \in Part
    BY PartFacts DEF PathChars, Part
  <2>2. t \o Append(p, c) = Append(t \o p, c) /\ t \o p \in Seq(PathChars)
    BY <2>1, ConcatAppend, ConcatProperties DEF String
  <2>3. Split(Append(t \o p, c)) = SplitStep(Split(t \o p), c)
    BY <2>1, <2>2, SplitAppend
  <2>4. PICK w : w = v \o p
    OBVIOUS
  <2>5. w \in Seq(PartChars) /\ v \o Append(p, c) = Append(w, c)
    BY <2>4, ConcatAppend, ConcatProperties DEF Part
  <2>6. Split(t \o p) = Append(u, w)
    BY <1>2, <2>4
  <2>7. SplitStep(Append(u, w), c) = Append(u, Append(w, c))
    BY <2>1, <2>5, ExceptLast DEF SplitStep, Part
  <2>8. Append(p, c) \in Part
    BY AppendProperties DEF Part
  <2>9. QED BY <2>2, <2>3, <2>5, <2>6, <2>7, <2>8
<1>3. Seq(PartChars) \subseteq C
  <2> HIDE DEF C
  <2>1. QED BY <1>1, <1>2, SeqInduction
<1>4. QED BY <1>3 DEF Part

\* Splitting gives back the joined parts, after the empty part before the
\* first slash.
LEMMA SplitJoined ==
    \A ps \in Seq(Part) : Split(Joined(ps)) = <<<<>>>> \o ps
<1> DEFINE C == {ps \in Seq(Part) : Split(Joined(ps)) = <<<<>>>> \o ps}
<1>0. <<<<>>>> \in Seq(Part)
  BY PartFacts
<1>1. <<>> \in C
  BY <1>0, JoinedEmpty, SplitEmpty, ConcatEmptySeq
<1>2. ASSUME NEW ps \in Seq(Part), NEW p \in Part, ps \in C PROVE Append(ps, p) \in C
  <2>1. PICK t \in String : t = Joined(ps)
    BY JoinedType
  <2>2. PICK u \in Seq(Part) : u = <<<<>>>> \o ps
    BY <1>0, ConcatProperties
  <2>3. Append(t, "/") = t \o Slash /\ Append(t, "/") \in String
    BY PartFacts, AppendIsConcat, AppendProperties DEF Slash, String
  <2>4. Joined(Append(ps, p)) = Append(t, "/") \o p
    <3>1. Joined(Append(ps, p)) = t \o (Slash \o p)
      BY <2>1, JoinedAppend
    <3>2. t \in Seq(PathChars) /\ Slash \in Seq(PathChars) /\ p \in Seq(PathChars)
      BY PartFacts DEF String
    <3>3. (t \o Slash) \o p = t \o (Slash \o p)
      BY <3>2, ConcatAssociative
    <3>4. QED BY <2>3, <3>1, <3>3
  <2>5. Split(Append(t, "/")) = Append(u, <<>>)
    BY <1>2, <2>1, <2>2, SplitAppend, PartFacts DEF SplitStep, String
  <2>6. Split(Append(t, "/") \o p) = Append(u, <<>> \o p)
    BY <2>3, <2>5, SplitGoesOn, PartFacts
  <2>7. <<>> \o p = p
    BY ConcatEmptySeq DEF Part
  <2>8. <<<<>>>> \o Append(ps, p) = Append(u, p)
    BY <1>0, <2>2, ConcatAppend
  <2>9. QED BY <2>4, <2>6, <2>7, <2>8, AppendProperties
<1>3. Seq(Part) \subseteq C
  <2> HIDE DEF C
  <2>1. QED BY <1>1, <1>2, SeqInduction
<1>4. QED BY <1>3

----------------------------------------------------------------------------
(* normalize and join *)

\* What one part does to a vector that is not rejected.
LEMMA PushCases ==
    ASSUME NEW cs, cs # Rejected, NEW p \in Part
    PROVE  /\ p \in {<<>>, Dot} => PushPart(cs, p) = cs
           /\ p = DotDot => PushPart(cs, p) = PopOf(cs)
           /\ (IsName(p) /\ Contains(p, "NUL")) => PushPart(cs, p) = Rejected
           /\ (IsName(p) /\ ~Contains(p, "NUL")) => PushPart(cs, p) = Append(cs, p)
<1>1. ~Contains(<<>>, "NUL") /\ ~Contains(Dot, "NUL") /\ ~Contains(DotDot, "NUL")
  BY DEF Contains, Dot, DotDot
<1>2. <<>> # Dot /\ <<>> # DotDot /\ Dot # DotDot
  BY DEF Dot, DotDot
<1>3. p \in {<<>>, Dot} => PushPart(cs, p) = cs
  BY <1>1, <1>2 DEF PushPart
<1>4. p = DotDot => PushPart(cs, p) = PopOf(cs)
  BY <1>1, <1>2 DEF PushPart
<1>5. (IsName(p) /\ Contains(p, "NUL")) => PushPart(cs, p) = Rejected
  BY DEF PushPart, IsName
<1>6. (IsName(p) /\ ~Contains(p, "NUL")) => PushPart(cs, p) = Append(cs, p)
  BY DEF PushPart, IsName
<1>7. QED BY <1>3, <1>4, <1>5, <1>6

LEMMA PushRejected ==
    ASSUME NEW p
    PROVE  PushPart(Rejected, p) = Rejected
BY DEF PushPart

\* An empty part in front changes nothing.
LEMMA PushEmptyFirst ==
    \A qs \in Seq(Part) : PushAll(<<<<>>>> \o qs) = PushAll(qs)
<1> DEFINE C == {qs \in Seq(Part) : PushAll(<<<<>>>> \o qs) = PushAll(qs)}
<1>0. <<<<>>>> \in Seq(Part) /\ <<<<>>>> = Append(<<>>, <<>>) /\ <<>> \in Seq(Part)
  BY PartFacts
<1>1. <<>> \in C
  <2>1. PushAll(<<<<>>>>) = PushPart(<<>>, <<>>)
    BY <1>0, PartFacts, PushAppend, PushEmpty
  <2>2. <<>> # Rejected
    BY DEF Rejected
  <2>3. PushPart(<<>>, <<>>) = <<>>
    BY <2>2, PartFacts, PushCases
  <2>4. QED BY <1>0, <2>1, <2>3, PushEmpty, ConcatEmptySeq
<1>2. ASSUME NEW qs \in Seq(Part), NEW q \in Part, qs \in C PROVE Append(qs, q) \in C
  <2>1. <<<<>>>> \o Append(qs, q) = Append(<<<<>>>> \o qs, q) /\ <<<<>>>> \o qs \in Seq(Part)
    BY <1>0, ConcatAppend, ConcatProperties
  <2>2. PushAll(Append(<<<<>>>> \o qs, q)) = PushPart(PushAll(<<<<>>>> \o qs), q)
    BY <2>1, PushAppend
  <2>3. PushAll(Append(qs, q)) = PushPart(PushAll(qs), q)
    BY PushAppend
  <2>4. QED BY <1>2, <2>1, <2>2, <2>3, AppendProperties
<1>3. Seq(Part) \subseteq C
  <2> HIDE DEF C
  <2>1. QED BY <1>1, <1>2, SeqInduction
<1>4. QED BY <1>3

\* A string that begins with a slash.
LEMMA SlashFirst ==
    ASSUME NEW x \in String
    PROVE  /\ Slash \o x \in String /\ Slash \o x # <<>>
           /\ (Slash \o x)[1] = "/"
           /\ Tail(Slash \o x) = x
           /\ Len(Slash \o x) = Len(x) + 1
<1>1. PICK y : y = Slash \o x
  OBVIOUS
<1>2. Slash \in Seq(PathChars) /\ x \in Seq(PathChars) /\ Len(Slash) = 1 /\ Slash[1] = "/"
  BY PartFacts DEF String, Slash
<1>3. /\ y \in Seq(PathChars) /\ Len(y) = Len(x) + 1 /\ Len(x) \in Nat
      /\ \A i \in 1..(Len(x) + 1) : y[i] = IF i <= 1 THEN Slash[i] ELSE x[i - 1]
  <2>1. Len(x) \in Nat
    BY <1>2, LenProperties
  <2>2. PICK z \in Seq(PathChars) : z = Slash
    BY <1>2
  <2>3. /\ z \o x \in Seq(PathChars) /\ Len(z \o x) = Len(z) + Len(x)
        /\ \A i \in 1..(Len(z) + Len(x)) :
             (z \o x)[i] = IF i <= Len(z) THEN z[i] ELSE x[i - Len(z)]
    BY <1>2, ConcatProperties
  <2>4. Len(z) = 1
    BY <1>2, <2>2
  <2>5. Len(z) + Len(x) = Len(x) + 1
    BY <2>1, <2>4
  <2>6. QED BY <1>1, <2>1, <2>2, <2>3, <2>4, <2>5
<1>4. y # <<>> /\ y[1] = "/"
  BY <1>2, <1>3, EmptySeq
<1>5. /\ Tail(y) \in Seq(PathChars) /\ Len(Tail(y)) = Len(x)
      /\ \A i \in 1..Len(x) : Tail(y)[i] = y[i + 1]
  BY <1>3, <1>4, HeadTailProperties
<1>6. \A i \in 1..Len(x) : y[i + 1] = x[i]
  BY <1>3
<1>7. Tail(y) = x
  BY <1>2, <1>5, <1>6, SeqEqual
<1>8. QED BY <1>1, <1>3, <1>4, <1>7 DEF String

\* The first part of a joined sequence.
LEMMA JoinedHead ==
    ASSUME NEW ps \in Seq(Part), ps # <<>>
    PROVE  \E p \in Part, qs \in Seq(Part) :
             /\ ps = <<p>> \o qs
             /\ p \o Joined(qs) \in String
             /\ Joined(ps) = Slash \o (p \o Joined(qs))
             /\ Text(ps) = p \o Joined(qs)
<1>1. Len(ps) \in Nat \ {0}
  BY EmptySeq
<1>2. PICK p \in Part : p = ps[1]
  BY <1>1, ElementOfSeq
<1>3. PICK qs \in Seq(Part) : qs = SubSeq(ps, 2, Len(ps))
  <2>1. \A i \in 2..Len(ps) : ps[i] \in Part
    BY <1>1, ElementOfSeq
  <2>2. SubSeq(ps, 2, Len(ps)) \in Seq(Part)
    BY <1>1, <2>1, SubSeqProperties
  <2>3. QED BY <2>2
<1>4. ps = <<p>> \o qs
  <2>1. SubSeq(ps, 1, Len(ps)) = <<ps[1]>> \o SubSeq(ps, 1 + 1, Len(ps))
    BY <1>1, SubSeqRecursiveFirst
  <2>2. SubSeq(ps, 1, Len(ps)) = ps
    BY SubSeqFull
  <2>3. QED BY <1>2, <1>3, <2>1, <2>2
<1>5. <<p>> \in Seq(Part)
  OBVIOUS
<1>6. Joined(ps) = (Slash \o p) \o Joined(qs)
  BY <1>4, <1>5, JoinedConcat, JoinedOne
<1>7. PICK a \in Seq(PathChars), b \in Seq(PathChars), c \in Seq(PathChars) :
        a = Slash /\ b = p /\ c = Joined(qs)
  BY PartFacts, JoinedType DEF String
<1>8. (a \o b) \o c = a \o (b \o c) /\ b \o c \in Seq(PathChars)
  BY ConcatAssociative, ConcatProperties
<1>9. Joined(ps) = Slash \o (p \o Joined(qs)) /\ p \o Joined(qs) \in String
  BY <1>6, <1>7, <1>8 DEF String
<1>10. Text(ps) = p \o Joined(qs)
  BY <1>9, SlashFirst DEF Text
<1>11. QED BY <1>4, <1>9, <1>10

Rendered(components) == IF components = Rejected THEN Invalid ELSE Render(components)

LEMMA NormalizeJoined ==
    ASSUME NEW ps \in Seq(Part), ps # <<>>
    PROVE  Normalize(Joined(ps)) = Rendered(PushAll(ps))
<1>1. PICK p \in Part, qs \in Seq(Part) :
        p \o Joined(qs) \in String /\ Joined(ps) = Slash \o (p \o Joined(qs))
  BY JoinedHead
<1>2. Joined(ps) # <<>> /\ Joined(ps)[1] = "/"
  BY <1>1, SlashFirst
<1>3. Split(Joined(ps)) = <<<<>>>> \o ps /\ PushAll(<<<<>>>> \o ps) = PushAll(ps)
  BY SplitJoined, PushEmptyFirst
<1>4. QED BY <1>2, <1>3 DEF Normalize, Rendered

\* new
LEMMA NormalizeText ==
    ASSUME NEW ps \in Seq(Part), ps # <<>>
    PROVE  /\ ps = <<<<>>>> => Normalize(Text(ps)) = Invalid
           /\ ps # <<<<>>>> => Normalize(Text(ps)) = Rendered(PushAll(ps))
<1>1. PICK p \in Part, qs \in Seq(Part) :
        /\ ps = <<p>> \o qs /\ p \o Joined(qs) \in String
        /\ Joined(ps) = Slash \o (p \o Joined(qs)) /\ Text(ps) = p \o Joined(qs)
  BY JoinedHead
<1>2. CASE p = <<>>
  <2>1. Joined(qs) \in String /\ Text(ps) = Joined(qs)
    BY <1>1, <1>2, JoinedType, ConcatEmptySeq DEF String
  <2>2. CASE qs = <<>>
    <3>1. Text(ps) = <<>> /\ Normalize(<<>>) = Invalid
      BY <2>1, <2>2, JoinedEmpty DEF Normalize
    <3>2. ps = <<<<>>>>
      <4>1. <<<<>>>> \in Seq(Part)
        BY PartFacts
      <4>2. <<<<>>>> \o <<>> = <<<<>>>>
        BY <4>1, ConcatEmptySeq
      <4>3. QED BY <1>1, <1>2, <2>2, <4>2
    <3>3. QED BY <3>1, <3>2
  <2>3. CASE qs # <<>>
    <3>1. Normalize(Text(ps)) = Rendered(PushAll(qs))
      BY <2>1, <2>3, NormalizeJoined
    <3>2. PushAll(ps) = PushAll(qs)
      BY <1>1, <1>2, PushEmptyFirst
    <3>3. ps # <<<<>>>>
      <4>1. <<<<>>>> \in Seq(Part)
        BY PartFacts
      <4>2. <<<<>>>> \o qs # <<<<>>>>
        <5>1. PICK z \in Seq(Part) : z = <<<<>>>>
          BY <4>1
        <5>2. z \o qs = z <=> qs = <<>>
          BY ConcatEqualIffEmpty
        <5>3. QED BY <2>3, <5>1, <5>2
      <4>3. QED BY <1>1, <1>2, <4>2
    <3>4. QED BY <3>1, <3>2, <3>3
  <2>4. QED BY <2>2, <2>3
<1>3. CASE p # <<>>
  <2>1. PICK x \in String : x = p \o Joined(qs)
    BY <1>1
  <2>2. Len(p) \in Nat \ {0} /\ p[1] \in PartChars
    BY <1>3, EmptySeq, ElementOfSeq DEF Part
  <2>3. x # <<>> /\ x[1] = p[1]
    <3>1. p \in Seq(PathChars) /\ Joined(qs) \in Seq(PathChars)
      BY PartFacts, JoinedType DEF String
    <3>2. /\ Len(x) = Len(p) + Len(Joined(qs)) /\ Len(Joined(qs)) \in Nat
          /\ \A i \in 1..(Len(p) + Len(Joined(qs))) :
               x[i] = IF i <= Len(p) THEN p[i] ELSE Joined(qs)[i - Len(p)]
      BY <2>1, <3>1, ConcatProperties, LenProperties
    <3>3. Len(x) # 0 /\ 1 \in 1..(Len(p) + Len(Joined(qs))) /\ 1 <= Len(p)
      BY <2>2, <3>2
    <3>4. QED BY <3>2, <3>3, EmptySeq
  <2>4. x[1] # "/"
    BY <2>2, <2>3, PartFacts
  <2>5. Split(Slash \o x) = <<<<>>>> \o ps /\ PushAll(<<<<>>>> \o ps) = PushAll(ps)
    BY <1>1, <2>1, SplitJoined, PushEmptyFirst
  <2>6. Normalize(x) = Rendered(PushAll(ps))
    BY <2>3, <2>4, <2>5 DEF Normalize, Rendered
  <2>7. ps # <<<<>>>>
    <3>1. Len(<<p>>) = 1 /\ <<p>>[1] = p /\ <<p>> \in Seq(Part)
      OBVIOUS
    <3>2. ps[1] = p
      BY <1>1, <3>1, ConcatProperties, LenProperties
    <3>3. QED BY <1>3, <3>2
  <2>8. QED BY <1>1, <2>1, <2>6, <2>7
<1>4. QED BY <1>2, <1>3

\* Names stay as they are.
LEMMA PushNames ==
    \A ns \in Seq(Names) : PushAll(ns) = ns
<1> DEFINE C == {ns \in Seq(Names) : PushAll(ns) = ns}
<1>1. <<>> \in C
  BY PushEmpty, EmptySeq
<1>2. ASSUME NEW ns \in Seq(Names), NEW n \in Names, ns \in C PROVE Append(ns, n) \in C
  <2>1. n \in Part /\ IsName(n) /\ ~Contains(n, "NUL")
    BY PartFacts, NameAssumption DEF IsName, Dot, DotDot
  <2>2. ns # Rejected
    <3>1. Rejected[1] = <<>> /\ Len(Rejected) = 1
      BY DEF Rejected
    <3>2. <<>> \notin Names
      BY NameAssumption
    <3>3. QED BY <3>1, <3>2, ElementOfSeq
  <2>3. PushAll(Append(ns, n)) = PushPart(PushAll(ns), n)
    BY PushAppend
  <2>4. PushPart(ns, n) = Append(ns, n)
    BY <2>1, <2>2, PushCases
  <2>5. QED BY <1>2, <2>3, <2>4, AppendProperties
<1>3. Seq(Names) \subseteq C
  <2> HIDE DEF C
  <2>1. QED BY <1>1, <1>2, SeqInduction
<1>4. QED BY <1>3

LEMMA NotRejected ==
    ASSUME NEW ns \in Seq(Names)
    PROVE  ns # Rejected
<1>1. Rejected[1] = <<>> /\ Len(Rejected) = 1
  BY DEF Rejected
<1>2. <<>> \notin Names
  BY NameAssumption
<1>3. QED BY <1>1, <1>2, ElementOfSeq

\* What a path with names looks like: its parent, a slash, its last name.
LEMMA JoinedLast ==
    ASSUME NEW ns \in Seq(Names), ns # <<>>
    PROVE  /\ Front(ns) \in Seq(Names) /\ Last(ns) \in Names
           /\ ns = Append(Front(ns), Last(ns))
           /\ Joined(ns) = Joined(Front(ns)) \o (Slash \o Last(ns))
<1>1. PICK f \in Seq(Names), n \in Names : ns = Append(f, n)
  BY SequenceEmptyOrAppend
<1>2. /\ Len(f) \in Nat /\ Len(ns) = Len(f) + 1 /\ ns[Len(f) + 1] = n
      /\ \A i \in 1..Len(f) : ns[i] = f[i]
  BY <1>1, AppendProperties, LenProperties
<1>3. Last(ns) = n
  BY <1>2 DEF Last
<1>4. Front(ns) = f
  <2>1. PICK g : g = SubSeq(ns, 1, Len(ns) - 1)
    OBVIOUS
  <2>2. \A i \in 1..(Len(ns) - 1) : ns[i] \in Names
    BY <1>2, ElementOfSeq
  <2>3. /\ g \in Seq(Names) /\ Len(g) = (IF 1 <= Len(ns) - 1 THEN (Len(ns) - 1) - 1 + 1 ELSE 0)
        /\ \A i \in 1..((Len(ns) - 1) - 1 + 1) : g[i] = ns[1 + i - 1]
    BY <1>2, <2>1, <2>2, SubSeqProperties
  <2>4. Len(g) = Len(f) /\ \A i \in 1..Len(f) : g[i] = f[i]
    BY <1>2, <2>3
  <2>5. g = f
    BY <2>3, <2>4, SeqEqual
  <2>6. QED BY <2>1, <2>5 DEF Front
<1>5. f \in Seq(Part) /\ n \in Part
  BY PartFacts, SeqMonotonic
<1>6. Joined(ns) = Joined(f) \o (Slash \o n)
  BY <1>1, <1>5, JoinedAppend
<1>7. QED BY <1>1, <1>3, <1>4, <1>6

LEMMA NameParts ==
    ASSUME NEW ns \in Seq(Names)
    PROVE  ns \in Seq(Part)
BY PartFacts, SeqMonotonic

\* Only the root is written as a single slash.
LEMMA JoinedIsNotSlash ==
    ASSUME NEW ns \in Seq(Names), ns # <<>>
    PROVE  Joined(ns) # Slash /\ Len(Joined(ns)) >= 2
<1>1. PICK a \in Seq(PathChars), n \in Seq(PathChars) :
        /\ a = Joined(Front(ns)) /\ n = Last(ns) /\ n # <<>>
        /\ Joined(ns) = a \o (Slash \o n)
  <2>1. Last(ns) # <<>> /\ Last(ns) \in String /\ Joined(Front(ns)) \in String
    BY JoinedLast, PartFacts, NameAssumption, JoinedType, NameParts
  <2>2. QED BY <2>1, JoinedLast DEF String
<1>2. PICK b \in Seq(PathChars) : b = Slash \o n /\ Len(b) = Len(n) + 1
  BY <1>1, SlashFirst DEF String
<1>3. Len(a \o b) = Len(a) + Len(b) /\ Len(a) \in Nat /\ Len(n) \in Nat \ {0}
  BY <1>1, ConcatProperties, LenProperties, EmptySeq
<1>4. Len(Joined(ns)) >= 2
  BY <1>1, <1>2, <1>3
<1>5. Len(Slash) = 1
  BY DEF Slash
<1>6. PICK l \in Nat : l = Len(Joined(ns))
  BY <1>1, <1>2, <1>3
<1>7. l # 1
  BY <1>4, <1>6
<1>8. QED BY <1>4, <1>5, <1>6, <1>7

LEMMA RenderType ==
    ASSUME NEW ns \in Seq(Names)
    PROVE  Render(ns) \in String
BY PartFacts, JoinedType, NameParts DEF Render

\* A path is in normal form.
LEMMA RenderNormal ==
    ASSUME NEW ns \in Seq(Names)
    PROVE  Normalize(Render(ns)) = Render(ns)
<1>1. CASE ns = <<>>
  <2>1. <<<<>>>> \in Seq(Part) /\ <<<<>>>> # <<>>
    BY PartFacts
  <2>2. Joined(<<<<>>>>) = Slash
    BY PartFacts, JoinedOne, ConcatEmptySeq DEF String
  <2>3. PushAll(<<<<>>>>) = <<>>
    <3>1. <<<<>>>> \o <<>> = <<<<>>>> /\ <<>> \in Seq(Part)
      BY <2>1, ConcatEmptySeq
    <3>2. QED BY <3>1, PushEmptyFirst, PushEmpty
  <2>4. Normalize(Slash) = Rendered(<<>>)
    BY <2>1, <2>2, <2>3, NormalizeJoined
  <2>5. QED BY <1>1, <2>4, NotRejected DEF Rendered, Render
<1>2. CASE ns # <<>>
  <2>1. Normalize(Joined(ns)) = Rendered(PushAll(ns))
    BY <1>2, NormalizeJoined, NameParts
  <2>2. QED BY <1>2, <2>1, PushNames, NotRejected DEF Rendered, Render
<1>3. QED BY <1>1, <1>2

\* join
LEMMA NormalizeJoin ==
    ASSUME NEW ns \in Seq(Names), NEW ps \in Seq(Part), ps # <<>>
    PROVE  JoinOf(Render(ns), Text(ps)) = Rendered(PushAll(ns \o ps))
<1>1. ns \in Seq(Part) /\ Joined(ns) \in String
  BY NameParts, JoinedType
<1>2. PICK x \in String : Text(ps) = x /\ Joined(ps) = Slash \o x
  BY JoinedHead
<1>3. (IF Render(ns) = Slash THEN Slash ELSE Render(ns) \o Slash) = Joined(ns) \o Slash
  <2>1. CASE ns = <<>>
    <3>1. <<>> \o Slash = Slash
      BY PartFacts, ConcatEmptySeq DEF String
    <3>2. QED BY <2>1, <3>1, JoinedEmpty DEF Render
  <2>2. CASE ns # <<>>
    BY <2>2, JoinedIsNotSlash DEF Render
  <2>3. QED BY <2>1, <2>2
<1>4. (Joined(ns) \o Slash) \o x = Joined(ns) \o Joined(ps)
  <2>1. PICK a \in Seq(PathChars), b \in Seq(PathChars), c \in Seq(PathChars) :
          a = Joined(ns) /\ b = Slash /\ c = x
    BY <1>1, PartFacts DEF String
  <2>2. (a \o b) \o c = a \o (b \o c)
    BY ConcatAssociative
  <2>3. QED BY <1>2, <2>1, <2>2
<1>5. Joined(ns) \o Joined(ps) = Joined(ns \o ps)
  BY <1>1, JoinedConcat
<1>6. ns \o ps \in Seq(Part) /\ ns \o ps # <<>>
  BY <1>1, ConcatProperties, ConcatEqualIffEmpty
<1>7. JoinOf(Render(ns), Text(ps)) = Normalize(Joined(ns \o ps))
  BY <1>2, <1>3, <1>4, <1>5 DEF JoinOf
<1>8. QED BY <1>6, <1>7, NormalizeJoined

----------------------------------------------------------------------------
(* The loop of normalize and the names that stay *)

LEMMA CountType ==
    ASSUME NEW s, NEW i \in Int, NEW j \in Int
    PROVE  Downs(s, i, j) \in Nat /\ Ups(s, i, j) \in Nat
<1>1. IsFiniteSet(i..j)
  BY FS_Interval
<1>2. IsFiniteSet({k \in i..j : IsName(s[k])}) /\ IsFiniteSet({k \in i..j : s[k] = DotDot})
  BY <1>1, FS_Subset
<1>3. QED BY <1>2, FS_CardinalityType DEF Downs, Ups

LEMMA CountEmpty ==
    ASSUME NEW s, NEW i \in Int, NEW j \in Int, j < i
    PROVE  Downs(s, i, j) = 0 /\ Ups(s, i, j) = 0
<1>1. i..j = {}
  OBVIOUS
<1>2. QED BY <1>1, FS_EmptySet DEF Downs, Ups

\* The counts up to an old position do not see a new part.
LEMMA CountOld ==
    ASSUME NEW A, NEW s \in Seq(A), NEW p \in A, NEW i \in Nat \ {0}, NEW j \in Nat, j <= Len(s)
    PROVE  /\ Downs(Append(s, p), i, j) = Downs(s, i, j)
           /\ Ups(Append(s, p), i, j) = Ups(s, i, j)
<1>1. \A k \in i..j : Append(s, p)[k] = s[k]
  BY AppendProperties, LenProperties
<1>2. /\ {k \in i..j : IsName(Append(s, p)[k])} = {k \in i..j : IsName(s[k])}
      /\ {k \in i..j : Append(s, p)[k] = DotDot} = {k \in i..j : s[k] = DotDot}
  BY <1>1
<1>3. QED BY <1>2 DEF Downs, Ups

\* The counts up to a new part.
LEMMA CountNew ==
    ASSUME NEW A, NEW s \in Seq(A), NEW p \in A, NEW i \in 1..(Len(s) + 1)
    PROVE  /\ Downs(Append(s, p), i, Len(s) + 1)
                = Downs(s, i, Len(s)) + (IF IsName(p) THEN 1 ELSE 0)
           /\ Ups(Append(s, p), i, Len(s) + 1)
                = Ups(s, i, Len(s)) + (IF p = DotDot THEN 1 ELSE 0)
<1>1. PICK t : t = Append(s, p)
  OBVIOUS
<1>2. PICK n \in Nat : n = Len(s)
  BY LenProperties
<1>3. t[n + 1] = p /\ \A k \in 1..n : t[k] = s[k]
  BY <1>1, <1>2, AppendProperties
<1>4. i..(n + 1) = (i..n) \cup {n + 1} /\ n + 1 \notin i..n /\ IsFiniteSet(i..n)
  <2>1. i \in 1..(n + 1) /\ i \in Int /\ n \in Int
    BY <1>2
  <2>2. i..(n + 1) = (i..n) \cup {n + 1} /\ n + 1 \notin i..n
    BY <2>1
  <2>3. QED BY <2>1, <2>2, FS_Interval
<1>5. \A k \in i..n : t[k] = s[k]
  BY <1>2, <1>3
<1>6. Downs(t, i, n + 1) = Downs(s, i, n) + (IF IsName(p) THEN 1 ELSE 0)
  <2>1. PICK D : D = {k \in i..n : IsName(s[k])}
    OBVIOUS
  <2>2. IsFiniteSet(D) /\ n + 1 \notin D /\ Cardinality(D) \in Nat
    BY <1>4, <2>1, FS_Subset, FS_CardinalityType
  <2>3. {k \in i..(n + 1) : IsName(t[k])} = IF IsName(p) THEN D \cup {n + 1} ELSE D
    BY <1>3, <1>4, <1>5, <2>1
  <2>4. Cardinality(D \cup {n + 1}) = Cardinality(D) + 1
    BY <2>2, FS_AddElement
  <2>5. Downs(s, i, n) = Cardinality(D)
    BY <2>1 DEF Downs
  <2>6. Downs(t, i, n + 1) = Cardinality(IF IsName(p) THEN D \cup {n + 1} ELSE D)
    BY <2>3 DEF Downs
  <2>7. PICK d \in Nat : d = Cardinality(D)
    BY <2>2
  <2>8. QED BY <2>4, <2>5, <2>6, <2>7
<1>7. Ups(t, i, n + 1) = Ups(s, i, n) + (IF p = DotDot THEN 1 ELSE 0)
  <2>1. PICK D : D = {k \in i..n : s[k] = DotDot}
    OBVIOUS
  <2>2. IsFiniteSet(D) /\ n + 1 \notin D /\ Cardinality(D) \in Nat
    BY <1>4, <2>1, FS_Subset, FS_CardinalityType
  <2>3. {k \in i..(n + 1) : t[k] = DotDot} = IF p = DotDot THEN D \cup {n + 1} ELSE D
    BY <1>3, <1>4, <1>5, <2>1
  <2>4. Cardinality(D \cup {n + 1}) = Cardinality(D) + 1
    BY <2>2, FS_AddElement
  <2>5. Ups(s, i, n) = Cardinality(D)
    BY <2>1 DEF Ups
  <2>6. Ups(t, i, n + 1) = Cardinality(IF p = DotDot THEN D \cup {n + 1} ELSE D)
    BY <2>3 DEF Ups
  <2>7. PICK d \in Nat : d = Cardinality(D)
    BY <2>2
  <2>8. QED BY <2>4, <2>5, <2>6, <2>7
<1>8. QED BY <1>1, <1>2, <1>6, <1>7

\* Whether an old part stays after a new one.
LEMMA KeptOld ==
    ASSUME NEW A, NEW s \in Seq(A), NEW p \in A, NEW i \in 1..Len(s)
    PROVE  Kept(Append(s, p), i)
             <=> /\ Kept(s, i)
                 /\ Ups(Append(s, p), i + 1, Len(s) + 1) <= Downs(Append(s, p), i + 1, Len(s) + 1)
<1>1. PICK t : t = Append(s, p)
  OBVIOUS
<1>2. PICK n \in Nat : n = Len(s)
  BY LenProperties
<1>3. Len(t) = n + 1 /\ t[i] = s[i]
  BY <1>1, <1>2, AppendProperties
<1>4. \A j \in (i + 1)..n : Downs(t, i + 1, j) = Downs(s, i + 1, j) /\ Ups(t, i + 1, j) = Ups(s, i + 1, j)
  BY <1>1, <1>2, CountOld
<1>5. (i + 1)..(n + 1) = ((i + 1)..n) \cup {n + 1}
  BY <1>2
<1>6. QED BY <1>1, <1>2, <1>3, <1>4, <1>5 DEF Kept

LEMMA KeptNew ==
    ASSUME NEW A, NEW s \in Seq(A), NEW p \in A
    PROVE  Kept(Append(s, p), Len(s) + 1) <=> IsName(p)
<1>1. PICK t : t = Append(s, p)
  OBVIOUS
<1>2. PICK n \in Nat : n = Len(s)
  BY LenProperties
<1>3. Len(t) = n + 1 /\ t[n + 1] = p
  BY <1>1, <1>2, AppendProperties
<1>4. ((n + 1) + 1)..(n + 1) = {}
  BY <1>2
<1>5. QED BY <1>1, <1>2, <1>3, <1>4 DEF Kept

\* A part that stays is balanced up to the end.
LEMMA KeptBalanced ==
    ASSUME NEW A, NEW s \in Seq(A), NEW i \in 1..Len(s), Kept(s, i)
    PROVE  Ups(s, i + 1, Len(s)) <= Downs(s, i + 1, Len(s))
<1>1. Len(s) \in Nat
  BY LenProperties
<1>2. CASE i < Len(s)
  BY <1>1, <1>2 DEF Kept
<1>3. CASE i = Len(s)
  BY <1>1, <1>3, CountEmpty
<1>4. QED BY <1>1, <1>2, <1>3

\* The positions of s whose parts are on the vector, from the bottom up.
Increasing(g) == \A j, k \in 1..Len(g) : j < k => g[j] < g[k]

OnStack(g, i) == \E k \in 1..Len(g) : g[k] = i

StackOf(s, g) ==
    /\ g \in Seq(1..Len(s))
    /\ Increasing(g)
    /\ \A i \in 1..Len(s) : Kept(s, i) <=> OnStack(g, i)
    /\ \A k \in 1..Len(g) :
         Downs(s, g[k] + 1, Len(s)) = Ups(s, g[k] + 1, Len(s)) + (Len(g) - k)
    /\ PushAll(s) = [k \in 1..Len(g) |-> s[g[k]]]

\* Parts that normalize accepts.
Good == {p \in Part : IsName(p) => ~Contains(p, "NUL")}

LEMMA StackNotRejected ==
    ASSUME NEW s \in Seq(Good), NEW g, StackOf(s, g)
    PROVE  PushAll(s) # Rejected
<1>1. /\ g \in Seq(1..Len(s)) /\ PushAll(s) = [k \in 1..Len(g) |-> s[g[k]]] /\ Len(g) \in Nat
  BY LenProperties DEF StackOf
<1>2. SUFFICES ASSUME PushAll(s) = Rejected PROVE FALSE
  OBVIOUS
<1>3. Len(PushAll(s)) = 1 /\ PushAll(s)[1] = <<>>
  BY <1>2 DEF Rejected
<1>4. PushAll(s) \in Seq(Good) /\ Len(PushAll(s)) = Len(g)
  BY <1>1, ElementOfSeq
<1>5. 1 \in 1..Len(g) /\ g[1] \in 1..Len(s)
  BY <1>1, <1>3, <1>4, ElementOfSeq
<1>6. OnStack(g, g[1])
  BY <1>5 DEF OnStack
<1>7. Kept(s, g[1])
  BY <1>5, <1>6 DEF StackOf
<1>8. s[g[1]] # <<>>
  BY <1>7 DEF Kept, IsName
<1>9. QED BY <1>1, <1>3, <1>5, <1>8

\* The counts from behind an old position, after a new part.
LEMMA CountsGrow ==
    ASSUME NEW A, NEW s \in Seq(A), NEW p \in A, NEW i \in 1..Len(s)
    PROVE  /\ Downs(s, i + 1, Len(s)) \in Nat /\ Ups(s, i + 1, Len(s)) \in Nat
           /\ Downs(Append(s, p), i + 1, Len(s) + 1)
                = Downs(s, i + 1, Len(s)) + (IF IsName(p) THEN 1 ELSE 0)
           /\ Ups(Append(s, p), i + 1, Len(s) + 1)
                = Ups(s, i + 1, Len(s)) + (IF p = DotDot THEN 1 ELSE 0)
<1>1. Len(s) \in Nat
  BY LenProperties
<1>2. i + 1 \in 1..(Len(s) + 1) /\ i + 1 \in Int /\ Len(s) \in Int
  BY <1>1
<1>3. QED BY <1>2, CountNew, CountType

LEMMA StackType ==
    ASSUME NEW s, s \in Seq(Good), NEW g, StackOf(s, g)
    PROVE  /\ Len(s) \in Nat /\ Len(g) \in Nat
           /\ \A k \in 1..Len(g) : g[k] \in 1..Len(s)
           /\ \A k \in 1..Len(g) : s[g[k]] \in Good /\ IsName(s[g[k]]) /\ Kept(s, g[k])
<1>1. Len(s) \in Nat /\ Len(g) \in Nat /\ g \in Seq(1..Len(s))
  BY LenProperties DEF StackOf
<1>2. \A k \in 1..Len(g) : g[k] \in 1..Len(s)
  BY <1>1, ElementOfSeq
<1>3. ASSUME NEW k \in 1..Len(g) PROVE s[g[k]] \in Good /\ IsName(s[g[k]]) /\ Kept(s, g[k])
  <2>1. OnStack(g, g[k])
    BY DEF OnStack
  <2>2. Kept(s, g[k])
    BY <1>2, <2>1 DEF StackOf
  <2>3. QED BY <1>2, <2>2, ElementOfSeq DEF Kept
<1>4. QED BY <1>1, <1>2, <1>3

\* A part that is passed over.
LEMMA StackPasses ==
    ASSUME NEW s \in Seq(Good), NEW g, StackOf(s, g), NEW p \in Good, p \in {<<>>, Dot}
    PROVE  StackOf(Append(s, p), g)
<1>1. PICK t : t = Append(s, p)
  OBVIOUS
<1>2. PICK n \in Nat : n = Len(s)
  BY LenProperties
<1>3. t \in Seq(Good) /\ Len(t) = n + 1 /\ \A k \in 1..n : t[k] = s[k]
  BY <1>1, <1>2, AppendProperties
<1>4. ~IsName(p) /\ p # DotDot /\ p \in Part
  <2>1. ~IsName(p)
    BY DEF IsName
  <2>2. p # DotDot
    BY DEF Dot, DotDot
  <2>3. QED BY <2>1, <2>2 DEF Good
<1>5. ASSUME NEW i \in 1..n
      PROVE  Downs(t, i + 1, n + 1) = Downs(s, i + 1, n) /\ Ups(t, i + 1, n + 1) = Ups(s, i + 1, n)
  BY <1>1, <1>2, <1>4, CountsGrow
<1>6. ASSUME NEW i \in 1..n PROVE Kept(t, i) <=> Kept(s, i)
  BY <1>1, <1>2, <1>5, KeptOld, KeptBalanced
<1>7. ~Kept(t, n + 1)
  BY <1>1, <1>2, <1>4, KeptNew
<1>8. /\ Len(g) \in Nat /\ \A k \in 1..Len(g) : g[k] \in 1..n
  BY <1>2, StackType
<1>9. g \in Seq(1..Len(t))
  <2>1. 1..n \subseteq 1..Len(t)
    BY <1>3
  <2>2. g \in Seq(1..n)
    BY <1>2 DEF StackOf
  <2>3. QED BY <2>1, <2>2, SeqMonotonic
<1>10. ASSUME NEW i \in 1..Len(t) PROVE Kept(t, i) <=> OnStack(g, i)
  <2>1. CASE i = n + 1
    <3>1. ~OnStack(g, n + 1)
      BY <1>8 DEF OnStack
    <3>2. QED BY <1>7, <2>1, <3>1
  <2>2. CASE i \in 1..n
    BY <1>2, <1>6, <2>2 DEF StackOf
  <2>3. QED BY <1>3, <2>1, <2>2
<1>11. ASSUME NEW k \in 1..Len(g)
       PROVE  Downs(t, g[k] + 1, Len(t)) = Ups(t, g[k] + 1, Len(t)) + (Len(g) - k)
  <2>1. Downs(s, g[k] + 1, n) = Ups(s, g[k] + 1, n) + (Len(g) - k)
    BY <1>2 DEF StackOf
  <2>2. QED BY <1>3, <1>5, <1>8, <2>1
<1>12. PushAll(t) = [k \in 1..Len(g) |-> t[g[k]]]
  <2>1. PushAll(t) = PushAll(s)
    <3>1. PushAll(t) = PushPart(PushAll(s), p)
      BY <1>1, PushAppend
    <3>2. PushAll(s) # Rejected
      BY StackNotRejected
    <3>3. PushPart(PushAll(s), p) = PushAll(s)
      BY <1>4, <3>2, PushCases
    <3>4. QED BY <3>1, <3>3
  <2>2. PushAll(s) = [k \in 1..Len(g) |-> s[g[k]]]
    BY DEF StackOf
  <2>3. QED BY <1>3, <1>8, <2>1, <2>2
<1>13. Increasing(g)
  BY DEF StackOf
<1>14. QED BY <1>1, <1>9, <1>10, <1>11, <1>12, <1>13 DEF StackOf

\* A name is pushed.
LEMMA StackPushes ==
    ASSUME NEW s \in Seq(Good), NEW g, StackOf(s, g), NEW p \in Good, IsName(p)
    PROVE  StackOf(Append(s, p), Append(g, Len(s) + 1))
<1>1. PICK t : t = Append(s, p)
  OBVIOUS
<1>2. PICK n \in Nat : n = Len(s)
  BY LenProperties
<1>3. /\ t \in Seq(Good) /\ Len(t) = n + 1 /\ t[n + 1] = p
      /\ \A k \in 1..n : t[k] = s[k]
  BY <1>1, <1>2, AppendProperties
<1>4. p # DotDot /\ p \in Part /\ ~Contains(p, "NUL")
  BY DEF IsName, Good
<1>5. ASSUME NEW i \in 1..n
      PROVE  /\ Downs(s, i + 1, n) \in Nat /\ Ups(s, i + 1, n) \in Nat
             /\ Downs(t, i + 1, n + 1) = Downs(s, i + 1, n) + 1
             /\ Ups(t, i + 1, n + 1) = Ups(s, i + 1, n)
  BY <1>1, <1>2, <1>4, CountsGrow
<1>6. ASSUME NEW i \in 1..n PROVE Kept(t, i) <=> Kept(s, i)
  <2>1. Kept(s, i) => Ups(s, i + 1, n) <= Downs(s, i + 1, n)
    BY <1>2, KeptBalanced
  <2>2. Kept(s, i) => Ups(t, i + 1, n + 1) <= Downs(t, i + 1, n + 1)
    BY <1>5, <2>1
  <2>3. QED BY <1>1, <1>2, <2>2, KeptOld
<1>7. Kept(t, n + 1)
  BY <1>1, <1>2, KeptNew
<1>8. /\ Len(g) \in Nat /\ \A k \in 1..Len(g) : g[k] \in 1..n
  BY <1>2, StackType
<1>9. PICK m \in Nat : m = Len(g)
  BY <1>8
<1>10. g \in Seq(1..Len(t)) /\ n + 1 \in 1..Len(t)
  <2>1. 1..n \subseteq 1..Len(t) /\ n + 1 \in 1..Len(t)
    BY <1>3
  <2>2. g \in Seq(1..n)
    BY <1>2 DEF StackOf
  <2>3. QED BY <2>1, <2>2, SeqMonotonic
<1>11. PICK h : h = Append(g, n + 1)
  OBVIOUS
<1>12. /\ h \in Seq(1..Len(t)) /\ Len(h) = m + 1 /\ h[m + 1] = n + 1
       /\ \A k \in 1..m : h[k] = g[k]
  BY <1>9, <1>10, <1>11, AppendProperties
<1>13. Increasing(h)
  <2>1. SUFFICES ASSUME NEW j \in 1..(m + 1), NEW k \in 1..(m + 1), j < k PROVE h[j] < h[k]
    BY <1>12 DEF Increasing
  <2>2. j \in 1..m
    BY <2>1
  <2>3. CASE k = m + 1
    BY <1>8, <1>9, <1>12, <2>2, <2>3
  <2>4. CASE k \in 1..m
    BY <1>9, <1>12, <2>1, <2>2, <2>4 DEF StackOf, Increasing
  <2>5. QED BY <2>3, <2>4
<1>14. ASSUME NEW i \in 1..Len(t) PROVE Kept(t, i) <=> OnStack(h, i)
  <2>1. CASE i = n + 1
    <3>1. m + 1 \in 1..Len(h)
      BY <1>12
    <3>2. OnStack(h, n + 1)
      BY <1>12, <3>1 DEF OnStack
    <3>3. QED BY <1>7, <2>1, <3>2
  <2>2. CASE i \in 1..n
    <3>1. Kept(t, i) <=> OnStack(g, i)
      BY <1>2, <1>6, <2>2 DEF StackOf
    <3>2. OnStack(h, i) <=> OnStack(g, i)
      <4>1. 1..Len(h) = (1..m) \cup {m + 1} /\ i # n + 1
        BY <1>12, <2>2
      <4>2. QED BY <1>9, <1>12, <4>1 DEF OnStack
    <3>3. QED BY <3>1, <3>2
  <2>3. QED BY <1>3, <2>1, <2>2
<1>15. ASSUME NEW k \in 1..Len(h)
       PROVE  Downs(t, h[k] + 1, Len(t)) = Ups(t, h[k] + 1, Len(t)) + (Len(h) - k)
  <2>1. CASE k = m + 1
    <3>1. Downs(t, (n + 1) + 1, n + 1) = 0 /\ Ups(t, (n + 1) + 1, n + 1) = 0
      BY CountEmpty
    <3>2. Len(h) - k = 0
      BY <1>12, <2>1
    <3>3. QED BY <1>3, <1>12, <2>1, <3>1, <3>2
  <2>2. CASE k \in 1..m
    <3>1. Downs(s, g[k] + 1, n) = Ups(s, g[k] + 1, n) + (m - k)
      BY <1>2, <1>9, <2>2 DEF StackOf
    <3>2. PICK i \in 1..n : i = g[k] /\ i = h[k]
      BY <1>8, <1>9, <1>12, <2>2
    <3>3. Downs(t, i + 1, n + 1) = Ups(t, i + 1, n + 1) + ((m + 1) - k)
      BY <1>5, <2>2, <3>1, <3>2
    <3>4. QED BY <1>3, <1>12, <3>2, <3>3
  <2>3. QED BY <1>12, <2>1, <2>2
<1>16. PushAll(t) = [k \in 1..Len(h) |-> t[h[k]]]
  <2>1. PICK c : c = PushAll(s)
    OBVIOUS
  <2>2. c = [k \in 1..m |-> s[g[k]]] /\ c # Rejected
    BY <1>9, <2>1, StackNotRejected DEF StackOf
  <2>3. c \in Seq(Good) /\ Len(c) = m
    BY <1>9, <2>2, StackType
  <2>4. PushAll(t) = Append(c, p)
    <3>1. PushAll(t) = PushPart(c, p)
      BY <1>1, <2>1, PushAppend
    <3>2. PushPart(c, p) = Append(c, p)
      BY <1>4, <2>2, PushCases
    <3>3. QED BY <3>1, <3>2
  <2>5. PICK d : d = [k \in 1..Len(h) |-> t[h[k]]]
    OBVIOUS
  <2>6. \A k \in 1..(m + 1) : t[h[k]] = IF k = m + 1 THEN p ELSE s[g[k]]
    BY <1>3, <1>8, <1>9, <1>12
  <2>7. \A k \in 1..(m + 1) : t[h[k]] \in Good
    BY <1>12, <1>3, ElementOfSeq
  <2>8. d \in Seq(Good) /\ Len(d) = m + 1
    BY <1>12, <2>5, <2>7
  <2>9. PICK e : e = Append(c, p)
    OBVIOUS
  <2>10. /\ e \in Seq(Good) /\ Len(e) = m + 1 /\ e[m + 1] = p
         /\ \A k \in 1..m : e[k] = c[k]
    BY <2>3, <2>9, AppendProperties
  <2>11. ASSUME NEW k \in 1..Len(e) PROVE e[k] = d[k]
    <3>1. k \in 1..(m + 1) /\ (k = m + 1 \/ k \in 1..m)
      BY <2>10
    <3>2. d[k] = IF k = m + 1 THEN p ELSE s[g[k]]
      BY <1>12, <2>5, <2>6, <3>1
    <3>3. QED BY <2>2, <2>10, <3>1, <3>2
  <2>12. e = d
    BY <2>8, <2>10, <2>11, SeqEqual
  <2>13. QED BY <2>4, <2>5, <2>9, <2>12
<1>17. QED BY <1>1, <1>2, <1>11, <1>12, <1>13, <1>14, <1>15, <1>16 DEF StackOf

\* A ".." pops the last name that stayed, if any.
LEMMA StackPops ==
    ASSUME NEW s \in Seq(Good), NEW g, StackOf(s, g), DotDot \in Good
    PROVE  \E h : StackOf(Append(s, DotDot), h)
<1>1. PICK t : t = Append(s, DotDot)
  OBVIOUS
<1>2. PICK n \in Nat : n = Len(s)
  BY LenProperties
<1>3. t \in Seq(Good) /\ Len(t) = n + 1 /\ \A k \in 1..n : t[k] = s[k]
  BY <1>1, <1>2, AppendProperties
<1>4. ~IsName(DotDot) /\ DotDot \in Part
  BY PartFacts DEF IsName
<1>5. ASSUME NEW i \in 1..n
      PROVE  /\ Downs(s, i + 1, n) \in Nat /\ Ups(s, i + 1, n) \in Nat
             /\ Downs(t, i + 1, n + 1) = Downs(s, i + 1, n)
             /\ Ups(t, i + 1, n + 1) = Ups(s, i + 1, n) + 1
  BY <1>1, <1>2, <1>4, CountsGrow
<1>6. ASSUME NEW i \in 1..n
      PROVE  Kept(t, i) <=> Kept(s, i) /\ Ups(s, i + 1, n) + 1 <= Downs(s, i + 1, n)
  BY <1>1, <1>2, <1>5, KeptOld
<1>7. ~Kept(t, n + 1)
  BY <1>1, <1>2, <1>4, KeptNew
<1>8. /\ Len(g) \in Nat /\ \A k \in 1..Len(g) : g[k] \in 1..n /\ Kept(s, g[k])
  BY <1>2, StackType
<1>9. PICK m \in Nat : m = Len(g)
  BY <1>8
<1>10. PICK l \in Nat : l = IF m = 0 THEN 0 ELSE m - 1
  BY <1>9
<1>11. PICK h : h = [k \in 1..l |-> g[k]]
  OBVIOUS
<1>12. /\ h \in Seq(1..Len(t)) /\ Len(h) = l
       /\ \A k \in 1..l : k \in 1..m /\ h[k] = g[k]
  <2>1. \A k \in 1..l : k \in 1..m /\ g[k] \in 1..Len(t)
    BY <1>3, <1>8, <1>9, <1>10
  <2>2. QED BY <1>11, <2>1
<1>13. Increasing(h)
  BY <1>9, <1>12 DEF StackOf, Increasing
<1>14. ASSUME NEW k \in 1..m
       PROVE  Kept(t, g[k]) <=> k \in 1..l
  <2>1. PICK i \in 1..n : i = g[k]
    BY <1>8, <1>9
  <2>2. Downs(s, i + 1, n) = Ups(s, i + 1, n) + (m - k)
    BY <1>2, <1>9, <2>1 DEF StackOf
  <2>3. Kept(s, i)
    BY <1>8, <1>9, <2>1
  <2>4. Ups(s, i + 1, n) + 1 <= Downs(s, i + 1, n) <=> k <= m - 1
    BY <1>5, <2>2
  <2>5. QED BY <1>6, <1>10, <2>1, <2>3, <2>4
<1>15. ASSUME NEW i \in 1..Len(t) PROVE Kept(t, i) <=> OnStack(h, i)
  <2>1. CASE i = n + 1
    <3>1. ~OnStack(h, n + 1)
      BY <1>8, <1>9, <1>12 DEF OnStack
    <3>2. QED BY <1>7, <2>1, <3>1
  <2>2. CASE i \in 1..n
    <3>1. ASSUME Kept(t, i) PROVE OnStack(h, i)
      <4>1. OnStack(g, i)
        BY <1>2, <1>6, <2>2, <3>1 DEF StackOf
      <4>2. PICK k \in 1..m : g[k] = i
        BY <1>9, <4>1 DEF OnStack
      <4>3. k \in 1..l
        BY <1>14, <3>1, <4>2
      <4>4. QED BY <1>12, <4>2, <4>3 DEF OnStack
    <3>2. ASSUME OnStack(h, i) PROVE Kept(t, i)
      <4>1. PICK k \in 1..l : h[k] = i
        BY <1>12, <3>2 DEF OnStack
      <4>2. QED BY <1>12, <1>14, <4>1
    <3>3. QED BY <3>1, <3>2
  <2>3. QED BY <1>3, <2>1, <2>2
<1>16. ASSUME NEW k \in 1..Len(h)
       PROVE  Downs(t, h[k] + 1, Len(t)) = Ups(t, h[k] + 1, Len(t)) + (Len(h) - k)
  <2>1. k \in 1..l /\ k \in 1..m /\ l = m - 1
    BY <1>10, <1>12
  <2>2. PICK i \in 1..n : i = g[k] /\ i = h[k]
    BY <1>8, <1>9, <1>12, <2>1
  <2>3. Downs(s, i + 1, n) = Ups(s, i + 1, n) + (m - k)
    BY <1>2, <1>9, <2>1, <2>2 DEF StackOf
  <2>4. Downs(t, i + 1, n + 1) = Ups(t, i + 1, n + 1) + (l - k)
    BY <1>5, <2>1, <2>3
  <2>5. QED BY <1>3, <1>12, <2>2, <2>4
<1>17. PushAll(t) = [k \in 1..Len(h) |-> t[h[k]]]
  <2>1. PICK c : c = PushAll(s)
    OBVIOUS
  <2>2. c = [k \in 1..m |-> s[g[k]]] /\ c # Rejected
    BY <1>9, <2>1, StackNotRejected DEF StackOf
  <2>3. c \in Seq(Good) /\ Len(c) = m
    BY <1>9, <2>2, StackType
  <2>4. PushAll(t) = PopOf(c)
    <3>1. PushAll(t) = PushPart(c, DotDot)
      BY <1>1, <2>1, PushAppend
    <3>2. QED BY <1>4, <2>2, <3>1, PushCases
  <2>5. PICK d : d = [k \in 1..Len(h) |-> t[h[k]]]
    OBVIOUS
  <2>6. \A k \in 1..l : t[h[k]] = c[k] /\ c[k] \in Good
    BY <1>3, <1>8, <1>9, <1>12, <2>2, <2>3, ElementOfSeq
  <2>7. /\ d \in Seq(Good) /\ Len(d) = l
        /\ \A k \in 1..l : d[k] = c[k]
    BY <1>12, <2>5, <2>6
  <2>8. CASE m = 0
    <3>1. c = <<>> /\ PopOf(c) = <<>>
      BY <2>3, <2>8, EmptySeq DEF PopOf
    <3>2. d = <<>>
      BY <1>10, <2>7, <2>8, EmptySeq
    <3>3. QED BY <2>4, <2>5, <3>1, <3>2
  <2>9. CASE m # 0
    <3>1. l = m - 1 /\ c # <<>>
      BY <1>10, <2>3, <2>9, EmptySeq
    <3>2. PopOf(c) = SubSeq(c, 1, l)
      BY <2>3, <3>1 DEF PopOf, Front
    <3>3. /\ SubSeq(c, 1, l) \in Seq(Good) /\ Len(SubSeq(c, 1, l)) = l
          /\ \A k \in 1..l : SubSeq(c, 1, l)[k] = c[k]
      BY <2>6, SubSeqProperties
    <3>4. SubSeq(c, 1, l) = d
      BY <2>7, <3>3, SeqEqual
    <3>5. QED BY <2>4, <2>5, <3>2, <3>4
  <2>10. QED BY <2>8, <2>9
<1>18. StackOf(t, h)
  BY <1>2, <1>12, <1>13, <1>15, <1>16, <1>17 DEF StackOf
<1>19. QED BY <1>1, <1>18

LEMMA StackExists ==
    \A s \in Seq(Good) : \E g : StackOf(s, g)
<1> DEFINE C == {s \in Seq(Good) : \E g : StackOf(s, g)}
<1>1. <<>> \in C
  <2>1. PICK e : e = <<>> /\ Len(e) = 0
    OBVIOUS
  <2>2. PICK d : d = [k \in 1..0 |-> e[e[k]]]
    OBVIOUS
  <2>3. d \in Seq(Good) /\ Len(d) = 0
    BY <2>2
  <2>4. PushAll(e) = [k \in 1..Len(e) |-> e[e[k]]]
    BY <2>1, <2>2, <2>3, EmptySeq, PushEmpty
  <2>5. 1..Len(e) = {} /\ e \in Seq(1..Len(e))
    BY <2>1
  <2>6. StackOf(e, e)
    BY <2>4, <2>5 DEF StackOf, Increasing
  <2>7. QED BY <2>1, <2>6
<1>2. ASSUME NEW s \in Seq(Good), NEW p \in Good, s \in C PROVE Append(s, p) \in C
  <2>1. PICK g : StackOf(s, g)
    BY <1>2
  <2>2. CASE p \in {<<>>, Dot}
    BY <2>1, <2>2, StackPasses, AppendProperties
  <2>3. CASE p = DotDot
    BY <2>1, <2>3, StackPops, AppendProperties
  <2>4. CASE IsName(p)
    BY <2>1, <2>4, StackPushes, AppendProperties
  <2>5. QED BY <2>2, <2>3, <2>4 DEF IsName
<1>3. Seq(Good) \subseteq C
  <2> HIDE DEF C
  <2>1. QED BY <1>1, <1>2, SeqInduction
<1>4. QED BY <1>3

\* The first m positions of a stack are m positions.
First(g, m) == {g[k] : k \in 1..m}

LEMMA StackCount ==
    ASSUME NEW N, NEW g \in Seq(N), Increasing(g), N \subseteq Nat
    PROVE  \A m \in Nat : m <= Len(g) => IsFiniteSet(First(g, m)) /\ Cardinality(First(g, m)) = m
<1> DEFINE C == {m \in Nat :
                   m <= Len(g) => IsFiniteSet(First(g, m)) /\ Cardinality(First(g, m)) = m}
<1>1. 0 \in C
  <2>1. First(g, 0) = {}
    BY DEF First
  <2>2. QED BY <2>1, FS_EmptySet
<1>2. ASSUME NEW m \in Nat, m \in C PROVE m + 1 \in C
  <2>1. SUFFICES ASSUME m + 1 <= Len(g)
                 PROVE  IsFiniteSet(First(g, m + 1)) /\ Cardinality(First(g, m + 1)) = m + 1
    OBVIOUS
  <2>2. Len(g) \in Nat /\ \A k \in 1..Len(g) : g[k] \in Nat
    BY ElementOfSeq, LenProperties
  <2>3. PICK D : D = First(g, m)
    OBVIOUS
  <2>4. IsFiniteSet(D) /\ Cardinality(D) = m
    BY <1>2, <2>1, <2>2, <2>3
  <2>5. First(g, m + 1) = D \cup {g[m + 1]}
    <3>1. 1..(m + 1) = (1..m) \cup {m + 1}
      OBVIOUS
    <3>2. QED BY <2>3, <3>1 DEF First
  <2>6. g[m + 1] \notin D
    <3>1. ASSUME NEW k \in 1..m PROVE g[k] # g[m + 1]
      <4>1. k \in 1..Len(g) /\ m + 1 \in 1..Len(g) /\ k < m + 1
        BY <2>1, <2>2
      <4>2. g[k] < g[m + 1]
        BY <4>1 DEF Increasing
      <4>3. QED BY <2>2, <4>1, <4>2
    <3>2. QED BY <2>3, <3>1 DEF First
  <2>7. QED BY <2>4, <2>5, <2>6, FS_AddElement
<1>3. Nat \subseteq C
  <2> HIDE DEF C
  <2>1. QED BY <1>1, <1>2, SetNatInduction
<1>4. QED BY <1>3

\* The vector that normalize builds is the sequence of the names that stay.
LEMMA PushResolves ==
    ASSUME NEW s \in Seq(Good)
    PROVE  PushAll(s) = Resolve(s) /\ PushAll(s) # Rejected
<1>1. PICK g : StackOf(s, g)
  BY StackExists
<1>2. PICK n \in Nat, m \in Nat : n = Len(s) /\ m = Len(g)
  BY <1>1, StackType
<1>3. \A k \in 1..m : g[k] \in 1..n
  BY <1>1, <1>2, StackType
<1>4. g \in Seq(1..n) /\ Increasing(g)
  BY <1>1, <1>2 DEF StackOf
<1>5. \A k \in Nat : k <= m => Cardinality(First(g, k)) = k
  <2>1. PICK N : N = 1..n
    OBVIOUS
  <2>2. N \subseteq Nat /\ g \in Seq(N)
    BY <1>4, <2>1
  <2>3. QED BY <1>2, <1>4, <2>2, StackCount
<1>6. DOMAIN s = 1..n
  BY <1>2, LenProperties
<1>7. Cardinality({i \in DOMAIN s : Kept(s, i)}) = m
  <2>1. {i \in 1..n : Kept(s, i)} = First(g, m)
    BY <1>1, <1>2, <1>3 DEF StackOf, OnStack, First
  <2>2. Cardinality(First(g, m)) = m
    BY <1>5
  <2>3. QED BY <1>6, <2>1, <2>2
<1>8. ASSUME NEW k \in 1..m
      PROVE  Cardinality({j \in 1..g[k] : Kept(s, j)}) = k
  <2>1. {j \in 1..g[k] : Kept(s, j)} = First(g, k)
    <3>1. ASSUME NEW i \in 1..g[k], Kept(s, i) PROVE i \in First(g, k)
      <4>1. i \in 1..n /\ g[k] \in 1..n
        BY <1>3
      <4>2. OnStack(g, i)
        BY <1>1, <1>2, <3>1, <4>1 DEF StackOf
      <4>3. PICK j \in 1..m : g[j] = i
        BY <1>2, <4>2 DEF OnStack
      <4>4. ~(k < j)
        <5>1. k < j => g[k] < g[j]
          BY <1>2, <1>4, <4>3 DEF Increasing
        <5>2. QED BY <4>1, <4>3, <5>1
      <4>5. j \in 1..k
        BY <4>3, <4>4
      <4>6. QED BY <4>3, <4>5 DEF First
    <3>2. ASSUME NEW j \in 1..k PROVE g[j] \in 1..g[k] /\ Kept(s, g[j])
      <4>1. j \in 1..m /\ g[j] \in 1..n /\ g[k] \in 1..n
        BY <1>3
      <4>2. OnStack(g, g[j])
        BY <1>2, <4>1 DEF OnStack
      <4>3. j < k => g[j] < g[k]
        BY <1>2, <1>4, <4>1 DEF Increasing
      <4>4. g[j] <= g[k]
        BY <4>1, <4>3
      <4>5. QED BY <1>1, <1>2, <4>1, <4>2, <4>4 DEF StackOf
    <3>3. QED BY <3>1, <3>2 DEF First
  <2>2. Cardinality(First(g, k)) = k
    BY <1>5
  <2>3. QED BY <2>1, <2>2, Zenon
<1>9. ASSUME NEW k \in 1..m
      PROVE  (CHOOSE i \in DOMAIN s : Kept(s, i) /\ Cardinality({j \in 1..i : Kept(s, j)}) = k) = g[k]
  <2>1. g[k] \in DOMAIN s /\ Kept(s, g[k]) /\ Cardinality({j \in 1..g[k] : Kept(s, j)}) = k
    BY <1>1, <1>2, <1>3, <1>6, <1>8, StackType
  <2>2. ASSUME NEW i \in DOMAIN s, Kept(s, i), Cardinality({j \in 1..i : Kept(s, j)}) = k
        PROVE  i = g[k]
    <3>1. OnStack(g, i)
      BY <1>1, <1>2, <1>6, <2>2 DEF StackOf
    <3>2. PICK j \in 1..m : g[j] = i
      BY <1>2, <3>1 DEF OnStack
    <3>3. j = k
      BY <1>8, <2>2, <3>2
    <3>4. QED BY <3>2, <3>3
  <2>3. QED BY <2>1, <2>2
<1>10. Resolve(s) = [k \in 1..m |-> s[g[k]]]
  <2>1. Resolve(s) = [k \in 1..m |-> s[CHOOSE i \in DOMAIN s :
                        Kept(s, i) /\ Cardinality({j \in 1..i : Kept(s, j)}) = k]]
    BY <1>7, Zenon DEF Resolve
  <2>2. QED BY <1>9, <2>1, Zenon
<1>11. PushAll(s) = [k \in 1..m |-> s[g[k]]]
  BY <1>1, <1>2 DEF StackOf
<1>12. QED BY <1>1, <1>10, <1>11, StackNotRejected

\* What stays is names.
LEMMA ResolveType ==
    ASSUME NEW s \in Seq(Good), \A i \in 1..Len(s) : IsName(s[i]) => s[i] \in Names
    PROVE  Resolve(s) \in Seq(Names)
<1>1. PICK g : StackOf(s, g)
  BY StackExists
<1>2. PICK m \in Nat : m = Len(g)
  BY <1>1, StackType
<1>3. \A k \in 1..m : s[g[k]] \in Names
  BY <1>1, <1>2, StackType
<1>4. PushAll(s) = [k \in 1..m |-> s[g[k]]]
  BY <1>1, <1>2 DEF StackOf
<1>5. PushAll(s) \in Seq(Names)
  BY <1>3, <1>4
<1>6. QED BY <1>5, PushResolves

\* A NUL rejects the whole string.
LEMMA PushBad ==
    \A s \in Seq(Part) :
      (\E i \in 1..Len(s) : IsName(s[i]) /\ Contains(s[i], "NUL")) => PushAll(s) = Rejected
<1> DEFINE C == {s \in Seq(Part) :
      (\E i \in 1..Len(s) : IsName(s[i]) /\ Contains(s[i], "NUL")) => PushAll(s) = Rejected}
<1>1. <<>> \in C
  OBVIOUS
<1>2. ASSUME NEW s \in Seq(Part), NEW p \in Part, s \in C PROVE Append(s, p) \in C
  <2>1. PICK t \in Seq(Part) : t = Append(s, p)
    BY AppendProperties
  <2>2. PICK n \in Nat : n = Len(s)
    BY LenProperties
  <2>3. Len(t) = n + 1 /\ t[n + 1] = p /\ \A k \in 1..n : t[k] = s[k]
    BY <2>1, <2>2, AppendProperties
  <2>4. PushAll(t) = PushPart(PushAll(s), p)
    BY <2>1, PushAppend
  <2>5. ASSUME NEW i \in 1..Len(t), IsName(t[i]), Contains(t[i], "NUL") PROVE PushAll(t) = Rejected
    <3>1. CASE i \in 1..n
      <4>1. IsName(s[i]) /\ Contains(s[i], "NUL")
        BY <2>3, <2>5, <3>1
      <4>2. PushAll(s) = Rejected
        BY <1>2, <2>2, <3>1, <4>1
      <4>3. QED BY <2>4, <4>2, PushRejected
    <3>2. CASE i = n + 1
      <4>1. IsName(p) /\ Contains(p, "NUL")
        BY <2>3, <2>5, <3>2
      <4>2. QED BY <2>4, <4>1, PushCases, PushRejected
    <3>3. QED BY <2>3, <3>1, <3>2
  <2>6. QED BY <2>1, <2>5
<1>3. Seq(Part) \subseteq C
  <2> HIDE DEF C
  <2>1. QED BY <1>1, <1>2, SeqInduction
<1>4. QED BY <1>3

----------------------------------------------------------------------------
(* rfind, parent and file_name *)

LEMMA RFindIs ==
    ASSUME NEW s \in String, NEW i \in 1..Len(s), s[i] = "/", \A j \in (i + 1)..Len(s) : s[j] # "/"
    PROVE  RFind(s) = i
<1>1. Len(s) \in Nat /\ DOMAIN s = 1..Len(s)
  BY LenProperties DEF String
<1>2. ASSUME NEW k \in DOMAIN s, s[k] = "/", \A j \in (k + 1)..Len(s) : s[j] # "/"
      PROVE  k = i
  <2>1. ~(k < i)
    BY <1>1, <1>2
  <2>2. ~(i < k)
    BY <1>1, <1>2
  <2>3. QED BY <1>1, <2>1, <2>2
<1>3. QED BY <1>1, <1>2 DEF RFind

\* A part after a slash: what rfind, parent and file_name cut.
LEMMA CutLast ==
    ASSUME NEW a \in String, NEW n \in Part
    PROVE  /\ a \o (Slash \o n) \in String
           /\ RFind(a \o (Slash \o n)) = Len(a) + 1
           /\ SubSeq(a \o (Slash \o n), 1, Len(a)) = a
           /\ SubSeq(a \o (Slash \o n), Len(a) + 2, Len(a \o (Slash \o n))) = n
           /\ a # <<>> => (a \o (Slash \o n))[1] = a[1]
<1>1. PICK b \in Seq(PathChars) : b = Slash \o n
  BY PartFacts, SlashFirst DEF String
<1>2. PICK s \in Seq(PathChars) : s = a \o b
  BY ConcatProperties DEF String
<1>3. PICK k \in Nat, l \in Nat : k = Len(a) /\ l = Len(n)
  BY LenProperties DEF String, Part
<1>4. n \in Seq(PathChars) /\ \A i \in 1..l : n[i] \in PartChars
  BY <1>3, PartFacts, ElementOfSeq DEF Part, String
<1>5. Len(b) = l + 1 /\ b[1] = "/" /\ \A i \in 1..l : b[i + 1] = n[i]
  <2>1. b # <<>> /\ Tail(b) = n /\ b[1] = "/" /\ Len(b) = l + 1
    BY <1>1, <1>3, <1>4, SlashFirst DEF String
  <2>2. \A i \in 1..Len(Tail(b)) : Tail(b)[i] = b[i + 1]
    BY <2>1, HeadTailProperties
  <2>3. QED BY <1>3, <2>1, <2>2
<1>6. /\ Len(s) = k + (l + 1)
      /\ \A i \in 1..(k + (l + 1)) : s[i] = IF i <= k THEN a[i] ELSE b[i - k]
  <2>1. a \in Seq(PathChars)
    BY DEF String
  <2>2. /\ Len(a \o b) = Len(a) + Len(b)
        /\ \A i \in 1..(Len(a) + Len(b)) : (a \o b)[i] = IF i <= Len(a) THEN a[i] ELSE b[i - Len(a)]
    BY <2>1, ConcatProperties
  <2>3. QED BY <1>2, <1>3, <1>5, <2>2
<1>7. s[k + 1] = "/" /\ k + 1 \in 1..Len(s)
  BY <1>5, <1>6
<1>8. ASSUME NEW i \in 1..l PROVE s[k + 1 + i] = n[i]
  <2>1. k + 1 + i \in 1..(k + (l + 1)) /\ ~(k + 1 + i <= k) /\ (k + 1 + i) - k = i + 1
    OBVIOUS
  <2>2. QED BY <1>5, <1>6, <2>1
<1>9. ASSUME NEW j \in (k + 1 + 1)..Len(s) PROVE s[j] # "/"
  <2>1. j - k - 1 \in 1..l /\ k + 1 + (j - k - 1) = j
    BY <1>6
  <2>2. s[j] \in PartChars
    BY <1>4, <1>8, <2>1
  <2>3. QED BY <2>2, PartFacts
<1>10. RFind(s) = k + 1
  BY <1>7, <1>9, RFindIs DEF String
<1>11. SubSeq(s, 1, k) = a
  <2>1. \A i \in 1..k : s[i] = a[i] /\ a[i] \in PathChars
    BY <1>3, <1>6, ElementOfSeq DEF String
  <2>2. /\ SubSeq(s, 1, k) \in Seq(PathChars) /\ Len(SubSeq(s, 1, k)) = k
        /\ \A i \in 1..k : SubSeq(s, 1, k)[i] = s[i]
    BY <2>1, SubSeqProperties
  <2>3. QED BY <1>3, <2>1, <2>2, SeqEqual DEF String
<1>12. SubSeq(s, k + 2, Len(s)) = n
  <2>1. PICK m \in Nat : m = Len(s) /\ m = k + (l + 1)
    BY <1>6
  <2>2. \A i \in (k + 2)..m : s[i] \in PathChars
    <3>1. \A i \in (k + 2)..m : i \in 1..Len(s)
      BY <2>1
    <3>2. QED BY <3>1, ElementOfSeq
  <2>3. PICK c : c = SubSeq(s, k + 2, m)
    OBVIOUS
  <2>4. /\ c \in Seq(PathChars) /\ Len(c) = (IF k + 2 <= m THEN m - (k + 2) + 1 ELSE 0)
        /\ \A i \in 1..(m - (k + 2) + 1) : c[i] = s[k + 2 + i - 1]
    BY <2>2, <2>3, SubSeqProperties
  <2>5. Len(c) = l
    BY <2>1, <2>4
  <2>6. ASSUME NEW i \in 1..l PROVE c[i] = n[i]
    <3>1. i \in 1..(m - (k + 2) + 1) /\ k + 2 + i - 1 = k + 1 + i
      BY <2>1
    <3>2. QED BY <1>8, <2>4, <3>1
  <2>7. c = n
    BY <1>3, <1>4, <2>4, <2>5, <2>6, SeqEqual
  <2>8. QED BY <2>1, <2>3, <2>7
<1>13. a # <<>> => s[1] = a[1]
  <2>1. a # <<>> => k # 0
    BY <1>3, EmptySeq DEF String
  <2>2. QED BY <1>6, <2>1
<1>14. QED BY <1>1, <1>2, <1>3, <1>10, <1>11, <1>12, <1>13 DEF String

\* parent drops the last name.
LEMMA ParentIsFront ==
    ASSUME NEW ns \in Seq(Names), ns # <<>>
    PROVE  ParentOf(Render(ns)) = Render(Front(ns)) /\ FileName(Render(ns)) = Last(ns)
<1>1. PICK a \in String : a = Joined(Front(ns))
  BY JoinedLast, JoinedType, NameParts
<1>2. PICK n \in Part : n = Last(ns)
  BY JoinedLast, PartFacts
<1>3. PICK s : s = Joined(ns) /\ s = a \o (Slash \o n)
  BY <1>1, <1>2, JoinedLast
<1>4. Len(a) \in Nat /\ Len(s) \in Nat
  BY <1>3, CutLast, LenProperties DEF String
<1>5. RFind(s) = Len(a) + 1 /\ SubSeq(s, 1, Len(a)) = a /\ SubSeq(s, Len(a) + 2, Len(s)) = n
  BY <1>3, CutLast
<1>6. s # Slash /\ Render(ns) = s
  BY <1>3, JoinedIsNotSlash DEF Render
<1>7. FileName(s) = n
  <2>1. RFind(s) + 1 = Len(a) + 2
    BY <1>4, <1>5
  <2>2. QED BY <1>5, <1>6, <2>1 DEF FileName
<1>8. ParentOf(s) = Render(Front(ns))
  <2>1. CASE Front(ns) = <<>>
    <3>1. Len(a) = 0
      BY <1>1, <2>1, JoinedEmpty
    <3>2. QED BY <1>5, <2>1, <3>1 DEF ParentOf, Render
  <2>2. CASE Front(ns) # <<>>
    <3>1. Len(a) >= 2
      BY <1>1, <2>2, JoinedLast, JoinedIsNotSlash
    <3>2. RFind(s) # 1 /\ RFind(s) - 1 = Len(a)
      BY <1>4, <1>5, <3>1
    <3>3. QED BY <1>1, <1>5, <2>2, <3>2 DEF ParentOf, Render
  <2>3. QED BY <2>1, <2>2
<1>9. QED BY <1>2, <1>6, <1>7, <1>8

----------------------------------------------------------------------------
(* What a path denotes *)

\* The sequence of names is one, and the string is its rendering.
PathInv == names \in Seq(Names) /\ path = Render(names)

LEMMA PartsFacts ==
    ASSUME NEW ps \in Parts
    PROVE  ps \in Seq(Part) /\ ps # <<>>
<1>1. ps # <<>> /\ ps \in BoundedSeq(Names \cup {<<>>, Dot, DotDot, BadName}, MaxParts)
  BY DEF Parts
<1>2. PICK m \in 0..MaxParts : ps \in [1..m -> Names \cup {<<>>, Dot, DotDot, BadName}]
  BY <1>1 DEF BoundedSeq, SeqOf
<1>3. Names \cup {<<>>, Dot, DotDot, BadName} \subseteq Part
  BY PartFacts
<1>4. m \in Nat
  BY <1>2, BoundAssumption
<1>5. ps \in Seq(Part)
  BY <1>2, <1>3, <1>4
<1>6. QED BY <1>1, <1>5

LEMMA PartsElements ==
    ASSUME NEW ps \in Parts, NEW i \in 1..Len(ps)
    PROVE  ps[i] \in Names \cup {<<>>, Dot, DotDot, BadName}
<1>1. ps \in BoundedSeq(Names \cup {<<>>, Dot, DotDot, BadName}, MaxParts)
  BY DEF Parts
<1>2. PICK m \in 0..MaxParts : ps \in [1..m -> Names \cup {<<>>, Dot, DotDot, BadName}]
  BY <1>1 DEF BoundedSeq, SeqOf
<1>3. Len(ps) \in Nat /\ DOMAIN ps = 1..Len(ps)
  BY PartsFacts, LenProperties
<1>4. i \in DOMAIN ps
  BY <1>3
<1>5. QED BY <1>2, <1>4

\* The names under a directory with the parts of a segment: accepted and
\* resolved, or rejected for a NUL.
LEMMA PushUnder ==
    ASSUME NEW ns \in Seq(Names), NEW ps \in Parts
    PROVE  /\ (\A i \in DOMAIN ps : ps[i] # BadName)
                => /\ Rendered(PushAll(ns \o ps)) = Render(Resolve(ns \o ps))
                   /\ Resolve(ns \o ps) \in Seq(Names)
           /\ (\E i \in DOMAIN ps : ps[i] = BadName)
                => Rendered(PushAll(ns \o ps)) = Invalid
<1>1. PICK q : q = ns \o ps
  OBVIOUS
<1>2. ns \in Seq(Part) /\ ps \in Seq(Part)
  BY NameParts, PartsFacts
<1>3. PICK k \in Nat, l \in Nat : k = Len(ns) /\ l = Len(ps)
  BY <1>2, LenProperties
<1>4. /\ q \in Seq(Part) /\ Len(q) = k + l /\ DOMAIN ps = 1..l
      /\ \A i \in 1..(k + l) : q[i] = IF i <= k THEN ns[i] ELSE ps[i - k]
  BY <1>1, <1>2, <1>3, ConcatProperties, LenProperties
<1>5. \A i \in 1..k : ns[i] \in Names
  BY <1>3, ElementOfSeq
<1>6. \A i \in 1..l : ps[i] \in Names \cup {<<>>, Dot, DotDot, BadName}
  BY <1>3, PartsElements
<1>7. \A n \in Names : IsName(n) /\ ~Contains(n, "NUL")
  BY NameAssumption DEF IsName, Dot, DotDot
<1>8. IsName(BadName) /\ Contains(BadName, "NUL")
  <2>1. Contains(BadName, "NUL")
    BY NameAssumption
  <2>2. ~Contains(<<>>, "NUL") /\ ~Contains(Dot, "NUL") /\ ~Contains(DotDot, "NUL")
    BY DEF Contains, Dot, DotDot
  <2>3. QED BY <2>1, <2>2 DEF IsName
<1>9. ASSUME \A i \in DOMAIN ps : ps[i] # BadName
      PROVE  /\ Rendered(PushAll(q)) = Render(Resolve(q))
             /\ Resolve(q) \in Seq(Names)
  <2>1. ASSUME NEW i \in 1..(k + l)
        PROVE  q[i] \in Names \cup {<<>>, Dot, DotDot}
    <3>1. CASE i <= k
      BY <1>4, <1>5, <3>1
    <3>2. CASE ~(i <= k)
      <4>1. i - k \in 1..l
        BY <3>2
      <4>2. QED BY <1>4, <1>6, <1>9, <3>2, <4>1
    <3>3. QED BY <3>1, <3>2
  <2>2. \A i \in 1..Len(q) : q[i] \in Good
    <3>1. Names \cup {<<>>, Dot, DotDot} \subseteq Good
      BY <1>7, PartFacts DEF Good, IsName
    <3>2. QED BY <1>4, <2>1, <3>1
  <2>3. q \in Seq(Good)
    <3>1. q = [i \in 1..Len(q) |-> q[i]] /\ Len(q) \in Nat
      BY <1>4, LenProperties
    <3>2. QED BY <2>2, <3>1
  <2>4. \A i \in 1..Len(q) : IsName(q[i]) => q[i] \in Names
    BY <1>4, <2>1 DEF IsName
  <2>5. QED BY <2>3, <2>4, PushResolves, ResolveType DEF Rendered
<1>10. ASSUME NEW i \in DOMAIN ps, ps[i] = BadName
       PROVE  Rendered(PushAll(q)) = Invalid
  <2>1. k + i \in 1..Len(q) /\ q[k + i] = BadName
    BY <1>4, <1>10
  <2>2. PushAll(q) = Rejected
    BY <1>4, <1>8, <2>1, PushBad
  <2>3. QED BY <2>2 DEF Rendered
<1>11. QED BY <1>1, <1>9, <1>10

LEMMA RenderValid ==
    ASSUME NEW ns \in Seq(Names)
    PROVE  Render(ns) # Invalid
<1>1. Render(ns) \in String
  BY RenderType
<1>2. Render(ns) # <<>> /\ Render(ns)[1] = "/"
  <2>1. CASE ns = <<>>
    BY <2>1 DEF Render, Slash
  <2>2. CASE ns # <<>>
    <3>1. PICK p \in Part, qs \in Seq(Part) :
            p \o Joined(qs) \in String /\ Joined(ns) = Slash \o (p \o Joined(qs))
      BY <2>2, JoinedHead, NameParts
    <3>2. QED BY <2>2, <3>1, SlashFirst DEF Render
  <2>3. QED BY <2>1, <2>2
<1>3. Invalid[1] = "invalid"
  BY DEF Invalid
<1>4. QED BY <1>2, <1>3

LEMMA PathInit == Init => PathInv
BY DEF Init, PathInv, Render

LEMMA NewStep ==
    ASSUME PathInv, New
    PROVE  PathInv'
<1>1. PICK ps \in Parts :
        /\ path' = LET p == Normalize(Text(ps)) IN IF p = Invalid THEN path ELSE p
        /\ names' = IF Valid(ps) THEN Resolve(ps) ELSE names
  BY DEF New
<1>2. ps \in Seq(Part) /\ ps # <<>>
  BY PartsFacts
<1>3. <<>> \in Seq(Names) /\ <<>> \o ps = ps
  BY <1>2, ConcatEmptySeq
<1>4. CASE ps = <<<<>>>>
  <2>1. Normalize(Text(ps)) = Invalid
    BY <1>2, <1>4, NormalizeText
  <2>2. ~Valid(ps)
    BY <1>4 DEF Valid
  <2>3. QED BY <1>1, <2>1, <2>2 DEF PathInv
<1>5. CASE ps # <<<<>>>>
  <2>1. Normalize(Text(ps)) = Rendered(PushAll(ps))
    BY <1>2, <1>5, NormalizeText
  <2>2. CASE Valid(ps)
    <3>1. Rendered(PushAll(ps)) = Render(Resolve(ps)) /\ Resolve(ps) \in Seq(Names)
      BY <1>3, <2>2, PushUnder DEF Valid
    <3>2. Render(Resolve(ps)) # Invalid
      BY <3>1, RenderValid
    <3>3. QED BY <1>1, <2>1, <2>2, <3>1, <3>2 DEF PathInv
  <2>3. CASE ~Valid(ps)
    <3>1. Rendered(PushAll(ps)) = Invalid
      BY <1>3, <1>5, <2>3, PushUnder DEF Valid
    <3>2. QED BY <1>1, <2>1, <2>3, <3>1 DEF PathInv
  <2>4. QED BY <2>2, <2>3
<1>6. QED BY <1>4, <1>5

LEMMA ParentStep ==
    ASSUME PathInv, Parent
    PROVE  PathInv'
<1>1. names # <<>>
  BY DEF PathInv, Parent, Render
<1>2. Front(names) \in Seq(Names) /\ ParentOf(Render(names)) = Render(Front(names))
  BY <1>1, JoinedLast, ParentIsFront DEF PathInv
<1>3. QED BY <1>2 DEF PathInv, Parent

LEMMA JoinStep ==
    ASSUME PathInv, Join
    PROVE  PathInv'
<1>1. PICK ps \in Parts :
        /\ path' = LET p == JoinOf(path, Text(ps)) IN IF p = Invalid THEN path ELSE p
        /\ names' = IF Valid(ps) \/ ps = <<<<>>>> THEN Resolve(names \o ps) ELSE names
  BY DEF Join
<1>2. ps \in Seq(Part) /\ ps # <<>>
  BY PartsFacts
<1>3. PICK ns \in Seq(Names) : ns = names /\ path = Render(ns)
  BY DEF PathInv
<1>4. JoinOf(path, Text(ps)) = Rendered(PushAll(ns \o ps))
  BY <1>2, <1>3, NormalizeJoin
<1>5. CASE Valid(ps) \/ ps = <<<<>>>>
  <2>1. \A i \in DOMAIN ps : ps[i] # BadName
    <3>1. <<>> # BadName
      BY NameAssumption DEF Contains
    <3>2. QED BY <1>5, <3>1 DEF Valid
  <2>2. Rendered(PushAll(ns \o ps)) = Render(Resolve(ns \o ps)) /\ Resolve(ns \o ps) \in Seq(Names)
    BY <2>1, PushUnder
  <2>3. Render(Resolve(ns \o ps)) # Invalid
    BY <2>2, RenderValid
  <2>4. QED BY <1>1, <1>3, <1>4, <1>5, <2>2, <2>3 DEF PathInv
<1>6. CASE ~(Valid(ps) \/ ps = <<<<>>>>)
  <2>1. \E i \in DOMAIN ps : ps[i] = BadName
    BY <1>6 DEF Valid
  <2>2. Rendered(PushAll(ns \o ps)) = Invalid
    BY <2>1, PushUnder
  <2>3. QED BY <1>1, <1>3, <1>4, <1>6, <2>2 DEF PathInv
<1>7. QED BY <1>5, <1>6

LEMMA PathStep ==
    ASSUME PathInv, [Next]_vars
    PROVE  PathInv'
<1>1. CASE UNCHANGED vars
  BY <1>1 DEF PathInv, vars
<1>2. QED BY <1>1, NewStep, ParentStep, JoinStep DEF Next

LEMMA PathAlways == Spec => []PathInv
<1>1. QED BY PathInit, PathStep, PTL DEF Spec

\* new, parent and join give the string of exactly the names their input
\* stands for, in the one normal form: for any names, at any depth, from
\* strings of any length.
THEOREM PathDenotes == Spec => []PathDenotesNames
<1>1. PathInv => PathDenotesNames
  <2>1. ASSUME PathInv PROVE PathDenotesNames
    BY <2>1, RenderNormal, ParentIsFront DEF PathInv, PathDenotesNames
  <2>2. QED BY <2>1
<1>2. QED BY <1>1, PathAlways, PTL

----------------------------------------------------------------------------
(* LIKE *)

\* One position of Like's pattern.
RestAt(s, pattern, j, after, escaped) ==
    LET c == pattern[j]
    IN  CASE c = "%"  -> {i \in 1..(Len(s) + 1) : \E k \in after : i <= k}
          [] c = "_"  -> {i \in DOMAIN s : i + 1 \in after}
          [] c = "\\" -> {i \in DOMAIN s : /\ j < Len(pattern)
                                           /\ Fold(s[i]) = Fold(pattern[j + 1])
                                           /\ i + 1 \in escaped}
          [] OTHER    -> {i \in DOMAIN s : Fold(s[i]) = Fold(c) /\ i + 1 \in after}

\* r satisfies the defining equation of the matches of pattern from m on.
RestFrom(r, s, pattern, m) ==
    r = [j \in m..(Len(pattern) + 1) |->
          IF j > Len(pattern) THEN {Len(s) + 1}
          ELSE RestAt(s, pattern, j, r[j + 1], r[j + 2])]

LEMMA LikeUnfold ==
    ASSUME NEW s, NEW pattern
    PROVE  Like(s, pattern) = (1 \in (CHOOSE r : RestFrom(r, s, pattern, 1))[1])
BY DEF Like, RestFrom, RestAt

\* Nothing is escaped by the last character.
LEMMA RestAtLast ==
    ASSUME NEW s, NEW pattern, NEW after, NEW e1, NEW e2
    PROVE  RestAt(s, pattern, Len(pattern), after, e1) = RestAt(s, pattern, Len(pattern), after, e2)
<1>1. ~(Len(pattern) < Len(pattern))
  OBVIOUS
<1>2. QED BY <1>1 DEF RestAt

LEMMA RestExtends ==
    ASSUME NEW A, NEW s, NEW pattern \in Seq(A), NEW m \in 1..Len(pattern), NEW r,
           RestFrom(r, s, pattern, m + 1)
    PROVE  \E h : RestFrom(h, s, pattern, m)
<1>1. PICK n \in Nat : n = Len(pattern)
  BY LenProperties
<1>2. PICK h : h = [j \in m..(n + 1) |->
                      IF j = m THEN RestAt(s, pattern, m, r[m + 1], r[m + 2]) ELSE r[j]]
  OBVIOUS
<1>3. /\ h[m] = RestAt(s, pattern, m, r[m + 1], r[m + 2])
      /\ \A j \in (m + 1)..(n + 1) : h[j] = r[j]
  BY <1>1, <1>2
<1>4. \A j \in (m + 1)..(n + 1) :
        r[j] = IF j > n THEN {Len(s) + 1} ELSE RestAt(s, pattern, j, r[j + 1], r[j + 2])
  BY <1>1 DEF RestFrom
<1>5. ASSUME NEW j \in m..n
      PROVE  RestAt(s, pattern, j, r[j + 1], r[j + 2]) = RestAt(s, pattern, j, h[j + 1], h[j + 2])
  <2>1. h[j + 1] = r[j + 1]
    BY <1>1, <1>3
  <2>2. CASE j = n
    BY <1>1, <2>1, <2>2, RestAtLast
  <2>3. CASE j # n
    <3>1. h[j + 2] = r[j + 2]
      BY <1>1, <1>3, <2>3
    <3>2. QED BY <2>1, <3>1
  <2>4. QED BY <2>2, <2>3
<1>6. ASSUME NEW j \in m..(n + 1)
      PROVE  h[j] = IF j > n THEN {Len(s) + 1} ELSE RestAt(s, pattern, j, h[j + 1], h[j + 2])
  <2>1. CASE j = m
    BY <1>1, <1>3, <1>5, <2>1
  <2>2. CASE j # m
    <3>1. j \in (m + 1)..(n + 1) /\ h[j] = r[j]
      BY <1>1, <1>3, <2>2
    <3>2. h[j] = IF j > n THEN {Len(s) + 1} ELSE RestAt(s, pattern, j, r[j + 1], r[j + 2])
      BY <1>4, <3>1
    <3>3. ~(j > n) => j \in m..n
      BY <1>1
    <3>4. ~(j > n) => h[j] = RestAt(s, pattern, j, h[j + 1], h[j + 2])
      BY <1>5, <3>2, <3>3
    <3>5. QED BY <3>2, <3>4
  <2>3. QED BY <2>1, <2>2
<1>7. h = [j \in m..(n + 1) |->
            IF j > n THEN {Len(s) + 1} ELSE RestAt(s, pattern, j, h[j + 1], h[j + 2])]
  BY <1>2, <1>6
<1>8. QED BY <1>1, <1>7 DEF RestFrom

\* The matches of a pattern, at every position.
IsRest(r, s, pattern) ==
    \A j \in 1..(Len(pattern) + 1) :
      r[j] = IF j > Len(pattern) THEN {Len(s) + 1} ELSE RestAt(s, pattern, j, r[j + 1], r[j + 2])

\* What LIKE computes, and whether it matches.
LEMMA LikeRest ==
    ASSUME NEW A, NEW s, NEW pattern \in Seq(A)
    PROVE  \E r : Like(s, pattern) = (1 \in r[1]) /\ IsRest(r, s, pattern)
<1>1. PICK n \in Nat : n = Len(pattern)
  BY LenProperties
<1> DEFINE C == {k \in Nat : k <= n => \E r : RestFrom(r, s, pattern, n + 1 - k)}
<1>2. 0 \in C
  <2>1. PICK r : r = [j \in (n + 1)..(n + 1) |-> {Len(s) + 1}]
    OBVIOUS
  <2>2. r = [j \in (n + 1)..(n + 1) |->
               IF j > n THEN {Len(s) + 1} ELSE RestAt(s, pattern, j, r[j + 1], r[j + 2])]
    BY <2>1
  <2>3. RestFrom(r, s, pattern, n + 1)
    BY <1>1, <2>2 DEF RestFrom
  <2>4. n + 1 - 0 = n + 1
    OBVIOUS
  <2>5. QED BY <2>3, <2>4
<1>3. ASSUME NEW k \in Nat, k \in C PROVE k + 1 \in C
  <2>0. k + 1 \in Nat
    OBVIOUS
  <2>1. SUFFICES ASSUME k + 1 <= n PROVE \E r : RestFrom(r, s, pattern, n + 1 - (k + 1))
    BY <2>0
  <2>2. PICK r : RestFrom(r, s, pattern, n + 1 - k)
    BY <1>3, <2>1
  <2>3. PICK m \in 1..n : m = n + 1 - (k + 1) /\ m + 1 = n + 1 - k
    BY <2>1
  <2>4. QED BY <1>1, <2>2, <2>3, RestExtends
<1>4. Nat \subseteq C
  <2> HIDE DEF C
  <2>1. QED BY <1>2, <1>3, SetNatInduction
<1>5. \E r : RestFrom(r, s, pattern, 1)
  <2>1. n \in C
    <3> HIDE DEF C
    <3>1. QED BY <1>4
  <2>2. n <= n /\ n + 1 - n = 1
    OBVIOUS
  <2>3. \E r : RestFrom(r, s, pattern, n + 1 - n)
    BY <2>1, <2>2
  <2>4. QED BY <2>2, <2>3
<1>6. PICK r : r = (CHOOSE x : RestFrom(x, s, pattern, 1)) /\ RestFrom(r, s, pattern, 1)
  BY <1>5
<1>7. Like(s, pattern) = (1 \in r[1])
  BY <1>6, LikeUnfold
<1>8. IsRest(r, s, pattern)
  BY <1>6 DEF RestFrom, IsRest
<1>9. QED BY <1>7, <1>8

\* What escape_like does to a character.
PatternChars == PathChars \cup {"\\", "%", "_"}
EscF == [c \in PathChars |-> IF c \in {"\\", "%", "_"} THEN <<"\\", c>> ELSE <<c>>]

LEMMA EscapeIsTranslated ==
    /\ EscF \in [PathChars -> Seq(PatternChars)]
    /\ \A s \in Seq(PathChars) : EscapeLike(s) = Translated(EscF, s)
<1>1. ASSUME NEW c \in PathChars
      PROVE  (IF c \in {"\\", "%", "_"} THEN <<"\\", c>> ELSE <<c>>) \in Seq(PatternChars)
  <2>1. c \in PatternChars /\ "\\" \in PatternChars
    BY DEF PatternChars
  <2>2. <<"\\", c>> \in Seq(PatternChars) /\ <<c>> \in Seq(PatternChars)
    BY <2>1
  <2>3. QED BY <2>2
<1>2. ASSUME NEW s \in Seq(PathChars) PROVE EscapeLike(s) = Translated(EscF, s)
  <2>1. \A i \in DOMAIN s : s[i] \in PathChars
    BY ElementOfSeq, LenProperties
  <2>2. \A i \in DOMAIN s : EscF[s[i]] = IF s[i] \in {"\\", "%", "_"} THEN <<"\\", s[i]>> ELSE <<s[i]>>
    BY <2>1 DEF EscF
  <2>3. [i \in DOMAIN s |-> IF s[i] \in {"\\", "%", "_"} THEN <<"\\", s[i]>> ELSE <<s[i]>>]
          = [i \in DOMAIN s |-> EscF[s[i]]]
    BY <2>2
  <2>4. QED BY <2>3 DEF EscapeLike, Translated, Mapped
<1>3. QED BY <1>1, <1>2 DEF EscF

LEMMA EscapeFacts ==
    /\ EscapeLike(<<>>) = <<>>
    /\ \A s \in Seq(PathChars) : EscapeLike(s) \in Seq(PatternChars)
    /\ \A s \in Seq(PathChars), c \in PathChars :
         EscapeLike(Append(s, c)) = EscapeLike(s) \o EscF[c]
<1>1. <<>> \in Seq(PathChars)
  OBVIOUS
<1>2. EscapeLike(<<>>) = <<>>
  BY <1>1, EscapeIsTranslated, TranslatedFacts
<1>3. \A s \in Seq(PathChars) : EscapeLike(s) \in Seq(PatternChars)
  BY EscapeIsTranslated, TranslatedFacts
<1>4. ASSUME NEW s \in Seq(PathChars), NEW c \in PathChars
      PROVE  EscapeLike(Append(s, c)) = EscapeLike(s) \o EscF[c]
  <2>1. Append(s, c) \in Seq(PathChars)
    BY AppendProperties
  <2>2. Translated(EscF, Append(s, c)) = Translated(EscF, s) \o EscF[c]
    BY EscapeIsTranslated, TranslatedFacts
  <2>3. QED BY <2>1, <2>2, EscapeIsTranslated
<1>5. QED BY <1>2, <1>3, <1>4

\* s begins with d, but for the case of letters.
FoldPrefix(s, d) == \A k \in 1..Len(d) : k \in DOMAIN s /\ Fold(s[k]) = Fold(d[k])

\* f stands in p after m characters.
StandsAt(f, p, m) == m + Len(f) <= Len(p) /\ \A k \in 1..Len(f) : p[m + k] = f[k]

\* The pattern f after m characters takes the character c from s.
TakesOne(r, s, c, m, f) ==
    \A i \in Nat : i \in r[m + 1] <=> /\ i \in DOMAIN s /\ Fold(s[i]) = Fold(c)
                                      /\ i + 1 \in r[m + Len(f) + 1]

\* An escaped character matches itself.
LEMMA EscapedMatch ==
    ASSUME NEW s, NEW c \in PathChars, NEW f, f = EscF[c],
           NEW p \in Seq(PatternChars), NEW m \in Nat, StandsAt(f, p, m),
           NEW r, IsRest(r, s, p)
    PROVE  TakesOne(r, s, c, m, f)
<1>0. SUFFICES ASSUME NEW i \in Nat
               PROVE  i \in r[m + 1] <=> /\ i \in DOMAIN s /\ Fold(s[i]) = Fold(c)
                                         /\ i + 1 \in r[m + Len(f) + 1]
  BY DEF TakesOne
<1>1. PICK n \in Nat : n = Len(p)
  BY LenProperties
<1>2. CASE c \in {"\\", "%", "_"}
  <2>1. EscF[c] = <<"\\", c>>
    BY <1>2 DEF EscF
  <2>2. Len(f) = 2 /\ f[1] = "\\" /\ f[2] = c
    BY <2>1
  <2>3. p[m + 1] = "\\" /\ p[m + 2] = c /\ m + 2 <= n
    BY <1>1, <2>2 DEF StandsAt
  <2>4. r[m + 1] = RestAt(s, p, m + 1, r[(m + 1) + 1], r[(m + 1) + 2])
    BY <1>1, <2>3 DEF IsRest
  <2>5. PICK e : e = r[(m + 1) + 2]
    OBVIOUS
  <2>6. r[m + 1] = {k \in DOMAIN s : /\ m + 1 < n /\ Fold(s[k]) = Fold(p[(m + 1) + 1]) /\ k + 1 \in e}
    BY <1>1, <2>3, <2>4, <2>5 DEF RestAt
  <2>7. m + 1 < n /\ (m + 1) + 1 = m + 2 /\ (m + 1) + 2 = m + 2 + 1
    BY <1>1, <2>3
  <2>8. QED BY <2>2, <2>3, <2>5, <2>6, <2>7
<1>3. CASE c \notin {"\\", "%", "_"}
  <2>1. EscF[c] = <<c>>
    BY <1>3 DEF EscF
  <2>2. Len(f) = 1 /\ f[1] = c
    BY <2>1
  <2>3. p[m + 1] = c /\ m + 1 <= n
    BY <1>1, <2>2 DEF StandsAt
  <2>4. r[m + 1] = RestAt(s, p, m + 1, r[(m + 1) + 1], r[(m + 1) + 2])
    BY <1>1, <2>3 DEF IsRest
  <2>5. r[m + 1] = {k \in DOMAIN s : Fold(s[k]) = Fold(c) /\ k + 1 \in r[(m + 1) + 1]}
    BY <1>3, <2>3, <2>4 DEF RestAt
  <2>6. QED BY <2>2, <2>5
<1>4. QED BY <1>2, <1>3

\* An escaped string matches itself at the start of s; what is left of the
\* pattern is matched with what is left of s.
LEMMA LikePrefix ==
    ASSUME NEW s
    PROVE  \A d \in Seq(PathChars) : \A t \in Seq(PatternChars) : \A r :
             IsRest(r, s, EscapeLike(d) \o t)
               => (1 \in r[1] <=> /\ FoldPrefix(s, d)
                                  /\ Len(d) + 1 \in r[Len(EscapeLike(d)) + 1])
<1> DEFINE C == {d \in Seq(PathChars) : \A t \in Seq(PatternChars) : \A r :
                    IsRest(r, s, EscapeLike(d) \o t)
                      => (1 \in r[1] <=> /\ FoldPrefix(s, d)
                                         /\ Len(d) + 1 \in r[Len(EscapeLike(d)) + 1])}
<1>1. <<>> \in C
  <2>1. PICK z \in Seq(PathChars) : z = <<>> /\ Len(z) = 0
    BY EmptySeq
  <2>2. FoldPrefix(s, z)
    BY <2>1 DEF FoldPrefix
  <2>3. EscapeLike(z) = z
    BY <2>1, EscapeFacts
  <2>4. z \in C
    BY <2>1, <2>2, <2>3
  <2>5. QED BY <2>1, <2>4
<1>2. ASSUME NEW d \in Seq(PathChars), NEW c \in PathChars, d \in C PROVE Append(d, c) \in C
  <2>1. PICK x \in Seq(PathChars) : x = Append(d, c)
    BY AppendProperties
  <2>2. PICK n \in Nat : n = Len(d)
    BY LenProperties
  <2>3. Len(x) = n + 1 /\ x[n + 1] = c /\ \A k \in 1..n : x[k] = d[k]
    BY <2>1, <2>2, AppendProperties
  <2>4. PICK e \in Seq(PatternChars), f \in Seq(PatternChars), g \in Seq(PatternChars) :
          e = EscapeLike(d) /\ f = EscF[c] /\ g = EscapeLike(x) /\ g = e \o f
    <3>1. EscapeLike(d) \in Seq(PatternChars) /\ EscapeLike(x) \in Seq(PatternChars)
      BY EscapeFacts
    <3>2. EscF[c] \in Seq(PatternChars)
      BY EscapeIsTranslated
    <3>3. EscapeLike(x) = EscapeLike(d) \o EscF[c]
      BY <2>1, EscapeFacts
    <3>4. QED BY <3>1, <3>2, <3>3
  <2>5. PICK m \in Nat, l \in Nat : m = Len(e) /\ l = Len(f)
    BY LenProperties
  <2>6. Len(g) = m + l
    BY <2>4, <2>5, ConcatProperties
  <2>7. ASSUME NEW t \in Seq(PatternChars), NEW r, IsRest(r, s, EscapeLike(x) \o t)
        PROVE  1 \in r[1] <=> FoldPrefix(s, x) /\ Len(x) + 1 \in r[Len(EscapeLike(x)) + 1]
    <3>1. PICK u \in Seq(PatternChars) : u = f \o t
      BY ConcatProperties
    <3>2. PICK p \in Seq(PatternChars) : p = g \o t /\ p = e \o u
      <4>1. (e \o f) \o t = e \o (f \o t)
        BY ConcatAssociative
      <4>2. g \o t \in Seq(PatternChars)
        BY ConcatProperties
      <4>3. QED BY <2>4, <3>1, <4>1, <4>2
    <3>3. IsRest(r, s, p) /\ IsRest(r, s, EscapeLike(d) \o u)
      BY <2>4, <2>7, <3>2
    <3>4. 1 \in r[1] <=> FoldPrefix(s, d) /\ n + 1 \in r[m + 1]
      BY <1>2, <2>2, <2>4, <2>5, <3>3
    <3>5. PICK v \in Nat : v = Len(t)
      BY LenProperties
    <3>6. Len(u) = l + v /\ \A k \in 1..l : u[k] = f[k]
      BY <2>5, <3>1, <3>5, ConcatProperties
    <3>7. Len(p) = m + (l + v) /\ \A k \in 1..(l + v) : p[m + k] = u[k]
      <4>1. /\ Len(p) = Len(e) + Len(u)
            /\ \A i \in 1..(Len(e) + Len(u)) : p[i] = IF i <= Len(e) THEN e[i] ELSE u[i - Len(e)]
        BY <3>2, ConcatProperties
      <4>2. ASSUME NEW k \in 1..(l + v) PROVE p[m + k] = u[k]
        <5>1. m + k \in 1..(Len(e) + Len(u)) /\ ~(m + k <= Len(e)) /\ (m + k) - Len(e) = k
          BY <2>5, <3>5, <3>6
        <5>2. QED BY <4>1, <5>1
      <4>3. QED BY <2>5, <3>6, <4>1, <4>2
    <3>8. StandsAt(f, p, m)
      <4>1. \A k \in 1..l : k \in 1..(l + v)
        BY <2>5, <3>5
      <4>2. QED BY <2>5, <3>5, <3>6, <3>7, <4>1 DEF StandsAt
    <3>9. n + 1 \in r[m + 1] <=> /\ n + 1 \in DOMAIN s /\ Fold(s[n + 1]) = Fold(c)
                                 /\ (n + 1) + 1 \in r[m + l + 1]
      <4>1. f = EscF[c]
        BY <2>4
      <4>2. TakesOne(r, s, c, m, f)
        BY <3>3, <3>8, <4>1, EscapedMatch
      <4>3. n + 1 \in Nat
        OBVIOUS
      <4>4. QED BY <2>5, <4>2, <4>3 DEF TakesOne
    <3>10. FoldPrefix(s, x) <=> FoldPrefix(s, d) /\ n + 1 \in DOMAIN s /\ Fold(s[n + 1]) = Fold(c)
      <4>1. FoldPrefix(s, x)
              <=> \A k \in 1..(n + 1) : k \in DOMAIN s /\ Fold(s[k]) = Fold(x[k])
        BY <2>3 DEF FoldPrefix
      <4>2. FoldPrefix(s, d) <=> \A k \in 1..n : k \in DOMAIN s /\ Fold(s[k]) = Fold(x[k])
        BY <2>2, <2>3 DEF FoldPrefix
      <4>3. 1..(n + 1) = (1..n) \cup {n + 1}
        OBVIOUS
      <4>4. QED BY <2>3, <4>1, <4>2, <4>3
    <3>11. Len(x) + 1 = (n + 1) + 1 /\ Len(EscapeLike(x)) + 1 = m + l + 1
      BY <2>3, <2>4, <2>6
    <3>12. QED BY <3>4, <3>9, <3>10, <3>11
  <2>8. QED BY <2>1, <2>7
<1>3. Seq(PathChars) \subseteq C
  <2> HIDE DEF C
  <2>1. QED BY <1>1, <1>2, SeqInduction
<1>4. QED BY <1>3

\* What comes before the name of a child of the directory of these names.
LEMMA RenderSlash ==
    ASSUME NEW ns \in Seq(Names)
    PROVE  (IF Render(ns) = Slash THEN Slash ELSE Render(ns) \o Slash) = Joined(ns) \o Slash
<1>1. CASE ns = <<>>
  <2>1. <<>> \o Slash = Slash
    BY PartFacts, ConcatEmptySeq DEF String
  <2>2. QED BY <1>1, <2>1, JoinedEmpty DEF Render
<1>2. CASE ns # <<>>
  BY <1>2, JoinedIsNotSlash DEF Render
<1>3. QED BY <1>1, <1>2

LEMMA FoldSlash == \A c : Fold(c) = Fold("/") <=> c = "/"
BY DEF Fold

LEMMA FoldPrefixFits ==
    ASSUME NEW s \in Seq(PathChars), NEW d \in Seq(PathChars), FoldPrefix(s, d)
    PROVE  Len(d) <= Len(s)
<1>1. PICK n \in Nat, l \in Nat : n = Len(d) /\ l = Len(s) /\ DOMAIN s = 1..l
  BY LenProperties
<1>2. CASE n = 0
  BY <1>1, <1>2
<1>3. CASE n # 0
  <2>1. n \in 1..Len(d)
    BY <1>1, <1>3
  <2>2. n \in DOMAIN s
    BY <2>1 DEF FoldPrefix
  <2>3. QED BY <1>1, <2>2
<1>4. QED BY <1>2, <1>3

\* The matches r of a pattern that ends, after m characters, in t.
IsTailRest(r, m, s, t) ==
    /\ r[m + Len(t) + 1] = {Len(s) + 1}
    /\ \A k \in 1..Len(t) :
         /\ t[k] = "%" => r[m + k] = {i \in 1..(Len(s) + 1) : \E j \in r[m + k + 1] : i <= j}
         /\ t[k] = "/" => r[m + k] = {i \in 1..Len(s) : s[i] = "/" /\ i + 1 \in r[m + k + 1]}

\* The matches of a pattern that starts with an escaped string.
LEMMA LikeTail ==
    ASSUME NEW s \in Seq(PathChars), NEW d \in Seq(PathChars), NEW t \in Seq(PatternChars)
    PROVE  \E m \in Nat : \E r :
             /\ IsTailRest(r, m, s, t)
             /\ Like(s, EscapeLike(d) \o t) <=> FoldPrefix(s, d) /\ Len(d) + 1 \in r[m + 1]
<1>1. PICK e \in Seq(PatternChars) : e = EscapeLike(d)
  BY EscapeFacts
<1>2. PICK p \in Seq(PatternChars) : p = e \o t
  BY ConcatProperties
<1>3. PICK m \in Nat, v \in Nat, l \in Nat : m = Len(e) /\ v = Len(t) /\ l = Len(s) /\ DOMAIN s = 1..l
  BY LenProperties
<1>4. Len(p) = m + v /\ \A k \in 1..v : p[m + k] = t[k]
  <2>1. /\ Len(p) = Len(e) + Len(t)
        /\ \A i \in 1..(Len(e) + Len(t)) : p[i] = IF i <= Len(e) THEN e[i] ELSE t[i - Len(e)]
    BY <1>2, ConcatProperties
  <2>2. ASSUME NEW k \in 1..v PROVE p[m + k] = t[k]
    <3>1. m + k \in 1..(Len(e) + Len(t)) /\ ~(m + k <= Len(e)) /\ (m + k) - Len(e) = k
      BY <1>3
    <3>2. QED BY <2>1, <3>1
  <2>3. QED BY <1>3, <2>1, <2>2
<1>5. PICK r : Like(s, p) = (1 \in r[1]) /\ IsRest(r, s, p)
  BY LikeRest
<1>6. Like(s, p) <=> FoldPrefix(s, d) /\ Len(d) + 1 \in r[m + 1]
  <2>1. IsRest(r, s, EscapeLike(d) \o t)
    BY <1>1, <1>2, <1>5
  <2>2. 1 \in r[1] <=> FoldPrefix(s, d) /\ Len(d) + 1 \in r[Len(EscapeLike(d)) + 1]
    BY <2>1, LikePrefix
  <2>3. QED BY <1>1, <1>3, <1>5, <2>2
<1>7. r[m + v + 1] = {l + 1}
  <2>1. m + v + 1 \in 1..(Len(p) + 1) /\ m + v + 1 > Len(p)
    BY <1>4
  <2>2. QED BY <1>3, <1>5, <2>1 DEF IsRest
<1>8. ASSUME NEW k \in 1..v
      PROVE  /\ t[k] = "%" => r[m + k] = {i \in 1..(l + 1) : \E j \in r[m + k + 1] : i <= j}
             /\ t[k] = "/" => r[m + k] = {i \in 1..l : s[i] = "/" /\ i + 1 \in r[m + k + 1]}
  <2>1. m + k \in 1..(Len(p) + 1) /\ ~(m + k > Len(p)) /\ (m + k) + 1 = m + k + 1 /\ p[m + k] = t[k]
    BY <1>3, <1>4
  <2>2. r[m + k] = RestAt(s, p, m + k, r[m + k + 1], r[(m + k) + 2])
    BY <1>5, <2>1 DEF IsRest
  <2>3. CASE t[k] = "%"
    BY <1>3, <2>1, <2>2, <2>3 DEF RestAt
  <2>4. CASE t[k] = "/"
    <3>1. r[m + k] = {i \in DOMAIN s : Fold(s[i]) = Fold("/") /\ i + 1 \in r[m + k + 1]}
      BY <2>1, <2>2, <2>4 DEF RestAt
    <3>2. QED BY <1>3, <2>4, <3>1, FoldSlash
  <2>5. QED BY <2>3, <2>4
<1>9. IsTailRest(r, m, s, t)
  BY <1>3, <1>7, <1>8 DEF IsTailRest
<1>10. QED BY <1>1, <1>2, <1>6, <1>9

LEMMA LikeAny ==
    ASSUME NEW s \in Seq(PathChars), NEW d \in Seq(PathChars)
    PROVE  Like(s, EscapeLike(d) \o <<"%">>) <=> FoldPrefix(s, d)
<1>1. PICK t \in Seq(PatternChars) : t = <<"%">> /\ Len(t) = 1 /\ t[1] = "%"
  <2>1. "%" \in PatternChars
    BY DEF PatternChars
  <2>2. <<"%">> \in Seq(PatternChars)
    BY <2>1
  <2>3. QED BY <2>2
<1>0. PICK m \in Nat : \E r :
        /\ IsTailRest(r, m, s, t)
        /\ Like(s, EscapeLike(d) \o t) <=> FoldPrefix(s, d) /\ Len(d) + 1 \in r[m + 1]
  BY LikeTail
<1>2. PICK r :
        /\ IsTailRest(r, m, s, t)
        /\ Like(s, EscapeLike(d) \o t) <=> FoldPrefix(s, d) /\ Len(d) + 1 \in r[m + 1]
  BY <1>0
<1>3. r[m + 1] = {i \in 1..(Len(s) + 1) : \E j \in {Len(s) + 1} : i <= j}
  <2>1. 1 \in 1..Len(t) /\ m + Len(t) + 1 = m + 1 + 1
    BY <1>1
  <2>2. QED BY <1>1, <1>2, <2>1 DEF IsTailRest
<1>4. Len(d) \in Nat /\ Len(s) \in Nat
  BY LenProperties
<1>5. FoldPrefix(s, d) => Len(d) + 1 \in r[m + 1]
  BY <1>3, <1>4, FoldPrefixFits
<1>6. QED BY <1>1, <1>2, <1>5

LEMMA LikeSlash ==
    ASSUME NEW s \in Seq(PathChars), NEW d \in Seq(PathChars)
    PROVE  Like(s, EscapeLike(d) \o <<"%", "/", "%">>)
             <=> FoldPrefix(s, d) /\ \E i \in (Len(d) + 1)..Len(s) : s[i] = "/"
<1>1. PICK t \in Seq(PatternChars) :
        t = <<"%", "/", "%">> /\ Len(t) = 3 /\ t[1] = "%" /\ t[2] = "/" /\ t[3] = "%"
  <2>1. "%" \in PatternChars /\ "/" \in PatternChars
    BY DEF PatternChars, PathChars
  <2>2. <<"%", "/", "%">> \in Seq(PatternChars)
    BY <2>1
  <2>3. QED BY <2>2
<1>0. PICK m \in Nat : \E r :
        /\ IsTailRest(r, m, s, t)
        /\ Like(s, EscapeLike(d) \o t) <=> FoldPrefix(s, d) /\ Len(d) + 1 \in r[m + 1]
  BY LikeTail
<1>2. PICK r :
        /\ IsTailRest(r, m, s, t)
        /\ Like(s, EscapeLike(d) \o t) <=> FoldPrefix(s, d) /\ Len(d) + 1 \in r[m + 1]
  BY <1>0
<1>3. PICK n \in Nat, l \in Nat : n = Len(d) /\ l = Len(s)
  BY LenProperties
<1>4. r[m + 4] = {l + 1}
  <2>1. m + Len(t) + 1 = m + 4
    BY <1>1
  <2>2. r[m + Len(t) + 1] = {Len(s) + 1}
    BY <1>2 DEF IsTailRest
  <2>3. QED BY <1>3, <2>1, <2>2
<1>5. r[m + 3] = {i \in 1..(l + 1) : \E j \in r[m + 4] : i <= j}
  <2>1. 3 \in 1..Len(t) /\ m + 3 + 1 = m + 4
    BY <1>1
  <2>2. QED BY <1>1, <1>2, <1>3, <2>1 DEF IsTailRest
<1>6. r[m + 2] = {i \in 1..l : s[i] = "/" /\ i + 1 \in r[m + 3]}
  <2>1. 2 \in 1..Len(t) /\ m + 2 + 1 = m + 3
    BY <1>1
  <2>2. QED BY <1>1, <1>2, <1>3, <2>1 DEF IsTailRest
<1>7. r[m + 1] = {i \in 1..(l + 1) : \E j \in r[m + 2] : i <= j}
  <2>1. 1 \in 1..Len(t) /\ m + 1 + 1 = m + 2
    BY <1>1
  <2>2. QED BY <1>1, <1>2, <1>3, <2>1 DEF IsTailRest
<1>8. r[m + 3] = 1..(l + 1)
  BY <1>4, <1>5
<1>9. r[m + 2] = {i \in 1..l : s[i] = "/"}
  BY <1>6, <1>8
<1>10. n + 1 \in r[m + 1] <=> \E i \in (n + 1)..l : s[i] = "/"
  <2>1. n + 1 \in r[m + 1] <=> n + 1 \in 1..(l + 1) /\ \E i \in r[m + 2] : n + 1 <= i
    BY <1>7
  <2>2. n + 1 \in r[m + 1] <=> n + 1 <= l + 1 /\ \E i \in 1..l : s[i] = "/" /\ n + 1 <= i
    BY <1>3, <1>9, <2>1
  <2>3. QED BY <1>3, <2>2
<1>11. QED BY <1>1, <1>2, <1>3, <1>10

\* The listing of the directory of these names: the paths that go on with one
\* more name.
LEMMA ListsIs ==
    ASSUME NEW ns \in Seq(Names), NEW q \in Seq(PathChars)
    PROVE  Lists(Render(ns), q)
             <=> /\ FoldPrefix(q, Joined(ns) \o Slash)
                 /\ \A i \in (Len(Joined(ns) \o Slash) + 1)..Len(q) : q[i] # "/"
<1>1. PICK d \in Seq(PathChars) : d = Joined(ns) \o Slash
  BY JoinedType, NameParts, PartFacts, ConcatProperties DEF String
<1>2. (IF Render(ns) = Slash THEN Slash ELSE Render(ns) \o Slash) = d
  BY <1>1, RenderSlash
<1>3. Lists(Render(ns), q)
        <=> Like(q, EscapeLike(d) \o <<"%">>) /\ ~Like(q, EscapeLike(d) \o <<"%", "/", "%">>)
  BY <1>2 DEF Lists
<1>4. Like(q, EscapeLike(d) \o <<"%">>) <=> FoldPrefix(q, d)
  BY LikeAny
<1>5. Like(q, EscapeLike(d) \o <<"%", "/", "%">>)
        <=> FoldPrefix(q, d) /\ \E i \in (Len(d) + 1)..Len(q) : q[i] = "/"
  BY LikeSlash
<1>6. QED BY <1>1, <1>3, <1>4, <1>5

LEMMA UniverseFacts ==
    ASSUME NEW q \in Universe
    PROVE  \E qs \in Seq(Names) : q = Render(qs)
<1>1. PICK qs \in BoundedSeq(Names, MaxNames) : q = Render(qs)
  BY DEF Universe
<1>2. PICK m \in 0..MaxNames : qs \in [1..m -> Names]
  BY <1>1 DEF BoundedSeq, SeqOf
<1>3. qs \in Seq(Names)
  BY <1>2, BoundAssumption
<1>4. QED BY <1>1, <1>3

\* s is the path n in the directory a.
IsChild(s, a, n) ==
    /\ s = a \o (Slash \o n)
    /\ Len(s) = Len(a) + 1 + Len(n)
    /\ \A i \in 1..Len(a) : s[i] = a[i]
    /\ s[Len(a) + 1] = "/"
    /\ \A i \in (Len(a) + 2)..Len(s) : s[i] # "/"

LEMMA ChildString ==
    ASSUME NEW qs \in Seq(Names), qs # <<>>
    PROVE  \E a \in Seq(PathChars), n \in Part :
             a = Joined(Front(qs)) /\ IsChild(Render(qs), a, n)
<1>1. PICK a \in Seq(PathChars), n \in Part : a = Joined(Front(qs)) /\ n = Last(qs)
  BY JoinedLast, JoinedType, NameParts, PartFacts DEF String
<1>2. PICK b \in Seq(PathChars) : b = Slash \o n
  BY PartFacts, SlashFirst DEF String
<1>3. PICK s : s = Render(qs) /\ s = a \o b
  BY <1>1, <1>2, JoinedLast DEF Render
<1>4. PICK l \in Nat, v \in Nat : l = Len(a) /\ v = Len(n)
  BY LenProperties DEF Part
<1>5. Len(b) = v + 1 /\ b[1] = "/" /\ Tail(b) = n
  BY <1>2, <1>4, SlashFirst, PartFacts
<1>6. Len(s) = l + (v + 1) /\ \A i \in 1..(l + (v + 1)) : s[i] = IF i <= l THEN a[i] ELSE b[i - l]
  <2>1. /\ Len(s) = Len(a) + Len(b)
        /\ \A i \in 1..(Len(a) + Len(b)) : s[i] = IF i <= Len(a) THEN a[i] ELSE b[i - Len(a)]
    BY <1>3, ConcatProperties
  <2>2. Len(a) = l /\ Len(b) = v + 1
    BY <1>4, <1>5
  <2>3. QED BY <2>1, <2>2
<1>7. \A i \in 1..v : b[i + 1] = n[i] /\ n[i] # "/"
  <2>1. Len(Tail(b)) = v /\ \A i \in 1..Len(Tail(b)) : Tail(b)[i] = b[i + 1]
    BY <1>4, <1>5, HeadTailProperties, EmptySeq
  <2>2. \A i \in 1..v : n[i] \in PartChars
    BY <1>4, ElementOfSeq DEF Part
  <2>3. QED BY <1>5, <2>1, <2>2, PartFacts
<1>8. ASSUME NEW i \in (l + 2)..(l + (v + 1)) PROVE s[i] # "/"
  <2>0. i - l - 1 \in 1..v /\ (i - l - 1) + 1 = i - l
    BY <1>4
  <2>1. PICK k \in 1..v : k + 1 = i - l
    BY <2>0
  <2>2. s[i] = b[k + 1]
    BY <1>4, <1>6, <2>1
  <2>3. QED BY <1>7, <2>1, <2>2
<1>9. s[l + 1] = "/"
  <2>1. l + 1 \in 1..(l + (v + 1)) /\ ~(l + 1 <= l) /\ (l + 1) - l = 1
    BY <1>4
  <2>2. QED BY <1>5, <1>6, <2>1
<1>10. \A i \in 1..l : s[i] = a[i]
  BY <1>4, <1>6
<1>11. Len(s) = l + 1 + v
  BY <1>4, <1>6
<1>12. IsChild(s, a, n)
  BY <1>2, <1>3, <1>4, <1>6, <1>8, <1>9, <1>10, <1>11 DEF IsChild
<1>13. QED BY <1>1, <1>3, <1>12

LEMMA DirectorySlash ==
    ASSUME NEW a \in Seq(PathChars)
    PROVE  /\ a \o Slash \in Seq(PathChars) /\ Len(a \o Slash) = Len(a) + 1
           /\ \A i \in 1..Len(a) : (a \o Slash)[i] = a[i]
           /\ (a \o Slash)[Len(a) + 1] = "/"
<1>1. a \o Slash = Append(a, "/")
  BY AppendIsConcat, PartFacts DEF Slash
<1>2. QED BY <1>1, PartFacts, AppendProperties

\* Two directories whose paths agree but for the case of letters.
LEMMA SameDirectory ==
    ASSUME NEW fs \in Seq(Names), NEW ns \in Seq(Names), SameButCase(Render(fs), Render(ns))
    PROVE  /\ Len(Joined(fs)) = Len(Joined(ns))
           /\ \A i \in 1..Len(Joined(fs)) : Fold(Joined(fs)[i]) = Fold(Joined(ns)[i])
<1>1. PICK f \in Seq(PathChars), g \in Seq(PathChars) : f = Joined(fs) /\ g = Joined(ns)
  BY JoinedType, NameParts DEF String
<1>2. PICK l \in Nat : l = Len(f) /\ DOMAIN f = 1..l
  BY LenProperties
<1>3. Len(Slash) = 1
  BY DEF Slash
<1>4. CASE fs = <<>>
  <2>1. ns = <<>>
    <3>1. ns # <<>> => Len(Render(ns)) >= 2
      BY JoinedIsNotSlash DEF Render
    <3>2. Len(Render(ns)) = 1
      BY <1>3, <1>4 DEF SameButCase, Render
    <3>3. QED BY <3>1, <3>2
  <2>2. QED BY <1>1, <1>4, <2>1
<1>5. CASE fs # <<>>
  <2>1. ns # <<>>
    <3>1. Len(Render(fs)) >= 2
      BY <1>5, JoinedIsNotSlash DEF Render
    <3>2. ns = <<>> => Len(Render(ns)) = 1
      BY <1>3 DEF Render
    <3>3. PICK k \in Nat : k = Len(Render(fs)) /\ k = Len(Render(ns))
      BY RenderType, LenProperties DEF SameButCase, String
    <3>4. QED BY <3>1, <3>2, <3>3
  <2>2. SameButCase(f, g)
    BY <1>1, <1>5, <2>1 DEF Render
  <2>3. QED BY <1>1, <1>2, <2>2 DEF SameButCase
<1>6. QED BY <1>4, <1>5

\* A directory lists its children, and those of the directories of its name but
\* for the case of letters.
LEMMA ShowsChildren ==
    ASSUME NEW ns \in Seq(Names), NEW qs \in Seq(Names), qs # <<>>,
           SameButCase(ParentOf(Render(qs)), Render(ns))
    PROVE  Lists(Render(ns), Render(qs))
<1>1. PICK fs \in Seq(Names) : fs = Front(qs) /\ ParentOf(Render(qs)) = Render(fs)
  BY ParentIsFront, JoinedLast
<1>2. PICK s \in Seq(PathChars) : s = Render(qs)
  BY RenderType DEF String
<1>3. PICK b \in Seq(PathChars), n \in Part : b = Joined(fs) /\ IsChild(s, b, n)
  BY <1>1, <1>2, ChildString
<1>10. PICK a \in Seq(PathChars) : a = Joined(ns)
  BY JoinedType, NameParts DEF String
<1>4. PICK l \in Nat, v \in Nat : l = Len(b) /\ v = Len(n)
  BY LenProperties DEF Part
<1>11. Len(a) = l /\ \A i \in 1..l : Fold(b[i]) = Fold(a[i])
  BY <1>1, <1>3, <1>4, <1>10, SameDirectory
<1>5. PICK d \in Seq(PathChars) :
        /\ d = a \o Slash /\ Len(d) = l + 1 /\ d[l + 1] = "/"
        /\ \A i \in 1..l : d[i] = a[i]
  BY <1>11, DirectorySlash
<1>6. Len(s) = l + 1 + v /\ DOMAIN s = 1..(l + 1 + v)
  BY <1>3, <1>4, LenProperties DEF IsChild
<1>7. FoldPrefix(s, d)
  <2>1. ASSUME NEW k \in 1..(l + 1) PROVE k \in DOMAIN s /\ Fold(s[k]) = Fold(d[k])
    <3>1. k \in DOMAIN s
      BY <1>4, <1>6
    <3>2. CASE k = l + 1
      BY <1>3, <1>4, <1>5, <3>1, <3>2 DEF IsChild
    <3>3. CASE k \in 1..l
      <4>1. d[k] = a[k]
        BY <1>5, <3>3
      <4>2. Fold(b[k]) = Fold(a[k])
        BY <1>11, <3>3
      <4>3. \A i \in 1..Len(b) : s[i] = b[i]
        BY <1>3 DEF IsChild
      <4>4. s[k] = b[k]
        BY <1>4, <3>3, <4>3
      <4>5. QED BY <3>1, <4>1, <4>2, <4>4
    <3>4. k = l + 1 \/ k \in 1..l
      BY <1>4
    <3>5. QED BY <3>2, <3>3, <3>4
  <2>2. QED BY <1>5, <2>1 DEF FoldPrefix
<1>8. \A i \in (Len(d) + 1)..Len(s) : s[i] # "/"
  <2>1. Len(d) + 1 = Len(b) + 2
    BY <1>4, <1>5
  <2>2. QED BY <1>3, <2>1 DEF IsChild
<1>9. QED BY <1>2, <1>5, <1>7, <1>8, <1>10, ListsIs

\* The root's own row is in its listing.
LEMMA ShowsRoot == Lists(Slash, Slash)
<1>1. PICK ns \in Seq(Names) : ns = <<>> /\ Render(ns) = Slash
  BY EmptySeq DEF Render
<1>2. PICK s \in Seq(PathChars) : s = Slash
  BY <1>1, RenderType DEF String
<1>3. Joined(ns) \o Slash = Slash
  BY <1>1, RenderSlash
<1>4. FoldPrefix(s, s)
  BY LenProperties DEF FoldPrefix
<1>5. \A i \in (Len(s) + 1)..Len(s) : s[i] # "/"
  BY LenProperties
<1>6. QED BY <1>1, <1>2, <1>3, <1>4, <1>5, ListsIs

LEMMA ShowsOnlyChildren ==
    ASSUME NEW ns \in Seq(Names), NEW qs \in Seq(Names), Lists(Render(ns), Render(qs))
    PROVE  /\ qs = <<>> => ns = <<>>
           /\ qs # <<>> => SameButCase(ParentOf(Render(qs)), Render(ns))
<1>1. PICK s \in Seq(PathChars) : s = Render(qs)
  BY RenderType DEF String
<1>2. PICK a \in Seq(PathChars) : a = Joined(ns)
  BY JoinedType, NameParts DEF String
<1>3. PICK l \in Nat, w \in Nat : l = Len(a) /\ w = Len(s)
  BY LenProperties
<1>4. PICK d \in Seq(PathChars) :
        /\ d = a \o Slash /\ Len(d) = l + 1 /\ d[l + 1] = "/"
        /\ \A i \in 1..l : d[i] = a[i]
  BY <1>3, DirectorySlash
<1>5. FoldPrefix(s, d) /\ \A i \in (l + 2)..w : s[i] # "/"
  <2>1. FoldPrefix(s, d) /\ \A i \in (Len(d) + 1)..Len(s) : s[i] # "/"
    BY <1>1, <1>2, <1>4, ListsIs
  <2>2. Len(d) + 1 = l + 2
    BY <1>3, <1>4
  <2>3. QED BY <1>3, <2>1, <2>2
<1>6. l + 1 <= w
  BY <1>3, <1>4, <1>5, FoldPrefixFits
<1>7. ns # <<>> => l >= 2
  BY <1>2, <1>3, JoinedIsNotSlash
<1>8. CASE qs = <<>>
  <2>1. w = 1
    BY <1>1, <1>3, <1>8 DEF Render, Slash
  <2>2. QED BY <1>6, <1>7, <1>8, <2>1
<1>9. CASE qs # <<>>
  <2>1. PICK b \in Seq(PathChars), n \in Part : b = Joined(Front(qs)) /\ IsChild(s, b, n)
    BY <1>1, <1>9, ChildString
  <2>2. PICK m \in Nat, v \in Nat : m = Len(b) /\ v = Len(n)
    BY LenProperties DEF Part
  <2>3. /\ w = m + 1 + v /\ s[m + 1] = "/"
        /\ \A i \in (m + 2)..w : s[i] # "/"
        /\ \A i \in 1..m : s[i] = b[i]
    BY <1>3, <2>1, <2>2 DEF IsChild
  <2>4. s[l + 1] = "/"
    <3>1. l + 1 \in 1..Len(d)
      BY <1>4
    <3>2. Fold(s[l + 1]) = Fold(d[l + 1])
      BY <1>5, <3>1 DEF FoldPrefix
    <3>3. QED BY <1>4, <3>2, FoldSlash
  <2>5. m = l
    <3>1. ~(m < l)
      <4>1. m < l => l + 1 \in (m + 2)..w
        BY <1>6
      <4>2. QED BY <2>3, <2>4, <4>1
    <3>2. ~(l < m)
      <4>1. l < m => m + 1 \in (l + 2)..w
        BY <2>3
      <4>2. QED BY <1>5, <2>3, <4>1
    <3>3. QED BY <3>1, <3>2
  <2>6. Front(qs) \in Seq(Names) /\ ParentOf(Render(qs)) = Render(Front(qs))
    BY <1>9, JoinedLast, ParentIsFront
  <2>7. Front(qs) # <<>> => m >= 2
    BY <2>1, <2>2, <2>6, JoinedIsNotSlash
  <2>8. l = 0 <=> ns = <<>>
    BY <1>2, <1>3, <1>7, JoinedEmpty, EmptySeq
  <2>9. m = 0 <=> Front(qs) = <<>>
    BY <2>1, <2>2, <2>7, JoinedEmpty, EmptySeq
  <2>10. CASE l = 0
    <3>1. ParentOf(Render(qs)) = Slash /\ Render(ns) = Slash
      BY <2>5, <2>6, <2>8, <2>9, <2>10 DEF Render
    <3>2. QED BY <1>9, <3>1 DEF SameButCase
  <2>11. CASE l # 0
    <3>1. ParentOf(Render(qs)) = b /\ Render(ns) = a
      BY <1>2, <2>1, <2>5, <2>6, <2>8, <2>9, <2>11 DEF Render
    <3>2. DOMAIN b = 1..l
      BY <2>2, <2>5, LenProperties
    <3>3. ASSUME NEW i \in 1..l PROVE Fold(b[i]) = Fold(a[i])
      <4>1. i \in 1..Len(d)
        BY <1>4
      <4>2. Fold(s[i]) = Fold(d[i])
        BY <1>5, <4>1 DEF FoldPrefix
      <4>3. QED BY <1>4, <2>3, <2>5, <4>2
    <3>4. SameButCase(b, a)
      BY <1>3, <2>2, <2>5, <3>2, <3>3 DEF SameButCase
    <3>5. QED BY <1>9, <3>1, <3>4
  <2>12. QED BY <2>10, <2>11
<1>10. QED BY <1>8, <1>9

\* The listing of a directory shows the children of the directories that have
\* its path up to the case of letters, whatever wildcards the names hold, the
\* root itself if it is the root's, and nothing else.
THEOREM ListingIsExact == Spec => []ListingIs
<1>1. PathInv => ListingIs
  <2>1. SUFFICES ASSUME PathInv, NEW q \in Universe
                 PROVE  Lists(path, q)
                          <=> IF q = Slash THEN path = Slash ELSE SameButCase(ParentOf(q), path)
    BY DEF ListingIs
  <2>2. names \in Seq(Names) /\ path = Render(names)
    BY <2>1 DEF PathInv
  <2>3. PICK qs \in Seq(Names) : q = Render(qs)
    BY UniverseFacts
  <2>4. (q = Slash <=> qs = <<>>) /\ (path = Slash <=> names = <<>>)
    BY <2>2, <2>3, JoinedIsNotSlash DEF Render
  <2>5. q # Slash /\ SameButCase(ParentOf(q), path) => Lists(path, q)
    BY <2>2, <2>3, <2>4, ShowsChildren
  <2>6. Lists(path, q) => \/ q = Slash /\ path = Slash
                          \/ q # Slash /\ SameButCase(ParentOf(q), path)
    BY <2>2, <2>3, <2>4, ShowsOnlyChildren
  <2>7. QED BY <2>5, <2>6, ShowsRoot
<1>2. QED BY <1>1, PathAlways, PTL

----------------------------------------------------------------------------
(* URLs *)

\* One position of PercentDecode's string.
DecodeAt(s, i, after, escaped) ==
    LET rest == SubSeq(s, i, Len(s))
    IN  CASE rest = <<>>                       -> <<>>
          [] IsPrefix(<<"%", "2", "0">>, rest) -> <<" ">> \o escaped
          [] IsPrefix(<<"%", "4", "1">>, rest) -> <<"A">> \o escaped
          [] OTHER                             -> <<s[i]>> \o after

\* d satisfies the defining equation of the decoding of s from m on.
DecodedFrom(d, s, m) ==
    d = [i \in m..(Len(s) + 1) |-> DecodeAt(s, i, d[i + 1], d[i + 3])]

LEMMA DecodeUnfold ==
    ASSUME NEW s
    PROVE  PercentDecode(s) = (CHOOSE d : DecodedFrom(d, s, 1))[1]
BY DEF PercentDecode, DecodedFrom, DecodeAt

\* What is left of s, and its first three characters.
LEMMA RestFacts ==
    ASSUME NEW A, NEW s \in Seq(A), NEW i \in 1..(Len(s) + 1)
    PROVE  /\ SubSeq(s, i, Len(s)) \in Seq(A)
           /\ Len(SubSeq(s, i, Len(s))) = Len(s) + 1 - i
           /\ \A k \in 1..(Len(s) + 1 - i) : SubSeq(s, i, Len(s))[k] = s[i + k - 1]
<1>1. PICK n \in Nat : n = Len(s)
  BY LenProperties
<1>2. \A k \in i..n : s[k] \in A
  BY <1>1, ElementOfSeq
<1>3. i \in Int /\ n \in Int
  BY <1>1
<1>4. /\ SubSeq(s, i, n) \in Seq(A)
      /\ Len(SubSeq(s, i, n)) = IF i <= n THEN n - i + 1 ELSE 0
      /\ \A k \in 1..(n - i + 1) : SubSeq(s, i, n)[k] = s[i + k - 1]
  BY <1>2, <1>3, SubSeqProperties
<1>5. n + 1 - i = n - i + 1 /\ (~(i <= n) => n + 1 - i = 0)
  BY <1>1
<1>6. QED BY <1>1, <1>4, <1>5

LEMMA PrefixOfThree ==
    ASSUME NEW a, NEW b, NEW c, NEW A, NEW t \in Seq(A)
    PROVE  IsPrefix(<<a, b, c>>, t) <=> Len(t) >= 3 /\ t[1] = a /\ t[2] = b /\ t[3] = c
<1>1. PICK n \in Nat : n = Len(t)
  BY LenProperties
<1>2. PICK p : p = <<a, b, c>> /\ Len(p) = 3 /\ p[1] = a /\ p[2] = b /\ p[3] = c
  <2>1. /\ Len(<<a, b, c>>) = 3
        /\ <<a, b, c>>[1] = a /\ <<a, b, c>>[2] = b /\ <<a, b, c>>[3] = c
    OBVIOUS
  <2>2. QED BY <2>1, Zenon
<1>3. IsPrefix(p, t) <=> 3 <= n /\ SubSeq(p, 1, 3) = SubSeq(t, 1, 3)
  BY <1>1, <1>2 DEF IsPrefix
<1>4. PICK u : /\ u = SubSeq(p, 1, 3) /\ u \in Seq({a, b, c})
               /\ Len(u) = 3 /\ u[1] = a /\ u[2] = b /\ u[3] = c
  <2>1. \A i \in 1..3 : p[i] \in {a, b, c}
    BY <1>2
  <2>2. /\ SubSeq(p, 1, 3) \in Seq({a, b, c}) /\ Len(SubSeq(p, 1, 3)) = 3
        /\ \A i \in 1..3 : SubSeq(p, 1, 3)[i] = p[i]
    BY <2>1, SubSeqProperties
  <2>3. PICK u : u = SubSeq(p, 1, 3)
    OBVIOUS
  <2>4. u[1] = p[1] /\ u[2] = p[2] /\ u[3] = p[3]
    BY <2>2, <2>3
  <2>5. QED BY <1>2, <2>2, <2>3, <2>4
<1>5. ASSUME 3 <= n
      PROVE  /\ SubSeq(t, 1, 3) \in Seq(A) /\ Len(SubSeq(t, 1, 3)) = 3
             /\ \A i \in 1..3 : SubSeq(t, 1, 3)[i] = t[i]
  <2>1. \A i \in 1..3 : t[i] \in A
    BY <1>1, <1>5, ElementOfSeq
  <2>2. QED BY <2>1, SubSeqProperties
<1>6. ASSUME 3 <= n, t[1] = a, t[2] = b, t[3] = c PROVE u = SubSeq(t, 1, 3)
  <2>1. PICK v : /\ v = SubSeq(t, 1, 3) /\ v \in Seq(A) /\ Len(v) = 3
                 /\ \A i \in 1..3 : v[i] = t[i]
    BY <1>5, <1>6
  <2>2. \A i \in 1..3 : u[i] = v[i]
    BY <1>4, <1>6, <2>1
  <2>3. Seq({a, b, c}) \subseteq Seq(A \cup {a, b, c}) /\ Seq(A) \subseteq Seq(A \cup {a, b, c})
    BY SeqMonotonic
  <2>4. u = v
    BY <1>4, <2>1, <2>2, <2>3, SeqEqual
  <2>5. QED BY <2>1, <2>4
<1>7. ASSUME 3 <= n, u = SubSeq(t, 1, 3) PROVE t[1] = a /\ t[2] = b /\ t[3] = c
  BY <1>4, <1>5, <1>7
<1>8. QED BY <1>1, <1>2, <1>3, <1>4, <1>6, <1>7

\* Only what follows in s counts.
LEMMA DecodeLocal ==
    ASSUME NEW A, NEW s \in Seq(A), NEW i \in 1..(Len(s) + 1), NEW a1, NEW a3, NEW b1, NEW b3,
           i <= Len(s) => a1 = b1, i + 2 <= Len(s) => a3 = b3
    PROVE  DecodeAt(s, i, a1, a3) = DecodeAt(s, i, b1, b3)
<1>1. PICK n \in Nat : n = Len(s)
  BY LenProperties
<1>2. PICK t \in Seq(A) : t = SubSeq(s, i, Len(s)) /\ Len(t) = n + 1 - i
  BY <1>1, RestFacts
<1>3. ~(i <= n) => t = <<>>
  BY <1>1, <1>2, EmptySeq
<1>4. ~(i + 2 <= n) => ~IsPrefix(<<"%", "2", "0">>, t) /\ ~IsPrefix(<<"%", "4", "1">>, t)
  <2>1. IsPrefix(<<"%", "2", "0">>, t) => Len(t) >= 3
    BY PrefixOfThree
  <2>2. IsPrefix(<<"%", "4", "1">>, t) => Len(t) >= 3
    BY PrefixOfThree
  <2>3. QED BY <1>1, <1>2, <2>1, <2>2
<1>5. CASE i <= n /\ i + 2 <= n
  BY <1>1, <1>5
<1>6. CASE ~(i <= n)
  <2>1. ~(i + 2 <= n)
    BY <1>1, <1>6
  <2>2. t = <<>> /\ ~IsPrefix(<<"%", "2", "0">>, t) /\ ~IsPrefix(<<"%", "4", "1">>, t)
    BY <1>3, <1>4, <1>6, <2>1
  <2>3. QED BY <1>2, <2>2 DEF DecodeAt
<1>7. CASE i <= n /\ ~(i + 2 <= n)
  <2>1. a1 = b1
    BY <1>1, <1>7
  <2>2. QED BY <1>2, <1>4, <1>7, <2>1 DEF DecodeAt
<1>8. QED BY <1>5, <1>6, <1>7

LEMMA DecodedExtends ==
    ASSUME NEW A, NEW s \in Seq(A), NEW m \in 1..Len(s), NEW d, DecodedFrom(d, s, m + 1)
    PROVE  \E h : DecodedFrom(h, s, m)
<1>1. PICK n \in Nat : n = Len(s)
  BY LenProperties
<1>2. PICK h : h = [j \in m..(n + 1) |->
                      IF j = m THEN DecodeAt(s, m, d[m + 1], d[m + 3]) ELSE d[j]]
  OBVIOUS
<1>3. /\ h[m] = DecodeAt(s, m, d[m + 1], d[m + 3])
      /\ \A j \in (m + 1)..(n + 1) : h[j] = d[j]
  BY <1>1, <1>2
<1>4. \A j \in (m + 1)..(n + 1) : d[j] = DecodeAt(s, j, d[j + 1], d[j + 3])
  BY <1>1 DEF DecodedFrom
<1>5. ASSUME NEW j \in m..(n + 1)
      PROVE  DecodeAt(s, j, d[j + 1], d[j + 3]) = DecodeAt(s, j, h[j + 1], h[j + 3])
  <2>1. j <= Len(s) => d[j + 1] = h[j + 1]
    BY <1>1, <1>3
  <2>2. j + 2 <= Len(s) => d[j + 3] = h[j + 3]
    BY <1>1, <1>3
  <2>3. j \in 1..(Len(s) + 1)
    BY <1>1
  <2>4. QED BY <2>1, <2>2, <2>3, DecodeLocal
<1>6. ASSUME NEW j \in m..(n + 1) PROVE h[j] = DecodeAt(s, j, h[j + 1], h[j + 3])
  <2>1. CASE j = m
    BY <1>3, <1>5, <2>1
  <2>2. CASE j # m
    <3>1. j \in (m + 1)..(n + 1) /\ h[j] = d[j]
      BY <1>1, <1>3, <2>2
    <3>2. h[j] = DecodeAt(s, j, d[j + 1], d[j + 3])
      BY <1>4, <3>1
    <3>3. QED BY <1>5, <3>2
  <2>3. QED BY <2>1, <2>2
<1>7. h = [j \in m..(n + 1) |-> DecodeAt(s, j, h[j + 1], h[j + 3])]
  BY <1>2, <1>6
<1>8. QED BY <1>1, <1>7 DEF DecodedFrom

\* The decoding of s, from every position.
IsDecoded(d, s) == \A i \in 1..(Len(s) + 1) : d[i] = DecodeAt(s, i, d[i + 1], d[i + 3])

LEMMA Decoded ==
    ASSUME NEW A, NEW s \in Seq(A)
    PROVE  \E d : PercentDecode(s) = d[1] /\ IsDecoded(d, s)
<1>1. PICK n \in Nat : n = Len(s)
  BY LenProperties
<1> DEFINE C == {k \in Nat : k <= n => \E d : DecodedFrom(d, s, n + 1 - k)}
<1>2. 0 \in C
  <2>1. PICK f : f = [i \in (n + 1)..(n + 1) |-> DecodeAt(s, i, <<>>, <<>>)]
    OBVIOUS
  <2>2. DecodeAt(s, n + 1, <<>>, <<>>) = DecodeAt(s, n + 1, f[(n + 1) + 1], f[(n + 1) + 3])
    <3>1. n + 1 \in 1..(Len(s) + 1) /\ ~(n + 1 <= Len(s)) /\ ~((n + 1) + 2 <= Len(s))
      BY <1>1
    <3>2. QED BY <3>1, DecodeLocal
  <2>3. \A i \in (n + 1)..(n + 1) : f[i] = DecodeAt(s, i, f[i + 1], f[i + 3])
    <3>1. \A i \in (n + 1)..(n + 1) : i = n + 1
      OBVIOUS
    <3>2. f[n + 1] = DecodeAt(s, n + 1, <<>>, <<>>)
      BY <2>1
    <3>3. QED BY <2>2, <3>1, <3>2
  <2>4. f = [i \in (n + 1)..(n + 1) |-> DecodeAt(s, i, f[i + 1], f[i + 3])]
    BY <2>1, <2>3
  <2>5. DecodedFrom(f, s, n + 1) /\ n + 1 - 0 = n + 1
    BY <1>1, <2>4 DEF DecodedFrom
  <2>6. QED BY <2>5
<1>3. ASSUME NEW k \in Nat, k \in C PROVE k + 1 \in C
  <2>0. k + 1 \in Nat
    OBVIOUS
  <2>1. SUFFICES ASSUME k + 1 <= n PROVE \E d : DecodedFrom(d, s, n + 1 - (k + 1))
    BY <2>0
  <2>2. PICK d : DecodedFrom(d, s, n + 1 - k)
    BY <1>3, <2>1
  <2>3. PICK m \in 1..n : m = n + 1 - (k + 1) /\ m + 1 = n + 1 - k
    BY <2>1
  <2>4. QED BY <1>1, <2>2, <2>3, DecodedExtends
<1>4. Nat \subseteq C
  <2> HIDE DEF C
  <2>1. QED BY <1>2, <1>3, SetNatInduction
<1>5. \E d : DecodedFrom(d, s, 1)
  <2>1. n \in C
    <3> HIDE DEF C
    <3>1. QED BY <1>4
  <2>2. n <= n /\ n + 1 - n = 1
    OBVIOUS
  <2>3. \E d : DecodedFrom(d, s, n + 1 - n)
    BY <2>1, <2>2
  <2>4. QED BY <2>2, <2>3
<1>6. PICK d : d = (CHOOSE x : DecodedFrom(x, s, 1)) /\ DecodedFrom(d, s, 1)
  BY <1>5
<1>7. PercentDecode(s) = d[1]
  BY <1>6, DecodeUnfold
<1>8. IsDecoded(d, s)
  BY <1>6 DEF DecodedFrom, IsDecoded
<1>9. QED BY <1>7, <1>8

\* What the URL of a path holds, and the characters of a path that mean
\* nothing in a URL.
UrlChars == PathChars \cup {"%", "2", "0"}
PlainChars == PathChars \ {"?", "#", "%", "\\", "TAB"}
EncF == [c \in PlainChars |-> IF c = " " THEN <<"%", "2", "0">> ELSE <<c>>]

LEMMA UpToAll ==
    ASSUME NEW p \in Seq(PlainChars)
    PROVE  UpTo(p, {"?", "#"}) = p
<1>1. PICK n \in Nat : n = Len(p) /\ DOMAIN p = 1..n
  BY LenProperties
<1>2. \A i \in 1..n : p[i] \notin {"?", "#"}
  BY <1>1, ElementOfSeq DEF PlainChars
<1>3. PICK ends : ends = {i \in DOMAIN p : p[i] \in {"?", "#"}} \cup {n + 1}
  OBVIOUS
<1>4. ends = {n + 1}
  BY <1>1, <1>2, <1>3
<1>5. (CHOOSE i \in ends : \A j \in ends : i <= j) = n + 1
  <2>1. \E i \in ends : \A j \in ends : i <= j
    BY <1>4
  <2>2. QED BY <1>4, <2>1
<1>6. UpTo(p, {"?", "#"}) = SubSeq(p, 1, (CHOOSE i \in ends : \A j \in ends : i <= j) - 1)
  BY <1>1, <1>3 DEF UpTo
<1>7. (n + 1) - 1 = Len(p)
  BY <1>1
<1>8. SubSeq(p, 1, Len(p)) = p
  BY SubSeqFull
<1>9. QED BY <1>5, <1>6, <1>7, <1>8

\* The last number of an interval is at least every other one in it.
LEMMA LastOfInterval ==
    ASSUME NEW m \in Nat, m # 0
    PROVE  m \in 1..m /\ \A i \in 1..m : i \in Nat /\ i <= m
OBVIOUS

LEMMA BothAtMost ==
    ASSUME NEW x \in Nat, NEW y \in Nat, x <= y, y <= x
    PROVE  x = y
OBVIOUS

\* Nothing is cut off a path that does not end in a space.
LEMMA TrimEndAll ==
    ASSUME NEW p \in Seq(PlainChars), p # <<>>, Last(p) # " "
    PROVE  TrimEnd(p) = p
<1>1. PICK n \in Nat : n = Len(p) /\ DOMAIN p = 1..n
  BY LenProperties
<1>9. n # 0
  BY <1>1, EmptySeq
<1>0. n \in 1..n /\ \A i \in 1..n : i \in Nat /\ i <= n
  BY <1>9, LastOfInterval
<1>2. p[n] \notin {" ", "TAB"}
  <2>1. p[n] \in PlainChars
    BY <1>0, <1>1, ElementOfSeq
  <2>2. Last(p) = p[n]
    BY <1>1 DEF Last
  <2>3. QED BY <2>1, <2>2 DEF PlainChars
<1>3. PICK kept : kept = {i \in DOMAIN p : p[i] \notin {" ", "TAB"}}
  OBVIOUS
<1>4. n \in kept /\ \A i \in kept : i \in Nat /\ i <= n
  <2>1. n \in kept
    BY <1>0, <1>1, <1>2, <1>3
  <2>2. \A i \in kept : i \in 1..n
    BY <1>1, <1>3
  <2>3. QED BY <1>0, <2>1, <2>2
<1>5. (CHOOSE i \in kept : \A j \in kept : j <= i) = n
  <2>1. PICK c : c = (CHOOSE i \in kept : \A j \in kept : j <= i)
    OBVIOUS
  <2>2. c \in kept /\ \A j \in kept : j <= c
    BY <1>4, <2>1
  <2>5. c \in Nat /\ c <= n
    BY <1>4, <2>2
  <2>6. n <= c
    BY <1>4, <2>2
  <2>3. c = n
    BY <2>5, <2>6, BothAtMost
  <2>4. QED BY <2>1, <2>3
<1>6. TrimEnd(p) = SubSeq(p, 1, CHOOSE i \in kept : \A j \in kept : j <= i)
  BY <1>3, <1>4 DEF TrimEnd
<1>7. SubSeq(p, 1, Len(p)) = p
  BY SubSeqFull
<1>8. QED BY <1>1, <1>5, <1>6, <1>7

LEMMA UrlIsTranslated ==
    /\ EncF \in [PlainChars -> Seq(UrlChars)]
    /\ \A p \in Seq(PlainChars) : UrlEncode(p) = Translated(EncF, p)
<1>1. ASSUME NEW c \in PlainChars
      PROVE  (IF c = " " THEN <<"%", "2", "0">> ELSE <<c>>) \in Seq(UrlChars)
  <2>1. c \in UrlChars /\ "%" \in UrlChars /\ "2" \in UrlChars /\ "0" \in UrlChars
    BY DEF UrlChars, PlainChars
  <2>2. <<"%", "2", "0">> \in Seq(UrlChars) /\ <<c>> \in Seq(UrlChars)
    BY <2>1
  <2>3. QED BY <2>2
<1>2. ASSUME NEW p \in Seq(PlainChars) PROVE UrlEncode(p) = Translated(EncF, p)
  <2>1. \A i \in DOMAIN p : p[i] \in PlainChars
    BY ElementOfSeq, LenProperties
  <2>2. ASSUME NEW i \in DOMAIN p
        PROVE  EncF[p[i]] = CASE p[i] = "\\"  -> Slash
                              [] p[i] = " "   -> <<"%", "2", "0">>
                              [] p[i] = "TAB" -> <<>>
                              [] OTHER        -> <<p[i]>>
    <3>1. p[i] # "\\" /\ p[i] # "TAB" /\ EncF[p[i]] = IF p[i] = " " THEN <<"%", "2", "0">> ELSE <<p[i]>>
      BY <2>1 DEF EncF, PlainChars
    <3>2. QED BY <3>1
  <2>3. [i \in DOMAIN p |-> CASE p[i] = "\\"  -> Slash
                              [] p[i] = " "   -> <<"%", "2", "0">>
                              [] p[i] = "TAB" -> <<>>
                              [] OTHER        -> <<p[i]>>]
          = [i \in DOMAIN p |-> EncF[p[i]]]
    BY <2>2
  <2>4. QED BY <2>3 DEF UrlEncode, Translated, Mapped
<1>3. QED BY <1>1, <1>2 DEF EncF

LEMMA UrlFacts ==
    /\ UrlEncode(<<>>) = <<>>
    /\ \A p \in Seq(PlainChars) : UrlEncode(p) \in Seq(UrlChars)
    /\ \A p \in Seq(PlainChars), c \in PlainChars : UrlEncode(Append(p, c)) = UrlEncode(p) \o EncF[c]
<1>1. <<>> \in Seq(PlainChars)
  OBVIOUS
<1>2. UrlEncode(<<>>) = <<>>
  BY <1>1, UrlIsTranslated, TranslatedFacts
<1>3. \A p \in Seq(PlainChars) : UrlEncode(p) \in Seq(UrlChars)
  BY UrlIsTranslated, TranslatedFacts
<1>4. ASSUME NEW p \in Seq(PlainChars), NEW c \in PlainChars
      PROVE  UrlEncode(Append(p, c)) = UrlEncode(p) \o EncF[c]
  <2>1. Append(p, c) \in Seq(PlainChars)
    BY AppendProperties
  <2>2. Translated(EncF, Append(p, c)) = Translated(EncF, p) \o EncF[c]
    BY UrlIsTranslated, TranslatedFacts
  <2>3. QED BY <2>1, <2>2, UrlIsTranslated
<1>5. QED BY <1>2, <1>3, <1>4

\* The decoding d yields the character c where f stands, after m characters.
YieldsOne(d, c, m, f) == d[m + 1] = Cat(<<c>>, d[m + Len(f) + 1])

\* The decoding takes an encoded character back.
LEMMA DecodesOne ==
    ASSUME NEW c \in PlainChars, NEW f, f = EncF[c],
           NEW u \in Seq(UrlChars), NEW m \in Nat, StandsAt(f, u, m), NEW d, IsDecoded(d, u)
    PROVE  YieldsOne(d, c, m, f)
<1>1. PICK n \in Nat : n = Len(u)
  BY LenProperties
<1>2. CASE c = " "
  <2>1. f = <<"%", "2", "0">>
    BY <1>2 DEF EncF
  <2>2. Len(f) = 3 /\ f[1] = "%" /\ f[2] = "2" /\ f[3] = "0"
    BY <2>1
  <2>3. m + 3 <= n /\ u[m + 1] = "%" /\ u[m + 2] = "2" /\ u[m + 3] = "0"
    BY <1>1, <2>2 DEF StandsAt
  <2>4. m + 1 \in 1..(Len(u) + 1)
    BY <1>1, <2>3
  <2>5. d[m + 1] = DecodeAt(u, m + 1, d[(m + 1) + 1], d[(m + 1) + 3])
    BY <2>4 DEF IsDecoded
  <2>6. PICK t \in Seq(UrlChars) :
          /\ t = SubSeq(u, m + 1, Len(u)) /\ Len(t) = Len(u) + 1 - (m + 1)
          /\ \A k \in 1..(Len(u) + 1 - (m + 1)) : t[k] = u[m + 1 + k - 1]
    <3>1. PICK j \in 1..(Len(u) + 1) : j = m + 1
      BY <2>4
    <3>2. /\ SubSeq(u, j, Len(u)) \in Seq(UrlChars)
          /\ Len(SubSeq(u, j, Len(u))) = Len(u) + 1 - j
          /\ \A k \in 1..(Len(u) + 1 - j) : SubSeq(u, j, Len(u))[k] = u[j + k - 1]
      BY RestFacts
    <3>3. QED BY <3>1, <3>2
  <2>7. Len(t) >= 3 /\ t[1] = "%" /\ t[2] = "2" /\ t[3] = "0"
    BY <1>1, <2>3, <2>6
  <2>8. IsPrefix(<<"%", "2", "0">>, t)
    BY <2>7, PrefixOfThree
  <2>9. ~IsPrefix(<<"%", "4", "1">>, t)
    <3>1. IsPrefix(<<"%", "4", "1">>, t) => t[2] = "4"
      BY PrefixOfThree
    <3>2. QED BY <2>7, <3>1
  <2>10. t # <<>>
    BY <2>7, EmptySeq
  <2>11. DecodeAt(u, m + 1, d[(m + 1) + 1], d[(m + 1) + 3]) = <<" ">> \o d[(m + 1) + 3]
    BY <2>6, <2>8, <2>9, <2>10 DEF DecodeAt
  <2>12. (m + 1) + 3 = m + Len(f) + 1
    BY <2>2
  <2>13. QED BY <1>2, <2>5, <2>11, <2>12 DEF YieldsOne, Cat
<1>3. CASE c # " "
  <2>1. f = <<c>>
    BY <1>3 DEF EncF
  <2>2. Len(f) = 1 /\ f[1] = c
    BY <2>1
  <2>3. m + 1 <= n /\ u[m + 1] = c /\ c # "%"
    BY <1>1, <2>2 DEF StandsAt, PlainChars
  <2>4. m + 1 \in 1..(Len(u) + 1)
    BY <1>1, <2>3
  <2>5. d[m + 1] = DecodeAt(u, m + 1, d[(m + 1) + 1], d[(m + 1) + 3])
    BY <2>4 DEF IsDecoded
  <2>6. PICK t \in Seq(UrlChars) :
          /\ t = SubSeq(u, m + 1, Len(u)) /\ Len(t) = Len(u) + 1 - (m + 1)
          /\ \A k \in 1..(Len(u) + 1 - (m + 1)) : t[k] = u[m + 1 + k - 1]
    <3>1. PICK j \in 1..(Len(u) + 1) : j = m + 1
      BY <2>4
    <3>2. /\ SubSeq(u, j, Len(u)) \in Seq(UrlChars)
          /\ Len(SubSeq(u, j, Len(u))) = Len(u) + 1 - j
          /\ \A k \in 1..(Len(u) + 1 - j) : SubSeq(u, j, Len(u))[k] = u[j + k - 1]
      BY RestFacts
    <3>3. QED BY <3>1, <3>2
  <2>7. Len(t) >= 1 /\ t[1] = c
    BY <1>1, <2>3, <2>6
  <2>8. ~IsPrefix(<<"%", "2", "0">>, t) /\ ~IsPrefix(<<"%", "4", "1">>, t)
    <3>1. IsPrefix(<<"%", "2", "0">>, t) => t[1] = "%"
      BY PrefixOfThree
    <3>2. IsPrefix(<<"%", "4", "1">>, t) => t[1] = "%"
      BY PrefixOfThree
    <3>3. QED BY <2>3, <2>7, <3>1, <3>2
  <2>9. t # <<>>
    BY <2>7, EmptySeq
  <2>10. DecodeAt(u, m + 1, d[(m + 1) + 1], d[(m + 1) + 3]) = <<u[m + 1]>> \o d[(m + 1) + 1]
    BY <2>6, <2>8, <2>9 DEF DecodeAt
  <2>11. (m + 1) + 1 = m + Len(f) + 1
    BY <2>2
  <2>12. QED BY <2>3, <2>5, <2>10, <2>11 DEF YieldsOne, Cat
<1>4. QED BY <1>2, <1>3

\* Decoding takes an encoded path back.
LEMMA DecodesUrl ==
    \A p \in Seq(PlainChars) : \A t \in Seq(UrlChars) : \A d :
      /\ IsDecoded(d, UrlEncode(p) \o t)
      /\ d[Len(UrlEncode(p)) + 1] \in Seq(UrlChars)
      => d[1] = Cat(p, d[Len(UrlEncode(p)) + 1])
<1> DEFINE C == {p \in Seq(PlainChars) : \A t \in Seq(UrlChars) : \A d :
                    /\ IsDecoded(d, UrlEncode(p) \o t)
                    /\ d[Len(UrlEncode(p)) + 1] \in Seq(UrlChars)
                    => d[1] = Cat(p, d[Len(UrlEncode(p)) + 1])}
<1>0. PlainChars \subseteq UrlChars /\ Seq(PlainChars) \subseteq Seq(UrlChars)
  BY SeqMonotonic DEF PlainChars, UrlChars
<1>9. ASSUME NEW y \in Seq(UrlChars), NEW b \in Seq(UrlChars), NEW w \in Seq(UrlChars)
      PROVE  Cat(Cat(y, b), w) = Cat(y, Cat(b, w))
  <2>1. (y \o b) \o w = y \o (b \o w)
    BY ConcatAssociative
  <2>2. QED BY <2>1 DEF Cat
<1>1. <<>> \in C
  <2>1. PICK z \in Seq(PlainChars) : z = <<>> /\ Len(z) = 0
    BY EmptySeq
  <2>2. UrlEncode(z) = z
    BY <2>1, UrlFacts
  <2>3. \A w \in Seq(UrlChars) : Cat(z, w) = w
    BY <2>1, ConcatEmptySeq DEF Cat
  <2>4. z \in C
    BY <2>1, <2>2, <2>3
  <2>5. QED BY <2>1, <2>4
<1>2. ASSUME NEW p \in Seq(PlainChars), NEW c \in PlainChars, p \in C PROVE Append(p, c) \in C
  <2>1. PICK x \in Seq(PlainChars) : x = Append(p, c) /\ x = p \o <<c>>
    BY AppendProperties, AppendIsConcat
  <2>2. PICK e \in Seq(UrlChars), f \in Seq(UrlChars), g \in Seq(UrlChars) :
          e = UrlEncode(p) /\ f = EncF[c] /\ g = UrlEncode(x) /\ g = e \o f
    <3>1. UrlEncode(p) \in Seq(UrlChars) /\ UrlEncode(x) \in Seq(UrlChars)
      BY UrlFacts
    <3>2. EncF[c] \in Seq(UrlChars)
      BY UrlIsTranslated
    <3>3. UrlEncode(x) = UrlEncode(p) \o EncF[c]
      BY <2>1, UrlFacts
    <3>4. QED BY <3>1, <3>2, <3>3
  <2>3. PICK m \in Nat, l \in Nat : m = Len(e) /\ l = Len(f)
    BY LenProperties
  <2>4. Len(g) = m + l
    BY <2>2, <2>3, ConcatProperties
  <2>5. ASSUME NEW t \in Seq(UrlChars), NEW d, IsDecoded(d, UrlEncode(x) \o t),
               d[Len(UrlEncode(x)) + 1] \in Seq(UrlChars)
        PROVE  d[1] = Cat(x, d[Len(UrlEncode(x)) + 1])
    <3>1. PICK u \in Seq(UrlChars) : u = f \o t
      BY ConcatProperties
    <3>2. PICK s \in Seq(UrlChars) : s = g \o t /\ s = e \o u
      <4>1. (e \o f) \o t = e \o (f \o t)
        BY ConcatAssociative
      <4>2. g \o t \in Seq(UrlChars)
        BY ConcatProperties
      <4>3. QED BY <2>2, <3>1, <4>1, <4>2
    <3>3. IsDecoded(d, s) /\ IsDecoded(d, UrlEncode(p) \o u)
      BY <2>2, <2>5, <3>2
    <3>4. PICK v \in Nat : v = Len(t)
      BY LenProperties
    <3>5. Len(u) = l + v /\ \A k \in 1..l : u[k] = f[k]
      BY <2>3, <3>1, <3>4, ConcatProperties
    <3>6. Len(s) = m + (l + v) /\ \A k \in 1..(l + v) : s[m + k] = u[k]
      <4>1. /\ Len(s) = Len(e) + Len(u)
            /\ \A i \in 1..(Len(e) + Len(u)) : s[i] = IF i <= Len(e) THEN e[i] ELSE u[i - Len(e)]
        BY <3>2, ConcatProperties
      <4>2. ASSUME NEW k \in 1..(l + v) PROVE s[m + k] = u[k]
        <5>1. m + k \in 1..(Len(e) + Len(u)) /\ ~(m + k <= Len(e)) /\ (m + k) - Len(e) = k
          BY <2>3, <3>4, <3>5
        <5>2. QED BY <4>1, <5>1
      <4>3. QED BY <2>3, <3>5, <4>1, <4>2
    <3>7. StandsAt(f, s, m)
      <4>1. \A k \in 1..l : k \in 1..(l + v)
        BY <2>3, <3>4
      <4>2. QED BY <2>3, <3>4, <3>5, <3>6, <4>1 DEF StandsAt
    <3>8. PICK w \in Seq(UrlChars) : w = d[m + l + 1] /\ w = d[Len(UrlEncode(x)) + 1]
      BY <2>2, <2>4, <2>5
    <3>9. d[m + 1] = <<c>> \o w
      <4>1. f = EncF[c]
        BY <2>2
      <4>2. YieldsOne(d, c, m, f)
        BY <3>3, <3>7, <4>1, DecodesOne
      <4>3. QED BY <2>3, <3>8, <4>2 DEF YieldsOne, Cat
    <3>10. PICK b \in Seq(UrlChars), y \in Seq(UrlChars) : b = <<c>> /\ y = p
      <4>1. <<c>> \in Seq(UrlChars)
        BY <1>0
      <4>2. QED BY <1>0, <4>1
    <3>11. d[m + 1] \in Seq(UrlChars)
      BY <3>9, <3>10, ConcatProperties
    <3>12. d[1] = Cat(p, d[m + 1])
      BY <1>2, <2>2, <2>3, <3>3, <3>11
    <3>13. Cat(Cat(y, b), w) = Cat(y, Cat(b, w))
      BY <1>9
    <3>14. QED BY <2>1, <3>8, <3>9, <3>10, <3>12, <3>13 DEF Cat
  <2>6. QED BY <2>1, <2>5
<1>3. Seq(PlainChars) \subseteq C
  <2> HIDE DEF C
  <2>1. QED BY <1>1, <1>2, SeqInduction
<1>4. QED BY <1>3

LEMMA DecodeOfUrl ==
    ASSUME NEW p \in Seq(PlainChars)
    PROVE  PercentDecode(UrlEncode(p)) = p
<1>1. PICK u \in Seq(UrlChars) : u = UrlEncode(p)
  BY UrlFacts
<1>2. PICK d : PercentDecode(u) = d[1] /\ IsDecoded(d, u)
  BY Decoded
<1>3. PICK n \in Nat : n = Len(u)
  BY LenProperties
<1>4. d[n + 1] = <<>>
  <2>1. PICK j \in 1..(Len(u) + 1) : j = n + 1
    BY <1>3
  <2>2. d[j] = DecodeAt(u, j, d[j + 1], d[j + 3])
    BY <1>2 DEF IsDecoded
  <2>3. PICK t \in Seq(UrlChars) : t = SubSeq(u, j, Len(u)) /\ Len(t) = 0
    <3>1. SubSeq(u, j, Len(u)) \in Seq(UrlChars) /\ Len(SubSeq(u, j, Len(u))) = Len(u) + 1 - j
      BY RestFacts
    <3>2. Len(u) + 1 - j = 0
      BY <1>3, <2>1
    <3>3. QED BY <3>1, <3>2
  <2>4. t = <<>>
    BY <2>3, EmptySeq
  <2>5. ~IsPrefix(<<"%", "2", "0">>, t) /\ ~IsPrefix(<<"%", "4", "1">>, t)
    <3>1. IsPrefix(<<"%", "2", "0">>, t) => Len(t) >= 3
      BY PrefixOfThree
    <3>2. IsPrefix(<<"%", "4", "1">>, t) => Len(t) >= 3
      BY PrefixOfThree
    <3>3. QED BY <2>3, <3>1, <3>2
  <2>6. DecodeAt(u, j, d[j + 1], d[j + 3]) = <<>>
    BY <2>3, <2>4, <2>5 DEF DecodeAt
  <2>7. QED BY <2>1, <2>2, <2>6
<1>5. PICK z \in Seq(UrlChars) : z = <<>> /\ u \o z = u
  BY ConcatEmptySeq, EmptySeq
<1>6. IsDecoded(d, UrlEncode(p) \o z) /\ d[Len(UrlEncode(p)) + 1] = z
  BY <1>1, <1>2, <1>3, <1>4, <1>5
<1>7. d[1] = Cat(p, z)
  BY <1>6, DecodesUrl
<1>8. Cat(p, z) = p
  BY <1>5, ConcatEmptySeq DEF Cat
<1>9. QED BY <1>1, <1>2, <1>7, <1>8

\* parse_path puts back the slash that it has cut off.
LEMMA TrimRender ==
    ASSUME NEW ns \in Seq(Names)
    PROVE  Slash \o TrimStart(Render(ns)) = Render(ns)
<1>1. CASE ns = <<>>
  <2>1. Render(ns) = Slash
    BY <1>1 DEF Render
  <2>2. {i \in DOMAIN Slash : Slash[i] # "/"} = {}
    BY DEF Slash
  <2>3. TrimStart(Slash) = <<>>
    BY <2>2 DEF TrimStart
  <2>4. Slash \o <<>> = Slash
    BY PartFacts, ConcatEmptySeq DEF String
  <2>5. QED BY <2>1, <2>3, <2>4
<1>2. CASE ns # <<>>
  <2>1. PICK p \in Part, qs \in Seq(Part) :
          /\ ns = <<p>> \o qs /\ p \o Joined(qs) \in String
          /\ Joined(ns) = Slash \o (p \o Joined(qs))
    BY <1>2, NameParts, JoinedHead
  <2>2. PICK x \in Seq(PathChars), j \in Seq(PathChars), y \in Seq(PathChars) :
          x = p \o Joined(qs) /\ j = Joined(qs) /\ y = p
    BY <2>1, JoinedType, PartFacts DEF String
  <2>3. p \in Names
    <3>1. Len(<<p>>) = 1 /\ <<p>>[1] = p /\ <<p>> \in Seq(Part)
      OBVIOUS
    <3>2. Len(qs) \in Nat
      BY LenProperties
    <3>3. ns[1] = p /\ Len(ns) = 1 + Len(qs)
      BY <2>1, <3>1, <3>2, ConcatProperties
    <3>4. 1 \in 1..Len(ns)
      BY <3>2, <3>3
    <3>5. QED BY <3>3, <3>4, ElementOfSeq
  <2>4. PICK k \in Nat : k = Len(y) /\ k # 0
    BY <2>2, <2>3, NameAssumption, EmptySeq, LenProperties
  <2>5. y[1] # "/"
    <3>1. y[1] \in PartChars
      BY <2>2, <2>4, ElementOfSeq DEF Part
    <3>2. QED BY <3>1, PartFacts
  <2>6. PICK v \in Nat : v = Len(x) /\ v >= 1
    BY <2>2, <2>4, ConcatProperties, LenProperties
  <2>7. x[1] = y[1]
    <3>1. \A i \in 1..(Len(y) + Len(j)) : (y \o j)[i] = IF i <= Len(y) THEN y[i] ELSE j[i - Len(y)]
      BY ConcatProperties
    <3>2. 1 \in 1..(Len(y) + Len(j)) /\ 1 <= Len(y)
      BY <2>4, LenProperties
    <3>3. (y \o j)[1] = y[1]
      BY <3>1, <3>2
    <3>4. QED BY <2>2, <3>3
  <2>8. PICK s \in Seq(PathChars) :
          /\ s = Render(ns) /\ s = Slash \o x /\ s # <<>> /\ s[1] = "/" /\ Tail(s) = x
          /\ Len(s) = v + 1
    <3>1. /\ Slash \o x \in String /\ Slash \o x # <<>> /\ (Slash \o x)[1] = "/"
          /\ Tail(Slash \o x) = x /\ Len(Slash \o x) = Len(x) + 1
      BY SlashFirst DEF String
    <3>2. Render(ns) = Slash \o x
      BY <1>2, <2>1, <2>2 DEF Render
    <3>3. QED BY <2>6, <3>1, <3>2 DEF String
  <2>9. s[2] # "/"
    <3>1. \A i \in 1..Len(Tail(s)) : Tail(s)[i] = s[i + 1]
      BY <2>8, HeadTailProperties
    <3>2. x[1] = s[1 + 1]
      BY <2>6, <2>8, <3>1
    <3>3. QED BY <2>5, <2>7, <3>2
  <2>10. DOMAIN s = 1..(v + 1)
    BY <2>8, LenProperties
  <2>11. PICK kept : kept = {i \in DOMAIN s : s[i] # "/"}
    OBVIOUS
  <2>12. 2 \in kept /\ \A i \in kept : i \in Nat /\ 2 <= i
    BY <2>6, <2>8, <2>9, <2>10, <2>11
  <2>13. (CHOOSE i \in kept : \A m \in kept : i <= m) = 2
    <3>1. PICK c : c = (CHOOSE i \in kept : \A m \in kept : i <= m)
      OBVIOUS
    <3>2. c \in kept /\ \A m \in kept : c <= m
      BY <2>12, <3>1
    <3>3. c = 2
      BY <2>12, <3>2
    <3>4. QED BY <3>1, <3>3
  <2>14. TrimStart(s) = SubSeq(s, CHOOSE i \in kept : \A m \in kept : i <= m, Len(s))
    BY <2>11, <2>12 DEF TrimStart
  <2>15. SubSeq(s, 2, Len(s)) = Tail(s)
    BY <2>8, TailIsSubSeq
  <2>16. QED BY <2>8, <2>13, <2>14, <2>15
<1>3. QED BY <1>1, <1>2

\* A path without the characters that mean something in a URL, and without a
\* space at its end, is the path that the daemon parses from the client's URL.
THEOREM UrlKeepsPath == Spec => []UrlRoundTrip
<1>1. PathInv => UrlRoundTrip
  <2>1. SUFFICES ASSUME PathInv, \A c \in {"?", "#", "%", "\\", "TAB"} : ~Contains(path, c),
                        Last(path) # " "
                 PROVE  ParsePath(UrlPath(path)) = path
    BY DEF UrlRoundTrip
  <2>2. names \in Seq(Names) /\ path = Render(names)
    BY <2>1 DEF PathInv
  <2>3. PICK p \in Seq(PathChars) : p = path
    BY <2>2, RenderType DEF String
  <2>4. PICK n \in Nat : n = Len(p) /\ p \in [1..n -> PathChars]
    BY LenProperties
  <2>5. \A i \in 1..n : p[i] \in PlainChars
    <3>1. \A i \in 1..Len(p) : p[i] # "?" /\ p[i] # "#" /\ p[i] # "%" /\ p[i] # "\\" /\ p[i] # "TAB"
      BY <2>1, <2>3 DEF Contains
    <3>2. \A i \in 1..n : p[i] \in PathChars
      BY <2>4
    <3>3. QED BY <2>4, <3>1, <3>2 DEF PlainChars
  <2>6. p \in Seq(PlainChars)
    <3>1. p \in [1..n -> PlainChars]
      BY <2>4, <2>5
    <3>2. QED BY <3>1
  <2>7. p # <<>>
    <3>1. Len(Slash) = 1
      BY DEF Slash
    <3>2. Len(Render(names)) = 1 \/ Len(Render(names)) >= 2
      BY <2>2, <3>1, JoinedIsNotSlash DEF Render
    <3>3. QED BY <2>2, <2>3, <2>4, <3>2, EmptySeq
  <2>8. UrlPath(p) = UrlEncode(p)
    BY <2>1, <2>3, <2>6, <2>7, TrimEndAll, UpToAll DEF UrlPath
  <2>9. PercentDecode(UrlEncode(p)) = p
    BY <2>6, DecodeOfUrl
  <2>10. ParsePath(UrlPath(path)) = Normalize(Slash \o TrimStart(path))
    BY <2>3, <2>8, <2>9 DEF ParsePath
  <2>11. QED BY <2>2, <2>10, TrimRender, RenderNormal
<1>2. QED BY <1>1, PathAlways, PTL
=============================================================================
