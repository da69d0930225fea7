--------------------------- MODULE EvictionProofs ---------------------------
(***************************************************************************)
(* Proofs about the eviction cycle (EvictionCycle), for every number of    *)
(* files, all sizes, watermarks and weights.                               *)
(*                                                                         *)
(* What is said about usage and about new ids needs sums and maxima over   *)
(* the rows of a table.  Those are inductions over finite sets, done here  *)
(* with sets in place of predicates: a set of counterexamples has a least  *)
(* member (WFMin), which is no counterexample.                             *)
(***************************************************************************)
EXTENDS EvictionCycle, TLAPS, FiniteSetTheorems

----------------------------------------------------------------------------
(* Induction *)

\* Every non-empty set of naturals has a least element.
LEMMA LeastNatural ==
    ASSUME NEW N, N \subseteq Nat, N # {}
    PROVE  \E n \in N : \A m \in N : n <= m
<1> DEFINE I == {0..n : n \in N}
<1>1. I \subseteq FiniteSubsetsOf(Nat) /\ I # {}
  <2>1. \A n \in N : IsFiniteSet(0..n) /\ 0..n \in SUBSET Nat
    BY FS_Interval
  <2>2. QED BY <2>1 DEF FiniteSubsetsOf
<1> HIDE DEF I
<1>2. PICK i \in I : \A j \in I : ~(<<j, i>> \in StrictSubsetOrdering(Nat))
  BY <1>1, FS_StrictSubsetOrderingWellFounded, WFMin
<1>3. PICK n \in N : i = 0..n
  BY <1>2 DEF I
<1>4. ASSUME NEW m \in N PROVE n <= m
  <2>1. <<0..m, 0..n>> \notin StrictSubsetOrdering(Nat)
    BY <1>2, <1>3 DEF I
  <2>2. ~(0..m \subseteq 0..n /\ 0..m # 0..n)
    BY <2>1 DEF StrictSubsetOrdering
  <2>3. QED BY <2>2
<1>5. QED BY <1>4

\* Induction over the naturals, for a set.
LEMMA SetNatInduction ==
    ASSUME NEW C, 0 \in C, \A n \in Nat : n \in C => n + 1 \in C
    PROVE  Nat \subseteq C
<1>1. SUFFICES ASSUME Nat \ C # {} PROVE FALSE
  OBVIOUS
<1>2. PICK n \in Nat \ C : \A m \in Nat \ C : n <= m
  BY <1>1, LeastNatural
<1>3. n # 0 /\ n - 1 \in Nat
  BY <1>2
<1>4. n - 1 \in C
  BY <1>2, <1>3
<1>5. (n - 1) + 1 \in C
  BY <1>3, <1>4
<1>6. QED BY <1>2, <1>5

\* Induction over the subsets of a finite set, for a set of sets.
LEMMA FiniteInduction ==
    ASSUME NEW S, IsFiniteSet(S), NEW C, {} \in C,
           \A T \in SUBSET S : T # {} /\ (\A x \in T : T \ {x} \in C) => T \in C
    PROVE  \A T \in SUBSET S : T \in C
<1> DEFINE N == {Cardinality(T) : T \in (SUBSET S) \ C}
<1>1. SUFFICES ASSUME NEW U \in SUBSET S, U \notin C PROVE FALSE
  OBVIOUS
<1>2. \A T \in SUBSET S : IsFiniteSet(T) /\ Cardinality(T) \in Nat
  BY FS_Subset, FS_CardinalityType
<1>3. N \subseteq Nat /\ N # {}
  BY <1>1, <1>2
<1> HIDE DEF N
<1>4. PICK n \in N : \A m \in N : n <= m
  BY <1>3, LeastNatural
<1>5. PICK T \in (SUBSET S) \ C : n = Cardinality(T)
  BY <1>4 DEF N
<1>6. T # {}
  BY <1>5
<1>7. ASSUME NEW x \in T PROVE T \ {x} \in C
  <2>1. Cardinality(T \ {x}) = Cardinality(T) - 1
    BY <1>2, <1>5, FS_RemoveElement
  <2>2. T \ {x} \in SUBSET S /\ Cardinality(T \ {x}) \in Nat /\ Cardinality(T) \in Nat
    BY <1>2, <1>5
  <2>3. Cardinality(T \ {x}) \notin N
    BY <2>1, <2>2, <1>4, <1>5
  <2>4. QED BY <2>2, <2>3 DEF N
<1>8. QED BY <1>5, <1>6, <1>7

----------------------------------------------------------------------------
(* Sums of sizes *)

\* The element the library's fold takes next.
OneOf(S) == CHOOSE x \in S : TRUE

\* g satisfies the defining equation of the fold on the sets in S.
IsSum(w, S, g) ==
    g = [s \in S |-> IF s = {} THEN 0 ELSE w[OneOf(s)].size + g[s \ {OneOf(s)}]]

\* The sum of the table's SELECT is the fold's function at the whole set.
LEMMA SumUnfold ==
    ASSUME NEW w, NEW S
    PROVE  SizeSum(w, S) = (CHOOSE g : IsSum(w, SUBSET S, g))[S]
BY DEF SizeSum, MapThenSumSet, MapThenFoldSet, IsSum, OneOf

\* The equation has a solution: one on the sets of at most n files extends to
\* those of n + 1.
LEMMA SumExists ==
    ASSUME NEW w, NEW S, IsFiniteSet(S)
    PROVE  \E g : IsSum(w, SUBSET S, g)
<1> DEFINE Upto(n) == {T \in SUBSET S : Cardinality(T) <= n}
           C == {n \in Nat : \E g : IsSum(w, Upto(n), g)}
<1>1. \A T \in SUBSET S : IsFiniteSet(T) /\ Cardinality(T) \in Nat /\ Cardinality(T) <= Cardinality(S)
  BY FS_Subset, FS_CardinalityType
<1>a. \A T : T # {} => OneOf(T) \in T
  BY DEF OneOf
<1>2. 0 \in C
  <2>1. \A T \in Upto(0) : T = {}
    BY <1>1, FS_EmptySet
  <2>2. \E g : g = [s \in Upto(0) |-> 0]
    OBVIOUS
  <2>3. PICK g : g = [s \in Upto(0) |-> 0]
    BY <2>2
  <2>4. IsSum(w, Upto(0), g)
    BY <2>1, <2>3 DEF IsSum
  <2>5. QED BY <2>4
<1>3. ASSUME NEW n \in Nat, n \in C PROVE n + 1 \in C
  <2>1. PICK g : IsSum(w, Upto(n), g)
    BY <1>3
  <2>2. \A s \in Upto(n + 1) : s # {} => s \ {OneOf(s)} \in Upto(n)
    <3>1. SUFFICES ASSUME NEW s \in Upto(n + 1), s # {} PROVE s \ {OneOf(s)} \in Upto(n)
      OBVIOUS
    <3>2. Cardinality(s \ {OneOf(s)}) = Cardinality(s) - 1
      BY <1>1, <1>a, <3>1, FS_RemoveElement
    <3>3. QED BY <1>1, <3>1, <3>2
  <2>3. \A s \in Upto(n) : s \in Upto(n + 1)
    BY <1>1
  <2>4. \E D, E : D = Upto(n) /\ E = Upto(n + 1)
    OBVIOUS
  <2>5. PICK D, E : D = Upto(n) /\ E = Upto(n + 1)
    BY <2>4
  <2> HIDE DEF Upto
  <2>6. \E G : G = [s \in E |-> IF s = {} THEN 0 ELSE w[OneOf(s)].size + g[s \ {OneOf(s)}]]
    OBVIOUS
  <2>7. PICK G : G = [s \in E |-> IF s = {} THEN 0 ELSE w[OneOf(s)].size + g[s \ {OneOf(s)}]]
    BY <2>6
  <2>8. g = [s \in D |-> IF s = {} THEN 0 ELSE w[OneOf(s)].size + g[s \ {OneOf(s)}]]
    BY <2>1, <2>5 DEF IsSum
  <2>9. \A s \in D : G[s] = g[s]
    BY <2>3, <2>5, <2>7, <2>8
  <2>10. \A s \in E : s # {} => G[s \ {OneOf(s)}] = g[s \ {OneOf(s)}]
    BY <2>2, <2>5, <2>9
  <2>11. G = [s \in E |-> IF s = {} THEN 0 ELSE w[OneOf(s)].size + G[s \ {OneOf(s)}]]
    BY <2>7, <2>10
  <2>12. IsSum(w, Upto(n + 1), G)
    BY <2>5, <2>11 DEF IsSum
  <2>13. QED BY <2>12
<1>4. Nat \subseteq C
  <2> HIDE DEF C
  <2>1. QED BY <1>2, <1>3, SetNatInduction
<1>5. Cardinality(S) \in C
  BY <1>1, <1>4
<1>6. Upto(Cardinality(S)) = SUBSET S
  BY <1>1
<1>7. QED BY <1>5, <1>6

\* The equation on all subsets of S.
IsSumOver(w, S, g) == IsSum(w, SUBSET S, g)

\* Solutions agree where both are defined.
LEMMA SumUnique ==
    ASSUME NEW w, NEW S, NEW T, NEW g, NEW h, IsFiniteSet(S), T \subseteq S,
           IsSumOver(w, S, g), IsSumOver(w, T, h)
    PROVE  g[T] = h[T]
<1> DEFINE C == {U \in SUBSET T : g[U] = h[U]}
<1>1. IsFiniteSet(T)
  BY FS_Subset
<1>2. {} \in C
  BY DEF IsSumOver, IsSum
<1>3. ASSUME NEW U \in SUBSET T, U # {}, \A x \in U : U \ {x} \in C PROVE U \in C
  <2>1. OneOf(U) \in U
    BY <1>3 DEF OneOf
  <2>2. g[U \ {OneOf(U)}] = h[U \ {OneOf(U)}]
    BY <1>3, <2>1
  <2>3. g[U] = w[OneOf(U)].size + g[U \ {OneOf(U)}]
    BY <1>3 DEF IsSumOver, IsSum
  <2>4. h[U] = w[OneOf(U)].size + h[U \ {OneOf(U)}]
    BY <1>3 DEF IsSumOver, IsSum
  <2>5. QED BY <2>2, <2>3, <2>4
<1>4. \A U \in SUBSET T : U \in C
  <2> HIDE DEF C
  <2>1. QED BY <1>1, <1>2, <1>3, FiniteInduction
<1>5. QED BY <1>4

\* The sum of a set is the size of one file and the sum of the rest.
LEMMA SumEquation ==
    ASSUME NEW w, NEW S, IsFiniteSet(S)
    PROVE  /\ SizeSum(w, {}) = 0
           /\ S # {} => SizeSum(w, S) = w[OneOf(S)].size + SizeSum(w, S \ {OneOf(S)})
<1>1. ASSUME NEW T, IsFiniteSet(T)
      PROVE \E g : IsSumOver(w, T, g) /\ SizeSum(w, T) = g[T]
  <2>1. IsSumOver(w, T, CHOOSE g : IsSumOver(w, T, g))
    BY <1>1, SumExists DEF IsSumOver
  <2>2. QED BY <2>1, SumUnfold DEF IsSumOver
<1>2. SizeSum(w, {}) = 0
  <2>1. PICK g : IsSumOver(w, {}, g) /\ SizeSum(w, {}) = g[{}]
    BY <1>1, FS_EmptySet
  <2>2. QED BY <2>1 DEF IsSumOver, IsSum
<1>3. ASSUME S # {} PROVE SizeSum(w, S) = w[OneOf(S)].size + SizeSum(w, S \ {OneOf(S)})
  <2>1. PICK g : IsSumOver(w, S, g) /\ SizeSum(w, S) = g[S]
    BY <1>1
  <2>2. \E T : T = S \ {OneOf(S)}
    OBVIOUS
  <2>3. PICK T : T = S \ {OneOf(S)}
    BY <2>2
  <2>4. T \in SUBSET S /\ IsFiniteSet(T)
    BY <2>3, FS_Subset
  <2>5. PICK h : IsSumOver(w, T, h) /\ SizeSum(w, T) = h[T]
    BY <1>1, <2>4
  <2>6. g[T] = h[T]
    BY <2>1, <2>4, <2>5, SumUnique
  <2>7. g[S] = w[OneOf(S)].size + g[T]
    BY <1>3, <2>1, <2>3 DEF IsSumOver, IsSum
  <2>8. QED BY <2>1, <2>3, <2>5, <2>6, <2>7
<1>4. QED BY <1>2, <1>3

\* A sum of naturals is a natural.
LEMMA SumType ==
    ASSUME NEW w, NEW S, IsFiniteSet(S), \A x \in S : w[x].size \in Nat
    PROVE  SizeSum(w, S) \in Nat
<1> DEFINE C == {T \in SUBSET S : SizeSum(w, T) \in Nat}
<1>1. {} \in C
  <2>1. SizeSum(w, {}) = 0
    BY SumEquation
  <2>2. QED BY <2>1
<1>2. ASSUME NEW T \in SUBSET S, T # {}, \A x \in T : T \ {x} \in C PROVE T \in C
  <2>1. OneOf(T) \in T
    BY <1>2 DEF OneOf
  <2>2. SizeSum(w, T \ {OneOf(T)}) \in Nat /\ w[OneOf(T)].size \in Nat
    BY <1>2, <2>1
  <2>3. SizeSum(w, T) = w[OneOf(T)].size + SizeSum(w, T \ {OneOf(T)})
    BY <1>2, FS_Subset, SumEquation
  <2>4. QED BY <2>2, <2>3
<1>3. \A T \in SUBSET S : T \in C
  <2> HIDE DEF C
  <2>1. QED BY <1>1, <1>2, FiniteInduction
<1>4. QED BY <1>3

\* Any file may be taken out of a sum: the order of the fold does not matter.
LEMMA SumRemove ==
    ASSUME NEW w, NEW S, IsFiniteSet(S), \A x \in S : w[x].size \in Nat, NEW y \in S
    PROVE  SizeSum(w, S) = w[y].size + SizeSum(w, S \ {y})
<1> DEFINE C == {T \in SUBSET S : \A x \in T : SizeSum(w, T) = w[x].size + SizeSum(w, T \ {x})}
<1>1. {} \in C
  OBVIOUS
<1>2. ASSUME NEW T \in SUBSET S, T # {}, \A x \in T : T \ {x} \in C PROVE T \in C
  <2>1. \E c : c = OneOf(T)
    OBVIOUS
  <2>2. PICK c : c = OneOf(T)
    BY <2>1
  <2>3. c \in T
    BY <1>2, <2>2 DEF OneOf
  <2>4. SizeSum(w, T) = w[c].size + SizeSum(w, T \ {c})
    BY <1>2, <2>2, FS_Subset, SumEquation
  <2>5. ASSUME NEW x \in T, x # c PROVE SizeSum(w, T) = w[x].size + SizeSum(w, T \ {x})
    <3>1. SizeSum(w, T \ {c}) = w[x].size + SizeSum(w, (T \ {c}) \ {x})
      BY <1>2, <2>3, <2>5
    <3>2. SizeSum(w, T \ {x}) = w[c].size + SizeSum(w, (T \ {x}) \ {c})
      BY <1>2, <2>3, <2>5
    <3>3. (T \ {c}) \ {x} = (T \ {x}) \ {c}
      OBVIOUS
    <3>4. IsFiniteSet((T \ {c}) \ {x}) /\ (T \ {c}) \ {x} \subseteq S
      BY FS_Subset
    <3>5. SizeSum(w, (T \ {c}) \ {x}) \in Nat /\ w[x].size \in Nat /\ w[c].size \in Nat
      BY <2>3, <3>4, SumType
    <3>6. PICK n \in Nat, p \in Nat, q \in Nat :
            n = SizeSum(w, (T \ {c}) \ {x}) /\ p = w[x].size /\ q = w[c].size
      BY <3>5
    <3>7. SizeSum(w, T) = q + (p + n) /\ SizeSum(w, T \ {x}) = q + n
      BY <2>4, <3>1, <3>2, <3>3, <3>6
    <3>8. QED BY <3>6, <3>7
  <2>6. QED BY <2>4, <2>5
<1>3. \A T \in SUBSET S : T \in C
  <2> HIDE DEF C
  <2>1. QED BY <1>1, <1>2, FiniteInduction
<1>4. QED BY <1>3

\* A sum depends on the sizes of its files only.
LEMMA SumCongruence ==
    ASSUME NEW w, NEW v, NEW S, IsFiniteSet(S), \A x \in S : w[x].size = v[x].size
    PROVE  SizeSum(w, S) = SizeSum(v, S)
<1> DEFINE C == {T \in SUBSET S : SizeSum(w, T) = SizeSum(v, T)}
<1>1. {} \in C
  BY SumEquation
<1>2. ASSUME NEW T \in SUBSET S, T # {}, \A x \in T : T \ {x} \in C PROVE T \in C
  <2>1. OneOf(T) \in T
    BY <1>2 DEF OneOf
  <2>2. SizeSum(w, T \ {OneOf(T)}) = SizeSum(v, T \ {OneOf(T)})
    BY <1>2, <2>1
  <2>3. /\ SizeSum(w, T) = w[OneOf(T)].size + SizeSum(w, T \ {OneOf(T)})
        /\ SizeSum(v, T) = v[OneOf(T)].size + SizeSum(v, T \ {OneOf(T)})
    BY <1>2, FS_Subset, SumEquation
  <2>4. QED BY <2>1, <2>2, <2>3
<1>3. \A T \in SUBSET S : T \in C
  <2> HIDE DEF C
  <2>1. QED BY <1>1, <1>2, FiniteInduction
<1>4. QED BY <1>3

\* The largest element of a finite set of naturals.
LEMMA MaxNat ==
    ASSUME NEW S, IsFiniteSet(S), S \subseteq Nat, S # {}
    PROVE  Max(S) \in S /\ \A y \in S : y <= Max(S)
<1> DEFINE C == {T \in SUBSET S : T # {} => \E x \in T : \A y \in T : x >= y}
<1>1. {} \in C
  OBVIOUS
<1>2. ASSUME NEW T \in SUBSET S, T # {}, \A x \in T : T \ {x} \in C PROVE T \in C
  <2>1. PICK z \in T : TRUE
    BY <1>2
  <2>2. CASE T \ {z} = {}
    BY <2>1, <2>2
  <2>3. CASE T \ {z} # {}
    <3>1. PICK x \in T \ {z} : \A y \in T \ {z} : x >= y
      BY <1>2, <2>1, <2>3
    <3>2. CASE x >= z
      BY <3>1, <3>2
    <3>3. CASE ~(x >= z)
      <4>1. \A y \in T : z >= y
        BY <3>1, <3>3
      <4>2. QED BY <4>1
    <3>4. QED BY <3>2, <3>3
  <2>4. QED BY <2>2, <2>3
<1>3. \A T \in SUBSET S : T \in C
  <2> HIDE DEF C
  <2>1. QED BY <1>1, <1>2, FiniteInduction
<1>4. \E x \in S : \A y \in S : x >= y
  BY <1>3
<1>5. Max(S) \in S /\ \A y \in S : Max(S) >= y
  BY <1>4 DEF Max
<1>6. QED BY <1>5

----------------------------------------------------------------------------
(* Sequences and maxima *)

\* A sequence of SetToSeqs has each element of the set at one position.
LEMMA SetToSeqsFacts ==
    ASSUME NEW S, IsFiniteSet(S), NEW q \in SetToSeqs(S)
    PROVE  /\ q \in Seq(S)
           /\ \A i, j \in 1..Len(q) : q[i] = q[j] => i = j
           /\ \A x \in S : \E i \in 1..Len(q) : q[i] = x
<1>1. Cardinality(S) \in Nat
  BY FS_CardinalityType
<1>2. PICK n \in Nat : n = Cardinality(S)
  BY <1>1
<1>3. q \in [1..n -> S] /\ \A i, j \in 1..n : i # j => q[i] # q[j]
  BY <1>2 DEF SetToSeqs
<1>4. q \in Seq(S) /\ Len(q) = n
  BY <1>3
<1>5. q \in Injection(1..n, S)
  BY <1>3 DEF Injection, IsInjective
<1>6. Cardinality(1..n) = n
  BY FS_Interval
<1>7. q \in Surjection(1..n, S)
  BY <1>2, <1>5, <1>6, FS_Injection
<1>8. \A x \in S : \E i \in 1..n : q[i] = x
  BY <1>7 DEF Surjection
<1>9. QED BY <1>3, <1>4, <1>8

\* The positions of a sequence without its head.
LEMMA TailFacts ==
    ASSUME NEW S, NEW q \in Seq(S), q # <<>>
    PROVE  /\ Tail(q) \in Seq(S) /\ Head(q) = q[1] /\ q[1] \in S
           /\ Len(q) \in Nat /\ Len(q) > 0 /\ Len(Tail(q)) = Len(q) - 1
           /\ \A i \in 1..Len(Tail(q)) : i + 1 \in 1..Len(q) /\ Tail(q)[i] = q[i + 1]
           /\ \A i \in 1..Len(q) : i # 1 => i - 1 \in 1..Len(Tail(q)) /\ q[i] = Tail(q)[i - 1]
OBVIOUS

\* max of the code.
LEMMA MaxOfTwo ==
    ASSUME NEW a \in Int, NEW b \in Int
    PROVE  Max({a, b}) = IF a >= b THEN a ELSE b
<1>1. \E x \in {a, b} : \A y \in {a, b} : x >= y
  OBVIOUS
<1>2. Max({a, b}) \in {a, b} /\ \A y \in {a, b} : Max({a, b}) >= y
  BY <1>1 DEF Max
<1>3. QED BY <1>2

----------------------------------------------------------------------------
(* Tables *)

\* Rows that go, or that change and keep their id, leave a table.
LEMMA TableUpdate ==
    ASSUME NEW r, IsTable(r), NEW s, s \in [DOMAIN s -> Row], DOMAIN s \subseteq DOMAIN r,
           \A f \in DOMAIN s : s[f].id = r[f].id
    PROVE  IsTable(s)
<1>1. IsFiniteSet(DOMAIN s)
  BY FS_Subset DEF IsTable
<1>2. QED BY <1>1 DEF IsTable

\* The maximum of a column of a table, 0 for an empty one.
LEMMA MaxOfColumn ==
    ASSUME NEW D, IsFiniteSet(D), NEW g \in [D -> Nat], NEW I, I = {g[x] : x \in D}
    PROVE  Max({0} \cup I) \in Nat /\ \A x \in D : g[x] <= Max({0} \cup I)
<1>1. I \subseteq Nat
  OBVIOUS
<1>2. g \in Surjection(D, I)
  BY DEF Surjection
<1>3. IsFiniteSet(I)
  BY <1>2, FS_Surjection
<1>4. PICK J : J = I \cup {0}
  OBVIOUS
<1>5. IsFiniteSet(J) /\ J \subseteq Nat /\ J # {}
  BY <1>1, <1>3, <1>4, FS_AddElement
<1>6. Max(J) \in J /\ \A y \in J : y <= Max(J)
  BY <1>5, MaxNat
<1>7. {0} \cup I = J
  BY <1>4
<1>8. QED BY <1>4, <1>5, <1>6, <1>7

\* The id of a new row is above all that are in use.
LEMMA FreshIdIsFresh ==
    ASSUME IsTable(row)
    PROVE  /\ FreshId \in Nat \ {0}
           /\ \A f \in DOMAIN row : row[f].id # FreshId
<1>1. PICK D : D = DOMAIN row
  OBVIOUS
<1>2. PICK g : g = [f \in D |-> row[f].id]
  OBVIOUS
<1>3. g \in [D -> Nat] /\ IsFiniteSet(D)
  BY <1>1, <1>2 DEF IsTable, Row
<1>4. PICK I : I = {row[f].id : f \in DOMAIN row}
  OBVIOUS
<1>5. I = {g[f] : f \in D}
  BY <1>1, <1>2, <1>4
<1>6. Max({0} \cup I) \in Nat /\ \A f \in D : g[f] <= Max({0} \cup I)
  BY <1>3, <1>5, MaxOfColumn
<1>7. FreshId = 1 + Max({0} \cup I)
  BY <1>4 DEF FreshId
<1>8. \A f \in DOMAIN row : g[f] = row[f].id /\ g[f] \in Nat
  BY <1>1, <1>2, <1>3
<1>9. PICK m \in Nat : m = Max({0} \cup I)
  BY <1>6
<1>10. FreshId = 1 + m /\ \A f \in DOMAIN row : row[f].id <= m /\ row[f].id \in Nat
  BY <1>1, <1>6, <1>7, <1>8, <1>9
<1>11. QED BY <1>10

\* TierRouter::write leaves a table: an overwrite keeps the id.
LEMMA TableWrite ==
    ASSUME IsTable(row), NEW f \in Files, NEW s \in Sizes, now \in Nat, Write(f, s)
    PROVE  IsTable(row')
<1>1. PICK id : id = IF f \in DOMAIN row THEN row[f].id ELSE FreshId
  OBVIOUS
<1>2. id \in Nat \ {0} /\ \A g \in DOMAIN row : row[g].id = id => g = f
  <2>1. CASE f \in DOMAIN row
    BY <1>1, <2>1 DEF IsTable, Row
  <2>2. CASE f \notin DOMAIN row
    BY <1>1, <2>2, FreshIdIsFresh
  <2>3. QED BY <2>1, <2>2
<1>3. PICK r : r = [id |-> id, bm |-> {Local}, size |-> s, at |-> now, count |-> 0]
  OBVIOUS
<1>4. r \in Row /\ r.id = id
  BY <1>2, <1>3, SizeAssumption DEF Row, Tier
<1>5. row' = [g \in DOMAIN row \cup {f} |-> IF g = f THEN r ELSE row[g]]
  BY <1>1, <1>3 DEF Write
<1>6. DOMAIN row' = DOMAIN row \cup {f} /\ row' \in [DOMAIN row' -> Row]
  BY <1>4, <1>5 DEF IsTable
<1>7. IsFiniteSet(DOMAIN row') /\ DOMAIN row' \subseteq Files
  BY <1>6, FS_AddElement DEF IsTable
<1>8. ASSUME NEW g \in DOMAIN row', NEW h \in DOMAIN row', row'[g].id = row'[h].id
      PROVE  g = h
  BY <1>2, <1>4, <1>5, <1>6, <1>8 DEF IsTable
<1>9. QED BY <1>6, <1>7, <1>8 DEF IsTable

\* bytes_on_tier is the sum of the sizes of finitely many rows.
LEMMA BytesAreNatural ==
    ASSUME IsTable(row), NEW t
    PROVE  /\ BytesOn(t) \in Nat
           /\ BytesOn(t) = SizeSum(row, FilesOn(t))
           /\ IsFiniteSet(FilesOn(t)) /\ FilesOn(t) \subseteq DOMAIN row
           /\ \A f \in FilesOn(t) : row[f].size \in Nat
<1>1. PICK w, S : w = row /\ S = FilesOn(t)
  OBVIOUS
<1>2. S \subseteq DOMAIN row /\ \A f \in S : w[f].size \in Nat
  BY <1>1 DEF FilesOn, IsTable, Row
<1>3. IsFiniteSet(S)
  BY <1>2, FS_Subset DEF IsTable
<1>4. SizeSum(w, S) \in Nat
  BY <1>2, <1>3, SumType
<1>5. BytesOn(t) = SizeSum(row, FilesOn(t))
  BY DEF BytesOn
<1>6. QED BY <1>1, <1>2, <1>3, <1>4, <1>5

----------------------------------------------------------------------------
(* The inductive invariant *)

\* A cycle that nothing has disturbed since it measured the usage.
InCycle == ~disturbed /\ epc \in {"loop", "delete", "bits"}

\* A file is being evicted only while it is at the head of the queue.
HeadThere == epc \in {"delete", "bits"} => queue # <<>>

\* Nothing is counted as freed before the loop.
NothingFreed == epc \in {"wait", "usage", "load"} => freed = 0

\* What was measured is what the table still has and what was freed.
Measured ==
    (~disturbed /\ epc \in {"load", "loop", "delete", "bits"})
        => used = BytesOn(etier) + freed

\* The entries of the queue are the rows as they still are.
QueueCurrent ==
    \A i \in 1..Len(queue) :
        queue[i].path \in FilesOn(etier) /\ queue[i] = SnapshotOf(queue[i].path)

\* No file is in the queue twice.
QueueDistinct ==
    \A i, j \in 1..Len(queue) : queue[i].path = queue[j].path => i = j

\* The queue is in the order of the scores.
QueueSorted ==
    \A i, j \in 1..Len(queue) : i < j => InOrder(queue[i], queue[j])

\* No file that could be evicted is missing from the queue.
QueueComplete ==
    \A f \in Evictable(etier) : \E i \in 1..Len(queue) : queue[i].path = f

\* What holds of the queue of an undisturbed cycle.
QueueOK == QueueCurrent /\ QueueDistinct /\ QueueSorted /\ QueueComplete

\* The row looked up is the row of the head of the queue.
SeenCurrent ==
    (~disturbed /\ epc \in {"delete", "bits"})
        => LET f == Head(queue).path IN seen.id = row[f].id /\ seen.bm = row[f].bm

\* With the types this is inductive.
CycleInv ==
    HeadThere /\ NothingFreed /\ Measured /\ (InCycle => QueueOK) /\ SeenCurrent

----------------------------------------------------------------------------
(* Types *)

\* The part of CycleTypeOK about the task.
TaskOK ==
    /\ permit \in BOOLEAN
    /\ epc \in {"wait", "usage", "load", "loop", "delete", "bits"}
    /\ etier \in {Local, Nas}
    /\ used \in Nat /\ freed \in Nat
    /\ queue \in Seq(Snapshot)
    /\ seen \in [id : Nat, bm : SUBSET Tier]

\* The values a cycle is left with have their types.
LEMMA Cleared ==
    <<>> \in Seq(Snapshot) /\ [id |-> 0, bm |-> {}] \in [id : Nat, bm : SUBSET Tier]
OBVIOUS

\* The tables the daemon starts from give a clock that is a natural.
LEMMA InitType ==
    Init => CycleTypeOK
<1>1. SUFFICES ASSUME Init PROVE CycleTypeOK
  OBVIOUS
<1>2. IsTable(row)
  BY <1>1, StartAssumption DEF Init
<1>3. now \in Nat
  <2>1. PICK D : D = DOMAIN row
    OBVIOUS
  <2>2. PICK g : g = [f \in D |-> row[f].at]
    OBVIOUS
  <2>3. g \in [D -> Nat] /\ IsFiniteSet(D)
    BY <1>2, <2>1, <2>2 DEF IsTable, Row
  <2>4. PICK I : I = {row[f].at : f \in DOMAIN row}
    OBVIOUS
  <2>5. I = {g[f] : f \in D}
    BY <2>1, <2>2, <2>4
  <2>6. Max({0} \cup I) \in Nat
    BY <2>3, <2>5, MaxOfColumn
  <2>7. QED BY <1>1, <2>4, <2>6 DEF Init
<1>4. held \in [Files -> SUBSET Tier]
  BY <1>1, <1>2 DEF Init, IsTable, Row
<1>5. TaskOK
  BY <1>1, Cleared DEF Init, TaskOK
<1>6. disturbed \in BOOLEAN /\ events \in 0..MaxEvents
  <2>1. disturbed = FALSE /\ events = 0
    BY <1>1 DEF Init
  <2>2. events \in 0..MaxEvents
    BY <2>1, EventAssumption
  <2>3. QED BY <2>1, <2>2
<1>7. QED BY <1>2, <1>3, <1>4, <1>5, <1>6 DEF CycleTypeOK, TaskOK

\* record_access changes neither the id nor the bits.
LEMMA AccessedIsRow ==
    ASSUME CycleTypeOK, NEW f \in DOMAIN row
    PROVE  Accessed(f) \in Row /\ Accessed(f).id = row[f].id /\ Accessed(f).bm = row[f].bm
<1>1. PICK r : r = row[f]
  OBVIOUS
<1>2. r \in Row
  BY <1>1 DEF CycleTypeOK, IsTable
<1>3. PICK n : n = now
  OBVIOUS
<1>4. n \in Nat
  BY <1>3 DEF CycleTypeOK
<1>5. PICK s : s = [r EXCEPT !.at = n, !.count = @ + 1]
  OBVIOUS
<1>6. s \in Row /\ s.id = r.id /\ s.bm = r.bm
  <2>1. r.count \in Nat /\ r.count + 1 \in Nat
    BY <1>2 DEF Row
  <2>2. PICK c \in Nat : c = r.count + 1
    BY <2>1
  <2>3. s = [r EXCEPT !.at = n, !.count = c]
    BY <1>2, <1>5, <2>2 DEF Row
  <2>4. QED BY <1>2, <1>4, <2>3 DEF Row
<1>7. Accessed(f) = s
  BY <1>1, <1>3, <1>5 DEF Accessed
<1>8. QED BY <1>1, <1>6, <1>7

\* Counting an event keeps the types.
LEMMA EventType ==
    ASSUME CycleTypeOK, Event
    PROVE  disturbed' \in BOOLEAN /\ events' \in 0..MaxEvents
BY EventAssumption DEF CycleTypeOK, Event

\* Requests, uploads, promotions, the clock and a crash keep the types.
LEMMA OthersType ==
    ASSUME CycleTypeOK, Others
    PROVE  CycleTypeOK'
<1>1. ASSUME NEW f \in Files, NEW s \in Sizes, Write(f, s) PROVE CycleTypeOK'
  <2>1. IsTable(row')
    BY <1>1, TableWrite DEF CycleTypeOK
  <2>2. held' \in [Files -> SUBSET Tier]
    BY <1>1 DEF CycleTypeOK, Write, Tier
  <2>3. disturbed' \in BOOLEAN /\ events' \in 0..MaxEvents
    BY <1>1, EventType DEF Write
  <2>4. QED BY <1>1, <2>1, <2>2, <2>3 DEF CycleTypeOK, Write, taskVars
<1>2. ASSUME NEW f \in Files, f \in DOMAIN row, Event,
             NEW r \in Row, r.id = row[f].id, row' = [row EXCEPT ![f] = r],
             held' \in [Files -> SUBSET Tier], UNCHANGED <<now, taskVars>>
      PROVE  CycleTypeOK'
  <2>1. row' \in [DOMAIN row -> Row] /\ DOMAIN row' = DOMAIN row
    BY <1>2 DEF CycleTypeOK, IsTable
  <2>2. \A g \in DOMAIN row : row'[g].id = row[g].id
    BY <1>2 DEF CycleTypeOK, IsTable
  <2>3. IsTable(row')
    BY <2>1, <2>2, TableUpdate DEF CycleTypeOK
  <2>4. disturbed' \in BOOLEAN /\ events' \in 0..MaxEvents
    BY <1>2, EventType
  <2>5. QED BY <1>2, <2>3, <2>4 DEF CycleTypeOK, taskVars
<1>3. ASSUME NEW f \in Files, Read(f) PROVE CycleTypeOK'
  <2>1. f \in DOMAIN row /\ Accessed(f) \in Row /\ Accessed(f).id = row[f].id
    BY <1>3, AccessedIsRow DEF Read, Readable
  <2>2. held' \in [Files -> SUBSET Tier]
    BY <1>3 DEF Read, CycleTypeOK
  <2>3. QED BY <1>2, <1>3, <2>1, <2>2 DEF Read
<1>4. ASSUME NEW f \in Files, f \in DOMAIN row, NEW t \in Tier
      PROVE  /\ [Accessed(f) EXCEPT !.bm = @ \cup {t}] \in Row
             /\ [Accessed(f) EXCEPT !.bm = @ \cup {t}].id = row[f].id
  <2>1. PICK a : a = Accessed(f)
    OBVIOUS
  <2>2. a \in Row /\ a.id = row[f].id
    BY <1>4, <2>1, AccessedIsRow
  <2>3. PICK b : b = [a EXCEPT !.bm = @ \cup {t}]
    OBVIOUS
  <2>4. b \in Row /\ b.id = a.id
    BY <1>4, <2>2, <2>3 DEF Row
  <2>5. QED BY <2>1, <2>2, <2>3, <2>4
<1>5. ASSUME NEW f \in Files, Upload(f) PROVE CycleTypeOK'
  <2>1. f \in DOMAIN row
    BY <1>5 DEF Upload, Readable
  <2>2. PICK r : r = [Accessed(f) EXCEPT !.bm = @ \cup {S3}]
    OBVIOUS
  <2>3. r \in Row /\ r.id = row[f].id
    BY <1>4, <2>1, <2>2 DEF Tier
  <2>4. held' \in [Files -> SUBSET Tier]
    BY <1>5 DEF Upload, CycleTypeOK, Tier
  <2>5. Event /\ row' = [row EXCEPT ![f] = r] /\ UNCHANGED <<now, taskVars>>
    BY <1>5, <2>2 DEF Upload
  <2>6. QED BY <1>2, <2>1, <2>3, <2>4, <2>5
<1>6. ASSUME NEW f \in Files, Promote(f) PROVE CycleTypeOK'
  <2>1. f \in DOMAIN row
    BY <1>6 DEF Promote, Readable
  <2>2. PICK r : r = [Accessed(f) EXCEPT !.bm = @ \cup {Local}]
    OBVIOUS
  <2>3. r \in Row /\ r.id = row[f].id
    BY <1>4, <2>1, <2>2 DEF Tier
  <2>4. held' \in [Files -> SUBSET Tier]
    BY <1>6 DEF Promote, CycleTypeOK, Tier
  <2>5. Event /\ row' = [row EXCEPT ![f] = r] /\ UNCHANGED <<now, taskVars>>
    BY <1>6, <2>2 DEF Promote
  <2>6. QED BY <1>2, <2>1, <2>3, <2>4, <2>5
<1>7. ASSUME NEW f \in Files, Delete(f) PROVE CycleTypeOK'
  <2>1. row' \in [DOMAIN row' -> Row] /\ DOMAIN row' \subseteq DOMAIN row
    BY <1>7 DEF Delete, CycleTypeOK, IsTable
  <2>2. \A g \in DOMAIN row' : row'[g].id = row[g].id
    BY <1>7 DEF Delete
  <2>3. IsTable(row')
    BY <2>1, <2>2, TableUpdate DEF CycleTypeOK
  <2>4. held' \in [Files -> SUBSET Tier]
    BY <1>7 DEF Delete, CycleTypeOK
  <2>5. disturbed' \in BOOLEAN /\ events' \in 0..MaxEvents
    BY <1>7, EventType DEF Delete
  <2>6. QED BY <1>7, <2>3, <2>4, <2>5 DEF CycleTypeOK, Delete, taskVars
<1>8. ASSUME ClockTicks PROVE CycleTypeOK'
  <2>1. disturbed' \in BOOLEAN /\ events' \in 0..MaxEvents
    BY <1>8, EventType DEF ClockTicks
  <2>2. QED BY <1>8, <2>1 DEF CycleTypeOK, ClockTicks, taskVars
<1>9. ASSUME AdminEvict PROVE CycleTypeOK'
  BY <1>9 DEF CycleTypeOK, AdminEvict, tableVars
<1>10. ASSUME Crash PROVE CycleTypeOK'
  <2>1. PICK toNas \in SUBSET {f \in DOMAIN row : Local \in held[f]},
             toS3 \in SUBSET {f \in DOMAIN row : Readable(f) /\ S3 \notin row[f].bm} :
          LET New(f) == (IF f \in toNas THEN {Nas} ELSE {}) \cup (IF f \in toS3 THEN {S3} ELSE {})
          IN  /\ row' = [f \in DOMAIN row |->
                           [IF f \in toS3 THEN Accessed(f) ELSE row[f] EXCEPT !.bm = @ \cup New(f)]]
              /\ held' = [f \in Files |-> held[f] \cup New(f)]
    BY <1>10 DEF Crash
  <2> DEFINE New(f) == (IF f \in toNas THEN {Nas} ELSE {}) \cup (IF f \in toS3 THEN {S3} ELSE {})
  <2>2. /\ row' = [f \in DOMAIN row |->
                     [IF f \in toS3 THEN Accessed(f) ELSE row[f] EXCEPT !.bm = @ \cup New(f)]]
        /\ held' = [f \in Files |-> held[f] \cup New(f)]
    BY <2>1
  <2>3. \A f : New(f) \subseteq Tier
    BY DEF Tier
  <2> HIDE DEF New
  <2>4. held' \in [Files -> SUBSET Tier]
    BY <2>2, <2>3 DEF CycleTypeOK
  <2>5. ASSUME NEW f \in DOMAIN row PROVE row'[f] \in Row /\ row'[f].id = row[f].id
    <3>1. PICK a : a = IF f \in toS3 THEN Accessed(f) ELSE row[f]
      OBVIOUS
    <3>2. a \in Row /\ a.id = row[f].id
      BY <2>5, <3>1, AccessedIsRow DEF CycleTypeOK, IsTable
    <3>3. PICK N : N = New(f)
      OBVIOUS
    <3>4. PICK b : b = [a EXCEPT !.bm = @ \cup N]
      OBVIOUS
    <3>5. N \subseteq Tier
      BY <2>3, <3>3
    <3>6. b \in Row /\ b.id = a.id
      BY <3>2, <3>4, <3>5 DEF Row
    <3>7. row'[f] = b
      BY <2>2, <2>5, <3>1, <3>3, <3>4
    <3>8. QED BY <3>2, <3>6, <3>7
  <2>6. DOMAIN row' = DOMAIN row /\ row' \in [DOMAIN row' -> Row]
    BY <2>2, <2>5
  <2>7. IsTable(row')
    BY <2>5, <2>6, TableUpdate DEF CycleTypeOK
  <2>8. disturbed' \in BOOLEAN /\ events' \in 0..MaxEvents
    BY <1>10, EventType DEF Crash
  <2>9. TaskOK'
    BY <1>10, Cleared DEF Crash, TaskOK
  <2>10. now' \in Nat
    BY <1>10 DEF Crash, CycleTypeOK
  <2>11. QED BY <2>4, <2>7, <2>8, <2>9, <2>10 DEF CycleTypeOK, TaskOK
<1>11. QED BY <1>1, <1>3, <1>5, <1>6, <1>7, <1>8, <1>9, <1>10 DEF Others

\* The end of a cycle moves on to the other tier.
LEMMA CycleEndsType ==
    ASSUME etier \in {Local, Nas}, CycleEnds
    PROVE  /\ etier' \in {Local, Nas} /\ etier' # etier
           /\ epc' \in {"wait", "usage"} /\ used' = 0 /\ freed' = 0
           /\ queue' \in Seq(Snapshot) /\ seen' \in [id : Nat, bm : SUBSET Tier]
<1>1. Local # Nas
  BY DEF Local, Nas
<1>2. QED BY <1>1, Cleared DEF CycleEnds

\* Going on to the next file keeps the types: there is a head to drop.
LEMMA NextFileType ==
    ASSUME CycleTypeOK, HeadThere, epc \in {"delete", "bits"}, NextFile
    PROVE  /\ queue' \in Seq(Snapshot) /\ seen' \in [id : Nat, bm : SUBSET Tier]
           /\ epc' = "loop"
BY Cleared, TailFacts DEF CycleTypeOK, HeadThere, NextFile

\* The files of a sorted snapshot and their positions in it.
LEMMA SortedFacts ==
    ASSUME CycleTypeOK, NEW q \in Sorted(etier)
    PROVE  /\ q \in Seq(Snapshot)
           /\ \A i \in 1..Len(q) : q[i].path \in FilesOn(etier) /\ q[i] = SnapshotOf(q[i].path)
           /\ \A i, j \in 1..Len(q) : q[i].path = q[j].path => i = j
           /\ \A i, j \in 1..Len(q) : i < j => InOrder(q[i], q[j])
           /\ \A f \in Evictable(etier) : \E i \in 1..Len(q) : q[i].path = f
<1>1. PICK F : F = {f \in FilesOn(etier) : SafeToEvictFrom(row[f].bm, etier)}
  OBVIOUS
<1>2. PICK g : g = [f \in F |-> SnapshotOf(f)]
  OBVIOUS
<1>3. PICK S : S = {SnapshotOf(f) : f \in F}
  OBVIOUS
<1>4. q \in SetToSeqs(S) /\ \A i, j \in 1..Len(q) : i < j => InOrder(q[i], q[j])
  BY <1>1, <1>3 DEF Sorted
<1>5. F \subseteq FilesOn(etier) /\ F \subseteq DOMAIN row /\ F \subseteq Files
  BY <1>1 DEF FilesOn, CycleTypeOK, IsTable
<1>6. IsFiniteSet(F)
  BY <1>5, FS_Subset DEF CycleTypeOK, IsTable
<1>7. ASSUME NEW f \in F PROVE SnapshotOf(f) \in Snapshot /\ SnapshotOf(f).path = f
  <2>1. row[f] \in Row /\ f \in Files
    BY <1>5, <1>7 DEF CycleTypeOK, IsTable
  <2>2. QED BY <2>1 DEF Row, Snapshot, SnapshotOf
<1>8. g \in Surjection(F, S)
  BY <1>2, <1>3 DEF Surjection
<1>9. IsFiniteSet(S)
  BY <1>6, <1>8, FS_Surjection
<1>10. /\ q \in Seq(S)
       /\ \A i, j \in 1..Len(q) : q[i] = q[j] => i = j
       /\ \A x \in S : \E i \in 1..Len(q) : q[i] = x
  BY <1>4, <1>9, SetToSeqsFacts
<1>11. S \subseteq Snapshot /\ \A x \in S : x.path \in F /\ x = SnapshotOf(x.path)
  BY <1>3, <1>7
<1>12. \A i \in 1..Len(q) : q[i] \in S
  BY <1>10
<1>13. q \in Seq(Snapshot)
  BY <1>10, <1>11
<1>14. \A i \in 1..Len(q) : q[i].path \in FilesOn(etier) /\ q[i] = SnapshotOf(q[i].path)
  BY <1>5, <1>11, <1>12
<1>15. \A i, j \in 1..Len(q) : q[i].path = q[j].path => i = j
  BY <1>10, <1>14
<1>16. ASSUME NEW f \in Evictable(etier) PROVE \E i \in 1..Len(q) : q[i].path = f
  <2>1. f \in F
    BY <1>1 DEF Evictable
  <2>2. SnapshotOf(f) \in S /\ SnapshotOf(f).path = f
    BY <1>3, <1>7, <2>1
  <2>3. PICK i \in 1..Len(q) : q[i] = SnapshotOf(f)
    BY <1>10, <2>2
  <2>4. QED BY <2>2, <2>3
<1>17. QED BY <1>4, <1>13, <1>14, <1>15, <1>16

\* set_tier_bitmask changes the bits of the rows with the id and nothing else.
LEMMA WithBitsFacts ==
    ASSUME CycleTypeOK, NEW id, NEW bm \in SUBSET Tier
    PROVE  /\ DOMAIN WithBits(id, bm) = DOMAIN row
           /\ IsTable(WithBits(id, bm))
           /\ \A f \in DOMAIN row :
                LET r == WithBits(id, bm)[f]
                IN  /\ r.id = row[f].id /\ r.size = row[f].size
                    /\ r.at = row[f].at /\ r.count = row[f].count
                    /\ r.bm = IF row[f].id = id THEN bm ELSE row[f].bm
                    /\ row[f].id # id => r = row[f]
<1>1. PICK w : w = WithBits(id, bm)
  OBVIOUS
<1>2. DOMAIN w = DOMAIN row
  BY <1>1 DEF WithBits
<1>3. ASSUME NEW f \in DOMAIN row
      PROVE  /\ w[f] \in Row
             /\ w[f].id = row[f].id /\ w[f].size = row[f].size
             /\ w[f].at = row[f].at /\ w[f].count = row[f].count
             /\ w[f].bm = IF row[f].id = id THEN bm ELSE row[f].bm
             /\ row[f].id # id => w[f] = row[f]
  <2>1. PICK r : r = row[f]
    OBVIOUS
  <2>2. r \in Row
    BY <1>3, <2>1 DEF CycleTypeOK, IsTable
  <2>3. w[f] = IF r.id = id THEN [r EXCEPT !.bm = bm] ELSE r
    BY <1>1, <1>3, <2>1 DEF WithBits
  <2>4. QED BY <2>1, <2>2, <2>3 DEF Row
<1>4. w \in [DOMAIN w -> Row]
  BY <1>1, <1>2, <1>3 DEF WithBits
<1>5. IsTable(w)
  BY <1>2, <1>3, <1>4, TableUpdate DEF CycleTypeOK
<1>6. QED BY <1>1, <1>2, <1>3, <1>5

\* The file in hand.
LEMMA HeadFacts ==
    ASSUME CycleTypeOK, queue # <<>>
    PROVE  /\ Head(queue) = queue[1] /\ 1 \in 1..Len(queue)
           /\ Head(queue).path \in Files /\ Head(queue).size \in Nat
<1>1. queue \in Seq(Snapshot)
  BY DEF CycleTypeOK
<1>2. Head(queue) = queue[1] /\ queue[1] \in Snapshot /\ Len(queue) \in Nat /\ Len(queue) > 0
  BY <1>1, TailFacts
<1>3. QED BY <1>2 DEF Snapshot

\* The steps of the task keep the types.
LEMMA TaskType ==
    ASSUME CycleTypeOK, HeadThere, TickerTick \/ Notified \/ CycleStep
    PROVE  CycleTypeOK'
<1>1. ASSUME TickerTick \/ Notified PROVE CycleTypeOK'
  BY <1>1 DEF CycleTypeOK, TickerTick, Notified, tableVars
<1>2. ASSUME CheckUsage PROVE CycleTypeOK'
  <2>1. BytesOn(etier) \in Nat
    BY BytesAreNatural DEF CycleTypeOK
  <2>2. CASE BytesOn(etier) <= High[etier]
    <3>1. CycleEnds
      BY <1>2, <2>2 DEF CheckUsage
    <3>2. TaskOK'
      BY <1>2, <3>1, CycleEndsType DEF CycleTypeOK, TaskOK, CheckUsage
    <3>3. UNCHANGED <<row, held, now, events>> /\ disturbed' = FALSE
      BY <1>2 DEF CheckUsage, tableVars
    <3>4. QED BY <3>2, <3>3 DEF CycleTypeOK, TaskOK
  <2>3. CASE ~(BytesOn(etier) <= High[etier])
    BY <1>2, <2>1, <2>3 DEF CycleTypeOK, CheckUsage, tableVars
  <2>4. QED BY <2>2, <2>3
<1>3. ASSUME QueryFails PROVE CycleTypeOK'
  BY <1>3, CycleEndsType, EventType DEF CycleTypeOK, QueryFails, tableVars
<1>4. ASSUME LoadFiles PROVE CycleTypeOK'
  <2>1. queue' \in Seq(Snapshot)
    BY <1>4, SortedFacts DEF LoadFiles
  <2>2. QED BY <1>4, <2>1 DEF CycleTypeOK, LoadFiles, tableVars
<1>5. ASSUME LoopBreaks PROVE CycleTypeOK'
  BY <1>5, CycleEndsType DEF CycleTypeOK, LoopBreaks, tableVars
<1>6. ASSUME EvictLookup PROVE CycleTypeOK'
  <2>1. PICK f : f = Head(queue).path
    OBVIOUS
  <2>2. CASE f \in DOMAIN row /\ SafeToEvictFrom(row[f].bm, etier)
    <3>1. seen' = [id |-> row[f].id, bm |-> row[f].bm] /\ epc' = "delete" /\ queue' = queue
      BY <1>6, <2>1, <2>2 DEF EvictLookup
    <3>2. row[f] \in Row
      BY <2>2 DEF CycleTypeOK, IsTable
    <3>3. seen' \in [id : Nat, bm : SUBSET Tier]
      BY <3>1, <3>2 DEF Row
    <3>4. QED BY <1>6, <3>1, <3>3 DEF CycleTypeOK, EvictLookup, tableVars
  <2>3. CASE ~(f \in DOMAIN row /\ SafeToEvictFrom(row[f].bm, etier))
    <3>1. queue' = Tail(queue) /\ seen' = seen /\ epc' = epc
      BY <1>6, <2>1, <2>3 DEF EvictLookup
    <3>2. queue' \in Seq(Snapshot)
      BY <1>6, <3>1, TailFacts DEF EvictLookup, CycleTypeOK
    <3>3. QED BY <1>6, <3>1, <3>2 DEF CycleTypeOK, EvictLookup, tableVars
  <2>4. QED BY <2>2, <2>3
<1>7. ASSUME EvictDelete PROVE CycleTypeOK'
  <2>1. PICK f : f = Head(queue).path
    OBVIOUS
  <2>2. f \in Files
    BY <1>7, <2>1, HeadFacts DEF EvictDelete, HeadThere
  <2>3. CASE etier \in held[f]
    <3>1. held' = [held EXCEPT ![f] = @ \ {etier}] /\ epc' = "bits" /\ UNCHANGED <<queue, seen>>
      BY <1>7, <2>1, <2>3 DEF EvictDelete
    <3>2. held' \in [Files -> SUBSET Tier]
      BY <2>2, <3>1 DEF CycleTypeOK
    <3>3. QED BY <1>7, <3>1, <3>2 DEF CycleTypeOK, EvictDelete
  <2>4. CASE etier \notin held[f]
    <3>1. NextFile /\ held' = held
      BY <1>7, <2>1, <2>4 DEF EvictDelete
    <3>2. QED BY <1>7, <3>1, NextFileType DEF CycleTypeOK, EvictDelete
  <2>5. QED BY <2>3, <2>4
<1>8. ASSUME EvictBits PROVE CycleTypeOK'
  <2>1. seen.bm \ {etier} \in SUBSET Tier
    BY DEF CycleTypeOK
  <2>2. PICK id, bm : id = seen.id /\ bm = seen.bm \ {etier}
    OBVIOUS
  <2>3. IsTable(row')
    BY <1>8, <2>1, <2>2, WithBitsFacts DEF EvictBits
  <2>4. queue # <<>> /\ Head(queue).size \in Nat
    BY <1>8, HeadFacts DEF EvictBits, HeadThere
  <2>5. freed' \in Nat
    BY <1>8, <2>4 DEF EvictBits, CycleTypeOK
  <2>6. QED BY <1>8, <2>3, <2>5, NextFileType DEF CycleTypeOK, EvictBits
<1>9. ASSUME EvictFails PROVE CycleTypeOK'
  BY <1>9, NextFileType, EventType DEF CycleTypeOK, EvictFails, tableVars
<1>10. QED BY <1>1, <1>2, <1>3, <1>4, <1>5, <1>6, <1>7, <1>8, <1>9 DEF CycleStep

----------------------------------------------------------------------------
(* The invariant is kept *)

\* Before the first cycle there is nothing to show.
LEMMA InitCycle ==
    Init => CycleInv
BY DEF Init, CycleInv, HeadThere, NothingFreed, Measured, InCycle, SeenCurrent

\* Usage depends on the table alone.
LEMMA BytesKept ==
    ASSUME row' = row, etier' = etier
    PROVE  BytesOn(etier)' = BytesOn(etier)
BY DEF BytesOn, FilesOn

\* The queue stays good while the table is as it was and files only cease to be
\* evictable.
LEMMA QueueKept ==
    ASSUME QueueOK, UNCHANGED <<row, now, etier, queue>>, Evictable(etier)' \subseteq Evictable(etier)
    PROVE  QueueOK'
<1>1. QueueCurrent' /\ QueueDistinct'
  BY DEF QueueOK, QueueCurrent, QueueDistinct, FilesOn, SnapshotOf
<1>2. QueueSorted'
  BY DEF QueueOK, QueueSorted, InOrder, Colder, Age
<1>3. QueueComplete'
  BY DEF QueueOK, QueueComplete
<1>4. QED BY <1>1, <1>2, <1>3 DEF QueueOK

\* The invariant is about these variables only.
LEMMA NothingMoves ==
    ASSUME CycleInv, UNCHANGED <<row, held, now, epc, etier, used, queue, seen, freed, disturbed>>
    PROVE  CycleInv'
<1>1. HeadThere' /\ NothingFreed' /\ SeenCurrent'
  BY DEF CycleInv, HeadThere, NothingFreed, SeenCurrent
<1>2. Measured'
  BY BytesKept DEF CycleInv, Measured
<1>3. Evictable(etier)' = Evictable(etier)
  BY DEF Evictable, FilesOn
<1>4. InCycle' => QueueOK'
  BY <1>3, QueueKept DEF CycleInv, InCycle
<1>5. QED BY <1>1, <1>2, <1>4 DEF CycleInv

\* After an event the cycle is disturbed: little is known of it.
LEMMA Disturbs ==
    ASSUME Event, HeadThere', NothingFreed'
    PROVE  CycleInv'
BY DEF Event, CycleInv, Measured, InCycle, SeenCurrent

\* Requests, uploads, promotions, the clock and a crash keep the invariant.
LEMMA OthersInv ==
    ASSUME CycleInv, Others
    PROVE  CycleInv'
<1>1. ASSUME Event, UNCHANGED taskVars PROVE CycleInv'
  <2>1. HeadThere' /\ NothingFreed'
    BY <1>1 DEF CycleInv, HeadThere, NothingFreed, taskVars
  <2>2. QED BY <1>1, <2>1, Disturbs
<1>2. ASSUME NEW f \in Files, NEW s \in Sizes, Write(f, s) PROVE CycleInv'
  BY <1>1, <1>2 DEF Write
<1>3. ASSUME NEW f \in Files, Read(f) \/ Upload(f) \/ Promote(f) \/ Delete(f) PROVE CycleInv'
  BY <1>1, <1>3 DEF Read, Upload, Promote, Delete
<1>4. ASSUME ClockTicks PROVE CycleInv'
  BY <1>1, <1>4 DEF ClockTicks
<1>5. ASSUME AdminEvict PROVE CycleInv'
  BY <1>5, NothingMoves DEF AdminEvict, tableVars
<1>6. ASSUME Crash PROVE CycleInv'
  <2>1. HeadThere' /\ NothingFreed' /\ Event
    BY <1>6 DEF Crash, HeadThere, NothingFreed
  <2>2. QED BY <2>1, Disturbs
<1>7. QED BY <1>2, <1>3, <1>4, <1>5, <1>6 DEF Others

\* Outside the loop there is nothing to say but that nothing is freed.
LEMMA OutsideLoop ==
    ASSUME epc' \in {"wait", "usage"}, freed' = 0
    PROVE  CycleInv'
BY DEF CycleInv, HeadThere, NothingFreed, Measured, InCycle, SeenCurrent

\* The steps up to the loop, and its end, keep the invariant.
LEMMA BeforeLoopInv ==
    ASSUME CycleTypeOK, CycleInv,
           TickerTick \/ Notified \/ CheckUsage \/ QueryFails \/ LoadFiles \/ LoopBreaks
    PROVE  CycleInv'
<1>0. etier \in {Local, Nas}
  BY DEF CycleTypeOK
<1>1. ASSUME TickerTick \/ Notified PROVE CycleInv'
  BY <1>1, OutsideLoop DEF TickerTick, Notified, CycleInv, NothingFreed
<1>2. ASSUME CycleEnds PROVE CycleInv'
  BY <1>0, <1>2, CycleEndsType, OutsideLoop
<1>3. ASSUME CheckUsage PROVE CycleInv'
  <2>1. CASE BytesOn(etier) <= High[etier]
    BY <1>2, <1>3, <2>1 DEF CheckUsage
  <2>2. CASE ~(BytesOn(etier) <= High[etier])
    <3>1. /\ epc = "usage" /\ epc' = "load" /\ used' = BytesOn(etier)
          /\ row' = row /\ etier' = etier /\ freed' = freed
      BY <1>3, <2>2 DEF CheckUsage, tableVars
    <3>2. freed' = 0
      BY <3>1 DEF CycleInv, NothingFreed
    <3>3. BytesOn(etier) \in Nat /\ BytesOn(etier)' = BytesOn(etier)
      BY <3>1, BytesAreNatural, BytesKept DEF CycleTypeOK
    <3>4. used' = BytesOn(etier)' + freed'
      BY <3>1, <3>2, <3>3
    <3>5. QED BY <3>1, <3>2, <3>4
              DEF CycleInv, HeadThere, NothingFreed, Measured, InCycle, SeenCurrent
  <2>3. QED BY <2>1, <2>2
<1>4. ASSUME QueryFails PROVE CycleInv'
  BY <1>2, <1>4 DEF QueryFails
<1>5. ASSUME LoadFiles PROVE CycleInv'
  <2>1. /\ epc = "load" /\ epc' = "loop"
        /\ UNCHANGED <<row, held, now, etier, used, seen, freed, disturbed>>
    BY <1>5 DEF LoadFiles, tableVars
  <2>2. Measured'
    BY <2>1, BytesKept DEF CycleInv, Measured
  <2>3. PICK q : q = queue'
    OBVIOUS
  <2>4. q \in Sorted(etier)
    BY <1>5, <2>3 DEF LoadFiles
  <2>5. /\ \A i \in 1..Len(q) : q[i].path \in FilesOn(etier) /\ q[i] = SnapshotOf(q[i].path)
        /\ \A i, j \in 1..Len(q) : q[i].path = q[j].path => i = j
        /\ \A i, j \in 1..Len(q) : i < j => InOrder(q[i], q[j])
        /\ \A f \in Evictable(etier) : \E i \in 1..Len(q) : q[i].path = f
    BY <2>4, SortedFacts
  <2>6. QueueCurrent' /\ QueueDistinct'
    BY <2>1, <2>3, <2>5 DEF QueueCurrent, QueueDistinct, FilesOn, SnapshotOf
  <2>7. QueueSorted'
    BY <2>1, <2>3, <2>5 DEF QueueSorted, InOrder, Colder, Age
  <2>8. QueueComplete'
    BY <2>1, <2>3, <2>5 DEF QueueComplete, Evictable, FilesOn
  <2>9. HeadThere' /\ NothingFreed' /\ SeenCurrent'
    BY <2>1 DEF HeadThere, NothingFreed, SeenCurrent
  <2>10. QED BY <2>2, <2>6, <2>7, <2>8, <2>9 DEF CycleInv, QueueOK
<1>6. ASSUME LoopBreaks PROVE CycleInv'
  BY <1>2, <1>6 DEF LoopBreaks
<1>7. QED BY <1>1, <1>3, <1>4, <1>5, <1>6

\* The queue without its head, once the head can no longer be evicted.
LEMMA DropHead ==
    ASSUME CycleTypeOK, QueueOK, queue # <<>>, queue' = Tail(queue),
           etier' = etier, now' = now,
           \A f \in FilesOn(etier) : f # Head(queue).path
               => f \in FilesOn(etier)' /\ row'[f] = row[f],
           Evictable(etier)' \subseteq Evictable(etier) \ {Head(queue).path}
    PROVE  QueueOK'
<1>1. PICK q, t, h : q = queue /\ t = queue' /\ h = Head(queue).path
  OBVIOUS
<1>2. q \in Seq(Snapshot) /\ q # <<>> /\ t = Tail(q)
  BY <1>1 DEF CycleTypeOK
<1>3. /\ h = q[1].path /\ Len(q) \in Nat /\ Len(q) > 0 /\ Len(t) = Len(q) - 1
      /\ \A i \in 1..Len(t) : i + 1 \in 1..Len(q) /\ t[i] = q[i + 1]
      /\ \A i \in 1..Len(q) : i # 1 => i - 1 \in 1..Len(t) /\ q[i] = t[i - 1]
  BY <1>1, <1>2, TailFacts
<1>4. \A i \in 1..Len(t) : t[i].path # h
  BY <1>1, <1>3 DEF QueueOK, QueueDistinct
<1>5. QueueCurrent'
  <2>1. SUFFICES ASSUME NEW i \in 1..Len(t)
                 PROVE  t[i].path \in FilesOn(etier)' /\ t[i] = SnapshotOf(t[i].path)'
    BY <1>1 DEF QueueCurrent
  <2>2. t[i].path \in FilesOn(etier) /\ t[i] = SnapshotOf(t[i].path)
    BY <1>1, <1>3, <2>1 DEF QueueOK, QueueCurrent
  <2>3. t[i].path \in FilesOn(etier)' /\ row'[t[i].path] = row[t[i].path]
    BY <1>1, <1>4, <2>1, <2>2
  <2>4. QED BY <2>2, <2>3 DEF SnapshotOf
<1>6. QueueDistinct'
  <2>1. ASSUME NEW i \in 1..Len(t), NEW j \in 1..Len(t), t[i].path = t[j].path PROVE i = j
    BY <1>1, <1>3, <2>1 DEF QueueOK, QueueDistinct
  <2>2. QED BY <1>1, <2>1 DEF QueueDistinct
<1>7. QueueSorted'
  <2>1. ASSUME NEW i \in 1..Len(t), NEW j \in 1..Len(t), i < j PROVE InOrder(t[i], t[j])
    BY <1>1, <1>3, <2>1 DEF QueueOK, QueueSorted
  <2>2. QED BY <1>1, <2>1 DEF QueueSorted, InOrder, Colder, Age
<1>8. QueueComplete'
  <2>1. ASSUME NEW f \in Evictable(etier)' PROVE \E i \in 1..Len(t) : t[i].path = f
    <3>1. f \in Evictable(etier) /\ f # h
      BY <1>1, <2>1
    <3>2. PICK i \in 1..Len(q) : q[i].path = f
      BY <1>1, <3>1 DEF QueueOK, QueueComplete
    <3>3. i # 1
      BY <1>3, <3>1, <3>2
    <3>4. QED BY <1>3, <3>2, <3>3
  <2>2. QED BY <1>1, <2>1 DEF QueueComplete
<1>9. QED BY <1>5, <1>6, <1>7, <1>8 DEF QueueOK

\* The lookup keeps the invariant: a file it passes over cannot be evicted.
LEMMA LookupInv ==
    ASSUME CycleTypeOK, CycleInv, EvictLookup
    PROVE  CycleInv'
<1>1. /\ epc = "loop" /\ queue # <<>>
      /\ UNCHANGED <<row, held, now, etier, used, freed, disturbed>>
  BY DEF EvictLookup, tableVars
<1>2. PICK f : f = Head(queue).path
  OBVIOUS
<1>3. Evictable(etier)' = Evictable(etier)
  BY <1>1 DEF Evictable, FilesOn
<1>4. epc' \in {"loop", "delete"}
  BY <1>1 DEF EvictLookup
<1>5. NothingFreed' /\ Measured'
  <2>1. BytesOn(etier)' = BytesOn(etier)
    BY <1>1, BytesKept
  <2>2. QED BY <1>1, <1>4, <2>1 DEF CycleInv, NothingFreed, Measured
<1>6. InCycle' => QueueOK
  BY <1>1 DEF CycleInv, InCycle
<1>7. CASE f \in DOMAIN row /\ SafeToEvictFrom(row[f].bm, etier)
  <2>1. seen' = [id |-> row[f].id, bm |-> row[f].bm] /\ epc' = "delete" /\ queue' = queue
    BY <1>2, <1>7 DEF EvictLookup
  <2>2. HeadThere'
    BY <1>1, <2>1 DEF HeadThere
  <2>3. SeenCurrent'
    BY <1>1, <1>2, <2>1 DEF SeenCurrent
  <2>4. InCycle' => QueueOK'
    BY <1>1, <1>3, <1>6, <2>1, QueueKept
  <2>5. QED BY <1>5, <2>2, <2>3, <2>4 DEF CycleInv
<1>8. CASE ~(f \in DOMAIN row /\ SafeToEvictFrom(row[f].bm, etier))
  <2>1. queue' = Tail(queue) /\ epc' = "loop"
    BY <1>1, <1>2, <1>8 DEF EvictLookup
  <2>2. HeadThere' /\ SeenCurrent'
    BY <2>1 DEF HeadThere, SeenCurrent
  <2>3. f \notin Evictable(etier)
    BY <1>8 DEF Evictable, FilesOn
  <2>4. \A g \in FilesOn(etier) : g \in FilesOn(etier)' /\ row'[g] = row[g]
    BY <1>1 DEF FilesOn
  <2>5. Evictable(etier)' \subseteq Evictable(etier) \ {Head(queue).path}
    BY <1>2, <1>3, <2>3
  <2>6. InCycle' => QueueOK'
    BY <1>1, <1>6, <2>1, <2>4, <2>5, DropHead
  <2>7. QED BY <1>5, <2>2, <2>6 DEF CycleInv
<1>9. QED BY <1>7, <1>8

\* The delete keeps the invariant: a file without a copy cannot be evicted.
LEMMA DeleteInv ==
    ASSUME CycleTypeOK, CycleInv, EvictDelete
    PROVE  CycleInv'
<1>1. epc = "delete" /\ UNCHANGED <<row, now, etier, used, freed, disturbed>>
  BY DEF EvictDelete
<1>2. queue # <<>>
  BY <1>1 DEF CycleInv, HeadThere
<1>3. PICK f : f = Head(queue).path
  OBVIOUS
<1>4. f \in Files
  BY <1>2, <1>3, HeadFacts
<1>5. InCycle' => QueueOK
  BY <1>1 DEF CycleInv, InCycle
<1>6. BytesOn(etier)' = BytesOn(etier)
  BY <1>1, BytesKept
<1>7. CASE etier \in held[f]
  <2>1. /\ held' = [held EXCEPT ![f] = @ \ {etier}] /\ epc' = "bits"
        /\ UNCHANGED <<queue, seen>>
    BY <1>3, <1>7 DEF EvictDelete
  <2>2. Evictable(etier)' \subseteq Evictable(etier)
    <3>1. \A g \in Files : held'[g] \subseteq held[g]
      BY <1>4, <2>1 DEF CycleTypeOK
    <3>2. FilesOn(etier) \subseteq Files
      BY DEF FilesOn, CycleTypeOK, IsTable
    <3>3. QED BY <1>1, <3>1, <3>2 DEF Evictable, FilesOn
  <2>3. InCycle' => QueueOK'
    BY <1>1, <1>5, <2>1, <2>2, QueueKept
  <2>4. HeadThere' /\ NothingFreed' /\ Measured'
    BY <1>1, <1>2, <1>6, <2>1 DEF CycleInv, HeadThere, NothingFreed, Measured
  <2>5. SeenCurrent'
    BY <1>1, <2>1 DEF CycleInv, SeenCurrent
  <2>6. QED BY <2>3, <2>4, <2>5 DEF CycleInv
<1>8. CASE etier \notin held[f]
  <2>1. queue' = Tail(queue) /\ epc' = "loop" /\ held' = held
    BY <1>3, <1>8 DEF EvictDelete, NextFile
  <2>2. HeadThere' /\ NothingFreed' /\ Measured' /\ SeenCurrent'
    BY <1>1, <1>6, <2>1 DEF CycleInv, HeadThere, NothingFreed, Measured, SeenCurrent
  <2>3. \A g \in FilesOn(etier) : g \in FilesOn(etier)' /\ row'[g] = row[g]
    BY <1>1 DEF FilesOn
  <2>4. Evictable(etier)' \subseteq Evictable(etier) \ {Head(queue).path}
    BY <1>1, <1>3, <1>8, <2>1 DEF Evictable, FilesOn
  <2>5. InCycle' => QueueOK'
    BY <1>1, <1>2, <1>5, <2>1, <2>3, <2>4, DropHead
  <2>6. QED BY <2>2, <2>5 DEF CycleInv
<1>9. QED BY <1>7, <1>8

\* What the table loses when an undisturbed cycle clears the bit: the head of
\* the queue leaves the tier, and its bytes the usage.
LEMMA BitsEffect ==
    ASSUME CycleTypeOK, CycleInv, EvictBits, ~disturbed
    PROVE  /\ FilesOn(etier)' = FilesOn(etier) \ {Head(queue).path}
           /\ \A g \in FilesOn(etier)' : row'[g] = row[g]
           /\ BytesOn(etier) = Head(queue).size + BytesOn(etier)'
           /\ BytesOn(etier)' \in Nat
<1>1. epc = "bits" /\ queue # <<>> /\ etier' = etier
  BY DEF EvictBits, CycleInv, HeadThere
<1>2. PICK h : h = Head(queue).path
  OBVIOUS
<1>3. Head(queue) = queue[1] /\ 1 \in 1..Len(queue)
  BY <1>1, HeadFacts
<1>4. h \in FilesOn(etier) /\ Head(queue) = SnapshotOf(h)
  BY <1>1, <1>2, <1>3 DEF CycleInv, InCycle, QueueOK, QueueCurrent
<1>5. h \in DOMAIN row /\ Head(queue).size = row[h].size
  BY <1>4 DEF FilesOn, SnapshotOf
<1>6. PICK id, bm : id = seen.id /\ bm = seen.bm \ {etier}
  OBVIOUS
<1>7. id = row[h].id /\ bm \in SUBSET Tier /\ etier \notin bm
  BY <1>1, <1>2, <1>6 DEF CycleInv, SeenCurrent, CycleTypeOK
<1>8. row' = WithBits(id, bm)
  BY <1>6 DEF EvictBits
<1>9. /\ DOMAIN row' = DOMAIN row
      /\ \A g \in DOMAIN row :
           /\ row'[g].bm = IF row[g].id = id THEN bm ELSE row[g].bm
           /\ row[g].id # id => row'[g] = row[g]
  BY <1>7, <1>8, WithBitsFacts
<1>10. \A g \in DOMAIN row : row[g].id = id => g = h
  BY <1>5, <1>7 DEF CycleTypeOK, IsTable
<1>11. FilesOn(etier)' = FilesOn(etier) \ {h}
  BY <1>1, <1>5, <1>7, <1>9, <1>10 DEF FilesOn
<1>12. \A g \in FilesOn(etier)' : g \in DOMAIN row /\ row'[g] = row[g]
  BY <1>7, <1>9, <1>10, <1>11 DEF FilesOn
<1>13. PICK w, v, S, T : w = row /\ v = row' /\ S = FilesOn(etier) /\ T = FilesOn(etier)'
  OBVIOUS
<1>14. /\ BytesOn(etier) = SizeSum(w, S) /\ IsFiniteSet(S) /\ \A g \in S : w[g].size \in Nat
  BY <1>13, BytesAreNatural DEF CycleTypeOK
<1>15. BytesOn(etier)' = SizeSum(v, T)
  BY <1>13 DEF BytesOn
<1>16. T = S \ {h} /\ h \in S /\ \A g \in T : v[g].size = w[g].size
  BY <1>4, <1>11, <1>12, <1>13
<1>17. IsFiniteSet(T)
  BY <1>14, <1>16, FS_Subset
<1>18. SizeSum(w, S) = w[h].size + SizeSum(w, T)
  BY <1>14, <1>16, SumRemove
<1>19. SizeSum(v, T) = SizeSum(w, T)
  BY <1>16, <1>17, SumCongruence
<1>20. SizeSum(w, T) \in Nat
  BY <1>14, <1>16, <1>17, SumType
<1>21. QED BY <1>2, <1>5, <1>11, <1>12, <1>13, <1>14, <1>15, <1>18, <1>19, <1>20

\* The bitmask update keeps the invariant: what the table loses is counted.
LEMMA BitsInv ==
    ASSUME CycleTypeOK, CycleInv, EvictBits
    PROVE  CycleInv'
<1>1. /\ epc = "bits" /\ epc' = "loop" /\ queue' = Tail(queue) /\ freed' = freed + Head(queue).size
      /\ UNCHANGED <<held, now, etier, used, disturbed>>
  BY DEF EvictBits, NextFile
<1>2. queue # <<>>
  BY <1>1 DEF CycleInv, HeadThere
<1>3. HeadThere' /\ NothingFreed' /\ SeenCurrent'
  BY <1>1 DEF HeadThere, NothingFreed, SeenCurrent
<1>4. CASE disturbed
  BY <1>1, <1>3, <1>4 DEF CycleInv, Measured, InCycle
<1>5. CASE ~disturbed
  <2>1. PICK h : h = Head(queue).path
    OBVIOUS
  <2>2. /\ FilesOn(etier)' = FilesOn(etier) \ {h}
        /\ \A g \in FilesOn(etier)' : row'[g] = row[g]
        /\ BytesOn(etier) = Head(queue).size + BytesOn(etier)'
        /\ BytesOn(etier)' \in Nat
    BY <1>5, <2>1, BitsEffect
  <2>3. used = BytesOn(etier) + freed
    BY <1>1, <1>5 DEF CycleInv, Measured
  <2>4. freed \in Nat /\ Head(queue).size \in Nat
    BY <1>2, HeadFacts DEF CycleTypeOK
  <2>5. used' = BytesOn(etier)' + freed'
    <3>1. PICK b \in Nat, s \in Nat, n \in Nat :
            b = BytesOn(etier)' /\ s = Head(queue).size /\ n = freed
      BY <2>2, <2>4
    <3>2. used' = (s + b) + n /\ freed' = n + s
      BY <1>1, <2>2, <2>3, <3>1
    <3>3. QED BY <3>1, <3>2
  <2>6. Measured'
    BY <2>5 DEF Measured
  <2>7. Evictable(etier)' \subseteq Evictable(etier) \ {Head(queue).path}
    BY <1>1, <2>1, <2>2 DEF Evictable
  <2>8. QueueOK
    BY <1>1, <1>5 DEF CycleInv, InCycle
  <2>9. QueueOK'
    BY <1>1, <1>2, <2>1, <2>2, <2>7, <2>8, DropHead
  <2>10. QED BY <1>3, <2>6, <2>9 DEF CycleInv
<1>6. QED BY <1>4, <1>5

\* Every step keeps types and invariant.
LEMMA NextInv ==
    ASSUME CycleTypeOK, CycleInv, [Next]_vars
    PROVE  CycleTypeOK' /\ CycleInv'
<1>1. CASE Others
  BY <1>1, OthersType, OthersInv
<1>2. CASE TickerTick \/ Notified \/ CycleStep
  <2>1. CycleTypeOK'
    BY <1>2, TaskType DEF CycleInv
  <2>2. CASE EvictFails
    <3>1. HeadThere' /\ NothingFreed' /\ Event
      BY <2>2 DEF EvictFails, NextFile, HeadThere, NothingFreed
    <3>2. QED BY <2>1, <3>1, Disturbs
  <2>3. QED BY <1>2, <2>1, <2>2, BeforeLoopInv, LookupInv, DeleteInv, BitsInv DEF CycleStep
<1>3. CASE UNCHANGED vars
  <2>1. CycleTypeOK'
    BY <1>3 DEF CycleTypeOK, vars, tableVars, taskVars
  <2>2. CycleInv'
    BY <1>3, NothingMoves DEF vars, tableVars, taskVars
  <2>3. QED BY <2>1, <2>2
<1>4. QED BY <1>1, <1>2, <1>3 DEF Next

\* While nothing disturbs a cycle its snapshot is the table: the usage measured
\* is what the tier has and what was freed, and the queue holds every evictable
\* file, once, with the row it still has, in the order of the scores.
THEOREM CycleInvariant ==
    Spec => [](CycleTypeOK /\ CycleInv)
<1>1. Init => CycleTypeOK /\ CycleInv
  BY InitType, InitCycle
<1>2. CycleTypeOK /\ CycleInv /\ [Next]_vars => (CycleTypeOK /\ CycleInv)'
  BY NextInv
<1>3. QED BY <1>1, <1>2, PTL DEF Spec

\* Every variable of the eviction cycle keeps its type; rows keep ids of their own
\* although a deleted row's id may be used again.
THEOREM EvictionTypeCorrect ==
    Spec => []CycleTypeOK
<1>1. CycleTypeOK /\ CycleInv => CycleTypeOK
  OBVIOUS
<1>2. QED BY <1>1, CycleInvariant, PTL

----------------------------------------------------------------------------
(* What the loop promises *)

\* Only the lookup of evict_from_tier begins an eviction.
LEMMA OnlyLookupBegins ==
    ASSUME [Next]_vars, epc = "loop", epc' = "delete"
    PROVE  EvictLookup
<1>1. CASE UNCHANGED vars
  BY <1>1 DEF vars, taskVars
<1>2. CASE Others
  BY <1>2 DEF Others, Write, Read, Upload, Promote, Delete, ClockTicks, AdminEvict, Crash, taskVars
<1>3. CASE TickerTick \/ Notified \/ CycleStep
  BY <1>3 DEF CycleStep, TickerTick, Notified, CheckUsage, QueryFails, LoadFiles, LoopBreaks,
              CycleEnds, EvictDelete, EvictBits, EvictFails
<1>4. QED BY <1>1, <1>2, <1>3 DEF Next

\* Only the end of the loop or a crash changes the tier from inside it.
LEMMA OnlyBreakEnds ==
    ASSUME [Next]_vars, epc = "loop", etier' # etier, ~disturbed'
    PROVE  LoopBreaks
<1>1. CASE UNCHANGED vars
  BY <1>1 DEF vars, taskVars
<1>2. CASE Others
  BY <1>2 DEF Others, Write, Read, Upload, Promote, Delete, ClockTicks, AdminEvict, Crash,
              Event, taskVars
<1>3. CASE TickerTick \/ Notified \/ CycleStep
  BY <1>3 DEF CycleStep, TickerTick, Notified, CheckUsage, QueryFails, LoadFiles,
              EvictLookup, EvictDelete, EvictBits, EvictFails
<1>4. QED BY <1>1, <1>2, <1>3 DEF Next

\* used.saturating_sub(low_bytes)
LEMMA TargetValue ==
    ASSUME CycleTypeOK
    PROVE  /\ Low[etier] \in Nat
           /\ TargetFree = IF 0 >= used - Low[etier] THEN 0 ELSE used - Low[etier]
<1>1. Low[etier] \in Nat /\ used \in Nat
  BY WatermarkAssumption DEF CycleTypeOK
<1>2. PICK d \in Int : d = used - Low[etier]
  BY <1>1
<1>3. Max({0, d}) = IF 0 >= d THEN 0 ELSE d
  BY MaxOfTwo
<1>4. QED BY <1>1, <1>2, <1>3 DEF TargetFree

\* The loop of run_eviction_cycle begins no eviction on a tier that is already at
\* its low watermark.
THEOREM EvictsOnlyAboveLowTheorem ==
    Spec => EvictsOnlyAboveLow
<1>1. ASSUME CycleTypeOK, CycleInv, [Next]_vars, epc = "loop", epc' = "delete", ~disturbed
      PROVE  BytesOn(etier) > Low[etier]
  <2>1. freed < TargetFree
    BY <1>1, OnlyLookupBegins DEF EvictLookup
  <2>2. used = BytesOn(etier) + freed
    BY <1>1 DEF CycleInv, Measured
  <2>3. BytesOn(etier) \in Nat /\ freed \in Nat
    BY <1>1, BytesAreNatural DEF CycleTypeOK
  <2>4. QED BY <1>1, <2>1, <2>2, <2>3, TargetValue
<1>2. CycleTypeOK /\ CycleInv /\ [Next]_vars
        => [epc = "loop" /\ epc' = "delete" /\ ~disturbed => BytesOn(etier) > Low[etier]]_vars
  BY <1>1
<1>3. QED BY <1>2, CycleInvariant, PTL DEF Spec, EvictsOnlyAboveLow

\* The loop of run_eviction_cycle ends with the tier at its low watermark or with
\* nothing on it that could be evicted.
THEOREM CycleReachesLowTheorem ==
    Spec => CycleReachesLow
<1>1. ASSUME CycleTypeOK, CycleInv, [Next]_vars,
             epc = "loop", etier' # etier, ~disturbed, ~disturbed'
      PROVE  BytesOn(etier) <= Low[etier] \/ Evictable(etier) = {}
  <2>1. freed >= TargetFree \/ queue = <<>>
    BY <1>1, OnlyBreakEnds DEF LoopBreaks
  <2>2. CASE freed >= TargetFree
    <3>1. used = BytesOn(etier) + freed
      BY <1>1 DEF CycleInv, Measured
    <3>2. BytesOn(etier) \in Nat /\ freed \in Nat
      BY <1>1, BytesAreNatural DEF CycleTypeOK
    <3>3. QED BY <1>1, <2>2, <3>1, <3>2, TargetValue
  <2>3. CASE queue = <<>>
    <3>1. QueueComplete
      BY <1>1 DEF CycleInv, InCycle, QueueOK
    <3>2. QED BY <2>3, <3>1 DEF QueueComplete
  <2>4. QED BY <2>1, <2>2, <2>3
<1>2. CycleTypeOK /\ CycleInv /\ [Next]_vars
        => [(epc = "loop" /\ etier' # etier /\ ~disturbed /\ ~disturbed')
              => BytesOn(etier) <= Low[etier] \/ Evictable(etier) = {}]_vars
  BY <1>1
<1>3. QED BY <1>2, CycleInvariant, PTL DEF Spec, CycleReachesLow

\* One side of the comparison of two scores is a natural number.
LEMMA ScaledType ==
    ASSUME now \in Nat, NEW x, x.at \in Nat, x.count \in Nat, NEW y, y.at \in Nat
    PROVE  (RecencyWeight + FrequencyWeight * x.count * Age(x)) * Age(y) \in Nat
<1>1. ASSUME NEW z, z.at \in Nat PROVE Age(z) \in Nat
  <2>1. PICK d \in Int : d = now - z.at
    BY <1>1
  <2>2. Max({d, 1}) = IF d >= 1 THEN d ELSE 1
    BY MaxOfTwo
  <2>3. QED BY <2>1, <2>2 DEF Age
<1>2. PICK a \in Nat, b \in Nat, c \in Nat : a = Age(x) /\ b = Age(y) /\ c = x.count
  BY <1>1
<1>3. FrequencyWeight * c \in Nat
  BY WeightAssumption
<1>4. FrequencyWeight * c * a \in Nat
  BY <1>3
<1>5. RecencyWeight + FrequencyWeight * c * a \in Nat
  BY <1>4, WeightAssumption
<1>6. (RecencyWeight + FrequencyWeight * c * a) * b \in Nat
  BY <1>5
<1>7. QED BY <1>2, <1>6

\* The score orders files strictly.
LEMMA ColderAsymmetric ==
    ASSUME now \in Nat, NEW x, x.at \in Nat, x.count \in Nat,
           NEW y, y.at \in Nat, y.count \in Nat, Colder(x, y)
    PROVE  ~Colder(y, x)
<1>1. PICK p \in Nat : p = (RecencyWeight + FrequencyWeight * x.count * Age(x)) * Age(y)
  BY ScaledType
<1>2. PICK q \in Nat : q = (RecencyWeight + FrequencyWeight * y.count * Age(y)) * Age(x)
  BY ScaledType
<1>3. p < q
  BY <1>1, <1>2 DEF Colder
<1>4. ~(q < p)
  BY <1>3
<1>5. QED BY <1>1, <1>2, <1>4 DEF Colder

\* The file that evict_from_tier is called with has a score no higher than that of
\* any other file that could be evicted.
THEOREM ColdestFirstTheorem ==
    Spec => ColdestFirst
<1>1. ASSUME CycleTypeOK, CycleInv, [Next]_vars, epc = "loop", epc' = "delete", ~disturbed,
             NEW f \in Evictable(etier)
      PROVE  ~Colder(row[f], row[Head(queue).path])
  <2>1. QueueOK /\ queue # <<>>
    BY <1>1, OnlyLookupBegins DEF EvictLookup, CycleInv, InCycle
  <2>2. PICK h : h = Head(queue).path
    OBVIOUS
  <2>3. Head(queue) = queue[1] /\ 1 \in 1..Len(queue)
    BY <1>1, <2>1, HeadFacts
  <2>4. h \in FilesOn(etier) /\ queue[1] = SnapshotOf(h)
    BY <2>1, <2>2, <2>3 DEF QueueOK, QueueCurrent
  <2>5. PICK i \in 1..Len(queue) : queue[i].path = f
    BY <1>1, <2>1 DEF QueueOK, QueueComplete
  <2>6. f \in FilesOn(etier) /\ queue[i] = SnapshotOf(f)
    BY <2>1, <2>5 DEF QueueOK, QueueCurrent
  <2>7. PICK a, b : a = queue[1] /\ b = queue[i]
    OBVIOUS
  <2>8. /\ row[h] \in Row /\ row[f] \in Row
        /\ a.at = row[h].at /\ a.count = row[h].count
        /\ b.at = row[f].at /\ b.count = row[f].count
    BY <1>1, <2>4, <2>6, <2>7 DEF FilesOn, SnapshotOf, CycleTypeOK, IsTable
  <2>9. a.at \in Nat /\ a.count \in Nat /\ b.at \in Nat /\ b.count \in Nat /\ now \in Nat
    BY <1>1, <2>8 DEF Row, CycleTypeOK
  <2>10. ~Colder(b, a)
    <3>1. CASE i = 1
      BY <2>7, <2>9, <3>1, ColderAsymmetric
    <3>2. CASE i # 1
      <4>1. InOrder(a, b)
        BY <2>1, <2>3, <2>5, <2>7, <3>2 DEF QueueOK, QueueSorted
      <4>2. QED BY <2>9, <4>1, ColderAsymmetric DEF InOrder
    <3>3. QED BY <3>1, <3>2
  <2>11. Colder(row[f], row[h]) <=> Colder(b, a)
    BY <2>8 DEF Colder, Age
  <2>12. QED BY <2>2, <2>10, <2>11
<1>2. CycleTypeOK /\ CycleInv /\ [Next]_vars
        => [(epc = "loop" /\ epc' = "delete" /\ ~disturbed)
              => \A f \in Evictable(etier) : ~Colder(row[f], row[Head(queue).path])]_vars
  BY <1>1
<1>3. QED BY <1>2, CycleInvariant, PTL DEF Spec, ColdestFirst
=============================================================================
