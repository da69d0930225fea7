--------------------------- MODULE FileBytesProofs ---------------------------
(***************************************************************************)
(* What the two conversions of file contents return: facts the proofs      *)
(* about both mounts cite.                                                 *)
(***************************************************************************)
EXTENDS FileBytes, TLAPS

\* Contents are the byte sequences of at most MaxLen bytes.
LEMMA ContentsAreSeqs ==
    \A c : c \in Contents <=> c \in Seq(Bytes) /\ Len(c) <= MaxLen
<1>1. ASSUME NEW c, c \in Contents PROVE c \in Seq(Bytes) /\ Len(c) <= MaxLen
  <2>1. PICK n \in 0..MaxLen : c \in [1..n -> Bytes]
    BY <1>1 DEF Contents
  <2>2. n \in Nat /\ n <= MaxLen
    BY <2>1, MaxLenAssumption
  <2> QED BY <2>1, <2>2
<1>2. ASSUME NEW c, c \in Seq(Bytes), Len(c) <= MaxLen PROVE c \in Contents
  <2>1. Len(c) \in 0..MaxLen /\ c \in [1..Len(c) -> Bytes]
    BY <1>2, MaxLenAssumption
  <2> QED BY <2>1 DEF Contents
<1> QED BY <1>1, <1>2

\* The empty file is a contents.
LEMMA EmptyContents == <<>> \in Contents
<1>1. <<>> \in Seq(Bytes) /\ Len(<<>>) = 0 /\ 0 <= MaxLen
  BY MaxLenAssumption
<1> QED BY <1>1, ContentsAreSeqs

\* Splicing (write_all at a file position) makes a contents again; what it
\* holds at each place.
LEMMA SpliceContents ==
    ASSUME NEW buf \in Contents, NEW off \in Nat, NEW data \in Contents,
           off + Len(data) <= MaxLen
    PROVE  LET r == Splice(buf, off, data) IN
           /\ r \in Contents
           /\ Len(r) = Larger(Len(buf), off + Len(data))
           /\ \A i \in 1..Len(r) :
                r[i] = IF i > off /\ i <= off + Len(data) THEN data[i - off]
                       ELSE IF i <= Len(buf) THEN buf[i] ELSE 0
<1> DEFINE n == Larger(Len(buf), off + Len(data))
           v(i) == IF i > off /\ i <= off + Len(data) THEN data[i - off]
                   ELSE IF i <= Len(buf) THEN buf[i] ELSE 0
<1>1. buf \in Seq(Bytes) /\ Len(buf) <= MaxLen /\ data \in Seq(Bytes) /\ Len(data) <= MaxLen
  BY ContentsAreSeqs
<1>2. n \in Nat /\ n <= MaxLen
  BY <1>1 DEF Larger
<1>3. \A i \in 1..n : v(i) \in Bytes
  BY <1>1, <1>2, BytesAssumption
<1>4. Splice(buf, off, data) = [i \in 1..n |-> v(i)]
  BY DEF Splice
<1> HIDE DEF n, v
<1>5. [i \in 1..n |-> v(i)] \in [1..n -> Bytes]
  BY <1>3
<1>6. n \in 0..MaxLen
  BY <1>2, MaxLenAssumption
<1>7. [i \in 1..n |-> v(i)] \in Contents
  BY <1>5, <1>6 DEF Contents
<1>8. Len([i \in 1..n |-> v(i)]) = n
  BY <1>2
<1> QED BY <1>4, <1>7, <1>8 DEF n, v

\* A range of a contents is a contents.
LEMMA RangeContents ==
    ASSUME NEW data \in Contents, NEW off \in Nat, NEW size \in Nat
    PROVE  ReadRange(data, off, size) \in Contents
<1> DEFINE start == Smaller(off, Len(data))
           end == Smaller(start + size, Len(data))
<1>1. data \in Seq(Bytes) /\ Len(data) <= MaxLen
  BY ContentsAreSeqs, MaxLenAssumption
<1>2. start \in Nat /\ end \in Nat /\ end <= Len(data)
  BY <1>1 DEF Smaller
<1>3. ReadRange(data, off, size) = SubSeq(data, start + 1, end)
  BY DEF ReadRange
<1> HIDE DEF start, end
<1>4. SubSeq(data, start + 1, end) \in Seq(Bytes) /\ Len(SubSeq(data, start + 1, end)) <= MaxLen
  BY <1>1, <1>2, MaxLenAssumption
<1> QED BY <1>3, <1>4, ContentsAreSeqs
=============================================================================
