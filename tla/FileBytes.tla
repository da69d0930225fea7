------------------------------ MODULE FileBytes ------------------------------
(***************************************************************************)
(* File contents as short sequences of bytes, and the two conversions the  *)
(* FUSE handlers apply to them: cutting a read to the requested range, and *)
(* splicing written bytes into the file's old contents.                    *)
(***************************************************************************)
EXTENDS Naturals, Sequences

CONSTANTS
    Bytes,      \* byte values; 0 fills gaps
    MaxLen,     \* bound: the longest file
    Absent      \* no file

ASSUME BytesAssumption == 0 \in Bytes /\ Bytes \subseteq Nat
ASSUME MaxLenAssumption == MaxLen \in Nat \ {0}

Contents == UNION {[1..n -> Bytes] : n \in 0..MaxLen}

ASSUME AbsentAssumption == Absent \notin Contents

Smaller(a, b) == IF a < b THEN a ELSE b
Larger(a, b)  == IF a < b THEN b ELSE a

\* data[start..end] of the read handlers.
ReadRange(data, offset, size) ==
    LET start == Smaller(offset, Len(data))
        end   == Smaller(start + size, Len(data))
    IN SubSeq(data, start + 1, end)

Splice_resizes_past(buf, offset, data) ==
    LET end == offset + Len(data) IN
    [i \in 1..Larger(Len(buf), end + 1) |->
        IF i > offset /\ i <= end THEN data[i - offset]
        ELSE IF i <= Len(buf) THEN buf[i] ELSE 0]

\* buf.resize(end, 0) when the file is shorter, then copy_from_slice.
Splice(buf, offset, data) ==
    LET end == offset + Len(data) IN
    [i \in 1..Larger(Len(buf), end) |->
        IF i > offset /\ i <= end THEN data[i - offset]
        ELSE IF i <= Len(buf) THEN buf[i] ELSE 0]
=============================================================================
