------------------------------- MODULE RsmBytes --------------------------------
(***************************************************************************)
(* The bytes of an .rsm file as the reader's passes see them: the record    *)
(* tags and the byte helpers of rsm/rsm_internal.h.  The file has no index  *)
(* and no record lengths: every pass finds its records by their shape.      *)
(*                                                                         *)
(* Offset 0 here is offset 0x400 of the file, where the earliest pass       *)
(* starts; the fixed header before it holds nothing the passes read.        *)
(***************************************************************************)
EXTENDS Integers, Sequences, FiniteSetsExt

CONSTANTS
    Files       \* the .rsm files, each a sequence of bytes

ASSUME FilesAssumption == \A f \in Files : f \in Seq(0..255)

VARIABLES
    buf         \* the file Reader::open() was given

Size    == Len(buf)
Byte(i) == buf[i + 1]

MetadataStart   == 32       \* 0x420
ProceduresStart == 38       \* 0x426

\* Record tags.
Primitive == 42     \* 0x2a, also the tag of an aggregate
Local     == 32     \* 0x20, also the tag of a global
Param     == 33     \* 0x21
VarParam  == 34     \* 0x22
Function  == 40     \* 0x28
End       == 99     \* 0x63, also the letter c
Stop      == 255    \* 0xff
TypeId    == 156    \* 0x9c
Payload   == 102    \* 0x66

NestedFunction == 65
FunctionTags   == {160, 224, 128, 32, NestedFunction}

U16(i)   == Byte(i) + 256 * Byte(i + 1)
U32(i)   == U16(i) + 65536 * U16(i + 2)
Int8(b)  == IF b < 128 THEN b ELSE b - 256
Int16(v) == IF v < 32768 THEN v ELSE v - 65536
Odd(b)   == b % 2 = 1

Name(i, n)  == SubSeq(buf, i + 1, i + n)
Zeros(i)    == Byte(i) = 0 /\ Byte(i + 1) = 0
\* Every record is its tag, the length of its name and the name.
NameEnd(i)  == i + 2 + Byte(i + 1)
NameOf(i)   == Name(i + 2, Byte(i + 1))

Letters     == (65..90) \union (97..122)
Identifiers == Letters \union (48..57) \union {36, 46, 64, 95}

IsPrintableName(i, n) == \A k \in i..(i + n - 1) : Byte(k) \in Identifiers
IsPrintAscii(i, n)    == \A k \in i..(i + n - 1) : Byte(k) \in 32..126
=============================================================================
