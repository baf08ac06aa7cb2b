------------------------------ MODULE RsmEncoding -------------------------------
(***************************************************************************)
(* What the compiler writes into an .rsm file, as the format notes in        *)
(* rsm-format.txt and the comments of the reader record it: an encoder for   *)
(* each record, from a description of the declaration.  A type is named by   *)
(* a marker of the unit's table or by the hash of an aggregate.              *)
(***************************************************************************)
EXTENDS Integers, Sequences, SequencesExt

Zero(n)      == [k \in 1..n |-> 0]
Word(v)      == <<v % 256, (v \div 256) % 256>>
AddressOf(a) == Word(16 * a) \o Word(a \div 4096)
Tagged(tag, name) == <<tag, Len(name)>> \o name

\* A stack offset takes one byte when it is even and fits, two otherwise.
StackBytes(s) ==
    IF s % 2 = 0 /\ s \in -128..127 THEN <<s % 256>> ELSE Word((2 * s + 1) % 65536)

TypeBytes(t) == IF t.marker # 0 THEN <<t.marker>> ELSE Word(t.hash)

\* A parameter or local: the current form, the form of older compilers (0x62)
\* and the two-byte subtag of an out parameter.
SubBytes(d) ==
    Tagged(d.tag, d.name)
    \o (CASE d.form = "new" -> <<102, 0, 0>> \o TypeBytes(d.type)
          [] d.form = "old" -> <<98, 0, 0, d.type.marker>>
          [] d.form = "out" -> <<205, 2, 0, 0, d.type.marker>>)
    \o StackBytes(d.stack)

\* Two bytes of padding, a return-value descriptor, an entry of an enumeration
\* among the parameters and locals.
Padding == <<9, 9>>
Descriptor(name) == Tagged(35, name) \o <<7, 0, 0, 8, 9, 7, 9, 8>>
EnumBytes(name, parent, ordinal) ==
    Tagged(37, name) \o <<10, 0, 0>> \o Word(parent) \o <<0, 0, 2 * ordinal>>

\* The head of a function in its five flavours, a trailer, the body, the end.
FunctionBytes(p, trailer, body) ==
    Tagged(40, p.name)
    \o (CASE p.flavour = 32 -> <<32, 0, 0>>
          [] p.flavour = 65 -> <<65, 2, 16, 7>>
          [] OTHER -> <<p.flavour, 0, 0, 1, 2, 3, 4>>)
    \o AddressOf(p.address) \o trailer \o body \o <<99>>

\* A global, with the extended form's trailer or without.
GlobalBytes(d) ==
    Tagged(32, d.name) \o <<102, 0, 0>> \o TypeBytes(d.type) \o AddressOf(d.address)
    \o (IF d.extended THEN <<156, 9, 1, 2, 3, 4, 255>> ELSE <<>>)

\* The anchor of a unit, its source file, and its type table 32 bytes on.
AnchorBytes(name, prefix, source) ==
    LET anchor == Tagged(2, name) \o <<prefix>> \o Tagged(112, source)
    IN  anchor \o Zero(32 - Len(anchor))
EntryBytes(tag, name) == Tagged(tag, name) \o <<17, 18, 19, 20>>
SeparatorBytes(unit)  == <<99>> \o Tagged(100, unit) \o <<0, 0, 0>>

\* Aggregates: the type record, and the records that name it as their parent.
AggregateBytes(name, kind, own, linked) ==
    Tagged(42, name) \o <<kind, 0, 0>> \o Word(own)
    \o (IF linked # 0 THEN <<0, 0>> \o Word(linked) ELSE <<>>)
FieldBytes(name, storage, type, offset, parent) ==
    Tagged(44, name) \o <<0, storage, 0>> \o TypeBytes(type)
    \o (IF offset < 128 THEN <<2 * offset>> ELSE Word(4 * offset + 1))
    \o Zero(8) \o Word(parent) \o <<255>>
PropertyBytes(name, marker, parent) ==
    Tagged(49, name) \o <<0, 2, 0, marker, 254, 15, 0, 0, 0, 128, 1, 0>>
    \o <<156, 1, 2, 7, 0, 0, 8>> \o Word(parent) \o <<255>>
HeaderBytes(own, base) ==
    <<71, 0, 16, 0, 0>> \o Word(own) \o Zero(9) \o Word(base)
    \o <<0, 8, 0, 0, 0, 254, 0, 8>> \o <<37, 63, 0>>

\* A record of the table of primitives.
PrimitiveBytes(name, id) ==
    Tagged(42, name) \o <<168, 0, 0, 246, 255, 129, 156, 19>> \o Word(id) \o <<255>>

Bytes(parts) == FlattenSeq(parts)
=============================================================================
