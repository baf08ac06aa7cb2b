------------------------------- MODULE PeInject -------------------------------
(***************************************************************************)
(* The two PE injectors of the converter: injectDwarfSections() of          *)
(* pe/pe_injector.cpp and injectPdbReference() of pe/pe_pdb_injector.cpp,   *)
(* applied any number of times, in any order, to an image a linker made.    *)
(*                                                                         *)
(* An image is its layout: what the headers say, and, beside it, where the  *)
(* bytes really are.  Sizes and offsets are in units of a section header;   *)
(* a symbol, a string and the size field of the string table take one unit. *)
(***************************************************************************)
EXTENDS Naturals, Sequences, SequencesExt

CONSTANTS
    FileAlign, SectAlign,   \* FileAlignment, SectionAlignment
    TableStart,             \* file offset of the section table
    Linked,                 \* the images a linker makes
    Payloads,               \* possible sizes of a DWARF section's data
    PdbPayload,             \* size of the debug directory and RSDS record
    DwarfNames,             \* the DWARF sections, in the order of `add'
    MaxInjections           \* how often an image is injected into

\* `add' leaves out an empty buffer.
ASSUME LayoutAssumption ==
    /\ FileAlign \in Nat \ {0} /\ SectAlign \in Nat \ {0}
    /\ TableStart \in Nat /\ MaxInjections \in Nat
    /\ Payloads \subseteq Nat \ {0} /\ PdbPayload \in Nat \ {0}
ASSUME NamesAssumption ==
    /\ DwarfNames \in Seq(STRING)
    /\ Range(DwarfNames) \cap {"", "text", ".debug", ".old_dw"} = {}

\* A section header, and in `at' where the section's bytes really are; `by' is
\* the serial of the injection that made it, 0 for the linker.  Its name is
\* short, or, when name.off # 0, the string at that offset of the string table.
Short(n) == [short |-> n, off |-> 0]
Long(o)  == [short |-> "", off |-> o]
DebugNames == {".debug"} \cup Range(DwarfNames)
Names      == DebugNames \cup {"text", ".old_dw"}

VARIABLES
    image,      \* the file
    serial,     \* how many injections it has had
    lastDwarf,  \* the serial of the latest DWARF injection, or 0
    lastPdb     \* the serial of the latest PDB injection, or 0

vars == <<image, serial, lastDwarf, lastPdb>>

Init ==
    /\ image \in Linked
    /\ serial = 0 /\ lastDwarf = 0 /\ lastPdb = 0

-----------------------------------------------------------------------------
(* The layout both injectors compute.                                      *)

\* (v + align - 1) & ~(align - 1)
RoundUp(v, align) == LET w == v + (align - 1) IN w - (w % align)

Larger(a, b) == IF a > b THEN a ELSE b

TableEnd(img) == TableStart + Len(img.sections)

\* How far everything after the headers moves to make room for n more section
\* headers.
Expansion(img, n) ==
    LET free == img.sizeOfHeaders - TableEnd(img)
    IN  IF n > free THEN RoundUp(n - free, FileAlign) ELSE 0

\* The string table: its size field, then the strings.
StringTableSize(img) == 1 + Len(img.strings)
SymbolTableEnd(img)  == img.symbolTable + img.symbols + StringTableSize(img)

RawEnd(s)     == s.va + s.raw
VirtualEnd(s) == s.va + Larger(s.vsize, s.raw)

\* Past everything in the address space, and, once the body of the file has
\* moved by e, past everything in the file.
NextVa(img) ==
    RoundUp(Max({0} \cup {VirtualEnd(s) : s \in Range(img.sections)}), SectAlign)
RawEnds(img, e) ==
    Max({0} \cup {s.ptr + e + s.raw : s \in Range(img.sections)}
            \cup (IF img.symbolTable = 0 THEN {} ELSE {SymbolTableEnd(img) + e}))
FileTailIgnored(img, e) == RoundUp(RawEnds(img, e), FileAlign)
NextFo(img, e)          == RoundUp(Larger(RawEnds(img, e), img.size + e), FileAlign)

\* The old section headers.  Their bytes move with the body; PointerToRawData
\* follows unless the section has none.
HeadersOnly(s, e) == [s EXCEPT !.at = IF s.raw = 0 THEN @ ELSE @ + e]
Shifted(s, e) ==
    [s EXCEPT !.at  = IF s.raw = 0 THEN @ ELSE @ + e,
              !.ptr = IF @ = 0 THEN 0 ELSE @ + e]

\* The new section headers: one after the other from NextVa and NextFo.
NewVas(img, new) ==
    LET va[i \in 1..Len(new)] ==
            IF i = 1 THEN NextVa(img)
            ELSE RoundUp(va[i - 1] + new[i - 1].size, SectAlign)
    IN  va
NewFos(img, e, new) ==
    LET fo[i \in 1..Len(new)] ==
            IF i = 1 THEN NextFo(img, e)
            ELSE RoundUp(fo[i - 1] + new[i - 1].size, FileAlign)
    IN  fo
NewSections(img, e, new, by) ==
    [i \in 1..Len(new) |->
       [name |-> new[i].name, by |-> by,
        va |-> NewVas(img, new)[i], vsize |-> new[i].size,
        ptr |-> NewFos(img, e, new)[i], at |-> NewFos(img, e, new)[i],
        raw |-> RoundUp(new[i].size, FileAlign)]]

\* Where their data ends, summed up before any of it is placed.
DataEnd(img, e, new) ==
    LET end[i \in 0..Len(new)] ==
            IF i = 0 THEN NextFo(img, e)
            ELSE end[i - 1] + RoundUp(new[i].size, FileAlign)
    IN  end[Len(new)]

\* The image with sections `new' and strings `names' added: the body moved, the
\* symbol and string tables copied behind the new sections' data.
Extended(img, new, names, by) ==
    LET e      == Expansion(img, Len(new))
        added  == NewSections(img, e, new, by)
        tables == DataEnd(img, e, new)
        last   == added[Len(added)]
        all    == img.strings \o names
    IN  [img EXCEPT
           !.sections      = [i \in DOMAIN @ |-> Shifted(@[i], e)] \o added,
           !.sizeOfHeaders = @ + e,
           !.overlay       = @ + e,
           !.symbolTable   = tables,
           !.strings       = all,
           !.size          = tables + img.symbols + 1 + Len(all),
           !.sizeOfImage   = RoundUp(last.va + last.vsize, SectAlign)]

-----------------------------------------------------------------------------
(* The injectors.                                                          *)

InBounds(img) ==
    img.symbolTable # 0 => img.symbolTable + img.symbols + 1 <= img.size

\* resolveSectionName: an offset outside the string table resolves to nothing.
Resolved(img, name) ==
    IF name.off = 0 THEN name.short
    ELSE IF img.symbolTable # 0 /\ name.off < StringTableSize(img)
         THEN img.strings[name.off]
    ELSE ""

LongNamesMissed(img, s) ==
    IF s.name.short \in DebugNames THEN [s EXCEPT !.name = Short(".old_dw")] ELSE s
NameTooLong(img, s) ==
    IF Resolved(img, s.name) \in DebugNames
    THEN [s EXCEPT !.name = Short(".old_dwarf")] ELSE s
Renamed(img, s) ==
    IF Resolved(img, s.name) \in DebugNames
    THEN [s EXCEPT !.name = Short(".old_dw")] ELSE s

\* injectDwarfSections: one section for each non-empty buffer, older .debug*
\* sections renamed.
InjectDwarf ==
    \E n \in 1..Len(DwarfNames) :
    \E which \in [1..n -> DOMAIN DwarfNames], size \in [1..n -> Payloads] :
      LET strs == [i \in 1..n |-> DwarfNames[which[i]]]
          new  == [i \in 1..n |->
                     [name |-> Long(StringTableSize(image) + i - 1), size |-> size[i]]]
          old  == [image EXCEPT !.sections =
                     [i \in DOMAIN @ |-> Renamed(image, @[i])]]
      IN  /\ serial < MaxInjections /\ InBounds(image)
          /\ \A i, j \in 1..n : i < j => which[i] < which[j]
          /\ image' = Extended(old, new, strs, serial + 1)
          /\ serial' = serial + 1 /\ lastDwarf' = serial + 1
          /\ UNCHANGED lastPdb

\* DataDirectory[DEBUG], by its address, and the entry it leads to, whose
\* PointerToRawData names the place of the RSDS record in the file.
Directory(img) ==
    LET s == Last(img.sections) IN [va |-> s.va, ptr |-> s.ptr, by |-> s.by]

\* injectPdbReference: one section, called .debug.
InjectPdb ==
    LET new == Extended(image, <<[name |-> Short(".debug"), size |-> PdbPayload]>>,
                        <<>>, serial + 1)
    IN  /\ serial < MaxInjections /\ InBounds(image)
        /\ image' = [new EXCEPT !.directory = Directory(new)]
        /\ serial' = serial + 1 /\ lastPdb' = serial + 1
        /\ UNCHANGED lastDwarf

Next == InjectDwarf \/ InjectPdb

Spec == Init /\ [][Next]_vars

-----------------------------------------------------------------------------
(* Properties.                                                             *)

\* Images that n injections have been made into.
Sections(n) ==
    [name : [short : Names \cup {""}, off : Nat], by : 0..n,
     va : Nat, vsize : Nat, ptr : Nat, at : Nat, raw : Nat]
Images(n) ==
    [sections : Seq(Sections(n)), sizeOfHeaders : Nat, symbolTable : Nat,
     symbols : Nat, strings : Seq(Names), overlay : Nat, tail : Nat, size : Nat,
     sizeOfImage : Nat, directory : [va : Nat, ptr : Nat, by : 0..n]]
TypeOK ==
    /\ serial \in 0..MaxInjections
    /\ lastDwarf \in 0..serial /\ lastPdb \in 0..serial
    /\ image \in Images(serial)

\* After any sequence of injections each section header still leads to the
\* section's own bytes, on a file-aligned offset.
DataFound(img) ==
    \A i \in DOMAIN img.sections :
        LET s == img.sections[i]
        IN  s.raw # 0 => s.ptr = s.at /\ s.ptr % FileAlign = 0
RawDataFound == DataFound(image)

\* The file, region by region: headers, section data, what the linker or the
\* user appended to it (if anything: tail # 0), symbol and string table.
Region(part, from, to) == [part |-> part, from |-> from, to |-> to]
Regions(img) ==
    {Region(<<"headers", 0>>, 0, Larger(TableEnd(img), img.sizeOfHeaders))}
        \cup (IF img.tail = 0 THEN {}
              ELSE {Region(<<"overlay", 0>>, img.overlay, img.overlay + img.tail)})
        \cup {Region(<<"section", i>>, img.sections[i].at,
                     img.sections[i].at + img.sections[i].raw) :
                 i \in {j \in DOMAIN img.sections : img.sections[j].raw # 0}}
        \cup (IF img.symbolTable = 0 THEN {}
              ELSE {Region(<<"tables", 0>>, img.symbolTable, SymbolTableEnd(img))})

\* No injection overwrites anything: the headers fit the section table, and
\* headers, sections, appended data and tables share no byte and lie in the file.
Disjoint(img) ==
    /\ TableEnd(img) <= img.sizeOfHeaders
    /\ \A r \in Regions(img) : r.to <= img.size
    /\ \A r, q \in Regions(img) : r # q => r.to <= q.from \/ q.to <= r.from
NothingOverwritten == Disjoint(image)

\* In memory the sections follow one another without overlap, aligned, within
\* SizeOfImage.
InOrder(img) ==
    \A i \in DOMAIN img.sections :
        LET s == img.sections[i]
        IN  /\ s.va % SectAlign = 0 /\ s.va + s.vsize <= img.sizeOfImage
            /\ \A j \in DOMAIN img.sections :
                 j > i => s.va + s.vsize <= img.sections[j].va
MemoryInOrder == InOrder(image)

\* A long name has a string.
NamesResolve(img) ==
    /\ img.symbolTable = 0 => img.strings = <<>>
    /\ \A i \in DOMAIN img.sections :
         img.sections[i].name.off # 0 =>
            img.symbolTable # 0 /\ img.sections[i].name.off < StringTableSize(img)

\* What a linker makes is laid out that way too.
ASSUME LinkedAssumption ==
    \A img \in Linked :
        /\ img \in Images(0)
        /\ DataFound(img) /\ Disjoint(img) /\ InOrder(img) /\ NamesResolve(img)

\* A debugger finds the newest debug information: every .debug_ section it can
\* name is of the latest DWARF injection (gdb takes the first .debug_info), and
\* the debug directory leads to the section of the latest PDB injection.
NewestIsFound ==
    /\ \A i \in DOMAIN image.sections :
         LET s == image.sections[i]
         IN  Resolved(image, s.name) \in Range(DwarfNames) => s.by = lastDwarf
    /\ image.directory.by = lastPdb
    /\ lastPdb # 0 => \E i \in DOMAIN image.sections :
         image.sections[i].va = image.directory.va /\ image.sections[i].by = lastPdb

\* pe_pdb_injector.cpp: "PointerToRawData = section_fo + 28", and
\* pe_pdb_injector.h: the injector "is intended to coexist with" the DWARF one.
\* The debug directory entry of an image leads to the record in the file.
DirectoryEntryFound ==
    lastPdb # 0 => \E i \in DOMAIN image.sections :
        image.sections[i].by = lastPdb /\ image.directory.ptr = image.sections[i].at
=============================================================================
