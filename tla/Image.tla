--------------------------------- MODULE Image ---------------------------------
(***************************************************************************)
(* What the two commands have read before they produce debug information:   *)
(* the tables of the .map file, the sections and bytes of the executable    *)
(* and the tables of the .rsm file, with the look-ups both commands make    *)
(* (cli/cli_cmd_pdb*.cpp, map/map_reader.h, rsm/rsm_reader.cpp).             *)
(* A dotted name is the sequence of its parts.                              *)
(***************************************************************************)
EXTENDS FrameLayout, SeqHelpers

CONSTANT Programs   \* what the compiler and the linker may have left

\* Code lies above the image base, where the headers are; offsets, sizes and line
\* numbers are numbers, tables are sequences, no line table without lines is kept
\* and the .rsm's indices are indices.
ImageOK(p) ==
    /\ p.base \in Nat
    /\ p.sections \in Seq(Range(p.sections))
    /\ \A s \in Range(p.sections) : s.rva \in Nat /\ s.virtual \in Nat /\ s.raw \in Nat
    /\ \A s \in Range(p.map.segments) :
         s.start \in Nat /\ (s.class = "CODE" => s.start > p.base)
    /\ p.map.publics \in Seq(Range(p.map.publics))
    /\ \A r \in Range(p.map.publics) : r.offset \in Nat
    /\ p.map.tables \in Seq(Range(p.map.tables))
    /\ \A t \in Range(p.map.tables) :
         /\ t.lines \in Seq(Range(t.lines)) /\ t.lines # <<>>
         /\ \A r \in Range(t.lines) : r.offset \in Nat /\ r.line \in Nat
    /\ p.rsm.procedures \in Seq(Range(p.rsm.procedures))
    /\ \A f \in Range(p.rsm.procedures) :
         f.params \in Seq(Range(f.params)) /\ f.locals \in Seq(Range(f.locals))
    /\ p.rsm.aggregates \in Seq(Range(p.rsm.aggregates))
    /\ \A a \in Range(p.rsm.aggregates) : a.fields \in Seq(Range(a.fields))
    /\ Range(p.rsm.inUnit) \cup Range(p.rsm.anywhere) \subseteq DOMAIN p.rsm.aggregates

ASSUME ProgramsAssumption == \A p \in Programs : ImageOK(p)

VARIABLES
    phase,      \* the step of the command that comes next
    program     \* [map, base, sections, bytes, rsm, rtl, truth]
    \* map: segments [id, start, class], modules [module, segment, offset, length],
    \*      publics [name, segment, offset], tables [module, source, lines]
    \* base: ImageBase, which is below every segment with code
    \* sections: headers [rva, virtual, raw, pointer, code]; bytes: of the file
    \* rsm: [have, procedures, variables, aggregates, inUnit, anywhere, tables]
    \* rtl: --include-rtl; truth: what the source declares, for the properties

\* populate() and its helpers.
Map == INSTANCE MapReader WITH
         SegmentRows <- {}, ModuleRows <- <<>>, PublicRows <- <<>>, TableHeaders <- {},
         LineRows <- {}, MaxPublics <- 0, MaxTables <- 0, MaxLineRows <- 0,
         state <- "EndOfFile", current <- <<>>, file <- program.map,
         model <- <<>>, written <- <<>>

-----------------------------------------------------------------------------
(* Addresses.                                                              *)

\* The elements of a set in the order that puts one before another.
Ordered(S, Before(_, _)) ==
    [n \in 1..Cardinality(S) |->
       CHOOSE i \in S : Cardinality({j \in S : Before(j, i)}) = n - 1]

MapFile == program.map
VA(r)   == Map!ResolveVA(r.segment, r.offset)
IsCode(id) == Map!KindIn(id) = "Function"

\* rvaOfPublic: an address below the image base stays as it is.
RvaOfPublic(p) == IF VA(p) >= program.base THEN VA(p) - program.base ELSE VA(p)

\* findPeSection: the first section around the address, 0 for none.
Covers(s, rva) == rva >= s.rva /\ rva < s.rva + Max({s.virtual, s.raw})
FindPeSection(rva) == SelectInSeq(program.sections, LAMBDA s : Covers(s, rva))
OffsetIn(section, rva) == rva - program.sections[section].rva

\* The bytes [va, va + size) of the file, empty unless it has them all.
Slice(va, size) ==
    LET rva == va - program.base
        s   == FindPeSection(rva)
        at  == program.sections[s].pointer + OffsetIn(s, rva)
    IN  IF va < program.base \/ s = 0 \/ at + size > Len(program.bytes) THEN <<>>
        ELSE SubSeq(program.bytes, at + 1, at + size)

\* The spans of the units in segment 1, and the one around an address: the last
\* that starts at or below it, if it reaches so far.  (Of spans that start at one
\* address the code's unstable sort may leave any last; here it is one of them.)
Spans == {[unit |-> m.module, start |-> VA(m), end |-> VA(m) + m.length] :
            m \in {m \in Range(MapFile.modules) : m.segment = 1}}
NoSpan == [unit |-> <<>>, start |-> 0, end |-> 0]
FindUnit(va) ==
    LET below == {s \in Spans : s.start <= va}
        last  == CHOOSE s \in below : \A t \in below : t.start <= s.start
    IN  IF below = {} \/ va >= last.end THEN NoSpan ELSE last

\* isRtlQName.
RtlRoots == {"System", "SysInit", "Winapi", "Vcl", "Fmx", "Soap", "Datasnap", "Data",
             "Inet", "IBX", "REST", "Bde", "IndySystem"}
IsRtl(name) == Head(name) \in RtlRoots
Skipped(name) == ~program.rtl /\ IsRtl(name)

-----------------------------------------------------------------------------
(* The .rsm reader's answers; 0 or none when it has nothing to say.         *)

Rsm == program.rsm
VariableAt(va) ==
    SelectInSeq(Rsm.variables, LAMBDA v : v.address = va /\ v.address >= 4194304)
ProcedureAt(va) == SelectInSeq(Rsm.procedures, LAMBDA p : p.address = va)

\* Indices of aggregates, 0 for none: aggr_by_unit_hash_ and aggr_by_hash_.
AggregateInUnit(unit, hash) ==
    IF unit # 0 /\ <<unit, hash>> \in DOMAIN Rsm.inUnit THEN Rsm.inUnit[<<unit, hash>>] ELSE 0
AggregateByHash(hash) == IF hash \in DOMAIN Rsm.anywhere THEN Rsm.anywhere[hash] ELSE 0

AnywhereFirst(unit, hash) == AggregateByHash(hash)
Meant(unit, hash) ==
    LET here == AggregateInUnit(unit, hash)
    IN  IF here # 0 THEN here ELSE AggregateByHash(hash)

\* unitTypeEntryForMarker: [name, hash], hash four bytes wide.
NoEntry == [name |-> "", hash |-> 0]
TypeEntry(unit, marker) ==
    IF /\ unit \in DOMAIN Rsm.tables
       /\ marker # 0 /\ marker % 2 = 0 /\ marker \div 2 <= Len(Rsm.tables[unit])
    THEN Rsm.tables[unit][marker \div 2] ELSE NoEntry
=============================================================================
