------------------------------- MODULE MapReader -------------------------------
(***************************************************************************)
(* The reader of the linker's .map file and its adapter to the debugger's   *)
(* model: Reader::parse() and populate() of map/map_reader.cpp.             *)
(*                                                                         *)
(* The linker writes the file, line by line, and the reader takes each line *)
(* as it comes; after the last one populate() files the records under       *)
(* compile units.  A dotted name is the sequence of its parts.              *)
(***************************************************************************)
EXTENDS Naturals, Sequences, SequencesExt, SeqHelpers

CONSTANTS
    SegmentRows,    \* rows of the segment overview: [id, start, class]
    ModuleRows,     \* rows of the detailed map: [module, segment, offset, length]
    PublicRows,     \* rows of the publics, by name: [name, segment, offset]
    TableHeaders,   \* "Line numbers for": [module, source]
    LineRows,       \* rows of a line table: sequences of [line, segment, offset]
    MaxPublics,     \* rows of the publics
    MaxTables,      \* line-number sections
    MaxLineRows     \* rows under all of them

LineRecord == [line : Nat, segment : Nat, offset : Nat]

ASSUME ReaderAssumption ==
    /\ MaxPublics \in Nat /\ MaxTables \in Nat /\ MaxLineRows \in Nat
    /\ \A r, q \in SegmentRows : r.id = q.id => r = q
    /\ ModuleRows \in Seq(Range(ModuleRows))
    /\ PublicRows \in Seq(Range(PublicRows))
    /\ \A p \in Range(PublicRows) : p.name \in Seq(STRING)
    /\ TableHeaders \subseteq [module : Seq(STRING) \ {<<>>}, source : STRING]
    /\ LineRows \subseteq Seq(LineRecord)

\* What may follow a section in a file the linker writes.
Follows(s) ==
    CASE s = "Initial" -> {"Segments"}
      [] s = "Segments" -> {"DetailedMap"}
      [] s = "DetailedMap" -> {"PublicsByName"}
      [] s = "PublicsByName" -> {"PublicsByValue"}
      [] s \in {"PublicsByValue", "LineNumbers"} -> {"LineNumbers", "Resources", "EntryPoint"}
      [] s = "Resources" -> {"EntryPoint"}
      [] OTHER -> {}
Sections == {"Segments", "DetailedMap", "PublicsByName", "PublicsByValue", "LineNumbers",
             "Resources", "EntryPoint"}

LineTable == [module : {t.module : t \in TableHeaders} \cup {<<>>},
              source : {t.source : t \in TableHeaders} \cup {""}, lines : Seq(LineRecord)]
NoTable   == [module |-> <<>>, source |-> "", lines |-> <<>>]

VARIABLES
    state,      \* the reader's section, "Initial" before the first, "Done" after EOF
    current,    \* current_table: the line table being read
    file,       \* the records read: segments, modules, publics, tables
    model,      \* what populate() makes of them: units, sourceFiles
    written     \* history: the lines of the file so far

vars == <<state, current, file, model, written>>

Init ==
    /\ state = "Initial" /\ current = NoTable
    /\ file = [segments |-> <<>>, modules |-> <<>>, publics |-> <<>>, tables |-> <<>>]
    /\ model = [units |-> <<>>, sourceFiles |-> <<>>]
    /\ written = <<>>

-----------------------------------------------------------------------------
(* Reading: one action per kind of line.                                   *)

\* The lines of the file, as the history keeps them.
Header(s, t)     == [section |-> s, header |-> TRUE, data |-> t]
Row(r)           == [section |-> state, header |-> FALSE, data |-> r]
RowsUnder(s)     == {i \in DOMAIN written : ~written[i].header /\ written[i].section = s}
HeadersOf(w, s)  == {i \in DOMAIN w : w[i].header /\ w[i].section = s}

\* The linker lists every segment before it refers to one.
LinkerStarts(s) ==
    /\ s \in Follows(state)
    /\ s = "LineNumbers" => Cardinality(HeadersOf(written, s)) < MaxTables
    /\ s # "Segments" => Range(file.segments) = SegmentRows
    /\ state = "DetailedMap" => file.modules = ModuleRows
    /\ state = "PublicsByValue" /\ file.publics # <<>> => RowsUnder(state) # {}

\* flushLineTable: a table without lines is dropped.
Flushed(tables, t) == IF t.lines = <<>> THEN tables ELSE Append(tables, t)

\* A header of a section without a state of its own beyond `state'.
StartSection ==
    \E s \in Sections \ {"LineNumbers", "EntryPoint"} :
      /\ LinkerStarts(s)
      /\ file' = [file EXCEPT !.tables = Flushed(@, current)]
      /\ current' = NoTable
      /\ state' = s
      /\ written' = Append(written, Header(s, NoTable))
      /\ UNCHANGED model

\* "Line numbers for <module>(<source>) segment <name>"
StartTable ==
    \E t \in TableHeaders :
      /\ LinkerStarts("LineNumbers")
      /\ file' = [file EXCEPT !.tables = Flushed(@, current)]
      /\ current' = [NoTable EXCEPT !.module = t.module, !.source = t.source]
      /\ state' = "LineNumbers"
      /\ written' = Append(written, Header("LineNumbers", t))
      /\ UNCHANGED model

\* "Program entry point at ": the one header that flushes nothing.
StartEntryPoint ==
    /\ LinkerStarts("EntryPoint")
    /\ state' = "EntryPoint"
    /\ written' = Append(written, Header("EntryPoint", NoTable))
    /\ UNCHANGED <<current, file, model>>

SegmentRow ==
    \E r \in SegmentRows \ Range(file.segments) :
      /\ state = "Segments"
      /\ \A q \in SegmentRows : q.id < r.id => q \in Range(file.segments)
      /\ file' = [file EXCEPT !.segments = Append(@, r)]
      /\ written' = Append(written, Row(r))
      /\ UNCHANGED <<state, current, model>>

\* One row of the detailed map for each module and segment, by address.
ModuleRow ==
    /\ state = "DetailedMap" /\ Len(file.modules) < Len(ModuleRows)
    /\ LET r == ModuleRows[Len(file.modules) + 1]
       IN  /\ file' = [file EXCEPT !.modules = Append(@, r)]
           /\ written' = Append(written, Row(r))
    /\ UNCHANGED <<state, current, model>>

\* Rows under "Publics by Value" are the rows under "Publics by Name" again, in
\* another order: the last of them stands for the section.
KeptTwice(publics, r) == Append(publics, r)
Kept(publics, r) == IF state = "PublicsByName" THEN Append(publics, r) ELSE publics
PublicRow ==
    \E i \in DOMAIN PublicRows :
      /\ \/ /\ state = "PublicsByName" /\ Len(file.publics) < MaxPublics
            /\ file.publics # <<>> => \E j \in 1..i : PublicRows[j] = Last(file.publics)
         \/ /\ state = "PublicsByValue" /\ RowsUnder(state) = {}
            /\ file.publics # <<>> /\ PublicRows[i] = Last(file.publics)
      /\ file' = [file EXCEPT !.publics = Kept(@, PublicRows[i])]
      /\ written' = Append(written, Row(PublicRows[i]))
      /\ UNCHANGED <<state, current, model>>

\* Several (line, address) pairs to a row.
FirstPair(lines, r) == Append(lines, Head(r))
Extended(lines, r)  == lines \o r
LineRow ==
    \E r \in LineRows :
      /\ state = "LineNumbers"
      /\ Cardinality(RowsUnder(state)) < MaxLineRows
      /\ current' = [current EXCEPT !.lines = Extended(@, r)]
      /\ written' = Append(written, Row(r))
      /\ UNCHANGED <<state, file, model>>

-----------------------------------------------------------------------------
(* populate(): one compile unit for each module that has line tables.      *)

ModuleNames == {t.module : t \in Range(file.tables)}

\* findSegment; resolveVA, 0 for a segment the file does not list; the kind of a
\* symbol by the class of its segment.
Listed(id)      == {s \in Range(file.segments) : s.id = id}
SegmentOf(id)   == CHOOSE s \in Listed(id) : TRUE
ResolveVA(i, o) == IF Listed(i) = {} THEN 0 ELSE SegmentOf(i).start + o
KindIn(id)      == CASE Listed(id) = {} -> "Unknown"
                     [] Listed(id) # {} /\ SegmentOf(id).class = "CODE" -> "Function"
                     [] OTHER -> "Variable"

\* The module a public is filed under: the longest of its dotted prefixes that
\* names one; <<>> when none does.
PrefixLengths(name) ==
    {k \in 1..(Len(name) - 1) : SubSeq(name, 1, k) \in ModuleNames}
ShortestPrefix(name) ==
    LET ks == PrefixLengths(name)
    IN  IF ks = {} THEN <<>> ELSE SubSeq(name, 1, Min(ks))
Bucket(name) ==
    LET ks == PrefixLengths(name)
    IN  IF ks = {} THEN <<>> ELSE SubSeq(name, 1, Max(ks))

\* $pdata$..., $unwind$..., the compiler's "Unit..1" and an empty local name.
Internal(local) == Head(local) \in {"$pdata$", "$unwind$", ""}

\* A public as a symbol of module m; `public' is its index, for the properties.
Symbol(m, i) ==
    LET p     == file.publics[i]
        local == SubSeq(p.name, Len(m) + 1, Len(p.name))
        kind  == KindIn(p.segment)
    IN  [address |-> ResolveVA(p.segment, p.offset), kind |-> kind, public |-> i,
         name |-> IF kind = "Variable" THEN local ELSE p.name]
Symbols(m) ==
    LET mine  == {i \in DOMAIN file.publics :
                    /\ Bucket(file.publics[i].name) = m
                    /\ ~Internal(SubSeq(file.publics[i].name, Len(m) + 1,
                                        Len(file.publics[i].name)))}
        order == Among(Indices(file.publics), mine)
    IN  [j \in DOMAIN order |-> Symbol(m, order[j])]

\* The line tables of module m, in file order.
TablesOf(m) == Among(file.tables, {t \in Range(file.tables) : t.module = m})
FirstTableOnly(m) == Head(TablesOf(m)).lines
LinesOf(m) == FlattenSeq([i \in DOMAIN TablesOf(m) |-> TablesOf(m)[i].lines])

\* sourceFileId, counted from 1.
ZeroBased(files, source) == SelectInSeq(files, LAMBDA f : f = source) - 1
FileId(files, source)    == SelectInSeq(files, LAMBDA f : f = source)

\* Every line of a unit gets the file of the unit's first table.
Unit(m, files) ==
    LET source == Head(TablesOf(m)).source
        lines  == LinesOf(m)
    IN  [module |-> m, source |-> source, symbols |-> Symbols(m),
         lines |-> [i \in DOMAIN lines |->
            [address |-> ResolveVA(lines[i].segment, lines[i].offset),
             line |-> lines[i].line, file |-> FileId(files, source)]]]

Populated ==
    LET order == Distinct([i \in DOMAIN file.tables |-> file.tables[i].module])
        files == Distinct([i \in DOMAIN order |-> Head(TablesOf(order[i])).source])
    IN  [units |-> [i \in DOMAIN order |-> Unit(order[i], files)], sourceFiles |-> files]

\* The end of the file flushes the last table; then populate().
EndWithoutFlush ==
    /\ state = "EntryPoint"
    /\ state' = "EndOfFile"
    /\ UNCHANGED <<current, file, model, written>>
EndOfFile ==
    /\ state = "EntryPoint"
    /\ file' = [file EXCEPT !.tables = Flushed(@, current)]
    /\ current' = NoTable
    /\ state' = "EndOfFile"
    /\ UNCHANGED <<model, written>>
Populate ==
    /\ state = "EndOfFile"
    /\ model' = Populated
    /\ state' = "Done"
    /\ UNCHANGED <<current, file, written>>

Next ==
    \/ StartSection \/ StartTable \/ StartEntryPoint
    \/ SegmentRow \/ ModuleRow \/ PublicRow \/ LineRow
    \/ EndOfFile \/ Populate

Spec == Init /\ [][Next]_vars

-----------------------------------------------------------------------------
(* Properties.                                                             *)

TypeOK ==
    /\ state \in Sections \cup {"Initial", "EndOfFile", "Done"}
    /\ current \in LineTable
    /\ file \in [segments : Seq(SegmentRows), modules : Seq(Range(ModuleRows)),
                 publics : Seq(Range(PublicRows)), tables : Seq(LineTable)]
    /\ \A u \in Range(model.units) :
         \A l \in Range(u.lines) : l.file \in DOMAIN model.sourceFiles

\* In a file w: the header a line stands under, the rows under the headers in H,
\* in file order, and all the pairs of those under header j.
Under(w, i) == Max({j \in 1..i : w[j].header})
Rows(w, H) ==
    LET rows == Among(Indices(w), {i \in DOMAIN w : ~w[i].header /\ Under(w, i) \in H})
    IN  [n \in DOMAIN rows |-> w[rows[n]].data]
LinesUnder(w, j) == FlattenSeq(Rows(w, {j}))

\* The tables a reader should make of the line-number headers in J, and the
\* headers it should make one of.
TablesUnder(w, J) ==
    LET heads == Among(Indices(w), J)
    IN  [n \in DOMAIN heads |-> [module |-> w[heads[n]].data.module,
                                 source |-> w[heads[n]].data.source,
                                 lines  |-> LinesUnder(w, heads[n])]]
Inhabited(w) == {j \in HeadersOf(w, "LineNumbers") : LinesUnder(w, j) # <<>>}

\* At every point of the file the records read are those the linker wrote: each
\* row once, in its section, and each line under the last header before it,
\* whatever sections follow, repeat or are empty.
RecordsAsWritten ==
    LET open == IF current.lines = <<>> THEN <<>> ELSE <<current>>
    IN  /\ file.segments = Rows(written, HeadersOf(written, "Segments"))
        /\ file.modules = Rows(written, HeadersOf(written, "DetailedMap"))
        /\ file.publics = Rows(written, HeadersOf(written, "PublicsByName"))
        /\ file.tables \o open = TablesUnder(written, Inhabited(written))

\* Where public i occurs in a model: <<unit, symbol>>.
Copies(mod, i) ==
    {c \in UNION {{<<n, j>> : j \in DOMAIN mod.units[n].symbols} : n \in DOMAIN mod.units} :
       mod.units[c[1]].symbols[c[2]].public = i}

\* Each public ends up in at most one compile unit (a model with a copy in every
\* enclosing unit grew to 54 million symbols), once, in the unit whose name is
\* the longest that the public's own begins with, and is lost only when it is
\* internal or begins with the name of no unit.
FiledOnce(mod, name, i) ==
    LET owners == {u \in Range(mod.units) : IsStrictPrefix(u.module, name)}
    IN  /\ \A c, d \in Copies(mod, i) : c = d
        /\ \A c \in Copies(mod, i) :
             /\ mod.units[c[1]] \in owners
             /\ \A v \in owners : IsPrefix(v.module, mod.units[c[1]].module)
        /\ Copies(mod, i) = {} =>
             \/ owners = {}
             \/ \E k \in 2..Len(name) : name[k] \in {"$pdata$", "$unwind$", ""}
PublicsInTheirUnit ==
    state = "Done" => \A i \in DOMAIN file.publics : FiledOnce(model, file.publics[i].name, i)

\* Every line the linker wrote for a module is in that module's one compile unit,
\* and as often, however many tables its lines were spread over.
HeadersFor(w, m) == {j \in HeadersOf(w, "LineNumbers") : w[j].data.module = m}
LinesKept(mod, w, m) ==
    LET wrote == FlattenSeq(Rows(w, HeadersFor(w, m)))
        units == {i \in DOMAIN mod.units : mod.units[i].module = m}
    IN  IF wrote = <<>> THEN units = {}
        ELSE \E i \in units :
               /\ units = {i}
               /\ [n \in DOMAIN mod.units[i].lines |-> mod.units[i].lines[n].line]
                    = [n \in DOMAIN wrote |-> wrote[n].line]
LinesInTheirUnit ==
    state = "Done" => \A t \in TableHeaders : LinesKept(model, written, t.module)

\* map_reader.cpp: "Source files: one per unique line-table source_path. Returned
\* source_files indices match LineEntry.file_id."
OneFilePerSource ==
    state = "Done" => Range(model.sourceFiles) = {t.source : t \in Range(file.tables)}
=============================================================================
