-------------------------------- MODULE Converter --------------------------------
(***************************************************************************)
(* One run of the converter on one program, by either of its commands, and  *)
(* what a debugger reads in the debug information: the `pdb' command's      *)
(* program database (PdbModules, PdbWriter) or the `dwarf' command's        *)
(* sections (Dwarf).  Both implement AddressMap.                            *)
(***************************************************************************)
EXTENDS Dwarf, PdbWriter

VARIABLES
    command,    \* "pdb" or "dwarf"
    promised    \* history: [facts, owed], what AddressMap asks for this program

pdbVars == <<pdbInputs, pdbOutputs>>
vars == <<phase, program, command, promised, dwarfVars, pdbVars>>

-----------------------------------------------------------------------------
(* What debug information owes.  Names count by their last two parts: the   *)
(* writer gives methods a C++ name.                                         *)

Short(name) ==
    LET parts == SelectSeq(name, LAMBDA s : s # "::")
    IN  IF Len(parts) <= 2 THEN parts ELSE SubSeq(parts, Len(parts) - 1, Len(parts))
NameFact(at, name) == [at |-> at, name |-> Short(name), line |-> 0]
LineFact(at, line) == [at |-> at, name |-> <<>>, line |-> line]

CodePublics == {p \in Range(MapFile.publics) : p.segment = 1 \/ IsCode(p.segment)}
RowsOfTables(u) == UNION {Range(t.lines) : t \in {t \in Range(MapFile.tables) : t.module \in u}}
ThunkFacts(t) ==
    {NameFact(t.at, AdjusterName(t.of))} \cup {LineFact(t.at, line) : line \in t.lines}
Facts ==
    {NameFact(VA(p), p.name) : p \in CodePublics}
    \cup {LineFact(VA(r), r.line) : r \in RowsOfTables(Map!ModuleNames)}
    \cup UNION {ThunkFacts(t) : t \in program.truth.thunks}

\* The `pdb' command owes every unit but those of the run-time library its
\* entries, and its lines from the first of them to its end.
Entries(u) == {p \in CodePublics : p.segment = 1 /\ FindUnit(VA(p)).unit = u}
OwedToUnit(u) ==
    {NameFact(VA(p), p.name) : p \in Entries(u)}
    \cup {LineFact(VA(r), r.line) : r \in {r \in RowsOfTables({u}) :
            FindUnit(VA(r)).unit = u /\ \E p \in Entries(u) : VA(p) <= VA(r)}}
    \cup {NameFact(t.at, AdjusterName(t.of)) : t \in {t \in program.truth.thunks : t.unit = u}}
OwedByPdb == [u \in {u \in UnitNames : ~Skipped(u)} |-> OwedToUnit(u)]
\* The `dwarf' command owes every unit with lines its functions, by name, and
\* its lines, wherever they are.
OwedByDwarf ==
    [u \in Map!ModuleNames |->
       {NameFact(VA(p), p.name) : p \in {p \in Range(MapFile.publics) :
          /\ IsCode(p.segment) /\ Map!Bucket(p.name) = u
          /\ ~Map!Internal(SubSeq(p.name, Len(u) + 1, Len(p.name)))}}
       \cup {LineFact(VA(r), r.line) : r \in RowsOfTables({u})}]

Promised(c) ==
    [facts |-> Facts, owed |-> IF c = "pdb" THEN OwedByPdb ELSE OwedByDwarf]

-----------------------------------------------------------------------------
Init ==
    /\ program \in Programs /\ command \in {"pdb", "dwarf"}
    /\ promised = Promised(command)
    /\ phase = IF command = "pdb" THEN "publics" ELSE "populate"
    /\ latestFirst \in (IF command = "pdb" THEN BOOLEAN ELSE {FALSE})
    /\ dwarfEmpty /\ pdbInputsEmpty /\ pdbOutputsEmpty

Pdb ==
    /\ command = "pdb"
    /\ \/ PdbInputsNext /\ UNCHANGED pdbOutputs
       \/ PdbWriterNext
    /\ UNCHANGED <<program, command, promised, dwarfVars>>
DwarfCommand == command = "dwarf" /\ DwarfNext /\ UNCHANGED <<command, promised, pdbVars>>
\* The process exits.
Running == phase \notin {"done", "failed"}
Exited  == ~Running /\ UNCHANGED vars
Next == Pdb \/ DwarfCommand \/ Exited

\* A command is a sequence of steps and the process runs until it ends:
\* WF_vars(Next), with Running for ENABLED <<Next>>_vars, which TLC cannot
\* evaluate under the folds; that a step is possible while Running is what the
\* run's check for deadlock shows.
Fairness == []<>~Running \/ []<><<Next>>_vars
Spec == Init /\ [][Next]_vars /\ Fairness

-----------------------------------------------------------------------------
(* A debugger's view of the program database.                              *)

Address(r) == program.base + program.sections[r.segment].rva + r.offset
SymbolsIn(kind) == {x \in UNION {{<<i, k>> : k \in DOMAIN dbi[i].symbols} : i \in DOMAIN dbi} :
                      dbi[x[1]].symbols[x[2]].kind = kind}
SymbolAt(x) == dbi[x[1]].symbols[x[2]]
\* The variables in the scope of a procedure: up to the record its End names.
VariablesIn(x) == {v \in SymbolsIn("REGREL32") :
                     v[1] = x[1] /\ v[2] > x[2] /\ v[2] <= SymbolAt(x).end}

\* A type as its leaf, name and size; a pointer as what it points to.
Description(leaf, name, size) == [leaf |-> leaf, name |-> name, size |-> size]
DescribedType(t) ==
    LET r == tpi.records[t.record]
        target == tpi.records[r.type.record]
    IN  CASE t.record = 0 -> Description("simple", t.simple, 0)
          [] t.record # 0 /\ r.leaf = "POINTER" -> Description("POINTER", target.name, target.size)
          [] OTHER -> Description(r.leaf, r.name, r.size)

-----------------------------------------------------------------------------
(* The abstract view.                                                      *)

PdbAnswers ==
    {NameFact(Address(SymbolAt(x)), SymbolAt(x).name) : x \in SymbolsIn("GPROC32")}
    \cup UNION {UNION {{LineFact(Address(b) + l.offset, l.line) : l \in Range(b.lines)} :
                         b \in Range(m.blocks)} : m \in Range(dbi)}
DwarfAnswers ==
    {NameFact(Low(i), Attribute(info[i], "name")) : i \in DIEsOf("subprogram")}
    \cup UNION {{LineFact(r.at, r.line) : r \in RowsIn(p)} : p \in Range(linePrograms)}

AM == INSTANCE AddressMap WITH
        facts     <- promised.facts,
        owed      <- promised.owed,
        published <- IF command = "pdb" THEN {m.name : m \in Range(dbi)}
                     ELSE {units[i].module : i \in 1..emitted},
        answers   <- IF command = "pdb" THEN PdbAnswers ELSE DwarfAnswers

\* Unit by unit the debug information of either command answers for every entry
\* and every line it owes and for nothing that is not so: each address the
\* debugger asks about has gone from segment and offset over addresses, sections,
\* spans of units, frames of functions and line programs to the same place again,
\* in the name of a function, in the lines of an include file and in an adjuster
\* thunk no table mentions.
ImplementsAddressMap == AM!Spec

-----------------------------------------------------------------------------
(* Safety.                                                                 *)

\* A public that shares its address with another has no code of its own.
Alone(at) == Cardinality({p \in CodePublics : VA(p) = at}) = 1
Slot(at, name, offset) == [at |-> at, name |-> name, offset |-> offset]
SlotsShown ==
    IF command = "pdb"
    THEN UNION {{Slot(Address(SymbolAt(x)), Head(SymbolAt(v).name), SymbolAt(v).offset) :
                   v \in VariablesIn(x)} : x \in SymbolsIn("GPROC32")}
    ELSE UNION {{Slot(Low(i), Attribute(info[j], "name"), Attribute(info[j], "location")) :
                   j \in ChildrenOf(i)} : i \in DIEsOf("subprogram")}
AddressesShown ==
    IF command = "pdb" THEN {Address(SymbolAt(x)) : x \in SymbolsIn("GPROC32")}
    ELSE {Low(i) : i \in DIEsOf("subprogram")}
\* A function's parameters and locals are shown where the function keeps them --
\* all of them, whatever registers its prologue saved and however deep it is
\* nested; only the `pdb' command shows the link to the outer frame.
FrameSlots ==
    \A at \in {a \in AddressesShown : Alone(a)} :
      {s \in SlotsShown : s.at = at}
        = {s \in program.truth.slots :
             s.at = at /\ (s.name = "__frame_outer__" => command = "pdb")}

\* The types a debugger finds at variables, globals and fields.
TypedVariables ==
    (UNION {{[at |-> Address(SymbolAt(x)), name |-> Head(SymbolAt(v).name),
              is |-> DescribedType(SymbolAt(v).type)] : v \in VariablesIn(x)} :
              x \in {x \in SymbolsIn("GPROC32") : Alone(Address(SymbolAt(x)))}})
    \cup {[at |-> Address(g), name |-> g.name, is |-> DescribedType(g.type)] :
            g \in Range(symbols.globals)}
TypedFields ==
    UNION {{[class |-> r.name, size |-> r.size, name |-> f.name, offset |-> f.offset,
             is |-> DescribedType(f.type)] :
              f \in {f \in Range(tpi.records[r.type.record].members) : f.kind = "DATA"}} :
             r \in {r \in Range(tpi.records) : r.leaf \in {"CLASS", "STRUCTURE"}}}
\* A class is not registered yet when its own fields are: a field of the class's
\* own type stays without one and is shown as an integer of four bytes (where
\* pdb_writer.h speaks of "a 1-byte UChar").
OwnClass(f) == f.is = Description("POINTER", f.class, f.size)
Shown(f)    == IF OwnClass(f) THEN [f EXCEPT !.is = Description("simple", "UInt32", 0)] ELSE f
\* The type found at every variable, global and field is the one the source
\* declares -- of the unit it was declared in, where units have types of one
\* name or one hash -- in whatever order the types came to be registered.  Two
\* exceptions: a field of its own class's type, and a variable of a type the .rsm
\* does not name (or there is no .rsm), which the run's programs declare as what
\* is left of it: untyped memory of its size, or of a pointer's when that is unknown.
\* (The link to the outer frame is of no declared type: eight bytes.)
TypedAsDeclared ==
    phase = "done" /\ command = "pdb" =>
      /\ TypedVariables = program.truth.types
      /\ TypedFields = {Shown(f) : f \in program.truth.fields}

\* The two numberings of modules agree: a reference to a procedure leads to the
\* procedure of that name, and its code to the module that has it.
ProcedureReferencesHold ==
    phase = "done" =>
      /\ \A r \in Range(procRefs) :
           /\ r.module \in DOMAIN dbi /\ r.offset < Len(dbi[r.module].symbols)
           /\ LET s == dbi[r.module].symbols[r.offset + 1]
              IN  s.kind = "GPROC32" /\ s.name = r.name
      /\ \A x \in SymbolsIn("GPROC32") : \E c \in Range(contribs) :
           /\ c.segment = SymbolAt(x).segment /\ c.offset = SymbolAt(x).offset
           /\ c.module + 1 = x[1]

\* The scoped names kept as pointers into a growing vector still read as they
\* were written when the file is committed, as long as no two methods share a name.
Overloaded == \E x, y \in SymbolsIn("GPROC32") :
    x # y /\ SymbolAt(x).name = SymbolAt(y).name /\ "::" \in Range(SymbolAt(x).name)
NamesStayPut ==
    phase = "done" => Overloaded \/ \A n \in DOMAIN scoped.publics :
      symbols.publics[Len(publics) + n].name = scoped.publics[n].name

=============================================================================
