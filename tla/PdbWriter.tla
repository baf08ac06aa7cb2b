------------------------------- MODULE PdbWriter -------------------------------
(***************************************************************************)
(* The writer of the program database: the type records of the registered  *)
(* aggregates, the symbols, lines and section contributions of the modules, *)
(* and the publics and globals (pdb/pdb_writer*.cpp).                       *)
(*                                                                         *)
(* A stream is the sequence of its records and an offset into it the number *)
(* of a record.  A type is [simple, record], one of them empty.             *)
(***************************************************************************)
EXTENDS PdbModules

VARIABLES
    tpi,        \* [records, arrays, inner, var, methods]: tpi_table_ and what
                \* emitAggregates() remembers of it, methods by qualified name
    scoped,     \* [publics, capacity, live]: the vector of scoped names, and
                \* the names whose characters have not moved since they were kept
    dbi,        \* modules written: [name, symbols, blocks]
    procRefs,   \* globals stream: [name, module, offset]
    contribs,   \* [segment, offset, size, module]
    modIndex,   \* emitModules' own counter of modules
    writing,    \* of the module being written: [done, symbols], functions done
    symbols     \* [publics, globals], once they are written

pdbOutputs == <<tpi, scoped, dbi, procRefs, contribs, modIndex, writing, symbols>>
NotWriting == [done |-> 0, symbols |-> <<>>]
pdbOutputsEmpty ==
    /\ tpi = [records |-> <<>>, arrays |-> <<>>, inner |-> <<>>, var |-> <<>>,
              methods |-> <<>>]
    /\ scoped = [publics |-> <<>>, capacity |-> 0, live |-> {}]
    /\ dbi = <<>> /\ procRefs = <<>> /\ contribs = <<>> /\ modIndex = 0
    /\ writing = NotWriting /\ symbols = [publics |-> <<>>, globals |-> <<>>]

-----------------------------------------------------------------------------
(* Types of variables.                                                     *)

Simple(name) == [simple |-> name, record |-> 0]
Record(n)    == [simple |-> "", record |-> n]
NoTypeIndex  == Simple("none")

Leaf(leaf, name, size, type, members) ==
    [leaf |-> leaf, name |-> name, size |-> size, type |-> type, members |-> members]
Written(t, record) == [t EXCEPT !.records = Append(@, record)]
Newest(t) == Record(Len(t.records))

\* typeForSize: an array of bytes, one record for each size, where no integer fits.
SimpleForSize == 0 :> "VoidPointer64" @@ 1 :> "UnsignedCharacter" @@ 2 :> "UInt16Short"
              @@ 4 :> "UInt32" @@ 8 :> "UInt64"
TypeForSize(t, size) ==
    IF size \in DOMAIN SimpleForSize THEN Simple(SimpleForSize[size]) ELSE t.arrays[size]

\* typeForKindParts.
SimpleForKind ==
    "Char" :> "NarrowCharacter" @@ "WChar" :> "WideCharacter"
    @@ "Int8" :> "SignedCharacter" @@ "Int16" :> "Int16Short" @@ "Int32" :> "Int32"
    @@ "Int64" :> "Int64Quad" @@ "UInt8" :> "UnsignedCharacter"
    @@ "UInt16" :> "UInt16Short" @@ "UInt32" :> "UInt32" @@ "UInt64" :> "UInt64"
    @@ "Float32" :> "Float32" @@ "Float64" :> "Float64"
    @@ "PChar" :> "NarrowCharacter*" @@ "PWChar" :> "WideCharacter*"
Boolean == 1 :> "Boolean8" @@ 2 :> "Boolean16" @@ 4 :> "Boolean32" @@ 8 :> "Boolean64"
BySize(v) == ~(v.kind \in DOMAIN SimpleForKind \/ (v.kind = "Bool" /\ v.size \in DOMAIN Boolean))
TypeForKind(t, v) ==
    CASE BySize(v) -> TypeForSize(t, v.size)
      [] ~BySize(v) /\ v.kind = "Bool" -> Simple(Boolean[v.size])
      [] OTHER -> Simple(SimpleForKind[v.kind])

\* resolveTypeIndex, and the array records it writes for variables in turn: one
\* for each size where it is first needed.
ResolveTypeIndex(t, v) ==
    IF v.place \in DOMAIN t.var THEN t.var[v.place] ELSE TypeForKind(t, v)
NeedsArray(t, v) ==
    /\ v.place \notin DOMAIN t.var /\ BySize(v)
    /\ v.size \notin DOMAIN SimpleForSize \cup DOMAIN t.arrays
NeedingAll(t, vs) ==
    LET at  == Among(Indices(vs), {i \in DOMAIN vs : NeedsArray(t, vs[i])})
        new == Distinct([n \in DOMAIN at |-> vs[at[n]].size])
    IN  [t EXCEPT !.records = @ \o [n \in DOMAIN new |->
                    Leaf("ARRAY", "", new[n], Simple("UnsignedCharacter"), <<>>)],
                  !.arrays = @ @@ [size \in Range(new) |->
                    Record(Len(t.records) + CHOOSE n \in DOMAIN new : new[n] = size)]]

-----------------------------------------------------------------------------
(* emitAggregates: one registered aggregate at a time.                      *)

Member(kind, name, offset, type) ==
    [kind |-> kind, name |-> name, offset |-> offset, type |-> type]
Unsigned(size) == Simple(SimpleForSize[size])
Typed(t, inner, var) == [t EXCEPT !.inner = Append(@, inner), !.var = Append(@, var)]

\* A structure with a bit for each value of the enum.
EmitSet(t, a) ==
    LET n      == Len(a.entries)
        bits   == [t EXCEPT !.records = @ \o [i \in 1..n |->
                    Leaf("BITFIELD", "", a.entries[i].ordinal, Unsigned(a.size), <<>>)]]
        list   == Written(bits, Leaf("FIELDLIST", "", 0, NoTypeIndex, [i \in 1..n |->
                    Member("DATA", a.entries[i].name, 0, Record(Len(t.records) + i))]))
        struct == Written(list, Leaf("STRUCTURE", a.name, a.size, Newest(list), <<>>))
    IN  Typed(struct, Newest(struct), Newest(struct))
EmitEnum(t, a) ==
    LET list == Written(t, Leaf("FIELDLIST", "", 0, NoTypeIndex, [i \in DOMAIN a.entries |->
                  Member("ENUMERATE", a.entries[i].name, a.entries[i].ordinal,
                         Unsigned(a.size))]))
        enum == Written(list, Leaf("ENUM", a.name, a.size, Newest(list), <<>>))
    IN  Typed(enum, Newest(enum), Newest(enum))

\* A function of the class with forward declaration `class'; `w.list' is the one
\* record of an empty argument list, shared, 0 before it is written.
Arguments(t, m) ==
    Written(t, Leaf("ARGLIST", "", Len(m.params), NoTypeIndex,
      [i \in DOMAIN m.params |-> Member("ARGUMENT", "", 0, ResolveTypeIndex(t, m.params[i]))]))
MemberFunction(t, m, class, list) ==
    Written(t, Leaf("MFUNCTION", "", Len(m.params), class,
      <<Member("RETURN", "", 0, Simple(IF m.void THEN "Void" ELSE "Int32")),
        Member("THIS", "", 0, Record(class.record + 1)),
        Member("ARGUMENTS", "", 0, Record(list))>>))
WithFunction(t, m, shared, own) ==
    [t    |-> [t EXCEPT !.methods = [name \in DOMAIN @ \cup {m.qualified} |->
                                       IF name = m.qualified THEN Newest(t) ELSE @[name]]],
     list |-> shared, own |-> Append(own, Member("METHOD", m.name, 0, Newest(t)))]
WithArguments(w, m, class, t, list) ==
    WithFunction(MemberFunction(t, m, class, list), m,
                 IF m.params = <<>> THEN list ELSE w.list, w.own)
WithNewArguments(w, m, class, t) == WithArguments(w, m, class, t, Len(t.records))
EmitMethod(w, m, class) ==
    IF m.params = <<>> /\ w.list # 0 THEN WithArguments(w, m, class, w.t, w.list)
    ELSE WithNewArguments(w, m, class, Arguments(NeedingAll(w.t, m.params), m))
\* The forward declaration, the pointer to it and the functions.
EmitMethods(t, a) ==
    LET forward == Written(t, Leaf("FORWARD", a.name, 0, NoTypeIndex, <<>>))
        pointer == Written(forward, Leaf("POINTER", "", 8, Newest(forward), <<>>))
        w[n \in 0..Len(a.methods)] ==
            IF n = 0 THEN [t |-> pointer, list |-> 0, own |-> <<>>]
            ELSE EmitMethod(w[n - 1], a.methods[n], Newest(forward))
    IN  IF a.kind # "Class" \/ a.methods = <<>> THEN [t |-> t, list |-> 0, own |-> <<>>]
        ELSE w[Len(a.methods)]

\* A field that refers to an aggregate not written yet is a byte, one without any
\* type four of them.
FieldType(t, f) ==
    CASE f.nested # 0 /\ f.nested \in DOMAIN t.var -> t.var[f.nested]
      [] f.nested # 0 /\ f.nested \notin DOMAIN t.var -> Simple("UnsignedCharacter")
      [] OTHER -> TypeForKind(t, [kind |-> f.kind, size |-> IF f.size = 0 THEN 4 ELSE f.size])
FieldNeeds(a) ==
    LET own == SelectSeq(a.fields, LAMBDA f : f.nested = 0)
    IN  [i \in DOMAIN own |-> [kind |-> own[i].kind, place |-> 0,
                               size |-> IF own[i].size = 0 THEN 4 ELSE own[i].size]]
BaseMember(t, a) ==
    IF a.kind = "Class" /\ a.base \in DOMAIN t.inner
    THEN <<Member("BASE", "", 0, t.inner[a.base])>> ELSE <<>>
WithPointer(class, pointer) == Typed(pointer, Newest(class), Newest(pointer))
WithClass(a, t) ==
    IF a.kind # "Class" THEN Typed(t, Newest(t), Newest(t))
    ELSE WithPointer(t, Written(t, Leaf("POINTER", "", 8, Newest(t), <<>>)))
WithFieldList(a, t) ==
    WithClass(a, Written(t, Leaf(IF a.kind = "Class" THEN "CLASS" ELSE "STRUCTURE",
                                 a.name, a.size, Newest(t), <<>>)))
WithMembers(a, own, t) ==
    WithFieldList(a, Written(t, Leaf("FIELDLIST", "", 0, NoTypeIndex,
      BaseMember(t, a)
      \o [i \in DOMAIN a.fields |-> Member("DATA", a.fields[i].name, a.fields[i].offset,
                                           FieldType(t, a.fields[i]))]
      \o own)))
WithMethods(a, w) == WithMembers(a, w.own, NeedingAll(w.t, FieldNeeds(a)))
EmitClass(t, a) == WithMethods(a, EmitMethods(t, a))

EmitAggregate ==
    /\ phase = "aggregates" /\ Len(tpi.inner) < Len(registry.aggregates)
    /\ LET a == registry.aggregates[Len(tpi.inner) + 1]
       IN  tpi' = CASE a.kind = "Set" -> EmitSet(tpi, a)
                    [] a.kind = "Enum" -> EmitEnum(tpi, a)
                    [] OTHER -> EmitClass(tpi, a)
    /\ UNCHANGED <<phase, pdbInputs, scoped, dbi, procRefs, contribs, modIndex, writing,
                   symbols>>

-----------------------------------------------------------------------------
(* emitModules: function by function.                                      *)

\* The buffer of the scoped names gets its final size here.
ReserveNone(methods) == 0
Reserve(methods) == Cardinality(DOMAIN methods)
AggregatesDone ==
    /\ phase = "aggregates" /\ Len(tpi.inner) = Len(registry.aggregates)
    /\ scoped' = [scoped EXCEPT !.capacity = Reserve(tpi.methods)]
    /\ phase' = "write"
    /\ UNCHANGED <<pdbInputs, tpi, dbi, procRefs, contribs, modIndex, writing, symbols>>

\* push_back: a full vector moves, and with it every name kept in place.
PushName(s, public) ==
    LET n == Len(s.publics) + 1
    IN  [publics  |-> Append(s.publics, public),
         capacity |-> IF n <= s.capacity THEN s.capacity ELSE n + n \div 2,
         live     |-> (IF n <= s.capacity THEN s.live ELSE {}) \cup {n}]
ScopedName(name) == <<name[Len(name) - 1], "::", Last(name)>>

Symbol(kind, name, segment, offset, size, type, end) ==
    [kind |-> kind, name |-> name, segment |-> segment, offset |-> offset, size |-> size,
     type |-> type, end |-> end]
\* S_GPROC32, S_FRAMEPROC, a S_REGREL32 for each variable, S_END; End is patched.
FunctionSymbols(t, f, name, type, at) ==
    <<Symbol("GPROC32", name, f.segment, f.offset, f.size, type, at + 2 + Len(f.locals)),
      Symbol("FRAMEPROC", <<>>, 0, 0, 0, NoTypeIndex, 0)>>
    \o [i \in DOMAIN f.locals |->
          Symbol("REGREL32", <<f.locals[i].name>>, 0, f.locals[i].offset, 0,
                 ResolveTypeIndex(t, f.locals[i]), 0)]
    \o <<Symbol("END", <<>>, 0, 0, 0, NoTypeIndex, 0)>>

\* The functions of the module after those in `dbi'.
Writing == modules[Len(dbi) + 1]
WriteFunction ==
    /\ phase = "write" /\ Len(dbi) < Len(modules)
    /\ writing.done < Len(Writing.functions)
    /\ LET f      == Writing.functions[writing.done + 1]
           at     == Len(writing.symbols)
           method == f.name \in DOMAIN tpi.methods
           name   == IF method THEN ScopedName(f.name) ELSE f.name
           t      == NeedingAll(tpi, f.locals)
       IN  /\ tpi' = t
           /\ writing' = [done    |-> writing.done + 1,
                          symbols |-> writing.symbols \o FunctionSymbols(t, f, name,
                            IF method THEN tpi.methods[f.name] ELSE NoTypeIndex, at)]
           /\ contribs' = Append(contribs, [segment |-> f.segment, offset |-> f.offset,
                                            size |-> f.size, module |-> modIndex])
           /\ IF method
              THEN /\ scoped' = PushName(scoped, [name |-> name, segment |-> f.segment,
                                                  offset |-> f.offset, function |-> TRUE])
                   /\ procRefs' = Append(procRefs,
                        [name |-> name, module |-> Len(dbi) + 1, offset |-> at])
              ELSE UNCHANGED <<scoped, procRefs>>
    /\ UNCHANGED <<phase, pdbInputs, dbi, modIndex, symbols>>

\* The lines of a module by address, lines at one address either way, and those
\* of one function.
SortedRows(sources, reversed) ==
    LET rows  == FlattenSeq([n \in DOMAIN sources |->
                   [i \in DOMAIN sources[n].lines |->
                      [path |-> sources[n].path, segment |-> sources[n].lines[i].segment,
                       offset |-> sources[n].lines[i].offset,
                       line |-> sources[n].lines[i].line]]])
        order == Ordered(DOMAIN rows, LAMBDA i, j :
                   \/ rows[i].segment < rows[j].segment
                   \/ /\ rows[i].segment = rows[j].segment
                      /\ \/ rows[i].offset < rows[j].offset
                         \/ rows[i].offset = rows[j].offset /\ i # j /\ (i < j) # reversed)
    IN  [n \in DOMAIN order |-> rows[order[n]]]
RowsOf(f, rows) == SelectSeq(rows, LAMBDA r :
    r.segment = f.segment /\ r.offset >= f.offset /\ r.offset < f.offset + Max({f.size, 1}))
\* One subsection for each function with lines, under the path of the first.
LineBlocks(m, reversed) ==
    LET blocks == [n \in DOMAIN m.functions |->
          LET f    == m.functions[n]
              rows == RowsOf(f, SortedRows(m.sources, reversed))
          IN  [segment |-> f.segment, offset |-> f.offset, size |-> f.size,
               path  |-> IF rows = <<>> THEN "" ELSE rows[1].path,
               lines |-> [i \in DOMAIN rows |->
                            [offset |-> rows[i].offset - f.offset, line |-> rows[i].line]]]]
    IN  SelectSeq(blocks, LAMBDA b : b.lines # <<>>)

\* The counter goes on after a module without lines too.
BumpedAfterLines(m) == IF m.sources = <<>> THEN modIndex ELSE modIndex + 1
Bumped(m) == modIndex + 1
FinishModule ==
    /\ phase = "write" /\ Len(dbi) < Len(modules)
    /\ writing.done = Len(Writing.functions)
    /\ \E reversed \in BOOLEAN :
         dbi' = Append(dbi, [name |-> Writing.name, symbols |-> writing.symbols,
                             blocks |-> LineBlocks(Writing, reversed)])
    /\ modIndex' = Bumped(Writing)
    /\ writing' = NotWriting
    /\ UNCHANGED <<phase, pdbInputs, tpi, scoped, procRefs, contribs, symbols>>

\* By section and offset: debuggers search them.
SubmitContribs ==
    /\ phase = "write" /\ Len(dbi) = Len(modules)
    /\ LET order == Ordered(DOMAIN contribs, LAMBDA i, j :
             \/ contribs[i].segment < contribs[j].segment
             \/ /\ contribs[i].segment = contribs[j].segment
                /\ \/ contribs[i].offset < contribs[j].offset
                   \/ contribs[i].offset = contribs[j].offset /\ i < j)
       IN  contribs' = [n \in DOMAIN order |-> contribs[order[n]]]
    /\ phase' = "symbols"
    /\ UNCHANGED <<pdbInputs, tpi, scoped, dbi, procRefs, modIndex, writing, symbols>>

-----------------------------------------------------------------------------
(* emitPublicsAndGlobals, and the file is committed.                        *)

\* The characters of a name that moved may be overwritten by then.
Overwritten == <<"?">>
ScopedPublics(lost) == [n \in DOMAIN scoped.publics |->
    IF n \in lost THEN [scoped.publics[n] EXCEPT !.name = Overwritten] ELSE scoped.publics[n]]
Globals(t) ==
    LET data == SelectSeq(publics, LAMBDA p : ~p.function)
    IN  [i \in DOMAIN data |->
           [name |-> Last(data[i].name), segment |-> data[i].segment,
            offset |-> data[i].offset, type |-> ResolveTypeIndex(t, data[i])]]
EmitPublicsAndGlobals ==
    /\ phase = "symbols"
    /\ tpi' = NeedingAll(tpi, SelectSeq(publics, LAMBDA p : ~p.function))
    /\ \E lost \in SUBSET (DOMAIN scoped.publics \ scoped.live) :
         symbols' = [publics |-> [i \in DOMAIN publics |->
                                    [name |-> publics[i].name, segment |-> publics[i].segment,
                                     offset |-> publics[i].offset,
                                     function |-> publics[i].function]]
                                 \o ScopedPublics(lost),
                     globals |-> Globals(tpi')]
    /\ phase' = "done"
    /\ UNCHANGED <<pdbInputs, scoped, dbi, procRefs, contribs, modIndex, writing>>

PdbWriterNext ==
    \/ EmitAggregate \/ AggregatesDone \/ WriteFunction \/ FinishModule
    \/ SubmitContribs \/ EmitPublicsAndGlobals
=============================================================================
