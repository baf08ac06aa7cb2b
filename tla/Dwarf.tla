--------------------------------- MODULE Dwarf ---------------------------------
(***************************************************************************)
(* The `dwarf' command: the units of the .map file, typed by the sizes the  *)
(* .rsm lets it guess (rsm/rsm_decorate.cpp), with the frames of their      *)
(* functions (cli/cli_cmd_dwarf.cpp), written as .debug_info, .debug_abbrev *)
(* and .debug_line (dwarf/dwarf_emitter.cpp, dwarf/dwarf_sections.cpp).     *)
(*                                                                         *)
(* A DIE is one element of the section, [code, values]; its offset counts   *)
(* the elements before it.  Code 0 ends the children, Header opens a unit.  *)
(***************************************************************************)
EXTENDS Image

VARIABLES
    units,      \* mod.units: [module, source, symbols, lines]
    emitted,    \* how many of them emit() has handled
    info,       \* .debug_info
    linePrograms    \* .debug_line: [file, ops]

dwarfVars == <<units, emitted, info, linePrograms>>
dwarfEmpty == units = <<>> /\ emitted = 0 /\ info = <<>> /\ linePrograms = <<>>

-----------------------------------------------------------------------------
(* Types: [kind, length, of], `of' telling apart what addType() was asked   *)
(* for twice: the unit and the marker, or <<0, 0>> for the byte types.       *)

NoType       == [kind |-> "none", length |-> 0, of |-> <<0, 0>>]
ByteType     == [kind |-> "UInt8", length |-> 0, of |-> <<0, 0>>]
ByteArray(n) == [kind |-> "array", length |-> n, of |-> <<0, 0>>]
Base(kind, u, marker) == [kind |-> kind, length |-> 0, of |-> <<u, marker>>]
KindForSize  == [size \in {1, 2, 4, 8} |-> CASE size = 1 -> "UInt8" [] size = 2 -> "UInt16"
                                             [] size = 4 -> "Int32" [] size = 8 -> "Int64"]

\* populate(); no symbol has a type or slots yet.
Untyped(u) ==
    [u EXCEPT !.symbols = [i \in DOMAIN @ |->
       [address |-> @[i].address, kind |-> @[i].kind, name |-> @[i].name,
        type |-> NoType, params |-> <<>>, locals |-> <<>>]]]
DwarfPopulate ==
    /\ phase = "populate"
    /\ units' = [i \in DOMAIN Map!Populated.units |-> Untyped(Map!Populated.units[i])]
    /\ phase' = IF Rsm.have THEN "decorate" ELSE "emit"
    /\ UNCHANGED <<emitted, info, linePrograms>>

SymbolsOf(kind) ==
    UNION {{s \in Range(u.symbols) : s.kind = kind} : u \in Range(units)}
\* The distance to the next variable of the program, 0 after the last.
Gap(va) ==
    LET after == {s.address : s \in SymbolsOf("Variable")} \ 0..va
    IN  IF after = {} THEN 0 ELSE Min(after) - va

GlobalsOf(u) ==
    {s \in Range(units[u].symbols) : s.kind = "Variable" /\ VariableAt(s.address) # 0}
WithMarker(u, marker) ==
    {s \in GlobalsOf(u) : LET v == Rsm.variables[VariableAt(s.address)]
                          IN  v.primitive /\ v.marker = marker}
MarkerType(u, marker) ==
    LET gaps == {Gap(s.address) : s \in WithMarker(u, marker)} \ {0}
        size == IF gaps = {} THEN 4 ELSE Min(gaps)
    IN  IF size \in DOMAIN KindForSize THEN Base(KindForSize[size], u, marker)
        ELSE ByteArray(size)
GlobalType(u, s) ==
    LET v == Rsm.variables[VariableAt(s.address)]
    IN  CASE s \notin GlobalsOf(u) -> NoType
          [] s \in GlobalsOf(u) /\ v.primitive -> MarkerType(u, v.marker)
          [] OTHER -> ByteArray(Max({1, Gap(s.address)}))
SlotType(u, v) ==
    CASE v.primitive /\ WithMarker(u, v.marker) # {} -> MarkerType(u, v.marker)
      [] v.primitive /\ WithMarker(u, v.marker) = {} -> Base("Int32", u, 256)
      [] OTHER -> ByteArray(8)

Slots(u, variables) == [i \in DOMAIN variables |->
    [name |-> variables[i].name, type |-> SlotType(u, variables[i]),
     offset |-> variables[i].stack]]
Decorated(u, s) ==
    LET p == ProcedureAt(s.address)
    IN  CASE s.kind = "Variable" -> [s EXCEPT !.type = GlobalType(u, s)]
          [] s.kind = "Function" /\ p # 0 ->
               [s EXCEPT !.params = Slots(u, Rsm.procedures[p].params),
                         !.locals = Slots(u, Rsm.procedures[p].locals)]
          [] OTHER -> s
EachSymbol(New(_, _)) ==
    units' = [u \in DOMAIN units |-> [units[u] EXCEPT
       !.symbols = [i \in DOMAIN @ |-> New(u, @[i])]]]
Decorate ==
    /\ phase = "decorate"
    /\ EachSymbol(Decorated)
    /\ phase' = "compose"
    /\ UNCHANGED <<emitted, info, linePrograms>>

-----------------------------------------------------------------------------
(* Frames.                                                                 *)

\* The size of the function at an address, up to the next function of the
\* program; of two at one address the one sorted first gets 256.
FunctionSize(va, firstOfTwo) ==
    LET after == {s.address : s \in SymbolsOf("Function")} \ 0..va
    IN  CASE firstOfTwo -> 256
          [] ~firstOfTwo /\ after # {} -> Min(after) - va
          [] OTHER -> 1024
InFrame(slots, vars) == [i \in DOMAIN slots |->
    [name |-> vars[i].name, type |-> slots[i].type, offset |-> vars[i].offset]]
FrameOf(s, firstOfTwo) ==
    LET vars == ResolveFunction(Rsm.procedures[ProcedureAt(s.address)],
                                Slice(s.address, FunctionSize(s.address, firstOfTwo)),
                                MarkerSizes(Rsm.variables))
    IN  SelectSeq(vars, LAMBDA v : ~v.link)
Params(vars) == SelectSeq(vars, LAMBDA v : v.param)
Locals(vars) == SelectSeq(vars, LAMBDA v : ~v.param)
Composed(s, firstOfTwo) ==
    LET own == FrameOf(s, firstOfTwo)
    IN  IF s.kind # "Function" \/ ProcedureAt(s.address) = 0 THEN s
        ELSE [s EXCEPT !.params = InFrame(@, Params(own)), !.locals = InFrame(@, Locals(own))]

\* The sort of the functions leaves open which of two at one address comes first.
Shared == {s \in SymbolsOf("Function") :
             \E t \in SymbolsOf("Function") : t # s /\ t.address = s.address}
Compose ==
    /\ phase = "compose"
    /\ \E early \in SUBSET Shared :
         /\ \A s \in Shared :
              Cardinality({t \in Shared \ early : t.address = s.address}) = 1
         /\ EachSymbol(LAMBDA u, s : Composed(s, s \in early))
    /\ phase' = "emit"
    /\ UNCHANGED <<emitted, info, linePrograms>>

-----------------------------------------------------------------------------
(* .debug_abbrev: what the values of a DIE with code n mean.                *)

Abbreviation(tag, children, attributes) ==
    [tag |-> tag, children |-> children, attributes |-> attributes]
Abbreviations == <<
    Abbreviation("compile_unit", TRUE, <<"producer", "language", "name", "comp_dir",
                                         "low_pc", "high_pc", "stmt_list">>),
    Abbreviation("subprogram", FALSE, <<"name", "low_pc", "high_pc", "external">>),
    Abbreviation("variable", FALSE, <<"name", "location", "external">>),
    Abbreviation("variable", FALSE, <<"name", "location", "type", "external">>),
    Abbreviation("base_type", FALSE, <<"name", "byte_size", "encoding">>),
    Abbreviation("array_type", TRUE, <<"type">>),
    Abbreviation("subrange_type", FALSE, <<"upper_bound">>),
    Abbreviation("subprogram", TRUE, <<"name", "low_pc", "high_pc", "external",
                                       "frame_base">>),
    Abbreviation("formal_parameter", FALSE, <<"name", "type", "location">>),
    Abbreviation("variable", FALSE, <<"name", "type", "location">>) >>

Header == -1
DIE(code, values) == [code |-> code, values |-> values]
EndOfChildren == DIE(0, <<>>)

-----------------------------------------------------------------------------
(* .debug_info of one unit, appended at offset `at'.                        *)

\* cuRange and symbolEnd.
CuAddresses(u) ==
    ({l.address : l \in Range(u.lines)}
      \cup {s.address : s \in {s \in Range(u.symbols) : s.kind = "Function"}}) \ {0}
CuLow(u)  == IF CuAddresses(u) = {} THEN 0 ELSE Min(CuAddresses(u))
CuHigh(u) == IF CuAddresses(u) = {} THEN 0 ELSE Max(CuAddresses(u))
EndOfUnit(u, s) == CuHigh(u) + 1
SymbolEnd(u, s) ==
    LET best == Min({CuHigh(u) + 1} \cup
                    ({o.address : o \in Range(u.symbols)} \ 0..s.address))
    IN  Max({best, s.address + 1})

\* describePrimitive: [name, size, encoding].
Described == "UInt8"  :> <<"Byte", 1, "unsigned">> @@ "UInt16" :> <<"Word", 2, "unsigned">>
          @@ "Int32"  :> <<"Integer", 4, "signed">> @@ "Int64" :> <<"Int64", 8, "signed">>

\* emitTypeDIEs: the elements of the arrays, then every other type, each once.
SymbolTypes(s) ==
    IF s.kind = "Variable" THEN <<s.type>>
    ELSE [i \in DOMAIN (s.params \o s.locals) |-> (s.params \o s.locals)[i].type]
TypesOf(u) ==
    LET all      == FlattenSeq([i \in DOMAIN u.symbols |-> SymbolTypes(u.symbols[i])])
        elements == IF \E t \in Range(all) : t.kind = "array" THEN <<ByteType>> ELSE <<>>
    IN  elements \o Distinct(Among(all, Range(all) \ (Range(elements) \cup {NoType})))
OffsetOf(offsets, t) == IF t \in DOMAIN offsets THEN offsets[t] ELSE 0
TypeDIE(t, offsets) ==
    IF t.kind # "array" THEN <<DIE(5, Described[t.kind])>>
    ELSE <<DIE(6, <<OffsetOf(offsets, ByteType)>>), DIE(7, <<t.length>>), EndOfChildren>>
\* w = [dies, offsets]
AfterType(w, t, at) ==
    [dies    |-> w.dies \o TypeDIE(t, w.offsets),
     offsets |-> [x \in DOMAIN w.offsets \cup {t} |->
                   IF x \in DOMAIN w.offsets THEN w.offsets[x] ELSE at + Len(w.dies)]]
TypeDIEs(u, at) ==
    LET types == TypesOf(u)
        w[n \in 0..Len(types)] ==
            IF n = 0 THEN [dies |-> <<>>, offsets |-> <<>>]
            ELSE AfterType(w[n - 1], types[n], at)
    IN  w[Len(types)]

\* emitSubprogramAndVariableDIEs.
SlotDIEs(code, slots, offsets) == [i \in DOMAIN slots |->
    DIE(code, <<slots[i].name, OffsetOf(offsets, slots[i].type), slots[i].offset>>)]
FunctionDIEs(u, s, offsets) ==
    LET values == <<s.name, s.address, SymbolEnd(u, s), TRUE>>
    IN  IF s.params = <<>> /\ s.locals = <<>> THEN <<DIE(2, values)>>
        ELSE <<DIE(8, Append(values, "rbp"))>> \o SlotDIEs(9, s.params, offsets)
             \o SlotDIEs(10, s.locals, offsets) \o <<EndOfChildren>>
VariableDIE(s, offsets) ==
    IF OffsetOf(offsets, s.type) = 0 THEN <<DIE(3, <<s.name, s.address, TRUE>>)>>
    ELSE <<DIE(4, <<s.name, s.address, OffsetOf(offsets, s.type), TRUE>>)>>
SymbolDIEs(u, s, offsets) ==
    CASE s.kind = "Function" /\ s.address \in CuLow(u)..CuHigh(u) ->
           FunctionDIEs(u, s, offsets)
      [] s.kind = "Variable" -> VariableDIE(s, offsets)
      [] OTHER -> <<>>

\* writeCompileUnit: two elements before the types, the length patched at the end.
FromUnitStart(at) == 2
FromSectionStart(at) == at + 2
CompileUnit(u, at, stmtList) ==
    LET types == TypeDIEs(u, FromSectionStart(at))
        body  == types.dies
                 \o FlattenSeq([i \in DOMAIN u.symbols |->
                                  SymbolDIEs(u, u.symbols[i], types.offsets)])
                 \o <<EndOfChildren>>
        unit  == DIE(1, <<"rsm2pdb", "Pascal83", u.source, "", CuLow(u), CuHigh(u) + 1,
                          stmtList>>)
    IN  <<DIE(Header, <<1 + Len(body)>>), unit>> \o body

-----------------------------------------------------------------------------
(* .debug_line of one unit.                                                *)

Op(name, n) == [op |-> name, n |-> n]
\* The opcodes for one row; w = [ops, address, line].
RowOps(w, row) ==
    [ops |-> w.ops
         \o (CASE w.address = -1 -> <<Op("set_address", row.address)>>
               [] w.address = row.address -> <<>>
               [] OTHER -> <<Op("advance_pc", row.address - w.address)>>)
         \o (IF w.line = row.line THEN <<>> ELSE <<Op("advance_line", row.line - w.line)>>)
         \o <<Op("copy", 0)>>,
     address |-> row.address, line |-> row.line]

ByAddress(rows) ==
    LET order == Ordered(DOMAIN rows, LAMBDA i, j :
          rows[i].address < rows[j].address \/ (rows[i].address = rows[j].address /\ i < j))
    IN  [n \in DOMAIN rows |-> rows[order[n]]]
NoRows == [ops |-> <<Op("set_file", 0)>>, address |-> -1, line |-> 1]
LineProgram(u) ==
    LET rows == ByAddress(u.lines)
        w[n \in 0..Len(rows)] == IF n = 0 THEN NoRows ELSE RowOps(w[n - 1], rows[n])
    IN  [file |-> u.source, ops |-> w[Len(rows)].ops \o <<Op("end_sequence", 0)>>]

-----------------------------------------------------------------------------
(* emit(): unit after unit, those without lines left out.                   *)

NoUnits ==
    /\ phase = "emit" /\ units = <<>>
    /\ phase' = "failed"
    /\ UNCHANGED dwarfVars
EmitUnit ==
    /\ phase = "emit" /\ emitted < Len(units)
    /\ LET u == units[emitted + 1]
       IN  IF u.lines = <<>> THEN UNCHANGED <<info, linePrograms>>
           ELSE /\ info' = info \o CompileUnit(u, Len(info), Len(linePrograms))
                /\ linePrograms' = Append(linePrograms, LineProgram(u))
    /\ emitted' = emitted + 1
    /\ UNCHANGED <<phase, units>>
\* The sections go into the executable: PeInject.
DwarfFinish ==
    /\ phase = "emit" /\ units # <<>> /\ emitted = Len(units)
    /\ phase' = "done"
    /\ UNCHANGED dwarfVars

DwarfNext ==
    /\ DwarfPopulate \/ Decorate \/ Compose \/ NoUnits \/ EmitUnit \/ DwarfFinish
    /\ UNCHANGED program

\* What the command does to the program's units and sections, whatever else moves
\* the phase.
DwarfInit == program \in Programs /\ dwarfEmpty
DwarfSpec == DwarfInit /\ [][DwarfNext]_<<program, dwarfVars>>

-----------------------------------------------------------------------------
(* A debugger's view of the sections.                                      *)

Attribute(d, name) ==
    LET names == Abbreviations[d.code].attributes
    IN  d.values[CHOOSE k \in DOMAIN names : names[k] = name]
DIEsOf(tag) == {i \in DOMAIN info : info[i].code > 0 /\ Abbreviations[info[i].code].tag = tag}
Low(i)  == Attribute(info[i], "low_pc")
High(i) == Attribute(info[i], "high_pc")
Headers == {i \in DOMAIN info : info[i].code = Header}
HeaderOfDIE(i) == Max({h \in Headers : h <= i})
\* The children of a subprogram, up to the first end mark.
ChildrenOf(i) ==
    IF ~Abbreviations[info[i].code].children THEN {}
    ELSE {j \in DOMAIN info : j > i /\ \A k \in i..j : info[k].code > 0}

\* The rows a debugger finds in a line program, opcode by opcode.
RunOp(w, op) ==
    CASE op.op = "set_address" -> [w EXCEPT !.address = op.n]
      [] op.op = "advance_pc" -> [w EXCEPT !.address = @ + op.n]
      [] op.op = "advance_line" -> [w EXCEPT !.line = @ + op.n]
      [] op.op = "copy" -> [w EXCEPT !.rows = @ \cup {[at |-> w.address, line |-> w.line]}]
      [] OTHER -> w
Started == [address |-> 0, line |-> 1, rows |-> {}]
RowsIn(p) ==
    LET w[n \in 0..Len(p.ops)] == IF n = 0 THEN Started ELSE RunOp(w[n - 1], p.ops[n])
    IN  w[Len(p.ops)].rows

\* A debugger looks for the function around an address among ranges: those of
\* two functions of one unit never meet unless they start together, those of two
\* units only when code of the one lies between code of the other.
SubprogramsDisjoint ==
    \A i, j \in DIEsOf("subprogram") :
      LET u == HeaderOfDIE(i) + 1
          v == HeaderOfDIE(j) + 1
          apart == u = v \/ High(u) <= Low(v) \/ High(v) <= Low(u)
      IN  /\ Low(i) < High(i) /\ Low(u) <= Low(i) /\ High(i) <= High(u)
          /\ apart /\ Low(i) < Low(j) => High(i) <= Low(j)

\* The lengths lead from unit to unit, each unit finds its own line program and
\* every reference to a type a type of the same unit, at offsets known only after
\* everything before them was written.
DwarfRefsResolve ==
    \A h \in Headers :
      LET next == h + 1 + info[h].values[1]
      IN  /\ next \in Headers \cup {Len(info) + 1}
          /\ \A i \in (h + 1)..(next - 1) : info[i].code # Header
          /\ LET p == Attribute(info[h + 1], "stmt_list")
             IN  p < Len(linePrograms)
                 /\ linePrograms[p + 1].file = Attribute(info[h + 1], "name")
          /\ \A i \in (h + 2)..(next - 1) :
               info[i].code > 0 /\ "type" \in Range(Abbreviations[info[i].code].attributes) =>
                 LET at == Attribute(info[i], "type") + 1
                 IN  at \in DIEsOf("base_type") \cup DIEsOf("array_type") /\ HeaderOfDIE(at) = h
=============================================================================
