------------------------------- MODULE PdbModules -------------------------------
(***************************************************************************)
(* The `pdb' command before the file is written: the publics of the .map,   *)
(* the adjuster thunks found in the code, the types of the globals, and one *)
(* module for each unit with its functions, their variables and the lines   *)
(* (cli/cli_cmd_pdb.cpp, _thunks.cpp, _aggregates.cpp, _modules.cpp).       *)
(***************************************************************************)
EXTENDS Registrar

VARIABLES
    publics,    \* inputs.publics
    thunks,     \* thunks_to_emit
    modules,    \* inputs.modules: [name, functions, sources]
    current     \* the unit being composed: [unit, raws, functions], raws to come

pdbInputs == <<registry, latestFirst, publics, thunks, modules, current>>
NoCurrent == [unit |-> <<>>, raws |-> <<>>, functions |-> <<>>]
pdbInputsEmpty ==
    /\ registry = EmptyRegistry /\ publics = <<>> /\ thunks = <<>> /\ modules = <<>>
    /\ current = NoCurrent

-----------------------------------------------------------------------------
(* Publics and thunks.                                                     *)

Public(name, section, offset, function) ==
    [name |-> name, segment |-> section, offset |-> offset, function |-> function,
     kind |-> "", size |-> 0, place |-> 0]
MapPublics ==
    LET kept == Among(MapFile.publics,
                  {p \in Range(MapFile.publics) :
                     ~Skipped(p.name) /\ FindPeSection(RvaOfPublic(p)) # 0})
    IN  [i \in DOMAIN kept |->
           LET s == FindPeSection(RvaOfPublic(kept[i]))
           IN  Public(kept[i].name, s, OffsetIn(s, RvaOfPublic(kept[i])),
                      IsCode(kept[i].segment))]
BuildPublics ==
    /\ phase = "publics"
    /\ publics' = MapPublics
    /\ phase' = "thunks"
    /\ UNCHANGED <<registry, latestFirst, thunks, modules, current>>

\* pe/thunk_scanner.h: add rcx, imm8; jmp rel32 -- nine bytes, at offset i of a
\* section, with an adjustment of -112..0.
ThunkSize == 9
IsThunk(at) ==
    LET b(n) == program.bytes[at + n]
    IN  b(1) = 72 /\ b(2) = 131 /\ b(3) = 193 /\ b(5) = 233 /\ Signed(b(4)) \in -112..0
ThunksIn(n) ==
    LET s    == program.sections[n]
        size == Max({s.virtual, s.raw})
        starts == Ordered({i \in 0..(size - ThunkSize) : IsThunk(s.pointer + i)},
                          LAMBDA i, j : i < j)
        Found(w, i) ==
            IF i < w.next THEN w
            ELSE [next |-> i + ThunkSize, found |-> Append(w.found,
                    [segment |-> n, offset |-> i,
                     target |-> program.base + s.rva + i + ThunkSize
                                + Int32(program.bytes, s.pointer + i + 6)])]
        w[k \in 0..Len(starts)] ==
            IF k = 0 THEN [next |-> 0, found |-> <<>>] ELSE Found(w[k - 1], starts[k])
    IN  IF ~s.code \/ size < ThunkSize \/ s.pointer + size > Len(program.bytes) THEN <<>>
        ELSE w[Len(starts)].found

\* The first public at an address, 0 for none; one of a segment the .map file does
\* not list is counted from the image base.
IndexedVA(p) == IF Map!Listed(p.segment) = {} THEN program.base + p.offset ELSE VA(p)
TargetOf(va) == SelectInSeq(MapFile.publics, LAMBDA p : IndexedVA(p) = va)
\* The lines, of listed segments, at the last address with lines up to va.
RowsAround(va) ==
    LET rows == {r \in UNION {Range(t.lines) : t \in Range(MapFile.tables)} :
                   Map!Listed(r.segment) # {} /\ VA(r) <= va}
    IN  {r.line : r \in {r \in rows : \A q \in rows : VA(q) <= VA(r)}}
AdjusterName(name) == [name EXCEPT ![Len(name)] = @ \o "$Adjust"]

Emitted(t) ==
    LET p == TargetOf(t.target)
    IN  /\ p # 0 /\ IsCode(MapFile.publics[p].segment)
        /\ t.offset + ThunkSize <= program.sections[t.segment].raw
ResolvedThunk(t, lowest) ==
    LET lines == RowsAround(t.target)
    IN  [segment |-> t.segment, offset |-> t.offset,
         name |-> AdjusterName(MapFile.publics[TargetOf(t.target)].name),
         unit |-> FindUnit(t.target).unit,
         line |-> CASE lines = {} -> 1 [] lines # {} /\ lowest -> Min(lines)
                    [] OTHER -> Max(lines)]
DetectAdjusterThunks ==
    /\ phase = "thunks"
    /\ \E lowest \in BOOLEAN :
         LET all   == FlattenSeq([n \in DOMAIN program.sections |-> ThunksIn(n)])
             found == Among(all, {t \in Range(all) : Emitted(t)})
         IN  thunks' = [i \in DOMAIN found |-> ResolvedThunk(found[i], lowest)]
    /\ publics' = publics \o [i \in DOMAIN thunks' |->
         Public(thunks'[i].name, thunks'[i].segment, thunks'[i].offset, TRUE)]
    /\ phase' = IF Rsm.have THEN "globals" ELSE "modules"
    /\ UNCHANGED <<registry, latestFirst, modules, current>>

-----------------------------------------------------------------------------
(* enrichGlobalsViaRsm: primitives by name, others by the registrar.        *)

WithSize(r, place, size) ==
    IF place # 0 /\ r.aggregates[place].size # 0 THEN r.aggregates[place].size ELSE size
WithType(out, p, typed) ==
    [r |-> typed.r, out |-> Append(out,
       [p EXCEPT !.place = typed.place, !.size = WithSize(typed.r, typed.place, @)])]
EnrichPublic(w, p) ==
    LET va  == program.base + program.sections[p.segment].rva + p.offset
        v   == Rsm.variables[VariableAt(va)]
    IN  CASE p.function \/ VariableAt(va) = 0 -> [r |-> w.r, out |-> Append(w.out, p)]
          [] ~(p.function \/ VariableAt(va) = 0) /\ v.type \in DOMAIN Primitives ->
               [r |-> w.r, out |-> Append(w.out,
                  [p EXCEPT !.kind = Primitives[v.type].kind,
                            !.size = Primitives[v.type].size])]
          [] OTHER ->
               WithType(w.out, p, IF v.primitive \/ v.hash = 0 THEN [place |-> 0, r |-> w.r]
                                  ELSE Register(Meant(v.unit, v.hash), w.r))
Enriched ==
    LET w[n \in 0..Len(publics)] ==
            IF n = 0 THEN [r |-> registry, out |-> <<>>] ELSE EnrichPublic(w[n - 1], publics[n])
    IN  w[Len(publics)]
EnrichGlobals ==
    /\ phase = "globals"
    /\ LET w == Enriched
       IN  registry' = w.r /\ publics' = w.out
    /\ phase' = "modules"
    /\ UNCHANGED <<latestFirst, thunks, modules, current>>

-----------------------------------------------------------------------------
(* composeModules: the variables of one function.                           *)

Target(v) == IF v.hash = 0 THEN 0 ELSE Meant(v.unit, v.hash)
ClassName(name) == IF Len(name) < 2 THEN "" ELSE name[Len(name) - 1]

\* One variable: its own type, else an anonymous set; Self's is its class.
TypeOf(v, own) ==
    IF v.hash = 0 \/ own.place # 0 \/ v.self THEN own
    ELSE RegisterInprocSet(v.unit, v.hash, own.r)
Plain(v, typed) ==
    [name |-> v.name, param |-> v.param, offset |-> v.offset, kind |-> v.kind,
     size |-> WithSize(typed.r, typed.place, v.size), place |-> typed.place]
SelfLocal(plain, self) ==
    IF self.place # 0 THEN [plain EXCEPT !.place = self.place, !.size = 8]
    ELSE [plain EXCEPT !.size = 0, !.kind = ""]
WithSelf(locals, plain, self) == [r |-> self.r, locals |-> Append(locals, SelfLocal(plain, self))]
WithLocal(locals, v, procedure, typed) ==
    LET class == ClassName(procedure.name)
    IN  IF ~v.self \/ class = ""
        THEN [r |-> typed.r, locals |-> Append(locals, Plain(v, typed))]
        ELSE WithSelf(locals, Plain(v, typed), RegisterSelf(procedure.unit, class, typed.r))
ComposeLocal(w, v, procedure) ==
    WithLocal(w.locals, v, procedure, TypeOf(v, Register(Target(v), w.r)))

\* A method: its parameters but Self, and where it is registered -- the first
\* class of its name there is, else the one the .rsm declares.
WithParam(params, v, typed) ==
    [r |-> typed.r,
     params |-> Append(params, [kind |-> v.kind, size |-> v.size, place |-> typed.place])]
MethodParam(w, v) ==
    IF ~v.param \/ v.self \/ v.link \/ v.name \in {"", "."} THEN w
    ELSE WithParam(w.params, v, Register(Target(v), w.r))
Owner(r, class) ==
    LET there == SelectInSeq(r.aggregates, LAMBDA a : a.kind = "Class" /\ a.name = class)
    IN  IF there # 0 THEN [place |-> there, r |-> r] ELSE Register(AnyClass(0, class), r)
AddMethod(owner, method) ==
    IF owner.place = 0 THEN owner.r
    ELSE [owner.r EXCEPT !.aggregates[owner.place].methods = Append(@, method)]
Method(name, params, procedure) ==
    [name |-> Last(name), qualified |-> name, params |-> params,
     void |-> ~\E l \in Range(procedure.locals) : l.name = "Result"]
ComposeMethod(name, procedure, w) ==
    AddMethod(Owner(w.r, ClassName(name)), Method(name, w.params, procedure))

\* What a procedure of the .rsm adds to a function: its variables, typed, and
\* the method it may be.
MethodParams(r, vars) ==
    LET w[n \in 0..Len(vars)] ==
            IF n = 0 THEN [r |-> r, params |-> <<>>] ELSE MethodParam(w[n - 1], vars[n])
    IN  w[Len(vars)]
ComposeLocals(procedure, vars) ==
    LET w[n \in 0..Len(vars)] ==
            IF n = 0 THEN [r |-> registry, locals |-> <<>>]
            ELSE ComposeLocal(w[n - 1], vars[n], procedure)
    IN  w[Len(vars)]
WithMethod(name, procedure, vars, w) ==
    [locals |-> w.locals,
     r |-> IF Len(name) < 3 THEN w.r
           ELSE ComposeMethod(name, procedure, MethodParams(w.r, vars))]
ComposeProcedure(name, procedure, vars) ==
    WithMethod(name, procedure, vars, ComposeLocals(procedure, vars))

-----------------------------------------------------------------------------
(* composeModules: unit by unit, function by function.                      *)

FunctionsOf(u) == {i \in DOMAIN MapFile.publics :
    LET p == MapFile.publics[i] IN p.segment = 1 /\ FindUnit(VA(p)).unit = u}
UnitNames ==
    {t.module : t \in Range(MapFile.tables)}
    \cup {u \in {s.unit : s \in Spans} : FunctionsOf(u) # {}}
UnitsToCompose == {u \in UnitNames : ~Skipped(u)} \ {modules[i].name : i \in DOMAIN modules}

\* The functions of a unit by address, either of two at one address first; each
\* ends where the next one starts, the last with the unit's span.
NoEnd(va) == va
EndOfSpan(va) == FindUnit(va).end
Raws(u, reversed) ==
    LET order == Ordered(FunctionsOf(u), LAMBDA i, j :
            LET a == VA(MapFile.publics[i])
                b == VA(MapFile.publics[j])
            IN  a < b \/ (a = b /\ i # j /\ (i < j) # reversed))
        at(n) == VA(MapFile.publics[order[n]])
    IN  [n \in DOMAIN order |->
           [name |-> MapFile.publics[order[n]].name, va |-> at(n),
            end |-> IF n < Len(order) THEN at(n + 1) ELSE EndOfSpan(at(n))]]
\* Units in the order of their names, which is any.
StartUnit ==
    /\ phase = "modules" /\ current.unit = <<>>
    /\ \E u \in UnitsToCompose, reversed \in BOOLEAN :
         current' = [unit |-> u, raws |-> Raws(u, reversed), functions |-> <<>>]
    /\ UNCHANGED <<phase, registry, latestFirst, publics, thunks, modules>>

Function(name, segment, offset, size, locals) ==
    [name |-> name, segment |-> segment, offset |-> offset, size |-> size, locals |-> locals]
ComposeFunction ==
    /\ phase = "modules" /\ current.raws # <<>>
    /\ LET raw  == Head(current.raws)
           s    == FindPeSection(raw.va - program.base)
           size == raw.end - raw.va
           p    == IF Rsm.have /\ s # 0 THEN ProcedureAt(raw.va) ELSE 0
           w    == IF p = 0 THEN [r |-> registry, locals |-> <<>>]
                   ELSE ComposeProcedure(raw.name, Rsm.procedures[p],
                          ResolveFunction(Rsm.procedures[p], Slice(raw.va, size),
                                          MarkerSizes(Rsm.variables)))
           done == Function(raw.name, s, OffsetIn(s, raw.va - program.base), size, w.locals)
       IN  /\ current' = [current EXCEPT !.raws = Tail(@),
                            !.functions = IF s = 0 THEN @ ELSE Append(@, done)]
           /\ registry' = w.r
    /\ UNCHANGED <<phase, latestFirst, publics, thunks, modules>>

\* The thunks into the unit, and its lines: a source for each table, the lines
\* of the thunks in the first.
ThunksOf(u) == Among(thunks, {t \in Range(thunks) : t.unit = u})
ThunkFunctions(u) == [i \in DOMAIN ThunksOf(u) |->
    LET t == ThunksOf(u)[i] IN Function(t.name, t.segment, t.offset, ThunkSize, <<>>)]
SourceOf(u, n) ==
    LET table == Map!TablesOf(u)[n]
        kept  == SelectSeq(table.lines, LAMBDA r : FindPeSection(VA(r) - program.base) # 0)
        own   == [i \in DOMAIN kept |->
                    LET rva == VA(kept[i]) - program.base
                        s   == FindPeSection(rva)
                    IN  [segment |-> s, offset |-> OffsetIn(s, rva), line |-> kept[i].line]]
        extra == [i \in DOMAIN ThunksOf(u) |->
                    LET t == ThunksOf(u)[i]
                    IN  [segment |-> t.segment, offset |-> t.offset, line |-> t.line]]
    IN  [path |-> table.source, lines |-> IF n = 1 THEN own \o extra ELSE own]
FinishUnit ==
    /\ phase = "modules" /\ current.unit # <<>> /\ current.raws = <<>>
    /\ modules' = Append(modules,
         [name |-> current.unit, functions |-> current.functions \o ThunkFunctions(current.unit),
          sources |-> SelectSeq([n \in DOMAIN Map!TablesOf(current.unit) |->
                                   SourceOf(current.unit, n)],
                                LAMBDA s : s.lines # <<>>)])
    /\ current' = NoCurrent
    /\ UNCHANGED <<phase, registry, latestFirst, publics, thunks>>
ModulesDone ==
    /\ phase = "modules" /\ current.unit = <<>> /\ UnitsToCompose = {}
    /\ phase' = "aggregates"
    /\ UNCHANGED pdbInputs

PdbInputsNext ==
    \/ BuildPublics \/ DetectAdjusterThunks \/ EnrichGlobals
    \/ StartUnit \/ ComposeFunction \/ FinishUnit \/ ModulesDone
=============================================================================
