------------------------------ MODULE MCRsmReader -------------------------------
(* Small .rsm files for TLC, each with the declarations it was written from:   *)
(* a unit with every form of function and local, two units whose markers and   *)
(* hashes mean different types, classes linked in both of the known layouts,   *)
(* a file without anchors, and files cut off at every eleventh byte.              *)
EXTENDS RsmReader, RsmEncoding

\* Names, as their letters' codes.
Ax == <<65, 120>>
Bx == <<66, 120>>
Fx == <<70, 120>>
Gx == <<71, 120>>
Hx == <<72, 120>>
Kx == <<75, 120>>
Rx == <<82, 120>>
Tx == <<84, 120>>
Ux == <<85, 120>>
Vx == <<86, 120>>
A  == <<97>>
B  == <<98>>
D  == <<100>>
E1 == <<101>>
Source     == <<85, 46, 112, 97, 115>>
Boolean    == <<66, 111, 111, 108, 101, 97, 110>>
ByteName   == <<66, 121, 116, 101>>
MCPrimitiveNames == {Boolean, ByteName}

Marker(n) == [marker |-> 2 * n, hash |-> 0]
Hash(h)   == [marker |-> 0, hash |-> h]

PrimitiveTable == Bytes(<<PrimitiveBytes(Boolean, 300), PrimitiveBytes(ByteName, 301),
                          PrimitiveBytes(Rx, 302)>>)
Rest == Zero(64)

\* A declared parameter or local; "new" unless it says otherwise.
Declared(tag, name, form, type, stack) ==
    [tag |-> tag, name |-> name, form |-> form, type |-> type, stack |-> stack]
NewLocal(name, type, stack) == Declared(32, name, "new", type, stack)
Proc(name, flavour, address) == [name |-> name, flavour |-> flavour, address |-> address]
Var(name, type, address, extended) ==
    [name |-> name, type |-> type, address |-> address, extended |-> extended]

\* What the reader should find: a symbol's name, type and place.
Place(name, type, where) == [name |-> name, type |-> type, where |-> where]
Routine(name, address, params, locals) ==
    [name |-> name, address |-> address, params |-> params, locals |-> locals]
Aggregate(name, kind, fields, entries, properties, base) ==
    [name |-> name, kind |-> kind, fields |-> fields, entries |-> entries,
     properties |-> properties, base |-> base]

-----------------------------------------------------------------------------
\* Every flavour of function and form of local, with padding and descriptors.
Every ==
  [bytes |-> Bytes(<<PrimitiveTable,
     AnchorBytes(Ux, 60, Source), EntryBytes(102, Ax), EntryBytes(103, Fx),
     SeparatorBytes(Kx), EntryBytes(102, Bx),
     FunctionBytes(Proc(Fx, 160, 4198400), <<0, 99, 1>>,
       SubBytes(NewLocal(A, Marker(1), -8))
       \o SubBytes(Declared(33, B, "new", Marker(2), 41)) \o Descriptor(Kx)
       \o SubBytes(Declared(34, D, "new", Hash(1537), -16))
       \o EnumBytes(Kx, 1537, 1) \o SubBytes(NewLocal(E1, Hash(1537), 299))),
     FunctionBytes(Proc(Gx, 224, 4198416), <<1, 2, 3>>, <<>>),
     FunctionBytes(Proc(Hx, 128, 4198432), <<1>>,
       SubBytes(Declared(33, A, "old", Marker(1), 4)) \o Padding
       \o SubBytes(Declared(34, B, "out", Marker(2), 8))),
     FunctionBytes(Proc(Kx, 32, 4198448), <<1>>, SubBytes(NewLocal(A, Marker(1), -300))),
     FunctionBytes(Proc(Rx, 65, 4198464), <<1>>, SubBytes(NewLocal(B, Hash(1538), 6))),
     GlobalBytes(Var(Vx, Marker(1), 4198480, TRUE)), GlobalBytes(Var(Tx, Marker(2), 4198484, FALSE)),
     GlobalBytes(Var(Rx, Hash(1601), 4198488, FALSE)),
     AggregateBytes(Tx, 0, 1601, 0), EnumBytes(A, 1601, 0), EnumBytes(B, 1601, 3), Rest>>),
   procedures |-> <<
     Routine(Fx, 4198400, <<Place(B, Bx, 41), Place(D, <<>>, -16)>>,
                          <<Place(A, Ax, -8), Place(E1, <<>>, 299)>>),
     Routine(Gx, 4198416, <<>>, <<>>),
     Routine(Hx, 4198432, <<Place(A, <<>>, 4), Place(B, <<>>, 8)>>, <<>>),
     Routine(Kx, 4198448, <<>>, <<Place(A, Ax, -300)>>),
     Routine(Rx, 4198464, <<>>, <<Place(B, <<>>, 6)>>)>>,
   globals |-> <<Place(Vx, Ax, 4198480), Place(Tx, Bx, 4198484), Place(Rx, Tx, 4198488)>>,
   aggregates |-> <<
     Aggregate(Tx, "Enum", <<>>, <<<<A, 0>>, <<B, 3>>>>, <<>>, 0)>>]

\* Two units: marker 2 and hash 1601 mean one type in the first, another in the second.
TwoUnits ==
  [bytes |-> Bytes(<<PrimitiveTable,
     AnchorBytes(Ux, 2, Source), EntryBytes(102, Ax),
     FunctionBytes(Proc(Fx, 32, 4198400), <<1>>,
       SubBytes(NewLocal(A, Marker(1), -8)) \o SubBytes(NewLocal(B, Hash(1601), -16))),
     AggregateBytes(Tx, 0, 1601, 0), FieldBytes(A, 2, Marker(1), 0, 1601),
     FieldBytes(B, 160, Hash(1601), 200, 1601),
     AnchorBytes(Vx, 60, Source), EntryBytes(102, Bx),
     FunctionBytes(Proc(Fx, 32, 4198464), <<1>>,
       SubBytes(NewLocal(A, Marker(1), -8)) \o SubBytes(NewLocal(B, Hash(1601), -16))),
     AggregateBytes(Rx, 0, 1601, 0), FieldBytes(D, 2, Marker(1), 4, 1601),
     GlobalBytes(Var(Gx, Hash(1601), 4198488, FALSE)), Rest>>),
   procedures |-> <<
     Routine(Fx, 4198400, <<>>, <<Place(A, Ax, -8), Place(B, Tx, -16)>>),
     Routine(Fx, 4198464, <<>>, <<Place(A, Bx, -8), Place(B, Rx, -16)>>)>>,
   globals |-> <<Place(Gx, Rx, 4198488)>>,
   aggregates |-> <<
     Aggregate(Tx, "PackedRecord", <<<<A, 0>>, <<B, 200>>>>, <<>>, <<>>, 0),
     Aggregate(Rx, "Record", <<<<D, 4>>>>, <<>>, <<>>, 0)>>]

\* A class whose header and fields share its linked hash; one in the split layout,
\* derived from it; a record whose own hash is the first one's linked hash elsewhere.
Classes ==
  [bytes |-> Bytes(<<PrimitiveTable,
     AnchorBytes(Ux, 2, Source), EntryBytes(102, Ax),
     AggregateBytes(Kx, 0, 1029, 0), FieldBytes(E1, 2, Marker(1), 4, 1029),
     AnchorBytes(Vx, 60, Source), Zero(3), EntryBytes(102, Bx),
     AggregateBytes(Tx, 168, 1793, 1029), HeaderBytes(1029, 18), FieldBytes(A, 2, Marker(1), 8, 1029),
     PropertyBytes(D, 2, 1029),
     AggregateBytes(Rx, 168, 1794, 1811), HeaderBytes(45331, 1793), FieldBytes(B, 2, Hash(1029), 16, 4872),
     GlobalBytes(Var(Gx, Hash(1029), 4198488, FALSE)),
     GlobalBytes(Var(Hx, Hash(45331), 4198496, FALSE)), Rest>>),
   procedures |-> <<>>,
   globals |-> <<Place(Gx, Tx, 4198488), Place(Hx, Rx, 4198496)>>,
   aggregates |-> <<
     Aggregate(Kx, "Class", <<<<E1, 4>>>>, <<>>, <<>>, 0),
     Aggregate(Tx, "Class", <<<<A, 8>>>>, <<>>, <<D>>, 0),
     Aggregate(Rx, "Class", <<<<B, 16>>>>, <<>>, <<>>, 1793)>>]

\* No primitives and no anchors: only what needs neither is found.
Unanchored ==
  [bytes |-> Bytes(<<Zero(44),
     AggregateBytes(Tx, 0, 1601, 0), FieldBytes(A, 2, Marker(1), 0, 1601), PropertyBytes(D, 2, 1601),
     AggregateBytes(Rx, 0, 1602, 0), EnumBytes(B, 1602, 2),
     GlobalBytes(Var(Gx, Hash(1601), 4198488, FALSE)), GlobalBytes(Var(Hx, Marker(1), 4198496, FALSE)),
     FunctionBytes(Proc(Fx, 32, 4198400), <<1>>, SubBytes(NewLocal(A, Marker(1), -8))),
     <<255>>, Rest>>),
   procedures |-> <<Routine(Fx, 4198400, <<>>, <<Place(A, <<>>, -8)>>)>>,
   globals |-> <<Place(Gx, Tx, 4198488), Place(Hx, <<>>, 4198496)>>,
   aggregates |-> <<Aggregate(Tx, "Record", <<<<A, 0>>>>, <<>>, <<D>>, 0),
                    Aggregate(Rx, "Enum", <<>>, <<<<B, 2>>>>, <<>>, 0)>>]

Whole == {Every, TwoUnits, Classes, Unanchored}

\* The first file cut off after every eleventh byte, as a full disk leaves it.
Cuts == {SubSeq(Every.bytes, 1, 11 * n) : n \in 1..(Len(Every.bytes) \div 11)}

MCFiles == {f.bytes : f \in Whole} \union Cuts

-----------------------------------------------------------------------------
Shown(v)  == Place(v.name, v.type, IF v.address = 0 THEN v.stack ELSE v.address)
ShownP(p) == Routine(p.name, p.address, [n \in DOMAIN p.params |-> Shown(p.params[n])],
                                        [n \in DOMAIN p.locals |-> Shown(p.locals[n])])
ShownA(a) == Aggregate(a.name, a.kind, [n \in DOMAIN a.fields |-> <<a.fields[n].name, a.fields[n].offset>>],
                       [n \in DOMAIN a.entries |-> <<a.entries[n].name, a.entries[n].ordinal>>],
                       [n \in DOMAIN a.properties |-> a.properties[n].name], a.base)

\* Every procedure, parameter, local and global that was written is read, once,
\* in order, under its own name, type and address: nothing in a trailer, a name,
\* a descriptor or an offset is taken for a record or hides one
\* (scanProceduresAndVariables, scanPerUnitTypeTables, resolveAggregateTypes).
SymbolsAsDeclared ==
    phase = "done" => \A f \in Whole : f.bytes = buf =>
        /\ [k \in DOMAIN procedures |-> ShownP(procedures[k])] = f.procedures
        /\ [k \in DOMAIN variables |-> Shown(variables[k])] = f.globals

\* Every field, enum entry, property and base class reaches the type it was
\* declared in, whatever hashes the types of other units have
\* (scanAggregateTypes).  The primitives of the table are read as aggregates of
\* unknown kind too, before the declared ones.
AggregatesAsDeclared ==
    phase = "done" => \A f \in Whole : f.bytes = buf =>
        [k \in DOMAIN f.aggregates |->
            ShownA(aggregates[Len(aggregates) - Len(f.aggregates) + k])] = f.aggregates
=============================================================================
