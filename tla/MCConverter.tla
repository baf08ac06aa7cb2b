------------------------------- MODULE MCConverter -------------------------------
(***************************************************************************)
(* Small programs for the converter.  ImageBase is the image base, the code is   *)
(* at ImageBase + 4096, a slot of 16 bytes to a function, the data at            *)
(* ImageBase + 8192.                                                             *)
(***************************************************************************)
EXTENDS Converter

ImageBase == 4194304
Code(n) == ImageBase + 4096 + n
Data(n) == ImageBase + 8192 + n

\* push rbp; push rbx, e times; sub rsp, n; mov rbp, rsp; body; ret; nops.
Repeated(byte, n) == [i \in 1..n |-> byte]
FunctionCode(e, n, body) ==
    LET used == <<85>> \o Repeated(83, e) \o <<72, 131, 236, n, 72, 139, 236>> \o body \o <<195>>
    IN  used \o Repeated(144, 16 - Len(used))
\* The compiler's frame: what the .rsm says of the slot at rbp + `at'.
RawLocal(e, n, at) == 2 * (at - n + 8 * e)
RawParam(e, n, at) == 2 * (at - n - 8 * e)
\* add rcx, -8; jmp to the function `distance' after the thunk.
ThunkCode(distance) == <<72, 131, 193, 248, 233, distance % 256, IF distance < 0 THEN 255 ELSE 0,
                         IF distance < 0 THEN 255 ELSE 0, IF distance < 0 THEN 255 ELSE 0>>
                       \o Repeated(144, 7)

V(name, marker, type, hash, unit, stack, address) ==
    [name |-> name, marker |-> marker, primitive |-> hash = 0, hash |-> hash, stack |-> stack,
     type |-> type, unit |-> unit, address |-> address]
\* A variable of a named primitive, of a type with a hash, of a type known by its
\* marker, or by nothing, only.
Named(name, type, stack) == V(name, 60, type, 0, 1, stack, 0)
Hashed(name, hash, unit, stack) == V(name, 0, "", hash, unit, stack, 0)
Marked(name, marker, stack) == V(name, marker, "", 0, 1, stack, 0)
GlobalAt(v, at) == [v EXCEPT !.address = at]
Self(unit) == V("Self", 41, "", 0, unit, 0, 0)

P(name, unit, at, nested, params, locals) ==
    [name |-> name, unit |-> unit, address |-> at, nested |-> nested, params |-> params,
     locals |-> locals]
Aggregate(name, own, unit, kind, base, fields, entries, size) ==
    [name |-> name, own |-> own, unit |-> unit, kind |-> kind, base |-> base, fields |-> fields,
     entries |-> entries, size |-> size]
F(name, offset, marker, hash) ==
    [name |-> name, offset |-> offset, marker |-> marker, hash |-> hash]
Entry(name, ordinal) == [name |-> name, ordinal |-> ordinal]
TypeName(name, hash) == [name |-> name, hash |-> hash]

\* The linker puts thread variables at 0, below the image base.
Segments == <<[id |-> 1, start |-> ImageBase + 4096, class |-> "CODE"],
              [id |-> 2, start |-> ImageBase + 8192, class |-> "DATA"],
              [id |-> 3, start |-> 0, class |-> "TLS"]>>
ModuleAt(unit, offset, length) ==
    [module |-> unit, segment |-> 1, offset |-> offset, length |-> length]
Pub(name, offset) == [name |-> name, segment |-> 1, offset |-> offset]
DataPub(name, offset) == [name |-> name, segment |-> 2, offset |-> offset]
Table(unit, source, lines) == [module |-> unit, source |-> source, lines |-> lines]
L(line, offset) == [line |-> line, segment |-> 1, offset |-> offset]
SectionsFor(bytes) ==
    <<[rva |-> 4096, virtual |-> Len(bytes), raw |-> Len(bytes), pointer |-> 0, code |-> TRUE],
      [rva |-> 8192, virtual |-> 64, raw |-> 0, pointer |-> 0, code |-> FALSE]>>
NoRsm == [have |-> FALSE, procedures |-> <<>>, variables |-> <<>>, aggregates |-> <<>>,
          inUnit |-> <<>>, anywhere |-> <<>>, tables |-> <<>>]
NoTruth == [slots |-> {}, types |-> {}, fields |-> {}, thunks |-> {}]

Simply(name) == Description("simple", name, 0)
Var(at, name, is) == [at |-> at, name |-> name, is |-> is]
Fld(class, size, name, offset, is) ==
    [class |-> class, size |-> size, name |-> name, offset |-> offset, is |-> is]

-----------------------------------------------------------------------------
(* Types: two units whose classes share a name and a hash, an enum and the   *)
(* named and the anonymous set over it, records of one name, globals.        *)

A == <<"A">>
B == <<"B">>
TypesBytes == FunctionCode(1, 48, <<102, 137, 69, 8>>) \o FunctionCode(0, 32, <<>>)
              \o FunctionCode(2, 32, <<>>) \o FunctionCode(0, 16, <<>>)
              \o FunctionCode(0, 32, <<72, 137, 69, 8>>) \o FunctionCode(0, 16, <<>>)
TypesProcedures == <<
    P(<<"A", "Run">>, 1, Code(0), FALSE, <<>>,
      << Hashed("Dog", 80, 1, RawLocal(1, 48, 0)), Hashed("Kinds", 88, 1, RawLocal(1, 48, 39)),
         Hashed("Some", 85, 1, RawLocal(1, 48, 38)), Marked("Word", 3, RawLocal(1, 48, 8)),
         Marked("Block", 7, RawLocal(1, 48, 16)), Named("Flag", "LongBool", RawLocal(1, 48, 28)),
         Hashed("Kind", 82, 1, RawLocal(1, 48, 37)) >>),
    P(<<"A", "TDog", "Bark">>, 1, Code(16), FALSE,
      <<Self(1), Named("Loud", "Boolean", RawParam(0, 32, 56))>>,
      <<Named("Result", "Integer", RawLocal(0, 32, 24))>>),
    P(<<"B", "TDog", "Growl">>, 2, Code(32), FALSE,
      <<Self(2), Hashed("At", 86, 2, RawParam(2, 32, 72))>>,
      <<Hashed("Dog", 80, 2, RawLocal(2, 32, 8))>>),
    P(<<"B", "Inner">>, 2, Code(48), TRUE, <<>>, <<>>),
    P(<<"B", "TCat", "Make">>, 2, Code(64), FALSE, <<>>, <<Marked("Size", 5, RawLocal(0, 32, 8))>>) >>
TypesGlobals == <<
    GlobalAt(Marked("First", 7, 0), Data(0)), GlobalAt(Marked("Next", 9, 0), Data(12)),
    GlobalAt(Hashed("Pet", 80, 2, 0), Data(16)), GlobalAt(Named("Title", "string", 0), Data(24)) >>
TypesAggregates == <<
    Aggregate("TDog", 80, 1, "Class", 0, <<F("FKind", 8, 0, 82), F("FFriend", 16, 0, 80)>>, <<>>, 24),
    Aggregate("TKind", 82, 1, "Enum", 0, <<>>, <<Entry("kA", 0), Entry("kB", 9)>>, 0),
    Aggregate("TDog", 80, 2, "Class", 84, <<F("FAge", 8, 2, 0), F("FAt", 12, 4, 0)>>, <<>>, 32),
    Aggregate("TAnimal", 84, 2, "Class", 0, <<>>, <<>>, 8),
    Aggregate("TKinds", 88, 1, "Unknown", 0, <<>>, <<>>, 0),
    Aggregate("TSpot", 90, 1, "Record", 0, <<F("Z", 0, 0, 0)>>, <<>>, 4),
    Aggregate("TSpot", 86, 2, "Record", 0, <<F("X", 0, 2, 0), F("Y", 4, 2, 0)>>, <<>>, 8),
    Aggregate("TCat", 92, 2, "Class", 84, <<F("FLives", 8, 2, 0)>>, <<>>, 16) >>
DogOfA == Description("POINTER", "TDog", 24)
DogOfB == Description("POINTER", "TDog", 32)
Kinds  == Description("STRUCTURE", "TKinds", 2)
SomeOf == Description("STRUCTURE", "set of TKind", 2)
Spot   == Description("STRUCTURE", "TSpot", 8)
KindOfDog == Description("ENUM", "TKind", 1)
Bit(n) == Description("BITFIELD", "", n)
TypesTruth == [
    slots |-> { Slot(Code(0), "Dog", 0), Slot(Code(0), "Kinds", 39), Slot(Code(0), "Some", 38),
                Slot(Code(0), "Word", 8), Slot(Code(0), "Block", 16), Slot(Code(0), "Flag", 28),
                Slot(Code(0), "Kind", 37), Slot(Code(16), "Self", 48), Slot(Code(16), "Loud", 56),
                Slot(Code(16), "Result", 24), Slot(Code(32), "Self", 64), Slot(Code(32), "At", 72),
                Slot(Code(32), "Dog", 8), Slot(Code(48), "__frame_outer__", 32),
                Slot(Code(64), "Size", 8) },
    types |-> { Var(Code(0), "Dog", DogOfA), Var(Code(0), "Kinds", Kinds),
                Var(Code(0), "Some", SomeOf), Var(Code(0), "Word", Simply("UInt16Short")),
                Var(Code(0), "Block", Description("ARRAY", "", 12)),
                Var(Code(0), "Flag", Simply("Boolean32")), Var(Code(0), "Kind", KindOfDog),
                Var(Code(16), "Self", DogOfA), Var(Code(16), "Loud", Simply("Boolean8")),
                Var(Code(16), "Result", Simply("Int32")),
                Var(Code(32), "Self", DogOfB), Var(Code(32), "At", Spot),
                Var(Code(32), "Dog", DogOfB),
                Var(Code(48), "__frame_outer__", Simply("UInt64")),
                Var(Code(64), "Size", Simply("UInt64")),
                Var(Data(0), "First", Simply("VoidPointer64")),
                Var(Data(12), "Next", Simply("VoidPointer64")),
                Var(Data(16), "Pet", DogOfB), Var(Data(24), "Title", Simply("WideCharacter*")) },
    fields |-> { Fld("TDog", 24, "FKind", 8, KindOfDog), Fld("TDog", 24, "FFriend", 16, DogOfA),
                 Fld("TCat", 16, "FLives", 8, Simply("Int32")),
                 Fld("TDog", 32, "FAge", 8, Simply("Int32")), Fld("TDog", 32, "FAt", 12, Spot),
                 Fld("TSpot", 8, "X", 0, Simply("Int32")), Fld("TSpot", 8, "Y", 4, Simply("Int32")),
                 Fld("TKinds", 2, "kA", 0, Bit(0)), Fld("TKinds", 2, "kB", 0, Bit(9)),
                 Fld("set of TKind", 2, "kA", 0, Bit(0)), Fld("set of TKind", 2, "kB", 0, Bit(9)) },
    thunks |-> {}]
Types == [
    map |-> [segments |-> Segments,
             modules  |-> <<ModuleAt(A, 0, 32), ModuleAt(B, 32, 64)>>,
             publics  |-> <<Pub(<<"A", "Run">>, 0), Pub(<<"A", "TDog", "Bark">>, 16),
                            DataPub(<<"A", "First">>, 0), DataPub(<<"A", "Next">>, 12),
                            DataPub(<<"A", "Title">>, 24), DataPub(<<"B", "Pet">>, 16),
                            Pub(<<"B", "TDog", "Growl">>, 32), Pub(<<"B", "Inner">>, 48),
                            Pub(<<"B", "TCat", "Make">>, 64), Pub(<<"B", "Last">>, 80)>>,
             tables   |-> <<Table(A, "A.pas", <<L(5, 0), L(6, 7), L(12, 16)>>),
                            Table(B, "B.pas", <<L(9, 32), L(9, 40), L(4, 48)>>)>>],
    base |-> ImageBase, sections |-> SectionsFor(TypesBytes), bytes |-> TypesBytes,
    rsm |-> [have |-> TRUE, procedures |-> TypesProcedures, variables |-> TypesGlobals,
             aggregates |-> TypesAggregates,
             inUnit |-> [k \in {<<TypesAggregates[i].unit, TypesAggregates[i].own>> :
                                  i \in DOMAIN TypesAggregates} |->
                           CHOOSE i \in DOMAIN TypesAggregates :
                             <<TypesAggregates[i].unit, TypesAggregates[i].own>> = k],
             anywhere |-> [h \in {TypesAggregates[i].own : i \in DOMAIN TypesAggregates} |->
                             Min({i \in DOMAIN TypesAggregates : TypesAggregates[i].own = h})],
             tables |-> 2 :> <<TypeName("Integer", 0), TypeName("TSpot", 65536 + 86)>>],
    rtl |-> FALSE, truth |-> TypesTruth]

-----------------------------------------------------------------------------
(* Layout: lines in an include file, out of order and two at one address, a  *)
(* thunk, two publics at one address, overloads, a unit without lines, one   *)
(* of the run-time library and a generic whose code lies in another unit.    *)

C == <<"C">>
D == <<"D">>
System == <<"System">>
TObj(method) == <<"C", "TObj", method>>
LayoutBytes == FunctionCode(0, 32, <<>>) \o FunctionCode(1, 40, <<>>) \o ThunkCode(-25)
               \o FunctionCode(0, 16, <<>>) \o FunctionCode(0, 16, <<>>) \o FunctionCode(0, 16, <<>>)
LayoutTruth == [
    slots  |-> {Slot(Code(0), "Self", 48), Slot(Code(16), "Self", 64), Slot(Code(16), "N", 24)},
    types  |-> {Var(Code(0), "Self", Description("POINTER", "TObj", 0)),
                Var(Code(16), "Self", Description("POINTER", "TObj", 0)),
                Var(Code(16), "N", Simply("Int64Quad")),
                Var(Data(0), "Table", Simply("VoidPointer64"))},
    fields |-> {},
    thunks |-> {[at |-> Code(32), of |-> TObj("Do"), unit |-> C, lines |-> {21, 30}]}]
Layout == [
    map |-> [segments |-> Segments,
             modules  |-> <<ModuleAt(System, 80, 16), ModuleAt(C, 0, 48), ModuleAt(D, 48, 32)>>,
             publics  |-> <<Pub(TObj("Do"), 0), Pub(TObj("Do"), 16),
                            Pub(<<"C", "TList", "Add">>, 64), DataPub(<<"C", "Table">>, 0),
                            [name |-> <<"C", "Thread">>, segment |-> 3, offset |-> 4],
                            Pub(<<"D", "Go">>, 48), Pub(<<"D", "GoToo">>, 48),
                            Pub(<<"System", "Halt">>, 80)>>,
             tables   |-> <<Table(C, "C.pas", <<L(20, 4), L(10, 0), L(21, 16)>>),
                            Table(C, "C.inc", <<L(30, 16), L(3, 20), L(7, 64)>>),
                            Table(System, "System.pas", <<L(1, 80)>>)>>],
    base |-> ImageBase, sections |-> SectionsFor(LayoutBytes), bytes |-> LayoutBytes,
    rsm |-> [NoRsm EXCEPT !.have = TRUE, !.procedures = <<
               P(TObj("Do"), 1, Code(0), FALSE, <<Self(1)>>, <<>>),
               P(TObj("Do"), 1, Code(16), FALSE, <<Self(1)>>,
                 <<Named("N", "Int64", RawLocal(1, 40, 24))>>)>>],
    rtl |-> FALSE, truth |-> LayoutTruth]

-----------------------------------------------------------------------------
(* Without a .rsm, and with the run-time library; without line tables.       *)

Bare == [Layout EXCEPT !.rsm = NoRsm, !.rtl = TRUE,
                        !.truth = [LayoutTruth EXCEPT !.slots = {},
                          !.types = {t \in LayoutTruth.types : t.at = Data(0)}]]
Stripped == [Types EXCEPT !.map.tables = <<>>, !.map.modules = <<>>, !.rsm = NoRsm,
                          !.truth = [NoTruth EXCEPT !.types =
                            {Var(t.at, t.name, Simply("VoidPointer64")) :
                               t \in {t \in TypesTruth.types : t.at >= Data(0)}}]]

MCPrograms == {Types, Layout, Bare, Stripped}
=============================================================================
