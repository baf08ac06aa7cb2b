------------------------------- MODULE RsmUnits --------------------------------
(***************************************************************************)
(* The unit anchors and the type table of each unit:                        *)
(* Reader::scanPerUnitTypeTables of rsm/rsm_unit_tables.cpp, with the        *)
(* lookups of rsm/rsm_reader.cpp that read them.  A type marker is an index  *)
(* into the table of the unit the record lies in, and only there.           *)
(***************************************************************************)
EXTENDS RsmProcs

VARIABLES
    anchors,    \* unit_anchors: [at, name], in file order
    tables      \* primary_tables: of the unit at the same index, its type names

unitVars == <<anchors, tables>>

\* ".pas", ".dpr", ".inc" and ".tmp".
SourceSuffixes ==
    {<<46, 112, 97, 115>>, <<46, 100, 112, 114>>, <<46, 105, 110, 99>>, <<46, 116, 109, 112>>}

\* A source-file signature at s, the prefix of a .dpr (2) or of a .pas (0x3c).
IsSourceFile(s) ==
    /\ Byte(s) \in {2, 60} /\ Byte(s + 1) = 112
    /\ Byte(s + 2) \in 4..80
    /\ s + 3 + Byte(s + 2) <= Size
    /\ IsPrintAscii(s + 3, Byte(s + 2))
    /\ Name(s + Byte(s + 2) - 1, 4) \in SourceSuffixes

IsAnchor(a) ==
    /\ Byte(a) = 2
    /\ Byte(a + 1) \in 2..40
    /\ IsPrintAscii(a + 2, Byte(a + 1))
    /\ \E s \in NameEnd(a)..(Min({Size, NameEnd(a) + 200}) - 9) : IsSourceFile(s)

SkipToAnchor ==
    /\ phase = "anchors" /\ pos + 60 < Size
    /\ ~IsAnchor(pos)
    /\ pos' = pos + 1
    /\ UNCHANGED <<phase, current, procedures, variables, unitVars>>

TakeAnchor ==
    /\ phase = "anchors" /\ pos + 60 < Size
    /\ IsAnchor(pos)
    /\ anchors' = Append(anchors, [at |-> pos, name |-> NameOf(pos)])
    /\ pos' = NameEnd(pos)
    /\ UNCHANGED <<phase, current, procedures, variables, tables>>

AnchorsDone ==
    /\ phase = "anchors" /\ pos + 60 >= Size
    /\ phase' = "tables"
    /\ pos' = IF anchors = <<>> THEN Size ELSE anchors[1].at + 32
    /\ tables' = IF anchors = <<>> THEN <<>> ELSE << <<>> >>
    /\ UNCHANGED <<current, procedures, variables, anchors>>

-----------------------------------------------------------------------------
(* One unit's table: the last of tables, between its anchor and the next.   *)

Started == tables[Len(tables)] # <<>>
TableLow == anchors[Len(tables)].at + 32
TableHigh ==
    IF Len(tables) < Len(anchors) THEN anchors[Len(tables) + 1].at ELSE Size

InTable == phase = "tables" /\ tables # <<>> /\ pos + 10 < TableHigh

\* Between the blocks of imported units: 63 64 <name> 00 00 00.
IsSeparator(c) ==
    /\ Byte(c) = End /\ Byte(c + 1) = 100
    /\ Byte(c + 2) \in 2..64
    /\ c + 6 + Byte(c + 2) <= TableHigh
    /\ IsPrintAscii(c + 3, Byte(c + 2))

\* A type (0x66) or an imported function (0x67), each with a hash of four bytes.
IsEntry(c) ==
    /\ Byte(c) \in {Payload, 103}
    /\ Byte(c + 1) \in 2..80
    /\ NameEnd(c) + 4 <= TableHigh
    /\ IsPrintAscii(c + 2, Byte(c + 1))

\* Anything else ends a table that has begun; 500 bytes without an entry do too.
EndsTable(c) == Started \/ (Byte(c) \notin {Payload, 103} /\ c - TableLow > 500)

\* Mutant: the cursor left where it is.
KeepSeparator ==
    /\ InTable /\ IsSeparator(pos)
    /\ pos' = pos
    /\ UNCHANGED <<phase, current, procedures, variables, unitVars>>

SkipSeparator ==
    /\ InTable /\ IsSeparator(pos)
    /\ pos' = pos + 6 + Byte(pos + 2)
    /\ UNCHANGED <<phase, current, procedures, variables, unitVars>>

TakeEntry ==
    /\ InTable /\ ~IsSeparator(pos) /\ IsEntry(pos)
    /\ pos' = NameEnd(pos) + 4
    /\ tables' = IF Byte(pos) = Payload
                 THEN [tables EXCEPT ![Len(tables)] = Append(@, NameOf(pos))]
                 ELSE tables
    /\ UNCHANGED <<phase, current, procedures, variables, anchors>>

SkipToEntry ==
    /\ InTable /\ ~IsSeparator(pos) /\ ~IsEntry(pos) /\ ~EndsTable(pos)
    /\ pos' = pos + 1
    /\ UNCHANGED <<phase, current, procedures, variables, unitVars>>

NextTable ==
    /\ phase = "tables" /\ Len(tables) < Len(anchors)
    /\ InTable => ~IsSeparator(pos) /\ ~IsEntry(pos) /\ EndsTable(pos)
    /\ pos' = anchors[Len(tables) + 1].at + 32
    /\ tables' = Append(tables, <<>>)
    /\ UNCHANGED <<phase, current, procedures, variables, anchors>>

-----------------------------------------------------------------------------
(* The lookups, and the types they give.                                    *)

\* unitAnchorFor: the index of the closest anchor before i, 0 when there is none.
UnitFor(i) == Max({0} \union {k \in DOMAIN anchors : anchors[k].at <= i})

\* primitiveNameForMarker: marker N is entry N/2 of the unit's table.
NameForMarker(unit, marker) ==
    IF unit # 0 /\ marker # 0 /\ ~Odd(marker) /\ marker \div 2 <= Len(tables[unit])
    THEN tables[unit][marker \div 2] ELSE <<>>

\* resolvePascalType, and the anchor every symbol is stamped with.
Stamped(v) ==
    [v EXCEPT !.unit = UnitFor(v.at),
              !.type = IF v.primitive THEN NameForMarker(UnitFor(v.at), v.marker) ELSE @]

EachSymbol(T(_)) ==
    /\ variables' = [k \in DOMAIN variables |-> T(variables[k])]
    /\ procedures' = [k \in DOMAIN procedures |->
         [procedures[k] EXCEPT !.params = [n \in DOMAIN @ |-> T(@[n])],
                               !.locals = [n \in DOMAIN @ |-> T(@[n])]]]

StampTypes ==
    /\ phase = "tables" /\ Len(tables) = Len(anchors)
    /\ InTable => ~IsSeparator(pos) /\ ~IsEntry(pos) /\ EndsTable(pos)
    /\ EachSymbol(Stamped)
    /\ phase' = "aggregates" /\ pos' = MetadataStart
    /\ UNCHANGED <<current, unitVars>>

=============================================================================
