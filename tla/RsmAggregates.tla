----------------------------- MODULE RsmAggregates -----------------------------
(***************************************************************************)
(* Records, classes and enumerations: Reader::scanAggregateTypes and         *)
(* resolveAggregateTypes of rsm/rsm_aggregates.cpp.  One pass collects the   *)
(* type records and, apart from them, the fields, enum entries, properties   *)
(* and class headers; then each is attached to its type.  The only links     *)
(* are 16-bit hashes that are unique within a unit at best.                  *)
(***************************************************************************)
EXTENDS RsmUnits, SequencesExt

VARIABLES
    aggregates, \* aggregates_
    pending     \* what waits for its type: fields, enums, properties, headers

aggregateVars == <<aggregates, pending>>

NothingPending == [fields |-> <<>>, enums |-> <<>>, properties |-> <<>>, headers |-> <<>>]

-----------------------------------------------------------------------------
(* The scan.                                                                *)

Named(i, shortest, longest, rest) ==
    /\ Byte(i + 1) \in shortest..longest
    /\ NameEnd(i) + rest <= Size
    /\ IsPrintableName(i + 2, Byte(i + 1))

IsType(i) == Byte(i) = Primitive /\ Named(i, 2, 64, 6) /\ Zeros(NameEnd(i) + 1)

\* A kind byte with its high bit set is followed by a second hash.
LinkedHash(at) == IF Byte(at) >= 128 /\ at + 8 < Size THEN U16(at + 7) ELSE 0

TypeRecord(i) ==
    [name |-> NameOf(i), own |-> U16(NameEnd(i) + 3), linked |-> LinkedHash(NameEnd(i)),
     base |-> 0, unit |-> UnitFor(i), kind |-> "Unknown",
     fields |-> <<>>, entries |-> <<>>, properties |-> <<>>, size |-> 0]

TypeRefEnd(at) == at + (IF PrimitiveShape(Byte(at + 3)) THEN 4 ELSE 5)
OffsetEnd(at) == TypeRefEnd(at) + (IF Odd(Byte(TypeRefEnd(at))) THEN 2 ELSE 1)
FieldStop(at) == {k \in OffsetEnd(at)..(Min({OffsetEnd(at) + 24, Size}) - 1) : Byte(k) = Stop}

IsField(i) ==
    LET at == NameEnd(i)
    IN  /\ Byte(i) = 44 /\ Named(i, 1, 64, 6)
        /\ Byte(at) = 0 /\ Byte(at + 2) = 0
        /\ TypeRefEnd(at) < Size /\ OffsetEnd(at) <= Size
        /\ FieldStop(at) # {} /\ Min(FieldStop(at)) >= OffsetEnd(at) + 2

FieldOffset(at) ==
    IF Odd(Byte(TypeRefEnd(at))) THEN (U16(TypeRefEnd(at)) - 1) \div 4
                                 ELSE Byte(TypeRefEnd(at)) \div 2

Field(i) ==
    LET at == NameEnd(i)
    IN  [name |-> NameOf(i), storage |-> Byte(at + 1), offset |-> FieldOffset(at),
         marker |-> IF PrimitiveShape(Byte(at + 3)) THEN Byte(at + 3) ELSE 0,
         hash |-> IF PrimitiveShape(Byte(at + 3)) THEN 0 ELSE U16(at + 3)]

IsEnumEntry(i) ==
    LET at == NameEnd(i)
    IN  /\ Byte(i) = 37 /\ Named(i, 1, 64, 9)
        /\ Byte(at) = 10 /\ Zeros(at + 1) /\ Zeros(at + 5)

EnumEntry(i) == [name |-> NameOf(i), ordinal |-> Byte(NameEnd(i) + 7) \div 2]

PropertyStop(at) == {k \in (at + 6)..(Min({at + 64, Size}) - 1) : Byte(k) = Stop}

IsProperty(i) ==
    LET at == NameEnd(i)
    IN  /\ Byte(i) = 49 /\ Named(i, 1, 64, 10)
        /\ Byte(at) = 0 /\ Byte(at + 1) = 2 /\ Byte(at + 2) = 0
        /\ Byte(at + 4) = 254 /\ Byte(at + 5) = 15
        /\ PropertyStop(at) # {} /\ Min(PropertyStop(at)) >= at + 8

Property(i) == [name |-> NameOf(i), marker |-> Byte(NameEnd(i) + 3)]

IsClassHeader(i) ==
    /\ Byte(i) = 71 /\ i + 24 < Size
    /\ Byte(i + 1) = 0 /\ Byte(i + 2) = 16 /\ Zeros(i + 3)

\* The base class stands ten bytes before the field-list mark 25 3f 00.
FieldList(i) ==
    {k \in (i + 7)..(Min({i + 80, Size - 3}) - 1) :
        Byte(k) = 37 /\ Byte(k + 1) = 63 /\ Byte(k + 2) = 0}
ClassHeader(i) ==
    [own |-> U16(i + 5),
     base |-> IF FieldList(i) = {} THEN 0 ELSE U16(Min(FieldList(i)) - 10)]

\* A member waits under the unit it lies in and the hash it names as its parent.
Waiting(i, parent, m) == [unit |-> UnitFor(i), parent |-> parent, member |-> m]

Scanning == phase = "aggregates" /\ pos + 8 < Size
ScanVars == <<phase, current, procedures, variables, unitVars>>

TakeType ==
    /\ Scanning /\ IsType(pos)
    /\ aggregates' = Append(aggregates, TypeRecord(pos))
    /\ pos' = NameEnd(pos) + 5
    /\ UNCHANGED <<pending, ScanVars>>

TakeField ==
    /\ Scanning /\ IsField(pos)
    /\ LET stop == Min(FieldStop(NameEnd(pos)))
       IN  /\ pending' = [pending EXCEPT !.fields =
                            Append(@, Waiting(pos, U16(stop - 2), Field(pos)))]
           /\ pos' = stop + 1
    /\ UNCHANGED <<aggregates, ScanVars>>

TakeEnumEntry ==
    /\ Scanning /\ IsEnumEntry(pos)
    /\ pending' = [pending EXCEPT !.enums =
                     Append(@, Waiting(pos, U16(NameEnd(pos) + 3), EnumEntry(pos)))]
    /\ pos' = NameEnd(pos) + 8
    /\ UNCHANGED <<aggregates, ScanVars>>

\* The cursor moves a single byte: the scan goes on inside the record.
TakeProperty ==
    /\ Scanning /\ IsProperty(pos)
    /\ pending' = [pending EXCEPT !.properties =
                     Append(@, Waiting(pos, U16(Min(PropertyStop(NameEnd(pos))) - 2), Property(pos)))]
    /\ pos' = pos + 1
    /\ UNCHANGED <<aggregates, ScanVars>>

TakeClassHeader ==
    /\ Scanning /\ IsClassHeader(pos)
    /\ pending' = [pending EXCEPT !.headers = Append(@, ClassHeader(pos))]
    /\ pos' = pos + 7
    /\ UNCHANGED <<aggregates, ScanVars>>

SkipToMember ==
    /\ Scanning
    /\ ~IsType(pos) /\ ~IsField(pos) /\ ~IsEnumEntry(pos)
    /\ ~IsProperty(pos) /\ ~IsClassHeader(pos)
    /\ pos' = pos + 1
    /\ UNCHANGED <<aggregateVars, ScanVars>>

-----------------------------------------------------------------------------
(* The index: which aggregate a hash means.                                 *)

ClassHashes == {pending.headers[h].own : h \in DOMAIN pending.headers}

\* Where a class's fields hang when its records are split over two clusters.
FieldParent(a) == 256 * (a.linked % 256) + 8

\* The class header that shares the low byte, when there is exactly one.
HeadersLike(a) == {h \in ClassHashes \ {0} : h % 256 = a.linked % 256}
Chained(a)  == a.linked # 0 /\ a.unit # 0
HeaderOf(a) ==
    IF Chained(a) /\ a.linked \notin ClassHashes /\ Cardinality(HeadersLike(a)) = 1
    THEN HeadersLike(a) ELSE {}

ByOwn(ks, h)     == {k \in ks : aggregates[k].own = h}
ByLinked(ks, h)  == {k \in ks : aggregates[k].linked = h /\ h # 0}
ByDerived(ks, h) ==
    {k \in ks : LET a == aggregates[k] IN Chained(a) /\ h \in {FieldParent(a)} \union HeaderOf(a)}

\* aggr_by_hash_ and aggr_by_unit_hash_ after the three passes that fill them:
\* the last own hash wins, then the first linked, then the first derived one.
Meant(ks, h) ==
    CASE ByOwn(ks, h) # {} -> {Max(ByOwn(ks, h))}
      [] ByOwn(ks, h) = {} /\ ByLinked(ks, h) # {} -> {Min(ByLinked(ks, h))}
      [] ByOwn(ks, h) = {} /\ ByLinked(ks, h) = {} /\ ByDerived(ks, h) # {} ->
            {Min(ByDerived(ks, h))}
      [] OTHER -> {}

\* Mutant: the one index over all units.
InAnyUnit(unit, h) == Meant(DOMAIN aggregates, h)

\* findAggregateByHash and findAggregateInUnit.
Anywhere(h)     == Meant(DOMAIN aggregates, h)
InUnit(unit, h) ==
    IF unit = 0 THEN {} ELSE Meant({k \in DOMAIN aggregates : aggregates[k].unit = unit}, h)

-----------------------------------------------------------------------------
(* Attaching what waits, and the kinds.                                     *)

Parents(ms, unit) == {ms[n].parent : n \in {n \in DOMAIN ms : ms[n].unit = unit}}
MembersOf(ms, unit, parent) ==
    LET chosen == SelectSeq(ms, LAMBDA w : w.unit = unit /\ w.parent = parent)
    IN  [n \in DOMAIN chosen |-> chosen[n].member]

\* The hashes members of k's unit, or of no unit, hang under when they mean k.
Hooks(ms, k)  == {h \in Parents(ms, aggregates[k].unit) : k \in InUnit(aggregates[k].unit, h)}
Strays(ms, k) == {h \in Parents(ms, 0) : k \in Anywhere(h)}

\* Each hash of the unit replaces what an earlier one attached; of those without
\* a unit the one an unordered map yields first is kept, where there was nothing.
Attached(ms, k, ascending) ==
    CASE Hooks(ms, k) # {} -> MembersOf(ms, aggregates[k].unit, Max(Hooks(ms, k)))
      [] Hooks(ms, k) = {} /\ Strays(ms, k) # {} ->
           MembersOf(ms, 0, IF ascending THEN Min(Strays(ms, k)) ELSE Max(Strays(ms, k)))
      [] OTHER -> <<>>

AllProperties(k) ==
    LET ms == pending.properties
        under(hs, unit) ==
            FlattenSeq([n \in 1..Cardinality(hs) |->
                          MembersOf(ms, unit, SetToSortSeq(hs, <)[n])])
    IN  under(Hooks(ms, k), aggregates[k].unit) \o under(Strays(ms, k), 0)

\* The base class: the last header of k whose base is known.
BaseOf(k) ==
    LET known == {h \in DOMAIN pending.headers :
                    /\ k \in Anywhere(pending.headers[h].own)
                    /\ pending.headers[h].base # 0
                    /\ Anywhere(pending.headers[h].base) # {}}
    IN  IF known = {} THEN 0 ELSE pending.headers[Max(known)].base

Pinned(a) == Chained(a) /\ (a.linked \in ClassHashes \/ HeaderOf(a) # {})
KindOf(a, fields, entries) ==
    IF Pinned(a) THEN "Class"
    ELSE IF entries # <<>> THEN "Enum"
    ELSE IF a.own \in ClassHashes \/ (a.linked # 0 /\ a.linked \in ClassHashes) THEN "Class"
    ELSE IF \E n \in DOMAIN fields : fields[n].storage = 160 THEN "PackedRecord"
    ELSE IF fields # <<>> THEN "Record" ELSE "Unknown"

SizeOf(fields) ==
    IF fields = <<>> THEN 0 ELSE 8 + Max({fields[n].offset : n \in DOMAIN fields})

Completed(k, fields, entries) ==
    LET a == aggregates[k]
    IN  [a EXCEPT !.fields = fields, !.entries = entries, !.base = BaseOf(k),
                  !.kind = KindOf(a, fields, entries), !.size = SizeOf(fields),
                  !.properties = AllProperties(k)]

AttachMembers ==
    /\ phase = "aggregates" /\ pos + 8 >= Size
    /\ \E ascending \in BOOLEAN :
         aggregates' = [k \in DOMAIN aggregates |->
                          Completed(k, Attached(pending.fields, k, ascending),
                                       Attached(pending.enums, k, ascending))]
    /\ phase' = "resolve"
    /\ UNCHANGED <<pos, current, procedures, variables, unitVars, pending>>

-----------------------------------------------------------------------------
(* resolveAggregateTypes: within the unit first, else anywhere.             *)

MeantIn(unit, h) == IF InUnit(unit, h) # {} THEN InUnit(unit, h) ELSE Anywhere(h)

Resolved(v) ==
    IF v.primitive \/ v.hash = 0 \/ v.type # <<>> \/ MeantIn(UnitFor(v.at), v.hash) = {} THEN v
    ELSE [v EXCEPT !.type = aggregates[Max(MeantIn(UnitFor(v.at), v.hash))].name]

ResolveAggregateTypes ==
    /\ phase = "resolve"
    /\ EachSymbol(Resolved)
    /\ phase' = "done"
    /\ UNCHANGED <<pos, current, unitVars, aggregateVars>>
=============================================================================
