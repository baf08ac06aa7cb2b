------------------------------- MODULE RsmReader -------------------------------
(***************************************************************************)
(* Reader::open() of rsm/rsm_reader.cpp over one .rsm file: the table of     *)
(* primitives (rsm/rsm_primitives.cpp), then the procedures and globals,     *)
(* the unit anchors and type tables, the aggregates, and the types of what   *)
(* the aggregates name.  Every later pass reads what the earlier ones found. *)
(***************************************************************************)
EXTENDS RsmAggregates

CONSTANTS
    PrimitiveNames,     \* the names of kPrimitiveTable
    MaxPrimitives       \* kMaxRecords

ASSUME PrimitivesAssumption == MaxPrimitives \in Nat

VARIABLES
    primitives          \* primitives_: [name, id]

vars == <<buf, procVars, unitVars, aggregateVars, primitives>>

Init ==
    /\ buf \in Files
    /\ phase = "open" /\ pos = 0
    /\ current = NoProcedure /\ procedures = <<>> /\ variables = <<>>
    /\ anchors = <<>> /\ tables = <<>>
    /\ aggregates = <<>> /\ pending = NothingPending
    /\ primitives = <<>>

-----------------------------------------------------------------------------
(* scanPrimitiveTable.                                                      *)

\* 2a 07 Boolean a8 00 00.
BooleanSignature == <<42, 7, 66, 111, 111, 108, 101, 97, 110, 168, 0, 0>>
BooleanAt == {i \in 0..(Min({Size, 64512}) - 12) : Name(i, 12) = BooleanSignature}

LooksLikePrimitive(i) ==
    /\ i + 3 <= Size
    /\ Byte(i) = Primitive /\ Byte(i + 1) \in 1..32
    /\ NameEnd(i) <= Size /\ Byte(i + 2) \in Letters

\* The stop byte also occurs inside a record: only one that another record
\* follows ends it.
RecordStops(p) ==
    {i \in NameEnd(p)..(Min({Size, p + 256}) - 4) : Byte(i) = Stop /\ LooksLikePrimitive(i + 1)}
RecordEnd(p) ==
    IF RecordStops(p) = {} THEN Min({Size, p + 256}) ELSE Min(RecordStops(p)) + 1

\* Two bytes after the mark 9c 13.
TypeIdAt(p) ==
    {i \in NameEnd(p)..(RecordEnd(p) - 4) : Byte(i) = TypeId /\ Byte(i + 1) = 19}

FindBoolean ==
    /\ phase = "open" /\ BooleanAt # {}
    /\ phase' = "primitives" /\ pos' = Min(BooleanAt)
    /\ UNCHANGED <<buf, current, procedures, variables, unitVars, aggregateVars, primitives>>

NoBoolean ==
    /\ phase = "open" /\ BooleanAt = {}
    /\ phase' = "procedures" /\ pos' = Min({ProceduresStart, Size})
    /\ UNCHANGED <<buf, current, procedures, variables, unitVars, aggregateVars, primitives>>

\* Names that are not in the table are left to the pass over the aggregates.
TakePrimitive ==
    /\ phase = "primitives"
    /\ primitives' =
         IF NameOf(pos) \in PrimitiveNames
         THEN Append(primitives,
                [name |-> NameOf(pos),
                 id |-> IF TypeIdAt(pos) = {} THEN 0 ELSE U16(Min(TypeIdAt(pos)) + 2)])
         ELSE primitives
    /\ IF RecordStops(pos) # {} /\ Len(primitives') < MaxPrimitives
       THEN phase' = phase /\ pos' = RecordEnd(pos)
       ELSE phase' = "procedures" /\ pos' = Min({ProceduresStart, Size})
    /\ UNCHANGED <<buf, current, procedures, variables, unitVars, aggregateVars>>

-----------------------------------------------------------------------------

ProcedurePass ==
    /\ \/ SkipToFunction \/ EmptyFunction \/ OpenFunction \/ TakeSub \/ SkipDescriptor
       \/ CloseFunction \/ ProceduresDone
       \/ SkipToGlobal \/ TakeGlobal \/ GlobalsDone
    /\ UNCHANGED <<buf, unitVars, aggregateVars, primitives>>

UnitPass ==
    /\ \/ SkipToAnchor \/ TakeAnchor \/ AnchorsDone
       \/ SkipSeparator \/ TakeEntry \/ SkipToEntry \/ NextTable \/ StampTypes
    /\ UNCHANGED <<buf, aggregateVars, primitives>>

AggregatePass ==
    /\ \/ TakeType \/ TakeField \/ TakeEnumEntry \/ TakeProperty \/ TakeClassHeader
       \/ SkipToMember \/ AttachMembers \/ ResolveAggregateTypes
    /\ UNCHANGED <<buf, primitives>>

Next == FindBoolean \/ NoBoolean \/ TakePrimitive \/ ProcedurePass \/ UnitPass \/ AggregatePass

Spec == Init /\ [][Next]_vars /\ WF_vars(Next)

-----------------------------------------------------------------------------
(* What the passes promise whatever the file holds.                         *)

\* The procedures lie in the file one after another, each with its parameters
\* and locals inside it: the binary search of isInsideProcedure relies on it
\* (rsm_procs_vars.cpp:518).
ProceduresInOrder ==
    /\ \A k \in DOMAIN procedures :
         /\ procedures[k].first < procedures[k].end
         /\ \A n \in DOMAIN procedures : n < k => procedures[n].end <= procedures[k].first
    /\ \A k \in DOMAIN procedures :
         \A v \in Range(procedures[k].params) \union Range(procedures[k].locals) :
            procedures[k].first < v.at /\ v.at < procedures[k].end

\* No local is also read as a global, with the bytes of a stack offset for its
\* address (isInsideProcedure, rsm_procs_vars.cpp:523).
GlobalsOutsideProcedures ==
    \A v \in Range(variables), p \in Range(procedures) : ~(p.first <= v.at /\ v.at < p.end)

\* No scan stands still or goes back, however garbled the record under its cursor
\* (the loops of the five passes; the walk of rsm_procs_vars.cpp:386 leaves the
\* cursor to what a look-ahead finds).
CursorAdvances ==
    [][\/ phase' # phase /\ ~({phase, phase'} \subseteq {"procedures", "locals"})
       \/ pos' > pos
       \/ phase = "locals" /\ phase' = "procedures" /\ pos' = pos /\ pos > current.first]_vars

\* Every pass comes to the end of every file, and the reader with it.
Terminates == <>(phase = "done")
=============================================================================
