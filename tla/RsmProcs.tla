------------------------------- MODULE RsmProcs --------------------------------
(***************************************************************************)
(* Procedures and global variables: Reader::scanProceduresAndVariables of    *)
(* rsm/rsm_procs_vars.cpp.  The first pass walks the file for function       *)
(* heads and, under each, for its parameters and locals; the second walks    *)
(* it again for globals, outside the procedures the first has found.         *)
(*                                                                         *)
(* One action is one turn of a scan loop.                                   *)
(***************************************************************************)
EXTENDS RsmBytes

VARIABLES
    phase,      \* the pass: "procedures", "locals" inside one, "globals", ...
    pos,        \* its cursor: pi, s, i, a or cur in the code
    current,    \* proc: the procedure whose locals are being read
    procedures, \* procedures_
    variables   \* variables_

procVars == <<phase, pos, current, procedures, variables>>

-----------------------------------------------------------------------------
(* parseSub: a parameter or a local at s.                                   *)

SubTags  == {Local, Param, VarParam}
NextTags == SubTags \union {35, 37, Function, Primitive, End}

\* After a one-byte subtag and two zeros, or (an out parameter) a two-byte one.
MarkerAt(s) == IF Zeros(NameEnd(s) + 1) THEN NameEnd(s) + 3 ELSE NameEnd(s) + 4

SubShape(s) ==
    /\ s + 8 < Size
    /\ Byte(s) \in SubTags
    /\ Byte(s + 1) \in 1..64
    /\ NameEnd(s) + 5 < Size
    /\ Zeros(NameEnd(s) + 1) \/ Zeros(NameEnd(s) + 2)
    /\ MarkerAt(s) + 1 < Size
    /\ IsPrintableName(s + 2, Byte(s + 1))

OldForm(s) == Byte(NameEnd(s)) # Payload

\* The body ends where the next record's tag seems to be.
BodyEnds(s) ==
    {k \in (NameEnd(s) + 5)..Min({NameEnd(s) + 16, Size - 1}) : Byte(k) \in NextTags}
BodyLength(s) == Min(BodyEnds(s)) - NameEnd(s)

\* Which of a one-byte marker and a two-byte hash names the type.
CompositeForm(s) ==
    \/ BodyLength(s) = 7
    \/ /\ BodyLength(s) = 6
       /\ Odd(Byte(MarkerAt(s))) \/ ~Odd(Byte(NameEnd(s) + 4))

OffsetAt(s) == MarkerAt(s) + (IF ~OldForm(s) /\ CompositeForm(s) THEN 2 ELSE 1)

IsSub(s) ==
    /\ SubShape(s)
    /\ OldForm(s) \/ (BodyEnds(s) # {} /\ BodyLength(s) \in 5..7)
    /\ OffsetAt(s) < Size
    /\ Odd(Byte(OffsetAt(s))) => OffsetAt(s) + 2 < Size

\* Mutant: the two-byte form taken for unsigned.
UnsignedOffset(at) == IF Odd(Byte(at)) THEN (U16(at) - 1) \div 2 ELSE Int8(Byte(at))

StoredOffset(at) ==
    IF Odd(Byte(at)) THEN (Int16(U16(at)) - 1) \div 2 ELSE Int8(Byte(at))

SubEnd(s) == OffsetAt(s) + (IF Odd(Byte(OffsetAt(s))) THEN 2 ELSE 1)

\* The old form keeps neither its marker nor a hash: the walk copies one only
\* of a primitive and the other only of a composite.
Sub(s) ==
    LET primitive == ~OldForm(s) /\ ~CompositeForm(s)
    IN  [name |-> NameOf(s), at |-> s, address |-> 0,
         primitive |-> primitive,
         marker    |-> IF primitive THEN Byte(MarkerAt(s)) ELSE 0,
         hash      |-> IF OldForm(s) \/ primitive THEN 0 ELSE U16(MarkerAt(s)),
         stack     |-> StoredOffset(OffsetAt(s)),
         type |-> <<>>, unit |-> 0]

-----------------------------------------------------------------------------
(* scanProcedures.                                                          *)

IsFunctionHead(p) ==
    /\ Byte(p) = Function
    /\ Byte(p + 1) \in 2..200
    /\ NameEnd(p) + 14 < Size
    /\ Byte(NameEnd(p)) \in FunctionTags
    /\ Byte(NameEnd(p)) = NestedFunction \/ Zeros(NameEnd(p) + 1)
    /\ IsPrintableName(p + 2, Byte(p + 1))

AddressAt(p) ==
    NameEnd(p) + (CASE Byte(NameEnd(p)) = 32 -> 3
                    [] Byte(NameEnd(p)) = NestedFunction -> 4
                    [] OTHER -> 7)

\* An end mark counts when what follows it starts a record.
IsEnd(t) ==
    /\ Byte(t) = End /\ t + 1 < Size
    /\ Byte(t + 1) \in {Function, Local, Primitive, Stop, TypeId}

\* Where the head's trailer of unknown length may end.
AfterTrailer(p) ==
    {t \in (AddressAt(p) + 4)..(Min({AddressAt(p) + 100, Size - 8}) - 1) : IsSub(t) \/ IsEnd(t)}

IsProcedure(p) == IsFunctionHead(p) /\ AfterTrailer(p) # {}

Procedure(p) ==
    [name |-> NameOf(p), address |-> U32(AddressAt(p)) \div 16,
     nested |-> Byte(NameEnd(p)) = NestedFunction,
     first |-> p, end |-> p, params |-> <<>>, locals |-> <<>>]
NoProcedure ==
    [name |-> <<>>, address |-> 0, nested |-> FALSE, first |-> 0, end |-> 0,
     params |-> <<>>, locals |-> <<>>]

SkipToFunction ==
    /\ phase = "procedures" /\ pos + 16 < Size
    /\ ~IsProcedure(pos)
    /\ pos' = pos + 1
    /\ UNCHANGED <<phase, current, procedures, variables>>

\* Mutant: the end mark counted twice.
EmptyFunctionTooLong ==
    /\ phase = "procedures" /\ pos + 16 < Size
    /\ IsProcedure(pos)
    /\ IsEnd(Min(AfterTrailer(pos)))
    /\ pos' = Min(AfterTrailer(pos)) + 1
    /\ procedures' = Append(procedures, [Procedure(pos) EXCEPT !.end = pos' + 1])
    /\ UNCHANGED <<phase, current, variables>>

\* A function without parameters and locals: the end mark comes first.
EmptyFunction ==
    /\ phase = "procedures" /\ pos + 16 < Size
    /\ IsProcedure(pos)
    /\ IsEnd(Min(AfterTrailer(pos)))
    /\ pos' = Min(AfterTrailer(pos)) + 1
    /\ procedures' = Append(procedures, [Procedure(pos) EXCEPT !.end = pos'])
    /\ UNCHANGED <<phase, current, variables>>

OpenFunction ==
    /\ phase = "procedures" /\ pos + 16 < Size
    /\ IsProcedure(pos)
    /\ IsSub(Min(AfterTrailer(pos)))
    /\ phase' = "locals"
    /\ current' = Procedure(pos)
    /\ pos' = Min(AfterTrailer(pos))
    /\ UNCHANGED <<procedures, variables>>

\* Up to six bytes of padding before a record are stepped over.
Anchored(s) ==
    LET cap == Min({s + 6, Size - 8})
        hits == {t \in s..(cap - 1) : IsEnd(t) \/ IsSub(t)}
    IN  IF hits = {} THEN cap ELSE Min(hits)

\* From an unknown record the walk looks further, and takes any end mark.
Farther(s) ==
    {t \in (s + 1)..(Min({s + 1024, Size - 8}) - 1) : Byte(t) = End \/ IsSub(t)}

TakeSub ==
    /\ phase = "locals" /\ pos + 8 < Size
    /\ LET s == Anchored(pos)
       IN  /\ IsSub(s)
           /\ pos' = SubEnd(s)
           /\ current' = IF Byte(s) = Local
                         THEN [current EXCEPT !.locals = Append(@, Sub(s))]
                         ELSE [current EXCEPT !.params = Append(@, Sub(s))]
    /\ UNCHANGED <<phase, procedures, variables>>

\* Return-value descriptors, enum entries: nothing of them is read.
SkipDescriptor ==
    /\ phase = "locals" /\ pos + 8 < Size
    /\ LET s == Anchored(pos)
       IN  /\ s + 8 < Size
           /\ Byte(s) \notin SubTags \union {End}
           /\ Farther(s) # {}
           /\ pos' = Min(Farther(s))
    /\ UNCHANGED <<phase, current, procedures, variables>>

\* Mutant: the scan goes on behind the head instead of behind the locals.
StopsAtHead(s) == NameEnd(current.first)

\* Where the walk ends when its next turn is not a step further.
StopsAt(s) ==
    IF s + 8 >= Size THEN s
    ELSE LET t == Anchored(s)
         IN  IF t + 8 < Size /\ Byte(t) = End THEN t + 1 ELSE t

Stops(s) ==
    \/ s + 8 >= Size
    \/ LET t == Anchored(s)
       IN  \/ t + 8 >= Size
           \/ Byte(t) = End
           \/ Byte(t) \in SubTags /\ ~IsSub(t)
           \/ Byte(t) \notin SubTags /\ Farther(t) = {}

CloseFunction ==
    /\ phase = "locals"
    /\ Stops(pos)
    /\ pos' = StopsAt(pos)
    /\ procedures' = Append(procedures, [current EXCEPT !.end = pos'])
    /\ phase' = "procedures" /\ current' = NoProcedure
    /\ UNCHANGED variables

ProceduresDone ==
    /\ phase = "procedures" /\ pos + 16 >= Size
    /\ phase' = "globals" /\ pos' = ProceduresStart
    /\ UNCHANGED <<current, procedures, variables>>

-----------------------------------------------------------------------------
(* The scan for globals.                                                    *)

\* Mutant: the lower end of the file instead of the closest procedure.
IsInsideFirst(i) ==
    LET before == {k \in DOMAIN procedures : procedures[k].first <= i}
    IN  before # {} /\ i < procedures[Min(before)].end

\* upper_bound over the procedures in file order, then one back.
IsInsideProcedure(i) ==
    LET before == {k \in DOMAIN procedures : procedures[k].first <= i}
    IN  before # {} /\ i < procedures[Max(before)].end

PayloadAt(i) == NameEnd(i) + 3

IsGlobal(i) ==
    /\ Byte(i) = Local
    /\ ~IsInsideProcedure(i)
    /\ Byte(i + 1) \in 1..64
    /\ PayloadAt(i) < Size
    /\ Byte(PayloadAt(i) - 3) = Payload /\ Zeros(PayloadAt(i) - 2)
    /\ IsPrintableName(i + 2, Byte(i + 1))
    /\ PayloadAt(i) + 6 <= Size

PrimitiveShape(b) == b \in 1..63 /\ ~Odd(b)

HasTrailer(at) ==
    /\ at + 12 <= Size
    /\ Byte(at + 5) = TypeId /\ Byte(at + 6) = 9 /\ Byte(at + 11) = Stop

Global(i) ==
    LET at == PayloadAt(i)
        primitive == PrimitiveShape(Byte(at))
    IN  [name |-> NameOf(i), at |-> i,
         address |-> U32(at + (IF primitive THEN 1 ELSE 2)) \div 16,
         primitive |-> primitive,
         marker |-> IF primitive THEN Byte(at) ELSE 0,
         hash |-> IF primitive THEN 0 ELSE U16(at),
         stack |-> 0, type |-> <<>>, unit |-> 0]

GlobalEnd(i) ==
    LET at == PayloadAt(i)
    IN  at + (CASE ~PrimitiveShape(Byte(at)) -> 6
                [] PrimitiveShape(Byte(at)) /\ HasTrailer(at) -> 12
                [] OTHER -> 5)

SkipToGlobal ==
    /\ phase = "globals" /\ pos + 8 < Size
    /\ ~IsGlobal(pos)
    /\ pos' = pos + 1
    /\ UNCHANGED <<phase, current, procedures, variables>>

TakeGlobal ==
    /\ phase = "globals" /\ pos + 8 < Size
    /\ IsGlobal(pos)
    /\ variables' = Append(variables, Global(pos))
    /\ pos' = GlobalEnd(pos)
    /\ UNCHANGED <<phase, current, procedures>>

GlobalsDone ==
    /\ phase = "globals" /\ pos + 8 >= Size
    /\ phase' = "anchors" /\ pos' = MetadataStart
    /\ UNCHANGED <<current, procedures, variables>>
=============================================================================
