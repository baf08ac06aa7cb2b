------------------------------ MODULE FrameLayout ------------------------------
(***************************************************************************)
(* Where a procedure keeps its parameters and locals: the prologue parser,  *)
(* the scanner for widths of stack accesses and resolveFunction(), which    *)
(* puts them together (pe/prologue.h, pe/size_sniffer.h, compose/frame.cpp).*)
(* Code is a sequence of bytes, empty when the executable has none to show. *)
(***************************************************************************)
EXTENDS Integers, Sequences, SequencesExt

\* kPrimitiveTable: Pascal name -> [kind, size].
Primitive(kind, size, names) == [n \in names |-> [kind |-> kind, size |-> size]]
Primitives ==
    Primitive("Bool", 1, {"Boolean", "ByteBool"}) @@ Primitive("Bool", 2, {"WordBool"})
    @@ Primitive("Bool", 4, {"LongBool"}) @@ Primitive("Char", 1, {"AnsiChar"})
    @@ Primitive("WChar", 2, {"Char", "WideChar"})
    @@ Primitive("Int8", 1, {"ShortInt"}) @@ Primitive("Int16", 2, {"SmallInt"})
    @@ Primitive("Int32", 4, {"Integer", "LongInt"})
    @@ Primitive("Int64", 8, {"Int64", "NativeInt", "Comp", "Currency"})
    @@ Primitive("UInt8", 1, {"Byte"}) @@ Primitive("UInt16", 2, {"Word"})
    @@ Primitive("UInt32", 4, {"Cardinal", "LongWord"})
    @@ Primitive("UInt64", 8, {"UInt64", "NativeUInt", "Pointer"})
    @@ Primitive("Float32", 4, {"Single"}) @@ Primitive("Float64", 6, {"Real48"})
    @@ Primitive("Float64", 8, {"Real", "Double", "Extended"})
    @@ Primitive("Float80", 10, {"Extended80"})
    @@ Primitive("PWChar", 8, {"UnicodeString", "WideString", "PChar", "PWideChar", "string"})
    @@ Primitive("PChar", 8, {"AnsiString", "UTF8String", "PAnsiChar"})

-----------------------------------------------------------------------------
(* pe/prologue.h: push rbp; push <reg>...; sub rsp, N.                     *)

Signed(byte) == IF byte < 128 THEN byte ELSE byte - 256
Int32(code, i) ==
    code[i] + code[i + 1] * 256 + code[i + 2] * 65536 + Signed(code[i + 3]) * 16777216

Push == 80..87
\* At most 16 further pushes, of one byte or of two; w = [at, pushes].
AfterPush(code, w) ==
    CASE w.at <= Len(code) /\ code[w.at] \in Push ->
           [at |-> w.at + 1, pushes |-> w.pushes + 1]
      [] w.at < Len(code) /\ code[w.at] = 65 /\ code[w.at + 1] \in Push ->
           [at |-> w.at + 2, pushes |-> w.pushes + 1]
      [] OTHER -> w
Pushes(code) ==
    FoldLeft(LAMBDA w, n : AfterPush(code, w), [at |-> 2, pushes |-> 0], [n \in 1..16 |-> n])

\* The immediate of `sub rsp'; 0 when there is none at i.
LocalArea(code, i) ==
    CASE i + 3 <= Len(code) /\ SubSeq(code, i, i + 2) = <<72, 131, 236>> -> Signed(code[i + 3])
      [] i + 6 <= Len(code) /\ SubSeq(code, i, i + 2) = <<72, 129, 236>> -> Int32(code, i + 3)
      [] OTHER -> 0

Prologue(code) ==
    IF Len(code) < 5 \/ code[1] # 85 THEN [sub |-> 0, pushes |-> 0]
    ELSE [sub |-> LocalArea(code, Pushes(code).at), pushes |-> Pushes(code).pushes]

-----------------------------------------------------------------------------
(* pe/size_sniffer.h: the widths of the accesses to [rbp + disp].           *)

NoAccess == [disp |-> 0, width |-> 0, next |-> 0]
\* The move that starts at i: prefixes, opcode, ModR/M, displacement, immediate.
Access(code, i) ==
    LET narrow == code[i] = 102
        r      == IF narrow THEN i + 1 ELSE i
        rex    == r <= Len(code) /\ code[r] \in 64..79
        o      == IF rex THEN r + 1 ELSE r
        full   == IF rex /\ code[r] % 16 >= 8 THEN 8 ELSE IF narrow THEN 2 ELSE 4
        width  == IF code[o] \in {136, 138, 198} THEN 1 ELSE full
        imm    == CASE code[o] = 198 -> 1
                    [] code[o] = 199 -> IF narrow THEN 2 ELSE 4
                    [] OTHER -> 0
        mod    == code[o + 1] \div 64
        size   == CASE mod = 1 -> 1 [] mod = 2 -> 4 [] OTHER -> 0
    IN  IF /\ o < Len(code) /\ code[o] \in {136, 137, 138, 139, 198, 199}
           /\ size > 0 /\ code[o + 1] % 8 = 5
           /\ o + 1 + size + imm <= Len(code)
        THEN [disp  |-> IF size = 1 THEN Signed(code[o + 2]) ELSE Int32(code, o + 2),
              width |-> width, next |-> o + 2 + size + imm]
        ELSE NoAccess

\* disp -> width of the first access to it, in a walk over the whole function.
Sniffed(code) ==
    FoldLeft(LAMBDA s, i :
               LET a == Access(code, i)
               IN  IF i < s.next THEN s
                   ELSE [next |-> a.next, widths |-> s.widths @@ (a.disp :> a.width)],
             [next |-> 1, widths |-> <<>>],
             SelectSeq([i \in DOMAIN code |-> i], LAMBDA i : Access(code, i) # NoAccess)).widths

-----------------------------------------------------------------------------
(* compose/frame.cpp; variables and procedures are the .rsm reader's.       *)

IsSelf(v) == v.name = "Self" \/ v.marker \in {41, 213}

\* The distance to the next primitive global, for the markers whose globals
\* agree about it.
Gaps(variables, marker) ==
    LET at == {v.address : v \in {w \in Range(variables) : w.primitive /\ w.address # 0}}
        After(a) == {b \in at : b > a}
    IN  {Min(After(v.address)) - v.address :
           v \in {w \in Range(variables) :
                    /\ w.primitive /\ w.address # 0 /\ w.marker = marker
                    /\ After(w.address) # {}}}
        \cap 1..16
MarkerSizes(variables) ==
    [m \in {m \in {v.marker : v \in Range(variables)} : Cardinality(Gaps(variables, m)) = 1}
       |-> CHOOSE g \in Gaps(variables, m) : TRUE]

ResolveSize(v, offset, sizes, sniffed) ==
    CASE IsSelf(v) -> 8
      [] ~IsSelf(v) /\ v.marker \in DOMAIN sizes -> sizes[v.marker]
      [] ~IsSelf(v) /\ v.marker \notin DOMAIN sizes /\ offset \in DOMAIN sniffed ->
           sniffed[offset]
      [] OTHER -> 0

\* applyPascalType and applyAggregateRef: the Pascal name beats every size.
Resolved(v, param, offset, sizes, sniffed) ==
    LET named == v.type \in DOMAIN Primitives
        typed == ~v.primitive /\ v.hash # 0
    IN  [name |-> v.name, param |-> param, self |-> param /\ IsSelf(v), link |-> FALSE,
         offset |-> offset,
         size |-> IF named THEN Primitives[v.type].size
                  ELSE ResolveSize(v, offset, sizes, sniffed),
         kind |-> IF named THEN Primitives[v.type].kind ELSE "",
         hash |-> IF typed THEN v.hash ELSE 0, unit |-> IF typed THEN v.unit ELSE 0]

\* C++ division: towards zero.
Half(n) == IF n >= 0 THEN n \div 2 ELSE -((-n) \div 2)

StaticLink(offset) ==
    [name |-> "__frame_outer__", param |-> TRUE, self |-> FALSE, link |-> TRUE,
     offset |-> offset, size |-> 8, kind |-> "", hash |-> 0, unit |-> 0]

SelfOffset(frame, shift)     == frame.sub + 16 + shift
ParamOffset(frame, shift, v) == frame.sub + shift + Half(v.stack)
LocalUnshifted(frame, shift, v) == frame.sub + Half(v.stack)
LocalOffset(frame, shift, v) == frame.sub - shift + Half(v.stack)

\* resolveFunction: the static link, the parameters, the locals.
ResolveFunction(procedure, code, sizes) ==
    LET frame   == Prologue(code)
        shift   == 8 * frame.pushes
        sniffed == Sniffed(code)
        Param(v) == Resolved(v, TRUE, IF IsSelf(v) THEN SelfOffset(frame, shift)
                                      ELSE ParamOffset(frame, shift, v), sizes, sniffed)
        Local(v) == Resolved(v, FALSE, LocalOffset(frame, shift, v), sizes, sniffed)
    IN  (IF procedure.nested THEN <<StaticLink(SelfOffset(frame, shift))>> ELSE <<>>)
        \o [i \in DOMAIN procedure.params |-> Param(procedure.params[i])]
        \o [i \in DOMAIN procedure.locals |-> Local(procedure.locals[i])]
=============================================================================
