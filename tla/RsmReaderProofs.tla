---------------------------- MODULE RsmReaderProofs ----------------------------
(***************************************************************************)
(* Proofs about RsmReader, for every set of files, whatever bytes they      *)
(* hold: truncated, garbled or not .rsm files at all.                       *)
(***************************************************************************)
EXTENDS RsmReader, DataLemmas

-----------------------------------------------------------------------------
(* Sequences whose elements have no type of their own.                     *)

IsSeq(s) == s \in Seq({s[i] : i \in DOMAIN s})

\* Such a sequence, its extension by an element and its image under a map.
LEMMA SeqDomain ==
    ASSUME NEW s, IsSeq(s)
    PROVE  Len(s) \in Nat /\ DOMAIN s = 1..Len(s)
PROOF BY DEF IsSeq

Extends(t, s, e) ==
    /\ IsSeq(t) /\ Len(t) = Len(s) + 1 /\ t # <<>>
    /\ DOMAIN t = 1..(Len(s) + 1) /\ t[Len(s) + 1] = e
    /\ \A i \in 1..Len(s) : t[i] = s[i]

\* A sequence with one element more.
LEMMA SeqAppend ==
    ASSUME NEW s, NEW e, IsSeq(s)
    PROVE  Extends(Append(s, e), s, e)
PROOF
<1> DEFINE S == {s[i] : i \in DOMAIN s} \cup {e}
           t == Append(s, e)
<1>1. s \in Seq(S)
  <2> DEFINE R == {s[i] : i \in DOMAIN s}
  <2>1. s \in Seq(R) /\ R \subseteq S
    BY DEF IsSeq
  <2> HIDE DEF R, S
  <2> QED BY <2>1
<1>2. e \in S
  OBVIOUS
<1> HIDE DEF S
<1>3. /\ t \in Seq(S) /\ Len(t) = Len(s) + 1 /\ t[Len(s) + 1] = e
      /\ DOMAIN t = 1..(Len(s) + 1)
      /\ \A i \in 1..Len(s) : t[i] = s[i]
  BY <1>1, <1>2
<1> HIDE DEF t
<1>4. t \in Seq({t[i] : i \in DOMAIN t})
  <2> DEFINE R == {t[i] : i \in DOMAIN t}
  <2>1. Len(t) \in Nat /\ DOMAIN t = 1..Len(t) /\ \A i \in 1..Len(t) : t[i] \in R
    BY <1>3
  <2> HIDE DEF R
  <2>2. t \in Seq(R)
    BY <1>3, <2>1
  <2> QED BY <2>2 DEF R
<1>5. t # <<>>
  BY <1>1, <1>3
<1> QED BY <1>3, <1>4, <1>5 DEF t, Extends, IsSeq

\* A sequence whose elements are rewritten.
LEMMA SeqMap ==
    ASSUME NEW s, IsSeq(s), NEW t, DOMAIN t = DOMAIN s, t = [i \in DOMAIN t |-> t[i]]
    PROVE  IsSeq(t) /\ Len(t) = Len(s)
PROOF
<1> DEFINE R == {t[i] : i \in DOMAIN t}
           n == Len(s)
<1>1. n \in Nat /\ DOMAIN t = 1..n
  BY SeqDomain
<1>2. \A i \in DOMAIN t : t[i] \in R
  OBVIOUS
<1> HIDE DEF R, n
<1>3. t \in [1..n -> R]
  BY <1>1, <1>2
<1>4. t \in Seq(R) /\ Len(t) = n
  BY <1>1, <1>3
<1> QED BY <1>4 DEF IsSeq, R, n

\* The empty sequence.
LEMMA EmptyIsSeq == IsSeq(<<>>) /\ DOMAIN <<>> = {} /\ Len(<<>>) = 0
PROOF BY DEF IsSeq

-----------------------------------------------------------------------------
(* Bytes and look-aheads.                                                  *)

\* An element of a sequence.
LEMMA ElementType ==
    ASSUME NEW S, NEW s \in Seq(S), NEW i \in 1..Len(s)
    PROVE  s[i] \in S
PROOF OBVIOUS

\* A byte of the file.
LEMMA ByteType ==
    ASSUME buf \in Files
    PROVE  Size \in Nat /\ \A i \in Nat : i < Size => Byte(i) \in 0..255
PROOF
<1>1. buf \in Seq(0..255)
  BY FilesAssumption
<1>2. Len(buf) \in Nat
  BY <1>1
<1>3. ASSUME NEW i \in Nat, i < Size PROVE Byte(i) \in 0..255
  <2>1. i + 1 \in 1..Len(buf)
    BY <1>2, <1>3 DEF Size
  <2> QED BY <1>1, <2>1, ElementType DEF Byte
<1> QED BY <1>2, <1>3 DEF Size

\* The lesser of two.
LEMMA MinOfTwo ==
    ASSUME NEW a \in Int, NEW b \in Int
    PROVE  Min({a, b}) = IF a <= b THEN a ELSE b
PROOF
<1> DEFINE m == IF a <= b THEN a ELSE b
<1>1. m \in {a, b} /\ \A x \in {a, b} : m <= x
  OBVIOUS
<1>2. \A y \in {a, b} : (\A x \in {a, b} : y <= x) => y = m
  OBVIOUS
<1> QED BY <1>1, <1>2 DEF Min

\* A name ends behind the tag and the length before it.
LEMMA NameEndBehind ==
    ASSUME NEW i \in Nat, Byte(i + 1) \in Nat
    PROVE  /\ NameEnd(i) \in Nat
           /\ i + 2 <= NameEnd(i) /\ i < NameEnd(i)
PROOF
<1> DEFINE b == Byte(i + 1)
<1>1. NameEnd(i) = i + 2 + b /\ b \in Nat
  BY DEF NameEnd
<1> HIDE DEF b
<1> QED BY <1>1

\* A parameter or a local takes up at least its tag.
LEMMA SubBehind ==
    ASSUME buf \in Files, NEW s \in Nat, IsSub(s)
    PROVE  SubEnd(s) \in Nat /\ s < SubEnd(s)
PROOF
<1>1. s + 8 < Size
  BY DEF IsSub, SubShape
<1>2. Byte(s + 1) \in Nat
  <2>1. Byte(s + 1) \in 1..64
    BY DEF IsSub, SubShape
  <2> QED BY <2>1
<1>3. NameEnd(s) \in Nat /\ s < NameEnd(s)
  BY <1>2, NameEndBehind
<1>4. MarkerAt(s) \in Nat /\ MarkerAt(s) > s
  BY <1>3 DEF MarkerAt
<1>5. OffsetAt(s) \in Nat /\ OffsetAt(s) > s
  BY <1>4 DEF OffsetAt
<1> QED BY <1>5 DEF SubEnd

\* Skipping padding never goes back.
LEMMA AnchoredBehind ==
    ASSUME buf \in Files, NEW s \in Nat, s + 8 < Size
    PROVE  Anchored(s) \in Nat /\ s <= Anchored(s)
PROOF
<1> DEFINE cap == Min({s + 6, Size - 8})
           hits == {t \in s..(cap - 1) : IsEnd(t) \/ IsSub(t)}
<1>1. cap \in Nat /\ s < cap
  <2>1. Size \in Nat /\ s + 6 \in Int /\ Size - 8 \in Int
    BY ByteType
  <2>2. cap = IF s + 6 <= Size - 8 THEN s + 6 ELSE Size - 8
    BY <2>1, MinOfTwo
  <2> HIDE DEF cap
  <2> QED BY <2>1, <2>2
<1>2. Anchored(s) = IF hits = {} THEN cap ELSE Min(hits)
  BY DEF Anchored
<1>3. hits \in SUBSET Nat /\ \A t \in hits : s <= t
  <2> HIDE DEF cap
  <2> QED BY <1>1
<1> HIDE DEF hits, cap
<1>4. hits # {} => Min(hits) \in Nat /\ s <= Min(hits)
  <2> SUFFICES ASSUME hits # {} PROVE Min(hits) \in Nat /\ s <= Min(hits)
    OBVIOUS
  <2>1. Min(hits) \in hits
    BY <1>3, MinIsLeast
  <2> QED BY <1>3, <2>1
<1> QED BY <1>1, <1>2, <1>4

\* A look-ahead from an unknown record goes past its first byte.
LEMMA FartherBehind ==
    ASSUME NEW s \in Nat, Farther(s) # {}
    PROVE  Min(Farther(s)) \in Nat /\ s < Min(Farther(s))
PROOF
<1>1. Farther(s) \in SUBSET Nat /\ \A t \in Farther(s) : s < t
  BY DEF Farther
<1>2. Min(Farther(s)) \in Farther(s)
  BY <1>1, MinIsLeast
<1> QED BY <1>1, <1>2

\* The trailer of a function's head lies behind the head.
LEMMA TrailerBehind ==
    ASSUME buf \in Files, NEW p \in Nat, IsProcedure(p)
    PROVE  Min(AfterTrailer(p)) \in Nat /\ p < Min(AfterTrailer(p))
PROOF
<1>1. NameEnd(p) \in Nat /\ NameEnd(p) > p
  <2>1. Byte(p + 1) \in 2..200
    BY DEF IsProcedure, IsFunctionHead
  <2>2. Byte(p + 1) \in Nat
    BY <2>1
  <2> QED BY <2>2, NameEndBehind
<1>2. AddressAt(p) \in Nat /\ AddressAt(p) > p
  BY <1>1 DEF AddressAt
<1>3. AfterTrailer(p) \in SUBSET Nat /\ \A t \in AfterTrailer(p) : p < t
  <2> DEFINE a == AddressAt(p) + 4
  <2>1. a \in Nat /\ p < a
    BY <1>2
  <2>2. \A t \in AfterTrailer(p) : t \in Int /\ a <= t
    BY <2>1 DEF AfterTrailer
  <2> HIDE DEF a
  <2> QED BY <2>1, <2>2
<1>4. AfterTrailer(p) # {}
  BY DEF IsProcedure
<1>5. Min(AfterTrailer(p)) \in AfterTrailer(p)
  BY <1>3, <1>4, MinIsLeast
<1> QED BY <1>3, <1>5

\* The walk over a function's locals ends where its last turn stood, or further.
LEMMA StopsBehind ==
    ASSUME buf \in Files, NEW s \in Nat
    PROVE  StopsAt(s) \in Nat /\ s <= StopsAt(s)
PROOF
<1>1. CASE s + 8 >= Size
  BY <1>1 DEF StopsAt
<1>2. CASE s + 8 < Size
  <2>1. Anchored(s) \in Nat /\ s <= Anchored(s)
    BY <1>2, AnchoredBehind
  <2> QED BY <1>2, <2>1, ByteType DEF StopsAt
<1> QED BY <1>1, <1>2, ByteType

\* A global takes up more than its name.
LEMMA GlobalBehind ==
    ASSUME NEW i \in Nat, IsGlobal(i)
    PROVE  GlobalEnd(i) \in Nat /\ i < GlobalEnd(i)
PROOF
<1>1. NameEnd(i) \in Nat /\ NameEnd(i) > i
  <2>1. Byte(i + 1) \in 1..64
    BY DEF IsGlobal
  <2>2. Byte(i + 1) \in Nat
    BY <2>1
  <2> QED BY <2>2, NameEndBehind
<1>2. PayloadAt(i) \in Nat /\ PayloadAt(i) > i
  BY <1>1 DEF PayloadAt
<1> DEFINE at == PayloadAt(i)
<1>3. GlobalEnd(i) \in {at + 6, at + 12, at + 5}
  <2> HIDE DEF at
  <2> QED BY DEF GlobalEnd, at
<1> QED BY <1>2, <1>3

-----------------------------------------------------------------------------
(* What the passes find, and where.                                        *)

Phases == {"open", "primitives", "procedures", "locals", "globals", "anchors",
           "tables", "aggregates", "resolve", "done"}

\* What is read, with its place in the file.
Symbol(v)  == "at" \in DOMAIN v /\ v.at \in Nat
Symbols(s) == IsSeq(s) /\ \A i \in DOMAIN s : Symbol(s[i])
Within(s, from, to) ==
    Symbols(s) /\ \A i \in DOMAIN s : from < s[i].at /\ s[i].at < to

Framed(p) ==
    /\ {"first", "end", "params", "locals"} \subseteq DOMAIN p
    /\ p.first \in Nat /\ p.end \in Nat
Holds(p, from, to) == Within(p.params, from, to) /\ Within(p.locals, from, to)
Closed(p)          == Framed(p) /\ p.first < p.end /\ Holds(p, p.first, p.end)

InFileOrder(ps) ==
    /\ IsSeq(ps)
    /\ \A k \in DOMAIN ps : Closed(ps[k])
    /\ \A k, n \in DOMAIN ps : n < k => ps[n].end <= ps[k].first
Behind(ps, i) == \A k \in DOMAIN ps : ps[k].end <= i
Outside(vs, ps) ==
    \A i \in DOMAIN vs, k \in DOMAIN ps : ~(ps[k].first <= vs[i].at /\ vs[i].at < ps[k].end)
Ascending(as) ==
    Symbols(as) /\ \A k, n \in DOMAIN as : n < k => as[n].at < as[k].at

-----------------------------------------------------------------------------
(* Stamping and resolving keep every symbol where it is.                   *)

Same(w, v) == Symbol(w) /\ w.at = v.at
SameSymbols(t, s) ==
    IsSeq(t) /\ DOMAIN t = DOMAIN s /\ \A i \in DOMAIN s : Same(t[i], s[i])
SameProcedure(q, p) ==
    /\ Framed(q) /\ q.first = p.first /\ q.end = p.end
    /\ SameSymbols(q.params, p.params) /\ SameSymbols(q.locals, p.locals)
SameProcedures(qs, ps) ==
    IsSeq(qs) /\ DOMAIN qs = DOMAIN ps /\ \A k \in DOMAIN ps : SameProcedure(qs[k], ps[k])

\* A type's unit moves no symbol.
LEMMA StampedSame == ASSUME NEW v, Symbol(v) PROVE Same(Stamped(v), v)
PROOF BY DEF Same, Symbol, Stamped

\* A type's name moves no symbol.
LEMMA ResolvedSame == ASSUME NEW v, Symbol(v) PROVE Same(Resolved(v), v)
PROOF
<1>1. CASE Resolved(v) = v
  BY <1>1 DEF Same
<1>2. CASE Resolved(v) # v
  <2>1. PICK x : Resolved(v) = [v EXCEPT !.type = x]
    BY <1>2 DEF Resolved
  <2> QED BY <2>1 DEF Same, Symbol
<1> QED BY <1>1, <1>2

\* Stamped symbols stay where they were.
LEMMA SymbolsStamped ==
    ASSUME NEW s, Symbols(s)
    PROVE  SameSymbols([n \in DOMAIN s |-> Stamped(s[n])], s)
PROOF
<1> DEFINE t == [n \in DOMAIN s |-> Stamped(s[n])]
<1>1. DOMAIN t = DOMAIN s /\ t = [n \in DOMAIN t |-> t[n]]
  OBVIOUS
<1>2. \A i \in DOMAIN s : t[i] = Stamped(s[i])
  OBVIOUS
<1> HIDE DEF t
<1>3. IsSeq(t)
  BY <1>1, SeqMap DEF Symbols
<1>4. \A i \in DOMAIN s : Same(t[i], s[i])
  BY <1>2, StampedSame DEF Symbols
<1>5. SameSymbols(t, s)
  BY <1>1, <1>3, <1>4 DEF SameSymbols
<1> QED BY <1>5 DEF t

\* Resolved symbols stay where they were.
LEMMA SymbolsResolved ==
    ASSUME NEW s, Symbols(s)
    PROVE  SameSymbols([n \in DOMAIN s |-> Resolved(s[n])], s)
PROOF
<1> DEFINE t == [n \in DOMAIN s |-> Resolved(s[n])]
<1>1. DOMAIN t = DOMAIN s /\ t = [n \in DOMAIN t |-> t[n]]
  OBVIOUS
<1>2. \A i \in DOMAIN s : t[i] = Resolved(s[i])
  OBVIOUS
<1> HIDE DEF t
<1>3. IsSeq(t)
  BY <1>1, SeqMap DEF Symbols
<1>4. \A i \in DOMAIN s : Same(t[i], s[i])
  BY <1>2, ResolvedSame DEF Symbols
<1>5. SameSymbols(t, s)
  BY <1>1, <1>3, <1>4 DEF SameSymbols
<1> QED BY <1>5 DEF t

\* A procedure with its parameters and locals replaced.
LEMMA Replaced ==
    ASSUME NEW p, Framed(p), NEW a, NEW b, SameSymbols(a, p.params), SameSymbols(b, p.locals)
    PROVE  SameProcedure([p EXCEPT !.params = a, !.locals = b], p)
PROOF
<1> DEFINE q == [p EXCEPT !.params = a, !.locals = b]
<1>1. /\ {"first", "end", "params", "locals"} \subseteq DOMAIN q
      /\ q.first = p.first /\ q.end = p.end /\ q.params = a /\ q.locals = b
  BY DEF Framed
<1> HIDE DEF q
<1>2. SameProcedure(q, p)
  BY <1>1 DEF SameProcedure, Framed
<1> QED BY <1>2 DEF q

\* StampTypes moves nothing.
LEMMA EachStamped ==
    ASSUME InFileOrder(procedures), Symbols(variables), EachSymbol(Stamped)
    PROVE  SameProcedures(procedures', procedures) /\ SameSymbols(variables', variables)
PROOF
<1>1. PICK ps : ps = procedures
  OBVIOUS
<1>2. PICK qs : qs = procedures'
  OBVIOUS
<1>3. SameSymbols(variables', variables)
  <2>1. variables' = [k \in DOMAIN variables |-> Stamped(variables[k])]
    BY DEF EachSymbol
  <2> QED BY <2>1, SymbolsStamped
<1>4. qs = [k \in DOMAIN ps |->
         [ps[k] EXCEPT !.params = [n \in DOMAIN @ |-> Stamped(@[n])],
                       !.locals = [n \in DOMAIN @ |-> Stamped(@[n])]]]
  BY <1>1, <1>2 DEF EachSymbol
<1>5. ASSUME NEW k \in DOMAIN ps PROVE SameProcedure(qs[k], ps[k])
  <2>1. PICK p : p = ps[k]
    OBVIOUS
  <2>2. qs[k] = [p EXCEPT !.params = [n \in DOMAIN p.params |-> Stamped(p.params[n])],
                          !.locals = [n \in DOMAIN p.locals |-> Stamped(p.locals[n])]]
    BY <1>4, <2>1
  <2>3. PICK a, b : /\ a = [n \in DOMAIN p.params |-> Stamped(p.params[n])]
                    /\ b = [n \in DOMAIN p.locals |-> Stamped(p.locals[n])]
    OBVIOUS
  <2>4. Framed(p) /\ Symbols(p.params) /\ Symbols(p.locals)
    BY <1>1, <2>1 DEF InFileOrder, Closed, Holds, Within
  <2>5. qs[k] = [p EXCEPT !.params = a, !.locals = b]
    BY <2>2, <2>3, <2>4 DEF Framed
  <2>6. SameSymbols(a, p.params) /\ SameSymbols(b, p.locals)
    BY <2>3, <2>4, SymbolsStamped
  <2>7. SameProcedure([p EXCEPT !.params = a, !.locals = b], p)
    BY <2>4, <2>6, Replaced
  <2> QED BY <2>1, <2>5, <2>7
<1>6. IsSeq(qs) /\ DOMAIN qs = DOMAIN ps
  <2>1. DOMAIN qs = DOMAIN ps /\ qs = [k \in DOMAIN qs |-> qs[k]]
    BY <1>4
  <2>2. IsSeq(ps)
    BY <1>1 DEF InFileOrder
  <2> QED BY <2>1, <2>2, SeqMap
<1> QED BY <1>1, <1>2, <1>3, <1>5, <1>6 DEF SameProcedures

\* Resolve moves nothing.
LEMMA EachResolved ==
    ASSUME InFileOrder(procedures), Symbols(variables), EachSymbol(Resolved)
    PROVE  SameProcedures(procedures', procedures) /\ SameSymbols(variables', variables)
PROOF
<1>1. PICK ps : ps = procedures
  OBVIOUS
<1>2. PICK qs : qs = procedures'
  OBVIOUS
<1>3. SameSymbols(variables', variables)
  <2>1. variables' = [k \in DOMAIN variables |-> Resolved(variables[k])]
    BY DEF EachSymbol
  <2> QED BY <2>1, SymbolsResolved
<1>4. qs = [k \in DOMAIN ps |->
         [ps[k] EXCEPT !.params = [n \in DOMAIN @ |-> Resolved(@[n])],
                       !.locals = [n \in DOMAIN @ |-> Resolved(@[n])]]]
  BY <1>1, <1>2 DEF EachSymbol
<1>5. ASSUME NEW k \in DOMAIN ps PROVE SameProcedure(qs[k], ps[k])
  <2>1. PICK p : p = ps[k]
    OBVIOUS
  <2>2. qs[k] = [p EXCEPT !.params = [n \in DOMAIN p.params |-> Resolved(p.params[n])],
                          !.locals = [n \in DOMAIN p.locals |-> Resolved(p.locals[n])]]
    BY <1>4, <2>1
  <2>3. PICK a, b : /\ a = [n \in DOMAIN p.params |-> Resolved(p.params[n])]
                    /\ b = [n \in DOMAIN p.locals |-> Resolved(p.locals[n])]
    OBVIOUS
  <2>4. Framed(p) /\ Symbols(p.params) /\ Symbols(p.locals)
    BY <1>1, <2>1 DEF InFileOrder, Closed, Holds, Within
  <2>5. qs[k] = [p EXCEPT !.params = a, !.locals = b]
    BY <2>2, <2>3, <2>4 DEF Framed
  <2>6. SameSymbols(a, p.params) /\ SameSymbols(b, p.locals)
    BY <2>3, <2>4, SymbolsResolved
  <2>7. SameProcedure([p EXCEPT !.params = a, !.locals = b], p)
    BY <2>4, <2>6, Replaced
  <2> QED BY <2>1, <2>5, <2>7
<1>6. IsSeq(qs) /\ DOMAIN qs = DOMAIN ps
  <2>1. DOMAIN qs = DOMAIN ps /\ qs = [k \in DOMAIN qs |-> qs[k]]
    BY <1>4
  <2>2. IsSeq(ps)
    BY <1>1 DEF InFileOrder
  <2> QED BY <2>1, <2>2, SeqMap
<1> QED BY <1>1, <1>2, <1>3, <1>5, <1>6 DEF SameProcedures

\* What holds of the places in the file holds of symbols at the same places.
LEMMA SameWithin ==
    ASSUME NEW s, NEW t, NEW from, NEW to, Within(s, from, to), SameSymbols(t, s)
    PROVE  Within(t, from, to)
PROOF BY DEF Within, SameSymbols, Symbols, Same

\* What holds of procedures and globals holds of others in the same places.
LEMMA SamePlaces ==
    ASSUME NEW ps, NEW qs, NEW vs, NEW ws, InFileOrder(ps), Symbols(vs), Outside(vs, ps),
           SameProcedures(qs, ps), SameSymbols(ws, vs)
    PROVE  InFileOrder(qs) /\ Symbols(ws) /\ Outside(ws, qs)
PROOF
<1>1. ASSUME NEW k \in DOMAIN qs PROVE Closed(qs[k])
  <2>1. k \in DOMAIN ps /\ SameProcedure(qs[k], ps[k]) /\ Closed(ps[k])
    BY DEF SameProcedures, InFileOrder
  <2>2. /\ Within(qs[k].params, ps[k].first, ps[k].end)
        /\ Within(qs[k].locals, ps[k].first, ps[k].end)
    BY <2>1, SameWithin DEF SameProcedure, Closed, Holds
  <2> QED BY <2>1, <2>2 DEF SameProcedure, Closed, Holds
<1>2. IsSeq(qs)
  BY DEF SameProcedures
<1>3. \A k, n \in DOMAIN qs : n < k => qs[n].end <= qs[k].first
  BY DEF SameProcedures, SameProcedure, InFileOrder
<1>4. Symbols(ws)
  BY DEF SameSymbols, Symbols, Same
<1>5. Outside(ws, qs)
  BY DEF Outside, SameProcedures, SameProcedure, SameSymbols, Same
<1> QED BY <1>1, <1>2, <1>3, <1>4, <1>5 DEF InFileOrder

-----------------------------------------------------------------------------
(* The inductive invariant.                                                *)

\* What has been found so far.
Found ==
    /\ InFileOrder(procedures) /\ Symbols(variables) /\ Outside(variables, procedures)
    /\ Ascending(anchors)
\* The passes run one after the other.
InTurn ==
    /\ phase \in {"open", "primitives"} => procedures = <<>>
    /\ phase \in {"open", "primitives", "procedures", "locals"} => variables = <<>>
    /\ phase \in {"open", "primitives", "procedures", "locals", "globals"} => anchors = <<>>
\* What has been found lies before the cursor.
AtPrimitive == phase = "primitives" => pos + 3 <= Size
AtFunction  == phase = "procedures" => Behind(procedures, pos)
AtLocal ==
    phase = "locals" =>
        /\ Framed(current) /\ current.first < pos
        /\ Holds(current, current.first, pos) /\ Behind(procedures, current.first)
AtAnchor == phase = "anchors" => \A k \in DOMAIN anchors : anchors[k].at < pos
\* The cursor never runs far past its unit's table.
AtTable ==
    phase = "tables" =>
        /\ IsSeq(tables) /\ Len(tables) <= Len(anchors)
        /\ tables = <<>> => anchors = <<>>
        /\ tables # <<>> => pos <= TableLow \/ pos <= TableHigh

Inv ==
    /\ buf \in Files /\ pos \in Nat /\ phase \in Phases
    /\ Found /\ InTurn
    /\ AtPrimitive /\ AtFunction /\ AtLocal /\ AtAnchor /\ AtTable

\* The step of CursorAdvances.
Advances ==
    \/ phase' # phase /\ ~({phase, phase'} \subseteq {"procedures", "locals"})
    \/ pos' > pos
    \/ phase = "locals" /\ phase' = "procedures" /\ pos' = pos /\ pos > current.first

\* Inv at the start.
LEMMA InitInv == Init => Inv
PROOF
<1> SUFFICES ASSUME Init PROVE Inv
  OBVIOUS
<1> USE DEF Init
<1>1. PICK e : e = <<>>
  OBVIOUS
<1>2. IsSeq(e) /\ DOMAIN e = {}
  BY <1>1, EmptyIsSeq
<1>3. InFileOrder(e) /\ Symbols(e) /\ Outside(e, e) /\ Ascending(e)
  BY <1>2 DEF InFileOrder, Symbols, Outside, Ascending
<1>4. Found /\ InTurn
  BY <1>1, <1>3 DEF Found, InTurn
<1> QED BY <1>4 DEF Inv, Phases, AtPrimitive, AtFunction, AtLocal, AtAnchor, AtTable

-----------------------------------------------------------------------------
(* The primitives.                                                         *)

\* Where the scan of procedures starts.
LEMMA ScanStart ==
    ASSUME buf \in Files
    PROVE  Min({ProceduresStart, Size}) \in Nat
PROOF
<1>1. Size \in Int /\ ProceduresStart \in Int /\ Size >= 0
  BY ByteType DEF ProceduresStart
<1> QED BY <1>1, MinOfTwo DEF ProceduresStart

\* FindBoolean keeps Inv.
LEMMA FindBooleanStep ==
    ASSUME Inv, FindBoolean
    PROVE  Inv' /\ Advances
PROOF
<1>1. pos' \in Nat /\ pos' + 3 <= Size
  <2> DEFINE top == Min({Size, 64512})
             S == BooleanAt
  <2>1. buf \in Files /\ Size \in Nat
    BY ByteType DEF Inv
  <2>2. top \in Int /\ top <= Size
    <3>1. top = IF Size <= 64512 THEN Size ELSE 64512
      BY <2>1, MinOfTwo
    <3> HIDE DEF top
    <3> QED BY <2>1, <3>1
  <2>3. \A i \in S : i \in 0..(top - 12)
    BY DEF BooleanAt
  <2>4. S # {} /\ pos' = Min(S)
    BY DEF FindBoolean
  <2> HIDE DEF top, S
  <2>5. S \in SUBSET Nat
    BY <2>2, <2>3
  <2>6. Min(S) \in S
    BY <2>4, <2>5, MinIsLeast
  <2> QED BY <2>1, <2>2, <2>3, <2>4, <2>6
<1>2. Found' /\ InTurn'
  BY DEF Inv, FindBoolean, Found, InTurn, unitVars
<1> QED BY <1>1, <1>2
        DEF Inv, FindBoolean, Phases, AtPrimitive, AtFunction, AtLocal, AtAnchor, AtTable,
            Advances, Size

\* NoBoolean keeps Inv.
LEMMA NoBooleanStep ==
    ASSUME Inv, NoBoolean
    PROVE  Inv' /\ Advances
PROOF
<1>1. pos' \in Nat
  BY ScanStart DEF Inv, NoBoolean
<1>2. Found' /\ InTurn' /\ procedures' = <<>>
  BY DEF Inv, NoBoolean, Found, InTurn, unitVars
<1>3. AtFunction'
  BY <1>2, EmptyIsSeq DEF AtFunction, Behind
<1> QED BY <1>1, <1>2, <1>3
        DEF Inv, NoBoolean, Phases, AtPrimitive, AtLocal, AtAnchor, AtTable, Advances

\* TakePrimitive keeps Inv.
LEMMA TakePrimitiveStep ==
    ASSUME Inv, TakePrimitive
    PROVE  Inv' /\ Advances
PROOF
<1>1. buf \in Files /\ pos \in Nat /\ pos + 3 <= Size
  BY DEF Inv, TakePrimitive, AtPrimitive
<1>2. Found' /\ InTurn' /\ procedures' = <<>>
  BY DEF Inv, TakePrimitive, Found, InTurn, unitVars
<1>3. CASE phase' = "primitives" /\ RecordStops(pos) # {} /\ pos' = RecordEnd(pos)
  <2> DEFINE S == RecordStops(pos)
             m == Min(S)
  <2>1. NameEnd(pos) \in Nat /\ pos < NameEnd(pos)
    <3>1. pos + 1 \in Nat /\ pos + 1 < Size
      BY <1>1, ByteType
    <3>2. Byte(pos + 1) \in 0..255
      BY <1>1, <3>1, ByteType
    <3>3. Byte(pos + 1) \in Nat
      BY <3>2
    <3> QED BY <1>1, <3>3, NameEndBehind
  <2>2. \A i \in S : i \in Nat /\ pos < i
    BY <1>1, <2>1 DEF RecordStops
  <2>3. S # {} /\ S \in SUBSET Nat
    <3>1. S # {}
      BY <1>3
    <3> HIDE DEF S
    <3> QED BY <2>2, <3>1
  <2>4. m \in S
    <3> HIDE DEF S
    <3> QED BY <2>3, MinIsLeast
  <2>5. LooksLikePrimitive(m + 1)
    BY <2>4 DEF RecordStops
  <2>6. pos' = m + 1
    BY <1>3 DEF RecordEnd
  <2>7. m \in Nat /\ pos < m /\ pos' + 3 <= Size
    <3> HIDE DEF S, m
    <3> QED BY <2>2, <2>4, <2>5, <2>6 DEF LooksLikePrimitive
  <2>8. pos' \in Nat /\ pos' > pos
    <3> HIDE DEF m
    <3> QED BY <1>1, <2>6, <2>7
  <2> QED BY <1>2, <1>3, <2>7, <2>8
          DEF Inv, TakePrimitive, Phases, AtPrimitive, AtFunction, AtLocal, AtAnchor, AtTable,
              Advances, Size
<1>4. CASE phase' = "procedures" /\ pos' = Min({ProceduresStart, Size})
  <2>1. pos' \in Nat
    BY <1>1, <1>4, ScanStart
  <2>2. AtFunction'
    BY <1>2, EmptyIsSeq DEF AtFunction, Behind
  <2> QED BY <1>2, <1>4, <2>1, <2>2
          DEF Inv, TakePrimitive, Phases, AtPrimitive, AtLocal, AtAnchor, AtTable, Advances
<1> QED BY <1>3, <1>4 DEF TakePrimitive

-----------------------------------------------------------------------------
(* The procedures.                                                         *)

\* What the pass over procedures and globals leaves alone.
Kept == UNCHANGED <<buf, unitVars>>

\* What lies behind the cursor stays behind it as it goes on.
LEMMA BehindLater ==
    ASSUME NEW ps, InFileOrder(ps), NEW i \in Nat, NEW j \in Nat, i <= j, Behind(ps, i)
    PROVE  Behind(ps, j)
PROOF
<1> SUFFICES ASSUME NEW k \in DOMAIN ps PROVE ps[k].end <= j
  BY DEF Behind
<1>1. ps[k].end \in Nat /\ ps[k].end <= i
  BY DEF InFileOrder, Closed, Framed, Behind
<1> QED BY <1>1

\* What lies inside a procedure stays inside as it grows.
LEMMA WithinLater ==
    ASSUME NEW s, NEW from, NEW to \in Nat, NEW later \in Nat, Within(s, from, to),
           to <= later
    PROVE  Within(s, from, later)
PROOF
<1> SUFFICES ASSUME NEW i \in DOMAIN s PROVE s[i].at < later
  BY DEF Within
<1>1. s[i].at \in Nat /\ s[i].at < to
  BY DEF Within, Symbols, Symbol
<1> QED BY <1>1

\* A closed procedure behind all the others goes to their end.
LEMMA OneMore ==
    ASSUME NEW ps, InFileOrder(ps), NEW p, Closed(p), Behind(ps, p.first)
    PROVE  /\ InFileOrder(Append(ps, p))
           /\ \A i \in Nat : p.end <= i => Behind(Append(ps, p), i)
PROOF
<1>1. PICK qs : qs = Append(ps, p)
  OBVIOUS
<1>2. PICK n : n = Len(ps)
  OBVIOUS
<1>3. IsSeq(ps) /\ n \in Nat /\ DOMAIN ps = 1..n
  BY <1>2, SeqDomain DEF InFileOrder
<1>4. /\ IsSeq(qs) /\ DOMAIN qs = 1..(n + 1) /\ qs[n + 1] = p
      /\ \A i \in 1..n : qs[i] = ps[i]
  <2>1. Extends(qs, ps, p)
    BY <1>1, <1>3, SeqAppend
  <2> QED BY <1>2, <2>1 DEF Extends
<1>5. \A k \in 1..(n + 1) : k = n + 1 \/ k \in 1..n
  BY <1>3
<1>6. \A k \in DOMAIN qs : Closed(qs[k])
  BY <1>3, <1>4, <1>5 DEF InFileOrder
<1>7. ASSUME NEW k \in DOMAIN qs, NEW j \in DOMAIN qs, j < k
      PROVE  qs[j].end <= qs[k].first
  <2>1. j \in 1..n
    BY <1>3, <1>4, <1>7
  <2>2. CASE k = n + 1
    BY <1>3, <1>4, <2>1, <2>2 DEF Behind
  <2>3. CASE k \in 1..n
    BY <1>3, <1>4, <1>7, <2>1, <2>3 DEF InFileOrder
  <2> QED BY <1>4, <1>5, <2>2, <2>3
<1>8. ASSUME NEW i \in Nat, p.end <= i PROVE Behind(qs, i)
  <2>1. p.first \in Nat /\ p.end \in Nat /\ p.first <= i
    <3>1. p.first \in Nat /\ p.end \in Nat /\ p.first < p.end
      BY DEF Closed, Framed
    <3> QED BY <1>8, <3>1
  <2>2. Behind(ps, i)
    BY <2>1, BehindLater
  <2> QED BY <1>3, <1>4, <1>5, <1>8, <2>2 DEF Behind
<1> QED BY <1>1, <1>4, <1>6, <1>7, <1>8 DEF InFileOrder

\* Before the globals pass there are no globals.
LEMMA NoneYet ==
    ASSUME Inv, phase \in {"procedures", "locals"}
    PROVE  /\ variables = <<>> /\ anchors = <<>>
           /\ \A ps : Outside(<<>>, ps)
PROOF
<1>1. variables = <<>> /\ anchors = <<>>
  BY DEF Inv, InTurn
<1> QED BY <1>1, EmptyIsSeq DEF Outside

\* SkipToFunction keeps Inv.
LEMMA SkipToFunctionStep ==
    ASSUME Inv, SkipToFunction, Kept
    PROVE  Inv' /\ Advances
PROOF
<1>1. pos \in Nat /\ pos' \in Nat /\ pos < pos' /\ pos <= pos'
  BY DEF Inv, SkipToFunction
<1>2. Behind(procedures, pos')
  BY <1>1, BehindLater DEF Inv, Found, SkipToFunction, AtFunction
<1>3. Found' /\ InTurn'
  BY DEF Inv, SkipToFunction, Kept, Found, InTurn, unitVars
<1> QED BY <1>1, <1>2, <1>3
        DEF Inv, SkipToFunction, Kept, Phases, AtPrimitive, AtFunction, AtLocal, AtAnchor,
            AtTable, Advances

\* EmptyFunction keeps Inv.
LEMMA EmptyFunctionStep ==
    ASSUME Inv, EmptyFunction, Kept
    PROVE  Inv' /\ Advances
PROOF
<1>1. pos \in Nat /\ pos' \in Nat /\ pos < pos'
  <2>1. Min(AfterTrailer(pos)) \in Nat /\ pos < Min(AfterTrailer(pos))
    BY TrailerBehind DEF Inv, EmptyFunction
  <2>2. pos \in Nat /\ pos' = Min(AfterTrailer(pos)) + 1
    BY DEF Inv, EmptyFunction
  <2> QED BY <2>1, <2>2
<1>2. PICK p : p = [Procedure(pos) EXCEPT !.end = pos']
  OBVIOUS
<1>3. /\ p.first = pos /\ p.end = pos' /\ p.params = <<>> /\ p.locals = <<>>
      /\ {"first", "end", "params", "locals"} \subseteq DOMAIN p
  BY <1>2 DEF Procedure
<1>4. Closed(p)
  <2>1. PICK e : e = <<>>
    OBVIOUS
  <2>2. Within(e, p.first, p.end)
    BY <2>1, EmptyIsSeq DEF Within, Symbols
  <2> QED BY <1>1, <1>3, <2>1, <2>2 DEF Closed, Framed, Holds
<1>5. InFileOrder(procedures') /\ Behind(procedures', pos')
  <2>1. procedures' = Append(procedures, p)
    BY <1>2 DEF EmptyFunction
  <2>2. InFileOrder(procedures) /\ Behind(procedures, p.first)
    BY <1>3 DEF Inv, Found, EmptyFunction, AtFunction
  <2> QED BY <1>1, <1>3, <1>4, <2>1, <2>2, OneMore
<1>6. Found' /\ InTurn'
  <2>1. variables = <<>> /\ anchors = <<>> /\ Outside(variables, procedures')
    BY NoneYet DEF EmptyFunction
  <2> QED BY <1>5, <2>1 DEF Inv, EmptyFunction, Kept, Found, InTurn, unitVars
<1> QED BY <1>1, <1>5, <1>6
        DEF Inv, EmptyFunction, Kept, Phases, AtPrimitive, AtFunction, AtLocal, AtAnchor,
            AtTable, Advances

\* OpenFunction keeps Inv.
LEMMA OpenFunctionStep ==
    ASSUME Inv, OpenFunction, Kept
    PROVE  Inv' /\ Advances
PROOF
<1>1. pos \in Nat /\ pos' \in Nat /\ pos < pos'
  <2>1. Min(AfterTrailer(pos)) \in Nat /\ pos < Min(AfterTrailer(pos))
    BY TrailerBehind DEF Inv, OpenFunction
  <2>2. pos \in Nat /\ pos' = Min(AfterTrailer(pos))
    BY DEF Inv, OpenFunction
  <2> QED BY <2>1, <2>2
<1>2. PICK p : p = current'
  OBVIOUS
<1>3. /\ p.first = pos /\ p.end = pos /\ p.params = <<>> /\ p.locals = <<>>
      /\ {"first", "end", "params", "locals"} \subseteq DOMAIN p
  BY <1>2 DEF OpenFunction, Procedure
<1>4. Framed(p) /\ Holds(p, p.first, pos')
  <2>1. PICK e : e = <<>>
    OBVIOUS
  <2>2. Within(e, p.first, pos')
    BY <2>1, EmptyIsSeq DEF Within, Symbols
  <2> QED BY <1>1, <1>3, <2>1, <2>2 DEF Framed, Holds
<1>5. Found' /\ InTurn'
  BY DEF Inv, OpenFunction, Kept, Found, InTurn, unitVars
<1>6. AtLocal'
  <2>1. procedures' = procedures /\ Behind(procedures, pos)
    BY DEF Inv, OpenFunction, AtFunction
  <2> QED BY <1>1, <1>2, <1>3, <1>4, <2>1 DEF AtLocal
<1> QED BY <1>1, <1>5, <1>6
        DEF Inv, OpenFunction, Kept, Phases, AtPrimitive, AtFunction, AtAnchor, AtTable,
            Advances

\* A parameter or a local more, before the place the walk goes on at.
LEMMA OneMoreSymbol ==
    ASSUME NEW s, NEW v, NEW from \in Nat, NEW to \in Nat, Within(s, from, to),
           Symbol(v), from < v.at, v.at < to
    PROVE  Within(Append(s, v), from, to)
PROOF
<1>1. PICK t : t = Append(s, v)
  OBVIOUS
<1>2. PICK n : n = Len(s)
  OBVIOUS
<1>3. IsSeq(s) /\ n \in Nat /\ DOMAIN s = 1..n
  BY <1>2, SeqDomain DEF Within, Symbols
<1>4. /\ IsSeq(t) /\ DOMAIN t = 1..(n + 1) /\ t[n + 1] = v
      /\ \A i \in 1..n : t[i] = s[i]
  <2>1. Extends(t, s, v)
    BY <1>1, <1>3, SeqAppend
  <2> QED BY <1>2, <2>1 DEF Extends
<1>5. \A i \in 1..(n + 1) : i = n + 1 \/ i \in 1..n
  BY <1>3
<1>6. \A i \in DOMAIN t : Symbol(t[i]) /\ from < t[i].at /\ t[i].at < to
  BY <1>3, <1>4, <1>5 DEF Within, Symbols
<1> QED BY <1>1, <1>4, <1>6 DEF Within, Symbols

\* TakeSub keeps Inv.
LEMMA TakeSubStep ==
    ASSUME Inv, TakeSub, Kept
    PROVE  Inv' /\ Advances
PROOF
<1>1. PICK s : s = Anchored(pos)
  OBVIOUS
<1>2. IsSub(s) /\ pos' = SubEnd(s)
  BY <1>1 DEF TakeSub
<1>3. buf \in Files /\ pos \in Nat /\ phase = "locals" /\ pos + 8 < Size
  BY DEF Inv, TakeSub
<1>4. s \in Nat /\ pos <= s
  BY <1>1, <1>3, AnchoredBehind
<1>5. pos' \in Nat /\ s < pos'
  BY <1>2, <1>3, <1>4, SubBehind
<1>6. PICK v : v = Sub(s)
  OBVIOUS
<1>7. Symbol(v) /\ v.at = s
  BY <1>4, <1>6 DEF Sub, Symbol
<1>8. PICK c : c = current
  OBVIOUS
<1>9. PICK d : d = current'
  OBVIOUS
<1>10. Framed(c) /\ c.first < pos /\ Holds(c, c.first, pos) /\ Behind(procedures, c.first)
  BY <1>3, <1>8 DEF Inv, AtLocal
<1>11. c.first \in Nat /\ c.first < s /\ pos <= pos' /\ pos < pos'
  BY <1>3, <1>4, <1>5, <1>10 DEF Framed
<1>12. /\ Within(c.params, c.first, pos') /\ Within(c.locals, c.first, pos')
       /\ Within(Append(c.params, v), c.first, pos')
       /\ Within(Append(c.locals, v), c.first, pos')
  <2>1. Within(c.params, c.first, pos') /\ Within(c.locals, c.first, pos')
    BY <1>3, <1>5, <1>10, <1>11, WithinLater DEF Holds
  <2> QED BY <1>5, <1>7, <1>11, <2>1, OneMoreSymbol
<1>13. /\ d = [c EXCEPT !.locals = Append(@, v)] \/ d = [c EXCEPT !.params = Append(@, v)]
  BY <1>1, <1>6, <1>8, <1>9 DEF TakeSub
<1>14. Framed(d) /\ d.first = c.first /\ Holds(d, d.first, pos')
  <2>1. CASE d = [c EXCEPT !.locals = Append(@, v)]
    <3>1. /\ DOMAIN d = DOMAIN c /\ d.first = c.first /\ d.end = c.end
          /\ d.params = c.params /\ d.locals = Append(c.locals, v)
      BY <1>10, <2>1 DEF Framed
    <3> QED BY <1>10, <1>12, <3>1 DEF Framed, Holds
  <2>2. CASE d = [c EXCEPT !.params = Append(@, v)]
    <3>1. /\ DOMAIN d = DOMAIN c /\ d.first = c.first /\ d.end = c.end
          /\ d.locals = c.locals /\ d.params = Append(c.params, v)
      BY <1>10, <2>2 DEF Framed
    <3> QED BY <1>10, <1>12, <3>1 DEF Framed, Holds
  <2> QED BY <1>13, <2>1, <2>2
<1>15. Found' /\ InTurn'
  BY DEF Inv, TakeSub, Kept, Found, InTurn, unitVars
<1>16. AtLocal'
  <2>1. procedures' = procedures
    BY DEF TakeSub
  <2>2. d.first < pos'
    BY <1>4, <1>5, <1>11, <1>14
  <2> QED BY <1>9, <1>10, <1>14, <2>1, <2>2 DEF AtLocal
<1>17. phase' = phase /\ buf' = buf
  BY DEF TakeSub, Kept
<1> QED BY <1>3, <1>5, <1>11, <1>15, <1>16, <1>17
        DEF Inv, Phases, AtPrimitive, AtFunction, AtAnchor, AtTable, Advances

\* SkipDescriptor keeps Inv.
LEMMA SkipDescriptorStep ==
    ASSUME Inv, SkipDescriptor, Kept
    PROVE  Inv' /\ Advances
PROOF
<1>1. PICK s : s = Anchored(pos)
  OBVIOUS
<1>2. buf \in Files /\ pos \in Nat /\ phase = "locals" /\ pos + 8 < Size
  BY DEF Inv, SkipDescriptor
<1>3. s \in Nat /\ pos <= s
  BY <1>1, <1>2, AnchoredBehind
<1>4. Farther(s) # {} /\ pos' = Min(Farther(s))
  BY <1>1 DEF SkipDescriptor
<1>5. pos' \in Nat /\ s < pos'
  BY <1>3, <1>4, FartherBehind
<1>6. pos <= pos' /\ pos < pos'
  BY <1>2, <1>3, <1>5
<1>7. PICK c : c = current /\ c = current'
  BY DEF SkipDescriptor
<1>8. Framed(c) /\ c.first < pos /\ Holds(c, c.first, pos) /\ Behind(procedures, c.first)
  BY <1>2, <1>7 DEF Inv, AtLocal
<1>9. c.first < pos' /\ Holds(c, c.first, pos')
  <2>1. c.first \in Nat
    BY <1>8 DEF Framed
  <2>2. Holds(c, c.first, pos')
    BY <1>2, <1>5, <1>6, <1>8, WithinLater DEF Holds
  <2>3. c.first < pos'
    BY <1>2, <1>5, <1>6, <1>8, <2>1
  <2> QED BY <2>2, <2>3
<1>10. Found' /\ InTurn'
  BY DEF Inv, SkipDescriptor, Kept, Found, InTurn, unitVars
<1>11. AtLocal'
  <2>1. procedures' = procedures
    BY DEF SkipDescriptor
  <2> QED BY <1>7, <1>8, <1>9, <2>1 DEF AtLocal
<1>12. phase' = phase /\ buf' = buf
  BY DEF SkipDescriptor, Kept
<1> QED BY <1>2, <1>5, <1>6, <1>10, <1>11, <1>12
        DEF Inv, Phases, AtPrimitive, AtFunction, AtAnchor, AtTable, Advances

\* CloseFunction keeps Inv.
LEMMA CloseFunctionStep ==
    ASSUME Inv, CloseFunction, Kept
    PROVE  Inv' /\ Advances
PROOF
<1>1. buf \in Files /\ pos \in Nat /\ phase = "locals" /\ pos' = StopsAt(pos)
  BY DEF Inv, CloseFunction
<1>2. pos' \in Nat /\ pos <= pos'
  BY <1>1, StopsBehind
<1>3. PICK c : c = current
  OBVIOUS
<1>4. Framed(c) /\ c.first < pos /\ Holds(c, c.first, pos) /\ Behind(procedures, c.first)
  BY <1>1, <1>3 DEF Inv, AtLocal
<1>5. c.first \in Nat /\ c.first < pos'
  <2>1. c.first \in Nat
    BY <1>4 DEF Framed
  <2> QED BY <1>1, <1>2, <1>4, <2>1
<1>6. PICK p : p = [c EXCEPT !.end = pos']
  OBVIOUS
<1>7. /\ DOMAIN p = DOMAIN c /\ p.first = c.first /\ p.end = pos'
      /\ p.params = c.params /\ p.locals = c.locals
  BY <1>4, <1>6 DEF Framed
<1>8. Closed(p)
  <2>1. Holds(c, c.first, pos')
    BY <1>1, <1>2, <1>4, WithinLater DEF Holds
  <2> QED BY <1>2, <1>4, <1>5, <1>7, <2>1 DEF Closed, Framed, Holds
<1>9. InFileOrder(procedures') /\ Behind(procedures', pos')
  <2>1. procedures' = Append(procedures, p)
    BY <1>3, <1>6 DEF CloseFunction
  <2>2. InFileOrder(procedures) /\ Behind(procedures, p.first)
    BY <1>4, <1>7 DEF Inv, Found
  <2>3. pos' <= pos'
    BY <1>2
  <2> QED BY <1>2, <1>7, <1>8, <2>1, <2>2, <2>3, OneMore
<1>10. Found' /\ InTurn'
  <2>1. variables = <<>> /\ anchors = <<>> /\ Outside(variables, procedures')
    BY <1>1, NoneYet
  <2> QED BY <1>9, <2>1 DEF Inv, CloseFunction, Kept, Found, InTurn, unitVars
<1>11. phase' = "procedures" /\ buf' = buf
  BY DEF CloseFunction, Kept
<1>12. Advances
  <2>1. CASE pos' = pos
    BY <1>1, <1>3, <1>4, <1>11, <2>1 DEF Advances
  <2>2. CASE pos' # pos
    BY <1>1, <1>2, <2>2 DEF Advances
  <2> QED BY <2>1, <2>2
<1> QED BY <1>2, <1>9, <1>10, <1>11, <1>12
        DEF Inv, Phases, AtPrimitive, AtFunction, AtLocal, AtAnchor, AtTable

\* ProceduresDone keeps Inv.
LEMMA ProceduresDoneStep ==
    ASSUME Inv, ProceduresDone, Kept
    PROVE  Inv' /\ Advances
PROOF
<1>1. Found' /\ InTurn'
  BY DEF Inv, ProceduresDone, Kept, Found, InTurn, unitVars
<1> QED BY <1>1
        DEF Inv, ProceduresDone, Kept, Phases, AtPrimitive, AtFunction, AtLocal, AtAnchor,
            AtTable, Advances, ProceduresStart

-----------------------------------------------------------------------------
(* The globals.                                                            *)

\* What the binary search of isInsideProcedure misses lies in no procedure: the
\* last one that begins before i is the only one that may reach past it.
LEMMA OutsideAll ==
    ASSUME InFileOrder(procedures), NEW i \in Nat, ~IsInsideProcedure(i)
    PROVE  \A k \in DOMAIN procedures :
              ~(procedures[k].first <= i /\ i < procedures[k].end)
PROOF
<1>1. PICK ps : ps = procedures
  OBVIOUS
<1> DEFINE before == {k \in DOMAIN ps : ps[k].first <= i}
           last == Max(before)
<1>2. before = {} \/ ~(i < ps[last].end)
  BY <1>1 DEF IsInsideProcedure
<1>3. Len(ps) \in Nat /\ DOMAIN ps = 1..Len(ps)
  BY <1>1, SeqDomain DEF InFileOrder
<1> SUFFICES ASSUME NEW k \in DOMAIN ps, ps[k].first <= i, i < ps[k].end PROVE FALSE
  BY <1>1
<1>4. k \in before /\ before \in SUBSET Nat /\ \A n \in before : n <= Len(ps)
  BY <1>3
<1>5. \A n \in before : n \in DOMAIN ps /\ ps[n].first <= i
  OBVIOUS
<1> HIDE DEF before
<1>6. last \in before /\ k <= last
  BY <1>3, <1>4, MaxIsGreatest
<1>7. last \in DOMAIN ps /\ ps[last].first <= i /\ ~(i < ps[last].end)
  BY <1>2, <1>4, <1>5, <1>6
<1> HIDE DEF last
<1>8. CASE k = last
  BY <1>7, <1>8
<1>9. CASE k # last
  <2>1. k < last
    BY <1>3, <1>6, <1>7, <1>9
  <2>2. ps[k].end <= ps[last].first
    BY <1>1, <1>7, <2>1 DEF InFileOrder
  <2>3. ps[k].end \in Nat /\ ps[last].first \in Nat
    BY <1>1, <1>7 DEF InFileOrder, Closed, Framed
  <2> QED BY <1>7, <2>2, <2>3
<1> QED BY <1>8, <1>9

\* SkipToGlobal keeps Inv.
LEMMA SkipToGlobalStep ==
    ASSUME Inv, SkipToGlobal, Kept
    PROVE  Inv' /\ Advances
PROOF
<1>1. pos \in Nat /\ pos' \in Nat /\ pos < pos'
  BY DEF Inv, SkipToGlobal
<1>2. Found' /\ InTurn'
  BY DEF Inv, SkipToGlobal, Kept, Found, InTurn, unitVars
<1> QED BY <1>1, <1>2
        DEF Inv, SkipToGlobal, Kept, Phases, AtPrimitive, AtFunction, AtLocal, AtAnchor,
            AtTable, Advances

\* TakeGlobal keeps Inv.
LEMMA TakeGlobalStep ==
    ASSUME Inv, TakeGlobal, Kept
    PROVE  Inv' /\ Advances
PROOF
<1>1. pos \in Nat /\ IsGlobal(pos) /\ phase = "globals" /\ pos' = GlobalEnd(pos)
  BY DEF Inv, TakeGlobal
<1>2. pos' \in Nat /\ pos < pos'
  BY <1>1, GlobalBehind
<1>3. PICK v : v = Global(pos)
  OBVIOUS
<1>4. Symbol(v) /\ v.at = pos
  BY <1>1, <1>3 DEF Global, Symbol
<1>5. PICK vs : vs = variables
  OBVIOUS
<1>6. PICK ws : ws = Append(vs, v)
  OBVIOUS
<1>7. PICK n : n = Len(vs)
  OBVIOUS
<1>8. Symbols(vs) /\ Outside(vs, procedures) /\ InFileOrder(procedures)
  BY <1>5 DEF Inv, Found
<1>9. n \in Nat /\ DOMAIN vs = 1..n
  BY <1>7, <1>8, SeqDomain DEF Symbols
<1>10. /\ IsSeq(ws) /\ DOMAIN ws = 1..(n + 1) /\ ws[n + 1] = v
       /\ \A i \in 1..n : ws[i] = vs[i]
  <2>1. Extends(ws, vs, v)
    BY <1>6, <1>8, SeqAppend DEF Symbols
  <2> QED BY <1>7, <2>1 DEF Extends
<1>11. \A i \in 1..(n + 1) : i = n + 1 \/ i \in 1..n
  BY <1>9
<1>12. Symbols(ws)
  BY <1>4, <1>8, <1>9, <1>10, <1>11 DEF Symbols
<1>13. Outside(ws, procedures)
  <2>1. \A k \in DOMAIN procedures :
           ~(procedures[k].first <= v.at /\ v.at < procedures[k].end)
    <3>1. ~IsInsideProcedure(pos)
      BY <1>1 DEF IsGlobal
    <3> QED BY <1>1, <1>4, <1>8, <3>1, OutsideAll
  <2> QED BY <1>8, <1>9, <1>10, <1>11, <2>1 DEF Outside
<1>14. procedures' = procedures /\ variables' = ws /\ phase' = phase /\ anchors' = anchors
  BY <1>3, <1>5, <1>6 DEF TakeGlobal, Kept, unitVars
<1>15. Found' /\ InTurn'
  BY <1>1, <1>8, <1>12, <1>13, <1>14 DEF Inv, Found, InTurn
<1> QED BY <1>1, <1>2, <1>14, <1>15
        DEF Inv, Kept, Phases, AtPrimitive, AtFunction, AtLocal, AtAnchor, AtTable, Advances

\* GlobalsDone keeps Inv.
LEMMA GlobalsDoneStep ==
    ASSUME Inv, GlobalsDone, Kept
    PROVE  Inv' /\ Advances
PROOF
<1>1. anchors' = <<>> /\ phase' = "anchors" /\ DOMAIN anchors' = {}
  BY EmptyIsSeq DEF Inv, InTurn, GlobalsDone, Kept, unitVars
<1>2. Found' /\ InTurn'
  BY DEF Inv, GlobalsDone, Kept, Found, InTurn, unitVars
<1> QED BY <1>1, <1>2
        DEF Inv, GlobalsDone, Kept, Phases, AtPrimitive, AtFunction, AtLocal, AtAnchor,
            AtTable, Advances, MetadataStart

-----------------------------------------------------------------------------
(* The units.                                                              *)

\* SkipToAnchor keeps Inv.
LEMMA SkipToAnchorStep ==
    ASSUME Inv, SkipToAnchor, UNCHANGED buf
    PROVE  Inv' /\ Advances
PROOF
<1>1. pos \in Nat /\ pos' \in Nat /\ pos < pos' /\ phase = "anchors" /\ phase' = phase
  BY DEF Inv, SkipToAnchor
<1>2. Found' /\ InTurn'
  BY DEF Inv, SkipToAnchor, Found, InTurn, unitVars
<1>3. AtAnchor'
  <2> SUFFICES ASSUME NEW k \in DOMAIN anchors PROVE anchors[k].at < pos'
    BY DEF AtAnchor, SkipToAnchor, unitVars
  <2>1. anchors[k].at \in Nat /\ anchors[k].at < pos
    BY <1>1 DEF Inv, AtAnchor, Found, Ascending, Symbols, Symbol
  <2> QED BY <1>1, <2>1
<1> QED BY <1>1, <1>2, <1>3
        DEF Inv, Phases, AtPrimitive, AtFunction, AtLocal, AtTable, Advances

\* TakeAnchor keeps Inv.
LEMMA TakeAnchorStep ==
    ASSUME Inv, TakeAnchor, UNCHANGED buf
    PROVE  Inv' /\ Advances
PROOF
<1>1. pos \in Nat /\ phase = "anchors" /\ phase' = phase /\ IsAnchor(pos)
      /\ pos' = NameEnd(pos)
  BY DEF Inv, TakeAnchor
<1>2. pos' \in Nat /\ pos < pos'
  <2>1. Byte(pos + 1) \in 2..40
    BY <1>1 DEF IsAnchor
  <2>2. Byte(pos + 1) \in Nat
    BY <2>1
  <2> QED BY <1>1, <2>2, NameEndBehind
<1>3. PICK v : v = [at |-> pos, name |-> NameOf(pos)]
  OBVIOUS
<1>4. Symbol(v) /\ v.at = pos
  BY <1>1, <1>3 DEF Symbol
<1>5. PICK s : s = anchors
  OBVIOUS
<1>6. PICK t : t = Append(s, v)
  OBVIOUS
<1>7. PICK n : n = Len(s)
  OBVIOUS
<1>8. Ascending(s) /\ \A k \in DOMAIN s : s[k].at < pos
  BY <1>1, <1>5 DEF Inv, Found, AtAnchor
<1>9. n \in Nat /\ DOMAIN s = 1..n
  BY <1>7, <1>8, SeqDomain DEF Ascending, Symbols
<1>10. /\ IsSeq(t) /\ DOMAIN t = 1..(n + 1) /\ t[n + 1] = v
       /\ \A i \in 1..n : t[i] = s[i]
  <2>1. Extends(t, s, v)
    BY <1>6, <1>8, SeqAppend DEF Ascending, Symbols
  <2> QED BY <1>7, <2>1 DEF Extends
<1>11. \A i \in 1..(n + 1) : i = n + 1 \/ i \in 1..n
  BY <1>9
<1>12. Symbols(t)
  BY <1>4, <1>8, <1>9, <1>10, <1>11 DEF Ascending, Symbols
<1>13. \A k, i \in DOMAIN t : i < k => t[i].at < t[k].at
  <2> SUFFICES ASSUME NEW k \in DOMAIN t, NEW i \in DOMAIN t, i < k
               PROVE  t[i].at < t[k].at
    OBVIOUS
  <2>1. i \in 1..n
    BY <1>9, <1>10
  <2>2. CASE k = n + 1
    BY <1>4, <1>8, <1>9, <1>10, <2>1, <2>2
  <2>3. CASE k \in 1..n
    BY <1>8, <1>9, <1>10, <2>1, <2>3 DEF Ascending
  <2> QED BY <1>10, <1>11, <2>2, <2>3
<1>14. \A k \in DOMAIN t : t[k].at < pos'
  <2> SUFFICES ASSUME NEW k \in DOMAIN t PROVE t[k].at < pos'
    OBVIOUS
  <2>1. t[k].at \in Nat /\ t[k].at <= pos
    <3>1. CASE k = n + 1
      BY <1>1, <1>4, <1>10, <3>1
    <3>2. CASE k \in 1..n
      <4>1. t[k].at \in Nat
        BY <1>12 DEF Symbols, Symbol
      <4>2. t[k].at < pos
        BY <1>8, <1>9, <1>10, <3>2
      <4> QED BY <1>1, <4>1, <4>2
    <3> QED BY <1>10, <1>11, <3>1, <3>2
  <2> QED BY <1>1, <1>2, <2>1
<1>15. anchors' = t /\ procedures' = procedures /\ variables' = variables
  BY <1>3, <1>5, <1>6 DEF TakeAnchor
<1>16. Found' /\ InTurn'
  BY <1>1, <1>12, <1>13, <1>15 DEF Inv, Found, InTurn, Ascending
<1>17. AtAnchor'
  BY <1>14, <1>15 DEF AtAnchor
<1> QED BY <1>1, <1>2, <1>16, <1>17
        DEF Inv, Phases, AtPrimitive, AtFunction, AtLocal, AtTable, Advances

\* AnchorsDone keeps Inv.
LEMMA AnchorsDoneStep ==
    ASSUME Inv, AnchorsDone, UNCHANGED buf
    PROVE  Inv' /\ Advances
PROOF
<1>1. PICK e : e = <<>>
  OBVIOUS
<1>2. PICK s : s = anchors
  OBVIOUS
<1>3. IsSeq(s) /\ Len(s) \in Nat /\ DOMAIN s = 1..Len(s)
      /\ \A k \in DOMAIN s : s[k].at \in Nat
  <2>1. Symbols(s)
    BY <1>2 DEF Inv, Found, Ascending
  <2> QED BY <2>1, SeqDomain DEF Symbols, Symbol
<1>4. phase = "anchors" /\ phase' = "tables" /\ buf' = buf /\ anchors' = s
  BY <1>2 DEF AnchorsDone
<1>5. Found' /\ InTurn'
  BY DEF Inv, AnchorsDone, Found, InTurn
<1>6. IsSeq(e) /\ Len(e) = 0
  BY <1>1, EmptyIsSeq
<1>7. pos' \in Nat /\ AtTable'
  <2>1. CASE s = e
    <3>1. pos' = Size /\ tables' = e
      BY <1>1, <1>2, <2>1 DEF AnchorsDone
    <3>2. pos' \in Nat
      BY <3>1, ByteType DEF Inv
    <3>3. Len(tables') <= Len(anchors')
      BY <1>4, <1>6, <2>1, <3>1
    <3> QED BY <1>1, <1>4, <1>6, <2>1, <3>1, <3>2, <3>3 DEF AtTable
  <2>2. CASE s # e
    <3>1. pos' = s[1].at + 32
      BY <1>1, <1>2, <2>2 DEF AnchorsDone
    <3>2. PICK t : t = tables'
      OBVIOUS
    <3>3. t = Append(e, e)
      BY <1>1, <1>2, <2>2, <3>2 DEF AnchorsDone
    <3>4. IsSeq(t) /\ Len(t) = 1 /\ t # <<>>
      <4>1. Extends(t, e, e)
        BY <1>6, <3>3, SeqAppend
      <4> QED BY <1>6, <4>1 DEF Extends
    <3>5. Len(s) # 0
      <4>1. CASE Len(s) = 0
        <5>1. s = <<>>
          BY <1>3, <4>1 DEF IsSeq
        <5> QED BY <1>1, <2>2, <5>1
      <4> QED BY <4>1
    <3>6. 1 \in DOMAIN s /\ Len(t) <= Len(s)
      BY <1>3, <3>4, <3>5
    <3>7. pos' \in Nat
      BY <1>3, <3>1, <3>6
    <3>8. pos' <= TableLow'
      BY <1>4, <3>1, <3>2, <3>4, <3>7 DEF TableLow
    <3> QED BY <1>4, <3>2, <3>4, <3>6, <3>7, <3>8 DEF AtTable
  <2> QED BY <2>1, <2>2
<1> QED BY <1>4, <1>5, <1>7
        DEF Inv, Phases, AtPrimitive, AtFunction, AtLocal, AtAnchor, Advances

\* Inside a table: the cursor, and where the table ends.
LEMMA TableBounds ==
    ASSUME Inv, phase = "tables", tables # <<>>
    PROVE  /\ Len(tables) \in Nat \ {0} /\ Len(anchors) \in Nat /\ Len(tables) <= Len(anchors)
           /\ DOMAIN anchors = 1..Len(anchors) /\ DOMAIN tables = 1..Len(tables)
           /\ TableHigh \in Nat
           /\ \A k \in 1..Len(anchors) : anchors[k].at \in Nat
           /\ \A k, n \in 1..Len(anchors) : n < k => anchors[n].at < anchors[k].at
           /\ pos <= TableLow \/ pos <= TableHigh
PROOF
<1>1. IsSeq(tables) /\ Len(tables) <= Len(anchors) /\ (pos <= TableLow \/ pos <= TableHigh)
  BY DEF Inv, AtTable
<1>2. IsSeq(anchors) /\ Ascending(anchors)
  BY DEF Inv, Found, Ascending, Symbols
<1>3. Len(anchors) \in Nat /\ DOMAIN anchors = 1..Len(anchors)
  BY <1>2, SeqDomain
<1>4. Len(tables) \in Nat /\ DOMAIN tables = 1..Len(tables)
  BY <1>1, SeqDomain
<1>5. \A k \in 1..Len(anchors) : anchors[k].at \in Nat
  BY <1>2, <1>3 DEF Ascending, Symbols, Symbol
<1>6. \A k, n \in 1..Len(anchors) : n < k => anchors[n].at < anchors[k].at
  BY <1>2, <1>3 DEF Ascending
<1>7. Len(tables) # 0
  BY <1>1 DEF IsSeq
<1>8. TableHigh \in Nat
  <2>1. CASE Len(tables) < Len(anchors)
    <3>1. Len(tables) + 1 \in 1..Len(anchors)
      BY <1>3, <1>4, <2>1
    <3> QED BY <1>5, <2>1, <3>1 DEF TableHigh
  <2>2. CASE ~(Len(tables) < Len(anchors))
    BY <2>2, ByteType DEF Inv, TableHigh
  <2> QED BY <2>1, <2>2
<1> QED BY <1>1, <1>3, <1>4, <1>5, <1>6, <1>7, <1>8

\* A turn of the loop over a table moves the cursor, but not past its end.
LEMMA TableTurn ==
    ASSUME Inv, InTable, pos' \in Nat, pos < pos', pos' <= TableHigh,
           UNCHANGED <<buf, phase, procedures, variables, anchors>>,
           IsSeq(tables'), Len(tables') = Len(tables)
    PROVE  Inv' /\ Advances
PROOF
<1>1. phase = "tables" /\ tables # <<>>
  BY DEF InTable
<1>2. Found' /\ InTurn'
  BY DEF Inv, Found, InTurn
<1>3. Len(tables) \in Nat \ {0} /\ Len(tables) <= Len(anchors)
  BY <1>1, TableBounds
<1>4. tables' # <<>>
  BY <1>3, EmptyIsSeq
<1>5. TableHigh' = TableHigh
  BY DEF TableHigh, Size
<1>6. AtTable'
  BY <1>1, <1>3, <1>4, <1>5 DEF AtTable
<1> QED BY <1>1, <1>2, <1>6
        DEF Inv, Phases, AtPrimitive, AtFunction, AtLocal, AtAnchor, Advances

\* SkipSeparator keeps Inv.
LEMMA SkipSeparatorStep ==
    ASSUME Inv, SkipSeparator, UNCHANGED buf
    PROVE  Inv' /\ Advances
PROOF
<1>1. InTable /\ pos \in Nat /\ IsSeparator(pos)
  BY DEF Inv, SkipSeparator
<1>2. PICK b : b = Byte(pos + 2)
  OBVIOUS
<1>3. b \in 2..64 /\ pos + 6 + b <= TableHigh /\ pos' = pos + 6 + b
  BY <1>1, <1>2 DEF IsSeparator, SkipSeparator
<1>4. pos' \in Nat /\ pos < pos' /\ pos' <= TableHigh
  <2>1. TableHigh \in Nat
    BY <1>1, TableBounds DEF InTable
  <2> QED BY <1>1, <1>3, <2>1
<1>5. IsSeq(tables)
  BY <1>1 DEF Inv, AtTable, InTable
<1> QED BY <1>1, <1>4, <1>5, TableTurn DEF SkipSeparator, unitVars

\* TakeEntry keeps Inv.
LEMMA TakeEntryStep ==
    ASSUME Inv, TakeEntry, UNCHANGED buf
    PROVE  Inv' /\ Advances
PROOF
<1>1. InTable /\ pos \in Nat /\ IsEntry(pos)
  BY DEF Inv, TakeEntry
<1>2. NameEnd(pos) \in Nat /\ pos < NameEnd(pos)
  <2>1. Byte(pos + 1) \in 2..80
    BY <1>1 DEF IsEntry
  <2>2. Byte(pos + 1) \in Nat
    BY <2>1
  <2> QED BY <1>1, <2>2, NameEndBehind
<1>3. PICK e : e = NameEnd(pos)
  OBVIOUS
<1>4. e + 4 <= TableHigh /\ pos' = e + 4
  BY <1>1, <1>3 DEF IsEntry, TakeEntry
<1>5. pos' \in Nat /\ pos < pos' /\ pos' <= TableHigh
  <2>1. TableHigh \in Nat
    BY <1>1, TableBounds DEF InTable
  <2> QED BY <1>1, <1>2, <1>3, <1>4, <2>1
<1>6. IsSeq(tables)
  BY <1>1 DEF Inv, AtTable, InTable
<1>7. IsSeq(tables') /\ Len(tables') = Len(tables)
  <2>1. CASE tables' = tables
    BY <1>6, <2>1
  <2>2. CASE tables' # tables
    <3>1. PICK t : t = tables'
      OBVIOUS
    <3>2. PICK i, x : t = [tables EXCEPT ![i] = x]
      BY <2>2, <3>1 DEF TakeEntry
    <3>3. DOMAIN t = DOMAIN tables /\ t = [k \in DOMAIN t |-> t[k]]
      BY <3>2
    <3> QED BY <1>6, <3>1, <3>3, SeqMap
  <2> QED BY <2>1, <2>2
<1> QED BY <1>1, <1>5, <1>7, TableTurn DEF TakeEntry

\* SkipToEntry keeps Inv.
LEMMA SkipToEntryStep ==
    ASSUME Inv, SkipToEntry, UNCHANGED buf
    PROVE  Inv' /\ Advances
PROOF
<1>1. InTable /\ pos \in Nat /\ pos' = pos + 1 /\ pos + 10 < TableHigh
  BY DEF Inv, SkipToEntry, InTable
<1>2. pos' \in Nat /\ pos < pos' /\ pos' <= TableHigh
  <2>1. TableHigh \in Nat
    BY <1>1, TableBounds DEF InTable
  <2> QED BY <1>1, <2>1
<1>3. IsSeq(tables)
  BY <1>1 DEF Inv, AtTable, InTable
<1> QED BY <1>1, <1>2, <1>3, TableTurn DEF SkipToEntry, unitVars

\* The next table begins behind the cursor: its anchor is behind this one's.
LEMMA NextTableStep ==
    ASSUME Inv, NextTable, UNCHANGED buf
    PROVE  Inv' /\ Advances
PROOF
<1>1. phase = "tables" /\ Len(tables) < Len(anchors) /\ pos \in Nat
  BY DEF Inv, NextTable
<1>2. tables # <<>>
  BY <1>1 DEF Inv, AtTable
<1>3. PICK n : n = Len(tables)
  OBVIOUS
<1>4. /\ n \in Nat \ {0} /\ Len(anchors) \in Nat /\ n < Len(anchors)
      /\ \A k \in 1..Len(anchors) : anchors[k].at \in Nat
      /\ \A k, i \in 1..Len(anchors) : i < k => anchors[i].at < anchors[k].at
      /\ pos <= TableLow \/ pos <= TableHigh
  BY <1>1, <1>2, <1>3, TableBounds
<1>5. n \in 1..Len(anchors) /\ n + 1 \in 1..Len(anchors) /\ n < n + 1
  BY <1>4
<1>6. PICK low : low = anchors[n].at
  OBVIOUS
<1>7. PICK high : high = anchors[n + 1].at
  OBVIOUS
<1>8. low \in Nat /\ high \in Nat /\ low < high
  BY <1>4, <1>5, <1>6, <1>7
<1>9. TableLow = low + 32 /\ TableHigh = high /\ pos' = high + 32
  BY <1>1, <1>3, <1>6, <1>7 DEF TableLow, TableHigh, NextTable
<1>10. pos' \in Nat /\ pos < pos'
  BY <1>1, <1>4, <1>8, <1>9
<1>11. IsSeq(tables') /\ Len(tables') = n + 1 /\ tables' # <<>>
  <2>1. IsSeq(tables)
    BY <1>1 DEF Inv, AtTable
  <2>2. tables' = Append(tables, <<>>)
    BY DEF NextTable
  <2>3. Extends(tables', tables, <<>>)
    <3>1. PICK e : e = <<>>
      OBVIOUS
    <3> QED BY <2>1, <2>2, <3>1, SeqAppend
  <2> QED BY <1>3, <2>3 DEF Extends
<1>12. anchors' = anchors /\ phase' = phase
  BY DEF NextTable
<1>13. Found' /\ InTurn'
  BY DEF Inv, NextTable, Found, InTurn
<1>14. AtTable'
  <2>1. TableLow' = high + 32
    BY <1>7, <1>11, <1>12 DEF TableLow
  <2>2. Len(tables') <= Len(anchors')
    BY <1>4, <1>11, <1>12
  <2>3. pos' <= TableLow'
    BY <1>8, <1>9, <2>1
  <2> QED BY <1>11, <2>2, <2>3 DEF AtTable
<1> QED BY <1>1, <1>10, <1>12, <1>13, <1>14
        DEF Inv, Phases, AtPrimitive, AtFunction, AtLocal, AtAnchor, Advances

\* StampTypes keeps Inv.
LEMMA StampTypesStep ==
    ASSUME Inv, StampTypes, UNCHANGED buf
    PROVE  Inv' /\ Advances
PROOF
<1>1. SameProcedures(procedures', procedures) /\ SameSymbols(variables', variables)
  BY EachStamped DEF Inv, Found, StampTypes
<1>2. InFileOrder(procedures') /\ Symbols(variables') /\ Outside(variables', procedures')
  BY <1>1, SamePlaces DEF Inv, Found
<1>3. Found' /\ InTurn'
  BY <1>2 DEF Inv, StampTypes, Found, InTurn, unitVars
<1> QED BY <1>3
        DEF Inv, StampTypes, Phases, AtPrimitive, AtFunction, AtLocal, AtAnchor, AtTable,
            Advances, MetadataStart

-----------------------------------------------------------------------------
(* The aggregates.                                                         *)

\* A turn of the scan over the aggregates moves the cursor and nothing else that
\* the invariant speaks of.
LEMMA ScanTurn ==
    ASSUME Inv, Scanning, pos' \in Nat, pos < pos', UNCHANGED <<buf, ScanVars>>
    PROVE  Inv' /\ Advances
PROOF
<1>1. Found' /\ InTurn'
  BY DEF Inv, ScanVars, Found, InTurn, unitVars
<1> QED BY <1>1
        DEF Inv, Scanning, ScanVars, Phases, AtPrimitive, AtFunction, AtLocal, AtAnchor,
            AtTable, Advances

\* A record with a name: what follows it is behind the cursor.
LEMMA NamedBehind ==
    ASSUME NEW i \in Nat, NEW m \in Nat, NEW n \in Nat, NEW rest, Named(i, m, n, rest)
    PROVE  NameEnd(i) \in Nat /\ i < NameEnd(i)
PROOF
<1>1. Byte(i + 1) \in m..n
  BY DEF Named
<1>2. Byte(i + 1) \in Nat
  BY <1>1
<1> QED BY <1>2, NameEndBehind

\* TakeType keeps Inv.
LEMMA TakeTypeStep ==
    ASSUME Inv, TakeType, UNCHANGED buf
    PROVE  Inv' /\ Advances
PROOF
<1>1. pos \in Nat /\ Named(pos, 2, 64, 6)
  BY DEF Inv, TakeType, IsType
<1>2. NameEnd(pos) \in Nat /\ pos < NameEnd(pos)
  BY <1>1, NamedBehind
<1>3. PICK e : e = NameEnd(pos)
  OBVIOUS
<1>4. pos' = e + 5
  BY <1>3 DEF TakeType
<1>5. pos' \in Nat /\ pos < pos'
  BY <1>1, <1>2, <1>3, <1>4
<1> QED BY <1>5, ScanTurn DEF TakeType

\* TakeField keeps Inv.
LEMMA TakeFieldStep ==
    ASSUME Inv, TakeField, UNCHANGED buf
    PROVE  Inv' /\ Advances
PROOF
<1>1. pos \in Nat /\ IsField(pos)
  BY DEF Inv, TakeField
<1>2. PICK at : at = NameEnd(pos)
  OBVIOUS
<1>3. at \in Nat /\ pos < at
  <2>1. Named(pos, 1, 64, 6)
    BY <1>1 DEF IsField
  <2> QED BY <1>1, <1>2, <2>1, NamedBehind
<1>4. OffsetEnd(at) \in Nat /\ at < OffsetEnd(at)
  <2>1. TypeRefEnd(at) \in Nat /\ at < TypeRefEnd(at)
    BY <1>3 DEF TypeRefEnd
  <2> QED BY <1>3, <2>1 DEF OffsetEnd
<1>5. FieldStop(at) # {}
  BY <1>1, <1>2 DEF IsField
<1>6. PICK low : low = OffsetEnd(at)
  OBVIOUS
<1>7. \A k \in FieldStop(at) : k \in Int /\ low <= k
  BY <1>4, <1>6 DEF FieldStop
<1>8. FieldStop(at) \in SUBSET Nat
  BY <1>4, <1>6, <1>7
<1>9. PICK stop : stop = Min(FieldStop(at))
  OBVIOUS
<1>10. stop \in Nat /\ low <= stop
  <2>1. stop \in FieldStop(at)
    BY <1>5, <1>8, <1>9, MinIsLeast
  <2> QED BY <1>7, <1>8, <2>1
<1>11. pos' = stop + 1
  BY <1>2, <1>9 DEF TakeField
<1>12. pos' \in Nat /\ pos < pos'
  BY <1>1, <1>3, <1>4, <1>6, <1>10, <1>11
<1> QED BY <1>12, ScanTurn DEF TakeField

\* TakeEnumEntry keeps Inv.
LEMMA TakeEnumEntryStep ==
    ASSUME Inv, TakeEnumEntry, UNCHANGED buf
    PROVE  Inv' /\ Advances
PROOF
<1>1. pos \in Nat /\ Named(pos, 1, 64, 9)
  BY DEF Inv, TakeEnumEntry, IsEnumEntry
<1>2. NameEnd(pos) \in Nat /\ pos < NameEnd(pos)
  BY <1>1, NamedBehind
<1>3. PICK e : e = NameEnd(pos)
  OBVIOUS
<1>4. pos' = e + 8
  BY <1>3 DEF TakeEnumEntry
<1>5. pos' \in Nat /\ pos < pos'
  BY <1>1, <1>2, <1>3, <1>4
<1> QED BY <1>5, ScanTurn DEF TakeEnumEntry

\* TakeProperty keeps Inv.
LEMMA TakePropertyStep ==
    ASSUME Inv, TakeProperty, UNCHANGED buf
    PROVE  Inv' /\ Advances
PROOF
<1>1. pos' \in Nat /\ pos < pos'
  BY DEF Inv, TakeProperty
<1> QED BY <1>1, ScanTurn DEF TakeProperty

\* TakeClassHeader keeps Inv.
LEMMA TakeClassHeaderStep ==
    ASSUME Inv, TakeClassHeader, UNCHANGED buf
    PROVE  Inv' /\ Advances
PROOF
<1>1. pos' \in Nat /\ pos < pos'
  BY DEF Inv, TakeClassHeader
<1> QED BY <1>1, ScanTurn DEF TakeClassHeader

\* SkipToMember keeps Inv.
LEMMA SkipToMemberStep ==
    ASSUME Inv, SkipToMember, UNCHANGED buf
    PROVE  Inv' /\ Advances
PROOF
<1>1. pos' \in Nat /\ pos < pos'
  BY DEF Inv, SkipToMember
<1> QED BY <1>1, ScanTurn DEF SkipToMember

\* AttachMembers keeps Inv.
LEMMA AttachMembersStep ==
    ASSUME Inv, AttachMembers, UNCHANGED buf
    PROVE  Inv' /\ Advances
PROOF
<1>1. Found' /\ InTurn'
  BY DEF Inv, AttachMembers, Found, InTurn, unitVars
<1> QED BY <1>1
        DEF Inv, AttachMembers, Phases, AtPrimitive, AtFunction, AtLocal, AtAnchor, AtTable,
            Advances

\* Resolve keeps Inv.
LEMMA ResolveStep ==
    ASSUME Inv, ResolveAggregateTypes, UNCHANGED buf
    PROVE  Inv' /\ Advances
PROOF
<1>1. SameProcedures(procedures', procedures) /\ SameSymbols(variables', variables)
  BY EachResolved DEF Inv, Found, ResolveAggregateTypes
<1>2. InFileOrder(procedures') /\ Symbols(variables') /\ Outside(variables', procedures')
  BY <1>1, SamePlaces DEF Inv, Found
<1>3. Found' /\ InTurn'
  BY <1>2 DEF Inv, ResolveAggregateTypes, Found, InTurn, unitVars
<1> QED BY <1>3
        DEF Inv, ResolveAggregateTypes, Phases, AtPrimitive, AtFunction, AtLocal, AtAnchor,
            AtTable, Advances

-----------------------------------------------------------------------------
(* The theorems.                                                           *)

\* Every action of the first pass keeps Inv.
LEMMA ProcedurePassStep ==
    ASSUME Inv, ProcedurePass
    PROVE  Inv' /\ Advances
PROOF
<1>1. Kept
  BY DEF ProcedurePass, Kept
<1> QED BY <1>1, SkipToFunctionStep, EmptyFunctionStep, OpenFunctionStep, TakeSubStep,
           SkipDescriptorStep, CloseFunctionStep, ProceduresDoneStep, SkipToGlobalStep,
           TakeGlobalStep, GlobalsDoneStep
        DEF ProcedurePass

\* Every action of the second pass keeps Inv.
LEMMA UnitPassStep ==
    ASSUME Inv, UnitPass
    PROVE  Inv' /\ Advances
PROOF
<1>1. UNCHANGED buf
  BY DEF UnitPass
<1> QED BY <1>1, SkipToAnchorStep, TakeAnchorStep, AnchorsDoneStep, SkipSeparatorStep,
           TakeEntryStep, SkipToEntryStep, NextTableStep, StampTypesStep
        DEF UnitPass

\* Every action of the third pass keeps Inv.
LEMMA AggregatePassStep ==
    ASSUME Inv, AggregatePass
    PROVE  Inv' /\ Advances
PROOF
<1>1. UNCHANGED buf
  BY DEF AggregatePass
<1> QED BY <1>1, TakeTypeStep, TakeFieldStep, TakeEnumEntryStep, TakePropertyStep,
           TakeClassHeaderStep, SkipToMemberStep, AttachMembersStep, ResolveStep
        DEF AggregatePass

\* Every action keeps Inv.
LEMMA NextStep ==
    ASSUME Inv, Next
    PROVE  Inv' /\ Advances
PROOF BY FindBooleanStep, NoBooleanStep, TakePrimitiveStep, ProcedurePassStep, UnitPassStep,
         AggregatePassStep
      DEF Next

\* A stutter keeps Inv.
LEMMA StutterStep ==
    ASSUME Inv, UNCHANGED vars
    PROVE  Inv'
PROOF
<1>1. Found' /\ InTurn'
  BY DEF Inv, vars, procVars, unitVars, Found, InTurn
<1> QED BY <1>1
        DEF Inv, vars, procVars, unitVars, Phases, AtPrimitive, AtFunction, AtLocal,
            AtAnchor, AtTable, Size, TableLow, TableHigh

\* Inv is an invariant.
LEMMA Always == Spec => []Inv
PROOF
<1>1. Inv /\ [Next]_vars => Inv'
  BY NextStep, StutterStep
<1> QED BY <1>1, InitInv, PTL DEF Spec

\* Whatever bytes a file holds, the procedures read from it lie one after another,
\* each with its parameters and locals inside it, in every state of every pass.
THEOREM ProceduresSafe == Spec => []ProceduresInOrder
PROOF
<1>1. ASSUME Inv PROVE ProceduresInOrder
  <2>1. InFileOrder(procedures)
    BY <1>1 DEF Inv, Found
  <2>2. ASSUME NEW k \in DOMAIN procedures,
               NEW v \in Range(procedures[k].params) \union Range(procedures[k].locals)
        PROVE  procedures[k].first < v.at /\ v.at < procedures[k].end
    BY <2>1 DEF InFileOrder, Closed, Holds, Within, Range
  <2> QED BY <2>1, <2>2 DEF ProceduresInOrder, InFileOrder, Closed
<1> QED BY <1>1, Always, PTL

\* No file makes isInsideProcedure, which looks at one procedure only, let a byte
\* inside another one be read as a global.
THEOREM GlobalsSafe == Spec => []GlobalsOutsideProcedures
PROOF
<1>1. ASSUME Inv PROVE GlobalsOutsideProcedures
  BY <1>1 DEF Inv, Found, Outside, GlobalsOutsideProcedures, Range
<1> QED BY <1>1, Always, PTL

\* No record, however garbled, holds up a scan or sends it back.
THEOREM CursorSafe == Spec => CursorAdvances
PROOF
<1>1. Inv /\ [Next]_vars =>
         [\/ phase' # phase /\ ~({phase, phase'} \subseteq {"procedures", "locals"})
          \/ pos' > pos
          \/ phase = "locals" /\ phase' = "procedures" /\ pos' = pos
             /\ pos > current.first]_vars
  BY NextStep DEF Advances
<1> QED BY <1>1, Always, PTL DEF Spec, CursorAdvances
===============================================================================
