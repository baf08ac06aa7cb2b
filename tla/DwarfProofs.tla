------------------------------- MODULE DwarfProofs -------------------------------
(***************************************************************************)
(* What the `dwarf' command promises of .debug_info, proved for all programs *)
(* and for units, symbols and types of any number.                          *)
(***************************************************************************)
EXTENDS Dwarf, DataLemmas

-----------------------------------------------------------------------------
(* What the units the command works on are like.                           *)

SlotsOK(slots) == IsSequence(slots) /\ \A v \in Range(slots) : v.type # NoType
SymbolOK(s) ==
    /\ DOMAIN s = {"address", "kind", "name", "type", "params", "locals"}
    /\ s.address \in Nat /\ SlotsOK(s.params) /\ SlotsOK(s.locals)
UnitOK(u) ==
    /\ DOMAIN u = {"module", "source", "symbols", "lines"}
    /\ IsSequence(u.symbols) /\ \A s \in Range(u.symbols) : SymbolOK(s)
    /\ IsSequence(u.lines) /\ \A l \in Range(u.lines) : l.address \in Nat
UnitsOK(us) == IsSequence(us) /\ \A u \in Range(us) : UnitOK(u)

-----------------------------------------------------------------------------
(* What .debug_info is like: d, with the line programs lp.                  *)

References  == {4, 6, 9, 10}
Subprograms == {2, 8}
TypeCodes   == {5, 6}

LowOf(x)  == Attribute(x, "low_pc")
HighOf(x) == Attribute(x, "high_pc")

\* The element at k, of the unit whose header is at h and whose last element is
\* at e; the offset of the element at position 1 is `at'.
ReferenceOK(d, h, e, at, k) ==
    d[k].code \in References =>
      \E t \in (h + 2)..e : d[t].code \in TypeCodes /\ at + t = Attribute(d[k], "type") + 1
RangeOK(d, h, k) ==
    d[k].code \in Subprograms =>
      /\ LowOf(d[k]) \in Nat /\ HighOf(d[k]) \in Nat
      /\ LowOf(d[h + 1]) <= LowOf(d[k]) /\ LowOf(d[k]) < HighOf(d[k])
      /\ HighOf(d[k]) <= HighOf(d[h + 1])
ElementOK(d, h, e, at, k) ==
    d[k].code \in 0..10 /\ ReferenceOK(d, h, e, at, k) /\ RangeOK(d, h, k)
DisjointIn(d, i, j) ==
    d[i].code \in Subprograms /\ d[j].code \in Subprograms /\ LowOf(d[i]) < LowOf(d[j])
      => HighOf(d[i]) <= LowOf(d[j])

\* The element behind the header, with its line program.
UnitElementOK(x, lp) ==
    /\ x.code = 1 /\ LowOf(x) \in Nat /\ HighOf(x) \in Nat
    /\ Attribute(x, "stmt_list") \in 0..(Len(lp) - 1)
    /\ lp[Attribute(x, "stmt_list") + 1].file = Attribute(x, "name")

\* The last element of the unit with its header at h.
EndOf(d, h) == h + d[h].values[1]
CompleteUnit(d, lp, h, at) ==
    /\ d[h].code = Header /\ d[h].values[1] \in Nat
    /\ EndOf(d, h) \in (h + 1)..Len(d)
    /\ UnitElementOK(d[h + 1], lp)
    /\ \A k \in (h + 2)..EndOf(d, h) : ElementOK(d, h, EndOf(d, h), at, k)
    /\ \A i, j \in (h + 2)..EndOf(d, h) : DisjointIn(d, i, j)

HeadersIn(d) == {h \in 1..Len(d) : d[h].code = Header}
Structured(d, lp) ==
    /\ IsSequence(d)
    /\ \A h \in HeadersIn(d) :
         CompleteUnit(d, lp, h, 0) /\ EndOf(d, h) + 1 \in HeadersIn(d) \cup {Len(d) + 1}
    /\ \A i \in 1..Len(d) : \E h \in HeadersIn(d) : h <= i /\ i <= EndOf(d, h)

Inv ==
    /\ program \in Programs
    /\ UnitsOK(units) /\ emitted \in Nat
    /\ IsSequence(linePrograms) /\ Structured(info, linePrograms)

-----------------------------------------------------------------------------
(* Attributes.                                                             *)

\* Where the names of the attributes stand, and the tags.
LEMMA NamesAre ==
    /\ Abbreviations[1].attributes = <<"producer", "language", "name", "comp_dir", "low_pc",
                                       "high_pc", "stmt_list">>
    /\ Abbreviations[2].attributes = <<"name", "low_pc", "high_pc", "external">>
    /\ Abbreviations[3].attributes = <<"name", "location", "external">>
    /\ Abbreviations[4].attributes = <<"name", "location", "type", "external">>
    /\ Abbreviations[5].attributes = <<"name", "byte_size", "encoding">>
    /\ Abbreviations[6].attributes = <<"type">>
    /\ Abbreviations[7].attributes = <<"upper_bound">>
    /\ Abbreviations[8].attributes = <<"name", "low_pc", "high_pc", "external", "frame_base">>
    /\ Abbreviations[9].attributes = <<"name", "type", "location">>
    /\ Abbreviations[10].attributes = <<"name", "type", "location">>
PROOF BY DEF Abbreviations, Abbreviation

\* The elements with a tag.
LEMMA TagsAre ==
    ASSUME NEW c \in 1..10
    PROVE  /\ Abbreviations[c].tag = "subprogram" <=> c \in Subprograms
           /\ Abbreviations[c].tag \in {"base_type", "array_type"} <=> c \in TypeCodes
PROOF
<1>1. c \in {1, 2, 3, 4, 5, 6, 7, 8, 9, 10}
  OBVIOUS
<1>2. /\ Abbreviations[1].tag = "compile_unit" /\ Abbreviations[2].tag = "subprogram"
      /\ Abbreviations[3].tag = "variable" /\ Abbreviations[4].tag = "variable"
      /\ Abbreviations[5].tag = "base_type" /\ Abbreviations[6].tag = "array_type"
      /\ Abbreviations[7].tag = "subrange_type" /\ Abbreviations[8].tag = "subprogram"
      /\ Abbreviations[9].tag = "formal_parameter" /\ Abbreviations[10].tag = "variable"
  BY DEF Abbreviations, Abbreviation
<1> QED BY <1>1, <1>2 DEF Subprograms, TypeCodes

\* The elements that refer to a type.
LEMMA ReferencesAre ==
    ASSUME NEW c \in 1..10
    PROVE  "type" \in Range(Abbreviations[c].attributes) <=> c \in References
PROOF
<1>1. c \in {1, 2, 3, 4, 5, 6, 7, 8, 9, 10}
  OBVIOUS
<1>2. /\ Range(Abbreviations[1].attributes) = {"producer", "language", "name", "comp_dir",
                                               "low_pc", "high_pc", "stmt_list"}
      /\ Range(Abbreviations[2].attributes) = {"name", "low_pc", "high_pc", "external"}
      /\ Range(Abbreviations[3].attributes) = {"name", "location", "external"}
      /\ Range(Abbreviations[4].attributes) = {"name", "location", "type", "external"}
      /\ Range(Abbreviations[5].attributes) = {"name", "byte_size", "encoding"}
      /\ Range(Abbreviations[6].attributes) = {"type"}
      /\ Range(Abbreviations[7].attributes) = {"upper_bound"}
      /\ Range(Abbreviations[8].attributes) = {"name", "low_pc", "high_pc", "external", "frame_base"}
      /\ Range(Abbreviations[9].attributes) = {"name", "type", "location"}
      /\ Range(Abbreviations[10].attributes) = {"name", "type", "location"}
  BY NamesAre DEF Range
<1> QED BY <1>1, <1>2 DEF References

\* The name of an attribute stands at k only.
StandsAt(x, a, k) ==
    LET names == Abbreviations[x.code].attributes
    IN  {j \in DOMAIN names : names[j] = a} = {k}

\* An attribute is the value where its name stands.
LEMMA AttributeIs ==
    ASSUME NEW x, NEW a, NEW k, StandsAt(x, a, k)
    PROVE  Attribute(x, a) = x.values[k]
PROOF
<1>1. PICK names : names = Abbreviations[x.code].attributes
  OBVIOUS
<1>2. {j \in DOMAIN names : names[j] = a} = {k}
  BY <1>1 DEF StandsAt
<1>3. k \in DOMAIN names /\ names[k] = a /\ \A j \in DOMAIN names : names[j] = a => j = k
  BY <1>2
<1>4. (CHOOSE j \in DOMAIN names : names[j] = a) = k
  BY <1>3
<1> QED BY <1>1, <1>4 DEF Attribute

\* The attributes of the element of a unit.
LEMMA UnitAttributes ==
    ASSUME NEW x, x.code = 1
    PROVE  /\ LowOf(x) = x.values[5] /\ HighOf(x) = x.values[6]
           /\ Attribute(x, "stmt_list") = x.values[7] /\ Attribute(x, "name") = x.values[3]
PROOF
<1>1. PICK names : names = Abbreviations[x.code].attributes
  OBVIOUS
<1>2. names = <<"producer", "language", "name", "comp_dir", "low_pc", "high_pc", "stmt_list">>
  BY <1>1, NamesAre
<1>3. DOMAIN names = {1, 2, 3, 4, 5, 6, 7}
  BY <1>2
<1>4. /\ StandsAt(x, "low_pc", 5) /\ StandsAt(x, "high_pc", 6)
      /\ StandsAt(x, "stmt_list", 7) /\ StandsAt(x, "name", 3)
  BY <1>1, <1>2, <1>3 DEF StandsAt
<1> QED BY <1>4, AttributeIs DEF LowOf, HighOf

\* The attributes of a subprogram.
LEMMA SubprogramAttributes ==
    ASSUME NEW x, x.code \in Subprograms
    PROVE  LowOf(x) = x.values[2] /\ HighOf(x) = x.values[3]
PROOF
<1>1. PICK names : names = Abbreviations[x.code].attributes
  OBVIOUS
<1>2. \/ names = <<"name", "low_pc", "high_pc", "external">>
      \/ names = <<"name", "low_pc", "high_pc", "external", "frame_base">>
  BY <1>1, NamesAre DEF Subprograms
<1>3. DOMAIN names \in {{1, 2, 3, 4}, {1, 2, 3, 4, 5}}
  BY <1>2
<1>4. StandsAt(x, "low_pc", 2) /\ StandsAt(x, "high_pc", 3)
  BY <1>1, <1>2, <1>3 DEF StandsAt
<1> QED BY <1>4, AttributeIs DEF LowOf, HighOf

\* The reference to a type.
LEMMA TypeAttribute ==
    ASSUME NEW x, x.code \in References
    PROVE  Attribute(x, "type") = x.values[CASE x.code = 4 -> 3 [] x.code = 6 -> 1 [] OTHER -> 2]
PROOF
<1>1. PICK names : names = Abbreviations[x.code].attributes
  OBVIOUS
<1>2. CASE x.code = 4
  <2>1. names = <<"name", "location", "type", "external">> /\ DOMAIN names = {1, 2, 3, 4}
    BY <1>1, <1>2, NamesAre
  <2>2. StandsAt(x, "type", 3)
    BY <1>1, <2>1 DEF StandsAt
  <2>3. Attribute(x, "type") = x.values[3]
    BY <2>2, AttributeIs
  <2> QED BY <1>2, <2>3
<1>3. CASE x.code = 6
  <2>1. names = <<"type">> /\ DOMAIN names = {1}
    BY <1>1, <1>3, NamesAre
  <2>2. StandsAt(x, "type", 1)
    BY <1>1, <2>1 DEF StandsAt
  <2>3. Attribute(x, "type") = x.values[1]
    BY <2>2, AttributeIs
  <2> QED BY <1>3, <2>3
<1>4. CASE x.code \in {9, 10}
  <2>1. names = <<"name", "type", "location">> /\ DOMAIN names = {1, 2, 3}
    BY <1>1, <1>4, NamesAre
  <2>2. StandsAt(x, "type", 2)
    BY <1>1, <2>1 DEF StandsAt
  <2>3. Attribute(x, "type") = x.values[2]
    BY <2>2, AttributeIs
  <2> QED BY <1>4, <2>3
<1> QED BY <1>2, <1>3, <1>4 DEF References

-----------------------------------------------------------------------------
(* What follows of a .debug_info with this structure.                       *)

\* The elements of a unit behind its header are no headers.
LEMMA NoHeaderInside ==
    ASSUME NEW d, NEW lp, NEW h \in Nat, NEW at, CompleteUnit(d, lp, h, at)
    PROVE  /\ EndOf(d, h) \in Nat
           /\ \A k \in (h + 1)..EndOf(d, h) : d[k].code \in 0..10 /\ d[k].code # Header
           /\ d[h + 1].code = 1
PROOF
<1>1. PICK e : e = EndOf(d, h)
  OBVIOUS
<1>3. e \in (h + 1)..Len(d) /\ d[h + 1].code = 1
      /\ \A k \in (h + 2)..e : d[k].code \in 0..10
  BY <1>1 DEF CompleteUnit, UnitElementOK, ElementOK
<1>4. e \in Nat /\ h + 1 <= e
  BY <1>3
<1>5. ASSUME NEW k \in (h + 1)..e PROVE d[k].code \in 0..10 /\ d[k].code # Header
  <2>1. d[k].code \in 0..10
    <3>1. k = h + 1 \/ k \in (h + 2)..e
      BY <1>4
    <3> QED BY <1>3, <3>1
  <2> QED BY <2>1 DEF Header
<1> QED BY <1>1, <1>3, <1>4, <1>5

\* An element is of the unit with the last header before it.
LEMMA UnitOf ==
    ASSUME NEW d, NEW lp, Structured(d, lp), NEW i \in 1..Len(d), d[i].code # Header
    PROVE  \E h \in HeadersIn(d) :
             /\ i \in (h + 1)..EndOf(d, h) /\ CompleteUnit(d, lp, h, 0)
             /\ Max({g \in HeadersIn(d) : g <= i}) = h
PROOF
<1>1. Len(d) \in Nat
  BY SequenceIs DEF Structured
<1>2. PICK h \in HeadersIn(d) : h <= i /\ i <= EndOf(d, h)
  BY DEF Structured
<1>3. h \in Nat /\ d[h].code = Header /\ CompleteUnit(d, lp, h, 0)
  <2>1. CompleteUnit(d, lp, h, 0)
    BY DEF Structured
  <2>2. h \in Nat /\ d[h].code = Header
    BY <1>1 DEF HeadersIn
  <2> QED BY <2>1, <2>2
<1>4. EndOf(d, h) \in Nat /\ \A k \in (h + 1)..EndOf(d, h) : d[k].code # Header
  BY <1>3, NoHeaderInside
<1>5. i \in (h + 1)..EndOf(d, h)
  BY <1>2, <1>3, <1>4
<1> DEFINE S == {g \in HeadersIn(d) : g <= i}
<1>6. ASSUME NEW g \in S PROVE g <= h
  <2>1. g \in Nat /\ d[g].code = Header /\ g <= i
    BY <1>1 DEF HeadersIn
  <2>2. g \notin (h + 1)..EndOf(d, h)
    BY <1>4, <2>1
  <2> QED BY <1>3, <1>4, <1>5, <2>1, <2>2
<1>7. h \in S /\ S \in SUBSET Nat
  BY <1>1, <1>2, <1>3 DEF HeadersIn
<1>8. Max(S) = h
  <2>1. Max(S) \in S /\ \A n \in S : n <= Max(S)
    <3> HIDE DEF S
    <3> QED BY <1>3, <1>6, <1>7, MaxIsGreatest
  <2>2. Max(S) <= h /\ h <= Max(S) /\ Max(S) \in Nat
    BY <1>6, <1>7, <2>1
  <2> QED BY <1>3, <2>2
<1> QED BY <1>3, <1>5, <1>8

\* The elements of a tag in a unit.
LEMMA Tagged ==
    ASSUME NEW d, NEW i, d[i].code \in 0..10
    PROVE  /\ d[i].code > 0 /\ Abbreviations[d[i].code].tag = "subprogram"
                <=> d[i].code \in Subprograms
           /\ d[i].code \in TypeCodes =>
                d[i].code > 0 /\ Abbreviations[d[i].code].tag \in {"base_type", "array_type"}
PROOF
<1>1. CASE d[i].code = 0
  BY <1>1 DEF Subprograms, TypeCodes
<1>2. CASE d[i].code \in 1..10
  BY <1>2, TagsAre
<1> QED BY <1>1, <1>2

\* The ranges of the subprograms.
LEMMA RangesDisjoint ==
    ASSUME Structured(info, linePrograms)
    PROVE  SubprogramsDisjoint
PROOF
<1>0. DOMAIN info = 1..Len(info) /\ Len(info) \in Nat
  BY SequenceIs DEF Structured
<1>1. Headers = HeadersIn(info)
  BY <1>0 DEF Headers, HeadersIn
<1>2. ASSUME NEW i \in DIEsOf("subprogram")
      PROVE  \E h \in HeadersIn(info) :
               /\ CompleteUnit(info, linePrograms, h, 0) /\ i \in (h + 2)..EndOf(info, h)
               /\ HeaderOfDIE(i) = h /\ info[i].code \in Subprograms
  <2>1. i \in 1..Len(info) /\ info[i].code > 0 /\ Abbreviations[info[i].code].tag = "subprogram"
    BY <1>0 DEF DIEsOf
  <2>2. info[i].code # Header
    BY <2>1 DEF Header
  <2>3. PICK h \in HeadersIn(info) :
               /\ i \in (h + 1)..EndOf(info, h) /\ CompleteUnit(info, linePrograms, h, 0)
               /\ Max({g \in HeadersIn(info) : g <= i}) = h
    BY <2>1, <2>2, UnitOf
  <2>4. h \in Nat
    BY <1>0 DEF HeadersIn
  <2>5. /\ EndOf(info, h) \in Nat /\ info[h + 1].code = 1
        /\ info[i].code \in 0..10
    BY <2>3, <2>4, NoHeaderInside
  <2>6. info[i].code \in Subprograms
    BY <2>1, <2>5, Tagged
  <2>7. i # h + 1
    BY <2>5, <2>6 DEF Subprograms
  <2>8. i \in (h + 2)..EndOf(info, h)
    BY <2>3, <2>4, <2>5, <2>7
  <2> QED BY <1>1, <2>3, <2>6, <2>8 DEF HeaderOfDIE
<1>3. ASSUME NEW i \in DIEsOf("subprogram"), NEW j \in DIEsOf("subprogram"),
             NEW u, u = HeaderOfDIE(i) + 1, NEW v, v = HeaderOfDIE(j) + 1
      PROVE  /\ Low(i) < High(i) /\ Low(u) <= Low(i) /\ High(i) <= High(u)
             /\ (u = v \/ High(u) <= Low(v) \/ High(v) <= Low(u)) /\ Low(i) < Low(j)
                  => High(i) <= Low(j)
  <2>1. PICK h \in HeadersIn(info) :
               /\ CompleteUnit(info, linePrograms, h, 0) /\ i \in (h + 2)..EndOf(info, h)
               /\ HeaderOfDIE(i) = h /\ info[i].code \in Subprograms
    BY <1>2
  <2>2. PICK g \in HeadersIn(info) :
               /\ CompleteUnit(info, linePrograms, g, 0) /\ j \in (g + 2)..EndOf(info, g)
               /\ HeaderOfDIE(j) = g /\ info[j].code \in Subprograms
    BY <1>2
  <2>3. /\ Low(i) \in Nat /\ High(i) \in Nat /\ Low(u) <= Low(i) /\ Low(i) < High(i)
        /\ High(i) <= High(u) /\ Low(u) \in Nat /\ High(u) \in Nat
    BY <1>3, <2>1 DEF CompleteUnit, ElementOK, RangeOK, UnitElementOK, Low, High, LowOf, HighOf
  <2>4. /\ Low(j) \in Nat /\ High(j) \in Nat /\ Low(v) <= Low(j) /\ Low(j) < High(j)
        /\ High(j) <= High(v) /\ Low(v) \in Nat /\ High(v) \in Nat
    BY <1>3, <2>2 DEF CompleteUnit, ElementOK, RangeOK, UnitElementOK, Low, High, LowOf, HighOf
  <2>5. CASE u = v /\ Low(i) < Low(j)
    <3>1. h = g
      BY <1>0, <1>3, <2>1, <2>2, <2>5 DEF HeadersIn
    <3>2. DisjointIn(info, i, j)
      BY <2>1, <2>2, <3>1 DEF CompleteUnit
    <3> QED BY <2>1, <2>2, <2>3, <2>5, <3>2 DEF DisjointIn, Low, High, LowOf, HighOf
  <2>6. CASE High(u) <= Low(v)
    BY <2>3, <2>4, <2>6
  <2>7. CASE High(v) <= Low(u)
    BY <2>3, <2>4, <2>7
  <2> QED BY <2>3, <2>5, <2>6, <2>7
<1> QED BY <1>3 DEF SubprogramsDisjoint

\* The lengths, the line programs and the references to types.
LEMMA ReferencesResolve ==
    ASSUME Structured(info, linePrograms), IsSequence(linePrograms)
    PROVE  DwarfRefsResolve
PROOF
<1>0. DOMAIN info = 1..Len(info) /\ Len(info) \in Nat /\ Len(linePrograms) \in Nat
  BY SequenceIs DEF Structured
<1>1. Headers = HeadersIn(info)
  BY <1>0 DEF Headers, HeadersIn
<1> SUFFICES ASSUME NEW h \in HeadersIn(info), NEW next, next = h + 1 + info[h].values[1],
                    NEW p, p = Attribute(info[h + 1], "stmt_list")
             PROVE  /\ next \in HeadersIn(info) \cup {Len(info) + 1}
                    /\ \A i \in (h + 1)..(next - 1) : info[i].code # Header
                    /\ p < Len(linePrograms)
                    /\ linePrograms[p + 1].file = Attribute(info[h + 1], "name")
                    /\ \A i \in (h + 2)..(next - 1) :
                         info[i].code > 0
                           /\ "type" \in Range(Abbreviations[info[i].code].attributes) =>
                           LET at == Attribute(info[i], "type") + 1
                           IN  /\ at \in DIEsOf("base_type") \cup DIEsOf("array_type")
                               /\ HeaderOfDIE(at) = h
  BY <1>1 DEF DwarfRefsResolve
<1>2. /\ CompleteUnit(info, linePrograms, h, 0)
      /\ EndOf(info, h) + 1 \in HeadersIn(info) \cup {Len(info) + 1}
  BY DEF Structured
<1>3. h \in Nat /\ h \in 1..Len(info)
  BY <1>0 DEF HeadersIn
<1>4. PICK e \in Nat : e = EndOf(info, h)
  BY <1>2, <1>3, NoHeaderInside
<1>5. e \in (h + 1)..Len(info)
  BY <1>2, <1>4 DEF CompleteUnit
<1>6. next = e + 1 /\ next - 1 = e
  <2>1. PICK n \in Nat : n = info[h].values[1]
    BY <1>2 DEF CompleteUnit
  <2>2. e = h + n /\ next = h + 1 + n
    BY <1>4, <2>1 DEF EndOf
  <2> QED BY <1>3, <2>2
<1>7. \A k \in (h + 1)..e : info[k].code \in 0..10 /\ info[k].code # Header
  BY <1>2, <1>3, <1>4, NoHeaderInside
<1>8. p < Len(linePrograms) /\ linePrograms[p + 1].file = Attribute(info[h + 1], "name")
  <2>1. p \in 0..(Len(linePrograms) - 1)
        /\ linePrograms[p + 1].file = Attribute(info[h + 1], "name")
    BY <1>2 DEF CompleteUnit, UnitElementOK
  <2> QED BY <1>0, <2>1
<1>9. ASSUME NEW i \in (h + 2)..e, info[i].code > 0,
             "type" \in Range(Abbreviations[info[i].code].attributes),
             NEW at, at = Attribute(info[i], "type") + 1
      PROVE  at \in DIEsOf("base_type") \cup DIEsOf("array_type") /\ HeaderOfDIE(at) = h
  <2>1. i \in (h + 1)..e
    BY <1>3, <1>4
  <2>2. info[i].code \in 1..10
    BY <1>7, <1>9, <2>1
  <2>3. info[i].code \in References
    BY <1>9, <2>2, ReferencesAre
  <2>4. PICK t \in (h + 2)..e : info[t].code \in TypeCodes /\ 0 + t = at
    BY <1>2, <1>4, <1>9, <2>3 DEF CompleteUnit, ElementOK, ReferenceOK
  <2>5. t = at /\ t \in (h + 1)..e /\ t \in 1..Len(info) /\ t \in Nat
    BY <1>0, <1>3, <1>4, <1>5, <2>4
  <2>6. info[t].code > 0 /\ Abbreviations[info[t].code].tag \in {"base_type", "array_type"}
    BY <1>7, <2>4, <2>5, Tagged
  <2>7. t \in DIEsOf("base_type") \cup DIEsOf("array_type")
    BY <1>0, <2>5, <2>6 DEF DIEsOf
  <2>8. PICK g \in HeadersIn(info) :
               /\ t \in (g + 1)..EndOf(info, g) /\ CompleteUnit(info, linePrograms, g, 0)
               /\ Max({x \in HeadersIn(info) : x <= t}) = g
    BY <1>7, <2>5, UnitOf
  <2>9. g = h
    <3>1. g \in Nat /\ info[g].code = Header /\ info[h].code = Header
      BY <1>0 DEF HeadersIn
    <3>2. EndOf(info, g) \in Nat /\ \A k \in (g + 1)..EndOf(info, g) : info[k].code # Header
      BY <2>8, <3>1, NoHeaderInside
    <3>3. h \notin (g + 1)..EndOf(info, g) /\ g \notin (h + 1)..e
      BY <1>7, <3>1, <3>2
    <3> QED BY <1>3, <1>4, <2>5, <2>8, <3>1, <3>2, <3>3
  <2> QED BY <1>1, <2>5, <2>7, <2>8, <2>9 DEF HeaderOfDIE
<1> QED BY <1>2, <1>4, <1>6, <1>7, <1>8, <1>9

-----------------------------------------------------------------------------
(* A unit more.                                                            *)

\* c has the elements of d from position o + 1 on.
Holds(c, d, o) ==
    /\ Len(c) \in Nat /\ Len(d) \in Nat /\ o + Len(d) <= Len(c)
    /\ \A k \in 1..Len(d) : c[o + k] = d[k]

\* A unit of d, whose references count from `from', which c holds; its own count
\* from `at'.
Movable(d, c, lp, o, h, at, from) ==
    /\ o \in Nat /\ h \in Nat \ {0} /\ at \in Nat /\ from = at + o
    /\ Holds(c, d, o) /\ CompleteUnit(d, lp, h, from)

\* A unit is as good elsewhere, its references counted from there.
LEMMA UnitMoved ==
    ASSUME NEW d, NEW c, NEW lp, NEW o, NEW h, NEW at, NEW from,
           Movable(d, c, lp, o, h, at, from)
    PROVE  CompleteUnit(c, lp, o + h, at) /\ EndOf(c, o + h) = o + EndOf(d, h)
PROOF
<1>0. /\ o \in Nat /\ h \in Nat \ {0} /\ at \in Nat /\ from = at + o
      /\ Holds(c, d, o) /\ CompleteUnit(d, lp, h, from)
  BY DEF Movable
<1>1. PICK n \in Nat : n = d[h].values[1]
  BY <1>0 DEF CompleteUnit
<1>2. PICK e \in Nat : e = EndOf(d, h) /\ e = h + n
  BY <1>0, <1>1 DEF EndOf
<1>3. PICK m \in Nat : m = Len(d)
  BY <1>0 DEF Holds
<1>4. h + 1 <= e /\ e <= m /\ h \in 1..m /\ h + 1 \in 1..m
  <2>1. e \in (h + 1)..m
    BY <1>0, <1>2, <1>3 DEF CompleteUnit
  <2> QED BY <1>0, <2>1
<1>5. \A k \in 1..m : c[o + k] = d[k]
  BY <1>0, <1>3 DEF Holds
<1>6. c[o + h] = d[h] /\ c[o + h + 1] = d[h + 1]
  <2>1. c[o + (h + 1)] = d[h + 1] /\ o + (h + 1) = o + h + 1
    BY <1>0, <1>4, <1>5
  <2> QED BY <1>0, <1>4, <1>5, <2>1
<1>7. EndOf(c, o + h) = o + e
  BY <1>0, <1>1, <1>2, <1>6 DEF EndOf
<1>8. o + e \in (o + h + 1)..Len(c)
  <2>1. o + m <= Len(c) /\ Len(c) \in Nat
    BY <1>0, <1>3 DEF Holds
  <2> QED BY <1>0, <1>4, <2>1
<1>9. ASSUME NEW k \in (o + h + 2)..(o + e)
      PROVE  \E j \in (h + 2)..e : k = o + j /\ c[k] = d[j]
  <2>1. k - o \in (h + 2)..e /\ k = o + (k - o) /\ k - o \in 1..m
    BY <1>0, <1>4
  <2> QED BY <1>0, <1>5, <2>1
<1>10. ASSUME NEW k \in (o + h + 2)..(o + e)
       PROVE  ElementOK(c, o + h, o + e, at, k)
  <2>1. PICK j \in (h + 2)..e : k = o + j /\ c[k] = d[j]
    BY <1>0, <1>9
  <2>2. ElementOK(d, h, e, from, j)
    BY <1>0, <1>2, <2>1 DEF CompleteUnit
  <2>3. RangeOK(c, o + h, k)
    BY <1>0, <1>6, <2>1, <2>2 DEF ElementOK, RangeOK
  <2>4. ASSUME d[j].code \in References
        PROVE  \E t \in (o + h + 2)..(o + e) :
                 c[t].code \in TypeCodes /\ at + t = Attribute(c[k], "type") + 1
    <3>1. PICK t \in (h + 2)..e :
            d[t].code \in TypeCodes /\ from + t = Attribute(d[j], "type") + 1
      BY <1>0, <2>2, <2>4 DEF ElementOK, ReferenceOK
    <3>2. o + t \in (o + h + 2)..(o + e) /\ at + (o + t) = from + t /\ t \in 1..m
      BY <1>0, <1>4
    <3>3. c[o + t] = d[t]
      BY <1>0, <1>5, <3>2
    <3> QED BY <1>0, <2>1, <3>1, <3>2, <3>3
  <2>5. ReferenceOK(c, o + h, o + e, at, k)
    BY <1>0, <2>1, <2>4 DEF ReferenceOK
  <2> QED BY <1>0, <2>1, <2>2, <2>3, <2>5 DEF ElementOK
<1>11. ASSUME NEW i \in (o + h + 2)..(o + e), NEW j \in (o + h + 2)..(o + e)
       PROVE  DisjointIn(c, i, j)
  <2>1. PICK x \in (h + 2)..e : c[i] = d[x]
    BY <1>0, <1>9
  <2>2. PICK y \in (h + 2)..e : c[j] = d[y]
    BY <1>0, <1>9
  <2>3. DisjointIn(d, x, y)
    BY <1>0, <1>2 DEF CompleteUnit
  <2> QED BY <1>0, <2>1, <2>2, <2>3 DEF DisjointIn
<1>12. UnitElementOK(c[o + h + 1], lp) /\ c[o + h].code = Header /\ c[o + h].values[1] \in Nat
  BY <1>0, <1>6 DEF CompleteUnit
<1> QED BY <1>0, <1>2, <1>7, <1>8, <1>10, <1>11, <1>12 DEF CompleteUnit

\* A unit is as good with a line program more.
LEMMA MorePrograms ==
    ASSUME NEW d, NEW lp, IsSequence(lp), NEW p, NEW h, NEW at, CompleteUnit(d, lp, h, at)
    PROVE  CompleteUnit(d, Append(lp, p), h, at)
PROOF
<1>1. PICK lq : lq = Append(lp, p)
  OBVIOUS
<1>2. Len(lp) \in Nat /\ Len(lq) = Len(lp) + 1 /\ \A i \in 1..Len(lp) : lq[i] = lp[i]
  BY <1>1, AppendAdds, SequenceIs
<1>3. PICK a : a = Attribute(d[h + 1], "stmt_list")
  OBVIOUS
<1>4. a \in 0..(Len(lp) - 1) /\ lp[a + 1].file = Attribute(d[h + 1], "name")
  BY <1>3 DEF CompleteUnit, UnitElementOK
<1>5. a \in 0..(Len(lq) - 1) /\ a + 1 \in 1..Len(lp)
  BY <1>2, <1>4
<1>6. UnitElementOK(d[h + 1], lq)
  BY <1>2, <1>3, <1>4, <1>5 DEF CompleteUnit, UnitElementOK
<1> QED BY <1>1, <1>6 DEF CompleteUnit

\* What CompileUnit has to give: one unit, whose offsets count from `at'.
UnitGiven(x, lp, at) ==
    IsSequence(x) /\ CompleteUnit(x, lp, 1, at) /\ EndOf(x, 1) = Len(x)

\* A unit more at the end.
LEMMA UnitAdded ==
    ASSUME NEW d, NEW lp, Structured(d, lp), IsSequence(lp), NEW p, NEW x,
           UnitGiven(x, Append(lp, p), Len(d))
    PROVE  Structured(d \o x, Append(lp, p))
PROOF
<1>1. PICK lq : lq = Append(lp, p)
  OBVIOUS
<1>2. PICK c : c = d \o x
  OBVIOUS
<1>3. IsSequence(d) /\ IsSequence(x)
  BY DEF Structured, UnitGiven
<1>4. PICK m \in Nat : m = Len(d)
  BY <1>3, SequenceIs
<1>5. PICK n \in Nat : n = Len(x)
  BY <1>3, SequenceIs
<1>6. /\ IsSequence(c) /\ Len(c) = m + n
      /\ \A i \in 1..m : c[i] = d[i]
      /\ \A i \in 1..n : c[m + i] = x[i]
  BY <1>2, <1>3, <1>4, <1>5, ConcatJoins DEF Joined
<1>7. CompleteUnit(x, lq, 1, m) /\ EndOf(x, 1) = n
  BY <1>1, <1>4, <1>5 DEF UnitGiven
<1>8. n \in Nat /\ n >= 2
  <2>1. EndOf(x, 1) \in 2..n
    BY <1>5, <1>7 DEF CompleteUnit
  <2> QED BY <2>1
<1>9. ASSUME NEW h \in HeadersIn(d)
      PROVE  CompleteUnit(c, lq, h, 0) /\ EndOf(c, h) = EndOf(d, h)
  <2>1. CompleteUnit(d, lq, h, 0)
    BY <1>1, MorePrograms DEF Structured
  <2>2. h \in Nat \ {0}
    BY <1>4 DEF HeadersIn
  <2>3. PICK z \in Nat : z = 0
    OBVIOUS
  <2>4. Holds(c, d, z)
    <3>1. \A k \in 1..m : z + k = k
      BY <2>3
    <3> QED BY <1>4, <1>5, <1>6, <2>3, <3>1 DEF Holds
  <2>5. Movable(d, c, lq, z, h, z, z)
    BY <2>1, <2>2, <2>3, <2>4 DEF Movable
  <2>6. CompleteUnit(c, lq, z + h, z) /\ EndOf(c, z + h) = z + EndOf(d, h)
    BY <2>5, UnitMoved
  <2>7. EndOf(d, h) \in Nat
    BY <2>1, <2>2, NoHeaderInside
  <2> QED BY <2>2, <2>3, <2>6, <2>7
<1>10. CompleteUnit(c, lq, m + 1, 0) /\ EndOf(c, m + 1) = m + n
  <2>1. Holds(c, x, m)
    BY <1>4, <1>5, <1>6 DEF Holds
  <2>2. PICK z \in Nat : z = 0
    OBVIOUS
  <2>3. PICK one \in Nat \ {0} : one = 1
    OBVIOUS
  <2>4. Movable(x, c, lq, m, one, z, m)
    BY <1>7, <2>1, <2>2, <2>3 DEF Movable
  <2>5. CompleteUnit(c, lq, m + one, z) /\ EndOf(c, m + one) = m + EndOf(x, one)
    BY <2>4, UnitMoved
  <2> QED BY <1>7, <2>2, <2>3, <2>5
<1>11. HeadersIn(c) = HeadersIn(d) \cup {m + 1}
  <2>1. \A i \in 1..m : i \in HeadersIn(c) <=> i \in HeadersIn(d)
    BY <1>4, <1>6 DEF HeadersIn
  <2>2. m + 1 \in HeadersIn(c)
    BY <1>6, <1>8, <1>10 DEF HeadersIn, CompleteUnit
  <2>3. \A k \in 2..n : x[k].code # Header
    <3>1. PICK one \in Nat : one = 1
      OBVIOUS
    <3>2. \A k \in (one + 1)..EndOf(x, one) : x[k].code # Header
      BY <1>7, <3>1, NoHeaderInside
    <3> QED BY <1>7, <3>1, <3>2
  <2>4. ASSUME NEW i \in (m + 2)..(m + n) PROVE i \notin HeadersIn(c)
    <3>1. i - m \in 2..n /\ i - m \in 1..n /\ m + (i - m) = i
      OBVIOUS
    <3>2. c[i] = x[i - m]
      BY <1>6, <3>1
    <3> QED BY <2>3, <3>1, <3>2 DEF HeadersIn
  <2>5. HeadersIn(d) \subseteq 1..m /\ HeadersIn(c) \subseteq 1..(m + n)
    BY <1>4, <1>6 DEF HeadersIn
  <2>6. \A i \in 1..(m + n) : i \in 1..m \/ i = m + 1 \/ i \in (m + 2)..(m + n)
    OBVIOUS
  <2> QED BY <2>1, <2>2, <2>4, <2>5, <2>6
<1>12. ASSUME NEW h \in HeadersIn(c)
       PROVE  CompleteUnit(c, lq, h, 0) /\ EndOf(c, h) + 1 \in HeadersIn(c) \cup {Len(c) + 1}
  <2>1. CASE h \in HeadersIn(d)
    <3>1. EndOf(d, h) + 1 \in HeadersIn(d) \cup {m + 1}
      BY <1>4, <2>1 DEF Structured
    <3> QED BY <1>9, <1>11, <2>1, <3>1
  <2>2. CASE h = m + 1
    BY <1>6, <1>10, <2>2
  <2> QED BY <1>11, <2>1, <2>2
<1>13. ASSUME NEW i \in 1..Len(c)
       PROVE  \E h \in HeadersIn(c) : h <= i /\ i <= EndOf(c, h)
  <2>1. CASE i \in 1..m
    <3>1. PICK h \in HeadersIn(d) : h <= i /\ i <= EndOf(d, h)
      BY <1>4, <2>1 DEF Structured
    <3> QED BY <1>9, <1>11, <3>1
  <2>2. CASE i \in (m + 1)..(m + n)
    BY <1>10, <1>11, <2>2
  <2> QED BY <1>6, <2>1, <2>2
<1> QED BY <1>1, <1>2, <1>6, <1>12, <1>13 DEF Structured

-----------------------------------------------------------------------------
(* The types of a unit.                                                    *)

\* The types a symbol brings.
LEMMA SymbolTypesAre ==
    ASSUME NEW s, SymbolOK(s)
    PROVE  /\ IsSequence(SymbolTypes(s))
           /\ s.kind # "Variable" =>
                \A v \in Range(s.params) \cup Range(s.locals) : v.type \in Range(SymbolTypes(s))
PROOF
<1>1. CASE s.kind = "Variable"
  <2>1. SymbolTypes(s) = <<s.type>>
    BY <1>1 DEF SymbolTypes
  <2>2. SymbolTypes(s) \in Seq({s.type})
    BY <2>1
  <2> QED BY <1>1, <2>2, SequenceOver
<1>2. CASE s.kind # "Variable"
  <2>1. PICK q : q = s.params \o s.locals
    OBVIOUS
  <2>2. IsSequence(q) /\ Range(q) = Range(s.params) \cup Range(s.locals)
    BY <2>1, ConcatJoins DEF SymbolOK, SlotsOK, Joined
  <2>3. PICK n \in Nat : n = Len(q)
    BY <2>2, SequenceIs
  <2>4. DOMAIN q = 1..n /\ Range(q) = {q[i] : i \in 1..n}
    BY <2>2, <2>3, SequenceIs
  <2>5. PICK ts : ts = [i \in 1..n |-> q[i].type]
    OBVIOUS
  <2>6. SymbolTypes(s) = ts
    BY <1>2, <2>1, <2>4, <2>5 DEF SymbolTypes
  <2>7. IsSequence(ts)
    BY <2>5, SequenceOf
  <2>8. \A v \in Range(q) : v.type \in Range(ts)
    BY <2>4, <2>5 DEF Range
  <2> QED BY <2>2, <2>6, <2>7, <2>8
<1> QED BY <1>1, <1>2

\* The types of a unit have those of every slot, and begin with that of the
\* elements when there are arrays.
TypesFor(types, u) ==
    /\ IsSequence(types)
    /\ \A s \in Range(u.symbols) : s.kind # "Variable" =>
         \A v \in Range(s.params) \cup Range(s.locals) : v.type \in Range(types)
    /\ (\E t \in Range(types) : t.kind = "array") => Len(types) # 0 /\ types[1] = ByteType

\* TypesOf gives them.
LEMMA TypesAre ==
    ASSUME NEW u, UnitOK(u)
    PROVE  TypesFor(TypesOf(u), u)
PROOF
<1>1. IsSequence(u.symbols) /\ \A s \in Range(u.symbols) : SymbolOK(s)
  BY DEF UnitOK
<1>2. PICK n \in Nat : n = Len(u.symbols)
  BY <1>1, SequenceIs
<1>3. DOMAIN u.symbols = 1..n /\ Range(u.symbols) = {u.symbols[i] : i \in 1..n}
  BY <1>1, <1>2, SequenceIs
<1>4. PICK ss : ss = [i \in 1..n |-> SymbolTypes(u.symbols[i])]
  OBVIOUS
<1>5. IsSequence(ss) /\ Len(ss) = n
  BY <1>4, SequenceOf
<1>6. \A i \in 1..n : IsSequence(ss[i])
  BY <1>1, <1>3, <1>4, SymbolTypesAre
<1>7. PICK all : all = FlattenSeq(ss)
  OBVIOUS
<1>8. IsSequence(all) /\ Range(all) = UNION {Range(ss[i]) : i \in 1..n}
  BY <1>5, <1>6, <1>7, FlattenIs
<1>9. PICK elements :
        elements = IF \E t \in Range(all) : t.kind = "array" THEN <<ByteType>> ELSE <<>>
  OBVIOUS
<1>10. /\ IsSequence(elements)
       /\ (\E t \in Range(all) : t.kind = "array") => Len(elements) = 1 /\ elements[1] = ByteType
       /\ Range(elements) \subseteq {ByteType}
  <2>1. CASE \E t \in Range(all) : t.kind = "array"
    <3>1. elements = <<ByteType>>
      BY <1>9, <2>1
    <3>2. elements \in Seq({ByteType}) /\ Len(elements) = 1 /\ elements[1] = ByteType
      BY <3>1
    <3> QED BY <3>2, SequenceOver
  <2>2. CASE ~\E t \in Range(all) : t.kind = "array"
    <3>1. elements = <<>>
      BY <1>9, <2>2
    <3>2. elements \in Seq({ByteType})
      BY <3>1
    <3> QED BY <2>2, <3>2, SequenceOver
  <2> QED BY <2>1, <2>2
<1>11. PICK kept : kept = Among(all, Range(all) \ (Range(elements) \cup {NoType}))
  OBVIOUS
<1>12. PICK R : R = Range(all)
  OBVIOUS
<1>13. all \in Seq(R)
  BY <1>8, <1>12, SequenceIs
<1>14. kept \in Seq(R) /\ Range(kept) = R \ (Range(elements) \cup {NoType})
  <2>1. PICK S : S = R \ (Range(elements) \cup {NoType})
    OBVIOUS
  <2>2. kept = Among(all, S)
    BY <1>11, <1>12, <2>1
  <2>3. kept \in Seq(R) /\ Range(kept) = R \cap S
    BY <1>12, <1>13, <2>2, AmongType, AmongRange
  <2> QED BY <2>1, <2>3
<1>15. PICK others : others = Distinct(kept)
  OBVIOUS
<1>16. others \in Seq(R) /\ Range(others) = R \ (Range(elements) \cup {NoType})
  BY <1>14, <1>15, DistinctIs
<1>17. PICK types : types = elements \o others
  OBVIOUS
<1>18. TypesOf(u) = types
  <2>1. ss = [i \in DOMAIN u.symbols |-> SymbolTypes(u.symbols[i])]
    BY <1>3, <1>4
  <2> QED BY <1>7, <1>9, <1>11, <1>15, <1>17, <2>1, Zenon DEF TypesOf
<1>19. Joined(types, elements, others)
  BY <1>10, <1>16, <1>17, ConcatJoins, SequenceOver
<1>20. Range(types) = Range(elements) \cup (R \ {NoType})
  BY <1>16, <1>19, <1>12 DEF Joined
<1>21. ASSUME NEW s \in Range(u.symbols), s.kind # "Variable",
              NEW v \in Range(s.params) \cup Range(s.locals)
       PROVE  v.type \in Range(types)
  <2>1. PICK i \in 1..n : s = u.symbols[i]
    BY <1>3
  <2>2. SymbolOK(s)
    BY <1>1
  <2>3. v.type \in Range(ss[i])
    BY <1>4, <1>21, <2>1, <2>2, SymbolTypesAre
  <2>4. v.type \in R
    BY <1>8, <1>12, <2>3
  <2>5. v.type # NoType
    BY <2>2 DEF SymbolOK, SlotsOK
  <2> QED BY <1>20, <2>4, <2>5
<1>22. ASSUME NEW t \in Range(types), t.kind = "array"
       PROVE  Len(types) # 0 /\ types[1] = ByteType
  <2>1. t \in R
    BY <1>10, <1>20, <1>22 DEF ByteType
  <2>2. Len(elements) = 1 /\ elements[1] = ByteType
    BY <1>10, <1>12, <1>22, <2>1
  <2>3. Len(others) \in Nat
    BY <1>16
  <2> QED BY <1>19, <2>2, <2>3 DEF Joined
<1> QED BY <1>18, <1>19, <1>21, <1>22 DEF TypesFor, Joined

-----------------------------------------------------------------------------
(* The elements of the types.                                              *)

\* The elements of one type, its own first.
TypeElements(q, t, offsets) ==
    /\ IsSequence(q) /\ Len(q) \in {1, 3} /\ q[1].code \in TypeCodes
    /\ \A k \in 1..Len(q) :
         /\ q[k].code \in {0, 5, 6, 7}
         /\ q[k].code = 6 =>
              t.kind = "array" /\ Attribute(q[k], "type") = OffsetOf(offsets, ByteType)

\* TypeDIE gives them.
LEMMA TypeElementsAre ==
    ASSUME NEW t, NEW offsets
    PROVE  TypeElements(TypeDIE(t, offsets), t, offsets)
PROOF
<1>1. PICK q : q = TypeDIE(t, offsets)
  OBVIOUS
<1>2. CASE t.kind # "array"
  <2>1. PICK x : x = DIE(5, Described[t.kind])
    OBVIOUS
  <2>2. q = <<x>> /\ x.code = 5
    BY <1>1, <1>2, <2>1 DEF TypeDIE, DIE
  <2>3. q \in Seq({x}) /\ Len(q) = 1 /\ q[1] = x
    BY <2>2
  <2>4. IsSequence(q)
    BY <2>3, SequenceOver
  <2> QED BY <1>1, <2>2, <2>3, <2>4 DEF TypeElements, TypeCodes
<1>3. CASE t.kind = "array"
  <2>1. PICK o : o = OffsetOf(offsets, ByteType)
    OBVIOUS
  <2>2. PICK x : x = DIE(6, <<o>>)
    OBVIOUS
  <2>3. PICK y : y = DIE(7, <<t.length>>)
    OBVIOUS
  <2>4. PICK z : z = EndOfChildren
    OBVIOUS
  <2>5. x.code = 6 /\ x.values[1] = o /\ y.code = 7 /\ z.code = 0
    BY <2>2, <2>3, <2>4 DEF DIE, EndOfChildren
  <2>6. q = <<x, y, z>>
    BY <1>1, <1>3, <2>1, <2>2, <2>3, <2>4 DEF TypeDIE
  <2>7. q \in Seq({x, y, z}) /\ Len(q) = 3 /\ q[1] = x /\ q[2] = y /\ q[3] = z
    BY <2>6
  <2>8. IsSequence(q)
    BY <2>7, SequenceOver
  <2>9. Attribute(x, "type") = o
    <3>1. x.code \in References
      BY <2>5 DEF References
    <3>2. Attribute(x, "type") = x.values[1]
      BY <2>5, <3>1, TypeAttribute
    <3> QED BY <2>5, <3>2
  <2>10. \A k \in 1..3 : k = 1 \/ k = 2 \/ k = 3
    OBVIOUS
  <2>11. ASSUME NEW k \in 1..3
         PROVE  /\ q[k].code \in {0, 5, 6, 7}
                /\ q[k].code = 6 => Attribute(q[k], "type") = o
    BY <2>5, <2>7, <2>9, <2>10
  <2> QED BY <1>1, <1>3, <2>1, <2>5, <2>7, <2>8, <2>11 DEF TypeElements, TypeCodes
<1> QED BY <1>2, <1>3

\* What is written and found after n of the types, the first element at offset `at'.
FoundAt(w, at, t) ==
    /\ w.offsets[t] \in Nat
    /\ \E p \in 1..Len(w.dies) : w.dies[p].code \in TypeCodes /\ at + p = w.offsets[t] + 1
WrittenAt(w, at, k) ==
    /\ w.dies[k].code \in {0, 5, 6, 7}
    /\ w.dies[k].code = 6 =>
         \E p \in 1..Len(w.dies) :
           w.dies[p].code \in TypeCodes /\ at + p = Attribute(w.dies[k], "type") + 1
TypesWritten(w, types, n, at) ==
    /\ IsSequence(w.dies)
    /\ DOMAIN w.offsets = {types[i] : i \in 1..n}
    /\ \A t \in DOMAIN w.offsets : FoundAt(w, at, t)
    /\ \A k \in 1..Len(w.dies) : WrittenAt(w, at, k)

\* One type more.
LEMMA AnotherType ==
    ASSUME NEW w, NEW types, NEW n \in Nat, NEW at \in Nat, TypesWritten(w, types, n, at),
           types[n + 1].kind = "array" => ByteType \in DOMAIN w.offsets
    PROVE  TypesWritten(AfterType(w, types[n + 1], at), types, n + 1, at)
PROOF
<1>1. PICK t : t = types[n + 1]
  OBVIOUS
<1>2. PICK v : v = AfterType(w, t, at)
  OBVIOUS
<1>3. PICK q : q = TypeDIE(t, w.offsets)
  OBVIOUS
<1>4. TypeElements(q, t, w.offsets)
  BY <1>3, TypeElementsAre
<1>5. /\ v.dies = w.dies \o q
      /\ v.offsets = [x \in DOMAIN w.offsets \cup {t} |->
                       IF x \in DOMAIN w.offsets THEN w.offsets[x] ELSE at + Len(w.dies)]
  BY <1>2, <1>3 DEF AfterType
<1>6. IsSequence(w.dies)
  BY DEF TypesWritten
<1>7. PICK m \in Nat : m = Len(w.dies)
  BY <1>6, SequenceIs
<1>8. PICK l \in Nat : l = Len(q) /\ l >= 1
  BY <1>4 DEF TypeElements
<1>9. /\ IsSequence(v.dies) /\ Len(v.dies) = m + l
      /\ \A k \in 1..m : v.dies[k] = w.dies[k]
      /\ \A k \in 1..l : v.dies[m + k] = q[k]
  <2>1. Joined(v.dies, w.dies, q)
    BY <1>4, <1>5, <1>6, ConcatJoins DEF TypeElements
  <2> QED BY <2>1, <1>7, <1>8 DEF Joined
<1>10. /\ DOMAIN v.offsets = DOMAIN w.offsets \cup {t}
       /\ \A x \in DOMAIN w.offsets : v.offsets[x] = w.offsets[x]
       /\ t \notin DOMAIN w.offsets => v.offsets[t] = at + m
  BY <1>5, <1>7
<1>11. ASSUME NEW x \in DOMAIN w.offsets PROVE FoundAt(v, at, x)
  <2>1. w.offsets[x] \in Nat
    BY DEF TypesWritten, FoundAt
  <2>2. PICK p \in 1..m : w.dies[p].code \in TypeCodes /\ at + p = w.offsets[x] + 1
    BY <1>7 DEF TypesWritten, FoundAt
  <2>3. p \in 1..(m + l)
    BY <1>8
  <2> QED BY <1>9, <1>10, <2>1, <2>2, <2>3 DEF FoundAt
<1>12. ASSUME t \notin DOMAIN w.offsets PROVE FoundAt(v, at, t)
  <2>1. v.offsets[t] = at + m
    BY <1>10, <1>12
  <2>2. v.dies[m + 1].code \in TypeCodes
    BY <1>4, <1>8, <1>9 DEF TypeElements
  <2>3. m + 1 \in 1..(m + l) /\ at + (m + 1) = (at + m) + 1
    BY <1>8
  <2> QED BY <1>9, <2>1, <2>2, <2>3 DEF FoundAt
<1>13. DOMAIN v.offsets = {types[i] : i \in 1..(n + 1)}
  <2>1. 1..(n + 1) = (1..n) \cup {n + 1}
    OBVIOUS
  <2> QED BY <1>1, <1>10, <2>1 DEF TypesWritten
<1>14. ASSUME NEW k \in 1..m PROVE WrittenAt(v, at, k)
  <2>1. WrittenAt(w, at, k)
    BY <1>7 DEF TypesWritten
  <2>2. v.dies[k] = w.dies[k]
    BY <1>9
  <2>3. ASSUME w.dies[k].code = 6
        PROVE  \E p \in 1..(m + l) :
                 v.dies[p].code \in TypeCodes /\ at + p = Attribute(v.dies[k], "type") + 1
    <3>1. PICK p \in 1..m :
            w.dies[p].code \in TypeCodes /\ at + p = Attribute(w.dies[k], "type") + 1
      BY <1>7, <2>1, <2>3 DEF WrittenAt
    <3>2. p \in 1..(m + l)
      BY <1>8
    <3> QED BY <1>9, <2>2, <3>1, <3>2
  <2> QED BY <1>9, <2>1, <2>2, <2>3 DEF WrittenAt
<1>15. ASSUME NEW k \in 1..l PROVE WrittenAt(v, at, m + k)
  <2>1. /\ q[k].code \in {0, 5, 6, 7}
        /\ q[k].code = 6 =>
             t.kind = "array" /\ Attribute(q[k], "type") = OffsetOf(w.offsets, ByteType)
    BY <1>4, <1>8 DEF TypeElements
  <2>2. v.dies[m + k] = q[k]
    BY <1>9
  <2>3. ASSUME q[k].code = 6
        PROVE  \E p \in 1..(m + l) :
                 v.dies[p].code \in TypeCodes /\ at + p = Attribute(v.dies[m + k], "type") + 1
    <3>1. ByteType \in DOMAIN w.offsets /\ Attribute(q[k], "type") = w.offsets[ByteType]
      BY <1>1, <2>1, <2>3 DEF OffsetOf
    <3>2. FoundAt(v, at, ByteType) /\ v.offsets[ByteType] = w.offsets[ByteType]
      BY <1>10, <1>11, <3>1
    <3> QED BY <1>9, <2>2, <3>1, <3>2 DEF FoundAt
  <2> QED BY <1>9, <2>1, <2>2, <2>3 DEF WrittenAt
<1>16. ASSUME NEW k \in 1..(m + l) PROVE WrittenAt(v, at, k)
  <2>1. k \in 1..m \/ (k - m \in 1..l /\ k = m + (k - m))
    OBVIOUS
  <2> QED BY <1>14, <1>15, <2>1
<1>17. \A x \in DOMAIN v.offsets : FoundAt(v, at, x)
  BY <1>10, <1>11, <1>12
<1> QED BY <1>1, <1>2, <1>9, <1>13, <1>16, <1>17 DEF TypesWritten

\* What the recursion of TypeDIEs goes through.
TypeValues(types) ==
    {Described[t.kind] : t \in Range(types)} \cup {<<t.length>> : t \in Range(types)}
      \cup {<<n>> : n \in Nat} \cup {<<>>}
TypeElementSet(types) == [code : {0, 5, 6, 7}, values : TypeValues(types)]
OffsetSet(types) == UNION {[A -> Nat] : A \in SUBSET Range(types)}
TypeStates(types) == [dies : Seq(TypeElementSet(types)), offsets : OffsetSet(types)]

\* One type more leaves it there.
LEMMA TypeStep ==
    ASSUME NEW types, NEW t \in Range(types), NEW at \in Nat, NEW w \in TypeStates(types)
    PROVE  AfterType(w, t, at) \in TypeStates(types)
PROOF
<1>1. PICK D : D = TypeElementSet(types)
  OBVIOUS
<1>2. w.dies \in Seq(D) /\ w.offsets \in OffsetSet(types)
  BY <1>1 DEF TypeStates
<1>3. PICK A \in SUBSET Range(types) : w.offsets \in [A -> Nat]
  BY <1>2 DEF OffsetSet
<1>4. PICK q : q = TypeDIE(t, w.offsets)
  OBVIOUS
<1>5. q \in Seq(D)
  <2>1. CASE t.kind # "array"
    <3>1. PICK d : d = Described[t.kind]
      OBVIOUS
    <3>2. d \in TypeValues(types)
      BY <3>1 DEF TypeValues
    <3>3. PICK x : x = DIE(5, d)
      OBVIOUS
    <3>4. x \in D
      BY <1>1, <3>2, <3>3 DEF TypeElementSet, DIE
    <3>5. q = <<x>>
      BY <1>4, <2>1, <3>1, <3>3 DEF TypeDIE
    <3> QED BY <3>4, <3>5
  <2>2. CASE t.kind = "array"
    <3>1. PICK o : o = OffsetOf(w.offsets, ByteType)
      OBVIOUS
    <3>2. o \in Nat
      BY <1>3, <3>1 DEF OffsetOf
    <3>3. PICK l : l = t.length
      OBVIOUS
    <3>4. <<o>> \in TypeValues(types) /\ <<l>> \in TypeValues(types) /\ <<>> \in TypeValues(types)
      BY <3>2, <3>3 DEF TypeValues
    <3>5. PICK x : x = DIE(6, <<o>>)
      OBVIOUS
    <3>6. PICK y : y = DIE(7, <<l>>)
      OBVIOUS
    <3>7. PICK z : z = EndOfChildren
      OBVIOUS
    <3>8. x \in D /\ y \in D /\ z \in D
      BY <1>1, <3>4, <3>5, <3>6, <3>7 DEF TypeElementSet, DIE, EndOfChildren
    <3>9. q = <<x, y, z>>
      BY <1>4, <2>2, <3>1, <3>3, <3>5, <3>6, <3>7 DEF TypeDIE
    <3> QED BY <3>8, <3>9
  <2> QED BY <2>1, <2>2
<1>6. PICK m \in Nat : m = Len(w.dies)
  BY <1>2
<1>7. PICK v : v = AfterType(w, t, at)
  OBVIOUS
<1>8. PICK dies : dies = w.dies \o q
  OBVIOUS
<1>9. dies \in Seq(D)
  BY <1>2, <1>5, <1>8
<1>10. PICK offsets : offsets = [x \in DOMAIN w.offsets \cup {t} |->
                                  IF x \in DOMAIN w.offsets THEN w.offsets[x] ELSE at + m]
  OBVIOUS
<1>11. v = [dies |-> dies, offsets |-> offsets]
  BY <1>4, <1>6, <1>7, <1>8, <1>10 DEF AfterType
<1>12. at + m \in Nat
  OBVIOUS
<1>13. offsets \in [A \cup {t} -> Nat]
  BY <1>3, <1>10, <1>12
<1>14. offsets \in OffsetSet(types)
  BY <1>3, <1>13 DEF OffsetSet
<1> QED BY <1>1, <1>7, <1>9, <1>11, <1>14 DEF TypeStates

\* TypeDIEs writes and finds all of them.
LEMMA TypesAreWritten ==
    ASSUME NEW u, UnitOK(u), NEW at \in Nat
    PROVE  TypesWritten(TypeDIEs(u, at), TypesOf(u), Len(TypesOf(u)), at)
PROOF
<1>1. PICK types : types = TypesOf(u)
  OBVIOUS
<1>2. TypesFor(types, u)
  BY <1>1, TypesAre
<1>3. PICK N \in Nat : N = Len(types)
  BY <1>2, SequenceIs DEF TypesFor
<1>4. \A n \in 1..N : types[n] \in Range(types)
  BY <1>2, <1>3, SequenceIs DEF TypesFor
<1>5. PICK S : S = TypeStates(types)
  OBVIOUS
<1>6. PICK a : a = [dies |-> <<>>, offsets |-> <<>>]
  OBVIOUS
<1>7. a \in S
  <2>1. <<>> \in Seq(TypeElementSet(types))
    OBVIOUS
  <2>2. <<>> \in [{} -> Nat]
    OBVIOUS
  <2>3. <<>> \in OffsetSet(types)
    BY <2>2 DEF OffsetSet
  <2> QED BY <1>5, <1>6, <2>1, <2>3 DEF TypeStates
<1> DEFINE step == [n \in Nat |-> [v \in S |->
               IF n \in 1..N THEN AfterType(v, types[n], at) ELSE v]]
           Is(h) == h = [n \in 0..N |->
               IF n = 0 THEN a ELSE AfterType(h[n - 1], types[n], at)]
<1>8. step \in [Nat -> [S -> S]]
  <2>1. ASSUME NEW n \in Nat, NEW v \in S, n \in 1..N
        PROVE  AfterType(v, types[n], at) \in S
    BY <1>4, <1>5, <2>1, TypeStep
  <2> QED BY <2>1
<1>9. PICK g \in [0..N -> S] : g = [n \in 0..N |-> IF n = 0 THEN a ELSE step[n][g[n - 1]]]
  <2> HIDE DEF step
  <2>1. PICK z \in Nat : z = 0
    OBVIOUS
  <2>2. RecursionData(z, N, S, a, step)
    BY <1>7, <1>8 DEF RecursionData
  <2>3. PICK g : RecursiveFunction(g, z, N, S, a, step)
    BY <2>2, Recursion
  <2> QED BY <2>1, <2>3 DEF RecursiveFunction
<1>10. ASSUME NEW n \in 0..N, n # 0
       PROVE  step[n][g[n - 1]] = AfterType(g[n - 1], types[n], at)
  <2>1. n - 1 \in 0..N /\ n \in Nat /\ n \in 1..N
    BY <1>10
  <2>2. g[n - 1] \in S
    BY <2>1
  <2> QED BY <2>1, <2>2
<1>11. Is(g)
  <2> HIDE DEF step
  <2> QED BY <1>9, <1>10
<1>12. PICK f : f = CHOOSE h : Is(h)
  OBVIOUS
<1>13. Is(f)
  <2> HIDE DEF Is
  <2> QED BY <1>11, <1>12
<1>14. TypeDIEs(u, at) = f[N]
  BY <1>1, <1>3, <1>6, <1>12 DEF TypeDIEs
<1>15. f[0] = a /\ \A n \in 1..N : f[n] = AfterType(f[n - 1], types[n], at)
  <2>1. 0 \in 0..N /\ \A n \in 1..N : n \in 0..N /\ n # 0
    OBVIOUS
  <2> QED BY <1>13, <2>1
<1> HIDE DEF Is, step
<1> DEFINE T == {n \in Nat : TypesWritten(f[n], types, n, at)}
<1>16. 0 \in T
  <2>1. PICK e : e = <<>>
    OBVIOUS
  <2>2. f[0].dies = e /\ f[0].offsets = e
    BY <1>6, <1>15, <2>1
  <2>3. Len(e) = 0 /\ DOMAIN e = {} /\ e \in Seq({})
    BY <2>1
  <2>4. IsSequence(e)
    BY <2>3, SequenceOver
  <2>5. {types[i] : i \in 1..0} = {} /\ 1..0 = {}
    OBVIOUS
  <2> QED BY <2>2, <2>3, <2>4, <2>5 DEF TypesWritten
<1>17. ASSUME NEW n \in 0..N, n \in T, n + 1 <= N PROVE n + 1 \in T
  <2>1. n \in Nat /\ n + 1 \in 1..N /\ (n + 1) - 1 = n
    BY <1>17
  <2>2. f[n + 1] = AfterType(f[n], types[n + 1], at)
    BY <1>15, <2>1
  <2>3. TypesWritten(f[n], types, n, at)
    BY <1>17
  <2>4. ASSUME types[n + 1].kind = "array" PROVE ByteType \in DOMAIN f[n].offsets
    <3>1. types[1] = ByteType
      BY <1>2, <1>4, <2>1, <2>4 DEF TypesFor
    <3>2. n # 0
      BY <2>1, <2>4, <3>1 DEF ByteType
    <3>3. 1 \in 1..n
      BY <2>1, <3>2
    <3> QED BY <2>3, <3>1, <3>3 DEF TypesWritten
  <2>5. PICK w : w = f[n]
    OBVIOUS
  <2>6. TypesWritten(AfterType(w, types[n + 1], at), types, n + 1, at)
    BY <2>1, <2>3, <2>4, <2>5, AnotherType
  <2> QED BY <2>1, <2>2, <2>5, <2>6
<1>18. N \in T
  <2> HIDE DEF T
  <2>1. PICK z \in Nat : z = 0
    OBVIOUS
  <2>2. z..N \subseteq T
    BY <1>16, <1>17, <2>1, IntervalInduction
  <2> QED BY <2>1, <2>2
<1> QED BY <1>1, <1>3, <1>14, <1>18

-----------------------------------------------------------------------------
(* The addresses of a unit.                                                *)

\* A sequence has a greatest address.
LEMMA AddressesBounded ==
    ASSUME NEW q, IsSequence(q), \A x \in Range(q) : x.address \in Nat
    PROVE  \E b \in Nat : \A x \in Range(q) : x.address <= b
PROOF
<1>1. PICK n \in Nat : n = Len(q)
  BY SequenceIs
<1>2. DOMAIN q = 1..n /\ Range(q) = {q[i] : i \in 1..n}
  BY <1>1, SequenceIs
<1>3. PICK as : as = [i \in 1..n |-> q[i].address]
  OBVIOUS
<1>4. as \in [1..n -> Nat]
  BY <1>2, <1>3
<1>5. as \in Seq(Nat)
  <2>1. IsSequence(as)
    BY <1>3, SequenceOf
  <2>2. Range(as) \subseteq Nat
    BY <1>4 DEF Range
  <2> QED BY <2>1, <2>2, SequenceIs
<1>6. PICK b \in Nat : \A a \in Range(as) : a <= b
  BY <1>5, SeqBounded
<1>7. \A i \in 1..n : q[i].address \in Range(as)
  BY <1>3 DEF Range
<1> QED BY <1>2, <1>6, <1>7

\* The range of a unit.
LEMMA UnitRange ==
    ASSUME NEW u, UnitOK(u)
    PROVE  CuLow(u) \in Nat /\ CuHigh(u) \in Nat
PROOF
<1>1. PICK S : S = CuAddresses(u)
  OBVIOUS
<1>2. /\ IsSequence(u.symbols) /\ \A s \in Range(u.symbols) : s.address \in Nat
      /\ IsSequence(u.lines) /\ \A l \in Range(u.lines) : l.address \in Nat
  BY DEF UnitOK, SymbolOK
<1>3. S \in SUBSET Nat
  BY <1>1, <1>2 DEF CuAddresses
<1>4. PICK b \in Nat : \A x \in Range(u.symbols) : x.address <= b
  BY <1>2, AddressesBounded
<1>5. PICK c \in Nat : \A x \in Range(u.lines) : x.address <= c
  BY <1>2, AddressesBounded
<1>6. b + c \in Nat /\ \A n \in S : n <= b + c
  BY <1>1, <1>2, <1>4, <1>5 DEF CuAddresses
<1>7. S # {} => Min(S) \in Nat /\ Max(S) \in Nat
  BY <1>3, <1>6, MinIsLeast, MaxIsGreatest
<1> QED BY <1>1, <1>7 DEF CuLow, CuHigh

\* Where a symbol ends: above its address, in the unit, and before the next.
EndsWell(e, u, s) ==
    /\ e \in Nat /\ s.address < e /\ e <= CuHigh(u) + 1
    /\ \A o \in Range(u.symbols) : s.address < o.address => e <= o.address

\* SymbolEnd gives that.
LEMMA SymbolEnds ==
    ASSUME NEW u, UnitOK(u), NEW s \in Range(u.symbols), s.address \in CuLow(u)..CuHigh(u)
    PROVE  EndsWell(SymbolEnd(u, s), u, s)
PROOF
<1>1. PICK a \in Nat : a = s.address
  BY DEF UnitOK, SymbolOK
<1>2. PICK h \in Nat : h = CuHigh(u)
  BY UnitRange
<1>3. a <= h
  BY <1>1, <1>2, UnitRange
<1>4. PICK S : S = {h + 1} \cup ({o.address : o \in Range(u.symbols)} \ 0..a)
  OBVIOUS
<1>5. \A o \in Range(u.symbols) : o.address \in Nat
  BY DEF UnitOK, SymbolOK
<1>6. S \in SUBSET Nat /\ S # {} /\ \A n \in S : n > a
  BY <1>1, <1>3, <1>4, <1>5
<1>7. PICK best : best = Min(S)
  OBVIOUS
<1>8. best \in S /\ best \in Nat /\ \A n \in S : best <= n
  BY <1>6, <1>7, MinIsLeast
<1>9. best > a /\ best <= h + 1
  BY <1>4, <1>6, <1>8
<1>10. ASSUME NEW o \in Range(u.symbols), a < o.address PROVE best <= o.address
  <2>1. o.address \in S
    BY <1>1, <1>4, <1>5, <1>10
  <2> QED BY <1>8, <2>1
<1>11. PICK P : P = {best, a + 1}
  OBVIOUS
<1>12. P \in SUBSET Nat /\ P # {} /\ \A n \in P : n <= best
  BY <1>8, <1>9, <1>11
<1>13. Max(P) = best
  <2>1. Max(P) \in P /\ \A n \in P : n <= Max(P)
    BY <1>8, <1>12, MaxIsGreatest
  <2> QED BY <1>8, <1>9, <1>11, <1>12, <2>1
<1>14. SymbolEnd(u, s) = best
  BY <1>1, <1>2, <1>4, <1>7, <1>11, <1>13 DEF SymbolEnd
<1> QED BY <1>1, <1>2, <1>8, <1>9, <1>10, <1>14 DEF EndsWell

-----------------------------------------------------------------------------
(* The elements of the symbols.                                            *)

\* An element of a symbol of u, where the types are found at `offsets'.
SymbolElement(x, u, offsets) ==
    /\ x.code \in {0, 2, 3, 4, 8, 9, 10}
    /\ x.code \in References => \E t \in DOMAIN offsets : Attribute(x, "type") = offsets[t]
    /\ x.code \in Subprograms =>
         \E s \in Range(u.symbols) :
           /\ s.address \in CuLow(u)..CuHigh(u)
           /\ LowOf(x) = s.address /\ HighOf(x) = SymbolEnd(u, s)
SymbolElements(q, u, offsets) ==
    IsSequence(q) /\ \A x \in Range(q) : SymbolElement(x, u, offsets)

\* The types of the slots are found.
SlotsFound(slots, offsets) == \A v \in Range(slots) : v.type \in DOMAIN offsets

\* The elements of the slots of a frame.
LEMMA SlotsWritten ==
    ASSUME NEW u, NEW offsets, NEW slots, SlotsOK(slots), SlotsFound(slots, offsets),
           NEW code \in {9, 10}
    PROVE  SymbolElements(SlotDIEs(code, slots, offsets), u, offsets)
PROOF
<1>1. IsSequence(slots)
  BY DEF SlotsOK
<1>2. PICK n \in Nat : n = Len(slots)
  BY <1>1, SequenceIs
<1>3. DOMAIN slots = 1..n /\ Range(slots) = {slots[i] : i \in 1..n}
  BY <1>1, <1>2, SequenceIs
<1>4. PICK q : q = [i \in 1..n |->
        DIE(code, <<slots[i].name, OffsetOf(offsets, slots[i].type), slots[i].offset>>)]
  OBVIOUS
<1>5. IsSequence(q) /\ Range(q) = {q[i] : i \in 1..n}
  <2>1. IsSequence(q) /\ Len(q) = n
    BY <1>4, SequenceOf
  <2> QED BY <2>1, SequenceIs
<1>6. SlotDIEs(code, slots, offsets) = q
  BY <1>3, <1>4 DEF SlotDIEs
<1>7. ASSUME NEW i \in 1..n PROVE SymbolElement(q[i], u, offsets)
  <2>1. PICK t : t = slots[i].type
    OBVIOUS
  <2>2. t \in DOMAIN offsets
    BY <1>3, <2>1 DEF SlotsFound
  <2>3. PICK x : x = q[i]
    OBVIOUS
  <2>4. x.code = code /\ x.values[2] = offsets[t]
    BY <1>4, <2>1, <2>2, <2>3 DEF DIE, OffsetOf
  <2>5. Attribute(x, "type") = x.values[2]
    <3>1. x.code \in References /\ x.code # 4 /\ x.code # 6
      BY <2>4 DEF References
    <3> QED BY <3>1, TypeAttribute
  <2>6. x.code \notin Subprograms
    BY <2>4 DEF Subprograms
  <2> QED BY <2>2, <2>3, <2>4, <2>5, <2>6 DEF SymbolElement
<1> QED BY <1>5, <1>6, <1>7 DEF SymbolElements

\* One element by itself.
LEMMA OneElement ==
    ASSUME NEW u, NEW offsets, NEW x, SymbolElement(x, u, offsets)
    PROVE  SymbolElements(<<x>>, u, offsets)
PROOF
<1>1. <<x>> \in Seq({x})
  OBVIOUS
<1>2. IsSequence(<<x>>) /\ Range(<<x>>) \subseteq {x}
  BY <1>1, SequenceOver
<1> QED BY <1>2 DEF SymbolElements

\* One after another.
LEMMA MoreElements ==
    ASSUME NEW u, NEW offsets, NEW p, SymbolElements(p, u, offsets),
           NEW q, SymbolElements(q, u, offsets)
    PROVE  SymbolElements(p \o q, u, offsets)
PROOF
<1>1. Joined(p \o q, p, q)
  BY ConcatJoins DEF SymbolElements
<1> QED BY <1>1 DEF Joined, SymbolElements

\* The elements of a function.
LEMMA FunctionWritten ==
    ASSUME NEW u, NEW offsets, NEW s \in Range(u.symbols), SymbolOK(s),
           s.address \in CuLow(u)..CuHigh(u),
           SlotsFound(s.params, offsets), SlotsFound(s.locals, offsets)
    PROVE  SymbolElements(FunctionDIEs(u, s, offsets), u, offsets)
PROOF
<1>1. PICK q : q = FunctionDIEs(u, s, offsets)
  OBVIOUS
<1>2. PICK a : a = s.address
  OBVIOUS
<1>3. PICK e : e = SymbolEnd(u, s)
  OBVIOUS
<1>4. PICK values : values = <<s.name, a, e, TRUE>>
  OBVIOUS
<1>5. ASSUME NEW x, x.code \in Subprograms, x.values[2] = a, x.values[3] = e
      PROVE  SymbolElement(x, u, offsets)
  <2>1. LowOf(x) = a /\ HighOf(x) = e
    BY <1>5, SubprogramAttributes
  <2>2. x.code \in {0, 2, 3, 4, 8, 9, 10} /\ x.code \notin References
    BY <1>5 DEF Subprograms, References
  <2> QED BY <1>2, <1>3, <2>1, <2>2 DEF SymbolElement
<1>6. CASE s.params = <<>> /\ s.locals = <<>>
  <2>1. PICK x : x = DIE(2, values)
    OBVIOUS
  <2>2. x.code \in Subprograms /\ x.values[2] = a /\ x.values[3] = e
    BY <1>4, <2>1 DEF DIE, Subprograms
  <2>3. q = <<x>>
    BY <1>1, <1>2, <1>3, <1>4, <1>6, <2>1 DEF FunctionDIEs
  <2> QED BY <1>1, <1>5, <2>2, <2>3, OneElement
<1>7. CASE ~(s.params = <<>> /\ s.locals = <<>>)
  <2>1. PICK base : base = "rbp"
    OBVIOUS
  <2>2. PICK more : more = Append(values, base)
    OBVIOUS
  <2>3. PICK x : x = DIE(8, more)
    OBVIOUS
  <2>4. x.code \in Subprograms /\ x.values[2] = a /\ x.values[3] = e
    <3>1. values \in Seq({s.name, a, e, TRUE}) /\ Len(values) = 4
          /\ values[2] = a /\ values[3] = e
      BY <1>4
    <3>2. IsSequence(values)
      BY <3>1, SequenceOver
    <3>3. \A i \in 1..Len(values) : more[i] = values[i]
      BY <2>2, <3>2, AppendAdds
    <3>4. more[2] = a /\ more[3] = e
      BY <3>1, <3>3
    <3> QED BY <2>3, <3>4 DEF DIE, Subprograms
  <2>5. PICK first : first = <<x>>
    OBVIOUS
  <2>6. SymbolElements(first, u, offsets)
    BY <1>5, <2>4, <2>5, OneElement
  <2>7. PICK params : params = SlotDIEs(9, s.params, offsets)
    OBVIOUS
  <2>8. SymbolElements(params, u, offsets)
    BY <2>7, SlotsWritten DEF SymbolOK
  <2>9. PICK locals : locals = SlotDIEs(10, s.locals, offsets)
    OBVIOUS
  <2>10. SymbolElements(locals, u, offsets)
    BY <2>9, SlotsWritten DEF SymbolOK
  <2>11. PICK last : last = <<EndOfChildren>>
    OBVIOUS
  <2>12. SymbolElements(last, u, offsets)
    <3>1. PICK y : y = EndOfChildren
      OBVIOUS
    <3>2. y.code = 0
      BY <3>1 DEF EndOfChildren, DIE
    <3>3. SymbolElement(y, u, offsets)
      BY <3>2 DEF SymbolElement, References, Subprograms
    <3> QED BY <2>11, <3>1, <3>3, OneElement
  <2>13. q = ((first \o params) \o locals) \o last
    <3>1. q = <<DIE(8, Append(<<s.name, s.address, SymbolEnd(u, s), TRUE>>, "rbp"))>>
               \o SlotDIEs(9, s.params, offsets)
               \o SlotDIEs(10, s.locals, offsets) \o <<EndOfChildren>>
      BY <1>1, <1>7 DEF FunctionDIEs
    <3> QED BY <1>2, <1>3, <1>4, <2>1, <2>2, <2>3, <2>5, <2>7, <2>9, <2>11, <3>1, Zenon
  <2>14. SymbolElements(first \o params, u, offsets)
    BY <2>6, <2>8, MoreElements
  <2>15. SymbolElements((first \o params) \o locals, u, offsets)
    BY <2>10, <2>14, MoreElements
  <2> QED BY <1>1, <2>12, <2>13, <2>15, MoreElements
<1> QED BY <1>6, <1>7

\* The elements of a symbol.
LEMMA SymbolWritten ==
    ASSUME NEW u, NEW offsets, NEW s \in Range(u.symbols), SymbolOK(s),
           s.kind # "Variable" => SlotsFound(s.params, offsets) /\ SlotsFound(s.locals, offsets)
    PROVE  SymbolElements(SymbolDIEs(u, s, offsets), u, offsets)
PROOF
<1>1. CASE s.kind = "Function" /\ s.address \in CuLow(u)..CuHigh(u)
  <2>1. SymbolDIEs(u, s, offsets) = FunctionDIEs(u, s, offsets)
    BY <1>1 DEF SymbolDIEs
  <2> QED BY <1>1, <2>1, FunctionWritten
<1>2. CASE s.kind = "Variable"
  <2>1. PICK q : q = VariableDIE(s, offsets)
    OBVIOUS
  <2>2. SymbolDIEs(u, s, offsets) = q
    BY <1>2, <2>1 DEF SymbolDIEs
  <2>3. PICK o : o = OffsetOf(offsets, s.type)
    OBVIOUS
  <2>4. CASE o = 0
    <3>1. PICK x : x = DIE(3, <<s.name, s.address, TRUE>>)
      OBVIOUS
    <3>2. q = <<x>> /\ x.code = 3
      BY <2>1, <2>3, <2>4, <3>1 DEF VariableDIE, DIE
    <3>3. SymbolElement(x, u, offsets)
      BY <3>2 DEF SymbolElement, References, Subprograms
    <3> QED BY <2>2, <3>2, <3>3, OneElement
  <2>5. CASE o # 0
    <3>1. PICK x : x = DIE(4, <<s.name, s.address, o, TRUE>>)
      OBVIOUS
    <3>2. q = <<x>> /\ x.code = 4 /\ x.values[3] = o
      BY <2>1, <2>3, <2>5, <3>1 DEF VariableDIE, DIE
    <3>3. s.type \in DOMAIN offsets /\ o = offsets[s.type]
      BY <2>3, <2>5 DEF OffsetOf
    <3>4. Attribute(x, "type") = o
      <4>1. x.code \in References
        BY <3>2 DEF References
      <4> QED BY <3>2, <4>1, TypeAttribute
    <3>5. SymbolElement(x, u, offsets)
      BY <3>2, <3>3, <3>4 DEF SymbolElement, Subprograms
    <3> QED BY <2>2, <3>2, <3>5, OneElement
  <2> QED BY <2>4, <2>5
<1>3. CASE ~(s.kind = "Function" /\ s.address \in CuLow(u)..CuHigh(u)) /\ s.kind # "Variable"
  <2>1. PICK e : e = <<>>
    OBVIOUS
  <2>2. SymbolDIEs(u, s, offsets) = e
    BY <1>3, <2>1 DEF SymbolDIEs
  <2>3. e \in Seq({})
    BY <2>1
  <2>4. IsSequence(e) /\ Range(e) = {}
    BY <2>3, SequenceOver
  <2> QED BY <2>2, <2>4 DEF SymbolElements
<1> QED BY <1>1, <1>2, <1>3

-----------------------------------------------------------------------------
(* A unit.                                                                 *)

\* The elements of all symbols of a unit whose types w has.
LEMMA SymbolsWritten ==
    ASSUME NEW u, UnitOK(u), NEW at \in Nat, NEW w, TypesWritten(w, TypesOf(u), Len(TypesOf(u)), at)
    PROVE  SymbolElements(FlattenSeq([i \in DOMAIN u.symbols |->
                                        SymbolDIEs(u, u.symbols[i], w.offsets)]), u, w.offsets)
PROOF
<1>1. IsSequence(u.symbols) /\ \A s \in Range(u.symbols) : SymbolOK(s)
  BY DEF UnitOK
<1>2. PICK n \in Nat : n = Len(u.symbols)
  BY <1>1, SequenceIs
<1>3. DOMAIN u.symbols = 1..n /\ \A i \in 1..n : u.symbols[i] \in Range(u.symbols)
  BY <1>1, <1>2, SequenceIs
<1>4. TypesFor(TypesOf(u), u)
  BY TypesAre
<1>5. DOMAIN w.offsets = Range(TypesOf(u))
  BY <1>4, SequenceIs DEF TypesFor, TypesWritten
<1>6. ASSUME NEW s \in Range(u.symbols)
      PROVE  SymbolElements(SymbolDIEs(u, s, w.offsets), u, w.offsets)
  <2>1. s.kind # "Variable" => SlotsFound(s.params, w.offsets) /\ SlotsFound(s.locals, w.offsets)
    BY <1>4, <1>5 DEF TypesFor, SlotsFound
  <2> QED BY <1>1, <2>1, SymbolWritten
<1>7. PICK ss : ss = [i \in 1..n |-> SymbolDIEs(u, u.symbols[i], w.offsets)]
  OBVIOUS
<1>8. IsSequence(ss) /\ Len(ss) = n
  BY <1>7, SequenceOf
<1>9. \A i \in 1..n : SymbolElements(ss[i], u, w.offsets)
  BY <1>3, <1>6, <1>7
<1>10. \A i \in 1..n : IsSequence(ss[i])
  BY <1>9 DEF SymbolElements
<1>11. IsSequence(FlattenSeq(ss)) /\ Range(FlattenSeq(ss)) = UNION {Range(ss[i]) : i \in 1..n}
  BY <1>8, <1>10, FlattenIs
<1>12. SymbolElements(FlattenSeq(ss), u, w.offsets)
  BY <1>9, <1>11 DEF SymbolElements
<1> QED BY <1>3, <1>7, <1>12

\* The unit as CompileUnit puts it together: two elements, the types, the symbols,
\* and an end mark.
Assembled(x, w, flat) ==
    /\ IsSequence(x) /\ Len(x) = Len(w.dies) + Len(flat) + 3
    /\ \A k \in 3..Len(x) :
         \/ k - 2 \in 1..Len(w.dies) /\ x[k] = w.dies[k - 2]
         \/ x[k] \in Range(flat)
         \/ x[k] = EndOfChildren
    /\ \A p \in 1..Len(w.dies) : x[p + 2] = w.dies[p]

\* The parts one after another are that.
LEMMA Assembling ==
    ASSUME NEW w, IsSequence(w.dies), NEW flat, IsSequence(flat), NEW header, NEW unit
    PROVE  LET x == <<header, unit>> \o (w.dies \o flat \o <<EndOfChildren>>)
           IN  Assembled(x, w, flat) /\ x[1] = header /\ x[2] = unit
PROOF
<1>1. PICK p : p = <<header, unit>>
  OBVIOUS
<1>2. PICK e : e = <<EndOfChildren>>
  OBVIOUS
<1>3. IsSequence(p) /\ Len(p) = 2 /\ p[1] = header /\ p[2] = unit
  <2>1. p \in Seq({header, unit}) /\ Len(p) = 2 /\ p[1] = header /\ p[2] = unit
    BY <1>1
  <2> QED BY <2>1, SequenceOver
<1>4. IsSequence(e) /\ Len(e) = 1 /\ e[1] = EndOfChildren
  <2>1. PICK z : z = EndOfChildren
    OBVIOUS
  <2>2. e = <<z>>
    BY <1>2, <2>1
  <2>3. e \in Seq({z}) /\ Len(e) = 1 /\ e[1] = z
    BY <2>2
  <2> QED BY <2>1, <2>3, SequenceOver
<1>5. PICK c : c = w.dies \o flat
  OBVIOUS
<1>6. Joined(c, w.dies, flat)
  BY <1>5, ConcatJoins
<1>7. PICK b : b = c \o e
  OBVIOUS
<1>8. Joined(b, c, e)
  <2>1. IsSequence(c)
    BY <1>6 DEF Joined
  <2> QED BY <1>4, <1>7, <2>1, ConcatJoins
<1>9. PICK x : x = p \o b
  OBVIOUS
<1>10. Joined(x, p, b)
  <2>1. IsSequence(b)
    BY <1>8 DEF Joined
  <2> QED BY <1>3, <1>9, <2>1, ConcatJoins
<1>11. PICK d \in Nat : d = Len(w.dies)
  BY SequenceIs
<1>12. PICK f \in Nat : f = Len(flat)
  BY SequenceIs
<1>13. Len(b) = d + f + 1 /\ Len(c) = d + f /\ Len(x) = d + f + 3
  BY <1>3, <1>4, <1>6, <1>8, <1>10, <1>11, <1>12 DEF Joined
<1>14. x[1] = header /\ x[2] = unit
  BY <1>3, <1>10 DEF Joined
<1>15. ASSUME NEW k \in 1..d PROVE x[k + 2] = w.dies[k]
  <2>1. k \in 1..(d + f) /\ k \in 1..(d + f + 1) /\ 2 + k = k + 2
    OBVIOUS
  <2>2. x[2 + k] = b[k]
    BY <1>3, <1>10, <1>13, <2>1 DEF Joined
  <2>3. b[k] = c[k]
    BY <1>8, <1>13, <2>1 DEF Joined
  <2>4. c[k] = w.dies[k]
    BY <1>6, <1>11 DEF Joined
  <2> QED BY <2>1, <2>2, <2>3, <2>4
<1>16. ASSUME NEW k \in 3..(d + f + 3)
       PROVE  \/ k - 2 \in 1..d /\ x[k] = w.dies[k - 2]
              \/ x[k] \in Range(flat)
              \/ x[k] = EndOfChildren
  <2>1. CASE k - 2 \in 1..d
    <3>1. (k - 2) + 2 = k
      OBVIOUS
    <3> QED BY <1>15, <2>1, <3>1
  <2>2. CASE k - 2 \in (d + 1)..(d + f)
    <3>1. k - 2 \in 1..(d + f + 1) /\ k - 2 \in 1..(d + f) /\ 2 + (k - 2) = k
      BY <2>2
    <3>2. x[k] = b[k - 2]
      BY <1>3, <1>10, <1>13, <3>1 DEF Joined
    <3>3. b[k - 2] = c[k - 2]
      BY <1>8, <1>13, <3>1 DEF Joined
    <3>4. PICK j \in 1..f : d + j = k - 2
      <4>1. k - 2 - d \in 1..f /\ d + (k - 2 - d) = k - 2
        BY <2>2
      <4> QED BY <4>1
    <3>5. c[k - 2] = flat[j]
      BY <1>6, <1>11, <1>12, <3>4 DEF Joined
    <3>6. flat[j] \in Range(flat)
      BY <1>12, SequenceIs
    <3> QED BY <3>2, <3>3, <3>5, <3>6
  <2>3. CASE k - 2 = d + f + 1
    <3>1. k - 2 \in 1..(d + f + 1) /\ 2 + (k - 2) = k
      BY <2>3
    <3>2. x[k] = b[k - 2]
      BY <1>3, <1>10, <1>13, <3>1 DEF Joined
    <3>3. b[d + f + 1] = e[1]
      BY <1>4, <1>8, <1>13 DEF Joined
    <3> QED BY <1>4, <2>3, <3>2, <3>3
  <2> QED BY <2>1, <2>2, <2>3
<1>17. Assembled(x, w, flat)
  BY <1>10, <1>11, <1>12, <1>13, <1>15, <1>16 DEF Assembled, Joined
<1> QED BY <1>1, <1>2, <1>5, <1>7, <1>9, <1>14, <1>17

\* CompileUnit gives a unit, with a line program of its own.
LEMMA UnitWritten ==
    ASSUME NEW u, UnitOK(u), NEW at \in Nat, NEW lp, IsSequence(lp)
    PROVE  UnitGiven(CompileUnit(u, at, Len(lp)), Append(lp, LineProgram(u)), at)
PROOF
<1>1. PICK from \in Nat : from = at + 2
  OBVIOUS
<1>2. PICK w : w = TypeDIEs(u, from)
  OBVIOUS
<1>3. TypesWritten(w, TypesOf(u), Len(TypesOf(u)), from)
  BY <1>2, TypesAreWritten
<1>4. PICK flat : flat = FlattenSeq([i \in DOMAIN u.symbols |->
                                       SymbolDIEs(u, u.symbols[i], w.offsets)])
  OBVIOUS
<1>5. SymbolElements(flat, u, w.offsets)
  BY <1>3, <1>4, SymbolsWritten
<1>6. IsSequence(w.dies) /\ IsSequence(flat)
  BY <1>3, <1>5 DEF TypesWritten, SymbolElements
<1>7. PICK body : body = w.dies \o flat \o <<EndOfChildren>>
  OBVIOUS
<1>8. PICK header : header = DIE(Header, <<1 + Len(body)>>)
  OBVIOUS
<1>9a. PICK none : none = ""
  BY Zenon
<1>9b. PICK values : values = <<"rsm2pdb", "Pascal83", u.source, none, CuLow(u),
                                    CuHigh(u) + 1, Len(lp)>>
  OBVIOUS
<1>9. PICK unit : unit = DIE(1, values)
  OBVIOUS
<1>10. PICK x : x = <<header, unit>> \o body
  OBVIOUS
<1>11. CompileUnit(u, at, Len(lp)) = x
  BY <1>1, <1>2, <1>4, <1>7, <1>8, <1>9a, <1>9b, <1>9, <1>10, Zenon DEF CompileUnit, FromSectionStart
<1>12. Assembled(x, w, flat) /\ x[1] = header /\ x[2] = unit
  BY <1>6, <1>7, <1>10, Assembling
<1>13. PICK d \in Nat : d = Len(w.dies)
  BY <1>6, SequenceIs
<1>14. PICK f \in Nat : f = Len(flat)
  BY <1>6, SequenceIs
<1>15. Len(body) = d + f + 1
  <2>1. PICK c : c = w.dies \o flat
    OBVIOUS
  <2>2. Joined(c, w.dies, flat)
    BY <1>6, <2>1, ConcatJoins
  <2>3. PICK e : e = <<EndOfChildren>>
    OBVIOUS
  <2>4. e \in Seq({EndOfChildren}) /\ Len(e) = 1
    BY <2>3
  <2>5. IsSequence(e) /\ IsSequence(c) /\ Len(c) = d + f
    BY <1>13, <1>14, <2>2, <2>4, SequenceOver DEF Joined
  <2>6. Joined(c \o e, c, e)
    BY <2>5, ConcatJoins
  <2> QED BY <1>7, <2>1, <2>3, <2>4, <2>5, <2>6 DEF Joined
<1>16. PICK n \in Nat : n = d + f + 3
  OBVIOUS
<1>17. IsSequence(x) /\ Len(x) = n
  BY <1>12, <1>13, <1>14, <1>16 DEF Assembled
<1>18. x[1].code = Header /\ x[1].values[1] = d + f + 2 /\ EndOf(x, 1) = n
  <2>1. x[1].code = Header /\ x[1].values[1] = 1 + (d + f + 1)
    BY <1>8, <1>12, <1>15 DEF DIE
  <2> QED BY <1>16, <2>1 DEF EndOf
<1>19. PICK lo \in Nat : lo = CuLow(u)
  BY UnitRange
<1>20. PICK hi \in Nat : hi = CuHigh(u)
  BY UnitRange
<1>21. /\ x[2].code = 1 /\ LowOf(x[2]) = lo /\ HighOf(x[2]) = hi + 1
       /\ Attribute(x[2], "stmt_list") = Len(lp) /\ Attribute(x[2], "name") = u.source
  <2>1. /\ unit.code = 1 /\ unit.values[3] = u.source /\ unit.values[5] = lo
        /\ unit.values[6] = hi + 1 /\ unit.values[7] = Len(lp)
    BY <1>9b, <1>9, <1>19, <1>20 DEF DIE
  <2> QED BY <1>12, <2>1, UnitAttributes
<1>22. PICK lq : lq = Append(lp, LineProgram(u))
  OBVIOUS
<1>23. UnitElementOK(x[2], lq)
  <2>1. PICK p : p = LineProgram(u)
    OBVIOUS
  <2>2. p.file = u.source
    BY <2>1 DEF LineProgram
  <2>3. Len(lp) \in Nat /\ Len(lq) = Len(lp) + 1 /\ lq[Len(lp) + 1] = p
    BY <1>22, <2>1, AppendAdds, SequenceIs
  <2>4. Len(lp) \in 0..(Len(lq) - 1) /\ hi + 1 \in Nat
    BY <2>3
  <2> QED BY <1>21, <2>2, <2>3, <2>4 DEF UnitElementOK
<1>24. ASSUME NEW k \in 3..n
       PROVE  \/ k - 2 \in 1..d /\ x[k] = w.dies[k - 2] /\ x[k].code \in {0, 5, 6, 7}
              \/ SymbolElement(x[k], u, w.offsets)
  <2>1. CASE k - 2 \in 1..d /\ x[k] = w.dies[k - 2]
    BY <1>3, <1>13, <2>1 DEF TypesWritten, WrittenAt
  <2>2. CASE x[k] \in Range(flat)
    BY <1>5, <2>2 DEF SymbolElements
  <2>3. CASE x[k] = EndOfChildren
    <3>1. x[k].code = 0
      BY <2>3 DEF EndOfChildren, DIE
    <3> QED BY <3>1 DEF SymbolElement, References, Subprograms
  <2> QED BY <1>12, <1>13, <1>17, <2>1, <2>2, <2>3 DEF Assembled
<1>25. ASSUME NEW a, \E p \in 1..d : w.dies[p].code \in TypeCodes /\ from + p = a + 1
       PROVE  \E t \in 3..n : x[t].code \in TypeCodes /\ at + t = a + 1
  <2>1. PICK p \in 1..d : w.dies[p].code \in TypeCodes /\ from + p = a + 1
    BY <1>25
  <2>2. p + 2 \in 3..n /\ at + (p + 2) = from + p
    BY <1>1, <1>16
  <2>3. x[p + 2] = w.dies[p]
    BY <1>12, <1>13 DEF Assembled
  <2> QED BY <2>1, <2>2, <2>3
<1>26. ASSUME NEW k \in 3..n, x[k].code \in Subprograms
       PROVE  \E s \in Range(u.symbols) :
                /\ s.address \in lo..hi /\ EndsWell(SymbolEnd(u, s), u, s)
                /\ LowOf(x[k]) = s.address /\ HighOf(x[k]) = SymbolEnd(u, s)
  <2>1. SymbolElement(x[k], u, w.offsets)
    BY <1>24, <1>26 DEF Subprograms
  <2>2. PICK s \in Range(u.symbols) :
                /\ s.address \in CuLow(u)..CuHigh(u)
                /\ LowOf(x[k]) = s.address /\ HighOf(x[k]) = SymbolEnd(u, s)
    BY <1>26, <2>1 DEF SymbolElement
  <2>3. EndsWell(SymbolEnd(u, s), u, s)
    BY <2>2, SymbolEnds
  <2> QED BY <1>19, <1>20, <2>2, <2>3
<1>27. ASSUME NEW k \in 3..n PROVE ElementOK(x, 1, n, at, k)
  <2>1. x[k].code \in 0..10
    BY <1>24 DEF SymbolElement
  <2>2. ASSUME x[k].code \in References
        PROVE  \E t \in 3..n : x[t].code \in TypeCodes /\ at + t = Attribute(x[k], "type") + 1
    <3>1. CASE k - 2 \in 1..d /\ x[k] = w.dies[k - 2] /\ x[k].code \in {0, 5, 6, 7}
      <4>1. x[k].code = 6
        BY <2>2, <3>1 DEF References
      <4>2. WrittenAt(w, from, k - 2)
        BY <1>3, <1>13, <3>1 DEF TypesWritten
      <4>3. \E p \in 1..d :
              w.dies[p].code \in TypeCodes /\ from + p = Attribute(x[k], "type") + 1
        BY <1>13, <3>1, <4>1, <4>2 DEF WrittenAt
      <4> QED BY <1>25, <4>3
    <3>2. CASE SymbolElement(x[k], u, w.offsets)
      <4>1. PICK t \in DOMAIN w.offsets : Attribute(x[k], "type") = w.offsets[t]
        BY <2>2, <3>2 DEF SymbolElement
      <4>2. FoundAt(w, from, t)
        BY <1>3 DEF TypesWritten
      <4>3. \E p \in 1..d :
              w.dies[p].code \in TypeCodes /\ from + p = Attribute(x[k], "type") + 1
        BY <1>13, <4>1, <4>2 DEF FoundAt
      <4> QED BY <1>25, <4>3
    <3> QED BY <1>24, <3>1, <3>2
  <2>3. ReferenceOK(x, 1, n, at, k)
    BY <2>2 DEF ReferenceOK
  <2>4. ASSUME x[k].code \in Subprograms
        PROVE  /\ LowOf(x[k]) \in Nat /\ HighOf(x[k]) \in Nat
               /\ LowOf(x[2]) <= LowOf(x[k]) /\ LowOf(x[k]) < HighOf(x[k])
               /\ HighOf(x[k]) <= HighOf(x[2])
    <3>1. PICK s \in Range(u.symbols) :
                /\ s.address \in lo..hi /\ EndsWell(SymbolEnd(u, s), u, s)
                /\ LowOf(x[k]) = s.address /\ HighOf(x[k]) = SymbolEnd(u, s)
      BY <1>26, <2>4
    <3> QED BY <1>20, <1>21, <3>1 DEF EndsWell
  <2>5. RangeOK(x, 1, k)
    BY <2>4 DEF RangeOK
  <2> QED BY <2>1, <2>3, <2>5 DEF ElementOK
<1>28. ASSUME NEW i \in 3..n, NEW j \in 3..n PROVE DisjointIn(x, i, j)
  <2>1. SUFFICES ASSUME x[i].code \in Subprograms, x[j].code \in Subprograms,
                        LowOf(x[i]) < LowOf(x[j])
                 PROVE  HighOf(x[i]) <= LowOf(x[j])
    BY DEF DisjointIn
  <2>2. PICK s \in Range(u.symbols) :
                /\ s.address \in lo..hi /\ EndsWell(SymbolEnd(u, s), u, s)
                /\ LowOf(x[i]) = s.address /\ HighOf(x[i]) = SymbolEnd(u, s)
    BY <1>26, <2>1
  <2>3. PICK o \in Range(u.symbols) :
                /\ o.address \in lo..hi /\ EndsWell(SymbolEnd(u, o), u, o)
                /\ LowOf(x[j]) = o.address /\ HighOf(x[j]) = SymbolEnd(u, o)
    BY <1>26, <2>1
  <2> QED BY <2>1, <2>2, <2>3 DEF EndsWell
<1>29. CompleteUnit(x, lq, 1, at)
  <2>1. x[1].values[1] \in Nat /\ n \in 2..n /\ 1 + 1 = 2 /\ 1 + 2 = 3
    BY <1>16, <1>18
  <2> QED BY <1>17, <1>18, <1>23, <1>27, <1>28, <2>1 DEF CompleteUnit
<1> QED BY <1>11, <1>17, <1>18, <1>22, <1>29 DEF UnitGiven

-----------------------------------------------------------------------------
(* Where the functions of a unit are said to start.                        *)

\* The address and the name of each subprogram among some elements.
NameOf(x) == Attribute(x, "name")
StartOf(x) == <<LowOf(x), NameOf(x)>>
Starts(d) == {StartOf(x) : x \in {x \in Range(d) : x.code \in Subprograms}}

\* The name is the first value of a subprogram.
LEMMA SubprogramName ==
    ASSUME NEW x, x.code \in Subprograms
    PROVE  StartOf(x) = <<x.values[2], x.values[1]>>
PROOF
<1>1. PICK names : names = Abbreviations[x.code].attributes
  OBVIOUS
<1>2. \/ names = <<"name", "low_pc", "high_pc", "external">>
      \/ names = <<"name", "low_pc", "high_pc", "external", "frame_base">>
  BY <1>1, NamesAre DEF Subprograms
<1>3. DOMAIN names \in {{1, 2, 3, 4}, {1, 2, 3, 4, 5}}
  BY <1>2
<1>4. StandsAt(x, "name", 1)
  BY <1>1, <1>2, <1>3 DEF StandsAt
<1>5. Attribute(x, "name") = x.values[1] /\ LowOf(x) = x.values[2]
  BY <1>4, AttributeIs, SubprogramAttributes
<1> QED BY <1>5 DEF StartOf, NameOf

\* One sequence after another has the starts of both.
LEMMA StartsJoin ==
    ASSUME NEW d, NEW e, NEW c, Range(c) = Range(d) \cup Range(e)
    PROVE  Starts(c) = Starts(d) \cup Starts(e)
PROOF BY DEF Starts

\* Elements of other kinds start nothing.
LEMMA NoStarts ==
    ASSUME NEW d, \A x \in Range(d) : x.code \notin Subprograms
    PROVE  Starts(d) = {}
PROOF BY DEF Starts

\* Neither do the elements of slots.
LEMMA SlotsStart ==
    ASSUME NEW offsets, NEW slots, SlotsOK(slots), NEW code \in {9, 10}
    PROVE  /\ IsSequence(SlotDIEs(code, slots, offsets))
           /\ \A x \in Range(SlotDIEs(code, slots, offsets)) : x.code \notin Subprograms
PROOF
<1>1. PICK n \in Nat : n = Len(slots) /\ DOMAIN slots = 1..n
  BY SequenceIs DEF SlotsOK
<1>2. PICK q : q = [i \in 1..n |->
        DIE(code, <<slots[i].name, OffsetOf(offsets, slots[i].type), slots[i].offset>>)]
  OBVIOUS
<1>3. SlotDIEs(code, slots, offsets) = q
  BY <1>1, <1>2 DEF SlotDIEs
<1>4. IsSequence(q) /\ Range(q) = {q[i] : i \in 1..n}
  <2>1. IsSequence(q) /\ Len(q) = n
    BY <1>2, SequenceOf
  <2> QED BY <2>1, SequenceIs
<1>5. \A i \in 1..n : q[i].code = code
  BY <1>2 DEF DIE
<1> QED BY <1>3, <1>4, <1>5 DEF Subprograms

\* The elements of a function start it, once.
LEMMA FunctionStarts ==
    ASSUME NEW u, NEW offsets, NEW s, SymbolOK(s)
    PROVE  /\ IsSequence(FunctionDIEs(u, s, offsets))
           /\ Starts(FunctionDIEs(u, s, offsets)) = {<<s.address, s.name>>}
PROOF
<1>1. PICK q : q = FunctionDIEs(u, s, offsets)
  OBVIOUS
<1>2. PICK a, name : a = s.address /\ name = s.name
  OBVIOUS
<1>3. PICK e : e = SymbolEnd(u, s)
  OBVIOUS
<1>4. PICK values : values = <<name, a, e, TRUE>>
  OBVIOUS
<1>5. CASE s.params = <<>> /\ s.locals = <<>>
  <2>1. PICK x : x = DIE(2, values)
    OBVIOUS
  <2>2. x.code \in Subprograms /\ x.values[2] = a /\ x.values[1] = name
    BY <1>4, <2>1 DEF DIE, Subprograms
  <2>3. q = <<x>>
    BY <1>1, <1>2, <1>3, <1>4, <1>5, <2>1 DEF FunctionDIEs
  <2>4. q \in Seq({x}) /\ Len(q) = 1 /\ q[1] = x
    BY <2>3
  <2>5. IsSequence(q) /\ Range(q) = {x}
    <3>1. IsSequence(q)
      BY <2>4, SequenceOver
    <3> QED BY <2>4, <3>1, SequenceIs
  <2>6. StartOf(x) = <<a, name>>
    BY <2>2, SubprogramName
  <2> QED BY <1>1, <1>2, <2>2, <2>5, <2>6 DEF Starts
<1>6. CASE ~(s.params = <<>> /\ s.locals = <<>>)
  <2>1. PICK base : base = "rbp"
    OBVIOUS
  <2>2. PICK more : more = Append(values, base)
    OBVIOUS
  <2>3. PICK x : x = DIE(8, more)
    OBVIOUS
  <2>4. x.code \in Subprograms /\ x.values[2] = a /\ x.values[1] = name
    <3>1. values \in Seq({name, a, e, TRUE}) /\ Len(values) = 4
          /\ values[1] = name /\ values[2] = a
      BY <1>4
    <3>2. IsSequence(values)
      BY <3>1, SequenceOver
    <3>3. \A i \in 1..Len(values) : more[i] = values[i]
      BY <2>2, <3>2, AppendAdds
    <3>4. more[1] = name /\ more[2] = a
      BY <3>1, <3>3
    <3> QED BY <2>3, <3>4 DEF DIE, Subprograms
  <2>5. PICK first : first = <<x>>
    OBVIOUS
  <2>6. IsSequence(first) /\ Range(first) = {x}
    <3>1. first \in Seq({x}) /\ Len(first) = 1 /\ first[1] = x
      BY <2>5
    <3>2. IsSequence(first)
      BY <3>1, SequenceOver
    <3> QED BY <3>1, <3>2, SequenceIs
  <2>7. PICK params : params = SlotDIEs(9, s.params, offsets)
    OBVIOUS
  <2>8. IsSequence(params) /\ \A y \in Range(params) : y.code \notin Subprograms
    BY <2>7, SlotsStart DEF SymbolOK
  <2>9. PICK locals : locals = SlotDIEs(10, s.locals, offsets)
    OBVIOUS
  <2>10. IsSequence(locals) /\ \A y \in Range(locals) : y.code \notin Subprograms
    BY <2>9, SlotsStart DEF SymbolOK
  <2>11. PICK mark : mark = EndOfChildren
    OBVIOUS
  <2>12. PICK last : last = <<mark>>
    OBVIOUS
  <2>13. IsSequence(last) /\ \A y \in Range(last) : y.code \notin Subprograms
    <3>1. last \in Seq({mark})
      BY <2>12
    <3>2. IsSequence(last) /\ Range(last) \subseteq {mark}
      BY <3>1, SequenceOver
    <3>3. mark.code = 0
      BY <2>11 DEF EndOfChildren, DIE
    <3> QED BY <3>2, <3>3 DEF Subprograms
  <2>14. q = ((first \o params) \o locals) \o last
    <3>1. q = <<DIE(8, Append(<<s.name, s.address, SymbolEnd(u, s), TRUE>>, "rbp"))>>
               \o SlotDIEs(9, s.params, offsets)
               \o SlotDIEs(10, s.locals, offsets) \o <<EndOfChildren>>
      BY <1>1, <1>6 DEF FunctionDIEs
    <3> QED BY <1>2, <1>3, <1>4, <2>1, <2>2, <2>3, <2>5, <2>7, <2>9, <2>11, <2>12, <3>1, Zenon
  <2>15. PICK p : p = first \o params
    OBVIOUS
  <2>16. IsSequence(p) /\ Range(p) = Range(first) \cup Range(params)
    BY <2>6, <2>8, <2>15, ConcatJoins DEF Joined
  <2>17. PICK r : r = p \o locals
    OBVIOUS
  <2>18. IsSequence(r) /\ Range(r) = Range(p) \cup Range(locals)
    BY <2>10, <2>16, <2>17, ConcatJoins DEF Joined
  <2>19. IsSequence(q) /\ Range(q) = Range(r) \cup Range(last)
    <3>1. q = r \o last
      BY <2>14, <2>15, <2>17
    <3> QED BY <2>13, <2>18, <3>1, ConcatJoins DEF Joined
  <2>20. {y \in Range(q) : y.code \in Subprograms} = {x}
    BY <2>4, <2>6, <2>8, <2>10, <2>13, <2>16, <2>18, <2>19
  <2>21. StartOf(x) = <<a, name>>
    BY <2>4, SubprogramName
  <2> QED BY <1>1, <1>2, <2>19, <2>20, <2>21 DEF Starts
<1> QED BY <1>5, <1>6

\* The functions in the range of a unit.
Placed(u, s) == s.kind = "Function" /\ s.address \in CuLow(u)..CuHigh(u)
PlacedStarts(u) == {<<s.address, s.name>> : s \in {s \in Range(u.symbols) : Placed(u, s)}}

\* The elements of a symbol start it if it is one.
LEMMA SymbolStarts ==
    ASSUME NEW u, NEW offsets, NEW s, SymbolOK(s)
    PROVE  /\ IsSequence(SymbolDIEs(u, s, offsets))
           /\ Starts(SymbolDIEs(u, s, offsets))
                = IF Placed(u, s) THEN {<<s.address, s.name>>} ELSE {}
PROOF
<1>1. CASE Placed(u, s)
  <2>1. SymbolDIEs(u, s, offsets) = FunctionDIEs(u, s, offsets)
    BY <1>1 DEF SymbolDIEs, Placed
  <2> QED BY <1>1, <2>1, FunctionStarts
<1>2. CASE ~Placed(u, s) /\ s.kind = "Variable"
  <2>1. PICK x : x.code \in {3, 4} /\ VariableDIE(s, offsets) = <<x>>
    <3>1. PICK o : o = OffsetOf(offsets, s.type)
      OBVIOUS
    <3>2. PICK y : y = DIE(3, <<s.name, s.address, TRUE>>)
      OBVIOUS
    <3>3. PICK z : z = DIE(4, <<s.name, s.address, o, TRUE>>)
      OBVIOUS
    <3>4. VariableDIE(s, offsets) = IF o = 0 THEN <<y>> ELSE <<z>>
      BY <3>1, <3>2, <3>3 DEF VariableDIE
    <3>5. y.code = 3 /\ z.code = 4
      BY <3>2, <3>3 DEF DIE
    <3> QED BY <3>4, <3>5
  <2>2. PICK q : q = <<x>>
    OBVIOUS
  <2>3. SymbolDIEs(u, s, offsets) = q
    BY <1>2, <2>1, <2>2 DEF SymbolDIEs
  <2>4. q \in Seq({x})
    BY <2>2
  <2>5. IsSequence(q) /\ Range(q) \subseteq {x}
    BY <2>4, SequenceOver
  <2>6. Starts(q) = {}
    <3>1. \A y \in Range(q) : y.code \notin Subprograms
      BY <2>1, <2>5 DEF Subprograms
    <3> QED BY <3>1, NoStarts
  <2> QED BY <1>2, <2>3, <2>5, <2>6
<1>3. CASE ~Placed(u, s) /\ s.kind # "Variable"
  <2>1. PICK e : e = <<>>
    OBVIOUS
  <2>2. SymbolDIEs(u, s, offsets) = e
    BY <1>3, <2>1 DEF SymbolDIEs, Placed
  <2>3. e \in Seq({})
    BY <2>1
  <2>4. IsSequence(e) /\ Range(e) = {}
    BY <2>3, SequenceOver
  <2>5. Starts(e) = {}
    BY <2>4, NoStarts
  <2> QED BY <1>3, <2>2, <2>4, <2>5
<1> QED BY <1>1, <1>2, <1>3

\* A unit starts the functions in its range, each under its name.
LEMMA UnitStarts ==
    ASSUME NEW u, UnitOK(u), NEW at \in Nat, NEW stmtList
    PROVE  /\ IsSequence(CompileUnit(u, at, stmtList))
           /\ Starts(CompileUnit(u, at, stmtList)) = PlacedStarts(u)
PROOF
<1>1. PICK from \in Nat : from = at + 2
  OBVIOUS
<1>2. PICK w : w = TypeDIEs(u, from)
  OBVIOUS
<1>3. TypesWritten(w, TypesOf(u), Len(TypesOf(u)), from)
  BY <1>2, TypesAreWritten
<1>4. IsSequence(w.dies) /\ Starts(w.dies) = {}
  <2>1. IsSequence(w.dies)
    BY <1>3 DEF TypesWritten
  <2>2. \A k \in 1..Len(w.dies) : w.dies[k].code \in {0, 5, 6, 7}
    BY <1>3 DEF TypesWritten, WrittenAt
  <2>3. PICK dies : dies = w.dies
    OBVIOUS
  <2>4. Range(dies) = {dies[k] : k \in 1..Len(dies)}
    BY <2>1, <2>3, SequenceIs
  <2>5. ASSUME NEW x \in Range(dies) PROVE x.code \notin Subprograms
    <3>1. PICK k \in 1..Len(dies) : x = dies[k]
      BY <2>4
    <3>2. x.code \in {0, 5, 6, 7}
      BY <2>2, <2>3, <3>1
    <3> QED BY <3>2 DEF Subprograms
  <2> QED BY <2>1, <2>3, <2>5, NoStarts
<1>5. IsSequence(u.symbols) /\ \A s \in Range(u.symbols) : SymbolOK(s)
  BY DEF UnitOK
<1>6. PICK n \in Nat : n = Len(u.symbols)
  BY <1>5, SequenceIs
<1>7. DOMAIN u.symbols = 1..n /\ Range(u.symbols) = {u.symbols[i] : i \in 1..n}
  BY <1>5, <1>6, SequenceIs
<1>8. PICK ss : ss = [i \in 1..n |-> SymbolDIEs(u, u.symbols[i], w.offsets)]
  OBVIOUS
<1>9. IsSequence(ss) /\ Len(ss) = n
  BY <1>8, SequenceOf
<1>10. ASSUME NEW i \in 1..n
       PROVE  /\ IsSequence(ss[i])
              /\ Starts(ss[i]) = IF Placed(u, u.symbols[i])
                                 THEN {<<u.symbols[i].address, u.symbols[i].name>>} ELSE {}
  <2>1. SymbolOK(u.symbols[i])
    BY <1>5, <1>7
  <2> QED BY <1>8, <2>1, SymbolStarts
<1>11. PICK flat : flat = FlattenSeq(ss)
  OBVIOUS
<1>12. IsSequence(flat) /\ Range(flat) = UNION {Range(ss[i]) : i \in 1..n}
  BY <1>9, <1>10, <1>11, FlattenIs
<1>13. Starts(flat) = UNION {Starts(ss[i]) : i \in 1..n}
  BY <1>12 DEF Starts
<1>14. Starts(flat) = PlacedStarts(u)
  <2>1. ASSUME NEW i \in 1..n, NEW y \in Starts(ss[i]) PROVE y \in PlacedStarts(u)
    <3>1. PICK s : s = u.symbols[i]
      OBVIOUS
    <3>2. PICK z : z = <<s.address, s.name>>
      OBVIOUS
    <3>3. Starts(ss[i]) = IF Placed(u, s) THEN {z} ELSE {}
      BY <1>10, <3>1, <3>2
    <3>4. Placed(u, s) /\ y = z
      BY <2>1, <3>3
    <3> QED BY <1>7, <3>1, <3>2, <3>4 DEF PlacedStarts
  <2>2. ASSUME NEW s \in Range(u.symbols), Placed(u, s)
        PROVE  <<s.address, s.name>> \in UNION {Starts(ss[i]) : i \in 1..n}
    <3>1. PICK i \in 1..n : s = u.symbols[i]
      BY <1>7
    <3>2. <<s.address, s.name>> \in Starts(ss[i])
      BY <1>10, <2>2, <3>1
    <3> QED BY <3>2
  <2>3. PlacedStarts(u) \subseteq UNION {Starts(ss[i]) : i \in 1..n}
    BY <2>2 DEF PlacedStarts
  <2>4. UNION {Starts(ss[i]) : i \in 1..n} \subseteq PlacedStarts(u)
    BY <2>1
  <2> QED BY <1>13, <2>3, <2>4
<1>15. PICK mark : mark = EndOfChildren
  OBVIOUS
<1>16. PICK last : last = <<mark>>
  OBVIOUS
<1>17. IsSequence(last) /\ Starts(last) = {}
  <2>1. last \in Seq({mark})
    BY <1>16
  <2>2. IsSequence(last) /\ Range(last) \subseteq {mark}
    BY <2>1, SequenceOver
  <2>3. mark.code = 0
    BY <1>15 DEF EndOfChildren, DIE
  <2>4. \A y \in Range(last) : y.code \notin Subprograms
    BY <2>2, <2>3 DEF Subprograms
  <2> QED BY <2>2, <2>4, NoStarts
<1>18. PICK c : c = w.dies \o flat
  OBVIOUS
<1>19. IsSequence(c) /\ Starts(c) = PlacedStarts(u)
  <2>1. Joined(c, w.dies, flat)
    BY <1>4, <1>12, <1>18, ConcatJoins
  <2>2. Starts(c) = Starts(w.dies) \cup Starts(flat)
    BY <2>1, StartsJoin DEF Joined
  <2> QED BY <1>4, <1>14, <2>1, <2>2 DEF Joined
<1>20. PICK body : body = c \o last
  OBVIOUS
<1>21. IsSequence(body) /\ Starts(body) = PlacedStarts(u)
  <2>1. Joined(body, c, last)
    BY <1>17, <1>19, <1>20, ConcatJoins
  <2>2. Starts(body) = Starts(c) \cup Starts(last)
    BY <2>1, StartsJoin DEF Joined
  <2> QED BY <1>17, <1>19, <2>1, <2>2 DEF Joined
<1>22. PICK header : header = DIE(Header, <<1 + Len(body)>>)
  OBVIOUS
<1>23. PICK none : none = ""
  BY Zenon
<1>24. PICK unit : unit = DIE(1, <<"rsm2pdb", "Pascal83", u.source, none, CuLow(u),
                                    CuHigh(u) + 1, stmtList>>)
  OBVIOUS
<1>25. PICK first : first = <<header, unit>>
  OBVIOUS
<1>26. IsSequence(first) /\ Starts(first) = {}
  <2>1. first \in Seq({header, unit})
    BY <1>25
  <2>2. IsSequence(first) /\ Range(first) \subseteq {header, unit}
    BY <2>1, SequenceOver
  <2>3. header.code = -1 /\ unit.code = 1
    BY <1>22, <1>24 DEF DIE, Header
  <2>4. \A y \in Range(first) : y.code \notin Subprograms
    BY <2>2, <2>3 DEF Subprograms
  <2> QED BY <2>2, <2>4, NoStarts
<1>27. CompileUnit(u, at, stmtList) = first \o body
  <2>1. ss = [i \in DOMAIN u.symbols |-> SymbolDIEs(u, u.symbols[i], w.offsets)]
    BY <1>7, <1>8
  <2>2. body = w.dies \o FlattenSeq([i \in DOMAIN u.symbols |->
                                       SymbolDIEs(u, u.symbols[i], w.offsets)])
               \o <<EndOfChildren>>
    BY <1>11, <1>15, <1>16, <1>18, <1>20, <2>1, Zenon
  <2> QED BY <1>1, <1>2, <1>22, <1>23, <1>24, <1>25, <2>2, Zenon
          DEF CompileUnit, FromSectionStart
<1>28. Joined(first \o body, first, body)
  BY <1>21, <1>26, ConcatJoins
<1>29. Starts(first \o body) = Starts(first) \cup Starts(body)
  BY <1>28, StartsJoin DEF Joined
<1> QED BY <1>21, <1>26, <1>27, <1>28, <1>29 DEF Joined

\* Every function of a unit with an address is in its range.
LEMMA FunctionsPlaced ==
    ASSUME NEW u, UnitOK(u), NEW s \in Range(u.symbols), s.kind = "Function", s.address # 0
    PROVE  Placed(u, s)
PROOF
<1>1. PICK S : S = CuAddresses(u)
  OBVIOUS
<1>2. /\ IsSequence(u.symbols) /\ \A x \in Range(u.symbols) : x.address \in Nat
      /\ IsSequence(u.lines) /\ \A l \in Range(u.lines) : l.address \in Nat
  BY DEF UnitOK, SymbolOK
<1>3. S \in SUBSET Nat /\ s.address \in S
  BY <1>1, <1>2 DEF CuAddresses
<1>4. PICK b \in Nat : \A x \in Range(u.symbols) : x.address <= b
  BY <1>2, AddressesBounded
<1>5. PICK c \in Nat : \A x \in Range(u.lines) : x.address <= c
  BY <1>2, AddressesBounded
<1>6. b + c \in Nat /\ \A n \in S : n <= b + c
  BY <1>1, <1>2, <1>4, <1>5 DEF CuAddresses
<1>7. /\ Min(S) \in Nat /\ Min(S) <= s.address
      /\ Max(S) \in Nat /\ s.address <= Max(S)
  BY <1>3, <1>6, MinIsLeast, MaxIsGreatest
<1> QED BY <1>1, <1>2, <1>3, <1>7 DEF CuLow, CuHigh, Placed

-----------------------------------------------------------------------------
(* What a debugger reads in a line program.                                *)

\* Opcodes with their operands, and the rows a debugger may find.
OpNames == {"set_file", "set_address", "advance_pc", "advance_line", "copy", "end_sequence"}
Opcode == [op : OpNames, n : Int]
TheRow(at, line) == [at |-> at, line |-> line]
Rows == {TheRow(at, line) : at \in Int, line \in Int}
Reading == [address : Int, line : Int, rows : SUBSET Rows]

\* The machine after all of some opcodes, and after each of the first of them.
Run(ops) ==
    LET w[n \in 0..Len(ops)] == IF n = 0 THEN Started ELSE RunOp(w[n - 1], ops[n])
    IN  w[Len(ops)]
RunOf(f, ops) ==
    /\ f \in [0..Len(ops) -> Reading] /\ f[0] = Started
    /\ \A n \in 1..Len(ops) : f[n] = RunOp(f[n - 1], ops[n])

\* An opcode leads from one state to another.
LEMMA RunOpType ==
    ASSUME NEW v \in Reading, NEW x \in Opcode
    PROVE  RunOp(v, x) \in Reading
PROOF
<1>1. /\ v.address \in Int /\ v.line \in Int /\ v.rows \in SUBSET Rows /\ x.n \in Int
      /\ v = [address |-> v.address, line |-> v.line, rows |-> v.rows]
  BY DEF Reading, Opcode
<1>2. PICK row : row = TheRow(v.address, v.line)
  OBVIOUS
<1>3. v.rows \cup {row} \in SUBSET Rows
  <2>1. row \in Rows
    BY <1>1, <1>2 DEF Rows
  <2> QED BY <1>1, <2>1
<1>4. \/ RunOp(v, x) = [v EXCEPT !.address = x.n]
      \/ RunOp(v, x) = [v EXCEPT !.address = v.address + x.n]
      \/ RunOp(v, x) = [v EXCEPT !.line = v.line + x.n]
      \/ RunOp(v, x) = [v EXCEPT !.rows = v.rows \cup {row}]
      \/ RunOp(v, x) = v
  <2>1. row = [at |-> v.address, line |-> v.line]
    BY <1>2 DEF TheRow
  <2> QED BY <2>1, Zenon DEF RunOp
<1>5. x.n \in Int /\ v.address + x.n \in Int /\ v.line + x.n \in Int
  BY <1>1
<1>6. PICK S : S = SUBSET Rows
  OBVIOUS
<1>7. Reading = [address : Int, line : Int, rows : S] /\ v.rows \in S /\ v.rows \cup {row} \in S
  BY <1>1, <1>3, <1>6 DEF Reading
<1> HIDE DEF Reading
<1> QED BY <1>4, <1>5, <1>7

\* It starts in one.
LEMMA StartedType ==
    /\ Started \in Reading /\ Started.rows = {}
    /\ Started.address = 0 /\ Started.line = 1
PROOF BY DEF Started, Reading

\* What a debugger has read, opcode by opcode.
LEMMA RunIs ==
    ASSUME NEW ops \in Seq(Opcode)
    PROVE  \E f : RunOf(f, ops) /\ Run(ops) = f[Len(ops)]
PROOF
<1> DEFINE step == [n \in Nat |-> [v \in Reading |->
                      IF n \in 1..Len(ops) THEN RunOp(v, ops[n]) ELSE v]]
           Is(h) == h = [n \in 0..Len(ops) |->
                           IF n = 0 THEN Started ELSE RunOp(h[n - 1], ops[n])]
<1>1. PICK N \in Nat : N = Len(ops) /\ \A n \in 1..N : ops[n] \in Opcode
  OBVIOUS
<1>2. step \in [Nat -> [Reading -> Reading]]
  <2>1. ASSUME NEW n \in Nat, NEW v \in Reading, n \in 1..Len(ops)
        PROVE  RunOp(v, ops[n]) \in Reading
    BY <1>1, <2>1, RunOpType
  <2> HIDE DEF Reading
  <2> QED BY <2>1
<1>3. PICK g : RecursiveFunction(g, 0, N, Reading, Started, step)
  <2> HIDE DEF step
  <2>1. RecursionData(0, N, Reading, Started, step)
    BY <1>1, <1>2, StartedType DEF RecursionData
  <2> QED BY <2>1, Recursion
<1>4. /\ g \in [0..N -> Reading]
      /\ g = [n \in 0..N |-> IF n = 0 THEN Started ELSE step[n][g[n - 1]]]
  <2> HIDE DEF step
  <2> QED BY <1>3 DEF RecursiveFunction
<1>5. ASSUME NEW n \in 0..N, n # 0 PROVE step[n][g[n - 1]] = RunOp(g[n - 1], ops[n])
  <2>1. n - 1 \in 0..N /\ n \in Nat /\ n \in 1..Len(ops)
    BY <1>1, <1>5
  <2>2. g[n - 1] \in Reading
    BY <1>4, <2>1
  <2> HIDE DEF Reading
  <2> QED BY <2>1, <2>2
<1>6. Is(g)
  <2> HIDE DEF step
  <2> QED BY <1>1, <1>4, <1>5
<1>7. PICK f : f = CHOOSE h : Is(h)
  OBVIOUS
<1>8. Is(f)
  <2> HIDE DEF Is
  <2> QED BY <1>6, <1>7
<1>9. Run(ops) = f[Len(ops)]
  BY <1>7 DEF Run
<1>10. \A n \in 0..N : f[n] = IF n = 0 THEN Started ELSE RunOp(f[n - 1], ops[n])
  BY <1>1, <1>8
<1>11. ASSUME NEW n \in 0..N PROVE f[n] \in Reading
  <2> DEFINE U == {i \in Nat : f[i] \in Reading}
  <2>1. 0 \in U
    BY <1>1, <1>10, StartedType
  <2>2. ASSUME NEW i \in 0..N, i \in U, i + 1 <= N PROVE i + 1 \in U
    <3>1. i + 1 \in 0..N /\ i + 1 \in 1..N /\ i + 1 # 0 /\ (i + 1) - 1 = i
      BY <2>2
    <3>2. f[i + 1] = RunOp(f[i], ops[i + 1])
      BY <1>10, <3>1
    <3>3. f[i + 1] \in Reading
      BY <1>1, <2>2, <3>1, <3>2, RunOpType
    <3> QED BY <3>1, <3>3
  <2>3. 0..N \subseteq U
    <3> HIDE DEF U
    <3> QED BY <1>1, <2>1, <2>2, IntervalInduction
  <2> QED BY <2>3
<1>12. f \in [0..N -> Reading]
  <2>1. f = [n \in 0..N |-> f[n]]
    BY <1>1, <1>8
  <2> HIDE DEF Is, Reading
  <2> QED BY <1>11, <2>1
<1>13. f[0] = Started /\ \A n \in 1..N : f[n] = RunOp(f[n - 1], ops[n])
  <2>1. 0 \in 0..N /\ \A n \in 1..N : n \in 0..N /\ n # 0
    BY <1>1
  <2> HIDE DEF Is
  <2> QED BY <1>10, <2>1
<1> HIDE DEF Is
<1> QED BY <1>1, <1>9, <1>12, <1>13 DEF RunOf

\* Nothing is read in no opcodes.
LEMMA RunNothing ==
    ASSUME NEW ops, ops = <<>>
    PROVE  ops \in Seq(Opcode) /\ Run(ops) = Started
PROOF
<1>1. ops \in Seq(Opcode) /\ Len(ops) = 0
  OBVIOUS
<1>2. PICK f : RunOf(f, ops) /\ Run(ops) = f[Len(ops)]
  BY <1>1, RunIs
<1> QED BY <1>1, <1>2 DEF RunOf

\* One opcode more.
LEMMA RunMore ==
    ASSUME NEW ops \in Seq(Opcode), NEW x \in Opcode
    PROVE  /\ Append(ops, x) \in Seq(Opcode) /\ Run(ops) \in Reading
           /\ Run(Append(ops, x)) = RunOp(Run(ops), x)
PROOF
<1>1. PICK n : n = Len(ops) /\ n \in Nat
  OBVIOUS
<1>2. PICK r : r = Append(ops, x)
  OBVIOUS
<1>3. r \in Seq(Opcode) /\ Len(r) = n + 1 /\ r[n + 1] = x /\ \A i \in 1..n : r[i] = ops[i]
  BY <1>1, <1>2
<1>4. PICK f : RunOf(f, ops) /\ Run(ops) = f[n]
  BY <1>1, RunIs
<1>5. PICK g : RunOf(g, r) /\ Run(r) = g[n + 1]
  BY <1>3, RunIs
<1>6. 0..n \subseteq {i \in Nat : g[i] = f[i]}
  <2> DEFINE U == {i \in Nat : g[i] = f[i]}
  <2>1. 0 \in U
    BY <1>4, <1>5 DEF RunOf
  <2>2. ASSUME NEW i \in 0..n, i \in U, i + 1 <= n PROVE i + 1 \in U
    <3>1. i + 1 \in 1..n /\ i + 1 \in 1..(n + 1) /\ (i + 1) - 1 = i
      BY <1>1, <2>2
    <3>2. f[i + 1] = RunOp(f[i], ops[i + 1])
      BY <1>1, <1>4, <3>1 DEF RunOf
    <3>3. g[i + 1] = RunOp(g[i], r[i + 1])
      BY <1>3, <1>5, <3>1 DEF RunOf
    <3> QED BY <1>3, <2>2, <3>1, <3>2, <3>3
  <2>3. 0..n \subseteq U
    <3> HIDE DEF U
    <3> QED BY <1>1, <2>1, <2>2, IntervalInduction
  <2> QED BY <2>3
<1>7. g[n] = f[n] /\ f[n] \in Reading
  <2>1. n \in 0..n
    BY <1>1
  <2> QED BY <1>1, <1>4, <1>6, <2>1 DEF RunOf
<1>8. g[n + 1] = RunOp(g[n], x)
  <2>1. n + 1 \in 1..(n + 1) /\ (n + 1) - 1 = n
    BY <1>1
  <2> QED BY <1>3, <1>5, <2>1 DEF RunOf
<1> QED BY <1>2, <1>3, <1>4, <1>5, <1>7, <1>8

\* The state the opcodes for a row are written from.
Encoding == [ops : Seq(Opcode), address : Nat \cup {-1}, line : Nat]
\* A debugger that has read them stands where the next row is written from.
Follows(v) ==
    /\ v \in Encoding
    /\ Run(v.ops).line = v.line
    /\ Run(v.ops).address = IF v.address = -1 THEN 0 ELSE v.address

\* An opcode more, and what it makes a debugger do.
LEMMA OpcodeAdded ==
    ASSUME NEW ops \in Seq(Opcode), NEW x \in Opcode, NEW r, r = ops \o <<x>>
    PROVE  r \in Seq(Opcode) /\ Run(ops) \in Reading /\ Run(r) = RunOp(Run(ops), x)
PROOF
<1>1. r = Append(ops, x)
  OBVIOUS
<1> QED BY <1>1, RunMore

\* The opcodes of a row lead to it.
LEMMA RowRead ==
    ASSUME NEW v, Follows(v), NEW row, row.address \in Nat, row.line \in Nat
    PROVE  /\ Follows(RowOps(v, row))
           /\ Run(RowOps(v, row).ops).rows
                = Run(v.ops).rows \cup {TheRow(row.address, row.line)}
PROOF
<1>1. PICK a, l : a = row.address /\ l = row.line
  OBVIOUS
<1>2. PICK ops, from, at : ops = v.ops /\ from = v.address /\ at = v.line
  OBVIOUS
<1>3. a \in Nat /\ l \in Nat /\ ops \in Seq(Opcode) /\ from \in Nat \cup {-1} /\ at \in Nat
  BY <1>1, <1>2 DEF Follows, Encoding
<1>4. PICK m : m = Run(ops)
  OBVIOUS
<1>5. /\ m \in Reading /\ m.line = at /\ m.address = IF from = -1 THEN 0 ELSE from
  BY <1>2, <1>3, <1>4, RunIs DEF Follows, RunOf
<1>6. PICK x, y, z, c : /\ x = Op("set_address", a) /\ y = Op("advance_pc", a - from)
                        /\ z = Op("advance_line", l - at) /\ c = Op("copy", 0)
  OBVIOUS
<1>7. /\ x \in Opcode /\ x.op = "set_address" /\ x.n = a
      /\ y \in Opcode /\ y.op = "advance_pc" /\ y.n = a - from
      /\ z \in Opcode /\ z.op = "advance_line" /\ z.n = l - at
      /\ c \in Opcode /\ c.op = "copy"
  <2>1. a \in Int /\ a - from \in Int /\ l - at \in Int /\ 0 \in Int
    BY <1>3
  <2>2. x \in Opcode /\ x.op = "set_address" /\ x.n = a
    BY <1>6, <2>1 DEF Op, Opcode, OpNames
  <2>3. y \in Opcode /\ y.op = "advance_pc" /\ y.n = a - from
    BY <1>6, <2>1 DEF Op, Opcode, OpNames
  <2>4. z \in Opcode /\ z.op = "advance_line" /\ z.n = l - at
    BY <1>6, <2>1 DEF Op, Opcode, OpNames
  <2>5. c \in Opcode /\ c.op = "copy"
    BY <1>6, <2>1 DEF Op, Opcode, OpNames
  <2> QED BY <2>2, <2>3, <2>4, <2>5
<1>8. PICK first : first = CASE from = -1 -> <<x>> [] from = a -> <<>> [] OTHER -> <<y>>
  OBVIOUS
<1>9. PICK p : p = ops \o first
  OBVIOUS
<1>10. p \in Seq(Opcode) /\ Run(p) \in Reading /\ Run(p) = [m EXCEPT !.address = a]
  <2>1. CASE from = -1
    <3>1. first = <<x>>
      <4>1. a # -1
        BY <1>3
      <4> QED BY <1>8, <2>1, <4>1
    <3>2. p \in Seq(Opcode) /\ Run(p) = RunOp(m, x)
      BY <1>3, <1>4, <1>7, <1>9, <3>1, OpcodeAdded
    <3>3. RunOp(m, x) = [m EXCEPT !.address = a]
      BY <1>7 DEF RunOp
    <3> QED BY <1>3, <1>5, <3>2, <3>3 DEF Reading
  <2>2. CASE from # -1 /\ from = a
    <3>1. first = <<>>
      BY <1>8, <2>2
    <3>2. p = ops
      BY <1>3, <1>9, <3>1
    <3>3. m = [m EXCEPT !.address = a]
      BY <1>5, <2>2 DEF Reading
    <3> QED BY <1>3, <1>4, <1>5, <3>2, <3>3
  <2>3. CASE from # -1 /\ from # a
    <3>1. first = <<y>>
      BY <1>8, <2>3
    <3>2. p \in Seq(Opcode) /\ Run(p) = RunOp(m, y)
      BY <1>3, <1>4, <1>7, <1>9, <3>1, OpcodeAdded
    <3>3. RunOp(m, y) = [m EXCEPT !.address = m.address + (a - from)]
      BY <1>7, <2>3 DEF RunOp
    <3>4. m.address + (a - from) = a
      BY <1>3, <1>5, <2>3
    <3>5. RunOp(m, y) = [m EXCEPT !.address = a]
      BY <3>3, <3>4
    <3> QED BY <1>3, <1>5, <3>2, <3>5 DEF Reading
  <2> QED BY <2>1, <2>2, <2>3
<1>11. PICK k : k = Run(p)
  OBVIOUS
<1>12. k \in Reading /\ k.line = at /\ k.address = a /\ k.rows = m.rows
  BY <1>3, <1>5, <1>10, <1>11 DEF Reading
<1>13. PICK second : second = IF at = l THEN <<>> ELSE <<z>>
  OBVIOUS
<1>14. PICK q : q = p \o second
  OBVIOUS
<1>15. q \in Seq(Opcode) /\ Run(q) \in Reading /\ Run(q) = [k EXCEPT !.line = l]
  <2>1. CASE at = l
    <3>1. q = p
      BY <1>10, <1>13, <1>14, <2>1
    <3>2. k = [k EXCEPT !.line = l]
      BY <1>12, <2>1 DEF Reading
    <3> QED BY <1>10, <1>11, <1>12, <3>1, <3>2
  <2>2. CASE at # l
    <3>1. q \in Seq(Opcode) /\ Run(q) = RunOp(k, z)
      BY <1>7, <1>10, <1>11, <1>13, <1>14, <2>2, OpcodeAdded
    <3>2. RunOp(k, z) = [k EXCEPT !.line = k.line + (l - at)]
      BY <1>7 DEF RunOp
    <3>3. k.line + (l - at) = l
      BY <1>3, <1>12
    <3> QED BY <1>3, <1>12, <3>1, <3>2, <3>3 DEF Reading
  <2> QED BY <2>1, <2>2
<1>16. PICK j : j = Run(q)
  OBVIOUS
<1>17. j \in Reading /\ j.line = l /\ j.address = a /\ j.rows = m.rows
  BY <1>3, <1>12, <1>15, <1>16 DEF Reading
<1>18. PICK r : r = q \o <<c>>
  OBVIOUS
<1>19. r \in Seq(Opcode) /\ Run(r) = [j EXCEPT !.rows = j.rows \cup {TheRow(a, l)}]
  <2>1. r \in Seq(Opcode) /\ Run(r) = RunOp(j, c)
    BY <1>7, <1>15, <1>16, <1>18, OpcodeAdded
  <2>2. RunOp(j, c) = [j EXCEPT !.rows = j.rows \cup {[at |-> j.address, line |-> j.line]}]
    BY <1>7 DEF RunOp
  <2> QED BY <1>17, <2>1, <2>2 DEF TheRow
<1>20. Run(r).line = l /\ Run(r).address = a /\ Run(r).rows = m.rows \cup {TheRow(a, l)}
  BY <1>17, <1>19 DEF Reading
<1>21. RowOps(v, row) = [ops |-> r, address |-> a, line |-> l]
  BY <1>1, <1>2, <1>6, <1>8, <1>9, <1>13, <1>14, <1>18, Zenon DEF RowOps
<1>22. /\ RowOps(v, row) \in Encoding /\ RowOps(v, row).ops = r
       /\ RowOps(v, row).address = a /\ RowOps(v, row).line = l
  BY <1>3, <1>19, <1>21 DEF Encoding
<1>23. a # -1
  BY <1>3
<1> QED BY <1>1, <1>2, <1>4, <1>20, <1>22, <1>23 DEF Follows
\* Lines with their addresses.
LinesOK(rows) ==
    IsSequence(rows) /\ \A r \in Range(rows) : r.address \in Nat /\ r.line \in Nat

\* Sorted, they are the same.
LEMMA SortedLines ==
    ASSUME NEW rows, LinesOK(rows)
    PROVE  LinesOK(ByAddress(rows)) /\ Range(ByAddress(rows)) = Range(rows)
PROOF
<1> DEFINE S == DOMAIN rows
           Earlier(i, j) ==
             rows[i].address < rows[j].address \/ (rows[i].address = rows[j].address /\ i < j)
           order == [n \in 1..Cardinality(S) |->
                       CHOOSE i \in S : Cardinality({j \in S : Earlier(j, i)}) = n - 1]
<1>1. PICK q : q = ByAddress(rows)
  OBVIOUS
<1>2. q = [n \in DOMAIN rows |-> rows[order[n]]]
  BY <1>1, Zenon DEF ByAddress, Ordered
<1>3. PICK N \in Nat : N = Len(rows) /\ S = 1..N /\ Range(rows) = {rows[i] : i \in 1..N}
  BY SequenceIs DEF LinesOK
<1> HIDE DEF S, order
<1>4. IsFiniteSet(S) /\ Cardinality(S) = N
  <2>1. PICK one \in Int : one = 1
    OBVIOUS
  <2>2. /\ IsFiniteSet(one..N)
        /\ Cardinality(one..N) = IF one > N THEN 0 ELSE N - one + 1
    BY FS_Interval
  <2> QED BY <1>3, <2>1, <2>2
<1>5. PICK A : A = [i \in 1..N |-> rows[i].address]
  OBVIOUS
<1>6. ASSUME NEW i \in 1..N PROVE A[i] = rows[i].address /\ A[i] \in Nat /\ i \in Nat
  <2>1. rows[i] \in Range(rows)
    BY <1>3
  <2> QED BY <1>5, <2>1 DEF LinesOK
<1> DEFINE First(i, j) == A[i] < A[j] \/ (A[i] = A[j] /\ i < j)
<1>7. PICK R : R = {x \in S \X S : First(x[1], x[2])}
  OBVIOUS
<1>8. \A i, j \in S : <<i, j>> \in R <=> First(i, j)
  BY <1>7
<1>9. Arranges(R, S)
  <2>1. \A i \in S : i \in Nat /\ A[i] \in Nat
    BY <1>3, <1>6
  <2>2. \A i \in S : <<i, i>> \notin R
    BY <1>8, <2>1
  <2>3. \A i, j \in S : i # j => <<i, j>> \in R \/ <<j, i>> \in R
    <3>1. \A i, j \in S : i # j => First(i, j) \/ First(j, i)
      BY <2>1
    <3> QED BY <1>8, <3>1
  <2>4. \A i, j, k \in S : <<i, j>> \in R /\ <<j, k>> \in R => <<i, k>> \in R
    <3>1. \A i, j, k \in S : First(i, j) /\ First(j, k) => First(i, k)
      BY <2>1
    <3> HIDE DEF First
    <3> QED BY <1>8, <3>1
  <2> QED BY <2>2, <2>3, <2>4 DEF Arranges
<1>10. Sorted(order, R, S)
  <2>1. ASSUME NEW i \in S PROVE {j \in S : Earlier(j, i)} = Before(R, S, i)
    <3>1. ASSUME NEW j \in S PROVE Earlier(j, i) <=> <<j, i>> \in R
      <4>1. A[i] = rows[i].address /\ A[j] = rows[j].address
        BY <1>3, <1>6
      <4>2. <<j, i>> \in R <=> First(j, i)
        BY <1>8
      <4> QED BY <4>1, <4>2, Zenon
    <3> HIDE DEF Earlier
    <3> QED BY <3>1 DEF Before
  <2> DEFINE Ranked(n) == CHOOSE i \in S : Cardinality({j \in S : Earlier(j, i)}) = n - 1
  <2>2. order = [n \in 1..Cardinality(S) |-> Ranked(n)]
    BY Zenon DEF order
  <2>3. ASSUME NEW n \in 1..Cardinality(S)
        PROVE  Ranked(n) \in S /\ Cardinality(Before(R, S, Ranked(n))) = n - 1
    <3> HIDE DEF Earlier
    <3>1. \E i \in S : Cardinality(Before(R, S, i)) = n - 1
      BY <1>4, <1>9, RanksReach
    <3>2. \E i \in S : Cardinality({j \in S : Earlier(j, i)}) = n - 1
      BY <2>1, <3>1, Zenon
    <3>3. Ranked(n) \in S /\ Cardinality({j \in S : Earlier(j, Ranked(n))}) = n - 1
      BY <3>2, Zenon
    <3> HIDE DEF Ranked
    <3> QED BY <2>1, <3>3, Zenon
  <2> HIDE DEF Ranked
  <2>4. DOMAIN order = 1..Cardinality(S) /\ order = [n \in 1..Cardinality(S) |-> order[n]]
        /\ \A n \in 1..Cardinality(S) : order[n] = Ranked(n)
    BY <2>2
  <2> QED BY <2>3, <2>4 DEF Sorted
<1>11. IsSequence(order) /\ Len(order) = N /\ Range(order) = 1..N
  BY <1>3, <1>4, <1>9, <1>10, SortedIs
<1>12. Range(order) = {order[n] : n \in 1..N}
  BY <1>11, SequenceIs
<1>13. DOMAIN q = 1..N /\ q = [n \in 1..N |-> q[n]] /\ \A n \in 1..N : q[n] = rows[order[n]]
  BY <1>2, <1>3 DEF S
<1>14. IsSequence(q) /\ Range(q) = {q[n] : n \in 1..N}
  <2>1. IsSequence(q) /\ Len(q) = N
    BY <1>13, SequenceOf
  <2> QED BY <2>1, SequenceIs
<1>15. Range(q) = Range(rows)
  <2>1. \A n \in 1..N : order[n] \in 1..N
    BY <1>11, <1>12
  <2>2. \A i \in 1..N : \E n \in 1..N : i = order[n]
    BY <1>11, <1>12
  <2>3. ASSUME NEW n \in 1..N PROVE q[n] \in {rows[i] : i \in 1..N}
    BY <1>13, <2>1
  <2>4. ASSUME NEW i \in 1..N PROVE rows[i] \in {q[n] : n \in 1..N}
    <3>1. PICK n \in 1..N : i = order[n]
      BY <2>2
    <3> QED BY <1>13, <3>1
  <2> HIDE DEF order
  <2>5. {rows[i] : i \in 1..N} = {q[n] : n \in 1..N}
    BY <2>3, <2>4
  <2> QED BY <1>3, <1>14, <2>5, Zenon
<1> QED BY <1>1, <1>14, <1>15 DEF LinesOK

\* Before the first row.
LEMMA NoRowsFollow == Follows(NoRows) /\ Run(NoRows.ops).rows = {} /\ NoRows \in Encoding
PROOF
<1>1. PICK x : x = Op("set_file", 0)
  OBVIOUS
<1>2. x \in Opcode /\ x.op = "set_file"
  BY <1>1 DEF Op, Opcode, OpNames
<1>3. PICK e : e = <<>>
  OBVIOUS
<1>4. e \in Seq(Opcode) /\ Run(e) = Started
  BY <1>3, RunNothing
<1>5. PICK r : r = Append(e, x)
  OBVIOUS
<1>6. r \in Seq(Opcode) /\ Run(r) = RunOp(Started, x)
  BY <1>2, <1>4, <1>5, RunMore
<1>7. RunOp(Started, x) = Started
  BY <1>2 DEF RunOp
<1>8. r = <<x>>
  BY <1>3, <1>5
<1>9. NoRows = [ops |-> r, address |-> -1, line |-> 1]
  BY <1>1, <1>8 DEF NoRows
<1> QED BY <1>6, <1>7, <1>9, StartedType DEF Follows, Encoding

\* A debugger finds exactly the lines of the unit in its line program.
LEMMA ProgramRead ==
    ASSUME NEW u, LinesOK(u.lines)
    PROVE  RowsIn(LineProgram(u)) = {TheRow(l.address, l.line) : l \in Range(u.lines)}
PROOF
<1>1. PICK rows : rows = ByAddress(u.lines)
  OBVIOUS
<1>2. LinesOK(rows) /\ Range(rows) = Range(u.lines)
  BY <1>1, SortedLines
<1>3. PICK N \in Nat : N = Len(rows) /\ Range(rows) = {rows[i] : i \in 1..N}
  BY <1>2, SequenceIs DEF LinesOK
<1>4. \A n \in 1..N : rows[n].address \in Nat /\ rows[n].line \in Nat
  BY <1>2, <1>3 DEF LinesOK
<1> DEFINE step == [n \in Nat |-> [v \in {x \in Encoding : Follows(x)} |->
                      IF n \in 1..N THEN RowOps(v, rows[n]) ELSE v]]
           Is(h) == h = [n \in 0..N |-> IF n = 0 THEN NoRows ELSE RowOps(h[n - 1], rows[n])]
<1>5. PICK W : W = {x \in Encoding : Follows(x)}
  OBVIOUS
<1>6. \A v : v \in W <=> Follows(v)
  BY <1>5 DEF Follows
<1>7. step \in [Nat -> [W -> W]]
  <2>1. ASSUME NEW n \in Nat, NEW v \in W, n \in 1..N PROVE RowOps(v, rows[n]) \in W
    BY <1>4, <1>6, <2>1, RowRead
  <2> QED BY <1>5, <2>1
<1>8. PICK g : RecursiveFunction(g, 0, N, W, NoRows, step)
  <2> HIDE DEF step
  <2>1. RecursionData(0, N, W, NoRows, step)
    BY <1>3, <1>6, <1>7, NoRowsFollow DEF RecursionData
  <2> QED BY <2>1, Recursion
<1>9. /\ g \in [0..N -> W]
      /\ g = [n \in 0..N |-> IF n = 0 THEN NoRows ELSE step[n][g[n - 1]]]
  <2> HIDE DEF step
  <2> QED BY <1>8 DEF RecursiveFunction
<1>10. ASSUME NEW n \in 0..N, n # 0 PROVE step[n][g[n - 1]] = RowOps(g[n - 1], rows[n])
  <2>1. n - 1 \in 0..N /\ n \in Nat /\ n \in 1..N
    BY <1>3, <1>10
  <2>2. g[n - 1] \in W
    BY <1>9, <2>1
  <2> QED BY <1>5, <2>1, <2>2
<1>11. Is(g)
  <2> HIDE DEF step
  <2> QED BY <1>9, <1>10
<1>12. PICK f : f = CHOOSE h : Is(h)
  OBVIOUS
<1>13. Is(f)
  <2> HIDE DEF Is
  <2> QED BY <1>11, <1>12
<1>14. LineProgram(u) = [file |-> u.source, ops |-> f[N].ops \o <<Op("end_sequence", 0)>>]
  BY <1>1, <1>3, <1>12, Zenon DEF LineProgram
<1>15. \A n \in 0..N : f[n] = IF n = 0 THEN NoRows ELSE RowOps(f[n - 1], rows[n])
  BY <1>13
<1> HIDE DEF Is, step
<1>16. PICK Read : Read = [n \in 0..N |-> {TheRow(rows[i].address, rows[i].line) : i \in 1..n}]
  OBVIOUS
<1>17. 0..N \subseteq {n \in Nat : Follows(f[n]) /\ Run(f[n].ops).rows = Read[n]}
  <2> DEFINE U == {n \in Nat : Follows(f[n]) /\ Run(f[n].ops).rows = Read[n]}
  <2>1. 0 \in U
    <3>1. 0 \in 0..N
      BY <1>3
    <3>2. Read[0] = {}
      BY <1>16, <3>1
    <3> QED BY <1>15, <3>1, <3>2, NoRowsFollow
  <2>2. ASSUME NEW n \in 0..N, n \in U, n + 1 <= N PROVE n + 1 \in U
    <3>1. n + 1 \in 0..N /\ n + 1 \in 1..N /\ n + 1 # 0 /\ (n + 1) - 1 = n
      BY <2>2
    <3>2. f[n + 1] = RowOps(f[n], rows[n + 1])
      BY <1>15, <3>1
    <3>3. /\ Follows(f[n + 1])
          /\ Run(f[n + 1].ops).rows
               = Run(f[n].ops).rows \cup {TheRow(rows[n + 1].address, rows[n + 1].line)}
      BY <1>4, <2>2, <3>1, <3>2, RowRead
    <3>4. Read[n + 1] = Read[n] \cup {TheRow(rows[n + 1].address, rows[n + 1].line)}
      <4>1. 1..(n + 1) = (1..n) \cup {n + 1}
        BY <3>1
      <4> QED BY <1>16, <3>1, <4>1
    <3> QED BY <2>2, <3>1, <3>3, <3>4
  <2>3. 0..N \subseteq U
    <3> HIDE DEF U
    <3> QED BY <1>3, <2>1, <2>2, IntervalInduction
  <2> QED BY <2>3
<1>18. PICK v : v = f[N]
  OBVIOUS
<1>19. Follows(v) /\ Run(v.ops).rows = {TheRow(rows[i].address, rows[i].line) : i \in 1..N}
  <2>1. N \in 0..N
    BY <1>3
  <2> QED BY <1>16, <1>17, <1>18, <2>1
<1>20. PICK x : x = Op("end_sequence", 0)
  OBVIOUS
<1>21. x \in Opcode /\ x.op = "end_sequence"
  BY <1>20 DEF Op, Opcode, OpNames
<1>22. PICK r : r = v.ops \o <<x>>
  OBVIOUS
<1>23. r \in Seq(Opcode) /\ Run(r) = RunOp(Run(v.ops), x)
  <2>1. v.ops \in Seq(Opcode)
    BY <1>19 DEF Follows, Encoding
  <2> QED BY <1>21, <1>22, <2>1, OpcodeAdded
<1>24. Run(r) = Run(v.ops)
  BY <1>21, <1>23 DEF RunOp
<1>25. RowsIn(LineProgram(u)) = Run(r).rows
  <2>1. LineProgram(u) = [file |-> u.source, ops |-> r]
    BY <1>14, <1>18, <1>20, <1>22, Zenon
  <2>2. LineProgram(u).ops = r
    BY <2>1
  <2> QED BY <2>2, Zenon DEF RowsIn, Run
<1>26. {TheRow(rows[i].address, rows[i].line) : i \in 1..N}
         = {TheRow(l.address, l.line) : l \in Range(rows)}
  BY <1>3
<1> QED BY <1>2, <1>19, <1>24, <1>25, <1>26

-----------------------------------------------------------------------------
(* populate().                                                             *)

\* The reader's helpers are the ones known here.
LEMMA SameHelpers ==
    ASSUME NEW s, NEW S
    PROVE  /\ Map!Among(s, S) = Among(s, S) /\ Map!Indices(s) = Indices(s)
           /\ Map!Distinct(s) = Distinct(s) /\ Map!FlattenSeq(s) = FlattenSeq(s)
           /\ Map!Range(s) = Range(s)
PROOF
<1>1. Map!Among(s, S) = Among(s, S)
  BY DEF Map!Among, Among
<1>2. Map!Indices(s) = Indices(s)
  BY DEF Map!Indices, Indices
<1>3. Map!Distinct(s) = Distinct(s)
  BY DEF Map!Distinct, Distinct, Map!Among, Among, Map!Indices, Indices
<1>4. Map!FlattenSeq(s) = FlattenSeq(s)
  BY DEF Map!FlattenSeq, FlattenSeq
<1>5. Map!Range(s) = Range(s)
  BY DEF Map!Range, Range
<1> QED BY <1>1, <1>2, <1>3, <1>4, <1>5

\* An address of the .map file.
LEMMA PlacedAddress ==
    ASSUME ImageOK(program), NEW r, r.offset \in Nat
    PROVE  Map!ResolveVA(r.segment, r.offset) \in Nat
PROOF
<1>1. PICK L : L = Map!Listed(r.segment)
  OBVIOUS
<1>2. PICK t : t = CHOOSE s \in L : TRUE
  OBVIOUS
<1>3. L \subseteq Range(program.map.segments)
  BY <1>1 DEF Map!Listed, Map!Range, Range
<1>4. L # {} => t \in L
  BY <1>2
<1>5. L # {} => t.start \in Nat
  BY <1>3, <1>4 DEF ImageOK
<1>6. Map!ResolveVA(r.segment, r.offset) = IF L = {} THEN 0 ELSE t.start + r.offset
  BY <1>1, <1>2 DEF Map!ResolveVA, Map!SegmentOf
<1> QED BY <1>5, <1>6

\* A sequence with natural numbers as addresses.
Addressed(q) == IsSequence(q) /\ \A x \in Range(q) : x.address \in Nat

\* The symbols of a module.
LEMMA SymbolsAddressed ==
    ASSUME ImageOK(program), NEW m
    PROVE  Addressed(Map!Symbols(m))
PROOF
<1>1. PICK ps : ps = program.map.publics
  OBVIOUS
<1>2. IsSequence(ps) /\ \A r \in Range(ps) : r.offset \in Nat
  BY <1>1 DEF ImageOK, IsSequence
<1>3. PICK n \in Nat : n = Len(ps)
  BY <1>2, SequenceIs
<1>4. DOMAIN ps = 1..n /\ \A i \in 1..n : ps[i] \in Range(ps)
  BY <1>2, <1>3, SequenceIs
<1>5. PICK mine : mine = {i \in DOMAIN ps :
                            /\ Map!Bucket(ps[i].name) = m
                            /\ ~Map!Internal(SubSeq(ps[i].name, Len(m) + 1, Len(ps[i].name)))}
  OBVIOUS
<1>6. PICK is : is = Indices(ps)
  OBVIOUS
<1>7. is \in Seq(1..n)
  <2>1. ps \in Seq(Range(ps))
    BY <1>2 DEF IsSequence
  <2>2. is \in Seq(Nat) /\ Range(is) = 1..n
    BY <1>3, <1>6, <2>1, IndicesAre
  <2> QED BY <2>2, SequenceOver, SequenceIs
<1>8. PICK order : order = Among(is, mine)
  OBVIOUS
<1>9. order \in Seq(1..n) /\ Range(order) \subseteq 1..n
  BY <1>7, <1>8, AmongType, SequenceOver
<1>10. IsSequence(order)
  BY <1>9, SequenceOver
<1>11. PICK k \in Nat : k = Len(order)
  BY <1>10, SequenceIs
<1>12. DOMAIN order = 1..k /\ \A j \in 1..k : order[j] \in 1..n
  BY <1>9, <1>10, <1>11, SequenceIs
<1>13. PICK q : q = [j \in 1..k |-> Map!Symbol(m, order[j])]
  OBVIOUS
<1>14. Map!Symbols(m) = q
  <2>1. order = Map!Among(Map!Indices(ps), mine)
    BY <1>6, <1>8, SameHelpers
  <2> QED BY <1>1, <1>5, <1>12, <1>13, <2>1, Zenon DEF Map!Symbols
<1>15. IsSequence(q) /\ Range(q) = {q[j] : j \in 1..k}
  <2>1. IsSequence(q) /\ Len(q) = k
    BY <1>13, SequenceOf
  <2> QED BY <2>1, SequenceIs
<1>16. ASSUME NEW j \in 1..k PROVE q[j].address \in Nat
  <2>1. PICK r : r = ps[order[j]]
    OBVIOUS
  <2>2. r.offset \in Nat
    BY <1>2, <1>4, <1>12, <2>1
  <2>3. Map!ResolveVA(r.segment, r.offset) \in Nat
    BY <2>2, PlacedAddress
  <2>4. q[j].address = Map!ResolveVA(r.segment, r.offset)
    BY <1>1, <1>13, <2>1 DEF Map!Symbol
  <2> QED BY <2>3, <2>4
<1> QED BY <1>14, <1>15, <1>16 DEF Addressed

\* The lines of a module.
LEMMA LinesPlaced ==
    ASSUME ImageOK(program), NEW m
    PROVE  /\ IsSequence(Map!LinesOf(m))
           /\ \A r \in Range(Map!LinesOf(m)) : r.offset \in Nat
PROOF
<1>1. PICK ts : ts = program.map.tables
  OBVIOUS
<1>2. /\ ts \in Seq(Range(ts))
      /\ \A t \in Range(ts) :
           IsSequence(t.lines) /\ \A r \in Range(t.lines) : r.offset \in Nat
  BY <1>1 DEF ImageOK, IsSequence
<1>3. PICK S : S = {t \in Range(ts) : t.module = m}
  OBVIOUS
<1>4. PICK own : own = Among(ts, S)
  OBVIOUS
<1>5. own \in Seq(Range(ts))
  BY <1>2, <1>4, AmongType
<1>6. IsSequence(own) /\ Range(own) \subseteq Range(ts)
  BY <1>5, SequenceOver
<1>7. PICK n \in Nat : n = Len(own)
  BY <1>6, SequenceIs
<1>8. DOMAIN own = 1..n /\ \A i \in 1..n : own[i] \in Range(ts)
  BY <1>6, <1>7, SequenceIs
<1>9. Map!TablesOf(m) = own
  <2>1. own = Map!Among(ts, {t \in Map!Range(ts) : t.module = m})
    BY <1>3, <1>4, SameHelpers
  <2> QED BY <1>1, <2>1, Zenon DEF Map!TablesOf
<1>10. PICK ss : ss = [i \in 1..n |-> own[i].lines]
  OBVIOUS
<1>11. IsSequence(ss) /\ Len(ss) = n
  BY <1>10, SequenceOf
<1>12. \A i \in 1..n : IsSequence(ss[i])
  BY <1>2, <1>8, <1>10
<1>13. IsSequence(FlattenSeq(ss)) /\ Range(FlattenSeq(ss)) = UNION {Range(ss[i]) : i \in 1..n}
  BY <1>11, <1>12, FlattenIs
<1>14. Map!LinesOf(m) = FlattenSeq(ss)
  <2>1. Map!FlattenSeq(ss) = FlattenSeq(ss)
    BY SameHelpers
  <2>2. ss = [i \in DOMAIN own |-> own[i].lines]
    BY <1>8, <1>10
  <2> QED BY <1>9, <2>1, <2>2, Zenon DEF Map!LinesOf
<1>15. \A i \in 1..n : \A r \in Range(ss[i]) : r.offset \in Nat
  BY <1>2, <1>8, <1>10
<1> QED BY <1>13, <1>14, <1>15

\* A unit of populate().
Populous(u) ==
    /\ DOMAIN u = {"module", "source", "symbols", "lines"}
    /\ Addressed(u.symbols) /\ Addressed(u.lines)

\* What Unit gives.
LEMMA UnitPopulated ==
    ASSUME ImageOK(program), NEW m, NEW files
    PROVE  Populous(Map!Unit(m, files))
PROOF
<1>1. PICK u : u = Map!Unit(m, files)
  OBVIOUS
<1>2. PICK lines : lines = Map!LinesOf(m)
  OBVIOUS
<1>3. IsSequence(lines) /\ \A r \in Range(lines) : r.offset \in Nat
  BY <1>2, LinesPlaced
<1>4. PICK n \in Nat : n = Len(lines)
  BY <1>3, SequenceIs
<1>5. DOMAIN lines = 1..n /\ \A i \in 1..n : lines[i] \in Range(lines)
  BY <1>3, <1>4, SequenceIs
<1>6. PICK source : source = Head(Map!TablesOf(m)).source
  OBVIOUS
<1>7. PICK q : q = [i \in 1..n |->
        [address |-> Map!ResolveVA(lines[i].segment, lines[i].offset),
         line |-> lines[i].line, file |-> Map!FileId(files, source)]]
  OBVIOUS
<1>8. u = [module |-> m, source |-> source, symbols |-> Map!Symbols(m), lines |-> q]
  BY <1>1, <1>2, <1>5, <1>6, <1>7, Zenon DEF Map!Unit
<1>9. DOMAIN u = {"module", "source", "symbols", "lines"}
      /\ u.symbols = Map!Symbols(m) /\ u.lines = q
  BY <1>8
<1>10. IsSequence(q) /\ Range(q) = {q[i] : i \in 1..n}
  <2>1. IsSequence(q) /\ Len(q) = n
    BY <1>7, SequenceOf
  <2> QED BY <2>1, SequenceIs
<1>11. ASSUME NEW i \in 1..n PROVE q[i].address \in Nat
  <2>1. PICK r : r = lines[i]
    OBVIOUS
  <2>2. Map!ResolveVA(r.segment, r.offset) \in Nat
    BY <1>3, <1>5, <2>1, PlacedAddress
  <2> QED BY <1>7, <2>1, <2>2
<1>12. Addressed(q)
  BY <1>10, <1>11 DEF Addressed
<1> QED BY <1>1, <1>9, <1>12, SymbolsAddressed DEF Populous

\* populate() leaves units the command can work on.
LEMMA UntypedOK ==
    ASSUME NEW u, Populous(u)
    PROVE  UnitOK(Untyped(u))
PROOF
<1>1. PICK ss : ss = u.symbols
  OBVIOUS
<1>2. IsSequence(ss) /\ \A s \in Range(ss) : s.address \in Nat
  BY <1>1 DEF Populous, Addressed
<1>3. PICK n \in Nat : n = Len(ss)
  BY <1>2, SequenceIs
<1>4. DOMAIN ss = 1..n /\ \A i \in 1..n : ss[i] \in Range(ss)
  BY <1>2, <1>3, SequenceIs
<1>5. PICK e : e = <<>>
  OBVIOUS
<1>6. SlotsOK(e)
  <2>1. e \in Seq({})
    BY <1>5
  <2>2. IsSequence(e) /\ Range(e) \subseteq {}
    BY <2>1, SequenceOver
  <2> QED BY <2>2 DEF SlotsOK
<1>7. PICK q : q = [i \in 1..n |->
        [address |-> ss[i].address, kind |-> ss[i].kind, name |-> ss[i].name,
         type |-> NoType, params |-> e, locals |-> e]]
  OBVIOUS
<1>8. PICK v : v = Untyped(u)
  OBVIOUS
<1>9. v = [u EXCEPT !.symbols = q]
  BY <1>1, <1>4, <1>5, <1>7, <1>8 DEF Untyped
<1>10. DOMAIN v = DOMAIN u /\ v.symbols = q /\ v.lines = u.lines
  BY <1>9 DEF Populous
<1>11. IsSequence(q) /\ Range(q) = {q[i] : i \in 1..n}
  <2>1. IsSequence(q) /\ Len(q) = n
    BY <1>7, SequenceOf
  <2> QED BY <2>1, SequenceIs
<1>12. ASSUME NEW i \in 1..n PROVE SymbolOK(q[i])
  <2>1. PICK x : x = q[i]
    OBVIOUS
  <2>2. x = [address |-> ss[i].address, kind |-> ss[i].kind, name |-> ss[i].name,
             type |-> NoType, params |-> e, locals |-> e]
    BY <1>7, <2>1
  <2>3. DOMAIN x = {"address", "kind", "name", "type", "params", "locals"}
        /\ x.address \in Nat /\ x.params = e /\ x.locals = e
    BY <1>2, <1>4, <2>2
  <2> QED BY <1>6, <2>1, <2>3 DEF SymbolOK
<1> QED BY <1>8, <1>10, <1>11, <1>12 DEF Populous, Addressed, UnitOK

\* A step that replaces each unit by one as good.
LEMMA UnitsReplaced ==
    ASSUME NEW n \in Nat, NEW us, DOMAIN us = 1..n, us = [i \in 1..n |-> us[i]],
           \A i \in 1..n : UnitOK(us[i])
    PROVE  UnitsOK(us)
PROOF
<1>1. IsSequence(us) /\ Len(us) = n
  BY SequenceOf
<1>2. Range(us) = {us[i] : i \in 1..n}
  BY <1>1, SequenceIs
<1> QED BY <1>1, <1>2 DEF UnitsOK

\* populate().
LEMMA PopulateSafe ==
    ASSUME Inv, DwarfPopulate, program' = program
    PROVE  Inv'
PROOF
<1>1. ImageOK(program)
  BY ProgramsAssumption DEF Inv
<1>2. PICK ts : ts = program.map.tables
  OBVIOUS
<1>3. IsSequence(ts)
  BY <1>1, <1>2 DEF ImageOK, IsSequence
<1>4. PICK k \in Nat : k = Len(ts) /\ DOMAIN ts = 1..k
  BY <1>3, SequenceIs
<1>5. PICK modules : modules = [i \in 1..k |-> ts[i].module]
  OBVIOUS
<1>6. IsSequence(modules)
  BY <1>5, SequenceOf
<1>7. PICK order : order = Distinct(modules)
  OBVIOUS
<1>8. IsSequence(order)
  <2>1. PICK R : R = Range(modules)
    OBVIOUS
  <2>2. modules \in Seq(R)
    BY <1>6, <2>1 DEF IsSequence
  <2>3. order \in Seq(R)
    BY <1>7, <2>2, DistinctIs
  <2> QED BY <2>3, SequenceOver
<1>9. PICK n \in Nat : n = Len(order) /\ DOMAIN order = 1..n
  BY <1>8, SequenceIs
<1>10. PICK files : files = Map!Distinct([i \in DOMAIN order |->
                                            Head(Map!TablesOf(order[i])).source])
  OBVIOUS
<1>11. PICK us : us = [i \in 1..n |-> Map!Unit(order[i], files)]
  OBVIOUS
<1>12. Map!Populated.units = us
  <2>1. order = Map!Distinct([i \in DOMAIN ts |-> ts[i].module])
    BY <1>4, <1>5, <1>7, SameHelpers
  <2>2. Map!Populated = [units |-> us, sourceFiles |-> files]
    BY <1>2, <1>9, <1>10, <1>11, <2>1, Zenon DEF Map!Populated
  <2> QED BY <2>2
<1>13. PICK vs : vs = [i \in 1..n |-> Untyped(us[i])]
  OBVIOUS
<1>14. units' = vs
  <2>1. DOMAIN us = 1..n
    BY <1>11
  <2> QED BY <1>12, <1>13, <2>1 DEF DwarfPopulate
<1>15. \A i \in 1..n : UnitOK(vs[i])
  BY <1>1, <1>11, <1>13, UnitPopulated, UntypedOK
<1>16. UnitsOK(vs)
  BY <1>13, <1>15, UnitsReplaced
<1> QED BY <1>14, <1>16 DEF Inv, DwarfPopulate

-----------------------------------------------------------------------------
(* The types and slots of the symbols.                                     *)

\* A unit with other symbols.
LEMMA SymbolsReplaced ==
    ASSUME NEW u, UnitOK(u), NEW n \in Nat, NEW q, DOMAIN q = 1..n, q = [i \in 1..n |-> q[i]],
           \A i \in 1..n : SymbolOK(q[i])
    PROVE  UnitOK([u EXCEPT !.symbols = q])
PROOF
<1>1. PICK v : v = [u EXCEPT !.symbols = q]
  OBVIOUS
<1>2. DOMAIN v = DOMAIN u /\ v.symbols = q /\ v.lines = u.lines
  BY <1>1 DEF UnitOK
<1>3. IsSequence(q) /\ Len(q) = n
  BY SequenceOf
<1>4. Range(q) = {q[i] : i \in 1..n}
  BY <1>3, SequenceIs
<1> QED BY <1>1, <1>2, <1>3, <1>4 DEF UnitOK

\* A step that gives each symbol i of unit k the form new[k][i].
Replaces(us, vs, new) ==
    vs = [k \in DOMAIN us |-> [us[k] EXCEPT !.symbols = [i \in DOMAIN @ |-> new[k][i]]]]

\* If each form is a symbol, each unit is one.
LEMMA EachReplaced ==
    ASSUME NEW us, UnitsOK(us), NEW vs, NEW new, Replaces(us, vs, new),
           \A k \in DOMAIN us : \A i \in DOMAIN us[k].symbols : SymbolOK(new[k][i])
    PROVE  UnitsOK(vs)
PROOF
<1>1. PICK n \in Nat : n = Len(us)
  BY SequenceIs DEF UnitsOK
<1>2. DOMAIN us = 1..n /\ \A k \in 1..n : UnitOK(us[k])
  BY <1>1, SequenceIs DEF UnitsOK
<1>3. DOMAIN vs = 1..n /\ vs = [k \in 1..n |-> vs[k]]
  BY <1>2 DEF Replaces
<1>4. ASSUME NEW k \in 1..n PROVE UnitOK(vs[k])
  <2>1. PICK u : u = us[k]
    OBVIOUS
  <2>2. UnitOK(u)
    BY <1>2, <2>1
  <2>3. PICK m \in Nat : m = Len(u.symbols) /\ DOMAIN u.symbols = 1..m
    BY <2>2, SequenceIs DEF UnitOK
  <2>4. PICK q : q = [i \in 1..m |-> new[k][i]]
    OBVIOUS
  <2>5. vs[k] = [u EXCEPT !.symbols = q]
    <3>1. vs[k] = [us[k] EXCEPT !.symbols = [i \in DOMAIN us[k].symbols |-> new[k][i]]]
      BY <1>2 DEF Replaces, UnitOK
    <3> QED BY <2>1, <2>3, <2>4, <3>1
  <2>6. \A i \in 1..m : SymbolOK(q[i])
    BY <1>2, <2>1, <2>3, <2>4
  <2> QED BY <2>2, <2>4, <2>5, <2>6, SymbolsReplaced
<1> QED BY <1>3, <1>4, UnitsReplaced

\* The type of a slot is one.
LEMMA SlotTyped ==
    ASSUME NEW u, NEW v
    PROVE  SlotType(u, v) # NoType
PROOF
<1>1. NoType.kind = "none"
  BY DEF NoType
<1>2. \A n : ByteArray(n) # NoType
  BY <1>1 DEF ByteArray
<1>3. Base("Int32", u, 256) # NoType
  BY <1>1 DEF Base
<1>4. ASSUME NEW marker PROVE MarkerType(u, marker) # NoType
  <2>1. PICK size : MarkerType(u, marker) =
          IF size \in DOMAIN KindForSize THEN Base(KindForSize[size], u, marker)
          ELSE ByteArray(size)
    BY DEF MarkerType
  <2>2. ASSUME size \in DOMAIN KindForSize PROVE KindForSize[size] # "none"
    BY <2>2 DEF KindForSize
  <2>3. size \in DOMAIN KindForSize => Base(KindForSize[size], u, marker) # NoType
    BY <1>1, <2>2 DEF Base
  <2> QED BY <1>2, <2>1, <2>3
<1> QED BY <1>2, <1>3, <1>4 DEF SlotType

\* The slots of a frame the .rsm describes.
LEMMA SlotsTyped ==
    ASSUME NEW u, NEW variables, IsSequence(variables)
    PROVE  SlotsOK(Slots(u, variables))
PROOF
<1>1. PICK n \in Nat : n = Len(variables) /\ DOMAIN variables = 1..n
  BY SequenceIs
<1>2. PICK q : q = [i \in 1..n |-> [name |-> variables[i].name,
                                    type |-> SlotType(u, variables[i]),
                                    offset |-> variables[i].stack]]
  OBVIOUS
<1>3. Slots(u, variables) = q
  BY <1>1, <1>2 DEF Slots
<1>4. IsSequence(q) /\ Range(q) = {q[i] : i \in 1..n}
  <2>1. IsSequence(q) /\ Len(q) = n
    BY <1>2, SequenceOf
  <2> QED BY <2>1, SequenceIs
<1>5. \A i \in 1..n : q[i].type # NoType
  BY <1>2, SlotTyped
<1> QED BY <1>3, <1>4, <1>5 DEF SlotsOK

\* A procedure that is found is one of them.
LEMMA ProcedureFound ==
    ASSUME ImageOK(program), NEW va, ProcedureAt(va) # 0
    PROVE  Rsm.procedures[ProcedureAt(va)] \in Range(Rsm.procedures)
PROOF
<1>1. PICK ps : ps = Rsm.procedures
  OBVIOUS
<1>2. IsSequence(ps)
  BY <1>1 DEF ImageOK, Rsm, IsSequence
<1>3. PICK n \in Nat : n = Len(ps)
  BY <1>2, SequenceIs
<1>4. PICK I : I = {i \in 1..n : ps[i].address = va}
  OBVIOUS
<1>5. ProcedureAt(va) = IF I = {} THEN 0 ELSE Min(I)
  BY <1>1, <1>3, <1>4, Zenon DEF ProcedureAt, SelectInSeq
<1>6. I # {} /\ ProcedureAt(va) = Min(I)
  BY <1>5
<1>7. Min(I) \in I
  <2>1. I \in SUBSET Nat
    BY <1>4
  <2> QED BY <1>6, <2>1, MinIsLeast
<1>8. ProcedureAt(va) \in 1..n
  BY <1>4, <1>6, <1>7
<1>9. \A i \in 1..n : ps[i] \in Range(ps)
  BY <1>2, <1>3, SequenceIs
<1> QED BY <1>1, <1>8, <1>9

\* A decorated symbol.
LEMMA DecoratedOK ==
    ASSUME ImageOK(program), NEW u, NEW s, SymbolOK(s)
    PROVE  SymbolOK(Decorated(u, s))
PROOF
<1>1. PICK p : p = ProcedureAt(s.address)
  OBVIOUS
<1>2. CASE s.kind = "Variable"
  <2>1. Decorated(u, s) = [s EXCEPT !.type = GlobalType(u, s)]
    BY <1>2 DEF Decorated
  <2> QED BY <2>1 DEF SymbolOK
<1>3. CASE s.kind = "Function" /\ p # 0
  <2>1. PICK f : f = Rsm.procedures[p]
    OBVIOUS
  <2>2. f \in Range(Rsm.procedures)
    BY <1>1, <1>3, <2>1, ProcedureFound
  <2>3. IsSequence(f.params) /\ IsSequence(f.locals)
    BY <2>2 DEF ImageOK, Rsm, IsSequence
  <2>4. PICK params : params = Slots(u, f.params)
    OBVIOUS
  <2>5. PICK locals : locals = Slots(u, f.locals)
    OBVIOUS
  <2>6. SlotsOK(params) /\ SlotsOK(locals)
    BY <2>3, <2>4, <2>5, SlotsTyped
  <2>7. Decorated(u, s) = [s EXCEPT !.params = params, !.locals = locals]
    BY <1>1, <1>3, <2>1, <2>4, <2>5 DEF Decorated
  <2> QED BY <2>6, <2>7 DEF SymbolOK
<1>4. CASE s.kind # "Variable" /\ ~(s.kind = "Function" /\ p # 0)
  BY <1>1, <1>4 DEF Decorated
<1> QED BY <1>2, <1>3, <1>4

\* The rsm's types and slots.
LEMMA DecorateSafe ==
    ASSUME Inv, Decorate, program' = program
    PROVE  Inv'
PROOF
<1>1. ImageOK(program)
  BY ProgramsAssumption DEF Inv
<1>2. PICK us : us = units
  OBVIOUS
<1>3. PICK new : new = [k \in DOMAIN us |-> [i \in DOMAIN us[k].symbols |->
                          Decorated(k, us[k].symbols[i])]]
  OBVIOUS
<1>4. ASSUME NEW k \in DOMAIN us, NEW i \in DOMAIN us[k].symbols PROVE SymbolOK(new[k][i])
  <2>1. UnitOK(us[k])
    BY <1>2 DEF Inv, UnitsOK, Range
  <2>2. SymbolOK(us[k].symbols[i])
    BY <2>1 DEF UnitOK, Range
  <2> QED BY <1>1, <1>3, <2>2, DecoratedOK
<1>5. Replaces(us, units', new)
  BY <1>2, <1>3 DEF Decorate, EachSymbol, Replaces
<1>6. UnitsOK(us)
  BY <1>2 DEF Inv
<1>7. UnitsOK(units')
  BY <1>4, <1>5, <1>6, EachReplaced
<1> QED BY <1>7 DEF Inv, Decorate

\* A slot keeps its type when it gets its place in the frame.
LEMMA InFrameTyped ==
    ASSUME NEW slots, SlotsOK(slots), NEW vars
    PROVE  SlotsOK(InFrame(slots, vars))
PROOF
<1>1. PICK n \in Nat : n = Len(slots) /\ DOMAIN slots = 1..n
  BY SequenceIs DEF SlotsOK
<1>2. PICK q : q = [i \in 1..n |-> [name |-> vars[i].name, type |-> slots[i].type,
                                    offset |-> vars[i].offset]]
  OBVIOUS
<1>3. InFrame(slots, vars) = q
  BY <1>1, <1>2 DEF InFrame
<1>4. IsSequence(q) /\ Range(q) = {q[i] : i \in 1..n}
  <2>1. IsSequence(q) /\ Len(q) = n
    BY <1>2, SequenceOf
  <2> QED BY <2>1, SequenceIs
<1>5. \A i \in 1..n : slots[i].type # NoType
  BY <1>1 DEF SlotsOK, Range
<1>6. \A i \in 1..n : q[i].type # NoType
  BY <1>2, <1>5
<1> QED BY <1>3, <1>4, <1>6 DEF SlotsOK

\* A symbol with its frame.
LEMMA ComposedOK ==
    ASSUME NEW s, SymbolOK(s), NEW firstOfTwo
    PROVE  SymbolOK(Composed(s, firstOfTwo))
PROOF
<1>1. CASE s.kind # "Function" \/ ProcedureAt(s.address) = 0
  BY <1>1 DEF Composed
<1>2. CASE ~(s.kind # "Function" \/ ProcedureAt(s.address) = 0)
  <2>1. PICK own : own = FrameOf(s, firstOfTwo)
    OBVIOUS
  <2>2. PICK params : params = InFrame(s.params, Params(own))
    OBVIOUS
  <2>3. PICK locals : locals = InFrame(s.locals, Locals(own))
    OBVIOUS
  <2>4. SlotsOK(params) /\ SlotsOK(locals)
    BY <2>2, <2>3, InFrameTyped DEF SymbolOK
  <2>5. Composed(s, firstOfTwo) = [s EXCEPT !.params = params, !.locals = locals]
    BY <1>2, <2>1, <2>2, <2>3 DEF SymbolOK, Composed
  <2> QED BY <2>4, <2>5 DEF SymbolOK
<1> QED BY <1>1, <1>2

\* The frames.
LEMMA ComposeSafe ==
    ASSUME Inv, Compose, program' = program
    PROVE  Inv'
PROOF
<1>1. PICK us : us = units
  OBVIOUS
<1>2. PICK early : units' = [u \in DOMAIN units |-> [units[u] EXCEPT
        !.symbols = [i \in DOMAIN @ |-> Composed(@[i], @[i] \in early)]]]
  BY DEF Compose, EachSymbol
<1>3. PICK new : new = [k \in DOMAIN us |-> [i \in DOMAIN us[k].symbols |->
                    Composed(us[k].symbols[i], us[k].symbols[i] \in early)]]
  OBVIOUS
<1>4. ASSUME NEW k \in DOMAIN us, NEW i \in DOMAIN us[k].symbols PROVE SymbolOK(new[k][i])
  <2>1. UnitOK(us[k])
    BY <1>1 DEF Inv, UnitsOK, Range
  <2>2. SymbolOK(us[k].symbols[i])
    BY <2>1 DEF UnitOK, Range
  <2> QED BY <1>3, <2>2, ComposedOK
<1>5. Replaces(us, units', new)
  BY <1>1, <1>2, <1>3 DEF Replaces
<1>6. UnitsOK(us)
  BY <1>1 DEF Inv
<1>7. UnitsOK(units')
  BY <1>4, <1>5, <1>6, EachReplaced
<1>8. UNCHANGED <<emitted, info, linePrograms>>
  BY DEF Compose, EachSymbol
<1> QED BY <1>7, <1>8 DEF Inv

-----------------------------------------------------------------------------
(* emit().                                                                 *)

\* One unit.
LEMMA EmitSafe ==
    ASSUME Inv, EmitUnit, program' = program
    PROVE  Inv'
PROOF
<1>1. emitted \in Nat /\ emitted < Len(units)
  BY DEF Inv, EmitUnit
<1>2. IsSequence(units) /\ \A u \in Range(units) : UnitOK(u)
  BY DEF Inv, UnitsOK
<1>3. PICK u : u = units[emitted + 1]
  OBVIOUS
<1>4. UnitOK(u)
  <2>1. emitted + 1 \in 1..Len(units)
    BY <1>1, <1>2, SequenceIs
  <2> QED BY <1>2, <1>3, <2>1, SequenceIs
<1>5. PICK d : d = info
  OBVIOUS
<1>6. PICK lp : lp = linePrograms
  OBVIOUS
<1>7. Structured(d, lp) /\ IsSequence(lp)
  BY <1>5, <1>6 DEF Inv
<1>8. PICK m \in Nat : m = Len(d)
  BY <1>7, SequenceIs DEF Structured
<1>9. PICK x : x = CompileUnit(u, m, Len(lp))
  OBVIOUS
<1>10. PICK p : p = LineProgram(u)
  OBVIOUS
<1>11. UnitGiven(x, Append(lp, p), m)
  BY <1>4, <1>7, <1>9, <1>10, UnitWritten
<1>12. Structured(d \o x, Append(lp, p)) /\ IsSequence(Append(lp, p))
  BY <1>7, <1>8, <1>11, UnitAdded, AppendAdds
<1>13. \/ info' = info /\ linePrograms' = linePrograms
       \/ info' = d \o x /\ linePrograms' = Append(lp, p)
  BY <1>3, <1>5, <1>6, <1>8, <1>9, <1>10 DEF EmitUnit
<1>14. Structured(info', linePrograms') /\ IsSequence(linePrograms')
  BY <1>5, <1>6, <1>7, <1>12, <1>13
<1>15. emitted' = emitted + 1 /\ units' = units
  BY DEF EmitUnit
<1>16. emitted' \in Nat
  BY <1>1, <1>15
<1> QED BY <1>14, <1>15, <1>16 DEF Inv

\* Before the first step.
LEMMA InitSafe == ASSUME DwarfInit PROVE Inv
PROOF
<1>1. PICK e : e = <<>>
  OBVIOUS
<1>2. Len(e) = 0
  BY <1>1
<1>3. IsSequence(e) /\ Range(e) \subseteq {}
  <2>1. e \in Seq({})
    BY <1>1
  <2> QED BY <2>1, SequenceOver
<1>4. UnitsOK(e)
  BY <1>3 DEF UnitsOK
<1>5. HeadersIn(e) = {} /\ 1..Len(e) = {}
  BY <1>2 DEF HeadersIn
<1>6. Structured(e, e)
  BY <1>3, <1>5 DEF Structured
<1>7. units = e /\ info = e /\ linePrograms = e /\ emitted = 0 /\ program \in Programs
  BY <1>1 DEF DwarfInit, dwarfEmpty
<1> QED BY <1>3, <1>4, <1>6, <1>7 DEF Inv

\* All that the command does.
LEMMA NextSafe == ASSUME Inv, DwarfNext PROVE Inv'
PROOF
<1>1. program' = program
  BY DEF DwarfNext
<1>2. CASE DwarfPopulate
  BY <1>1, <1>2, PopulateSafe
<1>3. CASE Decorate
  BY <1>1, <1>3, DecorateSafe
<1>4. CASE Compose
  BY <1>1, <1>4, ComposeSafe
<1>5. CASE NoUnits
  BY <1>1, <1>5 DEF NoUnits, dwarfVars, Inv
<1>6. CASE EmitUnit
  BY <1>1, <1>6, EmitSafe
<1>7. CASE DwarfFinish
  BY <1>1, <1>7 DEF DwarfFinish, dwarfVars, Inv
<1> QED BY <1>2, <1>3, <1>4, <1>5, <1>6, <1>7 DEF DwarfNext

\* The invariant holds throughout.
LEMMA InvSafe == DwarfSpec => []Inv
PROOF
<1>1. DwarfInit => Inv
  BY InitSafe
<1>2. Inv /\ [DwarfNext]_<<program, dwarfVars>> => Inv'
  <2>1. ASSUME Inv, UNCHANGED <<program, dwarfVars>> PROVE Inv'
    BY <2>1 DEF Inv, dwarfVars
  <2> QED BY <2>1, NextSafe
<1> QED BY <1>1, <1>2, PTL DEF DwarfSpec

-----------------------------------------------------------------------------
(* The results.                                                            *)

\* For every program, the ranges of two functions of one unit never meet unless
\* they start together, and those of two units only when the units' own ranges do.
THEOREM RangesNeverMeet == DwarfSpec => []SubprogramsDisjoint
PROOF
<1>1. Inv => SubprogramsDisjoint
  BY RangesDisjoint DEF Inv
<1> QED BY <1>1, InvSafe, PTL

\* For every program, the lengths lead from unit to unit, each unit finds its own
\* line program, and every reference to a type finds a type of the same unit.
THEOREM ReferencesFind == DwarfSpec => []DwarfRefsResolve
PROOF
<1>1. Inv => DwarfRefsResolve
  BY ReferencesResolve DEF Inv
<1> QED BY <1>1, InvSafe, PTL
=============================================================================
