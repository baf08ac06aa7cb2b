----------------------------- MODULE MapReaderProofs -----------------------------
(***************************************************************************)
(* What the .map reader promises of every file, proved for all sets of rows *)
(* and headers and for files of every length.                               *)
(***************************************************************************)
EXTENDS MapReader, DataLemmas

Datum == SegmentRows \cup Range(ModuleRows) \cup Range(PublicRows) \cup LineRows
           \cup TableHeaders \cup {NoTable}
WrittenLine == [section : Sections, header : BOOLEAN, data : Datum]

\* A file, or the part of one that is written.
FileLike(w) == w \in Seq(WrittenLine) /\ (w # <<>> => w[1].header)

\* Reading section s of a file w that has begun: the last header is of s, and the
\* headers and rows of line tables carry what those carry.
FileOK(w, s) ==
    /\ FileLike(w)
    /\ s # "Initial" => w # <<>>
    /\ s \in Sections => w[Under(w, Len(w))].section = s
    /\ \A j \in HeadersOf(w, "LineNumbers") : w[j].data \in TableHeaders
    /\ \A H \in SUBSET HeadersOf(w, "LineNumbers") : Rows(w, H) \in Seq(LineRows)

\* The rows that stand for themselves.
RowsOK(f, w) ==
    /\ f.segments = Rows(w, HeadersOf(w, "Segments"))
    /\ f.modules = Rows(w, HeadersOf(w, "DetailedMap"))
    /\ f.publics = Rows(w, HeadersOf(w, "PublicsByName"))

\* The table of header j.
TableAt(w, j) ==
    [module |-> w[j].data.module, source |-> w[j].data.source, lines |-> LinesUnder(w, j)]

\* The tables ts read and the current one, c: while line numbers are read, c is
\* the last header's; the header of the entry point flushes nothing, so c may be
\* one's after that too.
Unflushed(c) == IF c.lines = <<>> THEN <<>> ELSE <<c>>
TablesOK(s, c, ts, w) ==
    /\ s = "LineNumbers" =>
         /\ c = TableAt(w, Under(w, Len(w)))
         /\ ts = TablesUnder(w, Inhabited(w) \ {Under(w, Len(w))})
    /\ s # "LineNumbers" => ts \o Unflushed(c) = TablesUnder(w, Inhabited(w))
    /\ s \notin {"LineNumbers", "EntryPoint"} => c = NoTable
    /\ c.lines # <<>> => c.module # <<>>
    /\ \A t \in Range(ts) : t.lines # <<>> /\ t.module # <<>>

\* The lines read for a module are those its headers stand over.
LinesIn(ts, m) ==
    LET mine == Among(ts, {t \in Range(ts) : t.module = m})
    IN  FlattenSeq([i \in DOMAIN mine |-> mine[i].lines])
Pending(c, m) == IF c.module = m THEN c.lines ELSE <<>>
ModulesNamed == {t.module : t \in TableHeaders}
LinesOK(c, ts, w) ==
    \A m \in ModulesNamed :
      LinesIn(ts, m) \o Pending(c, m) = FlattenSeq(Rows(w, HeadersFor(w, m)))

FileTyped(f) ==
    f \in [segments : Seq(SegmentRows), modules : Seq(Range(ModuleRows)),
           publics : Seq(Range(PublicRows)), tables : Seq(LineTable)]
StateTyped == state \in Sections \cup {"Initial", "EndOfFile", "Done"}
\* What populate() makes of the records f of a file w.
FilesKnown(mod) ==
    \A u \in Range(mod.units) : \A l \in Range(u.lines) : l.file \in DOMAIN mod.sourceFiles
Filed(mod, f, w) ==
    /\ FilesKnown(mod)
    /\ \A i \in DOMAIN f.publics : FiledOnce(mod, f.publics[i].name, i)
    /\ \A t \in TableHeaders : LinesKept(mod, w, t.module)
ModelOK(s, mod, f, w) ==
    IF s = "Done" THEN Filed(mod, f, w) ELSE mod = [units |-> <<>>, sourceFiles |-> <<>>]

Inv ==
    /\ StateTyped /\ current \in LineTable /\ FileTyped(file)
    /\ FileOK(written, state)
    /\ RowsOK(file, written)
    /\ TablesOK(state, current, file.tables, written)
    /\ LinesOK(current, file.tables, written)
    /\ ModelOK(state, model, file, written)

-----------------------------------------------------------------------------
(* A line more of the file.                                                *)

\* A header stands over each line, itself included.
LEMMA UnderIs ==
    ASSUME NEW w, FileLike(w), NEW i \in 1..Len(w)
    PROVE  /\ Under(w, i) \in 1..i /\ w[Under(w, i)].header
           /\ \A j \in 1..i : w[j].header => j <= Under(w, i)
PROOF
<1> DEFINE S == {j \in 1..i : w[j].header}
<1>1. w \in Seq(WrittenLine) /\ w # <<>> /\ Len(w) \in Nat
  BY DEF FileLike
<1>2. i \in Nat /\ 1 \in S
  BY <1>1 DEF FileLike
<1>3. S \in SUBSET Nat /\ S # {} /\ \A n \in S : n <= i
  BY <1>2
<1>4. Max(S) \in S /\ \A n \in S : n <= Max(S)
  <2> HIDE DEF S
  <2> QED BY <1>2, <1>3, MaxIsGreatest
<1>5. Under(w, i) = Max(S)
  BY DEF Under
<1> HIDE DEF Under
<1> QED BY <1>4, <1>5

\* Longer(v, w, e): v is w and the line e.
Longer(v, w, e) ==
    /\ FileLike(w) /\ FileLike(v) /\ e \in WrittenLine /\ v = Append(w, e)
    /\ Len(w) \in Nat /\ Len(v) = Len(w) + 1 /\ v[Len(w) + 1] = e
    /\ \A i \in 1..Len(w) : v[i] = w[i]

\* A line appended.
LEMMA LongerIs ==
    ASSUME NEW w, FileLike(w), NEW e \in WrittenLine, w = <<>> => e.header
    PROVE  Longer(Append(w, e), w, e)
PROOF
<1>1. PICK v : v = Append(w, e)
  OBVIOUS
<1>2. w \in Seq(WrittenLine)
  BY DEF FileLike
<1>3. v \in Seq(WrittenLine) /\ Len(v) = Len(w) + 1 /\ v[Len(w) + 1] = e
      /\ \A i \in 1..Len(w) : v[i] = w[i]
  BY <1>1, <1>2, AppendProperties
<1>4. v[1].header
  <2>1. CASE w = <<>>
    BY <1>3, <2>1
  <2>2. CASE w # <<>>
    <3>1. 1 \in 1..Len(w)
      BY <1>2, <2>2
    <3> QED BY <1>3, <2>2, <3>1 DEF FileLike
  <2> QED BY <2>1, <2>2
<1> QED BY <1>1, <1>2, <1>3, <1>4 DEF Longer, FileLike

\* The headers of the lines before stay theirs.
LEMMA UnderKept ==
    ASSUME NEW v, NEW w, NEW e, Longer(v, w, e), NEW i \in 1..Len(w)
    PROVE  Under(v, i) = Under(w, i)
PROOF
<1>1. \A j \in 1..i : j \in 1..Len(w) /\ v[j] = w[j]
  BY DEF Longer
<1>2. {j \in 1..i : v[j].header} = {j \in 1..i : w[j].header}
  BY <1>1
<1> QED BY <1>2 DEF Under

\* A row goes under the header of the line before it.
LEMMA UnderRow ==
    ASSUME NEW v, NEW w, NEW e, Longer(v, w, e), ~e.header
    PROVE  Under(v, Len(v)) = Under(w, Len(w))
PROOF
<1>1. \A j \in 1..Len(w) : v[j] = w[j]
  BY DEF Longer
<1>2. \A j : j \in 1..Len(v) <=> j \in 1..Len(w) \/ j = Len(w) + 1
  BY DEF Longer
<1>3. ~v[Len(w) + 1].header
  BY DEF Longer
<1>4. {j \in 1..Len(v) : v[j].header} = {j \in 1..Len(w) : w[j].header}
  BY <1>1, <1>2, <1>3
<1> QED BY <1>4 DEF Under

\* A header stands over itself.
LEMMA UnderHeader ==
    ASSUME NEW v, NEW w, NEW e, Longer(v, w, e), e.header
    PROVE  Under(v, Len(v)) = Len(w) + 1
PROOF
<1>1. FileLike(v) /\ Len(v) = Len(w) + 1 /\ Len(w) \in Nat /\ v[Len(v)].header
  BY DEF Longer
<1>2. Len(v) \in 1..Len(v)
  BY <1>1
<1>3. Under(v, Len(v)) \in 1..Len(v) /\ Len(v) <= Under(v, Len(v))
  BY <1>1, <1>2, UnderIs
<1> QED BY <1>1, <1>3

\* The rows under the headers in H, by position.
Positions(w, H) == {i \in DOMAIN w : ~w[i].header /\ Under(w, i) \in H}
Data(w) == [i \in Nat |-> IF i \in DOMAIN w THEN w[i].data ELSE NoTable]

\* What the lines carry, as a function.
LEMMA DataIs ==
    ASSUME NEW w, FileLike(w)
    PROVE  Data(w) \in [Nat -> Datum] /\ \A i \in 1..Len(w) : Data(w)[i] = w[i].data
PROOF
<1>1. w \in Seq(WrittenLine)
  BY DEF FileLike
<1>2. \A i \in DOMAIN w : w[i] \in WrittenLine
  BY <1>1
<1>3. \A i \in DOMAIN w : w[i].data \in Datum
  BY <1>2 DEF WrittenLine
<1>4. NoTable \in Datum
  BY DEF Datum
<1>5. \A i \in 1..Len(w) : i \in DOMAIN w /\ i \in Nat
  BY <1>1
<1> QED BY <1>3, <1>4, <1>5 DEF Data

\* Rows, for the line that has not come yet as well.
LEMMA RowsBy ==
    ASSUME NEW w, FileLike(w), NEW H, NEW F, \A i \in 1..Len(w) : F[i] = w[i].data
    PROVE  Rows(w, H) = Mapped(F, Among(Indices(w), Positions(w, H)))
PROOF
<1>1. PICK q : q = Among(Indices(w), Positions(w, H))
  OBVIOUS
<1>2. q \in Seq(Nat) /\ Range(q) \subseteq 1..Len(w)
  <2>1. w \in Seq(WrittenLine)
    BY DEF FileLike
  <2> QED BY <1>1, <2>1, AmongIndices
<1>3. \A n \in DOMAIN q : w[q[n]].data = F[q[n]]
  <2>1. \A n \in DOMAIN q : q[n] \in Range(q)
    BY DEF Range
  <2> QED BY <1>2, <2>1
<1>4. Rows(w, H) = [n \in DOMAIN q |-> w[q[n]].data]
  BY <1>1 DEF Rows, Positions
<1> QED BY <1>1, <1>3, <1>4 DEF Mapped

\* Rows carry data.
LEMMA RowsType ==
    ASSUME NEW w, FileLike(w), NEW H
    PROVE  Rows(w, H) \in Seq(Datum)
PROOF
<1>1. PICK F \in [Nat -> Datum] : \A i \in 1..Len(w) : F[i] = w[i].data
  BY DataIs
<1>2. PICK q \in Seq(Nat) : q = Among(Indices(w), Positions(w, H))
  <2>1. w \in Seq(WrittenLine)
    BY DEF FileLike
  <2> QED BY <2>1, AmongIndices
<1>3. ImageOf(Mapped(F, q), F, q, Datum)
  BY MappedType, Zenon
<1>4. Rows(w, H) = Mapped(F, q)
  BY <1>1, <1>2, RowsBy
<1> QED BY <1>3, <1>4 DEF ImageOf

\* Only the headers there are matter.
LEMMA RowsSame ==
    ASSUME NEW w, FileLike(w), NEW G, NEW H, (1..Len(w)) \cap G = (1..Len(w)) \cap H
    PROVE  Rows(w, G) = Rows(w, H)
PROOF
<1>1. w \in Seq(WrittenLine)
  BY DEF FileLike
<1>2. DOMAIN w = 1..Len(w) /\ \A i \in 1..Len(w) : Under(w, i) \in 1..Len(w)
  <2>1. \A i \in 1..Len(w) : Under(w, i) \in 1..i
    BY UnderIs
  <2>2. \A i \in 1..Len(w) : 1..i \subseteq 1..Len(w)
    BY <1>1
  <2>3. DOMAIN w = 1..Len(w)
    BY <1>1
  <2> QED BY <2>1, <2>2, <2>3
<1>3. Positions(w, G) = Positions(w, H)
  BY <1>2 DEF Positions
<1> QED BY <1>3 DEF Rows, Positions

\* A header leaves the rows as they were.
LEMMA RowsHeader ==
    ASSUME NEW v, NEW w, NEW e, Longer(v, w, e), e.header, NEW H
    PROVE  Rows(v, H) = Rows(w, H)
PROOF
<1>1. /\ FileLike(w) /\ FileLike(v) /\ w \in Seq(WrittenLine) /\ v = Append(w, e)
      /\ v \in Seq(WrittenLine) /\ e \in WrittenLine /\ Len(w) \in Nat /\ Len(v) = Len(w) + 1
      /\ v[Len(w) + 1] = e /\ \A i \in 1..Len(w) : v[i] = w[i]
  BY DEF Longer, FileLike
<1>2. DOMAIN v = 1..(Len(w) + 1) /\ DOMAIN w = 1..Len(w)
  BY <1>1
<1>3. Len(w) + 1 \notin Positions(v, H)
  BY <1>1 DEF Positions
<1>4. (1..Len(w)) \cap Positions(v, H) = (1..Len(w)) \cap Positions(w, H)
  <2>1. \A i \in 1..Len(w) : Under(v, i) = Under(w, i)
    BY UnderKept
  <2>2. \A i \in 1..Len(w) : i \in DOMAIN v /\ i \in DOMAIN w
    BY <1>1, <1>2
  <2> QED BY <1>1, <2>1, <2>2 DEF Positions
<1>5. Among(Indices(v), Positions(v, H)) = Among(Indices(w), Positions(v, H))
  <2>1. PICK P : P = Positions(v, H)
    OBVIOUS
  <2>2. Len(w) + 1 \notin P
    BY <1>3, <2>1
  <2>3. Among(Indices(Append(w, e)), P) = Among(Indices(w), P)
    BY <1>1, <2>2, AmongIndicesLeft, Zenon
  <2> QED BY <1>1, <2>1, <2>3
<1>6. Among(Indices(w), Positions(v, H)) = Among(Indices(w), Positions(w, H))
  BY <1>1, <1>4, AmongIndicesSame
<1>7. PICK F \in [Nat -> Datum] : \A i \in 1..Len(v) : F[i] = v[i].data
  BY <1>1, DataIs
<1>8. \A i \in 1..Len(w) : F[i] = w[i].data
  BY <1>1, <1>7
<1>9. Rows(v, H) = Mapped(F, Among(Indices(v), Positions(v, H)))
  BY <1>1, <1>7, RowsBy
<1>10. Rows(w, H) = Mapped(F, Among(Indices(w), Positions(w, H)))
  BY <1>1, <1>8, RowsBy
<1> QED BY <1>5, <1>6, <1>9, <1>10

\* A row is a row more under the last header, and none under the others.
LEMMA RowsRow ==
    ASSUME NEW v, NEW w, NEW e, Longer(v, w, e), ~e.header, NEW H
    PROVE  /\ Under(w, Len(w)) \in H => Rows(v, H) = Append(Rows(w, H), e.data)
           /\ Under(w, Len(w)) \notin H => Rows(v, H) = Rows(w, H)
PROOF
<1>1. /\ FileLike(w) /\ FileLike(v) /\ w \in Seq(WrittenLine) /\ v = Append(w, e)
      /\ v \in Seq(WrittenLine) /\ e \in WrittenLine /\ Len(w) \in Nat /\ Len(v) = Len(w) + 1
      /\ v[Len(w) + 1] = e /\ \A i \in 1..Len(w) : v[i] = w[i]
  BY DEF Longer, FileLike
<1>2. DOMAIN v = 1..(Len(w) + 1) /\ DOMAIN w = 1..Len(w)
  BY <1>1
<1>3. Len(w) + 1 \in Positions(v, H) <=> Under(w, Len(w)) \in H
  <2>1. Under(v, Len(w) + 1) = Under(w, Len(w))
    BY <1>1, UnderRow
  <2>2. Len(w) + 1 \in DOMAIN v
    BY <1>1, <1>2
  <2> QED BY <1>1, <2>1, <2>2 DEF Positions
<1>4. (1..Len(w)) \cap Positions(v, H) = (1..Len(w)) \cap Positions(w, H)
  <2>1. \A i \in 1..Len(w) : Under(v, i) = Under(w, i)
    BY UnderKept
  <2>2. \A i \in 1..Len(w) : i \in DOMAIN v /\ i \in DOMAIN w
    BY <1>1, <1>2
  <2> QED BY <1>1, <2>1, <2>2 DEF Positions
<1>5. PICK q \in Seq(Nat) : q = Among(Indices(w), Positions(w, H))
  BY <1>1, AmongIndices
<1>6. Among(Indices(w), Positions(v, H)) = q
  BY <1>1, <1>4, <1>5, AmongIndicesSame
<1>7. PICK F \in [Nat -> Datum] : \A i \in 1..Len(v) : F[i] = v[i].data
  BY <1>1, DataIs
<1>8. \A i \in 1..Len(w) : F[i] = w[i].data
  BY <1>1, <1>7
<1>9. Rows(v, H) = Mapped(F, Among(Indices(v), Positions(v, H)))
  BY <1>1, <1>7, RowsBy
<1>10. Rows(w, H) = Mapped(F, q)
  BY <1>1, <1>5, <1>8, RowsBy
<1>11. CASE Under(w, Len(w)) \in H
  <2>1. Among(Indices(v), Positions(v, H)) = Append(Among(Indices(w), Positions(v, H)), Len(w) + 1)
    BY <1>1, <1>3, <1>11, AmongIndicesTaken, Zenon
  <2>2. PICK n \in Nat : n = Len(w) + 1
    BY <1>1
  <2>3. Mapped(F, Append(q, n)) = Append(Mapped(F, q), F[n])
    BY MappedAppend
  <2>4. F[n] = e.data
    BY <1>1, <1>7, <2>2
  <2> QED BY <1>6, <1>9, <1>10, <1>11, <2>1, <2>2, <2>3, <2>4
<1>12. CASE Under(w, Len(w)) \notin H
  <2>1. PICK P : P = Positions(v, H)
    OBVIOUS
  <2>2. Len(w) + 1 \notin P
    BY <1>3, <1>12, <2>1
  <2>3. Among(Indices(Append(w, e)), P) = Among(Indices(w), P)
    BY <1>1, <2>2, AmongIndicesLeft, Zenon
  <2> QED BY <1>1, <1>6, <1>9, <1>10, <1>12, <2>1, <2>3
<1> QED BY <1>11, <1>12

\* RowsRow, for a header in H.
LEMMA RowsTaken ==
    ASSUME NEW v, NEW w, NEW e, Longer(v, w, e), ~e.header, NEW H, Under(w, Len(w)) \in H
    PROVE  Rows(v, H) = Append(Rows(w, H), e.data)
PROOF BY RowsRow

\* RowsRow, for a header outside H.
LEMMA RowsLeft ==
    ASSUME NEW v, NEW w, NEW e, Longer(v, w, e), ~e.header, NEW H, Under(w, Len(w)) \notin H
    PROVE  Rows(v, H) = Rows(w, H)
PROOF BY RowsRow

\* No lines, no rows.
LEMMA RowsNone ==
    ASSUME NEW w, w = <<>>, NEW H
    PROVE  Rows(w, H) = <<>>
PROOF
<1>1. PICK q : q = Indices(w)
  OBVIOUS
<1>2. q = <<>>
  BY <1>1 DEF Indices
<1>3. Among(q, Positions(w, H)) = <<>>
  BY <1>2, AmongEmpty
<1> QED BY <1>1, <1>3 DEF Rows, Positions

\* The last header of a file that has begun.
LEMMA TopIs ==
    ASSUME NEW w, FileLike(w), w # <<>>
    PROVE  /\ Len(w) \in Nat /\ Under(w, Len(w)) \in 1..Len(w) /\ w[Under(w, Len(w))].header
           /\ \A j \in 1..Len(w) : w[j].header => j <= Under(w, Len(w))
PROOF
<1>1. w \in Seq(WrittenLine) /\ Len(w) \in Nat /\ Len(w) \in 1..Len(w)
  BY DEF FileLike
<1> QED BY <1>1, UnderIs

\* A header more.
LEMMA HeadersOfHeader ==
    ASSUME NEW v, NEW w, NEW e, Longer(v, w, e), e.header, NEW s
    PROVE  HeadersOf(v, s) = IF e.section = s THEN HeadersOf(w, s) \cup {Len(w) + 1}
                             ELSE HeadersOf(w, s)
PROOF
<1>1. DOMAIN v = 1..(Len(w) + 1) /\ DOMAIN w = 1..Len(w) /\ Len(w) \in Nat
  BY DEF Longer, FileLike
<1>2. \A i : i \in DOMAIN v <=> i \in DOMAIN w \/ i = Len(w) + 1
  BY <1>1
<1>3. v[Len(w) + 1] = e /\ \A i \in DOMAIN w : v[i] = w[i]
  BY <1>1 DEF Longer
<1>4. \A i \in HeadersOf(v, s) :
        i \in IF e.section = s THEN HeadersOf(w, s) \cup {Len(w) + 1} ELSE HeadersOf(w, s)
  BY <1>2, <1>3 DEF HeadersOf
<1>5. \A i \in HeadersOf(w, s) : i \in HeadersOf(v, s)
  BY <1>2, <1>3 DEF HeadersOf
<1>6. e.section = s => Len(w) + 1 \in HeadersOf(v, s)
  BY <1>2, <1>3 DEF HeadersOf
<1> QED BY <1>4, <1>5, <1>6

\* A row is no header.
LEMMA HeadersOfRow ==
    ASSUME NEW v, NEW w, NEW e, Longer(v, w, e), ~e.header, NEW s
    PROVE  HeadersOf(v, s) = HeadersOf(w, s)
PROOF
<1>1. DOMAIN v = 1..(Len(w) + 1) /\ DOMAIN w = 1..Len(w) /\ Len(w) \in Nat
  BY DEF Longer, FileLike
<1>2. \A i : i \in DOMAIN v <=> i \in DOMAIN w \/ i = Len(w) + 1
  BY <1>1
<1>3. v[Len(w) + 1] = e /\ \A i \in DOMAIN w : v[i] = w[i]
  BY <1>1 DEF Longer
<1> QED BY <1>2, <1>3 DEF HeadersOf

\* Headers are lines of the file.
LEMMA HeadersInside ==
    ASSUME NEW w, FileLike(w), NEW s
    PROVE  HeadersOf(w, s) \subseteq 1..Len(w)
PROOF
<1>1. DOMAIN w = 1..Len(w)
  BY DEF FileLike
<1> QED BY <1>1 DEF HeadersOf

\* The rows of a section.
LEMMA SectionHeader ==
    ASSUME NEW v, NEW w, NEW e, Longer(v, w, e), e.header, NEW s
    PROVE  Rows(v, HeadersOf(v, s)) = Rows(w, HeadersOf(w, s))
PROOF
<1>1. FileLike(w) /\ Len(w) \in Nat
  BY DEF Longer
<1>2. (1..Len(w)) \cap HeadersOf(v, s) = (1..Len(w)) \cap HeadersOf(w, s)
  <2>1. Len(w) + 1 \notin 1..Len(w)
    BY <1>1
  <2> QED BY <2>1, HeadersOfHeader
<1>3. Rows(v, HeadersOf(v, s)) = Rows(w, HeadersOf(v, s))
  BY RowsHeader
<1>4. Rows(w, HeadersOf(v, s)) = Rows(w, HeadersOf(w, s))
  BY <1>1, <1>2, RowsSame
<1> QED BY <1>3, <1>4

\* A row more in its section, and none in the others.
LEMMA SectionRow ==
    ASSUME NEW v, NEW w, NEW e, Longer(v, w, e), ~e.header, w # <<>>, NEW s
    PROVE  /\ w[Under(w, Len(w))].section = s =>
                Rows(v, HeadersOf(v, s)) = Append(Rows(w, HeadersOf(w, s)), e.data)
           /\ w[Under(w, Len(w))].section # s =>
                Rows(v, HeadersOf(v, s)) = Rows(w, HeadersOf(w, s))
PROOF
<1>1. FileLike(w)
  BY DEF Longer
<1>2. DOMAIN w = 1..Len(w)
  BY <1>1 DEF FileLike
<1>3. Under(w, Len(w)) \in HeadersOf(w, s) <=> w[Under(w, Len(w))].section = s
  BY <1>1, <1>2, TopIs DEF HeadersOf
<1>4. HeadersOf(v, s) = HeadersOf(w, s)
  BY HeadersOfRow
<1>5. PICK H : H = HeadersOf(w, s)
  OBVIOUS
<1>6. (Under(w, Len(w)) \in H => Rows(v, H) = Append(Rows(w, H), e.data))
      /\ (Under(w, Len(w)) \notin H => Rows(v, H) = Rows(w, H))
  <2>1. ASSUME Under(w, Len(w)) \in H PROVE Rows(v, H) = Append(Rows(w, H), e.data)
    BY <2>1, RowsTaken
  <2>2. ASSUME Under(w, Len(w)) \notin H PROVE Rows(v, H) = Rows(w, H)
    BY <2>2, RowsLeft
  <2> QED BY <2>1, <2>2
<1> QED BY <1>3, <1>4, <1>5, <1>6

\* The rows of a module's line tables.
LEMMA ForHeader ==
    ASSUME NEW v, NEW w, NEW e, Longer(v, w, e), e.header, NEW m
    PROVE  Rows(v, HeadersFor(v, m)) = Rows(w, HeadersFor(w, m))
PROOF
<1>1. FileLike(w) /\ Len(w) \in Nat /\ \A i \in 1..Len(w) : v[i] = w[i]
  BY DEF Longer
<1>2. (1..Len(w)) \cap HeadersFor(v, m) = (1..Len(w)) \cap HeadersFor(w, m)
  <2>1. Len(w) + 1 \notin 1..Len(w)
    BY <1>1
  <2>2. \A j \in 1..Len(w) : j \in HeadersOf(v, "LineNumbers") <=> j \in HeadersOf(w, "LineNumbers")
    BY <2>1, HeadersOfHeader
  <2> QED BY <1>1, <2>2 DEF HeadersFor
<1>3. Rows(v, HeadersFor(v, m)) = Rows(w, HeadersFor(v, m))
  BY RowsHeader
<1>4. Rows(w, HeadersFor(v, m)) = Rows(w, HeadersFor(w, m))
  BY <1>1, <1>2, RowsSame
<1> QED BY <1>3, <1>4

\* A row more for its module, and none for the others.
LEMMA ForRow ==
    ASSUME NEW v, NEW w, NEW e, Longer(v, w, e), ~e.header, w # <<>>, NEW m
    PROVE  /\ Under(w, Len(w)) \in HeadersFor(w, m) =>
                Rows(v, HeadersFor(v, m)) = Append(Rows(w, HeadersFor(w, m)), e.data)
           /\ Under(w, Len(w)) \notin HeadersFor(w, m) =>
                Rows(v, HeadersFor(v, m)) = Rows(w, HeadersFor(w, m))
PROOF
<1>1. FileLike(w) /\ \A i \in 1..Len(w) : v[i] = w[i]
  BY DEF Longer
<1>2. HeadersFor(v, m) = HeadersFor(w, m)
  <2>1. HeadersOf(v, "LineNumbers") = HeadersOf(w, "LineNumbers")
    BY HeadersOfRow
  <2>2. HeadersOf(w, "LineNumbers") \subseteq 1..Len(w)
    BY <1>1, HeadersInside
  <2> QED BY <1>1, <2>1, <2>2 DEF HeadersFor
<1>3. PICK H : H = HeadersFor(w, m)
  OBVIOUS
<1>4. (Under(w, Len(w)) \in H => Rows(v, H) = Append(Rows(w, H), e.data))
      /\ (Under(w, Len(w)) \notin H => Rows(v, H) = Rows(w, H))
  <2>1. ASSUME Under(w, Len(w)) \in H PROVE Rows(v, H) = Append(Rows(w, H), e.data)
    BY <2>1, RowsTaken
  <2>2. ASSUME Under(w, Len(w)) \notin H PROVE Rows(v, H) = Rows(w, H)
    BY <2>2, RowsLeft
  <2> QED BY <2>1, <2>2
<1> QED BY <1>2, <1>3, <1>4

\* The lines under one header.
LEMMA LinesHeader ==
    ASSUME NEW v, NEW w, NEW e, Longer(v, w, e), e.header, NEW j
    PROVE  /\ LinesUnder(v, j) = LinesUnder(w, j)
           /\ j = Len(w) + 1 => LinesUnder(v, j) = <<>>
PROOF
<1>1. FileLike(w) /\ w \in Seq(WrittenLine) /\ Len(w) \in Nat
  BY DEF Longer, FileLike
<1>2. Rows(v, {j}) = Rows(w, {j})
  BY RowsHeader
<1>3. CASE j = Len(w) + 1
  <2>1. PICK E : E = {}
    OBVIOUS
  <2>2. (1..Len(w)) \cap {j} = (1..Len(w)) \cap E
    BY <1>1, <1>3, <2>1
  <2>3. Rows(w, {j}) = Rows(w, E)
    BY <1>1, <2>2, RowsSame
  <2>4. PICK q \in Seq(Nat) : q = Among(Indices(w), Positions(w, E))
    BY <1>1, AmongIndices
  <2>5. Positions(w, E) = {}
    BY <2>1 DEF Positions
  <2>6. Range(q) = {}
    BY <1>1, <2>4, <2>5, AmongIndices
  <2>7. q = <<>>
    <3>1. \A i \in 1..Len(q) : q[i] \in Range(q)
      BY DEF Range
    <3> QED BY <2>6, <3>1
  <2>8. Rows(w, E) = <<>>
    <3>1. Rows(w, E) = [n \in DOMAIN q |-> w[q[n]].data]
      BY <2>4 DEF Rows, Positions
    <3>2. DOMAIN q = {}
      BY <2>7
    <3> QED BY <3>1, <3>2
  <2>9. LinesUnder(v, j) = <<>>
    BY <1>2, <2>3, <2>8, FlattenEmpty DEF LinesUnder
  <2> QED BY <1>2, <2>9 DEF LinesUnder
<1>4. CASE j # Len(w) + 1
  BY <1>2, <1>4 DEF LinesUnder
<1> QED BY <1>3, <1>4

\* A row leaves the lines under other headers as they were.
LEMMA LinesRow ==
    ASSUME NEW v, NEW w, NEW e, Longer(v, w, e), ~e.header, w # <<>>,
           NEW j, j # Under(w, Len(w))
    PROVE  LinesUnder(v, j) = LinesUnder(w, j)
PROOF
<1>1. PICK H : H = {j}
  OBVIOUS
<1>2. (Under(w, Len(w)) \in H => Rows(v, H) = Append(Rows(w, H), e.data))
      /\ (Under(w, Len(w)) \notin H => Rows(v, H) = Rows(w, H))
  <2>1. ASSUME Under(w, Len(w)) \in H PROVE Rows(v, H) = Append(Rows(w, H), e.data)
    BY <2>1, RowsTaken
  <2>2. ASSUME Under(w, Len(w)) \notin H PROVE Rows(v, H) = Rows(w, H)
    BY <2>2, RowsLeft
  <2> QED BY <2>1, <2>2
<1> QED BY <1>1, <1>2 DEF LinesUnder

\* A row of a line table is a sequence of lines.
LEMMA RowsAreLines ==
    ASSUME NEW q \in Seq(LineRows)
    PROVE  q \in Seq(Seq(LineRecord))
PROOF BY ReaderAssumption, SeqMonotonic DEF ReaderAssumption

\* A row's pairs go last under the last header.
LEMMA LinesLast ==
    ASSUME NEW v, NEW w, NEW e, Longer(v, w, e), ~e.header, w # <<>>, e.data \in LineRows,
           Rows(w, {Under(w, Len(w))}) \in Seq(LineRows)
    PROVE  LinesUnder(v, Under(w, Len(w))) = LinesUnder(w, Under(w, Len(w))) \o e.data
PROOF
<1>1. PICK H : H = {Under(w, Len(w))}
  OBVIOUS
<1>2. (Under(w, Len(w)) \in H => Rows(v, H) = Append(Rows(w, H), e.data))
      /\ (Under(w, Len(w)) \notin H => Rows(v, H) = Rows(w, H))
  <2>1. ASSUME Under(w, Len(w)) \in H PROVE Rows(v, H) = Append(Rows(w, H), e.data)
    BY <2>1, RowsTaken
  <2>2. ASSUME Under(w, Len(w)) \notin H PROVE Rows(v, H) = Rows(w, H)
    BY <2>2, RowsLeft
  <2> QED BY <2>1, <2>2
<1>3. PICK q \in Seq(Seq(LineRecord)) : q = Rows(w, H)
  BY <1>1, RowsAreLines
<1>4. PICK x \in Seq(LineRecord) : x = e.data
  BY ReaderAssumption DEF ReaderAssumption
<1>5. FlattenSeq(Append(q, x)) = FlattenSeq(q) \o x
  BY FlattenAppend
<1> QED BY <1>1, <1>2, <1>3, <1>4, <1>5 DEF LinesUnder

\* The headers with lines.
LEMMA InhabitedHeader ==
    ASSUME NEW v, NEW w, NEW e, Longer(v, w, e), e.header
    PROVE  Inhabited(v) = Inhabited(w) /\ Len(w) + 1 \notin Inhabited(v)
PROOF
<1>1. \A j : LinesUnder(v, j) = LinesUnder(w, j)
  BY LinesHeader
<1>2. LinesUnder(v, Len(w) + 1) = <<>>
  BY LinesHeader
<1>3. \A j : j \in HeadersOf(v, "LineNumbers") => j \in HeadersOf(w, "LineNumbers") \/ j = Len(w) + 1
  BY HeadersOfHeader
<1>4. \A j : j \in HeadersOf(w, "LineNumbers") => j \in HeadersOf(v, "LineNumbers")
  BY HeadersOfHeader
<1> QED BY <1>1, <1>2, <1>3, <1>4 DEF Inhabited

\* A row can inhabit the last header only.
LEMMA InhabitedRow ==
    ASSUME NEW v, NEW w, NEW e, Longer(v, w, e), ~e.header, w # <<>>
    PROVE  /\ Inhabited(v) \ {Under(w, Len(w))} = Inhabited(w) \ {Under(w, Len(w))}
           /\ Under(w, Len(w)) \notin HeadersOf(w, "LineNumbers") => Inhabited(v) = Inhabited(w)
PROOF
<1>1. \A j : j # Under(w, Len(w)) => LinesUnder(v, j) = LinesUnder(w, j)
  BY LinesRow
<1>2. HeadersOf(v, "LineNumbers") = HeadersOf(w, "LineNumbers")
  BY HeadersOfRow
<1> QED BY <1>1, <1>2 DEF Inhabited

\* The tables of the headers in J.
LEMMA TablesKept ==
    ASSUME NEW v, NEW w, NEW e, Longer(v, w, e), NEW J, J \subseteq 1..Len(w),
           \A j \in J : LinesUnder(v, j) = LinesUnder(w, j)
    PROVE  TablesUnder(v, J) = TablesUnder(w, J)
PROOF
<1>1. /\ w \in Seq(WrittenLine) /\ v = Append(w, e) /\ e \in WrittenLine
      /\ Len(w) \in Nat /\ \A i \in 1..Len(w) : v[i] = w[i]
  BY DEF Longer, FileLike
<1>2. Len(w) + 1 \notin J
  BY <1>1
<1>3. PICK q \in Seq(Nat) : q = Among(Indices(w), J)
  BY <1>1, AmongIndices
<1>4. Among(Indices(v), J) = q
  BY <1>1, <1>2, <1>3, AmongIndicesLeft
<1>5. \A n \in DOMAIN q : q[n] \in J
  <2>1. Range(q) = (1..Len(w)) \cap J
    BY <1>1, <1>3, AmongIndices
  <2> QED BY <2>1 DEF Range
<1>6. \A n \in DOMAIN q : v[q[n]] = w[q[n]] /\ LinesUnder(v, q[n]) = LinesUnder(w, q[n])
  BY <1>1, <1>5
<1>7. TablesUnder(v, J) = [n \in DOMAIN q |-> [module |-> v[q[n]].data.module,
              source |-> v[q[n]].data.source, lines |-> LinesUnder(v, q[n])]]
  BY <1>4 DEF TablesUnder
<1>8. TablesUnder(w, J) = [n \in DOMAIN q |-> [module |-> w[q[n]].data.module,
              source |-> w[q[n]].data.source, lines |-> LinesUnder(w, q[n])]]
  BY <1>3 DEF TablesUnder
<1> QED BY <1>6, <1>7, <1>8

\* No table is a table without lines.
LEMMA NoTableTyped == NoTable \in LineTable
PROOF
<1>1. PICK z : z = <<>>
  OBVIOUS
<1>2. z \in Seq(LineRecord)
  BY <1>1
<1>3. NoTable = [module |-> <<>>, source |-> "", lines |-> z]
  BY <1>1 DEF NoTable
<1> QED BY <1>2, <1>3 DEF LineTable

\* The last of them is the table of the last header.
LEMMA TablesTop ==
    ASSUME NEW w, FileLike(w), NEW J, J \subseteq 1..Len(w), NEW h \in J, \A j \in J : j <= h,
           \A j \in J : TableAt(w, j) \in LineTable
    PROVE  TablesUnder(w, J) = Append(TablesUnder(w, J \ {h}), TableAt(w, h))
PROOF
<1>1. w \in Seq(WrittenLine)
  BY DEF FileLike
<1> DEFINE F == [i \in Nat |-> IF i \in J THEN TableAt(w, i) ELSE NoTable]
<1>2. F \in [Nat -> LineTable] /\ \A j \in J : F[j] = TableAt(w, j)
  <2>1. NoTable \in LineTable
    BY NoTableTyped
  <2>2. J \subseteq Nat
    BY <1>1
  <2> QED BY <2>1, <2>2
<1> HIDE DEF F
<1>3. PICK q \in Seq(Nat) : q = Among(Indices(w), J \ {h})
  BY <1>1, AmongIndices
<1>4. Among(Indices(w), J) = Append(q, h)
  <2>1. h \in 1..Len(w) /\ \A i \in (1..Len(w)) \cap J : i <= h
    OBVIOUS
  <2>2. Among(Indices(w), J) = Append(Among(Indices(w), J \ {h}), h)
    BY <1>1, <2>1, AmongTop, Zenon
  <2> QED BY <1>3, <2>2
<1>5. ASSUME NEW G, G \subseteq J PROVE TablesUnder(w, G) = Mapped(F, Among(Indices(w), G))
  <2>1. PICK p \in Seq(Nat) : p = Among(Indices(w), G)
    BY <1>1, AmongIndices
  <2>2. \A n \in DOMAIN p : p[n] \in J
    <3>1. Range(p) = (1..Len(w)) \cap G
      BY <1>1, <2>1, AmongIndices
    <3> QED BY <1>5, <3>1 DEF Range
  <2>3. \A n \in DOMAIN p : F[p[n]] = TableAt(w, p[n])
    BY <1>2, <2>2
  <2>4. TablesUnder(w, G) = [n \in DOMAIN p |-> TableAt(w, p[n])]
    BY <2>1 DEF TablesUnder, TableAt
  <2> QED BY <2>1, <2>3, <2>4 DEF Mapped
<1>6. TablesUnder(w, J) = Mapped(F, Append(q, h))
  BY <1>4, <1>5
<1>7. TablesUnder(w, J \ {h}) = Mapped(F, q)
  BY <1>3, <1>5
<1>8. h \in Nat
  BY <1>1
<1>9. Mapped(F, Append(q, h)) = Append(Mapped(F, q), F[h])
  BY <1>2, <1>8, MappedAppend
<1> QED BY <1>2, <1>6, <1>7, <1>9

\* The tables in FileOK are tables.
LEMMA TableTyped ==
    ASSUME NEW w, NEW s, FileOK(w, s), NEW j \in HeadersOf(w, "LineNumbers")
    PROVE  TableAt(w, j) \in LineTable
PROOF
<1>1. w[j].data \in TableHeaders
  BY DEF FileOK
<1>2. Rows(w, {j}) \in Seq(LineRows)
  <2>1. {j} \in SUBSET HeadersOf(w, "LineNumbers")
    OBVIOUS
  <2> QED BY <2>1 DEF FileOK
<1>3. LinesUnder(w, j) \in Seq(LineRecord)
  BY <1>2, RowsAreLines, FlattenType DEF LinesUnder
<1> QED BY <1>1, <1>3 DEF TableAt, LineTable

-----------------------------------------------------------------------------
(* The lines of a module, in its tables.                                   *)

LinesOfTable == [t \in LineTable |-> t.lines]

\* LinesIn as the image of a sequence under a function.
LEMMA LinesInBy ==
    ASSUME NEW ts \in Seq(LineTable), NEW m
    PROVE  /\ LinesIn(ts, m)
                = FlattenSeq(Mapped(LinesOfTable, Among(ts, {t \in LineTable : t.module = m})))
           /\ Among(ts, {t \in LineTable : t.module = m}) \in Seq(LineTable)
           /\ LinesOfTable \in [LineTable -> Seq(LineRecord)]
PROOF
<1>1. LinesOfTable \in [LineTable -> Seq(LineRecord)]
  BY DEF LinesOfTable, LineTable
<1>2. PICK R : R = {t \in Range(ts) : t.module = m}
  OBVIOUS
<1>3. PICK S : S = {t \in LineTable : t.module = m}
  OBVIOUS
<1>4. \A i \in 1..Len(ts) : ts[i] \in R <=> ts[i] \in S
  <2>1. \A i \in 1..Len(ts) : ts[i] \in LineTable /\ ts[i] \in Range(ts)
    BY DEF Range
  <2> QED BY <1>2, <1>3, <2>1
<1>5. Among(ts, R) = Among(ts, S)
  BY <1>4, AmongSame
<1>6. PICK q \in Seq(LineTable) : q = Among(ts, S)
  BY AmongType
<1>7. \A i \in DOMAIN q : q[i] \in LineTable
  OBVIOUS
<1>8. LinesIn(ts, m) = FlattenSeq([i \in DOMAIN q |-> q[i].lines])
  BY <1>2, <1>5, <1>6 DEF LinesIn
<1>9. [i \in DOMAIN q |-> q[i].lines] = Mapped(LinesOfTable, q)
  BY <1>7 DEF Mapped, LinesOfTable
<1> QED BY <1>1, <1>3, <1>6, <1>8, <1>9

\* The lines read for a module are lines.
LEMMA LinesInType ==
    ASSUME NEW ts \in Seq(LineTable), NEW m
    PROVE  LinesIn(ts, m) \in Seq(LineRecord)
PROOF
<1>1. PICK q \in Seq(LineTable) : LinesIn(ts, m) = FlattenSeq(Mapped(LinesOfTable, q))
  BY LinesInBy
<1>2. LinesOfTable \in [LineTable -> Seq(LineRecord)]
  BY LinesInBy
<1>3. ImageOf(Mapped(LinesOfTable, q), LinesOfTable, q, Seq(LineRecord))
  BY <1>2, MappedType
<1>4. Mapped(LinesOfTable, q) \in Seq(Seq(LineRecord))
  BY <1>3 DEF ImageOf
<1> QED BY <1>1, <1>4, FlattenType

\* A table more, for its own module.
LEMMA LinesInAppend ==
    ASSUME NEW ts \in Seq(LineTable), NEW c \in LineTable, NEW m
    PROVE  LinesIn(Append(ts, c), m) = LinesIn(ts, m) \o Pending(c, m)
PROOF
<1>1. PICK S : S = {t \in LineTable : t.module = m}
  OBVIOUS
<1>2. PICK us \in Seq(LineTable) : us = Append(ts, c)
  BY AppendProperties
<1>3. PICK F \in [LineTable -> Seq(LineRecord)] : F = LinesOfTable
  BY LinesInBy
<1>4. PICK q \in Seq(LineTable) : q = Among(ts, S)
  BY AmongType
<1>5. LinesIn(ts, m) = FlattenSeq(Mapped(F, q))
  BY <1>1, <1>3, <1>4, LinesInBy
<1>6. LinesIn(us, m) = FlattenSeq(Mapped(F, Among(us, S)))
  BY <1>1, <1>3, LinesInBy
<1>7. CASE c.module = m
  <2>1. c \in S
    BY <1>1, <1>7
  <2>2. Among(us, S) = Append(q, c)
    BY <1>2, <1>4, <2>1, AmongTaken
  <2>3. Mapped(F, Append(q, c)) = Append(Mapped(F, q), F[c])
    BY MappedAppend
  <2>4. PICK x \in Seq(LineRecord) : x = F[c]
    OBVIOUS
  <2>5. PICK ss \in Seq(Seq(LineRecord)) : ss = Mapped(F, q)
    <3>1. ImageOf(Mapped(F, q), F, q, Seq(LineRecord))
      BY MappedType
    <3> QED BY <3>1 DEF ImageOf
  <2>6. FlattenSeq(Append(ss, x)) = FlattenSeq(ss) \o x
    BY FlattenAppend
  <2>7. x = c.lines
    BY <1>3, <2>4 DEF LinesOfTable
  <2> QED BY <1>2, <1>5, <1>6, <1>7, <2>2, <2>3, <2>4, <2>5, <2>6, <2>7 DEF Pending
<1>8. CASE c.module # m
  <2>1. c \notin S
    BY <1>1, <1>8
  <2>2. Among(us, S) = q
    BY <1>2, <1>4, <2>1, AmongLeft
  <2>3. PICK x \in Seq(LineRecord) : x = LinesIn(ts, m)
    BY LinesInType
  <2>4. x \o <<>> = x
    BY ConcatEmptySeq
  <2> QED BY <1>2, <1>5, <1>6, <1>8, <2>2, <2>3, <2>4 DEF Pending
<1> QED BY <1>7, <1>8

\* A module without tables has no lines.
LEMMA LinesInEmpty ==
    ASSUME NEW ts \in Seq(LineTable), NEW m, \A t \in Range(ts) : t.module # m
    PROVE  LinesIn(ts, m) = <<>>
PROOF
<1>1. PICK S : S = {t \in LineTable : t.module = m}
  OBVIOUS
<1>2. PICK q \in Seq(LineTable) : q = Among(ts, S)
  BY AmongType
<1>3. Range(q) = {}
  <2>1. Range(q) = Range(ts) \cap S
    BY <1>2, AmongRange
  <2> QED BY <1>1, <2>1
<1>4. q = <<>>
  <2>1. \A i \in 1..Len(q) : q[i] \in Range(q)
    BY DEF Range
  <2> QED BY <1>3, <2>1
<1>5. Mapped(LinesOfTable, q) = <<>>
  BY <1>4 DEF Mapped
<1> QED BY <1>1, <1>2, <1>5, FlattenEmpty, LinesInBy

\* A table more, when it has lines.
LEMMA FlushedIs ==
    ASSUME NEW ts \in Seq(LineTable), NEW c \in LineTable
    PROVE  /\ Flushed(ts, c) \in Seq(LineTable) /\ Flushed(ts, c) = ts \o Unflushed(c)
           /\ c.lines = <<>> => Flushed(ts, c) = ts
           /\ c.lines # <<>> => Flushed(ts, c) = Append(ts, c)
PROOF
<1>1. Append(ts, c) \in Seq(LineTable)
  BY AppendProperties
<1>2. ts \o <<>> = ts
  BY ConcatEmptySeq
<1>3. Append(ts, c) = ts \o <<c>>
  BY AppendIsConcat
<1> QED BY <1>1, <1>2, <1>3 DEF Flushed, Unflushed

\* Flushing loses no lines.
LEMMA LinesFlushed ==
    ASSUME NEW ts \in Seq(LineTable), NEW c \in LineTable, NEW m
    PROVE  LinesIn(Flushed(ts, c), m) = LinesIn(ts, m) \o Pending(c, m)
PROOF
<1>1. CASE c.lines = <<>>
  <2>1. Pending(c, m) = <<>>
    BY <1>1 DEF Pending
  <2>2. PICK x \in Seq(LineRecord) : x = LinesIn(ts, m)
    BY LinesInType
  <2>3. x \o <<>> = x
    BY ConcatEmptySeq
  <2> QED BY <1>1, <2>1, <2>2, <2>3, FlushedIs
<1>2. CASE c.lines # <<>>
  <2>1. Flushed(ts, c) = Append(ts, c)
    BY <1>2, FlushedIs
  <2> QED BY <2>1, LinesInAppend
<1> QED BY <1>1, <1>2

-----------------------------------------------------------------------------
(* Each part of the invariant, a line at a time.                           *)

IsHeader(e) == e \in WrittenLine /\ e.header /\ (e.section = "LineNumbers" => e.data \in TableHeaders)
IsRow(e, s) == e \in WrittenLine /\ ~e.header /\ s \in Sections /\ (s = "LineNumbers" => e.data \in LineRows)

\* A header appended to a file.
LEMMA FileHeader ==
    ASSUME NEW w, NEW s, FileOK(w, s), NEW e, IsHeader(e)
    PROVE  Longer(Append(w, e), w, e) /\ FileOK(Append(w, e), e.section)
PROOF
<1>0. FileLike(w) /\ e \in WrittenLine /\ e.header
      /\ (e.section = "LineNumbers" => e.data \in TableHeaders)
  BY DEF FileOK, IsHeader
<1>1. PICK v : v = Append(w, e)
  OBVIOUS
<1>2. Longer(v, w, e)
  BY <1>0, <1>1, LongerIs
<1>3. /\ FileLike(v) /\ Len(w) \in Nat /\ Len(v) = Len(w) + 1 /\ v[Len(w) + 1] = e
      /\ \A i \in 1..Len(w) : v[i] = w[i]
  BY <1>2 DEF Longer
<1>4. v # <<>>
  BY <1>3
<1>5. v[Under(v, Len(v))].section = e.section
  BY <1>0, <1>2, <1>3, UnderHeader
<1>6. \A j \in HeadersOf(v, "LineNumbers") :
        (j \in HeadersOf(w, "LineNumbers") /\ j \in 1..Len(w))
        \/ (j = Len(w) + 1 /\ e.section = "LineNumbers")
  <2>1. HeadersOf(w, "LineNumbers") \subseteq 1..Len(w)
    BY <1>0, HeadersInside
  <2>2. HeadersOf(v, "LineNumbers") = IF e.section = "LineNumbers"
          THEN HeadersOf(w, "LineNumbers") \cup {Len(w) + 1} ELSE HeadersOf(w, "LineNumbers")
    BY <1>0, <1>2, HeadersOfHeader
  <2> QED BY <2>1, <2>2
<1>7. \A j \in HeadersOf(v, "LineNumbers") : v[j].data \in TableHeaders
  BY <1>0, <1>3, <1>6 DEF FileOK
<1>8. ASSUME NEW H \in SUBSET HeadersOf(v, "LineNumbers") PROVE Rows(v, H) \in Seq(LineRows)
  <2>1. PICK G : G = (1..Len(w)) \cap H
    OBVIOUS
  <2>2. Len(w) + 1 \notin 1..Len(w)
    BY <1>3
  <2>3. G \in SUBSET HeadersOf(w, "LineNumbers")
    BY <1>6, <2>1, <2>2
  <2>4. Rows(v, H) = Rows(w, H)
    BY <1>0, <1>2, RowsHeader
  <2>5. (1..Len(w)) \cap H = (1..Len(w)) \cap G
    BY <2>1
  <2>6. Rows(w, H) = Rows(w, G)
    BY <1>0, <2>5, RowsSame
  <2> QED BY <2>3, <2>4, <2>6 DEF FileOK
<1>9. FileOK(v, e.section)
  BY <1>3, <1>4, <1>5, <1>7, <1>8 DEF FileOK
<1> QED BY <1>1, <1>2, <1>9

\* A row appended to a file.
LEMMA FileRow ==
    ASSUME NEW w, NEW s, FileOK(w, s), NEW e, IsRow(e, s)
    PROVE  /\ Longer(Append(w, e), w, e) /\ FileOK(Append(w, e), s) /\ w # <<>>
           /\ w[Under(w, Len(w))].section = s
PROOF
<1>0. FileLike(w) /\ e \in WrittenLine /\ ~e.header /\ s \in Sections /\ w # <<>>
      /\ (s = "LineNumbers" => e.data \in LineRows) /\ w[Under(w, Len(w))].section = s
  BY DEF FileOK, IsRow, Sections
<1>1. PICK v : v = Append(w, e)
  OBVIOUS
<1>2. Longer(v, w, e)
  BY <1>0, <1>1, LongerIs
<1>3. /\ FileLike(v) /\ Len(w) \in Nat /\ Len(v) = Len(w) + 1 /\ v[Len(w) + 1] = e
      /\ \A i \in 1..Len(w) : v[i] = w[i]
  BY <1>2 DEF Longer
<1>4. v # <<>>
  BY <1>3
<1>5. v[Under(v, Len(v))].section = s
  <2>1. Under(v, Len(v)) = Under(w, Len(w))
    BY <1>0, <1>2, UnderRow
  <2>2. Under(w, Len(w)) \in 1..Len(w)
    BY <1>0, TopIs
  <2> QED BY <1>0, <1>3, <2>1, <2>2
<1>6. HeadersOf(v, "LineNumbers") = HeadersOf(w, "LineNumbers")
  BY <1>0, <1>2, HeadersOfRow
<1>7. \A j \in HeadersOf(v, "LineNumbers") : v[j].data \in TableHeaders
  <2>1. HeadersOf(w, "LineNumbers") \subseteq 1..Len(w)
    BY <1>0, HeadersInside
  <2> QED BY <1>3, <1>6, <2>1 DEF FileOK
<1>8. ASSUME NEW H \in SUBSET HeadersOf(v, "LineNumbers") PROVE Rows(v, H) \in Seq(LineRows)
  <2>1. Rows(w, H) \in Seq(LineRows)
    BY <1>6 DEF FileOK
  <2>2. CASE Under(w, Len(w)) \in H
    <3>1. w[Under(w, Len(w))].section = "LineNumbers"
      BY <1>6, <2>2 DEF HeadersOf
    <3>2. e.data \in LineRows
      BY <1>0, <3>1
    <3>3. Rows(v, H) = Append(Rows(w, H), e.data)
      BY <1>0, <1>2, <2>2, RowsTaken
    <3> QED BY <2>1, <3>2, <3>3, AppendProperties
  <2>3. CASE Under(w, Len(w)) \notin H
    BY <1>0, <1>2, <2>1, <2>3, RowsLeft
  <2> QED BY <2>2, <2>3
<1>9. FileOK(v, s)
  BY <1>3, <1>4, <1>5, <1>7, <1>8 DEF FileOK
<1> QED BY <1>0, <1>1, <1>2, <1>9

\* A header adds no records.
LEMMA RowsOKHeader ==
    ASSUME NEW f, NEW g, NEW w, RowsOK(f, w), NEW v, NEW e, Longer(v, w, e), e.header,
           g.segments = f.segments, g.modules = f.modules, g.publics = f.publics
    PROVE  RowsOK(g, v)
PROOF BY SectionHeader DEF RowsOK

Told(s) == s \in Sections \cup {"Initial", "EndOfFile", "Done"}

\* All that is read of a file is the tables flushed and the current one.
LEMMA TablesRead ==
    ASSUME NEW s, NEW c \in LineTable, NEW ts \in Seq(LineTable), NEW w,
           Told(s), FileOK(w, s), TablesOK(s, c, ts, w)
    PROVE  ts \o Unflushed(c) = TablesUnder(w, Inhabited(w))
PROOF
<1>1. CASE s # "LineNumbers"
  BY <1>1 DEF TablesOK
<1>2. CASE s = "LineNumbers"
  <2>1. FileLike(w) /\ w # <<>>
    BY <1>2 DEF FileOK
  <2>2. PICK h : h = Under(w, Len(w))
    OBVIOUS
  <2>3. /\ Len(w) \in Nat /\ h \in 1..Len(w) /\ w[h].header
        /\ \A j \in 1..Len(w) : w[j].header => j <= h
    BY <2>1, <2>2, TopIs
  <2>4. c = TableAt(w, h) /\ ts = TablesUnder(w, Inhabited(w) \ {h})
    BY <1>2, <2>2 DEF TablesOK
  <2>5. h \in HeadersOf(w, "LineNumbers")
    <3>1. w[h].section = "LineNumbers"
      BY <1>2, <2>2 DEF FileOK, Sections
    <3>2. DOMAIN w = 1..Len(w)
      BY <2>1 DEF FileLike
    <3> QED BY <2>3, <3>1, <3>2 DEF HeadersOf
  <2>6. c.lines = LinesUnder(w, h)
    BY <2>4 DEF TableAt
  <2>7. CASE c.lines = <<>>
    <3>1. Inhabited(w) \ {h} = Inhabited(w)
      BY <2>6, <2>7 DEF Inhabited
    <3> QED BY <2>4, <2>7, <3>1, FlushedIs
  <2>8. CASE c.lines # <<>>
    <3>1. h \in Inhabited(w)
      BY <2>5, <2>6, <2>8 DEF Inhabited
    <3>2. Inhabited(w) \subseteq 1..Len(w) /\ \A j \in Inhabited(w) : j <= h
      <4>1. HeadersOf(w, "LineNumbers") \subseteq 1..Len(w)
        BY <2>1, HeadersInside
      <4>2. \A j \in Inhabited(w) : j \in HeadersOf(w, "LineNumbers") /\ w[j].header
        BY DEF Inhabited, HeadersOf
      <4> QED BY <2>3, <4>1, <4>2
    <3>3. \A j \in Inhabited(w) : TableAt(w, j) \in LineTable
      BY TableTyped DEF Inhabited
    <3>4. TablesUnder(w, Inhabited(w)) = Append(TablesUnder(w, Inhabited(w) \ {h}), TableAt(w, h))
      BY <2>1, <3>1, <3>2, <3>3, TablesTop
    <3> QED BY <2>4, <2>8, <3>4, FlushedIs
  <2> QED BY <2>7, <2>8
<1> QED BY <1>1, <1>2

\* A header has no lines yet.
LEMMA TablesHeader ==
    ASSUME NEW v, NEW w, NEW e, Longer(v, w, e), e.header
    PROVE  TablesUnder(v, Inhabited(v)) = TablesUnder(w, Inhabited(w))
PROOF
<1>1. FileLike(w) /\ Inhabited(v) = Inhabited(w)
  BY InhabitedHeader DEF Longer
<1>2. Inhabited(w) \subseteq 1..Len(w)
  BY <1>1, HeadersInside DEF Inhabited
<1>3. \A j \in Inhabited(w) : LinesUnder(v, j) = LinesUnder(w, j)
  BY LinesHeader
<1> QED BY <1>1, <1>2, <1>3, TablesKept

\* Flushed tables have lines and a module.
LEMMA FlushedKept ==
    ASSUME NEW s, NEW c \in LineTable, NEW ts \in Seq(LineTable), NEW w, TablesOK(s, c, ts, w)
    PROVE  \A t \in Range(Flushed(ts, c)) : t.lines # <<>> /\ t.module # <<>>
PROOF
<1>1. CASE c.lines = <<>>
  BY <1>1, FlushedIs DEF TablesOK
<1>2. CASE c.lines # <<>>
  <2>1. Range(Append(ts, c)) = Range(ts) \cup {c}
    BY RangeAppend
  <2>2. Flushed(ts, c) = Append(ts, c)
    BY <1>2, FlushedIs
  <2>3. c.module # <<>> /\ \A t \in Range(ts) : t.lines # <<>> /\ t.module # <<>>
    BY <1>2 DEF TablesOK
  <2> QED BY <1>2, <2>1, <2>2, <2>3
<1> QED BY <1>1, <1>2

\* A header flushes what it ends.
LEMMA TablesSection ==
    ASSUME NEW s, NEW c \in LineTable, NEW ts \in Seq(LineTable), NEW w, Told(s),
           FileOK(w, s), TablesOK(s, c, ts, w),
           NEW v, NEW e, Longer(v, w, e), e.header, e.section # "LineNumbers"
    PROVE  TablesOK(e.section, NoTable, Flushed(ts, c), v)
PROOF
<1>1. Flushed(ts, c) = TablesUnder(v, Inhabited(v))
  <2>1. ts \o Unflushed(c) = TablesUnder(w, Inhabited(w))
    BY TablesRead
  <2>2. Flushed(ts, c) = ts \o Unflushed(c)
    BY FlushedIs
  <2> QED BY <2>1, <2>2, TablesHeader
<1>2. Flushed(ts, c) \in Seq(LineTable)
  BY FlushedIs
<1>3. NoTable.lines = <<>> /\ Unflushed(NoTable) = <<>>
  BY DEF NoTable, Unflushed
<1>4. PICK us \in Seq(LineTable) : us = Flushed(ts, c)
  BY <1>2
<1>5. us \o <<>> = us
  BY ConcatEmptySeq
<1>6. \A t \in Range(us) : t.lines # <<>> /\ t.module # <<>>
  BY <1>4, FlushedKept
<1> QED BY <1>1, <1>3, <1>4, <1>5, <1>6 DEF TablesOK

\* The header of a table closes one and opens one.
LEMMA TablesTable ==
    ASSUME NEW s, NEW c \in LineTable, NEW ts \in Seq(LineTable), NEW w, Told(s),
           FileOK(w, s), TablesOK(s, c, ts, w),
           NEW v, NEW e, Longer(v, w, e), e.header, e.section = "LineNumbers",
           NEW d \in LineTable, d = [module |-> e.data.module, source |-> e.data.source, lines |-> <<>>]
    PROVE  TablesOK("LineNumbers", d, Flushed(ts, c), v)
PROOF
<1>1. Flushed(ts, c) = TablesUnder(v, Inhabited(v))
  <2>1. ts \o Unflushed(c) = TablesUnder(w, Inhabited(w))
    BY TablesRead
  <2>2. Flushed(ts, c) = ts \o Unflushed(c)
    BY FlushedIs
  <2> QED BY <2>1, <2>2, TablesHeader
<1>2. Under(v, Len(v)) = Len(w) + 1 /\ v[Len(w) + 1] = e
  BY UnderHeader DEF Longer
<1>3. LinesUnder(v, Len(w) + 1) = <<>>
  BY LinesHeader
<1>4. d = TableAt(v, Under(v, Len(v)))
  BY <1>2, <1>3 DEF TableAt
<1>5. Inhabited(v) \ {Len(w) + 1} = Inhabited(v)
  BY InhabitedHeader
<1>6. \A t \in Range(Flushed(ts, c)) : t.lines # <<>> /\ t.module # <<>>
  BY FlushedKept
<1>7. d.lines = <<>>
  OBVIOUS
<1>8. Flushed(ts, c) = TablesUnder(v, Inhabited(v) \ {Under(v, Len(v))})
  BY <1>1, <1>2, <1>5
<1> QED BY <1>4, <1>6, <1>7, <1>8 DEF TablesOK

\* The header of the entry point does not.
LEMMA TablesEntryPoint ==
    ASSUME NEW s, NEW c \in LineTable, NEW ts \in Seq(LineTable), NEW w, Told(s),
           FileOK(w, s), TablesOK(s, c, ts, w),
           NEW v, NEW e, Longer(v, w, e), e.header
    PROVE  TablesOK("EntryPoint", c, ts, v)
PROOF
<1>1. ts \o Unflushed(c) = TablesUnder(v, Inhabited(v))
  <2>1. ts \o Unflushed(c) = TablesUnder(w, Inhabited(w))
    BY TablesRead
  <2> QED BY <2>1, TablesHeader
<1> QED BY <1>1 DEF TablesOK

\* A row of another section changes no table.
LEMMA TablesOther ==
    ASSUME NEW s, NEW c, NEW ts, NEW w, FileOK(w, s), TablesOK(s, c, ts, w), s # "LineNumbers",
           NEW e, IsRow(e, s), NEW v, Longer(v, w, e), w # <<>>
    PROVE  TablesOK(s, c, ts, v)
PROOF
<1>1. FileLike(w) /\ ~e.header /\ w[Under(w, Len(w))].section = s
  BY DEF FileOK, IsRow
<1>2. Under(w, Len(w)) \notin HeadersOf(w, "LineNumbers")
  BY <1>1 DEF HeadersOf
<1>3. Inhabited(v) = Inhabited(w)
  BY <1>1, <1>2, InhabitedRow
<1>4. Inhabited(w) \subseteq HeadersOf(w, "LineNumbers")
  BY DEF Inhabited
<1>5. Inhabited(w) \subseteq 1..Len(w)
  BY <1>1, <1>4, HeadersInside
<1>6. \A j \in Inhabited(w) : LinesUnder(v, j) = LinesUnder(w, j)
  BY <1>1, <1>2, <1>4, LinesRow
<1>7. TablesUnder(v, Inhabited(v)) = TablesUnder(w, Inhabited(w))
  BY <1>3, <1>5, <1>6, TablesKept
<1> QED BY <1>7 DEF TablesOK

\* A row of line numbers extends the current one.
LEMMA TablesLine ==
    ASSUME NEW c \in LineTable, NEW ts, NEW w,
           FileOK(w, "LineNumbers"), TablesOK("LineNumbers", c, ts, w),
           NEW e, IsRow(e, "LineNumbers"), NEW v, Longer(v, w, e), w # <<>>,
           NEW d \in LineTable, d = [c EXCEPT !.lines = c.lines \o e.data]
    PROVE  TablesOK("LineNumbers", d, ts, v)
PROOF
<1>1. FileLike(w) /\ ~e.header /\ w[Under(w, Len(w))].section = "LineNumbers" /\ e.data \in LineRows
  BY DEF FileOK, IsRow, Sections
<1>2. PICK h : h = Under(w, Len(w))
  OBVIOUS
<1>3. h \in 1..Len(w) /\ w[h].header /\ h \in HeadersOf(w, "LineNumbers")
  <2>1. DOMAIN w = 1..Len(w)
    BY <1>1 DEF FileLike
  <2> QED BY <1>1, <1>2, <2>1, TopIs DEF HeadersOf
<1>4. c = TableAt(w, h) /\ ts = TablesUnder(w, Inhabited(w) \ {h})
  BY <1>2 DEF TablesOK
<1>5. Rows(w, {h}) \in Seq(LineRows)
  <2>1. {h} \in SUBSET HeadersOf(w, "LineNumbers")
    BY <1>3
  <2> QED BY <2>1 DEF FileOK
<1>6. LinesUnder(v, h) = LinesUnder(w, h) \o e.data
  BY <1>1, <1>2, <1>5, LinesLast
<1>7. v[h] = w[h]
  BY <1>3 DEF Longer
<1>8. Under(v, Len(v)) = h
  BY <1>1, <1>2, UnderRow
<1>9. d = TableAt(v, h)
  <2>1. c.lines = LinesUnder(w, h) /\ c.module = w[h].data.module /\ c.source = w[h].data.source
    BY <1>4 DEF TableAt
  <2>2. d = [module |-> c.module, source |-> c.source, lines |-> c.lines \o e.data]
    BY DEF LineTable
  <2> QED BY <1>6, <1>7, <2>1, <2>2 DEF TableAt
<1>10. Inhabited(v) \ {h} = Inhabited(w) \ {h}
  BY <1>1, <1>2, InhabitedRow
<1>11. TablesUnder(v, Inhabited(w) \ {h}) = TablesUnder(w, Inhabited(w) \ {h})
  <2>1. Inhabited(w) \ {h} \subseteq 1..Len(w)
    BY <1>1, HeadersInside DEF Inhabited
  <2>2. \A j \in Inhabited(w) \ {h} : LinesUnder(v, j) = LinesUnder(w, j)
    BY <1>1, <1>2, LinesRow
  <2> QED BY <2>1, <2>2, TablesKept
<1>12. d.module # <<>>
  <2>1. w[h].data \in TableHeaders
    BY <1>3 DEF FileOK
  <2>2. w[h].data.module # <<>>
    BY <2>1, ReaderAssumption DEF ReaderAssumption
  <2> QED BY <1>7, <1>9, <2>2 DEF TableAt
<1> QED BY <1>4, <1>8, <1>9, <1>10, <1>11, <1>12 DEF TablesOK

\* The end of the file flushes the last table.
LEMMA TablesEnd ==
    ASSUME NEW s, NEW c \in LineTable, NEW ts \in Seq(LineTable), NEW w, Told(s),
           FileOK(w, s), TablesOK(s, c, ts, w)
    PROVE  TablesOK("EndOfFile", NoTable, Flushed(ts, c), w)
PROOF
<1>1. Flushed(ts, c) = TablesUnder(w, Inhabited(w))
  <2>1. ts \o Unflushed(c) = TablesUnder(w, Inhabited(w))
    BY TablesRead
  <2> QED BY <2>1, FlushedIs
<1>2. NoTable.lines = <<>> /\ Unflushed(NoTable) = <<>>
  BY DEF NoTable, Unflushed
<1>3. PICK us \in Seq(LineTable) : us = Flushed(ts, c)
  BY FlushedIs
<1>4. us \o <<>> = us
  BY ConcatEmptySeq
<1>5. \A t \in Range(us) : t.lines # <<>> /\ t.module # <<>>
  BY <1>3, FlushedKept
<1> QED BY <1>1, <1>2, <1>3, <1>4, <1>5 DEF TablesOK

\* The same for the lines of each module.
LEMMA LinesOKHeader ==
    ASSUME NEW c, NEW ts, NEW w, LinesOK(c, ts, w), NEW v, NEW e, Longer(v, w, e), e.header
    PROVE  LinesOK(c, ts, v)
PROOF BY ForHeader DEF LinesOK

\* LinesOK when the current table is flushed.
LEMMA LinesOKFlush ==
    ASSUME NEW c \in LineTable, NEW ts \in Seq(LineTable), NEW w, LinesOK(c, ts, w),
           NEW d, d.lines = <<>>
    PROVE  LinesOK(d, Flushed(ts, c), w)
PROOF
<1>1. ASSUME NEW m \in ModulesNamed
      PROVE  LinesIn(Flushed(ts, c), m) \o Pending(d, m) = FlattenSeq(Rows(w, HeadersFor(w, m)))
  <2>1. LinesIn(Flushed(ts, c), m) = FlattenSeq(Rows(w, HeadersFor(w, m)))
    BY LinesFlushed DEF LinesOK
  <2>2. PICK x \in Seq(LineRecord) : x = LinesIn(Flushed(ts, c), m)
    BY FlushedIs, LinesInType
  <2>3. x \o <<>> = x
    BY ConcatEmptySeq
  <2>4. Pending(d, m) = <<>>
    BY DEF Pending
  <2> QED BY <2>1, <2>2, <2>3, <2>4
<1> QED BY <1>1 DEF LinesOK

\* LinesOK for a row of another section.
LEMMA LinesOKOther ==
    ASSUME NEW c, NEW ts, NEW w, LinesOK(c, ts, w), NEW s, FileOK(w, s), s # "LineNumbers",
           NEW e, IsRow(e, s), NEW v, Longer(v, w, e), w # <<>>
    PROVE  LinesOK(c, ts, v)
PROOF
<1>1. ~e.header /\ w[Under(w, Len(w))].section = s
  BY DEF FileOK, IsRow
<1>2. \A m : Under(w, Len(w)) \notin HeadersFor(w, m)
  BY <1>1 DEF HeadersFor, HeadersOf
<1>3. \A m : Rows(v, HeadersFor(v, m)) = Rows(w, HeadersFor(w, m))
  BY <1>1, <1>2, ForRow
<1> QED BY <1>3 DEF LinesOK

\* LinesOK for a row of the current table.
LEMMA LinesOKLine ==
    ASSUME NEW c \in LineTable, NEW ts \in Seq(LineTable), NEW w, LinesOK(c, ts, w),
           FileOK(w, "LineNumbers"), TablesOK("LineNumbers", c, ts, w),
           NEW e, IsRow(e, "LineNumbers"), NEW v, Longer(v, w, e), w # <<>>,
           NEW d \in LineTable, d = [c EXCEPT !.lines = c.lines \o e.data]
    PROVE  LinesOK(d, ts, v)
PROOF
<1>1. FileLike(w) /\ ~e.header /\ w[Under(w, Len(w))].section = "LineNumbers" /\ e.data \in LineRows
  BY DEF FileOK, IsRow, Sections
<1>2. PICK h : h = Under(w, Len(w))
  OBVIOUS
<1>3. h \in HeadersOf(w, "LineNumbers")
  <2>1. DOMAIN w = 1..Len(w)
    BY <1>1 DEF FileLike
  <2> QED BY <1>1, <1>2, <2>1, TopIs DEF HeadersOf
<1>4. c.module = w[h].data.module
  BY <1>2 DEF TablesOK, TableAt
<1>5. d.module = c.module /\ d.lines = c.lines \o e.data
  BY DEF LineTable
<1>6. PICK x \in Seq(LineRecord) : x = e.data
  BY <1>1, ReaderAssumption DEF ReaderAssumption
<1>7. ASSUME NEW m \in ModulesNamed
      PROVE  LinesIn(ts, m) \o Pending(d, m) = FlattenSeq(Rows(v, HeadersFor(v, m)))
  <2>1. LinesIn(ts, m) \o Pending(c, m) = FlattenSeq(Rows(w, HeadersFor(w, m)))
    BY DEF LinesOK
  <2>2. h \in HeadersFor(w, m) <=> c.module = m
    BY <1>3, <1>4 DEF HeadersFor
  <2>3. CASE c.module = m
    <3>1. Rows(v, HeadersFor(v, m)) = Append(Rows(w, HeadersFor(w, m)), e.data)
      BY <1>1, <1>2, <2>2, <2>3, ForRow
    <3>2. PICK q \in Seq(Seq(LineRecord)) : q = Rows(w, HeadersFor(w, m))
      <4>1. HeadersFor(w, m) \in SUBSET HeadersOf(w, "LineNumbers")
        BY DEF HeadersFor
      <4>2. Rows(w, HeadersFor(w, m)) \in Seq(LineRows)
        BY <4>1 DEF FileOK
      <4> QED BY <4>2, RowsAreLines
    <3>3. FlattenSeq(Append(q, x)) = FlattenSeq(q) \o x
      BY FlattenAppend
    <3>4. PICK a \in Seq(LineRecord) : a = LinesIn(ts, m)
      BY LinesInType
    <3>5. PICK b \in Seq(LineRecord) : b = c.lines
      BY DEF LineTable
    <3>6. (a \o b) \o x = a \o (b \o x)
      BY ConcatAssociative
    <3>7. Pending(c, m) = b /\ Pending(d, m) = b \o x
      BY <1>5, <1>6, <2>3, <3>5 DEF Pending
    <3> QED BY <1>6, <2>1, <3>1, <3>2, <3>3, <3>4, <3>6, <3>7
  <2>4. CASE c.module # m
    <3>1. Rows(v, HeadersFor(v, m)) = Rows(w, HeadersFor(w, m))
      BY <1>1, <1>2, <2>2, <2>4, ForRow
    <3>2. Pending(c, m) = Pending(d, m)
      BY <1>5, <2>4 DEF Pending
    <3> QED BY <2>1, <3>1, <3>2
  <2> QED BY <2>3, <2>4
<1> QED BY <1>7 DEF LinesOK

-----------------------------------------------------------------------------
(* populate().                                                             *)

\* The modules with tables, in file order, and the file each unit is said to be.
Order == Distinct([i \in DOMAIN file.tables |-> file.tables[i].module])
Files == Distinct([i \in DOMAIN Order |-> Head(TablesOf(Order[i])).source])

\* The modules with tables, each once.
LEMMA OrderIs ==
    ASSUME FileTyped(file)
    PROVE  /\ Order \in Seq(ModuleNames) /\ OneToOne(Order) /\ Range(Order) = ModuleNames
           /\ DOMAIN Order = 1..Len(Order)
PROOF
<1>1. PICK ts \in Seq(LineTable) : ts = file.tables
  BY DEF FileTyped
<1>2. PICK ms : ms = [i \in DOMAIN ts |-> ts[i].module]
  OBVIOUS
<1>3. DOMAIN ts = 1..Len(ts) /\ Len(ts) \in Nat
  OBVIOUS
<1>4. ModuleNames = {ts[i].module : i \in DOMAIN ts}
  BY <1>1 DEF ModuleNames, Range
<1>5. ms = [i \in 1..Len(ts) |-> ts[i].module] /\ \A i \in 1..Len(ts) : ts[i].module \in ModuleNames
  BY <1>2, <1>3, <1>4
<1>6. ms \in Seq(ModuleNames)
  BY <1>3, <1>5
<1>7. Range(ms) = ModuleNames
  BY <1>2, <1>4 DEF Range
<1>8. Order = Distinct(ms)
  BY <1>1, <1>2 DEF Order
<1>9. Order \in Seq(ModuleNames) /\ OneToOne(Order) /\ Range(Order) = ModuleNames
  BY <1>6, <1>7, <1>8, DistinctIs
<1> QED BY <1>9

\* The first source of each of them is a file.
LEMMA FilesAre ==
    ASSUME FileTyped(file)
    PROVE  /\ DOMAIN Files = 1..Len(Files) /\ Len(Files) \in Nat
           /\ \A i \in DOMAIN Order : \E k \in 1..Len(Files) :
                Files[k] = Head(TablesOf(Order[i])).source
PROOF
<1>1. PICK ss : ss = [i \in DOMAIN Order |-> Head(TablesOf(Order[i])).source]
  OBVIOUS
<1>2. PICK T : T = {ss[i] : i \in DOMAIN Order}
  OBVIOUS
<1>3. DOMAIN Order = 1..Len(Order) /\ Len(Order) \in Nat
  BY OrderIs
<1>4. ss \in Seq(T)
  <2>1. ss = [i \in 1..Len(Order) |-> ss[i]]
    BY <1>1, <1>3
  <2>2. \A i \in 1..Len(Order) : ss[i] \in T
    BY <1>2, <1>3
  <2> QED BY <1>3, <2>1, <2>2
<1>5. Files = Distinct(ss)
  BY <1>1 DEF Files
<1>6. Files \in Seq(T) /\ Range(Files) = Range(ss)
  BY <1>4, <1>5, DistinctIs
<1>7. DOMAIN Files = 1..Len(Files) /\ Len(Files) \in Nat
  BY <1>6
<1>8. \A i \in DOMAIN Order : ss[i] \in Range(Files)
  BY <1>1, <1>6 DEF Range
<1> QED BY <1>1, <1>7, <1>8 DEF Range

\* sourceFileId finds a file that is there.
LEMMA FileIdIs ==
    ASSUME NEW files, Len(files) \in Nat, NEW k \in 1..Len(files)
    PROVE  FileId(files, files[k]) \in 1..Len(files)
PROOF
<1>1. PICK source : source = files[k]
  OBVIOUS
<1>2. PICK S : S = {i \in 1..Len(files) : files[i] = source}
  OBVIOUS
<1>3. S \in SUBSET Nat /\ S # {} /\ S \subseteq 1..Len(files)
  BY <1>1, <1>2
<1>4. Min(S) \in S
  BY <1>3, MinIsLeast
<1>5. FileId(files, source) = Min(S)
  BY <1>2, <1>3 DEF FileId, SelectInSeq
<1> QED BY <1>1, <1>3, <1>4, <1>5

\* The units.
LEMMA UnitsAre ==
    ASSUME FileTyped(file)
    PROVE  /\ Populated.sourceFiles = Files
           /\ DOMAIN Populated.units = DOMAIN Order
           /\ \A i \in DOMAIN Order : Populated.units[i] = Unit(Order[i], Files)
           /\ \A i \in DOMAIN Order :
                /\ Populated.units[i].module = Order[i]
                /\ Populated.units[i].symbols = Symbols(Order[i])
PROOF
<1>1. Populated = [units |-> [i \in DOMAIN Order |-> Unit(Order[i], Files)], sourceFiles |-> Files]
  BY DEF Populated, Order, Files
<1>2. \A m, fs : Unit(m, fs).module = m /\ Unit(m, fs).symbols = Symbols(m)
  BY DEF Unit
<1> QED BY <1>1, <1>2

\* Each line of a unit.
LEMMA UnitLines ==
    ASSUME FileTyped(file), NEW i \in DOMAIN Order
    PROVE  LET lines == LinesOf(Order[i])
               u     == Populated.units[i]
           IN  /\ DOMAIN u.lines = DOMAIN lines
               /\ \A n \in DOMAIN lines :
                    /\ u.lines[n].line = lines[n].line
                    /\ u.lines[n].file \in DOMAIN Files
PROOF
<1>1. PICK lines : lines = LinesOf(Order[i])
  OBVIOUS
<1>2. PICK source : source = Head(TablesOf(Order[i])).source
  OBVIOUS
<1>3. PICK k \in 1..Len(Files) : Files[k] = source
  BY <1>2, FilesAre
<1>4. FileId(Files, source) \in DOMAIN Files
  BY <1>3, FilesAre, FileIdIs
<1>5. Populated.units[i] = Unit(Order[i], Files)
  BY UnitsAre
<1>6. Populated.units[i].lines = [n \in DOMAIN lines |->
            [address |-> ResolveVA(lines[n].segment, lines[n].offset),
             line |-> lines[n].line, file |-> FileId(Files, source)]]
  BY <1>1, <1>2, <1>5 DEF Unit
<1> QED BY <1>1, <1>4, <1>6

\* Every line of the model has a file that is there.
LEMMA FilesKnownSafe ==
    ASSUME FileTyped(file)
    PROVE  FilesKnown(Populated)
PROOF
<1>1. SUFFICES ASSUME NEW u \in Range(Populated.units), NEW l \in Range(u.lines)
               PROVE  l.file \in DOMAIN Populated.sourceFiles
  BY DEF FilesKnown
<1>2. PICK i \in DOMAIN Order : u = Populated.units[i]
  BY UnitsAre DEF Range
<1>3. PICK n \in DOMAIN u.lines : l = u.lines[n]
  BY DEF Range
<1>4. u.lines[n].file \in DOMAIN Files
  BY <1>2, UnitLines
<1> QED BY <1>3, <1>4, UnitsAre

\* The lines of a module that has a table are some.
LEMMA LinesInFilled ==
    ASSUME NEW ts \in Seq(LineTable), \A t \in Range(ts) : t.lines # <<>>,
           NEW m, \E t \in Range(ts) : t.module = m
    PROVE  LinesIn(ts, m) # <<>>
PROOF
<1> DEFINE P == {q \in Seq(LineTable) :
                   (\A t \in Range(q) : t.lines # <<>>) /\ (\E t \in Range(q) : t.module = m)
                     => LinesIn(q, m) # <<>>}
<1>1. PICK z : z = <<>>
  OBVIOUS
<1>2. z \in P /\ Len(z) = 0
  <2>1. Range(z) = {}
    BY <1>1 DEF Range
  <2>2. z \in Seq(LineTable) /\ Len(z) = 0
    BY <1>1
  <2> QED BY <2>1, <2>2
<1>3. ASSUME NEW q \in P, NEW t \in LineTable PROVE Append(q, t) \in P
  <2>1. q \in Seq(LineTable)
    OBVIOUS
  <2>2. PICK r \in Seq(LineTable) : r = Append(q, t)
    BY <2>1, AppendProperties
  <2>3. Range(r) = Range(q) \cup {t}
    BY <2>1, <2>2, RangeAppend
  <2>4. ASSUME \A o \in Range(r) : o.lines # <<>>, \E o \in Range(r) : o.module = m
        PROVE  LinesIn(r, m) # <<>>
    <3>1. LinesIn(r, m) = LinesIn(q, m) \o Pending(t, m)
      BY <2>1, <2>2, LinesInAppend
    <3>2. PICK a \in Seq(LineRecord) : a = LinesIn(q, m)
      BY <2>1, LinesInType
    <3>3. PICK b \in Seq(LineRecord) : b = Pending(t, m)
      <4>1. t.lines \in Seq(LineRecord)
        BY DEF LineTable
      <4>2. PICK e \in Seq(LineRecord) : e = <<>>
        BY EmptySeq
      <4>3. Pending(t, m) = IF t.module = m THEN t.lines ELSE e
        BY <4>2 DEF Pending
      <4> QED BY <4>1, <4>3
    <3>4. a \o b = <<>> => a = <<>> /\ b = <<>>
      BY ConcatEqualIffEmpty
    <3>5. CASE t.module = m
      <4>1. b # <<>>
        BY <2>3, <2>4, <3>3, <3>5 DEF Pending
      <4> QED BY <3>1, <3>2, <3>3, <3>4, <4>1
    <3>6. CASE t.module # m
      <4>1. LinesIn(q, m) # <<>>
        BY <2>3, <2>4, <3>6
      <4> QED BY <3>1, <3>2, <3>3, <3>4, <4>1
    <3> QED BY <3>5, <3>6
  <2> QED BY <2>2, <2>4
<1>4. P \in SUBSET Seq(LineTable)
  OBVIOUS
<1>5. P = Seq(LineTable)
  <2> HIDE DEF P
  <2> QED BY <1>2, <1>3, <1>4, SeqInduction
<1> QED BY <1>5

\* Each module's unit has the lines read for the module.
LEMMA LinesKeptSafe ==
    ASSUME FileTyped(file), LinesOK(NoTable, file.tables, written),
           \A t \in Range(file.tables) : t.lines # <<>>,
           NEW m \in ModulesNamed
    PROVE  LinesKept(Populated, written, m)
PROOF
<1>1. PICK ts \in Seq(LineTable) : ts = file.tables
  BY DEF FileTyped
<1>2. PICK wrote : wrote = FlattenSeq(Rows(written, HeadersFor(written, m)))
  OBVIOUS
<1>3. LinesOf(m) = wrote
  <2>1. PICK x \in Seq(LineRecord) : x = LinesIn(ts, m)
    BY LinesInType
  <2>2. x \o <<>> = x
    BY ConcatEmptySeq
  <2>3. Pending(NoTable, m) = <<>>
    BY DEF Pending, NoTable
  <2>4. wrote = x
    BY <1>1, <1>2, <2>1, <2>2, <2>3 DEF LinesOK
  <2>5. LinesOf(m) = LinesIn(ts, m)
    BY <1>1 DEF LinesOf, TablesOf, LinesIn
  <2> QED BY <2>1, <2>4, <2>5
<1>4. PICK units : units = {i \in DOMAIN Populated.units : Populated.units[i].module = m}
  OBVIOUS
<1>5. units = {i \in DOMAIN Order : Order[i] = m}
  BY <1>4, UnitsAre
<1>6. CASE m \notin ModuleNames
  <2>1. wrote = <<>>
    <3>1. \A t \in Range(ts) : t.module # m
      BY <1>1, <1>6 DEF ModuleNames
    <3>2. LinesIn(ts, m) = <<>>
      BY <3>1, LinesInEmpty
    <3> QED BY <1>1, <1>3, <3>2 DEF LinesOf, TablesOf, LinesIn
  <2>2. units = {}
    BY <1>5, <1>6, OrderIs DEF Range
  <2> QED BY <1>2, <1>4, <2>1, <2>2 DEF LinesKept
<1>7. CASE m \in ModuleNames
  <2>1. wrote # <<>>
    <3>1. \E t \in Range(ts) : t.module = m
      BY <1>1, <1>7 DEF ModuleNames
    <3>2. LinesIn(ts, m) # <<>>
      BY <1>1, <3>1, LinesInFilled
    <3> QED BY <1>1, <1>3, <3>2 DEF LinesOf, TablesOf, LinesIn
  <2>2. PICK i \in DOMAIN Order : Order[i] = m
    BY <1>7, OrderIs DEF Range
  <2>3. units = {i}
    BY <1>5, <2>2, OrderIs DEF OneToOne
  <2>4. DOMAIN Populated.units[i].lines = DOMAIN wrote
        /\ \A n \in DOMAIN wrote : Populated.units[i].lines[n].line = wrote[n].line
    BY <1>3, <2>2, UnitLines
  <2>5. [n \in DOMAIN Populated.units[i].lines |-> Populated.units[i].lines[n].line]
          = [n \in DOMAIN wrote |-> wrote[n].line]
    BY <2>4
  <2> QED BY <1>2, <1>4, <2>1, <2>3, <2>5 DEF LinesKept
<1> QED BY <1>6, <1>7

\* The publics filed under module m.
Mine(m) ==
    {i \in DOMAIN file.publics :
       /\ Bucket(file.publics[i].name) = m
       /\ ~Internal(SubSeq(file.publics[i].name, Len(m) + 1, Len(file.publics[i].name)))}
Filing(m) == Among(Indices(file.publics), Mine(m))

\* The symbols of a unit are the publics filed under it, each once.
LEMMA SymbolsAre ==
    ASSUME FileTyped(file), NEW m
    PROVE  /\ DOMAIN Symbols(m) = DOMAIN Filing(m) /\ DOMAIN Filing(m) = 1..Len(Filing(m))
           /\ \A j \in DOMAIN Filing(m) : Symbols(m)[j].public = Filing(m)[j]
           /\ OneToOne(Filing(m)) /\ Range(Filing(m)) = Mine(m)
PROOF
<1>1. PICK ps \in Seq(Range(PublicRows)) : ps = file.publics
  BY DEF FileTyped
<1>2. PICK q \in Seq(Nat) : q = Filing(m)
  BY <1>1, AmongIndices DEF Filing
<1>3. Range(q) = (1..Len(ps)) \cap Mine(m) /\ OneToOne(q)
  BY <1>1, <1>2, AmongIndices DEF Filing
<1>4. DOMAIN ps = 1..Len(ps)
  OBVIOUS
<1>5. Mine(m) \subseteq 1..Len(ps)
  BY <1>1, <1>4 DEF Mine
<1>6. Symbols(m) = [j \in DOMAIN q |-> Symbol(m, q[j])]
  BY <1>2 DEF Symbols, Mine, Filing
<1>7. \A i : Symbol(m, i).public = i
  BY DEF Symbol
<1>8. DOMAIN q = 1..Len(q)
  OBVIOUS
<1> QED BY <1>2, <1>3, <1>5, <1>6, <1>7, <1>8

\* A prefix that names a module, and the longest.
LEMMA BucketIs ==
    ASSUME NEW name \in Seq(STRING), PrefixLengths(name) # {}
    PROVE  LET k == Max(PrefixLengths(name))
           IN  /\ k \in 1..(Len(name) - 1) /\ \A n \in PrefixLengths(name) : n <= k
               /\ Bucket(name) = SubSeq(name, 1, k) /\ Bucket(name) \in ModuleNames
               /\ Bucket(name) \in Seq(STRING) /\ Len(Bucket(name)) = k
PROOF
<1>1. PICK S : S = PrefixLengths(name)
  OBVIOUS
<1>2. S \subseteq 1..(Len(name) - 1) /\ \A k \in S : SubSeq(name, 1, k) \in ModuleNames
  BY <1>1 DEF PrefixLengths
<1>3. S \in SUBSET Nat /\ Len(name) \in Nat /\ \A n \in S : n <= Len(name)
  BY <1>2
<1>4. Max(S) \in S /\ \A n \in S : n <= Max(S)
  BY <1>1, <1>3, MaxIsGreatest
<1>5. PICK k \in S : k = Max(S)
  BY <1>4
<1>6. Bucket(name) = SubSeq(name, 1, k)
  BY <1>1, <1>5 DEF Bucket
<1>7. k \in 1..(Len(name) - 1) /\ k <= Len(name) /\ k >= 1
  BY <1>2, <1>3
<1>8. SubSeq(name, 1, k) \in Seq(STRING) /\ Len(SubSeq(name, 1, k)) = k
  <2>1. \A i \in 1..k : name[i] \in STRING
    BY <1>7
  <2>2. k \in Int /\ 1 \in Int
    BY <1>7
  <2>3. /\ SubSeq(name, 1, k) \in Seq(STRING)
        /\ Len(SubSeq(name, 1, k)) = IF 1 <= k THEN k - 1 + 1 ELSE 0
    BY <2>1, <2>2, SubSeqProperties
  <2> QED BY <1>7, <2>3
<1> QED BY <1>1, <1>2, <1>4, <1>5, <1>6, <1>7, <1>8

\* Names of modules.
LEMMA ModuleNamesAre ==
    ASSUME FileTyped(file), \A t \in Range(file.tables) : t.module # <<>>,
           NEW m \in ModuleNames
    PROVE  m \in Seq(STRING) /\ Len(m) \in Nat \ {0}
PROOF
<1>1. PICK t \in Range(file.tables) : t.module = m
  BY DEF ModuleNames
<1>2. t \in LineTable
  BY DEF FileTyped, Range
<1>3. m \in {h.module : h \in TableHeaders}
  BY <1>1, <1>2 DEF LineTable
<1>4. m \in Seq(STRING) \ {<<>>}
  BY <1>3, ReaderAssumption DEF ReaderAssumption
<1> QED BY <1>4

\* The owners of a name are its prefixes among the modules.
LEMMA OwnersAre ==
    ASSUME FileTyped(file), \A t \in Range(file.tables) : t.module # <<>>,
           NEW name \in Seq(STRING), NEW m \in ModuleNames, IsStrictPrefix(m, name)
    PROVE  Len(m) \in PrefixLengths(name) /\ m = SubSeq(name, 1, Len(m))
PROOF
<1>1. m \in Seq(STRING) /\ Len(m) \in Nat \ {0} /\ Len(name) \in Nat
  BY ModuleNamesAre
<1>2. Len(m) <= Len(name) /\ SubSeq(m, 1, Len(m)) = SubSeq(name, 1, Len(m)) /\ m # name
  BY DEF IsStrictPrefix, IsPrefix
<1>3. SubSeq(m, 1, Len(m)) = m /\ SubSeq(name, 1, Len(name)) = name
  BY <1>1, SubSeqFull
<1>4. Len(m) # Len(name)
  BY <1>2, <1>3
<1>5. Len(m) \in 1..(Len(name) - 1)
  BY <1>1, <1>2, <1>4
<1> QED BY <1>2, <1>3, <1>5 DEF PrefixLengths

\* The bucket begins the name, and every other owner begins the bucket.
LEMMA BucketOwns ==
    ASSUME NEW name \in Seq(STRING), PrefixLengths(name) # {}
    PROVE  /\ IsStrictPrefix(Bucket(name), name)
           /\ \A k \in PrefixLengths(name) : IsPrefix(SubSeq(name, 1, k), Bucket(name))
PROOF
<1>1. PICK k : k = Max(PrefixLengths(name))
  OBVIOUS
<1>2. PICK m \in Seq(STRING) : m = Bucket(name)
  BY BucketIs
<1>3. /\ k \in 1..(Len(name) - 1) /\ \A n \in PrefixLengths(name) : n <= k
      /\ m = SubSeq(name, 1, k) /\ Len(m) = k
  BY <1>1, <1>2, BucketIs
<1>4. Len(name) \in Nat /\ k \in Nat /\ k < Len(name)
  BY <1>3
<1>5. SubSeq(m, 1, Len(m)) = m
  BY SubSeqFull
<1>6. IsStrictPrefix(m, name)
  <2>1. m # name
    BY <1>3, <1>4
  <2> QED BY <1>3, <1>4, <1>5, <2>1 DEF IsStrictPrefix, IsPrefix
<1>7. ASSUME NEW n \in PrefixLengths(name) PROVE IsPrefix(SubSeq(name, 1, n), m)
  <2>1. n \in 1..(Len(name) - 1) /\ n <= k /\ n \in Nat /\ n >= 1
    BY <1>3 DEF PrefixLengths
  <2>2. PICK q : q = SubSeq(name, 1, n)
    OBVIOUS
  <2>3. q \in Seq(STRING) /\ Len(q) = n /\ \A i \in 1..n : q[i] = name[i]
    BY <1>4, <2>1, <2>2
  <2>4. PICK p : p = SubSeq(m, 1, n)
    OBVIOUS
  <2>5. \A i \in 1..k : m[i] = name[i]
    BY <1>3, <1>4
  <2>6. p \in Seq(STRING) /\ Len(p) = n /\ \A i \in 1..n : p[i] = m[i]
    BY <1>3, <1>4, <2>1, <2>4
  <2>7. \A i \in 1..Len(q) : q[i] = p[i]
    BY <1>4, <2>1, <2>3, <2>5, <2>6
  <2>8. q = p
    BY <2>3, <2>6, <2>7, SeqEqual
  <2>9. SubSeq(q, 1, Len(q)) = q
    BY <2>3, SubSeqFull
  <2>10. IsPrefix(q, m)
    BY <1>3, <2>1, <2>3, <2>4, <2>8, <2>9 DEF IsPrefix
  <2> QED BY <2>2, <2>10
<1> QED BY <1>2, <1>6, <1>7

\* Each public is filed as FiledOnce says.
LEMMA FiledOnceSafe ==
    ASSUME FileTyped(file), \A t \in Range(file.tables) : t.module # <<>>,
           NEW i \in DOMAIN file.publics
    PROVE  FiledOnce(Populated, file.publics[i].name, i)
PROOF
<1>1. PICK name \in Seq(STRING) : name = file.publics[i].name
  <2>1. file.publics[i] \in Range(PublicRows)
    BY DEF FileTyped
  <2> QED BY <2>1, ReaderAssumption DEF ReaderAssumption
<1>2. PICK units : units = Populated.units
  OBVIOUS
<1>3. /\ DOMAIN units = DOMAIN Order
      /\ \A n \in DOMAIN Order : units[n].module = Order[n] /\ units[n].symbols = Symbols(Order[n])
  BY <1>2, UnitsAre
<1>4. PICK owners : owners = {u \in Range(units) : IsStrictPrefix(u.module, name)}
  OBVIOUS
<1>5. \A n \in DOMAIN Order : Order[n] \in ModuleNames
  BY OrderIs DEF Range
<1>6. \A u \in Range(units) : u.module \in ModuleNames
  BY <1>3, <1>5 DEF Range
<1>7. ASSUME NEW c \in Copies(Populated, i)
      PROVE  \E n \in DOMAIN Order : \E j \in DOMAIN Filing(Order[n]) :
               c = <<n, j>> /\ Filing(Order[n])[j] = i /\ Bucket(name) = Order[n]
  <2>1. PICK n \in DOMAIN units : \E j \in DOMAIN units[n].symbols :
          c = <<n, j>> /\ units[n].symbols[j].public = i
    BY <1>2 DEF Copies
  <2>2. PICK j \in DOMAIN units[n].symbols : c = <<n, j>> /\ units[n].symbols[j].public = i
    BY <2>1
  <2>3. n \in DOMAIN Order /\ units[n].symbols = Symbols(Order[n])
    BY <1>3
  <2>4. j \in DOMAIN Filing(Order[n]) /\ Filing(Order[n])[j] = i
    BY <2>2, <2>3, SymbolsAre
  <2>5. i \in Mine(Order[n])
    BY <2>4, SymbolsAre DEF Range
  <2>6. Bucket(name) = Order[n]
    BY <1>1, <2>5 DEF Mine
  <2> QED BY <2>2, <2>3, <2>4, <2>6
<1>8. ASSUME NEW c \in Copies(Populated, i), NEW d \in Copies(Populated, i) PROVE c = d
  <2>1. PICK n \in DOMAIN Order : \E j \in DOMAIN Filing(Order[n]) :
          c = <<n, j>> /\ Filing(Order[n])[j] = i /\ Bucket(name) = Order[n]
    BY <1>7
  <2>2. PICK j \in DOMAIN Filing(Order[n]) :
          c = <<n, j>> /\ Filing(Order[n])[j] = i /\ Bucket(name) = Order[n]
    BY <2>1
  <2>3. PICK o \in DOMAIN Order : \E k \in DOMAIN Filing(Order[o]) :
          d = <<o, k>> /\ Filing(Order[o])[k] = i /\ Bucket(name) = Order[o]
    BY <1>7
  <2>4. PICK k \in DOMAIN Filing(Order[o]) :
          d = <<o, k>> /\ Filing(Order[o])[k] = i /\ Bucket(name) = Order[o]
    BY <2>3
  <2>5. n = o
    BY <2>2, <2>4, OrderIs DEF OneToOne
  <2>6. j = k
    <3>1. PICK q : q = Filing(Order[n])
      OBVIOUS
    <3>2. OneToOne(q) /\ DOMAIN q = 1..Len(q)
      BY <3>1, SymbolsAre
    <3>3. j \in 1..Len(q) /\ k \in 1..Len(q) /\ q[j] = q[k]
      BY <2>2, <2>4, <2>5, <3>1, <3>2
    <3> QED BY <3>2, <3>3 DEF OneToOne
  <2> QED BY <2>2, <2>4, <2>5, <2>6
<1>9. ASSUME NEW v \in owners
      PROVE  Len(v.module) \in PrefixLengths(name) /\ v.module = SubSeq(name, 1, Len(v.module))
  BY <1>4, <1>6, OwnersAre
<1>10. ASSUME NEW c \in Copies(Populated, i)
       PROVE  /\ units[c[1]] \in owners
              /\ \A v \in owners : IsPrefix(v.module, units[c[1]].module)
  <2>1. PICK n \in DOMAIN Order : c[1] = n /\ Bucket(name) = Order[n]
    BY <1>7
  <2>2. Bucket(name) \in ModuleNames
    BY <1>5, <2>1
  <2>3. PrefixLengths(name) # {}
    <3>1. Bucket(name) # <<>>
      BY <2>2 DEF ModuleNames
    <3> QED BY <3>1 DEF Bucket
  <2>4. IsStrictPrefix(Bucket(name), name)
        /\ \A k \in PrefixLengths(name) : IsPrefix(SubSeq(name, 1, k), Bucket(name))
    BY <2>3, BucketOwns
  <2>5. units[n].module = Bucket(name) /\ units[n] \in Range(units)
    BY <1>3, <2>1 DEF Range
  <2>6. units[n] \in owners
    BY <1>4, <2>4, <2>5
  <2>7. \A v \in owners : IsPrefix(v.module, Bucket(name))
    BY <1>9, <2>4
  <2> QED BY <2>1, <2>5, <2>6, <2>7
<1>11. ASSUME Copies(Populated, i) = {}, owners # {}
       PROVE  \E k \in 2..Len(name) : name[k] \in {"$pdata$", "$unwind$", ""}
  <2>1. PrefixLengths(name) # {}
    BY <1>9, <1>11
  <2>2. PICK m \in Seq(STRING) : m = Bucket(name)
    BY <2>1, BucketIs
  <2>3. m \in ModuleNames /\ Len(m) \in 1..(Len(name) - 1)
    BY <2>1, <2>2, BucketIs
  <2>4. PICK n \in DOMAIN Order : Order[n] = m
    BY <2>3, OrderIs DEF Range
  <2>5. i \notin Mine(m)
    <3>1. SUFFICES ASSUME i \in Mine(m) PROVE FALSE
      OBVIOUS
    <3>2. PICK j \in DOMAIN Filing(m) : Filing(m)[j] = i
      BY <3>1, SymbolsAre DEF Range
    <3>3. j \in DOMAIN units[n].symbols /\ units[n].symbols[j].public = i
      BY <1>3, <2>4, <3>2, SymbolsAre
    <3>4. <<n, j>> \in Copies(Populated, i)
      BY <1>2, <1>3, <2>4, <3>3 DEF Copies
    <3> QED BY <1>11, <3>4
  <2>6. Internal(SubSeq(name, Len(m) + 1, Len(name)))
    BY <1>1, <2>2, <2>5 DEF Mine
  <2>7. Len(m) + 1 \in 2..Len(name)
    BY <2>3
  <2>8. Head(SubSeq(name, Len(m) + 1, Len(name))) = name[Len(m) + 1]
    <3>1. PICK k \in 1..Len(name) : k = Len(m) + 1
      BY <2>7
    <3>2. Len(name) \in k..Len(name)
      OBVIOUS
    <3>3. Head(SubSeq(name, k, Len(name))) = name[k]
      BY <3>2, HeadTailOfSubSeq
    <3> QED BY <3>1, <3>3
  <2> QED BY <2>6, <2>7, <2>8 DEF Internal
<1> QED BY <1>1, <1>2, <1>4, <1>8, <1>10, <1>11 DEF FiledOnce
-----------------------------------------------------------------------------
(* The actions.                                                            *)

\* A row goes to the records of the section it stands in.
LEMMA RowsOKSegment ==
    ASSUME NEW f, NEW g, NEW w, RowsOK(f, w), NEW v, NEW e, Longer(v, w, e), ~e.header, w # <<>>,
           w[Under(w, Len(w))].section = "Segments",
           g.segments = Append(f.segments, e.data), g.modules = f.modules, g.publics = f.publics
    PROVE  RowsOK(g, v)
PROOF
<1>1. Rows(v, HeadersOf(v, "Segments")) = Append(Rows(w, HeadersOf(w, "Segments")), e.data)
  BY SectionRow
<1>2. Rows(v, HeadersOf(v, "DetailedMap")) = Rows(w, HeadersOf(w, "DetailedMap"))
  BY SectionRow
<1>3. Rows(v, HeadersOf(v, "PublicsByName")) = Rows(w, HeadersOf(w, "PublicsByName"))
  BY SectionRow
<1> QED BY <1>1, <1>2, <1>3 DEF RowsOK

\* A row of the detailed map.
LEMMA RowsOKModule ==
    ASSUME NEW f, NEW g, NEW w, RowsOK(f, w), NEW v, NEW e, Longer(v, w, e), ~e.header, w # <<>>,
           w[Under(w, Len(w))].section = "DetailedMap",
           g.segments = f.segments, g.modules = Append(f.modules, e.data), g.publics = f.publics
    PROVE  RowsOK(g, v)
PROOF
<1>1. Rows(v, HeadersOf(v, "Segments")) = Rows(w, HeadersOf(w, "Segments"))
  BY SectionRow
<1>2. Rows(v, HeadersOf(v, "DetailedMap")) = Append(Rows(w, HeadersOf(w, "DetailedMap")), e.data)
  BY SectionRow
<1>3. Rows(v, HeadersOf(v, "PublicsByName")) = Rows(w, HeadersOf(w, "PublicsByName"))
  BY SectionRow
<1> QED BY <1>1, <1>2, <1>3 DEF RowsOK

\* A row of the publics by name.
LEMMA RowsOKPublic ==
    ASSUME NEW f, NEW g, NEW w, RowsOK(f, w), NEW v, NEW e, Longer(v, w, e), ~e.header, w # <<>>,
           w[Under(w, Len(w))].section = "PublicsByName",
           g.segments = f.segments, g.modules = f.modules, g.publics = Append(f.publics, e.data)
    PROVE  RowsOK(g, v)
PROOF
<1>1. Rows(v, HeadersOf(v, "Segments")) = Rows(w, HeadersOf(w, "Segments"))
  BY SectionRow
<1>2. Rows(v, HeadersOf(v, "DetailedMap")) = Rows(w, HeadersOf(w, "DetailedMap"))
  BY SectionRow
<1>3. Rows(v, HeadersOf(v, "PublicsByName")) = Append(Rows(w, HeadersOf(w, "PublicsByName")), e.data)
  BY SectionRow
<1> QED BY <1>1, <1>2, <1>3 DEF RowsOK

\* A row that stands for no record of its own.
LEMMA RowsOKOther ==
    ASSUME NEW f, NEW g, NEW w, RowsOK(f, w), NEW v, NEW e, Longer(v, w, e), ~e.header, w # <<>>,
           w[Under(w, Len(w))].section \notin {"Segments", "DetailedMap", "PublicsByName"},
           g.segments = f.segments, g.modules = f.modules, g.publics = f.publics
    PROVE  RowsOK(g, v)
PROOF
<1>1. Rows(v, HeadersOf(v, "Segments")) = Rows(w, HeadersOf(w, "Segments"))
  BY SectionRow
<1>2. Rows(v, HeadersOf(v, "DetailedMap")) = Rows(w, HeadersOf(w, "DetailedMap"))
  BY SectionRow
<1>3. Rows(v, HeadersOf(v, "PublicsByName")) = Rows(w, HeadersOf(w, "PublicsByName"))
  BY SectionRow
<1> QED BY <1>1, <1>2, <1>3 DEF RowsOK

\* Nothing follows the end of the file.
LEMMA FollowsInside ==
    ASSUME NEW s, NEW t \in Follows(s)
    PROVE  t \in Sections /\ s \notin {"EntryPoint", "EndOfFile", "Done"}
PROOF
<1>1. Follows("EntryPoint") = {} /\ Follows("EndOfFile") = {} /\ Follows("Done") = {}
  BY DEF Follows
<1>2. t \in Sections
  BY DEF Follows, Sections
<1> QED BY <1>1, <1>2

\* Until populate(), the model is empty.
LEMMA ModelEmpty ==
    ASSUME NEW s, NEW t, s # "Done", t # "Done", NEW mod, NEW f, NEW g, NEW w, NEW v,
           ModelOK(s, mod, f, w)
    PROVE  ModelOK(t, mod, g, v)
PROOF BY DEF ModelOK

\* Inv at the start.
LEMMA InitSafe == ASSUME Init PROVE Inv
PROOF
<1>1. PICK w : w = written
  OBVIOUS
<1>2. w = <<>> /\ FileLike(w)
  BY <1>1 DEF Init, FileLike
<1>3. \A H : Rows(w, H) = <<>>
  BY <1>2, RowsNone
<1>4. \A s : HeadersOf(w, s) = {}
  BY <1>2 DEF HeadersOf
<1>5. FileOK(w, "Initial")
  <2>1. "Initial" \notin Sections
    BY DEF Sections
  <2>2. <<>> \in Seq(LineRows)
    OBVIOUS
  <2> QED BY <1>2, <1>3, <1>4, <2>1, <2>2 DEF FileOK
<1>6. RowsOK(file, w)
  BY <1>3 DEF RowsOK, Init
<1>7. Inhabited(w) = {}
  BY <1>4 DEF Inhabited
<1>8. TablesUnder(w, {}) = <<>>
  <2>1. PICK q : q = Indices(w)
    OBVIOUS
  <2>2. q = <<>>
    BY <1>2, <2>1 DEF Indices
  <2>3. Among(q, {}) = <<>>
    BY <2>2, AmongEmpty
  <2> QED BY <2>1, <2>3 DEF TablesUnder
<1>9. TablesOK("Initial", NoTable, <<>>, w)
  <2>1. PICK c : c = NoTable
    OBVIOUS
  <2>2. c.lines = <<>> /\ Unflushed(c) = <<>>
    BY <2>1 DEF NoTable, Unflushed
  <2>3. PICK ts : ts = <<>>
    OBVIOUS
  <2>4. \A t \in Range(ts) : FALSE
    BY <2>3 DEF Range
  <2>5. ts \o <<>> = <<>>
    BY <2>3
  <2>6. ts \o Unflushed(c) = TablesUnder(w, Inhabited(w))
    BY <1>7, <1>8, <2>2, <2>5
  <2> QED BY <2>1, <2>2, <2>3, <2>4, <2>6 DEF TablesOK
<1>10. LinesOK(NoTable, <<>>, w)
  <2>1. ASSUME NEW m \in ModulesNamed
        PROVE  LinesIn(<<>>, m) \o Pending(NoTable, m) = FlattenSeq(Rows(w, HeadersFor(w, m)))
    <3>1. PICK ts \in Seq(LineTable) : ts = <<>>
      BY EmptySeq
    <3>2. \A t \in Range(ts) : t.module # m
      BY <3>1 DEF Range
    <3>3. LinesIn(ts, m) = <<>>
      BY <3>2, LinesInEmpty
    <3>4. Pending(NoTable, m) = <<>>
      BY DEF Pending, NoTable
    <3>5. FlattenSeq(Rows(w, HeadersFor(w, m))) = <<>>
      BY <1>3, FlattenEmpty
    <3> QED BY <3>1, <3>3, <3>4, <3>5
  <2> QED BY <2>1 DEF LinesOK
<1>11. ModelOK(state, model, file, w)
  BY DEF ModelOK, Init
<1>12. StateTyped /\ current \in LineTable /\ FileTyped(file)
  BY NoTableTyped DEF Init, StateTyped, FileTyped
<1> QED BY <1>1, <1>5, <1>6, <1>9, <1>10, <1>11, <1>12 DEF Inv, Init

\* StartSection keeps Inv.
LEMMA StartSectionSafe == ASSUME Inv, StartSection PROVE Inv'
PROOF
<1>1. PICK s \in Sections \ {"LineNumbers", "EntryPoint"} :
        /\ LinkerStarts(s)
        /\ file' = [file EXCEPT !.tables = Flushed(file.tables, current)]
        /\ current' = NoTable /\ state' = s /\ model' = model
        /\ written' = Append(written, Header(s, NoTable))
  BY DEF StartSection
<1>2. PICK e : e = Header(s, NoTable)
  OBVIOUS
<1>3. e.header /\ e.section = s /\ e.section # "LineNumbers" /\ IsHeader(e)
  <2>1. NoTable \in Datum
    BY DEF Datum
  <2>2. e = [section |-> s, header |-> TRUE, data |-> NoTable]
    BY <1>2 DEF Header
  <2> QED BY <2>1, <2>2 DEF IsHeader, WrittenLine
<1>4. s \in Follows(state) /\ state # "Done" /\ s # "Done"
  <2>1. s \in Follows(state)
    BY <1>1 DEF LinkerStarts
  <2> QED BY <2>1, FollowsInside DEF Sections
<1>5. PICK w : w = written
  OBVIOUS
<1>6. PICK v : v = written'
  OBVIOUS
<1>7. v = Append(w, e)
  BY <1>1, <1>2, <1>5, <1>6
<1>8. FileOK(w, state) /\ Told(state) /\ current \in LineTable /\ FileTyped(file)
      /\ RowsOK(file, w) /\ TablesOK(state, current, file.tables, w)
      /\ LinesOK(current, file.tables, w) /\ ModelOK(state, model, file, w)
  BY <1>5 DEF Inv, Told, StateTyped
<1>9. Longer(v, w, e) /\ FileOK(v, s)
  BY <1>3, <1>7, <1>8, FileHeader
<1>10. PICK g : g = [file EXCEPT !.tables = Flushed(file.tables, current)]
  OBVIOUS
<1>11. PICK ts \in Seq(LineTable) : ts = file.tables
  BY <1>8 DEF FileTyped
<1>12. /\ FileTyped(g) /\ g.segments = file.segments /\ g.modules = file.modules
       /\ g.publics = file.publics /\ g.tables = Flushed(ts, current)
  <2>1. Flushed(ts, current) \in Seq(LineTable)
    BY <1>8, FlushedIs
  <2> QED BY <1>8, <1>10, <1>11, <2>1 DEF FileTyped
<1>13. RowsOK(g, v)
  BY <1>3, <1>8, <1>9, <1>12, RowsOKHeader
<1>14. TablesOK(s, NoTable, g.tables, v)
  BY <1>3, <1>8, <1>9, <1>11, <1>12, TablesSection
<1>15. LinesOK(NoTable, g.tables, v)
  <2>1. LinesOK(NoTable, Flushed(ts, current), w)
    <3>1. NoTable.lines = <<>>
      BY DEF NoTable
    <3> QED BY <1>8, <1>11, <3>1, LinesOKFlush
  <2> QED BY <1>3, <1>9, <1>12, <2>1, LinesOKHeader
<1>16. ModelOK(s, model, g, v)
  BY <1>4, <1>8, ModelEmpty
<1> QED BY <1>1, <1>6, <1>9, <1>10, <1>12, <1>13, <1>14, <1>15, <1>16, NoTableTyped
        DEF Inv, StateTyped

\* StartTable keeps Inv.
LEMMA StartTableSafe == ASSUME Inv, StartTable PROVE Inv'
PROOF
<1>1. PICK t \in TableHeaders :
        /\ LinkerStarts("LineNumbers")
        /\ file' = [file EXCEPT !.tables = Flushed(file.tables, current)]
        /\ current' = [NoTable EXCEPT !.module = t.module, !.source = t.source]
        /\ state' = "LineNumbers" /\ model' = model
        /\ written' = Append(written, Header("LineNumbers", t))
  BY DEF StartTable
<1>2. PICK e : e = Header("LineNumbers", t)
  OBVIOUS
<1>3. e.header /\ e.section = "LineNumbers" /\ e.data = t /\ IsHeader(e)
  <2>1. t \in Datum
    BY DEF Datum
  <2>2. e = [section |-> "LineNumbers", header |-> TRUE, data |-> t]
    BY <1>2 DEF Header
  <2> QED BY <2>1, <2>2 DEF IsHeader, WrittenLine, Sections
<1>4. state # "Done"
  <2>1. "LineNumbers" \in Follows(state)
    BY <1>1 DEF LinkerStarts
  <2> QED BY <2>1, FollowsInside
<1>5. PICK w : w = written
  OBVIOUS
<1>6. PICK v : v = written'
  OBVIOUS
<1>7. v = Append(w, e)
  BY <1>1, <1>2, <1>5, <1>6
<1>8. FileOK(w, state) /\ Told(state) /\ current \in LineTable /\ FileTyped(file)
      /\ RowsOK(file, w) /\ TablesOK(state, current, file.tables, w)
      /\ LinesOK(current, file.tables, w) /\ ModelOK(state, model, file, w)
  BY <1>5 DEF Inv, Told, StateTyped
<1>9. Longer(v, w, e) /\ FileOK(v, "LineNumbers")
  BY <1>3, <1>7, <1>8, FileHeader
<1>10. PICK g : g = [file EXCEPT !.tables = Flushed(file.tables, current)]
  OBVIOUS
<1>11. PICK ts \in Seq(LineTable) : ts = file.tables
  BY <1>8 DEF FileTyped
<1>12. /\ FileTyped(g) /\ g.segments = file.segments /\ g.modules = file.modules
       /\ g.publics = file.publics /\ g.tables = Flushed(ts, current)
  <2>1. Flushed(ts, current) \in Seq(LineTable)
    BY <1>8, FlushedIs
  <2> QED BY <1>8, <1>10, <1>11, <2>1 DEF FileTyped
<1>13. PICK d \in LineTable : d = [module |-> t.module, source |-> t.source, lines |-> <<>>]
  <2>1. <<>> \in Seq(LineRecord)
    OBVIOUS
  <2> QED BY <2>1 DEF LineTable
<1>14. d = current' /\ d.lines = <<>>
  BY <1>1, <1>13 DEF NoTable
<1>15. RowsOK(g, v)
  BY <1>3, <1>8, <1>9, <1>12, RowsOKHeader
<1>16. TablesOK("LineNumbers", d, g.tables, v)
  <2>1. d = [module |-> e.data.module, source |-> e.data.source, lines |-> <<>>]
    BY <1>3, <1>13
  <2> QED BY <1>3, <1>8, <1>9, <1>11, <1>12, <2>1, TablesTable
<1>17. LinesOK(d, g.tables, v)
  <2>1. LinesOK(d, Flushed(ts, current), w)
    BY <1>8, <1>11, <1>14, LinesOKFlush
  <2> QED BY <1>3, <1>9, <1>12, <2>1, LinesOKHeader
<1>18. ModelOK("LineNumbers", model, g, v)
  BY <1>4, <1>8, ModelEmpty
<1> QED BY <1>1, <1>6, <1>9, <1>10, <1>12, <1>14, <1>15, <1>16, <1>17, <1>18
        DEF Inv, StateTyped, Sections

\* StartEntryPoint keeps Inv.
LEMMA StartEntryPointSafe == ASSUME Inv, StartEntryPoint PROVE Inv'
PROOF
<1>1. /\ LinkerStarts("EntryPoint") /\ state' = "EntryPoint"
      /\ written' = Append(written, Header("EntryPoint", NoTable))
      /\ current' = current /\ file' = file /\ model' = model
  BY DEF StartEntryPoint
<1>2. PICK e : e = Header("EntryPoint", NoTable)
  OBVIOUS
<1>3. e.header /\ e.section = "EntryPoint" /\ IsHeader(e)
  <2>1. NoTable \in Datum
    BY DEF Datum
  <2>2. e = [section |-> "EntryPoint", header |-> TRUE, data |-> NoTable]
    BY <1>2 DEF Header
  <2> QED BY <2>1, <2>2 DEF IsHeader, WrittenLine, Sections
<1>4. state # "Done"
  <2>1. "EntryPoint" \in Follows(state)
    BY <1>1 DEF LinkerStarts
  <2> QED BY <2>1, FollowsInside
<1>5. PICK w : w = written
  OBVIOUS
<1>6. PICK v : v = written'
  OBVIOUS
<1>7. v = Append(w, e)
  BY <1>1, <1>2, <1>5, <1>6
<1>8. FileOK(w, state) /\ Told(state) /\ current \in LineTable /\ FileTyped(file)
      /\ RowsOK(file, w) /\ TablesOK(state, current, file.tables, w)
      /\ LinesOK(current, file.tables, w) /\ ModelOK(state, model, file, w)
  BY <1>5 DEF Inv, Told, StateTyped
<1>9. Longer(v, w, e) /\ FileOK(v, "EntryPoint")
  BY <1>3, <1>7, <1>8, FileHeader
<1>10. PICK ts \in Seq(LineTable) : ts = file.tables
  BY <1>8 DEF FileTyped
<1>11. RowsOK(file, v)
  BY <1>3, <1>8, <1>9, RowsOKHeader
<1>12. TablesOK("EntryPoint", current, file.tables, v)
  BY <1>3, <1>8, <1>9, <1>10, TablesEntryPoint
<1>13. LinesOK(current, file.tables, v)
  BY <1>3, <1>8, <1>9, LinesOKHeader
<1>14. ModelOK("EntryPoint", model, file, v)
  BY <1>4, <1>8, ModelEmpty
<1> QED BY <1>1, <1>6, <1>8, <1>9, <1>11, <1>12, <1>13, <1>14 DEF Inv, StateTyped, Sections

\* A row of a section other than the line tables, to which the records g belong.
LEMMA RowSafe ==
    ASSUME Inv, state \in Sections \ {"LineNumbers"}, NEW r \in Datum,
           written' = Append(written, Row(r)), UNCHANGED <<state, current, model>>,
           NEW g, file' = g, FileTyped(g), g.tables = file.tables,
           ASSUME NEW v, NEW w, NEW e, Longer(v, w, e), ~e.header, w # <<>>,
                  w[Under(w, Len(w))].section = state, e.data = r, RowsOK(file, w)
           PROVE  RowsOK(g, v)
    PROVE  Inv'
PROOF
<1>1. PICK e : e = Row(r)
  OBVIOUS
<1>2. ~e.header /\ e.data = r /\ IsRow(e, state)
  <2>1. e = [section |-> state, header |-> FALSE, data |-> r]
    BY <1>1 DEF Row
  <2> QED BY <2>1 DEF IsRow, WrittenLine
<1>3. PICK w : w = written
  OBVIOUS
<1>4. PICK v : v = written'
  OBVIOUS
<1>5. v = Append(w, e)
  BY <1>1, <1>3, <1>4
<1>6. FileOK(w, state) /\ current \in LineTable
      /\ RowsOK(file, w) /\ TablesOK(state, current, file.tables, w)
      /\ LinesOK(current, file.tables, w) /\ ModelOK(state, model, file, w)
  BY <1>3 DEF Inv
<1>7. /\ Longer(v, w, e) /\ FileOK(v, state) /\ w # <<>>
      /\ w[Under(w, Len(w))].section = state
  BY <1>2, <1>5, <1>6, FileRow
<1>8. RowsOK(g, v)
  BY <1>2, <1>6, <1>7
<1>9. state # "LineNumbers" /\ state # "Done"
  BY DEF Sections
<1>10. TablesOK(state, current, g.tables, v)
  BY <1>2, <1>6, <1>7, <1>9, TablesOther
<1>11. LinesOK(current, g.tables, v)
  BY <1>2, <1>6, <1>7, <1>9, LinesOKOther
<1>12. ModelOK(state, model, g, v)
  BY <1>6, <1>9, ModelEmpty
<1> QED BY <1>4, <1>6, <1>7, <1>8, <1>10, <1>11, <1>12 DEF Inv, StateTyped

\* SegmentRow keeps Inv.
LEMMA SegmentRowSafe == ASSUME Inv, SegmentRow PROVE Inv'
PROOF
<1>1. PICK r \in SegmentRows :
        /\ state = "Segments" /\ file' = [file EXCEPT !.segments = Append(file.segments, r)]
        /\ written' = Append(written, Row(r)) /\ UNCHANGED <<state, current, model>>
  BY DEF SegmentRow
<1>2. r \in Datum
  BY DEF Datum
<1>3. PICK g : g = [file EXCEPT !.segments = Append(file.segments, r)]
  OBVIOUS
<1>4. FileTyped(file)
  BY DEF Inv
<1>5. /\ FileTyped(g) /\ g.segments = Append(file.segments, r) /\ g.modules = file.modules
      /\ g.publics = file.publics /\ g.tables = file.tables
  <2>1. Append(file.segments, r) \in Seq(SegmentRows)
    BY <1>4 DEF FileTyped
  <2> QED BY <1>3, <1>4, <2>1 DEF FileTyped
<1>6. ASSUME NEW v, NEW w, NEW e, Longer(v, w, e), ~e.header, w # <<>>,
             w[Under(w, Len(w))].section = state, e.data = r, RowsOK(file, w)
      PROVE  RowsOK(g, v)
  BY <1>1, <1>5, <1>6, RowsOKSegment
<1>7. state \in Sections \ {"LineNumbers"}
  BY <1>1 DEF Sections
<1>8. file' = g
  BY <1>1, <1>3
<1> QED BY <1>1, <1>2, <1>5, <1>6, <1>7, <1>8, RowSafe

\* ModuleRow keeps Inv.
LEMMA ModuleRowSafe == ASSUME Inv, ModuleRow PROVE Inv'
PROOF
<1>1. PICK r \in Range(ModuleRows) :
        /\ state = "DetailedMap" /\ file' = [file EXCEPT !.modules = Append(file.modules, r)]
        /\ written' = Append(written, Row(r)) /\ UNCHANGED <<state, current, model>>
  <2>1. PICK i : i = Len(file.modules) + 1
    OBVIOUS
  <2>2. file.modules \in Seq(Range(ModuleRows)) /\ ModuleRows \in Seq(Range(ModuleRows))
    BY ReaderAssumption DEF Inv, FileTyped, ReaderAssumption
  <2>3. i \in DOMAIN ModuleRows
    BY <2>1, <2>2 DEF ModuleRow
  <2>4. ModuleRows[i] \in Range(ModuleRows)
    BY <2>3 DEF Range
  <2> QED BY <2>1, <2>4 DEF ModuleRow
<1>2. r \in Datum
  BY DEF Datum
<1>3. PICK g : g = [file EXCEPT !.modules = Append(file.modules, r)]
  OBVIOUS
<1>4. FileTyped(file)
  BY DEF Inv
<1>5. /\ FileTyped(g) /\ g.segments = file.segments /\ g.modules = Append(file.modules, r)
      /\ g.publics = file.publics /\ g.tables = file.tables
  <2>1. Append(file.modules, r) \in Seq(Range(ModuleRows))
    BY <1>4 DEF FileTyped
  <2> QED BY <1>3, <1>4, <2>1 DEF FileTyped
<1>6. ASSUME NEW v, NEW w, NEW e, Longer(v, w, e), ~e.header, w # <<>>,
             w[Under(w, Len(w))].section = state, e.data = r, RowsOK(file, w)
      PROVE  RowsOK(g, v)
  BY <1>1, <1>5, <1>6, RowsOKModule
<1>7. state \in Sections \ {"LineNumbers"}
  BY <1>1 DEF Sections
<1>8. file' = g
  BY <1>1, <1>3
<1> QED BY <1>1, <1>2, <1>5, <1>6, <1>7, <1>8, RowSafe

\* PublicRow keeps Inv.
LEMMA PublicRowSafe == ASSUME Inv, PublicRow PROVE Inv'
PROOF
<1>1. PICK i \in DOMAIN PublicRows :
        /\ state \in {"PublicsByName", "PublicsByValue"}
        /\ file' = [file EXCEPT !.publics = Kept(file.publics, PublicRows[i])]
        /\ written' = Append(written, Row(PublicRows[i])) /\ UNCHANGED <<state, current, model>>
  BY DEF PublicRow
<1>2. PICK r \in Range(PublicRows) : r = PublicRows[i]
  BY DEF Range
<1>3. r \in Datum
  BY DEF Datum
<1>4. PICK g : g = [file EXCEPT !.publics = Kept(file.publics, r)]
  OBVIOUS
<1>5. FileTyped(file)
  BY DEF Inv
<1>6. /\ FileTyped(g) /\ g.segments = file.segments /\ g.modules = file.modules
      /\ g.publics = Kept(file.publics, r) /\ g.tables = file.tables
  <2>1. Kept(file.publics, r) \in Seq(Range(PublicRows))
    BY <1>5 DEF FileTyped, Kept
  <2> QED BY <1>4, <1>5, <2>1 DEF FileTyped
<1>7. ASSUME NEW v, NEW w, NEW e, Longer(v, w, e), ~e.header, w # <<>>,
             w[Under(w, Len(w))].section = state, e.data = r, RowsOK(file, w)
      PROVE  RowsOK(g, v)
  <2>1. CASE state = "PublicsByName"
    <3>1. g.publics = Append(file.publics, r)
      BY <1>6, <2>1 DEF Kept
    <3> QED BY <1>6, <1>7, <2>1, <3>1, RowsOKPublic
  <2>2. CASE state = "PublicsByValue"
    <3>1. g.publics = file.publics
      BY <1>6, <2>2 DEF Kept
    <3> QED BY <1>6, <1>7, <2>2, <3>1, RowsOKOther
  <2> QED BY <1>1, <2>1, <2>2
<1>8. state \in Sections \ {"LineNumbers"}
  BY <1>1 DEF Sections
<1>9. file' = g
  BY <1>1, <1>2, <1>4
<1>10. written' = Append(written, Row(r)) /\ UNCHANGED <<state, current, model>>
  BY <1>1, <1>2
<1> QED BY <1>3, <1>6, <1>7, <1>8, <1>9, <1>10, RowSafe

\* LineRow keeps Inv.
LEMMA LineRowSafe == ASSUME Inv, LineRow PROVE Inv'
PROOF
<1>1. PICK r \in LineRows :
        /\ state = "LineNumbers" /\ state' = state /\ file' = file /\ model' = model
        /\ current' = [current EXCEPT !.lines = Extended(current.lines, r)]
        /\ written' = Append(written, Row(r))
  BY DEF LineRow
<1>2. PICK e : e = Row(r)
  OBVIOUS
<1>3. ~e.header /\ e.data = r /\ IsRow(e, "LineNumbers")
  <2>1. e = [section |-> "LineNumbers", header |-> FALSE, data |-> r]
    BY <1>1, <1>2 DEF Row
  <2>2. r \in Datum
    BY DEF Datum
  <2> QED BY <2>1, <2>2 DEF IsRow, WrittenLine, Sections
<1>4. PICK w : w = written
  OBVIOUS
<1>5. PICK v : v = written'
  OBVIOUS
<1>6. v = Append(w, e)
  BY <1>1, <1>2, <1>4, <1>5
<1>7. FileOK(w, "LineNumbers") /\ current \in LineTable /\ FileTyped(file)
      /\ RowsOK(file, w) /\ TablesOK("LineNumbers", current, file.tables, w)
      /\ LinesOK(current, file.tables, w) /\ ModelOK("LineNumbers", model, file, w)
  BY <1>1, <1>4 DEF Inv
<1>8. /\ Longer(v, w, e) /\ FileOK(v, "LineNumbers") /\ w # <<>>
      /\ w[Under(w, Len(w))].section = "LineNumbers"
  BY <1>3, <1>6, <1>7, FileRow
<1>9. PICK d \in LineTable : d = [current EXCEPT !.lines = current.lines \o e.data]
  <2>1. current.lines \in Seq(LineRecord)
    BY <1>7 DEF LineTable
  <2>2. e.data \in Seq(LineRecord)
    BY <1>3, ReaderAssumption DEF ReaderAssumption
  <2>3. current.lines \o e.data \in Seq(LineRecord)
    BY <2>1, <2>2
  <2> QED BY <1>7, <2>3 DEF LineTable
<1>10. current' = d
  BY <1>1, <1>3, <1>9 DEF Extended
<1>11. PICK ts \in Seq(LineTable) : ts = file.tables
  BY <1>7 DEF FileTyped
<1>12. RowsOK(file, v)
  BY <1>3, <1>7, <1>8, RowsOKOther
<1>13. TablesOK("LineNumbers", d, file.tables, v)
  BY <1>3, <1>7, <1>8, <1>9, TablesLine
<1>14. LinesOK(d, file.tables, v)
  BY <1>3, <1>7, <1>8, <1>9, <1>11, LinesOKLine
<1>15. ModelOK("LineNumbers", model, file, v)
  BY <1>7, ModelEmpty
<1> QED BY <1>1, <1>5, <1>7, <1>8, <1>10, <1>12, <1>13, <1>14, <1>15
        DEF Inv, StateTyped, Sections

\* EndOfFile keeps Inv.
LEMMA EndOfFileSafe == ASSUME Inv, EndOfFile PROVE Inv'
PROOF
<1>1. /\ state = "EntryPoint" /\ state' = "EndOfFile" /\ current' = NoTable
      /\ file' = [file EXCEPT !.tables = Flushed(file.tables, current)]
      /\ model' = model /\ written' = written
  BY DEF EndOfFile
<1>2. PICK w : w = written
  OBVIOUS
<1>3. FileOK(w, state) /\ Told(state) /\ current \in LineTable /\ FileTyped(file)
      /\ RowsOK(file, w) /\ TablesOK(state, current, file.tables, w)
      /\ LinesOK(current, file.tables, w) /\ ModelOK(state, model, file, w)
  BY <1>2 DEF Inv, Told, StateTyped
<1>4. PICK g : g = [file EXCEPT !.tables = Flushed(file.tables, current)]
  OBVIOUS
<1>5. PICK ts \in Seq(LineTable) : ts = file.tables
  BY <1>3 DEF FileTyped
<1>6. /\ FileTyped(g) /\ g.segments = file.segments /\ g.modules = file.modules
      /\ g.publics = file.publics /\ g.tables = Flushed(ts, current)
  <2>1. Flushed(ts, current) \in Seq(LineTable)
    BY <1>3, FlushedIs
  <2> QED BY <1>3, <1>4, <1>5, <2>1 DEF FileTyped
<1>7. FileOK(w, "EndOfFile")
  <2>1. "EndOfFile" \notin Sections
    BY DEF Sections
  <2> QED BY <1>1, <1>3, <2>1 DEF FileOK
<1>8. RowsOK(g, w)
  BY <1>3, <1>6 DEF RowsOK
<1>9. TablesOK("EndOfFile", NoTable, g.tables, w)
  BY <1>3, <1>5, <1>6, TablesEnd
<1>10. LinesOK(NoTable, g.tables, w)
  <2>1. NoTable.lines = <<>>
    BY DEF NoTable
  <2> QED BY <1>3, <1>5, <1>6, <2>1, LinesOKFlush
<1>11. ModelOK("EndOfFile", model, g, w)
  BY <1>1, <1>3, ModelEmpty
<1>12. PICK v : v = written'
  OBVIOUS
<1>13. v = w /\ file' = g
  BY <1>1, <1>2, <1>4, <1>12
<1> QED BY <1>1, <1>6, <1>7, <1>8, <1>9, <1>10, <1>11, <1>12, <1>13, NoTableTyped
        DEF Inv, StateTyped

\* Populate keeps Inv.
LEMMA PopulateSafe == ASSUME Inv, Populate PROVE Inv'
PROOF
<1>1. /\ state = "EndOfFile" /\ state' = "Done" /\ current' = current /\ file' = file
      /\ model' = Populated /\ written' = written
  BY DEF Populate
<1>2. /\ FileOK(written, state) /\ current \in LineTable /\ FileTyped(file)
      /\ RowsOK(file, written) /\ TablesOK(state, current, file.tables, written)
      /\ LinesOK(current, file.tables, written)
  BY DEF Inv
<1>3. current = NoTable /\ \A t \in Range(file.tables) : t.lines # <<>> /\ t.module # <<>>
  BY <1>1, <1>2 DEF TablesOK
<1>4. Filed(Populated, file, written)
  <2>1. FilesKnown(Populated)
    BY <1>2, FilesKnownSafe
  <2>2. \A i \in DOMAIN file.publics : FiledOnce(Populated, file.publics[i].name, i)
    BY <1>2, <1>3, FiledOnceSafe
  <2>3. ASSUME NEW t \in TableHeaders PROVE LinesKept(Populated, written, t.module)
    <3>1. t.module \in ModulesNamed
      BY DEF ModulesNamed
    <3> QED BY <1>2, <1>3, <3>1, LinesKeptSafe
  <2> QED BY <2>1, <2>2, <2>3 DEF Filed
<1>5. PICK mod : mod = Populated
  OBVIOUS
<1>6. ModelOK("Done", mod, file, written)
  BY <1>4, <1>5 DEF ModelOK
<1>7. FileOK(written, "Done")
  <2>1. "Done" \notin Sections
    BY DEF Sections
  <2> QED BY <1>1, <1>2, <2>1 DEF FileOK
<1>8. TablesOK("Done", current, file.tables, written)
  BY <1>1, <1>2 DEF TablesOK
<1> QED BY <1>1, <1>2, <1>5, <1>6, <1>7, <1>8 DEF Inv, StateTyped

\* Inv is an invariant.
LEMMA InvSafe == Spec => []Inv
PROOF
<1>1. Init => Inv
  BY InitSafe
<1>2. ASSUME Inv, [Next]_vars PROVE Inv'
  <2>1. CASE Next
    BY <1>2, <2>1, StartSectionSafe, StartTableSafe, StartEntryPointSafe, SegmentRowSafe,
       ModuleRowSafe, PublicRowSafe, LineRowSafe, EndOfFileSafe, PopulateSafe DEF Next
  <2>2. CASE UNCHANGED vars
    <3>1. /\ state' = state /\ current' = current /\ file' = file /\ model' = model
          /\ written' = written
      BY <2>2 DEF vars
    <3> QED BY <1>2, <3>1 DEF Inv, StateTyped
  <2> QED BY <1>2, <2>1, <2>2
<1> QED BY <1>1, <1>2, PTL DEF Spec

-----------------------------------------------------------------------------
(* The properties.                                                         *)

\* The reader stays in the sections it knows, keeps well-formed records, and no
\* line of the model names a source file that is not there.
THEOREM TypeCorrect == Spec => []TypeOK
PROOF
<1>1. Inv => TypeOK
  <2>1. ASSUME Inv PROVE FilesKnown(model)
    <3>1. CASE state = "Done"
      BY <2>1, <3>1 DEF Inv, ModelOK, Filed
    <3>2. CASE state # "Done"
      <4>1. model.units = <<>>
        BY <2>1, <3>2 DEF Inv, ModelOK
      <4>2. Range(model.units) = {}
        BY <4>1 DEF Range
      <4> QED BY <4>2 DEF FilesKnown
    <3> QED BY <3>1, <3>2
  <2> QED BY <2>1 DEF Inv, TypeOK, StateTyped, FileTyped, FilesKnown
<1> QED BY <1>1, InvSafe, PTL

\* At every point of the file the records are those the linker wrote, whatever
\* sections follow, repeat or are empty (Reader::parse, flushLineTable).
THEOREM RecordsAsWrittenSafe == Spec => []RecordsAsWritten
PROOF
<1>1. Inv => RecordsAsWritten
  <2>1. SUFFICES ASSUME Inv PROVE RecordsAsWritten
    OBVIOUS
  <2>2. PICK ts \in Seq(LineTable) : ts = file.tables
    BY <2>1 DEF Inv, FileTyped
  <2>3. ts \o Unflushed(current) = TablesUnder(written, Inhabited(written))
    BY <2>1, <2>2, TablesRead DEF Inv, StateTyped, Told
  <2> QED BY <2>1, <2>2, <2>3 DEF Inv, RowsOK, RecordsAsWritten, Unflushed
<1> QED BY <1>1, InvSafe, PTL

\* Each public is filed at most once, under the longest module name that begins
\* its own, and dropped only when internal or nobody's (populate's bucketing).
THEOREM PublicsInTheirUnitSafe == Spec => []PublicsInTheirUnit
PROOF
<1>1. Inv => PublicsInTheirUnit
  BY DEF Inv, ModelOK, Filed, PublicsInTheirUnit
<1> QED BY <1>1, InvSafe, PTL

\* A module's lines are all in its one unit, as often as the linker wrote them,
\* in whatever number of tables (populate's merging of line tables).
THEOREM LinesInTheirUnitSafe == Spec => []LinesInTheirUnit
PROOF
<1>1. Inv => LinesInTheirUnit
  BY DEF Inv, ModelOK, Filed, LinesInTheirUnit
<1> QED BY <1>1, InvSafe, PTL
================================================================================
