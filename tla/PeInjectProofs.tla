---------------------------- MODULE PeInjectProofs ----------------------------
(***************************************************************************)
(* Proofs about PeInject, for every image a linker may make, any alignments, *)
(* any DWARF sections and any number of injections.                          *)
(***************************************************************************)
EXTENDS PeInject, DataLemmas

USE LayoutAssumption

-----------------------------------------------------------------------------
(* Rounding.                                                               *)

\* Rounding up gives the next multiple.
LEMMA RoundUpType ==
    ASSUME NEW v \in Nat, NEW k \in Nat \ {0}
    PROVE  /\ RoundUp(v, k) \in Nat
           /\ v <= RoundUp(v, k) /\ RoundUp(v, k) < v + k
           /\ RoundUp(v, k) % k = 0
PROOF
<1> DEFINE w == v + (k - 1)
<1>1. w \in Nat
  OBVIOUS
<1>2. w = k * (w \div k) + (w % k) /\ w \div k \in Nat /\ w % k \in 0..(k - 1)
  BY <1>1, Division
<1>3. RoundUp(v, k) = w - (w % k)
  BY DEF RoundUp
<1>4. v <= w - (w % k) /\ w - (w % k) < v + k
  BY <1>2
<1> HIDE DEF w
<1>5. w - (w % k) = k * (w \div k)
  BY <1>1, <1>2
<1>6. w \div k \in Nat
  BY <1>2
<1>7. k * (w \div k) \in Nat
  BY <1>6
<1>8. (k * (w \div k)) % k = 0
  BY <1>6, Multiple
<1> QED BY <1>3, <1>4, <1>5, <1>7, <1>8

\* Rounding up from a multiple adds the rounded size: the two ways in which the
\* injector computes where a section's data ends agree.
LEMMA RoundUpAligned ==
    ASSUME NEW v \in Nat, NEW k \in Nat \ {0}, NEW a \in Nat, a % k = 0
    PROVE  RoundUp(a + v, k) = a + RoundUp(v, k)
PROOF
<1>1. PICK p \in Nat : a = k * p
  BY Quotient
<1> DEFINE x == RoundUp(v, k)
           y == RoundUp(a + v, k)
<1>3. /\ x \in Nat /\ v <= x /\ x < v + k /\ x % k = 0
      /\ y \in Nat /\ a + v <= y /\ y < a + v + k /\ y % k = 0
  <2>1. a + v \in Nat
    OBVIOUS
  <2> QED BY <2>1, RoundUpType
<1> HIDE DEF x, y
<1>2. PICK q \in Nat : x = k * q
  BY <1>3, Quotient
<1>4. PICK r \in Nat : y = k * r
  BY <1>3, Quotient
<1>5. v <= k * q /\ k * q < v + k /\ a + v <= k * r /\ k * r < a + v + k
  BY <1>2, <1>3, <1>4
<1>6. k * r < k * p + k * q + k /\ k * p + k * q < k * r + k
  BY <1>1, <1>5
<1>7. r < p + q + 1 /\ p + q < r + 1
  BY <1>6
<1>8. k * r = k * p + k * q
  BY <1>7
<1>9. y = a + x
  BY <1>1, <1>2, <1>4, <1>8
<1> QED BY <1>9 DEF x, y

\* The larger of two is one of them.
LEMMA LargerType ==
    ASSUME NEW a \in Nat, NEW b \in Nat
    PROVE  Larger(a, b) \in Nat /\ a <= Larger(a, b) /\ b <= Larger(a, b)
PROOF BY DEF Larger

-----------------------------------------------------------------------------
(* The ends of what an image has.                                          *)

\* Every function on 1..n into the naturals has a bound.
LEMMA Bounded ==
    ASSUME NEW n \in Nat, NEW f \in [1..n -> Nat]
    PROVE  \E b \in Nat : \A i \in 1..n : f[i] <= b
PROOF
<1> DEFINE T == {k \in Nat : \E b \in Nat : \A i \in 1..n : i <= k => f[i] <= b}
<1>1. 0 \in T
  OBVIOUS
<1>2. ASSUME NEW k \in T PROVE k + 1 \in T
  <2>1. PICK b \in Nat : \A i \in 1..n : i <= k => f[i] <= b
    OBVIOUS
  <2> DEFINE c == IF k + 1 \in 1..n THEN b + f[k + 1] ELSE b
  <2>2. k + 1 \in Nat /\ c \in Nat
    OBVIOUS
  <2>3. ASSUME NEW i \in 1..n, i <= k + 1 PROVE f[i] <= c
    <3>1. CASE i = k + 1
      BY <3>1
    <3>2. CASE i # k + 1
      <4>1. f[i] <= b /\ f[i] \in Nat
        BY <2>1, <2>3, <3>2
      <4> QED BY <4>1
    <3> QED BY <3>1, <3>2
  <2>4. \E d \in Nat : \A i \in 1..n : i <= k + 1 => f[i] <= d
    <3> HIDE DEF c
    <3> QED BY <2>2, <2>3
  <2> QED BY <2>2, <2>4
<1>3. T = Nat
  <2> HIDE DEF T
  <2>1. T \in SUBSET Nat
    BY DEF T
  <2> QED BY <1>1, <1>2, <2>1, Induction
<1>4. n \in T
  <2> HIDE DEF T
  <2> QED BY <1>3
<1> QED BY <1>4

\* The greatest of the values of a function on 1..n, of 0 and of some number c.
LEMMA MaxOfValues ==
    ASSUME NEW n \in Nat, NEW f \in [1..n -> Nat], NEW C \in SUBSET Nat,
           NEW c \in Nat, C \subseteq {c},
           NEW S, S = {0} \cup {f[i] : i \in 1..n} \cup C
    PROVE  Max(S) \in Nat /\ \A x \in S : x <= Max(S)
PROOF
<1>1. PICK b \in Nat : \A i \in 1..n : f[i] <= b
  BY Bounded
<1>2. b + c \in Nat /\ S # {}
  OBVIOUS
<1>3. ASSUME NEW x \in S PROVE x \in Nat /\ x <= b + c
  <2>1. CASE x = 0
    BY <2>1
  <2>2. CASE x \in {f[i] : i \in 1..n}
    BY <1>1, <2>2
  <2>3. CASE x \in C
    BY <2>3
  <2> QED BY <2>1, <2>2, <2>3
<1>4. S \in SUBSET Nat /\ \A x \in S : x <= b + c
  BY <1>3
<1>5. Max(S) \in S /\ \A x \in S : x <= Max(S)
  BY <1>2, <1>4, MaxIsGreatest
<1> QED BY <1>4, <1>5

\* The fields of a section.
LEMMA SectionType ==
    ASSUME NEW n \in Nat, NEW img \in Images(n), NEW i \in DOMAIN img.sections
    PROVE  /\ img.sections[i] \in Sections(n)
           /\ img.sections[i].va \in Nat /\ img.sections[i].vsize \in Nat
           /\ img.sections[i].ptr \in Nat /\ img.sections[i].at \in Nat
           /\ img.sections[i].raw \in Nat
           /\ img.sections[i].name.off \in Nat /\ img.sections[i].by \in 0..n
PROOF
<1>1. img.sections \in Seq(Sections(n))
  BY DEF Images
<1>2. img.sections[i] \in Sections(n)
  BY <1>1
<1> QED BY <1>2 DEF Sections

\* The fields of an image.
LEMMA ImageType ==
    ASSUME NEW n \in Nat, NEW img \in Images(n)
    PROVE  /\ img.sections \in Seq(Sections(n)) /\ img.strings \in Seq(Names)
           /\ Len(img.sections) \in Nat /\ Len(img.strings) \in Nat
           /\ DOMAIN img.sections = 1..Len(img.sections)
           /\ img.sizeOfHeaders \in Nat /\ img.symbolTable \in Nat /\ img.symbols \in Nat
           /\ img.overlay \in Nat /\ img.tail \in Nat
           /\ img.size \in Nat /\ img.sizeOfImage \in Nat
           /\ TableEnd(img) \in Nat /\ SymbolTableEnd(img) \in Nat
           /\ StringTableSize(img) \in Nat
PROOF
<1>1. /\ img.sections \in Seq(Sections(n)) /\ img.strings \in Seq(Names)
      /\ img.sizeOfHeaders \in Nat /\ img.symbolTable \in Nat /\ img.symbols \in Nat
      /\ img.overlay \in Nat /\ img.tail \in Nat
      /\ img.size \in Nat /\ img.sizeOfImage \in Nat
  BY DEF Images
<1>2. /\ Len(img.sections) \in Nat /\ Len(img.strings) \in Nat
      /\ DOMAIN img.sections = 1..Len(img.sections)
  BY <1>1
<1>3. TableEnd(img) \in Nat
  BY <1>2 DEF TableEnd
<1>4. StringTableSize(img) \in Nat
  BY <1>2 DEF StringTableSize
<1>5. SymbolTableEnd(img) \in Nat
  BY <1>1, <1>4 DEF SymbolTableEnd
<1> QED BY <1>1, <1>2, <1>3, <1>4, <1>5

\* The next free address is aligned and past every section.
LEMMA NextVaFree ==
    ASSUME NEW n \in Nat, NEW img \in Images(n)
    PROVE  /\ NextVa(img) \in Nat /\ NextVa(img) % SectAlign = 0
           /\ \A i \in DOMAIN img.sections :
                img.sections[i].va + img.sections[i].vsize <= NextVa(img)
PROOF
<1> DEFINE m == Len(img.sections)
           f == [i \in 1..m |-> VirtualEnd(img.sections[i])]
           S == {0} \cup {VirtualEnd(s) : s \in Range(img.sections)}
<1>1. m \in Nat /\ DOMAIN img.sections = 1..m
  BY ImageType
<1>2. \A i \in 1..m : /\ VirtualEnd(img.sections[i]) \in Nat
                      /\ img.sections[i].va + img.sections[i].vsize <= VirtualEnd(img.sections[i])
  <2> SUFFICES ASSUME NEW i \in 1..m
               PROVE  LET s == img.sections[i]
                      IN  VirtualEnd(s) \in Nat /\ s.va + s.vsize <= VirtualEnd(s)
    OBVIOUS
  <2>1. /\ img.sections[i].va \in Nat /\ img.sections[i].vsize \in Nat
        /\ img.sections[i].raw \in Nat
    BY <1>1, SectionType
  <2>2. /\ Larger(img.sections[i].vsize, img.sections[i].raw) \in Nat
        /\ img.sections[i].vsize <= Larger(img.sections[i].vsize, img.sections[i].raw)
    BY <2>1, LargerType
  <2> QED BY <2>1, <2>2 DEF VirtualEnd
<1>3. S = {0} \cup {f[i] : i \in 1..m} \cup {}
  BY <1>1 DEF Range
<1>4. Max(S) \in Nat /\ \A x \in S : x <= Max(S)
  <2>1. f \in [1..m -> Nat]
    BY <1>2
  <2> HIDE DEF f, S, m
  <2> QED BY <1>1, <1>3, <2>1, MaxOfValues
<1>5. \A i \in 1..m : VirtualEnd(img.sections[i]) \in S
  BY <1>1 DEF Range
<1>6. NextVa(img) = RoundUp(Max(S), SectAlign)
  BY DEF NextVa
<1> HIDE DEF f, S
<1>7. /\ NextVa(img) \in Nat /\ Max(S) <= NextVa(img)
      /\ NextVa(img) % SectAlign = 0
  BY <1>4, <1>6, RoundUpType
<1>8. ASSUME NEW i \in 1..m
      PROVE  img.sections[i].va + img.sections[i].vsize <= NextVa(img)
  <2>1. img.sections[i].va \in Nat /\ img.sections[i].vsize \in Nat
    BY <1>1, SectionType
  <2> DEFINE a == img.sections[i].va + img.sections[i].vsize
             b == VirtualEnd(img.sections[i])
             c == Max(S)
             d == NextVa(img)
  <2>2. a \in Nat
    BY <2>1
  <2>3. a <= b /\ b \in Nat
    BY <1>2
  <2>4. b <= c
    BY <1>4, <1>5
  <2>5. c <= d /\ c \in Nat /\ d \in Nat
    BY <1>4, <1>7
  <2> HIDE DEF a, b, c, d
  <2>6. a <= d
    BY <2>2, <2>3, <2>4, <2>5
  <2> QED BY <2>6 DEF a, d
<1> QED BY <1>1, <1>7, <1>8

\* The next free offset is aligned and past every byte of the file, the body of
\* which has moved.
LEMMA NextFoFree ==
    ASSUME NEW n \in Nat, NEW img \in Images(n), NEW e \in Nat
    PROVE  /\ NextFo(img, e) \in Nat /\ NextFo(img, e) % FileAlign = 0
           /\ img.size + e <= NextFo(img, e)
PROOF
<1> DEFINE m == Len(img.sections)
           f == [i \in 1..m |-> img.sections[i].ptr + e + img.sections[i].raw]
           c == SymbolTableEnd(img) + e
           C == IF img.symbolTable = 0 THEN {} ELSE {c}
           S == {0} \cup {s.ptr + e + s.raw : s \in Range(img.sections)} \cup C
<1>1. m \in Nat /\ DOMAIN img.sections = 1..m /\ c \in Nat /\ img.size \in Nat
  BY ImageType
<1>2. f \in [1..m -> Nat]
  <2>1. ASSUME NEW i \in 1..m
        PROVE  img.sections[i].ptr + e + img.sections[i].raw \in Nat
    <3>1. i \in DOMAIN img.sections
      BY <1>1
    <3> DEFINE p == img.sections[i].ptr
               r == img.sections[i].raw
    <3>2. p \in Nat /\ r \in Nat
      BY <3>1, SectionType
    <3> HIDE DEF p, r
    <3>3. p + e + r \in Nat
      BY <3>2
    <3> QED BY <3>3 DEF p, r
  <2> QED BY <2>1
<1>3. S = {0} \cup {f[i] : i \in 1..m} \cup C
  BY <1>1 DEF Range
<1>4. C \in SUBSET Nat /\ C \subseteq {c}
  BY <1>1
<1>5. RawEnds(img, e) = Max(S)
  BY DEF RawEnds
<1> HIDE DEF f, S, m, C, c
<1>6. Max(S) \in Nat
  <2>1. m \in Nat /\ c \in Nat
    BY <1>1
  <2> QED BY <2>1, <1>2, <1>3, <1>4, MaxOfValues
<1>7. /\ Larger(RawEnds(img, e), img.size + e) \in Nat
      /\ img.size + e <= Larger(RawEnds(img, e), img.size + e)
  <2>1. RawEnds(img, e) \in Nat /\ img.size + e \in Nat
    BY <1>1, <1>5, <1>6
  <2> QED BY <2>1, LargerType
<1> DEFINE x == Larger(RawEnds(img, e), img.size + e)
<1>8. NextFo(img, e) = RoundUp(x, FileAlign)
  BY DEF NextFo
<1> HIDE DEF x
<1>9. x \in Nat /\ img.size + e <= x
  BY <1>7 DEF x
<1>10. RoundUp(x, FileAlign) \in Nat /\ x <= RoundUp(x, FileAlign)
      /\ RoundUp(x, FileAlign) % FileAlign = 0
  BY <1>9, RoundUpType
<1> QED BY <1>1, <1>8, <1>9, <1>10

\* The headers have room for the new section headers, and what moves stays aligned.
LEMMA ExpansionFits ==
    ASSUME NEW n \in Nat, NEW img \in Images(n), NEW k \in Nat,
           TableEnd(img) <= img.sizeOfHeaders
    PROVE  /\ Expansion(img, k) \in Nat /\ Expansion(img, k) % FileAlign = 0
           /\ TableEnd(img) + k <= img.sizeOfHeaders + Expansion(img, k)
PROOF
<1> DEFINE free == img.sizeOfHeaders - TableEnd(img)
<1>0. img.sizeOfHeaders \in Nat /\ TableEnd(img) \in Nat
  BY ImageType
<1>1. free \in Nat /\ img.sizeOfHeaders = TableEnd(img) + free
  BY <1>0
<1>2. CASE k > free
  <2>1. k - free \in Nat
    BY <1>1, <1>2
  <2>2. /\ RoundUp(k - free, FileAlign) \in Nat
        /\ RoundUp(k - free, FileAlign) % FileAlign = 0
        /\ k - free <= RoundUp(k - free, FileAlign)
    BY <2>1, RoundUpType
  <2>3. Expansion(img, k) = RoundUp(k - free, FileAlign)
    BY <1>2 DEF Expansion
  <2> HIDE DEF free
  <2> QED BY <1>0, <1>1, <2>2, <2>3
<1>3. CASE ~(k > free)
  <2>1. Expansion(img, k) = 0
    BY <1>3 DEF Expansion
  <2>2. 0 % FileAlign = 0
    BY Multiple
  <2> HIDE DEF free
  <2> QED BY <1>0, <1>1, <1>3, <2>1, <2>2
<1> QED BY <1>2, <1>3

-----------------------------------------------------------------------------
(* Where the new sections go.                                              *)

\* What the injectors add: the name and the size of each new section.
NewHeaders ==
    Seq([name : [short : Names \cup {""}, off : Nat], size : Nat \ {0}])

\* An element of a sequence.
LEMMA ElementType ==
    ASSUME NEW S, NEW s \in Seq(S), NEW i \in 1..Len(s)
    PROVE  s[i] \in S
PROOF OBVIOUS

\* The fields of a section to be added.
LEMMA NewHeaderType ==
    ASSUME NEW new \in NewHeaders, NEW i \in 1..Len(new)
    PROVE  /\ new[i].name \in [short : Names \cup {""}, off : Nat]
           /\ new[i].size \in Nat /\ new[i].size # 0
PROOF
<1> DEFINE N == [short : Names \cup {""}, off : Nat]
           H == [name : N, size : Nat \ {0}]
<1>1. new \in Seq(H)
  BY DEF NewHeaders
<1>2. new[i] \in H
  <2> HIDE DEF H
  <2> QED BY <1>1, ElementType
<1> HIDE DEF N
<1>3. new[i].name \in N /\ new[i].size \in Nat \ {0}
  BY <1>2
<1> QED BY <1>3 DEF N

\* Addresses or offsets f that follow one another, each rounded up from the end
\* of what is before it.
Consecutive(f, size, n, start, k) ==
    /\ f \in [1..n -> Nat] /\ size \in [1..n -> Nat] /\ n \in Nat
    /\ k \in Nat \ {0} /\ start \in Nat /\ start % k = 0
    /\ \A i \in 1..n :
         f[i] = IF i = 1 THEN start ELSE RoundUp(f[i - 1] + size[i - 1], k)

\* All are aligned, and none lies in another's room.
Placed(f, size, n, start, k) ==
    \A i \in 1..n :
       /\ start <= f[i] /\ f[i] % k = 0
       /\ \A j \in 1..n : i < j => f[i] + RoundUp(size[i], k) <= f[j]

\* Values that follow one another by rounded sizes are aligned and do not overlap.
LEMMA Placement ==
    ASSUME NEW f, NEW size, NEW n, NEW start, NEW k, Consecutive(f, size, n, start, k)
    PROVE  Placed(f, size, n, start, k)
PROOF
<1>0. /\ f \in [1..n -> Nat] /\ size \in [1..n -> Nat] /\ n \in Nat
      /\ k \in Nat \ {0} /\ start \in Nat /\ start % k = 0
  BY DEF Consecutive
<1> USE <1>0
<1> DEFINE Good == {i \in Nat : start <= f[i] /\ f[i] % k = 0}
<1>1. 1 <= n => 1 \in Good
  BY DEF Consecutive
<1>2. ASSUME NEW i \in 1..n, i \in Good, i + 1 <= n PROVE i + 1 \in Good
  <2>1. i + 1 \in 1..n /\ (i + 1) - 1 = i /\ i + 1 # 1
    BY <1>2
  <2>2. f[i + 1] = RoundUp(f[i] + size[i], k)
    BY <2>1 DEF Consecutive
  <2>3. f[i] + size[i] \in Nat
    OBVIOUS
  <2>4. /\ f[i] + size[i] <= RoundUp(f[i] + size[i], k)
        /\ RoundUp(f[i] + size[i], k) % k = 0
    BY <2>3, RoundUpType
  <2>5. start <= f[i] /\ f[i] \in Nat /\ size[i] \in Nat /\ f[i + 1] \in Nat
    BY <1>2, <2>1
  <2> QED BY <2>1, <2>2, <2>4, <2>5
<1>3. 1..n \subseteq Good
  <2> HIDE DEF Good
  <2> QED BY <1>1, <1>2, IntervalInduction
<1>4. ASSUME NEW i \in 1..n, i + 1 <= n PROVE f[i + 1] = f[i] + RoundUp(size[i], k)
  <2>1. i + 1 \in 1..n /\ (i + 1) - 1 = i /\ i + 1 # 1
    BY <1>4
  <2>2. f[i + 1] = RoundUp(f[i] + size[i], k)
    BY <2>1 DEF Consecutive
  <2>3. f[i] % k = 0
    BY <1>3
  <2> QED BY <2>2, <2>3, RoundUpAligned
<1>5. ASSUME NEW i \in 1..n PROVE \A j \in 1..n : i < j => f[i] + RoundUp(size[i], k) <= f[j]
  <2> DEFINE Past == {j \in Nat : f[i] + RoundUp(size[i], k) <= f[j]}
  <2>1. i + 1 \in Nat /\ (i + 1 <= n => i + 1 \in Past)
    <3>1. i + 1 <= n => f[i + 1] = f[i] + RoundUp(size[i], k)
      BY <1>4
    <3>2. i + 1 <= n => f[i + 1] \in Nat
      OBVIOUS
    <3>3. i + 1 <= n => f[i] + RoundUp(size[i], k) <= f[i + 1]
      BY <3>1, <3>2
    <3> QED BY <3>3
  <2>2. ASSUME NEW j \in (i + 1)..n, j \in Past, j + 1 <= n PROVE j + 1 \in Past
    <3>1. j \in 1..n /\ j + 1 \in 1..n
      BY <2>2
    <3>2. f[j + 1] = f[j] + RoundUp(size[j], k)
      BY <1>4, <2>2, <3>1
    <3> DEFINE a == f[i] + RoundUp(size[i], k)
               b == f[j]
               x == RoundUp(size[j], k)
    <3>3. RoundUp(size[i], k) \in Nat /\ x \in Nat
      BY <3>1, RoundUpType
    <3>4. a \in Nat /\ b \in Nat
      BY <3>1, <3>3
    <3>5. a <= b /\ f[j + 1] = b + x
      BY <2>2, <3>2
    <3> HIDE DEF a, b, x
    <3>6. a <= f[j + 1]
      BY <3>3, <3>4, <3>5
    <3>7. j + 1 \in Nat
      BY <3>1
    <3> QED BY <3>6, <3>7 DEF a
  <2>3. (i + 1)..n \subseteq Past
    <3> HIDE DEF Past
    <3> QED BY <2>1, <2>2, IntervalInduction
  <2>4. ASSUME NEW j \in 1..n, i < j PROVE f[i] + RoundUp(size[i], k) <= f[j]
    <3>1. j \in (i + 1)..n
      BY <2>4
    <3> QED BY <2>3, <3>1
  <2> QED BY <2>4
<1> QED BY <1>3, <1>5 DEF Placed

\* Sums of rounded sizes.
Summed(f, size, n, start, k) ==
    /\ f \in [0..n -> Nat]
    /\ \A i \in 0..n :
         f[i] = IF i = 0 THEN start ELSE f[i - 1] + RoundUp(size[i], k)

\* The sum of the rounded sizes from the start is where the last one ends.
LEMMA EndOfPlacement ==
    ASSUME NEW f, NEW size, NEW n, NEW start, NEW k,
           Consecutive(f, size, n, start, k), n # 0,
           NEW end, Summed(end, size, n, start, k)
    PROVE  \A i \in 1..n : f[i] + RoundUp(size[i], k) <= end[n]
PROOF
<1>0. \A i \in 1..n :
         /\ start <= f[i] /\ f[i] % k = 0
         /\ \A j \in 1..n : i < j => f[i] + RoundUp(size[i], k) <= f[j]
  BY Placement DEF Placed
<1>s. /\ end \in [0..n -> Nat]
      /\ \A i \in 0..n :
           end[i] = IF i = 0 THEN start ELSE end[i - 1] + RoundUp(size[i], k)
  BY DEF Summed
<1>u. /\ f \in [1..n -> Nat] /\ size \in [1..n -> Nat] /\ n \in Nat
      /\ k \in Nat \ {0} /\ start \in Nat /\ start % k = 0
  BY DEF Consecutive
<1> USE <1>u, <1>s
<1> DEFINE Same == {i \in Nat : end[i] = f[i] + RoundUp(size[i], k)}
<1>1. 1 \in 0..n /\ 1 \in 1..n /\ 0 \in 0..n /\ n \in 1..n
  OBVIOUS
<1>2. 1 <= n => 1 \in Same
  BY <1>1 DEF Consecutive
<1>3. ASSUME NEW i \in 1..n, i \in Same, i + 1 <= n PROVE i + 1 \in Same
  <2>1. i \in Nat /\ i + 1 \in Nat /\ i + 1 \in 1..n /\ i + 1 \in 0..n
    BY <1>3
  <2>0. (i + 1) - 1 = i /\ i + 1 # 1 /\ i + 1 # 0
    OBVIOUS
  <2>2. f[i + 1] = RoundUp(f[i] + size[i], k)
    BY <2>0, <2>1 DEF Consecutive
  <2>3. end[i + 1] = end[i] + RoundUp(size[i + 1], k)
    BY <2>0, <2>1
  <2>4. RoundUp(f[i] + size[i], k) = f[i] + RoundUp(size[i], k)
    <3>1. f[i] % k = 0
      BY <1>0
    <3>2. f[i] \in Nat /\ size[i] \in Nat
      OBVIOUS
    <3> QED BY <3>1, <3>2, RoundUpAligned
  <2> QED BY <1>3, <2>1, <2>2, <2>3, <2>4
<1>4. n \in Same
  <2> HIDE DEF Same
  <2>1. 1..n \subseteq Same
    BY <1>2, <1>3, IntervalInduction
  <2> QED BY <1>1, <2>1
<1>5. end[n] = f[n] + RoundUp(size[n], k) /\ RoundUp(size[n], k) \in Nat
  BY <1>1, <1>4, RoundUpType
<1>6. ASSUME NEW i \in 1..n PROVE f[i] + RoundUp(size[i], k) <= end[n]
  <2> DEFINE a == f[i] + RoundUp(size[i], k)
             b == f[n]
             r == RoundUp(size[n], k)
  <2>0. a \in Nat /\ b \in Nat /\ r \in Nat /\ end[n] = b + r
    <3>1. size[i] \in Nat /\ f[i] \in Nat
      OBVIOUS
    <3>2. RoundUp(size[i], k) \in Nat
      BY <3>1, RoundUpType
    <3>3. f[n] \in Nat
      BY <1>1
    <3>4. a \in Nat
      BY <3>1, <3>2
    <3> HIDE DEF a
    <3> QED BY <1>5, <3>3, <3>4
  <2>1. CASE i = n
    <3>1. a = b + r
      BY <2>1
    <3> HIDE DEF a, b, r
    <3>2. a <= end[n]
      BY <2>0, <3>1
    <3> QED BY <3>2 DEF a
  <2>2. CASE i # n
    <3>3. a <= b
      <4>1. i < n
        BY <2>2
      <4> QED BY <1>0, <1>1, <4>1
    <3> HIDE DEF a, b, r
    <3>4. a <= end[n]
      BY <2>0, <3>3
    <3> QED BY <3>4 DEF a
  <2> QED BY <2>1, <2>2
<1> QED BY <1>6

\* The sizes, as a function of their own.
Sizes(new) == [i \in 1..Len(new) |-> new[i].size]

\* The sizes of the sections to be added.
LEMMA SizesType ==
    ASSUME NEW new \in NewHeaders
    PROVE  Len(new) \in Nat /\ Sizes(new) \in [1..Len(new) -> Nat]
PROOF
<1>1. Len(new) \in Nat
  <2> DEFINE H == [name : [short : Names \cup {""}, off : Nat], size : Nat \ {0}]
  <2>1. new \in Seq(H)
    BY DEF NewHeaders
  <2> HIDE DEF H
  <2> QED BY <2>1
<1>2. \A i \in 1..Len(new) : new[i].size \in Nat
  BY NewHeaderType
<1> QED BY <1>1, <1>2 DEF Sizes

\* The recursive functions of the injectors are the functions they define.
LEMMA Rounding ==
    ASSUME NEW n \in Nat, NEW size \in [1..n -> Nat], NEW k \in Nat \ {0},
           NEW start \in Nat, start % k = 0,
           NEW f, f = CHOOSE g : g = [i \in 1..n |-> IF i = 1 THEN start
                                        ELSE RoundUp(g[i - 1] + size[i - 1], k)]
    PROVE  Consecutive(f, size, n, start, k)
PROOF
<1> DEFINE step == [i \in Nat |-> [v \in Nat |->
                      IF i - 1 \in 1..n THEN RoundUp(v + size[i - 1], k) ELSE 0]]
<1>1. step \in [Nat -> [Nat -> Nat]]
  <2>1. ASSUME NEW i \in Nat, NEW v \in Nat, i - 1 \in 1..n
        PROVE  RoundUp(v + size[i - 1], k) \in Nat
    <3>1. v + size[i - 1] \in Nat
      BY <2>1
    <3> QED BY <3>1, RoundUpType
  <2> QED BY <2>1
<1>2. PICK g \in [1..n -> Nat] :
        g = [i \in 1..n |-> IF i = 1 THEN start ELSE step[i][g[i - 1]]]
  <2> HIDE DEF step
  <2>1. RecursionData(1, n, Nat, start, step)
    BY <1>1 DEF RecursionData
  <2>2. PICK g : RecursiveFunction(g, 1, n, Nat, start, step)
    BY <2>1, Recursion
  <2> QED BY <2>2 DEF RecursiveFunction
<1>3. ASSUME NEW i \in 1..n, i # 1
      PROVE  step[i][g[i - 1]] = RoundUp(g[i - 1] + size[i - 1], k)
  <2>1. i - 1 \in 1..n /\ i \in Nat
    BY <1>3
  <2>2. g[i - 1] \in Nat
    BY <2>1
  <2> QED BY <2>1, <2>2
<1>4. g = [i \in 1..n |-> IF i = 1 THEN start
                          ELSE RoundUp(g[i - 1] + size[i - 1], k)]
  <2> HIDE DEF step
  <2> QED BY <1>2, <1>3
<1>5. f = [i \in 1..n |-> IF i = 1 THEN start
                          ELSE RoundUp(f[i - 1] + size[i - 1], k)]
  <2> DEFINE Is(h) == h = [i \in 1..n |-> IF i = 1 THEN start
                               ELSE RoundUp(h[i - 1] + size[i - 1], k)]
  <2>1. Is(g) /\ f = CHOOSE h : Is(h)
    BY <1>4
  <2>2. Is(f)
    <3> HIDE DEF Is
    <3> QED BY <2>1
  <2> QED BY <2>2
<1>6. \A i \in 1..n : f[i] = IF i = 1 THEN start
                             ELSE RoundUp(f[i - 1] + size[i - 1], k)
  BY <1>5
<1>7. f \in [1..n -> Nat]
  <2> DEFINE T == {i \in Nat : f[i] \in Nat}
  <2>1. ASSUME 1 <= n PROVE 1 \in T
    <3>1. 1 \in 1..n
      BY <2>1
    <3>2. f[1] = start
      BY <1>6, <3>1
    <3> QED BY <3>2
  <2>2. ASSUME NEW i \in 1..n, i \in T, i + 1 <= n PROVE i + 1 \in T
    <3>1. i + 1 \in 1..n /\ i + 1 # 1 /\ (i + 1) - 1 = i
      BY <2>2
    <3>2. f[i + 1] = RoundUp(f[i] + size[i], k)
      BY <1>6, <3>1
    <3>3. f[i] + size[i] \in Nat
      BY <2>2
    <3>4. RoundUp(f[i] + size[i], k) \in Nat
      BY <3>3, RoundUpType
    <3> QED BY <3>1, <3>2, <3>4
  <2>3. 1..n \subseteq T
    <3> HIDE DEF T
    <3> QED BY <2>1, <2>2, IntervalInduction
  <2> QED BY <1>5, <2>3
<1> QED BY <1>6, <1>7 DEF Consecutive

\* The running values of the code's loop exist.
LEMMA Summing ==
    ASSUME NEW n \in Nat, NEW size \in [1..n -> Nat], NEW k \in Nat \ {0},
           NEW start \in Nat,
           NEW f, f = CHOOSE g : g = [i \in 0..n |-> IF i = 0 THEN start
                                        ELSE g[i - 1] + RoundUp(size[i], k)]
    PROVE  Summed(f, size, n, start, k)
PROOF
<1> DEFINE step == [i \in Nat |-> [v \in Nat |->
                      IF i \in 1..n THEN v + RoundUp(size[i], k) ELSE 0]]
<1>1. step \in [Nat -> [Nat -> Nat]]
  <2>1. ASSUME NEW i \in Nat, NEW v \in Nat, i \in 1..n
        PROVE  v + RoundUp(size[i], k) \in Nat
    <3>1. RoundUp(size[i], k) \in Nat
      BY <2>1, RoundUpType
    <3> QED BY <3>1
  <2> QED BY <2>1
<1>2. PICK g \in [0..n -> Nat] :
        g = [i \in 0..n |-> IF i = 0 THEN start ELSE step[i][g[i - 1]]]
  <2> HIDE DEF step
  <2>1. RecursionData(0, n, Nat, start, step)
    BY <1>1 DEF RecursionData
  <2>2. PICK g : RecursiveFunction(g, 0, n, Nat, start, step)
    BY <2>1, Recursion
  <2> QED BY <2>2 DEF RecursiveFunction
<1>3. ASSUME NEW i \in 0..n, i # 0
      PROVE  step[i][g[i - 1]] = g[i - 1] + RoundUp(size[i], k)
  <2>1. i - 1 \in 0..n /\ i \in Nat /\ i \in 1..n
    BY <1>3
  <2>2. g[i - 1] \in Nat
    BY <2>1
  <2> QED BY <2>1, <2>2
<1>4. g = [i \in 0..n |-> IF i = 0 THEN start ELSE g[i - 1] + RoundUp(size[i], k)]
  <2> HIDE DEF step
  <2> QED BY <1>2, <1>3
<1>5. f = [i \in 0..n |-> IF i = 0 THEN start ELSE f[i - 1] + RoundUp(size[i], k)]
  <2> DEFINE Is(h) == h = [i \in 0..n |-> IF i = 0 THEN start
                               ELSE h[i - 1] + RoundUp(size[i], k)]
  <2>1. Is(g) /\ f = CHOOSE h : Is(h)
    BY <1>4
  <2>2. Is(f)
    <3> HIDE DEF Is
    <3> QED BY <2>1
  <2> QED BY <2>2
<1>6. \A i \in 0..n :
         f[i] = IF i = 0 THEN start ELSE f[i - 1] + RoundUp(size[i], k)
  BY <1>5
<1>7. f \in [0..n -> Nat]
  <2> DEFINE T == {i \in Nat : f[i] \in Nat}
  <2>1. 0 <= n => 0 \in T
    BY <1>6
  <2>2. ASSUME NEW i \in 0..n, i \in T, i + 1 <= n PROVE i + 1 \in T
    <3>1. i + 1 \in 0..n /\ i + 1 \in 1..n /\ i + 1 # 0 /\ (i + 1) - 1 = i
      BY <2>2
    <3>2. f[i + 1] = f[i] + RoundUp(size[i + 1], k)
      BY <1>6, <3>1
    <3>3. RoundUp(size[i + 1], k) \in Nat /\ f[i] \in Nat
      BY <2>2, <3>1, RoundUpType
    <3>4. f[i] + RoundUp(size[i + 1], k) \in Nat
      BY <3>3
    <3> QED BY <3>1, <3>2, <3>4
  <2>3. 0..n \subseteq T
    <3> HIDE DEF T
    <3> QED BY <2>1, <2>2, IntervalInduction
  <2> QED BY <1>5, <2>3
<1> QED BY <1>6, <1>7 DEF Summed

\* The addresses of the new sections follow one another.
LEMMA NewVasRounded ==
    ASSUME NEW n \in Nat, NEW img \in Images(n), NEW new \in NewHeaders
    PROVE  Consecutive(NewVas(img, new), Sizes(new), Len(new), NextVa(img), SectAlign)
PROOF
<1>1. Len(new) \in Nat /\ Sizes(new) \in [1..Len(new) -> Nat]
  BY SizesType
<1>2. NextVa(img) \in Nat /\ NextVa(img) % SectAlign = 0
  BY NextVaFree
<1>3. \A g : [i \in 1..Len(new) |-> IF i = 1 THEN NextVa(img)
                ELSE RoundUp(g[i - 1] + Sizes(new)[i - 1], SectAlign)]
           = [i \in 1..Len(new) |-> IF i = 1 THEN NextVa(img)
                ELSE RoundUp(g[i - 1] + new[i - 1].size, SectAlign)]
  <2>1. \A i \in 1..Len(new) : i # 1 => Sizes(new)[i - 1] = new[i - 1].size
    BY <1>1 DEF Sizes
  <2> QED BY <2>1
<1>4. NewVas(img, new) =
        CHOOSE g : g = [i \in 1..Len(new) |-> IF i = 1 THEN NextVa(img)
                          ELSE RoundUp(g[i - 1] + Sizes(new)[i - 1], SectAlign)]
  BY <1>3 DEF NewVas
<1> QED BY <1>1, <1>2, <1>4, Rounding

\* The file offsets of the new sections follow one another.
LEMMA NewFosRounded ==
    ASSUME NEW n \in Nat, NEW img \in Images(n), NEW new \in NewHeaders, NEW e \in Nat
    PROVE  Consecutive(NewFos(img, e, new), Sizes(new), Len(new), NextFo(img, e), FileAlign)
PROOF
<1>1. Len(new) \in Nat /\ Sizes(new) \in [1..Len(new) -> Nat]
  BY SizesType
<1>2. NextFo(img, e) \in Nat /\ NextFo(img, e) % FileAlign = 0
  BY NextFoFree
<1>3. \A g : [i \in 1..Len(new) |-> IF i = 1 THEN NextFo(img, e)
                ELSE RoundUp(g[i - 1] + Sizes(new)[i - 1], FileAlign)]
           = [i \in 1..Len(new) |-> IF i = 1 THEN NextFo(img, e)
                ELSE RoundUp(g[i - 1] + new[i - 1].size, FileAlign)]
  <2>1. \A i \in 1..Len(new) : i # 1 => Sizes(new)[i - 1] = new[i - 1].size
    BY <1>1 DEF Sizes
  <2> QED BY <2>1
<1>4. NewFos(img, e, new) =
        CHOOSE g : g = [i \in 1..Len(new) |-> IF i = 1 THEN NextFo(img, e)
                          ELSE RoundUp(g[i - 1] + Sizes(new)[i - 1], FileAlign)]
  BY <1>3 DEF NewFos
<1> QED BY <1>1, <1>2, <1>4, Rounding

\* Where the injectors say the new data ends is past all of it.
LEMMA DataEndPast ==
    ASSUME NEW n \in Nat, NEW img \in Images(n), NEW new \in NewHeaders, new # <<>>,
           NEW e \in Nat
    PROVE  /\ DataEnd(img, e, new) \in Nat
           /\ \A i \in 1..Len(new) :
                NewFos(img, e, new)[i] + RoundUp(new[i].size, FileAlign)
                   <= DataEnd(img, e, new)
PROOF
<1>1. Len(new) \in Nat /\ Sizes(new) \in [1..Len(new) -> Nat]
  BY SizesType
<1>2. Len(new) # 0
  <2> DEFINE H == [name : [short : Names \cup {""}, off : Nat], size : Nat \ {0}]
  <2>1. new \in Seq(H)
    BY DEF NewHeaders
  <2> HIDE DEF H
  <2> QED BY <2>1
<1>3. NextFo(img, e) \in Nat
  BY NextFoFree
<1>4. \A i \in 1..Len(new) : Sizes(new)[i] = new[i].size
  BY DEF Sizes
<1> DEFINE end == CHOOSE g : g = [i \in 0..Len(new) |-> IF i = 0 THEN NextFo(img, e)
                                    ELSE g[i - 1] + RoundUp(Sizes(new)[i], FileAlign)]
<1>5. DataEnd(img, e, new) = end[Len(new)]
  <2>1. \A g : [i \in 0..Len(new) |-> IF i = 0 THEN NextFo(img, e)
                  ELSE g[i - 1] + RoundUp(Sizes(new)[i], FileAlign)]
             = [i \in 0..Len(new) |-> IF i = 0 THEN NextFo(img, e)
                  ELSE g[i - 1] + RoundUp(new[i].size, FileAlign)]
    <3>1. \A i \in 0..Len(new) : i # 0 => Sizes(new)[i] = new[i].size
      BY <1>1, <1>4
    <3> QED BY <3>1
  <2> QED BY <2>1 DEF DataEnd
<1>6. Summed(end, Sizes(new), Len(new), NextFo(img, e), FileAlign)
  <2>1. end = CHOOSE g : g = [i \in 0..Len(new) |-> IF i = 0 THEN NextFo(img, e)
                               ELSE g[i - 1] + RoundUp(Sizes(new)[i], FileAlign)]
    OBVIOUS
  <2> HIDE DEF end
  <2>2. FileAlign \in Nat \ {0}
    OBVIOUS
  <2> QED BY <1>1, <1>3, <2>1, <2>2, Summing
<1> HIDE DEF end
<1>7. \A i \in 1..Len(new) :
        NewFos(img, e, new)[i] + RoundUp(Sizes(new)[i], FileAlign) <= end[Len(new)]
  <2>1. Consecutive(NewFos(img, e, new), Sizes(new), Len(new), NextFo(img, e), FileAlign)
    BY NewFosRounded
  <2> QED BY <1>2, <1>6, <2>1, EndOfPlacement
<1>8. end[Len(new)] \in Nat
  BY <1>1, <1>6 DEF Summed
<1> QED BY <1>4, <1>5, <1>7, <1>8

\* The new section header j.
Added(new, by, va, fo, j) ==
    [name |-> new[j].name, by |-> by, va |-> va[j], vsize |-> new[j].size,
     ptr |-> fo[j], at |-> fo[j], raw |-> RoundUp(new[j].size, FileAlign)]

\* An image E that has been extended: what was there has moved by e, and the new
\* sections are at va and fo, with data up to `tables'.
IsExtended(E, img, new, names, by, e, va, fo, tables) ==
    LET m == Len(img.sections)
        k == Len(new)
    IN  /\ m \in Nat /\ k \in Nat \ {0} /\ e \in Nat /\ tables \in Nat
        /\ va \in [1..k -> Nat] /\ fo \in [1..k -> Nat]
        /\ e % FileAlign = 0 /\ TableEnd(img) + k <= img.sizeOfHeaders + e
        /\ E = [img EXCEPT
                  !.sections      = [i \in 1..m |-> Shifted(img.sections[i], e)] \o
                     [i \in 1..k |-> Added(new, by, va, fo, i)],
                  !.sizeOfHeaders = @ + e,
                  !.overlay       = @ + e,
                  !.symbolTable   = tables,
                  !.strings       = img.strings \o names,
                  !.size          = tables + img.symbols + 1 + Len(img.strings \o names),
                  !.sizeOfImage   = RoundUp(va[k] + new[k].size, SectAlign)]
        /\ \A i \in 1..m : \A j \in 1..k :
             img.sections[i].va + img.sections[i].vsize <= va[j]
        /\ \A i \in 1..k :
             /\ va[i] % SectAlign = 0 /\ fo[i] % FileAlign = 0
             /\ img.size + e <= fo[i]
             /\ fo[i] + RoundUp(new[i].size, FileAlign) <= tables
             /\ \A j \in 1..k : i < j =>
                  /\ va[i] + RoundUp(new[i].size, SectAlign) <= va[j]
                  /\ fo[i] + RoundUp(new[i].size, FileAlign) <= fo[j]

\* The values the code computes on the way to an extended image.
LEMMA ExtendedIs ==
    ASSUME NEW n \in Nat, NEW img \in Images(n), NEW new \in NewHeaders, new # <<>>,
           NEW names, NEW by, TableEnd(img) <= img.sizeOfHeaders
    PROVE  \E e, va, fo, tables :
             IsExtended(Extended(img, new, names, by), img, new, names, by,
                        e, va, fo, tables)
PROOF
<1> DEFINE m  == Len(img.sections)
           k  == Len(new)
           e  == Expansion(img, k)
           va == NewVas(img, new)
           fo == NewFos(img, e, new)
           tables == DataEnd(img, e, new)
<1>1. m \in Nat /\ DOMAIN img.sections = 1..m /\ img.size \in Nat
  BY ImageType
<1>2. k \in Nat /\ Sizes(new) \in [1..k -> Nat] /\ \A i \in 1..k : Sizes(new)[i] = new[i].size
  BY SizesType DEF Sizes
<1>3. k # 0
  <2> DEFINE H == [name : [short : Names \cup {""}, off : Nat], size : Nat \ {0}]
  <2>1. new \in Seq(H)
    BY DEF NewHeaders
  <2> HIDE DEF H
  <2> QED BY <2>1
<1>4. e \in Nat /\ e % FileAlign = 0 /\ TableEnd(img) + k <= img.sizeOfHeaders + e
  <2> HIDE DEF k
  <2> QED BY <1>2, ExpansionFits
<1>5. /\ NextVa(img) \in Nat
      /\ \A i \in 1..m : img.sections[i].va + img.sections[i].vsize <= NextVa(img)
  BY <1>1, NextVaFree
<1>6. NextFo(img, e) \in Nat /\ img.size + e <= NextFo(img, e)
  <2> HIDE DEF e
  <2> QED BY <1>4, NextFoFree
<1>7. /\ Consecutive(va, Sizes(new), k, NextVa(img), SectAlign)
      /\ Placed(va, Sizes(new), k, NextVa(img), SectAlign)
  BY NewVasRounded, Placement
<1>8. /\ Consecutive(fo, Sizes(new), k, NextFo(img, e), FileAlign)
      /\ Placed(fo, Sizes(new), k, NextFo(img, e), FileAlign)
  <2> HIDE DEF e
  <2> QED BY <1>4, NewFosRounded, Placement
<1>9. va \in [1..k -> Nat] /\ fo \in [1..k -> Nat]
  BY <1>7, <1>8 DEF Consecutive
<1>10. /\ tables \in Nat
       /\ \A i \in 1..k : fo[i] + RoundUp(new[i].size, FileAlign) <= tables
  <2> HIDE DEF e
  <2> QED BY <1>4, DataEndPast
<1>11. Extended(img, new, names, by) =
             [img EXCEPT
                !.sections      = [i \in 1..m |-> Shifted(img.sections[i], e)] \o
                   [i \in 1..k |-> Added(new, by, va, fo, i)],
                !.sizeOfHeaders = @ + e,
                !.overlay       = @ + e,
                !.symbolTable   = tables,
                !.strings       = img.strings \o names,
                !.size          = tables + img.symbols + 1 + Len(img.strings \o names),
                !.sizeOfImage   = RoundUp(va[k] + new[k].size, SectAlign)]
  <2>1. /\ NewSections(img, e, new, by) =
             [i \in 1..k |-> Added(new, by, va, fo, i)]
    BY DEF NewSections, Added
  <2> DEFINE added == NewSections(img, e, new, by)
  <2>2. Len(added) = k /\ added[k].va = va[k] /\ added[k].vsize = new[k].size
    <3>1. k \in 1..k
      BY <1>2, <1>3
    <3> QED BY <1>2, <2>1, <3>1 DEF Added
  <2> HIDE DEF e, va, fo, tables, added, m, k
  <2> QED BY <1>1, <2>1, <2>2 DEF Extended, e, tables, added, k
<1> HIDE DEF e, va, fo, tables, m, k
<1>12. ASSUME NEW i \in 1..m, NEW j \in 1..k
       PROVE  img.sections[i].va + img.sections[i].vsize <= va[j]
  <2>1. img.sections[i].va \in Nat /\ img.sections[i].vsize \in Nat
    BY <1>1, SectionType
  <2> DEFINE a == img.sections[i].va + img.sections[i].vsize
             b == NextVa(img)
             c == va[j]
  <2>2. b <= c /\ c \in Nat
    BY <1>7, <1>9 DEF Placed
  <2>3. a \in Nat
    <3>1. \A x, y \in Nat : x + y \in Nat
      OBVIOUS
    <3> QED BY <2>1, <3>1, Zenon
  <2>4. a <= b /\ b \in Nat
    BY <1>5
  <2> HIDE DEF a, b, c
  <2>5. a <= c
    BY <2>2, <2>3, <2>4
  <2> QED BY <2>5 DEF a, c
<1>13. ASSUME NEW i \in 1..k
       PROVE /\ va[i] % SectAlign = 0 /\ fo[i] % FileAlign = 0
             /\ img.size + e <= fo[i]
             /\ \A j \in 1..k : i < j =>
                  /\ va[i] + RoundUp(new[i].size, SectAlign) <= va[j]
                  /\ fo[i] + RoundUp(new[i].size, FileAlign) <= fo[j]
  <2>1. va[i] % SectAlign = 0 /\ fo[i] % FileAlign = 0
    BY <1>7, <1>8 DEF Placed
  <2>2. img.size + e <= fo[i]
    <3>1. NextFo(img, e) <= fo[i] /\ fo[i] \in Nat
      BY <1>8, <1>9 DEF Placed
    <3> QED BY <1>1, <1>4, <1>6, <3>1
  <2>3. ASSUME NEW j \in 1..k, i < j
        PROVE  /\ va[i] + RoundUp(new[i].size, SectAlign) <= va[j]
               /\ fo[i] + RoundUp(new[i].size, FileAlign) <= fo[j]
    <3>1. /\ va[i] + RoundUp(Sizes(new)[i], SectAlign) <= va[j]
          /\ fo[i] + RoundUp(Sizes(new)[i], FileAlign) <= fo[j]
      BY <1>7, <1>8, <2>3 DEF Placed
    <3> QED BY <1>2, <3>1
  <2> QED BY <2>1, <2>2, <2>3
<1>14. IsExtended(Extended(img, new, names, by), img, new, names, by, e, va, fo, tables)
  BY <1>1, <1>2, <1>3, <1>4, <1>9, <1>10, <1>11, <1>12, <1>13 DEF IsExtended, m, k
<1> QED BY <1>14

\* The concatenation of two sequences, given as functions.
LEMMA ConcatenationIs ==
    ASSUME NEW m \in Nat, NEW k \in Nat, NEW f, NEW g,
           f = [i \in 1..m |-> f[i]], g = [i \in 1..k |-> g[i]]
    PROVE  /\ Len(f \o g) = m + k /\ DOMAIN (f \o g) = 1..(m + k)
           /\ \A i \in 1..m : (f \o g)[i] = f[i]
           /\ \A j \in 1..k : (f \o g)[m + j] = g[j]
PROOF
<1> DEFINE S == {f[i] : i \in 1..m} \cup {g[i] : i \in 1..k}
<1>1. f \in [1..m -> S] /\ g \in [1..k -> S]
  OBVIOUS
<1> HIDE DEF S
<1>2. f \in Seq(S) /\ g \in Seq(S) /\ Len(f) = m /\ Len(g) = k
  BY <1>1
<1>3. f \o g \in Seq(S) /\ Len(f \o g) = m + k /\ DOMAIN (f \o g) = 1..(m + k)
  BY <1>2
<1>4. \A i \in 1..(m + k) : (f \o g)[i] = IF i <= m THEN f[i] ELSE g[i - m]
  BY <1>2
<1>5. ASSUME NEW j \in 1..k PROVE (f \o g)[m + j] = g[j]
  <2>1. m + j \in 1..(m + k) /\ ~(m + j <= m) /\ (m + j) - m = j
    OBVIOUS
  <2> QED BY <1>4, <2>1
<1>6. ASSUME NEW i \in 1..m PROVE (f \o g)[i] = f[i]
  <2>1. i \in 1..(m + k)
    OBVIOUS
  <2> QED BY <1>4, <2>1
<1> QED BY <1>3, <1>5, <1>6

\* A section of an extended image, and its fields.
LEMMA ExtendedSections ==
    ASSUME NEW n \in Nat, NEW img \in Images(n), NEW new \in NewHeaders,
           NEW names, NEW by, NEW E, NEW e, NEW va, NEW fo, NEW tables,
           IsExtended(E, img, new, names, by, e, va, fo, tables)
    PROVE  /\ Len(img.sections) \in Nat /\ Len(new) \in Nat
           /\ Len(E.sections) = Len(img.sections) + Len(new)
           /\ DOMAIN E.sections = 1..(Len(img.sections) + Len(new))
           /\ \A i \in 1..Len(img.sections) :
                E.sections[i] = Shifted(img.sections[i], e)
           /\ \A j \in 1..Len(new) :
                E.sections[Len(img.sections) + j] = Added(new, by, va, fo, j)
PROOF
<1> DEFINE m == Len(img.sections)
           k == Len(new)
           moved == [i \in 1..m |-> Shifted(img.sections[i], e)]
           added == [i \in 1..k |-> Added(new, by, va, fo, i)]
<1>1. m \in Nat /\ k \in Nat
  BY ImageType, SizesType
<1>2. E.sections = moved \o added
  BY DEF IsExtended, Images
<1>3. moved = [i \in 1..m |-> moved[i]] /\ added = [i \in 1..k |-> added[i]]
  OBVIOUS
<1> HIDE DEF m, k, moved, added
<1>4. /\ Len(moved \o added) = m + k /\ DOMAIN (moved \o added) = 1..(m + k)
      /\ \A i \in 1..m : (moved \o added)[i] = moved[i]
      /\ \A j \in 1..k : (moved \o added)[m + j] = added[j]
  BY <1>1, <1>3, ConcatenationIs
<1>5. /\ \A i \in 1..m : moved[i] = Shifted(img.sections[i], e)
      /\ \A j \in 1..k : added[j] = Added(new, by, va, fo, j)
  BY DEF moved, added
<1> QED BY <1>1, <1>2, <1>4, <1>5 DEF m, k

\* An old section in the extended image.
LEMMA OldSection ==
    ASSUME NEW n \in Nat, NEW img \in Images(n), NEW new \in NewHeaders,
           NEW names, NEW by, NEW E, NEW e, NEW va, NEW fo, NEW tables,
           IsExtended(E, img, new, names, by, e, va, fo, tables),
           NEW i \in DOMAIN img.sections
    PROVE  E.sections[i] = Shifted(img.sections[i], e)
PROOF
<1>1. \A l \in 1..Len(img.sections) : E.sections[l] = Shifted(img.sections[l], e)
  BY ExtendedSections
<1>2. i \in 1..Len(img.sections)
  BY ImageType
<1> QED BY <1>1, <1>2

\* A new section in the extended image.
LEMMA NewSection ==
    ASSUME NEW n \in Nat, NEW img \in Images(n), NEW new \in NewHeaders,
           NEW names, NEW by, NEW E, NEW e, NEW va, NEW fo, NEW tables,
           IsExtended(E, img, new, names, by, e, va, fo, tables),
           NEW j \in 1..Len(new)
    PROVE  E.sections[Len(img.sections) + j] = Added(new, by, va, fo, j)
PROOF
<1>1. \A l \in 1..Len(new) :
         E.sections[Len(img.sections) + l] = Added(new, by, va, fo, l)
  BY ExtendedSections
<1> QED BY <1>1

\* Its headers and the rest of its fields.
LEMMA ExtendedFields ==
    ASSUME NEW n \in Nat, NEW img \in Images(n), NEW new,
           NEW names, NEW by, NEW E, NEW e, NEW va, NEW fo, NEW tables,
           IsExtended(E, img, new, names, by, e, va, fo, tables)
    PROVE  /\ E.sizeOfHeaders = img.sizeOfHeaders + e
           /\ E.overlay = img.overlay + e /\ E.tail = img.tail
           /\ E.symbolTable = tables /\ E.symbols = img.symbols
           /\ E.strings = img.strings \o names
           /\ E.size = tables + img.symbols + 1 + Len(img.strings \o names)
           /\ E.sizeOfImage = RoundUp(va[Len(new)] + new[Len(new)].size, SectAlign)
           /\ E.directory = img.directory
PROOF BY DEF IsExtended, Images

\* The regions of a file, one by one.
Clear(from, to, start, end) == to <= start \/ end <= from
HasData(img, i) == i \in DOMAIN img.sections /\ img.sections[i].raw # 0
DataFrom(img, i) == img.sections[i].at
DataTo(img, i)   == img.sections[i].at + img.sections[i].raw

ClearOfTail(img, from, to) ==
    img.tail # 0 => Clear(from, to, img.overlay, img.overlay + img.tail)

Separate(img) ==
    /\ TableEnd(img) <= img.sizeOfHeaders /\ img.sizeOfHeaders <= img.size
    /\ img.tail # 0 =>
         img.sizeOfHeaders <= img.overlay /\ img.overlay + img.tail <= img.size
    /\ \A i : HasData(img, i) =>
         /\ img.sizeOfHeaders <= DataFrom(img, i) /\ DataTo(img, i) <= img.size
         /\ ClearOfTail(img, DataFrom(img, i), DataTo(img, i))
         /\ \A j : HasData(img, j) /\ i # j =>
              Clear(DataFrom(img, i), DataTo(img, i), DataFrom(img, j), DataTo(img, j))
    /\ img.symbolTable # 0 =>
         /\ img.sizeOfHeaders <= img.symbolTable /\ SymbolTableEnd(img) <= img.size
         /\ ClearOfTail(img, img.symbolTable, SymbolTableEnd(img))
         /\ \A i : HasData(img, i) =>
              Clear(DataFrom(img, i), DataTo(img, i),
                    img.symbolTable, SymbolTableEnd(img))

\* The place of a section's bytes.
LEMMA DataType ==
    ASSUME NEW n \in Nat, NEW img \in Images(n), NEW i, HasData(img, i)
    PROVE  /\ DataFrom(img, i) \in Nat /\ DataTo(img, i) \in Nat
           /\ DataFrom(img, i) < DataTo(img, i) /\ Len(img.sections) >= 1
PROOF
<1>1. i \in DOMAIN img.sections /\ img.sections[i].raw # 0
  BY DEF HasData
<1>2. img.sections[i].at \in Nat /\ img.sections[i].raw \in Nat
  BY <1>1, SectionType
<1>3. Len(img.sections) >= 1
  BY <1>1, ImageType
<1> QED BY <1>1, <1>2, <1>3 DEF DataFrom, DataTo

\* The headers end where SizeOfHeaders says.
LEMMA HeadersRegion ==
    ASSUME NEW n \in Nat, NEW img \in Images(n), TableEnd(img) <= img.sizeOfHeaders
    PROVE  Larger(TableEnd(img), img.sizeOfHeaders) = img.sizeOfHeaders
PROOF
<1>1. TableEnd(img) \in Nat /\ img.sizeOfHeaders \in Nat
  BY ImageType
<1> QED BY <1>1 DEF Larger

\* The regions of an image whose section table fits.
LEMMA RegionsOf ==
    ASSUME NEW n \in Nat, NEW img \in Images(n), TableEnd(img) <= img.sizeOfHeaders
    PROVE  Regions(img) =
             {Region(<<"headers", 0>>, 0, img.sizeOfHeaders)}
             \cup (IF img.tail = 0 THEN {}
                   ELSE {Region(<<"overlay", 0>>, img.overlay, img.overlay + img.tail)})
             \cup {Region(<<"section", i>>, DataFrom(img, i), DataTo(img, i)) :
                      i \in {j \in DOMAIN img.sections : HasData(img, j)}}
             \cup (IF img.symbolTable = 0 THEN {}
                   ELSE {Region(<<"tables", 0>>, img.symbolTable, SymbolTableEnd(img))})
PROOF
<1>1. Larger(TableEnd(img), img.sizeOfHeaders) = img.sizeOfHeaders
  BY HeadersRegion
<1>2. {j \in DOMAIN img.sections : img.sections[j].raw # 0}
      = {j \in DOMAIN img.sections : HasData(img, j)}
  BY DEF HasData
<1> QED BY <1>1, <1>2 DEF Regions, DataFrom, DataTo

\* Disjoint, pair of parts by pair of parts.
LEMMA DisjointIsSeparate ==
    ASSUME NEW n \in Nat, NEW img \in Images(n), Disjoint(img)
    PROVE  Separate(img)
PROOF
<1>1. TableEnd(img) <= img.sizeOfHeaders
  BY DEF Disjoint
<1>2. /\ img.sizeOfHeaders \in Nat /\ img.overlay \in Nat /\ img.size \in Nat
      /\ img.tail \in Nat
      /\ img.symbolTable \in Nat /\ SymbolTableEnd(img) \in Nat
      /\ img.symbols \in Nat /\ StringTableSize(img) \in Nat
      /\ TableEnd(img) \in Nat /\ Len(img.sections) \in Nat
  BY ImageType
<1>3. /\ \A r \in Regions(img) : r.to <= img.size
      /\ \A r, q \in Regions(img) : r # q => r.to <= q.from \/ q.to <= r.from
  BY DEF Disjoint
<1> DEFINE H == Region(<<"headers", 0>>, 0, img.sizeOfHeaders)
           O == Region(<<"overlay", 0>>, img.overlay, img.overlay + img.tail)
           D(i) == Region(<<"section", i>>, DataFrom(img, i), DataTo(img, i))
           T == Region(<<"tables", 0>>, img.symbolTable, SymbolTableEnd(img))
<1>4. /\ H \in Regions(img) /\ (img.tail # 0 => O \in Regions(img))
      /\ \A i : HasData(img, i) => D(i) \in Regions(img)
      /\ img.symbolTable # 0 => T \in Regions(img)
  <2>1. \A i : HasData(img, i) => i \in DOMAIN img.sections
    BY DEF HasData
  <2> HIDE DEF H, O, D, T
  <2> QED BY <1>1, <2>1, RegionsOf DEF H, O, D, T
<1>5. /\ H.from = 0 /\ H.to = img.sizeOfHeaders
      /\ O.from = img.overlay /\ O.to = img.overlay + img.tail
      /\ \A i : D(i).from = DataFrom(img, i) /\ D(i).to = DataTo(img, i)
      /\ T.from = img.symbolTable /\ T.to = SymbolTableEnd(img)
      /\ H # O /\ H # T /\ O # T
      /\ \A i : D(i) # H /\ D(i) # O /\ D(i) # T
      /\ \A i, j : i # j => D(i) # D(j)
  BY DEF Region
<1>6. img.symbolTable # 0 => SymbolTableEnd(img) > img.symbolTable
  BY <1>2 DEF SymbolTableEnd, StringTableSize
<1> HIDE DEF H, O, D, T
<1>7. /\ img.sizeOfHeaders <= img.size
      /\ img.tail # 0 =>
           img.sizeOfHeaders <= img.overlay /\ img.overlay + img.tail <= img.size
  BY <1>2, <1>3, <1>4, <1>5
<1>8. ASSUME NEW i, HasData(img, i)
      PROVE  /\ img.sizeOfHeaders <= DataFrom(img, i) /\ DataTo(img, i) <= img.size
             /\ ClearOfTail(img, DataFrom(img, i), DataTo(img, i))
             /\ \A j : HasData(img, j) /\ i # j =>
                  Clear(DataFrom(img, i), DataTo(img, i), DataFrom(img, j), DataTo(img, j))
  <2>1. DataFrom(img, i) \in Nat /\ DataTo(img, i) \in Nat /\ DataFrom(img, i) < DataTo(img, i)
    BY <1>8, DataType
  <2>2. DataTo(img, i) <= img.size
    BY <1>3, <1>4, <1>5, <1>8
  <2>3. img.sizeOfHeaders <= DataFrom(img, i) \/ DataTo(img, i) <= 0
    BY <1>3, <1>4, <1>5, <1>8
  <2>4. ClearOfTail(img, DataFrom(img, i), DataTo(img, i))
    BY <1>3, <1>4, <1>5, <1>8 DEF Clear, ClearOfTail
  <2>5. ASSUME NEW j, HasData(img, j), i # j
        PROVE  Clear(DataFrom(img, i), DataTo(img, i), DataFrom(img, j), DataTo(img, j))
    BY <1>3, <1>4, <1>5, <1>8, <2>5 DEF Clear
  <2> QED BY <2>1, <2>2, <2>3, <2>4, <2>5
<1>9. ASSUME img.symbolTable # 0
      PROVE  /\ img.sizeOfHeaders <= img.symbolTable /\ SymbolTableEnd(img) <= img.size
             /\ ClearOfTail(img, img.symbolTable, SymbolTableEnd(img))
             /\ \A i : HasData(img, i) =>
                  Clear(DataFrom(img, i), DataTo(img, i),
                        img.symbolTable, SymbolTableEnd(img))
  <2>1. SymbolTableEnd(img) <= img.size
    BY <1>3, <1>4, <1>5, <1>9
  <2>2. img.sizeOfHeaders <= img.symbolTable \/ SymbolTableEnd(img) <= 0
    BY <1>3, <1>4, <1>5, <1>9
  <2>3. ClearOfTail(img, img.symbolTable, SymbolTableEnd(img))
    BY <1>3, <1>4, <1>5, <1>9 DEF Clear, ClearOfTail
  <2>4. ASSUME NEW i, HasData(img, i)
        PROVE  Clear(DataFrom(img, i), DataTo(img, i),
                     img.symbolTable, SymbolTableEnd(img))
    BY <1>3, <1>4, <1>5, <1>9, <2>4 DEF Clear
  <2> QED BY <1>2, <1>6, <1>9, <2>1, <2>2, <2>3, <2>4
<1> QED BY <1>1, <1>7, <1>8, <1>9 DEF Separate

\* The bytes of a section lie behind the headers.
LEMMA BehindHeaders ==
    ASSUME NEW n \in Nat, NEW img \in Images(n), Disjoint(img)
    PROVE  \A i \in DOMAIN img.sections :
              img.sections[i].raw # 0 => img.sections[i].at # 0
PROOF
<1> SUFFICES ASSUME NEW i \in DOMAIN img.sections, img.sections[i].raw # 0
             PROVE  img.sections[i].at # 0
  OBVIOUS
<1>1. HasData(img, i)
  BY DEF HasData
<1>2. Separate(img)
  BY DisjointIsSeparate
<1>3. img.sizeOfHeaders <= DataFrom(img, i) /\ TableEnd(img) <= img.sizeOfHeaders
  BY <1>1, <1>2 DEF Separate
<1>4. DataFrom(img, i) \in Nat /\ Len(img.sections) >= 1
  BY <1>1, DataType
<1>5. img.sizeOfHeaders \in Nat /\ TableEnd(img) \in Nat /\ Len(img.sections) \in Nat
  BY ImageType
<1>6. TableEnd(img) >= 1
  BY <1>4, <1>5 DEF TableEnd
<1>7. DataFrom(img, i) # 0
  BY <1>3, <1>4, <1>5, <1>6
<1> QED BY <1>7 DEF DataFrom

\* Every section header leads to its bytes: the old ones have moved with them.
LEMMA DataStaysFound ==
    ASSUME NEW n \in Nat, NEW img \in Images(n), NEW new \in NewHeaders,
           NEW names, NEW by, NEW E, NEW e, NEW va, NEW fo, NEW tables,
           IsExtended(E, img, new, names, by, e, va, fo, tables),
           DataFound(img), Disjoint(img)
    PROVE  DataFound(E)
PROOF
<1> DEFINE m == Len(img.sections)
           k == Len(new)
<1>1. m \in Nat /\ k \in Nat /\ DOMAIN E.sections = 1..(m + k) /\ DOMAIN img.sections = 1..m
  BY ExtendedSections, ImageType
<1>2. e \in Nat /\ e % FileAlign = 0
  BY DEF IsExtended
<1>3. ASSUME NEW i \in 1..m, E.sections[i].raw # 0
      PROVE  E.sections[i].ptr = E.sections[i].at /\ E.sections[i].ptr % FileAlign = 0
  <2> DEFINE s == img.sections[i]
  <2>1. E.sections[i] = Shifted(s, e)
    BY <1>1, OldSection
  <2>2. s \in Sections(n) /\ s.ptr \in Nat /\ s.at \in Nat /\ s.raw \in Nat
    BY <1>1, SectionType
  <2>3. /\ E.sections[i].raw = s.raw
        /\ E.sections[i].at = IF s.raw = 0 THEN s.at ELSE s.at + e
        /\ E.sections[i].ptr = IF s.ptr = 0 THEN 0 ELSE s.ptr + e
    <3> HIDE DEF s
    <3> QED BY <2>1, <2>2 DEF Shifted, Sections
  <2>4. s.raw # 0 /\ s.at # 0 /\ s.ptr = s.at /\ s.ptr % FileAlign = 0
    BY <1>1, <1>3, <2>3, BehindHeaders DEF DataFound
  <2>5. E.sections[i].ptr = s.ptr + e /\ E.sections[i].at = s.ptr + e
    BY <2>3, <2>4
  <2>6. (s.ptr + e) % FileAlign = 0
    <3> DEFINE x == s.ptr
    <3>1. x \in Nat /\ x % FileAlign = 0
      BY <2>2, <2>4
    <3> HIDE DEF x
    <3>2. FileAlign \in Nat \ {0}
      OBVIOUS
    <3>3. (x + e) % FileAlign = 0
      BY <1>2, <3>1, <3>2, SumOfMultiples
    <3> QED BY <3>3 DEF x
  <2> QED BY <2>5, <2>6
<1>4. ASSUME NEW j \in 1..k
      PROVE  /\ E.sections[m + j].ptr = E.sections[m + j].at
             /\ E.sections[m + j].ptr % FileAlign = 0
  <2>1. E.sections[m + j] = Added(new, by, va, fo, j)
    BY NewSection
  <2>2. fo[j] % FileAlign = 0
    BY DEF IsExtended
  <2> QED BY <2>1, <2>2 DEF Added
<1> HIDE DEF m, k
<1>5. ASSUME NEW i \in 1..(m + k), E.sections[i].raw # 0
      PROVE  E.sections[i].ptr = E.sections[i].at /\ E.sections[i].ptr % FileAlign = 0
  <2>1. CASE i \in 1..m
    BY <1>3, <1>5, <2>1
  <2>2. CASE i \notin 1..m
    <3>1. i - m \in 1..k /\ m + (i - m) = i
      BY <1>1, <2>2
    <3> QED BY <1>4, <3>1
  <2> QED BY <2>1, <2>2
<1> QED BY <1>1, <1>5 DEF DataFound

\* Regions that are clear of one another one by one are so as a set.
LEMMA SeparateIsDisjoint ==
    ASSUME NEW n \in Nat, NEW img \in Images(n), Separate(img)
    PROVE  Disjoint(img)
PROOF
<1>1. TableEnd(img) <= img.sizeOfHeaders
  BY DEF Separate
<1>2. /\ img.sizeOfHeaders \in Nat /\ img.overlay \in Nat /\ img.size \in Nat
      /\ img.symbolTable \in Nat /\ SymbolTableEnd(img) \in Nat /\ img.tail \in Nat
  BY ImageType
<1> DEFINE H == Region(<<"headers", 0>>, 0, img.sizeOfHeaders)
           O == Region(<<"overlay", 0>>, img.overlay, img.overlay + img.tail)
           D(i) == Region(<<"section", i>>, DataFrom(img, i), DataTo(img, i))
           T == Region(<<"tables", 0>>, img.symbolTable, SymbolTableEnd(img))
           Hdr(r) == r = H
           Ovl(r) == img.tail # 0 /\ r = O
           Sec(r) == \E i : HasData(img, i) /\ r = D(i)
           Tab(r) == img.symbolTable # 0 /\ r = T
           Off(r, q) == r.to <= q.from \/ q.to <= r.from
<1>3. \A r \in Regions(img) : Hdr(r) \/ Ovl(r) \/ Sec(r) \/ Tab(r)
  <2> HIDE DEF H, O, D, T
  <2> QED BY <1>1, RegionsOf DEF H, O, D, T
<1>4. /\ H.from = 0 /\ H.to = img.sizeOfHeaders
      /\ O.from = img.overlay /\ O.to = img.overlay + img.tail
      /\ \A i : D(i).from = DataFrom(img, i) /\ D(i).to = DataTo(img, i)
      /\ T.from = img.symbolTable /\ T.to = SymbolTableEnd(img)
  BY DEF Region
<1> HIDE DEF H, O, D, T
<1>5. ASSUME NEW r \in Regions(img) PROVE r.to <= img.size
  <2>1. CASE Hdr(r)
    BY <1>2, <1>4, <2>1 DEF Separate
  <2>2. CASE Ovl(r)
    BY <1>4, <2>2 DEF Separate
  <2>3. CASE Sec(r)
    BY <1>4, <2>3 DEF Separate
  <2>4. CASE Tab(r)
    BY <1>4, <2>4 DEF Separate
  <2> QED BY <1>3, <2>1, <2>2, <2>3, <2>4
<1>6. ASSUME NEW r, NEW q, r # q, Hdr(r), Hdr(q) \/ Ovl(q) \/ Sec(q) \/ Tab(q)
      PROVE  Off(r, q)
  <2>1. CASE Ovl(q)
    BY <1>4, <1>6, <2>1 DEF Separate
  <2>2. CASE Sec(q)
    BY <1>4, <1>6, <2>2 DEF Separate
  <2>3. CASE Tab(q)
    BY <1>4, <1>6, <2>3 DEF Separate
  <2> QED BY <1>6, <2>1, <2>2, <2>3
<1>7. ASSUME NEW r, NEW q, r # q, Sec(r), Ovl(q) \/ Sec(q) \/ Tab(q)
      PROVE  Off(r, q)
  <2>1. PICK i : HasData(img, i) /\ r = D(i)
    BY <1>7
  <2>2. CASE Ovl(q)
    BY <1>4, <2>1, <2>2 DEF Separate, Clear, ClearOfTail
  <2>3. CASE Sec(q)
    <3>1. PICK j : HasData(img, j) /\ q = D(j)
      BY <2>3
    <3>2. i # j
      BY <1>7, <2>1, <3>1
    <3> QED BY <1>4, <2>1, <3>1, <3>2 DEF Separate, Clear
  <2>4. CASE Tab(q)
    BY <1>4, <2>1, <2>4 DEF Separate, Clear
  <2> QED BY <1>7, <2>2, <2>3, <2>4
<1>8. ASSUME NEW r, NEW q, r # q, Ovl(r), Ovl(q) \/ Tab(q)
      PROVE  Off(r, q)
  BY <1>4, <1>8 DEF Separate, Clear, ClearOfTail
<1>9. ASSUME NEW r \in Regions(img), NEW q \in Regions(img), r # q
      PROVE  Off(r, q)
  <2>1. CASE Hdr(r) \/ Hdr(q)
    <3>1. Hdr(r) => Off(r, q)
      BY <1>3, <1>6, <1>9
    <3>2. Hdr(q) => Off(q, r)
      BY <1>3, <1>6, <1>9
    <3> QED BY <2>1, <3>1, <3>2
  <2>2. CASE ~Hdr(r) /\ ~Hdr(q) /\ (Sec(r) \/ Sec(q))
    <3>1. Sec(r) => Off(r, q)
      BY <1>3, <1>7, <1>9, <2>2
    <3>2. Sec(q) => Off(q, r)
      BY <1>3, <1>7, <1>9, <2>2
    <3> QED BY <2>2, <3>1, <3>2
  <2>3. CASE ~Hdr(r) /\ ~Hdr(q) /\ ~Sec(r) /\ ~Sec(q)
    <3>1. (Ovl(r) \/ Tab(r)) /\ (Ovl(q) \/ Tab(q))
      BY <1>3, <2>3
    <3>2. Ovl(r) => Off(r, q)
      BY <1>8, <1>9, <3>1
    <3>3. Ovl(q) => Off(q, r)
      BY <1>8, <1>9, <3>1
    <3> QED BY <1>9, <3>1, <3>2, <3>3
  <2> QED BY <2>1, <2>2, <2>3
<1> QED BY <1>1, <1>5, <1>9 DEF Disjoint

\* An extended image keeps its regions apart: the headers grow by e at most and
\* everything behind them moves by e, and the rest is past the end of the file.
LEMMA RegionsStayApart ==
    ASSUME NEW n \in Nat, NEW img \in Images(n), NEW new \in NewHeaders,
           NEW names \in Seq(Names), NEW by, NEW E, NEW e, NEW va, NEW fo, NEW tables,
           IsExtended(E, img, new, names, by, e, va, fo, tables),
           Disjoint(img)
    PROVE  Separate(E)
PROOF
<1> DEFINE m == Len(img.sections)
           k == Len(new)
<1>1. m \in Nat /\ k \in Nat /\ DOMAIN E.sections = 1..(m + k) /\ DOMAIN img.sections = 1..m
      /\ Len(E.sections) = m + k
  BY ExtendedSections, ImageType
<1>2. e \in Nat /\ TableEnd(img) + k <= img.sizeOfHeaders + e /\ tables \in Nat
      /\ fo \in [1..k -> Nat] /\ k # 0
  BY DEF IsExtended
<1>3. Separate(img)
  BY DisjointIsSeparate
<1>4. /\ E.sizeOfHeaders = img.sizeOfHeaders + e /\ E.overlay = img.overlay + e
      /\ E.tail = img.tail /\ E.symbolTable = tables /\ E.symbols = img.symbols
      /\ E.strings = img.strings \o names
      /\ E.size = tables + img.symbols + 1 + Len(img.strings \o names)
  BY ExtendedFields
<1>5. /\ img.sizeOfHeaders \in Nat /\ img.overlay \in Nat /\ img.size \in Nat
      /\ img.symbols \in Nat /\ TableEnd(img) \in Nat /\ img.tail \in Nat
      /\ Len(img.strings \o names) \in Nat
  BY ImageType
<1>19. E.sizeOfHeaders \in Nat /\ E.overlay \in Nat
  <2> DEFINE h0 == img.sizeOfHeaders
             o0 == img.overlay
  <2>1. /\ h0 \in Nat /\ o0 \in Nat
        /\ E.sizeOfHeaders = h0 + e /\ E.overlay = o0 + e
    BY <1>4, <1>5
  <2> HIDE DEF h0, o0
  <2>2. h0 + e \in Nat /\ o0 + e \in Nat
    BY <1>2, <2>1
  <2> QED BY <2>1, <2>2
<1>6. TableEnd(E) <= E.sizeOfHeaders
  <2>1. TableEnd(E) = TableStart + (m + k) /\ TableEnd(img) = TableStart + m
    BY <1>1 DEF TableEnd
  <2> QED BY <1>1, <1>2, <1>4, <2>1
<1>7. SymbolTableEnd(E) = E.size /\ E.size >= tables /\ E.size \in Nat
  <2> DEFINE L == Len(img.strings \o names)
             x == img.symbols
  <2>1. SymbolTableEnd(E) = tables + x + (1 + L) /\ E.size = tables + x + 1 + L
    BY <1>4 DEF SymbolTableEnd, StringTableSize
  <2>2. L \in Nat /\ x \in Nat
    BY <1>5
  <2> HIDE DEF L, x
  <2>3. tables + x + (1 + L) = tables + x + 1 + L /\ tables + x + 1 + L >= tables
        /\ tables + x + 1 + L \in Nat
    BY <1>2, <2>2
  <2> QED BY <2>1, <2>3
<1>8. \A j \in 1..k :
        /\ img.size + e <= fo[j] /\ fo[j] <= fo[j] + RoundUp(new[j].size, FileAlign)
        /\ fo[j] + RoundUp(new[j].size, FileAlign) <= tables
        /\ RoundUp(new[j].size, FileAlign) \in Nat /\ fo[j] \in Nat
        /\ RoundUp(new[j].size, FileAlign) # 0
        /\ \A i \in 1..k : j < i => fo[j] + RoundUp(new[j].size, FileAlign) <= fo[i]
  <2> SUFFICES ASSUME NEW j \in 1..k
               PROVE  /\ img.size + e <= fo[j]
                      /\ fo[j] <= fo[j] + RoundUp(new[j].size, FileAlign)
                      /\ fo[j] + RoundUp(new[j].size, FileAlign) <= tables
                      /\ RoundUp(new[j].size, FileAlign) \in Nat /\ fo[j] \in Nat
                      /\ RoundUp(new[j].size, FileAlign) # 0
                      /\ \A i \in 1..k : j < i =>
                           fo[j] + RoundUp(new[j].size, FileAlign) <= fo[i]
    OBVIOUS
  <2>1. /\ img.size + e <= fo[j] /\ fo[j] + RoundUp(new[j].size, FileAlign) <= tables
        /\ \A i \in 1..k : j < i => fo[j] + RoundUp(new[j].size, FileAlign) <= fo[i]
    BY DEF IsExtended
  <2>2. new[j].size \in Nat /\ new[j].size # 0
    BY NewHeaderType
  <2>3. /\ RoundUp(new[j].size, FileAlign) \in Nat
        /\ new[j].size <= RoundUp(new[j].size, FileAlign)
    BY <2>2, RoundUpType
  <2>4. fo[j] \in Nat
    BY <1>2
  <2> QED BY <2>1, <2>2, <2>3, <2>4
<1>9. img.size + e <= tables /\ tables # 0
  <2>1. 1 \in 1..k
    BY <1>1, <1>2
  <2> DEFINE a == fo[1]
             r == RoundUp(new[1].size, FileAlign)
             z == img.size
  <2>2. /\ z + e <= a /\ a + r <= tables
        /\ a \in Nat /\ r \in Nat /\ r # 0 /\ z \in Nat
    BY <1>5, <1>8, <2>1
  <2> HIDE DEF a, r, z
  <2>3. z + e <= tables /\ tables # 0
    BY <1>2, <2>2
  <2> QED BY <2>3 DEF z
<1>10. \A i \in 1..m :
         /\ HasData(E, i) <=> HasData(img, i)
         /\ HasData(E, i) => /\ DataFrom(E, i) = DataFrom(img, i) + e
                             /\ DataTo(E, i) = DataTo(img, i) + e
                             /\ DataFrom(img, i) \in Nat /\ DataTo(img, i) \in Nat
                             /\ DataTo(img, i) <= img.size
                             /\ img.sizeOfHeaders <= DataFrom(img, i)
  <2> SUFFICES ASSUME NEW i \in 1..m
               PROVE  /\ HasData(E, i) <=> HasData(img, i)
                      /\ HasData(E, i) => /\ DataFrom(E, i) = DataFrom(img, i) + e
                                          /\ DataTo(E, i) = DataTo(img, i) + e
                                          /\ DataFrom(img, i) \in Nat
                                          /\ DataTo(img, i) \in Nat
                                          /\ DataTo(img, i) <= img.size
                                          /\ img.sizeOfHeaders <= DataFrom(img, i)
    OBVIOUS
  <2> DEFINE s == img.sections[i]
  <2>1. E.sections[i] = Shifted(s, e)
    BY <1>1, OldSection
  <2>2. s \in Sections(n) /\ s.at \in Nat /\ s.raw \in Nat
    BY <1>1, SectionType
  <2>3. /\ E.sections[i].raw = s.raw
        /\ E.sections[i].at = IF s.raw = 0 THEN s.at ELSE s.at + e
    <3> HIDE DEF s
    <3> QED BY <2>1, <2>2 DEF Shifted, Sections
  <2>4. i \in DOMAIN E.sections /\ i \in DOMAIN img.sections
    BY <1>1
  <2>5. HasData(E, i) <=> HasData(img, i)
    BY <2>3, <2>4 DEF HasData
  <2>6. HasData(E, i) => /\ DataFrom(E, i) = DataFrom(img, i) + e
                         /\ DataTo(E, i) = DataTo(img, i) + e
                         /\ DataFrom(img, i) \in Nat /\ DataTo(img, i) \in Nat
    <3> DEFINE a == s.at
               r == s.raw
    <3>1. /\ a \in Nat /\ r \in Nat
          /\ E.sections[i].raw = r /\ (r # 0 => E.sections[i].at = a + e)
      BY <2>2, <2>3
    <3>2. DataFrom(img, i) = a /\ DataTo(img, i) = a + r
      BY DEF DataFrom, DataTo
    <3>3. HasData(E, i) => r # 0
      BY <3>1 DEF HasData
    <3> HIDE DEF a, r, s
    <3>4. r # 0 => DataFrom(E, i) = a + e /\ DataTo(E, i) = (a + e) + r
      BY <3>1 DEF DataFrom, DataTo
    <3>5. (a + e) + r = (a + r) + e /\ a + r \in Nat
      BY <1>2, <3>1
    <3> QED BY <3>1, <3>2, <3>3, <3>4, <3>5
  <2>7. HasData(img, i) => /\ DataTo(img, i) <= img.size
                           /\ img.sizeOfHeaders <= DataFrom(img, i)
    BY <1>3 DEF Separate
  <2> QED BY <2>5, <2>6, <2>7
<1>11. \A j \in 1..k :
         /\ DataFrom(E, m + j) = fo[j]
         /\ DataTo(E, m + j) = fo[j] + RoundUp(new[j].size, FileAlign)
  <2> SUFFICES ASSUME NEW j \in 1..k
               PROVE  /\ DataFrom(E, m + j) = fo[j]
                      /\ DataTo(E, m + j) = fo[j] + RoundUp(new[j].size, FileAlign)
    OBVIOUS
  <2>1. E.sections[m + j] = Added(new, by, va, fo, j)
    BY NewSection
  <2>2. E.sections[m + j].at = fo[j]
        /\ E.sections[m + j].raw = RoundUp(new[j].size, FileAlign)
    BY <2>1 DEF Added
  <2> QED BY <2>2 DEF DataFrom, DataTo
<1> HIDE DEF m, k
<1>12. \A i : HasData(E, i) => i \in 1..m \/ \E j \in 1..k : i = m + j
  <2> SUFFICES ASSUME NEW i, HasData(E, i), i \notin 1..m
               PROVE  \E j \in 1..k : i = m + j
    OBVIOUS
  <2>1. i \in 1..(m + k)
    BY <1>1 DEF HasData
  <2>2. i - m \in 1..k /\ i = m + (i - m)
    BY <1>1, <2>1
  <2> QED BY <2>2
<1>13. /\ E.sizeOfHeaders <= img.size + e /\ E.sizeOfHeaders <= E.size
       /\ E.tail # 0 =>
            /\ E.sizeOfHeaders <= E.overlay /\ E.overlay + E.tail <= img.size + e
            /\ E.overlay + E.tail <= E.size
  <2> DEFINE h == img.sizeOfHeaders
             o == img.overlay
             t == img.tail
             z == img.size
             y == E.size
  <2>1. /\ h <= z /\ (t # 0 => h <= o /\ o + t <= z)
        /\ E.sizeOfHeaders = h + e /\ E.overlay = o + e /\ E.tail = t
    BY <1>3, <1>4 DEF Separate
  <2>2. h \in Nat /\ o \in Nat /\ t \in Nat /\ z \in Nat /\ y \in Nat
        /\ z + e <= tables /\ tables <= y
    BY <1>5, <1>7, <1>9
  <2> HIDE DEF h, o, t, z, y
  <2>3. /\ h + e <= z + e /\ h + e <= y
        /\ t # 0 => h + e <= o + e /\ (o + e) + t <= z + e /\ (o + e) + t <= y
    BY <1>2, <2>1, <2>2
  <2> QED BY <2>1, <2>3 DEF z, y
<1>14. ASSUME NEW i \in 1..m, HasData(E, i)
       PROVE  /\ E.sizeOfHeaders <= DataFrom(E, i) /\ DataTo(E, i) <= img.size + e
              /\ DataTo(E, i) <= E.size
              /\ ClearOfTail(E, DataFrom(E, i), DataTo(E, i))
              /\ Clear(DataFrom(E, i), DataTo(E, i), E.symbolTable, SymbolTableEnd(E))
              /\ \A j : HasData(E, j) /\ i # j =>
                   Clear(DataFrom(E, i), DataTo(E, i), DataFrom(E, j), DataTo(E, j))
  <2>1. /\ HasData(img, i) /\ DataFrom(E, i) = DataFrom(img, i) + e
        /\ DataTo(E, i) = DataTo(img, i) + e
        /\ DataFrom(img, i) \in Nat /\ DataTo(img, i) \in Nat
        /\ DataTo(img, i) <= img.size /\ img.sizeOfHeaders <= DataFrom(img, i)
    BY <1>10, <1>14
  <2>2. E.sizeOfHeaders <= DataFrom(E, i) /\ DataTo(E, i) <= img.size + e
        /\ DataTo(E, i) <= tables /\ DataTo(E, i) <= E.size
    <3> DEFINE h == img.sizeOfHeaders
               z == img.size
               y == E.size
               a == DataFrom(img, i)
               b == DataTo(img, i)
    <3>1. /\ h \in Nat /\ z \in Nat /\ y \in Nat /\ a \in Nat /\ b \in Nat
          /\ z + e <= tables /\ tables <= y /\ b <= z /\ h <= a
      BY <1>5, <1>7, <1>9, <2>1
    <3>2. DataFrom(E, i) = a + e /\ DataTo(E, i) = b + e /\ E.sizeOfHeaders = h + e
      BY <1>4, <2>1
    <3> HIDE DEF h, z, y, a, b
    <3>3. h + e <= a + e /\ b + e <= z + e /\ b + e <= tables /\ b + e <= y
      BY <1>2, <3>1
    <3> QED BY <3>2, <3>3 DEF z, y
  <2>3. ClearOfTail(E, DataFrom(E, i), DataTo(E, i))
    <3>1. ClearOfTail(img, DataFrom(img, i), DataTo(img, i))
      BY <1>3, <2>1 DEF Separate
    <3> DEFINE o == img.overlay
               t == img.tail
               a == DataFrom(img, i)
               b == DataTo(img, i)
    <3>2. /\ o \in Nat /\ t \in Nat /\ a \in Nat /\ b \in Nat
          /\ t # 0 => b <= o \/ o + t <= a
      BY <1>5, <2>1, <3>1 DEF Clear, ClearOfTail
    <3>3. DataFrom(E, i) = a + e /\ DataTo(E, i) = b + e /\ E.overlay = o + e /\ E.tail = t
      BY <1>4, <2>1
    <3> HIDE DEF o, t, a, b
    <3>4. t # 0 => b + e <= o + e \/ (o + e) + t <= a + e
      BY <1>2, <3>2
    <3> QED BY <3>3, <3>4 DEF Clear, ClearOfTail
  <2>4. Clear(DataFrom(E, i), DataTo(E, i), E.symbolTable, SymbolTableEnd(E))
    BY <1>4, <2>2 DEF Clear
  <2>5. ASSUME NEW j, HasData(E, j), i # j
        PROVE  Clear(DataFrom(E, i), DataTo(E, i), DataFrom(E, j), DataTo(E, j))
    <3>1. CASE j \in 1..m
      <4>1. /\ HasData(img, j) /\ DataFrom(E, j) = DataFrom(img, j) + e
            /\ DataTo(E, j) = DataTo(img, j) + e
            /\ DataFrom(img, j) \in Nat /\ DataTo(img, j) \in Nat
        BY <1>10, <2>5, <3>1
      <4>2. Clear(DataFrom(img, i), DataTo(img, i), DataFrom(img, j), DataTo(img, j))
        BY <1>3, <2>1, <2>5, <4>1 DEF Separate
      <4> QED BY <1>2, <2>1, <4>1, <4>2 DEF Clear
    <3>2. CASE j \notin 1..m
      <4>1. PICK l \in 1..k : j = m + l
        BY <1>12, <2>5, <3>2
      <4>2. DataFrom(E, j) = fo[l] /\ img.size + e <= fo[l] /\ fo[l] \in Nat
        BY <1>8, <1>11, <4>1
      <4>3. DataTo(E, i) <= DataFrom(E, j)
        BY <1>2, <1>5, <2>1, <2>2, <4>2
      <4> QED BY <4>3 DEF Clear
    <3> QED BY <3>1, <3>2
  <2> QED BY <2>2, <2>3, <2>4, <2>5
<1>15. ASSUME NEW l \in 1..k, NEW i, i = m + l
       PROVE  /\ E.sizeOfHeaders <= DataFrom(E, i) /\ DataTo(E, i) <= E.size
              /\ ClearOfTail(E, DataFrom(E, i), DataTo(E, i))
              /\ Clear(DataFrom(E, i), DataTo(E, i), E.symbolTable, SymbolTableEnd(E))
              /\ \A j : HasData(E, j) /\ i # j =>
                   Clear(DataFrom(E, i), DataTo(E, i), DataFrom(E, j), DataTo(E, j))
  <2>1. /\ DataFrom(E, i) = fo[l] /\ DataTo(E, i) = fo[l] + RoundUp(new[l].size, FileAlign)
        /\ img.size + e <= fo[l] /\ DataTo(E, i) <= tables
        /\ DataFrom(E, i) <= DataTo(E, i)
        /\ DataFrom(E, i) \in Nat /\ DataTo(E, i) \in Nat
    BY <1>8, <1>11, <1>15
  <2>2. /\ E.sizeOfHeaders <= DataFrom(E, i) /\ DataTo(E, i) <= E.size
        /\ E.tail # 0 => E.overlay + E.tail <= DataFrom(E, i)
    <3> DEFINE h == E.sizeOfHeaders
               o == E.overlay
               t == E.tail
               z == img.size
               y == E.size
               a == DataFrom(E, i)
               b == DataTo(E, i)
    <3>1. /\ h \in Nat /\ o \in Nat /\ t \in Nat /\ z \in Nat /\ y \in Nat
          /\ a \in Nat /\ b \in Nat
      <4>1. E.sizeOfHeaders \in Nat /\ E.overlay \in Nat /\ E.tail \in Nat
        BY <1>4, <1>5, <1>19
      <4> HIDE DEF h, o, t
      <4> QED BY <1>5, <1>7, <2>1, <4>1 DEF h, o, t
    <3>2. /\ z + e <= a /\ b <= tables /\ tables <= y /\ h <= z + e
          /\ t # 0 => o + t <= z + e
      BY <1>7, <1>13, <2>1
    <3> HIDE DEF h, o, t, z, y, a, b
    <3>3. h <= a /\ b <= y /\ (t # 0 => o + t <= a)
      BY <1>2, <3>1, <3>2
    <3> QED BY <3>3 DEF h, o, t, y, a, b
  <2>3. ClearOfTail(E, DataFrom(E, i), DataTo(E, i))
    BY <2>2 DEF Clear, ClearOfTail
  <2>4. Clear(DataFrom(E, i), DataTo(E, i), E.symbolTable, SymbolTableEnd(E))
    BY <1>4, <2>1 DEF Clear
  <2>5. ASSUME NEW j, HasData(E, j), i # j
        PROVE  Clear(DataFrom(E, i), DataTo(E, i), DataFrom(E, j), DataTo(E, j))
    <3>1. CASE j \in 1..m
      <4>1. Clear(DataFrom(E, j), DataTo(E, j), DataFrom(E, i), DataTo(E, i))
        <5>1. DataTo(E, j) <= img.size + e
          BY <1>14, <2>5, <3>1
        <5>2. DataTo(E, j) \in Nat
          BY <1>2, <1>10, <2>5, <3>1
        <5>3. DataTo(E, j) <= DataFrom(E, i)
          BY <1>2, <1>5, <2>1, <5>1, <5>2
        <5> QED BY <5>3 DEF Clear
      <4> QED BY <4>1 DEF Clear
    <3>2. CASE j \notin 1..m
      <4>1. PICK o \in 1..k : j = m + o
        BY <1>12, <2>5, <3>2
      <4>2. o # l
        BY <1>15, <2>5, <4>1
      <4>3. o < l \/ l < o
        BY <1>1, <4>2
      <4>4. /\ DataFrom(E, j) = fo[o]
            /\ DataTo(E, j) = fo[o] + RoundUp(new[o].size, FileAlign)
        BY <1>11, <4>1
      <4> QED BY <1>8, <2>1, <4>3, <4>4 DEF Clear
    <3> QED BY <3>1, <3>2
  <2> QED BY <2>2, <2>3, <2>4, <2>5
<1>16. E.sizeOfHeaders <= E.symbolTable
       /\ ClearOfTail(E, E.symbolTable, SymbolTableEnd(E))
  <2> DEFINE h == E.sizeOfHeaders
             o == E.overlay
             t == E.tail
             z == img.size
  <2>1. h \in Nat /\ o \in Nat /\ t \in Nat /\ z \in Nat
    BY <1>4, <1>5, <1>19
  <2>2. /\ h <= z + e /\ (t # 0 => o + t <= z + e)
        /\ z + e <= tables /\ E.symbolTable = tables
    BY <1>4, <1>9, <1>13
  <2> HIDE DEF h, o, t, z
  <2>3. h <= tables /\ (t # 0 => o + t <= tables)
    BY <1>2, <2>1, <2>2
  <2> QED BY <2>2, <2>3 DEF Clear, ClearOfTail, h, o, t
<1>17. ASSUME NEW i, HasData(E, i)
       PROVE  /\ E.sizeOfHeaders <= DataFrom(E, i) /\ DataTo(E, i) <= E.size
              /\ ClearOfTail(E, DataFrom(E, i), DataTo(E, i))
              /\ Clear(DataFrom(E, i), DataTo(E, i), E.symbolTable, SymbolTableEnd(E))
              /\ \A j : HasData(E, j) /\ i # j =>
                   Clear(DataFrom(E, i), DataTo(E, i), DataFrom(E, j), DataTo(E, j))
  <2>1. CASE i \in 1..m
    BY <1>14, <1>17, <2>1
  <2>2. CASE i \notin 1..m
    <3>1. PICK l \in 1..k : i = m + l
      BY <1>12, <1>17, <2>2
    <3> QED BY <1>15, <3>1
  <2> QED BY <2>1, <2>2
<1>18. SymbolTableEnd(E) <= E.size
  BY <1>7
<1> QED BY <1>6, <1>13, <1>16, <1>17, <1>18 DEF Separate

\* The new sections follow the old ones in memory, within the new SizeOfImage.
LEMMA OrderKept ==
    ASSUME NEW n \in Nat, NEW img \in Images(n), NEW new \in NewHeaders,
           NEW names \in Seq(Names), NEW by, NEW E, NEW e, NEW va, NEW fo, NEW tables,
           IsExtended(E, img, new, names, by, e, va, fo, tables),
           InOrder(img)
    PROVE  E.sizeOfImage \in Nat /\ InOrder(E)
PROOF
<1> DEFINE m == Len(img.sections)
           k == Len(new)
<1>1. m \in Nat /\ k \in Nat /\ DOMAIN E.sections = 1..(m + k) /\ DOMAIN img.sections = 1..m
  BY ExtendedSections, ImageType
<1>2. va \in [1..k -> Nat] /\ k # 0
  BY DEF IsExtended
<1>3. \A j \in 1..k :
        /\ new[j].size \in Nat /\ va[j] \in Nat /\ va[j] % SectAlign = 0
        /\ \A i \in 1..k : j < i => va[j] + new[j].size <= va[i]
        /\ \A i \in 1..m : img.sections[i].va + img.sections[i].vsize <= va[j]
  <2> SUFFICES ASSUME NEW j \in 1..k
               PROVE  /\ new[j].size \in Nat /\ va[j] \in Nat /\ va[j] % SectAlign = 0
                      /\ \A i \in 1..k : j < i => va[j] + new[j].size <= va[i]
                      /\ \A i \in 1..m :
                           img.sections[i].va + img.sections[i].vsize <= va[j]
    OBVIOUS
  <2>1. /\ va[j] % SectAlign = 0
        /\ \A i \in 1..k : j < i => va[j] + RoundUp(new[j].size, SectAlign) <= va[i]
        /\ \A i \in 1..m : img.sections[i].va + img.sections[i].vsize <= va[j]
    BY DEF IsExtended
  <2>2. new[j].size \in Nat
    BY NewHeaderType
  <2>3. RoundUp(new[j].size, SectAlign) \in Nat
        /\ new[j].size <= RoundUp(new[j].size, SectAlign)
    BY <2>2, RoundUpType
  <2>4. va[j] \in Nat
    BY <1>2
  <2>5. ASSUME NEW i \in 1..k, j < i PROVE va[j] + new[j].size <= va[i]
    <3>1. va[j] + RoundUp(new[j].size, SectAlign) <= va[i] /\ va[i] \in Nat
      BY <1>2, <2>1, <2>5
    <3> QED BY <2>2, <2>3, <2>4, <3>1
  <2> QED BY <2>1, <2>2, <2>4, <2>5
<1>4. \A i \in 1..m :
        /\ E.sections[i].va = img.sections[i].va
        /\ E.sections[i].vsize = img.sections[i].vsize
        /\ img.sections[i].va \in Nat /\ img.sections[i].vsize \in Nat
  <2> SUFFICES ASSUME NEW i \in 1..m
               PROVE  /\ E.sections[i].va = img.sections[i].va
                      /\ E.sections[i].vsize = img.sections[i].vsize
                      /\ img.sections[i].va \in Nat /\ img.sections[i].vsize \in Nat
    OBVIOUS
  <2> DEFINE s == img.sections[i]
  <2>1. E.sections[i] = Shifted(s, e)
    BY <1>1, OldSection
  <2>2. s \in Sections(n) /\ s.va \in Nat /\ s.vsize \in Nat
    BY <1>1, SectionType
  <2>3. E.sections[i].va = s.va /\ E.sections[i].vsize = s.vsize
    <3> HIDE DEF s
    <3> QED BY <2>1, <2>2 DEF Shifted, Sections
  <2> QED BY <2>2, <2>3
<1>5. \A j \in 1..k : E.sections[m + j].va = va[j] /\ E.sections[m + j].vsize = new[j].size
  <2> SUFFICES ASSUME NEW j \in 1..k
               PROVE  /\ E.sections[m + j].va = va[j]
                      /\ E.sections[m + j].vsize = new[j].size
    OBVIOUS
  <2>1. E.sections[m + j] = Added(new, by, va, fo, j)
    BY NewSection
  <2> QED BY <2>1 DEF Added
<1>6. E.sizeOfImage = RoundUp(va[k] + new[k].size, SectAlign)
  BY ExtendedFields
<1> HIDE DEF m, k
<1>7. k \in 1..k
  BY <1>1, <1>2
<1>8. /\ RoundUp(va[k] + new[k].size, SectAlign) \in Nat
      /\ va[k] + new[k].size <= RoundUp(va[k] + new[k].size, SectAlign)
  <2>1. va[k] + new[k].size \in Nat
    BY <1>3, <1>7
  <2> QED BY <2>1, RoundUpType
<1>9. ASSUME NEW j \in 1..k PROVE va[j] + new[j].size <= E.sizeOfImage
  <2>1. CASE j = k
    BY <1>6, <1>8, <2>1
  <2>2. CASE j # k
    <3>1. va[j] + new[j].size <= va[k]
      BY <1>1, <1>3, <1>7, <2>2
    <3>2. va[j] \in Nat /\ new[j].size \in Nat /\ va[k] \in Nat /\ new[k].size \in Nat
      BY <1>3, <1>7
    <3> QED BY <1>6, <1>8, <3>1, <3>2
  <2> QED BY <2>1, <2>2
<1>10. ASSUME NEW i \in 1..m
       PROVE  /\ E.sections[i].va % SectAlign = 0
              /\ E.sections[i].va + E.sections[i].vsize <= E.sizeOfImage
              /\ \A j \in 1..(m + k) : j > i =>
                   E.sections[i].va + E.sections[i].vsize <= E.sections[j].va
  <2>1. /\ img.sections[i].va % SectAlign = 0
        /\ \A j \in 1..m : j > i =>
             img.sections[i].va + img.sections[i].vsize <= img.sections[j].va
    BY <1>1 DEF InOrder
  <2>2. E.sections[i].va + E.sections[i].vsize <= E.sizeOfImage
    <3>1. img.sections[i].va + img.sections[i].vsize <= va[k]
      BY <1>3, <1>7
    <3>2. va[k] \in Nat /\ new[k].size \in Nat
      BY <1>3, <1>7
    <3> DEFINE a == img.sections[i].va
               b == img.sections[i].vsize
               z == RoundUp(va[k] + new[k].size, SectAlign)
               x == va[k]
               y == new[k].size
    <3>3. /\ a \in Nat /\ b \in Nat /\ z \in Nat /\ x \in Nat /\ y \in Nat
          /\ a + b <= x /\ x + y <= z
      BY <1>4, <1>8, <3>1, <3>2
    <3>4. E.sections[i].va = a /\ E.sections[i].vsize = b /\ E.sizeOfImage = z
      BY <1>4, <1>6
    <3> HIDE DEF a, b, x, y, z
    <3>5. a + b <= z
      BY <3>3
    <3> QED BY <3>4, <3>5
  <2>3. ASSUME NEW j \in 1..(m + k), j > i
        PROVE  E.sections[i].va + E.sections[i].vsize <= E.sections[j].va
    <3>1. CASE j \in 1..m
      BY <1>4, <2>1, <2>3, <3>1
    <3>2. CASE j \notin 1..m
      <4>1. j - m \in 1..k /\ j = m + (j - m)
        BY <1>1, <3>2
      <4>2. E.sections[j].va = va[j - m]
        BY <1>5, <4>1
      <4>3. img.sections[i].va + img.sections[i].vsize <= va[j - m]
        BY <1>3, <4>1
      <4> QED BY <1>4, <4>2, <4>3
    <3> QED BY <3>1, <3>2
  <2> QED BY <1>4, <2>1, <2>2, <2>3
<1>11. ASSUME NEW l \in 1..k, NEW i, i = m + l
       PROVE  /\ E.sections[i].va % SectAlign = 0
              /\ E.sections[i].va + E.sections[i].vsize <= E.sizeOfImage
              /\ \A j \in 1..(m + k) : j > i =>
                   E.sections[i].va + E.sections[i].vsize <= E.sections[j].va
  <2>1. E.sections[i].va = va[l] /\ E.sections[i].vsize = new[l].size
    BY <1>5, <1>11
  <2>2. ASSUME NEW j \in 1..(m + k), j > i
        PROVE  E.sections[i].va + E.sections[i].vsize <= E.sections[j].va
    <3>1. j - m \in 1..k /\ j = m + (j - m) /\ l < j - m
      BY <1>1, <1>11, <2>2
    <3>2. E.sections[j].va = va[j - m]
      BY <1>5, <3>1
    <3> QED BY <1>3, <2>1, <3>1, <3>2
  <2> QED BY <1>3, <1>9, <2>1, <2>2
<1>12. ASSUME NEW i \in 1..(m + k)
       PROVE  /\ E.sections[i].va % SectAlign = 0
              /\ E.sections[i].va + E.sections[i].vsize <= E.sizeOfImage
              /\ \A j \in 1..(m + k) : j > i =>
                   E.sections[i].va + E.sections[i].vsize <= E.sections[j].va
  <2>1. CASE i \in 1..m
    BY <1>10, <2>1
  <2>2. CASE i \notin 1..m
    <3>1. i - m \in 1..k /\ i = m + (i - m)
      BY <1>1, <2>2
    <3> QED BY <1>11, <3>1
  <2> QED BY <2>1, <2>2
<1> QED BY <1>1, <1>6, <1>8, <1>12 DEF InOrder

\* Old long names keep their strings, and each new one has one.
LEMMA NamesKept ==
    ASSUME NEW n \in Nat, NEW img \in Images(n), NEW new \in NewHeaders,
           NEW names \in Seq(Names), NEW by, NEW E, NEW e, NEW va, NEW fo, NEW tables,
           IsExtended(E, img, new, names, by, e, va, fo, tables),
           NamesResolve(img),
           \A j \in 1..Len(new) :
              new[j].name.off < StringTableSize(img) + Len(names)
    PROVE  /\ E.symbolTable \in Nat /\ E.symbolTable # 0 /\ NamesResolve(E)
           /\ StringTableSize(E) = StringTableSize(img) + Len(names)
PROOF
<1> DEFINE m == Len(img.sections)
           k == Len(new)
<1>1. m \in Nat /\ k \in Nat /\ DOMAIN E.sections = 1..(m + k) /\ DOMAIN img.sections = 1..m
  BY ExtendedSections, ImageType
<1>2. tables \in Nat /\ k # 0 /\ fo \in [1..k -> Nat]
  BY DEF IsExtended
<1>3. tables # 0
  <2>1. 1 \in 1..k
    BY <1>1, <1>2
  <2>2. fo[1] + RoundUp(new[1].size, FileAlign) <= tables
    BY <2>1 DEF IsExtended
  <2>3. new[1].size \in Nat /\ new[1].size # 0
    BY <2>1, NewHeaderType
  <2>4. /\ RoundUp(new[1].size, FileAlign) \in Nat
        /\ new[1].size <= RoundUp(new[1].size, FileAlign)
    BY <2>3, RoundUpType
  <2>5. fo[1] \in Nat
    BY <1>2, <2>1
  <2> QED BY <1>2, <2>2, <2>3, <2>4, <2>5
<1>4. E.symbolTable = tables /\ E.strings = img.strings \o names
  BY ExtendedFields
<1>5. img.strings \in Seq(Names) /\ names \in Seq(Names)
  BY ImageType
<1>6. /\ Len(img.strings) \in Nat /\ Len(names) \in Nat
      /\ Len(img.strings \o names) = Len(img.strings) + Len(names)
  BY <1>5
<1>7. /\ StringTableSize(E) = StringTableSize(img) + Len(names)
      /\ StringTableSize(img) \in Nat
  BY <1>4, <1>6 DEF StringTableSize
<1>8. \A i \in 1..m : E.sections[i].name = img.sections[i].name
                      /\ img.sections[i].name.off \in Nat
  <2> SUFFICES ASSUME NEW i \in 1..m
               PROVE  /\ E.sections[i].name = img.sections[i].name
                      /\ img.sections[i].name.off \in Nat
    OBVIOUS
  <2> DEFINE s == img.sections[i]
  <2>1. E.sections[i] = Shifted(s, e)
    BY <1>1, OldSection
  <2>2. s \in Sections(n) /\ s.name.off \in Nat
    BY <1>1, SectionType
  <2>3. E.sections[i].name = s.name
    <3> HIDE DEF s
    <3> QED BY <2>1, <2>2 DEF Shifted, Sections
  <2> QED BY <2>2, <2>3
<1>9. \A j \in 1..k : E.sections[m + j].name = new[j].name
  <2> SUFFICES ASSUME NEW j \in 1..k PROVE E.sections[m + j].name = new[j].name
    OBVIOUS
  <2>1. E.sections[m + j] = Added(new, by, va, fo, j)
    BY NewSection
  <2> QED BY <2>1 DEF Added
<1> HIDE DEF m, k
<1>10. ASSUME NEW i \in 1..(m + k), E.sections[i].name.off # 0
       PROVE  E.sections[i].name.off < StringTableSize(E)
  <2>1. CASE i \in 1..m
    <3>1. img.sections[i].name.off < StringTableSize(img)
      BY <1>1, <1>8, <1>10, <2>1 DEF NamesResolve
    <3> QED BY <1>6, <1>7, <1>8, <2>1, <3>1
  <2>2. CASE i \notin 1..m
    <3>1. i - m \in 1..k /\ i = m + (i - m)
      BY <1>1, <2>2
    <3>2. E.sections[i].name = new[i - m].name
      BY <1>9, <3>1
    <3> QED BY <1>7, <3>1, <3>2 DEF k
  <2> QED BY <2>1, <2>2
<1> QED BY <1>1, <1>2, <1>3, <1>4, <1>7, <1>10 DEF NamesResolve

\* What a name that has a string resolves to stays the same.
LEMMA ResolvedKept ==
    ASSUME NEW n \in Nat, NEW img \in Images(n), NEW new \in NewHeaders,
           NEW names \in Seq(Names), NEW by, NEW E, NEW e, NEW va, NEW fo, NEW tables,
           IsExtended(E, img, new, names, by, e, va, fo, tables),
           NamesResolve(img), NEW i \in DOMAIN img.sections,
           E.symbolTable # 0
    PROVE  Resolved(E, img.sections[i].name) = Resolved(img, img.sections[i].name)
PROOF
<1> DEFINE off == img.sections[i].name.off
<1>1. off \in Nat
  BY SectionType
<1>2. off # 0 => img.symbolTable # 0 /\ off < StringTableSize(img)
  BY DEF NamesResolve
<1>3. E.strings = img.strings \o names
  BY ExtendedFields
<1>4. img.strings \in Seq(Names) /\ names \in Seq(Names)
  BY ImageType
<1>5. CASE off = 0
  BY <1>5 DEF Resolved
<1>6. CASE off # 0
  <2>1. off \in 1..Len(img.strings) /\ off < StringTableSize(img) /\ img.symbolTable # 0
    BY <1>1, <1>2, <1>4, <1>6 DEF StringTableSize
  <2>2. (img.strings \o names)[off] = img.strings[off]
    <3> HIDE DEF off
    <3> QED BY <1>4, <2>1
  <2>3. off < StringTableSize(E)
    <3>1. Len(img.strings \o names) = Len(img.strings) + Len(names)
          /\ Len(img.strings) \in Nat /\ Len(names) \in Nat
      BY <1>4
    <3> HIDE DEF off
    <3> QED BY <1>1, <1>3, <2>1, <3>1 DEF StringTableSize
  <2>4. Resolved(E, img.sections[i].name) = E.strings[off]
    BY <1>6, <2>3 DEF Resolved
  <2>5. Resolved(img, img.sections[i].name) = img.strings[off]
    BY <1>6, <2>1 DEF Resolved
  <2> QED BY <1>3, <2>2, <2>4, <2>5
<1> QED BY <1>5, <1>6

\* A function over 1..m is a sequence.
LEMMA ListIsSequence ==
    ASSUME NEW S, NEW m \in Nat, NEW f, f = [i \in 1..m |-> f[i]],
           \A i \in 1..m : f[i] \in S
    PROVE  f \in Seq(S)
PROOF
<1>1. f \in [1..m -> S]
  OBVIOUS
<1> QED BY <1>1

\* An extended image is an image with one more injection.
LEMMA ExtendedType ==
    ASSUME NEW n \in Nat, NEW img \in Images(n), NEW new \in NewHeaders,
           NEW names \in Seq(Names), NEW by, NEW E, NEW e, NEW va, NEW fo, NEW tables,
           IsExtended(E, img, new, names, by, e, va, fo, tables), by = n + 1,
           E.sizeOfImage \in Nat
    PROVE  E \in Images(n + 1)
PROOF
<1> DEFINE m == Len(img.sections)
           k == Len(new)
<1>1. m \in Nat /\ k \in Nat /\ DOMAIN E.sections = 1..(m + k) /\ DOMAIN img.sections = 1..m
  BY ExtendedSections, ImageType
<1>2. tables \in Nat /\ k # 0 /\ fo \in [1..k -> Nat] /\ va \in [1..k -> Nat] /\ e \in Nat
  BY DEF IsExtended
<1>3. ASSUME NEW i \in 1..m PROVE E.sections[i] \in Sections(n + 1)
  <2> DEFINE s == img.sections[i]
  <2>1. E.sections[i] = Shifted(s, e)
    BY <1>1, OldSection
  <2>2. s \in Sections(n)
    BY <1>1, SectionType
  <2> HIDE DEF s
  <2>3. s.by \in 0..(n + 1) /\ s.at \in Nat /\ s.ptr \in Nat /\ s.at + e \in Nat /\ s.ptr + e \in Nat
    <3> DEFINE b == s.by
               a == s.at
               p == s.ptr
    <3>1. b \in 0..n /\ a \in Nat /\ p \in Nat
      BY <2>2 DEF Sections
    <3> HIDE DEF a, b, p
    <3>2. b \in 0..(n + 1) /\ a + e \in Nat /\ p + e \in Nat
      BY <1>2, <3>1
    <3> QED BY <3>1, <3>2 DEF a, b, p
  <2>4. Shifted(s, e) \in Sections(n + 1)
    BY <2>2, <2>3 DEF Shifted, Sections
  <2> QED BY <2>1, <2>4
<1>4. ASSUME NEW j \in 1..k PROVE E.sections[m + j] \in Sections(n + 1)
  <2>1. E.sections[m + j] = Added(new, by, va, fo, j)
    BY NewSection
  <2>2. /\ new[j].name \in [short : Names \cup {""}, off : Nat]
        /\ new[j].size \in Nat
    BY NewHeaderType
  <2>3. RoundUp(new[j].size, FileAlign) \in Nat
    BY <2>2, RoundUpType
  <2>4. va[j] \in Nat /\ fo[j] \in Nat /\ by \in 0..(n + 1)
    BY <1>2
  <2> DEFINE N == [short : Names \cup {""}, off : Nat]
             nm == new[j].name
             z  == RoundUp(new[j].size, FileAlign)
             y  == new[j].size
  <2>5. /\ nm \in N /\ z \in Nat /\ y \in Nat
        /\ E.sections[m + j] = [name |-> nm, by |-> by, va |-> va[j], vsize |-> y,
                               ptr |-> fo[j], at |-> fo[j], raw |-> z]
    BY <2>1, <2>2, <2>3 DEF Added
  <2>6. Sections(n + 1) = [name : N, by : 0..(n + 1), va : Nat, vsize : Nat,
                           ptr : Nat, at : Nat, raw : Nat]
    BY DEF Sections
  <2> HIDE DEF N, nm, z, y
  <2> QED BY <2>4, <2>5, <2>6
<1> DEFINE moved == [i \in 1..m |-> Shifted(img.sections[i], e)]
           added == [i \in 1..k |-> Added(new, by, va, fo, i)]
<1>5. /\ \A i \in 1..m : moved[i] \in Sections(n + 1)
      /\ \A j \in 1..k : added[j] \in Sections(n + 1)
  <2>1. ASSUME NEW i \in 1..m PROVE moved[i] \in Sections(n + 1)
    <3>1. moved[i] = E.sections[i]
      BY ExtendedSections
    <3> HIDE DEF moved
    <3> QED BY <1>3, <3>1
  <2>2. ASSUME NEW j \in 1..k PROVE added[j] \in Sections(n + 1)
    <3>1. added[j] = Added(new, by, va, fo, j)
      OBVIOUS
    <3>2. E.sections[m + j] = Added(new, by, va, fo, j)
      BY NewSection
    <3>3. added[j] = E.sections[m + j]
      BY <3>1, <3>2
    <3> HIDE DEF added
    <3> QED BY <1>4, <3>3
  <2> HIDE DEF moved, added
  <2> QED BY <2>1, <2>2
<1>6. E.sections \in Seq(Sections(n + 1))
  <2>1. E.sections = moved \o added
    BY DEF IsExtended, Images
  <2>2. moved = [i \in 1..m |-> moved[i]] /\ added = [i \in 1..k |-> added[i]]
    OBVIOUS
  <2> HIDE DEF moved, added
  <2>3. moved \in Seq(Sections(n + 1)) /\ added \in Seq(Sections(n + 1))
    BY <1>1, <1>5, <2>2, ListIsSequence
  <2> QED BY <2>1, <2>3
<1>7. /\ E.sizeOfHeaders = img.sizeOfHeaders + e
      /\ E.overlay = img.overlay + e /\ E.tail = img.tail
      /\ E.symbolTable = tables /\ E.symbols = img.symbols
      /\ E.strings = img.strings \o names
      /\ E.size = tables + img.symbols + 1 + Len(img.strings \o names)
      /\ E.directory = img.directory
  BY ExtendedFields
<1>8. /\ img.sizeOfHeaders \in Nat /\ img.overlay \in Nat /\ img.symbols \in Nat
      /\ img.tail \in Nat
      /\ img.strings \in Seq(Names) /\ img.directory \in [va : Nat, ptr : Nat, by : 0..n]
  BY DEF Images
<1>9. /\ E.sizeOfHeaders \in Nat /\ E.overlay \in Nat /\ E.symbolTable \in Nat
      /\ E.symbols \in Nat /\ E.tail \in Nat
  <2> DEFINE h == img.sizeOfHeaders
             o == img.overlay
  <2>1. h \in Nat /\ o \in Nat
    BY <1>8
  <2> HIDE DEF h, o
  <2>2. h + e \in Nat /\ o + e \in Nat
    BY <1>2, <2>1
  <2> QED BY <1>2, <1>7, <1>8, <2>2 DEF h, o
<1>10. E.strings \in Seq(Names) /\ Len(img.strings \o names) \in Nat
  BY <1>7, <1>8
<1>11. E.size \in Nat
  <2> DEFINE x == img.symbols
             L == Len(img.strings \o names)
  <2>1. x \in Nat /\ L \in Nat
    BY <1>8, <1>10
  <2> HIDE DEF x, L
  <2>2. tables + x + 1 + L \in Nat
    BY <1>2, <2>1
  <2> QED BY <1>7, <2>2 DEF x, L
<1>12. E.directory \in [va : Nat, ptr : Nat, by : 0..(n + 1)]
  <2>1. img.directory.by \in 0..(n + 1)
    <3>1. img.directory.by \in 0..n
      BY <1>8
    <3> QED BY <3>1
  <2> QED BY <1>7, <1>8, <2>1
<1>13. E = [sections |-> E.sections, sizeOfHeaders |-> E.sizeOfHeaders,
            symbolTable |-> E.symbolTable, symbols |-> E.symbols,
            strings |-> E.strings, overlay |-> E.overlay, tail |-> E.tail,
            size |-> E.size, sizeOfImage |-> E.sizeOfImage, directory |-> E.directory]
  BY DEF IsExtended, Images
<1> QED BY <1>6, <1>9, <1>10, <1>11, <1>12, <1>13 DEF Images

-----------------------------------------------------------------------------
(* Images that are well formed, and what keeps them so.                     *)

\* An image after n injections: what TypeOK and the three safety invariants say
\* of it, and that its long names have strings.
WellFormed(n, img) ==
    /\ img \in Images(n)
    /\ DataFound(img) /\ Disjoint(img) /\ InOrder(img) /\ NamesResolve(img)

\* An image with new sections is well-formed, whichever injector adds them.
LEMMA ExtendedWellFormed ==
    ASSUME NEW n \in Nat, NEW img, WellFormed(n, img), NEW new \in NewHeaders,
           new # <<>>, NEW names \in Seq(Names), NEW by, by = n + 1,
           \A j \in 1..Len(new) : new[j].name.off < StringTableSize(img) + Len(names)
    PROVE  LET E == Extended(img, new, names, by)
           IN  /\ WellFormed(n + 1, E) /\ E.symbolTable # 0
               /\ \E e, va, fo, tables :
                    IsExtended(E, img, new, names, by, e, va, fo, tables)
PROOF
<1>1. /\ img \in Images(n) /\ DataFound(img) /\ Disjoint(img) /\ InOrder(img)
      /\ NamesResolve(img)
  BY DEF WellFormed
<1>2. TableEnd(img) <= img.sizeOfHeaders
  BY <1>1 DEF Disjoint
<1> DEFINE E == Extended(img, new, names, by)
<1>3. PICK e, va, fo, tables : IsExtended(E, img, new, names, by, e, va, fo, tables)
  BY <1>1, <1>2, ExtendedIs
<1> HIDE DEF E
<1>4. DataFound(E)
  BY <1>1, <1>3, DataStaysFound
<1>5. Separate(E)
  BY <1>1, <1>3, RegionsStayApart
<1>6. E.sizeOfImage \in Nat /\ InOrder(E)
  BY <1>1, <1>3, OrderKept
<1>7. E.symbolTable # 0 /\ NamesResolve(E)
  BY <1>1, <1>3, NamesKept
<1>8. E \in Images(n + 1)
  BY <1>1, <1>3, <1>6, ExtendedType
<1>9. Disjoint(E)
  <2>1. n + 1 \in Nat
    OBVIOUS
  <2> QED BY <1>5, <1>8, <2>1, SeparateIsDisjoint
<1>10. WellFormed(n + 1, E) /\ E.symbolTable # 0
       /\ \E a, b, c, d : IsExtended(E, img, new, names, by, a, b, c, d)
  BY <1>3, <1>4, <1>6, <1>7, <1>8, <1>9 DEF WellFormed
<1> QED BY <1>10 DEF E

\* Renaming sections changes nothing but names, and no section keeps the name of
\* one with debug information.
Aside(img) == [img EXCEPT !.sections = [i \in DOMAIN @ |-> Renamed(img, @[i])]]

\* Renaming the older debug sections changes their names only.
LEMMA AsideSections ==
    ASSUME NEW n \in Nat, NEW img \in Images(n)
    PROVE  LET old == Aside(img)
           IN  /\ old \in Images(n)
               /\ DOMAIN old.sections = DOMAIN img.sections
               /\ Len(old.sections) = Len(img.sections)
               /\ \A i \in DOMAIN img.sections :
                    /\ old.sections[i] = Renamed(img, img.sections[i])
                    /\ old.sections[i].va = img.sections[i].va
                    /\ old.sections[i].vsize = img.sections[i].vsize
                    /\ old.sections[i].ptr = img.sections[i].ptr
                    /\ old.sections[i].at = img.sections[i].at
                    /\ old.sections[i].raw = img.sections[i].raw
                    /\ old.sections[i].by = img.sections[i].by
               /\ old.sizeOfHeaders = img.sizeOfHeaders
               /\ old.overlay = img.overlay /\ old.tail = img.tail
               /\ old.symbolTable = img.symbolTable /\ old.symbols = img.symbols
               /\ old.strings = img.strings /\ old.size = img.size
               /\ old.sizeOfImage = img.sizeOfImage /\ old.directory = img.directory
PROOF
<1> DEFINE m == Len(img.sections)
           all == [i \in DOMAIN img.sections |-> Renamed(img, img.sections[i])]
           old == Aside(img)
<1>1. m \in Nat /\ DOMAIN img.sections = 1..m
  BY ImageType
<1>2. \A i \in DOMAIN img.sections :
        /\ Renamed(img, img.sections[i]) \in Sections(n)
        /\ Renamed(img, img.sections[i]).va = img.sections[i].va
        /\ Renamed(img, img.sections[i]).vsize = img.sections[i].vsize
        /\ Renamed(img, img.sections[i]).ptr = img.sections[i].ptr
        /\ Renamed(img, img.sections[i]).at = img.sections[i].at
        /\ Renamed(img, img.sections[i]).raw = img.sections[i].raw
        /\ Renamed(img, img.sections[i]).by = img.sections[i].by
  <2> SUFFICES ASSUME NEW i \in DOMAIN img.sections
               PROVE  LET s == img.sections[i]
                          r == Renamed(img, s)
                      IN  /\ r \in Sections(n) /\ r.va = s.va /\ r.vsize = s.vsize
                          /\ r.ptr = s.ptr /\ r.at = s.at /\ r.raw = s.raw /\ r.by = s.by
    OBVIOUS
  <2> DEFINE s == img.sections[i]
  <2>1. s \in Sections(n)
    BY SectionType
  <2>2. Short(".old_dw") \in [short : Names \cup {""}, off : Nat]
    BY DEF Short, Names
  <2> HIDE DEF s
  <2>3. CASE Resolved(img, s.name) \in DebugNames
    BY <2>1, <2>2, <2>3 DEF Renamed, Sections, s
  <2>4. CASE Resolved(img, s.name) \notin DebugNames
    BY <2>1, <2>4 DEF Renamed, s
  <2> QED BY <2>3, <2>4
<1> HIDE DEF m
<1>3. all \in Seq(Sections(n)) /\ DOMAIN all = DOMAIN img.sections /\ Len(all) = m
  <2>1. all = [i \in 1..m |-> all[i]] /\ \A i \in 1..m : all[i] \in Sections(n)
    BY <1>1, <1>2
  <2> HIDE DEF all
  <2>2. all \in Seq(Sections(n))
    BY <1>1, <2>1, ListIsSequence
  <2> QED BY <1>1, <2>1, <2>2
<1>4. old = [img EXCEPT !.sections = all]
  BY DEF Aside
<1> HIDE DEF old
<1>5. /\ old.sections = all
      /\ old.sizeOfHeaders = img.sizeOfHeaders /\ old.overlay = img.overlay /\ old.tail = img.tail
      /\ old.symbolTable = img.symbolTable /\ old.symbols = img.symbols
      /\ old.strings = img.strings /\ old.size = img.size
      /\ old.sizeOfImage = img.sizeOfImage /\ old.directory = img.directory
  <2> HIDE DEF all
  <2> QED BY <1>4 DEF Images
<1>6. old \in Images(n)
  <2> HIDE DEF all
  <2> QED BY <1>3, <1>4 DEF Images
<1>7. \A i \in DOMAIN img.sections : all[i] = Renamed(img, img.sections[i])
  OBVIOUS
<1> HIDE DEF all
<1> QED BY <1>2, <1>3, <1>5, <1>6, <1>7 DEF m, old

\* An image whose older debug sections are renamed is well-formed.
LEMMA AsideWellFormed ==
    ASSUME NEW n \in Nat, NEW img, WellFormed(n, img)
    PROVE  WellFormed(n, Aside(img))
PROOF
<1> DEFINE old == Aside(img)
<1>1. /\ img \in Images(n) /\ DataFound(img) /\ Disjoint(img) /\ InOrder(img)
      /\ NamesResolve(img)
  BY DEF WellFormed
<1>2. /\ old \in Images(n)
      /\ DOMAIN old.sections = DOMAIN img.sections
      /\ Len(old.sections) = Len(img.sections)
      /\ \A i \in DOMAIN img.sections :
           /\ old.sections[i] = Renamed(img, img.sections[i])
           /\ old.sections[i].va = img.sections[i].va
           /\ old.sections[i].vsize = img.sections[i].vsize
           /\ old.sections[i].ptr = img.sections[i].ptr
           /\ old.sections[i].at = img.sections[i].at
           /\ old.sections[i].raw = img.sections[i].raw
           /\ old.sections[i].by = img.sections[i].by
      /\ old.sizeOfHeaders = img.sizeOfHeaders /\ old.overlay = img.overlay /\ old.tail = img.tail
      /\ old.symbolTable = img.symbolTable /\ old.symbols = img.symbols
      /\ old.strings = img.strings /\ old.size = img.size
      /\ old.sizeOfImage = img.sizeOfImage /\ old.directory = img.directory
  BY <1>1, AsideSections
<1> HIDE DEF old
<1>3. DataFound(old)
  BY <1>1, <1>2 DEF DataFound
<1>4. InOrder(old)
  BY <1>1, <1>2 DEF InOrder
<1>5. NamesResolve(old)
  <2>1. StringTableSize(old) = StringTableSize(img)
    BY <1>2 DEF StringTableSize
  <2>2. ASSUME NEW i \in DOMAIN old.sections, old.sections[i].name.off # 0
        PROVE  old.sections[i].name = img.sections[i].name
    <3>1. old.sections[i] = Renamed(img, img.sections[i]) /\ i \in DOMAIN img.sections
      BY <1>2
    <3> DEFINE s == img.sections[i]
    <3>2. s \in Sections(n)
      BY <1>1, <3>1, SectionType
    <3> HIDE DEF s
    <3>3. CASE Resolved(img, s.name) \in DebugNames
      <4>1. Renamed(img, s).name = Short(".old_dw")
        BY <3>2, <3>3 DEF Renamed, Sections
      <4>2. Short(".old_dw").off = 0
        BY DEF Short
      <4> QED BY <2>2, <3>1, <4>1, <4>2 DEF s
    <3>4. CASE Resolved(img, s.name) \notin DebugNames
      BY <3>1, <3>4 DEF Renamed, s
    <3> QED BY <3>3, <3>4
  <2> QED BY <1>1, <1>2, <2>1, <2>2 DEF NamesResolve
<1>6. Disjoint(old)
  <2>1. TableEnd(old) = TableEnd(img) /\ SymbolTableEnd(old) = SymbolTableEnd(img)
    BY <1>2 DEF TableEnd, SymbolTableEnd, StringTableSize
  <2>2. \A i : /\ HasData(old, i) <=> HasData(img, i)
               /\ HasData(img, i) => /\ DataFrom(old, i) = DataFrom(img, i)
                                     /\ DataTo(old, i) = DataTo(img, i)
    BY <1>2 DEF HasData, DataFrom, DataTo
  <2>3. Separate(img)
    BY <1>1, DisjointIsSeparate
  <2>4. Separate(old)
    BY <1>2, <2>1, <2>2, <2>3 DEF Separate, ClearOfTail
  <2> QED BY <1>2, <2>4, SeparateIsDisjoint
<1> QED BY <1>2, <1>3, <1>4, <1>5, <1>6 DEF WellFormed, old

\* Pointing the debug directory elsewhere moves nothing.
LEMMA DirectoryWellFormed ==
    ASSUME NEW n \in Nat, NEW img, WellFormed(n, img),
           NEW d \in [va : Nat, ptr : Nat, by : 0..n]
    PROVE  LET dir == [img EXCEPT !.directory = d]
           IN  /\ WellFormed(n, dir) /\ dir.sections = img.sections
               /\ dir.strings = img.strings /\ dir.symbolTable = img.symbolTable
               /\ dir.directory = d
PROOF
<1> DEFINE dir == [img EXCEPT !.directory = d]
<1>1. /\ img \in Images(n) /\ DataFound(img) /\ Disjoint(img) /\ InOrder(img)
      /\ NamesResolve(img)
  BY DEF WellFormed
<1>2. /\ dir \in Images(n)
      /\ dir.sections = img.sections /\ dir.directory = d
      /\ dir.sizeOfHeaders = img.sizeOfHeaders /\ dir.overlay = img.overlay /\ dir.tail = img.tail
      /\ dir.symbolTable = img.symbolTable /\ dir.symbols = img.symbols
      /\ dir.strings = img.strings /\ dir.size = img.size
      /\ dir.sizeOfImage = img.sizeOfImage
  BY <1>1 DEF Images
<1> HIDE DEF dir
<1>3. DataFound(dir) /\ InOrder(dir)
  BY <1>1, <1>2 DEF DataFound, InOrder
<1>4. NamesResolve(dir)
  BY <1>1, <1>2 DEF NamesResolve, StringTableSize
<1>5. TableEnd(dir) = TableEnd(img) /\ SymbolTableEnd(dir) = SymbolTableEnd(img)
  BY <1>2 DEF TableEnd, SymbolTableEnd, StringTableSize
<1>6. Regions(dir) = Regions(img)
  BY <1>2, <1>5 DEF Regions
<1>7. Disjoint(dir)
  BY <1>1, <1>2, <1>5, <1>6 DEF Disjoint
<1> QED BY <1>2, <1>3, <1>4, <1>7 DEF WellFormed, dir

-----------------------------------------------------------------------------
(* The injectors keep images well formed, and the newest found.             *)

\* The long names are names.
LEMMA NamesAreNames ==
    \A i \in DOMAIN DwarfNames : DwarfNames[i] \in Names /\ DwarfNames[i] \in Range(DwarfNames)
PROOF BY DEF Names, DebugNames, Range

\* A long name.
LEMMA LongType ==
    ASSUME NEW o \in Nat
    PROVE  Long(o) \in [short : Names \cup {""}, off : Nat] /\ Long(o).off = o
PROOF BY DEF Long

\* The part of NewestIsFound about the sections, for any image.
NamedOnlyBy(img, latest) ==
    \A i \in DOMAIN img.sections :
       Resolved(img, img.sections[i].name) \in Range(DwarfNames)
          => img.sections[i].by = latest

\* The part about the debug directory.
DirectoryOf(img, latest) ==
    /\ img.directory.by = latest
    /\ latest # 0 => \E i \in DOMAIN img.sections :
         img.sections[i].va = img.directory.va /\ img.sections[i].by = latest

\* A directory that leads to a section still does when sections are added.
LEMMA DirectoryKept ==
    ASSUME NEW n \in Nat, NEW img \in Images(n), NEW new \in NewHeaders,
           NEW names, NEW by, NEW E, NEW e, NEW va, NEW fo, NEW tables,
           IsExtended(E, img, new, names, by, e, va, fo, tables),
           NEW latest, DirectoryOf(img, latest)
    PROVE  DirectoryOf(E, latest)
PROOF
<1>1. E.directory = img.directory
  BY ExtendedFields
<1>2. ASSUME NEW i \in DOMAIN img.sections
      PROVE  /\ i \in DOMAIN E.sections
             /\ E.sections[i].va = img.sections[i].va
             /\ E.sections[i].by = img.sections[i].by
  <2>1. /\ i \in 1..Len(img.sections) /\ Len(img.sections) \in Nat /\ Len(new) \in Nat
        /\ DOMAIN E.sections = 1..(Len(img.sections) + Len(new))
    <3>1. DOMAIN img.sections = 1..Len(img.sections)
      BY ImageType
    <3>2. /\ Len(img.sections) \in Nat /\ Len(new) \in Nat
          /\ DOMAIN E.sections = 1..(Len(img.sections) + Len(new))
      BY ExtendedSections
    <3> QED BY <3>1, <3>2
  <2>2. i \in DOMAIN E.sections
    BY <2>1
  <2>3. E.sections[i] = Shifted(img.sections[i], e)
    BY <1>1, OldSection
  <2> DEFINE s == img.sections[i]
  <2>4. s \in Sections(n)
    BY SectionType
  <2>5. E.sections[i].va = s.va /\ E.sections[i].by = s.by
    <3>1. E.sections[i] = Shifted(s, e)
      BY <2>3
    <3> HIDE DEF s
    <3> QED BY <2>4, <3>1 DEF Shifted, Sections
  <2> QED BY <2>2, <2>5
<1> QED BY <1>1, <1>2 DEF DirectoryOf

\* Old sections keep their resolved names and their serials.
LEMMA OldNamesKept ==
    ASSUME NEW n \in Nat, NEW img \in Images(n), NEW new \in NewHeaders,
           NEW names \in Seq(Names), NEW by, NEW E, NEW e, NEW va, NEW fo, NEW tables,
           IsExtended(E, img, new, names, by, e, va, fo, tables),
           NamesResolve(img), E.symbolTable # 0, NEW i \in DOMAIN img.sections
    PROVE  /\ Resolved(E, E.sections[i].name) = Resolved(img, img.sections[i].name)
           /\ E.sections[i].by = img.sections[i].by
PROOF
<1> DEFINE s == img.sections[i]
<1>1. E.sections[i] = Shifted(s, e)
  BY OldSection
<1>2. s \in Sections(n)
  BY SectionType
<1>3. E.sections[i].name = s.name /\ E.sections[i].by = s.by
  <2> HIDE DEF s
  <2> QED BY <1>1, <1>2 DEF Shifted, Sections
<1>4. Resolved(E, s.name) = Resolved(img, s.name)
  BY ResolvedKept
<1> QED BY <1>3, <1>4

\* A section of an extended image is an old or a new one.
LEMMA OldOrNew ==
    ASSUME NEW n \in Nat, NEW img \in Images(n), NEW new \in NewHeaders,
           NEW names, NEW by, NEW E, NEW e, NEW va, NEW fo, NEW tables,
           IsExtended(E, img, new, names, by, e, va, fo, tables),
           NEW i \in DOMAIN E.sections
    PROVE  \/ i \in DOMAIN img.sections
           \/ \E j \in 1..Len(new) : /\ i = Len(img.sections) + j
                                     /\ E.sections[i].by = by
                                     /\ E.sections[i].name = new[j].name
PROOF
<1> DEFINE m == Len(img.sections)
           k == Len(new)
<1>1. /\ m \in Nat /\ k \in Nat /\ DOMAIN E.sections = 1..(m + k)
      /\ DOMAIN img.sections = 1..m
  BY ExtendedSections, ImageType
<1>2. CASE i \in 1..m
  BY <1>1, <1>2
<1>3. CASE i \notin 1..m
  <2>1. i - m \in 1..k /\ i = m + (i - m)
    <3> HIDE DEF m, k
    <3> QED BY <1>1, <1>3
  <2>2. PICK j \in 1..k : i = m + j
    BY <2>1
  <2>3. E.sections[m + j] = Added(new, by, va, fo, j)
    BY NewSection
  <2>4. E.sections[m + j].by = by /\ E.sections[m + j].name = new[j].name
    BY <2>3 DEF Added
  <2> QED BY <2>2, <2>4
<1> QED BY <1>2, <1>3

\* What the proofs rest on: TypeOK, an image that is well formed, and the newest
\* debug information found.
Inv == TypeOK /\ WellFormed(serial, image) /\ NewestIsFound

\* Inv at the start.
LEMMA InitInv == Init => Inv
PROOF
<1> SUFFICES ASSUME Init PROVE Inv
  OBVIOUS
<1>1. image \in Linked /\ serial = 0 /\ lastDwarf = 0 /\ lastPdb = 0
  BY DEF Init
<1>2. WellFormed(0, image)
  BY <1>1, LinkedAssumption DEF WellFormed
<1>3. image \in Images(0)
  BY <1>2 DEF WellFormed
<1>4. TypeOK
  BY <1>1, <1>3 DEF TypeOK
<1>5. \A i \in DOMAIN image.sections : image.sections[i].by = 0
  <2> SUFFICES ASSUME NEW i \in DOMAIN image.sections PROVE image.sections[i].by = 0
    OBVIOUS
  <2>1. image.sections[i].by \in 0..0
    BY <1>3, SectionType
  <2> QED BY <2>1
<1>6. image.directory.by = 0
  <2>1. image.directory.by \in 0..0
    BY <1>3 DEF Images
  <2> QED BY <2>1
<1> QED BY <1>1, <1>2, <1>4, <1>5, <1>6 DEF Inv, NewestIsFound

\* InjectDwarf keeps Inv.
LEMMA DwarfStep ==
    ASSUME Inv, InjectDwarf
    PROVE  Inv'
PROOF
<1>1. PICK n \in 1..Len(DwarfNames) :
      \E which \in [1..n -> DOMAIN DwarfNames], size \in [1..n -> Payloads] :
      LET strs == [i \in 1..n |-> DwarfNames[which[i]]]
          new  == [i \in 1..n |->
                     [name |-> Long(StringTableSize(image) + i - 1), size |-> size[i]]]
      IN  /\ serial < MaxInjections
          /\ image' = Extended(Aside(image), new, strs, serial + 1)
          /\ serial' = serial + 1 /\ lastDwarf' = serial + 1
          /\ UNCHANGED lastPdb
  BY DEF InjectDwarf, Aside
<1>2. PICK which \in [1..n -> DOMAIN DwarfNames], size \in [1..n -> Payloads] :
      LET strs == [i \in 1..n |-> DwarfNames[which[i]]]
          new  == [i \in 1..n |->
                     [name |-> Long(StringTableSize(image) + i - 1), size |-> size[i]]]
      IN  /\ serial < MaxInjections
          /\ image' = Extended(Aside(image), new, strs, serial + 1)
          /\ serial' = serial + 1 /\ lastDwarf' = serial + 1
          /\ UNCHANGED lastPdb
  BY <1>1
<1>3. PICK s, img, top : s = serial /\ img = Aside(image) /\ top = StringTableSize(image)
  OBVIOUS
<1>4. PICK strs, new :
        /\ strs = [i \in 1..n |-> DwarfNames[which[i]]]
        /\ new = [i \in 1..n |-> [name |-> Long(top + i - 1), size |-> size[i]]]
  OBVIOUS
<1>5. /\ s < MaxInjections /\ image' = Extended(img, new, strs, s + 1)
      /\ serial' = s + 1 /\ lastDwarf' = s + 1 /\ lastPdb' = lastPdb
  BY <1>2, <1>3, <1>4
<1>6. n \in Nat /\ n # 0
  <2>1. Len(DwarfNames) \in Nat
    <3>1. DwarfNames \in Seq(STRING)
      BY NamesAssumption
    <3> QED BY <3>1
  <2> QED BY <2>1
<1>7. s \in Nat /\ s \in 0..MaxInjections /\ WellFormed(s, image) /\ image \in Images(s)
  BY <1>3 DEF Inv, TypeOK, WellFormed
<1>8. WellFormed(s, img) /\ img \in Images(s) /\ StringTableSize(img) = top
  <2>1. WellFormed(s, img)
    BY <1>3, <1>7, AsideWellFormed
  <2>2. img.strings = image.strings
    BY <1>3, <1>7, AsideSections
  <2> QED BY <1>3, <2>1, <2>2 DEF WellFormed, StringTableSize
<1>9. top \in Nat /\ top # 0
  <2>1. Len(img.strings) \in Nat
    BY <1>7, <1>8, ImageType
  <2> QED BY <1>8, <2>1 DEF StringTableSize
<1>10. strs \in Seq(Names) /\ Len(strs) = n
  <2>1. \A i \in 1..n : DwarfNames[which[i]] \in Names
    BY NamesAreNames
  <2> QED BY <1>4, <1>6, <2>1
<1>11. \A i \in 1..n : /\ new[i] = [name |-> Long(top + i - 1), size |-> size[i]]
                       /\ new[i].name = Long(top + i - 1)
                       /\ new[i].name.off = top + i - 1
  BY <1>4 DEF Long
<1>12. new \in NewHeaders /\ Len(new) = n /\ new # <<>>
  <2> DEFINE N == [short : Names \cup {""}, off : Nat]
             H == [name : N, size : Nat \ {0}]
  <2>1. ASSUME NEW i \in 1..n PROVE new[i] \in H
    <3>1. top + i - 1 \in Nat
      BY <1>6, <1>9
    <3>2. Long(top + i - 1) \in N
      BY <3>1, LongType
    <3>3. size[i] \in Nat \ {0}
      OBVIOUS
    <3> DEFINE nm == Long(top + i - 1)
    <3>4. new[i] = [name |-> nm, size |-> size[i]]
      BY <1>11
    <3> HIDE DEF N, nm
    <3>5. nm \in N
      BY <3>2 DEF nm
    <3> QED BY <3>3, <3>4, <3>5
  <2> HIDE DEF H
  <2>2. new = [i \in 1..n |-> new[i]]
    BY <1>4
  <2>3. new \in Seq(H)
    BY <1>6, <2>1, <2>2, ListIsSequence
  <2>4. Len(new) = n /\ new # <<>>
    BY <1>6, <2>2
  <2> QED BY <2>3, <2>4 DEF H, NewHeaders
<1>13. \A j \in 1..Len(new) : new[j].name.off < StringTableSize(img) + Len(strs)
  BY <1>6, <1>8, <1>9, <1>10, <1>11, <1>12
<1>14. PICK by : by = s + 1
  OBVIOUS
<1> DEFINE E == Extended(img, new, strs, by)
<1>15. /\ WellFormed(s + 1, E) /\ E.symbolTable # 0
       /\ \E e, va, fo, tables : IsExtended(E, img, new, strs, by, e, va, fo, tables)
  BY <1>7, <1>8, <1>10, <1>12, <1>13, <1>14, ExtendedWellFormed
<1>16. image' = E
  BY <1>5, <1>14
<1> HIDE DEF E
<1>17. PICK e, va, fo, tables : IsExtended(E, img, new, strs, by, e, va, fo, tables)
  BY <1>15
<1>18. NamedOnlyBy(E, by)
  <2>1. ASSUME NEW i \in DOMAIN img.sections
        PROVE  Resolved(E, E.sections[i].name) \notin Range(DwarfNames)
    <3>1. Resolved(E, E.sections[i].name) = Resolved(img, img.sections[i].name)
      BY <1>7, <1>8, <1>10, <1>12, <1>15, <1>17, OldNamesKept DEF WellFormed
    <3>2. /\ i \in DOMAIN image.sections
          /\ img.sections[i] = Renamed(image, image.sections[i])
          /\ img.strings = image.strings /\ img.symbolTable = image.symbolTable
      BY <1>3, <1>7, AsideSections
    <3> DEFINE t == image.sections[i]
    <3>3. t \in Sections(s)
      BY <1>7, <3>2, SectionType
    <3>4. \A nm : Resolved(img, nm) = Resolved(image, nm)
      BY <3>2 DEF Resolved, StringTableSize
    <3>5. CASE Resolved(image, t.name) \in DebugNames
      <4>1. Renamed(image, t).name = Short(".old_dw")
        <5> HIDE DEF t
        <5> QED BY <3>3, <3>5 DEF Renamed, Sections
      <4>2. Resolved(img, img.sections[i].name) = ".old_dw"
        BY <3>2, <4>1 DEF Resolved, Short
      <4>3. ".old_dw" \notin Range(DwarfNames)
        BY NamesAssumption
      <4> QED BY <3>1, <4>2, <4>3
    <3>6. CASE Resolved(image, t.name) \notin DebugNames
      <4>1. img.sections[i].name = t.name
        BY <3>2, <3>6 DEF Renamed
      <4> QED BY <3>1, <3>4, <3>6, <4>1 DEF DebugNames
    <3> QED BY <3>5, <3>6
  <2>2. ASSUME NEW i \in DOMAIN E.sections,
               Resolved(E, E.sections[i].name) \in Range(DwarfNames)
        PROVE  E.sections[i].by = by
    <3>1. i \notin DOMAIN img.sections
      BY <2>1, <2>2
    <3> QED BY <1>7, <1>8, <1>12, <1>17, <3>1, OldOrNew
  <2> QED BY <2>2 DEF NamedOnlyBy
<1>19. DirectoryOf(E, lastPdb)
  <2>1. DirectoryOf(image, lastPdb)
    BY DEF Inv, NewestIsFound, DirectoryOf
  <2>2. DirectoryOf(img, lastPdb)
    <3>1. /\ DOMAIN img.sections = DOMAIN image.sections
          /\ \A i \in DOMAIN image.sections :
               /\ img.sections[i].va = image.sections[i].va
               /\ img.sections[i].by = image.sections[i].by
          /\ img.directory = image.directory
      BY <1>3, <1>7, AsideSections
    <3> QED BY <2>1, <3>1 DEF DirectoryOf
  <2> QED BY <1>7, <1>8, <1>12, <1>17, <2>2, DirectoryKept
<1>20. TypeOK'
  <2>1. lastPdb \in 0..s
    BY <1>3 DEF Inv, TypeOK
  <2>2. s + 1 \in 0..MaxInjections /\ s + 1 \in 0..(s + 1) /\ lastPdb \in 0..(s + 1)
    BY <1>5, <1>7, <2>1
  <2>3. E \in Images(s + 1)
    BY <1>15 DEF WellFormed
  <2> QED BY <1>5, <1>16, <2>2, <2>3 DEF TypeOK
<1>21. NewestIsFound'
  BY <1>5, <1>14, <1>16, <1>18, <1>19 DEF NewestIsFound, NamedOnlyBy, DirectoryOf
<1>22. WellFormed(serial, image)'
  BY <1>5, <1>15, <1>16
<1> QED BY <1>20, <1>21, <1>22 DEF Inv

\* InjectPdb keeps Inv.
LEMMA PdbStep ==
    ASSUME Inv, InjectPdb
    PROVE  Inv'
PROOF
<1> DEFINE new == <<[name |-> Short(".debug"), size |-> PdbPayload]>>
<1>1. PICK s, img, by, none : s = serial /\ img = image /\ by = serial + 1 /\ none = <<>>
  OBVIOUS
<1>2. PICK E : E = Extended(img, new, none, by)
  OBVIOUS
<1>3. /\ s < MaxInjections /\ image' = [E EXCEPT !.directory = Directory(E)]
      /\ serial' = s + 1 /\ lastPdb' = s + 1 /\ lastDwarf' = lastDwarf
  BY <1>1, <1>2 DEF InjectPdb
<1>4. s \in Nat /\ s \in 0..MaxInjections /\ WellFormed(s, img) /\ img \in Images(s)
  BY <1>1 DEF Inv, TypeOK, WellFormed
<1>5. new \in NewHeaders /\ new # <<>> /\ Len(new) = 1 /\ new[1].name = Short(".debug")
  <2> DEFINE N == [short : Names \cup {""}, off : Nat]
             H == [name : N, size : Nat \ {0}]
             nm == Short(".debug")
  <2>1. nm \in N
    BY DEF Short, Names, DebugNames
  <2>2. PdbPayload \in Nat \ {0}
    OBVIOUS
  <2>3. new = <<[name |-> nm, size |-> PdbPayload]>>
    OBVIOUS
  <2> HIDE DEF N, nm, new
  <2>4. [name |-> nm, size |-> PdbPayload] \in H
    BY <2>1, <2>2
  <2>5. new[1] = [name |-> nm, size |-> PdbPayload] /\ Len(new) = 1 /\ new # <<>>
    BY <2>3
  <2> HIDE DEF H
  <2>6. new \in Seq(H)
    BY <2>3, <2>4
  <2>7. new \in NewHeaders
    BY <2>6 DEF H, N, NewHeaders
  <2>8. new[1].name = nm
    BY <2>5
  <2> QED BY <2>5, <2>7, <2>8 DEF nm
<1> HIDE DEF new
<1>6. \A j \in 1..Len(new) : new[j].name.off < StringTableSize(img) + Len(none)
  <2>1. new[1].name.off = 0
    BY <1>5 DEF Short
  <2>2. StringTableSize(img) \in Nat /\ StringTableSize(img) # 0
    <3>1. Len(img.strings) \in Nat
      BY <1>4, ImageType
    <3> QED BY <3>1 DEF StringTableSize
  <2>3. Len(none) = 0
    BY <1>1
  <2> QED BY <1>5, <2>1, <2>2, <2>3
<1>7. none \in Seq(Names)
  BY <1>1
<1>8. /\ WellFormed(s + 1, E) /\ E.symbolTable # 0
      /\ \E e, va, fo, tables : IsExtended(E, img, new, none, by, e, va, fo, tables)
  BY <1>1, <1>2, <1>4, <1>5, <1>6, <1>7, ExtendedWellFormed
<1>9. PICK e, va, fo, tables : IsExtended(E, img, new, none, by, e, va, fo, tables)
  BY <1>8
<1>10. PICK last \in DOMAIN E.sections :
          /\ Last(E.sections) = E.sections[last] /\ E.sections[last].by = by
          /\ E.sections[last] \in Sections(s + 1)
  <2> DEFINE m == Len(img.sections)
  <2>1. /\ m \in Nat /\ Len(E.sections) = m + 1 /\ DOMAIN E.sections = 1..(m + 1)
    <3>1. /\ m \in Nat /\ Len(E.sections) = m + Len(new)
          /\ DOMAIN E.sections = 1..(m + Len(new))
      <4>1. new \in NewHeaders
        BY <1>5
      <4> HIDE DEF m
      <4> QED BY <1>4, <1>9, <4>1, ExtendedSections DEF m
    <3> QED BY <1>5, <3>1
  <2>2. 1 \in 1..Len(new)
    BY <1>5
  <2>3. E.sections[m + 1] = Added(new, by, va, fo, 1)
    BY <1>4, <1>5, <1>9, <2>2, NewSection
  <2>4. E.sections[m + 1].by = by
    BY <2>3 DEF Added
  <2> HIDE DEF m
  <2>5. m + 1 \in DOMAIN E.sections /\ Last(E.sections) = E.sections[m + 1]
    BY <2>1 DEF Last
  <2>6. E.sections[m + 1] \in Sections(s + 1)
    <3>1. E \in Images(s + 1) /\ s + 1 \in Nat
      BY <1>4, <1>8 DEF WellFormed
    <3> QED BY <2>5, <3>1, SectionType
  <2> QED BY <2>4, <2>5, <2>6
<1>11. PICK d : d = Directory(E)
  OBVIOUS
<1>12. d \in [va : Nat, ptr : Nat, by : 0..(s + 1)]
       /\ d.va = E.sections[last].va /\ d.by = by
  <2> DEFINE t == E.sections[last]
  <2>1. d = [va |-> t.va, ptr |-> t.ptr, by |-> t.by]
    BY <1>10, <1>11 DEF Directory
  <2>2. t \in Sections(s + 1) /\ t.by = by
    BY <1>10
  <2> HIDE DEF t
  <2>3. t.va \in Nat /\ t.ptr \in Nat /\ t.by \in 0..(s + 1)
    BY <2>2 DEF Sections
  <2> QED BY <2>1, <2>2, <2>3 DEF t
<1>13. PICK F : F = [E EXCEPT !.directory = d]
  OBVIOUS
<1>14. /\ WellFormed(s + 1, F) /\ F.sections = E.sections /\ F.directory = d
       /\ F.strings = E.strings /\ F.symbolTable = E.symbolTable
  <2>1. s + 1 \in Nat
    BY <1>4
  <2> QED BY <1>8, <1>12, <1>13, <2>1, DirectoryWellFormed
<1>15. image' = F
  BY <1>3, <1>11, <1>13
<1>16. NamedOnlyBy(F, lastDwarf)
  <2>1. NamedOnlyBy(img, lastDwarf)
    BY <1>1 DEF Inv, NewestIsFound, NamedOnlyBy
  <2>2. \A nm : Resolved(F, nm) = Resolved(E, nm)
    BY <1>14 DEF Resolved, StringTableSize
  <2>3. ASSUME NEW i \in DOMAIN E.sections,
               Resolved(E, E.sections[i].name) \in Range(DwarfNames)
        PROVE  E.sections[i].by = lastDwarf
    <3>1. CASE i \in DOMAIN img.sections
      <4>1. /\ Resolved(E, E.sections[i].name) = Resolved(img, img.sections[i].name)
            /\ E.sections[i].by = img.sections[i].by
        <5>1. NamesResolve(img) /\ new \in NewHeaders /\ E.symbolTable # 0
          BY <1>4, <1>5, <1>8 DEF WellFormed
        <5> QED BY <1>4, <1>7, <1>9, <3>1, <5>1, OldNamesKept
      <4> QED BY <2>1, <2>3, <3>1, <4>1 DEF NamedOnlyBy
    <3>2. CASE i \notin DOMAIN img.sections
      <4>1. E.sections[i].name = Short(".debug")
        <5>1. PICK j \in 1..Len(new) : E.sections[i].name = new[j].name
          BY <1>4, <1>5, <1>9, <3>2, OldOrNew
        <5> QED BY <1>5, <5>1
      <4>2. Resolved(E, E.sections[i].name) = ".debug"
        BY <4>1 DEF Resolved, Short
      <4>3. ".debug" \notin Range(DwarfNames)
        BY NamesAssumption
      <4> QED BY <2>3, <4>2, <4>3
    <3> QED BY <3>1, <3>2
  <2> QED BY <1>14, <2>2, <2>3 DEF NamedOnlyBy
<1>17. DirectoryOf(F, by)
  BY <1>10, <1>12, <1>14 DEF DirectoryOf
<1>18. TypeOK'
  <2>1. lastDwarf \in 0..s
    BY <1>1 DEF Inv, TypeOK
  <2>2. s + 1 \in 0..MaxInjections /\ s + 1 \in 0..(s + 1) /\ lastDwarf \in 0..(s + 1)
    BY <1>3, <1>4, <2>1
  <2>3. F \in Images(s + 1)
    BY <1>14 DEF WellFormed
  <2> QED BY <1>3, <1>15, <2>2, <2>3 DEF TypeOK
<1>19. by = s + 1
  BY <1>1
<1>20. NewestIsFound'
  BY <1>3, <1>15, <1>16, <1>17, <1>19 DEF NewestIsFound, NamedOnlyBy, DirectoryOf
<1>21. WellFormed(serial, image)'
  BY <1>3, <1>14, <1>15
<1> QED BY <1>18, <1>20, <1>21 DEF Inv

\* Every action keeps Inv.
LEMMA InvPreserved == Inv /\ [Next]_vars => Inv'
PROOF
<1> SUFFICES ASSUME Inv, [Next]_vars PROVE Inv'
  OBVIOUS
<1>1. CASE InjectDwarf
  BY <1>1, DwarfStep
<1>2. CASE InjectPdb
  BY <1>2, PdbStep
<1>3. CASE UNCHANGED vars
  BY <1>3 DEF vars, Inv, TypeOK, WellFormed, NewestIsFound, Resolved, StringTableSize
<1> QED BY <1>1, <1>2, <1>3 DEF Next

\* Inv is an invariant.
LEMMA Always == Spec => []Inv
PROOF BY InitInv, InvPreserved, PTL DEF Spec

\* injectDwarfSections and injectPdbReference leave an image whose every field is
\* what its type says, after any number of injections.
THEOREM TypeCorrect == Spec => []TypeOK
PROOF
<1>1. Inv => TypeOK
  BY DEF Inv
<1> QED BY <1>1, Always, PTL

\* After any injections, in any order, each section header leads to the bytes of
\* its own section: the headers that move are corrected as their data moves.
THEOREM RawDataFoundSafe == Spec => []RawDataFound
PROOF
<1>1. Inv => RawDataFound
  BY DEF Inv, WellFormed, RawDataFound
<1> QED BY <1>1, Always, PTL

\* No injection overwrites a byte the image had, appended data included, and the
\* section table stays within the headers.
THEOREM NothingOverwrittenSafe == Spec => []NothingOverwritten
PROOF
<1>1. Inv => NothingOverwritten
  BY DEF Inv, WellFormed, NothingOverwritten
<1> QED BY <1>1, Always, PTL

\* The sections of an injected image follow one another in memory, aligned and
\* within SizeOfImage.
THEOREM MemoryInOrderSafe == Spec => []MemoryInOrder
PROOF
<1>1. Inv => MemoryInOrder
  BY DEF Inv, WellFormed, MemoryInOrder
<1> QED BY <1>1, Always, PTL

\* A debugger that reads the image by its section names, or by its debug
\* directory, finds the debug information of the latest injection.
THEOREM NewestIsFoundSafe == Spec => []NewestIsFound
PROOF
<1>1. Inv => NewestIsFound
  BY DEF Inv
<1> QED BY <1>1, Always, PTL
===============================================================================
