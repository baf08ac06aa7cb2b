------------------------------- MODULE DataLemmas -------------------------------
(***************************************************************************)
(* Facts about numbers, sets and sequences that the proofs of several       *)
(* components rest on: least and greatest elements, induction with a set in *)
(* the place of a predicate, functions defined by recursion, rounding; what *)
(* the operators of SeqHelpers and FlattenSeq are of an empty sequence and  *)
(* of one with an element more, and what follows by induction over length.  *)
(***************************************************************************)
EXTENDS SeqHelpers, SequencesExt, FiniteSetTheorems, WellFoundedInduction,
        SequenceTheorems, TLAPS

-----------------------------------------------------------------------------
(* Numbers and sets of numbers.                                            *)

\* Every set of naturals that is not empty has a least element: the one whose
\* initial segment contains no smaller one, and finite sets are well founded.
LEMMA Smallest ==
    ASSUME NEW T \in SUBSET Nat, T # {}
    PROVE  \E m \in T : \A n \in T : m <= n
PROOF
<1> DEFINE Below == {0..n : n \in T}
<1>1. Below \subseteq FiniteSubsetsOf(Nat) /\ Below # {}
  <2>1. ASSUME NEW n \in T PROVE 0..n \in FiniteSubsetsOf(Nat)
    <3>1. IsFiniteSet(0..n)
      BY FS_Interval
    <3>2. 0..n \in SUBSET Nat
      OBVIOUS
    <3> QED BY <3>1, <3>2 DEF FiniteSubsetsOf
  <2> QED BY <2>1
<1>2. PICK B \in Below : \A C \in Below : <<C, B>> \notin StrictSubsetOrdering(Nat)
  BY <1>1, FS_StrictSubsetOrderingWellFounded, WFMin
<1>3. PICK m \in T : B = 0..m
  BY <1>2
<1>4. ASSUME NEW n \in T, n < m PROVE FALSE
  <2>1. 0..n \subseteq 0..m /\ 0..n # 0..m /\ 0..n \in SUBSET Nat /\ 0..m \in SUBSET Nat
    BY <1>4
  <2>2. <<0..n, 0..m>> \in StrictSubsetOrdering(Nat)
    BY <2>1 DEF StrictSubsetOrdering
  <2> QED BY <1>2, <1>3, <2>2
<1> QED BY <1>4

\* A set with 0 and with the successor of each of its members is Nat.
LEMMA Induction ==
    ASSUME NEW T \in SUBSET Nat, 0 \in T, \A n \in T : n + 1 \in T
    PROVE  T = Nat
PROOF
<1> SUFFICES ASSUME Nat \ T # {} PROVE FALSE OBVIOUS
<1>1. PICK m \in Nat \ T : \A n \in Nat \ T : m <= n
  BY Smallest
<1>2. m # 0 /\ m - 1 \in T
  BY <1>1
<1> QED BY <1>1, <1>2

\* Induction over m..n.
LEMMA IntervalInduction ==
    ASSUME NEW m \in Nat, NEW n \in Nat, NEW T, m <= n => m \in T,
           \A i \in m..n : i \in T /\ i + 1 <= n => i + 1 \in T
    PROVE  m..n \subseteq T
PROOF
<1> DEFINE Reached == {k \in Nat : m + k <= n => m + k \in T}
<1>1. 0 \in Reached /\ \A k \in Reached : k + 1 \in Reached
  OBVIOUS
<1>2. Reached = Nat
  <2> HIDE DEF Reached
  <2>1. Reached \in SUBSET Nat
    BY DEF Reached
  <2> QED BY <1>1, <2>1, Induction
<1>3. ASSUME NEW i \in m..n PROVE i \in T
  <2>1. i - m \in Nat /\ m + (i - m) = i /\ i <= n
    OBVIOUS
  <2>2. i - m \in Reached
    <3> HIDE DEF Reached
    <3> QED BY <1>2, <2>1
  <2> QED BY <2>1, <2>2
<1> QED BY <1>3

\* Min and Max are what their names say.
LEMMA MinIsLeast ==
    ASSUME NEW S \in SUBSET Nat, S # {}
    PROVE  Min(S) \in S /\ \A n \in S : Min(S) <= n
PROOF BY Smallest DEF Min

\* A bounded set of naturals has its Max, and it is the greatest.
LEMMA MaxIsGreatest ==
    ASSUME NEW S \in SUBSET Nat, S # {}, NEW b \in Nat, \A n \in S : n <= b
    PROVE  Max(S) \in S /\ \A n \in S : n <= Max(S)
PROOF
<1> DEFINE Distance == {b - n : n \in S}
<1>1. Distance \in SUBSET Nat /\ Distance # {}
  <2>1. \A n \in S : b - n \in Nat
    OBVIOUS
  <2> QED BY <2>1
<1>2. PICK d \in Distance : \A c \in Distance : d <= c
  BY <1>1, Smallest
<1>3. PICK x \in S : d = b - x
  BY <1>2
<1>4. \A n \in S : x >= n
  BY <1>2, <1>3
<1> QED BY <1>4 DEF Max

\* A function defined by recursion over m..n exists.
RecursionData(m, n, S, a, step) ==
    m \in Nat /\ n \in Nat /\ a \in S /\ step \in [Nat -> [S -> S]]
RecursiveFunction(f, m, n, S, a, step) ==
    /\ f \in [m..n -> S]
    /\ f = [i \in m..n |-> IF i = m THEN a ELSE step[i][f[i - 1]]]

\* The function a recursive definition over m..n speaks of exists.
LEMMA Recursion ==
    ASSUME NEW m, NEW n, NEW S, NEW a, NEW step, RecursionData(m, n, S, a, step)
    PROVE  \E f : RecursiveFunction(f, m, n, S, a, step)
PROOF
<1>0. m \in Nat /\ n \in Nat /\ a \in S /\ step \in [Nat -> [S -> S]]
  BY DEF RecursionData
<1> USE <1>0
<1> DEFINE Up(k, f) == \A i \in m..k : f[i] = IF i = m THEN a ELSE step[i][f[i - 1]]
           T == {k \in Nat : \E f \in [m..k -> S] : Up(k, f)}
<1>1. 0 \in T
  <2> DEFINE f == [i \in m..0 |-> a]
  <2>1. f \in [m..0 -> S] /\ Up(0, f)
    OBVIOUS
  <2> QED BY <2>1
<1>2. ASSUME NEW k \in T PROVE k + 1 \in T
  <2>1. PICK f \in [m..k -> S] : Up(k, f)
    OBVIOUS
  <2> DEFINE next == IF k + 1 <= m THEN a ELSE step[k + 1][f[k]]
             g == [i \in m..(k + 1) |-> IF i = k + 1 THEN next ELSE f[i]]
  <2>2. next \in S
    OBVIOUS
  <2>3. g \in [m..(k + 1) -> S]
    BY <2>2
  <2>4. ASSUME NEW i \in m..(k + 1)
        PROVE  g[i] = IF i = m THEN a ELSE step[i][g[i - 1]]
    <3>1. CASE i = k + 1
      <4>1. i # m => i - 1 \in m..(k + 1) /\ i - 1 # k + 1 /\ g[i - 1] = f[k]
        BY <3>1
      <4> QED BY <3>1, <4>1
    <3>2. CASE i # k + 1
      <4>1. i \in m..k /\ g[i] = f[i]
        BY <3>2
      <4>2. i # m => i - 1 \in m..(k + 1) /\ i - 1 # k + 1 /\ g[i - 1] = f[i - 1]
        BY <3>2
      <4> QED BY <2>1, <4>1, <4>2
    <3> QED BY <3>1, <3>2
  <2>5. Up(k + 1, g)
    <3> HIDE DEF g
    <3> QED BY <2>4
  <2> HIDE DEF g, Up
  <2> QED BY <2>3, <2>5
<1>3. T = Nat
  <2> HIDE DEF T
  <2>1. T \in SUBSET Nat
    BY DEF T
  <2> QED BY <1>1, <1>2, <2>1, Induction
<1>4. PICK f \in [m..n -> S] : Up(n, f)
  BY <1>3
<1>5. f = [i \in m..n |-> IF i = m THEN a ELSE step[i][f[i - 1]]]
  BY <1>4
<1> QED BY <1>5 DEF RecursiveFunction

-----------------------------------------------------------------------------
(* Multiples, and rounding up to one.                                       *)

\* Quotient and remainder make up the number.
LEMMA Division ==
    ASSUME NEW x \in Nat, NEW k \in Nat \ {0}
    PROVE  x = k * (x \div k) + (x % k) /\ x \div k \in Nat /\ x % k \in 0..(k - 1)
PROOF OBVIOUS

\* A multiple leaves no remainder.
LEMMA Multiple ==
    ASSUME NEW k \in Nat \ {0}, NEW q \in Nat
    PROVE  (k * q) % k = 0
PROOF OBVIOUS

\* What leaves no remainder is a multiple.
LEMMA Quotient ==
    ASSUME NEW x \in Nat, NEW k \in Nat \ {0}, x % k = 0
    PROVE  \E q \in Nat : x = k * q
PROOF
<1>1. x \div k \in Nat
  OBVIOUS
<1>2. x = k * (x \div k)
  OBVIOUS
<1> QED BY <1>1, <1>2

\* A sum of multiples is one.
LEMMA SumOfMultiples ==
    ASSUME NEW k \in Nat \ {0}, NEW x \in Nat, NEW y \in Nat, x % k = 0, y % k = 0
    PROVE  (x + y) % k = 0
PROOF
<1>1. PICK p \in Nat : x = k * p
  BY Quotient
<1>2. PICK q \in Nat : y = k * q
  BY Quotient
<1>3. x + y = k * (p + q) /\ p + q \in Nat
  BY <1>1, <1>2
<1> QED BY <1>3, Multiple

-----------------------------------------------------------------------------
(* Sequences.                                                              *)

\* A function that a recursion over 0..n picks satisfies the recursion.
Folded(f, n, X, a, step) ==
    /\ f \in [0..n -> X] /\ f[0] = a
    /\ \A i \in 1..n : f[i] = step[i][f[i - 1]]

\* The values kept by Among, one for each prefix of s.
KeptOf(f, s, S, T) ==
    /\ f \in [0..Len(s) -> Seq(T)] /\ f[0] = <<>>
    /\ \A n \in 1..Len(s) :
         f[n] = IF s[n] \in S THEN Append(f[n - 1], s[n]) ELSE f[n - 1]

\* What Among has kept, element by element of the sequence.
LEMMA AmongKept ==
    ASSUME NEW T, NEW s \in Seq(T), NEW S
    PROVE  \E f : KeptOf(f, s, S, T) /\ Among(s, S) = f[Len(s)]
PROOF
<1> DEFINE step == [n \in Nat |-> [v \in Seq(T) |->
               IF n \in 1..Len(s) /\ s[n] \in S THEN Append(v, s[n]) ELSE v]]
           Is(h) == h = [n \in 0..Len(s) |->
               IF n = 0 THEN <<>>
               ELSE IF s[n] \in S THEN Append(h[n - 1], s[n]) ELSE h[n - 1]]
<1>0. Len(s) \in Nat /\ \A n \in 1..Len(s) : s[n] \in T
  OBVIOUS
<1>1. step \in [Nat -> [Seq(T) -> Seq(T)]]
  <2>1. ASSUME NEW n \in Nat, NEW v \in Seq(T), n \in 1..Len(s)
        PROVE  Append(v, s[n]) \in Seq(T)
    BY <1>0, <2>1
  <2> QED BY <2>1
<1>2. PICK g \in [0..Len(s) -> Seq(T)] :
        g = [n \in 0..Len(s) |-> IF n = 0 THEN <<>> ELSE step[n][g[n - 1]]]
  <2> HIDE DEF step
  <2>1. PICK e : e = <<>>
    OBVIOUS
  <2>2. e \in Seq(T)
    BY <2>1
  <2>3. RecursionData(0, Len(s), Seq(T), e, step)
    BY <1>0, <1>1, <2>2 DEF RecursionData
  <2>4. PICK g : RecursiveFunction(g, 0, Len(s), Seq(T), e, step)
    BY <2>3, Recursion
  <2> QED BY <2>1, <2>4 DEF RecursiveFunction
<1>3. ASSUME NEW n \in 0..Len(s), n # 0
      PROVE  step[n][g[n - 1]] = IF s[n] \in S THEN Append(g[n - 1], s[n]) ELSE g[n - 1]
  <2>1. n - 1 \in 0..Len(s) /\ n \in Nat /\ n \in 1..Len(s)
    BY <1>3
  <2>2. g[n - 1] \in Seq(T)
    BY <2>1
  <2> QED BY <2>1, <2>2
<1>4. Is(g)
  <2> HIDE DEF step
  <2> QED BY <1>2, <1>3
<1>5. PICK f : f = CHOOSE h : Is(h)
  OBVIOUS
<1>6. Is(f)
  <2> HIDE DEF Is
  <2> QED BY <1>4, <1>5
<1>7. Among(s, S) = f[Len(s)]
  BY <1>5 DEF Among
<1>8. \A n \in 0..Len(s) :
        f[n] = IF n = 0 THEN <<>>
               ELSE IF s[n] \in S THEN Append(f[n - 1], s[n]) ELSE f[n - 1]
  BY <1>6
<1>9. f \in [0..Len(s) -> Seq(T)]
  <2> DEFINE U == {n \in Nat : f[n] \in Seq(T)}
  <2>1. 0 <= Len(s) => 0 \in U
    <3>1. 0 \in 0..Len(s)
      BY <1>0
    <3>2. f[0] = <<>>
      BY <1>8, <3>1
    <3>3. f[0] \in Seq(T)
      BY <3>2
    <3> QED BY <3>3
  <2>2. ASSUME NEW n \in 0..Len(s), n \in U, n + 1 <= Len(s) PROVE n + 1 \in U
    <3>1. n + 1 \in 0..Len(s) /\ n + 1 \in 1..Len(s) /\ n + 1 # 0 /\ (n + 1) - 1 = n
      BY <2>2
    <3>2. f[n + 1] = IF s[n + 1] \in S THEN Append(f[n], s[n + 1]) ELSE f[n]
      BY <1>8, <3>1
    <3>3. f[n] \in Seq(T) /\ s[n + 1] \in T
      BY <1>0, <2>2, <3>1
    <3>4. f[n + 1] \in Seq(T)
      BY <3>2, <3>3
    <3> QED BY <3>1, <3>4
  <2>3. 0..Len(s) \subseteq U
    <3> HIDE DEF U
    <3> QED BY <1>0, <2>1, <2>2, IntervalInduction
  <2>4. f = [n \in 0..Len(s) |-> f[n]]
    BY <1>6
  <2>5. \A n \in 0..Len(s) : f[n] \in Seq(T)
    BY <2>3
  <2> QED BY <2>4, <2>5
<1>10. f[0] = <<>> /\ \A n \in 1..Len(s) :
         f[n] = IF s[n] \in S THEN Append(f[n - 1], s[n]) ELSE f[n - 1]
  <2>1. 0 \in 0..Len(s) /\ \A n \in 1..Len(s) : n \in 0..Len(s) /\ n # 0
    BY <1>0
  <2> QED BY <1>8, <2>1
<1> HIDE DEF Is
<1> QED BY <1>7, <1>9, <1>10 DEF KeptOf

\* Induction over sequences: what the empty one has, and what an element more
\* preserves, all have.
LEMMA SeqInduction ==
    ASSUME NEW T, NEW P \in SUBSET Seq(T), NEW e \in P, Len(e) = 0,
           \A s \in P, t \in T : Append(s, t) \in P
    PROVE  P = Seq(T)
PROOF
<1> DEFINE Lengths == {n \in Nat : \A s \in Seq(T) : Len(s) = n => s \in P}
<1>1. 0 \in Lengths
  <2>1. \A s \in Seq(T) : Len(s) = 0 => s = e
    OBVIOUS
  <2> QED BY <2>1
<1>2. ASSUME NEW n \in Lengths PROVE n + 1 \in Lengths
  <2>1. ASSUME NEW s \in Seq(T), Len(s) = n + 1 PROVE s \in P
    <3>1. PICK r : r = [i \in 1..n |-> s[i]]
      OBVIOUS
    <3>2. r \in Seq(T) /\ Len(r) = n /\ \A i \in 1..n : r[i] = s[i]
      BY <2>1, <3>1
    <3>3. s[n + 1] \in T
      BY <2>1
    <3>4. s = Append(r, s[n + 1])
      <4>1. PICK x \in T : x = s[n + 1]
        BY <3>3
      <4>2. PICK a : a = Append(r, x)
        OBVIOUS
      <4>3. a \in Seq(T) /\ Len(a) = Len(r) + 1 /\ a[Len(r) + 1] = x
            /\ \A i \in 1..Len(r) : a[i] = r[i]
        BY <3>2, <4>2, AppendProperties
      <4>4. \A i \in 1..Len(s) : s[i] = a[i]
        <5>1. n \in Nat
          OBVIOUS
        <5>2. ASSUME NEW i \in 1..Len(s) PROVE i = n + 1 \/ i \in 1..n
          BY <2>1, <5>1, <5>2
        <5> QED BY <3>2, <4>1, <4>3, <5>2
      <4>5. s = a
        BY <2>1, <3>2, <4>3, <4>4, SeqEqual
      <4> QED BY <4>1, <4>2, <4>5
    <3>5. r \in P
      BY <3>2
    <3> QED BY <3>3, <3>4, <3>5
  <2> QED BY <2>1
<1>3. Lengths = Nat
  <2>1. Lengths \in SUBSET Nat
    OBVIOUS
  <2> HIDE DEF Lengths
  <2> QED BY <1>1, <1>2, <2>1, Induction
<1>4. ASSUME NEW s \in Seq(T) PROVE s \in P
  <2>1. Len(s) \in Lengths
    <3> HIDE DEF Lengths
    <3> QED BY <1>3
  <2> QED BY <2>1
<1> QED BY <1>4

\* An element more adds that element to the range.
LEMMA RangeAppend ==
    ASSUME NEW T, NEW s \in Seq(T), NEW t \in T
    PROVE  Range(Append(s, t)) = Range(s) \cup {t}
PROOF
<1>1. PICK r : r = Append(s, t)
  OBVIOUS
<1>2. /\ r \in Seq(T) /\ Len(r) = Len(s) + 1 /\ r[Len(s) + 1] = t /\ Len(s) \in Nat
      /\ \A i \in 1..Len(s) : r[i] = s[i]
  BY <1>1
<1>3. DOMAIN r = 1..(Len(s) + 1) /\ DOMAIN s = 1..Len(s)
  BY <1>2
<1>4. DOMAIN r = DOMAIN s \cup {Len(s) + 1}
  BY <1>2, <1>3
<1>5. Range(r) = Range(s) \cup {t}
  BY <1>2, <1>3, <1>4 DEF Range
<1> QED BY <1>1, <1>5

\* Of nothing, nothing is kept.
LEMMA AmongEmpty ==
    ASSUME NEW S, NEW s, s = <<>>
    PROVE  Among(s, S) = <<>>
PROOF
<1>1. s \in Seq({}) /\ Len(s) = 0
  OBVIOUS
<1>2. PICK f : KeptOf(f, s, S, {}) /\ Among(s, S) = f[Len(s)]
  BY <1>1, AmongKept
<1> QED BY <1>1, <1>2 DEF KeptOf

\* One element more is kept or left.
LEMMA AmongStep ==
    ASSUME NEW T, NEW s \in Seq(T), NEW e \in T, NEW S
    PROVE  /\ Among(s, S) \in Seq(T)
           /\ Among(Append(s, e), S) = IF e \in S THEN Append(Among(s, S), e) ELSE Among(s, S)
PROOF
<1>1. PICK n : n = Len(s) /\ n \in Nat
  OBVIOUS
<1>2. PICK r : r = Append(s, e)
  OBVIOUS
<1>3. r \in Seq(T) /\ Len(r) = n + 1 /\ r[n + 1] = e /\ \A i \in 1..n : r[i] = s[i]
  BY <1>1, <1>2
<1>4. PICK f : KeptOf(f, s, S, T) /\ Among(s, S) = f[n]
  BY <1>1, AmongKept
<1>5. PICK g : KeptOf(g, r, S, T) /\ Among(r, S) = g[n + 1]
  BY <1>3, AmongKept
<1>6. 0..n \subseteq {i \in Nat : g[i] = f[i]}
  <2> DEFINE U == {i \in Nat : g[i] = f[i]}
  <2>1. 0 \in U
    BY <1>4, <1>5 DEF KeptOf
  <2>2. ASSUME NEW i \in 0..n, i \in U, i + 1 <= n PROVE i + 1 \in U
    <3>1. i + 1 \in 1..n /\ i + 1 \in 1..(n + 1) /\ (i + 1) - 1 = i
      BY <1>1, <2>2
    <3>2. f[i + 1] = IF s[i + 1] \in S THEN Append(f[i], s[i + 1]) ELSE f[i]
      BY <1>1, <1>4, <3>1 DEF KeptOf
    <3>3. g[i + 1] = IF r[i + 1] \in S THEN Append(g[i], r[i + 1]) ELSE g[i]
      BY <1>3, <1>5, <3>1 DEF KeptOf
    <3> QED BY <1>3, <2>2, <3>1, <3>2, <3>3
  <2>3. 0..n \subseteq U
    <3> HIDE DEF U
    <3> QED BY <1>1, <2>1, <2>2, IntervalInduction
  <2> QED BY <2>3
<1>7. g[n] = f[n] /\ f[n] \in Seq(T)
  BY <1>1, <1>4, <1>6 DEF KeptOf
<1>8. g[n + 1] = IF e \in S THEN Append(g[n], e) ELSE g[n]
  <2>1. n + 1 \in 1..(n + 1) /\ (n + 1) - 1 = n
    BY <1>1
  <2> QED BY <1>3, <1>5, <2>1 DEF KeptOf
<1> QED BY <1>2, <1>4, <1>5, <1>7, <1>8

\* AmongStep, for an element of the set.
LEMMA AmongTaken ==
    ASSUME NEW T, NEW s \in Seq(T), NEW e \in T, NEW S, e \in S
    PROVE  Among(Append(s, e), S) = Append(Among(s, S), e)
PROOF
<1>1. /\ Among(s, S) \in Seq(T)
      /\ Among(Append(s, e), S) = IF e \in S THEN Append(Among(s, S), e) ELSE Among(s, S)
  BY AmongStep, Zenon
<1> QED BY <1>1, Zenon

\* AmongStep, for one outside.
LEMMA AmongLeft ==
    ASSUME NEW T, NEW s \in Seq(T), NEW e \in T, NEW S, e \notin S
    PROVE  Among(Append(s, e), S) = Among(s, S)
PROOF
<1>1. /\ Among(s, S) \in Seq(T)
      /\ Among(Append(s, e), S) = IF e \in S THEN Append(Among(s, S), e) ELSE Among(s, S)
  BY AmongStep, Zenon
<1> QED BY <1>1, Zenon

\* Among keeps the type.
LEMMA AmongType ==
    ASSUME NEW T, NEW s \in Seq(T), NEW S
    PROVE  Among(s, S) \in Seq(T)
PROOF
<1>1. PICK f : KeptOf(f, s, S, T) /\ Among(s, S) = f[Len(s)]
  BY AmongKept
<1> QED BY <1>1 DEF KeptOf

\* Only membership of the elements of s matters.
LEMMA AmongSame ==
    ASSUME NEW T, NEW s \in Seq(T), NEW R, NEW S,
           \A i \in 1..Len(s) : s[i] \in R <=> s[i] \in S
    PROVE  Among(s, R) = Among(s, S)
PROOF
<1> DEFINE P == {q \in Seq(T) : (\A i \in 1..Len(q) : q[i] \in R <=> q[i] \in S)
                                  => Among(q, R) = Among(q, S)}
<1>1. PICK z : z = <<>>
  OBVIOUS
<1>2. z \in P /\ Len(z) = 0
  BY <1>1, AmongEmpty
<1>3. ASSUME NEW q \in P, NEW t \in T PROVE Append(q, t) \in P
  <2>1. PICK r : r = Append(q, t)
    OBVIOUS
  <2>2. q \in Seq(T) /\ r \in Seq(T) /\ Len(r) = Len(q) + 1 /\ r[Len(q) + 1] = t
        /\ \A i \in 1..Len(q) : r[i] = q[i]
    BY <2>1
  <2>3. ASSUME \A i \in 1..Len(r) : r[i] \in R <=> r[i] \in S
        PROVE  Among(r, R) = Among(r, S)
    <3>1. t \in R <=> t \in S
      BY <2>2, <2>3
    <3>2. \A i \in 1..Len(q) : q[i] \in R <=> q[i] \in S
      BY <2>2, <2>3
    <3>3. Among(q, R) = Among(q, S)
      BY <3>2
    <3>4. CASE t \in R
      <4>1. Among(r, R) = Append(Among(q, R), t)
        BY <2>1, <2>2, <3>4, AmongTaken, Zenon
      <4>2. Among(r, S) = Append(Among(q, S), t)
        BY <2>1, <2>2, <3>1, <3>4, AmongTaken, Zenon
      <4> QED BY <3>3, <4>1, <4>2
    <3>5. CASE t \notin R
      <4>1. Among(r, R) = Among(q, R)
        BY <2>1, <2>2, <3>5, AmongLeft, Zenon
      <4>2. Among(r, S) = Among(q, S)
        BY <2>1, <2>2, <3>1, <3>5, AmongLeft, Zenon
      <4> QED BY <3>3, <4>1, <4>2
    <3> QED BY <3>4, <3>5
  <2> QED BY <2>1, <2>2, <2>3
<1>4. P \in SUBSET Seq(T)
  OBVIOUS
<1>5. P = Seq(T)
  <2> HIDE DEF P
  <2> QED BY <1>2, <1>3, <1>4, SeqInduction
<1> QED BY <1>5

\* What Among keeps.
LEMMA AmongRange ==
    ASSUME NEW T, NEW s \in Seq(T), NEW S
    PROVE  Range(Among(s, S)) = Range(s) \cap S
PROOF
<1> DEFINE P == {q \in Seq(T) : Range(Among(q, S)) = Range(q) \cap S}
<1>1. PICK z : z = <<>>
  OBVIOUS
<1>2. z \in P /\ Len(z) = 0
  <2>1. Among(z, S) = z /\ z \in Seq(T) /\ Len(z) = 0
    BY <1>1, AmongEmpty
  <2>2. Range(z) = {}
    BY <1>1 DEF Range
  <2> QED BY <2>1, <2>2
<1>3. ASSUME NEW q \in P, NEW t \in T PROVE Append(q, t) \in P
  <2>0. q \in Seq(T) /\ \A u \in Seq(T) : Range(Append(u, t)) = Range(u) \cup {t}
    BY RangeAppend
  <2>1. Among(q, S) \in Seq(T)
    BY <2>0, AmongType
  <2>2. Append(q, t) \in Seq(T) /\ Range(Append(q, t)) = Range(q) \cup {t}
    BY <2>0
  <2>3. Range(Append(Among(q, S), t)) = Range(Among(q, S)) \cup {t}
    BY <2>0, <2>1
  <2>4. Range(Among(q, S)) = Range(q) \cap S
    OBVIOUS
  <2>5. Range(Among(Append(q, t), S)) = Range(Append(q, t)) \cap S
    <3>1. CASE t \in S
      <4>1. Among(Append(q, t), S) = Append(Among(q, S), t)
        BY <2>0, <3>1, AmongTaken, Zenon
      <4> QED BY <2>2, <2>3, <2>4, <3>1, <4>1
    <3>2. CASE t \notin S
      <4>1. Among(Append(q, t), S) = Among(q, S)
        BY <2>0, <3>2, AmongLeft, Zenon
      <4> QED BY <2>2, <2>4, <3>2, <4>1
    <3> QED BY <3>1, <3>2
  <2> QED BY <2>2, <2>5
<1>4. P \in SUBSET Seq(T)
  OBVIOUS
<1>5. P = Seq(T)
  <2> HIDE DEF P
  <2> QED BY <1>2, <1>3, <1>4, SeqInduction
<1> QED BY <1>5

\* Sequences of numbers that grow.
Increasing(s) == \A i, j \in 1..Len(s) : i < j => s[i] < s[j]

\* A number above all of them goes last.
LEMMA IncreasingAppend ==
    ASSUME NEW s \in Seq(Nat), Increasing(s), NEW n \in Nat, \A m \in Range(s) : m < n
    PROVE  Increasing(Append(s, n))
PROOF
<1>1. \A i \in 1..Len(s) : s[i] < n
  BY DEF Range
<1>2. PICK r : r = Append(s, n)
  OBVIOUS
<1>3. /\ Len(r) = Len(s) + 1 /\ r[Len(s) + 1] = n
      /\ \A i \in 1..Len(s) : r[i] = s[i]
  BY <1>2
<1>4. ASSUME NEW i \in 1..Len(r), NEW j \in 1..Len(r), i < j
      PROVE  r[i] < r[j]
  <2>1. i \in 1..Len(s)
    BY <1>3, <1>4
  <2>2. CASE j = Len(s) + 1
    BY <1>1, <1>3, <2>1, <2>2
  <2>3. CASE j \in 1..Len(s)
    BY <1>3, <1>4, <2>1, <2>3 DEF Increasing
  <2> QED BY <1>3, <2>2, <2>3
<1> QED BY <1>2, <1>4 DEF Increasing

\* A part of an increasing sequence increases.
LEMMA AmongIncreasing ==
    ASSUME NEW s \in Seq(Nat), Increasing(s), NEW S
    PROVE  Increasing(Among(s, S))
PROOF
<1> DEFINE P == {q \in Seq(Nat) : Increasing(q) => Increasing(Among(q, S))}
<1>1. PICK z : z = <<>>
  OBVIOUS
<1>2. z \in P /\ Len(z) = 0
  <2>1. Among(z, S) = z /\ z \in Seq(Nat) /\ Len(z) = 0
    BY <1>1, AmongEmpty
  <2> QED BY <2>1
<1>3. ASSUME NEW q \in P, NEW t \in Nat PROVE Append(q, t) \in P
  <2>1. PICK r : r = Append(q, t)
    OBVIOUS
  <2>2. q \in Seq(Nat) /\ Len(q) \in Nat
        /\ r \in Seq(Nat) /\ Len(r) = Len(q) + 1 /\ r[Len(q) + 1] = t
        /\ \A i \in 1..Len(q) : r[i] = q[i]
    BY <2>1
  <2>3. ASSUME Increasing(r) PROVE Increasing(Among(r, S))
    <3>1. Increasing(q)
      <4> SUFFICES ASSUME NEW i \in 1..Len(q), NEW j \in 1..Len(q), i < j
                   PROVE  q[i] < q[j]
        BY DEF Increasing
      <4>1. i \in 1..Len(r) /\ j \in 1..Len(r)
        BY <2>2
      <4> QED BY <2>2, <2>3, <4>1 DEF Increasing
    <3>2. \A m \in Range(q) : m < t
      <4> SUFFICES ASSUME NEW i \in 1..Len(q) PROVE q[i] < t
        BY DEF Range
      <4>1. i \in 1..Len(r) /\ Len(q) + 1 \in 1..Len(r) /\ i < Len(q) + 1
        BY <2>2
      <4> QED BY <2>2, <2>3, <4>1 DEF Increasing
    <3>3. Among(q, S) \in Seq(Nat) /\ Increasing(Among(q, S))
          /\ Range(Among(q, S)) \subseteq Range(q)
      BY <3>1, AmongType, AmongRange
    <3>4. Increasing(Append(Among(q, S), t))
      BY <3>2, <3>3, IncreasingAppend
    <3>5. t \in S => Among(r, S) = Append(Among(q, S), t)
      BY <2>1, <2>2, AmongTaken, Zenon
    <3>6. t \notin S => Among(r, S) = Among(q, S)
      BY <2>1, <2>2, AmongLeft, Zenon
    <3> QED BY <3>3, <3>4, <3>5, <3>6
  <2> QED BY <2>1, <2>2, <2>3
<1>4. P \in SUBSET Seq(Nat)
  OBVIOUS
<1>5. P = Seq(Nat)
  <2> HIDE DEF P
  <2> QED BY <1>2, <1>3, <1>4, SeqInduction
<1> QED BY <1>5

-----------------------------------------------------------------------------
(* Positions.                                                              *)

\* No number twice.
OneToOne(s) == \A i, j \in 1..Len(s) : s[i] = s[j] => i = j

\* In an increasing sequence no number occurs twice.
LEMMA IncreasingOneToOne ==
    ASSUME NEW s \in Seq(Nat), Increasing(s)
    PROVE  OneToOne(s)
PROOF
<1>1. SUFFICES ASSUME NEW i \in 1..Len(s), NEW j \in 1..Len(s), s[i] = s[j], i # j PROVE FALSE
  BY DEF OneToOne
<1>2. s[i] \in Nat /\ s[j] \in Nat /\ i \in Nat /\ j \in Nat
  BY ElementOfSeq
<1>3. i < j \/ j < i
  BY <1>1, <1>2
<1>4. s[i] < s[j] \/ s[j] < s[i]
  BY <1>3 DEF Increasing
<1> QED BY <1>1, <1>2, <1>4

\* The indices of a sequence, in order.
LEMMA IndicesAre ==
    ASSUME NEW T, NEW s \in Seq(T)
    PROVE  /\ Indices(s) \in Seq(Nat) /\ Len(Indices(s)) = Len(s)
           /\ \A i \in 1..Len(s) : Indices(s)[i] = i
           /\ Range(Indices(s)) = 1..Len(s) /\ Increasing(Indices(s))
PROOF
<1>1. PICK n \in Nat : n = Len(s)
  OBVIOUS
<1>2. PICK q : q = Indices(s)
  OBVIOUS
<1>3. q = [i \in 1..n |-> i]
  BY <1>1, <1>2 DEF Indices
<1>4. q \in Seq(Nat) /\ Len(q) = n /\ DOMAIN q = 1..n /\ \A i \in 1..n : q[i] = i
  BY <1>3
<1>5. Range(q) = 1..n
  BY <1>4 DEF Range
<1>6. Increasing(q)
  BY <1>4 DEF Increasing
<1> QED BY <1>1, <1>2, <1>4, <1>5, <1>6

\* One element more is one index more.
LEMMA IndicesAppend ==
    ASSUME NEW T, NEW s \in Seq(T), NEW e \in T
    PROVE  Indices(Append(s, e)) = Append(Indices(s), Len(s) + 1)
PROOF
<1>1. PICK r : r = Append(s, e)
  OBVIOUS
<1>2. r \in Seq(T) /\ Len(r) = Len(s) + 1
  BY <1>1, AppendProperties
<1>3. PICK n \in Nat : n = Len(s)
  OBVIOUS
<1>4. PICK m \in Nat : m = n + 1
  BY <1>3
<1>5. PICK q : q = Append(Indices(s), m)
  OBVIOUS
<1>6. q \in Seq(Nat) /\ Len(q) = n + 1 /\ q[n + 1] = m /\ \A i \in 1..n : q[i] = i
  BY <1>3, <1>5, IndicesAre, AppendProperties
<1>7. Indices(r) \in Seq(Nat) /\ Len(Indices(r)) = n + 1
      /\ \A i \in 1..(n + 1) : Indices(r)[i] = i
  BY <1>2, <1>3, IndicesAre
<1>8. \A i \in 1..Len(q) : Indices(r)[i] = q[i]
  BY <1>4, <1>6, <1>7
<1>9. Indices(r) = q
  BY <1>6, <1>7, <1>8, SeqEqual
<1> QED BY <1>1, <1>3, <1>4, <1>5, <1>9

\* The positions of s that are in S.
LEMMA AmongIndices ==
    ASSUME NEW T, NEW s \in Seq(T), NEW S
    PROVE  /\ Among(Indices(s), S) \in Seq(Nat)
           /\ Range(Among(Indices(s), S)) = (1..Len(s)) \cap S
           /\ Increasing(Among(Indices(s), S)) /\ OneToOne(Among(Indices(s), S))
PROOF
<1>1. PICK q : q = Indices(s)
  OBVIOUS
<1>2. q \in Seq(Nat) /\ Range(q) = 1..Len(s) /\ Increasing(q)
  BY <1>1, IndicesAre
<1>3. PICK a : a = Among(q, S)
  OBVIOUS
<1>4. a \in Seq(Nat) /\ Range(a) = (1..Len(s)) \cap S /\ Increasing(a)
  BY <1>2, <1>3, AmongType, AmongRange, AmongIncreasing
<1>5. OneToOne(a)
  BY <1>4, IncreasingOneToOne
<1> QED BY <1>1, <1>3, <1>4, <1>5

\* Only the indices there are matter.
LEMMA AmongIndicesSame ==
    ASSUME NEW T, NEW s \in Seq(T), NEW R, NEW S, (1..Len(s)) \cap R = (1..Len(s)) \cap S
    PROVE  Among(Indices(s), R) = Among(Indices(s), S)
PROOF
<1>1. PICK q : q = Indices(s)
  OBVIOUS
<1>2. q \in Seq(Nat) /\ Len(q) = Len(s) /\ \A i \in 1..Len(s) : q[i] = i
  BY <1>1, IndicesAre
<1>3. \A i \in 1..Len(q) : q[i] \in R <=> q[i] \in S
  BY <1>2
<1>4. Among(q, R) = Among(q, S)
  BY <1>2, <1>3, AmongSame
<1> QED BY <1>1, <1>4

\* The index of a new last element, when it is in the set.
LEMMA AmongIndicesTaken ==
    ASSUME NEW T, NEW s \in Seq(T), NEW e \in T, NEW S, Len(s) + 1 \in S
    PROVE  Among(Indices(Append(s, e)), S) = Append(Among(Indices(s), S), Len(s) + 1)
PROOF
<1>1. PICK n \in Nat : n = Len(s) + 1
  OBVIOUS
<1>2. PICK q \in Seq(Nat) : q = Indices(s)
  BY IndicesAre
<1>3. Indices(Append(s, e)) = Append(q, n)
  BY <1>1, <1>2, IndicesAppend
<1>4. Among(Append(q, n), S) = Append(Among(q, S), n)
  BY <1>1, AmongTaken, Zenon
<1> QED BY <1>1, <1>2, <1>3, <1>4

\* The index of a new last element, when it is not.
LEMMA AmongIndicesLeft ==
    ASSUME NEW T, NEW s \in Seq(T), NEW e \in T, NEW S, Len(s) + 1 \notin S
    PROVE  Among(Indices(Append(s, e)), S) = Among(Indices(s), S)
PROOF
<1>1. PICK n \in Nat : n = Len(s) + 1
  OBVIOUS
<1>2. PICK q \in Seq(Nat) : q = Indices(s)
  BY IndicesAre
<1>3. Indices(Append(s, e)) = Append(q, n)
  BY <1>1, <1>2, IndicesAppend
<1>4. Among(Append(q, n), S) = Among(q, S)
  BY <1>1, AmongLeft, Zenon
<1> QED BY <1>2, <1>3, <1>4

\* The greatest of the positions taken is the last.
LEMMA AmongTop ==
    ASSUME NEW T, NEW s \in Seq(T), NEW S, NEW top \in S, top \in 1..Len(s),
           \A i \in (1..Len(s)) \cap S : i <= top
    PROVE  Among(Indices(s), S) = Append(Among(Indices(s), S \ {top}), top)
PROOF
<1> DEFINE Topped(q) == top \in 1..Len(q) /\ \A i \in (1..Len(q)) \cap S : i <= top
           P == {q \in Seq(T) : Topped(q) =>
                   Among(Indices(q), S) = Append(Among(Indices(q), S \ {top}), top)}
<1>1. PICK z : z = <<>>
  OBVIOUS
<1>2. z \in P /\ Len(z) = 0
  BY <1>1
<1>3. ASSUME NEW q \in P, NEW t \in T PROVE Append(q, t) \in P
  <2>1. q \in Seq(T)
    OBVIOUS
  <2>2. PICK r : r = Append(q, t)
    OBVIOUS
  <2>3. r \in Seq(T) /\ Len(r) = Len(q) + 1 /\ Len(q) \in Nat
    BY <2>1, <2>2, AppendProperties
  <2>4. ASSUME Topped(r)
        PROVE  Among(Indices(r), S) = Append(Among(Indices(r), S \ {top}), top)
    <3>1. CASE top = Len(q) + 1
      <4>1. Among(Indices(r), S) = Append(Among(Indices(q), S), Len(q) + 1)
        BY <2>1, <2>2, <3>1, AmongIndicesTaken, Zenon
      <4>2. Len(q) + 1 \notin S \ {top}
        BY <3>1
      <4>3. Among(Indices(r), S \ {top}) = Among(Indices(q), S \ {top})
        BY <2>1, <2>2, <4>2, AmongIndicesLeft, Zenon
      <4>4. (1..Len(q)) \cap S = (1..Len(q)) \cap (S \ {top})
        BY <2>3, <3>1
      <4>5. Among(Indices(q), S) = Among(Indices(q), S \ {top})
        BY <2>1, <4>4, AmongIndicesSame
      <4> QED BY <3>1, <4>1, <4>3, <4>5
    <3>2. CASE top # Len(q) + 1
      <4>1. Topped(q) /\ Len(q) + 1 \notin S /\ Len(q) + 1 \notin S \ {top}
        BY <2>3, <2>4, <3>2
      <4>2. Among(Indices(r), S) = Among(Indices(q), S)
        BY <2>1, <2>2, <4>1, AmongIndicesLeft, Zenon
      <4>3. Among(Indices(r), S \ {top}) = Among(Indices(q), S \ {top})
        BY <2>1, <2>2, <4>1, AmongIndicesLeft, Zenon
      <4>4. Among(Indices(q), S) = Append(Among(Indices(q), S \ {top}), top)
        BY <4>1
      <4> QED BY <4>2, <4>3, <4>4
    <3> QED BY <3>1, <3>2
  <2> QED BY <2>2, <2>3, <2>4
<1>4. P \in SUBSET Seq(T)
  OBVIOUS
<1>5. P = Seq(T)
  <2> HIDE DEF P
  <2> QED BY <1>2, <1>3, <1>4, SeqInduction
<1>6. Topped(s)
  OBVIOUS
<1> QED BY <1>5, <1>6

\* Distinct keeps each element once.
LEMMA DistinctIs ==
    ASSUME NEW T, NEW s \in Seq(T)
    PROVE  Distinct(s) \in Seq(T) /\ OneToOne(Distinct(s)) /\ Range(Distinct(s)) = Range(s)
PROOF
<1>1. PICK S : S = {i \in DOMAIN s : \A j \in 1..(i - 1) : s[j] # s[i]}
  OBVIOUS
<1>2. PICK first \in Seq(Nat) : first = Among(Indices(s), S)
  BY AmongIndices
<1>3. Range(first) = (1..Len(s)) \cap S /\ OneToOne(first)
  BY <1>2, AmongIndices
<1>4. Distinct(s) = [n \in DOMAIN first |-> s[first[n]]]
  BY <1>1, <1>2 DEF Distinct
<1>5. PICK d : d = Distinct(s)
  OBVIOUS
<1>6. DOMAIN s = 1..Len(s) /\ DOMAIN first = 1..Len(first) /\ Len(first) \in Nat /\ Len(s) \in Nat
  OBVIOUS
<1>7. \A n \in 1..Len(first) : first[n] \in 1..Len(s) /\ first[n] \in S
  BY <1>3, <1>6 DEF Range
<1>8. d = [n \in 1..Len(first) |-> s[first[n]]]
  BY <1>4, <1>5, <1>6
<1>9. d \in Seq(T) /\ Len(d) = Len(first) /\ \A n \in 1..Len(first) : d[n] = s[first[n]]
  BY <1>6, <1>7, <1>8
<1>10. ASSUME NEW i \in S, NEW j \in S, s[i] = s[j] PROVE i = j
  <2>1. i \in Nat /\ j \in Nat /\ i >= 1 /\ j >= 1
    BY <1>1, <1>6
  <2>2. ~(i < j)
    BY <1>1, <1>10, <2>1
  <2>3. ~(j < i)
    BY <1>1, <1>10, <2>1
  <2> QED BY <2>1, <2>2, <2>3
<1>11. OneToOne(d)
  <2>1. ASSUME NEW i \in 1..Len(d), NEW j \in 1..Len(d), d[i] = d[j] PROVE i = j
    <3>1. first[i] \in S /\ first[j] \in S /\ s[first[i]] = s[first[j]]
      BY <1>7, <1>9, <2>1
    <3>2. first[i] = first[j]
      BY <1>10, <3>1
    <3> QED BY <1>3, <1>9, <3>2 DEF OneToOne
  <2> QED BY <2>1 DEF OneToOne
<1>12. Range(d) \subseteq Range(s)
  BY <1>6, <1>7, <1>8 DEF Range
<1>13. ASSUME NEW i \in 1..Len(s) PROVE s[i] \in Range(d)
  <2> DEFINE Same == {j \in 1..Len(s) : s[j] = s[i]}
  <2>1. Same \in SUBSET Nat /\ Same # {}
    BY <1>6
  <2>2. PICK k \in Same : \A j \in Same : k <= j
    BY <2>1, Smallest
  <2>3. \A j \in 1..(k - 1) : j \in 1..Len(s) /\ ~(k <= j)
    BY <1>6
  <2>4. k \in S
    BY <1>1, <1>6, <2>2, <2>3
  <2>5. k \in Range(first)
    BY <1>3, <2>4
  <2>6. PICK n \in 1..Len(first) : first[n] = k
    BY <1>6, <2>5 DEF Range
  <2>7. d[n] = s[i] /\ n \in DOMAIN d
    BY <1>8, <1>9, <2>2, <2>6
  <2> QED BY <2>7 DEF Range
<1>14. Range(s) \subseteq Range(d)
  BY <1>6, <1>13 DEF Range
<1> QED BY <1>5, <1>9, <1>11, <1>12, <1>14

-----------------------------------------------------------------------------
(* Elements replaced by their images, and sequences of sequences.          *)

Mapped(F, q) == [k \in DOMAIN q |-> F[q[k]]]
ImageOf(m, F, q, T) ==
    m \in Seq(T) /\ Len(m) = Len(q) /\ \A i \in 1..Len(q) : m[i] = F[q[i]]

\* The image of a sequence under a function, element by element.
LEMMA MappedType ==
    ASSUME NEW S, NEW T, NEW F \in [S -> T], NEW q \in Seq(S)
    PROVE  ImageOf(Mapped(F, q), F, q, T)
PROOF
<1>1. PICK n \in Nat : n = Len(q)
  OBVIOUS
<1>2. DOMAIN q = 1..n /\ \A i \in 1..n : q[i] \in S
  BY <1>1
<1>3. PICK m : m = Mapped(F, q)
  OBVIOUS
<1>4. m = [k \in 1..n |-> F[q[k]]]
  BY <1>2, <1>3 DEF Mapped
<1>5. m \in Seq(T) /\ Len(m) = n /\ \A i \in 1..n : m[i] = F[q[i]]
  BY <1>2, <1>4
<1> QED BY <1>1, <1>3, <1>5 DEF ImageOf

\* One element more is one image more.
LEMMA MappedAppend ==
    ASSUME NEW S, NEW T, NEW F \in [S -> T], NEW q \in Seq(S), NEW e \in S
    PROVE  Mapped(F, Append(q, e)) = Append(Mapped(F, q), F[e])
PROOF
<1>1. PICK r \in Seq(S) : r = Append(q, e)
  BY AppendProperties
<1>2. Len(r) = Len(q) + 1 /\ r[Len(q) + 1] = e
      /\ \A i \in 1..Len(q) : r[i] = q[i]
  BY <1>1, AppendProperties
<1>3. PICK m : m = Mapped(F, q)
  OBVIOUS
<1>4. m \in Seq(T) /\ Len(m) = Len(q) /\ \A i \in 1..Len(q) : m[i] = F[q[i]]
  <2>1. ImageOf(Mapped(F, q), F, q, T)
    BY MappedType, Zenon
  <2> QED BY <1>3, <2>1 DEF ImageOf
<1>5. PICK x \in T : x = F[e]
  OBVIOUS
<1>6. PICK a : a = Append(m, x)
  OBVIOUS
<1>7. a \in Seq(T) /\ Len(a) = Len(m) + 1 /\ a[Len(m) + 1] = x
      /\ \A i \in 1..Len(m) : a[i] = m[i]
  BY <1>4, <1>6, AppendProperties
<1>8. PICK b : b = Mapped(F, r)
  OBVIOUS
<1>9. b \in Seq(T) /\ Len(b) = Len(r) /\ \A i \in 1..Len(r) : b[i] = F[r[i]]
  <2>1. ImageOf(Mapped(F, r), F, r, T)
    BY MappedType, Zenon
  <2> QED BY <1>8, <2>1 DEF ImageOf
<1>10. PICK n \in Nat : n = Len(q)
  OBVIOUS
<1>11. \A i \in 1..Len(b) : b[i] = a[i]
  <2>1. ASSUME NEW i \in 1..Len(b) PROVE i = n + 1 \/ i \in 1..n
    BY <1>2, <1>9, <1>10
  <2> QED BY <1>2, <1>4, <1>5, <1>7, <1>9, <1>10, <2>1
<1>12. Len(b) = Len(a)
  BY <1>2, <1>4, <1>7, <1>9
<1>13. b = a
  BY <1>7, <1>9, <1>11, <1>12, SeqEqual
<1> QED BY <1>1, <1>3, <1>5, <1>6, <1>8, <1>13

\* The concatenations FlattenSeq goes through.
Flat(f, ss, T) ==
    /\ f \in [1..Len(ss) -> Seq(T)] /\ f[1] = ss[1]
    /\ \A i \in 2..Len(ss) : f[i] = f[i - 1] \o ss[i]

\* What FlattenSeq has joined, sequence by sequence.
LEMMA FlattenFlat ==
    ASSUME NEW T, NEW ss \in Seq(Seq(T)), Len(ss) # 0
    PROVE  \E f : Flat(f, ss, T) /\ FlattenSeq(ss) = f[Len(ss)]
PROOF
<1>0. PICK n \in Nat : n = Len(ss)
  OBVIOUS
<1>1. n >= 1 /\ 1 \in 1..n /\ \A i \in 1..n : ss[i] \in Seq(T)
  BY <1>0
<1> DEFINE step == [i \in Nat |-> [v \in Seq(T) |-> IF i \in 1..n THEN v \o ss[i] ELSE v]]
           Is(h) == h = [i \in 1..n |-> IF i = 1 THEN ss[i] ELSE h[i - 1] \o ss[i]]
<1>2. step \in [Nat -> [Seq(T) -> Seq(T)]]
  <2>1. ASSUME NEW i \in Nat, NEW v \in Seq(T), i \in 1..n PROVE v \o ss[i] \in Seq(T)
    BY <1>1, <2>1
  <2> QED BY <2>1
<1>3. PICK g \in [1..n -> Seq(T)] :
        g = [i \in 1..n |-> IF i = 1 THEN ss[1] ELSE step[i][g[i - 1]]]
  <2> HIDE DEF step
  <2>1. PICK a \in Seq(T) : a = ss[1]
    BY <1>1
  <2>2. PICK one : one = 1
    OBVIOUS
  <2>3. RecursionData(one, n, Seq(T), a, step)
    BY <1>2, <2>1, <2>2 DEF RecursionData
  <2>4. PICK g : RecursiveFunction(g, one, n, Seq(T), a, step)
    BY <2>3, Recursion
  <2>5. g \in [one..n -> Seq(T)]
        /\ g = [i \in one..n |-> IF i = one THEN a ELSE step[i][g[i - 1]]]
    BY <2>4 DEF RecursiveFunction
  <2>6. g \in [1..n -> Seq(T)]
    BY <2>2, <2>5
  <2>7. g = [i \in 1..n |-> IF i = 1 THEN ss[1] ELSE step[i][g[i - 1]]]
    BY <2>1, <2>2, <2>5
  <2> QED BY <2>6, <2>7
<1>4. ASSUME NEW i \in 1..n, i # 1 PROVE step[i][g[i - 1]] = g[i - 1] \o ss[i]
  <2>1. i - 1 \in 1..n /\ i \in Nat
    BY <1>4
  <2>2. g[i - 1] \in Seq(T)
    BY <2>1
  <2> QED BY <2>1, <2>2
<1>5. Is(g)
  <2> HIDE DEF step
  <2> QED BY <1>3, <1>4
<1>6. PICK f : f = CHOOSE h : Is(h)
  OBVIOUS
<1>7. Is(f)
  <2> HIDE DEF Is
  <2> QED BY <1>5, <1>6
<1>8. FlattenSeq(ss) = f[n]
  BY <1>0, <1>1, <1>6 DEF FlattenSeq
<1>9. \A i \in 1..n : f[i] = IF i = 1 THEN ss[i] ELSE f[i - 1] \o ss[i]
  BY <1>7
<1>10. \A i \in 1..n : f[i] \in Seq(T)
  <2> DEFINE U == {i \in Nat : f[i] \in Seq(T)}
  <2>1. 1 \in U
    BY <1>1, <1>9
  <2>2. ASSUME NEW i \in 1..n, i \in U, i + 1 <= n PROVE i + 1 \in U
    <3>1. i + 1 \in 1..n /\ i + 1 # 1 /\ (i + 1) - 1 = i
      BY <2>2
    <3>2. f[i + 1] = f[i] \o ss[i + 1]
      BY <1>9, <3>1
    <3>3. PICK u \in Seq(T) : u = f[i]
      BY <2>2
    <3>4. PICK v \in Seq(T) : v = ss[i + 1]
      BY <1>1, <3>1
    <3>5. u \o v \in Seq(T)
      BY ConcatProperties
    <3>6. f[i + 1] \in Seq(T)
      BY <3>2, <3>3, <3>4, <3>5
    <3>7. i + 1 \in Nat
      BY <3>1
    <3> QED BY <3>6, <3>7
  <2>3. 1..n \subseteq U
    <3> HIDE DEF U
    <3>1. PICK one \in Nat : one = 1
      OBVIOUS
    <3> QED BY <2>1, <2>2, <3>1, IntervalInduction
  <2> QED BY <2>3
<1>11. f \in [1..n -> Seq(T)]
  <2>1. f = [i \in 1..n |-> f[i]]
    BY <1>7
  <2> QED BY <1>10, <2>1
<1>12. f[1] = ss[1] /\ \A i \in 2..n : f[i] = f[i - 1] \o ss[i]
  <2>1. \A i \in 2..n : i \in 1..n /\ i # 1
    OBVIOUS
  <2> QED BY <1>1, <1>9, <2>1
<1> HIDE DEF Is
<1> QED BY <1>0, <1>8, <1>11, <1>12 DEF Flat

\* Nothing to join.
LEMMA FlattenEmpty ==
    ASSUME NEW ss, ss = <<>>
    PROVE  FlattenSeq(ss) = <<>>
PROOF BY DEF FlattenSeq

\* FlattenSeq keeps the type.
LEMMA FlattenType ==
    ASSUME NEW T, NEW ss \in Seq(Seq(T))
    PROVE  FlattenSeq(ss) \in Seq(T)
PROOF
<1>1. CASE Len(ss) = 0
  <2>1. ss = <<>>
    BY <1>1
  <2>2. PICK z : z = <<>>
    OBVIOUS
  <2>3. z \in Seq(T) /\ FlattenSeq(ss) = z
    BY <2>1, <2>2, FlattenEmpty
  <2> QED BY <2>3
<1>2. CASE Len(ss) # 0
  <2>1. PICK f : Flat(f, ss, T) /\ FlattenSeq(ss) = f[Len(ss)]
    BY <1>2, FlattenFlat
  <2>2. Len(ss) \in 1..Len(ss)
    BY <1>2
  <2> QED BY <2>1, <2>2 DEF Flat
<1> QED BY <1>1, <1>2

\* One sequence more is joined at the end.
LEMMA FlattenAppend ==
    ASSUME NEW T, NEW ss \in Seq(Seq(T)), NEW x \in Seq(T)
    PROVE  FlattenSeq(Append(ss, x)) = FlattenSeq(ss) \o x
PROOF
<1>1. PICK n \in Nat : n = Len(ss)
  OBVIOUS
<1>2. PICK rr : rr = Append(ss, x)
  OBVIOUS
<1>3. rr \in Seq(Seq(T)) /\ Len(rr) = n + 1 /\ rr[n + 1] = x /\ \A i \in 1..n : rr[i] = ss[i]
  BY <1>1, <1>2, AppendProperties
<1>4. PICK g : Flat(g, rr, T) /\ FlattenSeq(rr) = g[n + 1]
  <2>1. Len(rr) # 0
    BY <1>3
  <2> QED BY <1>3, <2>1, FlattenFlat
<1>5. CASE n = 0
  <2>1. FlattenSeq(rr) = x
    BY <1>3, <1>4, <1>5 DEF Flat
  <2>2. ss = <<>>
    <3>1. Len(ss) = 0
      BY <1>1, <1>5
    <3> QED BY <3>1
  <2>3. FlattenSeq(ss) = <<>>
    BY <2>2, FlattenEmpty
  <2>4. <<>> \o x = x
    BY ConcatEmptySeq
  <2> QED BY <1>2, <2>1, <2>3, <2>4
<1>6. CASE n # 0
  <2>1. PICK f : Flat(f, ss, T) /\ FlattenSeq(ss) = f[n]
    BY <1>1, <1>6, FlattenFlat
  <2> DEFINE U == {i \in Nat : g[i] = f[i]}
  <2>2. 1 \in U
    <3>1. g[1] = rr[1] /\ f[1] = ss[1] /\ 1 \in 1..n
      BY <1>4, <1>6, <2>1 DEF Flat
    <3> QED BY <1>3, <3>1
  <2>3. ASSUME NEW i \in 1..n, i \in U, i + 1 <= n PROVE i + 1 \in U
    <3>1. i + 1 \in 2..n /\ i + 1 \in 2..(n + 1) /\ i + 1 \in 1..n /\ (i + 1) - 1 = i
      BY <2>3
    <3>2. f[i + 1] = f[i] \o ss[i + 1] /\ g[i + 1] = g[i] \o rr[i + 1]
      BY <1>1, <1>3, <1>4, <2>1, <3>1 DEF Flat
    <3>3. rr[i + 1] = ss[i + 1] /\ g[i] = f[i]
      BY <1>3, <2>3, <3>1
    <3>4. g[i + 1] = f[i + 1]
      BY <3>2, <3>3
    <3> QED BY <3>1, <3>4
  <2>4. 1..n \subseteq U
    <3> HIDE DEF U
    <3>1. PICK one \in Nat : one = 1
      OBVIOUS
    <3> QED BY <2>2, <2>3, <3>1, IntervalInduction
  <2>5. g[n] = f[n]
    BY <1>6, <2>4
  <2>6. g[n + 1] = g[n] \o x
    <3>1. n + 1 \in 2..(n + 1) /\ (n + 1) - 1 = n
      BY <1>6
    <3> QED BY <1>3, <1>4, <3>1 DEF Flat
  <2> QED BY <1>2, <1>4, <2>1, <2>5, <2>6
<1> QED BY <1>5, <1>6

-----------------------------------------------------------------------------
(* Sequences of whatever they hold.                                        *)

IsSequence(s) == s \in Seq(Range(s))

\* A sequence over a set is one over its range.
LEMMA SequenceOver ==
    ASSUME NEW T, NEW s \in Seq(T)
    PROVE  IsSequence(s) /\ Range(s) \subseteq T
PROOF
<1>1. PICK n \in Nat : n = Len(s)
  OBVIOUS
<1>2. DOMAIN s = 1..n /\ s = [i \in 1..n |-> s[i]] /\ \A i \in 1..n : s[i] \in T
  BY <1>1
<1>3. \A i \in 1..n : s[i] \in Range(s)
  BY <1>2 DEF Range
<1>4. s \in Seq(Range(s))
  BY <1>1, <1>2, <1>3
<1> QED BY <1>2, <1>4 DEF IsSequence, Range

\* A sequence has a length, and it is one over any larger set.
LEMMA SequenceIs ==
    ASSUME NEW s, IsSequence(s)
    PROVE  /\ Len(s) \in Nat /\ DOMAIN s = 1..Len(s) /\ Range(s) = {s[i] : i \in 1..Len(s)}
           /\ \A T : Range(s) \subseteq T => s \in Seq(T)
PROOF
<1>1. PICK R : R = Range(s)
  OBVIOUS
<1>2. s \in Seq(R)
  BY <1>1 DEF IsSequence
<1>3. Len(s) \in Nat /\ DOMAIN s = 1..Len(s) /\ s \in [1..Len(s) -> R]
  BY <1>2, LenProperties
<1>4. Range(s) = {s[i] : i \in 1..Len(s)}
  BY <1>3 DEF Range
<1>5. ASSUME NEW T, R \subseteq T PROVE s \in Seq(T)
  BY <1>2, <1>5
<1> QED BY <1>1, <1>3, <1>4, <1>5

\* A function over 1..n is a sequence.
LEMMA SequenceOf ==
    ASSUME NEW n \in Nat, NEW s, DOMAIN s = 1..n, s = [i \in 1..n |-> s[i]]
    PROVE  IsSequence(s) /\ Len(s) = n
PROOF
<1>1. \A i \in 1..n : s[i] \in Range(s)
  BY DEF Range
<1>2. s \in [1..n -> Range(s)]
  BY <1>1
<1>3. s \in Seq(Range(s)) /\ Len(s) = n
  <2> DEFINE R == Range(s)
  <2> HIDE DEF R
  <2>1. s \in [1..n -> R]
    BY <1>2 DEF R
  <2>2. s \in Seq(R)
    BY <2>1
  <2>3. Len(s) = n
    BY <2>1, <2>2
  <2> QED BY <2>2, <2>3 DEF R
<1> QED BY <1>3 DEF IsSequence

\* One sequence and another.
Joined(c, s, t) ==
    /\ IsSequence(c) /\ Len(c) = Len(s) + Len(t)
    /\ \A i \in 1..Len(s) : c[i] = s[i]
    /\ \A i \in 1..Len(t) : c[Len(s) + i] = t[i]
    /\ Range(c) = Range(s) \cup Range(t)

\* What concatenation gives.
LEMMA ConcatJoins ==
    ASSUME NEW s, IsSequence(s), NEW t, IsSequence(t)
    PROVE  Joined(s \o t, s, t)
PROOF
<1>1. PICK R : R = Range(s) \cup Range(t)
  OBVIOUS
<1>2. s \in Seq(R) /\ t \in Seq(R)
  BY <1>1, SequenceIs
<1>3. PICK c \in Seq(R) : c = s \o t
  BY <1>2, ConcatProperties
<1>4. PICK m \in Nat : m = Len(s)
  BY <1>2
<1>5. PICK n \in Nat : n = Len(t)
  BY <1>2
<1>6. Len(c) = m + n /\ \A i \in 1..(m + n) : c[i] = IF i <= m THEN s[i] ELSE t[i - m]
  BY <1>2, <1>3, <1>4, <1>5, ConcatProperties
<1>7. \A i \in 1..m : c[i] = s[i]
  BY <1>6
<1>8. \A i \in 1..n : c[m + i] = t[i]
  <2> SUFFICES ASSUME NEW i \in 1..n PROVE c[m + i] = t[i]
    OBVIOUS
  <2>1. m + i \in 1..(m + n) /\ ~(m + i <= m) /\ (m + i) - m = i
    OBVIOUS
  <2> QED BY <1>6, <2>1
<1>9. IsSequence(c) /\ Range(c) \subseteq R
  BY SequenceOver
<1>10. ASSUME NEW x \in R PROVE x \in Range(c)
  <2>1. Range(c) = {c[i] : i \in 1..(m + n)}
    BY <1>6, <1>9, SequenceIs
  <2>2. CASE x \in Range(s)
    <3>1. PICK i \in 1..m : x = s[i]
      BY <1>2, <1>4, <2>2 DEF Range
    <3> QED BY <1>7, <2>1, <3>1
  <2>3. CASE x \in Range(t)
    <3>1. PICK i \in 1..n : x = t[i]
      BY <1>2, <1>5, <2>3 DEF Range
    <3>2. m + i \in 1..(m + n)
      OBVIOUS
    <3> QED BY <1>8, <2>1, <3>1, <3>2
  <2> QED BY <1>1, <1>10, <2>2, <2>3
<1>11. Range(c) = R
  BY <1>9, <1>10
<1> QED BY <1>1, <1>3, <1>4, <1>5, <1>6, <1>7, <1>8, <1>9, <1>11 DEF Joined

\* What one element more gives.
LEMMA AppendAdds ==
    ASSUME NEW s, IsSequence(s), NEW x
    PROVE  /\ IsSequence(Append(s, x)) /\ Len(Append(s, x)) = Len(s) + 1
           /\ \A i \in 1..Len(s) : Append(s, x)[i] = s[i]
           /\ Append(s, x)[Len(s) + 1] = x
PROOF
<1>1. PICK R : R = Range(s) \cup {x}
  OBVIOUS
<1>2. s \in Seq(R) /\ x \in R
  BY <1>1, SequenceIs
<1>3. PICK a \in Seq(R) : a = Append(s, x)
  BY <1>2, AppendProperties
<1>4. Len(a) = Len(s) + 1 /\ a[Len(s) + 1] = x /\ \A i \in 1..Len(s) : a[i] = s[i]
  BY <1>2, <1>3, AppendProperties
<1>5. IsSequence(a)
  BY SequenceOver
<1> QED BY <1>3, <1>4, <1>5

\* FlattenSeq holds what its sequences hold.
LEMMA FlattenRange ==
    ASSUME NEW T, NEW ss \in Seq(Seq(T))
    PROVE  Range(FlattenSeq(ss)) = UNION {Range(ss[i]) : i \in 1..Len(ss)}
PROOF
<1> DEFINE All(qq) == UNION {Range(qq[i]) : i \in 1..Len(qq)}
           P == {qq \in Seq(Seq(T)) : Range(FlattenSeq(qq)) = All(qq)}
<1>1. PICK z : z = <<>>
  OBVIOUS
<1>2. z \in P /\ Len(z) = 0
  <2>1. z \in Seq(Seq(T)) /\ Len(z) = 0
    BY <1>1
  <2>2. FlattenSeq(z) = <<>>
    BY <1>1, FlattenEmpty
  <2>3. Range(FlattenSeq(z)) = {}
    BY <2>2 DEF Range
  <2> QED BY <2>1, <2>3
<1>3. ASSUME NEW qq \in P, NEW x \in Seq(T) PROVE Append(qq, x) \in P
  <2>0. qq \in Seq(Seq(T)) /\ Range(FlattenSeq(qq)) = All(qq)
    OBVIOUS
  <2>1. PICK rr \in Seq(Seq(T)) : rr = Append(qq, x)
    <3> HIDE DEF P
    <3> QED BY <2>0, AppendProperties
  <2>2. PICK n \in Nat : n = Len(qq)
    BY <2>0
  <2>3. Len(rr) = n + 1 /\ rr[n + 1] = x /\ \A i \in 1..n : rr[i] = qq[i]
    BY <2>0, <2>1, <2>2
  <2>4. PICK f \in Seq(T) : f = FlattenSeq(qq)
    BY FlattenType
  <2>5. FlattenSeq(rr) = f \o x
    BY <2>1, <2>4, FlattenAppend
  <2>6. Range(f \o x) = Range(f) \cup Range(x)
    <3>1. IsSequence(f) /\ IsSequence(x)
      BY SequenceOver
    <3> QED BY <3>1, ConcatJoins DEF Joined
  <2>7. 1..(n + 1) = (1..n) \cup {n + 1}
    OBVIOUS
  <2>8. All(rr) = All(qq) \cup Range(x)
    <3>1. \A i \in 1..n : Range(rr[i]) = Range(qq[i])
      BY <2>3
    <3>2. All(rr) = UNION {Range(rr[i]) : i \in 1..(n + 1)}
      BY <2>3
    <3>3. All(qq) = UNION {Range(qq[i]) : i \in 1..n}
      BY <2>2
    <3> HIDE DEF All
    <3>4. All(rr) = (UNION {Range(rr[i]) : i \in 1..n}) \cup Range(rr[n + 1])
      BY <2>7, <3>2
    <3> QED BY <2>3, <3>1, <3>3, <3>4
  <2> QED BY <2>1, <2>4, <2>5, <2>6, <2>8
<1>4. P \in SUBSET Seq(Seq(T))
  OBVIOUS
<1>5. P = Seq(Seq(T))
  <2> HIDE DEF P
  <2> QED BY <1>2, <1>3, <1>4, SeqInduction
<1> QED BY <1>5

\* The numbers of a sequence are bounded.
LEMMA SeqBounded ==
    ASSUME NEW s \in Seq(Nat)
    PROVE  \E b \in Nat : \A n \in Range(s) : n <= b
PROOF
<1> DEFINE P == {q \in Seq(Nat) : \E b \in Nat : \A n \in Range(q) : n <= b}
<1>1. PICK z : z = <<>>
  OBVIOUS
<1>2. z \in P /\ Len(z) = 0
  <2>1. z \in Seq(Nat) /\ Len(z) = 0 /\ Range(z) = {}
    BY <1>1 DEF Range
  <2> QED BY <2>1
<1>3. ASSUME NEW q \in P, NEW t \in Nat PROVE Append(q, t) \in P
  <2>1. Append(q, t) \in Seq(Nat) /\ Range(Append(q, t)) = Range(q) \cup {t}
    BY RangeAppend
  <2>2. PICK b \in Nat : \A n \in Range(q) : n <= b
    OBVIOUS
  <2>3. Range(q) \subseteq Nat
    BY DEF Range
  <2>4. b + t \in Nat /\ \A n \in Range(q) \cup {t} : n <= b + t
    BY <2>2, <2>3
  <2> QED BY <2>1, <2>4
<1>4. P \in SUBSET Seq(Nat)
  OBVIOUS
<1>5. P = Seq(Nat)
  <2> HIDE DEF P
  <2> QED BY <1>2, <1>3, <1>4, SeqInduction
<1> QED BY <1>5

\* FlattenSeq of sequences of whatever they hold.
LEMMA FlattenIs ==
    ASSUME NEW ss, IsSequence(ss), \A i \in 1..Len(ss) : IsSequence(ss[i])
    PROVE  /\ IsSequence(FlattenSeq(ss))
           /\ Range(FlattenSeq(ss)) = UNION {Range(ss[i]) : i \in 1..Len(ss)}
PROOF
<1>1. PICK n \in Nat : n = Len(ss)
  BY SequenceIs
<1>2. PICK T : T = UNION {Range(ss[i]) : i \in 1..n}
  OBVIOUS
<1>3. DOMAIN ss = 1..n /\ Range(ss) = {ss[i] : i \in 1..n}
  BY <1>1, SequenceIs
<1>4. ASSUME NEW i \in 1..n PROVE ss[i] \in Seq(T)
  <2>1. IsSequence(ss[i]) /\ Range(ss[i]) \subseteq T
    BY <1>1, <1>2
  <2> QED BY <2>1, SequenceIs
<1>5. Range(ss) \subseteq Seq(T)
  BY <1>3, <1>4
<1>6. ss \in Seq(Seq(T))
  BY <1>5, SequenceIs
<1>7. FlattenSeq(ss) \in Seq(T)
  BY <1>6, FlattenType
<1> QED BY <1>6, <1>7, FlattenRange, SequenceOver
-----------------------------------------------------------------------------
(* Sorting: the elements of a finite set by the number that come before.    *)

\* R, a set of pairs, puts any two elements of S in one order.
Arranges(R, S) ==
    /\ \A i \in S : <<i, i>> \notin R
    /\ \A i, j \in S : i # j => <<i, j>> \in R \/ <<j, i>> \in R
    /\ \A i, j, k \in S : <<i, j>> \in R /\ <<j, k>> \in R => <<i, k>> \in R
Before(R, S, i) == {j \in S : <<j, i>> \in R}

\* What comes first has less before it.
LEMMA RanksGrow ==
    ASSUME NEW S, IsFiniteSet(S), NEW R, Arranges(R, S), NEW i \in S
    PROVE  /\ Cardinality(Before(R, S, i)) \in Nat
           /\ Cardinality(Before(R, S, i)) < Cardinality(S)
           /\ \A j \in S : <<i, j>> \in R =>
                Cardinality(Before(R, S, i)) < Cardinality(Before(R, S, j))
PROOF
<1>1. \A k \in S : Before(R, S, k) \in SUBSET S
  BY DEF Before
<1>2. \A k \in S : IsFiniteSet(Before(R, S, k))
  BY <1>1, FS_Subset
<1>3. PICK b : b = Before(R, S, i)
  OBVIOUS
<1>4. IsFiniteSet(b) /\ i \notin b /\ b \cup {i} \in SUBSET S
  BY <1>1, <1>2, <1>3 DEF Before, Arranges
<1>5. Cardinality(b) \in Nat /\ Cardinality(b \cup {i}) = Cardinality(b) + 1
  BY <1>4, FS_AddElement, FS_CardinalityType
<1>6. Cardinality(b \cup {i}) <= Cardinality(S) /\ Cardinality(S) \in Nat
  BY <1>4, FS_Subset, FS_CardinalityType
<1>7. ASSUME NEW j \in S, <<i, j>> \in R PROVE Cardinality(b) < Cardinality(Before(R, S, j))
  <2>1. b \cup {i} \in SUBSET Before(R, S, j)
    BY <1>3, <1>7 DEF Before, Arranges
  <2>2. Cardinality(b \cup {i}) <= Cardinality(Before(R, S, j))
    BY <1>2, <2>1, FS_Subset
  <2>3. Cardinality(Before(R, S, j)) \in Nat
    BY <1>2, FS_CardinalityType
  <2> QED BY <1>5, <2>2, <2>3
<1> QED BY <1>3, <1>5, <1>6, <1>7

\* Every number below the size of the set is how many come before some element.
LEMMA RanksReach ==
    ASSUME NEW S, IsFiniteSet(S), NEW R, Arranges(R, S), NEW n \in 1..Cardinality(S)
    PROVE  \E i \in S : Cardinality(Before(R, S, i)) = n - 1
PROOF
<1>1. PICK c \in Nat : c = Cardinality(S)
  BY FS_CardinalityType
<1>2. PICK T : T = 0..(c - 1)
  OBVIOUS
<1>3. IsFiniteSet(T) /\ Cardinality(T) = c
  BY <1>1, <1>2, FS_Interval
<1>4. PICK f : f = [i \in S |-> Cardinality(Before(R, S, i))]
  OBVIOUS
<1>5. f \in [S -> T]
  <2>1. \A i \in S : Cardinality(Before(R, S, i)) \in T
    BY <1>1, <1>2, RanksGrow
  <2> QED BY <1>4, <2>1
<1>6. ASSUME NEW i \in S, NEW j \in S, i # j PROVE f[i] # f[j]
  <2>1. <<i, j>> \in R \/ <<j, i>> \in R
    BY <1>6 DEF Arranges
  <2>2. f[i] \in Nat /\ f[j] \in Nat /\ (f[i] < f[j] \/ f[j] < f[i])
    BY <1>4, <2>1, RanksGrow
  <2> QED BY <2>2
<1>7. f \in Injection(S, T)
  BY <1>5, <1>6 DEF Injection, IsInjective
<1>8. f \in Surjection(S, T)
  BY <1>1, <1>3, <1>7, FS_Injection
<1>9. n - 1 \in T
  BY <1>1, <1>2
<1>10. PICK i \in S : f[i] = n - 1
  BY <1>8, <1>9 DEF Surjection
<1> QED BY <1>4, <1>10

\* Elements by what comes before them: each once.
Sorted(o, R, S) ==
    /\ DOMAIN o = 1..Cardinality(S) /\ o = [n \in 1..Cardinality(S) |-> o[n]]
    /\ \A n \in 1..Cardinality(S) : o[n] \in S /\ Cardinality(Before(R, S, o[n])) = n - 1

\* They are all of the set, in the order.
LEMMA SortedIs ==
    ASSUME NEW S, IsFiniteSet(S), NEW R, Arranges(R, S), NEW o, Sorted(o, R, S)
    PROVE  /\ IsSequence(o) /\ Len(o) = Cardinality(S) /\ Range(o) = S
           /\ \A m, n \in 1..Cardinality(S) : o[m] = o[n] => m = n
           /\ \A m, n \in 1..Cardinality(S) : m < n => <<o[m], o[n]>> \in R
PROOF
<1>1. PICK c \in Nat : c = Cardinality(S)
  BY FS_CardinalityType
<1>2. /\ DOMAIN o = 1..c /\ o = [n \in 1..c |-> o[n]]
      /\ \A n \in 1..c : o[n] \in S /\ Cardinality(Before(R, S, o[n])) = n - 1
  BY <1>1 DEF Sorted
<1>3. IsSequence(o) /\ Len(o) = c
  BY <1>2, SequenceOf
<1>4. Range(o) = {o[n] : n \in 1..c}
  BY <1>3, SequenceIs
<1>5. ASSUME NEW m \in 1..c, NEW n \in 1..c, o[m] = o[n] PROVE m = n
  BY <1>2, <1>5
<1>6. ASSUME NEW m \in 1..c, NEW n \in 1..c, m < n PROVE <<o[m], o[n]>> \in R
  <2>1. o[m] # o[n]
    BY <1>2, <1>6
  <2>2. <<o[m], o[n]>> \in R \/ <<o[n], o[m]>> \in R
    BY <1>2, <2>1 DEF Arranges
  <2>3. <<o[n], o[m]>> \in R => n - 1 < m - 1
    BY <1>2, RanksGrow
  <2> QED BY <1>6, <2>2, <2>3
<1>7. ASSUME NEW i \in S PROVE \E n \in 1..c : o[n] = i
  <2>1. PICK k \in Nat : k = Cardinality(Before(R, S, i)) /\ k < c
    BY <1>1, RanksGrow
  <2>2. k + 1 \in 1..c /\ (k + 1) - 1 = k
    BY <2>1
  <2>3. o[k + 1] \in S /\ Cardinality(Before(R, S, o[k + 1])) = k
    BY <1>2, <2>2
  <2>4. ASSUME NEW j \in S, Cardinality(Before(R, S, j)) = k PROVE j = i
    <3>1. SUFFICES ASSUME j # i PROVE FALSE
      OBVIOUS
    <3>2. <<i, j>> \in R \/ <<j, i>> \in R
      BY <3>1 DEF Arranges
    <3>3. <<i, j>> \in R => k < k
      BY <2>1, <2>4, RanksGrow
    <3>4. <<j, i>> \in R => k < k
      BY <2>1, <2>4, RanksGrow
    <3> QED BY <2>1, <3>2, <3>3, <3>4
  <2> QED BY <2>2, <2>3, <2>4
<1>8. Range(o) = S
  BY <1>2, <1>4, <1>7
<1> QED BY <1>1, <1>3, <1>5, <1>6, <1>8
=============================================================================
