----------------------------- MODULE ConverterProofs -----------------------------
(***************************************************************************)
(* What a run of the converter promises, proved for every program: in the    *)
(* program database a reference to a procedure leads to it and its code to   *)
(* its module, and the names of methods are written as they were kept; the   *)
(* `dwarf' command is a behaviour of Dwarf, and one of AddressMap as soon as *)
(* it comes to its end.                                                     *)
(***************************************************************************)
EXTENDS Converter, DwarfProofs

-----------------------------------------------------------------------------
(* Look-ups.                                                               *)

\* The indices of the .rsm's aggregates, and none.
Aggregates == 1..Len(Rsm.aggregates)
OrNone     == 0..Len(Rsm.aggregates)

\* The aggregates are a sequence, with the fields as one.
LEMMA AggregatesAre ==
    ASSUME ImageOK(program)
    PROVE  /\ Len(Rsm.aggregates) \in Nat /\ DOMAIN Rsm.aggregates = Aggregates
           /\ \A k \in Aggregates : IsSequence(Rsm.aggregates[k].fields)
           /\ Keys = {Key(k) : k \in Aggregates}
PROOF
<1>1. PICK s : s = Rsm.aggregates
  OBVIOUS
<1>2. IsSequence(s) /\ \A a \in Range(s) : IsSequence(a.fields)
  BY <1>1 DEF ImageOK, Rsm, IsSequence
<1>3. Len(s) \in Nat /\ DOMAIN s = 1..Len(s) /\ Range(s) = {s[i] : i \in 1..Len(s)}
  BY <1>2, SequenceIs
<1>4. \A k \in 1..Len(s) : IsSequence(s[k].fields)
  BY <1>2, <1>3
<1> QED BY <1>1, <1>3, <1>4 DEF Aggregates, Keys

\* What an index stands for is an aggregate.
LEMMA IndexedAre ==
    ASSUME ImageOK(program)
    PROVE  /\ \A x \in DOMAIN Rsm.inUnit : Rsm.inUnit[x] \in Aggregates
           /\ \A x \in DOMAIN Rsm.anywhere : Rsm.anywhere[x] \in Aggregates
PROOF
<1>1. Range(Rsm.inUnit) \cup Range(Rsm.anywhere) \subseteq DOMAIN Rsm.aggregates
  BY DEF ImageOK, Rsm
<1>2. DOMAIN Rsm.aggregates = Aggregates
  BY AggregatesAre
<1> QED BY <1>1, <1>2 DEF Range

\* A look-up by hash finds an aggregate or none.
LEMMA MeantIs ==
    ASSUME ImageOK(program), NEW unit, NEW hash
    PROVE  Meant(unit, hash) \in OrNone
PROOF
<1>1. Len(Rsm.aggregates) \in Nat
  BY AggregatesAre
<1>2. AggregateInUnit(unit, hash) \in OrNone
  BY <1>1, IndexedAre DEF AggregateInUnit, Aggregates, OrNone
<1>3. AggregateByHash(hash) \in OrNone
  BY <1>1, IndexedAre DEF AggregateByHash, Aggregates, OrNone
<1> QED BY <1>2, <1>3 DEF Meant

\* One of some aggregates, or none.
LEMMA PickIs ==
    ASSUME ImageOK(program), NEW ks, ks \subseteq Aggregates
    PROVE  Pick(ks) \in OrNone
PROOF
<1>1. Len(Rsm.aggregates) \in Nat
  BY AggregatesAre
<1>2. CASE ks = {}
  BY <1>1, <1>2 DEF Pick, OrNone
<1>3. CASE ks # {}
  <2>1. ks \in SUBSET Nat /\ \A k \in ks : k <= Len(Rsm.aggregates)
    BY <1>1 DEF Aggregates
  <2>2. Max(ks) \in ks
    BY <1>1, <1>3, <2>1, MaxIsGreatest
  <2>3. Min(ks) \in ks
    BY <1>3, <2>1, MinIsLeast
  <2>4. Pick(ks) \in ks
    BY <1>3, <2>2, <2>3 DEF Pick
  <2>5. PICK k \in Aggregates : k = Pick(ks)
    BY <2>4
  <2>6. k \in OrNone
    BY <1>1 DEF Aggregates, OrNone
  <2> QED BY <2>5, <2>6
<1> QED BY <1>2, <1>3

\* So is the type of a field, the class of a method and a class by name.
LEMMA TargetsAre ==
    ASSUME ImageOK(program)
    PROVE  /\ \A unit, f : FieldTarget(unit, f) \in OrNone
           /\ \A unit, name : SelfClass(unit, name) \in OrNone
           /\ \A unit, name : AnyClass(unit, name) \in OrNone
           /\ \A v : Target(v) \in OrNone
PROOF
<1>1. 0 \in OrNone
  BY AggregatesAre DEF OrNone
<1>2. \A name : ByName(name) \subseteq Aggregates
  BY AggregatesAre DEF ByName
<1>3. ASSUME NEW entry PROVE Foreign(entry) \in OrNone
  <2>1. PICK exact : exact = {k \in ByName(entry.name) : Rsm.aggregates[k].own = LowHalf(entry.hash)}
    OBVIOUS
  <2>2. Pick(exact) \in OrNone /\ Pick(ByName(entry.name)) \in OrNone
    BY <1>2, <2>1, PickIs
  <2> QED BY <2>1, <2>2 DEF Foreign
<1>4. ASSUME NEW unit, NEW f PROVE FieldTarget(unit, f) \in OrNone
  <2>1. Foreign(TypeEntry(unit, f.marker)) \in OrNone
    BY <1>3
  <2>2. Meant(unit, f.hash) \in OrNone
    BY MeantIs
  <2> QED BY <1>1, <2>1, <2>2 DEF FieldTarget
<1>5. ASSUME NEW unit, NEW name
      PROVE  SelfClass(unit, name) \in OrNone /\ AnyClass(unit, name) \in OrNone
  <2>1. /\ Classes(ByUnitName(unit, name)) \subseteq Aggregates
        /\ Classes(ByName(name)) \subseteq Aggregates
    BY <1>2 DEF Classes, ByUnitName
  <2> QED BY <2>1, PickIs DEF SelfClass, AnyClass
<1>6. ASSUME NEW v PROVE Target(v) \in OrNone
  BY <1>1, MeantIs DEF Target
<1> QED BY <1>4, <1>5, <1>6


-----------------------------------------------------------------------------
(* registerAggr.                                                           *)

Results == [place : Nat, walk : Walks]
FieldStates == [walk : Walks, nested : Seq(Nat)]

\* The calls for the fields of an aggregate.
LEMMA FieldsWalked ==
    ASSUME ImageOK(program), NEW deeper \in [Calls -> Results], NEW k \in Aggregates,
           NEW open \in SUBSET Keys, NEW walk \in Walks
    PROVE  CallForFields(deeper, Rsm.aggregates[k], open, walk) \in FieldStates
PROOF
<1>1. PICK a : a = Rsm.aggregates[k]
  OBVIOUS
<1>2. PICK n \in Nat : n = Len(a.fields)
  BY <1>1, AggregatesAre, SequenceIs
<1> DEFINE Step(i, v) == CallForField(deeper, a.unit, a.fields[i], open, v)
           step == [i \in Nat |-> [v \in FieldStates |-> Step(i, v)]]
           start == [walk |-> walk, nested |-> <<>>]
           Is(h) == h = [i \in 0..n |-> IF i = 0 THEN start ELSE Step(i, h[i - 1])]
<1>3. ASSUME NEW i \in Nat, NEW v \in FieldStates PROVE Step(i, v) \in FieldStates
  <2>1. PICK t \in OrNone : t = FieldTarget(a.unit, a.fields[i])
    BY TargetsAre
  <2>2. v.walk \in Walks /\ v.nested \in Seq(Nat)
    BY DEF FieldStates
  <2>3. Call(t, open, v.walk) \in Calls
    BY <2>2 DEF Call, Calls, OrNone
  <2>4. PICK r \in Results : r = deeper[Call(t, open, v.walk)]
    BY <2>3
  <2>5. r.walk \in Walks /\ r.place \in Nat
    BY DEF Results
  <2>6. Append(v.nested, r.place) \in Seq(Nat)
    BY <2>2, <2>5
  <2>7. Step(i, v) = [walk |-> r.walk, nested |-> Append(v.nested, r.place)]
    BY <2>1, <2>4 DEF CallForField
  <2> QED BY <2>5, <2>6, <2>7 DEF FieldStates
<1>4. start \in FieldStates
  BY DEF FieldStates
<1>5. step \in [Nat -> [FieldStates -> FieldStates]]
  BY <1>3
<1>6. RecursionData(0, n, FieldStates, start, step)
  BY <1>4, <1>5 DEF RecursionData
<1>7. PICK f : RecursiveFunction(f, 0, n, FieldStates, start, step)
  BY <1>6, Recursion
<1>8. f \in [0..n -> FieldStates] /\ Is(f)
  <2>1. /\ f \in [0..n -> FieldStates]
        /\ f = [i \in 0..n |-> IF i = 0 THEN start ELSE step[i][f[i - 1]]]
    BY <1>7 DEF RecursiveFunction
  <2>2. ASSUME NEW i \in 0..n
        PROVE  f[i] = IF i = 0 THEN start ELSE Step(i, f[i - 1])
    <3>1. i # 0 => i \in Nat /\ f[i - 1] \in FieldStates
      BY <2>1
    <3>2. i # 0 => step[i][f[i - 1]] = Step(i, f[i - 1])
      BY <3>1
    <3> HIDE DEF step, Step, start
    <3> QED BY <2>1, <3>2
  <2> HIDE DEF step, Step, start
  <2> QED BY <2>1, <2>2
<1>9. PICK w : w = CHOOSE h : Is(h)
  OBVIOUS
<1>10. Is(w)
  BY <1>8, <1>9
<1>11. 0..n \subseteq {i \in 0..n : w[i] \in FieldStates}
  <2> DEFINE T == {i \in 0..n : w[i] \in FieldStates}
  <2>1. 0 \in T
    BY <1>4, <1>10
  <2>2. ASSUME NEW i \in 0..n, i \in T, i + 1 <= n PROVE i + 1 \in T
    <3>1. w[i + 1] = Step(i + 1, w[i])
      BY <1>10, <2>2
    <3>2. Step(i + 1, w[i]) \in FieldStates
      BY <1>3, <2>2
    <3> QED BY <2>2, <3>1, <3>2
  <2> HIDE DEF T
  <2> QED BY <2>1, <2>2, IntervalInduction DEF T
<1>12. CallForFields(deeper, a, open, walk) = w[n]
  BY <1>2, <1>9, Zenon DEF CallForFields
<1> QED BY <1>1, <1>11, <1>12

\* What a call adds for its own aggregate.
LEMMA FilledIs ==
    ASSUME ImageOK(program), NEW k \in Aggregates, NEW base \in Nat,
           NEW fields \in FieldStates
    PROVE  Filled(k, base, fields) \in Results
PROOF
<1>1. PICK walk \in Walks : walk = fields.walk
  BY DEF FieldStates
<1>2. fields.nested \in Seq(Nat)
  BY DEF FieldStates
<1>3. walk.count \in Nat /\ walk.cache \in [Keys -> Nat] /\ walk.new \in Seq(New)
  BY DEF Walks
<1>4. PICK place \in Nat : place = walk.count + 1
  BY <1>3
<1>5. [walk.cache EXCEPT ![Key(k)] = place] \in [Keys -> Nat]
  BY <1>3
<1>6. PICK x : x = [of |-> k, base |-> base, nested |-> fields.nested]
  OBVIOUS
<1>7. x \in New
  BY <1>2, <1>6, AggregatesAre DEF New
<1>8. Append(walk.new, x) \in Seq(New)
  BY <1>3, <1>7
<1>9. Filled(k, base, fields) =
        Result(place, [count |-> place, cache |-> [walk.cache EXCEPT ![Key(k)] = place],
                       new |-> Append(walk.new, x)])
  BY <1>1, <1>4, <1>6 DEF Filled
<1>10. [count |-> place, cache |-> [walk.cache EXCEPT ![Key(k)] = place],
        new |-> Append(walk.new, x)] \in Walks
  BY <1>5, <1>8 DEF Walks
<1> QED BY <1>9, <1>10 DEF Result, Results

\* One call, whatever the calls one level up may find.
LEMMA CallIs ==
    ASSUME ImageOK(program), NEW deeper \in [Calls -> Results], NEW k \in OrNone,
           NEW open \in SUBSET Keys, NEW walk \in Walks
    PROVE  RegisterAggr(deeper, k, open, walk) \in Results
PROOF
<1>1. Result(0, walk) \in Results
  BY DEF Result, Results
<1>2. CASE k = 0
  BY <1>1, <1>2 DEF RegisterAggr
<1>3. CASE k # 0
  <2>1. k \in Aggregates
    BY <1>3, AggregatesAre DEF Aggregates, OrNone
  <2>2. Key(k) \in Keys /\ walk.cache \in [Keys -> Nat]
    BY <2>1, AggregatesAre DEF Walks
  <2>3. Result(walk.cache[Key(k)], walk) \in Results
    BY <2>2 DEF Result, Results
  <2>4. PICK o \in SUBSET Keys : o = open \cup {Key(k)}
    BY <2>2
  <2>5. PICK a : a = Rsm.aggregates[k]
    OBVIOUS
  <2>6. deeper[Call(Meant(a.unit, a.base), o, walk)] \in Results
    <3>1. Call(Meant(a.unit, a.base), o, walk) \in Calls
      BY MeantIs DEF Call, Calls, OrNone
    <3> QED BY <3>1
  <2>7. ASSUME NEW base \in Results PROVE Based(deeper, k, o, base) \in Results
    <3>1. base.place \in Nat /\ base.walk \in Walks
      BY DEF Results
    <3>2. CallForFields(deeper, a, o, base.walk) \in FieldStates
      BY <2>1, <2>5, <3>1, FieldsWalked
    <3>3. [walk |-> base.walk, nested |-> <<>>] \in FieldStates
      BY <3>1 DEF FieldStates
    <3>4. PICK fields \in FieldStates :
            fields = IF a.kind \in {"Class", "Record", "PackedRecord"}
                     THEN CallForFields(deeper, a, o, base.walk)
                     ELSE [walk |-> base.walk, nested |-> <<>>]
      BY <3>2, <3>3
    <3>5. Filled(k, base.place, fields) \in Results
      BY <2>1, <3>1, FilledIs
    <3> QED BY <2>5, <3>4, <3>5 DEF Based
  <2>8. PICK base \in Results :
          base = IF a.kind = "Class" /\ a.base # 0
                 THEN deeper[Call(Meant(a.unit, a.base), o, walk)] ELSE Result(0, walk)
    BY <1>1, <2>6
  <2>9. Based(deeper, k, o, base) \in Results
    BY <2>7
  <2>10. RegisterAggr(deeper, k, open, walk) \in
           {Result(0, walk), Result(walk.cache[Key(k)], walk), Based(deeper, k, o, base)}
    BY <1>3, <2>4, <2>5, <2>8 DEF RegisterAggr
  <2> QED BY <1>1, <2>3, <2>9, <2>10
<1> QED BY <1>2, <1>3

\* A call from any level finds a place.
LEMMA RegisteringIs ==
    ASSUME ImageOK(program)
    PROVE  Levels \in Nat /\ Registering[Levels] \in [Calls -> Results]
PROOF
<1>1. PICK n \in Nat : n = Levels /\ 0 <= n
  BY AggregatesAre DEF Levels
<1> DEFINE S == [Calls -> Results]
           start == [c \in Calls |-> Result(0, c.walk)]
           Step(V) == [c \in Calls |-> RegisterAggr(V, c.of, c.open, c.walk)]
           step == [i \in Nat |-> [V \in S |-> Step(V)]]
           Is(h) == h = [i \in 0..n |-> [c \in Calls |->
                      IF i = 0 THEN Result(0, c.walk)
                      ELSE RegisterAggr(h[i - 1], c.of, c.open, c.walk)]]
<1>2. start \in S
  <2>1. \A c \in Calls : Result(0, c.walk) \in Results
    BY DEF Calls, Result, Results
  <2> QED BY <2>1
<1>3. ASSUME NEW V \in S PROVE Step(V) \in S
  <2>1. \A c \in Calls : RegisterAggr(V, c.of, c.open, c.walk) \in Results
    <3> SUFFICES ASSUME NEW c \in Calls
                 PROVE  RegisterAggr(V, c.of, c.open, c.walk) \in Results
      OBVIOUS
    <3>1. c.of \in OrNone /\ c.open \in SUBSET Keys /\ c.walk \in Walks
      BY DEF Calls, OrNone
    <3> QED BY <3>1, CallIs
  <2> QED BY <2>1
<1>4. step \in [Nat -> [S -> S]]
  BY <1>3
<1>5. RecursionData(0, n, S, start, step)
  <2> HIDE DEF S, start, step
  <2> QED BY <1>2, <1>4 DEF RecursionData
<1>6. PICK f : RecursiveFunction(f, 0, n, S, start, step)
  <2> HIDE DEF S, start, step
  <2> QED BY <1>5, Recursion
<1>7. f \in [0..n -> S] /\ f = [i \in 0..n |-> IF i = 0 THEN start ELSE step[i][f[i - 1]]]
  <2> HIDE DEF S, start, step
  <2> QED BY <1>6 DEF RecursiveFunction
<1>8. Is(f)
  <2>1. ASSUME NEW i \in 0..n
        PROVE  f[i] = [c \in Calls |-> IF i = 0 THEN Result(0, c.walk)
                                      ELSE RegisterAggr(f[i - 1], c.of, c.open, c.walk)]
    <3>1. CASE i = 0
      <4>1. f[i] = start
        BY <1>7, <3>1
      <4> QED BY <3>1, <4>1
    <3>2. CASE i # 0
      <4>1. i \in Nat /\ f[i - 1] \in S
        <5> HIDE DEF S, start, step, Step, Is
        <5> QED BY <1>7, <3>2
      <4>2. f[i] = step[i][f[i - 1]]
        BY <1>7, <3>2
      <4>3. step[i][f[i - 1]] = Step(f[i - 1])
        BY <4>1
      <4> QED BY <3>2, <4>2, <4>3
    <3> QED BY <3>1, <3>2
  <2> QED BY <1>7, <2>1
<1>9. PICK g : g = CHOOSE h : Is(h)
  OBVIOUS
<1>10. Is(g)
  <2> HIDE DEF Is
  <2> QED BY <1>8, <1>9
<1>11. 0..n \subseteq {i \in 0..n : g[i] \in S}
  <2> DEFINE T == {i \in 0..n : g[i] \in S}
  <2>1. 0 \in T
    <3>1. g[0] = start
      BY <1>10
    <3> QED BY <1>2, <3>1
  <2>2. ASSUME NEW i \in 0..n, i \in T, i + 1 <= n PROVE i + 1 \in T
    <3>1. /\ i + 1 \in 0..n /\ i + 1 # 0 /\ (i + 1) - 1 = i
      BY <2>2
    <3>2. g[i + 1] = Step(g[i])
      BY <1>10, <3>1
    <3>3. Step(g[i]) \in S
      BY <1>3, <2>2
    <3> QED BY <3>1, <3>2, <3>3
  <2> HIDE DEF T
  <2> QED BY <2>1, <2>2, IntervalInduction DEF T
<1>12. Registering = g
  BY <1>1, <1>9, Zenon DEF Registering
<1> QED BY <1>1, <1>11, <1>12

\* What the registrar keeps.
AggregateOK(a) == "methods" \in DOMAIN a /\ IsSequence(a.methods)
RegistryOK(r) ==
    /\ DOMAIN r = {"aggregates", "cache", "opaque", "sets"}
    /\ IsSequence(r.aggregates) /\ \A a \in Range(r.aggregates) : AggregateOK(a)
    /\ r.cache \in [Keys -> Nat]

\* An aggregate made from the empty one without touching its methods.
LEMMA MadeUpOK ==
    ASSUME NEW a, DOMAIN a = DOMAIN NoAggregate, a.methods = <<>>
    PROVE  AggregateOK(a)
PROOF
<1>1. "methods" \in DOMAIN a
  BY DEF NoAggregate
<1>2. PICK z : z = <<>>
  OBVIOUS
<1>3. z \in Seq({})
  BY <1>2
<1>4. IsSequence(z)
  BY <1>3, SequenceOver
<1> QED BY <1>1, <1>2, <1>4 DEF AggregateOK

\* An aggregate has no methods when it is registered.
LEMMA NewAggregateOK ==
    ASSUME NEW k, NEW base, NEW nested
    PROVE  AggregateOK(NewAggregate(k, base, nested))
PROOF
<1>1. PICK a : a = NewAggregate(k, base, nested)
  OBVIOUS
<1>2. DOMAIN a = DOMAIN NoAggregate /\ a.methods = <<>>
  BY <1>1 DEF NewAggregate, NoAggregate
<1> QED BY <1>1, <1>2, MadeUpOK

\* A registry with more aggregates and another cache.
LEMMA RegistryExtended ==
    ASSUME NEW r, RegistryOK(r), NEW new, IsSequence(new),
           \A a \in Range(new) : AggregateOK(a),
           NEW q, DOMAIN q = DOMAIN r, q.aggregates = r.aggregates \o new,
           q.cache \in [Keys -> Nat]
    PROVE  RegistryOK(q)
PROOF
<1>1. Joined(r.aggregates \o new, r.aggregates, new)
  BY ConcatJoins DEF RegistryOK
<1>2. PICK s : s = r.aggregates \o new
  OBVIOUS
<1>3. IsSequence(s) /\ \A a \in Range(s) : AggregateOK(a)
  BY <1>1, <1>2 DEF Joined, RegistryOK
<1> QED BY <1>2, <1>3 DEF RegistryOK

\* Register keeps it.
LEMMA RegisterOK ==
    ASSUME ImageOK(program), NEW k \in OrNone, NEW r, RegistryOK(r)
    PROVE  RegistryOK(Register(k, r).r)
PROOF
<1>1. PICK walk : walk = [count |-> Len(r.aggregates), cache |-> r.cache, new |-> <<>>]
  OBVIOUS
<1>2. walk \in Walks
  BY <1>1, SequenceIs DEF RegistryOK, Walks
<1>3. Call(k, {}, walk) \in Calls
  BY <1>2 DEF Call, Calls, OrNone
<1>4. PICK result \in Results : result = Registering[Levels][Call(k, {}, walk)]
  BY <1>3, RegisteringIs
<1>5. PICK c \in [Keys -> Nat], new \in Seq(New) :
        c = result.walk.cache /\ new = result.walk.new
  BY DEF Results, Walks
<1>6. PICK n \in Nat : n = Len(new) /\ DOMAIN new = 1..n
  BY <1>5
<1>7. PICK added : added = [i \in 1..n |-> NewAggregate(new[i].of, new[i].base, new[i].nested)]
  OBVIOUS
<1>8. IsSequence(added) /\ \A a \in Range(added) : AggregateOK(a)
  <2>1. IsSequence(added) /\ Len(added) = n
    BY <1>7, SequenceOf
  <2>2. Range(added) = {added[i] : i \in 1..n}
    BY <2>1, SequenceIs
  <2> QED BY <1>7, <2>1, <2>2, NewAggregateOK
<1>9. PICK q : q = Register(k, r).r
  OBVIOUS
<1>10. q = Registered(r, result).r
  BY <1>1, <1>4, <1>9 DEF Register
<1>11. DOMAIN q = DOMAIN r /\ q.cache = c /\ q.aggregates = r.aggregates \o added
  <2>1. added = [i \in DOMAIN result.walk.new |->
           NewAggregate(result.walk.new[i].of, result.walk.new[i].base, result.walk.new[i].nested)]
    BY <1>5, <1>6, <1>7
  <2>2. Registered(r, result).r = [r EXCEPT !.cache = c, !.aggregates = @ \o added]
    BY <1>5, <2>1 DEF Registered
  <2> QED BY <1>10, <2>2 DEF RegistryOK
<1> QED BY <1>8, <1>9, <1>11, RegistryExtended

\* A registry with one aggregate more.
LEMMA RegistryPushed ==
    ASSUME NEW r, RegistryOK(r), NEW a, AggregateOK(a),
           NEW q, DOMAIN q = DOMAIN r, q.aggregates = Append(r.aggregates, a),
           q.cache = r.cache
    PROVE  RegistryOK(q)
PROOF
<1>1. IsSequence(r.aggregates) /\ \A x \in Range(r.aggregates) : AggregateOK(x)
  BY DEF RegistryOK
<1>2. PICK s : s = Append(r.aggregates, a)
  OBVIOUS
<1>3. PICK n \in Nat : n = Len(r.aggregates)
  BY <1>1, SequenceIs
<1>4. /\ IsSequence(s) /\ Len(s) = n + 1 /\ s[n + 1] = a
      /\ \A i \in 1..n : s[i] = r.aggregates[i]
  BY <1>1, <1>2, <1>3, AppendAdds
<1>5. Range(s) = {s[i] : i \in 1..(n + 1)}
  BY <1>4, SequenceIs
<1>6. \A i \in 1..n : AggregateOK(r.aggregates[i])
  BY <1>1, <1>3, SequenceIs
<1>7. ASSUME NEW i \in 1..(n + 1) PROVE AggregateOK(s[i])
  <2>1. i = n + 1 \/ i \in 1..n
    OBVIOUS
  <2> QED BY <1>4, <1>6, <2>1
<1>8. \A x \in Range(s) : AggregateOK(x)
  BY <1>5, <1>7
<1> QED BY <1>2, <1>4, <1>8 DEF RegistryOK

\* The other ways to register keep it.
LEMMA InprocSetOK ==
    ASSUME NEW unit, NEW hash, NEW r, RegistryOK(r)
    PROVE  RegistryOK(RegisterInprocSet(unit, hash, r).r)
PROOF
<1>1. PICK e : e = Rsm.aggregates[EnumBelow(unit, hash)]
  OBVIOUS
<1>2. PICK new : new = [NoAggregate EXCEPT !.kind = "Set", !.name = "set of " \o e.name,
                                           !.size = SetSize(e.entries), !.entries = e.entries]
  OBVIOUS
<1>3. AggregateOK(new)
  BY <1>2, MadeUpOK DEF NoAggregate
<1>4. PICK sets : sets = r.sets @@ (<<unit, e.own>> :> Place(r))
  OBVIOUS
<1>5. PICK q : q = [Pushed(r, new) EXCEPT !.sets = sets]
  OBVIOUS
<1>6. DOMAIN q = DOMAIN r /\ q.aggregates = Append(r.aggregates, new) /\ q.cache = r.cache
  BY <1>5 DEF Pushed, RegistryOK
<1>7. RegistryOK(q)
  BY <1>3, <1>6, RegistryPushed
<1>8. RegisterInprocSet(unit, hash, r).r \in {r, q}
  <2>1. Pushed(r, new).sets = r.sets
    BY DEF Pushed, RegistryOK
  <2> QED BY <1>1, <1>2, <1>4, <1>5, <2>1 DEF RegisterInprocSet
<1> QED BY <1>7, <1>8

\* Registering the class of a Self keeps the registry as it should be.
LEMMA RegisterSelfOK ==
    ASSUME ImageOK(program), NEW unit, NEW name, NEW r, RegistryOK(r)
    PROVE  RegistryOK(RegisterSelf(unit, name, r).r)
PROOF
<1>1. PICK new : new = [NoAggregate EXCEPT !.kind = "Class", !.name = name]
  OBVIOUS
<1>2. AggregateOK(new)
  BY <1>1, MadeUpOK DEF NoAggregate
<1>3. PICK opaque : opaque = r.opaque @@ (name :> Place(r))
  OBVIOUS
<1>4. PICK q : q = [Pushed(r, new) EXCEPT !.opaque = opaque]
  OBVIOUS
<1>5. DOMAIN q = DOMAIN r /\ q.aggregates = Append(r.aggregates, new) /\ q.cache = r.cache
  BY <1>4 DEF Pushed, RegistryOK
<1>6. RegistryOK(q)
  BY <1>2, <1>5, RegistryPushed
<1>7. RegistryOK(Register(SelfClass(unit, name), r).r)
  BY TargetsAre, RegisterOK
<1>8. RegisterSelf(unit, name, r).r \in {r, q, Register(SelfClass(unit, name), r).r}
  <2>1. Pushed(r, new).opaque = r.opaque
    BY DEF Pushed, RegistryOK
  <2> QED BY <1>1, <1>3, <1>4, <2>1 DEF RegisterSelf
<1> QED BY <1>6, <1>7, <1>8

\* So does finding the owner of a method.
LEMMA OwnerOK ==
    ASSUME ImageOK(program), NEW r, RegistryOK(r), NEW class
    PROVE  /\ RegistryOK(Owner(r, class).r)
PROOF
<1>1. RegistryOK(Register(AnyClass(0, class), r).r)
  BY TargetsAre, RegisterOK
<1> QED BY <1>1 DEF Owner

\* A method more.
LEMMA AddMethodOK ==
    ASSUME NEW owner, RegistryOK(owner.r), NEW method
    PROVE  RegistryOK(AddMethod(owner, method))
PROOF
<1>1. PICK r : r = owner.r
  OBVIOUS
<1>2. PICK p : p = owner.place
  OBVIOUS
<1>3. PICK s : s = r.aggregates
  OBVIOUS
<1>4. IsSequence(s) /\ \A a \in Range(s) : AggregateOK(a)
  BY <1>1, <1>3 DEF RegistryOK
<1>5. PICK n \in Nat : n = Len(s) /\ DOMAIN s = 1..n /\ Range(s) = {s[i] : i \in 1..n}
  BY <1>4, SequenceIs
<1>6. PICK x : x = [s[p] EXCEPT !.methods = Append(@, method)]
  OBVIOUS
<1>7. PICK q : q = [s EXCEPT ![p] = x]
  OBVIOUS
<1>8. DOMAIN q = 1..n /\ q = [i \in 1..n |-> q[i]]
      /\ \A i \in 1..n : q[i] = IF i = p THEN x ELSE s[i]
  BY <1>5, <1>7
<1>9. IsSequence(q) /\ Len(q) = n
  BY <1>8, SequenceOf
<1>10. ASSUME NEW i \in 1..n PROVE AggregateOK(q[i])
  <2>1. AggregateOK(s[i])
    BY <1>4, <1>5
  <2>2. CASE i # p
    BY <1>8, <2>1, <2>2
  <2>3. CASE i = p
    <3>1. IsSequence(Append(s[i].methods, method))
      BY <2>1, AppendAdds DEF AggregateOK
    <3>2. "methods" \in DOMAIN x /\ x.methods = Append(s[i].methods, method)
      BY <1>6, <2>1, <2>3 DEF AggregateOK
    <3> QED BY <1>8, <2>3, <3>1, <3>2 DEF AggregateOK
  <2> QED BY <2>2, <2>3
<1>11. Range(q) = {q[i] : i \in 1..n}
  BY <1>9, SequenceIs
<1>12. \A a \in Range(q) : AggregateOK(a)
  BY <1>10, <1>11
<1>13. PICK z : z = [r EXCEPT !.aggregates = q]
  OBVIOUS
<1>14. RegistryOK(z)
  BY <1>1, <1>9, <1>12, <1>13 DEF RegistryOK
<1>15. AddMethod(owner, method) = IF p = 0 THEN r ELSE z
  BY <1>1, <1>2, <1>3, <1>6, <1>7, <1>13 DEF AddMethod
<1> QED BY <1>1, <1>14, <1>15

-----------------------------------------------------------------------------
(* The variables of a function.                                            *)

\* The empty sequence is one.
LEMMA NothingIs ==
    IsSequence(<<>>) /\ Len(<<>>) = 0 /\ Range(<<>>) = {}
PROOF
<1>1. PICK z, T : z = <<>> /\ T = {}
  OBVIOUS
<1>2. z \in Seq(T) /\ Len(z) = 0
  BY <1>1
<1>3. IsSequence(z) /\ Range(z) \subseteq T
  BY <1>2, SequenceOver
<1> QED BY <1>1, <1>2, <1>3

\* resolveFunction() gives a sequence.
LEMMA FrameIs ==
    ASSUME NEW procedure, IsSequence(procedure.params), IsSequence(procedure.locals),
           NEW code, NEW sizes
    PROVE  IsSequence(ResolveFunction(procedure, code, sizes))
PROOF
<1>1. PICK frame : frame = Prologue(code)
  OBVIOUS
<1>2. PICK shift : shift = 8 * frame.pushes
  OBVIOUS
<1>3. PICK sniffed : sniffed = Sniffed(code)
  OBVIOUS
<1>4. PICK link : link = IF procedure.nested THEN <<StaticLink(SelfOffset(frame, shift))>> ELSE <<>>
  OBVIOUS
<1>5. IsSequence(link)
  <2>1. PICK x : x = StaticLink(SelfOffset(frame, shift))
    OBVIOUS
  <2>2. <<x>> \in Seq({x}) /\ <<>> \in Seq({x})
    OBVIOUS
  <2>3. IsSequence(<<x>>) /\ IsSequence(<<>>)
    BY <2>2, SequenceOver
  <2> QED BY <1>4, <2>1, <2>3
<1>6. ASSUME NEW q, IsSequence(q), NEW F, F = [i \in DOMAIN q |-> F[i]] PROVE IsSequence(F)
  <2>1. Len(q) \in Nat /\ DOMAIN q = 1..Len(q)
    BY <1>6, SequenceIs
  <2> QED BY <1>6, <2>1, SequenceOf
<1>7. PICK params : params = [i \in DOMAIN procedure.params |->
        Resolved(procedure.params[i], TRUE,
                 IF IsSelf(procedure.params[i]) THEN SelfOffset(frame, shift)
                 ELSE ParamOffset(frame, shift, procedure.params[i]), sizes, sniffed)]
  OBVIOUS
<1>8. PICK locals : locals = [i \in DOMAIN procedure.locals |->
        Resolved(procedure.locals[i], FALSE, LocalOffset(frame, shift, procedure.locals[i]),
                 sizes, sniffed)]
  OBVIOUS
<1>9. IsSequence(params) /\ IsSequence(locals)
  <2>1. params = [i \in DOMAIN procedure.params |-> params[i]]
    BY <1>7
  <2>2. locals = [i \in DOMAIN procedure.locals |-> locals[i]]
    BY <1>8
  <2> QED BY <1>6, <2>1, <2>2
<1>10. IsSequence(link \o params)
  BY <1>5, <1>9, ConcatJoins DEF Joined
<1>11. IsSequence((link \o params) \o locals)
  BY <1>9, <1>10, ConcatJoins DEF Joined
<1>12. ResolveFunction(procedure, code, sizes) = (link \o params) \o locals
  BY <1>1, <1>2, <1>3, <1>4, <1>7, <1>8, Zenon DEF ResolveFunction
<1> QED BY <1>11, <1>12

\* What typing a variable leaves of the registry.
LEMMA TypedOK ==
    ASSUME ImageOK(program), NEW r, RegistryOK(r), NEW v, NEW own, RegistryOK(own.r)
    PROVE  RegistryOK(TypeOf(v, own).r)
PROOF
<1>1. RegistryOK(RegisterInprocSet(v.unit, v.hash, own.r).r)
  BY InprocSetOK
<1> QED BY <1>1 DEF TypeOf

\* The variables of a function are a sequence.
Composing(w) == RegistryOK(w.r) /\ IsSequence(w.locals)

\* One variable more.
LEMMA ComposeLocalOK ==
    ASSUME ImageOK(program), NEW w, Composing(w), NEW v, NEW procedure
    PROVE  Composing(ComposeLocal(w, v, procedure))
PROOF
<1>1. RegistryOK(w.r) /\ IsSequence(w.locals)
  BY DEF Composing
<1>2. RegistryOK(Register(Target(v), w.r).r)
  BY <1>1, TargetsAre, RegisterOK
<1>3. PICK typed : typed = TypeOf(v, Register(Target(v), w.r))
  OBVIOUS
<1>4. RegistryOK(typed.r)
  BY <1>1, <1>2, <1>3, TypedOK
<1>5. ASSUME NEW x PROVE IsSequence(Append(w.locals, x))
  BY <1>1, AppendAdds
<1>6. PICK class : class = ClassName(procedure.name)
  OBVIOUS
<1>7. PICK self : self = RegisterSelf(procedure.unit, class, typed.r)
  OBVIOUS
<1>8. RegistryOK(self.r)
  BY <1>4, <1>7, RegisterSelfOK
<1>9. Composing(WithSelf(w.locals, Plain(v, typed), self))
  BY <1>5, <1>8 DEF Composing, WithSelf
<1>10. Composing([r |-> typed.r, locals |-> Append(w.locals, Plain(v, typed))])
  BY <1>4, <1>5 DEF Composing
<1>11. ComposeLocal(w, v, procedure) = WithLocal(w.locals, v, procedure, typed)
  BY <1>3 DEF ComposeLocal
<1>12. WithLocal(w.locals, v, procedure, typed) \in
         {WithSelf(w.locals, Plain(v, typed), self),
          [r |-> typed.r, locals |-> Append(w.locals, Plain(v, typed))]}
  BY <1>6, <1>7 DEF WithLocal
<1> QED BY <1>9, <1>10, <1>11, <1>12

\* All variables of a function.
LEMMA ComposeLocalsOK ==
    ASSUME ImageOK(program), RegistryOK(registry), NEW procedure, NEW shown, IsSequence(shown)
    PROVE  Composing(ComposeLocals(procedure, shown))
PROOF
<1>1. PICK n \in Nat : n = Len(shown)
  BY SequenceIs
<1> DEFINE start == [r |-> registry, locals |-> <<>>]
           Step(i, v) == ComposeLocal(v, shown[i], procedure)
           Is(k, h) == h = [i \in 0..k |-> IF i = 0 THEN start ELSE Step(i, h[i - 1])]
           Reached == {k \in Nat : \E h : Is(k, h)}
           Good(v) == Composing(v)
<1>2. Good(start)
  BY NothingIs DEF Composing
<1>3. ASSUME NEW i \in 1..n, NEW v, Good(v) PROVE Good(Step(i, v))
  BY <1>3, ComposeLocalOK
<1> HIDE DEF start, Step, Good
<1>4. 0 \in Reached
  <2>1. Is(0, [i \in 0..0 |-> start])
    OBVIOUS
  <2> QED BY <2>1
<1>5. ASSUME NEW k \in Reached PROVE k + 1 \in Reached
  <2>1. PICK h : Is(k, h)
    OBVIOUS
  <2>2. PICK g : g = [i \in 0..(k + 1) |-> IF i = k + 1 THEN Step(i, h[k]) ELSE h[i]]
    OBVIOUS
  <2>3. k \in Nat
    OBVIOUS
  <2>4. ASSUME NEW i \in 0..(k + 1)
        PROVE  g[i] = IF i = 0 THEN start ELSE Step(i, g[i - 1])
    <3>1. CASE i = k + 1
      <4>1. i # 0 /\ i - 1 = k /\ k \in 0..(k + 1) /\ k # k + 1
        BY <2>3, <3>1
      <4>2. g[i] = Step(i, h[k]) /\ g[k] = h[k]
        BY <2>2, <3>1, <4>1
      <4> QED BY <4>1, <4>2
    <3>2. CASE i # k + 1
      <4>1. i \in 0..k /\ g[i] = h[i]
        BY <2>2, <2>3, <3>2
      <4>2. i # 0 => i - 1 \in 0..(k + 1) /\ i - 1 # k + 1
        BY <2>3, <4>1
      <4>3. i # 0 => g[i - 1] = h[i - 1]
        BY <2>2, <4>2
      <4> QED BY <2>1, <4>1, <4>3
    <3> QED BY <3>1, <3>2
  <2>5. Is(k + 1, g)
    <3>1. g = [i \in 0..(k + 1) |-> g[i]]
      BY <2>2
    <3> QED BY <2>4, <3>1
  <2> HIDE DEF Is
  <2> QED BY <2>3, <2>5
<1>6. \E h : Is(n, h)
  <2> HIDE DEF Is
  <2>1. Reached \in SUBSET Nat
    OBVIOUS
  <2>2. Reached = Nat
    <3> HIDE DEF Reached
    <3> QED BY <1>4, <1>5, <2>1, Induction
  <2> QED BY <2>2
<1>7. PICK w : w = CHOOSE h : Is(n, h)
  OBVIOUS
<1>8. Is(n, w)
  <2> HIDE DEF Is
  <2> QED BY <1>6, <1>7
<1>9. Good(w[n])
  <2> DEFINE T == {i \in 0..n : Good(w[i])}
  <2>1. 0 \in T
    BY <1>2, <1>8
  <2>2. ASSUME NEW i \in 0..n, i \in T, i + 1 <= n PROVE i + 1 \in T
    <3>1. i + 1 \in 0..n /\ i + 1 \in 1..n /\ i + 1 # 0 /\ (i + 1) - 1 = i
      BY <2>2
    <3>2. w[i + 1] = Step(i + 1, w[i])
      BY <1>8, <3>1
    <3> QED BY <1>3, <2>2, <3>1, <3>2
  <2>3. 0..n \subseteq T
    <3> HIDE DEF T
    <3> QED BY <2>1, <2>2, IntervalInduction
  <2> QED BY <2>3
<1>10. ComposeLocals(procedure, shown) = w[n]
  BY <1>1, <1>7, Zenon DEF ComposeLocals, start, Step
<1> QED BY <1>9, <1>10 DEF Good

\* The parameters of a method.
LEMMA MethodParamsOK ==
    ASSUME ImageOK(program), NEW r, RegistryOK(r), NEW shown, IsSequence(shown)
    PROVE  RegistryOK(MethodParams(r, shown).r)
PROOF
<1>1. PICK n \in Nat : n = Len(shown)
  BY SequenceIs
<1> DEFINE start == [r |-> r, params |-> <<>>]
           Step(i, v) == MethodParam(v, shown[i])
           Is(k, h) == h = [i \in 0..k |-> IF i = 0 THEN start ELSE Step(i, h[i - 1])]
           Reached == {k \in Nat : \E h : Is(k, h)}
           Good(v) == RegistryOK(v.r)
<1>2. Good(start)
  OBVIOUS
<1>3. ASSUME NEW i \in 1..n, NEW v, Good(v) PROVE Good(Step(i, v))
  <2>1. PICK x : x = shown[i]
    OBVIOUS
  <2>2. PICK typed : typed = Register(Target(x), v.r)
    OBVIOUS
  <2>3. RegistryOK(typed.r)
    BY <1>3, <2>2, TargetsAre, RegisterOK
  <2>4. MethodParam(v, x) = v \/ MethodParam(v, x) = WithParam(v.params, x, typed)
    BY <2>2, Zenon DEF MethodParam
  <2>5. WithParam(v.params, x, typed).r = typed.r
    BY DEF WithParam
  <2>6. Good(v) /\ (Good(WithParam(v.params, x, typed)))
    BY <1>3, <2>3, <2>5
  <2> QED BY <2>1, <2>4, <2>6
<1> HIDE DEF start, Step, Good
<1>4. 0 \in Reached
  <2>1. Is(0, [i \in 0..0 |-> start])
    OBVIOUS
  <2> QED BY <2>1
<1>5. ASSUME NEW k \in Reached PROVE k + 1 \in Reached
  <2>1. PICK h : Is(k, h)
    OBVIOUS
  <2>2. PICK g : g = [i \in 0..(k + 1) |-> IF i = k + 1 THEN Step(i, h[k]) ELSE h[i]]
    OBVIOUS
  <2>3. k \in Nat
    OBVIOUS
  <2>4. ASSUME NEW i \in 0..(k + 1)
        PROVE  g[i] = IF i = 0 THEN start ELSE Step(i, g[i - 1])
    <3>1. CASE i = k + 1
      <4>1. i # 0 /\ i - 1 = k /\ k \in 0..(k + 1) /\ k # k + 1
        BY <2>3, <3>1
      <4>2. g[i] = Step(i, h[k]) /\ g[k] = h[k]
        BY <2>2, <3>1, <4>1
      <4> QED BY <4>1, <4>2
    <3>2. CASE i # k + 1
      <4>1. i \in 0..k /\ g[i] = h[i]
        BY <2>2, <2>3, <3>2
      <4>2. i # 0 => i - 1 \in 0..(k + 1) /\ i - 1 # k + 1
        BY <2>3, <4>1
      <4>3. i # 0 => g[i - 1] = h[i - 1]
        BY <2>2, <4>2
      <4> QED BY <2>1, <4>1, <4>3
    <3> QED BY <3>1, <3>2
  <2>5. Is(k + 1, g)
    <3>1. g = [i \in 0..(k + 1) |-> g[i]]
      BY <2>2
    <3> QED BY <2>4, <3>1
  <2> HIDE DEF Is
  <2> QED BY <2>3, <2>5
<1>6. \E h : Is(n, h)
  <2> HIDE DEF Is
  <2>1. Reached \in SUBSET Nat
    OBVIOUS
  <2>2. Reached = Nat
    <3> HIDE DEF Reached
    <3> QED BY <1>4, <1>5, <2>1, Induction
  <2> QED BY <2>2
<1>7. PICK w : w = CHOOSE h : Is(n, h)
  OBVIOUS
<1>8. Is(n, w)
  <2> HIDE DEF Is
  <2> QED BY <1>6, <1>7
<1>9. Good(w[n])
  <2> DEFINE T == {i \in 0..n : Good(w[i])}
  <2>1. 0 \in T
    BY <1>2, <1>8
  <2>2. ASSUME NEW i \in 0..n, i \in T, i + 1 <= n PROVE i + 1 \in T
    <3>1. i + 1 \in 0..n /\ i + 1 \in 1..n /\ i + 1 # 0 /\ (i + 1) - 1 = i
      BY <2>2
    <3>2. w[i + 1] = Step(i + 1, w[i])
      BY <1>8, <3>1
    <3> QED BY <1>3, <2>2, <3>1, <3>2
  <2>3. 0..n \subseteq T
    <3> HIDE DEF T
    <3> QED BY <2>1, <2>2, IntervalInduction
  <2> QED BY <2>3
<1>10. MethodParams(r, shown) = w[n]
  BY <1>1, <1>7, Zenon DEF MethodParams, start, Step
<1> QED BY <1>9, <1>10 DEF Good

\* All a procedure of the .rsm adds to a function.
LEMMA ComposeProcedureOK ==
    ASSUME ImageOK(program), RegistryOK(registry), NEW name, NEW procedure,
           NEW shown, IsSequence(shown)
    PROVE  Composing(ComposeProcedure(name, procedure, shown))
PROOF
<1>1. PICK w : w = ComposeLocals(procedure, shown)
  OBVIOUS
<1>2. RegistryOK(w.r) /\ IsSequence(w.locals)
  BY <1>1, ComposeLocalsOK DEF Composing
<1>3. PICK m : m = MethodParams(w.r, shown)
  OBVIOUS
<1>4. RegistryOK(m.r)
  BY <1>2, <1>3, MethodParamsOK
<1>5. RegistryOK(Owner(m.r, ClassName(name)).r)
  BY <1>4, OwnerOK
<1>6. RegistryOK(ComposeMethod(name, procedure, m))
  BY <1>5, AddMethodOK DEF ComposeMethod
<1> QED BY <1>1, <1>2, <1>3, <1>6 DEF ComposeProcedure, WithMethod, Composing

-----------------------------------------------------------------------------
(* Publics and thunks.                                                     *)

\* A function over the positions of a sequence is one.
LEMMA OverPositions ==
    ASSUME NEW q, IsSequence(q), NEW f, DOMAIN f = DOMAIN q, f = [i \in DOMAIN q |-> f[i]]
    PROVE  IsSequence(f) /\ Len(f) = Len(q) /\ Range(f) = {f[i] : i \in 1..Len(q)}
PROOF
<1>1. Len(q) \in Nat /\ DOMAIN q = 1..Len(q)
  BY SequenceIs
<1>2. IsSequence(f) /\ Len(f) = Len(q)
  BY <1>1, SequenceOf
<1> QED BY <1>2, SequenceIs

\* Among gives a sequence of elements of the sequence.
LEMMA AmongIs ==
    ASSUME NEW q, IsSequence(q), NEW S
    PROVE  IsSequence(Among(q, S)) /\ Range(Among(q, S)) \subseteq Range(q)
PROOF
<1>1. q \in Seq(Range(q))
  BY DEF IsSequence
<1>2. Among(q, S) \in Seq(Range(q))
  BY <1>1, AmongType
<1> QED BY <1>2, SequenceOver

\* The publics of the .map are a sequence.
LEMMA MapPublicsIs ==
    ASSUME ImageOK(program)
    PROVE  IsSequence(MapPublics)
PROOF
<1>1. PICK kept : kept = Among(MapFile.publics,
                  {p \in Range(MapFile.publics) :
                     ~Skipped(p.name) /\ FindPeSection(RvaOfPublic(p)) # 0})
  OBVIOUS
<1>2. IsSequence(MapFile.publics)
  BY DEF ImageOK, MapFile, IsSequence
<1>3. IsSequence(kept)
  BY <1>1, <1>2, AmongIs
<1>4. PICK q : q = MapPublics
  OBVIOUS
<1>5. DOMAIN q = DOMAIN kept /\ q = [i \in DOMAIN kept |-> q[i]]
  BY <1>1, <1>4 DEF MapPublics
<1> QED BY <1>3, <1>4, <1>5, OverPositions

\* Where a piece of code is: a section and an offset into it.
PlacedOK(x) == x.segment \in Nat /\ x.offset \in Int
PlacedList(q) == IsSequence(q) /\ \A x \in Range(q) : PlacedOK(x)

\* One more of them.
LEMMA PlacedAppend ==
    ASSUME NEW q, PlacedList(q), NEW x, PlacedOK(x)
    PROVE  PlacedList(Append(q, x))
PROOF
<1>1. IsSequence(q) /\ q \in Seq(Range(q) \cup {x})
  BY SequenceIs DEF PlacedList
<1>2. Range(Append(q, x)) = Range(q) \cup {x}
  BY <1>1, RangeAppend
<1>3. IsSequence(Append(q, x))
  BY <1>1, AppendAdds
<1> QED BY <1>2, <1>3 DEF PlacedList

\* The sections are a sequence.
LEMMA SectionsAre ==
    ASSUME ImageOK(program)
    PROVE  /\ Len(program.sections) \in Nat
           /\ DOMAIN program.sections = 1..Len(program.sections)
           /\ \A i \in 1..Len(program.sections) :
                LET s == program.sections[i]
                IN  s.rva \in Nat /\ s.virtual \in Nat /\ s.raw \in Nat
PROOF
<1>1. PICK q : q = program.sections
  OBVIOUS
<1>2. IsSequence(q)
      /\ \A s \in Range(q) : s.rva \in Nat /\ s.virtual \in Nat /\ s.raw \in Nat
  BY <1>1 DEF ImageOK, IsSequence
<1>3. Len(q) \in Nat /\ DOMAIN q = 1..Len(q) /\ Range(q) = {q[i] : i \in 1..Len(q)}
  BY <1>2, SequenceIs
<1>4. \A i \in 1..Len(q) : q[i] \in Range(q)
  BY <1>3
<1> QED BY <1>1, <1>2, <1>3, <1>4

\* A set of numbers, in order.
Ascending(S) ==
    [n \in 1..Cardinality(S) |->
       CHOOSE i \in S : Cardinality({j \in S : j < i}) = n - 1]
LEMMA AscendingIs ==
    ASSUME NEW S \in SUBSET Nat, IsFiniteSet(S), NEW q, q = Ascending(S)
    PROVE  /\ IsSequence(q) /\ Len(q) \in Nat
           /\ \A k \in 1..Len(q) : q[k] \in Nat
PROOF
<1> DEFINE Ranked(n) == CHOOSE i \in S : Cardinality({j \in S : j < i}) = n - 1
<1>1. q = [n \in 1..Cardinality(S) |-> Ranked(n)]
  BY Zenon DEF Ascending
<1>2. PICK R : R = {x \in S \X S : x[1] < x[2]}
  OBVIOUS
<1>3. \A i, j \in S : <<i, j>> \in R <=> i < j
  BY <1>2
<1>4. Arranges(R, S)
  BY <1>3 DEF Arranges
<1>5. ASSUME NEW i \in S PROVE {j \in S : j < i} = Before(R, S, i)
  BY <1>3 DEF Before
<1>6. ASSUME NEW n \in 1..Cardinality(S)
      PROVE  Ranked(n) \in S /\ Cardinality(Before(R, S, Ranked(n))) = n - 1
  <2>1. \E i \in S : Cardinality(Before(R, S, i)) = n - 1
    BY <1>4, RanksReach
  <2>2. \E i \in S : Cardinality({j \in S : j < i}) = n - 1
    BY <1>5, <2>1, Zenon
  <2>3. Ranked(n) \in S /\ Cardinality({j \in S : j < Ranked(n)}) = n - 1
    BY <2>2, Zenon
  <2> HIDE DEF Ranked
  <2> QED BY <1>5, <2>3, Zenon
<1> HIDE DEF Ranked
<1>7. Sorted(q, R, S)
  <2>1. DOMAIN q = 1..Cardinality(S) /\ q = [n \in 1..Cardinality(S) |-> q[n]]
        /\ \A n \in 1..Cardinality(S) : q[n] = Ranked(n)
    BY <1>1
  <2> QED BY <1>6, <2>1 DEF Sorted
<1>8. IsSequence(q) /\ Range(q) = S
  BY <1>4, <1>7, SortedIs
<1>9. PICK c \in Nat : c = Len(q) /\ Range(q) = {q[k] : k \in 1..c}
  BY <1>8, SequenceIs
<1> QED BY <1>8, <1>9

\* The thunks found in a section.
LEMMA ThunksInAre ==
    ASSUME ImageOK(program), NEW x \in DOMAIN program.sections
    PROVE  PlacedList(ThunksIn(x))
PROOF
<1> DEFINE s == program.sections[x]
           size == Max({s.virtual, s.raw})
           starts == Ordered({i \in 0..(size - ThunkSize) : IsThunk(s.pointer + i)},
                             LAMBDA i, j : i < j)
           Found(v, i) ==
             IF i < v.next THEN v
             ELSE [next |-> i + ThunkSize, found |-> Append(v.found,
                     [segment |-> x, offset |-> i,
                      target |-> program.base + s.rva + i + ThunkSize
                                 + Int32(program.bytes, s.pointer + i + 6)])]
<1>2. size \in Nat /\ x \in Nat
  <2>1. x \in Nat /\ s.virtual \in Nat /\ s.raw \in Nat
    BY SectionsAre
  <2> HIDE DEF s
  <2>2. PICK a \in Nat, b \in Nat : a = s.virtual /\ b = s.raw
    BY <2>1
  <2>3. PICK c \in Nat : \A m \in {a, b} : m <= c
    <3>1. a + b \in Nat /\ a <= a + b /\ b <= a + b
      OBVIOUS
    <3> QED BY <3>1
  <2>4. Max({a, b}) \in {a, b}
    <3>1. {a, b} \in SUBSET Nat /\ {a, b} # {}
      OBVIOUS
    <3> QED BY <2>3, <3>1, MaxIsGreatest
  <2>5. size = Max({a, b})
    BY <2>2, Zenon
  <2> QED BY <2>1, <2>4, <2>5
<1>3. CASE size < ThunkSize
  <2>1. ThunksIn(x) = <<>>
    BY <1>3, Zenon DEF ThunksIn
  <2>2. PlacedList(<<>>)
    BY NothingIs DEF PlacedList
  <2> QED BY <2>1, <2>2
<1>4. CASE ~(size < ThunkSize)
  <2> HIDE DEF size, s
  <2>0. PICK n \in Nat : n = Len(starts) /\ \A k \in 1..n : starts[k] \in Nat
    <3> DEFINE S == {i \in 0..(size - ThunkSize) : IsThunk(s.pointer + i)}
    <3>1. starts = Ascending(S)
      BY Zenon DEF Ordered, Ascending
    <3>2. S \in SUBSET Nat /\ S \subseteq 0..(size - ThunkSize)
      OBVIOUS
    <3> HIDE DEF starts, S
    <3>3. IsFiniteSet(S)
      <4>1. size - ThunkSize \in Int
        BY <1>2 DEF ThunkSize
      <4>2. IsFiniteSet(0..(size - ThunkSize))
        BY <4>1, FS_Interval
      <4> QED BY <3>2, <4>2, FS_Subset
    <3> QED BY <3>1, <3>2, <3>3, AscendingIs
  <2> HIDE DEF starts
  <2>1. ASSUME NEW i \in Nat, NEW v, PlacedList(v.found)
        PROVE  PlacedList(Found(v, i).found)
    <3>1. PICK y : y = [segment |-> x, offset |-> i,
                        target |-> program.base + s.rva + i + ThunkSize
                                   + Int32(program.bytes, s.pointer + i + 6)]
      OBVIOUS
    <3>2. PlacedList(Append(v.found, y))
      BY <1>2, <2>1, <3>1, PlacedAppend DEF PlacedOK
    <3>3. Found(v, i) = v \/ Found(v, i) = [next |-> i + ThunkSize, found |-> Append(v.found, y)]
      BY <3>1, Zenon
    <3>4. [next |-> i + ThunkSize, found |-> Append(v.found, y)].found = Append(v.found, y)
      OBVIOUS
    <3> HIDE DEF Found
    <3> QED BY <2>1, <3>2, <3>3, <3>4
  <2>2. PICK w : /\ PlacedList(w[n].found)
                 /\ w = CHOOSE h : h = [k \in 0..n |->
                      IF k = 0 THEN [next |-> 0, found |-> <<>>] ELSE Found(h[k - 1], starts[k])]
    <3> DEFINE start == [next |-> 0, found |-> <<>>]
               Step(i, v) == Found(v, starts[i])
               Is(k, h) == h = [i \in 0..k |-> IF i = 0 THEN start ELSE Step(i, h[i - 1])]
               Reached == {k \in Nat : \E h : Is(k, h)}
               Good(v) == PlacedList(v.found)
    <3>2. Good(start)
      <4>1. start.found = <<>>
        OBVIOUS
      <4> QED BY <4>1, NothingIs DEF PlacedList
    <3>3. ASSUME NEW i \in 1..n, NEW v, Good(v) PROVE Good(Step(i, v))
      <4>1. starts[i] \in Nat
        BY <2>0
      <4> HIDE DEF Found
      <4> QED BY <3>3, <4>1, <2>1
    <3> HIDE DEF start, Step, Good, Found
    <3>4. 0 \in Reached
      <4>1. Is(0, [i \in 0..0 |-> start])
        OBVIOUS
      <4> QED BY <4>1
    <3>5. ASSUME NEW k \in Reached PROVE k + 1 \in Reached
      <4>1. PICK h : Is(k, h)
        OBVIOUS
      <4>2. PICK g : g = [i \in 0..(k + 1) |-> IF i = k + 1 THEN Step(i, h[k]) ELSE h[i]]
        OBVIOUS
      <4>3. k \in Nat
        OBVIOUS
      <4>4. ASSUME NEW i \in 0..(k + 1)
            PROVE  g[i] = IF i = 0 THEN start ELSE Step(i, g[i - 1])
        <5>1. CASE i = k + 1
          <6>1. i # 0 /\ i - 1 = k /\ k \in 0..(k + 1) /\ k # k + 1
            BY <4>3, <5>1
          <6>2. g[i] = Step(i, h[k]) /\ g[k] = h[k]
            BY <4>2, <5>1, <6>1
          <6> QED BY <6>1, <6>2
        <5>2. CASE i # k + 1
          <6>1. i \in 0..k /\ g[i] = h[i]
            BY <4>2, <4>3, <5>2
          <6>2. i # 0 => i - 1 \in 0..(k + 1) /\ i - 1 # k + 1
            BY <4>3, <6>1
          <6>3. i # 0 => g[i - 1] = h[i - 1]
            BY <4>2, <6>2
          <6> QED BY <4>1, <6>1, <6>3
        <5> QED BY <5>1, <5>2
      <4>5. Is(k + 1, g)
        <5>1. g = [i \in 0..(k + 1) |-> g[i]]
          BY <4>2
        <5> QED BY <4>4, <5>1
      <4> HIDE DEF Is
      <4> QED BY <4>3, <4>5
    <3>6. \E h : Is(n, h)
      <4> HIDE DEF Is
      <4>1. Reached \in SUBSET Nat
        OBVIOUS
      <4>2. Reached = Nat
        <5> HIDE DEF Reached
        <5> QED BY <3>4, <3>5, <4>1, Induction
      <4> QED BY <4>2
    <3>7. PICK w : w = CHOOSE h : Is(n, h)
      OBVIOUS
    <3>8. Is(n, w)
      <4> HIDE DEF Is
      <4> QED BY <3>6, <3>7
    <3>9. Good(w[n])
      <4> DEFINE T == {i \in 0..n : Good(w[i])}
      <4>1. 0 \in T
        BY <3>2, <3>8
      <4>2. ASSUME NEW i \in 0..n, i \in T, i + 1 <= n PROVE i + 1 \in T
        <5>1. i + 1 \in 0..n /\ i + 1 \in 1..n /\ i + 1 # 0 /\ (i + 1) - 1 = i
          BY <4>2
        <5>2. w[i + 1] = Step(i + 1, w[i])
          BY <3>8, <5>1
        <5> QED BY <3>3, <4>2, <5>1, <5>2
      <4>3. 0..n \subseteq T
        <5> HIDE DEF T
        <5> QED BY <4>1, <4>2, IntervalInduction
      <4> QED BY <4>3
    <3> QED
      <4>1. w = CHOOSE h : h = [k \in 0..n |-> IF k = 0 THEN [next |-> 0, found |-> <<>>]
                                             ELSE Found(h[k - 1], starts[k])]
        BY <3>7, Zenon DEF start, Step
      <4>2. PlacedList(w[n].found)
        BY <3>9 DEF Good
      <4> QED BY <4>1, <4>2
  <2>3. ThunksIn(x) = <<>> \/ ThunksIn(x) = w[n].found
    BY <2>0, <2>2, Zenon DEF ThunksIn, s, size, starts, Found
  <2>4. PlacedList(<<>>)
    BY NothingIs DEF PlacedList
  <2> QED BY <2>2, <2>3, <2>4
<1> QED BY <1>3, <1>4, Zenon

\* The thunks of the program.
LEMMA ThunksAre ==
    ASSUME ImageOK(program)
    PROVE  PlacedList(FlattenSeq([n \in DOMAIN program.sections |-> ThunksIn(n)]))
PROOF
<1>1. PICK q : q = program.sections
  OBVIOUS
<1>2. IsSequence(q)
  BY <1>1 DEF ImageOK, IsSequence
<1>3. PICK ss : ss = [n \in DOMAIN q |-> ThunksIn(n)]
  OBVIOUS
<1>4. IsSequence(ss) /\ Len(ss) = Len(q) /\ DOMAIN ss = DOMAIN q
  <2>1. DOMAIN ss = DOMAIN q /\ ss = [i \in DOMAIN q |-> ss[i]]
    BY <1>3
  <2> QED BY <1>2, <2>1, OverPositions
<1>5. DOMAIN q = 1..Len(q)
  BY <1>2, SequenceIs
<1>6. \A i \in 1..Len(ss) : PlacedList(ss[i])
  BY <1>1, <1>3, <1>4, <1>5, ThunksInAre
<1>7. PICK f : f = FlattenSeq(ss)
  OBVIOUS
<1>8. IsSequence(f) /\ Range(f) = UNION {Range(ss[i]) : i \in 1..Len(ss)}
  BY <1>4, <1>6, <1>7, FlattenIs DEF PlacedList
<1>9. PlacedList(f)
  BY <1>6, <1>8 DEF PlacedList
<1> QED BY <1>1, <1>3, <1>7, <1>9

\* Those kept, and named.
LEMMA ResolvedAre ==
    ASSUME NEW all, PlacedList(all), NEW S, NEW lowest,
           NEW found, found = Among(all, S),
           NEW q, q = [i \in DOMAIN found |-> ResolvedThunk(found[i], lowest)]
    PROVE  PlacedList(q)
PROOF
<1>1. IsSequence(found) /\ Range(found) \subseteq Range(all)
  BY AmongIs DEF PlacedList
<1>2. PICK n \in Nat : n = Len(found) /\ DOMAIN found = 1..n
                       /\ Range(found) = {found[i] : i \in 1..n}
  BY <1>1, SequenceIs
<1>3. IsSequence(q) /\ Range(q) = {q[i] : i \in 1..n}
  <2>1. DOMAIN q = DOMAIN found /\ q = [i \in DOMAIN found |-> q[i]]
    OBVIOUS
  <2> QED BY <1>1, <1>2, <2>1, OverPositions
<1>4. ASSUME NEW i \in 1..n PROVE PlacedOK(q[i])
  <2>1. q[i] = ResolvedThunk(found[i], lowest)
    BY <1>2
  <2>2. PICK x, name, unit, line :
          /\ x = found[i]
          /\ q[i] = [segment |-> x.segment, offset |-> x.offset, name |-> name,
                     unit |-> unit, line |-> line]
    BY <2>1, Zenon DEF ResolvedThunk
  <2>3. PlacedOK(found[i])
    BY <1>1, <1>2 DEF PlacedList
  <2> QED BY <2>2, <2>3 DEF PlacedOK
<1> QED BY <1>3, <1>4 DEF PlacedList

-----------------------------------------------------------------------------
(* The types of the globals.                                               *)

\* One global.
LEMMA EnrichPublicOK ==
    ASSUME ImageOK(program), NEW v, RegistryOK(v.r), IsSequence(v.out), NEW p
    PROVE  RegistryOK(EnrichPublic(v, p).r) /\ IsSequence(EnrichPublic(v, p).out)
PROOF
<1>1. \A x : IsSequence(Append(v.out, x))
  BY AppendAdds
<1>2. PICK va, u : va = program.base + program.sections[p.segment].rva + p.offset
                   /\ u = Rsm.variables[VariableAt(va)]
  OBVIOUS
<1>3. PICK t : t = IF u.primitive \/ u.hash = 0 THEN [place |-> 0, r |-> v.r]
                   ELSE Register(Meant(u.unit, u.hash), v.r)
  OBVIOUS
<1>4. RegistryOK(t.r)
  <2>1. RegistryOK(Register(Meant(u.unit, u.hash), v.r).r)
    BY MeantIs, RegisterOK
  <2>2. t \in {[place |-> 0, r |-> v.r], Register(Meant(u.unit, u.hash), v.r)}
    BY <1>3, Zenon
  <2>3. [place |-> 0, r |-> v.r].r = v.r
    OBVIOUS
  <2> QED BY <2>1, <2>2, <2>3
<1>5. PICK x, y : /\ x = [p EXCEPT !.kind = Primitives[u.type].kind,
                                   !.size = Primitives[u.type].size]
                  /\ y = [p EXCEPT !.place = t.place, !.size = WithSize(t.r, t.place, @)]
  OBVIOUS
<1>6. PICK a, b, c : /\ a = [r |-> v.r, out |-> Append(v.out, p)]
                     /\ b = [r |-> v.r, out |-> Append(v.out, x)]
                     /\ c = [r |-> t.r, out |-> Append(v.out, y)]
  OBVIOUS
<1>7. EnrichPublic(v, p) = a \/ EnrichPublic(v, p) = b \/ EnrichPublic(v, p) = c
  <2>1. EnrichPublic(v, p) =
          CASE p.function \/ VariableAt(va) = 0 -> a
            [] ~(p.function \/ VariableAt(va) = 0) /\ u.type \in DOMAIN Primitives -> b
            [] OTHER -> WithType(v.out, p, t)
    BY <1>2, <1>3, <1>5, <1>6, Zenon DEF EnrichPublic
  <2>2. WithType(v.out, p, t) = c
    BY <1>5, <1>6, Zenon DEF WithType
  <2> QED BY <2>1, <2>2, Zenon
<1>8. /\ a.r = v.r /\ a.out = Append(v.out, p) /\ b.r = v.r /\ b.out = Append(v.out, x)
      /\ c.r = t.r /\ c.out = Append(v.out, y)
  BY <1>6
<1> QED BY <1>1, <1>4, <1>7, <1>8

\* All of them.
LEMMA EnrichedOK ==
    ASSUME ImageOK(program), RegistryOK(registry), IsSequence(publics)
    PROVE  RegistryOK(Enriched.r) /\ IsSequence(Enriched.out)
PROOF
<1>1. PICK n \in Nat : n = Len(publics)
  BY SequenceIs
<1> DEFINE start == [r |-> registry, out |-> <<>>]
           Step(i, v) == EnrichPublic(v, publics[i])
           Is(k, h) == h = [i \in 0..k |-> IF i = 0 THEN start ELSE Step(i, h[i - 1])]
           Reached == {k \in Nat : \E h : Is(k, h)}
           Good(v) == RegistryOK(v.r) /\ IsSequence(v.out)
<1>2. Good(start)
  <2>1. start.r = registry /\ start.out = <<>>
    OBVIOUS
  <2> QED BY <2>1, NothingIs
<1>3. ASSUME NEW i \in 1..n, NEW v, Good(v) PROVE Good(Step(i, v))
  BY <1>3, EnrichPublicOK
<1> HIDE DEF start, Step, Good
<1>4. 0 \in Reached
  <2>1. Is(0, [i \in 0..0 |-> start])
    OBVIOUS
  <2> QED BY <2>1
<1>5. ASSUME NEW k \in Reached PROVE k + 1 \in Reached
  <2>1. PICK h : Is(k, h)
    OBVIOUS
  <2>2. PICK g : g = [i \in 0..(k + 1) |-> IF i = k + 1 THEN Step(i, h[k]) ELSE h[i]]
    OBVIOUS
  <2>3. k \in Nat
    OBVIOUS
  <2>4. ASSUME NEW i \in 0..(k + 1)
        PROVE  g[i] = IF i = 0 THEN start ELSE Step(i, g[i - 1])
    <3>1. CASE i = k + 1
      <4>1. i # 0 /\ i - 1 = k /\ k \in 0..(k + 1) /\ k # k + 1
        BY <2>3, <3>1
      <4>2. g[i] = Step(i, h[k]) /\ g[k] = h[k]
        BY <2>2, <3>1, <4>1
      <4> QED BY <4>1, <4>2
    <3>2. CASE i # k + 1
      <4>1. i \in 0..k /\ g[i] = h[i]
        BY <2>2, <2>3, <3>2
      <4>2. i # 0 => i - 1 \in 0..(k + 1) /\ i - 1 # k + 1
        BY <2>3, <4>1
      <4>3. i # 0 => g[i - 1] = h[i - 1]
        BY <2>2, <4>2
      <4> QED BY <2>1, <4>1, <4>3
    <3> QED BY <3>1, <3>2
  <2>5. Is(k + 1, g)
    <3>1. g = [i \in 0..(k + 1) |-> g[i]]
      BY <2>2
    <3> QED BY <2>4, <3>1
  <2> HIDE DEF Is
  <2> QED BY <2>3, <2>5
<1>6. \E h : Is(n, h)
  <2> HIDE DEF Is
  <2>1. Reached \in SUBSET Nat
    OBVIOUS
  <2>2. Reached = Nat
    <3> HIDE DEF Reached
    <3> QED BY <1>4, <1>5, <2>1, Induction
  <2> QED BY <2>2
<1>7. PICK w : w = CHOOSE h : Is(n, h)
  OBVIOUS
<1>8. Is(n, w)
  <2> HIDE DEF Is
  <2> QED BY <1>6, <1>7
<1>9. Good(w[n])
  <2> DEFINE T == {i \in 0..n : Good(w[i])}
  <2>1. 0 \in T
    BY <1>2, <1>8
  <2>2. ASSUME NEW i \in 0..n, i \in T, i + 1 <= n PROVE i + 1 \in T
    <3>1. i + 1 \in 0..n /\ i + 1 \in 1..n /\ i + 1 # 0 /\ (i + 1) - 1 = i
      BY <2>2
    <3>2. w[i + 1] = Step(i + 1, w[i])
      BY <1>8, <3>1
    <3> QED BY <1>3, <2>2, <3>1, <3>2
  <2>3. 0..n \subseteq T
    <3> HIDE DEF T
    <3> QED BY <2>1, <2>2, IntervalInduction
  <2> QED BY <2>3
<1>10. Enriched = w[n]
  BY <1>1, <1>7, Zenon DEF Enriched, start, Step
<1> QED BY <1>9, <1>10 DEF Good

-----------------------------------------------------------------------------
(* The functions of a unit.                                                *)

\* The section of an address.
LEMMA SectionFound ==
    ASSUME ImageOK(program), NEW rva
    PROVE  /\ FindPeSection(rva) \in 0..Len(program.sections)
           /\ FindPeSection(rva) # 0 => program.sections[FindPeSection(rva)].rva \in Nat
PROOF
<1>1. PICK n \in Nat : n = Len(program.sections)
  BY SectionsAre
<1>2. PICK S : S = {i \in 1..n : Covers(program.sections[i], rva)}
  OBVIOUS
<1>3. PICK k : k = FindPeSection(rva)
  OBVIOUS
<1>4. k = IF S = {} THEN 0 ELSE Min(S)
  BY <1>1, <1>2, <1>3 DEF FindPeSection, SelectInSeq
<1>5. S # {} => Min(S) \in S
  BY <1>2, MinIsLeast
<1>6. k \in 0..n
  BY <1>2, <1>4, <1>5
<1> QED BY <1>1, <1>3, <1>6, SectionsAre

\* The publics, with their addresses.
LEMMA PublicsPlaced ==
    ASSUME ImageOK(program)
    PROVE  /\ Len(MapFile.publics) \in Nat /\ DOMAIN MapFile.publics = 1..Len(MapFile.publics)
           /\ \A i \in 1..Len(MapFile.publics) : VA(MapFile.publics[i]) \in Nat
PROOF
<1>1. PICK q : q = program.map.publics
  OBVIOUS
<1>2. IsSequence(q) /\ \A r \in Range(q) : r.offset \in Nat
  BY <1>1 DEF ImageOK, IsSequence
<1>3. Len(q) \in Nat /\ DOMAIN q = 1..Len(q) /\ Range(q) = {q[i] : i \in 1..Len(q)}
  BY <1>2, SequenceIs
<1>4. \A i \in 1..Len(q) : q[i].offset \in Nat
  BY <1>2, <1>3
<1>5. \A i \in 1..Len(q) : VA(q[i]) \in Nat
  BY <1>4, PlacedAddress DEF VA
<1>6. MapFile.publics = q
  BY <1>1 DEF MapFile
<1> QED BY <1>3, <1>5, <1>6

\* The functions of a unit before they are composed: each has an address.
Raw(r) == r.va \in Nat
RawList(q) == IsSequence(q) /\ \A r \in Range(q) : Raw(r)

\* The functions of a unit to come are a sequence, each at an address.
LEMMA RawsAre ==
    ASSUME ImageOK(program), NEW u, NEW reversed \in BOOLEAN
    PROVE  RawList(Raws(u, reversed))
PROOF
<1> DEFINE P == MapFile.publics
           S == FunctionsOf(u)
           Earlier(i, j) ==
             LET a == VA(P[i])
                 b == VA(P[j])
             IN  a < b \/ (a = b /\ i # j /\ (i < j) # reversed)
           order == [n \in 1..Cardinality(S) |->
                       CHOOSE i \in S : Cardinality({j \in S : Earlier(j, i)}) = n - 1]
           at(n) == VA(P[order[n]])
<1>1. Raws(u, reversed)
        = [n \in DOMAIN order |->
             [name |-> P[order[n]].name, va |-> at(n),
              end |-> IF n < Len(order) THEN at(n + 1) ELSE EndOfSpan(at(n))]]
  BY Zenon DEF Raws, Ordered
<1>2. PICK N \in Nat : N = Len(P) /\ DOMAIN P = 1..N /\ \A i \in 1..N : VA(P[i]) \in Nat
  BY PublicsPlaced
<1>4. S \in SUBSET (1..N)
  BY <1>2 DEF FunctionsOf
<1> HIDE DEF S, P, order
<1>5. IsFiniteSet(S)
  <2>1. IsFiniteSet(1..N)
    BY FS_Interval
  <2> QED BY <1>4, <2>1, FS_Subset
<1>6. PICK V : V = [i \in 1..N |-> VA(P[i])]
  OBVIOUS
<1>7. \A i \in 1..N : V[i] \in Nat
  BY <1>2, <1>6
<1> DEFINE First(i, j) == V[i] < V[j] \/ (V[i] = V[j] /\ i # j /\ (i < j) # reversed)
<1>8. PICK R : R = {x \in S \X S : First(x[1], x[2])}
  OBVIOUS
<1>9. \A i, j \in S : <<i, j>> \in R <=> First(i, j)
  BY <1>8
<1>10. Arranges(R, S)
  <2>1. \A i \in S : i \in 1..N /\ i \in Nat /\ V[i] \in Nat
    BY <1>4, <1>7
  <2>2. \A i \in S : <<i, i>> \notin R
    BY <1>9, <2>1
  <2>3. ASSUME NEW i \in S, NEW j \in S, i # j PROVE <<i, j>> \in R \/ <<j, i>> \in R
    <3>1. PICK a \in Nat, b \in Nat : a = V[i] /\ b = V[j]
      BY <2>1
    <3>2. i \in Nat /\ j \in Nat
      BY <2>1
    <3>3. (i < j) = ~(j < i)
      BY <2>3, <3>2
    <3>4. a < b \/ b < a \/ a = b
      BY <3>1
    <3>5. (i < j) # reversed \/ (j < i) # reversed
      BY <3>3, Zenon
    <3>6. First(i, j) \/ First(j, i)
      BY <2>3, <3>1, <3>4, <3>5, Zenon
    <3> QED BY <1>9, <3>6
  <2>4. ASSUME NEW i \in S, NEW j \in S, NEW k \in S, <<i, j>> \in R, <<j, k>> \in R
        PROVE  <<i, k>> \in R
    <3>1. i \in Nat /\ j \in Nat /\ k \in Nat /\ V[i] \in Nat /\ V[j] \in Nat /\ V[k] \in Nat
      BY <2>1
    <3>2. First(i, j) /\ First(j, k)
      BY <1>9, <2>4
    <3>3. CASE V[i] < V[j] \/ V[j] < V[k]
      <4>1. V[i] < V[k]
        BY <3>1, <3>2, <3>3
      <4> QED BY <1>9, <4>1
    <3>4. CASE ~(V[i] < V[j] \/ V[j] < V[k])
      <4>1. V[i] = V[j] /\ V[j] = V[k] /\ i # j /\ j # k
            /\ (i < j) # reversed /\ (j < k) # reversed
        BY <3>2, <3>4, Zenon
      <4>2. reversed = TRUE \/ reversed = FALSE
        OBVIOUS
      <4>3. i # k /\ (i < k) # reversed
        <5>1. CASE reversed = TRUE
          <6>1. ~(i < j) /\ ~(j < k)
            BY <4>1, <5>1, Zenon
          <6>2. i # k /\ ~(i < k)
            BY <3>1, <4>1, <6>1
          <6> QED BY <5>1, <6>2, Zenon
        <5>2. CASE reversed = FALSE
          <6>0. (i < j) = ~(j < i) /\ (j < k) = ~(k < j)
            BY <3>1, <4>1
          <6>1. ~(j < i) /\ ~(k < j)
            BY <4>1, <5>2, <6>0, Zenon
          <6>2. i # k /\ i < k
            BY <3>1, <4>1, <6>1
          <6>3. (i < k) # FALSE
            BY <6>2, Zenon
          <6> QED BY <5>2, <6>2, <6>3, Zenon
        <5> QED BY <4>2, <5>1, <5>2
      <4>4. First(i, k)
        BY <4>1, <4>3, Zenon
      <4> QED BY <1>9, <4>4
    <3> QED BY <3>3, <3>4
  <2> QED BY <2>2, <2>3, <2>4 DEF Arranges
<1>11. PICK c \in Nat : c = Cardinality(S)
  BY <1>5, FS_CardinalityType
<1>13. Sorted(order, R, S)
  <2>1. ASSUME NEW i \in S PROVE {j \in S : Earlier(j, i)} = Before(R, S, i)
    <3>1. ASSUME NEW j \in S PROVE Earlier(j, i) <=> <<j, i>> \in R
      <4>1. VA(P[j]) = V[j] /\ VA(P[i]) = V[i]
        BY <1>4, <1>6
      <4>2. <<j, i>> \in R <=> First(j, i)
        BY <1>9
      <4> QED BY <4>1, <4>2, Zenon
    <3> HIDE DEF Earlier
    <3> QED BY <3>1 DEF Before
  <2> DEFINE Ranked(n) == CHOOSE i \in S : Cardinality({j \in S : Earlier(j, i)}) = n - 1
  <2>2. order = [n \in 1..Cardinality(S) |-> Ranked(n)]
    BY Zenon DEF order
  <2>3. ASSUME NEW n \in 1..Cardinality(S)
        PROVE  Ranked(n) \in S /\ Cardinality(Before(R, S, Ranked(n))) = n - 1
    <3> HIDE DEF Earlier
    <3>1. \E i \in S : Cardinality(Before(R, S, i)) = n - 1
      BY <1>5, <1>10, RanksReach
    <3>2. \E i \in S : Cardinality({j \in S : Earlier(j, i)}) = n - 1
      BY <2>1, <3>1, Zenon
    <3>3. Ranked(n) \in S /\ Cardinality({j \in S : Earlier(j, Ranked(n))}) = n - 1
      BY <3>2, Zenon
    <3> HIDE DEF Ranked
    <3> QED BY <2>1, <3>3, Zenon
  <2> HIDE DEF Ranked
  <2>4. DOMAIN order = 1..Cardinality(S) /\ order = [n \in 1..Cardinality(S) |-> order[n]]
        /\ \A n \in 1..Cardinality(S) : order[n] = Ranked(n)
    BY <2>2
  <2> QED BY <2>3, <2>4 DEF Sorted
<1>14. /\ IsSequence(order) /\ Len(order) = c /\ DOMAIN order = 1..c
       /\ \A n \in 1..c : order[n] \in S
  BY <1>5, <1>10, <1>11, <1>13, SortedIs DEF Sorted
<1>15. PICK q : q = Raws(u, reversed)
  OBVIOUS
<1> DEFINE Ends(n) == IF n < Len(order) THEN at(n + 1) ELSE EndOfSpan(at(n))
<1>16. q = [n \in DOMAIN order |-> [name |-> P[order[n]].name, va |-> VA(P[order[n]]),
                                    end |-> Ends(n)]]
  BY <1>1, <1>15, Zenon
<1> HIDE DEF Ends
<1>17. IsSequence(q) /\ Range(q) = {q[n] : n \in 1..c}
  <2>1. DOMAIN q = DOMAIN order /\ q = [n \in DOMAIN order |-> q[n]]
    BY <1>16
  <2> QED BY <1>14, <2>1, OverPositions
<1>18. ASSUME NEW n \in 1..c PROVE Raw(q[n])
  <2>1. q[n].va = VA(P[order[n]])
    BY <1>14, <1>16
  <2>2. order[n] \in 1..N
    BY <1>4, <1>14
  <2> QED BY <1>2, <2>1, <2>2 DEF Raw
<1> QED BY <1>15, <1>17, <1>18 DEF RawList

-----------------------------------------------------------------------------
(* The section contributions, sorted.                                      *)

ContribsInOrder ==
    LET order == Ordered(DOMAIN contribs, LAMBDA i, j :
             \/ contribs[i].segment < contribs[j].segment
             \/ /\ contribs[i].segment = contribs[j].segment
                /\ \/ contribs[i].offset < contribs[j].offset
                   \/ contribs[i].offset = contribs[j].offset /\ i < j)
    IN  [n \in DOMAIN order |-> contribs[order[n]]]

\* The same ones, in another order.
LEMMA SortedContribs ==
    ASSUME PlacedList(contribs)
    PROVE  IsSequence(ContribsInOrder) /\ Range(ContribsInOrder) = Range(contribs)
PROOF
<1> DEFINE S == DOMAIN contribs
           Earlier(i, j) ==
             \/ contribs[i].segment < contribs[j].segment
             \/ /\ contribs[i].segment = contribs[j].segment
                /\ \/ contribs[i].offset < contribs[j].offset
                   \/ contribs[i].offset = contribs[j].offset /\ i < j
           order == [n \in 1..Cardinality(S) |->
                       CHOOSE i \in S : Cardinality({j \in S : Earlier(j, i)}) = n - 1]
<1>1. PICK q : q = ContribsInOrder
  OBVIOUS
<1>2. q = [n \in DOMAIN order |-> contribs[order[n]]]
  BY <1>1, Zenon DEF ContribsInOrder, Ordered
<1>3. PICK N \in Nat : N = Len(contribs) /\ S = 1..N /\ Range(contribs) = {contribs[i] : i \in 1..N}
  BY SequenceIs DEF PlacedList
<1> HIDE DEF S, order
<1>4. IsFiniteSet(S)
  BY <1>3, FS_Interval
<1>5. PICK A, B : /\ A = [i \in 1..N |-> contribs[i].segment]
                  /\ B = [i \in 1..N |-> contribs[i].offset]
  OBVIOUS
<1>6. ASSUME NEW i \in 1..N
      PROVE  /\ A[i] = contribs[i].segment /\ B[i] = contribs[i].offset
             /\ A[i] \in Nat /\ B[i] \in Int /\ i \in Nat
  <2>1. PlacedOK(contribs[i])
    BY <1>3 DEF PlacedList
  <2> QED BY <1>5, <2>1 DEF PlacedOK
<1> DEFINE First(i, j) == A[i] < A[j] \/ (A[i] = A[j] /\ (B[i] < B[j] \/ (B[i] = B[j] /\ i < j)))
<1>7. PICK R : R = {x \in S \X S : First(x[1], x[2])}
  OBVIOUS
<1>8. \A i, j \in S : <<i, j>> \in R <=> First(i, j)
  BY <1>7
<1>9. Arranges(R, S)
  <2>1. \A i \in S : i \in Nat /\ A[i] \in Nat /\ B[i] \in Int
    BY <1>3, <1>6
  <2>2. \A i \in S : <<i, i>> \notin R
    BY <1>8, <2>1
  <2>3. \A i, j \in S : i # j => <<i, j>> \in R \/ <<j, i>> \in R
    <3>1. \A i, j \in S : i # j => First(i, j) \/ First(j, i)
      BY <2>1
    <3> QED BY <1>8, <3>1
  <2>4. \A i, j, k \in S : <<i, j>> \in R /\ <<j, k>> \in R => <<i, k>> \in R
    <3>1. \A i, j, k \in S : First(i, j) /\ First(j, k) => First(i, k)
      BY <2>1
    <3> HIDE DEF First
    <3> QED BY <1>8, <3>1
  <2> QED BY <2>2, <2>3, <2>4 DEF Arranges
<1>10. Sorted(order, R, S)
  <2>1. ASSUME NEW i \in S PROVE {j \in S : Earlier(j, i)} = Before(R, S, i)
    <3>1. ASSUME NEW j \in S PROVE Earlier(j, i) <=> <<j, i>> \in R
      <4>1. /\ A[i] = contribs[i].segment /\ B[i] = contribs[i].offset
            /\ A[j] = contribs[j].segment /\ B[j] = contribs[j].offset
        BY <1>3, <1>6
      <4>2. <<j, i>> \in R <=> First(j, i)
        BY <1>8
      <4> QED BY <4>1, <4>2, Zenon
    <3> HIDE DEF Earlier
    <3> QED BY <3>1 DEF Before
  <2> DEFINE Ranked(n) == CHOOSE i \in S : Cardinality({j \in S : Earlier(j, i)}) = n - 1
  <2>2. order = [n \in 1..Cardinality(S) |-> Ranked(n)]
    BY Zenon DEF order
  <2>3. ASSUME NEW n \in 1..Cardinality(S)
        PROVE  Ranked(n) \in S /\ Cardinality(Before(R, S, Ranked(n))) = n - 1
    <3> HIDE DEF Earlier
    <3>1. \E i \in S : Cardinality(Before(R, S, i)) = n - 1
      BY <1>4, <1>9, RanksReach
    <3>2. \E i \in S : Cardinality({j \in S : Earlier(j, i)}) = n - 1
      BY <2>1, <3>1, Zenon
    <3>3. Ranked(n) \in S /\ Cardinality({j \in S : Earlier(j, Ranked(n))}) = n - 1
      BY <3>2, Zenon
    <3> HIDE DEF Ranked
    <3> QED BY <2>1, <3>3, Zenon
  <2> HIDE DEF Ranked
  <2>4. DOMAIN order = 1..Cardinality(S) /\ order = [n \in 1..Cardinality(S) |-> order[n]]
        /\ \A n \in 1..Cardinality(S) : order[n] = Ranked(n)
    BY <2>2
  <2> QED BY <2>3, <2>4 DEF Sorted
<1>11. IsSequence(order) /\ Range(order) = 1..N
  BY <1>3, <1>4, <1>9, <1>10, SortedIs
<1>12. PICK c \in Nat : c = Len(order) /\ DOMAIN order = 1..c /\ Range(order) = {order[n] : n \in 1..c}
  BY <1>11, SequenceIs
<1>13. DOMAIN q = DOMAIN order /\ q = [n \in DOMAIN order |-> q[n]]
       /\ \A n \in 1..c : q[n] = contribs[order[n]]
  BY <1>2, <1>12
<1>14. IsSequence(q) /\ Range(q) = {q[n] : n \in 1..c}
  BY <1>11, <1>12, <1>13, OverPositions
<1>15. ASSUME NEW x PROVE x \in Range(q) <=> x \in Range(contribs)
  <2>1. ASSUME x \in Range(q) PROVE x \in Range(contribs)
    <3>1. PICK n \in 1..c : x = contribs[order[n]]
      BY <1>13, <1>14, <2>1
    <3>2. order[n] \in 1..N
      BY <1>11, <1>12
    <3> QED BY <1>3, <3>1, <3>2
  <2>2. ASSUME x \in Range(contribs) PROVE x \in Range(q)
    <3>1. PICK i \in 1..N : x = contribs[i]
      BY <1>3, <2>2
    <3>2. PICK n \in 1..c : i = order[n]
      BY <1>11, <1>12
    <3>3. q[n] = x
      BY <1>13, <3>1, <3>2
    <3> QED BY <1>14, <3>3
  <2> QED BY <2>1, <2>2
<1> QED BY <1>1, <1>14, <1>15

-----------------------------------------------------------------------------
(* The type records.                                                       *)

TpiOK(t) ==
    /\ DOMAIN t = {"records", "arrays", "inner", "var", "methods"}
    /\ IsSequence(t.inner) /\ IsFiniteSet(DOMAIN t.methods)

\* Records more, and arrays for the sizes that need one, leave the rest alone.
Kept(t, s) == DOMAIN s = DOMAIN t /\ s.inner = t.inner /\ s.methods = t.methods

\* What keeps the table as it was keeps it well formed.
LEMMA KeptOK ==
    ASSUME NEW t, TpiOK(t), NEW s, Kept(t, s)
    PROVE  TpiOK(s)
PROOF BY DEF TpiOK, Kept

\* A record more keeps it.
LEMMA WrittenKeeps ==
    ASSUME NEW t, TpiOK(t), NEW record
    PROVE  TpiOK(Written(t, record)) /\ Written(t, record).methods = t.methods
PROOF
<1>1. PICK q : q = Append(t.records, record)
  OBVIOUS
<1>2. PICK s : s = [t EXCEPT !.records = q]
  OBVIOUS
<1>3. s = Written(t, record)
  BY <1>1, <1>2 DEF Written
<1>4. Kept(t, s)
  BY <1>2 DEF Kept, TpiOK
<1>5. TpiOK(s)
  BY <1>4, KeptOK
<1> QED BY <1>3, <1>4, <1>5 DEF Kept

\* So do the arrays variables need.
LEMMA NeedingKeeps ==
    ASSUME NEW t, TpiOK(t), NEW vs
    PROVE  TpiOK(NeedingAll(t, vs)) /\ NeedingAll(t, vs).methods = t.methods
PROOF
<1>1. PICK a, b : NeedingAll(t, vs) = [t EXCEPT !.records = a, !.arrays = b]
  BY Zenon DEF NeedingAll
<1>2. PICK s : s = NeedingAll(t, vs) /\ s = [t EXCEPT !.records = a, !.arrays = b]
  BY <1>1, Zenon
<1>3. Kept(t, s)
  BY <1>2 DEF Kept, TpiOK
<1>4. TpiOK(s)
  BY <1>3, KeptOK
<1> QED BY <1>2, <1>3, <1>4 DEF Kept

\* An aggregate more has its types.
LEMMA TypedKeeps ==
    ASSUME NEW t, TpiOK(t), NEW inner, NEW var
    PROVE  TpiOK(Typed(t, inner, var))
PROOF
<1>1. PICK q, p : q = Append(t.inner, inner) /\ p = Append(t.var, var)
  OBVIOUS
<1>2. PICK s : s = [t EXCEPT !.inner = q, !.var = p]
  OBVIOUS
<1>3. s = Typed(t, inner, var)
  BY <1>1, <1>2 DEF Typed
<1>4. IsSequence(q)
  BY <1>1, AppendAdds DEF TpiOK
<1>5. DOMAIN s = DOMAIN t /\ s.inner = q /\ s.methods = t.methods
  BY <1>2 DEF TpiOK
<1> QED BY <1>3, <1>4, <1>5 DEF TpiOK

\* What sets, enums and fields leave.
LEMMA EmitSetOK ==
    ASSUME NEW t, TpiOK(t), NEW a
    PROVE  TpiOK(EmitSet(t, a))
PROOF
<1>1. PICK q, bits : bits = [t EXCEPT !.records = q]
                     /\ \E list, struct, x, y :
                          /\ list = Written(bits, x) /\ struct = Written(list, y)
                          /\ EmitSet(t, a) = Typed(struct, Newest(struct), Newest(struct))
  BY Zenon DEF EmitSet
<1>2. Kept(t, bits)
  BY <1>1 DEF Kept, TpiOK
<1>3. TpiOK(bits)
  BY <1>2, KeptOK
<1> QED BY <1>1, <1>3, WrittenKeeps, TypedKeeps

\* An enumeration.
LEMMA EmitEnumOK ==
    ASSUME NEW t, TpiOK(t), NEW a
    PROVE  TpiOK(EmitEnum(t, a))
PROOF
<1>1. \E list, enum, x, y :
        /\ list = Written(t, x) /\ enum = Written(list, y)
        /\ EmitEnum(t, a) = Typed(enum, Newest(enum), Newest(enum))
  BY Zenon DEF EmitEnum
<1> QED BY <1>1, WrittenKeeps, TypedKeeps

\* The fields of a class, once its methods are written.
LEMMA WithMethodsOK ==
    ASSUME NEW a, NEW w, TpiOK(w.t)
    PROVE  TpiOK(WithMethods(a, w))
PROOF
<1>1. PICK t : t = NeedingAll(w.t, FieldNeeds(a)) /\ TpiOK(t)
  BY NeedingKeeps
<1>2. PICK s : s = WithMethods(a, w) /\ s = WithMembers(a, w.own, t)
  BY <1>1 DEF WithMethods
<1>3. \E x : s = WithFieldList(a, Written(t, x))
  BY <1>2, Zenon DEF WithMembers
<1>4. PICK f : TpiOK(f) /\ s = WithFieldList(a, f)
  BY <1>1, <1>3, WrittenKeeps
<1>5. \E x : s = WithClass(a, Written(f, x))
  BY <1>4, Zenon DEF WithFieldList
<1>6. PICK c : TpiOK(c) /\ s = WithClass(a, c)
  BY <1>4, <1>5, WrittenKeeps
<1>7. \/ s = Typed(c, Newest(c), Newest(c))
      \/ \E x, p : p = Written(c, x) /\ s = WithPointer(c, p)
  BY <1>6, Zenon DEF WithClass
<1>8. ASSUME NEW x, NEW p, p = Written(c, x), s = WithPointer(c, p) PROVE TpiOK(s)
  <2>1. TpiOK(p)
    BY <1>6, <1>8, WrittenKeeps
  <2> QED BY <1>8, <2>1, TypedKeeps DEF WithPointer
<1> QED BY <1>2, <1>6, <1>7, <1>8, TypedKeeps

\* The method functions of a class.
LEMMA EmitMethodOK ==
    ASSUME NEW w, TpiOK(w.t), NEW m, NEW class
    PROVE  TpiOK(EmitMethod(w, m, class).t)
PROOF
<1>1. \/ EmitMethod(w, m, class) = WithArguments(w, m, class, w.t, w.list)
      \/ \E n, x, t : /\ n = NeedingAll(w.t, m.params) /\ t = Written(n, x)
                      /\ EmitMethod(w, m, class) = WithArguments(w, m, class, t, Len(t.records))
  BY Zenon DEF EmitMethod, WithNewArguments, Arguments
<1>2. PICK t, l : TpiOK(t) /\ EmitMethod(w, m, class) = WithArguments(w, m, class, t, l)
  BY <1>1, NeedingKeeps, WrittenKeeps
<1>3. \E x, y, s : s = Written(t, x)
                   /\ WithArguments(w, m, class, t, l) = WithFunction(s, m, y, w.own)
  BY Zenon DEF WithArguments, MemberFunction
<1>4. PICK s, y : TpiOK(s) /\ EmitMethod(w, m, class) = WithFunction(s, m, y, w.own)
  BY <1>2, <1>3, WrittenKeeps
<1>5. PICK f, k, v : f = s.methods /\ k = m.qualified /\ v = Newest(s)
  OBVIOUS
<1>6. PICK q : q = [name \in DOMAIN f \cup {k} |-> IF name = k THEN v ELSE f[name]]
  OBVIOUS
<1>7. PICK z : z = [s EXCEPT !.methods = q]
  OBVIOUS
<1>8. DOMAIN q = {k} \cup DOMAIN f
  BY <1>6
<1>9. IsFiniteSet(DOMAIN f)
  BY <1>4, <1>5 DEF TpiOK
<1>10. IsFiniteSet({k} \cup DOMAIN f)
  BY <1>9, FS_Singleton, FS_Union
<1>11. DOMAIN z = DOMAIN s /\ z.methods = q /\ z.inner = s.inner
  BY <1>4, <1>7 DEF TpiOK
<1>12. TpiOK(z)
  BY <1>4, <1>8, <1>10, <1>11 DEF TpiOK
<1>13. WithFunction(s, m, y, w.own).t = z
  <2>1. \E l1, l2 : WithFunction(s, m, y, w.own) = [t |-> z, list |-> l1, own |-> l2]
    BY <1>5, <1>6, <1>7, Zenon DEF WithFunction
  <2> QED BY <2>1
<1> QED BY <1>4, <1>12, <1>13

\* All methods of a class.
LEMMA EmitMethodsOK ==
    ASSUME NEW t, TpiOK(t), NEW a, AggregateOK(a)
    PROVE  TpiOK(EmitMethods(t, a).t)
PROOF
<1>1. PICK n \in Nat : n = Len(a.methods)
  BY SequenceIs DEF AggregateOK
<1>2. PICK forward : forward = Written(t, Leaf("FORWARD", a.name, 0, NoTypeIndex, <<>>))
  OBVIOUS
<1>3. PICK pointer : pointer = Written(forward, Leaf("POINTER", "", 8, Newest(forward), <<>>))
  BY Zenon
<1> DEFINE start == [t |-> pointer, list |-> 0, own |-> <<>>]
           Step(i, v) == EmitMethod(v, a.methods[i], Newest(forward))
           Is(k, h) == h = [i \in 0..k |-> IF i = 0 THEN start ELSE Step(i, h[i - 1])]
           Reached == {k \in Nat : \E h : Is(k, h)}
           Good(v) == TpiOK(v.t)
<1>4. Good(start)
  <2>1. start.t = pointer
    OBVIOUS
  <2>2. \E x, y : forward = Written(t, x) /\ pointer = Written(forward, y)
    BY <1>2, <1>3, Zenon
  <2>3. TpiOK(pointer)
    BY <2>2, WrittenKeeps
  <2> QED BY <2>1, <2>3
<1>5. ASSUME NEW i \in 1..n, NEW v, Good(v) PROVE Good(Step(i, v))
  BY <1>5, EmitMethodOK
<1> HIDE DEF start, Step, Good
<1>6. 0 \in Reached
  <2>1. Is(0, [i \in 0..0 |-> start])
    OBVIOUS
  <2> QED BY <2>1
<1>7. ASSUME NEW k \in Reached PROVE k + 1 \in Reached
  <2>1. PICK h : Is(k, h)
    OBVIOUS
  <2>2. PICK g : g = [i \in 0..(k + 1) |-> IF i = k + 1 THEN Step(i, h[k]) ELSE h[i]]
    OBVIOUS
  <2>3. k \in Nat
    OBVIOUS
  <2>4. ASSUME NEW i \in 0..(k + 1)
        PROVE  g[i] = IF i = 0 THEN start ELSE Step(i, g[i - 1])
    <3>1. CASE i = k + 1
      <4>1. i # 0 /\ i - 1 = k /\ k \in 0..(k + 1) /\ k # k + 1
        BY <2>3, <3>1
      <4>2. g[i] = Step(i, h[k]) /\ g[k] = h[k]
        BY <2>2, <3>1, <4>1
      <4> QED BY <4>1, <4>2
    <3>2. CASE i # k + 1
      <4>1. i \in 0..k /\ g[i] = h[i]
        BY <2>2, <2>3, <3>2
      <4>2. i # 0 => i - 1 \in 0..(k + 1) /\ i - 1 # k + 1
        BY <2>3, <4>1
      <4>3. i # 0 => g[i - 1] = h[i - 1]
        BY <2>2, <4>2
      <4> QED BY <2>1, <4>1, <4>3
    <3> QED BY <3>1, <3>2
  <2>5. Is(k + 1, g)
    <3>1. g = [i \in 0..(k + 1) |-> g[i]]
      BY <2>2
    <3> QED BY <2>4, <3>1
  <2> HIDE DEF Is
  <2> QED BY <2>3, <2>5
<1>8. \E h : Is(n, h)
  <2> HIDE DEF Is
  <2>1. Reached \in SUBSET Nat
    OBVIOUS
  <2>2. Reached = Nat
    <3> HIDE DEF Reached
    <3> QED BY <1>6, <1>7, <2>1, Induction
  <2> QED BY <2>2
<1>9. PICK w : w = CHOOSE h : Is(n, h)
  OBVIOUS
<1>10. Is(n, w)
  <2> HIDE DEF Is
  <2> QED BY <1>8, <1>9
<1>11. Good(w[n])
  <2> DEFINE T == {i \in 0..n : Good(w[i])}
  <2>1. 0 \in T
    BY <1>4, <1>10
  <2>2. ASSUME NEW i \in 0..n, i \in T, i + 1 <= n PROVE i + 1 \in T
    <3>1. i + 1 \in 0..n /\ i + 1 \in 1..n /\ i + 1 # 0 /\ (i + 1) - 1 = i
      BY <2>2
    <3>2. w[i + 1] = Step(i + 1, w[i])
      BY <1>10, <3>1
    <3> QED BY <1>5, <2>2, <3>1, <3>2
  <2>3. 0..n \subseteq T
    <3> HIDE DEF T
    <3> QED BY <2>1, <2>2, IntervalInduction
  <2> QED BY <2>3
<1>12. EmitMethods(t, a) = [t |-> t, list |-> 0, own |-> <<>>] \/ EmitMethods(t, a) = w[n]
  BY <1>2, <1>3, <1>1, <1>9, Zenon DEF EmitMethods, start, Step
<1>13. [t |-> t, list |-> 0, own |-> <<>>].t = t
  OBVIOUS
<1> QED BY <1>11, <1>12, <1>13 DEF Good

\* A class or a record.
LEMMA EmitClassOK ==
    ASSUME NEW t, TpiOK(t), NEW a, AggregateOK(a)
    PROVE  TpiOK(EmitClass(t, a))
PROOF BY EmitMethodsOK, WithMethodsOK DEF EmitClass

-----------------------------------------------------------------------------
(* The inductive invariant.                                                *)

FunctionOK(f) == f.segment \in Nat /\ f.offset \in Int /\ IsSequence(f.locals)
FunctionList(q) == IsSequence(q) /\ \A f \in Range(q) : FunctionOK(f)
ModuleList(q) == IsSequence(q) /\ \A m \in Range(q) : FunctionList(m.functions)
InputsOK ==
    /\ RegistryOK(registry) /\ IsSequence(publics) /\ PlacedList(thunks)
    /\ ModuleList(modules)
    /\ DOMAIN current = {"unit", "raws", "functions"}
    /\ RawList(current.raws) /\ FunctionList(current.functions)

\* The symbols of the modules: those in `dbi', and the one being written.
Streams(d) == 1..(Len(d) + 1)
Stream(d, w, i) == IF i \in 1..Len(d) THEN d[i].symbols ELSE w.symbols
OutputsOK ==
    /\ TpiOK(tpi) /\ IsSequence(procRefs) /\ PlacedList(contribs)
    /\ DOMAIN scoped = {"publics", "capacity", "live"} /\ IsSequence(scoped.publics)
    /\ IsSequence(dbi) /\ modIndex = Len(dbi)
    /\ DOMAIN writing = {"done", "symbols"} /\ writing.done \in Nat
    /\ \A i \in Streams(dbi) : IsSequence(Stream(dbi, writing, i))
    /\ writing.symbols # <<>> => phase = "write" /\ Len(dbi) < Len(modules)

\* A reference leads to a symbol, and the code of a symbol to its module.
Leads(r, d, w) ==
    /\ r.module \in Streams(d) /\ r.offset \in Nat
    /\ r.offset < Len(Stream(d, w, r.module))
    /\ Stream(d, w, r.module)[r.offset + 1].kind = "GPROC32"
    /\ Stream(d, w, r.module)[r.offset + 1].name = r.name
Contributed(s, i, cs) ==
    \E c \in Range(cs) : c.segment = s.segment /\ c.offset = s.offset /\ c.module + 1 = i
RefsOK ==
    /\ \A r \in Range(procRefs) : Leads(r, dbi, writing)
    /\ \A i \in Streams(dbi) : \A k \in 1..Len(Stream(dbi, writing, i)) :
         Stream(dbi, writing, i)[k].kind = "GPROC32" =>
           Contributed(Stream(dbi, writing, i)[k], i, contribs)

\* The names kept are those of methods and of the references, and none has moved
\* while there are no more of them than methods.
Apart(r, q) == r.module # q.module \/ r.offset # q.offset
Unmoved(s, methods) ==
    Len(s.publics) <= Cardinality(DOMAIN methods) =>
      s.capacity = Cardinality(DOMAIN methods) /\ s.live = 1..Len(s.publics)
NamesOK ==
    /\ Len(procRefs) = Len(scoped.publics)
    /\ \A n \in 1..Len(procRefs) : procRefs[n].name = scoped.publics[n].name
    /\ \A m, n \in 1..Len(procRefs) : m # n => Apart(procRefs[m], procRefs[n])
    /\ \A n \in 1..Len(scoped.publics) :
         \E q \in DOMAIN tpi.methods : scoped.publics[n].name = ScopedName(q)
    /\ phase \in {"write", "symbols", "done"} => Unmoved(scoped, tpi.methods)
    /\ phase \notin {"write", "symbols", "done"} => scoped.publics = <<>> /\ scoped.live = {}

PdbOK == InputsOK /\ OutputsOK /\ RefsOK /\ NamesOK
ConverterInv ==
    /\ program \in Programs /\ command \in {"pdb", "dwarf"}
    /\ command = "dwarf" => pdbInputsEmpty /\ pdbOutputsEmpty
    /\ command = "pdb" => PdbOK
    /\ NamesStayPut

-----------------------------------------------------------------------------
(* The steps before the file is written.                                   *)

\* What the inputs are like after a step.
LEMMA InputsNow ==
    ASSUME program' = program, RegistryOK(registry'), IsSequence(publics'),
           PlacedList(thunks'), ModuleList(modules'),
           DOMAIN current' = {"unit", "raws", "functions"},
           RawList(current'.raws), FunctionList(current'.functions)
    PROVE  InputsOK'
PROOF
<1>1. Keys' = Keys
  BY DEF Keys, Key, Rsm
<1>2. RegistryOK(registry)'
  BY <1>1 DEF RegistryOK, AggregateOK, IsSequence
<1>3. /\ IsSequence(publics)' /\ PlacedList(thunks)' /\ ModuleList(modules)'
      /\ RawList(current.raws)' /\ FunctionList(current.functions)'
  BY DEF PlacedList, PlacedOK, ModuleList, FunctionList, FunctionOK, RawList, Raw, IsSequence
<1> QED BY <1>2, <1>3 DEF InputsOK

\* More functions.
LEMMA FunctionAppend ==
    ASSUME NEW q, FunctionList(q), NEW f, FunctionOK(f)
    PROVE  FunctionList(Append(q, f))
PROOF
<1>1. IsSequence(q) /\ q \in Seq(Range(q) \cup {f})
  BY SequenceIs DEF FunctionList
<1>2. Range(Append(q, f)) = Range(q) \cup {f}
  BY <1>1, RangeAppend
<1>3. IsSequence(Append(q, f))
  BY <1>1, AppendAdds
<1> QED BY <1>2, <1>3 DEF FunctionList

\* The functions of the thunks of a unit.
LEMMA ThunkFunctionsAre ==
    ASSUME PlacedList(thunks), NEW u
    PROVE  FunctionList(ThunkFunctions(u))
PROOF
<1>1. PICK q : q = ThunksOf(u)
  OBVIOUS
<1>2. IsSequence(q) /\ Range(q) \subseteq Range(thunks)
  BY <1>1, AmongIs DEF ThunksOf, PlacedList
<1>3. PICK n \in Nat : n = Len(q) /\ DOMAIN q = 1..n /\ Range(q) = {q[i] : i \in 1..n}
  BY <1>2, SequenceIs
<1>4. PICK f : f = ThunkFunctions(u)
  OBVIOUS
<1>5. f = [i \in DOMAIN q |-> Function(q[i].name, q[i].segment, q[i].offset, ThunkSize, <<>>)]
  BY <1>1, <1>4, Zenon DEF ThunkFunctions
<1> DEFINE F(t) == Function(t.name, t.segment, t.offset, ThunkSize, <<>>)
<1>6. f = [i \in DOMAIN q |-> F(q[i])]
  BY <1>5, Zenon
<1>7. ASSUME NEW t, PlacedOK(t) PROVE FunctionOK(F(t))
  <2>1. PICK z : z = <<>> /\ IsSequence(z)
    BY NothingIs
  <2>2. F(t) = [name |-> t.name, segment |-> t.segment, offset |-> t.offset,
                size |-> ThunkSize, locals |-> z]
    BY <2>1, Zenon DEF Function
  <2> HIDE DEF F
  <2> QED BY <1>7, <2>1, <2>2 DEF FunctionOK, PlacedOK
<1> HIDE DEF F
<1>8. IsSequence(f) /\ Range(f) = {f[i] : i \in 1..n}
  <2>1. DOMAIN f = DOMAIN q /\ f = [i \in DOMAIN q |-> f[i]]
    BY <1>6
  <2> QED BY <1>2, <1>3, <2>1, OverPositions
<1>9. ASSUME NEW i \in 1..n PROVE FunctionOK(f[i])
  <2>1. f[i] = F(q[i]) /\ q[i] \in Range(thunks)
    BY <1>2, <1>3, <1>6
  <2> QED BY <1>7, <2>1 DEF PlacedList
<1> QED BY <1>4, <1>8, <1>9 DEF FunctionList

\* The publics of the .map file.
LEMMA BuildPublicsSafe ==
    ASSUME ImageOK(program), InputsOK, BuildPublics, program' = program
    PROVE  InputsOK'
PROOF
<1>1. IsSequence(publics')
  BY MapPublicsIs DEF BuildPublics
<1>2. UNCHANGED <<registry, thunks, modules, current>>
  BY DEF BuildPublics
<1> QED BY <1>1, <1>2, InputsNow DEF InputsOK

\* The thunks found in the code.
LEMMA DetectThunksSafe ==
    ASSUME ImageOK(program), InputsOK, DetectAdjusterThunks, program' = program
    PROVE  InputsOK'
PROOF
<1>1. PICK all : all = FlattenSeq([n \in DOMAIN program.sections |-> ThunksIn(n)])
  OBVIOUS
<1>2. PICK found : found = Among(all, {t \in Range(all) : Emitted(t)})
  OBVIOUS
<1>3. PICK lowest \in BOOLEAN : thunks' = [i \in DOMAIN found |-> ResolvedThunk(found[i], lowest)]
  BY <1>1, <1>2, Zenon DEF DetectAdjusterThunks
<1>4. PlacedList(all)
  BY <1>1, ThunksAre
<1>5. PlacedList(thunks')
  BY <1>2, <1>3, <1>4, ResolvedAre
<1>6. PICK f : f = [i \in DOMAIN thunks' |->
                     Public(thunks'[i].name, thunks'[i].segment, thunks'[i].offset, TRUE)]
               /\ publics' = publics \o f
  BY Zenon DEF DetectAdjusterThunks
<1>7. IsSequence(f)
  <2>1. DOMAIN f = DOMAIN thunks' /\ f = [i \in DOMAIN thunks' |-> f[i]]
    BY <1>6
  <2> QED BY <1>5, <2>1, OverPositions DEF PlacedList
<1>8. IsSequence(publics')
  BY <1>6, <1>7, ConcatJoins DEF Joined, InputsOK
<1>9. UNCHANGED <<registry, modules, current>>
  <2>1. UNCHANGED <<registry, latestFirst, modules, current>>
    BY Zenon DEF DetectAdjusterThunks
  <2> QED BY <2>1
<1> QED BY <1>5, <1>8, <1>9, InputsNow DEF InputsOK

\* The types of the globals.
LEMMA EnrichGlobalsSafe ==
    ASSUME ImageOK(program), InputsOK, EnrichGlobals, program' = program
    PROVE  InputsOK'
PROOF
<1>1. registry' = Enriched.r /\ publics' = Enriched.out
  BY DEF EnrichGlobals
<1>2. RegistryOK(registry') /\ IsSequence(publics')
  BY <1>1, EnrichedOK DEF InputsOK
<1>3. UNCHANGED <<thunks, modules, current>>
  BY DEF EnrichGlobals
<1> QED BY <1>2, <1>3, InputsNow DEF InputsOK

\* A unit is started.
LEMMA StartUnitSafe ==
    ASSUME ImageOK(program), InputsOK, StartUnit, program' = program
    PROVE  InputsOK'
PROOF
<1>1. PICK u, reversed :
        /\ reversed \in BOOLEAN
        /\ current' = [unit |-> u, raws |-> Raws(u, reversed), functions |-> <<>>]
  BY Zenon DEF StartUnit
<1>2. PICK q, z : q = Raws(u, reversed) /\ z = <<>>
  OBVIOUS
<1>3. RawList(q) /\ FunctionList(z)
  <2>1. RawList(q)
    BY <1>1, <1>2, RawsAre
  <2>2. IsSequence(z) /\ Range(z) = {}
    BY <1>2, NothingIs
  <2> QED BY <2>1, <2>2 DEF FunctionList
<1>4. DOMAIN current' = {"unit", "raws", "functions"} /\ current'.raws = q
      /\ current'.functions = z
  BY <1>1, <1>2
<1>5. UNCHANGED <<registry, publics, thunks, modules>>
  BY DEF StartUnit
<1> QED BY <1>3, <1>4, <1>5, InputsNow DEF InputsOK

\* A function of it is composed.
LEMMA ComposeFunctionSafe ==
    ASSUME ImageOK(program), InputsOK, ComposeFunction, program' = program
    PROVE  InputsOK'
PROOF
<1>1. PICK raws, raw : raws = current.raws /\ raw = Head(raws)
  OBVIOUS
<1>2. IsSequence(raws) /\ raws # <<>>
  BY <1>1 DEF InputsOK, RawList, ComposeFunction
<1>3. raw.va \in Nat /\ RawList(Tail(raws))
  <2>1. PICK R : R = Range(raws)
    OBVIOUS
  <2>2. raws \in Seq(R) /\ raws # <<>>
    BY <1>2, <2>1 DEF IsSequence
  <2>3. Head(raws) \in R /\ Tail(raws) \in Seq(R)
    BY <2>2, HeadTailProperties
  <2>4. IsSequence(Tail(raws)) /\ Range(Tail(raws)) \subseteq R
    BY <2>3, SequenceOver
  <2>5. \A x \in R : Raw(x)
    BY <1>1, <2>1 DEF InputsOK, RawList
  <2> QED BY <1>1, <2>3, <2>4, <2>5 DEF RawList, Raw
<1>4. PICK s, size, p : /\ s = FindPeSection(raw.va - program.base)
                        /\ size = raw.end - raw.va
                        /\ p = IF Rsm.have /\ s # 0 THEN ProcedureAt(raw.va) ELSE 0
  OBVIOUS
<1>5. PICK w : w = IF p = 0 THEN [r |-> registry, locals |-> <<>>]
                   ELSE ComposeProcedure(raw.name, Rsm.procedures[p],
                          ResolveFunction(Rsm.procedures[p], Slice(raw.va, size),
                                          MarkerSizes(Rsm.variables)))
  OBVIOUS
<1>6. PICK done : done = Function(raw.name, s, OffsetIn(s, raw.va - program.base), size, w.locals)
  OBVIOUS
<1>7. /\ current' = [current EXCEPT !.raws = Tail(@),
                       !.functions = IF s = 0 THEN @ ELSE Append(@, done)]
      /\ registry' = w.r
  BY <1>1, <1>4, <1>5, <1>6, Zenon DEF ComposeFunction
<1>8. RegistryOK(w.r) /\ IsSequence(w.locals)
  <2>1. CASE p = 0
    <3>1. PICK z : z = <<>> /\ IsSequence(z)
      BY NothingIs
    <3>2. w = [r |-> registry, locals |-> z]
      BY <1>5, <2>1, <3>1, Zenon
    <3>3. w.r = registry /\ w.locals = z
      BY <3>2
    <3> QED BY <3>1, <3>3 DEF InputsOK
  <2>2. CASE p # 0
    <3>1. p = ProcedureAt(raw.va)
      BY <1>4, <2>2, Zenon
    <3>2. Rsm.procedures[p] \in Range(Rsm.procedures)
      BY <2>2, <3>1, ProcedureFound
    <3>3. PICK f : f = Rsm.procedures[p]
      OBVIOUS
    <3>4. IsSequence(f.params) /\ IsSequence(f.locals)
      BY <3>2, <3>3 DEF ImageOK, Rsm, IsSequence
    <3>5. PICK shown : shown = ResolveFunction(f, Slice(raw.va, size), MarkerSizes(Rsm.variables))
      OBVIOUS
    <3>6. IsSequence(shown)
      BY <3>4, <3>5, FrameIs
    <3>7. w = ComposeProcedure(raw.name, f, shown)
      BY <1>5, <2>2, <3>3, <3>5, Zenon
    <3>8. Composing(w)
      BY <3>6, <3>7, ComposeProcedureOK DEF InputsOK
    <3> QED BY <3>8 DEF Composing
  <2> QED BY <2>1, <2>2
<1>9. s # 0 => FunctionOK(done)
  <2>1. s \in Nat
    BY <1>4, SectionFound, SectionsAre
  <2>2. s # 0 => program.sections[s].rva \in Nat
    BY <1>4, SectionFound
  <2>3. program.base \in Nat
    BY DEF ImageOK
  <2>4. PICK o : o = OffsetIn(s, raw.va - program.base)
    OBVIOUS
  <2>5. s # 0 => o \in Int
    BY <1>3, <2>2, <2>3, <2>4 DEF OffsetIn
  <2>6. done = [name |-> raw.name, segment |-> s, offset |-> o, size |-> size,
                locals |-> w.locals]
    BY <1>6, <2>4 DEF Function
  <2> QED BY <1>8, <2>1, <2>5, <2>6 DEF FunctionOK
<1>10. DOMAIN current = {"unit", "raws", "functions"} /\ FunctionList(current.functions)
  BY DEF InputsOK
<1>11. PICK a, b : /\ a = Tail(current.raws)
                   /\ b = IF s = 0 THEN current.functions ELSE Append(current.functions, done)
  OBVIOUS
<1>12. current' = [current EXCEPT !.raws = a, !.functions = b]
  BY <1>7, <1>10, <1>11
<1>13. RawList(a) /\ FunctionList(b)
  BY <1>1, <1>3, <1>9, <1>10, <1>11, FunctionAppend
<1>14. DOMAIN current' = {"unit", "raws", "functions"} /\ current'.raws = a
       /\ current'.functions = b
  BY <1>10, <1>12
<1>15. UNCHANGED <<publics, thunks, modules>>
  BY DEF ComposeFunction
<1> QED BY <1>7, <1>8, <1>13, <1>14, <1>15, InputsNow DEF InputsOK

\* The unit becomes a module.
LEMMA FinishUnitSafe ==
    ASSUME ImageOK(program), InputsOK, FinishUnit, program' = program
    PROVE  InputsOK'
PROOF
<1>1. PICK f : f = current.functions \o ThunkFunctions(current.unit)
  OBVIOUS
<1>2. FunctionList(f)
  <2>1. FunctionList(ThunkFunctions(current.unit)) /\ FunctionList(current.functions)
    BY ThunkFunctionsAre DEF InputsOK
  <2>2. Joined(f, current.functions, ThunkFunctions(current.unit))
    BY <1>1, <2>1, ConcatJoins DEF FunctionList
  <2> QED BY <2>1, <2>2 DEF FunctionList, Joined
<1>3. PICK sources : modules' = Append(modules, [name |-> current.unit, functions |-> f,
                                                sources |-> sources])
  BY <1>1, Zenon DEF FinishUnit
<1>4. PICK m : m = [name |-> current.unit, functions |-> f, sources |-> sources]
  OBVIOUS
<1>5. m.functions = f
  BY <1>4
<1>6. IsSequence(modules) /\ modules \in Seq(Range(modules) \cup {m})
  BY SequenceIs DEF InputsOK, ModuleList
<1>7. Range(Append(modules, m)) = Range(modules) \cup {m} /\ IsSequence(Append(modules, m))
  BY <1>6, RangeAppend, AppendAdds
<1>8. ModuleList(modules')
  BY <1>2, <1>3, <1>4, <1>5, <1>7 DEF InputsOK, ModuleList
<1>9. PICK z : z = <<>> /\ RawList(z) /\ FunctionList(z)
  BY NothingIs DEF RawList, FunctionList
<1>10. /\ DOMAIN current' = {"unit", "raws", "functions"} /\ current'.raws = z
       /\ current'.functions = z
  <2>1. current' = [unit |-> z, raws |-> z, functions |-> z]
    BY <1>9, Zenon DEF FinishUnit, NoCurrent
  <2> QED BY <2>1
<1>11. UNCHANGED <<registry, publics, thunks>>
  BY DEF FinishUnit
<1> QED BY <1>8, <1>9, <1>10, <1>11, InputsNow DEF InputsOK

\* All of them.
LEMMA InputsSafe ==
    ASSUME ImageOK(program), InputsOK, program' = program,
           PdbInputsNext \/ UNCHANGED <<registry, publics, thunks, modules, current>>
    PROVE  InputsOK'
PROOF
<1>1. CASE UNCHANGED <<registry, publics, thunks, modules, current>>
  BY <1>1, InputsNow DEF InputsOK
<1>2. ASSUME ModulesDone PROVE UNCHANGED <<registry, publics, thunks, modules, current>>
  BY <1>2 DEF ModulesDone, pdbInputs
<1> QED BY <1>1, <1>2, BuildPublicsSafe, DetectThunksSafe, EnrichGlobalsSafe, StartUnitSafe,
           ComposeFunctionSafe, FinishUnitSafe DEF PdbInputsNext

-----------------------------------------------------------------------------
(* The steps that write the file.                                          *)

\* The symbols of a function: the procedure first, no other procedure after it.
LEMMA FunctionSymbolsAre ==
    ASSUME NEW t, NEW f, IsSequence(f.locals), NEW name, NEW type, NEW at,
           NEW fs, fs = FunctionSymbols(t, f, name, type, at)
    PROVE  /\ IsSequence(fs) /\ Len(fs) \in Nat \ {0}
           /\ fs[1].kind = "GPROC32" /\ fs[1].name = name
           /\ fs[1].segment = f.segment /\ fs[1].offset = f.offset
           /\ \A k \in 1..Len(fs) : fs[k].kind = "GPROC32" => k = 1
PROOF
<1>1. PICK g : g = Symbol("GPROC32", name, f.segment, f.offset, f.size, type, at + 2 + Len(f.locals))
  OBVIOUS
<1>2. PICK h : h = Symbol("FRAMEPROC", <<>>, 0, 0, 0, NoTypeIndex, 0)
  BY Zenon
<1>3. PICK e : e = Symbol("END", <<>>, 0, 0, 0, NoTypeIndex, 0)
  BY Zenon
<1> DEFINE L(i) == Symbol("REGREL32", <<f.locals[i].name>>, 0, f.locals[i].offset, 0,
                          ResolveTypeIndex(t, f.locals[i]), 0)
<1>4. PICK q : q = [i \in DOMAIN f.locals |-> L(i)]
  BY Zenon
<1>5. fs = (<<g, h>> \o q) \o <<e>>
  BY <1>1, <1>2, <1>3, <1>4, Zenon DEF FunctionSymbols
<1>6. /\ g.kind = "GPROC32" /\ g.name = name /\ g.segment = f.segment /\ g.offset = f.offset
  BY <1>1 DEF Symbol
<1>7. h.kind = "FRAMEPROC" /\ e.kind = "END"
  <2>1. PICK z, x : h = [kind |-> "FRAMEPROC", name |-> z, segment |-> 0, offset |-> 0,
                         size |-> 0, type |-> x, end |-> 0]
                    /\ e = [kind |-> "END", name |-> z, segment |-> 0, offset |-> 0,
                            size |-> 0, type |-> x, end |-> 0]
    BY <1>2, <1>3, Zenon DEF Symbol
  <2> QED BY <2>1
<1>8. \A i : L(i).kind = "REGREL32"
  <2>1. ASSUME NEW i PROVE L(i).kind = "REGREL32"
    <3>1. PICK z, x, y : L(i) = [kind |-> "REGREL32", name |-> z, segment |-> 0, offset |-> x,
                                 size |-> 0, type |-> y, end |-> 0]
      BY Zenon DEF Symbol
    <3> HIDE DEF L
    <3> QED BY <3>1
  <2> HIDE DEF L
  <2> QED BY <2>1
<1> HIDE DEF L
<1>9. PICK n \in Nat : n = Len(f.locals) /\ DOMAIN f.locals = 1..n
  BY SequenceIs
<1>10. IsSequence(q) /\ Len(q) = n /\ \A i \in 1..n : q[i].kind = "REGREL32"
  <2>1. DOMAIN q = DOMAIN f.locals /\ q = [i \in DOMAIN f.locals |-> q[i]]
    BY <1>4
  <2>2. IsSequence(q) /\ Len(q) = n
    BY <1>9, <2>1, OverPositions
  <2> QED BY <1>4, <1>8, <1>9, <2>2
<1>11. IsSequence(<<g, h>>) /\ IsSequence(<<e>>)
  <2>1. <<g, h>> \in Seq({g, h}) /\ <<e>> \in Seq({e})
    OBVIOUS
  <2> QED BY <2>1, SequenceOver
<1>12. PICK a, b : a = <<g, h>> /\ b = <<e>>
  OBVIOUS
<1>13. IsSequence(a) /\ IsSequence(b) /\ Len(a) = 2 /\ a[1] = g /\ a[2] = h
       /\ Len(b) = 1 /\ b[1] = e
  BY <1>11, <1>12
<1>14. PICK c : c = a \o q /\ Joined(c, a, q)
  BY <1>10, <1>13, ConcatJoins
<1>15. Joined(fs, c, b)
  <2>1. fs = c \o b
    BY <1>5, <1>12, <1>14, Zenon
  <2>2. IsSequence(c)
    BY <1>14 DEF Joined
  <2> QED BY <1>13, <2>1, <2>2, ConcatJoins
<1>16. IsSequence(c) /\ Len(c) = n + 2 /\ c[1] = g /\ c[2] = h
       /\ \A i \in 1..n : c[2 + i] = q[i]
  BY <1>10, <1>13, <1>14 DEF Joined
<1>17. IsSequence(fs) /\ Len(fs) = n + 3 /\ fs[n + 3] = e
       /\ \A i \in 1..(n + 2) : fs[i] = c[i]
  <2>1. /\ IsSequence(fs) /\ Len(fs) = Len(c) + 1
        /\ \A i \in 1..Len(c) : fs[i] = c[i]
        /\ \A i \in 1..1 : fs[Len(c) + i] = b[i]
    BY <1>13, <1>15 DEF Joined
  <2>2. fs[(n + 2) + 1] = b[1]
    BY <1>16, <2>1
  <2>3. (n + 2) + 1 = n + 3
    OBVIOUS
  <2> QED BY <1>13, <1>16, <2>1, <2>2, <2>3
<1>18. fs[1] = g
  BY <1>16, <1>17
<1>19. ASSUME NEW k \in 1..(n + 3), fs[k].kind = "GPROC32" PROVE k = 1
  <2>1. CASE k = n + 3
    BY <1>7, <1>17, <1>19, <2>1
  <2>2. CASE k = 2
    BY <1>7, <1>16, <1>17, <1>19, <2>2
  <2>3. CASE k \in 3..(n + 2)
    <3>1. PICK i \in 1..n : k = 2 + i
      <4>1. k - 2 \in 1..n /\ k = 2 + (k - 2)
        BY <2>3
      <4> QED BY <4>1
    <3>2. fs[k] = q[i]
      BY <1>16, <1>17, <3>1
    <3> QED BY <1>10, <1>19, <3>2
  <2> QED BY <2>1, <2>2, <2>3
<1> QED BY <1>6, <1>17, <1>18, <1>19

\* What is written is as before for a module in `dbi'.
LEMMA StreamsAre ==
    ASSUME OutputsOK
    PROVE  /\ Len(dbi) \in Nat /\ DOMAIN dbi = 1..Len(dbi)
           /\ IsSequence(writing.symbols) /\ Len(writing.symbols) \in Nat
           /\ Stream(dbi, writing, Len(dbi) + 1) = writing.symbols
           /\ \A i \in 1..Len(dbi) : IsSequence(dbi[i].symbols)
PROOF
<1>1. Len(dbi) \in Nat /\ DOMAIN dbi = 1..Len(dbi)
  BY SequenceIs DEF OutputsOK
<1>2. Len(dbi) + 1 \in Streams(dbi) /\ Len(dbi) + 1 \notin 1..Len(dbi)
  BY <1>1 DEF Streams
<1>3. Stream(dbi, writing, Len(dbi) + 1) = writing.symbols
  BY <1>2 DEF Stream
<1>4. IsSequence(writing.symbols)
  BY <1>2, <1>3 DEF OutputsOK
<1>5. ASSUME NEW i \in 1..Len(dbi) PROVE IsSequence(dbi[i].symbols)
  <2>1. i \in Streams(dbi) /\ Stream(dbi, writing, i) = dbi[i].symbols
    BY <1>1 DEF Streams, Stream
  <2> QED BY <2>1 DEF OutputsOK
<1> QED BY <1>1, <1>3, <1>4, <1>5, SequenceIs

\* Only the writer reaches the last phases.
LEMMA EarlyPhases ==
    ASSUME PdbInputsNext
    PROVE  phase \notin {"write", "symbols", "done"} /\ phase' \notin {"write", "symbols", "done"}
PROOF
<1>1. CASE BuildPublics
  BY <1>1 DEF BuildPublics
<1>2. CASE DetectAdjusterThunks
  <2>1. phase = "thunks" /\ phase' = IF Rsm.have THEN "globals" ELSE "modules"
    BY <1>2, Zenon DEF DetectAdjusterThunks
  <2> QED BY <2>1
<1>3. CASE EnrichGlobals
  BY <1>3 DEF EnrichGlobals
<1>4. CASE StartUnit
  <2>1. phase = "modules" /\ phase' = phase
    BY <1>4, Zenon DEF StartUnit
  <2> QED BY <2>1
<1>5. CASE ComposeFunction
  <2>1. phase = "modules" /\ phase' = phase
    BY <1>5, Zenon DEF ComposeFunction
  <2> QED BY <2>1
<1>6. CASE FinishUnit
  <2>1. phase = "modules" /\ phase' = phase
    BY <1>6, Zenon DEF FinishUnit
  <2> QED BY <2>1
<1>7. CASE ModulesDone
  BY <1>7 DEF ModulesDone
<1> QED BY <1>1, <1>2, <1>3, <1>4, <1>5, <1>6, <1>7 DEF PdbInputsNext

\* The steps before the file is written do not touch it.
LEMMA InputsLeaveOutputs ==
    ASSUME OutputsOK, RefsOK, NamesOK, PdbInputsNext, UNCHANGED pdbOutputs
    PROVE  OutputsOK' /\ RefsOK' /\ NamesOK'
PROOF
<1>1. phase \notin {"write", "symbols", "done"} /\ phase' \notin {"write", "symbols", "done"}
  BY EarlyPhases
<1>2. /\ tpi' = tpi /\ scoped' = scoped /\ dbi' = dbi /\ procRefs' = procRefs
      /\ contribs' = contribs /\ modIndex' = modIndex /\ writing' = writing
  BY DEF pdbOutputs
<1>3. OutputsOK'
  BY <1>1, <1>2 DEF OutputsOK, TpiOK, PlacedList, PlacedOK, IsSequence, Streams, Stream
<1>4. RefsOK'
  BY <1>2 DEF RefsOK, Leads, Contributed, Streams, Stream
<1>5. NamesOK'
  BY <1>1, <1>2 DEF NamesOK, Apart, ScopedName
<1> QED BY <1>3, <1>4, <1>5

\* One more aggregate.
LEMMA EmitAggregateSafe ==
    ASSUME PdbOK, EmitAggregate
    PROVE  OutputsOK' /\ RefsOK' /\ NamesOK'
PROOF
<1>1. PICK q, n : q = registry.aggregates /\ n = Len(tpi.inner) + 1
  OBVIOUS
<1>2. IsSequence(q) /\ \A a \in Range(q) : AggregateOK(a)
  BY <1>1 DEF PdbOK, InputsOK, RegistryOK
<1>3. TpiOK(tpi)
  BY DEF PdbOK, OutputsOK
<1>4. PICK k \in Nat : k = Len(tpi.inner)
  BY <1>3, SequenceIs DEF TpiOK
<1>5. PICK a : a = q[n]
  OBVIOUS
<1>6. AggregateOK(a)
  <2>1. PICK m \in Nat : m = Len(q) /\ Range(q) = {q[i] : i \in 1..m}
    BY <1>2, SequenceIs
  <2>2. n \in 1..m
    BY <1>1, <1>4, <2>1 DEF EmitAggregate
  <2> QED BY <1>2, <1>5, <2>1, <2>2
<1>7. tpi' \in {EmitSet(tpi, a), EmitEnum(tpi, a), EmitClass(tpi, a)}
  <2>1. tpi' = EmitSet(tpi, a) \/ tpi' = EmitEnum(tpi, a) \/ tpi' = EmitClass(tpi, a)
    BY <1>1, <1>5, Zenon DEF EmitAggregate
  <2> QED BY <2>1, Zenon
<1>8. TpiOK(tpi')
  BY <1>3, <1>6, <1>7, EmitSetOK, EmitEnumOK, EmitClassOK
<1>9. /\ phase = "aggregates" /\ phase' = phase
      /\ scoped' = scoped /\ dbi' = dbi /\ procRefs' = procRefs
      /\ contribs' = contribs /\ modIndex' = modIndex /\ writing' = writing
      /\ modules' = modules
  BY DEF EmitAggregate, pdbInputs
<1>10. OutputsOK'
  <2>1. OutputsOK
    BY DEF PdbOK
  <2>2. TpiOK(tpi)'
    BY <1>8 DEF TpiOK, IsSequence
  <2> QED BY <1>9, <2>1, <2>2 DEF OutputsOK, PlacedList, PlacedOK, IsSequence, Streams, Stream
<1>11. RefsOK'
  BY <1>9 DEF PdbOK, RefsOK, Leads, Contributed, Streams, Stream
<1>12. NamesOK'
  <2>1. NamesOK
    BY DEF PdbOK
  <2>2. scoped'.publics = <<>> /\ Len(scoped'.publics) = 0 /\ scoped'.live = {}
    <3>1. scoped'.publics = <<>> /\ scoped'.live = {}
      BY <1>9, <2>1 DEF NamesOK
    <3> QED BY <3>1, NothingIs
  <2>3. Len(procRefs') = Len(scoped'.publics) /\ phase' = "aggregates"
    BY <1>9, <2>1 DEF NamesOK
  <2> QED BY <2>2, <2>3 DEF NamesOK
<1> QED BY <1>10, <1>11, <1>12

\* The vector gets its size.
LEMMA AggregatesDoneSafe ==
    ASSUME PdbOK, AggregatesDone
    PROVE  OutputsOK' /\ RefsOK' /\ NamesOK'
PROOF
<1>1. OutputsOK /\ RefsOK /\ NamesOK
  BY DEF PdbOK
<1>2. /\ phase = "aggregates" /\ phase' = "write"
      /\ scoped' = [scoped EXCEPT !.capacity = Cardinality(DOMAIN tpi.methods)]
      /\ tpi' = tpi /\ dbi' = dbi /\ procRefs' = procRefs
      /\ contribs' = contribs /\ modIndex' = modIndex /\ writing' = writing
      /\ modules' = modules
  BY DEF AggregatesDone, pdbInputs, Reserve
<1>3. PICK c : c = Cardinality(DOMAIN tpi.methods)
  OBVIOUS
<1>4. DOMAIN scoped' = DOMAIN scoped /\ scoped'.publics = scoped.publics
      /\ scoped'.live = scoped.live /\ scoped'.capacity = c
  BY <1>1, <1>2, <1>3 DEF OutputsOK
<1>5. scoped.publics = <<>> /\ Len(scoped.publics) = 0 /\ scoped.live = {}
  <2>1. scoped.publics = <<>> /\ scoped.live = {}
    BY <1>1, <1>2 DEF NamesOK
  <2> QED BY <2>1, NothingIs
<1>6. OutputsOK'
  BY <1>1, <1>2, <1>4 DEF OutputsOK, TpiOK, PlacedList, PlacedOK, IsSequence, Streams, Stream
<1>7. RefsOK'
  BY <1>1, <1>2 DEF RefsOK, Leads, Contributed, Streams, Stream
<1>8. NamesOK'
  <2>1. Len(procRefs') = 0 /\ Len(scoped'.publics) = 0 /\ scoped'.live = {}
    BY <1>1, <1>2, <1>4, <1>5 DEF NamesOK
  <2>2. 1..0 = {}
    OBVIOUS
  <2>3. Unmoved(scoped', tpi'.methods)
    BY <1>2, <1>3, <1>4, <2>1, <2>2 DEF Unmoved
  <2>4. Unmoved(scoped, tpi.methods)'
    BY <2>3 DEF Unmoved
  <2> HIDE DEF Unmoved
  <2> QED BY <1>2, <2>1, <2>4 DEF NamesOK
<1> QED BY <1>6, <1>7, <1>8

\* A reference leads where it led when more symbols are written.
LEMMA LeadsStill ==
    ASSUME OutputsOK, NEW r, Leads(r, dbi, writing), NEW w, Len(w.symbols) \in Nat,
           Len(writing.symbols) <= Len(w.symbols),
           \A k \in 1..Len(writing.symbols) : w.symbols[k] = writing.symbols[k]
    PROVE  Leads(r, dbi, w)
PROOF
<1>1. PICK N \in Nat, L \in Nat, M \in Nat :
        N = Len(dbi) /\ L = Len(writing.symbols) /\ M = Len(w.symbols)
  <2>1. Len(dbi) \in Nat /\ Len(writing.symbols) \in Nat
    BY StreamsAre
  <2> QED BY <2>1
<1>2. PICK i, o \in Nat : i = r.module /\ o = r.offset /\ i \in 1..(N + 1)
  BY <1>1 DEF Leads, Streams
<1>3. CASE i \in 1..N
  BY <1>1, <1>2, <1>3 DEF Leads, Stream
<1>4. CASE i = N + 1
  <2>1. i \notin 1..N
    BY <1>4
  <2>2. Stream(dbi, writing, i) = writing.symbols /\ Stream(dbi, w, i) = w.symbols
    BY <1>1, <2>1 DEF Stream
  <2>3. o < L /\ L <= M /\ o + 1 \in 1..L
    BY <1>1, <1>2, <2>2 DEF Leads
  <2>4. w.symbols[o + 1] = writing.symbols[o + 1]
    BY <1>1, <2>3
  <2>5. o < Len(w.symbols)
    BY <1>1, <2>3
  <2> QED BY <1>2, <2>2, <2>4, <2>5 DEF Leads
<1> QED BY <1>2, <1>3, <1>4

\* One more name at the end of the vector.
LEMMA PushedOK ==
    ASSUME NEW s, IsSequence(s.publics), NEW public, NEW methods,
           IsFiniteSet(DOMAIN methods), Unmoved(s, methods),
           NEW t, t = PushName(s, public)
    PROVE  /\ DOMAIN t = {"publics", "capacity", "live"}
           /\ t.publics = Append(s.publics, public) /\ Unmoved(t, methods)
PROOF
<1>1. PICK n \in Nat, c \in Nat : n = Len(s.publics) /\ c = Cardinality(DOMAIN methods)
  BY SequenceIs, FS_CardinalityType
<1>2. PICK p : p = Append(s.publics, public) /\ Len(p) = n + 1
  BY <1>1, AppendAdds
<1>3. t = [publics  |-> p,
           capacity |-> IF n + 1 <= s.capacity THEN s.capacity ELSE n + 1 + (n + 1) \div 2,
           live     |-> (IF n + 1 <= s.capacity THEN s.live ELSE {}) \cup {n + 1}]
  BY <1>1, <1>2, Zenon DEF PushName
<1>4. DOMAIN t = {"publics", "capacity", "live"} /\ t.publics = p
  BY <1>3
<1>5. ASSUME n + 1 <= c PROVE t.capacity = c /\ t.live = 1..(n + 1)
  <2>1. n <= c
    BY <1>5
  <2>2. s.capacity = c /\ s.live = 1..n
    BY <1>1, <2>1 DEF Unmoved
  <2>3. t.capacity = c /\ t.live = (1..n) \cup {n + 1}
    BY <1>3, <1>5, <2>2
  <2> QED BY <2>3
<1> QED BY <1>1, <1>2, <1>4, <1>5 DEF Unmoved

\* A function is written.
LEMMA WriteFunctionSafe ==
    ASSUME PdbOK, WriteFunction
    PROVE  OutputsOK' /\ RefsOK' /\ NamesOK'
PROOF
<1>1. InputsOK /\ OutputsOK /\ RefsOK /\ NamesOK
  BY DEF PdbOK
<1>2. PICK ws : ws = writing.symbols
  OBVIOUS
<1>3. PICK N \in Nat, L \in Nat, done \in Nat :
        /\ N = Len(dbi) /\ ws = writing.symbols /\ L = Len(ws) /\ done = writing.done
        /\ DOMAIN dbi = 1..N /\ IsSequence(ws) /\ modIndex = N
  <2>1. /\ Len(dbi) \in Nat /\ DOMAIN dbi = 1..Len(dbi)
        /\ IsSequence(writing.symbols) /\ Len(writing.symbols) \in Nat
    BY <1>1, StreamsAre
  <2>2. modIndex = Len(dbi) /\ writing.done \in Nat
    BY <1>1 DEF OutputsOK
  <2>3. PICK a \in Nat, b \in Nat, d \in Nat :
          a = Len(dbi) /\ b = Len(writing.symbols) /\ d = writing.done
    BY <2>1, <2>2, Zenon
  <2>4. DOMAIN dbi = 1..a /\ IsSequence(ws) /\ modIndex = a /\ b = Len(ws)
    BY <1>2, <2>1, <2>2, <2>3
  <2> QED BY <1>2, <2>3, <2>4
<1>4. phase = "write" /\ N < Len(modules) /\ done < Len(modules[N + 1].functions)
  <2>1. phase = "write" /\ Len(dbi) < Len(modules)
        /\ writing.done < Len(modules[Len(dbi) + 1].functions)
    BY Zenon DEF WriteFunction, Writing
  <2> QED BY <1>3, <2>1
<1>5. PICK f : f = modules[N + 1].functions[done + 1] /\ FunctionOK(f)
  <2>1. IsSequence(modules) /\ \A m \in Range(modules) : FunctionList(m.functions)
    BY <1>1 DEF InputsOK, ModuleList
  <2>2. PICK M \in Nat : M = Len(modules) /\ Range(modules) = {modules[i] : i \in 1..M}
    BY <2>1, SequenceIs
  <2>3. N + 1 \in 1..M
    BY <1>4, <2>2
  <2>4. PICK fs : fs = modules[N + 1].functions /\ FunctionList(fs)
    BY <2>1, <2>2, <2>3
  <2>5. PICK F \in Nat : F = Len(fs) /\ Range(fs) = {fs[i] : i \in 1..F}
    BY <2>4, SequenceIs DEF FunctionList
  <2>6. done + 1 \in 1..F
    BY <1>4, <2>4, <2>5
  <2> QED BY <2>4, <2>5, <2>6 DEF FunctionList
<1>6. PICK name, type :
        /\ name = IF f.name \in DOMAIN tpi.methods THEN ScopedName(f.name) ELSE f.name
        /\ type = IF f.name \in DOMAIN tpi.methods THEN tpi.methods[f.name] ELSE NoTypeIndex
  BY Zenon
<1>7. PICK fs : fs = FunctionSymbols(NeedingAll(tpi, f.locals), f, name, type, L)
  OBVIOUS
<1>8. PICK c, public, ref :
        /\ c = [segment |-> f.segment, offset |-> f.offset, size |-> f.size, module |-> N]
        /\ public = [name |-> name, segment |-> f.segment, offset |-> f.offset, function |-> TRUE]
        /\ ref = [name |-> name, module |-> N + 1, offset |-> L]
  BY Zenon
<1>9. /\ tpi' = NeedingAll(tpi, f.locals)
      /\ writing' = [done |-> done + 1, symbols |-> ws \o fs]
      /\ contribs' = Append(contribs, c)
      /\ IF f.name \in DOMAIN tpi.methods
         THEN scoped' = PushName(scoped, public) /\ procRefs' = Append(procRefs, ref)
         ELSE UNCHANGED <<scoped, procRefs>>
  BY <1>3, <1>5, <1>6, <1>7, <1>8, Zenon DEF WriteFunction, Writing
<1>10. phase' = phase /\ dbi' = dbi /\ modIndex' = modIndex /\ modules' = modules
  <2>1. UNCHANGED <<phase, pdbInputs, dbi, modIndex, symbols>>
    BY Zenon DEF WriteFunction
  <2> QED BY <2>1 DEF pdbInputs
<1>11. PICK ns : ns = ws \o fs
  OBVIOUS
<1>12. PICK K \in Nat :
         /\ ns = ws \o fs /\ writing'.symbols = ns /\ IsSequence(ns) /\ Len(ns) = L + K
         /\ K # 0 /\ \A k \in 1..L : ns[k] = ws[k]
         /\ \A k \in 1..K : ns[L + k] = fs[k]
         /\ fs[1].kind = "GPROC32" /\ fs[1].name = name
         /\ fs[1].segment = f.segment /\ fs[1].offset = f.offset
         /\ \A k \in 1..K : fs[k].kind = "GPROC32" => k = 1
  <2>1. IsSequence(f.locals)
    BY <1>5 DEF FunctionOK
  <2>2. /\ IsSequence(fs) /\ Len(fs) \in Nat \ {0}
        /\ fs[1].kind = "GPROC32" /\ fs[1].name = name
        /\ fs[1].segment = f.segment /\ fs[1].offset = f.offset
        /\ \A k \in 1..Len(fs) : fs[k].kind = "GPROC32" => k = 1
    BY <1>7, <2>1, FunctionSymbolsAre
  <2>4. Joined(ns, ws, fs)
    BY <1>3, <1>11, <2>2, ConcatJoins
  <2>5. writing'.symbols = ns
    BY <1>9, <1>11
  <2>6. PICK K \in Nat : K = Len(fs)
    BY <2>2
  <2> QED BY <1>3, <1>11, <2>2, <2>4, <2>5, <2>6 DEF Joined
<1>13. PICK w : w = writing' /\ DOMAIN w = {"done", "symbols"} /\ w.done \in Nat /\ w.symbols = ns
  <2>1. DOMAIN writing' = {"done", "symbols"} /\ writing'.done = done + 1
    BY <1>9
  <2> QED BY <1>12, <2>1
<1>14. /\ \A i \in 1..N : Stream(dbi, w, i) = Stream(dbi, writing, i)
       /\ Stream(dbi, w, N + 1) = ns /\ Stream(dbi, writing, N + 1) = ws
       /\ Streams(dbi) = (1..N) \cup {N + 1}
  <2>1. N + 1 \notin 1..N /\ 1..(N + 1) = (1..N) \cup {N + 1}
    OBVIOUS
  <2> QED BY <1>3, <1>13, <2>1 DEF Stream, Streams
<1>15. PlacedList(contribs')
  <2>1. PlacedOK(c)
    BY <1>5, <1>8 DEF PlacedOK, FunctionOK
  <2> QED BY <1>1, <1>9, <2>1, PlacedAppend DEF OutputsOK
<1>16. Range(contribs') = Range(contribs) \cup {c}
  <2>1. contribs \in Seq(Range(contribs) \cup {c})
    BY <1>1, SequenceIs DEF OutputsOK, PlacedList
  <2>2. Range(Append(contribs, c)) = Range(contribs) \cup {c}
    BY <2>1, RangeAppend
  <2>3. contribs' = Append(contribs, c)
    BY <1>9
  <2> QED BY <2>2, <2>3
<1>17. TpiOK(tpi') /\ tpi'.methods = tpi.methods
  BY <1>1, <1>9, NeedingKeeps DEF OutputsOK
<1>18. IsSequence(procRefs) /\ IsSequence(scoped.publics) /\ IsFiniteSet(DOMAIN tpi.methods)
       /\ Unmoved(scoped, tpi.methods) /\ DOMAIN scoped = {"publics", "capacity", "live"}
  BY <1>1, <1>4 DEF OutputsOK, TpiOK, NamesOK
<1>19. ASSUME f.name \in DOMAIN tpi.methods
       PROVE  /\ procRefs' = Append(procRefs, ref) /\ IsSequence(procRefs')
              /\ DOMAIN scoped' = {"publics", "capacity", "live"}
              /\ scoped'.publics = Append(scoped.publics, public)
              /\ IsSequence(scoped'.publics) /\ Unmoved(scoped', tpi.methods)
  <2>1. PICK t : t = PushName(scoped, public) /\ scoped' = t
    BY <1>9, <1>19
  <2>2. /\ DOMAIN t = {"publics", "capacity", "live"}
        /\ t.publics = Append(scoped.publics, public) /\ Unmoved(t, tpi.methods)
    BY <1>18, <2>1, PushedOK
  <2>3. procRefs' = Append(procRefs, ref)
    BY <1>9, <1>19
  <2>4. IsSequence(Append(procRefs, ref)) /\ IsSequence(Append(scoped.publics, public))
    BY <1>18, AppendAdds
  <2> QED BY <2>1, <2>2, <2>3, <2>4
<1>20. f.name \notin DOMAIN tpi.methods => scoped' = scoped /\ procRefs' = procRefs
  BY <1>9
<1>21. OutputsOK'
  <2>1. IsSequence(procRefs') /\ DOMAIN scoped' = {"publics", "capacity", "live"}
        /\ IsSequence(scoped'.publics)
    BY <1>18, <1>19, <1>20
  <2>2. ASSUME NEW i \in Streams(dbi) PROVE IsSequence(Stream(dbi, w, i))
    <3>1. CASE i \in 1..N
      BY <1>1, <1>14, <3>1 DEF OutputsOK
    <3>2. CASE i = N + 1
      BY <1>12, <1>14, <3>2
    <3> QED BY <1>14, <3>1, <3>2
  <2>3. TpiOK(tpi)' /\ PlacedList(contribs)' /\ IsSequence(procRefs)' /\ IsSequence(scoped.publics)'
    BY <1>15, <1>17, <2>1 DEF TpiOK, PlacedList, PlacedOK, IsSequence
  <2>4. /\ DOMAIN scoped' = {"publics", "capacity", "live"}
        /\ IsSequence(dbi)' /\ modIndex' = Len(dbi')
        /\ DOMAIN writing' = {"done", "symbols"} /\ writing'.done \in Nat
    <3>1. IsSequence(dbi)'
      BY <1>1, <1>10 DEF OutputsOK, IsSequence
    <3> QED BY <1>3, <1>10, <1>13, <2>1, <3>1
  <2>5. (\A i \in Streams(dbi) : IsSequence(Stream(dbi, writing, i)))'
    BY <1>10, <1>13, <2>2 DEF Streams, Stream, IsSequence
  <2>6. phase' = "write" /\ Len(dbi') < Len(modules')
    BY <1>3, <1>4, <1>10
  <2> QED BY <2>3, <2>4, <2>5, <2>6 DEF OutputsOK
<1>22. Len(w.symbols) \in Nat /\ Len(writing.symbols) <= Len(w.symbols)
       /\ \A k \in 1..Len(writing.symbols) : w.symbols[k] = writing.symbols[k]
  BY <1>3, <1>12, <1>13
<1>23. \A r \in Range(procRefs) : Leads(r, dbi, w)
  BY <1>1, <1>22, LeadsStill DEF RefsOK
<1>24. Leads(ref, dbi, w)
  <2>1. ref.module = N + 1 /\ ref.offset = L /\ ref.name = name
    BY <1>8
  <2>2. L < Len(ns)
    BY <1>12
  <2>3. ns[L + 1] = fs[1]
    BY <1>12
  <2>4. N + 1 \in Streams(dbi)
    BY <1>14
  <2> QED BY <1>12, <1>14, <2>1, <2>2, <2>3, <2>4 DEF Leads
<1>25. \A r \in Range(procRefs') : Leads(r, dbi, w)
  <2>1. CASE f.name \in DOMAIN tpi.methods
    <3>1. procRefs \in Seq(Range(procRefs) \cup {ref})
      BY <1>18, SequenceIs
    <3>2. Range(procRefs') = Range(procRefs) \cup {ref}
      <4>1. Range(Append(procRefs, ref)) = Range(procRefs) \cup {ref}
        BY <3>1, RangeAppend
      <4> QED BY <1>19, <2>1, <4>1
    <3> QED BY <1>23, <1>24, <3>2
  <2>2. CASE f.name \notin DOMAIN tpi.methods
    BY <1>20, <1>23, <2>2
  <2> QED BY <2>1, <2>2
<1>26. ASSUME NEW i \in Streams(dbi), NEW k \in 1..Len(Stream(dbi, w, i)),
              Stream(dbi, w, i)[k].kind = "GPROC32"
       PROVE  Contributed(Stream(dbi, w, i)[k], i, contribs')
  <2>1. ASSUME Stream(dbi, w, i)[k] = Stream(dbi, writing, i)[k],
               k \in 1..Len(Stream(dbi, writing, i))
        PROVE  Contributed(Stream(dbi, w, i)[k], i, contribs')
    <3>1. Contributed(Stream(dbi, writing, i)[k], i, contribs)
      BY <1>1, <1>26, <2>1 DEF RefsOK
    <3> QED BY <1>16, <2>1, <3>1 DEF Contributed
  <2>2. CASE i \in 1..N
    BY <1>14, <2>1, <2>2
  <2>3. CASE i = N + 1 /\ k \in 1..L
    BY <1>3, <1>12, <1>14, <2>1, <2>3
  <2>4. CASE i = N + 1 /\ k \notin 1..L
    <3>1. k \in (L + 1)..(L + K)
      BY <1>12, <1>14, <2>4
    <3>2. k - L \in 1..K /\ k = L + (k - L)
      BY <3>1
    <3>3. Stream(dbi, w, i)[k] = fs[k - L]
      BY <1>12, <1>14, <2>4, <3>2
    <3>4. k - L = 1
      BY <1>12, <1>26, <3>2, <3>3
    <3>5. Stream(dbi, w, i)[k].segment = f.segment /\ Stream(dbi, w, i)[k].offset = f.offset
      BY <1>12, <3>3, <3>4
    <3>6. c.segment = f.segment /\ c.offset = f.offset /\ c.module + 1 = i
      BY <1>8, <2>4
    <3> QED BY <1>16, <3>5, <3>6 DEF Contributed
  <2> QED BY <1>14, <2>2, <2>3, <2>4
<1>27. RefsOK'
  <2>1. (\A r \in Range(procRefs) : Leads(r, dbi, writing))'
    BY <1>10, <1>13, <1>25 DEF Leads, Stream, Streams
  <2>2. (\A i \in Streams(dbi) : \A k \in 1..Len(Stream(dbi, writing, i)) :
           Stream(dbi, writing, i)[k].kind = "GPROC32" =>
             Contributed(Stream(dbi, writing, i)[k], i, contribs))'
    BY <1>10, <1>13, <1>26 DEF Stream, Streams, Contributed
  <2> QED BY <2>1, <2>2 DEF RefsOK
<1>28. NamesOK'
  <2>1. CASE f.name \notin DOMAIN tpi.methods
    BY <1>1, <1>10, <1>17, <1>20, <2>1 DEF NamesOK, Apart, ScopedName, Unmoved
  <2>2. CASE f.name \in DOMAIN tpi.methods
    <3>1. PICK R \in Nat : R = Len(procRefs) /\ R = Len(scoped.publics)
      BY <1>1, <1>18, SequenceIs DEF NamesOK
    <3>2. PICK q, p : /\ q = procRefs' /\ p = scoped'.publics
                      /\ Len(q) = R + 1 /\ Len(p) = R + 1 /\ q[R + 1] = ref /\ p[R + 1] = public
                      /\ \A n \in 1..R : q[n] = procRefs[n] /\ p[n] = scoped.publics[n]
      <4>1. PICK q, p : q = Append(procRefs, ref) /\ p = Append(scoped.publics, public)
        OBVIOUS
      <4>2. /\ Len(q) = R + 1 /\ q[R + 1] = ref /\ \A n \in 1..R : q[n] = procRefs[n]
        <5>1. IsSequence(procRefs) /\ Len(procRefs) = R
          BY <1>18, <3>1
        <5>2. PICK e : e = ref
          OBVIOUS
        <5>3. /\ Len(Append(procRefs, e)) = R + 1 /\ Append(procRefs, e)[R + 1] = e
              /\ \A n \in 1..R : Append(procRefs, e)[n] = procRefs[n]
          BY <5>1, AppendAdds
        <5> QED BY <4>1, <5>2, <5>3
      <4>3. /\ Len(p) = R + 1 /\ p[R + 1] = public /\ \A n \in 1..R : p[n] = scoped.publics[n]
        BY <1>18, <3>1, <4>1, AppendAdds
      <4> QED BY <1>19, <2>2, <4>1, <4>2, <4>3
    <3>3. ref.name = name /\ public.name = name /\ ref.module = N + 1 /\ ref.offset = L
      BY <1>8
    <3>4. ASSUME NEW n \in 1..(R + 1)
          PROVE  q[n].name = p[n].name /\ \E x \in DOMAIN tpi.methods : p[n].name = ScopedName(x)
      <4>1. CASE n \in 1..R
        BY <1>1, <3>1, <3>2, <4>1 DEF NamesOK
      <4>2. CASE n = R + 1
        <5>1. name = ScopedName(f.name)
          BY <1>6, <2>2
        <5> QED BY <2>2, <3>2, <3>3, <4>2, <5>1
      <4> QED BY <4>1, <4>2
    <3>5. ASSUME NEW n \in 1..R PROVE Apart(procRefs[n], ref) /\ Apart(ref, procRefs[n])
      <4>1. procRefs[n] \in Range(procRefs)
        <5>1. Range(procRefs) = {procRefs[i] : i \in 1..R}
          BY <1>18, <3>1, SequenceIs
        <5> QED BY <5>1
      <4>2. PICK r : r = procRefs[n] /\ Leads(r, dbi, writing)
        BY <1>1, <4>1 DEF RefsOK
      <4>3. r.module = N + 1 => r.offset < L
        BY <1>3, <1>14, <4>2 DEF Leads
      <4> QED BY <1>3, <3>3, <4>2, <4>3 DEF Apart
    <3>6. ASSUME NEW m \in 1..(R + 1), NEW n \in 1..(R + 1), m # n PROVE Apart(q[m], q[n])
      <4>1. CASE m \in 1..R /\ n \in 1..R
        BY <1>1, <3>1, <3>2, <3>6, <4>1 DEF NamesOK
      <4>2. CASE m = R + 1 \/ n = R + 1
        BY <3>2, <3>5, <3>6, <4>2
      <4> QED BY <4>1, <4>2
    <3>7. Unmoved(scoped', tpi.methods)
      BY <1>19, <2>2
    <3>8. Unmoved(scoped, tpi.methods)'
      BY <1>17, <3>7 DEF Unmoved
    <3>9. \A n \in 1..Len(procRefs') : procRefs'[n].name = scoped'.publics[n].name
      BY <3>2, <3>4
    <3>10. \A m, n \in 1..Len(procRefs') : m # n => Apart(procRefs'[m], procRefs'[n])
      BY <3>2, <3>6
    <3>11. \A n \in 1..Len(scoped'.publics) :
             \E x \in DOMAIN tpi'.methods : scoped'.publics[n].name = ScopedName(x)
      BY <1>17, <3>2, <3>4
    <3>12. Len(procRefs') = Len(scoped'.publics) /\ phase' = "write"
      BY <1>4, <1>10, <3>2
    <3> HIDE DEF Unmoved
    <3> QED BY <3>8, <3>9, <3>10, <3>11, <3>12 DEF NamesOK, Apart, ScopedName
  <2> QED BY <2>1, <2>2
<1> QED BY <1>21, <1>27, <1>28


\* A module is complete.
LEMMA FinishModuleSafe ==
    ASSUME PdbOK, FinishModule
    PROVE  OutputsOK' /\ RefsOK' /\ NamesOK'
PROOF
<1>1. InputsOK /\ OutputsOK /\ RefsOK /\ NamesOK
  BY DEF PdbOK
<1>2. PICK N \in Nat : N = Len(dbi)
  <2>1. Len(dbi) \in Nat
    BY <1>1, StreamsAre
  <2> QED BY <2>1, Zenon
<1>3. PICK z : z = <<>> /\ IsSequence(z) /\ Len(z) = 0
  BY NothingIs
<1>4. PICK name, ws, blocks :
        /\ ws = writing.symbols
        /\ dbi' = Append(dbi, [name |-> name, symbols |-> ws, blocks |-> blocks])
  BY Zenon DEF FinishModule
<1>5. PICK m : m = [name |-> name, symbols |-> ws, blocks |-> blocks]
  OBVIOUS
<1>6. PICK d : d = Append(dbi, m) /\ dbi' = d
  BY <1>4, <1>5, Zenon
<1>7. PICK w : w = [done |-> 0, symbols |-> z]
  OBVIOUS
<1>8. /\ phase = "write" /\ phase' = phase /\ Len(dbi) < Len(modules)
      /\ modIndex' = modIndex + 1 /\ writing' = w
      /\ UNCHANGED <<pdbInputs, tpi, scoped, procRefs, contribs>>
  <2>1. /\ phase = "write" /\ Len(dbi) < Len(modules)
        /\ modIndex' = modIndex + 1 /\ writing' = [done |-> 0, symbols |-> <<>>]
        /\ UNCHANGED <<phase, pdbInputs, tpi, scoped, procRefs, contribs, symbols>>
    BY Zenon DEF FinishModule, Bumped, NotWriting
  <2> QED BY <1>3, <1>7, <2>1, Zenon
<1>9. DOMAIN w = {"done", "symbols"} /\ w.done = 0 /\ w.symbols = z /\ m.symbols = ws
  BY <1>5, <1>7
<1>10. /\ IsSequence(d) /\ Len(d) = N + 1 /\ d[N + 1] = m
       /\ \A i \in 1..N : d[i] = dbi[i]
  BY <1>1, <1>2, <1>6, AppendAdds DEF OutputsOK
<1>11. /\ Streams(dbi) = 1..(N + 1) /\ Streams(d) = (1..(N + 1)) \cup {N + 2}
       /\ Stream(d, w, N + 2) = z
       /\ \A i \in 1..(N + 1) : Stream(d, w, i) = Stream(dbi, writing, i)
  <2>1. Streams(dbi) = 1..(N + 1) /\ Streams(d) = 1..((N + 1) + 1)
    BY <1>2, <1>10 DEF Streams
  <2>2. 1..((N + 1) + 1) = (1..(N + 1)) \cup {N + 2} /\ N + 2 \notin 1..(N + 1)
    OBVIOUS
  <2>3. Stream(d, w, N + 2) = z
    BY <1>9, <1>10, <2>2 DEF Stream
  <2>4. ASSUME NEW i \in 1..(N + 1) PROVE Stream(d, w, i) = Stream(dbi, writing, i)
    <3>1. Stream(d, w, i) = d[i].symbols
      BY <1>10 DEF Stream
    <3>2. CASE i \in 1..N
      BY <1>2, <1>10, <3>1, <3>2 DEF Stream
    <3>3. CASE i = N + 1
      <4>1. Stream(dbi, writing, i) = ws
        BY <1>1, <1>2, <1>4, <3>3, StreamsAre
      <4> QED BY <1>9, <1>10, <3>1, <3>3, <4>1
    <3> QED BY <3>2, <3>3
  <2> QED BY <2>1, <2>2, <2>3, <2>4
<1>12. OutputsOK'
  <2>1. modIndex' = Len(dbi')
    BY <1>1, <1>2, <1>6, <1>8, <1>10 DEF OutputsOK
  <2>2. \A i \in Streams(d) : IsSequence(Stream(d, w, i))
    BY <1>1, <1>3, <1>11 DEF OutputsOK
  <2>3. (\A i \in Streams(dbi) : IsSequence(Stream(dbi, writing, i)))'
    BY <1>6, <1>8, <2>2 DEF Streams, Stream, IsSequence
  <2>4. IsSequence(dbi)'
    BY <1>6, <1>10 DEF IsSequence
  <2>5. DOMAIN writing' = {"done", "symbols"} /\ writing'.done \in Nat /\ writing'.symbols = <<>>
    BY <1>3, <1>8, <1>9
  <2>6. /\ TpiOK(tpi)' /\ IsSequence(procRefs)' /\ PlacedList(contribs)'
        /\ DOMAIN scoped' = {"publics", "capacity", "live"} /\ IsSequence(scoped.publics)'
    BY <1>1, <1>8 DEF OutputsOK, TpiOK, PlacedList, PlacedOK, IsSequence
  <2> QED BY <2>1, <2>3, <2>4, <2>5, <2>6 DEF OutputsOK
<1>13. RefsOK'
  <2>1. ASSUME NEW r \in Range(procRefs) PROVE Leads(r, d, w)
    <3>1. Leads(r, dbi, writing)
      BY <1>1 DEF RefsOK
    <3> QED BY <1>11, <3>1 DEF Leads
  <2>2. ASSUME NEW i \in Streams(d), NEW k \in 1..Len(Stream(d, w, i)),
               Stream(d, w, i)[k].kind = "GPROC32"
        PROVE  Contributed(Stream(d, w, i)[k], i, contribs')
    <3>1. i \in 1..(N + 1)
      BY <1>3, <1>11
    <3>2. contribs' = contribs
      BY <1>8
    <3>3. Contributed(Stream(dbi, writing, i)[k], i, contribs)
      BY <1>1, <1>11, <2>2, <3>1 DEF RefsOK
    <3> QED BY <1>11, <3>1, <3>2, <3>3
  <2>3. (\A r \in Range(procRefs) : Leads(r, dbi, writing))'
    BY <1>6, <1>8, <2>1 DEF Leads, Stream, Streams
  <2>4. (\A i \in Streams(dbi) : \A k \in 1..Len(Stream(dbi, writing, i)) :
           Stream(dbi, writing, i)[k].kind = "GPROC32" =>
             Contributed(Stream(dbi, writing, i)[k], i, contribs))'
    <3>1. \A i \in Streams(dbi') : \A k \in 1..Len(Stream(dbi', writing', i)) :
            Stream(dbi', writing', i)[k].kind = "GPROC32" =>
              Contributed(Stream(dbi', writing', i)[k], i, contribs')
      BY <1>6, <1>8, <2>2
    <3> QED BY <3>1 DEF Stream, Streams, Contributed
  <2> QED BY <2>3, <2>4 DEF RefsOK
<1>14. NamesOK'
  BY <1>1, <1>8 DEF NamesOK, Apart, Unmoved, ScopedName
<1> QED BY <1>12, <1>13, <1>14

\* The contributions are sorted: the same ones.
LEMMA SubmitContribsSafe ==
    ASSUME PdbOK, SubmitContribs
    PROVE  OutputsOK' /\ RefsOK' /\ NamesOK'
PROOF
<1>1. InputsOK /\ OutputsOK /\ RefsOK /\ NamesOK
  BY DEF PdbOK
<1>2. /\ phase = "write" /\ Len(dbi) = Len(modules) /\ contribs' = ContribsInOrder
      /\ phase' = "symbols"
      /\ UNCHANGED <<pdbInputs, tpi, scoped, dbi, procRefs, modIndex, writing>>
  <2>1. contribs' = ContribsInOrder
    BY Zenon DEF SubmitContribs, ContribsInOrder
  <2>2. /\ phase = "write" /\ Len(dbi) = Len(modules) /\ phase' = "symbols"
        /\ UNCHANGED <<pdbInputs, tpi, scoped, dbi, procRefs, modIndex, writing, symbols>>
    BY Zenon DEF SubmitContribs
  <2> QED BY <2>1, <2>2
<1>3. IsSequence(contribs') /\ Range(contribs') = Range(contribs)
  BY <1>1, <1>2, SortedContribs DEF OutputsOK
<1>4. writing.symbols = <<>>
  BY <1>1, <1>2, StreamsAre DEF OutputsOK
<1>5. OutputsOK'
  <2>1. PlacedList(contribs)'
    BY <1>1, <1>3 DEF OutputsOK, PlacedList, PlacedOK, IsSequence
  <2>2. TpiOK(tpi)' /\ IsSequence(procRefs)' /\ IsSequence(scoped.publics)' /\ IsSequence(dbi)'
    BY <1>1, <1>2 DEF OutputsOK, TpiOK, IsSequence
  <2>3. (\A i \in Streams(dbi) : IsSequence(Stream(dbi, writing, i)))'
    BY <1>1, <1>2 DEF OutputsOK, Streams, Stream, IsSequence
  <2> QED BY <1>1, <1>2, <1>4, <2>1, <2>2, <2>3 DEF OutputsOK
<1>6. RefsOK'
  <2>1. (\A r \in Range(procRefs) : Leads(r, dbi, writing))'
    BY <1>1, <1>2 DEF RefsOK, Leads, Stream, Streams
  <2>2. \A s, i : Contributed(s, i, contribs) => Contributed(s, i, contribs')
    BY <1>3 DEF Contributed
  <2>3. \A i \in Streams(dbi) : \A k \in 1..Len(Stream(dbi, writing, i)) :
          Stream(dbi, writing, i)[k].kind = "GPROC32" =>
            Contributed(Stream(dbi, writing, i)[k], i, contribs')
    BY <1>1, <2>2 DEF RefsOK
  <2>4. (\A i \in Streams(dbi) : \A k \in 1..Len(Stream(dbi, writing, i)) :
           Stream(dbi, writing, i)[k].kind = "GPROC32" =>
             Contributed(Stream(dbi, writing, i)[k], i, contribs))'
    BY <1>2, <2>3 DEF Stream, Streams, Contributed
  <2> QED BY <2>1, <2>4 DEF RefsOK
<1>7. NamesOK'
  BY <1>1, <1>2 DEF NamesOK, Apart, Unmoved, ScopedName
<1> QED BY <1>5, <1>6, <1>7

\* The publics and globals are written.
LEMMA EmitPublicsSafe ==
    ASSUME PdbOK, EmitPublicsAndGlobals
    PROVE  OutputsOK' /\ RefsOK' /\ NamesOK'
PROOF
<1>1. InputsOK /\ OutputsOK /\ RefsOK /\ NamesOK
  BY DEF PdbOK
<1>2. PICK q : tpi' = NeedingAll(tpi, q)
  BY Zenon DEF EmitPublicsAndGlobals
<1>3. /\ phase = "symbols" /\ phase' = "done"
      /\ UNCHANGED <<pdbInputs, scoped, dbi, procRefs, contribs, modIndex, writing>>
  BY Zenon DEF EmitPublicsAndGlobals
<1>4. TpiOK(tpi') /\ tpi'.methods = tpi.methods
  BY <1>1, <1>2, NeedingKeeps DEF OutputsOK
<1>5. OutputsOK'
  <2>1. TpiOK(tpi)' /\ PlacedList(contribs)' /\ IsSequence(procRefs)'
        /\ IsSequence(scoped.publics)' /\ IsSequence(dbi)'
    BY <1>1, <1>3, <1>4 DEF OutputsOK, TpiOK, PlacedList, PlacedOK, IsSequence
  <2>2. (\A i \in Streams(dbi) : IsSequence(Stream(dbi, writing, i)))'
    BY <1>1, <1>3 DEF OutputsOK, Streams, Stream, IsSequence
  <2> QED BY <1>1, <1>3, <2>1, <2>2 DEF OutputsOK
<1>6. RefsOK'
  BY <1>1, <1>3 DEF RefsOK, Leads, Contributed, Stream, Streams
<1>7. NamesOK'
  BY <1>1, <1>3, <1>4 DEF NamesOK, Apart, Unmoved, ScopedName
<1> QED BY <1>5, <1>6, <1>7

-----------------------------------------------------------------------------
(* What a debugger reads.                                                  *)

\* A symbol is where its module has it.
LEMMA SymbolIn ==
    ASSUME NEW i \in DOMAIN dbi, NEW k \in DOMAIN dbi[i].symbols, NEW kind,
           dbi[i].symbols[k].kind = kind
    PROVE  <<i, k>> \in SymbolsIn(kind) /\ SymbolAt(<<i, k>>) = dbi[i].symbols[k]
PROOF
<1>1. PICK x : x = <<i, k>>
  OBVIOUS
<1>2. x = <<i, k>> /\ x[1] = i /\ x[2] = k
  BY <1>1
<1>3. x \in {<<i, j>> : j \in DOMAIN dbi[i].symbols}
  BY <1>2
<1>4. x \in UNION {{<<h, j>> : j \in DOMAIN dbi[h].symbols} : h \in DOMAIN dbi}
  BY <1>3
<1>5. x \in SymbolsIn(kind)
  BY <1>2, <1>4 DEF SymbolsIn
<1>6. SymbolAt(x) = dbi[i].symbols[k]
  BY <1>2 DEF SymbolAt
<1> QED BY <1>2, <1>5, <1>6

\* And the other way round.
LEMMA SymbolFound ==
    ASSUME NEW kind, NEW x \in SymbolsIn(kind)
    PROVE  /\ x[1] \in DOMAIN dbi /\ x[2] \in DOMAIN dbi[x[1]].symbols
           /\ dbi[x[1]].symbols[x[2]].kind = kind
PROOF
<1>1. /\ x \in UNION {{<<i, k>> : k \in DOMAIN dbi[i].symbols} : i \in DOMAIN dbi}
      /\ dbi[x[1]].symbols[x[2]].kind = kind
  BY DEF SymbolsIn
<1>2. PICK i \in DOMAIN dbi : x \in {<<i, k>> : k \in DOMAIN dbi[i].symbols}
  BY <1>1
<1>3. PICK k \in DOMAIN dbi[i].symbols : x = <<i, k>>
  BY <1>2
<1>4. x[1] = i /\ x[2] = k
  BY <1>3
<1> QED BY <1>1, <1>4

\* With no module half written every reference leads into a module written.
LEMMA ReferenceLeads ==
    ASSUME OutputsOK, RefsOK, writing.symbols = <<>>, NEW r \in Range(procRefs)
    PROVE  /\ r.module \in DOMAIN dbi /\ r.offset \in Nat
           /\ r.offset < Len(dbi[r.module].symbols)
           /\ r.offset + 1 \in DOMAIN dbi[r.module].symbols
           /\ dbi[r.module].symbols[r.offset + 1].kind = "GPROC32"
           /\ dbi[r.module].symbols[r.offset + 1].name = r.name
PROOF
<1>1. Len(dbi) \in Nat /\ DOMAIN dbi = 1..Len(dbi)
      /\ Stream(dbi, writing, Len(dbi) + 1) = writing.symbols
      /\ \A i \in 1..Len(dbi) : IsSequence(dbi[i].symbols)
  BY StreamsAre
<1>2. PICK N : N = Len(dbi)
  OBVIOUS
<1>3. Leads(r, dbi, writing)
  BY DEF RefsOK
<1>4. r.module \in 1..(N + 1) /\ r.offset \in Nat /\ r.offset < Len(Stream(dbi, writing, r.module))
  BY <1>2, <1>3 DEF Leads, Streams
<1>5. Len(writing.symbols) = 0
  BY NothingIs
<1>6. r.module # N + 1
  BY <1>1, <1>2, <1>4, <1>5
<1>7. r.module \in 1..N
  BY <1>1, <1>2, <1>4, <1>6
<1>8. PICK q : q = dbi[r.module].symbols /\ Stream(dbi, writing, r.module) = q
  BY <1>2, <1>7 DEF Stream
<1>9. IsSequence(q)
  BY <1>1, <1>2, <1>7, <1>8
<1>10. DOMAIN q = 1..Len(q) /\ Len(q) \in Nat
  BY <1>9, SequenceIs
<1>11. r.offset + 1 \in DOMAIN q
  BY <1>4, <1>8, <1>10
<1> QED BY <1>1, <1>2, <1>3, <1>4, <1>7, <1>8, <1>11 DEF Leads

\* Of names that are all different there are no more than methods.
LEMMA NamesDistinct ==
    ASSUME OutputsOK, RefsOK, NamesOK, writing.symbols = <<>>, ~Overloaded
    PROVE  Len(scoped.publics) <= Cardinality(DOMAIN tpi.methods)
PROOF
<1>1. PICK n \in Nat : n = Len(scoped.publics) /\ n = Len(procRefs)
  BY SequenceIs DEF OutputsOK, NamesOK
<1>2. PICK M : M = DOMAIN tpi.methods /\ IsFiniteSet(M)
  BY DEF OutputsOK, TpiOK
<1>3. PICK c \in Nat : c = Cardinality(M)
  BY <1>2, FS_CardinalityType
<1>4. SUFFICES ASSUME ~(n <= c) PROVE FALSE
  BY <1>1, <1>2, <1>3
<1>5. PICK P : P = scoped.publics
  OBVIOUS
<1>6. PICK f : f = [k \in 1..n |-> CHOOSE q \in M : P[k].name = ScopedName(q)]
  OBVIOUS
<1>7. ASSUME NEW k \in 1..n PROVE f[k] \in M /\ P[k].name = ScopedName(f[k])
  <2>1. \E q \in M : P[k].name = ScopedName(q)
    BY <1>1, <1>2, <1>5 DEF NamesOK
  <2>2. PICK h : h = CHOOSE q \in M : P[k].name = ScopedName(q)
    OBVIOUS
  <2>3. h \in M /\ P[k].name = ScopedName(h)
    BY <2>1, <2>2, Zenon
  <2>4. f[k] = h
    BY <1>6, <2>2, Zenon
  <2> QED BY <2>3, <2>4
<1>8. f \in [1..n -> M]
  BY <1>6, <1>7
<1>9. IsFiniteSet(1..n) /\ Cardinality(1..n) = n
  BY FS_Interval
<1>10. PICK i \in 1..n, j \in 1..n : i # j /\ f[i] = f[j]
  <2>1. c < n
    BY <1>4
  <2> QED BY <1>2, <1>3, <1>8, <1>9, <2>1, FS_PigeonHole
<1>11. PICK r, s : r = procRefs[i] /\ s = procRefs[j]
  OBVIOUS
<1>12. r \in Range(procRefs) /\ s \in Range(procRefs)
  <2>1. Range(procRefs) = {procRefs[k] : k \in 1..n}
    BY <1>1, SequenceIs DEF OutputsOK
  <2> QED BY <1>11, <2>1
<1>13. Apart(r, s) /\ r.name = P[i].name /\ s.name = P[j].name
  BY <1>1, <1>5, <1>10, <1>11 DEF NamesOK
<1>14. r.name = s.name /\ r.name = ScopedName(f[i])
  BY <1>7, <1>10, <1>13
<1>15. "::" \in Range(r.name)
  <2>1. PICK a, b : r.name = <<a, "::", b>>
    BY <1>14 DEF ScopedName
  <2>2. 2 \in DOMAIN <<a, "::", b>> /\ <<a, "::", b>>[2] = "::"
    OBVIOUS
  <2> QED BY <2>1, <2>2 DEF Range
<1>16. PICK a, b : a = r.offset + 1 /\ b = s.offset + 1
  OBVIOUS
<1>17. /\ r.module \in DOMAIN dbi /\ a \in DOMAIN dbi[r.module].symbols
       /\ dbi[r.module].symbols[a].kind = "GPROC32" /\ dbi[r.module].symbols[a].name = r.name
       /\ s.module \in DOMAIN dbi /\ b \in DOMAIN dbi[s.module].symbols
       /\ dbi[s.module].symbols[b].kind = "GPROC32" /\ dbi[s.module].symbols[b].name = s.name
       /\ r.offset \in Nat /\ s.offset \in Nat
  BY <1>12, <1>16, ReferenceLeads
<1>18. PICK x, y : x = <<r.module, a>> /\ y = <<s.module, b>>
  OBVIOUS
<1>19. x \in SymbolsIn("GPROC32") /\ SymbolAt(x).name = r.name
  BY <1>17, <1>18, SymbolIn
<1>20. y \in SymbolsIn("GPROC32") /\ SymbolAt(y).name = s.name
  BY <1>17, <1>18, SymbolIn
<1>21. x # y
  BY <1>13, <1>16, <1>17, <1>18 DEF Apart
<1> QED BY <1>14, <1>15, <1>19, <1>20, <1>21 DEF Overloaded

\* The names are written as they were kept.
LEMMA NamesWritten ==
    ASSUME PdbOK, EmitPublicsAndGlobals
    PROVE  NamesStayPut'
PROOF
<1>1. InputsOK /\ OutputsOK /\ RefsOK /\ NamesOK
  BY DEF PdbOK
<1>2. /\ phase = "symbols" /\ phase' = "done"
      /\ UNCHANGED <<pdbInputs, scoped, dbi, procRefs, contribs, modIndex, writing>>
  BY Zenon DEF EmitPublicsAndGlobals
<1>3. dbi' = dbi /\ scoped' = scoped /\ publics' = publics
  BY <1>2 DEF pdbInputs
<1>4. SUFFICES ASSUME ~Overloaded, NEW n \in DOMAIN scoped.publics
               PROVE  symbols'.publics[Len(publics) + n].name = scoped.publics[n].name
  <2>1. Overloaded' <=> Overloaded
    BY <1>3 DEF Overloaded, SymbolsIn, SymbolAt
  <2> QED BY <1>3, <2>1 DEF NamesStayPut
<1>5. PICK P : P = scoped.publics /\ IsSequence(P)
  BY <1>1 DEF OutputsOK
<1>6. PICK k \in Nat : k = Len(P) /\ DOMAIN P = 1..k
  <2>1. Len(P) \in Nat /\ DOMAIN P = 1..Len(P)
    BY <1>5, SequenceIs
  <2> QED BY <2>1, Zenon
<1>7. scoped.live = DOMAIN scoped.publics
  <2>1. writing.symbols = <<>>
    BY <1>1, <1>2 DEF OutputsOK
  <2>2. Len(scoped.publics) <= Cardinality(DOMAIN tpi.methods)
    BY <1>1, <1>4, <2>1, NamesDistinct
  <2>3. Unmoved(scoped, tpi.methods)
    BY <1>1, <1>2 DEF NamesOK
  <2> QED BY <1>5, <1>6, <2>2, <2>3 DEF Unmoved
<1>8. PICK Q, lost, globals :
        /\ lost \in SUBSET (DOMAIN scoped.publics \ scoped.live)
        /\ Q = [i \in DOMAIN publics |->
                  [name |-> publics[i].name, segment |-> publics[i].segment,
                   offset |-> publics[i].offset, function |-> publics[i].function]]
        /\ symbols' = [publics |-> Q \o ScopedPublics(lost), globals |-> globals]
  BY Zenon DEF EmitPublicsAndGlobals
<1>9. lost = {}
  BY <1>7, <1>8
<1>10. PICK S : S = ScopedPublics(lost)
  OBVIOUS
<1>11. S = [m \in DOMAIN P |-> P[m]]
  <2>1. S = [m \in DOMAIN P |-> IF m \in lost THEN [P[m] EXCEPT !.name = Overwritten] ELSE P[m]]
    BY <1>5, <1>10, Zenon DEF ScopedPublics
  <2>2. PICK o : o = Overwritten
    OBVIOUS
  <2>3. S = [m \in DOMAIN P |-> IF m \in lost THEN [P[m] EXCEPT !.name = o] ELSE P[m]]
    BY <2>1, <2>2
  <2> QED BY <1>9, <2>3
<1>12. IsSequence(S) /\ Len(S) = k /\ S[n] = P[n]
  <2>1. DOMAIN S = DOMAIN P /\ S = [m \in DOMAIN P |-> S[m]]
    BY <1>11
  <2>2. IsSequence(S) /\ Len(S) = k
    BY <1>5, <1>6, <2>1, OverPositions
  <2> QED BY <1>4, <1>5, <1>11, <2>2
<1>13. IsSequence(Q) /\ Len(Q) = Len(publics)
  <2>1. DOMAIN Q = DOMAIN publics /\ Q = [i \in DOMAIN publics |-> Q[i]]
    BY <1>8
  <2> QED BY <1>1, <2>1, OverPositions DEF InputsOK
<1>14. PICK C : C = Q \o S /\ symbols'.publics = C
  BY <1>8, <1>10
<1>15. Joined(C, Q, S)
  BY <1>12, <1>13, <1>14, ConcatJoins
<1>16. C[Len(Q) + n] = S[n]
  BY <1>4, <1>5, <1>6, <1>12, <1>15 DEF Joined
<1> QED BY <1>5, <1>12, <1>13, <1>14, <1>16

-----------------------------------------------------------------------------
(* All that a run does.                                                    *)

\* The steps of the writer.
LEMMA WriterSafe ==
    ASSUME PdbOK, PdbWriterNext
    PROVE  /\ UNCHANGED pdbInputs /\ OutputsOK' /\ RefsOK' /\ NamesOK'
           /\ NamesStayPut'
PROOF
<1>1. UNCHANGED pdbInputs
  <2>1. EmitAggregate => UNCHANGED pdbInputs
    BY Zenon DEF EmitAggregate
  <2>2. AggregatesDone => UNCHANGED pdbInputs
    BY Zenon DEF AggregatesDone
  <2>3. WriteFunction => UNCHANGED pdbInputs
    BY Zenon DEF WriteFunction
  <2>4. FinishModule => UNCHANGED pdbInputs
    BY Zenon DEF FinishModule
  <2>5. SubmitContribs => UNCHANGED pdbInputs
    BY Zenon DEF SubmitContribs
  <2>6. EmitPublicsAndGlobals => UNCHANGED pdbInputs
    BY Zenon DEF EmitPublicsAndGlobals
  <2> QED BY <2>1, <2>2, <2>3, <2>4, <2>5, <2>6, Zenon DEF PdbWriterNext
<1>2. OutputsOK' /\ RefsOK' /\ NamesOK'
  BY EmitAggregateSafe, AggregatesDoneSafe, WriteFunctionSafe, FinishModuleSafe,
     SubmitContribsSafe, EmitPublicsSafe, Zenon DEF PdbWriterNext
<1>3. NamesStayPut'
  <2>1. EmitAggregate => phase' = "aggregates"
    <3>1. EmitAggregate => phase = "aggregates" /\ phase' = phase
      BY Zenon DEF EmitAggregate
    <3> QED BY <3>1
  <2>2. AggregatesDone => phase' = "write"
    BY Zenon DEF AggregatesDone
  <2>3. WriteFunction => phase' = "write"
    <3>1. WriteFunction => phase = "write" /\ UNCHANGED <<phase, pdbInputs, dbi, modIndex, symbols>>
      BY Zenon DEF WriteFunction
    <3> QED BY <3>1
  <2>4. FinishModule => phase' = "write"
    <3>1. FinishModule => /\ phase = "write"
                          /\ UNCHANGED <<phase, pdbInputs, tpi, scoped, procRefs, contribs, symbols>>
      BY Zenon DEF FinishModule
    <3> QED BY <3>1
  <2>5. SubmitContribs => phase' = "symbols"
    BY Zenon DEF SubmitContribs
  <2>6. phase' # "done" => NamesStayPut'
    BY DEF NamesStayPut
  <2> QED BY <2>1, <2>2, <2>3, <2>4, <2>5, <2>6, NamesWritten DEF PdbWriterNext
<1> QED BY <1>1, <1>2, <1>3

\* Before the first step.
LEMMA ConverterStarts == Init => ConverterInv
PROOF
<1>1. SUFFICES ASSUME Init PROVE ConverterInv
  OBVIOUS
<1>2. /\ program \in Programs /\ command \in {"pdb", "dwarf"}
      /\ phase = (IF command = "pdb" THEN "publics" ELSE "populate")
      /\ pdbInputsEmpty /\ pdbOutputsEmpty
  <2>1. phase = (IF command = "pdb" THEN "publics" ELSE "populate")
    BY <1>1, Zenon DEF Init
  <2>2. program \in Programs /\ command \in {"pdb", "dwarf"}
    BY <1>1, Zenon DEF Init
  <2>3. pdbInputsEmpty /\ pdbOutputsEmpty
    BY <1>1, Zenon DEF Init
  <2> QED BY <2>1, <2>2, <2>3
<1>3. phase \notin {"write", "symbols", "done"}
  BY <1>2
<1>4. PICK z : z = <<>> /\ IsSequence(z) /\ Len(z) = 0 /\ Range(z) = {}
  BY NothingIs
<1>5. InputsOK
  <2>1. registry = [aggregates |-> z, cache |-> [key \in Keys |-> 0], opaque |-> z, sets |-> z]
        /\ publics = z /\ thunks = z /\ modules = z
        /\ current = [unit |-> z, raws |-> z, functions |-> z]
    BY <1>2, <1>4, Zenon DEF pdbInputsEmpty, EmptyRegistry, NoCurrent
  <2>2. PICK cache : cache = [key \in Keys |-> 0] /\ cache \in [Keys -> Nat]
    <3>1. PICK K : K = Keys
      OBVIOUS
    <3>2. [key \in K |-> 0] \in [K -> Nat]
      OBVIOUS
    <3> QED BY <3>1, <3>2
  <2>3. registry = [aggregates |-> z, cache |-> cache, opaque |-> z, sets |-> z]
    BY <2>1, <2>2
  <2>4. RegistryOK(registry)
    BY <1>4, <2>2, <2>3 DEF RegistryOK
  <2>5. PlacedList(z) /\ ModuleList(z) /\ RawList(z) /\ FunctionList(z)
    BY <1>4 DEF PlacedList, ModuleList, RawList, FunctionList
  <2>6. DOMAIN current = {"unit", "raws", "functions"} /\ current.raws = z /\ current.functions = z
    BY <2>1
  <2> QED BY <1>4, <2>1, <2>4, <2>5, <2>6 DEF InputsOK
<1>6. /\ tpi = [records |-> z, arrays |-> z, inner |-> z, var |-> z, methods |-> z]
      /\ scoped = [publics |-> z, capacity |-> 0, live |-> {}]
      /\ dbi = z /\ procRefs = z /\ contribs = z /\ modIndex = 0
      /\ writing = [done |-> 0, symbols |-> z]
  BY <1>2, <1>4, Zenon DEF pdbOutputsEmpty, NotWriting
<1>7. TpiOK(tpi)
  <2>1. DOMAIN z = {}
    BY <1>4 DEF Range
  <2>2. DOMAIN tpi = {"records", "arrays", "inner", "var", "methods"}
        /\ tpi.inner = z /\ tpi.methods = z
    BY <1>6
  <2> QED BY <1>4, <2>1, <2>2, FS_EmptySet DEF TpiOK
<1>8. DOMAIN scoped = {"publics", "capacity", "live"} /\ scoped.publics = z /\ scoped.live = {}
      /\ DOMAIN writing = {"done", "symbols"} /\ writing.done = 0 /\ writing.symbols = z
  BY <1>6
<1>9. Streams(dbi) = 1..1 /\ Stream(dbi, writing, 1) = z
  BY <1>4, <1>6, <1>8 DEF Streams, Stream
<1>10. OutputsOK
  <2>1. PlacedList(z)
    BY <1>4 DEF PlacedList
  <2>2. \A i \in Streams(dbi) : IsSequence(Stream(dbi, writing, i))
    BY <1>4, <1>9
  <2> QED BY <1>4, <1>6, <1>7, <1>8, <2>1, <2>2 DEF OutputsOK
<1>11. RefsOK
  BY <1>4, <1>6, <1>9 DEF RefsOK
<1>12. NamesOK
  BY <1>3, <1>4, <1>6, <1>8 DEF NamesOK
<1>13. NamesStayPut
  BY <1>3 DEF NamesStayPut
<1> QED BY <1>2, <1>5, <1>10, <1>11, <1>12, <1>13 DEF ConverterInv, PdbOK

\* A step of the `pdb' command.
LEMMA PdbSafe ==
    ASSUME ConverterInv, Pdb
    PROVE  ConverterInv'
PROOF
<1>1. /\ command = "pdb" /\ program' = program /\ command' = command
      /\ ((PdbInputsNext /\ UNCHANGED pdbOutputs) \/ PdbWriterNext)
  <2>1. command = "pdb" /\ UNCHANGED <<program, command, promised, dwarfVars>>
    BY Zenon DEF Pdb
  <2>2. (PdbInputsNext /\ UNCHANGED pdbOutputs) \/ PdbWriterNext
    BY Zenon DEF Pdb
  <2> QED BY <2>1, <2>2
<1>2. program \in Programs /\ PdbOK /\ ImageOK(program)
  BY <1>1, ProgramsAssumption DEF ConverterInv
<1>3. CASE PdbInputsNext /\ UNCHANGED pdbOutputs
  <2>1. OutputsOK' /\ RefsOK' /\ NamesOK'
    BY <1>2, <1>3, InputsLeaveOutputs DEF PdbOK
  <2>2. InputsOK'
    BY <1>1, <1>2, <1>3, InputsSafe DEF PdbOK
  <2>3. NamesStayPut'
    <3>1. phase' # "done"
      BY <1>3, EarlyPhases
    <3> QED BY <3>1 DEF NamesStayPut
  <2> QED BY <1>1, <1>2, <2>1, <2>2, <2>3 DEF ConverterInv, PdbOK
<1>4. CASE PdbWriterNext
  <2>1. /\ UNCHANGED pdbInputs /\ OutputsOK' /\ RefsOK' /\ NamesOK' /\ NamesStayPut'
    BY <1>2, <1>4, WriterSafe
  <2>2. UNCHANGED <<registry, publics, thunks, modules, current>>
    BY <2>1 DEF pdbInputs
  <2>3. InputsOK'
    BY <1>1, <1>2, <2>2, InputsSafe DEF PdbOK
  <2> QED BY <1>1, <1>2, <2>1, <2>3 DEF ConverterInv, PdbOK
<1> QED BY <1>1, <1>3, <1>4

\* A step of the `dwarf' command touches none of it.
LEMMA DwarfStepSafe ==
    ASSUME ConverterInv, DwarfCommand
    PROVE  ConverterInv'
PROOF
<1>1. /\ command = "dwarf" /\ command' = command /\ program' = program
      /\ UNCHANGED <<pdbInputs, pdbOutputs>>
  <2>1. command = "dwarf" /\ UNCHANGED <<command, promised, pdbVars>> /\ UNCHANGED program
    BY Zenon DEF DwarfCommand, DwarfNext
  <2> QED BY <2>1 DEF pdbVars
<1>2. Keys' = Keys
  BY <1>1 DEF Keys, Key, Rsm
<1>3. pdbInputsEmpty /\ pdbOutputsEmpty
  BY <1>1 DEF ConverterInv
<1>4. pdbInputsEmpty'
  BY <1>1, <1>2, <1>3 DEF pdbInputsEmpty, pdbInputs, EmptyRegistry, NoCurrent
<1>5. pdbOutputsEmpty'
  BY <1>1, <1>3 DEF pdbOutputsEmpty, pdbOutputs, NotWriting
<1>6. NamesStayPut'
  <2>1. PICK z : z = <<>> /\ Range(z) = {}
    BY NothingIs
  <2>2. DOMAIN z = {}
    BY <2>1 DEF Range
  <2>3. scoped' = [publics |-> z, capacity |-> 0, live |-> {}]
    BY <1>5, <2>1, Zenon DEF pdbOutputsEmpty
  <2>4. DOMAIN scoped'.publics = {}
    BY <2>2, <2>3
  <2> QED BY <2>4 DEF NamesStayPut
<1>7. program \in Programs
  BY DEF ConverterInv
<1> QED BY <1>1, <1>4, <1>5, <1>6, <1>7 DEF ConverterInv

\* Neither does one that changes nothing.
LEMMA StutterSafe ==
    ASSUME ConverterInv, UNCHANGED vars
    PROVE  ConverterInv'
PROOF
<1>1. /\ phase' = phase /\ command' = command /\ program' = program
      /\ UNCHANGED <<pdbInputs, pdbOutputs>>
  BY DEF vars, pdbVars
<1>2. /\ registry' = registry /\ publics' = publics /\ thunks' = thunks
      /\ modules' = modules /\ current' = current
      /\ tpi' = tpi /\ scoped' = scoped /\ dbi' = dbi /\ procRefs' = procRefs
      /\ contribs' = contribs /\ modIndex' = modIndex /\ writing' = writing
      /\ symbols' = symbols
  BY <1>1 DEF pdbInputs, pdbOutputs
<1>3. Keys' = Keys
  BY <1>1 DEF Keys, Key, Rsm
<1>4. pdbInputsEmpty /\ pdbOutputsEmpty => pdbInputsEmpty' /\ pdbOutputsEmpty'
  BY <1>2, <1>3 DEF pdbInputsEmpty, pdbOutputsEmpty, EmptyRegistry, NoCurrent, NotWriting
<1>5. ASSUME PdbOK, ImageOK(program) PROVE PdbOK'
  <2>1. InputsOK'
    BY <1>1, <1>2, <1>5, InputsSafe DEF PdbOK
  <2>2. OutputsOK'
    BY <1>1, <1>2, <1>5
       DEF PdbOK, OutputsOK, TpiOK, PlacedList, PlacedOK, IsSequence, Streams, Stream
  <2>3. RefsOK'
    BY <1>2, <1>5 DEF PdbOK, RefsOK, Leads, Contributed, Streams, Stream
  <2>4. NamesOK'
    <3>1. NamesOK
      BY <1>5 DEF PdbOK
    <3> QED BY <1>1, <1>2, <3>1 DEF NamesOK, Apart, ScopedName, Unmoved
  <2> QED BY <2>1, <2>2, <2>3, <2>4 DEF PdbOK
<1>6. NamesStayPut'
  <2>1. Overloaded' <=> Overloaded
    BY <1>2 DEF Overloaded, SymbolsIn, SymbolAt
  <2>2. NamesStayPut
    BY DEF ConverterInv
  <2> QED BY <1>1, <1>2, <2>1, <2>2 DEF NamesStayPut
<1> QED BY <1>1, <1>4, <1>5, <1>6, ProgramsAssumption DEF ConverterInv

\* The invariant holds throughout.
LEMMA ConverterSafe == Spec => []ConverterInv
PROOF
<1>1. Init => ConverterInv
  BY ConverterStarts
<1>2. ConverterInv /\ [Next]_vars => ConverterInv'
  <2>1. ASSUME ConverterInv, Exited PROVE ConverterInv'
    BY <2>1, StutterSafe DEF Exited
  <2> QED BY <2>1, PdbSafe, DwarfStepSafe, StutterSafe DEF Next
<1> QED BY <1>1, <1>2, PTL DEF Spec

-----------------------------------------------------------------------------
(* The results on the program database and the structure of .debug_info.   *)

\* When the program database is complete, every reference to a procedure leads
\* to the procedure of its name, and the code of every procedure to the module
\* that has it, whichever modules have lines, methods or nothing at all.
THEOREM ReferencesLead == Spec => []ProcedureReferencesHold
PROOF
<1>1. ASSUME ConverterInv, phase = "done"
      PROVE  ProcedureReferencesHold
  <2>1. CASE command = "dwarf"
    <3>1. PICK z : z = <<>> /\ Range(z) = {}
      BY NothingIs
    <3>2. procRefs = z /\ dbi = z
      BY <1>1, <2>1, <3>1, Zenon DEF ConverterInv, pdbOutputsEmpty
    <3>3. DOMAIN dbi = {} /\ Range(procRefs) = {}
      BY <3>1, <3>2 DEF Range
    <3>4. \A x : x \notin SymbolsIn("GPROC32")
      BY <3>3, SymbolFound
    <3> QED BY <3>3, <3>4 DEF ProcedureReferencesHold
  <2>2. CASE command = "pdb"
    <3>1. OutputsOK /\ RefsOK
      BY <1>1, <2>2 DEF ConverterInv, PdbOK
    <3>2. writing.symbols = <<>>
      BY <1>1, <3>1 DEF OutputsOK
    <3>3. ASSUME NEW r \in Range(procRefs)
          PROVE  /\ r.module \in DOMAIN dbi /\ r.offset < Len(dbi[r.module].symbols)
                 /\ dbi[r.module].symbols[r.offset + 1].kind = "GPROC32"
                 /\ dbi[r.module].symbols[r.offset + 1].name = r.name
      BY <3>1, <3>2, ReferenceLeads
    <3>4. ASSUME NEW x \in SymbolsIn("GPROC32")
          PROVE  \E c \in Range(contribs) :
                   /\ c.segment = SymbolAt(x).segment /\ c.offset = SymbolAt(x).offset
                   /\ c.module + 1 = x[1]
      <4>1. PICK i, k : i = x[1] /\ k = x[2]
        OBVIOUS
      <4>2. i \in DOMAIN dbi /\ k \in DOMAIN dbi[i].symbols /\ dbi[i].symbols[k].kind = "GPROC32"
        BY <4>1, SymbolFound
      <4>3. /\ Len(dbi) \in Nat /\ DOMAIN dbi = 1..Len(dbi)
            /\ \A j \in 1..Len(dbi) : IsSequence(dbi[j].symbols)
        BY <3>1, StreamsAre
      <4>4. i \in Streams(dbi) /\ Stream(dbi, writing, i) = dbi[i].symbols
        BY <4>2, <4>3 DEF Streams, Stream
      <4>5. k \in 1..Len(dbi[i].symbols)
        BY <4>2, <4>3, SequenceIs
      <4>6. Contributed(dbi[i].symbols[k], i, contribs)
        BY <3>1, <4>2, <4>4, <4>5 DEF RefsOK
      <4>7. SymbolAt(x) = dbi[i].symbols[k]
        BY <4>1 DEF SymbolAt
      <4> QED BY <4>1, <4>6, <4>7 DEF Contributed
    <3> QED BY <3>3, <3>4 DEF ProcedureReferencesHold
  <2> QED BY <1>1, <2>1, <2>2 DEF ConverterInv
<1>2. ConverterInv => ProcedureReferencesHold
  BY <1>1 DEF ProcedureReferencesHold
<1> QED BY <1>2, ConverterSafe, PTL

\* When the program database is complete, the names of methods it was given as
\* pointers into a growing vector are the names that were kept, unless two
\* methods share a name: the vector was made for as many names as there are methods.
THEOREM NamesAreKept == Spec => []NamesStayPut
PROOF
<1>1. ConverterInv => NamesStayPut
  BY DEF ConverterInv
<1> QED BY <1>1, ConverterSafe, PTL

\* A run of either command does to the units and the sections what Dwarf says.
THEOREM RunsDwarf == Spec => DwarfSpec
PROOF
<1>1. Init => DwarfInit
  BY Zenon DEF Init, DwarfInit
<1>2. [Next]_vars => [DwarfNext]_<<program, dwarfVars>>
  <2>1. ASSUME Pdb PROVE UNCHANGED <<program, dwarfVars>>
    <3>1. UNCHANGED <<program, command, promised, dwarfVars>>
      BY <2>1, Zenon DEF Pdb
    <3> QED BY <3>1
  <2>2. DwarfCommand => DwarfNext
    BY Zenon DEF DwarfCommand
  <2>3. UNCHANGED vars => UNCHANGED <<program, dwarfVars>>
    BY DEF vars
  <2>4. Exited => UNCHANGED vars
    BY DEF Exited
  <2> QED BY <2>1, <2>2, <2>3, <2>4 DEF Next
<1> QED BY <1>1, <1>2, PTL DEF Spec, DwarfSpec

\* So the ranges of functions never meet in a run either.
THEOREM RangesApart == Spec => []SubprogramsDisjoint
PROOF BY RunsDwarf, RangesNeverMeet, PTL

\* And every reference within .debug_info finds what it refers to.
THEOREM ReferencesInUnits == Spec => []DwarfRefsResolve
PROOF BY RunsDwarf, ReferencesFind, PTL

-----------------------------------------------------------------------------
(* What populate() takes from the .map file.                               *)

\* The functions among some symbols, the rows among some lines.
FunctionsIn(ss) == {<<s.address, s.name>> : s \in {s \in Range(ss) : s.kind = "Function"}}
LinesIn(ls) == {<<l.address, l.line>> : l \in Range(ls)}
\* The publics that are functions of a module.
OwnFunctions(m) ==
    {p \in Range(MapFile.publics) :
       /\ IsCode(p.segment) /\ Map!Bucket(p.name) = m
       /\ ~Map!Internal(SubSeq(p.name, Len(m) + 1, Len(p.name)))}

\* Code is above the image base.
LEMMA CodePlaced ==
    ASSUME ImageOK(program), NEW p, p.offset \in Nat, IsCode(p.segment)
    PROVE  VA(p) \in Nat /\ VA(p) # 0
PROOF
<1>1. PICK L : L = Map!Listed(p.segment)
  OBVIOUS
<1>2. PICK t : t = CHOOSE s \in L : TRUE
  OBVIOUS
<1>3. t = Map!SegmentOf(p.segment)
  BY <1>1, <1>2 DEF Map!SegmentOf
<1>4. L # {} /\ t.class = "CODE"
  BY <1>1, <1>3 DEF IsCode, Map!KindIn
<1>5. t \in Range(program.map.segments)
  BY <1>1, <1>2, <1>4 DEF Map!Listed, Map!Range, Range
<1>6. t.start \in Nat /\ t.start > program.base /\ program.base \in Nat
  BY <1>4, <1>5 DEF ImageOK
<1>7. VA(p) = t.start + p.offset
  BY <1>1, <1>3, <1>4 DEF VA, Map!ResolveVA
<1> QED BY <1>6, <1>7

\* The functions of a module are among its symbols, and no others.
LEMMA SymbolsTaken ==
    ASSUME ImageOK(program), NEW m
    PROVE  FunctionsIn(Map!Symbols(m)) = {<<VA(p), p.name>> : p \in OwnFunctions(m)}
PROOF
<1>1. PICK ps : ps = program.map.publics
  OBVIOUS
<1>2. IsSequence(ps)
  BY <1>1 DEF ImageOK, IsSequence
<1>3. PICK n \in Nat : n = Len(ps)
  BY <1>2, SequenceIs
<1>4. DOMAIN ps = 1..n /\ Range(ps) = {ps[i] : i \in 1..n}
  BY <1>2, <1>3, SequenceIs
<1>5. PICK mine : mine = {i \in DOMAIN ps :
                            /\ Map!Bucket(ps[i].name) = m
                            /\ ~Map!Internal(SubSeq(ps[i].name, Len(m) + 1, Len(ps[i].name)))}
  OBVIOUS
<1>6. PICK order : order = Among(Indices(ps), mine)
  OBVIOUS
<1>7. order \in Seq(Nat) /\ Range(order) = (1..n) \cap mine
  <2>1. ps \in Seq(Range(ps))
    BY <1>2 DEF IsSequence
  <2> QED BY <1>3, <1>6, <2>1, AmongIndices
<1>8. IsSequence(order)
  BY <1>7, SequenceOver
<1>9. PICK k \in Nat : k = Len(order)
  BY <1>8, SequenceIs
<1>10. DOMAIN order = 1..k /\ Range(order) = {order[j] : j \in 1..k}
  BY <1>8, <1>9, SequenceIs
<1>11. PICK q : q = [j \in 1..k |-> Map!Symbol(m, order[j])]
  OBVIOUS
<1>12. Map!Symbols(m) = q
  <2>1. order = Map!Among(Map!Indices(ps), mine)
    BY <1>6, SameHelpers
  <2> QED BY <1>1, <1>5, <1>10, <1>11, <2>1, Zenon DEF Map!Symbols
<1>13. Range(q) = {q[j] : j \in 1..k}
  <2>1. IsSequence(q) /\ Len(q) = k
    BY <1>11, SequenceOf
  <2> QED BY <2>1, SequenceIs
<1>14. ASSUME NEW j \in 1..k
       PROVE  /\ q[j].kind = "Function" <=> IsCode(ps[order[j]].segment)
              /\ q[j].address = VA(ps[order[j]])
              /\ q[j].kind = "Function" => q[j].name = ps[order[j]].name
  <2>1. PICK i : i = order[j]
    OBVIOUS
  <2>2. PICK p, kind, local : /\ p = ps[i] /\ kind = Map!KindIn(p.segment)
                              /\ local = SubSeq(p.name, Len(m) + 1, Len(p.name))
    OBVIOUS
  <2>3. PICK a : a = Map!ResolveVA(p.segment, p.offset)
    OBVIOUS
  <2>4. q[j] = [address |-> a, kind |-> kind, public |-> i,
                name |-> IF kind = "Variable" THEN local ELSE p.name]
    BY <1>1, <1>11, <2>1, <2>2, <2>3, Zenon DEF Map!Symbol
  <2> QED BY <2>1, <2>2, <2>3, <2>4 DEF IsCode, VA
<1>15. ASSUME NEW s \in Range(q), s.kind = "Function"
       PROVE  \E p \in OwnFunctions(m) : <<s.address, s.name>> = <<VA(p), p.name>>
  <2>1. PICK j \in 1..k : s = q[j]
    BY <1>13
  <2>2. order[j] \in 1..n /\ order[j] \in mine
    BY <1>7, <1>10
  <2>3. PICK p : p = ps[order[j]]
    OBVIOUS
  <2>4. p \in OwnFunctions(m)
    <3>1. IsCode(p.segment)
      BY <1>14, <1>15, <2>1, <2>3
    <3>2. p \in Range(ps) /\ Map!Bucket(p.name) = m
          /\ ~Map!Internal(SubSeq(p.name, Len(m) + 1, Len(p.name)))
      BY <1>4, <1>5, <2>2, <2>3
    <3> QED BY <1>1, <3>1, <3>2, Zenon DEF OwnFunctions, MapFile
  <2>5. s.address = VA(p) /\ s.name = p.name
    BY <1>14, <1>15, <2>1, <2>3
  <2> QED BY <2>4, <2>5
<1>16. ASSUME NEW p \in OwnFunctions(m)
       PROVE  \E s \in Range(q) : s.kind = "Function" /\ <<s.address, s.name>> = <<VA(p), p.name>>
  <2>1. /\ p \in Range(ps) /\ IsCode(p.segment) /\ Map!Bucket(p.name) = m
        /\ ~Map!Internal(SubSeq(p.name, Len(m) + 1, Len(p.name)))
    BY <1>1, Zenon DEF OwnFunctions, MapFile
  <2>2. PICK i \in 1..n : p = ps[i]
    BY <1>4, <2>1
  <2>3. i \in mine
    BY <1>4, <1>5, <2>1, <2>2
  <2>4. PICK j \in 1..k : i = order[j]
    BY <1>7, <1>10, <2>3
  <2>5. q[j].kind = "Function" /\ q[j].address = VA(p) /\ q[j].name = p.name
    BY <1>14, <2>1, <2>2, <2>4
  <2>6. q[j] \in Range(q)
    BY <1>13
  <2> QED BY <2>5, <2>6
<1>17. FunctionsIn(q) = {<<VA(p), p.name>> : p \in OwnFunctions(m)}
  BY <1>15, <1>16 DEF FunctionsIn
<1> QED BY <1>12, <1>17

\* The lines of a module are those of its tables.
LEMMA LinesTaken ==
    ASSUME ImageOK(program), NEW m
    PROVE  /\ Range(Map!LinesOf(m)) = RowsOfTables({m})
           /\ \A r \in RowsOfTables({m}) : r.offset \in Nat /\ r.line \in Nat
           /\ m \in Map!ModuleNames => RowsOfTables({m}) # {}
PROOF
<1>1. PICK ts : ts = program.map.tables
  OBVIOUS
<1>2. /\ ts \in Seq(Range(ts))
      /\ \A t \in Range(ts) :
           /\ IsSequence(t.lines) /\ t.lines # <<>>
           /\ \A r \in Range(t.lines) : r.offset \in Nat /\ r.line \in Nat
  BY <1>1 DEF ImageOK, IsSequence
<1>3. PICK S : S = {t \in Range(ts) : t.module = m}
  OBVIOUS
<1>4. PICK own : own = Among(ts, S)
  OBVIOUS
<1>5. own \in Seq(Range(ts)) /\ Range(own) = Range(ts) \cap S
  BY <1>2, <1>4, AmongType, AmongRange
<1>6. IsSequence(own)
  BY <1>5, SequenceOver
<1>7. PICK n \in Nat : n = Len(own)
  BY <1>6, SequenceIs
<1>8. DOMAIN own = 1..n /\ Range(own) = {own[i] : i \in 1..n}
  BY <1>6, <1>7, SequenceIs
<1>9. Map!TablesOf(m) = own
  <2>1. own = Map!Among(ts, {t \in Map!Range(ts) : t.module = m})
    BY <1>3, <1>4, SameHelpers
  <2> QED BY <1>1, <2>1, Zenon DEF Map!TablesOf
<1>10. PICK ss : ss = [i \in 1..n |-> own[i].lines]
  OBVIOUS
<1>11. IsSequence(ss) /\ Len(ss) = n
  BY <1>10, SequenceOf
<1>12. \A i \in 1..n : IsSequence(ss[i])
  BY <1>2, <1>5, <1>8, <1>10
<1>13. Range(FlattenSeq(ss)) = UNION {Range(ss[i]) : i \in 1..n}
  BY <1>11, <1>12, FlattenIs
<1>14. Map!LinesOf(m) = FlattenSeq(ss)
  <2>1. Map!FlattenSeq(ss) = FlattenSeq(ss)
    BY SameHelpers
  <2>2. ss = [i \in DOMAIN own |-> own[i].lines]
    BY <1>8, <1>10
  <2> QED BY <1>9, <2>1, <2>2, Zenon DEF Map!LinesOf
<1>15. RowsOfTables({m}) = UNION {Range(t.lines) : t \in S}
  <2>1. {t \in Range(ts) : t.module \in {m}} = S
    BY <1>3
  <2> QED BY <1>1, <2>1, Zenon DEF RowsOfTables, MapFile
<1>16. UNION {Range(ss[i]) : i \in 1..n} = UNION {Range(t.lines) : t \in S}
  <2>1. Range(own) = S
    BY <1>3, <1>5
  <2>2. \A i \in 1..n : own[i] \in S /\ ss[i] = own[i].lines
    BY <1>8, <1>10, <2>1
  <2>3. \A t \in S : \E i \in 1..n : t = own[i]
    BY <1>8, <2>1
  <2> QED BY <2>2, <2>3
<1>17. \A r \in RowsOfTables({m}) : r.offset \in Nat /\ r.line \in Nat
  BY <1>2, <1>3, <1>15
<1>18. ASSUME m \in Map!ModuleNames PROVE RowsOfTables({m}) # {}
  <2>1. PICK t \in Range(ts) : t.module = m
    BY <1>1, <1>18 DEF Map!ModuleNames, Map!Range, Range
  <2>2. t \in S /\ IsSequence(t.lines) /\ t.lines # <<>>
    BY <1>2, <1>3, <2>1
  <2>3. PICK ls : ls = t.lines
    OBVIOUS
  <2>4. PICK c \in Nat : c = Len(ls) /\ Range(ls) = {ls[i] : i \in 1..c} /\ ls \in Seq(Range(ls))
    BY <2>2, <2>3, SequenceIs DEF IsSequence
  <2>5. c # 0
    BY <2>2, <2>3, <2>4
  <2>6. ls[1] \in Range(ls)
    BY <2>4, <2>5
  <2> QED BY <1>15, <2>2, <2>3, <2>6
<1> QED BY <1>13, <1>14, <1>15, <1>16, <1>17, <1>18

\* What a unit can answer, and that it answers what it owes.
Answers(u) ==
    {NameFact(x[1], x[2]) : x \in FunctionsIn(u.symbols)}
    \cup {LineFact(l[1], l[2]) : l \in LinesIn(u.lines)}
UnitTells(u, owed) ==
    /\ u.module \in DOMAIN owed /\ u.lines # <<>>
    /\ \A l \in Range(u.lines) : l.line \in Nat
    /\ \A s \in Range(u.symbols) : s.kind = "Function" => s.address # 0
    /\ Answers(u) = owed[u.module]
\* The units are those that owe something, each once.
UnitsTell(us, owed) ==
    /\ \A i \in DOMAIN us : UnitTells(us[i], owed)
    /\ \A i, j \in DOMAIN us : us[i].module = us[j].module => i = j
    /\ \A m \in DOMAIN owed : \E i \in DOMAIN us : us[i].module = m

\* The answers to the rows of a module.
LEMMA LinesAnswered ==
    ASSUME NEW S, NEW q, IsSequence(q), NEW lines, IsSequence(lines), Range(lines) = S,
           Len(q) = Len(lines),
           \A i \in 1..Len(q) : q[i].address = VA(lines[i]) /\ q[i].line = lines[i].line
    PROVE  {LineFact(l[1], l[2]) : l \in LinesIn(q)} = {LineFact(VA(r), r.line) : r \in S}
PROOF
<1>1. PICK n \in Nat : n = Len(q) /\ n = Len(lines)
  BY SequenceIs
<1>2. Range(q) = {q[i] : i \in 1..n} /\ S = {lines[i] : i \in 1..n}
  BY <1>1, SequenceIs
<1>3. ASSUME NEW l \in LinesIn(q) PROVE \E r \in S : l = <<VA(r), r.line>>
  <2>1. PICK x \in Range(q) : l = <<x.address, x.line>>
    BY DEF LinesIn
  <2>2. PICK i \in 1..n : x = q[i]
    BY <1>2
  <2>3. x.address = VA(lines[i]) /\ x.line = lines[i].line /\ lines[i] \in S
    BY <1>1, <1>2, <2>2
  <2> QED BY <2>1, <2>3
<1>4. ASSUME NEW r \in S PROVE <<VA(r), r.line>> \in LinesIn(q)
  <2>1. PICK i \in 1..n : r = lines[i]
    BY <1>2
  <2>2. q[i].address = VA(r) /\ q[i].line = r.line /\ q[i] \in Range(q)
    BY <1>1, <1>2, <2>1
  <2>3. <<VA(r), r.line>> = <<q[i].address, q[i].line>>
    BY <2>2
  <2> QED BY <2>2, <2>3, Zenon DEF LinesIn
<1>5. ASSUME NEW r \in S, NEW l, l = <<VA(r), r.line>>
      PROVE  LineFact(l[1], l[2]) = LineFact(VA(r), r.line)
  BY <1>5
<1>6. LinesIn(q) = {<<VA(r), r.line>> : r \in S}
  BY <1>3, <1>4
<1>7. ASSUME NEW F, F = {<<VA(r), r.line>> : r \in S}
      PROVE  {LineFact(l[1], l[2]) : l \in F} = {LineFact(VA(r), r.line) : r \in S}
  <2>1. ASSUME NEW l \in F PROVE LineFact(l[1], l[2]) \in {LineFact(VA(r), r.line) : r \in S}
    <3>1. PICK r \in S : l = <<VA(r), r.line>>
      BY <1>7
    <3> QED BY <1>5, <3>1
  <2>2. ASSUME NEW r \in S
        PROVE  LineFact(VA(r), r.line) \in {LineFact(l[1], l[2]) : l \in F}
    <3>1. PICK l : l = <<VA(r), r.line>>
      OBVIOUS
    <3>2. l \in F
      BY <1>7, <3>1
    <3>3. LineFact(l[1], l[2]) = LineFact(VA(r), r.line)
      BY <1>5, <3>1
    <3> QED BY <3>2, <3>3
  <2> QED BY <2>1, <2>2
<1> QED BY <1>6, <1>7

\* The answers to the functions of a module.
LEMMA NamesAnswered ==
    ASSUME NEW ss, NEW S, FunctionsIn(ss) = {<<VA(p), p.name>> : p \in S}
    PROVE  {NameFact(x[1], x[2]) : x \in FunctionsIn(ss)} = {NameFact(VA(p), p.name) : p \in S}
PROOF
<1>1. ASSUME NEW p \in S, NEW x, x = <<VA(p), p.name>>
      PROVE  NameFact(x[1], x[2]) = NameFact(VA(p), p.name)
  BY <1>1
<1> QED BY <1>1

\* A unit that populate() makes can answer what its module owes.
LEMMA UnitTaken ==
    ASSUME ImageOK(program), NEW m \in Map!ModuleNames, NEW files
    PROVE  /\ UnitTells(Untyped(Map!Unit(m, files)), OwedByDwarf)
           /\ Untyped(Map!Unit(m, files)).module = m
PROOF
<1>1. PICK u : u = Map!Unit(m, files)
  OBVIOUS
<1>2. PICK lines : lines = Map!LinesOf(m)
  OBVIOUS
<1>3. PICK S : S = RowsOfTables({m})
  OBVIOUS
<1>4. /\ IsSequence(lines) /\ Range(lines) = S /\ S # {}
      /\ \A r \in S : r.offset \in Nat /\ r.line \in Nat
  BY <1>2, <1>3, LinesPlaced, LinesTaken
<1>5. PICK n \in Nat : n = Len(lines)
  BY <1>4, SequenceIs
<1>6. DOMAIN lines = 1..n /\ S = {lines[i] : i \in 1..n}
  BY <1>4, <1>5, SequenceIs
<1>7. PICK source : source = Head(Map!TablesOf(m)).source
  OBVIOUS
<1>8. PICK q : q = [i \in 1..n |->
        [address |-> Map!ResolveVA(lines[i].segment, lines[i].offset),
         line |-> lines[i].line, file |-> Map!FileId(files, source)]]
  OBVIOUS
<1>9. PICK ss : ss = Map!Symbols(m)
  OBVIOUS
<1>10. u = [module |-> m, source |-> source, symbols |-> ss, lines |-> q]
  BY <1>1, <1>2, <1>6, <1>7, <1>8, <1>9, Zenon DEF Map!Unit
<1>11. IsSequence(q) /\ Len(q) = n
  BY <1>8, SequenceOf
<1>12. Range(q) = {q[i] : i \in 1..n}
  BY <1>11, SequenceIs
<1>13. \A i \in 1..n : q[i].address = VA(lines[i]) /\ q[i].line = lines[i].line
  BY <1>8 DEF VA
<1>14. {LineFact(l[1], l[2]) : l \in LinesIn(q)} = {LineFact(VA(r), r.line) : r \in S}
  BY <1>4, <1>5, <1>11, <1>13, LinesAnswered
<1>15. \A l \in Range(q) : l.line \in Nat
  BY <1>4, <1>6, <1>12, <1>13
<1>16. q # <<>>
  <2>1. n # 0
    BY <1>4, <1>6
  <2> QED BY <1>11, <2>1
<1>17. IsSequence(ss)
  BY <1>9, SymbolsAddressed DEF Addressed
<1>18. PICK k \in Nat : k = Len(ss) /\ DOMAIN ss = 1..k /\ Range(ss) = {ss[i] : i \in 1..k}
  BY <1>17, SequenceIs
<1>19. PICK t : t = [i \in 1..k |->
         [address |-> ss[i].address, kind |-> ss[i].kind, name |-> ss[i].name,
          type |-> NoType, params |-> <<>>, locals |-> <<>>]]
  OBVIOUS
<1>20. PICK v : v = Untyped(u)
  OBVIOUS
<1>21. v = [u EXCEPT !.symbols = t]
  BY <1>10, <1>18, <1>19, <1>20 DEF Untyped
<1>22. v.module = m /\ v.symbols = t /\ v.lines = q
  BY <1>10, <1>21
<1>23. Range(t) = {t[i] : i \in 1..k}
  <2>1. IsSequence(t) /\ Len(t) = k
    BY <1>19, SequenceOf
  <2> QED BY <2>1, SequenceIs
<1>24. \A i \in 1..k : /\ t[i].address = ss[i].address /\ t[i].kind = ss[i].kind
                       /\ t[i].name = ss[i].name
  BY <1>19
<1>25. FunctionsIn(t) = FunctionsIn(ss)
  <2>1. ASSUME NEW s \in Range(t), s.kind = "Function"
        PROVE  <<s.address, s.name>> \in FunctionsIn(ss)
    <3>1. PICK i \in 1..k : s = t[i]
      BY <1>23
    <3>2. /\ ss[i] \in Range(ss) /\ ss[i].kind = "Function"
          /\ <<s.address, s.name>> = <<ss[i].address, ss[i].name>>
      BY <1>18, <1>24, <2>1, <3>1
    <3> QED BY <3>2, Zenon DEF FunctionsIn
  <2>2. ASSUME NEW s \in Range(ss), s.kind = "Function"
        PROVE  <<s.address, s.name>> \in FunctionsIn(t)
    <3>1. PICK i \in 1..k : s = ss[i]
      BY <1>18
    <3>2. /\ t[i] \in Range(t) /\ t[i].kind = "Function"
          /\ <<s.address, s.name>> = <<t[i].address, t[i].name>>
      BY <1>23, <1>24, <2>2, <3>1
    <3> QED BY <3>2, Zenon DEF FunctionsIn
  <2>3. FunctionsIn(t) \subseteq FunctionsIn(ss)
    BY <2>1 DEF FunctionsIn
  <2>4. FunctionsIn(ss) \subseteq FunctionsIn(t)
    BY <2>2 DEF FunctionsIn
  <2> QED BY <2>3, <2>4
<1>26. FunctionsIn(t) = {<<VA(p), p.name>> : p \in OwnFunctions(m)}
  BY <1>9, <1>25, SymbolsTaken
<1>27. \A s \in Range(t) : s.kind = "Function" => s.address # 0
  <2>1. ASSUME NEW s \in Range(t), s.kind = "Function" PROVE s.address # 0
    <3>1. <<s.address, s.name>> \in FunctionsIn(t)
      BY <2>1, Zenon DEF FunctionsIn
    <3>2. PICK p \in OwnFunctions(m) : <<s.address, s.name>> = <<VA(p), p.name>>
      BY <1>26, <3>1
    <3>3. s.address = VA(p)
      BY <3>2
    <3>4. p.offset \in Nat /\ IsCode(p.segment)
      BY DEF OwnFunctions, ImageOK, MapFile
    <3> QED BY <3>3, <3>4, CodePlaced
  <2> QED BY <2>1
<1>28. {NameFact(x[1], x[2]) : x \in FunctionsIn(t)}
         = {NameFact(VA(p), p.name) : p \in OwnFunctions(m)}
  BY <1>26, NamesAnswered
<1>29. /\ DOMAIN OwedByDwarf = Map!ModuleNames
       /\ OwedByDwarf[m] = {NameFact(VA(p), p.name) : p \in OwnFunctions(m)}
                           \cup {LineFact(VA(r), r.line) : r \in S}
  <2>1. OwedByDwarf = [x \in Map!ModuleNames |->
           {NameFact(VA(p), p.name) : p \in OwnFunctions(x)}
           \cup {LineFact(VA(r), r.line) : r \in RowsOfTables({x})}]
    BY Zenon DEF OwedByDwarf, OwnFunctions
  <2> QED BY <1>3, <2>1
<1>30. Answers(v) = OwedByDwarf[m]
  BY <1>14, <1>22, <1>28, <1>29 DEF Answers
<1>31. UnitTells(v, OwedByDwarf)
  BY <1>15, <1>16, <1>22, <1>27, <1>29, <1>30 DEF UnitTells
<1> QED BY <1>1, <1>20, <1>22, <1>31

\* populate() makes one unit for each module that owes something.
LEMMA UnitsTaken ==
    ASSUME ImageOK(program), DwarfPopulate
    PROVE  UnitsTell(units', OwedByDwarf)
PROOF
<1>1. PICK ts : ts = program.map.tables
  OBVIOUS
<1>2. IsSequence(ts)
  BY <1>1 DEF ImageOK, IsSequence
<1>3. PICK k \in Nat : k = Len(ts) /\ DOMAIN ts = 1..k /\ Range(ts) = {ts[i] : i \in 1..k}
  BY <1>2, SequenceIs
<1>4. PICK names : names = [i \in 1..k |-> ts[i].module]
  OBVIOUS
<1>5. IsSequence(names) /\ Range(names) = {names[i] : i \in 1..k}
  <2>1. IsSequence(names) /\ Len(names) = k
    BY <1>4, SequenceOf
  <2> QED BY <2>1, SequenceIs
<1>6. PICK order : order = Distinct(names)
  OBVIOUS
<1>7. IsSequence(order) /\ OneToOne(order) /\ Range(order) = Range(names)
  <2>1. PICK R : R = Range(names)
    OBVIOUS
  <2>2. names \in Seq(R)
    BY <1>5, <2>1 DEF IsSequence
  <2>3. order \in Seq(R) /\ OneToOne(order) /\ Range(order) = Range(names)
    BY <1>6, <2>2, DistinctIs
  <2> QED BY <2>3, SequenceOver
<1>8. PICK n \in Nat : /\ n = Len(order) /\ DOMAIN order = 1..n
                       /\ Range(order) = {order[i] : i \in 1..n}
  BY <1>7, SequenceIs
<1>9. Range(order) = Map!ModuleNames
  <2>1. Map!ModuleNames = {t.module : t \in Range(ts)}
    BY <1>1 DEF Map!ModuleNames, Map!Range, Range
  <2>2. \A i \in 1..k : names[i] = ts[i].module
    BY <1>4
  <2>3. {names[i] : i \in 1..k} = {t.module : t \in Range(ts)}
    BY <1>3, <2>2
  <2> QED BY <1>5, <1>7, <2>1, <2>3
<1>10. PICK files : files = Map!Distinct([i \in DOMAIN order |->
                                            Head(Map!TablesOf(order[i])).source])
  OBVIOUS
<1>11. PICK us : us = [i \in 1..n |-> Map!Unit(order[i], files)]
  OBVIOUS
<1>12. Map!Populated.units = us
  <2>1. order = Map!Distinct([i \in DOMAIN ts |-> ts[i].module])
    BY <1>3, <1>4, <1>6, SameHelpers
  <2>2. Map!Populated = [units |-> us, sourceFiles |-> files]
    BY <1>1, <1>8, <1>10, <1>11, <2>1, Zenon DEF Map!Populated
  <2> QED BY <2>2
<1>13. PICK vs : vs = [i \in 1..n |-> Untyped(us[i])]
  OBVIOUS
<1>14. units' = vs
  <2>1. DOMAIN us = 1..n
    BY <1>11
  <2> QED BY <1>12, <1>13, <2>1 DEF DwarfPopulate
<1>15. ASSUME NEW i \in 1..n PROVE UnitTells(vs[i], OwedByDwarf) /\ vs[i].module = order[i]
  <2>1. order[i] \in Map!ModuleNames
    BY <1>8, <1>9
  <2>2. vs[i] = Untyped(Map!Unit(order[i], files))
    BY <1>11, <1>13
  <2> QED BY <2>1, <2>2, UnitTaken
<1>16. \A i, j \in 1..n : vs[i].module = vs[j].module => i = j
  BY <1>7, <1>8, <1>15 DEF OneToOne
<1>17. DOMAIN OwedByDwarf = Map!ModuleNames
  BY Zenon DEF OwedByDwarf
<1>18. ASSUME NEW m \in DOMAIN OwedByDwarf PROVE \E i \in 1..n : vs[i].module = m
  <2>1. m \in Range(order)
    BY <1>9, <1>17
  <2>2. PICK i \in 1..n : m = order[i]
    BY <1>8, <2>1
  <2> QED BY <1>15, <2>2
<1>19. DOMAIN vs = 1..n
  BY <1>13
<1>20. UnitsTell(vs, OwedByDwarf)
  BY <1>15, <1>16, <1>18, <1>19 DEF UnitsTell
<1> QED BY <1>14, <1>20

\* Types and frames change no answer.
LEMMA UnitsRetold ==
    ASSUME NEW us, UnitsOK(us), NEW vs, NEW new, Replaces(us, vs, new), NEW owed,
           UnitsTell(us, owed),
           \A k \in DOMAIN us : \A i \in DOMAIN us[k].symbols :
             /\ new[k][i].address = us[k].symbols[i].address
             /\ new[k][i].kind = us[k].symbols[i].kind
             /\ new[k][i].name = us[k].symbols[i].name
    PROVE  UnitsTell(vs, owed)
PROOF
<1>1. PICK n \in Nat : n = Len(us)
  BY SequenceIs DEF UnitsOK
<1>2. DOMAIN us = 1..n /\ \A k \in 1..n : UnitOK(us[k])
  BY <1>1, SequenceIs DEF UnitsOK
<1>3. DOMAIN vs = 1..n
  BY <1>2 DEF Replaces
<1>4. ASSUME NEW k \in 1..n
      PROVE  UnitTells(vs[k], owed) /\ vs[k].module = us[k].module
  <2>1. PICK u : u = us[k]
    OBVIOUS
  <2>2. UnitOK(u) /\ UnitTells(u, owed)
    BY <1>2, <2>1 DEF UnitsTell
  <2>3. PICK ss : ss = u.symbols
    OBVIOUS
  <2>4. PICK m \in Nat : m = Len(ss) /\ DOMAIN ss = 1..m /\ Range(ss) = {ss[i] : i \in 1..m}
    BY <2>2, <2>3, SequenceIs DEF UnitOK
  <2>5. PICK q : q = [i \in 1..m |-> new[k][i]]
    OBVIOUS
  <2>6. vs[k] = [u EXCEPT !.symbols = q]
    <3>1. vs[k] = [us[k] EXCEPT !.symbols = [i \in DOMAIN us[k].symbols |-> new[k][i]]]
      BY <1>2 DEF Replaces, UnitOK
    <3> QED BY <2>1, <2>3, <2>4, <2>5, <3>1
  <2>7. vs[k].module = u.module /\ vs[k].symbols = q /\ vs[k].lines = u.lines
    BY <2>2, <2>6 DEF UnitOK
  <2>8. Range(q) = {q[i] : i \in 1..m}
    <3>1. IsSequence(q) /\ Len(q) = m
      BY <2>5, SequenceOf
    <3> QED BY <3>1, SequenceIs
  <2>9. \A i \in 1..m : /\ q[i].address = ss[i].address /\ q[i].kind = ss[i].kind
                        /\ q[i].name = ss[i].name
    BY <1>2, <2>1, <2>3, <2>4, <2>5
  <2>10. ASSUME NEW s \in Range(q), s.kind = "Function"
         PROVE  <<s.address, s.name>> \in FunctionsIn(ss) /\ s.address # 0
    <3>1. PICK i \in 1..m : s = q[i]
      BY <2>8
    <3>2. /\ ss[i] \in Range(ss) /\ ss[i].kind = "Function" /\ s.address = ss[i].address
          /\ <<s.address, s.name>> = <<ss[i].address, ss[i].name>>
      BY <2>4, <2>9, <2>10, <3>1
    <3>3. ss[i].address # 0
      BY <2>2, <2>3, <3>2 DEF UnitTells
    <3>4. <<s.address, s.name>> \in FunctionsIn(ss)
      BY <3>2, Zenon DEF FunctionsIn
    <3> QED BY <3>2, <3>3, <3>4
  <2>11. ASSUME NEW s \in Range(ss), s.kind = "Function"
         PROVE  <<s.address, s.name>> \in FunctionsIn(q)
    <3>1. PICK i \in 1..m : s = ss[i]
      BY <2>4
    <3>2. /\ q[i] \in Range(q) /\ q[i].kind = "Function"
          /\ <<s.address, s.name>> = <<q[i].address, q[i].name>>
      BY <2>8, <2>9, <2>11, <3>1
    <3> QED BY <3>2, Zenon DEF FunctionsIn
  <2>12. FunctionsIn(q) = FunctionsIn(ss)
    <3>1. FunctionsIn(q) \subseteq FunctionsIn(ss)
      BY <2>10 DEF FunctionsIn
    <3>2. FunctionsIn(ss) \subseteq FunctionsIn(q)
      BY <2>11 DEF FunctionsIn
    <3> QED BY <3>1, <3>2
  <2>13. Answers(vs[k]) = Answers(u)
    BY <2>3, <2>7, <2>12 DEF Answers
  <2> QED BY <2>1, <2>2, <2>7, <2>10, <2>13 DEF UnitTells
<1> QED BY <1>2, <1>3, <1>4 DEF UnitsTell

\* Decorate and Compose change neither address, kind nor name.
LEMMA DecoratedSame ==
    ASSUME NEW u, NEW s, SymbolOK(s)
    PROVE  /\ Decorated(u, s).address = s.address /\ Decorated(u, s).kind = s.kind
           /\ Decorated(u, s).name = s.name
PROOF
<1>1. PICK t, a, b : /\ t = GlobalType(u, s)
                     /\ a = Slots(u, Rsm.procedures[ProcedureAt(s.address)].params)
                     /\ b = Slots(u, Rsm.procedures[ProcedureAt(s.address)].locals)
  OBVIOUS
<1>2. \/ Decorated(u, s) = [s EXCEPT !.type = t]
      \/ Decorated(u, s) = [s EXCEPT !.params = a, !.locals = b]
      \/ Decorated(u, s) = s
  BY <1>1, Zenon DEF Decorated
<1> QED BY <1>2 DEF SymbolOK

\* The same of a symbol with its frame.
LEMMA ComposedSame ==
    ASSUME NEW s, SymbolOK(s), NEW firstOfTwo
    PROVE  /\ Composed(s, firstOfTwo).address = s.address /\ Composed(s, firstOfTwo).kind = s.kind
           /\ Composed(s, firstOfTwo).name = s.name
PROOF
<1>1. PICK own : own = FrameOf(s, firstOfTwo)
  OBVIOUS
<1>2. PICK a, b : a = InFrame(s.params, Params(own)) /\ b = InFrame(s.locals, Locals(own))
  OBVIOUS
<1>3. \/ Composed(s, firstOfTwo) = s
      \/ Composed(s, firstOfTwo) = [s EXCEPT !.params = a, !.locals = b]
  BY <1>1, <1>2 DEF Composed, SymbolOK
<1> QED BY <1>3 DEF SymbolOK

\* What is owed stays while the program does.
LEMMA OwedStays == ASSUME program' = program PROVE OwedByDwarf' = OwedByDwarf
PROOF
<1>1. Map!ModuleNames' = Map!ModuleNames
  BY DEF Map!ModuleNames, Map!Range
<1>2. ASSUME NEW id PROVE Map!Listed(id)' = Map!Listed(id)
  BY DEF Map!Listed, Map!Range
<1>3. ASSUME NEW id PROVE Map!SegmentOf(id)' = Map!SegmentOf(id)
  BY <1>2 DEF Map!SegmentOf
<1>4. ASSUME NEW id, NEW o PROVE Map!ResolveVA(id, o)' = Map!ResolveVA(id, o)
  BY <1>2, <1>3 DEF Map!ResolveVA
<1>5. ASSUME NEW r PROVE VA(r)' = VA(r)
  BY <1>4 DEF VA
<1>6. ASSUME NEW id PROVE IsCode(id)' = IsCode(id)
  BY <1>2, <1>3 DEF IsCode, Map!KindIn
<1>7. ASSUME NEW name PROVE Map!PrefixLengths(name)' = Map!PrefixLengths(name)
  BY <1>1 DEF Map!PrefixLengths
<1>8. ASSUME NEW name PROVE Map!Bucket(name)' = Map!Bucket(name)
  BY <1>7 DEF Map!Bucket
<1>9. ASSUME NEW m PROVE OwnFunctions(m)' = OwnFunctions(m)
  <2>1. ASSUME NEW local PROVE Map!Internal(local)' <=> Map!Internal(local)
    BY Zenon DEF Map!Internal
  <2>2. PICK ps : ps = Range(program.map.publics)
    OBVIOUS
  <2>3. OwnFunctions(m) = {p \in ps :
          /\ IsCode(p.segment) /\ Map!Bucket(p.name) = m
          /\ ~Map!Internal(SubSeq(p.name, Len(m) + 1, Len(p.name)))}
    BY <2>2, Zenon DEF OwnFunctions, MapFile
  <2>4. OwnFunctions(m)' = {p \in ps :
          /\ IsCode(p.segment)' /\ Map!Bucket(p.name)' = m
          /\ ~Map!Internal(SubSeq(p.name, Len(m) + 1, Len(p.name)))'}
    BY <2>2, Zenon DEF OwnFunctions, MapFile
  <2> QED BY <1>6, <1>8, <2>1, <2>3, <2>4
<1>10. ASSUME NEW m PROVE RowsOfTables({m})' = RowsOfTables({m})
  BY DEF RowsOfTables, MapFile
<1>11. ASSUME NEW m
       PROVE  ({NameFact(VA(p), p.name) : p \in OwnFunctions(m)}
                 \cup {LineFact(VA(r), r.line) : r \in RowsOfTables({m})})'
                = {NameFact(VA(p), p.name) : p \in OwnFunctions(m)}
                  \cup {LineFact(VA(r), r.line) : r \in RowsOfTables({m})}
  <2>1. PICK F, R : F = OwnFunctions(m) /\ R = RowsOfTables({m})
    OBVIOUS
  <2>2. {NameFact(VA(p), p.name) : p \in OwnFunctions(m)}'
          = {NameFact(VA(p)', p.name) : p \in F}
    BY <1>9, <2>1, Zenon
  <2>3. {LineFact(VA(r), r.line) : r \in RowsOfTables({m})}'
          = {LineFact(VA(r)', r.line) : r \in R}
    BY <1>10, <2>1, Zenon
  <2>4. {NameFact(VA(p)', p.name) : p \in F} = {NameFact(VA(p), p.name) : p \in F}
    BY <1>5
  <2>5. {LineFact(VA(r)', r.line) : r \in R} = {LineFact(VA(r), r.line) : r \in R}
    BY <1>5
  <2> QED BY <2>1, <2>2, <2>3, <2>4, <2>5
<1>12. OwedByDwarf = [m \in Map!ModuleNames |->
          {NameFact(VA(p), p.name) : p \in OwnFunctions(m)}
            \cup {LineFact(VA(r), r.line) : r \in RowsOfTables({m})}]
  BY Zenon DEF OwedByDwarf, OwnFunctions
<1>13. OwedByDwarf' = [m \in Map!ModuleNames |->
          {NameFact(VA(p), p.name) : p \in OwnFunctions(m)}
            \cup {LineFact(VA(r), r.line) : r \in RowsOfTables({m})}]'
  BY Zenon DEF OwedByDwarf, OwnFunctions
<1> QED BY <1>1, <1>11, <1>12, <1>13

-----------------------------------------------------------------------------
(* What the sections answer.                                               *)

\* The functions that start somewhere, the rows of the line programs.
NamesSaid(d)  == {NameFact(x[1], x[2]) : x \in Starts(d)}
RowsSaid(p)   == {LineFact(r.at, r.line) : r \in RowsIn(p)}
LinesSaid(lp) == UNION {RowsSaid(p) : p \in Range(lp)}
DwarfSaid(d, lp) == NamesSaid(d) \cup LinesSaid(lp)
AsSaid == DwarfAnswers = DwarfSaid(info, linePrograms)

\* The codes of the elements.
LEMMA CodesAre ==
    ASSUME NEW d, NEW lp, Structured(d, lp), NEW i \in 1..Len(d)
    PROVE  d[i].code = Header \/ d[i].code \in 0..10
PROOF
<1>1. PICK n \in Nat : n = Len(d)
  BY SequenceIs DEF Structured
<1>2. PICK h \in HeadersIn(d) : h <= i /\ i <= EndOf(d, h)
  BY DEF Structured
<1>3. PICK e : e = EndOf(d, h)
  OBVIOUS
<1>4. CompleteUnit(d, lp, h, 0) /\ h \in 1..n
  BY <1>1, <1>2 DEF Structured, HeadersIn
<1>5. /\ d[h].code = Header /\ e \in (h + 1)..n /\ d[h + 1].code = 1
      /\ \A k \in (h + 2)..e : d[k].code \in 0..10
  BY <1>1, <1>3, <1>4 DEF CompleteUnit, UnitElementOK, ElementOK
<1>6. i = h \/ i = h + 1 \/ i \in (h + 2)..e
  BY <1>1, <1>2, <1>3, <1>4, <1>5
<1> QED BY <1>5, <1>6

\* The debugger's subprograms are the elements with their codes.
LEMMA AnswersAre == Inv => AsSaid
PROOF
<1> SUFFICES ASSUME Inv PROVE AsSaid
  OBVIOUS
<1>1. PICK d, lp : d = info /\ lp = linePrograms
  OBVIOUS
<1>2. Structured(d, lp) /\ IsSequence(d)
  BY <1>1 DEF Inv, Structured
<1>3. PICK n \in Nat : n = Len(d) /\ DOMAIN d = 1..n /\ Range(d) = {d[i] : i \in 1..n}
  BY <1>2, SequenceIs
<1>4. PICK D : D = DIEsOf("subprogram")
  OBVIOUS
<1>5. ASSUME NEW i \in 1..n PROVE i \in D <=> d[i].code \in Subprograms
  <2>1. i \in D <=> d[i].code > 0 /\ Abbreviations[d[i].code].tag = "subprogram"
    BY <1>1, <1>3, <1>4 DEF DIEsOf
  <2>2. CASE d[i].code = Header
    BY <2>1, <2>2 DEF Header, Subprograms
  <2>3. CASE d[i].code \in 0..10
    BY <2>1, <2>3, Tagged
  <2> QED BY <1>2, <1>3, <2>2, <2>3, CodesAre
<1>6. D \subseteq 1..n
  BY <1>1, <1>3, <1>4 DEF DIEsOf
<1>7. PICK N : N = {NameFact(Low(i), Attribute(info[i], "name")) : i \in D}
  OBVIOUS
<1>8. ASSUME NEW x PROVE NameFact(StartOf(x)[1], StartOf(x)[2]) = NameFact(LowOf(x), NameOf(x))
  BY DEF StartOf
<1>9. N = {NameFact(LowOf(d[i]), NameOf(d[i])) : i \in D}
  BY <1>1, <1>7 DEF Low, LowOf, NameOf
<1>10. NamesSaid(d) \subseteq N
  <2>1. ASSUME NEW x \in Starts(d) PROVE NameFact(x[1], x[2]) \in N
    <3>1. PICK y \in Range(d) : y.code \in Subprograms /\ x = StartOf(y)
      BY DEF Starts
    <3>2. PICK i \in 1..n : y = d[i]
      BY <1>3
    <3>3. i \in D
      BY <1>5, <3>1, <3>2
    <3> QED BY <1>8, <1>9, <3>1, <3>2, <3>3
  <2> QED BY <2>1 DEF NamesSaid
<1>11. N \subseteq NamesSaid(d)
  <2>1. ASSUME NEW i \in D PROVE NameFact(LowOf(d[i]), NameOf(d[i])) \in NamesSaid(d)
    <3>1. i \in 1..n /\ d[i] \in Range(d) /\ d[i].code \in Subprograms
      BY <1>3, <1>5, <1>6
    <3>2. StartOf(d[i]) \in Starts(d)
      BY <3>1 DEF Starts
    <3>3. NameFact(StartOf(d[i])[1], StartOf(d[i])[2]) \in NamesSaid(d)
      BY <3>2, Zenon DEF NamesSaid
    <3> QED BY <1>8, <3>3
  <2> QED BY <1>9, <2>1
<1>12. DwarfAnswers = N \cup LinesSaid(lp)
  BY <1>1, <1>4, <1>7, Zenon DEF DwarfAnswers, LinesSaid, RowsSaid
<1> QED BY <1>1, <1>10, <1>11, <1>12 DEF AsSaid, DwarfSaid

\* A unit with its line program adds what its module owes.
LEMMA UnitSaid ==
    ASSUME NEW u, UnitOK(u), NEW owed, UnitTells(u, owed), NEW d, IsSequence(d),
           NEW lp, IsSequence(lp)
    PROVE  DwarfSaid(d \o CompileUnit(u, Len(d), Len(lp)), Append(lp, LineProgram(u)))
             = DwarfSaid(d, lp) \cup owed[u.module]
PROOF
<1>1. PICK at \in Nat : at = Len(d)
  BY SequenceIs
<1>2. PICK c : c = CompileUnit(u, at, Len(lp))
  OBVIOUS
<1>3. IsSequence(c) /\ Starts(c) = PlacedStarts(u)
  BY <1>2, UnitStarts
<1>4. Range(d \o c) = Range(d) \cup Range(c)
  BY <1>3, ConcatJoins DEF Joined
<1>5. Starts(d \o c) = Starts(d) \cup Starts(c)
  BY <1>4, StartsJoin
<1>6. PlacedStarts(u) = FunctionsIn(u.symbols)
  <2>1. ASSUME NEW s \in Range(u.symbols), s.kind = "Function" PROVE Placed(u, s)
    BY <2>1, FunctionsPlaced DEF UnitTells
  <2>2. \A s \in Range(u.symbols) : Placed(u, s) <=> s.kind = "Function"
    BY <2>1 DEF Placed
  <2> QED BY <2>2 DEF PlacedStarts, FunctionsIn
<1>7. PICK F : F = FunctionsIn(u.symbols)
  OBVIOUS
<1>8. NamesSaid(d \o c) = NamesSaid(d) \cup {NameFact(x[1], x[2]) : x \in F}
  <2>1. PICK S : S = Starts(d)
    OBVIOUS
  <2>2. Starts(d \o c) = S \cup F
    BY <1>3, <1>5, <1>6, <1>7, <2>1
  <2> QED BY <2>1, <2>2 DEF NamesSaid
<1>9. PICK p : p = LineProgram(u)
  OBVIOUS
<1>10. RowsIn(p) = {TheRow(l.address, l.line) : l \in Range(u.lines)}
  <2>1. LinesOK(u.lines)
    BY DEF LinesOK, UnitOK, UnitTells
  <2> QED BY <1>9, <2>1, ProgramRead
<1>11. RowsSaid(p) = {LineFact(l[1], l[2]) : l \in LinesIn(u.lines)}
  <2>1. PICK L : L = Range(u.lines)
    OBVIOUS
  <2>2. ASSUME NEW l PROVE /\ TheRow(l.address, l.line).at = l.address
                           /\ TheRow(l.address, l.line).line = l.line
    BY DEF TheRow
  <2>3. RowsSaid(p) = {LineFact(l.address, l.line) : l \in L}
    <3>1. ASSUME NEW R, R = {TheRow(l.address, l.line) : l \in L}
          PROVE  {LineFact(r.at, r.line) : r \in R} = {LineFact(l.address, l.line) : l \in L}
      BY <2>2, <3>1
    <3> QED BY <1>10, <2>1, <3>1, Zenon DEF RowsSaid
  <2>4. ASSUME NEW l PROVE LineFact(<<l.address, l.line>>[1], <<l.address, l.line>>[2])
                           = LineFact(l.address, l.line)
    OBVIOUS
  <2>5. {LineFact(l[1], l[2]) : l \in LinesIn(u.lines)} = {LineFact(l.address, l.line) : l \in L}
    <3>1. ASSUME NEW R, R = {<<l.address, l.line>> : l \in L}
          PROVE  {LineFact(r[1], r[2]) : r \in R} = {LineFact(l.address, l.line) : l \in L}
      BY <2>4, <3>1
    <3> QED BY <2>1, <3>1, Zenon DEF LinesIn
  <2> QED BY <2>3, <2>5
<1>12. Range(Append(lp, p)) = Range(lp) \cup {p}
  <2>1. PICK R : R = Range(lp) \cup {p}
    OBVIOUS
  <2>2. lp \in Seq(R) /\ p \in R
    BY <2>1, SequenceIs
  <2> QED BY <2>1, <2>2, RangeAppend
<1>13. LinesSaid(Append(lp, p)) = LinesSaid(lp) \cup RowsSaid(p)
  BY <1>12 DEF LinesSaid
<1>14. Answers(u) = owed[u.module]
  BY DEF UnitTells
<1> QED BY <1>1, <1>2, <1>7, <1>8, <1>9, <1>11, <1>13, <1>14 DEF DwarfSaid, Answers

-----------------------------------------------------------------------------
(* The `dwarf' command unit by unit.                                       *)

\* Unit by unit: what has been said is what the emitted units owe.
Told ==
    command = "dwarf" =>
      /\ \A m \in DOMAIN promised.owed : promised.owed[m] \subseteq promised.facts
      /\ emitted <= Len(units)
      /\ phase \in {"populate", "decorate", "compose"} => emitted = 0
      /\ phase = "populate" => units = <<>> /\ promised.owed = OwedByDwarf
      /\ phase # "populate" => UnitsTell(units, promised.owed)
      /\ phase = "done" => emitted = Len(units)
      /\ DwarfSaid(info, linePrograms)
           = UNION {promised.owed[units[i].module] : i \in 1..emitted}

\* What is owed is true.
LEMMA OwedTrue ==
    ASSUME NEW m \in DOMAIN OwedByDwarf
    PROVE  OwedByDwarf[m] \subseteq Facts
PROOF
<1>1. PICK P, R, T : /\ P = {NameFact(VA(p), p.name) : p \in CodePublics}
                     /\ R = {LineFact(VA(r), r.line) : r \in RowsOfTables(Map!ModuleNames)}
                     /\ T = UNION {ThunkFacts(t) : t \in program.truth.thunks}
  OBVIOUS
<1>2. Facts = P \cup R \cup T
  BY <1>1, Zenon DEF Facts
<1>3. OwedByDwarf = [x \in Map!ModuleNames |->
         {NameFact(VA(p), p.name) : p \in OwnFunctions(x)}
         \cup {LineFact(VA(r), r.line) : r \in RowsOfTables({x})}]
  BY Zenon DEF OwedByDwarf, OwnFunctions
<1>4. m \in Map!ModuleNames
  BY <1>3
<1>5. OwnFunctions(m) \subseteq CodePublics
  <2>1. \A p \in OwnFunctions(m) : p \in Range(MapFile.publics) /\ IsCode(p.segment)
    BY Zenon DEF OwnFunctions
  <2> QED BY <2>1 DEF CodePublics
<1>6. RowsOfTables({m}) \subseteq RowsOfTables(Map!ModuleNames)
  BY <1>4 DEF RowsOfTables
<1>7. {NameFact(VA(p), p.name) : p \in OwnFunctions(m)} \subseteq P
  BY <1>1, <1>5
<1>8. {LineFact(VA(r), r.line) : r \in RowsOfTables({m})} \subseteq R
  BY <1>1, <1>6
<1> QED BY <1>2, <1>3, <1>4, <1>7, <1>8

\* Before anything is emitted.
LEMMA ToldFirst == Init => Told
PROOF
<1> SUFFICES ASSUME Init, command = "dwarf" PROVE Told
  BY DEF Told
<1>1. /\ phase = "populate" /\ promised = Promised("dwarf")
      /\ units = <<>> /\ emitted = 0 /\ info = <<>> /\ linePrograms = <<>>
  BY Zenon DEF Init, dwarfEmpty
<1>2. promised.owed = OwedByDwarf /\ promised.facts = Facts
  BY <1>1 DEF Promised
<1>3. PICK z : z = <<>> /\ Range(z) = {} /\ Len(z) = 0
  <2>1. PICK y : y = <<>>
    OBVIOUS
  <2> QED BY <2>1 DEF Range
<1>4. DwarfSaid(z, z) = {}
  <2>1. Starts(z) = {}
    BY <1>3 DEF Starts
  <2>2. NamesSaid(z) = {}
    BY <2>1 DEF NamesSaid
  <2>3. LinesSaid(z) = {}
    BY <1>3 DEF LinesSaid
  <2> QED BY <2>2, <2>3 DEF DwarfSaid
<1>5. DwarfSaid(info, linePrograms) = {}
  BY <1>1, <1>3, <1>4
<1>6. 1..emitted = {}
  BY <1>1
<1>7. \A m \in DOMAIN promised.owed : promised.owed[m] \subseteq promised.facts
  BY <1>2, OwedTrue
<1>8. emitted <= Len(units)
  BY <1>1, <1>3
<1> QED BY <1>1, <1>2, <1>5, <1>6, <1>7, <1>8 DEF Told

\* The modules of the units emitted; a step that adds none, and one that adds one
\* with all it owes.
Published == {units[i].module : i \in 1..emitted}
Quiet ==
    Published' = Published /\ DwarfSaid(info', linePrograms') = DwarfSaid(info, linePrograms)
Publishes ==
    \E m \in DOMAIN promised.owed \ Published :
      /\ Published' = Published \cup {m}
      /\ DwarfSaid(info', linePrograms') = DwarfSaid(info, linePrograms) \cup promised.owed[m]

\* populate().
LEMMA PopulateTells ==
    ASSUME Inv, Told, command = "dwarf", DwarfPopulate,
           UNCHANGED <<program, command, promised>>
    PROVE  Told' /\ Quiet
PROOF
<1>1. /\ phase = "populate" /\ phase' \in {"decorate", "emit"}
      /\ emitted' = emitted /\ info' = info /\ linePrograms' = linePrograms
  BY DEF DwarfPopulate
<1>2. emitted = 0 /\ promised.owed = OwedByDwarf
  BY <1>1 DEF Told
<1>3. ImageOK(program)
  BY ProgramsAssumption DEF Inv
<1>4. UnitsTell(units', promised.owed)
  BY <1>2, <1>3, UnitsTaken
<1>5. PICK us : us = units'
  OBVIOUS
<1>6. 0 <= Len(us)
  <2>1. UnitsOK(us)
    BY <1>5, PopulateSafe DEF Inv
  <2>2. PICK n \in Nat : n = Len(us)
    BY <2>1, SequenceIs DEF UnitsOK
  <2> QED BY <2>2
<1>7. 1..0 = {}
  OBVIOUS
<1>8. DwarfSaid(info, linePrograms) = {}
  <2>1. DwarfSaid(info, linePrograms) = UNION {promised.owed[units[i].module] : i \in 1..emitted}
    BY DEF Told
  <2> QED BY <1>2, <1>7, <2>1
<1>9. UNION {promised.owed[us[i].module] : i \in 1..0} = {} /\ {us[i].module : i \in 1..0} = {}
      /\ {units[i].module : i \in 1..0} = {}
  BY <1>7
<1>10. Quiet
  BY <1>1, <1>2, <1>5, <1>9 DEF Quiet, Published
<1>11. Told'
  BY <1>1, <1>2, <1>4, <1>5, <1>6, <1>8, <1>9 DEF Told
<1> QED BY <1>10, <1>11

\* A step that gives the symbols types or frames.
LEMMA RetoldTells ==
    ASSUME Inv, Told, command = "dwarf", UNCHANGED <<command, promised>>,
           phase \in {"decorate", "compose"}, phase' \in {"compose", "emit"},
           UNCHANGED <<emitted, info, linePrograms>>,
           NEW new, Replaces(units, units', new),
           \A k \in DOMAIN units : \A i \in DOMAIN units[k].symbols :
             /\ new[k][i].address = units[k].symbols[i].address
             /\ new[k][i].kind = units[k].symbols[i].kind
             /\ new[k][i].name = units[k].symbols[i].name
    PROVE  Told' /\ Quiet
PROOF
<1>1. PICK us, vs : us = units /\ vs = units'
  OBVIOUS
<1>2. emitted = 0 /\ UnitsTell(us, promised.owed) /\ UnitsOK(us)
  BY <1>1 DEF Told, Inv
<1>3. UnitsTell(vs, promised.owed)
  BY <1>1, <1>2, UnitsRetold
<1>4. 0 <= Len(vs)
  <2>1. PICK n \in Nat : n = Len(us) /\ DOMAIN us = 1..n
    BY <1>2, SequenceIs DEF UnitsOK
  <2>2. PICK f : f = [k \in 1..n |-> vs[k]]
    OBVIOUS
  <2>3. vs = f
    BY <1>1, <2>1, <2>2 DEF Replaces
  <2>4. Len(f) = n
    BY <2>2, SequenceOf
  <2> QED BY <2>3, <2>4
<1>5. 1..0 = {}
  OBVIOUS
<1>6. DwarfSaid(info, linePrograms) = {}
  <2>1. DwarfSaid(info, linePrograms) = UNION {promised.owed[units[i].module] : i \in 1..emitted}
    BY DEF Told
  <2> QED BY <1>2, <1>5, <2>1
<1>7. UNION {promised.owed[vs[i].module] : i \in 1..0} = {} /\ {vs[i].module : i \in 1..0} = {}
      /\ {us[i].module : i \in 1..0} = {}
  BY <1>5
<1>8. Quiet
  BY <1>1, <1>2, <1>7 DEF Quiet, Published
<1>9. Told'
  BY <1>1, <1>2, <1>3, <1>4, <1>6, <1>7 DEF Told
<1> QED BY <1>8, <1>9

\* The types.
LEMMA DecorateTells ==
    ASSUME Inv, Told, command = "dwarf", Decorate, UNCHANGED <<program, command, promised>>
    PROVE  Told' /\ Quiet
PROOF
<1>1. PICK us : us = units
  OBVIOUS
<1>2. PICK new : new = [k \in DOMAIN us |-> [i \in DOMAIN us[k].symbols |->
                          Decorated(k, us[k].symbols[i])]]
  OBVIOUS
<1>3. ASSUME NEW k \in DOMAIN us, NEW i \in DOMAIN us[k].symbols
      PROVE  /\ new[k][i].address = us[k].symbols[i].address
             /\ new[k][i].kind = us[k].symbols[i].kind
             /\ new[k][i].name = us[k].symbols[i].name
  <2>1. UnitOK(us[k])
    BY <1>1 DEF Inv, UnitsOK, Range
  <2>2. SymbolOK(us[k].symbols[i])
    BY <2>1 DEF UnitOK, Range
  <2> QED BY <1>2, <2>2, DecoratedSame
<1>4. Replaces(us, units', new)
  BY <1>1, <1>2 DEF Decorate, EachSymbol, Replaces
<1>5. /\ phase = "decorate" /\ phase' = "compose"
      /\ UNCHANGED <<emitted, info, linePrograms>>
  BY DEF Decorate
<1> QED BY <1>1, <1>3, <1>4, <1>5, RetoldTells

\* The frames.
LEMMA ComposeTells ==
    ASSUME Inv, Told, command = "dwarf", Compose, UNCHANGED <<program, command, promised>>
    PROVE  Told' /\ Quiet
PROOF
<1>1. PICK us : us = units
  OBVIOUS
<1>2. PICK early : units' = [u \in DOMAIN units |-> [units[u] EXCEPT
        !.symbols = [i \in DOMAIN @ |-> Composed(@[i], @[i] \in early)]]]
  BY DEF Compose, EachSymbol
<1>3. PICK new : new = [k \in DOMAIN us |-> [i \in DOMAIN us[k].symbols |->
                    Composed(us[k].symbols[i], us[k].symbols[i] \in early)]]
  OBVIOUS
<1>4. ASSUME NEW k \in DOMAIN us, NEW i \in DOMAIN us[k].symbols
      PROVE  /\ new[k][i].address = us[k].symbols[i].address
             /\ new[k][i].kind = us[k].symbols[i].kind
             /\ new[k][i].name = us[k].symbols[i].name
  <2>1. UnitOK(us[k])
    BY <1>1 DEF Inv, UnitsOK, Range
  <2>2. SymbolOK(us[k].symbols[i])
    BY <2>1 DEF UnitOK, Range
  <2> QED BY <1>3, <2>2, ComposedSame
<1>5. Replaces(us, units', new)
  BY <1>1, <1>2, <1>3 DEF Replaces
<1>6. /\ phase = "compose" /\ phase' = "emit"
      /\ UNCHANGED <<emitted, info, linePrograms>>
  BY DEF Compose, EachSymbol
<1> QED BY <1>1, <1>4, <1>5, <1>6, RetoldTells

\* emit(), one unit.
LEMMA EmitTells ==
    ASSUME Inv, Told, command = "dwarf", EmitUnit, UNCHANGED <<program, command, promised>>
    PROVE  Told' /\ Publishes
PROOF
<1>1. PICK us, d, lp, owed, e : /\ us = units /\ d = info /\ lp = linePrograms
                                /\ owed = promised.owed /\ e = emitted
  OBVIOUS
<1>2. e \in Nat
  BY <1>1 DEF Inv
<1>3. /\ phase = "emit" /\ phase' = "emit" /\ e < Len(us)
      /\ emitted' = e + 1 /\ units' = us
  BY <1>1 DEF EmitUnit
<1>4. UnitsOK(us) /\ UnitsTell(us, owed) /\ IsSequence(d) /\ IsSequence(lp)
  BY <1>1, <1>3 DEF Told, Inv, Structured
<1>5. PICK n \in Nat : n = Len(us) /\ DOMAIN us = 1..n /\ Range(us) = {us[i] : i \in 1..n}
  BY <1>4, SequenceIs DEF UnitsOK
<1>6. e + 1 \in 1..n
  BY <1>3, <1>5, <1>2
<1>7. PICK u : u = us[e + 1]
  OBVIOUS
<1>8. UnitOK(u) /\ UnitTells(u, owed)
  BY <1>4, <1>5, <1>6, <1>7 DEF UnitsOK, UnitsTell
<1>9. info' = d \o CompileUnit(u, Len(d), Len(lp)) /\ linePrograms' = Append(lp, LineProgram(u))
  <2>1. u.lines # <<>>
    BY <1>8 DEF UnitTells
  <2> QED BY <1>1, <1>7, <2>1 DEF EmitUnit
<1>10. PICK m : m = u.module
  OBVIOUS
<1>11. DwarfSaid(info', linePrograms') = DwarfSaid(d, lp) \cup owed[m]
  BY <1>4, <1>8, <1>9, <1>10, UnitSaid
<1>12. m \in DOMAIN owed
  BY <1>8, <1>10 DEF UnitTells
<1>13. \A i, j \in 1..n : us[i].module = us[j].module => i = j
  BY <1>4, <1>5 DEF UnitsTell
<1>14. 1..(e + 1) = (1..e) \cup {e + 1} /\ \A i \in 1..e : i \in 1..n /\ i # e + 1
  BY <1>5, <1>6, <1>2
<1>15. m \notin {us[i].module : i \in 1..e}
  BY <1>6, <1>7, <1>10, <1>13, <1>14
<1>16. {us[i].module : i \in 1..(e + 1)} = {us[i].module : i \in 1..e} \cup {m}
  BY <1>7, <1>10, <1>14
<1>17. Publishes
  <2>1. Published = {us[i].module : i \in 1..e}
    BY <1>1, Zenon DEF Published
  <2>2. Published' = {us[i].module : i \in 1..(e + 1)}
    BY <1>3, Zenon DEF Published
  <2>3. m \in DOMAIN promised.owed \ Published /\ Published' = Published \cup {m}
    BY <1>1, <1>12, <1>15, <1>16, <2>1, <2>2
  <2>4. DwarfSaid(info', linePrograms') = DwarfSaid(info, linePrograms) \cup promised.owed[m]
    BY <1>1, <1>11
  <2> QED BY <2>3, <2>4, Zenon DEF Publishes
<1>18. UNION {owed[us[i].module] : i \in 1..(e + 1)}
         = (UNION {owed[us[i].module] : i \in 1..e}) \cup owed[m]
  <2>1. PICK said : said = [i \in 1..n |-> owed[us[i].module]]
    OBVIOUS
  <2>2. said[e + 1] = owed[m] /\ \A i \in 1..(e + 1) : said[i] = owed[us[i].module]
    BY <1>6, <1>7, <1>10, <1>14, <2>1
  <2>3. UNION {said[i] : i \in 1..(e + 1)} = (UNION {said[i] : i \in 1..e}) \cup said[e + 1]
    BY <1>14
  <2> QED BY <1>14, <2>2, <2>3
<1>19. DwarfSaid(info', linePrograms') = UNION {owed[us[i].module] : i \in 1..(e + 1)}
  <2>1. DwarfSaid(d, lp) = UNION {owed[us[i].module] : i \in 1..e}
    BY <1>1 DEF Told
  <2> QED BY <1>11, <1>18, <2>1
<1>20. Told'
  BY <1>1, <1>3, <1>4, <1>5, <1>6, <1>19 DEF Told
<1> QED BY <1>17, <1>20

\* Every step of the command adds no unit or one with all it owes.
LEMMA DwarfStepTells ==
    ASSUME Inv, Told, DwarfCommand
    PROVE  /\ Told' /\ (Quiet \/ Publishes)
           /\ UNCHANGED <<program, command, promised>>
PROOF
<1>1. command = "dwarf" /\ DwarfNext /\ UNCHANGED <<program, command, promised>>
  BY Zenon DEF DwarfCommand, DwarfNext
<1>2. CASE DwarfPopulate
  BY <1>1, <1>2, PopulateTells
<1>3. CASE Decorate
  BY <1>1, <1>3, DecorateTells
<1>4. CASE Compose
  BY <1>1, <1>4, ComposeTells
<1>5. CASE EmitUnit
  BY <1>1, <1>5, EmitTells
<1>6. CASE NoUnits \/ DwarfFinish
  <2>1. /\ phase = "emit" /\ phase' \in {"failed", "done"} /\ UNCHANGED dwarfVars
        /\ phase' = "done" => emitted = Len(units)
    BY <1>6 DEF NoUnits, DwarfFinish
  <2>2. UNCHANGED <<units, emitted, info, linePrograms>>
    BY <2>1 DEF dwarfVars
  <2>3. Quiet
    BY <2>2 DEF Quiet, Published
  <2>4. Told'
    BY <1>1, <2>1, <2>2 DEF Told
  <2> QED BY <1>1, <2>3, <2>4
<1> QED BY <1>1, <1>2, <1>3, <1>4, <1>5, <1>6 DEF DwarfNext

\* A step that changes nothing.
LEMMA StutterTells ==
    ASSUME Told, UNCHANGED vars
    PROVE  Told'
PROOF
<1>1. /\ phase' = phase /\ command' = command /\ program' = program /\ promised' = promised
      /\ UNCHANGED <<units, emitted, info, linePrograms>>
  BY DEF vars, dwarfVars
<1>2. OwedByDwarf' = OwedByDwarf
  BY <1>1, OwedStays
<1>3. PICK us, owed : us = units /\ owed = promised.owed
  OBVIOUS
<1>4. units' = us /\ promised'.owed = owed
  BY <1>1, <1>3
<1> QED BY <1>1, <1>2, <1>3, <1>4 DEF Told

\* Told holds throughout.
LEMMA ToldSafe == Spec => []Told
PROOF
<1>1. Init => Told
  BY ToldFirst
<1>2. Inv /\ Told /\ [Next]_vars => Told'
  <2>1. ASSUME Pdb PROVE Told'
    <3>1. command' = "pdb"
      BY <2>1, Zenon DEF Pdb
    <3> QED BY <3>1 DEF Told
  <2>2. ASSUME Told, Exited PROVE Told'
    BY <2>2, StutterTells DEF Exited
  <2> QED BY <2>1, <2>2, DwarfStepTells, StutterTells DEF Next
<1> QED BY <1>1, <1>2, RunsDwarf, InvSafe, PTL DEF Spec

\* What AddressMap sees of the `dwarf' command.
LEMMA SeenOfDwarf ==
    ASSUME command = "dwarf", AsSaid
    PROVE  /\ AM!vars = <<promised.facts, promised.owed, Published, DwarfSaid(info, linePrograms)>>
PROOF BY Zenon DEF AM!vars, Published, AsSaid

\* Its first state is one of AddressMap.
LEMMA DwarfStarts == Init /\ command = "dwarf" /\ AsSaid => AM!Init
PROOF
<1> SUFFICES ASSUME Init, command = "dwarf", AsSaid PROVE AM!Init
  OBVIOUS
<1>1. Told
  BY ToldFirst
<1>2. emitted = 0
  BY Zenon DEF Init, dwarfEmpty
<1>3. 1..emitted = {}
  BY <1>2
<1>4. Published = {} /\ DwarfSaid(info, linePrograms) = {}
  <2>1. DwarfSaid(info, linePrograms) = UNION {promised.owed[units[i].module] : i \in 1..emitted}
    BY <1>1 DEF Told
  <2>2. UNION {promised.owed[units[i].module] : i \in 1..emitted} = {}
    BY <1>3
  <2> QED BY <1>3, <2>1, <2>2 DEF Published
<1>5. \A m \in DOMAIN promised.owed : promised.owed[m] \subseteq promised.facts
  BY <1>1 DEF Told
<1>6. {units[i].module : i \in 1..emitted} = {} /\ DwarfAnswers = {}
  BY <1>4 DEF Published, AsSaid
<1> QED BY <1>5, <1>6, Zenon DEF AM!Init

\* And every step one of its steps or none.
LEMMA DwarfSteps ==
    command = "dwarf" /\ Inv /\ Told /\ AsSaid /\ AsSaid' /\ [Next]_vars
      => command' = "dwarf" /\ [AM!Next]_(AM!vars)
PROOF
<1> SUFFICES ASSUME command = "dwarf", Inv, Told, AsSaid, AsSaid', [Next]_vars
             PROVE  command' = "dwarf" /\ [AM!Next]_(AM!vars)
  OBVIOUS
<1>1. PICK said : said = DwarfSaid(info, linePrograms)
  OBVIOUS
<1>2. DwarfAnswers = said /\ DwarfAnswers' = DwarfSaid(info', linePrograms')
  BY <1>1 DEF AsSaid
<1>3. CASE UNCHANGED vars
  <2>1. /\ command' = command /\ promised' = promised
        /\ UNCHANGED <<units, emitted, info, linePrograms>>
    BY <1>3 DEF vars, dwarfVars
  <2>2. Published' = Published /\ DwarfAnswers' = DwarfAnswers
    BY <1>1, <1>2, <2>1 DEF Published
  <2> QED BY <2>1, <2>2 DEF AM!vars, Published
<1>4. CASE DwarfCommand
  <2>1. (Quiet \/ Publishes) /\ command' = command /\ promised' = promised
    BY <1>4, DwarfStepTells
  <2>2. CASE Quiet
    <3>1. Published' = Published /\ DwarfAnswers' = DwarfAnswers
      BY <1>1, <1>2, <2>2 DEF Quiet
    <3> QED BY <2>1, <3>1 DEF AM!vars, Published
  <2>3. CASE Publishes
    <3>1. PICK m \in DOMAIN promised.owed \ Published :
            /\ Published' = Published \cup {m}
            /\ DwarfSaid(info', linePrograms') = said \cup promised.owed[m]
      BY <1>1, <2>3, Zenon DEF Publishes
    <3>2. DwarfAnswers' = DwarfAnswers \cup promised.owed[m]
      BY <1>2, <3>1
    <3>3. promised.owed[m] \subseteq promised.facts
      BY <3>1 DEF Told
    <3>4. /\ DwarfAnswers \subseteq DwarfAnswers' /\ promised.owed[m] \subseteq DwarfAnswers'
          /\ DwarfAnswers' \ DwarfAnswers \subseteq promised.facts
      BY <3>2, <3>3
    <3>5. AM!Publish(m)
      BY <2>1, <3>1, <3>4, Zenon DEF AM!Publish, Published
    <3>6. AM!Next
      BY <3>1, <3>5 DEF AM!Next
    <3> QED BY <2>1, <3>6
  <2> QED BY <2>1, <2>2, <2>3
<1> QED BY <1>3, <1>4 DEF Next, Pdb, Exited

-----------------------------------------------------------------------------
(* The results on what the `dwarf' command answers.                         *)

\* A run of the `dwarf' command answers unit by unit, for everything a unit owes
\* and nothing that is not so.
THEOREM DwarfAnswersUnitByUnit == Spec /\ command = "dwarf" => AM!Safety
PROOF
<1>1. Spec => []Inv
  BY RunsDwarf, InvSafe, PTL
<1>2. Inv => AsSaid
  BY AnswersAre
<1>3. Init /\ command = "dwarf" /\ AsSaid => AM!Init
  BY DwarfStarts
<1>4. (command = "dwarf") /\ Inv /\ Told /\ AsSaid /\ AsSaid' /\ [Next]_vars
        => (command = "dwarf")' /\ [AM!Next]_AM!vars
  BY DwarfSteps
<1> QED BY <1>1, <1>2, <1>3, <1>4, ToldSafe, PTL DEF Spec, AM!Safety

\* So one that comes to its end implements AddressMap.
THEOREM DwarfImplementsAddressMap ==
    Spec /\ command = "dwarf" /\ <>(phase = "done") => ImplementsAddressMap
PROOF
<1>1. command = "dwarf" /\ Inv /\ Told /\ phase = "done" => AM!Complete
  <2> SUFFICES ASSUME command = "dwarf", Inv, Told, phase = "done" PROVE AM!Complete
    OBVIOUS
  <2>1. PICK us, owed : us = units /\ owed = promised.owed
    OBVIOUS
  <2>2. UnitsTell(us, owed) /\ emitted = Len(us) /\ IsSequence(us)
    BY <2>1 DEF Told, Inv, UnitsOK
  <2>3. DOMAIN us = 1..emitted
    BY <2>2, SequenceIs
  <2>4. /\ \A i \in DOMAIN us : us[i].module \in DOMAIN owed
        /\ \A m \in DOMAIN owed : \E i \in DOMAIN us : us[i].module = m
    BY <2>2, Zenon DEF UnitsTell, UnitTells
  <2>5. {us[i].module : i \in 1..emitted} = DOMAIN owed
    <3>1. {us[i].module : i \in 1..emitted} \subseteq DOMAIN owed
      BY <2>3, <2>4
    <3>2. DOMAIN owed \subseteq {us[i].module : i \in 1..emitted}
      BY <2>3, <2>4
    <3> QED BY <3>1, <3>2
  <2> QED BY <2>1, <2>5 DEF AM!Complete
<1>2. Spec => []Inv
  BY RunsDwarf, InvSafe, PTL
<1>3. (command = "dwarf") /\ [Next]_vars => (command = "dwarf")'
  <2>1. ASSUME command = "dwarf", Next PROVE command' = "dwarf"
    <3>1. Pdb => command = "pdb"
      BY Zenon DEF Pdb
    <3>2. DwarfCommand => command' = command
      BY Zenon DEF DwarfCommand
    <3>3. Exited => command' = command
      BY DEF Exited, vars
    <3> QED BY <2>1, <3>1, <3>2, <3>3 DEF Next
  <2> QED BY <2>1 DEF vars
<1> QED BY <1>1, <1>2, <1>3, ToldSafe, DwarfAnswersUnitByUnit, PTL
        DEF Spec, ImplementsAddressMap, AM!Spec
=============================================================================
