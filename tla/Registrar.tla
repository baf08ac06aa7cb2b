------------------------------- MODULE Registrar -------------------------------
(***************************************************************************)
(* The registrar of the types a program database will describe: it takes an *)
(* aggregate of the .rsm with everything it refers to and gives it a place  *)
(* in PdbInputs::aggregates, what is referred to before what refers to it   *)
(* (cli/cli_cmd_pdb_aggregates.cpp).                                        *)
(*                                                                         *)
(* A registry is [aggregates, cache, opaque, sets]: the places, and those   *)
(* given to an aggregate's key, to a class without declaration and to the   *)
(* set over an enum.  Place 0 is none.                                      *)
(***************************************************************************)
EXTENDS Image

VARIABLES
    registry,
    latestFirst     \* in which order equal_range() of a hash table goes

Key(k) == <<Rsm.aggregates[k].unit, Rsm.aggregates[k].own>>
Keys   == {Key(k) : k \in DOMAIN Rsm.aggregates}
EmptyRegistry == [aggregates |-> <<>>, cache |-> [key \in Keys |-> 0],
                  opaque |-> <<>>, sets |-> <<>>]
Pick(ks) == IF ks = {} THEN 0 ELSE IF latestFirst THEN Max(ks) ELSE Min(ks)

NoAggregate == [kind |-> "", name |-> "", size |-> 0, base |-> 0,
                fields |-> <<>>, entries |-> <<>>, methods |-> <<>>]
Place(r) == Len(r.aggregates) + 1
Pushed(r, aggregate) == [r EXCEPT !.aggregates = Append(@, aggregate)]

\* The indices of the aggregates by name, and by unit and name.
ByName(name) == {k \in DOMAIN Rsm.aggregates : Rsm.aggregates[k].name = name}
ByUnitName(unit, name) == {k \in ByName(name) : Rsm.aggregates[k].unit = unit}
Classes(ks) == {k \in ks : Rsm.aggregates[k].kind = "Class"}

\* A type without members whose name is an enum's and an `s' is the set over it.
SetBase(a) ==
    LET bases == {k \in DOMAIN Rsm.aggregates :
                    LET e == Rsm.aggregates[k]
                    IN  e.kind = "Enum" /\ e.unit = a.unit /\ e.name \o "s" = a.name}
    IN  IF a.kind = "Unknown" /\ bases # {} THEN Min(bases) ELSE 0

\* The bytes that hold a bit, or a number, for every ordinal.
Highest(entries) == Max({0} \cup {entries[i].ordinal : i \in DOMAIN entries})
SetSize(entries) ==
    LET top == Highest(entries)
    IN  CASE top <= 7 -> 1 [] top \in 8..15 -> 2 [] top \in 16..31 -> 4 [] OTHER -> 8
EnumSize(entries) ==
    LET top == Highest(entries)
    IN  CASE top <= 255 -> 1 [] top \in 256..65535 -> 2 [] OTHER -> 4

\* The low half of a hash of four bytes, which is a type's own hash.
LowHalf(hash4) == hash4 % 65536
\* The type a field's marker stands for: the one with the name of the unit's
\* table entry and the low half of its hash, or else any with that name.
Foreign(entry) ==
    LET exact == {k \in ByName(entry.name) : Rsm.aggregates[k].own = LowHalf(entry.hash)}
    IN  IF exact # {} THEN Pick(exact) ELSE Pick(ByName(entry.name))
FieldTarget(unit, f) ==
    LET entry == TypeEntry(unit, f.marker)
    IN  CASE f.hash # 0 -> Meant(unit, f.hash)
          [] f.hash = 0 /\ entry.name \notin DOMAIN Primitives /\ entry.hash # 0 ->
               Foreign(entry)
          [] OTHER -> 0
FieldPrimitive(unit, f) ==
    LET name == TypeEntry(unit, f.marker).name
    IN  IF f.hash = 0 /\ name \in DOMAIN Primitives THEN Primitives[name]
        ELSE [kind |-> "", size |-> 0]

-----------------------------------------------------------------------------
(* registerAggr, which calls itself for the base and the fields.            *)

\* The aggregate of k, once its base and the types of its fields have places.
NewAggregate(k, base, nested) ==
    LET a      == Rsm.aggregates[k]
        set    == SetBase(a)
        named  == [NoAggregate EXCEPT !.name = a.name, !.base = base]
        fields == [i \in DOMAIN nested |->
                     LET f == a.fields[i]
                     IN  [name |-> f.name, offset |-> f.offset, nested |-> nested[i],
                          kind |-> FieldPrimitive(a.unit, f).kind,
                          size |-> FieldPrimitive(a.unit, f).size]]
    IN  CASE set # 0 ->
               [named EXCEPT !.kind = "Set", !.size = SetSize(Rsm.aggregates[set].entries),
                             !.entries = Rsm.aggregates[set].entries]
          [] set = 0 /\ a.kind = "Enum" ->
               [named EXCEPT !.kind = "Enum", !.size = EnumSize(a.entries),
                             !.entries = a.entries]
          [] OTHER ->
               [named EXCEPT !.kind = IF a.kind = "Class" THEN "Class" ELSE "Record",
                             !.size = a.size, !.fields = fields]

\* A walk is what the calls so far have come to: the number of places, the cache
\* and, in the order of their places, the new aggregates.  A call is for an
\* aggregate; `open' holds those further down the recursion: a reference back to
\* one of them stays unresolved.
New   == [of : DOMAIN Rsm.aggregates, base : Nat, nested : Seq(Nat)]
Walks == [count : Nat, cache : [Keys -> Nat], new : Seq(New)]
Calls == [of : 0..Len(Rsm.aggregates), open : SUBSET Keys, walk : Walks]
Call(k, open, walk)  == [of |-> k, open |-> open, walk |-> walk]
Result(place, walk)  == [place |-> place, walk |-> walk]

\* A call for k by means of the calls one level up, `deeper'.
CallForField(deeper, unit, f, open, w) ==
    LET field == deeper[Call(FieldTarget(unit, f), open, w.walk)]
    IN  [walk |-> field.walk, nested |-> Append(w.nested, field.place)]
CallForFields(deeper, a, open, walk) ==
    LET w[n \in 0..Len(a.fields)] ==
            IF n = 0 THEN [walk |-> walk, nested |-> <<>>]
            ELSE CallForField(deeper, a.unit, a.fields[n], open, w[n - 1])
    IN  w[Len(a.fields)]
Filled(k, base, fields) ==
    LET place == fields.walk.count + 1
    IN  Result(place, [count |-> place, cache |-> [fields.walk.cache EXCEPT ![Key(k)] = place],
                       new |-> Append(fields.walk.new,
                                      [of |-> k, base |-> base, nested |-> fields.nested])])
Based(deeper, k, open, base) ==
    Filled(k, base.place,
      IF Rsm.aggregates[k].kind \in {"Class", "Record", "PackedRecord"}
      THEN CallForFields(deeper, Rsm.aggregates[k], open, base.walk)
      ELSE [walk |-> base.walk, nested |-> <<>>])
RegisterAggr(deeper, k, open, walk) ==
    LET a == Rsm.aggregates[k]
    IN  CASE k = 0 -> Result(0, walk)
          [] k # 0 /\ a.kind = "Unknown" /\ SetBase(a) = 0 -> Result(0, walk)
          [] k # 0 /\ ~(a.kind = "Unknown" /\ SetBase(a) = 0) /\ walk.cache[Key(k)] # 0 ->
               Result(walk.cache[Key(k)], walk)
          [] k # 0 /\ walk.cache[Key(k)] = 0 /\ Key(k) \in open -> Result(0, walk)
          [] OTHER ->
               Based(deeper, k, open \cup {Key(k)},
                 IF a.kind = "Class" /\ a.base # 0
                 THEN deeper[Call(Meant(a.unit, a.base), open \cup {Key(k)}, walk)]
                 ELSE Result(0, walk))
\* Every level opens another key: the lowest is not reached.
Levels == Len(Rsm.aggregates) + 1
Registering[n \in 0..Levels] ==
    [c \in Calls |-> IF n = 0 THEN Result(0, c.walk)
                     ELSE RegisterAggr(Registering[n - 1], c.of, c.open, c.walk)]

\* The outermost call: [place, r], a place after those of the types it refers to.
Registered(r, result) ==
    LET new == result.walk.new
    IN  [place |-> result.place,
         r |-> [r EXCEPT !.cache = result.walk.cache,
                         !.aggregates = @ \o [i \in DOMAIN new |->
                           NewAggregate(new[i].of, new[i].base, new[i].nested)]]]
Register(k, r) ==
    Registered(r, Registering[Levels][Call(k, {},
      [count |-> Len(r.aggregates), cache |-> r.cache, new |-> <<>>])])

\* The set over the enum declared just before it in its unit, whose hash is at
\* most 16 below: an anonymous `set of' has no record of its own.
EnumBelow(unit, hash) ==
    LET near == {k \in DOMAIN Rsm.aggregates :
                   LET a == Rsm.aggregates[k]
                   IN  a.kind = "Enum" /\ a.unit = unit /\ hash - a.own \in 1..16}
    IN  IF near = {} THEN 0
        ELSE Max({k \in near : \A j \in near : Rsm.aggregates[j].own <= Rsm.aggregates[k].own})
RegisterInprocSet(unit, hash, r) ==
    LET k   == EnumBelow(unit, hash)
        e   == Rsm.aggregates[k]
        key == <<unit, e.own>>
        new == [NoAggregate EXCEPT !.kind = "Set", !.name = "set of " \o e.name,
                                   !.size = SetSize(e.entries), !.entries = e.entries]
    IN  CASE k = 0 -> [place |-> 0, r |-> r]
          [] k # 0 /\ key \in DOMAIN r.sets -> [place |-> r.sets[key], r |-> r]
          [] OTHER -> [place |-> Place(r),
                       r |-> [Pushed(r, new) EXCEPT !.sets = @ @@ (key :> Place(r))]]

\* The class a method's Self points to: of its unit, of any, or a class of that
\* name without members when only its name is known.
SelfClass(unit, name) ==
    IF Classes(ByUnitName(unit, name)) # {} THEN Pick(Classes(ByUnitName(unit, name)))
    ELSE Pick(Classes(ByName(name)))
AnyClass(unit, name) == Pick(Classes(ByName(name)))
RegisterSelf(unit, name, r) ==
    LET k == SelfClass(unit, name)
    IN  CASE k # 0 -> Register(k, r)
          [] k = 0 /\ name \in DOMAIN r.opaque -> [place |-> r.opaque[name], r |-> r]
          [] OTHER -> [place |-> Place(r),
                       r |-> [Pushed(r, [NoAggregate EXCEPT !.kind = "Class", !.name = name])
                                EXCEPT !.opaque = @ @@ (name :> Place(r))]]
=============================================================================
