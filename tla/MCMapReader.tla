----------------------------- MODULE MCMapReader -----------------------------
(* A program of two units, one nested in the other's name and one with an     *)
(* include file, and a public in a segment that is not listed, for TLC.       *)
EXTENDS MapReader

MCSegmentRows ==
    {[id |-> 1, start |-> 10, class |-> "CODE"], [id |-> 2, start |-> 30, class |-> "DATA"]}

Module(name, offset, length) ==
    [module |-> name, segment |-> 1, offset |-> offset, length |-> length]
MCModuleRows ==
    <<Module(<<"App">>, 0, 4), Module(<<"App", "Colors">>, 4, 4)>>

Public(name, segment, offset) == [name |-> name, segment |-> segment, offset |-> offset]
MCPublicRows ==
    <<Public(<<"App", "Colors", "", "1">>, 2, 4), Public(<<"App", "Colors", "Name">>, 9, 0),
      Public(<<"App", "Run">>, 1, 0)>>

Table(module, source) == [module |-> module, source |-> source]
MCTableHeaders ==
    {Table(<<"App">>, "App.pas"), Table(<<"App">>, "Shared.inc"),
     Table(<<"App", "Colors">>, "Colors.pas")}

Line(n, offset) == [line |-> n, segment |-> 1, offset |-> offset]
MCLineRows == {<<Line(1, 0)>>, <<Line(1, 0), Line(2, 4)>>}
=============================================================================
