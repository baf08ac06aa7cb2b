------------------------------ MODULE MCPeInject ------------------------------
(* Images for TLC: one or two linked sections, the second one perhaps without  *)
(* raw data (.bss); with or without a symbol table, and with or without data   *)
(* appended past the last section.                                             *)
EXTENDS PeInject

MCFileAlign  == 2
MCSectAlign  == 4
MCTableStart == 3

Code(n, raw, ptr) ==
    [name |-> [short |-> "text", off |-> 0], by |-> 0, va |-> 8 + 4 * n,
     vsize |-> 3, ptr |-> ptr, at |-> ptr, raw |-> raw]

\* n sections of which the second has raw size `second', `gap' units of room in
\* the headers, `syms' symbols (none: no symbol table), `tail' appended units.
Made(n, second, gap, syms, tail) ==
    LET headers == MCTableStart + n + gap
        first   == Code(0, 2, headers)
        all     == IF n = 1 THEN <<first>>
                   ELSE <<first, Code(1, second, IF second = 0 THEN 0 ELSE headers + 2)>>
        body    == headers + 2 + (IF n = 2 THEN second ELSE 0)
        tables  == IF syms = 0 THEN 0 ELSE syms + 1
    IN  [sections |-> all, sizeOfHeaders |-> headers,
         symbolTable |-> IF syms = 0 THEN 0 ELSE body, symbols |-> syms,
         strings |-> <<>>, overlay |-> body + tables, tail |-> tail,
         size |-> body + tables + tail,
         sizeOfImage |-> 8 + 4 * n,
         directory |-> [va |-> 0, ptr |-> 0, by |-> 0]]

MCLinked ==
    {img \in {Made(n, second, gap, syms, tail) :
                n \in 1..2, second \in {0, 2}, gap \in 0..2, syms \in 0..1, tail \in 0..2} :
       img.sizeOfHeaders % MCFileAlign = 0}
MCPayloads == {1, 2}
MCDwarfNames == <<".debug_abbrev", ".debug_info">>
=============================================================================
