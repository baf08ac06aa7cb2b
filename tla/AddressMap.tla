------------------------------- MODULE AddressMap -------------------------------
(***************************************************************************)
(* What debug information promises a debugger: unit by unit it answers      *)
(* which function and which line an address belongs to.  Every unit that    *)
(* has answers is published once and never taken back, with all that it     *)
(* owes and nothing that is not so.                                         *)
(***************************************************************************)
EXTENDS Integers, FiniteSets

VARIABLES
    facts,      \* the answers that are true of the program
    owed,       \* for each unit, those it must give
    published,  \* units whose information is complete
    answers     \* the answers given

vars == <<facts, owed, published, answers>>

Init ==
    /\ \A u \in DOMAIN owed : owed[u] \subseteq facts
    /\ published = {} /\ answers = {}

Publish(u) ==
    /\ u \in DOMAIN owed \ published
    /\ published' = published \cup {u}
    /\ answers \subseteq answers' /\ owed[u] \subseteq answers'
    /\ answers' \ answers \subseteq facts
    /\ UNCHANGED <<facts, owed>>

Next == \E u \in DOMAIN owed : Publish(u)

Complete == published = DOMAIN owed

\* That nothing untrue is answered and nothing owed left out, and that every unit
\* is published at last.
Safety == Init /\ [][Next]_vars
Spec == Safety /\ <>Complete
=============================================================================
