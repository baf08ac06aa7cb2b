------------------------------ MODULE SeqHelpers ------------------------------
(* Operators on sequences that the community modules do not have.            *)
EXTENDS Naturals, Sequences

\* The positions of a sequence.
Indices(s) == [i \in 1..Len(s) |-> i]

\* The elements of s that are in S, in their order in s.
Among(s, S) ==
    LET kept[n \in 0..Len(s)] ==
            IF n = 0 THEN <<>>
            ELSE IF s[n] \in S THEN Append(kept[n - 1], s[n]) ELSE kept[n - 1]
    IN  kept[Len(s)]

\* Without repetitions, in order of first occurrence.
Distinct(s) ==
    LET first == Among(Indices(s), {i \in DOMAIN s : \A j \in 1..(i - 1) : s[j] # s[i]})
    IN  [n \in DOMAIN first |-> s[first[n]]]
=============================================================================
