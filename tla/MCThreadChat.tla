---------------------------- MODULE MCThreadChat ----------------------------
(* Small instances of ThreadChat.                                          *)
EXTENDS ThreadChat, TLC

CONSTANTS c1, c2, c3, c4

Three == {c1, c2, c3}

All == {c1, c2, c3, c4}

\* Two clients talk, the others listen: enough for two speakers whose
\* broadcasts could cross, and two listeners to compare.
TwoTalk == [c \in All |-> IF c \in {c1, c2} THEN 1 ELSE 0]
EachOne == [c \in All |-> 1]
Talkers == [c \in Three |-> IF c = c1 THEN 2 ELSE IF c = c2 THEN 1 ELSE 0]

AllSymmetry == Permutations(All)
OrderSymmetry == Permutations({c1, c2})
=============================================================================
