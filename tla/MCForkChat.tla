----------------------------- MODULE MCForkChat -----------------------------
(* Small instances of ForkChat.                                            *)
EXTENDS ForkChat, TLC

CONSTANTS c1, c2, c3

All == {c1, c2, c3}
OneTalks == [c \in All |-> IF c = c1 THEN 1 ELSE 0]
Symmetry == Permutations({c2, c3})
=============================================================================
