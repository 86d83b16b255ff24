---------------------------- MODULE FileTransfer ----------------------------
(***************************************************************************)
(* What a transfer of a file promises, with no datagrams: the copy grows   *)
(* by the next block of the file and by nothing else, and the transfer is  *)
(* reported as good only when the copy is complete.                        *)
(***************************************************************************)
EXTENDS Naturals, Sequences

VARIABLES
    size,               \* blocks of the file, the short one at the end included
    copy,               \* the blocks that have been copied
    verdict             \* what the program has reported

transferVars == <<size, copy, verdict>>

Init ==
    /\ size \in Nat \ {0}
    /\ copy = <<>>
    /\ verdict = "running"

CopyBlock ==
    /\ Len(copy) < size
    /\ copy' = Append(copy, Len(copy) + 1)
    /\ UNCHANGED <<size, verdict>>

Succeed ==
    /\ verdict = "running"
    /\ Len(copy) = size
    /\ verdict' = "good"
    /\ UNCHANGED <<size, copy>>

Fail ==
    /\ verdict = "running"
    /\ verdict' = "bad"
    /\ UNCHANGED <<size, copy>>

Next == CopyBlock \/ Succeed \/ Fail

Spec == Init /\ [][Next]_transferVars
=============================================================================
