----------------------------- MODULE MCTftpPut ------------------------------
(* Small instances of TftpPut.                                             *)
EXTENDS TftpPut, TLC

CONSTANTS s1, s2

Ports == Permutations({s1, s2})
=============================================================================
