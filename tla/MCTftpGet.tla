----------------------------- MODULE MCTftpGet ------------------------------
(* Small instances of TftpGet.                                             *)
EXTENDS TftpGet, TLC

CONSTANTS s1, s2

Ports == Permutations({s1, s2})
=============================================================================
