---------------------------- MODULE MCFileServer ----------------------------
(* Small instances of FileServer: one file of three blocks, one or two     *)
(* connections.                                                            *)
EXTENDS FileServer, TLC

CONSTANTS c1, c2, f

Ask(op, name, size, length) == [op |-> op, name |-> name, size |-> size, length |-> length]

Disk == [n \in {f} |-> 3]
Upload == Ask("POST", f, 2, 5)
Download == Ask("GET", f, 0, 0)

Uploads == [Conns -> {Upload}]
Transfers == [Conns -> {Upload, Download}]

\* The first client downloads while the second uploads, or asks for anything
\* else while the second asks for nothing the server knows: an upload, one
\* without a length, one without a file name, the icon, a listing.
Everything ==
    LET Other == Ask("other", f, 0, 5)
        Pair(r1, r2) == [c \in Conns |-> IF c = c1 THEN r1 ELSE r2]
    IN  {Pair(Download, Ask("POST", f, 0, 3))} \cup
        {Pair(r, Other) : r \in {Ask("POST", f, 1, 4), Ask("POST", f, 0, 0), Ask("POST", "bad", 0, 3),
                                Ask("favicon", f, 0, 0), Ask("LIST", f, 0, 0)}}

Symmetry == Permutations({c1, c2})
=============================================================================
