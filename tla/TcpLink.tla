------------------------------- MODULE TcpLink -------------------------------
(***************************************************************************)
(* The connections between the netcat client and the command server as     *)
(* their kernels keep them: two bounded streams per user, seen only        *)
(* through how much has gone in and come out at each end.                  *)
(***************************************************************************)
EXTENDS Naturals, Sequences

CONSTANTS
    Users,              \* runs of the netcat client, each connects once
    Typed,              \* Typed[c]: the lines c types: "exit", "rm -rf", others
    LinkBuf             \* what a connection holds in one direction

ASSUME LinkAssumption == LinkBuf \in Nat \ {0} /\ Typed \in [Users -> Seq(STRING)]

VARIABLES
    wrote, taken,       \* lines c has given to send, lines the server received
    told, shown,        \* output given to send for c, output c has printed
    fin,                \* c sends no more: shutdown, or its socket is closed
    local, remote       \* the socket of c, and the server's end of it

linkVars == <<wrote, taken, told, shown, fin, local, remote>>

LinkTypeOK ==
    /\ wrote \in [Users -> Nat] /\ taken \in [Users -> Nat]
    /\ told \in [Users -> Nat] /\ shown \in [Users -> Nat]
    /\ \A c \in Users :
        /\ taken[c] =< wrote[c] /\ wrote[c] - taken[c] =< LinkBuf
        /\ shown[c] =< told[c] /\ told[c] - shown[c] =< LinkBuf
    /\ fin \in [Users -> BOOLEAN]
    /\ local \in [Users -> {"none", "open", "closed"}]
    /\ remote \in [Users -> {"none", "queued", "open", "closed"}]

LinkInit ==
    /\ wrote = [c \in Users |-> 0] /\ taken = [c \in Users |-> 0]
    /\ told = [c \in Users |-> 0] /\ shown = [c \in Users |-> 0]
    /\ fin = [c \in Users |-> FALSE]
    /\ local = [c \in Users |-> "none"] /\ remote = [c \in Users |-> "none"]

UpFull(c) == wrote[c] - taken[c] = LinkBuf
DownFull(c) == told[c] - shown[c] = LinkBuf

\* Something for recv at the end of c: output, an end of file or a reset.
Readable(c) == shown[c] < told[c] \/ remote[c] = "closed"

\* close() of the server while lines of c are unread resets the connection.
Reset(c) == remote[c] = "closed" /\ taken[c] < wrote[c]
=============================================================================
