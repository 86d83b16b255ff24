------------------------------ MODULE ChatRoom ------------------------------
(***************************************************************************)
(* What a chat server promises, with no threads, descriptors or locks: a   *)
(* client enters the room once and leaves it once; what it says is heard,  *)
(* in one indivisible step, by everybody else who is in the room at that   *)
(* moment.  ThreadChat implements this module; ForkChat, the server with   *)
(* the same purpose that forks a process per client, does not.             *)
(***************************************************************************)
EXTENDS Naturals, Sequences

CONSTANTS
    Conns,              \* client connections; a client that comes back is another one
    MaxWords            \* how many bytes can be said in one breath

VARIABLES
    place,              \* place[c]: where connection c is
    said,               \* said[c]: how many of its bytes c has said so far
    stream,             \* stream[c]: everything c has been told, in order
    open                \* FALSE once the server process has died

roomVars == <<place, said, stream, open>>

\* The next k bytes of c: byte n of c is the pair <<c, n>>.
Words(c, from, k) == [n \in 1..k |-> <<c, from + n>>]

Init ==
    /\ place = [c \in Conns |-> "outside"]
    /\ said = [c \in Conns |-> 0]
    /\ stream = [c \in Conns |-> <<>>]
    /\ open = TRUE

Enter(c) ==
    /\ open
    /\ place[c] = "outside"
    /\ place' = [place EXCEPT ![c] = "inside"]
    /\ UNCHANGED <<said, stream, open>>

Leave(c) ==
    /\ open
    /\ place[c] = "inside"
    /\ place' = [place EXCEPT ![c] = "left"]
    /\ UNCHANGED <<said, stream, open>>

\* c says its next k bytes: all the others inside get them, and nobody else does.
Say(c, k) ==
    /\ open
    /\ place[c] = "inside"
    /\ stream' = [d \in Conns |->
                    IF place[d] = "inside" /\ d # c
                    THEN stream[d] \o Words(c, said[c], k)
                    ELSE stream[d]]
    /\ said' = [said EXCEPT ![c] = @ + k]
    /\ UNCHANGED <<place, open>>

\* The process dies; the room never opens again.
Collapse ==
    /\ open
    /\ open' = FALSE
    /\ UNCHANGED <<place, said, stream>>

Next ==
    \/ \E c \in Conns : Enter(c) \/ Leave(c)
    \/ \E c \in Conns, k \in 1..MaxWords : Say(c, k)
    \/ Collapse

Spec == Init /\ [][Next]_roomVars
-----------------------------------------------------------------------------
Common(c, d) == {p \in (1..Len(stream[c])) \X (1..Len(stream[d])) :
                    stream[c][p[1]] = stream[d][p[2]]}

\* What such a room is good for: any two who heard the same two words heard them
\* in the same order, and nobody hears a word twice.
RoomOrder ==
    \A c, d \in Conns : \A p, q \in Common(c, d) : p[1] < q[1] <=> p[2] < q[2]
=============================================================================
