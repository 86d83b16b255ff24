------------------------------ MODULE TelnetLog ------------------------------
(***************************************************************************)
(* multi-thread-telnet-simulation.c: a thread per client that should add   *)
(* what the client says to tmp.txt.  main passes a pointer to the          *)
(* descriptor; the handler takes the pointer, cut to an int, for the       *)
(* descriptor (l.12).  Such a number is far above any descriptor.          *)
(***************************************************************************)
EXTENDS Naturals, FiniteSets

CONSTANTS
    Callers,            \* clients, each connects once
    Numbers,            \* descriptors the process may have for clients
    Address             \* what a truncated heap address reads as

ASSUME NumbersAssumption == Numbers \subseteq Nat \ {0} /\ Address \notin Numbers \cup {0}

VARIABLES
    called, fdOf,       \* who has connected; the descriptor accept gave them
    openFds,            \* descriptors in use
    sock,               \* sock of each running handler, or 0
    spoken, tmp_txt     \* callers with a line in their socket; lines in the file

telnetVars == <<called, fdOf, openFds, sock, spoken, tmp_txt>>

TelnetTypeOK ==
    /\ called \subseteq Callers /\ spoken \subseteq called
    /\ openFds \subseteq Numbers
    /\ fdOf \in [Callers -> Numbers \cup {0}]
    /\ sock \in [Callers -> Numbers \cup {0, Address}]
    /\ tmp_txt \subseteq Callers

TelnetInit ==
    /\ called = {} /\ fdOf = [c \in Callers |-> 0]
    /\ openFds = {}
    /\ sock = [c \in Callers |-> 0]
    /\ spoken = {} /\ tmp_txt = {}

Call(c) ==
    /\ c \notin called
    /\ called' = called \cup {c}
    /\ UNCHANGED <<fdOf, openFds, sock, spoken, tmp_txt>>

Speak(c) ==
    /\ c \in called \ spoken
    /\ spoken' = spoken \cup {c}
    /\ UNCHANGED <<called, fdOf, openFds, sock, tmp_txt>>

\* What the handler was meant to work with (mutant), and what it does (l.12).
PassedSocket(fd) == fd
HandlerSocket(fd) == Address

\* l.71-83: accept, and a thread; with no descriptor left accept fails, and main
\* goes round without a pause.
AcceptCaller(c) ==
    /\ c \in called /\ fdOf[c] = 0
    /\ \E fd \in Numbers \ openFds :
        /\ \A other \in Numbers \ openFds : fd =< other
        /\ openFds' = openFds \cup {fd}
        /\ fdOf' = [fdOf EXCEPT ![c] = fd]
        /\ sock' = [sock EXCEPT ![c] = HandlerSocket(fd)]
    /\ UNCHANGED <<called, spoken, tmp_txt>>

\* The line that recv would return from a descriptor.
Said(fd) == {c \in spoken \ tmp_txt : fdOf[c] = fd}

\* l.20-46: recv from sock; what it returns is appended under fileMutex, and an
\* error ends the thread, which closes that number and no other.
HandlerTurn(c) ==
    /\ sock[c] # 0
    /\ IF Said(sock[c]) # {}
       THEN /\ tmp_txt' = tmp_txt \cup Said(sock[c])
            /\ UNCHANGED <<openFds, sock>>
       ELSE /\ openFds' = openFds \ {sock[c]}
            /\ sock' = [sock EXCEPT ![c] = 0]
            /\ UNCHANGED tmp_txt
    /\ UNCHANGED <<called, fdOf, spoken>>

TelnetNext == \E c \in Callers : Call(c) \/ Speak(c) \/ AcceptCaller(c) \/ HandlerTurn(c)

TelnetSpec == TelnetInit /\ [][TelnetNext]_telnetVars

(***************************************************************************)
(* Properties                                                              *)
(***************************************************************************)

\* Nobody's text ever reaches the file, and every connection costs a descriptor
\* for good: once they are used up a caller stays in the listen queue for ever.
DeafAndLeaking ==
    /\ tmp_txt = {}
    /\ openFds = {fdOf[c] : c \in Callers} \ {0}
    /\ Cardinality({c \in Callers : fdOf[c] # 0}) = Cardinality(openFds)

\* The inductive invariant: whatever a handler works with (l.12) is an address,
\* which is no descriptor; the descriptors that are counted are finitely many.
TelnetInv ==
    /\ TelnetTypeOK /\ DeafAndLeaking
    /\ \A c \in Callers : sock[c] \in {0, Address}
    /\ IsFiniteSet(openFds) /\ IsFiniteSet({c \in Callers : fdOf[c] # 0})
=============================================================================
