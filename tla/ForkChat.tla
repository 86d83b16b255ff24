------------------------------ MODULE ForkChat ------------------------------
(***************************************************************************)
(* tcl-chatroom-server.cpp: a process forked for every client, and a table *)
(* of descriptor numbers in shared memory that nothing protects.           *)
(*                                                                         *)
(* Every read and write of the shared memory is a step of its own, because *)
(* it races with the other processes.  The mapping is rounded up to pages: *)
(* cell Capacity, one past sockets[], is the field count itself, and the   *)
(* cells after it are the rest of the last page.                           *)
(***************************************************************************)
EXTENDS Integers, Sequences, FiniteSets

CONSTANTS
    Conns,              \* connections clients may make, each at most once
    Fds,                \* descriptors free in the parent once it listens
    Capacity,           \* MAX_CLIENTS
    Cells,              \* ints in the pages of the mapping (2048)
    Quota,              \* Quota[c]: bytes c writes in its life (bounds the model)
    None                \* a closed descriptor

ASSUME FdsAssumption == Fds \subseteq 1..Capacity - 1
ASSUME NoneAssumption == None \notin Conns
ASSUME SizesAssumption == Capacity \in Nat \ {0} /\ Cells \in Nat /\ Capacity < Cells
ASSUME QuotaAssumption == Quota \in [Conns -> Nat]

VARIABLES
    mem,                \* the mapping: sockets[0..Capacity - 1], then count
    mpc, d, n,          \* parent: where it is, descriptor, index being filled
    incoming,           \* connection accept() returned, None if it failed
    pc, my_socket, i,   \* the child that serves each connection
    fds,                \* descriptors of the parent and of each child
    link, gone,         \* kernel: accepted or not yet, peer has closed
    outN, inN, received,\* bytes of c at the server, received, in buffer
    heard, hit,         \* what was sent to c, sent since c's departure
    spilled             \* history: a slot past the end of sockets[] was filled

shared == <<mem, spilled>>
parent == <<mpc, d, n, incoming>>
child == <<pc, my_socket, i, received>>
socks == <<fds, link, gone>>
bytes == <<outN, inN, heard, hit>>
vars == <<shared, parent, child, socks, bytes>>

Parent == "parent"
ASSUME ParentAssumption == Parent \notin Conns
count == mem[Capacity]

Alive == {"recv", "test", "test2", "send"}

TypeOK ==
    /\ mem \in [0..Cells - 1 -> Int]
    /\ mpc \in {"accept", "register", "cell, count", "count, cell", "cell", "count",
                "fork", "close", "crash"}
    /\ d \in Fds \cup {-1}
    /\ n \in Int
    /\ incoming \in Conns \cup {None}
    /\ pc \in [Conns -> Alive \cup {"none", "scan", "clear", "exited", "killed"}]
    /\ my_socket \in [Conns -> Fds \cup {0}]
    /\ i \in [Conns -> Nat]
    /\ fds \in [Conns \cup {Parent} -> [Fds -> Conns \cup {None}]]
    /\ link \in [Conns -> {"idle", "queued", "accepted"}]
    /\ gone \in [Conns -> BOOLEAN]
    /\ outN \in [Conns -> Nat] /\ inN \in [Conns -> Nat]
    /\ received \in [Conns -> Nat]
    /\ heard \in [Conns -> Seq(Conns \X Nat)]
    /\ hit \in [Conns -> BOOLEAN]
    /\ spilled \in BOOLEAN

Init ==
    /\ mem = [j \in 0..Cells - 1 |-> 0]
    /\ mpc = "accept" /\ d = -1 /\ n = 0 /\ incoming = None
    /\ pc = [c \in Conns |-> "none"]
    /\ my_socket = [c \in Conns |-> 0]
    /\ i = [c \in Conns |-> 0]
    /\ fds = [p \in Conns \cup {Parent} |-> [f \in Fds |-> None]]
    /\ link = [c \in Conns |-> "idle"]
    /\ gone = [c \in Conns |-> FALSE]
    /\ outN = [c \in Conns |-> 0] /\ inN = [c \in Conns |-> 0]
    /\ received = [c \in Conns |-> 0]
    /\ heard = [c \in Conns |-> <<>>]
    /\ hit = [c \in Conns |-> FALSE]
    /\ spilled = FALSE
-----------------------------------------------------------------------------
(* The clients.                                                            *)

Connect(c) ==
    /\ link[c] = "idle"
    /\ link' = [link EXCEPT ![c] = "queued"]
    /\ UNCHANGED <<shared, parent, child, fds, gone, bytes>>

ClientWrite(c) ==
    /\ link[c] # "idle" /\ ~gone[c]
    /\ outN[c] < Quota[c]
    /\ outN' = [outN EXCEPT ![c] = @ + 1]
    /\ UNCHANGED <<shared, parent, child, socks, inN, heard, hit>>

ClientLeave(c) ==
    /\ link[c] # "idle" /\ ~gone[c]
    /\ gone' = [gone EXCEPT ![c] = TRUE]
    /\ UNCHANGED <<shared, parent, child, fds, link, bytes>>
-----------------------------------------------------------------------------
(* The parent.                                                             *)

FreeFds == {f \in Fds : fds[Parent][f] = None}
LowestFd(S) == CHOOSE f \in S : \A g \in S : f =< g

Accept ==
    /\ mpc = "accept"
    /\ FreeFds # {}
    /\ \E c \in Conns :
         /\ link[c] = "queued"
         /\ link' = [link EXCEPT ![c] = "accepted"]
         /\ incoming' = c
         /\ d' = LowestFd(FreeFds)
         /\ fds' = [fds EXCEPT ![Parent][LowestFd(FreeFds)] = c]
    /\ mpc' = "register"
    /\ UNCHANGED <<shared, n, child, gone, bytes>>

\* accept() fails and its -1 goes the same way as a descriptor.
AcceptFails ==
    /\ mpc = "accept"
    /\ incoming' = None
    /\ d' = -1
    /\ mpc' = "register"
    /\ UNCHANGED <<shared, n, child, socks, bytes>>

\* sockets[count++] = d: count is read, then the two stores follow in the
\* order the compiler chose.
Read ==
    /\ mpc = "register"
    /\ n' = count
    /\ mpc' \in {"cell, count", "count, cell"}
    /\ UNCHANGED <<shared, d, incoming, child, socks, bytes>>

\* The store to sockets[n] hits count when n = Capacity, and faults outside
\* the mapping: of a parent that went that far nothing more is said.
StoreCell ==
    /\ mpc \in {"cell, count", "cell"}
    /\ IF n \in 0..Cells - 1
       THEN /\ mem' = [mem EXCEPT ![n] = d]
            /\ mpc' = IF mpc = "cell" THEN "fork" ELSE "count"
       ELSE mem' = mem /\ mpc' = "crash"
    /\ spilled' = (spilled \/ n \notin 0..Capacity - 1)
    /\ UNCHANGED <<d, n, incoming, child, socks, bytes>>

StoreCount ==
    /\ mpc \in {"count, cell", "count"}
    /\ mem' = [mem EXCEPT ![Capacity] = n + 1]
    /\ mpc' = IF mpc = "count" THEN "fork" ELSE "cell"
    /\ UNCHANGED <<spilled, d, n, incoming, child, socks, bytes>>

\* The child inherits the parent's descriptors.  A child for a failed accept
\* gets an error from recv(), rewrites one -1 with -1 and exits.
Fork ==
    /\ mpc = "fork"
    /\ IF incoming = None
       THEN UNCHANGED <<pc, my_socket, fds>>
       ELSE /\ pc' = [pc EXCEPT ![incoming] = "recv"]
            /\ my_socket' = [my_socket EXCEPT ![incoming] = d]
            /\ fds' = [fds EXCEPT ![incoming] = fds[Parent]]
    /\ mpc' = "close"
    /\ UNCHANGED <<shared, d, n, incoming, i, received, link, gone, bytes>>

\* fork() returns -1, which is not 0: the parent goes on, the slot stays.
ForkFails ==
    /\ mpc = "fork"
    /\ mpc' = "close"
    /\ UNCHANGED <<shared, d, n, incoming, child, socks, bytes>>

\* Mutant: the parent keeps its copy of the client's descriptor.
CloseForgotten ==
    /\ mpc = "close"
    /\ mpc' = "accept" /\ d' = -1 /\ n' = 0 /\ incoming' = None
    /\ UNCHANGED <<shared, child, socks, bytes>>

\* close(d), and the end of the loop's body, where its variables end too.
CloseD ==
    /\ mpc = "close"
    /\ IF d = -1 THEN fds' = fds ELSE fds' = [fds EXCEPT ![Parent][d] = None]
    /\ mpc' = "accept" /\ d' = -1 /\ n' = 0 /\ incoming' = None
    /\ UNCHANGED <<shared, child, link, gone, bytes>>
-----------------------------------------------------------------------------
(* The child of c.                                                         *)

Recv(c) ==
    /\ pc[c] = "recv"
    /\ inN[c] < outN[c]
    /\ \E k \in 1..outN[c] - inN[c] :
         /\ received' = [received EXCEPT ![c] = k]
         /\ inN' = [inN EXCEPT ![c] = @ + k]
    /\ i' = [i EXCEPT ![c] = 0]
    /\ pc' = [pc EXCEPT ![c] = "test"]
    /\ UNCHANGED <<shared, parent, my_socket, socks, outN, heard, hit>>

\* Mutant: recv() != 0 is taken for data, so is its -1.
RecvErrorAsData(c) ==
    /\ pc[c] = "recv"
    /\ gone[c] /\ inN[c] = outN[c]
    /\ received' = [received EXCEPT ![c] = -1]
    /\ i' = [i EXCEPT ![c] = 0]
    /\ pc' = [pc EXCEPT ![c] = "test"]
    /\ UNCHANGED <<shared, parent, my_socket, socks, bytes>>

RecvEnd(c) ==
    /\ pc[c] = "recv"
    /\ gone[c] /\ inN[c] = outN[c]
    /\ i' = [i EXCEPT ![c] = 0]
    /\ pc' = [pc EXCEPT ![c] = "scan"]
    /\ UNCHANGED <<shared, parent, my_socket, received, socks, bytes>>

\* i < count && sockets[i] != my_socket: the first read of the cell.
Test(c) ==
    /\ pc[c] = "test"
    /\ i[c] < Cells
    /\ pc' = [pc EXCEPT ![c] =
                 IF i[c] >= count THEN "recv"
                 ELSE IF mem[i[c]] = my_socket[c] THEN "test" ELSE "test2"]
    /\ i' = [i EXCEPT ![c] =
                 IF i[c] >= count THEN 0
                 ELSE IF mem[i[c]] = my_socket[c] THEN @ + 1 ELSE @]
    /\ UNCHANGED <<shared, parent, my_socket, received, socks, bytes>>

\* sockets[i] > 0: the second read.
TestOpen(c) ==
    /\ pc[c] = "test2"
    /\ IF mem[i[c]] > 0
       THEN pc' = [pc EXCEPT ![c] = "send"] /\ i' = i
       ELSE pc' = [pc EXCEPT ![c] = "test"] /\ i' = [i EXCEPT ![c] = @ + 1]
    /\ UNCHANGED <<shared, parent, my_socket, received, socks, bytes>>

\* The connection behind a descriptor number in the child of c.
Behind(c, fd) == IF fd \in Fds THEN fds[c][fd] ELSE None

\* The third read, and the send: EBADF when nothing is behind the number.
Send(c) ==
    /\ pc[c] = "send"
    /\ LET to == Behind(c, mem[i[c]]) IN
         IF to = None
         THEN UNCHANGED <<heard, hit>>
         ELSE /\ heard' = [heard EXCEPT ![to] = @ \o
                  [k \in 1..received[c] |-> <<c, inN[c] - received[c] + k>>]]
              /\ hit' = [hit EXCEPT ![to] = gone[to]]
    /\ pc' = [pc EXCEPT ![c] = "test"]
    /\ i' = [i EXCEPT ![c] = @ + 1]
    /\ UNCHANGED <<shared, parent, my_socket, received, socks, outN, inN>>

\* SIGPIPE, or the end of the mapping: this child dies and nobody else.
Killed(c) ==
    /\ \/ /\ pc[c] = "send"
          /\ Behind(c, mem[i[c]]) # None
          /\ hit[Behind(c, mem[i[c]])]
       \/ pc[c] \in {"test", "scan"} /\ i[c] = Cells /\ i[c] < count
    /\ pc' = [pc EXCEPT ![c] = "killed"]
    /\ UNCHANGED <<shared, parent, my_socket, i, received, socks, bytes>>

\* Mutant: the loop of l.99 has no break.
ScanEverything(c) ==
    /\ pc[c] = "scan"
    /\ mem' = [j \in 0..Cells - 1 |->
                 IF j < count /\ mem[j] = my_socket[c] THEN -1 ELSE mem[j]]
    /\ pc' = [pc EXCEPT ![c] = "exited"]
    /\ UNCHANGED <<spilled, parent, my_socket, i, received, socks, bytes>>

\* Is sockets[i] == my_socket?  If no slot is, the child just exits.
Scan(c) ==
    /\ pc[c] = "scan"
    /\ i[c] < Cells
    /\ pc' = [pc EXCEPT ![c] =
                 IF i[c] >= count THEN "exited"
                 ELSE IF mem[i[c]] = my_socket[c] THEN "clear" ELSE "scan"]
    /\ i' = [i EXCEPT ![c] =
                 IF i[c] >= count THEN 0
                 ELSE IF mem[i[c]] = my_socket[c] THEN @ ELSE @ + 1]
    /\ UNCHANGED <<shared, parent, my_socket, received, socks, bytes>>

\* The store and the exit, after another process may have changed the cell.
Clear(c) ==
    /\ pc[c] = "clear"
    /\ mem' = [mem EXCEPT ![i[c]] = -1]
    /\ i' = [i EXCEPT ![c] = 0]
    /\ pc' = [pc EXCEPT ![c] = "exited"]
    /\ UNCHANGED <<spilled, parent, my_socket, received, socks, bytes>>
-----------------------------------------------------------------------------
Client(c) == Connect(c) \/ ClientWrite(c) \/ ClientLeave(c)
ParentNext ==
    \/ Accept \/ AcceptFails \/ Read \/ StoreCell \/ StoreCount
    \/ Fork \/ ForkFails \/ CloseD
Child(c) ==
    \/ Recv(c) \/ RecvEnd(c) \/ Test(c) \/ TestOpen(c) \/ Send(c) \/ Killed(c)
    \/ Scan(c) \/ Clear(c)

Next == ParentNext \/ \E c \in Conns : Client(c) \/ Child(c)

Spec == Init /\ [][Next]_vars
-----------------------------------------------------------------------------
\* Nobody ever hears anybody else: the parent closes each descriptor before
\* the next accept() (l.111), so every client has the same number and l.91
\* takes everybody for the speaker.  All that can arrive is a client's own
\* words, when a slot is filled between the first and the second read of it.
NobodyHears ==
    \A c \in Conns : \A k \in 1..Len(heard[c]) : heard[c][k][1] = c

\* While the table has not overflowed, there are at least as many slots with a
\* client's number as clients with that number who are being served: children
\* that leave together may clear one slot twice, but never one too many
\* (l.99-106).
SlotsSuffice ==
    ~spilled =>
        \A f \in Fds :
            Cardinality({c \in Conns : pc[c] \in Alive /\ my_socket[c] = f})
                =< Cardinality({j \in 0..Capacity - 1 : mem[j] = f})

\* The parent has at most the descriptor of the client it is busy with, and so
\* its children have none but their own.
DescriptorInv ==
    /\ mpc = "accept" => incoming = None
    /\ incoming = None <=> d = -1
    /\ \A f \in Fds : fds[Parent][f] = IF f = d THEN incoming ELSE None
    /\ \A c \in Conns : \A f \in Fds : fds[c][f] \in {c, None}

ChildInv ==
    /\ \A c \in Conns : received[c] =< inN[c]
    /\ \A c \in Conns : pc[c] # "none" => my_socket[c] # 0

\* How far the cells of sockets[] have been filled, which count says late or early.
Filled == IF mpc = "cell" THEN n ELSE IF mpc = "count" THEN n + 1 ELSE count

\* The children that may still clear a slot with number f, those slots, and the
\* slot of a child that is not there yet.
Served(f) == {c \in Conns : pc[c] \in Alive \cup {"scan", "clear"} /\ my_socket[c] = f}
SlotsOf(f) == {j \in 0..Capacity - 1 : mem[j] = f}
Ahead(f) == IF mpc \in {"count", "fork"} /\ d = f THEN 1 ELSE 0

\* A slot is filled once, above all the others, and a child that is about to
\* clear one finds its own number there, or what another such child has left.
TableInv ==
    /\ mpc \in {"cell, count", "count, cell", "count"} => n = count
    /\ mpc = "cell" => count = n + 1
    /\ Filled \in 0..Capacity
    /\ \A j \in Filled..Capacity - 1 : mem[j] = 0
    /\ \A c \in Conns : pc[c] = "clear" =>
        i[c] < Filled /\ mem[i[c]] \in {my_socket[c], -1}
    /\ \A f \in Fds :
        /\ IsFiniteSet(Served(f))
        /\ Cardinality(Served(f)) + Ahead(f) =< Cardinality(SlotsOf(f))

\* The inductive invariant: one number for all clients (l.74, l.111), and until a
\* -1 or a count runs over it, a table that is filled from the bottom (l.76) and
\* has a slot for every child that will look for one (l.99-106).
IndInv ==
    TypeOK /\ DescriptorInv /\ ChildInv /\ NobodyHears /\ (~spilled => TableInv)
=============================================================================
