----------------------------- MODULE ThreadChat -----------------------------
(***************************************************************************)
(* multithread-chatroom-server.cpp: one detached thread per client, a      *)
(* table g_sockets of descriptors that only grows, one mutex around it.    *)
(*                                                                         *)
(* Byte n of connection c is the pair <<c, n>>: only who said it and in    *)
(* which order matters.  What the code reads and writes under g_mutex is   *)
(* one step where nothing else can be seen in between (l.38-40, l.93-97);  *)
(* the broadcast, whose send() may block, keeps the mutex over many steps. *)
(***************************************************************************)
EXTENDS Naturals, Sequences, FiniteSets

CONSTANTS
    Conns,              \* connections clients may make, each at most once
    Fds,                \* descriptor numbers accept() can return
    Capacity,           \* entries of g_sockets (1024)
    RecvMax,            \* sizeof(buffer) - 1 (1023)
    SockBuf,            \* bytes the kernel holds for a client that does not read
    Quota,              \* Quota[c]: bytes c writes in its life (bounds the model)
    Leavers,            \* the clients that may close (bounds the model)
    None                \* nobody: a free mutex, a closed descriptor

ASSUME FdsAssumption == Fds \subseteq Nat \ {0}
ASSUME NoneAssumption == None \notin Conns
ASSUME SizesAssumption ==
    /\ Capacity \in Nat \ {0}
    /\ RecvMax \in Nat \ {0}
    /\ SockBuf \in Nat
    /\ RecvMax =< SockBuf
ASSUME QuotaAssumption == Quota \in [Conns -> Nat]

VARIABLES
    g_sockets, g_count, g_mutex,    \* the globals; g_mutex holds its owner
    mpc, client_socket,             \* main: where it is, what accept returned
    tpc, arg, received, i,          \* client_handler of each connection
    owner,                          \* kernel: connection behind each descriptor
    link, gone,                     \* kernel: handshake done, peer has closed
    outN, inN,                      \* bytes of c at the server, passed to recv
    sent, got,                      \* bytes given to send for c, how many c read
    hit,                            \* a send followed c's departure
    server                          \* "up", or how the process ended

table == <<g_sockets, g_count>>
main == <<mpc, client_socket>>
handler == <<tpc, arg, received, i>>
socks == <<owner, link, gone>>
bytes == <<outN, inN, sent, got, hit>>
vars == <<table, g_mutex, main, handler, socks, bytes, server>>

Slots == 0..Capacity - 1
Pc == {"none", "recv", "lock", "cast", "leave", "close", "done", "orphan"}

Registered(c) == arg[c].socket # 0
InTable(c) == Registered(c) /\ g_sockets[arg[c].index] # 0
Pending(c) == outN[c] - inN[c]

\* buffer[0..received): what c said last, as bytes of c.
Chunk(c) == [n \in 1..received[c] |-> <<c, inN[c] - received[c] + n>>]

TypeOK ==
    /\ g_sockets \in [Slots -> Fds \cup {0}]
    /\ g_count \in 0..Capacity
    /\ g_mutex \in Conns \cup {None}
    /\ mpc \in {"accept", "register", "spawn"}
    /\ client_socket \in Fds \cup {0}
    /\ tpc \in [Conns -> Pc]
    /\ arg \in [Conns -> [socket : Fds \cup {0}, index : Slots]]
    /\ received \in [Conns -> 0..RecvMax]
    /\ i \in [Conns -> 0..Capacity]
    /\ owner \in [Fds -> Conns \cup {None}]
    /\ link \in [Conns -> {"idle", "queued", "accepted"}]
    /\ gone \in [Conns -> BOOLEAN]
    /\ outN \in [Conns -> Nat]
    /\ inN \in [Conns -> Nat]
    /\ sent \in [Conns -> Seq(Conns \X Nat)]
    /\ got \in [Conns -> Nat]
    /\ hit \in [Conns -> BOOLEAN]
    /\ server \in {"up", "sigpipe", "crash", "overrun"}

Init ==
    /\ g_sockets = [j \in Slots |-> 0]
    /\ g_count = 0
    /\ g_mutex = None
    /\ mpc = "accept"
    /\ client_socket = 0
    /\ tpc = [c \in Conns |-> "none"]
    /\ arg = [c \in Conns |-> [socket |-> 0, index |-> 0]]
    /\ received = [c \in Conns |-> 0]
    /\ i = [c \in Conns |-> 0]
    /\ owner = [f \in Fds |-> None]
    /\ link = [c \in Conns |-> "idle"]
    /\ gone = [c \in Conns |-> FALSE]
    /\ outN = [c \in Conns |-> 0]
    /\ inN = [c \in Conns |-> 0]
    /\ sent = [c \in Conns |-> <<>>]
    /\ got = [c \in Conns |-> 0]
    /\ hit = [c \in Conns |-> FALSE]
    /\ server = "up"
-----------------------------------------------------------------------------
(* The clients, and the kernel on their side.                              *)

\* The handshake ends; accept() has not returned it yet.
Connect(c) ==
    /\ link[c] = "idle"
    /\ link' = [link EXCEPT ![c] = "queued"]
    /\ UNCHANGED <<table, g_mutex, main, handler, owner, gone, bytes, server>>

\* One more byte of c reaches the server's socket.
ClientWrite(c) ==
    /\ link[c] # "idle"
    /\ ~gone[c]
    /\ outN[c] < Quota[c]
    /\ outN' = [outN EXCEPT ![c] = @ + 1]
    /\ UNCHANGED <<table, g_mutex, main, handler, socks, inN, sent, got, hit, server>>

ClientRead(c) ==
    /\ ~gone[c]
    /\ \E k \in 1..Len(sent[c]) - got[c] : got' = [got EXCEPT ![c] = @ + k]
    /\ UNCHANGED <<table, g_mutex, main, handler, socks, outN, inN, sent, hit, server>>

\* The client closes, possibly before accept() has returned it.
ClientLeave(c) ==
    /\ c \in Leavers
    /\ link[c] # "idle"
    /\ ~gone[c]
    /\ gone' = [gone EXCEPT ![c] = TRUE]
    /\ UNCHANGED <<table, g_mutex, main, handler, owner, link, bytes, server>>

-----------------------------------------------------------------------------
(* main: accept, register, spawn.                                          *)

FreeFds == {f \in Fds : owner[f] = None}
LowestFd(S) == CHOOSE f \in S : \A g \in S : f =< g

\* A failing accept() changes nothing and is tried again.
Accept ==
    /\ mpc = "accept"
    /\ FreeFds # {}
    /\ \E c \in Conns :
         /\ link[c] = "queued"
         /\ link' = [link EXCEPT ![c] = "accepted"]
         /\ client_socket' = LowestFd(FreeFds)
         /\ owner' = [owner EXCEPT ![LowestFd(FreeFds)] = c]
    /\ mpc' = "register"
    /\ UNCHANGED <<table, g_mutex, handler, gone, bytes, server>>

\* Mutant: main registers a client without taking the mutex.
RegisterUnlocked ==
    /\ mpc = "register"
    /\ g_count < Capacity
    /\ g_sockets' = [g_sockets EXCEPT ![g_count] = client_socket]
    /\ arg' = [arg EXCEPT ![owner[client_socket]] =
                            [socket |-> client_socket, index |-> g_count]]
    /\ g_count' = g_count + 1
    /\ mpc' = "spawn"
    /\ UNCHANGED <<g_mutex, client_socket, tpc, received, i, socks, bytes, server>>

Register ==
    /\ mpc = "register"
    /\ g_mutex = None
    /\ g_count < Capacity
    /\ g_sockets' = [g_sockets EXCEPT ![g_count] = client_socket]
    /\ arg' = [arg EXCEPT ![owner[client_socket]] =
                            [socket |-> client_socket, index |-> g_count]]
    /\ g_count' = g_count + 1
    /\ mpc' = "spawn"
    /\ UNCHANGED <<g_mutex, client_socket, tpc, received, i, socks, bytes, server>>

\* The write past the end of g_sockets: what follows is not described.
Overrun ==
    /\ mpc = "register"
    /\ g_mutex = None
    /\ g_count = Capacity
    /\ server' = "overrun"
    /\ UNCHANGED <<table, g_mutex, main, handler, socks, bytes>>

Spawn ==
    /\ mpc = "spawn"
    /\ tpc' = [tpc EXCEPT ![owner[client_socket]] = "recv"]
    /\ mpc' = "accept"
    /\ UNCHANGED <<table, g_mutex, client_socket, arg, received, i, socks, bytes, server>>

\* pthread_create fails unnoticed; pthread_detach gets an indeterminate id.
SpawnFails ==
    /\ mpc = "spawn"
    /\ tpc' = [tpc EXCEPT ![owner[client_socket]] = "orphan"]
    /\ mpc' = "accept"
    /\ server' \in {"up", "crash"}
    /\ UNCHANGED <<table, g_mutex, client_socket, arg, received, i, socks, bytes>>
-----------------------------------------------------------------------------
(* client_handler(c).                                                      *)

Smaller(m, n) == IF m < n THEN m ELSE n

Recv(c) ==
    /\ tpc[c] = "recv"
    /\ \E k \in 1..Smaller(RecvMax, Pending(c)) :
         /\ received' = [received EXCEPT ![c] = k]
         /\ inN' = [inN EXCEPT ![c] = @ + k]
    /\ tpc' = [tpc EXCEPT ![c] = "lock"]
    /\ UNCHANGED <<table, g_mutex, main, arg, i, socks, outN, sent, got, hit, server>>

\* recv() returns 0 or -1.
RecvEnd(c) ==
    /\ tpc[c] = "recv"
    /\ gone[c]
    /\ Pending(c) = 0
    /\ received' = [received EXCEPT ![c] = 0]
    /\ tpc' = [tpc EXCEPT ![c] = "leave"]
    /\ UNCHANGED <<table, g_mutex, main, arg, i, socks, bytes, server>>

\* Mutant: the loop of l.48 runs without the mutex.
BroadcastUnlocked(c) ==
    /\ tpc[c] = "lock"
    /\ i' = [i EXCEPT ![c] = 0]
    /\ tpc' = [tpc EXCEPT ![c] = "cast"]
    /\ UNCHANGED <<table, g_mutex, main, arg, received, socks, bytes, server>>

BroadcastBegin(c) ==
    /\ tpc[c] = "lock"
    /\ g_mutex = None
    /\ g_mutex' = c
    /\ i' = [i EXCEPT ![c] = 0]
    /\ tpc' = [tpc EXCEPT ![c] = "cast"]
    /\ UNCHANGED <<table, main, arg, received, socks, bytes, server>>

Skipped(c, fd) == fd = 0 \/ fd = arg[c].socket

BroadcastSkip(c) ==
    /\ tpc[c] = "cast"
    /\ i[c] < g_count
    /\ Skipped(c, g_sockets[i[c]])
    /\ i' = [i EXCEPT ![c] = @ + 1]
    /\ UNCHANGED <<table, g_mutex, main, tpc, arg, received, socks, bytes, server>>

\* send() to the connection behind slot i[c]; a slot with no connection
\* behind it would be a failed send.  It waits for room, unless d has closed.
BroadcastSend(c) ==
    /\ tpc[c] = "cast"
    /\ i[c] < g_count
    /\ ~Skipped(c, g_sockets[i[c]])
    /\ i' = [i EXCEPT ![c] = @ + 1]
    /\ LET d == owner[g_sockets[i[c]]] IN
         IF d = None
         THEN UNCHANGED <<sent, hit>>
         ELSE /\ gone[d] \/ Len(sent[d]) - got[d] + received[c] =< SockBuf
              /\ sent' = [sent EXCEPT ![d] = @ \o Chunk(c)]
              /\ hit' = [hit EXCEPT ![d] = gone[d]]
    /\ UNCHANGED <<table, g_mutex, main, tpc, arg, received, socks, outN, inN, got, server>>

\* The same send() once the peer's reset is known: SIGPIPE, not handled.
BroadcastDies(c) ==
    /\ tpc[c] = "cast"
    /\ i[c] < g_count
    /\ ~Skipped(c, g_sockets[i[c]])
    /\ LET d == owner[g_sockets[i[c]]] IN
         /\ d # None
         /\ gone[d]
         /\ hit[d] \/ tpc[d] = "leave"
    /\ server' = "sigpipe"
    /\ UNCHANGED <<table, g_mutex, main, handler, socks, bytes>>

\* Mutant: the handler returns to recv() without unlocking.
BroadcastEndKeepsMutex(c) ==
    /\ tpc[c] = "cast"
    /\ i[c] = g_count
    /\ tpc' = [tpc EXCEPT ![c] = "recv"]
    /\ UNCHANGED <<table, g_mutex, main, arg, received, i, socks, bytes, server>>

BroadcastEnd(c) ==
    /\ tpc[c] = "cast"
    /\ i[c] = g_count
    /\ g_mutex' = None
    /\ tpc' = [tpc EXCEPT ![c] = "recv"]
    /\ UNCHANGED <<table, main, arg, received, i, socks, bytes, server>>

\* Mutant: the counter goes back, as if the last slot had been given up.
LeaveCountsDown(c) ==
    /\ tpc[c] = "leave"
    /\ g_mutex = None
    /\ g_sockets' = [g_sockets EXCEPT ![arg[c].index] = 0]
    /\ g_count' = g_count - 1
    /\ tpc' = [tpc EXCEPT ![c] = "close"]
    /\ UNCHANGED <<g_mutex, main, arg, received, i, socks, bytes, server>>

\* Mutant: the slot is never given up.
LeaveKeepsSlot(c) ==
    /\ tpc[c] = "leave"
    /\ g_mutex = None
    /\ tpc' = [tpc EXCEPT ![c] = "close"]
    /\ UNCHANGED <<table, g_mutex, main, arg, received, i, socks, bytes, server>>

\* Mutant: close() first, the slot afterwards.
LeaveClosesFirst(c) ==
    /\ tpc[c] = "leave"
    /\ owner' = [owner EXCEPT ![arg[c].socket] = None]
    /\ tpc' = [tpc EXCEPT ![c] = "close"]
    /\ UNCHANGED <<table, g_mutex, main, arg, received, i, link, gone, bytes, server>>

\* Give the slot up, then the descriptor: in this order, and not at once.
Leave(c) ==
    /\ tpc[c] = "leave"
    /\ g_mutex = None
    /\ g_sockets' = [g_sockets EXCEPT ![arg[c].index] = 0]
    /\ tpc' = [tpc EXCEPT ![c] = "close"]
    /\ UNCHANGED <<g_count, g_mutex, main, arg, received, i, socks, bytes, server>>

Close(c) ==
    /\ tpc[c] = "close"
    /\ owner' = [owner EXCEPT ![arg[c].socket] = None]
    /\ tpc' = [tpc EXCEPT ![c] = "done"]
    /\ UNCHANGED <<table, g_mutex, main, arg, received, i, link, gone, bytes, server>>
-----------------------------------------------------------------------------
Client(c) == Connect(c) \/ ClientWrite(c) \/ ClientRead(c) \/ ClientLeave(c)
Main == Accept \/ Register \/ Overrun \/ Spawn \/ SpawnFails
Handler(c) ==
    \/ Recv(c) \/ RecvEnd(c)
    \/ BroadcastBegin(c) \/ BroadcastSkip(c) \/ BroadcastSend(c)
    \/ BroadcastDies(c) \/ BroadcastEnd(c)
    \/ Leave(c) \/ Close(c)

\* Once the process is dead nothing of it matters any more.
Next ==
    /\ server = "up"
    /\ Main \/ \E c \in Conns : Client(c) \/ Handler(c)

Spec == Init /\ [][Next]_vars

(* The scheduler runs every thread that can run, and the clients that stay *)
(* read: without that a full socket keeps g_mutex, and everybody, waiting. *)
FairSpec ==
    /\ Spec
    /\ WF_vars(server = "up" /\ Main)
    /\ \A c \in Conns :
         /\ WF_vars(server = "up" /\ Handler(c))
         /\ WF_vars(server = "up" /\ ClientRead(c))
-----------------------------------------------------------------------------
(* What the server is for.                                                 *)

\* A descriptor in the table is open and belongs to the connection that was
\* registered in that very slot: a broadcast never writes to a closed
\* descriptor, nor to a stranger who got the number of a client that left
\* (l.39 before l.41; accept() hands out the lowest free number at l.84).
NoStaleSlot ==
    \A j \in Slots : g_sockets[j] # 0 =>
        LET d == owner[g_sockets[j]] IN
        /\ d \in Conns
        /\ arg[d] = [socket |-> g_sockets[j], index |-> j]

\* The table is used up by registrations, not by the clients that are connected:
\* no slot is ever given out twice (l.94-96), so the write past it (l.95) comes
\* after exactly Capacity clients, present or long gone.
SlotsUsedUp ==
    /\ g_count = Cardinality({c \in Conns : Registered(c)})
    /\ server = "overrun" => \A j \in Slots : \E c \in Conns : Registered(c) /\ arg[c].index = j

\* g_mutex is held by the thread that is inside the loop of l.48-52, and by
\* nobody when there is none: no path keeps it, no two threads have it.
MutexHeld == \A c \in Conns : tpc[c] = "cast" <=> g_mutex = c

\* The threads, the slots and the descriptors agree about every connection.
MainInv ==
    /\ mpc = "register" =>
        /\ client_socket # 0
        /\ owner[client_socket] \in Conns
        /\ ~Registered(owner[client_socket])
        /\ tpc[owner[client_socket]] = "none"
    /\ mpc = "spawn" =>
        /\ client_socket # 0
        /\ owner[client_socket] \in Conns
        /\ arg[owner[client_socket]].socket = client_socket
        /\ tpc[owner[client_socket]] = "none"

OwnerInv ==
    /\ \A f, g \in Fds : owner[f] = owner[g] /\ owner[f] # None => f = g
    /\ \A f \in Fds : owner[f] # None => link[owner[f]] = "accepted"

SlotInv ==
    /\ \A c \in Conns : tpc[c] # "none" => Registered(c)
    /\ \A c \in Conns : Registered(c) =>
        /\ arg[c].index < g_count
        /\ link[c] = "accepted"
        /\ g_sockets[arg[c].index] =
              IF tpc[c] \in {"close", "done"} THEN 0 ELSE arg[c].socket
        /\ tpc[c] # "done" => owner[arg[c].socket] = c
    /\ \A c, d \in Conns :
        Registered(c) /\ Registered(d) /\ arg[c].index = arg[d].index => c = d

ByteInv ==
    /\ \A c \in Conns : inN[c] =< outN[c] /\ outN[c] =< Quota[c]
    /\ \A c \in Conns : received[c] =< inN[c]
    /\ \A c \in Conns : got[c] =< Len(sent[c])

\* A broadcast has something to say.
ChunkInv == \A c \in Conns : tpc[c] \in {"lock", "cast"} => received[c] > 0

\* Every slot below the counter has been given to a connection of its own.
UsedInv ==
    /\ IsFiniteSet({c \in Conns : Registered(c)})
    /\ g_count = Cardinality({c \in Conns : Registered(c)})
    /\ \A j \in Slots : j < g_count => \E c \in Conns : Registered(c) /\ arg[c].index = j
    /\ server = "overrun" => g_count = Capacity

\* The inductive invariant: threads, mutex, table, descriptors and bytes agree at
\* every point between accept and close (l.19-57, l.79-106).
IndInv ==
    /\ TypeOK /\ MutexHeld /\ MainInv /\ OwnerInv /\ SlotInv /\ NoStaleSlot
    /\ ByteInv /\ ChunkInv /\ UsedInv

Common(c, d) == {p \in (1..Len(sent[c])) \X (1..Len(sent[d])) :
                    sent[c][p[1]] = sent[d][p[2]]}

\* Two clients never hear the same two bytes in different orders, and nobody
\* hears a byte twice, whoever spoke and whenever they came (l.47-53).
SameOrder ==
    \A c, d \in Conns : \A p, q \in Common(c, d) : p[1] < q[1] <=> p[2] < q[2]

\* A send() can only kill the process between a client's departure and the
\* moment its own handler takes it out of the table (l.36-39), or when that
\* client has no handler (l.104).
SigpipeWindow ==
    server = "sigpipe" =>
        \E d \in Conns : gone[d] /\ InTable(d) /\ tpc[d] \notin {"close", "done"}

\* The slot that broadcaster b, if there is one, has not reached yet.
Awaiting(d, b) ==
    tpc[b] = "cast" /\ d # b /\ InTable(d) /\ arg[d].index >= i[b]

Place == [c \in Conns |-> IF InTable(c) THEN "inside"
                         ELSE IF Registered(c) THEN "left" ELSE "outside"]

\* A byte is said when the broadcast takes the mutex: from then on nothing
\* can come between it and the clients who are in the table.
Said == [c \in Conns |-> IF tpc[c] = "lock" THEN inN[c] - received[c] ELSE inN[c]]

Stream == [d \in Conns |-> IF \E b \in Conns : Awaiting(d, b)
                          THEN sent[d] \o Chunk(CHOOSE b \in Conns : Awaiting(d, b))
                          ELSE sent[d]]

Room == INSTANCE ChatRoom WITH
    MaxWords <- RecvMax, place <- Place, said <- Said, stream <- Stream,
    open <- (server = "up")

\* The threads, the mutex and the table together are the chat room of
\* ChatRoom: a broadcast is heard whole, at once, by exactly the others who
\* are registered, and never by its speaker.
RoomSpec == Room!Spec

\* A byte that reached the server while its speaker is being served is heard
\* by every client then in the table, unless that one leaves or the process
\* dies: no lost wakeup, no mutex kept, no slot passed over.
EveryoneHears ==
    \A c, d \in Conns : \A k \in 1..Quota[c] :
        (/\ c # d
         /\ InTable(d)
         /\ tpc[c] \in {"recv", "lock", "cast"}
         /\ inN[c] < k /\ k =< outN[c])
        ~> \/ \E n \in 1..got[d] : sent[d][n] = <<c, k>>
           \/ gone[d]
           \/ server # "up"
=============================================================================
