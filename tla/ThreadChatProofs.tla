-------------------------- MODULE ThreadChatProofs --------------------------
(***************************************************************************)
(* The inductive invariant of ThreadChat, for every set of connections,    *)
(* every table size and every buffer size; and that it implements ChatRoom.*)
(***************************************************************************)
EXTENDS ThreadChat, TLAPS, WellFoundedInduction,
        SequenceTheorems, FiniteSetTheorems

(* A nonempty set of descriptors has a lowest one: what accept() returns.  *)
LEMMA LowestFdFree ==
    ASSUME NEW S \in SUBSET Fds, S # {}
    PROVE  LowestFd(S) \in S
<1>1. S \subseteq Nat
  BY FdsAssumption
<1>2. PICK f \in S : \A g \in S : <<g, f>> \notin OpToRel(<, Nat)
  BY <1>1, WFMin, NatLessThanWellFounded, Zenon
<1>3. \A g \in S : ~(g < f)
  BY <1>1, <1>2, Zenon DEF OpToRel
<1>4. \A g \in S : f =< g
  BY <1>1, <1>3
<1>5. QED
  BY <1>4 DEF LowestFd

(* What an accept() does to the descriptors, without LowestFd. *)
LEMMA AcceptEffect ==
    ASSUME Accept
    PROVE  \E c \in Conns, f \in Fds :
             /\ owner[f] = None
             /\ owner' = [owner EXCEPT ![f] = c]
             /\ client_socket' = f
             /\ link[c] = "queued"
             /\ link' = [link EXCEPT ![c] = "accepted"]
             /\ mpc' = "register"
             /\ UNCHANGED <<g_sockets, g_count, g_mutex, tpc, arg, received, i,
                            gone, outN, inN, sent, got, hit, server>>
<1> DEFINE f == LowestFd(FreeFds)
<1>1. f \in Fds /\ owner[f] = None
  BY LowestFdFree DEF Accept, FreeFds
<1>2. QED
  BY <1>1 DEF Accept, table, main, handler, bytes

(* What Chunk is, for the handlers that send it. *)
LEMMA ChunkType ==
    ASSUME TypeOK, ByteInv, NEW c \in Conns
    PROVE  Chunk(c) \in Seq(Conns \X Nat)
<1>0. inN[c] \in Nat /\ received[c] \in Nat /\ received[c] =< inN[c]
  BY SizesAssumption DEF TypeOK, ByteInv
<1>1. \A n \in 1..received[c] : inN[c] - received[c] + n \in Nat
  BY <1>0
<1>2. Chunk(c) = [n \in 1..received[c] |-> <<c, inN[c] - received[c] + n>>]
  BY DEF Chunk
<1>3. Chunk(c) \in [1..received[c] -> Conns \X Nat]
  BY <1>1, <1>2
<1>4. received[c] \in Nat
  BY SizesAssumption DEF TypeOK
<1>5. QED
  BY <1>3, <1>4, SeqDef

(* Every step keeps the variables in their types. *)
LEMMA TypeStep ==
    ASSUME IndInv, Next
    PROVE  TypeOK'
<1> USE DEF IndInv, TypeOK, table, main, handler, socks, bytes, Slots, Pc
<1>1. CASE Accept
  <2>1. PICK d \in Conns, f \in Fds :
            /\ owner' = [owner EXCEPT ![f] = d]
            /\ client_socket' = f
            /\ link' = [link EXCEPT ![d] = "accepted"]
            /\ mpc' = "register"
            /\ UNCHANGED <<g_sockets, g_count, g_mutex, tpc, arg, received, i,
                           gone, outN, inN, sent, got, hit, server>>
    BY <1>1, AcceptEffect
  <2>2. QED
    BY <2>1
<1>2. CASE Register
  <2>1. client_socket \in Fds /\ owner[client_socket] \in Conns
    BY <1>2 DEF Register, MainInv
  <2>2. g_count \in Slots /\ g_count + 1 \in 0..Capacity
    BY <1>2, SizesAssumption DEF Register
  <2>3. g_sockets' \in [Slots -> Fds \cup {0}]
    BY <1>2, <2>1 DEF Register
  <2>4. arg' \in [Conns -> [socket : Fds \cup {0}, index : Slots]]
    BY <1>2, <2>1, <2>2 DEF Register
  <2>5. QED
    BY <1>2, <2>2, <2>3, <2>4 DEF Register
<1>3. CASE Overrun
  BY <1>3, FdsAssumption, SizesAssumption DEF Overrun
<1>4. CASE Spawn
  BY <1>4, FdsAssumption, SizesAssumption DEF Spawn, MainInv
<1>5. CASE SpawnFails
  BY <1>5, FdsAssumption, SizesAssumption DEF SpawnFails, MainInv
<1>6. ASSUME NEW c \in Conns, Connect(c) PROVE TypeOK'
  BY <1>6, FdsAssumption, SizesAssumption DEF Connect
<1>7. ASSUME NEW c \in Conns, ClientWrite(c) PROVE TypeOK'
  <2>1. outN' \in [Conns -> Nat]
    BY <1>7, SizesAssumption DEF ClientWrite
  <2>2. QED
    BY <1>7, <2>1 DEF ClientWrite
<1>8. ASSUME NEW c \in Conns, ClientRead(c) PROVE TypeOK'
  <2>1. PICK k \in 1..Len(sent[c]) - got[c] : got' = [got EXCEPT ![c] = @ + k]
    BY <1>8 DEF ClientRead
  <2>2. Len(sent[c]) \in Nat
    OBVIOUS
  <2>3. k \in Nat
    BY <2>2
  <2>4. got \in [Conns -> Nat]
    OBVIOUS
  <2>5. got' \in [Conns -> Nat]
    <3> HIDE DEF IndInv, TypeOK
    <3>1. QED
      BY <2>1, <2>3, <2>4
  <2>6. QED
    BY <1>8, <2>5 DEF ClientRead
<1>9. ASSUME NEW c \in Conns, ClientLeave(c) PROVE TypeOK'
  BY <1>9, FdsAssumption, SizesAssumption DEF ClientLeave
<1>10. ASSUME NEW c \in Conns, Recv(c) PROVE TypeOK'
  <2>1. PICK k \in 1..Smaller(RecvMax, Pending(c)) :
            /\ received' = [received EXCEPT ![c] = k]
            /\ inN' = [inN EXCEPT ![c] = @ + k]
    BY <1>10 DEF Recv
  <2>2. k \in 0..RecvMax /\ k \in Nat
    BY SizesAssumption DEF Smaller, Pending
  <2>3. received' \in [Conns -> 0..RecvMax]
    BY <2>1, <2>2
  <2>4. inN' \in [Conns -> Nat]
    <3>1. inN \in [Conns -> Nat]
      OBVIOUS
    <3> HIDE DEF IndInv, TypeOK
    <3>2. QED
      BY <2>1, <2>2, <3>1
  <2>5. tpc' \in [Conns -> Pc]
    BY <1>10 DEF Recv
  <2>6. QED
    BY <1>10, <2>3, <2>4, <2>5 DEF Recv
<1>11. ASSUME NEW c \in Conns, RecvEnd(c) PROVE TypeOK'
  <2>1. received' \in [Conns -> 0..RecvMax]
    BY <1>11, SizesAssumption DEF RecvEnd
  <2>2. tpc' \in [Conns -> Pc]
    BY <1>11 DEF RecvEnd
  <2>3. QED
    BY <1>11, <2>1, <2>2 DEF RecvEnd
<1>12. ASSUME NEW c \in Conns, BroadcastBegin(c) PROVE TypeOK'
  <2>1. i' \in [Conns -> 0..Capacity]
    BY <1>12, SizesAssumption DEF BroadcastBegin
  <2>2. QED
    BY <1>12, <2>1 DEF BroadcastBegin
<1>13. ASSUME NEW c \in Conns, BroadcastSkip(c) PROVE TypeOK'
  <2>1. i' \in [Conns -> 0..Capacity]
    BY <1>13, SizesAssumption DEF BroadcastSkip
  <2>2. QED
    BY <1>13, <2>1 DEF BroadcastSkip
<1>14. ASSUME NEW c \in Conns, BroadcastSend(c) PROVE TypeOK'
  <2> DEFINE d == owner[g_sockets[i[c]]]
  <2>1. i' \in [Conns -> 0..Capacity]
    <3>1. /\ i \in [Conns -> 0..Capacity] /\ g_count \in 0..Capacity
          /\ i[c] < g_count /\ i' = [i EXCEPT ![c] = @ + 1]
      BY <1>14 DEF BroadcastSend
    <3> HIDE DEF IndInv, TypeOK
    <3>2. i[c] + 1 \in 0..Capacity
      BY <3>1, SizesAssumption
    <3>3. QED
      BY <3>1, <3>2
  <2>2. CASE d = None
    BY <1>14, <2>1, <2>2 DEF BroadcastSend
  <2>3. CASE d # None
    <3>1. sent' = [sent EXCEPT ![d] = @ \o Chunk(c)]
      BY <1>14, <2>3 DEF BroadcastSend
    <3>2. Chunk(c) \in Seq(Conns \X Nat)
      BY ChunkType
    <3>3. d \in Conns => sent[d] \o Chunk(c) \in Seq(Conns \X Nat)
      BY <3>2, ConcatProperties
    <3>4. sent' \in [Conns -> Seq(Conns \X Nat)]
      BY <3>1, <3>3
    <3>5. hit' \in [Conns -> BOOLEAN]
      <4>1. /\ hit \in [Conns -> BOOLEAN] /\ gone \in [Conns -> BOOLEAN]
            /\ hit' = [hit EXCEPT ![d] = gone[d]]
        BY <1>14, <2>3 DEF BroadcastSend
      <4> HIDE DEF IndInv, TypeOK
      <4>2. d \in Conns => gone[d] \in BOOLEAN
        BY <4>1
      <4>3. QED
        BY <4>1, <4>2
    <3>6. QED
      BY <1>14, <2>1, <3>4, <3>5 DEF BroadcastSend
  <2>4. QED
    BY <2>2, <2>3
<1>15. ASSUME NEW c \in Conns, BroadcastDies(c) PROVE TypeOK'
  BY <1>15, FdsAssumption, SizesAssumption DEF BroadcastDies, Skipped
<1>16. ASSUME NEW c \in Conns, BroadcastEnd(c) PROVE TypeOK'
  BY <1>16, FdsAssumption, SizesAssumption DEF BroadcastEnd
<1>17. ASSUME NEW c \in Conns, Leave(c) PROVE TypeOK'
  BY <1>17, FdsAssumption, SizesAssumption DEF Leave
<1>18. ASSUME NEW c \in Conns, Close(c) PROVE TypeOK'
  BY <1>18, FdsAssumption, SizesAssumption DEF Close
<1>19. QED
  BY <1>1, <1>2, <1>3, <1>4, <1>5, <1>6, <1>7, <1>8, <1>9, <1>10, <1>11, <1>12, <1>13, <1>14, <1>15, <1>16, <1>17, <1>18 DEF Next, Main, Client, Handler

(* No step leaves the broadcast loop with the mutex, or enters it without. *)
LEMMA MutexStep ==
    ASSUME IndInv, Next
    PROVE  MutexHeld'
<1> USE DEF MutexHeld, vars, table, main, handler, socks, bytes
<1>0. /\ TypeOK /\ MutexHeld /\ MainInv /\ OwnerInv /\ SlotInv /\ NoStaleSlot
      /\ ByteInv /\ ChunkInv /\ UsedInv
  BY DEF IndInv
<1>1. CASE UNCHANGED <<tpc, g_mutex>>
  BY <1>0, <1>1
<1>2. CASE Spawn
  BY <1>0, <1>2, FdsAssumption, NoneAssumption, SizesAssumption DEF Spawn, TypeOK, Slots, MainInv
<1>3. CASE SpawnFails
  BY <1>0, <1>3, FdsAssumption, NoneAssumption, SizesAssumption DEF SpawnFails, TypeOK, Slots, MainInv
<1>4. ASSUME NEW c \in Conns, Recv(c) PROVE MutexHeld'
  BY <1>0, <1>4, FdsAssumption, NoneAssumption, SizesAssumption DEF Recv, TypeOK, Slots, MainInv
<1>5. ASSUME NEW c \in Conns, RecvEnd(c) PROVE MutexHeld'
  BY <1>0, <1>5, FdsAssumption, NoneAssumption, SizesAssumption DEF RecvEnd, TypeOK, Slots, MainInv
<1>6. ASSUME NEW c \in Conns, BroadcastBegin(c) PROVE MutexHeld'
  BY <1>0, <1>6, FdsAssumption, NoneAssumption, SizesAssumption DEF BroadcastBegin, TypeOK, Slots, MainInv
<1>7. ASSUME NEW c \in Conns, BroadcastEnd(c) PROVE MutexHeld'
  BY <1>0, <1>7, FdsAssumption, NoneAssumption, SizesAssumption DEF BroadcastEnd, TypeOK, Slots, MainInv
<1>8. ASSUME NEW c \in Conns, Leave(c) PROVE MutexHeld'
  BY <1>0, <1>8, FdsAssumption, NoneAssumption, SizesAssumption DEF Leave, TypeOK, Slots, MainInv
<1>9. ASSUME NEW c \in Conns, Close(c) PROVE MutexHeld'
  BY <1>0, <1>9, FdsAssumption, NoneAssumption, SizesAssumption DEF Close, TypeOK, Slots, MainInv
<1>10. QED
  BY <1>1, <1>2, <1>3, <1>4, <1>5, <1>6, <1>7, <1>8, <1>9 DEF Next, Main, Client, Handler, Accept, Register, Overrun, Connect, ClientWrite, ClientRead, ClientLeave, BroadcastSkip, BroadcastSend, BroadcastDies

(* What main holds between accept(), the table and pthread_create: a        *)
(* descriptor of a connection that nobody else has touched.                *)
LEMMA MainStep ==
    ASSUME IndInv, Next
    PROVE  MainInv'
<1> USE DEF MainInv, vars, table, main, handler, socks, bytes
<1>0. /\ TypeOK /\ MutexHeld /\ MainInv /\ OwnerInv /\ SlotInv /\ NoStaleSlot
      /\ ByteInv /\ ChunkInv /\ UsedInv
  BY DEF IndInv
<1>1. CASE UNCHANGED <<mpc, client_socket, owner, arg, tpc>>
  BY <1>0, <1>1 DEF Registered
<1>2. CASE Accept
  <2>1. PICK c \in Conns, f \in Fds :
            /\ owner[f] = None
            /\ owner' = [owner EXCEPT ![f] = c]
            /\ client_socket' = f
            /\ link[c] = "queued"
            /\ link' = [link EXCEPT ![c] = "accepted"]
            /\ mpc' = "register"
            /\ UNCHANGED <<g_sockets, g_count, g_mutex, tpc, arg, received, i,
                           gone, outN, inN, sent, got, hit, server>>
    BY <1>2, AcceptEffect
  <2>2. QED
    BY <1>0, <2>1, FdsAssumption, NoneAssumption DEF TypeOK, SlotInv, Registered, OwnerInv
<1>3. CASE Register
  BY <1>0, <1>3, FdsAssumption, NoneAssumption, SizesAssumption DEF Register, TypeOK, Slots, OwnerInv, SlotInv, Registered
<1>4. CASE Spawn
  BY <1>0, <1>4, FdsAssumption, NoneAssumption, SizesAssumption DEF Spawn, TypeOK, Slots, OwnerInv, SlotInv, Registered
<1>5. CASE SpawnFails
  BY <1>0, <1>5, FdsAssumption, NoneAssumption, SizesAssumption DEF SpawnFails, TypeOK, Slots, OwnerInv, SlotInv, Registered
<1>6. ASSUME NEW c \in Conns, Recv(c) PROVE MainInv'
  BY <1>0, <1>6, FdsAssumption, NoneAssumption, SizesAssumption DEF Recv, TypeOK, Slots, OwnerInv, SlotInv, Registered
<1>7. ASSUME NEW c \in Conns, RecvEnd(c) PROVE MainInv'
  BY <1>0, <1>7, FdsAssumption, NoneAssumption, SizesAssumption DEF RecvEnd, TypeOK, Slots, OwnerInv, SlotInv, Registered
<1>8. ASSUME NEW c \in Conns, BroadcastBegin(c) PROVE MainInv'
  BY <1>0, <1>8, FdsAssumption, NoneAssumption, SizesAssumption DEF BroadcastBegin, TypeOK, Slots, OwnerInv, SlotInv, Registered
<1>9. ASSUME NEW c \in Conns, BroadcastEnd(c) PROVE MainInv'
  BY <1>0, <1>9, FdsAssumption, NoneAssumption, SizesAssumption DEF BroadcastEnd, TypeOK, Slots, OwnerInv, SlotInv, Registered
<1>10. ASSUME NEW c \in Conns, Leave(c) PROVE MainInv'
  BY <1>0, <1>10, FdsAssumption, NoneAssumption, SizesAssumption DEF Leave, TypeOK, Slots, OwnerInv, SlotInv, Registered
<1>11. ASSUME NEW c \in Conns, Close(c) PROVE MainInv'
  <2>1. /\ tpc[c] = "close" /\ tpc' = [tpc EXCEPT ![c] = "done"]
        /\ owner' = [owner EXCEPT ![arg[c].socket] = None]
        /\ UNCHANGED <<mpc, client_socket, arg>>
    BY <1>11 DEF Close
  <2>2. Registered(c) /\ owner[arg[c].socket] = c
    BY <1>0, <2>1 DEF SlotInv
  <2>3. ASSUME mpc \in {"register", "spawn"}
        PROVE  /\ owner[client_socket] # c
               /\ client_socket # arg[c].socket
    BY <1>0, <2>1, <2>2, <2>3 DEF TypeOK
  <2>4. ASSUME mpc \in {"register", "spawn"}
        PROVE  /\ owner'[client_socket] = owner[client_socket]
               /\ tpc'[owner[client_socket]] = tpc[owner[client_socket]]
    BY <1>0, <2>1, <2>3, <2>4 DEF TypeOK
  <2>5. QED
    BY <1>0, <2>1, <2>4 DEF Registered
<1>12. QED
  BY <1>1, <1>2, <1>3, <1>4, <1>5, <1>6, <1>7, <1>8, <1>9, <1>10, <1>11 DEF Next, Main, Client, Handler, Overrun, Connect, ClientWrite, ClientRead, ClientLeave, BroadcastSkip, BroadcastSend, BroadcastDies

(* No step gives one connection two descriptors, or a descriptor to a       *)
(* connection that was not accepted.                                       *)
LEMMA OwnerStep ==
    ASSUME IndInv, Next
    PROVE  OwnerInv'
<1> USE DEF OwnerInv, vars, table, main, handler, socks, bytes
<1>0. /\ TypeOK /\ MutexHeld /\ MainInv /\ OwnerInv /\ SlotInv /\ NoStaleSlot
      /\ ByteInv /\ ChunkInv /\ UsedInv
  BY DEF IndInv
<1>1. CASE UNCHANGED <<owner, link>>
  BY <1>0, <1>1
<1>2. ASSUME NEW c \in Conns, Connect(c) PROVE OwnerInv'
  BY <1>0, <1>2, FdsAssumption, NoneAssumption, SizesAssumption DEF Connect, TypeOK, Slots, SlotInv, Registered
<1>3. CASE Accept
  <2>1. PICK c \in Conns, f \in Fds :
            /\ owner[f] = None
            /\ owner' = [owner EXCEPT ![f] = c]
            /\ link[c] = "queued"
            /\ link' = [link EXCEPT ![c] = "accepted"]
    BY <1>3, AcceptEffect
  <2>2. \A g \in Fds : owner'[g] = IF g = f THEN c ELSE owner[g]
    BY <1>0, <2>1 DEF TypeOK
  <2>3. \A g \in Fds : owner[g] # None => owner[g] # c
    BY <1>0, <2>1
  <2>4. \A g \in Fds : owner'[g] # None => link'[owner'[g]] = "accepted"
    BY <1>0, <2>1, <2>2, <2>3, NoneAssumption DEF TypeOK
  <2>5. QED
    BY <1>0, <2>2, <2>3, <2>4, NoneAssumption
<1>4. ASSUME NEW c \in Conns, Close(c) PROVE OwnerInv'
  <2>1. owner' = [owner EXCEPT ![arg[c].socket] = None] /\ link' = link
    BY <1>4 DEF Close
  <2>2. QED
    BY <1>0, <2>1 DEF TypeOK
<1>5. QED
  BY <1>1, <1>2, <1>3, <1>4 DEF Next, Main, Client, Handler, Register, Overrun, Spawn, SpawnFails, ClientWrite, ClientRead, ClientLeave, Recv, RecvEnd, BroadcastBegin, BroadcastSkip, BroadcastSend, BroadcastDies, BroadcastEnd, Leave

(* Every handler keeps the slot and the descriptor it was started with, no  *)
(* other handler has them, and they are given up in that order.            *)
LEMMA SlotStep ==
    ASSUME IndInv, Next
    PROVE  SlotInv'
<1> USE DEF SlotInv, vars, table, main, handler, socks, bytes
<1>0. /\ TypeOK /\ MutexHeld /\ MainInv /\ OwnerInv /\ SlotInv /\ NoStaleSlot
      /\ ByteInv /\ ChunkInv /\ UsedInv
  BY DEF IndInv
<1>1. CASE UNCHANGED <<tpc, arg, g_count, g_sockets, owner, link>>
  BY <1>0, <1>1 DEF Registered
<1>2. ASSUME NEW c \in Conns, Connect(c) PROVE SlotInv'
  <2>1. /\ link[c] = "idle" /\ link' = [link EXCEPT ![c] = "queued"]
        /\ UNCHANGED <<tpc, arg, g_count, g_sockets, owner>>
    BY <1>2 DEF Connect
  <2>2. \A e \in Conns : Registered(e) => link'[e] = link[e]
    BY <1>0, <2>1 DEF TypeOK
  <2>3. QED
    BY <1>0, <2>1, <2>2 DEF Registered
<1>3. CASE Accept
  <2>1. PICK c \in Conns, f \in Fds :
            /\ owner[f] = None
            /\ owner' = [owner EXCEPT ![f] = c]
            /\ client_socket' = f
            /\ link[c] = "queued"
            /\ link' = [link EXCEPT ![c] = "accepted"]
            /\ mpc' = "register"
            /\ UNCHANGED <<g_sockets, g_count, g_mutex, tpc, arg, received, i,
                           gone, outN, inN, sent, got, hit, server>>
    BY <1>3, AcceptEffect
  <2>2. QED
    <3>1. \A e \in Conns : Registered(e) => e # c /\ link'[e] = link[e]
      BY <1>0, <2>1 DEF TypeOK
    <3>2. \A e \in Conns : Registered(e) /\ tpc[e] # "done" =>
              owner'[arg[e].socket] = owner[arg[e].socket]
      BY <1>0, <2>1, NoneAssumption DEF TypeOK
    <3>3. QED
      BY <1>0, <2>1, <3>1, <3>2 DEF Registered
<1>4. CASE Register
  <2> DEFINE d == owner[client_socket]
  <2>1. /\ g_count < Capacity
        /\ g_sockets' = [g_sockets EXCEPT ![g_count] = client_socket]
        /\ arg' = [arg EXCEPT ![d] = [socket |-> client_socket, index |-> g_count]]
        /\ g_count' = g_count + 1
        /\ UNCHANGED <<tpc, owner, link>>
    BY <1>4 DEF Register
  <2>2. d \in Conns /\ client_socket \in Fds /\ ~Registered(d) /\ tpc[d] = "none"
    BY <1>0, <1>4 DEF Register, MainInv, TypeOK
  <2>3. link[d] = "accepted"
    BY <1>0, <2>2, NoneAssumption DEF OwnerInv
  <2>4. g_count \in Slots /\ g_count \in Nat
    BY <1>0, <2>1, SizesAssumption DEF TypeOK, Slots
  <2>5. /\ arg'[d] = [socket |-> client_socket, index |-> g_count]
        /\ g_sockets'[g_count] = client_socket
    BY <1>0, <2>1, <2>2, <2>4 DEF TypeOK
  <2>6. \A c \in Conns : c # d => arg'[c] = arg[c]
    BY <1>0, <2>1 DEF TypeOK
  <2>7. \A c \in Conns : Registered(c) =>
            /\ arg[c].index < g_count
            /\ arg[c].index \in Slots
            /\ g_sockets'[arg[c].index] = g_sockets[arg[c].index]
    <3>1. \A c \in Conns : Registered(c) =>
              arg[c].index < g_count /\ arg[c].index \in Slots
      BY <1>0 DEF TypeOK
    <3>2. \A j \in Slots : j < g_count => g_sockets'[j] = g_sockets[j]
      BY <1>0, <2>1, <2>4 DEF TypeOK, Slots
    <3>3. QED
      BY <3>1, <3>2
  <2>8. \A c \in Conns : tpc'[c] # "none" => Registered(c)'
    BY <1>0, <2>1, <2>2, <2>6 DEF Registered
  <2>9. \A c \in Conns : Registered(c)' =>
            /\ arg'[c].index < g_count'
            /\ link'[c] = "accepted"
            /\ g_sockets'[arg'[c].index] =
                  IF tpc'[c] \in {"close", "done"} THEN 0 ELSE arg'[c].socket
            /\ tpc'[c] # "done" => owner'[arg'[c].socket] = c
    <3> SUFFICES ASSUME NEW c \in Conns, Registered(c)'
                 PROVE  /\ arg'[c].index < g_count'
                        /\ link'[c] = "accepted"
                        /\ g_sockets'[arg'[c].index] =
                              IF tpc'[c] \in {"close", "done"} THEN 0
                              ELSE arg'[c].socket
                        /\ tpc'[c] # "done" => owner'[arg'[c].socket] = c
      OBVIOUS
    <3>1. CASE c = d
      BY <2>1, <2>2, <2>3, <2>4, <2>5, <3>1
    <3>2. CASE c # d
      <4>1. Registered(c) /\ arg'[c] = arg[c]
        BY <2>6, <3>2 DEF Registered
      <4>2. arg[c].index < g_count'
        BY <1>0, <2>1, <2>4, <2>7, <4>1 DEF TypeOK, Slots
      <4>3. QED
        BY <1>0, <2>1, <2>7, <4>1, <4>2
    <3>3. QED
      BY <3>1, <3>2
  <2>10. \A c, e \in Conns :
            Registered(c)' /\ Registered(e)' /\ arg'[c].index = arg'[e].index
            => c = e
    <3> SUFFICES ASSUME NEW c \in Conns, NEW e \in Conns, Registered(c)',
                        Registered(e)', arg'[c].index = arg'[e].index, c # e
                 PROVE  FALSE
      OBVIOUS
    <3>1. \A x \in Conns : x # d /\ Registered(x)' => arg'[x].index # g_count
      BY <2>4, <2>6, <2>7 DEF Registered, Slots
    <3>2. c # d /\ e # d
      BY <2>5, <3>1
    <3>3. QED
      BY <1>0, <2>6, <3>2 DEF Registered
  <2>11. QED
    BY <2>8, <2>9, <2>10
<1>5. CASE Spawn
  <2>1. /\ tpc' = [tpc EXCEPT ![owner[client_socket]] = "recv"]
        /\ UNCHANGED <<arg, g_count, g_sockets, owner, link>>
    BY <1>5 DEF Spawn
  <2>2. owner[client_socket] \in Conns /\ Registered(owner[client_socket])
        /\ tpc[owner[client_socket]] = "none"
    BY <1>0, <1>5 DEF Spawn, MainInv, Registered
  <2>3. QED
    BY <1>0, <2>1, <2>2 DEF TypeOK, Registered
<1>6. CASE SpawnFails
  <2>1. /\ tpc' = [tpc EXCEPT ![owner[client_socket]] = "orphan"]
        /\ UNCHANGED <<arg, g_count, g_sockets, owner, link>>
    BY <1>6 DEF SpawnFails
  <2>2. owner[client_socket] \in Conns /\ Registered(owner[client_socket])
        /\ tpc[owner[client_socket]] = "none"
    BY <1>0, <1>6 DEF SpawnFails, MainInv, Registered
  <2>3. QED
    BY <1>0, <2>1, <2>2 DEF TypeOK, Registered
<1>7. ASSUME NEW c \in Conns, Recv(c) PROVE SlotInv'
  <2>1. /\ tpc[c] = "recv" /\ tpc' = [tpc EXCEPT ![c] = "lock"]
        /\ UNCHANGED <<arg, g_count, g_sockets, owner, link>>
    BY <1>7 DEF Recv
  <2>2. QED
    BY <1>0, <2>1 DEF TypeOK, Registered
<1>8. ASSUME NEW c \in Conns, RecvEnd(c) PROVE SlotInv'
  <2>1. /\ tpc[c] = "recv" /\ tpc' = [tpc EXCEPT ![c] = "leave"]
        /\ UNCHANGED <<arg, g_count, g_sockets, owner, link>>
    BY <1>8 DEF RecvEnd
  <2>2. QED
    BY <1>0, <2>1 DEF TypeOK, Registered
<1>9. ASSUME NEW c \in Conns, BroadcastBegin(c) PROVE SlotInv'
  <2>1. /\ tpc[c] = "lock" /\ tpc' = [tpc EXCEPT ![c] = "cast"]
        /\ UNCHANGED <<arg, g_count, g_sockets, owner, link>>
    BY <1>9 DEF BroadcastBegin
  <2>2. QED
    BY <1>0, <2>1 DEF TypeOK, Registered
<1>10. ASSUME NEW c \in Conns, BroadcastEnd(c) PROVE SlotInv'
  <2>1. /\ tpc[c] = "cast" /\ tpc' = [tpc EXCEPT ![c] = "recv"]
        /\ UNCHANGED <<arg, g_count, g_sockets, owner, link>>
    BY <1>10 DEF BroadcastEnd
  <2>2. QED
    BY <1>0, <2>1 DEF TypeOK, Registered
<1>11. ASSUME NEW c \in Conns, Leave(c) PROVE SlotInv'
  <2>1. /\ tpc[c] = "leave" /\ tpc' = [tpc EXCEPT ![c] = "close"]
        /\ g_sockets' = [g_sockets EXCEPT ![arg[c].index] = 0]
        /\ UNCHANGED <<arg, g_count, owner, link>>
    BY <1>11 DEF Leave
  <2>2. /\ Registered(c)
        /\ \A e \in Conns : arg[e].index \in Slots
        /\ \A e \in Conns : Registered(e) /\ e # c => arg[e].index # arg[c].index
    BY <1>0, <2>1 DEF TypeOK
  <2>3. /\ tpc'[c] = "close" /\ g_sockets'[arg[c].index] = 0
        /\ \A e \in Conns : e # c => tpc'[e] = tpc[e]
        /\ \A e \in Conns : Registered(e) /\ e # c =>
              g_sockets'[arg[e].index] = g_sockets[arg[e].index]
    BY <1>0, <2>1, <2>2 DEF TypeOK
  <2>4. QED
    BY <1>0, <2>1, <2>2, <2>3 DEF Registered
<1>12. ASSUME NEW c \in Conns, Close(c) PROVE SlotInv'
  <2>1. /\ tpc[c] = "close" /\ tpc' = [tpc EXCEPT ![c] = "done"]
        /\ owner' = [owner EXCEPT ![arg[c].socket] = None]
        /\ UNCHANGED <<arg, g_count, g_sockets, link>>
    BY <1>12 DEF Close
  <2>2. /\ Registered(c)
        /\ owner[arg[c].socket] = c
    BY <1>0, <2>1
  <2>3. \A e \in Conns : Registered(e) /\ e # c /\ tpc[e] # "done" =>
            arg[e].socket # arg[c].socket /\ arg[e].socket \in Fds
    BY <1>0, <2>2 DEF TypeOK, Registered
  <2>4. /\ tpc'[c] = "done"
        /\ \A e \in Conns : e # c => tpc'[e] = tpc[e]
        /\ \A e \in Conns : Registered(e) /\ e # c /\ tpc[e] # "done" =>
              owner'[arg[e].socket] = e
    BY <1>0, <2>1, <2>3 DEF TypeOK
  <2>5. QED
    BY <1>0, <2>1, <2>2, <2>4 DEF Registered
<1>13. QED
  BY <1>1, <1>2, <1>3, <1>4, <1>5, <1>6, <1>7, <1>8, <1>9, <1>10, <1>11, <1>12 DEF Next, Main, Client, Handler, Overrun, ClientWrite, ClientRead, ClientLeave, BroadcastSkip, BroadcastSend, BroadcastDies

(* No step leaves a closed or reused descriptor in the table.               *)
LEMMA StaleStep ==
    ASSUME IndInv, Next
    PROVE  NoStaleSlot'
<1> USE DEF NoStaleSlot, vars, table, main, handler, socks, bytes
<1>0. /\ TypeOK /\ MutexHeld /\ MainInv /\ OwnerInv /\ SlotInv /\ NoStaleSlot
      /\ ByteInv /\ ChunkInv /\ UsedInv
  BY DEF IndInv
<1>1. CASE UNCHANGED <<g_sockets, owner, arg>>
  BY <1>0, <1>1
<1>2. CASE Accept
  <2>1. PICK c \in Conns, f \in Fds :
            /\ owner[f] = None
            /\ owner' = [owner EXCEPT ![f] = c]
            /\ client_socket' = f
            /\ link[c] = "queued"
            /\ link' = [link EXCEPT ![c] = "accepted"]
            /\ mpc' = "register"
            /\ UNCHANGED <<g_sockets, g_count, g_mutex, tpc, arg, received, i,
                           gone, outN, inN, sent, got, hit, server>>
    BY <1>2, AcceptEffect
  <2>2. QED
    <3>1. \A j \in Slots : g_sockets[j] # 0 =>
              owner'[g_sockets[j]] = owner[g_sockets[j]]
      <4> SUFFICES ASSUME NEW j \in Slots, g_sockets[j] # 0
                   PROVE  owner'[g_sockets[j]] = owner[g_sockets[j]]
        OBVIOUS
      <4>1. g_sockets[j] \in Fds /\ owner \in [Fds -> Conns \cup {None}]
        BY <1>0 DEF TypeOK
      <4>2. g_sockets[j] # f
        BY <1>0, <2>1, NoneAssumption
      <4>3. QED
        BY <2>1, <4>1, <4>2
    <3>2. QED
      BY <1>0, <2>1, <3>1
<1>3. CASE Register
  BY SMTT(30), <1>0, <1>3, FdsAssumption, NoneAssumption, SizesAssumption DEF Register, TypeOK, Slots, MainInv, OwnerInv, SlotInv, Registered
<1>4. ASSUME NEW c \in Conns, Leave(c) PROVE NoStaleSlot'
  BY <1>0, <1>4, FdsAssumption, NoneAssumption, SizesAssumption DEF Leave, TypeOK, Slots, MainInv, OwnerInv, SlotInv, Registered
<1>5. ASSUME NEW c \in Conns, Close(c) PROVE NoStaleSlot'
  <2>1. /\ tpc[c] = "close"
        /\ owner' = [owner EXCEPT ![arg[c].socket] = None]
        /\ UNCHANGED <<g_sockets, arg>>
    BY <1>5 DEF Close
  <2>2. Registered(c) /\ owner[arg[c].socket] = c /\ g_sockets[arg[c].index] = 0
    BY <1>0, <2>1 DEF SlotInv
  <2>3. \A j \in Slots : g_sockets[j] # arg[c].socket
    <3> SUFFICES ASSUME NEW j \in Slots, g_sockets[j] = arg[c].socket
                 PROVE  FALSE
      OBVIOUS
    <3>1. arg[c] = [socket |-> g_sockets[j], index |-> j]
      BY <1>0, <2>2 DEF Registered
    <3>2. arg[c].index = j
      BY <3>1
    <3>3. QED
      BY <2>2, <3>2 DEF Registered
  <2>4. \A j \in Slots : g_sockets[j] # 0 => owner'[g_sockets[j]] = owner[g_sockets[j]]
    BY <1>0, <2>1, <2>3 DEF TypeOK
  <2>5. QED
    BY <1>0, <2>1, <2>4
<1>6. QED
  BY <1>1, <1>2, <1>3, <1>4, <1>5 DEF Next, Main, Client, Handler, Overrun, Spawn, SpawnFails, Connect, ClientWrite, ClientRead, ClientLeave, Recv, RecvEnd, BroadcastBegin, BroadcastSkip, BroadcastSend, BroadcastDies, BroadcastEnd

(* The server takes no byte that was not sent to it, and a client reads     *)
(* none that the server did not send.                                      *)
LEMMA ByteStep ==
    ASSUME IndInv, Next
    PROVE  ByteInv'
<1> USE DEF ByteInv, vars, table, main, handler, socks, bytes
<1>0. /\ TypeOK /\ MutexHeld /\ MainInv /\ OwnerInv /\ SlotInv /\ NoStaleSlot
      /\ ByteInv /\ ChunkInv /\ UsedInv
  BY DEF IndInv
<1>1. CASE UNCHANGED <<inN, outN, received, got, sent>>
  BY <1>0, <1>1
<1>2. ASSUME NEW c \in Conns, ClientWrite(c) PROVE ByteInv'
  <2>1. /\ outN[c] < Quota[c]
        /\ outN' = [outN EXCEPT ![c] = @ + 1]
        /\ UNCHANGED <<inN, received, got, sent>>
    BY <1>2 DEF ClientWrite
  <2>2. \A d \in Conns : outN[d] \in Nat /\ inN[d] \in Nat /\ Quota[d] \in Nat
    BY <1>0, QuotaAssumption DEF TypeOK
  <2>3. \A d \in Conns : outN'[d] = IF d = c THEN outN[d] + 1 ELSE outN[d]
    BY <1>0, <2>1 DEF TypeOK
  <2>4. QED
    BY <1>0, <2>1, <2>2, <2>3
<1>3. ASSUME NEW c \in Conns, ClientRead(c) PROVE ByteInv'
  <2>1. PICK k \in 1..Len(sent[c]) - got[c] : got' = [got EXCEPT ![c] = @ + k]
    BY <1>3 DEF ClientRead
  <2>2. UNCHANGED <<inN, outN, received, sent>>
    BY <1>3 DEF ClientRead
  <2>3. Len(sent[c]) \in Nat /\ got[c] \in Nat
    BY <1>0 DEF TypeOK
  <2>4. got[c] + k =< Len(sent[c])
    BY <2>3
  <2>5. \A e \in Conns : got'[e] = IF e = c THEN got[c] + k ELSE got[e]
    BY <1>0, <2>1 DEF TypeOK
  <2>6. QED
    BY <1>0, <2>2, <2>4, <2>5
<1>4. ASSUME NEW c \in Conns, Recv(c) PROVE ByteInv'
  <2>1. PICK k \in 1..Smaller(RecvMax, Pending(c)) :
            /\ received' = [received EXCEPT ![c] = k]
            /\ inN' = [inN EXCEPT ![c] = @ + k]
    BY <1>4 DEF Recv
  <2>2. UNCHANGED <<outN, got, sent>>
    BY <1>4 DEF Recv
  <2>3. \A d \in Conns : outN[d] \in Nat /\ inN[d] \in Nat /\ received[d] \in Nat
    BY <1>0, SizesAssumption DEF TypeOK
  <2>4. k \in Nat /\ k =< outN[c] - inN[c]
    BY <2>3, SizesAssumption DEF Smaller, Pending
  <2>5. \A d \in Conns : /\ inN'[d] = IF d = c THEN inN[d] + k ELSE inN[d]
                         /\ received'[d] = IF d = c THEN k ELSE received[d]
    BY <1>0, <2>1 DEF TypeOK
  <2>6. QED
    BY <1>0, <2>2, <2>3, <2>4, <2>5
<1>5. ASSUME NEW c \in Conns, RecvEnd(c) PROVE ByteInv'
  BY <1>0, <1>5, FdsAssumption, NoneAssumption, SizesAssumption DEF RecvEnd, TypeOK, Slots, Smaller, Pending, Skipped
<1>6. ASSUME NEW c \in Conns, BroadcastSend(c) PROVE ByteInv'
  <2> DEFINE d == owner[g_sockets[i[c]]]
  <2>1. UNCHANGED <<inN, outN, received, got>>
    BY <1>6 DEF BroadcastSend
  <2>2. CASE d = None
    BY <1>0, <1>6, <2>1, <2>2 DEF BroadcastSend
  <2>3. CASE d # None
    <3>1. sent' = [sent EXCEPT ![d] = @ \o Chunk(c)]
      BY <1>6, <2>3 DEF BroadcastSend
    <3>2. Chunk(c) \in Seq(Conns \X Nat)
      BY <1>0, ChunkType
    <3>3. \A e \in Conns : sent[e] \in Seq(Conns \X Nat) /\ got[e] \in Nat
      BY <1>0 DEF TypeOK
    <3>4. \A e \in Conns : /\ Len(sent[e] \o Chunk(c)) = Len(sent[e]) + Len(Chunk(c))
                           /\ Len(sent[e]) \in Nat
                           /\ Len(Chunk(c)) \in Nat
      BY <3>2, <3>3, ConcatProperties, LenProperties
    <3>5. \A e \in Conns : sent'[e] = IF e = d THEN sent[e] \o Chunk(c) ELSE sent[e]
      BY <1>0, <3>1 DEF TypeOK
    <3>6. \A e \in Conns : got[e] =< Len(sent'[e])
      <4> SUFFICES ASSUME NEW e \in Conns
                   PROVE  got[e] =< Len(sent'[e])
        OBVIOUS
      <4>1. got[e] =< Len(sent[e])
        BY <1>0
      <4>2. CASE e = d
        <5>1. Len(sent'[e]) = Len(sent[e]) + Len(Chunk(c))
          BY <3>4, <3>5, <4>2
        <5>2. QED
          BY <3>3, <3>4, <4>1, <5>1
      <4>3. CASE e # d
        BY <3>5, <4>1, <4>3
      <4>4. QED
        BY <4>2, <4>3
    <3>7. QED
      BY <1>0, <2>1, <3>6
  <2>4. QED
    BY <2>2, <2>3
<1>7. QED
  BY <1>1, <1>2, <1>3, <1>4, <1>5, <1>6 DEF Next, Main, Client, Handler, Accept, Register, Overrun, Spawn, SpawnFails, Connect, ClientLeave, BroadcastBegin, BroadcastSkip, BroadcastDies, BroadcastEnd, Leave, Close

(* A handler takes the mutex only after recv() has given it something.     *)
LEMMA ChunkStep ==
    ASSUME IndInv, Next
    PROVE  ChunkInv'
<1> USE DEF ChunkInv, vars, table, main, handler, socks, bytes
<1>0. /\ TypeOK /\ MutexHeld /\ MainInv /\ OwnerInv /\ SlotInv /\ NoStaleSlot
      /\ ByteInv /\ ChunkInv /\ UsedInv
  BY DEF IndInv
<1>1. CASE UNCHANGED <<tpc, received>>
  BY <1>0, <1>1
<1>2. CASE Accept
  <2>1. UNCHANGED <<tpc, received>>
    BY <1>2, AcceptEffect
  <2>2. QED
    BY <1>1, <2>1
<1>3. ASSUME NEW d \in Conns, received' = received, tpc' = [tpc EXCEPT ![d] = "recv"]
      PROVE  ChunkInv'
  BY <1>0, <1>3 DEF TypeOK
<1>4. CASE Spawn
  <2>1. owner[client_socket] \in Conns
    BY <1>0, <1>4 DEF Spawn, MainInv
  <2>2. QED
    BY <1>3, <1>4, <2>1 DEF Spawn
<1>5. CASE SpawnFails
  <2>1. owner[client_socket] \in Conns
    BY <1>0, <1>5 DEF SpawnFails, MainInv
  <2>2. QED
    BY <1>0, <1>5, <2>1 DEF SpawnFails, TypeOK
<1>6. ASSUME NEW c \in Conns, Recv(c) PROVE ChunkInv'
  <2>1. PICK k \in 1..Smaller(RecvMax, Pending(c)) :
            received' = [received EXCEPT ![c] = k]
    BY <1>6 DEF Recv
  <2>2. k > 0
    BY <2>1
  <2>3. tpc' = [tpc EXCEPT ![c] = "lock"]
    BY <1>6 DEF Recv
  <2>4. QED
    BY <1>0, <2>1, <2>2, <2>3 DEF TypeOK
<1>7. ASSUME NEW c \in Conns, RecvEnd(c) PROVE ChunkInv'
  BY <1>0, <1>7 DEF RecvEnd, TypeOK
<1>8. ASSUME NEW c \in Conns, BroadcastBegin(c) PROVE ChunkInv'
  BY <1>0, <1>8 DEF BroadcastBegin, TypeOK
<1>9. ASSUME NEW c \in Conns, BroadcastEnd(c) PROVE ChunkInv'
  BY <1>3, <1>9 DEF BroadcastEnd
<1>10. ASSUME NEW c \in Conns, Leave(c) PROVE ChunkInv'
  BY <1>0, <1>10 DEF Leave, TypeOK
<1>11. ASSUME NEW c \in Conns, Close(c) PROVE ChunkInv'
  BY <1>0, <1>11 DEF Close, TypeOK
<1>12. QED
  BY <1>1, <1>2, <1>4, <1>5, <1>6, <1>7, <1>8, <1>9, <1>10, <1>11
  DEF Next, Main, Client, Handler, Register, Overrun, Connect, ClientWrite, ClientRead,
      ClientLeave, BroadcastSkip, BroadcastSend, BroadcastDies

(* A registration takes the next slot for one more connection.             *)
LEMMA UsedStep ==
    ASSUME IndInv, Next
    PROVE  UsedInv'
<1> USE DEF vars, table, main, handler, socks, bytes
<1>0. /\ TypeOK /\ MutexHeld /\ MainInv /\ OwnerInv /\ SlotInv /\ NoStaleSlot
      /\ ByteInv /\ ChunkInv /\ UsedInv
  BY DEF IndInv
<1> DEFINE Users == {c \in Conns : Registered(c)}
<1>1. CASE UNCHANGED <<arg, g_count>> /\ server' # "overrun"
  BY <1>0, <1>1 DEF UsedInv, Registered
<1>2. CASE Overrun
  BY <1>0, <1>2 DEF UsedInv, Registered, Overrun
<1>3. CASE Register
  <2>0. PICK d \in Conns : d = owner[client_socket]
    BY <1>0, <1>3 DEF Register, MainInv
  <2>1. /\ client_socket \in Fds /\ client_socket # 0
        /\ ~Registered(d)
    BY <1>0, <1>3, <2>0 DEF Register, MainInv, TypeOK
  <2>2. /\ arg' = [arg EXCEPT ![d] = [socket |-> client_socket, index |-> g_count]]
        /\ g_count' = g_count + 1 /\ g_count < Capacity
        /\ server' = server
    BY <1>3, <2>0 DEF Register
  <2>3. server # "overrun"
    BY DEF Next
  <2>4. /\ arg'[d].socket = client_socket /\ arg'[d].index = g_count
        /\ \A c \in Conns : c # d => arg'[c] = arg[c]
    BY <1>0, <2>1, <2>2 DEF TypeOK
  <2>5. Registered(d)' /\ \A c \in Conns : c # d => (Registered(c)' <=> Registered(c))
    BY <2>1, <2>4 DEF Registered
  <2>6. Users' = Users \cup {d}
    BY <2>1, <2>5
  <2>7. d \notin Users /\ IsFiniteSet(Users) /\ Cardinality(Users) = g_count
    BY <1>0, <2>1 DEF UsedInv
  <2> HIDE DEF Users
  <2>8. IsFiniteSet(Users') /\ Cardinality(Users') = g_count + 1
    BY <2>6, <2>7, FS_AddElement
  <2>9. \A j \in Slots : j < g_count' => \E c \in Conns : Registered(c)' /\ arg'[c].index = j
    <3> SUFFICES ASSUME NEW j \in Slots, j < g_count'
                 PROVE  \E c \in Conns : Registered(c)' /\ arg'[c].index = j
      OBVIOUS
    <3>1. CASE j = g_count
      BY <2>1, <2>4, <2>5, <3>1
    <3>2. CASE j # g_count
      <4>1. j < g_count
        BY <1>0, <2>2, <3>2 DEF TypeOK, Slots
      <4>2. PICK c \in Conns : Registered(c) /\ arg[c].index = j
        BY <1>0, <4>1 DEF UsedInv
      <4>3. QED
        BY <2>1, <2>4, <2>5, <4>2
    <3>3. QED
      BY <3>1, <3>2
  <2>10. QED
    BY <2>2, <2>3, <2>8, <2>9 DEF UsedInv, Users
<1>4. CASE Accept
  <2>1. UNCHANGED <<arg, g_count, server>>
    BY <1>4, AcceptEffect
  <2>2. QED
    BY <1>1, <2>1 DEF Next
<1>5. QED
  BY <1>1, <1>2, <1>3, <1>4
  DEF Next, Main, Client, Handler, Spawn, SpawnFails, Connect, ClientWrite, ClientRead,
      ClientLeave, Recv, RecvEnd, BroadcastBegin, BroadcastSkip, BroadcastSend,
      BroadcastDies, BroadcastEnd, Leave, Close

(* What the threads, the slots and the descriptors agree about holds in     *)
(* every state: the invariant is inductive.                                *)
THEOREM Invariance == Spec => []IndInv
<1>1. Init => IndInv
  <2>1. Init => UsedInv
    <3> SUFFICES ASSUME Init PROVE UsedInv
      OBVIOUS
    <3>1. {c \in Conns : Registered(c)} = {}
      BY DEF Init, Registered
    <3>2. g_count = 0 /\ server = "up" /\ \A j \in Slots : ~(j < 0)
      BY SizesAssumption DEF Init, Slots
    <3>3. QED
      BY <3>1, <3>2, FS_EmptySet DEF UsedInv
  <2>2. QED
    BY <2>1, FdsAssumption, NoneAssumption, SizesAssumption, QuotaAssumption
    DEF Init, IndInv, TypeOK, MutexHeld, MainInv, OwnerInv, SlotInv, NoStaleSlot,
        ByteInv, ChunkInv, Registered, Slots, Pc
<1>2. IndInv /\ [Next]_vars => IndInv'
  <2>1. ASSUME IndInv, Next PROVE IndInv'
    <3>1. TypeOK'
      BY <2>1, TypeStep
    <3>2. MutexHeld'
      BY <2>1, MutexStep
    <3>3. MainInv'
      BY <2>1, MainStep
    <3>4. OwnerInv'
      BY <2>1, OwnerStep
    <3>5. SlotInv'
      BY <2>1, SlotStep
    <3>6. NoStaleSlot'
      BY <2>1, StaleStep
    <3>7. ByteInv'
      BY <2>1, ByteStep
    <3>8. ChunkInv'
      BY <2>1, ChunkStep
    <3>9. UsedInv'
      BY <2>1, UsedStep
    <3>10. QED
      BY <3>1, <3>2, <3>3, <3>4, <3>5, <3>6, <3>7, <3>8, <3>9 DEF IndInv
  <2>2. ASSUME IndInv, UNCHANGED vars PROVE IndInv'
    <3>1. UNCHANGED <<g_sockets, g_count, g_mutex, mpc, client_socket, tpc, arg,
                      received, i, owner, link, gone, outN, inN, sent, got, hit,
                      server>>
      BY <2>2 DEF vars, table, main, handler, socks, bytes
    <3>2. TypeOK'
      BY <2>2, <3>1 DEF IndInv, TypeOK
    <3>3. MutexHeld' /\ MainInv' /\ OwnerInv'
      BY <2>2, <3>1 DEF IndInv, MutexHeld, MainInv, OwnerInv, Registered
    <3>4. SlotInv' /\ NoStaleSlot'
      BY <2>2, <3>1 DEF IndInv, SlotInv, NoStaleSlot, Registered
    <3>5. ByteInv'
      BY <2>2, <3>1 DEF IndInv, ByteInv
    <3>6. ChunkInv' /\ UsedInv'
      BY <2>2, <3>1 DEF IndInv, ChunkInv, UsedInv, Registered
    <3>7. QED
      BY <3>2, <3>3, <3>4, <3>5, <3>6 DEF IndInv
  <2>3. QED
    BY <2>1, <2>2
<1>3. QED
  BY <1>1, <1>2, PTL DEF Spec

(* A thread never sends to a descriptor that is closed or that somebody    *)
(* else has got since, however many clients have come and gone.            *)
THEOREM SlotsAreLive == Spec => []NoStaleSlot
<1>1. IndInv => NoStaleSlot
  BY DEF IndInv
<1>2. QED
  BY <1>1, Invariance, PTL

(* However many clients are connected, the table is overrun by exactly one *)
(* registration more than it has slots, and no slot is ever given twice.   *)
THEOREM TableUsedUp == Spec => []SlotsUsedUp
<1>1. IndInv => SlotsUsedUp
  BY SizesAssumption DEF IndInv, UsedInv, SlotsUsedUp, Slots
<1>2. QED
  BY <1>1, Invariance, PTL

(* The process dies of SIGPIPE only while a departed client still has its  *)
(* slot and its handler, if it has one, has not cleared it yet.            *)
THEOREM SigpipeOnlyInWindow == Spec => []SigpipeWindow
<1>1. Init => SigpipeWindow
  BY DEF Init, SigpipeWindow
<1>2. IndInv /\ SigpipeWindow /\ [Next]_vars => SigpipeWindow'
  <2>1. CASE server = "up" /\ server' # "sigpipe"
    BY <2>1 DEF SigpipeWindow
  <2>2. ASSUME NEW c \in Conns, BroadcastDies(c), IndInv PROVE SigpipeWindow'
    <3> DEFINE fd == g_sockets[i[c]]
               d == owner[fd]
    <3>1. /\ UNCHANGED <<g_sockets, arg, tpc, gone>>
          /\ i[c] < g_count
          /\ fd # 0
          /\ gone[d]
      BY <2>2 DEF BroadcastDies, Skipped, table, main, handler, socks
    <3>2. i[c] \in Slots
      BY <2>2, <3>1, SizesAssumption DEF IndInv, TypeOK, Slots
    <3>3. d \in Conns /\ arg[d] = [socket |-> fd, index |-> i[c]]
      BY <2>2, <3>1, <3>2 DEF IndInv, NoStaleSlot
    <3>4. arg[d].index = i[c] /\ Registered(d)
      BY <3>1, <3>3 DEF Registered
    <3>5. InTable(d)
      BY <3>1, <3>4 DEF InTable
    <3>6. tpc[d] \notin {"close", "done"}
      BY <2>2, <3>1, <3>3, <3>4 DEF IndInv, SlotInv
    <3>7. QED
      BY <3>1, <3>3, <3>5, <3>6 DEF SigpipeWindow, InTable, Registered
  <2>3. ASSUME Next, server' = "sigpipe" PROVE \E c \in Conns : BroadcastDies(c)
    BY <2>3
    DEF Next, Main, Client, Handler, Accept, Register, Overrun, Spawn, SpawnFails,
        Connect, ClientWrite, ClientRead, ClientLeave, Recv, RecvEnd, BroadcastBegin,
        BroadcastSkip, BroadcastSend, BroadcastEnd, Leave, Close
  <2>4. CASE UNCHANGED vars
    BY <2>4 DEF SigpipeWindow, InTable, Registered, vars, table, main, handler, socks
  <2>5. QED
    BY <2>1, <2>2, <2>3, <2>4 DEF SigpipeWindow, Next
<1>3. QED
  BY <1>1, <1>2, Invariance, PTL DEF Spec

(***************************************************************************)
(* ThreadChat implements ChatRoom, step by step, and so it has what every  *)
(* implementation of ChatRoom has: one order of bytes for everybody.       *)
(*                                                                         *)
(* Register is Enter, BroadcastBegin is Say, Leave is Leave, the steps     *)
(* that end the process are Collapse; what a thread does with the mutex in *)
(* its hands is invisible, because Stream already holds what it will send. *)
(***************************************************************************)

RoomP == INSTANCE ChatRoomProofs WITH
    MaxWords <- RecvMax, place <- Place, said <- Said, stream <- Stream,
    open <- (server = "up")

(* One thread at a time is in the loop, so there is one chunk under way.    *)
LEMMA StreamIs ==
    ASSUME MutexHeld, NEW d \in Conns
    PROVE  /\ \A b \in Conns : Awaiting(d, b) => Stream[d] = sent[d] \o Chunk(b)
           /\ (\A b \in Conns : ~Awaiting(d, b)) => Stream[d] = sent[d]
<1>1. ASSUME NEW b \in Conns, Awaiting(d, b)
      PROVE  (CHOOSE x \in Conns : Awaiting(d, x)) = b
  <2>1. \A x \in Conns : Awaiting(d, x) => x = b
    BY <1>1 DEF MutexHeld, Awaiting
  <2>2. QED
    BY <1>1, <2>1
<1>2. QED
  BY <1>1 DEF Stream

(* The same after a step. *)
LEMMA StreamIsNext ==
    ASSUME MutexHeld', NEW d \in Conns
    PROVE  /\ \A b \in Conns : Awaiting(d, b)' => Stream'[d] = sent'[d] \o Chunk(b)'
           /\ (\A b \in Conns : ~Awaiting(d, b)') => Stream'[d] = sent'[d]
<1>1. ASSUME NEW b \in Conns, Awaiting(d, b)'
      PROVE  (CHOOSE x \in Conns : Awaiting(d, x)') = b
  <2>1. \A x \in Conns : Awaiting(d, x)' => x = b
    BY <1>1 DEF MutexHeld, Awaiting
  <2>2. QED
    BY <1>1, <2>1
<1>2. QED
  BY <1>1 DEF Stream

(* Without the mutex taken, everybody has been sent what was said.          *)
LEMMA StreamAtRest ==
    /\ MutexHeld /\ (\A b \in Conns : tpc[b] # "cast")
         => \A d \in Conns : Stream[d] = sent[d]
    /\ MutexHeld' /\ (\A b \in Conns : tpc'[b] # "cast")
         => \A d \in Conns : Stream'[d] = sent'[d]
<1>1. ASSUME MutexHeld, \A b \in Conns : tpc[b] # "cast", NEW d \in Conns
      PROVE  Stream[d] = sent[d]
  <2>1. \A b \in Conns : ~Awaiting(d, b)
    BY <1>1 DEF Awaiting
  <2>2. QED
    BY <1>1, <2>1, StreamIs
<1>2. ASSUME MutexHeld', \A b \in Conns : tpc'[b] # "cast", NEW d \in Conns
      PROVE  Stream'[d] = sent'[d]
  <2>1. \A b \in Conns : ~Awaiting(d, b)'
    BY <1>2 DEF Awaiting
  <2>2. QED
    BY <1>2, <2>1, StreamIsNext
<1>3. QED
  BY <1>1, <1>2

(* A step after which the same chunks are under way, to the same clients,  *)
(* changes no stream.                                                      *)
LEMMA StreamStays ==
    ASSUME MutexHeld, MutexHeld', sent' = sent,
           \A d, b \in Conns : Awaiting(d, b)' <=> Awaiting(d, b),
           \A d, b \in Conns : Awaiting(d, b) => Chunk(b)' = Chunk(b)
    PROVE  Stream' = Stream
<1>1. ASSUME NEW d \in Conns
      PROVE  Stream'[d] = Stream[d]
  <2>1. ASSUME NEW b \in Conns, Awaiting(d, b)
        PROVE  Stream'[d] = Stream[d]
    <3>1. Stream[d] = sent[d] \o Chunk(b)
      BY <2>1, StreamIs
    <3>2. Stream'[d] = sent'[d] \o Chunk(b)'
      BY <2>1, StreamIsNext
    <3>3. QED
      BY <2>1, <3>1, <3>2
  <2>2. ASSUME \A b \in Conns : ~Awaiting(d, b)
        PROVE  Stream'[d] = Stream[d]
    <3>1. Stream[d] = sent[d]
      BY <2>2, StreamIs
    <3>2. Stream'[d] = sent'[d]
      BY <2>2, StreamIsNext
    <3>3. QED
      BY <3>1, <3>2
  <2>3. QED
    BY <2>1, <2>2
<1>2. QED
  BY <1>1, Zenon DEF Stream

(* A client in the table that is not the speaker is behind a slot that the *)
(* broadcast does not skip, and the other way round.                       *)
LEMMA AwaitedSlot ==
    ASSUME IndInv, NEW c \in Conns, tpc[c] = "cast", i[c] < g_count
    PROVE  /\ i[c] \in Slots
           /\ \A d \in Conns : InTable(d) /\ d # c /\ arg[d].index = i[c]
                 => ~Skipped(c, g_sockets[i[c]]) /\ owner[g_sockets[i[c]]] = d
           /\ ~Skipped(c, g_sockets[i[c]]) =>
                 LET d == owner[g_sockets[i[c]]] IN
                 d \in Conns /\ d # c /\ InTable(d) /\ arg[d].index = i[c]
<1>1. TypeOK /\ SlotInv /\ NoStaleSlot
  BY DEF IndInv
<1>2. i[c] \in Slots
  BY <1>1, SizesAssumption DEF TypeOK, Slots
<1>3. Registered(c) /\ owner[arg[c].socket] = c
  BY <1>1 DEF SlotInv
<1>4. ASSUME NEW d \in Conns, InTable(d), d # c, arg[d].index = i[c]
      PROVE  ~Skipped(c, g_sockets[i[c]]) /\ owner[g_sockets[i[c]]] = d
  <2>1. g_sockets[i[c]] # 0 /\ Registered(d)
    BY <1>4 DEF InTable
  <2>2. tpc[d] \notin {"close", "done"} /\ g_sockets[i[c]] = arg[d].socket
    BY <1>1, <1>4, <2>1 DEF SlotInv
  <2>3. owner[arg[d].socket] = d
    BY <1>1, <2>1, <2>2 DEF SlotInv
  <2>4. QED
    BY <1>3, <1>4, <2>1, <2>2, <2>3 DEF Skipped
<1>5. ASSUME ~Skipped(c, g_sockets[i[c]])
      PROVE  LET d == owner[g_sockets[i[c]]] IN
             d \in Conns /\ d # c /\ InTable(d) /\ arg[d].index = i[c]
  <2> DEFINE d == owner[g_sockets[i[c]]]
  <2>1. g_sockets[i[c]] # 0 /\ g_sockets[i[c]] # arg[c].socket
    BY <1>5 DEF Skipped
  <2>2. d \in Conns /\ arg[d] = [socket |-> g_sockets[i[c]], index |-> i[c]]
    BY <1>1, <1>2, <2>1 DEF NoStaleSlot
  <2>3. arg[d].socket = g_sockets[i[c]] /\ arg[d].index = i[c]
    BY <2>2
  <2>4. QED
    BY <2>1, <2>2, <2>3 DEF InTable, Registered
<1>6. QED
  BY <1>2, <1>4, <1>5

(* Whose speech is under way does not depend on who is in the table.       *)
LEMMA NobodySpeaks ==
    ASSUME MutexHeld, g_mutex = None
    PROVE  \A b \in Conns : tpc[b] # "cast"
BY NoneAssumption DEF MutexHeld

Invisible == Place' = Place /\ Said' = Said /\ Stream' = Stream

(* The steps of main and of the clients that the room does not see.        *)
LEMMA OutsideStep ==
    ASSUME IndInv, IndInv', UNCHANGED <<g_sockets, arg, received, inN, i, sent>>,
           \A c \in Conns : /\ tpc[c] = "lock" <=> tpc'[c] = "lock"
                            /\ tpc[c] = "cast" <=> tpc'[c] = "cast"
    PROVE  Invisible
<1>1. Place' = Place
  BY DEF Place, InTable, Registered
<1>2. Said' = Said
  BY DEF Said
<1>3. Stream' = Stream
  <2>1. \A d, b \in Conns : Awaiting(d, b)' <=> Awaiting(d, b)
    BY DEF Awaiting, InTable, Registered
  <2>2. \A b \in Conns : Chunk(b)' = Chunk(b)
    BY DEF Chunk
  <2>3. QED
    BY <2>1, <2>2, StreamStays DEF IndInv
<1>4. QED
  BY <1>1, <1>2, <1>3 DEF Invisible

(* What was received is not said before the mutex is taken.                *)
LEMMA RecvStep ==
    ASSUME IndInv, IndInv', NEW c \in Conns, Recv(c) \/ RecvEnd(c)
    PROVE  Invisible
<1> USE DEF vars, table, main, handler, socks, bytes
<1>1. /\ TypeOK /\ tpc[c] = "recv" /\ UNCHANGED <<g_sockets, arg, i, sent>>
      /\ \E pc \in {"lock", "leave"} : tpc' = [tpc EXCEPT ![c] = pc]
  BY DEF Recv, RecvEnd, IndInv
<1>2. Place' = Place
  BY <1>1 DEF Place, InTable, Registered
<1>3. \A d \in Conns : d # c => /\ tpc'[d] = tpc[d] /\ received'[d] = received[d]
                               /\ inN'[d] = inN[d]
  BY <1>1 DEF Recv, RecvEnd, TypeOK
<1>4. \/ tpc'[c] = "lock" /\ inN'[c] - received'[c] = inN[c]
      \/ tpc'[c] = "leave" /\ inN'[c] = inN[c]
  <2>1. CASE Recv(c)
    <3>1. PICK k \in 1..Smaller(RecvMax, Pending(c)) :
              /\ received' = [received EXCEPT ![c] = k]
              /\ inN' = [inN EXCEPT ![c] = @ + k]
      BY <2>1 DEF Recv
    <3>2. k \in Nat /\ inN[c] \in Nat
      BY <1>1 DEF TypeOK
    <3>3. received'[c] = k /\ inN'[c] = inN[c] + k
      BY <1>1, <3>1 DEF TypeOK
    <3>4. tpc'[c] = "lock"
      BY <1>1, <2>1 DEF Recv, TypeOK
    <3>5. PICK x \in Nat : x = inN[c]
      BY <3>2
    <3>6. (x + k) - k = x
      BY <3>2
    <3>7. QED
      BY <3>3, <3>4, <3>5, <3>6, Zenon
  <2>2. CASE RecvEnd(c)
    BY <1>1, <2>2 DEF RecvEnd, TypeOK
  <2>3. QED
    BY <2>1, <2>2
<1>5. Said' = Said
  <2>1. ASSUME NEW d \in Conns
        PROVE  (IF tpc'[d] = "lock" THEN inN'[d] - received'[d] ELSE inN'[d])
                 = IF tpc[d] = "lock" THEN inN[d] - received[d] ELSE inN[d]
    BY <1>1, <1>3, <1>4
  <2>2. QED
    BY <2>1, Zenon DEF Said
<1>6. Stream' = Stream
  <2>1. \A b \in Conns : tpc'[b] = "cast" <=> tpc[b] = "cast"
    BY <1>1, <1>3, <1>4
  <2>2. \A d, b \in Conns : Awaiting(d, b)' <=> Awaiting(d, b)
    BY <1>1, <2>1 DEF Awaiting, InTable, Registered
  <2>3. \A d, b \in Conns : Awaiting(d, b) => Chunk(b)' = Chunk(b)
    BY <1>1, <1>3 DEF Awaiting, Chunk
  <2>4. QED
    BY <1>1, <2>2, <2>3, StreamStays DEF IndInv
<1>7. QED
  BY <1>2, <1>5, <1>6 DEF Invisible

(* Within the loop, a slot is passed over when nobody waits behind it.     *)
LEMMA SkipStep ==
    ASSUME IndInv, IndInv', NEW c \in Conns, BroadcastSkip(c)
    PROVE  Invisible
<1> USE DEF vars, table, main, handler, socks, bytes
<1>1. /\ TypeOK /\ tpc[c] = "cast" /\ i[c] < g_count /\ Skipped(c, g_sockets[i[c]])
      /\ i' = [i EXCEPT ![c] = @ + 1]
      /\ UNCHANGED <<g_sockets, arg, received, inN, sent, tpc, g_mutex>>
  BY DEF BroadcastSkip, IndInv
<1>2. Place' = Place /\ Said' = Said
  BY <1>1 DEF Place, Said, InTable, Registered
<1>3. \A d \in Conns : InTable(d) /\ d # c => arg[d].index # i[c]
  BY <1>1, AwaitedSlot
<1>4. \A b \in Conns : tpc[b] = "cast" => b = c
  BY <1>1 DEF IndInv, MutexHeld
<1>5. ASSUME NEW d \in Conns
      PROVE  Awaiting(d, c)' <=> Awaiting(d, c)
  <2>1. i'[c] = i[c] + 1 /\ i[c] \in Nat /\ arg[d].index \in Nat
    BY <1>1 DEF TypeOK, Slots
  <2>2. arg[d].index # i[c] => (arg[d].index >= i[c] + 1 <=> arg[d].index >= i[c])
    BY <2>1
  <2>3. QED
    BY <1>1, <1>3, <2>1, <2>2 DEF Awaiting, InTable, Registered
<1>6. \A d, b \in Conns : Awaiting(d, b)' <=> Awaiting(d, b)
  <2>1. \A d, b \in Conns : b # c => ~Awaiting(d, b) /\ ~Awaiting(d, b)'
    BY <1>1, <1>4 DEF Awaiting
  <2>2. QED
    BY <1>5, <2>1
<1>7. \A b \in Conns : Chunk(b)' = Chunk(b)
  BY <1>1 DEF Chunk
<1>8. QED
  BY <1>1, <1>2, <1>6, <1>7, StreamStays DEF IndInv, Invisible

(* A send() gives a client what the room says it has heard already.        *)
LEMMA SendStep ==
    ASSUME IndInv, IndInv', NEW c \in Conns, BroadcastSend(c)
    PROVE  Invisible
<1> USE DEF vars, table, main, handler, socks, bytes
<1>1. /\ TypeOK /\ tpc[c] = "cast" /\ i[c] < g_count /\ ~Skipped(c, g_sockets[i[c]])
      /\ i' = [i EXCEPT ![c] = @ + 1]
      /\ UNCHANGED <<g_sockets, arg, received, inN, tpc, g_mutex, owner>>
  BY DEF BroadcastSend, IndInv
<1>2. Place' = Place /\ Said' = Said
  BY <1>1 DEF Place, Said, InTable, Registered
<1>3. PICK d \in Conns : /\ d = owner[g_sockets[i[c]]] /\ d # c
                         /\ InTable(d) /\ arg[d].index = i[c]
  BY <1>1, AwaitedSlot
<1>4. \A e \in Conns : InTable(e) /\ e # c /\ arg[e].index = i[c] => e = d
  BY <1>1, <1>3, AwaitedSlot
<1>5. sent' = [sent EXCEPT ![d] = @ \o Chunk(c)]
  BY <1>3, NoneAssumption DEF BroadcastSend
<1>6. \A b \in Conns : tpc[b] = "cast" => b = c
  BY <1>1 DEF IndInv, MutexHeld
<1>7. \A e, b \in Conns : b # c => ~Awaiting(e, b) /\ ~Awaiting(e, b)'
  BY <1>1, <1>6 DEF Awaiting
<1>8. i'[c] = i[c] + 1 /\ i[c] \in Nat /\ \A e \in Conns : arg[e].index \in Nat
  BY SMTT(30), <1>1 DEF TypeOK, Slots
<1>9. Chunk(c)' = Chunk(c)
  BY <1>1 DEF Chunk
<1>10. Stream[d] = sent[d] \o Chunk(c)
  <2>1. Awaiting(d, c)
    BY <1>1, <1>3, <1>8 DEF Awaiting
  <2>2. QED
    BY <2>1, StreamIs DEF IndInv
<1>11. Stream'[d] = Stream[d]
  <2>1. ~Awaiting(d, c)'
    BY <1>1, <1>3, <1>8 DEF Awaiting
  <2>2. Stream'[d] = sent'[d]
    BY <1>7, <2>1, StreamIsNext DEF IndInv
  <2>3. sent'[d] = sent[d] \o Chunk(c)
    BY <1>1, <1>5 DEF TypeOK
  <2>4. QED
    BY <1>10, <2>2, <2>3
<1>12. ASSUME NEW e \in Conns, e # d
       PROVE  Stream'[e] = Stream[e]
  <2>1. sent'[e] = sent[e]
    BY <1>1, <1>5, <1>12 DEF TypeOK
  <2>2. Awaiting(e, c)' <=> Awaiting(e, c)
    <3>1. InTable(e) /\ e # c => arg[e].index # i[c]
      BY <1>4, <1>12
    <3>2. arg[e].index # i[c] => (arg[e].index >= i[c] + 1 <=> arg[e].index >= i[c])
      BY <1>8
    <3>3. QED
      BY <1>1, <1>8, <3>1, <3>2 DEF Awaiting, InTable, Registered
  <2>3. CASE Awaiting(e, c)
    <3>1. Stream[e] = sent[e] \o Chunk(c)
      BY <2>3, StreamIs DEF IndInv
    <3>2. Stream'[e] = sent'[e] \o Chunk(c)'
      BY <2>2, <2>3, StreamIsNext DEF IndInv
    <3>3. QED
      BY <1>9, <2>1, <3>1, <3>2
  <2>4. CASE ~Awaiting(e, c)
    <3>1. Stream[e] = sent[e]
      BY <1>7, <2>4, StreamIs DEF IndInv
    <3>2. Stream'[e] = sent'[e]
      BY <1>7, <2>2, <2>4, StreamIsNext DEF IndInv
    <3>3. QED
      BY <2>1, <3>1, <3>2
  <2>5. QED
    BY <2>3, <2>4
<1>13. Stream' = Stream
  <2>1. \A e \in Conns : Stream'[e] = Stream[e]
    BY <1>11, <1>12
  <2>2. QED
    BY <2>1, Zenon DEF Stream
<1>14. QED
  BY <1>2, <1>13 DEF Invisible

(* When the loop ends, nobody waits any more.                              *)
LEMMA EndStep ==
    ASSUME IndInv, IndInv', NEW c \in Conns, BroadcastEnd(c)
    PROVE  Invisible
<1> USE DEF vars, table, main, handler, socks, bytes
<1>1. /\ TypeOK /\ tpc[c] = "cast" /\ i[c] = g_count /\ g_mutex' = None
      /\ tpc' = [tpc EXCEPT ![c] = "recv"]
      /\ UNCHANGED <<g_sockets, arg, received, inN, sent, i>>
  BY DEF BroadcastEnd, IndInv
<1>2. Place' = Place /\ Said' = Said
  BY <1>1 DEF Place, Said, InTable, Registered, TypeOK
<1>3. \A b \in Conns : tpc[b] = "cast" => b = c
  BY <1>1 DEF IndInv, MutexHeld
<1>4. \A d, b \in Conns : ~Awaiting(d, b)
  <2>1. \A d \in Conns : InTable(d) => ~(arg[d].index >= g_count)
    <3>1. \A d \in Conns : InTable(d) => arg[d].index < g_count /\ arg[d].index \in Nat
      BY <1>1 DEF IndInv, SlotInv, InTable, TypeOK, Slots
    <3>2. g_count \in Nat
      BY <1>1, SizesAssumption DEF TypeOK
    <3>3. \A x, y \in Nat : x < y => ~(x >= y)
      OBVIOUS
    <3>4. QED
      BY <3>1, <3>2, <3>3, Zenon
  <2>2. QED
    BY <1>1, <1>3, <2>1 DEF Awaiting
<1>5. \A d, b \in Conns : ~Awaiting(d, b)'
  <2>1. \A b \in Conns : tpc'[b] # "cast"
    BY <1>1, <1>3 DEF TypeOK
  <2>2. QED
    BY <2>1 DEF Awaiting
<1>6. QED
  BY <1>1, <1>2, <1>4, <1>5, StreamStays DEF IndInv, Invisible

(* From here on the steps that the room sees.  A step that ends the        *)
(* process, whatever else it does, closes the room.                        *)
LEMMA CollapseStep ==
    ASSUME Invisible, server = "up"
    PROVE  RoomP!Next \/ UNCHANGED RoomP!roomVars
BY DEF Invisible, RoomP!Next, RoomP!Collapse, RoomP!roomVars

(* A registration enters its client, when nobody speaks.                   *)
LEMMA EnterStep ==
    ASSUME IndInv, IndInv', Register, server = "up"
    PROVE  \E c \in Conns : RoomP!Enter(c)
<1> USE DEF vars, table, main, handler, socks, bytes
<1>1. PICK d \in Conns : d = owner[client_socket]
  BY DEF Register, IndInv, MainInv
<1>2. /\ TypeOK /\ g_mutex = None /\ client_socket # 0 /\ ~Registered(d)
      /\ g_count \in Slots
      /\ g_sockets' = [g_sockets EXCEPT ![g_count] = client_socket]
      /\ arg' = [arg EXCEPT ![d] = [socket |-> client_socket, index |-> g_count]]
      /\ UNCHANGED <<g_mutex, received, inN, sent, tpc, server>>
  BY <1>1, SizesAssumption DEF Register, IndInv, MainInv, TypeOK, Slots
<1>3. /\ arg'[d].socket # 0 /\ arg'[d].index = g_count
      /\ g_sockets'[g_count] # 0
      /\ \A c \in Conns : c # d => arg'[c] = arg[c]
      /\ \A j \in Slots : j # g_count => g_sockets'[j] = g_sockets[j]
  BY <1>2 DEF TypeOK
<1>4. InTable(d)' /\ ~InTable(d)
  BY <1>2, <1>3 DEF InTable, Registered
<1>5. ASSUME NEW c \in Conns, c # d
      PROVE  (InTable(c)' <=> InTable(c)) /\ (Registered(c)' <=> Registered(c))
  <2>1. Registered(c) => arg[c].index \in Slots /\ arg[c].index # g_count
    <3>1. \A x, y \in Nat : x < y => x # y
      OBVIOUS
    <3>2. g_count \in Nat /\ arg[c].index \in Nat /\ arg[c].index \in Slots
      <4>1. g_count \in 0..Capacity /\ arg \in [Conns -> [socket : Fds \cup {0}, index : Slots]]
        BY <1>2 DEF TypeOK
      <4>2. arg[c].index \in Slots
        BY <4>1
      <4>3. QED
        BY <4>1, <4>2, SizesAssumption DEF Slots
    <3>3. Registered(c) => arg[c].index < g_count
      BY DEF IndInv, SlotInv
    <3>4. QED
      BY <3>1, <3>2, <3>3, Zenon
  <2>2. arg'[c] = arg[c]
    BY <1>3, <1>5
  <2>3. Registered(c)' <=> Registered(c)
    BY <2>2 DEF Registered
  <2>4. Registered(c) => g_sockets'[arg'[c].index] = g_sockets[arg[c].index]
    BY <1>3, <2>1, <2>2
  <2>5. QED
    BY <2>3, <2>4 DEF InTable
<1>6. Place' = [Place EXCEPT ![d] = "inside"]
  <2>1. ASSUME NEW c \in Conns
        PROVE  (IF InTable(c)' THEN "inside"
                ELSE IF Registered(c)' THEN "left" ELSE "outside")
               = IF c = d THEN "inside" ELSE Place[c]
    <3>1. CASE c = d
      BY <1>4, <3>1
    <3>2. CASE c # d
      <4>1. (InTable(c)' <=> InTable(c)) /\ (Registered(c)' <=> Registered(c))
        BY <1>5, <3>2, Zenon
      <4>2. Place[c] = IF InTable(c) THEN "inside"
                       ELSE IF Registered(c) THEN "left" ELSE "outside"
        BY DEF Place
      <4>3. QED
        BY <3>2, <4>1, <4>2
    <3>3. QED
      BY <3>1, <3>2
  <2>2. QED
    BY <2>1 DEF Place
<1>7. Place[d] = "outside"
  BY <1>2, <1>4 DEF Place
<1>8. Said' = Said
  BY <1>2 DEF Said
<1>9. Stream' = Stream
  <2>1. \A b \in Conns : tpc[b] # "cast"
    BY <1>2, NobodySpeaks DEF IndInv
  <2>2. \A c \in Conns : Stream[c] = sent[c] /\ Stream'[c] = sent'[c]
    BY <1>2, <2>1, StreamAtRest DEF IndInv
  <2>3. \A c \in Conns : Stream'[c] = Stream[c]
    BY <1>2, <2>2
  <2>4. QED
    BY <2>3, Zenon DEF Stream
<1>10. QED
  BY <1>2, <1>6, <1>7, <1>8, <1>9 DEF RoomP!Enter

(* A handler that gives its slot up takes its client out of the room.      *)
LEMMA LeaveStep ==
    ASSUME IndInv, IndInv', NEW c \in Conns, Leave(c), server = "up"
    PROVE  RoomP!Leave(c)
<1> USE DEF vars, table, main, handler, socks, bytes
<1>1. /\ TypeOK /\ g_mutex = None /\ tpc[c] = "leave"
      /\ g_sockets' = [g_sockets EXCEPT ![arg[c].index] = 0]
      /\ tpc' = [tpc EXCEPT ![c] = "close"]
      /\ UNCHANGED <<arg, g_mutex, received, inN, sent, server>>
  BY DEF Leave, IndInv
<1>2. Registered(c) /\ g_sockets[arg[c].index] = arg[c].socket /\ arg[c].index \in Slots
  BY <1>1 DEF IndInv, SlotInv, TypeOK
<1>3. InTable(c) /\ ~InTable(c)' /\ Registered(c)'
  BY <1>1, <1>2 DEF InTable, Registered, TypeOK
<1>4. ASSUME NEW d \in Conns, d # c
      PROVE  (InTable(d)' <=> InTable(d)) /\ (Registered(d)' <=> Registered(d))
  <2>1. Registered(d) => arg[d].index \in Slots /\ arg[d].index # arg[c].index
    BY <1>1, <1>2, <1>4 DEF IndInv, SlotInv, TypeOK
  <2>2. Registered(d)' <=> Registered(d)
    BY <1>1 DEF Registered
  <2>3. Registered(d) => g_sockets'[arg'[d].index] = g_sockets[arg[d].index]
    BY <1>1, <2>1 DEF TypeOK
  <2>4. QED
    BY <2>2, <2>3 DEF InTable
<1>5. Place' = [Place EXCEPT ![c] = "left"]
  <2>1. ASSUME NEW d \in Conns
        PROVE  (IF InTable(d)' THEN "inside"
                ELSE IF Registered(d)' THEN "left" ELSE "outside")
               = IF d = c THEN "left" ELSE Place[d]
    <3>1. CASE d = c
      BY <1>3, <3>1
    <3>2. CASE d # c
      <4>1. (InTable(d)' <=> InTable(d)) /\ (Registered(d)' <=> Registered(d))
        BY <1>4, <3>2, Zenon
      <4>2. Place[d] = IF InTable(d) THEN "inside"
                       ELSE IF Registered(d) THEN "left" ELSE "outside"
        BY DEF Place
      <4>3. QED
        BY <3>2, <4>1, <4>2
    <3>3. QED
      BY <3>1, <3>2
  <2>2. QED
    BY <2>1 DEF Place
<1>6. Place[c] = "inside"
  BY <1>3 DEF Place
<1>7. Said' = Said
  BY <1>1 DEF Said, TypeOK
<1>8. Stream' = Stream
  <2>1. \A b \in Conns : tpc[b] # "cast"
    BY <1>1, NobodySpeaks DEF IndInv
  <2>2. \A b \in Conns : tpc'[b] # "cast"
    BY <1>1, <2>1 DEF TypeOK
  <2>3. \A d \in Conns : Stream[d] = sent[d] /\ Stream'[d] = sent'[d]
    BY <2>1, <2>2, StreamAtRest DEF IndInv
  <2>4. \A d \in Conns : Stream'[d] = Stream[d]
    BY <1>1, <2>3
  <2>5. QED
    BY <2>4, Zenon DEF Stream
<1>9. QED
  BY <1>1, <1>5, <1>6, <1>7, <1>8 DEF RoomP!Leave

(* When the mutex is taken, everything received is said, to all who are in *)
(* the table.                                                              *)
LEMMA SayStep ==
    ASSUME IndInv, IndInv', NEW c \in Conns, BroadcastBegin(c), server = "up"
    PROVE  RoomP!Say(c, received[c]) /\ received[c] \in 1..RecvMax
<1> USE DEF vars, table, main, handler, socks, bytes
<1>1. /\ TypeOK /\ g_mutex = None /\ tpc[c] = "lock"
      /\ i' = [i EXCEPT ![c] = 0]
      /\ tpc' = [tpc EXCEPT ![c] = "cast"]
      /\ UNCHANGED <<g_sockets, arg, received, inN, sent, server>>
  BY DEF BroadcastBegin, IndInv
<1>2. received[c] \in 1..RecvMax
  BY <1>1, SizesAssumption DEF IndInv, ChunkInv, TypeOK
<1>3. Place' = Place
  BY <1>1 DEF Place, InTable, Registered
<1>4. Place[c] = "inside"
  <2>1. Registered(c) /\ g_sockets[arg[c].index] # 0
    BY <1>1 DEF IndInv, SlotInv, Registered
  <2>2. QED
    BY <2>1 DEF Place, InTable
<1>5. Said[c] = inN[c] - received[c]
  BY <1>1 DEF Said
<1>6. Said' = [Said EXCEPT ![c] = @ + received[c]]
  <2>1. PICK x \in Nat, k \in Nat : x = inN[c] /\ k = received[c]
    BY <1>1, SizesAssumption DEF TypeOK
  <2>2. (x - k) + k = x
    OBVIOUS
  <2>3. tpc'[c] = "cast" /\ \A d \in Conns : d # c => tpc'[d] = tpc[d]
    BY <1>1 DEF TypeOK
  <2>4. \A d \in Conns :
            (IF tpc'[d] = "lock" THEN inN'[d] - received'[d] ELSE inN'[d])
            = IF d = c THEN Said[c] + received[c] ELSE Said[d]
    BY <1>1, <1>5, <2>1, <2>2, <2>3 DEF Said
  <2>5. QED
    BY <2>4 DEF Said
<1>7. Chunk(c)' = RoomP!Words(c, Said[c], received[c])
  BY <1>1, <1>5 DEF Chunk, RoomP!Words
<1>8. ASSUME NEW d \in Conns
      PROVE  Stream'[d] = IF Place[d] = "inside" /\ d # c
                          THEN Stream[d] \o RoomP!Words(c, Said[c], received[c])
                          ELSE Stream[d]
  <2>1. \A b \in Conns : tpc[b] # "cast"
    BY <1>1, NobodySpeaks DEF IndInv
  <2>2. Stream[d] = sent[d]
    BY <2>1, StreamAtRest DEF IndInv
  <2>3. \A b \in Conns : b # c => ~Awaiting(d, b)'
    BY <1>1, <2>1 DEF Awaiting, TypeOK
  <2>4. Awaiting(d, c)' <=> InTable(d) /\ d # c
    <3>1. i'[c] = 0 /\ tpc'[c] = "cast" /\ arg[d].index >= 0
      BY <1>1 DEF TypeOK, Slots
    <3>2. QED
      BY <1>1, <3>1 DEF Awaiting, InTable, Registered
  <2>5. Place[d] = "inside" <=> InTable(d)
    BY DEF Place
  <2>6. CASE InTable(d) /\ d # c
    <3>1. Stream'[d] = sent'[d] \o Chunk(c)'
      BY <2>4, <2>6, StreamIsNext DEF IndInv
    <3>2. QED
      BY <1>1, <1>7, <2>2, <2>5, <2>6, <3>1
  <2>7. CASE ~(InTable(d) /\ d # c)
    <3>1. Stream'[d] = sent'[d]
      BY <2>3, <2>4, <2>7, StreamIsNext DEF IndInv
    <3>2. QED
      BY <1>1, <2>2, <2>5, <2>7, <3>1
  <2>8. QED
    BY <2>6, <2>7
<1>9. Stream' = [d \in Conns |-> IF Place[d] = "inside" /\ d # c
                                THEN Stream[d] \o RoomP!Words(c, Said[c], received[c])
                                ELSE Stream[d]]
  <2>1. Stream' = [d \in Conns |-> Stream'[d]]
    BY DEF Stream
  <2>2. QED
    BY <1>8, <2>1
<1>10. QED
  BY <1>1, <1>2, <1>3, <1>4, <1>6, <1>9 DEF RoomP!Say

(* Every step of the server is a step of the room, or one it does not see. *)
LEMMA RoomStep ==
    ASSUME IndInv, IndInv', Next
    PROVE  RoomP!Next \/ UNCHANGED RoomP!roomVars
<1> USE DEF vars, table, main, handler, socks, bytes
<1>1. server = "up" /\ TypeOK
  BY DEF Next, IndInv
<1>2. ASSUME UNCHANGED <<g_sockets, arg, received, inN, i, sent>>,
             \A c \in Conns : /\ tpc[c] = "lock" <=> tpc'[c] = "lock"
                              /\ tpc[c] = "cast" <=> tpc'[c] = "cast"
      PROVE  RoomP!Next \/ UNCHANGED RoomP!roomVars
  BY <1>1, <1>2, OutsideStep, CollapseStep
<1>3. CASE Main
  <2>1. CASE Accept
    <3>1. UNCHANGED <<g_sockets, arg, received, inN, i, sent, tpc>>
      BY <2>1, AcceptEffect
    <3>2. QED
      BY <1>2, <3>1
  <2>2. CASE Register
    BY <1>1, <2>2, EnterStep DEF RoomP!Next
  <2>3. CASE Overrun
    BY <1>2, <2>3 DEF Overrun
  <2>4. CASE Spawn \/ SpawnFails
    <3>1. UNCHANGED <<g_sockets, arg, received, inN, i, sent>>
      BY <2>4 DEF Spawn, SpawnFails
    <3>2. PICK d \in Conns : d = owner[client_socket] /\ tpc[d] = "none"
      BY <2>4 DEF Spawn, SpawnFails, IndInv, MainInv
    <3>3. \E pc \in {"recv", "orphan"} : tpc' = [tpc EXCEPT ![d] = pc]
      BY <2>4, <3>2 DEF Spawn, SpawnFails
    <3>4. ASSUME NEW c \in Conns
          PROVE  /\ tpc[c] = "lock" <=> tpc'[c] = "lock"
                 /\ tpc[c] = "cast" <=> tpc'[c] = "cast"
      BY <1>1, <3>2, <3>3 DEF TypeOK
    <3>5. QED
      BY <1>2, <3>1, <3>4
  <2>5. QED
    BY <1>3, <2>1, <2>2, <2>3, <2>4 DEF Main
<1>4. ASSUME NEW c \in Conns, Client(c)
      PROVE  RoomP!Next \/ UNCHANGED RoomP!roomVars
  BY <1>2, <1>4 DEF Client, Connect, ClientWrite, ClientRead, ClientLeave
<1>5. ASSUME NEW c \in Conns, Handler(c)
      PROVE  RoomP!Next \/ UNCHANGED RoomP!roomVars
  <2>1. CASE Recv(c) \/ RecvEnd(c)
    BY <1>1, <2>1, RecvStep, CollapseStep
  <2>2. CASE BroadcastBegin(c)
    BY <1>1, <2>2, SayStep DEF RoomP!Next
  <2>3. CASE BroadcastSkip(c)
    BY <1>1, <2>3, SkipStep, CollapseStep
  <2>4. CASE BroadcastSend(c)
    BY <1>1, <2>4, SendStep, CollapseStep
  <2>5. CASE BroadcastDies(c)
    BY <1>2, <2>5 DEF BroadcastDies
  <2>6. CASE BroadcastEnd(c)
    BY <1>1, <2>6, EndStep, CollapseStep
  <2>7. CASE Leave(c)
    BY <1>1, <2>7, LeaveStep DEF RoomP!Next
  <2>8. CASE Close(c)
    <3>1. /\ UNCHANGED <<g_sockets, arg, received, inN, i, sent>>
          /\ tpc[c] = "close" /\ tpc' = [tpc EXCEPT ![c] = "done"]
      BY <2>8 DEF Close
    <3>2. ASSUME NEW d \in Conns
          PROVE  /\ tpc[d] = "lock" <=> tpc'[d] = "lock"
                 /\ tpc[d] = "cast" <=> tpc'[d] = "cast"
      BY <1>1, <3>1 DEF TypeOK
    <3>3. QED
      BY <1>2, <3>1, <3>2
  <2>9. QED
    BY <1>5, <2>1, <2>2, <2>3, <2>4, <2>5, <2>6, <2>7, <2>8 DEF Handler
<1>6. QED
  BY <1>3, <1>4, <1>5 DEF Next

(* The threads, the mutex and the table are the room of ChatRoom, written  *)
(* with the mapping under which RoomP has its theorem.                     *)
THEOREM Implements == Spec => RoomP!Spec
<1>1. Init => RoomP!Init
  <2> SUFFICES ASSUME Init PROVE RoomP!Init
    OBVIOUS
  <2>1. Place = [c \in Conns |-> "outside"]
    BY DEF Init, Place, InTable, Registered
  <2>2. Said = [c \in Conns |-> 0]
    BY DEF Init, Said
  <2>3. Stream = [c \in Conns |-> <<>>]
    BY DEF Init, Stream, Awaiting
  <2>4. QED
    BY <2>1, <2>2, <2>3 DEF Init, RoomP!Init
<1>2. IndInv /\ IndInv' /\ [Next]_vars => [RoomP!Next]_RoomP!roomVars
  <2>1. ASSUME IndInv, IndInv', Next
        PROVE  [RoomP!Next]_RoomP!roomVars
    BY <2>1, RoomStep
  <2>2. ASSUME IndInv, IndInv', UNCHANGED vars
        PROVE  UNCHANGED RoomP!roomVars
    <3>1. Invisible /\ server' = server
      BY <2>2, OutsideStep DEF vars, table, main, handler, socks, bytes
    <3>2. QED
      BY <3>1 DEF Invisible, RoomP!roomVars
  <2>3. QED
    BY <2>1, <2>2
<1>3. QED
  BY <1>1, <1>2, Invariance, PTL DEF Spec, RoomP!Spec

(* ThreadChat implements the promise of ChatRoom: what a client says is    *)
(* heard whole, at once, by exactly the others who are registered, however *)
(* the threads interleave and however often descriptors are used again.    *)
THEOREM RoomImplemented == Spec => RoomSpec
<1>1. RoomP!Init => Room!Init
  BY DEF RoomP!Init, Room!Init
<1>2. [RoomP!Next]_RoomP!roomVars => [Room!Next]_Room!roomVars
  BY DEF RoomP!Next, Room!Next, RoomP!roomVars, Room!roomVars, RoomP!Enter, Room!Enter,
         RoomP!Leave, Room!Leave, RoomP!Say, Room!Say, RoomP!Words, Room!Words,
         RoomP!Collapse, Room!Collapse
<1>3. QED
  BY <1>1, <1>2, Implements, PTL DEF RoomSpec, Room!Spec, RoomP!Spec

(* Any two clients hear the bytes that both hear in the same order, and    *)
(* nobody hears a byte twice: what the room's order says of all that is    *)
(* said, cut off where the server has got with its sending.                *)
THEOREM OneOrderForAll == Spec => []SameOrder
<1>1. ASSUME IndInv, NEW d \in Conns
      PROVE  /\ Len(sent[d]) \in Nat /\ Len(Stream[d]) \in Nat
             /\ Len(sent[d]) =< Len(Stream[d])
             /\ \A n \in 1..Len(sent[d]) : Stream[d][n] = sent[d][n]
  <2>1. sent[d] \in Seq(Conns \X Nat) /\ Len(sent[d]) \in Nat
    BY <1>1 DEF IndInv, TypeOK
  <2>2. ASSUME NEW b \in Conns, Awaiting(d, b)
        PROVE  /\ Len(Stream[d]) \in Nat
               /\ Len(sent[d]) =< Len(Stream[d])
               /\ \A n \in 1..Len(sent[d]) : Stream[d][n] = sent[d][n]
    <3>1. Stream[d] = sent[d] \o Chunk(b)
      BY <1>1, <2>2, StreamIs DEF IndInv
    <3>2. Chunk(b) \in Seq(Conns \X Nat)
      BY <1>1, ChunkType DEF IndInv
    <3>3. /\ Len(Stream[d]) = Len(sent[d]) + Len(Chunk(b)) /\ Len(Chunk(b)) \in Nat
          /\ \A n \in 1..Len(sent[d]) + Len(Chunk(b)) :
               Stream[d][n] = IF n =< Len(sent[d]) THEN sent[d][n]
                              ELSE Chunk(b)[n - Len(sent[d])]
      BY <2>1, <3>1, <3>2, ConcatProperties, LenProperties
    <3>4. \A n \in 1..Len(sent[d]) : n \in 1..Len(sent[d]) + Len(Chunk(b)) /\ n =< Len(sent[d])
      BY <2>1, <3>3
    <3>5. Len(sent[d]) =< Len(Stream[d]) /\ Len(Stream[d]) \in Nat
      BY <2>1, <3>3
    <3>6. QED
      BY <3>3, <3>4, <3>5
  <2>3. ASSUME \A b \in Conns : ~Awaiting(d, b)
        PROVE  Stream[d] = sent[d]
    BY <1>1, <2>3, StreamIs DEF IndInv
  <2>4. \A x \in Nat : x =< x
    OBVIOUS
  <2>5. QED
    BY <2>1, <2>2, <2>3, <2>4
<1>2. ASSUME IndInv, NEW c \in Conns, NEW d \in Conns
      PROVE  Common(c, d) \subseteq RoomP!Common(c, d)
  <2> SUFFICES ASSUME NEW p \in Common(c, d)
               PROVE  p \in RoomP!Common(c, d)
    OBVIOUS
  <2>1. /\ p \in (1..Len(sent[c])) \X (1..Len(sent[d]))
        /\ sent[c][p[1]] = sent[d][p[2]]
    BY DEF Common
  <2>2. p[1] \in 1..Len(sent[c]) /\ p[2] \in 1..Len(sent[d]) /\ p = <<p[1], p[2]>>
    BY <2>1
  <2>3. Stream[c][p[1]] = Stream[d][p[2]]
    BY <1>1, <1>2, <2>1, <2>2
  <2>4. p[1] \in 1..Len(Stream[c]) /\ p[2] \in 1..Len(Stream[d])
    BY <1>1, <1>2, <2>2
  <2>5. p \in (1..Len(Stream[c])) \X (1..Len(Stream[d]))
    BY <2>2, <2>4
  <2>6. QED
    BY <2>3, <2>5 DEF RoomP!Common
<1>3. IndInv /\ RoomP!RoomOrder => SameOrder
  BY <1>2 DEF RoomP!RoomOrder, SameOrder
<1>4. RoomP!Spec => []RoomP!RoomOrder
  BY RoomP!OneOrder, SizesAssumption
<1>5. QED
  BY <1>3, <1>4, Implements, Invariance, PTL
=============================================================================
