--------------------------- MODULE ForkChatProofs ---------------------------
(***************************************************************************)
(* The forking chat server, for every number of clients, every order of    *)
(* the two stores of sockets[count++] and every interleaving of the        *)
(* processes: nobody hears anybody else, and until the table overflows no  *)
(* child loses its slot to another one.                                    *)
(***************************************************************************)
EXTENDS ForkChat, TLAPS, WellFoundedInduction, SequenceTheorems, FiniteSetTheorems

LEMMA FdsType == Fds \subseteq Nat /\ 0 \notin Fds /\ -1 \notin Fds /\ Capacity \notin Fds
BY FdsAssumption, SizesAssumption

(* A nonempty set of descriptors has a lowest one: what accept() returns.  *)
LEMMA LowestFdFree ==
    ASSUME NEW S \in SUBSET Fds, S # {}
    PROVE  LowestFd(S) \in S
<1>1. S \subseteq Nat
  BY FdsType
<1>2. PICK f \in S : \A g \in S : <<g, f>> \notin OpToRel(<, Nat)
  BY <1>1, WFMin, NatLessThanWellFounded, Zenon
<1>3. \A g \in S : ~(g < f)
  BY <1>1, <1>2, Zenon DEF OpToRel
<1>4. \A g \in S : f =< g
  BY <1>1, <1>3
<1>5. QED
  BY <1>4 DEF LowestFd

(* What an accept() does to the descriptors, without LowestFd. *)
LEMMA AcceptEffect ==
    ASSUME Accept
    PROVE  \E c \in Conns, f \in Fds :
             /\ mpc = "accept"
             /\ link' = [link EXCEPT ![c] = "accepted"]
             /\ incoming' = c /\ d' = f
             /\ fds' = [fds EXCEPT ![Parent][f] = c]
             /\ mpc' = "register"
             /\ UNCHANGED <<mem, spilled, n, pc, my_socket, i, received, gone, outN,
                            inN, heard, hit>>
<1> DEFINE f == LowestFd(FreeFds)
<1>1. f \in Fds
  BY LowestFdFree DEF Accept, FreeFds
<1>2. QED
  BY <1>1 DEF Accept, shared, child, bytes

(* The words of the chunk that a child sends. *)
LEMMA ChunkType ==
    ASSUME NEW c \in Conns, NEW r \in Nat, NEW m \in Nat, r =< m
    PROVE  /\ [k \in 1..r |-> <<c, m - r + k>>] \in Seq(Conns \X Nat)
           /\ Len([k \in 1..r |-> <<c, m - r + k>>]) = r
<1>1. \A k \in 1..r : m - r + k \in Nat
  OBVIOUS
<1>2. \A k \in 1..r : <<c, m - r + k>> \in Conns \X Nat
  BY <1>1
<1>3. QED
  BY <1>2, IsASeq

(* Every step keeps the variables in their types. *)
LEMMA TypeStep ==
    ASSUME TypeOK, DescriptorInv, ChildInv, Next
    PROVE  TypeOK'
<1> USE DEF shared, parent, child, socks, bytes, Alive
<1>0. count \in Int /\ count + 1 \in Int
  <2>1. Capacity \in 0..Cells - 1
    BY SizesAssumption
  <2>2. mem \in [0..Cells - 1 -> Int]
    BY DEF TypeOK
  <2>3. QED
    BY <2>1, <2>2 DEF count
<1>1. ASSUME NEW c \in Conns, Connect(c) PROVE TypeOK'
  BY <1>1 DEF Connect, TypeOK
<1>2. ASSUME NEW c \in Conns, ClientWrite(c) PROVE TypeOK'
  <2>0. outN \in [Conns -> Nat]
    BY DEF TypeOK
  <2>1. outN[c] + 1 \in Nat
    BY <2>0
  <2>2. outN' \in [Conns -> Nat]
    BY <1>2, <2>0, <2>1 DEF ClientWrite
  <2>3. QED
    BY <1>2, <2>2 DEF ClientWrite, TypeOK
<1>3. ASSUME NEW c \in Conns, ClientLeave(c) PROVE TypeOK'
  BY <1>3 DEF ClientLeave, TypeOK
<1>4. CASE Accept
  <2>1. PICK c \in Conns, f \in Fds :
             /\ link' = [link EXCEPT ![c] = "accepted"]
             /\ incoming' = c /\ d' = f
             /\ fds' = [fds EXCEPT ![Parent][f] = c]
             /\ mpc' = "register"
             /\ UNCHANGED <<mem, spilled, n, pc, my_socket, i, received, gone, outN,
                            inN, heard, hit>>
    BY <1>4, AcceptEffect
  <2>2. fds' \in [Conns \cup {Parent} -> [Fds -> Conns \cup {None}]]
    BY <2>1 DEF TypeOK
  <2>3. QED
    BY <2>1, <2>2 DEF TypeOK
<1>5. CASE AcceptFails
  BY <1>5 DEF AcceptFails, TypeOK
<1>6. CASE Read
  BY <1>0, <1>6 DEF Read, TypeOK
<1>7. CASE StoreCell
  <2>1. d \in Int
    <3>1. d \in Fds \cup {-1}
      BY DEF TypeOK
    <3>2. QED
      BY <3>1, FdsType
  <2>2. mem' \in [0..Cells - 1 -> Int]
    BY <1>7, <2>1 DEF StoreCell, TypeOK
  <2>3. spilled' \in BOOLEAN
    BY <1>7 DEF StoreCell
  <2>4. mpc' \in {"fork", "count", "crash"}
    BY <1>7 DEF StoreCell
  <2>5. QED
    BY <1>7, <2>2, <2>3, <2>4 DEF StoreCell, TypeOK
<1>8. CASE StoreCount
  <2>0. n \in Int
    BY DEF TypeOK
  <2>1. n + 1 \in Int
    BY <2>0
  <2>2. mem' \in [0..Cells - 1 -> Int]
    BY <1>8, <2>1 DEF StoreCount, TypeOK
  <2>3. QED
    BY <1>8, <2>2 DEF StoreCount, TypeOK
<1>9. CASE Fork
  <2>1. CASE incoming = None
    BY <1>9, <2>1 DEF Fork, TypeOK
  <2>2. CASE incoming # None
    <3>1. incoming \in Conns /\ d \in Fds
      BY <2>2 DEF DescriptorInv, TypeOK
    <3>2. fds' \in [Conns \cup {Parent} -> [Fds -> Conns \cup {None}]]
      BY <1>9, <2>2, <3>1 DEF Fork, TypeOK
    <3>3. QED
      BY <1>9, <2>2, <3>1, <3>2 DEF Fork, TypeOK
  <2>3. QED
    BY <2>1, <2>2
<1>10. CASE ForkFails
  BY <1>10 DEF ForkFails, TypeOK
<1>11. CASE CloseD
  <2>1. fds' \in [Conns \cup {Parent} -> [Fds -> Conns \cup {None}]]
    <3>1. /\ fds \in [Conns \cup {Parent} -> [Fds -> Conns \cup {None}]]
          /\ d \in Fds \cup {-1}
      BY DEF TypeOK
    <3>2. QED
      BY <1>11, <3>1 DEF CloseD
  <2>2. QED
    BY <1>11, <2>1 DEF CloseD, TypeOK
<1>12. ASSUME NEW c \in Conns, Recv(c) PROVE TypeOK'
  <2>1. PICK k \in 1..outN[c] - inN[c] :
            /\ received' = [received EXCEPT ![c] = k]
            /\ inN' = [inN EXCEPT ![c] = @ + k]
    BY <1>12 DEF Recv
  <2>2. /\ inN \in [Conns -> Nat] /\ received \in [Conns -> Nat] /\ i \in [Conns -> Nat]
        /\ outN[c] \in Nat
    BY DEF TypeOK
  <2>3. k \in Nat /\ inN[c] + k \in Nat
    BY <2>2
  <2>4. received' \in [Conns -> Nat] /\ inN' \in [Conns -> Nat]
    BY <2>1, <2>2, <2>3
  <2>5. QED
    BY <1>12, <2>4 DEF Recv, TypeOK
<1>13. ASSUME NEW c \in Conns, RecvEnd(c) PROVE TypeOK'
  BY <1>13 DEF RecvEnd, TypeOK
<1>14. ASSUME NEW c \in Conns, Test(c) PROVE TypeOK'
  <2>0. i \in [Conns -> Nat]
    BY DEF TypeOK
  <2>1. i \in [Conns -> Nat] /\ i[c] \in Nat /\ i[c] + 1 \in Nat
    BY <2>0
  <2>2. PICK x \in Nat : i' = [i EXCEPT ![c] = x]
    BY <1>14, <2>1 DEF Test
  <2>3. PICK s \in Alive : pc' = [pc EXCEPT ![c] = s]
    BY <1>14 DEF Test
  <2>4. i' \in [Conns -> Nat]
    BY <2>1, <2>2
  <2>5. pc' \in [Conns -> Alive \cup {"none", "scan", "clear", "exited", "killed"}]
    BY <2>3 DEF TypeOK
  <2>6. QED
    BY <1>14, <2>4, <2>5 DEF Test, TypeOK
<1>15. ASSUME NEW c \in Conns, TestOpen(c) PROVE TypeOK'
  <2>0. i \in [Conns -> Nat]
    BY DEF TypeOK
  <2>1. i \in [Conns -> Nat] /\ i[c] \in Nat /\ i[c] + 1 \in Nat
    BY <2>0
  <2>2. i' \in [Conns -> Nat]
    BY <1>15, <2>1 DEF TestOpen
  <2>3. PICK s \in Alive : pc' = [pc EXCEPT ![c] = s]
    BY <1>15 DEF TestOpen
  <2>4. pc' \in [Conns -> Alive \cup {"none", "scan", "clear", "exited", "killed"}]
    BY <2>3 DEF TypeOK
  <2>5. QED
    BY <1>15, <2>2, <2>4 DEF TestOpen, TypeOK
<1>16. ASSUME NEW c \in Conns, Send(c) PROVE TypeOK'
  <2> DEFINE to == Behind(c, mem[i[c]])
             w == [k \in 1..received[c] |-> <<c, inN[c] - received[c] + k>>]
  <2>0. i \in [Conns -> Nat]
    BY DEF TypeOK
  <2>1. i \in [Conns -> Nat] /\ i[c] + 1 \in Nat
    BY <2>0
  <2>2. i' \in [Conns -> Nat] /\ pc' = [pc EXCEPT ![c] = "test"]
    BY <1>16, <2>1 DEF Send
  <2>3. to \in Conns \cup {None}
    <3>1. fds \in [Conns \cup {Parent} -> [Fds -> Conns \cup {None}]]
      BY DEF TypeOK
    <3>2. QED
      BY <3>1 DEF Behind
  <2>4. pc' \in [Conns -> Alive \cup {"none", "scan", "clear", "exited", "killed"}]
    BY <2>2 DEF TypeOK
  <2>5. CASE to = None
    BY <1>16, <2>2, <2>4, <2>5 DEF Send, TypeOK
  <2>6. CASE to # None
    <3>1. to \in Conns
      BY <2>3, <2>6
    <3>2. w \in Seq(Conns \X Nat)
      BY ChunkType DEF ChildInv, TypeOK
    <3> HIDE DEF w
    <3>3. heard' = [heard EXCEPT ![to] = @ \o w] /\ hit' = [hit EXCEPT ![to] = gone[to]]
      BY <1>16, <2>6 DEF Send, w
    <3> HIDE DEF to
    <3>4. /\ heard \in [Conns -> Seq(Conns \X Nat)] /\ hit \in [Conns -> BOOLEAN]
          /\ gone[to] \in BOOLEAN
      BY <3>1 DEF TypeOK
    <3>5. heard[to] \o w \in Seq(Conns \X Nat)
      BY <3>1, <3>2, <3>4, ConcatProperties
    <3>6. heard' \in [Conns -> Seq(Conns \X Nat)]
      BY <3>1, <3>3, <3>4, <3>5
    <3>7. hit' \in [Conns -> BOOLEAN]
      BY <3>1, <3>3, <3>4
    <3>8. QED
      BY <1>16, <2>2, <2>4, <3>6, <3>7 DEF Send, TypeOK
  <2>7. QED
    BY <2>5, <2>6
<1>17. ASSUME NEW c \in Conns, Killed(c) PROVE TypeOK'
  BY <1>17 DEF Killed, TypeOK
<1>18. ASSUME NEW c \in Conns, Scan(c) PROVE TypeOK'
  <2>0. i \in [Conns -> Nat]
    BY DEF TypeOK
  <2>1. i \in [Conns -> Nat] /\ i[c] \in Nat /\ i[c] + 1 \in Nat
    BY <2>0
  <2>2. PICK x \in Nat : i' = [i EXCEPT ![c] = x]
    BY <1>18, <2>1 DEF Scan
  <2>3. PICK s \in {"scan", "clear", "exited"} : pc' = [pc EXCEPT ![c] = s]
    BY <1>18 DEF Scan
  <2>4. i' \in [Conns -> Nat]
    BY <2>1, <2>2
  <2>5. pc' \in [Conns -> Alive \cup {"none", "scan", "clear", "exited", "killed"}]
    BY <2>3 DEF TypeOK
  <2>6. QED
    BY <1>18, <2>4, <2>5 DEF Scan, TypeOK
<1>19. ASSUME NEW c \in Conns, Clear(c) PROVE TypeOK'
  <2>1. mem \in [0..Cells - 1 -> Int] /\ i \in [Conns -> Nat]
    BY DEF TypeOK
  <2>2. mem' = [mem EXCEPT ![i[c]] = -1] /\ i' = [i EXCEPT ![c] = 0] /\ -1 \in Int
    BY <1>19 DEF Clear
  <2>3. mem' \in [0..Cells - 1 -> Int]
    BY <2>1, <2>2
  <2>4. i' \in [Conns -> Nat]
    BY <2>1, <2>2
  <2>5. QED
    BY <1>19, <2>3, <2>4 DEF Clear, TypeOK
<1>20. QED
  BY <1>1, <1>2, <1>3, <1>4, <1>5, <1>6, <1>7, <1>8, <1>9, <1>10, <1>11, <1>12, <1>13,
     <1>14, <1>15, <1>16, <1>17, <1>18, <1>19
  DEF Next, ParentNext, Client, Child

(* No step gives the parent a second descriptor, or a child a foreign one.  *)
LEMMA DescriptorStep ==
    ASSUME TypeOK, DescriptorInv, Next
    PROVE  DescriptorInv'
<1> USE DEF shared, parent, child, socks, bytes
<1>1. CASE UNCHANGED <<fds, d, incoming>> /\ mpc' # "accept"
  BY <1>1 DEF DescriptorInv
<1>2. CASE UNCHANGED <<fds, d, incoming, mpc>>
  BY <1>2 DEF DescriptorInv
<1>3. CASE Accept
  <2>1. PICK c \in Conns, f \in Fds :
             /\ mpc = "accept"
             /\ incoming' = c /\ d' = f
             /\ fds' = [fds EXCEPT ![Parent][f] = c]
             /\ mpc' = "register"
    BY <1>3, AcceptEffect
  <2>2. \A g \in Fds : fds[Parent][g] = None
    BY <2>1, FdsType DEF DescriptorInv
  <2>3. \A g \in Fds : fds'[Parent][g] = IF g = f THEN c ELSE None
    BY <2>1, <2>2 DEF TypeOK
  <2>4. \A e \in Conns : fds'[e] = fds[e]
    BY <2>1, ParentAssumption DEF TypeOK
  <2>5. QED
    BY <2>1, <2>3, <2>4, FdsType, NoneAssumption DEF DescriptorInv
<1>4. CASE AcceptFails
  BY <1>4 DEF AcceptFails, DescriptorInv
<1>5. CASE Fork
  <2>1. CASE incoming = None
    BY <1>1, <1>5, <2>1 DEF Fork
  <2>2. CASE incoming # None
    <3>1. incoming \in Conns /\ fds' = [fds EXCEPT ![incoming] = fds[Parent]]
      BY <1>5, <2>2 DEF Fork, TypeOK
    <3>2. fds'[Parent] = fds[Parent]
      BY <3>1, ParentAssumption DEF TypeOK
    <3>3. \A c \in Conns : fds'[c] = IF c = incoming THEN fds[Parent] ELSE fds[c]
      BY <3>1 DEF TypeOK
    <3>4. \A c \in Conns : \A f \in Fds : fds'[c][f] \in {c, None}
      BY <3>3 DEF DescriptorInv
    <3>5. QED
      BY <1>5, <3>2, <3>4 DEF Fork, DescriptorInv
  <2>3. QED
    BY <2>1, <2>2
<1>6. CASE CloseD
  <2>1. mpc' = "accept" /\ d' = -1 /\ incoming' = None
    BY <1>6 DEF CloseD
  <2>2. ASSUME NEW f \in Fds PROVE fds'[Parent][f] = None
    BY <1>6, FdsType DEF CloseD, DescriptorInv, TypeOK
  <2>3. \A c \in Conns : fds'[c] = fds[c]
    BY <1>6, ParentAssumption DEF CloseD, TypeOK
  <2>4. QED
    BY <2>1, <2>2, <2>3 DEF DescriptorInv
<1>7. QED
  BY <1>1, <1>2, <1>3, <1>4, <1>5, <1>6
  DEF Next, ParentNext, Client, Child, Connect, ClientWrite, ClientLeave, Read, StoreCell,
      StoreCount, ForkFails, Recv, RecvEnd, Test, TestOpen, Send, Killed, Scan, Clear

(* A child has a descriptor, and never more bytes in its buffer than it     *)
(* was given.                                                              *)
LEMMA ChildStep ==
    ASSUME TypeOK, DescriptorInv, ChildInv, Next
    PROVE  ChildInv'
<1> USE DEF shared, parent, child, socks, bytes
<1>1. CASE UNCHANGED <<received, inN, my_socket>> /\
           \A c \in Conns : pc[c] = "none" => pc'[c] = "none"
  BY <1>1 DEF ChildInv
<1>2. CASE Fork
  <2>1. CASE incoming = None
    BY <1>1, <1>2, <2>1 DEF Fork
  <2>2. CASE incoming # None
    <3>1. my_socket \in [Conns -> Fds \cup {0}] /\ incoming \in Conns /\ d \in Fds
      BY <2>2 DEF DescriptorInv, TypeOK
    <3>2. /\ my_socket' = [my_socket EXCEPT ![incoming] = d]
          /\ pc' = [pc EXCEPT ![incoming] = "recv"]
          /\ UNCHANGED <<received, inN>>
      BY <1>2, <2>2 DEF Fork
    <3>3. \A e \in Conns : pc'[e] = IF e = incoming THEN "recv" ELSE pc[e]
      BY <3>2 DEF TypeOK
    <3>4. QED
      BY <3>1, <3>2, <3>3, FdsType DEF ChildInv
  <2>3. QED
    BY <2>1, <2>2
<1>3. ASSUME NEW c \in Conns, pc[c] # "none", NEW s, pc' = [pc EXCEPT ![c] = s],
             UNCHANGED my_socket
      PROVE  \A e \in Conns : pc'[e] # "none" => my_socket'[e] # 0
  <2>1. \A e \in Conns : pc'[e] = IF e = c THEN s ELSE pc[e]
    BY <1>3 DEF TypeOK
  <2>2. QED
    BY <1>3, <2>1 DEF ChildInv
<1>4. ASSUME NEW c \in Conns, Recv(c) PROVE ChildInv'
  <2>1. PICK k \in 1..outN[c] - inN[c] :
            /\ received' = [received EXCEPT ![c] = k]
            /\ inN' = [inN EXCEPT ![c] = @ + k]
    BY <1>4 DEF Recv
  <2>2. /\ inN \in [Conns -> Nat] /\ received \in [Conns -> Nat]
        /\ outN[c] \in Nat
    BY DEF TypeOK
  <2>3. k =< inN[c] + k
    BY <2>2
  <2>4. \A e \in Conns : received'[e] =< inN'[e]
    BY <2>1, <2>2, <2>3 DEF ChildInv
  <2>5. \A e \in Conns : pc'[e] # "none" => my_socket'[e] # 0
    BY <1>3, <1>4 DEF Recv
  <2>6. QED
    BY <2>4, <2>5 DEF ChildInv
<1>5. ASSUME NEW c \in Conns,
             RecvEnd(c) \/ Test(c) \/ TestOpen(c) \/ Send(c) \/ Killed(c) \/ Scan(c) \/ Clear(c)
      PROVE  ChildInv'
  <2>1. UNCHANGED <<received, inN, my_socket>> /\ pc[c] # "none"
    BY <1>5 DEF RecvEnd, Test, TestOpen, Send, Killed, Scan, Clear
  <2>2. \E s : pc' = [pc EXCEPT ![c] = s]
    BY <1>5 DEF RecvEnd, Test, TestOpen, Send, Killed, Scan, Clear
  <2>3. QED
    BY <1>3, <2>1, <2>2 DEF ChildInv
<1>6. CASE Accept
  <2>1. UNCHANGED <<received, inN, my_socket, pc>>
    BY <1>6, AcceptEffect
  <2>2. QED
    BY <1>1, <2>1
<1>7. QED
  BY <1>1, <1>2, <1>4, <1>5, <1>6
  DEF Next, ParentNext, Client, Child, Connect, ClientWrite, ClientLeave, AcceptFails,
      Read, StoreCell, StoreCount, ForkFails, CloseD

(* What a child sends can only arrive at its own client, because it has no *)
(* other one's descriptor.                                                 *)
LEMMA HearStep ==
    ASSUME TypeOK, DescriptorInv, ChildInv, NobodyHears, Next
    PROVE  NobodyHears'
<1> USE DEF shared, parent, child, socks, bytes
<1>1. CASE UNCHANGED heard
  BY <1>1 DEF NobodyHears
<1>2. ASSUME NEW c \in Conns, Send(c) PROVE NobodyHears'
  <2> DEFINE to == Behind(c, mem[i[c]])
             w == [k \in 1..received[c] |-> <<c, inN[c] - received[c] + k>>]
  <2>1. CASE to = None
    BY <1>1, <1>2, <2>1 DEF Send
  <2>2. CASE to # None
    <3>1. to = c
      BY <2>2 DEF Behind, DescriptorInv
    <3>2. received[c] \in Nat /\ inN[c] \in Nat /\ received[c] =< inN[c]
      BY DEF TypeOK, ChildInv
    <3>3. /\ w \in Seq(Conns \X Nat) /\ Len(w) \in Nat
          /\ \A k \in 1..Len(w) : w[k][1] = c
      BY <3>2, ChunkType
    <3>4. heard' = [heard EXCEPT ![c] = @ \o w]
      BY <1>2, <2>2, <3>1 DEF Send
    <3> HIDE DEF w
    <3>5. heard \in [Conns -> Seq(Conns \X Nat)]
      BY DEF TypeOK
    <3>6. \A e \in Conns : heard'[e] = IF e = c THEN heard[c] \o w ELSE heard[e]
      BY <3>4, <3>5
    <3>7. heard[c] \in Seq(Conns \X Nat) /\ Len(heard[c]) \in Nat
      BY <3>5
    <3>8. /\ Len(heard[c] \o w) = Len(heard[c]) + Len(w)
          /\ \A k \in 1..Len(heard[c]) + Len(w) :
               (heard[c] \o w)[k] = IF k =< Len(heard[c]) THEN heard[c][k]
                                    ELSE w[k - Len(heard[c])]
      BY <3>3, <3>7, ConcatProperties
    <3>9. ASSUME NEW k \in 1..Len(heard[c] \o w)
          PROVE  (heard[c] \o w)[k][1] = c
      <4>1. k \in 1..Len(heard[c]) + Len(w)
        BY <3>8
      <4>2. CASE k =< Len(heard[c])
        <5>1. k \in 1..Len(heard[c])
          BY <3>7, <4>1, <4>2
        <5>2. QED
          BY <3>8, <4>1, <4>2, <5>1 DEF NobodyHears
      <4>3. CASE ~(k =< Len(heard[c]))
        <5>1. k - Len(heard[c]) \in 1..Len(w)
          BY <3>3, <3>7, <4>1, <4>3
        <5>2. QED
          BY <3>3, <3>8, <4>1, <4>3, <5>1
      <4>4. QED
        BY <4>2, <4>3
    <3>10. ASSUME NEW e \in Conns, NEW k \in 1..Len(heard'[e])
           PROVE  heard'[e][k][1] = e
      <4>1. CASE e = c
        BY <3>6, <3>9, <4>1
      <4>2. CASE e # c
        BY <3>6, <4>2 DEF NobodyHears
      <4>3. QED
        BY <4>1, <4>2
    <3>11. QED
      BY <3>10 DEF NobodyHears
  <2>3. QED
    BY <2>1, <2>2
<1>3. CASE Accept
  BY <1>1, <1>3, AcceptEffect
<1>4. QED
  BY <1>1, <1>2, <1>3
  DEF Next, ParentNext, Client, Child, Connect, ClientWrite, ClientLeave, AcceptFails,
      Read, StoreCell, StoreCount, Fork, ForkFails, CloseD, Recv, RecvEnd, Test, TestOpen,
      Killed, Scan, Clear

(* Only the cells of sockets[] are counted, not the count behind them. *)
LEMMA SlotsFinite ==
    ASSUME NEW f
    PROVE  IsFiniteSet(SlotsOf(f)) /\ Cardinality(SlotsOf(f)) \in Nat
<1>1. IsFiniteSet(0..Capacity - 1)
  BY SizesAssumption, FS_Interval
<1>2. SlotsOf(f) \subseteq 0..Capacity - 1
  BY DEF SlotsOf
<1>3. QED
  BY <1>1, <1>2, FS_Subset, FS_CardinalityType

(* Where the table stands, in numbers. *)
LEMMA TableType ==
    ASSUME TypeOK, TableInv
    PROVE  /\ Capacity \in Nat /\ Cells \in Nat /\ Capacity \in 0..Cells - 1
           /\ n \in Int /\ count \in Int /\ Filled \in Nat /\ Filled =< Capacity
           /\ mpc = "cell" => n = Filled /\ count = n + 1
           /\ mpc = "count" => n + 1 = Filled /\ n = count
           /\ mpc \notin {"cell", "count"} => Filled = count
           /\ mpc = "cell, count" => n = Filled
           /\ mpc = "count, cell" => n = Filled
<1>1. mem \in [0..Cells - 1 -> Int] /\ n \in Int
  BY DEF TypeOK
<1>2. Capacity \in Nat /\ Cells \in Nat /\ Capacity \in 0..Cells - 1 /\ count \in Int
  BY <1>1, SizesAssumption DEF count
<1>3. Filled \in Nat /\ Filled =< Capacity
  <2>1. Filled \in 0..Capacity
    BY DEF TableInv
  <2>2. QED
    BY <1>2, <2>1
<1>4. mpc = "cell" => n = Filled /\ count = n + 1
  BY DEF TableInv, Filled
<1>5. mpc = "count" => n + 1 = Filled /\ n = count
  BY DEF TableInv, Filled
<1>6. mpc \notin {"cell", "count"} => Filled = count
  BY DEF Filled
<1>7. QED
  BY <1>1, <1>2, <1>3, <1>4, <1>5, <1>6 DEF TableInv

(* Counting. *)
LEMMA NoMoreAhead ==
    \A x, y \in Nat : \A a, b \in {0, 1} : x + a =< y /\ (b = 0 \/ b = a) => x + b =< y
OBVIOUS

LEMMA OneLess ==
    \A x, y \in Nat, z \in Int, a \in {0, 1} :
        x + a =< y /\ z >= y - 1 => (x - 1) + a =< z
OBVIOUS

(* The parent's steps that leave the table and the children as they are.   *)
LEMMA ParentTable ==
    ASSUME TypeOK, TableInv, UNCHANGED <<mem, pc, my_socket, i>>,
           mpc' \in {"cell, count", "count, cell"} => n' = count,
           mpc' \in {"accept", "register", "cell, count", "count, cell", "fork", "close"},
           mpc \notin {"cell", "count"},
           mpc' = "fork" => mpc = "fork" /\ d' = d
    PROVE  TableInv'
<1>1. count' = count /\ Filled' = Filled
  BY DEF count, Filled
<1>2. ASSUME NEW f \in Fds
      PROVE  /\ IsFiniteSet(Served(f)')
             /\ Cardinality(Served(f)') + Ahead(f)' =< Cardinality(SlotsOf(f)')
  <2>1. Served(f)' = Served(f) /\ SlotsOf(f)' = SlotsOf(f)
    BY DEF Served, SlotsOf
  <2>2. IsFiniteSet(Served(f)) /\ Cardinality(Served(f)) + Ahead(f) =< Cardinality(SlotsOf(f))
    BY DEF TableInv
  <2>3. Cardinality(Served(f)) \in Nat /\ Cardinality(SlotsOf(f)) \in Nat
    BY <2>2, SlotsFinite, FS_CardinalityType
  <2>4. Ahead(f)' = 0 \/ Ahead(f)' = Ahead(f)
    BY DEF Ahead
  <2>5. Ahead(f) \in {0, 1}
    BY DEF Ahead
  <2>7. Ahead(f)' \in {0, 1}
    BY <2>4, <2>5
  <2>8. Cardinality(Served(f)) + Ahead(f)' =< Cardinality(SlotsOf(f))
    BY <2>2, <2>3, <2>4, <2>5, <2>7, NoMoreAhead
  <2>9. QED
    BY <2>1, <2>2, <2>8
<1>3. \A j \in Filled'..Capacity - 1 : mem'[j] = 0
  BY <1>1 DEF TableInv
<1>4. \A c \in Conns : pc'[c] = "clear" =>
          i'[c] < Filled' /\ mem'[i'[c]] \in {my_socket'[c], -1}
  BY <1>1 DEF TableInv
<1>5. Filled' \in 0..Capacity
  BY <1>1 DEF TableInv
<1>6. mpc' # "cell" /\ (mpc' \in {"cell, count", "count, cell", "count"} => n' = count')
  BY <1>1
<1>7. QED
  BY <1>2, <1>3, <1>4, <1>5, <1>6 DEF TableInv

(* A child's step that leaves the table as it is. *)
LEMMA ChildTable ==
    ASSUME TypeOK, TableInv, UNCHANGED <<mem, mpc, n, d, my_socket>>,
           NEW c \in Conns, pc[c] \in Alive \cup {"scan", "clear"},
           NEW s, pc' = [pc EXCEPT ![c] = s],
           \A e \in Conns : e # c => i'[e] = i[e],
           s = "clear" => i'[c] < Filled /\ mem[i'[c]] = my_socket[c]
    PROVE  TableInv'
<1>1. count' = count /\ Filled' = Filled
  BY DEF count, Filled
<1>2. \A e \in Conns : pc'[e] = IF e = c THEN s ELSE pc[e]
  BY DEF TypeOK
<1>3. ASSUME NEW f \in Fds
      PROVE  /\ IsFiniteSet(Served(f)')
             /\ Cardinality(Served(f)') + Ahead(f)' =< Cardinality(SlotsOf(f)')
  <2>1. Served(f)' \subseteq Served(f)
    BY <1>2 DEF Served
  <2>2. SlotsOf(f)' = SlotsOf(f) /\ Ahead(f)' = Ahead(f)
    BY DEF SlotsOf, Ahead
  <2>3. IsFiniteSet(Served(f)) /\ Cardinality(Served(f)) + Ahead(f) =< Cardinality(SlotsOf(f))
    BY DEF TableInv
  <2>4. IsFiniteSet(Served(f)') /\ Cardinality(Served(f)') =< Cardinality(Served(f))
    BY <2>1, <2>3, FS_Subset
  <2>5. /\ Cardinality(Served(f)) \in Nat /\ Cardinality(SlotsOf(f)) \in Nat
        /\ Cardinality(Served(f)') \in Nat
    BY <2>3, <2>4, SlotsFinite, FS_CardinalityType
  <2>6. Ahead(f) \in {0, 1}
    BY DEF Ahead
  <2>7. QED
    BY <2>2, <2>3, <2>4, <2>5, <2>6
<1>4. \A e \in Conns : pc'[e] = "clear" =>
          i'[e] < Filled' /\ mem'[i'[e]] \in {my_socket'[e], -1}
  BY ZenonT(30), <1>1, <1>2 DEF TableInv
<1>5. /\ mpc' \in {"cell, count", "count, cell", "count"} => n' = count'
      /\ mpc' = "cell" => count' = n' + 1
      /\ Filled' \in 0..Capacity
      /\ \A j \in Filled'..Capacity - 1 : mem'[j] = 0
  BY <1>1 DEF TableInv
<1>6. QED
  BY <1>3, <1>4, <1>5 DEF TableInv

(* A slot with its own number is what a leaving child stops at, whatever   *)
(* the parent is doing to the last cell and to count.                      *)
LEMMA ScanTable ==
    ASSUME TypeOK, ChildInv, TableInv, NEW c \in Conns, Scan(c)
    PROVE  TableInv'
<1> USE DEF shared, parent, child, socks, bytes
<1> DEFINE s == IF i[c] >= count THEN "exited"
                ELSE IF mem[i[c]] = my_socket[c] THEN "clear" ELSE "scan"
<1>1. /\ pc[c] = "scan" /\ pc' = [pc EXCEPT ![c] = s]
      /\ UNCHANGED <<mem, mpc, n, d, my_socket>>
  BY DEF Scan
<1>2. \A e \in Conns : e # c => i'[e] = i[e]
  BY DEF Scan, TypeOK
<1>3. ASSUME s = "clear"
      PROVE  i'[c] < Filled /\ mem[i'[c]] = my_socket[c]
  <2>1. ~(i[c] >= count) /\ mem[i[c]] = my_socket[c]
    BY <1>3
  <2>2. i' = [i EXCEPT ![c] = i[c]] /\ i \in [Conns -> Nat]
    BY <2>1 DEF Scan, TypeOK
  <2>3. i'[c] = i[c] /\ i[c] \in Nat
    BY <2>2
  <2>4. /\ count \in Int /\ n \in Int /\ Filled \in Nat /\ Capacity \in Nat
        /\ Filled =< Capacity
        /\ mpc = "cell" => n = Filled /\ count = n + 1
        /\ mpc = "count" => n + 1 = Filled /\ n = count
        /\ mpc \notin {"cell", "count"} => Filled = count
    BY TableType
  <2>5. i[c] < Filled \/ (mpc = "cell" /\ i[c] = Filled)
    BY <2>1, <2>3, <2>4
  <2>6. CASE mpc = "cell" /\ i[c] = Filled
    <3>1. my_socket[c] \in Fds
      BY <1>1 DEF ChildInv, TypeOK
    <3>2. my_socket[c] \in 1..Capacity - 1
      BY <3>1, FdsAssumption
    <3>3. CASE Filled = Capacity
      <4>1. mem[i[c]] = Capacity + 1
        BY <2>4, <2>6, <3>3 DEF count
      <4>2. QED
        BY <2>1, <2>4, <3>2, <4>1
    <3>4. CASE Filled # Capacity
      <4>1. Filled \in Filled..Capacity - 1
        BY <2>4, <3>4
      <4>2. mem[Filled] = 0
        BY <4>1 DEF TableInv
      <4>3. QED
        BY <2>1, <2>6, <3>2, <4>2
    <3>5. QED
      BY <3>3, <3>4
  <2>7. QED
    BY <2>1, <2>3, <2>5, <2>6
<1> HIDE DEF s
<1>4. QED
  BY <1>1, <1>2, <1>3, ChildTable

(* Clearing takes one slot with the child's number away, or none, and the  *)
(* child with it.                                                          *)
LEMMA ClearTable ==
    ASSUME TypeOK, ChildInv, TableInv, NEW c \in Conns, Clear(c)
    PROVE  TableInv'
<1> USE DEF shared, parent, child, socks, bytes
<1>1. /\ pc[c] = "clear" /\ pc' = [pc EXCEPT ![c] = "exited"]
      /\ mem' = [mem EXCEPT ![i[c]] = -1]
      /\ i' = [i EXCEPT ![c] = 0]
      /\ UNCHANGED <<mpc, n, d, my_socket>>
  BY DEF Clear
<1>2. /\ i \in [Conns -> Nat] /\ mem \in [0..Cells - 1 -> Int]
      /\ my_socket[c] \in Fds
  BY <1>1 DEF TypeOK, ChildInv
<1>3. /\ Filled \in Nat /\ Filled =< Capacity /\ Capacity \in Nat
      /\ Cells \in Nat /\ Capacity \in 0..Cells - 1
  BY TableType
<1>4. /\ i[c] \in Nat /\ i[c] < Filled /\ mem[i[c]] \in {my_socket[c], -1}
  BY <1>1, <1>2 DEF TableInv
<1>5. i[c] \in 0..Capacity - 1 /\ i[c] # Capacity /\ i[c] \in 0..Cells - 1
  BY <1>3, <1>4
<1>6. \A j \in 0..Cells - 1 : mem'[j] = IF j = i[c] THEN -1 ELSE mem[j]
  BY <1>1, <1>2
<1>7. count' = count
  BY <1>3, <1>5, <1>6 DEF count
<1>8. Filled' = Filled
  BY <1>1, <1>7 DEF Filled
<1>9. \A e \in Conns : pc'[e] = IF e = c THEN "exited" ELSE pc[e]
  BY <1>1 DEF TypeOK
<1>10. ASSUME NEW f \in Fds
       PROVE  /\ IsFiniteSet(Served(f)')
              /\ Cardinality(Served(f)') + Ahead(f)' =< Cardinality(SlotsOf(f)')
  <2>1. Served(f)' = Served(f) \ {c}
    BY <1>1, <1>9 DEF Served, Alive
  <2>2. Ahead(f)' = Ahead(f) /\ Ahead(f) \in {0, 1}
    BY <1>1 DEF Ahead
  <2>3. IsFiniteSet(Served(f)) /\ Cardinality(Served(f)) + Ahead(f) =< Cardinality(SlotsOf(f))
    BY DEF TableInv
  <2>4. /\ IsFiniteSet(SlotsOf(f)) /\ Cardinality(SlotsOf(f)) \in Nat
        /\ Cardinality(Served(f)) \in Nat
    BY <2>3, SlotsFinite, FS_CardinalityType
  <2>5. /\ IsFiniteSet(Served(f)')
        /\ Cardinality(Served(f)') = IF c \in Served(f) THEN Cardinality(Served(f)) - 1
                                     ELSE Cardinality(Served(f))
    BY <2>1, <2>3, FS_RemoveElement
  <2>6. CASE my_socket[c] = f
    <3>1. c \in Served(f)
      BY <1>1, <2>6 DEF Served
    <3>2. SlotsOf(f)' = SlotsOf(f) \ {i[c]}
      <4>1. -1 # f
        BY FdsType
      <4>2. \A j \in 0..Capacity - 1 : j \in 0..Cells - 1
        BY <1>3
      <4>3. QED
        BY <1>6, <4>1, <4>2 DEF SlotsOf
    <3>3. Cardinality(SlotsOf(f)') >= Cardinality(SlotsOf(f)) - 1
      <4>1. Cardinality(SlotsOf(f)') = IF i[c] \in SlotsOf(f) THEN Cardinality(SlotsOf(f)) - 1
                                       ELSE Cardinality(SlotsOf(f))
        BY <2>4, <3>2, FS_RemoveElement
      <4>2. QED
        BY <2>4, <4>1
    <3>4. Cardinality(Served(f)') = Cardinality(Served(f)) - 1
      BY <2>5, <3>1
    <3>5. Cardinality(SlotsOf(f)') \in Int
      <4>1. IsFiniteSet(SlotsOf(f)')
        BY <2>4, <3>2, FS_RemoveElement
      <4>2. QED
        BY <4>1, FS_CardinalityType
    <3>7. (Cardinality(Served(f)) - 1) + Ahead(f) =< Cardinality(SlotsOf(f)')
      BY <2>2, <2>3, <2>4, <3>3, <3>5, OneLess
    <3>8. QED
      BY <2>2, <2>5, <3>4, <3>7
  <2>7. CASE my_socket[c] # f
    <3>1. c \notin Served(f)
      BY <2>7 DEF Served
    <3>2. SlotsOf(f)' = SlotsOf(f)
      <4>1. -1 # f
        BY FdsType
      <4>2. \A j \in 0..Capacity - 1 : j \in 0..Cells - 1
        BY <1>3
      <4>3. mem[i[c]] # f
        BY <1>4, <2>7, <4>1
      <4>4. QED
        BY <1>6, <4>1, <4>2, <4>3 DEF SlotsOf
    <3>3. QED
      BY <2>2, <2>3, <2>5, <3>1, <3>2
  <2>8. QED
    BY <2>6, <2>7
<1>11. \A e \in Conns : pc'[e] = "clear" =>
          i'[e] < Filled' /\ mem'[i'[e]] \in {my_socket'[e], -1}
  <2> SUFFICES ASSUME NEW e \in Conns, pc'[e] = "clear"
               PROVE  i'[e] < Filled' /\ mem'[i'[e]] \in {my_socket'[e], -1}
    OBVIOUS
  <2>1. e # c /\ pc[e] = "clear"
    BY <1>9
  <2>2. i'[e] = i[e] /\ i[e] < Filled /\ mem[i[e]] \in {my_socket[e], -1} /\ i[e] \in Nat
    BY <1>1, <1>2, <2>1 DEF TableInv
  <2>3. i[e] \in 0..Cells - 1
    BY <1>3, <2>2
  <2>4. QED
    BY <1>1, <1>6, <1>8, <2>2, <2>3
<1>12. \A j \in Filled'..Capacity - 1 : mem'[j] = 0
  <2>1. \A j \in Filled..Capacity - 1 : j \in 0..Cells - 1 /\ j # i[c] /\ mem[j] = 0
    <3>1. \A j \in Filled..Capacity - 1 : j \in 0..Cells - 1 /\ j # i[c]
      BY <1>3, <1>4
    <3>2. \A j \in Filled..Capacity - 1 : mem[j] = 0
      BY DEF TableInv
    <3>3. QED
      BY <3>1, <3>2
  <2>2. QED
    BY <1>6, <1>8, <2>1
<1>13. /\ mpc' \in {"cell, count", "count, cell", "count"} => n' = count'
       /\ mpc' = "cell" => count' = n' + 1
       /\ Filled' \in 0..Capacity
  BY <1>1, <1>7, <1>8 DEF TableInv
<1>14. QED
  BY <1>10, <1>11, <1>12, <1>13 DEF TableInv

(* A store to the next cell gives one more slot to the client whose child  *)
(* is to come, and nobody else's slot is overwritten.                      *)
LEMMA StoreCellTable ==
    ASSUME TypeOK, TableInv, StoreCell, ~spilled'
    PROVE  TableInv'
<1> USE DEF shared, parent, child, socks, bytes
<1>1. /\ Capacity \in Nat /\ Cells \in Nat /\ Capacity \in 0..Cells - 1
      /\ n \in Int /\ count \in Int /\ Filled \in Nat /\ Filled =< Capacity
      /\ mpc = "cell" => n = Filled /\ count = n + 1
      /\ mpc = "cell, count" => n = Filled
  BY TableType
<1>1a. /\ Capacity \in Nat /\ Cells \in Nat /\ Capacity \in 0..Cells - 1
       /\ n \in Int /\ Filled \in Nat /\ Filled =< Capacity
  BY <1>1
<1>2. n \in 0..Capacity - 1
  BY DEF StoreCell
<1>3. n \in 0..Cells - 1 /\ n # Capacity
  BY <1>1a, <1>2
<1>4. /\ mpc \in {"cell, count", "cell"}
      /\ mem' = [mem EXCEPT ![n] = d]
      /\ mpc' = IF mpc = "cell" THEN "fork" ELSE "count"
      /\ UNCHANGED <<d, n, pc, my_socket, i>>
  BY <1>3 DEF StoreCell
<1>5. \A j \in 0..Cells - 1 : mem'[j] = IF j = n THEN d ELSE mem[j]
  BY <1>3, <1>4 DEF TypeOK
<1>6. count' = count /\ n = Filled
  BY <1>1, <1>3, <1>4, <1>5 DEF count
<1>7. Filled' = n + 1
  <2>1. CASE mpc = "cell"
    BY <1>1, <1>4, <1>6, <2>1 DEF Filled
  <2>2. CASE mpc = "cell, count"
    BY <1>4, <2>2 DEF Filled
  <2>3. QED
    BY <1>4, <2>1, <2>2
<1>8. mem[n] = 0
  <2>1. n \in Filled..Capacity - 1
    BY <1>2, <1>6
  <2>2. QED
    BY <2>1 DEF TableInv
<1>9. ASSUME NEW f \in Fds
      PROVE  /\ IsFiniteSet(Served(f)')
             /\ Cardinality(Served(f)') + Ahead(f)' =< Cardinality(SlotsOf(f)')
  <2>1. Served(f)' = Served(f)
    BY <1>4 DEF Served
  <2>2. Ahead(f) = 0 /\ Ahead(f)' = IF d = f THEN 1 ELSE 0
    BY <1>4 DEF Ahead
  <2>3. /\ IsFiniteSet(Served(f)) /\ Cardinality(Served(f)) =< Cardinality(SlotsOf(f))
        /\ Cardinality(Served(f)) \in Nat
    <3>1. IsFiniteSet(Served(f)) /\ Cardinality(Served(f)) + Ahead(f) =< Cardinality(SlotsOf(f))
      BY DEF TableInv
    <3>2. Cardinality(Served(f)) \in Nat
      BY <3>1, FS_CardinalityType
    <3>3. QED
      BY <2>2, <3>1, <3>2
  <2>4. IsFiniteSet(SlotsOf(f)) /\ Cardinality(SlotsOf(f)) \in Nat
    BY SlotsFinite
  <2>5. f # 0
    BY FdsType
  <2>6. \A j \in 0..Capacity - 1 : j \in 0..Cells - 1
    BY <1>1a
  <2>7. CASE d = f
    <3>1. SlotsOf(f)' = SlotsOf(f) \cup {n}
      BY <1>2, <1>5, <2>6, <2>7 DEF SlotsOf
    <3>2. n \notin SlotsOf(f)
      BY <1>8, <2>5 DEF SlotsOf
    <3>3. Cardinality(SlotsOf(f)') = Cardinality(SlotsOf(f)) + 1
      BY <2>4, <3>1, <3>2, FS_AddElement
    <3>4. QED
      BY <2>1, <2>2, <2>3, <2>4, <2>7, <3>3
  <2>8. CASE d # f
    <3>1. SlotsOf(f)' = SlotsOf(f)
      BY <1>2, <1>5, <1>8, <2>5, <2>6, <2>8 DEF SlotsOf
    <3>2. QED
      BY <2>1, <2>2, <2>3, <2>8, <3>1
  <2>9. QED
    BY <2>7, <2>8
<1>10. ASSUME NEW e \in Conns, pc'[e] = "clear"
       PROVE  i'[e] < Filled' /\ mem'[i'[e]] \in {my_socket'[e], -1}
  <2>1. i'[e] = i[e] /\ i[e] < Filled /\ mem[i[e]] \in {my_socket[e], -1}
    BY <1>4, <1>10 DEF TableInv
  <2>2. i[e] \in Nat
    BY DEF TypeOK
  <2>3. i[e] \in 0..Cells - 1 /\ i[e] # n /\ i[e] < n + 1
    BY <1>1a, <1>6, <2>1, <2>2
  <2>4. QED
    BY <1>4, <1>5, <1>7, <2>1, <2>3
<1>11. \A j \in Filled'..Capacity - 1 : mem'[j] = 0
  <2>1. ASSUME NEW j \in Filled'..Capacity - 1
        PROVE  mem'[j] = 0
    <3>1. j \in Filled..Capacity - 1 /\ j \in 0..Cells - 1 /\ j # n
      BY <1>1a, <1>6, <1>7
    <3>2. mem[j] = 0
      BY <3>1 DEF TableInv
    <3>3. QED
      BY <1>5, <3>1, <3>2
  <2>2. QED
    BY <2>1
<1>12. /\ mpc' \in {"cell, count", "count, cell", "count"} => n' = count'
       /\ mpc' # "cell"
  BY <1>4, <1>6 DEF TableInv
<1>13. Filled' \in 0..Capacity
  BY <1>1a, <1>2, <1>7
<1>14. QED
  BY <1>9, <1>10, <1>11, <1>12, <1>13 DEF TableInv

(* The store to count touches no cell. *)
LEMMA StoreCountTable ==
    ASSUME TypeOK, TableInv, StoreCount
    PROVE  TableInv'
<1> USE DEF shared, parent, child, socks, bytes
<1>1. /\ Capacity \in Nat /\ Cells \in Nat /\ Capacity \in 0..Cells - 1
      /\ n \in Int /\ count \in Int /\ Filled \in Nat /\ Filled =< Capacity
      /\ mpc = "count" => n + 1 = Filled /\ n = count
      /\ mpc = "count, cell" => n = Filled
  BY TableType
<1>1a. /\ Capacity \in Nat /\ Cells \in Nat /\ Capacity \in 0..Cells - 1
       /\ n \in Int /\ Filled \in Nat /\ Filled =< Capacity
  BY <1>1
<1>2. /\ mpc \in {"count, cell", "count"}
      /\ mem' = [mem EXCEPT ![Capacity] = n + 1]
      /\ mpc' = IF mpc = "count" THEN "fork" ELSE "cell"
      /\ UNCHANGED <<d, n, pc, my_socket, i>>
  BY DEF StoreCount
<1>3. \A j \in 0..Cells - 1 : mem'[j] = IF j = Capacity THEN n + 1 ELSE mem[j]
  BY <1>2 DEF TypeOK
<1>4. count' = n + 1
  BY <1>1, <1>3 DEF count
<1>5. Filled' = Filled
  <2>1. CASE mpc = "count"
    BY <1>1, <1>2, <1>4, <2>1 DEF Filled
  <2>2. CASE mpc = "count, cell"
    <3>1. Filled = n
      BY <1>1, <2>2
    <3>2. Filled' = n
      BY <1>2, <2>2 DEF Filled
    <3>3. QED
      BY <3>1, <3>2
  <2>3. QED
    BY <1>2, <2>1, <2>2
<1>6. \A j \in 0..Capacity - 1 : mem'[j] = mem[j]
  <2>1. \A j \in 0..Capacity - 1 : j \in 0..Cells - 1 /\ j # Capacity
    BY <1>1a
  <2>2. QED
    BY <1>3, <2>1
<1>7. ASSUME NEW f \in Fds
      PROVE  /\ IsFiniteSet(Served(f)')
             /\ Cardinality(Served(f)') + Ahead(f)' =< Cardinality(SlotsOf(f)')
  <2>1. Served(f)' = Served(f)
    BY <1>2 DEF Served
  <2>2. SlotsOf(f)' = SlotsOf(f)
    BY <1>6 DEF SlotsOf
  <2>3. Ahead(f)' = Ahead(f)
    BY <1>2 DEF Ahead
  <2>4. QED
    BY <2>1, <2>2, <2>3 DEF TableInv
<1>8. ASSUME NEW e \in Conns, pc'[e] = "clear"
      PROVE  i'[e] < Filled' /\ mem'[i'[e]] \in {my_socket'[e], -1}
  <2>1. i'[e] = i[e] /\ i[e] < Filled /\ mem[i[e]] \in {my_socket[e], -1}
    BY <1>2, <1>8 DEF TableInv
  <2>2. i[e] \in Nat
    BY DEF TypeOK
  <2>3. i[e] \in 0..Capacity - 1
    BY <1>1a, <2>1, <2>2
  <2>4. QED
    BY <1>2, <1>5, <1>6, <2>1, <2>3
<1>9. \A j \in Filled'..Capacity - 1 : mem'[j] = 0
  <2>1. \A j \in Filled..Capacity - 1 : j \in 0..Capacity - 1
    BY <1>1a
  <2>2. \A j \in Filled..Capacity - 1 : mem[j] = 0
    BY DEF TableInv
  <2>3. QED
    BY <1>5, <1>6, <2>1, <2>2
<1>10. /\ mpc' \notin {"cell, count", "count, cell", "count"}
       /\ mpc' = "cell" => count' = n' + 1
  BY <1>1, <1>2, <1>4
<1>11. Filled' \in 0..Capacity
  BY <1>1a, <1>5
<1>12. QED
  BY <1>7, <1>8, <1>9, <1>10, <1>11 DEF TableInv

(* The child that was ahead is there. *)
LEMMA ForkTable ==
    ASSUME TypeOK, DescriptorInv, TableInv, Fork, incoming # None
    PROVE  TableInv'
<1> USE DEF shared, parent, child, socks, bytes
<1>1. incoming \in Conns /\ d \in Fds
  BY DEF DescriptorInv, TypeOK
<1>2. /\ mpc = "fork" /\ mpc' = "close"
      /\ pc' = [pc EXCEPT ![incoming] = "recv"]
      /\ my_socket' = [my_socket EXCEPT ![incoming] = d]
      /\ UNCHANGED <<mem, d, n, i>>
  BY DEF Fork
<1>3. count' = count /\ Filled' = Filled
  BY <1>2 DEF count, Filled
<1>4. /\ \A e \in Conns : pc'[e] = IF e = incoming THEN "recv" ELSE pc[e]
      /\ \A e \in Conns : my_socket'[e] = IF e = incoming THEN d ELSE my_socket[e]
  BY <1>1, <1>2 DEF TypeOK
<1>5. ASSUME NEW f \in Fds
      PROVE  /\ IsFiniteSet(Served(f)')
             /\ Cardinality(Served(f)') + Ahead(f)' =< Cardinality(SlotsOf(f)')
  <2>1. SlotsOf(f)' = SlotsOf(f)
    BY <1>2 DEF SlotsOf
  <2>2. Ahead(f)' = 0 /\ Ahead(f) = IF d = f THEN 1 ELSE 0
    BY <1>2 DEF Ahead
  <2>3. IsFiniteSet(Served(f)) /\ Cardinality(Served(f)) + Ahead(f) =< Cardinality(SlotsOf(f))
    BY DEF TableInv
  <2>4. Cardinality(Served(f)) \in Nat /\ Cardinality(SlotsOf(f)) \in Nat
    BY <2>3, SlotsFinite, FS_CardinalityType
  <2>5. CASE d = f
    <3>1. Served(f)' = Served(f) \cup {incoming}
      BY <1>1, <1>4, <2>5 DEF Served, Alive
    <3>2. /\ IsFiniteSet(Served(f)')
          /\ Cardinality(Served(f)') \in {Cardinality(Served(f)), Cardinality(Served(f)) + 1}
      BY <2>3, <3>1, FS_AddElement
    <3>3. QED
      BY <2>1, <2>2, <2>3, <2>4, <2>5, <3>2
  <2>6. CASE d # f
    <3>1. Served(f)' \subseteq Served(f)
      BY <1>1, <1>4, <2>6 DEF Served
    <3>2. IsFiniteSet(Served(f)') /\ Cardinality(Served(f)') =< Cardinality(Served(f))
      BY <2>3, <3>1, FS_Subset
    <3>3. Cardinality(Served(f)') \in Nat
      BY <3>2, FS_CardinalityType
    <3>4. QED
      BY <2>1, <2>2, <2>3, <2>4, <2>6, <3>2, <3>3
  <2>7. QED
    BY <2>5, <2>6
<1>6. \A e \in Conns : pc'[e] = "clear" =>
          i'[e] < Filled' /\ mem'[i'[e]] \in {my_socket'[e], -1}
  BY <1>2, <1>3, <1>4 DEF TableInv
<1>7. /\ mpc' \notin {"cell, count", "count, cell", "count", "cell"}
      /\ Filled' \in 0..Capacity
      /\ \A j \in Filled'..Capacity - 1 : mem'[j] = 0
  BY <1>2, <1>3 DEF TableInv
<1>8. QED
  BY <1>5, <1>6, <1>7 DEF TableInv

(* Until the table has overflowed, every step keeps the table in order. *)
LEMMA TableStep ==
    ASSUME TypeOK, DescriptorInv, ChildInv, TableInv, Next, ~spilled'
    PROVE  TableInv'
<1> USE DEF shared, parent, child, socks, bytes
<1>1. CASE UNCHANGED <<mem, mpc, n, d, pc, my_socket, i>>
  BY <1>1 DEF TableInv, count, Filled, Served, SlotsOf, Ahead
<1>2. CASE Accept
  <2>1. /\ mpc = "accept" /\ mpc' = "register"
        /\ UNCHANGED <<mem, pc, my_socket, i>>
    BY <1>2, AcceptEffect
  <2>2. QED
    BY <2>1, ParentTable
<1>3. CASE AcceptFails
  BY <1>3, ParentTable DEF AcceptFails
<1>4. CASE Read
  BY <1>4, ParentTable DEF Read
<1>5. CASE ForkFails
  BY <1>5, ParentTable DEF ForkFails
<1>6. CASE CloseD
  BY <1>6, ParentTable DEF CloseD
<1>7. CASE Fork /\ incoming = None
  BY <1>7, ParentTable DEF Fork
<1>8. CASE Fork /\ incoming # None
  BY <1>8, ForkTable
<1>9. CASE StoreCell
  BY <1>9, StoreCellTable
<1>10. CASE StoreCount
  BY <1>10, StoreCountTable
<1>11. ASSUME NEW c \in Conns, Recv(c) \/ RecvEnd(c) \/ Test(c) \/ TestOpen(c)
                               \/ Send(c) \/ Killed(c)
       PROVE  TableInv'
  <2>1. PICK s \in {"recv", "test", "test2", "send", "scan", "killed"} :
           pc' = [pc EXCEPT ![c] = s]
    BY <1>11 DEF Recv, RecvEnd, Test, TestOpen, Send, Killed
  <2>2. /\ UNCHANGED <<mem, mpc, n, d, my_socket>>
        /\ pc[c] \in Alive \cup {"scan", "clear"}
    BY <1>11 DEF Recv, RecvEnd, Test, TestOpen, Send, Killed, Alive
  <2>3. \A e \in Conns : e # c => i'[e] = i[e]
    BY <1>11 DEF Recv, RecvEnd, Test, TestOpen, Send, Killed, TypeOK
  <2>4. QED
    BY <2>1, <2>2, <2>3, ChildTable
<1>12. ASSUME NEW c \in Conns, Scan(c) PROVE TableInv'
  BY <1>12, ScanTable
<1>13. ASSUME NEW c \in Conns, Clear(c) PROVE TableInv'
  BY <1>13, ClearTable
<1>14. ASSUME NEW c \in Conns, Client(c) PROVE TableInv'
  BY <1>1, <1>14 DEF Client, Connect, ClientWrite, ClientLeave
<1>15. QED
  BY <1>2, <1>3, <1>4, <1>5, <1>6, <1>7, <1>8, <1>9, <1>10, <1>11, <1>12, <1>13, <1>14
  DEF Next, ParentNext, Child

(* A slot that was filled past the end is never forgotten. *)
LEMMA SpillStays ==
    ASSUME Next, ~spilled'
    PROVE  ~spilled
BY AcceptEffect
DEF Next, ParentNext, Client, Child, AcceptFails, Read, StoreCell, StoreCount,
    Fork, ForkFails, CloseD, Connect, ClientWrite, ClientLeave, Recv, RecvEnd, Test,
    TestOpen, Send, Killed, Scan, Clear, shared, parent, child, socks, bytes

(* It starts in order: nobody is served and no slot is filled. *)
LEMMA InitInv == Init => IndInv
<1> SUFFICES ASSUME Init PROVE IndInv
  OBVIOUS
<1>1. TypeOK
  <2>1. /\ mem \in [0..Cells - 1 -> Int] /\ n \in Int /\ i \in [Conns -> Nat]
        /\ outN \in [Conns -> Nat] /\ inN \in [Conns -> Nat] /\ received \in [Conns -> Nat]
    BY DEF Init
  <2>2. heard \in [Conns -> Seq(Conns \X Nat)]
    BY DEF Init
  <2>3. fds \in [Conns \cup {Parent} -> [Fds -> Conns \cup {None}]]
    BY DEF Init
  <2>4. QED
    BY <2>1, <2>2, <2>3 DEF Init, TypeOK
<1>2. DescriptorInv
  BY FdsType, ParentAssumption DEF Init, DescriptorInv
<1>3. ChildInv /\ NobodyHears
  BY DEF Init, ChildInv, NobodyHears
<1>4. TableInv
  <2>1. Capacity \in Nat /\ Cells \in Nat /\ Capacity < Cells
    BY SizesAssumption
  <2>2. \A j \in 0..Capacity : j \in 0..Cells - 1
    BY <2>1
  <2>3. \A j \in 0..Capacity : mem[j] = 0
    BY <2>2 DEF Init
  <2>4. count = 0 /\ Filled = 0
    BY <2>1, <2>3 DEF Init, count, Filled
  <2>5. ASSUME NEW f \in Fds
        PROVE  /\ IsFiniteSet(Served(f))
               /\ Cardinality(Served(f)) + Ahead(f) =< Cardinality(SlotsOf(f))
    <3>1. Served(f) = {}
      BY DEF Init, Served, Alive
    <3>2. IsFiniteSet(Served(f)) /\ Cardinality(Served(f)) = 0
      BY <3>1, FS_EmptySet
    <3>3. Ahead(f) = 0
      BY DEF Init, Ahead
    <3>4. Cardinality(SlotsOf(f)) \in Nat
      BY SlotsFinite
    <3>5. QED
      BY <3>2, <3>3, <3>4
  <2>6. \A j \in Filled..Capacity - 1 : mem[j] = 0
    BY <2>1, <2>3, <2>4
  <2>7. Filled \in 0..Capacity
    BY <2>1, <2>4
  <2>8. QED
    BY <2>5, <2>6, <2>7 DEF TableInv, Init
<1>5. QED
  BY <1>1, <1>2, <1>3, <1>4 DEF IndInv

(* What the processes and the two unprotected fields of the table are in,  *)
(* after every sequence of their steps.                                    *)
THEOREM Invariance == Spec => []IndInv
<1>1. IndInv /\ [Next]_vars => IndInv'
  <2> SUFFICES ASSUME IndInv, [Next]_vars PROVE IndInv'
    OBVIOUS
  <2>1. CASE Next
    <3>1. TypeOK' /\ DescriptorInv' /\ ChildInv' /\ NobodyHears'
      BY <2>1, TypeStep, DescriptorStep, ChildStep, HearStep DEF IndInv
    <3>2. ~spilled' => TableInv'
      BY <2>1, SpillStays, TableStep DEF IndInv
    <3>3. QED
      BY <3>1, <3>2 DEF IndInv
  <2>2. CASE UNCHANGED vars
    BY ZenonT(30), <2>2
    DEF IndInv, TypeOK, DescriptorInv, ChildInv, NobodyHears, TableInv, count, Filled,
        Served, SlotsOf, Ahead, vars, shared, parent, child, socks, bytes
  <2>3. QED
    BY <2>1, <2>2
<1>2. QED
  BY <1>1, InitInv, PTL DEF Spec

(* Every variable keeps its type. *)
THEOREM TypeCorrect == Spec => []TypeOK
<1>1. IndInv => TypeOK
  BY DEF IndInv
<1>2. QED
  BY <1>1, Invariance, PTL

(* Whatever the clients write and in whatever order the processes run, what *)
(* a client hears are words of its own.                                    *)
THEOREM NobodyIsHeard == Spec => []NobodyHears
<1>1. IndInv => NobodyHears
  BY DEF IndInv
<1>2. QED
  BY <1>1, Invariance, PTL

(* However the children's scans and stores interleave, a client that is    *)
(* being served has a slot, until the table has overflowed.                *)
THEOREM SlotsAreEnough == Spec => []SlotsSuffice
<1>1. ASSUME IndInv PROVE SlotsSuffice
  <2> SUFFICES ASSUME ~spilled, NEW f \in Fds
               PROVE  Cardinality({c \in Conns : pc[c] \in Alive /\ my_socket[c] = f})
                        =< Cardinality({j \in 0..Capacity - 1 : mem[j] = f})
    BY DEF SlotsSuffice
  <2> DEFINE A == {c \in Conns : pc[c] \in Alive /\ my_socket[c] = f}
  <2>1. IsFiniteSet(Served(f)) /\ Cardinality(Served(f)) + Ahead(f) =< Cardinality(SlotsOf(f))
    BY <1>1 DEF IndInv, TableInv
  <2>2. A \subseteq Served(f)
    BY DEF Served
  <2>3. Cardinality(A) =< Cardinality(Served(f)) /\ Cardinality(A) \in Nat
    BY <2>1, <2>2, FS_Subset, FS_CardinalityType
  <2>4. Cardinality(Served(f)) \in Nat /\ Cardinality(SlotsOf(f)) \in Nat
    BY <2>1, SlotsFinite, FS_CardinalityType
  <2>5. Ahead(f) \in {0, 1}
    BY DEF Ahead
  <2> HIDE DEF A
  <2>6. Cardinality(A) =< Cardinality(SlotsOf(f))
    BY <2>1, <2>3, <2>4, <2>5
  <2>7. QED
    BY <2>6 DEF A, SlotsOf
<1>2. QED
  BY <1>1, Invariance, PTL
=============================================================================
