------------------------------- MODULE UdpChat -------------------------------
(***************************************************************************)
(* multiple-client-udp-server.cpp: one loop that takes a datagram, adds    *)
(* its sender to a vector if it is new and forwards the text to everybody  *)
(* else.  Whoever has spoken is a member for good; a datagram that does    *)
(* not arrive was never said, so word n of c is the n-th that arrived.     *)
(***************************************************************************)
EXTENDS Naturals, Sequences

CONSTANTS
    Chatters,           \* addresses, that is pairs of ip and port
    MaxArrivals         \* datagrams that arrive from each (bounds the model)

ASSUME ArrivalsAssumption == MaxArrivals \in Nat

VARIABLES
    clients_udp,        \* the vector clients
    upc, current, i_udp,    \* where the loop is, current_client, the iterator
    arrived,            \* datagrams received from each
    forwarded           \* what sendto was given for each, in order

udpChatVars == <<clients_udp, upc, current, i_udp, arrived, forwarded>>

Members == {clients_udp[k] : k \in DOMAIN clients_udp}

UdpChatTypeOK ==
    /\ clients_udp \in Seq(Chatters)
    /\ upc \in {"recv", "message", "forward"} /\ (upc # "recv" => current \in Chatters)
    /\ i_udp \in 0..Len(clients_udp) + 1
    /\ arrived \in [Chatters -> 0..MaxArrivals]
    /\ \A c \in Chatters : forwarded[c] \in Seq(Chatters \X (1..MaxArrivals))

UdpChatInit ==
    /\ clients_udp = <<>>
    /\ upc = "recv" /\ current = 0 /\ i_udp = 0
    /\ arrived = [c \in Chatters |-> 0]
    /\ forwarded = [c \in Chatters |-> <<>>]

\* Every datagram adds its sender, known or not (mutant).
AddedAlways(c) == Append(clients_udp, c)

\* l.63-68: find, and push_back of a sender that is new.
Added(c) == IF c \in Members THEN clients_udp ELSE Append(clients_udp, c)

ReceiveFrom(c) ==
    /\ upc = "recv" /\ arrived[c] < MaxArrivals
    /\ arrived' = [arrived EXCEPT ![c] = @ + 1]
    /\ clients_udp' = Added(c)
    /\ current' = c /\ upc' = "message"
    /\ UNCHANGED <<i_udp, forwarded>>

MakeMessage ==
    /\ upc = "message"
    /\ upc' = "forward" /\ i_udp' = 1
    /\ UNCHANGED <<clients_udp, current, arrived, forwarded>>

\* One iteration of l.76-81; a sendto that fails is not noticed.
ForwardNext ==
    /\ upc = "forward" /\ i_udp =< Len(clients_udp)
    /\ LET d == clients_udp[i_udp]
       IN  forwarded' = IF d = current THEN forwarded
                        ELSE [forwarded EXCEPT ![d] = Append(@, <<current, arrived[current]>>)]
    /\ i_udp' = i_udp + 1
    /\ UNCHANGED <<clients_udp, upc, current, arrived>>

ForwardEnds ==
    /\ upc = "forward" /\ i_udp > Len(clients_udp)
    /\ upc' = "recv"
    /\ UNCHANGED <<clients_udp, current, i_udp, arrived, forwarded>>

UdpChatNext ==
    \/ \E c \in Chatters : ReceiveFrom(c)
    \/ MakeMessage \/ ForwardNext \/ ForwardEnds

UdpChatSpec == UdpChatInit /\ [][UdpChatNext]_udpChatVars

(***************************************************************************)
(* The refinement: a word is said when the loop over the members begins,   *)
(* and those the loop has not reached yet are taken to have heard it.      *)
(***************************************************************************)

StillToHear(d) ==
    /\ upc = "forward" /\ d # current
    /\ \E k \in i_udp..Len(clients_udp) : clients_udp[k] = d

UdpPlace == [c \in Chatters |-> IF c \in Members THEN "inside" ELSE "outside"]
UdpSaid == [c \in Chatters |->
              IF upc = "message" /\ c = current THEN arrived[c] - 1 ELSE arrived[c]]
UdpStream == [d \in Chatters |->
                IF StillToHear(d) THEN Append(forwarded[d], <<current, arrived[current]>>)
                ELSE forwarded[d]]

UdpRoom == INSTANCE ChatRoom WITH
    Conns <- Chatters, MaxWords <- 1,
    place <- UdpPlace, said <- UdpSaid, stream <- UdpStream, open <- TRUE

\* The loop is the atomic chat room: every text that arrives is sent once, and
\* in one order, to exactly those who had spoken before and to nobody else.
UdpRoomSpec == UdpRoom!Spec

\* The inductive invariant: nobody is in the vector twice (l.63-68), and whoever
\* is being forwarded is in it.
UdpChatInv ==
    /\ clients_udp \in Seq(Chatters)
    /\ \A j, k \in DOMAIN clients_udp : clients_udp[j] = clients_udp[k] => j = k
    /\ upc \in {"recv", "message", "forward"}
    /\ upc # "recv" => current \in Members /\ arrived[current] > 0
    /\ i_udp \in Nat /\ (upc = "forward" => i_udp > 0)
    /\ arrived \in [Chatters -> Nat]
    /\ forwarded \in [Chatters -> Seq(Chatters \X Nat)]
=============================================================================
