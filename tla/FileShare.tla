------------------------------ MODULE FileShare ------------------------------
(***************************************************************************)
(* file-sharing-server-client.cpp: a registry, and peers that are each a   *)
(* parent with a prompt and a forked child that listens for offers.        *)
(*                                                                         *)
(* What decides whether an answer is heard is who is bound to which port   *)
(* when, so the ports are modelled and the texts are not.  A datagram is   *)
(* lost by never being read; the network may also delay it at will.        *)
(***************************************************************************)
EXTENDS Integers

CONSTANTS
    Peers,              \* runs of the program in client mode
    Host,               \* Host[c]: the machine peer c runs on
    ServerHost,         \* the machine of the registry
    Names,              \* what "uname_" and rand() % 10000 can yield
    Commands,           \* Commands[c]: lines typed into peer c (bounds the model)
    Counts,             \* what the count of l.226 may hold (bounds the model)
    None                \* no entry in the map clients, or no name yet

ASSUME CommandsAssumption == Commands \in [Peers -> Nat] /\ Counts \subseteq Int

VARIABLES
    clients, registryUp,    \* the map of the server, and whether it is bound
    my_name,                \* the name each peer has drawn
    parent, child,          \* where the two processes of a peer are
    count,                  \* clients the parent has still to list
    bound,                  \* <<host, port, process, peer>> of bound sockets
    net,                    \* datagrams under way
    typed,                  \* commands a peer has typed
    answered                \* <<peer, kind>>: answers that were read (history)

shareVars == <<clients, registryUp, my_name, parent, child, count, bound, net, typed, answered>>

Hosts == {ServerHost} \cup {Host[c] : c \in Peers}

ShareTypeOK ==
    /\ clients \in [Names -> Hosts \cup {None}]
    /\ registryUp \in BOOLEAN
    /\ my_name \in [Peers -> Names \cup {None}]
    /\ parent \in [Peers -> {"off", "prompt", "list", "print", "send"}] /\ count \in [Peers -> Int]
    /\ child \in [Peers -> {"none", "forked", "listening", "accepting"}]
    /\ \A b \in bound : b[1] \in Hosts /\ b[2] \in {7000, 8000} /\ b[4] \in Peers
    /\ \A d \in net : d.host \in Hosts /\ d.from \in Hosts
    /\ typed \in [Peers -> Nat] /\ \A c \in Peers : typed[c] =< Commands[c]
    /\ answered \subseteq Peers \X {"LISTING", "ADDRESS"}

ShareInit ==
    /\ clients = [n \in Names |-> None]
    /\ registryUp = FALSE
    /\ my_name = [c \in Peers |-> None]
    /\ parent = [c \in Peers |-> "off"]
    /\ child = [c \in Peers |-> "none"] /\ count = [c \in Peers |-> 0]
    /\ bound = {}
    /\ net = {}
    /\ typed = [c \in Peers |-> 0]
    /\ answered = {}

\* broadcast_message: to a port of every machine, from a socket closed at once.
Broadcast(c, port, kind, name) ==
    {[host |-> h, port |-> port, kind |-> kind, name |-> name, from |-> Host[c], by |-> c] :
        h \in Hosts}

\* A reply to the port on which the asking parent waits (mutant).
ReplyToWaiter(d, kind, c) ==
    [host |-> d.from, port |-> IF kind = "ADDRESS" THEN 8000 ELSE 7000,
     kind |-> kind, name |-> d.name, from |-> d.host, by |-> c]

\* A reply goes to where the request came from: the socket of Broadcast, whose
\* port nobody has any more.
Reply(d, kind, c) ==
    [host |-> d.from, port |-> 0, kind |-> kind, name |-> d.name, from |-> d.host, by |-> c]

\* bind(), whose result nobody looks at: it fails when the port is taken.
BindTo(port, process, c) ==
    IF \E b \in bound : b[1] = Host[c] /\ b[2] = port
    THEN bound
    ELSE bound \cup {<<Host[c], port, process, c>>}

\* What recvfrom can return to this process.
Heard(port, process, c) ==
    {d \in net : d.host = Host[c] /\ d.port = port /\ <<Host[c], port, process, c>> \in bound}

(* run_server, l.44-109 *)

StartRegistry ==
    /\ ~registryUp
    /\ registryUp' = TRUE
    /\ UNCHANGED <<clients, my_name, parent, child, count, bound, net, typed, answered>>

RegisterPeer ==
    /\ registryUp
    /\ \E d \in net :
        /\ d.host = ServerHost /\ d.port = 5000
        /\ clients' = [clients EXCEPT ![d.name] = d.from]
        /\ net' = net \ {d}
    /\ UNCHANGED <<registryUp, my_name, parent, child, count, bound, typed, answered>>

AnswerList ==
    /\ registryUp
    /\ \E d \in net :
        /\ d.host = ServerHost /\ d.port = 6000
        /\ net' = (net \ {d}) \cup {Reply(d, "LISTING", d.by)}
    /\ UNCHANGED <<clients, registryUp, my_name, parent, child, count, bound, typed, answered>>

(* run_client, l.111-306: the start, the child, the parent *)

StartPeer(c) ==
    /\ parent[c] = "off"
    /\ \E n \in Names :
        /\ my_name' = [my_name EXCEPT ![c] = n]
        /\ net' = net \cup Broadcast(c, 5000, "REG", n)
    /\ parent' = [parent EXCEPT ![c] = "prompt"]
    /\ child' = [child EXCEPT ![c] = "forked"]
    /\ UNCHANGED <<clients, registryUp, count, bound, typed, answered>>

\* The parent sleeps a second before its prompt and takes that to be enough.
ChildBinds(c) ==
    /\ child[c] = "forked"
    /\ child' = [child EXCEPT ![c] = "listening"]
    /\ bound' = BindTo(7000, "child", c)
    /\ UNCHANGED <<clients, registryUp, my_name, parent, count, net, typed, answered>>

ChildReads(c) ==
    /\ child[c] = "listening"
    /\ \E d \in Heard(7000, "child", c) :
        IF d.kind = "SEND" /\ d.name = my_name[c]
        THEN /\ net' = (net \ {d}) \cup {Reply(d, "ADDRESS", c)}
             /\ child' = [child EXCEPT ![c] = "accepting"]
        ELSE /\ net' = net \ {d}
             /\ UNCHANGED child
    /\ UNCHANGED <<clients, registryUp, my_name, parent, count, bound, typed, answered>>

AskList(c) ==
    /\ parent[c] = "prompt" /\ typed[c] < Commands[c]
    /\ typed' = [typed EXCEPT ![c] = @ + 1]
    /\ net' = net \cup Broadcast(c, 6000, "LIST", my_name[c])
    /\ bound' = BindTo(7000, "parent", c)
    /\ parent' = [parent EXCEPT ![c] = "list"]
    /\ UNCHANGED <<clients, registryUp, my_name, child, count, answered>>

\* A datagram or two seconds later, then close().  Nothing gives count a value if
\* nothing was heard; what was heard gives it that of its second word, or 0.
ListReturns(c) ==
    /\ parent[c] = "list"
    /\ \/ /\ UNCHANGED <<net, answered>>
          /\ \E n \in Counts : count' = [count EXCEPT ![c] = n]
       \/ \E d \in Heard(7000, "parent", c), n \in Counts \cap Nat :
            /\ count' = [count EXCEPT ![c] = n]
            /\ net' = net \ {d}
            /\ answered' = IF d.kind = "LISTING" THEN answered \cup {<<c, d.kind>>} ELSE answered
    /\ bound' = bound \ {<<Host[c], 7000, "parent", c>>}
    /\ parent' = [parent EXCEPT ![c] = "print"]
    /\ UNCHANGED <<clients, registryUp, my_name, child, typed>>

\* A client of the list, of which only the number is kept, or the end of it.
PrintEntry(c) ==
    /\ parent[c] = "print"
    /\ \/ /\ count[c] > 0
          /\ count' = [count EXCEPT ![c] = @ - 1]
          /\ UNCHANGED parent
       \/ /\ count[c] =< 0
          /\ count' = [count EXCEPT ![c] = 0]
          /\ parent' = [parent EXCEPT ![c] = "prompt"]
    /\ UNCHANGED <<clients, registryUp, my_name, child, bound, net, typed, answered>>

AskSend(c) ==
    /\ parent[c] = "prompt" /\ typed[c] < Commands[c]
    /\ typed' = [typed EXCEPT ![c] = @ + 1]
    /\ \E n \in Names : net' = net \cup Broadcast(c, 7000, "SEND", n)
    /\ bound' = BindTo(8000, "parent", c)
    /\ parent' = [parent EXCEPT ![c] = "send"]
    /\ UNCHANGED <<clients, registryUp, my_name, child, count, answered>>

\* Three seconds, or the address of a child: connecting to it and the whole
\* transfer are one step, after which that child reads its port again.
SendReturns(c) ==
    /\ parent[c] = "send"
    /\ LET addresses == Heard(8000, "parent", c)
           callee == {d.by : d \in addresses}
       IN /\ net' = net \ addresses
          /\ answered' = answered \cup {<<c, d.kind>> : d \in addresses}
          /\ child' = [p \in Peers |-> IF p \in callee THEN "listening" ELSE child[p]]
    /\ bound' = bound \ {<<Host[c], 8000, "parent", c>>}
    /\ parent' = [parent EXCEPT ![c] = "prompt"]
    /\ UNCHANGED <<clients, registryUp, my_name, count, typed>>

\* The receive timeouts of l.222 and l.257 forgotten (mutant).
ParentReturnsOnAnswer(c) ==
    \/ /\ Heard(7000, "parent", c) \cup Heard(8000, "parent", c) # {}
       /\ ListReturns(c) \/ SendReturns(c)
    \/ PrintEntry(c)

ParentReturns(c) == ListReturns(c) \/ PrintEntry(c) \/ SendReturns(c)

ShareNext ==
    \/ StartRegistry \/ RegisterPeer \/ AnswerList
    \/ \E c \in Peers :
        \/ StartPeer(c) \/ ChildBinds(c) \/ ChildReads(c)
        \/ AskList(c) \/ AskSend(c) \/ ParentReturns(c)

ShareSpec ==
    /\ ShareInit /\ [][ShareNext]_shareVars
    /\ \A c \in Peers : WF_shareVars(ParentReturns(c))

(***************************************************************************)
(* Properties                                                              *)
(***************************************************************************)

\* No LIST and no SEND is ever answered, whoever runs where and however late
\* each process is: replies go to the socket broadcast_message has closed (l.41),
\* while the parent waits on 7000 or 8000 (l.219, l.256).
NobodyAnswered == answered = {}

\* The inductive invariant: only broadcasts go to a port somebody can be bound to,
\* and none to 8000, so that whatever a parent reads on its ports (l.219, l.256)
\* is no answer.  A peer is started once, before it has a child (l.111-128).
ShareInv ==
    /\ NobodyAnswered
    /\ DOMAIN parent = Peers /\ DOMAIN child = Peers
    /\ \A c \in Peers : parent[c] = "off" => child[c] = "none"
    /\ \A d \in net : d.port # 8000 /\ (d.port = 7000 => d.kind = "SEND")

\* Hence the child that has matched a SEND waits in accept() (l.169) for good,
\* and a peer handles at most one SEND in its life.
AcceptsForever ==
    [][\A c \in Peers : child[c] = "accepting" => child'[c] = "accepting"]_shareVars

\* The prompt comes back after every command, answered or not, and whatever the
\* number of clients is taken to be (l.219, l.226-234, l.256).
PromptReturns ==
    \A c \in Peers : parent[c] \in {"list", "print", "send"} ~> parent[c] = "prompt"
=============================================================================
