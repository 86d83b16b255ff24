------------------------------ MODULE LabProofs ------------------------------
(***************************************************************************)
(* Proofs about the small programs of the lab: the file sharing prototype, *)
(* the Telnet logger, the UDP echo pair, the HTTP directory server, the    *)
(* UDP chat server, netcat against the command and welcome servers, and    *)
(* the directory browser.                                                  *)
(* Each section has the program's inductive invariant, which its own       *)
(* module defines, and what follows from it; the last puts them together.  *)
(***************************************************************************)
EXTENDS MCLab, TLAPS, FiniteSetTheorems, SequenceTheorems, WellFoundedInduction

(***************************************************************************)
(* File sharing                                                            *)
(* A reply goes to the port its request was sent from, which nobody has any *)
(* more, so whatever a parent hears is a broadcast.                        *)
(***************************************************************************)

\* What a parent can read on its two ports is never an answer.
LEMMA DeafParents ==
    ASSUME ShareInv, NEW c \in Peers
    PROVE  /\ Heard(8000, "parent", c) = {}
           /\ \A d \in Heard(7000, "parent", c) : d.kind = "SEND"
BY DEF ShareInv, Heard

\* Nobody has asked or answered, and nobody has a child.
LEMMA ShareStart == ShareInit => ShareInv
BY DEF ShareInit, ShareInv, NobodyAnswered

\* Only broadcasts go to a port somebody can be bound to, and none to the one
\* on which a parent waits for the address of a child.
LEMMA ShareStep == ShareInv /\ [ShareNext]_shareVars => ShareInv'
<1> SUFFICES ASSUME ShareInv, [ShareNext]_shareVars PROVE ShareInv'
  OBVIOUS
<1> USE DEF ShareInv, NobodyAnswered
<1>1. CASE StartRegistry \/ RegisterPeer
  BY <1>1 DEF StartRegistry, RegisterPeer
<1>2. CASE AnswerList
  BY <1>2 DEF AnswerList, Reply
<1>3. ASSUME NEW c \in Peers, StartPeer(c) PROVE ShareInv'
  BY <1>3 DEF StartPeer, Broadcast
<1>4. ASSUME NEW c \in Peers, ChildBinds(c) PROVE ShareInv'
  BY <1>4 DEF ChildBinds
<1>5. ASSUME NEW c \in Peers, ChildReads(c) PROVE ShareInv'
  BY <1>5 DEF ChildReads, Reply
<1>6. ASSUME NEW c \in Peers, AskList(c) PROVE ShareInv'
  BY <1>6 DEF AskList, Broadcast
<1>7. ASSUME NEW c \in Peers, AskSend(c) PROVE ShareInv'
  BY <1>7 DEF AskSend, Broadcast
<1>8. ASSUME NEW c \in Peers, ListReturns(c) PROVE ShareInv'
  BY <1>8, DeafParents DEF ListReturns
<1>9. ASSUME NEW c \in Peers, SendReturns(c) PROVE ShareInv'
  BY <1>9, DeafParents DEF SendReturns, ShareInv
<1>10. ASSUME NEW c \in Peers, PrintEntry(c) PROVE ShareInv'
  BY <1>10 DEF PrintEntry
<1>11. CASE UNCHANGED shareVars
  BY <1>11 DEF shareVars
<1>12. QED
  BY <1>1, <1>2, <1>3, <1>4, <1>5, <1>6, <1>7, <1>8, <1>9, <1>10, <1>11
  DEF ShareNext, ParentReturns

\* Nobody is bound, and nothing is under way.
LEMMA ShareTypeStart == ShareInit => ShareTypeOK
<1> SUFFICES ASSUME ShareInit PROVE ShareTypeOK
  OBVIOUS
<1>1. typed \in [Peers -> Nat] /\ \A c \in Peers : typed[c] =< Commands[c]
  <2>1. \A c \in Peers : 0 =< Commands[c]
    BY CommandsAssumption
  <2>2. QED
    BY <2>1 DEF ShareInit
<1>2. /\ clients \in [Names -> Hosts \cup {None}] /\ my_name \in [Peers -> Names \cup {None}]
      /\ bound = {} /\ net = {} /\ answered = {} /\ registryUp \in BOOLEAN
  BY DEF ShareInit
<1>3. /\ parent \in [Peers -> {"off", "prompt", "list", "print", "send"}] /\ count \in [Peers -> Int]
      /\ child \in [Peers -> {"none", "forked", "listening", "accepting"}]
  BY DEF ShareInit
<1>4. QED
  BY <1>1, <1>2, <1>3 DEF ShareTypeOK

\* A machine is one of those of the peers and the registry.
LEMMA PeerHosts == \A c \in Peers : Host[c] \in Hosts
BY DEF Hosts

\* Every name, address and port stays one of those there are, and nobody types more
\* than there is to type.
LEMMA ShareTypeStep == ShareTypeOK /\ ShareInv /\ [ShareNext]_shareVars => ShareTypeOK'
<1> SUFFICES ASSUME ShareTypeOK, ShareInv, [ShareNext]_shareVars PROVE ShareTypeOK'
  OBVIOUS
<1>0. /\ clients \in [Names -> Hosts \cup {None}]
      /\ \A d \in net : d.host \in Hosts /\ d.from \in Hosts
      /\ typed \in [Peers -> Nat] /\ \A c \in Peers : typed[c] =< Commands[c]
  BY DEF ShareTypeOK
<1>1. CASE StartRegistry
  BY <1>1 DEF StartRegistry, ShareTypeOK
<1>2. CASE RegisterPeer
  <2>1. PICK d \in net :
          /\ d.host = ServerHost /\ d.port = 5000
          /\ clients' = [clients EXCEPT ![d.name] = d.from]
          /\ net' = net \ {d}
    BY <1>2, ZenonT(60) DEF RegisterPeer
  <2>2. UNCHANGED <<registryUp, my_name, parent, child, count, bound, typed, answered>>
    BY <1>2 DEF RegisterPeer
  <2>3. PICK h \in Hosts : h = d.from
    BY <1>0
  <2>4. PICK n : n = d.name
    OBVIOUS
  <2>5. clients' \in [Names -> Hosts \cup {None}]
    <3>1. clients' = [clients EXCEPT ![n] = h]
      BY <2>1, <2>3, <2>4
    <3>2. QED
      BY <1>0, <3>1
  <2>6. \A e \in net' : e.host \in Hosts /\ e.from \in Hosts
    BY <1>0, <2>1
  <2>7. QED
    BY <2>2, <2>5, <2>6 DEF ShareTypeOK
<1>3. CASE AnswerList
  BY <1>3 DEF AnswerList, Reply, ShareTypeOK
<1>4. ASSUME NEW c \in Peers, StartPeer(c) PROVE ShareTypeOK'
  BY <1>4, PeerHosts DEF StartPeer, Broadcast, ShareTypeOK
<1>5. ASSUME NEW c \in Peers, NEW port \in {7000, 8000}, NEW process, bound' = BindTo(port, process, c)
      PROVE  \A b \in bound' : b[1] \in Hosts /\ b[2] \in {7000, 8000} /\ b[4] \in Peers
  BY <1>5, PeerHosts DEF BindTo, ShareTypeOK
<1>6. ASSUME NEW c \in Peers, ChildBinds(c) PROVE ShareTypeOK'
  <2>1. \A b \in bound' : b[1] \in Hosts /\ b[2] \in {7000, 8000} /\ b[4] \in Peers
    BY <1>5, <1>6 DEF ChildBinds
  <2>2. QED
    BY <1>6, <2>1 DEF ChildBinds, ShareTypeOK
<1>7. ASSUME NEW c \in Peers, ChildReads(c) PROVE ShareTypeOK'
  BY <1>7 DEF ChildReads, Heard, Reply, ShareTypeOK
<1>8. ASSUME NEW c \in Peers, AskList(c) \/ AskSend(c) PROVE ShareTypeOK'
  <2>1. \A b \in bound' : b[1] \in Hosts /\ b[2] \in {7000, 8000} /\ b[4] \in Peers
    BY <1>5, <1>8 DEF AskList, AskSend, ShareTypeOK
  <2>2. \A d \in net' : d.host \in Hosts /\ d.from \in Hosts
    BY <1>8, PeerHosts DEF AskList, AskSend, Broadcast, ShareTypeOK
  <2>3. /\ typed[c] < Commands[c] /\ typed' = [typed EXCEPT ![c] = @ + 1]
        /\ parent' \in [Peers -> {"off", "prompt", "list", "print", "send"}]
        /\ UNCHANGED <<clients, registryUp, my_name, child, count, answered>>
    BY <1>8 DEF AskList, AskSend, ShareTypeOK
  <2>4. typed' \in [Peers -> Nat] /\ \A p \in Peers : typed'[p] =< Commands[p]
    <3>1. PICK n \in Nat, m \in Nat : n = typed[c] /\ m = Commands[c]
      BY <1>0, CommandsAssumption
    <3>2. typed' = [typed EXCEPT ![c] = n + 1] /\ n + 1 =< m
      BY <2>3, <3>1
    <3>3. typed' \in [Peers -> Nat]
      BY <1>0, <3>2
    <3>4. ASSUME NEW p \in Peers PROVE typed'[p] =< Commands[p]
      BY <1>0, <3>1, <3>2
    <3>5. QED
      BY <3>3, <3>4
  <2>5. QED
    BY <2>1, <2>2, <2>3, <2>4 DEF ShareTypeOK
<1>9. ASSUME NEW c \in Peers, ListReturns(c) \/ SendReturns(c) PROVE ShareTypeOK'
  <2>1. answered' \subseteq Peers \X {"LISTING", "ADDRESS"}
    BY <1>9, ShareStep DEF ShareNext, ParentReturns, ShareInv, NobodyAnswered
  <2>2. bound' \subseteq bound /\ net' \subseteq net
    BY <1>9 DEF ListReturns, SendReturns, Heard
  <2>3. child' \in [Peers -> {"none", "forked", "listening", "accepting"}]
    BY <1>9 DEF ListReturns, SendReturns, ShareTypeOK
  <2>4. /\ parent' \in [Peers -> {"off", "prompt", "list", "print", "send"}]
        /\ UNCHANGED <<clients, registryUp, my_name, typed>>
    BY <1>9 DEF ListReturns, SendReturns, ShareTypeOK
  <2>5. count' \in [Peers -> Int]
    <3>1. count \in [Peers -> Int] /\ \A n \in Counts : n \in Int
      BY CommandsAssumption DEF ShareTypeOK
    <3>2. count' = count \/ \E n \in Counts : count' = [count EXCEPT ![c] = n]
      <4>1. CASE ListReturns(c)
        BY <4>1 DEF ListReturns
      <4>2. CASE SendReturns(c)
        BY <4>2 DEF SendReturns
      <4>3. QED
        BY <1>9, <4>1, <4>2
    <3>3. QED
      BY <3>1, <3>2
  <2>6. QED
    BY <2>1, <2>2, <2>3, <2>4, <2>5 DEF ShareTypeOK
<1>10. ASSUME NEW c \in Peers, PrintEntry(c) PROVE ShareTypeOK'
  <2>1. count \in [Peers -> Int] /\ parent \in [Peers -> {"off", "prompt", "list", "print", "send"}]
    BY DEF ShareTypeOK
  <2>2. /\ count' \in [Peers -> Int]
        /\ parent' \in [Peers -> {"off", "prompt", "list", "print", "send"}]
    BY <1>10, <2>1 DEF PrintEntry
  <2>3. QED
    BY <1>10, <2>2 DEF PrintEntry, ShareTypeOK
<1>11. CASE UNCHANGED shareVars
  BY <1>11 DEF shareVars, ShareTypeOK
<1>12. QED
  BY <1>1, <1>2, <1>3, <1>4, <1>6, <1>7, <1>8, <1>9, <1>10, <1>11 DEF ShareNext, ParentReturns

\* Hence on all behaviours, whichever machines share an address.
LEMMA ShareInvariance == ShareSpec => []ShareInv
BY ShareStart, ShareStep, PTL DEF ShareSpec

\* No LIST and no SEND is ever answered, whichever machines share an address,
\* whatever is broadcast and however late each process is: the replies go to
\* a socket that broadcast_message has closed (l.41).
THEOREM NeverAnswered == ShareSpec => []NobodyAnswered
<1>1. ShareInv => NobodyAnswered
  BY DEF ShareInv
<1>2. QED
  BY <1>1, ShareInvariance, PTL

\* A child that has matched a SEND waits in accept() for ever (l.169): nobody
\* hears its address, so nobody connects.
THEOREM AcceptNeverReturns == ShareSpec => AcceptsForever
<1>1. ShareInv /\ [ShareNext]_shareVars
        => [\A c \in Peers : child[c] = "accepting" => child'[c] = "accepting"]_shareVars
  <2> SUFFICES ASSUME ShareInv, ShareNext, NEW p \in Peers, child[p] = "accepting"
               PROVE  child'[p] = "accepting"
    OBVIOUS
  <2>1. CASE UNCHANGED child
    BY <2>1
  <2>2. ASSUME NEW c \in Peers, StartPeer(c) PROVE child'[p] = "accepting"
    BY <2>2 DEF StartPeer, ShareInv
  <2>4. ASSUME NEW c \in Peers, ChildBinds(c) \/ ChildReads(c) PROVE child'[p] = "accepting"
    BY <2>4 DEF ChildBinds, ChildReads, ShareInv
  <2>9. ASSUME NEW c \in Peers, SendReturns(c) PROVE child'[p] = "accepting"
    BY <2>9, DeafParents DEF SendReturns, ShareInv
  <2>10. QED
    BY <2>1, <2>2, <2>4, <2>9
    DEF ShareNext, ParentReturns, StartRegistry, RegisterPeer, AnswerList, AskList, AskSend, ListReturns, PrintEntry
<1>2. QED
  BY <1>1, ShareInvariance, PTL DEF ShareSpec, AcceptsForever

(***************************************************************************)
(* The Telnet logger                                                       *)
(* The handler is given the address of main's variable, not its value.     *)
(***************************************************************************)

\* The handler works with a number that is nobody's descriptor, so a turn of
\* it neither writes nor closes anything.
LEMMA TurnInVain ==
    ASSUME TelnetInv, NEW c \in Callers, HandlerTurn(c)
    PROVE  tmp_txt' = tmp_txt /\ openFds' = openFds
<1>1. sock[c] = Address
  BY DEF TelnetInv, TelnetTypeOK, HandlerTurn
<1>2. Said(Address) = {}
  BY NumbersAssumption DEF TelnetInv, TelnetTypeOK, Said
<1>3. openFds \ {Address} = openFds
  BY NumbersAssumption DEF TelnetInv, TelnetTypeOK
<1>4. QED
  BY <1>1, <1>2, <1>3 DEF HandlerTurn

\* Nobody has called.
LEMMA TelnetStart == TelnetInit => TelnetInv
<1> SUFFICES ASSUME TelnetInit PROVE TelnetInv
  OBVIOUS
<1>1. {c \in Callers : fdOf[c] # 0} = {}
  BY DEF TelnetInit
<1>2. IsFiniteSet({}) /\ Cardinality({}) = 0
  BY FS_EmptySet
<1>3. TelnetTypeOK /\ \A c \in Callers : sock[c] \in {0, Address}
  BY DEF TelnetInit, TelnetTypeOK
<1>4. openFds = {fdOf[c] : c \in Callers} \ {0} /\ tmp_txt = {} /\ openFds = {}
  BY DEF TelnetInit
<1>5. QED
  BY <1>1, <1>2, <1>3, <1>4 DEF TelnetInv, DeafAndLeaking

\* Every accepted caller keeps a descriptor of its own, and every handler an
\* address.
LEMMA TelnetStep == TelnetInv /\ [TelnetNext]_telnetVars => TelnetInv'
<1> SUFFICES ASSUME TelnetInv, [TelnetNext]_telnetVars PROVE TelnetInv'
  OBVIOUS
<1>1. CASE UNCHANGED telnetVars
  BY <1>1 DEF telnetVars, TelnetInv, DeafAndLeaking, TelnetTypeOK
<1>2. ASSUME NEW c \in Callers, Call(c) \/ Speak(c) PROVE TelnetInv'
  BY <1>2 DEF Call, Speak, TelnetInv, DeafAndLeaking, TelnetTypeOK
<1>3. ASSUME NEW c \in Callers, HandlerTurn(c) PROVE TelnetInv'
  <2>1. UNCHANGED <<called, fdOf, openFds, spoken, tmp_txt>>
    BY <1>3, TurnInVain DEF HandlerTurn
  <2>2. sock' \in [Callers -> {0, Address}]
    BY <1>3 DEF HandlerTurn, TelnetInv, TelnetTypeOK
  <2>3. QED
    BY <2>1, <2>2 DEF TelnetInv, DeafAndLeaking, TelnetTypeOK
<1>4. ASSUME NEW c \in Callers, AcceptCaller(c) PROVE TelnetInv'
  <2>1. PICK fd \in Numbers \ openFds :
          /\ openFds' = openFds \cup {fd}
          /\ fdOf' = [fdOf EXCEPT ![c] = fd]
          /\ sock' = [sock EXCEPT ![c] = Address]
    BY <1>4 DEF AcceptCaller, HandlerSocket
  <2> DEFINE With == {d \in Callers : fdOf[d] # 0}
  <2>2. fd # 0 /\ fdOf \in [Callers -> Numbers \cup {0}] /\ fdOf[c] = 0
    BY <1>4, NumbersAssumption DEF TelnetInv, TelnetTypeOK, AcceptCaller
  <2>3. {d \in Callers : fdOf'[d] # 0} = With \cup {c} /\ c \notin With
    BY <2>1, <2>2
  <2>4. /\ IsFiniteSet(With) /\ IsFiniteSet(openFds)
        /\ Cardinality(With) = Cardinality(openFds)
    BY DEF TelnetInv, DeafAndLeaking
  <2>5. /\ IsFiniteSet(With \cup {c}) /\ IsFiniteSet(openFds \cup {fd})
        /\ Cardinality(With \cup {c}) = Cardinality(openFds \cup {fd})
    <3>1. Cardinality(With \cup {c}) = Cardinality(With) + 1 /\ IsFiniteSet(With \cup {c})
      BY <2>3, <2>4, FS_AddElement
    <3>2. /\ Cardinality(openFds \cup {fd}) = Cardinality(openFds) + 1
          /\ IsFiniteSet(openFds \cup {fd})
      BY <2>1, <2>4, FS_AddElement
    <3>3. QED
      BY <2>4, <3>1, <3>2
  <2>6. openFds' = {fdOf'[d] : d \in Callers} \ {0}
    <3>1. openFds = {fdOf[d] : d \in Callers} \ {0}
      BY DEF TelnetInv, DeafAndLeaking
    <3>2. {fdOf'[d] : d \in Callers} = {fdOf[d] : d \in Callers \ {c}} \cup {fd}
      BY <2>1, <2>2
    <3>3. {fdOf[d] : d \in Callers} = {fdOf[d] : d \in Callers \ {c}} \cup {0}
      BY <2>2
    <3>4. QED
      BY <2>1, <2>2, <3>1, <3>2, <3>3
  <2>7. TelnetTypeOK' /\ (\A d \in Callers : sock[d] \in {0, Address})'
    BY <1>4, <2>1 DEF AcceptCaller, TelnetInv, TelnetTypeOK
  <2>8. tmp_txt' = {}
    BY <1>4 DEF AcceptCaller, TelnetInv, DeafAndLeaking
  <2>9. QED
    BY <2>1, <2>3, <2>5, <2>6, <2>7, <2>8 DEF TelnetInv, DeafAndLeaking
<1>5. QED
  BY <1>1, <1>2, <1>3, <1>4 DEF TelnetNext

\* Hence on all behaviours, for any callers and numbers.
LEMMA TelnetInvariance == TelnetSpec => []TelnetInv
BY TelnetStart, TelnetStep, PTL DEF TelnetSpec

\* However many clients come and whatever they say, nothing reaches tmp.txt
\* and the descriptor of each stays open (l.19, l.33).
THEOREM NothingLogged == TelnetSpec => []DeafAndLeaking
<1>1. TelnetInv => DeafAndLeaking
  BY DEF TelnetInv
<1>2. QED
  BY <1>1, TelnetInvariance, PTL

(***************************************************************************)
(* The UDP echo pair                                                       *)
(* Without a leftover datagram at most one question or answer is under way. *)
(***************************************************************************)

\* The first of a sequence and the rest.
LEMMA FirstOf ==
    ASSUME NEW S, NEW s \in Seq(S), s # <<>>
    PROVE  /\ Head(s) \in S /\ Head(s) = s[1]
           /\ Len(s) \in Nat \ {0}
           /\ Tail(s) \in Seq(S) /\ Len(Tail(s)) = Len(s) - 1
           /\ Tail(s) = <<>> => Len(s) = 1
<1>1. /\ Head(s) \in S
      /\ Tail(s) \in Seq(S) /\ Len(Tail(s)) = Len(s) - 1
  BY HeadTailProperties
<1>2. Head(s) = s[1]
  BY DEF Head
<1>3. Len(s) \in Nat \ {0}
  BY EmptySeq
<1>4. Tail(s) = <<>> => Len(Tail(s)) = 0
  BY EmptySeq
<1>5. QED
  BY <1>1, <1>2, <1>3, <1>4

\* A queue with one datagram.
LEMMA OneInQueue ==
    ASSUME NEW d
    PROVE  Head(<<d>>) = d /\ Tail(<<d>>) = <<>> /\ Append(<<>>, d) = <<d>>
OBVIOUS

\* Nothing is under way.
LEMMA EchoStart == EchoInit => EchoInv
BY DEF EchoInit, EchoInv, OwnAnswer

\* Without a leftover one question or answer is under way, and it has the
\* number of the run and line it belongs to.
LEMMA EchoStep == EchoInv /\ [EchoNext]_echoVars => EchoInv'
<1> SUFFICES ASSUME EchoInv, [EchoNext]_echoVars PROVE EchoInv'
  OBVIOUS
<1> USE DEF EchoInv, OwnAnswer
<1>1. CASE StartEcho
  BY <1>1 DEF StartEcho
<1>2. CASE StartAsker
  BY <1>2 DEF StartAsker, NewClient
<1>3. CASE StartBoth
  BY <1>3 DEF StartBoth, NewClient
<1>4. CASE EchoReceive
  BY <1>4, OneInQueue DEF EchoReceive
<1>5. CASE EchoReply
  BY <1>5, OneInQueue DEF EchoReply
<1>6. CASE Ask
  <2>1. run' = run /\ line' = line + 1 /\ asker = "prompt" /\ asker' = "wait"
    BY <1>6 DEF Ask
  <2>2. ~leftover => port5000 = <<>> /\ port6000 = <<>> /\ echo # "reply"
    BY <2>1
  <2>3. ~leftover => port5000' \in {<<>>, <<<<run, line + 1>>>>}
    BY <1>6, <2>2, OneInQueue DEF Ask
  <2>4. UNCHANGED <<echo, held, port6000, leftover, astray>>
    BY <1>6 DEF Ask
  <2>5. QED
    BY <2>1, <2>2, <2>3, <2>4
<1>7. CASE ShowAnswer
  BY <1>7, OneInQueue DEF ShowAnswer
<1>8. CASE AskerEnds
  BY <1>8 DEF AskerEnds, EchoGone
<1>9. CASE EchoStops
  BY <1>9 DEF EchoStops, EchoGone
<1>10. CASE UNCHANGED echoVars
  BY <1>10 DEF echoVars
<1>11. QED
  BY <1>1, <1>2, <1>3, <1>4, <1>5, <1>6, <1>7, <1>8, <1>9, <1>10 DEF EchoNext, Echo

\* Nobody has asked anything.
LEMMA EchoTypeStart == EchoInit => EchoTypeOK
<1> SUFFICES ASSUME EchoInit PROVE EchoTypeOK
  OBVIOUS
<1>1. <<>> \in Seq(Nat \X Nat) /\ Len(<<>>) = 0 /\ Nothing \in Nat \X Nat
  BY DEF Nothing
<1>2. OneEachRun
  BY <1>1 DEF EchoInit, OneEachRun
<1>3. 0 \in 0..MaxRuns /\ 0 \in 0..MaxLines /\ 0 \in 0..MaxStops
  BY BoundsAssumption
<1>4. /\ together = FALSE /\ dropped = FALSE /\ leftover = FALSE /\ astray = FALSE
      /\ echo = "off" /\ asker = "off" /\ run = 0 /\ line = 0 /\ stops = 0
      /\ port5000 = <<>> /\ port6000 = <<>> /\ held = Nothing
  BY DEF EchoInit
<1>5. QED
  BY <1>1, <1>2, <1>3, <1>4 DEF EchoTypeOK

\* A queue and what is taken from it.
LEMMA QueueLengths ==
    ASSUME NEW S, NEW q \in Seq(S)
    PROVE  /\ Len(q) \in Nat
           /\ q # <<>> => Head(q) \in S /\ Tail(q) \in Seq(S) /\ Len(Tail(q)) = Len(q) - 1
BY FirstOf

\* A queue with one more at its end.
LEMMA QueueLonger ==
    ASSUME NEW S, NEW q \in Seq(S), NEW d \in S
    PROVE  Append(q, d) \in Seq(S) /\ Len(Append(q, d)) = Len(q) + 1
OBVIOUS

\* What waits in the queues and in the server, in terms of numbers.
LEMMA EachRun ==
    ASSUME EchoTypeOK
    PROVE  \E m \in Nat, n \in Nat, r \in Nat :
             /\ m = Len(port5000) /\ n = Len(port6000) /\ r = run
             /\ m + n + (IF echo = "reply" THEN 1 ELSE 0) =< r - (IF asker = "prompt" THEN 1 ELSE 0)
<1>1. Len(port5000) \in Nat /\ Len(port6000) \in Nat /\ run \in Nat
  BY QueueLengths, BoundsAssumption DEF EchoTypeOK
<1>2. QED
  BY <1>1 DEF EchoTypeOK, OneEachRun

\* No step makes a run of the client wait for two answers, or goes beyond a bound.
LEMMA EchoTypeStep == EchoTypeOK /\ [EchoNext]_echoVars => EchoTypeOK'
<1> SUFFICES ASSUME EchoTypeOK, [EchoNext]_echoVars PROVE EchoTypeOK'
  OBVIOUS
<1> DEFINE S == Nat \X Nat
<1>1. /\ together \in BOOLEAN /\ dropped \in BOOLEAN /\ leftover \in BOOLEAN /\ astray \in BOOLEAN
      /\ echo \in {"off", "recv", "reply"} /\ asker \in {"off", "prompt", "wait"}
      /\ run \in 0..MaxRuns /\ line \in 0..MaxLines /\ stops \in 0..MaxStops
      /\ port5000 \in Seq(S) /\ port6000 \in Seq(S) /\ held \in S
  BY DEF EchoTypeOK
<1>2. PICK m \in Nat, n \in Nat, r \in Nat :
        /\ m = Len(port5000) /\ n = Len(port6000) /\ r = run
        /\ m + n + (IF echo = "reply" THEN 1 ELSE 0) =< r - (IF asker = "prompt" THEN 1 ELSE 0)
  BY EachRun
<1>3. <<>> \in Seq(S) /\ Len(<<>>) = 0 /\ Nothing \in S
  BY DEF Nothing
<1> HIDE DEF S
<1>4. CASE StartEcho
  BY <1>1, <1>2, <1>4 DEF StartEcho, EchoTypeOK, OneEachRun, S
<1>5. CASE StartAsker \/ StartBoth
  <2>1. OneEachRun'
    <3>0. /\ port5000' = port5000 /\ port6000' = <<>> /\ run' = run + 1
          /\ echo' = echo /\ asker = "off" /\ asker' = "prompt"
      BY <1>5 DEF StartAsker, StartBoth, NewClient
    <3>1. /\ Len(port5000') = m /\ Len(port6000') = 0 /\ run' = r + 1
          /\ echo' = echo /\ asker = "off" /\ asker' = "prompt"
      BY <1>2, <1>3, <3>0
    <3>2. QED
      BY <1>2, <3>1 DEF OneEachRun
  <2>2. run' \in 0..MaxRuns /\ line' \in 0..MaxLines
    BY <1>1, <1>5, BoundsAssumption DEF StartAsker, StartBoth, NewClient
  <2>3. QED
    BY <1>1, <1>3, <1>5, <2>1, <2>2 DEF StartAsker, StartBoth, NewClient, EchoTypeOK, S
<1>6. CASE EchoReceive
  <2>1. held' \in S /\ port5000' \in Seq(S) /\ Len(port5000') = m - 1
    BY <1>1, <1>2, <1>6, QueueLengths DEF EchoReceive
  <2>2. OneEachRun'
    BY <1>2, <1>6, <2>1 DEF EchoReceive, OneEachRun
  <2>3. QED
    BY <1>1, <1>6, <2>1, <2>2 DEF EchoReceive, EchoTypeOK, S
<1>7. CASE EchoReply
  <2>1. port6000' \in Seq(S) /\ Len(port6000') \in {n, n + 1}
    <3>1. port6000' = port6000 \/ port6000' = Append(port6000, held)
      BY <1>7 DEF EchoReply
    <3>2. Append(port6000, held) \in Seq(S) /\ Len(Append(port6000, held)) = n + 1
      BY <1>1, <1>2, QueueLonger
    <3>3. QED
      BY <1>1, <1>2, <3>1, <3>2
  <2>2. OneEachRun'
    <3>1. /\ echo = "reply" /\ echo' = "recv"
          /\ port5000' = port5000 /\ asker' = asker /\ run' = run
      BY <1>7 DEF EchoReply
    <3>2. QED
      BY <1>2, <2>1, <3>1 DEF OneEachRun
  <2>3. dropped' \in BOOLEAN
    BY <1>7, Zenon DEF EchoReply
  <2>4. QED
    BY <1>1, <1>3, <1>7, <2>1, <2>2, <2>3 DEF EchoReply, EchoTypeOK, S
<1>8. CASE Ask
  <2>1. <<run, line + 1>> \in S /\ line' \in 0..MaxLines
    BY <1>1, <1>8, BoundsAssumption DEF Ask, S
  <2>2. port5000' \in Seq(S) /\ Len(port5000') \in {m, m + 1}
    <3>1. port5000' = port5000 \/ port5000' = Append(port5000, <<run, line + 1>>)
      BY <1>8 DEF Ask
    <3>2. PICK d \in S : d = <<run, line + 1>>
      BY <2>1
    <3>3. Append(port5000, d) \in Seq(S) /\ Len(Append(port5000, d)) = m + 1
      BY <1>1, <1>2, QueueLonger
    <3>4. QED
      BY <1>1, <1>2, <3>1, <3>2, <3>3
  <2>3. OneEachRun'
    <3>1. /\ asker = "prompt" /\ asker' = "wait"
          /\ port6000' = port6000 /\ echo' = echo /\ run' = run
      BY <1>8 DEF Ask
    <3>2. QED
      BY <1>2, <2>2, <3>1 DEF OneEachRun
  <2>4. dropped' \in BOOLEAN
    BY <1>8, Zenon DEF Ask
  <2>5. QED
    BY <1>1, <1>8, <2>1, <2>2, <2>3, <2>4 DEF Ask, EchoTypeOK, S
<1>9. CASE ShowAnswer
  <2>1. port6000' \in Seq(S) /\ Len(port6000') = n - 1
    BY <1>1, <1>2, <1>9, QueueLengths DEF ShowAnswer
  <2>2. OneEachRun'
    BY <1>2, <1>9, <2>1 DEF ShowAnswer, OneEachRun
  <2>3. astray' \in BOOLEAN
    BY <1>9, Zenon DEF ShowAnswer
  <2>4. QED
    BY <1>1, <1>9, <2>1, <2>2, <2>3 DEF ShowAnswer, EchoTypeOK, S
<1>10. CASE AskerEnds
  <2>1. /\ port5000' \in Seq(S) /\ Len(port5000') \in {0, m} /\ port6000' = <<>>
        /\ held' \in S /\ echo' \in {"off", echo} /\ asker' = "off" /\ run' = run
    BY <1>1, <1>2, <1>3, <1>10 DEF AskerEnds, EchoGone
  <2>2. OneEachRun'
    BY <1>2, <1>3, <2>1 DEF OneEachRun
  <2>3. leftover' \in BOOLEAN
    BY <1>1, <1>10, Zenon DEF AskerEnds
  <2>4. QED
    BY <1>1, <1>3, <1>10, <2>1, <2>2, <2>3 DEF AskerEnds, EchoTypeOK, S
<1>11. CASE EchoStops
  <2>1. OneEachRun'
    BY <1>2, <1>3, <1>11 DEF EchoStops, EchoGone, OneEachRun
  <2>2. dropped' \in BOOLEAN
    BY <1>11, Zenon DEF EchoStops
  <2>3. stops' \in 0..MaxStops
    BY <1>1, <1>11, BoundsAssumption DEF EchoStops
  <2>4. QED
    BY <1>1, <1>3, <1>11, <2>1, <2>2, <2>3 DEF EchoStops, EchoGone, EchoTypeOK, S
<1>12. CASE UNCHANGED echoVars
  BY <1>12 DEF echoVars, EchoTypeOK, OneEachRun, S
<1>13. QED
  BY <1>4, <1>5, <1>6, <1>7, <1>8, <1>9, <1>10, <1>11, <1>12 DEF EchoNext, Echo

\* Hence on all behaviours, for any number of runs, lines and stops.
LEMMA EchoInvariance == EchoSpec => []EchoInv
BY EchoStart, EchoStep, PTL DEF EchoSpec

\* For any number of runs, lines and stops (l.101-116): a run that found no
\* datagram of an earlier one shows the answers to its own lines.
THEOREM AnswersAreOwn == EchoSpec => []OwnAnswer
<1>1. EchoInv => OwnAnswer
  BY DEF EchoInv
<1>2. QED
  BY <1>1, EchoInvariance, PTL

(***************************************************************************)
(* The HTTP directory server                                               *)
(* While lines remain, remaining is BUFFER_SIZE - ptr in the arithmetic of a *)
(* size_t, and what is left to write cannot come round to it a second time. *)
(***************************************************************************)

\* The elements of a sequence of known length.
LEMMA ElementsOf ==
    ASSUME NEW S, NEW s \in Seq(S), NEW N \in Nat, N = Len(s)
    PROVE  DOMAIN s = 1..N /\ \A j \in 1..N : s[j] \in S
OBVIOUS

\* What snprintf is told to use and what it uses, before and behind the end
\* of the buffer (l.86-130).
LEMMA OneLine ==
    ASSUME PageInv, lines # <<>>, NEW n, n = Head(lines)
    PROVE  /\ n \in 0..MaxLine /\ Written(remaining, n) \in Nat
           /\ ptr =< BUFFER_SIZE => ptr + Written(remaining, n) =< BUFFER_SIZE
           /\ ptr > BUFFER_SIZE => Written(remaining, n) > 0 /\ ptr + Written(remaining, n) > BUFFER_SIZE
           /\ ptr < BUFFER_SIZE => ptr + Written(remaining, n) - 1 =
                                      IF ptr + n < BUFFER_SIZE THEN ptr + n ELSE BUFFER_SIZE - 1
           /\ Subtract(remaining, n) = BUFFER_SIZE - (ptr + n)
                                        + (IF ptr + n =< BUFFER_SIZE THEN 0 ELSE Word)
           /\ ptr + n < Word /\ BUFFER_SIZE < Word
<1>1. n \in 0..MaxLine
  <2>1. lines \in Seq(0..MaxLine) /\ lines # <<>>
    BY DEF PageInv
  <2>2. QED
    BY <2>1, FirstOf
<1>2. PICK M \in Nat : M = MaxLine
  BY SizesAssumption
<1>3. PICK B \in Nat : B = BUFFER_SIZE
  BY SizesAssumption
<1>4. PICK W \in Nat : W = Word
  BY WordAssumption
<1>5. PICK p \in Nat : p = ptr
  BY DEF PageInv
<1>6. PICK T \in Nat : T = (MaxEntries + 2) * MaxLine
  <2>1. PICK E \in Nat : E = MaxEntries + 2
    BY SizesAssumption
  <2>2. E * M \in Nat
    OBVIOUS
  <2>3. QED
    BY <1>2, <2>1, <2>2
<1>7. T + B < W
  BY <1>3, <1>4, <1>6, WordAssumption
<1>8. p + n =< T
  <2>1. PICK L \in Nat \ {0} : L = Len(lines)
    BY DEF PageInv
  <2>2. L * M + p =< T
    BY <1>2, <1>5, <1>6, <2>1 DEF PageInv
  <2>3. PICK q \in Nat : q = (L - 1) * M
    BY <2>1
  <2>4. L * M = q + M
    BY <2>1, <2>3
  <2>5. QED
    BY <1>1, <1>2, <2>2, <2>4
<1>9. n \in Nat
  BY <1>1, <1>2
<1>10. remaining = B - p + (IF p =< B THEN 0 ELSE W)
  BY <1>3, <1>4, <1>5 DEF PageInv
<1>11. PICK r \in Nat : r = remaining
  BY <1>7, <1>8, <1>9, <1>10
<1>12. r = B - p + (IF p =< B THEN 0 ELSE W)
  BY <1>10, <1>11
<1>13. Written(r, n) = IF r = 0 THEN 0 ELSE (IF n < r THEN n ELSE r - 1) + 1
  BY DEF Written
<1>14. PICK w \in Nat : w = Written(r, n)
  BY <1>9, <1>13
<1>15. w = IF r = 0 THEN 0 ELSE (IF n < r THEN n ELSE r - 1) + 1
  BY <1>13, <1>14
<1>16. /\ p =< B => p + w =< B
       /\ p > B => w > 0 /\ p + w > B
       /\ p < B => p + w - 1 = IF p + n < B THEN p + n ELSE B - 1
  BY <1>7, <1>8, <1>9, <1>12, <1>15, SMTT(30)
<1>17. Subtract(r, n) = B - (p + n) + (IF p + n =< B THEN 0 ELSE W)
  <2>1. Subtract(r, n) = (r - n + W) % W
    BY <1>4 DEF Subtract
  <2>2. PICK x \in 0..W - 1 : x = B - (p + n) + (IF p + n =< B THEN 0 ELSE W)
    BY <1>7, <1>8, <1>9
  <2>3. r - n + W = x \/ r - n + W = x + W
    BY <1>9, <1>12, <2>2, SMTT(30)
  <2>4. x % W = x /\ (x + W) % W = x /\ W > 0
    BY <2>2, SMTT(30)
  <2>5. QED
    BY <2>1, <2>2, <2>3, <2>4
<1>18. QED
  BY <1>1, <1>3, <1>4, <1>5, <1>7, <1>8, <1>9, <1>11, <1>14, <1>16, <1>17

\* One line of the page.
LEMMA PageStep ==
    ASSUME ListingInv, WriteLine
    PROVE  ListingInv'
<1>1. PageInv /\ hpc = "write" /\ lines # <<>>
  BY DEF ListingInv, WriteLine
<1>2. PICK n \in 0..MaxLine : n = Head(lines)
  BY <1>1, OneLine
<1>3. PICK w : w = Written(remaining, n)
  OBVIOUS
<1>4. /\ overrun' = (overrun \/ (w > 0 /\ ptr + w > BUFFER_SIZE))
      /\ content' = IF ptr < BUFFER_SIZE THEN ptr + w - 1 ELSE content
      /\ ptr' = ptr + n
      /\ remaining' = Subtract(remaining, n)
      /\ lines' = Tail(lines)
      /\ UNCHANGED <<hpc, entries, announced, sentBody>>
  BY <1>2, <1>3 DEF WriteLine
<1>5. ptr \in Nat /\ BUFFER_SIZE \in Nat /\ n \in Nat /\ w \in Nat
  <2>1. n \in Nat
    BY <1>2, SizesAssumption
  <2>2. QED
    BY <1>1, <1>2, <1>3, <2>1, OneLine, SizesAssumption DEF PageInv
<1>6. overrun' <=> ptr > BUFFER_SIZE
  <2>1. /\ ptr =< BUFFER_SIZE => ptr + w =< BUFFER_SIZE
        /\ ptr > BUFFER_SIZE => w > 0 /\ ptr + w > BUFFER_SIZE
    BY <1>1, <1>2, <1>3, OneLine
  <2>2. overrun => ptr > BUFFER_SIZE
    BY <1>1 DEF PageInv
  <2>3. ptr > BUFFER_SIZE \/ ptr =< BUFFER_SIZE
    BY <1>5
  <2>4. ~(ptr + w =< BUFFER_SIZE /\ ptr + w > BUFFER_SIZE)
    BY <1>5
  <2>5. QED
    BY <1>4, <2>1, <2>2, <2>3, <2>4
<1>7. content' = IF ptr' < BUFFER_SIZE THEN ptr' ELSE BUFFER_SIZE - 1
  <2>1. CASE ptr < BUFFER_SIZE
    BY <1>1, <1>2, <1>3, <1>4, <2>1, OneLine
  <2>2. CASE ~(ptr < BUFFER_SIZE)
    <3>1. content = BUFFER_SIZE - 1
      BY <1>1, <2>2 DEF ListingInv
    <3>2. ~(ptr' < BUFFER_SIZE)
      BY <1>4, <1>5, <2>2
    <3>3. QED
      BY <1>4, <2>2, <3>1, <3>2
  <2>3. QED
    BY <2>1, <2>2
<1>8. ptr' \in Nat
  BY <1>4, <1>5
<1>9. ASSUME lines' # <<>>
      PROVE  PageInv'
  <2>1. PICK L \in Nat : L = Len(lines)
    BY <1>1 DEF PageInv
  <2>2. /\ lines' \in Seq(0..MaxLine) /\ Len(lines') = L - 1 /\ L > 1
        /\ lines'[L - 1] = lines[L]
    BY <1>1, <1>4, <1>9, <2>1 DEF PageInv
  <2>3. Len(lines') * MaxLine + ptr' =< (MaxEntries + 2) * MaxLine
    <3>1. PICK M \in Nat : M = MaxLine
      BY SizesAssumption
    <3>2. PICK q \in Nat : q = (L - 1) * M
      BY <2>1, <2>2
    <3>3. L * M = q + M
      BY <2>1, <3>2
    <3>4. PICK T \in Int : T = (MaxEntries + 2) * M
      <4>1. PICK E \in Nat : E = MaxEntries + 2
        BY SizesAssumption
      <4>2. E * M \in Nat
        OBVIOUS
      <4>3. QED
        BY <4>1, <4>2
    <3>5. q + M + ptr =< T
      BY <1>1, <2>1, <3>1, <3>3, <3>4 DEF PageInv
    <3>6. n =< M
      BY <1>2, <3>1
    <3>7. q + (ptr + n) =< T
      BY <1>5, <3>5, <3>6
    <3>8. QED
      BY <1>4, <2>2, <3>1, <3>2, <3>4, <3>7
  <2>4. remaining' = BUFFER_SIZE - ptr' + (IF ptr' =< BUFFER_SIZE THEN 0 ELSE Word)
    BY <1>1, <1>2, <1>4, OneLine
  <2>5. overrun' => ptr' > BUFFER_SIZE
    BY <1>4, <1>5, <1>6
  <2>6. lines'[Len(lines')] = PageEnd
    BY <1>1, <2>1, <2>2 DEF PageInv
  <2>7. QED
    BY <1>8, <2>2, <2>3, <2>4, <2>5, <2>6 DEF PageInv
<1>10. ASSUME lines' = <<>>
       PROVE  overrun' <=> ptr' - PageEnd > BUFFER_SIZE
  <2>1. lines \in Seq(0..MaxLine) /\ lines # <<>> /\ lines[Len(lines)] = PageEnd
    BY <1>1 DEF PageInv
  <2>2. Tail(lines) = <<>>
    BY <1>4, <1>10
  <2>4. Len(lines) = 1
    BY <2>1, <2>2, FirstOf
  <2>3. n = PageEnd
    BY <1>2, <2>1, <2>4
  <2>5. QED
    BY <1>4, <1>5, <1>6, <2>3
<1>11. QED
  BY <1>1, <1>4, <1>7, <1>8, <1>9, <1>10 DEF ListingInv

\* The page begins with room for the whole buffer, its entries in any order.
LEMMA StartPageStep ==
    ASSUME ListingInv, StartPage
    PROVE  ListingInv'
<1>1. /\ entries \in Seq([is_dir : BOOLEAN, len : 0..MaxLine]) /\ Len(entries) =< MaxEntries
      /\ ptr = 0 /\ content = 0 /\ ~overrun
  BY DEF ListingInv, StartPage
<1>2. PICK s \in Sorted(entries) :
        lines' = <<PageTop>> \o [k \in DOMAIN s |-> s[k].len] \o <<PageEnd>>
  BY DEF StartPage
<1>3. PICK N \in Nat : N = Len(entries)
  BY <1>1
<1>4. PICK p \in [1..N -> 1..N] : s = [k \in 1..N |-> entries[p[k]]]
  <2>1. DOMAIN entries = 1..N
    BY <1>1, <1>3, ElementsOf
  <2>2. \E p \in [DOMAIN entries -> DOMAIN entries] : s = [k \in DOMAIN entries |-> entries[p[k]]]
    BY Zenon DEF Sorted
  <2>3. QED
    BY <2>1, <2>2
<1>5. PICK t : t = [k \in 1..N |-> s[k].len]
  OBVIOUS
<1>6. ASSUME NEW k \in 1..N PROVE t[k] \in 0..MaxLine
  <2>1. p[k] \in 1..N
    OBVIOUS
  <2>2. \A j \in 1..N : entries[j] \in [is_dir : BOOLEAN, len : 0..MaxLine]
    BY <1>1, <1>3, ElementsOf, Zenon
  <2>3. entries[p[k]].len \in 0..MaxLine
    BY <2>1, <2>2
  <2>4. QED
    BY <1>4, <1>5, <2>3
<1>7. t \in Seq(0..MaxLine) /\ Len(t) = N
  BY <1>3, <1>5, <1>6
<1>8. PICK u : u = <<PageTop>> \o t
  OBVIOUS
<1>9. u \in Seq(0..MaxLine) /\ Len(u) = N + 1
  BY <1>7, <1>8, SizesAssumption
<1>10. lines' = u \o <<PageEnd>>
  BY <1>2, <1>4, <1>5, <1>8
<1>11. /\ lines' \in Seq(0..MaxLine) /\ Len(lines') = N + 2
       /\ lines'[N + 2] = PageEnd
  BY <1>3, <1>9, <1>10, SizesAssumption
<1>12. lines' # <<>>
  BY <1>3, <1>11
<1>13. (N + 2) * MaxLine =< (MaxEntries + 2) * MaxLine
  <2>1. PICK M \in Nat : M = MaxLine
    BY SizesAssumption
  <2>2. PICK d \in Nat : MaxEntries = N + d
    <3>1. PICK E \in Nat : E = MaxEntries
      BY SizesAssumption
    <3>2. E - N \in Nat /\ E = N + (E - N)
      BY <1>1, <1>3, <3>1
    <3>3. QED
      BY <3>1, <3>2
  <2>3. (N + d + 2) * M = (N + 2) * M + d * M
    OBVIOUS
  <2>4. d * M \in Nat /\ (N + 2) * M \in Nat
    OBVIOUS
  <2>5. QED
    BY <2>1, <2>2, <2>3, <2>4
<1>14. ptr' = 0 /\ content' = 0 /\ ~overrun' /\ hpc' = "write" /\ entries' = <<>>
       /\ remaining' = BUFFER_SIZE
  BY <1>1 DEF StartPage
<1>15. BUFFER_SIZE \in Nat /\ BUFFER_SIZE > 0
  BY SizesAssumption
<1>16. PageInv'
  <2>1. remaining' = BUFFER_SIZE - ptr' + (IF ptr' =< BUFFER_SIZE THEN 0 ELSE Word)
    BY <1>14, <1>15
  <2>2. Len(lines') * MaxLine + ptr' =< (MaxEntries + 2) * MaxLine
    <3>1. PICK q \in Nat : q = (N + 2) * MaxLine
      <4>1. PICK M \in Nat : M = MaxLine
        BY SizesAssumption
      <4>2. (N + 2) * M \in Nat
        OBVIOUS
      <4>3. QED
        BY <4>1, <4>2
    <3>2. q + 0 = q
      OBVIOUS
    <3>3. QED
      BY <1>11, <1>13, <1>14, <3>1, <3>2
  <2>3. lines'[Len(lines')] = PageEnd
    BY <1>11
  <2>4. QED
    BY <1>11, <1>14, <2>1, <2>2, <2>3 DEF PageInv
<1>17. QED
  BY <1>12, <1>14, <1>15, <1>16, SizesAssumption DEF ListingInv

\* Nothing has been read or written.
LEMMA ListingStart == ListingInit => ListingInv
BY SizesAssumption DEF ListingInit, ListingInv

\* remaining is the room left, or, once the page is longer than the buffer,
\* that less than nothing as a size_t (l.86-130).
LEMMA ListingStep == ListingInv /\ [ListingNext]_listingVars => ListingInv'
<1> SUFFICES ASSUME ListingInv, [ListingNext]_listingVars PROVE ListingInv'
  OBVIOUS
<1>1. CASE ReceiveNothing
  BY <1>1, SizesAssumption DEF ListingInv, ReceiveNothing
<1>2. CASE SendFavicon
  BY <1>2, SizesAssumption DEF ListingInv, SendFavicon
<1>3. CASE NoListing
  BY <1>3, SizesAssumption DEF ListingInv, NoListing
<1>4. CASE StartListing
  BY <1>4 DEF ListingInv, StartListing
<1>5. CASE ReadEntry
  <2>1. entries' \in Seq([is_dir : BOOLEAN, len : 0..MaxLine]) /\ Len(entries') =< MaxEntries
    <3>1. PICK n \in LineLengths, is_dir \in BOOLEAN :
            entries' = Append(entries, [is_dir |-> is_dir, len |-> n + IF is_dir THEN FolderExtra ELSE 0])
      BY <1>5 DEF ReadEntry
    <3>2. n + (IF is_dir THEN FolderExtra ELSE 0) \in 0..MaxLine
      BY SizesAssumption
    <3>3. [is_dir |-> is_dir, len |-> n + IF is_dir THEN FolderExtra ELSE 0]
            \in [is_dir : BOOLEAN, len : 0..MaxLine]
      BY <3>2
    <3>4. entries \in Seq([is_dir : BOOLEAN, len : 0..MaxLine]) /\ Len(entries) < MaxEntries
      BY <1>5 DEF ListingInv, ReadEntry
    <3>5. QED
      BY <3>1, <3>3, <3>4, SizesAssumption
  <2>2. QED
    BY <1>5, <2>1 DEF ListingInv, ReadEntry
<1>6. CASE StartPage
  BY <1>6, StartPageStep
<1>7. CASE WriteLine
  BY <1>7, PageStep
<1>8. CASE SendResponse
  BY <1>8 DEF ListingInv, SendResponse
<1>9. CASE Crash
  BY <1>9 DEF ListingInv, Crash
<1>10. CASE UNCHANGED listingVars
  BY <1>10 DEF ListingInv, PageInv, listingVars
<1>11. QED
  BY <1>1, <1>2, <1>3, <1>4, <1>5, <1>6, <1>7, <1>8, <1>9, <1>10 DEF ListingNext

\* Nothing is written yet.
LEMMA ListingTypeStart == ListingInit => ListingTypeOK
<1>1. Word \in Nat \ {0} /\ BUFFER_SIZE \in Nat \ {0}
  BY SizesAssumption, WordAssumption
<1>2. QED
  BY <1>1 DEF ListingInit, ListingTypeOK

\* A buffer is smaller than a word.
LEMMA BufferInWord == BUFFER_SIZE < Word
<1>1. PICK E \in Nat, M \in Nat : E = MaxEntries + 2 /\ M = MaxLine
  BY SizesAssumption
<1>2. E * M \in Nat
  OBVIOUS
<1>3. QED
  BY <1>1, <1>2, SizesAssumption, WordAssumption

\* The numbers stay within a word and a buffer, and no more is sent than announced.
LEMMA ListingTypeStep ==
    ListingTypeOK /\ ListingInv /\ [ListingNext]_listingVars => ListingTypeOK'
<1> SUFFICES ASSUME ListingTypeOK, ListingInv, [ListingNext]_listingVars PROVE ListingTypeOK'
  OBVIOUS
<1>1. CASE ReceiveNothing
  BY <1>1 DEF ReceiveNothing, ListingTypeOK
<1>2. CASE SendFavicon
  BY <1>2, SizesAssumption DEF SendFavicon, ListingTypeOK
<1>3. CASE NoListing
  BY <1>3, SizesAssumption DEF NoListing, ListingTypeOK
<1>4. CASE StartListing
  BY <1>4 DEF StartListing, ListingTypeOK
<1>5. CASE ReadEntry
  BY <1>5 DEF ReadEntry, ListingTypeOK
<1>6. CASE StartPage
  <2>1. remaining' \in 0..Word - 1
    BY <1>6, BufferInWord, SizesAssumption, WordAssumption DEF StartPage
  <2>2. QED
    BY <1>6, <2>1 DEF StartPage, ListingTypeOK
<1>7. CASE WriteLine
  <2>1. PICK n : n = Head(lines)
    OBVIOUS
  <2>2. PageInv /\ lines # <<>> /\ ptr \in Nat
    BY <1>7 DEF WriteLine, ListingInv
  <2>3. /\ content' = IF ptr < BUFFER_SIZE THEN ptr + Written(remaining, n) - 1 ELSE content
        /\ ptr' = ptr + n /\ remaining' = Subtract(remaining, n)
        /\ UNCHANGED <<hpc, entries, announced, sentBody>>
    BY <1>7, <2>1 DEF WriteLine
  <2>4. PICK k \in Nat : k = n
    BY <2>1, <2>2, OneLine, SizesAssumption
  <2>5. /\ ptr < BUFFER_SIZE => content' = IF ptr + k < BUFFER_SIZE THEN ptr + k ELSE BUFFER_SIZE - 1
        /\ remaining' = BUFFER_SIZE - (ptr + k) + (IF ptr + k =< BUFFER_SIZE THEN 0 ELSE Word)
        /\ ptr + k < Word /\ BUFFER_SIZE < Word
    BY <2>1, <2>2, <2>3, <2>4, OneLine
  <2>6. ptr' \in 0..Word - 1 /\ remaining' \in 0..Word - 1
    BY <2>2, <2>3, <2>4, <2>5, SizesAssumption, WordAssumption
  <2>7. content' \in 0..BUFFER_SIZE - 1
    BY <2>2, <2>3, <2>4, <2>5, SizesAssumption DEF ListingTypeOK
  <2>8. QED
    BY <2>3, <2>6, <2>7 DEF ListingTypeOK
<1>8. CASE SendResponse
  <2>1. announced' >= sentBody'
    BY <1>8, SizesAssumption DEF SendResponse, BodyThatFits, ListingTypeOK
  <2>2. QED
    BY <1>8, <2>1 DEF SendResponse, ListingTypeOK
<1>9. CASE Crash
  BY <1>9 DEF Crash, ListingTypeOK
<1>10. CASE UNCHANGED listingVars
  BY <1>10 DEF listingVars, ListingTypeOK
<1>11. QED
  BY <1>1, <1>2, <1>3, <1>4, <1>5, <1>6, <1>7, <1>8, <1>9, <1>10 DEF ListingNext

\* Hence on all behaviours, for every size of buffer, page and word.
LEMMA ListingInvariance == ListingSpec => []ListingInv
BY ListingStart, ListingStep, PTL DEF ListingSpec

\* For every buffer, every page and every order of its lines: snprintf writes
\* behind the buffer exactly if ptr had passed its end before the last line
\* (l.127), unless the page is so long that a size_t comes round.
THEOREM OverrunIsExact == ListingSpec => []OverrunExactly
<1>1. ListingInv => OverrunExactly
  BY DEF ListingInv, OverrunExactly
<1>2. QED
  BY <1>1, ListingInvariance, PTL

\* For every page: the client gets less than was announced exactly if header
\* and page do not fit one buffer, and less is announced than was made
\* exactly if the page alone does not (l.160-173).
THEOREM ShortIsExact == ListingSpec => []ShortExactly
<1>1. ASSUME ListingInv, hpc = "closed", ptr > 0
      PROVE  /\ sentBody < announced <=> HeaderLen + ptr >= BUFFER_SIZE
             /\ announced < ptr <=> ptr >= BUFFER_SIZE
  <2>1. /\ announced = IF ptr < BUFFER_SIZE THEN ptr ELSE BUFFER_SIZE - 1
        /\ sentBody = IF HeaderLen + announced < BUFFER_SIZE THEN announced
                      ELSE BUFFER_SIZE - 1 - HeaderLen
    BY <1>1 DEF ListingInv, BodyThatFits
  <2>2. ptr \in Nat
    BY <1>1 DEF ListingInv
  <2>3. QED
    BY <2>1, <2>2, SizesAssumption
<1>2. ListingInv => ShortExactly
  BY <1>1 DEF ShortExactly
<1>3. QED
  BY <1>2, ListingInvariance, PTL

(***************************************************************************)
(* The UDP chat server                                                     *)
(* A text is said when the loop over the members begins; who the loop has  *)
(* not reached yet has it to hear.                                         *)
(***************************************************************************)

\* Nobody is in the vector.
LEMMA UdpChatStart == UdpChatInit => UdpChatInv
BY DEF UdpChatInit, UdpChatInv

\* No address is listed twice, and the sender of the text in hand is listed.
LEMMA UdpChatStep == UdpChatInv /\ [UdpChatNext]_udpChatVars => UdpChatInv'
<1> SUFFICES ASSUME UdpChatInv, [UdpChatNext]_udpChatVars PROVE UdpChatInv'
  OBVIOUS
<1>1. ASSUME NEW c \in Chatters, ReceiveFrom(c) PROVE UdpChatInv'
  <2>1. /\ clients_udp' = Added(c) /\ current' = c /\ upc' = "message"
        /\ arrived' = [arrived EXCEPT ![c] = @ + 1]
        /\ i_udp' = i_udp /\ forwarded' = forwarded
    BY <1>1 DEF ReceiveFrom
  <2>2. /\ clients_udp' \in Seq(Chatters) /\ c \in Members'
        /\ \A j, k \in DOMAIN clients_udp' : clients_udp'[j] = clients_udp'[k] => j = k
    <3>1. PICK N \in Nat : N = Len(clients_udp)
      BY DEF UdpChatInv
    <3>2. clients_udp \in Seq(Chatters) /\ DOMAIN clients_udp = 1..N
      BY <3>1 DEF UdpChatInv
    <3>3. CASE c \in Members
      BY <2>1, <3>3 DEF Added, UdpChatInv, Members
    <3>4. CASE c \notin Members
      <4>1. /\ clients_udp' \in Seq(Chatters) /\ DOMAIN clients_udp' = 1..N + 1
            /\ clients_udp'[N + 1] = c
            /\ \A j \in 1..N : clients_udp'[j] = clients_udp[j]
        BY <2>1, <3>1, <3>2, <3>4 DEF Added
      <4>2. N + 1 \in DOMAIN clients_udp'
        BY <4>1
      <4>3. c \in Members'
        BY <4>1, <4>2 DEF Members
      <4>4. \A j \in 1..N : clients_udp[j] # c
        BY <3>2, <3>4 DEF Members
      <4>5. \A j, k \in 1..N : clients_udp[j] = clients_udp[k] => j = k
        BY <3>2 DEF UdpChatInv
      <4>6. \A j \in 1..N + 1 : j = N + 1 \/ j \in 1..N
        OBVIOUS
      <4>7. QED
        BY <4>1, <4>3, <4>4, <4>5, <4>6
    <3>5. QED
      BY <3>3, <3>4
  <2>3. arrived' \in [Chatters -> Nat] /\ arrived'[c] > 0
    BY <2>1 DEF UdpChatInv
  <2>4. QED
    BY <2>1, <2>2, <2>3 DEF UdpChatInv
<1>2. CASE MakeMessage
  BY <1>2 DEF MakeMessage, UdpChatInv, Members
<1>3. CASE ForwardNext
  <2>1. PICK d : d = clients_udp[i_udp]
    OBVIOUS
  <2>2. d \in Chatters /\ current \in Chatters
    BY <1>3, <2>1 DEF ForwardNext, UdpChatInv, Members
  <2>3. forwarded' = IF d = current THEN forwarded
                     ELSE [forwarded EXCEPT ![d] = Append(@, <<current, arrived[current]>>)]
    BY <1>3, <2>1 DEF ForwardNext
  <2>4. <<current, arrived[current]>> \in Chatters \X Nat
    BY <2>2 DEF UdpChatInv
  <2>5. Append(forwarded[d], <<current, arrived[current]>>) \in Seq(Chatters \X Nat)
    BY <2>2, <2>4 DEF UdpChatInv
  <2>6. forwarded' \in [Chatters -> Seq(Chatters \X Nat)]
    BY <2>3, <2>5 DEF UdpChatInv
  <2>7. /\ i_udp' = i_udp + 1 /\ upc = "forward"
        /\ UNCHANGED <<clients_udp, upc, current, arrived>>
    BY <1>3 DEF ForwardNext
  <2>8. Members' = Members
    BY <2>7 DEF Members
  <2>9. QED
    BY <2>6, <2>7, <2>8, SMTT(30) DEF UdpChatInv
<1>4. CASE ForwardEnds
  BY <1>4 DEF ForwardEnds, UdpChatInv, Members
<1>5. CASE UNCHANGED udpChatVars
  BY <1>5 DEF udpChatVars, UdpChatInv, Members
<1>6. QED
  BY <1>1, <1>2, <1>3, <1>4, <1>5 DEF UdpChatNext

\* Nobody has spoken yet.
LEMMA UdpChatTypeStart == UdpChatInit => UdpChatTypeOK
BY ArrivalsAssumption DEF UdpChatInit, UdpChatTypeOK

\* What is forwarded is a word of a member, and the iterator runs up to one past the
\* last of them.
LEMMA UdpChatTypeStep ==
    UdpChatTypeOK /\ UdpChatInv /\ [UdpChatNext]_udpChatVars => UdpChatTypeOK'
<1> SUFFICES ASSUME UdpChatTypeOK, UdpChatInv, [UdpChatNext]_udpChatVars PROVE UdpChatTypeOK'
  OBVIOUS
<1>1. /\ clients_udp \in Seq(Chatters) /\ i_udp \in 0..Len(clients_udp) + 1
      /\ arrived \in [Chatters -> 0..MaxArrivals]
      /\ \A c \in Chatters : forwarded[c] \in Seq(Chatters \X (1..MaxArrivals))
      /\ forwarded \in [Chatters -> Seq(Chatters \X Nat)]
  BY DEF UdpChatTypeOK, UdpChatInv
<1>2. PICK N \in Nat : N = Len(clients_udp)
  BY <1>1
<1>3. ASSUME NEW c \in Chatters, ReceiveFrom(c) PROVE UdpChatTypeOK'
  <2>1. /\ clients_udp' \in Seq(Chatters)
        /\ Len(clients_udp') = N \/ Len(clients_udp') = N + 1
    BY <1>1, <1>2, <1>3 DEF ReceiveFrom, Added
  <2>2. i_udp' \in 0..Len(clients_udp') + 1
    BY <1>1, <1>2, <1>3, <2>1 DEF ReceiveFrom
  <2>3. arrived' \in [Chatters -> 0..MaxArrivals]
    BY <1>1, <1>3, ArrivalsAssumption DEF ReceiveFrom
  <2>4. upc' \in {"recv", "message", "forward"} /\ current' \in Chatters /\ forwarded' = forwarded
    BY <1>3 DEF ReceiveFrom
  <2>5. QED
    BY <1>1, <2>1, <2>2, <2>3, <2>4 DEF UdpChatTypeOK
<1>4. CASE MakeMessage
  BY <1>1, <1>2, <1>4 DEF MakeMessage, UdpChatTypeOK
<1>5. CASE ForwardNext
  <2>1. PICK d : d = clients_udp[i_udp]
    OBVIOUS
  <2>2. d \in Chatters /\ current \in Chatters /\ arrived[current] > 0
    BY <1>5, <2>1 DEF ForwardNext, UdpChatInv, Members
  <2>3. forwarded' = IF d = current THEN forwarded
                     ELSE [forwarded EXCEPT ![d] = Append(@, <<current, arrived[current]>>)]
    BY <1>5, <2>1 DEF ForwardNext
  <2>4. <<current, arrived[current]>> \in Chatters \X (1..MaxArrivals)
    BY <1>1, <2>2, ArrivalsAssumption
  <2>5. Append(forwarded[d], <<current, arrived[current]>>) \in Seq(Chatters \X (1..MaxArrivals))
    BY <1>1, <2>2, <2>4
  <2>6. \A c \in Chatters : forwarded'[c] \in Seq(Chatters \X (1..MaxArrivals))
    BY <1>1, <2>3, <2>5
  <2>7. i_udp' \in 0..Len(clients_udp) + 1
    BY <1>1, <1>2, <1>5 DEF ForwardNext
  <2>8. UNCHANGED <<clients_udp, upc, current, arrived>>
    BY <1>5 DEF ForwardNext
  <2>9. QED
    BY <2>6, <2>7, <2>8 DEF UdpChatTypeOK
<1>6. CASE ForwardEnds
  BY <1>6 DEF ForwardEnds, UdpChatTypeOK
<1>7. CASE UNCHANGED udpChatVars
  BY <1>7 DEF udpChatVars, UdpChatTypeOK
<1>8. QED
  BY <1>3, <1>4, <1>5, <1>6, <1>7 DEF UdpChatNext

\* Hence on all behaviours, for any chatters.
LEMMA UdpChatInvariance == UdpChatSpec => []UdpChatInv
BY UdpChatStart, UdpChatStep, PTL DEF UdpChatSpec

\* A datagram that arrives lets its sender in, if it is new.
LEMMA ReceiveIsEnter ==
    ASSUME UdpChatInv, NEW c \in Chatters, ReceiveFrom(c)
    PROVE  UdpRoom!Enter(c) \/ UNCHANGED UdpRoom!roomVars
<1>1. UdpSaid' = UdpSaid
  BY DEF UdpSaid, ReceiveFrom, UdpChatInv
<1>2. UdpStream' = UdpStream
  BY DEF UdpStream, StillToHear, ReceiveFrom
<1>3. Members' = Members \cup {c}
  <2>1. CASE c \in Members
    BY <2>1 DEF Members, ReceiveFrom, Added
  <2>2. CASE c \notin Members
    <3>1. PICK N \in Nat : N = Len(clients_udp)
      BY DEF UdpChatInv
    <3>2. clients_udp \in Seq(Chatters) /\ DOMAIN clients_udp = 1..N
      BY <3>1 DEF UdpChatInv
    <3>3. /\ DOMAIN clients_udp' = (1..N) \cup {N + 1}
          /\ clients_udp'[N + 1] = c
          /\ \A j \in 1..N : clients_udp'[j] = clients_udp[j]
      BY <2>2, <3>1, <3>2 DEF ReceiveFrom, Added
    <3>4. QED
      BY <3>2, <3>3 DEF Members
  <2>3. QED
    BY <2>1, <2>2
<1>4. UdpPlace' = IF c \in Members THEN UdpPlace ELSE [UdpPlace EXCEPT ![c] = "inside"]
  BY <1>3 DEF UdpPlace
<1>5. QED
  BY <1>1, <1>2, <1>4 DEF UdpRoom!Enter, UdpRoom!roomVars, UdpPlace

\* The loop over the members begins: its text is said.
LEMMA MessageIsSay ==
    ASSUME UdpChatInv, MakeMessage
    PROVE  UdpRoom!Say(current, 1)
<1>1. /\ current \in Members /\ current \in Chatters /\ arrived[current] \in Nat
      /\ arrived[current] > 0
  BY DEF UdpChatInv, MakeMessage, Members
<1>2. UdpPlace[current] = "inside" /\ UdpPlace' = UdpPlace
  BY <1>1 DEF UdpPlace, MakeMessage, Members
<1>3. UdpSaid[current] = arrived[current] - 1
  BY <1>1 DEF UdpSaid, MakeMessage
<1>4. UdpSaid' = [UdpSaid EXCEPT ![current] = @ + 1]
  <2>1. UdpSaid' = [c \in Chatters |-> arrived[c]]
    BY DEF UdpSaid, MakeMessage
  <2>2. UdpSaid[current] + 1 = arrived[current]
    BY <1>1, <1>3
  <2>3. \A c \in Chatters : c # current => UdpSaid[c] = arrived[c]
    BY DEF UdpSaid
  <2>4. UdpSaid = [c \in Chatters |-> UdpSaid[c]]
    BY DEF UdpSaid
  <2>5. QED
    BY <2>1, <2>2, <2>3, <2>4
<1>5. UdpRoom!Words(current, UdpSaid[current], 1) = <<<<current, arrived[current]>>>>
  <2>1. PICK a \in Nat : a = arrived[current] /\ a > 0
    BY <1>1
  <2>2. [n \in 1..1 |-> <<current, (a - 1) + n>>] = [n \in 1..1 |-> <<current, a>>]
    BY <2>1
  <2>3. PICK w : w = <<current, a>>
    OBVIOUS
  <2>4. [n \in 1..1 |-> w] = <<w>>
    <3>1. /\ [n \in 1..1 |-> w] \in Seq({w}) /\ <<w>> \in Seq({w})
          /\ Len(<<w>>) = 1 /\ Len([n \in 1..1 |-> w]) = 1
          /\ \A n \in 1..1 : [m \in 1..1 |-> w][n] = <<w>>[n]
      OBVIOUS
    <3>2. QED
      BY <3>1, SeqEqual
  <2>5. UdpRoom!Words(current, UdpSaid[current], 1) = [n \in 1..1 |-> <<current, (a - 1) + n>>]
    BY <1>3, <2>1 DEF UdpRoom!Words
  <2>6. QED
    BY <2>1, <2>2, <2>3, <2>4, <2>5
<1>6. ASSUME NEW d \in Chatters
      PROVE  UdpStream'[d] = IF UdpPlace[d] = "inside" /\ d # current
                             THEN UdpStream[d] \o <<<<current, arrived[current]>>>>
                             ELSE UdpStream[d]
  <2>1. UdpStream[d] = forwarded[d]
    BY DEF UdpStream, StillToHear, MakeMessage
  <2>2. StillToHear(d)' <=> d \in Members /\ d # current
    <3>1. DOMAIN clients_udp = 1..Len(clients_udp)
      BY DEF UdpChatInv
    <3>2. QED
      BY <3>1 DEF StillToHear, Members, MakeMessage
  <2>3. UdpStream'[d] = IF StillToHear(d)' THEN Append(forwarded[d], <<current, arrived[current]>>)
                        ELSE forwarded[d]
    BY DEF UdpStream, MakeMessage
  <2>4. Append(forwarded[d], <<current, arrived[current]>>)
          = forwarded[d] \o <<<<current, arrived[current]>>>>
    <3>1. PICK s \in Seq(Chatters \X Nat) : s = forwarded[d]
      BY DEF UdpChatInv
    <3>2. PICK w \in Chatters \X Nat : w = <<current, arrived[current]>>
      BY <1>1
    <3>3. Append(s, w) = s \o <<w>>
      OBVIOUS
    <3>4. QED
      BY <3>1, <3>2, <3>3
  <2>5. UdpPlace[d] = "inside" <=> d \in Members
    BY DEF UdpPlace
  <2>6. QED
    BY <2>1, <2>2, <2>3, <2>4, <2>5
<1>7. UdpStream' = [d \in Chatters |-> UdpStream'[d]]
  BY DEF UdpStream
<1>8. QED
  BY <1>2, <1>4, <1>5, <1>6, <1>7 DEF UdpRoom!Say

\* One sendto, which the mapping has counted already.
LEMMA ForwardIsInvisible ==
    ASSUME UdpChatInv, ForwardNext
    PROVE  UNCHANGED UdpRoom!roomVars
<1>1. UdpPlace' = UdpPlace /\ UdpSaid' = UdpSaid
  BY DEF UdpPlace, UdpSaid, ForwardNext, Members
<1>2. PICK N \in Nat : N = Len(clients_udp)
  BY DEF UdpChatInv
<1>3. /\ upc = "forward" /\ upc' = "forward"
      /\ i_udp \in Nat /\ i_udp' = i_udp + 1
      /\ i_udp \in 1..N /\ DOMAIN clients_udp = 1..N
      /\ UNCHANGED <<clients_udp, current, arrived>>
  BY <1>2 DEF UdpChatInv, ForwardNext
<1>4. ASSUME NEW d \in Chatters
      PROVE  UdpStream'[d] = UdpStream[d]
  <2>1. UdpStream[d] = IF StillToHear(d) THEN Append(forwarded[d], <<current, arrived[current]>>)
                       ELSE forwarded[d]
    BY DEF UdpStream
  <2>2. UdpStream'[d] = IF StillToHear(d)' THEN Append(forwarded'[d], <<current, arrived[current]>>)
                        ELSE forwarded'[d]
    BY <1>3 DEF UdpStream
  <2>3. StillToHear(d) <=> d # current /\ \E k \in i_udp..N : clients_udp[k] = d
    BY <1>2, <1>3 DEF StillToHear
  <2>4. StillToHear(d)' <=> d # current /\ \E k \in i_udp + 1..N : clients_udp[k] = d
    BY <1>2, <1>3 DEF StillToHear
  <2>5. CASE d = clients_udp[i_udp] /\ d # current
    <3>1. forwarded'[d] = Append(forwarded[d], <<current, arrived[current]>>)
      BY <2>5 DEF ForwardNext, UdpChatInv
    <3>2. ASSUME NEW k \in i_udp + 1..N PROVE clients_udp[k] # d
      <4>1. k \in 1..N /\ k # i_udp
        BY <1>3
      <4>2. QED
        BY <1>3, <2>5, <4>1 DEF UdpChatInv
    <3>3. i_udp \in i_udp..N
      BY <1>3
    <3>4. StillToHear(d) /\ ~StillToHear(d)'
      BY <2>3, <2>4, <2>5, <3>2, <3>3
    <3>5. QED
      BY <2>1, <2>2, <3>1, <3>4
  <2>6. CASE ~(d = clients_udp[i_udp] /\ d # current)
    <3>1. forwarded'[d] = forwarded[d]
      BY <2>6 DEF ForwardNext, UdpChatInv
    <3>2. \A k \in i_udp..N : k = i_udp \/ k \in i_udp + 1..N
      BY <1>3
    <3>3. \A k \in i_udp + 1..N : k \in i_udp..N
      BY <1>3
    <3>4. StillToHear(d) <=> StillToHear(d)'
      BY <2>3, <2>4, <2>6, <3>2, <3>3
    <3>5. QED
      BY <2>1, <2>2, <3>1, <3>4
  <2>7. QED
    BY <2>5, <2>6
<1>5. UdpStream' = UdpStream
  BY <1>4 DEF UdpStream
<1>6. QED
  BY <1>1, <1>5 DEF UdpRoom!roomVars

\* The UDP server is the chat room, for any addresses and any arrivals:
\* whoever has sent a datagram hears, in one order, what the others send
\* after it.
THEOREM UdpRoomImplemented == UdpChatSpec => UdpRoomSpec
<1>1. UdpChatInit => UdpRoom!Init
  BY DEF UdpChatInit, UdpRoom!Init, UdpPlace, UdpSaid, UdpStream, StillToHear, Members
<1>2. UdpChatInv /\ [UdpChatNext]_udpChatVars => [UdpRoom!Next]_UdpRoom!roomVars
  <2> SUFFICES ASSUME UdpChatInv, [UdpChatNext]_udpChatVars
               PROVE  UdpRoom!Next \/ UNCHANGED UdpRoom!roomVars
    OBVIOUS
  <2>1. ASSUME NEW c \in Chatters, ReceiveFrom(c)
        PROVE  UdpRoom!Next \/ UNCHANGED UdpRoom!roomVars
    BY <2>1, ReceiveIsEnter DEF UdpRoom!Next
  <2>2. CASE MakeMessage
    <3>1. current \in Chatters /\ 1 \in 1..1
      BY <2>2 DEF UdpChatInv, MakeMessage, Members
    <3>2. QED
      BY <2>2, <3>1, MessageIsSay DEF UdpRoom!Next
  <2>3. CASE ForwardNext
    BY <2>3, ForwardIsInvisible
  <2>4. CASE ForwardEnds
    <3>1. ~\E k \in i_udp..Len(clients_udp) : TRUE
      BY <2>4 DEF ForwardEnds, UdpChatInv
    <3>2. UNCHANGED UdpRoom!roomVars
      BY <2>4, <3>1 DEF ForwardEnds, UdpRoom!roomVars, UdpPlace, UdpSaid, UdpStream, StillToHear, Members
    <3>3. QED
      BY <3>2
  <2>5. CASE UNCHANGED udpChatVars
    BY <2>5 DEF udpChatVars, UdpRoom!roomVars, UdpPlace, UdpSaid, UdpStream, StillToHear, Members
  <2>6. QED
    BY <2>1, <2>2, <2>3, <2>4, <2>5 DEF UdpChatNext
<1>3. QED
  BY <1>1, <1>2, UdpChatInvariance, PTL DEF UdpChatSpec, UdpRoomSpec, UdpRoom!Spec

(***************************************************************************)
(* Netcat and the two servers                                              *)
(* Every step is one of one user or of the server, and the server's touch at *)
(* most the user it serves.                                                *)
(***************************************************************************)

(* What no step of another user touches. *)
Apart(d) ==
    /\ npc'[d] = npc[d] /\ fetched'[d] = fetched[d] /\ left'[d] = left[d] /\ late'[d] = late[d]
    /\ wrote'[d] = wrote[d] /\ taken'[d] = taken[d] /\ told'[d] = told[d] /\ shown'[d] = shown[d]
    /\ fin'[d] = fin[d] /\ local'[d] = local[d] /\ remote'[d] = remote[d]

(* The types that are sets of functions, and the relations at one user. *)
SessionFunctions ==
    /\ wrote \in [Users -> Nat] /\ taken \in [Users -> Nat]
    /\ told \in [Users -> Nat] /\ shown \in [Users -> Nat]
    /\ fin \in [Users -> BOOLEAN]
    /\ local \in [Users -> {"none", "open", "closed"}]
    /\ remote \in [Users -> {"none", "queued", "open", "closed"}]
    /\ npc \in [Users -> {"off", "select", "send", "recv", "done", "aborted"}]
    /\ fetched \in [Users -> Nat] /\ left \in [Users -> 0..RelayMax]
    /\ flagged \in [Users -> BOOLEAN] /\ late \in [Users -> BOOLEAN]

Amounts(c) ==
    /\ taken[c] =< wrote[c] /\ wrote[c] - taken[c] =< LinkBuf
    /\ shown[c] =< told[c] /\ told[c] - shown[c] =< LinkBuf
    /\ fetched[c] =< Len(Typed[c]) /\ (npc[c] = "send" <=> left[c] > 0)

\* What holds of a user goes on holding while others act.
LEMMA ApartKeeps ==
    ASSUME NEW d \in Users, UserInv(d), Apart(d), service' = service,
           goodbye'[d] = goodbye[d], ran'[d] = ran[d], failed \subseteq failed',
           goodbye[d] # 0 => remote[d] = "closed" \/ (spc' = "bye" /\ client' = d),
           spc' = "off" => spc = "off", spc = "dead" => spc' = "dead"
    PROVE  UserInv(d)'
<1>1. TakenRun(d)'
  BY DEF UserInv, Apart, TakenRun, Excused
<1>2. QED
  BY <1>1 DEF UserInv, Apart, Reset, Aborted

\* The constants as numbers.
LEMMA SessionSizes ==
    /\ LinkBuf \in Nat /\ LinkBuf > 0 /\ RelayMax \in Nat
    /\ \A d \in Users : Len(Typed[d]) \in Nat
BY LinkAssumption, RelayAssumption

\* A step of netcat touches the variables of its own user.
LEMMA UserFunctions ==
    ASSUME SessionFunctions, NEW c \in Users, Amounts(c), NetcatStep(c) \/ Breaks(c) \/ Kill(c)
    PROVE  SessionFunctions' /\ \A d \in Users : d # c => Apart(d)
<1>1. CASE ReadStdin(c)
  <2>1. SessionFunctions'
    <3>1. PICK k \in 1..RelayMax : /\ fetched' = [fetched EXCEPT ![c] = @ + k]
                                  /\ left' = [left EXCEPT ![c] = k]
      BY <1>1 DEF ReadStdin
    <3>2. k \in Nat /\ k \in 0..RelayMax
      BY SessionSizes
    <3>3. fetched' \in [Users -> Nat] /\ left' \in [Users -> 0..RelayMax]
      BY <3>1, <3>2 DEF SessionFunctions
    <3>4. PICK b \in BOOLEAN : b = Readable(c)
      BY Zenon DEF Readable
    <3>5. flagged' = [flagged EXCEPT ![c] = b]
      BY <1>1, <3>4, Zenon DEF ReadStdin
    <3>6. flagged' \in [Users -> BOOLEAN]
      BY <3>5 DEF SessionFunctions
    <3>7. npc' \in [Users -> {"off", "select", "send", "recv", "done", "aborted"}]
      BY <1>1 DEF SessionFunctions, ReadStdin
    <3>8. UNCHANGED <<wrote, taken, told, shown, fin, local, remote, late>>
      BY <1>1 DEF ReadStdin, linkVars
    <3>9. QED
      BY <3>3, <3>6, <3>7, <3>8 DEF SessionFunctions
  <2>2. ASSUME NEW d \in Users, d # c PROVE Apart(d)
    BY <1>1, <2>2 DEF SessionFunctions, Apart, ReadStdin, linkVars
  <2>3. QED
    BY <2>1, <2>2
<1>2. CASE EndOfStdin(c)
  <2>1. SessionFunctions'
    BY <1>2, SessionSizes DEF SessionFunctions, EndOfStdin, linkVars
  <2>2. ASSUME NEW d \in Users, d # c PROVE Apart(d)
    BY <1>2, <2>2 DEF SessionFunctions, Apart, EndOfStdin, linkVars
  <2>3. QED
    BY <2>1, <2>2
<1>3. CASE SocketReady(c)
  <2>1. SessionFunctions'
    BY <1>3, SessionSizes DEF SessionFunctions, SocketReady, linkVars
  <2>2. ASSUME NEW d \in Users, d # c PROVE Apart(d)
    BY <1>3, <2>2 DEF SessionFunctions, Apart, SocketReady, linkVars
  <2>3. QED
    BY <2>1, <2>2
<1>4. CASE SendPart(c)
  <2>1. SessionFunctions'
    <3>1. left[c] - 1 \in 0..RelayMax
      BY <1>4, SessionSizes DEF SendPart, SessionFunctions, Amounts
    <3>2. left' \in [Users -> 0..RelayMax] /\ wrote' \in [Users -> Nat]
      BY <1>4, <3>1 DEF SendPart, SessionFunctions
    <3>3. AfterSend(c, left[c] - 1) \in {"send", "recv", "select"}
      BY DEF AfterSend
    <3>4. QED
      BY <1>4, <3>2, <3>3 DEF SessionFunctions, SendPart
  <2>2. ASSUME NEW d \in Users, d # c PROVE Apart(d)
    BY <1>4, <2>2 DEF SessionFunctions, Apart, SendPart, AfterSend, UpFull, linkVars
  <2>3. QED
    BY <2>1, <2>2
<1>5. CASE SendLate(c)
  <2>1. SessionFunctions'
    <3>1. left' \in [Users -> 0..RelayMax] /\ late' \in [Users -> BOOLEAN]
      <4>1. left' = [left EXCEPT ![c] = 0] /\ late' = [late EXCEPT ![c] = TRUE]
        BY <1>5 DEF SendLate, Stops
      <4>2. 0 \in 0..RelayMax
        BY SessionSizes
      <4>3. QED
        BY <4>1, <4>2 DEF SessionFunctions
    <3>2. AfterSend(c, 0) \in {"send", "recv", "select"}
      BY DEF AfterSend
    <3>3. /\ npc' \in [Users -> {"off", "select", "send", "recv", "done", "aborted"}]
          /\ fin' \in [Users -> BOOLEAN] /\ local' \in [Users -> {"none", "open", "closed"}]
      <4>1. PICK a \in {"send", "recv", "select", "done"} : npc' = [npc EXCEPT ![c] = a]
        BY <1>5, <3>2, Zenon DEF SendLate, Stops
      <4>2. /\ fin' = fin \/ fin' = [fin EXCEPT ![c] = TRUE]
            /\ local' = local \/ local' = [local EXCEPT ![c] = "closed"]
        BY <1>5, Zenon DEF SendLate, Stops
      <4>3. npc' \in [Users -> {"off", "select", "send", "recv", "done", "aborted"}]
        BY <4>1 DEF SessionFunctions
      <4>4. QED
        BY <4>2, <4>3 DEF SessionFunctions
    <3>4. QED
      BY <1>5, <3>1, <3>3 DEF SessionFunctions, SendLate
  <2>2. ASSUME NEW d \in Users, d # c PROVE Apart(d)
    BY <1>5, <2>2 DEF SessionFunctions, Apart, SendLate, AfterSend, Stops, linkVars
  <2>3. QED
    BY <2>1, <2>2
<1>6. CASE ShowOutput(c)
  <2>1. SessionFunctions'
    BY <1>6, SessionSizes DEF SessionFunctions, ShowOutput, linkVars
  <2>2. ASSUME NEW d \in Users, d # c PROVE Apart(d)
    BY <1>6, <2>2 DEF SessionFunctions, Apart, ShowOutput, linkVars
  <2>3. QED
    BY <2>1, <2>2
<1>7. CASE EndOfSocket(c)
  <2>1. SessionFunctions'
    BY <1>7, SessionSizes, SMTT(30) DEF SessionFunctions, EndOfSocket, Stops, linkVars
  <2>2. ASSUME NEW d \in Users, d # c PROVE Apart(d)
    BY <1>7, <2>2 DEF SessionFunctions, Apart, EndOfSocket, Stops, linkVars
  <2>3. QED
    BY <2>1, <2>2
<1>8. CASE Kill(c)
  <2>1. SessionFunctions'
    BY <1>8, SessionSizes, SMTT(30) DEF SessionFunctions, Kill, Stops, linkVars
  <2>2. ASSUME NEW d \in Users, d # c PROVE Apart(d)
    BY <1>8, <2>2 DEF SessionFunctions, Apart, Kill, Stops, linkVars
  <2>3. QED
    BY <2>1, <2>2
<1>9. CASE Breaks(c)
  <2>1. SessionFunctions'
    <3>1. PICK k \in Nat : shown' = [shown EXCEPT ![c] = k]
      <4>1. CASE UNCHANGED shown
        <5>1. shown[c] \in Nat /\ shown' = [shown EXCEPT ![c] = shown[c]]
          BY <4>1 DEF SessionFunctions
        <5>2. QED
          BY <5>1
      <4>2. CASE \E k \in shown[c]..(told[c] - 1) : shown' = [shown EXCEPT ![c] = k]
        <5>1. shown[c] \in Nat
          BY DEF SessionFunctions
        <5>2. \A k \in shown[c]..(told[c] - 1) : k \in Nat
          BY <5>1
        <5>3. QED
          BY <4>2, <5>2
      <4>3. QED
        BY <1>9, <4>1, <4>2, Zenon DEF Breaks
    <3>2. shown' \in [Users -> Nat]
      BY <3>1 DEF SessionFunctions
    <3>3. 0 \in 0..RelayMax
      BY SessionSizes
    <3>4. QED
      BY <1>9, <3>2, <3>3 DEF SessionFunctions, Breaks, Stops
  <2>2. ASSUME NEW d \in Users, d # c PROVE Apart(d)
    <3>1. shown'[d] = shown[d]
      BY <1>9, <2>2 DEF SessionFunctions, Breaks
    <3>2. QED
      BY <1>9, <2>2, <3>1 DEF SessionFunctions, Apart, Breaks, Stops
  <2>3. QED
    BY <2>1, <2>2
<1>10. QED
  BY <1>1, <1>2, <1>3, <1>4, <1>5, <1>6, <1>7, <1>8, <1>9 DEF NetcatStep

\* netcat keeps the relations between what was typed, sent, read and printed.
LEMMA UserStep ==
    ASSUME SessionFunctions, NEW c \in Users, Amounts(c), UserInv(c), NetcatStep(c) \/ Breaks(c) \/ Kill(c),
           UNCHANGED serverVars
    PROVE  Amounts(c)' /\ UserInv(c)'
<1>0. TakenRun(c)'
  <2>1. taken' = taken
    BY DEF NetcatStep, ReadStdin, EndOfStdin, SocketReady, SendPart, SendLate, ShowOutput,
           EndOfSocket, Breaks, Kill, linkVars
  <2>2. QED
    BY <2>1 DEF UserInv, TakenRun, Excused, serverVars, heard
<1>1. CASE ReadStdin(c)
  <2>1. Amounts(c)'
    BY <1>1, SessionSizes DEF SessionFunctions, Amounts, ReadStdin, linkVars
  <2>2. UserInv(c)'
    BY <1>0, <1>1, SessionSizes DEF SessionFunctions, Amounts, UserInv, Reset, Aborted, serverVars, heard, ReadStdin, linkVars
  <2>3. QED
    BY <2>1, <2>2
<1>2. CASE EndOfStdin(c)
  <2>1. Amounts(c)'
    BY <1>2, SessionSizes DEF SessionFunctions, Amounts, EndOfStdin, linkVars
  <2>2. UserInv(c)'
    BY <1>0, <1>2, SessionSizes DEF SessionFunctions, Amounts, UserInv, Reset, Aborted, serverVars, heard, EndOfStdin, linkVars
  <2>3. QED
    BY <2>1, <2>2
<1>3. CASE SocketReady(c)
  <2>1. Amounts(c)'
    BY <1>3, SessionSizes DEF SessionFunctions, Amounts, SocketReady, linkVars
  <2>2. UserInv(c)'
    BY <1>0, <1>3, SessionSizes DEF SessionFunctions, Amounts, UserInv, Reset, Aborted, serverVars, heard, SocketReady, linkVars
  <2>3. QED
    BY <2>1, <2>2
<1>4. CASE SendPart(c)
  <2>1. Amounts(c)'
    BY SMTT(30), <1>4, SessionSizes DEF SessionFunctions, Amounts, SendPart, AfterSend, UpFull, linkVars
  <2>2. UserInv(c)'
    BY SMTT(30), <1>0, <1>4, SessionSizes DEF SessionFunctions, Amounts, UserInv, Reset, Aborted, serverVars, heard, SendPart, AfterSend, UpFull, linkVars
  <2>3. QED
    BY <2>1, <2>2
<1>5. CASE SendLate(c)
  <2>1. Amounts(c)'
    BY <1>5, SessionSizes DEF SessionFunctions, Amounts, SendLate, AfterSend, Stops, linkVars
  <2>2. UserInv(c)'
    BY <1>0, <1>5, SessionSizes DEF SessionFunctions, Amounts, UserInv, Reset, Aborted, serverVars, heard, SendLate, AfterSend, Stops, linkVars
  <2>3. QED
    BY <2>1, <2>2
<1>6. CASE ShowOutput(c)
  <2>1. Amounts(c)'
    BY <1>6, SessionSizes DEF SessionFunctions, Amounts, ShowOutput, linkVars
  <2>2. UserInv(c)'
    BY <1>0, <1>6, SessionSizes DEF SessionFunctions, Amounts, UserInv, Reset, Aborted, serverVars, heard, ShowOutput, linkVars
  <2>3. QED
    BY <2>1, <2>2
<1>7. CASE EndOfSocket(c)
  <2>1. Amounts(c)'
    BY <1>7, SessionSizes DEF SessionFunctions, Amounts, EndOfSocket, Stops, linkVars
  <2>2. UserInv(c)'
    BY <1>0, <1>7, SessionSizes DEF SessionFunctions, Amounts, UserInv, Reset, Aborted, serverVars, heard, EndOfSocket, Stops, linkVars
  <2>3. QED
    BY <2>1, <2>2
<1>8. CASE Kill(c)
  <2>1. Amounts(c)'
    BY <1>8, SessionSizes DEF SessionFunctions, Amounts, Kill, Stops, linkVars
  <2>2. UserInv(c)'
    BY <1>0, <1>8, SessionSizes DEF SessionFunctions, Amounts, UserInv, Reset, Aborted, serverVars, heard, Kill, Stops, linkVars
  <2>3. QED
    BY <2>1, <2>2
<1>9. CASE Breaks(c)
  <2>1. Amounts(c)'
    <3>1. CASE UNCHANGED shown
      BY <1>9, <3>1, SessionSizes DEF SessionFunctions, Amounts, Breaks, Stops
    <3>2. CASE \E k \in shown[c]..(told[c] - 1) : shown' = [shown EXCEPT ![c] = k]
      <4>1. PICK k \in shown[c]..(told[c] - 1) : shown' = [shown EXCEPT ![c] = k]
        BY <3>2
      <4>2. /\ k \in Nat /\ shown[c] \in Nat /\ told[c] \in Nat
            /\ shown'[c] = k /\ told'[c] = told[c]
        BY <1>9, <4>1 DEF SessionFunctions, Breaks
      <4>3. shown'[c] =< told'[c] /\ told'[c] - shown'[c] =< LinkBuf
        BY <4>1, <4>2, SessionSizes DEF Amounts
      <4>4. QED
        BY <1>9, <4>3, SessionSizes DEF SessionFunctions, Amounts, Breaks, Stops
    <3>3. QED
      BY <1>9, <3>1, <3>2, Zenon DEF Breaks
  <2>2. UserInv(c)'
    <3>1. npc[c] \in {"select", "recv"} /\ npc'[c] = "aborted" /\ local'[c] = "closed"
      BY <1>9 DEF SessionFunctions, Breaks, Stops
    <3>2. UNCHANGED <<wrote, taken, told, remote, fetched, flagged, late>>
      BY <1>9 DEF Breaks
    <3>3. QED
      BY <1>0, <3>1, <3>2 DEF UserInv, Aborted, Reset, serverVars, heard
  <2>3. QED
    BY <2>1, <2>2
<1>10. QED
  BY <1>1, <1>2, <1>3, <1>4, <1>5, <1>6, <1>7, <1>8, <1>9 DEF NetcatStep

\* connect() opens a stream nothing has gone through.
LEMMA ConnectStep ==
    ASSUME SessionFunctions, NEW c \in Users, Amounts(c), UserInv(c), Connect(c, Listening),
           UNCHANGED serverVars
    PROVE  /\ SessionFunctions' /\ Amounts(c)' /\ UserInv(c)'
           /\ \A d \in Users : d # c => Apart(d)
<1>1. SessionFunctions'
  BY DEF SessionFunctions, Connect
<1>2. ASSUME NEW d \in Users, d # c PROVE Apart(d)
  BY <1>2 DEF SessionFunctions, Apart, Connect
<1>3. Amounts(c)'
  BY DEF SessionFunctions, Amounts, Connect
<1>4. wrote[c] + left[c] = fetched[c]
  BY SessionSizes DEF SessionFunctions, UserInv, Connect
<1>5. shown[c] = told[c]
  BY DEF SessionFunctions, Amounts, UserInv, Connect
<1>6. UserInv(c)'
  <2>1. TakenRun(c)'
    BY DEF UserInv, TakenRun, Excused, serverVars, heard, Connect
  <2>2. QED
    BY <1>4, <1>5, <2>1 DEF SessionFunctions, UserInv, Reset, Aborted, serverVars, heard, Connect
<1>7. QED
  BY <1>1, <1>2, <1>3, <1>6

\* The type invariants of the three modules, taken apart.
LEMMA TypeParts ==
    /\ SessionTypeOK <=> SessionFunctions /\ ServerTypeOK /\ \A c \in Users : Amounts(c)
    /\ SessionTypeOK' <=> SessionFunctions' /\ ServerTypeOK' /\ \A c \in Users : Amounts(c)'
BY DEF SessionTypeOK, LinkTypeOK, NetcatTypeOK, SessionFunctions, Amounts

\* A step of one user.
LEMMA UserKeeps ==
    ASSUME SessionInv, NEW c \in Users, UNCHANGED serverVars,
           Connect(c, Listening) \/ NetcatStep(c) \/ Breaks(c) \/ Kill(c)
    PROVE  SessionInv'
<1>1. /\ SessionFunctions /\ ServerTypeOK /\ Amounts(c) /\ UserInv(c)
      /\ \A d \in Users : Amounts(d) /\ UserInv(d)
  BY TypeParts DEF SessionInv
<1>2. /\ SessionFunctions' /\ Amounts(c)' /\ UserInv(c)'
      /\ \A d \in Users : d # c => Apart(d)
  BY <1>1, ConnectStep, UserFunctions, UserStep
<1>3. ASSUME NEW d \in Users PROVE Amounts(d)' /\ UserInv(d)'
  <2>1. CASE d = c
    BY <1>2, <2>1
  <2>2. CASE d # c
    <3>1. Apart(d)
      BY <1>2, <2>2
    <3>2. UserInv(d)'
      <4>1. goodbye[d] # 0 => remote[d] = "closed" \/ (spc = "bye" /\ client = d)
        BY <1>1 DEF UserInv
      <4>2. QED
        BY <1>1, <3>1, <4>1, ApartKeeps DEF serverVars, heard
    <3>3. Amounts(d)'
      BY <1>1, <3>1 DEF Apart, Amounts
    <3>4. QED
      BY <3>2, <3>3
  <2>3. QED
    BY <2>1, <2>2
<1>4. npc[c] # "aborted" /\ (remote'[c] = "open" <=> remote[c] = "open")
  BY <1>1 DEF SessionFunctions, NetcatStep, Connect, ReadStdin, EndOfStdin, SocketReady, SendPart,
              SendLate, ShowOutput, EndOfSocket, Breaks, Kill, linkVars, UserInv, Aborted
<1>5. \A d \in Users : remote'[d] = "open" <=> remote[d] = "open"
  BY <1>2, <1>4 DEF Apart
<1>6. ServerTypeOK'
  BY <1>1, <1>5 DEF ServerTypeOK, serverVars, heard
<1>7. DeathNeedsAbort'
  <2>1. \A d \in Users : npc[d] = "aborted" => npc'[d] = "aborted"
    BY <1>2, <1>4 DEF Apart
  <2>2. QED
    BY <2>1 DEF SessionInv, DeathNeedsAbort, Aborted, serverVars, heard
<1>8. SessionTypeOK'
  BY <1>2, <1>3, <1>6, TypeParts
<1>9. QED
  BY <1>3, <1>7, <1>8 DEF SessionInv, serverVars, heard

\* What understanding a chunk does to the history: more is run, more has failed,
\* and nothing is forgotten.
LEMMA UnderstandKeeps ==
    ASSUME ServerTypeOK, SessionFunctions, client \in Users, NEW chunk, Understand(chunk)
    PROVE  /\ owed' \in Nat /\ spc' \in {"reply", "bye"}
           /\ ran' \in [Users -> SUBSET Nat] /\ goodbye' \in [Users -> Nat]
           /\ failed' \subseteq Users /\ failed \subseteq failed'
           /\ \A d \in Users : ran[d] \subseteq ran'[d]
           /\ \A d \in Users \ {client} : ran'[d] = ran[d] /\ goodbye'[d] = goodbye[d]
<1>0. /\ ran \in [Users -> SUBSET Nat] /\ goodbye \in [Users -> Nat] /\ failed \subseteq Users
      /\ taken[client] \in Nat
  BY DEF ServerTypeOK, SessionFunctions
<1>1. CASE /\ spc' = "bye" /\ owed' = 1 /\ ran' = ran /\ failed' = failed
           /\ goodbye' = [goodbye EXCEPT ![client] = taken[client] + 1]
  BY <1>0, <1>1
<1>2. CASE /\ spc' = "reply" /\ owed' = 1 /\ ran' = ran /\ goodbye' = goodbye
           /\ failed' = failed \/ failed' = failed \cup {client}
  BY <1>0, <1>2
<1>3. CASE /\ spc' = "reply" /\ owed' \in Outputs /\ goodbye' = goodbye /\ failed' = failed
           /\ ran' = [ran EXCEPT ![client] = @ \cup {taken[client] + i : i \in Run(chunk)}]
  <2>1. PICK more \in SUBSET Nat : more = {taken[client] + i : i \in Run(chunk)}
    <3>1. Run(chunk) \subseteq Nat
      BY DEF Run
    <3>2. {taken[client] + i : i \in Run(chunk)} \subseteq Nat
      BY <1>0, <3>1
    <3>3. QED
      BY <3>2
  <2>2. ran' = [ran EXCEPT ![client] = ran[client] \cup more]
    BY <1>3, <2>1, Zenon
  <2>3. /\ ran' \in [Users -> SUBSET Nat]
        /\ \A d \in Users : ran[d] \subseteq ran'[d] /\ (d # client => ran'[d] = ran[d])
    BY <1>0, <2>2
  <2>4. owed' \in Nat
    BY <1>3, OutputsAssumption
  <2>5. QED
    BY <1>0, <1>3, <2>3, <2>4
<1>4. QED
  BY <1>1, <1>2, <1>3, ZenonT(30) DEF Understand

\* The server's steps touch at most the user it serves.
LEMMA ServerFunctions ==
    ASSUME SessionInv, ServerStep, UNCHANGED netcatVars
    PROVE  SessionFunctions' /\ ServerTypeOK' /\ UNCHANGED <<service, wrote, shown, fin, local, netcatVars>>
<1>1. SessionFunctions /\ ServerTypeOK
  BY TypeParts DEF SessionInv
<1>2. CASE AcceptAndGreet
  <2>1. SessionFunctions'
    BY <1>1, <1>2 DEF SessionFunctions, AcceptAndGreet, netcatVars
  <2>2. QED
    BY <1>1, <1>2, <2>1, NoUserAssumption DEF SessionFunctions, ServerTypeOK, AcceptAndGreet, heard
<1>3. CASE SendMore
  <2>0. client \in Users
    BY <1>1, <1>3 DEF ServerTypeOK, SendMore, heard
  <2>1. SessionFunctions'
    BY <1>1, <1>3, <2>0 DEF SessionFunctions, SendMore, netcatVars
  <2>2. QED
    BY <1>1, <1>3, <2>1 DEF ServerTypeOK, SendMore, heard
<1>4. CASE SendToNobody
  <2>1. SessionFunctions'
    BY <1>1, <1>4 DEF SessionFunctions, SendToNobody, netcatVars
  <2>2. QED
    BY <1>1, <1>4, <2>1 DEF SessionFunctions, ServerTypeOK, SendToNobody, heard
<1>5. CASE SendReturned
  <2>1. SessionFunctions'
    BY <1>1, <1>5 DEF SessionFunctions, SendReturned, CloseClient, netcatVars
  <2>2. QED
    BY <1>1, <1>5, <2>1 DEF SessionFunctions, ServerTypeOK, SendReturned, CloseClient, heard
<1>6. CASE ServerRecv
  <2>1. SessionFunctions'
    BY <1>1, <1>6 DEF SessionFunctions, ServerTypeOK, ServerRecv, CloseClient, netcatVars
  <2>2. /\ client \in Users /\ UNCHANGED <<service, wrote, told, shown, fin, local>>
        /\ \/ CloseClient /\ UNCHANGED heard
           \/ \E chunk : Understand(chunk) /\ UNCHANGED <<client, remote>>
    BY <1>1, <1>6, Zenon DEF ServerTypeOK, ServerRecv
  <2>3. CASE CloseClient /\ UNCHANGED heard
    BY <1>1, <2>1, <2>2, <2>3 DEF SessionFunctions, ServerTypeOK, CloseClient, heard
  <2>4. CASE \E chunk : Understand(chunk) /\ UNCHANGED <<client, remote>>
    <3>1. PICK chunk : Understand(chunk) /\ UNCHANGED <<client, remote>>
      BY <2>4
    <3>2. /\ owed' \in Nat /\ spc' \in {"reply", "bye"}
          /\ ran' \in [Users -> SUBSET Nat] /\ goodbye' \in [Users -> Nat]
          /\ failed' \subseteq Users
      BY <1>1, <2>2, <3>1, UnderstandKeeps
    <3>3. remote[client] = "open"
      BY <1>1, <1>6 DEF ServerTypeOK, ServerRecv
    <3>4. ServerTypeOK'
      BY <1>1, <2>2, <3>1, <3>2, <3>3 DEF ServerTypeOK
    <3>5. QED
      BY <2>1, <2>2, <3>4
  <2>5. QED
    BY <2>2, <2>3, <2>4
<1>7. CASE ServerRecvEnds
  <2>1. SessionFunctions'
    BY <1>1, <1>7 DEF SessionFunctions, ServerRecvEnds, CloseClient, netcatVars
  <2>2. QED
    BY <1>1, <1>7, <2>1 DEF SessionFunctions, ServerTypeOK, ServerRecvEnds, CloseClient, heard
<1>8. QED
  BY <1>2, <1>3, <1>4, <1>5, <1>6, <1>7 DEF ServerStep

\* A chunk as a part of what the user types.
LEMMA ChunkLines ==
    ASSUME NEW c \in Users, NEW t \in Nat, NEW k \in Nat, t + k =< Len(Typed[c]),
           NEW chunk, chunk = SubSeq(Typed[c], t + 1, t + k)
    PROVE  Len(chunk) = k /\ \A m \in 1..k : chunk[m] = Typed[c][t + m]
<1>1. \A i \in (t + 1)..(t + k) : Typed[c][i] \in STRING
  <2>1. Typed[c] \in Seq(STRING) /\ Len(Typed[c]) \in Nat
    BY LinkAssumption
  <2>2. ASSUME NEW i \in (t + 1)..(t + k) PROVE i \in 1..Len(Typed[c])
    BY <2>1
  <2>3. QED
    BY <2>1, <2>2, ElementOfSeq
<1>2. t + 1 \in Int /\ t + k \in Int /\ (t + k) - (t + 1) + 1 = k /\ (t + 1 =< t + k <=> k > 0)
  OBVIOUS
<1>3. /\ Len(chunk) = IF t + 1 =< t + k THEN (t + k) - (t + 1) + 1 ELSE 0
      /\ \A i \in 1..((t + k) - (t + 1) + 1) : chunk[i] = Typed[c][t + 1 + i - 1]
  BY <1>1, <1>2, SubSeqProperties
<1>4. Len(chunk) = k
  BY <1>2, <1>3
<1>5. ASSUME NEW m \in 1..k PROVE chunk[m] = Typed[c][t + m]
  <2>1. t + 1 + m - 1 = t + m
    OBVIOUS
  <2>2. QED
    BY <1>2, <1>3, <2>1
<1>6. QED
  BY <1>4, <1>5

\* Every line of a chunk is run, or excused: it is the exit that is understood,
\* has one before it, is refused with the rest, or popen has failed.
LEMMA ChunkRun ==
    ASSUME SessionFunctions, ServerTypeOK, client \in Users, TakenRun(client), goodbye[client] = 0,
           NEW k \in 1..RecvLines, taken[client] + k =< Len(Typed[client]),
           taken' = [taken EXCEPT ![client] = @ + k], client' = client, service' = service,
           Understand(SubSeq(Typed[client], taken[client] + 1, taken[client] + k))
    PROVE  TakenRun(client)' /\ (goodbye'[client] # 0 => taken'[client] = goodbye'[client])
<1> DEFINE chunk == SubSeq(Typed[client], taken[client] + 1, taken[client] + k)
<1>1. PICK t \in Nat : t = taken[client] /\ taken'[client] = t + k
  BY DEF SessionFunctions
<1>2. k \in Nat /\ k > 0 /\ k =< RecvLines /\ RecvLines \in Nat /\ t + k =< Len(Typed[client])
  BY <1>1, OutputsAssumption
<1>3. Len(chunk) = k /\ \A m \in 1..k : chunk[m] = Typed[client][t + m]
  <2>1. chunk = SubSeq(Typed[client], t + 1, t + k)
    BY <1>1
  <2> HIDE DEF chunk
  <2>2. QED
    BY <1>2, <2>1, ChunkLines
<1>4. Understand(chunk)
  OBVIOUS
<1> HIDE DEF chunk
<1>5. failed \subseteq failed' /\ ran[client] \subseteq ran'[client]
  BY <1>4, UnderstandKeeps
<1>6. goodbye'[client] # 0 => k = 1 /\ goodbye'[client] = t + 1
  <2>1. CASE chunk = <<"exit">> /\ goodbye' = [goodbye EXCEPT ![client] = taken[client] + 1]
    <3>1. Len(chunk) = 1
      BY <2>1
    <3>2. QED
      BY <1>1, <1>3, <2>1, <3>1 DEF ServerTypeOK
  <2>2. CASE UNCHANGED goodbye
    BY <2>2
  <2>3. QED
    BY <1>4, <2>1, <2>2, Zenon DEF Understand
<1>7. ASSUME NEW i \in 1..t, service = "shell", client \notin failed'
      PROVE  i \in ran'[client] \/ Excused(client, i)'
  <2>1. i \in ran[client] \/ Excused(client, i)
    BY <1>1, <1>5, <1>7 DEF TakenRun
  <2>2. CASE i \in ran[client]
    BY <1>5, <2>2
  <2>3. CASE Excused(client, i)
    <3>1. ~(goodbye[client] \in 1..i)
      OBVIOUS
    <3>2. QED
      BY <2>3, <3>1, Zenon DEF Excused
  <2>4. QED
    BY <2>1, <2>2, <2>3
<1>8. ASSUME NEW m \in 1..k, client \notin failed'
      PROVE  t + m \in ran'[client] \/ Excused(client, t + m)'
  <2>1. PICK i \in Nat : i = t + m
    OBVIOUS
  <2>2. CASE chunk = <<"exit">> /\ goodbye' = [goodbye EXCEPT ![client] = taken[client] + 1]
    <3>1. goodbye'[client] = t + 1
      BY <1>1, <2>2 DEF ServerTypeOK
    <3>2. goodbye'[client] \in 1..i
      BY <2>1, <3>1
    <3>3. QED
      BY <2>1, <3>2 DEF Excused
  <2>3. CASE \E j \in 1..Len(chunk) : chunk[j] = "rm -rf"
    <3>1. PICK j \in 1..k : chunk[j] = "rm -rf"
      BY <1>3, <2>3
    <3>2. PICK n \in 1..Len(Typed[client]) : n = t + j
      BY <1>2, SessionSizes
    <3>3. Typed[client][n] = "rm -rf"
      BY <1>3, <3>1, <3>2
    <3>4. i < n + RecvLines /\ n < i + RecvLines
      BY <1>2, <2>1, <3>2
    <3>5. Excused(client, i)'
      BY <3>3, <3>4 DEF Excused
    <3>6. QED
      BY <2>1, <3>5
  <2>4. CASE failed' = failed \cup {client}
    BY <1>8, <2>4
  <2>5. CASE ran' = [ran EXCEPT ![client] = @ \cup {taken[client] + q : q \in Run(chunk)}]
    <3>1. CASE m \in Run(chunk)
      BY <1>1, <2>5, <3>1 DEF ServerTypeOK
    <3>2. CASE m \notin Run(chunk)
      <4>1. PICK j \in 1..(m - 1) : chunk[j] = "exit"
        BY <1>3, <3>2 DEF Run
      <4>2. PICK n \in 1..(i - 1) : n = t + j
        BY <2>1
      <4>3. Typed[client][n] = "exit"
        BY <1>3, <4>1, <4>2
      <4>4. i < n + RecvLines
        BY <1>2, <2>1, <4>2
      <4>5. Excused(client, i)'
        BY <4>3, <4>4 DEF Excused
      <4>6. QED
        BY <2>1, <4>5
    <3>3. QED
      BY <3>1, <3>2
  <2>6. QED
    BY <1>4, <2>2, <2>3, <2>4, <2>5, Zenon DEF Understand
<1>9. ASSUME NEW i \in 1..(t + k), service = "shell", client \notin failed'
      PROVE  i \in ran'[client] \/ Excused(client, i)'
  <2>1. CASE i \in 1..t
    BY <1>7, <1>9, <2>1
  <2>2. CASE i \notin 1..t
    <3>1. PICK m \in 1..k : i = t + m
      <4>1. i - t \in 1..k /\ i = t + (i - t)
        BY <2>2
      <4>2. QED
        BY <4>1
    <3>2. QED
      BY <1>8, <1>9, <3>1
  <2>3. QED
    BY <2>1, <2>2
<1>10. QED
  BY <1>1, <1>6, <1>9 DEF TakenRun

\* A step of the server.
LEMMA ServerKeeps ==
    ASSUME SessionInv, ServerStep, UNCHANGED netcatVars
    PROVE  SessionInv'
<1>0. /\ SessionFunctions /\ ServerTypeOK /\ \A d \in Users : Amounts(d) /\ UserInv(d)
      /\ spc = "bye" => goodbye[client] # 0
  BY TypeParts DEF SessionInv
<1>1. /\ SessionFunctions' /\ ServerTypeOK'
      /\ UNCHANGED <<service, wrote, shown, fin, local, npc, fetched, left, late>>
  BY ServerFunctions DEF netcatVars
<1>2. /\ failed \subseteq failed'
      /\ \A d \in Users : ran[d] \subseteq ran'[d]
      /\ \A d \in Users \ {client} : ran'[d] = ran[d] /\ goodbye'[d] = goodbye[d]
  <2>1. CASE ServerRecv
    <3>1. CASE UNCHANGED heard
      BY <3>1 DEF heard
    <3>2. CASE \E chunk : Understand(chunk)
      <4>1. client \in Users
        BY <1>0, <2>1 DEF ServerTypeOK, ServerRecv
      <4>2. QED
        BY <1>0, <3>2, <4>1, UnderstandKeeps
    <3>3. QED
      BY <2>1, <3>1, <3>2, Zenon DEF ServerRecv
  <2>2. CASE ~ServerRecv
    <3>1. UNCHANGED heard
      BY <2>2, Zenon DEF ServerStep, AcceptAndGreet, SendMore, SendToNobody, SendReturned, ServerRecvEnds
    <3>2. QED
      BY <3>1 DEF heard
  <2>3. QED
    BY <2>1, <2>2
<1>3. ASSUME NEW d \in Users
      PROVE  Amounts(d)'
  <2>1. CASE SendMore
    <3>1. client \in Users
      BY <1>0, <2>1 DEF ServerTypeOK, SendMore
    <3>2. /\ told' = [told EXCEPT ![client] = @ + 1] /\ taken' = taken
          /\ ~DownFull(client)
      BY <2>1 DEF SendMore
    <3>3. CASE d # client
      BY <1>0, <1>1, <3>2, <3>3 DEF SessionFunctions, Amounts
    <3>4. CASE d = client
      <4>1. /\ told[d] \in Nat /\ shown[d] \in Nat /\ told'[d] = told[d] + 1
            /\ shown'[d] = shown[d] /\ told[d] - shown[d] # LinkBuf
        BY <1>0, <1>1, <3>1, <3>2, <3>4, SessionSizes DEF DownFull, SessionFunctions
      <4>2. /\ shown'[d] =< told'[d] /\ told'[d] - shown'[d] =< LinkBuf
        BY <1>0, <4>1, SessionSizes DEF Amounts
      <4>3. QED
        BY <1>0, <1>1, <3>2, <4>2 DEF Amounts
    <3>5. QED
      BY <3>3, <3>4
  <2>2. CASE ServerRecv
    <3>1. client \in Users
      BY <1>0, <2>2 DEF ServerTypeOK, ServerRecv
    <3>2. PICK k \in 1..RecvLines :
            /\ taken[client] + k =< wrote[client]
            /\ taken' = [taken EXCEPT ![client] = @ + k]
      BY <2>2 DEF ServerRecv
    <3>3. k \in Nat /\ told' = told
      BY <2>2, <3>2, OutputsAssumption DEF ServerRecv
    <3>4. CASE d # client
      BY <1>0, <1>1, <3>2, <3>3, <3>4 DEF SessionFunctions, Amounts
    <3>5. CASE d = client
      BY SMTT(30), <1>0, <1>1, <3>1, <3>2, <3>3, <3>5, SessionSizes DEF SessionFunctions, Amounts
    <3>6. QED
      BY <3>4, <3>5
  <2>3. CASE told' = told /\ taken' = taken
    BY <1>0, <1>1, <2>3 DEF Amounts
  <2>4. QED
    BY <2>1, <2>2, <2>3
    DEF ServerStep, AcceptAndGreet, SendToNobody, SendReturned, ServerRecvEnds
<1>4. ASSUME NEW d \in Users
      PROVE  UserInv(d)'
  <2>0. ASSUME UNCHANGED <<heard, taken>>
        PROVE  TakenRun(d)' /\ UNCHANGED <<ran, goodbye, failed, taken>>
    BY <1>0, <1>1, <2>0 DEF UserInv, TakenRun, Excused, heard
  <2>1. CASE AcceptAndGreet
    <3>1. TakenRun(d)' /\ UNCHANGED <<ran, goodbye, failed, taken>>
      BY <2>0, <2>1 DEF AcceptAndGreet
    <3>2. QED
      BY <1>0, <1>1, <2>1, <3>1 DEF AcceptAndGreet, SessionFunctions, UserInv, Reset, Aborted
  <2>2. CASE SendMore
    <3>1. TakenRun(d)' /\ UNCHANGED <<ran, goodbye, failed, taken>>
      BY <2>0, <2>2 DEF SendMore
    <3>2. QED
      BY SMTT(30), <1>0, <1>1, <2>2, <3>1 DEF SendMore, SessionFunctions, ServerTypeOK, UserInv, Reset, Aborted
  <2>3. CASE SendToNobody
    <3>1. TakenRun(d)' /\ UNCHANGED <<ran, goodbye, failed, taken>>
      BY <2>0, <2>3 DEF SendToNobody
    <3>2. QED
      BY SMTT(60), <1>0, <1>1, <2>3, <3>1
      DEF SendToNobody, SessionFunctions, ServerTypeOK, UserInv, Reset, Aborted
  <2>4. CASE SendReturned
    <3>1. TakenRun(d)' /\ UNCHANGED <<ran, goodbye, failed, taken>>
      BY <2>0, <2>4 DEF SendReturned
    <3>2. QED
      BY SMTT(30), <1>0, <1>1, <2>4, <3>1
      DEF SendReturned, CloseClient, SessionFunctions, ServerTypeOK, UserInv, Reset, Aborted
  <2>5. CASE ServerRecv
    <3>1. /\ client \in Users /\ remote[client] = "open" /\ spc = "recv"
          /\ \A u \in Users : goodbye[u] # 0 => remote[u] = "closed"
      BY <1>0, <2>5 DEF ServerTypeOK, ServerRecv, UserInv
    <3>2. PICK k \in 1..RecvLines :
            /\ taken[client] + k =< wrote[client]
            /\ taken' = [taken EXCEPT ![client] = @ + k]
            /\ IF service = "welcome"
               THEN CloseClient /\ UNCHANGED heard
               ELSE /\ Understand(SubSeq(Typed[client], taken[client] + 1, taken[client] + k))
                    /\ UNCHANGED <<client, remote>>
      BY <2>5, Zenon DEF ServerRecv
    <3>3. /\ told' = told /\ spc' \notin {"off", "dead"}
          /\ \/ remote' = remote
             \/ remote' = [remote EXCEPT ![client] = "closed"] /\ service = "welcome"
      BY <2>5 DEF ServerRecv, Understand, CloseClient
    <3>4. CASE d # client
      <4>1. UserInv(d)
        BY <1>0
      <4>2. /\ taken'[d] = taken[d] /\ told'[d] = told[d] /\ remote'[d] = remote[d]
            /\ wrote'[d] = wrote[d] /\ shown'[d] = shown[d] /\ fin'[d] = fin[d]
            /\ local'[d] = local[d] /\ npc'[d] = npc[d] /\ fetched'[d] = fetched[d]
            /\ left'[d] = left[d] /\ late'[d] = late[d] /\ service' = service
        BY <1>0, <1>1, <3>2, <3>3, <3>4 DEF SessionFunctions
      <4>3. Apart(d)
        BY <4>2 DEF Apart
      <4>4. QED
        BY <1>2, <3>1, <3>3, <3>4, <4>1, <4>2, <4>3, ApartKeeps
    <3>5. CASE d = client
      <4>1. taken[d] + k =< Len(Typed[d]) /\ taken'[d] = taken[d] + k /\ goodbye[d] = 0
        <5>1. wrote[d] =< fetched[d] /\ fetched[d] =< Len(Typed[d]) /\ goodbye[d] = 0
          BY <1>0, <3>1, <3>5 DEF UserInv, Amounts
        <5>2. wrote[d] \in Nat /\ fetched[d] \in Nat /\ taken[d] \in Nat /\ k \in Nat
          BY <1>0 DEF SessionFunctions
        <5>3. taken[d] + k =< Len(Typed[d])
          BY <3>2, <3>5, <5>1, <5>2, SessionSizes
        <5>4. taken'[d] = taken[d] + k
          BY <1>0, <3>2, <3>5 DEF SessionFunctions
        <5>5. QED
          BY <5>1, <5>3, <5>4
      <4>2. TakenRun(d)' /\ (goodbye'[d] # 0 => taken'[d] = goodbye'[d] /\ spc' = "bye" /\ client' = d)
        <5>1. CASE service = "welcome"
          BY <1>1, <3>2, <4>1, <5>1 DEF TakenRun, heard
        <5>2. CASE service # "welcome"
          <6>1. /\ Understand(SubSeq(Typed[client], taken[client] + 1, taken[client] + k))
                /\ client' = client
            BY <3>2, <5>2, Zenon
          <6>2. TakenRun(client)
            BY <1>0, <3>1 DEF UserInv
          <6>3. TakenRun(d)' /\ (goodbye'[d] # 0 => taken'[d] = goodbye'[d])
            BY <1>0, <1>1, <3>1, <3>2, <3>5, <4>1, <6>1, <6>2, ChunkRun
          <6>4. spc' = "bye" \/ goodbye' = goodbye
            BY <6>1, Zenon DEF Understand
          <6>5. QED
            BY <3>5, <4>1, <6>1, <6>3, <6>4
        <5>3. QED
          BY <5>1, <5>2
      <4>3. UserInv(d) /\ npc[d] # "done" /\ npc[d] # "off" /\ wrote[d] =< fetched[d]
        BY <1>0, <3>1, <3>5 DEF UserInv
      <4>4. /\ wrote'[d] = wrote[d] /\ shown'[d] = shown[d] /\ fin'[d] = fin[d]
            /\ local'[d] = local[d] /\ npc'[d] = npc[d] /\ fetched'[d] = fetched[d]
            /\ left'[d] = left[d] /\ late'[d] = late[d] /\ service' = service
            /\ told'[d] = told[d]
        BY <1>1, <3>3
      <4>5. /\ remote[d] = "open" /\ spc = "recv"
            /\ remote'[d] = "open" \/ (remote'[d] = "closed" /\ service = "welcome")
        BY <1>0, <3>1, <3>3, <3>5 DEF SessionFunctions
      <4>6. spc' \notin {"off", "dead"}
        BY <3>3
      <4>7. QED
        BY <4>2, <4>3, <4>4, <4>5, <4>6 DEF UserInv, Aborted
    <3>6. QED
      BY <3>4, <3>5
  <2>6. CASE ServerRecvEnds
    <3>1. /\ client \in Users /\ remote[client] = "open" /\ spc = "recv" /\ fin[client]
          /\ taken[client] = wrote[client] \/ local[client] = "closed"
      BY <1>0, <2>6 DEF ServerTypeOK, ServerRecvEnds
    <3>5. TakenRun(d)' /\ UNCHANGED <<ran, goodbye, failed, taken>>
      BY <2>0, <2>6 DEF ServerRecvEnds
    <3>2. /\ taken' = taken /\ told' = told /\ spc' = "accept"
          /\ remote' = [remote EXCEPT ![client] = "closed"]
      BY <2>6 DEF ServerRecvEnds, CloseClient
    <3>3. CASE d # client
      BY <1>0, <1>1, <3>1, <3>2, <3>3, <3>5 DEF SessionFunctions, UserInv, Reset, Aborted
    <3>4. CASE d = client
      <4>1. /\ taken[d] \in Nat /\ wrote[d] \in Nat /\ fetched[d] \in Nat
            /\ left[d] \in Nat /\ npc[d] # "off"
        BY <1>0, <3>1, <3>4, SessionSizes DEF SessionFunctions, UserInv
      <4>2. npc[d] # "aborted" => taken[d] = Len(Typed[d])
        <5>1. ASSUME npc[d] # "aborted"
              PROVE  /\ wrote[d] + left[d] = fetched[d] /\ fetched[d] = Len(Typed[d])
                     /\ left[d] = 0 /\ taken[d] = wrote[d]
          <6>1. UserInv(d) /\ remote[d] = "open" /\ fin[d]
            BY <1>0, <3>1, <3>4, Zenon
          <6>2. npc[d] \notin {"done", "aborted"}
            BY <5>1, <6>1 DEF UserInv, Aborted
          <6>3. /\ wrote[d] + left[d] = fetched[d]
                /\ fetched[d] = Len(Typed[d]) /\ left[d] = 0
            BY <5>1, <6>1, <6>2 DEF UserInv, Aborted
          <6>4. taken[d] = wrote[d]
            BY <3>1, <3>4, <6>1, <6>2 DEF UserInv, Aborted
          <6>5. QED
            BY <6>3, <6>4
        <5>2. QED
          BY <4>1, <5>1
      <4>3. QED
        BY <1>0, <1>1, <3>1, <3>2, <3>4, <3>5, <4>1, <4>2 DEF SessionFunctions, UserInv, Reset, Aborted
    <3>6. QED
      BY <3>3, <3>4
  <2>7. QED
    BY <2>1, <2>2, <2>3, <2>4, <2>5, <2>6 DEF ServerStep
<1>5. (spc = "bye" => goodbye[client] # 0)'
  <2>1. CASE \E chunk : Understand(chunk) /\ client' = client /\ spc = "recv"
    <3>1. client \in Users
      BY <1>0, <2>1 DEF ServerTypeOK
    <3>2. \/ spc' = "reply"
          \/ goodbye' = [goodbye EXCEPT ![client] = taken[client] + 1]
      BY <2>1, Zenon DEF Understand
    <3>3. QED
      BY <1>0, <2>1, <3>1, <3>2 DEF ServerTypeOK, SessionFunctions
  <2>2. CASE spc' \in {"accept", "greet", "recv", "dead"}
    BY <2>2
  <2>3. CASE spc' = spc /\ client' = client /\ UNCHANGED heard
    BY <1>0, <2>3 DEF heard
  <2>4. QED
    BY <2>1, <2>2, <2>3 DEF ServerStep, AcceptAndGreet, SendMore, SendToNobody, SendReturned,
         ServerRecv, ServerRecvEnds, CloseClient
<1>6. DeathNeedsAbort'
  <2>1. CASE spc' # "dead"
    BY <2>1 DEF DeathNeedsAbort
  <2>2. CASE spc = "dead"
    BY <1>1, <2>2 DEF SessionInv, DeathNeedsAbort, Aborted
  <2>3. CASE spc # "dead" /\ spc' = "dead"
    <3>1. /\ client \in Users /\ local[client] = "closed" /\ remote[client] = "open"
      BY <1>0, <2>3 DEF ServerTypeOK, ServerStep, AcceptAndGreet, SendMore, SendToNobody,
             SendReturned, ServerRecv, Understand, ServerRecvEnds, CloseClient
    <3>2. npc[client] = "aborted"
      BY <1>0, <3>1 DEF UserInv, Aborted
    <3>3. QED
      BY <1>1, <3>1, <3>2 DEF DeathNeedsAbort, Aborted
  <2>4. QED
    BY <2>1, <2>2, <2>3
<1>7. QED
  BY <1>1, <1>3, <1>4, <1>5, <1>6, TypeParts DEF SessionInv

\* Nobody is connected, and the server is off.
LEMMA SessionStart == SessionInit => SessionInv
<1> SUFFICES ASSUME SessionInit PROVE SessionInv
  OBVIOUS
<1>1. SessionFunctions /\ ServerTypeOK
  BY SessionSizes DEF SessionInit, LinkInit, NetcatInit, ServerInit, SessionFunctions, ServerTypeOK
<1>2. ASSUME NEW c \in Users PROVE Amounts(c) /\ UserInv(c)
  BY SessionSizes DEF SessionInit, LinkInit, NetcatInit, ServerInit, Amounts, UserInv, Reset, Aborted, TakenRun
<1>3. spc = "off"
  BY DEF SessionInit, ServerInit
<1>4. QED
  BY <1>1, <1>2, <1>3, TypeParts DEF SessionInv, DeathNeedsAbort

\* Both ends of every connection, in every interleaving of users and server.
LEMMA SessionStep == SessionInv /\ [SessionNext]_sessionVars => SessionInv'
<1> SUFFICES ASSUME SessionInv, [SessionNext]_sessionVars PROVE SessionInv'
  OBVIOUS
<1>1. CASE StartService /\ UNCHANGED netcatVars
  <2>1. /\ SessionFunctions /\ ServerTypeOK /\ \A d \in Users : Amounts(d) /\ UserInv(d)
    BY TypeParts DEF SessionInv
  <2>2. SessionFunctions' /\ ServerTypeOK' /\ \A d \in Users : Amounts(d)'
    BY <1>1, <2>1 DEF StartService, netcatVars, linkVars, heard, SessionFunctions, ServerTypeOK, Amounts
  <2>3. ASSUME NEW d \in Users PROVE UserInv(d)'
    <3>1. TakenRun(d)'
      <4>1. taken[d] = 0 /\ taken' = taken
        BY <1>1, <2>1 DEF StartService, linkVars, UserInv
      <4>2. QED
        BY <4>1 DEF TakenRun
    <3>2. QED
      BY <1>1, <2>1, <3>1 DEF StartService, netcatVars, linkVars, heard, UserInv, Reset, Aborted
  <2>4. spc' = "accept"
    BY <1>1 DEF StartService
  <2>5. QED
    BY <2>2, <2>3, <2>4, TypeParts DEF SessionInv, DeathNeedsAbort
<1>2. CASE Server
  BY <1>2, ServerKeeps DEF Server
<1>3. ASSUME NEW c \in Users, User(c) \/ ((Breaks(c) \/ Kill(c)) /\ UNCHANGED serverVars)
      PROVE  SessionInv'
  BY <1>3, UserKeeps DEF User
<1>4. CASE UNCHANGED sessionVars
  <2>1. UNCHANGED <<linkVars, netcatVars, serverVars>>
    BY <1>4 DEF sessionVars
  <2>2. (\A d \in Users : Amounts(d) /\ UserInv(d)) /\ SessionFunctions /\ ServerTypeOK
    BY TypeParts DEF SessionInv
  <2>3. ASSUME NEW d \in Users PROVE Amounts(d)' /\ UserInv(d)'
    <3>1. TakenRun(d)'
      BY <2>1, <2>2 DEF linkVars, serverVars, heard, UserInv, TakenRun, Excused
    <3>2. QED
      BY <2>1, <2>2, <3>1
      DEF linkVars, netcatVars, serverVars, heard, Amounts, UserInv, Reset, Aborted
  <2>4. SessionFunctions' /\ ServerTypeOK'
    BY <2>1, <2>2 DEF linkVars, netcatVars, serverVars, heard, SessionFunctions, ServerTypeOK
  <2>5. QED
    BY <2>1, <2>3, <2>4, TypeParts
    DEF netcatVars, serverVars, heard, SessionInv, DeathNeedsAbort, Aborted
<1>5. QED
  BY <1>1, <1>2, <1>3, <1>4 DEF SessionNext

\* Hence on all behaviours, for any users, lines and sizes.
LEMMA SessionInvariance == SessionSpec => []SessionInv
BY SessionStart, SessionStep, PTL DEF SessionSpec

\* For any users, lines, outputs and sizes of the streams: the server dies of
\* SIGPIPE (l.79, l.102, l.120) only if a client was interrupted or select or
\* stdout failed it, since by itself it leaves only after the server has closed.
THEOREM OnlyAbortsKill == SessionSpec => []DeathNeedsAbort
<1>1. SessionInv => DeathNeedsAbort
  BY DEF SessionInv
<1>2. QED
  BY <1>1, SessionInvariance, PTL

\* What the server sent is printed to the last byte when netcat ends at the
\* end of its socket, unless lines the server never read reset the connection or the
\* client sent too late.
THEOREM OutputAlwaysPrinted == SessionSpec => []OutputPrinted
<1>1. SessionInv => OutputPrinted
  BY DEF SessionInv, UserInv, OutputPrinted
<1>2. QED
  BY <1>1, SessionInvariance, PTL

\* A user of the shell whose client ended at the end of its socket has had every
\* line run, in whatever pieces they came (l.84), but for those an exit or a
\* refused line takes with it, and unless popen failed or the server died.
THEOREM EverythingAlwaysRun == SessionSpec => []EverythingRun
<1>1. SessionInv => EverythingRun
  <2> SUFFICES ASSUME SessionInv, NEW c \in Users, npc[c] = "done", service = "shell", told[c] > 0,
                      spc # "dead", c \notin failed, NEW i \in 1..Len(Typed[c])
               PROVE  i \in ran[c] \/ Excused(c, i)
    BY DEF EverythingRun
  <2>1. UserInv(c) /\ SessionFunctions /\ ServerTypeOK
    BY TypeParts DEF SessionInv
  <2>2. taken[c] = Len(Typed[c]) \/ (goodbye[c] # 0 /\ taken[c] = goodbye[c])
    BY <2>1 DEF UserInv, Aborted
  <2>3. CASE i \in 1..taken[c]
    BY <2>1, <2>3 DEF UserInv, TakenRun
  <2>4. CASE i \notin 1..taken[c]
    <3>1. goodbye[c] # 0 /\ taken[c] = goodbye[c]
      BY <2>2, <2>4
    <3>2. goodbye[c] \in Nat
      BY <2>1 DEF ServerTypeOK
    <3>3. goodbye[c] \in 1..i
      BY <2>4, <3>1, <3>2
    <3>4. QED
      BY <3>3 DEF Excused
  <2>5. QED
    BY <2>3, <2>4
<1>2. QED
  BY <1>1, SessionInvariance, PTL

(***************************************************************************)
(* The directory browser                                                   *)
(* The path that is tried and the path that is taken, segment by segment:  *)
(* how long their prefixes are and where they lead.                        *)
(***************************************************************************)

\* What a start a and a step determine on 0..N.
Recurrence(N, A, a, step) ==
    {f \in [0..N -> A] : f[0] = a /\ \A k \in 1..N : f[k] = step[k][f[k - 1]]}

\* A set of numbers with 0 and the successor of each of its own has them all.
LEMMA CountUp ==
    ASSUME NEW S, 0 \in S, \A n \in Nat : n \in S => n + 1 \in S
    PROVE  Nat \subseteq S
<1> SUFFICES ASSUME Nat \ S # {} PROVE FALSE
  OBVIOUS
<1>1. PICK n \in Nat \ S : \A m \in Nat \ S : <<m, n>> \notin OpToRel(<, Nat)
  <2>1. Nat \ S \subseteq Nat
    OBVIOUS
  <2>2. QED
    BY <2>1, WFMin, NatLessThanWellFounded, Zenon
<1>2. \A m \in Nat \ S : ~(m < n)
  BY <1>1, Zenon DEF OpToRel
<1>3. n - 1 \in Nat \ S
  BY SMT
<1>4. QED
  BY <1>2, <1>3

\* The same up to a number N.
LEMMA CountUpTo ==
    ASSUME NEW N \in Nat, NEW S, 0 \in S,
           \A k \in 1..N : k - 1 \in S => k \in S
    PROVE  \A k \in 0..N : k \in S
<1> DEFINE T == {n \in Nat : n =< N => n \in S}
<1>1. 0 \in T
  OBVIOUS
<1>2. ASSUME NEW n \in Nat, n \in T PROVE n + 1 \in T
  <2>1. n + 1 =< N => n + 1 \in 1..N /\ (n + 1) - 1 = n
    OBVIOUS
  <2>2. QED
    BY <1>2, <2>1
<1>3. Nat \subseteq T
  <2> HIDE DEF T
  <2>1. QED
    BY <1>1, <1>2, CountUp, Zenon
<1>4. QED
  BY <1>3

\* There is such a function.
LEMMA RecurrenceExists ==
    ASSUME NEW N \in Nat, NEW A, NEW a \in A, NEW step,
           \A k \in 1..N, x \in A : step[k][x] \in A
    PROVE  Recurrence(N, A, a, step) # {}
<1> DEFINE S == {n \in 0..N : Recurrence(n, A, a, step) # {}}
<1>1. 0 \in S
  <2>1. [k \in 0..0 |-> a] \in Recurrence(0, A, a, step)
    BY DEF Recurrence
  <2>2. QED
    BY <2>1
<1>2. ASSUME NEW n \in 1..N, n - 1 \in S PROVE n \in S
  <2>1. PICK f \in [0..n - 1 -> A] : f[0] = a /\ \A k \in 1..n - 1 : f[k] = step[k][f[k - 1]]
    BY <1>2 DEF Recurrence
  <2> DEFINE g == [k \in 0..n |-> IF k = n THEN step[n][f[n - 1]] ELSE f[k]]
  <2>2. step[n][f[n - 1]] \in A
    BY <2>1
  <2>3. g \in [0..n -> A]
    BY <2>1, <2>2
  <2>4. g[n] = step[n][f[n - 1]] /\ \A k \in 0..n - 1 : g[k] = f[k]
    OBVIOUS
  <2> HIDE DEF g
  <2>5. \A k \in 1..n : g[k] = step[k][g[k - 1]]
    BY <2>1, <2>4
  <2>6. g \in Recurrence(n, A, a, step)
    BY <2>1, <2>3, <2>4, <2>5 DEF Recurrence
  <2>7. QED
    BY <2>6
<1>3. \A k \in 0..N : k \in S
  <2> HIDE DEF S
  <2>1. QED
    BY <1>1, <1>2, CountUpTo, Zenon
<1>4. QED
  BY <1>3

\* PathLens(p) is what its equation says: the CHOOSE behind the recursive function
\* has something to choose.
LEMMA LensEquation ==
    ASSUME NEW p \in Seq(Segments)
    PROVE  /\ PathLens(p) \in [0..Len(p) -> Nat]
           /\ PathLens(p)[0] = 0
           /\ \A k \in 1..Len(p) : PathLens(p)[k] = PathLens(p)[k - 1] + 1 + SegmentLen(p[k])
<1> DEFINE Is(f) ==
        f = [k \in 0..Len(p) |-> IF k = 0 THEN 0 ELSE f[k - 1] + 1 + SegmentLen(p[k])]
           step == [k \in 1..Len(p) |-> [n \in Nat |-> n + 1 + SegmentLen(p[k])]]
<1>1. PICK N \in Nat : N = Len(p)
  OBVIOUS
<1>2. \A s : SegmentLen(s) \in Nat
  BY DEF SegmentLen
<1>3. \A k \in 1..N, n \in Nat : step[k][n] = n + 1 + SegmentLen(p[k])
  BY <1>1
<1>4. \A k \in 1..N, n \in Nat : step[k][n] \in Nat
  <2>1. \A k \in 1..N, n \in Nat : n + 1 + SegmentLen(p[k]) \in Nat
    BY <1>2
  <2>2. QED
    BY <1>3, <2>1, Zenon
<1>5. PICK f : f \in Recurrence(N, Nat, 0, step)
  <2> HIDE DEF step
  <2>1. QED
    BY <1>4, RecurrenceExists
<1>6. Is(f)
  <2>1. f \in [0..N -> Nat] /\ f[0] = 0 /\ \A k \in 1..N : f[k] = step[k][f[k - 1]]
    BY <1>5, Zenon DEF Recurrence
  <2>2. \A k \in 1..N : k - 1 \in 0..N
    OBVIOUS
  <2>3. \A k \in 1..N : f[k] = f[k - 1] + 1 + SegmentLen(p[k])
    <3> HIDE DEF step
    <3> QED BY <1>3, <2>1, <2>2, Zenon
  <2>4. QED
    BY <1>1, <2>1, <2>3
<1>7. PathLens(p) = CHOOSE g : Is(g)
  BY Zenon DEF PathLens
<1>8. Is(PathLens(p))
  BY <1>6, <1>7, Zenon
<1>9. PathLens(p)[0] = 0 /\ \A k \in 1..N : PathLens(p)[k] = PathLens(p)[k - 1] + 1 + SegmentLen(p[k])
  BY <1>1, <1>8
<1>10. \A k \in 0..N : k \in {n \in 0..N : PathLens(p)[n] \in Nat}
  <2> DEFINE T == {n \in 0..N : PathLens(p)[n] \in Nat}
  <2>1. 0 \in T
    BY <1>9
  <2>2. \A k \in 1..N : k - 1 \in T => k \in T
    BY <1>2, <1>9
  <2> HIDE DEF T
  <2>3. \A k \in 0..N : k \in T
    BY <2>1, <2>2, CountUpTo, Zenon
  <2>4. QED
    BY <2>3 DEF T
<1>11. QED
  BY <1>1, <1>8, <1>9, <1>10

\* A segment leads from a path to a path.
LEMMA OnwardType ==
    ASSUME NEW place \in Seq(Segments), NEW s \in Segments
    PROVE  Onward(place, s) \in Seq(Segments)
<1>1. Append(place, s) \in Seq(Segments)
  BY AppendProperties
<1>2. ASSUME place # <<>> PROVE SubSeq(place, 1, Len(place) - 1) \in Seq(Segments)
  <2>1. Len(place) \in Nat /\ \A k \in 1..Len(place) - 1 : place[k] \in Segments
    OBVIOUS
  <2>2. QED
    BY <2>1, SubSeqProperties
<1>3. <<>> \in Seq(Segments)
  BY EmptySeq
<1>4. QED
  BY <1>1, <1>2, <1>3, Zenon DEF Onward

\* Places(p) is what its equation says.
LEMMA PlacesEquation ==
    ASSUME NEW p \in Seq(Segments)
    PROVE  /\ Places(p) \in [0..Len(p) -> Seq(Segments)]
           /\ Places(p)[0] = <<>>
           /\ \A k \in 1..Len(p) : Places(p)[k] = Onward(Places(p)[k - 1], p[k])
<1> DEFINE Is(f) == f = [k \in 0..Len(p) |-> IF k = 0 THEN <<>> ELSE Onward(f[k - 1], p[k])]
<1>1. PICK N \in Nat : N = Len(p)
  OBVIOUS
<1>2. PICK A : A = Seq(Segments)
  OBVIOUS
<1>3. <<>> \in A /\ \A k \in 1..N : p[k] \in Segments
  BY <1>1, <1>2
<1>4. \A k \in 1..N, a \in A : Onward(a, p[k]) \in A
  BY <1>2, <1>3, OnwardType, Zenon
<1> DEFINE step == [k \in 1..N |-> [a \in A |-> Onward(a, p[k])]]
<1>5. \A k \in 1..N, a \in A : step[k][a] = Onward(a, p[k])
  OBVIOUS
<1>6. PICK f : f \in Recurrence(N, A, <<>>, step)
  <2>1. \A k \in 1..N, a \in A : step[k][a] \in A
    BY <1>4, <1>5
  <2> HIDE DEF step
  <2>2. QED
    BY <1>3, <2>1, RecurrenceExists
<1>7. Is(f)
  <2>1. f \in [0..N -> A] /\ f[0] = <<>> /\ \A k \in 1..N : f[k] = step[k][f[k - 1]]
    BY <1>6, Zenon DEF Recurrence
  <2>2. \A k \in 1..N : k - 1 \in 0..N
    OBVIOUS
  <2>3. \A k \in 1..N : f[k] = Onward(f[k - 1], p[k])
    <3> HIDE DEF step
    <3> QED BY <1>5, <2>1, <2>2, Zenon
  <2>4. QED
    BY <1>1, <2>1, <2>3
<1>8. Places(p) = CHOOSE g : Is(g)
  BY Zenon DEF Places
<1>9. Is(Places(p))
  BY <1>7, <1>8, Zenon
<1>10. Places(p)[0] = <<>> /\ \A k \in 1..N : Places(p)[k] = Onward(Places(p)[k - 1], p[k])
  BY <1>1, <1>9
<1>11. \A k \in 0..N : Places(p)[k] \in A
  <2> DEFINE T == {n \in 0..N : Places(p)[n] \in A}
  <2>1. 0 \in T
    BY <1>3, <1>10
  <2>2. \A k \in 1..N : k - 1 \in T => k \in T
    BY <1>4, <1>10
  <2> HIDE DEF T
  <2>3. \A k \in 0..N : k \in T
    BY <2>1, <2>2, CountUpTo, Zenon
  <2>4. QED
    BY <2>3 DEF T
<1>12. Places(p) \in [0..N -> A]
  BY <1>1, <1>9, <1>11
<1>13. QED
  BY <1>1, <1>2, <1>10, <1>12

\* Two paths with the same first segments are as long, and lead as far, there.
LEMMA SamePrefix ==
    ASSUME NEW p \in Seq(Segments), NEW q \in Seq(Segments), NEW m \in Nat,
           m =< Len(p), m =< Len(q), \A k \in 1..m : p[k] = q[k]
    PROVE  \A k \in 0..m : PathLens(p)[k] = PathLens(q)[k] /\ Places(p)[k] = Places(q)[k]
<1> DEFINE S == {k \in 0..m : PathLens(p)[k] = PathLens(q)[k] /\ Places(p)[k] = Places(q)[k]}
<1>1. 0 \in S
  BY LensEquation, PlacesEquation
<1>2. ASSUME NEW k \in 1..m, k - 1 \in S PROVE k \in S
  <2>1. k \in 1..Len(p) /\ k \in 1..Len(q) /\ p[k] = q[k] /\ k \in 0..m
    OBVIOUS
  <2>2. PathLens(p)[k - 1] = PathLens(q)[k - 1] /\ Places(p)[k - 1] = Places(q)[k - 1]
    BY <1>2
  <2>3. PathLens(p)[k] = PathLens(q)[k]
    BY <2>1, <2>2, LensEquation, Zenon
  <2>4. Places(p)[k] = Places(q)[k]
    BY <2>1, <2>2, PlacesEquation, Zenon
  <2>5. QED
    BY <2>1, <2>3, <2>4
<1>3. \A k \in 0..m : k \in S
  <2> HIDE DEF S
  <2>1. QED
    BY <1>1, <1>2, CountUpTo, Zenon
<1>4. QED
  BY <1>3

\* The first k segments of a path.
LEMMA Prefix ==
    ASSUME NEW p \in Seq(Segments), NEW k \in 0..Len(p)
    PROVE  /\ SubSeq(p, 1, k) \in Seq(Segments) /\ Len(SubSeq(p, 1, k)) = k
           /\ \A j \in 1..k : SubSeq(p, 1, k)[j] = p[j]
           /\ PathLen(SubSeq(p, 1, k)) = PathLens(p)[k]
           /\ Leads(SubSeq(p, 1, k)) = Places(p)[k]
<1> DEFINE q == SubSeq(p, 1, k)
<1>1. k \in Nat /\ k =< Len(p) /\ k \in Int /\ 1 \in Int
  OBVIOUS
<1>2. \A j \in 1..k : p[j] \in Segments
  OBVIOUS
<1>3. q \in Seq(Segments) /\ Len(q) = k /\ \A j \in 1..k : q[j] = p[j]
  BY <1>1, <1>2, SubSeqProperties
<1>4. PathLens(q)[k] = PathLens(p)[k] /\ Places(q)[k] = Places(p)[k]
  <2> HIDE DEF q
  <2>1. k =< Len(q) /\ k \in 0..k
    BY <1>1, <1>3
  <2>2. QED
    BY <1>1, <1>3, <2>1, SamePrefix
<1>5. QED
  BY <1>3, <1>4 DEF PathLen, Leads

\* Every segment makes a path longer.
LEMMA LensGrow ==
    ASSUME NEW p \in Seq(Segments), NEW j \in 0..Len(p), NEW i \in 0..Len(p), j < i
    PROVE  PathLens(p)[j] < PathLens(p)[i]
<1>1. PICK N \in Nat : N = Len(p)
  OBVIOUS
<1>2. \A k \in 0..N : PathLens(p)[k] \in Nat
  BY <1>1, LensEquation
<1>3. ASSUME NEW k \in 1..N PROVE PathLens(p)[k - 1] < PathLens(p)[k]
  <2>1. PICK s \in Nat : s = SegmentLen(p[k])
    BY DEF SegmentLen
  <2>2. PathLens(p)[k] = PathLens(p)[k - 1] + 1 + s
    BY <1>1, <2>1, LensEquation
  <2>3. k - 1 \in 0..N
    OBVIOUS
  <2>4. QED
    BY <1>2, <2>2, <2>3
<1> DEFINE S == {k \in 0..N : j < k => PathLens(p)[j] < PathLens(p)[k]}
<1>4. 0 \in S
  BY <1>1
<1>5. ASSUME NEW k \in 1..N, k - 1 \in S PROVE k \in S
  <2>1. j < k => j = k - 1 \/ j < k - 1
    BY <1>1
  <2>2. PathLens(p)[k - 1] < PathLens(p)[k]
    BY <1>3
  <2>3. PathLens(p)[j] \in Nat /\ PathLens(p)[k] \in Nat /\ PathLens(p)[k - 1] \in Nat
    BY <1>1, <1>2
  <2>4. j < k - 1 => PathLens(p)[j] < PathLens(p)[k - 1]
    BY <1>5
  <2>5. j < k => PathLens(p)[j] < PathLens(p)[k]
    BY <2>1, <2>2, <2>3, <2>4
  <2>6. QED
    BY <2>5
<1>6. \A k \in 0..N : k \in S
  <2> HIDE DEF S
  <2>1. QED
    BY <1>4, <1>5, CountUpTo, Zenon
<1>7. QED
  BY <1>1, <1>6

\* Beyond what is not a directory a path leads nowhere, so that where the whole
\* leads to a directory every prefix does.
LEMMA DirectoriesOnTheWay ==
    ASSUME NEW p \in Seq(Segments), Leads(p) \in Dirs, NEW j \in 0..Len(p)
    PROVE  Places(p)[j] \in Dirs
<1> SUFFICES ASSUME Places(p)[j] \notin Dirs PROVE FALSE
  OBVIOUS
<1>1. PICK N \in Nat : N = Len(p)
  OBVIOUS
<1> DEFINE S == {k \in 0..N : k < j \/ Places(p)[k] = Places(p)[j]}
<1>2. 0 \in S
  BY <1>1
<1>3. ASSUME NEW k \in 1..N, k - 1 \in S PROVE k \in S
  <2>1. k < j \/ k = j \/ ~(k - 1 < j)
    BY <1>1
  <2>2. CASE ~(k - 1 < j)
    <3>1. Places(p)[k - 1] = Places(p)[j]
      BY <1>3, <2>2
    <3>2. Places(p)[k] = Places(p)[j]
      BY <1>1, <3>1, PlacesEquation, Zenon DEF Onward
    <3>3. QED
      BY <3>2
  <2>3. QED
    BY <2>1, <2>2
<1>4. \A k \in 0..N : k \in S
  <2> HIDE DEF S
  <2>1. QED
    BY <1>2, <1>3, CountUpTo, Zenon
<1>5. Places(p)[N] = Places(p)[j]
  BY <1>1, <1>4
<1>6. QED
  BY <1>1, <1>5 DEF Leads

\* What is cut off a path: a prefix that fits and that is all of it or has one
\* segment after it too many is what is left.
LEMMA CutAt ==
    ASSUME NEW p \in Seq(Segments), NEW n \in Nat, NEW k \in 0..Len(p),
           PathLens(p)[k] =< n, k = Len(p) \/ PathLens(p)[k + 1] > n
    PROVE  Cut(p, n) = SubSeq(p, 1, k)
<1>1. PICK N \in Nat : N = Len(p)
  OBVIOUS
<1> DEFINE Last(i) == PathLens(p)[i] =< n /\ \A j \in i + 1..N : PathLens(p)[j] > n
<1>2. \A i \in 0..N : PathLens(p)[i] \in Nat
  BY <1>1, LensEquation
<1>3. \A j \in k + 1..N : PathLens(p)[j] > n
  <2> SUFFICES ASSUME NEW j \in k + 1..N PROVE PathLens(p)[j] > n
    OBVIOUS
  <2>1. k + 1 \in 0..N /\ j \in 0..N /\ (j = k + 1 \/ k + 1 < j) /\ k # N
    BY <1>1
  <2>2. k + 1 < j => PathLens(p)[k + 1] < PathLens(p)[j]
    BY <1>1, <2>1, LensGrow
  <2>3. PathLens(p)[k + 1] > n
    BY <1>1, <2>1
  <2>4. PathLens(p)[k + 1] \in Nat /\ PathLens(p)[j] \in Nat
    BY <1>2, <2>1
  <2>5. QED
    BY <2>1, <2>2, <2>3, <2>4
<1>4. ASSUME NEW i \in 0..N, Last(i) PROVE i = k
  <2>1. ~(k < i)
    <3>1. k < i => i \in k + 1..N
      BY <1>1
    <3>2. PathLens(p)[i] \in Nat /\ PathLens(p)[i] =< n
      BY <1>2, <1>4
    <3>3. QED
      BY <1>3, <3>1, <3>2
  <2>2. ~(i < k)
    <3>1. i < k => k \in i + 1..N
      BY <1>1
    <3>2. PathLens(p)[k] \in Nat
      BY <1>1, <1>2
    <3>3. QED
      BY <1>4, <3>1, <3>2
  <2>3. QED
    BY <1>1, <2>1, <2>2
<1>5. Last(k) /\ k \in 0..N
  BY <1>1, <1>3
<1>6. (CHOOSE i \in 0..N : Last(i)) = k
  <2> HIDE DEF Last
  <2>1. QED
    BY <1>4, <1>5, Zenon
<1>7. QED
  BY <1>1, <1>6, Zenon DEF Cut

\* A directory's own path leads to it, every directory on the way being there.
LEMMA DirectoryItself ==
    ASSUME NEW d \in Dirs
    PROVE  d \in Seq(Segments) /\ Leads(d) = d
<1>1. d \in Seq(Folders) /\ Folders \subseteq Segments
  BY DirsAssumption DEF Segments
<1>2. d \in Seq(Segments)
  BY <1>1, SeqMonotonic
<1>3. PICK N \in Nat : N = Len(d)
  BY <1>2
<1>4. \A k \in 1..N : d[k] \notin {"", ".", ".."}
  <2>1. \A k \in 1..N : d[k] \in Folders
    BY <1>1, <1>3, ElementOfSeq
  <2>2. QED
    BY <2>1, DirsAssumption, Zenon
<1>5. \A k \in 0..N : SubSeq(d, 1, k) \in Dirs
  <2> DEFINE S == {i \in 0..N : SubSeq(d, 1, N - i) \in Dirs}
  <2>1. 0 \in S
    <3>1. SubSeq(d, 1, Len(d)) = d
      BY <1>2, SubSeqFull
    <3>2. N - 0 = Len(d)
      BY <1>3
    <3>3. SubSeq(d, 1, N - 0) \in Dirs
      BY <3>1, <3>2, Zenon
    <3>4. QED
      BY <3>3
  <2>2. ASSUME NEW i \in 1..N, i - 1 \in S PROVE i \in S
    <3>1. PICK m \in 1..N : m = N - (i - 1) /\ m - 1 = N - i
      OBVIOUS
    <3>2. SubSeq(d, 1, m) \in Dirs
      BY <2>2, <3>1
    <3>3. /\ Len(SubSeq(d, 1, m)) = m
          /\ SubSeq(d, 1, m) \in Seq(Segments) /\ SubSeq(d, 1, m) # <<>>
      BY <1>3, <1>2, Prefix
    <3>4. SubSeq(SubSeq(d, 1, m), 1, m - 1) \in Dirs
      BY <3>2, <3>3, Zenon, DirsAssumption
    <3>5. SubSeq(SubSeq(d, 1, m), 1, m - 1) = SubSeq(d, 1, m - 1)
      BY <3>3
    <3>6. SubSeq(d, 1, N - i) \in Dirs
      BY <3>1, <3>4, <3>5, Zenon
    <3>7. QED
      BY <3>6
  <2>3. \A i \in 0..N : i \in S
    <3> HIDE DEF S
    <3>1. QED
      BY <2>1, <2>2, CountUpTo, Zenon
  <2>4. ASSUME NEW k \in 0..N PROVE SubSeq(d, 1, k) \in Dirs
    <3>1. N - k \in 0..N /\ N - (N - k) = k
      OBVIOUS
    <3>2. N - k \in S
      BY <2>3, <3>1
    <3>3. QED
      BY <3>1, <3>2
  <2>5. QED
    BY <2>4
<1>6. \A k \in 0..N : k \in {i \in 0..N : Places(d)[i] = SubSeq(d, 1, i)}
  <2> DEFINE S == {i \in 0..N : Places(d)[i] = SubSeq(d, 1, i)}
  <2>1. 0 \in S
    <3>1. SubSeq(d, 1, 0) = <<>>
      OBVIOUS
    <3>2. Places(d)[0] = <<>>
      BY <1>2, PlacesEquation
    <3>3. Places(d)[0] = SubSeq(d, 1, 0)
      BY <3>1, <3>2, Zenon
    <3>4. QED
      BY <3>3
  <2>2. ASSUME NEW k \in 1..N, k - 1 \in S PROVE k \in S
    <3>1. Places(d)[k] = Onward(SubSeq(d, 1, k - 1), d[k])
      BY <1>3, <1>2, <2>2, PlacesEquation
    <3>2. SubSeq(d, 1, k - 1) \in Dirs
      BY <1>5
    <3>3. Places(d)[k] = Append(SubSeq(d, 1, k - 1), d[k])
      BY <1>4, <3>1, <3>2 DEF Onward
    <3>4. Append(SubSeq(d, 1, k - 1), d[k]) = SubSeq(d, 1, k)
      <4>1. k - 1 \in 0..Len(d) /\ k \in 0..Len(d)
        BY <1>3
      <4> DEFINE u == SubSeq(d, 1, k - 1)
                 v == SubSeq(d, 1, k)
      <4>2. u \in Seq(Segments) /\ Len(u) = k - 1 /\ \A j \in 1..k - 1 : u[j] = d[j]
        BY <1>2, <4>1, Prefix
      <4>3. v \in Seq(Segments) /\ Len(v) = k /\ \A j \in 1..k : v[j] = d[j]
        BY <1>2, <4>1, Prefix
      <4>4. d[k] \in Segments
        BY <1>3, <1>2
      <4> HIDE DEF u, v
      <4>5. /\ Append(u, d[k]) \in Seq(Segments) /\ Len(Append(u, d[k])) = k
            /\ \A j \in 1..k - 1 : Append(u, d[k])[j] = d[j]
            /\ Append(u, d[k])[k] = d[k]
        BY <4>2, <4>4, AppendProperties
      <4>6. \A j \in 1..k : Append(u, d[k])[j] = v[j]
        BY <4>3, <4>5
      <4>7. Append(u, d[k]) = v
        BY <4>3, <4>5, <4>6, SeqEqual
      <4>8. QED
        BY <4>7 DEF u, v
    <3>5. QED
      BY <3>3, <3>4
  <2>3. \A i \in 0..N : i \in S
    <3> HIDE DEF S
    <3>1. QED
      BY <2>1, <2>2, CountUpTo, Zenon
  <2>4. QED
    BY <2>3
<1>7. QED
  BY <1>3, <1>2, <1>6, SubSeqFull DEF Leads

\* One slash more: from there on the path leads where it led, a character later.
LEMMA SlashMore ==
    ASSUME NEW q \in Seq(Segments), NEW r \in Seq(Segments), NEW F \in 0..Len(r),
           SegmentLen(q[F + 1]) = 0, \A place : Onward(place, q[F + 1]) = place,
           Len(q) = Len(r) + 1,
           \A k \in 1..F : q[k] = r[k], \A k \in F + 1..Len(r) : q[k + 1] = r[k]
    PROVE  \A k \in F..Len(r) : /\ PathLens(q)[k + 1] = PathLens(r)[k] + 1
                                /\ Places(q)[k + 1] = Places(r)[k]
<1>1. PICK N \in Nat : N = Len(r)
  OBVIOUS
<1>2. PathLens(q)[F] = PathLens(r)[F] /\ Places(q)[F] = Places(r)[F]
  <2>1. F \in Nat /\ F =< Len(q) /\ F =< Len(r) /\ F \in 0..F
    BY <1>1
  <2>2. QED
    BY <2>1, SamePrefix
<1>3. PathLens(q)[F + 1] = PathLens(r)[F] + 1 /\ Places(q)[F + 1] = Places(r)[F]
  <2>1. F + 1 \in 1..Len(q) /\ (F + 1) - 1 = F
    BY <1>1
  <2>2. PathLens(q)[F + 1] = PathLens(q)[F] + 1 + 0
    BY <2>1, LensEquation
  <2>3. Places(q)[F + 1] = Places(q)[F]
    BY <2>1, PlacesEquation
  <2>4. PathLens(r)[F] \in Nat
    BY LensEquation
  <2>5. QED
    BY <1>2, <2>2, <2>3, <2>4
<1> DEFINE S == {k \in 0..N : k < F \/ ( /\ PathLens(q)[k + 1] = PathLens(r)[k] + 1
                                        /\ Places(q)[k + 1] = Places(r)[k])}
<1>4. 0 \in S
  BY <1>1, <1>3
<1>5. ASSUME NEW k \in 1..N, k - 1 \in S PROVE k \in S
  <2>1. k < F \/ k = F \/ (k - 1 >= F /\ ~(k - 1 < F) /\ k \in F + 1..N)
    BY <1>1
  <2>2. CASE k - 1 >= F /\ ~(k - 1 < F) /\ k \in F + 1..N
    <3>1. k + 1 \in 1..Len(q) /\ (k + 1) - 1 = k /\ k \in 1..Len(r) /\ (k - 1) + 1 = k
      BY <1>1
    <3>2. PathLens(q)[k] = PathLens(r)[k - 1] + 1 /\ Places(q)[k] = Places(r)[k - 1]
      BY <1>5, <2>2, <3>1
    <3>3. q[k + 1] = r[k]
      BY <1>1, <2>2
    <3>4. Places(q)[k + 1] = Places(r)[k]
      <4>1. Places(q)[k + 1] = Onward(Places(q)[k], q[k + 1])
        BY <3>1, PlacesEquation
      <4>2. Places(r)[k] = Onward(Places(r)[k - 1], r[k])
        BY <3>1, PlacesEquation
      <4>3. QED
        BY <3>2, <3>3, <4>1, <4>2, Zenon
    <3>5. PICK s \in Nat : s = SegmentLen(r[k])
      BY DEF SegmentLen
    <3>6. PathLens(q)[k + 1] = PathLens(q)[k] + 1 + s
      BY <3>1, <3>3, <3>5, LensEquation, Zenon
    <3>7. PathLens(r)[k] = PathLens(r)[k - 1] + 1 + s
      BY <3>1, <3>5, LensEquation, Zenon
    <3>8. PathLens(r)[k - 1] \in Nat
      <4>1. k - 1 \in 0..Len(r)
        BY <3>1
      <4>2. QED
        BY <4>1, LensEquation
    <3>9. PathLens(q)[k + 1] = PathLens(r)[k] + 1
      BY <3>2, <3>6, <3>7, <3>8
    <3>10. QED
      BY <3>4, <3>9
  <2>3. QED
    BY <1>3, <2>1, <2>2
<1>6. \A k \in 0..N : k \in S
  <2> HIDE DEF S
  <2>1. QED
    BY <1>4, <1>5, CountUpTo, Zenon
<1>7. QED
  BY <1>1, <1>6

\* What a path measures and where it leads, as the last of its prefixes.
LEMMA WholePath ==
    ASSUME NEW p \in Seq(Segments)
    PROVE  /\ Len(p) \in Nat /\ PathLen(p) \in Nat /\ Leads(p) \in Seq(Segments)
           /\ PathLen(p) = PathLens(p)[Len(p)] /\ Leads(p) = Places(p)[Len(p)]
<1>1. Len(p) \in Nat /\ Len(p) \in 0..Len(p)
  OBVIOUS
<1>2. QED
  BY <1>1, LensEquation, PlacesEquation DEF PathLen, Leads

\* A path of one segment.
LEMMA OneSegment ==
    ASSUME NEW c \in Segments
    PROVE  <<c>> \in Seq(Segments) /\ Len(<<c>>) = 1 /\ <<c>>[1] = c
OBVIOUS

\* The segments of two paths put together.
LEMMA ConcatParts ==
    ASSUME NEW S, NEW s \in Seq(S), NEW t \in Seq(S)
    PROVE  /\ s \o t \in Seq(S) /\ Len(s \o t) = Len(s) + Len(t)
           /\ \A k \in 1..Len(s) : (s \o t)[k] = s[k]
           /\ \A k \in 1..Len(t) : (s \o t)[Len(s) + k] = t[k]
<1>1. PICK n \in Nat, m \in Nat : n = Len(s) /\ m = Len(t)
  OBVIOUS
<1>2. /\ s \o t \in Seq(S) /\ Len(s \o t) = n + m
      /\ \A k \in 1..n + m : (s \o t)[k] = IF k =< n THEN s[k] ELSE t[k - n]
  BY <1>1, ConcatProperties
<1>3. \A k \in 1..m : n + k \in 1..n + m /\ ~(n + k =< n) /\ (n + k) - n = k
  OBVIOUS
<1>4. \A k \in 1..n : k \in 1..n + m /\ k =< n
  OBVIOUS
<1>5. QED
  BY <1>1, <1>2, <1>3, <1>4

\* "/" is one character long and leads to the root.
LEMMA Slash ==
    /\ <<"">> \in Seq(Segments) /\ Len(<<"">>) = 1
    /\ PathLen(<<"">>) = 1 /\ Leads(<<"">>) = <<>>
<1> DEFINE p == <<"">>
<1>1. "" \in Segments
  BY Zenon DEF Segments
<1>2. p \in Seq(Segments) /\ Len(p) = 1
  BY <1>1, OneSegment, Zenon
<1>3. p[1] = ""
  BY <1>1, OneSegment, Zenon
<1>4. SegmentLen(p[1]) = 0 /\ \A place : Onward(place, p[1]) = place
  BY <1>3, Zenon DEF SegmentLen, Onward
<1> HIDE DEF p
<1>5. 1 \in 1..Len(p) /\ 1 - 1 = 0
  BY <1>2
<1>6. PathLens(p)[1] = 1
  <2>1. PathLens(p)[1] = PathLens(p)[0] + 1 + SegmentLen(p[1]) /\ PathLens(p)[0] = 0
    BY <1>2, <1>5, LensEquation, Zenon
  <2>2. QED
    BY <1>4, <2>1
<1>7. Places(p)[1] = <<>>
  <2>1. Places(p)[1] = Onward(Places(p)[0], p[1]) /\ Places(p)[0] = <<>>
    BY <1>2, <1>5, PlacesEquation, Zenon
  <2>2. QED
    BY <1>4, <2>1, Zenon
<1>8. PathLen(p) = 1 /\ Leads(p) = <<>>
  BY <1>2, <1>6, <1>7, Zenon DEF PathLen, Leads
<1>9. QED
  BY <1>2, <1>8, Zenon DEF p

\* Up is a path that fits where the path did, and leads to a directory where the
\* segments but the last do.
LEMMA UpPath ==
    ASSUME NEW p \in Seq(Segments), Len(p) > 0, PathLen(p) < Size
    PROVE  /\ Up(p) \in Seq(Segments) /\ Len(Up(p)) > 0 /\ PathLen(Up(p)) < Size
           /\ Len(p) > 1 => Leads(Up(p)) = Places(p)[Len(p) - 1]
           /\ ~(Len(p) > 1) => Leads(Up(p)) = <<>>
<1>1. PICK N \in Nat : N = Len(p)
  OBVIOUS
<1>2. CASE Len(p) > 1
  <2>1. Up(p) = SubSeq(p, 1, Len(p) - 1)
    BY <1>2 DEF Up
  <2>2. PICK k \in 0..Len(p) : k = Len(p) - 1 /\ k < Len(p) /\ k > 0
    BY <1>1, <1>2
  <2>3. /\ Up(p) \in Seq(Segments) /\ Len(Up(p)) = k
        /\ PathLen(Up(p)) = PathLens(p)[k] /\ Leads(Up(p)) = Places(p)[k]
    BY <2>1, <2>2, Prefix
  <2>4. PathLens(p)[k] < PathLens(p)[Len(p)]
    <3>1. Len(p) \in 0..Len(p)
      BY <1>1
    <3>2. QED
      BY <2>2, <3>1, LensGrow
  <2>5. PathLens(p)[k] \in Nat /\ PathLen(p) \in Nat /\ PathLen(p) = PathLens(p)[Len(p)] /\ Size \in Nat
    BY LensEquation, WholePath, SizeAssumption
  <2>6. PathLen(Up(p)) < Size
    BY <2>3, <2>4, <2>5
  <2>7. QED
    BY <1>2, <2>2, <2>3, <2>6
<1>3. CASE ~(Len(p) > 1)
  <2>1. Up(p) = <<"">>
    BY <1>3, Zenon DEF Up
  <2>2. /\ Up(p) \in Seq(Segments) /\ Len(Up(p)) = 1
        /\ PathLen(Up(p)) = 1 /\ Leads(Up(p)) = <<>>
    BY <2>1, Slash, Zenon
  <2>3. Len(Up(p)) > 0 /\ PathLen(Up(p)) < Size
    <3>1. 1 > 0 /\ 1 < Size
      BY SizeAssumption
    <3>2. Len(Up(p)) > 0
      BY <2>2
    <3>3. PathLen(Up(p)) < Size
      BY <2>2, <3>1
    <3>4. QED
      BY <3>2, <3>3
  <2>4. QED
    BY <1>3, <2>2, <2>3, Zenon
<1>4. QED
  BY <1>2, <1>3

\* Where a path leads to a directory, so does the one above it.
LEMMA UpToDirectory ==
    ASSUME NEW p \in Seq(Segments), Len(p) > 0, PathLen(p) < Size, Leads(p) \in Dirs
    PROVE  Leads(Up(p)) \in Dirs
<1>1. Len(p) > 1 => Len(p) - 1 \in 0..Len(p)
  OBVIOUS
<1>2. Len(p) > 1 => Places(p)[Len(p) - 1] \in Dirs
  BY <1>1, DirectoriesOnTheWay
<1>3. QED
  BY <1>2, UpPath, DirsAssumption, Zenon

\* What is typed is a path of its own.
LEMMA InputPath ==
    ASSUME NEW input \in Inputs
    PROVE  /\ input \in Seq(Segments) /\ Len(input) \in Nat \ {0}
           /\ Len(input) = 1 => input = <<input[1]>> /\ input[1] # ".."
<1>1. input \in Seq(Segments) /\ input # <<>> /\ input # <<"..">>
  BY InputsAssumption
<1>2. Len(input) \in Nat \ {0}
  BY <1>1, EmptySeq
<1>3. ASSUME Len(input) = 1 PROVE input = <<input[1]>>
  <2>1. input[1] \in Segments
    BY <1>1, <1>3
  <2>2. <<input[1]>> \in Seq(Segments) /\ Len(<<input[1]>>) = 1 /\ <<input[1]>>[1] = input[1]
    BY <2>1
  <2>3. QED
    BY <1>1, <1>3, <2>2, SeqEqual
<1>4. QED
  BY <1>1, <1>2, <1>3, Zenon

\* The path that is tried and the path that is taken: they are the same, or the
\* one that is tried has a slash more.
LEMMA TriedAndTaken ==
    ASSUME NEW p \in Seq(Segments), Len(p) > 0, NEW input \in Inputs
    PROVE  /\ p \o input \in Seq(Segments) /\ Down(p, input) \in Seq(Segments)
           /\ Len(p \o input) = Len(p) + Len(input)
           /\ \/ p[Len(p)] # "" /\ Down(p, input) = p \o input
              \/ /\ p[Len(p)] = ""
                 /\ Len(Down(p, input)) = Len(p) - 1 + Len(input)
                 /\ \A k \in Len(p) - 1..Len(Down(p, input)) :
                       /\ PathLens(p \o input)[k + 1] = PathLens(Down(p, input))[k] + 1
                       /\ Places(p \o input)[k + 1] = Places(Down(p, input))[k]
<1> DEFINE q == p \o input
           r == Down(p, input)
           front == SubSeq(p, 1, Len(p) - 1)
<1>1. PICK n \in Nat : n = Len(p) - 1 /\ Len(p) = n + 1
  OBVIOUS
<1>2. PICK m \in Nat \ {0} : m = Len(input)
  BY InputPath
<1>3. input \in Seq(Segments)
  BY InputPath
<1>4. /\ q \in Seq(Segments) /\ Len(q) = n + 1 + m
      /\ \A k \in 1..n + 1 : q[k] = p[k]
      /\ \A k \in 1..m : q[n + 1 + k] = input[k]
  BY <1>1, <1>2, <1>3, ConcatParts
<1>5. CASE p[Len(p)] # ""
  <2>1. r = q
    BY <1>5, Zenon DEF Down
  <2>2. QED
    BY <1>1, <1>2, <1>4, <1>5, <2>1
<1>6. CASE p[Len(p)] = ""
  <2>1. r = front \o input
    BY <1>6, Zenon DEF Down
  <2>2. front \in Seq(Segments) /\ Len(front) = n /\ \A k \in 1..n : front[k] = p[k]
    <3>1. n \in 0..Len(p)
      BY <1>1
    <3>2. QED
      BY <1>1, <3>1, Prefix
  <2>3. SegmentLen(p[n + 1]) = 0 /\ \A place : Onward(place, p[n + 1]) = place
    BY <1>1, <1>6, Zenon DEF SegmentLen, Onward
  <2> HIDE DEF q, r, front
  <2>4. /\ r \in Seq(Segments) /\ Len(r) = n + m
        /\ \A k \in 1..n : r[k] = front[k]
        /\ \A k \in 1..m : r[n + k] = input[k]
    <3>1. /\ front \o input \in Seq(Segments) /\ Len(front \o input) = Len(front) + Len(input)
          /\ \A k \in 1..Len(front) : (front \o input)[k] = front[k]
          /\ \A k \in 1..Len(input) : (front \o input)[Len(front) + k] = input[k]
      <4>1. front \in Seq(Segments)
        BY <2>2
      <4>2. QED
        BY <1>3, <4>1, ConcatParts
    <3>2. QED
      BY <1>2, <2>1, <2>2, <3>1, Zenon
  <2>5. q[n + 1] = p[n + 1] /\ \A k \in 1..n : q[k] = r[k]
    BY <1>4, <2>2, <2>4
  <2>6. \A k \in n + 1..n + m : q[k + 1] = r[k]
    <3> SUFFICES ASSUME NEW k \in n + 1..n + m PROVE q[k + 1] = r[k]
      OBVIOUS
    <3>1. PICK i \in 1..m : n + i = k /\ n + 1 + i = k + 1
      <4>1. k - n \in 1..m /\ n + (k - n) = k /\ n + 1 + (k - n) = k + 1
        OBVIOUS
      <4>2. QED
        BY <4>1
    <3>2. q[n + 1 + i] = input[i] /\ r[n + i] = input[i]
      BY <1>4, <2>4
    <3>3. QED
      BY <3>1, <3>2
  <2>7. /\ n \in 0..Len(r) /\ Len(q) = Len(r) + 1
        /\ \A k \in n + 1..Len(r) : q[k + 1] = r[k]
    BY <1>4, <2>4, <2>6
  <2>8. \A k \in n..Len(r) : PathLens(q)[k + 1] = PathLens(r)[k] + 1 /\ Places(q)[k + 1] = Places(r)[k]
    <3>1. SegmentLen(q[n + 1]) = 0 /\ \A place : Onward(place, q[n + 1]) = place
      BY <2>3, <2>5, Zenon
    <3>2. q \in Seq(Segments) /\ r \in Seq(Segments)
      BY <1>4, <2>4
    <3>3. QED
      BY <2>5, <2>7, <3>1, <3>2, SlashMore, Zenon
  <2>9. Len(r) = Len(p) - 1 + Len(input) /\ Len(q) = Len(p) + Len(input) /\ n = Len(p) - 1
    BY <1>1, <1>2, <1>4, <2>4
  <2>10. QED
    BY <1>4, <1>6, <2>4, <2>8, <2>9, Zenon DEF q, r
<1>7. QED
  BY <1>5, <1>6

\* What is taken, when it fits, leads to a directory, unless what was tried has lost
\* its last character and what is taken has come to a path that fits exactly.
LEMMA TakenLeads ==
    ASSUME NEW p \in Seq(Segments), Len(p) > 0, NEW input \in Inputs,
           PathLen(Down(p, input)) < Size, Leads(Cut(p \o input, Size - 1)) \in Dirs
    PROVE  /\ Down(p, input) \in Seq(Segments) /\ Len(Down(p, input)) > 0
           /\ Leads(Up(Down(p, input))) \in Dirs
           /\ Leads(Down(p, input)) \notin Dirs =>
                 p[Len(p)] = "" /\ PathLen(Down(p, input)) = Size - 1
<1> DEFINE q == p \o input
           r == Down(p, input)
<1>1. PICK n \in Nat, m \in Nat \ {0}, M \in Nat : n = Len(p) - 1 /\ m = Len(input) /\ M = Size - 1
  <2>1. Len(p) - 1 \in Nat
    OBVIOUS
  <2>2. Len(input) \in Nat \ {0}
    BY InputPath
  <2>3. Size - 1 \in Nat
    BY SizeAssumption
  <2>4. QED
    BY <2>1, <2>2, <2>3
<1>2. q \in Seq(Segments) /\ r \in Seq(Segments) /\ Len(q) = n + 1 + m
  <2>1. q \in Seq(Segments) /\ r \in Seq(Segments) /\ Len(q) = Len(p) + Len(input)
    BY TriedAndTaken
  <2>2. QED
    BY <1>1, <2>1
<1>3. PathLen(r) \in Nat /\ PathLen(r) =< M
  BY <1>1, <1>2, WholePath, SizeAssumption
<1> HIDE DEF q, r
<1>4. ASSUME PathLen(q) =< M PROVE Cut(q, M) = q
  <2>1. Len(q) \in 0..Len(q) /\ Len(q) \in Nat
    BY <1>2
  <2>2. PathLens(q)[Len(q)] =< M
    BY <1>4, <1>2, WholePath
  <2>3. Cut(q, M) = SubSeq(q, 1, Len(q))
    BY <1>1, <1>2, <2>1, <2>2, CutAt
  <2>4. QED
    BY <1>2, <2>3, SubSeqFull
<1>5. Leads(Cut(q, M)) \in Dirs
  BY <1>1, Zenon DEF q
<1>6. CASE p[Len(p)] # ""
  <2>1. r = q
    BY <1>6, TriedAndTaken, Zenon DEF q, r
  <2>2. Leads(r) \in Dirs /\ Len(r) > 0
    BY <1>1, <1>2, <1>3, <1>4, <1>5, <2>1
  <2>3. Leads(Up(r)) \in Dirs
    BY <1>2, <2>2, UpToDirectory DEF r
  <2>4. QED
    BY <1>2, <2>2, <2>3, Zenon DEF r
<1>7. CASE p[Len(p)] = ""
  <2>1. /\ Len(r) = n + m
        /\ \A k \in n..Len(r) : PathLens(q)[k + 1] = PathLens(r)[k] + 1 /\ Places(q)[k + 1] = Places(r)[k]
    BY <1>1, <1>7, TriedAndTaken, Zenon DEF q, r
  <2>2. /\ Len(r) \in Nat /\ Len(r) > 0 /\ n + m + 1 = Len(q)
        /\ n + m \in n..Len(r) /\ (n + m - 1) \in n..Len(r) /\ (n + m - 1) + 1 = n + m
    BY <1>1, <1>2, <2>1
  <2>3. PathLens(q)[n + m + 1] = PathLens(r)[n + m] + 1 /\ Places(q)[n + m + 1] = Places(r)[n + m]
    BY <2>1, <2>2
  <2>4. PathLen(q) = PathLen(r) + 1 /\ Leads(q) = Leads(r)
    BY <2>1, <2>2, <2>3, Zenon DEF PathLen, Leads
  <2>5. CASE PathLen(r) # M
    <3>1. PathLen(q) =< M
      BY <1>1, <1>3, <2>4, <2>5
    <3>2. Leads(r) \in Dirs
      BY <1>4, <1>5, <2>4, <3>1
    <3>3. Leads(Up(r)) \in Dirs
      BY <1>2, <2>2, <3>2, UpToDirectory DEF r
    <3>4. QED
      BY <1>2, <2>2, <3>2, <3>3, Zenon DEF r
  <2>6. CASE PathLen(r) = M
    <3>1. n + m \in 0..Len(q) /\ Len(q) \in 0..Len(q) /\ n + m < Len(q) /\ Len(q) = n + m + 1
      BY <1>1, <2>2
    <3>2. PathLens(q)[n + m] < PathLens(q)[n + m + 1]
      BY <1>2, <3>1, LensGrow
    <3>3. PathLens(q)[n + m] \in Nat /\ PathLens(q)[n + m + 1] \in Nat
      BY <1>2, <3>1, LensEquation
    <3>4. PathLens(q)[n + m + 1] = M + 1
      <4>1. PathLens(q)[n + m + 1] = PathLen(q)
        BY <3>1 DEF PathLen
      <4>2. QED
        BY <2>4, <2>6, <4>1
    <3>5. PathLens(q)[n + m] =< M /\ PathLens(q)[n + m + 1] > M
      BY <1>1, <3>2, <3>3, <3>4
    <3>6. Cut(q, M) = SubSeq(q, 1, n + m)
      BY <1>1, <1>2, <3>1, <3>5, CutAt
    <3>7. Leads(Cut(q, M)) = Places(q)[n + m]
      BY <1>2, <3>1, <3>6, Prefix
    <3>8. Places(r)[n + m - 1] \in Dirs
      BY <1>5, <2>1, <2>2, <3>7
    <3>9. Leads(Up(r)) \in Dirs
      <4>1. Len(r) > 1 => Leads(Up(r)) = Places(r)[n + m - 1]
        BY <1>2, <2>1, <2>2, UpPath DEF r
      <4>2. ~(Len(r) > 1) => Leads(Up(r)) = <<>>
        BY <1>2, <2>2, UpPath DEF r
      <4>3. QED
        BY <3>8, <4>1, <4>2, DirsAssumption, Zenon
    <3>10. QED
      BY <1>1, <1>2, <1>7, <2>2, <2>6, <3>9, Zenon DEF r
  <2>7. QED
    BY <2>5, <2>6
<1>8. QED
  BY <1>6, <1>7

\* The name of a directory, taken from a root walked to by names, makes the path of
\* a directory.
LEMMA NameTaken ==
    ASSUME NEW p \in Seq(Segments), Len(p) > 0,
           NEW input \in Inputs, Len(input) = 1, Append(Leads(p), input[1]) \in Dirs
    PROVE  p = <<"">> \/ p \in Dirs => Down(p, input) \in Dirs
<1>1. input \in Seq(Segments) /\ input[1] \in Segments /\ input = <<input[1]>>
  <2>1. input \in Seq(Segments)
    BY InputPath
  <2>2. input[1] \in Segments
    <3>1. 1 \in 1..Len(input)
      OBVIOUS
    <3>2. QED
      BY <2>1, <3>1, ElementOfSeq
  <2>3. QED
    BY <2>1, <2>2, InputPath, Zenon
<1>2. CASE p = <<"">>
  <2>1. Len(p) = 1 /\ p[Len(p)] = "" /\ Leads(p) = <<>>
    BY <1>2, Slash, Zenon
  <2>2. Down(p, input) = SubSeq(p, 1, Len(p) - 1) \o input
    BY <2>1, Zenon DEF Down
  <2>3. SubSeq(p, 1, Len(p) - 1) = <<>>
    <3>1. Len(p) - 1 < 1 /\ Len(p) - 1 \in Int /\ 1 \in Int
      <4>1. Len(p) = 1
        BY <2>1
      <4>2. QED
        BY <4>1
    <3>2. QED
      BY <3>1, SubSeqEmpty
  <2>4. <<>> \o input = input
    BY <1>1, ConcatEmptySeq
  <2>5. Append(<<>>, input[1]) = <<input[1]>>
    <3>1. <<>> \in Seq(Segments) /\ <<input[1]>> \in Seq(Segments)
      BY <1>1, EmptySeq
    <3>2. <<>> \o <<input[1]>> = <<input[1]>>
      BY <3>1, ConcatEmptySeq
    <3>3. Append(<<>>, input[1]) = <<>> \o <<input[1]>>
      BY <1>1, <3>1, AppendIsConcat
    <3>4. QED
      BY <3>2, <3>3
  <2>6. QED
    BY <1>1, <2>1, <2>2, <2>3, <2>4, <2>5, Zenon
<1>3. CASE p \in Dirs
  <2>1. p[Len(p)] # ""
    <3>1. p \in Seq(Folders) /\ Len(p) \in 1..Len(p)
      <4>1. p \in Seq(Folders)
        BY <1>3, DirsAssumption
      <4>2. Len(p) \in 1..Len(p)
        OBVIOUS
      <4>3. QED
        BY <4>1, <4>2
    <3>2. p[Len(p)] \in Folders
      BY <3>1, ElementOfSeq
    <3>3. QED
      BY <3>2, DirsAssumption, Zenon
  <2>2. Down(p, input) = p \o <<input[1]>>
    BY <1>1, <2>1, Zenon DEF Down
  <2>3. Append(p, input[1]) = p \o <<input[1]>>
    BY <1>1, AppendIsConcat
  <2>4. Leads(p) = p
    BY <1>3, DirectoryItself
  <2>5. QED
    BY <2>2, <2>3, <2>4, Zenon
<1>4. QED
  BY <1>2, <1>3, Zenon

\* The program starts in a directory.
LEMMA BrowserStart == BrowserInit => BrowserInv
<1> SUFFICES ASSUME BrowserInit PROVE BrowserInv
  OBVIOUS
<1>1. root = Start /\ bpc = "prompt" /\ strange = FALSE
  BY DEF BrowserInit
<1>2. root \in Dirs /\ root # <<>> /\ PathLen(root) < Size
  BY <1>1, DirsAssumption
<1>3. root \in Seq(Segments) /\ Leads(root) \in Dirs
  BY <1>2, DirectoryItself
<1>4. Len(root) > 0
  BY <1>2, <1>3, EmptySeq
<1>5. Leads(Up(root)) \in Dirs
  BY <1>2, <1>3, <1>4, UpToDirectory
<1>6. BrowserTypeOK
  BY <1>1, <1>2, <1>3, <1>4 DEF BrowserTypeOK
<1>7. QED
  BY <1>1, <1>2, <1>3, <1>5, <1>6 DEF BrowserInv, RootIsDirectory, OverrunNeedsStrange

\* Up and down, root fits and names a directory or is the exception, and is the path
\* of a directory as long as only names were taken.
LEMMA BrowserStep == BrowserInv /\ [BrowserNext]_browserVars => BrowserInv'
<1> SUFFICES ASSUME BrowserInv, [BrowserNext]_browserVars PROVE BrowserInv'
  OBVIOUS
<1>1. /\ root \in Seq(Segments) /\ Len(root) > 0 /\ PathLen(root) < Size
      /\ bpc \in {"prompt", "ended", "overrun"} /\ strange \in BOOLEAN
  BY DEF BrowserInv, BrowserTypeOK
<1>2. CASE UNCHANGED browserVars
  <2>1. UNCHANGED root /\ UNCHANGED bpc /\ UNCHANGED strange
    BY <1>2 DEF browserVars
  <2>2. QED
    BY <2>1, Zenon DEF BrowserInv, BrowserTypeOK, RootIsDirectory, OverrunNeedsStrange
<1>3. CASE GoUp
  <2>1. bpc = "prompt" /\ root' = Up(root) /\ bpc' = bpc /\ strange' = strange
    BY <1>3 DEF GoUp
  <2>2. Leads(root') \in Dirs
    BY <2>1, Zenon DEF BrowserInv
  <2>3. root' \in Seq(Segments) /\ Len(root') > 0 /\ PathLen(root') < Size
    BY <1>1, <2>1, UpPath
  <2>4. Leads(Up(root')) \in Dirs
    BY <2>2, <2>3, UpToDirectory
  <2>5. strange \/ root' = <<"">> \/ root' \in Dirs
    <3>1. CASE root = <<"">>
      <4>1. Len(root) = 1
        BY <3>1, Slash, Zenon
      <4>2. ~(Len(root) > 1)
        BY <4>1
      <4>3. QED
        BY <2>1, <4>2, Zenon DEF Up
    <3>2. CASE root \in Dirs
      <4>1. Len(root) > 1 => SubSeq(root, 1, Len(root) - 1) \in Dirs
        <5>1. root # <<>>
          BY <1>1, EmptySeq
        <5>2. QED
          BY <3>2, <5>1, DirsAssumption, Zenon
      <4>2. QED
        BY <2>1, <4>1, Zenon DEF Up
    <3>3. QED
      BY <3>1, <3>2, Zenon DEF BrowserInv
  <2>6. BrowserTypeOK'
    BY <1>1, <2>1, <2>3, Zenon DEF BrowserTypeOK
  <2>7. RootIsDirectory' /\ OverrunNeedsStrange'
    BY <2>1, <2>2 DEF RootIsDirectory, OverrunNeedsStrange
  <2>8. QED
    BY <2>1, <2>4, <2>5, <2>6, <2>7, Zenon DEF BrowserInv
<1>4. CASE GoDown
  <2>1. PICK input \in Inputs :
          /\ bpc = "prompt" /\ Leads(Cut(root \o input, Size - 1)) \in Dirs
          /\ IF PathLen(Down(root, input)) < Size
             THEN root' = Down(root, input) /\ bpc' = bpc
             ELSE bpc' = "overrun" /\ root' = root
          /\ strange' = (strange \/ Append(Leads(root), input[1]) \notin Dirs \/ Len(input) > 1)
    BY <1>4 DEF GoDown
  <2>2. strange' \in BOOLEAN
    BY <1>1, <2>1, Zenon
  <2>3. ~strange' => /\ ~strange /\ Len(input) = 1
                     /\ Append(Leads(root), input[1]) \in Dirs
    <3>1. PICK n \in Nat \ {0} : n = Len(input)
      BY InputPath
    <3>2. ~(n > 1) => n = 1
      OBVIOUS
    <3>3. QED
      BY <1>1, <2>1, <3>1, <3>2, Zenon
  <2>4. ~strange' => Down(root, input) \in Dirs
    BY <1>1, <2>3, NameTaken, Zenon DEF BrowserInv
  <2>5. PathLen(Down(root, input)) \in Nat /\ Size \in Nat
    BY <1>1, TriedAndTaken, WholePath, SizeAssumption
  <2>6. CASE PathLen(Down(root, input)) < Size
    <3>1. root' = Down(root, input) /\ bpc' = bpc
      BY <2>1, <2>6
    <3>2. /\ root' \in Seq(Segments) /\ Len(root') > 0
          /\ Leads(Up(root')) \in Dirs
          /\ Leads(root') \notin Dirs => root[Len(root)] = "" /\ PathLen(root') = Size - 1
      BY <1>1, <2>1, <2>6, <3>1, TakenLeads, Zenon
    <3>3. Leads(root') \notin Dirs => strange'
      BY <2>4, <3>1, DirectoryItself, Zenon
    <3>4. BrowserTypeOK'
      BY <1>1, <2>2, <2>6, <3>1, <3>2, Zenon DEF BrowserTypeOK
    <3>5. RootIsDirectory'
      BY <3>2, <3>3, Zenon DEF RootIsDirectory
    <3>6. OverrunNeedsStrange'
      BY <2>1, <3>1 DEF OverrunNeedsStrange
    <3>7. strange' \/ root' = <<"">> \/ root' \in Dirs
      BY <2>4, <3>1, Zenon
    <3>8. QED
      BY <3>2, <3>4, <3>5, <3>6, <3>7, Zenon DEF BrowserInv
  <2>7. CASE ~(PathLen(Down(root, input)) < Size)
    <3>1. root' = root /\ bpc' = "overrun"
      BY <2>1, <2>7
    <3>2. strange' \/ \E d \in Dirs : PathLen(d) >= Size
      <4>1. PathLen(Down(root, input)) >= Size
        BY <2>5, <2>7
      <4>2. QED
        BY <2>4, <4>1, Zenon
    <3>3. strange' \/ root' = <<"">> \/ root' \in Dirs
      BY <2>3, <3>1, Zenon DEF BrowserInv
    <3>4. BrowserTypeOK'
      BY <1>1, <2>2, <3>1, Zenon DEF BrowserTypeOK
    <3>5. bpc' # "prompt"
      BY <3>1
    <3>6. RootIsDirectory'
      BY <3>5, Zenon DEF RootIsDirectory
    <3>7. OverrunNeedsStrange'
      BY <3>2, Zenon DEF OverrunNeedsStrange
    <3>8. QED
      BY <3>3, <3>4, <3>5, <3>6, <3>7, Zenon DEF BrowserInv
  <2>8. QED
    BY <2>6, <2>7
<1>5. CASE NoSuchFolder
  BY <1>2, <1>5, Zenon DEF NoSuchFolder
<1>6. CASE Quit
  <2>1. bpc' = "ended" /\ root' = root /\ strange' = strange
    BY <1>6 DEF Quit
  <2>2. bpc' # "prompt" /\ bpc' # "overrun" /\ bpc' \in {"prompt", "ended", "overrun"}
    BY <2>1
  <2>3. BrowserTypeOK'
    BY <1>1, <2>1, <2>2, Zenon DEF BrowserTypeOK
  <2>4. RootIsDirectory' /\ OverrunNeedsStrange'
    BY <2>2, Zenon DEF RootIsDirectory, OverrunNeedsStrange
  <2>5. strange' \/ root' = <<"">> \/ root' \in Dirs
    BY <2>1, Zenon DEF BrowserInv
  <2>6. QED
    BY <2>2, <2>3, <2>4, <2>5, Zenon DEF BrowserInv
<1>7. QED
  BY <1>2, <1>3, <1>4, <1>5, <1>6 DEF BrowserNext

\* Hence on all behaviours, for every tree of directories and every input.
LEMMA BrowserInvariance == BrowserSpec => []BrowserInv
BY BrowserStart, BrowserStep, PTL DEF BrowserSpec

\* However one walks, root names a directory, for every tree of directories, every
\* input scanf() can return and every size of root; the exception is a root that fits
\* exactly, taken while what was tried had lost its last character (l.157, l.161).
THEOREM RootStaysDirectory == BrowserSpec => []RootIsDirectory
<1>1. BrowserInv => RootIsDirectory
  BY DEF BrowserInv
<1>2. QED
  BY <1>1, BrowserInvariance, PTL

\* Who takes the names of directories, and nothing else, writes past root only where
\* there is a directory whose path does not fit in it (l.78).
THEOREM NamesOverrunDeepTrees == BrowserSpec => []OverrunNeedsStrange
<1>1. BrowserInv => OverrunNeedsStrange
  BY DEF BrowserInv
<1>2. QED
  BY <1>1, BrowserInvariance, PTL

(***************************************************************************)
(* The lab                                                                 *)
(* A step of one program is no step of the others.                         *)
(***************************************************************************)

\* Whatever happens, every program makes a step of its own or none.
LEMMA EachItsOwn ==
    [LabNext]_labVars =>
        /\ [ShareNext]_shareVars /\ [SessionNext]_sessionVars /\ [UdpChatNext]_udpChatVars
        /\ [EchoNext]_echoVars /\ [TelnetNext]_telnetVars /\ [ListingNext]_listingVars
        /\ [BrowserNext]_browserVars
<1> SUFFICES ASSUME [LabNext]_labVars
             PROVE  /\ [ShareNext]_shareVars /\ [SessionNext]_sessionVars /\ [UdpChatNext]_udpChatVars
                    /\ [EchoNext]_echoVars /\ [TelnetNext]_telnetVars /\ [ListingNext]_listingVars
                    /\ [BrowserNext]_browserVars
  OBVIOUS
<1>1. CASE Share(ShareNext)
  BY <1>1 DEF Share
<1>2. CASE Session(SessionNext)
  BY <1>2 DEF Session
<1>3. CASE Chat(UdpChatNext)
  BY <1>3 DEF Chat
<1>4. CASE Pair(EchoNext)
  BY <1>4 DEF Pair
<1>5. CASE Telnet(TelnetNext)
  BY <1>5 DEF Telnet
<1>6. CASE Listing(ListingNext)
  BY <1>6 DEF Listing
<1>7. CASE Browser(BrowserNext)
  BY <1>7 DEF Browser
<1>8. CASE UNCHANGED labVars
  BY <1>8 DEF labVars
<1>9. QED
  BY <1>1, <1>2, <1>3, <1>4, <1>5, <1>6, <1>7, <1>8 DEF LabNext

\* Side by side, every program has the types and the inductive invariant it has on
\* its own, for every value of the constants: the bounds of the runs are none here.
THEOREM LabIsSafe == LabSpec => []LabInv
<1>1. LabInit => LabInv
  BY ShareStart, ShareTypeStart, SessionStart, UdpChatStart, UdpChatTypeStart, EchoStart,
     EchoTypeStart, TelnetStart, ListingStart, ListingTypeStart, BrowserStart
  DEF LabInit, LabInv
<1>2. LabInv /\ [LabNext]_labVars => LabInv'
  BY EachItsOwn, ShareStep, ShareTypeStep, SessionStep, UdpChatStep, UdpChatTypeStep, EchoStep,
     EchoTypeStep, TelnetStep, ListingStep, ListingTypeStep, BrowserStep
  DEF LabInv
<1>3. QED
  BY <1>1, <1>2, PTL DEF LabSpec
=============================================================================
