------------------------------- MODULE UdpEcho -------------------------------
(***************************************************************************)
(* simple-udp-client-and-server.cpp: a server that sends back what it gets *)
(* to port 6000, whoever asked, and a client on that port that waits for   *)
(* an answer after every line.  Everything happens on one machine (l.86),  *)
(* so a datagram is lost only if nobody is bound where it goes, or if the  *)
(* process that had received it is stopped.                                *)
(***************************************************************************)
EXTENDS Naturals, Sequences

CONSTANTS
    MaxRuns,            \* how often the client is started (bounds the model)
    MaxStops,           \* how often the server is stopped (bounds the model)
    MaxLines            \* lines typed into each client (bounds the model)

ASSUME BoundsAssumption == MaxRuns \in Nat /\ MaxStops \in Nat /\ MaxLines \in Nat

VARIABLES
    together,           \* mode "both": server and client are one process
    echo, held,         \* where the server is, the datagram it holds
    asker, run, line,   \* where the client is, which run of it, lines typed
    port5000, port6000, \* the receive queues of the two sockets
    stops,              \* times the server was stopped
    dropped, leftover,  \* a request or answer was lost since the client was
                        \* started; a client left one behind (history)
    astray              \* an answer was shown for another line (history)

echoVars == <<together, echo, held, asker, run, line, port5000, port6000,
              stops, dropped, leftover, astray>>

Nothing == <<0, 0>>

\* A client has at most one line under way, and leaves at most that one behind.
OneEachRun ==
    LET waiting == Len(port5000) + Len(port6000) + (IF echo = "reply" THEN 1 ELSE 0)
    IN  waiting =< run - (IF asker = "prompt" THEN 1 ELSE 0)

EchoTypeOK ==
    /\ together \in BOOLEAN /\ dropped \in BOOLEAN /\ leftover \in BOOLEAN
    /\ echo \in {"off", "recv", "reply"} /\ asker \in {"off", "prompt", "wait"}
    /\ run \in 0..MaxRuns /\ line \in 0..MaxLines /\ stops \in 0..MaxStops
    /\ port5000 \in Seq(Nat \X Nat) /\ port6000 \in Seq(Nat \X Nat) /\ held \in Nat \X Nat
    /\ OneEachRun /\ astray \in BOOLEAN

EchoInit ==
    /\ together = FALSE /\ echo = "off" /\ held = Nothing
    /\ asker = "off" /\ run = 0 /\ line = 0
    /\ port5000 = <<>> /\ port6000 = <<>> /\ stops = 0
    /\ dropped = FALSE /\ leftover = FALSE /\ astray = FALSE

\* A client starts with the port to itself and nothing in it.
NewClient ==
    /\ asker' = "prompt" /\ run' = run + 1 /\ line' = 0 /\ port6000' = <<>>
    /\ dropped' = FALSE

StartEcho ==
    /\ echo = "off"
    /\ echo' = "recv"
    /\ UNCHANGED <<together, held, asker, run, line, port5000, port6000,
                   stops, dropped, leftover, astray>>

StartAsker ==
    /\ asker = "off" /\ run < MaxRuns
    /\ NewClient
    /\ UNCHANGED <<together, echo, held, port5000, stops, leftover, astray>>

\* l.134-139: two threads; the client only sleeps for the server to be ready.
StartBoth ==
    /\ echo = "off" /\ asker = "off" /\ run < MaxRuns
    /\ together' = TRUE
    /\ NewClient
    /\ UNCHANGED <<echo, held, port5000, stops, leftover, astray>>

\* l.35-47.
EchoReceive ==
    /\ echo = "recv" /\ port5000 # <<>>
    /\ held' = Head(port5000) /\ port5000' = Tail(port5000)
    /\ echo' = "reply"
    /\ UNCHANGED <<together, asker, run, line, port6000, stops, dropped, leftover, astray>>

\* Only the first line of a client is answered (mutant).
EchoReplyOnlyFirst ==
    /\ echo = "reply"
    /\ port6000' = IF asker = "off" \/ held[2] > 1 THEN port6000 ELSE Append(port6000, held)
    /\ dropped' = (dropped \/ asker = "off")
    /\ held' = Nothing /\ echo' = "recv"
    /\ UNCHANGED <<together, asker, run, line, port5000, stops, leftover, astray>>

\* l.49-52: back to the sender's machine, but always to port 6000.
EchoReply ==
    /\ echo = "reply"
    /\ port6000' = IF asker = "off" THEN port6000 ELSE Append(port6000, held)
    /\ dropped' = (dropped \/ asker = "off")
    /\ held' = Nothing /\ echo' = "recv"
    /\ UNCHANGED <<together, asker, run, line, port5000, stops, leftover, astray>>

\* The answer is not waited for (mutant).
AskOnly ==
    /\ asker = "prompt" /\ line < MaxLines
    /\ line' = line + 1
    /\ port5000' = IF echo = "off" THEN port5000 ELSE Append(port5000, <<run, line + 1>>)
    /\ dropped' = (dropped \/ echo = "off")
    /\ asker' \in {"wait", "prompt"}
    /\ UNCHANGED <<together, echo, held, run, port6000, stops, leftover, astray>>

\* l.92-101.
Ask ==
    /\ asker = "prompt" /\ line < MaxLines
    /\ line' = line + 1
    /\ port5000' = IF echo = "off" THEN port5000 ELSE Append(port5000, <<run, line + 1>>)
    /\ dropped' = (dropped \/ echo = "off")
    /\ asker' = "wait"
    /\ UNCHANGED <<together, echo, held, run, port6000, stops, leftover, astray>>

\* l.107-116: whatever comes first is the answer.
ShowAnswer ==
    /\ asker = "wait" /\ port6000 # <<>>
    /\ astray' = (astray \/ Head(port6000) # <<run, line>>)
    /\ port6000' = Tail(port6000)
    /\ asker' = "prompt"
    /\ UNCHANGED <<together, echo, held, run, line, port5000, stops, dropped, leftover>>

\* The process of the server ends, and what it had received with it.
EchoGone ==
    /\ echo' = "off" /\ held' = Nothing /\ port5000' = <<>>

\* End of input at the prompt, or Ctrl-C; in mode "both" the server goes too.
AskerEnds ==
    /\ asker # "off"
    /\ asker' = "off" /\ port6000' = <<>>
    /\ IF together
       THEN EchoGone /\ UNCHANGED leftover
       ELSE /\ leftover' = (leftover \/ asker = "wait")
            /\ UNCHANGED <<echo, held, port5000>>
    /\ together' = FALSE
    /\ UNCHANGED <<run, line, stops, dropped, astray>>

EchoStops ==
    /\ echo # "off" /\ ~together /\ stops < MaxStops
    /\ stops' = stops + 1
    /\ dropped' = (dropped \/ held # Nothing \/ port5000 # <<>>)
    /\ EchoGone
    /\ UNCHANGED <<together, asker, run, line, port6000, leftover, astray>>

Echo == EchoReceive \/ EchoReply

EchoNext ==
    \/ StartEcho \/ StartAsker \/ StartBoth \/ Echo
    \/ Ask \/ ShowAnswer \/ AskerEnds \/ EchoStops

EchoSpec ==
    /\ EchoInit /\ [][EchoNext]_echoVars
    /\ WF_echoVars(Echo) /\ WF_echoVars(ShowAnswer)

(***************************************************************************)
(* Properties                                                              *)
(***************************************************************************)

\* The client compares nothing (l.107-116), yet the answer it shows is the one
\* to its line, unless an earlier client was stopped while it waited and left a
\* request behind, whose answer then comes first.
OwnAnswer == astray => leftover /\ run > 1

\* The inductive invariant: until a client leaves a request behind, what is under
\* way (l.35-52, l.101) is the one line its client waits for.
EchoInv ==
    /\ OwnAnswer
    /\ run \in Nat /\ line \in Nat
    /\ asker # "off" => run > 0
    /\ leftover => run > (IF asker = "off" THEN 0 ELSE 1)
    /\ ~leftover =>
        /\ port5000 # <<>> => /\ asker = "wait" /\ port5000 = <<<<run, line>>>>
                              /\ echo # "reply" /\ port6000 = <<>>
        /\ echo = "reply" => asker = "wait" /\ held = <<run, line>> /\ port6000 = <<>>
        /\ port6000 # <<>> => asker = "wait" /\ port6000 = <<<<run, line>>>>

\* Nothing is ever asked twice and nothing times out (l.107), yet a client only waits
\* for ever if a datagram was lost since it was started.
WaitsOnlyForLost == asker = "wait" ~> asker # "wait" \/ dropped
=============================================================================
