---------------------------- MODULE CommandServer ----------------------------
(***************************************************************************)
(* simple-ssh-simulation.cpp ("shell") and simple-tcp-server.cpp           *)
(* ("welcome"): accept one client, greet it, answer it, close.  A stream   *)
(* has no lines: recv() returns any number of them at once.                *)
(***************************************************************************)
EXTENDS TcpLink

CONSTANTS
    RecvLines,          \* lines one recv() may return (sizeof(buffer) - 1)
    Outputs,            \* how much a command may print (bounds the model)
    NoUser

ASSUME OutputsAssumption == Outputs \subseteq Nat \ {0} /\ RecvLines \in Nat \ {0}
ASSUME NoUserAssumption == NoUser \notin Users

VARIABLES
    service,            \* which of the two programs was started
    spc, client, owed,  \* where it is, the client it serves, output still to send
    ran,                \* the lines of each user the shell has run (history)
    goodbye, failed     \* the line understood as exit, or 0; users popen has
                        \* failed (history)

heard == <<ran, goodbye, failed>>
serverVars == <<service, spc, client, owed, heard>>

ServerTypeOK ==
    /\ service \in {"off", "shell", "welcome"}
    /\ spc \in {"off", "accept", "greet", "recv", "reply", "bye", "dead"}
    /\ client \in Users \cup {NoUser} /\ owed \in Nat
    /\ ran \in [Users -> SUBSET Nat] /\ goodbye \in [Users -> Nat]
    /\ failed \subseteq Users
    /\ IF spc \in {"greet", "recv", "reply", "bye"}
       THEN client \in Users /\ remote[client] = "open"
       ELSE client = NoUser
    /\ \A c \in Users : remote[c] = "open" => c = client

ServerInit ==
    /\ service = "off" /\ spc = "off"
    /\ client = NoUser /\ owed = 0
    /\ ran = [c \in Users |-> {}] /\ goodbye = [c \in Users |-> 0] /\ failed = {}

Listening == spc \notin {"off", "dead"}

StartService ==
    /\ spc = "off"
    /\ service' \in {"shell", "welcome"}
    /\ spc' = "accept"
    /\ UNCHANGED <<client, owed, heard, linkVars>>

AcceptAndGreet ==
    /\ spc = "accept"
    /\ \E c \in Users :
        /\ remote[c] = "queued"
        /\ remote' = [remote EXCEPT ![c] = "open"]
        /\ client' = c
    /\ spc' = "greet" /\ owed' = 1
    /\ UNCHANGED <<service, heard, wrote, taken, told, shown, fin, local>>

CloseClient ==
    /\ remote' = [remote EXCEPT ![client] = "closed"]
    /\ client' = NoUser /\ spc' = "accept" /\ owed' = 0

\* send() blocks until the last of it has found room.
SendMore ==
    /\ spc \in {"greet", "reply", "bye"} /\ owed > 0
    /\ local[client] = "open" /\ ~DownFull(client)
    /\ told' = [told EXCEPT ![client] = @ + 1]
    /\ owed' = owed - 1
    /\ UNCHANGED <<service, spc, client, heard, wrote, taken, shown, fin, local, remote>>

\* The client is gone: send fails, which is not looked at, or SIGPIPE ends the
\* server, and the kernel closes every connection it had.
SendToNobody ==
    /\ spc \in {"greet", "reply", "bye"} /\ owed > 0 /\ local[client] = "closed"
    /\ owed' = 0
    /\ \/ UNCHANGED <<spc, client, remote>>
       \/ /\ spc' = "dead" /\ client' = NoUser
          /\ remote' = [c \in Users |-> IF remote[c] = "none" THEN "none" ELSE "closed"]
    /\ UNCHANGED <<service, heard, wrote, taken, told, shown, fin, local>>

SendReturned ==
    /\ spc \in {"greet", "reply", "bye"} /\ owed = 0
    /\ IF spc = "bye"
       THEN CloseClient
       ELSE spc' = "recv" /\ UNCHANGED <<client, owed, remote>>
    /\ UNCHANGED <<service, heard, wrote, taken, told, shown, fin, local>>

\* The lines of a chunk that the shell of popen runs: it ends with an exit.
Run(chunk) == {i \in 1..Len(chunk) : \A j \in 1..(i - 1) : chunk[j] # "exit"}

\* The shell: "exit" only if that is all recv returned (l.93-105); a chunk with
\* something dangerous in it is refused as a whole (l.109-111); anything else is
\* given to one shell, if popen can start it (l.17-20), and whatever has become of
\* it there is some output (l.113-120).
Understand(chunk) ==
    IF chunk = <<"exit">>
    THEN /\ spc' = "bye" /\ owed' = 1
         /\ goodbye' = [goodbye EXCEPT ![client] = taken[client] + 1]
         /\ UNCHANGED <<ran, failed>>
    ELSE /\ spc' = "reply" /\ UNCHANGED goodbye
         /\ IF \E i \in 1..Len(chunk) : chunk[i] = "rm -rf"
            THEN owed' = 1 /\ UNCHANGED <<ran, failed>>
            ELSE \/ /\ owed' = 1 /\ failed' = failed \cup {client}
                    /\ UNCHANGED ran
                 \/ /\ owed' \in Outputs /\ UNCHANGED failed
                    /\ ran' = [ran EXCEPT ![client] =
                                  @ \cup {taken[client] + i : i \in Run(chunk)}]

ServerRecv ==
    /\ spc = "recv"
    /\ \E k \in 1..RecvLines :
        /\ taken[client] + k =< wrote[client]
        /\ taken' = [taken EXCEPT ![client] = @ + k]
        /\ IF service = "welcome"
           THEN CloseClient /\ UNCHANGED heard
           ELSE /\ Understand(SubSeq(Typed[client], taken[client] + 1, taken[client] + k))
                /\ UNCHANGED <<client, remote>>
    /\ UNCHANGED <<service, wrote, told, shown, fin, local>>

\* recv() is 0 after the last line, or an error once the client is gone.
ServerRecvEnds ==
    /\ spc = "recv" /\ fin[client]
    /\ taken[client] = wrote[client] \/ local[client] = "closed"
    /\ CloseClient
    /\ UNCHANGED <<service, heard, wrote, taken, told, shown, fin, local>>

ServerStep ==
    \/ AcceptAndGreet \/ SendMore \/ SendToNobody \/ SendReturned
    \/ ServerRecv \/ ServerRecvEnds
=============================================================================
