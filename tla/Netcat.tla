------------------------------- MODULE Netcat -------------------------------
(***************************************************************************)
(* simple-netcat-client.cpp: a select loop that relays stdin to a socket   *)
(* and the socket to stdout.  It is one thread: while send() waits for     *)
(* room, nothing is read from the socket.                                  *)
(***************************************************************************)
EXTENDS TcpLink

CONSTANTS
    RelayMax,           \* lines one read() of stdin may return (4096 bytes)
    Quiet               \* users whose stdin stays open when they have typed all

ASSUME RelayAssumption == RelayMax \in Nat \ {0}

VARIABLES
    npc,                \* where each netcat is in its loop
    fetched, left,      \* lines read from stdin; n - off of the send loop
    flagged,            \* FD_ISSET(sock, &rfds), as select left it
    late                \* it sent after the server had closed (history)

netcatVars == <<npc, fetched, left, flagged, late>>

NetcatTypeOK ==
    /\ npc \in [Users -> {"off", "select", "send", "recv", "done", "aborted"}]
    /\ fetched \in [Users -> Nat] /\ left \in [Users -> 0..RelayMax]
    /\ \A c \in Users : fetched[c] =< Len(Typed[c]) /\ (npc[c] = "send" <=> left[c] > 0)
    /\ flagged \in [Users -> BOOLEAN] /\ late \in [Users -> BOOLEAN]

NetcatInit ==
    /\ npc = [c \in Users |-> "off"]
    /\ fetched = [c \in Users |-> 0] /\ left = [c \in Users |-> 0]
    /\ flagged = [c \in Users |-> FALSE] /\ late = [c \in Users |-> FALSE]

\* goto end, a signal, or the end of main: the kernel closes the socket.
Stops(c, how) ==
    /\ npc' = [npc EXCEPT ![c] = how]
    /\ left' = [left EXCEPT ![c] = 0]
    /\ fin' = [fin EXCEPT ![c] = TRUE]
    /\ local' = [local EXCEPT ![c] = "closed"]

\* l.28-32: connect() succeeds as soon as the server listens.
Connect(c, listening) ==
    /\ npc[c] = "off"
    /\ npc' = [npc EXCEPT ![c] = IF listening THEN "select" ELSE "done"]
    /\ local' = [local EXCEPT ![c] = IF listening THEN "open" ELSE "closed"]
    /\ remote' = [remote EXCEPT ![c] = IF listening THEN "queued" ELSE "closed"]
    /\ UNCHANGED <<wrote, taken, told, shown, fin, fetched, left, flagged, late>>

\* l.35-49: select, and stdin has lines.
ReadStdin(c) ==
    /\ npc[c] = "select"
    /\ \E k \in 1..RelayMax :
        /\ fetched[c] + k =< Len(Typed[c])
        /\ fetched' = [fetched EXCEPT ![c] = @ + k]
        /\ left' = [left EXCEPT ![c] = k]
    /\ flagged' = [flagged EXCEPT ![c] = Readable(c)]
    /\ npc' = [npc EXCEPT ![c] = "send"]
    /\ UNCHANGED <<linkVars, late>>

\* The whole socket closed at the end of stdin (mutant).
EndOfStdinCloses(c) ==
    /\ npc[c] = "select" /\ ~fin[c] /\ c \notin Quiet
    /\ fetched[c] = Len(Typed[c])
    /\ Stops(c, "done")
    /\ UNCHANGED <<wrote, taken, told, shown, remote, fetched, flagged, late>>

\* stdin_closed without the shutdown (mutant).
EndOfStdinNoShutdown(c) ==
    /\ npc[c] = "select" /\ ~fin[c] /\ c \notin Quiet
    /\ fetched[c] = Len(Typed[c])
    /\ npc' = [npc EXCEPT ![c] = IF Readable(c) THEN "recv" ELSE "select"]
    /\ UNCHANGED <<linkVars, fetched, left, flagged, late>>

\* l.50-52: stdin has ended; only the writing half is shut down.
EndOfStdin(c) ==
    /\ npc[c] = "select" /\ ~fin[c] /\ c \notin Quiet
    /\ fetched[c] = Len(Typed[c])
    /\ fin' = [fin EXCEPT ![c] = TRUE]
    /\ npc' = [npc EXCEPT ![c] = IF Readable(c) THEN "recv" ELSE "select"]
    /\ UNCHANGED <<wrote, taken, told, shown, local, remote, fetched, left, flagged, late>>

\* l.35-47: select, and only the socket has something.
SocketReady(c) ==
    /\ npc[c] = "select" /\ Readable(c)
    /\ npc' = [npc EXCEPT ![c] = "recv"]
    /\ UNCHANGED <<linkVars, fetched, left, flagged, late>>

AfterSend(c, rest) ==
    IF rest > 0 THEN "send" ELSE IF flagged[c] THEN "recv" ELSE "select"

\* The result of send() not looked at: the rest is forgotten (mutant).
SendPartOnly(c) ==
    /\ npc[c] = "send" /\ remote[c] # "closed" /\ ~UpFull(c)
    /\ wrote' = [wrote EXCEPT ![c] = @ + 1]
    /\ left' = [left EXCEPT ![c] = 0]
    /\ npc' = [npc EXCEPT ![c] = AfterSend(c, 0)]
    /\ UNCHANGED <<taken, told, shown, fin, local, remote, fetched, flagged, late>>

\* l.54-62: the kernel takes a part of what is left as soon as there is room.
SendPart(c) ==
    /\ npc[c] = "send" /\ remote[c] # "closed" /\ ~UpFull(c)
    /\ wrote' = [wrote EXCEPT ![c] = @ + 1]
    /\ left' = [left EXCEPT ![c] = @ - 1]
    /\ npc' = [npc EXCEPT ![c] = AfterSend(c, left[c] - 1)]
    /\ UNCHANGED <<taken, told, shown, fin, local, remote, fetched, flagged, late>>

\* The server has closed: the kernel takes the rest for nothing, or send fails
\* or raises SIGPIPE, and the program is over (l.57-60).
SendLate(c) ==
    /\ npc[c] = "send" /\ remote[c] = "closed"
    /\ late' = [late EXCEPT ![c] = TRUE]
    /\ \/ /\ left' = [left EXCEPT ![c] = 0]
          /\ npc' = [npc EXCEPT ![c] = AfterSend(c, 0)]
          /\ UNCHANGED <<fin, local>>
       \/ Stops(c, "done")
    /\ UNCHANGED <<wrote, taken, told, shown, remote, fetched, flagged>>

\* l.65-71, 78-79: recv, and all of it to stdout.
ShowOutput(c) ==
    /\ npc[c] = "recv" /\ shown[c] < told[c]
    /\ shown' = [shown EXCEPT ![c] = told[c]]
    /\ npc' = [npc EXCEPT ![c] = "select"]
    /\ UNCHANGED <<wrote, taken, told, fin, local, remote, fetched, left, flagged, late>>

\* l.68-70: recv says end of file, or a reset that may overtake unread output.
EndOfSocket(c) ==
    /\ npc[c] = "recv" /\ remote[c] = "closed"
    /\ shown[c] = told[c] \/ Reset(c) \/ late[c]
    /\ Stops(c, "done")
    /\ UNCHANGED <<wrote, taken, told, shown, remote, fetched, flagged, late>>

\* select fails (l.42-46), or stdout takes only a part of what recv has returned,
\* and no more (l.72-77); if it is a pipe, SIGPIPE does the same.
Breaks(c) ==
    /\ \/ npc[c] = "select" /\ UNCHANGED shown
       \/ /\ npc[c] = "recv" /\ shown[c] < told[c]
          /\ \E k \in shown[c]..(told[c] - 1) : shown' = [shown EXCEPT ![c] = k]
    /\ Stops(c, "aborted")
    /\ UNCHANGED <<wrote, taken, told, remote, fetched, flagged, late>>

\* Ctrl-C.
Kill(c) ==
    /\ npc[c] \in {"select", "send", "recv"}
    /\ Stops(c, "aborted")
    /\ UNCHANGED <<wrote, taken, told, shown, remote, fetched, flagged, late>>

NetcatStep(c) ==
    \/ ReadStdin(c) \/ EndOfStdin(c) \/ SocketReady(c)
    \/ SendPart(c) \/ SendLate(c) \/ ShowOutput(c) \/ EndOfSocket(c)
=============================================================================
