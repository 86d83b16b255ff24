--------------------------- MODULE CommandSession ---------------------------
(***************************************************************************)
(* Users of the netcat client against the command server or the welcome    *)
(* server, which serve one of them at a time.                              *)
(***************************************************************************)
EXTENDS Netcat, CommandServer

sessionVars == <<linkVars, netcatVars, serverVars>>

SessionTypeOK == LinkTypeOK /\ NetcatTypeOK /\ ServerTypeOK

SessionInit == LinkInit /\ NetcatInit /\ ServerInit

User(c) == (Connect(c, Listening) \/ NetcatStep(c)) /\ UNCHANGED serverVars
Server == ServerStep /\ UNCHANGED netcatVars

SessionNext ==
    \/ StartService /\ UNCHANGED netcatVars
    \/ Server
    \/ \E c \in Users : User(c)
    \/ \E c \in Users : (Breaks(c) \/ Kill(c)) /\ UNCHANGED serverVars

SessionSpec ==
    /\ SessionInit /\ [][SessionNext]_sessionVars
    /\ WF_sessionVars(Server)
    /\ \A c \in Users : WF_sessionVars(User(c))

(***************************************************************************)
(* Properties                                                              *)
(***************************************************************************)

\* Its user has interrupted it, or select or stdout has failed it.
Aborted(c) == npc[c] = "aborted"

\* A client leaves by itself only once the server has closed, so SIGPIPE ends the
\* server (l.79, l.102, l.120) only if some client was aborted.
DeathNeedsAbort == spc = "dead" => \E c \in Users : Aborted(c)

\* As long as stdout takes it, what the server sent is printed to the last byte,
\* half-close or not, unless lines the server never read reset the connection or
\* the client sent too late.
OutputPrinted ==
    \A c \in Users :
        npc[c] = "done" /\ ~late[c] /\ ~Reset(c) => shown[c] = told[c]

\* Line i of c goes without being run: it comes with or after the exit that was
\* understood, its chunk has an exit before it, or a line that is refused.
Excused(c, i) ==
    \/ goodbye[c] \in 1..i
    \/ \E j \in 1..(i - 1) : Typed[c][j] = "exit" /\ i < j + RecvLines
    \/ \E j \in 1..Len(Typed[c]) :
         Typed[c][j] = "rm -rf" /\ i < j + RecvLines /\ j < i + RecvLines

\* With the shell, a client that ended by itself has had every line run, in
\* whatever pieces they came (l.84), unless it is one of these, popen failed, or the
\* server died.
EverythingRun ==
    \A c \in Users :
        npc[c] = "done" /\ service = "shell" /\ told[c] > 0 /\ spc # "dead" /\ c \notin failed
            => \A i \in 1..Len(Typed[c]) : i \in ran[c] \/ Excused(c, i)

\* What the server has read from c was run, or is excused.
TakenRun(c) ==
    service = "shell" /\ c \notin failed => \A i \in 1..taken[c] : i \in ran[c] \/ Excused(c, i)

\* The inductive invariant: what each end of a connection knows of the other.  A
\* client is gone before the server has closed (l.60, l.70) only if it was aborted,
\* whoever sends no more has typed and sent everything, and what the server has read
\* was run or is excused.
UserInv(c) ==
    /\ npc[c] = "off" <=> local[c] = "none"
    /\ npc[c] = "off" <=> remote[c] = "none"
    /\ npc[c] = "off" =>
         fetched[c] = 0 /\ wrote[c] = 0 /\ told[c] = 0 /\ ~fin[c] /\ ~late[c]
    /\ spc = "off" => taken[c] = 0 /\ told[c] = 0
    /\ npc[c] = "done" \/ Aborted(c) <=> local[c] = "closed"
    /\ npc[c] = "done" => remote[c] = "closed"
    /\ wrote[c] =< fetched[c]
    /\ remote[c] # "closed" /\ ~Aborted(c) => wrote[c] + left[c] = fetched[c]
    /\ fin[c] /\ npc[c] # "done" /\ ~Aborted(c) => fetched[c] = Len(Typed[c]) /\ left[c] = 0
    /\ npc[c] = "done" /\ ~late[c] /\ ~Reset(c) => shown[c] = told[c]
    /\ goodbye[c] # 0 =>
         taken[c] = goodbye[c] /\ (remote[c] = "closed" \/ (spc = "bye" /\ client = c))
    /\ TakenRun(c)
    /\ remote[c] = "closed" /\ ~Aborted(c) /\ service = "shell" /\ told[c] > 0 /\ spc # "dead"
         => taken[c] = Len(Typed[c]) \/ goodbye[c] # 0

SessionInv ==
    /\ SessionTypeOK /\ DeathNeedsAbort
    /\ spc = "bye" => goodbye[client] # 0
    /\ \A c \in Users : UserInv(c)

\* send() against send(): each waits for the other to read (l.56 and l.120).
MutualWait ==
    \E c \in Users :
        /\ npc[c] = "send" /\ UpFull(c)
        /\ client = c /\ spc \in {"greet", "reply", "bye"} /\ owed > 0 /\ DownFull(c)

\* A connected user who says nothing more keeps the server in recv (l.84, l.62).
HeldUp == client \in Quiet /\ spc = "recv" /\ npc[client] = "select" /\ taken[client] = wrote[client]

\* Once there is a server every client ends, unless the two sends wait for each other or somebody quiet
\* holds the server up; these two are the only ways to wait for ever.
SessionsEnd ==
    <>[](\/ service = "off"
         \/ \A c \in Users : npc[c] = "done" \/ Aborted(c)
         \/ MutualWait \/ HeldUp)
=============================================================================
