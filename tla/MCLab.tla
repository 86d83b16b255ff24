-------------------------------- MODULE MCLab --------------------------------
(***************************************************************************)
(* The small programs of the lab side by side for TLC: a behaviour is one  *)
(* of one program, chosen in the initial state, while the others have not  *)
(* been started.  The state space is the sum of theirs, not the product.   *)
(***************************************************************************)
EXTENDS FileShare, CommandSession, UdpChat, UdpEcho, TelnetLog, DirListing, DirBrowser

VARIABLE program        \* which program this behaviour is of; never changes

LabHost == [c \in Peers |-> "h1"]
LabCommands == [c \in Peers |-> IF c = "p1" THEN 2 ELSE 0]
LabCounts == {-1, 0, 2}
LabTyped == [c \in Users |-> IF c = "u1" THEN <<"rm -rf", "exit", "cmd", "cmd">> ELSE <<>>]
LabDirs == {<<>>, <<"m">>, <<"m", "c">>, <<"m", "c", "d">>, <<"e">>}
LabInputs ==
    {<<s>> : s \in {"m", "c", "d", "e", "x", "."}}
        \cup {<<"c", "">>, <<".", "">>, <<"..", "e">>, <<"", "">>}
LabStart == <<"m", "c">>

labVars == <<program, shareVars, sessionVars, udpChatVars, echoVars, telnetVars,
             listingVars, browserVars>>

\* A step of one program is one of its own and leaves everything else alone.
Share(A) ==
    /\ program = "share" /\ A
    /\ UNCHANGED <<program, sessionVars, udpChatVars, echoVars, telnetVars, listingVars, browserVars>>
Session(A) ==
    /\ program = "session" /\ A
    /\ UNCHANGED <<program, shareVars, udpChatVars, echoVars, telnetVars, listingVars, browserVars>>
Chat(A) ==
    /\ program = "chat" /\ A
    /\ UNCHANGED <<program, shareVars, sessionVars, echoVars, telnetVars, listingVars, browserVars>>
Pair(A) ==
    /\ program = "echo" /\ A
    /\ UNCHANGED <<program, shareVars, sessionVars, udpChatVars, telnetVars, listingVars, browserVars>>
Telnet(A) ==
    /\ program = "telnet" /\ A
    /\ UNCHANGED <<program, shareVars, sessionVars, udpChatVars, echoVars, listingVars, browserVars>>
Listing(A) ==
    /\ program = "listing" /\ A
    /\ UNCHANGED <<program, shareVars, sessionVars, udpChatVars, echoVars, telnetVars, browserVars>>
Browser(A) ==
    /\ program = "browser" /\ A
    /\ UNCHANGED <<program, shareVars, sessionVars, udpChatVars, echoVars, telnetVars, listingVars>>

LabInit ==
    /\ program \in {"share", "session", "chat", "echo", "telnet", "listing", "browser"}
    /\ ShareInit /\ SessionInit /\ UdpChatInit /\ EchoInit
    /\ TelnetInit /\ ListingInit /\ BrowserInit

LabNext ==
    \/ Share(ShareNext) \/ Session(SessionNext) \/ Chat(UdpChatNext) \/ Pair(EchoNext)
    \/ Telnet(TelnetNext) \/ Listing(ListingNext) \/ Browser(BrowserNext)

\* The fairness of each program's own specification.
LabSpec ==
    /\ LabInit /\ [][LabNext]_labVars
    /\ \A c \in Peers : WF_labVars(Share(ParentReturns(c)))
    /\ WF_labVars(Session(Server))
    /\ \A c \in Users : WF_labVars(Session(User(c)))
    /\ WF_labVars(Pair(Echo)) /\ WF_labVars(Pair(ShowAnswer))

\* Every variable of every program has its type, and each program the inductive
\* invariant of its proof.
LabInv ==
    /\ ShareTypeOK /\ UdpChatTypeOK /\ EchoTypeOK /\ ListingTypeOK
    /\ ShareInv /\ SessionInv /\ UdpChatInv /\ EchoInv /\ TelnetInv /\ ListingInv /\ BrowserInv
=============================================================================
