------------------------------- MODULE TftpGet -------------------------------
(***************************************************************************)
(* tftp_get of trivial-file-transfer-protocol.c, over a network that       *)
(* loses, repeats and reorders datagrams, from a server that is not in the *)
(* repository: an ordinary one, which serves every request it receives     *)
(* from a port of its own (a session), sends block after block in lockstep *)
(* and repeats the last one for a while.                                   *)
(*                                                                         *)
(* Block k of the file is the number k.  A datagram carries k % Mod, as a  *)
(* 16-bit field does; k itself is kept beside it only to know what is in   *)
(* the datagram, and how old it is.                                        *)
(***************************************************************************)
EXTENDS Naturals, Sequences

CONSTANTS
    Sessions,           \* server ports; more than one if the request is repeated
    None,               \* from_addr before anything is in it
    Mod,                \* block numbers are uint16_t (65536)
    MAX_RETRIES,        \* 5
    MaxTotal,           \* longest file, in blocks (bounds the model)
    ServerRetries,      \* how often the server repeats a block
    MaxLosses, MaxDups, \* what the network may do (bounds the model)
    Timely              \* TRUE: nobody times out while a datagram is under way

ASSUME NoneAssumption == None \notin Sessions
ASSUME SizesAssumption ==
    /\ Mod \in Nat /\ Mod > 1
    /\ MAX_RETRIES \in Nat /\ MaxTotal \in Nat /\ ServerRetries \in Nat
    /\ MaxLosses \in Nat /\ MaxDups \in Nat
    /\ Timely \in BOOLEAN

VARIABLES
    total,              \* blocks of the remote file; the last one is short
    pc, retries, expected_block, from_addr, result,     \* tftp_get
    written,            \* the local file
    reset,              \* an ICMP error waits to be returned by recvfrom
    phase, block, tries,\* each session: its state, its block, its repeats
    net, losses, dups   \* datagrams under way

client == <<pc, retries, expected_block, from_addr, result, written>>
sessions == <<phase, block, tries>>
network == <<net, losses, dups>>
vars == <<total, client, reset, sessions, network>>

Request == [op |-> "rrq"]
Data(s, k) == [op |-> "data", port |-> s, blk |-> k]
Ack(s, k) == [op |-> "ack", port |-> s, blk |-> k]
Error(s) == [op |-> "error", port |-> s]

Datagrams ==
    {Request} \cup {Error(s) : s \in Sessions}
    \cup [op : {"data", "ack"}, port : Sessions, blk : 0..MaxTotal]

TypeOK ==
    /\ total \in 1..MaxTotal
    /\ pc \in {"recv", "return", "done"}
    /\ retries \in 0..MAX_RETRIES + 1
    /\ expected_block \in 0..Mod - 1
    /\ from_addr \in Sessions \cup {None}
    /\ result \in {"none", "0", "-1"}
    /\ written \in Seq(1..MaxTotal)
    /\ reset \in BOOLEAN
    /\ phase \in [Sessions -> {"free", "sending", "done", "failed"}]
    /\ block \in [Sessions -> 0..MaxTotal]
    /\ tries \in [Sessions -> 0..ServerRetries]
    /\ net \subseteq Datagrams
    /\ losses \in 0..MaxLosses
    /\ dups \in 0..MaxDups

\* l.95-108: the request is sent once, before the loop.
Init ==
    /\ total \in 1..MaxTotal
    /\ pc = "recv" /\ retries = 0 /\ expected_block = 1 % Mod
    /\ from_addr = None /\ result = "none" /\ written = <<>>
    /\ reset = FALSE
    /\ phase = [s \in Sessions |-> "free"]
    /\ block = [s \in Sessions |-> 0]
    /\ tries = [s \in Sessions |-> 0]
    /\ net = {Request} /\ losses = 0 /\ dups = 0
-----------------------------------------------------------------------------
(* The network.  Delivering m while sending the set out leaves a copy of m *)
(* behind or not.                                                          *)

Deliver(m, out) ==
    \/ /\ net' = (net \ {m}) \cup out
       /\ dups' = dups
    \/ /\ dups < MaxDups
       /\ net' = net \cup out
       /\ dups' = dups + 1

Lose ==
    /\ losses < MaxLosses
    /\ \E m \in net : net' = net \ {m}
    /\ losses' = losses + 1
    /\ UNCHANGED <<total, client, reset, sessions, dups>>

\* A datagram is not delivered Mod - 1 blocks later or more: the lifetime of
\* a datagram is shorter than the time it takes to wrap around.
Fresh(now, k) == now < k + Mod
Stale(m) == m.op = "data" /\ ~Fresh(Len(written) + 1, m.blk)

\* What nobody will read any more: the program has left its loop, or every
\* port that the model has is in use.
Discard ==
    /\ \E m \in net :
         /\ \/ m.op \in {"data", "error"} /\ (pc # "recv" \/ Stale(m))
            \/ m.op = "rrq" /\ \A s \in Sessions : phase[s] # "free"
            \/ m.op = "ack" /\ ~Fresh(block[m.port], m.blk)
         /\ net' = net \ {m}
    /\ UNCHANGED <<total, client, reset, sessions, losses, dups>>

\* A timeout that is not early waits until nothing is under way, and the
\* client's last one (30 s) until the server has stopped repeating.
MayTimeOut == Timely => net = {}
MayGiveUp == Timely => \A s \in Sessions : phase[s] # "sending"
-----------------------------------------------------------------------------
(* The server.                                                             *)

ServerStart(s) ==
    /\ Request \in net
    /\ phase[s] = "free"
    /\ \/ /\ phase' = [phase EXCEPT ![s] = "sending"]
          /\ block' = [block EXCEPT ![s] = 1]
          /\ Deliver(Request, {Data(s, 1)})
       \/ /\ phase' = [phase EXCEPT ![s] = "failed"]
          /\ Deliver(Request, {Error(s)})
          /\ block' = block
    /\ UNCHANGED <<total, client, reset, tries, losses>>

ServerAck(s) ==
    /\ phase[s] = "sending"
    /\ \E m \in net :
         /\ m.op = "ack" /\ m.port = s
         /\ Fresh(block[s], m.blk)
         /\ IF m.blk % Mod # block[s] % Mod
            THEN Deliver(m, {}) /\ UNCHANGED <<phase, block, tries>>
            ELSE IF block[s] = total
            THEN /\ Deliver(m, {})
                 /\ phase' = [phase EXCEPT ![s] = "done"]
                 /\ UNCHANGED <<block, tries>>
            ELSE /\ Deliver(m, {Data(s, block[s] + 1)})
                 /\ block' = [block EXCEPT ![s] = @ + 1]
                 /\ tries' = [tries EXCEPT ![s] = 0]
                 /\ UNCHANGED phase
    /\ UNCHANGED <<total, client, reset, losses>>

ServerTimeout(s) ==
    /\ phase[s] = "sending"
    /\ MayTimeOut
    /\ IF tries[s] < ServerRetries
       THEN /\ net' = net \cup {Data(s, block[s])}
            /\ tries' = [tries EXCEPT ![s] = @ + 1]
            /\ phase' = phase
       ELSE /\ phase' = [phase EXCEPT ![s] = "failed"]
            /\ UNCHANGED <<net, tries>>
    /\ UNCHANGED <<total, client, reset, block, losses, dups>>

\* An ACK for a session that is over: its port is closed, the host says so.
PortClosed(s) ==
    /\ phase[s] \in {"done", "failed"}
    /\ \E m \in net : m.op = "ack" /\ m.port = s /\ Deliver(m, {})
    /\ reset' \in {reset, TRUE}
    /\ UNCHANGED <<total, client, sessions, losses>>
-----------------------------------------------------------------------------
(* tftp_get.                                                               *)

\* Mutant: lower numbers are written too.
NextOrOldBlock(m) ==
    /\ m.op = "data"
    /\ m.blk % Mod =< expected_block
    /\ Deliver(m, {Ack(m.port, m.blk)})
    /\ written' = Append(written, m.blk)
    /\ expected_block' = (expected_block + 1) % Mod
    /\ pc' = IF m.blk = total THEN "return" ELSE "recv"
    /\ UNCHANGED result

\* The next block: written, acknowledged to whoever sent it, and the end of
\* the loop if it is short.
NextBlock(m) ==
    /\ m.op = "data"
    /\ m.blk % Mod = expected_block
    /\ Deliver(m, {Ack(m.port, m.blk)})
    /\ written' = Append(written, m.blk)
    /\ expected_block' = (expected_block + 1) % Mod
    /\ pc' = IF m.blk = total THEN "return" ELSE "recv"
    /\ UNCHANGED result

\* Mutant: a repeated block is not acknowledged again.
OldBlockSilent(m) ==
    /\ m.op = "data"
    /\ m.blk % Mod < expected_block
    /\ Deliver(m, {})
    /\ UNCHANGED <<written, expected_block, pc, result>>

\* A lower number is acknowledged again.
OldBlock(m) ==
    /\ m.op = "data"
    /\ m.blk % Mod < expected_block
    /\ Deliver(m, {Ack(m.port, m.blk)})
    /\ UNCHANGED <<written, expected_block, pc, result>>

\* A higher one, which after a wrap may be an old one, is not.
OtherBlock(m) ==
    /\ m.op = "data"
    /\ m.blk % Mod > expected_block
    /\ Deliver(m, {})
    /\ UNCHANGED <<written, expected_block, pc, result>>

ErrorPacket(m) ==
    /\ m.op = "error"
    /\ Deliver(m, {})
    /\ pc' = "done"
    /\ result' = "-1"
    /\ UNCHANGED <<written, expected_block>>

\* recvfrom returns a datagram: whatever it is, retries starts again.
Receive ==
    /\ pc = "recv"
    /\ \E m \in net :
         /\ m.op \in {"data", "error"} /\ ~Stale(m)
         /\ NextBlock(m) \/ OldBlock(m) \/ OtherBlock(m) \/ ErrorPacket(m)
         /\ from_addr' = m.port
    /\ retries' = 0
    /\ UNCHANGED <<total, reset, sessions, losses>>

\* Mutant: the retries are not limited.
TimeoutForever ==
    /\ pc = "recv"
    /\ MayTimeOut
    /\ retries' = retries + 1
    /\ net' = net \cup (IF from_addr = None THEN {} ELSE {Ack(from_addr, Len(written))})
    /\ UNCHANGED <<total, pc, result, expected_block, from_addr, written, reset,
                   sessions, losses, dups>>

\* Mutant: the retries are not counted.
TimeoutUncounted ==
    /\ pc = "recv"
    /\ MayTimeOut
    /\ retries < MAX_RETRIES
    /\ net' = net \cup (IF from_addr = None THEN {} ELSE {Ack(from_addr, Len(written))})
    /\ UNCHANGED <<total, client, reset, sessions, losses, dups>>

\* Mutant: expected_block instead of expected_block - 1.
TimeoutAcksExpected ==
    /\ pc = "recv"
    /\ MayTimeOut
    /\ retries < MAX_RETRIES
    /\ retries' = retries + 1
    /\ net' = net \cup (IF from_addr = None THEN {}
                        ELSE {Ack(from_addr, Len(written) + 1)})
    /\ UNCHANGED <<total, pc, result, expected_block, from_addr, written, reset,
                   sessions, losses, dups>>

\* The last acknowledgement again; to nobody, while from_addr is not set.
Timeout ==
    /\ pc = "recv"
    /\ MayTimeOut
    /\ retries = MAX_RETRIES => MayGiveUp
    /\ retries' = retries + 1
    /\ IF retries < MAX_RETRIES
       THEN /\ net' = net \cup (IF from_addr = None THEN {}
                               ELSE {Ack(from_addr, Len(written))})
            /\ UNCHANGED <<pc, result>>
       ELSE pc' = "done" /\ result' = "-1" /\ net' = net
    /\ UNCHANGED <<total, expected_block, from_addr, written, reset, sessions, losses, dups>>

\* l.134-138: any other error of recvfrom.
ReceiveError ==
    /\ pc = "recv"
    /\ reset
    /\ reset' = FALSE
    /\ pc' = "done" /\ result' = "-1"
    /\ UNCHANGED <<total, retries, expected_block, from_addr, written, sessions, network>>

Return ==
    /\ pc = "return"
    /\ pc' = "done" /\ result' = "0"
    /\ UNCHANGED <<total, retries, expected_block, from_addr, written, reset, sessions, network>>
-----------------------------------------------------------------------------
Server(s) == ServerStart(s) \/ ServerAck(s) \/ ServerTimeout(s) \/ PortClosed(s)
Client == Receive \/ Timeout \/ ReceiveError \/ Return

Next == Client \/ Lose \/ Discard \/ \E s \in Sessions : Server(s)

Spec == Init /\ [][Next]_vars

(* recvfrom returns or times out; the server answers and repeats.          *)
FairSpec ==
    /\ Spec
    /\ WF_vars(Client)
    /\ WF_vars(Discard)
    /\ \A s \in Sessions : WF_vars(Server(s))
-----------------------------------------------------------------------------
\* What the result of tftp_get says of the transfer.
Verdict == CASE result = "none" -> "running"
             [] result = "0" -> "good"
             [] result = "-1" -> "bad"

Transfer == INSTANCE FileTransfer WITH size <- total, copy <- written, verdict <- Verdict

\* The local file is the beginning of the remote one in every state, whatever
\* is repeated or comes late, and the program returns 0 only with all of it.
GetIsTransfer == Transfer!Spec

\* The server is never ahead of the file: no session sends a block before all
\* the blocks below it are written, and none believes that the transfer is
\* over before the client has everything (acknowledgements of l.167, l.182
\* and, after a timeout, l.123).
NeverAhead ==
    \A s \in Sessions :
        /\ block[s] =< Len(written) + 1
        /\ phase[s] = "done" => Len(written) = total

\* The local file is the remote one up to some block, and expected_block is
\* the number of the next one.
CopyInv ==
    /\ Len(written) =< total
    /\ expected_block = (Len(written) + 1) % Mod
    /\ \A k \in 1..Len(written) : written[k] = k

\* Nothing is under way, or sent from now on, that is further than its sender.
NetInv ==
    /\ \A m \in net : m.op = "data" => m.blk \in 1..block[m.port]
    /\ \A m \in net : m.op = "ack" => m.blk =< Len(written)
    /\ \A s \in Sessions :
        /\ block[s] =< total
        /\ phase[s] = "sending" => block[s] > 0
        /\ phase[s] = "free" => block[s] = 0

ResultInv ==
    /\ pc # "done" => result = "none" /\ retries =< MAX_RETRIES
    /\ pc = "return" \/ result = "0" => Len(written) = total

\* The inductive invariant: the file is the blocks before expected_block, no
\* session and no datagram that may still arrive is ahead of it, and the loop
\* ends on the block that is short (l.120-187).
IndInv == TypeOK /\ CopyInv /\ NetInv /\ NeverAhead /\ ResultInv

\* One way or the other tftp_get returns.
Returns == <>(pc = "done")

\* Once the request has arrived, and no timeout being early, the transfer
\* survives as many lost datagrams as the server is ready to repeat.
Delivers == (\E s \in Sessions : phase[s] = "sending") ~> result = "0"
=============================================================================
