------------------------------- MODULE TftpPut -------------------------------
(***************************************************************************)
(* tftp_put of trivial-file-transfer-protocol.c, over a network that       *)
(* loses, repeats and reorders datagrams, to an ordinary server, which is  *)
(* not in the repository: every request it receives opens a session on a   *)
(* port of its own, which stores block after block in lockstep and repeats *)
(* its last acknowledgement for a while.                                   *)
(*                                                                         *)
(* As in TftpGet, block k is the number k and travels as k % Mod.          *)
(***************************************************************************)
EXTENDS Naturals, Sequences

CONSTANTS
    Sessions,           \* server ports; more than one if the request is repeated
    None,               \* from_addr before anything is in it
    Mod,                \* block numbers are uint16_t (65536)
    MAX_RETRIES,        \* 5
    MaxTotal,           \* longest file, in blocks (bounds the model)
    ServerRetries,      \* how often the server repeats an acknowledgement
    MaxDups             \* how often the network repeats (bounds the model)

ASSUME NoneAssumption == None \notin Sessions
ASSUME SizesAssumption ==
    /\ Mod \in Nat /\ Mod > 1
    /\ MAX_RETRIES \in Nat /\ MaxTotal \in Nat
    /\ ServerRetries \in Nat /\ MaxDups \in Nat

VARIABLES
    total, exact,       \* blocks of the local file; is the last one full?
    pc, retries, block_num, from_addr, result,          \* tftp_put
    read,               \* blocks taken from the local file
    buffer,             \* what the buffer of l.200 holds
    said,               \* "Transfer complete!" has been printed
    sendto,             \* what the last sendto returned
    reset,              \* an ICMP error waits to be returned by recvfrom
    phase, stored, tries,   \* each session: its state, its file, its repeats
    net, dups           \* datagrams under way

file == <<total, exact>>
client == <<pc, retries, block_num, from_addr, result, read, buffer, said, sendto>>
sessions == <<phase, stored, tries>>
network == <<net, dups>>
vars == <<file, client, reset, sessions, network>>

\* "stray" is what l.251 sends when the buffer holds no request any more.
Request == [op |-> "wrq"]
Stray == [op |-> "stray"]
Data(s, k) == [op |-> "data", port |-> s, blk |-> k]
Ack(s, k) == [op |-> "ack", port |-> s, blk |-> k]
Error(s) == [op |-> "error", port |-> s]

Datagrams ==
    {Request, Stray} \cup {Error(s) : s \in Sessions \cup {None}}
    \cup [op : {"data", "ack"}, port : Sessions, blk : 0..MaxTotal]

TypeOK ==
    /\ total \in 0..MaxTotal /\ exact \in BOOLEAN
    /\ pc \in {"recv", "last", "done"}
    /\ retries \in 0..MAX_RETRIES + 1
    /\ block_num \in 0..Mod - 1
    /\ from_addr \in Sessions \cup {None}
    /\ result \in {"none", "0", "-1"}
    /\ read \in 0..MaxTotal + 1
    /\ buffer \in {"request", "other"}
    /\ said \in BOOLEAN
    /\ sendto \in {"ok", "failed"}
    /\ reset \in BOOLEAN
    /\ phase \in [Sessions -> {"free", "storing", "done", "failed"}]
    /\ stored \in [Sessions -> Seq(1..MaxTotal)]
    /\ tries \in [Sessions -> 0..ServerRetries]
    /\ net \subseteq Datagrams
    /\ dups \in 0..MaxDups

\* l.226-239: the request is sent.  An empty file has no last block.
Init ==
    /\ total \in 0..MaxTotal /\ exact \in BOOLEAN /\ (total = 0 => exact)
    /\ pc = "recv" /\ retries = 0 /\ block_num = 0 /\ from_addr = None
    /\ result = "none" /\ read = 0 /\ buffer = "request" /\ said = FALSE
    /\ sendto = "ok" /\ reset = FALSE
    /\ phase = [s \in Sessions |-> "free"]
    /\ stored = [s \in Sessions |-> <<>>]
    /\ tries = [s \in Sessions |-> 0]
    /\ net = {Request} /\ dups = 0

\* Blocks k of the file with fewer than BLOCK_SIZE bytes.
Short(k) == k = total /\ ~exact
-----------------------------------------------------------------------------
(* The network.  What is never delivered is lost.                          *)

Deliver(m, out) ==
    \/ /\ net' = (net \ {m}) \cup out
       /\ dups' = dups
    \/ /\ dups < MaxDups
       /\ net' = net \cup out
       /\ dups' = dups + 1

\* A datagram about block k is not delivered Mod - 1 blocks later or more, and
\* a session that nobody talks to is silent by then.
Fresh(now, k) == now < k + Mod
-----------------------------------------------------------------------------
(* The server.                                                             *)

ServerStart(s) ==
    /\ Request \in net
    /\ phase[s] = "free"
    /\ \/ phase' = [phase EXCEPT ![s] = "storing"] /\ Deliver(Request, {Ack(s, 0)})
       \/ phase' = [phase EXCEPT ![s] = "failed"] /\ Deliver(Request, {Error(s)})
    /\ UNCHANGED <<file, client, reset, stored, tries>>

\* Not a request: the listening port answers with an error.
ServerRefuses ==
    /\ Stray \in net
    /\ Deliver(Stray, {Error(None)})
    /\ UNCHANGED <<file, client, reset, sessions>>

\* The next block is stored, the last stored one acknowledged again, any
\* other one ignored.
ServerData(s) ==
    /\ phase[s] \in {"storing", "done"}
    /\ \E m \in net :
         /\ m.op = "data" /\ m.port = s
         /\ Fresh(Len(stored[s]) + 1, m.blk)
         /\ \/ /\ phase[s] = "storing"
               /\ m.blk % Mod = (Len(stored[s]) + 1) % Mod
               /\ stored' = [stored EXCEPT ![s] = Append(@, m.blk)]
               /\ phase' = [phase EXCEPT ![s] = IF Short(m.blk) THEN "done" ELSE @]
               /\ tries' = [tries EXCEPT ![s] = 0]
               /\ Deliver(m, {Ack(s, m.blk)})
            \/ /\ m.blk % Mod = Len(stored[s]) % Mod
               /\ Deliver(m, {Ack(s, Len(stored[s]))})
               /\ UNCHANGED <<phase, stored, tries>>
            \/ /\ \/ phase[s] = "done"
                  \/ m.blk % Mod # (Len(stored[s]) + 1) % Mod
               /\ m.blk % Mod # Len(stored[s]) % Mod
               /\ Deliver(m, {})
               /\ UNCHANGED <<phase, stored, tries>>
    /\ UNCHANGED <<file, client, reset>>

ServerTimeout(s) ==
    /\ phase[s] = "storing"
    /\ IF tries[s] < ServerRetries
       THEN /\ net' = net \cup {Ack(s, Len(stored[s]))}
            /\ tries' = [tries EXCEPT ![s] = @ + 1]
            /\ phase' = phase
       ELSE /\ phase' = [phase EXCEPT ![s] = "failed"]
            /\ UNCHANGED <<net, tries>>
    /\ UNCHANGED <<file, client, reset, stored, dups>>

PortClosed(s) ==
    /\ phase[s] \in {"done", "failed"}
    /\ \E m \in net : m.op = "data" /\ m.port = s /\ Deliver(m, {})
    /\ reset' \in {reset, TRUE}
    /\ UNCHANGED <<file, client, sessions>>
-----------------------------------------------------------------------------
(* tftp_put.                                                               *)

Arrived(m) ==
    /\ m \in net
    /\ m.op \in {"ack", "error"}
    /\ m.op = "ack" => Fresh(read, m.blk)

\* recvfrom(sock, buffer, ...): retries starts again, the buffer is overwritten.
Receives(m) ==
    /\ from_addr' = m.port
    /\ buffer' = "other"
    /\ retries' = 0

\* Mutant: any acknowledgement is taken for the one expected.
ReceiveAnyAck ==
    /\ pc = "recv"
    /\ \E m \in net :
         /\ Arrived(m) /\ Receives(m)
         /\ m.op = "ack"
         /\ block_num' = (block_num + 1) % Mod
         /\ read' = read + 1
         /\ Deliver(m, IF read < total THEN {Data(m.port, read + 1)} ELSE {})
         /\ sendto' = IF read < total THEN "ok" ELSE sendto
         /\ pc' = IF read < total /\ ~Short(read + 1) THEN "recv" ELSE "last"
    /\ UNCHANGED <<file, result, said, reset, sessions>>

\* The acknowledgement that the loop waits for: the next block is read and, if
\* there is one, sent to whoever acknowledged.
ReceiveAck ==
    /\ pc = "recv"
    /\ \E m \in net :
         /\ Arrived(m) /\ Receives(m)
         /\ m.op = "ack" /\ m.blk % Mod = block_num
         /\ block_num' = (block_num + 1) % Mod
         /\ read' = read + 1
         /\ Deliver(m, IF read < total THEN {Data(m.port, read + 1)} ELSE {})
         /\ sendto' = IF read < total THEN "ok" ELSE sendto
         /\ pc' = IF read < total /\ ~Short(read + 1) THEN "recv" ELSE "last"
    /\ UNCHANGED <<file, result, said, reset, sessions>>

\* Mutant: another acknowledgement makes the client repeat its block, to
\* whoever sent it.
ReceiveOtherAckRepeats ==
    /\ pc = "recv"
    /\ \E m \in net :
         /\ Arrived(m) /\ Receives(m)
         /\ m.op = "ack" /\ m.blk % Mod # block_num
         /\ Deliver(m, IF read \in 1..total THEN {Data(m.port, read)} ELSE {})
    /\ UNCHANGED <<file, pc, block_num, read, sendto, result, said, reset, sessions>>

ReceiveOtherAck ==
    /\ pc = "recv"
    /\ \E m \in net :
         /\ Arrived(m) /\ Receives(m)
         /\ m.op = "ack" /\ m.blk % Mod # block_num
         /\ Deliver(m, {})
    /\ UNCHANGED <<file, pc, block_num, read, sendto, result, said, reset, sessions>>

ReceiveErrorPacket ==
    /\ pc = "recv"
    /\ \E m \in net : Arrived(m) /\ Receives(m) /\ m.op = "error" /\ Deliver(m, {})
    /\ pc' = "done" /\ result' = "-1"
    /\ UNCHANGED <<file, block_num, read, sendto, said, reset, sessions>>

\* Mutant: the retries are not limited.
TimeoutForever ==
    /\ pc = "recv"
    /\ retries' = retries + 1
    /\ IF block_num = 0
       THEN /\ net' = net \cup {IF buffer = "request" THEN Request ELSE Stray}
            /\ sendto' = "ok"
       ELSE net' = net /\ sendto' = "failed"
    /\ UNCHANGED <<file, pc, block_num, from_addr, result, read, buffer, said,
                   reset, sessions, dups>>

\* l.247-257: block 0 means the request, to port 69, if the buffer still has
\* it.  Otherwise the length is 4 + (n - 4) with n = SOCKET_ERROR: sendto
\* refuses -1 bytes.
Timeout ==
    /\ pc = "recv"
    /\ retries < MAX_RETRIES
    /\ retries' = retries + 1
    /\ IF block_num = 0
       THEN /\ net' = net \cup {IF buffer = "request" THEN Request ELSE Stray}
            /\ sendto' = "ok"
       ELSE net' = net /\ sendto' = "failed"
    /\ UNCHANGED <<file, pc, block_num, from_addr, result, read, buffer, said,
                   reset, sessions, dups>>

GiveUp ==
    /\ pc = "recv"
    /\ retries = MAX_RETRIES
    /\ retries' = retries + 1
    /\ pc' = "done" /\ result' = "-1"
    /\ UNCHANGED <<file, block_num, from_addr, read, buffer, said, sendto,
                   reset, sessions, network>>

ReceiveError ==
    /\ pc = "recv"
    /\ reset
    /\ reset' = FALSE
    /\ pc' = "done" /\ result' = "-1"
    /\ UNCHANGED <<file, retries, block_num, from_addr, read, buffer, said, sendto,
                   sessions, network>>

\* Mutant: the number of the last acknowledgement is not compared.
LastAnyAck ==
    /\ pc = "last"
    /\ \E m \in net :
         /\ Arrived(m) /\ Deliver(m, {})
         /\ from_addr' = m.port
         /\ said' = (m.op = "ack")
    /\ buffer' = "other"
    /\ pc' = "done" /\ result' = "0"
    /\ UNCHANGED <<file, retries, block_num, read, sendto, reset, sessions>>

\* l.310-322, after the last block: one datagram is looked at, and 0 returned.
LastAck ==
    /\ pc = "last"
    /\ \E m \in net :
         /\ Arrived(m) /\ Deliver(m, {})
         /\ from_addr' = m.port
         /\ said' = (m.op = "ack" /\ m.blk % Mod = block_num)
    /\ buffer' = "other"
    /\ pc' = "done" /\ result' = "0"
    /\ UNCHANGED <<file, retries, block_num, read, sendto, reset, sessions>>

\* The same when it times out or fails.
LastTimeout ==
    /\ pc = "last"
    /\ reset' = FALSE
    /\ pc' = "done" /\ result' = "0"
    /\ UNCHANGED <<file, retries, block_num, from_addr, read, buffer, said, sendto,
                   sessions, network>>
-----------------------------------------------------------------------------
Server(s) == ServerStart(s) \/ ServerData(s) \/ ServerTimeout(s) \/ PortClosed(s)
Client ==
    \/ ReceiveAck \/ ReceiveOtherAck \/ ReceiveErrorPacket
    \/ Timeout \/ GiveUp \/ ReceiveError \/ LastAck \/ LastTimeout

Next == Client \/ ServerRefuses \/ \E s \in Sessions : Server(s)

Spec == Init /\ [][Next]_vars
-----------------------------------------------------------------------------
\* All blocks go to one session, the one whose acknowledgement of the request
\* came first, although a repeated request opens others and from_addr is
\* whoever sent the last datagram (l.242).
OneSession == \A s, t \in Sessions : stored[s] # <<>> /\ stored[t] # <<>> => s = t

\* The blocks of the file that is being stored at the server.
Stored == LET S == {s \in Sessions : stored[s] # <<>>} IN
          IF S = {} THEN <<>> ELSE stored[CHOOSE s \in S : TRUE]

\* The blocks that a complete transfer has, the empty one at the end included,
\* and what tftp_put says of it.
Size == IF exact THEN total + 1 ELSE total
Verdict == IF said THEN "good" ELSE IF pc = "done" THEN "bad" ELSE "running"

Transfer == INSTANCE FileTransfer WITH size <- Size, copy <- Stored, verdict <- Verdict

\* The server's file is the beginning of the local one in every state, and
\* "Transfer complete!" is printed only when the server has all of it and
\* knows it: never for a file whose size is a multiple of 512, whose last,
\* empty block is not sent (l.300).  What is returned says less.
PutIsTransfer == Transfer!Spec

\* The client is at most one block ahead of the server, and its counter is the
\* number of blocks read, also after it wrapped.
InStep ==
    /\ block_num = read % Mod
    /\ read =< Len(Stored) + 1
    /\ \A s \in Sessions : phase[s] = "done" => ~exact /\ Len(stored[s]) = total

\* What is stored is the file up to some block, and no datagram is further than
\* its sender.
FileInv ==
    /\ \A s \in Sessions :
        /\ Len(stored[s]) =< total /\ Len(stored[s]) =< read
        /\ \A k \in 1..Len(stored[s]) : stored[s][k] = k
    /\ \A m \in net : m.op = "data" => m.blk \in 1..read /\ m.blk =< total
    /\ \A m \in net : m.op = "ack" => m.blk =< Len(stored[m.port])

\* One session at most has been sent any data.
Peer(p) ==
    /\ \A m \in net : m.op = "data" => m.port = p
    /\ \A s \in Sessions : stored[s] # <<>> => s = p

ClientInv ==
    /\ total = 0 => exact
    /\ pc = "recv" => read < Size /\ retries =< MAX_RETRIES
    /\ pc = "last" => read = Size
    /\ read =< Size
    /\ pc # "done" => ~said
    /\ said => Len(Stored) = Size

\* The inductive invariant: the file that was read, the one session that has a
\* file, and what l.226-328 remember of both go together.
IndInv ==
    /\ TypeOK /\ FileInv /\ InStep /\ ClientInv
    /\ \E p \in Sessions \cup {None} : Peer(p)

\* l.248 announces a retry: a datagram goes out in the same step.
RetrySends ==
    [][retries' > retries /\ retries' =< MAX_RETRIES => sendto' = "ok"]_vars
=============================================================================
