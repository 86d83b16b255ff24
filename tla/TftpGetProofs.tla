---------------------------- MODULE TftpGetProofs ----------------------------
(***************************************************************************)
(* tftp_get, for files of every length, block numbers of every width, any  *)
(* number of sessions and any losses, repeats and reorderings, as long as  *)
(* no datagram outlives a whole turn of the block numbers.                 *)
(***************************************************************************)
EXTENDS TftpGet, BlockNumbers, SequenceTheorems

(* The datagrams by their kind. *)
LEMMA Kinds ==
    ASSUME TypeOK, NEW m \in net
    PROVE  /\ m.op \in {"rrq", "data", "ack", "error"}
           /\ m.op \in {"data", "ack"} =>
                m.port \in Sessions /\ m.blk \in 0..MaxTotal /\ m.blk \in Nat
           /\ m.op = "error" => m.port \in Sessions
<1>1. m \in Datagrams
  BY DEF TypeOK
<1>2. CASE m = Request
  BY <1>2 DEF Request
<1>3. CASE \E s \in Sessions : m = Error(s)
  BY <1>3 DEF Error
<1>4. CASE m \in [op : {"data", "ack"}, port : Sessions, blk : 0..MaxTotal]
  BY <1>4, SizesAssumption
<1>5. QED
  BY <1>1, <1>2, <1>3, <1>4 DEF Datagrams

(* What can be sent. *)
LEMMA Sendable ==
    ASSUME NEW s \in Sessions, NEW k \in 0..MaxTotal
    PROVE  /\ Data(s, k) \in Datagrams /\ Ack(s, k) \in Datagrams
           /\ Error(s) \in Datagrams
BY DEF Data, Ack, Error, Datagrams

(* What a delivery does to the network, whether a copy stays behind or not. *)
LEMMA DeliverEffect ==
    ASSUME TypeOK, NEW m \in net, NEW out \in SUBSET Datagrams, Deliver(m, out)
    PROVE  /\ net' \subseteq net \cup out
           /\ net' \subseteq Datagrams
           /\ dups' \in 0..MaxDups
<1>1. net \subseteq Datagrams /\ dups \in 0..MaxDups
  BY DEF TypeOK
<1>2. net' \subseteq net \cup out
  BY DEF Deliver
<1>3. dups' \in 0..MaxDups
  BY <1>1, SizesAssumption DEF Deliver
<1>4. QED
  BY <1>1, <1>2, <1>3

LEMMA LengthType ==
    ASSUME TypeOK
    PROVE  /\ Len(written) \in Nat /\ total \in Nat /\ total =< MaxTotal /\ total > 0
           /\ MaxTotal \in Nat
           /\ \A s \in Sessions : block[s] \in Nat
BY SizesAssumption DEF TypeOK

(* A block that has the number that tftp_get waits for, and is not older   *)
(* than a turn, is the next block of the file.                             *)
LEMMA NextIsNext ==
    ASSUME IndInv, NEW m \in net, m.op = "data", ~Stale(m),
           m.blk % Mod = expected_block
    PROVE  m.blk = Len(written) + 1 /\ m.blk \in 1..total
<1>1. /\ m.port \in Sessions /\ m.blk \in Nat
      /\ Len(written) \in Nat /\ total \in Nat /\ block[m.port] \in Nat
  BY Kinds, LengthType DEF IndInv
<1>2. m.blk \in 1..block[m.port] /\ block[m.port] =< total
  BY <1>1 DEF IndInv, NetInv
<1>3. block[m.port] =< Len(written) + 1
  BY <1>1 DEF IndInv, NeverAhead
<1>4. Len(written) + 1 < m.blk + Mod
  BY DEF Stale, Fresh
<1>5. (Len(written) + 1) % Mod = m.blk % Mod
  BY DEF IndInv, CopyInv
<1>6. Mod \in Nat /\ Mod > 0
  BY SizesAssumption
<1>7. PICK x \in Nat : x = Len(written) + 1
  BY <1>1
<1>8. x =< m.blk
  BY <1>1, <1>4, <1>5, <1>6, <1>7, SameNumber
<1>9. PICK b \in Nat : b = block[m.port]
  BY <1>1
<1>10. m.blk \in 1..b /\ b =< total /\ b =< x
  BY <1>2, <1>3, <1>7, <1>9
<1>11. m.blk = x /\ m.blk \in 1..total
  BY <1>1, <1>8, <1>10
<1>12. QED
  BY <1>7, <1>11

(* One that has a lower number has been written. *)
LEMMA OldIsWritten ==
    ASSUME IndInv, NEW m \in net, m.op = "data", m.blk % Mod < expected_block
    PROVE  m.blk =< Len(written)
<1>1. /\ m.port \in Sessions /\ m.blk \in Nat
      /\ Len(written) \in Nat /\ block[m.port] \in Nat
  BY Kinds, LengthType DEF IndInv
<1>2. m.blk \in 1..block[m.port] /\ block[m.port] =< Len(written) + 1
  BY <1>1 DEF IndInv, NetInv, NeverAhead
<1>3. m.blk # Len(written) + 1
  <2>1. expected_block = (Len(written) + 1) % Mod /\ expected_block \in Int
    BY SizesAssumption DEF IndInv, CopyInv, TypeOK
  <2>2. QED
    BY <2>1
<1>4. QED
  BY <1>1, <1>2, <1>3

(* A server that takes an acknowledgement for its block is right. *)
LEMMA AckIsRight ==
    ASSUME IndInv, NEW s \in Sessions, NEW m \in net, m.op = "ack", m.port = s,
           Fresh(block[s], m.blk), m.blk % Mod = block[s] % Mod
    PROVE  block[s] =< Len(written)
<1>1. m.blk \in Nat /\ block[s] \in Nat /\ Len(written) \in Nat
  BY Kinds, LengthType DEF IndInv
<1>2. m.blk =< Len(written)
  BY DEF IndInv, NetInv
<1>3. block[s] =< m.blk
  <2>1. PICK a \in Nat, b \in Nat : a = block[s] /\ b = m.blk
    BY <1>1
  <2>2. a < b + Mod /\ a % Mod = b % Mod
    BY <2>1 DEF Fresh
  <2>3. Mod \in Nat /\ Mod > 0
    BY SizesAssumption
  <2>4. a =< b
    BY <2>2, <2>3, SameNumber
  <2>5. QED
    BY <2>1, <2>4
<1>4. QED
  BY <1>1, <1>2, <1>3

(* Datagrams that were within bounds stay there: nobody goes back. *)
LEMMA NetStep ==
    ASSUME TypeOK, NetInv, NEW out, net' \subseteq net \cup out,
           \A s \in Sessions : block[s] =< block'[s] /\ block'[s] \in Nat,
           Len(written) =< Len(written'), Len(written') \in Nat,
           \A m \in out : m.op = "data" => m.blk \in 1..block'[m.port],
           \A m \in out : m.op = "ack" => m.blk =< Len(written')
    PROVE  /\ \A m \in net' : m.op = "data" => m.blk \in 1..block'[m.port]
           /\ \A m \in net' : m.op = "ack" => m.blk =< Len(written')
<1>1. ASSUME NEW m \in net, m.op = "data" PROVE m.blk \in 1..block'[m.port]
  <2>1. m.port \in Sessions /\ block[m.port] \in Nat
    BY <1>1, Kinds, LengthType
  <2>2. m.blk \in 1..block[m.port]
    BY <1>1 DEF NetInv
  <2>3. block[m.port] =< block'[m.port] /\ block'[m.port] \in Nat
    BY <2>1
  <2>4. QED
    BY <2>1, <2>2, <2>3
<1>2. ASSUME NEW m \in net, m.op = "ack" PROVE m.blk =< Len(written')
  <2>1. m.blk \in Nat /\ Len(written) \in Nat
    BY <1>2, Kinds, LengthType
  <2>2. m.blk =< Len(written)
    BY <1>2 DEF NetInv
  <2>3. QED
    BY <2>1, <2>2
<1>3. QED
  BY <1>1, <1>2

(* The steps of the client and the network that write nothing. *)
LEMMA QuietStep ==
    ASSUME IndInv, UNCHANGED <<total, written, expected_block, sessions>>,
           NEW out \in SUBSET Datagrams, net' \subseteq net \cup out,
           \A m \in out : m.op = "data" => m.blk \in 1..block[m.port],
           \A m \in out : m.op = "ack" => m.blk =< Len(written)
    PROVE  CopyInv' /\ NetInv' /\ NeverAhead' /\ net' \subseteq Datagrams
<1>1. TypeOK /\ NetInv /\ Len(written) \in Nat /\ \A s \in Sessions : block[s] \in Nat
  BY LengthType DEF IndInv
<1>2. CopyInv' /\ NeverAhead'
  BY DEF IndInv, CopyInv, NeverAhead, sessions
<1>3. written' = written /\ block' = block
  BY DEF sessions
<1>4. /\ Len(written) =< Len(written') /\ Len(written') \in Nat
      /\ \A s \in Sessions : block[s] =< block'[s] /\ block'[s] \in Nat
  BY <1>1, <1>3
<1>5. /\ \A m \in net' : m.op = "data" => m.blk \in 1..block'[m.port]
      /\ \A m \in net' : m.op = "ack" => m.blk =< Len(written')
  BY <1>1, <1>3, <1>4, NetStep
<1>6. \A s \in Sessions :
          /\ block'[s] =< total'
          /\ phase'[s] = "sending" => block'[s] > 0
          /\ phase'[s] = "free" => block'[s] = 0
  BY <1>1 DEF NetInv, sessions
<1>7. NetInv'
  BY <1>5, <1>6 DEF NetInv
<1>8. net' \subseteq Datagrams
  BY <1>1 DEF TypeOK
<1>9. QED
  BY <1>2, <1>7, <1>8

LEMMA SilentStep ==
    ASSUME IndInv, UNCHANGED <<total, written, expected_block, sessions>>,
           net' \subseteq net
    PROVE  CopyInv' /\ NetInv' /\ NeverAhead' /\ net' \subseteq Datagrams
<1>1. PICK out \in SUBSET Datagrams : out = {}
  OBVIOUS
<1>2. /\ net' \subseteq net \cup out
      /\ \A m \in out : m.op = "data" => m.blk \in 1..block[m.port]
      /\ \A m \in out : m.op = "ack" => m.blk =< Len(written)
  BY <1>1
<1>3. QED
  BY <1>2, QuietStep

(* A block that is written, a block that is not, and an error. *)
LEMMA ReceiveStep ==
    ASSUME IndInv, Receive
    PROVE  IndInv'
<1> USE DEF sessions
<1>1. PICK m \in net :
        /\ m.op \in {"data", "error"} /\ ~Stale(m)
        /\ NextBlock(m) \/ OldBlock(m) \/ OtherBlock(m) \/ ErrorPacket(m)
        /\ from_addr' = m.port
  BY DEF Receive
<1>2. /\ pc = "recv" /\ retries' = 0
      /\ UNCHANGED <<total, reset, sessions, losses>>
  BY DEF Receive
<1>3. TypeOK /\ m.port \in Sessions
  BY <1>1, Kinds DEF IndInv
<1>4. /\ Len(written) \in Nat /\ total \in Nat /\ total =< MaxTotal /\ MaxTotal \in Nat
      /\ \A s \in Sessions : block[s] \in Nat
  BY <1>3, LengthType
<1>5. result = "none"
  BY <1>2 DEF IndInv, ResultInv
<1>6. retries' \in 0..MAX_RETRIES + 1 /\ retries' =< MAX_RETRIES
  BY <1>2, SizesAssumption
<1>7. CASE NextBlock(m)
  <2>1. /\ m.op = "data" /\ m.blk % Mod = expected_block
        /\ Deliver(m, {Ack(m.port, m.blk)})
        /\ written' = Append(written, m.blk)
        /\ expected_block' = (expected_block + 1) % Mod
        /\ pc' = IF m.blk = total THEN "return" ELSE "recv"
        /\ UNCHANGED result
    BY <1>7 DEF NextBlock
  <2>2. m.blk = Len(written) + 1 /\ m.blk \in 1..total
    BY <1>1, <2>1, NextIsNext
  <2>3. m.blk \in 1..MaxTotal /\ m.blk \in 0..MaxTotal
    BY <1>4, <2>2
  <2>4. written' \in Seq(1..MaxTotal) /\ Len(written') = Len(written) + 1
    <3>1. written \in Seq(1..MaxTotal)
      BY <1>3 DEF TypeOK
    <3>2. QED
      BY <2>1, <2>3, <3>1, AppendProperties
  <2>5. /\ net' \subseteq net \cup {Ack(m.port, m.blk)}
        /\ net' \subseteq Datagrams /\ dups' \in 0..MaxDups
    <3>1. {Ack(m.port, m.blk)} \in SUBSET Datagrams
      BY <1>3, <2>3, Sendable
    <3>2. QED
      BY <1>3, <2>1, <3>1, DeliverEffect
  <2>6. expected_block' = (Len(written') + 1) % Mod /\ expected_block' \in 0..Mod - 1
    <3>1. expected_block = (Len(written) + 1) % Mod
      BY DEF IndInv, CopyInv
    <3>2. PICK x \in Nat : x = Len(written) + 1
      BY <1>4
    <3>3. expected_block' = (x + 1) % Mod
      BY <2>1, <3>1, <3>2, NextNumber, SizesAssumption
    <3>4. expected_block' \in 0..Mod - 1
      BY <3>3, Division, SizesAssumption
    <3>5. QED
      BY <2>4, <3>2, <3>3, <3>4
  <2>7. TypeOK'
    BY <1>2, <1>3, <1>6, <2>1, <2>4, <2>5, <2>6, <1>1 DEF TypeOK
  <2>8. CopyInv'
    <3>1. \A k \in 1..Len(written') : written'[k] = k
      <4>1. \A k \in 1..Len(written) : written[k] = k
        BY DEF IndInv, CopyInv
      <4>2. written \in Seq(1..MaxTotal)
        BY <1>3 DEF TypeOK
      <4>3. /\ \A k \in 1..Len(written) : written'[k] = written[k]
            /\ written'[Len(written) + 1] = m.blk
        BY <2>1, <2>3, <4>2, AppendProperties
      <4>4. PICK x \in Nat : x = Len(written)
        BY <1>4
      <4>5. \A k \in 1..x + 1 : k \in 1..x \/ k = x + 1
        OBVIOUS
      <4>6. QED
        BY <2>2, <2>4, <4>1, <4>3, <4>4, <4>5
    <3>2. Len(written') =< total'
      BY <1>2, <1>4, <2>2, <2>4
    <3>3. QED
      BY <2>6, <3>1, <3>2 DEF CopyInv
  <2>9. /\ \A s \in Sessions : block[s] =< block'[s] /\ block'[s] \in Nat
        /\ Len(written) =< Len(written') /\ Len(written') \in Nat
        /\ m.blk =< Len(written')
    BY <1>2, <1>4, <2>2, <2>4
  <2>10. NetInv'
    <3> DEFINE out == {Ack(m.port, m.blk)}
    <3>1. /\ \A e \in out : e.op = "data" => e.blk \in 1..block'[e.port]
          /\ \A e \in out : e.op = "ack" => e.blk =< Len(written')
          /\ net' \subseteq net \cup out
      BY <2>5, <2>9 DEF Ack
    <3> HIDE DEF out
    <3>2. /\ \A e \in net' : e.op = "data" => e.blk \in 1..block'[e.port]
          /\ \A e \in net' : e.op = "ack" => e.blk =< Len(written')
      BY <1>3, <2>9, <3>1, NetStep DEF IndInv
    <3>3. QED
      BY <1>2, <3>2 DEF IndInv, NetInv
  <2>11. NeverAhead'
    <3>1. ASSUME NEW s \in Sessions
          PROVE  /\ block'[s] =< Len(written') + 1
                 /\ phase'[s] = "done" => Len(written') = total'
      <4>1. block[s] =< Len(written) + 1 /\ (phase[s] = "done" => Len(written) = total)
        BY DEF IndInv, NeverAhead
      <4>2. Len(written) # total
        BY <1>4, <2>2
      <4>3. QED
        BY <1>2, <1>4, <2>4, <4>1, <4>2
    <3>2. QED
      BY <3>1 DEF NeverAhead
  <2>12. ResultInv'
    BY <1>2, <1>5, <1>6, <2>1, <2>2, <2>4 DEF ResultInv
  <2>13. QED
    BY <2>7, <2>8, <2>10, <2>11, <2>12 DEF IndInv
<1>8. CASE OldBlock(m)
  <2>1. /\ m.op = "data" /\ m.blk % Mod < expected_block
        /\ Deliver(m, {Ack(m.port, m.blk)})
        /\ UNCHANGED <<written, expected_block, pc, result>>
    BY <1>8 DEF OldBlock
  <2>2. m.blk =< Len(written) /\ m.blk \in 0..MaxTotal
    BY <1>3, <2>1, OldIsWritten, Kinds
  <2>3. {Ack(m.port, m.blk)} \in SUBSET Datagrams
    BY <1>3, <2>2, Sendable
  <2>4. net' \subseteq net \cup {Ack(m.port, m.blk)} /\ dups' \in 0..MaxDups
    BY <1>3, <2>1, <2>3, DeliverEffect
  <2>5. /\ \A e \in {Ack(m.port, m.blk)} : e.op = "data" => e.blk \in 1..block[e.port]
        /\ \A e \in {Ack(m.port, m.blk)} : e.op = "ack" => e.blk =< Len(written)
    BY <2>2 DEF Ack
  <2>6. CopyInv' /\ NetInv' /\ NeverAhead' /\ net' \subseteq Datagrams
    BY <1>2, <2>1, <2>3, <2>4, <2>5, QuietStep
  <2>7. TypeOK'
    BY <1>1, <1>2, <1>3, <1>6, <2>1, <2>4, <2>6 DEF TypeOK
  <2>8. ResultInv'
    BY <1>2, <1>5, <1>6, <2>1 DEF ResultInv
  <2>9. QED
    BY <2>6, <2>7, <2>8 DEF IndInv
<1>9. CASE OtherBlock(m) \/ ErrorPacket(m)
  <2>1. /\ Deliver(m, {})
        /\ UNCHANGED <<written, expected_block>>
        /\ UNCHANGED <<pc, result>> \/ (pc' = "done" /\ result' = "-1")
    BY <1>9 DEF OtherBlock, ErrorPacket
  <2>2. net' \subseteq net /\ dups' \in 0..MaxDups
    BY <1>3, <2>1, DeliverEffect
  <2>3. CopyInv' /\ NetInv' /\ NeverAhead' /\ net' \subseteq Datagrams
    BY <1>2, <2>1, <2>2, SilentStep
  <2>4. TypeOK'
    BY <1>1, <1>2, <1>3, <1>6, <2>1, <2>2, <2>3 DEF TypeOK
  <2>5. ResultInv'
    BY <1>2, <1>5, <1>6, <2>1 DEF ResultInv
  <2>6. QED
    BY <2>3, <2>4, <2>5 DEF IndInv
<1>10. QED
  BY <1>1, <1>7, <1>8, <1>9

(* The other steps of tftp_get. *)
LEMMA ClientStep ==
    ASSUME IndInv, Timeout \/ ReceiveError \/ Return
    PROVE  IndInv'
<1> USE DEF sessions, network
<1>1. TypeOK /\ Len(written) \in 0..MaxTotal /\ retries \in Nat
  <2>1. TypeOK /\ Len(written) \in Nat /\ total =< MaxTotal /\ total \in Nat /\ MaxTotal \in Nat
    BY LengthType DEF IndInv
  <2>2. Len(written) =< total
    BY DEF IndInv, CopyInv
  <2>3. retries \in Nat
    BY SizesAssumption DEF IndInv, TypeOK
  <2>4. QED
    BY <2>1, <2>2, <2>3
<1>2. CASE Timeout
  <2>1. /\ pc = "recv" /\ retries' = retries + 1
        /\ UNCHANGED <<total, expected_block, from_addr, written, reset, sessions, losses, dups>>
        /\ \/ /\ retries < MAX_RETRIES
              /\ net' = net \cup (IF from_addr = None THEN {}
                                  ELSE {Ack(from_addr, Len(written))})
              /\ UNCHANGED <<pc, result>>
           \/ pc' = "done" /\ result' = "-1" /\ net' = net
    BY <1>2 DEF Timeout
  <2> DEFINE out == IF from_addr = None THEN {} ELSE {Ack(from_addr, Len(written))}
  <2>2. out \in SUBSET Datagrams
    BY <1>1, Sendable DEF TypeOK
  <2>3. /\ \A e \in out : e.op = "data" => e.blk \in 1..block[e.port]
        /\ \A e \in out : e.op = "ack" => e.blk =< Len(written)
    BY <1>1 DEF Ack
  <2>4. net' \subseteq net \cup out
    BY <2>1
  <2>5. CopyInv' /\ NetInv' /\ NeverAhead' /\ net' \subseteq Datagrams
    BY <2>1, <2>2, <2>3, <2>4, QuietStep
  <2>6. retries =< MAX_RETRIES /\ result = "none"
    BY <2>1 DEF IndInv, ResultInv
  <2>7. retries' \in 0..MAX_RETRIES + 1 /\ (retries < MAX_RETRIES => retries' =< MAX_RETRIES)
    BY <1>1, <2>1, <2>6, SizesAssumption
  <2>8. TypeOK'
    BY <1>1, <2>1, <2>5, <2>7 DEF TypeOK
  <2>9. ResultInv'
    BY <2>1, <2>6, <2>7 DEF ResultInv
  <2>10. QED
    BY <2>5, <2>8, <2>9 DEF IndInv
<1>3. CASE ReceiveError \/ Return
  <2>1. UNCHANGED <<total, retries, expected_block, from_addr, written, sessions, network>>
    BY <1>3 DEF ReceiveError, Return
  <2>2. net' \subseteq net
    BY <2>1
  <2>3. CopyInv' /\ NetInv' /\ NeverAhead' /\ net' \subseteq Datagrams
    BY <2>1, <2>2, SilentStep
  <2>4. TypeOK'
    BY <1>1, <1>3, <2>1 DEF TypeOK, ReceiveError, Return
  <2>5. ResultInv'
    BY <1>3, <2>1 DEF ResultInv, IndInv, ReceiveError, Return
  <2>6. QED
    BY <2>3, <2>4, <2>5 DEF IndInv
<1>4. QED
  BY <1>2, <1>3

(* What a step of a server has to show: its own session stays within the   *)
(* file, and what it sends is its own block.                               *)
LEMMA SessionStep ==
    ASSUME IndInv, UNCHANGED <<total, client, losses>>, NEW s \in Sessions,
           block' \in [Sessions -> 0..MaxTotal], tries' \in [Sessions -> 0..ServerRetries],
           phase' \in [Sessions -> {"free", "sending", "done", "failed"}],
           \A e \in Sessions \ {s} : block'[e] = block[e] /\ phase'[e] = phase[e],
           block[s] =< block'[s], block'[s] =< total, block'[s] =< Len(written) + 1,
           phase'[s] = "sending" => block'[s] > 0, phase'[s] # "free",
           phase'[s] = "done" => Len(written) = total,
           \/ block'[s] > 0 /\ net' \subseteq net \cup {Data(s, block'[s])}
           \/ net' \subseteq net \cup {Error(s)},
           dups' \in 0..MaxDups, reset' \in BOOLEAN
    PROVE  IndInv'
<1> USE DEF client
<1>1. /\ TypeOK /\ Len(written) \in Nat /\ total \in Nat /\ MaxTotal \in Nat
      /\ \A e \in Sessions : block[e] \in Nat /\ block'[e] \in Nat
  BY LengthType, SizesAssumption DEF IndInv
<1>2. \A e \in Sessions : block[e] =< block'[e]
  BY <1>1
<1>3. PICK out \in SUBSET Datagrams :
        /\ net' \subseteq net \cup out
        /\ \A m \in out : m.op = "data" => m.blk \in 1..block'[m.port]
        /\ \A m \in out : m.op = "ack" => m.blk =< Len(written)
  <2>1. CASE block'[s] > 0 /\ net' \subseteq net \cup {Data(s, block'[s])}
    <3> DEFINE out == {Data(s, block'[s])}
    <3>1. out \in SUBSET Datagrams
      BY Sendable
    <3>2. \A m \in out : m.op = "data" /\ m.port = s /\ m.blk = block'[s]
      BY DEF Data
    <3>3. block'[s] \in 1..block'[s]
      BY <1>1, <2>1
    <3>4. /\ \A m \in out : m.op = "data" => m.blk \in 1..block'[m.port]
          /\ \A m \in out : m.op = "ack" => m.blk =< Len(written)
      BY <3>2, <3>3
    <3>5. net' \subseteq net \cup out
      BY <2>1
    <3> HIDE DEF out
    <3>6. QED
      BY <3>1, <3>4, <3>5
  <2>2. CASE net' \subseteq net \cup {Error(s)}
    <3> DEFINE out == {Error(s)}
    <3>1. out \in SUBSET Datagrams /\ net' \subseteq net \cup out
      BY <2>2, Sendable DEF Datagrams
    <3>2. \A m \in out : m.op = "error"
      BY DEF Error
    <3> HIDE DEF out
    <3>3. QED
      BY <3>1, <3>2
  <2>3. QED
    BY <2>1, <2>2
<1>4. TypeOK'
  <2>1. net' \subseteq Datagrams
    BY <1>1, <1>3 DEF TypeOK
  <2>2. QED
    BY <1>1, <2>1 DEF TypeOK
<1>5. CopyInv' /\ ResultInv'
  BY DEF IndInv, CopyInv, ResultInv
<1>6. NetInv'
  <2>1. Len(written) =< Len(written') /\ Len(written') \in Nat
    BY <1>1
  <2>2. \A m \in out : m.op = "ack" => m.blk =< Len(written')
    BY <1>3
  <2>3. /\ \A m \in net' : m.op = "data" => m.blk \in 1..block'[m.port]
        /\ \A m \in net' : m.op = "ack" => m.blk =< Len(written')
    BY <1>1, <1>2, <1>3, <2>1, <2>2, NetStep DEF IndInv
  <2>4. \A e \in Sessions :
          /\ block'[e] =< total'
          /\ phase'[e] = "sending" => block'[e] > 0
          /\ phase'[e] = "free" => block'[e] = 0
    BY DEF IndInv, NetInv
  <2>5. QED
    BY <2>3, <2>4 DEF NetInv
<1>7. NeverAhead'
  BY DEF IndInv, NeverAhead
<1>8. QED
  BY <1>4, <1>5, <1>6, <1>7 DEF IndInv

(* A session starts, is acknowledged, times out, or is over. *)
LEMMA ServerStep ==
    ASSUME IndInv, NEW s \in Sessions, Server(s)
    PROVE  IndInv'
<1> USE DEF sessions
<1>1. /\ TypeOK /\ total \in Nat /\ total > 0 /\ total =< MaxTotal /\ MaxTotal \in Nat
      /\ block[s] \in Nat /\ Len(written) \in Nat
      /\ tries[s] \in Nat /\ ServerRetries \in Nat
  BY LengthType, SizesAssumption DEF IndInv, TypeOK
<1>2. /\ block \in [Sessions -> 0..MaxTotal] /\ tries \in [Sessions -> 0..ServerRetries]
      /\ phase \in [Sessions -> {"free", "sending", "done", "failed"}]
      /\ reset \in BOOLEAN /\ dups \in 0..MaxDups
  BY <1>1 DEF TypeOK
<1>3. /\ block[s] =< total /\ (phase[s] = "sending" => block[s] > 0)
      /\ phase[s] = "free" => block[s] = 0
      /\ block[s] =< Len(written) + 1 /\ (phase[s] = "done" => Len(written) = total)
      /\ Len(written) =< total
  BY DEF IndInv, NetInv, NeverAhead, CopyInv
<1>4. {Error(s)} \in SUBSET Datagrams /\ {} \in SUBSET Datagrams
  BY Sendable, <1>1
<1>5. CASE ServerStart(s)
  <2>1. /\ Request \in net /\ phase[s] = "free"
        /\ UNCHANGED <<total, client, reset, tries, losses>>
    BY <1>5 DEF ServerStart
  <2>2. CASE /\ phase' = [phase EXCEPT ![s] = "sending"]
             /\ block' = [block EXCEPT ![s] = 1]
             /\ Deliver(Request, {Data(s, 1)})
    <3>1. 1 \in 0..MaxTotal /\ block'[s] = 1 /\ phase'[s] = "sending"
      BY <1>1, <1>2, <2>2
    <3>2. {Data(s, 1)} \in SUBSET Datagrams
      BY <3>1, Sendable
    <3>3. net' \subseteq net \cup {Data(s, block'[s])} /\ dups' \in 0..MaxDups
      BY <1>1, <2>1, <2>2, <3>1, <3>2, DeliverEffect
    <3>4. block[s] =< block'[s] /\ block'[s] =< total /\ block'[s] =< Len(written) + 1
      BY <1>1, <1>3, <2>1, <3>1
    <3>5. /\ block' \in [Sessions -> 0..MaxTotal]
          /\ phase' \in [Sessions -> {"free", "sending", "done", "failed"}]
          /\ \A e \in Sessions \ {s} : block'[e] = block[e] /\ phase'[e] = phase[e]
      BY <1>2, <2>2, <3>1
    <3>6. block'[s] > 0 /\ phase'[s] # "free" /\ phase'[s] # "done"
      BY <3>1
    <3>7. QED
      BY <1>2, <2>1, <3>3, <3>4, <3>5, <3>6, SessionStep
  <2>3. CASE /\ phase' = [phase EXCEPT ![s] = "failed"]
             /\ Deliver(Request, {Error(s)})
             /\ block' = block
    <3>1. net' \subseteq net \cup {Error(s)} /\ dups' \in 0..MaxDups
      BY <1>1, <1>4, <2>1, <2>3, DeliverEffect
    <3>2. /\ phase' \in [Sessions -> {"free", "sending", "done", "failed"}]
          /\ phase'[s] = "failed"
          /\ \A e \in Sessions \ {s} : phase'[e] = phase[e]
      BY <1>2, <2>3
    <3>3. block[s] =< block'[s] /\ block'[s] =< total /\ block'[s] =< Len(written) + 1
      BY <1>1, <1>3, <2>3
    <3>4. QED
      BY <1>2, <2>1, <2>3, <3>1, <3>2, <3>3, SessionStep
  <2>4. QED
    BY <1>5, <2>2, <2>3 DEF ServerStart
<1>6. CASE ServerAck(s)
  <2>1. PICK m \in net :
          /\ m.op = "ack" /\ m.port = s
          /\ Fresh(block[s], m.blk)
          /\ IF m.blk % Mod # block[s] % Mod
             THEN Deliver(m, {}) /\ UNCHANGED <<phase, block, tries>>
             ELSE IF block[s] = total
             THEN /\ Deliver(m, {})
                  /\ phase' = [phase EXCEPT ![s] = "done"]
                  /\ UNCHANGED <<block, tries>>
             ELSE /\ Deliver(m, {Data(s, block[s] + 1)})
                  /\ block' = [block EXCEPT ![s] = @ + 1]
                  /\ tries' = [tries EXCEPT ![s] = 0]
                  /\ UNCHANGED phase
    BY <1>6 DEF ServerAck
  <2>2. phase[s] = "sending" /\ UNCHANGED <<total, client, reset, losses>>
    BY <1>6 DEF ServerAck
  <2>3. block[s] =< block[s]
    BY <1>1
  <2>4. CASE m.blk % Mod # block[s] % Mod
    <3>1. Deliver(m, {}) /\ UNCHANGED <<phase, block, tries>>
      BY <2>1, <2>4
    <3>2. net' \subseteq net \cup {Error(s)} /\ dups' \in 0..MaxDups
      BY <1>1, <1>4, <3>1, DeliverEffect
    <3>3. QED
      BY <1>2, <1>3, <2>2, <2>3, <3>1, <3>2, SessionStep
  <2>5. CASE m.blk % Mod = block[s] % Mod /\ block[s] = total
    <3>1. Deliver(m, {}) /\ phase' = [phase EXCEPT ![s] = "done"] /\ UNCHANGED <<block, tries>>
      BY <2>1, <2>5
    <3>2. net' \subseteq net \cup {Error(s)} /\ dups' \in 0..MaxDups
      BY <1>1, <1>4, <3>1, DeliverEffect
    <3>3. block[s] =< Len(written)
      BY <2>1, <2>5, AckIsRight
    <3>4. Len(written) = total
      BY <1>1, <1>3, <2>5, <3>3
    <3>5. /\ phase' \in [Sessions -> {"free", "sending", "done", "failed"}]
          /\ phase'[s] = "done"
          /\ \A e \in Sessions \ {s} : phase'[e] = phase[e]
      BY <1>2, <3>1
    <3>6. QED
      BY <1>2, <1>3, <2>2, <2>3, <3>1, <3>2, <3>4, <3>5, SessionStep
  <2>6. CASE m.blk % Mod = block[s] % Mod /\ block[s] # total
    <3>1. /\ Deliver(m, {Data(s, block[s] + 1)})
          /\ block' = [block EXCEPT ![s] = block[s] + 1]
          /\ tries' = [tries EXCEPT ![s] = 0]
          /\ UNCHANGED phase
      BY <2>1, <2>6
    <3>2. block[s] =< Len(written)
      BY <2>1, <2>6, AckIsRight
    <3>3. PICK b \in 0..MaxTotal : b = block[s] + 1
      BY <1>1, <1>3, <2>6
    <3>4. block[s] =< b /\ b =< total /\ b =< Len(written) + 1 /\ b > 0
      BY <1>1, <1>3, <2>6, <3>2, <3>3
    <3>5. {Data(s, b)} \in SUBSET Datagrams
      BY <3>3, Sendable
    <3>6. /\ block' \in [Sessions -> 0..MaxTotal] /\ block'[s] = b
          /\ tries' \in [Sessions -> 0..ServerRetries]
          /\ \A e \in Sessions \ {s} : block'[e] = block[e]
      <4>1. 0 \in 0..ServerRetries
        BY <1>1
      <4>2. QED
        BY <1>2, <3>1, <3>3, <4>1
    <3>7. net' \subseteq net \cup {Data(s, block'[s])} /\ dups' \in 0..MaxDups
      <4>1. Deliver(m, {Data(s, b)})
        BY <3>1, <3>3
      <4>2. net' \subseteq net \cup {Data(s, b)} /\ dups' \in 0..MaxDups
        BY <1>1, <3>5, <4>1, DeliverEffect
      <4>3. QED
        BY <3>6, <4>2
    <3>8. QED
      BY <1>2, <1>3, <2>2, <3>1, <3>4, <3>6, <3>7, SessionStep
  <2>7. QED
    BY <2>4, <2>5, <2>6
<1>7. CASE ServerTimeout(s)
  <2>1. phase[s] = "sending" /\ UNCHANGED <<total, client, reset, block, losses, dups>>
    BY <1>7 DEF ServerTimeout
  <2>2. block[s] =< block'[s]
    BY <1>1, <2>1
  <2>3. CASE tries[s] < ServerRetries
    <3>1. /\ net' = net \cup {Data(s, block[s])}
          /\ tries' = [tries EXCEPT ![s] = tries[s] + 1] /\ phase' = phase
      BY <1>7, <2>3 DEF ServerTimeout
    <3>2. tries[s] + 1 \in 0..ServerRetries
      BY <1>1, <2>3
    <3>3. tries' \in [Sessions -> 0..ServerRetries]
      BY <1>2, <3>1, <3>2
    <3>4. net' \subseteq net \cup {Data(s, block'[s])} /\ block'[s] > 0
      BY <1>3, <2>1, <3>1
    <3>5. QED
      BY <1>2, <1>3, <2>1, <2>2, <3>1, <3>3, <3>4, SessionStep
  <2>4. CASE ~(tries[s] < ServerRetries)
    <3>1. /\ net' = net /\ tries' = tries
          /\ phase' = [phase EXCEPT ![s] = "failed"]
      BY <1>7, <2>4 DEF ServerTimeout
    <3>2. /\ phase' \in [Sessions -> {"free", "sending", "done", "failed"}]
          /\ phase'[s] = "failed"
          /\ \A e \in Sessions \ {s} : phase'[e] = phase[e]
      BY <1>2, <3>1
    <3>3. net' \subseteq net \cup {Error(s)}
      BY <3>1
    <3>4. QED
      BY <1>2, <1>3, <2>1, <2>2, <3>1, <3>2, <3>3, SessionStep
  <2>5. QED
    BY <2>3, <2>4
<1>8. CASE PortClosed(s)
  <2>1. PICK m \in net : Deliver(m, {})
    BY <1>8 DEF PortClosed
  <2>2. /\ phase[s] \in {"done", "failed"} /\ reset' \in BOOLEAN
        /\ UNCHANGED <<total, client, sessions, losses>>
    BY <1>2, <1>8 DEF PortClosed
  <2>3. net' \subseteq net \cup {Error(s)} /\ dups' \in 0..MaxDups
    BY <1>1, <1>4, <2>1, DeliverEffect
  <2>4. block[s] =< block'[s]
    BY <1>1, <2>2
  <2>5. QED
    BY <1>2, <1>3, <2>2, <2>3, <2>4, SessionStep
<1>9. QED
  BY <1>5, <1>6, <1>7, <1>8 DEF Server

(* Losing a datagram, and letting one go that nobody will read. *)
LEMMA NetworkStep ==
    ASSUME IndInv, Lose \/ Discard
    PROVE  IndInv'
<1> USE DEF client, sessions
<1>1. /\ UNCHANGED <<total, client, reset, sessions, dups>>
      /\ net' \subseteq net
  BY DEF Lose, Discard
<1>2. losses' \in 0..MaxLosses
  <2>1. losses \in 0..MaxLosses /\ MaxLosses \in Nat
    BY SizesAssumption DEF IndInv, TypeOK
  <2>2. CASE Lose
    BY <2>1, <2>2 DEF Lose
  <2>3. CASE Discard
    BY <2>1, <2>3 DEF Discard
  <2>4. QED
    BY <2>2, <2>3
<1>3. CopyInv' /\ NetInv' /\ NeverAhead' /\ net' \subseteq Datagrams
  BY <1>1, SilentStep
<1>4. TypeOK'
  BY <1>1, <1>2, <1>3 DEF IndInv, TypeOK
<1>5. ResultInv'
  BY <1>1 DEF IndInv, ResultInv
<1>6. QED
  BY <1>3, <1>4, <1>5 DEF IndInv

LEMMA InitInv == Init => IndInv
<1> SUFFICES ASSUME Init PROVE IndInv
  OBVIOUS
<1>1. /\ Mod \in Nat /\ Mod > 1 /\ MAX_RETRIES \in Nat /\ MaxTotal \in Nat
      /\ ServerRetries \in Nat /\ MaxLosses \in Nat /\ MaxDups \in Nat
  BY SizesAssumption
<1>2. total \in 1..MaxTotal /\ total \in Nat /\ total > 0
  BY <1>1 DEF Init
<1>3. TypeOK
  <2>1. expected_block \in 0..Mod - 1
    BY <1>1, Division DEF Init
  <2>2. net \subseteq Datagrams
    BY DEF Init, Datagrams
  <2>3. 0 \in 0..MAX_RETRIES + 1 /\ 0 \in 0..MaxTotal /\ 0 \in 0..ServerRetries
        /\ 0 \in 0..MaxLosses /\ 0 \in 0..MaxDups
    BY <1>1
  <2>4. written \in Seq(1..MaxTotal)
    BY DEF Init
  <2>5. QED
    BY <1>2, <2>1, <2>2, <2>3, <2>4 DEF Init, TypeOK
<1>4. Len(written) = 0
  BY DEF Init
<1>5. CopyInv
  BY <1>2, <1>4 DEF Init, CopyInv
<1>6. NetInv
  BY <1>2 DEF Init, NetInv, Request
<1>7. NeverAhead
  <2>1. \A s \in Sessions : block[s] = 0 /\ phase[s] = "free"
    BY DEF Init
  <2>2. 0 =< Len(written) + 1
    BY <1>4
  <2>3. QED
    BY <2>1, <2>2 DEF NeverAhead
<1>8. ResultInv
  BY <1>1 DEF Init, ResultInv
<1>9. QED
  BY <1>3, <1>5, <1>6, <1>7, <1>8 DEF IndInv

(* What is written, what is under way and what both sides believe, after   *)
(* every sequence of steps of tftp_get, the server and the network.        *)
THEOREM Invariance == Spec => []IndInv
<1>1. IndInv /\ [Next]_vars => IndInv'
  <2> SUFFICES ASSUME IndInv, [Next]_vars PROVE IndInv'
    OBVIOUS
  <2>1. CASE Client
    BY <2>1, ReceiveStep, ClientStep DEF Client
  <2>2. CASE Lose \/ Discard
    BY <2>2, NetworkStep
  <2>3. ASSUME NEW s \in Sessions, Server(s) PROVE IndInv'
    BY <2>3, ServerStep
  <2>4. CASE UNCHANGED vars
    BY <2>4
    DEF IndInv, TypeOK, CopyInv, NetInv, NeverAhead, ResultInv, vars, client, sessions, network
  <2>5. QED
    BY <2>1, <2>2, <2>3, <2>4 DEF Next
<1>2. QED
  BY <1>1, InitInv, PTL DEF Spec

(* No session sends a block before all the blocks below it are written,    *)
(* and none takes the transfer for finished before it is.                  *)
THEOREM ServerNeverAhead == Spec => []NeverAhead
<1>1. IndInv => NeverAhead
  BY DEF IndInv
<1>2. QED
  BY <1>1, Invariance, PTL

(* When tftp_get returns 0 the local file is the remote one, whatever has  *)
(* been lost, repeated or reordered and however often the numbers wrapped. *)
THEOREM ZeroIsWhole == Spec => [](result = "0" => written = [k \in 1..total |-> k])
<1>1. ASSUME IndInv, result = "0" PROVE written = [k \in 1..total |-> k]
  <2>1. Len(written) = total /\ \A k \in 1..Len(written) : written[k] = k
    BY <1>1 DEF IndInv, ResultInv, CopyInv
  <2>2. written = [k \in 1..Len(written) |-> written[k]]
    <3>1. written \in Seq(1..MaxTotal)
      BY <1>1 DEF IndInv, TypeOK
    <3>2. QED
      BY <3>1
  <2>3. QED
    BY <2>1, <2>2
<1>2. QED
  BY <1>1, Invariance, PTL

(* tftp_get is a transfer: it copies the next block, or gives up, or       *)
(* reports a complete copy, and every other step leaves the copy alone.    *)
THEOREM IsTransfer == Spec => GetIsTransfer
<1>1. Init => Transfer!Init
  BY SizesAssumption DEF Init, Transfer!Init, Verdict
<1>2. IndInv /\ [Next]_vars => [Transfer!Next]_Transfer!transferVars
  <2> SUFFICES ASSUME IndInv, [Next]_vars
               PROVE  Transfer!Next \/ UNCHANGED <<total, written, Verdict>>
    BY DEF Transfer!transferVars
  <2> USE DEF client, sessions, network
  <2>1. CASE UNCHANGED <<total, written, result>>
    BY <2>1 DEF Verdict
  <2>2. CASE /\ pc # "done" /\ result' = "-1"
             /\ UNCHANGED <<total, written>>
    <3>1. Verdict = "running" /\ Verdict' = "bad"
      BY <2>2 DEF IndInv, ResultInv, Verdict
    <3>2. QED
      BY <2>2, <3>1 DEF Transfer!Next, Transfer!Fail
  <2>3. CASE Return
    <3>1. Verdict = "running" /\ Verdict' = "good" /\ Len(written) = total
      BY <2>3 DEF IndInv, ResultInv, Verdict, Return
    <3>2. QED
      BY <2>3, <3>1 DEF Transfer!Next, Transfer!Succeed, Return
  <2>4. ASSUME NEW m \in net, ~Stale(m), NextBlock(m), UNCHANGED total
        PROVE  Transfer!Next
    <3>1. m.blk = Len(written) + 1 /\ m.blk \in 1..total
      BY <2>4, NextIsNext DEF NextBlock
    <3>2. Len(written) < total /\ Verdict' = Verdict
      <4>1. Len(written) \in Nat /\ total \in Nat
        BY LengthType DEF IndInv
      <4>2. QED
        BY <2>4, <3>1, <4>1 DEF NextBlock, Verdict
    <3>3. QED
      BY <2>4, <3>1, <3>2 DEF NextBlock, Transfer!Next, Transfer!CopyBlock
  <2>5. CASE Receive
    <3>1. PICK m \in net :
            ~Stale(m) /\ (NextBlock(m) \/ OldBlock(m) \/ OtherBlock(m) \/ ErrorPacket(m))
      BY <2>5 DEF Receive
    <3>2. UNCHANGED total /\ pc = "recv"
      BY <2>5 DEF Receive
    <3>3. QED
      BY <2>1, <2>2, <2>4, <3>1, <3>2 DEF OldBlock, OtherBlock, ErrorPacket
  <2>6. CASE Timeout \/ ReceiveError
    BY <2>1, <2>2, <2>6 DEF Timeout, ReceiveError
  <2>7. CASE Lose \/ Discard \/ UNCHANGED vars
    BY <2>1, <2>7 DEF Lose, Discard, vars
  <2>8. ASSUME NEW s \in Sessions, Server(s)
        PROVE  UNCHANGED <<total, written, result>>
    BY <2>8 DEF Server, ServerStart, ServerAck, ServerTimeout, PortClosed
  <2>9. QED
    BY <2>1, <2>3, <2>5, <2>6, <2>7, <2>8 DEF Next, Client
<1>3. QED
  BY <1>1, <1>2, Invariance, PTL DEF Spec, GetIsTransfer, Transfer!Spec
=============================================================================
