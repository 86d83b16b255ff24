---------------------------- MODULE TftpPutProofs ----------------------------
(***************************************************************************)
(* tftp_put, for files of every length, block numbers of every width, any  *)
(* number of sessions that repeated requests open and any losses, repeats  *)
(* and reorderings, as long as no datagram outlives a turn of the numbers. *)
(***************************************************************************)
EXTENDS TftpPut, BlockNumbers, SequenceTheorems

LEMMA Sizes ==
    /\ Mod \in Nat /\ Mod > 1 /\ Mod > 0
    /\ MAX_RETRIES \in Nat /\ MaxTotal \in Nat /\ ServerRetries \in Nat /\ MaxDups \in Nat
BY SizesAssumption

(* The datagrams by their kind. *)
LEMMA Kinds ==
    ASSUME TypeOK, NEW m \in net
    PROVE  /\ m.op \in {"wrq", "stray", "data", "ack", "error"}
           /\ m.op \in {"data", "ack"} =>
                m.port \in Sessions /\ m.blk \in 0..MaxTotal /\ m.blk \in Nat
           /\ m.op = "error" => m.port \in Sessions \cup {None}
<1>1. m \in Datagrams
  BY DEF TypeOK
<1>2. CASE m \in {Request, Stray}
  BY <1>2 DEF Request, Stray
<1>3. CASE \E s \in Sessions \cup {None} : m = Error(s)
  BY <1>3 DEF Error
<1>4. CASE m \in [op : {"data", "ack"}, port : Sessions, blk : 0..MaxTotal]
  BY <1>4, Sizes
<1>5. QED
  BY <1>1, <1>2, <1>3, <1>4 DEF Datagrams

(* What can be sent. *)
LEMMA Sendable ==
    /\ Request \in Datagrams /\ Stray \in Datagrams
    /\ \A s \in Sessions \cup {None} : Error(s) \in Datagrams
    /\ \A s \in Sessions, k \in 0..MaxTotal :
         Data(s, k) \in Datagrams /\ Ack(s, k) \in Datagrams
BY DEF Data, Ack, Datagrams

(* What a delivery does to the network, whether a copy stays behind or not. *)
LEMMA DeliverEffect ==
    ASSUME TypeOK, NEW m \in net, NEW out \in SUBSET Datagrams, Deliver(m, out)
    PROVE  net' \subseteq net \cup out /\ dups' \in 0..MaxDups
<1>1. dups \in 0..MaxDups
  BY DEF TypeOK
<1>2. net' \subseteq net \cup out
  BY DEF Deliver
<1>3. dups' \in 0..MaxDups
  BY <1>1, Sizes DEF Deliver
<1>4. QED
  BY <1>2, <1>3

LEMMA Numbers ==
    ASSUME TypeOK
    PROVE  /\ total \in Nat /\ total =< MaxTotal /\ read \in Nat /\ MaxTotal \in Nat
           /\ Size \in Nat /\ total =< Size /\ Size =< total + 1
           /\ exact => Size = total + 1
           /\ ~exact => Size = total
           /\ \A s \in Sessions : Len(stored[s]) \in Nat
<1>1. /\ total \in Nat /\ total =< MaxTotal /\ read \in Nat /\ MaxTotal \in Nat
  BY Sizes DEF TypeOK
<1>2. \A s \in Sessions : stored[s] \in Seq(1..MaxTotal)
  BY DEF TypeOK
<1>3. \A s \in Sessions : Len(stored[s]) \in Nat
  BY <1>2, LenProperties
<1>4. QED
  BY <1>1, <1>3 DEF Size

(* When one session at most has a file, that file is Stored. *)
LEMMA StoredIs ==
    ASSUME NEW p, \A s \in Sessions : stored[s] # <<>> => s = p
    PROVE  /\ p \in Sessions => Stored = stored[p]
           /\ p \notin Sessions => Stored = <<>>
           /\ \A s \in Sessions : stored[s] # <<>> => Stored = stored[s]
<1> DEFINE S == {s \in Sessions : stored[s] # <<>>}
<1>1. CASE S = {}
  <2>1. Stored = <<>> /\ \A s \in Sessions : stored[s] = <<>>
    BY <1>1 DEF Stored
  <2>2. QED
    BY <2>1
<1>2. CASE S # {}
  <2>1. S = {p} /\ p \in Sessions
    BY <1>2
  <2>2. Stored = stored[CHOOSE s \in S : TRUE]
    BY <1>2 DEF Stored
  <2>3. (CHOOSE s \in S : TRUE) = p
    BY <2>1
  <2>4. QED
    BY <2>1, <2>2, <2>3
<1>3. QED
  BY <1>1, <1>2

LEMMA StoredType ==
    ASSUME IndInv
    PROVE  Stored \in Seq(1..MaxTotal) /\ Len(Stored) \in Nat
<1>1. PICK p \in Sessions \cup {None} : Peer(p)
  BY DEF IndInv
<1>2. /\ p \in Sessions => Stored = stored[p]
      /\ p \notin Sessions => Stored = <<>>
  BY <1>1, StoredIs DEF Peer
<1>3. \A s \in Sessions : stored[s] \in Seq(1..MaxTotal)
  BY DEF IndInv, TypeOK
<1>4. <<>> \in Seq(1..MaxTotal)
  OBVIOUS
<1>5. Stored \in Seq(1..MaxTotal)
  BY <1>2, <1>3, <1>4
<1>6. QED
  BY <1>5, LenProperties

LEMMA StoredIsNext ==
    ASSUME NEW p \in Sessions, \A s \in Sessions : stored'[s] # <<>> => s = p
    PROVE  Stored' = stored'[p]
<1> DEFINE S == {s \in Sessions : stored'[s] # <<>>}
<1>1. Stored' = IF S = {} THEN <<>> ELSE stored'[CHOOSE s \in S : TRUE]
  BY DEF Stored
<1>2. CASE S = {}
  BY <1>1, <1>2
<1>3. CASE S # {}
  <2>1. S = {p}
    BY <1>3
  <2>2. (CHOOSE s \in S : TRUE) = p
    BY <2>1
  <2>3. QED
    BY <1>1, <1>3, <2>2
<1>4. QED
  BY <1>2, <1>3

(* The acknowledgement that tftp_put takes is one of all it has sent. *)
LEMMA AckIsAll ==
    ASSUME IndInv, NEW m \in net, m.op = "ack", Fresh(read, m.blk), m.blk % Mod = block_num
    PROVE  /\ m.port \in Sessions /\ read = Len(stored[m.port])
           /\ read =< total /\ read =< Len(Stored)
<1>1. TypeOK /\ FileInv /\ block_num = read % Mod
  BY DEF IndInv, InStep
<1>2. /\ m.port \in Sessions /\ m.blk \in Nat /\ read \in Nat /\ total \in Nat
      /\ Len(stored[m.port]) \in Nat
  BY <1>1, Kinds, Numbers
<1>3. /\ m.blk =< Len(stored[m.port])
      /\ Len(stored[m.port]) =< total /\ Len(stored[m.port]) =< read
  BY <1>1, <1>2 DEF FileInv
<1>4. read =< m.blk
  <2>1. PICK a \in Nat, b \in Nat : a = read /\ b = m.blk
    BY <1>2
  <2>2. a < b + Mod /\ a % Mod = b % Mod
    BY <1>1, <2>1 DEF Fresh
  <2>3. a =< b
    BY <2>2, Sizes, SameNumber
  <2>4. QED
    BY <2>1, <2>3
<1>5. PICK x \in Nat : x = Len(stored[m.port])
  BY <1>2
<1>6. read = x /\ read =< total
  BY <1>2, <1>3, <1>4, <1>5
<1>7. read =< Len(Stored)
  <2>1. PICK p \in Sessions \cup {None} : Peer(p)
    BY DEF IndInv
  <2>2. \A s \in Sessions : stored[s] # <<>> => Stored = stored[s]
    BY <2>1, StoredIs DEF Peer
  <2>3. CASE stored[m.port] # <<>>
    BY <1>2, <1>5, <1>6, <2>2, <2>3
  <2>4. CASE stored[m.port] = <<>>
    <3>1. read = 0
      BY <1>5, <1>6, <2>4
    <3>3. Len(Stored) \in Nat
      BY StoredType
    <3>4. QED
      BY <3>1, <3>3
  <2>5. QED
    BY <2>3, <2>4
<1>8. QED
  BY <1>2, <1>5, <1>6, <1>7

(* The block that a session stores is the next one, and of its own file.   *)
LEMMA DataIsNext ==
    ASSUME IndInv, NEW s \in Sessions, NEW m \in net, m.op = "data", m.port = s,
           Fresh(Len(stored[s]) + 1, m.blk), m.blk % Mod = (Len(stored[s]) + 1) % Mod
    PROVE  /\ m.blk = Len(stored[s]) + 1 /\ m.blk \in 1..total /\ m.blk =< read
           /\ Peer(s) /\ Stored = stored[s]
<1>1. TypeOK /\ FileInv /\ read =< Len(Stored) + 1
  BY DEF IndInv, InStep
<1>2. /\ m.blk \in Nat /\ read \in Nat /\ total \in Nat /\ Len(stored[s]) \in Nat
  BY <1>1, Kinds, Numbers
<1>3. PICK p \in Sessions \cup {None} : Peer(p)
  BY DEF IndInv
<1>4. Peer(s)
  BY <1>3 DEF Peer
<1>5. Stored = stored[s]
  BY <1>4, StoredIs DEF Peer
<1>6. m.blk \in 1..read /\ m.blk =< total
  BY <1>1 DEF FileInv
<1>7. PICK x \in Nat : x = Len(stored[s]) + 1
  BY <1>2
<1>8. x =< m.blk
  <2>1. PICK b \in Nat : b = m.blk
    BY <1>2
  <2>2. x < b + Mod /\ x % Mod = b % Mod
    BY <1>7, <2>1 DEF Fresh
  <2>3. x =< b
    BY <2>2, Sizes, SameNumber
  <2>4. QED
    BY <2>1, <2>3
<1>9. read =< x
  BY <1>1, <1>5, <1>7
<1>10. m.blk = x /\ m.blk \in 1..total /\ m.blk =< read
  BY <1>2, <1>6, <1>8, <1>9
<1>11. QED
  BY <1>4, <1>5, <1>7, <1>10

(* The steps in which nothing is stored and no block is read. *)
LEMMA QuietStep ==
    ASSUME IndInv, UNCHANGED <<file, read, block_num, stored>>,
           \A s \in Sessions : phase'[s] = "done" => phase[s] = "done",
           NEW out \in SUBSET Datagrams, net' \subseteq net \cup out,
           \A m \in out : m.op # "data",
           \A m \in out : m.op = "ack" => m.blk =< Len(stored[m.port])
    PROVE  /\ FileInv' /\ InStep' /\ Stored' = Stored /\ Size' = Size
           /\ net' \subseteq Datagrams
           /\ \E p \in Sessions \cup {None} : Peer(p)'
<1> USE DEF file
<1>1. TypeOK /\ FileInv /\ InStep
  BY DEF IndInv
<1>2. Stored' = Stored /\ Size' = Size
  BY DEF Stored, Size
<1>3. FileInv'
  <2>1. \A m \in net' : m.op = "data" => m \in net
    OBVIOUS
  <2>2. \A m \in net' : m.op = "data" => m.blk \in 1..read' /\ m.blk =< total'
    BY <1>1, <2>1 DEF FileInv
  <2>3. \A m \in net' : m.op = "ack" => m.blk =< Len(stored'[m.port])
    BY <1>1 DEF FileInv
  <2>4. QED
    BY <1>1, <2>2, <2>3 DEF FileInv
<1>4. InStep'
  BY <1>1, <1>2 DEF InStep
<1>5. PICK p \in Sessions \cup {None} : Peer(p)
  BY DEF IndInv
<1>6. Peer(p)'
  BY <1>5 DEF Peer
<1>7. net' \subseteq Datagrams
  BY <1>1 DEF TypeOK
<1>8. QED
  BY <1>2, <1>3, <1>4, <1>6, <1>7

(* Those that send nothing either. *)
LEMMA SilentStep ==
    ASSUME IndInv, UNCHANGED <<file, read, block_num, stored>>,
           \A s \in Sessions : phase'[s] = "done" => phase[s] = "done",
           net' \subseteq net
    PROVE  /\ FileInv' /\ InStep' /\ Stored' = Stored /\ Size' = Size
           /\ net' \subseteq Datagrams
           /\ \E p \in Sessions \cup {None} : Peer(p)'
<1>1. PICK out \in SUBSET Datagrams : out = {}
  OBVIOUS
<1>2. /\ net' \subseteq net \cup out
      /\ \A m \in out : m.op # "data"
      /\ \A m \in out : m.op = "ack" => m.blk =< Len(stored[m.port])
  BY <1>1
<1>3. QED
  BY <1>2, QuietStep

(* Those of the server. *)
LEMMA ServerQuiet ==
    ASSUME IndInv, UNCHANGED <<file, client, stored>>,
           phase' \in [Sessions -> {"free", "storing", "done", "failed"}],
           tries' \in [Sessions -> 0..ServerRetries], reset' \in BOOLEAN,
           \A s \in Sessions : phase'[s] = "done" => phase[s] = "done",
           NEW s \in Sessions \cup {None}, NEW k \in 0..MaxTotal,
           \/ s \in Sessions /\ k =< Len(stored[s]) /\ net' \subseteq net \cup {Ack(s, k)}
           \/ net' \subseteq net \cup {Error(s)},
           dups' \in 0..MaxDups
    PROVE  IndInv'
<1> USE DEF file, client
<1>1. PICK out \in SUBSET Datagrams :
        /\ net' \subseteq net \cup out
        /\ \A m \in out : m.op # "data"
        /\ \A m \in out : m.op = "ack" => m.blk =< Len(stored[m.port])
  <2>1. CASE s \in Sessions /\ k =< Len(stored[s]) /\ net' \subseteq net \cup {Ack(s, k)}
    <3> DEFINE out == {Ack(s, k)}
    <3>1. out \in SUBSET Datagrams /\ net' \subseteq net \cup out
      BY <2>1, Sendable
    <3>2. \A m \in out : m.op = "ack" /\ m.port = s /\ m.blk = k
      BY DEF Ack
    <3>3. \A m \in out : m.op # "data" /\ m.blk =< Len(stored[m.port])
      BY <2>1, <3>2
    <3> HIDE DEF out
    <3>4. QED
      BY <3>1, <3>3
  <2>2. CASE net' \subseteq net \cup {Error(s)}
    <3> DEFINE out == {Error(s)}
    <3>1. out \in SUBSET Datagrams /\ net' \subseteq net \cup out
      BY <2>2, Sendable
    <3>2. \A m \in out : m.op = "error"
      BY DEF Error
    <3> HIDE DEF out
    <3>3. QED
      BY <3>1, <3>2
  <2>3. QED
    BY <2>1, <2>2
<1>2. /\ FileInv' /\ InStep' /\ Stored' = Stored /\ Size' = Size
      /\ net' \subseteq Datagrams
      /\ \E p \in Sessions \cup {None} : Peer(p)'
  BY <1>1, QuietStep
<1>3. TypeOK'
  BY <1>2 DEF IndInv, TypeOK
<1>4. ClientInv'
  BY <1>2 DEF IndInv, ClientInv
<1>5. QED
  BY <1>2, <1>3, <1>4 DEF IndInv

(* A session stores the next block and acknowledges it. *)
LEMMA StoreStep ==
    ASSUME IndInv, UNCHANGED <<file, client, reset>>,
           NEW s \in Sessions, NEW m \in net, m.op = "data", m.port = s,
           Fresh(Len(stored[s]) + 1, m.blk), m.blk % Mod = (Len(stored[s]) + 1) % Mod,
           stored' = [stored EXCEPT ![s] = Append(@, m.blk)],
           phase' = [phase EXCEPT ![s] = IF Short(m.blk) THEN "done" ELSE @],
           tries' = [tries EXCEPT ![s] = 0],
           Deliver(m, {Ack(s, m.blk)})
    PROVE  IndInv'
<1> USE DEF file, client
<1>1. TypeOK /\ FileInv /\ InStep /\ ClientInv
  BY DEF IndInv
<1>2. /\ m.blk = Len(stored[s]) + 1 /\ m.blk \in 1..total /\ m.blk =< read
      /\ Peer(s) /\ Stored = stored[s]
  BY DataIsNext
<1>3. /\ total \in Nat /\ total =< MaxTotal /\ read \in Nat /\ MaxTotal \in Nat
      /\ Size \in Nat /\ total =< Size
      /\ \A e \in Sessions : Len(stored[e]) \in Nat
  BY <1>1, Numbers
<1>4. m.blk \in 1..MaxTotal /\ m.blk \in 0..MaxTotal
  BY <1>2, <1>3
<1>5. stored \in [Sessions -> Seq(1..MaxTotal)]
  BY <1>1 DEF TypeOK
<1>6. /\ stored'[s] = Append(stored[s], m.blk)
      /\ \A e \in Sessions \ {s} : stored'[e] = stored[e]
  BY <1>5
<1>7. /\ stored'[s] \in Seq(1..MaxTotal) /\ Len(stored'[s]) = Len(stored[s]) + 1
      /\ \A k \in 1..Len(stored[s]) : stored'[s][k] = stored[s][k]
      /\ stored'[s][Len(stored[s]) + 1] = m.blk
  BY <1>4, <1>5, <1>6, AppendProperties
<1>8. {Ack(s, m.blk)} \in SUBSET Datagrams
  BY <1>4, Sendable
<1>9. net' \subseteq net \cup {Ack(s, m.blk)} /\ dups' \in 0..MaxDups
  BY <1>1, <1>8, DeliverEffect
<1>10. TypeOK'
  <2>1. stored' \in [Sessions -> Seq(1..MaxTotal)]
    BY <1>4, <1>5, AppendProperties
  <2>2. 0 \in 0..ServerRetries
    BY Sizes
  <2>3. /\ tries' \in [Sessions -> 0..ServerRetries]
        /\ phase' \in [Sessions -> {"free", "storing", "done", "failed"}]
    BY <1>1, <2>2 DEF TypeOK
  <2>4. net' \subseteq Datagrams
    BY <1>1, <1>8, <1>9 DEF TypeOK
  <2>5. QED
    BY <1>1, <1>9, <2>1, <2>3, <2>4 DEF TypeOK
<1>11. Len(stored'[s]) = m.blk
  BY <1>2, <1>7
<1>12. \A e \in Sessions : Len(stored[e]) =< Len(stored'[e]) /\ Len(stored'[e]) \in Nat
  BY <1>3, <1>6, <1>7
<1>13. FileInv'
  <2>1. ASSUME NEW e \in Sessions
        PROVE  /\ Len(stored'[e]) =< total' /\ Len(stored'[e]) =< read'
               /\ \A k \in 1..Len(stored'[e]) : stored'[e][k] = k
    <3>1. /\ Len(stored[e]) =< total /\ Len(stored[e]) =< read
          /\ \A k \in 1..Len(stored[e]) : stored[e][k] = k
      BY <1>1 DEF FileInv
    <3>2. CASE e # s
      BY <1>6, <3>1, <3>2
    <3>3. CASE e = s
      <4>1. m.blk =< total /\ m.blk =< read
        BY <1>2
      <4>2. PICK x \in Nat : x = Len(stored[s])
        BY <1>3
      <4>3. \A k \in 1..x + 1 : k \in 1..x \/ k = x + 1
        OBVIOUS
      <4>4. \A k \in 1..Len(stored'[s]) : stored'[s][k] = k
        BY <1>2, <1>7, <3>1, <3>3, <4>2, <4>3
      <4>5. QED
        BY <1>11, <3>3, <4>1, <4>4
    <3>4. QED
      BY <3>2, <3>3
  <2>2. ASSUME NEW e \in net', e.op = "ack" PROVE e.blk =< Len(stored'[e.port])
    <3>1. CASE e \in net
      <4>1. e.blk =< Len(stored[e.port]) /\ e.port \in Sessions /\ e.blk \in Nat
        BY <1>1, <2>2, <3>1, Kinds DEF FileInv
      <4>2. QED
        BY <1>3, <1>12, <4>1
    <3>2. CASE e = Ack(s, m.blk)
      <4>1. e.port = s /\ e.blk = m.blk
        BY <3>2 DEF Ack
      <4>2. QED
        BY <1>4, <1>11, <4>1
    <3>3. QED
      BY <1>9, <3>1, <3>2
  <2>3. \A e \in net' : e.op = "data" => e \in net
    BY <1>9 DEF Ack
  <2>4. \A e \in net' : e.op = "data" => e.blk \in 1..read' /\ e.blk =< total'
    BY <1>1, <2>3 DEF FileInv
  <2>5. QED
    BY <2>1, <2>2, <2>4 DEF FileInv
<1>14. Peer(s)'
  <2>1. \A e \in net' : e.op = "data" => e.port = s
    BY <1>2, <1>9 DEF Ack, Peer
  <2>2. \A e \in Sessions : stored'[e] # <<>> => e = s
    BY <1>2, <1>6 DEF Peer
  <2>3. QED
    BY <2>1, <2>2 DEF Peer
<1>15. Stored' = stored'[s]
  BY <1>14, StoredIsNext DEF Peer
<1>16. Len(Stored') = Len(Stored) + 1
  BY <1>2, <1>7, <1>15
<1>17. PICK x \in Nat : x = Len(Stored)
  BY <1>2, <1>3
<1>18. InStep'
  <2>1. read' =< Len(Stored') + 1
    <3>1. read =< x + 1
      BY <1>1, <1>17 DEF InStep
    <3>2. QED
      BY <1>3, <1>16, <1>17, <3>1
  <2>2. ASSUME NEW e \in Sessions, phase'[e] = "done"
        PROVE  ~exact' /\ Len(stored'[e]) = total'
    <3>1. CASE e # s
      BY <1>1, <1>6, <2>2, <3>1 DEF InStep, TypeOK
    <3>2. CASE e = s /\ Short(m.blk)
      BY <1>11, <3>2 DEF Short
    <3>3. CASE e = s /\ ~Short(m.blk)
      <4>1. phase[s] = "done"
        BY <1>1, <2>2, <3>3 DEF TypeOK
      <4>2. Len(stored[s]) = total
        BY <1>1, <4>1 DEF InStep
      <4>3. QED
        BY <1>2, <1>3, <4>2
    <3>4. QED
      BY <3>1, <3>2, <3>3
  <2>3. block_num' = read' % Mod
    BY <1>1 DEF InStep
  <2>4. QED
    BY <2>1, <2>2, <2>3 DEF InStep
<1>19. ~said
  <2>1. SUFFICES ASSUME said PROVE FALSE
    OBVIOUS
  <2>2. x = Size /\ x + 1 =< total
    BY <1>1, <1>2, <1>17, <2>1 DEF ClientInv
  <2>3. QED
    BY <1>3, <1>17, <2>2
<1>20. ClientInv'
  <2>1. Size' = Size
    BY DEF Size
  <2>2. QED
    BY <1>1, <1>19, <2>1 DEF ClientInv
<1>21. QED
  BY <1>10, <1>13, <1>14, <1>18, <1>20 DEF IndInv

LEMMA ServerStep ==
    ASSUME IndInv, NEW s \in Sessions, Server(s)
    PROVE  IndInv'
<1>1. /\ TypeOK /\ {Error(s)} \in SUBSET Datagrams /\ {} \in SUBSET Datagrams
      /\ s \in Sessions \cup {None} /\ 0 \in 0..MaxTotal
      /\ Len(stored[s]) \in 0..MaxTotal
  <2>1. TypeOK /\ Len(stored[s]) =< total
    BY DEF IndInv, FileInv
  <2>2. /\ Len(stored[s]) \in Nat /\ total =< MaxTotal /\ total \in Nat /\ MaxTotal \in Nat
    BY <2>1, Numbers
  <2>3. QED
    BY <2>1, <2>2, Sendable
<1>2. /\ stored \in [Sessions -> Seq(1..MaxTotal)] /\ tries \in [Sessions -> 0..ServerRetries]
      /\ phase \in [Sessions -> {"free", "storing", "done", "failed"}]
      /\ reset \in BOOLEAN /\ dups \in 0..MaxDups
  BY <1>1 DEF TypeOK
<1>3. CASE ServerStart(s)
  <2>1. Request \in net /\ UNCHANGED <<file, client, reset, stored, tries>>
    BY <1>3 DEF ServerStart
  <2>2. CASE phase' = [phase EXCEPT ![s] = "storing"] /\ Deliver(Request, {Ack(s, 0)})
    <3>1. {Ack(s, 0)} \in SUBSET Datagrams /\ 0 =< Len(stored[s])
      BY <1>1, Sendable
    <3>2. net' \subseteq net \cup {Ack(s, 0)} /\ dups' \in 0..MaxDups
      BY <1>1, <2>1, <2>2, <3>1, DeliverEffect
    <3>3. /\ phase' \in [Sessions -> {"free", "storing", "done", "failed"}]
          /\ \A e \in Sessions : phase'[e] = "done" => phase[e] = "done"
      BY <1>2, <2>2
    <3>4. QED
      BY <1>1, <1>2, <2>1, <3>1, <3>2, <3>3, ServerQuiet
  <2>3. CASE phase' = [phase EXCEPT ![s] = "failed"] /\ Deliver(Request, {Error(s)})
    <3>1. net' \subseteq net \cup {Error(s)} /\ dups' \in 0..MaxDups
      BY <1>1, <2>1, <2>3, DeliverEffect
    <3>2. /\ phase' \in [Sessions -> {"free", "storing", "done", "failed"}]
          /\ \A e \in Sessions : phase'[e] = "done" => phase[e] = "done"
      BY <1>2, <2>3
    <3>3. QED
      BY <1>1, <1>2, <2>1, <3>1, <3>2, ServerQuiet
  <2>4. QED
    BY <1>3, <2>2, <2>3 DEF ServerStart
<1>4. CASE ServerData(s)
  <2>1. UNCHANGED <<file, client, reset>>
    BY <1>4 DEF ServerData
  <2>2. PICK m \in net :
          /\ m.op = "data" /\ m.port = s
          /\ Fresh(Len(stored[s]) + 1, m.blk)
          /\ \/ /\ phase[s] = "storing"
                /\ m.blk % Mod = (Len(stored[s]) + 1) % Mod
                /\ stored' = [stored EXCEPT ![s] = Append(@, m.blk)]
                /\ phase' = [phase EXCEPT ![s] = IF Short(m.blk) THEN "done" ELSE @]
                /\ tries' = [tries EXCEPT ![s] = 0]
                /\ Deliver(m, {Ack(s, m.blk)})
             \/ /\ Deliver(m, {Ack(s, Len(stored[s]))})
                /\ UNCHANGED <<phase, stored, tries>>
             \/ /\ Deliver(m, {})
                /\ UNCHANGED <<phase, stored, tries>>
    BY <1>4 DEF ServerData
  <2>3. CASE Deliver(m, {Ack(s, Len(stored[s]))}) /\ UNCHANGED <<phase, stored, tries>>
    <3>1. PICK k \in 0..MaxTotal : k = Len(stored[s])
      BY <1>1
    <3>2. {Ack(s, k)} \in SUBSET Datagrams /\ k =< Len(stored[s])
      BY <3>1, Sendable
    <3>3. net' \subseteq net \cup {Ack(s, k)} /\ dups' \in 0..MaxDups
      BY <1>1, <2>3, <3>1, <3>2, DeliverEffect
    <3>4. QED
      BY <1>1, <1>2, <2>1, <2>3, <3>2, <3>3, ServerQuiet
  <2>4. CASE Deliver(m, {}) /\ UNCHANGED <<phase, stored, tries>>
    <3>1. net' \subseteq net \cup {Error(s)} /\ dups' \in 0..MaxDups
      BY <1>1, <2>4, DeliverEffect
    <3>2. QED
      BY <1>1, <1>2, <2>1, <2>4, <3>1, ServerQuiet
  <2>5. QED
    BY <2>1, <2>2, <2>3, <2>4, StoreStep
<1>5. CASE ServerTimeout(s)
  <2>1. UNCHANGED <<file, client, reset, stored, dups>>
    BY <1>5 DEF ServerTimeout
  <2>2. CASE tries[s] < ServerRetries
    <3>1. /\ net' = net \cup {Ack(s, Len(stored[s]))}
          /\ tries' = [tries EXCEPT ![s] = tries[s] + 1] /\ phase' = phase
      BY <1>5, <2>2 DEF ServerTimeout
    <3>2. tries[s] + 1 \in 0..ServerRetries
      BY <1>2, <2>2, Sizes
    <3>3. tries' \in [Sessions -> 0..ServerRetries]
      BY <1>2, <3>1, <3>2
    <3>4. PICK k \in 0..MaxTotal : k = Len(stored[s])
      BY <1>1
    <3>5. k =< Len(stored[s]) /\ net' \subseteq net \cup {Ack(s, k)}
      BY <3>1, <3>4
    <3>6. QED
      BY <1>1, <1>2, <2>1, <3>1, <3>3, <3>5, ServerQuiet
  <2>3. CASE ~(tries[s] < ServerRetries)
    <3>1. /\ net' = net /\ tries' = tries
          /\ phase' = [phase EXCEPT ![s] = "failed"]
      BY <1>5, <2>3 DEF ServerTimeout
    <3>2. /\ phase' \in [Sessions -> {"free", "storing", "done", "failed"}]
          /\ \A e \in Sessions : phase'[e] = "done" => phase[e] = "done"
          /\ net' \subseteq net \cup {Error(s)}
      BY <1>2, <3>1
    <3>3. QED
      BY <1>1, <1>2, <2>1, <3>1, <3>2, ServerQuiet
  <2>4. QED
    BY <2>2, <2>3
<1>6. CASE PortClosed(s)
  <2>1. PICK m \in net : Deliver(m, {})
    BY <1>6 DEF PortClosed
  <2>2. reset' \in BOOLEAN /\ UNCHANGED <<file, client, phase, stored, tries>>
    BY <1>2, <1>6 DEF PortClosed, sessions
  <2>3. net' \subseteq net \cup {Error(s)} /\ dups' \in 0..MaxDups
    BY <1>1, <2>1, DeliverEffect
  <2>4. QED
    BY <1>1, <1>2, <2>2, <2>3, ServerQuiet
<1>7. QED
  BY <1>3, <1>4, <1>5, <1>6 DEF Server

LEMMA RefuseStep ==
    ASSUME IndInv, ServerRefuses
    PROVE  IndInv'
<1>1. /\ Stray \in net /\ Deliver(Stray, {Error(None)})
      /\ UNCHANGED <<file, client, reset, phase, stored, tries>>
  BY DEF ServerRefuses, sessions
<1>2. TypeOK /\ {Error(None)} \in SUBSET Datagrams /\ 0 \in 0..MaxTotal
  BY Sendable, Sizes DEF IndInv
<1>3. net' \subseteq net \cup {Error(None)} /\ dups' \in 0..MaxDups
  BY <1>1, <1>2, DeliverEffect
<1>4. QED
  BY <1>1, <1>2, <1>3, ServerQuiet DEF TypeOK

(* tftp_put reads the next block and sends it, if there is one, to the     *)
(* session that has acknowledged all the others.                           *)
LEMMA ReceiveAckStep ==
    ASSUME IndInv, ReceiveAck
    PROVE  IndInv'
<1> USE DEF file, sessions
<1>1. PICK m \in net :
        /\ Arrived(m) /\ Receives(m)
        /\ m.op = "ack" /\ m.blk % Mod = block_num
        /\ Deliver(m, IF read < total THEN {Data(m.port, read + 1)} ELSE {})
        /\ sendto' = IF read < total THEN "ok" ELSE sendto
        /\ pc' = IF read < total /\ ~Short(read + 1) THEN "recv" ELSE "last"
  BY DEF ReceiveAck
<1>2. /\ pc = "recv" /\ read' = read + 1 /\ block_num' = (block_num + 1) % Mod
      /\ from_addr' = m.port /\ buffer' = "other" /\ retries' = 0
      /\ UNCHANGED <<total, exact, result, said, reset, phase, stored, tries>>
  BY <1>1 DEF ReceiveAck, Receives
<1>3. TypeOK /\ FileInv /\ InStep /\ ClientInv
  BY DEF IndInv
<1>4. /\ total \in Nat /\ total =< MaxTotal /\ read \in Nat /\ MaxTotal \in Nat
      /\ Size \in Nat /\ Size =< total + 1
      /\ exact => Size = total + 1
      /\ ~exact => Size = total
      /\ \A e \in Sessions : Len(stored[e]) \in Nat
  BY <1>3, Numbers
<1>5. /\ m.port \in Sessions /\ read = Len(stored[m.port])
      /\ read =< total /\ read =< Len(Stored)
  BY <1>1, AckIsAll DEF Arrived
<1>6. read < Size /\ ~said
  BY <1>2, <1>3 DEF ClientInv
<1>7. Stored' = Stored /\ Size' = Size
  BY <1>2 DEF Stored, Size
<1>8. PICK out \in SUBSET Datagrams :
        /\ Deliver(m, out)
        /\ \A e \in out : e.op = "data" /\ e.port = m.port /\ e.blk = read + 1 /\ read < total
  <2>1. CASE read < total
    <3> DEFINE out == {Data(m.port, read + 1)}
    <3>1. read + 1 \in 0..MaxTotal
      BY <1>4, <2>1
    <3>2. out \in SUBSET Datagrams
      BY <1>5, <3>1, Sendable
    <3>3. Deliver(m, out) /\ \A e \in out : e.op = "data" /\ e.port = m.port /\ e.blk = read + 1
      BY <1>1, <2>1 DEF Data
    <3> HIDE DEF out
    <3>4. QED
      BY <2>1, <3>2, <3>3
  <2>2. CASE ~(read < total)
    <3>1. Deliver(m, {})
      BY <1>1, <2>2
    <3>2. QED
      BY <3>1
  <2>3. QED
    BY <2>1, <2>2
<1>9. net' \subseteq net \cup out /\ dups' \in 0..MaxDups
  BY <1>3, <1>8, DeliverEffect
<1>10. read' \in 0..MaxTotal + 1 /\ read' =< Size /\ read =< read' /\ read' \in Nat
  <2>1. read + 1 =< Size /\ Size =< MaxTotal + 1
    BY <1>4, <1>6
  <2>2. QED
    BY <1>2, <1>4, <2>1
<1>11. block_num' = read' % Mod /\ block_num' \in 0..Mod - 1
  <2>1. block_num = read % Mod
    BY <1>3 DEF InStep
  <2>2. block_num' = (read + 1) % Mod
    BY <1>2, <1>4, <2>1, NextNumber, Sizes
  <2>3. PICK x \in Nat : x = read + 1
    BY <1>4
  <2>4. block_num' \in 0..Mod - 1
    BY <2>2, <2>3, Division, Sizes
  <2>5. QED
    BY <1>2, <2>2, <2>4
<1>12. TypeOK'
  <2>1. net' \subseteq Datagrams
    BY <1>3, <1>8, <1>9 DEF TypeOK
  <2>2. retries' \in 0..MAX_RETRIES + 1
    BY <1>2, Sizes
  <2>3. QED
    BY <1>1, <1>2, <1>3, <1>5, <1>9, <1>10, <1>11, <2>1, <2>2 DEF TypeOK
<1>13. FileInv'
  <2>1. ASSUME NEW e \in Sessions
        PROVE  /\ Len(stored'[e]) =< total' /\ Len(stored'[e]) =< read'
               /\ \A k \in 1..Len(stored'[e]) : stored'[e][k] = k
    <3>1. /\ Len(stored[e]) =< total /\ Len(stored[e]) =< read
          /\ \A k \in 1..Len(stored[e]) : stored[e][k] = k
      BY <1>3 DEF FileInv
    <3>2. QED
      BY <1>2, <1>4, <1>10, <3>1
  <2>2. ASSUME NEW e \in net', e.op = "data" PROVE e.blk \in 1..read' /\ e.blk =< total'
    <3>1. CASE e \in net
      <4>1. e.blk \in 1..read /\ e.blk =< total
        BY <1>3, <2>2, <3>1 DEF FileInv
      <4>2. QED
        BY <1>2, <1>4, <1>10, <4>1
    <3>2. CASE e \in out
      <4>1. e.blk = read + 1 /\ read < total
        BY <1>8, <3>2
      <4>2. QED
        BY <1>2, <1>4, <4>1
    <3>3. QED
      BY <1>9, <3>1, <3>2
  <2>3. \A e \in net' : e.op = "ack" => e.blk =< Len(stored'[e.port])
    BY <1>2, <1>3, <1>8, <1>9 DEF FileInv
  <2>4. QED
    BY <2>1, <2>2, <2>3 DEF FileInv
<1>14. Peer(m.port)'
  <2>1. CASE read = 0
    <3>1. \A e \in Sessions : stored[e] = <<>>
      <4>1. ASSUME NEW e \in Sessions PROVE Len(stored[e]) = 0
        <5>1. PICK x \in Nat : x = Len(stored[e])
          BY <1>4
        <5>2. Len(stored[e]) =< read
          BY <1>3 DEF FileInv
        <5>3. x = 0
          BY <2>1, <5>1, <5>2
        <5>4. QED
          BY <5>1, <5>3
      <4>2. \A e \in Sessions : Len(stored[e]) = 0
        BY <4>1
      <4>3. \A e \in Sessions : stored[e] \in Seq(1..MaxTotal)
        BY <1>3 DEF TypeOK
      <4>4. QED
        BY <4>2, <4>3, EmptySeq
    <3>2. \A e \in net : e.op # "data"
      BY <1>3, <2>1 DEF FileInv
    <3>3. QED
      BY <1>2, <1>8, <1>9, <3>1, <3>2 DEF Peer
  <2>2. CASE read # 0
    <3>1. PICK p \in Sessions \cup {None} : Peer(p)
      BY DEF IndInv
    <3>2. stored[m.port] # <<>>
      BY <1>5, <2>2
    <3>3. p = m.port
      BY <1>5, <3>1, <3>2 DEF Peer
    <3>4. QED
      BY <1>2, <1>8, <1>9, <3>1, <3>3 DEF Peer
  <2>3. QED
    BY <2>1, <2>2
<1>15. InStep'
  <2>1. PICK x \in Nat : x = Len(Stored)
    BY StoredType
  <2>2. read' =< Len(Stored') + 1
    BY <1>2, <1>4, <1>5, <1>7, <2>1
  <2>3. QED
    BY <1>2, <1>3, <1>11, <2>2 DEF InStep
<1>16. ClientInv'
  <2>1. CASE read < total /\ ~Short(read + 1)
    <3>1. pc' = "recv" /\ ~(read + 1 = total /\ ~exact)
      BY <1>1, <2>1 DEF Short
    <3>2. read' < Size
      BY <1>2, <1>4, <2>1, <3>1
    <3>3. QED
      BY <1>2, <1>3, <1>6, <1>7, <1>10, <3>1, <3>2, Sizes DEF ClientInv
  <2>2. CASE ~(read < total /\ ~Short(read + 1))
    <3>1. pc' = "last" /\ (read < total => read + 1 = total /\ ~exact)
      BY <1>1, <2>2 DEF Short
    <3>2. read' = Size
      BY <1>2, <1>4, <1>5, <1>6, <3>1
    <3>3. QED
      BY <1>2, <1>3, <1>6, <1>7, <1>10, <3>1, <3>2 DEF ClientInv
  <2>3. QED
    BY <2>1, <2>2
<1>17. QED
  BY <1>5, <1>12, <1>13, <1>14, <1>15, <1>16 DEF IndInv

(* The message is printed only when the last block has been acknowledged.  *)
LEMMA SaidIsTrue ==
    ASSUME IndInv, pc = "last", NEW m \in net, Arrived(m),
           m.op = "ack", m.blk % Mod = block_num
    PROVE  Len(Stored) = Size
<1>1. /\ m.port \in Sessions /\ read = Len(stored[m.port])
      /\ read =< total /\ read =< Len(Stored)
  BY AckIsAll DEF Arrived
<1>2. TypeOK /\ read = Size /\ (total = 0 => exact)
  BY DEF IndInv, ClientInv
<1>3. /\ read \in Nat /\ total \in Nat
      /\ exact => Size = total + 1
      /\ ~exact => Size = total
  BY <1>2, Numbers
<1>4. read # 0
  BY <1>1, <1>2, <1>3
<1>5. stored[m.port] # <<>>
  BY <1>1, <1>4
<1>6. PICK p \in Sessions \cup {None} : Peer(p)
  BY DEF IndInv
<1>7. Stored = stored[m.port]
  BY <1>1, <1>5, <1>6, StoredIs DEF Peer
<1>8. QED
  BY <1>1, <1>2, <1>7

(* The other steps of tftp_put. *)
LEMMA ClientStep ==
    ASSUME IndInv, ReceiveOtherAck \/ ReceiveErrorPacket \/ Timeout \/ GiveUp
                   \/ ReceiveError \/ LastAck \/ LastTimeout
    PROVE  IndInv'
<1> USE DEF file, sessions, network
<1>1. /\ TypeOK /\ {} \in SUBSET Datagrams /\ InStep /\ ClientInv
      /\ retries \in Nat /\ MAX_RETRIES \in Nat
  BY Sizes DEF IndInv, TypeOK
<1>2. UNCHANGED <<total, exact, read, block_num, phase, stored, tries>>
  BY DEF ReceiveOtherAck, ReceiveErrorPacket, Timeout, GiveUp, ReceiveError, LastAck,
         LastTimeout
<1>3. CASE ReceiveOtherAck \/ ReceiveErrorPacket
  <2>1. PICK m \in net : Arrived(m) /\ Receives(m) /\ Deliver(m, {})
    BY <1>3 DEF ReceiveOtherAck, ReceiveErrorPacket
  <2>2. net' \subseteq net /\ dups' \in 0..MaxDups
    BY <1>1, <2>1, DeliverEffect
  <2>3. m.port \in Sessions \cup {None}
    BY <1>1, <2>1, Kinds DEF Arrived
  <2>4. /\ FileInv' /\ InStep' /\ Stored' = Stored /\ Size' = Size
        /\ net' \subseteq Datagrams
        /\ \E p \in Sessions \cup {None} : Peer(p)'
    BY <1>2, <2>2, SilentStep
  <2>5. /\ from_addr' = m.port /\ buffer' = "other" /\ retries' = 0
        /\ UNCHANGED <<sendto, said, reset>>
        /\ \/ UNCHANGED <<pc, result>>
           \/ pc' = "done" /\ result' = "-1"
    BY <1>3, <2>1 DEF Receives, ReceiveOtherAck, ReceiveErrorPacket
  <2>6. retries' \in 0..MAX_RETRIES + 1 /\ retries' =< MAX_RETRIES
    BY <1>1, <2>5
  <2>7. TypeOK'
    BY <1>1, <1>2, <2>2, <2>3, <2>4, <2>5, <2>6 DEF TypeOK
  <2>8. ClientInv'
    BY <1>1, <1>2, <2>4, <2>5, <2>6 DEF ClientInv
  <2>9. QED
    BY <2>4, <2>7, <2>8 DEF IndInv
<1>4. CASE Timeout
  <2>1. /\ retries < MAX_RETRIES /\ retries' = retries + 1
        /\ sendto' \in {"ok", "failed"}
        /\ net' \subseteq net \cup {Request, Stray}
        /\ UNCHANGED <<pc, from_addr, result, buffer, said, reset, dups>>
    BY <1>4 DEF Timeout
  <2>2. {Request, Stray} \in SUBSET Datagrams
    BY Sendable
  <2>3. PICK out \in SUBSET Datagrams : out = {Request, Stray}
    BY <2>2
  <2>4. \A e \in out : e.op \in {"wrq", "stray"}
    BY <2>3 DEF Request, Stray
  <2>5. net' \subseteq net \cup out
    BY <2>1, <2>3
  <2>6. /\ FileInv' /\ InStep' /\ Stored' = Stored /\ Size' = Size
        /\ net' \subseteq Datagrams
        /\ \E p \in Sessions \cup {None} : Peer(p)'
    BY <1>2, <2>4, <2>5, QuietStep
  <2>7. retries' \in 0..MAX_RETRIES + 1 /\ retries' =< MAX_RETRIES
    BY <1>1, <2>1
  <2>8. TypeOK'
    BY <1>1, <1>2, <2>1, <2>6, <2>7 DEF TypeOK
  <2>9. ClientInv'
    BY <1>1, <1>2, <2>1, <2>6, <2>7 DEF ClientInv
  <2>10. QED
    BY <2>6, <2>8, <2>9 DEF IndInv
<1>5. CASE GiveUp \/ ReceiveError \/ LastTimeout
  <2>1. /\ pc # "done" /\ pc' = "done" /\ result' \in {"0", "-1"} /\ reset' \in BOOLEAN
        /\ UNCHANGED <<from_addr, buffer, said, sendto, net, dups>>
        /\ \/ retries' = retries
           \/ retries = MAX_RETRIES /\ retries' = retries + 1
    <3>1. CASE GiveUp
      BY <1>1, <3>1 DEF GiveUp, TypeOK
    <3>2. CASE ReceiveError
      <4>1. pc = "recv" /\ pc' = "done" /\ result' = "-1" /\ reset' = FALSE
        BY <3>2 DEF ReceiveError
      <4>2. UNCHANGED <<retries, from_addr, buffer, said, sendto, net, dups>>
        BY <3>2 DEF ReceiveError
      <4>3. QED
        BY <4>1, <4>2
    <3>3. CASE LastTimeout
      <4>1. pc = "last" /\ pc' = "done" /\ result' = "0" /\ reset' = FALSE
        BY <3>3 DEF LastTimeout
      <4>2. UNCHANGED <<retries, from_addr, buffer, said, sendto, net, dups>>
        BY <3>3 DEF LastTimeout
      <4>3. QED
        BY <4>1, <4>2
    <3>4. QED
      BY <1>5, <3>1, <3>2, <3>3
  <2>2. /\ FileInv' /\ InStep' /\ Stored' = Stored /\ Size' = Size
        /\ net' \subseteq Datagrams
        /\ \E p \in Sessions \cup {None} : Peer(p)'
    BY <1>2, <2>1, SilentStep
  <2>3. retries' \in 0..MAX_RETRIES + 1
    <3>1. retries \in 0..MAX_RETRIES + 1
      BY <1>1 DEF TypeOK
    <3>2. QED
      BY <1>1, <2>1, <3>1
  <2>4. TypeOK'
    BY <1>1, <1>2, <2>1, <2>2, <2>3 DEF TypeOK
  <2>5. ClientInv'
    BY <1>1, <1>2, <2>1, <2>2 DEF ClientInv
  <2>6. QED
    BY <2>2, <2>4, <2>5 DEF IndInv
<1>6. CASE LastAck
  <2>1. PICK m \in net :
          /\ Arrived(m) /\ Deliver(m, {})
          /\ from_addr' = m.port
          /\ said' = (m.op = "ack" /\ m.blk % Mod = block_num)
    BY <1>6 DEF LastAck
  <2>2. /\ pc = "last" /\ pc' = "done" /\ result' = "0" /\ buffer' = "other"
        /\ UNCHANGED <<retries, sendto, reset>>
    BY <1>6 DEF LastAck
  <2>3. net' \subseteq net /\ dups' \in 0..MaxDups
    BY <1>1, <2>1, DeliverEffect
  <2>4. m.port \in Sessions \cup {None}
    BY <1>1, <2>1, Kinds DEF Arrived
  <2>5. /\ FileInv' /\ InStep' /\ Stored' = Stored /\ Size' = Size
        /\ net' \subseteq Datagrams
        /\ \E p \in Sessions \cup {None} : Peer(p)'
    BY <1>2, <2>3, SilentStep
  <2>6. said' => Len(Stored) = Size
    BY <2>1, <2>2, SaidIsTrue
  <2>7. said' \in BOOLEAN
    BY <2>1
  <2>8. TypeOK'
    BY <1>1, <1>2, <2>1, <2>2, <2>3, <2>4, <2>5, <2>7 DEF TypeOK
  <2>9. ClientInv'
    BY <1>1, <1>2, <2>2, <2>5, <2>6 DEF ClientInv
  <2>10. QED
    BY <2>5, <2>8, <2>9 DEF IndInv
<1>7. QED
  BY <1>3, <1>4, <1>5, <1>6

LEMMA InitInv == Init => IndInv
<1> SUFFICES ASSUME Init PROVE IndInv
  OBVIOUS
<1>1. /\ total \in 0..MaxTotal /\ total \in Nat /\ exact \in BOOLEAN /\ (total = 0 => exact)
  BY Sizes DEF Init
<1>2. \A s \in Sessions : stored[s] = <<>> /\ Len(stored[s]) = 0
  BY DEF Init
<1>3. Stored = <<>> /\ Len(Stored) = 0
  BY <1>2 DEF Stored
<1>4. TypeOK
  <2>1. net \subseteq Datagrams
    BY Sendable DEF Init
  <2>2. /\ 0 \in 0..MAX_RETRIES + 1 /\ 0 \in 0..MaxTotal + 1 /\ 0 \in 0..ServerRetries
        /\ 0 \in 0..MaxDups /\ 0 \in 0..Mod - 1
    BY Sizes
  <2>3. stored \in [Sessions -> Seq(1..MaxTotal)]
    BY DEF Init
  <2>4. QED
    BY <2>1, <2>2, <2>3 DEF Init, TypeOK
<1>5. FileInv
  <2>1. \A m \in net : m.op \notin {"data", "ack"}
    BY DEF Init, Request
  <2>2. read = 0
    BY DEF Init
  <2>3. \A s \in Sessions : /\ Len(stored[s]) =< total /\ Len(stored[s]) =< read
                            /\ \A k \in 1..Len(stored[s]) : stored[s][k] = k
    <3>1. 0 =< total /\ 0 =< 0
      BY <1>1
    <3>2. \A k : k \notin 1..0
      OBVIOUS
    <3>3. QED
      BY <1>2, <2>2, <3>1, <3>2
  <2>4. QED
    BY <2>1, <2>3 DEF FileInv
<1>6. InStep
  <2>1. 0 % Mod = 0
    <3>1. (Mod * 0 + 0) % Mod = 0
      BY Sizes, Remainder
    <3>2. Mod * 0 + 0 = 0
      BY Sizes
    <3>3. QED
      BY <3>1, <3>2
  <2>2. 0 =< Len(Stored) + 1
    BY <1>3
  <2>3. QED
    BY <2>1, <2>2 DEF Init, InStep
<1>7. ClientInv
  <2>1. 0 < Size /\ 0 =< Size
    BY <1>1 DEF Size
  <2>2. 0 =< MAX_RETRIES
    BY Sizes
  <2>3. QED
    BY <1>1, <2>1, <2>2 DEF Init, ClientInv
<1>8. Peer(None)
  BY <1>2 DEF Init, Peer, Request
<1>9. QED
  BY <1>4, <1>5, <1>6, <1>7, <1>8 DEF IndInv

(* What is stored, what is under way and what tftp_put believes, after     *)
(* every sequence of steps of tftp_put, the server and the network.        *)
THEOREM Invariance == Spec => []IndInv
<1>1. IndInv /\ [Next]_vars => IndInv'
  <2> SUFFICES ASSUME IndInv, [Next]_vars PROVE IndInv'
    OBVIOUS
  <2>1. CASE Client
    BY <2>1, ReceiveAckStep, ClientStep DEF Client
  <2>2. CASE ServerRefuses
    BY <2>2, RefuseStep
  <2>3. ASSUME NEW s \in Sessions, Server(s) PROVE IndInv'
    BY <2>3, ServerStep
  <2>4. CASE UNCHANGED vars
    <3> USE DEF vars, file, client, sessions, network
    <3>1. PICK p \in Sessions \cup {None} : Peer(p)
      BY DEF IndInv
    <3>2. Peer(p)'
      BY <2>4, <3>1 DEF Peer
    <3>3. Stored' = Stored /\ Size' = Size
      BY <2>4 DEF Stored, Size
    <3>4. TypeOK' /\ FileInv' /\ InStep' /\ ClientInv'
      BY <2>4, <3>3 DEF IndInv, TypeOK, FileInv, InStep, ClientInv
    <3>5. QED
      BY <3>2, <3>4 DEF IndInv
  <2>5. QED
    BY <2>1, <2>2, <2>3, <2>4 DEF Next
<1>2. QED
  BY <1>1, InitInv, PTL DEF Spec

(* Every block goes to the session that acknowledged the request first,    *)
(* however many sessions repeated requests have opened.                    *)
THEOREM OneSessionOnly == Spec => []OneSession
<1>1. IndInv => OneSession
  BY DEF IndInv, Peer, OneSession
<1>2. QED
  BY <1>1, Invariance, PTL

(* The client is at most one block ahead and its 16-bit counter is right.  *)
THEOREM AlwaysInStep == Spec => []InStep
<1>1. IndInv => InStep
  BY DEF IndInv
<1>2. QED
  BY <1>1, Invariance, PTL

(* tftp_put is a transfer, in what the server stores and in what the       *)
(* message says, although not in what the program returns.                 *)
THEOREM IsTransfer == Spec => PutIsTransfer
<1>1. Init => Transfer!Init
  <2> SUFFICES ASSUME Init PROVE Transfer!Init
    OBVIOUS
  <2>1. total \in Nat /\ exact \in BOOLEAN /\ (total = 0 => exact)
    BY Sizes DEF Init
  <2>2. Size \in Nat \ {0}
    BY <2>1 DEF Size
  <2>3. Stored = <<>>
    BY DEF Init, Stored
  <2>4. Verdict = "running"
    BY DEF Init, Verdict
  <2>5. QED
    BY <2>2, <2>3, <2>4 DEF Transfer!Init
<1>2. IndInv /\ [Next]_vars => [Transfer!Next]_Transfer!transferVars
  <2> SUFFICES ASSUME IndInv, [Next]_vars
               PROVE  Transfer!Next \/ UNCHANGED <<Size, Stored, Verdict>>
    BY DEF Transfer!transferVars
  <2> USE DEF file, client, sessions, network
  <2>1. CASE UNCHANGED <<total, exact, stored, pc, said>>
    BY <2>1 DEF Size, Stored, Verdict
  <2>2. CASE UNCHANGED <<total, exact, stored>> /\ pc # "done" /\ pc' # "done" /\ said' = said
    <3>1. Size' = Size /\ Stored' = Stored /\ Verdict' = Verdict
      BY <2>2 DEF Size, Stored, Verdict
    <3>2. QED
      BY <3>1
  <2>3. CASE /\ UNCHANGED <<total, exact, stored>> /\ pc # "done" /\ pc' = "done"
             /\ said' = FALSE \/ said' = said
    <3>1. Size' = Size /\ Stored' = Stored
      BY <2>3 DEF Size, Stored
    <3>2. Verdict = "running" /\ Verdict' = "bad"
      BY <2>3 DEF IndInv, ClientInv, Verdict
    <3>3. QED
      BY <3>1, <3>2 DEF Transfer!Next, Transfer!Fail
  <2>4. CASE /\ UNCHANGED <<total, exact, stored>> /\ pc = "last" /\ said' = TRUE
             /\ Len(Stored) = Size
    <3>1. Size' = Size /\ Stored' = Stored
      BY <2>4 DEF Size, Stored
    <3>2. Verdict = "running" /\ Verdict' = "good"
      BY <2>4 DEF IndInv, ClientInv, Verdict
    <3>3. QED
      BY <2>4, <3>1, <3>2 DEF Transfer!Next, Transfer!Succeed
  <2>5. CASE LastAck
    <3>1. PICK m \in net :
            Arrived(m) /\ said' = (m.op = "ack" /\ m.blk % Mod = block_num)
      BY <2>5 DEF LastAck
    <3>2. pc = "last" /\ pc' = "done" /\ UNCHANGED <<total, exact, stored>>
      BY <2>5 DEF LastAck
    <3>3. CASE m.op = "ack" /\ m.blk % Mod = block_num
      BY <2>4, <3>1, <3>2, <3>3, SaidIsTrue
    <3>4. CASE ~(m.op = "ack" /\ m.blk % Mod = block_num)
      BY <2>3, <3>1, <3>2, <3>4
    <3>5. QED
      BY <3>3, <3>4
  <2>6. CASE ReceiveAck
    BY <2>2, <2>6 DEF ReceiveAck
  <2>7. CASE ReceiveOtherAck \/ Timeout
    BY <2>1, <2>7 DEF ReceiveOtherAck, Timeout
  <2>8. CASE ReceiveErrorPacket \/ GiveUp \/ ReceiveError \/ LastTimeout
    BY <2>3, <2>8 DEF ReceiveErrorPacket, GiveUp, ReceiveError, LastTimeout
  <2>9. ASSUME NEW s \in Sessions, Server(s)
        PROVE  Transfer!Next \/ UNCHANGED <<Size, Stored, Verdict>>
    <3>1. CASE ServerStart(s) \/ ServerTimeout(s) \/ PortClosed(s)
      BY <2>1, <3>1 DEF ServerStart, ServerTimeout, PortClosed
    <3>2. CASE ServerData(s) /\ stored' = stored
      BY <2>1, <3>2 DEF ServerData
    <3>3. CASE ServerData(s) /\ stored' # stored
      <4>1. PICK m \in net :
              /\ m.op = "data" /\ m.port = s
              /\ Fresh(Len(stored[s]) + 1, m.blk)
              /\ m.blk % Mod = (Len(stored[s]) + 1) % Mod
              /\ stored' = [stored EXCEPT ![s] = Append(@, m.blk)]
        BY <3>3 DEF ServerData
      <4>2. UNCHANGED <<total, exact, pc, said>>
        BY <3>3 DEF ServerData
      <4>3. /\ m.blk = Len(stored[s]) + 1 /\ m.blk \in 1..total
            /\ Peer(s) /\ Stored = stored[s]
        BY <4>1, DataIsNext
      <4>4. stored \in [Sessions -> Seq(1..MaxTotal)]
        BY DEF IndInv, TypeOK
      <4>5. /\ stored'[s] = Append(stored[s], m.blk)
            /\ \A e \in Sessions \ {s} : stored'[e] = stored[e]
        BY <4>1, <4>4
      <4>6. \A e \in Sessions : stored'[e] # <<>> => e = s
        BY <4>3, <4>5 DEF Peer
      <4>7. Stored' = Append(Stored, Len(Stored) + 1)
        BY <4>3, <4>5, <4>6, StoredIsNext
      <4>8. Len(Stored) < Size
        <5>1. total \in Nat /\ Size \in Nat /\ total =< Size /\ Len(stored[s]) \in Nat
          BY Numbers DEF IndInv
        <5>2. PICK x \in Nat : x = Len(stored[s])
          BY <5>1
        <5>3. x + 1 \in 1..total
          BY <4>3, <5>2
        <5>4. x < Size
          BY <5>1, <5>3
        <5>5. QED
          BY <4>3, <5>2, <5>4
      <4>9. Size' = Size /\ Verdict' = Verdict
        BY <4>2 DEF Size, Verdict
      <4>10. QED
        BY <4>7, <4>8, <4>9 DEF Transfer!Next, Transfer!CopyBlock
    <3>4. QED
      BY <2>9, <3>1, <3>2, <3>3 DEF Server
  <2>10. CASE ServerRefuses \/ UNCHANGED vars
    BY <2>1, <2>10 DEF ServerRefuses, vars
  <2>11. QED
    BY <2>5, <2>6, <2>7, <2>8, <2>9, <2>10 DEF Next, Client
<1>3. QED
  BY <1>1, <1>2, Invariance, PTL DEF Spec, PutIsTransfer, Transfer!Spec
=============================================================================
