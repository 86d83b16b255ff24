--------------------------- MODULE ChatRoomProofs ---------------------------
(***************************************************************************)
(* What follows from the promise of ChatRoom alone, and so for every       *)
(* server that implements it: one order of words for everybody.            *)
(***************************************************************************)
EXTENDS ChatRoom, TLAPS, SequenceTheorems

RoomTypeOK ==
    /\ said \in [Conns -> Nat]
    /\ stream \in [Conns -> Seq(Conns \X Nat)]

\* Nobody has been told a word that was not said.
OnlySaid ==
    \A d \in Conns : \A n \in 1..Len(stream[d]) :
        stream[d][n][2] =< said[stream[d][n][1]]

RoomInv == RoomTypeOK /\ OnlySaid /\ RoomOrder

(* The words of one breath, and what they are appended to. *)
LEMMA WordsType ==
    ASSUME NEW c \in Conns, NEW from \in Nat, NEW k \in Nat
    PROVE  /\ Words(c, from, k) \in Seq(Conns \X Nat)
           /\ Len(Words(c, from, k)) = k
           /\ \A n \in 1..k : Words(c, from, k)[n] = <<c, from + n>>
<1>1. \A n \in 1..k : <<c, from + n>> \in Conns \X Nat
  OBVIOUS
<1>2. QED
  BY <1>1, IsASeq DEF Words

(* What everybody has been told after c has said its next k words: what    *)
(* they knew, then, for the others inside, the new words.                  *)
LEMMA SayEffect ==
    ASSUME RoomTypeOK, NEW c \in Conns, NEW k \in Nat, Say(c, k)
    PROVE  /\ RoomTypeOK'
           /\ said' = [said EXCEPT ![c] = @ + k]
           /\ \A d \in Conns :
                /\ Len(stream[d]) \in Nat /\ Len(stream'[d]) \in Nat
                /\ Len(stream[d]) =< Len(stream'[d])
                /\ Len(stream'[d]) =< Len(stream[d]) + k
                /\ \A n \in 1..Len(stream'[d]) :
                     IF n =< Len(stream[d])
                     THEN stream'[d][n] = stream[d][n]
                     ELSE stream'[d][n] = <<c, said[c] + (n - Len(stream[d]))>>
<1> DEFINE w == Words(c, said[c], k)
<1>1. /\ w \in Seq(Conns \X Nat) /\ Len(w) = k
      /\ \A n \in 1..k : w[n] = <<c, said[c] + n>>
  BY WordsType DEF RoomTypeOK
<1>2. /\ stream' = [d \in Conns |-> IF place[d] = "inside" /\ d # c
                                    THEN stream[d] \o w ELSE stream[d]]
      /\ said' = [said EXCEPT ![c] = @ + k]
  BY DEF Say
<1>3. said' \in [Conns -> Nat]
  BY <1>2 DEF RoomTypeOK
<1> HIDE DEF w
<1>4. ASSUME NEW d \in Conns
      PROVE  /\ stream'[d] \in Seq(Conns \X Nat)
             /\ Len(stream[d]) \in Nat /\ Len(stream'[d]) \in Nat
             /\ Len(stream[d]) =< Len(stream'[d])
             /\ Len(stream'[d]) =< Len(stream[d]) + k
             /\ \A n \in 1..Len(stream'[d]) :
                  IF n =< Len(stream[d])
                  THEN stream'[d][n] = stream[d][n]
                  ELSE stream'[d][n] = <<c, said[c] + (n - Len(stream[d]))>>
  <2>1. stream[d] \in Seq(Conns \X Nat) /\ Len(stream[d]) \in Nat
    BY DEF RoomTypeOK
  <2>2. CASE place[d] = "inside" /\ d # c
    <3>1. stream'[d] = stream[d] \o w
      BY <1>2, <2>2, Zenon
    <3>2. /\ stream[d] \o w \in Seq(Conns \X Nat)
          /\ Len(stream[d] \o w) = Len(stream[d]) + k
          /\ \A n \in 1..Len(stream[d]) + k :
               (stream[d] \o w)[n] = IF n =< Len(stream[d]) THEN stream[d][n]
                                     ELSE w[n - Len(stream[d])]
      BY ZenonT(30), <1>1, <2>1, ConcatProperties
    <3>3. \A n \in 1..Len(stream[d]) + k :
            n > Len(stream[d]) => n - Len(stream[d]) \in 1..k
      BY <2>1
    <3>4. Len(stream'[d]) = Len(stream[d]) + k /\ stream'[d] \in Seq(Conns \X Nat)
      BY <3>1, <3>2
    <3>5. ASSUME NEW n \in 1..Len(stream'[d])
          PROVE  IF n =< Len(stream[d])
                 THEN stream'[d][n] = stream[d][n]
                 ELSE stream'[d][n] = <<c, said[c] + (n - Len(stream[d]))>>
      <4>1. n \in 1..Len(stream[d]) + k
        BY <3>4
      <4>2. stream'[d][n] = IF n =< Len(stream[d]) THEN stream[d][n]
                            ELSE w[n - Len(stream[d])]
        BY <3>1, <3>2, <4>1
      <4>3. CASE n =< Len(stream[d])
        BY <4>2, <4>3
      <4>4. CASE ~(n =< Len(stream[d]))
        <5>1. n > Len(stream[d])
          BY <2>1, <4>1, <4>4
        <5>2. n - Len(stream[d]) \in 1..k
          BY <3>3, <4>1, <5>1
        <5>3. w[n - Len(stream[d])] = <<c, said[c] + (n - Len(stream[d]))>>
          BY <1>1, <5>2
        <5>4. QED
          BY <4>2, <4>4, <5>3
      <4>5. QED
        BY <4>3, <4>4
    <3>6. /\ Len(stream'[d]) \in Nat
          /\ Len(stream[d]) =< Len(stream'[d])
          /\ Len(stream'[d]) =< Len(stream[d]) + k
      BY <2>1, <3>4
    <3>7. QED
      BY <2>1, <3>4, <3>5, <3>6, Zenon
  <2>3. CASE ~(place[d] = "inside" /\ d # c)
    <3>1. stream'[d] = stream[d]
      <4>1. stream'[d] = IF place[d] = "inside" /\ d # c THEN stream[d] \o w
                                                         ELSE stream[d]
        BY <1>2, Zenon
      <4>2. QED
        BY <2>3, <4>1, Zenon
    <3>2. k >= 0 /\ \A x \in Nat : x =< x /\ x =< x + k
      OBVIOUS
    <3>3. \A n \in 1..Len(stream[d]) : n =< Len(stream[d])
      BY <2>1
    <3>4. QED
      BY <2>1, <3>1, <3>2, <3>3
  <2>4. QED
    BY <2>2, <2>3
<1>5. stream' \in [Conns -> Seq(Conns \X Nat)]
  BY <1>2, <1>4
<1>6. QED
  BY <1>2, <1>3, <1>4, <1>5 DEF RoomTypeOK

(* Numbers only: place n of a stream whose old part is b words long.       *)
LEMMA NotBefore ==
    \A x, n, b \in Nat : ~(n =< b) => ~(x + (n - b) =< x)
  OBVIOUS

(* Whoever speaks next, a word that is heard in two places was already     *)
(* there in both, or is new in both and the same distance from the old     *)
(* end: that keeps the order.                                              *)
LEMMA SayKeepsOrder ==
    ASSUME RoomInv, NEW c \in Conns, NEW k \in Nat, Say(c, k)
    PROVE  RoomInv'
<1> USE DEF RoomInv
<1>1. /\ RoomTypeOK'
      /\ said' = [said EXCEPT ![c] = @ + k]
      /\ \A d \in Conns :
           /\ Len(stream[d]) \in Nat /\ Len(stream'[d]) \in Nat
           /\ Len(stream[d]) =< Len(stream'[d])
           /\ Len(stream'[d]) =< Len(stream[d]) + k
           /\ \A n \in 1..Len(stream'[d]) :
                IF n =< Len(stream[d])
                THEN stream'[d][n] = stream[d][n]
                ELSE stream'[d][n] = <<c, said[c] + (n - Len(stream[d]))>>
  BY SayEffect
<1>2. \A d \in Conns : said[d] \in Nat /\ said'[d] >= said[d]
  BY <1>1 DEF RoomTypeOK
<1>3. \A d \in Conns : \A n \in 1..Len(stream[d]) :
          /\ stream[d][n][1] \in Conns /\ stream[d][n][2] \in Nat
          /\ stream[d][n][2] =< said[stream[d][n][1]]
  BY DEF RoomTypeOK, OnlySaid
<1>4. OnlySaid'
  <2> SUFFICES ASSUME NEW d \in Conns, NEW n \in 1..Len(stream'[d])
               PROVE  stream'[d][n][2] =< said'[stream'[d][n][1]]
    BY DEF OnlySaid
  <2>1. CASE n =< Len(stream[d])
    <3>1. n \in 1..Len(stream[d]) /\ stream'[d][n] = stream[d][n]
      BY <1>1, <2>1
    <3>2. /\ stream[d][n][1] \in Conns /\ stream[d][n][2] \in Nat
          /\ stream[d][n][2] =< said[stream[d][n][1]]
      BY <1>3, <3>1
    <3>3. /\ said[stream[d][n][1]] \in Nat /\ said'[stream[d][n][1]] \in Nat
          /\ said'[stream[d][n][1]] >= said[stream[d][n][1]]
      BY <1>1, <1>2, <3>2 DEF RoomTypeOK
    <3>4. QED
      BY <3>1, <3>2, <3>3
  <2>2. CASE n > Len(stream[d])
    <3>1. stream'[d][n] = <<c, said[c] + (n - Len(stream[d]))>>
      BY <1>1, <2>2
    <3>2. n - Len(stream[d]) =< k
      BY <1>1, <2>2
    <3>3. said'[c] = said[c] + k
      BY <1>1 DEF RoomTypeOK
    <3>4. QED
      BY <1>1, <1>2, <2>2, <3>1, <3>2, <3>3
  <2>3. QED
    BY <1>1, <2>1, <2>2
<1>5. ASSUME NEW d \in Conns, NEW e \in Conns,
             NEW m \in 1..Len(stream'[d]), NEW n \in 1..Len(stream'[e]),
             stream'[d][m] = stream'[e][n]
      PROVE  \/ /\ m =< Len(stream[d]) /\ n =< Len(stream[e])
                /\ stream[d][m] = stream[e][n]
             \/ /\ m > Len(stream[d]) /\ n > Len(stream[e])
                /\ m - Len(stream[d]) = n - Len(stream[e])
  <2>1. /\ said[c] \in Nat /\ m \in Nat /\ n \in Nat
        /\ Len(stream[d]) \in Nat /\ Len(stream[e]) \in Nat
        /\ IF m =< Len(stream[d]) THEN stream'[d][m] = stream[d][m]
           ELSE stream'[d][m] = <<c, said[c] + (m - Len(stream[d]))>>
        /\ IF n =< Len(stream[e]) THEN stream'[e][n] = stream[e][n]
           ELSE stream'[e][n] = <<c, said[c] + (n - Len(stream[e]))>>
    BY <1>1, <1>2
  <2>2. CASE m =< Len(stream[d]) /\ n =< Len(stream[e])
    BY <1>5, <2>1, <2>2
  <2>3. CASE ~(m =< Len(stream[d])) /\ ~(n =< Len(stream[e]))
    <3> DEFINE x == said[c]
               a == Len(stream[d])
               b == Len(stream[e])
    <3>1. x + (m - a) = x + (n - b)
      BY <1>5, <2>1, <2>3
    <3>2. x \in Nat /\ m \in Nat /\ n \in Nat /\ a \in Nat /\ b \in Nat
      BY <2>1
    <3>3. ~(m =< a) /\ ~(n =< b)
      BY <2>3
    <3>4. SUFFICES m > a /\ n > b /\ m - a = n - b
      OBVIOUS
    <3> HIDE DEF x, a, b
    <3>5. QED
      BY <3>1, <3>2, <3>3
  <2>4. CASE m =< Len(stream[d]) /\ ~(n =< Len(stream[e]))
    <3>1. stream[d][m] = <<c, said[c] + (n - Len(stream[e]))>>
      BY <1>5, <2>1, <2>4
    <3>2. said[c] + (n - Len(stream[e])) =< said[c]
      BY SMTT(30), <1>3, <2>1, <2>4, <3>1
    <3>3. QED
      BY <2>1, <2>4, <3>2, NotBefore
  <2>5. CASE ~(m =< Len(stream[d])) /\ n =< Len(stream[e])
    <3>1. stream[e][n] = <<c, said[c] + (m - Len(stream[d]))>>
      BY <1>5, <2>1, <2>5
    <3>2. said[c] + (m - Len(stream[d])) =< said[c]
      BY <1>3, <2>1, <2>5, <3>1
    <3>3. QED
      BY <2>1, <2>5, <3>2, NotBefore
  <2>6. QED
    BY <2>2, <2>3, <2>4, <2>5
<1>6. RoomOrder'
  <2> SUFFICES ASSUME NEW d \in Conns, NEW e \in Conns,
                      NEW p \in Common(d, e)', NEW q \in Common(d, e)'
               PROVE  p[1] < q[1] <=> p[2] < q[2]
    BY DEF RoomOrder
  <2>1. \A r \in Common(d, e)' :
          /\ r[1] \in 1..Len(stream'[d]) /\ r[2] \in 1..Len(stream'[e])
          /\ \/ r[1] =< Len(stream[d]) /\ r[2] =< Len(stream[e]) /\ r \in Common(d, e)
             \/ /\ r[1] > Len(stream[d]) /\ r[2] > Len(stream[e])
                /\ r[1] - Len(stream[d]) = r[2] - Len(stream[e])
    <3> SUFFICES ASSUME NEW r \in Common(d, e)'
                 PROVE  /\ r[1] \in 1..Len(stream'[d]) /\ r[2] \in 1..Len(stream'[e])
                        /\ \/ r[1] =< Len(stream[d]) /\ r[2] =< Len(stream[e]) /\ r \in Common(d, e)
                           \/ /\ r[1] > Len(stream[d]) /\ r[2] > Len(stream[e])
                              /\ r[1] - Len(stream[d]) = r[2] - Len(stream[e])
      OBVIOUS
    <3>1. /\ r \in (1..Len(stream'[d])) \X (1..Len(stream'[e]))
          /\ stream'[d][r[1]] = stream'[e][r[2]]
      BY DEF Common
    <3>2. r[1] \in 1..Len(stream'[d]) /\ r[2] \in 1..Len(stream'[e]) /\ r = <<r[1], r[2]>>
      BY <3>1
    <3>3. \/ /\ r[1] =< Len(stream[d]) /\ r[2] =< Len(stream[e])
             /\ stream[d][r[1]] = stream[e][r[2]]
          \/ /\ r[1] > Len(stream[d]) /\ r[2] > Len(stream[e])
             /\ r[1] - Len(stream[d]) = r[2] - Len(stream[e])
      BY <1>5, <3>1, <3>2
    <3>4. ASSUME r[1] =< Len(stream[d]), r[2] =< Len(stream[e]),
                 stream[d][r[1]] = stream[e][r[2]]
          PROVE  r \in Common(d, e)
      <4>1. r[1] \in 1..Len(stream[d]) /\ r[2] \in 1..Len(stream[e])
        BY <1>1, <3>2, <3>4
      <4>2. r \in (1..Len(stream[d])) \X (1..Len(stream[e]))
        BY <3>2, <4>1
      <4>3. QED
        BY <3>4, <4>2 DEF Common
    <3>5. QED
      BY <3>2, <3>3, <3>4
  <2>2. p \in Common(d, e) /\ q \in Common(d, e) => (p[1] < q[1] <=> p[2] < q[2])
    BY DEF RoomOrder
  <2>3. /\ p[1] \in Nat /\ p[2] \in Nat /\ q[1] \in Nat /\ q[2] \in Nat
        /\ Len(stream[d]) \in Nat /\ Len(stream[e]) \in Nat
    BY <1>1, <2>1
  <2>4. \A r \in {p, q} :
          \/ r[1] =< Len(stream[d]) /\ r[2] =< Len(stream[e]) /\ r \in Common(d, e)
          \/ /\ r[1] > Len(stream[d]) /\ r[2] > Len(stream[e])
             /\ r[1] - Len(stream[d]) = r[2] - Len(stream[e])
    BY <2>1
  <2>5. CASE p \in Common(d, e) /\ q \in Common(d, e)
    BY <2>2, <2>5
  <2>6. CASE p \notin Common(d, e)
    <3> DEFINE a == Len(stream[d])
               b == Len(stream[e])
               p1 == p[1]
               p2 == p[2]
               q1 == q[1]
               q2 == q[2]
    <3>1. p1 > a /\ p2 > b /\ p1 - a = p2 - b
      BY <2>4, <2>6
    <3>2. (q1 =< a /\ q2 =< b) \/ (q1 > a /\ q2 > b /\ q1 - a = q2 - b)
      BY <2>4
    <3>3. /\ p1 \in Nat /\ p2 \in Nat /\ q1 \in Nat /\ q2 \in Nat
          /\ a \in Nat /\ b \in Nat
      BY <2>3
    <3>4. SUFFICES p1 < q1 <=> p2 < q2
      OBVIOUS
    <3> HIDE DEF a, b, p1, p2, q1, q2
    <3>5. QED
      BY <3>1, <3>2, <3>3
  <2>7. CASE q \notin Common(d, e)
    <3> DEFINE a == Len(stream[d])
               b == Len(stream[e])
               p1 == p[1]
               p2 == p[2]
               q1 == q[1]
               q2 == q[2]
    <3>1. q1 > a /\ q2 > b /\ q1 - a = q2 - b
      BY <2>4, <2>7
    <3>2. (p1 =< a /\ p2 =< b) \/ (p1 > a /\ p2 > b /\ p1 - a = p2 - b)
      BY <2>4
    <3>3. /\ p1 \in Nat /\ p2 \in Nat /\ q1 \in Nat /\ q2 \in Nat
          /\ a \in Nat /\ b \in Nat
      BY <2>3
    <3>4. SUFFICES p1 < q1 <=> p2 < q2
      OBVIOUS
    <3> HIDE DEF a, b, p1, p2, q1, q2
    <3>5. QED
      BY <3>1, <3>2, <3>3
  <2>8. QED
    BY <2>5, <2>6, <2>7
<1>7. QED
  BY <1>1, <1>4, <1>6

(* Every server that implements ChatRoom has one order of words: any two   *)
(* of its clients hear the words that both hear in the same order, and     *)
(* nobody hears a word twice.                                              *)
THEOREM OneOrder ==
    ASSUME MaxWords \in Nat
    PROVE  Spec => []RoomOrder
<1>1. Init => RoomInv
  BY DEF Init, RoomInv, RoomTypeOK, OnlySaid, RoomOrder, Common
<1>2. RoomInv /\ [Next]_roomVars => RoomInv'
  <2> SUFFICES ASSUME RoomInv, [Next]_roomVars
               PROVE  RoomInv'
    OBVIOUS
  <2>1. CASE UNCHANGED <<said, stream>>
    BY <2>1 DEF RoomInv, RoomTypeOK, OnlySaid, RoomOrder, Common
  <2>2. ASSUME NEW c \in Conns, NEW k \in 1..MaxWords, Say(c, k)
        PROVE  RoomInv'
    BY <2>2, SayKeepsOrder
  <2>3. QED
    BY <2>1, <2>2 DEF Next, Enter, Leave, Collapse, roomVars
<1>3. RoomInv => RoomOrder
  BY DEF RoomInv
<1>4. QED
  BY <1>1, <1>2, <1>3, PTL DEF Spec
=============================================================================
