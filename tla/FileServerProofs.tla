-------------------------- MODULE FileServerProofs --------------------------
(***************************************************************************)
(* np20.c for any number of connections, any requests, files of every      *)
(* length and every split of the streams into recv(), fread and fwrite.    *)
(***************************************************************************)
EXTENDS FileServer, TLAPS, SequenceTheorems

(* A connection stays as it is. *)
Unmoved(d) ==
    /\ ask' = ask
    /\ pc'[d] = pc[d] /\ path'[d] = path[d] /\ code'[d] = code[d] /\ todo'[d] = todo[d]
    /\ taken'[d] = taken[d] /\ flushed'[d] = flushed[d] /\ body'[d] = body[d]
    /\ len'[d] = len[d] /\ shown'[d] = shown[d]

(* What a step must leave behind for the connection d. *)
Good(d) == ThreadInv(d) /\ (~meddled[d] => FileInv(d))

Stops == {"none", "head", "request", "part", "named", "data", "verify",
          "header", "block", "reply", "shut", "done", "leaked"}

-----------------------------------------------------------------------------
(* Sequences. *)

LEMMA UnitsOf ==
    /\ \A w \in {"request line", "length", "line", "end of head",
                 "part", "end of part", "boundary", "hole"} : Piece(w) \in Units
    /\ Hole \in Units
    /\ \A c \in Conns, k \in Nat : Data(c, k) \in Units
    /\ \A f \in Names, k \in Nat : Old(f, k) \in Units
BY DEF Units, Piece, Hole, Data, Old

(* The two heads of an upload. *)
LEMMA OpeningType ==
    /\ Opening \in Seq(Units) /\ Len(Opening) = 6 /\ HeadUnits = 4
    /\ Opening[4] = Piece("end of head") /\ Opening[6] = Piece("end of part")
    /\ \A k \in 1..6 : ~IsData(Opening[k])
<1>1. ASSUME NEW a \in Units, NEW b \in Units, NEW c \in Units,
             NEW d \in Units, NEW e \in Units, NEW f \in Units
      PROVE  /\ <<a, b, c, d, e, f>> \in Seq(Units) /\ Len(<<a, b, c, d, e, f>>) = 6
             /\ <<a, b, c, d, e, f>>[4] = d /\ <<a, b, c, d, e, f>>[6] = f
             /\ \A k \in 1..6 : <<a, b, c, d, e, f>>[k] \in {a, b, c, d, e, f}
  OBVIOUS
<1> DEFINE a == Piece("request line")
           b == Piece("length")
           c == Piece("line")
           d == Piece("end of head")
           e == Piece("part")
           f == Piece("end of part")
<1>2. a \in Units /\ b \in Units /\ c \in Units /\ d \in Units /\ e \in Units /\ f \in Units
  BY UnitsOf
<1>3. \A u \in {a, b, c, d, e, f} : ~IsData(u)
  <2>1. ASSUME NEW w \in {"request line", "length", "line", "end of head",
                          "part", "end of part"}
        PROVE  ~IsData(Piece(w))
    BY <2>1 DEF IsData, Piece
  <2>2. QED
    BY <2>1
<1>4. Opening = <<a, b, c, d, e, f>>
  BY DEF Opening
<1> HIDE DEF a, b, c, d, e, f
<1>5. /\ Opening \in Seq(Units) /\ Len(Opening) = 6 /\ Opening[4] = d /\ Opening[6] = f
      /\ \A k \in 1..6 : Opening[k] \in {a, b, c, d, e, f}
  BY <1>1, <1>2, <1>4
<1>6. QED
  BY <1>3, <1>5 DEF HeadUnits, d, f

LEMMA StreamType ==
    ASSUME ask \in Requests, NEW c \in Conns
    PROVE  Stream(c) \in Seq(Units) /\ Len(Stream(c)) \in Nat
<1>1. ask[c].size \in Nat
  BY RequestsAssumption
<1>2. DataOf(c) \in Seq(Units)
  <2> DEFINE n == ask[c].size
  <2>1. n \in Nat
    BY <1>1
  <2> HIDE DEF n
  <2>2. ASSUME NEW k \in 1..n PROVE Data(c, k) \in Units
    <3>1. k \in Nat
      BY <2>1
    <3>2. QED
      BY <3>1, UnitsOf
  <2>3. [k \in 1..n |-> Data(c, k)] \in Seq(Units)
    BY <2>1, <2>2, IsASeq
  <2>4. QED
    BY <2>3 DEF DataOf, n
<1>3. Opening \in Seq(Units)
  BY OpeningType
<1>4. <<Piece("request line"), Piece("end of head")>> \in Seq(Units)
      /\ <<Piece("boundary")>> \in Seq(Units)
  <2>1. ASSUME NEW u \in Units, NEW v \in Units
        PROVE  <<u, v>> \in Seq(Units) /\ <<u>> \in Seq(Units)
    OBVIOUS
  <2>2. /\ Piece("request line") \in Units /\ Piece("end of head") \in Units
        /\ Piece("boundary") \in Units
    BY UnitsOf
  <2>3. QED
    BY <2>1, <2>2, Zenon
<1>5. Opening \o DataOf(c) \o <<Piece("boundary")>> \in Seq(Units)
  BY <1>2, <1>3, <1>4, ConcatProperties
<1>6. Stream(c) \in Seq(Units)
  BY <1>4, <1>5 DEF Stream
<1>7. QED
  BY <1>6, LenProperties

(* A prefix, element by element. *)
LEMMA PrefixPointwise ==
    ASSUME NEW S, NEW s \in Seq(S), NEW t \in Seq(S)
    PROVE  IsPrefix(s, t) <=>
             Len(s) =< Len(t) /\ \A k \in 1..Len(s) : s[k] = t[k]
<1>1. Len(s) \in Nat /\ Len(t) \in Nat
  BY LenProperties
<1>2. CASE Len(s) =< Len(t)
  <2>1. /\ SubSeq(s, 1, Len(s)) = s
    BY SubSeqFull
  <2>2. /\ SubSeq(t, 1, Len(s)) \in Seq(S)
        /\ Len(SubSeq(t, 1, Len(s))) = Len(s)
        /\ \A k \in 1..Len(s) : SubSeq(t, 1, Len(s))[k] = t[k]
    <3>1. Len(s) \in (1-1)..Len(t) /\ 1 \in 1..(Len(t)+1)
      BY <1>1, <1>2
    <3>2. QED
      BY <1>1, <3>1, SubSeqProperties
  <2>3. s = SubSeq(t, 1, Len(s)) <=> \A k \in 1..Len(s) : s[k] = t[k]
    <3>1. ASSUME \A k \in 1..Len(s) : s[k] = t[k]
          PROVE  s = SubSeq(t, 1, Len(s))
      BY <2>2, <3>1, SeqEqual
    <3>2. QED
      BY <2>2, <3>1
  <2>4. QED
    BY <1>2, <2>1, <2>3 DEF IsPrefix
<1>3. QED
  BY <1>1, <1>2 DEF IsPrefix

LEMMA PrefixOf ==
    ASSUME NEW S, NEW s \in Seq(S), NEW n \in Nat, n =< Len(s)
    PROVE  IsPrefix(SubSeq(s, 1, n), s)
<1>1. PICK l \in Nat : l = Len(s)
  BY LenProperties
<1>2. PICK t \in Seq(S) : /\ t = SubSeq(s, 1, n) /\ Len(t) = n
                          /\ \A k \in 1..n : t[k] = s[k]
  <2>1. n \in (1-1)..Len(s) /\ 1 \in 1..(Len(s)+1)
    BY <1>1
  <2>2. /\ SubSeq(s, 1, n) \in Seq(S) /\ Len(SubSeq(s, 1, n)) = n
        /\ \A k \in 1..n : SubSeq(s, 1, n)[k] = s[k]
    BY <2>1, SubSeqProperties
  <2>3. QED
    BY <2>2
<1>3. QED
  BY <1>2, PrefixPointwise

(* What is written behind the part that is there continues it. *)
LEMMA WrittenContinues ==
    ASSUME NEW S, NEW all \in Seq(S), NEW from \in Nat, NEW upto \in Nat,
           from =< upto, upto =< Len(all)
    PROVE  Written(SubSeq(all, 1, from), from, SubSeq(all, from + 1, upto))
             = SubSeq(all, 1, upto)
<1> DEFINE file == SubSeq(all, 1, from)
           units == SubSeq(all, from + 1, upto)
           whole == SubSeq(all, 1, upto)
           w == Written(file, from, units)
<1>1. Len(all) \in Nat
  BY LenProperties
<1>2. /\ file \in Seq(S) /\ Len(file) = from
      /\ \A k \in 1..from : file[k] = all[k]
  <2>1. from \in (1-1)..Len(all) /\ 1 \in 1..(Len(all)+1)
    BY <1>1
  <2>2. QED
    BY <2>1, SubSeqProperties
<1>3. /\ whole \in Seq(S) /\ Len(whole) = upto
      /\ \A k \in 1..upto : whole[k] = all[k]
  <2>1. upto \in (1-1)..Len(all) /\ 1 \in 1..(Len(all)+1)
    BY <1>1
  <2>2. QED
    BY <2>1, SubSeqProperties
<1>4. /\ units \in Seq(S) /\ Len(units) = upto - from
      /\ \A k \in 1..(upto - from) : units[k] = all[from + k]
  <2>1. upto \in ((from+1)-1)..Len(all) /\ from+1 \in 1..(Len(all)+1)
    BY <1>1
  <2>2. QED
    BY <2>1, SubSeqProperties
<1> HIDE DEF file, units, whole
<1>5. w = [k \in 1..upto |-> IF from < k THEN units[k - from] ELSE file[k]]
  <2>1. from + Len(units) = upto
    BY <1>4
  <2>2. (IF upto > from THEN upto ELSE from) = upto
    OBVIOUS
  <2>3. w = [k \in 1..upto |-> IF from < k /\ k =< upto THEN units[k - from]
                               ELSE IF k =< from THEN file[k] ELSE Hole]
    BY <1>2, <2>1, <2>2 DEF Written
  <2>4. \A k \in 1..upto :
          (IF from < k /\ k =< upto THEN units[k - from]
           ELSE IF k =< from THEN file[k] ELSE Hole)
            = IF from < k THEN units[k - from] ELSE file[k]
    OBVIOUS
  <2>5. QED
    BY <2>3, <2>4
<1>6. whole = [k \in 1..upto |-> whole[k]]
  BY <1>3, LenProperties
<1>7. ASSUME NEW k \in 1..upto
      PROVE  (IF from < k THEN units[k - from] ELSE file[k]) = whole[k]
  <2>1. CASE from < k
    <3>1. k - from \in 1..(upto - from) /\ from + (k - from) = k
      BY <2>1
    <3>2. units[k - from] = all[k]
      BY <1>4, <3>1
    <3>3. QED
      BY <1>3, <2>1, <3>2
  <2>2. CASE ~(from < k)
    <3>1. k \in 1..from
      BY <2>2
    <3>2. QED
      BY <1>2, <1>3, <2>2, <3>1
  <2>3. QED
    BY <2>1, <2>2
<1>8. w = whole
  BY <1>5, <1>6, <1>7
<1>9. QED
  BY <1>8 DEF file, units, whole

(* Whatever is written where, a file is a sequence of units. *)
LEMMA WrittenType ==
    ASSUME NEW file \in Seq(Units), NEW from \in Nat, NEW units \in Seq(Units)
    PROVE  Written(file, from, units) \in Seq(Units)
<1>1. PICK n \in Nat : n = Len(file)
  BY LenProperties
<1>2. PICK m \in Nat : m = Len(units)
  BY LenProperties
<1>3. /\ \A k \in 1..n : file[k] \in Units
      /\ \A k \in 1..m : units[k] \in Units
  BY <1>1, <1>2, ElementOfSeq
<1> DEFINE e(k) == IF from < k /\ k =< from + m THEN units[k - from]
                   ELSE IF k =< n THEN file[k] ELSE Hole
           size == IF from + m > n THEN from + m ELSE n
<1>4. size \in Nat
  OBVIOUS
<1>5. ASSUME NEW k \in 1..size PROVE e(k) \in Units
  <2>1. CASE from < k /\ k =< from + m
    <3>1. k - from \in 1..m
      BY <2>1
    <3>2. QED
      BY <1>3, <2>1, <3>1
  <2>2. CASE ~(from < k /\ k =< from + m) /\ k =< n
    <3>1. k \in 1..n
      BY <2>2
    <3>2. e(k) = file[k]
      BY <2>2
    <3>3. QED
      BY <1>3, <3>1, <3>2
  <2>3. CASE ~(from < k /\ k =< from + m) /\ ~(k =< n)
    <3>1. e(k) = Hole
      BY <2>3
    <3>2. QED
      BY <3>1, UnitsOf
  <2>4. QED
    BY <2>1, <2>2, <2>3
<1>6. Written(file, from, units) = [k \in 1..size |-> e(k)]
  BY <1>1, <1>2 DEF Written
<1> HIDE DEF e, size
<1>7. [k \in 1..size |-> e(k)] \in Seq(Units)
  BY <1>4, <1>5, IsASeq
<1>8. QED
  BY <1>6, <1>7

-----------------------------------------------------------------------------
(* What a step leaves alone. *)

(* A connection that does not move keeps its invariant, as long as whoever *)
(* writes its file is noted in meddled.                                    *)
LEMMA OthersKept ==
    ASSUME NEW d \in Conns, Good(d), Unmoved(d),
           \/ meddled'[d]
           \/ /\ meddled'[d] = meddled[d]
              /\ \/ files'[path[d]] = files[path[d]]
                 \/ d \notin Users(path[d])
    PROVE  Good(d)'
<1>1. ThreadInv(d)'
  BY DEF ThreadInv, Unmoved, Good
<1>2. ASSUME ~meddled'[d] PROVE FileInv(d)'
  <2>1. FileInv(d) /\ ask' = ask
    BY <1>2 DEF Good, Unmoved
  <2>2. CASE files'[path[d]] = files[path[d]]
    BY <2>1, <2>2 DEF FileInv, Unmoved
  <2>3. CASE d \notin Users(path[d])
    <3>1. pc[d] \notin {"data", "verify", "header", "block"}
      BY <2>3 DEF Users
    <3>2. QED
      BY <2>1, <3>1 DEF FileInv, Unmoved
  <2>4. QED
    BY <1>2, <2>2, <2>3
<1>3. QED
  BY <1>1, <1>2 DEF Good

(* The type invariant in two: the sets each variable is in, and what relates the
   counters of one connection. *)
Shapes ==
    /\ files \in [Names -> Seq(Units)] /\ ask \in Requests
    /\ stop \in [Conns -> BOOLEAN] /\ pc \in [Conns -> Stops]
    /\ in \in [Conns -> Nat] /\ out \in [Conns -> Nat] /\ DOMAIN path = Conns
    /\ contentLength \in [Conns -> Nat] /\ contentRead \in [Conns -> Nat]
    /\ flushed \in [Conns -> Nat]
    /\ taken \in [Conns -> Seq(Units)] /\ body \in [Conns -> Seq(Units)]
    /\ len \in [Conns -> Nat] /\ shown \in [Conns -> Nat] /\ todo \in [Conns -> 0..2]
    /\ code \in [Conns -> {0, 200, 400, 404, 500}]
    /\ meddled \in [Conns -> BOOLEAN] /\ server \in {"up", "dead"}

Bounds(c) ==
    /\ path[c] = ask[c].name \/ path[c] \in Names
    /\ in[c] =< out[c] /\ out[c] =< Len(Stream(c))
    /\ flushed[c] =< Len(taken[c]) /\ Len(taken[c]) =< in[c]
    /\ contentRead[c] =< in[c]

LEMMA TypeByBounds ==
    /\ TypeOK <=> Shapes /\ \A c \in Conns : Bounds(c)
    /\ TypeOK' <=> Shapes' /\ \A c \in Conns : Bounds(c)'
<1>1. ASSUME TypeOK PROVE Shapes
  BY <1>1 DEF TypeOK, Shapes, Stops
<1>2. ASSUME TypeOK, NEW c \in Conns PROVE Bounds(c)
  BY <1>2 DEF TypeOK, Bounds
<1>3. ASSUME Shapes, \A c \in Conns : Bounds(c) PROVE TypeOK
  BY <1>3 DEF TypeOK, Shapes, Bounds, Stops
<1>4. ASSUME TypeOK' PROVE Shapes'
  BY <1>4 DEF TypeOK, Shapes, Stops
<1>5. ASSUME TypeOK', NEW c \in Conns PROVE Bounds(c)'
  BY <1>5 DEF TypeOK, Bounds
<1>6. ASSUME Shapes', \A c \in Conns : Bounds(c)' PROVE TypeOK'
  BY <1>6 DEF TypeOK, Shapes, Bounds, Stops
<1>7. QED
  BY <1>1, <1>2, <1>3, <1>4, <1>5, <1>6

(* The types of a connection, one by one. *)
LEMMA Types ==
    ASSUME TypeOK, NEW c \in Conns
    PROVE  /\ pc[c] \in Stops /\ stop[c] \in BOOLEAN /\ meddled[c] \in BOOLEAN
           /\ in[c] \in Nat /\ out[c] \in Nat /\ contentRead[c] \in Nat
           /\ contentLength[c] \in Nat
           /\ flushed[c] \in Nat /\ len[c] \in Nat /\ shown[c] \in Nat
           /\ todo[c] \in 0..2
           /\ taken[c] \in Seq(Units) /\ body[c] \in Seq(Units)
           /\ in[c] =< out[c] /\ out[c] =< Len(Stream(c))
           /\ flushed[c] =< Len(taken[c]) /\ Len(taken[c]) =< in[c]
           /\ contentRead[c] =< in[c]
           /\ Len(taken[c]) \in Nat /\ Len(body[c]) \in Nat
<1>1. taken[c] \in Seq(Units) /\ body[c] \in Seq(Units)
  BY DEF TypeOK
<1>2. Len(taken[c]) \in Nat /\ Len(body[c]) \in Nat
  BY <1>1, LenProperties
<1>3. QED
  BY <1>1, <1>2 DEF TypeOK, Stops

(* A step that moves no units: the control of a thread, and its answer. *)
LEMMA ControlType ==
    ASSUME TypeOK,
           UNCHANGED <<files, ask, out, in, upload, body>>,
           stop' \in [Conns -> BOOLEAN], pc' \in [Conns -> Stops],
           len' \in [Conns -> Nat], shown' \in [Conns -> Nat],
           todo' \in [Conns -> 0..2],
           code' \in [Conns -> {0, 200, 400, 404, 500}],
           meddled' \in [Conns -> BOOLEAN], server' \in {"up", "dead"}
    PROVE  TypeOK'
<1>1. /\ files' = files /\ ask' = ask /\ out' = out /\ in' = in /\ body' = body
      /\ contentRead' = contentRead /\ taken' = taken /\ flushed' = flushed
      /\ path' = path /\ contentLength' = contentLength
  BY DEF upload
<1>2. ASSUME NEW c \in Conns PROVE Stream(c)' = Stream(c)
  BY <1>1 DEF Stream, DataOf
<1>3. QED
  BY <1>1, <1>2 DEF TypeOK, Stops

(* A step of one connection that writes no file. *)
LEMMA OnlyOne ==
    ASSUME ServerInv, NEW c \in Conns, files' = files, ask' = ask,
           \A d \in Conns : d # c => Unmoved(d) /\ meddled'[d] = meddled[d],
           TypeOK', DeathWindow', Good(c)'
    PROVE  ServerInv'
<1>1. ASSUME NEW d \in Conns PROVE Good(d)'
  <2>1. CASE d = c
    BY <2>1
  <2>2. CASE d # c
    <3>1. Good(d)
      BY DEF ServerInv, Good
    <3>2. Unmoved(d) /\ meddled'[d] = meddled[d]
      BY <2>2
    <3>3. QED
      BY <3>1, <3>2, OthersKept
  <2>3. QED
    BY <2>1, <2>2
<1>2. QED
  BY <1>1 DEF ServerInv, Good

LEMMA StillUp ==
    ASSUME server' = "up" PROVE DeathWindow'
BY DEF DeathWindow

-----------------------------------------------------------------------------
(* Steps that only move the thread on. *)

LEMMA Moves ==
    ASSUME ServerInv, server = "up", NEW c \in Conns, NEW p \in Stops,
           pc' = [pc EXCEPT ![c] = p],
           UNCHANGED <<disk, client, in, upload, download, reply, server>>,
           Good(c)'
    PROVE  ServerInv'
<1>1. TypeOK
  BY DEF ServerInv
<1>2. /\ files' = files /\ ask' = ask /\ server' = "up" /\ meddled' = meddled
      /\ UNCHANGED <<out, stop, in, upload, len, body, todo, code, shown>>
  BY DEF disk, client, download, reply
<1>3. TypeOK'
  <2>1. /\ stop' \in [Conns -> BOOLEAN] /\ pc' \in [Conns -> Stops]
        /\ len' \in [Conns -> Nat] /\ shown' \in [Conns -> Nat]
        /\ todo' \in [Conns -> 0..2]
        /\ code' \in [Conns -> {0, 200, 400, 404, 500}]
        /\ meddled' \in [Conns -> BOOLEAN]
    BY <1>1, <1>2 DEF TypeOK, Stops
  <2>2. QED
    BY <1>1, <1>2, <2>1, ControlType
<1>4. ASSUME NEW d \in Conns, d # c
      PROVE  Unmoved(d) /\ meddled'[d] = meddled[d]
  <2>1. pc'[d] = pc[d]
    BY <1>1, <1>4 DEF TypeOK
  <2>2. QED
    BY <1>2, <2>1 DEF Unmoved, upload
<1>5. QED
  BY <1>2, <1>3, <1>4, OnlyOne, StillUp

(* Where a thread goes without having done anything. *)
LEMMA Onward ==
    ASSUME ServerInv, server = "up", NEW c \in Conns, NEW p \in Stops,
           pc' = [pc EXCEPT ![c] = p],
           UNCHANGED <<disk, client, in, upload, download, reply, server>>,
           \/ pc[c] = "none" /\ p \in {"head", "leaked"}
           \/ pc[c] = "head" /\ p = "shut"
           \/ pc[c] = "request" /\ p = "shut" /\ ask[c].op = "other"
           \/ pc[c] = "block" /\ p = "shut" /\ Len(body[c]) >= len[c]
           \/ pc[c] = "shut" /\ p = "done"
    PROVE  ServerInv'
<1>1. TypeOK /\ ThreadInv(c) /\ (~meddled[c] => FileInv(c))
  BY DEF ServerInv
<1>2. pc'[c] = p
  BY <1>1 DEF TypeOK
<1>3. /\ files' = files /\ ask' = ask /\ meddled' = meddled /\ taken' = taken
      /\ flushed' = flushed /\ len' = len /\ body' = body /\ todo' = todo
      /\ code' = code /\ shown' = shown
  BY DEF disk, client, download, reply, upload
<1>4. ThreadInv(c)'
  BY <1>1, <1>2, <1>3 DEF ThreadInv
<1>5. ASSUME ~meddled[c] PROVE FileInv(c)'
  <2>1. FileInv(c) /\ ThreadInv(c)
    BY <1>1, <1>5
  <2>2. CASE pc[c] # "block"
    BY <2>1, <2>2, <1>2, <1>3 DEF FileInv, ThreadInv
  <2>3. CASE pc[c] = "block"
    <3>1. p = "shut" /\ Len(body[c]) >= len[c]
      BY <2>3
    <3>2. Len(body[c]) = len[c]
      <4>1. len[c] = Len(files[path[c]]) /\ IsPrefix(body[c], files[path[c]])
        BY <2>1, <2>3 DEF FileInv
      <4>2. Len(body[c]) =< Len(files[path[c]])
        BY <4>1 DEF IsPrefix
      <4>3. len[c] \in Nat /\ Len(body[c]) \in Nat
        BY <1>1, Types
      <4>4. QED
        BY <3>1, <4>1, <4>2, <4>3
    <3>3. QED
      BY <2>1, <2>3, <3>1, <3>2, <1>2, <1>3 DEF FileInv, ThreadInv
  <2>4. QED
    BY <2>2, <2>3
<1>6. Good(c)'
  BY <1>3, <1>4, <1>5 DEF Good
<1>7. QED
  BY <1>6, Moves

LEMMA OnwardSteps ==
    ASSUME ServerInv, server = "up", NEW c \in Conns,
           \/ Accept(c) \/ HeadCut(c)
           \/ OtherMethod(c) \/ Downloaded(c) \/ Close(c)
    PROVE  ServerInv'
<1>1. CASE Accept(c)
  <2>1. PICK p \in {"head", "leaked"} : pc' = [pc EXCEPT ![c] = p]
    BY <1>1 DEF Accept
  <2>2. /\ p \in Stops /\ pc[c] = "none"
        /\ UNCHANGED <<disk, client, in, upload, download, reply, server>>
    BY <1>1 DEF Accept, Stops
  <2>3. QED
    BY <2>1, <2>2, Onward
<1>2. CASE HeadCut(c)
  BY <1>2, Onward DEF HeadCut, Stops
<1>3. CASE OtherMethod(c)
  BY <1>3, Onward DEF OtherMethod, Stops
<1>4. CASE Downloaded(c)
  BY <1>4, Onward DEF Downloaded, Stops
<1>5. CASE Close(c)
  BY <1>5, Onward DEF Close, Stops
<1>6. QED
  BY <1>1, <1>2, <1>3, <1>4, <1>5

(* The length of an upload. *)
LEMMA PostStep ==
    ASSUME ServerInv, server = "up", NEW c \in Conns, Post(c)
    PROVE  ServerInv'
<1>1. TypeOK /\ ThreadInv(c) /\ (~meddled[c] => FileInv(c))
  BY DEF ServerInv
<1>2. PICK l \in Nat : contentLength' = [contentLength EXCEPT ![c] = l]
  <2>1. ask \in Requests /\ 0 \in Nat
    BY <1>1 DEF TypeOK
  <2>2. \A d \in Conns : ask[d].length \in Nat
    BY <2>1, RequestsAssumption
  <2>3. PICK l \in IF HeadRead(c) >= 2 THEN {ask[c].length}
                   ELSE {0} \cup {ask[d].length : d \in Conns} :
          contentLength' = [contentLength EXCEPT ![c] = l]
    BY DEF Post
  <2>4. l \in Nat
    BY <2>2, <2>3
  <2>5. QED
    BY <2>3, <2>4
<1>3. /\ pc[c] = "request" /\ ask[c].op = "POST" /\ pc' = [pc EXCEPT ![c] = "part"]
      /\ UNCHANGED <<disk, client, in, path, contentRead, taken, flushed>>
      /\ UNCHANGED <<download, reply, server>>
  BY DEF Post
<1>4. /\ UNCHANGED <<files, meddled, ask, out, stop, in, path, contentRead, taken, flushed>>
      /\ UNCHANGED <<len, body, todo, code, shown, server>>
  BY <1>3 DEF disk, client, download, reply
<1>5. /\ pc' \in [Conns -> Stops] /\ pc'[c] = "part"
      /\ \A d \in Conns : d # c => pc'[d] = pc[d]
  BY <1>1, <1>3 DEF TypeOK, Stops
<1>6. TypeOK'
  <2>1. contentLength' \in [Conns -> Nat]
    BY <1>1, <1>2 DEF TypeOK
  <2>2. ASSUME NEW d \in Conns PROVE Stream(d)' = Stream(d)
    BY <1>4 DEF Stream, DataOf
  <2>3. pc' \in [Conns -> {"none", "head", "request", "part", "named", "data", "verify",
                            "header", "block", "reply", "shut", "done", "leaked"}]
    BY <1>5 DEF Stops
  <2>4. UNCHANGED <<files, meddled, ask, out, stop, in, path, contentRead, taken, flushed>>
    BY <1>4
  <2>5. UNCHANGED <<len, body, todo, code, shown, server>>
    BY <1>4
  <2>6. QED
    BY SMTT(30), <1>1, <2>1, <2>2, <2>3, <2>4, <2>5 DEF TypeOK
<1>7. ASSUME NEW d \in Conns, d # c PROVE Unmoved(d) /\ meddled'[d] = meddled[d]
  BY <1>4, <1>5, <1>7 DEF Unmoved
<1>8. ThreadInv(c)'
  BY <1>1, <1>3, <1>4, <1>5 DEF ThreadInv
<1>9. ASSUME ~meddled[c] PROVE FileInv(c)'
  BY <1>1, <1>9, <1>3, <1>4, <1>5 DEF FileInv
<1>10. QED
  BY <1>4, <1>6, <1>7, <1>8, <1>9, OnlyOne, StillUp DEF Good

-----------------------------------------------------------------------------
(* Steps that decide on an answer. *)

LEMMA Answers ==
    ASSUME ServerInv, server = "up", NEW c \in Conns, NEW status, NEW n, NEW size \in Nat,
           Answer(c, status, n), shown' = [shown EXCEPT ![c] = size],
           UNCHANGED <<disk, client, in, upload, download, server>>,
           \/ /\ pc[c] = "request" /\ ask[c].op \notin {"POST", "GET"}
              /\ \/ n = 2 /\ status = 200
                 \/ n = 1 /\ status = 404
           \/ pc[c] = "request" /\ ask[c].op = "GET" /\ n = 1 /\ status = 404
           \/ pc[c] \in {"part", "named", "verify"} /\ n = 1 /\ status \in {400, 500}
           \/ /\ pc[c] = "verify" /\ n = 1 /\ status = 200
              /\ size = Len(files[path[c]])
    PROVE  ServerInv'
<1>1. TypeOK /\ ThreadInv(c) /\ (~meddled[c] => FileInv(c))
  BY DEF ServerInv
<1>2. /\ files' = files /\ ask' = ask /\ server' = "up" /\ meddled' = meddled
      /\ UNCHANGED <<out, stop, in, upload, len, body>>
  BY DEF disk, client, download
<1>3. /\ n \in 1..2 /\ status \in {200, 400, 404, 500}
      /\ (ask[c].op = "GET" => status # 200)
      /\ pc[c] \in {"request", "part", "named", "verify"}
  BY <1>1 DEF ThreadInv
<1>4. /\ pc' = [pc EXCEPT ![c] = "reply"] /\ todo' = [todo EXCEPT ![c] = n]
      /\ code' = [code EXCEPT ![c] = status]
  BY DEF Answer
<1>5. /\ pc'[c] = "reply" /\ todo'[c] = n /\ code'[c] = status /\ shown'[c] = size
      /\ \A d \in Conns : d # c =>
           /\ pc'[d] = pc[d] /\ todo'[d] = todo[d]
           /\ code'[d] = code[d] /\ shown'[d] = shown[d]
  BY <1>1, <1>4 DEF TypeOK
<1>6. TypeOK'
  <2>1. stop' \in [Conns -> BOOLEAN] /\ len' \in [Conns -> Nat]
        /\ meddled' \in [Conns -> BOOLEAN]
        /\ shown' \in [Conns -> Nat]
    BY <1>1, <1>2 DEF TypeOK
  <2>2. pc' \in [Conns -> Stops]
    BY <1>1, <1>4 DEF TypeOK, Stops
  <2>3. todo' \in [Conns -> 0..2]
    <3>1. n \in 0..2
      BY <1>3
    <3>2. QED
      BY <1>1, <1>4, <3>1 DEF TypeOK
  <2>4. code' \in [Conns -> {0, 200, 400, 404, 500}]
    BY <1>1, <1>3, <1>4 DEF TypeOK
  <2>5. QED
    BY <1>1, <1>2, <2>1, <2>2, <2>3, <2>4, ControlType
<1>7. ASSUME NEW d \in Conns, d # c
      PROVE  Unmoved(d) /\ meddled'[d] = meddled[d]
  BY <1>2, <1>5, <1>7 DEF Unmoved, upload
<1>8. ThreadInv(c)'
  <2>1. body[c] = <<>>
    BY <1>1, <1>3 DEF ThreadInv
  <2>2. n > 0
    BY <1>3
  <2>3. QED
    BY <1>2, <1>3, <1>5, <2>1, <2>2 DEF ThreadInv, upload
<1>9. ASSUME ~meddled[c] PROVE FileInv(c)'
  <2>1. FileInv(c)
    BY <1>1, <1>9
  <2>2. ask[c].op = "POST" /\ status = 200 => pc[c] = "verify" /\ size = Len(files[path[c]])
    OBVIOUS
  <2>3. ask[c].op = "POST" /\ status = 200 => size = Len(taken[c])
    BY <2>1, <2>2 DEF FileInv
  <2>4. QED
    BY <1>2, <1>5, <2>3 DEF FileInv, upload
<1>10. QED
  BY <1>2, <1>6, <1>7, <1>8, <1>9, OnlyOne, StillUp DEF Good

LEMMA AnswerSteps ==
    ASSUME ServerInv, server = "up", NEW c \in Conns,
           \/ Favicon(c) \/ List(c) \/ OpenFails(c)
           \/ BadPart(c) \/ CreateFails(c) \/ Verify(c)
           \/ PartCut(c) /\ contentRead[c] # 0
    PROVE  ServerInv'
<1>1. /\ shown[c] \in Nat /\ shown = [shown EXCEPT ![c] = shown[c]]
      /\ \A f \in Names : Len(files[f]) \in Nat
  <2>1. shown \in [Conns -> Nat] /\ files \in [Names -> Seq(Units)]
    BY DEF ServerInv, TypeOK
  <2>2. QED
    BY <2>1, LenProperties
<1>2. ThreadInv(c)
  BY DEF ServerInv
<1>3. CASE Favicon(c)
  BY <1>1, <1>3, Answers DEF Favicon
<1>4. CASE List(c)
  BY <1>1, <1>4, Answers DEF List
<1>5. CASE OpenFails(c)
  BY <1>1, <1>5, Answers DEF OpenFails
<1>6. CASE BadPart(c)
  BY <1>1, <1>6, Answers DEF BadPart
<1>7. CASE CreateFails(c)
  BY <1>1, <1>7, Answers DEF CreateFails
<1>8. CASE Verify(c)
  <2>1. /\ pc[c] = "verify" /\ path[c] \in Names
        /\ UNCHANGED <<disk, client, in, upload, download, server>>
    BY <1>2, <1>8 DEF Verify, ThreadInv
  <2>2. CASE Answer(c, 500, 1) /\ UNCHANGED shown
    BY <1>1, <2>1, <2>2, Answers
  <2>3. CASE /\ Answer(c, 200, 1)
             /\ shown' = [shown EXCEPT ![c] = Len(files[path[c]])]
    BY ZenonT(30), <1>1, <2>1, <2>3, Answers
  <2>4. QED
    BY <1>8, <2>2, <2>3 DEF Verify
<1>9. CASE PartCut(c) /\ contentRead[c] # 0
  BY <1>1, <1>9, Answers DEF PartCut
<1>10. QED
  BY <1>3, <1>4, <1>5, <1>6, <1>7, <1>8, <1>9

-----------------------------------------------------------------------------
(* The end of the process. *)

LEMMA Deaths ==
    ASSUME ServerInv, NEW c \in Conns,
           Sigpipe(c) \/ (PartCut(c) /\ contentRead[c] = 0)
    PROVE  ServerInv'
<1>1. TypeOK /\ ThreadInv(c)
  BY DEF ServerInv
<1>2. /\ server' = "dead"
      /\ UNCHANGED <<disk, client, thread, upload, download, reply>>
  <2>1. CASE Sigpipe(c)
    BY <2>1 DEF Sigpipe
  <2>2. CASE PartCut(c) /\ contentRead[c] = 0
    BY <2>2 DEF PartCut, thread, reply
  <2>3. QED
    BY <2>1, <2>2
<1>3. /\ UNCHANGED <<files, ask, out, in, upload, body>>
      /\ UNCHANGED <<stop, pc, len, shown, todo, code, meddled>>
  BY <1>2 DEF disk, client, thread, download, reply
<1>4. TypeOK'
  <2>1. /\ stop \in [Conns -> BOOLEAN] /\ pc \in [Conns -> Stops]
        /\ len \in [Conns -> Nat] /\ shown \in [Conns -> Nat]
        /\ todo \in [Conns -> 0..2]
        /\ code \in [Conns -> {0, 200, 400, 404, 500}]
        /\ meddled \in [Conns -> BOOLEAN]
    BY <1>1 DEF TypeOK, Stops
  <2>2. QED
    BY <1>1, <1>2, <1>3, <2>1, ControlType
<1>5. DeathWindow'
  <2>1. /\ stop[c] /\ pc[c] \in {"part", "header", "block", "reply"}
        /\ pc[c] = "part" => contentRead[c] = 0
    <3>1. CASE Sigpipe(c)
      BY <3>1 DEF Sigpipe, Due
    <3>2. CASE PartCut(c) /\ contentRead[c] = 0
      BY <3>2 DEF PartCut
    <3>3. QED
      BY <3>1, <3>2
  <2>2. ASSUME NEW d \in Conns, pc[d] = "data", ~meddled[d]
        PROVE  IsPrefix(files[path[d]], taken[d])
    <3>1. files[path[d]] = SubSeq(taken[d], 1, flushed[d])
      BY <2>2 DEF ServerInv, FileInv
    <3>2. taken[d] \in Seq(Units) /\ flushed[d] \in Nat /\ flushed[d] =< Len(taken[d])
      BY <1>1, Types
    <3>3. QED
      BY <3>1, <3>2, PrefixOf
  <2>3. /\ stop' = stop /\ pc' = pc /\ contentRead' = contentRead /\ meddled' = meddled
        /\ files' = files /\ path' = path /\ taken' = taken
    BY <1>3 DEF upload
  <2>4. QED
    BY <2>1, <2>2, <2>3 DEF DeathWindow
<1>6. ASSUME NEW d \in Conns PROVE Good(d)'
  <2>1. Good(d)
    BY DEF ServerInv, Good
  <2>2. Unmoved(d) /\ meddled'[d] = meddled[d] /\ files'[path[d]] = files[path[d]]
    BY <1>3 DEF Unmoved, upload
  <2>3. QED
    BY <2>1, <2>2, OthersKept
<1>7. QED
  BY <1>4, <1>5, <1>6 DEF ServerInv, Good

-----------------------------------------------------------------------------
(* The clients, and the bytes of the two heads. *)

LEMMA ClientSteps ==
    ASSUME ServerInv, server = "up", NEW c \in Conns, Client(c)
    PROVE  ServerInv'
<1>1. TypeOK /\ Good(c)
  BY DEF ServerInv, Good
<1>2. /\ UNCHANGED <<files, ask, pc, in, upload, body, len, shown>>
      /\ UNCHANGED <<todo, code, meddled, server>>
  BY DEF Client, ClientSend, ClientStop, disk, thread, download, reply
<1>3. TypeOK'
  <2>1. CASE ClientSend(c)
    <3>1. /\ out' = [out EXCEPT ![c] = @ + 1] /\ out[c] < Len(Stream(c))
          /\ stop' = stop
      BY <2>1 DEF ClientSend
    <3>2. ASSUME NEW d \in Conns
          PROVE  /\ Stream(d)' = Stream(d)
                 /\ out'[d] \in Nat /\ in[d] =< out'[d] /\ out'[d] =< Len(Stream(d))
      <4>1. Stream(d)' = Stream(d)
        BY <1>2 DEF Stream, DataOf
      <4>2. /\ out[d] \in Nat /\ in[d] \in Nat /\ in[d] =< out[d]
            /\ out[d] =< Len(Stream(d)) /\ Len(Stream(d)) \in Nat
        <5>1. ask \in Requests
          BY <1>1 DEF TypeOK
        <5>2. QED
          BY <1>1, <5>1, Types, StreamType
      <4>3. out'[d] = IF d = c THEN out[d] + 1 ELSE out[d]
        BY <1>1, <3>1 DEF TypeOK
      <4>4. PICK l \in Nat : l = Len(Stream(d))
        BY <4>2
      <4>5. QED
        BY <3>1, <4>1, <4>2, <4>3, <4>4
    <3>3. out' \in [Conns -> Nat]
      BY <1>1, <3>1, <3>2 DEF TypeOK
    <3>4. ASSUME NEW d \in Conns PROVE Bounds(d)'
      <4>1. Bounds(d)
        BY <1>1, TypeByBounds
      <4>2. /\ path' = path /\ contentRead' = contentRead /\ taken' = taken
            /\ flushed' = flushed /\ in' = in /\ ask' = ask
        BY <1>2 DEF upload
      <4>3. QED
        BY <3>2, <4>1, <4>2 DEF Bounds
    <3>5. Shapes'
      <4>1. Shapes
        BY <1>1, TypeByBounds
      <4>2. QED
        BY <1>2, <3>1, <3>3, <4>1 DEF Shapes, upload
    <3>6. QED
      BY <3>4, <3>5, TypeByBounds
  <2>2. CASE ClientStop(c)
    <3>1. stop' \in [Conns -> BOOLEAN] /\ out' = out
      BY <1>1, <2>2 DEF ClientStop, TypeOK
    <3>2. /\ pc \in [Conns -> Stops] /\ len \in [Conns -> Nat] /\ shown \in [Conns -> Nat]
          /\ todo \in [Conns -> 0..2]
          /\ code \in [Conns -> {0, 200, 400, 404, 500}]
          /\ meddled \in [Conns -> BOOLEAN] /\ server \in {"up", "dead"}
      BY <1>1 DEF TypeOK, Stops
    <3>3. QED
      BY <1>1, <1>2, <3>1, <3>2, ControlType
  <2>3. QED
    BY <2>1, <2>2 DEF Client
<1>4. ASSUME NEW d \in Conns
      PROVE  Unmoved(d) /\ meddled'[d] = meddled[d] /\ files'[path[d]] = files[path[d]]
  BY <1>2 DEF Unmoved, upload
<1>5. Good(c)'
  BY <1>1, <1>4, OthersKept
<1>6. QED
  BY <1>2, <1>3, <1>4, <1>5, OnlyOne, StillUp

(* One more byte of a head has come. *)
LEMMA HeadType ==
    ASSUME TypeOK, NEW c \in Conns, in[c] < out[c],
           in' = [in EXCEPT ![c] = @ + 1],
           contentRead' \in {contentRead, [contentRead EXCEPT ![c] = @ + 1]},
           pc' \in [Conns -> Stops],
           UNCHANGED <<disk, client, path, contentLength, taken, flushed>>,
           UNCHANGED <<download, reply, server>>
    PROVE  TypeOK'
<1>1. UNCHANGED <<files, meddled, ask, out, stop, len, body, todo, code, shown>>
  BY DEF disk, client, download, reply
<1>2. ASSUME NEW d \in Conns
      PROVE  /\ Stream(d)' = Stream(d)
             /\ in'[d] \in Nat /\ in'[d] =< out[d] /\ contentRead'[d] \in Nat
             /\ contentRead'[d] =< in'[d] /\ Len(taken[d]) =< in'[d]
  <2>1. Stream(d)' = Stream(d)
    BY <1>1 DEF Stream, DataOf
  <2>2. /\ in[d] \in Nat /\ out[d] \in Nat /\ contentRead[d] \in Nat
        /\ in[d] =< out[d] /\ contentRead[d] =< in[d]
        /\ Len(taken[d]) \in Nat /\ Len(taken[d]) =< in[d]
    BY Types
  <2>3. /\ in'[d] = IF d = c THEN in[d] + 1 ELSE in[d]
        /\ \/ contentRead'[d] = contentRead[d]
           \/ d = c /\ contentRead'[d] = contentRead[d] + 1
    <3>1. in \in [Conns -> Nat] /\ contentRead \in [Conns -> Nat]
      BY DEF TypeOK
    <3>2. QED
      BY <3>1
  <2>4. PICK l \in Nat : l = Len(taken[d])
    BY <2>2
  <2>5. QED
    BY <2>1, <2>2, <2>3, <2>4
<1>3. in' \in [Conns -> Nat] /\ contentRead' \in [Conns -> Nat]
  <2>1. in \in [Conns -> Nat] /\ contentRead \in [Conns -> Nat]
    BY DEF TypeOK
  <2>2. in' = [d \in Conns |-> in'[d]] /\ contentRead' = [d \in Conns |-> contentRead'[d]]
    BY <2>1
  <2>3. QED
    BY <1>2, <2>2
<1>4. ASSUME NEW d \in Conns PROVE Bounds(d)'
  <2>1. /\ out'[d] = out[d] /\ flushed'[d] = flushed[d] /\ taken'[d] = taken[d]
        /\ path'[d] = path[d] /\ ask' = ask
    BY <1>1 DEF client, thread
  <2>2. Bounds(d)
    BY TypeByBounds
  <2>3. QED
    BY <1>2, <2>1, <2>2 DEF Bounds
<1>5. Shapes'
  <2>1. Shapes
    BY TypeByBounds
  <2>2. QED
    BY <1>1, <1>3, <2>1 DEF Shapes, Stops
<1>6. QED
  BY <1>4, <1>5, TypeByBounds

LEMMA HeadSteps ==
    ASSUME ServerInv, server = "up", NEW c \in Conns, ReadHead(c) \/ ReadPart(c)
    PROVE  ServerInv'
<1>1. TypeOK /\ ThreadInv(c) /\ (~meddled[c] => FileInv(c))
  BY DEF ServerInv
<1>2. PICK p \in Stops :
        /\ pc' = [pc EXCEPT ![c] = p]
        /\ \/ pc[c] = "head" /\ p \in {"head", "request"}
           \/ pc[c] = "part" /\ p \in {"part", "named"}
  <2>1. CASE ReadHead(c)
    <3>1. pc' = pc \/ pc' = [pc EXCEPT ![c] = "request"]
      BY <2>1 DEF ReadHead
    <3>2. pc[c] = "head" /\ pc = [pc EXCEPT ![c] = "head"]
      <4>1. pc[c] = "head"
        BY <2>1 DEF ReadHead
      <4>2. pc \in [Conns -> Stops]
        BY <1>1 DEF TypeOK, Stops
      <4>3. QED
        BY <4>1, <4>2
    <3>3. QED
      BY <3>1, <3>2 DEF Stops
  <2>2. CASE ReadPart(c)
    <3>1. pc' = pc \/ pc' = [pc EXCEPT ![c] = "named"]
      BY <2>2 DEF ReadPart
    <3>2. pc[c] = "part" /\ pc = [pc EXCEPT ![c] = "part"]
      <4>1. pc[c] = "part"
        BY <2>2 DEF ReadPart
      <4>2. pc \in [Conns -> Stops]
        BY <1>1 DEF TypeOK, Stops
      <4>3. QED
        BY <4>1, <4>2
    <3>3. QED
      BY <3>1, <3>2 DEF Stops
  <2>3. QED
    BY <2>1, <2>2
<1>3. /\ in[c] < out[c] /\ in' = [in EXCEPT ![c] = @ + 1]
      /\ contentRead' \in {contentRead, [contentRead EXCEPT ![c] = @ + 1]}
      /\ UNCHANGED <<disk, client, path, contentLength, taken, flushed>>
      /\ UNCHANGED <<download, reply, server>>
  BY DEF ReadHead, ReadPart, upload
<1>4. UNCHANGED <<files, meddled, ask, len, body, todo, code, shown>>
  BY <1>3 DEF disk, client, download, reply
<1>5. TypeOK'
  <2>1. pc' \in [Conns -> Stops]
    BY <1>1, <1>2 DEF TypeOK, Stops
  <2>2. QED
    BY <1>1, <1>3, <2>1, HeadType
<1>6. /\ pc'[c] = p
      /\ \A d \in Conns : d # c => pc'[d] = pc[d]
  BY <1>1, <1>2 DEF TypeOK
<1>7. ASSUME NEW d \in Conns, d # c PROVE Unmoved(d) /\ meddled'[d] = meddled[d]
  BY <1>3, <1>4, <1>6, <1>7 DEF Unmoved
<1>8. ThreadInv(c)'
  BY <1>1, <1>2, <1>3, <1>4, <1>6 DEF ThreadInv
<1>9. ASSUME ~meddled[c] PROVE FileInv(c)'
  BY <1>1, <1>9, <1>2, <1>3, <1>4, <1>6 DEF FileInv
<1>10. QED
  BY <1>3, <1>4, <1>5, <1>7, <1>8, <1>9, OnlyOne, StillUp DEF Good

-----------------------------------------------------------------------------
(* Downloads, and the calls of send(). *)

(* The file is opened and measured. *)
LEMMA OpenStep ==
    ASSUME ServerInv, server = "up", NEW c \in Conns, Open(c)
    PROVE  ServerInv'
<1> DEFINE file == files[path[c]]
<1>1. TypeOK /\ ThreadInv(c)
  BY DEF ServerInv
<1>2. /\ pc[c] = "request" /\ ask[c].op = "GET" /\ path[c] \in Names
      /\ len' = [len EXCEPT ![c] = Len(file)]
      /\ meddled' = [meddled EXCEPT ![c] = Writers(path[c]) # {}]
      /\ pc' = [pc EXCEPT ![c] = "header"]
      /\ UNCHANGED <<files, client, in, upload, body, reply, server>>
  BY DEF Open
<1>3. UNCHANGED <<ask, out, stop, todo, code, shown>>
  BY <1>2 DEF client, reply
<1>4. file \in Seq(Units) /\ Len(file) \in Nat
  <2>1. file \in Seq(Units)
    BY <1>1, <1>2 DEF TypeOK
  <2>2. QED
    BY <2>1, LenProperties
<1>5. TypeOK'
  <2>1. /\ stop' \in [Conns -> BOOLEAN] /\ shown' \in [Conns -> Nat]
        /\ todo' \in [Conns -> 0..2]
        /\ code' \in [Conns -> {0, 200, 400, 404, 500}] /\ server' \in {"up", "dead"}
    BY <1>1, <1>2, <1>3 DEF TypeOK
  <2>2. pc' \in [Conns -> Stops]
    BY <1>1, <1>2 DEF TypeOK, Stops
  <2>3. len' \in [Conns -> Nat]
    BY <1>1, <1>2, <1>4 DEF TypeOK
  <2>4. meddled' \in [Conns -> BOOLEAN]
    <3>1. meddled \in [Conns -> BOOLEAN]
      BY <1>1 DEF TypeOK
    <3>2. QED
      BY <1>2, <3>1
  <2>5. QED
    BY <1>1, <1>2, <1>3, <2>1, <2>2, <2>3, <2>4, ControlType
<1>6. pc'[c] = "header" /\ len'[c] = Len(file)
  BY <1>1, <1>2 DEF TypeOK
<1>7. ASSUME NEW d \in Conns, d # c PROVE Unmoved(d) /\ meddled'[d] = meddled[d]
  <2>1. pc'[d] = pc[d] /\ len'[d] = len[d] /\ meddled'[d] = meddled[d]
    BY <1>1, <1>2, <1>7 DEF TypeOK
  <2>2. QED
    BY <1>2, <1>3, <2>1 DEF Unmoved, upload
<1>8. body[c] = <<>> /\ code[c] = 0
  BY <1>1, <1>2 DEF ThreadInv
<1>9. ThreadInv(c)'
  BY <1>2, <1>3, <1>6, <1>8 DEF ThreadInv, upload
<1>10. FileInv(c)'
  <2>1. IsPrefix(<<>>, file)
    <3>1. PICK e \in Seq(Units) : e = <<>> /\ Len(e) = 0
      BY EmptySeq
    <3>2. 0 =< Len(file) /\ 1..Len(e) = {}
      BY <1>4, <3>1
    <3>3. IsPrefix(e, file)
      BY <1>4, <3>1, <3>2, PrefixPointwise
    <3>4. QED
      BY <3>1, <3>3
  <2>2. ask[c].op # "POST"
    BY <1>2
  <2>3. QED
    BY <1>2, <1>3, <1>6, <1>8, <2>1, <2>2 DEF FileInv, upload
<1>11. QED
  BY <1>2, <1>3, <1>5, <1>7, <1>9, <1>10, OnlyOne, StillUp DEF Good

(* A call of send() for an answer that is ready. *)
LEMMA ReplyStep ==
    ASSUME ServerInv, server = "up", NEW c \in Conns, Reply(c)
    PROVE  ServerInv'
<1>1. TypeOK /\ ThreadInv(c) /\ (~meddled[c] => FileInv(c))
  BY DEF ServerInv
<1>2. /\ pc[c] = "reply" /\ todo[c] > 0
      /\ todo' = [todo EXCEPT ![c] = @ - 1]
      /\ pc' = [pc EXCEPT ![c] = IF todo[c] = 1 THEN "shut" ELSE "reply"]
      /\ UNCHANGED <<disk, client, in, upload, download, code, shown, server>>
  BY DEF Reply
<1>3. UNCHANGED <<files, meddled, ask, out, stop, len, body>>
  BY <1>2 DEF disk, client, download
<1>4. \/ todo[c] = 1 /\ pc'[c] = "shut" /\ todo'[c] = 0
      \/ todo[c] = 2 /\ pc'[c] = "reply" /\ todo'[c] = 1
  <2>1. todo[c] \in 0..2 /\ todo \in [Conns -> 0..2] /\ DOMAIN pc = Conns
    BY <1>1 DEF TypeOK
  <2>2. todo[c] = 1 \/ todo[c] = 2
    BY <1>2, <2>1
  <2>3. QED
    BY <1>2, <2>1, <2>2
<1>5. TypeOK'
  <2>1. /\ stop' \in [Conns -> BOOLEAN] /\ shown' \in [Conns -> Nat]
        /\ len' \in [Conns -> Nat] /\ meddled' \in [Conns -> BOOLEAN]
        /\ code' \in [Conns -> {0, 200, 400, 404, 500}] /\ server' \in {"up", "dead"}
    BY <1>1, <1>2, <1>3 DEF TypeOK
  <2>2. pc' \in [Conns -> Stops]
    BY <1>1, <1>2 DEF TypeOK, Stops
  <2>3. todo' \in [Conns -> 0..2]
    <3>1. todo \in [Conns -> 0..2] /\ todo[c] - 1 \in 0..2
      BY <1>1, <1>4 DEF TypeOK
    <3>2. QED
      BY <1>2, <3>1
  <2>4. QED
    BY <1>1, <1>2, <1>3, <2>1, <2>2, <2>3, ControlType
<1>6. ASSUME NEW d \in Conns, d # c PROVE Unmoved(d) /\ meddled'[d] = meddled[d]
  <2>1. pc'[d] = pc[d] /\ todo'[d] = todo[d]
    BY <1>1, <1>2, <1>6 DEF TypeOK
  <2>2. QED
    BY <1>2, <1>3, <2>1 DEF Unmoved, upload
<1>7. ThreadInv(c)'
  <2>1. body[c] = <<>> /\ (ask[c].op = "GET" => code[c] # 200)
    BY <1>1, <1>2 DEF ThreadInv
  <2>2. body' = body /\ ask' = ask /\ code' = code
    BY <1>2, <1>3
  <2>3. CASE pc'[c] = "shut"
    BY <2>2, <2>3 DEF ThreadInv
  <2>4. CASE pc'[c] = "reply"
    <3>1. todo'[c] = 1 /\ todo[c] = 2
      BY <1>4, <2>4
    <3>2. QED
      BY <2>1, <2>2, <2>4, <3>1 DEF ThreadInv
  <2>5. QED
    BY <1>4, <2>3, <2>4
<1>8. ASSUME ~meddled[c] PROVE FileInv(c)'
  <2>1. FileInv(c)
    BY <1>1, <1>8
  <2>2. ask[c].op = "GET" => code[c] # 200
    BY <1>1, <1>2 DEF ThreadInv
  <2>3. pc'[c] \in {"shut", "reply"}
    BY <1>4
  <2>4. QED
    BY <1>2, <1>3, <2>1, <2>2, <2>3 DEF FileInv, upload
<1>9. QED
  BY <1>2, <1>3, <1>5, <1>6, <1>7, <1>8, OnlyOne, StillUp DEF Good

LEMMA HeaderStep ==
    ASSUME ServerInv, server = "up", NEW c \in Conns, Header(c)
    PROVE  ServerInv'
<1>1. TypeOK /\ ThreadInv(c) /\ (~meddled[c] => FileInv(c))
  BY DEF ServerInv
<1>2. /\ pc[c] = "header"
      /\ code' = [code EXCEPT ![c] = 200]
      /\ pc' = [pc EXCEPT ![c] = "block"]
      /\ UNCHANGED <<disk, client, in, upload, download, todo, shown, server>>
  BY DEF Header
<1>3. UNCHANGED <<files, meddled, ask, out, stop, len, body>>
  BY <1>2 DEF disk, client, download
<1>4. pc'[c] = "block" /\ code'[c] = 200
  BY <1>1, <1>2 DEF TypeOK
<1>5. TypeOK'
  <2>1. /\ stop' \in [Conns -> BOOLEAN] /\ shown' \in [Conns -> Nat]
        /\ len' \in [Conns -> Nat] /\ meddled' \in [Conns -> BOOLEAN]
        /\ todo' \in [Conns -> 0..2] /\ server' \in {"up", "dead"}
    BY <1>1, <1>2, <1>3 DEF TypeOK
  <2>2. pc' \in [Conns -> Stops] /\ code' \in [Conns -> {0, 200, 400, 404, 500}]
    BY ZenonT(30), <1>1, <1>2 DEF TypeOK, Stops
  <2>3. QED
    BY <1>1, <1>2, <1>3, <2>1, <2>2, ControlType
<1>6. ASSUME NEW d \in Conns, d # c PROVE Unmoved(d) /\ meddled'[d] = meddled[d]
  <2>1. pc'[d] = pc[d] /\ code'[d] = code[d]
    BY <1>1, <1>2, <1>6 DEF TypeOK
  <2>2. QED
    BY <1>2, <1>3, <2>1 DEF Unmoved, upload
<1>7. ask[c].op = "GET" /\ path[c] \in Names
  BY <1>1, <1>2 DEF ThreadInv
<1>8. ThreadInv(c)'
  BY <1>2, <1>3, <1>4, <1>7 DEF ThreadInv, upload
<1>9. ASSUME ~meddled[c] PROVE FileInv(c)'
  <2>1. FileInv(c) /\ ask[c].op # "POST"
    BY <1>1, <1>7, <1>9
  <2>2. QED
    BY <1>2, <1>3, <1>4, <2>1 DEF FileInv, upload
<1>10. QED
  BY <1>2, <1>3, <1>5, <1>6, <1>8, <1>9, OnlyOne, StillUp DEF Good

(* The next block of a sequence continues a prefix of it. *)
LEMMA PrefixGrows ==
    ASSUME NEW S, NEW s \in Seq(S), NEW t \in Seq(S), NEW upto \in Nat,
           Len(s) =< upto, upto =< Len(t)
    PROVE  /\ s \o SubSeq(t, Len(s) + 1, upto) \in Seq(S)
           /\ IsPrefix(s, t) => IsPrefix(s \o SubSeq(t, Len(s) + 1, upto), t)
<1>1. PICK n \in Nat : n = Len(s)
  BY LenProperties
<1>2. PICK m \in Nat : m = Len(t)
  BY LenProperties
<1> DEFINE b == SubSeq(t, n + 1, upto)
           r == s \o b
<1>3. /\ b \in Seq(S) /\ Len(b) = upto - n
      /\ \A k \in 1..(upto - n) : b[k] = t[n + k]
  <2>1. upto \in ((n+1)-1)..Len(t) /\ n+1 \in 1..(Len(t)+1)
    BY <1>1, <1>2
  <2>2. QED
    BY <2>1, SubSeqProperties
<1> HIDE DEF b
<1>4. /\ r \in Seq(S) /\ Len(r) = upto
      /\ \A k \in 1..upto : r[k] = IF k =< n THEN s[k] ELSE b[k - n]
  <2>1. /\ r \in Seq(S) /\ Len(r) = Len(s) + Len(b)
        /\ \A k \in 1..(Len(s) + Len(b)) :
              r[k] = IF k =< Len(s) THEN s[k] ELSE b[k - Len(s)]
    BY ZenonT(30), <1>3, ConcatProperties
  <2>2. Len(s) + Len(b) = upto
    BY <1>1, <1>3
  <2>3. QED
    BY <1>1, <2>1, <2>2
<1> HIDE DEF r
<1>5. ASSUME IsPrefix(s, t) PROVE IsPrefix(r, t)
  <2>1. \A k \in 1..n : s[k] = t[k]
    BY <1>1, <1>5, PrefixPointwise
  <2>2. ASSUME NEW k \in 1..upto PROVE r[k] = t[k]
    <3>1. CASE k =< n
      <4>1. k \in 1..n
        BY <3>1
      <4>2. QED
        BY <1>4, <2>1, <3>1, <4>1
    <3>2. CASE ~(k =< n)
      <4>1. k - n \in 1..(upto - n) /\ n + (k - n) = k
        BY <3>2
      <4>2. QED
        BY <1>3, <1>4, <3>2, <4>1
    <3>3. QED
      BY <3>1, <3>2
  <2>3. QED
    BY <1>4, <2>2, PrefixPointwise
<1>6. QED
  BY <1>1, <1>4, <1>5 DEF r, b

LEMMA BlockStep ==
    ASSUME ServerInv, server = "up", NEW c \in Conns, ReadBlock(c)
    PROVE  ServerInv'
<1> DEFINE file == files[path[c]]
           read == Len(body[c])
           upto == Smaller(read + BlockSize, Len(file))
           more == body[c] \o SubSeq(file, read + 1, upto)
<1>1. TypeOK /\ ThreadInv(c) /\ (~meddled[c] => FileInv(c))
  BY DEF ServerInv
<1>2. /\ pc[c] = "block" /\ read < Len(file)
      /\ body' = [body EXCEPT ![c] = more]
      /\ UNCHANGED <<disk, client, thread, upload, len, todo, code, shown, server>>
  BY DEF ReadBlock
<1>3. /\ files' = files /\ meddled' = meddled /\ ask' = ask /\ out' = out
      /\ stop' = stop /\ pc' = pc /\ in' = in
  BY <1>2 DEF disk, client, thread
<1>4. ask[c].op = "GET" /\ path[c] \in Names /\ code[c] = 200
  BY <1>1, <1>2 DEF ThreadInv
<1>5. file \in Seq(Units) /\ body[c] \in Seq(Units)
  BY <1>1, <1>4 DEF TypeOK
<1>6. upto \in Nat /\ read =< upto /\ upto =< Len(file)
  <2>1. PICK l \in Nat : l = Len(file)
    BY <1>5, LenProperties
  <2>2. PICK n \in Nat : n = read
    BY <1>5, LenProperties
  <2>3. BlockSize \in Nat
    BY SizesAssumption
  <2>4. n < l
    BY <1>2, <2>1, <2>2
  <2>5. Smaller(n + BlockSize, l) \in Nat /\ n =< Smaller(n + BlockSize, l)
        /\ Smaller(n + BlockSize, l) =< l
    BY <2>3, <2>4 DEF Smaller
  <2>6. QED
    BY <2>1, <2>2, <2>5
<1> HIDE DEF upto
<1>7. more \in Seq(Units) /\ (IsPrefix(body[c], file) => IsPrefix(more, file))
  BY <1>5, <1>6, PrefixGrows
<1> HIDE DEF more
<1>8. body' \in [Conns -> Seq(Units)] /\ body'[c] = more
      /\ \A d \in Conns : d # c => body'[d] = body[d]
  <2>1. body \in [Conns -> Seq(Units)]
    BY <1>1 DEF TypeOK
  <2>2. QED
    BY <1>2, <1>7, <2>1
<1>9. TypeOK'
  <2>1. ASSUME NEW d \in Conns PROVE Stream(d)' = Stream(d)
    BY <1>3 DEF Stream, DataOf
  <2>2. /\ contentRead' = contentRead /\ taken' = taken /\ flushed' = flushed
        /\ path' = path /\ contentLength' = contentLength
    BY <1>2 DEF upload
  <2>3. ASSUME NEW d \in Conns PROVE Bounds(d)'
    <3>1. Bounds(d)
      BY <1>1, TypeByBounds
    <3>2. in' = in /\ out' = out /\ ask' = ask
      BY <1>2, <1>3
    <3>3. QED
      BY <2>1, <2>2, <3>1, <3>2 DEF Bounds
  <2>4. Shapes'
    <3>1. Shapes
      BY <1>1, TypeByBounds
    <3>2. QED
      BY <1>2, <1>3, <1>8, <2>2, <3>1 DEF Shapes
  <2>5. QED
    BY <2>3, <2>4, TypeByBounds
<1>10. ASSUME NEW d \in Conns, d # c PROVE Unmoved(d) /\ meddled'[d] = meddled[d]
  BY <1>2, <1>3, <1>8, <1>10 DEF Unmoved, upload
<1>11. ThreadInv(c)'
  BY <1>2, <1>3, <1>4 DEF ThreadInv, upload
<1>12. ASSUME ~meddled[c] PROVE FileInv(c)'
  <2>1. len[c] = Len(file) /\ IsPrefix(body[c], file)
    BY <1>1, <1>2, <1>12 DEF FileInv
  <2>2. IsPrefix(more, file) /\ ask[c].op # "POST"
    BY <1>4, <1>7, <2>1
  <2>3. QED
    BY <1>2, <1>3, <1>8, <2>1, <2>2 DEF FileInv, upload
<1>13. QED
  BY <1>2, <1>3, <1>9, <1>10, <1>11, <1>12, OnlyOne, StillUp DEF Good

-----------------------------------------------------------------------------
(* Uploads. *)

(* A step of one connection that writes its file, and says so to whoever   *)
(* uses it.                                                                *)
LEMMA OneWriter ==
    ASSUME ServerInv, NEW c \in Conns, NEW f, NEW new, server' = "up", ask' = ask,
           files' = [files EXCEPT ![f] = new],
           \A d \in Conns : d # c =>
             Unmoved(d) /\ meddled'[d] = (meddled[d] \/ d \in Users(f)),
           TypeOK', Good(c)'
    PROVE  ServerInv'
<1>1. TypeOK
  BY DEF ServerInv
<1>2. ASSUME NEW d \in Conns PROVE Good(d)'
  <2>1. CASE d = c
    BY <2>1
  <2>2. CASE d # c
    <3>1. Good(d) /\ ThreadInv(d)
      BY DEF ServerInv, Good
    <3>2. Unmoved(d) /\ meddled'[d] = (meddled[d] \/ d \in Users(f))
      BY <2>2
    <3>3. meddled[d] \in BOOLEAN
      BY <1>1, Types
    <3>4. CASE d \notin Users(path[d])
      <4>1. meddled'[d] \/ meddled'[d] = meddled[d]
        BY <3>2, <3>3
      <4>2. QED
        BY <3>1, <3>2, <3>4, <4>1, OthersKept
    <3>5. CASE d \in Users(path[d])
      <4>1. CASE path[d] = f
        <5>1. meddled'[d]
          BY <3>2, <3>5, <4>1
        <5>2. QED
          BY <3>1, <3>2, <5>1, OthersKept
      <4>2. CASE path[d] # f
        <5>1. path[d] \in Names
          BY <3>1, <3>5 DEF ThreadInv, Users
        <5>2. files'[path[d]] = files[path[d]]
          BY <1>1, <4>2, <5>1 DEF TypeOK
        <5>3. meddled'[d] \/ meddled'[d] = meddled[d]
          BY <3>2, <3>3
        <5>4. QED
          BY <3>1, <3>2, <5>2, <5>3, OthersKept
      <4>3. QED
        BY <4>1, <4>2
    <3>6. QED
      BY <3>4, <3>5
  <2>3. QED
    BY <2>1, <2>2
<1>3. QED
  BY <1>2, StillUp DEF ServerInv, Good

(* The file is emptied. *)
LEMMA CreateStep ==
    ASSUME ServerInv, server = "up", NEW c \in Conns, Create(c)
    PROVE  ServerInv'
<1>1. TypeOK /\ ThreadInv(c)
  BY DEF ServerInv
<1>2. PICK f \in Named(c) :
        /\ path' = [path EXCEPT ![c] = f]
        /\ files' = [files EXCEPT ![f] = <<>>]
        /\ meddled' = [d \in Conns |->
                         IF d = c THEN Writers(f) # {} ELSE meddled[d] \/ d \in Users(f)]
  BY Zenon DEF Create
<1>3. /\ pc[c] = "named" /\ pc' = [pc EXCEPT ![c] = "data"]
      /\ UNCHANGED <<client, in, contentLength, contentRead, taken, flushed>>
      /\ UNCHANGED <<download, reply, server>>
  BY DEF Create
<1>4. /\ UNCHANGED <<ask, out, stop, in, contentLength, contentRead, taken, flushed>>
      /\ UNCHANGED <<len, body, todo, code, shown, server>>
  BY <1>3 DEF client, download, reply
<1>5. f \in Names
  BY DEF Named
<1>6. pc'[c] = "data" /\ path'[c] = f /\ files'[path'[c]] = <<>>
  <2>1. DOMAIN path = Conns /\ files \in [Names -> Seq(Units)] /\ DOMAIN pc = Conns
    BY <1>1 DEF TypeOK
  <2>2. QED
    BY <1>2, <1>3, <1>5, <2>1
<1>7. ASSUME NEW d \in Conns, d # c
      PROVE  Unmoved(d) /\ meddled'[d] = (meddled[d] \/ d \in Users(f))
  <2>1. pc'[d] = pc[d] /\ path'[d] = path[d]
    <3>1. DOMAIN path = Conns /\ DOMAIN pc = Conns
      BY <1>1 DEF TypeOK
    <3>2. QED
      BY <1>2, <1>3, <1>7, <3>1
  <2>2. meddled'[d] = (meddled[d] \/ d \in Users(f))
    BY <1>2, <1>7
  <2>3. QED
    BY <1>4, <2>1, <2>2 DEF Unmoved
<1>8. TypeOK'
  <2>1. files' \in [Names -> Seq(Units)]
    <3>1. files \in [Names -> Seq(Units)] /\ <<>> \in Seq(Units)
      BY <1>1, EmptySeq DEF TypeOK
    <3>2. QED
      BY <1>2, <3>1
  <2>2. pc' \in [Conns -> {"none", "head", "request", "part", "named", "data", "verify",
                           "header", "block", "reply", "shut", "done", "leaked"}]
    BY <1>1, <1>3 DEF TypeOK
  <2>3. meddled' \in [Conns -> BOOLEAN]
    <3>1. \A d \in Conns : (IF d = c THEN Writers(f) # {}
                             ELSE meddled[d] \/ d \in Users(f)) \in BOOLEAN
      OBVIOUS
    <3>2. QED
      BY <1>2, <3>1
  <2>4. ASSUME NEW d \in Conns PROVE Stream(d)' = Stream(d)
    BY <1>4 DEF Stream, DataOf
  <2>5. /\ DOMAIN path' = Conns
        /\ \A d \in Conns : path'[d] = ask'[d].name \/ path'[d] \in Names
    <3>1. /\ DOMAIN path = Conns
          /\ \A d \in Conns : path[d] = ask[d].name \/ path[d] \in Names
      BY <1>1 DEF TypeOK
    <3>2. \A d \in Conns : path'[d] = IF d = c THEN f ELSE path[d]
      BY <1>2, <3>1
    <3>3. DOMAIN path' = Conns /\ ask' = ask
      BY <1>2, <1>4, <3>1
    <3>4. QED
      BY <1>5, <3>1, <3>2, <3>3
  <2>6. UNCHANGED <<ask, out, stop, in, contentLength, contentRead, taken, flushed>>
    BY <1>4
  <2>7. UNCHANGED <<len, body, todo, code, shown, server>>
    BY <1>4
  <2>8. QED
    BY SMTT(30), <1>1, <2>1, <2>2, <2>3, <2>4, <2>5, <2>6, <2>7 DEF TypeOK
<1>9. /\ taken[c] = <<>> /\ flushed[c] = 0 /\ body[c] = <<>> /\ code[c] = 0
      /\ ask[c].op = "POST"
  BY <1>1, <1>3 DEF ThreadInv
<1>10. ThreadInv(c)'
  BY <1>4, <1>5, <1>6, <1>9 DEF ThreadInv
<1>11. FileInv(c)'
  <2>1. SubSeq(<<>>, 1, 0) = <<>>
    BY SubSeqEmpty, EmptySeq
  <2>2. files'[path'[c]] = SubSeq(taken'[c], 1, flushed'[c])
    <3>1. taken'[c] = <<>> /\ flushed'[c] = 0
      BY <1>4, <1>9
    <3>2. SubSeq(taken'[c], 1, flushed'[c]) = <<>>
      BY <2>1, <3>1
    <3>3. QED
      BY <1>6, <3>2
  <2>3. code'[c] = 0
    BY <1>4, <1>9
  <2>4. /\ pc'[c] = "data" => files'[path'[c]] = SubSeq(taken'[c], 1, flushed'[c])
        /\ pc'[c] \notin {"verify", "header", "block", "shut", "done"} /\ code'[c] # 200
    <3>1. code'[c] # 200
      BY <2>3
    <3>2. pc'[c] \notin {"verify", "header", "block", "shut", "done"}
      BY <1>6
    <3>3. QED
      BY <2>2, <3>1, <3>2, Zenon
  <2>5. QED
    BY Zenon, <2>4 DEF FileInv
<1>12. server' = "up" /\ ask' = ask
  BY <1>4
<1>13. QED
  BY <1>2, <1>7, <1>8, <1>10, <1>11, <1>12, OneWriter DEF Good

(* What fwrite passes on, when it was called with all so far. *)
LEMMA Flushes ==
    ASSUME TypeOK, NEW c \in Conns, path[c] \in Names,
           NEW all \in Seq(Units), NEW upto \in flushed[c]..Len(all),
           Flush(c, all, upto)
    PROVE  /\ files' \in [Names -> Seq(Units)]
           /\ flushed' \in [Conns -> Nat] /\ flushed'[c] = upto
           /\ \A d \in Conns : d # c => flushed'[d] = flushed[d]
           /\ meddled' \in [Conns -> BOOLEAN] /\ meddled'[c] = meddled[c]
           /\ files[path[c]] = SubSeq(all, 1, flushed[c])
                 => files'[path[c]] = SubSeq(all, 1, upto)
           /\ \/ /\ files' = files
                 /\ \A d \in Conns : meddled'[d] = meddled[d]
              \/ /\ files' = [files EXCEPT ![path[c]] = files'[path[c]]]
                 /\ \A d \in Conns : d # c =>
                      meddled'[d] = (meddled[d] \/ d \in Users(path[c]))
<1> DEFINE from == flushed[c]
           file == files[path[c]]
           units == SubSeq(all, from + 1, upto)
           w == Written(file, from, units)
<1>1. /\ from \in Nat /\ upto \in Nat /\ from =< upto /\ upto =< Len(all)
      /\ Len(all) \in Nat
  <2>1. from \in Nat /\ Len(all) \in Nat
    BY Types, LenProperties
  <2>2. PICK a \in Nat : a = from
    BY <2>1
  <2>3. PICK b \in Nat : b = Len(all)
    BY <2>1
  <2>4. upto \in a..b
    BY <2>2, <2>3
  <2>5. upto \in Nat /\ a =< upto /\ upto =< b
    BY <2>4
  <2>6. QED
    BY <2>1, <2>2, <2>3, <2>5
<1>2. /\ files \in [Names -> Seq(Units)] /\ flushed \in [Conns -> Nat]
      /\ meddled \in [Conns -> BOOLEAN]
  BY DEF TypeOK
<1>3. /\ flushed' = [flushed EXCEPT ![c] = upto]
      /\ files' = IF upto = from THEN files ELSE [files EXCEPT ![path[c]] = w]
      /\ meddled' = [d \in Conns |->
                       \/ meddled[d]
                       \/ d # c /\ upto # from /\ d \in Users(path[c])]
  BY DEF Flush
<1>4. units \in Seq(Units)
  <2>1. PICK a \in Nat : a = from
    BY <1>1
  <2>2. a =< upto /\ upto =< Len(all) /\ Len(all) \in Nat
    BY <1>1, <2>1
  <2>3. upto \in ((a+1)-1)..Len(all) /\ a+1 \in 1..(Len(all)+1)
    BY <1>1, <2>2
  <2>4. SubSeq(all, a+1, upto) \in Seq(Units)
    BY <2>3, SubSeqProperties
  <2>5. QED
    BY <2>1, <2>4
<1>5. w \in Seq(Units)
  BY <1>1, <1>2, <1>4, WrittenType
<1>6. file = SubSeq(all, 1, from) => w = SubSeq(all, 1, upto)
  BY <1>1, WrittenContinues
<1> HIDE DEF w
<1>7. files' \in [Names -> Seq(Units)]
  BY <1>2, <1>3, <1>5
<1>8. /\ flushed' \in [Conns -> Nat] /\ flushed'[c] = upto
      /\ \A d \in Conns : d # c => flushed'[d] = flushed[d]
  BY <1>1, <1>2, <1>3
<1>9. meddled' \in [Conns -> BOOLEAN] /\ meddled'[c] = meddled[c]
  <2>1. \A d \in Conns :
          (\/ meddled[d]
           \/ d # c /\ upto # from /\ d \in Users(path[c])) \in BOOLEAN
    OBVIOUS
  <2>2. meddled[c] \in BOOLEAN
    BY <1>2
  <2>3. meddled'[c] = meddled[c]
    BY <1>3, <2>2
  <2>4. QED
    BY <1>3, <2>1, <2>3
<1>10. CASE upto = from
  <2>1. files' = files
    BY <1>3, <1>10
  <2>2. ASSUME NEW d \in Conns PROVE meddled'[d] = meddled[d]
    <3>1. meddled[d] \in BOOLEAN
      BY <1>2
    <3>2. QED
      BY <1>3, <1>10, <3>1
  <2>3. QED
    BY <1>7, <1>8, <1>9, <1>10, <2>1, <2>2
<1>11. CASE upto # from
  <2>1. files' = [files EXCEPT ![path[c]] = w] /\ files'[path[c]] = w
    BY <1>2, <1>3, <1>11
  <2>2. ASSUME NEW d \in Conns, d # c
        PROVE  meddled'[d] = (meddled[d] \/ d \in Users(path[c]))
    BY <1>3, <1>11, <2>2
  <2>3. QED
    BY <1>6, <1>7, <1>8, <1>9, <2>1, <2>2
<1>12. QED
  BY <1>10, <1>11

(* What has been received is passed to fwrite, which passes on some of it. *)
LEMMA ReceiveStep ==
    ASSUME ServerInv, server = "up", NEW c \in Conns, ReceiveData(c)
    PROVE  ServerInv'
<1>1. TypeOK /\ ThreadInv(c) /\ (~meddled[c] => FileInv(c))
  BY DEF ServerInv
<1>2. PICK n \in 1..Smaller(RecvMax, out[c] - in[c]) :
        \E all \in {taken[c] \o SubSeq(Stream(c), in[c] + 1, in[c] + n)} :
          /\ taken' = [taken EXCEPT ![c] = all]
          /\ in' = [in EXCEPT ![c] = @ + n]
          /\ contentRead' = [contentRead EXCEPT ![c] = @ + n]
          /\ \E upto \in flushed[c]..Len(all) : Flush(c, all, upto)
  BY DEF ReceiveData
<1>3. PICK all : all = taken[c] \o SubSeq(Stream(c), in[c] + 1, in[c] + n)
                 /\ taken' = [taken EXCEPT ![c] = all]
                 /\ \E upto \in flushed[c]..Len(all) : Flush(c, all, upto)
  BY <1>2
<1>4. PICK upto \in flushed[c]..Len(all) : Flush(c, all, upto)
  BY <1>3
<1>5. /\ in' = [in EXCEPT ![c] = @ + n]
      /\ contentRead' = [contentRead EXCEPT ![c] = @ + n]
  BY <1>2
<1>6. /\ pc[c] = "data"
      /\ UNCHANGED <<client, pc, path, contentLength, download, reply, server>>
  BY DEF ReceiveData
<1>7. UNCHANGED <<ask, out, stop, len, body, todo, code, shown>>
  BY <1>6 DEF client, download, reply
<1>8. ask[c].op = "POST" /\ path[c] \in Names /\ code[c] = 0
      /\ body[c] = <<>>
  BY <1>1, <1>6 DEF ThreadInv
<1>9. PICK i \in Nat : i = in[c]
  BY <1>1, Types
<1>10. PICK o \in Nat : o = out[c]
  BY <1>1, Types
<1>11. PICK r \in Nat : r = contentRead[c]
  BY <1>1, Types
<1>12. PICK t \in Nat : t = Len(taken[c])
  BY <1>1, Types
<1>13. t =< i /\ r =< i /\ i =< o /\ o =< Len(Stream(c)) /\ Len(Stream(c)) \in Nat
  <2>1. ask \in Requests
    BY <1>1 DEF TypeOK
  <2>2. QED
    BY <1>1, <1>9, <1>10, <1>11, <1>12, <2>1, Types, StreamType
<1>14. n \in Nat /\ i + n =< o
  <2>1. n \in 1..Smaller(RecvMax, o - i)
    BY <1>9, <1>10
  <2>2. Smaller(RecvMax, o - i) =< o - i /\ Smaller(RecvMax, o - i) \in Nat
    BY <1>13, SizesAssumption DEF Smaller
  <2>3. PICK m \in Nat : m = Smaller(RecvMax, o - i)
    BY <2>2
  <2>4. QED
    BY <2>1, <2>2, <2>3
<1> DEFINE piece == SubSeq(Stream(c), i + 1, i + n)
<1>15. piece \in Seq(Units) /\ Len(piece) = n
  <2>1. PICK s \in Seq(Units) : s = Stream(c)
    <3>1. ask \in Requests
      BY <1>1 DEF TypeOK
    <3>2. QED
      BY <3>1, StreamType
  <2>2. i + n =< Len(s) /\ Len(s) \in Nat
    <3>1. PICK l \in Nat : l = Len(s)
      BY <2>1, LenProperties
    <3>2. QED
      BY <1>13, <1>14, <2>1, <3>1
  <2>3. i + n \in ((i+1)-1)..Len(s) /\ i+1 \in 1..(Len(s)+1)
    BY <1>14, <2>2
  <2>4. SubSeq(s, i+1, i+n) \in Seq(Units) /\ Len(SubSeq(s, i+1, i+n)) = i + n - (i+1) + 1
    BY <2>3, SubSeqProperties
  <2>5. i + n - (i+1) + 1 = n
    BY <1>14
  <2>6. QED
    BY <2>1, <2>4, <2>5
<1> HIDE DEF piece
<1>16. taken[c] \in Seq(Units) /\ all = taken[c] \o piece
  BY <1>1, <1>3, <1>9, Types DEF piece
<1>17. all \in Seq(Units) /\ Len(all) = t + n
  BY <1>12, <1>15, <1>16, ConcatProperties
<1>18. /\ files' \in [Names -> Seq(Units)]
       /\ flushed' \in [Conns -> Nat] /\ flushed'[c] = upto
       /\ \A d \in Conns : d # c => flushed'[d] = flushed[d]
       /\ meddled' \in [Conns -> BOOLEAN] /\ meddled'[c] = meddled[c]
       /\ files[path[c]] = SubSeq(all, 1, flushed[c])
             => files'[path[c]] = SubSeq(all, 1, upto)
       /\ \/ /\ files' = files
             /\ \A d \in Conns : meddled'[d] = meddled[d]
          \/ /\ files' = [files EXCEPT ![path[c]] = files'[path[c]]]
             /\ \A d \in Conns : d # c =>
                  meddled'[d] = (meddled[d] \/ d \in Users(path[c]))
  BY <1>1, <1>4, <1>8, <1>17, Flushes
<1>19. /\ taken' \in [Conns -> Seq(Units)] /\ taken'[c] = all
       /\ \A d \in Conns : d # c => taken'[d] = taken[d]
  <2>1. taken \in [Conns -> Seq(Units)]
    BY <1>1 DEF TypeOK
  <2>2. QED
    BY <1>3, <1>17, <2>1
<1>20. /\ in' \in [Conns -> Nat] /\ in'[c] = i + n
       /\ contentRead' \in [Conns -> Nat] /\ contentRead'[c] = r + n
       /\ \A d \in Conns : d # c => in'[d] = in[d] /\ contentRead'[d] = contentRead[d]
  <2>1. in \in [Conns -> Nat] /\ contentRead \in [Conns -> Nat]
    BY <1>1 DEF TypeOK
  <2>2. in[c] + n = i + n /\ i + n \in Nat /\ contentRead[c] + n = r + n /\ r + n \in Nat
    BY SMTT(30), <1>9, <1>11, <1>14
  <2>3. QED
    BY <1>5, <2>1, <2>2
<1>21. TypeOK'
  <2>1. ASSUME NEW d \in Conns
        PROVE  /\ Stream(d)' = Stream(d)
               /\ in'[d] =< out[d] /\ flushed'[d] =< Len(taken'[d])
               /\ Len(taken'[d]) =< in'[d] /\ contentRead'[d] =< in'[d]
    <3>1. Stream(d)' = Stream(d)
      BY <1>7 DEF Stream, DataOf
    <3>2. CASE d = c
      <4>1. upto =< t + n
        <5>1. PICK f \in Nat : f = flushed[c]
          BY <1>1, Types
        <5>2. upto \in f..(t + n)
          BY <1>17, <5>1
        <5>3. QED
          BY <1>14, <5>2
      <4>2. t + n =< i + n /\ r + n =< i + n
        BY <1>13, <1>14
      <4>3. in'[d] = i + n /\ contentRead'[d] = r + n /\ flushed'[d] = upto
            /\ Len(taken'[d]) = t + n /\ out[d] = o
        BY <1>10, <1>17, <1>18, <1>19, <1>20, <3>2
      <4>4. QED
        BY <1>14, <3>1, <4>1, <4>2, <4>3
    <3>3. CASE d # c
      <4>1. /\ in[d] =< out[d] /\ flushed[d] =< Len(taken[d])
            /\ Len(taken[d]) =< in[d] /\ contentRead[d] =< in[d]
        BY <1>1, Types
      <4>2. in'[d] = in[d] /\ contentRead'[d] = contentRead[d]
            /\ taken'[d] = taken[d] /\ flushed'[d] = flushed[d]
        BY <1>18, <1>19, <1>20, <3>3
      <4>3. QED
        BY <3>1, <4>1, <4>2
    <3>4. QED
      BY <3>2, <3>3
  <2>2. ASSUME NEW d \in Conns PROVE Bounds(d)'
    <3>1. Bounds(d)
      BY <1>1, TypeByBounds
    <3>2. UNCHANGED <<out, ask, path>>
      BY <1>6, <1>7
    <3>3. QED
      BY <2>1, <3>1, <3>2 DEF Bounds
  <2>3. Shapes'
    <3>1. Shapes
      BY <1>1, TypeByBounds
    <3>2. QED
      BY <1>6, <1>7, <1>18, <1>19, <1>20, <3>1 DEF Shapes
  <2>4. QED
    BY <2>2, <2>3, TypeByBounds
<1>22. ASSUME NEW d \in Conns, d # c PROVE Unmoved(d)
  BY <1>6, <1>7, <1>18, <1>19, <1>22 DEF Unmoved
<1>23. ThreadInv(c)'
  BY <1>6, <1>7, <1>8 DEF ThreadInv
<1>24. ASSUME ~meddled[c] PROVE FileInv(c)'
  <2>1. files[path[c]] = SubSeq(taken[c], 1, flushed[c])
    BY <1>1, <1>6, <1>24 DEF FileInv
  <2>2. SubSeq(all, 1, flushed[c]) = SubSeq(taken[c], 1, flushed[c])
    <3>1. PICK f \in Nat : f = flushed[c] /\ f =< t
      BY <1>1, <1>12, Types
    <3>2. f \in 0..Len(taken[c])
      BY <1>12, <3>1
    <3>3. SubSeq(taken[c] \o piece, 1, f) = SubSeq(taken[c], 1, f)
      BY <1>15, <1>16, <3>2, SubSeqOfConcat1
    <3>4. QED
      BY <1>16, <3>1, <3>3
  <2>3. files'[path[c]] = SubSeq(all, 1, upto)
    BY <1>18, <2>1, <2>2
  <2>4. QED
    BY <1>6, <1>7, <1>8, <1>18, <1>19, <2>3 DEF FileInv
<1>25. Good(c)'
  BY <1>18, <1>23, <1>24 DEF Good
<1>26. CASE files' = files /\ \A d \in Conns : meddled'[d] = meddled[d]
  <2>1. DeathWindow'
    BY <1>6, StillUp
  <2>2. QED
    BY <1>7, <1>21, <1>22, <1>25, <1>26, <2>1, OnlyOne
<1>27. CASE /\ files' = [files EXCEPT ![path[c]] = files'[path[c]]]
            /\ \A d \in Conns : d # c =>
                 meddled'[d] = (meddled[d] \/ d \in Users(path[c]))
  BY <1>6, <1>7, <1>21, <1>22, <1>25, <1>27, OneWriter
<1>28. QED
  BY <1>18, <1>26, <1>27

(* fclose passes on the rest. *)
LEMMA EndStep ==
    ASSUME ServerInv, server = "up", NEW c \in Conns, DataEnds(c)
    PROVE  ServerInv'
<1>1. TypeOK /\ ThreadInv(c) /\ (~meddled[c] => FileInv(c))
  BY DEF ServerInv
<1>2. /\ pc[c] = "data" /\ Flush(c, taken[c], Len(taken[c]))
      /\ pc' = [pc EXCEPT ![c] = "verify"]
      /\ UNCHANGED <<client, in, path, contentLength, contentRead, taken>>
      /\ UNCHANGED <<download, reply, server>>
  BY DEF DataEnds
<1>3. UNCHANGED <<ask, out, stop, len, body, todo, code, shown>>
  BY <1>2 DEF client, download, reply
<1>4. ask[c].op = "POST" /\ path[c] \in Names /\ code[c] = 0
      /\ body[c] = <<>>
  BY <1>1, <1>2 DEF ThreadInv
<1>5. PICK all \in Seq(Units) : all = taken[c]
  BY <1>1, Types
<1>6. PICK upto \in flushed[c]..Len(all) : upto = Len(all)
  <2>1. flushed[c] \in Nat /\ Len(all) \in Nat /\ flushed[c] =< Len(all)
    BY <1>1, <1>5, Types
  <2>2. QED
    BY <2>1
<1>7. /\ files' \in [Names -> Seq(Units)]
      /\ flushed' \in [Conns -> Nat] /\ flushed'[c] = upto
      /\ \A d \in Conns : d # c => flushed'[d] = flushed[d]
      /\ meddled' \in [Conns -> BOOLEAN] /\ meddled'[c] = meddled[c]
      /\ files[path[c]] = SubSeq(all, 1, flushed[c])
            => files'[path[c]] = SubSeq(all, 1, upto)
      /\ \/ /\ files' = files
            /\ \A d \in Conns : meddled'[d] = meddled[d]
         \/ /\ files' = [files EXCEPT ![path[c]] = files'[path[c]]]
            /\ \A d \in Conns : d # c =>
                 meddled'[d] = (meddled[d] \/ d \in Users(path[c]))
  <2>1. Flush(c, all, upto)
    BY <1>2, <1>5, <1>6
  <2>2. TypeOK /\ path[c] \in Names
    BY <1>1, <1>4
  <2>3. QED
    BY <2>1, <2>2, Flushes
<1>8. /\ pc' \in [Conns -> Stops] /\ pc'[c] = "verify"
      /\ \A d \in Conns : d # c => pc'[d] = pc[d]
  BY <1>1, <1>2 DEF TypeOK, Stops
<1>9. TypeOK'
  <2>1. ASSUME NEW d \in Conns
        PROVE  Stream(d)' = Stream(d) /\ flushed'[d] =< Len(taken[d])
    <3>1. Stream(d)' = Stream(d)
      BY <1>3 DEF Stream, DataOf
    <3>2. flushed[d] =< Len(taken[d]) /\ Len(taken[d]) \in Nat
      BY <1>1, Types
    <3>3. QED
      BY SMTT(30), <1>5, <1>6, <1>7, <3>1, <3>2
  <2>2. ASSUME NEW d \in Conns PROVE Bounds(d)'
    <3>1. Bounds(d)
      BY <1>1, TypeByBounds
    <3>2. UNCHANGED <<in, out, ask, path, taken, contentRead>>
      BY <1>2, <1>3
    <3>3. QED
      BY <2>1, <3>1, <3>2 DEF Bounds
  <2>3. Shapes'
    <3>1. Shapes
      BY <1>1, TypeByBounds
    <3>2. QED
      BY <1>2, <1>3, <1>7, <1>8, <3>1 DEF Shapes
  <2>4. QED
    BY <2>2, <2>3, TypeByBounds
<1>10. ASSUME NEW d \in Conns, d # c PROVE Unmoved(d)
  BY <1>2, <1>3, <1>7, <1>8, <1>10 DEF Unmoved
<1>11. ThreadInv(c)'
  BY <1>2, <1>3, <1>4, <1>8 DEF ThreadInv
<1>12. ASSUME ~meddled[c] PROVE FileInv(c)'
  <2>1. files[path[c]] = SubSeq(taken[c], 1, flushed[c])
    BY <1>1, <1>2, <1>12 DEF FileInv
  <2>2. SubSeq(all, 1, Len(all)) = all
    BY SubSeqFull
  <2>3. files'[path[c]] = taken[c]
    BY <1>5, <1>6, <1>7, <2>1, <2>2
  <2>4. QED
    BY <1>2, <1>3, <1>4, <1>8, <2>3 DEF FileInv
<1>13. Good(c)'
  BY <1>7, <1>11, <1>12 DEF Good
<1>14. CASE files' = files /\ \A d \in Conns : meddled'[d] = meddled[d]
  <2>1. DeathWindow'
    BY <1>2, StillUp
  <2>2. QED
    BY <1>3, <1>9, <1>10, <1>13, <1>14, <2>1, OnlyOne
<1>15. CASE /\ files' = [files EXCEPT ![path[c]] = files'[path[c]]]
            /\ \A d \in Conns : d # c =>
                 meddled'[d] = (meddled[d] \/ d \in Users(path[c]))
  BY <1>2, <1>3, <1>9, <1>10, <1>13, <1>15, OneWriter
<1>16. QED
  BY <1>7, <1>14, <1>15

-----------------------------------------------------------------------------
(* The invariant. *)

LEMMA InitInv == ASSUME Init PROVE ServerInv
<1>1. ASSUME NEW f \in Names PROVE [k \in 1..OnDisk[f] |-> Old(f, k)] \in Seq(Units)
  <2>1. OnDisk[f] \in Nat
    BY RequestsAssumption DEF Names
  <2>2. PICK n \in Nat : n = OnDisk[f]
    BY <2>1
  <2>3. ASSUME NEW k \in 1..n PROVE Old(f, k) \in Units
    <3>1. k \in Nat
      BY <2>3
    <3>2. QED
      BY <3>1, UnitsOf
  <2>4. [k \in 1..n |-> Old(f, k)] \in Seq(Units)
    BY <2>2, <2>3, IsASeq
  <2>5. QED
    BY <2>2, <2>4
<1>2. files \in [Names -> Seq(Units)]
  BY <1>1 DEF Init
<1>3. ASSUME NEW c \in Conns
      PROVE  /\ in[c] = 0 /\ out[c] = 0 /\ contentRead[c] = 0 /\ flushed[c] = 0
             /\ taken[c] = <<>> /\ body[c] = <<>> /\ Len(taken[c]) = 0
             /\ Len(Stream(c)) \in Nat
  <2>1. taken[c] = <<>> /\ Len(<<>>) = 0
    BY EmptySeq DEF Init
  <2>2. Len(Stream(c)) \in Nat
    BY StreamType DEF Init
  <2>3. QED
    BY <2>1, <2>2 DEF Init
<1>4. ASSUME NEW c \in Conns
      PROVE  /\ in[c] =< out[c] /\ out[c] =< Len(Stream(c))
             /\ flushed[c] =< Len(taken[c]) /\ Len(taken[c]) =< in[c]
             /\ contentRead[c] =< in[c]
  BY <1>3
<1>5. taken \in [Conns -> Seq(Units)] /\ body \in [Conns -> Seq(Units)]
  <2>1. <<>> \in Seq(Units)
    BY EmptySeq
  <2>2. QED
    BY <2>1 DEF Init
<1>6. TypeOK
  <2>1. /\ DOMAIN path = Conns
        /\ \A c \in Conns : path[c] = ask[c].name \/ path[c] \in Names
    BY DEF Init
  <2>2. QED
    BY <1>2, <1>4, <1>5, <2>1 DEF Init, TypeOK
<1>7. DeathWindow
  BY DEF Init, DeathWindow
<1>8. ASSUME NEW c \in Conns PROVE ThreadInv(c) /\ FileInv(c)
  <2>1. /\ pc[c] = "none" /\ code[c] = 0
        /\ taken[c] = <<>> /\ flushed[c] = 0 /\ body[c] = <<>>
    BY DEF Init
  <2>2. ThreadInv(c)
    BY <2>1 DEF ThreadInv
  <2>3. FileInv(c)
    BY <2>1 DEF FileInv
  <2>4. QED
    BY <2>2, <2>3
<1>9. QED
  BY <1>6, <1>7, <1>8 DEF ServerInv

LEMMA NextInv == ASSUME ServerInv, Next PROVE ServerInv'
<1>1. server = "up"
  BY DEF Next
<1>2. PICK c \in Conns : Client(c) \/ Accept(c) \/ ClientThread(c)
  BY DEF Next
<1>3. CASE Client(c)
  BY <1>1, <1>3, ClientSteps
<1>4. CASE Accept(c) \/ HeadCut(c) \/ OtherMethod(c) \/ Downloaded(c) \/ Close(c)
  BY <1>1, <1>4, OnwardSteps
<1>5. CASE ReadHead(c) \/ ReadPart(c)
  BY <1>1, <1>5, HeadSteps
<1>6. CASE \/ Favicon(c) \/ List(c) \/ OpenFails(c)
           \/ BadPart(c) \/ CreateFails(c) \/ Verify(c)
  BY <1>1, <1>6, AnswerSteps
<1>7. CASE PartCut(c)
  BY <1>1, <1>7, AnswerSteps, Deaths
<1>8. CASE Sigpipe(c)
  BY <1>8, Deaths
<1>9. CASE Open(c)
  BY <1>1, <1>9, OpenStep
<1>10. CASE Reply(c)
  BY <1>1, <1>10, ReplyStep
<1>11. CASE Header(c)
  BY <1>1, <1>11, HeaderStep
<1>12. CASE ReadBlock(c)
  BY <1>1, <1>12, BlockStep
<1>13. CASE Create(c)
  BY <1>1, <1>13, CreateStep
<1>14. CASE ReceiveData(c)
  BY <1>1, <1>14, ReceiveStep
<1>15. CASE DataEnds(c)
  BY <1>1, <1>15, EndStep
<1>16. CASE Post(c)
  BY <1>1, <1>16, PostStep
<1>17. QED
  BY <1>2, <1>3, <1>4, <1>5, <1>6, <1>7, <1>8, <1>9, <1>10, <1>11, <1>12,
     <1>13, <1>14, <1>15, <1>16 DEF ClientThread

LEMMA StutterInv == ASSUME ServerInv, UNCHANGED vars PROVE ServerInv'
<1>1. /\ UNCHANGED <<files, ask, out, in, upload, body>>
      /\ UNCHANGED <<stop, pc, len, shown, todo, code, meddled, server>>
  BY DEF vars, disk, client, thread, download, reply
<1>2. TypeOK
  BY DEF ServerInv
<1>3. TypeOK'
  <2>1. /\ stop \in [Conns -> BOOLEAN] /\ pc \in [Conns -> Stops]
        /\ len \in [Conns -> Nat] /\ shown \in [Conns -> Nat]
        /\ todo \in [Conns -> 0..2]
        /\ code \in [Conns -> {0, 200, 400, 404, 500}]
        /\ meddled \in [Conns -> BOOLEAN] /\ server \in {"up", "dead"}
    BY <1>2 DEF TypeOK, Stops
  <2>2. QED
    BY <1>1, <1>2, <2>1, ControlType
<1>4. DeathWindow'
  <2>1. DeathWindow /\ contentRead' = contentRead /\ path' = path /\ taken' = taken
    BY <1>1 DEF ServerInv, upload
  <2>2. QED
    BY <1>1, <2>1 DEF DeathWindow
<1>5. ASSUME NEW d \in Conns PROVE Good(d)'
  <2>1. Good(d)
    BY DEF ServerInv, Good
  <2>2. Unmoved(d) /\ meddled'[d] = meddled[d] /\ files'[path[d]] = files[path[d]]
    BY <1>1 DEF Unmoved, upload
  <2>3. QED
    BY <2>1, <2>2, OthersKept
<1>6. QED
  BY <1>3, <1>4, <1>5 DEF ServerInv, Good

LEMMA ServerInvariance == Spec => []ServerInv
<1>1. Init => ServerInv
  BY InitInv
<1>2. ServerInv /\ [Next]_vars => ServerInv'
  BY NextInv, StutterInv
<1>3. QED
  BY <1>1, <1>2, PTL DEF Spec

-----------------------------------------------------------------------------
(* How far a thread is in the stream of its client. *)

(* The units of an upload, by their place. *)
LEMMA StreamParts ==
    ASSUME ask \in Requests, NEW c \in Conns, ask[c].op = "POST"
    PROVE  /\ Len(Stream(c)) = ask[c].size + 7
           /\ \A k \in 1..6 : Stream(c)[k] = Opening[k]
           /\ \A k \in 1..ask[c].size : Stream(c)[k + 6] = Data(c, k)
           /\ Stream(c)[ask[c].size + 7] = Piece("boundary")
<1>1. PICK n \in Nat : n = ask[c].size
  BY RequestsAssumption
<1>2. PICK d \in Seq(Units) : /\ d = DataOf(c) /\ Len(d) = n
                              /\ \A k \in 1..n : d[k] = Data(c, k)
  <2>1. ASSUME NEW k \in 1..n PROVE Data(c, k) \in Units
    <3>1. k \in Nat
      BY <2>1
    <3>2. QED
      BY <3>1, UnitsOf
  <2>2. DataOf(c) = [k \in 1..n |-> Data(c, k)]
    BY <1>1 DEF DataOf
  <2>3. DataOf(c) \in Seq(Units) /\ Len(DataOf(c)) = n
    BY <1>1, <2>1, <2>2, IsASeq, LenProperties
  <2>4. \A k \in 1..n : DataOf(c)[k] = Data(c, k)
    BY <2>2
  <2>5. QED
    BY <2>3, <2>4
<1>3. PICK b \in Seq(Units), e \in Seq(Units) :
        /\ b = Opening /\ Len(b) = 6
        /\ e = <<Piece("boundary")>> /\ Len(e) = 1 /\ e[1] = Piece("boundary")
  <2>1. Piece("boundary") \in Units
    BY UnitsOf
  <2>2. ASSUME NEW u \in Units
        PROVE  <<u>> \in Seq(Units) /\ Len(<<u>>) = 1 /\ <<u>>[1] = u
    OBVIOUS
  <2>3. <<Piece("boundary")>> \in Seq(Units) /\ Len(<<Piece("boundary")>>) = 1
        /\ <<Piece("boundary")>>[1] = Piece("boundary")
    BY <2>1, <2>2, Zenon
  <2>4. Opening \in Seq(Units) /\ Len(Opening) = 6
    BY OpeningType
  <2>5. QED
    BY <2>3, <2>4
<1>4. PICK g \in Seq(Units), p \in Nat :
        /\ g = b \o d /\ Len(g) = p /\ p = 6 + n
        /\ \A k \in 1..6 : g[k] = b[k]
        /\ \A k \in 1..n : g[6 + k] = d[k]
  <2>1. PICK six \in Nat : six = 6
    OBVIOUS
  <2>2. Len(b) = six /\ Len(d) = n
    BY <1>2, <1>3, <2>1
  <2>3. b \o d \in Seq(Units) /\ Len(b \o d) = six + n
    <3>1. b \o d \in Seq(Units) /\ Len(b \o d) = Len(b) + Len(d)
      BY ConcatProperties
    <3>2. QED
      BY <2>2, <3>1
  <2>4. \A k \in 1..six : (b \o d)[k] = b[k]
    BY <2>2
  <2>5. \A k \in 1..n : (b \o d)[six + k] = d[k]
    BY <2>2
  <2>6. PICK p \in Nat : p = six + n
    OBVIOUS
  <2>7. QED
    BY <2>1, <2>3, <2>4, <2>5, <2>6
<1>5. PICK f \in Seq(Units), q \in Nat :
        /\ f = g \o e /\ Len(f) = q /\ q = p + 1
        /\ \A k \in 1..p : f[k] = g[k]
        /\ f[q] = e[1]
  <2>1. PICK one \in Nat : one = 1
    OBVIOUS
  <2>2. Len(e) = one /\ Len(g) = p
    BY <1>3, <1>4, <2>1
  <2>3. g \o e \in Seq(Units) /\ Len(g \o e) = p + one
    <3>1. g \o e \in Seq(Units) /\ Len(g \o e) = Len(g) + Len(e)
      BY ConcatProperties
    <3>2. QED
      BY <2>2, <3>1
  <2>4. \A k \in 1..p : (g \o e)[k] = g[k]
    BY <2>2
  <2>5. (g \o e)[p + one] = e[1]
    <3>1. \A k \in 1..one : (g \o e)[p + k] = e[k]
      BY SMTT(30), <2>2
    <3>2. one \in 1..one
      BY <2>1
    <3>3. QED
      BY <2>1, <3>1, <3>2
  <2>6. PICK q \in Nat : q = p + one
    OBVIOUS
  <2>7. QED
    BY <2>1, <2>3, <2>4, <2>5, <2>6
<1>6. Stream(c) = f
  BY <1>2, <1>3, <1>4, <1>5 DEF Stream
<1>7. q = n + 7 /\ \A k \in 1..6 : k \in 1..p
  BY <1>4, <1>5
<1>8. \A k \in 1..6 : f[k] = Opening[k]
  BY <1>3, <1>4, <1>5, <1>7
<1>9. ASSUME NEW k \in 1..n PROVE f[k + 6] = Data(c, k)
  <2>1. 6 + k \in 1..p /\ 6 + k = k + 6
    BY <1>4
  <2>2. f[6 + k] = g[6 + k] /\ g[6 + k] = Data(c, k)
    BY <1>2, <1>4, <1>5, <2>1
  <2>3. QED
    BY <2>1, <2>2
<1>10. QED
  BY <1>1, <1>3, <1>5, <1>6, <1>7, <1>8, <1>9

(* A thread that does not move is where it was. *)
LEMMA StreamKept ==
    ASSUME NEW d \in Conns, StreamInv(d), ask' = ask,
           pc'[d] = pc[d], in'[d] = in[d], contentRead'[d] = contentRead[d],
           contentLength'[d] = contentLength[d],
           taken'[d] = taken[d], stop[d] => stop'[d]
    PROVE  StreamInv(d)'
<1>1. Stream(d)' = Stream(d)
  BY DEF Stream, DataOf
<1>2. QED
  BY <1>1 DEF StreamInv, HeadRead

LEMMA StreamOver ==
    ASSUME NEW d \in Conns,
           pc'[d] \notin {"none", "head", "request", "part", "named", "data", "verify"}
    PROVE  StreamInv(d)'
BY DEF StreamInv

(* No step reads for another thread. *)
LEMMA OthersRead ==
    ASSUME TypeOK, NEW c \in Conns, NEW d \in Conns, d # c,
           Client(c) \/ Accept(c) \/ ClientThread(c)
    PROVE  /\ ask' = ask /\ pc'[d] = pc[d] /\ in'[d] = in[d]
           /\ contentRead'[d] = contentRead[d] /\ taken'[d] = taken[d]
           /\ contentLength'[d] = contentLength[d]
           /\ stop[d] => stop'[d]
<1>1. /\ DOMAIN pc = Conns /\ DOMAIN in = Conns /\ DOMAIN contentRead = Conns
      /\ DOMAIN taken = Conns /\ DOMAIN stop = Conns /\ DOMAIN contentLength = Conns
  BY DEF TypeOK
<1>2. CASE Client(c)
  BY <1>1, <1>2 DEF Client, ClientSend, ClientStop, thread, upload
<1>3. CASE Accept(c) \/ HeadCut(c) \/ Post(c) \/ OtherMethod(c) \/ Downloaded(c) \/ Close(c)
  BY <1>1, <1>3 DEF Accept, HeadCut, Post, OtherMethod, Downloaded, Close, client, upload
<1>4. CASE ReadHead(c) \/ ReadPart(c)
  BY <1>1, <1>4 DEF ReadHead, ReadPart, client, upload
<1>5. CASE Favicon(c) \/ List(c) \/ OpenFails(c)
  BY <1>1, <1>5 DEF Favicon, List, OpenFails, Answer, client, upload
<1>6. CASE BadPart(c) \/ CreateFails(c) \/ Verify(c)
  BY <1>1, <1>6 DEF BadPart, CreateFails, Verify, Answer, client, upload
<1>7. CASE PartCut(c)
  BY <1>1, <1>7 DEF PartCut, Answer, client, upload
<1>8. CASE Sigpipe(c)
  BY <1>8 DEF Sigpipe, client, thread, upload
<1>9. CASE Open(c) \/ Reply(c) \/ Header(c)
  BY <1>1, <1>9 DEF Open, Reply, Header, client, upload
<1>10. CASE ReadBlock(c)
  BY <1>10 DEF ReadBlock, client, thread, upload
<1>11. CASE Create(c)
  BY <1>1, <1>11 DEF Create, client, upload
<1>12. CASE ReceiveData(c)
  BY <1>1, <1>12 DEF ReceiveData, client
<1>13. CASE DataEnds(c)
  BY <1>1, <1>13 DEF DataEnds, client
<1>14. QED
  BY <1>2, <1>3, <1>4, <1>5, <1>6, <1>7, <1>8, <1>9, <1>10, <1>11, <1>12,
     <1>13 DEF ClientThread


(* The heads: the first search ends with the head of the request at the    *)
(* latest, the second with that of the part.                               *)
LEMMA HeadsRead ==
    ASSUME TypeOK, NEW c \in Conns, ThreadInv(c), StreamInv(c),
           Accept(c) \/ ReadHead(c) \/ Post(c) \/ ReadPart(c) \/ Create(c)
    PROVE  StreamInv(c)'
<1>1. PICK i \in Nat, r \in Nat : i = in[c] /\ r = contentRead[c]
  BY Types
<1>2. /\ DOMAIN pc = Conns /\ DOMAIN in = Conns /\ DOMAIN contentRead = Conns
      /\ DOMAIN contentLength = Conns
  BY DEF TypeOK
<1>3. HeadUnits = 4 /\ Len(Opening) = 6
  BY OpeningType
<1>4. ask' = ask /\ HeadRead(c) = i - r
  BY <1>1 DEF Accept, ReadHead, Post, ReadPart, Create, client, HeadRead
<1>5. CASE Accept(c)
  <2>1. /\ pc[c] = "none" /\ pc'[c] \in {"head", "leaked"}
        /\ in'[c] = i /\ contentRead'[c] = r
    BY <1>1, <1>2, <1>5 DEF Accept, upload
  <2>2. i = 0 /\ r = 0
    BY <1>1, <2>1 DEF StreamInv
  <2>3. i < 4
    BY <2>2
  <2>4. QED
    BY <1>3, <2>1, <2>2, <2>3 DEF StreamInv
<1>6. CASE ReadHead(c)
  <2>1. pc[c] = "head" /\ in'[c] = i + 1 /\ contentRead'[c] = r
    BY <1>1, <1>2, <1>6 DEF ReadHead, upload
  <2>2. \/ pc'[c] = "request"
        \/ pc'[c] = "head" /\ Stream(c)[i + 1] # Piece("end of head")
    BY <1>1, <1>2, <1>6 DEF ReadHead
  <2>3. r = 0 /\ (ask[c].op = "POST" => i < 4)
    BY <1>1, <1>3, <2>1 DEF StreamInv
  <2>4. ASSUME ask[c].op = "POST"
        PROVE  i + 1 \in 1..4 /\ (pc'[c] = "head" => i + 1 < 4)
    <3>1. Stream(c)[4] = Piece("end of head")
      <4>1. Stream(c)[4] = Opening[4]
        BY <2>4, StreamParts DEF TypeOK
      <4>2. QED
        BY <4>1, OpeningType
    <3>2. pc'[c] = "head" => i # 3
      <4>1. CASE i = 3
        <5>1. i + 1 = 4
          BY <4>1
        <5>2. QED
          BY <2>2, <3>1, <5>1
      <4>2. QED
        BY <4>1
    <3>3. QED
      BY <2>3, <2>4, <3>2
  <2>5. QED
    BY <1>3, <1>4, <2>1, <2>2, <2>3, <2>4 DEF StreamInv
<1>7. CASE Post(c)
  <2>1. /\ pc[c] = "request" /\ pc'[c] = "part" /\ in'[c] = i /\ contentRead'[c] = r
        /\ ask[c].op = "POST"
    BY <1>1, <1>2, <1>7 DEF Post
  <2>2. HeadRead(c) >= 2 => contentLength'[c] = ask[c].length
    BY <1>2, <1>7 DEF Post
  <2>3. i \in 1..4 /\ r = 0
    BY <1>1, <1>3, <2>1 DEF StreamInv
  <2>4. i < 6 /\ i - r \in 1..4
    BY <2>3
  <2>5. HeadRead(c)' = i - r
    BY <2>1 DEF HeadRead
  <2>6. QED
    BY <1>3, <1>4, <2>1, <2>2, <2>4, <2>5 DEF StreamInv
<1>8. CASE ReadPart(c)
  <2> DEFINE u == Stream(c)[i + 1]
  <2>1. /\ pc[c] = "part" /\ in'[c] = i + 1 /\ contentRead'[c] = r + 1
        /\ taken' = taken /\ contentLength' = contentLength
    BY <1>1, <1>2, <1>8 DEF ReadPart
  <2>2. \/ pc'[c] = "named"
        \/ pc'[c] = "part" /\ u # Piece("end of part")
    BY <1>1, <1>2, <1>8 DEF ReadPart
  <2>3. ask[c].op = "POST" /\ taken[c] = <<>>
    BY <2>1 DEF ThreadInv
  <2>4. i < 6 /\ i - r \in 1..4 /\ (i - r >= 2 => contentLength[c] = ask[c].length)
    BY <1>3, <1>4, <1>1, <2>1 DEF StreamInv
  <2>5. i = 5 => u = Piece("end of part")
    <3>1. Stream(c)[6] = Opening[6]
      BY <2>3, StreamParts DEF TypeOK
    <3>2. i = 5 => i + 1 = 6
      OBVIOUS
    <3>3. QED
      BY <3>1, <3>2, OpeningType
  <2> HIDE DEF u
  <2>6. HeadRead(c)' = i - r
    <3>1. (i + 1) - (r + 1) = i - r
      OBVIOUS
    <3>2. QED
      BY <2>1, <3>1 DEF HeadRead
  <2>7. i + 1 =< 0 + 6 /\ (i # 5 => i + 1 < 6)
    BY <2>4
  <2>8. Len(taken'[c]) = 0
    BY <2>1, <2>3, EmptySeq
  <2>9. /\ pc'[c] \in {"part", "named"}
        /\ pc'[c] = "part" => i # 5
    BY <2>2, <2>5
  <2>10. QED
    BY <1>3, <1>4, <2>1, <2>4, <2>6, <2>7, <2>8, <2>9 DEF StreamInv
<1>9. CASE Create(c)
  <2>1. /\ pc[c] = "named" /\ pc'[c] = "data" /\ in'[c] = i /\ contentRead'[c] = r
        /\ taken' = taken /\ contentLength' = contentLength
    BY <1>1, <1>2, <1>9 DEF Create
  <2>2. taken[c] = <<>> /\ Len(taken[c]) = 0 /\ Len(taken'[c]) = 0
    BY <2>1, EmptySeq DEF ThreadInv
  <2>3. i - r \in 1..4 /\ i =< 0 + 6 /\ (i - r >= 2 => contentLength[c] = ask[c].length)
    BY <1>3, <1>4, <1>1, <2>1, <2>2 DEF StreamInv
  <2>4. HeadRead(c)' = i - r
    BY <2>1 DEF HeadRead
  <2>5. 1..Len(taken'[c]) = {}
    BY <2>2
  <2>6. QED
    BY <1>3, <1>4, <2>1, <2>2, <2>3, <2>4, <2>5 DEF StreamInv
<1>10. QED
  BY <1>5, <1>6, <1>7, <1>8, <1>9

(* What recv() returns is what comes next, and nothing is dropped. *)
LEMMA DataRead ==
    ASSUME TypeOK, NEW c \in Conns, ThreadInv(c), StreamInv(c), ReceiveData(c)
    PROVE  StreamInv(c)'
<1>1. PICK i \in Nat, r \in Nat, o \in Nat, t \in Nat :
        i = in[c] /\ r = contentRead[c] /\ o = out[c] /\ t = Len(taken[c])
  BY Types
<1>2. PICK n \in 1..Smaller(RecvMax, o - i) :
        /\ in' = [in EXCEPT ![c] = @ + n]
        /\ contentRead' = [contentRead EXCEPT ![c] = @ + n]
        /\ taken' = [taken EXCEPT ![c] =
                        taken[c] \o SubSeq(Stream(c), in[c] + 1, in[c] + n)]
  BY <1>1 DEF ReceiveData
<1>3. /\ pc[c] = "data" /\ pc' = pc /\ ask' = ask
  BY DEF ReceiveData, client
<1>4. PICK s \in Seq(Units), l \in Nat : s = Stream(c) /\ Len(s) = l
  BY StreamType DEF TypeOK
<1>5. t =< i /\ i =< o /\ o =< l
  BY <1>1, <1>4, Types
<1>6. n \in Nat /\ i + n =< o
  <2>1. Smaller(RecvMax, o - i) =< o - i /\ Smaller(RecvMax, o - i) \in Nat
    BY <1>5, SizesAssumption DEF Smaller
  <2>2. PICK m \in Nat : m = Smaller(RecvMax, o - i) /\ m =< o - i
    BY <2>1
  <2>3. QED
    BY <2>2
<1>7. /\ in'[c] = i + n /\ contentRead'[c] = r + n
      /\ taken'[c] = taken[c] \o SubSeq(s, i + 1, i + n)
  <2>1. DOMAIN in = Conns /\ DOMAIN contentRead = Conns /\ DOMAIN taken = Conns
    BY DEF TypeOK
  <2>2. QED
    BY <1>1, <1>2, <1>4, <2>1
<1>8. PICK x \in Seq(Units) : /\ x = SubSeq(s, i + 1, i + n) /\ Len(x) = n
                              /\ \A k \in 1..n : x[k] = s[i + k]
  <2>1. i + n \in ((i+1)-1)..Len(s) /\ i+1 \in 1..(Len(s)+1)
    BY <1>4, <1>5, <1>6
  <2>2. /\ SubSeq(s, i+1, i+n) \in Seq(Units)
        /\ Len(SubSeq(s, i+1, i+n)) = i + n - (i+1) + 1
        /\ \A k \in 1..(i + n - (i+1) + 1) : SubSeq(s, i+1, i+n)[k] = s[(i+1) + k - 1]
    BY <2>1, SubSeqProperties
  <2>3. i + n - (i+1) + 1 = n
    BY <1>6
  <2>4. \A k \in 1..n : (i+1) + k - 1 = i + k
    BY <1>6
  <2>5. PICK x \in Seq(Units) : /\ x = SubSeq(s, i+1, i+n) /\ Len(x) = n
                                /\ \A k \in 1..n : x[k] = s[(i+1) + k - 1]
    BY <2>2, <2>3
  <2>6. \A k \in 1..n : x[k] = s[i + k]
    BY <2>4, <2>5
  <2>7. QED
    BY <2>5, <2>6
<1>9. PICK y \in Seq(Units) : y = taken[c] /\ Len(y) = t
  BY <1>1, Types
<1>10. PICK z \in Seq(Units) :
         /\ z = y \o x /\ Len(z) = t + n
         /\ \A k \in 1..(t + n) : z[k] = IF k =< t THEN y[k] ELSE x[k - t]
  <2>1. /\ y \o x \in Seq(Units) /\ Len(y \o x) = Len(y) + Len(x)
        /\ \A k \in 1..(Len(y) + Len(x)) :
             (y \o x)[k] = IF k =< Len(y) THEN y[k] ELSE x[k - Len(y)]
    BY ConcatProperties
  <2>2. Len(y) + Len(x) = t + n
    BY <1>8, <1>9
  <2>3. QED
    BY ZenonT(30), <1>9, <2>1, <2>2
<1>11. \A k \in 1..t : y[k] = s[i - t + k]
  BY <1>1, <1>3, <1>4, <1>9 DEF StreamInv
<1>12. ASSUME NEW k \in 1..(t + n) PROVE z[k] = s[(i + n) - (t + n) + k]
  <2>1. (i + n) - (t + n) + k = i - t + k
    BY <1>6
  <2>2. CASE k =< t
    <3>1. k \in 1..t
      BY <2>2
    <3>2. z[k] = y[k] /\ y[k] = s[i - t + k]
      BY <1>10, <1>11, <2>2, <3>1
    <3>3. QED
      BY <2>1, <3>2
  <2>3. CASE ~(k =< t)
    <3>1. k - t \in 1..n /\ i + (k - t) = i - t + k
      BY <1>6, <2>3
    <3>2. z[k] = x[k - t] /\ x[k - t] = s[i + (k - t)]
      BY <1>8, <1>10, <2>3, <3>1
    <3>3. QED
      BY <2>1, <3>1, <3>2
  <2>4. QED
    BY <2>2, <2>3
<1>13. /\ HeadRead(c)' \in 1..HeadUnits
       /\ HeadRead(c)' >= 2 => contentLength'[c] = ask'[c].length
       /\ i + n =< (t + n) + Len(Opening)
  <2>1. /\ HeadRead(c) \in 1..HeadUnits
        /\ HeadRead(c) >= 2 => contentLength[c] = ask[c].length
        /\ i =< t + Len(Opening)
    BY <1>1, <1>3 DEF StreamInv
  <2>2. HeadRead(c) = i - r /\ HeadRead(c)' = (i + n) - (r + n)
    BY <1>1, <1>7 DEF HeadRead
  <2>3. (i + n) - (r + n) = i - r /\ contentLength' = contentLength
    BY <1>6 DEF ReceiveData
  <2>4. i =< t + 6 => i + n =< (t + n) + 6
    BY <1>6
  <2>5. Len(Opening) = 6
    BY OpeningType
  <2>6. QED
    BY <1>3, <2>1, <2>2, <2>3, <2>4, <2>5
<1>14. taken'[c] = z /\ Stream(c)' = s /\ pc'[c] = "data"
  <2>1. Stream(c)' = Stream(c)
    BY <1>3 DEF Stream, DataOf
  <2>2. QED
    BY <1>3, <1>4, <1>7, <1>8, <1>9, <1>10, <2>1
<1>15. QED
  BY ZenonT(30), <1>7, <1>10, <1>12, <1>13, <1>14 DEF StreamInv

(* The loop ends with all that was announced, or with the stream. *)
LEMMA DataOver ==
    ASSUME TypeOK, NEW c \in Conns, StreamInv(c), DataEnds(c)
    PROVE  StreamInv(c)'
<1>1. /\ pc[c] = "data" /\ pc'[c] = "verify"
      /\ contentRead[c] >= contentLength[c] \/ stop[c]
      /\ ask' = ask /\ stop' = stop /\ in' = in /\ taken' = taken
      /\ contentRead' = contentRead /\ contentLength' = contentLength
  BY DEF DataEnds, TypeOK, client
<1>2. Stream(c)' = Stream(c) /\ HeadRead(c)' = HeadRead(c)
  BY <1>1 DEF Stream, DataOf, HeadRead
<1>3. QED
  BY <1>1, <1>2 DEF StreamInv

LEMMA StreamStep ==
    ASSUME ServerInv, NEW c \in Conns, StreamInv(c),
           Client(c) \/ Accept(c) \/ ClientThread(c)
    PROVE  StreamInv(c)'
<1>1. TypeOK /\ ThreadInv(c) /\ DOMAIN pc = Conns /\ DOMAIN stop = Conns
  BY DEF ServerInv, TypeOK
<1>2. CASE Client(c)
  BY <1>1, <1>2, StreamKept DEF Client, ClientSend, ClientStop, thread, upload
<1>3. CASE Sigpipe(c)
  BY <1>3, StreamKept DEF Sigpipe, client, thread, upload
<1>4. CASE HeadCut(c) \/ OtherMethod(c) \/ Downloaded(c) \/ Close(c)
  BY <1>1, <1>4, StreamOver DEF HeadCut, OtherMethod, Downloaded, Close
<1>5. CASE Favicon(c) \/ List(c) \/ OpenFails(c) \/ BadPart(c) \/ CreateFails(c) \/ Verify(c)
  BY <1>1, <1>5, StreamOver DEF Favicon, List, OpenFails, BadPart, CreateFails, Verify, Answer
<1>6. CASE PartCut(c)
  <2>1. CASE contentRead[c] = 0
    BY <1>6, <2>1, StreamKept DEF PartCut, client, upload
  <2>2. CASE contentRead[c] # 0
    BY <1>1, <1>6, <2>2, StreamOver DEF PartCut, Answer
  <2>3. QED
    BY <2>1, <2>2
<1>7. CASE Open(c) \/ Reply(c) \/ Header(c) \/ ReadBlock(c)
  BY ZenonT(30), <1>1, <1>7, StreamOver DEF Open, Reply, Header, ReadBlock, thread
<1>8. CASE Accept(c) \/ ReadHead(c) \/ Post(c) \/ ReadPart(c) \/ Create(c)
  BY <1>1, <1>8, HeadsRead
<1>9. CASE ReceiveData(c)
  BY <1>1, <1>9, DataRead
<1>10. CASE DataEnds(c)
  BY <1>1, <1>10, DataOver
<1>11. QED
  BY <1>2, <1>3, <1>4, <1>5, <1>6, <1>7, <1>8, <1>9, <1>10 DEF ClientThread

-----------------------------------------------------------------------------
(* The theorems. *)

(* The inductive invariant: where a thread stands says what it has read,   *)
(* taken and answered, and what its file holds as long as nobody else has  *)
(* written it (l.154-370).                                                 *)
THEOREM Invariance == Spec => []IndInv
<1> DEFINE AllStreams == \A c \in Conns : StreamInv(c)
<1>1. Init => AllStreams
  BY DEF Init, StreamInv
<1>2. ServerInv /\ AllStreams /\ [Next]_vars => AllStreams'
  <2>1. ASSUME ServerInv, AllStreams, Next, NEW d \in Conns PROVE StreamInv(d)'
    <3>1. PICK c \in Conns : Client(c) \/ Accept(c) \/ ClientThread(c)
      BY <2>1 DEF Next
    <3>2. TypeOK /\ StreamInv(c) /\ StreamInv(d)
      BY <2>1 DEF ServerInv
    <3>3. CASE d = c
      BY <2>1, <3>1, <3>2, <3>3, StreamStep
    <3>4. CASE d # c
      BY <3>1, <3>2, <3>4, OthersRead, StreamKept
    <3>5. QED
      BY <3>3, <3>4
  <2>2. ASSUME AllStreams, UNCHANGED vars, NEW d \in Conns PROVE StreamInv(d)'
    BY <2>2, StreamKept DEF vars, client, thread, upload
  <2>3. QED
    BY <2>1, <2>2
<1>3. IndInv <=> ServerInv /\ AllStreams
  BY DEF IndInv
<1> HIDE DEF AllStreams
<1>4. QED
  BY <1>1, <1>2, <1>3, ServerInvariance, PTL DEF Spec

(* An upload that nobody else disturbed is stored as it was received, and  *)
(* the page shows its size, however recv() and fwrite have split it        *)
(* (l.303-347).                                                            *)
THEOREM UploadAlwaysKept == Spec => []UploadKept
<1>1. ServerInv => UploadKept
  <2>1. SUFFICES ASSUME ServerInv, NEW c \in Conns, ask[c].op = "POST", ~meddled[c]
                 PROVE  /\ pc[c] = "verify" => files[path[c]] = taken[c]
                        /\ code[c] = 200 => shown[c] = Len(taken[c])
    BY DEF UploadKept
  <2>2. FileInv(c)
    BY <2>1 DEF ServerInv
  <2>3. QED
    BY <2>1, <2>2 DEF FileInv
<1>2. QED
  BY <1>1, ServerInvariance, PTL

(* A download during which nobody writes the file sends the file, and as   *)
(* many bytes as it has announced (l.237-258).                             *)
THEOREM DownloadAlwaysKept == Spec => []DownloadKept
<1>1. ServerInv => DownloadKept
  <2>1. SUFFICES ASSUME ServerInv, NEW c \in Conns, ask[c].op = "GET", ~meddled[c],
                        code[c] = 200
                 PROVE  /\ pc[c] = "block" =>
                             /\ len[c] = Len(files[path[c]])
                             /\ IsPrefix(body[c], files[path[c]])
                        /\ pc[c] \in {"shut", "done"} => Len(body[c]) = len[c]
    BY DEF DownloadKept
  <2>2. FileInv(c)
    BY <2>1 DEF ServerInv
  <2>3. QED
    BY <2>1, <2>2 DEF FileInv
<1>2. QED
  BY <1>1, ServerInvariance, PTL

(* Only a client that has left ends the process: while its answer is sent, *)
(* or just before the first byte of the body of its POST; and an upload    *)
(* that was under way, and alone on its file, leaves a prefix of what had  *)
(* come (l.148, l.281, l.303-317).                                         *)
THEOREM OnlyLeaversKill == Spec => []DeathWindow
<1>1. ServerInv => DeathWindow
  BY DEF ServerInv
<1>2. QED
  BY <1>1, ServerInvariance, PTL

(* Where the data of an upload lies in what was passed to fwrite, from the *)
(* counts alone: i units received, r of them counted, t taken, n of data.  *)
Placed(i, r, t, n) ==
    \E front \in 0..t, kept \in 0..n :
        /\ kept = n \/ kept + (4 - (i - r)) > n
        /\ front + kept =< t
        /\ \A k \in (front + 1)..(front + kept) :
             k \in 1..t /\ k - front \in 1..n /\ i - t + k = (k - front) + 6
        /\ \A k \in 1..t : i - t + k \in 7..(n + 6) => k \in (front + 1)..(front + kept)

LEMMA Places ==
    ASSUME NEW i \in Nat, NEW r \in Nat, NEW t \in Nat, NEW n \in Nat, NEW l \in Nat,
           t =< i, i =< n + 7, i =< t + 6, i - r \in 2..4, r >= l, l >= n + 3
    PROVE  Placed(i, r, t, n)
<1>1. CASE i < 6
  <2>1. n = 0
    BY <1>1
  <2>2. QED
    BY <2>1 DEF Placed
<1>2. CASE i >= 6 /\ n =< i - 6
  <2>1. PICK f \in Nat : f = 6 - (i - t) /\ f =< t /\ f + n =< t
    BY <1>2
  <2>2. \A k \in (f + 1)..(f + n) :
          k \in 1..t /\ k - f \in 1..n /\ i - t + k = (k - f) + 6
    BY <2>1
  <2>3. \A k \in 1..t : i - t + k \in 7..(n + 6) => k \in (f + 1)..(f + n)
    BY <2>1
  <2>4. f \in 0..t /\ n \in 0..n
    BY <2>1
  <2>5. QED
    BY <2>1, <2>2, <2>3, <2>4 DEF Placed
<1>3. CASE i >= 6 /\ i - 6 < n
  <2>1. PICK f \in Nat : f = 6 - (i - t) /\ f =< t
    BY <1>3
  <2>2. PICK m \in Nat : m = i - 6 /\ m < n /\ f + m = t /\ m + (4 - (i - r)) > n
    BY <1>3, <2>1
  <2>3. \A k \in (f + 1)..(f + m) :
          k \in 1..t /\ k - f \in 1..n /\ i - t + k = (k - f) + 6
    BY <2>1, <2>2
  <2>4. \A k \in 1..t : i - t + k \in 7..(n + 6) => k \in (f + 1)..(f + m)
    BY <2>1, <2>2
  <2>5. f \in 0..t /\ m \in 0..n
    BY <2>1, <2>2
  <2>6. m = n \/ m + (4 - (i - r)) > n
    BY <2>2
  <2>7. f + m =< t
    BY <2>2
  <2>8. QED
    BY Zenon, <2>3, <2>4, <2>5, <2>6, <2>7 DEF Placed
<1>4. QED
  BY <1>1, <1>2, <1>3

(* What an early stop of the searches costs, wherever they stop: of a      *)
(* client that has announced the length of its body and goes on sending,   *)
(* the end of the file is lost at most, fewer units than the first search  *)
(* has left of the head; what is stored is in order, and once (l.166,      *)
(* l.268, l.277, l.314).                                                   *)
THEOREM DataAlwaysWhole == Spec => []DataWhole
<1>1. IndInv => DataWhole
  <2>1. SUFFICES ASSUME IndInv, NEW c \in Conns, pc[c] = "verify", ~stop[c],
                        ask[c].length > 0, HeadRead(c) >= 2
                 PROVE  \E front \in 0..Len(taken[c]), kept \in 0..ask[c].size :
                          LET place == (front + 1)..(front + kept) IN
                          /\ \/ kept = ask[c].size
                             \/ kept + (HeadUnits - HeadRead(c)) > ask[c].size
                          /\ front + kept =< Len(taken[c])
                          /\ \A k \in place : taken[c][k] = Data(c, k - front)
                          /\ \A k \in DOMAIN taken[c] : IsData(taken[c][k]) => k \in place
    BY DEF DataWhole
  <2>2. TypeOK /\ ThreadInv(c) /\ StreamInv(c) /\ ask \in Requests
    BY <2>1 DEF IndInv, ServerInv, TypeOK
  <2>3. ask[c].op = "POST"
    BY <2>1, <2>2 DEF ThreadInv
  <2>4. PICK i \in Nat, r \in Nat, t \in Nat, n \in Nat, l \in Nat :
          /\ i = in[c] /\ r = contentRead[c] /\ t = Len(taken[c])
          /\ n = ask[c].size /\ l = ask[c].length
    BY <2>2, Types, RequestsAssumption
  <2>5. HeadRead(c) = i - r /\ HeadUnits = 4 /\ Len(Opening) = 6
    BY <2>4, OpeningType DEF HeadRead
  <2>6. t =< i /\ i =< n + 7
    <3>1. PICK o \in Nat, z \in Nat : o = out[c] /\ z = Len(Stream(c)) /\ z = n + 7
      <4>1. out[c] \in Nat
        BY <2>2, Types
      <4>2. Len(Stream(c)) = n + 7
        BY <2>2, <2>3, <2>4, StreamParts
      <4>3. QED
        BY <4>1, <4>2
    <3>2. t =< i /\ i =< o /\ o =< z
      BY <2>2, <2>4, <3>1, Types
    <3>3. QED
      BY <3>1, <3>2
  <2>7. i - r \in 2..4 /\ i =< t + 6 /\ r >= l
    <3>1. /\ HeadRead(c) \in 1..HeadUnits /\ contentLength[c] = ask[c].length
          /\ in[c] =< Len(taken[c]) + Len(Opening) /\ contentRead[c] >= contentLength[c]
      BY <2>1, <2>2 DEF StreamInv
    <3>2. i - r \in 1..4 /\ i - r >= 2
      BY <2>1, <2>5, <3>1
    <3>3. QED
      BY <2>4, <2>5, <3>1, <3>2
  <2>8. l >= n + 3
    BY <2>1, <2>2, <2>3, <2>4, LengthAssumption
  <2>9. PICK front \in 0..t, kept \in 0..n :
          /\ kept = n \/ kept + (4 - (i - r)) > n
          /\ front + kept =< t
          /\ \A k \in (front + 1)..(front + kept) :
               k \in 1..t /\ k - front \in 1..n /\ i - t + k = (k - front) + 6
          /\ \A k \in 1..t : i - t + k \in 7..(n + 6) => k \in (front + 1)..(front + kept)
    <3>1. Placed(i, r, t, n)
      BY <2>6, <2>7, <2>8, Places
    <3>2. QED
      BY <3>1, Zenon DEF Placed
  <2>10. \A k \in 1..t : taken[c][k] = Stream(c)[i - t + k]
    BY <2>1, <2>2, <2>4 DEF StreamInv
  <2>11. ASSUME NEW k \in (front + 1)..(front + kept) PROVE taken[c][k] = Data(c, k - front)
    <3>1. k \in 1..t /\ k - front \in 1..n /\ i - t + k = (k - front) + 6
      BY <2>9
    <3>2. Stream(c)[(k - front) + 6] = Data(c, k - front)
      BY <2>2, <2>3, <2>4, <3>1, StreamParts
    <3>3. QED
      BY <2>10, <3>1, <3>2
  <2>12. ASSUME NEW k \in 1..t, IsData(taken[c][k])
         PROVE  k \in (front + 1)..(front + kept)
    <3>1. PICK j \in Nat : j = i - t + k /\ j \in 1..(n + 7)
      BY <2>6
    <3>2. IsData(Stream(c)[j])
      BY <2>10, <2>12, <3>1
    <3>3. j \notin 1..6
      <4>1. \A m \in 1..6 : Stream(c)[m] = Opening[m]
        BY <2>2, <2>3, StreamParts
      <4>2. QED
        BY <3>2, <4>1, OpeningType
    <3>4. j # n + 7
      <4>1. Stream(c)[n + 7] = Piece("boundary")
        BY <2>2, <2>3, <2>4, StreamParts
      <4>2. ~IsData(Piece("boundary"))
        BY DEF IsData, Piece
      <4>3. QED
        BY <3>2, <4>1, <4>2
    <3>5. i - t + k \in 7..(n + 6)
      BY <3>1, <3>3, <3>4
    <3>6. QED
      BY <2>9, <3>5
  <2>13. DOMAIN taken[c] = 1..t
    BY <2>2, <2>4, Types, LenProperties
  <2>14. QED
    BY <2>4, <2>5, <2>9, <2>11, <2>12, <2>13
<1>2. QED
  BY <1>1, Invariance, PTL
=============================================================================
