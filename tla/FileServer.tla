----------------------------- MODULE FileServer -----------------------------
(***************************************************************************)
(* np20.c: an HTTP server that lists directories, sends files and takes    *)
(* uploads, one thread per connection.  The threads share nothing but the  *)
(* file system, in which they meet without knowing.                        *)
(*                                                                         *)
(* A request is a stream of units, the smallest pieces that are told       *)
(* apart: the lines of its head, those of the head of the part, the blocks *)
(* of the file that is uploaded, the closing boundary.  A file is a        *)
(* sequence of such units.                                                 *)
(***************************************************************************)
EXTENDS Naturals, Sequences, SequencesExt

CONSTANTS
    Conns,              \* connections clients may make, each at most once
    Requests,           \* what they may ask for: c -> [op, name, size, length]
    OnDisk,             \* OnDisk[f]: blocks of file f when the server starts
    BlockSize,          \* blocks that one fread of a download returns at most
    RecvMax,            \* units that one recv of an upload returns at most
    Stale               \* units of a stream at which what lies in memory behind
                        \* them may make an empty line

ASSUME SizesAssumption == BlockSize \in Nat \ {0} /\ RecvMax \in Nat \ {0}
ASSUME RequestsAssumption ==
    /\ \A r \in Requests, c \in Conns : r[c].size \in Nat /\ r[c].length \in Nat
    /\ \A f \in DOMAIN OnDisk : OnDisk[f] \in Nat
\* Content-Length counts the whole body, the three units of framing included.
ASSUME LengthAssumption ==
    \A r \in Requests, c \in Conns :
        r[c].op = "POST" /\ r[c].length > 0 => r[c].length >= r[c].size + 3

VARIABLES
    files,              \* the file system: name -> units
    ask,                \* the request of each connection
    out, stop,          \* client: units sent, its end of stream
    pc, in,             \* ClientThread: where it is, units received
    path,               \* the file it opens, as it has understood the request
    contentLength,      \* upload: the length of l.186
    contentRead, taken, \* upload: counter of l.181, units passed to fwrite
    flushed,            \* upload: how many of them fwrite does not keep any more
    len, body,          \* download: size measured, blocks passed to Send
    todo, code, shown,  \* reply: calls of Send left, status, size on the page
    meddled,            \* history: somebody else wrote the file meanwhile
    server              \* "up", or "dead" by SIGPIPE or SIGSEGV

disk == <<files, meddled>>
client == <<ask, out, stop>>
thread == <<pc, in>>
upload == <<path, contentLength, contentRead, taken, flushed>>
download == <<len, body>>
reply == <<todo, code, shown>>
vars == <<disk, client, thread, upload, download, reply, server>>

Names == DOMAIN OnDisk

Piece(what) == <<what>>
Hole == Piece("hole")
Data(c, k) == <<"data", c, k>>
Old(f, k) == <<"old", f, k>>
IsData(u) == u[1] = "data"

DataOf(c) == [k \in 1..ask[c].size |-> Data(c, k)]

\* The two heads of an upload: in the first the length is announced, in the
\* second the file is named, and each ends with an empty line.
HeadUnits == 4
Opening ==
    <<Piece("request line"), Piece("length"), Piece("line"), Piece("end of head"),
      Piece("part"), Piece("end of part")>>

\* What c sends: no more than a head, unless it uploads something.
Stream(c) ==
    IF ask[c].op = "POST"
    THEN Opening \o DataOf(c) \o <<Piece("boundary")>>
    ELSE <<Piece("request line"), Piece("end of head")>>

\* Units that the first search has read; the second one counts what it reads.
HeadRead(c) == in[c] - contentRead[c]

\* The connections whose thread holds file f open, or is about to measure it.
Writers(f) == {c \in Conns : path[c] = f /\ pc[c] = "data"}
Users(f) == {c \in Conns : path[c] = f /\ pc[c] \in {"data", "verify", "header", "block"}}

Units ==
    {Piece(w) : w \in {"request line", "length", "line", "end of head",
                       "part", "end of part", "boundary", "hole"}}
    \cup ({"data"} \X Conns \X Nat) \cup ({"old"} \X Names \X Nat)

TypeOK ==
    /\ files \in [Names -> Seq(Units)]
    /\ ask \in Requests
    /\ stop \in [Conns -> BOOLEAN]
    /\ pc \in [Conns -> {"none", "head", "request", "part", "named", "data", "verify",
                         "header", "block", "reply", "shut", "done", "leaked"}]
    /\ in \in [Conns -> Nat] /\ out \in [Conns -> Nat]
    /\ DOMAIN path = Conns
    /\ \A c \in Conns : path[c] = ask[c].name \/ path[c] \in Names
    /\ contentLength \in [Conns -> Nat]
    /\ contentRead \in [Conns -> Nat] /\ flushed \in [Conns -> Nat]
    /\ taken \in [Conns -> Seq(Units)] /\ body \in [Conns -> Seq(Units)]
    /\ len \in [Conns -> Nat] /\ shown \in [Conns -> Nat]
    /\ todo \in [Conns -> 0..2]
    /\ \A c \in Conns :
         /\ in[c] =< out[c] /\ out[c] =< Len(Stream(c))
         /\ flushed[c] =< Len(taken[c]) /\ Len(taken[c]) =< in[c]
         /\ contentRead[c] =< in[c]
    /\ code \in [Conns -> {0, 200, 400, 404, 500}]
    /\ meddled \in [Conns -> BOOLEAN]
    /\ server \in {"up", "dead"}

Init ==
    /\ files = [f \in Names |-> [k \in 1..OnDisk[f] |-> Old(f, k)]]
    /\ ask \in Requests
    /\ pc = [c \in Conns |-> "none"]
    /\ stop = [c \in Conns |-> FALSE]
    /\ out = [c \in Conns |-> 0] /\ in = [c \in Conns |-> 0]
    /\ path = [c \in Conns |-> ask[c].name]
    /\ contentLength = [c \in Conns |-> 0] /\ contentRead = [c \in Conns |-> 0]
    /\ taken = [c \in Conns |-> <<>>] /\ flushed = [c \in Conns |-> 0]
    /\ len = [c \in Conns |-> 0] /\ body = [c \in Conns |-> <<>>]
    /\ todo = [c \in Conns |-> 0] /\ code = [c \in Conns |-> 0]
    /\ shown = [c \in Conns |-> 0]
    /\ meddled = [c \in Conns |-> FALSE]
    /\ server = "up"
-----------------------------------------------------------------------------
(* The clients, as they appear in the listen queue and afterwards.         *)

ClientSend(c) ==
    /\ ~stop[c]
    /\ out[c] < Len(Stream(c))
    /\ out' = [out EXCEPT ![c] = @ + 1]
    /\ UNCHANGED <<disk, ask, stop, thread, upload, download, reply, server>>

\* The client ends its stream, wherever it is, or resets it.  That it has left
\* altogether and reads no more only shows in Sigpipe.
ClientStop(c) ==
    /\ ~stop[c]
    /\ stop' = [stop EXCEPT ![c] = TRUE]
    /\ UNCHANGED <<disk, ask, out, thread, upload, download, reply, server>>
-----------------------------------------------------------------------------
(* main, and the head of the request.                                      *)

\* pthread_create may fail, which nobody notices: threads that ended are never
\* joined, and the connection is left open.
Accept(c) ==
    /\ pc[c] = "none"
    /\ \E p \in {"head", "leaked"} : pc' = [pc EXCEPT ![c] = p]
    /\ UNCHANGED <<disk, client, in, upload, download, reply, server>>

\* recv() of a byte at a time until strstr finds an empty line.  The string has
\* no end: what lies behind it in memory may hold the rest of one, at every line.
ReadHead(c) ==
    /\ pc[c] = "head"
    /\ in[c] < out[c]
    /\ in' = [in EXCEPT ![c] = @ + 1]
    /\ \/ /\ Stream(c)[in[c] + 1] # Piece("end of head")
          /\ pc' = pc
       \/ /\ Stream(c)[in[c] + 1] = Piece("end of head") \/ in[c] + 1 \in Stale
          /\ pc' = [pc EXCEPT ![c] = "request"]
    /\ UNCHANGED <<disk, client, upload, download, reply, server>>

\* recv() fails or ends.
HeadCut(c) ==
    /\ pc[c] = "head"
    /\ stop[c] /\ in[c] = out[c]
    /\ pc' = [pc EXCEPT ![c] = "shut"]
    /\ UNCHANGED <<disk, client, in, upload, download, reply, server>>

\* A reply of n calls of Send.
Answer(c, status, n) ==
    /\ code' = [code EXCEPT ![c] = status]
    /\ todo' = [todo EXCEPT ![c] = n]
    /\ pc' = [pc EXCEPT ![c] = "reply"]

\* The icon, if there is one: a header and its bytes.
Favicon(c) ==
    /\ pc[c] = "request" /\ ask[c].op = "favicon"
    /\ Answer(c, 200, 2) \/ Answer(c, 404, 1)
    /\ UNCHANGED <<disk, client, in, upload, download, shown, server>>

\* CreateHTML measures the page it has just made; if there is no directory of
\* that name the page is empty, and still 200.
List(c) ==
    /\ pc[c] = "request" /\ ask[c].op = "LIST"
    /\ Answer(c, 200, 2)
    /\ UNCHANGED <<disk, client, in, upload, download, shown, server>>

\* fopen(path, "rb"), and the size by ftell.
Open(c) ==
    /\ pc[c] = "request" /\ ask[c].op = "GET" /\ path[c] \in Names
    /\ len' = [len EXCEPT ![c] = Len(files[path[c]])]
    /\ meddled' = [meddled EXCEPT ![c] = Writers(path[c]) # {}]
    /\ pc' = [pc EXCEPT ![c] = "header"]
    /\ UNCHANGED <<files, client, in, upload, body, reply, server>>

OpenFails(c) ==
    /\ pc[c] = "request" /\ ask[c].op = "GET"
    /\ Answer(c, 404, 1)
    /\ UNCHANGED <<disk, client, in, upload, download, shown, server>>

\* The length is looked for in the same endless string: if the search stopped
\* before it, there is none, or one that another request has left behind.
Post(c) ==
    /\ pc[c] = "request" /\ ask[c].op = "POST"
    /\ \E l \in IF HeadRead(c) >= 2 THEN {ask[c].length}
               ELSE {0} \cup {ask[d].length : d \in Conns} :
         contentLength' = [contentLength EXCEPT ![c] = l]
    /\ pc' = [pc EXCEPT ![c] = "part"]
    /\ UNCHANGED <<disk, client, in, path, contentRead, taken, flushed, download, reply, server>>

\* Any other method gets no answer.
OtherMethod(c) ==
    /\ pc[c] = "request" /\ ask[c].op = "other"
    /\ pc' = [pc EXCEPT ![c] = "shut"]
    /\ UNCHANGED <<disk, client, in, upload, download, reply, server>>
-----------------------------------------------------------------------------
(* Sending.                                                                *)

Due(c) ==
    \/ pc[c] = "header"
    \/ pc[c] = "reply" /\ todo[c] > 0
    \/ pc[c] = "block" /\ Len(body[c]) < len[c] /\ Len(body[c]) < Len(files[path[c]])

\* send() once the peer has left: it may be lost, or fail, which ends the loop
\* of Send, or raise SIGPIPE, which nobody handles.  That takes a reset that an
\* earlier send() or recv() has met, or one that followed the end of the stream,
\* so that the first send() of an answer may raise it as well as a later one.
Sigpipe(c) ==
    /\ Due(c) /\ stop[c]
    /\ server' = "dead"
    /\ UNCHANGED <<disk, client, thread, upload, download, reply>>

Reply(c) ==
    /\ pc[c] = "reply" /\ todo[c] > 0
    /\ todo' = [todo EXCEPT ![c] = @ - 1]
    /\ pc' = [pc EXCEPT ![c] = IF todo[c] = 1 THEN "shut" ELSE "reply"]
    /\ UNCHANGED <<disk, client, in, upload, download, code, shown, server>>

\* "Content-Length: %d", the size measured before.
Header(c) ==
    /\ pc[c] = "header"
    /\ code' = [code EXCEPT ![c] = 200]
    /\ pc' = [pc EXCEPT ![c] = "block"]
    /\ UNCHANGED <<disk, client, in, upload, download, todo, shown, server>>

Smaller(m, n) == IF m < n THEN m ELSE n

\* Mutant: every block is read from the beginning of the file.
ReadFirstBlock(c) ==
    /\ pc[c] = "block"
    /\ Len(body[c]) < len[c]
    /\ LET file == files[path[c]] IN
         body' = [body EXCEPT ![c] = @ \o SubSeq(file, 1, Smaller(BlockSize, Len(file)))]
    /\ UNCHANGED <<disk, client, thread, upload, len, todo, code, shown, server>>

\* fread reads what there is, up to a block and not up to len; when there is
\* nothing left it returns 0, and the loop goes on.
ReadBlock(c) ==
    /\ pc[c] = "block"
    /\ Len(body[c]) < len[c]
    /\ LET file == files[path[c]]
           read == Len(body[c])
       IN  /\ read < Len(file)
           /\ body' = [body EXCEPT ![c] =
                          @ \o SubSeq(file, read + 1, Smaller(read + BlockSize, Len(file)))]
    /\ UNCHANGED <<disk, client, thread, upload, len, todo, code, shown, server>>

Downloaded(c) ==
    /\ pc[c] = "block"
    /\ Len(body[c]) >= len[c]
    /\ pc' = [pc EXCEPT ![c] = "shut"]
    /\ UNCHANGED <<disk, client, in, upload, download, reply, server>>

Close(c) ==
    /\ pc[c] = "shut"
    /\ pc' = [pc EXCEPT ![c] = "done"]
    /\ UNCHANGED <<disk, client, in, upload, download, reply, server>>
-----------------------------------------------------------------------------
(* Uploading.                                                              *)

\* Mutant: the head of the request counts as content as well.
ReadPartCountingHead(c) ==
    /\ pc[c] = "part"
    /\ in[c] < out[c]
    /\ in' = [in EXCEPT ![c] = @ + 1]
    /\ contentRead' = [contentRead EXCEPT ![c] = in[c] + 1]
    /\ pc' = [pc EXCEPT ![c] = IF Stream(c)[in[c] + 1] = Piece("end of part")
                               THEN "named" ELSE "part"]
    /\ UNCHANGED <<disk, client, path, contentLength, taken, flushed, download, reply, server>>

\* The head of the part, searched as the head of the request: what the first
\* search has left of that one is part of it, and its empty line ends it.
ReadPart(c) ==
    /\ pc[c] = "part"
    /\ in[c] < out[c]
    /\ in' = [in EXCEPT ![c] = @ + 1]
    /\ contentRead' = [contentRead EXCEPT ![c] = @ + 1]
    /\ LET u == Stream(c)[in[c] + 1]
           empty == \/ u = Piece("end of part")
                    \/ u = Piece("end of head") /\ contentRead[c] > 0
       IN  \/ ~empty /\ pc' = pc
           \/ (empty \/ in[c] + 1 \in Stale) /\ pc' = [pc EXCEPT ![c] = "named"]
    /\ UNCHANGED <<disk, client, path, contentLength, taken, flushed, download, reply, server>>

\* Mutant: a recv() that has nothing yet is taken for the end.
PartCutWaiting(c) ==
    /\ pc[c] = "part"
    /\ in[c] = out[c]
    /\ IF contentRead[c] = 0
       THEN server' = "dead" /\ UNCHANGED <<pc, code, todo>>
       ELSE Answer(c, 400, 1) /\ UNCHANGED server
    /\ UNCHANGED <<disk, client, in, upload, download, shown>>

\* The stream ends in the head of the part: 400, unless not a byte has come
\* and strstr(NULL) ends the process.
PartCut(c) ==
    /\ pc[c] = "part"
    /\ stop[c] /\ in[c] = out[c]
    /\ IF contentRead[c] = 0
       THEN server' = "dead" /\ UNCHANGED <<pc, code, todo>>
       ELSE Answer(c, 400, 1) /\ UNCHANGED server
    /\ UNCHANGED <<disk, client, in, upload, download, shown>>

\* The file that l.283-301 name: the client's, if all of the head of the part
\* has been read, and otherwise whatever may lie behind what was read, or none.
PartRead(c) == Stream(c)[in[c]] = Piece("end of part")
Named(c) == IF PartRead(c) THEN {ask[c].name} \cap Names ELSE Names

\* No file name in it, or no end of it.
BadPart(c) ==
    /\ pc[c] = "named" /\ (PartRead(c) => ask[c].name \notin Names)
    /\ Answer(c, 400, 1)
    /\ UNCHANGED <<disk, client, in, upload, download, shown, server>>

\* fopen(fullpath, "wb") empties the file, whoever else has it open.
Create(c) ==
    /\ pc[c] = "named"
    /\ \E f \in Named(c) :
         /\ path' = [path EXCEPT ![c] = f]
         /\ files' = [files EXCEPT ![f] = <<>>]
         /\ meddled' = [d \in Conns |->
                          IF d = c THEN Writers(f) # {} ELSE meddled[d] \/ d \in Users(f)]
    /\ pc' = [pc EXCEPT ![c] = "data"]
    /\ UNCHANGED <<client, in, contentLength, contentRead, taken, flushed, download, reply, server>>

CreateFails(c) ==
    /\ pc[c] = "named" /\ Named(c) # {}
    /\ Answer(c, 500, 1)
    /\ UNCHANGED <<disk, client, in, upload, download, shown, server>>

\* The file after a write at offset from: what was never written is a hole.
Written(file, from, units) ==
    [k \in 1..IF from + Len(units) > Len(file) THEN from + Len(units) ELSE Len(file) |->
        IF from < k /\ k =< from + Len(units) THEN units[k - from]
        ELSE IF k =< Len(file) THEN file[k] ELSE Hole]

\* fwrite passes on as much of what it keeps as it likes; c's handle has an
\* offset of its own.
Flush(c, all, upto) ==
    /\ flushed' = [flushed EXCEPT ![c] = upto]
    /\ files' = IF upto = flushed[c] THEN files
                ELSE [files EXCEPT ![path[c]] =
                        Written(@, flushed[c], SubSeq(all, flushed[c] + 1, upto))]
    /\ meddled' = [d \in Conns |->
                     \/ meddled[d]
                     \/ d # c /\ upto # flushed[c] /\ d \in Users(path[c])]

\* recv() of the body: everything that follows the head of the part, the
\* closing boundary included.
ReceiveData(c) ==
    /\ pc[c] = "data"
    /\ contentRead[c] < contentLength[c]
    /\ \E n \in 1..Smaller(RecvMax, out[c] - in[c]) :
         LET all == taken[c] \o SubSeq(Stream(c), in[c] + 1, in[c] + n) IN
         /\ taken' = [taken EXCEPT ![c] = all]
         /\ in' = [in EXCEPT ![c] = @ + n]
         /\ contentRead' = [contentRead EXCEPT ![c] = @ + n]
         /\ \E upto \in flushed[c]..Len(all) : Flush(c, all, upto)
    /\ UNCHANGED <<client, pc, path, contentLength, download, reply, server>>

\* Mutant: the loop waits for the announced length, whatever recv() returns.
DataEndsOnlyByLength(c) ==
    /\ pc[c] = "data"
    /\ contentRead[c] >= contentLength[c]
    /\ Flush(c, taken[c], Len(taken[c]))
    /\ pc' = [pc EXCEPT ![c] = "verify"]
    /\ UNCHANGED <<client, in, path, contentLength, contentRead, taken, download, reply, server>>

\* Mutant: the file is measured without fclose.
DataEndsUnflushed(c) ==
    /\ pc[c] = "data"
    /\ contentRead[c] >= contentLength[c] \/ (stop[c] /\ in[c] = out[c])
    /\ pc' = [pc EXCEPT ![c] = "verify"]
    /\ UNCHANGED <<disk, client, in, upload, download, reply, server>>

\* Mutant: the loop goes on only as long as a whole buffer may be missing.
DataEndsNotFull(c) ==
    /\ pc[c] = "data"
    /\ contentRead[c] + RecvMax > contentLength[c] \/ (stop[c] /\ in[c] = out[c])
    /\ Flush(c, taken[c], Len(taken[c]))
    /\ pc' = [pc EXCEPT ![c] = "verify"]
    /\ UNCHANGED <<client, in, path, contentLength, contentRead, taken, download, reply, server>>

\* fclose(f): enough bytes have come, or no more will.
DataEnds(c) ==
    /\ pc[c] = "data"
    /\ contentRead[c] >= contentLength[c] \/ (stop[c] /\ in[c] = out[c])
    /\ Flush(c, taken[c], Len(taken[c]))
    /\ pc' = [pc EXCEPT ![c] = "verify"]
    /\ UNCHANGED <<client, in, path, contentLength, contentRead, taken, download, reply, server>>

\* The file is opened again and measured: "Upload Successful!", and the size.
Verify(c) ==
    /\ pc[c] = "verify"
    /\ \/ /\ Answer(c, 200, 1)
          /\ shown' = [shown EXCEPT ![c] = Len(files[path[c]])]
       \/ Answer(c, 500, 1) /\ UNCHANGED shown
    /\ UNCHANGED <<disk, client, in, upload, download, server>>
-----------------------------------------------------------------------------
Client(c) == ClientSend(c) \/ ClientStop(c)
ClientThread(c) ==
    \/ ReadHead(c) \/ HeadCut(c) \/ Favicon(c) \/ List(c) \/ Open(c) \/ OpenFails(c)
    \/ Post(c) \/ OtherMethod(c)
    \/ Sigpipe(c) \/ Reply(c) \/ Header(c) \/ ReadBlock(c) \/ Downloaded(c) \/ Close(c)
    \/ ReadPart(c) \/ PartCut(c) \/ BadPart(c) \/ Create(c) \/ CreateFails(c)
    \/ ReceiveData(c) \/ DataEnds(c) \/ Verify(c)

Next ==
    /\ server = "up"
    /\ \E c \in Conns : Client(c) \/ Accept(c) \/ ClientThread(c)

Spec == Init /\ [][Next]_vars

(* Every thread runs, and a client that does not stop goes on sending what  *)
(* it has announced, and reads what it is sent.                            *)
FairSpec ==
    /\ Spec
    /\ \A c \in Conns :
         /\ WF_vars(server = "up" /\ ClientThread(c))
         /\ WF_vars(server = "up" /\ ClientSend(c))
-----------------------------------------------------------------------------
\* An upload that nobody else disturbed leaves in the file exactly what was
\* received after the head of its part, in that order, however fwrite and
\* fclose passed it on; and the page shows its size (l.303-347).
UploadKept ==
    \A c \in Conns : ask[c].op = "POST" /\ ~meddled[c] =>
        /\ pc[c] = "verify" => files[path[c]] = taken[c]
        /\ code[c] = 200 => shown[c] = Len(taken[c])

\* What a client that goes on sending loses of its file is the end of it at
\* most, and no more than the first search has left of the head to be counted as
\* content, less the closing boundary: all of it is stored, once and in order, if
\* that search stopped at the empty line or just before (l.166, l.268, l.277, l.314).
DataWhole ==
    \A c \in Conns :
        pc[c] = "verify" /\ ~stop[c] /\ ask[c].length > 0 /\ HeadRead(c) >= 2 =>
            \E front \in 0..Len(taken[c]), kept \in 0..ask[c].size :
                LET place == (front + 1)..(front + kept) IN
                /\ kept = ask[c].size \/ kept + (HeadUnits - HeadRead(c)) > ask[c].size
                /\ front + kept =< Len(taken[c])
                /\ \A k \in place : taken[c][k] = Data(c, k - front)
                /\ \A k \in DOMAIN taken[c] : IsData(taken[c][k]) => k \in place

\* A download during which nobody writes the file sends the file and as many
\* bytes as it announced; only an upload of the same name can make it send
\* more, or spin in the loop of l.250 with nothing left to read.
DownloadKept ==
    \A c \in Conns : ask[c].op = "GET" /\ ~meddled[c] /\ code[c] = 200 =>
        /\ pc[c] = "block" =>
             /\ len[c] = Len(files[path[c]])
             /\ IsPrefix(body[c], files[path[c]])
        /\ pc[c] \in {"shut", "done"} => Len(body[c]) = len[c]

\* Who can bring the server down, and what it leaves: a client that has left
\* while its answer is sent (l.148), or just before the first byte of the body of
\* a POST (l.281), never one that stays, nor one whose upload is being received;
\* an upload that was under way and alone has left a prefix of what had come.
DeathWindow ==
    server = "dead" =>
        /\ \E c \in Conns :
             /\ stop[c] /\ pc[c] \in {"part", "header", "block", "reply"}
             /\ pc[c] = "part" => contentRead[c] = 0
        /\ \A c \in Conns :
             pc[c] = "data" /\ ~meddled[c] => IsPrefix(files[path[c]], taken[c])

\* Where a thread is says what it has done so far: nothing has been answered
\* before the answer, nothing been taken before the upload.
ThreadInv(c) ==
    /\ pc[c] \in {"part", "named", "data", "verify"} => ask[c].op = "POST"
    /\ pc[c] \in {"header", "block"} => ask[c].op = "GET"
    /\ pc[c] \in {"header", "block", "data", "verify"} => path[c] \in Names
    /\ pc[c] \notin {"block", "reply", "shut", "done"} => code[c] = 0
    /\ pc[c] \in {"none", "head", "request", "part", "named"} => taken[c] = <<>> /\ flushed[c] = 0
    /\ pc[c] \notin {"block", "shut", "done"} => body[c] = <<>>
    /\ pc[c] = "block" => code[c] = 200
    /\ pc[c] = "reply" => todo[c] > 0 /\ (ask[c].op = "GET" => code[c] # 200)

\* What the file of a thread holds as long as nobody else has written it.
FileInv(c) ==
    LET file == files[path[c]] IN
    /\ pc[c] = "data" => file = SubSeq(taken[c], 1, flushed[c])
    /\ pc[c] = "verify" => file = taken[c]
    /\ ask[c].op = "POST" /\ code[c] = 200 => shown[c] = Len(taken[c])
    /\ pc[c] \in {"header", "block"} => len[c] = Len(file) /\ IsPrefix(body[c], file)
    /\ ask[c].op = "GET" /\ code[c] = 200 /\ pc[c] \in {"shut", "done"} => Len(body[c]) = len[c]

\* How far a thread is in the stream of its client: the first search ends in
\* the head or with it, the second no later than the head of the part, the length
\* is the client's if the first has read it, and what is passed to fwrite is all
\* that follows.
StreamInv(c) ==
    /\ pc[c] \in {"none", "head", "request"} => contentRead[c] = 0
    /\ pc[c] = "none" => in[c] = 0
    /\ pc[c] = "head" /\ ask[c].op = "POST" => in[c] < HeadUnits
    /\ pc[c] = "request" /\ ask[c].op = "POST" => in[c] \in 1..HeadUnits
    /\ pc[c] = "part" => in[c] < Len(Opening)
    /\ pc[c] \in {"part", "named", "data", "verify"} =>
         /\ HeadRead(c) \in 1..HeadUnits
         /\ HeadRead(c) >= 2 => contentLength[c] = ask[c].length
    /\ pc[c] \in {"named", "data", "verify"} => in[c] =< Len(taken[c]) + Len(Opening)
    /\ pc[c] \in {"data", "verify"} =>
         \A k \in 1..Len(taken[c]) : taken[c][k] = Stream(c)[in[c] - Len(taken[c]) + k]
    /\ pc[c] = "verify" => stop[c] \/ contentRead[c] >= contentLength[c]

\* What holds of the answers, the files and the death of the process.
ServerInv ==
    /\ TypeOK /\ DeathWindow
    /\ \A c \in Conns : ThreadInv(c) /\ (~meddled[c] => FileInv(c))

\* The inductive invariant: where a thread stands says what it has read, taken
\* and answered (l.154-370), and its file follows as long as it is its own.
IndInv == ServerInv /\ \A c \in Conns : StreamInv(c)

\* A thread that was started ends, unless another upload took the file of its
\* download away, it waits for a length that another request has left behind, or
\* the process died.
Answered ==
    \A c \in Conns :
        pc[c] = "head" ~> \/ pc[c] = "done" \/ server = "dead"
                          \/ meddled[c] \/ contentLength[c] > ask[c].length

\* "Upload Successful!" (l.341): of an upload that arrived whole, what is stored
\* is the client's file and not the boundary after it (l.307-312).
SuccessMeansStored ==
    \A c \in Conns : ask[c].op = "POST" /\ code[c] = 200 /\ ~stop[c]
                        => taken[c] = DataOf(c)
=============================================================================
