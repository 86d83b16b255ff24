----------------------------- MODULE DirListing -----------------------------
(***************************************************************************)
(* multithreading-http-server.c: every request is answered with the list   *)
(* of one directory, put together with snprintf in a buffer of fixed size, *)
(* then copied behind a header into another one.  The threads share        *)
(* nothing, so one request is all of it.  Texts are their lengths;         *)
(* remaining is a size_t, a number modulo Word.                            *)
(***************************************************************************)
EXTENDS Integers, Sequences, FiniteSets

CONSTANTS
    BUFFER_SIZE,        \* of the page, and of the response
    Word,               \* 2^64: a size_t wraps here
    PageTop, PageEnd,   \* lengths of the page before and after its entries
    HeaderLen,          \* length of the response header
    FaviconSize,
    ErrorPage,          \* length of the page when there is no directory
    MaxEntries,         \* the array entries (1024)
    FolderExtra,        \* how much longer the line of a folder is than of a file
    LineLengths,        \* lengths the line of an entry may have
    MaxLine             \* no line is longer: a name has 255 characters at most

ASSUME SizesAssumption ==
    /\ BUFFER_SIZE \in Nat /\ HeaderLen \in 1..BUFFER_SIZE - 1
    /\ ErrorPage \in 0..BUFFER_SIZE - 1 /\ MaxEntries \in Nat
    /\ MaxLine \in Nat /\ PageTop \in 0..MaxLine /\ PageEnd \in 0..MaxLine
    /\ FolderExtra \in Nat /\ FaviconSize \in Nat
    /\ \A n \in LineLengths : n \in Nat /\ n + FolderExtra =< MaxLine
\* The longest page there can be does not bring remaining round to 0 again.
ASSUME WordAssumption ==
    Word \in Nat /\ (MaxEntries + 2) * MaxLine + BUFFER_SIZE < Word

VARIABLES
    hpc, entries,       \* where handle_client is, the array of scan_directory
    lines,              \* lengths of what is still to be written
    ptr, remaining,     \* ptr - html_buffer, and the size passed to snprintf
    content,            \* strlen(html_content)
    overrun,            \* something was written behind the buffer
    announced, sentBody \* Content-Length, and how much of the body was sent

listingVars == <<hpc, entries, lines, ptr, remaining, content, overrun, announced, sentBody>>

ListingInit ==
    /\ hpc = "recv" /\ entries = <<>> /\ lines = <<>>
    /\ ptr = 0 /\ remaining = 0 /\ content = 0 /\ overrun = FALSE
    /\ announced = 0 /\ sentBody = 0

ListingTypeOK ==
    /\ hpc \in {"recv", "read", "write", "closed", "crashed"}
    /\ ptr \in 0..Word - 1 /\ remaining \in 0..Word - 1
    /\ content \in 0..BUFFER_SIZE - 1
    /\ announced >= sentBody

\* l.184, l.198: a peer that sends nothing gets nothing.
ReceiveNothing ==
    /\ hpc = "recv"
    /\ hpc' = "closed"
    /\ UNCHANGED <<entries, lines, ptr, remaining, content, overrun, announced, sentBody>>

\* l.133-158: header and icon are two sends of their whole length.
SendFavicon ==
    /\ hpc = "recv"
    /\ announced' = FaviconSize /\ sentBody' = FaviconSize
    /\ hpc' = "closed"
    /\ UNCHANGED <<entries, lines, ptr, remaining, content, overrun>>

\* l.57-61: the directory cannot be opened.
NoListing ==
    /\ hpc = "recv"
    /\ hpc' = "write" /\ content' = ErrorPage
    /\ UNCHANGED <<entries, lines, ptr, remaining, overrun, announced, sentBody>>

StartListing ==
    /\ hpc = "recv"
    /\ hpc' = "read"
    /\ UNCHANGED <<entries, lines, ptr, remaining, content, overrun, announced, sentBody>>

\* l.66-76: the entries but "." and "..", up to the size of the array.
ReadEntry ==
    /\ hpc = "read" /\ Len(entries) < MaxEntries
    /\ \E n \in LineLengths, is_dir \in BOOLEAN :
        entries' = Append(entries, [is_dir |-> is_dir, len |-> n + IF is_dir THEN FolderExtra ELSE 0])
    /\ UNCHANGED <<hpc, lines, ptr, remaining, content, overrun, announced, sentBody>>

\* compare_entries: folders first, and names in whatever order they have.
Sorted(s) ==
    LET orders == {p \in [DOMAIN s -> DOMAIN s] :
                      \A j, k \in DOMAIN s : /\ p[j] = p[k] => j = k
                                             /\ s[p[k]].is_dir /\ j < k => s[p[j]].is_dir}
    IN  {[k \in DOMAIN s |-> s[p[k]]] : p \in orders}

\* l.78-83: sort, and begin at the start of the buffer.
StartPage ==
    /\ hpc = "read"
    /\ \E s \in Sorted(entries) :
        lines' = <<PageTop>> \o [k \in DOMAIN s |-> s[k].len] \o <<PageEnd>>
    /\ remaining' = BUFFER_SIZE
    /\ hpc' = "write" /\ entries' = <<>>
    /\ UNCHANGED <<ptr, content, overrun, announced, sentBody>>

\* What snprintf(html_buffer + at, size, ...) of n bytes writes: n of them or
\* size - 1, and a 0; nothing for size 0.
Written(size, n) == IF size = 0 THEN 0 ELSE (IF n < size THEN n ELSE size - 1) + 1

\* The subtraction stops at 0 (mutant).
SubtractToZero(size, n) == IF n > size THEN 0 ELSE size - n

\* remaining -= written, in a size_t that has no negative values.
Subtract(size, n) == (size - n + Word) % Word

\* l.86-130: one snprintf; it returns the length it would have liked to write.
WriteLine ==
    /\ hpc = "write" /\ lines # <<>>
    /\ LET n == Head(lines)
           w == Written(remaining, n)
       IN  /\ overrun' = (overrun \/ (w > 0 /\ ptr + w > BUFFER_SIZE))
           /\ content' = IF ptr < BUFFER_SIZE THEN ptr + w - 1 ELSE content
           /\ ptr' = ptr + n
           /\ remaining' = Subtract(remaining, n)
    /\ lines' = Tail(lines)
    /\ UNCHANGED <<hpc, entries, announced, sentBody>>

\* A buffer that has room for both (mutant).
BodyInFull(n) == n

\* l.160-173: one buffer for header and page, one send of what fits.
BodyThatFits(n) == IF HeaderLen + n < BUFFER_SIZE THEN n ELSE BUFFER_SIZE - 1 - HeaderLen

SendResponse ==
    /\ hpc = "write" /\ lines = <<>>
    /\ announced' = content
    /\ sentBody' = BodyThatFits(content)
    /\ hpc' = "closed"
    /\ UNCHANGED <<entries, lines, ptr, remaining, content, overrun>>

\* What was behind the buffer may have been needed to return.
Crash ==
    /\ hpc = "write" /\ overrun
    /\ hpc' = "crashed"
    /\ UNCHANGED <<entries, lines, ptr, remaining, content, overrun, announced, sentBody>>

ListingNext ==
    \/ ReceiveNothing \/ SendFavicon \/ NoListing \/ StartListing \/ ReadEntry \/ StartPage
    \/ WriteLine \/ SendResponse \/ Crash

ListingSpec == ListingInit /\ [][ListingNext]_listingVars

(***************************************************************************)
(* Properties; ptr is the length of everything written so far.             *)
(***************************************************************************)

\* Memory behind the buffer is written if, and only if, the page without its end
\* is longer than the buffer: an exact fit is harmless, one byte more is not.
OverrunExactly ==
    hpc = "closed" /\ ptr > 0 => (overrun <=> ptr - PageEnd > BUFFER_SIZE)

\* The client gets fewer bytes than Content-Length says exactly if header and
\* page together do not fit; a page that was itself cut off is announced short,
\* so it can look complete (l.160-173).
ShortExactly ==
    hpc = "closed" /\ ptr > 0 =>
        /\ sentBody < announced <=> HeaderLen + ptr >= BUFFER_SIZE
        /\ announced < ptr <=> ptr >= BUFFER_SIZE

\* The inductive invariant: between two snprintf (l.86-130) remaining is what is
\* left of the buffer, or a whole word less what was written behind it.
PageInv ==
    /\ lines \in Seq(0..MaxLine) /\ lines[Len(lines)] = PageEnd
    /\ ptr \in Nat /\ Len(lines) * MaxLine + ptr =< (MaxEntries + 2) * MaxLine
    /\ remaining = BUFFER_SIZE - ptr + (IF ptr =< BUFFER_SIZE THEN 0 ELSE Word)
    /\ overrun => ptr > BUFFER_SIZE

\* The inductive invariant: and once all lines are written the page is as long as
\* ptr says, or cut to the buffer (l.155-173).
ListingInv ==
    /\ ptr \in Nat
    /\ entries \in Seq([is_dir : BOOLEAN, len : 0..MaxLine]) /\ Len(entries) =< MaxEntries
    /\ hpc \in {"recv", "read"} => ptr = 0 /\ content = 0 /\ lines = <<>> /\ ~overrun
    /\ hpc = "write" /\ lines # <<>> => PageInv
    /\ hpc \in {"write", "closed"} /\ (ptr > 0 \/ lines # <<>>) =>
         content = IF ptr < BUFFER_SIZE THEN ptr ELSE BUFFER_SIZE - 1
    /\ hpc \in {"write", "closed"} /\ lines = <<>> /\ ptr > 0 =>
         overrun <=> ptr - PageEnd > BUFFER_SIZE
    /\ hpc = "closed" => lines = <<>>
    /\ hpc = "closed" /\ ptr > 0 => announced = content /\ sentBody = BodyThatFits(content)
=============================================================================
