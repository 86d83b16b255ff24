----------------------------- MODULE DirBrowser -----------------------------
(***************************************************************************)
(* scandir-mo-rong.c: a prompt that walks through directories by editing   *)
(* the path in root[1024].  A path is its segments: "/mnt/c" is            *)
(* <<"mnt", "c">>, "/" is <<"">>, and what ends in a slash ends in "".     *)
(***************************************************************************)
EXTENDS Naturals, Sequences

CONSTANTS
    Folders,            \* names a directory can have, of one character
    Dirs,               \* the directories there are, as paths of names
    Inputs,             \* what may be typed, as segments
    Size,               \* of root and of test_path (1024)
    Start               \* root at the beginning

VARIABLES
    root,               \* the path, while it fits
    bpc,                \* "prompt", "ended", or "overrun": written past root
    strange             \* something but the name of a directory was accepted

browserVars == <<root, bpc, strange>>

\* What is between two slashes.
Segments == Folders \cup {"", ".", ".."}

SegmentLen(s) == IF s = "" THEN 0 ELSE IF s = ".." THEN 2 ELSE 1

\* The length of every prefix of a path: a slash before every segment.
PathLens(p) ==
    LET len[k \in 0..Len(p)] == IF k = 0 THEN 0 ELSE len[k - 1] + 1 + SegmentLen(p[k])
    IN  len

\* strlen of a path.
PathLen(p) == PathLens(p)[Len(p)]

\* From a place, one segment on: "" and "." stay, ".." goes up, and from what is
\* not a directory nothing leads anywhere.
Onward(place, s) ==
    IF place \notin Dirs \/ s \in {"", "."} THEN place
    ELSE IF s # ".." THEN Append(place, s)
    ELSE IF place = <<>> THEN <<>> ELSE SubSeq(place, 1, Len(place) - 1)

\* Where every prefix of a path leads.
Places(p) ==
    LET at[k \in 0..Len(p)] == IF k = 0 THEN <<>> ELSE Onward(at[k - 1], p[k])
    IN  at

\* What stat() finds: is_directory(path) is Leads(path) \in Dirs.
Leads(p) == Places(p)[Len(p)]

\* The segments of a path that are whole within n characters; a slash that is left
\* over, or the half of a "..", leads nowhere else.
Cut(p, n) ==
    SubSeq(p, 1, CHOOSE k \in 0..Len(p) :
        /\ PathLens(p)[k] =< n
        /\ \A j \in k + 1..Len(p) : PathLens(p)[j] > n)

\* Every directory but the root is in another, and the program starts in one.
ASSUME DirsAssumption ==
    /\ {"", ".", ".."} \cap Folders = {}
    /\ Dirs \subseteq Seq(Folders)
    /\ <<>> \in Dirs
    /\ \A d \in Dirs \ {<<>>} : SubSeq(d, 1, Len(d) - 1) \in Dirs
    /\ Start \in Dirs \ {<<>>} /\ PathLen(Start) < Size

\* scanf("%255s") returns something, and for ".." no path is tried (l.149).
ASSUME InputsAssumption ==
    Inputs \subseteq Seq(Segments) \ {<<>>, <<"">>, <<"..">>}

ASSUME SizeAssumption == Size \in Nat /\ Size > 1

BrowserTypeOK ==
    /\ root \in Seq(Segments) /\ Len(root) > 0 /\ PathLen(root) < Size
    /\ bpc \in {"prompt", "ended", "overrun"}
    /\ strange \in BOOLEAN

BrowserInit == root = Start /\ bpc = "prompt" /\ strange = FALSE

\* update_root_up, l.50-69: the path up to its last slash.
Up(p) == IF Len(p) > 1 THEN SubSeq(p, 1, Len(p) - 1) ELSE <<"">>

\* update_root_down, l.71-79: no slash is added to one that is there.
Down(p, folder) == IF p[Len(p)] = "" THEN SubSeq(p, 1, Len(p) - 1) \o folder ELSE p \o folder

GoUp ==
    /\ bpc = "prompt"
    /\ root' = Up(root)
    /\ UNCHANGED <<bpc, strange>>

\* Nothing is tried before root is changed (mutant).
GoDownUntried ==
    /\ bpc = "prompt"
    /\ \E input \in Inputs :
        IF PathLen(Down(root, input)) < Size
        THEN root' = Down(root, input) /\ UNCHANGED bpc
        ELSE bpc' = "overrun" /\ UNCHANGED root
    /\ UNCHANGED strange

\* l.156-162: the path that is tried may be cut off, the one that is taken not.
GoDown ==
    /\ bpc = "prompt"
    /\ \E input \in Inputs :
        /\ Leads(Cut(root \o input, Size - 1)) \in Dirs
        /\ IF PathLen(Down(root, input)) < Size
           THEN root' = Down(root, input) /\ UNCHANGED bpc
           ELSE bpc' = "overrun" /\ UNCHANGED root
        /\ strange' = (strange \/ Append(Leads(root), input[1]) \notin Dirs \/ Len(input) > 1)

\* l.163-166.
NoSuchFolder ==
    /\ bpc = "prompt"
    /\ \E input \in Inputs : Leads(Cut(root \o input, Size - 1)) \notin Dirs
    /\ UNCHANGED browserVars

\* l.144-148.
Quit ==
    /\ bpc = "prompt"
    /\ bpc' = "ended"
    /\ UNCHANGED <<root, strange>>

BrowserNext == GoUp \/ GoDown \/ NoSuchFolder \/ Quit

BrowserSpec == BrowserInit /\ [][BrowserNext]_browserVars

(***************************************************************************)
(* Properties                                                              *)
(***************************************************************************)

\* However one walks, root names a directory.  The one exception: behind a slash
\* test_path has a second one, and loses the last character of a root that fits
\* exactly, so that what was tried is not what is taken (l.157, l.161).
RootIsDirectory ==
    bpc = "prompt" => \/ Leads(root) \in Dirs
                      \/ strange /\ PathLen(root) = Size - 1

\* Walking by names never runs over root while the directories fit in it; accepting
\* "." or a path does, since root only grows (l.78) and nothing asks for its length.
OverrunNeedsStrange ==
    bpc = "overrun" => strange \/ \E d \in Dirs : PathLen(d) >= Size

\* The inductive invariant: the directory above root is always there, and what was
\* walked by names is one of Dirs as it stands.
BrowserInv ==
    /\ BrowserTypeOK
    /\ bpc = "prompt" => Leads(Up(root)) \in Dirs
    /\ strange \/ root = <<"">> \/ root \in Dirs
    /\ RootIsDirectory /\ OverrunNeedsStrange
=============================================================================
