------------------------------ MODULE CodeLocation -----------------------------
(***************************************************************************)
(* Where a hit of find_code is: the windows index_file_chunks cuts a file  *)
(* into, and, once the file has changed, resolve_location and its          *)
(* relocate_chunk, which look for the window in the file as it is now      *)
(* (source_index.rs).  A file is the sequence of its lines.                *)
(***************************************************************************)
EXTENDS Integers, Sequences, FiniteSets

CONSTANTS
    ChunkLines,     \* CHUNK_LINES
    MinVoters,      \* distinctive lines below which there is no vote: 3
    Trim,           \* the lines there are, each without the space around it
    Empty,          \* the empty line
    Distinctive,    \* trimmed lines of 8 characters with a letter or a digit
    Missing         \* in place of the lines of a file that is gone

Abs(n) == IF n < 0 THEN -n ELSE n
Least(a, b) == IF a < b THEN a ELSE b
Greatest(a, b) == IF a > b THEN a ELSE b

(* The lines of a window joined and split again: an empty last line is lost*)
BodyOf(window) ==
    IF window # <<>> /\ window[Len(window)] = Empty
    THEN SubSeq(window, 1, Len(window) - 1) ELSE window

(* index_file_chunks: windows of whitespace are skipped.                   *)
Chunks(file) ==
    LET Window(k) == [first |-> k * ChunkLines + 1, last |-> Least((k + 1) * ChunkLines, Len(file))]
    IN {[first |-> w.first, last |-> w.last, body |-> BodyOf(SubSeq(file, w.first, w.last))] :
           w \in {v \in {Window(k) : k \in 0 .. Len(file) \div ChunkLines} :
                     \E i \in v.first .. v.last : Trim[file[i]] # Empty}}

--------------------------------------------------------------------------------

(* Stage 1: by how much the window would have moved to each verbatim copy. *)
ExactShifts(chunk, live) ==
    {s - (chunk.first - 1) :
        s \in {t \in 0 .. Len(live) - Len(chunk.body) :
                  SubSeq(live, t + 1, t + Len(chunk.body)) = chunk.body}}

Nearest(shifts) == {s \in shifts : \A t \in shifts : Abs(s) <= Abs(t)}

DistinctiveLines(lines) == {i \in DOMAIN lines : Trim[lines[i]] \in Distinctive}

(* Stage 2: a pair of equal distinctive lines votes for the shift between. *)
Votes(chunk, live) ==
    {v \in DistinctiveLines(chunk.body) \X DistinctiveLines(live) :
        Trim[chunk.body[v[1]]] = Trim[live[v[2]]]}
ShiftOf(chunk, vote) == vote[2] - (chunk.first - 1 + vote[1])
For(chunk, live, shift) == Cardinality({v \in Votes(chunk, live) : ShiftOf(chunk, v) = shift})

(* Most votes, then nearest; between as much up and down a HashMap's order *)
(* decides.  The winner needs half of the distinctive lines.               *)
Voted(chunk, live) ==
    LET shifts == {ShiftOf(chunk, v) : v \in Votes(chunk, live)}
        most == {s \in shifts : \A t \in shifts : For(chunk, live, t) <= For(chunk, live, s)}
        voters == Cardinality(DistinctiveLines(chunk.body))
    IN IF voters < MinVoters THEN {}
       ELSE {s \in Nearest(most) : For(chunk, live, s) * 2 >= voters}

(* The shifts relocate_chunk may return, none where it returns None.       *)
RelocateChunk(chunk, live) ==
    LET nearest == Nearest(ExactShifts(chunk, live))
    IN IF nearest # {} THEN {CHOOSE s \in nearest : \A t \in nearest : s <= t}
       ELSE Voted(chunk, live)

Clamp(n, low, high) == Greatest(low, Least(n, high))

Moved(chunk, match, shift, length) ==
    LET first == Greatest(chunk.first + shift, 1)
        last == Greatest(Least(chunk.last + shift, length), first)
    IN [status |-> "relocated", first |-> first, last |-> last,
        match |-> Clamp(match + shift, first, last), shift |-> shift]

(* The answers resolve_location may give for a hit on line `match` of a    *)
(* window of `file`, which now reads `live`.                               *)
ResolveLocation(chunk, match, file, live) ==
    LET Stored(status) ==
            [status |-> status, first |-> chunk.first, last |-> chunk.last, match |-> match, shift |-> 0]
        shifts == RelocateChunk(chunk, live)
    IN IF live = Missing THEN {Stored("file_missing")}
       ELSE IF live = file THEN {Stored("verified")}
       ELSE IF shifts = {} THEN {Stored("stale")}
       ELSE {Moved(chunk, match, s, Len(live)) : s \in shifts}

(* What a query may answer of every line of every window                   *)
Locations(file, live) ==
    UNION {UNION {{[chunk |-> c, asked |-> m, found |-> a] : a \in ResolveLocation(c, m, file, live)} :
                      m \in c.first .. c.last} : c \in Chunks(file)}

--------------------------------------------------------------------------------

(* Every line with text is in one window, where its number says.           *)
LinesTiled(file) ==
    \A i \in DOMAIN file : Trim[file[i]] # Empty =>
        \E c \in Chunks(file) :
            /\ i \in c.first .. c.last /\ c.body[i - c.first + 1] = file[i]
            /\ \A d \in Chunks(file) : i \in d.first .. d.last => d = c

(* How many distinctive lines of a window stand where a shift puts them    *)
Kept(chunk, live, shift) ==
    Cardinality({i \in DistinctiveLines(chunk.body) :
        LET j == chunk.first - 1 + i + shift
        IN j \in DOMAIN live /\ Trim[live[j]] = Trim[chunk.body[i]]})

(* A relocated hit lies in the file as it is.  Where the window is still   *)
(* there verbatim the hit is the nearest copy, and the line jumped to      *)
(* reads as the one that matched; where it is not, half of its distinctive *)
(* lines are as far from where they were as the hit.  A stale one has      *)
(* nowhere to go (LocationStatus, relocate_chunk).                         *)
Anchored(file, live) ==
    \A a \in Locations(file, live) :
        LET c == a.chunk
            found == a.found
            n == Len(c.body)
            Copy(k) == SubSeq(live, k, k + n - 1) = c.body
            copies == {k \in 1 .. Len(live) - n + 1 : Copy(k)}
            voters == Cardinality(DistinctiveLines(c.body))
        IN /\ found.status = "relocated" =>
               /\ 1 <= found.first /\ found.first <= found.match
               /\ found.match <= found.last /\ found.last <= Len(live)
               /\ copies # {} =>
                   /\ found.first \in copies
                   /\ \A k \in copies : Abs(found.first - c.first) <= Abs(k - c.first)
                   /\ a.asked < c.first + n => live[found.match] = file[a.asked]
               /\ copies = {} => 2 * Kept(c, live, found.shift) >= voters
           /\ found.status = "stale" =>
               /\ copies = {}
               /\ voters < 3 \/ \A s \in (1 - c.last) .. Len(live) : 2 * Kept(c, live, s) < voters
================================================================================
