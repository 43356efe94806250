------------------------------ MODULE Extractors ------------------------------
(***************************************************************************)
(* What the extractors read from a file: the sections of a design document *)
(* (design_doc.rs), the entry of a memory file (memory.rs), the entries of *)
(* a session log (session_history.rs), and the repositories below a        *)
(* workspace (git_commits.rs).                                             *)
(*                                                                         *)
(* A file is a sequence of lines, a line a record of what the extractor    *)
(* asks of it.  A path is the sequence of its components.                  *)
(***************************************************************************)
EXTENDS Integers, SequencesExt, FiniteSetsExt

CONSTANTS None, Quotes

--------------------------------------------------------------------------------
(* Design documents.  line.fence is the marker of a fence or None;         *)
(* line.hashes the hashes a line begins with, line.title what follows them *)
(* after white space, or None.                                             *)

ParseHeading(line) ==
    IF line.hashes \in 1 .. 6 /\ line.title # None
    THEN {[level |-> line.hashes, title |-> line.title]} ELSE {}

(* A fence is closed by its own marker, and hides what is between.         *)
FindHeadings(lines) ==
    LET Read(done, i) ==
            LET line == lines[i] IN
            IF line.fence # None
            THEN [done EXCEPT !.open = IF @ = None THEN line.fence
                                       ELSE IF @ = line.fence THEN None ELSE @]
            ELSE IF done.open # None \/ ParseHeading(line) = {} THEN done
            ELSE [done EXCEPT !.found =
                     Append(@, [level |-> line.hashes, title |-> line.title, line |-> i])]
    IN FoldLeft(Read, [open |-> None, found |-> <<>>], [i \in DOMAIN lines |-> i]).found

(* Mutant: a sibling stays on the stack.                                   *)
PushBelow(stack, h) ==
    LET kept == SubSeq(stack, 1, Min({Len(stack), h.level}))
    IN Append(kept \o [i \in 1 .. h.level - 1 - Len(kept) |-> None], h.title)

(* The ancestors of a heading, None at the levels that were jumped         *)
Push(stack, h) ==
    LET kept == SubSeq(stack, 1, Min({Len(stack), h.level - 1}))
    IN Append(kept \o [i \in 1 .. h.level - 1 - Len(kept) |-> None], h.title)

HeadingPath(headings, i) ==
    SelectSeq(FoldLeft(Push, <<>>, SubSeq(headings, 1, i)), LAMBDA t : t # None)

LineEnd(lines, headings, i) ==
    LET next == {j \in DOMAIN headings : j > i /\ headings[j].level <= headings[i].level}
    IN IF next = {} THEN Len(lines) ELSE headings[Min(next)].line - 1

(* What comes before the first heading is a section of no heading.         *)
Preamble(lines, headings) ==
    LET end == IF headings = <<>> THEN Len(lines) ELSE headings[1].line - 1
    IN IF \A i \in 1 .. end : lines[i].blank THEN <<>>
       ELSE <<[path |-> <<>>, start |-> 1, end |-> end]>>

ExtractSections(lines) ==
    LET headings == FindHeadings(lines)
    IN Preamble(lines, headings) \o
       [i \in DOMAIN headings |->
           [path |-> HeadingPath(headings, i), start |-> headings[i].line,
            end |-> LineEnd(lines, headings, i)]]

(* The path of a section names the sections it lies within, outermost      *)
(* first, and itself last; sections are nested or apart, and no line with  *)
(* a text is in none (extract_sections).                                   *)
SectionsNest(lines) ==
    LET sections == ExtractSections(lines)
        Within(i, j) == sections[j].start <= sections[i].start /\ sections[i].end <= sections[j].end
        Own(j) == lines[sections[j].start].title
        around(i) == SetToSortSeq({j \in DOMAIN sections : sections[j].path # <<>> /\ Within(i, j)}, <)
    IN /\ \A i \in DOMAIN sections :
              sections[i].path # <<>> =>
                  sections[i].path = [k \in DOMAIN around(i) |-> Own(around(i)[k])]
       /\ \A i, j \in DOMAIN sections :
              i < j => Within(j, i) \/ sections[i].end < sections[j].start
       /\ \A n \in DOMAIN lines :
              \/ lines[n].blank
              \/ \E i \in DOMAIN sections : sections[i].start <= n /\ n <= sections[i].end

--------------------------------------------------------------------------------
(* Memory files.  line.key is what is before a colon, or None, line.value  *)
(* what is after it: None if nothing is, Quotes if only quotes are;        *)
(* line.mark is true of the line ---, line.skip of a blank line or a       *)
(* comment, line.indented of one that begins with white space.             *)

CleanValue(value) == IF value = Quotes THEN None ELSE value

NoFields == [top |-> [key \in {"name", "description", "type"} |-> None],
             nested |-> None, block |-> FALSE]

(* A line at the top level ends a block, and may begin one.                *)
TopField(out, line) ==
    LET read == [out EXCEPT !.block = line.key = "metadata" /\ line.value = None]
    IN IF line.key \in DOMAIN out.top
       THEN [read EXCEPT !.top[line.key] = CleanValue(line.value)] ELSE read

NestedField(out, line) ==
    IF out.block /\ line.key = "type" THEN [out EXCEPT !.nested = CleanValue(line.value)] ELSE out

(* parse_frontmatter, a line at a time                                     *)
ReadField(out, line) ==
    IF line.skip THEN out
    ELSE IF line.indented THEN NestedField(out, line) ELSE TopField(out, line)

(* The line that closes the frontmatter, if it is open and closed          *)
SplitFrontmatter(lines) ==
    {i \in DOMAIN lines : /\ 1 < i /\ lines[1].mark /\ lines[i].mark
                          /\ \A j \in 2 .. i - 1 : ~lines[j].mark}

ExtractMemoryEntry(lines) ==
    {entry \in {LET out == FoldLeft(ReadField, NoFields, SubSeq(lines, 2, i - 1))
                IN [name |-> out.top["name"], description |-> out.top["description"],
                    type |-> IF out.nested # None THEN out.nested ELSE out.top["type"],
                    body |-> i + 1] : i \in SplitFrontmatter(lines)} :
        entry.name # None /\ entry.type # None}

(* A file is an entry if and only if its frontmatter has a name and a      *)
(* type; the type is what the metadata block says, else the top level, and *)
(* the last that says so (memory.rs: "nested wins").                       *)
NestedWins(lines) ==
    \A i \in SplitFrontmatter(lines) :
        LET fields == {j \in 2 .. i - 1 : ~lines[j].skip}
            Above(j) == {k \in fields : k < j /\ ~lines[k].indented}
            InBlock(j) == /\ lines[j].indented /\ Above(j) # {}
                          /\ lines[Max(Above(j))].key = "metadata"
                          /\ lines[Max(Above(j))].value = None
            Says(js, key) ==
                LET said == {j \in js : lines[j].key = key}
                IN IF said = {} THEN None ELSE CleanValue(lines[Max(said)].value)
            top == {j \in fields : ~lines[j].indented}
            nested == Says({j \in fields : InBlock(j)}, "type")
            type == IF nested # None THEN nested ELSE Says(top, "type")
        IN IF Says(top, "name") # None /\ type # None
           THEN ExtractMemoryEntry(lines) =
                    {[name |-> Says(top, "name"), description |-> Says(top, "description"),
                      type |-> type, body |-> i + 1]}
           ELSE ExtractMemoryEntry(lines) = {}

--------------------------------------------------------------------------------
(* Session logs.  line.heading is "log", "session" or "other" for a        *)
(* heading of the second level; line.number the number an entry begins     *)
(* with, TooLarge if it is no 64-bit number; line.words what else is on it.*)

TooLarge == -1

HeadingsOf(lines, kinds) == {i \in DOMAIN lines : lines[i].heading \in kinds}

(* The lines of the section, which the next heading ends                   *)
LocateSection(lines) ==
    LET log == HeadingsOf(lines, {"log"})
        next == {i \in HeadingsOf(lines, {"log", "session", "other"}) : i > Min(log)}
    IN IF log = {} THEN {}
       ELSE Min(log) + 1 .. IF next = {} THEN Len(lines) ELSE Min(next) - 1

EndOf(lines, section, i) ==
    LET next == {j \in section : j > i /\ lines[j].number # None}
    IN IF next = {} THEN Max(section) ELSE Min(next) - 1

(* The lines of each entry                                                 *)
SplitEntries(lines) ==
    LET section == LocateSection(lines)
        begins == SetToSortSeq({i \in section : lines[i].number \notin {None, TooLarge}}, <)
    IN [k \in DOMAIN begins |-> begins[k] .. EndOf(lines, section, begins[k])]

(* A file that exists is taken once, in the order they come; numbers of    *)
(* todos in their own; the keywords in theirs                              *)
ParseEntry(lines, body, existing, keywords) ==
    LET words == FoldLeft(LAMBDA ws, i : ws \o lines[i].words, <<>>, SetToSortSeq(body, <))
        first == {i \in DOMAIN words : \A j \in 1 .. i - 1 : words[j] # words[i]}
        files == SetToSortSeq({i \in first : words[i][1] = "file" /\ words[i][2] \in existing}, <)
    IN [number |-> lines[Min(body)].number,
        files |-> [k \in DOMAIN files |-> words[files[k]][2]],
        todos |-> SetToSortSeq({w[2] : w \in {v \in ToSet(words) :
                                   v[1] = "todo" /\ v[2] \in 1 .. 9999}}, <),
        decisions |-> SelectSeq(keywords, LAMBDA k : <<"decision", k>> \in ToSet(words))]

ExtractSessionHistory(lines, existing, keywords) ==
    [k \in DOMAIN SplitEntries(lines) |->
        ParseEntry(lines, SplitEntries(lines)[k], existing, keywords)]

(* Each entry of the log is read once, with its own text and no other's:   *)
(* of a line below an entry the last entry above it tells, if its number   *)
(* is one (extract_session_history).                                       *)
EntriesApart(lines, existing, keywords) ==
    LET entries == ExtractSessionHistory(lines, existing, keywords)
        bodies == SplitEntries(lines)
    IN /\ Len(entries) = Cardinality({i \in LocateSection(lines) :
                                        lines[i].number \notin {None, TooLarge}})
       /\ \A k \in DOMAIN bodies : \A i \in LocateSection(lines) :
              i \in bodies[k] <=>
                  LET above == {j \in LocateSection(lines) : j <= i /\ lines[j].number # None}
                  IN above # {} /\ Max(above) = Min(bodies[k])
       /\ \A k \in DOMAIN entries : entries[k].number = lines[Min(bodies[k])].number
       /\ \A k \in DOMAIN entries :
              ToSet(entries[k].files) =
                  {f \in existing : \E i \in bodies[k] : <<"file", f>> \in ToSet(lines[i].words)}

--------------------------------------------------------------------------------
(* Repositories                                                            *)

(* The repositories a walk of the given depth finds: a .git directory is a *)
(* component more                                                          *)
DiscoverRepos(repos, depth) == {r \in repos : Len(r) + 1 <= depth}

(* By depth; the order of names among equals decides nothing.              *)
Sorted(roots) == SetToSortSeq(roots, LAMBDA a, b : Len(a) < Len(b))

SortAndFilter(roots, mode) ==
    IF mode = "include" THEN roots
    ELSE FoldLeft(LAMBDA kept, r :
                      IF \E k \in kept : IsStrictPrefix(k, r) THEN kept ELSE kept \union {r},
                  {}, Sorted(roots))

(* Without --include-nested no repository is inside another, and each that *)
(* is left out is inside one that is taken (sort_and_filter).              *)
OutermostKept(repos, depth) ==
    LET roots == DiscoverRepos(repos, depth)
        kept == SortAndFilter(roots, "skip")
    IN /\ kept \subseteq roots
       /\ \A a, b \in kept : ~IsStrictPrefix(a, b)
       /\ \A r \in roots \ kept : \E k \in kept : IsStrictPrefix(k, r)
       /\ SortAndFilter(roots, "include") = roots
================================================================================
