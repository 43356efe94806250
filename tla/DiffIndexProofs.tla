---------------------------- MODULE DiffIndexProofs ----------------------------
(***************************************************************************)
(* Proofs about DiffIndex, for any histories and any number of runs, one   *)
(* after the other, that fail or are killed at any point; and, at the end, *)
(* about Provenance, for any matches.                                      *)
(*                                                                         *)
(* TrueInv      a full-text row has the row of its id, with its text       *)
(* MapInv       what the parser holds is what the lines before it say, and *)
(*              what is stored is the blocks that have ended               *)
(***************************************************************************)
EXTENDS DiffIndex, Provenance, FiniteSetTheorems, SequenceTheorems, WellFoundedInduction, TLAPS

(* No two runs overlap.                                                    *)
InTurn == ~Overlap

RunFields == {"pc", "repo", "log", "i", "commit", "file", "line", "block", "cache", "unknown", "id"}

(* A run is the only one under way.  Ids are given out without a gap.  A   *)
(* full-text row has the row of its id, with its text: from the moment the *)
(* row is inserted, and while the two tables are wiped, the index first.   *)
TrueInv ==
    /\ \A p \in Process : DOMAIN run[p] = RunFields
    /\ DOMAIN run = Process
    /\ \A p, q \in Process : run[p].pc # "off" /\ run[q].pc # "off" => p = q
    /\ \E n \in Nat : DOMAIN rows = 1 .. n
    /\ \A p \in Process :
          /\ run[p].pc = "wipe_rows" => fts = {}
          /\ run[p].pc = "index" =>
                run[p].id \in DOMAIN rows /\ rows[run[p].id].body = run[p].block.body
    /\ \A g \in fts : g.ref \in DOMAIN rows /\ g.body = rows[g.ref].body

--------------------------------------------------------------------------------
LEMMA OffState == DOMAIN Off = RunFields /\ Off.pc = "off"
  BY DEF Off, RunFields

LEMMA TrueInit == Init => TrueInv
<1> SUFFICES ASSUME Init PROVE TrueInv
  OBVIOUS
<1>1. DOMAIN rows = 1 .. 0
  BY DEF Init
<1>2. QED
  BY <1>1, OffState DEF Init, TrueInv

(* The next id is one nobody has.                                          *)
LEMMA NextIdIsNew ==
    ASSUME NEW n \in Nat, DOMAIN rows = 1 .. n
    PROVE  NextId = n + 1
<1> DEFINE S == {0} \union 1 .. n
<1>1. n \in S /\ \A x \in S : x \in Nat /\ n >= x
  OBVIOUS
<1>2. \A x \in S : (\A y \in S : x >= y) => x = n
  BY <1>1
<1>3. Max(S) = n
  BY <1>1, <1>2, Zenon DEF Max
<1>4. QED
  BY <1>3 DEF NextId

(* A step of a run that leaves the tables                                  *)
LEMMA QuietStep ==
    ASSUME TrueInv, NEW p \in Process, NEW s,
           UNCHANGED <<rows, fts>>, run' = [run EXCEPT ![p] = s],
           DOMAIN s = RunFields, s.pc # "off" => run[p].pc # "off",
           s.pc \notin {"wipe_rows", "index"}
    PROVE  TrueInv'
<1>1. DOMAIN run' = Process /\ run'[p] = s /\ \A q \in Process \ {p} : run'[q] = run[q]
  BY DEF TrueInv
<1>2. QED
  BY <1>1 DEF TrueInv

LEMMA TrueStep == ASSUME InTurn PROVE TrueInv /\ [Next]_vars => TrueInv'
<1> SUFFICES ASSUME TrueInv, [Next]_vars PROVE TrueInv'
  OBVIOUS
<1>1. ASSUME NEW p \in Process, NEW r \in Repo, Start(p, r) PROVE TrueInv'
  <2> DEFINE s == [Off EXCEPT !.pc = "wipe", !.repo = r]
  <2>1. DOMAIN s = RunFields /\ s.pc = "wipe"
    BY DEF Off, RunFields
  <2>2. /\ \A q \in Process : run[q].pc = "off"
        /\ UNCHANGED <<rows, fts>> /\ run' = [run EXCEPT ![p] = s]
    BY <1>1 DEF Start, InTurn, Database
  <2>3. DOMAIN run' = Process /\ run'[p] = s /\ \A q \in Process \ {p} : run'[q] = run[q]
    BY <2>2 DEF TrueInv
  <2> HIDE DEF s
  <2>4. QED
    BY <2>1, <2>2, <2>3 DEF TrueInv
<1>2. ASSUME NEW p \in Process, WipeIndex(p) PROVE TrueInv'
  <2>1. /\ DOMAIN run' = Process /\ DOMAIN run'[p] = RunFields /\ run'[p].pc = "wipe_rows"
        /\ \A q \in Process \ {p} : run'[q] = run[q]
    BY <1>2 DEF WipeIndex, TrueInv, RunFields
  <2>2. fts' = {} /\ UNCHANGED rows /\ run[p].pc = "wipe"
    BY <1>2 DEF WipeIndex, NoneLeft
  <2>3. QED
    BY <2>1, <2>2 DEF TrueInv
<1>3. ASSUME NEW p \in Process, WipeRows(p) PROVE TrueInv'
  <2>1. /\ DOMAIN run' = Process /\ DOMAIN run'[p] = RunFields /\ run'[p].pc = "log"
        /\ \A q \in Process \ {p} : run'[q] = run[q]
    BY <1>3 DEF WipeRows, TrueInv, RunFields
  <2>2. fts = {} /\ UNCHANGED fts /\ DOMAIN rows' = 1 .. 0 /\ run[p].pc = "wipe_rows"
    BY <1>3 DEF WipeRows, TrueInv
  <2>3. \A q \in Process \ {p} : run[q].pc = "off"
    BY <2>2 DEF TrueInv
  <2>4. QED
    BY <2>1, <2>2, <2>3 DEF TrueInv
<1>4. ASSUME NEW p \in Process, ReadLog(p) PROVE TrueInv'
  <2> DEFINE s == [run[p] EXCEPT !.log = Log(run[p].repo, landed[run[p].repo]), !.pc = "read"]
  <2>1. run' = [run EXCEPT ![p] = s] /\ UNCHANGED <<rows, fts>>
    BY <1>4 DEF ReadLog, TrueInv, Database
  <2>2. DOMAIN s = RunFields /\ s.pc = "read" /\ run[p].pc = "log"
    BY <1>4 DEF ReadLog, TrueInv, RunFields
  <2> HIDE DEF s
  <2>3. QED
    BY <2>1, <2>2, QuietStep
<1>5. ASSUME NEW p \in Process, ReadLine(p) PROVE TrueInv'
  <2> DEFINE after == After(run[p], run[p].log[run[p].i])
             s == [after EXCEPT !.i = @ + 1]
  <2>1. run' = [run EXCEPT ![p] = s] /\ UNCHANGED <<rows, fts>> /\ run[p].pc = "read"
    BY <1>5 DEF ReadLine, Database
  <2>2. DOMAIN after = RunFields /\ after.pc = run[p].pc
    BY DEF After, TrueInv, RunFields
  <2>3. DOMAIN s = RunFields /\ s.pc = run[p].pc
    BY <2>2 DEF RunFields
  <2> HIDE DEF s, after
  <2>4. QED
    BY <2>1, <2>3, QuietStep
<1>6. ASSUME NEW p \in Process, DropBlock(p) PROVE TrueInv'
  <2> DEFINE s == [run[p] EXCEPT !.block = NoBlock]
  <2>1. run' = [run EXCEPT ![p] = s] /\ UNCHANGED <<rows, fts>> /\ run[p].pc = "read"
    BY <1>6 DEF DropBlock, Flushing, Database
  <2>2. DOMAIN s = RunFields /\ s.pc = "read"
    BY <2>1 DEF TrueInv, RunFields
  <2> HIDE DEF s
  <2>3. QED
    BY <2>1, <2>2, QuietStep
<1>7. ASSUME NEW p \in Process, InsertRow(p) PROVE TrueInv'
  <2> DEFINE row == [repo |-> run[p].repo, commit |-> run[p].commit, bound |-> IsKnown(run[p]),
                     file |-> run[p].block.file, start |-> run[p].block.start,
                     body |-> run[p].block.body]
  <2>1. PICK n \in Nat : DOMAIN rows = 1 .. n
    BY DEF TrueInv
  <2>2. NextId = n + 1 /\ NextId \notin DOMAIN rows
    BY <2>1, NextIdIsNew
  <2>3. rows' = [i \in DOMAIN rows \union {NextId} |-> IF i = NextId THEN row ELSE rows[i]]
        /\ UNCHANGED fts /\ run[p].pc = "read"
    BY <1>7 DEF InsertRow, Flushing
  <2>4. /\ DOMAIN rows' = 1 .. n + 1 /\ rows'[n + 1] = row
        /\ \A i \in DOMAIN rows : i \in DOMAIN rows' /\ rows'[i] = rows[i]
    BY <2>1, <2>2, <2>3
  <2>5. /\ DOMAIN run' = Process /\ DOMAIN run'[p] = RunFields
        /\ run'[p].pc = "index" /\ run'[p].id = n + 1 /\ run'[p].block = run[p].block
        /\ \A q \in Process \ {p} : run'[q] = run[q]
    BY <1>7, <2>2 DEF InsertRow, TrueInv, RunFields
  <2>6. \A q \in Process \ {p} : run[q].pc = "off"
    BY <2>3 DEF TrueInv
  <2>7. row.body = run[p].block.body
    OBVIOUS
  <2> HIDE DEF row
  <2>8. n + 1 \in Nat /\ n + 1 \in DOMAIN rows'
    BY <2>4
  <2>9. \A q \in Process :
           /\ DOMAIN run'[q] = RunFields
           /\ run'[q].pc # "off" => q = p
           /\ run'[q].pc # "wipe_rows"
           /\ run'[q].pc = "index" => q = p
    BY <2>5, <2>6 DEF TrueInv
  <2>10. run'[p].id \in DOMAIN rows' /\ rows'[run'[p].id].body = run'[p].block.body
    BY <2>4, <2>5, <2>7, <2>8
  <2>11. \A g \in fts' : g.ref \in DOMAIN rows' /\ g.body = rows'[g.ref].body
    BY <2>3, <2>4 DEF TrueInv
  <2>12. \E m \in Nat : DOMAIN rows' = 1 .. m
    BY <2>4, <2>8
  <2>13. QED
    BY <2>5, <2>9, <2>10, <2>11, <2>12 DEF TrueInv
<1>8. ASSUME NEW p \in Process, InsertIndex(p) PROVE TrueInv'
  <2>1. /\ DOMAIN run' = Process /\ DOMAIN run'[p] = RunFields /\ run'[p].pc = "read"
        /\ \A q \in Process \ {p} : run'[q] = run[q]
    BY <1>8 DEF InsertIndex, TrueInv, RunFields
  <2>2. /\ UNCHANGED rows /\ run[p].pc = "index"
        /\ fts' = fts \union {[ref |-> run[p].id, body |-> run[p].block.body]}
    BY <1>8 DEF InsertIndex
  <2>3. \A q \in Process \ {p} : run[q].pc = "off"
    BY <2>2 DEF TrueInv
  <2>4. QED
    BY <2>1, <2>2, <2>3 DEF TrueInv
<1>9. ASSUME NEW p \in Process, Finish(p) PROVE TrueInv'
  <2> DEFINE s == [run[p] EXCEPT !.pc = "done"]
  <2>1. run' = [run EXCEPT ![p] = s] /\ UNCHANGED <<rows, fts>> /\ run[p].pc = "read"
    BY <1>9 DEF Finish, Database
  <2>2. DOMAIN s = RunFields /\ s.pc = "done"
    BY DEF TrueInv, RunFields
  <2> HIDE DEF s
  <2>3. QED
    BY <2>1, <2>2, QuietStep
<1>10. ASSUME NEW p \in Process, Return(p) \/ Stop(p) PROVE TrueInv'
  <2>1. run' = [run EXCEPT ![p] = Off] /\ UNCHANGED <<rows, fts>>
    BY <1>10 DEF Return, Stop, Database
  <2>2. QED
    BY <2>1, OffState, QuietStep
<1>11. ASSUME NEW r \in Repo, Commit(r) \/ IndexCommits(r) PROVE TrueInv'
  BY <1>11 DEF Commit, IndexCommits, Database, TrueInv
<1>12. CASE UNCHANGED vars
  BY <1>12 DEF vars, TrueInv
<1>13. QED
  BY <1>1, <1>2, <1>3, <1>4, <1>5, <1>6, <1>7, <1>8, <1>9, <1>10, <1>11, <1>12 DEF Next

(* A search of the change map is never answered with a block that does not *)
(* hold the text (trace_code, resolve_provenance): though ids start anew   *)
(* after each wipe, no full-text row of an earlier run, whatever it died   *)
(* of, meets a row of a later one.                                         *)
THEOREM HitsNeverMislead ==
    ASSUME InTurn PROVE Spec => []HitsHold
<1>1. Init => TrueInv
  BY TrueInit
<1>2. TrueInv /\ [Next]_vars => TrueInv'
  BY TrueStep
<1>3. TrueInv => HitsHold
  BY DEF TrueInv, HitsHold, Hits
<1>4. QED
  BY <1>1, <1>2, <1>3, PTL DEF Spec
--------------------------------------------------------------------------------
(* Why a finished run's rows are its log's blocks                          *)

AddsIn(log, h, i) == {j \in h .. i - 1 : log[j].k = "add"}

(* What `git log -p` prints: an added line is in a hunk, of a file, of a   *)
(* commit, each with its header before it; and none begins with "++ ",     *)
(* which the parser takes for a header of a file.                          *)
Regular(log) ==
    /\ DOMAIN log = 1 .. Len(log) /\ Len(log) \in Nat
    /\ \A i \in 1 .. Len(log) :
          /\ log[i].k = "hunk" => log[i].at \in Nat
          /\ log[i].k = "add" =>
                /\ log[i].text # "++ "
                /\ 0 < LastBefore(log, i, "commit")
                /\ LastBefore(log, i, "commit") < LastBefore(log, i, "file")
                /\ 0 < LastBefore(log, i, "hunk")

WellFormed == \A r \in Repo : Len(Diff[r]) \in Nat /\ \A n \in 0 .. Len(Diff[r]) : Regular(Log(r, n))

(* The block a run has in hand, with its commit                            *)
InHand(s) == [commit |-> s.commit, file |-> s.block.file,
              start |-> s.block.start, body |-> s.block.body]

(* The added lines from a on, up to the line to be read, are the block.    *)
HoldsFrom(s, a) ==
    /\ a = 1 \/ s.log[a - 1].k # "add"
    /\ \A j \in a .. s.i - 1 : s.log[j].k = "add"
    /\ InHand(s) = BlockOf(s.log, <<a, s.i - 1>>)

(* The parser's registers are what the lines before s.i say.  A block in   *)
(* hand is the added lines that end at the last line read; without one,    *)
(* a line between two added lines is of no file.                           *)
Headed(s) ==
    LET c == LastBefore(s.log, s.i, "commit")
        f == LastBefore(s.log, s.i, "file")
        h == LastBefore(s.log, s.i, "hunk")
    IN /\ c > 0 => s.commit = s.log[c].commit
       /\ c < f => s.file = s.log[f].file
       /\ h > 0 => s.line = s.log[h].at + Cardinality(AddsIn(s.log, h, s.i))

Between(s) == s.i > 1 /\ ~AtEnd(s) /\ s.log[s.i - 1].k = "add" /\ s.log[s.i].k = "add"

Parsed(s) ==
    /\ Regular(s.log) /\ s.i \in 1 .. Len(s.log) + 1 /\ s.line \in Nat
    /\ Headed(s)
    /\ s.block = NoBlock /\ Between(s) => s.file = NoFile
    /\ s.block # NoBlock =>
          /\ s.file # NoFile /\ s.block.file = s.file
          /\ \E a \in 1 .. s.i - 1 : HoldsFrom(s, a)
    /\ s.pc = "index" => s.block # NoBlock /\ ~Joins(s)
    /\ s.pc = "done" => s.block = NoBlock /\ AtEnd(s)

(* The runs that yield a block, and end before m                           *)
BodyOf(log, ab) == [i \in 1 .. ab[2] - ab[1] + 1 |-> log[ab[1] + i - 1].text]

Yields(log, ab) ==
    log[LastBefore(log, ab[1], "file")].file # NoFile /\ Kept(BodyOf(log, ab))

EndedBefore(log, m) == {ab \in RunsOf(log) : Yields(log, ab) /\ ab[2] < m}

(* The runs that are stored: one that is in hand is not, until its row is. *)
Frontier(s) == IF s.pc = "read" /\ s.block # NoBlock THEN s.i - 1 ELSE s.i

Plain(row) == [commit |-> row.commit, file |-> row.file, start |-> row.start, body |-> row.body]

Filed(s, table, index) ==
    /\ {Plain(table[n]) : n \in DOMAIN table} =
          {BlockOf(s.log, ab) : ab \in EndedBefore(s.log, Frontier(s))}
    /\ \A n \in DOMAIN table :
          (s.pc = "index" /\ n = s.id) \/ [ref |-> n, body |-> table[n].body] \in index
    /\ s.cache \intersect s.unknown = {}
    /\ \A n \in DOMAIN table :
          /\ table[n].commit \in s.cache \union s.unknown
          /\ table[n].bound \in BOOLEAN /\ (table[n].bound <=> table[n].commit \in s.cache)

(* What the command has set of a run that has not read its log yet         *)
Unread(s) == s.i = 1 /\ s.line = 0 /\ s.block = NoBlock /\ s.cache = {} /\ s.unknown = {}

RunOK(s, table, index) ==
    /\ s.pc # "off" => s.repo \in Repo
    /\ s.pc \in {"wipe", "wipe_rows", "log"} => Unread(s)
    /\ s.pc = "log" => DOMAIN table = {}
    /\ s.pc \in {"read", "index", "done"} => Parsed(s) /\ Filed(s, table, index)

MapInv ==
    /\ DOMAIN landed = Repo /\ \A r \in Repo : landed[r] \in 0 .. Len(Diff[r])
    /\ \A p \in Process : RunOK(run[p], rows, fts)

--------------------------------------------------------------------------------
(* The last line of a kind                                                 *)

LEMMA MaxOfFinite ==
    ASSUME NEW S \in SUBSET Nat, IsFiniteSet(S), S # {}
    PROVE  Max(S) \in S /\ \A x \in S : Max(S) >= x
<1> DEFINE Top(T) == \E m \in T : \A x \in T : m >= x
           Topless == {T \in SUBSET S : T # {} /\ ~Top(T)}
<1>1. Topless = {}
  <2> SUFFICES ASSUME Topless # {} PROVE FALSE
    OBVIOUS
  <2>1. FiniteSubsetsOf(S) = SUBSET S
    BY FS_FiniteSubsetsOfFinite
  <2>2. PICK T \in Topless : \A U \in Topless : <<U, T>> \notin StrictSubsetOrdering(S)
    <3>1. IsWellFoundedOn(StrictSubsetOrdering(S), FiniteSubsetsOf(S))
      BY FS_StrictSubsetOrderingWellFounded
    <3>2. Topless \subseteq FiniteSubsetsOf(S)
      BY <2>1
    <3> HIDE DEF Topless
    <3>3. QED
      BY <3>1, <3>2, WFMin
  <2>3. PICK y \in T : TRUE
    OBVIOUS
  <2> DEFINE U == T \ {y}
  <2>4. <<U, T>> \in StrictSubsetOrdering(S)
    BY <2>3 DEF StrictSubsetOrdering
  <2>5. U \notin Topless
    BY <2>2, <2>4
  <2>6. CASE U = {}
    BY <2>3, <2>6
  <2>7. CASE Top(U)
    <3>1. PICK m \in U : \A x \in U : m >= x
      BY <2>7
    <3>2. Top(T)
      BY <2>3, <3>1
    <3>3. QED
      BY <3>2
  <2>8. QED
    BY <2>5, <2>6, <2>7
<1>2. Top(S)
  BY <1>1
<1>3. QED
  BY <1>2, Zenon DEF Max

LEMMA LastIs ==
    ASSUME NEW log, NEW i \in Nat, NEW k
    PROVE  /\ LastBefore(log, i, k) \in Nat
           /\ LastBefore(log, i, k) # 0 =>
                 LastBefore(log, i, k) \in 1 .. i - 1 /\ log[LastBefore(log, i, k)].k = k
           /\ \A j \in 1 .. i - 1 : log[j].k = k => LastBefore(log, i, k) >= j
<1> DEFINE S == {0} \union {j \in 1 .. i - 1 : log[j].k = k}
<1>1. S \in SUBSET (0 .. i) /\ S \in SUBSET Nat /\ S # {}
  OBVIOUS
<1>2. IsFiniteSet(S)
  <2>1. IsFiniteSet(0 .. i)
    BY FS_Interval
  <2> HIDE DEF S
  <2>2. QED
    BY <1>1, <2>1, FS_Subset
<1>3. LastBefore(log, i, k) = Max(S)
  BY DEF LastBefore
<1>4. Max(S) \in S /\ \A x \in S : Max(S) >= x
  <2> HIDE DEF S
  <2>1. QED
    BY <1>1, <1>2, MaxOfFinite
<1>5. PICK m \in S : m = Max(S) /\ \A x \in S : m >= x
  BY <1>4
<1>6. LastBefore(log, i, k) = m
  BY <1>3, <1>5
<1>7. m \in Nat /\ (m = 0 \/ (m \in 1 .. i - 1 /\ log[m].k = k))
  OBVIOUS
<1>8. \A j \in 1 .. i - 1 : log[j].k = k => j \in S
  OBVIOUS
<1> HIDE DEF S
<1>9. \A j \in 1 .. i - 1 : log[j].k = k => m >= j
  BY <1>5, <1>8
<1>10. QED
  BY <1>6, <1>7, <1>9

(* A line is the last of its kind for those after it.                      *)
LEMMA LastStep ==
    ASSUME NEW log, NEW i \in Nat \ {0}, NEW k
    PROVE  LastBefore(log, i + 1, k) = IF log[i].k = k THEN i ELSE LastBefore(log, i, k)
<1>1. CASE log[i].k = k
  BY <1>1, LastIs, i + 1 \in Nat
<1>2. CASE log[i].k # k
  <2>1. {j \in 1 .. (i + 1) - 1 : log[j].k = k} = {j \in 1 .. i - 1 : log[j].k = k}
    BY <1>2
  <2>2. QED
    BY <1>2, <2>1 DEF LastBefore
<1>3. QED
  BY <1>1, <1>2

(* Added lines leave the headers as they are.                              *)
LEMMA LastSame ==
    ASSUME NEW log, NEW a \in Nat \ {0}, NEW i \in Nat, a <= i,
           \A j \in a .. i - 1 : log[j].k = "add", NEW k, k # "add"
    PROVE  LastBefore(log, i, k) = LastBefore(log, a, k)
<1>1. {j \in 1 .. i - 1 : log[j].k = k} = {j \in 1 .. a - 1 : log[j].k = k}
  OBVIOUS
<1>2. QED
  BY <1>1 DEF LastBefore

LEMMA AddsStep ==
    ASSUME NEW log, NEW h \in Nat, NEW i \in Nat, h <= i
    PROVE  /\ Cardinality(AddsIn(log, h, i)) \in Nat
           /\ Cardinality(AddsIn(log, h, i + 1)) =
                 Cardinality(AddsIn(log, h, i)) + IF log[i].k = "add" THEN 1 ELSE 0
           /\ log[i].k # "add" => Cardinality(AddsIn(log, i, i + 1)) = 0
<1>1. AddsIn(log, h, i) \in SUBSET (h .. i) /\ i \notin AddsIn(log, h, i)
  BY DEF AddsIn
<1>2. IsFiniteSet(AddsIn(log, h, i))
  BY <1>1, FS_Interval, FS_Subset
<1>3. Cardinality(AddsIn(log, h, i)) \in Nat
  BY <1>2, FS_CardinalityType
<1>4. CASE log[i].k = "add"
  <2>1. AddsIn(log, h, i + 1) = AddsIn(log, h, i) \union {i}
    BY <1>4 DEF AddsIn
  <2>2. Cardinality(AddsIn(log, h, i) \union {i}) = Cardinality(AddsIn(log, h, i)) + 1
    BY <1>1, <1>2, FS_AddElement
  <2>3. QED
    BY <1>3, <1>4, <2>1, <2>2
<1>5. CASE log[i].k # "add"
  <2>1. AddsIn(log, h, i + 1) = AddsIn(log, h, i) /\ AddsIn(log, i, i + 1) = {}
    BY <1>5 DEF AddsIn
  <2>2. QED
    BY <1>3, <1>5, <2>1, FS_EmptySet
<1>6. QED
  BY <1>4, <1>5

--------------------------------------------------------------------------------
(* One line read                                                           *)

AfterLine(s) == [After(s, s.log[s.i]) EXCEPT !.i = @ + 1]

LEMMA ReadDoes ==
    ASSUME NEW s, DOMAIN s = RunFields, Regular(s.log), s.i \in 1 .. Len(s.log)
    PROVE  LET line == s.log[s.i]
               n == AfterLine(s)
           IN  /\ DOMAIN n = RunFields /\ n.pc = s.pc /\ n.repo = s.repo /\ n.log = s.log
               /\ n.cache = s.cache /\ n.unknown = s.unknown /\ n.i = s.i + 1
               /\ n.commit = IF line.k = "commit" THEN line.commit ELSE s.commit
               /\ n.file = IF line.k = "commit" THEN NoFile
                           ELSE IF line.k = "file" THEN line.file ELSE s.file
               /\ n.line = IF line.k = "hunk" THEN line.at
                           ELSE IF line.k = "add" THEN s.line + 1 ELSE s.line
               /\ n.block = IF line.k = "add" /\ s.file # NoFile
                            THEN [file  |-> s.file,
                                  start |-> IF s.block = NoBlock THEN s.line ELSE s.block.start,
                                  body  |-> Append(s.block.body, line.text)]
                            ELSE s.block
<1> DEFINE line == s.log[s.i]
<1>1. Taken(line) = line.k
  BY DEF Taken, Regular
<1>2. CASE line.k = "commit"
  BY <1>1, <1>2 DEF After, AfterLine, RunFields
<1>3. CASE line.k = "file"
  BY <1>1, <1>3 DEF After, AfterLine, RunFields
<1>4. CASE line.k = "hunk"
  BY <1>1, <1>4 DEF After, AfterLine, RunFields
<1>5. CASE line.k = "add"
  <2> DEFINE grown == [file  |-> s.file,
                       start |-> IF s.block = NoBlock THEN s.line ELSE s.block.start,
                       body  |-> Append(s.block.body, line.text)]
             b == IF s.file = NoFile THEN s.block ELSE grown
  <2>1. After(s, line) = [s EXCEPT !.line = s.line + 1, !.block = b]
    BY <1>1, <1>5 DEF After
  <2> HIDE DEF b
  <2>2. AfterLine(s) = [s EXCEPT !.line = s.line + 1, !.block = b, !.i = s.i + 1]
    BY <2>1 DEF AfterLine, RunFields
  <2>3. QED
    BY <1>5, <2>2 DEF RunFields, b
<1>6. CASE line.k \notin {"commit", "file", "hunk", "add"}
  BY <1>1, <1>6 DEF After, AfterLine, RunFields
<1>7. QED
  BY <1>2, <1>3, <1>4, <1>5, <1>6

LEMMA HeadedStep ==
    ASSUME NEW s, DOMAIN s = RunFields, Regular(s.log), s.i \in 1 .. Len(s.log),
           Headed(s), s.line \in Nat
    PROVE  Headed(AfterLine(s)) /\ AfterLine(s).line \in Nat
<1> DEFINE log == s.log
           i == s.i
           line == log[i]
           n == AfterLine(s)
<1>1. i \in Nat \ {0} /\ Len(log) \in Nat /\ i \in 1 .. Len(log)
  <2>1. Len(s.log) \in Nat
    BY DEF Regular
  <2>2. QED
    BY <2>1
<1>2. /\ n.log = log /\ n.i = i + 1
      /\ n.commit = IF line.k = "commit" THEN line.commit ELSE s.commit
      /\ n.file = IF line.k = "commit" THEN NoFile ELSE IF line.k = "file" THEN line.file ELSE s.file
      /\ n.line = IF line.k = "hunk" THEN line.at ELSE IF line.k = "add" THEN s.line + 1 ELSE s.line
  BY ReadDoes
<1>3. line.k = "hunk" => line.at \in Nat
  BY DEF Regular
<1> HIDE DEF n
<1>4. n.line \in Nat
  BY <1>2, <1>3
<1>5. \A k : LastBefore(log, i + 1, k) = IF line.k = k THEN i ELSE LastBefore(log, i, k)
  BY <1>1, LastStep
<1>6. ASSUME NEW k PROVE LastBefore(log, i, k) \in 0 .. i - 1
  <2>1. /\ i \in Nat \ {0} /\ LastBefore(log, i, k) \in Nat
        /\ LastBefore(log, i, k) # 0 => LastBefore(log, i, k) \in 1 .. i - 1
    BY <1>1, LastIs
  <2>2. QED
    BY <2>1
<1> DEFINE c == LastBefore(log, i, "commit")
           f == LastBefore(log, i, "file")
           h == LastBefore(log, i, "hunk")
           hh == LastBefore(log, i + 1, "hunk")
<1>7. LastBefore(log, i + 1, "commit") > 0 => n.commit = log[LastBefore(log, i + 1, "commit")].commit
  BY <1>2, <1>5 DEF Headed
<1>8. LastBefore(log, i + 1, "commit") < LastBefore(log, i + 1, "file")
         => n.file = log[LastBefore(log, i + 1, "file")].file
  <2>1. CASE line.k = "commit"
    BY <2>1, <1>1, <1>5, <1>6
  <2>2. CASE line.k = "file"
    BY <2>2, <1>2, <1>5
  <2>3. CASE line.k \notin {"commit", "file"}
    BY <2>3, <1>2, <1>5 DEF Headed
  <2>4. QED
    BY <2>1, <2>2, <2>3
<1>9. ASSUME hh > 0 PROVE n.line = log[hh].at + Cardinality(AddsIn(log, hh, i + 1))
  <2>1. CASE line.k = "hunk"
    <3>1. hh = i
      BY <2>1, <1>5
    <3>2. Cardinality(AddsIn(log, i, i + 1)) = 0
      <4>1. i \in Nat /\ i <= i /\ log[i].k # "add"
        BY <2>1, <1>1
      <4>2. QED
        BY <4>1, AddsStep
    <3>3. n.line = log[i].at /\ log[i].at \in Nat
      BY <2>1, <1>2, <1>3
    <3>4. QED
      BY <3>1, <3>2, <3>3
  <2>2. CASE line.k # "hunk"
    <3>1. hh = h /\ h > 0 /\ h \in Nat /\ h <= i
      BY <2>2, <1>1, <1>5, <1>6, <1>9
    <3>2. s.line = log[h].at + Cardinality(AddsIn(log, h, i))
      BY <3>1 DEF Headed
    <3>3. /\ Cardinality(AddsIn(log, h, i)) \in Nat
          /\ Cardinality(AddsIn(log, h, i + 1)) =
                Cardinality(AddsIn(log, h, i)) + IF line.k = "add" THEN 1 ELSE 0
      BY <3>1, <1>1, AddsStep
    <3>4. log[h].at \in Nat
      <4>1. log[h].k = "hunk" /\ h \in 1 .. Len(log)
        BY <1>1, <3>1, LastIs
      <4>2. QED
        BY <4>1 DEF Regular
    <3>5. n.line = IF line.k = "add" THEN s.line + 1 ELSE s.line
      BY <2>2, <1>2
    <3> DEFINE x == Cardinality(AddsIn(log, h, i))
               y == Cardinality(AddsIn(log, h, i + 1))
               at == log[h].at
    <3>6. n.line = at + y
      <4>1. x \in Nat /\ y = x + (IF line.k = "add" THEN 1 ELSE 0) /\ at \in Nat /\ s.line = at + x
        BY <3>2, <3>3, <3>4
      <4> HIDE DEF x, y, at
      <4>2. QED
        BY <4>1, <3>5
    <3>7. QED
      BY <3>1, <3>6
  <2>3. QED
    BY <2>1, <2>2
<1>10. Headed(n)
  <2> HIDE DEF log, i, hh
  <2>1. n.log = log /\ n.i = i + 1
    BY <1>2
  <2>2. hh > 0 => n.line = log[hh].at + Cardinality(AddsIn(log, hh, i + 1))
    BY <1>9
  <2>3. QED
    BY <2>1, <2>2, <1>7, <1>8 DEF Headed, hh
<1>11. QED
  BY <1>4, <1>10 DEF n

--------------------------------------------------------------------------------
(* Blocks                                                                  *)

LEMMA BlockIs ==
    ASSUME NEW log, NEW a, NEW b
    PROVE  LET h == LastBefore(log, a, "hunk") IN
           BlockOf(log, <<a, b>>) =
               [commit |-> log[LastBefore(log, a, "commit")].commit,
                file   |-> log[LastBefore(log, a, "file")].file,
                start  |-> log[h].at + Cardinality(AddsIn(log, h, a)),
                body   |-> BodyOf(log, <<a, b>>)]
  BY DEF BlockOf, AddsIn, BodyOf

LEMMA BodyGrows ==
    ASSUME NEW log, NEW a \in Nat \ {0}, NEW i \in Nat, a <= i
    PROVE  /\ Append(BodyOf(log, <<a, i - 1>>), log[i].text) = BodyOf(log, <<a, i>>)
           /\ BodyOf(log, <<a, i>>) # <<>>
           /\ Append(<<>>, log[i].text) = BodyOf(log, <<i, i>>)
<1> DEFINE T == {log[j].text : j \in 1 .. i}
           x == BodyOf(log, <<a, i - 1>>)
           y == BodyOf(log, <<a, i>>)
           z == BodyOf(log, <<i, i>>)
           t == log[i].text
<1>1. /\ x = [j \in 1 .. i - a |-> log[a + j - 1].text]
      /\ y = [j \in 1 .. i - a + 1 |-> log[a + j - 1].text]
      /\ z = [j \in 1 .. 1 |-> log[i + j - 1].text]
  <2>1. i - 1 - a + 1 = i - a /\ i - i + 1 = 1
    OBVIOUS
  <2>2. QED
    BY <2>1 DEF BodyOf
<1>2. /\ \A j \in 1 .. i - a + 1 : a + j - 1 \in 1 .. i
      /\ \A j \in 1 .. i - a : a + j - 1 \in 1 .. i
      /\ \A j \in 1 .. 1 : i + j - 1 = i
      /\ i - a \in Nat /\ i - a + 1 \in Nat
  OBVIOUS
<1>3. x \in [1 .. i - a -> T] /\ y \in [1 .. i - a + 1 -> T] /\ z \in [1 .. 1 -> T] /\ t \in T
  <2> DEFINE text(j) == log[j].text
  <2>1. \A j \in 1 .. i : text(j) \in T
    OBVIOUS
  <2> HIDE DEF x, y, z, T
  <2>2. /\ \A j \in 1 .. i - a : text(a + j - 1) \in T
        /\ \A j \in 1 .. i - a + 1 : text(a + j - 1) \in T
        /\ \A j \in 1 .. 1 : text(i + j - 1) \in T
        /\ text(i) \in T
    <3>1. i \in 1 .. i
      OBVIOUS
    <3>2. QED
      BY <1>2, <2>1, <3>1
  <2>3. x \in [1 .. i - a -> T]
    BY <1>1, <2>2
  <2>4. y \in [1 .. i - a + 1 -> T]
    BY <1>1, <2>2
  <2>5. z \in [1 .. 1 -> T]
    BY <1>1, <2>2
  <2>6. QED
    BY <2>2, <2>3, <2>4, <2>5
<1>4. x \in Seq(T) /\ y \in Seq(T) /\ z \in Seq(T) /\ <<>> \in Seq(T)
  <2> HIDE DEF x, y, z, T
  <2>1. \A m \in Nat : \A w : w \in [1 .. m -> T] => w \in Seq(T)
    BY SeqDef
  <2>2. QED
    BY <1>2, <1>3, <2>1, EmptySeq
<1>5. Len(x) = i - a /\ Len(y) = i - a + 1 /\ Len(z) = 1
  <2>1. DOMAIN x = 1 .. i - a /\ DOMAIN y = 1 .. i - a + 1 /\ DOMAIN z = 1 .. 1
    BY <1>3
  <2> HIDE DEF x, y, z, T
  <2>2. QED
    BY <1>2, <1>4, <2>1, LenProperties
<1>6. /\ \A j \in 1 .. i - a : x[j] = y[j]
      /\ y[i - a + 1] = t /\ z[1] = t
  BY <1>1, <1>2
<1> HIDE DEF x, y, z, T, t
<1>7. /\ Append(x, t) \in Seq(T) /\ Len(Append(x, t)) = Len(x) + 1
      /\ \A j \in 1 .. Len(x) : Append(x, t)[j] = x[j]
      /\ Append(x, t)[Len(x) + 1] = t
      /\ Append(<<>>, t) \in Seq(T) /\ Len(Append(<<>>, t)) = 1 /\ Append(<<>>, t)[1] = t
  BY <1>3, <1>4, AppendProperties
<1>8. Append(x, t) = y
  <2>1. Len(Append(x, t)) = Len(y)
    BY <1>2, <1>5, <1>7
  <2>2. \A j \in 1 .. Len(y) : Append(x, t)[j] = y[j]
    BY <1>2, <1>5, <1>6, <1>7
  <2>3. QED
    BY <1>4, <1>7, <2>1, <2>2, SeqEqual
<1>9. Append(<<>>, t) = z
  BY <1>4, <1>5, <1>6, <1>7, SeqEqual
<1>10. y # <<>>
  BY <1>2, <1>5, EmptySeq
<1>11. QED
  BY <1>8, <1>9, <1>10 DEF x, y, z, t

LEMMA ParsedTypes ==
    ASSUME NEW s, Parsed(s)
    PROVE  /\ Len(s.log) \in Nat /\ s.i \in Nat \ {0} /\ s.i <= Len(s.log) + 1
           /\ AtEnd(s) <=> s.i = Len(s.log) + 1
           /\ ~AtEnd(s) => s.i \in 1 .. Len(s.log) /\ (EndsBlock(s.log[s.i]) <=> s.log[s.i].k # "add")
<1>1. Len(s.log) \in Nat /\ s.i \in 1 .. Len(s.log) + 1
  BY DEF Parsed, Regular
<1>2. \A j \in 1 .. Len(s.log) : Taken(s.log[j]) = s.log[j].k
  BY DEF Parsed, Regular, Taken
<1>3. AtEnd(s) <=> s.i > Len(s.log)
  BY DEF AtEnd
<1>4. s.i \in Nat \ {0} /\ s.i <= Len(s.log) + 1 /\ (AtEnd(s) <=> s.i = Len(s.log) + 1)
  BY <1>1, <1>3
<1>5. ~AtEnd(s) => s.i \in 1 .. Len(s.log)
  BY <1>1, <1>3
<1>6. QED
  BY <1>1, <1>2, <1>4, <1>5 DEF EndsBlock

(* What the block is after a line: none, or the lines from where it begins *)
LEMMA BlockStep ==
    ASSUME NEW s, DOMAIN s = RunFields, Parsed(s), s.pc = "read", ~AtEnd(s), ~Flushing(s)
    PROVE  LET n == AfterLine(s)
               line == s.log[s.i]
           IN  /\ s.block # NoBlock => line.k = "add" /\ s.file # NoFile
               /\ n.block # NoBlock <=> line.k = "add" /\ s.file # NoFile
               /\ n.block # NoBlock =>
                     /\ n.file # NoFile /\ n.block.file = n.file
                     /\ \E a \in 1 .. n.i - 1 : HoldsFrom(n, a)
<1> DEFINE log == s.log
           i == s.i
           line == log[i]
           n == AfterLine(s)
<1>1. /\ Len(log) \in Nat /\ i \in Nat \ {0} /\ i \in 1 .. Len(log)
      /\ EndsBlock(line) <=> line.k # "add"
  BY ParsedTypes
<1>2. Regular(log)
  BY DEF Parsed
<1>3. /\ n.log = log /\ n.i = i + 1
      /\ n.commit = IF line.k = "commit" THEN line.commit ELSE s.commit
      /\ n.file = IF line.k = "commit" THEN NoFile ELSE IF line.k = "file" THEN line.file ELSE s.file
      /\ n.block = IF line.k = "add" /\ s.file # NoFile
                   THEN [file  |-> s.file,
                         start |-> IF s.block = NoBlock THEN s.line ELSE s.block.start,
                         body  |-> Append(s.block.body, line.text)]
                   ELSE s.block
  BY <1>1, <1>2, ReadDoes
<1> HIDE DEF n
<1>4. s.block # NoBlock => line.k = "add" /\ s.file # NoFile
  BY <1>1 DEF Flushing, Joins, Parsed
<1>5. ASSUME line.k = "add", s.file # NoFile
      PROVE  /\ n.block # NoBlock /\ n.file # NoFile /\ n.block.file = n.file
             /\ \E a \in 1 .. i : HoldsFrom(n, a)
  <2>1. /\ n.commit = s.commit /\ n.file = s.file
        /\ n.block = [file  |-> s.file,
                      start |-> IF s.block = NoBlock THEN s.line ELSE s.block.start,
                      body  |-> Append(s.block.body, line.text)]
    BY <1>3, <1>5
  <2>2. InHand(n) = [commit |-> s.commit, file |-> s.file,
                     start |-> IF s.block = NoBlock THEN s.line ELSE s.block.start,
                     body |-> Append(s.block.body, line.text)]
    BY <2>1 DEF InHand
  <2>3. CASE s.block = NoBlock
    <3>1. n.block.body = BodyOf(log, <<i, i>>) /\ BodyOf(log, <<i, i>>) # <<>>
          /\ InHand(n) = [commit |-> s.commit, file |-> s.file, start |-> s.line,
                          body |-> BodyOf(log, <<i, i>>)]
      <4>1. /\ Append(<<>>, line.text) = BodyOf(log, <<i, i>>)
            /\ BodyOf(log, <<i, i>>) # <<>>
        <5>1. i \in Nat \ {0} /\ i \in Nat /\ i <= i
          BY <1>1
        <5>2. QED
          BY <5>1, BodyGrows
      <4>2. s.block.body = <<>>
        BY <2>3 DEF NoBlock
      <4>3. QED
        BY <2>1, <2>2, <2>3, <4>1, <4>2
    <3>2. n.block # NoBlock
      BY <3>1 DEF NoBlock
    <3>3. /\ s.commit = log[LastBefore(log, i, "commit")].commit
          /\ s.file = log[LastBefore(log, i, "file")].file
          /\ s.line = log[LastBefore(log, i, "hunk")].at
                        + Cardinality(AddsIn(log, LastBefore(log, i, "hunk"), i))
      <4>1. /\ 0 < LastBefore(log, i, "commit")
            /\ LastBefore(log, i, "commit") < LastBefore(log, i, "file")
            /\ 0 < LastBefore(log, i, "hunk")
        BY <1>1, <1>2, <1>5 DEF Regular
      <4>2. QED
        BY <4>1 DEF Parsed, Headed
    <3>4. InHand(n) = BlockOf(log, <<i, i>>)
      BY <3>1, <3>3, BlockIs
    <3>5. i = 1 \/ log[i - 1].k # "add"
      BY <1>1, <1>5, <2>3 DEF Parsed, Between
    <3>6. HoldsFrom(n, i)
      <4>1. n.log = log /\ n.i - 1 = i
        BY <1>1, <1>3
      <4>2. \A j \in i .. i : log[j].k = "add"
        BY <1>1, <1>5
      <4> HIDE DEF log, i
      <4>3. QED
        BY <4>1, <4>2, <3>4, <3>5 DEF HoldsFrom
    <3>7. i \in 1 .. i
      BY <1>1
    <3>8. QED
      BY <2>1, <3>2, <3>6, <3>7, <1>5
  <2>4. CASE s.block # NoBlock
    <3>1. PICK a \in 1 .. i - 1 : HoldsFrom(s, a)
      BY <2>4 DEF Parsed
    <3>2. InHand(s) = BlockOf(log, <<a, i - 1>>) /\ s.block.file = s.file
      BY <2>4, <3>1 DEF Parsed, HoldsFrom
    <3>3. /\ s.commit = log[LastBefore(log, a, "commit")].commit
          /\ s.file = log[LastBefore(log, a, "file")].file
          /\ s.block.start = log[LastBefore(log, a, "hunk")].at
                               + Cardinality(AddsIn(log, LastBefore(log, a, "hunk"), a))
          /\ s.block.body = BodyOf(log, <<a, i - 1>>)
      <4>1. BlockOf(log, <<a, i - 1>>) =
               [commit |-> log[LastBefore(log, a, "commit")].commit,
                file   |-> log[LastBefore(log, a, "file")].file,
                start  |-> log[LastBefore(log, a, "hunk")].at
                              + Cardinality(AddsIn(log, LastBefore(log, a, "hunk"), a)),
                body   |-> BodyOf(log, <<a, i - 1>>)]
        BY BlockIs, Zenon
      <4>2. InHand(s) = [commit |-> s.commit, file |-> s.block.file,
                         start |-> s.block.start, body |-> s.block.body]
        BY DEF InHand
      <4> HIDE DEF log, i
      <4>3. QED
        BY <3>2, <4>1, <4>2
    <3>4. /\ Append(BodyOf(log, <<a, i - 1>>), line.text) = BodyOf(log, <<a, i>>)
          /\ BodyOf(log, <<a, i>>) # <<>>
      <4>1. a \in Nat \ {0} /\ i \in Nat /\ a <= i
        BY <1>1
      <4>2. QED
        BY <4>1, BodyGrows
    <3>5. n.block # NoBlock
      BY <2>1, <3>3, <3>4 DEF NoBlock
    <3>6. InHand(n) = BlockOf(log, <<a, i>>)
      <4>1. BlockOf(log, <<a, i>>) =
               [commit |-> log[LastBefore(log, a, "commit")].commit,
                file   |-> log[LastBefore(log, a, "file")].file,
                start  |-> log[LastBefore(log, a, "hunk")].at
                              + Cardinality(AddsIn(log, LastBefore(log, a, "hunk"), a)),
                body   |-> BodyOf(log, <<a, i>>)]
        BY BlockIs, Zenon
      <4> HIDE DEF log, i
      <4>2. QED
        BY <2>2, <2>4, <3>3, <3>4, <4>1
    <3>7. HoldsFrom(n, a)
      <4>1. n.log = log /\ n.i - 1 = i
        BY <1>1, <1>3
      <4>2. \A j \in a .. i : log[j].k = "add"
        <5>1. \A j \in a .. i - 1 : log[j].k = "add"
          BY <3>1 DEF HoldsFrom
        <5>2. \A j \in a .. i : j \in a .. i - 1 \/ j = i
          BY <1>1
        <5>3. QED
          BY <1>5, <5>1, <5>2
      <4>3. a = 1 \/ log[a - 1].k # "add"
        BY <3>1 DEF HoldsFrom
      <4> HIDE DEF log, i
      <4>4. QED
        BY <4>1, <4>2, <4>3, <3>6 DEF HoldsFrom
    <3>8. a \in 1 .. i
      BY <1>1
    <3>9. QED
      BY <2>1, <3>5, <3>7, <3>8, <1>5
  <2>5. QED
    BY <2>3, <2>4
<1>6. ~(line.k = "add" /\ s.file # NoFile) => n.block = NoBlock
  BY <1>3, <1>4
<1>7. n.i - 1 = i
  BY <1>1, <1>3
<1>8. QED
  BY <1>4, <1>5, <1>6, <1>7 DEF n

LEMMA ParsedStep ==
    ASSUME NEW s, DOMAIN s = RunFields, Parsed(s), s.pc = "read", ~AtEnd(s), ~Flushing(s)
    PROVE  Parsed(AfterLine(s))
<1> DEFINE n == AfterLine(s)
           line == s.log[s.i]
<1>1. Len(s.log) \in Nat /\ s.i \in Nat \ {0} /\ s.i \in 1 .. Len(s.log)
  BY ParsedTypes
<1>2. Regular(s.log) /\ Headed(s) /\ s.line \in Nat
  BY DEF Parsed
<1>3. /\ n.log = s.log /\ n.i = s.i + 1 /\ n.pc = "read"
      /\ n.file = IF line.k = "commit" THEN NoFile ELSE IF line.k = "file" THEN line.file ELSE s.file
  BY <1>1, <1>2, ReadDoes
<1>4. Headed(n) /\ n.line \in Nat
  BY <1>1, <1>2, HeadedStep
<1>5. /\ n.block # NoBlock <=> line.k = "add" /\ s.file # NoFile
      /\ n.block # NoBlock =>
            /\ n.file # NoFile /\ n.block.file = n.file
            /\ \E a \in 1 .. n.i - 1 : HoldsFrom(n, a)
  BY BlockStep
<1> HIDE DEF n
<1>6. n.block = NoBlock /\ Between(n) => n.file = NoFile
  <2>1. Between(n) => line.k = "add"
    BY <1>1, <1>3 DEF Between
  <2>2. QED
    BY <1>3, <1>5, <2>1
<1>7. n.i \in 1 .. Len(n.log) + 1
  BY <1>1, <1>3
<1>8. Parsed(n)
  BY <1>2, <1>3, <1>4, <1>5, <1>6, <1>7 DEF Parsed
<1>9. QED
  BY <1>8 DEF n

--------------------------------------------------------------------------------
(* What is stored                                                          *)

LEMMA RunIs ==
    ASSUME NEW log, NEW ab \in RunsOf(log), Len(log) \in Nat
    PROVE  /\ ab = <<ab[1], ab[2]>> /\ ab[1] \in 1 .. ab[2] /\ ab[2] \in 1 .. Len(log)
           /\ \A j \in ab[1] .. ab[2] : log[j].k = "add"
           /\ ab[1] = 1 \/ log[ab[1] - 1].k # "add"
           /\ ab[2] = Len(log) \/ log[ab[2] + 1].k # "add"
  BY DEF RunsOf

(* Reading a line moves the frontier past no run that yields a block.      *)
LEMMA FrontierStep ==
    ASSUME NEW s, DOMAIN s = RunFields, Parsed(s), s.pc = "read", ~AtEnd(s), ~Flushing(s)
    PROVE  EndedBefore(s.log, Frontier(AfterLine(s))) = EndedBefore(s.log, Frontier(s))
<1> DEFINE log == s.log
           i == s.i
           line == log[i]
           n == AfterLine(s)
<1>1. Len(log) \in Nat /\ i \in Nat \ {0} /\ i \in 1 .. Len(log)
  BY ParsedTypes
<1>2. Regular(log) /\ Headed(s)
  BY DEF Parsed
<1>3. n.i = i + 1 /\ n.pc = "read"
  BY <1>1, <1>2, ReadDoes
<1>4. /\ s.block # NoBlock => line.k = "add" /\ s.file # NoFile
      /\ n.block # NoBlock <=> line.k = "add" /\ s.file # NoFile
  BY BlockStep
<1> HIDE DEF n
<1>5. Frontier(n) = IF line.k = "add" /\ s.file # NoFile THEN i ELSE i + 1
  BY <1>1, <1>3, <1>4 DEF Frontier
<1>6. Frontier(s) = IF s.block # NoBlock THEN i - 1 ELSE i
  BY DEF Frontier
<1>7. CASE line.k = "add" /\ s.file # NoFile
  <2>1. ASSUME NEW ab \in RunsOf(log) PROVE ab[2] < i <=> ab[2] < i - 1
    BY <1>1, <1>7, RunIs
  <2>2. EndedBefore(log, i) = EndedBefore(log, i - 1)
    BY <2>1 DEF EndedBefore
  <2>3. QED
    BY <1>5, <1>6, <1>7, <2>2 DEF n
<1>8. CASE ~(line.k = "add" /\ s.file # NoFile)
  <2>1. ASSUME NEW ab \in RunsOf(log), Yields(log, ab) PROVE ab[2] < i + 1 <=> ab[2] < i
    <3>1. /\ ab[1] \in 1 .. ab[2] /\ ab[2] \in 1 .. Len(log)
          /\ \A j \in ab[1] .. ab[2] : log[j].k = "add"
      BY <1>1, <2>1, RunIs
    <3>2. ASSUME ab[2] = i PROVE FALSE
      <4>1. line.k = "add" /\ s.file = NoFile
        BY <1>8, <3>1, <3>2
      <4>2. LastBefore(log, i, "file") = LastBefore(log, ab[1], "file")
        <5> DEFINE a == ab[1]
        <5>1. a \in Nat \ {0} /\ i \in Nat /\ a <= i /\ \A j \in a .. i - 1 : log[j].k = "add"
          BY <1>1, <3>1, <3>2
        <5> HIDE DEF a, log, i
        <5>2. "file" # "add"
          OBVIOUS
        <5>3. LastBefore(log, i, "file") = LastBefore(log, a, "file")
          BY <5>1, <5>2, LastSame
        <5>4. QED
          BY <5>3 DEF a
      <4>3. LastBefore(log, i, "commit") < LastBefore(log, i, "file")
        BY <1>1, <1>2, <4>1 DEF Regular
      <4>4. s.file = log[LastBefore(log, i, "file")].file
        BY <1>2, <4>3 DEF Headed
      <4>5. QED
        BY <2>1, <4>1, <4>2, <4>4 DEF Yields
    <3>3. QED
      BY <1>1, <3>1, <3>2
  <2>2. EndedBefore(log, i + 1) = EndedBefore(log, i)
    BY <2>1 DEF EndedBefore
  <2>3. s.block = NoBlock
    BY <1>4, <1>8
  <2>4. QED
    BY <1>5, <1>6, <1>8, <2>2, <2>3 DEF n
<1>9. QED
  BY <1>7, <1>8

(* The block in hand is the one run that has ended since.                  *)
LEMMA HandStep ==
    ASSUME NEW s, Parsed(s), s.block # NoBlock, ~Joins(s)
    PROVE  \E ab : /\ InHand(s) = BlockOf(s.log, ab)
                   /\ EndedBefore(s.log, s.i) =
                        EndedBefore(s.log, s.i - 1) \union IF Kept(s.block.body) THEN {ab} ELSE {}
<1> DEFINE log == s.log
           i == s.i
<1>1. /\ Len(log) \in Nat /\ i \in Nat \ {0} /\ i <= Len(log) + 1
      /\ AtEnd(s) <=> i = Len(log) + 1
      /\ ~AtEnd(s) => i \in 1 .. Len(log) /\ (EndsBlock(log[i]) <=> log[i].k # "add")
  BY ParsedTypes
<1>2. PICK a \in 1 .. i - 1 : HoldsFrom(s, a)
  BY DEF Parsed
<1> DEFINE ab == <<a, i - 1>>
<1>3. /\ a = 1 \/ log[a - 1].k # "add"
      /\ \A j \in a .. i - 1 : log[j].k = "add"
      /\ InHand(s) = BlockOf(log, ab)
  BY <1>2 DEF HoldsFrom
<1>4. i - 1 = Len(log) \/ log[(i - 1) + 1].k # "add"
  <2>1. (i - 1) + 1 = i
    BY <1>1
  <2>2. QED
    BY <1>1, <2>1 DEF Joins
<1>5. a \in 1 .. Len(log) /\ i - 1 \in 1 .. Len(log) /\ a <= i - 1
  BY <1>1
<1>6. ab \in RunsOf(log) /\ ab[1] = a /\ ab[2] = i - 1
  BY <1>3, <1>4, <1>5 DEF RunsOf
<1>7. ASSUME NEW x \in RunsOf(log), x[2] = i - 1 PROVE x = ab
  <2>1. /\ x = <<x[1], x[2]>> /\ x[1] \in 1 .. x[2]
        /\ \A j \in x[1] .. x[2] : log[j].k = "add"
        /\ x[1] = 1 \/ log[x[1] - 1].k # "add"
    BY <1>1, RunIs
  <2> DEFINE b == x[1]
  <2>2. b \in 1 .. i - 1 /\ (\A j \in b .. i - 1 : log[j].k = "add") /\ (b = 1 \/ log[b - 1].k # "add")
    BY <1>7, <2>1
  <2> HIDE DEF b
  <2>3. b = a
    <3>1. CASE b < a
      <4>1. a - 1 \in b .. i - 1 /\ a # 1
        BY <1>1, <2>2, <3>1
      <4>2. QED
        BY <1>3, <2>2, <4>1
    <3>2. CASE a < b
      <4>1. b - 1 \in a .. i - 1 /\ b # 1
        BY <1>1, <2>2, <3>2
      <4>2. QED
        BY <1>3, <2>2, <4>1
    <3>3. QED
      BY <1>1, <2>2, <3>1, <3>2
  <2>4. QED
    BY <1>7, <2>1, <2>3 DEF b
<1>8. Yields(log, ab) <=> Kept(s.block.body)
  <2>1. BlockOf(log, ab) =
           [commit |-> log[LastBefore(log, a, "commit")].commit,
            file   |-> log[LastBefore(log, a, "file")].file,
            start  |-> log[LastBefore(log, a, "hunk")].at
                          + Cardinality(AddsIn(log, LastBefore(log, a, "hunk"), a)),
            body   |-> BodyOf(log, ab)]
    BY BlockIs, Zenon
  <2>2. InHand(s) = [commit |-> s.commit, file |-> s.block.file,
                     start |-> s.block.start, body |-> s.block.body]
    BY DEF InHand
  <2>3. s.block.file = log[LastBefore(log, a, "file")].file /\ s.block.body = BodyOf(log, ab)
    <3> HIDE DEF log, ab
    <3>1. QED
      BY <1>3, <2>1, <2>2
  <2>4. s.block.file # NoFile
    BY DEF Parsed
  <2>5. QED
    BY <1>6, <2>3, <2>4 DEF Yields
<1>9. \A x \in RunsOf(log) : x[2] < i <=> x[2] < i - 1 \/ x = ab
  <2>1. ASSUME NEW x \in RunsOf(log) PROVE x[2] < i <=> x[2] < i - 1 \/ x = ab
    <3>1. x[2] \in 1 .. Len(log)
      BY <1>1, RunIs
    <3>2. x[2] = i - 1 <=> x = ab
      BY <1>6, <1>7
    <3> DEFINE y == x[2]
    <3>3. y \in Nat /\ (y < i <=> y < i - 1 \/ y = i - 1)
      <4> HIDE DEF y
      <4>1. QED
        BY <1>1, <3>1 DEF y
    <3>4. QED
      BY <3>2, <3>3
  <2>2. QED
    BY <2>1
<1>10. EndedBefore(log, i) = EndedBefore(log, i - 1) \union IF Kept(s.block.body) THEN {ab} ELSE {}
  BY <1>6, <1>8, <1>9 DEF EndedBefore
<1>11. QED
  BY <1>3, <1>10

--------------------------------------------------------------------------------
(* The steps                                                               *)

LEMMA OffIs == Off.pc = "off" /\ Unread(Off) /\ DOMAIN Off = RunFields
  BY DEF Off, Unread, RunFields

LEMMA MapInit ==
    ASSUME WellFormed PROVE Init => TrueInv /\ MapInv
<1> SUFFICES ASSUME Init PROVE MapInv
  BY TrueInit
<1>1. DOMAIN landed = Repo /\ \A r \in Repo : landed[r] \in 0 .. Len(Diff[r])
  BY DEF Init, WellFormed
<1>2. \A p \in Process : run[p] = Off
  BY DEF Init
<1>3. RunOK(Off, rows, fts)
  BY OffIs DEF RunOK
<1>4. QED
  BY <1>1, <1>2, <1>3 DEF MapInv

(* Of a run that has just got its log nothing is read and nothing stored.  *)
LEMMA LogStarts ==
    ASSUME NEW s, Unread(s), Regular(s.log), s.pc = "read", NEW table, NEW index, DOMAIN table = {}
    PROVE  Parsed(s) /\ Filed(s, table, index)
<1> DEFINE log == s.log
<1>1. s.i = 1 /\ s.block = NoBlock /\ s.line = 0 /\ s.cache = {} /\ s.unknown = {}
  BY DEF Unread
<1>2. Len(log) \in Nat
  BY DEF Regular
<1>3. \A k : LastBefore(log, 1, k) = 0
  <2>1. ASSUME NEW k PROVE LastBefore(log, 1, k) = 0
    <3>1. /\ 1 \in Nat
          /\ LastBefore(log, 1, k) \in Nat
          /\ LastBefore(log, 1, k) # 0 => LastBefore(log, 1, k) \in 1 .. 1 - 1
      BY LastIs
    <3>2. QED
      BY <3>1
  <2>2. QED
    BY <2>1
<1>4. Headed(s)
  BY <1>1, <1>3 DEF Headed
<1>5. Parsed(s)
  BY <1>1, <1>2, <1>4 DEF Parsed, Between
<1>6. EndedBefore(log, 1) = {}
  BY <1>2 DEF EndedBefore, RunsOf
<1>7. Frontier(s) = 1
  BY <1>1 DEF Frontier
<1>8. {Plain(table[n]) : n \in DOMAIN table} = {BlockOf(log, ab) : ab \in EndedBefore(log, 1)}
  BY <1>6
<1>9. Filed(s, table, index)
  BY <1>1, <1>7, <1>8 DEF Filed
<1>10. QED
  BY <1>5, <1>9

(* Between two lines                                                       *)
LEMMA ParsedSame ==
    ASSUME NEW s, Parsed(s), NEW n, n.log = s.log, n.i = s.i, n.line = s.line,
           n.commit = s.commit, n.file = s.file,
           \/ n.pc = "index" /\ n.block = s.block /\ s.block # NoBlock /\ ~Joins(s)
           \/ n.pc = "done" /\ n.block = NoBlock /\ AtEnd(s)
           \/ n.pc = "read" /\ n.block = NoBlock /\ ~Joins(s)
    PROVE  Parsed(n)
<1>1. /\ Regular(n.log) /\ n.i \in 1 .. Len(n.log) + 1 /\ n.line \in Nat
      /\ Headed(n)
  BY DEF Parsed, Headed
<1>2. (AtEnd(n) <=> AtEnd(s)) /\ (Between(n) <=> Between(s)) /\ (AtEnd(s) => ~Joins(s))
  BY DEF AtEnd, Between, Joins
<1>3. ~Joins(s) => ~Between(s)
  BY ParsedTypes DEF Joins, Between
<1>4. CASE n.block = NoBlock
  BY <1>1, <1>2, <1>3, <1>4 DEF Parsed
<1>5. CASE n.block # NoBlock
  <2>1. n.pc = "index" /\ n.block = s.block /\ ~Joins(s)
    BY <1>5
  <2>2. ~Joins(n)
    BY <2>1, <1>2 DEF Joins
  <2>3. InHand(n) = InHand(s)
    BY <2>1 DEF InHand
  <2>4. PICK a \in 1 .. s.i - 1 : HoldsFrom(s, a)
    BY <1>5, <2>1 DEF Parsed
  <2>5. HoldsFrom(n, a)
    BY <2>3, <2>4 DEF HoldsFrom
  <2>6. n.file # NoFile /\ n.block.file = n.file
    BY <1>5, <2>1 DEF Parsed
  <2>7. QED
    BY <1>1, <1>5, <2>1, <2>2, <2>4, <2>5, <2>6 DEF Parsed
<1>6. QED
  BY <1>4, <1>5

LEMMA FiledSame ==
    ASSUME NEW s, NEW n, NEW table, NEW index, Filed(s, table, index), s.pc # "index",
           n.log = s.log, n.cache = s.cache, n.unknown = s.unknown,
           EndedBefore(s.log, Frontier(n)) = EndedBefore(s.log, Frontier(s))
    PROVE  Filed(n, table, index)
  BY DEF Filed

(* The row of the block in hand                                            *)
LEMMA FiledRow ==
    ASSUME NEW s, NEW n, NEW table, NEW index, Parsed(s), Filed(s, table, index),
           s.pc = "read", Flushing(s), Kept(s.block.body), NEW id, id \notin DOMAIN table,
           NEW row, Plain(row) = InHand(s), row.bound \in BOOLEAN, row.bound <=> IsKnown(s),
           n.pc = "index", n.id = id, n.log = s.log, n.i = s.i,
           n.cache = IF IsKnown(s) THEN s.cache \union {s.commit} ELSE s.cache,
           n.unknown = IF IsKnown(s) THEN s.unknown ELSE s.unknown \union {s.commit}
    PROVE  Filed(n, [i \in DOMAIN table \union {id} |-> IF i = id THEN row ELSE table[i]], index)
<1> DEFINE new == [i \in DOMAIN table \union {id} |-> IF i = id THEN row ELSE table[i]]
<1>1. /\ DOMAIN new = DOMAIN table \union {id} /\ new[id] = row
      /\ \A i \in DOMAIN table : new[i] = table[i]
  OBVIOUS
<1> HIDE DEF new
<1>2. s.block # NoBlock /\ ~Joins(s)
  BY DEF Flushing
<1>3. PICK ab : /\ InHand(s) = BlockOf(s.log, ab)
                /\ EndedBefore(s.log, s.i) = EndedBefore(s.log, s.i - 1) \union {ab}
  BY <1>2, HandStep
<1>4. Frontier(s) = s.i - 1 /\ Frontier(n) = s.i
  BY <1>2 DEF Frontier
<1>5. {Plain(new[i]) : i \in DOMAIN new} = {BlockOf(n.log, x) : x \in EndedBefore(n.log, Frontier(n))}
  <2>1. {Plain(new[i]) : i \in DOMAIN new} = {Plain(table[i]) : i \in DOMAIN table} \union {Plain(row)}
    BY <1>1
  <2>2. {BlockOf(s.log, x) : x \in EndedBefore(s.log, s.i)} =
           {BlockOf(s.log, x) : x \in EndedBefore(s.log, s.i - 1)} \union {BlockOf(s.log, ab)}
    BY <1>3
  <2>3. {Plain(table[i]) : i \in DOMAIN table} = {BlockOf(s.log, x) : x \in EndedBefore(s.log, s.i - 1)}
    BY <1>4 DEF Filed
  <2>4. QED
    BY <1>3, <1>4, <2>1, <2>2, <2>3
<1>6. \A i \in DOMAIN new : (n.pc = "index" /\ i = n.id) \/ [ref |-> i, body |-> new[i].body] \in index
  BY <1>1 DEF Filed
<1>7. row.commit = s.commit
  BY DEF Plain, InHand
<1>8. /\ n.cache \intersect n.unknown = {} /\ s.commit \in n.cache \union n.unknown
      /\ IsKnown(s) <=> s.commit \in n.cache
      /\ \A c \in s.cache \union s.unknown :
            c \in n.cache \union n.unknown /\ (c \in n.cache <=> c \in s.cache)
  BY DEF Filed, IsKnown
<1>9. \A i \in DOMAIN new :
         /\ new[i].commit \in n.cache \union n.unknown
         /\ new[i].bound \in BOOLEAN /\ (new[i].bound <=> new[i].commit \in n.cache)
  BY <1>1, <1>7, <1>8 DEF Filed
<1>10. Filed(n, new, index)
  BY <1>5, <1>6, <1>8, <1>9 DEF Filed
<1>11. QED
  BY <1>10 DEF new

(* Its full-text row                                                       *)
LEMMA FiledIndex ==
    ASSUME NEW s, NEW n, NEW table, NEW index, Filed(s, table, index), s.pc = "index",
           table[s.id].body = s.block.body,
           n.pc = "read", n.block = NoBlock, n.log = s.log, n.i = s.i,
           n.cache = s.cache, n.unknown = s.unknown
    PROVE  Filed(n, table, index \union {[ref |-> s.id, body |-> s.block.body]})
<1>1. Frontier(n) = Frontier(s)
  BY DEF Frontier
<1>2. QED
  BY <1>1 DEF Filed

--------------------------------------------------------------------------------
(* The steps                                                               *)

(* What a step of run p has to show: the others are off.                   *)
LEMMA RunStep ==
    ASSUME TrueInv, MapInv, NEW p \in Process, NEW n, run[p].pc # "off",
           UNCHANGED landed, run' = [run EXCEPT ![p] = n], RunOK(n, rows', fts')
    PROVE  MapInv'
<1>1. run'[p] = n /\ \A q \in Process \ {p} : run'[q] = run[q] /\ run[q].pc = "off"
  BY DEF TrueInv
<1>2. \A q \in Process \ {p} : RunOK(run'[q], rows', fts')
  BY <1>1 DEF RunOK
<1>3. \A q \in Process : RunOK(run'[q], rows', fts')
  BY <1>1, <1>2
<1>4. QED
  BY <1>3 DEF MapInv

LEMMA OffOK == \A table, index : RunOK(Off, table, index)
  BY OffIs DEF RunOK

LEMMA MapStep ==
    ASSUME InTurn, WellFormed PROVE TrueInv /\ MapInv /\ [Next]_vars => MapInv'
<1> SUFFICES ASSUME TrueInv, MapInv, [Next]_vars PROVE MapInv'
  OBVIOUS
<1>r. \A p \in Process : DOMAIN run[p] = RunFields /\ RunOK(run[p], rows, fts)
  BY DEF TrueInv, MapInv
<1>1. ASSUME NEW p \in Process, NEW r \in Repo, Start(p, r) PROVE MapInv'
  <2> DEFINE n == [Off EXCEPT !.pc = "wipe", !.repo = r]
  <2>1. /\ n.pc = "wipe" /\ n.repo = r /\ Unread(n)
    BY DEF Off, Unread
  <2>2. /\ \A q \in Process : run[q].pc = "off"
        /\ UNCHANGED <<landed, rows, fts>> /\ run' = [run EXCEPT ![p] = n]
    BY <1>1 DEF Start, InTurn, Database, World
  <2> HIDE DEF n
  <2>3. RunOK(n, rows', fts')
    BY <2>1 DEF RunOK
  <2>4. run'[p] = n /\ \A q \in Process \ {p} : run'[q] = run[q]
    BY <2>2 DEF TrueInv
  <2>5. \A q \in Process : RunOK(run'[q], rows', fts')
    BY <1>r, <2>2, <2>3, <2>4
  <2>6. QED
    BY <2>2, <2>5 DEF MapInv
<1>2. ASSUME NEW p \in Process, WipeIndex(p) PROVE MapInv'
  <2> DEFINE s == run[p]
             n == [s EXCEPT !.pc = "wipe_rows"]
  <2>1. run' = [run EXCEPT ![p] = n] /\ UNCHANGED landed /\ s.pc = "wipe"
    BY <1>2 DEF WipeIndex, World
  <2>2. n.pc = "wipe_rows" /\ n.repo = s.repo /\ (Unread(s) => Unread(n))
    BY <1>r DEF Unread, RunFields
  <2>3. RunOK(n, rows', fts')
    BY <1>r, <2>1, <2>2 DEF RunOK
  <2> HIDE DEF n
  <2>4. QED
    BY <2>1, <2>3, RunStep
<1>3. ASSUME NEW p \in Process, WipeRows(p) PROVE MapInv'
  <2> DEFINE s == run[p]
             n == [s EXCEPT !.pc = "log"]
  <2>1. run' = [run EXCEPT ![p] = n] /\ UNCHANGED landed /\ s.pc = "wipe_rows" /\ DOMAIN rows' = {}
    BY <1>3 DEF WipeRows, World
  <2>2. n.pc = "log" /\ n.repo = s.repo /\ (Unread(s) => Unread(n))
    BY <1>r DEF Unread, RunFields
  <2>3. RunOK(n, rows', fts')
    BY <1>r, <2>1, <2>2 DEF RunOK
  <2> HIDE DEF n
  <2>4. QED
    BY <2>1, <2>3, RunStep
<1>4. ASSUME NEW p \in Process, ReadLog(p) PROVE MapInv'
  <2> DEFINE s == run[p]
             log == Log(s.repo, landed[s.repo])
             n == [s EXCEPT !.log = log, !.pc = "read"]
  <2>1. run' = [run EXCEPT ![p] = n] /\ UNCHANGED <<landed, rows, fts>> /\ s.pc = "log"
    BY <1>4, <1>r DEF ReadLog, World, Database, RunFields
  <2>2. s.repo \in Repo /\ Unread(s) /\ DOMAIN rows = {}
    BY <1>r, <2>1 DEF RunOK
  <2>3. Regular(log)
    BY <2>2 DEF MapInv, WellFormed
  <2>4. n.pc = "read" /\ n.repo = s.repo /\ n.log = log /\ Unread(n)
    BY <1>r, <2>2 DEF Unread, RunFields
  <2> HIDE DEF n, log
  <2>5. Parsed(n) /\ Filed(n, rows', fts')
    BY <2>1, <2>2, <2>3, <2>4, LogStarts
  <2>6. RunOK(n, rows', fts')
    BY <2>2, <2>4, <2>5 DEF RunOK
  <2>7. QED
    BY <2>1, <2>6, RunStep
<1>5. ASSUME NEW p \in Process, ReadLine(p) PROVE MapInv'
  <2> DEFINE s == run[p]
             n == AfterLine(s)
  <2>1. /\ run' = [run EXCEPT ![p] = n] /\ UNCHANGED <<landed, rows, fts>>
        /\ s.pc = "read" /\ ~AtEnd(s) /\ ~Flushing(s)
    BY <1>5 DEF ReadLine, World, Database, AfterLine
  <2>2. DOMAIN s = RunFields /\ s.repo \in Repo /\ Parsed(s) /\ Filed(s, rows, fts)
    BY <1>r, <2>1 DEF RunOK
  <2>3. Regular(s.log) /\ s.i \in 1 .. Len(s.log)
    BY <2>1, <2>2, ParsedTypes DEF Parsed
  <2>4. /\ n.pc = s.pc /\ n.repo = s.repo /\ n.log = s.log
        /\ n.cache = s.cache /\ n.unknown = s.unknown
    BY <2>2, <2>3, ReadDoes
  <2>5. Parsed(n)
    BY <2>1, <2>2, ParsedStep
  <2>6. EndedBefore(s.log, Frontier(n)) = EndedBefore(s.log, Frontier(s))
    BY <2>1, <2>2, FrontierStep
  <2> HIDE DEF n, s
  <2>7. Filed(n, rows, fts)
    BY <2>1, <2>2, <2>4, <2>6, FiledSame
  <2>8. RunOK(n, rows', fts')
    BY <2>1, <2>2, <2>4, <2>5, <2>7 DEF RunOK
  <2>9. QED
    BY <2>1, <2>8, RunStep DEF s
<1>6. ASSUME NEW p \in Process, DropBlock(p) PROVE MapInv'
  <2> DEFINE s == run[p]
             n == [s EXCEPT !.block = NoBlock]
  <2>1. /\ run' = [run EXCEPT ![p] = n] /\ UNCHANGED <<landed, rows, fts>>
        /\ s.pc = "read" /\ s.block # NoBlock /\ ~Joins(s) /\ ~Kept(s.block.body)
    BY <1>6 DEF DropBlock, Flushing, World, Database
  <2>2. DOMAIN s = RunFields /\ s.repo \in Repo /\ Parsed(s) /\ Filed(s, rows, fts)
    BY <1>r, <2>1 DEF RunOK
  <2>3. /\ n.pc = "read" /\ n.repo = s.repo /\ n.log = s.log /\ n.i = s.i /\ n.line = s.line
        /\ n.commit = s.commit /\ n.file = s.file /\ n.block = NoBlock
        /\ n.cache = s.cache /\ n.unknown = s.unknown
    BY <2>1, <2>2 DEF RunFields
  <2> HIDE DEF n, s
  <2>4. Parsed(n)
    BY <2>1, <2>2, <2>3, ParsedSame
  <2>5. EndedBefore(s.log, s.i) = EndedBefore(s.log, s.i - 1)
    BY <2>1, <2>2, HandStep
  <2>6. Frontier(n) = s.i /\ Frontier(s) = s.i - 1
    BY <2>1, <2>3 DEF Frontier
  <2>7. Filed(n, rows, fts)
    BY <2>1, <2>2, <2>3, <2>5, <2>6, FiledSame
  <2>8. RunOK(n, rows', fts')
    BY <2>1, <2>2, <2>3, <2>4, <2>7 DEF RunOK
  <2>9. QED
    BY <2>1, <2>8, RunStep DEF s
<1>7. ASSUME NEW p \in Process, InsertRow(p) PROVE MapInv'
  <2> DEFINE s == run[p]
             row == [repo |-> s.repo, commit |-> s.commit, bound |-> IsKnown(s),
                     file |-> s.block.file, start |-> s.block.start, body |-> s.block.body]
             n == [s EXCEPT !.id = NextId, !.pc = "index",
                            !.cache = IF IsKnown(s) THEN @ \union {s.commit} ELSE @,
                            !.unknown = IF IsKnown(s) THEN @ ELSE @ \union {s.commit}]
  <2>1. /\ run' = [run EXCEPT ![p] = n] /\ UNCHANGED <<landed, fts>>
        /\ rows' = [i \in DOMAIN rows \union {NextId} |-> IF i = NextId THEN row ELSE rows[i]]
        /\ Flushing(s) /\ Kept(s.block.body)
    BY <1>7 DEF InsertRow, World
  <2>2. s.pc = "read" /\ s.block # NoBlock /\ ~Joins(s)
    BY <2>1 DEF Flushing
  <2>3. DOMAIN s = RunFields /\ s.repo \in Repo /\ Parsed(s) /\ Filed(s, rows, fts)
    BY <1>r, <2>2 DEF RunOK
  <2>4. NextId \notin DOMAIN rows
    BY NextIdIsNew DEF TrueInv
  <2>5. /\ n.pc = "index" /\ n.id = NextId /\ n.repo = s.repo /\ n.log = s.log /\ n.i = s.i
        /\ n.line = s.line /\ n.commit = s.commit /\ n.file = s.file /\ n.block = s.block
        /\ n.cache = (IF IsKnown(s) THEN s.cache \union {s.commit} ELSE s.cache)
        /\ n.unknown = (IF IsKnown(s) THEN s.unknown ELSE s.unknown \union {s.commit})
    BY <2>3 DEF RunFields
  <2>6. Plain(row) = InHand(s) /\ row.bound \in BOOLEAN /\ (row.bound <=> IsKnown(s))
    BY DEF Plain, InHand, IsKnown
  <2> HIDE DEF n, s, row
  <2>7. Parsed(n)
    BY <2>2, <2>3, <2>5, ParsedSame
  <2>8. Filed(n, rows', fts)
    <3> DEFINE new == [i \in DOMAIN rows \union {NextId} |-> IF i = NextId THEN row ELSE rows[i]]
    <3>1. Filed(n, new, fts)
      <4>1. \A id : id \notin DOMAIN rows /\ n.id = id =>
               Filed(n, [i \in DOMAIN rows \union {id} |-> IF i = id THEN row ELSE rows[i]], fts)
        BY <2>1, <2>2, <2>3, <2>5, <2>6, FiledRow
      <4>2. QED
        BY <2>4, <2>5, <4>1
    <3>2. rows' = new
      BY <2>1
    <3> HIDE DEF new
    <3>3. QED
      BY <3>1, <3>2
  <2>9. RunOK(n, rows', fts')
    BY <2>1, <2>3, <2>5, <2>7, <2>8 DEF RunOK
  <2>10. QED
    BY <2>1, <2>2, <2>9, RunStep DEF s
<1>8. ASSUME NEW p \in Process, InsertIndex(p) PROVE MapInv'
  <2> DEFINE s == run[p]
             n == [s EXCEPT !.block = NoBlock, !.pc = "read"]
  <2>1. /\ run' = [run EXCEPT ![p] = n] /\ UNCHANGED <<landed, rows>> /\ s.pc = "index"
        /\ fts' = fts \union {[ref |-> s.id, body |-> s.block.body]}
    BY <1>8 DEF InsertIndex, World
  <2>2. DOMAIN s = RunFields /\ s.repo \in Repo /\ Parsed(s) /\ Filed(s, rows, fts)
    BY <1>r, <2>1 DEF RunOK
  <2>3. ~Joins(s)
    BY <2>1, <2>2 DEF Parsed
  <2>4. rows[s.id].body = s.block.body
    BY <2>1 DEF TrueInv
  <2>5. /\ n.pc = "read" /\ n.repo = s.repo /\ n.log = s.log /\ n.i = s.i /\ n.line = s.line
        /\ n.commit = s.commit /\ n.file = s.file /\ n.block = NoBlock
        /\ n.cache = s.cache /\ n.unknown = s.unknown
    BY <2>1, <2>2 DEF RunFields
  <2> HIDE DEF n, s
  <2>6. Parsed(n)
    BY <2>2, <2>3, <2>5, ParsedSame
  <2>7. Filed(n, rows, fts')
    BY <2>1, <2>2, <2>4, <2>5, FiledIndex
  <2>8. RunOK(n, rows', fts')
    BY <2>1, <2>2, <2>5, <2>6, <2>7 DEF RunOK
  <2>9. QED
    BY <2>1, <2>8, RunStep DEF s
<1>9. ASSUME NEW p \in Process, Finish(p) PROVE MapInv'
  <2> DEFINE s == run[p]
             n == [s EXCEPT !.pc = "done"]
  <2>1. /\ run' = [run EXCEPT ![p] = n] /\ UNCHANGED <<landed, rows, fts>>
        /\ s.pc = "read" /\ AtEnd(s) /\ ~Flushing(s)
    BY <1>9 DEF Finish, World, Database
  <2>2. DOMAIN s = RunFields /\ s.repo \in Repo /\ Parsed(s) /\ Filed(s, rows, fts)
    BY <1>r, <2>1 DEF RunOK
  <2>3. s.block = NoBlock
    BY <2>1 DEF Flushing, Joins
  <2>4. /\ n.pc = "done" /\ n.repo = s.repo /\ n.log = s.log /\ n.i = s.i /\ n.line = s.line
        /\ n.commit = s.commit /\ n.file = s.file /\ n.block = NoBlock
        /\ n.cache = s.cache /\ n.unknown = s.unknown
    BY <2>2, <2>3 DEF RunFields
  <2> HIDE DEF n, s
  <2>5. Parsed(n)
    BY <2>1, <2>2, <2>4, ParsedSame
  <2>6. Frontier(n) = Frontier(s)
    BY <2>3, <2>4 DEF Frontier
  <2>7. Filed(n, rows, fts)
    BY <2>1, <2>2, <2>4, <2>6, FiledSame
  <2>8. RunOK(n, rows', fts')
    BY <2>1, <2>2, <2>4, <2>5, <2>7 DEF RunOK
  <2>9. QED
    BY <2>1, <2>8, RunStep DEF s
<1>10. ASSUME NEW p \in Process, Return(p) \/ Stop(p) PROVE MapInv'
  <2>1. run' = [run EXCEPT ![p] = Off] /\ UNCHANGED landed /\ run[p].pc # "off"
    BY <1>10 DEF Return, Stop, World
  <2>2. QED
    BY <2>1, OffOK, RunStep
<1>11. ASSUME NEW r \in Repo, Commit(r) PROVE MapInv'
  <2>1. /\ landed' = [landed EXCEPT ![r] = @ + 1] /\ landed[r] < Len(Diff[r])
        /\ UNCHANGED <<rows, fts, run>>
    BY <1>11 DEF Commit, Database
  <2>2. DOMAIN landed' = Repo /\ \A x \in Repo : landed'[x] \in 0 .. Len(Diff[x])
    BY <2>1 DEF MapInv, WellFormed
  <2>3. QED
    BY <2>1, <2>2 DEF MapInv
<1>12. CASE UNCHANGED <<landed, rows, fts, run>>
  BY <1>12 DEF MapInv
<1>13. ASSUME NEW r \in Repo, IndexCommits(r) PROVE MapInv'
  BY <1>12, <1>13 DEF IndexCommits, Database
<1>14. CASE UNCHANGED vars
  BY <1>12, <1>14 DEF vars
<1>15. QED
  BY <1>1, <1>2, <1>3, <1>4, <1>5, <1>6, <1>7, <1>8, <1>9, <1>10, <1>11, <1>13, <1>14 DEF Next

(* All blocks of a log have ended before the line after its last.          *)
LEMMA AllEnded ==
    ASSUME NEW log, Len(log) \in Nat
    PROVE  BlocksOf(log) = {BlockOf(log, ab) : ab \in EndedBefore(log, Len(log) + 1)}
<1>1. EndedBefore(log, Len(log) + 1) = {ab \in RunsOf(log) : Yields(log, ab)}
  <2>1. \A ab \in RunsOf(log) : ab[2] < Len(log) + 1
    BY RunIs
  <2>2. QED
    BY <2>1 DEF EndedBefore
<1>2. QED
  BY <1>1 DEF BlocksOf, Yields, BodyOf

LEMMA MapHolds == MapInv => MapIsLog
<1> SUFFICES ASSUME MapInv, NEW p \in Process, run[p].pc = "done"
             PROVE  /\ {Plain(rows[i]) : i \in DOMAIN rows} = BlocksOf(run[p].log)
                    /\ \A i \in DOMAIN rows : [ref |-> i, body |-> rows[i].body] \in fts
                    /\ \A i, j \in DOMAIN rows :
                          rows[i].commit = rows[j].commit => rows[i].bound = rows[j].bound
  BY DEF MapIsLog, Plain
<1> DEFINE s == run[p]
<1>1. Parsed(s) /\ Filed(s, rows, fts)
  BY DEF MapInv, RunOK
<1>2. s.block = NoBlock /\ AtEnd(s) /\ Len(s.log) \in Nat
  BY <1>1, ParsedTypes DEF Parsed
<1>3. s.i = Len(s.log) + 1
  BY <1>1, <1>2, ParsedTypes
<1>4. Frontier(s) = Len(s.log) + 1
  BY <1>3 DEF Frontier
<1>5. {Plain(rows[i]) : i \in DOMAIN rows} = BlocksOf(s.log)
  BY <1>1, <1>2, <1>4, AllEnded DEF Filed
<1>6. \A i \in DOMAIN rows : [ref |-> i, body |-> rows[i].body] \in fts
  BY <1>1 DEF Filed
<1>7. ASSUME NEW i \in DOMAIN rows, NEW j \in DOMAIN rows, rows[i].commit = rows[j].commit
      PROVE  rows[i].bound = rows[j].bound
  BY <1>1, <1>7 DEF Filed
<1>8. QED
  BY <1>5, <1>6, <1>7

(* When `nibdex index-diffs` ends, the change map is exactly the added     *)
(* blocks of the log it has read, each with its commit, file, line and     *)
(* text and found by its row of the index, for any histories, whatever     *)
(* earlier runs died of (index_diffs, flush_block).                        *)
THEOREM MapAlwaysTheLog ==
    ASSUME InTurn, WellFormed PROVE Spec => []MapIsLog
<1>1. Init => TrueInv /\ MapInv
  BY MapInit
<1>2. TrueInv /\ MapInv /\ [Next]_vars => (TrueInv /\ MapInv)'
  BY TrueStep, MapStep
<1>3. TrueInv /\ MapInv => MapIsLog
  BY MapHolds
<1>4. QED
  BY <1>1, <1>2, <1>3, PTL DEF Spec

--------------------------------------------------------------------------------
(* Who introduced a piece of code (Provenance)                             *)

(* What the query gives back: matches with a time and a rank, none of them *)
(* what stands for no author.                                              *)
AreMatches(Match) == \A m \in Match : m.at \in Int /\ m.rank \in Int /\ m # None

Group(ms, c) == {i \in DOMAIN ms : ms[i].commit = c}

LEMMA LeastNatural ==
    ASSUME NEW S \in SUBSET Nat, S # {}
    PROVE  Min(S) \in S /\ \A x \in S : Min(S) <= x
<1>1. PICK m \in S : \A x \in S : <<x, m>> \notin OpToRel(<, Nat)
  BY WFMin, NatLessThanWellFounded, Zenon
<1>2. \A x \in S : ~(x < m)
  BY <1>1 DEF OpToRel
<1>3. \E n \in S : \A x \in S : n <= x
  BY <1>2
<1>4. QED
  BY <1>3 DEF Min

(* One of the matches of a group ranks best.                               *)
LEMMA OneRanksBest ==
    ASSUME NEW Match, AreMatches(Match), NEW ms \in Seq(Match),
           NEW I \in SUBSET DOMAIN ms, I # {}
    PROVE  \E i \in I : \A j \in I : ms[i].rank <= ms[j].rank
<1> DEFINE Below(i) == {j \in I : ms[j].rank < ms[i].rank}
           sizes == {Cardinality(Below(i)) : i \in I}
<1>1. IsFiniteSet(I)
  <2>1. DOMAIN ms = 1 .. Len(ms) /\ Len(ms) \in Nat
    OBVIOUS
  <2>2. IsFiniteSet(DOMAIN ms)
    BY <2>1, FS_Interval
  <2>3. QED
    BY <2>2, FS_Subset
<1>2. \A i \in I : ms[i].rank \in Int
  BY DEF AreMatches
<1>3. \A i \in I : IsFiniteSet(Below(i)) /\ Cardinality(Below(i)) \in Nat
  BY <1>1, FS_Subset, FS_CardinalityType
<1>4. sizes \in SUBSET Nat /\ sizes # {}
  BY <1>3
<1>5. Min(sizes) \in sizes /\ \A x \in sizes : Min(sizes) <= x
  BY <1>4, LeastNatural
<1>6. PICK i \in I : Cardinality(Below(i)) = Min(sizes)
  BY <1>5
<1>7. \A j \in I : Cardinality(Below(i)) <= Cardinality(Below(j))
  BY <1>5, <1>6
<1>8. ASSUME NEW j \in I, ms[j].rank < ms[i].rank PROVE FALSE
  <2>1. Below(j) \subseteq Below(i) /\ j \in Below(i) /\ j \notin Below(j)
    BY <1>2, <1>8
  <2>2. Cardinality(Below(j)) <= Cardinality(Below(i)) /\ Cardinality(Below(j)) # Cardinality(Below(i))
    BY <1>3, <2>1, FS_Subset
  <2> HIDE DEF Below
  <2>3. QED
    BY <1>3, <1>7, <2>2
<1>9. \A j \in I : ms[i].rank <= ms[j].rank
  <2> TAKE j \in I
  <2>1. ms[i].rank \in Int /\ ms[j].rank \in Int /\ ~(ms[j].rank < ms[i].rank)
    BY <1>2, <1>8
  <2>2. QED
    BY <2>1
<1>10. QED
  BY <1>9

LEMMA ChosenIs ==
    ASSUME NEW Match, AreMatches(Match), NEW ms \in Seq(Match),
           NEW I \in SUBSET DOMAIN ms, I # {}
    PROVE  Chosen(ms, I) \in I /\ \A j \in I : ms[Chosen(ms, I)].rank <= ms[j].rank
<1> DEFINE best == {i \in I : \A j \in I : ms[i].rank <= ms[j].rank}
<1>1. best # {}
  BY OneRanksBest
<1>2. DOMAIN ms \in SUBSET Nat
  OBVIOUS
<1>3. best \in SUBSET Nat
  BY <1>2
<1>4. Min(best) \in best
  BY <1>1, <1>3, LeastNatural
<1>5. Chosen(ms, I) = Min(best)
  BY DEF Chosen, BestAt
<1>6. QED
  BY <1>4, <1>5

LEMMA RepresentativesAre ==
    ASSUME NEW Match, AreMatches(Match), NEW ms \in Seq(Match)
    PROVE  /\ IsFiniteSet(Representatives(ms)) /\ Representatives(ms) \subseteq Match
           /\ \A m \in Representatives(ms) : m.commit \in Commits(ms)
           /\ \A c \in Commits(ms) : \E m \in Representatives(ms) : m.commit = c
           /\ \A m, n \in Representatives(ms) : m.commit = n.commit => m = n
<1> DEFINE Rep(c) == ms[Chosen(ms, Group(ms, c))]
<1>1. Representatives(ms) = {Rep(c) : c \in Commits(ms)}
  BY DEF Representatives, Group
<1>2. \A c \in Commits(ms) :
          /\ Chosen(ms, Group(ms, c)) \in DOMAIN ms
          /\ Rep(c) \in Match /\ Rep(c).commit = c
  <2> TAKE c \in Commits(ms)
  <2>1. Group(ms, c) # {} /\ Group(ms, c) \in SUBSET DOMAIN ms
    BY DEF Commits, Group
  <2>2. Chosen(ms, Group(ms, c)) \in Group(ms, c)
    BY <2>1, ChosenIs
  <2>3. QED
    BY <2>2 DEF Group
<1> DEFINE Told == {ms[i] : i \in DOMAIN ms}
<1>3. IsFiniteSet(Told)
  <2>1. DOMAIN ms = 1 .. Len(ms) /\ Len(ms) \in Nat
    OBVIOUS
  <2>2. IsFiniteSet(DOMAIN ms)
    BY <2>1, FS_Interval
  <2>3. ms \in Surjection(DOMAIN ms, Told)
    BY DEF Surjection
  <2> HIDE DEF Told
  <2>4. QED
    BY <2>2, <2>3, FS_Surjection
<1>4. Representatives(ms) \subseteq Told
  BY <1>1, <1>2
<1>5. IsFiniteSet(Representatives(ms))
  BY <1>3, <1>4, FS_Subset
<1> HIDE DEF Rep
<1>6. QED
  BY <1>1, <1>2, <1>5

LEMMA AsManyCommits ==
    ASSUME NEW S, IsFiniteSet(S), \A m, n \in S : m.commit = n.commit => m = n
    PROVE  Cardinality({m.commit : m \in S}) = Cardinality(S)
<1> DEFINE T == {m.commit : m \in S}
           f == [m \in S |-> m.commit]
<1>1. f \in [S -> T] /\ \A m, n \in S : f[m] = f[n] => m = n
  OBVIOUS
<1>2. \A t \in T : \E m \in S : f[m] = t
  OBVIOUS
<1> HIDE DEF f, T
<1>3. f \in Injection(S, T) /\ f \in Surjection(S, T)
  BY <1>1, <1>2 DEF Injection, IsInjective, Surjection
<1>4. ExistsBijection(S, T)
  BY <1>3 DEF Bijection, ExistsBijection
<1>5. QED
  BY <1>4, FS_Bijection DEF T

(* Whatever matches, each commit is told of once: as the author, another's *)
(* code, a feeder or the rest, by its best match; there is no author if    *)
(* and only if none of them is code (resolve_from_matches).                *)
THEOREM EachCommitToldOnce ==
    ASSUME NEW Match, AreMatches(Match), NEW ms \in Seq(Match), NEW r \in Resolutions(ms)
    PROVE  Partitions(ms, r)
<1> DEFINE reps == Representatives(ms)
           code == {m \in reps : LayerOf(m.path) = "code"}
           fed == {m \in reps : IsFeeder(LayerOf(m.path))}
           rest == {m \in reps : LayerOf(m.path) \in {"config", "other"}}
<1>1. PICK a \in Authors(code) : r = Resolution(ms, a)
  BY DEF Resolutions
<1>2. /\ IsFiniteSet(reps) /\ reps \subseteq Match
      /\ \A m \in reps : m.commit \in Commits(ms)
      /\ \A c \in Commits(ms) : \E m \in reps : m.commit = c
      /\ \A m, n \in reps : m.commit = n.commit => m = n
  BY RepresentativesAre
<1> HIDE DEF reps
<1>3. \A p : LayerOf(p) \in {"session", "memory", "code", "config", "design", "other"}
  BY DEF LayerOf
<1>4. /\ reps = code \union fed \union rest
      /\ code \intersect fed = {} /\ code \intersect rest = {} /\ fed \intersect rest = {}
  BY <1>3 DEF IsFeeder
<1>5. \/ a = None /\ code = {}
      \/ a # None /\ a \in code
  BY <1>1, <1>2 DEF Authors, AreMatches
<1>6. /\ r.author = a /\ r.otherCode = code \ {a} /\ r.other = rest
      /\ r.codeCount = Cardinality(code)
      /\ {f.commit : f \in r.feeders} = fed
  <2>1. /\ r.author = a /\ r.otherCode = code \ {a} /\ r.other = rest
        /\ r.codeCount = Cardinality(code)
        /\ r.feeders = {[layer |-> LayerOf(m.path), commit |-> m, delta |-> Delta(m.at, a)] : m \in fed}
    BY <1>1 DEF Resolution, reps
  <2> HIDE DEF code, fed, rest
  <2>2. {f.commit : f \in r.feeders} = fed
    <3>1. \A f \in r.feeders : f.commit \in fed
      BY <2>1
    <3>2. \A m \in fed : \E f \in r.feeders : f.commit = m
      <4> TAKE m \in fed
      <4> DEFINE told == [layer |-> LayerOf(m.path), commit |-> m, delta |-> Delta(m.at, a)]
      <4>1. told \in r.feeders
        BY <2>1
      <4>2. told.commit = m
        OBVIOUS
      <4>3. QED
        BY <4>1, <4>2
    <3>3. QED
      BY <3>1, <3>2
  <2>3. QED
    BY <2>1, <2>2
<1> HIDE DEF code, fed, rest
<1> DEFINE first == IF r.author = None THEN {} ELSE {r.author}
           groups == <<first, r.otherCode, {f.commit : f \in r.feeders}, r.other>>
           Named(i) == {m.commit : m \in groups[i]}
<1>7. groups[1] = first /\ groups[2] = code \ {a} /\ groups[3] = fed /\ groups[4] = rest
  BY <1>6
<1>8. \/ first = {} /\ code = {}
      \/ first = {a} /\ a \in code
  <2>1. r.author = a
    BY <1>6
  <2>2. QED
    BY <1>5, <2>1
<1> HIDE DEF groups, first
<1>9. \A i \in 1 .. 4 : i = 1 \/ i = 2 \/ i = 3 \/ i = 4
  OBVIOUS
<1>10. /\ UNION {groups[i] : i \in 1 .. 4} = reps
       /\ \A i \in 1 .. 4 : groups[i] \subseteq reps
       /\ \A i, j \in 1 .. 4 : i # j => groups[i] \intersect groups[j] = {}
  <2>1. \A i \in 1 .. 4 : groups[i] \subseteq reps
    BY <1>4, <1>7, <1>8, <1>9
  <2>2. \A m \in reps : \E i \in 1 .. 4 : m \in groups[i]
    BY <1>4, <1>7, <1>8, <1>9
  <2>3. \A i, j \in 1 .. 4 : i # j => groups[i] \intersect groups[j] = {}
    BY <1>4, <1>7, <1>8, <1>9
  <2>4. QED
    BY <2>1, <2>2, <2>3
<1>11. UNION {Named(i) : i \in 1 .. 4} = Commits(ms)
  <2>1. \A i \in 1 .. 4 : Named(i) \subseteq Commits(ms)
    BY <1>2, <1>10
  <2>2. ASSUME NEW c \in Commits(ms) PROVE \E i \in 1 .. 4 : c \in Named(i)
    <3>1. PICK m \in reps : m.commit = c
      BY <1>2
    <3>2. PICK i \in 1 .. 4 : m \in groups[i]
      BY <1>10
    <3>3. QED
      BY <3>1, <3>2
  <2> HIDE DEF Named
  <2>3. QED
    BY <2>1, <2>2
<1>12. ASSUME NEW i \in 1 .. 4, NEW j \in 1 .. 4, i # j PROVE Named(i) \intersect Named(j) = {}
  <2>1. ASSUME NEW m \in groups[i], NEW n \in groups[j], m.commit = n.commit PROVE FALSE
    <3>1. m \in reps /\ n \in reps
      BY <1>10
    <3>2. m = n
      BY <1>2, <2>1, <3>1
    <3>3. QED
      BY <1>10, <1>12, <3>2
  <2>2. QED
    BY <2>1
<1>13. ASSUME NEW i \in 1 .. 4 PROVE Cardinality(Named(i)) = Cardinality(groups[i])
  <2>1. groups[i] \subseteq reps
    BY <1>10
  <2>2. IsFiniteSet(groups[i]) /\ \A m, n \in groups[i] : m.commit = n.commit => m = n
    BY <1>2, <2>1, FS_Subset
  <2>3. QED
    BY <2>2, AsManyCommits
<1>14. r.author = None <=> r.codeCount = 0
  <2>1. IsFiniteSet(code)
    BY <1>2, <1>4, FS_Subset
  <2>2. Cardinality(code) = 0 <=> code = {}
    BY <2>1, FS_EmptySet
  <2>3. QED
    BY <1>5, <1>6, <2>2
<1>15. QED
  BY <1>11, <1>12, <1>13, <1>14 DEF Partitions, groups, first

(* "`matches` may arrive in any order": while no two rank the same, the    *)
(* answer is the same in whatever order they come (resolve_from_matches).  *)
THEOREM AnyOrderResolvesTheSame ==
    ASSUME NEW Match, AreMatches(Match), NEW ms \in Seq(Match)
    PROVE  OrderFree(ms)
<1> SUFFICES ASSUME NoTies(ms), NEW f \in Bijection(DOMAIN ms, DOMAIN ms)
             PROVE  Resolutions([i \in DOMAIN ms |-> ms[f[i]]]) = Resolutions(ms)
  BY DEF OrderFree, Reordered
<1> DEFINE ns == [i \in DOMAIN ms |-> ms[f[i]]]
<1>1. DOMAIN ms = 1 .. Len(ms) /\ Len(ms) \in Nat
  OBVIOUS
<1>2. f \in [DOMAIN ms -> DOMAIN ms] /\ \A i \in DOMAIN ms : \E j \in DOMAIN ms : f[j] = i
  BY DEF Bijection, Surjection
<1>3. ns \in Seq(Match) /\ DOMAIN ns = DOMAIN ms /\ \A i \in DOMAIN ms : ns[i] = ms[f[i]]
  BY <1>1, <1>2
<1> HIDE DEF ns
<1>4. Commits(ns) = Commits(ms)
  <2>1. \A i \in DOMAIN ms : ns[i].commit \in Commits(ms)
    BY <1>2, <1>3 DEF Commits
  <2>2. \A i \in DOMAIN ms : ms[i].commit \in Commits(ns)
    BY <1>2, <1>3 DEF Commits
  <2>3. QED
    BY <1>3, <2>1, <2>2 DEF Commits
<1>5. ASSUME NEW c \in Commits(ms)
      PROVE  ns[Chosen(ns, Group(ns, c))] = ms[Chosen(ms, Group(ms, c))]
  <2> DEFINE I == Group(ms, c)
             J == Group(ns, c)
             i == Chosen(ms, I)
             j == Chosen(ns, J)
  <2>1. I # {} /\ I \in SUBSET DOMAIN ms /\ J # {} /\ J \in SUBSET DOMAIN ns
    BY <1>4 DEF Commits, Group
  <2>2. i \in I /\ \A k \in I : ms[i].rank <= ms[k].rank
    BY <2>1, ChosenIs
  <2>3. j \in J /\ \A k \in J : ns[j].rank <= ns[k].rank
    BY <1>3, <2>1, ChosenIs
  <2>4. f[j] \in I
    BY <1>2, <1>3, <2>3 DEF Group
  <2>5. PICK k \in DOMAIN ms : f[k] = i
    BY <1>2, <2>1, <2>2
  <2>6. k \in J
    BY <1>3, <2>2, <2>5 DEF Group
  <2> HIDE DEF i, j, I, J
  <2>7. ms[i].rank <= ms[f[j]].rank /\ ms[f[j]].rank <= ms[i].rank
    BY <1>3, <2>1, <2>2, <2>3, <2>4, <2>5, <2>6
  <2>8. ms[i].rank = ms[f[j]].rank
    <3>1. ms[i].rank \in Int /\ ms[f[j]].rank \in Int
      BY <2>1, <2>2, <2>4 DEF AreMatches
    <3>2. QED
      BY <2>7, <3>1
  <2>9. f[j] = i
    BY <2>1, <2>2, <2>4, <2>8 DEF NoTies
  <2>10. QED
    BY <1>3, <2>1, <2>3, <2>9 DEF i, j, I, J
<1>6. Representatives(ns) = Representatives(ms)
  <2>1. Representatives(ns) = {ns[Chosen(ns, Group(ns, c))] : c \in Commits(ns)}
    BY DEF Representatives, Group
  <2>2. Representatives(ms) = {ms[Chosen(ms, Group(ms, c))] : c \in Commits(ms)}
    BY DEF Representatives, Group
  <2>3. QED
    BY <1>4, <1>5, <2>1, <2>2
<1>7. \A a : Resolution(ns, a) = Resolution(ms, a)
  BY <1>6 DEF Resolution
<1>8. Resolutions(ns) = Resolutions(ms)
  BY <1>6, <1>7 DEF Resolutions
<1>9. QED
  BY <1>8 DEF ns
================================================================================
