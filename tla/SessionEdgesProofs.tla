-------------------------- MODULE SessionEdgesProofs --------------------------
(***************************************************************************)
(* Proofs about SessionEdges, for any transcripts, sessions, workspaces    *)
(* and domains, and any commits, passes and failures.                      *)
(***************************************************************************)
EXTENDS SessionEdges, FiniteSetTheorems, FunctionTheorems, SequenceTheorems,
        WellFoundedInduction, TLAPS

(* Transcripts are read between two messages.                              *)
BetweenMessages == "growing" \notin Disturb

JobFields == {"pc", "rebuild", "scoped", "todo", "roots", "rebuilt", "open", "view", "hits",
              "tally", "read", "behind"}

EdgeFields == {"id", "session", "path", "cwd", "prose", "commit"}

Typed ==
    /\ script \in [Transcript -> Seq(Line)]
    /\ made \in Seq(SUBSET Path)
    /\ DOMAIN log = Transcript
    /\ \A t \in Transcript : log[t] \in Seq(Nat) /\ Len(log[t]) <= Len(script[t])
    /\ kept \subseteq Transcript
    /\ DOMAIN job = JobFields /\ DOMAIN db = {"edges", "hits", "tally"}
    /\ job.scoped \in BOOLEAN

(* No transcript ends within a message.                                    *)
Whole(t) ==
    LET n == Len(log[t]) IN
    n = 0 \/ n = Len(script[t]) \/ ~SameGroup(script[t][n], script[t][n + 1])

(* What NoLeak says of one row                                             *)
Clean(e) ==
    LET lines == script[e.id[1]]
        i == e.id[2]
    IN /\ e.prose \notin {0, Withheld} =>
            /\ lines[e.prose].session = e.session
            /\ lines[e.prose].cwd = lines[i].cwd
            /\ partitioned =>
                \A k \in DOMAIN lines :
                    /\ lines[k].session = e.session
                    /\ k <= i \/ \A j \in i .. k : SameGroup(lines[i], lines[j])
                    => \A p \in TouchedBy(lines[k]) : p \in Visible \union Neutral
       /\ ~wide => lines[i].cwd \in Workspace /\ e.path \in Workspace \union Neutral
       /\ partitioned => e.path \in Visible /\ e.cwd \in Visible \union {None}

Sound(e) == DOMAIN e = EdgeFields /\ Clean(e)

(* Rows are sound in the database and in the open transaction of a pass;   *)
(* the passes of this database are scoped unless it is a wide one.         *)
LeakInv ==
    /\ Typed
    /\ \A t \in Transcript : Whole(t)
    /\ job.pc # "idle" => wide \/ job.scoped
    /\ \A e \in db.edges \union job.view : Sound(e)

--------------------------------------------------------------------------------
(* A bounded set of numbers that is not empty has its maximum.             *)
LEMMA MaxIsMember ==
    ASSUME NEW n \in Nat, NEW S \in SUBSET (0 .. n), S # {}
    PROVE  Max(S) \in S
<1> DEFINE T == {m \in Nat : n - m \in S}
<1>1. T \subseteq Nat /\ T # {}
  <2>1. PICK x \in S : TRUE
    OBVIOUS
  <2>2. n - x \in Nat /\ n - (n - x) = x
    BY <2>1
  <2>3. n - x \in T
    BY <2>1, <2>2
  <2>4. QED
    BY <2>3
<1>2. PICK m \in T : \A k \in T : <<k, m>> \notin OpToRel(<, Nat)
  BY <1>1, WFMin, NatLessThanWellFounded, Zenon
<1>3. \A k \in T : ~(k < m)
  BY <1>1, <1>2, Zenon DEF OpToRel
<1>4. \A x \in S : x <= n - m
  <2> TAKE x \in S
  <2>1. n - x \in T
    <3>1. n - x \in Nat /\ n - (n - x) = x
      OBVIOUS
    <3>2. QED
      BY <3>1
  <2>2. ~(n - x < m)
    BY <1>3, <2>1
  <2>3. QED
    BY <2>2
<1>5. n - m \in S
  OBVIOUS
<1>6. \A x, y \in S : x >= y <=> y <= x
  OBVIOUS
<1>7. QED
  BY <1>4, <1>5, <1>6, Zenon DEF Max

(* The lines read so far are the first ones of the script.                 *)
LEMMA LinesRead ==
    ASSUME Typed, NEW t \in Transcript
    PROVE  /\ Len(log[t]) \in Nat /\ Len(script[t]) \in Nat
           /\ DOMAIN log[t] = 1 .. Len(log[t]) /\ DOMAIN script[t] = 1 .. Len(script[t])
           /\ Len(Lines(t)) = Len(log[t]) /\ DOMAIN Lines(t) = 1 .. Len(log[t])
           /\ \A i \in 1 .. Len(log[t]) : i \in DOMAIN script[t] /\ Lines(t)[i] = script[t][i]
<1>1. script[t] \in Seq(Line) /\ log[t] \in Seq(Nat) /\ Len(log[t]) <= Len(script[t])
  BY DEF Typed
<1>2. QED
  BY <1>1, LenProperties, SubSeqProperties DEF Lines

(* The rationale of an edit is a line of its own session and directory.    *)
LEMMA ProseIsOwn ==
    ASSUME Typed, NEW t \in Transcript, NEW i \in 1 .. Len(log[t]), Prose(Lines(t), i) # 0
    PROVE  LET j == Prose(Lines(t), i) IN
           script[t][j].session = script[t][i].session /\ script[t][j].cwd = script[t][i].cwd
<1> DEFINE lines == Lines(t)
           texts == {j \in 1 .. i :
                        lines[j].text /\ \A k \in j .. i : lines[k].cwd = lines[i].cwd
                                                      /\ lines[k].session = lines[i].session}
<1>1. i \in Nat /\ texts \in SUBSET (0 .. i)
  BY LinesRead
<1>2. texts # {} /\ Prose(Lines(t), i) = Max(texts)
  BY Zenon DEF Prose
<1>3. PICK j \in texts : j = Max(texts)
  BY <1>1, <1>2, MaxIsMember
<1>4. j \in 1 .. i /\ j \in j .. i
  BY LinesRead
<1>5. lines[j].cwd = lines[i].cwd /\ lines[j].session = lines[i].session
  BY <1>4
<1>6. j \in 1 .. Len(log[t])
  BY <1>4, LinesRead
<1>7. QED
  BY <1>2, <1>3, <1>5, <1>6, LinesRead

(* A message that began in what is read ends in it, so admission has seen  *)
(* all of it.                                                              *)
LEMMA AdmissionSeesMessage ==
    ASSUME Typed, NEW t \in Transcript, Whole(t), NEW i \in 1 .. Len(log[t]),
           Admitted(Lines(t), i), NEW k \in DOMAIN script[t],
           script[t][k].session = script[t][i].session,
           k <= i \/ \A j \in i .. k : SameGroup(script[t][i], script[t][j])
    PROVE  \A p \in TouchedBy(script[t][k]) : p \in Visible \union Neutral
<1> DEFINE n == Len(log[t])
<1>1. k \in 1 .. n
  <2>1. CASE k <= i
    BY <2>1, LinesRead
  <2>2. CASE n < k /\ \A j \in i .. k : SameGroup(script[t][i], script[t][j])
    <3>1. n \in i .. k /\ n + 1 \in i .. k /\ n # 0 /\ n # Len(script[t])
      BY <2>2, LinesRead
    <3>2. SameGroup(script[t][n], script[t][n + 1])
      BY <2>2, <3>1 DEF SameGroup
    <3>3. QED
      BY <3>1, <3>2 DEF Whole
  <2>3. QED
    BY <2>1, <2>2, LinesRead
<1>2. \E j \in k .. n : SameGroup(script[t][i], script[t][j])
  <2>1. CASE k <= i
    BY <1>1, <2>1, LinesRead DEF SameGroup
  <2>2. CASE k > i
    <3>1. k \in i .. k /\ k \in k .. n
      BY <1>1, <2>2, LinesRead
    <3>2. SameGroup(script[t][i], script[t][k])
      BY <2>2, <3>1, LinesRead
    <3>3. QED
      BY <3>1, <3>2
  <2>3. QED
    BY <1>1, <2>1, <2>2, LinesRead
<1>3. \E j \in k .. Len(Lines(t)) : SameGroup(Lines(t)[i], Lines(t)[j])
  BY <1>1, <1>2, LinesRead
<1>4. \A p \in TouchedBy(Lines(t)[k]) : ~Taints(p)
  BY <1>1, <1>3, LinesRead DEF Admitted
<1>5. QED
  BY <1>1, <1>4, LinesRead DEF Taints

(* What a transcript gives a pass, once routed, is sound.                  *)
LEMMA EdgeIsSound ==
    ASSUME Typed, NEW t \in Transcript, Whole(t), NEW scoped \in BOOLEAN, wide \/ scoped,
           NEW e \in EdgesOf(t, scoped), Routed(e)
    PROVE  Sound(e)
<1>0. PICK i \in DOMAIN log[t] :
          \E k \in DOMAIN script[t][i].edits :
              /\ scoped => InScope(script[t][i], script[t][i].edits[k])
              /\ e = EdgeOf(t, i, k)
  BY DEF EdgesOf
<1>1. PICK k \in DOMAIN script[t][i].edits :
          /\ scoped => InScope(script[t][i], script[t][i].edits[k])
          /\ e = EdgeOf(t, i, k)
  BY <1>0
<1>2. i \in 1 .. Len(log[t]) /\ Lines(t)[i] = script[t][i]
  BY LinesRead
<1>3. /\ DOMAIN e = EdgeFields
      /\ e.id = <<t, i, k>> /\ e.session = script[t][i].session
      /\ e.path = script[t][i].edits[k]
      /\ e.cwd = IF ~partitioned \/ script[t][i].cwd \in Visible THEN script[t][i].cwd ELSE None
      /\ e.prose = IF ~partitioned \/ Admitted(Lines(t), i) THEN Prose(Lines(t), i) ELSE Withheld
  BY <1>1, <1>2 DEF EdgeOf, EdgeFields
<1>4. e.id[1] = t /\ e.id[2] = i
  BY <1>3
<1>5. ASSUME e.prose \notin {0, Withheld}
      PROVE  /\ script[t][e.prose].session = e.session
             /\ script[t][e.prose].cwd = script[t][i].cwd
             /\ partitioned => Admitted(Lines(t), i)
  BY <1>2, <1>3, <1>5, ProseIsOwn
<1>6. ~wide => script[t][i].cwd \in Workspace /\ e.path \in Workspace \union Neutral
  BY <1>1, <1>3 DEF InScope
<1>7. partitioned => e.path \in Visible /\ e.cwd \in Visible \union {None}
  BY <1>3 DEF Routed
<1>8. QED
  BY <1>2, <1>3, <1>4, <1>5, <1>6, <1>7, AdmissionSeesMessage DEF Sound, Clean

(* Binding a row to a commit changes nothing else of it.                   *)
LEMMA BindingIsSound ==
    ASSUME NEW e, Sound(e), NEW c
    PROVE  Sound([e EXCEPT !.commit = c])
<1> DEFINE f == [e EXCEPT !.commit = c]
<1>1. DOMAIN f = EdgeFields
  BY DEF Sound
<1>2. f.id = e.id /\ f.session = e.session /\ f.path = e.path /\ f.cwd = e.cwd /\ f.prose = e.prose
  BY DEF Sound, EdgeFields
<1> HIDE DEF f
<1>3. Clean(f)
  BY <1>2 DEF Sound, Clean
<1>4. QED
  BY <1>1, <1>3 DEF Sound, f

LEMMA MergeIsSound ==
    ASSUME NEW old, NEW new, \A e \in old \union new : Sound(e)
    PROVE  \A e \in Merged(old, new) : Sound(e)
  BY BindingIsSound DEF Merged

(* A step that leaves the world and the rows alone keeps them sound.       *)
LEMMA SoundStays ==
    ASSUME UNCHANGED env, NEW e, Sound(e)
    PROVE  Sound(e)'
  BY DEF env, Sound, Clean

--------------------------------------------------------------------------------
(* What a pass takes: the rows of a transcript that are routed to this     *)
(* database, the sessions it drops for them, and what it builds on, which  *)
(* is its transaction once that is open.                                   *)
NewRows(t) == {e \in EdgesOf(t, job.scoped) : Routed(e)}

Drops(t) == IF job.rebuild THEN Dropped(EdgesOf(t, job.scoped)) ELSE {}

HeldRows == IF job.open THEN job.view ELSE db.edges
HeldHits == IF job.open THEN job.hits ELSE db.hits
HeldTally == IF job.open THEN job.tally ELSE db.tally

Staying(t) == KeptRows(HeldRows, Drops(t))

Fresh(old, new) == {e \in new : \A r \in old : r.id # e.id}

LEMMA TakeIs ==
    ASSUME Typed, Take
    PROVE  LET t == Min(job.todo)
               counts == [s \in Session |-> Searches(t, s, job.scoped)]
           IN
           /\ job.pc = "read" /\ UNCHANGED <<env, log, kept, git, db, settled>>
           /\ DOMAIN job' = JobFields /\ job'.pc = job.pc /\ job'.scoped = job.scoped
           /\ job'.rebuild = job.rebuild /\ job'.roots = job.roots /\ job'.behind = job.behind
           /\ t \notin kept =>
                 /\ job'.open = job.open /\ job'.view = job.view /\ job'.hits = job.hits
                 /\ job'.tally = job.tally /\ job'.read = job.read /\ job'.rebuilt = job.rebuilt
           /\ t \in kept =>
                 /\ job'.read = job.read \union {t} /\ job'.rebuilt = job.rebuilt \union Drops(t)
                 /\ job'.open = (job.open \/ Drops(t) # {} \/ NewRows(t) # {} \/ counts # Idle.tally)
                 /\ job'.view = Merged(Staying(t), NewRows(t))
                 /\ job'.hits = KeptHits(HeldHits, Staying(t)) \union
                                    {<<e.id, e.prose>> : e \in Fresh(Staying(t), NewRows(t))}
                 /\ job'.tally = [s \in Session |-> Max({HeldTally[s], counts[s]})]
<1> DEFINE t == Min(job.todo)
           edges == EdgesOf(t, job.scoped)
           drop == IF job.rebuild THEN Dropped(edges) ELSE {}
           new == {e \in edges : Routed(e)}
           start == IF job.open THEN job
                    ELSE [job EXCEPT !.view = db.edges, !.hits = db.hits, !.tally = db.tally]
           stay == KeptRows(start.view, drop)
           found == KeptHits(start.hits, stay)
           tally == [s \in Session |-> Searches(t, s, job.scoped)]
<1>1. UNCHANGED <<env, log, kept, git, db, settled>> /\ job.pc = "read"
  BY DEF Take
<1>2. /\ DOMAIN start = JobFields /\ start.pc = job.pc /\ start.scoped = job.scoped
      /\ start.rebuild = job.rebuild /\ start.roots = job.roots /\ start.behind = job.behind
      /\ start.read = job.read /\ start.rebuilt = job.rebuilt /\ start.open = job.open
      /\ start.view = HeldRows /\ start.hits = HeldHits /\ start.tally = HeldTally
  BY DEF Typed, JobFields, HeldRows, HeldHits, HeldTally
<1>3. ASSUME t \notin kept PROVE job' = [job EXCEPT !.todo = @ \ {t}]
  BY <1>3, Zenon DEF Take
<1>4. ASSUME t \in kept
      PROVE  job' = [start EXCEPT
                !.todo = @ \ {t}, !.read = @ \union {t},
                !.open = @ \/ drop # {} \/ new # {} \/ tally # Idle.tally,
                !.rebuilt = @ \union drop,
                !.view = Merged(stay, new),
                !.hits = found \union {<<e.id, e.prose>> : e \in
                                         {e \in new : \A r \in stay : r.id # e.id}},
                !.tally = [s \in Session |-> Max({start.tally[s], tally[s]})]]
  BY <1>4, Zenon DEF Take
<1>5. /\ drop = Drops(t) /\ new = NewRows(t) /\ stay = Staying(t)
      /\ found = KeptHits(HeldHits, Staying(t))
      /\ {e \in new : \A r \in stay : r.id # e.id} = Fresh(Staying(t), NewRows(t))
  BY <1>2 DEF Drops, NewRows, Staying, Fresh
<1> DEFINE fresh == {e \in new : \A r \in stay : r.id # e.id}
           most == [s \in Session |-> Max({start.tally[s], tally[s]})]
           hits == found \union {<<e.id, e.prose>> : e \in fresh}
<1>6. hits = KeptHits(HeldHits, Staying(t)) \union
                 {<<e.id, e.prose>> : e \in Fresh(Staying(t), NewRows(t))}
  BY <1>5
<1>7. most = [s \in Session |-> Max({HeldTally[s], tally[s]})]
  BY <1>2
<1>8. ASSUME t \in kept
      PROVE  job' = [start EXCEPT
                !.todo = @ \ {t}, !.read = @ \union {t},
                !.open = @ \/ drop # {} \/ new # {} \/ tally # Idle.tally,
                !.rebuilt = @ \union drop, !.view = Merged(stay, new), !.hits = hits,
                !.tally = most]
  BY <1>4, <1>8
<1> HIDE DEF start, stay, new, tally, found, drop, t, edges, fresh, most, hits
<1>9. ASSUME t \in kept
      PROVE  /\ DOMAIN job' = JobFields /\ job'.pc = job.pc /\ job'.scoped = job.scoped
             /\ job'.rebuild = job.rebuild /\ job'.roots = job.roots /\ job'.behind = job.behind
             /\ job'.read = job.read \union {t} /\ job'.rebuilt = job.rebuilt \union drop
             /\ job'.open = (job.open \/ drop # {} \/ new # {} \/ tally # Idle.tally)
             /\ job'.view = Merged(stay, new) /\ job'.hits = hits /\ job'.tally = most
  <2>1. /\ DOMAIN job' = DOMAIN start /\ job'.pc = start.pc /\ job'.scoped = start.scoped
        /\ job'.rebuild = start.rebuild /\ job'.roots = start.roots /\ job'.behind = start.behind
    BY <1>2, <1>8, <1>9 DEF JobFields
  <2>2. job'.read = start.read \union {t} /\ job'.rebuilt = start.rebuilt \union drop
    BY <1>2, <1>8, <1>9 DEF JobFields
  <2>3. job'.open = (start.open \/ drop # {} \/ new # {} \/ tally # Idle.tally)
    BY <1>2, <1>8, <1>9 DEF JobFields
  <2>4. job'.view = Merged(stay, new) /\ job'.hits = hits /\ job'.tally = most
    BY <1>2, <1>8, <1>9 DEF JobFields
  <2>5. QED
    BY <1>2, <2>1, <2>2, <2>3, <2>4
<1>10. ASSUME t \notin kept
       PROVE  /\ DOMAIN job' = JobFields /\ job'.pc = job.pc /\ job'.scoped = job.scoped
              /\ job'.rebuild = job.rebuild /\ job'.roots = job.roots /\ job'.behind = job.behind
              /\ job'.open = job.open /\ job'.view = job.view /\ job'.hits = job.hits
              /\ job'.tally = job.tally /\ job'.read = job.read /\ job'.rebuilt = job.rebuilt
  BY <1>3, <1>10 DEF Typed, JobFields
<1>11. QED
  BY <1>1, <1>5, <1>6, <1>7, <1>9, <1>10 DEF t, tally

(* Types are kept, whatever happens.                                       *)
LEMMA TypedSay ==
    ASSUME Typed, NEW t \in Transcript, Say(t) PROVE Typed'
<1> DEFINE n == Len(log[t])
<1>1. PICK k \in n + 1 .. Len(script[t]) :
          log' = [log EXCEPT ![t] = [i \in 1 .. k |-> IF i <= n THEN log[t][i] ELSE Now]]
  BY DEF Say
<1>2. log[t] \in Seq(Nat) /\ n \in Nat /\ Len(script[t]) \in Nat /\ k \in Nat /\ Now \in Nat
  BY LinesRead, LenProperties DEF Typed, Now
<1>3. /\ DOMAIN log' = Transcript
      /\ log'[t] = [i \in 1 .. k |-> IF i <= n THEN log[t][i] ELSE Now]
      /\ \A u \in Transcript \ {t} : log'[u] = log[u]
  BY <1>1 DEF Typed
<1>4. log'[t] \in Seq(Nat) /\ Len(log'[t]) = k
  <2>1. \A i \in 1 .. k : i <= n => log[t][i] \in Nat
    BY <1>2, ElementOfSeq
  <2>2. log'[t] \in [1 .. k -> Nat]
    BY <1>2, <1>3, <2>1
  <2>3. QED
    BY <1>2, <2>2, LenProperties
<1>5. UNCHANGED <<env, kept, made, db>> /\ DOMAIN job' = DOMAIN job /\ job'.scoped = job.scoped
  BY DEF Say, git, Typed, JobFields
<1>6. Len(log'[t]) <= Len(script[t])
  BY <1>2, <1>4
<1>7. \A u \in Transcript : log'[u] \in Seq(Nat) /\ Len(log'[u]) <= Len(script[u])
  BY <1>3, <1>4, <1>6 DEF Typed
<1>8. DOMAIN job = JobFields /\ DOMAIN db = {"edges", "hits", "tally"}
  BY DEF Typed
<1>9. QED
  BY <1>3, <1>5, <1>7, <1>8 DEF Typed, env

LEMMA TypedStep == Typed /\ [Next]_vars => Typed'
<1> SUFFICES ASSUME Typed, [Next]_vars PROVE Typed'
  OBVIOUS
<1>1. ASSUME NEW paths \in Touched, MakeCommit(paths) PROVE Typed'
  <2>1. paths \in SUBSET Path
    BY SessionAssumption
  <2>2. made' \in Seq(SUBSET Path)
    BY <1>1, <2>1 DEF MakeCommit, Typed
  <2>3. QED
    BY <1>1, <2>2 DEF MakeCommit, Typed, env
<1>2. ASSUME NEW t \in Transcript, Delete(t) PROVE Typed'
  BY <1>2 DEF Delete, git, Typed, env
<1>3. ASSUME NEW c \in Commit, Merge(c) \/ Rewrite(c) PROVE Typed'
  BY <1>3 DEF Merge, Rewrite, Typed, env
<1>4. CASE IndexCommits
  BY <1>4 DEF IndexCommits, Typed, env, JobFields
<1>5. CASE Begin
  <2>1. DOMAIN job' = JobFields /\ job'.scoped \in BOOLEAN
    BY <1>5 DEF Begin, Idle, JobFields
  <2>2. QED
    BY <1>5, <2>1 DEF Begin, git, Typed, env
<1>6. CASE Take
  BY <1>6, TakeIs DEF git, Typed, env
<1>7. CASE Finish
  <2>1. DOMAIN job' = JobFields /\ job'.scoped \in BOOLEAN
    BY <1>7 DEF Finish, Idle, JobFields
  <2>2. DOMAIN db' = {"edges", "hits", "tally"}
    BY <1>7 DEF Finish, Typed
  <2>3. QED
    BY <1>7, <2>1, <2>2 DEF Finish, git, Typed, env
<1>8. CASE Fail
  <2>1. DOMAIN job' = JobFields /\ job'.scoped \in BOOLEAN
    BY <1>8 DEF Fail, Idle, JobFields
  <2>2. QED
    BY <1>8, <2>1 DEF Fail, git, Typed, env
<1>9. CASE UNCHANGED vars
  BY <1>9 DEF vars, git, Typed, env
<1>10. QED
  BY <1>1, <1>2, <1>3, <1>4, <1>5, <1>6, <1>7, <1>8, <1>9, TypedSay DEF Next

--------------------------------------------------------------------------------
LEMMA LeakInit == Init => LeakInv
<1> SUFFICES ASSUME Init PROVE LeakInv
  OBVIOUS
<1>1. script \in [Transcript -> Seq(Line)]
  BY SessionAssumption DEF Init
<1>2. /\ DOMAIN log = Transcript
      /\ \A t \in Transcript : log[t] = <<>> /\ log[t] \in Seq(Nat) /\ Len(log[t]) = 0
  BY DEF Init
<1>3. \A t \in Transcript : Len(log[t]) <= Len(script[t])
  <2> TAKE t \in Transcript
  <2>1. Len(script[t]) \in Nat
    BY <1>1, LenProperties
  <2>2. QED
    BY <1>2, <2>1
<1>4. DOMAIN job = JobFields /\ job.pc = "idle" /\ job.view = {} /\ job.scoped = FALSE
  BY DEF Init, Idle, JobFields
<1>5. DOMAIN db = {"edges", "hits", "tally"} /\ db.edges = {}
  BY DEF Init
<1>6. made \in Seq(SUBSET Path) /\ kept \subseteq Transcript
  BY DEF Init
<1>7. QED
  BY <1>1, <1>2, <1>3, <1>4, <1>5, <1>6 DEF LeakInv, Typed, Whole

(* A transcript grows by whole messages.                                   *)
LEMMA SayStep ==
    ASSUME BetweenMessages, LeakInv, NEW t \in Transcript, Say(t) PROVE LeakInv'
<1> DEFINE n == Len(log[t])
<1>1. PICK k \in n + 1 .. Len(script[t]) :
          /\ k = Len(script[t]) \/ (k < Len(script[t]) /\ ~SameGroup(script[t][k], script[t][k + 1]))
          /\ log' = [log EXCEPT ![t] = [i \in 1 .. k |-> IF i <= n THEN log[t][i] ELSE Now]]
  BY DEF Say, BetweenMessages
<1>2. log[t] \in Seq(Nat) /\ n \in Nat /\ Len(script[t]) \in Nat /\ k \in Nat /\ Now \in Nat
  BY LinesRead, LenProperties DEF LeakInv, Typed, Now
<1>3. /\ DOMAIN log' = Transcript
      /\ log'[t] = [i \in 1 .. k |-> IF i <= n THEN log[t][i] ELSE Now]
      /\ \A u \in Transcript \ {t} : log'[u] = log[u]
  BY <1>1 DEF LeakInv, Typed
<1>4. Typed' /\ Len(log'[t]) = k
  <2>1. Typed' /\ log'[t] \in Seq(Nat)
    BY TypedSay DEF LeakInv, Typed
  <2>2. log'[t] \in [1 .. k -> Nat]
    BY <1>2, <1>3, <2>1
  <2>3. QED
    BY <1>2, <2>1, <2>2, LenProperties
<1>5. UNCHANGED <<env, db>> /\ job'.pc = job.pc /\ job'.scoped = job.scoped /\ job'.view = job.view
  BY DEF Say, git, LeakInv, Typed, JobFields
<1>6. \A u \in Transcript : Whole(u)'
  BY <1>1, <1>3, <1>4, <1>5 DEF LeakInv, Whole, env
<1>7. QED
  BY <1>4, <1>5, <1>6, SoundStays DEF LeakInv, env

(* A step of git or of the retention that leaves rows and transcripts      *)
LEMMA QuietStep ==
    ASSUME LeakInv, UNCHANGED <<env, log, db, job>>,
           kept' \subseteq Transcript, made' \in Seq(SUBSET Path)
    PROVE  LeakInv'
<1>1. Typed' /\ \A t \in Transcript : Whole(t)'
  BY DEF LeakInv, Typed, Whole, env
<1>2. QED
  BY <1>1, SoundStays DEF LeakInv, env

(* A step of a pass                                                        *)
LEMMA PassStep ==
    ASSUME LeakInv, UNCHANGED <<env, log, kept, made>>,
           DOMAIN job' = JobFields, DOMAIN db' = {"edges", "hits", "tally"},
           job'.scoped \in BOOLEAN, job'.pc # "idle" => wide \/ job'.scoped,
           \A e \in db'.edges \union job'.view : Sound(e)
    PROVE  LeakInv'
<1>1. Typed' /\ \A t \in Transcript : Whole(t)'
  BY DEF LeakInv, Typed, Whole, env
<1>2. QED
  BY <1>1, SoundStays DEF LeakInv, env

LEMMA TakeStep ==
    ASSUME LeakInv, Take PROVE LeakInv'
<1> DEFINE t == Min(job.todo)
<1>1. /\ UNCHANGED <<env, log, kept, made, db>> /\ job.pc = "read"
      /\ DOMAIN job' = JobFields /\ job'.pc = job.pc /\ job'.scoped = job.scoped
      /\ t \notin kept => job'.view = job.view
      /\ t \in kept => job'.view = Merged(Staying(t), NewRows(t))
  BY TakeIs DEF LeakInv, git
<1>2. ASSUME t \in kept PROVE \A e \in Merged(Staying(t), NewRows(t)) : Sound(e)
  <2>1. t \in Transcript /\ Whole(t)
    BY <1>2 DEF LeakInv, Typed
  <2>2. \A e \in NewRows(t) : Sound(e)
    BY <1>1, <2>1, EdgeIsSound DEF LeakInv, Typed, NewRows
  <2>3. \A e \in Staying(t) : Sound(e)
    BY DEF LeakInv, Staying, KeptRows, HeldRows
  <2>4. QED
    BY <2>2, <2>3, MergeIsSound
<1> HIDE DEF t
<1>3. \A e \in db'.edges \union job'.view : Sound(e)
  BY <1>1, <1>2 DEF LeakInv
<1>4. QED
  BY <1>1, <1>3, PassStep DEF LeakInv, Typed

LEMMA LeakStep ==
    ASSUME BetweenMessages PROVE LeakInv /\ [Next]_vars => LeakInv'
<1> SUFFICES ASSUME LeakInv, [Next]_vars PROVE LeakInv'
  OBVIOUS
<1>1. ASSUME NEW t \in Transcript, Say(t) PROVE LeakInv'
  BY <1>1, SayStep
<1>2. ASSUME NEW t \in Transcript, Delete(t) PROVE LeakInv'
  BY <1>2, QuietStep DEF Delete, git, LeakInv, Typed
<1>3. ASSUME NEW paths \in Touched, MakeCommit(paths) PROVE LeakInv'
  <2>1. paths \in SUBSET Path
    BY SessionAssumption
  <2>2. made' \in Seq(SUBSET Path)
    BY <1>3, <2>1 DEF MakeCommit, LeakInv, Typed
  <2>3. QED
    BY <1>3, <2>2, QuietStep DEF MakeCommit, LeakInv, Typed
<1>4. ASSUME NEW c \in Commit, Merge(c) \/ Rewrite(c) PROVE LeakInv'
  BY <1>4, QuietStep DEF Merge, Rewrite, LeakInv, Typed
<1>5. CASE IndexCommits
  <2>1. /\ UNCHANGED <<env, log, kept, made>>
        /\ DOMAIN job' = JobFields /\ job'.pc = job.pc /\ job'.scoped = job.scoped
        /\ job'.view = job.view
    BY <1>5 DEF IndexCommits, LeakInv, Typed, JobFields
  <2>2. /\ DOMAIN db' = {"edges", "hits", "tally"}
        /\ db'.edges = {IF e.commit \in head THEN e ELSE [e EXCEPT !.commit = None] : e \in db.edges}
    BY <1>5 DEF IndexCommits, LeakInv, Typed
  <2>3. \A e \in db'.edges : Sound(e)
    BY <2>2, BindingIsSound DEF LeakInv
  <2>4. QED
    BY <2>1, <2>2, <2>3, PassStep DEF LeakInv, Typed
<1>6. CASE Begin
  <2>1. PICK rebuild, scoped \in BOOLEAN, todo \in {kept} \union {{t} : t \in kept} :
            /\ IF scoped THEN todo = kept ELSE wide
            /\ job' = [Idle EXCEPT !.pc = "read", !.rebuild = rebuild, !.scoped = scoped,
                                   !.todo = todo, !.roots = indexed # {}]
    BY <1>6 DEF Begin
  <2>2. DOMAIN job' = JobFields /\ job'.scoped = scoped /\ job'.view = {}
    BY <2>1 DEF Idle, JobFields
  <2>3. UNCHANGED <<env, log, kept, made, db>>
    BY <1>6 DEF Begin, git
  <2>4. QED
    BY <2>1, <2>2, <2>3, PassStep DEF LeakInv, Typed
<1>7. CASE Take
  BY <1>7, TakeStep
<1>8. CASE Finish
  <2>1. /\ UNCHANGED <<env, log, kept, made>>
        /\ DOMAIN job' = JobFields /\ job'.pc = "idle" /\ job'.view = {} /\ job'.scoped = FALSE
    BY <1>8 DEF Finish, git, Idle, JobFields
  <2>2. /\ DOMAIN db' = {"edges", "hits", "tally"}
        /\ db'.edges \in {job.view, db.edges}
    BY <1>8 DEF Finish, LeakInv, Typed
  <2>3. QED
    BY <2>1, <2>2, PassStep DEF LeakInv
<1>9. CASE Fail
  <2>1. /\ UNCHANGED <<env, log, kept, made, db>>
        /\ DOMAIN job' = JobFields /\ job'.pc = "idle" /\ job'.view = {} /\ job'.scoped = FALSE
    BY <1>9 DEF Fail, git, Idle, JobFields
  <2>2. QED
    BY <2>1, PassStep DEF LeakInv, Typed
<1>10. CASE UNCHANGED vars
  BY <1>10, QuietStep DEF vars, git, LeakInv, Typed
<1>11. QED
  BY <1>1, <1>2, <1>3, <1>4, <1>5, <1>6, <1>7, <1>8, <1>9, <1>10 DEF Next

(* Nothing of another workspace or domain gets into the database: no       *)
(* target, no directory, no prose of a session that has touched a foreign  *)
(* path by the end of the message (route_and_insert, admission_map,        *)
(* target_in_scope), over passes of any scope that fail, overlap in what   *)
(* they read or rebuild, provided that no pass meets half a message.       *)
THEOREM NothingLeaks ==
    ASSUME BetweenMessages PROVE Spec => []NoLeak
<1>1. Init => LeakInv
  BY LeakInit
<1>2. LeakInv /\ [Next]_vars => LeakInv'
  BY LeakStep
<1>3. LeakInv => NoLeak
  <2> SUFFICES ASSUME LeakInv, NEW e \in db.edges PROVE Clean(e)
    BY DEF NoLeak, ProseIsClean, Clean
  <2>1. QED
    BY DEF LeakInv, Sound
<1>4. QED
  BY <1>1, <1>2, <1>3, PTL DEF Spec
--------------------------------------------------------------------------------
(* Why a pass leaves nothing out and takes nothing away                    *)

(* No commit gets to be older than what was indexed before it.             *)
NoMerge == "merge" \notin Disturb

(* The edits of a transcript that are the workspace's and the database's,  *)
(* by the ids their rows have                                              *)
Owes(t) ==
    UNION {{<<t, i, k>> : k \in {m \in DOMAIN script[t][i].edits :
                /\ InScope(script[t][i], script[t][i].edits[m])
                /\ Routed([path |-> script[t][i].edits[m]])}} : i \in DOMAIN log[t]}

SessionOf(id) == script[id[1]][id[2]].session

(* Bound to the oldest, where that can be said                             *)
Bound(e) == NoMerge => e.commit = Capturing(e.path, log[e.id[1]][e.id[2]])

(* A row is that of an edit; it is bound to the oldest commit, or to none. *)
IsRowOf(e, t, i, k) ==
    /\ e.id = <<t, i, k>> /\ i \in DOMAIN log[t] /\ k \in DOMAIN script[t][i].edits
    /\ e.path = script[t][i].edits[k] /\ e.session = script[t][i].session
    /\ Routed(e)

RowOK(e) ==
    /\ DOMAIN e = EdgeFields
    /\ \E t \in Transcript : \E i \in DOMAIN log[t] : \E k \in DOMAIN script[t][i].edits :
          IsRowOf(e, t, i, k)
    /\ e.commit = None \/ Bound(e)

(* Rows of their own ids, each with its search row                         *)
TableOK(rows, hits) ==
    /\ \A e \in rows : RowOK(e)
    /\ \A e, f \in rows : e.id = f.id => e = f
    /\ hits = {<<e.id, e.prose>> : e \in rows}

(* The rows have what is owed of t, ...                                    *)
Holds(rows, t) == \A o \in Owes(t) : \E e \in rows : e.id = o

(* ... bound.                                                              *)
AllBound(rows, t) == \A e \in rows : e.id[1] = t /\ e.id \in Owes(t) => Bound(e)

(* The transaction of a pass, against the database and what pass j has read*)
ViewOK(j, rows, hits, tally) ==
    /\ TableOK(rows, hits)
    /\ \A t \in j.read :
          /\ Holds(rows, t)
          /\ ~j.behind => AllBound(rows, t)
          /\ j.rebuild => \A o \in Owes(t) : SessionOf(o) \in j.rebuilt
    /\ \A e \in rows \ db.edges : e.id[1] \in settled => e.id[1] \in j.read
    /\ \A e \in db.edges :
          (\E f \in rows : f.id = e.id) \/ (j.rebuild /\ e.session \in j.rebuilt)
    /\ DOMAIN tally = Session /\ \A s \in Session : tally[s] \in Nat /\ tally[s] >= db.tally[s]

JobOK(j) ==
    /\ j.open => ViewOK(j, j.view, j.hits, j.tally)
    /\ ~j.open => \A t \in j.read : Owes(t) = {}
    /\ j.pc = "read" /\ ~j.behind /\ ~j.roots => indexed = {}
    /\ j.pc = "read" /\ j.behind => settled = {}

GitOK ==
    /\ head \subseteq 1 .. Len(made) /\ indexed \subseteq 1 .. Len(made)
    /\ NoMerge => \A c \in head \ indexed : \A d \in indexed : d < c

(* Tables and transaction are in order, what passes have settled is owed   *)
(* and held, and what waits to be indexed is younger than what is.         *)
FullInv ==
    /\ Typed /\ GitOK
    /\ settled \subseteq Transcript /\ job.read \subseteq Transcript
    /\ TableOK(db.edges, db.hits)
    /\ DOMAIN db.tally = Session /\ \A s \in Session : db.tally[s] \in Nat
    /\ \A t \in settled : Holds(db.edges, t) /\ AllBound(db.edges, t)
    /\ JobOK(job)

LEMMA MinIsLeast ==
    ASSUME NEW S \in SUBSET Nat, S # {}
    PROVE  Min(S) \in S /\ \A x \in S : Min(S) <= x
<1>1. PICK m \in S : \A k \in S : <<k, m>> \notin OpToRel(<, Nat)
  BY WFMin, NatLessThanWellFounded, Zenon
<1>2. \A k \in S : ~(k < m)
  BY <1>1, Zenon DEF OpToRel
<1>3. \A x \in S : m <= x
  BY <1>2
<1>4. QED
  BY <1>3, Zenon DEF Min

(* What captures an edit is the oldest of those that may                   *)
LEMMA CapturingIs ==
    ASSUME GitOK, NEW p, NEW at
    PROVE  LET S == {c \in indexed : c >= at /\ p \in made[c]} IN
           IF p \notin Workspace \/ S = {} THEN Capturing(p, at) = None
           ELSE Capturing(p, at) \in S /\ \A c \in S : Capturing(p, at) <= c
<1> DEFINE S == {c \in indexed : c >= at /\ p \in made[c]}
<1>1. S \in SUBSET Nat
  <2>1. indexed \subseteq 1 .. Len(made)
    BY DEF GitOK
  <2>2. QED
    BY <2>1
<1>2. S # {} => Min(S) \in S /\ \A c \in S : Min(S) <= c
  <2> HIDE DEF S
  <2>1. QED
    BY <1>1, MinIsLeast
<1>3. Capturing(p, at) = IF p \notin Workspace \/ S = {} THEN None ELSE Min(S)
  BY DEF Capturing
<1> HIDE DEF S
<1>4. IF p \notin Workspace \/ S = {} THEN Capturing(p, at) = None
      ELSE Capturing(p, at) \in S /\ \A c \in S : Capturing(p, at) <= c
  BY <1>2, <1>3
<1>5. QED
  BY <1>4 DEF S

(* A commit that stays indexed keeps what it captured: those that come are *)
(* younger.                                                                *)
LEMMA CapturingStays ==
    ASSUME NoMerge, GitOK, GitOK', indexed' = head, UNCHANGED made, NEW p, NEW at,
           Capturing(p, at) \in head
    PROVE  Capturing(p, at)' = Capturing(p, at)
<1> DEFINE S == {c \in indexed : c >= at /\ p \in made[c]}
           T == {c \in head : c >= at /\ p \in made[c]}
           m == Capturing(p, at)
<1>0. head \in SUBSET Nat /\ \A c \in head \ indexed : \A d \in indexed : d < c
  <2>1. head \subseteq 1 .. Len(made) /\ \A c \in head \ indexed : \A d \in indexed : d < c
    BY DEF GitOK
  <2>2. QED
    BY <2>1
<1>1. m # None /\ m \in Nat
  <2>1. None \notin Nat
    BY SessionAssumption
  <2> HIDE DEF m
  <2>2. QED
    BY <1>0, <2>1 DEF m
<1>2. p \in Workspace /\ m \in S /\ \A c \in S : m <= c
  BY <1>1, CapturingIs
<1>3. m \in T /\ \A c \in T : m <= c
  <2>1. m \in T
    BY <1>2
  <2>2. ASSUME NEW c \in T PROVE m <= c
    <3>1. CASE c \in indexed
      BY <1>2, <3>1
    <3>2. CASE c \notin indexed
      <4>1. m < c /\ c \in Nat
        BY <1>0, <1>2, <3>2
      <4> HIDE DEF m
      <4>2. QED
        BY <1>1, <4>1
    <3>3. QED
      BY <3>1, <3>2
  <2>3. QED
    BY <2>1, <2>2
<1>4. T \in SUBSET Nat
  BY <1>0
<1>5. Capturing(p, at)' = Min(T)
  BY <1>2, <1>3 DEF Capturing
<1>6. Min(T) \in T /\ \A c \in T : Min(T) <= c
  <2> HIDE DEF T
  <2>1. QED
    BY <1>3, <1>4, MinIsLeast
<1>7. QED
  <2> DEFINE x == Min(T)
  <2>1. x \in Nat /\ x <= m /\ m <= x
    BY <1>3, <1>4, <1>6
  <2> HIDE DEF x, m
  <2>2. x = m
    BY <1>1, <2>1
  <2>3. QED
    BY <1>5, <2>2 DEF x, m

(* A new commit that is not indexed captures nothing.                      *)
LEMMA CapturingSame ==
    ASSUME GitOK, UNCHANGED indexed, made' = made \/ \E x : made' = Append(made, x),
           made \in Seq(SUBSET Path), made' \in Seq(SUBSET Path), NEW p, NEW at
    PROVE  Capturing(p, at)' = Capturing(p, at)
<1>1. \A c \in indexed : made'[c] = made[c]
  BY DEF GitOK
<1>2. {c \in indexed : c >= at /\ p \in made'[c]} = {c \in indexed : c >= at /\ p \in made[c]}
  BY <1>1
<1>3. QED
  BY <1>2 DEF Capturing

--------------------------------------------------------------------------------
(* The edges of a transcript                                               *)

LEMMA EdgeIs ==
    ASSUME Typed, NEW t \in Transcript, NEW i \in DOMAIN log[t],
           NEW k \in DOMAIN script[t][i].edits
    PROVE  LET e == EdgeOf(t, i, k) IN
           /\ DOMAIN e = EdgeFields /\ e.id = <<t, i, k>>
           /\ e.path = script[t][i].edits[k] /\ e.session = script[t][i].session
           /\ e.commit = IF job.roots THEN Capturing(e.path, log[t][i]) ELSE None
  BY LinesRead DEF EdgeOf, EdgeFields

LEMMA EdgesAre ==
    ASSUME Typed, NEW t \in Transcript, NEW scoped
    PROVE  /\ \A e \in EdgesOf(t, scoped) :
                 /\ DOMAIN e = EdgeFields /\ e.id[1] = t
                 /\ Routed(e) => \E i \in DOMAIN log[t] : \E k \in DOMAIN script[t][i].edits :
                                    IsRowOf(e, t, i, k)
                 /\ e.commit = IF job.roots THEN Capturing(e.path, log[e.id[1]][e.id[2]]) ELSE None
           /\ \A e, f \in EdgesOf(t, scoped) : e.id = f.id => e = f
           /\ \A o \in Owes(t) : \E e \in EdgesOf(t, scoped) :
                 e.id = o /\ Routed(e) /\ e.session = SessionOf(o)
<1>1. ASSUME NEW e \in EdgesOf(t, scoped)
      PROVE  \E i \in DOMAIN log[t] : \E k \in DOMAIN script[t][i].edits : e = EdgeOf(t, i, k)
  BY DEF EdgesOf
<1>2. ASSUME NEW e \in EdgesOf(t, scoped)
      PROVE  /\ DOMAIN e = EdgeFields /\ e.id[1] = t
             /\ Routed(e) => \E i \in DOMAIN log[t] : \E k \in DOMAIN script[t][i].edits :
                                IsRowOf(e, t, i, k)
             /\ e.commit = IF job.roots THEN Capturing(e.path, log[e.id[1]][e.id[2]]) ELSE None
  <2>1. PICK i \in DOMAIN log[t] : \E k \in DOMAIN script[t][i].edits : e = EdgeOf(t, i, k)
    BY <1>1
  <2>2. PICK k \in DOMAIN script[t][i].edits : e = EdgeOf(t, i, k)
    BY <2>1
  <2>3. /\ DOMAIN e = EdgeFields /\ e.id = <<t, i, k>>
        /\ e.path = script[t][i].edits[k] /\ e.session = script[t][i].session
        /\ e.commit = IF job.roots THEN Capturing(e.path, log[t][i]) ELSE None
    BY <2>2, EdgeIs
  <2>4. e.id[1] = t /\ e.id[2] = i
    BY <2>3
  <2>5. QED
    BY <2>3, <2>4 DEF IsRowOf
<1>3. ASSUME NEW e \in EdgesOf(t, scoped), NEW f \in EdgesOf(t, scoped), e.id = f.id
      PROVE  e = f
  <2>1. PICK i \in DOMAIN log[t] : \E k \in DOMAIN script[t][i].edits : e = EdgeOf(t, i, k)
    BY <1>1
  <2>2. PICK k \in DOMAIN script[t][i].edits : e = EdgeOf(t, i, k)
    BY <2>1
  <2>3. PICK j \in DOMAIN log[t] : \E m \in DOMAIN script[t][j].edits : f = EdgeOf(t, j, m)
    BY <1>1
  <2>4. PICK m \in DOMAIN script[t][j].edits : f = EdgeOf(t, j, m)
    BY <2>3
  <2>5. e.id = <<t, i, k>> /\ f.id = <<t, j, m>>
    BY <2>2, <2>4, EdgeIs
  <2>6. i = j /\ k = m
    <3>1. <<t, i, k>> = <<t, j, m>>
      BY <1>3, <2>5
    <3>2. QED
      BY <3>1
  <2>7. QED
    BY <2>2, <2>4, <2>6
<1>4. ASSUME NEW o \in Owes(t)
      PROVE  \E e \in EdgesOf(t, scoped) : e.id = o /\ Routed(e) /\ e.session = SessionOf(o)
  <2>1. PICK i \in DOMAIN log[t] :
            o \in {<<t, i, k>> : k \in {m \in DOMAIN script[t][i].edits :
                /\ InScope(script[t][i], script[t][i].edits[m])
                /\ Routed([path |-> script[t][i].edits[m]])}}
    BY DEF Owes
  <2>2. PICK k \in DOMAIN script[t][i].edits :
            /\ o = <<t, i, k>> /\ InScope(script[t][i], script[t][i].edits[k])
            /\ Routed([path |-> script[t][i].edits[k]])
    BY <2>1
  <2> DEFINE e == EdgeOf(t, i, k)
  <2>3. e.id = o /\ e.path = script[t][i].edits[k] /\ e.session = script[t][i].session
    BY <2>2, EdgeIs
  <2>4. e \in EdgesOf(t, scoped)
    BY <2>2 DEF EdgesOf
  <2>5. o[1] = t /\ o[2] = i
    BY <2>2
  <2> HIDE DEF e
  <2>6. Routed(e) /\ e.session = SessionOf(o)
    BY <2>2, <2>3, <2>5 DEF Routed, SessionOf
  <2>7. QED
    BY <2>3, <2>4, <2>6
<1>5. QED
  BY <1>2, <1>3, <1>4

(* What is owed of t, and a row's place                                    *)
LEMMA RowPlace ==
    ASSUME NEW e, RowOK(e)
    PROVE  /\ e.id[1] \in Transcript /\ e.session = SessionOf(e.id)
           /\ e.id \in Owes(e.id[1]) <=> InScope(script[e.id[1]][e.id[2]], e.path)
<1>1. PICK t \in Transcript : \E i \in DOMAIN log[t] : \E k \in DOMAIN script[t][i].edits :
          IsRowOf(e, t, i, k)
  BY DEF RowOK
<1>2. PICK i \in DOMAIN log[t] : \E k \in DOMAIN script[t][i].edits : IsRowOf(e, t, i, k)
  BY <1>1
<1>3. PICK k \in DOMAIN script[t][i].edits : IsRowOf(e, t, i, k)
  BY <1>2
<1>4. /\ e.id = <<t, i, k>> /\ e.path = script[t][i].edits[k] /\ e.session = script[t][i].session
      /\ Routed(e)
  BY <1>3 DEF IsRowOf
<1>5. e.id[1] = t /\ e.id[2] = i
  BY <1>4
<1>6. e.id \in Owes(t) <=> InScope(script[t][i], e.path)
  <2>1. e.id \in Owes(t) => InScope(script[t][i], script[t][i].edits[k])
    BY <1>4 DEF Owes
  <2>2. InScope(script[t][i], script[t][i].edits[k]) => e.id \in Owes(t)
    BY <1>4 DEF Owes, Routed
  <2>3. QED
    BY <1>4, <2>1, <2>2
<1>7. QED
  BY <1>4, <1>5, <1>6 DEF SessionOf

--------------------------------------------------------------------------------
(* The world goes on                                                       *)

(* What has been said stays said.                                          *)
Says == \A t \in Transcript : \A i \in DOMAIN log[t] :
           i \in DOMAIN log'[t] /\ log'[t][i] = log[t][i]

(* What captures an edit stays the same.                                   *)
SameCapture == \A p, at : Capturing(p, at)' = Capturing(p, at)

LEMMA RowStays ==
    ASSUME UNCHANGED env, Says, SameCapture, NEW e, RowOK(e)
    PROVE  RowOK(e)' /\ (Bound(e)' <=> Bound(e))
<1>1. PICK t \in Transcript : \E i \in DOMAIN log[t] : \E k \in DOMAIN script[t][i].edits :
          IsRowOf(e, t, i, k)
  BY DEF RowOK
<1>2. PICK i \in DOMAIN log[t] : \E k \in DOMAIN script[t][i].edits : IsRowOf(e, t, i, k)
  BY <1>1
<1>3. PICK k \in DOMAIN script[t][i].edits : IsRowOf(e, t, i, k)
  BY <1>2
<1>4. e.id[1] = t /\ e.id[2] = i
  BY <1>3 DEF IsRowOf
<1>5. i \in DOMAIN log'[t] /\ log'[t][i] = log[t][i] /\ script' = script
  BY DEF Says, env
<1>6. IsRowOf(e, t, i, k)'
  BY <1>3, <1>5 DEF IsRowOf, Routed, env
<1>7. Bound(e)' <=> Bound(e)
  <2>1. Capturing(e.path, log[t][i])' = Capturing(e.path, log[t][i])
    <3> DEFINE at == log[t][i]
    <3>1. PICK x : x = log[t][i]
      OBVIOUS
    <3>2. Capturing(e.path, x)' = Capturing(e.path, x)
      BY DEF SameCapture
    <3>3. Capturing(e.path, log[t][i])' = Capturing(e.path, x)'
      BY <1>5, <3>1 DEF Capturing
    <3>4. QED
      BY <3>1, <3>2, <3>3
  <2>2. Bound(e) <=> (NoMerge => e.commit = Capturing(e.path, log[t][i]))
    BY <1>4 DEF Bound
  <2>3. Bound(e)' <=> (NoMerge => e.commit = Capturing(e.path, log[t][i])')
    BY <1>4 DEF Bound
  <2>4. QED
    BY <2>1, <2>2, <2>3
<1>8. (\E u \in Transcript : \E j \in DOMAIN log[u] : \E m \in DOMAIN script[u][j].edits :
          IsRowOf(e, u, j, m))'
  BY <1>5, <1>6
<1>9. QED
  BY <1>7, <1>8 DEF RowOK

LEMMA OwesStays ==
    ASSUME UNCHANGED env, NEW t \in Transcript, log'[t] = log[t]
    PROVE  Owes(t)' = Owes(t)
  BY DEF Owes, Routed, env

LEMMA TableStays ==
    ASSUME UNCHANGED env, Says, SameCapture, NEW rows, NEW hits, TableOK(rows, hits)
    PROVE  TableOK(rows, hits)'
  BY RowStays DEF TableOK

LEMMA OwedStays ==
    ASSUME UNCHANGED env, Says, SameCapture, NEW rows, NEW hits, TableOK(rows, hits),
           NEW t \in Transcript, log'[t] = log[t]
    PROVE  /\ Holds(rows, t) => Holds(rows, t)'
           /\ AllBound(rows, t) => AllBound(rows, t)'
<1>1. Owes(t)' = Owes(t)
  BY OwesStays
<1>2. Holds(rows, t) => Holds(rows, t)'
  BY <1>1 DEF Holds
<1>3. \A e \in rows : Bound(e)' <=> Bound(e)
  BY RowStays DEF TableOK
<1>4. AllBound(rows, t) => AllBound(rows, t)'
  BY <1>1, <1>3 DEF AllBound
<1>5. QED
  BY <1>2, <1>4

LEMMA WorldStep ==
    ASSUME FullInv, Typed', GitOK', UNCHANGED <<env, db, indexed>>, Says, SameCapture,
           NEW S \in SUBSET Transcript, \A t \in S : log'[t] = log[t],
           settled' \subseteq settled \intersect S, settled' \intersect job.read \subseteq job'.read,
           job'.read \subseteq job.read \intersect S,
           job'.pc = job.pc, job'.open = job.open, job'.view = job.view, job'.hits = job.hits,
           job'.tally = job.tally, job'.rebuild = job.rebuild, job'.rebuilt = job.rebuilt,
           job'.behind = job.behind, job'.roots = job.roots
    PROVE  FullInv'
<1>1. TableOK(db.edges, db.hits)'
  <2>1. TableOK(db.edges, db.hits) /\ db' = db
    BY DEF FullInv
  <2>2. PICK rows, hits : rows = db.edges /\ hits = db.hits
    OBVIOUS
  <2>3. TableOK(rows, hits)'
    BY <2>1, <2>2, TableStays
  <2>4. QED
    BY <2>1, <2>2, <2>3 DEF TableOK
<1>2. \A t \in settled' : (Holds(db.edges, t) /\ AllBound(db.edges, t))'
  <2>1. PICK rows, hits : rows = db.edges /\ hits = db.hits
    OBVIOUS
  <2>2. \A t \in settled' : Holds(rows, t)' /\ AllBound(rows, t)'
    BY <2>1, OwedStays DEF FullInv
  <2>3. rows = db'.edges
    BY <2>1
  <2>4. QED
    BY <2>2, <2>3
<1>3. ASSUME job.open PROVE ViewOK(job, job.view, job.hits, job.tally)'
  <2>1. PICK j, rows, hits, tally, base, old :
           j = job' /\ rows = job.view /\ hits = job.hits /\ tally = job.tally
           /\ base = db.edges /\ old = db.tally
    OBVIOUS
  <2>2. ViewOK(job, rows, hits, tally)
    BY <1>3, <2>1 DEF FullInv, JobOK
  <2>3. TableOK(rows, hits)'
    BY <2>2, TableStays DEF ViewOK
  <2>4. ASSUME NEW t \in j.read
        PROVE  /\ Holds(rows, t)'
               /\ ~j.behind => AllBound(rows, t)'
               /\ j.rebuild => \A o \in Owes(t)' : SessionOf(o)' \in j.rebuilt
    <3>1. t \in S /\ t \in job.read /\ t \in Transcript
      BY <2>1
    <3>2. Owes(t)' = Owes(t) /\ \A o : SessionOf(o)' = SessionOf(o)
      BY <3>1, OwesStays DEF SessionOf, env
    <3>3. /\ Holds(rows, t) /\ (~j.behind => AllBound(rows, t))
          /\ j.rebuild => \A o \in Owes(t) : SessionOf(o) \in j.rebuilt
      BY <2>1, <2>2, <3>1 DEF ViewOK
    <3>4. QED
      BY <2>2, <3>1, <3>2, <3>3, OwedStays DEF ViewOK
  <2>5. \A e \in rows \ base : e.id[1] \in settled' => e.id[1] \in j.read
    BY <2>1, <2>2 DEF ViewOK
  <2>6. \A e \in base : (\E f \in rows : f.id = e.id) \/ (j.rebuild /\ e.session \in j.rebuilt)
    BY <2>1, <2>2 DEF ViewOK
  <2>7. DOMAIN tally = Session /\ \A s \in Session : tally[s] \in Nat /\ tally[s] >= old[s]
    BY <2>1, <2>2 DEF ViewOK
  <2>8. base = db'.edges /\ old = db'.tally
    BY <2>1
  <2>9. ViewOK(j, rows, hits, tally)'
    BY <2>3, <2>4, <2>5, <2>6, <2>7, <2>8 DEF ViewOK
  <2>10. j = job' /\ rows = job'.view /\ hits = job'.hits /\ tally = job'.tally
    BY <2>1
  <2>11. QED
    BY <2>9, <2>10
<1>4. ASSUME ~job.open, NEW t \in job'.read PROVE Owes(t)' = {}
  BY <1>4, OwesStays DEF FullInv, JobOK
<1>5. JobOK(job)'
  BY <1>3, <1>4 DEF FullInv, JobOK
<1>6. QED
  BY <1>1, <1>2, <1>5 DEF FullInv

LEMMA OwedIs ==
    ASSUME NEW t, NEW o \in Owes(t)
    PROVE  o[1] = t
<1>1. PICK i \in DOMAIN log[t] :
          o \in {<<t, i, k>> : k \in {m \in DOMAIN script[t][i].edits :
              /\ InScope(script[t][i], script[t][i].edits[m])
              /\ Routed([path |-> script[t][i].edits[m]])}}
  BY DEF Owes
<1>2. PICK k \in DOMAIN script[t][i].edits : o = <<t, i, k>>
  BY <1>1
<1>3. QED
  BY <1>2

(* Nothing but the pass moves.                                             *)
LEMMA JobStep ==
    ASSUME FullInv, Typed', UNCHANGED <<env, log, git, db, settled>>,
           JobOK(job)', job'.read \subseteq Transcript
    PROVE  FullInv'
<1>1. GitOK' /\ Says /\ SameCapture
  BY DEF FullInv, GitOK, git, Says, SameCapture, Capturing
<1>2. PICK rows, hits : rows = db.edges /\ hits = db.hits /\ rows = db'.edges /\ hits = db'.hits
  OBVIOUS
<1>3. TableOK(rows, hits)'
  BY <1>1, <1>2, TableStays DEF FullInv
<1>4. \A t \in settled' : Holds(rows, t)' /\ AllBound(rows, t)'
  BY <1>1, <1>2, OwedStays DEF FullInv
<1>5. TableOK(db.edges, db.hits)' /\ \A t \in settled' : (Holds(db.edges, t) /\ AllBound(db.edges, t))'
  BY <1>2, <1>3, <1>4
<1>6. QED
  BY <1>1, <1>5 DEF FullInv

(* The same for what a pass is about to hold                               *)
LEMMA JobStays ==
    ASSUME Typed, UNCHANGED <<env, log, git, db, settled>>, NEW j, JobOK(j), j.read \subseteq Transcript
    PROVE  JobOK(j)'
<1>1. Says /\ SameCapture
  BY DEF git, Says, SameCapture, Capturing
<1>2. \A t : Owes(t)' = Owes(t) /\ \A o : SessionOf(o)' = SessionOf(o)
  BY DEF Owes, Routed, SessionOf, env
<1>3. ASSUME j.open PROVE ViewOK(j, j.view, j.hits, j.tally)'
  <2>1. ViewOK(j, j.view, j.hits, j.tally)
    BY <1>3 DEF JobOK
  <2>2. TableOK(j.view, j.hits)'
    BY <1>1, <2>1, TableStays DEF ViewOK
  <2>3. ASSUME NEW t \in j.read
        PROVE  /\ Holds(j.view, t)'
               /\ ~j.behind => AllBound(j.view, t)'
               /\ j.rebuild => \A o \in Owes(t)' : SessionOf(o)' \in j.rebuilt
    BY <1>1, <1>2, <2>1, OwedStays DEF ViewOK
  <2>4. QED
    BY <2>1, <2>2, <2>3 DEF ViewOK
<1>4. QED
  BY <1>2, <1>3 DEF JobOK, git

LEMMA IdleOK == JobOK(Idle) /\ Idle.read = {}
  BY DEF JobOK, Idle

LEMMA FullIndexStep ==
    ASSUME FullInv, Typed', IndexCommits PROVE FullInv'
<1> DEFINE unbound(e) == IF e.commit \in head THEN e ELSE [e EXCEPT !.commit = None]
<1>1. /\ UNCHANGED <<env, log, made, head, kept>> /\ indexed' = head /\ ~job.open
      /\ settled' = {}
      /\ db' = [db EXCEPT !.edges = {unbound(e) : e \in db.edges}]
      /\ job' = [job EXCEPT !.behind = @ \/ (job.pc = "read" /\ ~job.roots)]
  BY DEF IndexCommits, FullInv, Typed
<1>2. /\ db'.edges = {unbound(e) : e \in db.edges} /\ db'.hits = db.hits /\ db'.tally = db.tally
      /\ job'.open = job.open /\ job'.pc = job.pc /\ job'.roots = job.roots /\ job'.read = job.read
      /\ job'.behind = (job.behind \/ (job.pc = "read" /\ ~job.roots))
  BY <1>1 DEF FullInv, Typed, JobFields
<1>3. GitOK'
  BY <1>1 DEF FullInv, GitOK
<1>4. ASSUME NEW e \in db.edges, NEW x, x = unbound(e)
      PROVE  x.id = e.id /\ x.prose = e.prose /\ RowOK(x)'
  <2>1. RowOK(e)
    BY DEF FullInv, TableOK
  <2>2. /\ DOMAIN x = EdgeFields /\ x.id = e.id /\ x.prose = e.prose /\ x.path = e.path
        /\ x.session = e.session
        /\ x.commit = None \/ (x.commit = e.commit /\ e.commit \in head)
    BY <1>4, <2>1 DEF RowOK, EdgeFields
  <2> HIDE DEF unbound
  <2>3. PICK t \in Transcript : \E i \in DOMAIN log[t] : \E k \in DOMAIN script[t][i].edits :
            IsRowOf(e, t, i, k)
    BY <2>1 DEF RowOK
  <2>4. PICK i \in DOMAIN log[t] : \E k \in DOMAIN script[t][i].edits : IsRowOf(e, t, i, k)
    BY <2>3
  <2>5. PICK k \in DOMAIN script[t][i].edits : IsRowOf(e, t, i, k)
    BY <2>4
  <2>6. i \in DOMAIN log'[t] /\ k \in DOMAIN script'[t][i].edits /\ IsRowOf(x, t, i, k)'
    BY <1>1, <2>2, <2>5 DEF IsRowOf, Routed, env
  <2>7. e.id[1] = t /\ e.id[2] = i
    BY <2>5 DEF IsRowOf
  <2>8. ASSUME x.commit # None PROVE Bound(x)'
    <3> SUFFICES ASSUME NoMerge PROVE x.commit = Capturing(x.path, log[x.id[1]][x.id[2]])'
      BY DEF Bound
    <3>1. e.commit \in head /\ x.commit = e.commit /\ e.commit = Capturing(e.path, log[t][i])
      BY <2>1, <2>2, <2>7, <2>8 DEF RowOK, Bound
    <3>2. PICK p, at : p = e.path /\ at = log[t][i]
      OBVIOUS
    <3>3. Capturing(p, at) = e.commit
      BY <3>1, <3>2
    <3>4. Capturing(p, at)' = Capturing(p, at)
      BY <1>1, <1>3, <3>1, <3>3, CapturingStays DEF FullInv
    <3>5. p = x.path /\ at = log'[t][i] /\ x.id[1] = t /\ x.id[2] = i
      BY <1>1, <2>2, <2>7, <3>2
    <3>6. Capturing(x.path, log[x.id[1]][x.id[2]])' = Capturing(p, at)'
      BY <3>5 DEF Capturing
    <3>7. QED
      BY <3>1, <3>3, <3>4, <3>6
  <2>9. QED
    BY <2>2, <2>6, <2>8 DEF RowOK
<1>5. TableOK(db.edges, db.hits)'
  <2>0. \A x \in db'.edges : \E e \in db.edges : x = unbound(e)
    BY <1>2
  <2> HIDE DEF unbound
  <2>1. \A x \in db'.edges : RowOK(x)'
    BY <2>0, <1>4
  <2>2. \A x, y \in db'.edges : x.id = y.id => x = y
    BY <2>0, <1>4 DEF FullInv, TableOK
  <2>3. \A e \in db.edges : unbound(e) \in db'.edges /\ unbound(e).id = e.id /\ unbound(e).prose = e.prose
    BY <1>2, <1>4
  <2>4. {<<x.id, x.prose>> : x \in db'.edges} = {<<e.id, e.prose>> : e \in db.edges}
    <3>1. ASSUME NEW x \in db'.edges PROVE <<x.id, x.prose>> \in {<<e.id, e.prose>> : e \in db.edges}
      BY <2>0, <2>3
    <3>2. ASSUME NEW e \in db.edges PROVE <<e.id, e.prose>> \in {<<x.id, x.prose>> : x \in db'.edges}
      BY <2>3
    <3>3. QED
      BY <3>1, <3>2
  <2>5. db'.hits = {<<x.id, x.prose>> : x \in db'.edges}
    BY <1>2, <2>4 DEF FullInv, TableOK
  <2>6. QED
    BY <2>1, <2>2, <2>5 DEF TableOK
<1> HIDE DEF unbound
<1>6. \A t : Owes(t)' = Owes(t)
  BY <1>1 DEF Owes, Routed, env
<1>7. JobOK(job)'
  BY <1>1, <1>2, <1>6 DEF FullInv, JobOK
<1>8. QED
  BY <1>1, <1>2, <1>3, <1>5, <1>7 DEF FullInv

LEMMA FullFinishStep ==
    ASSUME FullInv, Typed', Finish PROVE FullInv'
<1>1. /\ UNCHANGED <<env, log, kept, git>> /\ job' = Idle /\ job.pc = "read"
      /\ db' = IF job.open THEN [edges |-> job.view, hits |-> job.hits, tally |-> job.tally] ELSE db
      /\ settled' = {t \in settled : {e \in db.edges : e.id[1] = t} \subseteq db'.edges}
                       \union IF job.behind THEN {} ELSE job.read \intersect kept
  BY DEF Finish
<1>2. GitOK' /\ Says /\ SameCapture
  BY <1>1 DEF FullInv, GitOK, git, Says, SameCapture, Capturing
<1>3. JobOK(job)' /\ job'.read = {}
  <2>1. job'.read = {} /\ ~job'.open /\ job'.pc # "read"
    BY <1>1 DEF Idle
  <2>2. QED
    BY <2>1 DEF JobOK
<1>4. PICK rows, hits, tally : rows = db'.edges /\ hits = db'.hits /\ tally = db'.tally
  OBVIOUS
<1>5. TableOK(rows, hits) /\ DOMAIN tally = Session /\ \A s \in Session : tally[s] \in Nat
  BY <1>1, <1>4 DEF FullInv, JobOK, ViewOK
<1>6. ASSUME NEW t \in settled' PROVE t \in Transcript /\ Holds(rows, t) /\ AllBound(rows, t)
  <2>1. CASE t \in settled /\ {e \in db.edges : e.id[1] = t} \subseteq rows
    <3>1. t \in Transcript /\ Holds(db.edges, t) /\ AllBound(db.edges, t)
      BY <2>1 DEF FullInv
    <3>2. Holds(rows, t)
      BY <2>1, <3>1, OwedIs DEF Holds
    <3>3. ASSUME NEW e \in rows, e.id[1] = t, e.id \in Owes(t) PROVE Bound(e)
      <4>1. CASE e \in db.edges
        BY <3>1, <3>3, <4>1 DEF AllBound
      <4>2. CASE e \notin db.edges
        <5>1. job.open /\ rows = job.view
          BY <1>1, <1>4, <4>2
        <5>2. ViewOK(job, rows, job.hits, job.tally)
          BY <5>1 DEF FullInv, JobOK
        <5>3. t \in job.read
          BY <2>1, <3>3, <4>2, <5>2 DEF ViewOK
        <5>4. ~job.behind
          BY <1>1, <2>1 DEF FullInv, JobOK
        <5>5. AllBound(rows, t)
          BY <5>2, <5>3, <5>4 DEF ViewOK
        <5>6. QED
          BY <3>3, <5>5 DEF AllBound
      <4>3. QED
        BY <4>1, <4>2
    <3>4. QED
      BY <3>1, <3>2, <3>3 DEF AllBound
  <2>2. CASE ~job.behind /\ t \in job.read
    <3>1. t \in Transcript
      BY <2>2 DEF FullInv
    <3>2. CASE job.open
      BY <1>1, <1>4, <2>2, <3>1, <3>2 DEF FullInv, JobOK, ViewOK
    <3>3. CASE ~job.open
      <4>1. Owes(t) = {}
        BY <2>2, <3>3 DEF FullInv, JobOK
      <4>2. QED
        BY <3>1, <4>1 DEF Holds, AllBound
    <3>4. QED
      BY <3>2, <3>3
  <2>3. QED
    BY <1>1, <1>4, <2>1, <2>2
<1>7. TableOK(rows, hits)' /\ \A t \in settled' : Holds(rows, t)' /\ AllBound(rows, t)'
  BY <1>1, <1>2, <1>5, <1>6, TableStays, OwedStays
<1>8. TableOK(db.edges, db.hits)' /\ \A t \in settled' : (Holds(db.edges, t) /\ AllBound(db.edges, t))'
  BY <1>4, <1>7
<1>9. QED
  BY <1>2, <1>3, <1>4, <1>5, <1>6, <1>8 DEF FullInv

--------------------------------------------------------------------------------
(* What a pass takes from a transcript                                     *)

LEMMA MaxOfTwo ==
    ASSUME NEW a \in Nat, NEW b \in Nat
    PROVE  Max({a, b}) \in Nat /\ Max({a, b}) >= a
<1>1. \E x \in {a, b} : \A y \in {a, b} : x >= y
  OBVIOUS
<1>2. Max({a, b}) \in {a, b} /\ \A y \in {a, b} : Max({a, b}) >= y
  BY <1>1, Zenon DEF Max
<1>3. QED
  BY <1>2

(* A transcript's searches are so many.                                    *)
LEMMA SearchesAreMany ==
    ASSUME Typed, NEW t \in Transcript, NEW s, NEW scoped
    PROVE  Searches(t, s, scoped) \in Nat
<1> DEFINE S == {i \in DOMAIN log[t] :
                   /\ script[t][i].session = s
                   /\ scoped => script[t][i].cwd \in Workspace
                   /\ partitioned => script[t][i].cwd \in Visible}
           of(i) == {i} \X (1 .. script[t][i].searches)
           T == {of(i) : i \in S}
           f == [i \in S |-> of(i)]
<1>1. IsFiniteSet(S)
  <2>1. IsFiniteSet(1 .. Len(log[t]))
    BY LinesRead, FS_Interval
  <2>2. S \in SUBSET (1 .. Len(log[t]))
    BY LinesRead
  <2> HIDE DEF S
  <2>3. QED
    BY <2>1, <2>2, FS_Subset
<1>2. ASSUME NEW i \in S PROVE IsFiniteSet(of(i))
  <2>1. script[t][i].searches \in Nat
    <3>1. script[t] \in Seq(Line) /\ i \in 1 .. Len(script[t])
      BY LinesRead DEF Typed
    <3>2. script[t][i] \in Line
      BY <3>1
    <3>3. QED
      BY <3>2 DEF Line
  <2>2. IsFiniteSet({i})
    BY FS_Singleton, Zenon
  <2>3. IsFiniteSet(1 .. script[t][i].searches)
    BY <2>1, FS_Interval
  <2>4. QED
    BY <2>2, <2>3, FS_Product
<1> HIDE DEF S, of
<1>3. f \in Surjection(S, T)
  BY DEF Surjection
<1> HIDE DEF f, T
<1>4. IsFiniteSet(T)
  BY <1>1, <1>3, FS_Surjection
<1>5. \A x \in T : IsFiniteSet(x)
  BY <1>2 DEF T
<1>6. Cardinality(UNION T) \in Nat
  BY <1>4, <1>5, FS_UNION, FS_CardinalityType
<1>7. QED
  BY <1>6 DEF T, S, of, Searches

(* Merging adds the rows of ids that were not there, and binds, or leaves, *)
(* those that were.                                                        *)
LEMMA MergedIs ==
    ASSUME NEW old, NEW new
    PROVE  /\ \A x \in Merged(old, new) :
                 \/ x \in new /\ \A r \in old : r.id # x.id
                 \/ x \in old /\ (x.commit # None \/ \A e \in new : e.id # x.id)
                 \/ \E r \in old, e \in new :
                       r.commit = None /\ e.id = r.id /\ x = [r EXCEPT !.commit = e.commit]
           /\ \A e \in new : (\A r \in old : r.id # e.id) => e \in Merged(old, new)
           /\ \A r \in old : (r.commit # None \/ \A e \in new : e.id # r.id)
                                 => r \in Merged(old, new)
           /\ \A r \in old : (\E e \in new : e.id = r.id) /\ r.commit = None =>
                 \E e \in new : e.id = r.id /\ [r EXCEPT !.commit = e.commit] \in Merged(old, new)
<1> DEFINE one(r) == CHOOSE e \in new : e.id = r.id
           bind(r) == IF r.commit = None /\ \E e \in new : e.id = r.id
                      THEN [r EXCEPT !.commit = one(r).commit] ELSE r
           fresh == {e \in new : \A r \in old : r.id # e.id}
<1>1. Merged(old, new) = {bind(r) : r \in old} \union fresh
  BY DEF Merged
<1>2. \A r : (\E e \in new : e.id = r.id) => one(r) \in new /\ one(r).id = r.id
  OBVIOUS
<1> HIDE DEF one
<1>3. ASSUME NEW x \in Merged(old, new)
      PROVE  \/ x \in new /\ \A r \in old : r.id # x.id
             \/ x \in old /\ (x.commit # None \/ \A e \in new : e.id # x.id)
             \/ \E r \in old, e \in new :
                   r.commit = None /\ e.id = r.id /\ x = [r EXCEPT !.commit = e.commit]
  <2>1. CASE x \in fresh
    BY <2>1
  <2>2. CASE \E r \in old : x = bind(r)
    <3>1. PICK r \in old : x = bind(r)
      BY <2>2
    <3>2. CASE r.commit = None /\ \E e \in new : e.id = r.id
      BY <1>2, <3>1, <3>2
    <3>3. CASE ~(r.commit = None /\ \E e \in new : e.id = r.id)
      BY <3>1, <3>3
    <3>4. QED
      BY <3>2, <3>3
  <2> HIDE DEF bind, fresh
  <2>3. QED
    BY <1>1, <2>1, <2>2
<1>4. ASSUME NEW r \in old, \E e \in new : e.id = r.id, r.commit = None
      PROVE  \E e \in new : e.id = r.id /\ [r EXCEPT !.commit = e.commit] \in Merged(old, new)
  <2>1. bind(r) = [r EXCEPT !.commit = one(r).commit]
    BY <1>4
  <2>2. one(r) \in new /\ one(r).id = r.id
    BY <1>2, <1>4
  <2>3. bind(r) \in Merged(old, new)
    <3> HIDE DEF bind
    <3>1. QED
      BY <1>1
  <2>4. QED
    BY <2>1, <2>2, <2>3
<1>5. ASSUME NEW r \in old, r.commit # None \/ \A e \in new : e.id # r.id
      PROVE  r \in Merged(old, new)
  <2>1. bind(r) = r
    BY <1>5
  <2> HIDE DEF bind
  <2>2. QED
    BY <1>1, <2>1
<1>6. \A e \in new : (\A r \in old : r.id # e.id) => e \in Merged(old, new)
  BY <1>1
<1>7. QED
  BY <1>3, <1>4, <1>5, <1>6

(* A row that is bound is otherwise as it was.                             *)
LEMMA Rebound ==
    ASSUME NEW r, DOMAIN r = EdgeFields, NEW c
    PROVE  LET x == [r EXCEPT !.commit = c] IN
           /\ DOMAIN x = EdgeFields /\ x.id = r.id /\ x.session = r.session
           /\ x.path = r.path /\ x.prose = r.prose /\ x.commit = c
  BY DEF EdgeFields

(* So the ids stay unique, and a search finds what it found and the new.   *)
LEMMA MergedIds ==
    ASSUME NEW old, NEW new, \A r \in old : DOMAIN r = EdgeFields,
           \A r, q \in old : r.id = q.id => r = q,
           \A e, f \in new : e.id = f.id => e = f
    PROVE  /\ \A x, y \in Merged(old, new) : x.id = y.id => x = y
           /\ \A r \in old : \E x \in Merged(old, new) : x.id = r.id /\ x.prose = r.prose
           /\ \A e \in new : \E x \in Merged(old, new) : x.id = e.id
           /\ \A x \in Merged(old, new) :
                 \/ x \in new /\ \A r \in old : r.id # x.id
                 \/ \E r \in old : x.id = r.id /\ x.prose = r.prose
<1>1. ASSUME NEW x \in Merged(old, new)
      PROVE  \/ x \in new /\ \A r \in old : r.id # x.id
             \/ x \in old /\ (x.commit # None \/ \A e \in new : e.id # x.id)
             \/ \E r \in old, e \in new :
                  /\ r.commit = None /\ e.id = r.id /\ x = [r EXCEPT !.commit = e.commit]
                  /\ x.id = r.id /\ x.prose = r.prose
  <2>1. CASE \E r \in old, e \in new :
                r.commit = None /\ e.id = r.id /\ x = [r EXCEPT !.commit = e.commit]
    <3>1. PICK r \in old, e \in new :
              r.commit = None /\ e.id = r.id /\ x = [r EXCEPT !.commit = e.commit]
      BY <2>1
    <3>2. x.id = r.id /\ x.prose = r.prose
      BY <3>1, Rebound
    <3>3. QED
      BY <3>1, <3>2
  <2>2. QED
    BY <2>1, MergedIs
<1>2. ASSUME NEW x \in Merged(old, new), NEW y \in Merged(old, new), x.id = y.id
      PROVE  x = y
  <2>1. CASE x \in new /\ \A r \in old : r.id # x.id
    BY <1>1, <1>2, <2>1
  <2>2. CASE x \in old /\ (x.commit # None \/ \A e \in new : e.id # x.id)
    BY <1>1, <1>2, <2>2
  <2>3. CASE \E r \in old, e \in new :
                  /\ r.commit = None /\ e.id = r.id /\ x = [r EXCEPT !.commit = e.commit]
                  /\ x.id = r.id
    BY <1>1, <1>2, <2>3
  <2>4. QED
    BY <1>1, <1>2, <2>1, <2>2, <2>3
<1>3. ASSUME NEW r \in old
      PROVE  \E x \in Merged(old, new) : x.id = r.id /\ x.prose = r.prose
  <2>1. CASE r.commit = None /\ \E e \in new : e.id = r.id
    <3>1. PICK e \in new : [r EXCEPT !.commit = e.commit] \in Merged(old, new)
      BY <2>1, MergedIs
    <3>2. QED
      BY <3>1, Rebound
  <2>2. CASE r.commit # None \/ \A e \in new : e.id # r.id
    BY <2>2, MergedIs
  <2>3. QED
    BY <2>1, <2>2
<1>4. ASSUME NEW e \in new PROVE \E x \in Merged(old, new) : x.id = e.id
  BY <1>3, MergedIs
<1>5. QED
  BY <1>1, <1>2, <1>3, <1>4

(* The rows a transcript gives a pass                                      *)
LEMMA NewRowsAre ==
    ASSUME FullInv, job.pc = "read", NEW t \in Transcript
    PROVE  /\ \A e \in NewRows(t) : RowOK(e) /\ e.id[1] = t /\ (~job.behind => Bound(e))
           /\ \A e, f \in NewRows(t) : e.id = f.id => e = f
           /\ \A o \in Owes(t) : \E e \in NewRows(t) :
                 e.id = o /\ e.session = SessionOf(o)
<1>1. Typed
  BY DEF FullInv
<1>2. ASSUME NEW e \in NewRows(t)
      PROVE  RowOK(e) /\ e.id[1] = t /\ (~job.behind => Bound(e))
  <2>1. e \in EdgesOf(t, job.scoped) /\ Routed(e)
    BY DEF NewRows
  <2>2. e.commit = IF job.roots THEN Capturing(e.path, log[e.id[1]][e.id[2]]) ELSE None
    BY <1>1, <2>1, EdgesAre
  <2>3. e.commit = None \/ Bound(e)
    BY <2>2 DEF Bound
  <2>4. RowOK(e) /\ e.id[1] = t
    BY <1>1, <2>1, <2>3, EdgesAre DEF RowOK
  <2>5. ASSUME ~job.behind, ~job.roots PROVE Bound(e)
    <3>1. indexed = {}
      BY <2>5 DEF FullInv, JobOK
    <3>2. Capturing(e.path, log[e.id[1]][e.id[2]]) = None
      BY <3>1 DEF Capturing
    <3>3. QED
      BY <2>2, <2>5, <3>2 DEF Bound
  <2>6. QED
    BY <2>2, <2>4, <2>5 DEF Bound
<1>3. \A e, f \in NewRows(t) : e.id = f.id => e = f
  BY <1>1, EdgesAre DEF NewRows
<1>4. \A o \in Owes(t) : \E e \in NewRows(t) : e.id = o /\ e.session = SessionOf(o)
  BY <1>1, EdgesAre DEF NewRows
<1>5. QED
  BY <1>2, <1>3, <1>4

(* Rows of one id are of one edit.                                         *)
LEMMA SameId ==
    ASSUME NEW e, NEW f, RowOK(e), RowOK(f), e.id = f.id
    PROVE  e.path = f.path /\ e.session = f.session
<1>1. ASSUME NEW x, RowOK(x) PROVE x.path = script[x.id[1]][x.id[2]].edits[x.id[3]]
  <2>1. PICK t \in Transcript : \E i \in DOMAIN log[t] : \E k \in DOMAIN script[t][i].edits :
            IsRowOf(x, t, i, k)
    BY <1>1 DEF RowOK
  <2>2. PICK i \in DOMAIN log[t] : \E k \in DOMAIN script[t][i].edits : IsRowOf(x, t, i, k)
    BY <2>1
  <2>3. PICK k \in DOMAIN script[t][i].edits : IsRowOf(x, t, i, k)
    BY <2>2
  <2>4. x.id[1] = t /\ x.id[2] = i /\ x.id[3] = k
    BY <2>3 DEF IsRowOf
  <2>5. QED
    BY <2>3, <2>4 DEF IsRowOf
<1>2. QED
  BY <1>1, RowPlace

(* Binding a row as another of its id is bound                             *)
LEMMA BoundAsOther ==
    ASSUME NEW r, NEW e, RowOK(r), RowOK(e), e.id = r.id
    PROVE  LET x == [r EXCEPT !.commit = e.commit] IN RowOK(x) /\ (Bound(e) => Bound(x))
<1> DEFINE x == [r EXCEPT !.commit = e.commit]
<1>1. /\ DOMAIN x = EdgeFields /\ x.id = r.id /\ x.session = r.session
      /\ x.path = r.path /\ x.commit = e.commit
  BY Rebound DEF RowOK
<1> HIDE DEF x
<1>2. Bound(e) => Bound(x)
  BY <1>1, SameId DEF Bound
<1>3. PICK t \in Transcript : \E i \in DOMAIN log[t] : \E k \in DOMAIN script[t][i].edits :
          IsRowOf(r, t, i, k)
  BY DEF RowOK
<1>4. \A i, k : IsRowOf(r, t, i, k) => IsRowOf(x, t, i, k)
  BY <1>1 DEF IsRowOf, Routed
<1>5. RowOK(x)
  BY <1>1, <1>2, <1>3, <1>4 DEF RowOK
<1>6. QED
  BY <1>2, <1>5 DEF x

(* The table after the transcript: what stays of it with the new rows      *)
LEMMA TakenTable ==
    ASSUME NEW rows, NEW hits, TableOK(rows, hits), NEW stay \in SUBSET rows, NEW new,
           \A e \in new : RowOK(e), \A e, f \in new : e.id = f.id => e = f
    PROVE  TableOK(Merged(stay, new),
                   KeptHits(hits, stay) \union
                       {<<e.id, e.prose>> : e \in Fresh(stay, new)})
<1> DEFINE view == Merged(stay, new)
           fresh == Fresh(stay, new)
<1>1. /\ \A r \in stay : RowOK(r) /\ DOMAIN r = EdgeFields
      /\ \A r, q \in stay : r.id = q.id => r = q
  BY DEF TableOK, RowOK
<1>2. \A x \in view : RowOK(x)
  <2> HIDE DEF view
  <2> TAKE x \in view
  <2>1. CASE x \in new \/ x \in stay
    BY <1>1, <2>1
  <2>2. CASE \E r \in stay, e \in new : e.id = r.id /\ x = [r EXCEPT !.commit = e.commit]
    BY <1>1, <2>2, BoundAsOther
  <2>3. QED
    BY <2>1, <2>2, MergedIs DEF view
<1>3. /\ \A x, y \in view : x.id = y.id => x = y
      /\ \A r \in stay : \E x \in view : x.id = r.id /\ x.prose = r.prose
      /\ \A x \in view : \/ x \in fresh
                         \/ \E r \in stay : x.id = r.id /\ x.prose = r.prose
  BY <1>1, MergedIds DEF Fresh
<1>4. \A e \in fresh : e \in view
  BY MergedIs DEF Fresh
<1>5. KeptHits(hits, stay) = {<<r.id, r.prose>> : r \in stay}
  <2>1. ASSUME NEW h \in KeptHits(hits, stay) PROVE h \in {<<r.id, r.prose>> : r \in stay}
    <3>1. PICK e \in rows : h = <<e.id, e.prose>>
      BY DEF KeptHits, TableOK
    <3>2. PICK r \in stay : r.id = h[1]
      BY DEF KeptHits
    <3>3. r = e
      BY <3>1, <3>2 DEF TableOK
    <3>4. QED
      BY <3>1, <3>2, <3>3
  <2>2. ASSUME NEW r \in stay PROVE <<r.id, r.prose>> \in KeptHits(hits, stay)
    BY DEF KeptHits, TableOK
  <2>3. QED
    BY <2>1, <2>2
<1> HIDE DEF view, fresh
<1>6. {<<r.id, r.prose>> : r \in stay} \union {<<e.id, e.prose>> : e \in fresh}
          = {<<x.id, x.prose>> : x \in view}
  <2>1. ASSUME NEW r \in stay PROVE <<r.id, r.prose>> \in {<<x.id, x.prose>> : x \in view}
    BY <1>3
  <2>2. ASSUME NEW e \in fresh PROVE <<e.id, e.prose>> \in {<<x.id, x.prose>> : x \in view}
    BY <1>4
  <2>3. ASSUME NEW x \in view
        PROVE  <<x.id, x.prose>> \in {<<r.id, r.prose>> : r \in stay}
                                       \union {<<e.id, e.prose>> : e \in fresh}
    BY <1>3
  <2>4. QED
    BY <2>1, <2>2, <2>3
<1>7. QED
  BY <1>2, <1>3, <1>5, <1>6 DEF TableOK, view, fresh

(* A pass that has not opened its transaction starts from the database.    *)
LEMMA StartOK ==
    ASSUME FullInv
    PROVE  /\ job.open => ViewOK(job, job.view, job.hits, job.tally)
           /\ ~job.open => ViewOK(job, db.edges, db.hits, db.tally)
<1>1. ASSUME ~job.open PROVE ViewOK(job, db.edges, db.hits, db.tally)
  <2>1. \A t \in job.read : Owes(t) = {}
    BY <1>1 DEF FullInv, JobOK
  <2>2. \A t \in job.read : Holds(db.edges, t) /\ AllBound(db.edges, t)
    BY <2>1 DEF Holds, AllBound
  <2>3. \A s \in Session : db.tally[s] \in Nat /\ db.tally[s] >= db.tally[s]
    BY DEF FullInv
  <2>4. QED
    BY <2>1, <2>2, <2>3 DEF FullInv, ViewOK
<1>2. QED
  BY <1>1 DEF FullInv, JobOK

(* What has been read is held, what was there has stayed or been replaced. *)
LEMMA TakenOK ==
    ASSUME FullInv, job.pc = "read", NEW t \in Transcript,
           NEW rows, NEW hits, NEW tally, ViewOK(job, rows, hits, tally),
           NEW new, new = NewRows(t), NEW drop, drop = Drops(t),
           NEW stay, stay = KeptRows(rows, drop),
           NEW j, j.read = job.read \union {t}, j.rebuild = job.rebuild, j.behind = job.behind,
           j.rebuilt = job.rebuilt \union drop,
           NEW counts, DOMAIN counts = Session,
           \A s \in Session : counts[s] \in Nat /\ counts[s] >= tally[s]
    PROVE  ViewOK(j, Merged(stay, new),
                  KeptHits(hits, stay) \union
                      {<<e.id, e.prose>> : e \in Fresh(stay, new)},
                  counts)
<1> DEFINE view == Merged(stay, new)
<1>1. /\ \A e \in new : RowOK(e) /\ e.id[1] = t /\ (~job.behind => Bound(e))
      /\ \A e, f \in new : e.id = f.id => e = f
      /\ \A o \in Owes(t) : \E e \in new : e.id = o /\ e.session = SessionOf(o)
  BY NewRowsAre
<1>2. stay \in SUBSET rows /\ \A r \in rows : r \in stay \/ r.session \in drop
  BY DEF KeptRows
<1>3. TableOK(rows, hits) /\ \A r \in rows : RowOK(r) /\ DOMAIN r = EdgeFields
  BY DEF ViewOK, TableOK, RowOK
<1>4. TableOK(view, KeptHits(hits, stay) \union
            {<<e.id, e.prose>> : e \in Fresh(stay, new)})
  BY <1>1, <1>2, <1>3, TakenTable
<1>5. /\ \A r \in stay : \E x \in view : x.id = r.id
      /\ \A e \in new : \E x \in view : x.id = e.id
  <2>1. (\A r \in stay : DOMAIN r = EdgeFields) /\ \A r, q \in stay : r.id = q.id => r = q
    BY <1>2, <1>3 DEF TableOK
  <2>2. QED
    BY <1>1, <2>1, MergedIds
<1>6. ASSUME NEW x \in view
      PROVE  \/ x \in new
             \/ x \in stay /\ (x.commit # None \/ \A e \in new : e.id # x.id)
             \/ x.id[1] = t /\ (~job.behind => Bound(x))
  <2>1. CASE \E r \in stay, e \in new :
                r.commit = None /\ e.id = r.id /\ x = [r EXCEPT !.commit = e.commit]
    <3>1. PICK r \in stay, e \in new : e.id = r.id /\ x = [r EXCEPT !.commit = e.commit]
      BY <2>1
    <3>2. RowOK(r) /\ RowOK(e) /\ DOMAIN r = EdgeFields
      BY <1>1, <1>2, <1>3
    <3>3. Bound(e) => Bound(x)
      BY <3>1, <3>2, BoundAsOther
    <3>4. x.id = e.id
      BY <3>1, <3>2, Rebound
    <3>5. QED
      BY <1>1, <3>3, <3>4
  <2>2. QED
    BY <2>1, MergedIs
<1> HIDE DEF view
<1>7. ASSUME NEW u \in j.read PROVE Holds(view, u)
  <2> SUFFICES ASSUME NEW o \in Owes(u) PROVE \E e \in view : e.id = o
    BY DEF Holds
  <2>1. CASE u = t
    BY <1>1, <1>5, <2>1
  <2>2. CASE u \in job.read
    <3>1. PICK e \in rows : e.id = o
      BY <2>2 DEF ViewOK, Holds
    <3>2. e.session = SessionOf(o)
      BY <1>3, <3>1, RowPlace
    <3>3. e.session \notin drop
      BY <2>2, <3>2 DEF ViewOK, Drops, Dropped
    <3>4. QED
      BY <1>2, <1>5, <3>1, <3>3
  <2>3. QED
    BY <2>1, <2>2
<1>8. ASSUME NEW u \in j.read, ~j.behind PROVE AllBound(view, u)
  <2> SUFFICES ASSUME NEW x \in view, x.id[1] = u, x.id \in Owes(u) PROVE Bound(x)
    BY DEF AllBound
  <2>1. CASE x \in new
    BY <1>1, <1>8, <2>1
  <2>2. CASE x \in stay /\ (x.commit # None \/ \A e \in new : e.id # x.id)
    <3>1. CASE u \in job.read
      BY <1>2, <1>8, <2>2, <3>1 DEF ViewOK, AllBound
    <3>2. CASE u = t
      <4>1. x.commit # None
        BY <1>1, <2>2, <3>2
      <4>2. QED
        BY <1>2, <1>3, <2>2, <4>1 DEF RowOK
    <3>3. QED
      BY <3>1, <3>2
  <2>3. QED
    BY <1>6, <1>8, <2>1, <2>2
<1>9. ASSUME NEW u \in j.read, j.rebuild, NEW o \in Owes(u) PROVE SessionOf(o) \in j.rebuilt
  <2>1. CASE u = t
    <3>1. PICK e \in new : e.session = SessionOf(o)
      BY <1>1, <2>1
    <3>2. e \in EdgesOf(t, job.scoped)
      BY DEF NewRows
    <3>3. QED
      BY <1>9, <3>1, <3>2 DEF Drops, Dropped
  <2>2. CASE u \in job.read
    BY <1>9, <2>2 DEF ViewOK
  <2>3. QED
    BY <2>1, <2>2
<1>10. ASSUME NEW x \in view \ db.edges, x.id[1] \in settled PROVE x.id[1] \in j.read
  <2>1. CASE x \in stay
    BY <1>2, <1>10, <2>1 DEF ViewOK
  <2>2. CASE x.id[1] = t
    BY <2>2
  <2>3. QED
    BY <1>1, <1>6, <2>1, <2>2
<1>11. ASSUME NEW e \in db.edges
       PROVE  (\E f \in view : f.id = e.id) \/ (j.rebuild /\ e.session \in j.rebuilt)
  <2>1. CASE \E f \in rows : f.id = e.id
    <3>1. PICK f \in rows : f.id = e.id
      BY <2>1
    <3>2. CASE f \in stay
      BY <1>5, <3>1, <3>2
    <3>3. CASE f.session \in drop
      <4>1. e.session = f.session
        BY <1>3, <3>1, SameId DEF FullInv, TableOK
      <4>2. job.rebuild
        BY <3>3 DEF Drops
      <4>3. QED
        BY <3>3, <4>1, <4>2
    <3>4. QED
      BY <1>2, <3>2, <3>3
  <2>2. CASE job.rebuild /\ e.session \in job.rebuilt
    BY <2>2
  <2>3. QED
    BY <2>1, <2>2 DEF ViewOK
<1>12. \A s \in Session : counts[s] \in Nat /\ counts[s] >= db.tally[s]
  <2> TAKE s \in Session
  <2>1. counts[s] \in Nat /\ tally[s] \in Nat /\ db.tally[s] \in Nat
        /\ counts[s] >= tally[s] /\ tally[s] >= db.tally[s]
    BY DEF ViewOK, FullInv
  <2>2. QED
    BY <2>1
<1>13. QED
  BY <1>4, <1>7, <1>8, <1>9, <1>10, <1>11, <1>12 DEF ViewOK, view

LEMMA FullTakeStep ==
    ASSUME FullInv, Typed', Take PROVE FullInv'
<1> DEFINE t == Min(job.todo)
           counts == [s \in Session |-> Searches(t, s, job.scoped)]
           most == [s \in Session |-> Max({HeldTally[s], counts[s]})]
<1>1. /\ Typed /\ job.pc = "read" /\ UNCHANGED <<env, log, git, db, settled>>
      /\ job'.pc = job.pc /\ job'.rebuild = job.rebuild /\ job'.roots = job.roots
      /\ job'.behind = job.behind
      /\ t \notin kept =>
            /\ job'.open = job.open /\ job'.view = job.view /\ job'.hits = job.hits
            /\ job'.tally = job.tally /\ job'.read = job.read /\ job'.rebuilt = job.rebuilt
      /\ t \in kept =>
            /\ job'.read = job.read \union {t} /\ job'.rebuilt = job.rebuilt \union Drops(t)
            /\ job'.open = (job.open \/ Drops(t) # {} \/ NewRows(t) # {} \/ counts # Idle.tally)
            /\ job'.view = Merged(Staying(t), NewRows(t))
            /\ job'.hits = KeptHits(HeldHits, Staying(t)) \union
                               {<<e.id, e.prose>> : e \in Fresh(Staying(t), NewRows(t))}
            /\ job'.tally = most
  BY TakeIs DEF FullInv
<1>2. PICK j : j = job'
  OBVIOUS
<1>3. t \in kept => t \in Transcript
  BY DEF FullInv, Typed
<1>4. ViewOK(job, HeldRows, HeldHits, HeldTally)
  BY StartOK DEF HeldRows, HeldHits, HeldTally
<1>5. ASSUME t \in kept PROVE DOMAIN most = Session /\ \A s \in Session : most[s] \in Nat /\ most[s] >= HeldTally[s]
  <2>1. \A s \in Session : counts[s] \in Nat
    BY <1>1, <1>3, <1>5, SearchesAreMany
  <2>2. \A s \in Session : HeldTally[s] \in Nat
    BY <1>4 DEF ViewOK
  <2> HIDE DEF counts
  <2>3. QED
    BY <2>1, <2>2, MaxOfTwo
<1>6. j.read \subseteq Transcript
  BY <1>1, <1>2, <1>3 DEF FullInv
<1> HIDE DEF t, counts, most
<1>7. ASSUME t \in kept, j.open PROVE ViewOK(j, j.view, j.hits, j.tally)
  <2>1. t \in Transcript
    BY <1>3, <1>7
  <2>2. PICK rows, hits, tally : rows = HeldRows /\ hits = HeldHits /\ tally = HeldTally
    OBVIOUS
  <2>3. PICK new, drop, stay : new = NewRows(t) /\ drop = Drops(t) /\ stay = KeptRows(rows, drop)
    OBVIOUS
  <2>4. stay = Staying(t)
    BY <2>2, <2>3 DEF Staying
  <2>5. DOMAIN j.tally = Session /\ \A s \in Session : j.tally[s] \in Nat /\ j.tally[s] >= tally[s]
    BY <1>1, <1>2, <1>5, <1>7, <2>2
  <2>6. /\ j.read = job.read \union {t} /\ j.rebuild = job.rebuild /\ j.behind = job.behind
        /\ j.rebuilt = job.rebuilt \union drop
        /\ j.view = Merged(stay, new)
        /\ j.hits = KeptHits(hits, stay) \union {<<e.id, e.prose>> : e \in Fresh(stay, new)}
    BY <1>1, <1>2, <1>7, <2>2, <2>3, <2>4
  <2>7. ViewOK(job, rows, hits, tally)
    BY <1>4, <2>2
  <2>8. ViewOK(j, Merged(stay, new),
               KeptHits(hits, stay) \union {<<e.id, e.prose>> : e \in Fresh(stay, new)}, j.tally)
    BY <1>1, <2>1, <2>3, <2>5, <2>6, <2>7, TakenOK
  <2>9. QED
    BY <2>6, <2>8
<1>8. ASSUME t \in kept, ~j.open, NEW u \in j.read PROVE Owes(u) = {}
  <2>1. ~job.open /\ NewRows(t) = {}
    BY <1>1, <1>2, <1>8
  <2>2. CASE u = t
    BY <1>1, <1>3, <1>8, <2>1, <2>2, NewRowsAre
  <2>3. CASE u \in job.read
    BY <2>1, <2>3 DEF FullInv, JobOK
  <2>4. QED
    BY <1>1, <1>2, <1>8, <2>2, <2>3
<1>9. JobOK(j)
  <2>1. CASE t \in kept
    BY <1>1, <1>2, <1>7, <1>8, <2>1 DEF FullInv, JobOK
  <2>2. CASE t \notin kept
    <3>1. /\ j.pc = job.pc /\ j.rebuild = job.rebuild /\ j.roots = job.roots
          /\ j.behind = job.behind /\ j.open = job.open /\ j.view = job.view /\ j.hits = job.hits
          /\ j.tally = job.tally /\ j.read = job.read /\ j.rebuilt = job.rebuilt
      BY <1>1, <1>2, <2>2
    <3>2. QED
      BY <3>1 DEF FullInv, JobOK, ViewOK
  <2>3. QED
    BY <2>1, <2>2
<1>10. JobOK(job)'
  <2>1. JobOK(j)'
    BY <1>1, <1>6, <1>9, JobStays
  <2>2. QED
    BY <1>2, <2>1
<1>11. QED
  BY <1>1, <1>2, <1>6, <1>10, JobStep

--------------------------------------------------------------------------------
LEMMA FullInit == Init => FullInv
<1> SUFFICES ASSUME Init PROVE FullInv
  OBVIOUS
<1>1. Typed
  BY LeakInit DEF LeakInv
<1>2. GitOK
  BY DEF Init, GitOK
<1>3. settled = {} /\ job = Idle /\ db.edges = {} /\ db.hits = {} /\ db.tally = [s \in Session |-> 0]
  BY DEF Init
<1>4. TableOK(db.edges, db.hits)
  BY <1>3 DEF TableOK
<1>5. JobOK(job) /\ job.read = {}
  BY <1>3, IdleOK
<1>6. QED
  BY <1>1, <1>2, <1>3, <1>4, <1>5 DEF FullInv

LEMMA FullSayStep ==
    ASSUME FullInv, Typed', NEW t \in Transcript, Say(t) PROVE FullInv'
<1>1. /\ UNCHANGED <<env, git, db>> /\ settled' = settled \ {t}
      /\ job' = [job EXCEPT !.read = @ \ {t}]
  BY DEF Say
<1>2. PICK k \in Len(log[t]) + 1 .. Len(script[t]) :
          log' = [log EXCEPT ![t] = [i \in 1 .. k |-> IF i <= Len(log[t]) THEN log[t][i] ELSE Now]]
  BY DEF Say
<1>3. \A u \in Transcript \ {t} : log'[u] = log[u]
  BY <1>2 DEF FullInv, Typed
<1>4. Says
  <2>1. log'[t] = [i \in 1 .. k |-> IF i <= Len(log[t]) THEN log[t][i] ELSE Now]
    BY <1>2 DEF FullInv, Typed
  <2>2. DOMAIN log[t] = 1 .. Len(log[t]) /\ Len(log[t]) \in Nat /\ Len(script[t]) \in Nat
    BY LinesRead DEF FullInv
  <2>3. \A i \in DOMAIN log[t] : i \in 1 .. k /\ i <= Len(log[t])
    BY <2>2
  <2>4. \A i \in DOMAIN log[t] : i \in DOMAIN log'[t] /\ log'[t][i] = log[t][i]
    BY <2>1, <2>3
  <2>5. QED
    BY <1>3, <2>4 DEF Says
<1>5. SameCapture /\ GitOK'
  BY <1>1 DEF SameCapture, Capturing, git, GitOK, FullInv
<1>6. /\ job'.read = job.read \ {t} /\ job'.pc = job.pc /\ job'.open = job.open
      /\ job'.view = job.view /\ job'.hits = job.hits /\ job'.tally = job.tally
      /\ job'.rebuild = job.rebuild /\ job'.rebuilt = job.rebuilt /\ job'.behind = job.behind
      /\ job'.roots = job.roots
  BY <1>1 DEF FullInv, Typed, JobFields
<1>7. /\ settled' \subseteq settled \intersect (Transcript \ {t})
      /\ settled' \intersect job.read \subseteq job'.read
      /\ job'.read \subseteq job.read \intersect (Transcript \ {t})
  BY <1>1, <1>6 DEF FullInv
<1>8. UNCHANGED <<env, db, indexed>>
  BY <1>1 DEF git
<1>9. Transcript \ {t} \in SUBSET Transcript
  OBVIOUS
<1>10. QED
  BY <1>3, <1>4, <1>5, <1>6, <1>7, <1>8, <1>9, WorldStep

(* What leaves log, tables and the pass alone                              *)
LEMMA FullQuietStep ==
    ASSUME FullInv, Typed', GitOK', UNCHANGED <<env, log, db, indexed, job>>, SameCapture,
           settled' \subseteq settled
    PROVE  FullInv'
<1>1. Says
  BY DEF Says
<1>2. settled' \subseteq settled \intersect Transcript /\ job.read \subseteq Transcript
  BY DEF FullInv
<1>3. Transcript \in SUBSET Transcript /\ \A t \in Transcript : log'[t] = log[t]
  OBVIOUS
<1>4. QED
  BY <1>1, <1>2, <1>3, WorldStep

LEMMA FullMakeStep ==
    ASSUME FullInv, Typed', NEW paths \in Touched, MakeCommit(paths) PROVE FullInv'
<1>1. /\ UNCHANGED <<env, log, kept, indexed, db, job, settled>>
      /\ made' = Append(made, paths) /\ head' \in {head, head \union {Now}}
  BY DEF MakeCommit
<1>2. SameCapture
  <2> SUFFICES ASSUME NEW p, NEW at PROVE Capturing(p, at)' = Capturing(p, at)
    BY DEF SameCapture
  <2>1. made \in Seq(SUBSET Path) /\ made' \in Seq(SUBSET Path) /\ GitOK
    BY DEF FullInv, Typed
  <2>2. QED
    BY <1>1, <2>1, CapturingSame
<1>3. GitOK'
  <2>1. Len(made) \in Nat /\ Len(made') = Len(made) + 1 /\ Now = Len(made) + 1
    BY <1>1 DEF FullInv, Typed, Now
  <2>2. /\ head \subseteq 1 .. Len(made) /\ indexed \subseteq 1 .. Len(made)
        /\ NoMerge => \A c \in head \ indexed : \A d \in indexed : d < c
    BY DEF FullInv, GitOK
  <2>3. head' \subseteq 1 .. Len(made') /\ indexed' \subseteq 1 .. Len(made')
    <3>1. 1 .. Len(made) \subseteq 1 .. Len(made') /\ Now \in 1 .. Len(made')
      BY <2>1
    <3>2. QED
      BY <1>1, <2>2, <3>1
  <2>4. \A d \in indexed : d < Now
    BY <2>1, <2>2
  <2>5. QED
    BY <1>1, <2>2, <2>3, <2>4 DEF GitOK
<1>4. QED
  BY <1>1, <1>2, <1>3, FullQuietStep

LEMMA FullStep == FullInv /\ [Next]_vars => FullInv'
<1> SUFFICES ASSUME FullInv, [Next]_vars PROVE FullInv'
  OBVIOUS
<1>1. Typed'
  BY TypedStep DEF FullInv
<1>2. ASSUME NEW t \in Transcript, Say(t) PROVE FullInv'
  BY <1>1, <1>2, FullSayStep
<1>3. ASSUME NEW t \in Transcript, Delete(t) PROVE FullInv'
  BY <1>1, <1>3, FullQuietStep DEF Delete, git, SameCapture, Capturing, FullInv, GitOK
<1>4. ASSUME NEW paths \in Touched, MakeCommit(paths) PROVE FullInv'
  BY <1>1, <1>4, FullMakeStep
<1>5. ASSUME NEW c \in Commit, Merge(c) \/ Rewrite(c) PROVE FullInv'
  <2>1. /\ UNCHANGED <<env, log, made, indexed, db, job, settled>>
        /\ head' \subseteq head \union DOMAIN made /\ (NoMerge => head' \subseteq head)
    BY <1>5 DEF Merge, Rewrite, NoMerge
  <2>2. DOMAIN made = 1 .. Len(made)
    BY DEF FullInv, Typed
  <2>3. SameCapture /\ GitOK'
    BY <2>1, <2>2 DEF SameCapture, Capturing, FullInv, GitOK
  <2>4. QED
    BY <1>1, <2>1, <2>3, FullQuietStep
<1>6. CASE IndexCommits
  BY <1>1, <1>6, FullIndexStep
<1>7. CASE Begin
  <2>1. PICK rebuild, scoped \in BOOLEAN, todo \in {kept} \union {{t} : t \in kept} :
            job' = [Idle EXCEPT !.pc = "read", !.rebuild = rebuild, !.scoped = scoped,
                                !.todo = todo, !.roots = indexed # {}]
    BY <1>7 DEF Begin
  <2>2. PICK j : j = job'
    OBVIOUS
  <2>3. ~j.open /\ j.read = {} /\ ~j.behind /\ j.roots = (indexed # {})
    BY <2>1, <2>2 DEF Idle
  <2>4. JobOK(j) /\ j.read \subseteq Transcript
    BY <2>3 DEF JobOK
  <2>5. UNCHANGED <<env, log, git, db, settled>>
    BY <1>7 DEF Begin
  <2>6. JobOK(j)'
    BY <2>4, <2>5, JobStays DEF FullInv
  <2>7. QED
    BY <1>1, <2>2, <2>4, <2>5, <2>6, JobStep
<1>8. CASE Take
  BY <1>1, <1>8, FullTakeStep
<1>9. CASE Finish
  BY <1>1, <1>9, FullFinishStep
<1>10. CASE Fail
  <2>1. job' = Idle /\ UNCHANGED <<env, log, git, db, settled>>
    BY <1>10 DEF Fail
  <2>2. JobOK(job)' /\ job'.read \subseteq Transcript
    <3>1. ~job'.open /\ job'.read = {} /\ job'.pc # "read"
      BY <2>1 DEF Idle
    <3>2. QED
      BY <3>1 DEF JobOK
  <2>3. QED
    BY <1>1, <2>1, <2>2, JobStep
<1>11. CASE UNCHANGED vars
  BY <1>1, <1>11, FullQuietStep DEF vars, git, SameCapture, Capturing, FullInv, GitOK
<1>12. QED
  BY <1>2, <1>3, <1>4, <1>5, <1>6, <1>7, <1>8, <1>9, <1>10, <1>11 DEF Next

(* Whatever happens, no edge that a pass has read is missing: over resumed *)
(* sessions, passes of any scope, --rebuild, deleted transcripts and failed*)
(* passes each is there once and is found under its own prose              *)
(* (route_and_insert, index_sessions).                                     *)
THEOREM NothingLost == Spec => []AllStored
<1>1. FullInv => AllStored
  <2> SUFFICES ASSUME FullInv PROVE AllStored
    OBVIOUS
  <2>1. db.hits = {<<e.id, e.prose>> : e \in db.edges} /\ \A e, f \in db.edges : e.id = f.id => e = f
    BY DEF FullInv, TableOK
  <2>2. ASSUME NEW t \in settled, NEW i \in DOMAIN log[t], NEW k \in DOMAIN script[t][i].edits,
               InScope(script[t][i], script[t][i].edits[k]),
               Routed([path |-> script[t][i].edits[k]])
        PROVE  \E e \in db.edges : e.id = <<t, i, k>>
    <3>1. <<t, i, k>> \in Owes(t)
      BY <2>2 DEF Owes
    <3>2. QED
      BY <3>1 DEF FullInv, Holds
  <2>3. QED
    BY <2>1, <2>2 DEF AllStored
<1>2. QED
  BY <1>1, FullInit, FullStep, PTL DEF Spec

(* And each edge of the workspace is bound to the oldest indexed commit    *)
(* that touches it (the late binding of index_sessions), provided that no  *)
(* commit gets to be older than one that was indexed before it.            *)
THEOREM NothingMissing ==
    ASSUME NoMerge PROVE Spec => []Complete
<1>1. FullInv => BoundToOldest
  <2> SUFFICES ASSUME FullInv, NEW e \in db.edges, e.id[1] \in settled,
                      InScope(script[e.id[1]][e.id[2]], e.path)
               PROVE  e.commit = Capturing(e.path, log[e.id[1]][e.id[2]])
    BY DEF BoundToOldest
  <2>1. RowOK(e)
    BY DEF FullInv, TableOK
  <2>2. e.id \in Owes(e.id[1])
    BY <2>1, RowPlace
  <2>3. QED
    BY <2>2 DEF FullInv, AllBound, Bound
<1>2. Spec => []BoundToOldest
  BY <1>1, FullInit, FullStep, PTL DEF Spec
<1>3. BoundToOldest /\ AllStored => Complete
  BY DEF Complete
<1>4. QED
  BY <1>2, <1>3, NothingLost, PTL

(* A pass only adds: an edge goes only for a --rebuild that has admitted   *)
(* the session anew, and no tally shrinks (index_sessions).                *)
THEOREM PassesAdd == Spec => Additive
<1> DEFINE Adds ==
        /\ \A e \in db.edges :
             (\A f \in db'.edges : f.id # e.id) => job.rebuild /\ e.session \in job.rebuilt
        /\ \A s \in Session : db'.tally[s] >= db.tally[s]
<1>1. ASSUME FullInv, [Next]_vars PROVE [Adds]_vars
  <2>0. \A s \in Session : db.tally[s] \in Nat
    BY <1>1 DEF FullInv
  <2>1. CASE db' = db
    BY <2>0, <2>1
  <2>2. CASE IndexCommits
    <3> DEFINE unbound(e) == IF e.commit \in head THEN e ELSE [e EXCEPT !.commit = None]
    <3>1. db' = [db EXCEPT !.edges = {unbound(e) : e \in @}]
      BY <2>2 DEF IndexCommits
    <3>2. db'.edges = {unbound(e) : e \in db.edges} /\ db'.tally = db.tally
      BY <1>1, <3>1 DEF FullInv, Typed
    <3>3. \A e \in db.edges : unbound(e).id = e.id
      BY <1>1, Rebound DEF FullInv, TableOK, RowOK
    <3> HIDE DEF unbound
    <3>4. QED
      BY <2>0, <3>2, <3>3
  <2>3. CASE Finish
    <3>1. CASE ~job.open
      BY <2>0, <2>3, <3>1 DEF Finish
    <3>2. CASE job.open
      <4>1. db'.edges = job.view /\ db'.tally = job.tally
        BY <2>3, <3>2 DEF Finish
      <4>2. ViewOK(job, job.view, job.hits, job.tally)
        BY <1>1, <3>2 DEF FullInv, JobOK
      <4>3. QED
        BY <4>1, <4>2 DEF ViewOK
    <3>3. QED
      BY <3>1, <3>2
  <2>4. db' = db \/ IndexCommits \/ Finish
    BY <1>1 DEF Next, vars, Say, Delete, MakeCommit, Merge, Rewrite, Begin, Take, Fail
  <2>5. QED
    BY <2>1, <2>2, <2>3, <2>4
<1>2. QED
  BY <1>1, FullInit, FullStep, PTL DEF Spec, Additive
================================================================================
