--------------------------- MODULE FileCorpusProofs ---------------------------
(***************************************************************************)
(* Theorems about FileCorpus, for any files, contents, scans, edits,       *)
(* failures and crashes.                                                   *)
(*                                                                         *)
(* TypeInv      types; the tables are finite, a keyed row is found by its  *)
(*              key, a job's fields are there                              *)
(* ApartInv     two jobs never hold one document; a job's document is its  *)
(*              file's, and a deletion has the ids of what it drops        *)
(* HitInv       every search hit leads to its row, or is owed to a job, or *)
(*              is of a file that will be read again                       *)
(* MirrorInv    what a job has read and written so far agrees with the     *)
(*              disk, and a file nobody is at is mirrored                  *)
(*                                                                         *)
(* A lemma <Action>Does says once what the action does to each variable    *)
(* and to each field of its job; the proofs of the invariants use these    *)
(* and not the actions.                                                    *)
(***************************************************************************)
EXTENDS FileCorpus, FiniteSetTheorems, FunctionTheorems, TLAPS

JobFields == {"pc", "file", "doc", "text", "todo", "hit", "ids"}

(* The steps of a job between the one that finds its document and the one  *)
(* that ends it, and all steps of a job.                                   *)
Past == {"wipeFts", "wipeRows", "row", "unindex", "index", "sweepRows", "sweepFts"}
Holding == {"read", "collect", "drop"} \union Past
Steps == {"exists", "doc", "find", "prune"} \union Holding

FilesOK ==
    /\ DOMAIN disk = File
    /\ \A f \in File : disk[f] \in Texts[Kind[f]] \union {Absent}
    /\ queue \subseteq File /\ agenda \subseteq File /\ missed \subseteq File
    /\ up \in BOOLEAN

DocsOK ==
    /\ docs \in [File -> Nat]
    /\ \A f, g \in File : docs[f] = docs[g] /\ f # g => docs[f] = 0

RowsOK ==
    /\ IsFiniteSet(rows)
    /\ \A r \in rows : r.id \in Nat \ {0}
    /\ \A r, s \in rows : r.table = s.table /\ r.id = s.id => r = s
    /\ \A r, s \in rows :
          r.table = s.table /\ r.table # "design" /\ r.entry.key = s.entry.key => r = s

JobOK(j) ==
    /\ DOMAIN j = JobFields /\ j.doc \in Nat
    /\ j = Idle \/ (j.pc \in Steps /\ j.file \in File)

JobsOK == DOMAIN job = Process /\ \A p \in Process : JobOK(job[p])

(* Search rows of one database row                                        *)
Same(h, i) == h.table = i.table /\ h.ref = i.ref

(* The rows an UPSERT of entry e finds, and the row it leaves with an id   *)
Prior(p, e) ==
    {s \in rows : /\ Keyed(job[p].file) /\ s.table = Kind[job[p].file]
                  /\ s.entry.key = e.key}
RowFor(p, e, id) ==
    [table |-> Kind[job[p].file], id |-> id, doc |-> job[p].doc, entry |-> e]

(* Types, with what the code never looks at but relies on: the tables are  *)
(* finite, so that there is a next id; a keyed row is the only one of its  *)
(* key, as it is found by it.                                              *)
TypeInv == FilesOK /\ DocsOK /\ RowsOK /\ IsABag(fts) /\ JobsOK

--------------------------------------------------------------------------------

(* A finite set of numbers that is not empty has a largest one: of the     *)
(* subsets that have none, a smallest would lose nothing by losing an      *)
(* element.                                                                *)
LEMMA MaxOfFinite ==
    ASSUME NEW S \in SUBSET Nat, IsFiniteSet(S), S # {}
    PROVE  Max(S) \in S /\ \A x \in S : Max(S) >= x
<1> DEFINE Top(T) == \E m \in T : \A x \in T : m >= x
           Topless == {T \in SUBSET S : T # {} /\ ~Top(T)}
<1>1. Topless = {}
  <2> SUFFICES ASSUME Topless # {} PROVE FALSE
    OBVIOUS
  <2>1. FiniteSubsetsOf(S) = SUBSET S
    BY FS_FiniteSubsetsOfFinite
  <2>2. PICK T \in Topless : \A U \in Topless : <<U, T>> \notin StrictSubsetOrdering(S)
    <3>1. IsWellFoundedOn(StrictSubsetOrdering(S), FiniteSubsetsOf(S))
      BY FS_StrictSubsetOrderingWellFounded
    <3>2. Topless \subseteq FiniteSubsetsOf(S)
      BY <2>1
    <3> HIDE DEF Topless
    <3>3. QED
      BY <3>1, <3>2, WFMin
  <2>3. PICK y \in T : TRUE
    OBVIOUS
  <2> DEFINE U == T \ {y}
  <2>4. <<U, T>> \in StrictSubsetOrdering(S)
    BY <2>3 DEF StrictSubsetOrdering
  <2>5. U \notin Topless
    BY <2>2, <2>4
  <2>6. CASE U = {}
    BY <2>3, <2>6
  <2>7. CASE Top(U)
    <3>1. PICK m \in U : \A x \in U : m >= x
      BY <2>7
    <3>2. Top(T)
      BY <2>3, <3>1
    <3>3. QED
      BY <3>2
  <2>8. QED
    BY <2>5, <2>6, <2>7
<1>2. Top(S)
  BY <1>1
<1>3. QED
  BY <1>2, Zenon DEF Max

(* A function has finitely many values on a finite set.                    *)
LEMMA FiniteImage ==
    ASSUME NEW S, IsFiniteSet(S), NEW g, DOMAIN g = S, g = [x \in S |-> g[x]]
    PROVE  IsFiniteSet({g[x] : x \in S})
<1> DEFINE T == {g[x] : x \in S}
<1>1. g \in [S -> T]
  OBVIOUS
<1>2. \A t \in T : \E s \in S : g[s] = t
  OBVIOUS
<1>3. g \in Surjection(S, T)
  BY <1>1, <1>2, Fun_IsSurj, Zenon
<1>4. QED
  BY <1>3, FS_Surjection

(* The id SQLite gives a new row is nobody's.                              *)
LEMMA NewIdIsNew ==
    ASSUME NEW S \in SUBSET Nat, IsFiniteSet(S)
    PROVE  NewId(S) \in Nat /\ NewId(S) # 0 /\ NewId(S) \notin S
<1> DEFINE T == S \union {0}
<1>1. IsFiniteSet(T)
  BY FS_AddElement
<1>2. Max(T) \in T /\ \A x \in T : Max(T) >= x
  BY <1>1, MaxOfFinite
<1>3. PICK m \in T : m = Max(T) /\ \A x \in T : m >= x
  BY <1>2, Zenon
<1>4. NewId(S) = 1 + m /\ S \subseteq T
  BY <1>3 DEF NewId
<1>5. QED
  BY <1>3, <1>4

(* DELETE FROM search_index takes exactly the rows it names.               *)
LEMMA UnsearchTakes ==
    ASSUME NEW S, Unsearch(S)
    PROVE  /\ DOMAIN fts' = DOMAIN fts \ S
           /\ \A h \in DOMAIN fts' : fts'[h] = fts[h]
           /\ IsABag(fts) => IsABag(fts')
  BY DEF Unsearch, Restrict, IsABag

--------------------------------------------------------------------------------
LEMMA IdleOK == JobOK(Idle) /\ Idle.pc = "idle" /\ Idle.file = None
  BY DEF JobOK, Idle, JobFields

(* What the steps of a job have in common                                  *)
OnlyJob(p) == DOMAIN job' = Process /\ \A q \in Process \ {p} : job'[q] = job[q]

SameBut(j, i) == j.file = i.file /\ j.doc = i.doc /\ j.text = i.text /\ j.todo = i.todo
                 /\ j.hit = i.hit /\ j.ids = i.ids

LEMMA GotoDoes ==
    ASSUME JobsOK, NEW p \in Process, NEW c, Goto(p, c)
    PROVE  /\ OnlyJob(p) /\ DOMAIN job'[p] = JobFields
           /\ job'[p].pc = c /\ SameBut(job'[p], job[p])
  BY DEF JobsOK, JobOK, Goto, OnlyJob, SameBut, JobFields

LEMMA DoneDoes ==
    ASSUME JobsOK, NEW p \in Process, Done(p)
    PROVE  OnlyJob(p) /\ job'[p] = Idle
  BY DEF JobsOK, Done, OnlyJob

LEMMA JobKept ==
    ASSUME JobsOK, NEW p \in Process, OnlyJob(p), JobOK(job'[p])
    PROVE  JobsOK'
  BY DEF JobsOK, OnlyJob

LEMMA Waiting ==
    ASSUME JobsOK, NEW p \in Process, job[p].pc # "idle"
    PROVE  Busy(p) /\ job[p].file \in File /\ job[p].doc \in Nat /\ DOMAIN job[p] = JobFields
  BY IdleOK DEF JobsOK, JobOK, Busy

(* What each step does to the job, said field by field                     *)
LEMMA TakeDoes ==
    ASSUME JobsOK, NEW p \in Process, NEW f \in File, NEW c, Take(p, f, c)
    PROVE  /\ OnlyJob(p) /\ DOMAIN job'[p] = JobFields
           /\ job'[p].pc = c /\ job'[p].file = f /\ job'[p].doc = 0
           /\ UNCHANGED <<disk, docs, rows, fts, up, missed>>
           /\ "clash" \in Disturb \/ ~Clashes(f, FALSE, Other(p))
  BY DEF JobsOK, JobOK, Take, OnlyJob, Idle, JobFields, db

LEMMA ExistsDoes ==
    ASSUME JobsOK, NEW p \in Process, Exists(p)
    PROVE  /\ Busy(p) /\ job[p].pc = "exists" /\ job[p].file \in File /\ OnlyJob(p)
           /\ UNCHANGED <<disk, docs, rows, fts, agenda, up, queue, missed>>
           /\ \/ /\ disk[job[p].file] # Absent /\ job'[p].pc = "doc"
                 /\ DOMAIN job'[p] = JobFields /\ SameBut(job'[p], job[p])
              \/ disk[job[p].file] = Absent /\ p = Scanner /\ job'[p] = Idle
              \/ /\ disk[job[p].file] = Absent /\ p = Watcher /\ job'[p].pc = "find"
                 /\ DOMAIN job'[p] = JobFields /\ SameBut(job'[p], job[p])
                 /\ "clash" \in Disturb \/ ~Clashes(job[p].file, TRUE, Scanner)
<1>1. Busy(p) /\ job[p].file \in File
  BY Waiting DEF Exists
<1>2. QED
  BY <1>1, GotoDoes, DoneDoes DEF Exists, db, scan, watch

LEMMA UpsertDocumentDoes ==
    ASSUME JobsOK, DocsOK, NEW p \in Process, UpsertDocument(p)
    PROVE  LET f == job[p].file IN
           /\ Busy(p) /\ job[p].pc = "doc" /\ f \in File /\ OnlyJob(p) /\ disk[f] # Absent
           /\ UNCHANGED <<disk, rows, fts, agenda, up, queue, missed>>
           /\ DOMAIN job'[p] = JobFields /\ job'[p].pc = "read" /\ job'[p].file = f
           /\ job'[p].doc = docs'[f] /\ docs'[f] \in Nat /\ docs'[f] # 0
           /\ docs' \in [File -> Nat] /\ \A g \in File \ {f} : docs'[g] = docs[g]
           /\ IF docs[f] # 0 THEN docs' = docs ELSE \A g \in File : docs[g] # docs'[f]
<1> DEFINE f == job[p].file
           S == {docs[g] : g \in File}
           id == IF docs[f] # 0 THEN docs[f] ELSE NewId(S)
<1>1. Busy(p) /\ job[p].pc = "doc" /\ f \in File /\ disk[f] # Absent
  BY Waiting DEF UpsertDocument
<1>2. S \in SUBSET Nat /\ IsFiniteSet(S)
  BY FiniteImage, FileAssumption DEF DocsOK
<1>3. id \in Nat /\ id # 0 /\ (docs[f] = 0 => id \notin S)
  BY <1>1, <1>2, NewIdIsNew DEF DocsOK
<1>4. docs' = [docs EXCEPT ![f] = id] /\ UNCHANGED <<disk, rows, fts, agenda, up, queue, missed>>
  BY DEF UpsertDocument, scan, watch
<1>5. job' = [job EXCEPT ![p].pc = "read", ![p].doc = id]
  BY DEF UpsertDocument
<1>6. docs[f] # 0 => id = docs[f]
  OBVIOUS
<1> HIDE DEF id
<1>7. /\ OnlyJob(p) /\ DOMAIN job'[p] = JobFields /\ job'[p].pc = "read"
      /\ job'[p].file = f /\ job'[p].doc = id
  BY <1>5 DEF JobsOK, JobOK, OnlyJob, JobFields
<1>8. docs' \in [File -> Nat] /\ docs'[f] = id /\ \A g \in File \ {f} : docs'[g] = docs[g]
  BY <1>1, <1>3, <1>4 DEF DocsOK
<1>9. docs[f] # 0 => docs' = docs
  BY <1>4, <1>6, <1>8 DEF DocsOK
<1>10. docs[f] = 0 => \A g \in File : docs[g] # id
  BY <1>3
<1>11. QED
  BY <1>1, <1>3, <1>4, <1>7, <1>8, <1>9, <1>10

LEMMA ReadDoes ==
    ASSUME JobsOK, NEW p \in Process, Read(p)
    PROVE  LET f == job[p].file  t == disk[f] IN
           /\ Busy(p) /\ job[p].pc = "read" /\ f \in File /\ OnlyJob(p) /\ t # Absent
           /\ UNCHANGED <<disk, docs, rows, fts, agenda, up, queue>>
           /\ \/ t = {} /\ Keyed(f) /\ job'[p] = Idle /\ UNCHANGED missed
              \/ /\ ~(t = {} /\ Keyed(f)) /\ missed' = missed \ {f}
                 /\ DOMAIN job'[p] = JobFields
                 /\ job'[p].pc = IF Keyed(f) THEN "row" ELSE "wipeFts"
                 /\ job'[p].file = f /\ job'[p].doc = job[p].doc
                 /\ job'[p].text = t /\ job'[p].todo = t
<1> DEFINE f == job[p].file
           t == disk[f]
<1>1. Busy(p) /\ job[p].pc = "read" /\ f \in File /\ DOMAIN job[p] = JobFields
  BY Waiting DEF Read
<1>2. t # Absent /\ UNCHANGED <<disk, docs, rows, fts, agenda, up, queue>>
  BY DEF Read, db, scan, watch
<1>3. CASE t = {} /\ Keyed(f)
  BY <1>1, <1>2, <1>3, DoneDoes DEF Read
<1>4. CASE ~(t = {} /\ Keyed(f))
  <2>1. /\ missed' = missed \ {f}
        /\ job' = [job EXCEPT ![p].text = t, ![p].todo = t,
                              ![p].pc = IF Keyed(f) THEN "row" ELSE "wipeFts"]
    BY <1>4 DEF Read
  <2>2. /\ OnlyJob(p) /\ DOMAIN job'[p] = JobFields
        /\ job'[p].pc = IF Keyed(f) THEN "row" ELSE "wipeFts"
        /\ job'[p].file = f /\ job'[p].doc = job[p].doc
        /\ job'[p].text = t /\ job'[p].todo = t
    BY <2>1 DEF JobsOK, JobOK, OnlyJob, JobFields
  <2>3. QED
    BY <1>1, <1>2, <1>4, <2>1, <2>2
<1>5. QED
  BY <1>3, <1>4

LEMMA PersistEntryDoes ==
    ASSUME JobsOK, RowsOK, NEW p \in Process, PersistEntry(p)
    PROVE  LET f == job[p].file  k == Kind[f]  d == job[p].doc IN
           /\ Busy(p) /\ job[p].pc = "row" /\ f \in File /\ OnlyJob(p)
           /\ UNCHANGED <<disk, docs, fts, agenda, up, queue, missed>>
           /\ DOMAIN job'[p] = JobFields /\ job'[p].file = f /\ job'[p].doc = d
           /\ job'[p].text = job[p].text /\ job'[p].todo = job[p].todo
           /\ job'[p].pc = IF k = "design" THEN "index" ELSE "unindex"
           /\ \E e \in job[p].todo, id \in Nat \ {0} :
                /\ rows' = (rows \ Prior(p, e)) \union {RowFor(p, e, id)}
                /\ job'[p].hit = HitOf(RowFor(p, e, id))
                /\ IF Prior(p, e) = {} THEN \A s \in rows : s.table = k => s.id # id
                   ELSE \E s \in Prior(p, e) : s.id = id
<1> DEFINE f == job[p].file
           k == Kind[f]
           d == job[p].doc
<1>1. Busy(p) /\ job[p].pc = "row" /\ f \in File /\ DOMAIN job[p] = JobFields
  BY Waiting DEF PersistEntry
<1>2. UNCHANGED <<disk, docs, fts, agenda, up, queue, missed>>
  BY DEF PersistEntry, scan, watch
<1> DEFINE prior(e) == Prior(p, e)
           id(e) == IF prior(e) = {} THEN NewId(IdsIn(k)) ELSE (CHOOSE s \in prior(e) : TRUE).id
           r(e) == RowFor(p, e, id(e))
<1>3. PICK e \in job[p].todo :
        /\ rows' = (rows \ prior(e)) \union {r(e)}
        /\ job' = [job EXCEPT ![p].hit = [table |-> k, ref |-> id(e), entry |-> e],
                        ![p].pc = IF k = "design" THEN "index" ELSE "unindex"]
  BY DEF PersistEntry, Prior, RowFor
<1>4. IdsIn(k) \in SUBSET Nat /\ IsFiniteSet(IdsIn(k))
  <2> DEFINE S == {x \in rows : x.table = k}
             g == [x \in S |-> x.id]
  <2>1. IsFiniteSet(S)
    BY FS_Subset DEF RowsOK
  <2>2. DOMAIN g = S /\ g = [x \in S |-> g[x]]
    OBVIOUS
  <2> HIDE DEF g
  <2>3. IsFiniteSet({g[x] : x \in S})
    BY <2>1, <2>2, FiniteImage
  <2>4. {g[x] : x \in S} = IdsIn(k)
    BY DEF IdsIn, g
  <2>5. QED
    BY <2>3, <2>4 DEF IdsIn, RowsOK
<1>5. /\ id(e) \in Nat \ {0}
      /\ IF prior(e) = {} THEN \A s \in rows : s.table = k => s.id # id(e)
         ELSE \E s \in prior(e) : s.id = id(e)
  <2>1. CASE prior(e) = {}
    <3>1. id(e) = NewId(IdsIn(k))
      BY <2>1
    <3> HIDE DEF id, prior
    <3>2. QED
      BY <2>1, <3>1, <1>4, NewIdIsNew DEF IdsIn
  <2>2. CASE prior(e) # {}
    <3>1. PICK s \in prior(e) : s = CHOOSE x \in prior(e) : TRUE
      BY <2>2
    <3>2. id(e) = s.id
      BY <2>2, <3>1
    <3> HIDE DEF id
    <3>3. s \in rows
      BY DEF Prior
    <3> HIDE DEF prior
    <3>4. QED
      BY <2>2, <3>1, <3>2, <3>3 DEF RowsOK
  <2>3. QED
    BY <2>1, <2>2
<1>6. HitOf(r(e)) = [table |-> k, ref |-> id(e), entry |-> e]
  BY DEF HitOf, RowFor
<1> HIDE DEF id
<1>7. /\ OnlyJob(p) /\ DOMAIN job'[p] = JobFields /\ job'[p].file = f /\ job'[p].doc = d
      /\ job'[p].text = job[p].text /\ job'[p].todo = job[p].todo
      /\ job'[p].pc = IF k = "design" THEN "index" ELSE "unindex"
      /\ job'[p].hit = HitOf(r(e))
  BY <1>1, <1>3, <1>6 DEF JobsOK, JobOK, OnlyJob, JobFields
<1>8. QED
  BY <1>1, <1>2, <1>3, <1>5, <1>7

LEMMA IndexDoes ==
    ASSUME JobsOK, IsABag(fts), NEW p \in Process, Index(p)
    PROVE  LET h == job[p].hit IN
           /\ Busy(p) /\ job[p].pc = "index" /\ job[p].file \in File /\ OnlyJob(p)
           /\ UNCHANGED <<disk, docs, rows, agenda, up, queue, missed>>
           /\ DOMAIN job'[p] = JobFields /\ job'[p].pc = "row" /\ job'[p].file = job[p].file
           /\ job'[p].doc = job[p].doc /\ job'[p].text = job[p].text
           /\ job'[p].todo = job[p].todo \ {h.entry}
           /\ IsABag(fts') /\ DOMAIN fts' = DOMAIN fts \union {h}
           /\ \A x \in DOMAIN fts \ {h} : fts'[x] = fts[x]
           /\ h \notin DOMAIN fts => fts'[h] = 1
<1>1. Busy(p) /\ job[p].pc = "index" /\ job[p].file \in File /\ DOMAIN job[p] = JobFields
  BY Waiting DEF Index
<1>2. UNCHANGED <<disk, docs, rows, agenda, up, queue, missed>>
  BY DEF Index, scan, watch
<1>3. /\ OnlyJob(p) /\ DOMAIN job'[p] = JobFields
      /\ job'[p].pc = "row" /\ job'[p].file = job[p].file
      /\ job'[p].doc = job[p].doc /\ job'[p].text = job[p].text
      /\ job'[p].todo = job[p].todo \ {job[p].hit.entry}
  BY <1>1 DEF Index, JobsOK, JobOK, OnlyJob, JobFields
<1> DEFINE h == job[p].hit
           one == SetToBag({h})
<1>4. DOMAIN one = {h} /\ one[h] = 1
  BY DEF SetToBag
<1>5. fts' = [e \in DOMAIN fts \union DOMAIN one |->
                 (IF e \in DOMAIN fts THEN fts[e] ELSE 0) + (IF e \in DOMAIN one THEN one[e] ELSE 0)]
  BY DEF Index, (+)
<1> HIDE DEF one
<1>6. \A x \in DOMAIN fts : fts[x] \in Nat /\ fts[x] > 0
  BY DEF IsABag
<1> HIDE DEF h
<1>7. /\ DOMAIN fts' = DOMAIN fts \union {h}
      /\ \A x \in DOMAIN fts \ {h} : fts'[x] = fts[x]
      /\ h \notin DOMAIN fts => fts'[h] = 1
  BY <1>4, <1>5, <1>6
<1>8. \A x \in DOMAIN fts' : fts'[x] \in Nat /\ fts'[x] > 0
  BY <1>4, <1>5, <1>6
<1>9. fts' = [x \in DOMAIN fts' |-> fts'[x]]
  BY <1>5
<1>10. IsABag(fts')
  BY <1>8, <1>9 DEF IsABag
<1>11. QED
  BY <1>1, <1>2, <1>3, <1>7, <1>10 DEF h

LEMMA FindDocumentDoes ==
    ASSUME JobsOK, DocsOK, NEW p \in Process, FindDocument(p)
    PROVE  LET f == job[p].file IN
           /\ Busy(p) /\ job[p].pc = "find" /\ f \in File /\ OnlyJob(p)
           /\ UNCHANGED <<disk, docs, rows, fts, agenda, up, queue>>
           /\ missed' = missed \ {f}
           /\ \/ docs[f] = 0 /\ job'[p] = Idle
              \/ /\ docs[f] # 0 /\ DOMAIN job'[p] = JobFields /\ job'[p].pc = "collect"
                 /\ job'[p].file = f /\ job'[p].doc = docs[f]
<1>1. Busy(p) /\ job[p].pc = "find" /\ job[p].file \in File /\ DOMAIN job[p] = JobFields
  BY Waiting DEF FindDocument
<1>2. /\ UNCHANGED <<disk, docs, rows, fts, agenda, up, queue>>
      /\ missed' = missed \ {job[p].file}
  BY DEF FindDocument, db, scan, watch
<1>3. CASE docs[job[p].file] = 0
  BY <1>1, <1>2, <1>3, DoneDoes DEF FindDocument
<1>4. CASE docs[job[p].file] # 0
  <2>1. job' = [job EXCEPT ![p].doc = docs[job[p].file], ![p].pc = "collect"]
    BY <1>4 DEF FindDocument
  <2>2. /\ OnlyJob(p) /\ DOMAIN job'[p] = JobFields /\ job'[p].pc = "collect"
        /\ job'[p].file = job[p].file /\ job'[p].doc = docs[job[p].file]
    BY <2>1 DEF JobsOK, JobOK, OnlyJob, JobFields
  <2>3. QED
    BY <1>1, <1>2, <1>4, <2>2
<1>5. QED
  BY <1>3, <1>4

LEMMA CollectIdsDoes ==
    ASSUME JobsOK, NEW p \in Process, CollectIds(p)
    PROVE  /\ Busy(p) /\ job[p].pc = "collect" /\ job[p].file \in File /\ OnlyJob(p)
           /\ UNCHANGED <<disk, docs, rows, fts, agenda, up, queue, missed>>
           /\ DOMAIN job'[p] = JobFields /\ job'[p].pc = "drop"
           /\ job'[p].file = job[p].file /\ job'[p].doc = job[p].doc
           /\ job'[p].ids = {HitOf(r) : r \in RowsOf(job[p].doc)}
<1>1. Busy(p) /\ job[p].pc = "collect" /\ job[p].file \in File /\ DOMAIN job[p] = JobFields
  BY Waiting DEF CollectIds
<1>2. UNCHANGED <<disk, docs, rows, fts, agenda, up, queue, missed>>
  BY DEF CollectIds, db, scan, watch
<1> DEFINE S == {HitOf(r) : r \in RowsOf(job[p].doc)}
<1>3. job' = [job EXCEPT ![p].ids = S, ![p].pc = "drop"]
  BY DEF CollectIds
<1> HIDE DEF S
<1>4. /\ OnlyJob(p) /\ DOMAIN job'[p] = JobFields /\ job'[p].pc = "drop"
      /\ job'[p].file = job[p].file /\ job'[p].doc = job[p].doc /\ job'[p].ids = S
  BY <1>1, <1>3 DEF JobsOK, JobOK, OnlyJob, JobFields
<1>5. QED
  BY <1>1, <1>2, <1>4 DEF S

LEMMA WipeFtsOfDocDoes ==
    ASSUME JobsOK, IsABag(fts), NEW p \in Process, WipeFtsOfDoc(p)
    PROVE  /\ Busy(p) /\ job[p].pc = "wipeFts" /\ job[p].file \in File /\ OnlyJob(p)
           /\ UNCHANGED <<disk, docs, rows, agenda, up, queue, missed>>
           /\ DOMAIN job'[p] = JobFields /\ job'[p].pc = "wipeRows" /\ SameBut(job'[p], job[p])
           /\ IsABag(fts') /\ DOMAIN fts' \subseteq DOMAIN fts
           /\ \A h \in DOMAIN fts' : fts'[h] = fts[h]
           /\ \A h \in DOMAIN fts :
                 h \in DOMAIN fts' <=>
                    ~(h.table = "design"
                      /\ \E r \in rows : r.table = "design" /\ r.doc = job[p].doc /\ r.id = h.ref)
<1>1. Busy(p) /\ job[p].pc = "wipeFts" /\ job[p].file \in File
  BY Waiting DEF WipeFtsOfDoc
<1> DEFINE own == {r.id : r \in {x \in RowsOf(job[p].doc) : x.table = "design"}}
           S == {h \in DOMAIN fts : h.table = "design" /\ h.ref \in own}
<1>2. Unsearch(S) /\ Goto(p, "wipeRows") /\ UNCHANGED <<disk, docs, rows, agenda, up, queue, missed>>
  BY DEF WipeFtsOfDoc, scan, watch
<1>3. \A i : i \in own <=> \E r \in rows : r.table = "design" /\ r.doc = job[p].doc /\ r.id = i
  BY DEF RowsOf
<1>4. \A h \in DOMAIN fts :
         h \in S <=> h.table = "design"
                     /\ \E r \in rows : r.table = "design" /\ r.doc = job[p].doc /\ r.id = h.ref
  BY <1>3
<1> HIDE DEF S
<1>5. /\ IsABag(fts') /\ DOMAIN fts' = DOMAIN fts \ S
      /\ \A h \in DOMAIN fts' : fts'[h] = fts[h]
  BY <1>2, UnsearchTakes
<1>6. OnlyJob(p) /\ DOMAIN job'[p] = JobFields /\ job'[p].pc = "wipeRows" /\ SameBut(job'[p], job[p])
  BY <1>2, GotoDoes
<1>7. QED
  BY <1>1, <1>2, <1>4, <1>5, <1>6

LEMMA WipeRowsOfDocDoes ==
    ASSUME JobsOK, NEW p \in Process, WipeRowsOfDoc(p)
    PROVE  /\ Busy(p) /\ job[p].pc = "wipeRows" /\ job[p].file \in File /\ OnlyJob(p)
           /\ UNCHANGED <<disk, docs, fts, agenda, up, queue, missed>>
           /\ DOMAIN job'[p] = JobFields /\ job'[p].pc = "row" /\ SameBut(job'[p], job[p])
           /\ rows' = {r \in rows : ~(r.table = "design" /\ r.doc = job[p].doc)}
  BY Waiting, GotoDoes DEF WipeRowsOfDoc, scan, watch

LEMMA UnindexDoes ==
    ASSUME JobsOK, IsABag(fts), NEW p \in Process, Unindex(p)
    PROVE  /\ Busy(p) /\ job[p].pc = "unindex" /\ job[p].file \in File /\ OnlyJob(p)
           /\ UNCHANGED <<disk, docs, rows, agenda, up, queue, missed>>
           /\ DOMAIN job'[p] = JobFields /\ job'[p].pc = "index" /\ SameBut(job'[p], job[p])
           /\ IsABag(fts') /\ DOMAIN fts' \subseteq DOMAIN fts
           /\ \A h \in DOMAIN fts' : fts'[h] = fts[h]
           /\ \A h \in DOMAIN fts : h \in DOMAIN fts' <=> ~Same(h, job[p].hit)
<1> DEFINE S == {h \in DOMAIN fts : h.table = job[p].hit.table /\ h.ref = job[p].hit.ref}
<1>1. Unsearch(S) /\ Goto(p, "index") /\ UNCHANGED <<disk, docs, rows, agenda, up, queue, missed>>
  BY DEF Unindex, scan, watch
<1>2. \A h \in DOMAIN fts : h \in S <=> Same(h, job[p].hit)
  BY DEF Same
<1> HIDE DEF S
<1>3. Busy(p) /\ job[p].pc = "unindex" /\ job[p].file \in File
  BY Waiting DEF Unindex
<1>4. /\ IsABag(fts') /\ DOMAIN fts' = DOMAIN fts \ S
      /\ \A h \in DOMAIN fts' : fts'[h] = fts[h]
  BY <1>1, UnsearchTakes
<1>5. OnlyJob(p) /\ DOMAIN job'[p] = JobFields /\ job'[p].pc = "index" /\ SameBut(job'[p], job[p])
  BY <1>1, GotoDoes
<1>6. QED
  BY <1>1, <1>2, <1>3, <1>4, <1>5

LEMMA PersistedDoes ==
    ASSUME JobsOK, NEW p \in Process, Persisted(p)
    PROVE  /\ Busy(p) /\ job[p].pc = "row" /\ job[p].file \in File /\ OnlyJob(p)
           /\ job[p].todo = {}
           /\ UNCHANGED <<disk, docs, rows, fts, agenda, up, queue, missed>>
           /\ \/ /\ Kind[job[p].file] = "session" /\ job'[p].pc = "sweepRows"
                 /\ DOMAIN job'[p] = JobFields /\ SameBut(job'[p], job[p])
              \/ Kind[job[p].file] # "session" /\ job'[p] = Idle
  BY Waiting, GotoDoes, DoneDoes DEF Persisted, db, scan, watch

LEMMA SweepRowsDoes ==
    ASSUME JobsOK, NEW p \in Process, SweepRows(p)
    PROVE  /\ Busy(p) /\ job[p].pc = "sweepRows" /\ job[p].file \in File /\ OnlyJob(p)
           /\ UNCHANGED <<disk, docs, fts, agenda, up, queue, missed>>
           /\ DOMAIN job'[p] = JobFields /\ job'[p].pc = "sweepFts" /\ SameBut(job'[p], job[p])
           /\ rows' = {r \in rows : ~(/\ r.table = "session" /\ r.doc = job[p].doc
                                      /\ r.entry.key \notin KeysOf(job[p].text))}
<1>1. Busy(p) /\ job[p].pc = "sweepRows" /\ job[p].file \in File
  BY Waiting DEF SweepRows
<1>2. QED
  BY <1>1, GotoDoes DEF SweepRows, scan, watch

LEMMA SweepFtsDoes ==
    ASSUME JobsOK, IsABag(fts), NEW p \in Process, SweepFts(p)
    PROVE  /\ Busy(p) /\ job[p].pc = "sweepFts" /\ job[p].file \in File /\ OnlyJob(p)
           /\ job'[p] = Idle
           /\ UNCHANGED <<disk, docs, rows, agenda, up, queue, missed>>
           /\ IsABag(fts') /\ DOMAIN fts' \subseteq DOMAIN fts
           /\ \A h \in DOMAIN fts' : fts'[h] = fts[h]
           /\ \A h \in DOMAIN fts :
                 h \in DOMAIN fts' <=>
                    ~(h.table = "session"
                      /\ \A r \in RowsOf(job[p].doc) : r.table = "session" => r.id # h.ref)
<1> DEFINE live == {r.id : r \in {x \in RowsOf(job[p].doc) : x.table = "session"}}
           S == {h \in DOMAIN fts : h.table = "session" /\ h.ref \notin live}
<1>1. Unsearch(S) /\ Done(p) /\ UNCHANGED <<disk, docs, rows, agenda, up, queue, missed>>
  BY DEF SweepFts, scan, watch
<1>2. \A h \in DOMAIN fts :
         h \in S <=> h.table = "session"
                     /\ \A r \in RowsOf(job[p].doc) : r.table = "session" => r.id # h.ref
  OBVIOUS
<1> HIDE DEF S
<1>3. Busy(p) /\ job[p].pc = "sweepFts" /\ job[p].file \in File
  BY Waiting DEF SweepFts
<1>4. /\ IsABag(fts') /\ DOMAIN fts' = DOMAIN fts \ S
      /\ \A h \in DOMAIN fts' : fts'[h] = fts[h]
  BY <1>1, UnsearchTakes
<1>5. OnlyJob(p) /\ job'[p] = Idle
  BY <1>1, DoneDoes
<1>6. QED
  BY <1>1, <1>2, <1>3, <1>4, <1>5

LEMMA DropDocumentDoes ==
    ASSUME JobsOK, NEW p \in Process, DropDocument(p)
    PROVE  /\ Busy(p) /\ job[p].pc = "drop" /\ job[p].file \in File /\ OnlyJob(p)
           /\ UNCHANGED <<disk, fts, agenda, up, queue, missed>>
           /\ DOMAIN job'[p] = JobFields /\ job'[p].pc = "prune" /\ SameBut(job'[p], job[p])
           /\ docs' = [f \in File |-> IF docs[f] = job[p].doc THEN 0 ELSE docs[f]]
           /\ rows' = rows \ RowsOf(job[p].doc)
  BY Waiting, GotoDoes DEF DropDocument, scan, watch

LEMMA PruneFtsDoes ==
    ASSUME JobsOK, IsABag(fts), NEW p \in Process, PruneFts(p)
    PROVE  /\ Busy(p) /\ job[p].pc = "prune" /\ job[p].file \in File /\ OnlyJob(p)
           /\ job'[p] = Idle
           /\ UNCHANGED <<disk, docs, rows, agenda, up, queue, missed>>
           /\ IsABag(fts') /\ DOMAIN fts' \subseteq DOMAIN fts
           /\ \A h \in DOMAIN fts' : fts'[h] = fts[h]
           /\ \A h \in DOMAIN fts : h \in DOMAIN fts' <=> ~\E i \in job[p].ids : Same(h, i)
<1> DEFINE S == {h \in DOMAIN fts : \E i \in job[p].ids : i.table = h.table /\ i.ref = h.ref}
<1>1. Unsearch(S) /\ Done(p) /\ UNCHANGED <<disk, docs, rows, agenda, up, queue, missed>>
  BY DEF PruneFts, scan, watch
<1>2. \A h \in DOMAIN fts : h \in S <=> \E i \in job[p].ids : Same(h, i)
  BY DEF Same
<1> HIDE DEF S
<1>3. Busy(p) /\ job[p].pc = "prune" /\ job[p].file \in File
  BY Waiting DEF PruneFts
<1>4. /\ IsABag(fts') /\ DOMAIN fts' = DOMAIN fts \ S
      /\ \A h \in DOMAIN fts' : fts'[h] = fts[h]
  BY <1>1, UnsearchTakes
<1>5. OnlyJob(p) /\ job'[p] = Idle
  BY <1>1, DoneDoes
<1>6. QED
  BY <1>1, <1>2, <1>3, <1>4, <1>5

LEMMA FailureDoes ==
    ASSUME JobsOK, NEW p \in Process, Fails(p) \/ Abort(p)
    PROVE  /\ Busy(p) /\ job[p].file \in File /\ OnlyJob(p) /\ job'[p] = Idle
           /\ UNCHANGED <<disk, docs, rows, fts, up, queue>>
           /\ missed' = missed \union {job[p].file}
           /\ agenda' = {} \/ agenda' = agenda
           /\ "tornSweep" \in Disturb \/ ~Torn(p)
<1>1. Busy(p) /\ job[p].file \in File
  <2>1. job[p].pc # "idle"
    BY DEF Fails, Abort, Busy
  <2>2. QED
    BY <2>1, Waiting
<1>2. Drop(p) /\ UNCHANGED <<disk, docs, rows, fts, up, queue>>
  BY DEF Fails, Abort, db, watch
<1>3. agenda' = {} \/ agenda' = agenda
  BY <1>2 DEF Drop, EndScan, scan
<1>4. "tornSweep" \in Disturb \/ ~Torn(p)
  BY DEF Fails, Abort, Torn
<1>5. QED
  BY <1>1, <1>2, <1>3, <1>4, DoneDoes DEF Drop

LEMMA CrashDoes ==
    ASSUME JobsOK, Crash
    PROVE  /\ OnlyJob(Watcher) /\ job'[Watcher] = Idle /\ Watcher \in Process
           /\ UNCHANGED <<disk, docs, rows, fts, agenda>>
           /\ up' = FALSE /\ queue' = {}
           /\ missed' = missed \union queue \union ({job[Watcher].file} \ {None})
           /\ "tornSweep" \in Disturb \/ ~Torn(Watcher)
<1>1. Watcher \in Process
  BY DEF Process
<1>2. QED
  BY <1>1, DoneDoes DEF Crash, db, scan

--------------------------------------------------------------------------------
LEMMA TypeInit == Init => TypeInv
<1> SUFFICES ASSUME Init PROVE TypeInv
  OBVIOUS
<1>1. FilesOK
  BY DEF Init, FilesOK
<1>2. DocsOK
  BY DEF Init, DocsOK
<1>3. RowsOK
  BY FS_EmptySet DEF Init, RowsOK
<1>4. IsABag(fts)
  BY DEF Init, EmptyBag, SetToBag, IsABag
<1>5. JobsOK
  BY IdleOK DEF Init, JobsOK
<1>6. QED
  BY <1>1, <1>2, <1>3, <1>4, <1>5 DEF TypeInv

(* A step of a job that leaves the documents and their rows                *)
LEMMA TypeOfQuietStep ==
    ASSUME TypeInv, NEW p \in Process, OnlyJob(p), JobOK(job'[p]),
           UNCHANGED <<disk, docs, rows, up>>, IsABag(fts'),
           queue' \subseteq File, agenda' \subseteq File, missed' \subseteq File
    PROVE  TypeInv'
<1>1. JobsOK'
  BY JobKept DEF TypeInv
<1>2. FilesOK' /\ DocsOK' /\ RowsOK'
  BY DEF TypeInv, FilesOK, DocsOK, RowsOK
<1>3. QED
  BY <1>1, <1>2 DEF TypeInv

LEMMA TypeStep == TypeInv /\ [Next]_vars => TypeInv'
<1> SUFFICES ASSUME TypeInv, [Next]_vars PROVE TypeInv'
  OBVIOUS
<1> USE DEF TypeInv
<1>jobs. \A p \in Process : job[p].pc # "idle" =>
            Busy(p) /\ job[p].file \in File /\ job[p].doc \in Nat /\ DOMAIN job[p] = JobFields
  BY Waiting
<1>sets. queue \subseteq File /\ agenda \subseteq File /\ missed \subseteq File
  BY DEF FilesOK
<1>1. ASSUME NEW d, NEW S, Change(d, S), S \subseteq File,
             DOMAIN d = File, \A f \in File : d[f] \in Texts[Kind[f]] \union {Absent}
      PROVE  TypeInv'
  <2>1. FilesOK'
    BY <1>1 DEF Change, FilesOK, scan
  <2>2. UNCHANGED <<docs, rows, fts, job>>
    BY <1>1 DEF Change, db
  <2>3. QED
    BY <2>1, <2>2 DEF DocsOK, RowsOK, JobsOK
<1>2. ASSUME NEW f \in File, Edit(f) PROVE TypeInv'
  <2>1. PICK t \in Texts[Kind[f]] \union {Absent} : Change([disk EXCEPT ![f] = t], {f})
    BY <1>2 DEF Edit
  <2> DEFINE d == [disk EXCEPT ![f] = t]
  <2>2. DOMAIN d = File /\ \A g \in File : d[g] \in Texts[Kind[g]] \union {Absent}
    BY DEF FilesOK
  <2>3. Change(d, {f}) /\ {f} \subseteq File
    BY <2>1
  <2> HIDE DEF d
  <2>4. QED
    BY <1>1, <2>2, <2>3
<1>3. ASSUME NEW f \in File, NEW g \in File, Rename(f, g) PROVE TypeInv'
  <2>1. Kind[f] = Kind[g] /\ Change([disk EXCEPT ![g] = disk[f], ![f] = Absent], {f, g})
    BY <1>3 DEF Rename
  <2> DEFINE d == [disk EXCEPT ![g] = disk[f], ![f] = Absent]
  <2>2. DOMAIN d = File /\ \A x \in File : d[x] \in Texts[Kind[x]] \union {Absent}
    BY <2>1 DEF FilesOK
  <2>3. Change(d, {f, g}) /\ {f, g} \subseteq File
    BY <2>1
  <2> HIDE DEF d
  <2>4. QED
    BY <1>1, <2>2, <2>3
<1>4. ASSUME Scan PROVE TypeInv'
  <2>1. \A k : Listed(k) \subseteq File
    BY DEF Listed
  <2>2. UNCHANGED <<disk, docs, rows, fts, job, up, queue, missed>> /\ agenda' \subseteq File
    BY <1>4, <2>1 DEF Scan, ScanPhase, db, watch
  <2>3. QED
    BY <2>2 DEF FilesOK, DocsOK, RowsOK, JobsOK
<1>5. ASSUME NEW f \in File, TakeEvent(f) \/ TakeListed(f) PROVE TypeInv'
  <2>1. PICK p \in Process, c \in Steps :
           Take(p, f, c) /\ queue' \subseteq queue /\ agenda' \subseteq agenda
    BY <1>5 DEF TakeEvent, TakeListed, Process, Steps
  <2>2. /\ DOMAIN job'[p] = JobFields /\ job'[p].doc = 0 /\ job'[p].pc \in Steps
        /\ job'[p].file \in File
    BY <2>1, TakeDoes
  <2>3. JobOK(job'[p])
    BY <2>2 DEF JobOK
  <2>4. QED
    BY <2>1, <2>3, TakeDoes, TypeOfQuietStep DEF FilesOK
<1>6. ASSUME NEW p \in Process, Exists(p) PROVE TypeInv'
  <2>1. JobOK(job'[p])
    BY <1>6, ExistsDoes, IdleOK, <1>jobs DEF JobOK, SameBut, Steps
  <2>2. QED
    BY <1>6, <2>1, ExistsDoes, TypeOfQuietStep, <1>sets
<1>7. ASSUME NEW p \in Process, UpsertDocument(p) PROVE TypeInv'
  <2>1. JobsOK'
    BY <1>7, UpsertDocumentDoes, JobKept DEF JobOK, Steps, Holding
  <2>2. DocsOK'
    BY <1>7, UpsertDocumentDoes DEF DocsOK
  <2>3. UNCHANGED <<disk, rows, fts, agenda, up, queue, missed>>
    BY <1>7, UpsertDocumentDoes
  <2>4. QED
    BY <2>1, <2>2, <2>3 DEF FilesOK, RowsOK
<1>8. ASSUME NEW p \in Process, Read(p) PROVE TypeInv'
  <2>1. JobOK(job'[p])
    BY <1>8, ReadDoes, IdleOK, <1>jobs DEF JobOK, Steps, Holding, Past
  <2>2. QED
    BY <1>8, <2>1, ReadDoes, TypeOfQuietStep, <1>sets
<1>9. ASSUME NEW p \in Process, WipeFtsOfDoc(p) PROVE TypeInv'
  <2>1. JobOK(job'[p])
    BY <1>9, WipeFtsOfDocDoes, <1>jobs DEF JobOK, SameBut, Steps, Holding, Past
  <2>2. QED
    BY <1>9, <2>1, WipeFtsOfDocDoes, TypeOfQuietStep, <1>sets
<1>10. ASSUME NEW p \in Process, WipeRowsOfDoc(p) \/ SweepRows(p) PROVE TypeInv'
  <2>1. JobsOK'
    <3>1. JobOK(job'[p])
      BY <1>10, WipeRowsOfDocDoes, SweepRowsDoes, <1>jobs DEF JobOK, SameBut, Steps, Holding, Past
    <3>2. QED
      BY <1>10, <3>1, WipeRowsOfDocDoes, SweepRowsDoes, JobKept
  <2>2. rows' \in SUBSET rows
    BY <1>10, WipeRowsOfDocDoes, SweepRowsDoes
  <2>3. RowsOK'
    <3>1. IsFiniteSet(rows')
      BY <2>2, FS_Subset DEF RowsOK
    <3>2. QED
      BY <2>2, <3>1 DEF RowsOK
  <2>4. UNCHANGED <<disk, docs, fts, agenda, up, queue, missed>>
    BY <1>10, WipeRowsOfDocDoes, SweepRowsDoes
  <2>5. QED
    BY <2>1, <2>3, <2>4 DEF FilesOK, DocsOK
<1>11. ASSUME NEW p \in Process, PersistEntry(p) PROVE TypeInv'
  <2> DEFINE f == job[p].file
             k == Kind[f]
  <2>1. PICK e \in job[p].todo, id \in Nat \ {0} :
          /\ rows' = (rows \ Prior(p, e)) \union {RowFor(p, e, id)}
          /\ IF Prior(p, e) = {} THEN \A s \in rows : s.table = k => s.id # id
             ELSE \E s \in Prior(p, e) : s.id = id
    BY <1>11, PersistEntryDoes
  <2> DEFINE r == RowFor(p, e, id)
             prior == Prior(p, e)
  <2>2. JobsOK'
    <3>1. JobOK(job'[p])
      BY <1>11, PersistEntryDoes, <1>jobs DEF JobOK, Steps, Holding, Past
    <3>2. QED
      BY <1>11, <3>1, PersistEntryDoes, JobKept
  <2>3. UNCHANGED <<disk, docs, fts, agenda, up, queue, missed>>
    BY <1>11, PersistEntryDoes
  <2>4. IsFiniteSet(rows')
    <3>1. IsFiniteSet(rows \ prior)
      BY FS_Difference DEF RowsOK
    <3>2. QED
      BY <2>1, <3>1, FS_AddElement
  <2>5. f \in File /\ (k # "design" => Keyed(f))
    <3>1. f \in File
      BY <1>11, PersistEntryDoes
    <3>2. QED
      BY <3>1, FileAssumption DEF Kinds, Keyed
  <2>6. /\ \A s \in rows \ prior : s \in rows
        /\ \A s \in rows \ prior : s.table = k => s.id # id
        /\ \A s \in rows \ prior : s.table = k /\ k # "design" => s.entry.key # e.key
    BY <2>1, <2>5 DEF RowsOK, Prior
  <2>7. r.table = k /\ r.id = id /\ r.entry = e /\ rows' = (rows \ prior) \union {r}
    BY <2>1 DEF RowFor
  <2> HIDE DEF r, prior
  <2>8. RowsOK'
    BY <2>4, <2>6, <2>7 DEF RowsOK
  <2>9. QED
    BY <2>2, <2>3, <2>8 DEF FilesOK, DocsOK
<1>12. ASSUME NEW p \in Process, Unindex(p) PROVE TypeInv'
  <2>1. JobOK(job'[p])
    BY <1>12, UnindexDoes, <1>jobs DEF JobOK, SameBut, Steps, Holding, Past
  <2>2. QED
    BY <1>12, <2>1, UnindexDoes, TypeOfQuietStep, <1>sets
<1>13. ASSUME NEW p \in Process, Index(p) PROVE TypeInv'
  <2>1. JobOK(job'[p])
    BY <1>13, IndexDoes, <1>jobs DEF JobOK, Steps, Holding, Past
  <2>2. QED
    BY <1>13, <2>1, IndexDoes, TypeOfQuietStep, <1>sets
<1>14. ASSUME NEW p \in Process, Persisted(p) PROVE TypeInv'
  <2>1. JobOK(job'[p])
    BY <1>14, PersistedDoes, IdleOK, <1>jobs DEF JobOK, SameBut, Steps, Holding, Past
  <2>2. QED
    BY <1>14, <2>1, PersistedDoes, TypeOfQuietStep, <1>sets
<1>15. ASSUME NEW p \in Process, SweepFts(p) \/ PruneFts(p) PROVE TypeInv'
  BY <1>15, SweepFtsDoes, PruneFtsDoes, IdleOK, TypeOfQuietStep, <1>sets
<1>16. ASSUME NEW p \in Process, FindDocument(p) PROVE TypeInv'
  <2>1. JobOK(job'[p])
    BY <1>16, FindDocumentDoes, IdleOK DEF JobOK, DocsOK, Steps, Holding
  <2>2. QED
    BY <1>16, <2>1, FindDocumentDoes, TypeOfQuietStep, <1>sets
<1>17. ASSUME NEW p \in Process, CollectIds(p) PROVE TypeInv'
  <2>1. JobOK(job'[p])
    BY <1>17, CollectIdsDoes, <1>jobs DEF JobOK, Steps, Holding
  <2>2. QED
    BY <1>17, <2>1, CollectIdsDoes, TypeOfQuietStep, <1>sets
<1>18. ASSUME NEW p \in Process, DropDocument(p) PROVE TypeInv'
  <2>1. JobsOK'
    <3>1. JobOK(job'[p])
      BY <1>18, DropDocumentDoes, <1>jobs DEF JobOK, SameBut, Steps, Holding
    <3>2. QED
      BY <1>18, <3>1, DropDocumentDoes, JobKept
  <2>2. /\ docs' = [f \in File |-> IF docs[f] = job[p].doc THEN 0 ELSE docs[f]]
        /\ rows' \in SUBSET rows
        /\ UNCHANGED <<disk, fts, agenda, up, queue, missed>>
    BY <1>18, DropDocumentDoes
  <2>3. DocsOK'
    BY <2>2 DEF DocsOK
  <2>4. IsFiniteSet(rows')
    BY <2>2, FS_Subset DEF RowsOK
  <2>5. RowsOK'
    BY <2>2, <2>4 DEF RowsOK
  <2>6. QED
    BY <2>1, <2>2, <2>3, <2>5 DEF FilesOK
<1>19. ASSUME NEW p \in Process, Fails(p) \/ Abort(p) PROVE TypeInv'
  BY <1>19, FailureDoes, IdleOK, TypeOfQuietStep, <1>sets
<1>20. ASSUME Crash PROVE TypeInv'
  <2>1. JobsOK'
    BY <1>20, CrashDoes, IdleOK, JobKept
  <2>2. job[Watcher].file \in File \union {None}
    BY <1>20, CrashDoes, IdleOK DEF JobsOK, JobOK
  <2>3. QED
    BY <1>20, <2>1, <2>2, CrashDoes DEF FilesOK, DocsOK, RowsOK
<1>21. ASSUME Restart PROVE TypeInv'
  BY <1>21 DEF Restart, db, scan, FilesOK, DocsOK, RowsOK, JobsOK
<1>22. CASE UNCHANGED vars
  BY <1>22 DEF vars, db, scan, watch, bounds, FilesOK, DocsOK, RowsOK, JobsOK
<1>23. QED
  BY <1>2, <1>3, <1>4, <1>5, <1>6, <1>7, <1>8, <1>9, <1>10, <1>11, <1>12, <1>13, <1>14,
     <1>15, <1>16, <1>17, <1>18, <1>19, <1>20, <1>21, <1>22
     DEF Next, Step

(* Types: ids are positive and unique in their table, no two paths share a *)
(* document, whatever fails, crashes or meets.                             *)
THEOREM TypeCorrect == Spec => []TypeOK
<1>1. TypeInv => TypeOK
  BY DEF TypeInv, FilesOK, DocsOK, RowsOK, TypeOK
<1>2. QED
  BY <1>1, TypeInit, TypeStep, PTL DEF Spec

--------------------------------------------------------------------------------
(* No two jobs meet that would harm each other, see Clashes.               *)
Apart == "clash" \notin Disturb

(* One CLAUDE.md: the sweep of a session pass takes the search rows of     *)
(* every other document.                                                   *)
OneSession ==
    \A f, g \in File : Kind[f] = "session" /\ Kind[g] = "session" => f = g

Exclusive ==
    \A p, q \in Process :
        p # q /\ Busy(p) /\ Busy(q) =>
            /\ ~Deleting(p) /\ job[p].file # job[q].file
            /\ Keyed(job[p].file) => Kind[job[p].file] # Kind[job[q].file]

(* Every row has its document, and the document is of its kind of file.    *)
Rooted == \A r \in rows : r.doc # 0 /\ \E f \in File : docs[f] = r.doc /\ Kind[f] = r.table

(* A job holds the document of its file; a deletion has collected its rows *)
(* and, once they are dropped, no row has one of their ids.                *)
JobHolds(j) ==
    /\ j.pc \in Holding => j.doc # 0 /\ docs[j.file] = j.doc
    /\ j.pc \in {"wipeFts", "wipeRows"} => Kind[j.file] = "design"
    /\ j.pc \in {"sweepRows", "sweepFts"} => Kind[j.file] = "session"
    /\ j.pc = "unindex" => Keyed(j.file)
    /\ j.pc = "drop" => j.ids = {HitOf(r) : r \in RowsOf(j.doc)}
    /\ j.pc = "prune" =>
          /\ docs[j.file] = 0
          /\ \A i \in j.ids, r \in rows : ~Same(i, HitOf(r))

ApartInv == Exclusive /\ Rooted /\ \A p \in Process : JobHolds(job[p])

LEMMA IdleHolds == JobHolds(Idle)
  BY IdleOK DEF JobHolds, Holding, Past

LEMMA KindsOfFiles == \A f \in File : Keyed(f) <=> Kind[f] # "design"
  BY FileAssumption DEF Keyed, Kinds

LEMMA OtherProcess == \A p, q \in Process : p # q => q = Other(p)
  BY FileAssumption DEF Process, Other

(* A job goes on with its file, or ends, and starts no deletion.           *)
GoesOn(p) ==
    job'[p].pc # "idle" =>
        /\ Busy(p) /\ job'[p].file = job[p].file
        /\ job'[p].pc \in {"find", "collect", "drop", "prune"} => Deleting(p)

LEMMA ExclusiveKept ==
    ASSUME Exclusive, NEW p \in Process, OnlyJob(p), GoesOn(p)
    PROVE  Exclusive'
  BY DEF Exclusive, OnlyJob, GoesOn, Busy, Deleting

LEMMA AlonePrunes ==
    ASSUME ApartInv, NEW p \in Process, Busy(p)
    PROVE  \A q \in Process \ {p} : job[q].pc \notin {"find", "collect", "drop", "prune"}
  BY DEF ApartInv, Exclusive, Busy, Deleting

LEMMA ApartOfQuietStep ==
    ASSUME ApartInv, NEW p \in Process, OnlyJob(p), GoesOn(p), UNCHANGED <<docs, rows>>,
           JobHolds(job'[p])
    PROVE  ApartInv'
<1>1. Exclusive'
  BY ExclusiveKept DEF ApartInv
<1>2. Rooted'
  BY DEF ApartInv, Rooted
<1>3. \A q \in Process : JobHolds(job[q])'
  BY DEF ApartInv, JobHolds, OnlyJob, RowsOf, HitOf
<1>4. QED
  BY <1>1, <1>2, <1>3 DEF ApartInv

LEMMA ApartInit == Init => ApartInv
  BY IdleHolds, IdleOK DEF Init, ApartInv, Exclusive, Rooted, Busy

LEMMA ApartStep == ASSUME Apart PROVE TypeInv /\ ApartInv /\ [Next]_vars => ApartInv'
<1> SUFFICES ASSUME TypeInv, ApartInv, [Next]_vars PROVE ApartInv'
  OBVIOUS
<1>a. FilesOK /\ DocsOK /\ RowsOK /\ IsABag(fts) /\ JobsOK
  BY DEF TypeInv
<1>b. Exclusive /\ Rooted /\ \A p \in Process : JobHolds(job[p])
  BY DEF ApartInv
<1>c. Idle.pc = "idle"
  BY IdleOK
<1>1. ASSUME UNCHANGED <<docs, rows, job>> PROVE ApartInv'
  <2>1. Exclusive'
    BY <1>1, <1>b DEF Exclusive, Busy, Deleting
  <2>2. Rooted' /\ \A p \in Process : JobHolds(job[p])'
    BY <1>1, <1>b DEF Rooted, JobHolds, RowsOf, HitOf
  <2>3. QED
    BY <2>1, <2>2 DEF ApartInv
<1>2. ASSUME NEW f \in File, TakeEvent(f) \/ TakeListed(f) PROVE ApartInv'
  <2>1. PICK p \in Process, c \in {"exists", "doc"} : Take(p, f, c) /\ ~Busy(p)
    BY <1>2 DEF TakeEvent, TakeListed, Process
  <2>2. /\ OnlyJob(p) /\ job'[p].pc = c /\ job'[p].file = f /\ UNCHANGED <<docs, rows>>
        /\ ~Clashes(f, FALSE, Other(p))
    BY <2>1, <1>a, TakeDoes DEF Apart
  <2>3. \A q \in Process \ {p} : Busy(q) =>
           /\ job[q].file # f /\ ~Deleting(q)
           /\ ~(Keyed(f) /\ Kind[job[q].file] = Kind[f])
    BY <2>2, OtherProcess DEF Clashes
  <2>4. Exclusive'
    BY <2>2, <2>3, <1>b DEF Exclusive, OnlyJob, Busy, Deleting, Keyed
  <2>5. JobHolds(job'[p])
    BY <2>2 DEF JobHolds, Holding, Past
  <2>6. Rooted' /\ \A q \in Process : JobHolds(job[q])'
    BY <1>b, <2>2, <2>5 DEF Rooted, JobHolds, OnlyJob, RowsOf, HitOf
  <2>7. QED
    BY <2>4, <2>6 DEF ApartInv
<1>3. ASSUME NEW p \in Process, Exists(p) PROVE ApartInv'
  <2>1. /\ Busy(p) /\ job[p].pc = "exists" /\ OnlyJob(p) /\ UNCHANGED <<docs, rows>>
        /\ job'[p].pc \in {"idle", "doc", "find"}
        /\ job'[p].pc # "idle" => job'[p].file = job[p].file
        /\ job'[p].pc = "find" => p = Watcher /\ ~Clashes(job[p].file, TRUE, Scanner)
    BY <1>3, <1>a, <1>c, ExistsDoes DEF SameBut, Apart
  <2>2. job'[p].pc = "find" => \A q \in Process \ {p} : ~Busy(q)
    BY <2>1, OtherProcess DEF Clashes, Other, Process
  <2>3. Exclusive'
    BY <1>b, <2>1, <2>2 DEF Exclusive, OnlyJob, Busy, Deleting
  <2>4. JobHolds(job'[p])
    BY <2>1, IdleHolds DEF JobHolds, Holding, Past
  <2>5. Rooted' /\ \A q \in Process : JobHolds(job[q])'
    BY <1>b, <2>1, <2>4 DEF Rooted, JobHolds, OnlyJob, RowsOf, HitOf
  <2>6. QED
    BY <2>3, <2>5 DEF ApartInv
<1>4. ASSUME NEW p \in Process, UpsertDocument(p) PROVE ApartInv'
  <2> DEFINE f == job[p].file
  <2>1. /\ Busy(p) /\ f \in File /\ OnlyJob(p) /\ UNCHANGED rows /\ job[p].pc = "doc"
        /\ job'[p].pc = "read" /\ job'[p].file = f /\ job'[p].doc = docs'[f] /\ docs'[f] # 0
        /\ docs' \in [File -> Nat] /\ \A g \in File \ {f} : docs'[g] = docs[g]
        /\ IF docs[f] # 0 THEN docs' = docs ELSE \A g \in File : docs[g] # docs'[f]
    BY <1>4, <1>a, UpsertDocumentDoes
  <2>2. Exclusive'
    BY <1>b, <2>1, ExclusiveKept DEF GoesOn
  <2>3. Rooted'
    BY <1>b, <2>1 DEF Rooted
  <2>4. JobHolds(job[p])'
    BY <2>1 DEF JobHolds, Holding, Past
  <2>5. ASSUME NEW q \in Process \ {p} PROVE JobHolds(job[q])'
    <3>1. job'[q] = job[q] /\ job[q].pc \notin {"find", "collect", "drop", "prune"}
      BY <2>1, AlonePrunes DEF OnlyJob
    <3>2. job[q].pc \in Holding => job[q].file \in File \ {f}
      BY <1>a, <1>b, <2>1, Waiting DEF Exclusive, Holding, Past
    <3>3. QED
      BY <1>b, <2>1, <3>1, <3>2 DEF JobHolds
  <2>6. QED
    BY <2>2, <2>3, <2>4, <2>5 DEF ApartInv
<1>5. ASSUME NEW p \in Process, Read(p) PROVE ApartInv'
  <2>1. /\ Busy(p) /\ job[p].pc = "read" /\ OnlyJob(p) /\ UNCHANGED <<docs, rows>>
        /\ job[p].file \in File
        /\ \/ job'[p] = Idle
           \/ /\ job'[p].file = job[p].file /\ job'[p].doc = job[p].doc
              /\ job'[p].pc = IF Keyed(job[p].file) THEN "row" ELSE "wipeFts"
    BY <1>5, <1>a, ReadDoes
  <2>2. GoesOn(p)
    BY <2>1, <1>c DEF GoesOn
  <2>3. JobHolds(job'[p])
    BY <1>b, <2>1, IdleHolds, KindsOfFiles DEF JobHolds, Holding, Past
  <2>4. QED
    BY <2>1, <2>2, <2>3, ApartOfQuietStep
<1>6. ASSUME NEW p \in Process, WipeFtsOfDoc(p) \/ Unindex(p) \/ Persisted(p) PROVE ApartInv'
  <2>1. /\ Busy(p) /\ OnlyJob(p) /\ UNCHANGED <<docs, rows>>
        /\ \/ job'[p] = Idle
           \/ /\ job'[p].file = job[p].file /\ job'[p].doc = job[p].doc
              /\ \/ job[p].pc = "wipeFts" /\ job'[p].pc = "wipeRows"
                 \/ job[p].pc = "unindex" /\ job'[p].pc = "index"
                 \/ job[p].pc = "row" /\ job'[p].pc = "sweepRows" /\ Kind[job[p].file] = "session"
    BY <1>6, <1>a, WipeFtsOfDocDoes, UnindexDoes, PersistedDoes DEF SameBut
  <2>2. GoesOn(p)
    BY <2>1, <1>c DEF GoesOn
  <2>3. JobHolds(job'[p])
    BY <1>b, <2>1, IdleHolds DEF JobHolds, Holding, Past
  <2>4. QED
    BY <2>1, <2>2, <2>3, ApartOfQuietStep
<1>7. ASSUME NEW p \in Process, Index(p) PROVE ApartInv'
  <2>1. /\ Busy(p) /\ OnlyJob(p) /\ UNCHANGED <<docs, rows>>
        /\ job'[p].file = job[p].file /\ job'[p].doc = job[p].doc
        /\ job[p].pc = "index" /\ job'[p].pc = "row"
    BY <1>7, <1>a, IndexDoes
  <2>2. GoesOn(p) /\ JobHolds(job'[p])
    BY <1>b, <2>1 DEF GoesOn, JobHolds, Holding, Past
  <2>3. QED
    BY <2>1, <2>2, ApartOfQuietStep
<1>8. ASSUME NEW p \in Process, WipeRowsOfDoc(p) \/ SweepRows(p) PROVE ApartInv'
  <2>1. /\ Busy(p) /\ OnlyJob(p) /\ UNCHANGED docs /\ rows' \subseteq rows
        /\ job'[p].file = job[p].file /\ job'[p].doc = job[p].doc
        /\ \/ job[p].pc = "wipeRows" /\ job'[p].pc = "row"
           \/ job[p].pc = "sweepRows" /\ job'[p].pc = "sweepFts"
    BY <1>8, <1>a, WipeRowsOfDocDoes, SweepRowsDoes DEF SameBut
  <2>2. Exclusive'
    BY <1>b, <2>1, ExclusiveKept DEF GoesOn
  <2>3. Rooted'
    BY <1>b, <2>1 DEF Rooted
  <2>4. JobHolds(job[p])'
    BY <1>b, <2>1 DEF JobHolds, Holding, Past
  <2>5. ASSUME NEW q \in Process \ {p} PROVE JobHolds(job[q])'
    <3>1. job'[q] = job[q] /\ job[q].pc \notin {"find", "collect", "drop", "prune"}
      BY <2>1, AlonePrunes DEF OnlyJob
    <3>2. QED
      BY <1>b, <2>1, <3>1 DEF JobHolds
  <2>6. QED
    BY <2>2, <2>3, <2>4, <2>5 DEF ApartInv
<1>9. ASSUME NEW p \in Process, PersistEntry(p) PROVE ApartInv'
  <2> DEFINE f == job[p].file
  <2>1. /\ Busy(p) /\ OnlyJob(p) /\ UNCHANGED docs /\ f \in File /\ job[p].pc = "row"
        /\ job'[p].file = f /\ job'[p].doc = job[p].doc
        /\ job'[p].pc = IF Kind[f] = "design" THEN "index" ELSE "unindex"
    BY <1>9, <1>a, PersistEntryDoes
  <2>2. PICK e \in job[p].todo, id \in Nat \ {0} :
           rows' = (rows \ Prior(p, e)) \union {RowFor(p, e, id)}
    BY <1>9, <1>a, PersistEntryDoes
  <2>3. Exclusive'
    BY <1>b, <2>1, ExclusiveKept DEF GoesOn
  <2>4. job[p].doc # 0 /\ docs[f] = job[p].doc
    BY <1>b, <2>1 DEF JobHolds, Holding, Past
  <2>5. RowFor(p, e, id).doc = job[p].doc /\ RowFor(p, e, id).table = Kind[f]
    BY DEF RowFor
  <2>6. Rooted'
    BY <1>b, <2>1, <2>2, <2>4, <2>5 DEF Rooted
  <2>7. JobHolds(job[p])'
    BY <2>1, <2>4, KindsOfFiles DEF JobHolds, Holding, Past
  <2>8. ASSUME NEW q \in Process \ {p} PROVE JobHolds(job[q])'
    <3>1. job'[q] = job[q] /\ job[q].pc \notin {"find", "collect", "drop", "prune"}
      BY <2>1, AlonePrunes DEF OnlyJob
    <3>2. QED
      BY <1>b, <2>1, <3>1 DEF JobHolds
  <2>9. QED
    BY <2>3, <2>6, <2>7, <2>8 DEF ApartInv
<1>10. ASSUME NEW p \in Process, SweepFts(p) \/ PruneFts(p) \/ Fails(p) \/ Abort(p)
       PROVE  ApartInv'
  <2>1. OnlyJob(p) /\ job'[p] = Idle /\ UNCHANGED <<docs, rows>>
    BY <1>10, <1>a, SweepFtsDoes, PruneFtsDoes, FailureDoes
  <2>2. GoesOn(p)
    BY <2>1, <1>c DEF GoesOn
  <2>3. QED
    BY <2>1, <2>2, IdleHolds, ApartOfQuietStep
<1>11. ASSUME NEW p \in Process, FindDocument(p) PROVE ApartInv'
  <2>1. /\ Busy(p) /\ job[p].pc = "find" /\ OnlyJob(p) /\ UNCHANGED <<docs, rows>>
        /\ \/ job'[p] = Idle
           \/ /\ docs[job[p].file] # 0 /\ job'[p].pc = "collect"
              /\ job'[p].file = job[p].file /\ job'[p].doc = docs[job[p].file]
    BY <1>11, <1>a, FindDocumentDoes
  <2>2. GoesOn(p)
    BY <2>1, <1>c DEF GoesOn, Deleting
  <2>3. JobHolds(job'[p])
    BY <2>1, IdleHolds DEF JobHolds, Holding, Past
  <2>4. QED
    BY <2>1, <2>2, <2>3, ApartOfQuietStep
<1>12. ASSUME NEW p \in Process, CollectIds(p) PROVE ApartInv'
  <2>1. /\ Busy(p) /\ job[p].pc = "collect" /\ OnlyJob(p) /\ UNCHANGED <<docs, rows>>
        /\ job'[p].pc = "drop" /\ job'[p].file = job[p].file /\ job'[p].doc = job[p].doc
        /\ job'[p].ids = {HitOf(r) : r \in RowsOf(job[p].doc)}
    BY <1>12, <1>a, CollectIdsDoes
  <2>2. GoesOn(p)
    BY <2>1 DEF GoesOn, Deleting
  <2>3. JobHolds(job'[p])
    BY <1>b, <2>1 DEF JobHolds, Holding, Past
  <2>4. QED
    BY <2>1, <2>2, <2>3, ApartOfQuietStep
<1>13. ASSUME NEW p \in Process, DropDocument(p) PROVE ApartInv'
  <2> DEFINE d == job[p].doc
  <2>1. /\ Busy(p) /\ job[p].pc = "drop" /\ job[p].file \in File /\ OnlyJob(p)
        /\ job'[p].pc = "prune" /\ job'[p].file = job[p].file /\ job'[p].ids = job[p].ids
        /\ docs' = [f \in File |-> IF docs[f] = d THEN 0 ELSE docs[f]]
        /\ rows' = rows \ RowsOf(d)
    BY <1>13, <1>a, DropDocumentDoes DEF SameBut
  <2>2. docs[job[p].file] = d /\ job[p].ids = {HitOf(r) : r \in RowsOf(d)}
    BY <1>b, <2>1 DEF JobHolds, Holding
  <2>3. Exclusive'
    BY <1>b, <2>1, ExclusiveKept DEF GoesOn, Deleting
  <2>4. Rooted'
    BY <1>b, <2>1 DEF Rooted, RowsOf
  <2>5. ASSUME NEW i \in job[p].ids, NEW r \in rows', Same(i, HitOf(r)) PROVE FALSE
    <3>1. PICK s \in RowsOf(d) : i = HitOf(s)
      BY <2>2
    <3>2. r \in rows /\ s \in rows /\ r.table = s.table /\ r.id = s.id
      BY <2>1, <2>5, <3>1 DEF RowsOf, Same, HitOf
    <3>3. QED
      BY <1>a, <2>1, <3>1, <3>2 DEF RowsOK
  <2>6. JobHolds(job[p])'
    BY <2>1, <2>2, <2>5 DEF JobHolds, Holding, Past
  <2>7. ASSUME NEW q \in Process \ {p} PROVE JobHolds(job[q])'
    <3>1. job'[q] = job[q] /\ job[q].pc = "idle"
      BY <1>b, <2>1 DEF Exclusive, Deleting, Busy, OnlyJob
    <3>2. QED
      BY <3>1 DEF JobHolds, Holding, Past
  <2>8. QED
    BY <2>3, <2>4, <2>6, <2>7 DEF ApartInv
<1>14. ASSUME Crash PROVE ApartInv'
  <2>1. /\ Watcher \in Process /\ OnlyJob(Watcher) /\ job'[Watcher] = Idle
        /\ UNCHANGED <<docs, rows>>
    BY <1>14, <1>a, CrashDoes
  <2>2. GoesOn(Watcher)
    BY <2>1, <1>c DEF GoesOn
  <2>3. QED
    BY <2>1, <2>2, IdleHolds, ApartOfQuietStep
<1>15. CASE (\E f \in File : Edit(f)) \/ (\E f, g \in File : Rename(f, g)) \/ Scan \/ Restart
            \/ UNCHANGED vars
  BY <1>1, <1>15 DEF Edit, Rename, Change, Scan, ScanPhase, Restart, vars, db
<1>16. QED
  BY <1>2, <1>3, <1>4, <1>5, <1>6, <1>7, <1>8, <1>9, <1>10, <1>11, <1>12, <1>13, <1>14, <1>15
     DEF Next, Step

(* The sweep that ends a session pass and the prune that ends a deletion   *)
(* take no search row from a row that is there (sweep_session_entries,     *)
(* sweep_search_index_by_ids), whatever fails or crashes around them, when *)
(* there is one CLAUDE.md and no two jobs meet that clash.                 *)
THEOREM SweepsSpareTheLiving ==
    ASSUME Apart, OneSession PROVE Spec => SweepsTakeOrphansOnly
<1> DEFINE Spared == (\E p \in Process : job[p].pc \in {"sweepFts", "prune"} /\ job'[p].pc = "idle") =>
                        \A h \in DOMAIN fts \ DOMAIN fts' :
                            ~\E r \in rows : r.table = h.table /\ r.id = h.ref
<1>1. TypeInv /\ ApartInv /\ [Next]_vars => [Spared]_vars
  <2> SUFFICES ASSUME TypeInv, ApartInv, Next, NEW h \in DOMAIN fts \ DOMAIN fts',
                      NEW r \in rows, r.table = h.table, r.id = h.ref,
                      NEW q \in Process, job[q].pc \in {"sweepFts", "prune"}, job'[q].pc = "idle"
               PROVE  FALSE
    OBVIOUS
  <2>a. FilesOK /\ DocsOK /\ RowsOK /\ IsABag(fts) /\ JobsOK
    BY DEF TypeInv
  <2>b. Exclusive /\ Rooted /\ \A p \in Process : JobHolds(job[p])
    BY DEF ApartInv
  <2>1. CASE \E p \in Process : SweepFts(p)
    <3>1. PICK p \in Process : SweepFts(p)
      BY <2>1
    <3>2. /\ job[p].pc = "sweepFts" /\ job[p].file \in File /\ h.table = "session"
          /\ \A s \in RowsOf(job[p].doc) : s.table = "session" => s.id # h.ref
      BY <3>1, <2>a, SweepFtsDoes
    <3>3. Kind[job[p].file] = "session" /\ docs[job[p].file] = job[p].doc
      BY <2>b, <3>2 DEF JobHolds, Holding, Past
    <3>4. PICK f \in File : docs[f] = r.doc /\ Kind[f] = "session"
      BY <2>b, <3>2 DEF Rooted
    <3>5. r \in RowsOf(job[p].doc)
      BY <3>2, <3>3, <3>4 DEF OneSession, RowsOf
    <3>6. QED
      BY <3>2, <3>5
  <2>2. CASE \E p \in Process : PruneFts(p)
    <3>1. PICK p \in Process : PruneFts(p)
      BY <2>2
    <3>2. job[p].pc = "prune" /\ \E i \in job[p].ids : Same(h, i)
      BY <3>1, <2>a, PruneFtsDoes
    <3>3. QED
      BY <2>b, <3>2 DEF JobHolds, Same, HitOf
  <2>3. CASE \E p \in Process : WipeFtsOfDoc(p) \/ Unindex(p)
    <3>1. PICK p \in Process : WipeFtsOfDoc(p) \/ Unindex(p)
      BY <2>3
    <3>2. OnlyJob(p) /\ job[p].pc \in {"wipeFts", "unindex"}
      BY <3>1, <2>a, WipeFtsOfDocDoes, UnindexDoes
    <3>3. QED
      BY <3>2 DEF OnlyJob
  <2>4. CASE \E p \in Process : Index(p)
    BY <2>4, <2>a, IndexDoes
  <2>5. ASSUME NEW p \in Process,
               \/ Exists(p) \/ UpsertDocument(p) \/ Read(p) \/ WipeRowsOfDoc(p) \/ PersistEntry(p)
               \/ Persisted(p) \/ SweepRows(p) \/ FindDocument(p) \/ CollectIds(p) \/ DropDocument(p)
               \/ Fails(p) \/ Abort(p)
        PROVE  fts' = fts
    BY <2>5 DEF Exists, UpsertDocument, Read, WipeRowsOfDoc, PersistEntry, Persisted, SweepRows,
                FindDocument, CollectIds, DropDocument, Fails, Abort, db
  <2>6. ASSUME \/ \E f \in File : Edit(f) \/ TakeEvent(f) \/ TakeListed(f)
               \/ \E f, g \in File : Rename(f, g)
               \/ Scan \/ Crash \/ Restart
        PROVE  fts' = fts
    BY <2>6 DEF Edit, Rename, Change, Take, TakeEvent, TakeListed, Scan, ScanPhase, Crash, Restart, db
  <2>7. QED
    BY <2>1, <2>2, <2>3, <2>4, <2>5, <2>6 DEF Next, Step
<1>2. QED
  BY <1>1, TypeInit, TypeStep, ApartInit, ApartStep, PTL DEF Spec, SweepsTakeOrphansOnly

--------------------------------------------------------------------------------
(* Where a search hit stands.  It leads to the row whose text it holds, or *)
(* a job is about to take it away, or it holds what the row of a session   *)
(* entry said before, and the file of that row is to be read again: it was *)
(* missed, or a job is on its way to write the row again or to delete it.  *)
Resolved(h) == \E r \in rows : HitOf(r) = h

OwedBy(j, h) ==
    \/ j.pc = "prune" /\ \E i \in j.ids : Same(h, i)
    \/ j.pc = "unindex" /\ Same(h, j.hit)
    \/ /\ j.pc = "sweepFts" /\ h.table = "session"
       /\ \A r \in RowsOf(j.doc) : r.table = "session" => r.id # h.ref

Rewriting(j, f, r) ==
    /\ j.file = f
    /\ \/ j.pc \in {"collect", "drop"}
       \/ /\ j.pc \in {"row", "unindex", "index", "sweepRows"}
          /\ r.entry.key \in KeysOf(j.todo) \/ r.entry.key \notin KeysOf(j.text)

Outdated(h) ==
    \E r \in rows, f \in File :
       /\ h.table = "session" /\ Same(h, HitOf(r)) /\ docs[f] = r.doc
       /\ f \in missed \/ \E p \in Process : Rewriting(job[p], f, r)

Accounted(h) == Resolved(h) \/ Outdated(h) \/ \E p \in Process : OwedBy(job[p], h)

(* A job between a row and its search row has the row in hand, at a time   *)
(* when it has no search row; so have the rows a design job is to wipe.    *)
JobHits(j) ==
    /\ j.pc \in {"unindex", "index"} =>
          /\ j.hit.table = Kind[j.file] /\ j.hit.entry \in j.todo
          /\ \E r \in rows : HitOf(r) = j.hit /\ r.doc = j.doc
    /\ j.pc = "index" => \A h \in DOMAIN fts : ~Same(h, j.hit)
    /\ j.pc = "wipeRows" => \A h \in DOMAIN fts, r \in RowsOf(j.doc) : ~Same(h, HitOf(r))
    /\ j.pc = "sweepRows" => j.todo = {}

HitInv == (\A h \in DOMAIN fts : Accounted(h)) /\ \A p \in Process : JobHits(job[p])

LEMMA HitInit == Init => HitInv
<1> SUFFICES ASSUME Init PROVE HitInv
  OBVIOUS
<1>1. DOMAIN fts = {} /\ \A p \in Process : job[p].pc = "idle"
  BY IdleOK DEF Init, EmptyBag, SetToBag
<1>2. QED
  BY <1>1 DEF HitInv, JobHits

(* Two jobs that hold documents hold different ones.                       *)
LEMMA OwnDocument ==
    ASSUME TypeInv, ApartInv, NEW p \in Process, NEW q \in Process \ {p},
           job[p].pc \in Holding, job[q].pc \in Holding
    PROVE  /\ job[q].doc # job[p].doc /\ job[q].file # job[p].file
           /\ job[p].doc # 0 /\ job[q].doc # 0
<1>1. Busy(p) /\ Busy(q) /\ job[p].file \in File /\ job[q].file \in File
  BY Waiting DEF TypeInv, Holding, Past
<1>2. job[p].file # job[q].file
  BY <1>1 DEF ApartInv, Exclusive
<1>3. QED
  BY <1>1, <1>2 DEF ApartInv, JobHolds, TypeInv, DocsOK

(* The rows of a document are of the kind of its file.                     *)
LEMMA OwnKind ==
    ASSUME TypeInv, ApartInv, NEW f \in File, NEW r \in rows, r.doc = docs[f]
    PROVE  r.table = Kind[f]
  BY DEF TypeInv, ApartInv, DocsOK, Rooted

(* A step that writes rows leaves those of the other documents, unless it  *)
(* finds them by key.                                                      *)
LEMMA RowsOfOthers ==
    ASSUME TypeInv, NEW p \in Process, NEW d, d # job[p].doc,
           \/ WipeRowsOfDoc(p) \/ SweepRows(p) \/ DropDocument(p)
           \/ PersistEntry(p) /\ \A e \in job[p].todo : \A r \in Prior(p, e) : r.doc # d
    PROVE  \A r : r.doc = d => (r \in rows' <=> r \in rows)
<1>1. CASE WipeRowsOfDoc(p) \/ SweepRows(p) \/ DropDocument(p)
  BY <1>1, WipeRowsOfDocDoes, SweepRowsDoes, DropDocumentDoes DEF TypeInv, RowsOf
<1>2. CASE PersistEntry(p) /\ \A e \in job[p].todo : \A r \in Prior(p, e) : r.doc # d
  <2>1. PICK e \in job[p].todo, id \in Nat \ {0} :
           rows' = (rows \ Prior(p, e)) \union {RowFor(p, e, id)}
    BY <1>2, PersistEntryDoes DEF TypeInv
  <2>2. RowFor(p, e, id).doc = job[p].doc
    BY DEF RowFor
  <2>3. QED
    BY <1>2, <2>1, <2>2
<1>3. QED
  BY <1>1, <1>2

(* One that changes search rows leaves those of the other documents' rows, *)
(* unless it sweeps the session table.                                     *)
LEMMA HitsOfOthers ==
    ASSUME TypeInv, ApartInv, HitInv, NEW p \in Process, NEW r \in rows,
           job[p].pc \in Holding => r.doc # job[p].doc,
           \/ WipeFtsOfDoc(p) \/ Unindex(p) \/ Index(p) \/ PruneFts(p)
           \/ SweepFts(p) /\ r.table # "session"
    PROVE  \A h : Same(h, HitOf(r)) =>
              /\ h \in DOMAIN fts' <=> h \in DOMAIN fts
              /\ h \in DOMAIN fts => fts'[h] = fts[h]
<1> SUFFICES ASSUME NEW h, Same(h, HitOf(r))
             PROVE  /\ h \in DOMAIN fts' <=> h \in DOMAIN fts
                    /\ h \in DOMAIN fts => fts'[h] = fts[h]
  OBVIOUS
<1>a. RowsOK /\ IsABag(fts) /\ JobsOK
  BY DEF TypeInv
<1>b. h.table = r.table /\ h.ref = r.id
  BY DEF Same, HitOf
<1>c. \A s \in rows : s.table = h.table /\ s.id = h.ref => s = r
  BY <1>a, <1>b DEF RowsOK
<1>d. job[p].pc \in {"unindex", "index"} => ~Same(h, job[p].hit)
  <2> SUFFICES ASSUME job[p].pc \in {"unindex", "index"}, Same(h, job[p].hit) PROVE FALSE
    OBVIOUS
  <2>1. PICK s \in rows : HitOf(s) = job[p].hit /\ s.doc = job[p].doc
    BY DEF HitInv, JobHits
  <2>2. s.table = h.table /\ s.id = h.ref
    BY <2>1 DEF Same, HitOf
  <2>3. QED
    BY <1>c, <2>1, <2>2 DEF Holding, Past
<1>1. CASE WipeFtsOfDoc(p)
  BY <1>1, <1>a, <1>b, <1>c, WipeFtsOfDocDoes DEF Holding, Past
<1>2. CASE Unindex(p)
  BY <1>2, <1>a, <1>d, UnindexDoes
<1>3. CASE Index(p)
  <2>1. h # job[p].hit
    BY <1>3, <1>a, <1>d, IndexDoes DEF Same
  <2>2. /\ DOMAIN fts' = DOMAIN fts \union {job[p].hit}
        /\ \A x \in DOMAIN fts \ {job[p].hit} : fts'[x] = fts[x]
    BY <1>3, <1>a, IndexDoes
  <2>3. QED
    BY <2>1, <2>2
<1>4. CASE PruneFts(p)
  <2>1. job[p].pc = "prune" /\ ~\E i \in job[p].ids : Same(i, HitOf(r))
    BY <1>4, <1>a, PruneFtsDoes DEF ApartInv, JobHolds
  <2>2. ~\E i \in job[p].ids : Same(h, i)
    BY <2>1 DEF Same
  <2>3. QED
    BY <1>4, <1>a, <2>2, PruneFtsDoes
<1>5. CASE SweepFts(p) /\ r.table # "session"
  BY <1>5, <1>a, <1>b, SweepFtsDoes
<1>6. QED
  BY <1>1, <1>2, <1>3, <1>4, <1>5

(* What a step by p has to show when it leaves documents and rows and adds *)
(* no search row                                                           *)
LEMMA HitOfQuietStep ==
    ASSUME HitInv, NEW p \in Process, OnlyJob(p), UNCHANGED <<docs, rows>>,
           DOMAIN fts' \subseteq DOMAIN fts, JobHits(job[p])',
           \A h \in DOMAIN fts' : OwedBy(job[p], h) => Accounted(h)',
           \A f \in File, r \in rows :
              /\ r.table = "session" /\ docs[f] = r.doc
              /\ f \in missed \/ Rewriting(job[p], f, r)
              => f \in missed' \/ Rewriting(job'[p], f, r)
    PROVE  HitInv'
<1>1. ASSUME NEW q \in Process PROVE JobHits(job[q])'
  BY DEF HitInv, JobHits, OnlyJob, RowsOf, HitOf
<1>2. ASSUME NEW h \in DOMAIN fts' PROVE Accounted(h)'
  <2>1. CASE Resolved(h)
    BY <2>1 DEF Accounted, Resolved, HitOf
  <2>2. CASE Outdated(h)
    <3>1. PICK r \in rows, f \in File :
             /\ h.table = "session" /\ Same(h, HitOf(r)) /\ docs[f] = r.doc
             /\ f \in missed \/ \E q \in Process : Rewriting(job[q], f, r)
      BY <2>2 DEF Outdated
    <3>2. r.table = "session"
      BY <3>1 DEF Same, HitOf
    <3>3. f \in missed' \/ \E q \in Process : Rewriting(job'[q], f, r)
      BY <3>1, <3>2 DEF OnlyJob
    <3>4. QED
      BY <3>1, <3>3 DEF Accounted, Outdated, Rewriting, Same, HitOf, KeysOf
  <2>3. ASSUME NEW q \in Process, OwedBy(job[q], h) PROVE Accounted(h)'
    <3>1. CASE q = p
      BY <2>3, <3>1
    <3>2. CASE q # p
      BY <2>3, <3>2 DEF OnlyJob, OwedBy, Accounted, Same, RowsOf
    <3>3. QED
      BY <3>1, <3>2
  <2>4. QED
    BY <2>1, <2>2, <2>3 DEF HitInv, Accounted
<1>3. QED
  BY <1>1, <1>2 DEF HitInv

(* An UPSERT finds no row of a document that another job holds.            *)
LEMMA PriorOfOthers ==
    ASSUME TypeInv, ApartInv, NEW p \in Process, PersistEntry(p),
           NEW q \in Process \ {p}, job[q].pc \in Holding
    PROVE  \A e \in job[p].todo : \A r \in Prior(p, e) : r.doc # job[q].doc
<1> SUFFICES ASSUME NEW e \in job[p].todo, NEW r \in Prior(p, e), r.doc = job[q].doc PROVE FALSE
  OBVIOUS
<1>1. Busy(p) /\ Busy(q) /\ job[q].file \in File
  BY Waiting, PersistEntryDoes DEF TypeInv, Holding, Past
<1>2. r \in rows /\ Keyed(job[p].file) /\ r.table = Kind[job[p].file]
  BY DEF Prior
<1>3. docs[job[q].file] = job[q].doc
  BY DEF ApartInv, JobHolds
<1>4. r.table = Kind[job[q].file]
  BY <1>1, <1>2, <1>3, OwnKind
<1>5. QED
  BY <1>1, <1>2, <1>4 DEF ApartInv, Exclusive

LEMMA JobHitsOfOthers ==
    ASSUME TypeInv, ApartInv, HitInv, NEW p \in Process,
           WipeRowsOfDoc(p) \/ SweepRows(p) \/ DropDocument(p) \/ PersistEntry(p) \/ Index(p),
           NEW q \in Process \ {p}
    PROVE  JobHits(job[q])'
<1>1. /\ OnlyJob(p) /\ job[p].pc \in Holding
      /\ fts' = fts \/ Index(p)
      /\ Index(p) => rows' = rows
  BY WipeRowsOfDocDoes, SweepRowsDoes, DropDocumentDoes, PersistEntryDoes, IndexDoes
     DEF TypeInv, Holding, Past
<1>2. job'[q] = job[q] /\ JobHits(job[q])
  BY <1>1 DEF OnlyJob, HitInv
<1>3. CASE job[q].pc \in {"unindex", "index", "wipeRows"}
  <2>1. job[q].doc # job[p].doc
    BY <1>1, <1>3, OwnDocument DEF Holding, Past
  <2>2. \A r : r.doc = job[q].doc => (r \in rows' <=> r \in rows)
    <3>1. CASE rows' = rows
      BY <3>1
    <3>2. CASE WipeRowsOfDoc(p) \/ SweepRows(p) \/ DropDocument(p) \/ PersistEntry(p)
      <4>1. PersistEntry(p) => \A e \in job[p].todo : \A r \in Prior(p, e) : r.doc # job[q].doc
        BY <1>3, PriorOfOthers DEF Holding, Past
      <4>2. QED
        BY <2>1, <3>2, <4>1, RowsOfOthers
    <3>3. QED
      BY <1>1, <3>1, <3>2
  <2>3. \A h \in DOMAIN fts', r \in rows :
           r.doc = job[q].doc /\ Same(h, HitOf(r)) => h \in DOMAIN fts
    BY <1>1, <2>1, HitsOfOthers
  <2>4. job[q].pc \in {"unindex", "index"} => \E r \in rows' : HitOf(r) = job[q].hit /\ r.doc = job[q].doc
    BY <1>2, <2>2 DEF JobHits
  <2>5. job[q].pc = "index" => \A h \in DOMAIN fts' : ~Same(h, job[q].hit)
    BY <1>2, <2>3 DEF JobHits
  <2>6. job[q].pc = "wipeRows" => \A h \in DOMAIN fts', r \in rows' : r.doc = job[q].doc => ~Same(h, HitOf(r))
    BY <1>2, <2>2, <2>3 DEF JobHits, RowsOf
  <2>7. QED
    BY <1>2, <1>3, <2>4, <2>5, <2>6 DEF JobHits, RowsOf, HitOf, Same
<1>4. QED
  BY <1>2, <1>3 DEF JobHits

(* A job that ends in an error leaves search rows unaccounted for only     *)
(* when it is torn, see Torn.                                              *)
LEMMA HitOfFailure ==
    ASSUME TypeInv, ApartInv, HitInv, NEW p \in Process, ~Torn(p), OnlyJob(p), job'[p] = Idle,
           UNCHANGED <<docs, rows, fts>>, missed \subseteq missed',
           job[p].file \in File => job[p].file \in missed'
    PROVE  HitInv'
<1>1. JobHits(job[p])'
  BY IdleOK DEF JobHits
<1>2. ASSUME NEW h \in DOMAIN fts', OwedBy(job[p], h) PROVE Accounted(h)'
  <2>1. job[p].pc = "unindex" /\ Same(h, job[p].hit) /\ Kind[job[p].file] # "memory"
    BY <1>2 DEF OwedBy, Torn
  <2>2. Busy(p) /\ job[p].file \in File /\ Keyed(job[p].file) /\ docs[job[p].file] = job[p].doc
    BY <2>1, Waiting DEF TypeInv, ApartInv, JobHolds, Holding, Past
  <2>3. Kind[job[p].file] = "session"
    BY <2>1, <2>2 DEF Keyed
  <2>4. PICK r \in rows : HitOf(r) = job[p].hit /\ r.doc = job[p].doc
    BY <2>1 DEF HitInv, JobHits
  <2>5. r.table = "session"
    BY <2>2, <2>3, <2>4, OwnKind
  <2>6. h.table = "session" /\ Same(h, HitOf(r))
    BY <2>1, <2>4, <2>5 DEF Same, HitOf
  <2>7. r \in rows' /\ docs'[job[p].file] = r.doc /\ job[p].file \in missed'
    BY <2>2, <2>4
  <2>8. Outdated(h)'
    BY <2>2, <2>6, <2>7 DEF Outdated, Same, HitOf
  <2>9. QED
    BY <2>8 DEF Accounted
<1>3. \A f \in File, r \in rows :
         docs[f] = r.doc /\ (f \in missed \/ Rewriting(job[p], f, r))
            => f \in missed' \/ Rewriting(job'[p], f, r)
  BY DEF Rewriting
<1>4. QED
  BY <1>1, <1>2, <1>3, HitOfQuietStep

(* A sweep or a deletion that dies between its rows and their search rows  *)
(* is left out.                                                            *)
Untorn == "tornSweep" \notin Disturb

LEMMA HitStep ==
    ASSUME Apart, Untorn
    PROVE  TypeInv /\ ApartInv /\ HitInv /\ [Next]_vars => HitInv'
<1> SUFFICES ASSUME TypeInv, ApartInv, HitInv, [Next]_vars PROVE HitInv'
  OBVIOUS
<1>a. FilesOK /\ DocsOK /\ RowsOK /\ IsABag(fts) /\ JobsOK
  BY DEF TypeInv
<1>b. Exclusive /\ Rooted /\ \A p \in Process : JobHolds(job[p])
  BY DEF ApartInv
<1>c. \A p \in Process : JobHits(job[p])
  BY DEF HitInv
<1>d. Idle.pc = "idle"
  BY IdleOK
<1>1. ASSUME UNCHANGED <<docs, rows, fts, job>>, missed \subseteq missed' PROVE HitInv'
  <2>1. \A p \in Process : JobHits(job[p])'
    BY <1>1, <1>c DEF JobHits, RowsOf, HitOf, Same
  <2>2. ASSUME NEW h \in DOMAIN fts' PROVE Accounted(h)'
    <3>1. Resolved(h) => Resolved(h)'
      BY <1>1 DEF Resolved, HitOf
    <3>2. Outdated(h) => Outdated(h)'
      BY <1>1 DEF Outdated, Rewriting, Same, HitOf, KeysOf
    <3>3. ASSUME NEW p \in Process PROVE OwedBy(job[p], h) => OwedBy(job[p], h)'
      BY <1>1 DEF OwedBy, Same, RowsOf
    <3>4. QED
      BY <1>1, <2>2, <3>1, <3>2, <3>3 DEF HitInv, Accounted
  <2>3. QED
    BY <2>1, <2>2 DEF HitInv
<1>2. ASSUME NEW f \in File, TakeEvent(f) \/ TakeListed(f) PROVE HitInv'
  <2>1. PICK p \in Process, c \in {"exists", "doc"} : Take(p, f, c) /\ ~Busy(p)
    BY <1>2 DEF TakeEvent, TakeListed, Process
  <2>2. OnlyJob(p) /\ job'[p].pc = c /\ UNCHANGED <<docs, rows, fts, missed>> /\ job[p].pc = "idle"
    BY <2>1, <1>a, TakeDoes DEF Busy
  <2>3. JobHits(job[p])' /\ \A h : ~OwedBy(job[p], h)
    BY <2>2 DEF JobHits, OwedBy
  <2>4. \A g \in File, r \in rows : ~Rewriting(job[p], g, r)
    BY <2>2 DEF Rewriting
  <2>5. QED
    BY <2>2, <2>3, <2>4, HitOfQuietStep
<1>3. ASSUME NEW p \in Process, Exists(p) PROVE HitInv'
  <2>1. /\ job[p].pc = "exists" /\ OnlyJob(p) /\ UNCHANGED <<docs, rows, fts, missed>>
        /\ job'[p].pc \in {"idle", "doc", "find"}
    BY <1>3, <1>a, <1>d, ExistsDoes
  <2>2. JobHits(job[p])' /\ \A h : ~OwedBy(job[p], h)
    BY <2>1 DEF JobHits, OwedBy
  <2>3. \A g \in File, r \in rows : ~Rewriting(job[p], g, r)
    BY <2>1 DEF Rewriting
  <2>4. QED
    BY <2>1, <2>2, <2>3, HitOfQuietStep
<1>4. ASSUME NEW p \in Process, UpsertDocument(p) PROVE HitInv'
  <2> DEFINE f == job[p].file
  <2>1. /\ f \in File /\ OnlyJob(p) /\ UNCHANGED <<rows, fts, missed>>
        /\ job[p].pc = "doc" /\ job'[p].pc = "read"
        /\ \A g \in File \ {f} : docs'[g] = docs[g]
        /\ docs[f] # 0 => docs' = docs
    BY <1>4, <1>a, UpsertDocumentDoes
  <2>2. ASSUME NEW q \in Process PROVE JobHits(job[q])'
    BY <1>c, <2>1 DEF JobHits, OnlyJob, RowsOf, HitOf, Same
  <2>3. \A g \in File : docs[g] # 0 => docs'[g] = docs[g]
    BY <2>1
  <2>4. ASSUME NEW h \in DOMAIN fts' PROVE Accounted(h)'
    <3>1. Resolved(h) => Resolved(h)'
      BY <2>1 DEF Resolved, HitOf
    <3>2. ASSUME Outdated(h) PROVE Outdated(h)'
      <4>1. PICK r \in rows, g \in File :
               /\ h.table = "session" /\ Same(h, HitOf(r)) /\ docs[g] = r.doc
               /\ g \in missed \/ \E q \in Process : Rewriting(job[q], g, r)
        BY <3>2 DEF Outdated
      <4>2. docs'[g] = r.doc
        BY <1>b, <2>3, <4>1 DEF Rooted
      <4>3. g \in missed' \/ \E q \in Process : Rewriting(job'[q], g, r)
        BY <2>1, <4>1 DEF OnlyJob, Rewriting
      <4>4. QED
        BY <2>1, <4>1, <4>2, <4>3 DEF Outdated, Rewriting, Same, HitOf, KeysOf
    <3>3. ASSUME NEW q \in Process PROVE OwedBy(job[q], h) => OwedBy(job[q], h)'
      BY <2>1 DEF OwedBy, Same, RowsOf, OnlyJob
    <3>4. QED
      BY <2>1, <2>4, <3>1, <3>2, <3>3 DEF HitInv, Accounted
  <2>5. QED
    BY <2>2, <2>4 DEF HitInv
<1>5. ASSUME NEW p \in Process, Read(p) PROVE HitInv'
  <2> DEFINE f == job[p].file
  <2>1. /\ job[p].pc = "read" /\ OnlyJob(p) /\ UNCHANGED <<docs, rows, fts>>
        /\ f \in File
        /\ \/ job'[p] = Idle /\ UNCHANGED missed
           \/ /\ missed' = missed \ {f} /\ job'[p].file = f
              /\ job'[p].pc = IF Keyed(f) THEN "row" ELSE "wipeFts"
              /\ job'[p].text = disk[f] /\ job'[p].todo = disk[f]
    BY <1>5, <1>a, ReadDoes
  <2>2. JobHits(job[p])' /\ \A h : ~OwedBy(job[p], h)
    BY <1>d, <2>1 DEF JobHits, OwedBy
  <2>3. ASSUME NEW g \in File, NEW r \in rows, r.table = "session", docs[g] = r.doc,
               g \in missed \/ Rewriting(job[p], g, r)
        PROVE  g \in missed' \/ Rewriting(job'[p], g, r)
    <3>1. g \in missed
      BY <2>1, <2>3 DEF Rewriting
    <3>2. Kind[g] = "session"
      BY <2>3, OwnKind
    <3>3. QED
      BY <2>1, <3>1, <3>2 DEF Rewriting, Keyed
  <2>4. QED
    BY <2>1, <2>2, <2>3, HitOfQuietStep
<1>6. ASSUME NEW p \in Process, FindDocument(p) PROVE HitInv'
  <2> DEFINE f == job[p].file
  <2>1. /\ job[p].pc = "find" /\ OnlyJob(p) /\ UNCHANGED <<docs, rows, fts>>
        /\ f \in File /\ missed' = missed \ {f}
        /\ \/ docs[f] = 0 /\ job'[p] = Idle
           \/ docs[f] # 0 /\ job'[p].pc = "collect" /\ job'[p].file = f
    BY <1>6, <1>a, FindDocumentDoes
  <2>2. JobHits(job[p])' /\ \A h : ~OwedBy(job[p], h)
    BY <1>d, <2>1 DEF JobHits, OwedBy
  <2>3. ASSUME NEW g \in File, NEW r \in rows, docs[g] = r.doc,
               g \in missed \/ Rewriting(job[p], g, r)
        PROVE  g \in missed' \/ Rewriting(job'[p], g, r)
    BY <1>b, <2>1, <2>3 DEF Rewriting, Rooted
  <2>4. QED
    BY <2>1, <2>2, <2>3, HitOfQuietStep
<1>7. ASSUME NEW p \in Process, CollectIds(p) PROVE HitInv'
  <2>1. /\ job[p].pc = "collect" /\ OnlyJob(p) /\ UNCHANGED <<docs, rows, fts, missed>>
        /\ job'[p].pc = "drop" /\ job'[p].file = job[p].file
    BY <1>7, <1>a, CollectIdsDoes
  <2>2. JobHits(job[p])' /\ \A h : ~OwedBy(job[p], h)
    BY <2>1 DEF JobHits, OwedBy
  <2>3. \A g \in File, r \in rows : Rewriting(job[p], g, r) => Rewriting(job'[p], g, r)
    BY <2>1 DEF Rewriting
  <2>4. QED
    BY <2>1, <2>2, <2>3, HitOfQuietStep
<1>8. ASSUME NEW p \in Process, WipeFtsOfDoc(p) PROVE HitInv'
  <2>1. /\ job[p].pc = "wipeFts" /\ OnlyJob(p) /\ UNCHANGED <<docs, rows, missed>>
        /\ job'[p].pc = "wipeRows" /\ job'[p].doc = job[p].doc /\ job[p].file \in File
        /\ DOMAIN fts' \subseteq DOMAIN fts
        /\ \A h \in DOMAIN fts' :
              ~(h.table = "design"
                /\ \E r \in rows : r.table = "design" /\ r.doc = job[p].doc /\ r.id = h.ref)
    BY <1>8, <1>a, WipeFtsOfDocDoes DEF SameBut
  <2>2. ASSUME NEW r \in RowsOf(job[p].doc) PROVE r \in rows /\ r.table = "design"
    BY <1>b, <2>1, OwnKind DEF RowsOf, JobHolds, Holding, Past
  <2>3. JobHits(job[p])'
    BY <2>1, <2>2 DEF JobHits, RowsOf, Same, HitOf
  <2>4. (\A h : ~OwedBy(job[p], h)) /\ \A g \in File, r \in rows : ~Rewriting(job[p], g, r)
    BY <2>1 DEF OwedBy, Rewriting
  <2>5. QED
    BY <2>1, <2>3, <2>4, HitOfQuietStep
<1>9. ASSUME NEW p \in Process, Unindex(p) PROVE HitInv'
  <2>1. /\ job[p].pc = "unindex" /\ OnlyJob(p) /\ UNCHANGED <<docs, rows, missed>>
        /\ job'[p].pc = "index" /\ SameBut(job'[p], job[p])
        /\ DOMAIN fts' \subseteq DOMAIN fts
        /\ \A h \in DOMAIN fts' : ~Same(h, job[p].hit)
    BY <1>9, <1>a, UnindexDoes
  <2>2. JobHits(job[p])'
    BY <1>c, <2>1 DEF JobHits, SameBut, Same, HitOf
  <2>3. \A h \in DOMAIN fts' : ~OwedBy(job[p], h)
    BY <2>1 DEF OwedBy
  <2>4. \A g \in File, r \in rows : Rewriting(job[p], g, r) => Rewriting(job'[p], g, r)
    BY <2>1 DEF Rewriting, SameBut
  <2>5. QED
    BY <2>1, <2>2, <2>3, <2>4, HitOfQuietStep
<1>10. ASSUME NEW p \in Process, Persisted(p) PROVE HitInv'
  <2>1. /\ job[p].pc = "row" /\ OnlyJob(p) /\ UNCHANGED <<docs, rows, fts, missed>>
        /\ job[p].todo = {}
        /\ \/ job'[p].pc = "sweepRows" /\ SameBut(job'[p], job[p])
           \/ Kind[job[p].file] # "session" /\ job'[p] = Idle
    BY <1>10, <1>a, PersistedDoes
  <2>2. JobHits(job[p])' /\ \A h : ~OwedBy(job[p], h)
    BY <1>d, <2>1 DEF JobHits, OwedBy, SameBut
  <2>3. ASSUME NEW g \in File, NEW r \in rows, r.table = "session", docs[g] = r.doc,
               Rewriting(job[p], g, r)
        PROVE  Rewriting(job'[p], g, r)
    <3>1. Kind[g] = "session" /\ job[p].file = g
      BY <2>3, OwnKind DEF Rewriting
    <3>2. QED
      BY <2>1, <2>3, <3>1 DEF Rewriting, SameBut
  <2>4. QED
    BY <2>1, <2>2, <2>3, HitOfQuietStep
<1>11. ASSUME NEW p \in Process, SweepFts(p) \/ PruneFts(p) PROVE HitInv'
  <2>1. /\ OnlyJob(p) /\ UNCHANGED <<docs, rows, missed>> /\ job'[p] = Idle
        /\ DOMAIN fts' \subseteq DOMAIN fts
        /\ \/ /\ job[p].pc = "sweepFts"
              /\ \A h \in DOMAIN fts' : ~(h.table = "session"
                    /\ \A r \in RowsOf(job[p].doc) : r.table = "session" => r.id # h.ref)
           \/ /\ job[p].pc = "prune"
              /\ \A h \in DOMAIN fts' : ~\E i \in job[p].ids : Same(h, i)
    BY <1>11, <1>a, SweepFtsDoes, PruneFtsDoes
  <2>2. JobHits(job[p])'
    BY <1>d, <2>1 DEF JobHits
  <2>3. \A h \in DOMAIN fts' : ~OwedBy(job[p], h)
    BY <2>1 DEF OwedBy
  <2>4. \A g \in File, r \in rows : ~Rewriting(job[p], g, r)
    BY <2>1 DEF Rewriting
  <2>5. QED
    BY <2>1, <2>2, <2>3, <2>4, HitOfQuietStep
<1>12. ASSUME NEW p \in Process, Fails(p) \/ Abort(p) PROVE HitInv'
  BY <1>12, <1>a, FailureDoes, HitOfFailure DEF Untorn
<1>13. ASSUME Crash PROVE HitInv'
  <2>1. /\ OnlyJob(Watcher) /\ job'[Watcher] = Idle /\ Watcher \in Process
        /\ UNCHANGED <<docs, rows, fts>> /\ ~Torn(Watcher)
        /\ missed' = missed \union queue \union ({job[Watcher].file} \ {None})
    BY <1>13, <1>a, CrashDoes DEF Untorn
  <2>2. job[Watcher].file \in File => job[Watcher].file \in missed'
    BY <2>1, FileAssumption
  <2>3. QED
    BY <2>1, <2>2, HitOfFailure

<1>14. ASSUME NEW p \in Process, Index(p) PROVE HitInv'
  <2> DEFINE f == job[p].file
  <2>a. PICK i : i = job[p].hit
    OBVIOUS
  <2>1. /\ job[p].pc = "index" /\ f \in File /\ OnlyJob(p) /\ UNCHANGED <<docs, rows, missed>>
        /\ job'[p].pc = "row" /\ job'[p].file = f /\ job'[p].text = job[p].text
        /\ job'[p].todo = job[p].todo \ {i.entry}
        /\ DOMAIN fts' = DOMAIN fts \union {i}
    BY <1>14, <1>a, <2>a, IndexDoes
  <2>2. PICK s \in rows : HitOf(s) = i /\ s.doc = job[p].doc
    BY <1>c, <2>1, <2>a DEF JobHits
  <2>3. /\ i.table = Kind[f] /\ docs[f] = job[p].doc
        /\ \A h \in DOMAIN fts : ~Same(h, i)
    BY <1>b, <1>c, <2>1, <2>a DEF JobHits, JobHolds, Holding, Past
  <2>4. ASSUME NEW q \in Process PROVE JobHits(job[q])'
    <3>1. CASE q = p
      BY <2>1, <3>1 DEF JobHits
    <3>2. CASE q # p
      BY <1>14, <3>2, JobHitsOfOthers
    <3>3. QED
      BY <3>1, <3>2
  <2>5. Resolved(i)'
    BY <2>1, <2>2 DEF Resolved, HitOf
  <2>6. ASSUME NEW h \in DOMAIN fts PROVE Accounted(h)'
    <3>1. Resolved(h) => Resolved(h)'
      BY <2>1 DEF Resolved, HitOf
    <3>2. ASSUME Outdated(h) PROVE Outdated(h)'
      <4>1. PICK r \in rows, g \in File :
               /\ h.table = "session" /\ Same(h, HitOf(r)) /\ docs[g] = r.doc
               /\ g \in missed \/ \E q \in Process : Rewriting(job[q], g, r)
        BY <3>2 DEF Outdated
      <4>2. ASSUME Rewriting(job[p], g, r) PROVE Rewriting(job'[p], g, r)
        <5>1. g = f /\ r.table = "session" /\ s.table = "session" /\ s.entry = i.entry
          BY <2>1, <2>2, <2>3, <4>1, <4>2, OwnKind DEF Rewriting, Same, HitOf
        <5>2. r.entry.key # s.entry.key
          <6>1. r # s
            BY <2>2, <2>3, <2>6, <4>1
          <6>2. QED
            BY <1>a, <5>1, <6>1 DEF RowsOK
        <5>3. r.entry.key \in KeysOf(job[p].todo) => r.entry.key \in KeysOf(job'[p].todo)
          BY <2>1, <5>1, <5>2 DEF KeysOf
        <5>4. QED
          BY <2>1, <4>2, <5>3 DEF Rewriting
      <4>3. g \in missed' \/ \E q \in Process : Rewriting(job'[q], g, r)
        BY <2>1, <4>1, <4>2 DEF OnlyJob
      <4>4. QED
        BY <2>1, <4>1, <4>3 DEF Outdated, Rewriting, Same, HitOf, KeysOf
    <3>3. ASSUME NEW q \in Process PROVE OwedBy(job[q], h) => OwedBy(job[q], h)'
      BY <2>1 DEF OwedBy, Same, RowsOf, OnlyJob
    <3>4. QED
      BY <2>6, <3>1, <3>2, <3>3 DEF HitInv, Accounted
  <2>7. QED
    BY <2>1, <2>4, <2>5, <2>6 DEF HitInv, Accounted
<1>15. ASSUME NEW p \in Process, WipeRowsOfDoc(p) PROVE HitInv'
  <2>1. /\ job[p].pc = "wipeRows" /\ OnlyJob(p) /\ UNCHANGED <<docs, fts, missed>>
        /\ job'[p].pc = "row"
        /\ rows' = {r \in rows : ~(r.table = "design" /\ r.doc = job[p].doc)}
    BY <1>15, <1>a, WipeRowsOfDocDoes
  <2>2. ASSUME NEW q \in Process PROVE JobHits(job[q])'
    <3>1. CASE q = p
      BY <2>1, <3>1 DEF JobHits
    <3>2. CASE q # p
      BY <1>15, <3>2, JobHitsOfOthers
    <3>3. QED
      BY <3>1, <3>2
  <2>3. ASSUME NEW h \in DOMAIN fts, NEW r \in rows, Same(h, HitOf(r)) PROVE r \in rows'
    BY <1>c, <2>1, <2>3 DEF JobHits, RowsOf
  <2>4. ASSUME NEW h \in DOMAIN fts PROVE Accounted(h)'
    <3>1. Resolved(h) => Resolved(h)'
      BY <2>3 DEF Resolved, HitOf, Same
    <3>2. ASSUME Outdated(h) PROVE Outdated(h)'
      <4>1. PICK r \in rows, g \in File :
               /\ h.table = "session" /\ Same(h, HitOf(r)) /\ docs[g] = r.doc
               /\ g \in missed \/ \E q \in Process : Rewriting(job[q], g, r)
        BY <3>2 DEF Outdated
      <4>2. g \in missed' \/ \E q \in Process : Rewriting(job'[q], g, r)
        BY <2>1, <4>1 DEF OnlyJob, Rewriting
      <4>3. QED
        BY <2>1, <2>3, <4>1, <4>2 DEF Outdated, Rewriting, Same, HitOf, KeysOf
    <3>3. ASSUME NEW q \in Process PROVE OwedBy(job[q], h) => OwedBy(job[q], h)'
      BY <2>1 DEF OwedBy, Same, RowsOf, OnlyJob
    <3>4. QED
      BY <2>4, <3>1, <3>2, <3>3 DEF HitInv, Accounted
  <2>5. QED
    BY <2>1, <2>2, <2>4 DEF HitInv
<1>16. ASSUME NEW p \in Process, SweepRows(p) PROVE HitInv'
  <2> DEFINE d == job[p].doc
  <2>1. /\ job[p].pc = "sweepRows" /\ job[p].file \in File /\ OnlyJob(p)
        /\ UNCHANGED <<docs, fts, missed>>
        /\ job'[p].pc = "sweepFts" /\ job'[p].doc = d
        /\ rows' = {r \in rows : ~(/\ r.table = "session" /\ r.doc = d
                                   /\ r.entry.key \notin KeysOf(job[p].text))}
    BY <1>16, <1>a, SweepRowsDoes DEF SameBut
  <2>2. ASSUME NEW q \in Process PROVE JobHits(job[q])'
    <3>1. CASE q = p
      BY <2>1, <3>1 DEF JobHits
    <3>2. CASE q # p
      BY <1>16, <3>2, JobHitsOfOthers
    <3>3. QED
      BY <3>1, <3>2
  <2>3. ASSUME NEW h, NEW r \in rows \ rows', Same(h, HitOf(r)) PROVE OwedBy(job[p], h)'
    <3>1. h.table = "session" /\ r.table = "session" /\ r.id = h.ref
      BY <2>1, <2>3 DEF Same, HitOf
    <3>2. ASSUME NEW s \in rows', s.table = "session" PROVE s.id # h.ref
      BY <1>a, <2>1, <2>3, <3>1, <3>2 DEF RowsOK
    <3>3. QED
      BY <2>1, <3>1, <3>2 DEF OwedBy, RowsOf
  <2>4. ASSUME NEW h \in DOMAIN fts PROVE Accounted(h)'
    <3>1. Resolved(h) => Accounted(h)'
      BY <2>3 DEF Resolved, HitOf, Same, Accounted
    <3>2. ASSUME Outdated(h) PROVE Accounted(h)'
      <4>1. PICK r \in rows, g \in File :
               /\ h.table = "session" /\ Same(h, HitOf(r)) /\ docs[g] = r.doc
               /\ g \in missed \/ \E q \in Process : Rewriting(job[q], g, r)
        BY <3>2 DEF Outdated
      <4>2. CASE r \notin rows'
        BY <2>3, <4>1, <4>2 DEF Accounted
      <4>3. CASE r \in rows'
        <5>1. ~Rewriting(job[p], g, r)
          <6>1. r.table = "session" /\ job[p].todo = {} /\ docs[job[p].file] = d
            BY <1>b, <1>c, <2>1, <4>1 DEF Same, HitOf, JobHits, JobHolds, Holding, Past
          <6>2. QED
            BY <2>1, <4>1, <4>3, <6>1 DEF Rewriting, KeysOf
        <5>2. g \in missed' \/ \E q \in Process : Rewriting(job'[q], g, r)
          BY <2>1, <4>1, <5>1 DEF OnlyJob
        <5>3. QED
          BY <2>1, <4>1, <4>3, <5>2 DEF Outdated, Rewriting, Same, HitOf, KeysOf, Accounted
      <4>4. QED
        BY <4>2, <4>3
    <3>3. ASSUME NEW q \in Process PROVE OwedBy(job[q], h) => OwedBy(job[q], h)'
      BY <2>1 DEF OwedBy, Same, RowsOf, OnlyJob
    <3>4. QED
      BY <2>4, <3>1, <3>2, <3>3 DEF HitInv, Accounted
  <2>5. QED
    BY <2>1, <2>2, <2>4 DEF HitInv

<1>17. ASSUME NEW p \in Process, DropDocument(p) PROVE HitInv'
  <2> DEFINE d == job[p].doc
  <2>1. /\ job[p].pc = "drop" /\ job[p].file \in File /\ OnlyJob(p)
        /\ UNCHANGED <<fts, missed>>
        /\ job'[p].pc = "prune" /\ job'[p].ids = job[p].ids
        /\ docs' = [g \in File |-> IF docs[g] = d THEN 0 ELSE docs[g]]
        /\ rows' = rows \ RowsOf(d)
    BY <1>17, <1>a, DropDocumentDoes DEF SameBut
  <2>2. ASSUME NEW q \in Process PROVE JobHits(job[q])'
    <3>1. CASE q = p
      BY <2>1, <3>1 DEF JobHits
    <3>2. CASE q # p
      BY <1>17, <3>2, JobHitsOfOthers
    <3>3. QED
      BY <3>1, <3>2
  <2>3. ASSUME NEW h, NEW r \in rows \ rows', Same(h, HitOf(r)) PROVE OwedBy(job[p], h)'
    <3>1. HitOf(r) \in job[p].ids
      BY <1>b, <2>1, <2>3 DEF JobHolds
    <3>2. QED
      BY <2>1, <2>3, <3>1 DEF OwedBy, Same
  <2>4. ASSUME NEW h \in DOMAIN fts PROVE Accounted(h)'
    <3>1. Resolved(h) => Accounted(h)'
      BY <2>3 DEF Resolved, HitOf, Same, Accounted
    <3>2. ASSUME Outdated(h) PROVE Accounted(h)'
      <4>1. PICK r \in rows, g \in File :
               /\ h.table = "session" /\ Same(h, HitOf(r)) /\ docs[g] = r.doc
               /\ g \in missed \/ \E q \in Process : Rewriting(job[q], g, r)
        BY <3>2 DEF Outdated
      <4>2. CASE r \notin rows'
        BY <2>3, <4>1, <4>2 DEF Accounted
      <4>3. CASE r \in rows'
        <5>1. docs'[g] = r.doc
          BY <2>1, <4>1, <4>3 DEF RowsOf
        <5>2. ~Rewriting(job[p], g, r)
          BY <1>b, <2>1, <4>1, <4>3 DEF Rewriting, RowsOf, JobHolds, Holding
        <5>3. g \in missed' \/ \E q \in Process : Rewriting(job'[q], g, r)
          BY <2>1, <4>1, <5>2 DEF OnlyJob
        <5>4. QED
          BY <2>1, <4>1, <4>3, <5>1, <5>3 DEF Outdated, Rewriting, Same, HitOf, KeysOf, Accounted
      <4>4. QED
        BY <4>2, <4>3
    <3>3. ASSUME NEW q \in Process PROVE OwedBy(job[q], h) => OwedBy(job[q], h)'
      BY <2>1 DEF OwedBy, Same, RowsOf, OnlyJob
    <3>4. QED
      BY <2>4, <3>1, <3>2, <3>3 DEF HitInv, Accounted
  <2>5. QED
    BY <2>1, <2>2, <2>4 DEF HitInv
<1>18. ASSUME NEW p \in Process, PersistEntry(p) PROVE HitInv'
  <2> DEFINE f == job[p].file
             k == Kind[f]
  <2>1. /\ job[p].pc = "row" /\ f \in File /\ OnlyJob(p) /\ Busy(p)
        /\ UNCHANGED <<docs, fts, missed>>
        /\ job'[p].file = f /\ job'[p].doc = job[p].doc
        /\ job'[p].text = job[p].text /\ job'[p].todo = job[p].todo
        /\ job'[p].pc = IF k = "design" THEN "index" ELSE "unindex"
    BY <1>18, <1>a, PersistEntryDoes
  <2>2. PICK e \in job[p].todo, id \in Nat \ {0} :
           /\ rows' = (rows \ Prior(p, e)) \union {RowFor(p, e, id)}
           /\ job'[p].hit = HitOf(RowFor(p, e, id))
           /\ IF Prior(p, e) = {} THEN \A s \in rows : s.table = k => s.id # id
              ELSE \E s \in Prior(p, e) : s.id = id
    BY <1>18, <1>a, PersistEntryDoes
  <2>3. /\ RowFor(p, e, id).table = k /\ RowFor(p, e, id).id = id
        /\ RowFor(p, e, id).doc = job[p].doc /\ RowFor(p, e, id).entry = e
    BY DEF RowFor
  <2> DEFINE n == RowFor(p, e, id)
  <2> HIDE DEF n
  <2>4. ASSUME NEW h, NEW r \in rows \ rows', Same(h, HitOf(r)) PROVE OwedBy(job[p], h)'
    <3>1. r \in Prior(p, e) /\ \E s \in Prior(p, e) : s.id = id
      BY <2>2, <2>4
    <3>2. PICK s \in Prior(p, e) : s.id = id
      BY <3>1
    <3>3. Keyed(f) /\ k # "design" /\ r.table = k /\ r = s
      BY <1>a, <2>1, <3>1, <3>2, KindsOfFiles DEF RowsOK, Prior
    <3>4. Same(h, job'[p].hit)
      BY <2>2, <2>3, <2>4, <3>2, <3>3 DEF Same, HitOf
    <3>5. QED
      BY <2>1, <3>3, <3>4 DEF OwedBy, Same
  <2>5. ASSUME NEW q \in Process \ {p}, job[q].pc = "sweepFts"
        PROVE  RowsOf(job[q].doc)' = RowsOf(job[q].doc)
    <3>1. job[q].doc # job[p].doc /\ job'[q] = job[q]
      BY <2>1, <2>5, OwnDocument DEF Holding, Past, OnlyJob
    <3>2. \A r : r.doc = job[q].doc => (r \in rows' <=> r \in rows)
      <4>1. \A x \in job[p].todo : \A r \in Prior(p, x) : r.doc # job[q].doc
        BY <1>18, <2>5, PriorOfOthers DEF Holding, Past
      <4>2. QED
        BY <1>18, <3>1, <4>1, RowsOfOthers
    <3>3. QED
      BY <3>1, <3>2 DEF RowsOf
  <2>6. ASSUME NEW h \in DOMAIN fts PROVE Accounted(h)'
    <3>1. Resolved(h) => Accounted(h)'
      BY <2>4 DEF Resolved, HitOf, Same, Accounted
    <3>2. ASSUME Outdated(h) PROVE Accounted(h)'
      <4>1. PICK r \in rows, g \in File :
               /\ h.table = "session" /\ Same(h, HitOf(r)) /\ docs[g] = r.doc
               /\ g \in missed \/ \E q \in Process : Rewriting(job[q], g, r)
        BY <3>2 DEF Outdated
      <4>2. CASE r \notin rows'
        BY <2>4, <4>1, <4>2 DEF Accounted
      <4>3. CASE r \in rows'
        <5>1. g \in missed' \/ \E q \in Process : Rewriting(job'[q], g, r)
          BY <2>1, <4>1 DEF OnlyJob, Rewriting
        <5>2. QED
          BY <2>1, <4>1, <4>3, <5>1 DEF Outdated, Rewriting, Same, HitOf, KeysOf, Accounted
      <4>4. QED
        BY <4>2, <4>3
    <3>3. ASSUME NEW q \in Process PROVE OwedBy(job[q], h) => OwedBy(job[q], h)'
      <4>1. CASE q = p
        BY <2>1, <4>1 DEF OwedBy
      <4>2. CASE q # p
        BY <2>1, <2>5, <4>2 DEF OwedBy, Same, OnlyJob
      <4>3. QED
        BY <4>1, <4>2
    <3>4. QED
      BY <2>6, <3>1, <3>2, <3>3 DEF HitInv, Accounted
  <2>7. ASSUME k = "design", NEW h \in DOMAIN fts, Same(h, HitOf(n)) PROVE FALSE
    <3>1. h.table = "design" /\ h.ref = id
      BY <2>3, <2>7 DEF n, Same, HitOf
    <3>2. Prior(p, e) = {} /\ ~Resolved(h)
      BY <2>1, <2>2, <2>7, <3>1, KindsOfFiles DEF Prior, Resolved, HitOf
    <3>3. PICK q \in Process : OwedBy(job[q], h)
      BY <2>7, <3>1, <3>2 DEF HitInv, Accounted, Outdated
    <3>4. job[q].pc = "prune" => FALSE
      BY <2>1, AlonePrunes
    <3>5. job[q].pc = "unindex" => FALSE
      <4>1. SUFFICES ASSUME job[q].pc = "unindex" PROVE FALSE
        OBVIOUS
      <4>2. job[q].file \in File /\ Keyed(job[q].file) /\ job[q].hit.table = Kind[job[q].file]
        BY <1>a, <1>b, <1>c, <4>1, Waiting DEF JobHolds, JobHits
      <4>3. h.table = job[q].hit.table
        BY <3>3, <4>1 DEF OwedBy, Same
      <4>4. QED
        BY <3>1, <4>2, <4>3, KindsOfFiles
    <3>6. QED
      BY <3>1, <3>3, <3>4, <3>5 DEF OwedBy
  <2>8. JobHits(job[p])'
    <3>1. job'[p].hit.table = k /\ job'[p].hit.entry = e
      BY <2>2, <2>3 DEF HitOf
    <3>2. n \in rows' /\ HitOf(n) = job'[p].hit /\ n.doc = job[p].doc
      BY <2>2, <2>3 DEF n
    <3>3. k = "design" => \A h \in DOMAIN fts' : ~Same(h, job'[p].hit)
      BY <2>1, <2>7, <3>2
    <3>4. QED
      BY <2>1, <3>1, <3>2, <3>3 DEF JobHits, HitOf, Same
  <2>9. ASSUME NEW q \in Process \ {p} PROVE JobHits(job[q])'
    BY <1>18, JobHitsOfOthers
  <2>10. QED
    BY <2>1, <2>6, <2>8, <2>9 DEF HitInv
<1>19. CASE (\E f \in File : Edit(f)) \/ (\E f, g \in File : Rename(f, g)) \/ Scan \/ Restart
            \/ UNCHANGED vars
  BY <1>1, <1>19 DEF Edit, Rename, Change, Scan, ScanPhase, Restart, vars, db, watch
<1>20. QED
  BY <1>2, <1>3, <1>4, <1>5, <1>6, <1>7, <1>8, <1>9, <1>10, <1>11, <1>12, <1>13, <1>14, <1>15,
     <1>16, <1>17, <1>18, <1>19
     DEF Next, Step

(* A hit leads to the row whose text it holds, once no job runs and no     *)
(* file is missed, whatever has failed or crashed on the way between two   *)
(* whole sweeps; and every row has a document of its own kind.             *)
THEOREM HitsAlwaysResolve ==
    ASSUME Apart, Untorn PROVE Spec => []HitsResolve
<1>1. TypeInv /\ ApartInv /\ HitInv => HitsResolve
  <2> SUFFICES ASSUME TypeInv, ApartInv, HitInv PROVE HitsResolve
    OBVIOUS
  <2>1. \A r \in rows : \E f \in File : docs[f] = r.doc /\ Kind[f] = r.table
    BY DEF ApartInv, Rooted
  <2>2. ASSUME \A p \in Process : ~Busy(p), missed = {}, NEW h \in DOMAIN fts
        PROVE  \E r \in rows : HitOf(r) = h
    <3>1. \A p \in Process : job[p].pc = "idle"
      BY <2>2 DEF Busy
    <3>2. ~Outdated(h) /\ \A p \in Process : ~OwedBy(job[p], h)
      BY <2>2, <3>1 DEF Outdated, Rewriting, OwedBy
    <3>3. QED
      BY <2>2, <3>2 DEF HitInv, Accounted, Resolved
  <2>3. QED
    BY <2>1, <2>2 DEF HitsResolve
<1>2. QED
  BY <1>1, TypeInit, TypeStep, ApartInit, ApartStep, HitInit, HitStep, PTL DEF Spec

--------------------------------------------------------------------------------
(* Every key is said by one entry of a text and by one file of its kind.   *)
NumberedOnce ==
    \A k \in {"session", "memory"} : \A t \in Texts[k] : \A d, e \in t : d.key = e.key => d = e

KeysStayApart == "sharedKeys" \notin Disturb

(* A file whose last change has been carried through, and one that no job  *)
(* has in hand, but the scanner's that only looks whether it is there.     *)
Served(f) == f \notin queue \union missed
Untouched(f) == \A p \in Process : job[p].file = f => p = Scanner /\ job[p].pc = "exists"

(* Mirror, said row by row                                                 *)
Mirrored(f) ==
    IF disk[f] = Absent THEN docs[f] = 0
    ELSE /\ docs[f] # 0
         /\ \A e \in disk[f] : \E r \in rows : r.doc = docs[f] /\ r.entry = e
         /\ \A r \in rows : r.doc = docs[f] /\ r.entry \in disk[f] => SearchedOnce(r)
         /\ Kind[f] = "design" \/ (Kind[f] = "session" /\ disk[f] # {}) =>
               /\ \A r \in rows : r.doc = docs[f] => r.entry \in disk[f]
               /\ \A r, s \in rows :
                     r.doc = docs[f] /\ s.doc = docs[f] /\ r.entry = s.entry => r = s

(* What a job has read.  A deletion is of a file that is gone, or that has *)
(* come back and is queued; a text is that of its file, unless the file    *)
(* has changed since and is queued or missed; and it has no key that       *)
(* another file of its kind is mirrored with.                              *)
JobReads(p, j) ==
    /\ j.pc \in {"find", "collect", "drop", "prune"} =>
          p = Watcher /\ (j.file \notin queue => disk[j.file] = Absent)
    /\ j.pc \in Past =>
          /\ j.text \in Texts[Kind[j.file]] /\ j.todo \subseteq j.text
          /\ Served(j.file) => j.text = disk[j.file]
          /\ Keyed(j.file) =>
                \A g \in File \ {j.file} :
                    Kind[g] = Kind[j.file] /\ Served(g) /\ disk[g] # Absent =>
                        KeysOf(j.text) \intersect KeysOf(disk[g]) = {}

(* What a job has written: the entries it is done with have their row and  *)
(* search row; a design document has no other rows than these and the one  *)
(* in hand; a session pass that has swept its rows has only the text's.    *)
JobWrote(j) ==
    /\ j.pc \in {"wipeFts", "wipeRows"} => j.todo = j.text
    /\ j.pc \in {"row", "unindex", "index", "sweepRows", "sweepFts"} =>
          \A e \in j.text \ j.todo :
              \E r \in rows : r.doc = j.doc /\ r.entry = e /\ SearchedOnce(r)
    /\ j.pc = "sweepFts" =>
          j.todo = {} /\ \A r \in rows : r.doc = j.doc => r.entry.key \in KeysOf(j.text)
    /\ j.pc \in {"row", "index"} /\ Kind[j.file] = "design" =>
          /\ \A r \in rows : r.doc = j.doc =>
                \/ r.entry \in j.text \ j.todo /\ SearchedOnce(r)
                \/ j.pc = "index" /\ HitOf(r) = j.hit
          /\ \A r, s \in rows : r.doc = j.doc /\ s.doc = j.doc /\ r.entry = s.entry => r = s

MirrorInv ==
    /\ KeysApart(disk)
    /\ up \/ ~Busy(Watcher)
    /\ \A f \in File : Served(f) /\ Untouched(f) => Mirrored(f)
    /\ \A p \in Process : JobReads(p, job[p]) /\ JobWrote(job[p])

LEMMA MirrorInit == ASSUME KeysStayApart PROVE Init => MirrorInv
<1> SUFFICES ASSUME Init PROVE MirrorInv
  OBVIOUS
<1>1. KeysApart(disk) /\ up /\ \A p \in Process : job[p].pc = "idle"
  BY IdleOK DEF Init, KeysStayApart
<1>2. \A f \in File : f \notin missed => Mirrored(f)
  BY DEF Init, Mirrored
<1>3. \A p \in Process : JobReads(p, job[p]) /\ JobWrote(job[p])
  BY <1>1 DEF JobReads, JobWrote, Past
<1>4. QED
  BY <1>1, <1>2, <1>3 DEF MirrorInv, Served

(* A step of a job leaves the rows of a document that is not its own, and  *)
(* their search rows, unless it finds them by key or sweeps the sessions'. *)
LEMMA RowsSpared ==
    ASSUME TypeInv, ApartInv, HitInv, NEW p \in Process, NEW d, NEW E,
           Step(p) \/ Fails(p) \/ Abort(p),
           job[p].pc \in Holding => d # job[p].doc,
           PersistEntry(p) =>
              \A e \in job[p].todo : \A r \in Prior(p, e) : ~(r.doc = d /\ r.entry \in E),
           SweepFts(p) => \A r \in rows : r.doc = d => r.table # "session"
    PROVE  \A r : r.doc = d =>
              /\ r \in rows' => r \in rows
              /\ r \in rows /\ r.entry \in E => r \in rows'
              /\ r \in rows => (SearchedOnce(r)' <=> SearchedOnce(r))
<1>a. JobsOK /\ RowsOK /\ IsABag(fts) /\ DocsOK
  BY DEF TypeInv
<1>1. CASE \/ WipeFtsOfDoc(p) \/ Unindex(p) \/ Index(p) \/ PruneFts(p) \/ SweepFts(p)
  <2>1. rows' = rows
    BY <1>1, <1>a, WipeFtsOfDocDoes, UnindexDoes, IndexDoes, PruneFtsDoes, SweepFtsDoes
  <2>2. ASSUME NEW r \in rows, r.doc = d PROVE SearchedOnce(r)' <=> SearchedOnce(r)
    <3>1. \A h : Same(h, HitOf(r)) =>
             /\ h \in DOMAIN fts' <=> h \in DOMAIN fts
             /\ h \in DOMAIN fts => fts'[h] = fts[h]
      BY <1>1, <2>2, HitsOfOthers
    <3>2. Same(HitOf(r), HitOf(r))
      BY DEF Same
    <3>3. QED
      BY <3>1, <3>2 DEF SearchedOnce, HitOf
  <2>3. QED
    BY <2>1, <2>2
<1>2. CASE WipeRowsOfDoc(p) \/ SweepRows(p) \/ DropDocument(p)
  <2>1. job[p].pc \in Holding /\ fts' = fts
    BY <1>2, <1>a, WipeRowsOfDocDoes, SweepRowsDoes, DropDocumentDoes DEF Holding, Past
  <2>2. \A r : r.doc = d => (r \in rows' <=> r \in rows)
    BY <1>2, <2>1, RowsOfOthers
  <2>3. QED
    BY <2>1, <2>2 DEF SearchedOnce, HitOf
<1>3. CASE PersistEntry(p)
  <2>1. job[p].pc \in Holding /\ fts' = fts
    BY <1>3, <1>a, PersistEntryDoes DEF Holding, Past
  <2>2. PICK e \in job[p].todo, id \in Nat \ {0} :
           rows' = (rows \ Prior(p, e)) \union {RowFor(p, e, id)}
    BY <1>3, <1>a, PersistEntryDoes
  <2>3. RowFor(p, e, id).doc = job[p].doc
    BY DEF RowFor
  <2>4. QED
    BY <1>3, <2>1, <2>2, <2>3 DEF SearchedOnce, HitOf
<1>4. CASE \/ Exists(p) \/ UpsertDocument(p) \/ Read(p) \/ Persisted(p) \/ FindDocument(p)
           \/ CollectIds(p) \/ Fails(p) \/ Abort(p)
  <2>1. rows' = rows /\ fts' = fts
    BY <1>4, <1>a, ExistsDoes, UpsertDocumentDoes, ReadDoes, PersistedDoes, FindDocumentDoes,
       CollectIdsDoes, FailureDoes
  <2>2. QED
    BY <2>1 DEF SearchedOnce, HitOf
<1>5. QED
  BY <1>1, <1>2, <1>3, <1>4 DEF Step

(* It also leaves the documents of the other files.                        *)
LEMMA DocsSpared ==
    ASSUME TypeInv, ApartInv, NEW p \in Process, Step(p) \/ Fails(p) \/ Abort(p),
           NEW g \in File \ {job[p].file}
    PROVE  /\ docs'[g] = docs[g] /\ disk' = disk
           /\ job[p].pc \in Holding => docs[g] = 0 \/ docs[g] # job[p].doc
<1>a. JobsOK /\ RowsOK /\ IsABag(fts) /\ DocsOK
  BY DEF TypeInv
<1>1. job[p].pc \in Holding => docs[g] = 0 \/ docs[g] # job[p].doc
  BY <1>a, Waiting DEF ApartInv, JobHolds, DocsOK, Holding, Past
<1>2. CASE UpsertDocument(p)
  BY <1>1, <1>2, <1>a, UpsertDocumentDoes
<1>3. CASE DropDocument(p)
  BY <1>1, <1>3, <1>a, DropDocumentDoes DEF Holding
<1>4. CASE ~UpsertDocument(p) /\ ~DropDocument(p)
  <2>1. docs' = docs /\ disk' = disk
    BY <1>4 DEF Step, Exists, Read, WipeFtsOfDoc, WipeRowsOfDoc, PersistEntry, Unindex, Index, Persisted,
                SweepRows, SweepFts, FindDocument, CollectIds, PruneFts, Fails, Abort, db
  <2>2. QED
    BY <1>1, <2>1
<1>5. QED
  BY <1>2, <1>3, <1>4

LEMMA StepDoes ==
    ASSUME TypeInv, NEW p \in Process, Step(p) \/ Fails(p) \/ Abort(p)
    PROVE  /\ Busy(p) /\ job[p].file \in File /\ OnlyJob(p)
           /\ disk' = disk /\ queue' = queue /\ up' = up
           /\ missed \subseteq missed' \union {job[p].file}
           /\ job'[p] = Idle \/ job'[p].file = job[p].file
<1>a. JobsOK /\ RowsOK /\ IsABag(fts) /\ DocsOK
  BY DEF TypeInv
<1>1. CASE \/ Exists(p) \/ UpsertDocument(p) \/ Read(p) \/ WipeFtsOfDoc(p) \/ WipeRowsOfDoc(p)
           \/ PersistEntry(p) \/ Unindex(p)
  BY <1>1, <1>a, ExistsDoes, UpsertDocumentDoes, ReadDoes, WipeFtsOfDocDoes, WipeRowsOfDocDoes,
     PersistEntryDoes, UnindexDoes DEF SameBut
<1>2. CASE Index(p) \/ Persisted(p) \/ SweepRows(p) \/ SweepFts(p)
  BY <1>2, <1>a, IndexDoes, PersistedDoes, SweepRowsDoes, SweepFtsDoes DEF SameBut
<1>3. CASE \/ FindDocument(p) \/ CollectIds(p) \/ DropDocument(p) \/ PruneFts(p) \/ Fails(p) \/ Abort(p)
  BY <1>3, <1>a, FindDocumentDoes, CollectIdsDoes, DropDocumentDoes, PruneFtsDoes, FailureDoes
     DEF SameBut
<1>4. QED
  BY <1>1, <1>2, <1>3 DEF Step

(* So it leaves the other files mirrored.                                  *)
LEMMA MirroredKept ==
    ASSUME OneSession, TypeInv, ApartInv, HitInv, MirrorInv, NEW p \in Process,
           Step(p) \/ Fails(p) \/ Abort(p),
           NEW g \in File \ {job[p].file}, Served(g), Mirrored(g)
    PROVE  Mirrored(g)'
<1>1. /\ docs'[g] = docs[g] /\ disk' = disk
      /\ job[p].pc \in Holding => docs[g] = 0 \/ docs[g] # job[p].doc
      /\ Busy(p) /\ job[p].file \in File
  BY DocsSpared, StepDoes
<1>2. CASE disk[g] = Absent
  BY <1>1, <1>2 DEF Mirrored
<1>3. CASE disk[g] # Absent
  <2> DEFINE d == docs[g]
  <2>1. d # 0
    BY <1>3 DEF Mirrored
  <2>2. ASSUME PersistEntry(p), NEW e \in job[p].todo, NEW r \in Prior(p, e), r.doc = d
        PROVE  r.entry \notin disk[g]
    <3>1. r \in rows /\ Keyed(job[p].file) /\ r.table = Kind[job[p].file] /\ r.entry.key = e.key
      BY DEF Prior
    <3>2. Kind[g] = Kind[job[p].file]
      BY <2>2, <3>1, OwnKind
    <3>3. job[p].pc = "row"
      BY <2>2 DEF PersistEntry
    <3>4. e \in job[p].text /\ KeysOf(job[p].text) \intersect KeysOf(disk[g]) = {}
      BY <1>3, <3>1, <3>2, <3>3 DEF MirrorInv, JobReads, Past
    <3>5. QED
      BY <3>1, <3>4 DEF KeysOf
  <2>3. ASSUME SweepFts(p), NEW r \in rows, r.doc = d PROVE r.table # "session"
    <3>1. Kind[job[p].file] = "session"
      BY <2>3 DEF ApartInv, JobHolds, SweepFts
    <3>2. r.table = Kind[g]
      BY <2>3, OwnKind
    <3>3. QED
      BY <1>1, <3>1, <3>2 DEF OneSession
  <2>4. \A r : r.doc = d =>
           /\ r \in rows' => r \in rows
           /\ r \in rows /\ r.entry \in disk[g] => r \in rows'
           /\ r \in rows => (SearchedOnce(r)' <=> SearchedOnce(r))
    BY <1>1, <2>1, <2>2, <2>3, RowsSpared
  <2>5. QED
    BY <1>1, <1>3, <2>1, <2>4 DEF Mirrored
<1>4. QED
  BY <1>2, <1>3

(* And what the other jobs have written.                                   *)
LEMMA WroteKept ==
    ASSUME TypeInv, ApartInv, HitInv, MirrorInv, NEW p \in Process,
           Step(p) \/ Fails(p) \/ Abort(p), NEW q \in Process \ {p}
    PROVE  JobWrote(job[q])'
<1>1. job'[q] = job[q] /\ JobWrote(job[q]) /\ Busy(p)
  BY StepDoes DEF OnlyJob, MirrorInv
<1>2. CASE job[q].pc \in Past
  <2> DEFINE d == job[q].doc
  <2>a. job[q].pc \in Holding
    BY <1>2 DEF Holding
  <2>1. job[p].pc \in Holding => d # job[p].doc
    BY <2>a, OwnDocument
  <2>2. PersistEntry(p) => \A e \in job[p].todo : \A r \in Prior(p, e) : r.doc # d
    BY <2>a, PriorOfOthers
  <2>3. ASSUME SweepFts(p), NEW r \in rows, r.doc = d PROVE r.table # "session"
    <3>1. job[p].pc = "sweepFts" /\ Kind[job[p].file] = "session" /\ Keyed(job[p].file)
      BY <2>3 DEF ApartInv, JobHolds, SweepFts, Keyed
    <3>2. docs[job[q].file] = d /\ Busy(q) /\ job[q].file \in File
      BY <2>a, Waiting DEF ApartInv, JobHolds, TypeInv, Holding, Past
    <3>3. r.table = Kind[job[q].file]
      BY <2>3, <3>2, OwnKind
    <3>4. QED
      BY <1>1, <3>1, <3>2, <3>3 DEF ApartInv, Exclusive
  <2>4. \A r : r.doc = d =>
           /\ r \in rows' => r \in rows
           /\ r \in rows /\ r.entry \in {s.entry : s \in rows} => r \in rows'
           /\ r \in rows => (SearchedOnce(r)' <=> SearchedOnce(r))
    BY <2>1, <2>2, <2>3, RowsSpared
  <2>5. \A r : r.doc = d => /\ r \in rows' <=> r \in rows
                            /\ r \in rows => (SearchedOnce(r)' <=> SearchedOnce(r))
    BY <2>4
  <2>6. QED
    BY <1>1, <2>5 DEF JobWrote, HitOf, KeysOf
<1>3. CASE job[q].pc \notin Past
  BY <1>1, <1>3 DEF JobWrote, Past
<1>4. QED
  BY <1>2, <1>3

(* And what they have read.                                                *)
LEMMA ReadsKept ==
    ASSUME TypeInv, ApartInv, MirrorInv, NEW p \in Process,
           Step(p) \/ Fails(p) \/ Abort(p), NEW q \in Process \ {p}
    PROVE  JobReads(q, job[q])'
<1>1. /\ job'[q] = job[q] /\ JobReads(q, job[q]) /\ Busy(p) /\ job[p].file \in File
      /\ disk' = disk /\ queue' = queue /\ missed \subseteq missed' \union {job[p].file}
  BY StepDoes DEF OnlyJob, MirrorInv
<1>2. \A g \in File \ {job[p].file} : Served(g)' => Served(g)
  BY <1>1 DEF Served
<1>3. CASE job[q].pc \in Past
  <2>1. Busy(q) /\ job[q].file \in File
    BY <1>3, Waiting DEF TypeInv, Past
  <2>2. /\ job[q].file # job[p].file
        /\ Keyed(job[q].file) => Kind[job[p].file] # Kind[job[q].file]
    BY <1>1, <2>1 DEF ApartInv, Exclusive
  <2>3. QED
    BY <1>1, <1>2, <1>3, <2>1, <2>2 DEF JobReads, Past
<1>4. CASE job[q].pc \notin Past
  BY <1>1, <1>4 DEF JobReads
<1>5. QED
  BY <1>3, <1>4

(* What a step of a job has to show                                        *)
LEMMA MirrorOfStep ==
    ASSUME OneSession, TypeInv, ApartInv, HitInv, MirrorInv, NEW p \in Process,
           Step(p) \/ Fails(p) \/ Abort(p),
           JobReads(p, job[p])', JobWrote(job[p])',
           NEW f, f = job[p].file,
           job'[p] = Idle /\ Served(f)' => Mirrored(f)',
           job'[p].file = f => job'[p].pc # "exists"
    PROVE  MirrorInv'
<1>1. /\ Busy(p) /\ job[p].file \in File /\ OnlyJob(p)
      /\ disk' = disk /\ queue' = queue /\ up' = up /\ missed \subseteq missed' \union {job[p].file}
      /\ job'[p] = Idle \/ job'[p].file = job[p].file
  BY StepDoes
<1>2. KeysApart(disk)'
  BY <1>1 DEF MirrorInv, KeysApart, KeysOf, Keyed
<1>3. (up \/ ~Busy(Watcher))'
  BY <1>1 DEF MirrorInv, Busy, OnlyJob, Process
<1>4. ASSUME NEW g \in File, Served(g)', Untouched(g)' PROVE Mirrored(g)'
  <2>1. CASE g = job[p].file
    BY <1>1, <1>4, <2>1 DEF Served, Untouched
  <2>2. CASE g # job[p].file
    <3>1. Served(g) /\ Untouched(g)
      BY <1>1, <1>4, <2>2 DEF Served, Untouched, OnlyJob
    <3>2. Mirrored(g)
      BY <3>1 DEF MirrorInv
    <3>3. QED
      BY <2>2, <3>1, <3>2, MirroredKept
  <2>3. QED
    BY <2>1, <2>2
<1>5. \A q \in Process : JobReads(q, job[q])' /\ JobWrote(job[q])'
  BY ReadsKept, WroteKept
<1>6. QED
  BY <1>2, <1>3, <1>4, <1>5 DEF MirrorInv

(* A job that goes on with what it has read                                *)
LEMMA ReadsOn ==
    ASSUME NEW p \in Process, JobReads(p, job[p]), UNCHANGED <<disk, queue, missed>>,
           job[p].pc \in Past, job'[p].pc \in Past, job'[p].file = job[p].file,
           job'[p].text = job[p].text, job'[p].todo \subseteq job[p].todo
    PROVE  JobReads(p, job[p])'
  BY DEF JobReads, Past, Served, KeysOf, Keyed

(* The entries of a file that is mirrored have a row each, and one only.   *)
LEMMA KeyedOnce ==
    ASSUME TypeInv, ApartInv, NEW f \in File, Keyed(f), NEW r \in rows, NEW s \in rows,
           r.doc = docs[f], s.doc = docs[f], r.entry.key = s.entry.key
    PROVE  r = s
<1>1. r.table = Kind[f] /\ s.table = Kind[f] /\ Kind[f] # "design"
  BY OwnKind, KindsOfFiles
<1>2. QED
  BY <1>1 DEF TypeInv, RowsOK

LEMMA MirrorStep ==
    ASSUME Apart, KeysStayApart, OneSession, NumberedOnce
    PROVE  TypeInv /\ ApartInv /\ HitInv /\ MirrorInv /\ [Next]_vars => MirrorInv'
<1> SUFFICES ASSUME TypeInv, ApartInv, HitInv, MirrorInv, [Next]_vars PROVE MirrorInv'
  OBVIOUS
<1>a. FilesOK /\ DocsOK /\ RowsOK /\ IsABag(fts) /\ JobsOK
  BY DEF TypeInv
<1>b. Exclusive /\ Rooted /\ \A p \in Process : JobHolds(job[p]) /\ JobHits(job[p])
  BY DEF ApartInv, HitInv
<1>c. KeysApart(disk) /\ \A p \in Process : JobReads(p, job[p]) /\ JobWrote(job[p])
  BY DEF MirrorInv
<1>d. Idle.pc = "idle" /\ Idle.file = None /\ None \notin File
  BY IdleOK, FileAssumption
<1>1. ASSUME NEW d, NEW S, Change(d, S), \A g \in File \ S : d[g] = disk[g] PROVE MirrorInv'
  <2>1. /\ disk' = d /\ KeysApart(disk')
        /\ UNCHANGED <<docs, rows, fts, job, up>>
        /\ queue \subseteq queue' /\ missed \subseteq missed'
        /\ IF up THEN S \subseteq queue' ELSE S \subseteq missed' /\ queue' = queue
    BY <1>1 DEF Change, db, scan, KeysStayApart
  <2>2. \A g \in File : Served(g)' => Served(g) /\ disk'[g] = disk[g]
    BY <1>1, <2>1 DEF Served
  <2>3. \A g \in File : Served(g)' /\ Untouched(g)' => Mirrored(g)'
    BY <2>1, <2>2 DEF MirrorInv, Untouched, Mirrored, SearchedOnce, HitOf
  <2>4. ASSUME NEW p \in Process PROVE JobReads(p, job[p])'
    <3>1. job[p].pc \in Past \union {"find", "collect", "drop", "prune"} => job[p].file \in File
      BY <1>a, Waiting DEF Past
    <3>2. job[p].pc \in {"find", "collect", "drop", "prune"} => p = Watcher /\ up
      BY <1>c DEF JobReads, MirrorInv, Busy
    <3>3. job[p].pc \in {"find", "collect", "drop", "prune"} =>
             (job[p].file \notin queue' => disk'[job[p].file] = Absent)
      BY <1>1, <1>c, <2>1, <3>1, <3>2 DEF JobReads
    <3>4. job[p].pc \in Past => JobReads(p, job[p])'
      BY <1>c, <2>1, <2>2, <3>1 DEF JobReads, Past
    <3>5. QED
      BY <2>1, <3>2, <3>3, <3>4 DEF JobReads
  <2>5. \A p \in Process : JobWrote(job[p])'
    BY <1>c, <2>1 DEF JobWrote, SearchedOnce, HitOf, KeysOf
  <2>6. QED
    BY <2>1, <2>3, <2>4, <2>5 DEF MirrorInv, Busy
<1>2. ASSUME NEW f \in File, TakeEvent(f) \/ TakeListed(f) PROVE MirrorInv'
  <2>1. PICK p \in Process, c \in {"exists", "doc"} :
           /\ Take(p, f, c) /\ ~Busy(p)
           /\ \/ p = Watcher /\ up /\ queue' = queue \ {f}
              \/ p = Scanner /\ queue' = queue
    BY <1>2 DEF TakeEvent, TakeListed, Process
  <2>2. /\ OnlyJob(p) /\ job'[p].pc = c /\ job'[p].file = f
        /\ UNCHANGED <<disk, docs, rows, fts, up, missed>>
        /\ ~Clashes(f, FALSE, Other(p))
    BY <2>1, <1>a, TakeDoes DEF Apart
  <2>3. \A q \in Process \ {p} : Busy(q) =>
           /\ job[q].file # f /\ ~Deleting(q)
           /\ ~(Keyed(f) /\ Kind[job[q].file] = Kind[f])
    BY <2>2, OtherProcess DEF Clashes
  <2>4. Watcher # Scanner
    BY FileAssumption
  <2>5. \A g \in File : Served(g)' /\ Untouched(g)' => Served(g) /\ Untouched(g)
    <3> SUFFICES ASSUME NEW g \in File, Served(g)', Untouched(g)' PROVE Served(g) /\ Untouched(g)
      OBVIOUS
    <3>1. job[p].file = None
      BY <1>a, <2>1, <1>d DEF JobsOK, JobOK, Busy, Steps, Holding, Past
    <3>2. Untouched(g)
      BY <1>d, <2>2, <3>1 DEF Untouched, OnlyJob
    <3>3. g = f => p = Scanner
      BY <2>2 DEF Untouched
    <3>4. QED
      BY <2>1, <2>2, <2>4, <3>2, <3>3 DEF Served
  <2>6. \A g \in File : Served(g)' /\ Untouched(g)' => Mirrored(g)'
    BY <2>2, <2>5 DEF MirrorInv, Mirrored, SearchedOnce, HitOf
  <2>7. ASSUME NEW q \in Process PROVE JobReads(q, job[q])' /\ JobWrote(job[q])'
    <3>1. CASE q = p
      BY <2>2, <3>1 DEF JobReads, JobWrote, Past
    <3>2. CASE q # p
      <4>1. job'[q] = job[q] /\ JobReads(q, job[q]) /\ JobWrote(job[q])
        BY <1>c, <2>2, <3>2 DEF OnlyJob
      <4>2. JobWrote(job[q])'
        BY <2>2, <4>1 DEF JobWrote, SearchedOnce, HitOf, KeysOf
      <4>3. CASE job[q].pc = "idle"
        BY <4>1, <4>2, <4>3 DEF JobReads, Past
      <4>4. CASE job[q].pc # "idle"
        <5>1. /\ Busy(q) /\ job[q].file \in File /\ job[q].file # f /\ ~Deleting(q)
              /\ ~(Keyed(f) /\ Kind[job[q].file] = Kind[f])
          BY <1>a, <2>3, <3>2, <4>4, Waiting
        <5>2. \A g \in File \ {f} : Served(g)' => Served(g)
          BY <2>1, <2>2 DEF Served
        <5>3. JobReads(q, job[q])'
          BY <2>2, <4>1, <5>1, <5>2 DEF JobReads, Deleting, Keyed
        <5>4. QED
          BY <4>2, <5>3
      <4>5. QED
        BY <4>3, <4>4
    <3>3. QED
      BY <3>1, <3>2
  <2>8. KeysApart(disk)' /\ (up \/ ~Busy(Watcher))'
    <3>1. KeysApart(disk)'
      BY <1>c, <2>2 DEF KeysApart
    <3>2. (up \/ ~Busy(Watcher))'
      BY <2>1, <2>2, <2>4 DEF MirrorInv, Busy, OnlyJob, Process
    <3>3. QED
      BY <3>1, <3>2
  <2>9. QED
    BY <2>6, <2>7, <2>8 DEF MirrorInv
<1>3. ASSUME NEW p \in Process, Fails(p) \/ Abort(p) PROVE MirrorInv'
  <2>1. job'[p] = Idle /\ missed' = missed \union {job[p].file} /\ job[p].file \in File
    BY <1>3, <1>a, FailureDoes
  <2>2. JobReads(p, job[p])' /\ JobWrote(job[p])'
    BY <1>d, <2>1 DEF JobReads, JobWrote, Past
  <2>3. QED
    <3>1. PICK f : f = job[p].file
      OBVIOUS
    <3>2. ~Served(f)' /\ job'[p].file # f
      BY <1>d, <2>1, <3>1 DEF Served
    <3>3. QED
      BY <1>3, <2>2, <3>1, <3>2, MirrorOfStep
<1>4. ASSUME Crash PROVE MirrorInv'
  <2>1. /\ OnlyJob(Watcher) /\ job'[Watcher] = Idle /\ UNCHANGED <<disk, docs, rows, fts>>
        /\ up' = FALSE /\ queue' = {}
        /\ missed' = missed \union queue \union ({job[Watcher].file} \ {None})
    BY <1>4, <1>a, CrashDoes
  <2>2. \A g \in File : Served(g)' => Served(g) /\ job[Watcher].file # g
    BY <1>d, <2>1 DEF Served
  <2>3. \A g \in File : Served(g)' /\ Untouched(g)' => Served(g) /\ Untouched(g)
    BY <2>1, <2>2 DEF Untouched, OnlyJob
  <2>4. \A g \in File : Served(g)' /\ Untouched(g)' => Mirrored(g)'
    BY <2>1, <2>3 DEF MirrorInv, Mirrored, SearchedOnce, HitOf
  <2>5. ASSUME NEW q \in Process PROVE JobReads(q, job[q])' /\ JobWrote(job[q])'
    <3>1. CASE q = Watcher
      BY <1>d, <2>1, <3>1 DEF JobReads, JobWrote, Past
    <3>2. CASE q # Watcher
      <4>1. job'[q] = job[q] /\ JobReads(q, job[q]) /\ JobWrote(job[q])
        BY <1>c, <2>1, <3>2 DEF OnlyJob
      <4>2. JobWrote(job[q])'
        BY <2>1, <4>1 DEF JobWrote, SearchedOnce, HitOf, KeysOf
      <4>3. job[q].pc \in Past => job[q].file \in File
        BY <1>a, Waiting DEF Past
      <4>4. JobReads(q, job[q])'
        BY <2>1, <2>2, <3>2, <4>1, <4>3 DEF JobReads
      <4>5. QED
        BY <4>2, <4>4
    <3>3. QED
      BY <3>1, <3>2
  <2>6. KeysApart(disk)' /\ (up \/ ~Busy(Watcher))'
    BY <1>c, <1>d, <2>1 DEF KeysApart, Busy
  <2>7. QED
    BY <2>4, <2>5, <2>6 DEF MirrorInv
<1>5. ASSUME Scan \/ Restart \/ UNCHANGED vars PROVE MirrorInv'
  <2>1. UNCHANGED <<disk, docs, rows, fts, job, queue, missed>> /\ (up' = up \/ up' = TRUE)
    BY <1>5 DEF Scan, ScanPhase, Restart, vars, db, watch
  <2>2. \A g \in File : Served(g)' /\ Untouched(g)' => Mirrored(g)'
    BY <2>1 DEF MirrorInv, Served, Untouched, Mirrored, SearchedOnce, HitOf
  <2>3. \A q \in Process : JobReads(q, job[q])' /\ JobWrote(job[q])'
    BY <1>c, <2>1 DEF JobReads, Served, JobWrote, SearchedOnce, HitOf
  <2>4. KeysApart(disk)' /\ (up \/ ~Busy(Watcher))'
    BY <1>c, <2>1 DEF KeysApart, Busy, MirrorInv
  <2>5. QED
    BY <2>2, <2>3, <2>4 DEF MirrorInv

<1>6. ASSUME NEW p \in Process, Exists(p) \/ UpsertDocument(p) \/ Read(p) PROVE MirrorInv'
  <2>1. PICK f \in File : f = job[p].file
    BY <1>6, <1>a, ExistsDoes, UpsertDocumentDoes, ReadDoes
  <2>2. CASE Exists(p)
    <3>1. /\ job[p].pc = "exists" /\ Busy(p) /\ OnlyJob(p)
          /\ UNCHANGED <<disk, docs, rows, fts, queue, missed>>
          /\ \/ job'[p].pc = "doc" /\ job'[p].file = f
             \/ p = Scanner /\ job'[p] = Idle
             \/ disk[f] = Absent /\ p = Watcher /\ job'[p].pc = "find" /\ job'[p].file = f
      BY <2>1, <2>2, <1>a, ExistsDoes DEF SameBut
    <3>2. JobReads(p, job[p])' /\ JobWrote(job[p])'
      BY <3>1, <1>d DEF JobReads, JobWrote, Past
    <3>3. ASSUME job'[p] = Idle, Served(f)' PROVE Mirrored(f)'
      <4>1. Served(f) /\ p = Scanner
        BY <1>d, <3>1, <3>3 DEF Served
      <4>2. ASSUME NEW q \in Process \ {p}, job[q].file = f PROVE FALSE
        <5>1. Busy(q)
          BY <1>a, <1>d, <4>2 DEF JobsOK, JobOK, Busy, Idle, Steps, Holding, Past
        <5>2. QED
          BY <1>b, <2>1, <3>1, <4>2, <5>1 DEF Exclusive
      <4>3. Mirrored(f)
        BY <3>1, <4>1, <4>2 DEF MirrorInv, Untouched
      <4>4. QED
        BY <3>1, <4>3 DEF Mirrored, SearchedOnce, HitOf
    <3>4. QED
      BY <1>d, <2>1, <2>2, <3>1, <3>2, <3>3, MirrorOfStep DEF Step
  <2>3. CASE UpsertDocument(p)
    <3>1. job'[p].pc = "read"
      BY <2>3, <1>a, UpsertDocumentDoes
    <3>2. JobReads(p, job[p])' /\ JobWrote(job[p])'
      BY <3>1 DEF JobReads, JobWrote, Past
    <3>3. QED
      BY <1>d, <2>1, <2>3, <3>1, <3>2, MirrorOfStep DEF Step
  <2>4. CASE Read(p)
    <3>1. /\ job[p].pc = "read" /\ UNCHANGED <<disk, docs, rows, fts, queue>>
          /\ disk[f] # Absent
          /\ \/ disk[f] = {} /\ Keyed(f) /\ job'[p] = Idle
             \/ /\ job'[p].pc = IF Keyed(f) THEN "row" ELSE "wipeFts"
                /\ job'[p].file = f /\ job'[p].text = disk[f] /\ job'[p].todo = disk[f]
      BY <2>1, <2>4, <1>a, ReadDoes
    <3>2. CASE job'[p] = Idle
      <4>1. disk[f] = {} /\ Keyed(f) /\ docs[f] # 0
        BY <1>b, <1>d, <2>1, <3>1, <3>2 DEF JobHolds, Holding
      <4>2. Mirrored(f)'
        BY <3>1, <4>1, KindsOfFiles DEF Mirrored
      <4>3. JobReads(p, job[p])' /\ JobWrote(job[p])'
        BY <3>2, <1>d DEF JobReads, JobWrote, Past
      <4>4. QED
        BY <1>d, <2>1, <2>4, <3>2, <4>2, <4>3, MirrorOfStep DEF Step
    <3>3. CASE job'[p] # Idle
      <4>1. disk[f] \in Texts[Kind[f]]
        BY <1>a, <3>1 DEF FilesOK
      <4>2. ASSUME Keyed(f), NEW g \in File \ {f}, Kind[g] = Kind[f], disk[g] # Absent
            PROVE  KeysOf(disk[f]) \intersect KeysOf(disk[g]) = {}
        BY <1>c, <3>1, <4>2 DEF KeysApart
      <4>3. JobReads(p, job[p])'
        BY <3>1, <3>3, <4>1, <4>2 DEF JobReads
      <4>4. JobWrote(job[p])'
        BY <3>1, <3>3, KindsOfFiles DEF JobWrote
      <4>5. QED
        BY <2>1, <2>4, <3>1, <3>3, <4>3, <4>4, MirrorOfStep DEF Step
    <3>4. QED
      BY <3>2, <3>3
  <2>5. QED
    BY <1>6, <2>2, <2>3, <2>4
<1>7. ASSUME NEW p \in Process, WipeFtsOfDoc(p) \/ WipeRowsOfDoc(p) PROVE MirrorInv'
  <2>1. PICK f \in File : f = job[p].file
    BY <1>7, <1>a, WipeFtsOfDocDoes, WipeRowsOfDocDoes
  <2>2. CASE WipeFtsOfDoc(p)
    <3>1. /\ job[p].pc = "wipeFts" /\ job'[p].pc = "wipeRows" /\ SameBut(job'[p], job[p])
          /\ UNCHANGED <<disk, queue, missed>>
      BY <2>2, <1>a, WipeFtsOfDocDoes
    <3>2. JobReads(p, job[p])'
      BY <1>c, <3>1, ReadsOn DEF SameBut, Past
    <3>3. JobWrote(job[p])'
      BY <1>c, <3>1 DEF JobWrote, SameBut
    <3>4. QED
      BY <1>d, <2>1, <2>2, <3>1, <3>2, <3>3, MirrorOfStep DEF Step
  <2>3. CASE WipeRowsOfDoc(p)
    <3>1. /\ job[p].pc = "wipeRows" /\ job'[p].pc = "row" /\ SameBut(job'[p], job[p])
          /\ UNCHANGED <<disk, queue, missed>>
          /\ rows' = {r \in rows : ~(r.table = "design" /\ r.doc = job[p].doc)}
      BY <2>3, <1>a, WipeRowsOfDocDoes
    <3>2. JobReads(p, job[p])'
      BY <1>c, <3>1, ReadsOn DEF SameBut, Past
    <3>3. Kind[f] = "design" /\ docs[f] = job[p].doc
      BY <1>b, <2>1, <3>1 DEF JobHolds, Holding, Past
    <3>4. \A r \in rows' : r.doc # job[p].doc
      BY <3>1, <3>3, OwnKind
    <3>5. JobWrote(job[p])'
      BY <1>c, <3>1, <3>4 DEF JobWrote, SameBut
    <3>6. QED
      BY <1>d, <2>1, <2>3, <3>1, <3>2, <3>5, MirrorOfStep DEF Step
  <2>4. QED
    BY <1>7, <2>2, <2>3
<1>8. ASSUME NEW p \in Process, PersistEntry(p) PROVE MirrorInv'
  <2> DEFINE d == job[p].doc
             text == job[p].text
             todo == job[p].todo
  <2>1. /\ job[p].pc = "row" /\ job[p].file \in File
        /\ UNCHANGED <<disk, docs, fts, queue, missed>>
        /\ job'[p].file = job[p].file /\ job'[p].doc = d
        /\ job'[p].text = text /\ job'[p].todo = todo
        /\ job'[p].pc = IF Kind[job[p].file] = "design" THEN "index" ELSE "unindex"
    BY <1>8, <1>a, PersistEntryDoes
  <2>2. PICK e \in todo, id \in Nat \ {0} :
           /\ rows' = (rows \ Prior(p, e)) \union {RowFor(p, e, id)}
           /\ job'[p].hit = HitOf(RowFor(p, e, id))
    BY <1>8, <1>a, PersistEntryDoes
  <2>3. PICK f \in File : f = job[p].file
    BY <2>1
  <2>4. JobReads(p, job[p])'
    BY <1>c, <2>1, ReadsOn DEF Past
  <2>5. docs[f] = d /\ text \in Texts[Kind[f]] /\ todo \subseteq text
    BY <1>b, <1>c, <2>1, <2>3 DEF JobHolds, JobReads, Holding, Past
  <2>6. ASSUME NEW x \in text \ todo, NEW r \in rows, r.doc = d, r.entry = x
        PROVE  r \in rows'
    <3>1. SUFFICES ASSUME r \in Prior(p, e) PROVE FALSE
      BY <2>2
    <3>2. Keyed(f) /\ x.key = e.key
      BY <2>3, <2>6, <3>1 DEF Prior
    <3>3. x = e
      BY <2>5, <2>6, <3>2 DEF NumberedOnce, Keyed
    <3>4. QED
      BY <2>6, <3>3
  <2>7. \A x \in text \ todo : \E r \in rows' : r.doc = d /\ r.entry = x /\ SearchedOnce(r)'
    <3> SUFFICES ASSUME NEW x \in text \ todo
                 PROVE  \E r \in rows' : r.doc = d /\ r.entry = x /\ SearchedOnce(r)'
      OBVIOUS
    <3>1. PICK r \in rows : r.doc = d /\ r.entry = x /\ SearchedOnce(r)
      BY <1>c, <2>1 DEF JobWrote
    <3>2. QED
      BY <2>1, <2>6, <3>1 DEF SearchedOnce, HitOf
  <2>8. CASE Kind[f] = "design"
    <3>1. \A r \in rows : r.doc = d => r.entry \in text \ todo /\ SearchedOnce(r)
      BY <1>c, <2>1, <2>3, <2>8 DEF JobWrote
    <3>2. \A r, s \in rows : r.doc = d /\ s.doc = d /\ r.entry = s.entry => r = s
      BY <1>c, <2>1, <2>3, <2>8 DEF JobWrote
    <3>a. RowFor(p, e, id).doc = d /\ RowFor(p, e, id).entry = e
      BY DEF RowFor
    <3>3. PICK n : n = RowFor(p, e, id) /\ n.doc = d /\ n.entry = e
      BY <3>a
    <3>4. \A r \in rows' : r.doc = d =>
             (r \in rows /\ r.entry \in text \ todo /\ SearchedOnce(r)') \/ r = n
      BY <2>1, <2>2, <3>1, <3>3 DEF SearchedOnce, HitOf
    <3>5. \A r, s \in rows' : r.doc = d /\ s.doc = d /\ r.entry = s.entry => r = s
      BY <3>2, <3>3, <3>4
    <3>6. JobWrote(job[p])'
      BY <2>1, <2>2, <2>3, <2>7, <2>8, <3>3, <3>4, <3>5 DEF JobWrote, HitOf
    <3>7. QED
      BY <1>8, <1>d, <2>1, <2>3, <2>4, <2>8, <3>6, MirrorOfStep DEF Step
  <2>9. CASE Kind[f] # "design"
    <3>1. JobWrote(job[p])'
      BY <2>1, <2>3, <2>7, <2>9 DEF JobWrote
    <3>2. QED
      BY <1>8, <1>d, <2>1, <2>3, <2>4, <2>9, <3>1, MirrorOfStep DEF Step
  <2>10. QED
    BY <2>8, <2>9

<1>9. ASSUME NEW p \in Process, Unindex(p) \/ Index(p) PROVE MirrorInv'
  <2> DEFINE d == job[p].doc
             text == job[p].text
             todo == job[p].todo
  <2>1. PICK f \in File, i \in {job[p].hit} : f = job[p].file /\ i = job[p].hit
    BY <1>9, <1>a, UnindexDoes, IndexDoes
  <2>2. /\ job[p].pc \in {"unindex", "index"} /\ UNCHANGED <<disk, docs, rows, queue, missed>>
        /\ job'[p].file = f /\ job'[p].doc = d /\ job'[p].text = text /\ job'[p].todo \subseteq todo
        /\ job'[p].pc \in {"index", "row"}
    BY <1>9, <1>a, <2>1, UnindexDoes, IndexDoes DEF SameBut
  <2>3. JobReads(p, job[p])'
    BY <1>c, <2>1, <2>2, ReadsOn DEF Past
  <2>4. docs[f] = d /\ i.entry \in todo /\ todo \subseteq text
    BY <1>b, <1>c, <2>1, <2>2 DEF JobHolds, JobHits, JobReads, Holding, Past
  <2>5. PICK s \in rows : HitOf(s) = i /\ s.doc = d
    BY <1>b, <2>1, <2>2 DEF JobHits
  <2>6. s.entry = i.entry
    BY <2>5 DEF HitOf
  <2>7. ASSUME NEW r \in rows \ {s}, r.doc = d PROVE SearchedOnce(r)' <=> SearchedOnce(r)
    <3>1. r.table = s.table
      BY <2>4, <2>5, <2>7, OwnKind
    <3>2. ~Same(HitOf(r), i) /\ HitOf(r) # i
      BY <1>a, <2>5, <2>7, <3>1 DEF Same, HitOf, RowsOK
    <3>3. CASE Unindex(p)
      <4>1. /\ \A h \in DOMAIN fts' : fts'[h] = fts[h]
            /\ DOMAIN fts' \subseteq DOMAIN fts
            /\ \A h \in DOMAIN fts : h \in DOMAIN fts' <=> ~Same(h, i)
        BY <1>a, <2>1, <3>3, UnindexDoes
      <4>2. QED
        BY <3>2, <4>1 DEF SearchedOnce, HitOf
    <3>4. CASE Index(p)
      <4>1. /\ DOMAIN fts' = DOMAIN fts \union {i}
            /\ \A x \in DOMAIN fts \ {i} : fts'[x] = fts[x]
        BY <1>a, <2>1, <3>4, IndexDoes
      <4>2. QED
        BY <3>2, <4>1 DEF SearchedOnce, HitOf
    <3>5. QED
      BY <1>9, <3>3, <3>4
  <2>8. ASSUME NEW x \in text \ todo
        PROVE  \E r \in rows' : r.doc = d /\ r.entry = x /\ SearchedOnce(r)'
    <3>1. PICK r \in rows : r.doc = d /\ r.entry = x /\ SearchedOnce(r)
      BY <1>c, <2>2 DEF JobWrote
    <3>2. r # s
      BY <2>4, <2>6, <2>8, <3>1
    <3>3. QED
      BY <2>2, <2>7, <3>1, <3>2
  <2>9. CASE Unindex(p)
    <3>1. /\ job[p].pc = "unindex" /\ job'[p].pc = "index" /\ job'[p].todo = todo
      BY <1>a, <2>9, UnindexDoes DEF SameBut
    <3>2. Kind[f] # "design"
      BY <1>b, <2>1, <3>1, KindsOfFiles DEF JobHolds
    <3>3. JobWrote(job[p])'
      BY <2>2, <2>8, <3>1, <3>2 DEF JobWrote
    <3>4. QED
      BY <1>d, <2>1, <2>2, <2>3, <2>9, <3>1, <3>3, MirrorOfStep DEF Step
  <2>10. CASE Index(p)
    <3>1. /\ job[p].pc = "index" /\ job'[p].pc = "row" /\ job'[p].todo = todo \ {i.entry}
          /\ DOMAIN fts' = DOMAIN fts \union {i}
          /\ i \notin DOMAIN fts => fts'[i] = 1
      BY <1>a, <2>1, <2>10, IndexDoes
    <3>2. i \notin DOMAIN fts
      BY <1>b, <2>1, <3>1 DEF JobHits, Same
    <3>3. SearchedOnce(s)'
      BY <2>5, <3>1, <3>2 DEF SearchedOnce, HitOf
    <3>4. \A x \in text \ job'[p].todo : \E r \in rows' : r.doc = d /\ r.entry = x /\ SearchedOnce(r)'
      BY <2>2, <2>5, <2>6, <2>8, <3>1, <3>3
    <3>5. CASE Kind[f] = "design"
      <4>1. /\ \A r \in rows : r.doc = d => (r.entry \in text \ todo /\ SearchedOnce(r)) \/ HitOf(r) = i
            /\ \A r, t \in rows : r.doc = d /\ t.doc = d /\ r.entry = t.entry => r = t
        BY <1>c, <2>1, <3>1, <3>5 DEF JobWrote
      <4>2. \A r \in rows : r.doc = d => r.entry \in text \ job'[p].todo /\ SearchedOnce(r)'
        <5> SUFFICES ASSUME NEW r \in rows, r.doc = d
                     PROVE  r.entry \in text \ job'[p].todo /\ SearchedOnce(r)'
          OBVIOUS
        <5>1. CASE r = s
          BY <2>4, <2>6, <3>1, <3>3, <5>1
        <5>2. CASE r # s
          <6>1. HitOf(r) # i
            BY <2>5, <2>6, <4>1, <5>2 DEF HitOf
          <6>2. QED
            BY <2>7, <3>1, <4>1, <5>2, <6>1
        <5>3. QED
          BY <5>1, <5>2
      <4>3. JobWrote(job[p])'
        BY <2>2, <3>1, <3>4, <4>1, <4>2 DEF JobWrote
      <4>4. QED
        BY <1>d, <2>1, <2>2, <2>3, <2>10, <3>1, <4>3, MirrorOfStep DEF Step
    <3>6. CASE Kind[f] # "design"
      <4>1. JobWrote(job[p])'
        BY <2>2, <3>1, <3>4, <3>6 DEF JobWrote
      <4>2. QED
        BY <1>d, <2>1, <2>2, <2>3, <2>10, <3>1, <4>1, MirrorOfStep DEF Step
    <3>7. QED
      BY <3>5, <3>6
  <2>11. QED
    BY <1>9, <2>9, <2>10
<1>10. ASSUME NEW p \in Process, Persisted(p) PROVE MirrorInv'
  <2>1. /\ job[p].pc = "row" /\ job[p].todo = {} /\ job[p].file \in File
        /\ UNCHANGED <<disk, docs, rows, fts, queue, missed>>
        /\ \/ /\ Kind[job[p].file] = "session" /\ job'[p].pc = "sweepRows" /\ SameBut(job'[p], job[p])
           \/ Kind[job[p].file] # "session" /\ job'[p] = Idle
    BY <1>10, <1>a, PersistedDoes
  <2>2. PICK f \in File : f = job[p].file
    BY <2>1
  <2>3. CASE job'[p].pc = "sweepRows"
    <3>1. SameBut(job'[p], job[p])
      BY <1>d, <2>1, <2>3
    <3>2. JobReads(p, job[p])'
      BY <1>c, <2>1, <2>3, <3>1, ReadsOn DEF SameBut, Past
    <3>a. ASSUME NEW x \in job[p].text \ job[p].todo
          PROVE  \E r \in rows' : r.doc = job[p].doc /\ r.entry = x /\ SearchedOnce(r)'
      BY <1>c, <2>1 DEF JobWrote, SearchedOnce, HitOf
    <3>3. JobWrote(job[p])'
      BY <2>3, <3>1, <3>a DEF JobWrote, SameBut
    <3>4. QED
      BY <1>10, <1>d, <2>2, <2>3, <3>1, <3>2, <3>3, MirrorOfStep DEF Step, SameBut
  <2>4. CASE job'[p] = Idle
    <3>1. JobReads(p, job[p])' /\ JobWrote(job[p])'
      BY <2>4, <1>d DEF JobReads, JobWrote, Past
    <3>2. ASSUME Served(f)' PROVE Mirrored(f)'
      <4>1. /\ Kind[f] # "session" /\ docs[f] # 0 /\ docs[f] = job[p].doc
            /\ job[p].text \in Texts[Kind[f]] /\ job[p].text = disk[f]
        BY <1>b, <1>c, <1>d, <2>1, <2>2, <2>4, <3>2 DEF JobHolds, JobReads, Served, Holding, Past
      <4>2. disk[f] # Absent
        BY <4>1, FileAssumption
      <4>3. \A e \in disk[f] : \E r \in rows : r.doc = docs[f] /\ r.entry = e /\ SearchedOnce(r)
        BY <1>c, <2>1, <4>1 DEF JobWrote
      <4>4. CASE Kind[f] = "design"
        <5>1. /\ \A r \in rows : r.doc = docs[f] => r.entry \in disk[f] /\ SearchedOnce(r)
              /\ \A r, s \in rows : r.doc = docs[f] /\ s.doc = docs[f] /\ r.entry = s.entry => r = s
          BY <1>c, <2>1, <2>2, <4>1, <4>4 DEF JobWrote
        <5>2. Mirrored(f)
          BY <4>1, <4>2, <4>3, <5>1 DEF Mirrored
        <5>3. QED
          BY <2>1, <5>2 DEF Mirrored, SearchedOnce, HitOf
      <4>5. CASE Kind[f] # "design"
        <5>1. Keyed(f)
          BY <4>5, KindsOfFiles
        <5>2. \A r \in rows : r.doc = docs[f] /\ r.entry \in disk[f] => SearchedOnce(r)
          BY <4>3, <5>1, KeyedOnce
        <5>3. Mirrored(f)
          BY <4>1, <4>2, <4>3, <4>5, <5>2 DEF Mirrored
        <5>4. QED
          BY <2>1, <5>3 DEF Mirrored, SearchedOnce, HitOf
      <4>6. QED
        BY <4>4, <4>5
    <3>3. QED
      BY <1>10, <1>d, <2>2, <2>4, <3>1, <3>2, MirrorOfStep DEF Step
  <2>5. QED
    BY <2>1, <2>3, <2>4

<1>11. ASSUME NEW p \in Process, SweepRows(p) PROVE MirrorInv'
  <2>1. /\ job[p].pc = "sweepRows" /\ job[p].file \in File
        /\ UNCHANGED <<disk, docs, fts, queue, missed>>
        /\ job'[p].pc = "sweepFts" /\ SameBut(job'[p], job[p])
        /\ rows' = {r \in rows : ~(/\ r.table = "session" /\ r.doc = job[p].doc
                                   /\ r.entry.key \notin KeysOf(job[p].text))}
    BY <1>11, <1>a, SweepRowsDoes
  <2>2. PICK f \in File : f = job[p].file
    BY <2>1
  <2>3. JobReads(p, job[p])'
    BY <1>c, <2>1, ReadsOn DEF SameBut, Past
  <2>4. job[p].todo = {} /\ Kind[f] = "session" /\ docs[f] = job[p].doc
    BY <1>b, <2>1, <2>2 DEF JobHits, JobHolds, Holding, Past
  <2>5. \A r \in rows' : r.doc = job[p].doc => r.entry.key \in KeysOf(job[p].text)
    BY <2>1, <2>4, OwnKind
  <2>6. ASSUME NEW x \in job[p].text
        PROVE  \E r \in rows' : r.doc = job[p].doc /\ r.entry = x /\ SearchedOnce(r)'
    <3>1. PICK r \in rows : r.doc = job[p].doc /\ r.entry = x /\ SearchedOnce(r)
      BY <1>c, <2>1, <2>4 DEF JobWrote
    <3>2. r \in rows'
      BY <2>1, <3>1 DEF KeysOf
    <3>3. QED
      BY <2>1, <3>1, <3>2 DEF SearchedOnce, HitOf
  <2>7. JobWrote(job[p])'
    BY <2>1, <2>4, <2>5, <2>6 DEF JobWrote, SameBut, KeysOf
  <2>8. QED
    BY <1>11, <1>d, <2>1, <2>2, <2>3, <2>7, MirrorOfStep DEF Step, SameBut
<1>12. ASSUME NEW p \in Process, SweepFts(p) PROVE MirrorInv'
  <2>1. /\ job[p].pc = "sweepFts" /\ job[p].file \in File /\ job'[p] = Idle
        /\ UNCHANGED <<disk, docs, rows, queue, missed>>
        /\ DOMAIN fts' \subseteq DOMAIN fts
        /\ \A h \in DOMAIN fts' : fts'[h] = fts[h]
        /\ \A h \in DOMAIN fts :
              h \in DOMAIN fts' <=>
                 ~(h.table = "session"
                   /\ \A r \in RowsOf(job[p].doc) : r.table = "session" => r.id # h.ref)
    BY <1>12, <1>a, SweepFtsDoes
  <2>2. PICK f \in File : f = job[p].file
    BY <2>1
  <2>3. JobReads(p, job[p])' /\ JobWrote(job[p])'
    BY <2>1, <1>d DEF JobReads, JobWrote, Past
  <2>4. ASSUME Served(f)' PROVE Mirrored(f)'
    <3>1. /\ Kind[f] = "session" /\ docs[f] # 0 /\ docs[f] = job[p].doc
          /\ job[p].text \in Texts[Kind[f]] /\ job[p].text = disk[f]
      BY <1>b, <1>c, <1>d, <2>1, <2>2, <2>4 DEF JobHolds, JobReads, Served, Holding, Past
    <3>2. disk[f] # Absent /\ Keyed(f)
      BY <3>1, FileAssumption DEF Keyed
    <3>3. /\ \A e \in disk[f] : \E r \in rows : r.doc = docs[f] /\ r.entry = e /\ SearchedOnce(r)
          /\ \A r \in rows : r.doc = docs[f] => r.entry.key \in KeysOf(disk[f])
      BY <1>c, <2>1, <3>1 DEF JobWrote
    <3>4. ASSUME NEW r \in rows, r.doc = docs[f] PROVE r.entry \in disk[f] /\ SearchedOnce(r)
      <4>1. PICK e \in disk[f] : e.key = r.entry.key
        BY <3>3, <3>4 DEF KeysOf
      <4>2. PICK s \in rows : s.doc = docs[f] /\ s.entry = e /\ SearchedOnce(s)
        BY <3>3
      <4>3. r = s
        BY <3>2, <3>4, <4>1, <4>2, KeyedOnce
      <4>4. QED
        BY <4>2, <4>3
    <3>5. ASSUME NEW r \in rows, r.doc = docs[f] PROVE SearchedOnce(r)'
      <4>1. HitOf(r).table = r.table /\ HitOf(r).ref = r.id /\ r.table = "session"
        BY <3>1, <3>5, OwnKind DEF HitOf
      <4>2. HitOf(r) \in DOMAIN fts /\ fts[HitOf(r)] = 1
        BY <3>4, <3>5 DEF SearchedOnce
      <4>3. HitOf(r) \in DOMAIN fts'
        BY <2>1, <3>1, <3>5, <4>1, <4>2 DEF RowsOf
      <4>4. QED
        BY <2>1, <4>2, <4>3 DEF SearchedOnce, HitOf
    <3>6. \A r, s \in rows : r.doc = docs[f] /\ s.doc = docs[f] /\ r.entry = s.entry => r = s
      BY <3>2, KeyedOnce
    <3>7. QED
      BY <2>1, <3>1, <3>2, <3>3, <3>4, <3>5, <3>6 DEF Mirrored
  <2>5. QED
    BY <1>12, <1>d, <2>1, <2>2, <2>3, <2>4, MirrorOfStep DEF Step
<1>13. ASSUME NEW p \in Process, FindDocument(p) \/ PruneFts(p) PROVE MirrorInv'
  <2>1. /\ job[p].pc \in {"find", "prune"} /\ job[p].file \in File
        /\ UNCHANGED <<disk, docs, queue>>
        /\ \/ docs[job[p].file] = 0 /\ job'[p] = Idle
           \/ /\ job[p].pc = "find" /\ job'[p].pc = "collect" /\ job'[p].file = job[p].file
    BY <1>13, <1>a, <1>b, FindDocumentDoes, PruneFtsDoes DEF JobHolds
  <2>2. PICK f \in File : f = job[p].file
    BY <2>1
  <2>3. JobReads(p, job[p])' /\ JobWrote(job[p])'
    BY <1>c, <1>d, <2>1 DEF JobReads, JobWrote, Past
  <2>4. ASSUME job'[p] = Idle, Served(f)' PROVE Mirrored(f)'
    <3>1. disk[f] = Absent /\ docs[f] = 0
      BY <1>c, <1>d, <2>1, <2>2, <2>4 DEF JobReads, Served
    <3>2. QED
      BY <2>1, <3>1 DEF Mirrored
  <2>5. QED
    BY <1>13, <1>d, <2>1, <2>2, <2>3, <2>4, MirrorOfStep DEF Step
<1>14. ASSUME NEW p \in Process, CollectIds(p) \/ DropDocument(p) PROVE MirrorInv'
  <2>1. /\ job[p].pc \in {"collect", "drop"} /\ job[p].file \in File
        /\ UNCHANGED <<disk, queue>>
        /\ job'[p].pc \in {"drop", "prune"} /\ job'[p].file = job[p].file
    BY <1>14, <1>a, CollectIdsDoes, DropDocumentDoes DEF SameBut
  <2>2. PICK f \in File : f = job[p].file
    BY <2>1
  <2>3. JobReads(p, job[p])' /\ JobWrote(job[p])'
    BY <1>c, <2>1 DEF JobReads, JobWrote, Past
  <2>4. QED
    BY <1>14, <1>d, <2>1, <2>2, <2>3, MirrorOfStep DEF Step
<1>15. ASSUME NEW f \in File, NEW t, Change([disk EXCEPT ![f] = t], {f}) PROVE MirrorInv'
  BY <1>a, <1>1, <1>15 DEF FilesOK
<1>16. ASSUME NEW f \in File, NEW g \in File, Rename(f, g) PROVE MirrorInv'
  <2>1. Change([disk EXCEPT ![g] = disk[f], ![f] = Absent], {f, g})
    BY <1>16 DEF Rename
  <2>2. \A h \in File \ {f, g} : [disk EXCEPT ![g] = disk[f], ![f] = Absent][h] = disk[h]
    BY <1>a DEF FilesOK
  <2>3. QED
    BY <1>1, <2>1, <2>2
<1>17. QED
  BY <1>2, <1>3, <1>4, <1>5, <1>6, <1>7, <1>8, <1>9, <1>10, <1>11, <1>12, <1>13, <1>14,
     <1>15, <1>16
     DEF Next, Step, Edit

(* Once its last change has been carried through, a file is mirrored: the  *)
(* tables hold its document, the rows of its entries, one search row for   *)
(* each, and for a session that has entries and a design document nothing  *)
(* else; and nothing once it is gone.  For one CLAUDE.md, no number or     *)
(* name said twice, sweeps that run whole, and jobs that meet but do not   *)
(* clash, through failures and crashes everywhere else.                    *)
THEOREM ServedIsMirrored ==
    ASSUME Apart, Untorn, KeysStayApart, OneSession, NumberedOnce
    PROVE  Spec => []Mirror
<1>1. TypeInv /\ ApartInv /\ MirrorInv => Mirror
  <2> SUFFICES ASSUME TypeInv, ApartInv, MirrorInv PROVE Mirror
    OBVIOUS
  <2>a. ASSUME NEW f \in File, Settled(f) PROVE Mirrored(f)
    <3>1. Served(f) /\ Untouched(f)
      BY <2>a DEF Settled, Served, Untouched
    <3>2. QED
      BY <3>1 DEF MirrorInv
  <2> SUFFICES ASSUME NEW f \in File, Settled(f), disk[f] # Absent
               PROVE  LET own == {r \in RowsOf(docs[f]) : r.table = Kind[f]} IN
                      /\ docs[f] # 0
                      /\ disk[f] \subseteq {r.entry : r \in own}
                      /\ \A r \in own : r.entry \in disk[f] => SearchedOnce(r)
                      /\ Kind[f] = "design" \/ (Kind[f] = "session" /\ disk[f] # {}) =>
                             /\ {r.entry : r \in own} = disk[f]
                             /\ Cardinality(own) = Cardinality(disk[f])
    <3>1. \A f \in File : Settled(f) /\ disk[f] = Absent => docs[f] = 0
      BY <2>a DEF Mirrored
    <3>2. QED
      BY <3>1 DEF Mirror
  <2> DEFINE own == {r \in RowsOf(docs[f]) : r.table = Kind[f]}
  <2>1. Mirrored(f)
    BY <2>a
  <2>2. own = {r \in rows : r.doc = docs[f]}
    BY OwnKind DEF RowsOf
  <2>3. /\ docs[f] # 0
        /\ disk[f] \subseteq {r.entry : r \in own}
        /\ \A r \in own : r.entry \in disk[f] => SearchedOnce(r)
    BY <2>1, <2>2 DEF Mirrored
  <2>4. ASSUME Kind[f] = "design" \/ (Kind[f] = "session" /\ disk[f] # {})
        PROVE  /\ {r.entry : r \in own} = disk[f]
               /\ Cardinality(own) = Cardinality(disk[f])
    <3>1. /\ \A r \in own : r.entry \in disk[f]
          /\ \A r, s \in own : r.entry = s.entry => r = s
      BY <2>1, <2>2, <2>4 DEF Mirrored
    <3>2. {r.entry : r \in own} = disk[f]
      BY <2>3, <3>1
    <3>3. IsFiniteSet(own)
      BY <2>2, FS_Subset DEF TypeInv, RowsOK
    <3> DEFINE entry == [r \in own |-> r.entry]
    <3> HIDE DEF own
    <3>4. entry \in Bijection(own, disk[f])
      <4>1. entry \in [own -> disk[f]]
        BY <3>1
      <4>2. \A r, s \in own : entry[r] = entry[s] => r = s
        BY <3>1
      <4>3. \A e \in disk[f] : \E r \in own : entry[r] = e
        BY <3>2
      <4> HIDE DEF entry
      <4>4. QED
        BY <4>1, <4>2, <4>3, Fun_IsBij
    <3>5. Cardinality(own) = Cardinality(disk[f])
      BY <3>3, <3>4, FS_Bijection DEF ExistsBijection
    <3>6. QED
      BY <3>2, <3>5
  <2>5. QED
    BY <2>3, <2>4
<1>2. Init => TypeInv /\ ApartInv /\ HitInv /\ MirrorInv
  BY TypeInit, ApartInit, HitInit, MirrorInit
<1>3. TypeInv /\ ApartInv /\ HitInv /\ MirrorInv /\ [Next]_vars
         => (TypeInv /\ ApartInv /\ HitInv /\ MirrorInv)'
  BY TypeStep, ApartStep, HitStep, MirrorStep
<1>4. QED
  BY <1>1, <1>2, <1>3, PTL DEF Spec
================================================================================
