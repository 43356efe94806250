--------------------------- MODULE SourceIndexProofs ---------------------------
(***************************************************************************)
(* Proofs about SourceIndex, for any number of files, processes, edits and *)
(* passes that fail; and, at the end, about CodeLocation, for any texts.   *)
(***************************************************************************)
EXTENDS SourceIndex, CodeLocation, SequenceTheorems, FiniteSetTheorems, WellFoundedInduction,
        TLAPS

(* What a process holds between its read of a file and its row.            *)
Holds(p) == job[p].pc = "stat" => job[p].file \in File /\ job[p].text \in Content

Places == \A p \in Process : (Busy(p) => job[p].repo \in Repo) /\ Holds(p)

TypeInv == TypeOK /\ Places

--------------------------------------------------------------------------------
LEMMA IdleType == Idle \in Job /\ Idle.pc = "idle" /\ Idle.open = FALSE /\ Idle.clean = {}
BY SourceAssumption DEF Idle, Job, Commit

LEMMA ViewType ==
    ASSUME TypeOK, NEW p \in Process
    PROVE  ViewOf(p) \in [File -> Doc \union {NoDoc}] /\ CommitsOf(p) \subseteq Commit
<1>1. job[p] \in Job
  BY DEF TypeOK
<1>2. job[p].view \in [File -> Doc \union {NoDoc}] /\ job[p].commits \subseteq Commit
  BY <1>1 DEF Job
<1>3. QED
  BY <1>2 DEF ViewOf, CommitsOf, TypeOK

(* A commit changes nothing of the others but that they are behind.        *)
LEMMA BehindType ==
    ASSUME NEW p \in Process, NEW j \in [Process -> Job]
    PROVE  /\ Behind(p, j) \in [Process -> Job]
           /\ \A q \in Process : 
                /\ Behind(p, j)[q].pc = j[q].pc /\ Behind(p, j)[q].repo = j[q].repo
                /\ Behind(p, j)[q].file = j[q].file /\ Behind(p, j)[q].text = j[q].text
                /\ Behind(p, j)[q].open = j[q].open /\ Behind(p, j)[q].view = j[q].view
                /\ Behind(p, j)[q].listed = j[q].listed /\ Behind(p, j)[q].via = j[q].via
                /\ Behind(p, j)[q].todo = j[q].todo /\ Behind(p, j)[q].clean = j[q].clean
                /\ j[q].behind => Behind(p, j)[q].behind
                /\ q # p /\ j[q].open => Behind(p, j)[q].behind
           /\ Behind(p, j)[p] = j[p]
<1>1. ASSUME NEW q \in Process
      PROVE  /\ [j[q] EXCEPT !.behind = TRUE] \in Job
             /\ [j[q] EXCEPT !.behind = TRUE].pc = j[q].pc
             /\ [j[q] EXCEPT !.behind = TRUE].repo = j[q].repo
             /\ [j[q] EXCEPT !.behind = TRUE].file = j[q].file
             /\ [j[q] EXCEPT !.behind = TRUE].text = j[q].text
             /\ [j[q] EXCEPT !.behind = TRUE].open = j[q].open
             /\ [j[q] EXCEPT !.behind = TRUE].view = j[q].view
             /\ [j[q] EXCEPT !.behind = TRUE].listed = j[q].listed
             /\ [j[q] EXCEPT !.behind = TRUE].via = j[q].via
             /\ [j[q] EXCEPT !.behind = TRUE].todo = j[q].todo
             /\ [j[q] EXCEPT !.behind = TRUE].clean = j[q].clean
             /\ [j[q] EXCEPT !.behind = TRUE].behind
  <2>1. j[q] \in Job
    OBVIOUS
  <2>2. QED
    BY <2>1 DEF Job
<1>2. QED
  BY <1>1 DEF Behind

(* What a file becomes in the view is a document.                          *)
LEMMA NewType ==
    ASSUME NEW doc \in Doc \union {NoDoc}, NEW text \in Content, NEW mtime \in Stamp,
           NEW r \in Repo, NEW c \in Commit \union {None}
    PROVE  /\ Rewritten(doc, text, mtime, r, c) \in Doc
           /\ Unchanged(doc, text) /\ doc # NoDoc => Refreshed(doc, mtime, c) \in Doc
<1>1. text \subseteq UNION Content
  OBVIOUS
<1>2. Rewritten(doc, text, mtime, r, c) \in Doc
  BY <1>1 DEF Rewritten, WipeAndInsert, Doc
<1>3. doc \in Doc => Refreshed(doc, mtime, c) \in Doc
  BY DEF Refreshed, Doc
<1>4. QED
  BY <1>2, <1>3

LEMMA TypeInit == Init => TypeInv
<1> SUFFICES ASSUME Init PROVE TypeInv
  OBVIOUS
<1>1. job \in [Process -> Job] /\ \A p \in Process : job[p].pc = "idle"
  BY IdleType DEF Init
<1>2. owner \in [File -> Repo \union {None}] /\ live \subseteq Repo /\ event \subseteq Repo
  BY DEF Init, Repo
<1>3. /\ stamp \in [File -> Stamp] /\ touched \in [File -> Commit]
      /\ edits \in 0 .. MaxEdits /\ aborts \in 0 .. MaxAborts /\ known \subseteq Commit
  BY SourceAssumption DEF Init, Stamp, Commit
<1>4. disk \in [File -> Content \union {Binary, Absent}] /\ db \in [File -> Doc \union {NoDoc}]
  BY DEF Init
<1>5. lock = None /\ dirty = File
  BY DEF Init
<1>6. QED
  BY <1>1, <1>2, <1>3, <1>4, <1>5 DEF TypeInv, TypeOK, Places, Holds, Busy

(* The steps of users and git: what they do to a job is its `clean`.       *)
LEMMA CleanType ==
    ASSUME NEW j \in Job, NEW S \in SUBSET File
    PROVE  LET k == [j EXCEPT !.clean = S] IN
           /\ k \in Job /\ k.pc = j.pc /\ k.repo = j.repo /\ k.file = j.file /\ k.text = j.text
           /\ k.open = j.open /\ k.view = j.view /\ k.behind = j.behind
           /\ k.listed = j.listed /\ k.via = j.via /\ k.todo = j.todo /\ k.clean = S
BY DEF Job

SameButClean ==
    \A p \in Process : \E S \in SUBSET File : job'[p] = [job[p] EXCEPT !.clean = S]

LEMMA CleanStep ==
    ASSUME TypeInv, job' \in [Process -> Job], SameButClean, UNCHANGED lock
    PROVE  /\ Places' /\ (lock # None => job[lock].open /\ ~job[lock].behind)'
           /\ \A p \in Process : /\ job'[p].pc = job[p].pc /\ job'[p].open = job[p].open
                                  /\ job'[p].view = job[p].view /\ job'[p].file = job[p].file
                                  /\ job'[p].text = job[p].text /\ job'[p].repo = job[p].repo
                                  /\ job'[p].behind = job[p].behind
                                  /\ job'[p].listed = job[p].listed /\ job'[p].via = job[p].via
                                  /\ job'[p].todo = job[p].todo
<1>1. ASSUME NEW p \in Process
      PROVE  /\ job'[p].pc = job[p].pc /\ job'[p].open = job[p].open /\ job'[p].view = job[p].view
             /\ job'[p].listed = job[p].listed /\ job'[p].via = job[p].via
             /\ job'[p].todo = job[p].todo
             /\ job'[p].file = job[p].file /\ job'[p].text = job[p].text
             /\ job'[p].repo = job[p].repo /\ job'[p].behind = job[p].behind
  <2>1. PICK S \in SUBSET File : job'[p] = [job[p] EXCEPT !.clean = S]
    BY DEF SameButClean
  <2>2. QED
    BY <2>1, CleanType DEF TypeInv, TypeOK
<1>2. Places'
  BY <1>1 DEF TypeInv, Places, Holds, Busy
<1>3. QED
  BY <1>1, <1>2 DEF TypeInv, TypeOK

LEMMA OutdateClean ==
    ASSUME TypeInv, NEW S \in SUBSET File, Outdate(S)
    PROVE  dirty' \subseteq File /\ job' \in [Process -> Job] /\ SameButClean
<1>1. ASSUME NEW p \in Process
      PROVE  /\ [job[p] EXCEPT !.clean = @ \ S] \in Job
             /\ \E T \in SUBSET File : [job[p] EXCEPT !.clean = @ \ S] = [job[p] EXCEPT !.clean = T]
  <2>1. job[p] \in Job /\ job[p].clean \ S \in SUBSET File
    BY DEF TypeInv, TypeOK, Job
  <2>2. QED
    BY <2>1, CleanType
<1>2. QED
  BY <1>1 DEF Outdate, SameButClean, TypeInv, TypeOK

LEMMA UserType ==
    ASSUME TypeInv, \/ \E f \in File : Edit(f) \/ Touch(f) \/ CommitFile(f) \/ Untrack(f)
                    \/ Absorb
    PROVE  TypeInv' /\ (SameButClean \/ UNCHANGED job) /\ UNCHANGED <<db, lock>>
<1> USE SourceAssumption
<1>1. ASSUME NEW f \in File, Edit(f) PROVE TypeInv' /\ SameButClean /\ UNCHANGED <<db, lock>>
  <2>1. disk' \in [File -> Content \union {Binary, Absent}] /\ stamp' \in [File -> Stamp]
    BY <1>1 DEF Edit, TypeInv, TypeOK, Stamp
  <2>2. job' \in [Process -> Job] /\ SameButClean
    <3>1. ASSUME NEW p \in Process
          PROVE  /\ job'[p] \in Job
                 /\ \E S \in SUBSET File : job'[p] = [job[p] EXCEPT !.clean = S]
      <4>1. job[p] \in Job /\ job[p].clean \in SUBSET File /\ job[p].clean \ {f} \in SUBSET File
        BY DEF TypeInv, TypeOK, Job
      <4>2. job[p] = [job[p] EXCEPT !.clean = job[p].clean]
        BY <4>1 DEF Job
      <4>3. job'[p] = IF f \in job[p].todo THEN job[p] ELSE [job[p] EXCEPT !.clean = @ \ {f}]
        BY <1>1 DEF Edit
      <4>4. [job[p] EXCEPT !.clean = @ \ {f}] \in Job
        BY <4>1, CleanType
      <4>5. QED
        BY <4>1, <4>2, <4>3, <4>4
    <3>2. DOMAIN job' = Process /\ job' = [p \in Process |-> job'[p]]
      BY <1>1 DEF Edit
    <3>3. QED
      BY <3>1, <3>2 DEF SameButClean
  <2>3. UNCHANGED <<live, owner, touched, event, known, db, lock, aborts>>
        /\ dirty' = dirty \union {f} /\ edits' \in 0 .. MaxEdits
    BY <1>1 DEF Edit, git, index, TypeInv, TypeOK
  <2>4. Places' /\ (lock # None => job[lock].open /\ ~job[lock].behind)'
    BY <2>2, <2>3, CleanStep
  <2>5. QED
    BY <2>1, <2>2, <2>3, <2>4 DEF TypeInv, TypeOK
<1>2. ASSUME NEW f \in File, Touch(f) PROVE TypeInv' /\ UNCHANGED job /\ UNCHANGED <<db, lock>>
  BY <1>2 DEF Touch, TypeInv, TypeOK, Stamp, Places, Holds, Busy, git, index
<1>3. ASSUME NEW f \in File, CommitFile(f) PROVE TypeInv' /\ SameButClean /\ UNCHANGED <<db, lock>>
  <2>1. dirty' \subseteq File /\ job' \in [Process -> Job] /\ SameButClean
    BY <1>3, OutdateClean DEF CommitFile
  <2>2. /\ UNCHANGED <<disk, stamp, live, known, db, lock, aborts>> /\ edits' \in 0 .. MaxEdits
        /\ owner' \in [File -> Repo \union {None}] /\ event' \subseteq Repo
        /\ touched' \in [File -> Commit]
    BY <1>3 DEF CommitFile, files, index, TypeInv, TypeOK, Repo, Commit
  <2>3. Places' /\ (lock # None => job[lock].open /\ ~job[lock].behind)'
    BY <2>1, <2>2, CleanStep
  <2>4. QED
    BY <2>1, <2>2, <2>3 DEF TypeInv, TypeOK
<1>4. ASSUME NEW f \in File, Untrack(f) PROVE TypeInv' /\ SameButClean /\ UNCHANGED <<db, lock>>
  <2>1. dirty' \subseteq File /\ job' \in [Process -> Job] /\ SameButClean
    BY <1>4, OutdateClean DEF Untrack
  <2>2. /\ UNCHANGED <<disk, stamp, live, touched, known, db, lock, aborts>> /\ edits' \in 0 .. MaxEdits
        /\ owner' \in [File -> Repo \union {None}] /\ event' \subseteq Repo
    BY <1>4 DEF Untrack, files, index, TypeInv, TypeOK
  <2>3. Places' /\ (lock # None => job[lock].open /\ ~job[lock].behind)'
    BY <2>1, <2>2, CleanStep
  <2>4. QED
    BY <2>1, <2>2, <2>3 DEF TypeInv, TypeOK
<1>5. ASSUME Absorb PROVE TypeInv' /\ SameButClean /\ UNCHANGED <<db, lock>>
  <2>1. dirty' \subseteq File /\ job' \in [Process -> Job] /\ SameButClean
    BY <1>5, OutdateClean DEF Absorb
  <2>2. /\ UNCHANGED <<disk, stamp, known, db, lock, aborts>> /\ edits' \in 0 .. MaxEdits
        /\ owner' \in [File -> Repo \union {None}] /\ event' \subseteq Repo /\ live' \subseteq Repo
        /\ touched' \in [File -> Commit]
    BY <1>5 DEF Absorb, files, index, TypeInv, TypeOK, Repo, Commit
  <2>3. Places' /\ (lock # None => job[lock].open /\ ~job[lock].behind)'
    BY <2>1, <2>2, CleanStep
  <2>4. QED
    BY <2>1, <2>2, <2>3 DEF TypeInv, TypeOK
<1>6. QED
  BY <1>1, <1>2, <1>3, <1>4, <1>5, SMTT(30)

--------------------------------------------------------------------------------
(* What a step of p does to the jobs, the database and the lock: p has a   *)
(* job of its type and the others are as they were or behind.              *)
OthersKeep(p) ==
    \A q \in Process \ {p} :
        /\ job'[q].pc = job[q].pc /\ job'[q].repo = job[q].repo /\ job'[q].file = job[q].file
        /\ job'[q].text = job[q].text /\ job'[q].open = job[q].open /\ job'[q].view = job[q].view
        /\ job'[q].listed = job[q].listed /\ job'[q].via = job[q].via
        /\ job'[q].todo = job[q].todo /\ job'[q].clean = job[q].clean
        /\ job'[q].behind = job[q].behind \/ lock' = None
        /\ job[q].behind => job'[q].behind

LEMMA AloneKeeps ==
    ASSUME TypeInv, NEW p \in Process, NEW rec \in Job, job' = [job EXCEPT ![p] = rec]
    PROVE  OthersKeep(p) /\ job' \in [Process -> Job] /\ job'[p] = rec
BY DEF OthersKeep, TypeInv, TypeOK

LEMMA CommitKeeps ==
    ASSUME TypeInv, NEW p \in Process, NEW rec \in Job,
           job' = Behind(p, [job EXCEPT ![p] = rec]), lock' = None
    PROVE  /\ OthersKeep(p) /\ job' \in [Process -> Job] /\ job'[p] = rec
           /\ \A q \in Process \ {p} : job[q].open => job'[q].behind
<1>1. [job EXCEPT ![p] = rec] \in [Process -> Job]
  BY DEF TypeInv, TypeOK
<1> DEFINE j == [job EXCEPT ![p] = rec]
<1>2. j[p] = rec /\ \A q \in Process \ {p} : j[q] = job[q]
  BY DEF TypeInv, TypeOK
<1> HIDE DEF j
<1>3. j \in [Process -> Job] /\ job' = Behind(p, j)
  BY <1>1 DEF j
<1>4. /\ Behind(p, j) \in [Process -> Job] /\ Behind(p, j)[p] = j[p]
      /\ \A q \in Process :
            /\ Behind(p, j)[q].pc = j[q].pc /\ Behind(p, j)[q].repo = j[q].repo
            /\ Behind(p, j)[q].file = j[q].file /\ Behind(p, j)[q].text = j[q].text
            /\ Behind(p, j)[q].open = j[q].open /\ Behind(p, j)[q].view = j[q].view
            /\ Behind(p, j)[q].listed = j[q].listed /\ Behind(p, j)[q].via = j[q].via
            /\ Behind(p, j)[q].todo = j[q].todo /\ Behind(p, j)[q].clean = j[q].clean
            /\ j[q].behind => Behind(p, j)[q].behind
            /\ q # p /\ j[q].open => Behind(p, j)[q].behind
  BY <1>3, BehindType
<1>5. ASSUME NEW q \in Process \ {p}
      PROVE  /\ job'[q].pc = job[q].pc /\ job'[q].repo = job[q].repo
             /\ job'[q].file = job[q].file /\ job'[q].text = job[q].text
             /\ job'[q].open = job[q].open /\ job'[q].view = job[q].view
             /\ job'[q].listed = job[q].listed /\ job'[q].via = job[q].via
             /\ job'[q].todo = job[q].todo /\ job'[q].clean = job[q].clean
             /\ job[q].behind => job'[q].behind
             /\ job[q].open => job'[q].behind
  <2>1. j[q] = job[q] /\ q # p
    BY <1>2
  <2>2. QED
    BY <1>3, <1>4, <2>1
<1>6. OthersKeep(p)
  BY <1>5 DEF OthersKeep
<1>7. QED
  BY <1>2, <1>3, <1>4, <1>5, <1>6

(* A query opens on the latest commit or waits for the one under way.      *)
LEMMA LockStep ==
    ASSUME TypeInv, NEW p \in Process, OthersKeep(p),
           \/ lock' = None
           \/ lock' = lock /\ (lock = p => job'[p].open /\ job'[p].behind = job[p].behind)
           \/ lock' = p /\ job'[p].open /\ ~job'[p].behind
    PROVE  lock' \in Process \union {None} /\ (lock # None => job[lock].open /\ ~job[lock].behind)'
<1>1. lock \in Process \union {None} /\ (lock # None => job[lock].open /\ ~job[lock].behind)
  BY DEF TypeInv, TypeOK
<1>2. CASE lock' = None
  BY <1>2
<1>3. CASE lock' = p /\ job'[p].open /\ ~job'[p].behind
  BY <1>3
<1>4. CASE lock' = lock /\ lock # None /\ (lock = p => job'[p].open /\ job'[p].behind = job[p].behind)
  <2>1. CASE lock = p
    BY <1>1, <1>4, <2>1
  <2>2. CASE lock # p
    BY <1>1, <1>4, <2>2 DEF OthersKeep
  <2>3. QED
    BY <2>1, <2>2
<1>5. QED
  BY <1>2, <1>3, <1>4

LEMMA PlacesStep ==
    ASSUME TypeInv, NEW p \in Process, OthersKeep(p),
           Busy(p)' => job'[p].repo \in Repo, Holds(p)'
    PROVE  Places'
BY DEF TypeInv, Places, OthersKeep, Busy, Holds

LEMMA BeginType ==
    ASSUME TypeInv, NEW p \in Process, NEW r \in Repo, Begin(p, r)
    PROVE  /\ TypeInv' /\ OthersKeep(p) /\ UNCHANGED <<db, files, edits>>
           /\ job'[p].pc = "list" /\ job'[p].open = FALSE /\ job'[p].clean = {}
<1> DEFINE rec == [Idle EXCEPT !.pc = "list", !.repo = r]
<1>1. rec \in Job /\ rec.pc = "list" /\ rec.repo = r /\ rec.open = FALSE /\ rec.clean = {}
  BY IdleType DEF Job
<1>2. job' = Behind(p, [job EXCEPT ![p] = rec]) /\ lock = None /\ lock' = None
  BY DEF Begin
<1> HIDE DEF rec
<1>3. OthersKeep(p) /\ job' \in [Process -> Job] /\ job'[p] = rec
  BY <1>1, <1>2, CommitKeeps
<1>4. /\ UNCHANGED <<disk, stamp, live, owner, touched, db, dirty, edits, aborts>>
      /\ event' \subseteq Repo /\ known' \subseteq Commit
  BY DEF Begin, files, git, bounds, TypeInv, TypeOK
<1>5. Places'
  BY <1>1, <1>3, PlacesStep DEF Holds
<1>6. QED
  BY <1>1, <1>2, <1>3, <1>4, <1>5 DEF TypeInv, TypeOK, files

LEMMA ListType ==
    ASSUME TypeInv, NEW p \in Process, List(p)
    PROVE  /\ TypeInv' /\ OthersKeep(p) /\ UNCHANGED <<db, files, edits>>
           /\ job'[p].pc = "files" /\ job'[p].open = job[p].open /\ job'[p].view = job[p].view
           /\ job'[p].behind = job[p].behind /\ job'[p].repo = job[p].repo
           /\ job'[p].todo = job'[p].listed
           /\ \A f \in job'[p].listed :
                 f \in File /\ owner[f] = job[p].repo /\ job'[p].via[f] = touched[f]
           /\ \A f \in job'[p].clean \ job'[p].listed :
                 /\ owner[f] = None /\ f \in Under(job[p].repo)
                 /\ ~BelongsToNestedRepo(job[p].repo, f)
           /\ UNCHANGED <<git, dirty, lock>>
<1> DEFINE tracked == {f \in File : owner[f] = job[p].repo}
           lost == {f \in Under(job[p].repo) :
                      owner[f] = None /\ ~BelongsToNestedRepo(job[p].repo, f)}
           via == [f \in File |-> IF f \in tracked THEN touched[f] ELSE 0]
           rec == [job[p] EXCEPT !.pc = "files", !.listed = tracked, !.todo = tracked,
                                 !.via = via, !.clean = tracked \union lost]
<1>1. tracked \subseteq File /\ lost \subseteq File
  BY SourceAssumption DEF Under
<1>l. /\ \A f \in tracked : f \in File /\ owner[f] = job[p].repo /\ via[f] = touched[f]
      /\ \A f \in lost : /\ owner[f] = None /\ f \in Under(job[p].repo)
                          /\ ~BelongsToNestedRepo(job[p].repo, f)
  OBVIOUS
<1>2. via \in [File -> Commit]
  BY SourceAssumption DEF TypeInv, TypeOK, Commit
<1>3. job[p] \in Job /\ job[p].repo \in Repo
  BY DEF TypeInv, TypeOK, Places, List, Busy
<1>4. job' = [job EXCEPT ![p] = rec]
  BY Zenon DEF List
<1> HIDE DEF tracked, lost, via
<1>5. /\ rec \in Job /\ rec.pc = "files" /\ rec.repo = job[p].repo /\ rec.open = job[p].open
      /\ rec.view = job[p].view /\ rec.behind = job[p].behind /\ rec.listed = tracked
      /\ rec.todo = tracked /\ rec.via = via /\ rec.clean = tracked \union lost
  BY <1>1, <1>2, <1>3 DEF Job
<1> HIDE DEF rec
<1>6. OthersKeep(p) /\ job' \in [Process -> Job] /\ job'[p] = rec
  BY <1>4, <1>5, AloneKeeps
<1>7. UNCHANGED <<disk, stamp, live, owner, touched, event, known, db, lock, dirty, edits, aborts>>
  BY DEF List, files, git, index, bounds
<1>8. Places'
  BY <1>3, <1>5, <1>6, PlacesStep DEF Holds
<1>9. (lock # None => job[lock].open /\ ~job[lock].behind)'
  BY <1>5, <1>6, <1>7, LockStep DEF TypeInv, TypeOK
<1>10. TypeInv'
  BY <1>5, <1>6, <1>7, <1>8, <1>9 DEF TypeInv, TypeOK
<1>11. QED
  BY <1>l, <1>5, <1>6, <1>7, <1>10 DEF files, git

LEMMA ReadType ==
    ASSUME TypeInv, NEW p \in Process, NEW f \in File, Read(p, f)
    PROVE  /\ TypeInv' /\ OthersKeep(p) /\ UNCHANGED <<db, files, edits>>
           /\ job'[p].open = job[p].open /\ job'[p].view = job[p].view
           /\ job'[p].behind = job[p].behind
           /\ job'[p].pc = "stat" => job'[p].file = f /\ job'[p].text = disk[f]
           /\ job[p].pc = "files" /\ (disk[f] \in Content => job'[p].pc = "stat")
           /\ job'[p].repo = job[p].repo /\ job'[p].listed = job[p].listed
           /\ job'[p].via = job[p].via /\ job'[p].clean = job[p].clean
           /\ job'[p].todo = job[p].todo \ {f}
           /\ UNCHANGED <<git, dirty, lock>>
<1> DEFINE read == [job[p] EXCEPT !.pc = "stat", !.file = f, !.text = disk[f], !.todo = @ \ {f}]
           skip == [job[p] EXCEPT !.todo = @ \ {f}]
<1>1. job[p] \in Job /\ job[p].repo \in Repo /\ job[p].pc = "files"
  BY DEF TypeInv, TypeOK, Places, Read, Busy
<1>2. /\ disk[f] \in Content => read \in Job
      /\ read.pc = "stat" /\ read.file = f /\ read.text = disk[f] /\ read.repo = job[p].repo
      /\ read.open = job[p].open /\ read.view = job[p].view /\ read.behind = job[p].behind
      /\ read.listed = job[p].listed /\ read.via = job[p].via /\ read.clean = job[p].clean
      /\ read.todo = job[p].todo \ {f}
  BY <1>1 DEF Job
<1>3. /\ skip \in Job /\ skip.pc = "files" /\ skip.repo = job[p].repo
      /\ skip.open = job[p].open /\ skip.view = job[p].view /\ skip.behind = job[p].behind
      /\ skip.listed = job[p].listed /\ skip.via = job[p].via /\ skip.clean = job[p].clean
      /\ skip.todo = job[p].todo \ {f}
  BY <1>1 DEF Job
<1>4. \/ disk[f] \in Content /\ job' = [job EXCEPT ![p] = read]
      \/ disk[f] \notin Content /\ job' = [job EXCEPT ![p] = skip]
  BY Zenon DEF Read
<1> HIDE DEF read, skip
<1>5. OthersKeep(p) /\ job' \in [Process -> Job]
      /\ \/ disk[f] \notin Content /\ job'[p] = skip
         \/ disk[f] \in Content /\ job'[p] = read
  BY <1>2, <1>3, <1>4, AloneKeeps
<1>6. UNCHANGED <<disk, stamp, live, owner, touched, event, known, db, lock, dirty, edits, aborts>>
  BY DEF Read, files, git, index, bounds
<1>7. Places'
  BY <1>1, <1>2, <1>3, <1>5, PlacesStep DEF Holds
<1>8. (lock # None => job[lock].open /\ ~job[lock].behind)'
  BY <1>2, <1>3, <1>5, <1>6, LockStep DEF TypeInv, TypeOK
<1>9. TypeInv'
  BY <1>2, <1>3, <1>5, <1>6, <1>7, <1>8 DEF TypeInv, TypeOK
<1>10. QED
  BY <1>1, <1>2, <1>3, <1>5, <1>6, <1>9 DEF files, git

(* The row a pass leaves for the file it holds                             *)
LEMMA StoreType ==
    ASSUME TypeInv, NEW p \in Process, Store(p)
    PROVE  /\ TypeInv' /\ OthersKeep(p) /\ UNCHANGED <<db, files, edits>>
           /\ job[p].pc = "stat" /\ job'[p].pc = "files" /\ job'[p].open
           /\ job'[p].behind = job[p].behind
           /\ job'[p].repo = job[p].repo /\ job'[p].listed = job[p].listed
           /\ job'[p].via = job[p].via /\ job'[p].todo = job[p].todo
           /\ job'[p].clean \subseteq job[p].clean
           /\ UNCHANGED <<git, dirty>>
           /\ \/ lock \in {None, p} /\ lock' = p
              \/ lock' = lock /\ job'[p].view = ViewOf(p)
           /\ \E c \in Commit \union {None} :
                 LET f == job[p].file
                     doc == ViewOf(p)[f]
                     new == IF Unchanged(doc, job[p].text)
                            THEN Refreshed(doc, FileMtime(f), c)
                            ELSE Rewritten(doc, job[p].text, FileMtime(f), job[p].repo, c)
                 IN  /\ job'[p].view = [ViewOf(p) EXCEPT ![f] = new]
                     /\ f \in job'[p].clean => c = job[p].via[f]
<1> DEFINE f == job[p].file
           doc == ViewOf(p)[f]
           c == IF job[p].via[f] \in CommitsOf(p) THEN job[p].via[f] ELSE None
           new == IF Unchanged(doc, job[p].text)
                  THEN Refreshed(doc, FileMtime(f), c)
                  ELSE Rewritten(doc, job[p].text, FileMtime(f), job[p].repo, c)
           view == [ViewOf(p) EXCEPT ![f] = new]
           clean == IF c = None THEN job[p].clean \ {f} ELSE job[p].clean
           rec == [job[p] EXCEPT !.pc = "files", !.file = None, !.text = {}, !.open = TRUE,
                                 !.commits = CommitsOf(p), !.view = view, !.clean = clean]
<1>1. job[p] \in Job /\ job[p].repo \in Repo /\ f \in File /\ job[p].text \in Content /\ job[p].pc = "stat"
  BY DEF TypeInv, TypeOK, Places, Holds, Store, Busy
<1>2. ViewOf(p) \in [File -> Doc \union {NoDoc}] /\ CommitsOf(p) \subseteq Commit
  BY ViewType DEF TypeInv
<1>3. doc \in Doc \union {NoDoc} /\ c \in Commit \union {None}
  BY <1>1, <1>2
<1>4. FileMtime(f) \in Stamp
  BY <1>1, SourceAssumption DEF FileMtime, TypeInv, TypeOK, Stamp
<1>5. new \in Doc
  BY <1>1, <1>3, <1>4, NewType DEF Unchanged
<1>6. view \in [File -> Doc \union {NoDoc}]
  BY <1>1, <1>2, <1>5
<1>7. clean \subseteq File /\ clean \subseteq job[p].clean /\ (f \in clean => c = job[p].via[f])
  BY <1>1 DEF Job
<1>v. new = doc => view = ViewOf(p)
  BY <1>1, <1>2
<1>8. /\ job' = [job EXCEPT ![p] = rec]
      /\ (new # doc => MayWrite(p)) /\ lock' = IF new # doc THEN p ELSE lock
  BY Zenon DEF Store
<1> HIDE DEF view, clean, new, c
<1>9. /\ rec \in Job /\ rec.pc = "files" /\ rec.repo = job[p].repo /\ rec.open = TRUE
      /\ rec.view = view /\ rec.behind = job[p].behind /\ rec.listed = job[p].listed
      /\ rec.via = job[p].via /\ rec.todo = job[p].todo /\ rec.clean = clean
  BY <1>1, <1>2, <1>6, <1>7 DEF Job
<1> HIDE DEF rec
<1>10. OthersKeep(p) /\ job' \in [Process -> Job] /\ job'[p] = rec
  BY <1>8, <1>9, AloneKeeps
<1>11. UNCHANGED <<disk, stamp, live, owner, touched, event, known, db, dirty, edits, aborts>>
  BY DEF Store, files, git, bounds
<1>12. Places'
  BY <1>1, <1>9, <1>10, PlacesStep DEF Holds
<1>13. lock' \in Process \union {None} /\ (lock # None => job[lock].open /\ ~job[lock].behind)'
  <2>1. \/ lock' = lock /\ (lock = p => job'[p].open /\ job'[p].behind = job[p].behind)
        \/ lock' = p /\ job'[p].open /\ ~job'[p].behind
    BY <1>8, <1>9, <1>10 DEF MayWrite
  <2>2. QED
    BY <1>10, <2>1, LockStep
<1>14. TypeInv'
  BY <1>10, <1>11, <1>12, <1>13 DEF TypeInv, TypeOK
<1>15. /\ job'[p].view = view /\ (f \in job'[p].clean => c = job[p].via[f])
       /\ job'[p].clean \subseteq job[p].clean
       /\ \/ lock \in {None, p} /\ lock' = p
          \/ lock' = lock /\ job'[p].view = ViewOf(p)
  BY <1>7, <1>v, <1>8, <1>9, <1>10 DEF MayWrite
<1>16. \E d \in Commit \union {None} :
          LET n == IF Unchanged(doc, job[p].text)
                   THEN Refreshed(doc, FileMtime(f), d)
                   ELSE Rewritten(doc, job[p].text, FileMtime(f), job[p].repo, d)
          IN  /\ job'[p].view = [ViewOf(p) EXCEPT ![f] = n]
              /\ f \in job'[p].clean => d = job[p].via[f]
  BY <1>3, <1>15 DEF view, new
<1>17. QED
  BY <1>1, <1>9, <1>10, <1>11, <1>14, <1>15, <1>16 DEF files, git

LEMMA FinishType ==
    ASSUME TypeInv, NEW p \in Process, Finish(p)
    PROVE  /\ TypeInv' /\ OthersKeep(p) /\ UNCHANGED <<files, edits>> /\ job'[p] = Idle
           /\ \/ UNCHANGED <<db, lock>> /\ Pruned(p) = {} /\ lock # p
              \/ /\ db' = [f \in File |-> IF f \in Pruned(p) THEN NoDoc ELSE ViewOf(p)[f]]
                 /\ ~job[p].behind /\ \A q \in Process \ {p} : job'[q].open => job'[q].behind
<1>1. Idle \in Job /\ Idle.pc = "idle"
  BY IdleType
<1>2. \/ /\ job' = Behind(p, [job EXCEPT ![p] = Idle]) /\ lock' = None
         /\ db' = [f \in File |-> IF f \in Pruned(p) THEN NoDoc ELSE ViewOf(p)[f]]
         /\ Pruned(p) # {} \/ lock = p
         /\ Pruned(p) # {} => ~job[p].behind
      \/ /\ job' = [job EXCEPT ![p] = Idle] /\ UNCHANGED <<db, lock>>
         /\ Pruned(p) = {} /\ lock # p
  BY DEF Finish, MayWrite
<1>3. OthersKeep(p) /\ job' \in [Process -> Job] /\ job'[p] = Idle
  BY <1>1, <1>2, AloneKeeps, CommitKeeps
<1>b. \/ UNCHANGED <<db, lock>> /\ Pruned(p) = {} /\ lock # p
      \/ /\ db' = [f \in File |-> IF f \in Pruned(p) THEN NoDoc ELSE ViewOf(p)[f]]
         /\ ~job[p].behind /\ \A q \in Process \ {p} : job'[q].open => job'[q].behind
  <2>1. CASE UNCHANGED <<db, lock>> /\ Pruned(p) = {} /\ lock # p
    BY <2>1
  <2>2. CASE job' = Behind(p, [job EXCEPT ![p] = Idle]) /\ lock' = None
    <3>1. \A q \in Process \ {p} : job'[q].open => job'[q].behind
      BY <1>1, <2>2, CommitKeeps DEF OthersKeep
    <3>2. lock = p => ~job[p].behind
      BY SourceAssumption DEF TypeInv, TypeOK
    <3>3. QED
      BY <1>2, <3>1, <3>2
  <2>3. QED
    BY <1>2, <2>1, <2>2
<1>4. ViewOf(p) \in [File -> Doc \union {NoDoc}] /\ job[p].clean \subseteq File
  BY ViewType DEF TypeInv, TypeOK, Job
<1>5. UNCHANGED <<disk, stamp, live, owner, touched, event, known, edits, aborts>> /\ dirty' \subseteq File
  BY <1>4 DEF Finish, files, git, bounds, TypeInv, TypeOK
<1>6. db' \in [File -> Doc \union {NoDoc}]
  BY <1>2, <1>4 DEF TypeInv, TypeOK
<1>7. Places'
  BY <1>1, <1>3, PlacesStep DEF Busy, Holds
<1>8. lock' \in Process \union {None} /\ (lock # None => job[lock].open /\ ~job[lock].behind)'
  <2>1. lock' = None \/ (lock' = lock /\ (lock = p => job'[p].open /\ job'[p].behind = job[p].behind))
    BY <1>2
  <2>2. QED
    BY <1>3, <2>1, LockStep
<1>9. QED
  BY <1>3, <1>5, <1>6, <1>7, <1>8, <1>b DEF TypeInv, TypeOK, files

LEMMA FailType ==
    ASSUME TypeInv, NEW p \in Process, Fail(p)
    PROVE  TypeInv' /\ OthersKeep(p) /\ UNCHANGED <<db, files, edits>> /\ job'[p] = Idle
<1>1. Idle \in Job /\ Idle.pc = "idle"
  BY IdleType
<1>2. job' = [job EXCEPT ![p] = Idle] /\ (lock' = None \/ (lock' = lock /\ lock # p))
  BY DEF Fail
<1>3. OthersKeep(p) /\ job' \in [Process -> Job] /\ job'[p] = Idle
  BY <1>1, <1>2, AloneKeeps
<1>4. UNCHANGED <<disk, stamp, live, owner, touched, event, known, db, dirty, edits>>
      /\ aborts' \in 0 .. MaxAborts
  BY SourceAssumption DEF Fail, files, git, TypeInv, TypeOK
<1>5. Places'
  BY <1>1, <1>3, PlacesStep DEF Busy, Holds
<1>6. lock' \in Process \union {None} /\ (lock # None => job[lock].open /\ ~job[lock].behind)'
  BY <1>2, <1>3, LockStep
<1>7. QED
  BY <1>3, <1>4, <1>5, <1>6 DEF TypeInv, TypeOK, files

LEMMA TypeStep == TypeInv /\ [Next]_vars => TypeInv'
<1> SUFFICES ASSUME TypeInv, [Next]_vars PROVE TypeInv'
  OBVIOUS
<1>1. CASE (\E f \in File : Edit(f) \/ Touch(f) \/ CommitFile(f) \/ Untrack(f)) \/ Absorb
  BY <1>1, UserType
<1>2. ASSUME NEW p \in Process, (\E r \in Repo : Begin(p, r)) \/ Step(p) \/ Fail(p) PROVE TypeInv'
  BY <1>2, BeginType, ListType, ReadType, StoreType, FinishType, FailType DEF Step
<1>3. CASE UNCHANGED vars
  BY <1>3 DEF vars, files, git, index, bounds, TypeInv, TypeOK, Places, Holds, Busy
<1>4. QED
  BY <1>1, <1>2, <1>3 DEF Next

(* Types hold, and the write lock is held by a process in its transaction  *)
(* whose snapshot is the latest.                                           *)
THEOREM TypeCorrect == Spec => []TypeOK
<1>1. TypeInv => TypeOK
  BY DEF TypeInv
<1>2. QED
  BY <1>1, TypeInit, TypeStep, PTL DEF Spec

--------------------------------------------------------------------------------
(* Why a query never meets a half-indexed file: neither does a transaction,*)
(* whatever it has read.                                                   *)
WholeDoc(doc) == doc # NoDoc => doc.chunks = doc.hash /\ doc.hits = doc.hash

WholeViews == \A p \in Process : job[p].open => \A f \in File : WholeDoc(job[p].view[f])

WholeInv == TypeInv /\ Whole /\ WholeViews

LEMMA NewWhole ==
    ASSUME NEW doc \in Doc \union {NoDoc}, WholeDoc(doc), NEW text, NEW mtime, NEW r, NEW c
    PROVE  /\ WholeDoc(Rewritten(doc, text, mtime, r, c))
           /\ Unchanged(doc, text) => WholeDoc(Refreshed(doc, mtime, c))
<1>1. WholeDoc(Rewritten(doc, text, mtime, r, c))
  BY DEF WholeDoc, Rewritten, WipeAndInsert
<1>2. ASSUME doc # NoDoc PROVE WholeDoc(Refreshed(doc, mtime, c))
  <2>1. doc \in Doc
    BY <1>2
  <2>2. /\ Refreshed(doc, mtime, c).chunks = doc.chunks /\ Refreshed(doc, mtime, c).hits = doc.hits
        /\ Refreshed(doc, mtime, c).hash = doc.hash
    BY <2>1 DEF Refreshed, Doc
  <2>3. QED
    BY <1>2, <2>2 DEF WholeDoc
<1>3. QED
  BY <1>1, <1>2 DEF Unchanged

LEMMA WholeStep == WholeInv /\ [Next]_vars => WholeInv'
<1> SUFFICES ASSUME WholeInv, [Next]_vars PROVE Whole' /\ WholeViews'
  BY TypeStep DEF WholeInv
<1>t. TypeInv /\ \A f \in File : WholeDoc(db[f])
  BY DEF WholeInv, Whole, WholeDoc
<1>v. ASSUME NEW p \in Process, NEW f \in File PROVE WholeDoc(ViewOf(p)[f])
  BY <1>t DEF ViewOf, WholeInv, WholeViews
<1>k. ASSUME NEW p \in Process, OthersKeep(p), UNCHANGED db,
             job'[p].open => job[p].open /\ job'[p].view = job[p].view
      PROVE  Whole' /\ WholeViews'
  BY <1>k DEF WholeInv, Whole, WholeViews, OthersKeep
<1>1. CASE (\E f \in File : Edit(f) \/ Touch(f) \/ CommitFile(f) \/ Untrack(f)) \/ Absorb
  <2>1. (SameButClean \/ UNCHANGED job) /\ TypeInv' /\ UNCHANGED <<db, lock>>
    BY <1>1, <1>t, UserType
  <2>2. CASE UNCHANGED job
    BY <2>1, <2>2 DEF WholeInv, Whole, WholeViews
  <2>3. CASE SameButClean
    <3>1. \A p \in Process : job'[p].open = job[p].open /\ job'[p].view = job[p].view
      BY <1>t, <2>1, <2>3, CleanStep DEF TypeInv, TypeOK
    <3>2. QED
      BY <2>1, <3>1 DEF WholeInv, Whole, WholeViews
  <2>4. QED
    BY <2>1, <2>2, <2>3
<1>2. ASSUME NEW p \in Process, \E r \in Repo : Begin(p, r) PROVE Whole' /\ WholeViews'
  BY <1>2, <1>t, <1>k, BeginType
<1>3. ASSUME NEW p \in Process, List(p) PROVE Whole' /\ WholeViews'
  BY <1>3, <1>t, <1>k, ListType
<1>4. ASSUME NEW p \in Process, NEW f \in File, Read(p, f) PROVE Whole' /\ WholeViews'
  BY <1>4, <1>t, <1>k, ReadType
<1>5. ASSUME NEW p \in Process, Store(p) PROVE Whole' /\ WholeViews'
  <2> DEFINE f == job[p].file
             doc == ViewOf(p)[f]
             new(c) == IF Unchanged(doc, job[p].text)
                       THEN Refreshed(doc, FileMtime(f), c)
                       ELSE Rewritten(doc, job[p].text, FileMtime(f), job[p].repo, c)
  <2>1. OthersKeep(p) /\ UNCHANGED db /\ job[p].pc = "stat"
    BY <1>5, <1>t, StoreType
  <2>2. PICK c \in Commit \union {None} : job'[p].view = [ViewOf(p) EXCEPT ![f] = new(c)]
    BY <1>5, <1>t, StoreType
  <2>3. f \in File /\ ViewOf(p) \in [File -> Doc \union {NoDoc}]
    BY <1>t, <2>1, ViewType DEF TypeInv, Places, Holds
  <2>4. WholeDoc(new(c))
    BY <1>v, <2>3, NewWhole
  <2> HIDE DEF new
  <2>5. \A g \in File : WholeDoc(job'[p].view[g])
    BY <1>v, <2>2, <2>3, <2>4
  <2>6. QED
    BY <2>1, <2>5 DEF WholeInv, Whole, WholeViews, OthersKeep
<1>6. ASSUME NEW p \in Process, Finish(p) PROVE Whole' /\ WholeViews'
  <2>1. /\ OthersKeep(p) /\ job'[p] = Idle
        /\ \/ UNCHANGED db
           \/ db' = [f \in File |-> IF f \in Pruned(p) THEN NoDoc ELSE ViewOf(p)[f]]
    BY <1>6, <1>t, FinishType
  <2>2. \A f \in File : WholeDoc(db'[f])
    BY <1>t, <1>v, <2>1 DEF WholeDoc
  <2>3. QED
    BY <2>1, <2>2, IdleType DEF WholeInv, Whole, WholeViews, WholeDoc, OthersKeep
<1>7. ASSUME NEW p \in Process, Fail(p) PROVE Whole' /\ WholeViews'
  BY <1>7, <1>t, <1>k, FailType, IdleType
<1>8. CASE UNCHANGED vars
  BY <1>8 DEF vars, index, WholeInv, Whole, WholeViews
<1>9. QED
  BY <1>1, <1>2, <1>3, <1>4, <1>5, <1>6, <1>7, <1>8 DEF Next, Step

(* Whatever passes overlap, fail and meet: the chunks and the search rows  *)
(* of a file are those of one content (index_source_repo).                 *)
THEOREM NeverHalfIndexed == Spec => []Whole
<1>1. Init => WholeInv
  BY TypeInit, IdleType DEF Init, WholeInv, Whole, WholeViews
<1>2. WholeInv => Whole
  BY DEF WholeInv
<1>3. QED
  BY <1>1, <1>2, WholeStep, PTL DEF Spec

--------------------------------------------------------------------------------
(* Why a verified hit is the file's text: a modification time that a row   *)
(* or a transaction holds is older than any change to come, and where it is*)
(* the file's, so is the text.                                             *)

(* A change to a file takes a second of its own and does not fall between  *)
(* a pass's read of it and the modification time it then asks for.         *)
Discernible == "midRead" \notin Disturb /\ "sameSecond" \notin Disturb

GateDoc(f, doc) ==
    doc # NoDoc => doc.stamp <= 1 + edits /\ (doc.stamp = stamp[f] => doc.hash = disk[f])

GateViews == \A p \in Process : job[p].open => \A f \in File : GateDoc(f, job[p].view[f])

GateReads == \A p \in Process : job[p].pc = "stat" => job[p].text = disk[job[p].file]

Gate ==
    /\ \A f \in File : stamp[f] \in 1 .. 1 + edits /\ GateDoc(f, db[f])
    /\ GateViews /\ GateReads

GateInv == WholeInv /\ Gate

LEMMA UserGate ==
    ASSUME Discernible, TypeInv,
           (\E f \in File : Edit(f) \/ Touch(f) \/ CommitFile(f) \/ Untrack(f)) \/ Absorb
    PROVE  /\ edits' = edits + 1
           /\ \A f \in File :
                \/ disk'[f] = disk[f] /\ stamp'[f] = stamp[f]
                \/ stamp'[f] = 2 + edits /\ (disk'[f] = disk[f] \/ ~BeingRead(f))
<1>1. ASSUME NEW f \in File, Edit(f)
      PROVE  edits' = edits + 1 /\ ~BeingRead(f) /\ stamp' = [stamp EXCEPT ![f] = 2 + edits]
             /\ \E c : disk' = [disk EXCEPT ![f] = c]
  BY <1>1 DEF Edit, Discernible
<1>2. ASSUME NEW f \in File, Touch(f)
      PROVE  edits' = edits + 1 /\ stamp' = [stamp EXCEPT ![f] = 2 + edits] /\ disk' = disk
  BY <1>2 DEF Touch
<1>3. ASSUME (\E f \in File : CommitFile(f) \/ Untrack(f)) \/ Absorb
      PROVE  edits' = edits + 1 /\ disk' = disk /\ stamp' = stamp
  BY <1>3 DEF CommitFile, Untrack, Absorb, files
<1>4. disk \in [File -> Content \union {Binary, Absent}] /\ stamp \in [File -> Stamp]
  BY DEF TypeInv, TypeOK
<1>5. CASE \E f \in File : Edit(f)
  <2>1. PICK f \in File : Edit(f)
    BY <1>5
  <2>2. \A g \in File \ {f} : disk'[g] = disk[g] /\ stamp'[g] = stamp[g]
    BY <1>1, <1>4, <2>1
  <2>3. stamp'[f] = 2 + edits /\ ~BeingRead(f) /\ edits' = edits + 1
    BY <1>1, <1>4, <2>1
  <2>4. QED
    BY <2>2, <2>3
<1>6. CASE \E f \in File : Touch(f)
  BY <1>2, <1>4, <1>6
<1>7. QED
  BY <1>3, <1>5, <1>6

(* A row made of what was read, and an unchanged one, say so.              *)
LEMMA NewGate ==
    ASSUME TypeInv, Gate, NEW f \in File, NEW doc \in Doc \union {NoDoc}, GateDoc(f, doc),
           disk[f] \in Content, NEW r, NEW c
    PROVE  /\ GateDoc(f, Rewritten(doc, disk[f], FileMtime(f), r, c))
           /\ Unchanged(doc, disk[f]) => GateDoc(f, Refreshed(doc, FileMtime(f), c))
<1>1. FileMtime(f) = stamp[f] /\ stamp[f] <= 1 + edits
  BY SourceAssumption DEF FileMtime, Gate
<1>2. GateDoc(f, Rewritten(doc, disk[f], FileMtime(f), r, c))
  BY <1>1 DEF GateDoc, Rewritten
<1>3. ASSUME doc # NoDoc, doc.hash = disk[f] PROVE GateDoc(f, Refreshed(doc, FileMtime(f), c))
  <2>1. doc \in Doc
    BY <1>3
  <2>2. Refreshed(doc, FileMtime(f), c).stamp = FileMtime(f) /\ Refreshed(doc, FileMtime(f), c).hash = doc.hash
    BY <2>1 DEF Refreshed, Doc
  <2>3. QED
    BY <1>1, <1>3, <2>2 DEF GateDoc
<1>4. QED
  BY <1>2, <1>3 DEF Unchanged

LEMMA GateStep ==
    ASSUME Discernible
    PROVE  GateInv /\ [Next]_vars => GateInv'
<1> SUFFICES ASSUME GateInv, [Next]_vars PROVE Gate'
  BY WholeStep DEF GateInv
<1>t. TypeInv /\ Gate /\ edits \in Nat
  BY SourceAssumption DEF GateInv, WholeInv, TypeInv, TypeOK
<1>v. ASSUME NEW p \in Process, NEW f \in File PROVE GateDoc(f, ViewOf(p)[f])
  BY <1>t DEF ViewOf, Gate, GateViews
<1>k. ASSUME NEW p \in Process, OthersKeep(p), UNCHANGED <<files, edits>>,
             \A f \in File : GateDoc(f, db'[f]),
             job'[p].open => \A f \in File : GateDoc(f, job'[p].view[f]),
             job'[p].pc = "stat" => job'[p].text = disk[job'[p].file]
      PROVE  Gate'
  <2>1. UNCHANGED <<disk, stamp, edits>>
    BY <1>k DEF files
  <2>2. GateViews'
    BY <1>k, <1>t, <2>1 DEF GateDoc, Gate, GateViews, OthersKeep
  <2>3. GateReads'
    BY <1>k, <1>t, <2>1 DEF Gate, GateReads, OthersKeep
  <2>4. QED
    BY <1>k, <1>t, <2>1, <2>2, <2>3 DEF Gate, GateDoc
<1>d. \A f \in File : GateDoc(f, db[f])
  BY <1>t DEF Gate
<1>o. ASSUME NEW p \in Process PROVE job[p].open => \A f \in File : GateDoc(f, job[p].view[f])
  BY <1>t DEF Gate, GateViews
<1>1. CASE (\E f \in File : Edit(f) \/ Touch(f) \/ CommitFile(f) \/ Untrack(f)) \/ Absorb
  <2>1. (SameButClean \/ UNCHANGED job) /\ TypeInv' /\ UNCHANGED <<db, lock>>
    BY <1>1, <1>t, UserType
  <2>2. \A p \in Process : /\ job'[p].pc = job[p].pc /\ job'[p].open = job[p].open
                           /\ job'[p].view = job[p].view /\ job'[p].file = job[p].file
                           /\ job'[p].text = job[p].text
    BY <1>t, <2>1, CleanStep DEF TypeInv, TypeOK
  <2>3. /\ edits' = edits + 1
        /\ \A f \in File :
             \/ disk'[f] = disk[f] /\ stamp'[f] = stamp[f]
             \/ stamp'[f] = 2 + edits /\ (disk'[f] = disk[f] \/ ~BeingRead(f))
    BY <1>1, <1>t, UserGate
  <2>4. ASSUME NEW f \in File, NEW doc \in Doc \union {NoDoc}, GateDoc(f, doc)
        PROVE  doc # NoDoc => doc.stamp <= 1 + edits' /\ (doc.stamp = stamp'[f] => doc.hash = disk'[f])
    <3>1. ASSUME doc # NoDoc PROVE doc.stamp \in Nat
      BY <3>1, SourceAssumption DEF Doc, Stamp
    <3>2. QED
      BY <1>t, <2>3, <2>4, <3>1 DEF GateDoc
  <2>5. \A f \in File : db[f] \in Doc \union {NoDoc}
    BY <1>t DEF TypeInv, TypeOK
  <2>6. ASSUME NEW p \in Process, NEW f \in File PROVE job[p].view[f] \in Doc \union {NoDoc}
    BY <1>t DEF TypeInv, TypeOK, Job
  <2>7. \A f \in File : stamp'[f] \in 1 .. 1 + edits' /\ GateDoc(f, db[f])'
    <3>1. ASSUME NEW f \in File PROVE stamp'[f] \in 1 .. 1 + edits'
      BY <1>t, <2>3 DEF Gate
    <3>2. ASSUME NEW f \in File PROVE GateDoc(f, db[f])'
      BY <1>d, <2>1, <2>4, <2>5 DEF GateDoc
    <3>3. QED
      BY <3>1, <3>2
  <2>8. GateViews'
    <3>1. ASSUME NEW p \in Process, job'[p].open, NEW f \in File PROVE GateDoc(f, job[p].view[f])'
      <4>1. GateDoc(f, job[p].view[f]) /\ job'[p].view[f] = job[p].view[f]
        BY <1>o, <2>2, <3>1
      <4>2. QED
        BY <2>4, <2>6, <4>1 DEF GateDoc
    <3>2. QED
      BY <3>1 DEF GateViews
  <2>9. GateReads'
    <3>1. ASSUME NEW p \in Process, job'[p].pc = "stat" PROVE job'[p].text = disk'[job'[p].file]
      <4>1. job[p].file \in File /\ job[p].text = disk[job[p].file] /\ BeingRead(job[p].file)
        BY <1>t, <2>2, <3>1 DEF TypeInv, Places, Holds, Gate, GateReads, BeingRead
      <4>2. disk'[job[p].file] = disk[job[p].file]
        BY <2>3, <4>1
      <4>3. QED
        BY <2>2, <3>1, <4>1, <4>2
    <3>2. QED
      BY <3>1 DEF GateReads
  <2>10. QED
    BY <2>7, <2>8, <2>9 DEF Gate
<1>2. ASSUME NEW p \in Process, \E r \in Repo : Begin(p, r) PROVE Gate'
  <2>1. /\ OthersKeep(p) /\ UNCHANGED <<db, files, edits>>
        /\ job'[p].pc = "list" /\ job'[p].open = FALSE
    BY <1>2, <1>t, BeginType
  <2>2. QED
    BY <1>k, <1>d, <2>1
<1>3. ASSUME NEW p \in Process, List(p) PROVE Gate'
  <2>1. /\ OthersKeep(p) /\ UNCHANGED <<db, files, edits>>
        /\ job'[p].pc = "files" /\ job'[p].open = job[p].open /\ job'[p].view = job[p].view
    BY <1>3, <1>t, ListType
  <2>2. QED
    BY <1>k, <1>d, <1>o, <2>1
<1>4. ASSUME NEW p \in Process, NEW f \in File, Read(p, f) PROVE Gate'
  <2>1. /\ OthersKeep(p) /\ UNCHANGED <<db, files, edits>>
        /\ job'[p].open = job[p].open /\ job'[p].view = job[p].view
        /\ job'[p].pc = "stat" => job'[p].file = f /\ job'[p].text = disk[f]
    BY <1>4, <1>t, ReadType
  <2>2. QED
    BY <1>k, <1>d, <1>o, <2>1
<1>5. ASSUME NEW p \in Process, Store(p) PROVE Gate'
  <2> DEFINE f == job[p].file
             doc == ViewOf(p)[f]
             new(c) == IF Unchanged(doc, job[p].text)
                       THEN Refreshed(doc, FileMtime(f), c)
                       ELSE Rewritten(doc, job[p].text, FileMtime(f), job[p].repo, c)
  <2>1. /\ OthersKeep(p) /\ UNCHANGED <<db, files, edits>>
        /\ job[p].pc = "stat" /\ job'[p].pc = "files"
    BY <1>5, <1>t, StoreType
  <2>2. PICK c \in Commit \union {None} : job'[p].view = [ViewOf(p) EXCEPT ![f] = new(c)]
    BY <1>5, <1>t, StoreType
  <2>3. f \in File /\ ViewOf(p) \in [File -> Doc \union {NoDoc}] /\ job[p].text \in Content
    BY <1>t, <2>1, ViewType DEF TypeInv, Places, Holds
  <2>4. job[p].text = disk[f]
    BY <1>t, <2>1 DEF Gate, GateReads
  <2>5. GateDoc(f, new(c))
    BY <1>t, <1>v, <2>3, <2>4, NewGate
  <2> HIDE DEF new
  <2>6. \A g \in File : GateDoc(g, job'[p].view[g])
    BY <1>v, <2>2, <2>3, <2>5
  <2>7. QED
    BY <1>k, <1>d, <2>1, <2>6
<1>6. ASSUME NEW p \in Process, Finish(p) PROVE Gate'
  <2>1. /\ OthersKeep(p) /\ UNCHANGED <<files, edits>> /\ job'[p] = Idle
        /\ \/ UNCHANGED db
           \/ db' = [f \in File |-> IF f \in Pruned(p) THEN NoDoc ELSE ViewOf(p)[f]]
    BY <1>6, <1>t, FinishType
  <2>2. \A f \in File : GateDoc(f, db'[f])
    BY <1>d, <1>v, <2>1 DEF GateDoc
  <2>3. QED
    BY <1>k, <2>1, <2>2, IdleType
<1>7. ASSUME NEW p \in Process, Fail(p) PROVE Gate'
  <2>1. OthersKeep(p) /\ UNCHANGED <<db, files, edits>> /\ job'[p] = Idle
    BY <1>7, <1>t, FailType
  <2>2. QED
    BY <1>k, <1>d, <2>1, IdleType
<1>8. CASE UNCHANGED vars
  BY <1>8, <1>t DEF vars, index, files, bounds, Gate, GateDoc, GateViews, GateReads
<1>9. QED
  BY <1>1, <1>2, <1>3, <1>4, <1>5, <1>6, <1>7, <1>8 DEF Next, Step

(* A hit reported as verified is the file's text, unless a change came     *)
(* within the second or between read and stat (check_file).                *)
THEOREM VerifiedHitsAreLive ==
    ASSUME Discernible
    PROVE  Spec => []VerifiedIsLive
<1>1. Init => GateInv
  <2> SUFFICES ASSUME Init PROVE GateInv
    OBVIOUS
  <2>1. WholeInv
    BY TypeInit, IdleType DEF Init, WholeInv, Whole, WholeViews
  <2>2. Gate
    BY IdleType DEF Init, Gate, GateDoc, GateViews, GateReads
  <2>3. QED
    BY <2>1, <2>2 DEF GateInv
<1>2. GateInv => VerifiedIsLive
  <2> SUFFICES ASSUME GateInv, NEW f \in File, db[f] # NoDoc, CheckFile(f, db[f]) = "fresh"
               PROVE  db[f].chunks = disk[f]
    BY DEF VerifiedIsLive
  <2>1. stamp[f] = db[f].stamp \/ disk[f] = db[f].hash
    BY DEF CheckFile
  <2>2. db[f].hash = disk[f]
    BY <2>1 DEF GateInv, Gate, GateDoc
  <2>3. QED
    BY <2>2 DEF GateInv, WholeInv, Whole
<1>3. GateInv /\ [Next]_vars => GateInv'
  BY GateStep
<1>4. QED
  BY <1>1, <1>2, <1>3, PTL DEF Spec

--------------------------------------------------------------------------------
(* Why a pass over the container takes nothing from a nested repository:   *)
(* until another commits, a transaction has a row of every file that has   *)
(* one, and what it then prunes belongs to no living nested repository.    *)
Latest ==
    \A p \in Process : job[p].open /\ ~job[p].behind =>
        \A f \in File : db[f] # NoDoc => job[p].view[f] # NoDoc

LatestInv == TypeInv /\ Latest

LEMMA NewIsDoc ==
    ASSUME NEW doc \in Doc \union {NoDoc}, NEW text \in Content, NEW mtime \in Stamp,
           NEW r \in Repo, NEW c \in Commit \union {None}
    PROVE  (IF Unchanged(doc, text) THEN Refreshed(doc, mtime, c)
            ELSE Rewritten(doc, text, mtime, r, c)) # NoDoc
BY NewType, NoDocAssumption DEF Unchanged

LEMMA LatestStep == LatestInv /\ [Next]_vars => LatestInv'
<1> SUFFICES ASSUME LatestInv, [Next]_vars PROVE Latest'
  BY TypeStep DEF LatestInv
<1>t. TypeInv /\ Latest
  BY DEF LatestInv
<1>k. ASSUME NEW p \in Process, OthersKeep(p), UNCHANGED db,
             job'[p].open => job[p].open /\ job'[p].view = job[p].view /\ job'[p].behind = job[p].behind
      PROVE  Latest'
  BY <1>k, <1>t DEF Latest, OthersKeep
<1>1. CASE (\E f \in File : Edit(f) \/ Touch(f) \/ CommitFile(f) \/ Untrack(f)) \/ Absorb
  <2>1. (SameButClean \/ UNCHANGED job) /\ TypeInv' /\ UNCHANGED <<db, lock>>
    BY <1>1, <1>t, UserType
  <2>2. CASE SameButClean
    <3>1. ASSUME NEW p \in Process
          PROVE  job'[p].open = job[p].open /\ job'[p].view = job[p].view /\ job'[p].behind = job[p].behind
      <4>1. PICK S \in SUBSET File : job'[p] = [job[p] EXCEPT !.clean = S]
        BY <2>2 DEF SameButClean
      <4>2. QED
        BY <1>t, <4>1, CleanType DEF TypeInv, TypeOK
    <3>2. QED
      BY <1>t, <2>1, <3>1 DEF Latest
  <2>3. CASE UNCHANGED job
    BY <1>t, <2>1, <2>3 DEF Latest
  <2>4. QED
    BY <2>1, <2>2, <2>3
<1>2. ASSUME NEW p \in Process, \E r \in Repo : Begin(p, r) PROVE Latest'
  BY <1>2, <1>t, <1>k, BeginType
<1>3. ASSUME NEW p \in Process, List(p) PROVE Latest'
  BY <1>3, <1>t, <1>k, ListType
<1>4. ASSUME NEW p \in Process, NEW f \in File, Read(p, f) PROVE Latest'
  BY <1>4, <1>t, <1>k, ReadType
<1>5. ASSUME NEW p \in Process, Store(p) PROVE Latest'
  <2> DEFINE f == job[p].file
             doc == ViewOf(p)[f]
             new(c) == IF Unchanged(doc, job[p].text)
                       THEN Refreshed(doc, FileMtime(f), c)
                       ELSE Rewritten(doc, job[p].text, FileMtime(f), job[p].repo, c)
  <2>1. OthersKeep(p) /\ UNCHANGED db /\ job[p].pc = "stat" /\ job'[p].open
        /\ job'[p].behind = job[p].behind
    BY <1>5, <1>t, StoreType
  <2>2. PICK c \in Commit \union {None} : job'[p].view = [ViewOf(p) EXCEPT ![f] = new(c)]
    BY <1>5, <1>t, StoreType
  <2>3. f \in File /\ ViewOf(p) \in [File -> Doc \union {NoDoc}] /\ job[p].text \in Content
        /\ job[p].repo \in Repo /\ FileMtime(f) \in Stamp
    BY <1>t, <2>1, ViewType, SourceAssumption
       DEF TypeInv, TypeOK, Places, Holds, Busy, FileMtime, Stamp
  <2>4. new(c) # NoDoc
    BY <2>3, NewIsDoc
  <2>5. \A g \in File : ~job[p].behind /\ db[g] # NoDoc => ViewOf(p)[g] # NoDoc
    BY <1>t DEF ViewOf, Latest
  <2> HIDE DEF new
  <2>6. \A g \in File : ~job[p].behind /\ db[g] # NoDoc => job'[p].view[g] # NoDoc
    BY <2>2, <2>3, <2>4, <2>5
  <2>7. QED
    BY <1>t, <2>1, <2>6 DEF Latest, OthersKeep
<1>6. ASSUME NEW p \in Process, Finish(p) PROVE Latest'
  <2>1. /\ OthersKeep(p) /\ job'[p].open = FALSE
        /\ \/ UNCHANGED db
           \/ \A q \in Process \ {p} : job'[q].open => job'[q].behind
    BY <1>6, <1>t, FinishType, IdleType
  <2>2. QED
    BY <1>t, <2>1 DEF Latest, OthersKeep
<1>7. ASSUME NEW p \in Process, Fail(p) PROVE Latest'
  BY <1>7, <1>t, <1>k, FailType, IdleType
<1>8. CASE UNCHANGED vars
  BY <1>8, <1>t DEF vars, index, Latest
<1>9. QED
  BY <1>1, <1>2, <1>3, <1>4, <1>5, <1>6, <1>7, <1>8 DEF Next, Step

LEMMA KeptStep ==
    LatestInv /\ [Next]_vars =>
        [\A f \in NestedFile :
            db[f] # NoDoc /\ db'[f] = NoDoc /\ Nested \in live
                => \E p \in Process : job[p].repo = Nested /\ job'[p] = Idle]_vars
<1> SUFFICES ASSUME LatestInv, Next, NEW f \in NestedFile,
                    db[f] # NoDoc, db'[f] = NoDoc, Nested \in live
             PROVE  \E p \in Process : job[p].repo = Nested /\ job'[p] = Idle
  BY Zenon
<1>t. TypeInv /\ f \in File
  BY SourceAssumption DEF LatestInv
<1>1. PICK p \in Process : Finish(p)
  <2>1. \/ (\E g \in File : Edit(g) \/ Touch(g) \/ CommitFile(g) \/ Untrack(g)) \/ Absorb
        \/ \E p \in Process : (\E r \in Repo : Begin(p, r)) \/ List(p) \/ Store(p) \/ Fail(p)
                             \/ \E g \in File : Read(p, g)
        => db' = db
    BY <1>t, UserType, BeginType, ListType, ReadType, StoreType, FailType
  <2>2. QED
    BY <2>1 DEF Next, Step
<1>2. /\ job'[p] = Idle /\ ~job[p].behind
      /\ f \in Pruned(p) \/ ViewOf(p)[f] = NoDoc
  BY <1>1, <1>t, FinishType
<1>3. ViewOf(p)[f] # NoDoc
  BY <1>t, <1>2 DEF LatestInv, Latest, ViewOf
<1>4. f \in Under(job[p].repo) /\ ~BelongsToNestedRepo(job[p].repo, f)
  BY <1>2, <1>3 DEF Pruned
<1>5. job[p].repo # Container
  BY <1>4 DEF BelongsToNestedRepo
<1>6. job[p].repo \in Repo
  BY <1>1, <1>t DEF Finish, TypeInv, Places, Busy
<1>7. QED
  BY <1>2, <1>5, <1>6 DEF Repo

(* As long as the nested repository lives only its own passes take rows of *)
(* its files away (belongs_to_nested_repo).                                *)
THEOREM ContainerSparesNested == Spec => NestedKept
<1>1. Init => LatestInv
  BY TypeInit, IdleType DEF Init, LatestInv, Latest
<1>2. QED
  BY <1>1, LatestStep, KeptStep, PTL DEF Spec, NestedKept

--------------------------------------------------------------------------------
(* Why a file is indexed as it is once a pass has seen the latest of it:   *)
(* what a pass has seen is still so, its view has the row of what it is    *)
(* done with, and a view that is not behind and without a write is the     *)
(* database.                                                               *)
RightDoc(f, doc) ==
    doc # NoDoc /\ doc.hash = disk[f] /\ (disk[f] # {} => doc.via = touched[f])

Mirrored(f) ==
    /\ owner[f] # None /\ disk[f] \in Content => RightDoc(f, db[f])
    /\ owner[f] = None => db[f] = NoDoc

(* Pass j has seen the latest of f: it is listed as it is committed, and   *)
(* read as it is unless that is to come; or it is lost, and will be pruned.*)
Seen(j, f) ==
    IF f \in j.listed
    THEN /\ owner[f] = j.repo /\ j.via[f] = touched[f]
         /\ f \notin j.todo /\ disk[f] \in Content =>
               IF j.pc = "stat" /\ j.file = f THEN j.text = disk[f]
               ELSE j.open /\ RightDoc(f, j.view[f])
    ELSE owner[f] = None /\ f \in Under(j.repo) /\ ~BelongsToNestedRepo(j.repo, f)

SeenAll == \A p \in Process : \A f \in job[p].clean : Seen(job[p], f)

Unwritten ==
    \A p \in Process : job[p].open /\ ~job[p].behind /\ lock # p => job[p].view = db

MirrorInv == WholeInv /\ Mirror /\ SeenAll /\ Unwritten

LEMMA MirrorByFile == Mirror <=> \A f \in File \ dirty : Mirrored(f)
  BY DEF Mirror, Mirrored, RightDoc

LEMMA MirrorInit == Init => MirrorInv
<1> SUFFICES ASSUME Init PROVE MirrorInv
  OBVIOUS
<1>1. WholeInv
  BY TypeInit, IdleType DEF Init, WholeInv, Whole, WholeViews
<1>2. dirty = File /\ \A p \in Process : job[p].clean = {} /\ job[p].open = FALSE
  BY IdleType DEF Init
<1>3. QED
  BY <1>1, <1>2 DEF MirrorInv, Mirror, SeenAll, Unwritten

(* Users and git touch nothing that a pass still counts as seen, but what  *)
(* it has yet to read.                                                     *)
LEMMA UserOutdates ==
    ASSUME TypeInv, \/ \E f \in File : Edit(f) \/ Touch(f) \/ CommitFile(f) \/ Untrack(f)
                    \/ Absorb
    PROVE  /\ live' \subseteq live
           /\ \A f \in File \ dirty' :
                 f \notin dirty /\ disk'[f] = disk[f] /\ owner'[f] = owner[f] /\ touched'[f] = touched[f]
           /\ \A p \in Process : \A f \in job'[p].clean :
                 /\ f \in job[p].clean /\ owner'[f] = owner[f] /\ touched'[f] = touched[f]
                 /\ disk'[f] = disk[f] \/ f \in job[p].todo
<1>t. /\ disk \in [File -> Content \union {Binary, Absent}] /\ owner \in [File -> Repo \union {None}]
      /\ touched \in [File -> Commit] /\ \A p \in Process : job[p] \in Job
  BY DEF TypeInv, TypeOK
<1>c. ASSUME NEW p \in Process, NEW S \in SUBSET File
      PROVE  [job[p] EXCEPT !.clean = @ \ S].clean = job[p].clean \ S
  BY <1>t DEF Job
<1>o. ASSUME NEW S \in SUBSET File, Outdate(S), disk' = disk, live' \subseteq live,
             \A f \in File \ S : owner'[f] = owner[f] /\ touched'[f] = touched[f]
      PROVE  /\ live' \subseteq live
             /\ \A f \in File \ dirty' :
                   f \notin dirty /\ disk'[f] = disk[f] /\ owner'[f] = owner[f] /\ touched'[f] = touched[f]
             /\ \A p \in Process : \A f \in job'[p].clean :
                   /\ f \in job[p].clean /\ owner'[f] = owner[f] /\ touched'[f] = touched[f]
                   /\ disk'[f] = disk[f] \/ f \in job[p].todo
  <2>1. \A p \in Process : job'[p].clean = job[p].clean \ S
    BY <1>o, <1>c DEF Outdate
  <2>2. \A p \in Process : job[p].clean \subseteq File
    BY <1>t DEF Job
  <2>3. QED
    BY <1>o, <2>1, <2>2 DEF Outdate
<1>1. ASSUME NEW g \in File, Edit(g)
      PROVE  /\ UNCHANGED git /\ dirty' = dirty \union {g}
             /\ \A f \in File \ {g} : disk'[f] = disk[f]
             /\ \A p \in Process : \A f \in job'[p].clean :
                   f \in job[p].clean /\ (f # g \/ f \in job[p].todo)
  <2>1. UNCHANGED git /\ dirty' = dirty \union {g} /\ \A f \in File \ {g} : disk'[f] = disk[f]
    BY <1>1, <1>t DEF Edit
  <2>2. ASSUME NEW p \in Process, NEW f \in job'[p].clean
        PROVE  f \in job[p].clean /\ (f # g \/ f \in job[p].todo)
    <3>1. job'[p] = IF g \in job[p].todo THEN job[p] ELSE [job[p] EXCEPT !.clean = @ \ {g}]
      BY <1>1 DEF Edit
    <3>2. QED
      BY <3>1, <1>c, <2>2
  <2>3. QED
    BY <2>1, <2>2
<1>2. CASE \E g \in File : Edit(g)
  <2>1. \A p \in Process : job[p].clean \subseteq File
    BY <1>t DEF Job
  <2>2. \A p \in Process : \A f \in job'[p].clean : f \in File
    BY <1>1, <1>2, <2>1
  <2>3. QED
    BY <1>1, <1>2, <2>2 DEF git
<1>3. CASE \E g \in File : Touch(g)
  BY <1>3 DEF Touch, git
<1>4. CASE \E g \in File : CommitFile(g)
  <2>1. PICK g \in File : CommitFile(g)
    BY <1>4
  <2>2. /\ Outdate({g}) /\ disk' = disk /\ live' = live
        /\ \A f \in File \ {g} : owner'[f] = owner[f] /\ touched'[f] = touched[f]
    BY <1>t, <2>1 DEF CommitFile, files
  <2>3. QED
    BY <1>o, <2>2
<1>5. CASE \E g \in File : Untrack(g)
  <2>1. PICK g \in File : Untrack(g)
    BY <1>5
  <2>2. /\ Outdate({g}) /\ disk' = disk /\ live' = live
        /\ \A f \in File \ {g} : owner'[f] = owner[f] /\ touched'[f] = touched[f]
    BY <1>t, <2>1 DEF Untrack, files
  <2>3. QED
    BY <1>o, <2>2
<1>6. CASE Absorb
  <2>1. /\ Outdate(NestedFile) /\ disk' = disk /\ live' \subseteq live /\ NestedFile \subseteq File
        /\ \A f \in File \ NestedFile : owner'[f] = owner[f] /\ touched'[f] = touched[f]
    BY <1>6, SourceAssumption DEF Absorb, files
  <2>2. QED
    BY <1>o, <2>1
<1>7. QED
  BY <1>2, <1>3, <1>4, <1>5, <1>6

LEMMA UserMirror ==
    ASSUME MirrorInv, \/ \E f \in File : Edit(f) \/ Touch(f) \/ CommitFile(f) \/ Untrack(f)
                      \/ Absorb
    PROVE  Mirror' /\ SeenAll' /\ Unwritten'
<1>t. TypeInv /\ SeenAll /\ Unwritten /\ \A f \in File \ dirty : Mirrored(f)
  BY MirrorByFile DEF MirrorInv, WholeInv
<1>1. (SameButClean \/ UNCHANGED job) /\ TypeInv' /\ UNCHANGED <<db, lock>>
  BY <1>t, UserType
<1>2. \A p \in Process :
         /\ job'[p].pc = job[p].pc /\ job'[p].open = job[p].open /\ job'[p].view = job[p].view
         /\ job'[p].file = job[p].file /\ job'[p].text = job[p].text /\ job'[p].repo = job[p].repo
         /\ job'[p].behind = job[p].behind /\ job'[p].listed = job[p].listed
         /\ job'[p].via = job[p].via /\ job'[p].todo = job[p].todo
  BY <1>t, <1>1, CleanStep DEF TypeInv, TypeOK
<1>3. /\ live' \subseteq live
      /\ \A f \in File \ dirty' :
            f \notin dirty /\ disk'[f] = disk[f] /\ owner'[f] = owner[f] /\ touched'[f] = touched[f]
      /\ \A p \in Process : \A f \in job'[p].clean :
            /\ f \in job[p].clean /\ owner'[f] = owner[f] /\ touched'[f] = touched[f]
            /\ disk'[f] = disk[f] \/ f \in job[p].todo
  BY <1>t, UserOutdates
<1>4. \A f \in File \ dirty' : Mirrored(f)'
  BY <1>t, <1>1, <1>3 DEF Mirrored, RightDoc
<1>5. ASSUME NEW p \in Process, NEW f \in job'[p].clean PROVE Seen(job[p], f)'
  <2>1. Seen(job[p], f) /\ owner'[f] = owner[f] /\ touched'[f] = touched[f]
    BY <1>t, <1>3, <1>5 DEF SeenAll
  <2>2. ~BelongsToNestedRepo(job[p].repo, f) => ~BelongsToNestedRepo(job[p].repo, f)'
    BY <1>2, <1>3 DEF BelongsToNestedRepo
  <2>3. disk'[f] = disk[f] \/ f \in job'[p].todo
    BY <1>2, <1>3, <1>5
  <2>4. CASE f \in job[p].listed
    BY <1>2, <2>1, <2>3, <2>4 DEF Seen, RightDoc
  <2>5. CASE f \notin job[p].listed
    BY <1>2, <2>1, <2>2, <2>5 DEF Seen, Under
  <2>6. QED
    BY <2>4, <2>5
<1>6. Unwritten'
  BY <1>t, <1>1, <1>2 DEF Unwritten
<1>7. Mirror'
  BY <1>4 DEF Mirror, Mirrored, RightDoc
<1>8. QED
  BY <1>5, <1>6, <1>7 DEF SeenAll

(* A step of one pass leaves the others what they have seen.               *)
LEMMA PassSees ==
    ASSUME SeenAll, NEW p \in Process, OthersKeep(p), UNCHANGED <<files, git>>,
           \A f \in job'[p].clean : Seen(job[p], f)'
    PROVE  SeenAll'
<1>1. UNCHANGED <<disk, live, owner, touched>>
  BY DEF files, git
<1>2. ASSUME NEW q \in Process \ {p}, NEW f \in job'[q].clean PROVE Seen(job[q], f)'
  <2>1. Seen(job[q], f)
    BY <1>2 DEF SeenAll, OthersKeep
  <2>2. QED
    BY <1>1, <2>1 DEF Seen, RightDoc, OthersKeep, Under, BelongsToNestedRepo
<1>3. QED
  BY <1>2 DEF SeenAll

LEMMA StoreSees ==
    ASSUME MirrorInv, NEW p \in Process, Store(p), NEW g \in job'[p].clean
    PROVE  Seen(job[p], g)'
<1> DEFINE f == job[p].file
           doc == ViewOf(p)[f]
           new(c) == IF Unchanged(doc, job[p].text)
                     THEN Refreshed(doc, FileMtime(f), c)
                     ELSE Rewritten(doc, job[p].text, FileMtime(f), job[p].repo, c)
<1>t. TypeInv /\ SeenAll
  BY DEF MirrorInv, WholeInv
<1>1. /\ UNCHANGED <<files, git>> /\ job[p].pc = "stat" /\ job'[p].pc = "files" /\ job'[p].open
      /\ job'[p].repo = job[p].repo /\ job'[p].listed = job[p].listed /\ job'[p].via = job[p].via
      /\ job'[p].todo = job[p].todo /\ job'[p].clean \subseteq job[p].clean
  BY <1>t, StoreType
<1>2. PICK c \in Commit \union {None} :
         job'[p].view = [ViewOf(p) EXCEPT ![f] = new(c)] /\ (f \in job'[p].clean => c = job[p].via[f])
  BY <1>t, StoreType
<1>3. f \in File /\ ViewOf(p) \in [File -> Doc \union {NoDoc}] /\ job[p].text \in Content
      /\ job[p].repo \in Repo /\ FileMtime(f) \in Stamp
  BY <1>t, <1>1, ViewType, SourceAssumption
     DEF TypeInv, TypeOK, Places, Holds, Busy, FileMtime, Stamp
<1>4. Seen(job[p], g) /\ UNCHANGED <<disk, live, owner, touched>>
  BY <1>t, <1>1 DEF SeenAll, files, git
<1>5. CASE g \notin job[p].listed
  BY <1>1, <1>4, <1>5 DEF Seen, Under, BelongsToNestedRepo
<1>6. ASSUME g \in job[p].listed, g \notin job[p].todo, disk[g] \in Content
      PROVE  RightDoc(g, job'[p].view[g])
  <2>1. CASE g = f
    <3>1. job[p].text = disk[f] /\ c = touched[f]
      BY <1>1, <1>2, <1>4, <1>6, <2>1 DEF Seen
    <3>2. new(c) \in Doc
      BY <1>3, NewType DEF Unchanged
    <3>3. CASE Unchanged(doc, job[p].text)
      <4>1. doc \in Doc /\ doc.hash = disk[f] /\ new(c) = Refreshed(doc, FileMtime(f), c)
        BY <1>3, <3>1, <3>3 DEF Unchanged
      <4>2. doc.chunks = doc.hash
        BY <1>3, <3>3 DEF MirrorInv, WholeInv, WholeViews, Whole, WholeDoc, ViewOf, Unchanged
      <4>3. /\ Refreshed(doc, FileMtime(f), c).hash = doc.hash
            /\ doc.chunks # {} => Refreshed(doc, FileMtime(f), c).via = c
        BY <4>1 DEF Refreshed, Doc
      <4>4. QED
        BY <3>1, <3>2, <4>1, <4>2, <4>3, NoDocAssumption, <1>2, <1>3, <2>1 DEF RightDoc
    <3>4. CASE ~Unchanged(doc, job[p].text)
      <4>1. new(c).hash = job[p].text /\ new(c).via = c
        BY <3>4 DEF Rewritten
      <4>2. QED
        BY <3>1, <3>2, <4>1, NoDocAssumption, <1>2, <1>3, <2>1 DEF RightDoc
    <3>5. QED
      BY <3>3, <3>4
  <2>2. CASE g # f
    <3>1. job[p].open /\ RightDoc(g, job[p].view[g])
      BY <1>4, <1>6, <2>2 DEF Seen
    <3>2. g \in File
      BY <1>1, <1>t DEF TypeInv, TypeOK, Job
    <3>3. job'[p].view[g] = job[p].view[g]
      BY <1>2, <1>3, <2>2, <3>1, <3>2 DEF ViewOf
    <3>4. QED
      BY <3>1, <3>3
  <2>3. QED
    BY <2>1, <2>2
<1>7. QED
  BY <1>1, <1>4, <1>5, <1>6 DEF Seen, RightDoc

(* What a pass that ends has seen the latest of it leaves as it is.        *)
LEMMA FinishMirrors ==
    ASSUME MirrorInv, NEW p \in Process, Finish(p) PROVE Mirror'
<1>t. TypeInv /\ \A f \in File \ dirty : Mirrored(f)
  BY MirrorByFile DEF MirrorInv, WholeInv
<1>1. /\ \/ UNCHANGED db /\ Pruned(p) = {} /\ lock # p
         \/ /\ db' = [f \in File |-> IF f \in Pruned(p) THEN NoDoc ELSE ViewOf(p)[f]]
            /\ ~job[p].behind
  BY <1>t, FinishType
<1>2. /\ UNCHANGED <<disk, live, owner, touched>> /\ job[p].todo = {} /\ job[p].pc = "files"
      /\ dirty' = (dirty \ IF job[p].behind THEN {} ELSE job[p].clean)
                     \union {f \in File : db'[f] # db[f] /\ f \notin job[p].clean}
  BY DEF Finish, files, git
<1>3. ~job[p].behind => \A f \in File : db'[f] = IF f \in Pruned(p) THEN NoDoc ELSE ViewOf(p)[f]
  BY <1>1 DEF MirrorInv, Unwritten, ViewOf
<1>4. ASSUME NEW f \in File \ dirty' PROVE Mirrored(f)'
  <2>1. CASE f \notin job[p].clean \/ job[p].behind
    <3>1. f \notin dirty /\ db'[f] = db[f]
      BY <1>1, <1>2, <2>1
    <3>2. QED
      BY <1>t, <1>2, <3>1 DEF Mirrored, RightDoc
  <2>2. CASE f \in job[p].clean /\ ~job[p].behind
    <3>1. Seen(job[p], f)
      BY <2>2 DEF MirrorInv, SeenAll
    <3>2. job[p].repo \in Repo /\ None \notin Repo
      BY <1>t, <1>2, SourceAssumption DEF TypeInv, Places, Busy
    <3>3. CASE f \in job[p].listed
      <4>1. owner[f] # None /\ (disk[f] \in Content => job[p].open /\ RightDoc(f, job[p].view[f]))
        BY <1>2, <3>1, <3>2, <3>3 DEF Seen
      <4>2. f \notin Pruned(p)
        BY <3>3 DEF Pruned
      <4>3. QED
        BY <1>2, <1>3, <2>2, <4>1, <4>2 DEF Mirrored, RightDoc, ViewOf
    <3>4. CASE f \notin job[p].listed
      <4>1. owner[f] = None /\ f \in Under(job[p].repo) /\ ~BelongsToNestedRepo(job[p].repo, f)
        BY <3>1, <3>4 DEF Seen
      <4>2. db'[f] = NoDoc
        BY <1>3, <2>2, <3>4, <4>1 DEF Pruned
      <4>3. QED
        BY <1>2, <4>1, <4>2 DEF Mirrored
    <3>5. QED
      BY <3>3, <3>4
  <2>3. QED
    BY <2>1, <2>2
<1>5. QED
  BY <1>4 DEF Mirror, Mirrored, RightDoc

LEMMA MirrorStep == MirrorInv /\ [Next]_vars => MirrorInv'
<1> SUFFICES ASSUME MirrorInv, [Next]_vars PROVE Mirror' /\ SeenAll' /\ Unwritten'
  BY WholeStep DEF MirrorInv
<1>t. TypeInv /\ Mirror /\ SeenAll /\ Unwritten
  BY DEF MirrorInv, WholeInv
<1>k. ASSUME UNCHANGED <<db, files, git, dirty>> PROVE Mirror'
  BY <1>k, <1>t DEF Mirror, files, git
<1>1. CASE (\E f \in File : Edit(f) \/ Touch(f) \/ CommitFile(f) \/ Untrack(f)) \/ Absorb
  BY <1>1, UserMirror
<1>2. ASSUME NEW p \in Process, NEW r \in Repo, Begin(p, r) PROVE Mirror' /\ SeenAll' /\ Unwritten'
  <2>1. /\ OthersKeep(p) /\ job'[p].clean = {} /\ job'[p].open = FALSE
        /\ UNCHANGED <<db, files, git, dirty, lock>> /\ lock = None
    BY <1>2, <1>t, BeginType DEF Begin
  <2>2. Unwritten'
    BY <1>t, <2>1 DEF Unwritten, OthersKeep
  <2>3. QED
    BY <1>t, <1>k, <2>1, <2>2, PassSees
<1>3. ASSUME NEW p \in Process, List(p) PROVE Mirror' /\ SeenAll' /\ Unwritten'
  <2>1. /\ OthersKeep(p) /\ UNCHANGED <<db, files, git, dirty, lock>>
        /\ job'[p].open = job[p].open /\ job'[p].view = job[p].view
        /\ job'[p].behind = job[p].behind
    BY <1>3, <1>t, ListType
  <2>2. ASSUME NEW f \in job'[p].clean PROVE Seen(job[p], f)'
    <3>1. /\ job'[p].todo = job'[p].listed /\ job'[p].repo = job[p].repo
          /\ f \in job'[p].listed =>
                f \in File /\ owner[f] = job[p].repo /\ job'[p].via[f] = touched[f]
          /\ f \notin job'[p].listed =>
                /\ owner[f] = None /\ f \in Under(job[p].repo)
                /\ ~BelongsToNestedRepo(job[p].repo, f)
      BY <1>3, <1>t, <2>2, ListType
    <3>2. QED
      BY <2>1, <3>1 DEF Seen, Under, BelongsToNestedRepo, git
  <2>3. Unwritten'
    BY <1>t, <2>1 DEF Unwritten, OthersKeep
  <2>4. QED
    BY <1>t, <1>k, <2>1, <2>2, <2>3, PassSees
<1>4. ASSUME NEW p \in Process, NEW f \in File, Read(p, f) PROVE Mirror' /\ SeenAll' /\ Unwritten'
  <2>1. /\ OthersKeep(p) /\ UNCHANGED <<db, files, git, dirty, lock>>
        /\ job'[p].open = job[p].open /\ job'[p].view = job[p].view
        /\ job'[p].behind = job[p].behind
    BY <1>4, <1>t, ReadType
  <2>2. ASSUME NEW g \in job'[p].clean PROVE Seen(job[p], g)'
    <3>1. /\ job[p].pc = "files" /\ (disk[f] \in Content => job'[p].pc = "stat")
          /\ job'[p].pc = "stat" => job'[p].file = f /\ job'[p].text = disk[f]
          /\ job'[p].repo = job[p].repo /\ job'[p].listed = job[p].listed
          /\ job'[p].via = job[p].via /\ job'[p].clean = job[p].clean
          /\ job'[p].todo = job[p].todo \ {f}
      BY <1>4, <1>t, ReadType
    <3>2. Seen(job[p], g) /\ UNCHANGED <<disk, live, owner, touched>>
      BY <1>t, <2>1, <2>2, <3>1 DEF SeenAll, files, git
    <3>3. CASE g \in job[p].listed
      BY <2>1, <3>1, <3>2, <3>3 DEF Seen, RightDoc
    <3>4. CASE g \notin job[p].listed
      BY <3>1, <3>2, <3>4 DEF Seen, Under, BelongsToNestedRepo
    <3>5. QED
      BY <3>3, <3>4
  <2>3. Unwritten'
    BY <1>t, <2>1 DEF Unwritten, OthersKeep
  <2>4. QED
    BY <1>t, <1>k, <2>1, <2>2, <2>3, PassSees
<1>5. ASSUME NEW p \in Process, Store(p) PROVE Mirror' /\ SeenAll' /\ Unwritten'
  <2>1. /\ OthersKeep(p) /\ UNCHANGED <<db, files, git, dirty>> /\ job'[p].behind = job[p].behind
        /\ \/ lock \in {None, p} /\ lock' = p
           \/ lock' = lock /\ job'[p].view = ViewOf(p)
    BY <1>5, <1>t, StoreType
  <2>2. Unwritten'
    BY <1>t, <2>1, SourceAssumption DEF Unwritten, OthersKeep, ViewOf
  <2>3. QED
    BY <1>5, <1>t, <1>k, <2>1, <2>2, StoreSees, PassSees
<1>6. ASSUME NEW p \in Process, Finish(p) PROVE Mirror' /\ SeenAll' /\ Unwritten'
  <2>1. /\ OthersKeep(p) /\ UNCHANGED <<files, git>> /\ job'[p].clean = {} /\ job'[p].open = FALSE
        /\ \/ UNCHANGED <<db, lock>>
           \/ \A q \in Process \ {p} : job'[q].open => job'[q].behind
    BY <1>6, <1>t, FinishType, IdleType DEF Finish
  <2>2. Unwritten'
    BY <1>t, <2>1 DEF Unwritten, OthersKeep
  <2>3. QED
    BY <1>6, <1>t, <2>1, <2>2, FinishMirrors, PassSees
<1>7. ASSUME NEW p \in Process, Fail(p) PROVE Mirror' /\ SeenAll' /\ Unwritten'
  <2>1. /\ OthersKeep(p) /\ UNCHANGED <<db, files, git, dirty>>
        /\ job'[p].clean = {} /\ job'[p].open = FALSE /\ (lock' = lock \/ lock = p)
    BY <1>7, <1>t, FailType, IdleType DEF Fail
  <2>2. Unwritten'
    BY <1>t, <2>1 DEF Unwritten, OthersKeep
  <2>3. QED
    BY <1>t, <1>k, <2>1, <2>2, PassSees
<1>8. CASE UNCHANGED vars
  BY <1>8, <1>t DEF vars, index, files, git, Mirror, SeenAll, Unwritten, Seen, RightDoc, Under,
                    BelongsToNestedRepo
<1>9. QED
  BY <1>1, <1>2, <1>3, <1>4, <1>5, <1>6, <1>7, <1>8 DEF Next, Step

(* What the last pass at a file has seen the latest of is indexed as it    *)
(* is, though passes fail, overlap and fall behind and files and git go on *)
(* under them (index_source_repo's skip, refresh, rewrite and prune).      *)
THEOREM SeenIsIndexed == Spec => []Mirror
<1>1. MirrorInv => Mirror
  BY DEF MirrorInv
<1>2. QED
  BY <1>1, MirrorInit, MirrorStep, PTL DEF Spec

--------------------------------------------------------------------------------
(* The place of a hit (CodeLocation)                                       *)

(* The constants of source_index.rs, and that an empty line has no text    *)
AsInSource == ChunkLines \in Nat \ {0} /\ MinVoters = 3 /\ Trim[Empty] = Empty

Begins(k) == k * ChunkLines + 1
Ends(k, length) == Least((k + 1) * ChunkLines, length)

(* What a window is: the k-th, with a text, and all of its lines but one   *)
(* empty one at the end.                                                   *)
IsWindow(c, k, file) ==
    /\ k \in Nat /\ c.first = Begins(k) /\ c.last = Ends(k, Len(file))
    /\ c.first \in Nat /\ c.last \in Nat
    /\ 1 <= c.first /\ c.first <= c.last /\ c.last <= Len(file)
    /\ c.body = BodyOf(SubSeq(file, c.first, c.last))
    /\ Len(c.body) \in Nat /\ 1 <= Len(c.body) /\ Len(c.body) <= c.last - c.first + 1
    /\ \A i \in 1 .. Len(c.body) : c.body[i] = file[c.first - 1 + i]
    /\ \A i \in c.first .. c.last : i - c.first + 1 <= Len(c.body) \/ Trim[file[i]] = Empty

LEMMA BodyIsOf ==
    ASSUME AsInSource, NEW Line, NEW file \in Seq(Line), NEW first \in Nat, NEW last \in Nat,
           1 <= first, first <= last, last <= Len(file)
    PROVE  LET body == BodyOf(SubSeq(file, first, last))
           IN /\ body \in Seq(Line) /\ Len(body) \in Nat
              /\ last - first <= Len(body) /\ Len(body) <= last - first + 1
              /\ \A i \in 1 .. Len(body) : body[i] = file[first - 1 + i]
              /\ \A i \in first .. last : i - first + 1 <= Len(body) \/ Trim[file[i]] = Empty
<1> DEFINE window == SubSeq(file, first, last)
           n == last - first + 1
<1>1. n \in Nat /\ n >= 1 /\ window \in Seq(Line) /\ Len(window) = n
  BY SubSeqProperties
<1>2. \A i \in 1 .. n : window[i] = file[first + i - 1]
  BY SubSeqProperties, <1>1
<1> HIDE DEF window, n
<1>3. window # <<>>
  BY <1>1
<1>4. CASE window[Len(window)] = Empty
  <2> DEFINE body == SubSeq(window, 1, Len(window) - 1)
  <2>1. BodyOf(window) = body
    BY <1>3, <1>4 DEF BodyOf
  <2>2. body \in Seq(Line) /\ Len(body) = n - 1
    BY <1>1, SubSeqProperties
  <2>3. \A i \in 1 .. n - 1 : body[i] = window[i]
    BY <1>1, <2>2, SubSeqProperties
  <2> HIDE DEF body
  <2>4. \A i \in 1 .. n - 1 : body[i] = file[first - 1 + i]
    BY <2>3, <1>1, <1>2
  <2>5. \A i \in first .. last : i - first + 1 <= n - 1 \/ Trim[file[i]] = Empty
    <3> TAKE i \in first .. last
    <3>1. CASE i = last
      <4>1. window[n] = file[last]
        BY <1>1, <1>2 DEF n
      <4>2. QED
        BY <3>1, <4>1, <1>1, <1>4 DEF AsInSource
    <3>2. CASE i # last
      BY <3>2 DEF n
    <3>3. QED
      BY <3>1, <3>2
  <2>6. QED
    BY <2>1, <2>2, <2>4, <2>5, <1>1 DEF window, n
<1>5. CASE window[Len(window)] # Empty
  <2>1. BodyOf(window) = window
    BY <1>5 DEF BodyOf
  <2>2. \A i \in 1 .. n : window[i] = file[first - 1 + i]
    BY <1>1, <1>2
  <2>3. QED
    BY <2>1, <2>2, <1>1 DEF window, n
<1>6. QED
  BY <1>4, <1>5

LEMMA Multiples ==
    ASSUME NEW C \in Nat \ {0}, NEW j \in Nat, NEW k \in Nat, j < k
    PROVE  /\ j * C \in Nat /\ k * C \in Nat /\ (j + 1) * C \in Nat
           /\ (j + 1) * C <= k * C /\ (j + 1) * C = j * C + C
  OBVIOUS

Chunk(file, k) ==
    [first |-> Begins(k), last |-> Ends(k, Len(file)),
     body |-> BodyOf(SubSeq(file, Begins(k), Ends(k, Len(file))))]

LEMMA ChunksAre ==
    ASSUME NEW file
    PROVE  Chunks(file) =
              {Chunk(file, k) : k \in {j \in 0 .. Len(file) \div ChunkLines :
                  \E i \in Begins(j) .. Ends(j, Len(file)) : Trim[file[i]] # Empty}}
<1> DEFINE K == 0 .. Len(file) \div ChunkLines
           Window(k) == [first |-> k * ChunkLines + 1, last |-> Least((k + 1) * ChunkLines, Len(file))]
           Cut(w) == [first |-> w.first, last |-> w.last, body |-> BodyOf(SubSeq(file, w.first, w.last))]
           HasText(w) == \E i \in w.first .. w.last : Trim[file[i]] # Empty
<1>1. Chunks(file) = {Cut(w) : w \in {v \in {Window(k) : k \in K} : HasText(v)}}
  BY DEF Chunks
<1>2. \A k \in K : /\ Window(k).first = Begins(k) /\ Window(k).last = Ends(k, Len(file))
                   /\ Cut(Window(k)) = Chunk(file, k)
  BY DEF Begins, Ends, Chunk
<1>3. \A k \in K : HasText(Window(k)) <=> \E i \in Begins(k) .. Ends(k, Len(file)) : Trim[file[i]] # Empty
  BY <1>2
<1> HIDE DEF Window, Cut, HasText, K
<1>4. Chunks(file) = {Chunk(file, k) : k \in {j \in K : HasText(Window(j))}}
  BY <1>1, <1>2
<1>5. {j \in K : HasText(Window(j))}
        = {j \in K : \E i \in Begins(j) .. Ends(j, Len(file)) : Trim[file[i]] # Empty}
  BY <1>3
<1>6. QED
  BY <1>4, <1>5 DEF K

LEMMA Quotient ==
    ASSUME NEW n \in Nat, NEW C \in Nat \ {0}
    PROVE  /\ n \div C \in Nat /\ (n \div C) * C <= n /\ n < (n \div C + 1) * C
           /\ (n \div C) * C \in Nat /\ (n \div C + 1) * C \in Nat
  OBVIOUS

LEMMA WindowIs ==
    ASSUME AsInSource, NEW Line, NEW file \in Seq(Line), NEW c \in Chunks(file)
    PROVE  /\ c.body \in Seq(Line) /\ \E k \in Nat : c = Chunk(file, k) /\ IsWindow(c, k, file)
<1>1. Len(file) \in Nat /\ Len(file) \div ChunkLines \in Nat
  BY DEF AsInSource
<1>2. PICK k \in 0 .. Len(file) \div ChunkLines :
          /\ c = Chunk(file, k)
          /\ \E i \in Begins(k) .. Ends(k, Len(file)) : Trim[file[i]] # Empty
  BY ChunksAre
<1>3. k \in Nat /\ k * ChunkLines \in Nat /\ (k + 1) * ChunkLines \in Nat
  BY <1>1 DEF AsInSource
<1>4. /\ c.first = Begins(k) /\ c.last = Ends(k, Len(file))
      /\ c.body = BodyOf(SubSeq(file, c.first, c.last))
  BY <1>2 DEF Chunk
<1>5. /\ Begins(k) \in Nat /\ Ends(k, Len(file)) \in Nat
      /\ 1 <= Begins(k) /\ Begins(k) <= Ends(k, Len(file)) /\ Ends(k, Len(file)) <= Len(file)
  BY <1>1, <1>2, <1>3 DEF Begins, Ends, Least
<1>6. /\ c.body \in Seq(Line) /\ Len(c.body) \in Nat
      /\ c.last - c.first <= Len(c.body) /\ Len(c.body) <= c.last - c.first + 1
      /\ \A i \in 1 .. Len(c.body) : c.body[i] = file[c.first - 1 + i]
      /\ \A i \in c.first .. c.last : i - c.first + 1 <= Len(c.body) \/ Trim[file[i]] = Empty
  BY <1>4, <1>5, BodyIsOf
<1>7. Len(c.body) >= 1
  <2>1. PICK i \in c.first .. c.last : Trim[file[i]] # Empty
    BY <1>2, <1>4
  <2>2. i - c.first + 1 <= Len(c.body)
    BY <2>1, <1>6
  <2>3. QED
    BY <2>1, <2>2, <1>4, <1>5, <1>6
<1>8. IsWindow(c, k, file)
  BY <1>3, <1>4, <1>5, <1>6, <1>7 DEF IsWindow
<1>9. QED
  BY <1>2, <1>3, <1>6, <1>8

(* Every line with a text is in one window of the index, at the place the  *)
(* window's numbers give it, whatever the file and the size of the windows *)
(* (index_file_chunks).                                                    *)
THEOREM EveryLineTiled ==
    ASSUME AsInSource, NEW Line, NEW file \in Seq(Line)
    PROVE  LinesTiled(file)
<1> SUFFICES ASSUME NEW i \in DOMAIN file, Trim[file[i]] # Empty
             PROVE  \E c \in Chunks(file) :
                       /\ i \in c.first .. c.last /\ c.body[i - c.first + 1] = file[i]
                       /\ \A d \in Chunks(file) : i \in d.first .. d.last => d = c
  BY DEF LinesTiled
<1>1. i \in Nat /\ 1 <= i /\ i <= Len(file) /\ Len(file) \in Nat
  OBVIOUS
<1> DEFINE k == (i - 1) \div ChunkLines
<1>2. /\ k \in Nat /\ k <= Len(file) \div ChunkLines /\ Len(file) \div ChunkLines \in Nat
      /\ k * ChunkLines + 1 <= i /\ i <= (k + 1) * ChunkLines
      /\ k * ChunkLines \in Nat /\ (k + 1) * ChunkLines \in Nat
  <2>1. ChunkLines \in Nat \ {0}
    BY DEF AsInSource
  <2>2. k \in Nat /\ Len(file) \div ChunkLines \in Nat
    BY <1>1, <2>1
  <2>3. k * ChunkLines <= i - 1 /\ i - 1 < (k + 1) * ChunkLines
    <3>1. i - 1 \in Nat
      BY <1>1
    <3>2. QED
      BY <3>1, <2>1, Quotient
  <2>4. Len(file) < (Len(file) \div ChunkLines + 1) * ChunkLines
    BY <1>1, <2>1
  <2> HIDE DEF k
  <2>5. k <= Len(file) \div ChunkLines
    <3> DEFINE m == Len(file) \div ChunkLines
    <3>1. m \in Nat /\ Len(file) < (m + 1) * ChunkLines
      BY <2>2, <2>4
    <3> HIDE DEF m
    <3>2. ~(m < k)
      <4> SUFFICES ASSUME m < k PROVE FALSE
        OBVIOUS
      <4>1. (m + 1) * ChunkLines <= k * ChunkLines /\ (m + 1) * ChunkLines \in Nat /\ k * ChunkLines \in Nat
        BY Multiples, <3>1, <2>1, <2>2
      <4>2. QED
        BY <4>1, <3>1, <2>3, <1>1
    <3>3. QED
      BY <3>1, <3>2, <2>2 DEF m
  <2>6. k * ChunkLines \in Nat /\ (k + 1) * ChunkLines \in Nat
    BY <2>1, <2>2
  <2>7. QED
    BY <1>1, <2>2, <2>3, <2>5, <2>6
<1> HIDE DEF k
<1>3. i \in Begins(k) .. Ends(k, Len(file))
  BY <1>1, <1>2 DEF Begins, Ends, Least
<1>4. Chunk(file, k) \in Chunks(file)
  BY <1>2, <1>3, ChunksAre
<1> DEFINE c == Chunk(file, k)
<1>5. c.first = Begins(k) /\ c.last = Ends(k, Len(file)) /\ c \in Chunks(file)
  BY <1>4 DEF Chunk
<1> HIDE DEF c
<1>6. i - c.first + 1 \in 1 .. Len(c.body) /\ c.body[i - c.first + 1] = file[i]
  <2>1. PICK j \in Nat : IsWindow(c, j, file)
    BY <1>5, WindowIs
  <2>2. /\ c.first \in Nat /\ c.last \in Nat /\ Len(c.body) \in Nat
        /\ \A n \in 1 .. Len(c.body) : c.body[n] = file[c.first - 1 + n]
        /\ i - c.first + 1 <= Len(c.body)
    BY <2>1, <1>3, <1>5 DEF IsWindow
  <2>3. i >= c.first
    BY <1>3, <1>5, <2>2
  <2>4. i - c.first + 1 \in 1 .. Len(c.body) /\ c.first - 1 + (i - c.first + 1) = i
    BY <1>1, <2>2, <2>3
  <2>5. QED
    BY <2>2, <2>4
<1>7. ASSUME NEW d \in Chunks(file), i \in d.first .. d.last PROVE d = c
  <2>1. PICK j \in Nat : d = Chunk(file, j) /\ IsWindow(d, j, file)
    BY WindowIs
  <2>2. /\ d.first \in Nat /\ d.last \in Nat
        /\ j * ChunkLines + 1 <= i /\ i <= (j + 1) * ChunkLines
    <3>1. d.first = j * ChunkLines + 1 /\ d.last = Least((j + 1) * ChunkLines, Len(file))
          /\ d.first \in Nat /\ d.last \in Nat
      BY <2>1 DEF IsWindow, Begins, Ends
    <3>2. (j + 1) * ChunkLines \in Nat /\ j * ChunkLines \in Nat
      BY <2>1 DEF AsInSource
    <3>3. QED
      BY <3>1, <3>2, <1>1, <1>7 DEF Least
  <2>3. ~(j < k)
    <3> SUFFICES ASSUME j < k PROVE FALSE
      OBVIOUS
    <3>1. (j + 1) * ChunkLines <= k * ChunkLines /\ (j + 1) * ChunkLines \in Nat
      BY Multiples, <2>1, <1>2 DEF AsInSource
    <3>2. QED
      BY <3>1, <2>2, <1>1, <1>2
  <2>4. ~(k < j)
    <3> SUFFICES ASSUME k < j PROVE FALSE
      OBVIOUS
    <3>1. (k + 1) * ChunkLines <= j * ChunkLines /\ j * ChunkLines \in Nat
      BY Multiples, <2>1, <1>2 DEF AsInSource
    <3>2. QED
      BY <3>1, <2>2, <1>1, <1>2
  <2>5. j = k
    BY <2>1, <2>3, <2>4, <1>2
  <2>6. QED
    BY <2>1, <2>5 DEF c
<1>8. i \in c.first .. c.last
  BY <1>3, <1>5
<1>9. QED
  BY <1>5, <1>6, <1>7, <1>8

--------------------------------------------------------------------------------
(* What is nearest, and what has most votes                                *)

LEMMA HasALeast ==
    ASSUME NEW S \in SUBSET Nat, S # {}
    PROVE  \E m \in S : \A x \in S : m <= x
<1>1. PICK m \in S : \A x \in S : <<x, m>> \notin OpToRel(<, Nat)
  BY WFMin, NatLessThanWellFounded, Zenon
<1>2. \A x \in S : ~(x < m)
  BY <1>1 DEF OpToRel
<1>3. QED
  BY <1>2

LEMMA NearestAreThere ==
    ASSUME NEW S \in SUBSET Int, S # {}
    PROVE  \E s \in Nearest(S) : \A t \in Nearest(S) : s <= t
<1> DEFINE Sizes == {Abs(s) : s \in S}
<1>1. Sizes \in SUBSET Nat /\ Sizes # {}
  BY DEF Abs
<1>2. PICK a \in Sizes : \A x \in Sizes : a <= x
  BY <1>1, HasALeast
<1>3. PICK s \in S : Abs(s) = a
  BY <1>2
<1>4. \A t \in S : Abs(s) <= Abs(t)
  BY <1>2, <1>3
<1>5. \A t \in S : t \in Nearest(S) <=> Abs(t) = Abs(s)
  <2> TAKE t \in S
  <2>1. Abs(t) \in Nat /\ Abs(s) \in Nat
    BY <1>3 DEF Abs
  <2>2. QED
    BY <1>3, <1>4, <2>1 DEF Nearest
<1>6. s \in Nearest(S) /\ \A t \in Nearest(S) : t \in S /\ (t = s \/ t = -s)
  <2>1. \A t \in Nearest(S) : t \in S
    BY DEF Nearest
  <2>2. s \in Nearest(S)
    BY <1>3, <1>5
  <2>3. ASSUME NEW t \in Nearest(S) PROVE t = s \/ t = -s
    <3>1. t \in Int /\ s \in Int /\ Abs(t) = Abs(s)
      BY <1>3, <1>5, <2>1
    <3>2. QED
      BY <3>1 DEF Abs
  <2>4. QED
    BY <2>1, <2>2, <2>3
<1>7. CASE -s \in Nearest(S) /\ 0 < s
  BY <1>3, <1>6, <1>7
<1>8. CASE ~(-s \in Nearest(S) /\ 0 < s)
  BY <1>3, <1>6, <1>8
<1>9. QED
  BY <1>7, <1>8

(* Of values that are bounded one is the largest.                          *)
LEMMA HasALargest ==
    ASSUME NEW S \in SUBSET Nat, S # {}, NEW b \in Nat, \A x \in S : x <= b
    PROVE  \E m \in S : \A x \in S : x <= m
<1> DEFINE T == {b - x : x \in S}
<1>1. T \in SUBSET Nat /\ T # {}
  <2>1. \A x \in S : b - x \in Nat
    OBVIOUS
  <2>2. QED
    BY <2>1
<1>2. PICK y \in T : \A z \in T : y <= z
  BY <1>1, HasALeast
<1>3. PICK m \in S : y = b - m
  BY <1>2
<1>4. \A x \in S : b - m <= b - x
  BY <1>2, <1>3
<1>5. QED
  BY <1>3, <1>4

LEMMA VotesAreFinite ==
    ASSUME NEW Line, NEW chunk, chunk.body \in Seq(Line), NEW now \in Seq(Line)
    PROVE  /\ IsFiniteSet(DistinctiveLines(chunk.body))
           /\ Cardinality(DistinctiveLines(chunk.body)) \in Nat
           /\ IsFiniteSet(Votes(chunk, now)) /\ Cardinality(Votes(chunk, now)) \in Nat
           /\ \A s : /\ For(chunk, now, s) \in Nat
                     /\ For(chunk, now, s) <= Cardinality(Votes(chunk, now))
<1>1. \A q \in Seq(Line) : IsFiniteSet(DistinctiveLines(q))
  <2> TAKE q \in Seq(Line)
  <2>1. DOMAIN q = 1 .. Len(q) /\ Len(q) \in Nat
    OBVIOUS
  <2>2. IsFiniteSet(1 .. Len(q))
    BY <2>1, FS_Interval
  <2>3. DistinctiveLines(q) \subseteq 1 .. Len(q)
    BY <2>1 DEF DistinctiveLines
  <2>4. QED
    BY <2>2, <2>3, FS_Subset
<1>2. IsFiniteSet(DistinctiveLines(chunk.body) \X DistinctiveLines(now))
  BY <1>1, FS_Product
<1>3. IsFiniteSet(Votes(chunk, now))
  BY <1>2, FS_Subset DEF Votes
<1>4. \A s : /\ For(chunk, now, s) \in Nat
             /\ For(chunk, now, s) <= Cardinality(Votes(chunk, now))
  <2> TAKE s
  <2> DEFINE own == {v \in Votes(chunk, now) : ShiftOf(chunk, v) = s}
  <2>1. own \subseteq Votes(chunk, now)
    OBVIOUS
  <2>2. IsFiniteSet(own) /\ Cardinality(own) <= Cardinality(Votes(chunk, now))
    BY <2>1, <1>3, FS_Subset
  <2>3. QED
    BY <2>2, FS_CardinalityType DEF For
<1>5. QED
  BY <1>1, <1>3, <1>4, FS_CardinalityType

(* A vote is a line of the window and where it now stands, so the votes    *)
(* for a shift are the lines that stand where it puts them.                *)
LEMMA VotesAreKept ==
    ASSUME NEW Line, NEW chunk, chunk.first \in Nat, chunk.body \in Seq(Line),
           NEW now \in Seq(Line), NEW s \in Int
    PROVE  Kept(chunk, now, s) = For(chunk, now, s)
<1> DEFINE There(i) == chunk.first - 1 + i + s
           kept == {i \in DistinctiveLines(chunk.body) :
                       There(i) \in DOMAIN now /\ Trim[now[There(i)]] = Trim[chunk.body[i]]}
           own == {v \in Votes(chunk, now) : ShiftOf(chunk, v) = s}
           vote == [i \in kept |-> <<i, There(i)>>]
<1>1. IsFiniteSet(kept)
  BY VotesAreFinite, FS_Subset
<1>2. \A i \in DistinctiveLines(chunk.body) : i \in Nat
  BY DEF DistinctiveLines
<1>3. \A i \in kept : <<i, There(i)>> \in own
  <2> TAKE i \in kept
  <2>1. There(i) \in DOMAIN now /\ Trim[now[There(i)]] = Trim[chunk.body[i]]
    OBVIOUS
  <2>2. Trim[chunk.body[i]] \in Distinctive
    BY DEF DistinctiveLines
  <2>3. There(i) \in DistinctiveLines(now)
    BY <2>1, <2>2 DEF DistinctiveLines
  <2>4. <<i, There(i)>> \in Votes(chunk, now)
    BY <2>1, <2>3 DEF Votes
  <2>5. There(i) - (chunk.first - 1 + i) = s
    BY <1>2
  <2>6. ShiftOf(chunk, <<i, There(i)>>) = s
    BY <2>5 DEF ShiftOf
  <2>7. QED
    BY <2>4, <2>6
<1>4. \A v \in own : v[1] \in kept /\ v = <<v[1], There(v[1])>>
  <2> TAKE v \in own
  <2>1. PICK i \in DistinctiveLines(chunk.body), j \in DistinctiveLines(now) :
            v = <<i, j>> /\ Trim[chunk.body[i]] = Trim[now[j]]
    BY DEF Votes
  <2>2. j \in DOMAIN now /\ j \in Nat /\ i \in Nat
    BY <1>2 DEF DistinctiveLines
  <2>3. j - (chunk.first - 1 + i) = s
    BY <2>1 DEF ShiftOf
  <2>4. j = There(i)
    BY <2>2, <2>3
  <2>5. QED
    BY <2>1, <2>2, <2>4
<1> HIDE DEF own, There
<1>5. vote \in [kept -> own]
  BY <1>3
<1>6. \A i, j \in kept : vote[i] = vote[j] => i = j
  OBVIOUS
<1>7. \A v \in own : \E i \in kept : vote[i] = v
  BY <1>4
<1>8. ExistsBijection(kept, own)
  <2> HIDE DEF vote, kept
  <2>1. vote \in Injection(kept, own)
    BY <1>5, <1>6 DEF Injection, IsInjective
  <2>2. vote \in Surjection(kept, own)
    BY <1>5, <1>7 DEF Surjection
  <2>3. QED
    BY <2>1, <2>2 DEF Bijection, ExistsBijection
<1>9. Cardinality(own) = Cardinality(kept)
  BY <1>1, <1>8, FS_Bijection
<1>10. Kept(chunk, now, s) = Cardinality(kept)
  BY DEF Kept, There
<1>11. QED
  BY <1>9, <1>10 DEF For, own

--------------------------------------------------------------------------------
(* Where a hit may lead                                                    *)

Copies(c, now) ==
    {k \in 1 .. Len(now) - Len(c.body) + 1 : SubSeq(now, k, k + Len(c.body) - 1) = c.body}

Lands(c, asked, found, file, now) ==
    /\ found.status = "relocated" =>
           /\ 1 <= found.first /\ found.first <= found.match
           /\ found.match <= found.last /\ found.last <= Len(now)
           /\ Copies(c, now) # {} =>
               /\ found.first \in Copies(c, now)
               /\ \A k \in Copies(c, now) : Abs(found.first - c.first) <= Abs(k - c.first)
               /\ asked < c.first + Len(c.body) => now[found.match] = file[asked]
           /\ Copies(c, now) = {} =>
                  2 * Kept(c, now, found.shift) >= Cardinality(DistinctiveLines(c.body))
    /\ found.status = "stale" =>
           /\ Copies(c, now) = {}
           /\ \/ Cardinality(DistinctiveLines(c.body)) < 3
              \/ \A s \in (1 - c.last) .. Len(now) :
                     2 * Kept(c, now, s) < Cardinality(DistinctiveLines(c.body))

LEMMA CopiesAreExact ==
    ASSUME NEW Line, NEW chunk, chunk.first \in Nat, chunk.body \in Seq(Line),
           NEW now \in Seq(Line)
    PROVE  /\ ExactShifts(chunk, now) \in SUBSET Int
           /\ \A k \in Copies(chunk, now) : k - chunk.first \in ExactShifts(chunk, now)
           /\ \A s \in ExactShifts(chunk, now) : chunk.first + s \in Copies(chunk, now)
<1> DEFINE n == Len(chunk.body)
           T == {t \in 0 .. Len(now) - n : SubSeq(now, t + 1, t + n) = chunk.body}
<1>1. n \in Nat /\ Len(now) \in Nat
  OBVIOUS
<1>2. ExactShifts(chunk, now) = {t - (chunk.first - 1) : t \in T}
  BY DEF ExactShifts
<1>3. Copies(chunk, now) = {k \in 1 .. Len(now) - n + 1 : SubSeq(now, k, k + n - 1) = chunk.body}
  BY DEF Copies
<1> HIDE DEF n
<1>4. \A k \in Copies(chunk, now) : k - 1 \in T /\ k \in Int
  <2> TAKE k \in Copies(chunk, now)
  <2>1. k \in 1 .. Len(now) - n + 1 /\ SubSeq(now, k, k + n - 1) = chunk.body
    BY <1>3
  <2>2. k - 1 \in 0 .. Len(now) - n /\ (k - 1) + 1 = k /\ (k - 1) + n = k + n - 1 /\ k \in Int
    BY <1>1, <2>1
  <2>3. QED
    BY <2>1, <2>2
<1>5. \A t \in T : t + 1 \in Copies(chunk, now) /\ t \in Int
  <2> TAKE t \in T
  <2>1. t + 1 \in 1 .. Len(now) - n + 1 /\ (t + 1) + n - 1 = t + n /\ t \in Int
    BY <1>1
  <2>2. QED
    BY <1>3, <2>1
<1> HIDE DEF T
<1>6. \A k \in Copies(chunk, now) : k - chunk.first \in ExactShifts(chunk, now)
  <2> TAKE k \in Copies(chunk, now)
  <2>1. (k - 1) - (chunk.first - 1) = k - chunk.first
    BY <1>4
  <2>2. QED
    BY <1>2, <1>4, <2>1
<1>7. \A s \in ExactShifts(chunk, now) : s \in Int /\ chunk.first + s \in Copies(chunk, now)
  <2> TAKE s \in ExactShifts(chunk, now)
  <2>1. PICK t \in T : s = t - (chunk.first - 1)
    BY <1>2
  <2>2. chunk.first + s = t + 1 /\ s \in Int
    BY <1>5, <2>1
  <2>3. QED
    BY <1>5, <2>1, <2>2
<1>8. QED
  BY <1>6, <1>7

(* The numbers of a hit that has moved                                     *)
LEMMA MovedLies ==
    ASSUME NEW chunk, chunk.first \in Nat, chunk.last \in Nat, chunk.first <= chunk.last,
           NEW match \in chunk.first .. chunk.last, NEW s \in Int, NEW length \in Nat,
           1 <= length, chunk.first + s <= length
    PROVE  LET found == Moved(chunk, match, s, length)
           IN /\ found.status = "relocated" /\ found.shift = s
              /\ 1 <= found.first /\ found.first <= found.match
              /\ found.match <= found.last /\ found.last <= length
              /\ 1 <= chunk.first + s => found.first = chunk.first + s
              /\ 1 <= chunk.first + s /\ match + s <= length => found.match = match + s
<1> DEFINE first == Greatest(chunk.first + s, 1)
           last == Greatest(Least(chunk.last + s, length), first)
           m == Clamp(match + s, first, last)
<1>1. /\ first \in Int /\ 1 <= first /\ first <= length
      /\ 1 <= chunk.first + s => first = chunk.first + s
  BY DEF Greatest
<1>2. last \in Int /\ first <= last /\ last <= length
  BY <1>1 DEF Greatest, Least
<1>3. /\ m \in Int /\ first <= m /\ m <= last
      /\ 1 <= chunk.first + s /\ match + s <= length => m = match + s
  <2>1. m \in Int /\ first <= m /\ m <= last
    <3> HIDE DEF first, last
    <3>1. QED
      BY <1>1, <1>2 DEF Clamp, Greatest, Least
  <2>2. ASSUME 1 <= chunk.first + s, match + s <= length PROVE m = match + s
    <3>1. first <= match + s
      BY <1>1, <2>2
    <3>2. match + s <= last
      BY <1>1, <2>2 DEF Greatest, Least
    <3> HIDE DEF first, last
    <3>3. QED
      BY <1>1, <1>2, <3>1, <3>2 DEF Clamp, Greatest, Least
  <2>3. QED
    BY <2>1, <2>2
<1>4. Moved(chunk, match, s, length) =
          [status |-> "relocated", first |-> first, last |-> last, match |-> m, shift |-> s]
  BY DEF Moved
<1> HIDE DEF first, last, m
<1>5. QED
  BY <1>1, <1>2, <1>3, <1>4

(* Of the shifts that the votes are for, one is Nearest among those with   *)
(* most of them.                                                           *)
LEMMA MostVoted ==
    ASSUME NEW Line, NEW chunk, chunk.first \in Nat, chunk.body \in Seq(Line),
           NEW now \in Seq(Line), NEW vote \in Votes(chunk, now)
    PROVE  LET shifts == {ShiftOf(chunk, v) : v \in Votes(chunk, now)}
               most == {s \in shifts : \A t \in shifts : For(chunk, now, t) <= For(chunk, now, s)}
           IN \E s \in Nearest(most) : s \in shifts /\ \A t \in shifts : For(chunk, now, t) <= For(chunk, now, s)
<1> DEFINE shifts == {ShiftOf(chunk, v) : v \in Votes(chunk, now)}
           most == {s \in shifts : \A t \in shifts : For(chunk, now, t) <= For(chunk, now, s)}
           counts == {For(chunk, now, s) : s \in shifts}
           b == Cardinality(Votes(chunk, now))
<1>1. shifts \in SUBSET Int /\ shifts # {}
  <2>1. \A v \in Votes(chunk, now) : v[1] \in Nat /\ v[2] \in Nat
    BY DEF Votes, DistinctiveLines
  <2>2. \A v \in Votes(chunk, now) : ShiftOf(chunk, v) \in Int
    BY <2>1 DEF ShiftOf
  <2>3. QED
    BY <2>2
<1> HIDE DEF shifts
<1>2. b \in Nat /\ \A s : For(chunk, now, s) \in Nat /\ For(chunk, now, s) <= b
  BY VotesAreFinite
<1> HIDE DEF b
<1>3. counts \in SUBSET Nat /\ counts # {} /\ \A x \in counts : x <= b
  BY <1>1, <1>2
<1> HIDE DEF counts
<1>4. PICK top \in counts : \A x \in counts : x <= top
  BY <1>2, <1>3, HasALargest
<1>5. \E s \in shifts : For(chunk, now, s) = top /\ \A t \in shifts : For(chunk, now, t) <= top
  BY <1>4 DEF counts
<1>6. most # {} /\ most \in SUBSET Int /\ most \subseteq shifts
  BY <1>1, <1>5
<1>7. \A s \in most : \A t \in shifts : For(chunk, now, t) <= For(chunk, now, s)
  OBVIOUS
<1> HIDE DEF most
<1>8. PICK s \in Nearest(most) : \A t \in Nearest(most) : s <= t
  BY <1>6, NearestAreThere
<1>9. s \in most
  BY <1>8 DEF Nearest
<1>10. QED
  BY <1>6, <1>7, <1>8, <1>9 DEF most, shifts

LEMMA VotedIsKept ==
    ASSUME AsInSource, NEW Line, NEW chunk, chunk.first \in Nat, chunk.body \in Seq(Line),
           NEW now \in Seq(Line), NEW s \in Voted(chunk, now)
    PROVE  /\ s \in Int /\ Len(now) >= 1 /\ chunk.first + s <= Len(now)
           /\ 2 * Kept(chunk, now, s) >= Cardinality(DistinctiveLines(chunk.body))
<1> DEFINE shifts == {ShiftOf(chunk, v) : v \in Votes(chunk, now)}
           voters == Cardinality(DistinctiveLines(chunk.body))
<1>1. s \in shifts /\ For(chunk, now, s) * 2 >= voters
  BY DEF Voted, Nearest
<1>2. PICK v \in Votes(chunk, now) : ShiftOf(chunk, v) = s
  BY <1>1
<1>3. v[1] \in Nat /\ v[1] >= 1 /\ v[2] \in Nat /\ v[2] >= 1 /\ v[2] <= Len(now)
  <2>1. v[1] \in DOMAIN chunk.body /\ v[2] \in DOMAIN now
    BY <1>2 DEF Votes, DistinctiveLines
  <2>2. QED
    BY <2>1
<1>4. s = v[2] - (chunk.first - 1 + v[1])
  BY <1>2 DEF ShiftOf
<1>5. s \in Int /\ Len(now) >= 1 /\ chunk.first + s <= Len(now)
  BY <1>3, <1>4
<1>6. For(chunk, now, s) \in Nat /\ voters \in Nat /\ Kept(chunk, now, s) = For(chunk, now, s)
  BY <1>5, VotesAreFinite, VotesAreKept
<1>7. QED
  BY <1>1, <1>5, <1>6

LEMMA RelocatedLands ==
    ASSUME AsInSource, NEW Line, NEW file \in Seq(Line), NEW now \in Seq(Line),
           NEW c \in Chunks(file), NEW m \in c.first .. c.last, NEW s \in RelocateChunk(c, now)
    PROVE  Lands(c, m, Moved(c, m, s, Len(now)), file, now)
<1> DEFINE found == Moved(c, m, s, Len(now))
           n == Len(c.body)
<1>1. /\ c.body \in Seq(Line) /\ n \in Nat /\ 1 <= n
      /\ c.first \in Nat /\ c.last \in Nat /\ 1 <= c.first /\ c.first <= c.last
      /\ \A i \in 1 .. n : c.body[i] = file[c.first - 1 + i]
  BY WindowIs DEF IsWindow
<1>2. Len(now) \in Nat
  OBVIOUS
<1>3. /\ ExactShifts(c, now) \in SUBSET Int
      /\ \A k \in Copies(c, now) : k - c.first \in ExactShifts(c, now)
      /\ \A t \in ExactShifts(c, now) : c.first + t \in Copies(c, now)
  BY <1>1, CopiesAreExact
<1>4. CASE ExactShifts(c, now) # {}
  <2>1. \E t \in Nearest(ExactShifts(c, now)) : \A u \in Nearest(ExactShifts(c, now)) : t <= u
    BY <1>3, <1>4, NearestAreThere
  <2>2. s \in Nearest(ExactShifts(c, now))
    BY <2>1 DEF RelocateChunk
  <2>3. s \in ExactShifts(c, now) /\ \A t \in ExactShifts(c, now) : Abs(s) <= Abs(t)
    BY <2>2 DEF Nearest
  <2> DEFINE p == c.first + s
  <2>4. p \in 1 .. Len(now) - n + 1 /\ SubSeq(now, p, p + n - 1) = c.body /\ p \in Copies(c, now)
    BY <1>3, <2>3 DEF Copies
  <2>5. s \in Int
    BY <1>3, <2>3
  <2>6. \A i \in 1 .. n : now[p + i - 1] = c.body[i]
    <3> HIDE DEF p, n
    <3>1. p \in Int /\ 1 <= p /\ p + n - 1 <= Len(now)
      BY <1>1, <1>2, <2>4
    <3>2. \A i \in 1 .. (p + n - 1) - p + 1 : SubSeq(now, p, p + n - 1)[i] = now[p + i - 1]
      BY <3>1, <1>1, SubSeqProperties
    <3>3. (p + n - 1) - p + 1 = n
      BY <3>1, <1>1
    <3>4. QED
      BY <2>4, <3>2, <3>3
  <2>7. 1 <= p /\ p <= Len(now) /\ 1 <= Len(now) /\ p + n - 1 <= Len(now)
    <3> HIDE DEF p, n
    <3>1. QED
      BY <1>1, <1>2, <2>4
  <2>8. /\ found.status = "relocated" /\ found.shift = s
        /\ 1 <= found.first /\ found.first <= found.match
        /\ found.match <= found.last /\ found.last <= Len(now)
        /\ found.first = p
        /\ m + s <= Len(now) => found.match = m + s
    BY <1>1, <1>2, <2>5, <2>7, MovedLies
  <2> HIDE DEF found
  <2>9. \A k \in Copies(c, now) : Abs(found.first - c.first) <= Abs(k - c.first)
    <3>1. found.first - c.first = s
      BY <1>1, <2>5, <2>8
    <3>2. QED
      BY <1>3, <2>3, <3>1
  <2>10. ASSUME m < c.first + n PROVE now[found.match] = file[m]
    <3>1. m \in Nat /\ m - c.first + 1 \in 1 .. n
      BY <1>1, <2>10
    <3>2. /\ m + s <= Len(now) /\ p + (m - c.first + 1) - 1 = m + s
          /\ c.first - 1 + (m - c.first + 1) = m
      <4>1. m < c.first + n /\ c.first + s + n - 1 <= Len(now)
        BY <2>7, <2>10
      <4> HIDE DEF n
      <4>2. c.first \in Int /\ s \in Int /\ m \in Int /\ n \in Int /\ Len(now) \in Int
        BY <1>1, <1>2, <2>5, <3>1
      <4>3. \A x, y, i, k, l \in Int : i < x + k /\ x + y + k - 1 <= l =>
                i + y <= l /\ x + y + (i - x + 1) - 1 = i + y /\ x - 1 + (i - x + 1) = i
        OBVIOUS
      <4> DEFINE f == c.first
                 l == Len(now)
      <4>4. m < f + n /\ f + s + n - 1 <= l /\ f \in Int /\ s \in Int /\ m \in Int /\ n \in Int /\ l \in Int
        BY <4>1, <4>2
      <4>5. p = f + s
        OBVIOUS
      <4> HIDE DEF f, l, p
      <4>6. m + s <= l /\ p + (m - f + 1) - 1 = m + s /\ f - 1 + (m - f + 1) = m
        BY <4>3, <4>4, <4>5
      <4>7. QED
        BY <4>6 DEF f, l
    <3> HIDE DEF p, n
    <3>3. now[m + s] = c.body[m - c.first + 1] /\ c.body[m - c.first + 1] = file[m]
      BY <1>1, <2>6, <3>1, <3>2
    <3>4. QED
      BY <2>8, <3>2, <3>3
  <2>11. Copies(c, now) # {}
    BY <2>4
  <2> HIDE DEF n
  <2>12. QED
    BY <2>4, <2>8, <2>9, <2>10, <2>11 DEF Lands, found, n
<1>5. CASE ExactShifts(c, now) = {}
  <2>1. s \in Voted(c, now)
    BY <1>5 DEF RelocateChunk, Nearest
  <2>2. /\ s \in Int /\ Len(now) >= 1 /\ c.first + s <= Len(now)
        /\ 2 * Kept(c, now, s) >= Cardinality(DistinctiveLines(c.body))
    BY <1>1, <2>1, VotedIsKept
  <2>3. /\ found.status = "relocated" /\ found.shift = s
        /\ 1 <= found.first /\ found.first <= found.match
        /\ found.match <= found.last /\ found.last <= Len(now)
    BY <1>1, <1>2, <2>2, MovedLies
  <2>4. Copies(c, now) = {}
    BY <1>3, <1>5
  <2> HIDE DEF found
  <2>5. QED
    BY <2>2, <2>3, <2>4 DEF Lands, found
<1>6. QED
  BY <1>4, <1>5

LEMMA StaleHasNowhere ==
    ASSUME AsInSource, NEW Line, NEW file \in Seq(Line), NEW now \in Seq(Line),
           NEW c \in Chunks(file), RelocateChunk(c, now) = {}
    PROVE  /\ Copies(c, now) = {}
           /\ \/ Cardinality(DistinctiveLines(c.body)) < 3
              \/ \A s \in (1 - c.last) .. Len(now) :
                     2 * Kept(c, now, s) < Cardinality(DistinctiveLines(c.body))
<1>1. /\ c.body \in Seq(Line) /\ c.first \in Nat /\ c.last \in Nat
  BY WindowIs DEF IsWindow
<1>2. /\ ExactShifts(c, now) \in SUBSET Int
      /\ \A k \in Copies(c, now) : k - c.first \in ExactShifts(c, now)
  BY <1>1, CopiesAreExact
<1>3. ExactShifts(c, now) = {}
  <2>1. ASSUME ExactShifts(c, now) # {} PROVE FALSE
    <3>1. Nearest(ExactShifts(c, now)) # {}
      BY <1>2, <2>1, NearestAreThere
    <3>2. RelocateChunk(c, now) # {}
      BY <3>1 DEF RelocateChunk
    <3>3. QED
      BY <3>2
  <2>2. QED
    BY <2>1
<1>4. Copies(c, now) = {} /\ Voted(c, now) = {}
  BY <1>2, <1>3 DEF RelocateChunk, Nearest
<1> DEFINE shifts == {ShiftOf(c, v) : v \in Votes(c, now)}
           most == {s \in shifts : \A t \in shifts : For(c, now, t) <= For(c, now, s)}
           voters == Cardinality(DistinctiveLines(c.body))
<1>5. voters \in Nat /\ \A s : For(c, now, s) \in Nat
  BY <1>1, VotesAreFinite
<1>6. ASSUME ~(voters < 3), NEW s \in (1 - c.last) .. Len(now)
      PROVE  2 * Kept(c, now, s) < voters
  <2>1. {t \in Nearest(most) : For(c, now, t) * 2 >= voters} = {}
    BY <1>4, <1>6 DEF Voted, AsInSource
  <2>2. For(c, now, s) * 2 < voters
    <3>1. CASE s \in shifts
      <4>1. PICK v \in Votes(c, now) : s = ShiftOf(c, v)
        BY <3>1
      <4>2. PICK t \in Nearest(most) : t \in shifts /\ \A u \in shifts : For(c, now, u) <= For(c, now, t)
        BY <1>1, <4>1, MostVoted
      <4>3. For(c, now, t) * 2 < voters
        <5>1. ~(For(c, now, t) * 2 >= voters)
          BY <2>1, <4>2
        <5> HIDE DEF voters
        <5>2. QED
          BY <1>5, <5>1
      <4>4. For(c, now, s) <= For(c, now, t)
        BY <3>1, <4>2
      <4> HIDE DEF voters
      <4>5. QED
        BY <1>5, <4>3, <4>4
    <3>2. CASE s \notin shifts
      <4>1. {v \in Votes(c, now) : ShiftOf(c, v) = s} = {}
        BY <3>2
      <4>2. For(c, now, s) = 0
        BY <4>1, FS_EmptySet DEF For
      <4>3. QED
        BY <1>5, <1>6, <4>2
    <3>3. QED
      BY <3>1, <3>2
  <2>3. s \in Int
    BY <1>1
  <2>4. Kept(c, now, s) = For(c, now, s)
    BY <1>1, <2>3, VotesAreKept
  <2> HIDE DEF voters
  <2>5. QED
    BY <1>5, <2>2, <2>4
<1>7. QED
  BY <1>4, <1>6

(* A hit that is relocated lies in the file as it is and leads to the      *)
(* nearest copy of its window, at the line that matched, or to where half  *)
(* of its distinctive lines are; a stale one has no such place: for any    *)
(* file, any change of it, and any size of the windows (relocate_chunk,    *)
(* resolve_location).                                                      *)
THEOREM HitsAreAnchored ==
    ASSUME AsInSource, NEW Line, NEW file \in Seq(Line), NEW now, now = Missing \/ now \in Seq(Line)
    PROVE  Anchored(file, now)
<1>1. ASSUME NEW a \in Locations(file, now)
      PROVE  Lands(a.chunk, a.asked, a.found, file, now)
  <2>00. PICK c \in Chunks(file) : \E i \in c.first .. c.last : \E l \in ResolveLocation(c, i, file, now) :
            a = [chunk |-> c, asked |-> i, found |-> l]
    BY <1>1 DEF Locations
  <2>1. PICK m \in c.first .. c.last : \E l \in ResolveLocation(c, m, file, now) :
            a = [chunk |-> c, asked |-> m, found |-> l]
    BY <2>00
  <2>1a. PICK r \in ResolveLocation(c, m, file, now) : a = [chunk |-> c, asked |-> m, found |-> r]
    BY <2>1
  <2>2. CASE now = Missing \/ now = file
    <3>1. r.status \in {"file_missing", "verified"}
      BY <2>1a, <2>2 DEF ResolveLocation
    <3>2. QED
      BY <2>1a, <3>1 DEF Lands
  <2>3. CASE ~(now = Missing \/ now = file) /\ RelocateChunk(c, now) = {}
    <3>1. r.status = "stale"
      BY <2>1a, <2>3 DEF ResolveLocation
    <3>2. now \in Seq(Line)
      BY <2>3
    <3>3. QED
      BY <2>1a, <2>3, <3>1, <3>2, StaleHasNowhere DEF Lands
  <2>4. CASE ~(now = Missing \/ now = file) /\ RelocateChunk(c, now) # {}
    <3>1. PICK s \in RelocateChunk(c, now) : r = Moved(c, m, s, Len(now))
      BY <2>1a, <2>4 DEF ResolveLocation
    <3>2. now \in Seq(Line)
      BY <2>4
    <3>3. QED
      BY <2>1a, <3>1, <3>2, RelocatedLands
  <2>5. QED
    BY <2>2, <2>3, <2>4
<1>2. QED
  BY <1>1 DEF Anchored, Lands, Copies
================================================================================
