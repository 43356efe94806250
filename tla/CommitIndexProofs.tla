--------------------------- MODULE CommitIndexProofs ---------------------------
(***************************************************************************)
(* Proofs about CommitIndex, for every commit graph, every number of       *)
(* passes and every number of crashes.  What a theorem needs of git and of *)
(* the cap is in its ASSUME.                                               *)
(***************************************************************************)
EXTENDS CommitIndex, FiniteSetTheorems, TLAPS

(* The cap never bites: the repository fits in --max-commits-per-repo.     *)
Uncapped == Cardinality(Commit) <= MaxCommits

(* HEAD stays on its line between the two reads of a pass.                 *)
Steady == "switch" \notin Disturb

--------------------------------------------------------------------------------
(* What a walk reaches from a commit it has reached is nothing new.        *)
LEMMA AncestryTransitive ==
    ASSUME NEW h \in Commit, NEW x \in Ancestry[h]
    PROVE  x \in Commit /\ Ancestry[x] \subseteq Ancestry[h]
BY DEF Ancestry

LEMMA ReachType ==
    ASSUME NEW x \in Commit \union {None}, NEW cut
    PROVE  Reach(x, cut) \subseteq Commit
BY DEF Reach, Ancestry

LEMMA ReachTransitive ==
    ASSUME NEW h \in Commit \union {None}, NEW cut, NEW x \in Reach(h, cut)
    PROVE  x \in Commit /\ Reach(x, cut) \subseteq Reach(h, cut)
<1>1. h \in Commit /\ x \in Ancestry[h]
  BY DEF Reach
<1>2. x \in Commit /\ Ancestry[x] \subseteq Ancestry[h]
  BY <1>1, AncestryTransitive
<1>3. QED
  BY <1>1, <1>2, CommitAssumption DEF Reach

(* Without a cap a pass takes every commit the walk yields.                *)
LEMMA FirstOfAll ==
    ASSUME Uncapped, NEW S \in SUBSET Commit
    PROVE  FirstOf(S, MaxCommits) = {S}
<1>1. IsFiniteSet(Commit) /\ MaxCommits \in Nat
  BY CommitAssumption, ProcessAssumption
<1>2. IsFiniteSet(S) /\ Cardinality(S) <= Cardinality(Commit)
  BY <1>1, FS_Subset
<1>3. Cardinality(S) \in Nat /\ Cardinality(Commit) \in Nat
  BY <1>1, <1>2, FS_CardinalityType
<1>4. Cardinality(S) <= MaxCommits
  BY <1>1, <1>2, <1>3 DEF Uncapped
<1>5. QED
  BY <1>4 DEF FirstOf

--------------------------------------------------------------------------------
LEMMA TypeInit == Init => TypeOK
<1> SUFFICES ASSUME Init PROVE TypeOK
  OBVIOUS
<1> USE CommitAssumption DEF Init, PassPc
<1>1. /\ event \in BOOLEAN /\ overlapped \in BOOLEAN /\ shallowFlag \in BOOLEAN
      /\ shallowSeen \in [Indexer -> BOOLEAN]
  BY Zenon
<1>2. /\ pc \in [Indexer -> PassPc] /\ todo \in [Indexer -> SUBSET Commit]
      /\ \A p \in Indexer : pc[p] \notin {"wipe", "insert"}
  OBVIOUS
<1>3. QED
  BY <1>1, <1>2 DEF TypeOK

LEMMA TypeStep == TypeOK /\ [Next]_vars => TypeOK'
<1> SUFFICES ASSUME TypeOK, [Next]_vars PROVE TypeOK'
  OBVIOUS
<1> USE DEF TypeOK, PassPc, git, db, pass, bounds
<1>1. CASE \E c \in Commit \union {None} : MoveHead(c)
  BY <1>1 DEF MoveHead
<1>2. CASE \E c \in Commit : Prune(c)
  BY <1>2 DEF Prune
<1>4. ASSUME NEW p \in Indexer, Begin(p) PROVE TypeOK'
  BY <1>4 DEF Begin
<1>5. ASSUME NEW p \in Indexer, ReadHead(p) PROVE TypeOK'
  BY <1>5 DEF ReadHead
<1>6. ASSUME NEW p \in Indexer, Walk(p) PROVE TypeOK'
  <2>1. PICK T \in FirstOf(NotHidden(last[p]), MaxCommits) :
           /\ todo' = [todo EXCEPT ![p] = T]
           /\ IF target[p] # None \/ T = {}
              THEN UNCHANGED target
              ELSE \E c \in NewestOf(T) : target' = [target EXCEPT ![p] = c]
    BY <1>6 DEF Walk
  <2>2. NotHidden(last[p]) \subseteq Commit
    BY ReachType DEF NotHidden, Visible
  <2>3. T \subseteq Commit
    BY <2>2 DEF FirstOf
  <2>4. target' \in [Indexer -> Commit \union {None}]
    BY <2>1, <2>3 DEF NewestOf
  <2>5. QED
    BY <1>6, <2>1, <2>3, <2>4 DEF Walk
<1>7. ASSUME NEW p \in Indexer, PersistRow(p) PROVE TypeOK'
  BY <1>7 DEF PersistRow, NewestOf
<1>8. ASSUME NEW p \in Indexer, WipeFts(p) PROVE TypeOK'
  BY <1>8 DEF WipeFts
<1>9. ASSUME NEW p \in Indexer, InsertFts(p) PROVE TypeOK'
  BY <1>9 DEF InsertFts
<1>10. ASSUME NEW p \in Indexer, Finish(p) PROVE TypeOK'
  BY <1>10 DEF Finish, SaveCursor, Return
<1>11. ASSUME NEW p \in Indexer, Abort(p) PROVE TypeOK'
  <2>1. event' \in BOOLEAN
    BY <1>11, Zenon DEF Abort
  <2>2. QED
    BY <1>11, <2>1 DEF Abort, Return
<1>12. CASE UNCHANGED vars
  BY <1>12 DEF vars
<1>13. QED
  BY <1>1, <1>2, <1>4, <1>5, <1>6, <1>7, <1>8, <1>9, <1>10, <1>11, <1>12
     DEF Next, Step

(* Types hold, whatever git does and whatever the cap.                     *)
THEOREM TypeCorrect == Spec => []TypeOK
BY TypeInit, TypeStep, PTL DEF Spec

--------------------------------------------------------------------------------
(* Why the cursor is covered: a pass carries the promise it is going to    *)
(* write.  What it read as its cursor is covered; the HEAD it read is on   *)
(* the line it walks; what its target reaches is either still to do or has *)
(* its row.                                                                *)
PassCovered(p) ==
    /\ Visible(last[p]) \subseteq rows
    /\ pc[p] = "walk" => Visible(target[p]) \subseteq Visible(head)
    /\ Persisting(p) => Visible(target[p]) \ todo[p] \subseteq rows
    /\ pc[p] \in {"wipe", "insert"} => doing[p] \in rows

AllCovered == CursorCovered /\ \A p \in Indexer : PassCovered(p)

CoverInv == TypeOK /\ AllCovered

LEMMA CoverInit == Init => CoverInv
BY TypeInit
   DEF Init, CoverInv, AllCovered, CursorCovered, PassCovered, Persisting, Visible, Reach

LEMMA CoverStep ==
    ASSUME Uncapped, Steady
    PROVE  CoverInv /\ [Next]_vars => CoverInv'
<1> SUFFICES ASSUME CoverInv, [Next]_vars PROVE CoverInv'
  OBVIOUS
<1>t. TypeOK /\ TypeOK'
  BY TypeStep DEF CoverInv
<1> SUFFICES AllCovered'
  BY <1>t DEF CoverInv
<1>a. AllCovered
  BY DEF CoverInv
<1>v. hidden' = hidden
  BY DEF Steady, vars, git, Next, MoveHead, Prune, Begin, Step, ReadHead,
         Walk, PersistRow, WipeFts, InsertFts, Finish, Abort
<1>n. Visible(None) = {}
  BY DEF Visible, Reach
<1> USE DEF git, db, pass, bounds, AllCovered, CursorCovered, PassCovered, Persisting,
            Visible, TypeOK
<1>1. CASE \E x \in Commit \union {None} : MoveHead(x)
  BY <1>1, <1>a, <1>v DEF MoveHead, Steady
<1>2. CASE \E x \in Commit : Prune(x)
  BY <1>2, <1>a, <1>v DEF Prune
<1>4. ASSUME NEW p \in Indexer, Begin(p) PROVE AllCovered'
  BY <1>4, <1>a, <1>t, <1>v DEF Begin
<1>5. ASSUME NEW p \in Indexer, ReadHead(p) PROVE AllCovered'
  BY <1>5, <1>a, <1>t, <1>v DEF ReadHead
(* The walk: without a cap it takes everything its HEAD reaches that the   *)
(* cursor it read does not, and what that cursor reaches has its rows.     *)
<1>6. ASSUME NEW p \in Indexer, Walk(p) PROVE AllCovered'
  <2> DEFINE S == NotHidden(last[p])
  <2>1. S \subseteq Commit
    BY <1>t, ReachType DEF NotHidden
  <2>2. FirstOf(S, MaxCommits) = {S}
    BY <2>1, FirstOfAll
  <2>3. /\ todo' = [todo EXCEPT ![p] = S]
        /\ IF target[p] # None \/ S = {}
           THEN UNCHANGED target
           ELSE \E x \in NewestOf(S) : target' = [target EXCEPT ![p] = x]
    BY <1>6, <2>2 DEF Walk
  <2>4. Visible(head) \ S \subseteq rows
    BY <1>a DEF NotHidden
  <2>5. Visible(target'[p]) \subseteq Visible(head)
    <3>1. CASE target'[p] = target[p]
      BY <1>6, <1>a, <3>1 DEF Walk
    <3>2. CASE target'[p] # target[p]
      <4>1. target'[p] \in Visible(head)
        BY <1>t, <2>3, <3>2 DEF NewestOf, NotHidden
      <4>2. QED
        BY <1>t, <4>1, ReachTransitive
    <3>3. QED
      BY <3>1, <3>2
  <2>6. pc' = [pc EXCEPT ![p] = "row"] /\ UNCHANGED <<head, rows, cursor, last, doing>>
    BY <1>6 DEF Walk
  <2>7. \A q \in Indexer \ {p} : target'[q] = target[q] /\ todo'[q] = todo[q]
    BY <1>t, <2>3
  <2>8. QED
    BY <1>a, <1>t, <1>v, <2>3, <2>4, <2>5, <2>6, <2>7
<1>7. ASSUME NEW p \in Indexer, PersistRow(p) PROVE AllCovered'
  BY <1>7, <1>a, <1>t, <1>v DEF PersistRow
<1>8. ASSUME NEW p \in Indexer, WipeFts(p) PROVE AllCovered'
  BY <1>8, <1>a, <1>t, <1>v DEF WipeFts
<1>9. ASSUME NEW p \in Indexer, InsertFts(p) PROVE AllCovered'
  BY <1>9, <1>a, <1>t, <1>v DEF InsertFts
<1>10. ASSUME NEW p \in Indexer, Finish(p) PROVE AllCovered'
  BY <1>10, <1>a, <1>t, <1>v, <1>n DEF Finish, SaveCursor, Return
<1>11. ASSUME NEW p \in Indexer, Abort(p) PROVE AllCovered'
  BY <1>11, <1>a, <1>t, <1>v, <1>n DEF Abort, Return
<1>12. CASE UNCHANGED vars
  BY <1>12, <1>a, <1>v DEF vars
<1>13. QED
  BY <1>1, <1>2, <1>4, <1>5, <1>6, <1>7, <1>8, <1>9, <1>10, <1>11, <1>12
     DEF Next, Step

(* The cursor never runs ahead of the rows: a pass may overlap others,     *)
(* fail anywhere and be repeated, and index_one_repo still never hides a   *)
(* commit that was not indexed.                                            *)
THEOREM CursorAlwaysCovered ==
    ASSUME Uncapped, Steady
    PROVE  Spec => []CursorCovered
<1>1. CoverInv => CursorCovered
  BY DEF CoverInv, AllCovered
<1>2. QED
  BY CoverInit, CoverStep, <1>1, PTL DEF Spec

(* The detailed passes implement the promise of CommitLog: rows are only   *)
(* added, and the cursor moves only to a commit whose history has its      *)
(* rows.                                                                   *)
THEOREM RefinesCommitLog ==
    ASSUME Uncapped, Steady
    PROVE  Spec => ImplementsCommitLog
<1>1. Init => Log!Init
  BY CommitAssumption DEF Init, Log!Init
<1>2. ASSUME CoverInv, [Next]_vars PROVE [Log!Next]_(Log!vars)
  <2>t. TypeOK /\ AllCovered
    BY <1>2 DEF CoverInv
  <2> USE DEF git, db, pass, bounds, Log!vars
  <2>1. CASE \E x \in Commit \union {None} : MoveHead(x)
    BY <2>1 DEF MoveHead
  <2>2. CASE \E x \in Commit : Prune(x)
    BY <2>2 DEF Prune
  <2>4. ASSUME NEW p \in Indexer,
               Begin(p) \/ ReadHead(p) \/ Walk(p) \/ WipeFts(p) \/ InsertFts(p) \/ Abort(p)
        PROVE  UNCHANGED Log!vars
    BY <2>4 DEF Begin, ReadHead, Walk, WipeFts, InsertFts, Abort
  <2>5. ASSUME NEW p \in Indexer, PersistRow(p) PROVE Log!Next
    <3>1. PICK x \in Commit : rows' = rows \union {x}
      BY <2>5, <2>t DEF PersistRow, NewestOf, TypeOK
    <3>2. Log!Learn(x)
      BY <2>5, <3>1 DEF PersistRow, Log!Learn
    <3>3. QED
      BY <3>2 DEF Log!Next
  <2>6. ASSUME NEW p \in Indexer, Finish(p) PROVE Log!Next \/ UNCHANGED Log!vars
    <3>1. UNCHANGED <<hidden, rows>>
      BY <2>6 DEF Finish
    <3>2. CASE target[p] = None
      BY <2>6, <3>1, <3>2 DEF Finish, SaveCursor
    <3>3. CASE target[p] # None
      <4>1. target[p] \in Commit /\ cursor' = target[p]
        BY <2>6, <2>t, <3>3 DEF Finish, SaveCursor, TypeOK
      <4>2. Visible(target[p]) \subseteq rows
        BY <2>6, <2>t DEF Finish, AllCovered, PassCovered, Persisting
      <4>3. Log!Advance(target[p])
        BY <3>1, <4>1, <4>2 DEF Log!Advance, Log!Reach, Log!Ancestry, Log!ParentClosed, Visible, Reach, Ancestry, ParentClosed
      <4>4. QED
        BY <4>1, <4>3 DEF Log!Next
    <3>4. QED
      BY <3>2, <3>3
  <2>7. CASE UNCHANGED vars
    BY <2>7 DEF vars
  <2>8. QED
    BY <1>2, <2>1, <2>2, <2>4, <2>5, <2>6, <2>7 DEF Next, Step
<1>3. QED
  BY <1>1, <1>2, CoverInit, CoverStep, PTL DEF Spec, ImplementsCommitLog, Log!Spec

--------------------------------------------------------------------------------
(* Why the search rows are exact while no two passes overlap: the one pass *)
(* under way still holds the cursor it read, it wipes behind the cursor    *)
(* only when gc has removed the cursor's commit, and what its target       *)
(* reaches is either still to do or has its one search row.                *)
PassSearchable(p) ==
    /\ Busy(p) => last[p] = cursor /\ \A q \in Indexer : Busy(q) => q = p
    /\ pc[p] = "walk" => Visible(target[p]) \subseteq Visible(head)
    /\ Persisting(p) =>
        /\ \A c \in Visible(target[p]) \ todo[p] : fts[c] = 1
        /\ cursor \notin pruned => todo[p] \intersect Visible(cursor) = {}
    /\ pc[p] = "insert" => fts[doing[p]] = 0

AllSearchable ==
    /\ \A c \in Commit : fts[c] <= 1
    /\ cursor \notin pruned => \A c \in Visible(cursor) : fts[c] = 1
    /\ \A p \in Indexer : PassSearchable(p)

SearchInv == TypeOK /\ (~overlapped => AllSearchable)

LEMMA SearchInit == Init => SearchInv
BY TypeInit
   DEF Init, SearchInv, AllSearchable, PassSearchable, Busy, Persisting, Visible, Reach

LEMMA SearchStep ==
    ASSUME Uncapped, Steady, "refetch" \notin Disturb
    PROVE  SearchInv /\ [Next]_vars => SearchInv'
<1> SUFFICES ASSUME SearchInv, [Next]_vars PROVE SearchInv'
  OBVIOUS
<1>t. TypeOK /\ TypeOK'
  BY TypeStep DEF SearchInv
<1> SUFFICES ASSUME ~overlapped' PROVE AllSearchable'
  BY <1>t DEF SearchInv
<1>o. ~overlapped
  BY DEF vars, pass, bounds, Next, MoveHead, Prune, Begin, Step, ReadHead,
         Walk, PersistRow, WipeFts, InsertFts, Finish, Abort
<1>a. AllSearchable
  BY <1>o DEF SearchInv
<1>v. hidden' = hidden
  BY DEF Steady, vars, git, Next, MoveHead, Prune, Begin, Step, ReadHead,
         Walk, PersistRow, WipeFts, InsertFts, Finish, Abort
<1>n. Visible(None) = {}
  BY DEF Visible, Reach
<1>c. Visible(cursor) \subseteq Commit /\ \A q \in Indexer : Visible(target[q]) \subseteq Commit
  BY <1>t, ReachType DEF Visible, TypeOK
<1> USE DEF git, db, pass, bounds, AllSearchable, PassSearchable, Busy, Persisting,
            Visible, TypeOK
<1>1. CASE \E x \in Commit \union {None} : MoveHead(x)
  BY <1>1, <1>a, <1>v DEF MoveHead, Steady
<1>2. CASE \E x \in Commit : Prune(x)
  BY <1>2, <1>a, <1>v DEF Prune
<1>4. ASSUME NEW p \in Indexer, Begin(p) PROVE AllSearchable'
  <2>1. \A q \in Indexer \ {p} : pc[q] = "idle"
    BY <1>4, Zenon DEF Begin
  <2>2. /\ pc' = [pc EXCEPT ![p] = "head"] /\ last' = [last EXCEPT ![p] = cursor]
        /\ UNCHANGED <<head, pruned, fts, cursor, target, todo, doing>>
    BY <1>4 DEF Begin
  <2>3. QED
    BY <1>a, <1>t, <1>v, <2>1, <2>2
<1>5. ASSUME NEW p \in Indexer, ReadHead(p) PROVE AllSearchable'
  BY <1>5, <1>a, <1>t, <1>v DEF ReadHead
<1>6. ASSUME NEW p \in Indexer, Walk(p) PROVE AllSearchable'
  <2> DEFINE S == NotHidden(last[p])
  <2>1. S \subseteq Commit
    BY <1>t, ReachType DEF NotHidden
  <2>2. FirstOf(S, MaxCommits) = {S}
    BY <2>1, FirstOfAll
  <2>3. /\ todo' = [todo EXCEPT ![p] = S]
        /\ IF target[p] # None \/ S = {}
           THEN UNCHANGED target
           ELSE \E x \in NewestOf(S) : target' = [target EXCEPT ![p] = x]
    BY <1>6, <2>2 DEF Walk
  <2>4. last[p] = cursor /\ pc[p] = "walk"
    BY <1>6, <1>a DEF Walk
  <2>5. Visible(target'[p]) \subseteq Visible(head)
    <3>1. CASE target'[p] = target[p]
      BY <1>6, <1>a, <3>1 DEF Walk
    <3>2. CASE target'[p] # target[p]
      <4>1. target'[p] \in Visible(head)
        BY <1>t, <2>3, <3>2 DEF NewestOf, NotHidden
      <4>2. QED
        BY <1>t, <4>1, ReachTransitive
    <3>3. QED
      BY <3>1, <3>2
  <2>6. \A x \in Visible(target'[p]) \ S : fts[x] = 1
    BY <1>a, <2>4, <2>5 DEF NotHidden
  <2>7. cursor \notin pruned => S \intersect Visible(cursor) = {}
    BY <2>4 DEF NotHidden
  <2>8. /\ pc' = [pc EXCEPT ![p] = "row"]
        /\ UNCHANGED <<head, pruned, fts, cursor, last, doing>>
    BY <1>6 DEF Walk
  <2>9. \A q \in Indexer \ {p} : ~Busy(q)
    BY <1>a, <2>4
  <2>10. QED
    BY <1>a, <1>t, <1>v, <2>3, <2>4, <2>6, <2>7, <2>8, <2>9
<1>7. ASSUME NEW p \in Indexer, PersistRow(p) PROVE AllSearchable'
  BY <1>7, <1>a, <1>t, <1>v DEF PersistRow
<1>8. ASSUME NEW p \in Indexer, WipeFts(p) PROVE AllSearchable'
  BY <1>8, <1>a, <1>t, <1>v, <1>c DEF WipeFts
<1>9. ASSUME NEW p \in Indexer, InsertFts(p) PROVE AllSearchable'
  <2>0. pc[p] = "insert" /\ doing[p] \in todo[p] /\ doing[p] \in Commit
    BY <1>9, <1>t DEF InsertFts
  <2>1. /\ todo' = [todo EXCEPT ![p] = @ \ {doing[p]}]
        /\ pc' = [pc EXCEPT ![p] = "row"]
        /\ UNCHANGED <<head, pruned, cursor, last, target>>
    BY <1>9 DEF InsertFts
  <2>f. fts' = [fts EXCEPT ![doing[p]] = 1]
    <3>1. fts[doing[p]] = 0
      BY <1>a, <2>0
    <3>2. fts' = [fts EXCEPT ![doing[p]] = fts[doing[p]] + 1]
      BY <1>9 DEF InsertFts
    <3>3. QED
      BY <3>1, <3>2
  <2>2. \A q \in Indexer \ {p} : ~Busy(q)
    BY <1>a, <2>0
  <2>3. QED
    BY <1>a, <1>t, <1>v, <1>c, <2>0, <2>1, <2>f, <2>2
<1>10. ASSUME NEW p \in Indexer, Finish(p) PROVE AllSearchable'
  BY <1>10, <1>a, <1>t, <1>v, <1>n DEF Finish, SaveCursor, Return
<1>11. ASSUME NEW p \in Indexer, Abort(p) PROVE AllSearchable'
  BY <1>11, <1>a, <1>t, <1>v, <1>n DEF Abort, Return
<1>12. CASE UNCHANGED vars
  BY <1>12, <1>a, <1>v DEF vars
<1>13. QED
  BY <1>1, <1>2, <1>4, <1>5, <1>6, <1>7, <1>8, <1>9, <1>10, <1>11, <1>12
     DEF Next, Step

(* While passes do not overlap, each commit behind the cursor has exactly  *)
(* one search row, wherever earlier passes crashed (persist_commit).       *)
THEOREM SearchExactBehindCursor ==
    ASSUME Uncapped, Steady, "refetch" \notin Disturb
    PROVE  Spec => []SearchableBehindCursor
<1>1. SearchInv => SearchableBehindCursor
  BY DEF SearchInv, AllSearchable, SearchableBehindCursor
<1>2. QED
  BY SearchInit, SearchStep, <1>1, PTL DEF Spec

--------------------------------------------------------------------------------
(* The shallow flag in the database is the clone's, as long as the clone   *)
(* keeps its depth.                                                        *)
FlagInv ==
    /\ TypeOK
    /\ cursor # None => shallowFlag = (hidden # {})
    /\ \A p \in Indexer :
        pc[p] = "walk" \/ Persisting(p) => shallowSeen[p] = (hidden # {})

LEMMA FlagInit == Init => FlagInv
BY TypeInit DEF Init, FlagInv, Persisting

LEMMA FlagStep ==
    ASSUME Steady
    PROVE  FlagInv /\ [Next]_vars => FlagInv'
<1> SUFFICES ASSUME FlagInv, [Next]_vars PROVE FlagInv'
  OBVIOUS
<1>t. TypeOK /\ TypeOK'
  BY TypeStep DEF FlagInv
<1>v. hidden' = hidden
  BY DEF Steady, vars, git, Next, MoveHead, Prune, Begin, Step, ReadHead,
         Walk, PersistRow, WipeFts, InsertFts, Finish, Abort
<1> USE DEF git, db, pass, bounds, FlagInv, Persisting, TypeOK
<1>1. CASE \E x \in Commit \union {None} : MoveHead(x)
  BY <1>1, <1>t, <1>v DEF MoveHead
<1>2. CASE \E x \in Commit : Prune(x)
  BY <1>2, <1>t, <1>v DEF Prune
<1>4. ASSUME NEW p \in Indexer,
             \/ Begin(p) \/ Walk(p) \/ PersistRow(p)
             \/ WipeFts(p) \/ InsertFts(p) \/ Abort(p)
      PROVE  FlagInv'
  BY <1>4, <1>t, <1>v DEF Begin, Walk, PersistRow, WipeFts, InsertFts, Abort, Return
<1>5. ASSUME NEW p \in Indexer, ReadHead(p) PROVE FlagInv'
  BY <1>5, <1>t, <1>v DEF ReadHead
<1>6. ASSUME NEW p \in Indexer, Finish(p) PROVE FlagInv'
  BY <1>6, <1>t, <1>v DEF Finish, SaveCursor, Return
<1>7. CASE UNCHANGED vars
  BY <1>7, <1>t, <1>v DEF vars
<1>8. QED
  BY <1>1, <1>2, <1>4, <1>5, <1>6, <1>7 DEF Next, Step

(* check() lists every repository whose indexed history is incomplete.     *)
THEOREM ShallowAlwaysHonest ==
    ASSUME Uncapped, Steady
    PROVE  Spec => []ShallowIsHonest
<1>1. CoverInv /\ FlagInv => ShallowIsHonest
  BY DEF CoverInv, AllCovered, CursorCovered, FlagInv, ShallowIsHonest, Visible, Reach
<1>2. QED
  BY CoverInit, CoverStep, FlagInit, FlagStep, <1>1, PTL DEF Spec
================================================================================
