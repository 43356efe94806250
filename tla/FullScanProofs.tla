---------------------------- MODULE FullScanProofs ----------------------------
(***************************************************************************)
(* Proofs about FullScan, for any tree, any dumps, any configurations and  *)
(* any number of passes and edits; and, at the end, about Domains and      *)
(* Triage, for any labels and decisions.                                   *)
(***************************************************************************)
EXTENDS FullScan, Triage, WellFoundedInduction, TLAPS

(* No configuration takes away what lies below a place of the domain's,    *)
(* and what is found at a place lies below it.                             *)
Uncarved ==
    \A i \in Item :
        /\ IsPrefix(i.anchor, i.at)
        /\ i.corpus = "commit" => IsPrefix(i.anchor, i.real)
        /\ \A c \in Config, d \in Domain :
              Includes(c.entries, Dir, Repo, d, i.anchor) /\ IsPrefix(i.anchor, i.real) =>
                  Includes(c.entries, Dir, Repo, d, i.real)

Pc == {"session_history", "memory", "design_doc", "commit", "source",
       "idle", "session_edge", "list", "dumps", "insert"}

ScanState ==
    [pc : Pc, config : Config \union {Idle.config}, dumps : SUBSET Dump, todo : SUBSET Row]

Readable(f) == text[f] \notin {Bad, Gone}

Typed ==
    /\ domain \in Domain /\ config \in Config
    /\ text \in [Dump -> (SUBSET Object) \union {Bad, Gone}]
    /\ items \subseteq Item /\ objects \subseteq Row /\ hits \subseteq Row
    /\ scan \in ScanState
    /\ scan.pc # "insert" => scan.todo = {}
    /\ scan.pc = "idle" => scan.dumps = {}
    /\ scan.pc # "idle" => scan.config \in Config
    /\ fresh \in BOOLEAN

--------------------------------------------------------------------------------
LEMMA IdleState == Idle \in ScanState /\ Idle.pc = "idle" /\ Idle.todo = {} /\ Idle.dumps = {}
  BY DEF Idle, ScanState, Pc

(* The corpora come one after the other.                                   *)
LEMMA Order ==
    /\ DOMAIN After = {"session_history", "memory", "design_doc", "commit", "source"}
    /\ \A corpus \in DOMAIN After :
          /\ After[corpus] \in Pc
          /\ After[corpus] \notin {"idle", "dumps", "insert"}
          /\ corpus \notin {"idle", "dumps", "insert"}
  BY DEF After, Pc

LEMMA FoundOnDisk ==
    ASSUME NEW corpus \in DOMAIN After, NEW c
    PROVE  Found(corpus, c) \subseteq Item
  BY Order DEF Found, SessionHistory, Memory, DesignDocs, Commits, Source, Of

(* An edit of a dump leaves the files a file each.                         *)
LEMMA EditedText ==
    ASSUME Typed, NEW f \in Dump, EditDump(f)
    PROVE  text' \in [Dump -> (SUBSET Object) \union {Bad, Gone}]
  BY DEF Typed, EditDump

(* What a pass holds of itself stays of its kind.                          *)
LEMMA TypedInit == Init => Typed
<1> SUFFICES ASSUME Init PROVE Typed
  OBVIOUS
<1>1. {Gone, {}, Object} \subseteq (SUBSET Object) \union {Bad, Gone}
  <2>1. {} \in SUBSET Object /\ Object \in SUBSET Object
    OBVIOUS
  <2>2. QED
    BY <2>1, Zenon
<1>2. text \in [Dump -> (SUBSET Object) \union {Bad, Gone}]
  BY <1>1 DEF Init
<1>3. QED
  BY <1>2, IdleState DEF Init, Typed

LEMMA TypedStep == Typed /\ [Next]_vars => Typed'
<1> SUFFICES ASSUME Typed, [Next]_vars PROVE Typed'
  OBVIOUS
<1>1. ASSUME NEW corpus \in DOMAIN After, Extract(corpus) PROVE Typed'
  BY <1>1, Order, FoundOnDisk, IdleState DEF Extract, Typed, ScanState
<1>2. CASE Begin
  BY <1>2 DEF Begin, Typed, ScanState, Idle, Pc
<1>3. CASE ExtractSessionEdges
  BY <1>3 DEF ExtractSessionEdges, SessionEdges, Of, Typed, ScanState, Pc
<1>4. CASE ListDumps
  BY <1>4 DEF ListDumps, Typed, ScanState, Pc
<1>5. CASE InsertObject
  BY <1>5, IdleState DEF InsertObject, Typed, ScanState
<1>6. CASE CloseDump
  BY <1>6 DEF CloseDump, Typed, ScanState, Pc
<1>7. CASE End
  BY <1>7, IdleState DEF End, Typed
<1>8. CASE Crash
  BY <1>8, IdleState DEF Crash, Typed
<1>9. ASSUME NEW f \in Dump, SkipDump(f) PROVE Typed'
  BY <1>9 DEF SkipDump, Typed, ScanState
<1>10. ASSUME NEW f \in Dump, OpenDump(f) PROVE Typed'
  <2>1. text[f] \subseteq Object
    <3>1. text[f] \in (SUBSET Object) \union {Bad, Gone} /\ text[f] \notin {Bad, Gone}
      BY <1>10 DEF OpenDump, Typed
    <3>2. text[f] \in SUBSET Object
      BY <3>1
    <3>3. QED
      BY <3>2
  <2>2. {[dump |-> f, object |-> o] : o \in text[f]} \subseteq Row
    BY <2>1 DEF Row
  <2>3. QED
    BY <1>10, <2>2 DEF OpenDump, Unfound, Without, Typed, ScanState, Pc
<1>11. ASSUME NEW f \in Dump, EditDump(f) PROVE Typed'
  BY <1>11, EditedText DEF EditDump, Typed
<1>12. CASE Widen
  BY <1>12 DEF Widen, Typed
<1>13. CASE Rebuild
  BY <1>13 DEF Rebuild, Typed
<1>14. CASE UNCHANGED vars
  BY <1>14 DEF vars, Typed
<1>15. QED
  BY <1>1, <1>2, <1>3, <1>4, <1>5, <1>6, <1>7, <1>8, <1>9, <1>10, <1>11, <1>12, <1>13,
     <1>14 DEF Next

--------------------------------------------------------------------------------
(* The dumps of a pass that nothing disturbed: those it is done with are   *)
(* as their files, but for what it still has to insert.                    *)
Tables(f) == {r.object : r \in {o \in objects \union scan.todo : o.dump = f}}

Done(f) ==
    Keeps(config, f) /\ Readable(f) =>
        Tables(f) = text[f] /\ {r \in objects : r.dump = f} \subseteq hits

Settled ==
    fresh /\ scan.pc \in {"idle", "dumps", "insert"} => \A f \in Dump \ scan.dumps : Done(f)

SchemaInv ==
    /\ hits \subseteq objects
    /\ fresh /\ scan.pc # "idle" => scan.config = config
    /\ Settled

LEMMA SchemaInit == Init => SchemaInv
  BY DEF Init, SchemaInv, Settled

(* A dump that neither the tables nor the index nor the file changes for   *)
(* is done as it was.                                                      *)
LEMMA DoneStays ==
    ASSUME NEW f \in Dump, Done(f), UNCHANGED <<domain, config, text, objects>>,
           scan'.todo = scan.todo, hits \subseteq hits'
    PROVE  Done(f)'
  BY DEF Done, Tables, Readable, Keeps

LEMMA SchemaStep == Typed /\ SchemaInv /\ [Next]_vars => SchemaInv'
<1> SUFFICES ASSUME Typed, SchemaInv, [Next]_vars PROVE SchemaInv'
  OBVIOUS
<1>1. ASSUME NEW corpus \in DOMAIN After, Extract(corpus) PROVE SchemaInv'
  BY <1>1, Order DEF Extract, Typed, ScanState, SchemaInv, Settled
<1>2. CASE Begin
  BY <1>2 DEF Begin, Idle, SchemaInv, Settled
<1>3. CASE ExtractSessionEdges
  BY <1>3 DEF ExtractSessionEdges, Typed, ScanState, SchemaInv, Settled
<1>4. CASE ListDumps
  <2>1. \A f \in Dump \ scan'.dumps : ~Readable(f)'
    BY <1>4 DEF ListDumps, Typed, ScanState, Readable
  <2>2. QED
    BY <1>4, <2>1 DEF ListDumps, Typed, ScanState, SchemaInv, Settled, Done
<1>5. CASE InsertObject
  <2> PICK r \in scan.todo :
        /\ objects' = objects \union {r}
        /\ \/ /\ hits' = hits \union {r}
              /\ scan' = [scan EXCEPT !.todo = @ \ {r}]
              /\ UNCHANGED fresh
           \/ /\ UNCHANGED hits
              /\ scan' = Idle /\ fresh' = FALSE
        /\ UNCHANGED <<domain, config, text, items, edits, scans>>
    BY <1>5 DEF InsertObject
  <2>1. CASE fresh'
    <3>1. /\ hits' = hits \union {r} /\ fresh
          /\ scan'.pc = scan.pc /\ scan'.dumps = scan.dumps /\ scan'.config = scan.config
          /\ scan'.todo = scan.todo \ {r}
      BY <2>1 DEF Typed, ScanState
    <3>2. objects' \union scan'.todo = objects \union scan.todo
      BY <3>1
    <3>3. ASSUME NEW f \in Dump, Done(f) PROVE Done(f)'
      BY <3>1, <3>2, <3>3 DEF Done, Tables, Readable, Keeps
    <3>4. QED
      BY <3>1, <3>3 DEF SchemaInv, Settled
  <2>2. CASE ~fresh'
    BY <2>2 DEF SchemaInv, Settled
  <2>3. QED
    BY <2>1, <2>2
<1>6. CASE CloseDump
  <2>1. /\ scan'.dumps = scan.dumps /\ scan'.todo = scan.todo /\ scan'.config = scan.config
        /\ scan.pc = "insert" /\ scan'.pc = "dumps"
        /\ UNCHANGED <<domain, config, text, objects, hits, fresh>>
    BY <1>6 DEF CloseDump, Typed, ScanState
  <2>2. QED
    BY <2>1, DoneStays DEF SchemaInv, Settled
<1>7. CASE End
  <2>1. /\ scan'.dumps = scan.dumps /\ scan'.todo = scan.todo
        /\ scan.pc = "dumps" /\ scan'.pc = "idle"
        /\ UNCHANGED <<domain, config, text, objects, hits, fresh>>
    BY <1>7, IdleState DEF End, Typed
  <2>2. QED
    BY <2>1, DoneStays DEF SchemaInv, Settled
<1>8. CASE Crash
  BY <1>8, IdleState DEF Crash, SchemaInv, Settled
<1>9. ASSUME NEW f \in Dump, SkipDump(f) PROVE SchemaInv'
  <2>1. /\ scan'.dumps = scan.dumps \ {f} /\ scan'.todo = scan.todo /\ scan'.config = scan.config
        /\ scan.pc = "dumps" /\ scan'.pc = "dumps"
        /\ UNCHANGED <<domain, config, text, objects, hits, fresh>>
    BY <1>9 DEF SkipDump, Typed, ScanState
  <2>2. fresh => Done(f)
    BY <1>9, <2>1 DEF SkipDump, SchemaInv, Done, Readable
  <2>3. QED
    BY <2>1, <2>2, DoneStays DEF SchemaInv, Settled
<1>10. ASSUME NEW f \in Dump, OpenDump(f) PROVE SchemaInv'
  <2>1. /\ scan'.dumps = scan.dumps \ {f} /\ scan'.config = scan.config
        /\ scan'.todo = {[dump |-> f, object |-> o] : o \in text[f]}
        /\ scan.pc = "dumps" /\ scan'.pc = "insert" /\ scan.todo = {}
        /\ UNCHANGED <<domain, config, text, fresh>>
        /\ hits' = {r \in hits : r.dump # f} /\ objects' = {r \in objects : r.dump # f}
    BY <1>10 DEF OpenDump, Unfound, Without, Typed, ScanState
  <2>2. {o \in objects' \union scan'.todo : o.dump = f} = scan'.todo
    BY <2>1
  <2>3. Tables(f)' = text[f]
    <3>1. Tables(f)' = {r.object : r \in {[dump |-> f, object |-> o] : o \in text[f]}}
      BY <2>1, <2>2, Zenon DEF Tables
    <3>2. ASSUME NEW o PROVE
             o \in text[f] <=> o \in {r.object : r \in {[dump |-> f, object |-> t] : t \in text[f]}}
      <4> DEFINE T == {[dump |-> f, object |-> t] : t \in text[f]}
      <4>1. ASSUME o \in text[f] PROVE \E r \in T : r.object = o
        <5>1. [dump |-> f, object |-> o] \in T /\ [dump |-> f, object |-> o].object = o
          BY <4>1
        <5>2. QED
          BY <5>1
      <4>2. ASSUME NEW r \in T, r.object = o PROVE o \in text[f]
        BY <4>2
      <4> HIDE DEF T
      <4>3. o \in {r.object : r \in T} <=> \E r \in T : r.object = o
        OBVIOUS
      <4>4. o \in text[f] <=> o \in {r.object : r \in T}
        BY <4>1, <4>2, <4>3
      <4>5. QED
        BY <4>4 DEF T
    <3>3. {r.object : r \in {[dump |-> f, object |-> o] : o \in text[f]}} = text[f]
      BY <3>2
    <3>4. QED
      BY <3>1, <3>3
  <2>4. Done(f)'
    BY <2>1, <2>3 DEF Done
  <2>5. ASSUME NEW g \in Dump \ {f}, Done(g) PROVE Done(g)'
    <3>1. {o \in objects' \union scan'.todo : o.dump = g} =
          {o \in objects \union scan.todo : o.dump = g}
      BY <2>1
    <3>2. Tables(g)' = Tables(g)
      BY <3>1 DEF Tables
    <3>3. {r \in objects : r.dump = g} \subseteq hits => {r \in objects' : r.dump = g} \subseteq hits'
      BY <2>1
    <3>4. QED
      BY <2>1, <2>5, <3>2, <3>3 DEF Done, Readable, Keeps
  <2>6. hits' \subseteq objects'
    BY <2>1 DEF SchemaInv
  <2>7. QED
    BY <2>1, <2>4, <2>5, <2>6 DEF SchemaInv, Settled
<1>11. ASSUME NEW f \in Dump, EditDump(f) PROVE SchemaInv'
  BY <1>11 DEF EditDump, SchemaInv, Settled
<1>12. CASE Widen
  BY <1>12 DEF Widen, SchemaInv, Settled
<1>13. CASE Rebuild
  BY <1>13 DEF Rebuild, SchemaInv, Settled
<1>14. CASE UNCHANGED vars
  BY <1>14 DEF vars, SchemaInv, Settled, Done, Tables, Readable, Keeps
<1>15. QED
  BY <1>1, <1>2, <1>3, <1>4, <1>5, <1>6, <1>7, <1>8, <1>9, <1>10, <1>11, <1>12, <1>13,
     <1>14 DEF Next

(* After a whole pass the tables of every dump that can be read are those  *)
(* of its file, each found by a search (persist_dump, schema_index.rs),    *)
(* however earlier passes failed or were killed between its statements.    *)
THEOREM PassMakesSchemaCurrent == Spec => []SchemaCurrent
<1>1. Init => Typed /\ SchemaInv
  BY TypedInit, SchemaInit
<1>2. Typed /\ SchemaInv /\ [Next]_vars => (Typed /\ SchemaInv)'
  BY TypedStep, SchemaStep
<1>3. Typed /\ SchemaInv => SchemaCurrent
  <2> SUFFICES ASSUME Typed, SchemaInv, NEW f \in Dump, fresh, scan.pc = "idle",
                      Keeps(config, f), text[f] \notin {Bad, Gone}
               PROVE  /\ {r.object : r \in {o \in objects : o.dump = f}} = text[f]
                      /\ {r \in objects : r.dump = f} \subseteq hits
    BY DEF SchemaCurrent, SchemaInv
  <2>1. Done(f) /\ scan.todo = {}
    BY DEF SchemaInv, Settled, Typed
  <2>2. {o \in objects \union scan.todo : o.dump = f} = {o \in objects : o.dump = f}
    BY <2>1
  <2>3. QED
    BY <2>1, <2>2 DEF Done, Tables, Readable
<1>4. QED
  BY <1>1, <1>2, <1>3, PTL DEF Spec

--------------------------------------------------------------------------------
(* What is found for a configuration is the domain's under it.             *)
LEMMA FoundIsOwned ==
    ASSUME Uncarved, domain \in Domain, NEW corpus \in DOMAIN After, NEW c \in Config,
           NEW i \in Found(corpus, c)
    PROVE  Owned(c, i)
<1>1. i \in Item
  BY FoundOnDisk
<1>2. CASE corpus = "memory"
  BY <1>2 DEF Found, Memory, Of, Owned
<1>3. CASE corpus # "memory"
  <2>1. i.corpus # "memory" /\ Keeps(c, i.anchor)
    BY <1>3, Order DEF Found, SessionHistory, DesignDocs, Commits, Source, Of
  <2>2. IsPrefix(i.anchor, i.real)
    BY <1>1, <1>3, Order DEF Found, SessionHistory, DesignDocs, Commits, Source, Of, StaysWithin, Uncarved
  <2>3. QED
    BY <1>1, <2>1, <2>2 DEF Uncarved, Keeps, Owned
<1>4. QED
  BY <1>2, <1>3

(* A pass works with a configuration that has only been widened since.     *)
Grants(old) ==
    /\ \A i \in Item : Owned(old, i) => Owned(config, i)
    /\ \A f \in Dump : Keeps(old, f) => Keeps(config, f)

IsolationInv ==
    /\ scan.pc # "idle" => Grants(scan.config)
    /\ \A i \in items : Owned(config, i)
    /\ \A r \in objects \union scan.todo : Keeps(config, r.dump)

LEMMA IsolationInit == Init => IsolationInv
  BY IdleState DEF Init, IsolationInv

LEMMA IsolationStep ==
    ASSUME Uncarved PROVE Typed /\ IsolationInv /\ [Next]_vars => IsolationInv'
<1> SUFFICES ASSUME Typed, IsolationInv, [Next]_vars PROVE IsolationInv'
  OBVIOUS
<1>0. ASSUME UNCHANGED <<domain, config>>,
             scan'.pc # "idle" => scan.pc # "idle" /\ scan'.config = scan.config,
             \A i \in items' \ items : Owned(config, i),
             \A r \in (objects \union scan.todo)' \ (objects \union scan.todo) : Keeps(config, r.dump)
      PROVE  IsolationInv'
  BY <1>0 DEF IsolationInv, Grants, Owned, Keeps
<1>1. ASSUME NEW corpus \in DOMAIN After, Extract(corpus) PROVE IsolationInv'
  <2>1. \A i \in Found(corpus, scan.config) : i \in Item /\ Owned(config, i)
    BY <1>1, FoundIsOwned, FoundOnDisk, Order DEF Extract, Typed, IsolationInv, Grants
  <2>2. items' \subseteq items \union Found(corpus, scan.config)
    BY <1>1 DEF Extract
  <2>3. QED
    BY <1>0, <1>1, <2>1, <2>2, IdleState, Order DEF Extract, Typed, ScanState
<1>2. CASE Begin
  BY <1>2 DEF Begin, Idle, IsolationInv, Grants, Owned, Keeps
<1>3. CASE ExtractSessionEdges
  <2>1. \A i \in SessionEdges(scan.config) : i \in Item /\ Owned(scan.config, i)
    BY DEF SessionEdges, Of, Owned
  <2>2. \A i \in SessionEdges(scan.config) : Owned(config, i)
    BY <1>3, <2>1 DEF ExtractSessionEdges, IsolationInv, Grants
  <2>3. QED
    BY <1>0, <1>3, <2>2 DEF ExtractSessionEdges, Typed, ScanState
<1>4. CASE ListDumps
  BY <1>0, <1>4 DEF ListDumps, Typed, ScanState
<1>5. CASE InsertObject
  BY <1>0, <1>5, IdleState DEF InsertObject, Typed, ScanState
<1>6. CASE CloseDump
  BY <1>0, <1>6 DEF CloseDump, Typed, ScanState
<1>7. CASE End
  BY <1>0, <1>7, IdleState DEF End
<1>8. CASE Crash
  BY <1>0, <1>8, IdleState DEF Crash
<1>9. ASSUME NEW f \in Dump, SkipDump(f) PROVE IsolationInv'
  BY <1>0, <1>9 DEF SkipDump, Typed, ScanState
<1>10. ASSUME NEW f \in Dump, OpenDump(f) PROVE IsolationInv'
  <2>1. Keeps(config, f)
    BY <1>10 DEF OpenDump, IsolationInv, Grants
  <2>2. QED
    BY <1>0, <1>10, <2>1 DEF OpenDump, Without, Typed, ScanState
<1>11. ASSUME NEW f \in Dump, EditDump(f) PROVE IsolationInv'
  BY <1>0, <1>11 DEF EditDump
<1>12. CASE Widen
  <2>1. /\ \A i \in Item : Owned(config, i) => Owned(config, i)'
        /\ \A f \in Dump : Keeps(config, f) => Keeps(config, f)'
    BY <1>12 DEF Widen, Narrows, Owned, Keeps
  <2>2. scan'.pc # "idle" => Grants(scan.config)'
    BY <1>12, <2>1 DEF Widen, IsolationInv, Grants, Owned, Keeps
  <2>3. \A r \in objects \union scan.todo : r.dump \in Dump
    BY DEF Typed, ScanState, Row
  <2>4. QED
    BY <1>12, <2>1, <2>2, <2>3 DEF Widen, IsolationInv, Typed
<1>13. CASE Rebuild
  BY <1>13 DEF Rebuild, Typed, IsolationInv
<1>14. CASE UNCHANGED vars
  BY <1>0, <1>14 DEF vars
<1>15. QED
  BY <1>1, <1>2, <1>3, <1>4, <1>5, <1>6, <1>7, <1>8, <1>9, <1>10, <1>11, <1>12, <1>13,
     <1>14 DEF Next

(* "A domain's database contains content only from subdirectories labeled  *)
(* for that domain": nothing that resolves to a path of another domain is  *)
(* ever stored, by passes that fail, are killed or run while labels are    *)
(* added.  Where a label below a place of the domain's takes something     *)
(* away the corpora read it all the same, hence the assumption.            *)
THEOREM NothingForeign ==
    ASSUME Uncarved PROVE Spec => []NoForeign
<1>1. Init => Typed /\ IsolationInv
  BY TypedInit, IsolationInit
<1>2. Typed /\ IsolationInv /\ [Next]_vars => (Typed /\ IsolationInv)'
  BY TypedStep, IsolationStep
<1>3. IsolationInv => NoForeign
  BY DEF IsolationInv, NoForeign
<1>4. QED
  BY <1>1, <1>2, <1>3, PTL DEF Spec

--------------------------------------------------------------------------------
(* What the audit tells (Triage)                                           *)

(* The directories of a tree are there with those above them, and the name *)
(* of each is read out of the file as it is written there.                 *)
IsTree(tree, Segment) ==
    /\ tree.dirs \subseteq Seq(Segment) /\ tree.files \subseteq Seq(Segment)
    /\ \A p \in tree.dirs : \A k \in 1 .. Len(p) : Starts(p, k) \in tree.dirs
    /\ \A p \in tree.dirs : p # <<>> => EntryComponents(Name(p)) = p

(* Every label is a path; nobody's directories are no domain's.            *)
IsConfig(raw, Segment) ==
    /\ \A e \in Listed(raw) : EntryComponents(e) \in Seq(Segment) \ {<<>>}
    /\ Unassigned \notin DOMAIN raw.domains

LEMMA StartsOf ==
    ASSUME NEW Segment, NEW p \in Seq(Segment), NEW k \in 1 .. Len(p)
    PROVE  /\ Starts(p, k) \in Seq(Segment) /\ Len(Starts(p, k)) = k
           /\ \A j \in 1 .. k : Starts(Starts(p, k), j) = Starts(p, j)
           /\ Starts(p, Len(p)) = p
<1>1. Starts(p, k) \in Seq(Segment) /\ Len(Starts(p, k)) = k
  BY DEF Starts
<1>2. ASSUME NEW j \in 1 .. k PROVE Starts(Starts(p, k), j) = Starts(p, j)
  <2>1. j \in 1 .. Len(p)
    OBVIOUS
  <2>2. /\ Starts(Starts(p, k), j) \in Seq(Segment) /\ Len(Starts(Starts(p, k), j)) = j
        /\ Starts(p, j) \in Seq(Segment) /\ Len(Starts(p, j)) = j
    BY <1>1, <2>1 DEF Starts
  <2>3. \A i \in 1 .. j : Starts(Starts(p, k), j)[i] = p[i] /\ Starts(p, j)[i] = p[i]
    BY <1>1, <2>1 DEF Starts
  <2>4. QED
    BY <2>2, <2>3
<1>3. Starts(p, Len(p)) = p
  BY DEF Starts
<1>4. QED
  BY <1>1, <1>2, <1>3

(* A path that is not admitted has a shortest beginning that is not.       *)
LEMMA FirstNotAdmitted ==
    ASSUME NEW raw, NEW tree, NEW Segment, NEW p \in Seq(Segment), p # <<>>, ~Admitted(raw, tree, p)
    PROVE  \E k \in 1 .. Len(p) : /\ ~Admitted(raw, tree, Starts(p, k))
                                  /\ \A j \in 1 .. k - 1 : Admitted(raw, tree, Starts(p, j))
<1> DEFINE S == {k \in 1 .. Len(p) : ~Admitted(raw, tree, Starts(p, k))}
<1>1. Len(p) \in 1 .. Len(p) /\ Starts(p, Len(p)) = p
  <2>1. Len(p) \in 1 .. Len(p)
    OBVIOUS
  <2>2. QED
    BY <2>1, StartsOf
<1>2. S \in SUBSET Nat /\ S # {}
  BY <1>1
<1>3. PICK k \in S : \A x \in S : <<x, k>> \notin OpToRel(<, Nat)
  BY <1>2, WFMin, NatLessThanWellFounded, Zenon
<1>4. \A x \in S : ~(x < k)
  BY <1>2, <1>3 DEF OpToRel
<1>5. QED
  BY <1>4

(* The first directory on the way to one that no domain admits is pending. *)
LEMMA PendingAbove ==
    ASSUME NEW raw, NEW tree, NEW Segment, IsTree(tree, Segment), MaxReportDepth \in Nat,
           NEW p \in tree.dirs, p # <<>>, Len(p) <= MaxReportDepth, ~Admitted(raw, tree, p),
           \A k \in 1 .. Len(p) : Starts(p, k) \notin tree.unread
                                     /\ Name(Starts(p, k)) \notin raw.acknowledged
    PROVE  \E k \in 1 .. Len(p) : Starts(p, k) \in UnassignedSubdirs(raw, tree)
<1>1. p \in Seq(Segment)
  BY DEF IsTree
<1>2. PICK k \in 1 .. Len(p) : /\ ~Admitted(raw, tree, Starts(p, k))
                               /\ \A j \in 1 .. k - 1 : Admitted(raw, tree, Starts(p, j))
  BY <1>1, FirstNotAdmitted
<1> DEFINE q == Starts(p, k)
<1>3. q \in tree.dirs \ tree.unread /\ Name(q) \notin raw.acknowledged /\ ~Admitted(raw, tree, q)
  BY <1>2 DEF IsTree
<1>4. Len(q) = k /\ k \in Nat /\ \A j \in 1 .. k - 1 : Starts(q, j) = Starts(p, j) /\ j \in 1 .. Len(p)
  BY <1>1, StartsOf
<1>5. Len(q) \in 1 .. MaxReportDepth
  BY <1>1, <1>4
<1>6. \A j \in 1 .. Len(q) - 1 : Starts(q, j) \notin tree.unread /\ Admitted(raw, tree, Starts(q, j))
  BY <1>2, <1>4
<1> HIDE DEF q
<1>7. q \in UnassignedSubdirs(raw, tree)
  BY <1>3, <1>5, <1>6 DEF UnassignedSubdirs
<1>8. QED
  BY <1>7 DEF q

(* An entry is a domain's or nobody's.                                     *)
LEMMA EntriesAre ==
    ASSUME NEW raw, NEW x
    PROVE  x \in Entries(raw) <=>
               \/ \E o \in DOMAIN raw.domains : \E g \in raw.domains[o] :
                      x = [path |-> EntryComponents(g), owner |-> o]
               \/ \E g \in raw.acknowledged \union raw.undecided :
                      x = [path |-> EntryComponents(g), owner |-> Unassigned]
<1>1. \A names, owner : x \in EntriesOf(names, owner) <=>
          \E g \in names : x = [path |-> EntryComponents(g), owner |-> owner]
  BY DEF EntriesOf
<1>2. x \in Entries(raw) <=>
          \/ \E o \in DOMAIN raw.domains : x \in EntriesOf(raw.domains[o], o)
          \/ x \in EntriesOf(raw.acknowledged \union raw.undecided, Unassigned)
  BY DEF Entries
<1>3. QED
  BY <1>1, <1>2

(* What a domain admits is below one of its labels, or is one.             *)
LEMMA AdmittedBelowLabel ==
    ASSUME NEW raw, NEW tree, NEW d, NEW p, d # Unassigned, Admits(raw, tree, d, p)
    PROVE  d \in DOMAIN raw.domains /\ \E e \in raw.domains[d] : IsPrefix(EntryComponents(e), p)
<1>1. PICK e \in Entries(raw) : e.owner = d /\ IsPrefix(e.path, p)
  BY DEF Admits, Includes
<1>2. \E o \in DOMAIN raw.domains : \E g \in raw.domains[o] : e = [path |-> EntryComponents(g), owner |-> o]
  BY <1>1, EntriesAre
<1>3. QED
  BY <1>1, <1>2

(* Whatever the tree and the labels, a content file that a domain admits   *)
(* and its database lacks is reported, but below a directory the walk      *)
(* leaves out; and a directory that no domain admits is in a tree that is  *)
(* reported, acknowledged or not read (check_config, check_coverage,       *)
(* unassigned_subdirs).                                                    *)
THEOREM AuditAlwaysTells ==
    ASSUME MaxReportDepth \in Nat, NEW Segment, NEW raw, NEW tree, NEW d, NEW indexed,
           IsTree(tree, Segment), IsConfig(raw, Segment)
    PROVE  AuditTells(raw, tree, d, indexed)
<1> SUFFICES ASSUME NEW report \in RunAudit(raw, tree, d, indexed, FALSE)
             PROVE  /\ \A p \in tree.files \ indexed :
                           Admits(raw, tree, d, p) =>
                               \/ \E k \in 1 .. Len(p) - 1 : Starts(p, k) \in tree.unwalked
                               \/ \E f \in report : f.kind = "labeled-content-unindexed" /\ f.path = p
                    /\ \A p \in tree.dirs :
                           \/ p = <<>> \/ Len(p) > MaxReportDepth \/ Admitted(raw, tree, p)
                           \/ \E k \in 1 .. Len(p) :
                                  \/ Starts(p, k) \in tree.unread
                                  \/ Name(Starts(p, k)) \in raw.acknowledged
                                  \/ \E f \in report : /\ f.kind \in {"subdir-unassigned", "subdir-undecided"}
                                                       /\ f.path = Starts(p, k)
  BY DEF AuditTells
<1>1. /\ d \in DOMAIN raw.domains /\ d # Unassigned
      /\ report = CheckConfig(raw, tree, d) \union CheckCoverage(raw, tree, d, indexed)
  BY DEF RunAudit, IsConfig
<1>2. ASSUME NEW p \in tree.files \ indexed, Admits(raw, tree, d, p),
             \A k \in 1 .. Len(p) - 1 : Starts(p, k) \notin tree.unwalked
      PROVE  \E f \in report : f.kind = "labeled-content-unindexed" /\ f.path = p
  <2>1. PICK e \in raw.domains[d] : IsPrefix(EntryComponents(e), p)
    BY <1>1, <1>2, AdmittedBelowLabel
  <2>2. e \in Listed(raw)
    BY <1>1 DEF Listed
  <2>3. Len(EntryComponents(e)) \in Nat \ {0}
    BY <2>2 DEF IsConfig
  <2>4. \A k \in Len(EntryComponents(e)) .. Len(p) - 1 : Starts(p, k) \notin tree.unwalked
    BY <1>2, <2>3
  <2> DEFINE told == Finding("warn", "labeled-content-unindexed", p)
  <2>5. told \in CheckCoverage(raw, tree, d, indexed)
    BY <2>1, <2>4 DEF CheckCoverage
  <2>6. told.kind = "labeled-content-unindexed" /\ told.path = p
    BY DEF Finding
  <2>7. QED
    BY <1>1, <2>5, <2>6
<1>3. ASSUME NEW p \in tree.dirs, p # <<>>, ~(Len(p) > MaxReportDepth), ~Admitted(raw, tree, p),
             \A k \in 1 .. Len(p) : Starts(p, k) \notin tree.unread
                                       /\ Name(Starts(p, k)) \notin raw.acknowledged
      PROVE  \E k \in 1 .. Len(p) : \E f \in report :
                 f.kind \in {"subdir-unassigned", "subdir-undecided"} /\ f.path = Starts(p, k)
  <2>1. Len(p) <= MaxReportDepth /\ p \in Seq(Segment)
    BY <1>3 DEF IsTree
  <2>2. PICK k \in 1 .. Len(p) : Starts(p, k) \in UnassignedSubdirs(raw, tree)
    BY <1>3, <2>1, PendingAbove
  <2> DEFINE q == Starts(p, k)
  <2>3. q \in tree.dirs /\ q # <<>>
    BY <2>1, <2>2, StartsOf DEF UnassignedSubdirs
  <2>4. EntryComponents(Name(q)) = q
    BY <2>3 DEF IsTree
  <2> DEFINE pending == Finding("info", "subdir-unassigned", q)
             staged == Finding("info", "subdir-undecided", EntryComponents(Name(q)))
  <2>5. pending \in CheckConfig(raw, tree, d) \/ staged \in CheckConfig(raw, tree, d)
    BY <2>2 DEF CheckConfig
  <2>6. /\ pending.kind = "subdir-unassigned" /\ pending.path = q
        /\ staged.kind = "subdir-undecided" /\ staged.path = q
    BY <2>4 DEF Finding
  <2> HIDE DEF pending, staged
  <2>7. QED
    BY <1>1, <2>5, <2>6
<1>4. QED
  BY <1>2, <1>3

(* Every entry is a path.                                                  *)
ArePaths(entries, Segment) == \A e \in entries : e.path \in Seq(Segment) \ {<<>>}

(* Beginnings of one path that are as long are the same.                   *)
LEMMA PrefixByLength ==
    ASSUME NEW Segment, NEW p, NEW a \in Seq(Segment), NEW b \in Seq(Segment),
           IsPrefix(a, p), IsPrefix(b, p), Len(a) = Len(b)
    PROVE  a = b
<1>1. SubSeq(a, 1, Len(a)) = a /\ SubSeq(b, 1, Len(b)) = b
  OBVIOUS
<1>2. SubSeq(a, 1, Len(a)) = SubSeq(p, 1, Len(a)) /\ SubSeq(b, 1, Len(b)) = SubSeq(p, 1, Len(b))
  BY DEF IsPrefix
<1>3. QED
  BY <1>1, <1>2

(* A path is a domain's, if `prefix` is the deepest entry above it.        *)
Decides(entries, dirs, repos, d, p, prefix) ==
    /\ p # <<>>
    /\ \E e \in entries : e.path = prefix /\ e.owner = d
    /\ \A e \in entries : e.path = prefix => e.owner # Unassigned
    /\ Len(p) > Len(prefix) /\ HasEntryBelow(entries, Starts(p, Len(prefix))) =>
           Len(p) = Len(prefix) + 1 /\ p \notin dirs
    /\ \A k \in Len(prefix) + 1 .. Len(p) : Starts(p, k) \notin repos

(* The deepest entries that match are those of the longest one's path.     *)
LEMMA DeepestDecide ==
    ASSUME NEW Segment, NEW entries, ArePaths(entries, Segment), NEW dirs, NEW repos, NEW d, NEW p,
           NEW g \in entries, IsPrefix(g.path, p),
           \A e \in entries : IsPrefix(e.path, p) => Len(e.path) <= Len(g.path)
    PROVE  Includes(entries, dirs, repos, d, p) <=> Decides(entries, dirs, repos, d, p, g.path)
<1> DEFINE matching == {e \in entries : IsPrefix(e.path, p)}
           deepest == {e \in matching : \A h \in matching : Len(h.path) <= Len(e.path)}
           some == CHOOSE e \in deepest : TRUE
<1>1. \A e \in entries : e.path \in Seq(Segment) /\ Len(e.path) \in Nat
  BY DEF ArePaths
<1>2. g \in deepest
  OBVIOUS
<1>3. \A e \in entries : e \in deepest <=> e.path = g.path
  <2> TAKE e \in entries
  <2>1. ASSUME e \in deepest PROVE e.path = g.path
    <3>1. Len(e.path) = Len(g.path) /\ IsPrefix(e.path, p)
      BY <1>1, <1>2, <2>1
    <3>2. QED
      BY <1>1, <3>1, PrefixByLength
  <2>2. ASSUME e.path = g.path PROVE e \in deepest
    BY <2>2
  <2>3. QED
    BY <2>1, <2>2
<1>4. some \in deepest
  BY <1>2
<1>5. deepest \subseteq entries /\ g \in matching
  BY <1>2
<1>6. Len(some.path) = Len(g.path)
  BY <1>3, <1>4, <1>5
<1>7. Includes(entries, dirs, repos, d, p) <=>
          /\ p # <<>> /\ matching # {}
          /\ \E e \in deepest : e.owner = d
          /\ \A e \in deepest : e.owner # Unassigned
          /\ Len(p) > Len(some.path) /\ HasEntryBelow(entries, Starts(p, Len(some.path))) =>
                 Len(p) = Len(some.path) + 1 /\ p \notin dirs
          /\ \A k \in Len(some.path) + 1 .. Len(p) : Starts(p, k) \notin repos
  BY DEF Includes
<1> HIDE DEF matching, deepest, some
<1>8. /\ (\E e \in deepest : e.owner = d) <=> \E e \in entries : e.path = g.path /\ e.owner = d
      /\ (\A e \in deepest : e.owner # Unassigned) <=>
             \A e \in entries : e.path = g.path => e.owner # Unassigned
  BY <1>3, <1>5
<1>9. QED
  BY <1>5, <1>6, <1>7, <1>8 DEF Decides

(* What a domain has after a change it had before, if every path is still  *)
(* there, its own entries above what it has are no new ones, and none of   *)
(* nobody's was taken from their place.                                    *)
LEMMA NarrowerIncludes ==
    ASSUME NEW Segment, NEW before, NEW after, ArePaths(before, Segment), ArePaths(after, Segment),
           \A e \in before : \E f \in after : f.path = e.path,
           NEW dirs, NEW repos, NEW d, NEW p, Includes(after, dirs, repos, d, p),
           \A g \in after : g.owner = d /\ IsPrefix(g.path, p) =>
               /\ g \in before
               /\ \A e \in before \ after : e.path = g.path => e.owner # Unassigned
    PROVE  Includes(before, dirs, repos, d, p)
<1> DEFINE matching == {e \in after : IsPrefix(e.path, p)}
           deepest == {e \in matching : \A h \in matching : Len(h.path) <= Len(e.path)}
<1>1. \E g \in deepest : g.owner = d
  BY DEF Includes
<1>2. PICK g \in after : /\ g.owner = d /\ IsPrefix(g.path, p)
                         /\ \A h \in after : IsPrefix(h.path, p) => Len(h.path) <= Len(g.path)
  BY <1>1
<1> HIDE DEF matching, deepest
<1>3. g \in before /\ \A e \in before \ after : e.path = g.path => e.owner # Unassigned
  BY <1>2
<1>4. \A e \in before : IsPrefix(e.path, p) => Len(e.path) <= Len(g.path)
  BY <1>2
<1>5. Decides(after, dirs, repos, d, p, g.path)
  BY <1>2, DeepestDecide
<1>6. HasEntryBelow(before, Starts(p, Len(g.path))) => HasEntryBelow(after, Starts(p, Len(g.path)))
  BY DEF HasEntryBelow
<1>7. \A e \in before : e.path = g.path => e.owner # Unassigned
  BY <1>3, <1>5 DEF Decides
<1>8. Decides(before, dirs, repos, d, p, g.path)
  BY <1>2, <1>3, <1>5, <1>6, <1>7 DEF Decides
<1>9. QED
  BY <1>2, <1>3, <1>4, <1>8, DeepestDecide

(* "Nothing in [unassigned] can ever cause content to be indexed": whatever*)
(* else the file says, what is acknowledged or staged in it gives no domain*)
(* a path that it would not have without it (includes).                    *)
THEOREM WithdrawalGrantsNothing ==
    ASSUME NEW Segment, NEW entries, ArePaths(entries, Segment),
           NEW path \in Seq(Segment) \ {<<>>},
           NEW dirs, NEW repos, NEW d, d # Unassigned, NEW p,
           Includes(entries \union {[path |-> path, owner |-> Unassigned]}, dirs, repos, d, p)
    PROVE  Includes(entries, dirs, repos, d, p)
<1> DEFINE added == [path |-> path, owner |-> Unassigned]
           after == entries \union {added}
<1>1. added.path = path /\ added.owner = Unassigned
  OBVIOUS
<1> HIDE DEF added
<1>2. ArePaths(after, Segment)
  BY <1>1 DEF ArePaths
<1>3. \A g \in after : g.owner = d => g \in entries
  BY <1>1
<1>4. entries \ after = {} /\ \A e \in entries : e \in after
  OBVIOUS
<1>5. Includes(after, dirs, repos, d, p)
  BY DEF added
<1> HIDE DEF after
<1>6. QED
  BY <1>2, <1>3, <1>4, <1>5, NarrowerIncludes

(* What .nibdex-domains.toml holds: paths, and none of them both a         *)
(* domain's and undecided.  parse_validated asks this of the strings; here *)
(* it is asked of what they say, as two ways of writing one path would     *)
(* pass the other.                                                         *)
IsBoundary(raw, Segment) ==
    /\ raw = [domains |-> raw.domains, memory |-> raw.memory,
              acknowledged |-> raw.acknowledged, undecided |-> raw.undecided]
    /\ ArePaths(Entries(raw), Segment)
    /\ \A e \in Listed(raw), u \in raw.undecided : EntryComponents(e) # EntryComponents(u)

(* What triage, staging and `nibdex label` may decide.                     *)
IsDecision(raw, e, Segment) ==
    /\ e.what \in {"label", "acknowledge", "undecided", "skip"}
    /\ e.what = "label" => e.to # {} /\ e.to \subseteq DOMAIN raw.domains
    /\ EntryComponents(e.name) \in Seq(Segment) \ {<<>>}

LEMMA DecidedIs ==
    ASSUME NEW Segment, NEW raw, IsBoundary(raw, Segment), NEW e, IsDecision(raw, e, Segment)
    PROVE  LET out == Decide(raw, e) IN
           /\ e.what = "label" =>
                  /\ DOMAIN out.domains = DOMAIN raw.domains
                  /\ \A o \in DOMAIN raw.domains :
                        out.domains[o] = IF o \in e.to THEN raw.domains[o] \union {e.name} ELSE raw.domains[o]
                  /\ out.acknowledged = raw.acknowledged /\ out.undecided = raw.undecided \ {e.name}
           /\ e.what # "label" => out.domains = raw.domains
           /\ e.what = "acknowledge" => /\ out.acknowledged = raw.acknowledged \union {e.name}
                                        /\ out.undecided = raw.undecided \ {e.name}
           /\ e.what = "undecided" => /\ out.acknowledged = raw.acknowledged
                                      /\ out.undecided = raw.undecided \union {e.name}
           /\ e.what = "skip" => out = raw
<1> DEFINE out == Decide(raw, e)
<1>1. raw = [domains |-> raw.domains, memory |-> raw.memory,
             acknowledged |-> raw.acknowledged, undecided |-> raw.undecided]
  BY DEF IsBoundary
<1>2. CASE e.what = "label"
  <2> DEFINE labelled == Labelled(raw, e.name, e.to)
             domains == [o \in DOMAIN raw.domains |->
                            IF o \in e.to THEN raw.domains[o] \union {e.name} ELSE raw.domains[o]]
  <2>1. labelled = [domains |-> domains, memory |-> raw.memory,
                    acknowledged |-> raw.acknowledged, undecided |-> raw.undecided]
    BY <1>1 DEF Labelled
  <2>2. out = [labelled EXCEPT !.undecided = @ \ {e.name}]
    BY <1>2 DEF Decide, Retire
  <2>3. out = [domains |-> domains, memory |-> raw.memory,
               acknowledged |-> raw.acknowledged, undecided |-> raw.undecided \ {e.name}]
    BY <2>1, <2>2
  <2> HIDE DEF out
  <2>4. QED
    BY <1>2, <2>3 DEF out
<1>3. CASE e.what = "acknowledge"
  <2> DEFINE named == [raw EXCEPT !.acknowledged = @ \union {e.name}]
  <2>1. named = [domains |-> raw.domains, memory |-> raw.memory,
                 acknowledged |-> raw.acknowledged \union {e.name}, undecided |-> raw.undecided]
    BY <1>1
  <2>2. out = [named EXCEPT !.undecided = @ \ {e.name}]
    BY <1>3 DEF Decide, Retire
  <2>3. out = [domains |-> raw.domains, memory |-> raw.memory,
               acknowledged |-> raw.acknowledged \union {e.name}, undecided |-> raw.undecided \ {e.name}]
    BY <2>1, <2>2
  <2>4. QED
    BY <1>3, <2>3
<1>4. CASE e.what = "undecided"
  <2>1. out = [domains |-> raw.domains, memory |-> raw.memory,
               acknowledged |-> raw.acknowledged, undecided |-> raw.undecided \union {e.name}]
    BY <1>1, <1>4 DEF Decide
  <2>2. QED
    BY <1>4, <2>1
<1>5. CASE e.what = "skip"
  BY <1>5 DEF Decide
<1>6. QED
  BY <1>2, <1>3, <1>4, <1>5 DEF IsDecision

(* A decision adds what it names, to whom it names, and leaves the path of *)
(* every entry there.                                                      *)
LEMMA DecidedEntries ==
    ASSUME NEW Segment, NEW raw, IsBoundary(raw, Segment), NEW e, IsDecision(raw, e, Segment)
    PROVE  LET before == Entries(raw)
               after == Entries(Decide(raw, e))
               path == EntryComponents(e.name)
           IN /\ \A x \in after \ before :
                     /\ x.path = path
                     /\ x.owner = Unassigned \/ (e.what = "label" /\ x.owner \in e.to)
              /\ \A x \in before \ after :
                     x.path = path /\ e.name \in raw.undecided /\ x.owner = Unassigned
              /\ \A x \in before : \E y \in after : y.path = x.path
<1> DEFINE out == Decide(raw, e)
           before == Entries(raw)
           after == Entries(out)
           path == EntryComponents(e.name)
           nobodys == [path |-> path, owner |-> Unassigned]
<1>1. /\ e.what = "label" =>
             /\ DOMAIN out.domains = DOMAIN raw.domains
             /\ \A o \in DOMAIN raw.domains :
                   out.domains[o] = IF o \in e.to THEN raw.domains[o] \union {e.name} ELSE raw.domains[o]
             /\ out.acknowledged = raw.acknowledged /\ out.undecided = raw.undecided \ {e.name}
      /\ e.what # "label" => out.domains = raw.domains
      /\ e.what = "acknowledge" => /\ out.acknowledged = raw.acknowledged \union {e.name}
                                   /\ out.undecided = raw.undecided \ {e.name}
      /\ e.what = "undecided" => /\ out.acknowledged = raw.acknowledged
                                 /\ out.undecided = raw.undecided \union {e.name}
      /\ e.what = "skip" => out = raw
  BY DecidedIs
<1>2. e.what \in {"label", "acknowledge", "undecided", "skip"}
      /\ (e.what = "label" => e.to # {} /\ e.to \subseteq DOMAIN raw.domains)
  BY DEF IsDecision
<1> HIDE DEF out
<1>3. ASSUME NEW x \in after, x \notin before
      PROVE  x.path = path /\ (x.owner = Unassigned \/ (e.what = "label" /\ x.owner \in e.to))
  <2>1. CASE \E o \in DOMAIN out.domains : \E g \in out.domains[o] :
                 x = [path |-> EntryComponents(g), owner |-> o]
    <3>1. PICK o \in DOMAIN out.domains : \E h \in out.domains[o] :
                   x = [path |-> EntryComponents(h), owner |-> o]
      BY <2>1
    <3>2. PICK g \in out.domains[o] : x = [path |-> EntryComponents(g), owner |-> o]
      BY <3>1
    <3>3. o \notin DOMAIN raw.domains \/ g \notin raw.domains[o]
      BY <1>3, <3>2, EntriesAre
    <3>4. e.what = "label" /\ o \in e.to /\ g = e.name
      BY <1>1, <1>2, <3>1, <3>2, <3>3
    <3>5. QED
      BY <3>2, <3>4
  <2>2. CASE \E g \in out.acknowledged \union out.undecided :
                 x = [path |-> EntryComponents(g), owner |-> Unassigned]
    <3>1. PICK g \in out.acknowledged \union out.undecided :
                   x = [path |-> EntryComponents(g), owner |-> Unassigned]
      BY <2>2
    <3>2. g \notin raw.acknowledged \union raw.undecided
      BY <1>3, <3>1, EntriesAre
    <3>3. g = e.name
      BY <1>1, <1>2, <3>1, <3>2
    <3>4. QED
      BY <3>1, <3>3
  <2>3. QED
    BY <1>3, <2>1, <2>2, EntriesAre
<1>4. ASSUME NEW x \in before, x \notin after
      PROVE  e.what = "label" /\ x = nobodys /\ e.name \in raw.undecided
  <2>1. ~ \E o \in DOMAIN raw.domains : \E g \in raw.domains[o] :
              x = [path |-> EntryComponents(g), owner |-> o]
    <3> SUFFICES ASSUME NEW o \in DOMAIN raw.domains, NEW g \in raw.domains[o],
                        x = [path |-> EntryComponents(g), owner |-> o]
                 PROVE  FALSE
      OBVIOUS
    <3>1. o \in DOMAIN out.domains /\ g \in out.domains[o]
      BY <1>1, <1>2
    <3>2. QED
      BY <1>4, <3>1, EntriesAre
  <2>2. PICK g \in raw.acknowledged \union raw.undecided :
                 x = [path |-> EntryComponents(g), owner |-> Unassigned]
    BY <1>4, <2>1, EntriesAre
  <2>3. g \notin out.acknowledged \union out.undecided
    BY <1>4, <2>2, EntriesAre
  <2>4. e.what = "label" /\ g = e.name /\ g \in raw.undecided
    BY <1>1, <1>2, <2>2, <2>3
  <2>5. QED
    BY <2>2, <2>4
<1>5. ASSUME NEW x \in before PROVE \E y \in after : y.path = x.path
  <2>1. CASE x \in after
    BY <2>1
  <2>2. CASE x \notin after
    <3>1. e.what = "label" /\ x.path = path
      BY <1>4, <2>2
    <3>2. PICK o \in e.to : o \in DOMAIN raw.domains
      BY <1>2, <3>1
    <3>3. o \in DOMAIN out.domains /\ e.name \in out.domains[o]
      BY <1>1, <3>1, <3>2
    <3> DEFINE named == [path |-> path, owner |-> o]
    <3>4. named \in after
      BY <3>3, EntriesAre
    <3>5. named.path = x.path
      BY <3>1
    <3>6. QED
      BY <3>4, <3>5
  <2>3. QED
    BY <2>1, <2>2
<1>6. nobodys.path = path /\ nobodys.owner = Unassigned
  OBVIOUS
<1> HIDE DEF nobodys, path, before, after
<1>7. QED
  BY <1>3, <1>4, <1>5, <1>6 DEF before, after, path, out

(* No decision widens a domain but under a name that it labels for it,     *)
(* although it withdraws an undecided entry, which had taken the path from *)
(* every domain ("That is not a widening", apply).                         *)
THEOREM DecisionWidensOnlyItsLabel ==
    ASSUME NEW Segment, NEW raw, IsBoundary(raw, Segment), NEW e, IsDecision(raw, e, Segment),
           NEW tree, NEW d, d # Unassigned, NEW p, Admits(Decide(raw, e), tree, d, p)
    PROVE  \/ Admits(raw, tree, d, p)
           \/ e.what = "label" /\ d \in e.to /\ IsPrefix(EntryComponents(e.name), p)
<1> DEFINE before == Entries(raw)
           after == Entries(Decide(raw, e))
           path == EntryComponents(e.name)
<1> SUFFICES ASSUME ~(e.what = "label" /\ d \in e.to /\ IsPrefix(path, p))
             PROVE  Admits(raw, tree, d, p)
  OBVIOUS
<1>1. /\ \A x \in after \ before :
             x.path = path /\ (x.owner = Unassigned \/ (e.what = "label" /\ x.owner \in e.to))
      /\ \A x \in before \ after : x.path = path /\ e.name \in raw.undecided /\ x.owner = Unassigned
      /\ \A x \in before : \E y \in after : y.path = x.path
  BY DecidedEntries
<1>2. ArePaths(before, Segment) /\ path \in Seq(Segment) \ {<<>>}
  BY DEF IsBoundary, IsDecision
<1>3. \A x \in before : x.owner = d => \E g \in Listed(raw) : x.path = EntryComponents(g)
  <2> TAKE x \in before
  <2> SUFFICES ASSUME x.owner = d PROVE \E g \in Listed(raw) : x.path = EntryComponents(g)
    OBVIOUS
  <2>1. PICK o \in DOMAIN raw.domains : \E g \in raw.domains[o] :
                 x = [path |-> EntryComponents(g), owner |-> o]
    BY EntriesAre
  <2>2. QED
    BY <2>1 DEF Listed
<1>4. \A g \in Listed(raw), u \in raw.undecided : EntryComponents(g) # EntryComponents(u)
  BY DEF IsBoundary
<1>5. Includes(after, tree.dirs, tree.repos, d, p)
  BY DEF Admits
<1> HIDE DEF before, after, path
<1>6. ArePaths(after, Segment)
  BY <1>1, <1>2 DEF ArePaths
<1>7. ASSUME NEW g \in after, g.owner = d, IsPrefix(g.path, p)
      PROVE  g \in before /\ \A x \in before \ after : x.path = g.path => x.owner # Unassigned
  <2>1. g \in before
    BY <1>1, <1>7
  <2>2. ASSUME NEW x \in before \ after, x.path = g.path PROVE FALSE
    <3>1. g.path = path /\ e.name \in raw.undecided
      BY <1>1, <2>2
    <3>2. QED
      BY <1>3, <1>4, <1>7, <2>1, <3>1 DEF path
  <2>3. QED
    BY <2>1, <2>2
<1>8. Includes(before, tree.dirs, tree.repos, d, p)
  BY <1>1, <1>2, <1>5, <1>6, <1>7, NarrowerIncludes
<1>9. QED
  BY <1>8 DEF Admits, before
================================================================================
