-------------------------------- MODULE Triage --------------------------------
(***************************************************************************)
(* nibdex audit, its --stage-undecided and --triage, and nibdex label:     *)
(* which directories no domain admits, what is asked about them, and how   *)
(* the answers change .nibdex-domains.toml (triage.rs, audit.rs, main.rs). *)
(*                                                                         *)
(* A tree is [dirs, files, repos, unread, unwalked]: the directories, the  *)
(* content files, the directories with a .git, and the directories that    *)
(* triage and audit do not enter.  An answer of the user is [kind, picks]. *)
(***************************************************************************)
EXTENDS Domains, FiniteSetsExt

CONSTANT MaxReportDepth

Name(path) == [absolute |-> FALSE, segments |-> path]

Admits(raw, tree, d, path) == Includes(Entries(raw), tree.dirs, tree.repos, d, path)

Admitted(raw, tree, path) == \E d \in DOMAIN raw.domains : Admits(raw, tree, d, path)

(* unassigned_subdirs: the walk goes down only where a domain admits it.   *)
UnassignedSubdirs(raw, tree) ==
    {p \in tree.dirs \ tree.unread :
        /\ Len(p) \in 1 .. MaxReportDepth
        /\ \A k \in 1 .. Len(p) - 1 : Starts(p, k) \notin tree.unread /\ Admitted(raw, tree, Starts(p, k))
        /\ ~Admitted(raw, tree, p)
        /\ Name(p) \notin raw.acknowledged}

(* As they are written in the file, in some order                          *)
Pending(raw, tree) == SetToSeq({Name(p) : p \in UnassignedSubdirs(raw, tree)})

--------------------------------------------------------------------------------
(* Decisions, [name, what, to]                                             *)

Decision(name, what, to) == [name |-> name, what |-> what, to |-> to]

Retire(raw, name) == [raw EXCEPT !.undecided = @ \ {name}]

Labelled(raw, name, to) ==
    [raw EXCEPT !.domains =
        [d \in DOMAIN @ |-> IF d \in to THEN @[d] \union {name} ELSE @[d]]]

(* Mutant: what is left out is withdrawn no more.                          *)
DecideRetiring(raw, decision) ==
    CASE decision.what = "label"       -> Retire(Labelled(raw, decision.name, decision.to), decision.name)
      [] decision.what = "acknowledge" ->
             Retire([raw EXCEPT !.acknowledged = @ \union {decision.name}], decision.name)
      [] decision.what = "undecided"   -> [raw EXCEPT !.undecided = @ \union {decision.name}]
      [] decision.what = "skip"        -> Retire(raw, decision.name)

Decide(raw, decision) ==
    CASE decision.what = "label"       -> Retire(Labelled(raw, decision.name, decision.to), decision.name)
      [] decision.what = "acknowledge" ->
             Retire([raw EXCEPT !.acknowledged = @ \union {decision.name}], decision.name)
      [] decision.what = "undecided"   -> [raw EXCEPT !.undecided = @ \union {decision.name}]
      [] decision.what = "skip"        -> raw

(* The file it leaves, or none if it is refused: it is written only when   *)
(* it has changed and would be read again.                                 *)
Apply(raw, decisions) ==
    LET out == FoldLeft(Decide, raw, decisions)
        unknown == \E i \in DOMAIN decisions : ~ decisions[i].to \subseteq DOMAIN raw.domains
    IN IF unknown \/ (out # raw /\ ~Valid(out)) THEN {} ELSE {out}

(* What is shown before anything is written: the lines that come and go    *)
RenderPlan(decisions, staged) ==
    LET Added(e) == CASE e.what = "label"       -> {<<"added", d, e.name>> : d \in e.to}
                      [] e.what = "acknowledge" -> {<<"added", "acknowledged", e.name>>}
                      [] e.what = "undecided"   -> {<<"added", "undecided", e.name>>}
                      [] e.what = "skip"        -> {}
        Retired(e) == IF e.what \in {"label", "acknowledge"} /\ e.name \in staged
                      THEN {<<"removed", "undecided", e.name>>} ELSE {}
    IN UNION {Added(e) \union Retired(e) : e \in ToSet(decisions)}

StageUndecided(raw, pending) ==
    SelectSeq([i \in DOMAIN pending |-> Decision(pending[i], "undecided", {})],
              LAMBDA e : e.name \notin raw.undecided)

(* One answer: the end of the input, an empty line and one that is not     *)
(* understood decide nothing; `names` are numbered as they were shown.     *)
PromptOne(name, names, answer) ==
    LET understood == \A i \in DOMAIN answer.picks : answer.picks[i] \in DOMAIN names
        chosen == {names[n] : n \in ToSet(answer.picks) \intersect DOMAIN names}
    IN IF answer.kind = "acknowledge" THEN Decision(name, "acknowledge", {})
       ELSE IF answer.kind = "picks" /\ understood /\ chosen # {} THEN Decision(name, "label", chosen)
       ELSE Decision(name, "skip", {})

RunTriage(pending, names, answers) ==
    [i \in DOMAIN pending |-> PromptOne(pending[i], names, answers[i])]

(* nibdex label, which takes any name and wants a domain or --acknowledge  *)
LabelCommand(raw, name, to, acknowledge) ==
    IF acknowledge THEN Apply(raw, <<Decision(name, "acknowledge", {})>>)
    ELSE IF to = {} THEN {}
    ELSE Apply(raw, <<Decision(name, "label", to)>>)

--------------------------------------------------------------------------------
(* The audit of a domain: findings [severity, kind, path]                  *)

Finding(severity, kind, path) == [severity |-> severity, kind |-> kind, path |-> path]

LabelFindings(raw, tree, d) ==
    UNION {LET p == EntryComponents(e) IN
           IF p \in tree.files THEN {Finding("error", "label-is-a-file", p)}
           ELSE IF p \notin tree.dirs THEN {Finding("error", "label-missing", p)}
           ELSE IF p \notin tree.repos THEN {Finding("warn", "label-not-a-repo", p)} ELSE {} :
           e \in raw.domains[d]}

CheckConfig(raw, tree, d) ==
    LabelFindings(raw, tree, d)
    \union {Finding("info", "subdir-unassigned", p) :
               p \in {q \in UnassignedSubdirs(raw, tree) : Name(q) \notin raw.undecided}}
    \union {Finding("info", "subdir-undecided", EntryComponents(e)) : e \in raw.undecided}
    \union (IF ClaimsMemory(raw, d) THEN {} ELSE {Finding("info", "memory-unclaimed", <<>>)})

(* What of the workspace's own files and of the domain's directories is    *)
(* not indexed; of these the labels are asked, not what they admit.  The   *)
(* walk of a label that is a file has that file.                           *)
CheckCoverage(raw, tree, d, indexed) ==
    LET missing == tree.files \ indexed
        Walked(sub, p) == \A k \in Len(sub) .. Len(p) - 1 : Starts(p, k) \notin tree.unwalked
    IN {Finding("info", "root-file-unindexed", p) : p \in {q \in missing : Len(q) = 1}}
       \union UNION {{Finding("warn", "labeled-content-unindexed", p) :
                         p \in {q \in missing : /\ IsPrefix(EntryComponents(e), q)
                                                /\ Walked(EntryComponents(e), q)}} :
                     e \in raw.domains[d]}

(* audit::run and the exit status of the command                           *)
RunAudit(raw, tree, d, indexed, configOnly) ==
    IF d \notin DOMAIN raw.domains THEN {}
    ELSE {CheckConfig(raw, tree, d) \union
             (IF configOnly THEN {} ELSE CheckCoverage(raw, tree, d, indexed))}

ExitStatus(report) == IF \E f \in report : f.severity = "error" THEN 1 ELSE 0

--------------------------------------------------------------------------------
(* No decision widens a domain but under a name labelled for it, whatever  *)
(* else is decided with it and whatever it retires (triage.rs: "a triage   *)
(* helper that could unlabel something would be a way to silently widen a  *)
(* domain's reach").                                                       *)
NeverWidens(raw, tree, decisions) ==
    \A out \in Apply(raw, decisions) : \A d \in DOMAIN raw.domains :
        \A p \in tree.dirs \union tree.files :
            Admits(out, tree, d, p) =>
                \/ Admits(raw, tree, d, p)
                \/ \E e \in ToSet(decisions) :
                       e.what = "label" /\ d \in e.to /\ IsPrefix(EntryComponents(e.name), p)

(* What the user confirms is all that changes, and a change that is shown  *)
(* is there afterwards (render_plan: "a confirmation prompt that           *)
(* understated the change would not be a confirmation").                   *)
PlanTells(raw, decisions) ==
    LET Lists(c) == (UNION {{<<d, e>> : e \in c.domains[d]} : d \in DOMAIN c.domains})
                    \union {<<"acknowledged", e>> : e \in c.acknowledged}
                    \union {<<"undecided", e>> : e \in c.undecided}
        plan == RenderPlan(decisions, raw.undecided)
        Told(what) == {<<l[2], l[3]>> : l \in {k \in plan : k[1] = what}}
    IN \A out \in Apply(raw, decisions) :
           /\ Lists(out) \ Lists(raw) \subseteq Told("added") /\ Told("added") \subseteq Lists(out)
           /\ Lists(raw) \ Lists(out) = Told("removed")

(* What is decided stays decided: an answer that labels or acknowledges a  *)
(* directory ends its being asked about, and nothing else does.            *)
Settles(raw, tree, decisions) ==
    \A out \in Apply(raw, decisions) : \A e \in ToSet(decisions) :
        LET path == EntryComponents(e.name)
            asked == path \in UnassignedSubdirs(out, tree)
        IN IF e.what \in {"label", "acknowledge"} THEN ~asked
           ELSE asked \/ \E k \in 1 .. Len(path) - 1 : ~Admitted(out, tree, Starts(path, k))

(* Staging what is pending ends: what the first round withdraws with it    *)
(* the second stages, and the third has nothing new.                       *)
StagingEnds(raw, tree) ==
    LET Round(configs) == UNION {Apply(c, StageUndecided(c, Pending(c, tree))) : c \in configs}
    IN \A c \in Round(Round({raw})) : StageUndecided(c, Pending(c, tree)) = <<>>

(* A content file that a domain admits and its database lacks is reported, *)
(* and a directory that no domain admits is in a tree that is reported, or *)
(* in one that somebody has acknowledged (audit.rs: "Content that reaches  *)
(* no domain produces no error").                                          *)
AuditTells(raw, tree, d, indexed) ==
    \A report \in RunAudit(raw, tree, d, indexed, FALSE) :
        /\ \A p \in tree.files \ indexed :
               Admits(raw, tree, d, p) =>
                   \/ \E k \in 1 .. Len(p) - 1 : Starts(p, k) \in tree.unwalked
                   \/ \E f \in report : f.kind = "labeled-content-unindexed" /\ f.path = p
        /\ \A p \in tree.dirs :
               \/ p = <<>> \/ Len(p) > MaxReportDepth \/ Admitted(raw, tree, p)
               \/ \E k \in 1 .. Len(p) :
                      \/ Starts(p, k) \in tree.unread
                      \/ Name(Starts(p, k)) \in raw.acknowledged
                      \/ \E f \in report : /\ f.kind \in {"subdir-unassigned", "subdir-undecided"}
                                           /\ f.path = Starts(p, k)
================================================================================
