------------------------------ MODULE HookCommand ------------------------------
(***************************************************************************)
(* What the hook reads out of a shell command (hook.rs): the term it       *)
(* searches for, the paths it is asked about, the tables it names.  A      *)
(* command is the sequence of tokens the tokenizer makes of it.            *)
(***************************************************************************)
EXTENDS Naturals, Sequences, SequencesExt, FiniteSets, FiniteSetsExt

CONSTANTS
    Separator,      \* ; && ||
    SearchTool,     \* SEARCH_TOOLS
    PatternFlag,    \* -e, --regexp, a cluster that ends in e
    Glued,          \* --regexp=w and -ew, with their w
    FileFlag,       \* -f, --file
    ValuedFlag,     \* the other flags whose value is a token of its own
    OtherFlag,      \* any other token that begins with -
    Nothing         \* no term

Pipe == "|"
Sudo == "sudo"

Flag == PatternFlag \union DOMAIN Glued \union FileFlag \union ValuedFlag \union OtherFlag

--------------------------------------------------------------------------------
(* The statement that asks: the first that leads with a search tool.  What *)
(* follows a pipe filters another command's output.                        *)

Starts(cmd) == {1} \union {i + 1 : i \in {j \in DOMAIN cmd : cmd[j] \in Separator}}

HeadEnd(cmd, s) ==
    Min({Len(cmd) + 1} \union {i \in s .. Len(cmd) : cmd[i] \in Separator \union {Pipe}}) - 1

ToolAt(cmd, s) == IF s <= HeadEnd(cmd, s) /\ cmd[s] = Sudo THEN s + 1 ELSE s

Asks(cmd) == {s \in Starts(cmd) : ToolAt(cmd, s) <= HeadEnd(cmd, s) /\ cmd[ToolAt(cmd, s)] \in SearchTool}

(* Its arguments; meaningless when no statement asks                       *)
Args(cmd) == LET s == Min(Asks(cmd)) IN SubSeq(cmd, ToolAt(cmd, s) + 1, HeadEnd(cmd, s))

--------------------------------------------------------------------------------
(* pattern_arg_at                                                          *)
NoArg   == [kind |-> "none", pattern |-> Nothing, used |-> 0]
Decline == [kind |-> "decline", pattern |-> Nothing, used |-> 0]

PatternArgAt(args, i) ==
    IF args[i] \in FileFlag THEN Decline
    ELSE IF args[i] \in DOMAIN Glued
         THEN [kind |-> "pattern", pattern |-> Glued[args[i]], used |-> 1]
    ELSE IF args[i] \notin PatternFlag THEN NoArg
    ELSE IF i = Len(args) THEN Decline
    ELSE [kind |-> "pattern", pattern |-> args[i + 1], used |-> 2]

(* pattern_from                                                            *)
FirstTerm(args) ==
    LET walk[i \in 1 .. Len(args) + 2] ==
            IF i > Len(args) THEN Nothing
            ELSE IF PatternArgAt(args, i).kind # "none" THEN PatternArgAt(args, i).pattern
            ELSE IF args[i] \in ValuedFlag THEN walk[i + 2]
            ELSE IF args[i] \in Flag THEN walk[i + 1]
            ELSE args[i]
    IN walk[1]

PatternFrom(cmd) == IF Asks(cmd) = {} THEN Nothing ELSE FirstTerm(Args(cmd))

(* paths_from: what is left, without "."                                   *)
Operands(args) ==
    LET walk[i \in 1 .. Len(args) + 2, seen \in BOOLEAN] ==
            IF i > Len(args) THEN <<>>
            ELSE LET p == PatternArgAt(args, i) IN
                 IF p.kind = "decline" THEN <<Nothing>>
                 ELSE IF p.kind = "pattern" THEN walk[i + p.used, TRUE]
                 ELSE IF args[i] \in ValuedFlag THEN walk[i + 2, seen]
                 ELSE IF args[i] \in Flag THEN walk[i + 1, seen]
                 ELSE IF ~seen THEN walk[i + 1, TRUE]
                 ELSE (IF args[i] = "." THEN <<>> ELSE <<args[i]>>) \o walk[i + 1, seen]
    IN walk[1, FALSE]

PathsFrom(cmd) ==
    IF Asks(cmd) = {} THEN <<>>
    ELSE LET found == Operands(Args(cmd))
         IN IF Nothing \in ToSet(found) THEN <<>> ELSE found

--------------------------------------------------------------------------------
(* How a hit's path meets the scope: paths are sequences of components,    *)
(* compared as strings, so the last component of the scope may be the      *)
(* beginning of another; and the last component of the scope is tried      *)
(* alone against the beginning of the path.                                *)
InScope(path, scope, Begins) ==
    \E s \in scope :
        LET Here(i) == /\ i + Len(s) - 1 <= Len(path)
                       /\ \A k \in 1 .. Len(s) - 1 : path[i + k - 1] = s[k]
                       /\ <<path[i + Len(s) - 1], s[Len(s)]>> \in Begins
        IN \/ \E i \in DOMAIN path : Here(i)
           \/ <<path[1], s[Len(s)]>> \in Begins

--------------------------------------------------------------------------------
(* tables_from_sql, over the words of a command that names a client and a  *)
(* statement: what follows FROM, JOIN, INTO or UPDATE, without the names   *)
(* that are none, two at most.  Fold is the lower case of a name.          *)
TablesFromSql(words, Keyword, NoTable, Fold) ==
    LET Named == {i \in 2 .. Len(words) : words[i - 1] \in Keyword /\ words[i] \notin NoTable}
        Fresh == {i \in Named : \A j \in Named : j < i => Fold[words[j]] # Fold[words[i]]}
        First == {i \in Fresh : Cardinality({j \in Fresh : j < i}) < 2}
    IN {words[i] : i \in First}

--------------------------------------------------------------------------------
(* What grep makes of the same arguments: a token after a flag that takes  *)
(* a value is its value, and not a flag or an operand itself.              *)
Values(args) ==
    LET taken[i \in 1 .. Len(args)] ==
            i > 1 /\ ~taken[i - 1] /\ args[i - 1] \in PatternFlag \union FileFlag \union ValuedFlag
    IN {i \in DOMAIN args : taken[i]}

Plain(args) == {i \in DOMAIN args \ Values(args) : args[i] \notin Flag}

Asking(args) == {i \in DOMAIN args \ Values(args) : args[i] \in PatternFlag \union DOMAIN Glued \union FileFlag}

(* The terms of the flags, or else the first operand                       *)
GrepTerms(args) ==
    LET given == {Glued[args[i]] : i \in {j \in Asking(args) : args[j] \in DOMAIN Glued}}
                 \union {args[i + 1] : i \in {j \in Asking(args) : args[j] \in PatternFlag /\ j < Len(args)}}
    IN IF Asking(args) # {} THEN given
       ELSE {args[i] : i \in {j \in Plain(args) : \A k \in Plain(args) : j <= k}}

GrepFiles(args) ==
    LET rest == IF Asking(args) # {} THEN Plain(args)
                ELSE {i \in Plain(args) : \E j \in Plain(args) : j < i}
    IN {args[i] : i \in rest} \ {"."}

(* The commands the two agree on: the flag that carries the term comes     *)
(* before the operands, and no "--" ends the flags.                        *)
Ordinary(args) ==
    /\ "--" \notin ToSet(args)
    /\ \A i \in Asking(args), j \in Plain(args) : i < j

(* Two tables at most, none of them twice, and the first one named.        *)
TwoTables(words, Keyword, NoTable, Fold) ==
    LET found == TablesFromSql(words, Keyword, NoTable, Fold)
        Named == {i \in 2 .. Len(words) : words[i - 1] \in Keyword /\ words[i] \notin NoTable}
    IN /\ Cardinality({Fold[t] : t \in found}) = Cardinality(found)
       /\ Cardinality(found) = Min({2, Cardinality({Fold[words[i]] : i \in Named})})
       /\ Named # {} => words[Min(Named)] \in found

(* "The index answers the question that was asked": the term is one that   *)
(* grep would search for and the scope is the files it would search, or    *)
(* the hook declines.                                                      *)
SameQuestion(cmd) ==
    Asks(cmd) # {} /\ Ordinary(Args(cmd)) /\ PatternFrom(cmd) # Nothing =>
        /\ PatternFrom(cmd) \in GrepTerms(Args(cmd))
        /\ (\A i \in DOMAIN Args(cmd) : Args(cmd)[i] \notin FileFlag) =>
               ToSet(PathsFrom(cmd)) = GrepFiles(Args(cmd))
================================================================================
