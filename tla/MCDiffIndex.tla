------------------------------ MODULE MCDiffIndex ------------------------------
(* Two repositories.  The first has a commit that adds two blocks to a     *)
(* code file and one to a document, one that replaces a line, and one that *)
(* deletes a file and adds blank lines and an over-long block.             *)
EXTENDS DiffIndex

CONSTANTS near, far, code, doc

MCDiff ==
    near :> << <<OldLine, FileLine(code), HunkLine(1), AddLine("a"), AddLine("b"),
                 HunkLine(5), AddLine("a"), OldLine, OldLine, FileLine(doc),
                 HunkLine(1), AddLine("b")>>,
               <<OldLine, OldLine, FileLine(code), HunkLine(2), DelLine, AddLine("c"), DelLine,
                 AddLine("a"), OldLine, OldLine, FileLine(NoFile), HunkLine(0), DelLine,
                 OldLine, OldLine, FileLine(doc), HunkLine(3), AddLine("_"), HunkLine(6),
                 AddLine("a"), AddLine("_"), AddLine("a"), AddLine("a")>> >>
 @@ far :> << <<OldLine, FileLine(code), HunkLine(1), AddLine("d")>> >>

(* A commit whose code holds a line that begins with "++ ".                *)
PlusDiff ==
    near :> << <<OldLine, FileLine(code), HunkLine(1), AddLine("a"), AddLine("++ "), AddLine("b")>> >>
 @@ far :> << <<OldLine, FileLine(code), HunkLine(1), AddLine("d")>> >>
================================================================================
