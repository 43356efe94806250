--------------------------------- MODULE MCHook ---------------------------------
(* A workspace that is a repository with two others in it; a database in   *)
(* the workspace and one in a repository.  Chunks of all three, one whose  *)
(* lines do not hold the term; two searches, a query of tables and a call  *)
(* that asks nothing, with and without a database named.                   *)
EXTENDS Hook, TLC

CONSTANTS ws, proj, other, one, two

MCAbove == ws :> <<ws>> @@ proj :> <<proj, ws>> @@ other :> <<other, ws>>

MCDb == {<<ws, 2>>, <<proj, 1>>}

MCEnv == {NoDb, NoFile, <<ws, 2>>}

Chunk(r, p, whole) == [repo |-> r, path |-> p, whole |-> whole]

MCRanked == <<Chunk(other, <<"src">>, TRUE), Chunk(proj, <<"doc">>, FALSE),
              Chunk(proj, <<"doc", "src">>, TRUE), Chunk(ws, <<"src">>, TRUE)>>

MCEvent ==
    {[cwd |-> proj, tool |-> "Bash", usable |-> TRUE, scope |-> {<<"src">>}, tables |-> {}],
     [cwd |-> ws, tool |-> "Grep", usable |-> TRUE, scope |-> {}, tables |-> {}],
     [cwd |-> proj, tool |-> "Bash", usable |-> FALSE, scope |-> {}, tables |-> {"t", "u"}],
     [cwd |-> ws, tool |-> "Grep", usable |-> FALSE, scope |-> {}, tables |-> {}]}

(* The workspace is indexed with all repositories, and proj has a database *)
(* of its own; or with one of them and a dump, and that of proj is empty.  *)
MCContents ==
    {<<ws, 2>> :> [repos |-> {ws, proj, other}, chunks |-> 1 .. 4, tables |-> {}]
        @@ <<proj, 1>> :> [repos |-> {proj}, chunks |-> {2, 3}, tables |-> {"t"}],
     <<ws, 2>> :> [repos |-> {other}, chunks |-> {1}, tables |-> {"t"}]
        @@ <<proj, 1>> :> [repos |-> {proj}, chunks |-> {}, tables |-> {}]}

Symmetry == Permutations(Firing)

Command ==
    INSTANCE HookCommand WITH
        Separator <- {}, SearchTool <- {}, PatternFlag <- {}, Glued <- <<>>, FileFlag <- {},
        ValuedFlag <- {}, OtherFlag <- {}, Nothing <- NoDb

MCAdmits(path, scope) == Command!InScope(path, scope, {<<"src", "src">>, <<"doc", "doc">>})
================================================================================
