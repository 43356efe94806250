---------------------------- MODULE MCSessionEdges ----------------------------
(* Two transcripts and two sessions; scripts in which a session edits at   *)
(* home, reads another domain's tree, edits without text of its own, moves *)
(* to another directory, and is resumed in the other transcript.           *)
EXTENDS SessionEdges

CONSTANTS s1, s2, own, other, scratch, foreign

At(session, group, cwd, text, edits, reads, searches) ==
    [session |-> session, group |-> group, cwd |-> cwd, text |-> text,
     edits |-> edits, reads |-> reads, searches |-> searches]

\* an edit with text, then one without after a look at another domain's tree
Strays == << At(s1, 1, own, TRUE, <<own>>, {}, 0),
             At(s1, 2, own, FALSE, <<own>>, {other}, 1) >>

\* one message of two lines, the second taints it
Split == << At(s1, 1, own, TRUE, <<own>>, {scratch}, 0),
            At(s1, 1, own, FALSE, <<>>, {other}, 1) >>

\* text in a foreign directory, which writes home too, then edits without text
Moves == << At(s1, 1, foreign, TRUE, <<foreign, own>>, {}, 1),
            At(s1, 2, own, FALSE, <<own, foreign>>, {}, 0) >>

\* text of one session, then an edit of another
Mixed == << At(s2, 1, own, TRUE, <<own>>, {foreign}, 0),
            At(s1, 2, own, FALSE, <<own>>, {}, 1) >>

\* the same session goes on elsewhere
Resumed == << At(s1, 3, other, TRUE, <<own>>, {}, 2) >>

MCTouched == {{own}}

MCScript == {<<Strays, Resumed>>, <<Split, Resumed>>, <<Moves, Resumed>>, <<Mixed, Resumed>>}
================================================================================
