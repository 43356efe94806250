------------------------------ MODULE MCFullScan ------------------------------
(* Two repositories, one per domain, with links from one into the other in *)
(* a CLAUDE.md and a root *.md; a labeled directory that is no repository, *)
(* with one repository nobody has listed and one of the other domain; a    *)
(* dump in each; a shared library that is labeled later.  In the carved    *)
(* configurations a directory inside the first repository is withdrawn.    *)
EXTENDS FullScan

CONSTANTS A, B, a, b, p, n, m, lib, s, f, g

E(owner, path) == [owner |-> owner, path |-> path]

MCEntries ==
    {E(A, <<a>>), E(B, <<b>>), E(A, <<p>>), E(B, <<p, m>>)}

MCConfigs ==
    {[entries |-> MCEntries, memory |-> {}],
     [entries |-> MCEntries \union {E(A, <<lib>>), E(B, <<lib>>)}, memory |-> {A}],
     [entries |-> (MCEntries \ {E(A, <<a>>)}) \union {E(Unassigned, <<p, n>>)}, memory |-> {}]}

MCCarved ==
    {[entries |-> MCEntries \union {E(Unassigned, <<a, s>>)}, memory |-> {}]}

MCRepo == {<<a>>, <<b>>, <<p, n>>, <<p, m>>, <<lib>>}
MCDir == MCRepo \union {<<p>>, <<a, s>>, <<lib, s>>}

MCDump == {<<a, g>>, <<p, n, g>>}

I(corpus, anchor, at, real) == [corpus |-> corpus, anchor |-> anchor, at |-> at, real |-> real]

MCItems ==
    {I("session_history", <<>>, <<f>>, <<f>>),
     I("session_history", <<a>>, <<a, f>>, <<b, f>>),
     I("design_doc", <<a>>, <<a, g>>, <<b, g>>),
     I("design_doc", <<lib>>, <<lib, g>>, <<lib, g>>),
     I("memory", <<>>, <<>>, <<>>),
     I("commit", <<p, n>>, <<p, n, f>>, <<p, n, f>>),
     I("commit", <<p, m>>, <<p, m, f>>, <<p, m, f>>),
     I("source", <<a>>, <<a, s, f>>, <<a, s, f>>),
     I("source", <<b>>, <<b, f>>, <<a, f>>),
     I("source", <<lib>>, <<lib, g>>, <<lib, g>>),
     I("session_edge", <<>>, <<p, f>>, <<p, f>>),
     I("session_edge", <<>>, <<p, n, f>>, <<p, n, f>>),
     I("session_edge", <<>>, <<g>>, <<g>>)}
================================================================================
