-------------------------- MODULE MCCommitHistory ---------------------------
EXTENDS CommitHistory

\* c2 and s1 branch off from c1; m merges s1 into c2; x merges m into s1, with s1
\* as its first parent.
MCParents == [c1 |-> <<>>, c2 |-> <<"c1">>, s1 |-> <<"c1">>,
              m |-> <<"c2", "s1">>, x |-> <<"s1", "m">>]
Change(s, k, n) == [status |-> s, kind |-> k, lines |-> n]
MCChanges == [c1 |-> [f |-> Change("A", "text", 1), g |-> Change("A", "binary", 2)],
              c2 |-> [f |-> Change("M", "big", 2)],
              s1 |-> [g |-> Change("D", "mode", 1)],
              m  |-> [f |-> Change("D", "text", 1)],
              x  |-> [f |-> Change("D", "text", 2)]]
MCFilters == {DOMAIN MCParents, {"c1", "m"}}
=============================================================================
