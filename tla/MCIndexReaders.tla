--------------------------- MODULE MCIndexReaders ---------------------------
(* A small instance of IndexReaders for TLC.                               *)
EXTENDS IndexReaders, TLC

CONSTANTS c1, c2, v1, f1, f2, f3, a, b, pkg

\* Between the two commits f1 stays, f2 changes, and f3 is added or deleted.
TwoTrees ==
  c1 :> (f1 :> a @@ f2 :> a @@ f3 :> NoFile) @@ c2 :> (f1 :> a @@ f2 :> b @@ f3 :> b)

\* b's files import f1 and a package, a's import f2.
MCImports == a :> {f2} @@ b :> {f1, pkg}

Query(op, path, depth) ==
  [op |-> op, path |-> path, depth |-> depth, query |-> {a}, include |-> {{f1, f2}}, exclude |-> {{f2}}]
MCRequests ==
  {Query(op, f2, 0) : op \in {"search", "symbols", "overview", "fileDeps", "context", "structure",
                                "exports", "references", "jsxUsages", "networkCalls"}}
  \cup {Query("graph", f1, d) : d \in {1, 3}}
=============================================================================
