--------------------------- MODULE MCSnapshotIndex --------------------------
(* Small instances of SnapshotIndex for TLC.                               *)
EXTENDS SnapshotIndex, TLC

CONSTANTS c1, c2, v1, v2, f1, f2, f3, a, b

\* Between the two commits f1 stays, f2 changes, and f3 is added or deleted.
TwoTrees ==
  c1 :> (f1 :> a @@ f2 :> a @@ f3 :> NoFile) @@ c2 :> (f1 :> a @@ f2 :> b @@ f3 :> b)
=============================================================================
