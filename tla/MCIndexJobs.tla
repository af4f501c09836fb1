---------------------------- MODULE MCIndexJobs -----------------------------
(* Small instances of IndexJobs for TLC.                                   *)
EXTENDS IndexJobs, TLC

CONSTANTS j1, j2, p1, w1, s1, s2, c1

\* Two jobs of one project, of different types, so that both may be active.
OneProject == [j \in Jobs |-> p1]
TwoTypes   == [j \in Jobs |-> IF j = j1 THEN "full" ELSE "incremental"]

\* The goroutines of a worker are interchangeable.
SlotSymmetry == Permutations(Slots)
=============================================================================
