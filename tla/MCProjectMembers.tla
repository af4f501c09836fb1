-------------------------- MODULE MCProjectMembers --------------------------
(* A small instance of ProjectMembers for TLC.  No symmetry: the run checks  *)
(* liveness.                                                                *)
EXTENDS ProjectMembers

CONSTANTS u1, u2, t1, t2
=============================================================================
