--------------------------- MODULE MCProjectKeys ----------------------------
(* Small instances of ProjectKeys for TLC.                                   *)
EXTENDS ProjectKeys

CONSTANTS u1, u2, k1, k2, k3, p1, p2, url, t1, t2
=============================================================================
