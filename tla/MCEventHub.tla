----------------------------- MODULE MCEventHub -----------------------------
(* A small instance of EventHub for TLC.  No symmetry: the run checks        *)
(* liveness.                                                                *)
EXTENDS EventHub

CONSTANTS u1, c1, c2

MCUserOf == [c \in Clients |-> u1]
=============================================================================
