------------------------- MODULE MCProviderSettings -------------------------
(* A small instance of ProviderSettings for TLC: request bodies that keep,   *)
(* clear and replace credentials, move an endpoint, change a model, and      *)
(* withdraw a config from the projects.                                      *)
EXTENDS ProviderSettings

CONSTANTS p1, e1, e2, m1, m2, t1, t2

MCSaves == {[ep |-> e1, model |-> m1, cred |-> "set",  avail |-> "yes"],
            [ep |-> e2, model |-> m1, cred |-> "keep", avail |-> "yes"]}

MCPatches == {[ep |-> None, model |-> m2,   cred |-> "keep", avail |-> "keep"],
              [ep |-> None, model |-> None, cred |-> "keep", avail |-> "no"]}
=============================================================================
