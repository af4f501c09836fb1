---------------------------- MODULE MCRepoCache -----------------------------
(* Small instances of RepoCache for TLC.                                     *)
EXTENDS RepoCache, TLC

CONSTANTS u1, u2, k1, k2, p1, p2, ssh, scp, other, t1, t2, j1, j2

\* Two ways to write one repository, and another one.
SameRepository == (ssh :> "one") @@ (scp :> "one") @@ (other :> "two")
=============================================================================
