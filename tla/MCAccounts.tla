----------------------------- MODULE MCAccounts -----------------------------
(* Small instances of Accounts for TLC.                                      *)
EXTENDS Accounts

CONSTANTS u1, u2, u3, t1, t2

Administration == {"deactivate", "activate", "grant", "revoke"}
Everything == Administration \cup
  {"register", "login", "logout", "projectKey", "personalKey", "deleteKey", "useKey", "member"}

Anyone == Users \X Users
=============================================================================
