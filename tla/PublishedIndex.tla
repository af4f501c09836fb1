--------------------------- MODULE PublishedIndex ---------------------------
(***************************************************************************)
(* What the index of a branch promises to its readers (the API's file,     *)
(* symbol and search endpoints, the MCP server): they see nothing until a  *)
(* first index is published, and from then on always the files of one      *)
(* whole commit, which a later publication replaces in one step.           *)
(***************************************************************************)
CONSTANTS
  Commits,   \* the commits of the branch
  Tree,      \* the source files of each commit
  Nothing    \* what a reader sees while no snapshot is active

VARIABLE view

Init == view = Nothing

Publish(c) == view' = Tree[c]

Next == \E c \in Commits : Publish(c)

Spec == Init /\ [][Next]_view
=============================================================================
