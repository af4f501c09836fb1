---------------------------- MODULE IndexReaders ----------------------------
(***************************************************************************)
(* The requests that read the index: code search, symbols, dependencies,   *)
(* the dependency graph, the file tree and the views of one file.          *)
(*                                                                         *)
(* Each looks up the active snapshot in one statement and reads its rows   *)
(* in others, with no transaction around them, while builds                *)
(* (SnapshotIndex) write, replace and re-use snapshots.  A request refused *)
(* for its parameters reads nothing and is left out.                       *)
(***************************************************************************)
EXTENDS SnapshotIndex, Sequences, FiniteSetsExt

CONSTANTS
  Packages,       \* packages outside the repository
  Imports,        \* what a content imports: files and packages
  Requests,       \* what requests ask for
  MaxGraphDepth,  \* maxGraphDepth
  MaxGraphNodes,  \* maxGraphNodes
  MaxReads        \* bound on the number of requests

NoOp == "none"

\* The requests that are a fixed list of statements.
Ops == {"search", "symbols", "overview", "fileDeps", "structure", "context",
        "exports", "references", "jsxUsages", "networkCalls"}
ASSUME ReadersAssumption ==
  /\ IsFiniteSet(Files) /\ IsFiniteSet(Packages) /\ Packages \cap Files = {}
  /\ Imports \in [Contents -> SUBSET (Files \cup Packages)]
  /\ {MaxGraphDepth, MaxGraphNodes, MaxReads} \subseteq Nat \ {0}
  /\ \A q \in Requests :
       /\ q.op \in Ops \cup {"graph"}
       /\ q.path \in Files /\ q.depth \in Nat /\ q.query \subseteq Contents
       /\ q.include \cup q.exclude \subseteq SUBSET Files

VARIABLES
  rd,         \* the request: what it asks, where it is, what it has read
  rewritten,  \* history: the snapshot it reads has been taken over by a build
  lost,       \* the file rows it may have seen are deleted
  reads       \* requests so far (bounded by MaxReads)

readVars == <<rd, rewritten, lost, reads>>
allVars == <<vars, readVars>>

NoQuery == [op |-> NoOp, path |-> NoOp, depth |-> 0, query |-> {}, include |-> {}, exclude |-> {}]
NoRead == [at |-> "idle", q |-> NoQuery, snap |-> NoSnap, got |-> <<>>,
           visited |-> {}, frontier |-> {}, level |-> 0, edges |-> {}, fwd |-> {},
           truncated |-> FALSE]

ReadersInit == Init /\ rd = NoRead /\ rewritten = FALSE /\ lost = FALSE /\ reads = 0

-----------------------------------------------------------------------------
(* The queries, on the file rows F, the rows A that belong to them and the *)
(* dependency rows of the files D of a snapshot of commit c.               *)

\* The paths a search is about: in one of the directories included, if any, and in
\* none of those excluded.
Selected(q) ==
  {f \in Files : /\ q.include = {} \/ f \in UNION q.include
                 /\ f \notin UNION q.exclude}

\* Chunks, or symbols, that match; the count has the same WHERE clause.
buildCodeSearchQuery(q, A) ==
  {<<f, A[f]>> : f \in {g \in Selected(q) : A[g] \in q.query}}

buildSymbolListQuery(q, A) ==
  {<<f, A[f]>> : f \in {g \in Selected(q) : A[g] # NoFile}}

\* Dependency rows carry what the file imported when it was parsed.
Dependencies(D, c) ==
  UNION {{f} \X Imports[Tree[c][f]] : f \in D \cap SourceFiles(c)}
ListDependenciesFromFiles(D, c, S) == {e \in Dependencies(D, c) : e[1] \in S}
ListDependenciesFromFile(D, c, f) == ListDependenciesFromFiles(D, c, {f})

\* Mutant of ListDependenciesToFiles: only packages have importers.
ListDependenciesToNone(D, c, S) == {e \in Dependencies(D, c) : e[2] \in S \ Files}

ListDependenciesToFiles(D, c, S) == {e \in Dependencies(D, c) : e[2] \in S}
ListDependenciesToFile(D, c, f) == ListDependenciesToFiles(D, c, {f})

ListExternalDependencies(D, c) == {e[2] : e \in Dependencies(D, c)} \cap Packages
ListFileDependencyCounts(D, c) ==
  ({e[1] : e \in Dependencies(D, c)} \cup {e[2] : e \in Dependencies(D, c)}) \cap Files
CountFilesWithDependencies(D, c) == Cardinality(ListFileDependencyCounts(D, c))

\* One row of files, with its content.
GetFileWithContent(F, f) == IF F[f] = NoFile THEN {} ELSE {<<f, F[f]>>}
ListSnapshotFiles(F) == {<<f, F[f]>> : f \in {g \in Files : F[g] # NoFile}}
GetFileBySnapshotAndPath(F, f) == {f} \cap {g \in Files : F[g] # NoFile}

\* What a file contains, by the id of its row.
Contained(A, f) == IF A[f] = NoFile THEN {} ELSE {<<f, A[f]>>}
ListExportsByFileID(A, f) == Contained(A, f)
ListSymbolReferencesByFileID(A, f) == Contained(A, f)
ListJsxUsagesByFileID(A, f) == Contained(A, f)
ListNetworkCallsByFileID(A, f) == Contained(A, f)
ByFileID == {"exports", "references", "jsxUsages", "networkCalls"}

\* The statements of each request, in order, after the lookup of the snapshot.
HandleSearch == <<"chunks", "chunkCount">>
HandleListSymbols == <<"symbols", "symbolCount">>
HandleDependencies == <<"externals", "fileCounts", "totalFiles">>
HandleFileDependencies == <<"imports", "importedBy">>
HandleStructure == <<"files">>
HandleFileContext == <<"content">>
HandleFileExports == <<"fileID", "exports">>
HandleFileReferences == <<"fileID", "references">>
HandleFileJsxUsages == <<"fileID", "jsxUsages">>
HandleFileNetworkCalls == <<"fileID", "networkCalls">>

Statements(op) ==
  CASE op = "search"       -> HandleSearch
    [] op = "symbols"      -> HandleListSymbols
    [] op = "overview"     -> HandleDependencies
    [] op = "fileDeps"     -> HandleFileDependencies
    [] op = "structure"    -> HandleStructure
    [] op = "context"      -> HandleFileContext
    [] op = "exports"      -> HandleFileExports
    [] op = "references"   -> HandleFileReferences
    [] op = "jsxUsages"    -> HandleFileJsxUsages
    [] op = "networkCalls" -> HandleFileNetworkCalls

Result(st, q, F, A, D, c) ==
  CASE st = "chunks"       -> buildCodeSearchQuery(q, A)
    [] st = "chunkCount"   -> Cardinality(buildCodeSearchQuery(q, A))
    [] st = "symbols"      -> buildSymbolListQuery(q, A)
    [] st = "symbolCount"  -> Cardinality(buildSymbolListQuery(q, A))
    [] st = "externals"    -> ListExternalDependencies(D, c)
    [] st = "fileCounts"   -> ListFileDependencyCounts(D, c)
    [] st = "totalFiles"   -> CountFilesWithDependencies(D, c)
    [] st = "imports"      -> ListDependenciesFromFile(D, c, q.path)
    [] st = "importedBy"   -> ListDependenciesToFile(D, c, q.path)
    [] st = "files"        -> ListSnapshotFiles(F)
    [] st = "content"      -> GetFileWithContent(F, q.path)
    [] st = "fileID"       -> GetFileBySnapshotAndPath(F, q.path)
    [] st = "exports"      -> ListExportsByFileID(A, q.path)
    [] st = "references"   -> ListSymbolReferencesByFileID(A, q.path)
    [] st = "jsxUsages"    -> ListJsxUsagesByFileID(A, q.path)
    [] st = "networkCalls" -> ListNetworkCallsByFileID(A, q.path)

-----------------------------------------------------------------------------
(* The requests.                                                           *)

Ask(q) ==
  /\ rd.at \in {"idle", "done"}
  /\ reads < MaxReads
  /\ reads' = reads + 1
  /\ rd' = [NoRead EXCEPT !.at = "lookup", !.q = q]
  /\ rewritten' = FALSE /\ lost' = FALSE
  /\ UNCHANGED vars

Continue(r) == rd' = r /\ UNCHANGED <<vars, rewritten, lost, reads>>

\* GetActiveSnapshotForProject; without one the answer is empty, or not found.
LookUp ==
  /\ rd.at = "lookup"
  /\ Continue(IF isActive = {} THEN [rd EXCEPT !.at = "done"]
              ELSE [rd EXCEPT !.at = IF rd.q.op = "graph" THEN "forward" ELSE "read",
                              !.snap = CHOOSE s \in isActive : TRUE,
                              !.visited = IF rd.q.op = "graph" THEN {<<rd.q.path, 0>>} ELSE {},
                              !.frontier = IF rd.q.op = "graph" THEN {rd.q.path} ELSE {}])

\* Mutant of Reading: every statement reads what is active by then.
ReadingActive == IF isActive = {} THEN rd.snap ELSE CHOOSE s \in isActive : TRUE

\* The snapshot the statements name.
Reading == rd.snap

\* The next statement.  A file id that is no more has no rows; a path that is not
\* there ends the request.
Read ==
  LET st == Statements(rd.q.op)[Len(rd.got) + 1]
      s == Reading
      A == IF st \in ByFileID /\ lost THEN NoFiles ELSE arts[s]
      res == Result(st, rd.q, files[s], A, deps[s], CommitOf(s))
      ends == \/ Len(rd.got) + 1 = Len(Statements(rd.q.op))
              \/ st = "fileID" /\ res = {}
  IN /\ rd.at = "read"
     /\ Continue([rd EXCEPT !.got = Append(@, res), !.at = IF ends THEN "done" ELSE "read"])

Depth(asked) == Min({MaxGraphDepth, asked})
Nodes == {n[1] : n \in rd.visited}

\* A level of the traversal: the edges out of the frontier ...
GraphForward ==
  /\ rd.at = "forward"
  /\ Continue(
       IF rd.level = Depth(rd.q.depth) \/ rd.frontier = {}
       THEN [rd EXCEPT !.at = "done", !.frontier = {}]
       ELSE [rd EXCEPT !.at = "reverse",
                       !.fwd = ListDependenciesFromFiles(deps[Reading], CommitOf(Reading), rd.frontier)])

\* Nodes that are new, as many of them as there is room for.
Admitted(new, room) == kSubset(Min({Cardinality(new), room}), new)

\* Once a node found no room, edges that lead to it are dropped.
KeptEdges(E, nodes, truncated) ==
  IF truncated THEN {e \in E : e[1] \in nodes /\ e[2] \in nodes} ELSE E

\* The request after a level: the nodes N are new, rev are the edges into the
\* frontier, next is the next frontier, and full says that a node found no room.
AfterLevel(N, rev, next, full) ==
  [rd EXCEPT !.visited = @ \cup (N \X {rd.level + 1}),
             !.frontier = IF full THEN {} ELSE next,
             !.edges = KeptEdges(rd.edges \cup rd.fwd \cup rev, Nodes \cup N, full),
             !.fwd = {}, !.level = @ + 1, !.truncated = full,
             !.at = IF full THEN "done" ELSE "forward"]

\* ... and those into it.  New nodes are visited in the order of the rows, any order
\* here, targets first; packages are not followed.
GraphReverse ==
  LET rev == ListDependenciesToFiles(deps[Reading], CommitOf(Reading), rd.frontier)
      targets == {e[2] : e \in rd.fwd} \ Nodes
  IN /\ rd.at = "reverse"
     /\ \E T \in Admitted(targets, MaxGraphNodes - Cardinality(Nodes)) :
          LET sources == {e[1] : e \in rev} \ (Nodes \cup T)
          IN \E S \in Admitted(sources, MaxGraphNodes - Cardinality(Nodes \cup T)) :
               Continue(AfterLevel(T \cup S, rev, (T \cap Files) \cup S,
                                   T # targets \/ S # sources))

\* What builds and passes do to the snapshot that is read.
BuildStep ==
  /\ Next
  /\ rewritten' = (rewritten \/ (rd.snap # NoSnap /\ row'[rd.snap] # "active"))
  /\ lost' = (lost \/ (rd.snap # NoSnap /\ files'[rd.snap] = NoFiles))
  /\ UNCHANGED <<rd, reads>>

ReadersNext == \/ BuildStep
               \/ \E q \in Requests : Ask(q)
               \/ LookUp \/ Read \/ GraphForward \/ GraphReverse

ReadersSpec == ReadersInit /\ [][ReadersNext]_allVars

-----------------------------------------------------------------------------
(* Properties.                                                             *)

\* What a statement finds in a whole index of the commit.
Ideal(st) ==
  LET c == CommitOf(rd.snap)
  IN Result(st, rd.q, Tree[c], Tree[c], SourceFiles(c), c)
Counts == {"chunkCount", "symbolCount", "totalFiles"}

\* The statements of one request see one commit: nothing they return is of another
\* one, although other snapshots are built, activated and re-used between them.
OfOneCommit ==
  \A i \in 1..Len(rd.got) :
    LET st == Statements(rd.q.op)[i]
    IN IF st \in Counts THEN rd.got[i] <= Ideal(st) ELSE rd.got[i] \subseteq Ideal(st)

\* And they see all of it, also when its snapshot is deactivated meanwhile, unless a
\* build takes the same snapshot over while it is read.
OfWholeCommit ==
  ~rewritten => \A i \in 1..Len(rd.got) : rd.got[i] = Ideal(Statements(rd.q.op)[i])

\* What a request answers is of one commit, and all of it that was asked for: the
\* snapshot id it looked up is enough to keep its statements together.
ReadsConsistent == OfOneCommit /\ OfWholeCommit

\* Whatever builds do between the levels: the graph has no more nodes than allowed,
\* each once, and no edge to a node it does not have.
GraphClosed ==
  rd.q.op = "graph" /\ rd.at = "done" =>
    /\ Cardinality(rd.visited) <= MaxGraphNodes
    /\ Cardinality(Nodes) = Cardinality(rd.visited)
    /\ \A e \in rd.edges : {e[1], e[2]} \subseteq Nodes

\* What the files of the commit import.
CommitEdges == Dependencies(SourceFiles(CommitOf(rd.snap)), CommitOf(rd.snap))

\* The nodes B and those one import away from them, in either direction; who
\* imports a package is not asked.
Neighbourhood(E, B) ==
  B \cup {e[2] : e \in {d \in E : d[1] \in B}}
    \cup {e[1] : e \in {d \in E : d[2] \in B \cap Files}}

\* The nodes within n imports of a root.
Ball(E, root, n) ==
  LET ball[k \in Nat] == IF k = 0 THEN {root} ELSE Neighbourhood(E, ball[k-1])
  IN ball[n]
Within(n) == Ball(CommitEdges, rd.q.path, n)

\* A node and its distance from the root.
AtDistance(n) == n[1] \in Within(n[2]) /\ (n[2] > 0 => n[1] \notin Within(n[2] - 1))

\* A graph that is not truncated has exactly the nodes within the depth, each at its
\* distance from the root, also when other snapshots are activated between levels.
GraphExact ==
  rd.q.op = "graph" /\ rd.at = "done" /\ rd.snap # NoSnap /\ ~rd.truncated /\ ~rewritten =>
    /\ Nodes = Within(Depth(rd.q.depth))
    /\ \A n \in rd.visited : AtDistance(n)

\* The dependency graph of an answer is closed, within its limit, and exact unless it
\* says that it is truncated.
GraphSound == GraphClosed /\ GraphExact

-----------------------------------------------------------------------------
(* The parts of the inductive invariant behind ReadsConsistent.            *)

\* What a snapshot has of a file, built or half built, is its commit's.
StoredOfCommit ==
  \A s \in Snaps, f \in Files :
    /\ files[s][f] \in {NoFile, Tree[CommitOf(s)][f]}
    /\ arts[s][f] \in {NoFile, Tree[CommitOf(s)][f]}

\* A snapshot that was activated is whole until a build takes it over, also when
\* another one is active by then; the one that is filled has been taken over.
StoredWhole ==
  /\ \A s \in Snaps : row[s] = "active" =>
       /\ files[s] = Tree[CommitOf(s)] /\ arts[s] = Tree[CommitOf(s)]
       /\ SourceFiles(CommitOf(s)) \subseteq deps[s]
  /\ pc \in {"clean", "store"} => row[target] # "active"

\* Where a request is: what it has read is a part of its statements, of a snapshot
\* that it has looked up.
ReadProgress ==
  /\ DOMAIN rd = DOMAIN NoRead
  /\ rd.at \in {"idle", "lookup", "read", "forward", "reverse", "done"}
  /\ rd.at # "idle" => rd.q \in Requests
  /\ rd.snap \in Snaps \cup {NoSnap}
  /\ rd.at \in {"read", "forward", "reverse"} => rd.snap # NoSnap
  /\ rd.at \in {"idle", "lookup"} => rd.snap = NoSnap
  /\ rd.snap = NoSnap => rd.got = <<>> /\ ~rewritten /\ ~lost
  /\ Len(rd.got) \in Nat /\ rd.got = [i \in 1..Len(rd.got) |-> rd.got[i]]
  /\ rd.q.op \notin Ops => rd.got = <<>>
  /\ rd.q.op \in Ops => Len(rd.got) <= Len(Statements(rd.q.op))
  /\ rd.at = "read" => rd.q.op \in Ops /\ Len(rd.got) < Len(Statements(rd.q.op))

\* As long as no build has taken the snapshot over, it is one that was activated;
\* its file rows are gone only if the commit has none.
NotRewritten ==
  rd.snap # NoSnap /\ ~rewritten =>
    /\ row[rd.snap] = "active"
    /\ lost => Tree[CommitOf(rd.snap)] = NoFiles

\* The marks are no more than marks.
ReadMarks == {rewritten, lost} \subseteq BOOLEAN

ReadersIInv == ReadMarks /\ ReadProgress /\ StoredOfCommit /\ OfOneCommit

\* The traversal, whatever builds do: nodes have one distance each and are within the
\* limit, edges lead from node to node, and the frontier is of files.
GraphProgress ==
  /\ rd.at \in {"forward", "reverse"} => rd.q.op = "graph"
  /\ rd.at = "lookup" => rd.visited = {} /\ rd.edges = {} /\ rd.level = 0
  /\ rd.snap = NoSnap => rd.visited = {} /\ rd.edges = {}
  /\ rd.q.op = "graph" =>
       /\ rd.visited \subseteq (Files \cup Packages) \X Nat
       /\ \A m, n \in rd.visited : m[1] = n[1] => m = n
       /\ Cardinality(Nodes) <= MaxGraphNodes
       /\ \A e \in rd.edges : e[1] \in Nodes /\ e[2] \in Nodes
       /\ rd.at \in {"forward", "reverse"} => rd.level \in Nat /\ rd.frontier \subseteq Nodes \cap Files
       /\ rd.at = "reverse" => \A e \in rd.fwd : e[1] \in rd.frontier /\ e[2] \in Files \cup Packages

\* Between two levels the traversal has the nodes within its level, each at its
\* distance, and those at exactly that distance are next, unless they are packages.
GraphDistances ==
  ~rewritten /\ rd.at \in {"forward", "reverse"} =>
    /\ rd.level <= Depth(rd.q.depth) /\ (rd.at = "reverse" => rd.level < Depth(rd.q.depth))
    /\ Nodes = Within(rd.level)
    /\ rd.frontier = {x \in Within(rd.level) \cap Files : rd.level > 0 => x \notin Within(rd.level - 1)}
    /\ rd.at = "reverse" => rd.fwd = {e \in CommitEdges : e[1] \in rd.frontier}
    /\ \A n \in rd.visited : AtDistance(n)

GraphIInv == GraphProgress /\ GraphDistances /\ GraphExact

=============================================================================
