--------------------------- MODULE CommitHistory ----------------------------
(***************************************************************************)
(* The commit history of one project: what a job reads from git log and    *)
(* stores beside its snapshot, and the commit browser that pages through   *)
(* it.                                                                     *)
(*                                                                         *)
(* A job indexes the history between preparing its workspace and building  *)
(* the snapshot (the steps of SnapshotIndex).  Every INSERT is a           *)
(* transaction of its own and every one is repeatable; a failure anywhere  *)
(* is only logged and the snapshot is built, activated and, if possible,   *)
(* linked all the same.  One job runs at a time (IndexJobs!OneBuilder),    *)
(* requests of the browser run beside it.                                  *)
(*                                                                         *)
(* git log is a list of tokens, one for each NUL-terminated field or each  *)
(* line that the parsers look at.  A snapshot is named by its commit.      *)
(***************************************************************************)
EXTENDS Integers, FiniteSets, Sequences, FiniteSetsExt, SequencesExt

CONSTANTS
  Commits,        \* commits of the repository
  Heads,          \* commits the branch may point to
  NoCommit,
  Paths,
  Parents,        \* the parents of a commit, in order
  Changes,        \* what a commit changes against its first parent
  MaxCommits,     \* the limit the handlers give IndexAll (5000)
  MaxPatchBytes,  \* maxPatchBytes, in lines of a patch
  DefaultLimit, MaxLimit, MaxOffset,  \* of a page; MaxOffset is MaxInt32
  Limits, Offsets, Filters,           \* what requests ask for
  MaxJobs,        \* bound on the number of jobs
  MaxRequests     \* bound on the number of requests

Workflows == {"full-index", "incremental-index"}
Statuses == {"A", "M", "D"}

\* What git prints for a change: lines of text, more of them than are kept, no
\* text at all (a changed mode), or that binary files differ.
ChangeKinds == {"text", "big", "mode", "binary"}
NoPath == "none"

ASSUME CommitsAssumption ==
  /\ NoCommit \notin Commits /\ IsFiniteSet(Commits)
  /\ Heads \subseteq Commits
  /\ Parents \in [Commits -> Seq(Commits)]
  /\ DOMAIN Changes = Commits
  /\ \A c \in Commits : /\ DOMAIN Changes[c] \subseteq Paths
                        /\ IsFiniteSet(DOMAIN Changes[c])
                        /\ \A p \in DOMAIN Changes[c] :
                             /\ Changes[c][p].status \in Statuses
                             /\ Changes[c][p].kind \in ChangeKinds
                             /\ Changes[c][p].lines \in Nat
  /\ NoPath \notin Paths
\* The hash of a commit covers its parents': no commit is its own ancestor, so that
\* each has a generation.
ASSUME AncestryAssumption ==
  \E generation \in [Commits -> 0..Cardinality(Commits)] :
    \A c \in Commits : \A i \in DOMAIN Parents[c] :
      generation[Parents[c][i]] < generation[c]
ASSUME HistoryBoundsAssumption ==
  /\ {MaxCommits, MaxPatchBytes, DefaultLimit, MaxLimit} \subseteq Nat \ {0}
  /\ MaxPatchBytes > 1  \* a patch of kind "text" and an empty line fit
  /\ {MaxOffset, MaxJobs, MaxRequests} \cup Limits \cup Offsets \subseteq Nat
  /\ Filters \subseteq SUBSET Commits

VARIABLES
  \* PostgreSQL
  commits,    \* rows of commits
  parentRows, \* rows of commit_parents: <<commit, ordinal, parent>>
  diffRows,   \* rows of commit_file_diffs
  links,      \* index_snapshots.commit_id, per snapshot
  active,     \* the commit of the active snapshot
  \* the job
  pc, workflow, base, head,
  list,       \* the commits git log lists
  diffMap,    \* and, for each, its changed files
  rest,       \* the commits of the phase that are left, the current one first
  left,       \* ordinals, or paths, of the current commit that are left
  ok,         \* indexing the history did not fail
  jobs,       \* jobs so far (bounded by MaxJobs)
  whole,      \* history: nothing was left out below the active commit
  \* the request
  req,
  requests    \* requests so far (bounded by MaxRequests)

rowVars == <<commits, parentRows, diffRows>>
snapVars == <<links, active, whole>>
planVars == <<workflow, base, head, jobs>>
workVars == <<list, diffMap, rest, left, ok>>
reqVars == <<req, requests>>
vars == <<rowVars, snapVars, pc, planVars, workVars, reqVars>>

NoRequest == [at |-> "idle", op |-> "list", of |-> NoCommit, path |-> NoPath,
              filter |-> {}, limit |-> 0, offset |-> 0, items |-> 0, total |-> 0]

NoEntry == [status |-> NoPath, lines |-> 0, patch |-> <<>>]
NoEntries == [c \in Commits |-> [p \in Paths |-> NoEntry]]

Init ==
  /\ commits = {} /\ parentRows = {} /\ diffRows = {}
  /\ links = [c \in Commits |-> NoCommit]
  /\ active = NoCommit /\ whole = FALSE
  /\ pc = "idle" /\ workflow = "full-index" /\ base = NoCommit /\ head = NoCommit
  /\ list = <<>> /\ diffMap = NoEntries /\ rest = <<>> /\ left = {} /\ ok = FALSE
  /\ jobs = 0
  /\ req = NoRequest /\ requests = 0

-----------------------------------------------------------------------------
(* git, and what is read from it.                                          *)

\* A commit and all its ancestors; a commit and its first parents.
Ancestors[c \in Commits] == {c} \cup UNION {Ancestors[p] : p \in Range(Parents[c])}
Mainline[c \in Commits] ==
  <<c>> \o (IF Parents[c] = <<>> THEN <<>> ELSE Mainline[Parents[c][1]])

\* git log lists a commit once it has listed a child of it; committer dates, which
\* need not agree with the ancestry, decide the rest.
Listings(S, h) ==
  {l \in SetToSeqs(S) :
     \A i \in 1..Len(l) :
       IF i = 1 THEN l[1] = h ELSE \E j \in 1..(i-1) : l[i] \in Range(Parents[l[j]])}

\* Mutant of LogCommits: the last commit within the limit is dropped.
LogCommitsOneShort(h, b) ==
  IF b = NoCommit
  THEN {SubSeq(Mainline[h], 1, Min({MaxCommits - 1, Len(Mainline[h])}))}
  ELSE LET S == Ancestors[h] \ Ancestors[b]
       IN IF S = {} THEN {<<>>} ELSE Listings(S, h)

\* LogCommits: the mainline down to the limit, or everything since the base.
\* The format names every parent, also of a commit of the mainline.
LogCommits(h, b) ==
  IF b = NoCommit
  THEN {SubSeq(Mainline[h], 1, Min({MaxCommits, Len(Mainline[h])}))}
  ELSE LET S == Ancestors[h] \ Ancestors[b]
       IN IF S = {} THEN {<<>>} ELSE Listings(S, h)

\* git log shows what a merge changes only along --first-parent.
Shown(c, b) == IF Len(Parents[c]) > 1 /\ b # NoCommit THEN {} ELSE DOMAIN Changes[c]

\* The three outputs for one commit.
NameStatus(c, b) ==
  <<[t |-> "commit", v |-> c]>> \o
  FlattenSeq([i \in 1..Cardinality(Shown(c, b)) |->
     LET p == SetToSeq(Shown(c, b))[i]
     IN <<[t |-> "field", v |-> Changes[c][p].status], [t |-> "field", v |-> p]>>])
NumStat(c, b) ==
  <<[t |-> "commit", v |-> c]>> \o
  [i \in 1..Cardinality(Shown(c, b)) |->
     LET p == SetToSeq(Shown(c, b))[i]
     IN [t |-> "stat", v |-> p,
         n |-> IF Changes[c][p].kind = "binary" THEN 0 ELSE Changes[c][p].lines]]
PatchLines(c, p) ==
  CASE Changes[c][p].kind = "text" -> <<[t |-> "line", v |-> <<c, p>>]>>
    [] Changes[c][p].kind = "big" -> [i \in 1..(MaxPatchBytes + 1) |-> [t |-> "line", v |-> <<c, p>>]]
    [] Changes[c][p].kind = "mode" -> <<>>
    [] Changes[c][p].kind = "binary" -> <<[t |-> "binary", v |-> NoPath]>>
Patch(c, b) ==
  <<[t |-> "commit", v |-> c], [t |-> "line", v |-> <<>>]>> \o
  FlattenSeq([i \in 1..Cardinality(Shown(c, b)) |->
     LET p == SetToSeq(Shown(c, b))[i]
     IN <<[t |-> "diff", v |-> p], [t |-> "header", v |-> NoPath]>> \o PatchLines(c, p)])

\* What is after the last line break is an empty line to the parser.
Output(F(_, _), l, b) == FlattenSeq([i \in 1..Len(l) |-> F(l[i], b)])
PatchOutput(l, b) == Output(Patch, l, b) \o <<[t |-> "line", v |-> <<>>]>>

\* A field starts a commit, or is a status, or the path that follows it.
NameStatusField(s, f) ==
  IF f.t = "commit" THEN [s EXCEPT !.hash = f.v, !.pending = NoPath]
  ELSE IF s.hash = NoCommit THEN s
  ELSE IF s.pending = NoPath THEN [s EXCEPT !.pending = f.v]
  ELSE [s EXCEPT !.entries[s.hash][f.v] = [NoEntry EXCEPT !.status = s.pending],
                 !.pending = NoPath]

parseNameStatusLogZ(out) ==
  FoldLeft(NameStatusField, [hash |-> NoCommit, pending |-> NoPath, entries |-> NoEntries], out).entries

\* Numbers of a file that has no entry give it one, with status M.
NumStatField(s, f) ==
  IF f.t = "commit" THEN [s EXCEPT !.hash = f.v]
  ELSE IF s.hash = NoCommit THEN s
  ELSE LET e == s.entries[s.hash][f.v]
       IN [s EXCEPT !.entries[s.hash][f.v] =
             [e EXCEPT !.lines = f.n, !.status = IF @ = NoPath THEN "M" ELSE @]]

mergeNumstatLogZ(out, entries) ==
  FoldLeft(NumStatField, [hash |-> NoCommit, entries |-> entries], out).entries

\* flush: the lines gathered become the patch of the current file, unless there
\* are none or too many.  An empty line alone is no patch.
Flush(s) ==
  IF \/ NoCommit = s.hash \/ NoPath = s.path \/ s.lines = <<>> \/ s.oversized
     \/ s.entries[s.hash][s.path] = NoEntry
  THEN s.entries
  ELSE [s.entries EXCEPT ![s.hash][s.path].patch =
          IF s.lines = << <<>> >> THEN <<>> ELSE s.lines]

StartFile(s, path) ==
  [s EXCEPT !.entries = Flush(s), !.path = path, !.lines = <<>>, !.oversized = FALSE]

PatchLine(s, f) ==
  IF f.t = "commit" THEN [StartFile(s, NoPath) EXCEPT !.hash = f.v]
  ELSE IF s.hash = NoCommit THEN s
  ELSE IF f.t = "diff" THEN StartFile(s, f.v)
  ELSE IF s.path = NoPath THEN s
  ELSE IF f.t = "binary" THEN [s EXCEPT !.path = NoPath, !.lines = <<>>]
  ELSE IF f.t = "header" \/ s.oversized THEN s
  ELSE IF Len(s.lines) = MaxPatchBytes THEN [s EXCEPT !.oversized = TRUE, !.lines = <<>>]
  ELSE [s EXCEPT !.lines = Append(@, f.v)]

mergePatchLog(out, entries) ==
  Flush(FoldLeft(PatchLine, [hash |-> NoCommit, path |-> NoPath, lines |-> <<>>,
                             oversized |-> FALSE, entries |-> entries], out))

\* The files of a commit with their status, numbers and patch.
DiffStatLog(l, b) ==
  LET changed == parseNameStatusLogZ(Output(NameStatus, l, b))
      counted == mergeNumstatLogZ(Output(NumStat, l, b), changed)
  IN mergePatchLog(PatchOutput(l, b), counted)

EntryPaths(c) == {p \in Paths : diffMap[c][p] # NoEntry}

-----------------------------------------------------------------------------
(* The job.                                                                *)

\* The workspace is at h.  An incremental index starts from the active snapshot,
\* or falls back to indexing everything.
Begin(w, h, b) ==
  /\ pc = "idle"
  /\ jobs < MaxJobs
  /\ b \in {NoCommit, active}
  /\ w = "full-index" => b = NoCommit
  /\ jobs' = jobs + 1
  /\ workflow' = w /\ head' = h /\ base' = b
  /\ list' \in LogCommits(h, b)
  /\ diffMap' = DiffStatLog(list', b)
  /\ rest' = list' /\ left' = {}
  /\ ok' = TRUE
  /\ pc' = "commits"
  /\ UNCHANGED <<rowVars, snapVars, reqVars>>

\* ON CONFLICT returns, or leaves, the row there is.
CommitsWith(c) == commits \cup {c}
ParentsWith(c, i, p) == parentRows \cup {<<c, i, p>>}

\* Phase 1.
InsertCommit ==
  /\ pc = "commits" /\ rest # <<>>
  /\ commits' = CommitsWith(Head(rest))
  /\ rest' = Tail(rest)
  /\ UNCHANGED <<parentRows, diffRows, snapVars, pc, planVars, list, diffMap, left, ok, reqVars>>

Ordinals(c) == 1..Len(Parents[c])

StartParents ==
  /\ pc = "commits" /\ rest = <<>>
  /\ pc' = "parents"
  /\ rest' = list
  /\ left' = IF list = <<>> THEN {} ELSE Ordinals(Head(list))
  /\ UNCHANGED <<rowVars, snapVars, planVars, list, diffMap, ok, reqVars>>

\* The next commit of a phase, or the next phase.
NextParents ==
  /\ pc = "parents" /\ left = {}
  /\ IF Len(rest) > 1
     THEN rest' = Tail(rest) /\ left' = Ordinals(rest[2]) /\ pc' = "parents"
     ELSE /\ rest' = list /\ pc' = "diffs"
          /\ left' = IF list = <<>> THEN {} ELSE EntryPaths(Head(list))
  /\ UNCHANGED <<rowVars, snapVars, planVars, list, diffMap, ok, reqVars>>

GetCommitByHash(c) == {c} \cap commits

\* Mutant of Known: without the lookup.
KnownInBatch(p) == p \in Range(list)
\* A parent is of the batch or is looked up; one that is unknown is left out.
Known(p) == p \in Range(list) \/ GetCommitByHash(p) # {}

\* Phase 2.
InsertCommitParent ==
  LET i == Min(left)
      p == Parents[Head(rest)][i]
  IN /\ pc = "parents" /\ left # {}
     /\ parentRows' = IF Known(p) THEN ParentsWith(Head(rest), i, p) ELSE parentRows
     /\ left' = left \ {i}
     /\ UNCHANGED <<commits, diffRows, snapVars, pc, planVars, list, diffMap, rest, ok, reqVars>>

NextDiffs ==
  /\ pc = "diffs" /\ left = {}
  /\ IF Len(rest) > 1
     THEN rest' = Tail(rest) /\ left' = EntryPaths(rest[2]) /\ pc' = "diffs"
     ELSE rest' = <<>> /\ left' = {} /\ pc' = "build"
  /\ UNCHANGED <<rowVars, snapVars, planVars, list, diffMap, ok, reqVars>>

FirstParent(c) ==
  IF Parents[c] # <<>> /\ Known(Parents[c][1]) THEN Parents[c][1] ELSE NoCommit

\* The columns of a row: an added file has no old path, a deleted one no new path.
DiffRow(c, p) ==
  LET e == diffMap[c][p]
  IN [commit |-> c, parent |-> FirstParent(c), change_type |-> e.status,
      old |-> IF e.status = "A" THEN NoPath ELSE p,
      new |-> IF e.status = "D" THEN NoPath ELSE p,
      lines |-> e.lines, patch |-> e.patch]
SameKey(d, r) == d.commit = r.commit /\ d.old = r.old /\ d.new = r.new

\* Mutant of InsertDiff: the conflict target includes the parent.
InsertDiffWithParent(r) ==
  diffRows' = IF \E d \in diffRows : SameKey(d, r) /\ d.parent = r.parent
              THEN diffRows ELSE diffRows \cup {r}

InsertDiff(r) ==
  diffRows' = IF \E d \in diffRows : SameKey(d, r) THEN diffRows ELSE diffRows \cup {r}

\* Phase 3; the files of a commit come from a map, in any order.
InsertCommitFileDiff(p) ==
  /\ pc = "diffs" /\ p \in left
  /\ InsertDiff(DiffRow(Head(rest), p))
  /\ left' = left \ {p}
  /\ UNCHANGED <<commits, parentRows, snapVars, pc, planVars, list, diffMap, rest, ok, reqVars>>

\* git or a statement fails, or the context ends: the job goes on without a result.
IndexingFails ==
  /\ pc \in {"commits", "parents", "diffs"}
  /\ ok' = FALSE
  /\ pc' = "build"
  /\ rest' = <<>> /\ left' = {}
  /\ UNCHANGED <<rowVars, snapVars, planVars, list, diffMap, reqVars>>

\* The handler returns; what it held is gone.
Return ==
  /\ pc' = "idle" /\ workflow' = "full-index" /\ base' = NoCommit /\ head' = NoCommit
  /\ list' = <<>> /\ diffMap' = NoEntries /\ rest' = <<>> /\ left' = {} /\ ok' = FALSE
  /\ UNCHANGED jobs

\* The snapshot is built and activated (SnapshotIndex) ...
Activate ==
  /\ pc = "build"
  /\ active' = head
  /\ whole' = /\ ok
              /\ IF base = NoCommit THEN Len(Mainline[head]) <= MaxCommits
                 ELSE /\ whole
                      /\ Range(Mainline[head]) \cap Ancestors[base] \subseteq Range(Mainline[base])
  /\ pc' = "link"
  /\ UNCHANGED <<rowVars, links, planVars, workVars, reqVars>>

\* ... or it is not.
BuildFails ==
  /\ pc = "build"
  /\ Return
  /\ UNCHANGED <<rowVars, snapVars, reqVars>>

\* HEAD is the first of the list.
HeadCommitDBID == IF ok /\ list # <<>> THEN Head(list) ELSE NoCommit

\* Only incremental-index looks up the commit when it has no result.
LinkTarget ==
  IF HeadCommitDBID # NoCommit \/ workflow = "full-index" THEN HeadCommitDBID
  ELSE IF GetCommitByHash(head) # {} THEN head ELSE NoCommit

UpdateSnapshotCommitID(s, c) == [links EXCEPT ![s] = c]

Link ==
  /\ pc = "link"
  /\ links' = IF LinkTarget = NoCommit THEN links ELSE UpdateSnapshotCommitID(head, LinkTarget)
  /\ Return
  /\ UNCHANGED <<rowVars, active, whole, reqVars>>

LinkFails ==
  /\ pc = "link"
  /\ Return
  /\ UNCHANGED <<rowVars, snapVars, reqVars>>

Job == \/ \E w \in Workflows, h \in Heads, b \in Heads \cup {NoCommit} : Begin(w, h, b)
       \/ InsertCommit \/ StartParents \/ NextParents \/ InsertCommitParent
       \/ NextDiffs \/ (\E p \in Paths : InsertCommitFileDiff(p))
       \/ IndexingFails \/ Activate \/ BuildFails \/ Link \/ LinkFails

-----------------------------------------------------------------------------
(* The commit browser.                                                     *)

\* parsePagination; 0 stands for a limit that is absent or no positive number.
PageLimit(asked) == Min({MaxLimit, IF asked = 0 THEN DefaultLimit ELSE asked})

\* The rows that a page is taken from ...
buildCommitListQuery(filter) == commits \cap filter
ListCommitFileDiffs(c) == {d \in diffRows : d.commit = c}
GetCommitFileDiff(c, p) == {d \in ListCommitFileDiffs(c) : p \in {d.old, d.new}}
ListFileDiffsByPathWithCommit(p) == {d \in diffRows : p \in {d.old, d.new}}
Listed(q) ==
  CASE q.op = "list" -> buildCommitListQuery(q.filter)
    [] q.op = "diffs" -> ListCommitFileDiffs(q.of)
    [] q.op = "diff" -> GetCommitFileDiff(q.of, q.path)
    [] q.op = "history" -> ListFileDiffsByPathWithCommit(q.path)

\* Mutant of CountFileDiffsByPath: a deleted file is not counted in its history.
CountFileDiffsByNewPath(p) == Cardinality({d \in diffRows : p = d.new})

\* ... and those that its total counts, each by a query of its own.
CountCommitFileDiffs(c) == Cardinality({d \in diffRows : d.commit = c})
CountFileDiffsByPath(p) == Cardinality({d \in diffRows : p \in {d.old, d.new}})
Counted(q) ==
  CASE q.op = "list" -> Cardinality(buildCommitListQuery(q.filter))
    [] q.op \in {"diffs", "diff"} -> CountCommitFileDiffs(q.of)
    [] q.op = "history" -> CountFileDiffsByPath(q.path)

PageSize(q, S) == Max({0, Min({q.limit, Cardinality(S) - q.offset})})

Respond(q) ==
  /\ req' = q
  /\ UNCHANGED <<rowVars, snapVars, pc, planVars, workVars, requests>>

\* What is left of a request once it is answered.
Done(q) == [NoRequest EXCEPT !.at = "done", !.op = q.op, !.offset = q.offset,
                             !.items = q.items, !.total = q.total]

\* A request of the list of commits or of a file's history starts with its page,
\* one of a commit with the commit.
Receive(q) ==
  /\ req.at \in {"idle", "done"}
  /\ requests < MaxRequests
  /\ requests' = requests + 1
  /\ req' = IF q.offset > MaxOffset THEN Done(q)
            ELSE [q EXCEPT !.at = IF q.op \in {"list", "history"} THEN "page" ELSE "commit"]
  /\ UNCHANGED <<rowVars, snapVars, pc, planVars, workVars>>

\* The commit, or not found.
GetCommit ==
  /\ req.at = "commit"
  /\ Respond(IF GetCommitByHash(req.of) = {} THEN Done(req)
             ELSE [req EXCEPT !.at = IF req.op = "get" THEN "stats"
                                     ELSE IF req.op = "diff" THEN "diff" ELSE "page"])

ReadPage ==
  /\ req.at = "page"
  /\ Respond([req EXCEPT !.at = "count", !.items = PageSize(req, Listed(req))])

\* One row, by its id.
ReadDiff ==
  /\ req.at = "diff"
  /\ Respond(IF Listed(req) = {} THEN Done(req)
             ELSE [req EXCEPT !.at = "count", !.items = 1])

ReadCount ==
  /\ req.at = "count"
  /\ Respond(Done([req EXCEPT !.total = Counted(req)]))

\* The numbers of files and of parents stand for the lists and sums.
GetCommitDiffStats(c) == Cardinality({d \in diffRows : d.commit = c})
GetCommitParents(c) == Cardinality({r \in parentRows : r[1] = c})

ReadStats ==
  /\ req.at = "stats"
  /\ Respond([req EXCEPT !.at = "parents", !.items = GetCommitDiffStats(req.of)])
ReadParents ==
  /\ req.at = "parents"
  /\ Respond(Done([req EXCEPT !.total = GetCommitParents(req.of)]))

Page(op, of, path, filter, asked, offset) ==
  [NoRequest EXCEPT !.op = op, !.of = of, !.path = path, !.filter = filter,
                    !.limit = PageLimit(asked), !.offset = offset]

HandleList == \E F \in Filters, a \in Limits, o \in Offsets :
                Receive(Page("list", NoCommit, NoPath, F, a, o))
HandleGet == \E c \in Commits : Receive(Page("get", c, NoPath, {}, 0, 0))
HandleDiffs == \E c \in Commits :
                 \/ \E a \in Limits, o \in Offsets : Receive(Page("diffs", c, NoPath, {}, a, o))
                 \/ \E p \in Paths : Receive(Page("diff", c, p, {}, 0, 0))
HandleFileHistory == \E p \in Paths, a \in Limits, o \in Offsets :
                       Receive(Page("history", NoCommit, p, {}, a, o))

Browser ==
  \/ HandleList \/ HandleGet \/ HandleDiffs \/ HandleFileHistory
  \/ GetCommit \/ ReadPage \/ ReadDiff \/ ReadCount \/ ReadStats \/ ReadParents

Next == Job \/ Browser

Spec == Init /\ [][Next]_vars

-----------------------------------------------------------------------------
(* Properties.                                                             *)

\* One type invariant.
TypeOK ==
  /\ commits \subseteq Commits
  /\ links \in [Commits -> Commits \cup {NoCommit}]
  /\ \A c \in Commits : links[c] \in commits \cup {NoCommit}
  /\ \A r \in parentRows : {r[1], r[3]} \subseteq commits
  /\ \A d \in diffRows : d.commit \in commits /\ d.parent \in commits \cup {NoCommit}
  /\ active \in Commits \cup {NoCommit} /\ whole \in BOOLEAN
  /\ pc \in {"idle", "commits", "parents", "diffs", "build", "link"}
  /\ ok \in BOOLEAN
  /\ req.at \in {"idle", "commit", "page", "diff", "count", "stats", "parents", "done"}
  /\ jobs \in 0..MaxJobs /\ requests \in 0..MaxRequests

\* The patch that is kept of a change, which may end in an empty line.
KeptPatch(c, p, patch) ==
  IF Changes[c][p].kind = "text"
  THEN patch \in {<< <<c, p>> >>, << <<c, p>>, <<>> >>}
  ELSE patch = <<>>

\* Three outputs of git are merged into one entry for each file, and several jobs
\* store it again: a file of a commit has one row, with the status, the numbers
\* and the patch of its own change and of no other, also when a job stopped
\* halfway.
DiffsFaithful ==
  \A d \in diffRows :
    LET p == IF d.new = NoPath THEN d.old ELSE d.new
        change == Changes[d.commit][p]
    IN /\ p \in DOMAIN Changes[d.commit]
       /\ d.change_type = change.status
       /\ (d.old = NoPath) = (change.status = "A") /\ (d.new = NoPath) = (change.status = "D")
       /\ d.lines = IF change.kind = "binary" THEN 0 ELSE change.lines
       /\ KeptPatch(d.commit, p, d.patch)
       /\ \A e \in diffRows : e.commit = d.commit /\ {e.old, e.new} \cap {p} # {} => e = d

\* The parents of a commit that are stored are linked, in order, and everything git
\* shows of it is stored.
Stored(c) ==
  /\ c \in commits
  /\ \A i \in Ordinals(c) : Parents[c][i] \in commits => <<c, i, Parents[c][i]>> \in parentRows
DiffsStored(c, S) == \A p \in S : \E d \in diffRows : d.commit = c /\ p \in {d.old, d.new}

\* When the indexer reports success, the commits that git listed are stored with
\* their parents and their diffs, whatever earlier jobs left undone.
IndexedWhole ==
  pc \in {"build", "link"} /\ ok =>
    \A c \in Range(list) : Stored(c) /\ DiffsStored(c, Shown(c, base))

\* If the indexer succeeded in every job since one that reached the root, and no
\* merge moved the mainline onto what was a side branch, then the mainline of the
\* active commit is stored down to the root, each commit linked to its first
\* parent, with the diffs of all but merges.
HistoryUnbroken ==
  whole =>
    \A c \in Range(Mainline[active]) :
      /\ c \in commits
      /\ Parents[c] # <<>> => <<c, 1, Parents[c][1]>> \in parentRows
      /\ Len(Parents[c]) < 2 => DiffsStored(c, DOMAIN Changes[c])

\* A snapshot is linked to the commit it was built from, or to none.
SnapshotLinked == \A c \in Commits : links[c] \in {c, NoCommit}

\* The page of an answer is within its total, although another statement counts it
\* and a job inserts in between, and is no longer than the limit allows.
PageCounts ==
  req.at = "done" /\ req.op # "get" /\ req.items > 0 =>
    /\ req.items <= MaxLimit
    /\ req.offset + req.items <= req.total

\* The types and references of the tables, what a job that reports success has
\* stored, and that snapshots are linked to their own commits.
HistoryInv == TypeOK /\ IndexedWhole /\ SnapshotLinked

-----------------------------------------------------------------------------
(* The inductive invariant behind PageCounts: the rows are finitely many,  *)
(* and a page that has been read is within what is there to be counted.    *)
PageProgress ==
  /\ IsFiniteSet(commits) /\ IsFiniteSet(diffRows)
  /\ DOMAIN req = DOMAIN NoRequest
  /\ req.offset \in Nat /\ req.items \in Nat
  /\ req.op \in {"list", "get", "diffs", "diff", "history"}
  /\ req.op = "diff" => req.offset = 0
  /\ req.at \in {"commit", "page", "diff"} => req.items = 0 /\ req.limit \in 0..MaxLimit
  /\ req.at = "commit" => req.op \in {"get", "diffs", "diff"}
  /\ req.at = "page" => req.op \in {"list", "diffs", "history"}
  /\ req.at = "diff" => req.op = "diff"
  /\ req.at \in {"stats", "parents"} => req.op = "get"
  /\ req.at = "count" => /\ req.op \in {"list", "diffs", "diff", "history"}
                         /\ req.items > 0 => /\ req.items <= MaxLimit
                                             /\ req.offset + req.items <= Counted(req)
-----------------------------------------------------------------------------
(* The inductive invariant behind HistoryInv, DiffsFaithful and            *)
(* HistoryUnbroken: what a job works from, and how far each phase is.      *)

\* The list and the entries are what git and the parsers make of the branch's head
\* and of the base, and the base is the active snapshot's commit until the new one
\* is activated.
JobPlan ==
  /\ base \in Commits \cup {NoCommit}
  /\ pc # "idle" => /\ head \in Commits
                    /\ list \in LogCommits(head, base)
                    /\ diffMap = DiffStatLog(list, base)
  /\ pc \in {"commits", "parents", "diffs", "build"} => base \in {NoCommit, active}

\* The commits that a phase has yet to come to.
Later == {rest[i] : i \in 2..Len(rest)}
Current(c) == rest # <<>> /\ c = Head(rest)
RowOf(c, p) == \E d \in diffRows : d.commit = c /\ p \in {d.old, d.new}

\* All that comes before the current row of a phase is stored.
CommitsSoFar ==
  /\ pc \in {"commits", "parents", "diffs"} => rest \in Seq(Commits) /\ Range(rest) \subseteq Range(list)
  /\ pc = "commits" => Range(list) \subseteq commits \cup Range(rest)
  /\ pc \in {"parents", "diffs"} => Range(list) \subseteq commits /\ (rest = <<>> => list = <<>> /\ left = {})
ParentsSoFar ==
  pc = "parents" =>
    /\ rest # <<>> => left \subseteq Ordinals(Head(rest))
    /\ \A c \in Range(list) : \A i \in Ordinals(c) :
         \/ c \in Later \/ (Current(c) /\ i \in left)
         \/ Parents[c][i] \in commits => <<c, i, Parents[c][i]>> \in parentRows
DiffsSoFar ==
  pc = "diffs" =>
    /\ rest # <<>> => left \subseteq EntryPaths(Head(rest))
    /\ \A c \in Range(list) :
         /\ Stored(c)
         /\ \A p \in EntryPaths(c) : c \in Later \/ (Current(c) /\ p \in left) \/ RowOf(c, p)

\* A row names one path, and an unbroken history is that of a snapshot.
RowsAndSnapshot ==
  /\ \A d \in diffRows : {d.old, d.new} \ {NoPath} = {IF d.new = NoPath THEN d.old ELSE d.new}
  /\ whole => active \in Commits

HistoryProgress ==
  /\ JobPlan /\ CommitsSoFar /\ ParentsSoFar /\ DiffsSoFar /\ RowsAndSnapshot
=============================================================================
