--------------------------- MODULE SnapshotIndex ----------------------------
(***************************************************************************)
(* How a claimed job builds the index of one branch of one project: the    *)
(* storage half of full-index and incremental-index, which is the step     *)
(* Build of IndexJobs in detail.                                           *)
(*                                                                         *)
(* A snapshot is identified by (commit, embedding version); its row in     *)
(* index_snapshots is created, or taken over, in status building, filled   *)
(* file by file, each statement a transaction of its own, and switched     *)
(* active in a transaction that deactivates its predecessor.  A build may  *)
(* stop at any statement (an error, a cancelled context, a crash).  The    *)
(* pass over orphaned snapshots that every worker makes when it starts     *)
(* runs beside it.                                                         *)
(*                                                                         *)
(* One build runs at a time: the project lock, IndexJobs!OneBuilder.       *)
(*                                                                         *)
(* A content stands for the text of a source file and everything parsed    *)
(* out of it; files the workspace filters out (too large, not regular)     *)
(* are not source files of the commit.                                     *)
(***************************************************************************)
EXTENDS Naturals, FiniteSets

CONSTANTS
  Commits,    \* commits the branch may point to
  Versions,   \* embedding versions the project may be configured with
  Files,      \* paths
  Contents,   \* contents of source files
  NoFile,     \* no such file
  Tree,       \* the source files of each commit
  NoSnap,
  MaxBuilds,  \* bound on the number of builds
  MaxPasses,  \* bound on the number of passes over orphaned snapshots
  Events      \* what may happen besides builds of new targets (see EventKinds)

Workflows == {"full-index", "incremental-index"}

\* A workflow: it may run when its target is the active snapshot already.
\* reap:       a worker may start, and make its pass, during another one's build.
\* A worker alone makes its pass before it takes up a build (App.Run).
EventKinds == Workflows \cup {"reap"}

Snaps == Commits \X Versions
CommitOf(s)  == s[1]
VersionOf(s) == s[2]

ASSUME TreeAssumption ==
  /\ NoFile \notin Contents
  /\ Tree \in [Commits -> [Files -> Contents \cup {NoFile}]]
ASSUME SnapsAssumption == NoSnap \notin Snaps
ASSUME BoundsAssumption ==
  /\ MaxBuilds \in Nat
  /\ MaxPasses \in Nat
  /\ Events \subseteq EventKinds

VARIABLES
  \* PostgreSQL
  row,       \* per snapshot: none, or its status
  isActive,  \* the snapshots with is_active = TRUE
  files,     \* the rows of files: path -> content
  arts,      \* symbols, chunks and the other rows that belong to a file row
  deps,      \* paths with dependency rows, which belong to the snapshot row
  \* Qdrant, of the points that carry the snapshot's id
  live,      \* files whose chunks have their points
  \* the build
  pc, target, base,
  oldFiles,  \* the file rows of the base
  toWrite,   \* files to parse and write
  toEmbed,   \* files written, whose points are not stored yet
  toCopy,    \* unchanged files of the base
  copied,    \* files copied with chunks, whose points are not copied yet
  builds,    \* builds so far (bounded by MaxBuilds)
  \* the pass over orphaned snapshots
  listed,    \* snapshots listed, not yet deleted
  passes     \* passes so far (bounded by MaxPasses)

rowVars   == <<row, isActive>>
dataVars  == <<files, arts, deps>>
planVars  == <<target, base, oldFiles, builds>>
workVars  == <<toWrite, toEmbed, toCopy, copied>>
passVars  == <<listed, passes>>
vars == <<rowVars, dataVars, live, pc, planVars, workVars, passVars>>

NoFiles == [f \in Files |-> NoFile]
SourceFiles(c) == {f \in Files : Tree[c][f] # NoFile}
Trees == [Files -> Contents \cup {NoFile}]

\* One type invariant: every variable has its shape, and only rows that exist
\* are active or own other rows.
TypeOK ==
  /\ row \in [Snaps -> {"none", "building", "active"}]
  /\ isActive \in SUBSET {s \in Snaps : row[s] = "active"}
  /\ files \in [Snaps -> Trees]
  /\ arts \in [Snaps -> Trees]
  /\ deps \in [Snaps -> SUBSET Files]
  /\ live \in [Snaps -> SUBSET Files]
  /\ pc \in {"idle", "resolve", "create", "clean", "store"}
  /\ target \in Snaps \cup {NoSnap}
  /\ pc # "idle" => target \in Snaps
  /\ base \in Snaps \cup {NoSnap}
  /\ oldFiles \in Trees
  /\ toWrite \in SUBSET Files /\ toEmbed \in SUBSET Files
  /\ toCopy \in SUBSET Files /\ copied \in SUBSET Files
  /\ toCopy \cup copied # {} => base \in Snaps
  /\ builds \in 0..MaxBuilds
  /\ listed \in SUBSET Snaps
  /\ passes \in 0..MaxPasses
  /\ \A s \in Snaps : row[s] = "none" => files[s] = NoFiles /\ arts[s] = NoFiles

Init ==
  /\ row = [s \in Snaps |-> "none"]
  /\ isActive = {}
  /\ files = [s \in Snaps |-> NoFiles]
  /\ arts = [s \in Snaps |-> NoFiles]
  /\ deps = [s \in Snaps |-> {}]
  /\ live = [s \in Snaps |-> {}]
  /\ pc = "idle"
  /\ target = NoSnap /\ base = NoSnap
  /\ oldFiles = NoFiles
  /\ toWrite = {} /\ toEmbed = {} /\ toCopy = {} /\ copied = {}
  /\ builds = 0
  /\ listed = {} /\ passes = 0

-----------------------------------------------------------------------------
(* The build.                                                              *)

\* The embedding version is resolved and the workspace prepared: this fixes the
\* target.  A full index writes every source file.
Begin(c, v, w) ==
  /\ pc = "idle"
  /\ builds < MaxBuilds
  /\ <<c, v>> \in isActive => w \in Events
  /\ listed # {} => "reap" \in Events
  /\ builds' = builds + 1
  /\ target' = <<c, v>>
  /\ base' = NoSnap
  /\ oldFiles' = NoFiles
  /\ toWrite' = SourceFiles(c)
  /\ toEmbed' = {} /\ toCopy' = {} /\ copied' = {}
  /\ pc' = IF w = "full-index" THEN "create" ELSE "resolve"
  /\ UNCHANGED <<rowVars, dataVars, live, passVars>>

\* The paths git reports between the base and the target: A and M, or D.
ChangedPaths(b) == {f \in SourceFiles(CommitOf(target)) :
                      Tree[CommitOf(b)][f] # Tree[CommitOf(target)][f]}
DeletedPaths(b) == SourceFiles(CommitOf(b)) \ SourceFiles(CommitOf(target))

\* Mutant of UnchangedPaths: deleted paths are copied forward.
UnchangedPathsKeepDeleted(b) == {f \in Files : files[b][f] # NoFile} \ ChangedPaths(b)

\* The paths of the old file list that are neither changed nor deleted.
UnchangedPaths(b) ==
  {f \in Files : files[b][f] # NoFile} \ (ChangedPaths(b) \cup DeletedPaths(b))

\* resolveIncrementalBase and the classification of the diff, which only read
\* rows that no one else changes.
ResolveBase(b) ==
  /\ pc = "resolve"
  /\ b \in isActive
  /\ VersionOf(b) = VersionOf(target)
  /\ base' = b
  /\ oldFiles' = files[b]
  /\ toWrite' = ChangedPaths(b)
  /\ toCopy' = UnchangedPaths(b)
  /\ pc' = "create"
  /\ UNCHANGED <<rowVars, dataVars, live, target, builds, toEmbed, copied, passVars>>

\* No active snapshot, another embedding version, or an error in the lookup or
\* the diff: full-index semantics.
FallBack ==
  /\ pc = "resolve"
  /\ pc' = "create"
  /\ UNCHANGED <<rowVars, dataVars, live, planVars, workVars, passVars>>

\* Mutant of CreateSnapshot: the branch's active snapshot is given up at once.
CreateSnapshotDeactivates ==
  /\ pc = "create"
  /\ pc' = "clean"
  /\ row' = [row EXCEPT ![target] = "building"]
  /\ isActive' = {}
  /\ UNCHANGED <<dataVars, live, planVars, workVars, passVars>>

\* CreateIndexSnapshot: the row of an earlier build of the same target is taken
\* over, and is active no longer.
CreateSnapshot ==
  /\ pc = "create"
  /\ pc' = "clean"
  /\ row' = [row EXCEPT ![target] = "building"]
  /\ isActive' = isActive \ {target}
  /\ UNCHANGED <<dataVars, live, planVars, workVars, passVars>>

\* DELETE FROM files, and what refers to a file row by a cascade.  Dependency
\* rows refer to the snapshot and stay; points are not in the database, and
\* those of the deleted chunks are of no file any more.
DeleteSnapshotArtifacts ==
  /\ pc = "clean"
  /\ pc' = "store"
  /\ files' = [files EXCEPT ![target] = NoFiles]
  /\ arts' = [arts EXCEPT ![target] = NoFiles]
  /\ live' = [live EXCEPT ![target] = {}]
  /\ UNCHANGED <<rowVars, deps, planVars, workVars, passVars>>

\* Writer.WriteFile; without its snapshot row the INSERT fails.
WriteFile(f) ==
  LET content == Tree[CommitOf(target)][f] IN
  /\ pc = "store"
  /\ f \in toWrite
  /\ row[target] # "none"
  /\ files' = [files EXCEPT ![target][f] = content]
  /\ arts' = [arts EXCEPT ![target][f] = content]
  /\ deps' = [deps EXCEPT ![target] = @ \cup {f}]
  /\ toWrite' = toWrite \ {f}
  /\ toEmbed' = toEmbed \cup {f}
  /\ UNCHANGED <<rowVars, live, pc, planVars, toCopy, copied, passVars>>

\* A point of a chunk that is gone is of no file; the store does not notice.
StorePoints(f) ==
  live' = IF row[target] = "none" THEN live ELSE [live EXCEPT ![target] = @ \cup {f}]

\* All chunks are embedded once every file is written, then stored in batches.
UpsertVectors(f) ==
  /\ pc = "store"
  /\ toWrite = {}
  /\ f \in toEmbed
  /\ StorePoints(f)
  /\ toEmbed' = toEmbed \ {f}
  /\ UNCHANGED <<rowVars, dataVars, pc, planVars, toWrite, toCopy, copied, passVars>>

\* What copyOneFile finds under the id of an old file row: nothing, if the rows
\* of the base were those of the target and have been deleted.
OldArtifacts(f) == IF base = target THEN NoFile ELSE arts[base][f]

\* copyOneFile: the file row comes from the list read before, its symbols and
\* chunks from the old file id, its dependencies from the base and the path.
CopyFile(f) ==
  /\ pc = "store"
  /\ toWrite \cup toEmbed = {}
  /\ f \in toCopy
  /\ row[target] # "none"
  /\ files' = [files EXCEPT ![target][f] = oldFiles[f]]
  /\ arts' = [arts EXCEPT ![target][f] = OldArtifacts(f)]
  /\ deps' = [deps EXCEPT ![target] = @ \cup ({f} \cap deps[base])]
  /\ toCopy' = toCopy \ {f}
  /\ copied' = IF OldArtifacts(f) = NoFile THEN copied ELSE copied \cup {f}
  /\ UNCHANGED <<rowVars, live, pc, planVars, toWrite, toEmbed, passVars>>

\* CopyForwardVectors: a point the store does not return is not copied.
CopyVectors(f) ==
  /\ pc = "store"
  /\ toWrite \cup toEmbed \cup toCopy = {}
  /\ f \in copied
  /\ IF f \in live[base] THEN StorePoints(f) ELSE UNCHANGED live
  /\ copied' = copied \ {f}
  /\ UNCHANGED <<rowVars, dataVars, pc, planVars, toWrite, toEmbed, toCopy, passVars>>

\* Mutant of ActivateSnapshotTx: activated before the points are copied.
ActivateBeforeVectors ==
  /\ pc = "store"
  /\ toWrite \cup toEmbed \cup toCopy = {}
  /\ pc' = "idle"
  /\ IF row[target] = "none"
     THEN isActive' = {} /\ UNCHANGED row
     ELSE /\ isActive' = {target}
          /\ row' = [row EXCEPT ![target] = "active"]
  /\ UNCHANGED <<dataVars, live, planVars, workVars, passVars>>

\* ActivateSnapshotTx: both UPDATEs or none.  That the second one found no row
\* is not an error.
ActivateSnapshotTx ==
  /\ pc = "store"
  /\ toWrite \cup toEmbed \cup toCopy \cup copied = {}
  /\ pc' = "idle"
  /\ IF row[target] = "none"
     THEN isActive' = {} /\ UNCHANGED row
     ELSE /\ isActive' = {target}
          /\ row' = [row EXCEPT ![target] = "active"]
  /\ UNCHANGED <<dataVars, live, planVars, workVars, passVars>>

\* The build stops between two statements ...
Fail ==
  /\ pc # "idle"
  /\ pc' = "idle"
  /\ UNCHANGED <<rowVars, dataVars, live, planVars, workVars, passVars>>

\* ... or after the file row and before the last of the rows that belong to it;
\* the dependencies may be among those that were inserted.
FailInFile(f) ==
  /\ pc = "store"
  /\ row[target] # "none"
  /\ \/ /\ f \in toWrite
        /\ files' = [files EXCEPT ![target][f] = Tree[CommitOf(target)][f]]
        /\ deps' \in {deps, [deps EXCEPT ![target] = @ \cup {f}]}
     \/ /\ toWrite \cup toEmbed = {}
        /\ f \in toCopy
        /\ files' = [files EXCEPT ![target][f] = oldFiles[f]]
        /\ deps' \in {deps, [deps EXCEPT ![target] = @ \cup ({f} \cap deps[base])]}
  /\ pc' = "idle"
  /\ UNCHANGED <<rowVars, arts, live, planVars, workVars, passVars>>

Build == \/ \E c \in Commits, v \in Versions, w \in Workflows : Begin(c, v, w)
         \/ \E b \in Snaps : ResolveBase(b)
         \/ FallBack \/ CreateSnapshot \/ DeleteSnapshotArtifacts
         \/ \E f \in Files : \/ WriteFile(f) \/ UpsertVectors(f)
                             \/ CopyFile(f) \/ CopyVectors(f) \/ FailInFile(f)
         \/ ActivateSnapshotTx \/ Fail

-----------------------------------------------------------------------------
(* The pass over orphaned snapshots at the end of Reaper.RunOnce.          *)

\* ListOrphanedBuildingSnapshots joins on the jobs' index_snapshot_id, which no
\* query sets: every building snapshot is listed.
ListOrphans ==
  /\ pc # "idle" => "reap" \in Events
  /\ listed = {}
  /\ passes < MaxPasses
  /\ passes' = passes + 1
  /\ listed' = {s \in Snaps : row[s] = "building" /\ s \notin isActive}
  /\ UNCHANGED <<rowVars, dataVars, live, pc, planVars, workVars>>

\* DeleteOrphanedBuildingSnapshot, guarded by the status; everything that refers
\* to the row goes with it.  Its points carry an id that no row has again.
DeleteOrphan(s) ==
  /\ s \in listed
  /\ listed' = listed \ {s}
  /\ IF row[s] = "building" /\ s \notin isActive
     THEN /\ row' = [row EXCEPT ![s] = "none"]
          /\ files' = [files EXCEPT ![s] = NoFiles]
          /\ arts' = [arts EXCEPT ![s] = NoFiles]
          /\ deps' = [deps EXCEPT ![s] = {}]
          /\ live' = [live EXCEPT ![s] = {}]
     ELSE UNCHANGED <<row, dataVars, live>>
  /\ UNCHANGED <<isActive, pc, planVars, workVars, passes>>

Next == \/ Build
        \/ ListOrphans
        \/ \E s \in Snaps : DeleteOrphan(s)

Spec == Init /\ [][Next]_vars

-----------------------------------------------------------------------------
(* Properties.                                                             *)

\* Whoever reads an active snapshot reads the files of its commit, all of them
\* and no others, whatever builds failed on it before; and a branch has at most
\* one active snapshot.
ActiveIsWhole ==
  /\ \A s \in isActive : files[s] = Tree[CommitOf(s)]
  /\ \A s, t \in isActive : s = t

\* Every file of an active snapshot has its symbols, its chunks, its dependencies
\* and the points that semantic search finds it by, whether written or copied
\* forward.
ActiveSearchable ==
  \A s \in isActive : /\ arts[s] = Tree[CommitOf(s)]
                      /\ SourceFiles(CommitOf(s)) \subseteq live[s] \cap deps[s]

\* What readers see, and what they are promised.
Nothing == NoSnap
view == IF isActive = {} THEN Nothing ELSE files[CHOOSE s \in isActive : TRUE]
Published == INSTANCE PublishedIndex WITH view <- view, Nothing <- Nothing
PublishedSpec == Published!Spec

-----------------------------------------------------------------------------
(* The parts of the inductive invariants behind the proofs.                *)

\* Until the row is clean, every source file of the commit is planned, to be
\* written or copied, and nothing else is.
PlanCovers ==
  pc \in {"resolve", "create", "clean"} =>
    /\ toWrite \cup toCopy = SourceFiles(CommitOf(target))
    /\ toEmbed = {} /\ copied = {}

\* What the base listed is its commit, and what is to be copied from it is what
\* the target's commit has.
CopyPlan ==
  pc # "idle" /\ base # NoSnap =>
    /\ oldFiles = Tree[CommitOf(base)]
    /\ \A f \in toCopy : oldFiles[f] = Tree[CommitOf(target)][f]

\* No file is both written and copied.
PlanDisjoint == toWrite \cap toCopy = {}

\* A build to be resolved has no base yet.
NoBaseYet == pc = "resolve" => base = NoSnap /\ toCopy = {}

\* While files are stored, those no longer planned are there.
StoreProgress ==
  pc = "store" /\ row[target] # "none" =>
    \A f \in Files :
      files[target][f] = IF f \in toWrite \cup toCopy THEN NoFile ELSE Tree[CommitOf(target)][f]

\* Nobody reads the snapshot that is being built.
TargetInactive == pc \in {"clean", "store"} => target \notin isActive

FileInv == /\ ActiveIsWhole /\ PlanCovers /\ PlanDisjoint /\ CopyPlan /\ NoBaseYet
           /\ StoreProgress /\ TargetInactive

\* Unless incremental-index runs at an unchanged HEAD, its base is another
\* snapshot, which stays active until the target replaces it.
BaseServes ==
  /\ pc = "resolve" => target \notin isActive
  /\ pc # "idle" /\ base # NoSnap => base \in isActive /\ base # target

\* What is stored of a file is searchable or about to be.
SearchProgress ==
  pc = "store" /\ row[target] # "none" =>
    /\ arts[target] = files[target]
    /\ {f \in Files : files[target][f] # NoFile} \subseteq live[target] \cup toEmbed \cup copied
    /\ {f \in Files : files[target][f] # NoFile} \subseteq deps[target]
    /\ copied # {} => base # NoSnap
    /\ \A f \in copied : Tree[CommitOf(base)][f] # NoFile

SearchInv == ActiveSearchable /\ BaseServes /\ SearchProgress

\* A build of a new target, with no pass beside it, has its row to the end.
RowStays ==
  /\ pc # "idle" => listed = {} /\ target \notin isActive
  /\ pc \in {"clean", "store"} => row[target] # "none"
=============================================================================
