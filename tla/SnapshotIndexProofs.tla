------------------------- MODULE SnapshotIndexProofs ------------------------
(***************************************************************************)
(* Proofs about SnapshotIndex, and about IndexReaders beside it, for any   *)
(* commits, embedding versions, files and requests, and any number of      *)
(* builds, passes and reads.                                               *)
(***************************************************************************)
EXTENDS IndexReaders, TLAPS, FiniteSetTheorems, WellFoundedInduction

\* A snapshot is of a commit, and the tree of a commit is a tree.
LEMMA SnapFacts ==
  \A s \in Snaps : CommitOf(s) \in Commits /\ Tree[CommitOf(s)] \in Trees
BY TreeAssumption DEF Snaps, CommitOf, Trees

\* Init establishes the type invariant.
LEMMA TypeInit == Init => TypeOK
BY BoundsAssumption DEF Init, TypeOK, Trees, NoFiles

\* Every statement of a build and of a pass keeps the type invariant.
LEMMA TypeStep == TypeOK /\ [Next]_vars => TypeOK'
<1> SUFFICES ASSUME TypeOK, [Next]_vars PROVE TypeOK'
  OBVIOUS
<1> USE BoundsAssumption, SnapsAssumption, SnapFacts
    DEF TypeOK, rowVars, dataVars, planVars, workVars, passVars
<1>1. ASSUME NEW c \in Commits, NEW v \in Versions, NEW w \in Workflows, Begin(c, v, w)
      PROVE  TypeOK'
  BY <1>1 DEF Begin, SourceFiles, NoFiles, Trees, Snaps
<1>2. ASSUME NEW b \in Snaps, ResolveBase(b) PROVE TypeOK'
  BY <1>2 DEF ResolveBase, ChangedPaths, UnchangedPaths, SourceFiles
<1>3. CASE FallBack        BY <1>3 DEF FallBack
<1>4. CASE CreateSnapshot
  <2>1. target \in Snaps
    BY <1>4 DEF CreateSnapshot
  <2>2. row' \in [Snaps -> {"none", "building", "active"}]
    BY <1>4, <2>1 DEF CreateSnapshot
  <2>3. \A s \in Snaps : s # target => row'[s] = row[s]
    BY <1>4 DEF CreateSnapshot
  <2>4. row'[target] = "building"
    BY <1>4, <2>1 DEF CreateSnapshot
  <2> QED BY <1>4, <2>1, <2>2, <2>3, <2>4 DEF CreateSnapshot
<1>5. CASE DeleteSnapshotArtifacts
  BY <1>5 DEF DeleteSnapshotArtifacts, NoFiles, Trees
<1>6. ASSUME NEW f \in Files, WriteFile(f) PROVE TypeOK'
  <2>1. target \in Snaps /\ Tree[CommitOf(target)][f] \in Contents \cup {NoFile}
    BY <1>6 DEF WriteFile, Trees
  <2>2. files' \in [Snaps -> Trees] /\ arts' \in [Snaps -> Trees]
    BY <1>6, <2>1 DEF WriteFile, Trees
  <2>3. deps' \in [Snaps -> SUBSET Files]
    BY <1>6, <2>1 DEF WriteFile
  <2>4. \A s \in Snaps : s # target => files'[s] = files[s] /\ arts'[s] = arts[s]
    BY <1>6 DEF WriteFile
  <2> QED BY <1>6, <2>1, <2>2, <2>3, <2>4 DEF WriteFile
<1>7. ASSUME NEW f \in Files, UpsertVectors(f) PROVE TypeOK'
  BY <1>7 DEF UpsertVectors, StorePoints
<1>8. ASSUME NEW f \in Files, CopyFile(f) PROVE TypeOK'
  <2>1. /\ target \in Snaps /\ base \in Snaps
        /\ oldFiles[f] \in Contents \cup {NoFile}
        /\ OldArtifacts(f) \in Contents \cup {NoFile}
    BY <1>8 DEF CopyFile, OldArtifacts, Trees
  <2>2. files' \in [Snaps -> Trees] /\ arts' \in [Snaps -> Trees]
    BY <1>8, <2>1 DEF CopyFile, Trees
  <2>3. deps' \in [Snaps -> SUBSET Files]
    BY <1>8, <2>1 DEF CopyFile
  <2>4. \A s \in Snaps : s # target => files'[s] = files[s] /\ arts'[s] = arts[s]
    BY <1>8 DEF CopyFile
  <2> QED BY <1>8, <2>1, <2>2, <2>3, <2>4 DEF CopyFile
<1>9. ASSUME NEW f \in Files, CopyVectors(f) PROVE TypeOK'
  BY <1>9 DEF CopyVectors, StorePoints
<1>10. CASE ActivateSnapshotTx
  <2>1. target \in Snaps
    BY <1>10 DEF ActivateSnapshotTx
  <2>2. CASE row[target] = "none"
    BY <1>10, <2>1, <2>2 DEF ActivateSnapshotTx
  <2>3. CASE row[target] # "none"
    BY <1>10, <2>1, <2>3 DEF ActivateSnapshotTx
  <2> QED BY <2>2, <2>3
<1>11. CASE Fail            BY <1>11 DEF Fail
<1>12. ASSUME NEW f \in Files, FailInFile(f) PROVE TypeOK'
  <2>1. /\ target \in Snaps
        /\ Tree[CommitOf(target)][f] \in Contents \cup {NoFile}
        /\ oldFiles[f] \in Contents \cup {NoFile}
    BY <1>12 DEF FailInFile, Trees
  <2>2. files' \in [Snaps -> Trees]
    <3>1. CASE files' = [files EXCEPT ![target][f] = Tree[CommitOf(target)][f]]
      BY <2>1, <3>1 DEF Trees
    <3>2. CASE files' = [files EXCEPT ![target][f] = oldFiles[f]]
      BY <2>1, <3>2 DEF Trees
    <3> QED BY <1>12, <3>1, <3>2 DEF FailInFile
  <2>3. \A s \in Snaps : s # target => files'[s] = files[s]
    BY <1>12 DEF FailInFile
  <2> QED BY <1>12, <2>1, <2>2, <2>3 DEF FailInFile
<1>13. CASE ListOrphans     BY <1>13 DEF ListOrphans
<1>14. ASSUME NEW s \in Snaps, DeleteOrphan(s) PROVE TypeOK'
  <2>1. CASE row[s] = "building" /\ s \notin isActive
    <3>a. NoFiles \in Trees
      BY DEF NoFiles, Trees
    <3>1. files' \in [Snaps -> Trees] /\ arts' \in [Snaps -> Trees]
      <4>1. files' = [files EXCEPT ![s] = NoFiles] /\ arts' = [arts EXCEPT ![s] = NoFiles]
        BY <1>14, <2>1 DEF DeleteOrphan
      <4>2. files' \in [Snaps -> Trees]
        BY <3>a, <4>1
      <4>3. arts' \in [Snaps -> Trees]
        BY <3>a, <4>1
      <4> QED BY <4>2, <4>3
    <3>b. deps' \in [Snaps -> SUBSET Files]
      BY <1>14, <2>1 DEF DeleteOrphan
    <3>2. row' \in [Snaps -> {"none", "building", "active"}]
      BY <1>14, <2>1 DEF DeleteOrphan
    <3>3. \A t \in Snaps : t # s => row'[t] = row[t] /\ files'[t] = files[t] /\ arts'[t] = arts[t]
      BY <1>14, <2>1 DEF DeleteOrphan
    <3>4. files'[s] = NoFiles /\ arts'[s] = NoFiles
      BY <1>14, <2>1 DEF DeleteOrphan
    <3> QED BY <1>14, <2>1, <3>1, <3>2, <3>3, <3>4, <3>b DEF DeleteOrphan
  <2>2. CASE ~(row[s] = "building" /\ s \notin isActive)
    BY <1>14, <2>2 DEF DeleteOrphan
  <2> QED BY <2>1, <2>2
<1>15. CASE UNCHANGED vars  BY <1>15 DEF vars
<1> QED BY <1>1, <1>2, <1>3, <1>4, <1>5, <1>6, <1>7, <1>8, <1>9, <1>10, <1>11, <1>12,
           <1>13, <1>14, <1>15 DEF Next, Build

\* Type correctness: only rows that exist are active or own files, whatever
\* fails in a build and whatever a pass deletes beside it.
THEOREM TypeCorrect == Spec => []TypeOK
BY TypeInit, TypeStep, PTL DEF Spec

-----------------------------------------------------------------------------
(* The files of an active snapshot.                                        *)

\* The target of a build, its commit's tree, and where its rows are.
LEMMA TargetFacts ==
  ASSUME TypeOK, pc # "idle"
  PROVE  /\ target \in Snaps
         /\ CommitOf(target) \in Commits
         /\ Tree[CommitOf(target)] \in Trees
         /\ files[target] \in Trees
BY SnapFacts DEF TypeOK

\* Classifying the diff against an active base plans each source file of the
\* target once, and copies only what the two commits share.
LEMMA DiffCovers ==
  ASSUME TypeOK, pc # "idle", NEW b \in Snaps, files[b] = Tree[CommitOf(b)]
  PROVE  /\ ChangedPaths(b) \cup UnchangedPaths(b) = SourceFiles(CommitOf(target))
         /\ \A f \in UnchangedPaths(b) : files[b][f] = Tree[CommitOf(target)][f]
<1>1. \A f \in Files : f \in UnchangedPaths(b) <=>
        /\ Tree[CommitOf(b)][f] # NoFile
        /\ Tree[CommitOf(b)][f] = Tree[CommitOf(target)][f]
  BY DEF UnchangedPaths, ChangedPaths, DeletedPaths, SourceFiles
<1>2. UnchangedPaths(b) \subseteq Files /\ ChangedPaths(b) \subseteq Files
  BY DEF UnchangedPaths, ChangedPaths, SourceFiles
<1>3. \A f \in Files : f \in ChangedPaths(b) <=>
        /\ Tree[CommitOf(target)][f] # NoFile
        /\ Tree[CommitOf(b)][f] # Tree[CommitOf(target)][f]
  BY DEF ChangedPaths, SourceFiles
<1>4. \A f \in Files : f \in ChangedPaths(b) \cup UnchangedPaths(b)
                         <=> Tree[CommitOf(target)][f] # NoFile
  BY <1>1, <1>3
<1> QED BY <1>1, <1>2, <1>4 DEF SourceFiles

\* Init establishes the file invariant.
LEMMA FileInit == Init => FileInv
BY DEF Init, FileInv, ActiveIsWhole, PlanCovers, PlanDisjoint, CopyPlan, NoBaseYet, StoreProgress, TargetInactive

\* Storing one file's rows moves it from planned to stored and leaves the other
\* snapshots alone.
LEMMA StoreOne ==
  ASSUME TypeOK, FileInv, pc = "store", pc' = "store", row[target] # "none",
         NEW f \in Files,
         files' = [files EXCEPT ![target][f] = Tree[CommitOf(target)][f]],
         toWrite' \cup toCopy' = (toWrite \cup toCopy) \ {f},
         UNCHANGED <<row, isActive, target>>
  PROVE  ActiveIsWhole' /\ StoreProgress' /\ TargetInactive'
<1>1. target \in Snaps /\ target \notin isActive
  BY DEF TypeOK, FileInv, TargetInactive
<1>2. ActiveIsWhole'
  BY <1>1 DEF TypeOK, FileInv, ActiveIsWhole
<1>3. \A g \in Files : g \in toWrite' \cup toCopy' <=> g \in toWrite \cup toCopy /\ g # f
  OBVIOUS
<1>4. \A g \in Files : files'[target][g] =
                         IF g = f THEN Tree[CommitOf(target)][f] ELSE files[target][g]
  BY <1>1 DEF TypeOK, Trees
<1>5. StoreProgress'
  BY <1>3, <1>4 DEF FileInv, StoreProgress
<1> QED BY <1>1, <1>2, <1>5 DEF TargetInactive

\* Every step keeps the file invariant.
LEMMA FileStep == TypeOK /\ FileInv /\ [Next]_vars => FileInv'
<1> SUFFICES ASSUME TypeOK, FileInv, [Next]_vars PROVE FileInv'
  OBVIOUS
<1> USE SnapsAssumption DEF rowVars, dataVars, planVars, workVars, passVars
<1>1. ASSUME NEW c \in Commits, NEW v \in Versions, NEW w \in Workflows, Begin(c, v, w)
      PROVE  FileInv'
  BY <1>1 DEF Begin, FileInv, ActiveIsWhole, PlanCovers, PlanDisjoint, CopyPlan, NoBaseYet, StoreProgress,
     TargetInactive, CommitOf
<1>2. ASSUME NEW b \in Snaps, ResolveBase(b) PROVE FileInv'
  <2>1. files[b] = Tree[CommitOf(b)]
    BY <1>2 DEF ResolveBase, FileInv, ActiveIsWhole
  <2>2. /\ ChangedPaths(b) \cup UnchangedPaths(b) = SourceFiles(CommitOf(target))
        /\ \A f \in UnchangedPaths(b) : files[b][f] = Tree[CommitOf(target)][f]
    BY <1>2, <2>1, DiffCovers DEF ResolveBase
  <2>3. PlanCovers'
    BY <1>2, <2>2 DEF ResolveBase, FileInv, PlanCovers, SourceFiles
  <2>4. CopyPlan'
    BY <1>2, <2>1, <2>2 DEF ResolveBase, CopyPlan
  <2>5. PlanDisjoint'
    BY <1>2 DEF ResolveBase, PlanDisjoint, UnchangedPaths
  <2> QED BY <1>2, <2>3, <2>4, <2>5
       DEF ResolveBase, FileInv, ActiveIsWhole, NoBaseYet, StoreProgress, TargetInactive
<1>3. CASE FallBack
  BY <1>3 DEF FallBack, FileInv, ActiveIsWhole, PlanCovers, PlanDisjoint, CopyPlan, NoBaseYet, StoreProgress,
     TargetInactive, SourceFiles
<1>4. CASE CreateSnapshot
  BY <1>4 DEF CreateSnapshot, FileInv, ActiveIsWhole, PlanCovers, PlanDisjoint, CopyPlan, NoBaseYet,
     StoreProgress, TargetInactive, SourceFiles
<1>5. CASE DeleteSnapshotArtifacts
  <2>1. target \in Snaps /\ target \notin isActive
    BY <1>5 DEF DeleteSnapshotArtifacts, TypeOK, FileInv, TargetInactive
  <2>2. files'[target] = NoFiles /\ \A s \in Snaps : s # target => files'[s] = files[s]
    BY <1>5, <2>1 DEF DeleteSnapshotArtifacts, TypeOK
  <2>3. ActiveIsWhole'
    BY <1>5, <2>1, <2>2 DEF DeleteSnapshotArtifacts, TypeOK, FileInv, ActiveIsWhole
  <2>4. \A f \in Files : f \in toWrite \cup toCopy <=> Tree[CommitOf(target)][f] # NoFile
    BY <1>5 DEF DeleteSnapshotArtifacts, FileInv, PlanCovers, SourceFiles
  <2>5. StoreProgress'
    BY <1>5, <2>2, <2>4 DEF DeleteSnapshotArtifacts, StoreProgress, NoFiles
  <2> QED BY <1>5, <2>1, <2>3, <2>5
       DEF DeleteSnapshotArtifacts, FileInv, PlanCovers, PlanDisjoint, CopyPlan, NoBaseYet, TargetInactive
<1>6. ASSUME NEW f \in Files, WriteFile(f) PROVE FileInv'
  <2>1. ActiveIsWhole' /\ StoreProgress' /\ TargetInactive'
    <3>1. toWrite' \cup toCopy' = (toWrite \cup toCopy) \ {f}
      BY <1>6 DEF WriteFile, FileInv, PlanDisjoint
    <3>2. pc = "store" /\ pc' = "store" /\ row[target] # "none"
      BY <1>6 DEF WriteFile
    <3>3. files' = [files EXCEPT ![target][f] = Tree[CommitOf(target)][f]]
      BY <1>6 DEF WriteFile
    <3>4. UNCHANGED <<row, isActive, target>>
      BY <1>6 DEF WriteFile
    <3> QED BY <3>1, <3>2, <3>3, <3>4, StoreOne
  <2> QED BY <1>6, <2>1 DEF WriteFile, FileInv, PlanCovers, PlanDisjoint, CopyPlan, NoBaseYet
<1>7. ASSUME NEW f \in Files, UpsertVectors(f) \/ CopyVectors(f) PROVE FileInv'
  BY <1>7 DEF UpsertVectors, CopyVectors, FileInv, ActiveIsWhole, PlanCovers, PlanDisjoint, CopyPlan,
     NoBaseYet, StoreProgress, TargetInactive
<1>8. ASSUME NEW f \in Files, CopyFile(f) PROVE FileInv'
  <2>1. oldFiles[f] = Tree[CommitOf(target)][f]
    BY <1>8 DEF CopyFile, TypeOK, FileInv, CopyPlan
  <2>2. ActiveIsWhole' /\ StoreProgress' /\ TargetInactive'
    <3>1. toWrite' \cup toCopy' = (toWrite \cup toCopy) \ {f}
      BY <1>8 DEF CopyFile
    <3>2. pc = "store" /\ pc' = "store" /\ row[target] # "none"
      BY <1>8 DEF CopyFile
    <3>3. files' = [files EXCEPT ![target][f] = Tree[CommitOf(target)][f]]
      BY <1>8, <2>1 DEF CopyFile
    <3>4. UNCHANGED <<row, isActive, target>>
      BY <1>8 DEF CopyFile
    <3> QED BY <3>1, <3>2, <3>3, <3>4, StoreOne
  <2> QED BY <1>8, <2>2 DEF CopyFile, FileInv, PlanCovers, PlanDisjoint, CopyPlan, NoBaseYet
<1>9. CASE ActivateSnapshotTx
  <2>1. target \in Snaps /\ Tree[CommitOf(target)] \in Trees /\ files[target] \in Trees
    BY <1>9, TargetFacts DEF ActivateSnapshotTx
  <2>2. ActiveIsWhole'
    <3>1. CASE row[target] = "none"
      BY <1>9, <3>1 DEF ActivateSnapshotTx, ActiveIsWhole
    <3>2. CASE row[target] # "none"
      <4>1. \A f \in Files : files[target][f] = Tree[CommitOf(target)][f]
        BY <1>9, <3>2 DEF ActivateSnapshotTx, FileInv, StoreProgress
      <4>2. files[target] = Tree[CommitOf(target)]
        BY <2>1, <4>1 DEF Trees
      <4> QED BY <1>9, <3>2, <4>2 DEF ActivateSnapshotTx, ActiveIsWhole
    <3> QED BY <3>1, <3>2
  <2> QED BY <1>9, <2>2 DEF ActivateSnapshotTx, FileInv, PlanCovers, PlanDisjoint, CopyPlan, NoBaseYet,
       StoreProgress, TargetInactive
<1>10. CASE Fail
  BY <1>10 DEF Fail, FileInv, ActiveIsWhole, PlanCovers, PlanDisjoint, CopyPlan, NoBaseYet, StoreProgress,
     TargetInactive
<1>11. ASSUME NEW f \in Files, FailInFile(f) PROVE FileInv'
  <2>1. target \in Snaps /\ target \notin isActive
    BY <1>11 DEF FailInFile, TypeOK, FileInv, TargetInactive
  <2>2. \A s \in Snaps : s # target => files'[s] = files[s]
    BY <1>11 DEF FailInFile, TypeOK
  <2>3. ActiveIsWhole'
    BY <1>11, <2>1, <2>2 DEF FailInFile, TypeOK, FileInv, ActiveIsWhole
  <2> QED BY <1>11, <2>3 DEF FailInFile, FileInv, PlanCovers, PlanDisjoint, CopyPlan, NoBaseYet,
       StoreProgress, TargetInactive
<1>12. CASE ListOrphans
  BY <1>12 DEF ListOrphans, FileInv, ActiveIsWhole, PlanCovers, PlanDisjoint, CopyPlan, NoBaseYet,
     StoreProgress, TargetInactive
<1>13. ASSUME NEW s \in Snaps, DeleteOrphan(s) PROVE FileInv'
  <2>1. CASE row[s] = "building" /\ s \notin isActive
    <3>1. /\ row'[s] = "none"
          /\ \A t \in Snaps : t # s => row'[t] = row[t] /\ files'[t] = files[t]
      BY <1>13, <2>1 DEF DeleteOrphan, TypeOK
    <3>2. ActiveIsWhole'
      BY <1>13, <2>1, <3>1 DEF DeleteOrphan, TypeOK, FileInv, ActiveIsWhole
    <3>3. StoreProgress'
      BY <1>13, <3>1 DEF DeleteOrphan, TypeOK, FileInv, StoreProgress
    <3> QED BY <1>13, <3>2, <3>3 DEF DeleteOrphan, FileInv, PlanCovers, PlanDisjoint, CopyPlan, NoBaseYet,
         TargetInactive
  <2>2. CASE ~(row[s] = "building" /\ s \notin isActive)
    BY <1>13, <2>2 DEF DeleteOrphan, FileInv, ActiveIsWhole, PlanCovers, PlanDisjoint, CopyPlan, NoBaseYet,
       StoreProgress, TargetInactive
  <2> QED BY <2>1, <2>2
<1>14. CASE UNCHANGED vars
  BY <1>14 DEF vars, FileInv, ActiveIsWhole, PlanCovers, PlanDisjoint, CopyPlan, NoBaseYet, StoreProgress,
     TargetInactive
<1> QED BY <1>1, <1>2, <1>3, <1>4, <1>5, <1>6, <1>7, <1>8, <1>9, <1>10, <1>11, <1>12,
           <1>13, <1>14 DEF Next, Build

\* Whatever builds fail, restart, fall back or are overtaken by a pass, and
\* even at an unchanged HEAD, an active snapshot has exactly its commit's files.
THEOREM ActiveIsWholeCorrect == Spec => []ActiveIsWhole
<1>1. Init => TypeOK /\ FileInv
  BY TypeInit, FileInit
<1>2. (TypeOK /\ FileInv) /\ [Next]_vars => (TypeOK /\ FileInv)'
  BY TypeStep, FileStep
<1>3. FileInv => ActiveIsWhole
  BY DEF FileInv
<1> QED BY <1>1, <1>2, <1>3, PTL DEF Spec

-----------------------------------------------------------------------------
(* The artifacts and points of an active snapshot.                         *)

\* Init establishes the search invariant.
LEMMA SearchInit == Init => SearchInv
BY DEF Init, SearchInv, ActiveSearchable, BaseServes, SearchProgress

\* What search reads of a snapshot stays.
Same(s) == arts'[s] = arts[s] /\ live'[s] = live[s] /\ deps'[s] = deps[s]

\* A step that changes the artifacts and points of the target only, which is not
\* active, keeps active snapshots searchable.
LEMMA SearchFrame ==
  ASSUME TypeOK, ActiveSearchable, UNCHANGED isActive,
         NEW t \in Snaps, t \notin isActive,
         \A s \in Snaps : s # t => Same(s)
  PROVE  ActiveSearchable'
BY DEF TypeOK, ActiveSearchable, Same

\* Unless incremental-index runs at an unchanged HEAD, every step keeps the
\* search invariant.
LEMMA SearchStep ==
  "incremental-index" \notin Events =>
    (TypeOK /\ FileInv /\ SearchInv /\ [Next]_vars => SearchInv')
<1> SUFFICES ASSUME "incremental-index" \notin Events,
                    TypeOK, FileInv, SearchInv, [Next]_vars
             PROVE  SearchInv'
  OBVIOUS
<1> USE SnapsAssumption DEF rowVars, dataVars, planVars, workVars, passVars
<1>a. pc # "idle" => target \in Snaps
  BY DEF TypeOK
<1>b. pc \in {"clean", "store"} => target \notin isActive
  BY DEF FileInv, TargetInactive
<1>1. ASSUME NEW c \in Commits, NEW v \in Versions, NEW w \in Workflows, Begin(c, v, w)
      PROVE  SearchInv'
  BY <1>1 DEF Begin, Workflows, SearchInv, ActiveSearchable, BaseServes, SearchProgress
<1>2. ASSUME NEW b \in Snaps, ResolveBase(b) PROVE SearchInv'
  BY <1>2 DEF ResolveBase, SearchInv, ActiveSearchable, BaseServes, SearchProgress
<1>3. CASE FallBack \/ Fail \/ ListOrphans
  BY <1>3 DEF FallBack, Fail, ListOrphans, SearchInv, ActiveSearchable, BaseServes, SearchProgress
<1>4. CASE CreateSnapshot
  BY <1>4 DEF CreateSnapshot, SearchInv, ActiveSearchable, BaseServes, SearchProgress
<1>5. CASE DeleteSnapshotArtifacts
  <2>1. target \in Snaps /\ target \notin isActive
    BY <1>5, <1>a, <1>b DEF DeleteSnapshotArtifacts
  <2>2. /\ arts'[target] = NoFiles /\ files'[target] = NoFiles
        /\ \A s \in Snaps : s # target => Same(s)
    BY <1>5, <2>1 DEF DeleteSnapshotArtifacts, TypeOK, Same
  <2>3. ActiveSearchable'
    BY <1>5, <2>1, <2>2, SearchFrame DEF DeleteSnapshotArtifacts, SearchInv
  <2>4. copied = {}
    BY <1>5 DEF DeleteSnapshotArtifacts, FileInv, PlanCovers
  <2>5. SearchProgress'
    BY <1>5, <2>2, <2>4 DEF DeleteSnapshotArtifacts, SearchProgress, NoFiles
  <2> QED BY <1>5, <2>3, <2>5 DEF DeleteSnapshotArtifacts, SearchInv, BaseServes
<1>6. ASSUME NEW f \in Files, WriteFile(f) PROVE SearchInv'
  <2>1. target \in Snaps /\ target \notin isActive
    BY <1>6, <1>a, <1>b DEF WriteFile
  <2>2. /\ arts'[target] = [arts[target] EXCEPT ![f] = Tree[CommitOf(target)][f]]
        /\ files'[target] = [files[target] EXCEPT ![f] = Tree[CommitOf(target)][f]]
        /\ deps'[target] = deps[target] \cup {f}
        /\ \A s \in Snaps : s # target => Same(s)
    BY <1>6, <2>1 DEF WriteFile, TypeOK, Same
  <2>3. ActiveSearchable'
    BY <1>6, <2>1, <2>2, SearchFrame DEF WriteFile, SearchInv
  <2>4. SearchProgress'
    <3>1. arts[target] = files[target] /\ files[target] \in Trees
      BY <1>6, <2>1 DEF WriteFile, SearchInv, SearchProgress, TypeOK
    <3>2. \A g \in Files : g # f => files'[target][g] = files[target][g]
      BY <2>2, <3>1 DEF Trees
    <3> QED BY <1>6, <2>2, <3>1, <3>2 DEF WriteFile, SearchInv, SearchProgress
  <2> QED BY <1>6, <2>3, <2>4 DEF WriteFile, SearchInv, BaseServes
<1>7. ASSUME NEW f \in Files, UpsertVectors(f) PROVE SearchInv'
  <2>1. target \in Snaps /\ target \notin isActive
    BY <1>7, <1>a, <1>b DEF UpsertVectors
  <2>2. /\ row[target] # "none" => live'[target] = live[target] \cup {f}
        /\ \A s \in Snaps : s # target => Same(s)
    BY <1>7, <2>1 DEF UpsertVectors, StorePoints, TypeOK, Same
  <2>3. ActiveSearchable'
    BY <1>7, <2>1, <2>2, SearchFrame DEF UpsertVectors, SearchInv
  <2>4. SearchProgress'
    BY <1>7, <2>2 DEF UpsertVectors, SearchInv, SearchProgress
  <2> QED BY <1>7, <2>3, <2>4 DEF UpsertVectors, SearchInv, BaseServes
<1>8. ASSUME NEW f \in Files, CopyFile(f) PROVE SearchInv'
  <2>1. target \in Snaps /\ target \notin isActive
    BY <1>8, <1>a, <1>b DEF CopyFile
  <2>2. base \in isActive /\ base # target /\ base # NoSnap
    BY <1>8 DEF CopyFile, TypeOK, SearchInv, BaseServes
  <2>3. OldArtifacts(f) = Tree[CommitOf(base)][f] /\ OldArtifacts(f) = oldFiles[f]
    BY <1>8, <2>2 DEF CopyFile, OldArtifacts, SearchInv, ActiveSearchable, FileInv, CopyPlan
  <2>4. /\ arts'[target] = [arts[target] EXCEPT ![f] = oldFiles[f]]
        /\ files'[target] = [files[target] EXCEPT ![f] = oldFiles[f]]
        /\ \A s \in Snaps : s # target => Same(s)
    BY <1>8, <2>1, <2>3 DEF CopyFile, TypeOK, Same
  <2>5. ActiveSearchable'
    BY <1>8, <2>1, <2>4, SearchFrame DEF CopyFile, SearchInv
  <2>6. SearchProgress'
    <3>1. arts[target] = files[target] /\ files[target] \in Trees
      BY <1>8, <2>1 DEF CopyFile, SearchInv, SearchProgress, TypeOK
    <3>2. /\ files'[target][f] = oldFiles[f]
          /\ \A g \in Files : g # f => files'[target][g] = files[target][g]
      BY <2>4, <3>1 DEF Trees
    <3>3. \A g \in copied' : g \in copied \/ (g = f /\ Tree[CommitOf(base)][f] # NoFile)
      BY <1>8, <2>3 DEF CopyFile
    <3>4. files'[target][f] # NoFile => f \in copied'
      BY <1>8, <2>3, <3>2 DEF CopyFile
    <3>5. copied \subseteq copied'
      BY <1>8 DEF CopyFile
    <3>6. deps'[target] = deps[target] \cup ({f} \cap deps[base])
      BY <1>8, <2>1 DEF CopyFile, TypeOK
    <3>7. files'[target][f] # NoFile => f \in deps'[target]
      BY <2>2, <2>3, <3>2, <3>6 DEF SearchInv, ActiveSearchable, SourceFiles
    <3> QED BY <1>8, <2>2, <2>4, <3>1, <3>2, <3>3, <3>4, <3>5, <3>6, <3>7 DEF CopyFile, SearchInv, SearchProgress
  <2> QED BY <1>8, <2>5, <2>6 DEF CopyFile, SearchInv, BaseServes
<1>9. ASSUME NEW f \in Files, CopyVectors(f) PROVE SearchInv'
  <2>1. target \in Snaps /\ target \notin isActive
    BY <1>9, <1>a, <1>b DEF CopyVectors
  <2>2. row[target] # "none" => f \in live[base]
    BY <1>9 DEF CopyVectors, SearchInv, SearchProgress, BaseServes, ActiveSearchable, SourceFiles
  <2>3. /\ row[target] # "none" => live'[target] = live[target] \cup {f}
        /\ \A s \in Snaps : s # target => Same(s)
    BY <1>9, <2>1, <2>2 DEF CopyVectors, StorePoints, TypeOK, Same
  <2>4. ActiveSearchable'
    BY <1>9, <2>1, <2>3, SearchFrame DEF CopyVectors, SearchInv
  <2>5. SearchProgress'
    BY <1>9, <2>3 DEF CopyVectors, SearchInv, SearchProgress
  <2> QED BY <1>9, <2>4, <2>5 DEF CopyVectors, SearchInv, BaseServes
<1>10. CASE ActivateSnapshotTx
  <2>1. CASE row[target] = "none"
    BY <1>10, <2>1 DEF ActivateSnapshotTx, SearchInv, ActiveSearchable, BaseServes, SearchProgress
  <2>2. CASE row[target] # "none"
    <3>1. target \in Snaps /\ files[target] \in Trees /\ Tree[CommitOf(target)] \in Trees
      BY <1>10, TargetFacts DEF ActivateSnapshotTx
    <3>2. \A f \in Files : files[target][f] = Tree[CommitOf(target)][f]
      BY <1>10, <2>2 DEF ActivateSnapshotTx, FileInv, StoreProgress
    <3>3. files[target] = Tree[CommitOf(target)]
      BY <3>1, <3>2 DEF Trees
    <3>4. arts[target] = Tree[CommitOf(target)]
      BY <1>10, <2>2, <3>3 DEF ActivateSnapshotTx, SearchInv, SearchProgress
    <3>5. SourceFiles(CommitOf(target)) \subseteq live[target] \cap deps[target]
      BY <1>10, <2>2, <3>3 DEF ActivateSnapshotTx, SearchInv, SearchProgress, SourceFiles
    <3>6. ActiveSearchable'
      BY <1>10, <2>2, <3>4, <3>5 DEF ActivateSnapshotTx, ActiveSearchable
    <3> QED BY <1>10, <3>6 DEF ActivateSnapshotTx, SearchInv, BaseServes, SearchProgress
  <2> QED BY <2>1, <2>2
<1>11. ASSUME NEW f \in Files, FailInFile(f) PROVE SearchInv'
  <2>1. target \in Snaps /\ target \notin isActive
    BY <1>11, <1>a, <1>b DEF FailInFile
  <2>2. \A s \in Snaps : s # target => Same(s)
    BY <1>11 DEF FailInFile, TypeOK, Same
  <2>3. ActiveSearchable'
    BY <1>11, <2>1, <2>2, SearchFrame DEF FailInFile, SearchInv
  <2> QED BY <1>11, <2>3 DEF FailInFile, SearchInv, BaseServes, SearchProgress
<1>12. ASSUME NEW s \in Snaps, DeleteOrphan(s) PROVE SearchInv'
  <2>1. CASE row[s] = "building" /\ s \notin isActive
    <3>1. /\ row'[s] = "none"
          /\ \A t \in Snaps : t # s => /\ row'[t] = row[t] /\ files'[t] = files[t]
                                       /\ Same(t)
      BY <1>12, <2>1 DEF DeleteOrphan, TypeOK, Same
    <3>2. ActiveSearchable'
      BY <1>12, <2>1, <3>1, SearchFrame DEF DeleteOrphan, SearchInv
    <3>3. SearchProgress'
      BY <1>12, <1>a, <3>1 DEF DeleteOrphan, SearchInv, SearchProgress, Same
    <3> QED BY <1>12, <3>2, <3>3 DEF DeleteOrphan, SearchInv, BaseServes
  <2>2. CASE ~(row[s] = "building" /\ s \notin isActive)
    BY <1>12, <2>2 DEF DeleteOrphan, SearchInv, ActiveSearchable, BaseServes, SearchProgress
  <2> QED BY <2>1, <2>2
<1>13. CASE UNCHANGED vars
  BY <1>13 DEF vars, SearchInv, ActiveSearchable, BaseServes, SearchProgress
<1> QED BY <1>1, <1>2, <1>3, <1>4, <1>5, <1>6, <1>7, <1>8, <1>9, <1>10, <1>11, <1>12,
           <1>13 DEF Next, Build

\* Unless incremental-index runs at an unchanged HEAD, every file of an active
\* snapshot has its artifacts, dependencies and points, however they got there.
THEOREM ActiveSearchableCorrect ==
  "incremental-index" \notin Events => (Spec => []ActiveSearchable)
<1> SUFFICES ASSUME "incremental-index" \notin Events PROVE Spec => []ActiveSearchable
  OBVIOUS
<1>1. Init => TypeOK /\ FileInv /\ SearchInv
  BY TypeInit, FileInit, SearchInit
<1>2. (TypeOK /\ FileInv /\ SearchInv) /\ [Next]_vars => (TypeOK /\ FileInv /\ SearchInv)'
  BY TypeStep, FileStep, SearchStep
<1>3. SearchInv => ActiveSearchable
  BY DEF SearchInv
<1> QED BY <1>1, <1>2, <1>3, PTL DEF Spec

-----------------------------------------------------------------------------
(* What readers see.                                                       *)

\* While a snapshot is active its commit's files are what readers see.
LEMMA ViewIsTree ==
  ASSUME ActiveIsWhole, NEW s \in isActive
  PROVE  view = Tree[CommitOf(s)]
<1>1. (CHOOSE t \in isActive : TRUE) \in isActive
  OBVIOUS
<1>2. (CHOOSE t \in isActive : TRUE) = s
  BY <1>1 DEF ActiveIsWhole
<1> QED BY <1>2 DEF view, ActiveIsWhole

\* A step that changes no is_active column changes nothing for readers.
LEMMA ViewStays ==
  ASSUME ActiveIsWhole, ActiveIsWhole', isActive' = isActive
  PROVE  view' = view
<1>1. CASE isActive = {}
  BY <1>1 DEF view, Nothing
<1>2. CASE isActive # {}
  <2>1. PICK s \in isActive : TRUE
    BY <1>2
  <2>2. view = Tree[CommitOf(s)]
    BY ViewIsTree
  <2>3. (CHOOSE t \in isActive' : TRUE) \in isActive'
    BY <2>1
  <2>4. (CHOOSE t \in isActive' : TRUE) = s
    BY <2>1, <2>3 DEF ActiveIsWhole
  <2>5. view' = Tree[CommitOf(s)]
    BY <1>2, <2>4, <2>1 DEF view, ActiveIsWhole
  <2> QED BY <2>2, <2>5
<1> QED BY <1>1, <1>2

\* Builds of new targets with no pass beside them keep their rows.
LEMMA RowStep == Events = {} => (TypeOK /\ RowStays /\ [Next]_vars => RowStays')
<1> SUFFICES ASSUME Events = {}, TypeOK, RowStays, [Next]_vars PROVE RowStays'
  OBVIOUS
<1> USE DEF RowStays, rowVars, dataVars, planVars, workVars, passVars
<1>1. ASSUME NEW c \in Commits, NEW v \in Versions, NEW w \in Workflows, Begin(c, v, w)
      PROVE  RowStays'
  BY <1>1 DEF Begin
<1>2. ASSUME NEW b \in Snaps, ResolveBase(b) PROVE RowStays'
  BY <1>2 DEF ResolveBase
<1>3. CASE CreateSnapshot
  BY <1>3 DEF CreateSnapshot, TypeOK
<1>4. CASE FallBack \/ DeleteSnapshotArtifacts \/ Fail \/ ActivateSnapshotTx
  BY <1>4 DEF FallBack, DeleteSnapshotArtifacts, Fail, ActivateSnapshotTx
<1>5. ASSUME NEW f \in Files,
             \/ WriteFile(f) \/ UpsertVectors(f) \/ CopyFile(f) \/ CopyVectors(f)
             \/ FailInFile(f)
      PROVE  RowStays'
  BY <1>5 DEF WriteFile, UpsertVectors, CopyFile, CopyVectors, FailInFile
<1>6. CASE ListOrphans
  BY <1>6 DEF ListOrphans
<1>7. ASSUME NEW s \in Snaps, DeleteOrphan(s) PROVE RowStays'
  BY <1>7 DEF DeleteOrphan
<1>8. CASE UNCHANGED vars
  BY <1>8 DEF vars
<1> QED BY <1>1, <1>2, <1>3, <1>4, <1>5, <1>6, <1>7, <1>8 DEF Next, Build

\* Each step leaves what readers see alone or publishes a commit.
LEMMA PublishStep ==
  Events = {} =>
    (TypeOK /\ FileInv /\ FileInv' /\ RowStays /\ [Next]_vars => [Published!Next]_view)
<1> SUFFICES ASSUME Events = {}, TypeOK, FileInv, FileInv', RowStays, [Next]_vars
             PROVE  [Published!Next]_view
  OBVIOUS
<1> USE DEF rowVars, dataVars, planVars, workVars, passVars
<1>1. CASE ActivateSnapshotTx
  <2>1. target \in Snaps /\ isActive' = {target} /\ target' = target
    BY <1>1 DEF ActivateSnapshotTx, RowStays, TypeOK
  <2>2. CommitOf(target) \in Commits
    BY <2>1, SnapFacts
  <2>3. (CHOOSE t \in isActive' : TRUE) = target
    BY <2>1
  <2>4. files'[target] = Tree[CommitOf(target)]
    BY <2>1 DEF FileInv, ActiveIsWhole
  <2>5. view' = Tree[CommitOf(target)]
    BY <2>1, <2>3, <2>4 DEF view
  <2> QED BY <2>2, <2>5 DEF Published!Next, Published!Publish
<1>2. CASE ~ActivateSnapshotTx
  <2>1. isActive' = isActive
    <3>1. CASE CreateSnapshot
      BY <3>1 DEF CreateSnapshot, RowStays
    <3>2. CASE UNCHANGED vars
      BY <3>2 DEF vars
    <3>3. CASE Next /\ ~CreateSnapshot
      BY <1>2, <3>3 DEF Next, Build, Begin, ResolveBase, FallBack, DeleteSnapshotArtifacts,
         WriteFile, UpsertVectors, CopyFile, CopyVectors, Fail, FailInFile, ListOrphans,
         DeleteOrphan
    <3> QED BY <3>1, <3>2, <3>3
  <2> QED BY <2>1, ViewStays DEF FileInv
<1> QED BY <1>1, <1>2

\* Refinement: as long as no build targets the active snapshot and no worker
\* starts during a build, readers see nothing, then one whole commit after
\* another, and never less.
THEOREM PublishedCorrect == Events = {} => (Spec => PublishedSpec)
<1> SUFFICES ASSUME Events = {} PROVE Spec => PublishedSpec
  OBVIOUS
<1>1. Init => TypeOK /\ FileInv /\ RowStays
  BY TypeInit, FileInit DEF Init, RowStays
<1>2. (TypeOK /\ FileInv /\ RowStays) /\ [Next]_vars => (TypeOK /\ FileInv /\ RowStays)'
  BY TypeStep, FileStep, RowStep
<1>3. Init => Published!Init
  BY DEF Init, Published!Init, view
<1>4. TypeOK /\ FileInv /\ FileInv' /\ RowStays /\ [Next]_vars => [Published!Next]_view
  BY PublishStep
<1> QED BY <1>1, <1>2, <1>3, <1>4, PTL DEF Spec, PublishedSpec, Published!Spec

-----------------------------------------------------------------------------
(* IndexReaders: what the statements of one request return.                *)

StatementNames ==
  {"chunks", "symbols", "externals", "fileCounts", "imports", "importedBy", "files", "content",
   "fileID", "exports", "references", "jsxUsages", "networkCalls"} \cup Counts

\* Every request of a fixed list of statements has one, of statements there are.
LEMMA StatementsOf ==
  ASSUME NEW op \in Ops
  PROVE  /\ Len(Statements(op)) \in 1..3
         /\ \A i \in 1..Len(Statements(op)) : Statements(op)[i] \in StatementNames
<1> USE DEF StatementNames, Counts
<1>1. CASE op \in {"search", "symbols", "overview"}
  BY <1>1 DEF Statements, HandleSearch, HandleListSymbols, HandleDependencies
<1>2. CASE op \in {"fileDeps", "structure", "context"}
  BY <1>2 DEF Statements, HandleFileDependencies, HandleStructure, HandleFileContext
<1>3. CASE op \in {"exports", "references"}
  BY <1>3 DEF Statements, HandleFileExports, HandleFileReferences
<1>4. CASE op \in {"jsxUsages", "networkCalls"}
  BY <1>4 DEF Statements, HandleFileJsxUsages, HandleFileNetworkCalls
<1> QED BY <1>1, <1>2, <1>3, <1>4 DEF Ops

\* The part of a tree that is there.
PartOf(F, T) == \A f \in Files : F[f] \in {NoFile, T[f]}

\* A request asks about contents and paths.
LEMMA QueryFacts ==
  \A q \in Requests : /\ q.path \in Files /\ q.query \subseteq Contents
                      /\ NoFile \notin q.query
                      /\ Selected(q) \subseteq Files
BY ReadersAssumption, TreeAssumption DEF Selected

\* A count of fewer files is a smaller count.
LEMMA SmallerCount ==
  ASSUME NEW S, NEW T, IsFiniteSet(T), S \subseteq T
  PROVE  /\ IsFiniteSet(S) /\ Cardinality(S) \in Nat /\ Cardinality(T) \in Nat
         /\ Cardinality(S) <= Cardinality(T)
<1>1. S \in SUBSET T
  OBVIOUS
<1>2. IsFiniteSet(S) /\ Cardinality(S) <= Cardinality(T)
  BY <1>1, FS_Subset
<1> QED BY <1>2, FS_CardinalityType

\* The rows that a search finds are finitely many, as the files are.
LEMMA FoundFinite ==
  ASSUME NEW S \in SUBSET Files, NEW T, NEW R, R = {<<f, T[f]>> : f \in S}
  PROVE  IsFiniteSet(R)
<1> DEFINE g == [f \in S |-> <<f, T[f]>>]
<1>1. IsFiniteSet(S)
  BY ReadersAssumption, FS_Subset
<1>2. g \in Surjection(S, R)
  BY DEF Surjection
<1> HIDE DEF g
<1> QED BY <1>1, <1>2, FS_Surjection

\* What a part of the index selects, the whole index selects.
LEMMA SearchPart ==
  ASSUME NEW q \in Requests, NEW A, NEW T, PartOf(A, T)
  PROVE  /\ buildCodeSearchQuery(q, A) \subseteq buildCodeSearchQuery(q, T)
         /\ buildSymbolListQuery(q, A) \subseteq buildSymbolListQuery(q, T)
         /\ IsFiniteSet(buildCodeSearchQuery(q, T))
         /\ IsFiniteSet(buildSymbolListQuery(q, T))
<1>1. ASSUME NEW f \in Selected(q), A[f] # NoFile PROVE A[f] = T[f]
  BY <1>1, QueryFacts DEF PartOf
<1>2. buildCodeSearchQuery(q, A) \subseteq buildCodeSearchQuery(q, T)
  <2> SUFFICES ASSUME NEW f \in Selected(q), A[f] \in q.query
               PROVE  <<f, A[f]>> \in buildCodeSearchQuery(q, T)
    BY DEF buildCodeSearchQuery
  <2>1. A[f] = T[f]
    BY <1>1, QueryFacts
  <2> QED BY <2>1 DEF buildCodeSearchQuery
<1>3. buildSymbolListQuery(q, A) \subseteq buildSymbolListQuery(q, T)
  <2> SUFFICES ASSUME NEW f \in Selected(q), A[f] # NoFile
               PROVE  <<f, A[f]>> \in buildSymbolListQuery(q, T)
    BY DEF buildSymbolListQuery
  <2>1. A[f] = T[f]
    BY <1>1
  <2> QED BY <2>1 DEF buildSymbolListQuery
<1>4. IsFiniteSet(buildCodeSearchQuery(q, T))
  <2>1. {g \in Selected(q) : T[g] \in q.query} \in SUBSET Files
    BY QueryFacts
  <2> QED BY <2>1, FoundFinite DEF buildCodeSearchQuery
<1>5. IsFiniteSet(buildSymbolListQuery(q, T))
  <2>1. {g \in Selected(q) : T[g] # NoFile} \in SUBSET Files
    BY QueryFacts
  <2> QED BY <2>1, FoundFinite DEF buildSymbolListQuery
<1> QED BY <1>2, <1>3, <1>4, <1>5

LEMMA DependenciesPart ==
  ASSUME NEW c \in Commits, NEW D, NEW E, D \cap SourceFiles(c) \subseteq E
  PROVE  Dependencies(D, c) \subseteq Dependencies(E, c)
<1> SUFFICES ASSUME NEW d \in Dependencies(D, c) PROVE d \in Dependencies(E, c)
  OBVIOUS
<1>1. PICK f \in D \cap SourceFiles(c) : d \in {f} \X Imports[Tree[c][f]]
  BY DEF Dependencies
<1>2. f \in E \cap SourceFiles(c)
  BY <1>1
<1> QED BY <1>1, <1>2 DEF Dependencies

LEMMA CountsPart ==
  ASSUME NEW c \in Commits, NEW D, NEW E, Dependencies(D, c) \subseteq Dependencies(E, c)
  PROVE  /\ ListExternalDependencies(D, c) \subseteq ListExternalDependencies(E, c)
         /\ ListFileDependencyCounts(D, c) \subseteq ListFileDependencyCounts(E, c)
         /\ IsFiniteSet(ListFileDependencyCounts(E, c))
         /\ \A S : /\ ListDependenciesFromFiles(D, c, S) \subseteq ListDependenciesFromFiles(E, c, S)
                   /\ ListDependenciesToFiles(D, c, S) \subseteq ListDependenciesToFiles(E, c, S)
<1>1. ListExternalDependencies(D, c) \subseteq ListExternalDependencies(E, c)
  BY DEF ListExternalDependencies
<1>2. ListFileDependencyCounts(D, c) \subseteq ListFileDependencyCounts(E, c)
  BY DEF ListFileDependencyCounts
<1>3. IsFiniteSet(ListFileDependencyCounts(E, c))
  <2>1. ListFileDependencyCounts(E, c) \in SUBSET Files
    BY DEF ListFileDependencyCounts
  <2> QED BY <2>1, ReadersAssumption, FS_Subset
<1>4. \A S : /\ ListDependenciesFromFiles(D, c, S) \subseteq ListDependenciesFromFiles(E, c, S)
             /\ ListDependenciesToFiles(D, c, S) \subseteq ListDependenciesToFiles(E, c, S)
  BY DEF ListDependenciesFromFiles, ListDependenciesToFiles
<1> QED BY <1>1, <1>2, <1>3, <1>4

\* Each statement, on a part of a commit's index, returns a part of what it returns
\* on the whole.
LEMMA ResultPart ==
  ASSUME NEW q \in Requests, NEW c \in Commits, NEW st \in StatementNames,
         NEW F, NEW A, NEW D, PartOf(F, Tree[c]), PartOf(A, Tree[c])
  PROVE  LET part == Result(st, q, F, A, D, c)
             all == Result(st, q, Tree[c], Tree[c], SourceFiles(c), c)
         IN IF st \in Counts THEN part \in Nat /\ all \in Nat /\ part <= all
            ELSE part \subseteq all
<1> DEFINE T == Tree[c]
           E == SourceFiles(c)
           part == Result(st, q, F, A, D, c)
           all == Result(st, q, T, T, E, c)
<1>1. q.path \in Files
  BY QueryFacts
<1>2. PartOf(A, T) /\ PartOf(F, T)
  OBVIOUS
<1>3. Dependencies(D, c) \subseteq Dependencies(E, c)
  BY DependenciesPart
<1> HIDE DEF T, E
<1>4. CASE st \in {"chunks", "symbols"}
  <2>1. part \subseteq all
    BY <1>2, <1>4, SearchPart DEF Result
  <2> QED BY <1>4, <2>1 DEF Counts, T, E
<1>5. CASE st \in {"chunkCount", "symbolCount"}
  <2>1. part \in Nat /\ all \in Nat /\ part <= all
    <3>1. CASE st = "chunkCount"
      <4>1. part = Cardinality(buildCodeSearchQuery(q, A)) /\ all = Cardinality(buildCodeSearchQuery(q, T))
        BY <3>1 DEF Result
      <4> QED BY <1>2, <4>1, SearchPart, SmallerCount
    <3>2. CASE st = "symbolCount"
      <4>1. part = Cardinality(buildSymbolListQuery(q, A)) /\ all = Cardinality(buildSymbolListQuery(q, T))
        BY <3>2 DEF Result
      <4> QED BY <1>2, <4>1, SearchPart, SmallerCount
    <3> QED BY <1>5, <3>1, <3>2
  <2> QED BY <1>5, <2>1 DEF Counts, T, E
<1>6. CASE st \in {"externals", "fileCounts", "imports", "importedBy"}
  <2>1. part \subseteq all
    BY <1>3, <1>6, CountsPart DEF Result, ListDependenciesFromFile, ListDependenciesToFile
  <2> QED BY <1>6, <2>1 DEF Counts, T, E
<1>7. CASE st = "totalFiles"
  <2>1. /\ part = Cardinality(ListFileDependencyCounts(D, c))
        /\ all = Cardinality(ListFileDependencyCounts(E, c))
    BY <1>7 DEF Result, CountFilesWithDependencies
  <2>2. part \in Nat /\ all \in Nat /\ part <= all
    BY <1>3, <2>1, CountsPart, SmallerCount
  <2> QED BY <1>7, <2>2 DEF Counts, T, E
<1>8. CASE st \in {"files", "content", "fileID"}
  <2>1. part \subseteq all
    BY <1>1, <1>2, <1>8 DEF Result, ListSnapshotFiles, GetFileWithContent, GetFileBySnapshotAndPath, PartOf
  <2> QED BY <1>8, <2>1 DEF Counts, T, E
<1>9. CASE st \in {"exports", "references", "jsxUsages", "networkCalls"}
  <2>0. Contained(A, q.path) \subseteq Contained(T, q.path)
    BY <1>1, <1>2 DEF Contained, PartOf
  <2>1. part \subseteq all
    BY <2>0, <1>9 DEF Result, ListExportsByFileID, ListSymbolReferencesByFileID, ListJsxUsagesByFileID,
       ListNetworkCallsByFileID
  <2> QED BY <1>9, <2>1 DEF Counts, T, E
<1> QED BY <1>4, <1>5, <1>6, <1>7, <1>8, <1>9 DEF StatementNames, Counts

\* On a whole index it returns all of it.
LEMMA ResultWhole ==
  ASSUME NEW q, NEW c \in Commits, NEW st, NEW D, SourceFiles(c) \subseteq D
  PROVE  Result(st, q, Tree[c], Tree[c], D, c)
           = Result(st, q, Tree[c], Tree[c], SourceFiles(c), c)
<1> DEFINE T == Tree[c]
<1>1. Dependencies(D, c) = Dependencies(SourceFiles(c), c)
  <2>1. D \cap SourceFiles(c) = SourceFiles(c) \cap SourceFiles(c)
    OBVIOUS
  <2> QED BY <2>1 DEF Dependencies
<1>2. /\ ListExternalDependencies(D, c) = ListExternalDependencies(SourceFiles(c), c)
      /\ ListFileDependencyCounts(D, c) = ListFileDependencyCounts(SourceFiles(c), c)
      /\ CountFilesWithDependencies(D, c) = CountFilesWithDependencies(SourceFiles(c), c)
      /\ ListDependenciesFromFile(D, c, q.path) = ListDependenciesFromFile(SourceFiles(c), c, q.path)
      /\ ListDependenciesToFile(D, c, q.path) = ListDependenciesToFile(SourceFiles(c), c, q.path)
  BY <1>1 DEF ListExternalDependencies, ListFileDependencyCounts, CountFilesWithDependencies,
     ListDependenciesFromFile, ListDependenciesToFile, ListDependenciesFromFiles, ListDependenciesToFiles
<1> HIDE DEF T
<1>3. Result(st, q, T, T, D, c) = Result(st, q, T, T, SourceFiles(c), c)
  BY <1>2, Zenon DEF Result
<1> QED BY <1>3 DEF T

-----------------------------------------------------------------------------
(* IndexReaders: what builds leave in a snapshot.                          *)

\* The part of a file's rows that may be there.
LEMMA TreePart ==
  ASSUME NEW s \in Snaps
  PROVE  \A f \in Files : NoFiles[f] \in {NoFile, Tree[CommitOf(s)][f]}
BY DEF NoFiles

\* A statement that puts a file of the commit into one snapshot leaves the others.
LEMMA StoredFrame ==
  ASSUME TypeOK, StoredOfCommit, NEW t \in Snaps, NEW f \in Files,
         NEW x \in {NoFile, Tree[CommitOf(t)][f]}, NEW y \in {NoFile, Tree[CommitOf(t)][f]},
         files' = [files EXCEPT ![t][f] = x],
         arts' = [arts EXCEPT ![t][f] = y] \/ arts' = arts
  PROVE  StoredOfCommit'
<1> SUFFICES ASSUME NEW s \in Snaps, NEW g \in Files
             PROVE  /\ files'[s][g] \in {NoFile, Tree[CommitOf(s)][g]}
                    /\ arts'[s][g] \in {NoFile, Tree[CommitOf(s)][g]}
  BY DEF StoredOfCommit
<1>1. /\ files[s][g] \in {NoFile, Tree[CommitOf(s)][g]}
      /\ arts[s][g] \in {NoFile, Tree[CommitOf(s)][g]}
  BY DEF StoredOfCommit
<1>2. files \in [Snaps -> Trees] /\ arts \in [Snaps -> Trees]
  BY DEF TypeOK
<1>3. files'[s][g] = IF s = t /\ g = f THEN x ELSE files[s][g]
  BY <1>2 DEF Trees
<1>4. arts'[s][g] = arts[s][g] \/ (s = t /\ g = f /\ arts'[s][g] = y)
  BY <1>2 DEF Trees
<1> QED BY <1>1, <1>3, <1>4

\* Every statement of a build keeps what a snapshot has of its own commit, also
\* when it copies from another one.
LEMMA StoredStep == TypeOK /\ FileInv /\ StoredOfCommit /\ [Next]_vars => StoredOfCommit'
<1> SUFFICES ASSUME TypeOK, FileInv, StoredOfCommit, [Next]_vars PROVE StoredOfCommit'
  OBVIOUS
<1> USE SnapsAssumption DEF rowVars, dataVars, planVars, workVars, passVars
<1>a. files \in [Snaps -> Trees] /\ arts \in [Snaps -> Trees]
  BY DEF TypeOK
<1>1. CASE UNCHANGED <<files, arts>>
  BY <1>1 DEF StoredOfCommit
<1>2. CASE DeleteSnapshotArtifacts
  <2>1. target \in Snaps
    BY <1>2 DEF DeleteSnapshotArtifacts, TypeOK
  <2>2. \A s \in Snaps : /\ files'[s] = (IF s = target THEN NoFiles ELSE files[s])
                         /\ arts'[s] = (IF s = target THEN NoFiles ELSE arts[s])
    BY <1>2, <1>a DEF DeleteSnapshotArtifacts
  <2> QED BY <2>2, TreePart DEF StoredOfCommit
<1>3. ASSUME NEW f \in Files, WriteFile(f) PROVE StoredOfCommit'
  <2>1. target \in Snaps
    BY <1>3 DEF WriteFile, TypeOK
  <2> DEFINE x == Tree[CommitOf(target)][f]
  <2>2. files' = [files EXCEPT ![target][f] = x] /\ arts' = [arts EXCEPT ![target][f] = x]
    BY <1>3 DEF WriteFile
  <2>3. x \in {NoFile, Tree[CommitOf(target)][f]}
    OBVIOUS
  <2> HIDE DEF x
  <2> QED BY <2>1, <2>2, <2>3, StoredFrame
<1>4. ASSUME NEW f \in Files, CopyFile(f) PROVE StoredOfCommit'
  <2>1. target \in Snaps /\ base \in Snaps /\ base # NoSnap
    BY <1>4 DEF CopyFile, TypeOK
  <2>2. oldFiles = Tree[CommitOf(base)] /\ oldFiles[f] = Tree[CommitOf(target)][f]
    BY <1>4, <2>1 DEF CopyFile, FileInv, CopyPlan
  <2>3. OldArtifacts(f) \in {NoFile, Tree[CommitOf(target)][f]}
    BY <2>1, <2>2 DEF OldArtifacts, StoredOfCommit
  <2>4. /\ files' = [files EXCEPT ![target][f] = oldFiles[f]]
        /\ arts' = [arts EXCEPT ![target][f] = OldArtifacts(f)]
    BY <1>4 DEF CopyFile
  <2>5. oldFiles[f] \in {NoFile, Tree[CommitOf(target)][f]}
    BY <2>2
  <2> QED BY <2>1, <2>3, <2>4, <2>5, StoredFrame
<1>5. ASSUME NEW f \in Files, FailInFile(f) PROVE StoredOfCommit'
  <2>1. target \in Snaps /\ arts' = arts
    BY <1>5 DEF FailInFile, TypeOK
  <2>2. CASE f \in toWrite /\ files' = [files EXCEPT ![target][f] = Tree[CommitOf(target)][f]]
    <3> DEFINE x == Tree[CommitOf(target)][f]
    <3>1. files' = [files EXCEPT ![target][f] = x] /\ x \in {NoFile, Tree[CommitOf(target)][f]}
      BY <2>2
    <3> HIDE DEF x
    <3> QED BY <2>1, <3>1, StoredFrame
  <2>3. CASE f \in toCopy /\ files' = [files EXCEPT ![target][f] = oldFiles[f]]
    <3>1. base \in Snaps /\ base # NoSnap
      BY <2>3 DEF TypeOK
    <3>2. oldFiles[f] \in {NoFile, Tree[CommitOf(target)][f]}
      BY <1>5, <2>3, <3>1 DEF FailInFile, FileInv, CopyPlan
    <3> QED BY <2>1, <2>3, <3>2, StoredFrame
  <2> QED BY <1>5, <2>2, <2>3 DEF FailInFile
<1>6. ASSUME NEW s \in Snaps, DeleteOrphan(s) PROVE StoredOfCommit'
  <2>1. CASE row[s] = "building" /\ s \notin isActive
    <3>1. \A t \in Snaps : /\ files'[t] = (IF t = s THEN NoFiles ELSE files[t])
                           /\ arts'[t] = (IF t = s THEN NoFiles ELSE arts[t])
      BY <1>6, <2>1, <1>a DEF DeleteOrphan
    <3> QED BY <3>1, TreePart DEF StoredOfCommit
  <2>2. CASE ~(row[s] = "building" /\ s \notin isActive)
    BY <1>6, <2>2 DEF DeleteOrphan, StoredOfCommit
  <2> QED BY <2>1, <2>2
<1>7. CASE Next /\ ~UNCHANGED <<files, arts>>
  BY <1>2, <1>3, <1>4, <1>5, <1>6, <1>7 DEF Next, Build, Begin, ResolveBase, FallBack, CreateSnapshot,
     UpsertVectors, CopyVectors, ActivateSnapshotTx, Fail, ListOrphans
<1> QED BY <1>1, <1>7 DEF vars

\* What readers find of a snapshot that was activated.
WholeSnap(s) ==
  /\ files[s] = Tree[CommitOf(s)] /\ arts[s] = Tree[CommitOf(s)]
  /\ SourceFiles(CommitOf(s)) \subseteq deps[s]

\* A step that changes the rows of a snapshot which is not activated, if any.
LEMMA WholeFrame ==
  ASSUME StoredWhole, NEW t, t \in Snaps => row[t] # "active" /\ row'[t] # "active",
         \A s \in Snaps : s # t => /\ files'[s] = files[s] /\ arts'[s] = arts[s] /\ deps'[s] = deps[s]
                                   /\ row'[s] = row[s]
  PROVE  \A s \in Snaps : row'[s] = "active" => WholeSnap(s)'
BY DEF StoredWhole, WholeSnap

\* Unless incremental-index runs at an unchanged HEAD, a snapshot that was activated
\* stays whole until CreateIndexSnapshot takes its row over.
LEMMA WholeStep ==
  ASSUME "incremental-index" \notin Events, TypeOK, FileInv, SearchInv, StoredWhole, [Next]_vars
  PROVE  StoredWhole'
<1> USE SnapsAssumption DEF rowVars, dataVars, planVars, workVars, passVars
<1>a. /\ pc \in {"clean", "store"} => row[target] # "active"
      /\ pc # "idle" => target \in Snaps
      /\ \A s \in Snaps : row[s] = "active" => WholeSnap(s)
  BY DEF StoredWhole, WholeSnap, TypeOK
<1> SUFFICES /\ \A s \in Snaps : row'[s] = "active" => WholeSnap(s)'
             /\ pc' \in {"clean", "store"} => row'[target'] # "active"
  BY DEF StoredWhole, WholeSnap
<1> DEFINE Goal == /\ \A s \in Snaps : row'[s] = "active" => WholeSnap(s)'
                   /\ pc' \in {"clean", "store"} => row'[target'] # "active"
<1>1. CASE /\ UNCHANGED <<row, files, arts, deps>>
           /\ pc' \notin {"clean", "store"} \/ UNCHANGED <<pc, target>>
  BY <1>1, <1>a DEF WholeSnap
<1>2. CASE CreateSnapshot
  <2>1. target \in Snaps /\ target' = target /\ UNCHANGED <<files, arts, deps>>
    BY <1>2, <1>a DEF CreateSnapshot
  <2>2. \A s \in Snaps : row'[s] = IF s = target THEN "building" ELSE row[s]
    BY <1>2 DEF CreateSnapshot, TypeOK
  <2>3. \A s \in Snaps : row'[s] = "active" => WholeSnap(s)'
    BY <1>a, <2>1, <2>2 DEF WholeSnap
  <2> QED BY <2>1, <2>2, <2>3
<1>3. ASSUME pc = "clean" \/ pc = "store", row' = row, target' = target,
             \A s \in Snaps : s # target =>
               files'[s] = files[s] /\ arts'[s] = arts[s] /\ deps'[s] = deps[s]
      PROVE  Goal
  <2>1. row[target] # "active" /\ row'[target] # "active"
    BY <1>3, <1>a
  <2>2. \A s \in Snaps : s # target => /\ files'[s] = files[s] /\ arts'[s] = arts[s] /\ deps'[s] = deps[s]
                                        /\ row'[s] = row[s]
    BY <1>3
  <2>3. \A s \in Snaps : row'[s] = "active" => WholeSnap(s)'
    BY <2>1, <2>2, WholeFrame
  <2> QED BY <1>3, <2>1, <2>3
<1>4. CASE DeleteSnapshotArtifacts
  <2>1. /\ pc = "clean" /\ row' = row /\ target' = target
        /\ \A s \in Snaps : s # target =>
             files'[s] = files[s] /\ arts'[s] = arts[s] /\ deps'[s] = deps[s]
    BY <1>4 DEF DeleteSnapshotArtifacts, TypeOK
  <2> QED BY <2>1, <1>3
<1>5. ASSUME NEW f \in Files, WriteFile(f) \/ CopyFile(f) \/ FailInFile(f) PROVE Goal
  <2>1. pc = "store" /\ row' = row /\ target' = target
    BY <1>5 DEF WriteFile, CopyFile, FailInFile
  <2>2. \A s \in Snaps : s # target => files'[s] = files[s]
    BY <1>5 DEF WriteFile, CopyFile, FailInFile, TypeOK
  <2>3. \A s \in Snaps : s # target => arts'[s] = arts[s]
    BY <1>5 DEF WriteFile, CopyFile, FailInFile, TypeOK
  <2>4. \A s \in Snaps : s # target => deps'[s] = deps[s]
    BY <1>5 DEF WriteFile, CopyFile, FailInFile, TypeOK
  <2> QED BY <2>1, <2>2, <2>3, <2>4, <1>3
<1>6. CASE ActivateSnapshotTx
  <2>0. /\ target \in Snaps /\ UNCHANGED <<files, arts, deps>> /\ pc' = "idle"
        /\ toWrite \cup toEmbed \cup toCopy \cup copied = {} /\ pc = "store"
    BY <1>6, <1>a DEF ActivateSnapshotTx
  <2>1. CASE row[target] = "none"
    BY <1>6, <1>1, <2>0, <2>1 DEF ActivateSnapshotTx
  <2>2. CASE row[target] # "none"
    <3>1. files[target] \in Trees /\ Tree[CommitOf(target)] \in Trees
      BY <2>0, TargetFacts
    <3>2. \A f \in Files : files[target][f] = Tree[CommitOf(target)][f]
      BY <2>0, <2>2 DEF FileInv, StoreProgress
    <3>3. files[target] = Tree[CommitOf(target)]
      BY <3>1, <3>2 DEF Trees
    <3>4. arts[target] = Tree[CommitOf(target)]
      BY <2>0, <2>2, <3>3 DEF SearchInv, SearchProgress
    <3>5. SourceFiles(CommitOf(target)) \subseteq deps[target]
      BY <2>0, <2>2, <3>3 DEF SearchInv, SearchProgress, SourceFiles
    <3>6. \A s \in Snaps : row'[s] = IF s = target THEN "active" ELSE row[s]
      BY <1>6, <2>2 DEF ActivateSnapshotTx, TypeOK
    <3>7. \A s \in Snaps : row'[s] = "active" => WholeSnap(s)'
      BY <1>a, <2>0, <3>3, <3>4, <3>5, <3>6 DEF WholeSnap
    <3> QED BY <2>0, <3>7
  <2> QED BY <2>1, <2>2
<1>7. ASSUME NEW s \in Snaps, DeleteOrphan(s) PROVE Goal
  <2>1. CASE row[s] = "building" /\ s \notin isActive
    <3>1. /\ \A t \in Snaps : t # s => /\ files'[t] = files[t] /\ arts'[t] = arts[t] /\ deps'[t] = deps[t]
                                      /\ row'[t] = row[t]
          /\ row'[s] = "none" /\ UNCHANGED <<pc, target>>
      BY <1>7, <2>1 DEF DeleteOrphan, TypeOK
    <3>2. \A t \in Snaps : row'[t] = "active" => WholeSnap(t)'
      BY <2>1, <3>1, WholeFrame
    <3> QED BY <1>a, <3>1, <3>2
  <2>2. CASE ~(row[s] = "building" /\ s \notin isActive)
    BY <1>1, <1>7, <2>2 DEF DeleteOrphan
  <2> QED BY <2>1, <2>2
<1>8. ASSUME NEW c \in Commits, NEW v \in Versions, NEW w \in Workflows, Begin(c, v, w) PROVE Goal
  BY <1>1, <1>8 DEF Begin
<1>9. ASSUME NEW b \in Snaps, ResolveBase(b) PROVE Goal
  BY <1>1, <1>9 DEF ResolveBase
<1>10. CASE FallBack \/ Fail \/ ListOrphans \/ UNCHANGED vars
  BY <1>1, <1>10 DEF FallBack, Fail, ListOrphans, vars
<1>11. ASSUME NEW f \in Files, UpsertVectors(f) \/ CopyVectors(f) PROVE Goal
  BY <1>1, <1>11 DEF UpsertVectors, CopyVectors
<1> QED BY <1>2, <1>4, <1>5, <1>6, <1>7, <1>8, <1>9, <1>10, <1>11 DEF Next, Build

-----------------------------------------------------------------------------
(* IndexReaders: the answers.                                              *)

\* Nothing read yet.
LEMMA NoneRead == Len(<<>>) = 0 /\ <<>> = [i \in 1..Len(<<>>) |-> <<>>[i]]
<1>1. Len(<<>>) = 0
  OBVIOUS
<1>2. 1..Len(<<>>) = {}
  BY <1>1
<1> QED BY <1>1, <1>2

LEMMA SeqIsFunction ==
  ASSUME NEW S, NEW a \in Seq(S)
  PROVE  a = [i \in 1..Len(a) |-> a[i]]
OBVIOUS

\* One more statement.
LEMMA GotOneMore ==
  ASSUME NEW got, NEW res, Len(got) \in Nat, got = [i \in 1..Len(got) |-> got[i]]
  PROVE  /\ Len(Append(got, res)) = Len(got) + 1
         /\ \A i \in 1..Len(got) : Append(got, res)[i] = got[i]
         /\ Append(got, res)[Len(got) + 1] = res
         /\ Append(got, res) = [i \in 1..Len(Append(got, res)) |-> Append(got, res)[i]]
<1> DEFINE n == Len(got)
           S == {got[i] : i \in 1..n} \cup {res}
<1>1. got \in [1..n -> S]
  OBVIOUS
<1>2. got \in Seq(S)
  BY <1>1
<1>3. res \in S
  OBVIOUS
<1> HIDE DEF S
<1>4. /\ Append(got, res) \in Seq(S)
      /\ Len(Append(got, res)) = Len(got) + 1
      /\ \A i \in 1..Len(got) : Append(got, res)[i] = got[i]
      /\ Append(got, res)[Len(got) + 1] = res
  BY <1>2, <1>3
<1>5. Append(got, res) = [i \in 1..Len(Append(got, res)) |-> Append(got, res)[i]]
  BY <1>4, SeqIsFunction
<1> QED BY <1>4, <1>5

LEMMA ReadersInitInv ==
  ReadersInit => /\ TypeOK /\ FileInv /\ SearchInv /\ StoredWhole /\ NotRewritten
                 /\ ReadersIInv /\ OfWholeCommit
<1> SUFFICES ASSUME ReadersInit
             PROVE  /\ TypeOK /\ FileInv /\ SearchInv /\ StoredWhole /\ NotRewritten
                    /\ ReadersIInv /\ OfWholeCommit
  OBVIOUS
<1>1. Init /\ rd = NoRead /\ rewritten = FALSE /\ lost = FALSE
  BY DEF ReadersInit
<1>2. TypeOK /\ FileInv /\ SearchInv
  BY <1>1, TypeInit, FileInit, SearchInit
<1>3. /\ rd.at = "idle" /\ rd.snap = NoSnap /\ rd.got = <<>> /\ rd.q.op = "none"
  BY <1>1 DEF NoRead, NoQuery, NoOp
<1>4. ReadProgress
  <2>1. Len(rd.got) = 0 /\ rd.got = [i \in 1..Len(rd.got) |-> rd.got[i]]
    BY <1>3, NoneRead
  <2>2. rd.q.op \notin Ops
    BY <1>3 DEF Ops
  <2>3. DOMAIN rd = DOMAIN NoRead
    BY <1>1
  <2> QED BY <1>1, <1>3, <2>1, <2>2, <2>3 DEF ReadProgress
<1>5. StoredOfCommit /\ StoredWhole
  BY <1>1 DEF Init, StoredOfCommit, StoredWhole, NoFiles
<1>6. ReadMarks
  BY <1>1 DEF ReadMarks
<1> QED BY <1>1, <1>2, <1>3, <1>4, <1>5, <1>6 DEF NotRewritten, ReadersIInv, OfOneCommit, OfWholeCommit

\* What the statements have returned depends on the request alone.
LEMMA AnswersFrame ==
  ASSUME UNCHANGED rd
  PROVE  /\ ReadProgress /\ (rd.snap = NoSnap => UNCHANGED <<rewritten, lost>>) => ReadProgress'
         /\ OfOneCommit => OfOneCommit'
         /\ OfWholeCommit /\ (rewritten => rewritten') => OfWholeCommit'
<1>1. \A st : Ideal(st)' = Ideal(st)
  BY DEF Ideal
<1> QED BY <1>1 DEF ReadProgress, OfOneCommit, OfWholeCommit

\* A step of the request that reads no rows: it has the answers it had, or none.
LEMMA NothingRead ==
  ASSUME \/ rd'.got = <<>>
         \/ rd'.got = rd.got /\ rd'.q = rd.q /\ rd'.snap = rd.snap
  PROVE  /\ OfOneCommit => OfOneCommit'
         /\ OfWholeCommit /\ (rewritten => rewritten') => OfWholeCommit'
<1>1. CASE rd'.got = <<>>
  BY <1>1 DEF OfOneCommit, OfWholeCommit
<1>2. CASE rd'.got = rd.got /\ rd'.q = rd.q /\ rd'.snap = rd.snap
  <2>1. \A st : Ideal(st)' = Ideal(st)
    BY <1>2 DEF Ideal
  <2> QED BY <1>2, <2>1 DEF OfOneCommit, OfWholeCommit
<1> QED BY <1>1, <1>2

\* The fields of a request's record.
LEMMA RdFields ==
  ASSUME DOMAIN rd = DOMAIN NoRead
  PROVE  DOMAIN rd = {"at", "q", "snap", "got", "visited", "frontier", "level", "edges", "fwd", "truncated"}
BY DEF NoRead

\* What the next statement is about to return.
NextStatement == Statements(rd.q.op)[Len(rd.got) + 1]
ReadRows == IF NextStatement \in ByFileID /\ lost THEN NoFiles ELSE arts[rd.snap]
NextResult ==
  Result(NextStatement, rd.q, files[rd.snap], ReadRows, deps[rd.snap], CommitOf(rd.snap))

\* Where a request is when it executes a statement.
LEMMA Reads ==
  ASSUME ReadProgress, rd.at = "read"
  PROVE  /\ rd.q \in Requests /\ rd.q.op \in Ops
         /\ rd.snap \in Snaps /\ CommitOf(rd.snap) \in Commits
         /\ Len(rd.got) \in Nat /\ Len(rd.got) < Len(Statements(rd.q.op))
         /\ Len(Statements(rd.q.op)) \in 1..3
         /\ NextStatement \in StatementNames
<1>1. /\ rd.q \in Requests /\ rd.q.op \in Ops /\ rd.snap \in Snaps
      /\ Len(rd.got) \in Nat /\ Len(rd.got) < Len(Statements(rd.q.op))
  BY DEF ReadProgress
<1>2. CommitOf(rd.snap) \in Commits
  BY <1>1, SnapFacts
<1>3. /\ Len(Statements(rd.q.op)) \in 1..3
      /\ \A i \in 1..Len(Statements(rd.q.op)) : Statements(rd.q.op)[i] \in StatementNames
  BY <1>1, StatementsOf
<1>4. Len(rd.got) + 1 \in 1..Len(Statements(rd.q.op))
  BY <1>1, <1>3
<1> QED BY <1>1, <1>2, <1>3, <1>4 DEF NextStatement

\* What a statement returns, and where it leaves the request.
LEMMA ReadIs ==
  ASSUME ReadProgress, Read
  PROVE  /\ rd.at = "read" /\ UNCHANGED <<vars, rewritten, lost>>
         /\ DOMAIN rd' = DOMAIN NoRead
         /\ rd'.q = rd.q /\ rd'.snap = rd.snap
         /\ rd'.got = Append(rd.got, NextResult)
         /\ rd'.at \in {"read", "done"}
         /\ rd'.at = "read" => Len(rd.got) + 1 < Len(Statements(rd.q.op))
<1> DEFINE ends == \/ Len(rd.got) + 1 = Len(Statements(rd.q.op))
                   \/ NextStatement = "fileID" /\ NextResult = {}
           at == IF ends THEN "done" ELSE "read"
<1>1. rd.at = "read" /\ UNCHANGED <<vars, rewritten, lost>>
  BY DEF Read, Continue
<1>2. rd' = [rd EXCEPT !.got = Append(rd.got, NextResult), !.at = at]
  BY DEF Read, Continue, Reading, NextStatement, ReadRows, NextResult
<1>3. DOMAIN rd = {"at", "q", "snap", "got", "visited", "frontier", "level", "edges", "fwd", "truncated"}
  BY RdFields DEF ReadProgress
<1>4. ~ends => Len(rd.got) + 1 < Len(Statements(rd.q.op))
  <2>1. Len(rd.got) \in Nat /\ Len(Statements(rd.q.op)) \in 1..3 /\ Len(rd.got) < Len(Statements(rd.q.op))
    BY <1>1, Reads
  <2> QED BY <2>1
<1>5. at \in {"read", "done"} /\ (at = "read" => ~ends)
  OBVIOUS
<1> HIDE DEF at, ends
<1>6. /\ rd'.q = rd.q /\ rd'.snap = rd.snap /\ rd'.got = Append(rd.got, NextResult) /\ rd'.at = at
      /\ DOMAIN rd' = DOMAIN rd
  BY <1>2, <1>3
<1> QED BY <1>1, <1>4, <1>5, <1>6 DEF ReadProgress

\* What the next statement returns is of the commit, and all of it unless a build
\* has taken the snapshot over.
LEMMA NextResultPart ==
  ASSUME ReadProgress, StoredOfCommit, rd.at = "read"
  PROVE  IF NextStatement \in Counts THEN NextResult <= Ideal(NextStatement)
         ELSE NextResult \subseteq Ideal(NextStatement)
<1> DEFINE c == CommitOf(rd.snap)
<1>1. rd.q \in Requests /\ c \in Commits /\ NextStatement \in StatementNames /\ rd.snap \in Snaps
  BY Reads
<1>2. PartOf(files[rd.snap], Tree[c]) /\ PartOf(ReadRows, Tree[c])
  BY <1>1 DEF StoredOfCommit, PartOf, ReadRows, NoFiles
<1>3. Ideal(NextStatement) = Result(NextStatement, rd.q, Tree[c], Tree[c], SourceFiles(c), c)
  BY DEF Ideal
<1>4. NextResult = Result(NextStatement, rd.q, files[rd.snap], ReadRows, deps[rd.snap], c)
  BY DEF NextResult
<1> HIDE DEF c
<1> QED BY <1>1, <1>2, <1>3, <1>4, ResultPart

LEMMA NextResultWhole ==
  ASSUME ReadProgress, StoredWhole, NotRewritten, rd.at = "read", ~rewritten
  PROVE  NextResult = Ideal(NextStatement)
<1> DEFINE c == CommitOf(rd.snap)
<1>1. c \in Commits /\ rd.snap \in Snaps /\ rd.snap # NoSnap
  BY Reads, SnapsAssumption
<1>2. row[rd.snap] = "active" /\ (lost => Tree[c] = NoFiles)
  BY <1>1 DEF NotRewritten
<1>3. files[rd.snap] = Tree[c] /\ arts[rd.snap] = Tree[c] /\ SourceFiles(c) \subseteq deps[rd.snap]
  BY <1>1, <1>2 DEF StoredWhole
<1>4. ReadRows = Tree[c]
  BY <1>2, <1>3 DEF ReadRows
<1> QED BY <1>1, <1>3, <1>4, ResultWhole DEF NextResult, Ideal

LEMMA ReadStep ==
  ASSUME ReadersIInv, Read
  PROVE  /\ ReadProgress' /\ OfOneCommit'
         /\ StoredWhole /\ NotRewritten /\ OfWholeCommit => OfWholeCommit'
<1> DEFINE n == Len(rd.got)
<1>a. ReadProgress /\ StoredOfCommit /\ OfOneCommit
  BY DEF ReadersIInv
<1>1. /\ rd.at = "read" /\ UNCHANGED <<vars, rewritten, lost>>
      /\ DOMAIN rd' = DOMAIN NoRead
      /\ rd'.q = rd.q /\ rd'.snap = rd.snap
      /\ rd'.got = Append(rd.got, NextResult)
      /\ rd'.at \in {"read", "done"}
      /\ rd'.at = "read" => n + 1 < Len(Statements(rd.q.op))
  BY <1>a, ReadIs
<1>2. /\ rd.q \in Requests /\ rd.q.op \in Ops /\ rd.snap \in Snaps
      /\ n \in Nat /\ n < Len(Statements(rd.q.op)) /\ Len(Statements(rd.q.op)) \in 1..3
  BY <1>a, <1>1, Reads
<1>3. /\ Len(rd'.got) = n + 1
      /\ \A i \in 1..n : rd'.got[i] = rd.got[i]
      /\ rd'.got[n + 1] = NextResult
      /\ rd'.got = [i \in 1..Len(rd'.got) |-> rd'.got[i]]
  <2>1. rd.got = [i \in 1..Len(rd.got) |-> rd.got[i]]
    BY <1>a DEF ReadProgress
  <2> QED BY <1>1, <1>2, <2>1, GotOneMore
<1> HIDE DEF n
<1>4. ReadProgress'
  BY <1>1, <1>2, <1>3, SnapsAssumption DEF ReadProgress
<1>5. \A st : Ideal(st)' = Ideal(st)
  BY <1>1 DEF Ideal
<1>6. ASSUME NEW i \in 1..Len(rd'.got)
      PROVE  i \in 1..n \/ (i = n + 1 /\ Statements(rd.q.op)[i] = NextStatement)
  BY <1>2, <1>3, <1>6 DEF NextStatement, n
<1>7. OfOneCommit'
  <2> SUFFICES ASSUME NEW i \in 1..Len(rd'.got)
               PROVE  LET st == Statements(rd.q.op)[i]
                      IN IF st \in Counts THEN rd'.got[i] <= Ideal(st) ELSE rd'.got[i] \subseteq Ideal(st)
    BY <1>1, <1>5 DEF OfOneCommit
  <2>1. CASE i \in 1..n
    BY <1>a, <1>3, <2>1 DEF OfOneCommit, n
  <2>2. CASE i = n + 1 /\ Statements(rd.q.op)[i] = NextStatement
    BY <1>a, <1>1, <1>3, <2>2, NextResultPart
  <2> QED BY <1>6, <2>1, <2>2
<1>8. ASSUME StoredWhole, NotRewritten, OfWholeCommit PROVE OfWholeCommit'
  <2> SUFFICES ASSUME ~rewritten, NEW i \in 1..Len(rd'.got)
               PROVE  rd'.got[i] = Ideal(Statements(rd.q.op)[i])
    BY <1>1, <1>5 DEF OfWholeCommit
  <2>1. CASE i \in 1..n
    BY <1>8, <1>3, <2>1 DEF OfWholeCommit, n
  <2>2. CASE i = n + 1 /\ Statements(rd.q.op)[i] = NextStatement
    BY <1>a, <1>8, <1>1, <1>3, <2>2, NextResultWhole
  <2> QED BY <1>6, <2>1, <2>2
<1> QED BY <1>4, <1>7, <1>8

\* The steps of a request besides Read: what they do to its record.
LEMMA AskIs ==
  ASSUME NEW q \in Requests, Ask(q)
  PROVE  /\ UNCHANGED vars /\ rewritten' = FALSE /\ lost' = FALSE
         /\ DOMAIN rd' = DOMAIN NoRead
         /\ rd'.at = "lookup" /\ rd'.q = q /\ rd'.snap = NoSnap /\ rd'.got = <<>>
BY DEF Ask, NoRead

LEMMA LookUpIs ==
  ASSUME ReadProgress, LookUp
  PROVE  /\ UNCHANGED <<vars, rewritten, lost>> /\ rd.at = "lookup"
         /\ DOMAIN rd' = DOMAIN NoRead
         /\ rd'.q = rd.q /\ rd'.got = rd.got
         /\ \/ rd'.at = "done" /\ rd'.snap = rd.snap
            \/ /\ rd'.at = IF rd.q.op = "graph" THEN "forward" ELSE "read"
               /\ rd'.snap \in isActive
<1>1. UNCHANGED <<vars, rewritten, lost>> /\ rd.at = "lookup"
  BY DEF LookUp, Continue
<1>2. DOMAIN rd = {"at", "q", "snap", "got", "visited", "frontier", "level", "edges", "fwd", "truncated"}
  BY RdFields DEF ReadProgress
<1>3. CASE isActive = {}
  <2>1. rd' = [rd EXCEPT !.at = "done"]
    BY <1>3 DEF LookUp, Continue
  <2> QED BY <1>1, <1>2, <2>1 DEF ReadProgress
<1>4. CASE isActive # {}
  <2> DEFINE at == IF rd.q.op = "graph" THEN "forward" ELSE "read"
             s == CHOOSE t \in isActive : TRUE
             v == IF rd.q.op = "graph" THEN {<<rd.q.path, 0>>} ELSE {}
             f == IF rd.q.op = "graph" THEN {rd.q.path} ELSE {}
  <2>1. rd' = [rd EXCEPT !.at = at, !.snap = s, !.visited = v, !.frontier = f]
    BY <1>4 DEF LookUp, Continue
  <2>2. s \in isActive
    BY <1>4
  <2> HIDE DEF at, s, v, f
  <2>3. rd'.at = at /\ rd'.snap = s /\ rd'.q = rd.q /\ rd'.got = rd.got /\ DOMAIN rd' = DOMAIN rd
    BY <1>2, <2>1
  <2> QED BY <1>1, <2>2, <2>3 DEF at, ReadProgress
<1> QED BY <1>3, <1>4

LEMMA GraphIs ==
  ASSUME ReadProgress, GraphForward \/ GraphReverse
  PROVE  /\ UNCHANGED <<vars, rewritten, lost>> /\ rd.at \in {"forward", "reverse"}
         /\ DOMAIN rd' = DOMAIN NoRead
         /\ rd'.q = rd.q /\ rd'.got = rd.got /\ rd'.snap = rd.snap
         /\ rd'.at \in {"forward", "reverse", "done"}
<1>1. DOMAIN rd = {"at", "q", "snap", "got", "visited", "frontier", "level", "edges", "fwd", "truncated"}
  BY RdFields DEF ReadProgress
<1>2. CASE GraphForward
  BY <1>1, <1>2 DEF GraphForward, Continue, ReadProgress
<1>3. CASE GraphReverse
  <2>1. PICK N, rev, next, full : rd' = AfterLevel(N, rev, next, full)
    BY <1>3 DEF GraphReverse, Continue
  <2> DEFINE v == rd.visited \cup (N \X {rd.level + 1})
             f == IF full THEN {} ELSE next
             k == KeptEdges(rd.edges \cup rd.fwd \cup rev, Nodes \cup N, full)
             l == rd.level + 1
             at == IF full THEN "done" ELSE "forward"
  <2>2. /\ rd' = [rd EXCEPT !.visited = v, !.frontier = f, !.edges = k, !.fwd = {}, !.level = l,
                            !.truncated = full, !.at = at]
        /\ at \in {"done", "forward"}
    BY <2>1 DEF AfterLevel
  <2>3. UNCHANGED <<vars, rewritten, lost>> /\ rd.at = "reverse"
    BY <1>3 DEF GraphReverse, Continue
  <2>4. DOMAIN rd = DOMAIN NoRead
    BY DEF ReadProgress
  <2> HIDE DEF v, f, k, l, at
  <2> QED BY <1>1, <2>2, <2>3, <2>4
<1> QED BY <1>2, <1>3

\* The steps of a request, Read included, keep what it has been told.
LEMMA RequestsStep ==
  ASSUME TypeOK, ReadersIInv,
         (\E q \in Requests : Ask(q)) \/ LookUp \/ Read \/ GraphForward \/ GraphReverse
  PROVE  /\ UNCHANGED vars /\ ReadersIInv'
         /\ NotRewritten => NotRewritten'
         /\ StoredWhole /\ NotRewritten /\ OfWholeCommit => OfWholeCommit'
<1>a. ReadMarks /\ ReadProgress /\ StoredOfCommit /\ OfOneCommit
  BY DEF ReadersIInv
<1>c. UNCHANGED <<rewritten, lost>> => ReadMarks'
  BY <1>a DEF ReadMarks
<1>b. UNCHANGED vars => StoredOfCommit'
  BY <1>a DEF StoredOfCommit, vars, dataVars
<1>1. ASSUME NEW q \in Requests, Ask(q)
      PROVE  /\ UNCHANGED vars /\ ReadersIInv' /\ NotRewritten'
             /\ OfWholeCommit => OfWholeCommit'
  <2>1. /\ UNCHANGED vars /\ rewritten' = FALSE /\ lost' = FALSE
        /\ DOMAIN rd' = DOMAIN NoRead
        /\ rd'.at = "lookup" /\ rd'.q = q /\ rd'.snap = NoSnap /\ rd'.got = <<>>
    BY <1>1, AskIs
  <2>2. OfOneCommit' /\ OfWholeCommit'
    BY <2>1 DEF OfOneCommit, OfWholeCommit
  <2>3. Len(rd'.got) = 0 /\ rd'.got = [i \in 1..Len(rd'.got) |-> rd'.got[i]]
    BY <2>1, NoneRead
  <2>4. rd'.q.op \in Ops => Len(Statements(rd'.q.op)) \in 1..3
    BY StatementsOf
  <2>5. ReadProgress'
    BY <2>1, <2>3, <2>4 DEF ReadProgress
  <2>6. ReadMarks'
    BY <2>1 DEF ReadMarks
  <2> QED BY <1>b, <2>1, <2>2, <2>5, <2>6 DEF ReadersIInv, NotRewritten
<1>2. CASE LookUp
  <2>1. /\ UNCHANGED <<vars, rewritten, lost>> /\ rd.at = "lookup"
        /\ DOMAIN rd' = DOMAIN NoRead
        /\ rd'.q = rd.q /\ rd'.got = rd.got
        /\ \/ rd'.at = "done" /\ rd'.snap = rd.snap
           \/ /\ rd'.at = IF rd.q.op = "graph" THEN "forward" ELSE "read"
              /\ rd'.snap \in isActive
    BY <1>2, <1>a, LookUpIs
  <2>2. rd.snap = NoSnap /\ rd.got = <<>> /\ ~rewritten /\ ~lost /\ rd.q \in Requests
    BY <2>1, <1>a DEF ReadProgress
  <2>3. rd'.snap \in isActive => rd'.snap \in Snaps /\ row[rd'.snap] = "active"
    BY DEF TypeOK
  <2>4. Len(rd'.got) = 0 /\ rd'.got = [i \in 1..Len(rd'.got) |-> rd'.got[i]]
    BY <2>1, <2>2, NoneRead
  <2>5. rd.q.op \in Ops \cup {"graph"} /\ "graph" \notin Ops
    BY <2>2, ReadersAssumption DEF Ops
  <2>6. rd.q.op \in Ops => Len(Statements(rd.q.op)) \in 1..3
    BY StatementsOf
  <2>7. ReadProgress'
    <3>1. CASE rd'.at = "done" /\ rd'.snap = rd.snap
      BY <3>1, <2>1, <2>2, <2>4, <2>6 DEF ReadProgress
    <3>2. CASE /\ rd'.at = IF rd.q.op = "graph" THEN "forward" ELSE "read"
               /\ rd'.snap \in isActive
      <4>1. rd'.snap \in Snaps /\ rd'.snap # NoSnap
        BY <3>2, <2>3, SnapsAssumption
      <4>2. rd'.at = "read" => rd.q.op \in Ops /\ 0 < Len(Statements(rd.q.op))
        BY <3>2, <2>5, <2>6
      <4>3. rd'.at \in {"forward", "read"}
        BY <3>2
      <4> QED BY <4>1, <4>2, <4>3, <2>1, <2>2, <2>4, <2>6 DEF ReadProgress
    <3> QED BY <2>1, <3>1, <3>2
  <2>8. OfOneCommit' /\ OfWholeCommit'
    BY <2>1, <2>2 DEF OfOneCommit, OfWholeCommit
  <2>9. NotRewritten'
    BY <2>1, <2>2, <2>3 DEF NotRewritten, vars, rowVars
  <2> QED BY <1>b, <1>c, <2>1, <2>7, <2>8, <2>9 DEF ReadersIInv
<1>3. CASE Read
  <2>1. UNCHANGED <<vars, rewritten, lost>> /\ rd'.snap = rd.snap
    BY <1>3, <1>a, ReadIs
  <2>2. NotRewritten => NotRewritten'
    BY <2>1 DEF NotRewritten, vars, rowVars
  <2> QED BY <1>3, <1>b, <1>c, <2>1, <2>2, ReadStep DEF ReadersIInv
<1>4. CASE GraphForward \/ GraphReverse
  <2>1. /\ UNCHANGED <<vars, rewritten, lost>> /\ rd.at \in {"forward", "reverse"}
        /\ DOMAIN rd' = DOMAIN NoRead
        /\ rd'.q = rd.q /\ rd'.got = rd.got /\ rd'.snap = rd.snap
        /\ rd'.at \in {"forward", "reverse", "done"}
    BY <1>4, <1>a, GraphIs
  <2>2. ReadProgress'
    BY <1>a, <2>1 DEF ReadProgress
  <2>3. OfOneCommit' /\ (OfWholeCommit => OfWholeCommit')
    BY <1>a, <2>1, NothingRead
  <2>4. NotRewritten => NotRewritten'
    BY <2>1 DEF NotRewritten, vars, rowVars
  <2> QED BY <1>b, <1>c, <2>1, <2>2, <2>3, <2>4 DEF ReadersIInv
<1> QED BY <1>1, <1>2, <1>3, <1>4

\* Builds and passes beside a request keep what it has been told, and say when the
\* snapshot it reads is taken over.
LEMMA BuildsStep ==
  ASSUME TypeOK, FileInv, ReadersIInv, BuildStep
  PROVE  /\ ReadersIInv'
         /\ NotRewritten /\ StoredWhole' => NotRewritten'
         /\ OfWholeCommit => OfWholeCommit'
<1>1. /\ Next /\ UNCHANGED rd
      /\ rewritten' = (rewritten \/ (rd.snap # NoSnap /\ row'[rd.snap] # "active"))
      /\ lost' = (lost \/ (rd.snap # NoSnap /\ files'[rd.snap] = NoFiles))
  BY DEF BuildStep
<1>2. ReadMarks /\ ReadProgress /\ StoredOfCommit /\ OfOneCommit
  BY DEF ReadersIInv
<1>3. rewritten \in BOOLEAN /\ lost \in BOOLEAN
  BY <1>2 DEF ReadMarks
<1>8. ReadMarks'
  <2>1. rewritten' \in BOOLEAN
    BY <1>1, <1>3, Zenon
  <2>2. lost' \in BOOLEAN
    BY <1>1, <1>3, Zenon
  <2> QED BY <2>1, <2>2 DEF ReadMarks
<1>4. StoredOfCommit'
  BY <1>1, <1>2, StoredStep
<1>5. (rd.snap = NoSnap => UNCHANGED <<rewritten, lost>>) /\ (rewritten => rewritten')
  BY <1>1, <1>3
<1>6. ReadProgress' /\ OfOneCommit' /\ (OfWholeCommit => OfWholeCommit')
  BY <1>1, <1>2, <1>5, AnswersFrame
<1>7. NotRewritten /\ StoredWhole' => NotRewritten'
  BY <1>1, <1>2 DEF NotRewritten, StoredWhole, ReadProgress
<1> QED BY <1>4, <1>6, <1>7, <1>8 DEF ReadersIInv

\* Every step of a request, of a build or of a pass keeps what a request has been
\* told; ReadersIInv needs no assumption on the events.
LEMMA ReadersIInvStep ==
  TypeOK /\ FileInv /\ ReadersIInv /\ [ReadersNext]_allVars => (TypeOK /\ FileInv /\ ReadersIInv)'
<1> SUFFICES ASSUME TypeOK, FileInv, ReadersIInv, [ReadersNext]_allVars
             PROVE  (TypeOK /\ FileInv /\ ReadersIInv)'
  OBVIOUS
<1>1. CASE BuildStep
  <2>1. Next
    BY <1>1 DEF BuildStep
  <2>2. TypeOK' /\ FileInv'
    BY <2>1, TypeStep, FileStep
  <2> QED BY <1>1, <2>2, BuildsStep
<1>2. CASE (\E q \in Requests : Ask(q)) \/ LookUp \/ Read \/ GraphForward \/ GraphReverse
  <2>1. UNCHANGED vars /\ ReadersIInv'
    BY <1>2, RequestsStep
  <2> QED BY <2>1, TypeStep, FileStep
<1>3. CASE UNCHANGED allVars
  <2>1. UNCHANGED vars /\ UNCHANGED <<rd, rewritten, lost>>
    BY <1>3 DEF allVars, readVars
  <2>2. TypeOK' /\ FileInv' /\ StoredOfCommit'
    BY <2>1, TypeStep, FileStep, StoredStep DEF ReadersIInv
  <2>3. ReadProgress' /\ OfOneCommit' /\ ReadMarks'
    BY <2>1, AnswersFrame DEF ReadersIInv, ReadMarks
  <2> QED BY <2>2, <2>3 DEF ReadersIInv
<1> QED BY <1>1, <1>2, <1>3 DEF ReadersNext

\* The parts that say that a request sees all of its commit.
WholeParts == SearchInv /\ StoredWhole /\ NotRewritten /\ OfWholeCommit

LEMMA WholePartsStep ==
  ASSUME "incremental-index" \notin Events
  PROVE  TypeOK /\ FileInv /\ ReadersIInv /\ WholeParts /\ [ReadersNext]_allVars => WholeParts'
<1> SUFFICES ASSUME TypeOK, FileInv, ReadersIInv, WholeParts, [ReadersNext]_allVars
             PROVE  WholeParts'
  OBVIOUS
<1>a. SearchInv /\ StoredWhole /\ NotRewritten /\ OfWholeCommit
  BY DEF WholeParts
<1>b. [Next]_vars => SearchInv' /\ StoredWhole'
  BY <1>a, SearchStep, WholeStep
<1>1. CASE BuildStep
  <2>1. Next
    BY <1>1 DEF BuildStep
  <2> QED BY <1>a, <1>b, <1>1, <2>1, BuildsStep DEF WholeParts
<1>2. CASE (\E q \in Requests : Ask(q)) \/ LookUp \/ Read \/ GraphForward \/ GraphReverse
  BY <1>a, <1>b, <1>2, RequestsStep DEF WholeParts
<1>3. CASE UNCHANGED allVars
  <2>1. UNCHANGED vars /\ UNCHANGED <<rd, rewritten, lost>>
    BY <1>3 DEF allVars, readVars
  <2>2. OfWholeCommit'
    BY <1>a, <2>1, AnswersFrame
  <2>3. NotRewritten'
    BY <1>a, <2>1 DEF NotRewritten, vars, rowVars
  <2> QED BY <1>b, <2>1, <2>2, <2>3 DEF WholeParts
<1> QED BY <1>1, <1>2, <1>3 DEF ReadersNext

\* Whatever builds, incremental ones at an unchanged HEAD included, and passes do
\* between the statements of a request (HandleSearch ... HandleFileNetworkCalls),
\* nothing they return is of another commit than that of the snapshot the request
\* looked up.
THEOREM ReadsOfOneCommit == ReadersSpec => []OfOneCommit
<1>1. ReadersInit => TypeOK /\ FileInv /\ ReadersIInv
  BY ReadersInitInv
<1>2. ReadersIInv => OfOneCommit
  BY DEF ReadersIInv
<1> QED BY <1>1, <1>2, ReadersIInvStep, PTL DEF ReadersSpec

\* Unless incremental-index runs at an unchanged HEAD, what a request answers is of
\* one commit, and all of it that was asked for until a build takes the same snapshot
\* over, although its statements are not in one transaction.
THEOREM ReadsConsistentCorrect ==
  "incremental-index" \notin Events => (ReadersSpec => []ReadsConsistent)
<1> SUFFICES ASSUME "incremental-index" \notin Events PROVE ReadersSpec => []ReadsConsistent
  OBVIOUS
<1>1. ReadersInit => TypeOK /\ FileInv /\ ReadersIInv /\ WholeParts
  BY ReadersInitInv DEF WholeParts
<1>2. TypeOK /\ FileInv /\ ReadersIInv /\ WholeParts /\ [ReadersNext]_allVars
        => (TypeOK /\ FileInv /\ ReadersIInv /\ WholeParts)'
  BY ReadersIInvStep, WholePartsStep
<1>3. ReadersIInv /\ WholeParts => ReadsConsistent
  BY DEF ReadersIInv, WholeParts, ReadsConsistent
<1> QED BY <1>1, <1>2, <1>3, PTL DEF ReadersSpec

-----------------------------------------------------------------------------
(* Induction over the naturals, on sets instead of predicates.             *)

Less == {p \in Nat \X Nat : p[1] < p[2]}

LEMMA LessWellFounded == IsWellFoundedOn(Less, Nat)
BY NatLessThanWellFounded, Zenon DEF OpToRel, Less

LEMMA LeastElement ==
  ASSUME NEW T, T \subseteq Nat, T # {}
  PROVE  \E x \in T : \A y \in T : x <= y
<1>1. PICK x \in T : \A y \in T : ~(<<y, x>> \in Less)
  BY LessWellFounded, WFMin
<1>2. ASSUME NEW y \in T PROVE x <= y
  <2>1. ~(<<y, x>> \in Less) /\ y \in Nat /\ x \in Nat
    BY <1>1
  <2> QED BY <2>1 DEF Less
<1> QED BY <1>2

LEMMA Induction ==
  ASSUME NEW S, 0 \in S, \A n \in Nat : n \in S => n + 1 \in S
  PROVE  Nat \subseteq S
<1> SUFFICES ASSUME ~(Nat \subseteq S) PROVE FALSE
  OBVIOUS
<1> DEFINE T == Nat \ S
<1>1. PICK x \in T : \A y \in T : x <= y
  <2>1. T \subseteq Nat /\ T # {}
    OBVIOUS
  <2> HIDE DEF T
  <2> QED BY <2>1, LeastElement
<1>2. x \in Nat /\ x # 0
  OBVIOUS
<1>3. x - 1 \in Nat /\ x - 1 \notin T
  BY <1>1, <1>2
<1>4. (x - 1) + 1 \in S /\ (x - 1) + 1 = x
  BY <1>2, <1>3
<1> QED BY <1>4

\* A function on a set can be iterated from any member of it.
Iterates(g, y, n) == {h \in [0..n -> DOMAIN g] : h[0] = y /\ \A k \in 1..n : h[k] = g[h[k-1]]}

LEMMA IteratesAgree ==
  ASSUME NEW g, NEW y, NEW n \in Nat, NEW m \in Nat,
         NEW h \in Iterates(g, y, n), NEW i \in Iterates(g, y, m)
  PROVE  \A k \in Nat : k <= n /\ k <= m => h[k] = i[k]
<1> DEFINE S == {k \in Nat : k <= n /\ k <= m => h[k] = i[k]}
<1>1. 0 \in S
  BY DEF Iterates
<1>2. ASSUME NEW k \in Nat, k \in S PROVE k + 1 \in S
  <2> SUFFICES ASSUME k + 1 <= n, k + 1 <= m PROVE h[k+1] = i[k+1]
    OBVIOUS
  <2>1. k + 1 \in 1..n /\ k + 1 \in 1..m /\ (k + 1) - 1 = k
    OBVIOUS
  <2>2. h[k+1] = g[h[k]] /\ i[k+1] = g[i[k]]
    BY <2>1 DEF Iterates
  <2>3. h[k] = i[k]
    BY <1>2
  <2> QED BY <2>2, <2>3
<1> HIDE DEF S
<1>3. Nat \subseteq S
  BY <1>1, <1>2, Induction
<1> QED BY <1>3 DEF S

LEMMA IteratesExist ==
  ASSUME NEW Y, NEW g \in [Y -> Y], NEW y \in Y
  PROVE  \A n \in Nat : Iterates(g, y, n) # {}
<1> DEFINE S == {n \in Nat : Iterates(g, y, n) # {}}
<1>1. 0 \in S
  <2>1. [k \in 0..0 |-> y] \in Iterates(g, y, 0)
    BY DEF Iterates
  <2> QED BY <2>1
<1>2. ASSUME NEW n \in Nat, n \in S PROVE n + 1 \in S
  <2>1. PICK h : h \in Iterates(g, y, n)
    BY <1>2
  <2> DEFINE i == [k \in 0..(n+1) |-> IF k = n + 1 THEN g[h[n]] ELSE h[k]]
  <2>2. h \in [0..n -> Y] /\ h[0] = y /\ \A k \in 1..n : h[k] = g[h[k-1]]
    BY <2>1 DEF Iterates
  <2>3. i \in [0..(n+1) -> Y] /\ i[0] = y
    BY <2>2
  <2>4. ASSUME NEW k \in 1..(n+1) PROVE i[k] = g[i[k-1]]
    <3>1. CASE k = n + 1
      <4>1. k - 1 = n /\ n \in 0..(n+1) /\ n # n + 1 /\ k \in 0..(n+1)
        BY <3>1
      <4> QED BY <3>1, <4>1
    <3>2. CASE k # n + 1
      <4>1. k \in 1..n /\ k - 1 \in 0..(n+1) /\ k - 1 # n + 1 /\ k \in 0..(n+1)
        BY <3>2
      <4> QED BY <2>2, <3>2, <4>1
    <3> QED BY <3>1, <3>2
  <2> HIDE DEF i
  <2>5. i \in Iterates(g, y, n + 1)
    BY <2>3, <2>4 DEF Iterates
  <2> QED BY <2>5
<1> HIDE DEF S
<1>3. Nat \subseteq S
  BY <1>1, <1>2, Induction
<1> QED BY <1>3 DEF S

Iteration(f, Y, g, y) == f \in [Nat -> Y] /\ f[0] = y /\ \A n \in Nat : f[n+1] = g[f[n]]

LEMMA IterationExists ==
  ASSUME NEW Y, NEW g, g \in [Y -> Y], NEW y, y \in Y
  PROVE  \E f : Iteration(f, Y, g, y)
<1> DEFINE H(n) == CHOOSE h : h \in Iterates(g, y, n)
           f == [n \in Nat |-> H(n)[n]]
<1>1. ASSUME NEW n \in Nat PROVE H(n) \in Iterates(g, y, n)
  BY IteratesExist
<1> HIDE DEF H
<1>2. f \in [Nat -> Y] /\ f[0] = y
  <2>1. ASSUME NEW n \in Nat PROVE H(n)[n] \in Y /\ H(n)[0] = y
    BY <1>1 DEF Iterates
  <2> QED BY <2>1
<1>3. ASSUME NEW n \in Nat PROVE f[n+1] = g[f[n]]
  <2>1. H(n) \in Iterates(g, y, n) /\ H(n+1) \in Iterates(g, y, n+1)
    BY <1>1
  <2>2. H(n)[n] = H(n+1)[n]
    BY <2>1, IteratesAgree
  <2>3. n + 1 \in 1..(n+1) /\ (n + 1) - 1 = n
    OBVIOUS
  <2>4. H(n+1)[n+1] = g[H(n+1)[n]]
    BY <2>1, <2>3 DEF Iterates
  <2> QED BY <2>2, <2>4
<1> HIDE DEF f
<1> QED BY <1>2, <1>3 DEF Iteration

-----------------------------------------------------------------------------
(* IndexReaders: what is within a distance of the root.                    *)

GraphNodes == Files \cup Packages

LEMMA EdgesLinkNodes ==
  ASSUME NEW c \in Commits, NEW D
  PROVE  \A e \in Dependencies(D, c) : e \in Files \X GraphNodes
<1> SUFFICES ASSUME NEW e \in Dependencies(D, c) PROVE e \in Files \X GraphNodes
  OBVIOUS
<1>1. PICK f \in D \cap SourceFiles(c) : e \in {f} \X Imports[Tree[c][f]]
  BY DEF Dependencies
<1>2. f \in Files /\ Tree[c][f] \in Contents
  BY <1>1, TreeAssumption DEF SourceFiles
<1>3. Imports[Tree[c][f]] \subseteq GraphNodes
  BY <1>2, ReadersAssumption DEF GraphNodes
<1> QED BY <1>1, <1>2, <1>3

LEMMA WholeEdges ==
  ASSUME NEW c \in Commits, NEW D, SourceFiles(c) \subseteq D
  PROVE  Dependencies(D, c) = Dependencies(SourceFiles(c), c)
<1>1. Dependencies(D, c) \subseteq Dependencies(SourceFiles(c), c)
  BY DependenciesPart
<1>2. Dependencies(SourceFiles(c), c) \subseteq Dependencies(D, c)
  <2>1. SourceFiles(c) \cap SourceFiles(c) \subseteq D
    OBVIOUS
  <2> QED BY <2>1, DependenciesPart
<1> QED BY <1>1, <1>2

\* The recursive function is what it is meant to be.
LEMMA BallIs ==
  ASSUME NEW E \in SUBSET (Files \X GraphNodes), NEW root \in Files
  PROVE  /\ Ball(E, root, 0) = {root}
         /\ \A n \in Nat : Ball(E, root, n+1) = Neighbourhood(E, Ball(E, root, n))
<1> DEFINE Y == SUBSET GraphNodes
           g == [B \in Y |-> Neighbourhood(E, B)]
           ball == CHOOSE b : b = [k \in Nat |-> IF k = 0 THEN {root} ELSE Neighbourhood(E, b[k-1])]
<1>1. {root} \in Y
  BY DEF GraphNodes
<1>2. g \in [Y -> Y]
  <2>1. \A e \in E : e[1] \in GraphNodes /\ e[2] \in GraphNodes
    BY DEF GraphNodes
  <2>2. ASSUME NEW B \in Y PROVE Neighbourhood(E, B) \in Y
    BY <2>1 DEF Neighbourhood
  <2> QED BY <2>2
<1>3. PICK f : Iteration(f, Y, g, {root})
  <2> HIDE DEF Y, g
  <2> QED BY <1>1, <1>2, IterationExists
<1>4. f \in [Nat -> Y] /\ f[0] = {root} /\ \A n \in Nat : f[n+1] = g[f[n]]
  <2> HIDE DEF Y, g
  <2> QED BY <1>3 DEF Iteration
<1>5. f = [k \in Nat |-> IF k = 0 THEN {root} ELSE Neighbourhood(E, f[k-1])]
  <2>1. ASSUME NEW k \in Nat
        PROVE  f[k] = IF k = 0 THEN {root} ELSE Neighbourhood(E, f[k-1])
    <3>1. CASE k = 0
      BY <3>1, <1>4
    <3>2. CASE k # 0
      <4>1. k - 1 \in Nat /\ (k - 1) + 1 = k
        BY <3>2
      <4>2. f[k] = g[f[k-1]] /\ f[k-1] \in Y
        BY <4>1, <1>4
      <4>3. g[f[k-1]] = Neighbourhood(E, f[k-1])
        BY <4>2
      <4> QED BY <3>2, <4>2, <4>3
    <3> QED BY <3>1, <3>2
  <2> QED BY <1>4, <2>1
<1>6. ball = [k \in Nat |-> IF k = 0 THEN {root} ELSE Neighbourhood(E, ball[k-1])]
  BY <1>5
<1>7. \A n : Ball(E, root, n) = ball[n]
  BY DEF Ball
<1> HIDE DEF ball, g, Y
<1>8. ball[0] = {root}
  BY <1>6
<1>9. ASSUME NEW n \in Nat PROVE ball[n+1] = Neighbourhood(E, ball[n])
  <2> DEFINE m == n + 1
  <2>1. m \in Nat /\ m # 0 /\ m - 1 = n
    OBVIOUS
  <2> HIDE DEF m
  <2>2. ball[m] = Neighbourhood(E, ball[n])
    BY <1>6, <2>1
  <2> QED BY <2>2 DEF m
<1> QED BY <1>7, <1>8, <1>9

LEMMA CommitEdgesLink ==
  ASSUME NEW s \in Snaps
  PROVE  Dependencies(SourceFiles(CommitOf(s)), CommitOf(s)) \in SUBSET (Files \X GraphNodes)
BY SnapFacts, EdgesLinkNodes

LEMMA WithinIs ==
  ASSUME rd.q \in Requests, rd.snap \in Snaps
  PROVE  \A n \in Nat : Within(n+1) = Neighbourhood(CommitEdges, Within(n))
<1>1. rd.q.path \in Files /\ CommitEdges \in SUBSET (Files \X GraphNodes)
  BY QueryFacts, CommitEdgesLink DEF CommitEdges
<1> QED BY <1>1, BallIs DEF Within

\* The next level is found from the nodes that are new at this one, since what the
\* others lead to is here already.
LEMMA NextLevel ==
  ASSUME rd.q \in Requests, rd.snap \in Snaps, NEW n \in Nat, NEW fr,
         fr = {x \in Within(n) \cap Files : n > 0 => x \notin Within(n-1)}
  PROVE  Within(n+1) = Within(n) \cup {e[2] : e \in {d \in CommitEdges : d[1] \in fr}}
                                 \cup {e[1] : e \in {d \in CommitEdges : d[2] \in fr}}
<1> DEFINE E == CommitEdges
           W == Within(n)
           V == W \cup {e[2] : e \in {d \in E : d[1] \in fr}} \cup {e[1] : e \in {d \in E : d[2] \in fr}}
<1>1. Within(n+1) = Neighbourhood(E, W)
  BY WithinIs
<1>2. \A e \in E : e[1] \in Files
  <2>1. CommitOf(rd.snap) \in Commits
    BY SnapFacts
  <2>2. \A e \in E : e \in Files \X GraphNodes
    BY <2>1, EdgesLinkNodes DEF CommitEdges
  <2> QED BY <2>2
<1>3. n > 0 => W = Neighbourhood(E, Within(n-1))
  <2> SUFFICES ASSUME n > 0 PROVE W = Neighbourhood(E, Within(n-1))
    OBVIOUS
  <2> DEFINE m == n - 1
  <2>1. m \in Nat /\ m + 1 = n
    OBVIOUS
  <2> HIDE DEF m
  <2>2. Within(m + 1) = Neighbourhood(E, Within(m))
    BY <2>1, WithinIs
  <2> QED BY <2>1, <2>2 DEF m
<1>4. fr \subseteq W /\ fr \subseteq Files
  OBVIOUS
<1>5. ASSUME NEW x \in W \cap Files, x \notin fr PROVE n > 0 /\ x \in Within(n-1)
  BY <1>5
<1> HIDE DEF E, W
<1>6. V \subseteq Neighbourhood(E, W)
  BY <1>4 DEF Neighbourhood
<1>7. ASSUME NEW e \in E, e[1] \in W PROVE e[2] \in V
  <2>1. CASE e[1] \in fr
    BY <2>1
  <2>2. CASE e[1] \notin fr
    <3>1. n > 0 /\ e[1] \in Within(n-1)
      BY <1>2, <1>5, <1>7, <2>2
    <3>2. e[2] \in W
      BY <1>3, <3>1 DEF Neighbourhood
    <3> QED BY <3>2
  <2> QED BY <2>1, <2>2
<1>8. ASSUME NEW e \in E, e[2] \in W \cap Files PROVE e[1] \in V
  <2>1. CASE e[2] \in fr
    BY <2>1
  <2>2. CASE e[2] \notin fr
    <3>1. n > 0 /\ e[2] \in Within(n-1)
      BY <1>5, <1>8, <2>2
    <3>2. e[1] \in W
      BY <1>3, <1>8, <3>1 DEF Neighbourhood
    <3> QED BY <3>2
  <2> QED BY <2>1, <2>2
<1>9. W \subseteq V
  OBVIOUS
<1> HIDE DEF V
<1>10. Neighbourhood(E, W) \subseteq V
  BY <1>7, <1>8, <1>9 DEF Neighbourhood
<1>11. Within(n+1) = V
  BY <1>1, <1>6, <1>10
<1> QED BY <1>11 DEF V, W, E

\* Where nothing is new, nothing will be.
LEMMA WithinStays ==
  ASSUME rd.q \in Requests, rd.snap \in Snaps, NEW n \in Nat, Within(n+1) = Within(n)
  PROVE  \A m \in Nat : n <= m => Within(m) = Within(n)
<1> DEFINE S == {k \in Nat : Within(n+k) = Within(n)}
<1>1. 0 \in S
  OBVIOUS
<1>2. ASSUME NEW k \in Nat, k \in S PROVE k + 1 \in S
  <2>1. Within((n+k) + 1) = Neighbourhood(CommitEdges, Within(n+k))
    BY WithinIs
  <2>2. Within(n+1) = Neighbourhood(CommitEdges, Within(n))
    BY WithinIs
  <2>3. Within((n+k) + 1) = Within(n)
    BY <1>2, <2>1, <2>2
  <2>4. (n + k) + 1 = n + (k + 1)
    OBVIOUS
  <2> QED BY <2>3, <2>4
<1> HIDE DEF S
<1>3. Nat \subseteq S
  BY <1>1, <1>2, Induction
<1>4. ASSUME NEW m \in Nat, n <= m PROVE Within(m) = Within(n)
  <2> DEFINE k == m - n
  <2>1. k \in Nat /\ n + k = m
    BY <1>4
  <2> HIDE DEF k
  <2>2. Within(n + k) = Within(n)
    BY <1>3, <2>1 DEF S
  <2> QED BY <2>1, <2>2
<1> QED BY <1>4

\* Distances are of a root and a commit.
LEMMA WithinFrame ==
  ASSUME rd'.q = rd.q, rd'.snap = rd.snap
  PROVE  CommitEdges' = CommitEdges /\ \A n : Within(n)' = Within(n) /\ AtDistance(n)' = AtDistance(n)
BY DEF CommitEdges, Within, AtDistance, Ball

-----------------------------------------------------------------------------
(* IndexReaders: the steps of the traversal.                               *)

\* What GraphReverse finds, and what it does with it.
Rev == ListDependenciesToFiles(deps[rd.snap], CommitOf(rd.snap), rd.frontier)
Targets == {e[2] : e \in rd.fwd} \ Nodes
Sources(T) == {e[1] : e \in Rev} \ (Nodes \cup T)
Full(T, S) == T # Targets \/ S # Sources(T)
Reversed(T, S) ==
  /\ rd'.visited = rd.visited \cup ((T \cup S) \X {rd.level + 1})
  /\ rd'.frontier = IF Full(T, S) THEN {} ELSE (T \cap Files) \cup S
  /\ rd'.edges = KeptEdges(rd.edges \cup rd.fwd \cup Rev, Nodes \cup (T \cup S), Full(T, S))
  /\ rd'.level = rd.level + 1
  /\ rd'.truncated = Full(T, S)
  /\ rd'.at = IF Full(T, S) THEN "done" ELSE "forward"

LEMMA ReverseIs ==
  ASSUME ReadProgress, GraphReverse
  PROVE  /\ rd.at = "reverse" /\ rd'.q = rd.q /\ rd'.snap = rd.snap
         /\ UNCHANGED <<vars, rewritten, lost>>
         /\ \E T \in Admitted(Targets, MaxGraphNodes - Cardinality(Nodes)) :
              \E S \in Admitted(Sources(T), MaxGraphNodes - Cardinality(Nodes \cup T)) : Reversed(T, S)
<1>1. DOMAIN rd = {"at", "q", "snap", "got", "visited", "frontier", "level", "edges", "fwd", "truncated"}
  BY RdFields DEF ReadProgress
<1>2. rd.at = "reverse" /\ rd'.q = rd.q /\ rd'.snap = rd.snap /\ UNCHANGED <<vars, rewritten, lost>>
  BY GraphIs DEF GraphReverse
<1>3. PICK T \in Admitted(Targets, MaxGraphNodes - Cardinality(Nodes)) :
        \E S \in Admitted(Sources(T), MaxGraphNodes - Cardinality(Nodes \cup T)) :
          rd' = AfterLevel(T \cup S, Rev, (T \cap Files) \cup S, Full(T, S))
  BY DEF GraphReverse, Continue, Reading, Rev, Targets, Sources, Full
<1>4. PICK S \in Admitted(Sources(T), MaxGraphNodes - Cardinality(Nodes \cup T)) :
        rd' = AfterLevel(T \cup S, Rev, (T \cap Files) \cup S, Full(T, S))
  BY <1>3
<1>5. Reversed(T, S)
  <2> DEFINE v == rd.visited \cup ((T \cup S) \X {rd.level + 1})
             f == IF Full(T, S) THEN {} ELSE (T \cap Files) \cup S
             k == KeptEdges(rd.edges \cup rd.fwd \cup Rev, Nodes \cup (T \cup S), Full(T, S))
             l == rd.level + 1
             full == Full(T, S)
             at == IF full THEN "done" ELSE "forward"
  <2>1. rd' = [rd EXCEPT !.visited = v, !.frontier = f, !.edges = k, !.fwd = {}, !.level = l,
                         !.truncated = full, !.at = at]
    BY <1>4 DEF AfterLevel
  <2> HIDE DEF v, f, k, l, full, at
  <2>2. /\ rd'.visited = v /\ rd'.frontier = f /\ rd'.edges = k /\ rd'.level = l
        /\ rd'.truncated = full /\ rd'.at = at
    BY <1>1, <2>1
  <2> QED BY <2>2 DEF v, f, k, l, full, at, Reversed
<1> QED BY <1>2, <1>5

LEMMA ForwardIs ==
  ASSUME ReadProgress, GraphForward
  PROVE  /\ rd.at = "forward" /\ UNCHANGED <<vars, rewritten, lost>>
         /\ rd'.q = rd.q /\ rd'.snap = rd.snap
         /\ rd'.visited = rd.visited /\ rd'.edges = rd.edges /\ rd'.level = rd.level
         /\ \/ /\ rd.level = Depth(rd.q.depth) \/ rd.frontier = {}
               /\ rd'.at = "done"
            \/ /\ rd.level # Depth(rd.q.depth)
               /\ rd'.at = "reverse" /\ rd'.frontier = rd.frontier
               /\ rd'.fwd = ListDependenciesFromFiles(deps[rd.snap], CommitOf(rd.snap), rd.frontier)
<1>1. DOMAIN rd = {"at", "q", "snap", "got", "visited", "frontier", "level", "edges", "fwd", "truncated"}
  BY RdFields DEF ReadProgress
<1>2. rd.at = "forward" /\ UNCHANGED <<vars, rewritten, lost>>
  BY DEF GraphForward, Continue
<1>3. CASE rd.level = Depth(rd.q.depth) \/ rd.frontier = {}
  <2>1. rd' = [rd EXCEPT !.at = "done", !.frontier = {}]
    BY <1>3 DEF GraphForward, Continue
  <2> QED BY <1>1, <1>2, <1>3, <2>1
<1>4. CASE ~(rd.level = Depth(rd.q.depth) \/ rd.frontier = {})
  <2> DEFINE w == ListDependenciesFromFiles(deps[rd.snap], CommitOf(rd.snap), rd.frontier)
  <2>1. rd' = [rd EXCEPT !.at = "reverse", !.fwd = w]
    BY <1>4 DEF GraphForward, Continue, Reading
  <2> HIDE DEF w
  <2>2. /\ rd'.q = rd.q /\ rd'.snap = rd.snap /\ rd'.visited = rd.visited /\ rd'.edges = rd.edges
        /\ rd'.level = rd.level /\ rd'.at = "reverse" /\ rd'.frontier = rd.frontier /\ rd'.fwd = w
    BY <1>1, <2>1
  <2> QED BY <1>2, <1>4, <2>2 DEF w
<1> QED BY <1>3, <1>4

\* What LookUp starts a traversal with.
LEMMA GraphStarts ==
  ASSUME ReadProgress, LookUp
  PROVE  /\ rd'.edges = rd.edges /\ rd'.level = rd.level
         /\ \/ rd'.at = "done" /\ rd'.snap = rd.snap /\ rd'.visited = rd.visited
            \/ rd.q.op # "graph" /\ rd'.at = "read" /\ rd'.visited = {}
            \/ /\ rd.q.op = "graph" /\ rd'.at = "forward"
               /\ rd'.visited = {<<rd.q.path, 0>>} /\ rd'.frontier = {rd.q.path}
<1>1. DOMAIN rd = {"at", "q", "snap", "got", "visited", "frontier", "level", "edges", "fwd", "truncated"}
  BY RdFields DEF ReadProgress
<1>2. CASE isActive = {}
  <2>1. rd' = [rd EXCEPT !.at = "done"]
    BY <1>2 DEF LookUp, Continue
  <2> QED BY <1>1, <2>1
<1>3. CASE isActive # {}
  <2> DEFINE at == IF rd.q.op = "graph" THEN "forward" ELSE "read"
             s == CHOOSE t \in isActive : TRUE
             v == IF rd.q.op = "graph" THEN {<<rd.q.path, 0>>} ELSE {}
             f == IF rd.q.op = "graph" THEN {rd.q.path} ELSE {}
  <2>1. rd' = [rd EXCEPT !.at = at, !.snap = s, !.visited = v, !.frontier = f]
    BY <1>3 DEF LookUp, Continue
  <2> HIDE DEF at, s, v, f
  <2>2. rd'.at = at /\ rd'.visited = v /\ rd'.frontier = f /\ rd'.edges = rd.edges /\ rd'.level = rd.level
    BY <1>1, <2>1
  <2> QED BY <2>2 DEF at, v, f
<1> QED BY <1>2, <1>3

\* Statements leave the traversal alone.
LEMMA ReadKeepsGraph ==
  ASSUME ReadProgress, Read
  PROVE  /\ rd'.visited = rd.visited /\ rd'.edges = rd.edges
         /\ rd.q.op # "graph" /\ rd'.q = rd.q /\ rd'.snap = rd.snap /\ rd'.at \in {"read", "done"}
<1>1. DOMAIN rd = {"at", "q", "snap", "got", "visited", "frontier", "level", "edges", "fwd", "truncated"}
  BY RdFields DEF ReadProgress
<1>2. rd.q.op # "graph"
  BY DEF Read, ReadProgress, Ops
<1>3. rd'.q = rd.q /\ rd'.snap = rd.snap /\ rd'.at \in {"read", "done"}
  BY ReadIs
<1> DEFINE ends == \/ Len(rd.got) + 1 = Len(Statements(rd.q.op))
                   \/ NextStatement = "fileID" /\ NextResult = {}
           at == IF ends THEN "done" ELSE "read"
           g == Append(rd.got, NextResult)
<1>4. rd' = [rd EXCEPT !.got = g, !.at = at]
  BY DEF Read, Continue, Reading, NextStatement, ReadRows, NextResult
<1> HIDE DEF at, g
<1> QED BY <1>1, <1>2, <1>3, <1>4

\* No more is admitted than there is room for.
LEMMA AdmittedFits ==
  ASSUME NEW new, IsFiniteSet(new), NEW room \in Nat, NEW T \in Admitted(new, room)
  PROVE  T \subseteq new /\ IsFiniteSet(T) /\ Cardinality(T) \in Nat /\ Cardinality(T) <= room
<1>1. Cardinality(new) \in Nat
  BY FS_CardinalityType
<1>2. Min({Cardinality(new), room}) <= room
  <2> DEFINE M == {Cardinality(new), room}
  <2>1. \E x \in M : \A y \in M : x <= y
    BY <1>1
  <2>2. \A y \in M : Min(M) <= y
    BY <2>1 DEF Min
  <2> QED BY <2>2
<1>3. T \subseteq new /\ Cardinality(T) = Min({Cardinality(new), room})
  BY DEF Admitted, kSubset
<1>4. IsFiniteSet(T) /\ Cardinality(T) \in Nat
  BY <1>3, SmallerCount
<1> QED BY <1>2, <1>3, <1>4

\* Nodes that are added to others.
LEMMA NodesAdded ==
  ASSUME NEW B, NEW N, IsFiniteSet(B), IsFiniteSet(N), B \cap N = {}
  PROVE  Cardinality(B \cup N) = Cardinality(B) + Cardinality(N)
<1>1. /\ Cardinality(B \cup N) = Cardinality(B) + Cardinality(N) - Cardinality(B \cap N)
  BY FS_Union
<1>2. Cardinality(B \cap N) = 0
  BY FS_EmptySet
<1>3. Cardinality(B) \in Nat /\ Cardinality(N) \in Nat
  BY FS_CardinalityType
<1> QED BY <1>1, <1>2, <1>3

\* The node limit, over the two halves of a level.
LEMMA LevelFits ==
  ASSUME NEW B, NEW targets, NEW sources, IsFiniteSet(B), IsFiniteSet(targets), IsFiniteSet(sources),
         B \cap targets = {}, Cardinality(B) <= MaxGraphNodes,
         NEW T, T \in Admitted(targets, MaxGraphNodes - Cardinality(B)),
         NEW S, S \in Admitted(sources, MaxGraphNodes - Cardinality(B \cup T)),
         (B \cup T) \cap sources = {}
  PROVE  T \subseteq targets /\ S \subseteq sources /\ Cardinality(B \cup (T \cup S)) <= MaxGraphNodes
<1>1. MaxGraphNodes \in Nat /\ Cardinality(B) \in Nat
  BY ReadersAssumption, FS_CardinalityType
<1>2. MaxGraphNodes - Cardinality(B) \in Nat
  BY <1>1
<1>3. T \subseteq targets /\ IsFiniteSet(T) /\ Cardinality(T) \in Nat /\ Cardinality(T) <= MaxGraphNodes - Cardinality(B)
  BY <1>2, AdmittedFits
<1>4. IsFiniteSet(B \cup T) /\ Cardinality(B \cup T) = Cardinality(B) + Cardinality(T)
  <2>1. B \cap T = {}
    BY <1>3
  <2> QED BY <1>3, <2>1, NodesAdded, FS_Union
<1>5. MaxGraphNodes - Cardinality(B \cup T) \in Nat
  BY <1>1, <1>3, <1>4
<1>6. S \subseteq sources /\ IsFiniteSet(S) /\ Cardinality(S) \in Nat /\ Cardinality(S) <= MaxGraphNodes - Cardinality(B \cup T)
  BY <1>5, AdmittedFits
<1>7. Cardinality((B \cup T) \cup S) = Cardinality(B \cup T) + Cardinality(S)
  <2>1. (B \cup T) \cap S = {}
    BY <1>6
  <2> QED BY <1>4, <1>6, <2>1, NodesAdded
<1>8. (B \cup T) \cup S = B \cup (T \cup S)
  OBVIOUS
<1>9. Cardinality((B \cup T) \cup S) <= MaxGraphNodes
  BY <1>1, <1>3, <1>4, <1>6, <1>7
<1> QED BY <1>3, <1>6, <1>8, <1>9

\* What GraphReverse makes of the nodes.
LEMMA ReverseNodes ==
  ASSUME ReadProgress, GraphProgress, rd.at = "reverse",
         NEW T, NEW S, T \in Admitted(Targets, MaxGraphNodes - Cardinality(Nodes)),
         S \in Admitted(Sources(T), MaxGraphNodes - Cardinality(Nodes \cup T)),
         rd'.visited = rd.visited \cup ((T \cup S) \X {rd.level + 1})
  PROVE  /\ T \subseteq Targets /\ S \subseteq Sources(T)
         /\ Targets \subseteq GraphNodes /\ Sources(T) \subseteq Files
         /\ Nodes' = Nodes \cup (T \cup S)
         /\ Cardinality(Nodes \cup (T \cup S)) <= MaxGraphNodes
<1>1. /\ rd.q.op = "graph" /\ rd.visited \subseteq GraphNodes \X Nat /\ Cardinality(Nodes) <= MaxGraphNodes
      /\ \A e \in rd.fwd : e[2] \in GraphNodes
      /\ rd.snap \in Snaps
  BY DEF GraphProgress, GraphNodes, ReadProgress
<1>2. IsFiniteSet(GraphNodes) /\ IsFiniteSet(Files)
  BY ReadersAssumption, FS_Union DEF GraphNodes
<1>3. Nodes \subseteq GraphNodes
  BY <1>1 DEF Nodes
<1>4. Targets \subseteq GraphNodes
  BY <1>1 DEF Targets
<1>5. Sources(T) \subseteq Files
  <2>1. CommitOf(rd.snap) \in Commits
    BY <1>1, SnapFacts
  <2>2. \A e \in Rev : e \in Files \X GraphNodes
    BY <2>1, EdgesLinkNodes DEF Rev, ListDependenciesToFiles
  <2> QED BY <2>2 DEF Sources
<1>6. IsFiniteSet(Nodes) /\ IsFiniteSet(Targets) /\ IsFiniteSet(Sources(T))
  BY <1>2, <1>3, <1>4, <1>5, SmallerCount
<1>7. Nodes \cap Targets = {} /\ (Nodes \cup T) \cap Sources(T) = {}
  BY DEF Targets, Sources
<1>8. T \subseteq Targets /\ S \subseteq Sources(T) /\ Cardinality(Nodes \cup (T \cup S)) <= MaxGraphNodes
  BY <1>1, <1>6, <1>7, LevelFits
<1>9. Nodes' = Nodes \cup (T \cup S)
  <2> DEFINE N == T \cup S
             l == rd.level + 1
  <2>1. Nodes' = {n[1] : n \in rd.visited \cup (N \X {l})}
    BY DEF Nodes
  <2>2. {n[1] : n \in rd.visited \cup (N \X {l})} = {n[1] : n \in rd.visited} \cup {n[1] : n \in N \X {l}}
    BY Zenon
  <2> HIDE DEF N, l
  <2>3. {n[1] : n \in N \X {l}} = N
    <3>1. ASSUME NEW x \in N PROVE x \in {n[1] : n \in N \X {l}}
      <4>1. <<x, l>> \in N \X {l} /\ <<x, l>>[1] = x
        OBVIOUS
      <4> QED BY <4>1
    <3> QED BY <3>1
  <2> QED BY <2>1, <2>2, <2>3 DEF Nodes, N
<1> QED BY <1>4, <1>5, <1>8, <1>9

\* The edges of a level lead from node to node.
LEMMA ReverseEdges ==
  ASSUME ReadProgress, GraphProgress, rd.at = "reverse", NEW T, NEW S,
         rd'.edges = KeptEdges(rd.edges \cup rd.fwd \cup Rev, Nodes \cup (T \cup S), Full(T, S))
  PROVE  \A e \in rd'.edges : e[1] \in Nodes \cup (T \cup S) /\ e[2] \in Nodes \cup (T \cup S)
<1> SUFFICES ASSUME NEW e \in rd'.edges
             PROVE  e[1] \in Nodes \cup (T \cup S) /\ e[2] \in Nodes \cup (T \cup S)
  OBVIOUS
<1>1. /\ \A d \in rd.edges : d[1] \in Nodes /\ d[2] \in Nodes
      /\ rd.frontier \subseteq Nodes
      /\ \A d \in rd.fwd : d[1] \in rd.frontier
  BY DEF GraphProgress
<1>2. CASE Full(T, S)
  BY <1>2 DEF KeptEdges
<1>3. CASE ~Full(T, S)
  <2>1. T = Targets /\ S = Sources(T)
    BY <1>3 DEF Full
  <2>2. e \in rd.edges \/ e \in rd.fwd \/ e \in Rev
    BY <1>3 DEF KeptEdges
  <2>3. CASE e \in rd.fwd
    BY <1>1, <2>1, <2>3 DEF Targets
  <2>4. CASE e \in Rev
    <3>1. e[2] \in rd.frontier
      BY <2>4 DEF Rev, ListDependenciesToFiles
    <3>2. e[1] \in {d[1] : d \in Rev}
      BY <2>4
    <3> QED BY <1>1, <2>1, <3>1, <3>2 DEF Sources
  <2> QED BY <1>1, <2>2, <2>3, <2>4
<1> QED BY <1>2, <1>3

LEMMA ProgressReverse ==
  ASSUME ReadProgress, GraphProgress, GraphReverse
  PROVE  GraphProgress'
<1>1. rd.at = "reverse" /\ rd'.q = rd.q /\ rd'.snap = rd.snap
  BY ReverseIs
<1>a. PICK T \in Admitted(Targets, MaxGraphNodes - Cardinality(Nodes)) :
        \E S \in Admitted(Sources(T), MaxGraphNodes - Cardinality(Nodes \cup T)) : Reversed(T, S)
  BY ReverseIs
<1>2. PICK S \in Admitted(Sources(T), MaxGraphNodes - Cardinality(Nodes \cup T)) : Reversed(T, S)
  BY <1>a
<1> DEFINE N == T \cup S
<1>3. /\ rd'.visited = rd.visited \cup (N \X {rd.level + 1})
      /\ rd'.at = IF Full(T, S) THEN "done" ELSE "forward"
      /\ rd'.level = rd.level + 1
      /\ rd'.frontier = IF Full(T, S) THEN {} ELSE (T \cap Files) \cup S
  BY <1>2 DEF Reversed
<1>4. /\ T \subseteq Targets /\ S \subseteq Sources(T) /\ Targets \subseteq GraphNodes /\ Sources(T) \subseteq Files
      /\ Nodes' = Nodes \cup N /\ Cardinality(Nodes \cup N) <= MaxGraphNodes
  BY <1>1, <1>2, <1>3, ReverseNodes
<1>5. /\ rd.visited \subseteq GraphNodes \X Nat /\ rd.level \in Nat /\ rd.q.op = "graph"
      /\ \A m, n \in rd.visited : m[1] = n[1] => m = n
      /\ rd.snap # NoSnap
  BY <1>1 DEF GraphProgress, GraphNodes, ReadProgress
<1>6. N \subseteq GraphNodes /\ N \cap Nodes = {}
  BY <1>4 DEF Targets, Sources, GraphNodes
<1>7. \A e \in rd'.edges : e[1] \in Nodes \cup N /\ e[2] \in Nodes \cup N
  BY <1>1, <1>2, ReverseEdges DEF Reversed
<1> HIDE DEF N
<1>8. rd'.visited \subseteq GraphNodes \X Nat
  BY <1>3, <1>5, <1>6
<1>9. ASSUME NEW m \in rd'.visited, NEW n \in rd'.visited, m[1] = n[1] PROVE m = n
  <2>1. ASSUME NEW x \in rd.visited PROVE x[1] \in Nodes
    BY DEF Nodes
  <2>2. ASSUME NEW x \in N \X {rd.level + 1} PROVE x[1] \in N /\ x = <<x[1], rd.level + 1>>
    OBVIOUS
  <2>3. CASE m \in rd.visited /\ n \in rd.visited
    BY <1>5, <1>9, <2>3
  <2>4. CASE m \in N \X {rd.level + 1} /\ n \in N \X {rd.level + 1}
    BY <1>9, <2>2, <2>4
  <2>5. CASE m \in rd.visited /\ n \in N \X {rd.level + 1}
    BY <1>6, <1>9, <2>1, <2>2, <2>5
  <2>6. CASE n \in rd.visited /\ m \in N \X {rd.level + 1}
    BY <1>6, <1>9, <2>1, <2>2, <2>6
  <2> QED BY <1>3, <2>3, <2>4, <2>5, <2>6
<1>10. rd'.at = "forward" => rd'.level \in Nat /\ rd'.frontier \subseteq Nodes' \cap Files
  <2> SUFFICES ASSUME rd'.at = "forward" PROVE rd'.level \in Nat /\ rd'.frontier \subseteq Nodes' \cap Files
    OBVIOUS
  <2>1. rd'.frontier = (T \cap Files) \cup S
    BY <1>3
  <2> QED BY <1>3, <1>4, <1>5, <2>1 DEF N
<1>11. rd'.at \in {"done", "forward"}
  BY <1>3
<1> QED BY <1>1, <1>4, <1>5, <1>7, <1>8, <1>9, <1>10, <1>11 DEF GraphProgress, GraphNodes

\* The rest of a request, and builds beside it.
LEMMA ProgressStep ==
  ASSUME TypeOK, ReadProgress, GraphProgress,
         \/ UNCHANGED rd
         \/ (\E q \in Requests : Ask(q)) \/ LookUp \/ Read \/ GraphForward \/ GraphReverse
  PROVE  GraphProgress'
<1>1. CASE UNCHANGED rd
  <2>1. Nodes' = Nodes
    BY <1>1 DEF Nodes
  <2> QED BY <1>1, <2>1 DEF GraphProgress
<1>2. ASSUME NEW q \in Requests, Ask(q) PROVE GraphProgress'
  <2>1. rd'.at = "lookup" /\ rd'.visited = {} /\ rd'.edges = {} /\ rd'.level = 0
    BY <1>2 DEF Ask, NoRead
  <2>2. Nodes' = {}
    BY <2>1 DEF Nodes
  <2>3. Cardinality({}) = 0 /\ MaxGraphNodes \in Nat
    BY FS_EmptySet, ReadersAssumption
  <2> QED BY <2>1, <2>2, <2>3 DEF GraphProgress
<1>3. CASE LookUp
  <2>1. /\ rd.at = "lookup" /\ rd'.q = rd.q /\ rd.q \in Requests /\ rd.snap = NoSnap
        /\ rd.visited = {} /\ rd.edges = {} /\ rd.level = 0
    BY <1>3, LookUpIs DEF GraphProgress, ReadProgress
  <2>2. rd'.edges = {} /\ rd'.level = 0
    BY <1>3, <2>1, GraphStarts
  <2>3. Cardinality({}) = 0 /\ MaxGraphNodes \in Nat /\ MaxGraphNodes >= 1
    BY FS_EmptySet, ReadersAssumption
  <2>4. CASE rd'.visited = {} /\ rd'.at \in {"done", "read"}
    <3>1. Nodes' = {}
      BY <2>4 DEF Nodes
    <3> QED BY <2>2, <2>3, <2>4, <3>1 DEF GraphProgress
  <2>5. CASE /\ rd.q.op = "graph" /\ rd'.at = "forward"
             /\ rd'.visited = {<<rd.q.path, 0>>} /\ rd'.frontier = {rd.q.path}
    <3>1. rd.q.path \in Files
      BY <2>1, QueryFacts
    <3>2. Nodes' = {rd.q.path}
      BY <2>5 DEF Nodes
    <3>3. Cardinality(Nodes') <= MaxGraphNodes
      BY <2>3, <3>2, FS_Singleton
    <3>4. rd'.snap # NoSnap
      <4>1. rd'.snap \in isActive
        BY <1>3, <2>5, LookUpIs
      <4> QED BY <4>1, SnapsAssumption DEF TypeOK
    <3> QED BY <2>1, <2>2, <2>5, <3>1, <3>2, <3>3, <3>4 DEF GraphProgress
  <2> QED BY <1>3, <2>1, <2>4, <2>5, GraphStarts
<1>4. CASE Read
  <2>1. /\ rd'.visited = rd.visited /\ rd'.edges = rd.edges
        /\ rd.q.op # "graph" /\ rd'.q = rd.q /\ rd'.snap = rd.snap /\ rd'.at \in {"read", "done"}
    BY <1>4, ReadKeepsGraph
  <2> QED BY <2>1 DEF GraphProgress
<1>5. CASE GraphForward
  <2>1. /\ rd.at = "forward" /\ rd'.q = rd.q /\ rd'.snap = rd.snap
        /\ rd'.visited = rd.visited /\ rd'.edges = rd.edges /\ rd'.level = rd.level
        /\ \/ rd'.at = "done"
           \/ /\ rd'.at = "reverse" /\ rd'.frontier = rd.frontier
              /\ rd'.fwd = ListDependenciesFromFiles(deps[rd.snap], CommitOf(rd.snap), rd.frontier)
    BY <1>5, ForwardIs
  <2>2. Nodes' = Nodes
    BY <2>1 DEF Nodes
  <2>3. ASSUME rd'.at = "reverse", NEW e \in rd'.fwd PROVE e[1] \in rd'.frontier /\ e[2] \in Files \cup Packages
    <3>1. CommitOf(rd.snap) \in Commits
      BY <2>1, SnapFacts DEF ReadProgress
    <3>2. e \in Dependencies(deps[rd.snap], CommitOf(rd.snap)) /\ e[1] \in rd.frontier
      BY <2>1, <2>3 DEF ListDependenciesFromFiles
    <3>3. e \in Files \X GraphNodes
      BY <3>1, <3>2, EdgesLinkNodes
    <3> QED BY <2>1, <2>3, <3>2, <3>3 DEF GraphNodes
  <2>4. rd'.at \in {"done", "reverse"}
    BY <2>1
  <2> QED BY <2>1, <2>2, <2>3, <2>4 DEF GraphProgress
<1>6. CASE GraphReverse
  BY <1>6, ProgressReverse
<1> QED BY <1>1, <1>2, <1>3, <1>4, <1>5, <1>6

\* As long as no build has taken the snapshot over, its dependency rows are those of
\* the whole commit.
LEMMA WholeRows ==
  ASSUME ReadProgress, StoredWhole, NotRewritten, ~rewritten, rd.at \in {"forward", "reverse"}
  PROVE  /\ rd.q \in Requests /\ rd.snap \in Snaps /\ rd.snap # NoSnap
         /\ \A S : /\ ListDependenciesFromFiles(deps[rd.snap], CommitOf(rd.snap), S)
                        = {e \in CommitEdges : e[1] \in S}
                   /\ ListDependenciesToFiles(deps[rd.snap], CommitOf(rd.snap), S)
                        = {e \in CommitEdges : e[2] \in S}
<1>1. rd.q \in Requests /\ rd.snap \in Snaps /\ rd.snap # NoSnap
  BY DEF ReadProgress
<1>2. CommitOf(rd.snap) \in Commits /\ SourceFiles(CommitOf(rd.snap)) \subseteq deps[rd.snap]
  BY <1>1, SnapFacts DEF StoredWhole, NotRewritten
<1>3. Dependencies(deps[rd.snap], CommitOf(rd.snap)) = CommitEdges
  BY <1>2, WholeEdges DEF CommitEdges
<1> QED BY <1>1, <1>3 DEF ListDependenciesFromFiles, ListDependenciesToFiles

LEMMA DepthIs == ASSUME NEW q \in Requests PROVE Depth(q.depth) \in Nat
<1>1. q.depth \in Nat /\ MaxGraphDepth \in Nat
  BY ReadersAssumption
<1>2. \E x \in {MaxGraphDepth, q.depth} : \A y \in {MaxGraphDepth, q.depth} : x <= y
  BY <1>1
<1> QED BY <1>1, <1>2 DEF Depth, Min

\* A traversal that has come to its depth, or finds nothing new, has everything.
LEMMA ForwardExact ==
  ASSUME ReadProgress, GraphProgress, GraphDistances, StoredWhole, NotRewritten, GraphForward
  PROVE  GraphDistances' /\ GraphExact'
<1>1. /\ rd.at = "forward" /\ UNCHANGED <<vars, rewritten, lost>>
      /\ rd'.q = rd.q /\ rd'.snap = rd.snap
      /\ rd'.visited = rd.visited /\ rd'.edges = rd.edges /\ rd'.level = rd.level
      /\ \/ /\ rd.level = Depth(rd.q.depth) \/ rd.frontier = {}
            /\ rd'.at = "done"
         \/ /\ rd.level # Depth(rd.q.depth)
            /\ rd'.at = "reverse" /\ rd'.frontier = rd.frontier
            /\ rd'.fwd = ListDependenciesFromFiles(deps[rd.snap], CommitOf(rd.snap), rd.frontier)
  BY ForwardIs
<1>2. Nodes' = Nodes
  BY <1>1 DEF Nodes
<1>3. CommitEdges' = CommitEdges /\ \A n : Within(n)' = Within(n) /\ AtDistance(n)' = AtDistance(n)
  BY <1>1, WithinFrame
<1>4. CASE rewritten
  BY <1>1, <1>4 DEF GraphDistances, GraphExact
<1>5. CASE ~rewritten
  <2>1. /\ rd.level <= Depth(rd.q.depth) /\ Nodes = Within(rd.level)
        /\ rd.frontier = {x \in Within(rd.level) \cap Files : rd.level > 0 => x \notin Within(rd.level - 1)}
        /\ \A n \in rd.visited : AtDistance(n)
    BY <1>1, <1>5 DEF GraphDistances
  <2>2. rd.q \in Requests /\ rd.snap \in Snaps
    BY <1>1, <1>5, WholeRows
  <2>3. rd.level \in Nat /\ Depth(rd.q.depth) \in Nat
    BY <1>1, <2>2, DepthIs DEF GraphProgress
  <2>4. CASE rd'.at = "done"
    <3>1. Within(Depth(rd.q.depth)) = Within(rd.level)
      <4>1. CASE rd.level = Depth(rd.q.depth)
        BY <4>1
      <4>2. CASE rd.frontier = {}
        <5>1. Within(rd.level + 1) = Within(rd.level) \cup {e[2] : e \in {d \in CommitEdges : d[1] \in rd.frontier}}
                                                      \cup {e[1] : e \in {d \in CommitEdges : d[2] \in rd.frontier}}
          BY <2>1, <2>2, <2>3, NextLevel
        <5>2. Within(rd.level + 1) = Within(rd.level)
          BY <4>2, <5>1
        <5> QED BY <2>1, <2>2, <2>3, <5>2, WithinStays
      <4> QED BY <1>1, <2>4, <4>1, <4>2
    <3> QED BY <1>1, <1>2, <1>3, <2>1, <2>4, <3>1 DEF GraphDistances, GraphExact
  <2>5. CASE rd'.at = "reverse"
    <3>1. rd.level # Depth(rd.q.depth) /\ rd'.frontier = rd.frontier
      BY <1>1, <2>5
    <3>2. rd'.fwd = {e \in CommitEdges : e[1] \in rd.frontier}
      BY <1>1, <1>5, <2>5, WholeRows
    <3>3. rd.level < Depth(rd.q.depth)
      BY <2>1, <2>3, <3>1
    <3> QED BY <1>1, <1>2, <1>3, <2>1, <2>5, <3>1, <3>2, <3>3 DEF GraphDistances, GraphExact
  <2> QED BY <1>1, <2>4, <2>5
<1> QED BY <1>4, <1>5

\* A level that found room for its nodes has those at the next distance.
LEMMA ReverseExact ==
  ASSUME ReadProgress, GraphProgress, GraphDistances, StoredWhole, NotRewritten, GraphReverse
  PROVE  GraphDistances' /\ GraphExact'
<1>1. rd.at = "reverse" /\ rd'.q = rd.q /\ rd'.snap = rd.snap /\ UNCHANGED <<vars, rewritten, lost>>
  BY ReverseIs
<1>a. PICK T \in Admitted(Targets, MaxGraphNodes - Cardinality(Nodes)) :
        \E S \in Admitted(Sources(T), MaxGraphNodes - Cardinality(Nodes \cup T)) : Reversed(T, S)
  BY ReverseIs
<1>2. PICK S \in Admitted(Sources(T), MaxGraphNodes - Cardinality(Nodes \cup T)) : Reversed(T, S)
  BY <1>a
<1>3. /\ rd'.visited = rd.visited \cup ((T \cup S) \X {rd.level + 1})
      /\ rd'.at = IF Full(T, S) THEN "done" ELSE "forward"
      /\ rd'.level = rd.level + 1 /\ rd'.truncated = Full(T, S)
      /\ rd'.frontier = IF Full(T, S) THEN {} ELSE (T \cap Files) \cup S
  BY <1>2 DEF Reversed
<1>4. CASE Full(T, S)
  <2>1. rd'.truncated /\ rd'.at = "done"
    BY <1>3, <1>4
  <2> QED BY <2>1 DEF GraphDistances, GraphExact
<1>5. CASE rewritten
  BY <1>1, <1>3, <1>5 DEF GraphDistances, GraphExact
<1>6. CASE ~Full(T, S) /\ ~rewritten
  <2> DEFINE l == rd.level
             fr == rd.frontier
  <2>1. /\ l < Depth(rd.q.depth) /\ Nodes = Within(l)
        /\ fr = {x \in Within(l) \cap Files : l > 0 => x \notin Within(l - 1)}
        /\ rd.fwd = {e \in CommitEdges : e[1] \in fr}
        /\ \A n \in rd.visited : AtDistance(n)
    BY <1>1, <1>6 DEF GraphDistances
  <2>2. rd.q \in Requests /\ rd.snap \in Snaps /\ Rev = {e \in CommitEdges : e[2] \in fr}
    BY <1>1, <1>6, WholeRows DEF Rev
  <2>3. l \in Nat /\ Depth(rd.q.depth) \in Nat
    BY <1>1, <2>2, DepthIs DEF GraphProgress
  <2>4. T = Targets /\ S = Sources(T) /\ S \subseteq Files /\ Nodes' = Nodes \cup (T \cup S)
    BY <1>1, <1>2, <1>3, <1>6, ReverseNodes DEF Full
  <2>5. Within(l + 1) = Within(l) \cup {e[2] : e \in {d \in CommitEdges : d[1] \in fr}}
                                  \cup {e[1] : e \in {d \in CommitEdges : d[2] \in fr}}
    BY <2>1, <2>2, <2>3, NextLevel
  <2> HIDE DEF l, fr
  <2>6. Nodes \cup (T \cup S) = Within(l + 1)
    BY <2>1, <2>2, <2>4, <2>5 DEF Targets, Sources
  <2>7. (T \cup S) \cap Nodes = {}
    BY <2>4 DEF Targets, Sources
  <2>8. CommitEdges' = CommitEdges /\ \A n : Within(n)' = Within(n) /\ AtDistance(n)' = AtDistance(n)
    BY <1>1, WithinFrame
  <2>9. rd'.at = "forward" /\ rd'.level = l + 1 /\ rd'.frontier = (T \cap Files) \cup S
    BY <1>3, <1>6 DEF l
  <2>10. l + 1 <= Depth(rd.q.depth) /\ l + 1 > 0 /\ (l + 1) - 1 = l
    BY <2>1, <2>3
  <2>11. (T \cap Files) \cup S = {x \in Within(l + 1) \cap Files : x \notin Within(l)}
    BY <2>1, <2>4, <2>6, <2>7
  <2>12. ASSUME NEW n \in rd'.visited PROVE AtDistance(n)
    <3>1. CASE n \in rd.visited
      BY <2>1, <3>1
    <3>2. CASE n \in (T \cup S) \X {l + 1}
      <4>1. n[1] \in T \cup S /\ n[2] = l + 1
        BY <3>2
      <4>2. n[1] \in Within(l + 1) /\ n[1] \notin Within(l)
        BY <2>1, <2>6, <2>7, <4>1
      <4> QED BY <2>10, <4>1, <4>2 DEF AtDistance
    <3> QED BY <1>3, <3>1, <3>2 DEF l
  <2>13. rd'.frontier = {x \in Within(l + 1) \cap Files : l + 1 > 0 => x \notin Within((l + 1) - 1)}
    BY <2>9, <2>10, <2>11
  <2> QED BY <1>1, <2>4, <2>6, <2>8, <2>9, <2>10, <2>12, <2>13 DEF GraphDistances, GraphExact
<1> QED BY <1>4, <1>5, <1>6

\* The other steps leave a traversal alone, or start one.
LEMMA ExactStep ==
  ASSUME TypeOK, ReadMarks, ReadProgress, GraphProgress, GraphDistances, GraphExact, StoredWhole, NotRewritten,
         \/ UNCHANGED rd /\ (rewritten => rewritten')
         \/ (\E q \in Requests : Ask(q)) \/ LookUp \/ Read \/ GraphForward \/ GraphReverse
  PROVE  GraphDistances' /\ GraphExact'
<1>1. CASE UNCHANGED rd /\ (rewritten => rewritten')
  <2>1. Nodes' = Nodes
    BY <1>1 DEF Nodes
  <2>2. CommitEdges' = CommitEdges /\ \A n : Within(n)' = Within(n) /\ AtDistance(n)' = AtDistance(n)
    BY <1>1, WithinFrame
  <2> QED BY <1>1, <2>1, <2>2 DEF GraphDistances, GraphExact
<1>2. ASSUME NEW q \in Requests, Ask(q) PROVE GraphDistances' /\ GraphExact'
  BY <1>2, AskIs DEF GraphDistances, GraphExact
<1>3. CASE LookUp
  <2>1. rd.snap = NoSnap /\ rd.q \in Requests /\ rd'.q = rd.q /\ rd.level = 0 /\ rd.at = "lookup"
    BY <1>3, LookUpIs DEF ReadProgress, GraphProgress
  <2>2. CASE rd'.at = "done" /\ rd'.snap = rd.snap
    BY <2>1, <2>2 DEF GraphDistances, GraphExact
  <2>3. CASE rd'.at = "read"
    BY <2>3 DEF GraphDistances, GraphExact
  <2>4. CASE /\ rd.q.op = "graph" /\ rd'.at = "forward"
             /\ rd'.visited = {<<rd.q.path, 0>>} /\ rd'.frontier = {rd.q.path}
    <3>1. rd'.snap \in Snaps /\ rd'.level = 0
      <4>1. rd'.snap \in isActive
        BY <1>3, <2>4, LookUpIs
      <4> QED BY <1>3, <2>1, <4>1, GraphStarts DEF TypeOK
    <3>2. rd.q.path \in Files /\ Depth(rd.q.depth) \in Nat
      BY <2>1, QueryFacts, DepthIs
    <3>3. Within(0)' = {rd.q.path}
      <4> DEFINE E == CommitEdges'
      <4>1. E \in SUBSET (Files \X GraphNodes)
        BY <3>1, CommitEdgesLink DEF CommitEdges
      <4>2. Within(0)' = Ball(E, rd.q.path, 0)
        BY <2>1 DEF Within, Ball
      <4> HIDE DEF E
      <4> QED BY <3>2, <4>1, <4>2, BallIs
    <3>4. Nodes' = {rd.q.path}
      BY <2>4 DEF Nodes
    <3>5. ASSUME NEW n \in rd'.visited PROVE AtDistance(n)'
      <4>1. n[1] = rd.q.path /\ n[2] = 0
        BY <2>4
      <4>2. Within(n[2])' = Within(0)'
        BY <4>1
      <4> QED BY <3>3, <4>1, <4>2 DEF AtDistance
    <3>6. Within(rd.level)' = Within(0)'
      BY <3>1
    <3>7. rd'.frontier = {x \in Within(rd.level)' \cap Files : rd'.level > 0 => x \notin Within(rd.level - 1)'}
      BY <2>4, <3>1, <3>2, <3>3, <3>6
    <3>8. rd'.level <= Depth(rd'.q.depth)
      BY <2>1, <3>1, <3>2
    <3> QED BY <2>4, <3>3, <3>4, <3>5, <3>6, <3>7, <3>8 DEF GraphDistances, GraphExact
  <2> QED BY <1>3, <2>2, <2>3, <2>4, GraphStarts
<1>4. CASE Read
  BY <1>4, ReadKeepsGraph DEF GraphDistances, GraphExact
<1>5. CASE GraphForward
  BY <1>5, ForwardExact
<1>6. CASE GraphReverse
  BY <1>6, ReverseExact
<1> QED BY <1>1, <1>2, <1>3, <1>4, <1>5, <1>6

\* GraphProgress is GraphClosed without its counts.
LEMMA ProgressIsClosed == GraphProgress => GraphClosed
<1> SUFFICES ASSUME GraphProgress, rd.q.op = "graph"
             PROVE  /\ Cardinality(rd.visited) <= MaxGraphNodes
                    /\ Cardinality(Nodes) = Cardinality(rd.visited)
                    /\ \A e \in rd.edges : {e[1], e[2]} \subseteq Nodes
  BY DEF GraphClosed
<1>1. /\ rd.visited \subseteq GraphNodes \X Nat
      /\ \A m, n \in rd.visited : m[1] = n[1] => m = n
      /\ Cardinality(Nodes) <= MaxGraphNodes
      /\ \A e \in rd.edges : e[1] \in Nodes /\ e[2] \in Nodes
  BY DEF GraphProgress, GraphNodes
<1>2. IsFiniteSet(Nodes)
  <2>1. IsFiniteSet(GraphNodes)
    BY ReadersAssumption, FS_Union DEF GraphNodes
  <2>2. Nodes \subseteq GraphNodes
    BY <1>1 DEF Nodes
  <2> QED BY <2>1, <2>2, SmallerCount
<1> DEFINE V == rd.visited
           f == [n \in V |-> n[1]]
<1>3. f \in Bijection(V, Nodes)
  <2>1. f \in [V -> Nodes]
    BY DEF Nodes
  <2>2. \A x \in Nodes : \E n \in V : f[n] = x
    BY DEF Nodes
  <2>3. \A m, n \in V : f[m] = f[n] => m = n
    BY <1>1
  <2> HIDE DEF f, V
  <2> QED BY <2>1, <2>2, <2>3 DEF Bijection, Injection, Surjection, IsInjective
<1> HIDE DEF f, V
<1>4. Cardinality(V) = Cardinality(Nodes)
  <2>1. f \in Injection(V, Nodes) /\ f \in Surjection(V, Nodes)
    BY <1>3 DEF Bijection
  <2> QED BY <1>2, <2>1, FS_Injection
<1> QED BY <1>1, <1>4 DEF V

LEMMA GraphInit == ReadersInit => GraphProgress /\ GraphDistances /\ GraphExact
<1> SUFFICES ASSUME ReadersInit PROVE GraphProgress /\ GraphDistances /\ GraphExact
  OBVIOUS
<1>1. rd.at = "idle" /\ rd.q.op = "none" /\ rd.visited = {} /\ rd.edges = {}
  BY DEF ReadersInit, NoRead, NoQuery, NoOp
<1> QED BY <1>1 DEF GraphProgress, GraphDistances, GraphExact

LEMMA GraphProgressStep ==
  TypeOK /\ ReadersIInv /\ GraphProgress /\ [ReadersNext]_allVars => GraphProgress'
<1> SUFFICES ASSUME TypeOK, ReadersIInv, GraphProgress, [ReadersNext]_allVars PROVE GraphProgress'
  OBVIOUS
<1>1. \/ UNCHANGED rd
      \/ (\E q \in Requests : Ask(q)) \/ LookUp \/ Read \/ GraphForward \/ GraphReverse
  BY DEF ReadersNext, BuildStep, allVars, readVars
<1> QED BY <1>1, ProgressStep DEF ReadersIInv

LEMMA GraphExactStep ==
  TypeOK /\ ReadersIInv /\ WholeParts /\ GraphIInv /\ [ReadersNext]_allVars => GraphDistances' /\ GraphExact'
<1> SUFFICES ASSUME TypeOK, ReadersIInv, WholeParts, GraphIInv, [ReadersNext]_allVars
             PROVE  GraphDistances' /\ GraphExact'
  OBVIOUS
<1>1. CASE BuildStep
  <2>1. UNCHANGED rd /\ rewritten' = (rewritten \/ (rd.snap # NoSnap /\ row'[rd.snap] # "active"))
    BY <1>1 DEF BuildStep
  <2>2. rewritten => rewritten'
    BY <2>1
  <2> QED BY <2>1, <2>2, ExactStep DEF ReadersIInv, WholeParts, GraphIInv
<1>2. CASE UNCHANGED allVars
  <2>1. UNCHANGED rd /\ (rewritten => rewritten')
    BY <1>2 DEF allVars, readVars
  <2> QED BY <2>1, ExactStep DEF ReadersIInv, WholeParts, GraphIInv
<1>3. CASE (\E q \in Requests : Ask(q)) \/ LookUp \/ Read \/ GraphForward \/ GraphReverse
  BY <1>3, ExactStep DEF ReadersIInv, WholeParts, GraphIInv
<1> QED BY <1>1, <1>2, <1>3 DEF ReadersNext

\* Whatever builds, incremental ones at an unchanged HEAD included, and passes do
\* between the levels of HandleDependencyGraph, its graph has each node once, within
\* the limit, and no edge to a node it does not have.
THEOREM GraphClosedCorrect == ReadersSpec => []GraphClosed
<1>1. ReadersInit => TypeOK /\ FileInv /\ ReadersIInv /\ GraphProgress
  BY ReadersInitInv, GraphInit
<1>2. TypeOK /\ FileInv /\ ReadersIInv /\ GraphProgress /\ [ReadersNext]_allVars
        => (TypeOK /\ FileInv /\ ReadersIInv /\ GraphProgress)'
  BY ReadersIInvStep, GraphProgressStep
<1> QED BY <1>1, <1>2, ProgressIsClosed, PTL DEF ReadersSpec

\* Unless incremental-index runs at an unchanged HEAD, the graph besides has exactly
\* the nodes within the depth asked for, each at its distance from the root, if it is
\* not truncated and no build takes its snapshot over.
THEOREM GraphSoundCorrect ==
  "incremental-index" \notin Events => (ReadersSpec => []GraphSound)
<1> SUFFICES ASSUME "incremental-index" \notin Events PROVE ReadersSpec => []GraphSound
  OBVIOUS
<1>1. ReadersInit => TypeOK /\ FileInv /\ ReadersIInv /\ WholeParts /\ GraphIInv
  BY ReadersInitInv, GraphInit DEF WholeParts, GraphIInv
<1>2. TypeOK /\ FileInv /\ ReadersIInv /\ WholeParts /\ GraphIInv /\ [ReadersNext]_allVars
        => (TypeOK /\ FileInv /\ ReadersIInv /\ WholeParts /\ GraphIInv)'
  <2>1. TypeOK /\ ReadersIInv /\ GraphIInv /\ [ReadersNext]_allVars => GraphProgress'
    BY GraphProgressStep DEF GraphIInv
  <2>2. GraphProgress' /\ GraphDistances' /\ GraphExact' => GraphIInv'
    BY DEF GraphIInv
  <2> QED BY <2>1, <2>2, ReadersIInvStep, WholePartsStep, GraphExactStep
<1>3. GraphIInv => GraphSound
  BY ProgressIsClosed DEF GraphIInv, GraphSound
<1> QED BY <1>1, <1>2, <1>3, PTL DEF ReadersSpec

=============================================================================
