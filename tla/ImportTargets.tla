--------------------------- MODULE ImportTargets ---------------------------
(***************************************************************************)
(* The dependency rows of a branch over its commits: what the extractor    *)
(* makes of an import, how ResolveImportTargets matches it with the files  *)
(* of the project, and which rows an incremental build resolves anew and   *)
(* which it copies forward.                                                *)
(*                                                                         *)
(* A path is a record of what the resolver looks at: the whole path, the   *)
(* stem without its last extension, the stem without ".d.ts", the          *)
(* directory, and whether it is a declaration, an index or a Go file.      *)
(* Paths come in the order of sort.Strings.                                *)
(***************************************************************************)
EXTENDS Integers, Sequences, FiniteSets, SequencesExt

CONSTANTS SortedPaths,  \* every path of the project's history, sorted
          ImportsOf,    \* (path, version) -> the imports the extractor finds:
                        \* [name, lang, type, path], path the joined path of an
                        \* internal one, "" where specifiers are not joined, and
                        \* of others the name with its separators as slashes
          Versions,     \* path -> the contents it may have, 0 for no file
          MaxVersion,   \* bound: contents of a path
          GoModules,    \* module paths go.mod may declare, "" for none
          MaxPushes,    \* bound: commits pushed to the branch
          None

VARIABLES branch,  \* its head: [version : path -> content, gomod]
          index,   \* the active snapshot, or None
          pushes   \* commits pushed so far

importVars == <<branch, index, pushes>>

FilePaths == {SortedPaths[i].path : i \in 1 .. Len(SortedPaths)}

(* What the strings of paths give.  A declaration x.d.ts has the stem x.d  *)
(* and the bare stem x, so each names one path, and a directory has one    *)
(* declaration index, index.d.ts.                                          *)
ASSUME PathsAssumption ==
    /\ SortedPaths \in Seq([path : STRING, stem : STRING, bareStem : STRING, dir : STRING,
                            dts : BOOLEAN, isIndex : BOOLEAN, go : BOOLEAN])
    /\ \A i \in 1 .. Len(SortedPaths) :
         /\ SortedPaths[i].path # ""
         /\ SortedPaths[i].dts => /\ SortedPaths[i].stem # SortedPaths[i].path
                                  /\ SortedPaths[i].bareStem # SortedPaths[i].stem
    /\ \A i, j \in 1 .. Len(SortedPaths) :
         LET p == SortedPaths[i]
             q == SortedPaths[j]
         IN  i # j => /\ p.path # q.path
                      /\ p.dts /\ q.dts => /\ p.stem # q.stem /\ p.bareStem # q.bareStem
                                           /\ p.isIndex /\ q.isIndex => p.dir # q.dir

ASSUME BranchAssumption ==
    /\ MaxVersion \in Nat /\ Versions \in [FilePaths -> SUBSET (0 .. MaxVersion)]
    /\ MaxPushes \in Nat

TreeVersions == {v \in [FilePaths -> 0 .. MaxVersion] : \A p \in FilePaths : v[p] \in Versions[p]}

BranchStates == [version : TreeVersions, gomod : GoModules]

ImportInit == branch \in BranchStates /\ index = None /\ pushes = 0

-----------------------------------------------------------------------------
(* What the extractor records for an import: for an "INTERNAL" one the     *)
(* joined path (none for links of markdown, html and css, or blocks of     *)
(* hcl), for "EXTERNAL" and "STDLIB" ones no target.                       *)
ExtractedImport(imp) ==
    [name |-> imp.name, lang |-> imp.lang, candidate |-> imp.path, ImportType |-> imp.type,
     TargetFilePath |-> IF imp.type = "INTERNAL" THEN imp.path ELSE ""]

Put(f, key, value) == [x \in DOMAIN f \cup {key} |-> IF x = key THEN value ELSE f[x]]

(* An entry of the lookup maps gives way to an implementation only when it *)
(* is missing or a declaration.                                            *)
Replaceable(map, key) == key \notin DOMAIN map \/ map[key].dts

(* registerPath: the maps after one more path.                             *)
registerPathFirstWins(maps, p) ==
    LET keep(map, key, cond) == IF cond /\ key \notin DOMAIN map THEN Put(map, key, p) ELSE map
    IN  [stemMap |-> keep(keep(maps.stemMap, p.stem, p.stem # p.path), p.bareStem, p.dts),
         goDir |-> keep(maps.goDir, p.dir, p.go),
         dirIndex |-> keep(maps.dirIndex, p.dir, p.isIndex)]

registerPath(maps, p) ==
    LET primary == IF p.stem # p.path /\ Replaceable(maps.stemMap, p.stem)
                   THEN Put(maps.stemMap, p.stem, p) ELSE maps.stemMap
        secondary == IF p.dts /\ p.bareStem # p.stem /\ p.bareStem \notin DOMAIN primary
                     THEN Put(primary, p.bareStem, p) ELSE primary
    IN  [stemMap |-> secondary,
         goDir |-> IF p.go /\ p.dir \notin DOMAIN maps.goDir
                   THEN Put(maps.goDir, p.dir, p) ELSE maps.goDir,
         dirIndex |-> IF p.isIndex /\ Replaceable(maps.dirIndex, p.dir)
                      THEN Put(maps.dirIndex, p.dir, p) ELSE maps.dirIndex]

NoMaps == [stemMap |-> <<>>, goDir |-> <<>>, dirIndex |-> <<>>]

(* The maps of the known paths, which are registered in sorted order. *)
Lookup(paths) ==
    FoldLeft(LAMBDA maps, p : IF p.path \in paths THEN registerPath(maps, p) ELSE maps,
             NoMaps, SortedPaths)

(* convertImportToPath: an import of the project's own Go module (name is  *)
(* its module prefix), or a package name with its separators turned into   *)
(* slashes (Python, as Java, Kotlin, C# and PHP); "" for other languages.  *)
convertImportToPath(imp, gomod) ==
    IF imp.lang = "python" \/ (imp.lang = "go" /\ gomod # "" /\ imp.name = gomod)
    THEN imp.candidate ELSE ""

(* The first match of a name in the maps, "" when there is none. *)
Match(maps, paths, name, lang) ==
    CASE name \in paths -> name
      [] name \notin paths /\ name \in DOMAIN maps.stemMap -> maps.stemMap[name].path
      [] name \notin paths \cup DOMAIN maps.stemMap /\ name \in DOMAIN maps.dirIndex ->
           maps.dirIndex[name].path
      [] name \notin paths \cup DOMAIN maps.stemMap \cup DOMAIN maps.dirIndex
           /\ lang = "go" /\ name \in DOMAIN maps.goDir -> maps.goDir[name].path
      [] OTHER -> ""

(* One import of ResolveImportTargets.  Without a name to look up, as for  *)
(* the standard library, or without a match, an internal one keeps its     *)
(* extensionless target and an external one stays external.                *)
ResolveImport(maps, paths, gomod, imp) ==
    LET internal == imp.ImportType = "INTERNAL"
        name == CASE internal -> imp.TargetFilePath
                  [] imp.ImportType = "EXTERNAL" -> convertImportToPath(imp, gomod)
                  [] OTHER -> ""
        found == IF name = "" THEN ""
                 ELSE Match(maps, paths, name, IF internal THEN "" ELSE imp.lang)
    IN  IF found = "" THEN imp
        ELSE [imp EXCEPT !.TargetFilePath = found, !.ImportType = "INTERNAL"]

(* The dependency rows of a parsed file. *)
ResolveImportTargets(paths, gomod, p, version) ==
    {ResolveImport(Lookup(paths), paths, gomod, ExtractedImport(imp)) : imp \in ImportsOf[p][version]}

-----------------------------------------------------------------------------
Tree(version) == {p \in FilePaths : version[p] # 0}

(* A commit adds, changes or removes a file, or edits go.mod. *)
Commit ==
    /\ pushes < MaxPushes
    /\ pushes' = pushes + 1
    /\ \/ \E p \in FilePaths : \E v \in Versions[p] \ {branch.version[p]} :
              branch' = [branch EXCEPT !.version[p] = v]
       \/ \E m \in GoModules \ {branch.gomod} : branch' = [branch EXCEPT !.gomod = m]
    /\ UNCHANGED index

(* A full build parses every file of the branch's commit.  parsedAt is     *)
(* history: the commit at which a file's rows were resolved.               *)
FullIndex ==
    /\ index' = [version |-> branch.version,
                 deps |-> [p \in Tree(branch.version) |->
                             ResolveImportTargets(Tree(branch.version), branch.gomod, p, branch.version[p])],
                 parsedAt |-> [p \in Tree(branch.version) |-> branch]]
    /\ UNCHANGED <<branch, pushes>>

(* The paths imports of changed files are matched against: changed and     *)
(* unchanged ones.                                                         *)
AllFilePaths(changed, unchanged) == changed \cup unchanged

(* An incremental build parses what the diff adds or modifies and copies   *)
(* the rows of the other files of the base snapshot, targets included.     *)
IncrementalIndex ==
    /\ index # None
    /\ LET changed == {p \in Tree(branch.version) : branch.version[p] # index.version[p]}
           deleted == Tree(index.version) \ Tree(branch.version)
           unchanged == Tree(index.version) \ (changed \cup deleted)
           all == AllFilePaths(changed, unchanged)
       IN  index' = [version |-> branch.version,
                     deps |-> [p \in changed \cup unchanged |->
                                 IF p \in changed
                                 THEN ResolveImportTargets(all, branch.gomod, p, branch.version[p])
                                 ELSE index.deps[p]],
                     parsedAt |-> [p \in changed \cup unchanged |->
                                     IF p \in changed THEN branch ELSE index.parsedAt[p]]]
    /\ UNCHANGED <<branch, pushes>>

ImportNext == Commit \/ FullIndex \/ IncrementalIndex

ImportSpec == ImportInit /\ [][ImportNext]_importVars

-----------------------------------------------------------------------------
(* What an import should name, said without the maps: the file itself;     *)
(* else the first implementation with that stem, else the declaration;     *)
(* else the index of that directory, an implementation before a            *)
(* declaration; else, for Go, the first file of the package.               *)
Candidate(rank, p, name, lang) ==
    \/ rank = 1 /\ p.path = name
    \/ rank = 2 /\ ~p.dts /\ p.stem = name /\ p.stem # p.path
    \/ rank = 3 /\ p.dts /\ p.stem = name
    \/ rank = 4 /\ p.dts /\ p.bareStem = name
    \/ rank = 5 /\ p.isIndex /\ p.dir = name /\ ~p.dts
    \/ rank = 6 /\ p.isIndex /\ p.dir = name /\ p.dts
    \/ rank = 7 /\ p.go /\ p.dir = name /\ lang = "go"

(* The files of a tree that answer to a name: ranks and positions. *)
Candidates(tree, name, lang) ==
    {c \in (1 .. 7) \X (1 .. Len(SortedPaths)) :
        SortedPaths[c[2]].path \in tree /\ Candidate(c[1], SortedPaths[c[2]], name, lang)}

Before(c, d) == c[1] < d[1] \/ (c[1] = d[1] /\ c[2] <= d[2])

Expected(tree, name, lang) ==
    LET all == Candidates(tree, name, lang)
    IN  IF all = {} THEN ""
        ELSE SortedPaths[(CHOOSE c \in all : \A d \in all : Before(c, d))[2]].path

(* The name an import asks for, "" when it asks for no file of the project: *)
(* an internal one for its joined path, if it has one, a package of the     *)
(* project's own Go module or of a language that names packages after files *)
(* for the path of its name, the standard library and all others for none.  *)
Asked(imp, gomod) ==
    IF \/ imp.type = "INTERNAL"
       \/ /\ imp.type = "EXTERNAL"
          /\ imp.lang = "python" \/ (imp.lang = "go" /\ gomod # "" /\ imp.name = gomod)
    THEN imp.path ELSE ""

(* The row of an import of a file parsed at a commit. *)
ExpectedRow(imp, at) ==
    LET asked == Asked(imp, at.gomod)
        best == IF asked = "" THEN ""
                ELSE Expected(Tree(at.version), asked,
                              IF imp.type = "INTERNAL" THEN "" ELSE imp.lang)
    IN  << imp.name,
           IF best # "" THEN best ELSE IF imp.type = "INTERNAL" THEN imp.path ELSE "",
           IF best # "" THEN "INTERNAL" ELSE imp.type >>

(* The active snapshot has rows for exactly the files of its commit, of    *)
(* the imports of their present contents, each naming the file that was    *)
(* its best match in the tree of the commit at which the importing file    *)
(* was last parsed, and internal when there was one: a copied row may name *)
(* a file that is gone, and never one that was not there.                  *)
TargetsResolved ==
    index # None =>
        /\ DOMAIN index.deps = Tree(index.version)
        /\ \A p \in DOMAIN index.deps :
             LET at == index.parsedAt[p]
             IN  /\ at.version[p] = index.version[p]
                 /\ {<<d.name, d.TargetFilePath, d.ImportType>> : d \in index.deps[p]} =
                    {ExpectedRow(imp, at) : imp \in ImportsOf[p][index.version[p]]}

ImportTypeOK ==
    /\ branch \in BranchStates
    /\ pushes \in 0 .. MaxPushes

(* The types, and that dependency rows name what their import resolved to. *)
TargetsInv == ImportTypeOK /\ TargetsResolved

-----------------------------------------------------------------------------
(* The inductive invariant: the rows of a file are those of the resolver   *)
(* at the commit at which the file was last parsed.                        *)
RowsResolved ==
    index # None =>
        /\ index.version \in TreeVersions
        /\ DOMAIN index.deps = Tree(index.version)
        /\ DOMAIN index.parsedAt = Tree(index.version)
        /\ \A p \in Tree(index.version) :
             LET at == index.parsedAt[p]
             IN  /\ at \in BranchStates
                 /\ at.version[p] = index.version[p]
                 /\ index.deps[p] =
                      ResolveImportTargets(Tree(at.version), at.gomod, p, index.version[p])
=============================================================================
