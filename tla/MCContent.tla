----------------------------- MODULE MCContent -----------------------------
(***************************************************************************)
(* The three parts of a build's content pipeline, checked in one run.      *)
(* They share no state, so each is explored with the other two at rest.    *)
(***************************************************************************)
EXTENDS ParserPool, ChunkPipeline, ImportTargets

CONSTANTS p1, p2, MaxRunes

VARIABLE part

vars == <<part, poolVars, chunkVars, importVars>>

MCBatchLen == <<2, 1>>

MCKinds == {<<<<"source", "source">>, <<"source">>>>, <<<<"nogrammar", "source">>, <<"empty">>>>,
            <<<<"oversized", "source">>, <<"unsupported">>>>}

(* Every content of at most MaxRunes runes of one, two or three bytes. *)
Runes == {<<"nl">>, <<"ascii">>, <<"lead", "cont">>, <<"lead", "cont", "cont">>}

Contents == {FlattenSeq(rs) : rs \in UNION {[1 .. n -> Runes] : n \in 0 .. MaxRunes}}

(* A parser's chunk with the range of its text, and with a longer one, as *)
(* the summary of a class has; the end does not matter when it is split.  *)
ParsedChunk(c, start, end) == [kind |-> "parsed", content |-> c, start |-> start, end |-> end]

Ends(c) ==
    {3 + Cardinality({i \in 1 .. Len(c) - 1 : c[i] = "nl"})} \cup
    IF Len(c) <= MaxInput THEN {9} ELSE {}

RawFile(c) == [kind |-> "raw", content |-> c, start |-> 1, end |-> 0]

MCFiles ==
    {<<RawFile(c), RawFile(<<"ascii">>)>> : c \in Contents} \cup
    UNION {{<<ParsedChunk(c, 3, e), RawFile(<<"ascii">>)>> : e \in Ends(c)}
             : c \in Contents \ {<<>>}}

P(path, stem, bare, dir, dts, isIndex, go) ==
    [path |-> path, stem |-> stem, bareStem |-> bare, dir |-> dir,
     dts |-> dts, isIndex |-> isIndex, go |-> go]

MCSortedPaths ==
    << P("app.ts", "app", "app", ".", FALSE, FALSE, FALSE),
       P("cmd.go", "cmd", "cmd", ".", FALSE, FALSE, TRUE),
       P("lib.d.ts", "lib.d", "lib", ".", TRUE, FALSE, FALSE),
       P("lib.js", "lib", "lib", ".", FALSE, FALSE, FALSE),
       P("lib.ts", "lib", "lib", ".", FALSE, FALSE, FALSE),
       P("lib/index.d.ts", "lib/index.d", "lib/index", "lib", TRUE, TRUE, FALSE),
       P("lib/index.ts", "lib/index", "lib/index", "lib", FALSE, TRUE, FALSE),
       P("lib/x.go", "lib/x", "lib/x", "lib", FALSE, FALSE, TRUE),
       P("tool.py", "tool", "tool", ".", FALSE, FALSE, FALSE) >>

Import(type, name, lang, path) == [type |-> type, name |-> name, lang |-> lang, path |-> path]
Relative(name) == Import("INTERNAL", name, "js", name)
Absolute(name, lang, path) == Import("EXTERNAL", name, lang, path)

MCImportsOf ==
    [p \in FilePaths |->
       [v \in 0 .. 2 |->
          CASE p = "app.ts" /\ v = 1 -> {Relative("lib")}
            [] p = "app.ts" /\ v = 2 -> {Relative("lib"), Relative("lib.js")}
            [] p = "cmd.go" /\ v = 1 -> {Absolute("m", "go", "lib")}
            [] p = "tool.py" /\ v = 1 ->
                 {Absolute("lib", "python", "lib"), Import("STDLIB", "cmd", "python", "cmd"),
                  Absolute("react", "js", "react"), Import("INTERNAL", "#lib", "html", "")}
            [] OTHER -> {}]]

MCVersions ==
    [p \in FilePaths |-> CASE p = "app.ts" -> 1 .. 2
                       [] p \in {"cmd.go", "lib/x.go", "tool.py"} -> {1}
                       [] OTHER -> 0 .. 1]

PoolRest ==
    /\ kind = <<<<"source", "source">>, <<"source">>>>
    /\ free = SetToSeq(Parsers) /\ released = {} /\ shutdown = "open"
    /\ launched = [b \in Batches |-> BatchLen[b]]
    /\ task = [b \in Batches |-> [i \in 1 .. BatchLen[b] |-> Finished]]
    /\ canceled = {}
    /\ results = [b \in Batches |-> [i \in 1 .. BatchLen[b] |->
                    [file |-> i, issue |-> "none", ast |-> TRUE]]]
    /\ returned = Batches

ChunkRest ==
    /\ files = <<>> /\ inputLimit = MaxInput /\ file = 1 /\ pos = 0 /\ line = 1
    /\ chunks = <<>> /\ phase = "done" /\ vectors = <<>> /\ points = <<>>

ImportRest ==
    /\ branch = [version |-> [p \in FilePaths |-> 1], gomod |-> ""]
    /\ index = None /\ pushes = 0

Init ==
    \/ part = "pool" /\ PoolInit /\ ChunkRest /\ ImportRest
    \/ part = "chunks" /\ PoolRest /\ (\E limit \in {0, 3} : ChunkInit(limit)) /\ ImportRest
    \/ part = "imports" /\ PoolRest /\ ChunkRest /\ ImportInit

Next ==
    /\ UNCHANGED part
    /\ \/ part = "pool" /\ PoolNext /\ UNCHANGED <<chunkVars, importVars>>
       \/ part = "chunks" /\ ChunkNext /\ UNCHANGED <<poolVars, importVars>>
       \/ part = "imports" /\ ImportNext /\ UNCHANGED <<poolVars, chunkVars>>

Spec == Init /\ [][Next]_vars /\ PoolFairness
=============================================================================
