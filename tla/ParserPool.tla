----------------------------- MODULE ParserPool -----------------------------
(***************************************************************************)
(* The parser engine of a worker: ParseFilesBatched runs one goroutine per *)
(* file, at most as many at a time as the pool has parsers; the batches of *)
(* concurrent jobs share the pool, a channel of tree-sitter parsers that   *)
(* are not goroutine-safe; Close shuts the pool down while batches run.    *)
(***************************************************************************)
EXTENDS Integers, Sequences, FiniteSets, SequencesExt

CONSTANTS Parsers,    \* the parsers of the pool
          BatchLen,   \* batch -> number of its files
          Kinds,      \* the files to parse: batch -> sequence of kinds
          NoParser

Batches == DOMAIN BatchLen

ASSUME PoolAssumption ==
    /\ IsFiniteSet(Parsers) /\ NoParser \notin Parsers
    /\ BatchLen \in [Batches -> Nat]

(* Files that runPipeline answers at once; those of a language without a    *)
(* grammar ("nogrammar": json, scss, graphql, xml) have extractors only; the *)
(* others are parsed.                                                       *)
QuickKinds == {"empty", "oversized", "unsupported"}

NeedsParser(k) == k \notin QuickKinds \cup {"nogrammar"}

VARIABLES kind,       \* batch -> file index -> kind of file
          free,       \* the channel of parsers
          released,   \* parsers that Shutdown took out and closed
          shutdown,   \* "open", "closed" (flag set), "done" (channel closed), "drained"
          launched,   \* batch -> goroutines started
          task,       \* batch -> file index -> goroutine
          canceled,   \* batches whose job context is cancelled
          results,    \* batch -> file index -> result
          returned    \* batches that ParseFilesBatched returned

poolVars == <<kind, free, released, shutdown, launched, task, canceled, results, returned>>

Idle == [pc |-> "idle", parser |-> NoParser, err |-> "none", ast |-> FALSE]

Finished == [Idle EXCEPT !.pc = "finished"]

NoResult == [file |-> 0, issue |-> "none", ast |-> FALSE]

PoolInit ==
    /\ kind \in Kinds
    /\ free = SetToSeq(Parsers) /\ released = {} /\ shutdown = "open"
    /\ launched = [b \in Batches |-> 0]
    /\ task = [b \in Batches |-> [i \in 1 .. BatchLen[b] |-> Idle]]
    /\ canceled = {}
    /\ results = [b \in Batches |-> [i \in 1 .. BatchLen[b] |-> NoResult]]
    /\ returned = {}

-----------------------------------------------------------------------------
Closed == shutdown # "open"

Running(b) == {i \in DOMAIN task[b] : task[b][i].pc \notin {"idle", "finished"}}

Go(b, i, t) == task' = [task EXCEPT ![b][i] = t]

(* The goroutine of file i writes its own slot of the results. *)
ResultAtNextSlot(b, i, issue, ast) ==
    results' = [results EXCEPT ![b][Cardinality({k \in DOMAIN results[b] :
                                                   results[b][k] # NoResult}) + 1] =
                    [file |-> i, issue |-> issue, ast |-> ast]]

SetResult(b, i, issue, ast) ==
    results' = [results EXCEPT ![b][i] = [file |-> i, issue |-> issue, ast |-> ast]]

(* g.Go: the next file's goroutine, when fewer than the limit run.  The    *)
(* file's context is done from the start when its batch's is.              *)
Launch(b) ==
    /\ launched[b] < BatchLen[b]
    /\ Cardinality(Running(b)) < Cardinality(Parsers)
    /\ launched' = [launched EXCEPT ![b] = @ + 1]
    /\ Go(b, launched[b] + 1,
          [Idle EXCEPT !.pc = "start", !.err = IF b \in canceled THEN "canceled" ELSE "none"])
    /\ UNCHANGED <<kind, free, released, shutdown, canceled, results, returned>>

(* runPipeline up to Parse's first look at the closed flag: an oversized or *)
(* unsupported file has its issue and an empty one an empty result; a file  *)
(* without a grammar goes on without a tree, the others ask the pool.       *)
Prepare(b, i) ==
    /\ task[b][i].pc = "start"
    /\ IF kind[b][i] \in QuickKinds
       THEN /\ SetResult(b, i, IF kind[b][i] = "empty" THEN "none" ELSE kind[b][i], FALSE)
            /\ Go(b, i, Finished)
       ELSE /\ Go(b, i, [task[b][i] EXCEPT
                           !.pc = IF NeedsParser(kind[b][i]) /\ ~Closed THEN "acquire"
                                  ELSE "extract"])
            /\ UNCHANGED results
    /\ UNCHANGED <<kind, free, released, shutdown, launched, canceled, returned>>

(* The select: a parser, the closed channel, or the end of the context; any *)
(* that is ready may be taken.                                              *)
AcquireParser(b, i) ==
    /\ task[b][i].pc = "acquire"
    /\ free # <<>>
    /\ free' = Tail(free)
    /\ Go(b, i, [task[b][i] EXCEPT !.pc = "recheck", !.parser = Head(free)])
    /\ UNCHANGED <<kind, released, shutdown, launched, canceled, results, returned>>

GiveUpAcquireOnContext(b, i) ==
    /\ task[b][i].pc = "acquire"
    /\ task[b][i].err # "none"
    /\ Go(b, i, [task[b][i] EXCEPT !.pc = "extract"])
    /\ UNCHANGED <<kind, free, released, shutdown, launched, canceled, results, returned>>

GiveUpAcquire(b, i) ==
    /\ task[b][i].pc = "acquire"
    /\ shutdown \in {"done", "drained"} \/ task[b][i].err # "none"
    /\ Go(b, i, [task[b][i] EXCEPT !.pc = "extract"])
    /\ UNCHANGED <<kind, free, released, shutdown, launched, canceled, results, returned>>

PutBack(b, i, t) ==
    /\ free' = Append(free, task[b][i].parser)
    /\ Go(b, i, [t EXCEPT !.parser = NoParser])

(* Parse's second look, with a parser in hand. *)
RecheckKeepsParser(b, i) ==
    /\ task[b][i].pc = "recheck"
    /\ Go(b, i, [task[b][i] EXCEPT
                   !.pc = IF Closed \/ task[b][i].err # "none" THEN "extract" ELSE "parsing"])
    /\ UNCHANGED <<kind, free, released, shutdown, launched, canceled, results, returned>>

Recheck(b, i) ==
    /\ task[b][i].pc = "recheck"
    /\ IF Closed \/ task[b][i].err # "none"
       THEN PutBack(b, i, [task[b][i] EXCEPT !.pc = "extract"])
       ELSE Go(b, i, [task[b][i] EXCEPT !.pc = "parsing"]) /\ UNCHANGED free
    /\ UNCHANGED <<kind, released, shutdown, launched, canceled, results, returned>>

(* ParseCtx returns a tree, or fails (the context ended or the library     *)
(* reports an error); the parser goes back in every case.                  *)
EndParse(b, i) ==
    /\ task[b][i].pc = "parsing"
    /\ \E ast \in BOOLEAN :
         PutBack(b, i, [task[b][i] EXCEPT !.pc = "extract", !.ast = ast])
    /\ UNCHANGED <<kind, released, shutdown, launched, canceled, results, returned>>

(* The extractors, which need no parser, with or without a syntax tree.  A *)
(* failed parse is an issue of the result, a timeout when the file's own   *)
(* deadline passed; a language without a grammar is none.                  *)
Extract(b, i) ==
    /\ task[b][i].pc = "extract"
    /\ SetResult(b, i, IF task[b][i].ast \/ ~NeedsParser(kind[b][i]) THEN "none"
                       ELSE IF task[b][i].err = "deadline" THEN "timeout" ELSE "error",
                 task[b][i].ast)
    /\ Go(b, i, Finished)
    /\ UNCHANGED <<kind, free, released, shutdown, launched, canceled, returned>>

(* g.Wait: the batch returns when every goroutine has. *)
ReturnBatch(b) ==
    /\ b \notin returned
    /\ launched[b] = BatchLen[b] /\ Running(b) = {}
    /\ returned' = returned \cup {b}
    /\ UNCHANGED <<kind, free, released, shutdown, launched, task, canceled, results>>

(* The ten seconds of one file pass, waiting for a parser included. *)
FileDeadline(b, i) ==
    /\ task[b][i].pc \in {"acquire", "recheck", "parsing"}
    /\ task[b][i].err = "none"
    /\ Go(b, i, [task[b][i] EXCEPT !.err = "deadline"])
    /\ UNCHANGED <<kind, free, released, shutdown, launched, canceled, results, returned>>

(* The job's context ends, and with it every file context of its batch. *)
CancelJob(b) ==
    /\ b \notin canceled /\ b \notin returned
    /\ canceled' = canceled \cup {b}
    /\ task' = [task EXCEPT ![b] = [i \in DOMAIN task[b] |->
                  IF i \in Running(b) /\ task[b][i].err = "none"
                  THEN [task[b][i] EXCEPT !.err = "canceled"] ELSE task[b][i]]]
    /\ UNCHANGED <<kind, free, released, shutdown, launched, results, returned>>

(* Shutdown: the flag, the channel, then one parser at a time, as they are *)
(* given back.                                                             *)
SetClosed == shutdown = "open" /\ shutdown' = "closed"
             /\ UNCHANGED <<kind, free, released, launched, task, canceled, results, returned>>

CloseDone == shutdown = "closed" /\ shutdown' = "done"
             /\ UNCHANGED <<kind, free, released, launched, task, canceled, results, returned>>

DrainParser ==
    /\ shutdown = "done"
    /\ free # <<>>
    /\ free' = Tail(free)
    /\ released' = released \cup {Head(free)}
    /\ shutdown' = IF released' = Parsers THEN "drained" ELSE shutdown
    /\ UNCHANGED <<kind, launched, task, canceled, results, returned>>

File(b, i) ==
    \/ Prepare(b, i) \/ AcquireParser(b, i) \/ GiveUpAcquire(b, i)
    \/ Recheck(b, i) \/ EndParse(b, i) \/ Extract(b, i)

Batch(b) == Launch(b) \/ ReturnBatch(b)

Shutdown == CloseDone \/ DrainParser

PoolNext ==
    \/ \E b \in Batches :
         \/ Batch(b) \/ CancelJob(b)
         \/ \E i \in DOMAIN task[b] : File(b, i) \/ FileDeadline(b, i)
    \/ SetClosed \/ Shutdown

PoolSpec == PoolInit /\ [][PoolNext]_poolVars

(* Goroutines are scheduled and a parse ends within its deadline.  Weak    *)
(* fairness is enough to get a parser: a file asks for one only once.      *)
PoolFairness ==
    /\ \A b \in Batches : WF_poolVars(Batch(b))
    /\ \A b \in Batches : \A i \in 1 .. BatchLen[b] : WF_poolVars(File(b, i))
    /\ WF_poolVars(Shutdown)

-----------------------------------------------------------------------------
Holders(p) == {x \in UNION {{b} \X DOMAIN task[b] : b \in Batches} : task[x[1]][x[2]].parser = p}

(* A parser is in the channel, in the hands of one goroutine, or closed by *)
(* Shutdown, in one of these only: no two files are parsed by one parser,  *)
(* none is lost on an error path, none is used after it was closed.        *)
ParserConserved ==
    \A p \in Parsers :
        Cardinality(Holders(p)) + Cardinality({k \in 1 .. Len(free) : free[k] = p})
                                + (IF p \in released THEN 1 ELSE 0) = 1

(* What runPipeline may say of a file: one that is parsed has its syntax   *)
(* tree or the reason why not, the others have no tree, and an issue only  *)
(* when they are oversized or of no known language.                        *)
ResultFits(k, r) ==
    IF NeedsParser(k) THEN r.issue \in IF r.ast THEN {"none"} ELSE {"timeout", "error"}
    ELSE ~r.ast /\ r.issue = IF k \in {"oversized", "unsupported"} THEN k ELSE "none"

(* A returned batch has a result in every place, that of the file of this  *)
(* place and no other, with a tree or a reason for each file that needed a *)
(* parser, whatever was cancelled, late or shut down; no parser is still   *)
(* in use by it.                                                           *)
ResultsComplete ==
    \A b \in returned : \A i \in DOMAIN results[b] :
        /\ results[b][i].file = i
        /\ ResultFits(kind[b][i], results[b][i])
        /\ task[b][i].parser = NoParser

(* Every batch that began returns, whatever fails, is cancelled or is shut *)
(* down, and a shutdown that began ends with every parser closed.          *)
BatchesReturn ==
    /\ \A b \in Batches : (launched[b] > 0) ~> (b \in returned)
    /\ (shutdown # "open") ~> (shutdown = "drained")

Task ==
    [pc : {"idle", "start", "acquire", "recheck", "parsing", "extract", "finished"},
     parser : Parsers \cup {NoParser}, err : {"none", "deadline", "canceled"}, ast : BOOLEAN]

PoolTypeOK ==
    /\ free \in Seq(Parsers) /\ released \subseteq Parsers
    /\ shutdown \in {"open", "closed", "done", "drained"}
    /\ launched \in [Batches -> Nat]
    /\ DOMAIN task = Batches /\ DOMAIN results = Batches
    /\ \A b \in Batches :
         /\ launched[b] <= BatchLen[b]
         /\ task[b] \in [1 .. BatchLen[b] -> Task]
         /\ DOMAIN results[b] = 1 .. BatchLen[b]

(* The types, and that every parser of the pool is in one place.           *)
PoolInv == PoolTypeOK /\ ParserConserved

-----------------------------------------------------------------------------
(* Why PoolInv and ResultsComplete hold, whatever the number of parsers,   *)
(* batches and files.                                                      *)

(* A goroutine has a parser from the select to the end of the parse only.  *)
HeldWhileParsing ==
    \A b \in Batches : \A i \in 1 .. BatchLen[b] :
        task[b][i].parser # NoParser <=> task[b][i].pc \in {"recheck", "parsing"}

Held(p) == \E b \in Batches : \E i \in 1 .. BatchLen[b] : task[b][i].parser = p

Queued(p) == \E k \in 1 .. Len(free) : free[k] = p

(* ParserConserved without its counts.                                     *)
InOnePlace ==
    /\ \A k, l \in 1 .. Len(free) : free[k] = free[l] => k = l
    /\ \A b, c \in Batches : \A i \in 1 .. BatchLen[b], j \in 1 .. BatchLen[c] :
         task[b][i].parser = task[c][j].parser /\ task[b][i].parser # NoParser
            => b = c /\ i = j
    /\ \A p \in Parsers :
         /\ Held(p) \/ Queued(p) \/ p \in released
         /\ Held(p) => ~Queued(p) /\ p \notin released
         /\ Queued(p) => p \notin released

(* What a goroutine has found out about its file, and left in its slot.    *)
FileProgress ==
    \A b \in Batches : \A i \in 1 .. BatchLen[b] :
        /\ task[b][i].pc # "idle" <=> i <= launched[b]
        /\ task[b][i].pc = "extract" => kind[b][i] \notin QuickKinds
        /\ task[b][i].pc \in {"acquire", "recheck", "parsing"} \/ task[b][i].ast
              => NeedsParser(kind[b][i])
        /\ task[b][i].pc = "finished" =>
              results[b][i].file = i /\ ResultFits(kind[b][i], results[b][i])

(* A batch returns after all of its goroutines.                            *)
ReturnedAtEnd ==
    \A b \in returned : b \in Batches /\ \A i \in 1 .. BatchLen[b] : task[b][i].pc = "finished"

PoolIInv == PoolTypeOK /\ HeldWhileParsing /\ InOnePlace /\ FileProgress /\ ReturnedAtEnd
=============================================================================
