---------------------------- MODULE ContentProofs ----------------------------
(***************************************************************************)
(* Proofs about ParserPool and ChunkPipeline, for any parsers, batches and *)
(* files, any contents and any limits; about CommitHistory, for any        *)
(* repository and any requests; and about ImportTargets, for any paths and *)
(* imports.                                                                *)
(***************************************************************************)
EXTENDS ParserPool, ChunkPipeline, CommitHistory, ImportTargets,
        TLAPS, FiniteSetTheorems, SequenceTheorems

-----------------------------------------------------------------------------
(* ParserPool: the steps of one goroutine.                                 *)

LEMMA IdleTask == /\ Idle \in Task /\ Idle.pc = "idle" /\ Idle.parser = NoParser /\ ~Idle.ast
                  /\ Finished \in Task /\ Finished.pc = "finished"
                  /\ Finished.parser = NoParser /\ ~Finished.ast
BY DEF Idle, Finished, Task

\* Go changes one goroutine of one batch.
LEMMA GoFacts ==
  ASSUME PoolTypeOK, NEW b \in Batches, NEW i \in 1 .. BatchLen[b], NEW t \in Task, Go(b, i, t)
  PROVE  /\ DOMAIN task' = Batches
         /\ \A c \in Batches : task'[c] \in [1 .. BatchLen[c] -> Task]
         /\ task'[b][i] = t
         /\ \A c \in Batches : \A j \in 1 .. BatchLen[c] :
              <<c, j>> # <<b, i>> => task'[c][j] = task[c][j]
<1>1. task' = [task EXCEPT ![b] = [task[b] EXCEPT ![i] = t]]
  BY DEF Go
<1>2. task[b] \in [1 .. BatchLen[b] -> Task]
  BY DEF PoolTypeOK
<1>3. task'[b] = [task[b] EXCEPT ![i] = t] /\ DOMAIN task' = Batches
  BY <1>1 DEF PoolTypeOK
<1>4. \A c \in Batches : c # b => task'[c] = task[c]
  BY <1>1 DEF PoolTypeOK
<1>5. task'[b] \in [1 .. BatchLen[b] -> Task] /\ task'[b][i] = t
      /\ \A j \in 1 .. BatchLen[b] : j # i => task'[b][j] = task[b][j]
  BY <1>2, <1>3
<1>6. \A c \in Batches : task'[c] \in [1 .. BatchLen[c] -> Task]
  BY <1>4, <1>5 DEF PoolTypeOK
<1>7. ASSUME NEW c \in Batches, NEW j \in 1 .. BatchLen[c], <<c, j>> # <<b, i>>
      PROVE  task'[c][j] = task[c][j]
  BY <1>4, <1>5, <1>7
<1> QED BY <1>3, <1>5, <1>6, <1>7

\* SetResult changes one slot of the results of one batch.
LEMMA SetResultFacts ==
  ASSUME PoolTypeOK, NEW b \in Batches, NEW i \in 1 .. BatchLen[b], NEW issue, NEW ast,
         SetResult(b, i, issue, ast)
  PROVE  /\ DOMAIN results' = Batches
         /\ \A c \in Batches : DOMAIN results'[c] = 1 .. BatchLen[c]
         /\ results'[b][i] = [file |-> i, issue |-> issue, ast |-> ast]
         /\ \A c \in Batches : \A j \in 1 .. BatchLen[c] :
              <<c, j>> # <<b, i>> => results'[c][j] = results[c][j]
<1> DEFINE r == [file |-> i, issue |-> issue, ast |-> ast]
<1> HIDE DEF r
<1>1. results' = [results EXCEPT ![b] = [results[b] EXCEPT ![i] = r]]
  BY DEF SetResult, r
<1>2. results'[b] = [results[b] EXCEPT ![i] = r] /\ DOMAIN results' = Batches
  BY <1>1 DEF PoolTypeOK
<1>3. \A c \in Batches : c # b => results'[c] = results[c]
  BY <1>1 DEF PoolTypeOK
<1>4. DOMAIN results'[b] = 1 .. BatchLen[b] /\ results'[b][i] = r
      /\ \A j \in 1 .. BatchLen[b] : j # i => results'[b][j] = results[b][j]
  BY <1>2 DEF PoolTypeOK
<1>5. \A c \in Batches : DOMAIN results'[c] = 1 .. BatchLen[c]
  BY <1>3, <1>4 DEF PoolTypeOK
<1>6. ASSUME NEW c \in Batches, NEW j \in 1 .. BatchLen[c], <<c, j>> # <<b, i>>
      PROVE  results'[c][j] = results[c][j]
  BY <1>3, <1>4, <1>6
<1> QED BY <1>2, <1>4, <1>5, <1>6 DEF r

-----------------------------------------------------------------------------
(* ParserPool: where the parsers are.                                      *)

\* A step that moves no parser keeps every parser where it is.
LEMMA ParsersStay ==
  ASSUME InOnePlace, UNCHANGED <<free, released>>,
         \A c \in Batches : \A j \in 1 .. BatchLen[c] : task'[c][j].parser = task[c][j].parser
  PROVE  InOnePlace'
<1>1. \A p : Held(p)' <=> Held(p)
  BY DEF Held
<1>2. \A p : Queued(p)' <=> Queued(p)
  BY DEF Queued
<1>3. \A b, c \in Batches : \A i \in 1 .. BatchLen[b], j \in 1 .. BatchLen[c] :
        task'[b][i].parser = task'[c][j].parser /\ task'[b][i].parser # NoParser
           => b = c /\ i = j
  BY DEF InOnePlace
<1>4. \A k, l \in 1 .. Len(free') : free'[k] = free'[l] => k = l
  BY DEF InOnePlace
<1> QED BY <1>1, <1>2, <1>3, <1>4 DEF InOnePlace

\* Taking the head of the channel.
LEMMA TailFacts ==
  ASSUME PoolTypeOK, InOnePlace, free # <<>>, free' = Tail(free)
  PROVE  /\ free' \in Seq(Parsers) /\ Head(free) \in Parsers
         /\ \A k, l \in 1 .. Len(free') : free'[k] = free'[l] => k = l
         /\ Queued(Head(free))
         /\ \A p : Queued(p)' <=> Queued(p) /\ p # Head(free)
<1>1. /\ free \in Seq(Parsers) /\ Len(free) \in Nat \ {0}
      /\ free' \in Seq(Parsers) /\ Len(free') = Len(free) - 1
      /\ \A k \in 1 .. Len(free') : free'[k] = free[k + 1]
      /\ Head(free) = free[1] /\ Head(free) \in Parsers
  BY HeadTailProperties DEF PoolTypeOK
<1>2. \A k, l \in 1 .. Len(free) : free[k] = free[l] => k = l
  BY DEF InOnePlace
<1>3. \A k, l \in 1 .. Len(free') : free'[k] = free'[l] => k = l
  BY <1>1, <1>2
<1>4. Queued(Head(free))
  BY <1>1 DEF Queued
<1>5. ASSUME NEW p, Queued(p)' PROVE Queued(p) /\ p # Head(free)
  <2>1. PICK k \in 1 .. Len(free') : free'[k] = p
    BY <1>5 DEF Queued
  <2> QED BY <1>1, <1>2, <2>1 DEF Queued
<1>6. ASSUME NEW p, Queued(p), p # Head(free) PROVE Queued(p)'
  <2>1. PICK k \in 1 .. Len(free) : free[k] = p
    BY <1>6 DEF Queued
  <2>2. k # 1 /\ k - 1 \in 1 .. Len(free')
    BY <1>1, <1>6, <2>1
  <2>3. free'[k - 1] = p
    BY <1>1, <2>1, <2>2
  <2> QED BY <2>2, <2>3 DEF Queued
<1> QED BY <1>1, <1>3, <1>4, <1>5, <1>6

\* A goroutine takes the head of the channel.
LEMMA ParserTaken ==
  ASSUME PoolTypeOK, InOnePlace, free # <<>>, free' = Tail(free), UNCHANGED released,
         NEW b \in Batches, NEW i \in 1 .. BatchLen[b], task[b][i].parser = NoParser,
         task'[b][i].parser = Head(free),
         \A c \in Batches : \A j \in 1 .. BatchLen[c] :
            <<c, j>> # <<b, i>> => task'[c][j] = task[c][j]
  PROVE  InOnePlace'
<1>1. /\ Head(free) \in Parsers /\ Queued(Head(free))
      /\ \A k, l \in 1 .. Len(free') : free'[k] = free'[l] => k = l
      /\ \A p : Queued(p)' <=> Queued(p) /\ p # Head(free)
  BY TailFacts
<1>2. Head(free) # NoParser /\ ~Held(Head(free)) /\ Head(free) \notin released
  BY <1>1, PoolAssumption DEF InOnePlace
<1>3. \A p \in Parsers : Held(p)' <=> Held(p) \/ p = Head(free)
  <2>1. ASSUME NEW p \in Parsers, Held(p)' PROVE Held(p) \/ p = Head(free)
    BY <2>1 DEF Held
  <2>2. ASSUME NEW p \in Parsers, Held(p) PROVE Held(p)'
    <3>1. PICK c \in Batches : \E j \in 1 .. BatchLen[c] : task[c][j].parser = p
      BY <2>2 DEF Held
    <3>2. PICK j \in 1 .. BatchLen[c] : task[c][j].parser = p
      BY <3>1
    <3>3. <<c, j>> # <<b, i>>
      BY <3>2, PoolAssumption
    <3> QED BY <3>2, <3>3 DEF Held
  <2>3. ASSUME NEW p \in Parsers, p = Head(free) PROVE Held(p)'
    BY <2>3 DEF Held
  <2> QED BY <2>1, <2>2, <2>3
<1>4. \A c, d \in Batches : \A j \in 1 .. BatchLen[c], k \in 1 .. BatchLen[d] :
        task'[c][j].parser = task'[d][k].parser /\ task'[c][j].parser # NoParser
           => c = d /\ j = k
  <2> SUFFICES ASSUME NEW c \in Batches, NEW d \in Batches,
                      NEW j \in 1 .. BatchLen[c], NEW k \in 1 .. BatchLen[d],
                      task'[c][j].parser = task'[d][k].parser, task'[c][j].parser # NoParser
               PROVE  <<c, j>> = <<d, k>>
    OBVIOUS
  <2>1. CASE <<c, j>> # <<b, i>> /\ <<d, k>> # <<b, i>>
    BY <2>1 DEF InOnePlace
  <2>2. CASE <<c, j>> = <<b, i>> /\ <<d, k>> # <<b, i>>
    BY <1>2, <2>2 DEF Held
  <2>3. CASE <<c, j>> # <<b, i>> /\ <<d, k>> = <<b, i>>
    BY <1>2, <2>3 DEF Held
  <2> QED BY <2>1, <2>2, <2>3
<1>5. ASSUME NEW p \in Parsers
      PROVE  /\ Held(p)' \/ Queued(p)' \/ p \in released'
             /\ Held(p)' => ~Queued(p)' /\ p \notin released'
             /\ Queued(p)' => p \notin released'
  <2>1. (Held(p) \/ Queued(p) \/ p \in released) /\ (Held(p) => ~Queued(p) /\ p \notin released)
        /\ (Queued(p) => p \notin released)
    BY DEF InOnePlace
  <2> QED BY <1>1, <1>2, <1>3, <2>1
<1> QED BY <1>1, <1>4, <1>5 DEF InOnePlace

\* A goroutine gives its parser back.
LEMMA ParserReturned ==
  ASSUME PoolTypeOK, InOnePlace, UNCHANGED released,
         NEW b \in Batches, NEW i \in 1 .. BatchLen[b], task[b][i].parser # NoParser,
         free' = Append(free, task[b][i].parser),
         task'[b][i].parser = NoParser,
         \A c \in Batches : \A j \in 1 .. BatchLen[c] :
            <<c, j>> # <<b, i>> => task'[c][j] = task[c][j]
  PROVE  InOnePlace' /\ free' \in Seq(Parsers)
<1> DEFINE q == task[b][i].parser
<1>1. q \in Parsers /\ free \in Seq(Parsers) /\ Len(free) \in Nat
  <2>1. task[b][i] \in Task /\ free \in Seq(Parsers)
    BY DEF PoolTypeOK
  <2>2. q \in Parsers
    BY <2>1 DEF Task
  <2> QED BY <2>1, <2>2
<1> HIDE DEF q
<1>2. /\ free' \in Seq(Parsers) /\ Len(free') = Len(free) + 1
      /\ \A k \in 1 .. Len(free) : free'[k] = free[k]
      /\ free'[Len(free) + 1] = q
  BY <1>1, AppendProperties DEF q
<1>3. Held(q) /\ ~Queued(q) /\ q \notin released
  BY <1>1 DEF InOnePlace, Held, q
<1>4. \A p : Queued(p)' <=> Queued(p) \/ p = q
  <2>1. ASSUME NEW p, Queued(p)' PROVE Queued(p) \/ p = q
    BY <1>1, <1>2, <2>1 DEF Queued
  <2>2. ASSUME NEW p, Queued(p) PROVE Queued(p)'
    BY <1>1, <1>2, <2>2 DEF Queued
  <2>3. ASSUME NEW p, p = q PROVE Queued(p)'
    BY <1>1, <1>2, <2>3 DEF Queued
  <2> QED BY <2>1, <2>2, <2>3
<1>5. \A k, l \in 1 .. Len(free') : free'[k] = free'[l] => k = l
  <2> SUFFICES ASSUME NEW k \in 1 .. Len(free'), NEW l \in 1 .. Len(free'), free'[k] = free'[l]
               PROVE  k = l
    OBVIOUS
  <2>1. CASE k \in 1 .. Len(free) /\ l \in 1 .. Len(free)
    BY <1>2, <2>1 DEF InOnePlace
  <2>2. CASE k \in 1 .. Len(free) /\ l = Len(free) + 1
    BY <1>2, <1>3, <2>2 DEF Queued
  <2>3. CASE k = Len(free) + 1 /\ l \in 1 .. Len(free)
    BY <1>2, <1>3, <2>3 DEF Queued
  <2> QED BY <1>1, <1>2, <2>1, <2>2, <2>3
<1>6. \A p \in Parsers : Held(p)' <=> Held(p) /\ p # q
  <2>1. ASSUME NEW p \in Parsers, Held(p)' PROVE Held(p) /\ p # q
    <3>1. PICK c \in Batches : \E j \in 1 .. BatchLen[c] : task'[c][j].parser = p
      BY <2>1 DEF Held
    <3>2. PICK j \in 1 .. BatchLen[c] : task'[c][j].parser = p
      BY <3>1
    <3>3. <<c, j>> # <<b, i>>
      BY <3>2, PoolAssumption
    <3>4. task[c][j].parser = p
      BY <3>2, <3>3
    <3>5. p # q
      BY <1>1, <3>3, <3>4 DEF InOnePlace, q
    <3> QED BY <3>4, <3>5 DEF Held
  <2>2. ASSUME NEW p \in Parsers, Held(p), p # q PROVE Held(p)'
    <3>1. PICK c \in Batches : \E j \in 1 .. BatchLen[c] : task[c][j].parser = p
      BY <2>2 DEF Held
    <3>2. PICK j \in 1 .. BatchLen[c] : task[c][j].parser = p
      BY <3>1
    <3>3. <<c, j>> # <<b, i>>
      BY <2>2, <3>2 DEF q
    <3> QED BY <3>2, <3>3 DEF Held
  <2> QED BY <2>1, <2>2
<1>7. \A c, d \in Batches : \A j \in 1 .. BatchLen[c], k \in 1 .. BatchLen[d] :
        task'[c][j].parser = task'[d][k].parser /\ task'[c][j].parser # NoParser
           => c = d /\ j = k
  <2> SUFFICES ASSUME NEW c \in Batches, NEW d \in Batches,
                      NEW j \in 1 .. BatchLen[c], NEW k \in 1 .. BatchLen[d],
                      task'[c][j].parser = task'[d][k].parser, task'[c][j].parser # NoParser
               PROVE  <<c, j>> = <<d, k>>
    OBVIOUS
  <2>1. <<c, j>> # <<b, i>> /\ <<d, k>> # <<b, i>>
    OBVIOUS
  <2> QED BY <2>1, SMTT(30) DEF InOnePlace
<1>8. ASSUME NEW p \in Parsers
      PROVE  /\ Held(p)' \/ Queued(p)' \/ p \in released'
             /\ Held(p)' => ~Queued(p)' /\ p \notin released'
             /\ Queued(p)' => p \notin released'
  <2>1. (Held(p) \/ Queued(p) \/ p \in released) /\ (Held(p) => ~Queued(p) /\ p \notin released)
        /\ (Queued(p) => p \notin released)
    BY DEF InOnePlace
  <2> QED BY <1>3, <1>4, <1>6, <2>1
<1> QED BY <1>2, <1>5, <1>7, <1>8 DEF InOnePlace

\* Shutdown takes the head of the channel and closes it.
LEMMA ParserDrained ==
  ASSUME PoolTypeOK, InOnePlace, DrainParser
  PROVE  InOnePlace'
<1>1. /\ Head(free) \in Parsers /\ Queued(Head(free))
      /\ \A k, l \in 1 .. Len(free') : free'[k] = free'[l] => k = l
      /\ \A p : Queued(p)' <=> Queued(p) /\ p # Head(free)
  BY TailFacts DEF DrainParser
<1>2. released' = released \cup {Head(free)} /\ ~Held(Head(free))
  BY <1>1 DEF DrainParser, InOnePlace
<1>3. \A p : Held(p)' <=> Held(p)
  BY DEF Held, DrainParser
<1>4. ASSUME NEW p \in Parsers
      PROVE  /\ Held(p)' \/ Queued(p)' \/ p \in released'
             /\ Held(p)' => ~Queued(p)' /\ p \notin released'
             /\ Queued(p)' => p \notin released'
  <2>1. (Held(p) \/ Queued(p) \/ p \in released) /\ (Held(p) => ~Queued(p) /\ p \notin released)
        /\ (Queued(p) => p \notin released)
    BY DEF InOnePlace
  <2> QED BY <1>1, <1>2, <1>3, <2>1
<1> QED BY <1>1, <1>4 DEF InOnePlace, DrainParser

-----------------------------------------------------------------------------
(* ParserPool: the invariant.                                              *)

\* The pool starts with every parser in the channel, once.
LEMMA PoolInitial ==
  ASSUME PoolInit PROVE PoolIInv
<1>1. /\ free \in [1 .. Cardinality(Parsers) -> Parsers]
      /\ \A k, l \in DOMAIN free : free[k] = free[l] => k = l
      /\ Cardinality(Parsers) \in Nat
      /\ \A p \in Parsers : \E k \in DOMAIN free : free[k] = p
  <2> DEFINE n == Cardinality(Parsers)
  <2>1. n \in Nat /\ ExistsBijection(1 .. n, Parsers)
    BY FS_CardinalityType, PoolAssumption
  <2>2. \E f \in [1 .. n -> Parsers] : IsInjective(f)
    BY <2>1 DEF ExistsBijection, Bijection, Injection
  <2>3. free \in [1 .. n -> Parsers] /\ IsInjective(free)
    BY <2>2 DEF PoolInit, SetToSeq
  <2>4. free \in Injection(1 .. n, Parsers)
    BY <2>3 DEF Injection
  <2>5. IsFiniteSet(1 .. n) /\ Cardinality(1 .. n) = n
    BY <2>1, FS_Interval
  <2>6. free \in Surjection(1 .. n, Parsers)
    BY <2>4, <2>5, FS_Injection, PoolAssumption
  <2> QED BY <2>1, <2>3, <2>6 DEF IsInjective, Surjection
<1>2. free \in Seq(Parsers) /\ Len(free) = Cardinality(Parsers)
      /\ DOMAIN free = 1 .. Len(free)
  BY <1>1
<1>3. /\ DOMAIN task = Batches
      /\ \A b \in Batches : task[b] \in [1 .. BatchLen[b] -> Task]
      /\ \A b \in Batches : \A i \in 1 .. BatchLen[b] :
           task[b][i].pc = "idle" /\ task[b][i].parser = NoParser /\ ~task[b][i].ast
  BY IdleTask DEF PoolInit
<1>4. PoolTypeOK
  BY <1>2, <1>3, PoolAssumption DEF PoolInit, PoolTypeOK
<1>5. InOnePlace
  <2>1. \A p \in Parsers : ~Held(p)
    BY <1>3, PoolAssumption DEF Held
  <2>2. \A p \in Parsers : Queued(p)
    BY <1>1, <1>2 DEF Queued
  <2> QED BY <1>1, <1>2, <1>3, <2>1, <2>2 DEF InOnePlace, PoolInit
<1>6. FileProgress /\ HeldWhileParsing /\ ReturnedAtEnd
  BY <1>3, PoolAssumption DEF FileProgress, HeldWhileParsing, ReturnedAtEnd, PoolInit
<1> QED BY <1>4, <1>5, <1>6 DEF PoolIInv

\* A goroutine that gets no parser and gives none back, and keeps its batch's
\* results, as long as what it says of itself still holds.
LEMMA GoroutineSteps ==
  ASSUME PoolIInv, NEW b \in Batches, NEW i \in 1 .. BatchLen[b], NEW t \in Task, Go(b, i, t),
         t.parser = task[b][i].parser, t.pc \notin {"idle", "finished"},
         task[b][i].pc \notin {"idle", "finished"},
         t.pc \in {"recheck", "parsing"} <=> task[b][i].pc \in {"recheck", "parsing"},
         t.pc # "start" => kind[b][i] \notin QuickKinds,
         t.pc \in {"acquire", "recheck", "parsing"} \/ t.ast => NeedsParser(kind[b][i]),
         UNCHANGED <<kind, free, released, shutdown, launched, results, returned>>
  PROVE  PoolIInv'
<1>1. /\ DOMAIN task' = Batches
      /\ \A c \in Batches : task'[c] \in [1 .. BatchLen[c] -> Task]
      /\ task'[b][i] = t
      /\ \A c \in Batches : \A j \in 1 .. BatchLen[c] :
           <<c, j>> # <<b, i>> => task'[c][j] = task[c][j]
  BY GoFacts DEF PoolIInv
<1>2. PoolTypeOK'
  BY <1>1 DEF PoolIInv, PoolTypeOK
<1>3. InOnePlace'
  <2>1. \A c \in Batches : \A j \in 1 .. BatchLen[c] : task'[c][j].parser = task[c][j].parser
    BY <1>1
  <2> QED BY <2>1, ParsersStay DEF PoolIInv
<1>4. \A c \in Batches : \A j \in 1 .. BatchLen[c] :
        <<c, j>> = <<b, i>> \/ task'[c][j] = task[c][j]
  BY <1>1
<1>5. HeldWhileParsing'
  BY <1>1, <1>4 DEF PoolIInv, HeldWhileParsing
<1>6. FileProgress'
  BY <1>1, <1>4 DEF PoolIInv, FileProgress
<1>7. ReturnedAtEnd'
  BY <1>1, <1>4 DEF PoolIInv, ReturnedAtEnd
<1> QED BY <1>2, <1>3, <1>5, <1>6, <1>7 DEF PoolIInv

\* A goroutine that ends, without a parser, leaves its result.
LEMMA GoroutineEnds ==
  ASSUME PoolIInv, NEW b \in Batches, NEW i \in 1 .. BatchLen[b], Go(b, i, Finished),
         task[b][i].pc \in {"start", "extract"}, NEW issue, NEW ast \in BOOLEAN,
         SetResult(b, i, issue, ast), ResultFits(kind[b][i], [file |-> i, issue |-> issue, ast |-> ast]),
         UNCHANGED <<kind, free, released, shutdown, launched, returned>>
  PROVE  PoolIInv'
<1>1. /\ DOMAIN task' = Batches
      /\ \A c \in Batches : task'[c] \in [1 .. BatchLen[c] -> Task]
      /\ task'[b][i] = Finished
      /\ \A c \in Batches : \A j \in 1 .. BatchLen[c] :
           <<c, j>> # <<b, i>> => task'[c][j] = task[c][j]
  BY GoFacts, IdleTask DEF PoolIInv
<1>2. /\ DOMAIN results' = Batches
      /\ \A c \in Batches : DOMAIN results'[c] = 1 .. BatchLen[c]
      /\ results'[b][i] = [file |-> i, issue |-> issue, ast |-> ast]
      /\ \A c \in Batches : \A j \in 1 .. BatchLen[c] :
           <<c, j>> # <<b, i>> => results'[c][j] = results[c][j]
  BY SetResultFacts DEF PoolIInv
<1>3. PoolTypeOK'
  BY <1>1, <1>2 DEF PoolIInv, PoolTypeOK
<1>4. task[b][i].parser = NoParser
  BY DEF PoolIInv, HeldWhileParsing
<1>5. InOnePlace'
  <2>1. \A c \in Batches : \A j \in 1 .. BatchLen[c] : task'[c][j].parser = task[c][j].parser
    BY <1>1, <1>4, IdleTask
  <2> QED BY <2>1, ParsersStay DEF PoolIInv
<1>6. \A c \in Batches : \A j \in 1 .. BatchLen[c] :
        <<c, j>> = <<b, i>> \/ (task'[c][j] = task[c][j] /\ results'[c][j] = results[c][j])
  BY <1>1, <1>2
<1>7. HeldWhileParsing'
  BY <1>1, <1>6, IdleTask DEF PoolIInv, HeldWhileParsing
<1>8. FileProgress'
  <2> SUFFICES ASSUME NEW c \in Batches, NEW j \in 1 .. BatchLen[c]
               PROVE  /\ task'[c][j].pc # "idle" <=> j <= launched'[c]
                      /\ task'[c][j].pc = "extract" => kind'[c][j] \notin QuickKinds
                      /\ task'[c][j].pc \in {"acquire", "recheck", "parsing"} \/ task'[c][j].ast
                           => NeedsParser(kind'[c][j])
                      /\ task'[c][j].pc = "finished" =>
                           results'[c][j].file = j /\ ResultFits(kind'[c][j], results'[c][j])
    BY DEF FileProgress
  <2>1. CASE <<c, j>> # <<b, i>>
    BY <1>6, <2>1 DEF PoolIInv, FileProgress
  <2>2. CASE <<c, j>> = <<b, i>>
    <3>1. results'[c][j].file = j /\ ResultFits(kind'[c][j], results'[c][j])
      BY <1>2, <2>2
    <3>2. task[b][i].pc # "idle" => i <= launched[b]
      BY DEF PoolIInv, FileProgress
    <3> QED BY <1>1, <2>2, <3>1, <3>2, IdleTask
  <2> QED BY <2>1, <2>2
<1>9. ReturnedAtEnd'
  BY <1>1, <1>6, IdleTask DEF PoolIInv, ReturnedAtEnd
<1> QED BY <1>3, <1>5, <1>7, <1>8, <1>9 DEF PoolIInv

\* The types and the other parts of the invariant when a parser changes hands.
LEMMA HandsChange ==
  ASSUME PoolIInv, NEW b \in Batches, NEW i \in 1 .. BatchLen[b], NEW t \in Task, Go(b, i, t),
         t.pc \in {"recheck", "extract"}, t.parser # NoParser <=> t.pc = "recheck",
         task[b][i].pc \in {"acquire", "recheck", "parsing"},
         free' \in Seq(Parsers), InOnePlace',
         UNCHANGED <<kind, released, shutdown, launched, results, returned>>
  PROVE  PoolIInv'
<1>1. /\ DOMAIN task' = Batches
      /\ \A c \in Batches : task'[c] \in [1 .. BatchLen[c] -> Task]
      /\ task'[b][i] = t
      /\ \A c \in Batches : \A j \in 1 .. BatchLen[c] :
           <<c, j>> = <<b, i>> \/ task'[c][j] = task[c][j]
  BY GoFacts DEF PoolIInv
<1>2. PoolTypeOK'
  BY <1>1 DEF PoolIInv, PoolTypeOK
<1>3. HeldWhileParsing'
  BY <1>1 DEF PoolIInv, HeldWhileParsing
<1>4. FileProgress'
  <2>1. NeedsParser(kind[b][i]) /\ kind[b][i] \notin QuickKinds
    BY DEF PoolIInv, FileProgress, NeedsParser
  <2>2. task'[b][i].pc # "idle" /\ i <= launched[b]
    BY <1>1 DEF PoolIInv, FileProgress
  <2> QED BY <1>1, <2>1, <2>2 DEF PoolIInv, FileProgress
<1>5. ReturnedAtEnd'
  BY <1>1 DEF PoolIInv, ReturnedAtEnd
<1> QED BY <1>2, <1>3, <1>4, <1>5 DEF PoolIInv

LEMMA AcquireStep ==
  ASSUME PoolIInv, NEW b \in Batches, NEW i \in 1 .. BatchLen[b], AcquireParser(b, i)
  PROVE  PoolIInv'
<1> DEFINE t == [task[b][i] EXCEPT !.pc = "recheck", !.parser = Head(free)]
<1>1. task[b][i] \in Task /\ task[b][i].pc = "acquire" /\ task[b][i].parser = NoParser
  BY DEF PoolIInv, PoolTypeOK, HeldWhileParsing, AcquireParser
<1>2. free' \in Seq(Parsers) /\ Head(free) \in Parsers
  BY TailFacts DEF PoolIInv, AcquireParser
<1>3. t \in Task /\ t.pc = "recheck" /\ t.parser = Head(free) /\ t.parser # NoParser
  BY <1>1, <1>2, PoolAssumption DEF Task
<1> HIDE DEF t
<1>4. Go(b, i, t)
  BY DEF AcquireParser, t
<1>5. /\ task'[b][i] = t
      /\ \A c \in Batches : \A j \in 1 .. BatchLen[c] :
           <<c, j>> # <<b, i>> => task'[c][j] = task[c][j]
  BY <1>3, <1>4, GoFacts DEF PoolIInv
<1>6. InOnePlace'
  BY <1>1, <1>3, <1>5, ParserTaken DEF PoolIInv, AcquireParser
<1> QED BY <1>1, <1>2, <1>3, <1>4, <1>6, HandsChange DEF AcquireParser

LEMMA PutBackStep ==
  ASSUME PoolIInv, NEW b \in Batches, NEW i \in 1 .. BatchLen[b],
         task[b][i].pc \in {"recheck", "parsing"}, NEW s \in Task, s.pc = "extract",
         PutBack(b, i, s),
         UNCHANGED <<kind, released, shutdown, launched, results, returned>>
  PROVE  PoolIInv'
<1> DEFINE t == [s EXCEPT !.parser = NoParser]
<1>1. task[b][i].parser # NoParser
  BY DEF PoolIInv, HeldWhileParsing
<1>2. t \in Task /\ t.pc = "extract" /\ t.parser = NoParser
  BY DEF Task
<1> HIDE DEF t
<1>3. Go(b, i, t) /\ free' = Append(free, task[b][i].parser)
  BY DEF PutBack, t
<1>4. /\ task'[b][i] = t
      /\ \A c \in Batches : \A j \in 1 .. BatchLen[c] :
           <<c, j>> # <<b, i>> => task'[c][j] = task[c][j]
  BY <1>2, <1>3, GoFacts DEF PoolIInv
<1>5. InOnePlace' /\ free' \in Seq(Parsers)
  BY <1>1, <1>2, <1>3, <1>4, ParserReturned DEF PoolIInv
<1> QED BY <1>2, <1>3, <1>5, HandsChange

\* The steps of a file's goroutine.
LEMMA FileStep ==
  ASSUME PoolIInv, NEW b \in Batches, NEW i \in 1 .. BatchLen[b], File(b, i)
  PROVE  PoolIInv'
<1>1. task[b][i] \in Task
  BY DEF PoolIInv, PoolTypeOK
<1>2. CASE Prepare(b, i) /\ kind[b][i] \in QuickKinds
  <2> DEFINE issue == IF kind[b][i] = "empty" THEN "none" ELSE kind[b][i]
  <2>1. ResultFits(kind[b][i], [file |-> i, issue |-> issue, ast |-> FALSE])
    BY <1>2 DEF QuickKinds, NeedsParser, ResultFits
  <2> HIDE DEF issue
  <2>2. SetResult(b, i, issue, FALSE) /\ task[b][i].pc = "start" /\ Go(b, i, Finished)
    BY <1>2 DEF Prepare, issue
  <2> QED BY <1>2, <2>1, <2>2, GoroutineEnds DEF Prepare
<1>3. CASE Prepare(b, i) /\ kind[b][i] \notin QuickKinds
  <2> DEFINE t == [task[b][i] EXCEPT !.pc = IF NeedsParser(kind[b][i]) /\ ~Closed THEN "acquire"
                                            ELSE "extract"]
  <2>1. /\ t \in Task /\ t.parser = task[b][i].parser /\ t.ast = task[b][i].ast
        /\ t.pc \in {"extract", "acquire"} /\ (t.pc = "acquire" => NeedsParser(kind[b][i]))
    BY <1>1 DEF Task
  <2> HIDE DEF t
  <2>2. Go(b, i, t) /\ task[b][i].pc = "start"
    BY <1>3 DEF Prepare, t
  <2>3. t.pc \in {"acquire", "recheck", "parsing"} \/ t.ast => NeedsParser(kind[b][i])
    BY <2>1 DEF PoolIInv, FileProgress
  <2> QED BY <1>3, <2>1, <2>2, <2>3, GoroutineSteps DEF Prepare
<1>4. CASE AcquireParser(b, i)
  BY <1>4, AcquireStep
<1>5. CASE GiveUpAcquire(b, i)
  <2> DEFINE t == [task[b][i] EXCEPT !.pc = "extract"]
  <2>1. t \in Task /\ t.parser = task[b][i].parser /\ t.pc = "extract"
    BY <1>1 DEF Task
  <2> HIDE DEF t
  <2>2. Go(b, i, t) /\ task[b][i].pc = "acquire"
    BY <1>5 DEF GiveUpAcquire, t
  <2>3. kind[b][i] \notin QuickKinds /\ NeedsParser(kind[b][i])
    BY <2>2 DEF PoolIInv, FileProgress, NeedsParser
  <2> QED BY <1>5, <2>1, <2>2, <2>3, GoroutineSteps DEF GiveUpAcquire
<1>6. CASE Recheck(b, i)
  <2>1. CASE Closed \/ task[b][i].err # "none"
    <3> DEFINE s == [task[b][i] EXCEPT !.pc = "extract"]
    <3>1. s \in Task /\ s.pc = "extract"
      BY <1>1 DEF Task
    <3> HIDE DEF s
    <3>2. PutBack(b, i, s)
      BY <1>6, <2>1 DEF Recheck, s
    <3> QED BY <1>6, <3>1, <3>2, PutBackStep DEF Recheck
  <2>2. CASE ~(Closed \/ task[b][i].err # "none")
    <3> DEFINE t == [task[b][i] EXCEPT !.pc = "parsing"]
    <3>1. t \in Task /\ t.parser = task[b][i].parser /\ t.pc = "parsing"
      BY <1>1 DEF Task
    <3> HIDE DEF t
    <3>2. Go(b, i, t) /\ task[b][i].pc = "recheck"
      BY <1>6, <2>2 DEF Recheck, t
    <3>3. kind[b][i] \notin QuickKinds /\ NeedsParser(kind[b][i])
      BY <3>2 DEF PoolIInv, FileProgress, NeedsParser
    <3> QED BY <1>6, <2>2, <3>1, <3>2, <3>3, GoroutineSteps DEF Recheck
  <2> QED BY <2>1, <2>2
<1>7. CASE EndParse(b, i)
  <2>1. PICK ast \in BOOLEAN : PutBack(b, i, [task[b][i] EXCEPT !.pc = "extract", !.ast = ast])
    BY <1>7, Zenon DEF EndParse
  <2> DEFINE s == [task[b][i] EXCEPT !.pc = "extract", !.ast = ast]
  <2>2. s \in Task /\ s.pc = "extract"
    BY <1>1 DEF Task
  <2> HIDE DEF s
  <2>3. PutBack(b, i, s)
    BY <2>1 DEF s
  <2> QED BY <1>7, <2>2, <2>3, PutBackStep DEF EndParse
<1>8. CASE Extract(b, i)
  <2> DEFINE issue == IF task[b][i].ast \/ ~NeedsParser(kind[b][i]) THEN "none"
                      ELSE IF task[b][i].err = "deadline" THEN "timeout" ELSE "error"
  <2>1. task[b][i].ast \in BOOLEAN /\ task[b][i].pc = "extract"
    BY <1>1, <1>8 DEF Task, Extract
  <2>2. kind[b][i] \notin QuickKinds /\ (task[b][i].ast => NeedsParser(kind[b][i]))
    BY <2>1 DEF PoolIInv, FileProgress
  <2>3. ResultFits(kind[b][i], [file |-> i, issue |-> issue, ast |-> task[b][i].ast])
    BY <2>1, <2>2 DEF ResultFits, QuickKinds
  <2> HIDE DEF issue
  <2>4. SetResult(b, i, issue, task[b][i].ast) /\ Go(b, i, Finished)
    BY <1>8 DEF Extract, issue
  <2> QED BY <1>8, <2>1, <2>3, <2>4, GoroutineEnds DEF Extract
<1> QED BY <1>2, <1>3, <1>4, <1>5, <1>6, <1>7, <1>8 DEF File

LEMMA LaunchStep ==
  ASSUME PoolIInv, NEW b \in Batches, Launch(b)
  PROVE  PoolIInv'
<1> DEFINE i == launched[b] + 1
           t == [Idle EXCEPT !.pc = "start", !.err = IF b \in canceled THEN "canceled" ELSE "none"]
<1>1. launched[b] \in Nat /\ BatchLen[b] \in Nat /\ i \in 1 .. BatchLen[b]
  <2>1. launched[b] \in Nat /\ BatchLen[b] \in Nat
    BY PoolAssumption DEF PoolIInv, PoolTypeOK
  <2>2. launched[b] < BatchLen[b]
    BY DEF Launch
  <2> QED BY <2>1, <2>2
<1>2. t \in Task /\ t.pc = "start" /\ t.parser = NoParser /\ ~t.ast
  BY DEF Task, Idle
<1>3. Go(b, i, t) /\ launched' = [launched EXCEPT ![b] = @ + 1]
  BY DEF Launch
<1> HIDE DEF t
<1>4. /\ DOMAIN task' = Batches
      /\ \A c \in Batches : task'[c] \in [1 .. BatchLen[c] -> Task]
      /\ task'[b][i] = t
      /\ \A c \in Batches : \A j \in 1 .. BatchLen[c] :
           <<c, j>> # <<b, i>> => task'[c][j] = task[c][j]
  BY <1>1, <1>2, <1>3, GoFacts DEF PoolIInv
<1>5. /\ launched' \in [Batches -> Nat] /\ launched'[b] = launched[b] + 1
      /\ \A c \in Batches : c # b => launched'[c] = launched[c]
  BY <1>1, <1>3 DEF PoolIInv, PoolTypeOK
<1>6. \A c \in Batches : launched'[c] <= BatchLen[c]
  BY <1>1, <1>5 DEF PoolIInv, PoolTypeOK
<1>7. PoolTypeOK'
  BY <1>4, <1>5, <1>6 DEF PoolIInv, PoolTypeOK, Launch
<1>8. task[b][i].pc = "idle" /\ task[b][i].parser = NoParser
  <2>1. ~(i <= launched[b])
    BY <1>1
  <2>2. task[b][i].pc = "idle"
    BY <1>1, <2>1 DEF PoolIInv, FileProgress
  <2> QED BY <1>1, <2>2 DEF PoolIInv, HeldWhileParsing
<1>9. InOnePlace'
  <2>1. \A c \in Batches : \A j \in 1 .. BatchLen[c] : task'[c][j].parser = task[c][j].parser
    BY <1>2, <1>4, <1>8
  <2> QED BY <2>1, ParsersStay DEF PoolIInv, Launch
<1>10. HeldWhileParsing'
  BY <1>2, <1>4 DEF PoolIInv, HeldWhileParsing
<1>11. FileProgress'
  <2> SUFFICES ASSUME NEW c \in Batches, NEW j \in 1 .. BatchLen[c]
               PROVE  /\ task'[c][j].pc # "idle" <=> j <= launched'[c]
                      /\ task'[c][j].pc = "extract" => kind'[c][j] \notin QuickKinds
                      /\ task'[c][j].pc \in {"acquire", "recheck", "parsing"} \/ task'[c][j].ast
                           => NeedsParser(kind'[c][j])
                      /\ task'[c][j].pc = "finished" =>
                           results'[c][j].file = j /\ ResultFits(kind'[c][j], results'[c][j])
    BY DEF FileProgress
  <2>1. CASE <<c, j>> = <<b, i>>
    BY <1>1, <1>2, <1>4, <1>5, <2>1
  <2>2. CASE <<c, j>> # <<b, i>>
    <3>1. task'[c][j] = task[c][j] /\ kind'[c][j] = kind[c][j] /\ results'[c][j] = results[c][j]
      BY <1>4, <2>2 DEF Launch
    <3>2. j <= launched'[c] <=> j <= launched[c]
      BY <1>1, <1>5, <2>2 DEF PoolIInv, PoolTypeOK
    <3> QED BY <3>1, <3>2 DEF PoolIInv, FileProgress
  <2> QED BY <2>1, <2>2
<1>12. ReturnedAtEnd'
  <2>1. b \notin returned
    BY <1>1, <1>8 DEF PoolIInv, ReturnedAtEnd
  <2>2. \A c \in returned : c \in Batches /\ \A j \in 1 .. BatchLen[c] : task'[c][j] = task[c][j]
    BY <1>4, <2>1 DEF PoolIInv, ReturnedAtEnd
  <2> QED BY <2>2 DEF PoolIInv, ReturnedAtEnd, Launch
<1> QED BY <1>7, <1>9, <1>10, <1>11, <1>12 DEF PoolIInv

LEMMA CancelStep ==
  ASSUME PoolIInv, NEW b \in Batches, CancelJob(b)
  PROVE  PoolIInv'
<1> DEFINE T == [i \in 1 .. BatchLen[b] |->
                   IF i \in Running(b) /\ task[b][i].err = "none"
                   THEN [task[b][i] EXCEPT !.err = "canceled"] ELSE task[b][i]]
<1>1. task[b] \in [1 .. BatchLen[b] -> Task] /\ DOMAIN task = Batches
  BY DEF PoolIInv, PoolTypeOK
<1>2. ASSUME NEW i \in 1 .. BatchLen[b]
      PROVE  /\ T[i] \in Task /\ T[i].pc = task[b][i].pc
             /\ T[i].parser = task[b][i].parser /\ T[i].ast = task[b][i].ast
  <2>1. task[b][i] \in Task
    BY <1>1
  <2>2. [task[b][i] EXCEPT !.err = "canceled"] \in Task
        /\ [task[b][i] EXCEPT !.err = "canceled"].pc = task[b][i].pc
        /\ [task[b][i] EXCEPT !.err = "canceled"].parser = task[b][i].parser
        /\ [task[b][i] EXCEPT !.err = "canceled"].ast = task[b][i].ast
    BY <2>1 DEF Task
  <2> QED BY <2>1, <2>2
<1>3. task' = [task EXCEPT ![b] = T]
  BY <1>1 DEF CancelJob
<1>4. T \in [1 .. BatchLen[b] -> Task]
  BY <1>2
<1> HIDE DEF T
<1>5. /\ DOMAIN task' = Batches
      /\ \A c \in Batches : task'[c] \in [1 .. BatchLen[c] -> Task]
      /\ task'[b] = T /\ \A c \in Batches : c # b => task'[c] = task[c]
  BY <1>1, <1>3, <1>4 DEF PoolIInv, PoolTypeOK
<1>6. \A c \in Batches : \A j \in 1 .. BatchLen[c] :
        /\ task'[c][j].pc = task[c][j].pc /\ task'[c][j].parser = task[c][j].parser
        /\ task'[c][j].ast = task[c][j].ast
  BY <1>2, <1>5
<1>7. PoolTypeOK'
  BY <1>5 DEF PoolIInv, PoolTypeOK, CancelJob
<1>8. InOnePlace'
  BY <1>6, ParsersStay DEF PoolIInv, CancelJob
<1>9. HeldWhileParsing'
  BY <1>6 DEF PoolIInv, HeldWhileParsing
<1>10. FileProgress'
  BY <1>6 DEF PoolIInv, FileProgress, CancelJob
<1>11. ReturnedAtEnd'
  BY <1>6 DEF PoolIInv, ReturnedAtEnd, CancelJob
<1> QED BY <1>7, <1>8, <1>9, <1>10, <1>11 DEF PoolIInv

\* A step that leaves the goroutines, the channel and the results alone.
LEMMA GoroutinesRest ==
  ASSUME PoolIInv, UNCHANGED <<kind, free, released, launched, task, results>>,
         shutdown' \in {"open", "closed", "done", "drained"}, ReturnedAtEnd'
  PROVE  PoolIInv'
<1>1. PoolTypeOK'
  BY DEF PoolIInv, PoolTypeOK
<1>2. InOnePlace'
  BY ParsersStay DEF PoolIInv
<1>3. HeldWhileParsing' /\ FileProgress'
  BY DEF PoolIInv, HeldWhileParsing, FileProgress
<1> QED BY <1>1, <1>2, <1>3 DEF PoolIInv

\* The invariant is inductive.
LEMMA PoolStep == PoolIInv /\ [PoolNext]_poolVars => PoolIInv'
<1> SUFFICES ASSUME PoolIInv, [PoolNext]_poolVars PROVE PoolIInv'
  OBVIOUS
<1>1. CASE UNCHANGED poolVars
  <2>1. ReturnedAtEnd'
    BY <1>1 DEF poolVars, PoolIInv, ReturnedAtEnd
  <2> QED BY <1>1, <2>1, GoroutinesRest DEF poolVars, PoolIInv, PoolTypeOK
<1>2. ASSUME NEW b \in Batches, Launch(b) PROVE PoolIInv'
  BY <1>2, LaunchStep
<1>3. ASSUME NEW b \in Batches, ReturnBatch(b) PROVE PoolIInv'
  <2>1. ASSUME NEW i \in 1 .. BatchLen[b] PROVE task[b][i].pc = "finished"
    <3>1. task[b][i] \in Task /\ i \in DOMAIN task[b] /\ BatchLen[b] \in Nat
      BY PoolAssumption DEF PoolIInv, PoolTypeOK
    <3>2. task[b][i].pc \in {"idle", "finished"}
      BY <1>3, <3>1 DEF ReturnBatch, Running
    <3>3. task[b][i].pc # "idle"
      BY <1>3, <3>1 DEF ReturnBatch, PoolIInv, FileProgress
    <3> QED BY <3>2, <3>3
  <2>2. ReturnedAtEnd'
    BY <1>3, <2>1 DEF ReturnBatch, PoolIInv, ReturnedAtEnd
  <2> QED BY <1>3, <2>2, GoroutinesRest DEF ReturnBatch, PoolIInv, PoolTypeOK
<1>4. ASSUME NEW b \in Batches, CancelJob(b) PROVE PoolIInv'
  BY <1>4, CancelStep
<1>5. ASSUME NEW b \in Batches, NEW i \in DOMAIN task[b], File(b, i) PROVE PoolIInv'
  <2>1. i \in 1 .. BatchLen[b]
    BY DEF PoolIInv, PoolTypeOK
  <2> QED BY <1>5, <2>1, FileStep
<1>6. ASSUME NEW b \in Batches, NEW i \in DOMAIN task[b], FileDeadline(b, i) PROVE PoolIInv'
  <2> DEFINE t == [task[b][i] EXCEPT !.err = "deadline"]
  <2>1. i \in 1 .. BatchLen[b] /\ task[b][i] \in Task
    BY DEF PoolIInv, PoolTypeOK
  <2>2. t \in Task /\ t.parser = task[b][i].parser /\ t.pc = task[b][i].pc
    BY <2>1 DEF Task
  <2> HIDE DEF t
  <2>3. Go(b, i, t) /\ task[b][i].pc \in {"acquire", "recheck", "parsing"}
    BY <1>6 DEF FileDeadline, t
  <2>4. kind[b][i] \notin QuickKinds /\ NeedsParser(kind[b][i])
    BY <2>1, <2>3 DEF PoolIInv, FileProgress, NeedsParser
  <2> QED BY <1>6, <2>1, <2>2, <2>3, <2>4, GoroutineSteps DEF FileDeadline
<1>7. CASE SetClosed \/ CloseDone
  <2>1. ReturnedAtEnd'
    BY <1>7 DEF SetClosed, CloseDone, PoolIInv, ReturnedAtEnd
  <2> QED BY <1>7, <2>1, GoroutinesRest DEF SetClosed, CloseDone
<1>8. CASE DrainParser
  <2>1. InOnePlace'
    BY <1>8, ParserDrained DEF PoolIInv
  <2>2. free' \in Seq(Parsers) /\ Head(free) \in Parsers
    BY <1>8, TailFacts DEF PoolIInv, DrainParser
  <2>3. PoolTypeOK'
    BY <1>8, <2>2 DEF PoolIInv, PoolTypeOK, DrainParser
  <2>4. HeldWhileParsing' /\ FileProgress' /\ ReturnedAtEnd'
    BY <1>8 DEF DrainParser, PoolIInv, HeldWhileParsing, FileProgress, ReturnedAtEnd
  <2> QED BY <2>1, <2>3, <2>4 DEF PoolIInv
<1> QED BY <1>1, <1>2, <1>3, <1>4, <1>5, <1>6, <1>7, <1>8 DEF PoolNext, Batch, Shutdown

\* What the counts of ParserConserved say, from the places.
LEMMA PlacesCount ==
  ASSUME PoolIInv PROVE ParserConserved
<1> SUFFICES ASSUME NEW p \in Parsers
             PROVE  Cardinality(Holders(p)) + Cardinality({k \in 1 .. Len(free) : free[k] = p})
                       + (IF p \in released THEN 1 ELSE 0) = 1
  BY DEF ParserConserved
<1> DEFINE Q == {k \in 1 .. Len(free) : free[k] = p}
<1>1. \A b \in Batches : DOMAIN task[b] = 1 .. BatchLen[b]
  BY DEF PoolIInv, PoolTypeOK
<1>2. \A x : x \in Holders(p) <=>
        \E b \in Batches : \E i \in 1 .. BatchLen[b] : x = <<b, i>> /\ task[b][i].parser = p
  <2>1. ASSUME NEW x \in Holders(p)
        PROVE  \E b \in Batches : \E i \in 1 .. BatchLen[b] : x = <<b, i>> /\ task[b][i].parser = p
    <3>1. PICK b \in Batches : x \in {b} \X DOMAIN task[b]
      BY DEF Holders
    <3>2. PICK c \in {b}, i \in DOMAIN task[b] : x = <<c, i>>
      BY <3>1
    <3>3. task[x[1]][x[2]].parser = p
      BY DEF Holders
    <3>4. task[b][i].parser = p
      BY <3>2, <3>3
    <3> QED BY <1>1, <3>2, <3>4
  <2>2. ASSUME NEW b \in Batches, NEW i \in 1 .. BatchLen[b], task[b][i].parser = p
        PROVE  <<b, i>> \in Holders(p)
    <3>1. <<b, i>> \in {b} \X DOMAIN task[b]
      BY <1>1
    <3>2. <<b, i>> \in UNION {{c} \X DOMAIN task[c] : c \in Batches}
      BY <3>1
    <3> QED BY <2>2, <3>2 DEF Holders
  <2> QED BY <2>1, <2>2
<1>3. Holders(p) # {} <=> Held(p)
  BY <1>2 DEF Held
<1>4. \A x, y \in Holders(p) : x = y
  BY <1>2, PoolAssumption DEF PoolIInv, InOnePlace
<1>5. Q # {} <=> Queued(p)
  BY DEF Queued
<1>6. \A k, l \in Q : k = l
  BY DEF PoolIInv, InOnePlace
<1>7. /\ Held(p) \/ Queued(p) \/ p \in released
      /\ Held(p) => ~Queued(p) /\ p \notin released
      /\ Queued(p) => p \notin released
  BY DEF PoolIInv, InOnePlace
<1>8. Cardinality(Holders(p)) = IF Held(p) THEN 1 ELSE 0
  <2>1. CASE Held(p)
    <3>1. PICK x : x \in Holders(p)
      BY <1>3, <2>1
    <3>2. Holders(p) = {x}
      BY <1>4, <3>1
    <3> QED BY <2>1, <3>2, FS_Singleton
  <2> QED BY <1>3, <2>1, FS_EmptySet
<1>9. Cardinality(Q) = IF Queued(p) THEN 1 ELSE 0
  <2>1. CASE Queued(p)
    <3>1. PICK k : k \in Q
      BY <1>5, <2>1
    <3>2. Q = {k}
      BY <1>6, <3>1
    <3> QED BY <2>1, <3>2, FS_Singleton
  <2> QED BY <1>5, <2>1, FS_EmptySet
<1> HIDE DEF Q
<1>10. Cardinality(Holders(p)) + Cardinality(Q) + (IF p \in released THEN 1 ELSE 0) = 1
  BY <1>7, <1>8, <1>9
<1> QED BY <1>10 DEF Q

\* Every parser of the pool is in the channel, in one goroutine's hands or
\* closed, however batches, deadlines, cancellations and Shutdown interleave.
THEOREM ParsersConserved == PoolSpec => []PoolInv
<1>1. PoolInit => PoolIInv
  BY PoolInitial
<1>2. PoolIInv => PoolInv
  BY PlacesCount DEF PoolIInv, PoolInv
<1> QED BY <1>1, <1>2, PoolStep, PTL DEF PoolSpec

\* A batch that ParseFilesBatched returned has the result of every file in the
\* file's place, with a tree or the reason for its absence when the file had to
\* be parsed and no tree otherwise, and its goroutines hold no parser.
THEOREM ParseResultsComplete == PoolSpec => []ResultsComplete
<1>1. PoolInit => PoolIInv
  BY PoolInitial
<1>2. PoolIInv => ResultsComplete
  <2> SUFFICES ASSUME PoolIInv, NEW b \in returned, NEW i \in DOMAIN results[b]
               PROVE  /\ results[b][i].file = i
                      /\ ResultFits(kind[b][i], results[b][i])
                      /\ task[b][i].parser = NoParser
    BY DEF ResultsComplete
  <2>1. b \in Batches /\ i \in 1 .. BatchLen[b] /\ task[b][i].pc = "finished"
    BY DEF PoolIInv, ReturnedAtEnd, PoolTypeOK
  <2> QED BY <2>1 DEF PoolIInv, FileProgress, HeldWhileParsing
<1> QED BY <1>1, <1>2, PoolStep, PTL DEF PoolSpec

-----------------------------------------------------------------------------
(* ChunkPipeline: maxima, and counts of newlines.                          *)

\* A bounded set of numbers that is not empty has a maximum.
LEMMA MaxExists ==
  ASSUME NEW n \in Nat, NEW T \in SUBSET (0 .. n), T # {}
  PROVE  Max(T) \in T /\ \A y \in T : Max(T) >= y
<1> DEFINE S == 0 .. n
           Above(x) == {y \in T : y > x}
           F == {Above(x) : x \in T}
           R == StrictSubsetOrdering(S)
<1>1. IsFiniteSet(S)
  BY FS_Interval
<1>2. IsWellFoundedOn(R, SUBSET S)
  BY <1>1, FS_StrictSubsetOrderingWellFounded, FS_FiniteSubsetsOfFinite
<1>3. F \subseteq SUBSET S /\ F # {}
  OBVIOUS
<1>4. PICK A \in F : \A B \in F : <<B, A>> \notin R
  <2> HIDE DEF F, R, S
  <2> QED BY <1>2, <1>3, WFMin
<1>5. PICK x \in T : A = Above(x)
  BY <1>4
<1>6. \A y \in T : x >= y
  <2> SUFFICES ASSUME NEW y \in T, y > x PROVE FALSE
    OBVIOUS
  <2>1. Above(y) \in F
    OBVIOUS
  <2>2. Above(y) \subseteq A /\ y \in A /\ y \notin Above(y)
    <3>1. x \in Int /\ y \in Int /\ \A z \in T : z \in Int
      OBVIOUS
    <3>2. \A z \in T : z > y => z > x
      BY <3>1
    <3>3. ~(y > y)
      BY <3>1
    <3> QED BY <1>5, <3>2, <3>3
  <2>3. <<Above(y), A>> \in R
    <3>1. Above(y) \in SUBSET S /\ A \in SUBSET S /\ Above(y) # A
      BY <1>5, <2>2
    <3> HIDE DEF Above, S
    <3> QED BY <2>2, <3>1 DEF StrictSubsetOrdering
  <2> HIDE DEF F, R, Above
  <2> QED BY <1>4, <2>1, <2>3
<1>7. \E m \in T : \A y \in T : m >= y
  BY <1>6
<1> QED BY <1>7 DEF Max

LEMMA MinOfTwo ==
  ASSUME NEW a \in Int, NEW b \in Int
  PROVE  Min({a, b}) = IF a <= b THEN a ELSE b
<1>1. \E x \in {a, b} : \A y \in {a, b} : x =< y
  OBVIOUS
<1>2. Min({a, b}) \in {a, b} /\ Min({a, b}) =< a /\ Min({a, b}) =< b
  BY <1>1 DEF Min
<1> QED BY <1>2

\* The newlines up to b are those up to a and those between a and b.
LEMMA NewlinesAdd ==
  ASSUME NEW s, NEW a \in Nat, NEW b \in Nat, a <= b
  PROVE  /\ Newlines(s, 0, b) = Newlines(s, 0, a) + Newlines(s, a, b)
         /\ Newlines(s, 0, a) \in Nat /\ Newlines(s, a, b) \in Nat
         /\ Newlines(s, a, b) = 0 <=> \A j \in a + 1 .. b : s[j] # "nl"
<1> DEFINE A == {j \in 0 + 1 .. a : s[j] = "nl"}
           B == {j \in a + 1 .. b : s[j] = "nl"}
           C == {j \in 0 + 1 .. b : s[j] = "nl"}
<1>1. IsFiniteSet(0 + 1 .. a) /\ IsFiniteSet(a + 1 .. b)
  BY FS_Interval
<1>2. IsFiniteSet(A) /\ IsFiniteSet(B)
  BY <1>1, FS_Subset
<1>3. C = A \cup B /\ A \cap B = {}
  OBVIOUS
<1>4. B = {} <=> \A j \in a + 1 .. b : s[j] # "nl"
  OBVIOUS
<1>5. Newlines(s, 0, b) = Cardinality(C) /\ Newlines(s, 0, a) = Cardinality(A)
      /\ Newlines(s, a, b) = Cardinality(B)
  BY DEF Newlines
<1> HIDE DEF A, B, C
<1>6. Cardinality(A) \in Nat /\ Cardinality(B) \in Nat
  BY <1>2, FS_CardinalityType
<1>7. Cardinality(C) = Cardinality(A) + Cardinality(B) - Cardinality(A \cap B)
  BY <1>2, <1>3, FS_Union
<1>8. Cardinality(A \cap B) = 0
  BY <1>3, FS_EmptySet
<1>9. Cardinality(B) = 0 <=> B = {}
  BY <1>2, FS_EmptySet
<1> QED BY <1>4, <1>5, <1>6, <1>7, <1>8, <1>9

\* One more byte.
LEMMA NewlinesNext ==
  ASSUME NEW s, NEW n \in Nat, NEW m, m = n + 1
  PROVE  Newlines(s, 0, m) = Newlines(s, 0, n) + (IF s[m] = "nl" THEN 1 ELSE 0)
<1>1. Newlines(s, n, m) = IF s[m] = "nl" THEN 1 ELSE 0
  <2> DEFINE B == {j \in n + 1 .. m : s[j] = "nl"}
  <2>1. B = IF s[m] = "nl" THEN {m} ELSE {}
    OBVIOUS
  <2>2. Cardinality(B) = IF s[m] = "nl" THEN 1 ELSE 0
    <3> HIDE DEF B
    <3> QED BY <2>1, FS_Singleton, FS_EmptySet
  <2> QED BY <2>2 DEF Newlines
<1>2. Newlines(s, 0, m) = Newlines(s, 0, n) + Newlines(s, n, m)
  BY NewlinesAdd
<1> QED BY <1>1, <1>2

\* After a byte that ends a rune the next byte begins one.
LEMMA RuneEnds ==
  ASSUME NEW s, Encoded(s), NEW k \in Nat, k + 1 \in 1 .. Len(s), s[k] \notin {"lead", "cont"}
  PROVE  RuneStart(s[k + 1])
<1>1. k + 1 - 1 = k
  OBVIOUS
<1> QED BY <1>1 DEF Encoded, RuneStart

\* Of four bytes in a row one begins a rune.
LEMMA RuneLength ==
  ASSUME NEW s, Encoded(s), NEW k \in Nat, k > 0, k + 3 \in 1 .. Len(s)
  PROVE  \E j \in k .. k + 3 : RuneStart(s[j])
<1>1. CASE s[k + 3] = "cont"
  <2>1. k + 3 > 3 /\ k + 3 - 3 = k /\ k + 3 - 1 = k + 2
    OBVIOUS
  <2>2. PICK j \in k + 3 - 3 .. k + 3 - 1 : s[j] # "cont"
    BY <1>1, <2>1 DEF Encoded
  <2>3. j \in k .. k + 3
    BY <2>1
  <2> QED BY <2>2, <2>3 DEF RuneStart
<1>2. CASE s[k + 3] # "cont"
  BY <1>2 DEF RuneStart
<1> QED BY <1>1, <1>2

\* The byte classes, positions and lines of a file to index.
LEMMA FileFacts ==
  ASSUME files \in Files, NEW f \in 1 .. Len(files)
  PROVE  /\ files[f] \in SourceFile
         /\ files[f].content \in Seq(Byte) /\ Len(files[f].content) \in Nat
         /\ files[f].start \in Nat /\ files[f].end \in Nat
         /\ files[f].kind \in {"raw", "parsed"}
         /\ Encoded(files[f].content)
         /\ files[f].kind = "parsed" => files[f].content # <<>>
<1>1. files \in Seq(SourceFile)
  BY FilesAssumption
<1>2. files[f] \in SourceFile
  BY <1>1
<1>3. /\ files[f].content \in Seq(Byte)
      /\ files[f].start \in Nat /\ files[f].end \in Nat
      /\ files[f].kind \in {"raw", "parsed"}
  BY <1>2 DEF SourceFile
<1>4. Encoded(files[f].content)
  BY FilesAssumption
<1>5. files[f].kind = "parsed" => files[f].content # <<>>
  BY FilesAssumption
<1> QED BY <1>2, <1>3, <1>4, <1>5

-----------------------------------------------------------------------------
(* ChunkPipeline: cutting a file.                                          *)

\* Where SplitChunk cuts: after at least one byte and at most MaxInput, before
\* a rune, and at a newline unless the file has a line of the limit or more.
LEMMA ChunkEndFacts ==
  ASSUME ChunkIInv, phase = "split", file <= Len(files), Remaining > 0
  PROVE  /\ ChunkEnd \in Nat /\ pos < ChunkEnd /\ ChunkEnd <= Len(Content)
         /\ ChunkEnd <= pos + MaxInput
         /\ ChunkEnd < Len(Content) => RuneStart(Content[ChunkEnd + 1])
         /\ ~LongLine(Content) /\ ChunkEnd < Len(Content) => Content[ChunkEnd] = "nl"
<1> DEFINE n == Len(Content)
           cuts == {e \in 2 .. MaxInput : Content[pos + e] = "nl"}
           ends == {e \in 1 .. MaxInput : \/ Content[pos + e] \notin {"lead", "cont"}
                                          \/ RuneStart(Content[pos + e + 1])}
<1>1. file \in 1 .. Len(files) /\ files \in Files /\ pos \in Nat
  <2>1. file \in 1 .. Len(files) + 1 /\ files \in Files /\ pos \in Nat
    BY DEF ChunkIInv, ChunksInv, ChunkTypeOK
  <2>2. Len(files) \in Nat
    BY <2>1, FilesAssumption
  <2> QED BY <2>1, <2>2
<1>2. Content \in Seq(Byte) /\ n \in Nat /\ Encoded(Content)
  BY <1>1, FileFacts DEF Content
<1>3. MaxInput \in Nat /\ MaxInput >= 4 /\ n - pos > 0
  BY MaxInputAssumption DEF Remaining
<1>4. RuneStart(Content[pos + 1])
  BY <1>1, <1>2, <1>3 DEF ChunkIInv, SplitProgress
<1>5. \A i \in 1 .. n : Content[i] \in Byte
  BY <1>2
<1>6. CASE n - pos <= MaxInput
  <2>1. ChunkEnd = n
    BY <1>6 DEF ChunkEnd, Remaining
  <2> QED BY <1>1, <1>2, <1>3, <1>6, <2>1
<1>7. CASE n - pos > MaxInput /\ cuts # {}
  <2> DEFINE m == Max(cuts)
  <2>1. cuts \in SUBSET (0 .. MaxInput)
    BY <1>3
  <2>2. m \in cuts
    BY <1>3, <1>7, <2>1, MaxExists
  <2> HIDE DEF m
  <2>3. m \in 2 .. MaxInput /\ Content[pos + m] = "nl"
    BY <2>2
  <2>4. ChunkEnd = pos + m
    BY <1>1, <1>2, <1>3, <1>7 DEF ChunkEnd, Remaining, m
  <2>5. pos + m + 1 \in 1 .. Len(Content) /\ pos + m \in Nat
    BY <1>1, <1>2, <1>3, <1>7, <2>3
  <2>6. Content[pos + m] \notin {"lead", "cont"}
    BY <2>3
  <2>7. RuneStart(Content[pos + m + 1])
    BY <1>2, <2>5, <2>6, RuneEnds, Zenon
  <2> QED BY <1>1, <1>2, <1>3, <1>7, <2>3, <2>4, <2>5, <2>7
<1>8. CASE n - pos > MaxInput /\ cuts = {}
  <2> DEFINE T == {0} \cup ends
             m == Max(T)
  <2>1. T \in SUBSET (0 .. MaxInput) /\ T # {}
    BY <1>3
  <2>2. m \in T /\ \A y \in T : m >= y
    BY <1>3, <2>1, MaxExists
  <2>3. \E e \in 1 .. 4 : e \in ends
    <3>1. CASE Content[pos + 1] \notin {"lead", "cont"}
      BY <1>3, <3>1
    <3>2. CASE Content[pos + 1] \in {"lead", "cont"}
      <4>1. Content[pos + 1] = "lead"
        BY <1>4, <3>2 DEF RuneStart
      <4>2. pos + 2 \in Nat /\ pos + 2 > 0 /\ pos + 2 + 3 \in 1 .. n
        BY <1>1, <1>2, <1>3, <1>8
      <4>3. PICK j \in pos + 2 .. pos + 2 + 3 : RuneStart(Content[j])
        BY <1>2, <4>2, RuneLength
      <4>4. j - 1 - pos \in 1 .. 4 /\ pos + (j - 1 - pos) + 1 = j
        BY <1>1
      <4> QED BY <1>3, <4>3, <4>4
    <3> QED BY <3>1, <3>2
  <2>4. PICK e \in 1 .. 4 : e \in T
    BY <2>3
  <2> HIDE DEF m
  <2>5. m \in T /\ m >= e
    BY <2>2, <2>4
  <2>6. m # 0 /\ m \in ends
    BY <2>4, <2>5
  <2>7. ChunkEnd = pos + m
    BY <1>1, <1>2, <1>3, <1>8 DEF ChunkEnd, StepBack, Remaining, m
  <2>8. m \in 1 .. MaxInput /\ (Content[pos + m] \notin {"lead", "cont"} \/ RuneStart(Content[pos + m + 1]))
    BY <2>6
  <2>9. pos + m + 1 \in 1 .. Len(Content) /\ pos + m \in Nat
    BY <1>1, <1>2, <1>3, <1>8, <2>8
  <2>10. RuneStart(Content[pos + m + 1])
    BY <1>2, <2>8, <2>9, RuneEnds, Zenon
  <2>11. LongLine(Content)
    <3>1. pos + 1 \in 0 .. n - MaxInput
      BY <1>1, <1>2, <1>3, <1>8
    <3>2. ASSUME NEW k \in 1 .. MaxInput - 1 PROVE Content[pos + 1 + k] # "nl"
      <4>1. k + 1 \in 2 .. MaxInput /\ pos + (k + 1) = pos + 1 + k
        BY <1>1, <1>3
      <4> QED BY <1>8, <4>1
    <3> QED BY <3>1, <3>2 DEF LongLine
  <2> QED BY <1>1, <1>2, <1>3, <1>8, <2>7, <2>8, <2>9, <2>10, <2>11
<1> QED BY <1>1, <1>2, <1>3, <1>6, <1>7, <1>8

\* The line numbers of a cut: the last line is the one the last byte lies on,
\* and the next chunk begins on the line after it.
LEMMA LastLineFacts ==
  ASSUME ChunkIInv, phase = "split", file <= Len(files), Remaining > 0
  PROVE  /\ LastLine(pos, ChunkEnd) \in Nat
         /\ ~LongLine(Content) =>
              /\ line = LineOfByte(file, pos + 1)
              /\ LastLine(pos, ChunkEnd) = LineOfByte(file, ChunkEnd)
              /\ ChunkEnd < Len(Content) =>
                   LastLine(pos, ChunkEnd) + 1 = LineOfByte(file, ChunkEnd + 1)
<1> DEFINE to == ChunkEnd
           nl(k) == Newlines(Content, 0, k)
<1>1. /\ to \in Nat /\ pos < to /\ to <= Len(Content)
      /\ ~LongLine(Content) /\ to < Len(Content) => Content[to] = "nl"
  BY ChunkEndFacts
<1> HIDE DEF to
<1>2. file \in 1 .. Len(files) /\ files \in Files /\ pos \in Nat /\ line \in Nat
  <2>1. file \in 1 .. Len(files) + 1 /\ files \in Files /\ pos \in Nat /\ line \in Nat
    BY DEF ChunkIInv, ChunksInv, ChunkTypeOK
  <2>2. Len(files) \in Nat
    BY <2>1, FilesAssumption
  <2> QED BY <2>1, <2>2
<1>3. Len(Content) \in Nat /\ files[file].start \in Nat
  BY <1>2, FileFacts DEF Content
<1>4. /\ nl(to) = nl(pos) + Newlines(Content, pos, to)
      /\ nl(pos) \in Nat /\ Newlines(Content, pos, to) \in Nat
  <2>1. pos <= to
    BY <1>1, <1>2
  <2> QED BY <1>1, <1>2, <2>1, NewlinesAdd, Zenon
<1>5. nl(to) = nl(to - 1) + (IF Content[to] = "nl" THEN 1 ELSE 0) /\ nl(to - 1) \in Nat
  <2>1. to - 1 \in Nat /\ to = to - 1 + 1 /\ to - 1 <= to
    BY <1>1, <1>2
  <2>2. nl(to) = nl(to - 1) + (IF Content[to] = "nl" THEN 1 ELSE 0)
    BY <2>1, NewlinesNext, Zenon
  <2>3. nl(to - 1) \in Nat
    BY <1>1, <2>1, NewlinesAdd, Zenon
  <2> QED BY <2>2, <2>3
<1>6. ASSUME NEW k \in Nat PROVE LineOfByte(file, k + 1) = files[file].start + nl(k)
  <2>1. k + 1 - 1 = k
    OBVIOUS
  <2> QED BY <2>1 DEF LineOfByte, Content
<1>7. LineOfByte(file, to) = files[file].start + nl(to - 1)
  BY DEF LineOfByte, Content
<1> HIDE DEF nl
<1>8. LastLine(pos, to) = IF Newlines(Content, pos, to) > 0 /\ ~(to = Len(Content) /\ Content[to] # "nl")
                          THEN line + Newlines(Content, pos, to) - 1 ELSE line + Newlines(Content, pos, to)
  BY DEF LastLine
<1>9. LastLine(pos, to) \in Nat
  BY <1>2, <1>4, <1>8
<1>10. ASSUME ~LongLine(Content)
       PROVE  /\ line = LineOfByte(file, pos + 1)
              /\ LastLine(pos, to) = LineOfByte(file, to)
              /\ to < Len(Content) => LastLine(pos, to) + 1 = LineOfByte(file, to + 1)
  <2>1. pos < Len(Content)
    BY <1>1, <1>2, <1>3
  <2>2. line = LineOfByte(file, pos + 1)
    BY <1>2, <1>10, <2>1 DEF ChunkIInv, SplitProgress
  <2>3. line = files[file].start + nl(pos)
    BY <1>2, <1>6, <2>2
  <2>4. CASE to = Len(Content) /\ Content[to] # "nl"
    <3>1. LastLine(pos, to) = line + Newlines(Content, pos, to)
      BY <1>8, <2>4
    <3>2. nl(to) = nl(to - 1)
      BY <1>5, <2>4
    <3> QED BY <1>1, <1>3, <1>4, <1>7, <2>2, <2>3, <2>4, <3>1, <3>2
  <2>5. CASE Content[to] = "nl"
    <3>1. nl(to) = nl(to - 1) + 1
      BY <1>5, <2>5
    <3>2. Newlines(Content, pos, to) > 0
      <4>1. to \in pos + 1 .. to /\ pos <= to
        BY <1>1, <1>2
      <4>2. Newlines(Content, pos, to) # 0
        BY <1>1, <1>2, <2>5, <4>1, NewlinesAdd, Zenon
      <4> QED BY <1>4, <4>2
    <3>3. LastLine(pos, to) = line + Newlines(Content, pos, to) - 1
      BY <1>8, <2>5, <3>2
    <3>4. LastLine(pos, to) = files[file].start + nl(to) - 1
      <4> DEFINE w == Newlines(Content, pos, to)
                 a == files[file].start
                 u == nl(pos)
                 v == nl(to)
                 l == LastLine(pos, to)
      <4>1. w \in Nat /\ u \in Nat /\ v = u + w /\ a \in Nat
        BY <1>3, <1>4
      <4>2. line = a + u /\ l = line + w - 1
        BY <2>3, <3>3
      <4> HIDE DEF w, a, u, v, l
      <4>3. l = a + v - 1
        BY <4>1, <4>2
      <4> QED BY <4>3 DEF l, a, v
    <3>5. LineOfByte(file, to + 1) = files[file].start + nl(to)
      BY <1>1, <1>6
    <3>6. nl(to) \in Nat
      BY <1>4
    <3> QED BY <1>3, <1>5, <1>7, <2>2, <3>1, <3>4, <3>5, <3>6
  <2> QED BY <1>1, <1>3, <1>10, <2>4, <2>5
<1> QED BY <1>9, <1>10 DEF to

\* The types of a build that is splitting its files.
LEMMA SplitTypes ==
  ASSUME ChunkIInv, phase = "split"
  PROVE  /\ files \in Files /\ files \in Seq(SourceFile) /\ Len(files) \in Nat \ {0}
         /\ file \in 1 .. Len(files) + 1 /\ pos \in Nat /\ line \in Nat
         /\ chunks \in Seq(Chunk) /\ Len(chunks) \in Nat
         /\ vectors = <<>> /\ DOMAIN points = {}
         /\ file <= Len(files) => file \in 1 .. Len(files)
<1>1. /\ files \in Files /\ file \in 1 .. Len(files) + 1 /\ pos \in Nat /\ line \in Nat
      /\ chunks \in Seq(Chunk) /\ vectors = <<>> /\ DOMAIN points = {}
  BY DEF ChunkIInv, ChunksInv, ChunkTypeOK, VectorProgress
<1>2. files \in Seq(SourceFile) /\ files # <<>>
  BY <1>1, FilesAssumption
<1>3. Len(files) \in Nat \ {0} /\ Len(chunks) \in Nat
  BY <1>1, <1>2
<1> QED BY <1>1, <1>2, <1>3

\* Without vectors there is nothing to match.
LEMMA NoVectors ==
  ASSUME phase' = "split", vectors' = <<>>, DOMAIN points' = {}, Len(chunks') \in Nat
  PROVE  VectorProgress' /\ vectors' \in Seq({Text(i) : i \in 1 .. Len(chunks)})'
         /\ Len(vectors') <= Len(chunks')
<1>1. Len(vectors') = 0 /\ DOMAIN points' = 1 .. 0 /\ 0 \in 0 .. Len(chunks')
  OBVIOUS
<1>2. VectorProgress'
  BY <1>1 DEF VectorProgress
<1> QED BY <1>1, <1>2

\* One more chunk: the rest of the file, or up to a cut.
LEMMA ChunkAppended ==
  ASSUME ChunkIInv, phase = "split", file <= Len(files), NEW to \in Nat, NEW endLine \in Nat,
         AppendChunk(to, endLine),
         pos < to, to <= Len(Content), to <= pos + MaxInput,
         to < Len(Content) => RuneStart(Content[to + 1]),
         Kept(files[file]) =>
            line = files[file].start /\ endLine = files[file].end /\ to = Len(Content),
         ~Kept(files[file]) /\ ~LongLine(Content) =>
            /\ line = LineOfByte(file, pos + 1) /\ endLine = LineOfByte(file, to)
            /\ to < Len(Content) => endLine + 1 = LineOfByte(file, to + 1),
         UNCHANGED <<files, inputLimit, file, phase, vectors, points>>
  PROVE  ChunkIInv'
<1> DEFINE c == [file |-> file, from |-> pos, to |-> to, StartLine |-> line, EndLine |-> endLine]
           n == Len(chunks)
<1>1. /\ files \in Files /\ Len(files) \in Nat /\ file \in 1 .. Len(files)
      /\ pos \in Nat /\ line \in Nat /\ chunks \in Seq(Chunk) /\ n \in Nat
      /\ vectors = <<>> /\ DOMAIN points = {}
  BY SplitTypes
<1>2. c \in Chunk /\ c.file = file /\ c.from = pos /\ c.to = to /\ c.StartLine = line
      /\ c.EndLine = endLine
  BY <1>1 DEF Chunk
<1>3. chunks' = Append(chunks, c) /\ pos' = to /\ line' = endLine + 1
  BY DEF AppendChunk
<1> HIDE DEF c
<1>4. /\ chunks' \in Seq(Chunk) /\ Len(chunks') = n + 1 /\ chunks' # <<>>
      /\ \A i \in 1 .. n : chunks'[i] = chunks[i]
      /\ chunks'[n + 1] = c
  BY <1>1, <1>2, <1>3, AppendProperties, SMTT(30)
<1>5. \A i \in 1 .. n + 1 : i \in 1 .. n \/ i = n + 1
  BY <1>1
<1>6. /\ \A f, i : LineOfByte(f, i)' = LineOfByte(f, i)
      /\ Content' = Content
  BY DEF LineOfByte, Content
<1>7. VectorProgress' /\ vectors' \in Seq({Text(i) : i \in 1 .. Len(chunks)})'
      /\ Len(vectors') <= Len(chunks')
  BY <1>1, <1>4, NoVectors
<1>8. ChunkTypeOK'
  <2>1. \A i \in 1 .. Len(chunks') : chunks'[i].file \in 1 .. Len(files')
    BY <1>1, <1>2, <1>4, <1>5 DEF ChunkIInv, ChunksInv, ChunkTypeOK
  <2>2. pos' \in Nat /\ line' \in Nat
    BY <1>3
  <2> QED BY <1>1, <1>4, <1>7, <2>1, <2>2 DEF ChunkTypeOK, Phases
<1>9. /\ \A i \in 1 .. n : chunks[i].file <= file
      /\ \A f \in 1 .. file - 1 : files[f].content # <<>> =>
           \E i \in 1 .. n : chunks[i].file = f /\ chunks[i].to = Len(files[f].content)
      /\ pos = IF chunks # <<>> /\ chunks[n].file = file THEN chunks[n].to ELSE 0
  BY DEF ChunkIInv, SplitProgress
<1>10. ChunksTile'
  <2>1. ASSUME NEW i \in 1 .. n
        PROVE  /\ i > 1 => chunks'[i - 1].file <= chunks'[i].file
               /\ chunks'[i].from = IF i > 1 /\ chunks'[i - 1].file = chunks'[i].file
                                    THEN chunks'[i - 1].to ELSE 0
               /\ chunks'[i].from < chunks'[i].to /\ chunks'[i].to <= chunks'[i].from + MaxInput
               /\ chunks'[i].to <= Len(files'[chunks'[i].file].content)
               /\ chunks'[i].to < Len(files'[chunks'[i].file].content) =>
                    RuneStart(files'[chunks'[i].file].content[chunks'[i].to + 1])
    <3>1. chunks'[i] = chunks[i] /\ (i > 1 => chunks'[i - 1] = chunks[i - 1]) /\ files' = files
      <4>1. i > 1 => i - 1 \in 1 .. n
        BY <1>1
      <4> QED BY <1>4, <4>1
    <3>2. /\ i > 1 => chunks[i - 1].file <= chunks[i].file
          /\ chunks[i].from = IF i > 1 /\ chunks[i - 1].file = chunks[i].file
                              THEN chunks[i - 1].to ELSE 0
          /\ chunks[i].from < chunks[i].to /\ chunks[i].to <= chunks[i].from + MaxInput
          /\ chunks[i].to <= Len(files[chunks[i].file].content)
          /\ chunks[i].to < Len(files[chunks[i].file].content) =>
               RuneStart(files[chunks[i].file].content[chunks[i].to + 1])
      BY DEF ChunkIInv, ChunksInv, ChunksTile
    <3> QED BY <3>1, <3>2
  <2>2. LET i == n + 1 IN
               /\ i > 1 => chunks'[i - 1].file <= chunks'[i].file
               /\ chunks'[i].from = IF i > 1 /\ chunks'[i - 1].file = chunks'[i].file
                                    THEN chunks'[i - 1].to ELSE 0
               /\ chunks'[i].from < chunks'[i].to /\ chunks'[i].to <= chunks'[i].from + MaxInput
               /\ chunks'[i].to <= Len(files'[chunks'[i].file].content)
               /\ chunks'[i].to < Len(files'[chunks'[i].file].content) =>
                    RuneStart(files'[chunks'[i].file].content[chunks'[i].to + 1])
    <3>1. n + 1 - 1 = n /\ (n + 1 > 1 <=> n \in 1 .. n) /\ (n + 1 > 1 <=> chunks # <<>>)
      BY <1>1
    <3>2. n + 1 > 1 => chunks'[n] = chunks[n]
      BY <1>4, <3>1
    <3>3. n + 1 > 1 => chunks'[n + 1 - 1].file <= chunks'[n + 1].file
      BY <1>2, <1>4, <1>9, <3>1, <3>2
    <3>4. chunks'[n + 1].from = IF n + 1 > 1 /\ chunks'[n + 1 - 1].file = chunks'[n + 1].file
                                THEN chunks'[n + 1 - 1].to ELSE 0
      BY <1>2, <1>4, <1>9, <3>1, <3>2
    <3>5. files'[chunks'[n + 1].file].content = Content
      BY <1>2, <1>4 DEF Content
    <3> QED BY <1>2, <1>4, <3>3, <3>4, <3>5, SMTT(30)
  <2> HIDE DEF n
  <2>3. \A i \in 1 .. n + 1 :
               /\ i > 1 => chunks'[i - 1].file <= chunks'[i].file
               /\ chunks'[i].from = IF i > 1 /\ chunks'[i - 1].file = chunks'[i].file
                                    THEN chunks'[i - 1].to ELSE 0
               /\ chunks'[i].from < chunks'[i].to /\ chunks'[i].to <= chunks'[i].from + MaxInput
               /\ chunks'[i].to <= Len(files'[chunks'[i].file].content)
               /\ chunks'[i].to < Len(files'[chunks'[i].file].content) =>
                    RuneStart(files'[chunks'[i].file].content[chunks'[i].to + 1])
    BY <1>5, <2>1, <2>2
  <2> QED BY <1>4, <2>3 DEF ChunksTile
<1>11. LinesExact'
  <2> SUFFICES ASSUME NEW i \in 1 .. n + 1
               PROVE  IF Kept(files[chunks'[i].file])
                      THEN /\ chunks'[i].StartLine = files[chunks'[i].file].start
                           /\ chunks'[i].EndLine = files[chunks'[i].file].end
                      ELSE ~LongLine(files[chunks'[i].file].content) =>
                        /\ chunks'[i].StartLine = LineOfByte(chunks'[i].file, chunks'[i].from + 1)
                        /\ chunks'[i].EndLine = LineOfByte(chunks'[i].file, chunks'[i].to)
    <3>1. Len(chunks') = n + 1 /\ files' = files
      BY <1>4
    <3> QED BY <1>6, <3>1 DEF LinesExact
  <2>1. CASE i \in 1 .. n
    <3>1. chunks'[i] = chunks[i] /\ files' = files
      BY <1>4, <2>1
    <3> QED BY <2>1, <3>1 DEF ChunkIInv, ChunksInv, LinesExact
  <2>2. CASE i = n + 1
    <3>1. chunks'[i] = c /\ files[c.file].content = Content /\ c.file = file
      BY <1>2, <1>4, <2>2 DEF Content
    <3> QED BY <1>2, <3>1
  <2> QED BY <1>5, <2>1, <2>2
<1>12. SplitProgress'
  <2>1. \A i \in 1 .. Len(chunks') : chunks'[i].file <= file'
    BY <1>1, <1>2, <1>4, <1>5, <1>9, SMTT(30)
  <2>2. ASSUME NEW f \in 1 .. file' - 1, files'[f].content # <<>>
        PROVE  \E i \in 1 .. Len(chunks') : chunks'[i].file = f /\ chunks'[i].to = Len(files'[f].content)
    <3>1. PICK i \in 1 .. n : chunks[i].file = f /\ chunks[i].to = Len(files[f].content)
      BY <1>9, <2>2
    <3>2. i \in 1 .. Len(chunks') /\ chunks'[i] = chunks[i]
      BY <1>1, <1>4
    <3> QED BY <3>1, <3>2
  <2>3. chunks'[Len(chunks')].file = file' /\ chunks'[Len(chunks')].to = to /\ chunks' # <<>>
    BY <1>2, <1>4
  <2>4. pos' <= Len(Content') /\ (pos' < Len(Content') => RuneStart(Content'[pos' + 1]))
    BY <1>3, <1>6
  <2>5. ~LongLine(Content') /\ pos' < Len(Content') => line' = LineOfByte(file, pos' + 1)
    BY <1>3, <1>6
  <2>6. LineOfByte(file, pos + 1)' = LineOfByte(file, pos' + 1) /\ pos' # 0
    BY <1>1, <1>3 DEF LineOfByte
  <2> QED BY <1>3, <2>1, <2>2, <2>3, <2>4, <2>5, <2>6 DEF SplitProgress
<1> QED BY <1>1, <1>7, <1>8, <1>10, <1>11, <1>12 DEF ChunkIInv, ChunksInv

\* A chunk of the parser that fits is kept; another part of a file is cut off.
LEMMA KeepOrSplit ==
  ASSUME ChunkIInv, KeepChunk \/ SplitChunk
  PROVE  ChunkIInv'
<1>1. phase = "split" /\ file <= Len(files) /\ Remaining > 0
  BY DEF KeepChunk, SplitChunk
<1>2. files \in Files /\ file \in 1 .. Len(files) /\ pos \in Nat /\ line \in Nat
  BY <1>1, SplitTypes
<1>3. Len(Content) \in Nat /\ files[file].end \in Nat
  BY <1>2, FileFacts DEF Content
<1>4. CASE KeepChunk
  <2>1. /\ pos = 0 /\ 0 < Len(Content) - pos /\ Len(Content) - pos <= MaxInput
        /\ files[file].kind = "parsed" /\ AppendChunk(Len(Content), files[file].end)
    BY <1>4 DEF KeepChunk, Remaining
  <2>2. pos < Len(Content) /\ Len(Content) <= Len(Content) /\ Len(Content) <= pos + MaxInput
        /\ ~(Len(Content) < Len(Content))
    BY <1>2, <1>3, <2>1, MaxInputAssumption
  <2>3. Kept(files[file]) /\ line = files[file].start
    BY <1>1, <1>3, <2>1 DEF ChunkIInv, SplitProgress, Kept, Content
  <2>4. UNCHANGED <<files, inputLimit, file, phase, vectors, points>>
    BY <1>4 DEF KeepChunk
  <2> QED BY <1>1, <1>3, <2>1, <2>2, <2>3, <2>4, ChunkAppended
<1>5. CASE SplitChunk
  <2>1. AppendChunk(ChunkEnd, LastLine(pos, ChunkEnd))
        /\ UNCHANGED <<files, inputLimit, file, phase, vectors, points>>
    BY <1>5 DEF SplitChunk
  <2>2. /\ ChunkEnd \in Nat /\ pos < ChunkEnd /\ ChunkEnd <= Len(Content)
        /\ ChunkEnd <= pos + MaxInput
        /\ ChunkEnd < Len(Content) => RuneStart(Content[ChunkEnd + 1])
    BY <1>1, ChunkEndFacts
  <2>3. /\ LastLine(pos, ChunkEnd) \in Nat
        /\ ~LongLine(Content) =>
             /\ line = LineOfByte(file, pos + 1)
             /\ LastLine(pos, ChunkEnd) = LineOfByte(file, ChunkEnd)
             /\ ChunkEnd < Len(Content) =>
                  LastLine(pos, ChunkEnd) + 1 = LineOfByte(file, ChunkEnd + 1)
    BY <1>1, LastLineFacts
  <2>4. ~Kept(files[file])
    BY <1>3, <1>5, MaxInputAssumption DEF SplitChunk, Kept, Content
  <2> QED BY <1>1, <2>1, <2>2, <2>3, <2>4, ChunkAppended
<1> QED BY <1>4, <1>5

\* When the chunks and the files stay, so does what is true of them.
LEMMA ChunksStay ==
  ASSUME ChunkIInv, UNCHANGED <<files, inputLimit, chunks>>,
         phase = "split" \/ phase' # "split",
         phase' # "split" => \A f \in 1 .. Len(files) : files[f].content # <<>> =>
           \E i \in 1 .. Len(chunks) : chunks[i].file = f /\ chunks[i].to = Len(files[f].content)
  PROVE  ChunksTile' /\ LinesExact' /\ \A i : Text(i)' = Text(i)
<1>1. \A f, i : LineOfByte(f, i)' = LineOfByte(f, i)
  BY DEF LineOfByte
<1>2. LinesExact'
  <2>1. \A i \in 1 .. Len(chunks') :
          /\ LineOfByte(chunks[i].file, chunks[i].from + 1)' =
               LineOfByte(chunks'[i].file, chunks'[i].from + 1)
          /\ LineOfByte(chunks[i].file, chunks[i].to)' = LineOfByte(chunks'[i].file, chunks'[i].to)
    BY DEF LineOfByte
  <2> QED BY <2>1 DEF ChunkIInv, ChunksInv, LinesExact
<1>3. ChunksTile'
  BY DEF ChunkIInv, ChunksInv, ChunksTile
<1>4. \A i : Text(i)' = Text(i)
  BY DEF Text
<1> QED BY <1>2, <1>3, <1>4

LEMMA NextFileStep ==
  ASSUME ChunkIInv, NextFile
  PROVE  ChunkIInv'
<1>1. phase = "split" /\ file <= Len(files) /\ Remaining = 0 /\ file' = file + 1 /\ pos' = 0
      /\ line' = (IF file < Len(files) THEN files[file + 1].start ELSE line)
      /\ UNCHANGED <<files, inputLimit, chunks, phase, vectors, points>>
  BY DEF NextFile
<1>2. /\ files \in Files /\ Len(files) \in Nat /\ file \in 1 .. Len(files)
      /\ pos \in Nat /\ line \in Nat /\ chunks \in Seq(Chunk) /\ Len(chunks) \in Nat
      /\ vectors = <<>> /\ DOMAIN points = {}
  BY <1>1, SplitTypes
<1>3. ChunksTile' /\ LinesExact'
  BY <1>1, ChunksStay
<1>4. VectorProgress' /\ vectors' \in Seq({Text(i) : i \in 1 .. Len(chunks)})'
      /\ Len(vectors') <= Len(chunks')
  BY <1>1, <1>2, NoVectors
<1>5. file' \in 1 .. Len(files') + 1 /\ pos' \in Nat /\ line' \in Nat
  <2>1. file < Len(files) => file + 1 \in 1 .. Len(files)
    BY <1>2
  <2>2. file < Len(files) => files[file + 1].start \in Nat
    BY <1>2, <2>1, FileFacts
  <2> QED BY <1>1, <1>2, <2>2
<1>6. ChunkTypeOK'
  BY <1>1, <1>4, <1>5 DEF ChunkIInv, ChunksInv, ChunkTypeOK
<1>7. Len(Content) \in Nat /\ pos = Len(Content)
  <2>1. Len(Content) \in Nat /\ Len(Content) - pos = 0
    BY <1>1, <1>2, FileFacts DEF Content, Remaining
  <2> QED BY <1>2, <2>1
<1>8. /\ \A i \in 1 .. Len(chunks) : chunks[i].file \in Nat /\ chunks[i].file <= file
      /\ \A f \in 1 .. file - 1 : files[f].content # <<>> =>
           \E i \in 1 .. Len(chunks) : chunks[i].file = f /\ chunks[i].to = Len(files[f].content)
      /\ pos = IF chunks # <<>> /\ chunks[Len(chunks)].file = file
               THEN chunks[Len(chunks)].to ELSE 0
  <2>1. \A i \in 1 .. Len(chunks) : chunks[i] \in Chunk
    BY <1>2
  <2>2. \A i \in 1 .. Len(chunks) : chunks[i].file \in Nat
    BY <2>1 DEF Chunk
  <2> QED BY <1>1, <2>2 DEF ChunkIInv, SplitProgress
<1>9. SplitProgress'
  <2>1. \A i \in 1 .. Len(chunks') : chunks'[i].file <= file'
    BY <1>1, <1>2, <1>8
  <2>2. ASSUME NEW f \in 1 .. file' - 1, files'[f].content # <<>>
        PROVE  \E i \in 1 .. Len(chunks') : chunks'[i].file = f /\ chunks'[i].to = Len(files'[f].content)
    <3>1. CASE f \in 1 .. file - 1
      BY <1>1, <1>8, <2>2, <3>1
    <3>2. CASE f = file
      <4>1. Content # <<>> /\ Content \in Seq(Byte)
        BY <1>1, <1>2, <2>2, <3>2, FileFacts DEF Content
      <4>2. pos # 0
        BY <1>7, <4>1
      <4>3. Len(chunks) \in 1 .. Len(chunks) /\ chunks[Len(chunks)].file = file
            /\ chunks[Len(chunks)].to = Len(Content)
        BY <1>2, <1>7, <1>8, <4>2
      <4> QED BY <1>1, <3>2, <4>3 DEF Content
    <3> QED BY <1>1, <1>2, <3>1, <3>2
  <2>3. ASSUME file' <= Len(files')
        PROVE  /\ pos' <= Len(Content')
               /\ pos' < Len(Content') => RuneStart(Content'[pos' + 1])
               /\ pos' = IF chunks' # <<>> /\ chunks'[Len(chunks')].file = file'
                         THEN chunks'[Len(chunks')].to ELSE 0
               /\ line' = files'[file'].start
               /\ line' = LineOfByte(file, pos + 1)'
    <3> DEFINE g == file + 1
    <3>1. g \in 1 .. Len(files) /\ file < Len(files)
      BY <1>1, <1>2, <2>3
    <3>2. /\ Content' = files[g].content /\ Len(files[g].content) \in Nat
          /\ Encoded(files[g].content) /\ files[g].start \in Nat
      BY <1>1, <1>2, <3>1, FileFacts DEF Content
    <3>3. pos' <= Len(Content') /\ (pos' < Len(Content') => RuneStart(Content'[pos' + 1]))
      <4>1. ASSUME 0 < Len(Content') PROVE RuneStart(Content'[0 + 1])
        <5>1. 1 \in 1 .. Len(files[g].content) /\ ~(1 > 1) /\ 0 + 1 = 1
          BY <3>2, <4>1
        <5> QED BY <3>2, <5>1 DEF Encoded, RuneStart
      <4> QED BY <1>1, <3>2, <4>1
    <3>4. chunks' # <<>> => chunks'[Len(chunks')].file # file'
      <4>1. chunks # <<>> => Len(chunks) \in 1 .. Len(chunks)
        BY <1>2
      <4>2. chunks # <<>> => chunks[Len(chunks)].file <= file /\ chunks[Len(chunks)].file \in Nat
        BY <1>8, <4>1
      <4> QED BY <1>1, <1>2, <4>2
    <3>5. line' = LineOfByte(file, pos + 1)'
      <4>1. line' = files[g].start
        BY <1>1, <3>1
      <4>2. LineOfByte(file, pos + 1)' = files[g].start + Newlines(files[g].content, 0, 0)
        <5>1. pos' + 1 - 1 = 0
          BY <1>1
        <5> QED BY <1>1, <5>1 DEF LineOfByte
      <4>3. Newlines(files[g].content, 0, 0) = 0
        <5>1. 0 \in Nat /\ 0 <= 0 /\ \A j \in 0 + 1 .. 0 : files[g].content[j] # "nl"
          OBVIOUS
        <5> QED BY <5>1, NewlinesAdd, Zenon
      <4> QED BY <3>2, <4>1, <4>2, <4>3
    <3>6. line' = files'[file'].start
      BY <1>1, <3>1
    <3> QED BY <1>1, <3>3, <3>4, <3>5, <3>6
  <2> QED BY <2>1, <2>2, <2>3 DEF SplitProgress
<1> QED BY <1>1, <1>2, <1>3, <1>4, <1>6, <1>9 DEF ChunkIInv, ChunksInv

-----------------------------------------------------------------------------
(* ChunkPipeline: vectors and points.                                      *)

\* A step after the splitting keeps the chunks; its types and vectors remain to
\* be shown.
LEMMA AfterSplit ==
  ASSUME ChunkIInv, UNCHANGED <<files, inputLimit, file, pos, line, chunks>>,
         phase' \in Phases \ {"split"},
         phase = "split" => file > Len(files),
         vectors' \in Seq({Text(i) : i \in 1 .. Len(chunks)}), Len(vectors') <= Len(chunks),
         VectorProgress'
  PROVE  ChunkIInv'
<1>1. \A f \in 1 .. Len(files) : files[f].content # <<>> =>
        \E i \in 1 .. Len(chunks) : chunks[i].file = f /\ chunks[i].to = Len(files[f].content)
  <2>1. CASE phase = "split"
    <3>1. Len(files) \in Nat /\ file \in 1 .. Len(files) + 1
      BY <2>1, SplitTypes
    <3>2. 1 .. Len(files) = 1 .. file - 1
      BY <2>1, <3>1
    <3> QED BY <2>1, <3>2 DEF ChunkIInv, SplitProgress
  <2>2. CASE phase # "split"
    BY <2>2 DEF ChunkIInv, ChunksInv, ChunksTile
  <2> QED BY <2>1, <2>2
<1>2. ChunksTile' /\ LinesExact' /\ \A i : Text(i)' = Text(i)
  BY <1>1, ChunksStay
<1>3. {Text(i) : i \in 1 .. Len(chunks)}' = {Text(i) : i \in 1 .. Len(chunks)}
  BY DEF Text
<1>4. ChunkTypeOK'
  <2>1. vectors' \in Seq({Text(i) : i \in 1 .. Len(chunks)})'
    BY <1>3
  <2> QED BY <2>1 DEF ChunkIInv, ChunksInv, ChunkTypeOK
<1>5. SplitProgress'
  BY DEF SplitProgress
<1> QED BY <1>2, <1>4, <1>5 DEF ChunkIInv, ChunksInv

\* The next batch of at most `size` of n items.
LEMMA BatchFacts ==
  ASSUME NEW done \in Nat, NEW n \in Nat, NEW size \in Nat \ {0}, done < n
  PROVE  \E m \in Nat : /\ done < m /\ m <= n
                        /\ BatchAfter(done, n, size) = done + 1 .. m
                        /\ Cardinality(BatchAfter(done, n, size)) = m - done
                        /\ Min(BatchAfter(done, n, size)) = done + 1
<1> DEFINE m == Min({done + size, n})
           B == done + 1 .. m
<1>1. m = IF done + size <= n THEN done + size ELSE n
  BY MinOfTwo
<1>2. m \in Nat /\ done < m /\ m <= n
  BY <1>1
<1> HIDE DEF m
<1>3. Cardinality(B) = m - done
  BY <1>2, FS_Interval
<1>4. Min(B) = done + 1
  <2>1. done + 1 \in B /\ \A y \in B : done + 1 =< y
    BY <1>2
  <2>2. Min(B) \in B /\ \A y \in B : Min(B) =< y
    <3> HIDE DEF B
    <3> QED BY <2>1 DEF Min
  <2>3. Min(B) \in Int /\ Min(B) =< done + 1 /\ done + 1 =< Min(B)
    <3> DEFINE x == Min(B)
    <3>1. x \in B /\ x =< done + 1
      BY <2>1, <2>2
    <3> HIDE DEF x
    <3>2. x \in Int /\ done + 1 =< x
      BY <3>1
    <3> QED BY <3>1, <3>2 DEF x
  <2> DEFINE x == Min(B)
  <2> HIDE DEF x
  <2>4. x = done + 1
    BY <2>3 DEF x
  <2> QED BY <2>4 DEF x
<1>5. BatchAfter(done, n, size) = B
  BY DEF BatchAfter, m
<1> HIDE DEF B
<1>6. BatchAfter(done, n, size) = done + 1 .. m
  BY <1>5 DEF B
<1> QED BY <1>2, <1>3, <1>4, <1>5, <1>6

\* The parts of the invariant that a request uses.
LEMMA VectorTypes ==
  ASSUME ChunkIInv
  PROVE  /\ chunks \in Seq(Chunk) /\ Len(chunks) \in Nat
         /\ vectors \in Seq({Text(i) : i \in 1 .. Len(chunks)})
         /\ Len(vectors) \in Nat /\ Len(vectors) <= Len(chunks)
         /\ \E n \in 0 .. Len(chunks) : DOMAIN points = 1 .. n /\ Cardinality(DOMAIN points) = n
<1>1. /\ chunks \in Seq(Chunk) /\ vectors \in Seq({Text(i) : i \in 1 .. Len(chunks)})
      /\ Len(vectors) <= Len(chunks)
  BY DEF ChunkIInv, ChunksInv, ChunkTypeOK
<1>2. Len(chunks) \in Nat /\ Len(vectors) \in Nat
  BY <1>1
<1>3. PICK n \in 0 .. Len(chunks) : DOMAIN points = 1 .. n
  BY DEF ChunkIInv, VectorProgress
<1>4. Cardinality(1 .. n) = n
  BY <1>2, FS_Interval
<1> QED BY <1>1, <1>2, <1>3, <1>4

LEMMA EmbedStep ==
  ASSUME ChunkIInv, EmbedBatch
  PROVE  ChunkIInv'
<1> DEFINE done == Len(vectors)
           n == Len(chunks)
           batch == BatchAfter(done, n, EmbedBatchSize)
           T == {Text(i) : i \in 1 .. n}
           more == [k \in 1 .. Cardinality(batch) |-> Text(Min(batch) + k - 1)]
<1>1. phase = "embed" /\ done < n /\ vectors' = vectors \o more
      /\ UNCHANGED <<files, inputLimit, file, pos, line, chunks, phase, points>>
  BY DEF EmbedBatch
<1>2. n \in Nat /\ vectors \in Seq(T) /\ done \in Nat /\ done <= n
  BY VectorTypes
<1>3. PICK m \in Nat : done < m /\ m <= n /\ Cardinality(batch) = m - done /\ Min(batch) = done + 1
  BY <1>1, <1>2, BatchAssumption, BatchFacts
<1>4. more = [k \in 1 .. m - done |-> Text(done + 1 + k - 1)]
  BY <1>3
<1> HIDE DEF more
<1>5. \A k \in 1 .. m - done : done + 1 + k - 1 = done + k /\ done + k \in 1 .. n
  BY <1>2, <1>3
<1>6. more = [k \in 1 .. m - done |-> Text(done + k)]
  BY <1>4, <1>5
<1>7. more \in Seq(T) /\ Len(more) = m - done
  <2>1. m - done \in Nat
    BY <1>2, <1>3
  <2>2. more \in [1 .. m - done -> T]
    BY <1>5, <1>6
  <2> HIDE DEF T
  <2> QED BY <2>1, <2>2
<1>8. /\ vectors' \in Seq(T) /\ Len(vectors') = m
      /\ \A i \in 1 .. m : vectors'[i] = IF i <= done THEN vectors[i] ELSE more[i - done]
  <2> HIDE DEF T
  <2>1. /\ vectors \o more \in Seq(T) /\ Len(vectors \o more) = done + (m - done)
        /\ \A i \in 1 .. done + (m - done) :
             (vectors \o more)[i] = IF i <= done THEN vectors[i] ELSE more[i - done]
    BY <1>2, <1>7, ConcatProperties
  <2>2. done + (m - done) = m
    BY <1>2, <1>3
  <2> QED BY <1>1, <2>1, <2>2
<1>9. ASSUME NEW i \in 1 .. m PROVE vectors'[i] = Text(i)
  <2>1. CASE i <= done
    <3>1. i \in 1 .. Len(vectors)
      BY <1>2, <2>1
    <3>2. vectors[i] = Text(i)
      BY <3>1 DEF ChunkIInv, VectorProgress
    <3> QED BY <1>8, <2>1, <3>2
  <2>2. CASE ~(i <= done)
    <3>1. i - done \in 1 .. m - done /\ done + (i - done) = i
      BY <1>2, <1>3, <2>2
    <3>2. more[i - done] = Text(i)
      BY <1>6, <3>1
    <3> QED BY <1>8, <2>2, <3>2
  <2> QED BY <2>1, <2>2
<1>10. VectorProgress'
  <2>1. \A i : Text(i)' = Text(i)
    BY <1>1 DEF Text
  <2>2. \A i \in 1 .. Len(vectors') : vectors'[i] = Text(i)'
    BY <1>8, <1>9, <2>1
  <2>3. DOMAIN points = {} /\ (\E k \in 0 .. Len(chunks) : DOMAIN points = 1 .. k)
    BY <1>1 DEF ChunkIInv, VectorProgress
  <2> QED BY <1>1, <2>1, <2>2, <2>3 DEF VectorProgress
<1> QED BY <1>1, <1>3, <1>8, <1>10, AfterSplit DEF Phases

LEMMA UpsertStep ==
  ASSUME ChunkIInv, UpsertBatch
  PROVE  ChunkIInv'
<1> DEFINE n == Len(chunks)
           done == Cardinality(DOMAIN points)
           batch == BatchAfter(done, n, UpsertBatchSize)
<1>1. phase = "upsert" /\ done < n /\ points' = [i \in DOMAIN points \cup batch |-> vectors[i]]
      /\ UNCHANGED <<files, inputLimit, file, pos, line, chunks, phase, vectors>>
  BY DEF UpsertBatch
<1>2. /\ n \in Nat /\ Len(vectors) <= n /\ vectors \in Seq({Text(i) : i \in 1 .. n})
      /\ \E k \in 0 .. n : DOMAIN points = 1 .. k /\ done = k
  BY VectorTypes
<1>3. done \in Nat /\ DOMAIN points = 1 .. done
  BY <1>2
<1>4. PICK m \in Nat : done < m /\ m <= n /\ batch = done + 1 .. m
  <2>1. UpsertBatchSize \in Nat \ {0}
    BY BatchAssumption
  <2> HIDE DEF done, n
  <2>2. n \in Nat /\ done \in Nat /\ done < n
    BY <1>1, <1>2, <1>3
  <2>3. \E m \in Nat : /\ done < m /\ m <= n
                       /\ BatchAfter(done, n, UpsertBatchSize) = done + 1 .. m
                       /\ Cardinality(BatchAfter(done, n, UpsertBatchSize)) = m - done
                       /\ Min(BatchAfter(done, n, UpsertBatchSize)) = done + 1
    BY <2>1, <2>2, BatchFacts, Zenon
  <2> QED BY <2>3
<1> HIDE DEF done
<1>5. DOMAIN points \cup batch = 1 .. m
  BY <1>2, <1>3, <1>4
<1> HIDE DEF batch
<1>6. DOMAIN points' = 1 .. m /\ \A i \in 1 .. m : points'[i] = vectors[i]
  BY <1>1, <1>5
<1>7. Len(vectors) = n /\ \A i \in 1 .. Len(vectors) : vectors[i] = Text(i)
  BY <1>1 DEF ChunkIInv, VectorProgress
<1>8. \A i \in 1 .. m : vectors[i] = Text(i)
  BY <1>2, <1>4, <1>7
<1>9. VectorProgress'
  <2>1. \A i : Text(i)' = Text(i)
    BY <1>1 DEF Text
  <2>2. m \in 0 .. Len(chunks')
    BY <1>1, <1>2, <1>4
  <2>3. \A i \in DOMAIN points' : points'[i] = Text(i)'
    BY <1>6, <1>8, <2>1
  <2>4. \A i \in 1 .. Len(vectors') : vectors'[i] = Text(i)'
    BY <1>1, <1>7, <2>1
  <2> QED BY <1>1, <1>6, <1>7, <2>2, <2>3, <2>4 DEF VectorProgress
<1> QED BY <1>1, <1>2, <1>9, AfterSplit DEF Phases

\* The steps that only change the phase.
LEMMA PhaseStep ==
  ASSUME ChunkIInv, StartEmbedding \/ Embedded \/ Upserted \/ RequestFails
  PROVE  ChunkIInv'
<1>1. /\ UNCHANGED <<files, inputLimit, file, pos, line, chunks, vectors, points>>
      /\ phase' \in Phases \ {"split"} /\ (phase = "split" => file > Len(files))
  BY DEF StartEmbedding, Embedded, Upserted, RequestFails, Phases
<1>2. /\ chunks \in Seq(Chunk) /\ Len(chunks) \in Nat /\ Len(vectors) \in Nat
      /\ vectors \in Seq({Text(i) : i \in 1 .. Len(chunks)}) /\ Len(vectors) <= Len(chunks)
      /\ \E n \in 0 .. Len(chunks) : DOMAIN points = 1 .. n /\ Cardinality(DOMAIN points) = n
  BY VectorTypes
<1>3. \A i : Text(i)' = Text(i)
  BY <1>1 DEF Text
<1>4. /\ \A i \in 1 .. Len(vectors) : vectors[i] = Text(i)
      /\ \A i \in DOMAIN points : points[i] = Text(i)
      /\ phase = "split" => vectors = <<>>
      /\ phase \in {"split", "embed"} => DOMAIN points = {}
      /\ phase = "upsert" => Len(vectors) = Len(chunks)
  BY DEF ChunkIInv, VectorProgress
<1>5. phase' \in {"upsert", "done"} => Len(vectors) = Len(chunks)
  BY <1>2, <1>4 DEF StartEmbedding, Embedded, Upserted, RequestFails
<1>6. phase' = "embed" => DOMAIN points = {}
  BY <1>4 DEF StartEmbedding, Embedded, Upserted, RequestFails
<1>7. phase' = "done" => DOMAIN points = 1 .. Len(chunks)
  <2>1. CASE StartEmbedding
    BY <1>4, <2>1 DEF StartEmbedding
  <2>2. CASE Upserted
    BY <1>2, <2>2 DEF Upserted
  <2> QED BY <2>1, <2>2 DEF Embedded, RequestFails
<1>8. VectorProgress'
  BY <1>1, <1>2, <1>3, <1>4, <1>5, <1>6, <1>7 DEF VectorProgress
<1> QED BY <1>1, <1>2, <1>8, AfterSplit

-----------------------------------------------------------------------------
(* ChunkPipeline: the invariant.                                           *)

LEMMA ChunkInitial ==
  ASSUME NEW maxTokens, ChunkInit(maxTokens)
  PROVE  ChunkIInv
<1>1. /\ files \in Files /\ file = 1 /\ pos = 0 /\ line = files[1].start
      /\ chunks = <<>> /\ vectors = <<>> /\ points = <<>> /\ phase = "split"
  BY DEF ChunkInit
<1>2. files \in Seq(SourceFile) /\ files # <<>>
  BY <1>1, FilesAssumption
<1>3. Len(files) \in Nat /\ 1 \in 1 .. Len(files)
  BY <1>2
<1>4. Content = files[1].content /\ Len(Content) \in Nat /\ Encoded(Content) /\ files[1].start \in Nat
  BY <1>1, <1>3, FileFacts DEF Content
<1>5. Len(chunks) = 0 /\ Len(vectors) = 0 /\ DOMAIN points = {} /\ 1 .. 0 = {}
  BY <1>1
<1>6. ChunkTypeOK
  <2>1. vectors \in Seq({Text(i) : i \in 1 .. Len(chunks)}) /\ chunks \in Seq(Chunk)
    BY <1>1
  <2> QED BY <1>1, <1>3, <1>4, <1>5, <2>1 DEF ChunkTypeOK, Phases
<1>7. ChunksTile /\ LinesExact
  BY <1>1, <1>5 DEF ChunksTile, LinesExact
<1>8. SplitProgress
  <2>1. 0 < Len(Content) => RuneStart(Content[1])
    <3>1. 0 < Len(Content) => 1 \in 1 .. Len(Content) /\ ~(1 > 1)
      BY <1>4
    <3> QED BY <1>4, <3>1 DEF Encoded, RuneStart
  <2>2. line = LineOfByte(file, pos + 1)
    <3>1. pos + 1 - 1 = 0
      BY <1>1
    <3>2. Newlines(files[1].content, 0, 0) = 0
      <4>1. 0 \in Nat /\ 0 <= 0 /\ \A j \in 0 + 1 .. 0 : files[1].content[j] # "nl"
        OBVIOUS
      <4> QED BY <4>1, NewlinesAdd, Zenon
    <3>3. LineOfByte(file, pos + 1) = files[1].start + Newlines(files[1].content, 0, 0)
      BY <1>1, <3>1 DEF LineOfByte
    <3> QED BY <1>1, <1>4, <3>2, <3>3
  <2> QED BY <1>1, <1>4, <1>5, <2>1, <2>2 DEF SplitProgress
<1>9. VectorProgress
  <2>1. 0 \in 0 .. Len(chunks)
    BY <1>5
  <2> QED BY <1>1, <1>5, <2>1 DEF VectorProgress
<1> QED BY <1>1, <1>6, <1>7, <1>8, <1>9 DEF ChunkIInv, ChunksInv

LEMMA ChunkStep == ChunkIInv /\ [ChunkNext]_chunkVars => ChunkIInv'
<1> SUFFICES ASSUME ChunkIInv, [ChunkNext]_chunkVars PROVE ChunkIInv'
  OBVIOUS
<1>1. CASE UNCHANGED chunkVars
  <2>1. UNCHANGED <<files, inputLimit, file, pos, line, chunks, phase, vectors, points>>
    BY <1>1 DEF chunkVars
  <2>2. ChunksTile' /\ LinesExact' /\ \A i : Text(i)' = Text(i)
    <3>1. phase' # "split" => \A f \in 1 .. Len(files) : files[f].content # <<>> =>
            \E i \in 1 .. Len(chunks) : chunks[i].file = f /\ chunks[i].to = Len(files[f].content)
      BY <2>1 DEF ChunkIInv, ChunksInv, ChunksTile
    <3> QED BY <2>1, <3>1, ChunksStay
  <2>3. VectorProgress'
    BY <2>1, <2>2 DEF ChunkIInv, VectorProgress
  <2>4. {Text(i) : i \in 1 .. Len(chunks)}' = {Text(i) : i \in 1 .. Len(chunks)}
    BY <2>1 DEF Text
  <2>5. ChunkTypeOK'
    BY <2>1, <2>4 DEF ChunkIInv, ChunksInv, ChunkTypeOK
  <2>6. SplitProgress'
    BY <2>1 DEF ChunkIInv, SplitProgress, Content, LineOfByte
  <2> QED BY <2>1, <2>2, <2>3, <2>5, <2>6 DEF ChunkIInv, ChunksInv
<1>2. CASE ChunkNext
  BY <1>2, KeepOrSplit, NextFileStep, EmbedStep, UpsertStep, PhaseStep DEF ChunkNext
<1> QED BY <1>1, <1>2

\* The chunks of every file are its content, cut within the limit and between
\* runes, with the numbers of the lines they lie on.
THEOREM ChunksAreTheContent ==
  ASSUME NEW maxTokens PROVE ChunkSpec(maxTokens) => []ChunksInv
<1>1. ChunkInit(maxTokens) => ChunkIInv
  BY ChunkInitial
<1>2. ChunkIInv => ChunksInv
  BY DEF ChunkIInv
<1> QED BY <1>1, <1>2, ChunkStep, PTL DEF ChunkSpec

\* Every point in the vector store carries the vector of its own chunk, whatever
\* the sizes of the two kinds of batches, and none is missing at the end.
THEOREM PointsMatchChunks ==
  ASSUME NEW maxTokens PROVE ChunkSpec(maxTokens) => []VectorsMatch
<1>1. ChunkInit(maxTokens) => ChunkIInv
  BY ChunkInitial
<1>2. ChunkIInv => VectorsMatch
  <2> SUFFICES ASSUME ChunkIInv PROVE VectorsMatch
    OBVIOUS
  <2>1. DOMAIN chunks = 1 .. Len(chunks) /\ Len(chunks) \in Nat
    <3>1. chunks \in Seq(Chunk)
      BY VectorTypes
    <3> QED BY <3>1
  <2>2. DOMAIN points \subseteq 1 .. Len(chunks)
    <3>1. PICK n \in 0 .. Len(chunks) : DOMAIN points = 1 .. n
      BY DEF ChunkIInv, VectorProgress
    <3> QED BY <2>1, <3>1
  <2> QED BY <2>1, <2>2, Zenon DEF ChunkIInv, VectorProgress, VectorsMatch
<1> QED BY <1>1, <1>2, ChunkStep, PTL DEF ChunkSpec

-----------------------------------------------------------------------------
(* CommitHistory: the pages of the commit browser.                         *)

ReqFields == {"at", "op", "of", "path", "filter", "limit", "offset", "items", "total"}

LEMMA NoRequestFields == DOMAIN NoRequest = ReqFields
BY DEF NoRequest, ReqFields

\* More rows are never counted as fewer.
LEMMA CountGrows ==
  ASSUME NEW S, NEW T, IsFiniteSet(T), S \subseteq T
  PROVE  Cardinality(S) \in Nat /\ Cardinality(T) \in Nat /\ Cardinality(S) <= Cardinality(T)
<1>1. S \in SUBSET T
  OBVIOUS
<1>2. IsFiniteSet(S) /\ Cardinality(S) <= Cardinality(T)
  BY <1>1, FS_Subset
<1> QED BY <1>2, FS_CardinalityType

\* The rows a page is taken from are among those its total counts.
LEMMA CountedIs ==
  ASSUME PageProgress, NEW q, q.op \in {"list", "diffs", "diff", "history"}
  PROVE  /\ IsFiniteSet(Listed(q)) /\ Cardinality(Listed(q)) \in Nat /\ Counted(q) \in Nat
         /\ Cardinality(Listed(q)) <= Counted(q)
<1>1. IsFiniteSet(commits) /\ IsFiniteSet(diffRows)
  BY DEF PageProgress
<1>2. CASE q.op = "list"
  <2>1. Listed(q) = commits \cap q.filter /\ Counted(q) = Cardinality(commits \cap q.filter)
    BY <1>2 DEF Listed, Counted, buildCommitListQuery
  <2>2. IsFiniteSet(commits \cap q.filter)
    BY <1>1, FS_Intersection
  <2> QED BY <2>1, <2>2, CountGrows
<1>3. CASE q.op = "diffs"
  <2> DEFINE R == {d \in diffRows : d.commit = q.of}
  <2>1. Listed(q) = R /\ Counted(q) = Cardinality(R)
    BY <1>3 DEF Listed, Counted, ListCommitFileDiffs, CountCommitFileDiffs
  <2>2. IsFiniteSet(R)
    BY <1>1, FS_Subset
  <2> QED BY <2>1, <2>2, CountGrows
<1>4. CASE q.op = "diff"
  <2> DEFINE R == {d \in diffRows : d.commit = q.of}
             P == {d \in R : q.path \in {d.old, d.new}}
  <2>1. Listed(q) = P /\ Counted(q) = Cardinality(R)
    BY <1>4 DEF Listed, Counted, ListCommitFileDiffs, GetCommitFileDiff, CountCommitFileDiffs
  <2>2. IsFiniteSet(R) /\ P \subseteq R
    BY <1>1, FS_Subset
  <2>3. IsFiniteSet(P)
    BY <2>2, FS_Subset
  <2> QED BY <2>1, <2>2, <2>3, CountGrows
<1>5. CASE q.op = "history"
  <2> DEFINE R == {d \in diffRows : q.path \in {d.old, d.new}}
  <2>1. Listed(q) = R /\ Counted(q) = Cardinality(R)
    BY <1>5 DEF Listed, Counted, ListFileDiffsByPathWithCommit, CountFileDiffsByPath
  <2>2. IsFiniteSet(R)
    BY <1>1, FS_Subset
  <2> QED BY <2>1, <2>2, CountGrows
<1> QED BY <1>2, <1>3, <1>4, <1>5

\* A page is no longer than the limit, and within its rows.
LEMMA PageFits ==
  ASSUME NEW limit \in Nat, NEW offset \in Nat, NEW n \in Nat, NEW q, NEW S,
         q.limit = limit, q.offset = offset, Cardinality(S) = n
  PROVE  /\ PageSize(q, S) \in Nat
         /\ PageSize(q, S) > 0 => PageSize(q, S) <= limit /\ offset + PageSize(q, S) <= n
<1> DEFINE k == n - offset
           m == Min({limit, k})
           s == Max({0, m})
<1>1. PageSize(q, S) = s
  BY DEF PageSize
<1>2. m \in Int /\ m <= limit /\ m <= k
  <2>1. \E x \in {limit, k} : \A y \in {limit, k} : x <= y
    OBVIOUS
  <2> HIDE DEF k
  <2>2. m \in {limit, k} /\ \A y \in {limit, k} : m <= y
    BY <2>1 DEF Min
  <2> QED BY <2>2 DEF k
<1> HIDE DEF m
<1>3. s \in {0, m} /\ s >= 0
  <2>1. \E x \in {0, m} : \A y \in {0, m} : x >= y
    BY <1>2
  <2>2. s \in {0, m} /\ \A y \in {0, m} : s >= y
    BY <2>1 DEF Max
  <2> QED BY <2>2
<1> HIDE DEF s
<1> QED BY <1>1, <1>2, <1>3

LEMMA PageInit == Init => PageProgress /\ PageCounts
<1> SUFFICES ASSUME Init PROVE PageProgress /\ PageCounts
  OBVIOUS
<1>1. req = NoRequest /\ commits = {} /\ diffRows = {}
  BY DEF Init
<1>2. req.at = "idle" /\ req.op = "list" /\ req.offset = 0 /\ req.items = 0 /\ DOMAIN req = DOMAIN NoRequest
  BY <1>1 DEF NoRequest
<1> QED BY <1>1, <1>2, FS_EmptySet DEF PageProgress, PageCounts

\* The rows grow one at a time.
LEMMA RowsGrow ==
  ASSUME PageProgress, Job
  PROVE  /\ UNCHANGED <<req, requests>> /\ commits \subseteq commits' /\ diffRows \subseteq diffRows'
         /\ IsFiniteSet(commits') /\ IsFiniteSet(diffRows')
<1> USE DEF rowVars, snapVars, planVars, workVars, reqVars
<1>a. IsFiniteSet(commits) /\ IsFiniteSet(diffRows)
  BY DEF PageProgress
<1>1. CASE InsertCommit
  <2>1. commits' = commits \cup {Head(rest)} /\ UNCHANGED <<diffRows, req, requests>>
    BY <1>1 DEF InsertCommit, CommitsWith
  <2> QED BY <1>a, <2>1, FS_AddElement
<1>2. ASSUME NEW p \in Paths, InsertCommitFileDiff(p)
      PROVE  /\ UNCHANGED <<req, requests>> /\ commits \subseteq commits' /\ diffRows \subseteq diffRows'
             /\ IsFiniteSet(commits') /\ IsFiniteSet(diffRows')
  <2>1. UNCHANGED <<commits, req, requests>> /\ InsertDiff(DiffRow(Head(rest), p))
    BY <1>2 DEF InsertCommitFileDiff
  <2>2. diffRows' = diffRows \/ diffRows' = diffRows \cup {DiffRow(Head(rest), p)}
    BY <2>1 DEF InsertDiff
  <2> QED BY <1>a, <2>1, <2>2, FS_AddElement
<1>3. CASE UNCHANGED <<commits, diffRows, req, requests>>
  BY <1>a, <1>3
<1>4. \/ InsertCommit \/ (\E p \in Paths : InsertCommitFileDiff(p))
      \/ UNCHANGED <<commits, diffRows, req, requests>>
  BY DEF Job, Begin, StartParents, NextParents, InsertCommitParent, NextDiffs, IndexingFails, Activate,
         BuildFails, Link, LinkFails, Return
<1> QED BY <1>1, <1>2, <1>3, <1>4

\* What is counted grows with the rows.
LEMMA CountedGrows ==
  ASSUME commits \subseteq commits', diffRows \subseteq diffRows', UNCHANGED req,
         IsFiniteSet(commits'), IsFiniteSet(diffRows'),
         req.op \in {"list", "diffs", "diff", "history"}
  PROVE  Counted(req) \in Nat /\ Counted(req)' \in Nat /\ Counted(req) <= Counted(req)'
<1>1. CASE req.op = "list"
  <2> DEFINE R == commits \cap req.filter
             N == commits' \cap req.filter
  <2>1. Counted(req) = Cardinality(R) /\ Counted(req)' = Cardinality(N)
    BY <1>1 DEF Counted, buildCommitListQuery
  <2>2. IsFiniteSet(N) /\ R \subseteq N
    BY FS_Intersection
  <2> HIDE DEF R, N
  <2> QED BY <2>1, <2>2, CountGrows
<1>2. CASE req.op \in {"diffs", "diff"}
  <2> DEFINE R == {d \in diffRows : d.commit = req.of}
             N == {d \in diffRows' : d.commit = req.of}
  <2>1. Counted(req) = Cardinality(R) /\ Counted(req)' = Cardinality(N)
    BY <1>2 DEF Counted, CountCommitFileDiffs
  <2>2. N \in SUBSET diffRows' /\ R \subseteq N
    OBVIOUS
  <2>3. IsFiniteSet(N)
    BY <2>2, FS_Subset
  <2> HIDE DEF R, N
  <2> QED BY <2>1, <2>2, <2>3, CountGrows
<1>3. CASE req.op = "history"
  <2> DEFINE R == {d \in diffRows : req.path \in {d.old, d.new}}
             N == {d \in diffRows' : req.path \in {d.old, d.new}}
  <2>1. Counted(req) = Cardinality(R) /\ Counted(req)' = Cardinality(N)
    BY <1>3 DEF Counted, CountFileDiffsByPath
  <2>2. N \in SUBSET diffRows' /\ R \subseteq N
    OBVIOUS
  <2>3. IsFiniteSet(N)
    BY <2>2, FS_Subset
  <2> HIDE DEF R, N
  <2> QED BY <2>1, <2>2, <2>3, CountGrows
<1> QED BY <1>1, <1>2, <1>3

\* A job inserts beside a request.
LEMMA JobKeepsPages ==
  ASSUME PageProgress, PageCounts, Job
  PROVE  PageProgress' /\ PageCounts'
<1>1. /\ UNCHANGED req /\ commits \subseteq commits' /\ diffRows \subseteq diffRows'
      /\ IsFiniteSet(commits') /\ IsFiniteSet(diffRows')
  BY RowsGrow
<1>2. PageCounts'
  BY <1>1 DEF PageCounts
<1>3. ASSUME req.at = "count", req.items > 0 PROVE req.offset + req.items <= Counted(req)'
  <2>1. /\ req.offset + req.items <= Counted(req) /\ req.offset \in Nat /\ req.items \in Nat
        /\ req.op \in {"list", "diffs", "diff", "history"}
    BY <1>3 DEF PageProgress
  <2>2. Counted(req) \in Nat /\ Counted(req)' \in Nat /\ Counted(req) <= Counted(req)'
    BY <1>1, <2>1, CountedGrows
  <2> QED BY <2>1, <2>2
<1>4. PageProgress'
  BY <1>1, <1>3 DEF PageProgress
<1> QED BY <1>2, <1>4

LEMMA PageLimitFits == ASSUME NEW a \in Nat PROVE PageLimit(a) \in 0..MaxLimit
<1> DEFINE k == IF a = 0 THEN DefaultLimit ELSE a
<1>1. k \in Nat /\ MaxLimit \in Nat
  BY HistoryBoundsAssumption
<1>2. PageLimit(a) = Min({MaxLimit, k})
  BY DEF PageLimit
<1> HIDE DEF k
<1>3. \E x \in {MaxLimit, k} : \A y \in {MaxLimit, k} : x <= y
  BY <1>1
<1>4. Min({MaxLimit, k}) \in {MaxLimit, k} /\ \A y \in {MaxLimit, k} : Min({MaxLimit, k}) <= y
  BY <1>3 DEF Min
<1> QED BY <1>1, <1>2, <1>4

\* What Done and Page make of a request.
LEMMA DoneIs ==
  ASSUME NEW q
  PROVE  /\ DOMAIN Done(q) = DOMAIN NoRequest /\ Done(q).at = "done" /\ Done(q).op = q.op
         /\ Done(q).offset = q.offset /\ Done(q).items = q.items /\ Done(q).total = q.total
BY DEF Done, NoRequest

LEMMA PageIs ==
  ASSUME NEW op, NEW of, NEW path, NEW F, NEW a \in Nat, NEW offset \in Nat
  PROVE  LET q == Page(op, of, path, F, a, offset)
         IN /\ DOMAIN q = DOMAIN NoRequest /\ q.op = op /\ q.offset = offset /\ q.items = 0
            /\ q.limit \in 0..MaxLimit
<1> DEFINE l == PageLimit(a)
<1>1. l \in 0..MaxLimit
  BY PageLimitFits
<1>2. Page(op, of, path, F, a, offset)
        = [NoRequest EXCEPT !.op = op, !.of = of, !.path = path, !.filter = F, !.limit = l, !.offset = offset]
  BY DEF Page
<1> HIDE DEF l
<1> QED BY <1>1, <1>2 DEF NoRequest

\* A request that comes in.
LEMMA ReceiveKeepsPages ==
  ASSUME PageProgress, NEW q, Receive(q), DOMAIN q = DOMAIN NoRequest, q.offset \in Nat, q.items = 0,
         q.limit \in 0..MaxLimit, q.op \in {"list", "get", "diffs", "diff", "history"},
         q.op = "diff" => q.offset = 0
  PROVE  PageProgress' /\ PageCounts'
<1>1. UNCHANGED <<commits, diffRows>>
  BY DEF Receive, rowVars
<1>2. CASE q.offset > MaxOffset
  <2>1. req' = Done(q)
    BY <1>2 DEF Receive
  <2>2. /\ DOMAIN req' = DOMAIN NoRequest /\ req'.at = "done" /\ req'.op = q.op
        /\ req'.offset = q.offset /\ req'.items = 0
    BY <2>1, DoneIs
  <2> QED BY <1>1, <2>2 DEF PageProgress, PageCounts
<1>3. CASE ~(q.offset > MaxOffset)
  <2> DEFINE at == IF q.op \in {"list", "history"} THEN "page" ELSE "commit"
  <2>1. req' = [q EXCEPT !.at = at]
    BY <1>3 DEF Receive
  <2>2. at \in {"page", "commit"} /\ (at = "page" <=> q.op \in {"list", "history"})
    OBVIOUS
  <2> HIDE DEF at
  <2>3. /\ DOMAIN req' = DOMAIN NoRequest /\ req'.at = at /\ req'.op = q.op
        /\ req'.offset = q.offset /\ req'.items = 0 /\ req'.limit = q.limit
    BY <2>1, NoRequestFields DEF ReqFields
  <2> QED BY <1>1, <2>2, <2>3 DEF PageProgress, PageCounts
<1> QED BY <1>2, <1>3

LEMMA RequestKeepsPages ==
  ASSUME PageProgress, NEW op \in {"list", "get", "diffs", "diff", "history"}, NEW of, NEW path, NEW F,
         NEW a \in Nat, NEW offset \in Nat, Receive(Page(op, of, path, F, a, offset)),
         op = "diff" => offset = 0
  PROVE  PageProgress' /\ PageCounts'
<1> DEFINE q == Page(op, of, path, F, a, offset)
<1>1. /\ DOMAIN q = DOMAIN NoRequest /\ q.op = op /\ q.offset = offset /\ q.items = 0
      /\ q.limit \in 0..MaxLimit
  BY PageIs
<1>2. Receive(q)
  OBVIOUS
<1> HIDE DEF q
<1> QED BY <1>1, <1>2, ReceiveKeepsPages

LEMMA HandlersKeepPages ==
  ASSUME PageProgress, HandleList \/ HandleGet \/ HandleDiffs \/ HandleFileHistory
  PROVE  PageProgress' /\ PageCounts'
<1>a. Limits \subseteq Nat /\ Offsets \subseteq Nat
  BY HistoryBoundsAssumption
<1>1. CASE HandleList
  <2>1. PICK F \in Filters, a \in Limits, o \in Offsets : Receive(Page("list", NoCommit, NoPath, F, a, o))
    BY <1>1, Zenon DEF HandleList
  <2>2. a \in Nat /\ o \in Nat
    BY <1>a
  <2> QED BY <2>1, <2>2, RequestKeepsPages
<1>2. CASE HandleGet
  <2>1. PICK c \in Commits : Receive(Page("get", c, NoPath, {}, 0, 0))
    BY <1>2, Zenon DEF HandleGet
  <2> QED BY <2>1, RequestKeepsPages
<1>3. CASE HandleDiffs
  <2>1. PICK c \in Commits :
          \/ \E a \in Limits, o \in Offsets : Receive(Page("diffs", c, NoPath, {}, a, o))
          \/ \E p \in Paths : Receive(Page("diff", c, p, {}, 0, 0))
    BY <1>3, Zenon DEF HandleDiffs
  <2>2. ASSUME NEW a \in Limits, NEW o \in Offsets, Receive(Page("diffs", c, NoPath, {}, a, o))
        PROVE  PageProgress' /\ PageCounts'
    <3>1. a \in Nat /\ o \in Nat
      BY <1>a
    <3> QED BY <2>2, <3>1, RequestKeepsPages
  <2>3. ASSUME NEW p \in Paths, Receive(Page("diff", c, p, {}, 0, 0))
        PROVE  PageProgress' /\ PageCounts'
    BY <2>3, RequestKeepsPages
  <2> QED BY <2>1, <2>2, <2>3
<1>4. CASE HandleFileHistory
  <2>1. PICK p \in Paths, a \in Limits, o \in Offsets : Receive(Page("history", NoCommit, p, {}, a, o))
    BY <1>4, Zenon DEF HandleFileHistory
  <2>2. a \in Nat /\ o \in Nat
    BY <1>a
  <2> QED BY <2>1, <2>2, RequestKeepsPages
<1> QED BY <1>1, <1>2, <1>3, <1>4

\* A statement of a request: the page, the row or the count.
LEMMA StatementsKeepPages ==
  ASSUME PageProgress, GetCommit \/ ReadPage \/ ReadDiff \/ ReadCount \/ ReadStats \/ ReadParents
  PROVE  PageProgress' /\ PageCounts'
<1>a. UNCHANGED <<commits, diffRows>>
  BY DEF GetCommit, ReadPage, ReadDiff, ReadCount, ReadStats, ReadParents, Respond, rowVars
<1>b. DOMAIN req = ReqFields /\ req.offset \in Nat /\ req.items \in Nat /\ MaxLimit \in Nat /\ MaxLimit >= 1
  BY NoRequestFields, HistoryBoundsAssumption DEF PageProgress
<1>c. ASSUME NEW q, q.op = req.op, q.of = req.of, q.path = req.path, q.filter = req.filter, req' = q
      PROVE  Counted(req)' = Counted(req)
  BY <1>a, <1>c DEF Counted, buildCommitListQuery, CountCommitFileDiffs, CountFileDiffsByPath
<1>1. CASE GetCommit
  <2>0. req.at = "commit" /\ req.items = 0
    BY <1>1 DEF GetCommit, PageProgress
  <2>1. CASE GetCommitByHash(req.of) = {}
    <3>1. req' = Done(req)
      BY <1>1, <2>1 DEF GetCommit, Respond
    <3>2. /\ DOMAIN req' = DOMAIN NoRequest /\ req'.at = "done" /\ req'.op = req.op
          /\ req'.offset = req.offset /\ req'.items = 0
      BY <2>0, <3>1, DoneIs
    <3> QED BY <1>a, <3>2 DEF PageProgress, PageCounts
  <2>2. CASE GetCommitByHash(req.of) # {}
    <3> DEFINE at == IF req.op = "get" THEN "stats" ELSE IF req.op = "diff" THEN "diff" ELSE "page"
    <3>1. req' = [req EXCEPT !.at = at]
      BY <1>1, <2>2 DEF GetCommit, Respond
    <3>2. /\ at \in {"stats", "diff", "page"} /\ (at = "stats" <=> req.op = "get")
          /\ at = "diff" <=> req.op = "diff"
      OBVIOUS
    <3> HIDE DEF at
    <3>3. /\ DOMAIN req' = DOMAIN req /\ req'.at = at /\ req'.op = req.op
          /\ req'.offset = req.offset /\ req'.items = req.items /\ req'.limit = req.limit
      BY <1>b, <3>1 DEF ReqFields
    <3> QED BY <1>a, <2>0, <3>2, <3>3 DEF PageProgress, PageCounts
  <2> QED BY <2>1, <2>2
<1>2. CASE ReadPage
  <2> DEFINE n == PageSize(req, Listed(req))
  <2>0. req.at = "page" /\ req.op \in {"list", "diffs", "history"} /\ req.limit \in 0..MaxLimit
    BY <1>2 DEF ReadPage, PageProgress
  <2>1. req' = [req EXCEPT !.at = "count", !.items = n]
    BY <1>2 DEF ReadPage, Respond
  <2>2. Cardinality(Listed(req)) \in Nat /\ Counted(req) \in Nat /\ Cardinality(Listed(req)) <= Counted(req)
    BY <2>0, CountedIs
  <2>3. n \in Nat /\ (n > 0 => n <= req.limit /\ req.offset + n <= Cardinality(Listed(req)))
    BY <1>b, <2>0, <2>2, PageFits
  <2> HIDE DEF n
  <2>4. /\ DOMAIN req' = DOMAIN req /\ req'.at = "count" /\ req'.op = req.op
        /\ req'.offset = req.offset /\ req'.items = n
        /\ req'.of = req.of /\ req'.path = req.path /\ req'.filter = req.filter
    BY <1>b, <2>1 DEF ReqFields
  <2>5. Counted(req)' = Counted(req)
    BY <1>c, <2>4
  <2>6. n > 0 => n <= MaxLimit /\ req.offset + n <= Counted(req)
    BY <1>b, <2>0, <2>2, <2>3
  <2> QED BY <1>a, <2>0, <2>3, <2>4, <2>5, <2>6 DEF PageProgress, PageCounts
<1>3. CASE ReadDiff
  <2>0. req.at = "diff" /\ req.op = "diff" /\ req.items = 0 /\ req.offset = 0
    BY <1>3 DEF ReadDiff, PageProgress
  <2>1. CASE Listed(req) = {}
    <3>1. req' = Done(req)
      BY <1>3, <2>1 DEF ReadDiff, Respond
    <3>2. /\ DOMAIN req' = DOMAIN NoRequest /\ req'.at = "done" /\ req'.op = req.op
          /\ req'.offset = req.offset /\ req'.items = 0
      BY <2>0, <3>1, DoneIs
    <3> QED BY <1>a, <2>0, <3>2 DEF PageProgress, PageCounts
  <2>2. CASE Listed(req) # {}
    <3>1. req' = [req EXCEPT !.at = "count", !.items = 1]
      BY <1>3, <2>2 DEF ReadDiff, Respond
    <3>2. /\ IsFiniteSet(Listed(req)) /\ Cardinality(Listed(req)) \in Nat /\ Counted(req) \in Nat
          /\ Cardinality(Listed(req)) <= Counted(req)
      BY <2>0, CountedIs
    <3>3. Cardinality(Listed(req)) # 0
      BY <2>2, <3>2, FS_EmptySet
    <3>4. /\ DOMAIN req' = DOMAIN req /\ req'.at = "count" /\ req'.op = req.op
          /\ req'.offset = req.offset /\ req'.items = 1
          /\ req'.of = req.of /\ req'.path = req.path /\ req'.filter = req.filter
      BY <1>b, <3>1 DEF ReqFields
    <3>5. Counted(req)' = Counted(req)
      BY <1>c, <3>4
    <3>6. req.offset + 1 <= Counted(req)
      BY <2>0, <3>2, <3>3
    <3> QED BY <1>a, <1>b, <2>0, <3>4, <3>5, <3>6 DEF PageProgress, PageCounts
  <2> QED BY <2>1, <2>2
<1>4. CASE ReadCount
  <2> DEFINE t == Counted(req)
             q == [req EXCEPT !.total = t]
  <2>0. req.at = "count"
    BY <1>4 DEF ReadCount
  <2>1. req' = Done(q)
    BY <1>4 DEF ReadCount, Respond
  <2> HIDE DEF t
  <2>2. q.op = req.op /\ q.offset = req.offset /\ q.items = req.items /\ q.total = t
    BY <1>b DEF ReqFields
  <2> HIDE DEF q
  <2>3. /\ DOMAIN req' = DOMAIN NoRequest /\ req'.at = "done" /\ req'.op = req.op
        /\ req'.offset = req.offset /\ req'.items = req.items /\ req'.total = t
    BY <2>1, <2>2, DoneIs
  <2>4. req.items > 0 => req.items <= MaxLimit /\ req.offset + req.items <= t
    BY <2>0 DEF PageProgress, t
  <2> QED BY <1>a, <2>3, <2>4 DEF PageProgress, PageCounts
<1>5. CASE ReadStats
  <2> DEFINE n == GetCommitDiffStats(req.of)
  <2>0. req.at = "stats" /\ req.op = "get"
    BY <1>5 DEF ReadStats, PageProgress
  <2>1. req' = [req EXCEPT !.at = "parents", !.items = n]
    BY <1>5 DEF ReadStats, Respond
  <2>2. n \in Nat
    <3> DEFINE R == {d \in diffRows : d.commit = req.of}
    <3>1. IsFiniteSet(R)
      BY FS_Subset DEF PageProgress
    <3> QED BY <3>1, FS_CardinalityType DEF GetCommitDiffStats
  <2> HIDE DEF n
  <2>3. /\ DOMAIN req' = DOMAIN req /\ req'.at = "parents" /\ req'.op = req.op
        /\ req'.offset = req.offset /\ req'.items = n
    BY <1>b, <2>1 DEF ReqFields
  <2> QED BY <1>a, <2>0, <2>2, <2>3 DEF PageProgress, PageCounts
<1>6. CASE ReadParents
  <2> DEFINE t == GetCommitParents(req.of)
             q == [req EXCEPT !.total = t]
  <2>0. req.at = "parents" /\ req.op = "get"
    BY <1>6 DEF ReadParents, PageProgress
  <2>1. req' = Done(q)
    BY <1>6 DEF ReadParents, Respond
  <2> HIDE DEF t
  <2>2. q.op = req.op /\ q.offset = req.offset /\ q.items = req.items
    BY <1>b DEF ReqFields
  <2> HIDE DEF q
  <2>3. /\ DOMAIN req' = DOMAIN NoRequest /\ req'.at = "done" /\ req'.op = req.op
        /\ req'.offset = req.offset /\ req'.items = req.items
    BY <2>1, <2>2, DoneIs
  <2> QED BY <1>a, <2>0, <2>3 DEF PageProgress, PageCounts
<1> QED BY <1>1, <1>2, <1>3, <1>4, <1>5, <1>6

LEMMA PagesNext ==
  ASSUME PageProgress, PageCounts, [Next]_vars
  PROVE  PageProgress' /\ PageCounts'
<1>1. CASE Job
  BY <1>1, JobKeepsPages
<1>2. CASE Browser
  BY <1>2, HandlersKeepPages, StatementsKeepPages DEF Browser
<1>3. CASE UNCHANGED vars
  <2>1. UNCHANGED <<commits, diffRows, req>>
    BY <1>3 DEF vars, rowVars, reqVars
  <2>2. Counted(req)' = Counted(req)
    BY <2>1 DEF Counted, buildCommitListQuery, CountCommitFileDiffs, CountFileDiffsByPath
  <2> QED BY <2>1, <2>2 DEF PageProgress, PageCounts
<1> QED BY <1>1, <1>2, <1>3 DEF Next

\* Although another statement counts them, and a job inserts rows in between, the
\* items of a page (HandleList, HandleDiffs, HandleFileHistory) are within its total.
THEOREM PagesWithinTotals == Spec => []PageCounts
<1>1. PageProgress /\ PageCounts /\ [Next]_vars => (PageProgress /\ PageCounts)'
  BY PagesNext
<1> QED BY <1>1, PageInit, PTL DEF Spec

-----------------------------------------------------------------------------
(* Induction over the naturals, carried out on sets.                       *)

Less == {p \in Nat \X Nat : p[1] < p[2]}

\* The order of the naturals, as a relation.
LEMMA LessWellFounded == IsWellFoundedOn(Less, Nat)
BY NatLessThanWellFounded, Zenon DEF OpToRel, Less

\* A non-empty set of naturals has a least element.
LEMMA LeastElement ==
  ASSUME NEW T, T \subseteq Nat, T # {}
  PROVE  \E x \in T : \A y \in T : x <= y
<1>1. PICK x \in T : \A y \in T : ~(<<y, x>> \in Less)
  BY LessWellFounded, WFMin
<1>2. ASSUME NEW y \in T PROVE x <= y
  <2>1. ~(<<y, x>> \in Less) /\ y \in Nat /\ x \in Nat
    BY <1>1
  <2> QED BY <2>1 DEF Less
<1> QED BY <1>2

\* A set with 0 and with the successors of its naturals has every natural.
LEMMA Induction ==
  ASSUME NEW S, 0 \in S, \A n \in Nat : n \in S => n + 1 \in S
  PROVE  Nat \subseteq S
<1> SUFFICES ASSUME ~(Nat \subseteq S) PROVE FALSE
  OBVIOUS
<1> DEFINE T == Nat \ S
<1>1. PICK x \in T : \A y \in T : x <= y
  <2>1. T \subseteq Nat /\ T # {}
    OBVIOUS
  <2> HIDE DEF T
  <2> QED BY <2>1, LeastElement
<1>2. x \in Nat /\ x # 0
  OBVIOUS
<1>3. x - 1 \in Nat /\ x - 1 \notin T
  BY <1>1, <1>2
<1>4. (x - 1) + 1 \in S /\ (x - 1) + 1 = x
  BY <1>2, <1>3
<1> QED BY <1>4

\* What holds of 0 and goes on to the next number up to n holds up to n.
LEMMA InductionTo ==
  ASSUME NEW n \in Nat, NEW S, 0 \in S, \A k \in 0..(n-1) : k \in S => k + 1 \in S
  PROVE  0..n \subseteq S
<1> DEFINE T == {k \in Nat : k <= n => k \in S}
<1>1. 0 \in T
  OBVIOUS
<1>2. ASSUME NEW k \in Nat, k \in T PROVE k + 1 \in T
  <2> SUFFICES ASSUME k + 1 <= n PROVE k + 1 \in S
    OBVIOUS
  <2>1. k \in 0..(n-1) /\ k \in S
    BY <1>2
  <2> QED BY <2>1
<1> HIDE DEF T
<1>3. Nat \subseteq T
  BY <1>1, <1>2, Induction
<1> QED BY <1>3 DEF T

-----------------------------------------------------------------------------
(* A state machine that reads a sequence: the states of its run, and the   *)
(* one after the last element.  Its step is a function, so that the lemmas *)
(* serve every fold.                                                       *)

\* A step takes a state of Y and an element of X to a state of Y.
Machine(g, Y, X) == g \in [Y \X X -> Y]

IsRun(r, g, y, s) ==
  /\ DOMAIN r = 0..Len(s) /\ r[0] = y
  /\ \A i \in 1..Len(s) : r[i] = g[<<r[i-1], s[i]>>]

After(g, y, s) == (CHOOSE r : IsRun(r, g, y, s))[Len(s)]

\* The run over every prefix of the sequence exists,
LEMMA RunTo ==
  ASSUME NEW Y, NEW X, NEW g, Machine(g, Y, X), NEW y \in Y, NEW s \in Seq(X)
  PROVE  \A n \in 0..Len(s) :
           \E r \in [0..n -> Y] : r[0] = y /\ \A i \in 1..n : r[i] = g[<<r[i-1], s[i]>>]
<1> DEFINE OK(r, n) == r[0] = y /\ \A i \in 1..n : r[i] = g[<<r[i-1], s[i]>>]
           S == {n \in 0..Len(s) : \E r \in [0..n -> Y] : OK(r, n)}
<1>0. Len(s) \in Nat
  OBVIOUS
<1>1. 0 \in S
  <2> DEFINE r0 == [k \in 0..0 |-> y]
  <2>1. r0 \in [0..0 -> Y] /\ OK(r0, 0)
    OBVIOUS
  <2> HIDE DEF r0, OK
  <2>2. \E r \in [0..0 -> Y] : OK(r, 0)
    BY <2>1
  <2>3. 0 \in 0..Len(s)
    BY <1>0
  <2> QED BY <2>2, <2>3
<1>2. ASSUME NEW n \in 0..(Len(s)-1), n \in S PROVE n + 1 \in S
  <2>1. PICK r \in [0..n -> Y] : OK(r, n)
    BY <1>2
  <2> DEFINE q == [k \in 0..(n+1) |-> IF k = n + 1 THEN g[<<r[n], s[n+1]>>] ELSE r[k]]
  <2>2. r[n] \in Y /\ s[n+1] \in X /\ <<r[n], s[n+1]>> \in Y \X X
    BY <1>0
  <2>3. q \in [0..(n+1) -> Y] /\ q[0] = y
    BY <1>0, <2>1, <2>2 DEF Machine
  <2>4. ASSUME NEW i \in 1..(n+1) PROVE q[i] = g[<<q[i-1], s[i]>>]
    <3>1. CASE i = n + 1
      <4>1. i - 1 = n /\ n \in 0..(n+1) /\ n # n + 1 /\ i \in 0..(n+1)
        BY <1>0, <3>1
      <4> QED BY <3>1, <4>1
    <3>2. CASE i # n + 1
      <4>1. i \in 1..n /\ i - 1 \in 0..(n+1) /\ i - 1 # n + 1 /\ i \in 0..(n+1)
        BY <1>0, <3>2
      <4> QED BY <2>1, <3>2, <4>1
    <3> QED BY <3>1, <3>2
  <2> HIDE DEF q
  <2>5. n + 1 \in 0..Len(s)
    BY <1>0
  <2> QED BY <2>3, <2>4, <2>5
<1> HIDE DEF S
<1>3. 0..Len(s) \subseteq S
  BY <1>0, <1>1, <1>2, InductionTo
<1> QED BY <1>3 DEF S

\* and so does the one over the whole sequence.
LEMMA RunExists ==
  ASSUME NEW Y, NEW X, NEW g, Machine(g, Y, X), NEW y \in Y, NEW s \in Seq(X)
  PROVE  \E r \in [0..Len(s) -> Y] : IsRun(r, g, y, s)
<1>1. Len(s) \in 0..Len(s)
  OBVIOUS
<1>2. PICK r \in [0..Len(s) -> Y] : r[0] = y /\ \A i \in 1..Len(s) : r[i] = g[<<r[i-1], s[i]>>]
  BY <1>1, RunTo
<1> QED BY <1>2 DEF IsRun

\* Two runs agree as long as they read the same.
LEMMA RunsAgree ==
  ASSUME NEW g, NEW y, NEW X, NEW s \in Seq(X), NEW t \in Seq(X), NEW r, NEW q, NEW n \in Nat,
         IsRun(r, g, y, s), IsRun(q, g, y, t), n <= Len(s), n <= Len(t),
         \A i \in 1..n : s[i] = t[i]
  PROVE  \A i \in 0..n : r[i] = q[i]
<1> DEFINE S == {i \in 0..n : r[i] = q[i]}
<1>0. Len(s) \in Nat /\ Len(t) \in Nat
  OBVIOUS
<1>1. 0 \in S
  BY DEF IsRun
<1>2. ASSUME NEW i \in 0..(n-1), i \in S PROVE i + 1 \in S
  <2>1. i + 1 \in 1..Len(s) /\ i + 1 \in 1..Len(t) /\ i + 1 \in 1..n /\ (i + 1) - 1 = i
    BY <1>0
  <2>2. r[i+1] = g[<<r[i], s[i+1]>>] /\ q[i+1] = g[<<q[i], t[i+1]>>]
    BY <2>1 DEF IsRun
  <2>3. r[i] = q[i] /\ s[i+1] = t[i+1]
    BY <1>2, <2>1
  <2>4. r[i+1] = q[i+1]
    BY <2>2, <2>3
  <2> QED BY <2>1, <2>4
<1> HIDE DEF S
<1>3. 0..n \subseteq S
  BY <1>1, <1>2, InductionTo
<1> QED BY <1>3 DEF S

\* After is the last state of any run, and the states are of the machine's type.
LEMMA AfterIs ==
  ASSUME NEW Y, NEW X, NEW g, Machine(g, Y, X), NEW y \in Y, NEW s \in Seq(X),
         NEW r, IsRun(r, g, y, s)
  PROVE  /\ After(g, y, s) = r[Len(s)]
         /\ \A i \in 0..Len(s) : r[i] \in Y
<1> DEFINE q == CHOOSE q : IsRun(q, g, y, s)
<1>0. Len(s) \in Nat /\ Len(s) <= Len(s)
  OBVIOUS
<1>1. IsRun(q, g, y, s)
  OBVIOUS
<1>2. PICK p \in [0..Len(s) -> Y] : IsRun(p, g, y, s)
  BY RunExists
<1> HIDE DEF q
<1>3. \A i \in 0..Len(s) : r[i] = q[i] /\ r[i] = p[i]
  BY <1>0, <1>1, <1>2, RunsAgree
<1>4. After(g, y, s) = q[Len(s)]
  BY DEF After, q
<1> QED BY <1>0, <1>2, <1>3, <1>4

\* Nothing read leaves the state as it is.
LEMMA AfterEmpty ==
  ASSUME NEW Y, NEW X, NEW g, Machine(g, Y, X), NEW y \in Y
  PROVE  After(g, y, <<>>) = y
<1>1. <<>> \in Seq(X) /\ Len(<<>>) = 0
  OBVIOUS
<1>2. PICK r \in [0..Len(<<>>) -> Y] : IsRun(r, g, y, <<>>)
  BY <1>1, RunExists
<1>3. After(g, y, <<>>) = r[Len(<<>>)]
  BY <1>1, <1>2, AfterIs
<1> QED BY <1>1, <1>2, <1>3 DEF IsRun

\* Reading two sequences is reading the first and then the second.
LEMMA AfterConcat ==
  ASSUME NEW Y, NEW X, NEW g, Machine(g, Y, X), NEW y \in Y, NEW s \in Seq(X), NEW t \in Seq(X)
  PROVE  /\ After(g, y, s) \in Y
         /\ After(g, y, s \o t) = After(g, After(g, y, s), t)
<1>0. Len(s) \in Nat /\ Len(t) \in Nat /\ s \o t \in Seq(X) /\ Len(s \o t) = Len(s) + Len(t)
  OBVIOUS
<1>1. PICK r \in [0..Len(s) -> Y] : IsRun(r, g, y, s)
  BY RunExists
<1>2. After(g, y, s) = r[Len(s)] /\ r[Len(s)] \in Y
  BY <1>0, <1>1, AfterIs
<1> DEFINE z == r[Len(s)]
<1>3. z \in Y
  BY <1>2
<1> HIDE DEF z
<1>4. PICK q \in [0..Len(t) -> Y] : IsRun(q, g, z, t)
  BY <1>3, RunExists
<1>5. After(g, z, t) = q[Len(t)]
  BY <1>3, <1>4, AfterIs
<1> DEFINE p == [i \in 0..(Len(s) + Len(t)) |-> IF i <= Len(s) THEN r[i] ELSE q[i - Len(s)]]
<1>6. IsRun(p, g, y, s \o t)
  <2>1. DOMAIN p = 0..Len(s \o t) /\ p[0] = y
    BY <1>0, <1>1 DEF IsRun
  <2>2. ASSUME NEW i \in 1..Len(s \o t) PROVE p[i] = g[<<p[i-1], (s \o t)[i]>>]
    <3>1. CASE i <= Len(s)
      <4>1. i \in 1..Len(s) /\ i - 1 <= Len(s) /\ i - 1 \in 0..(Len(s) + Len(t)) /\ i \in 0..(Len(s) + Len(t))
        BY <1>0, <3>1
      <4>2. (s \o t)[i] = s[i]
        BY <4>1
      <4>3. r[i] = g[<<r[i-1], s[i]>>]
        BY <1>1, <4>1 DEF IsRun
      <4> QED BY <3>1, <4>1, <4>2, <4>3
    <3>2. CASE ~(i <= Len(s))
      <4> DEFINE k == i - Len(s)
      <4>1. k \in 1..Len(t) /\ i - 1 \in 0..(Len(s) + Len(t)) /\ i \in 0..(Len(s) + Len(t))
        BY <1>0, <3>2
      <4>2. (s \o t)[i] = t[k]
        BY <1>0, <3>2
      <4>3. q[k] = g[<<q[k-1], t[k]>>]
        BY <1>4, <4>1 DEF IsRun
      <4>4. p[i] = q[k]
        BY <3>2, <4>1
      <4>5. p[i-1] = q[k-1]
        <5>1. CASE i - 1 <= Len(s)
          <6>1. i - 1 = Len(s) /\ k - 1 = 0
            BY <1>0, <3>2, <5>1
          <6> QED BY <1>4, <4>1, <5>1, <6>1 DEF IsRun, z
        <5>2. CASE ~(i - 1 <= Len(s))
          <6>1. (i - 1) - Len(s) = k - 1
            BY <1>0
          <6> QED BY <4>1, <5>2, <6>1
        <5> QED BY <5>1, <5>2
      <4> HIDE DEF k, p
      <4> QED BY <4>2, <4>3, <4>4, <4>5
    <3> QED BY <3>1, <3>2
  <2> HIDE DEF p
  <2> QED BY <2>1, <2>2 DEF IsRun
<1>7. p[Len(s \o t)] = q[Len(t)]
  <2>1. CASE Len(t) = 0
    BY <1>0, <1>4, <2>1 DEF IsRun, z
  <2>2. CASE Len(t) # 0
    BY <1>0, <2>2
  <2> QED BY <2>1, <2>2
<1> HIDE DEF p
<1>8. After(g, y, s \o t) = p[Len(s \o t)]
  BY <1>0, <1>6, AfterIs
<1> QED BY <1>2, <1>5, <1>7, <1>8 DEF z

\* Reading one element is one step.
LEMMA AfterOne ==
  ASSUME NEW Y, NEW X, NEW g, Machine(g, Y, X), NEW y \in Y, NEW x \in X
  PROVE  After(g, y, <<x>>) = g[<<y, x>>]
<1>1. <<x>> \in Seq(X) /\ Len(<<x>>) = 1 /\ <<x>>[1] = x
  OBVIOUS
<1>2. PICK r \in [0..Len(<<x>>) -> Y] : IsRun(r, g, y, <<x>>)
  BY <1>1, RunExists
<1>3. After(g, y, <<x>>) = r[Len(<<x>>)]
  BY <1>1, <1>2, AfterIs
<1>4. r[1] = g[<<r[1-1], <<x>>[1]>>] /\ r[0] = y
  BY <1>1, <1>2 DEF IsRun
<1> QED BY <1>1, <1>3, <1>4

-----------------------------------------------------------------------------
(* What FoldLeft computes is the state after the sequence.                 *)

\* The recursive function inside FoldLeft, by its equation.
IsFold(h, g, y, s) ==
  h = [t \in SUBSET DOMAIN s |-> IF t = {} THEN y ELSE g[<<h[t \ {Max(t)}], s[Max(t)]>>]]

\* The last number of an interval, and the interval without it.
LEMMA IntervalMax ==
  ASSUME NEW k \in Nat
  PROVE  Max(1..(k+1)) = k + 1 /\ (1..(k+1)) \ {k+1} = 1..k
<1> DEFINE m == Max(1..(k+1))
           n == k + 1
           T == 1..(k+1)
<1>1. n \in Nat /\ T \subseteq 0..n /\ n \in T
  OBVIOUS
<1>2. m \in T /\ m >= n
  <2>1. m = Max(T)
    OBVIOUS
  <2> HIDE DEF m, n, T
  <2> QED BY <1>1, <2>1, MaxExists
<1> HIDE DEF m
<1>3. m = k + 1
  BY <1>2
<1> QED BY <1>3 DEF m

\* A function that obeys it as far as its values are states.
FoldsBy(h, g, Y, y, s) ==
  /\ h[{}] = y
  /\ \A t \in SUBSET DOMAIN s :
       t # {} /\ h[t \ {Max(t)}] \in Y => h[t] = g[<<h[t \ {Max(t)}], s[Max(t)]>>]

\* A fold over the positions of a sequence ends where the machine does.
LEMMA FoldIsAfter ==
  ASSUME NEW Y, NEW X, NEW g, Machine(g, Y, X), NEW y \in Y, NEW s \in Seq(X),
         NEW h, FoldsBy(h, g, Y, y, s)
  PROVE  h[DOMAIN s] = After(g, y, s)
<1>0. Len(s) \in Nat /\ DOMAIN s = 1..Len(s)
  OBVIOUS
<1>1. PICK r \in [0..Len(s) -> Y] : IsRun(r, g, y, s)
  BY RunExists
<1>2. \A t \in SUBSET DOMAIN s :
        t # {} /\ h[t \ {Max(t)}] \in Y => h[t] = g[<<h[t \ {Max(t)}], s[Max(t)]>>]
  BY DEF FoldsBy
<1> DEFINE S == {k \in 0..Len(s) : h[1..k] = r[k]}
<1>3. 0 \in S
  <2>1. 1..0 = {}
    OBVIOUS
  <2> QED BY <1>0, <1>1, <2>1 DEF IsRun, FoldsBy
<1>4. ASSUME NEW k \in 0..(Len(s)-1), k \in S PROVE k + 1 \in S
  <2>1. 1..(k+1) \in SUBSET DOMAIN s /\ 1..(k+1) # {} /\ k \in Nat /\ k + 1 \in 0..Len(s)
    BY <1>0
  <2>2. h[1..k] = r[k] /\ r[k] \in Y
    BY <1>0, <1>1, <1>4
  <2>3. h[1..(k+1)] = g[<<h[1..k], s[k+1]>>]
    BY <1>2, <2>1, <2>2, IntervalMax
  <2>4. k + 1 \in 1..Len(s) /\ (k + 1) - 1 = k
    BY <1>0
  <2>5. r[k+1] = g[<<r[k], s[k+1]>>]
    BY <1>1, <2>4 DEF IsRun
  <2> QED BY <2>1, <2>2, <2>3, <2>5
<1> HIDE DEF S
<1>5. 0..Len(s) \subseteq S
  BY <1>0, <1>3, <1>4, InductionTo
<1>6. h[1..Len(s)] = r[Len(s)]
  BY <1>0, <1>5 DEF S
<1> QED BY <1>0, <1>1, <1>6, AfterIs

\* There is such a function: fold along the whole sequence and leave out what is
\* not in the set.
LEMMA FoldExists ==
  ASSUME NEW Y, NEW X, NEW g, Machine(g, Y, X), NEW y \in Y, NEW s \in Seq(X)
  PROVE  \E h \in [SUBSET DOMAIN s -> Y] : IsFold(h, g, y, s)
<1> DEFINE Z == X \X {0, 1}
           f == [a \in Y \X Z |-> IF a[2][2] = 1 THEN g[<<a[1], a[2][1]>>] ELSE a[1]]
           in(t, i) == IF i \in t THEN 1 ELSE 0
           w(t) == [i \in 1..Len(s) |-> <<s[i], in(t, i)>>]
           n == Len(s)
<1>0. n \in Nat /\ DOMAIN s = 1..n
  OBVIOUS
<1>1. Machine(f, Y, Z)
  <2> SUFFICES ASSUME NEW a \in Y \X Z PROVE f[a] \in Y
    BY DEF Machine
  <2>1. a[1] \in Y /\ a[2][1] \in X /\ <<a[1], a[2][1]>> \in Y \X X
    OBVIOUS
  <2> QED BY <2>1 DEF Machine
<1>2. ASSUME NEW v \in Y, NEW x \in X, NEW b \in {0, 1}
      PROVE  f[<<v, <<x, b>>>>] = IF b = 1 THEN g[<<v, x>>] ELSE v
  OBVIOUS
<1>3. ASSUME NEW t \in SUBSET (1..n)
      PROVE  w(t) \in Seq(Z) /\ Len(w(t)) = n /\ \A i \in 1..n : w(t)[i] = <<s[i], in(t, i)>>
  <2>1. \A i \in 1..n : <<s[i], in(t, i)>> \in Z
    BY <1>0, ElementOfSeq
  <2> HIDE DEF Z
  <2>2. w(t) \in [1..n -> Z]
    BY <2>1
  <2>3. w(t) \in Seq(Z) /\ Len(w(t)) = n
    <3> HIDE DEF w
    <3> QED BY <1>0, <2>2
  <2> QED BY <2>3
<1> DEFINE R(t) == CHOOSE r \in [0..n -> Y] : IsRun(r, f, y, w(t))
<1> HIDE DEF Z, f, w
<1>4. ASSUME NEW t \in SUBSET (1..n)
      PROVE  /\ R(t) \in [0..n -> Y] /\ IsRun(R(t), f, y, w(t)) /\ R(t)[0] = y
             /\ \A i \in 1..n : R(t)[i] = IF i \in t THEN g[<<R(t)[i-1], s[i]>>] ELSE R(t)[i-1]
  <2>1. w(t) \in Seq(Z) /\ Len(w(t)) = n
    BY <1>3
  <2>2. \E r \in [0..n -> Y] : IsRun(r, f, y, w(t))
    <3>1. \E r \in [0..Len(w(t)) -> Y] : IsRun(r, f, y, w(t))
      BY <1>1, <2>1, RunExists
    <3> QED BY <2>1, <3>1
  <2>3. R(t) \in [0..n -> Y] /\ IsRun(R(t), f, y, w(t))
    BY <2>2
  <2> DEFINE r == R(t)
  <2> HIDE DEF r
  <2>4. r \in [0..n -> Y] /\ r[0] = y /\ \A i \in 1..n : r[i] = f[<<r[i-1], w(t)[i]>>]
    BY <2>1, <2>3 DEF IsRun, r
  <2>5. ASSUME NEW i \in 1..n
        PROVE  r[i] = IF i \in t THEN g[<<r[i-1], s[i]>>] ELSE r[i-1]
    <3>1. r[i-1] \in Y /\ s[i] \in X /\ in(t, i) \in {0, 1}
      BY <1>0, <2>4
    <3>2. w(t)[i] = <<s[i], in(t, i)>>
      BY <1>3
    <3> DEFINE v == r[i-1]
               x == s[i]
               b == in(t, i)
    <3>3. f[<<v, <<x, b>>>>] = IF b = 1 THEN g[<<v, x>>] ELSE v
      <4>1. v \in Y /\ x \in X /\ b \in {0, 1}
        BY <3>1
      <4> HIDE DEF v, x, b
      <4> QED BY <1>2, <4>1
    <3>4. r[i] = f[<<v, <<x, b>>>>]
      BY <2>4, <3>2
    <3>5. b = 1 <=> i \in t
      OBVIOUS
    <3> HIDE DEF b
    <3> QED BY <3>3, <3>4, <3>5
  <2> QED BY <2>3, <2>4, <2>5 DEF r
<1> HIDE DEF R
\* Above the maximum nothing changes.
<1>5. ASSUME NEW t \in SUBSET (1..n), NEW m \in 0..n, \A i \in t : i <= m
      PROVE  R(t)[n] = R(t)[m]
  <2> DEFINE S == {k \in 0..(n-m) : R(t)[m+k] = R(t)[m]}
  <2>1. 0 \in S
    BY <1>0
  <2>2. ASSUME NEW k \in 0..((n-m)-1), k \in S PROVE k + 1 \in S
    <3>1. m + (k + 1) \in 1..n /\ (m + (k + 1)) - 1 = m + k /\ m + (k + 1) \notin t /\ k + 1 \in 0..(n-m)
      BY <1>0, <1>5
    <3> DEFINE j == m + (k + 1)
    <3>2. R(t)[j] = R(t)[j - 1]
      <4> HIDE DEF j
      <4>1. j \in 1..n /\ j \notin t
        BY <3>1 DEF j
      <4> QED BY <1>4, <4>1
    <3> QED BY <2>2, <3>1, <3>2
  <2> DEFINE d == n - m
  <2>3. d \in Nat
    BY <1>0
  <2> HIDE DEF S
  <2>4. 0..d \subseteq S
    <3>1. \A k \in 0..(d-1) : k \in S => k + 1 \in S
      BY <2>2
    <3> HIDE DEF d
    <3> QED BY <2>1, <2>3, <3>1, InductionTo
  <2>5. n - m \in S /\ m + (n - m) = n
    BY <1>0, <2>3, <2>4
  <2> QED BY <2>5 DEF S
<1> DEFINE h == [t \in SUBSET (1..n) |-> R(t)[n]]
<1>6. ASSUME NEW t \in SUBSET (1..n), t # {}
      PROVE  R(t)[n] = g[<<R(t \ {Max(t)})[n], s[Max(t)]>>]
  <2> DEFINE m == Max(t)
             u == t \ {m}
  <2>1. m \in t /\ \A i \in t : m >= i
    <3>1. t \in SUBSET (0..n)
      BY <1>0
    <3> QED BY <1>0, <1>6, <3>1, MaxExists
  <2> HIDE DEF m
  <2>2. m \in 1..n /\ m \in 0..n /\ m - 1 \in 0..n /\ u \in SUBSET (1..n)
    BY <1>0, <2>1
  <2>3. R(t)[n] = R(t)[m]
    <3>1. \A i \in t : i <= m
      BY <1>0, <2>1
    <3> QED BY <1>5, <2>2, <3>1
  <2>4. R(t)[m] = g[<<R(t)[m-1], s[m]>>]
    BY <1>4, <2>1, <2>2
  <2>5. R(u)[n] = R(u)[m-1]
    <3>1. \A i \in u : i <= m - 1
      BY <1>0, <2>1
    <3> HIDE DEF u
    <3> QED BY <1>5, <2>2, <3>1
  <2>6. R(t)[m-1] = R(u)[m-1]
    <3>1. \A i \in 1..(m-1) : w(t)[i] = w(u)[i]
      <4>1. \A i \in 1..(m-1) : i \in 1..n /\ (i \in t <=> i \in u)
        BY <1>0, <2>2
      <4>2. ASSUME NEW i \in 1..(m-1) PROVE w(t)[i] = w(u)[i]
        <5>1. i \in 1..n /\ (i \in t <=> i \in u)
          BY <4>1
        <5>2. in(t, i) = in(u, i)
          BY <5>1
        <5> HIDE DEF u, in
        <5>3. w(t)[i] = <<s[i], in(t, i)>> /\ w(u)[i] = <<s[i], in(u, i)>>
          BY <1>3, <2>2, <5>1
        <5> QED BY <5>2, <5>3
      <4> QED BY <4>2
    <3> HIDE DEF u
    <3>2. /\ w(t) \in Seq(Z) /\ w(u) \in Seq(Z) /\ Len(w(t)) = n /\ Len(w(u)) = n
          /\ IsRun(R(t), f, y, w(t)) /\ IsRun(R(u), f, y, w(u)) /\ m - 1 \in Nat /\ m - 1 <= n
      BY <1>0, <1>3, <1>4, <2>2
    <3>3. \A i \in 0..(m-1) : R(t)[i] = R(u)[i]
      BY <3>1, <3>2, RunsAgree
    <3>4. m - 1 \in 0..(m-1)
      BY <1>0, <2>2
    <3> QED BY <3>3, <3>4
  <2> QED BY <2>3, <2>4, <2>5, <2>6 DEF m
<1>7. R({})[n] = y
  <2> DEFINE e == {}
  <2>1. e \in SUBSET (1..n) /\ 0 \in 0..n /\ \A i \in e : i <= 0
    BY <1>0
  <2> HIDE DEF e
  <2>2. R(e)[n] = R(e)[0] /\ R(e)[0] = y
    BY <1>4, <1>5, <2>1
  <2> QED BY <2>2 DEF e
<1>8. ASSUME NEW t \in SUBSET (1..n)
      PROVE  h[t] = IF t = {} THEN y ELSE g[<<h[t \ {Max(t)}], s[Max(t)]>>]
  <2>1. t \ {Max(t)} \in SUBSET (1..n)
    OBVIOUS
  <2> QED BY <1>6, <1>7, <2>1
<1>9. h = [t \in SUBSET (1..n) |-> IF t = {} THEN y ELSE g[<<h[t \ {Max(t)}], s[Max(t)]>>]]
  BY <1>8
<1>10. h \in [SUBSET DOMAIN s -> Y]
  <2>1. \A t \in SUBSET (1..n) : R(t)[n] \in Y
    <3>1. n \in 0..n
      BY <1>0
    <3> QED BY <1>4, <3>1
  <2> QED BY <1>0, <2>1
<1> HIDE DEF h
<1>11. IsFold(h, g, y, s)
  BY <1>0, <1>9 DEF IsFold
<1> QED BY <1>10, <1>11

-----------------------------------------------------------------------------
(* Reading a flattened sequence is reading its parts one after another.    *)

\* FlattenSeq appends the sequences one after the other.
LEMMA FlattenIs ==
  ASSUME NEW X, NEW ss \in Seq(Seq(X))
  PROVE  \E fl \in [0..Len(ss) -> Seq(X)] :
           /\ fl[0] = <<>>
           /\ \A i \in 1..Len(ss) : fl[i] = fl[i-1] \o ss[i]
           /\ FlattenSeq(ss) = fl[Len(ss)]
<1> DEFINE Y == Seq(X)
           cat == [a \in Y \X Y |-> a[1] \o a[2]]
           n == Len(ss)
<1>0. n \in Nat /\ <<>> \in Y /\ \A i \in 1..n : ss[i] \in Y
  BY ElementOfSeq
<1>1. Machine(cat, Y, Y)
  <2> SUFFICES ASSUME NEW a \in Y \X Y PROVE a[1] \o a[2] \in Y
    BY DEF Machine
  <2>1. a[1] \in Y /\ a[2] \in Y
    OBVIOUS
  <2> QED BY <2>1
<1>2. PICK r \in [0..n -> Y] : IsRun(r, cat, <<>>, ss)
  <2> HIDE DEF Y, cat
  <2>1. ss \in Seq(Y)
    BY DEF Y
  <2> QED BY <1>0, <1>1, <2>1, RunExists
<1>3. r[0] = <<>> /\ \A i \in 1..n : r[i] = r[i-1] \o ss[i]
  <2>1. r[0] = <<>> /\ \A i \in 1..n : r[i] = cat[<<r[i-1], ss[i]>>]
    <3> HIDE DEF cat
    <3> QED BY <1>2 DEF IsRun
  <2>2. ASSUME NEW i \in 1..n PROVE r[i] = r[i-1] \o ss[i]
    <3> DEFINE a == r[i-1]
               b == ss[i]
    <3>1. a \in Y /\ b \in Y
      BY <1>0, <1>2, SMTT(30)
    <3>2. cat[<<a, b>>] = a \o b
      <4> HIDE DEF a, b, Y
      <4> QED BY <3>1
    <3> QED BY <2>1, <3>2
  <2> QED BY <2>1, <2>2
<1> HIDE DEF Y, cat
<1>a. n # 0 => 1 \in 1..n /\ r[1] = <<>> \o ss[1] /\ ss[1] \in Seq(X) /\ <<>> \o ss[1] = ss[1]
  <2> HAVE n # 0
  <2>1. 1 \in 1..n /\ 1 - 1 = 0
    BY <1>0
  <2> HIDE DEF n
  <2>2. r[1] = r[0] \o ss[1]
    BY <1>3, <2>1
  <2>3. ss[1] \in Seq(X)
    BY <1>0, <2>1 DEF Y
  <2> QED BY <1>3, <2>1, <2>2, <2>3
<1>4. CASE n = 0
  <2>1. ss = <<>> /\ FlattenSeq(ss) = ss
    BY <1>4 DEF FlattenSeq
  <2> QED BY <1>0, <1>2, <1>3, <1>4, <2>1 DEF Y
<1>5. CASE n # 0
  <2> DEFINE E(f) == f = [i \in 1..n |-> IF i = 1 THEN ss[i] ELSE f[i-1] \o ss[i]]
             q == [i \in 1..n |-> r[i]]
             p == CHOOSE f : E(f)
  <2>1. E(q)
    <3>1. ASSUME NEW i \in 1..n PROVE q[i] = IF i = 1 THEN ss[i] ELSE q[i-1] \o ss[i]
      <4>1. CASE i = 1
        <5> QED BY <1>5, <1>a, <4>1
      <4>2. CASE i # 1
        <5>1. i - 1 \in 1..n
          BY <1>0, <4>2
        <5> QED BY <1>3, <4>2, <5>1
      <4> QED BY <4>1, <4>2
    <3> QED BY <3>1
  <2>2. FlattenSeq(ss) = p[n]
    BY <1>5 DEF FlattenSeq
  <2>3. E(p)
    <3>1. \E f : E(f)
      BY <2>1
    <3> HIDE DEF E
    <3> QED BY <3>1
  <2>4. p[1] = ss[1] /\ \A i \in 2..n : p[i] = p[i-1] \o ss[i]
    <3> HIDE DEF p
    <3>1. \A i \in 1..n : p[i] = IF i = 1 THEN ss[i] ELSE p[i-1] \o ss[i]
      BY <2>3
    <3>2. 1 \in 1..n /\ \A i \in 2..n : i \in 1..n /\ i # 1
      BY <1>0, <1>5
    <3> HIDE DEF n
    <3> QED BY <3>1, <3>2
  <2> HIDE DEF p, E, q
  <2> DEFINE S == {k \in 0..(n-1) : p[k+1] = r[k+1]}
             m == n - 1
  <2>5. m \in Nat
    BY <1>0, <1>5
  <2>6. 0 \in S
    <3>1. 0 \in 0..(n-1) /\ 0 + 1 = 1
      BY <2>5
    <3> QED BY <1>5, <1>a, <2>4, <3>1
  <2>7. ASSUME NEW k \in 0..(m-1), k \in S PROVE k + 1 \in S
    <3> DEFINE j == (k + 1) + 1
    <3>1. j \in 2..n /\ j \in 1..n /\ j - 1 = k + 1 /\ k + 1 \in 0..(n-1)
      BY <1>0
    <3> HIDE DEF j
    <3>2. p[j] = p[j-1] \o ss[j] /\ r[j] = r[j-1] \o ss[j]
      BY <1>3, <2>4, <3>1
    <3>3. p[k+1] = r[k+1]
      BY <2>7
    <3> QED BY <3>1, <3>2, <3>3 DEF j
  <2>8. 0..m \subseteq S
    <3> HIDE DEF S, m
    <3> QED BY <2>5, <2>6, <2>7, InductionTo
  <2>9. p[n] = r[n]
    <3>1. m \in 0..m /\ m + 1 = n
      BY <1>0, <2>5
    <3>2. m \in S
      <4> HIDE DEF S, m
      <4> QED BY <2>8, <3>1
    <3>3. p[m+1] = r[m+1]
      <4> HIDE DEF m
      <4> QED BY <3>2
    <3> QED BY <3>1, <3>3
  <2> QED BY <1>2, <1>3, <2>2, <2>9 DEF Y
<1> QED BY <1>4, <1>5

\* The states between the parts.
LEMMA AfterFlat ==
  ASSUME NEW Y, NEW X, NEW g, Machine(g, Y, X), NEW y \in Y, NEW ss \in Seq(Seq(X))
  PROVE  /\ FlattenSeq(ss) \in Seq(X)
         /\ \E st \in [0..Len(ss) -> Y] :
              /\ st[0] = y
              /\ \A i \in 1..Len(ss) : st[i] = After(g, st[i-1], ss[i])
              /\ After(g, y, FlattenSeq(ss)) = st[Len(ss)]
<1>1. PICK fl \in [0..Len(ss) -> Seq(X)] :
        /\ fl[0] = <<>>
        /\ \A i \in 1..Len(ss) : fl[i] = fl[i-1] \o ss[i]
        /\ FlattenSeq(ss) = fl[Len(ss)]
  BY FlattenIs
<1>2. Len(ss) \in Nat /\ \A i \in 1..Len(ss) : ss[i] \in Seq(X)
  BY ElementOfSeq
<1>3. \A i \in 0..Len(ss) : fl[i] \in Seq(X)
  BY <1>1
<1> DEFINE st == [i \in 0..Len(ss) |-> After(g, y, fl[i])]
<1>4. st \in [0..Len(ss) -> Y]
  BY <1>3, AfterConcat
<1>5. st[0] = y
  BY <1>1, <1>2, AfterEmpty
<1>6. ASSUME NEW i \in 1..Len(ss) PROVE st[i] = After(g, st[i-1], ss[i])
  <2>1. i - 1 \in 0..Len(ss) /\ i \in 0..Len(ss)
    BY <1>2
  <2>2. fl[i-1] \in Seq(X) /\ ss[i] \in Seq(X)
    BY <1>2, <1>3, <2>1
  <2>3. After(g, y, fl[i-1] \o ss[i]) = After(g, After(g, y, fl[i-1]), ss[i])
    BY <2>2, AfterConcat
  <2>4. st[i] = After(g, y, fl[i]) /\ st[i-1] = After(g, y, fl[i-1]) /\ fl[i] = fl[i-1] \o ss[i]
    BY <1>1, <2>1
  <2> HIDE DEF st
  <2> QED BY <2>3, <2>4
<1>7. Len(ss) \in 0..Len(ss)
  BY <1>2
<1>8. After(g, y, FlattenSeq(ss)) = st[Len(ss)] /\ FlattenSeq(ss) \in Seq(X)
  BY <1>1, <1>7
<1> HIDE DEF st
<1> QED BY <1>4, <1>5, <1>6, <1>8

\* What holds before a sequence and is carried on by each of its elements, or parts,
\* holds after it.
LEMMA AfterElements ==
  ASSUME NEW Y, NEW X, NEW g, Machine(g, Y, X), NEW y \in Y, NEW s \in Seq(X),
         NEW Q, y \in Q[0],
         \A i \in 1..Len(s) : \A v \in Y : v \in Q[i-1] => g[<<v, s[i]>>] \in Q[i]
  PROVE  After(g, y, s) \in Y /\ After(g, y, s) \in Q[Len(s)]
<1>0. Len(s) \in Nat
  OBVIOUS
<1>1. PICK r \in [0..Len(s) -> Y] : IsRun(r, g, y, s)
  BY RunExists
<1> DEFINE S == {k \in 0..Len(s) : r[k] \in Q[k]}
<1>2. 0 \in S
  BY <1>0, <1>1 DEF IsRun
<1>3. ASSUME NEW k \in 0..(Len(s)-1), k \in S PROVE k + 1 \in S
  <2>1. k + 1 \in 1..Len(s) /\ (k + 1) - 1 = k /\ k \in 0..Len(s) /\ k + 1 \in 0..Len(s)
    BY <1>0
  <2>2. r[k] \in Y /\ r[k] \in Q[k]
    BY <1>3, <2>1
  <2>3. r[k+1] = g[<<r[k], s[k+1]>>]
    BY <1>1, <2>1 DEF IsRun
  <2>4. r[k+1] \in Q[k+1]
    BY <2>1, <2>2, <2>3
  <2> QED BY <2>1, <2>4
<1> HIDE DEF S
<1>4. 0..Len(s) \subseteq S
  BY <1>0, <1>2, <1>3, InductionTo
<1>5. r[Len(s)] \in Q[Len(s)] /\ r[Len(s)] \in Y
  BY <1>0, <1>1, <1>4 DEF S
<1> QED BY <1>1, <1>5, AfterIs

\* What each part of a flattened sequence preserves holds at its end.
LEMMA AfterParts ==
  ASSUME NEW Y, NEW X, NEW g, Machine(g, Y, X), NEW y \in Y, NEW ss \in Seq(Seq(X)),
         NEW Q, y \in Q[0],
         \A i \in 1..Len(ss) : \A v \in Y : v \in Q[i-1] => After(g, v, ss[i]) \in Q[i]
  PROVE  /\ FlattenSeq(ss) \in Seq(X)
         /\ After(g, y, FlattenSeq(ss)) \in Y /\ After(g, y, FlattenSeq(ss)) \in Q[Len(ss)]
<1>0. Len(ss) \in Nat
  OBVIOUS
<1>1. PICK st \in [0..Len(ss) -> Y] :
        /\ st[0] = y
        /\ \A i \in 1..Len(ss) : st[i] = After(g, st[i-1], ss[i])
        /\ After(g, y, FlattenSeq(ss)) = st[Len(ss)]
  BY AfterFlat
<1> DEFINE S == {k \in 0..Len(ss) : st[k] \in Q[k]}
<1>2. 0 \in S
  BY <1>0, <1>1
<1>3. ASSUME NEW k \in 0..(Len(ss)-1), k \in S PROVE k + 1 \in S
  <2>1. k + 1 \in 1..Len(ss) /\ (k + 1) - 1 = k /\ k \in 0..Len(ss) /\ k + 1 \in 0..Len(ss)
    BY <1>0
  <2>2. st[k] \in Y /\ st[k] \in Q[k]
    BY <1>3, <2>1
  <2>3. st[k+1] = After(g, st[k], ss[k+1])
    BY <1>1, <2>1
  <2>4. st[k+1] \in Q[k+1]
    BY <2>1, <2>2, <2>3
  <2> QED BY <2>1, <2>4
<1> HIDE DEF S
<1>4. 0..Len(ss) \subseteq S
  BY <1>0, <1>2, <1>3, InductionTo
<1>5. st[Len(ss)] \in Q[Len(ss)] /\ st[Len(ss)] \in Y
  BY <1>0, <1>1, <1>4 DEF S
<1>6. FlattenSeq(ss) \in Seq(X)
  BY AfterFlat
<1> QED BY <1>1, <1>5, <1>6

\* A list of a finite set has its members, each once.
LEMMA Enumerated ==
  ASSUME NEW S, IsFiniteSet(S), NEW f \in [1..Cardinality(S) -> S],
         \A i, j \in 1..Cardinality(S) : f[i] = f[j] => i = j
  PROVE  /\ f \in Seq(S) /\ Len(f) = Cardinality(S)
         /\ \A x \in S : \E i \in 1..Cardinality(S) : f[i] = x
<1>1. Cardinality(S) \in Nat /\ IsFiniteSet(1..Cardinality(S))
      /\ Cardinality(1..Cardinality(S)) = Cardinality(S)
  <2>1. Cardinality(S) \in Nat
    BY FS_CardinalityType
  <2> QED BY <2>1, FS_Interval
<1>2. f \in Injection(1..Cardinality(S), S)
  BY DEF Injection, IsInjective
<1>3. f \in Surjection(1..Cardinality(S), S)
  BY <1>1, <1>2, FS_Injection
<1>4. \A x \in S : \E i \in 1..Cardinality(S) : f[i] = x
  BY <1>3 DEF Surjection
<1> QED BY <1>1, <1>4

\* SetToSeq lists the elements of a finite set.
LEMMA SetToSeqIs ==
  ASSUME NEW S, IsFiniteSet(S)
  PROVE  /\ SetToSeq(S) \in Seq(S) /\ Len(SetToSeq(S)) = Cardinality(S)
         /\ Cardinality(S) \in Nat
         /\ \A x \in S : \E i \in 1..Cardinality(S) : SetToSeq(S)[i] = x
<1> DEFINE n == Cardinality(S)
<1>1. n \in Nat /\ ExistsBijection(1..n, S)
  BY FS_CardinalityType
<1>2. PICK b : b \in Bijection(1..n, S)
  BY <1>1 DEF ExistsBijection
<1>3. b \in [1..n -> S] /\ IsInjective(b)
  BY <1>2 DEF Bijection, Injection
<1>4. SetToSeq(S) \in [1..n -> S] /\ IsInjective(SetToSeq(S))
  BY <1>3 DEF SetToSeq
<1>5. \A i, j \in 1..n : SetToSeq(S)[i] = SetToSeq(S)[j] => i = j
  BY <1>4 DEF IsInjective
<1> QED BY <1>1, <1>4, <1>5, Enumerated

\* The largest of some positions is one of them.
LEMMA MaxIn ==
  ASSUME NEW s, NEW X, s \in Seq(X), NEW t \in SUBSET DOMAIN s, t # {}
  PROVE  Max(t) \in DOMAIN s /\ s[Max(t)] \in X /\ t \ {Max(t)} \in SUBSET DOMAIN s
<1>1. Len(s) \in Nat /\ DOMAIN s = 1..Len(s)
  OBVIOUS
<1>2. t \in SUBSET (0..Len(s))
  BY <1>1
<1>3. Max(t) \in t
  BY <1>1, <1>2, MaxExists
<1>4. s[Max(t)] \in X
  BY <1>1, <1>3, ElementOfSeq
<1> QED BY <1>3, <1>4

-----------------------------------------------------------------------------
(* CommitHistory: the entries of a commit's files.                         *)

PatchText == (Commits \X Paths) \cup {<<>>}
Entry == [status : Statuses \cup Paths \cup {NoPath}, lines : Nat, patch : Seq(PatchText)]
Entries == [Commits -> [Paths -> Entry]]

\* Before git's output is read no file has an entry.
LEMMA NoEntryIs ==
  /\ NoEntry \in Entry /\ NoEntry.status = NoPath /\ NoEntry.lines = 0 /\ NoEntry.patch = <<>>
  /\ NoEntries \in Entries /\ \A c \in Commits, p \in Paths : NoEntries[c][p] = NoEntry
BY DEF NoEntry, NoEntries, Entry, Entries

\* One entry changes and the others stay.
LEMMA EntriesPut ==
  ASSUME NEW E \in Entries, NEW c \in Commits, NEW p, NEW e \in Entry
  PROVE  /\ [E EXCEPT ![c][p] = e] \in Entries
         /\ \A d \in Commits, q \in Paths :
              [E EXCEPT ![c][p] = e][d][q] = IF d = c /\ q = p THEN e ELSE E[d][q]
BY DEF Entries

\* What the repository gives of the changes git shows.
LEMMA ChangeFacts ==
  ASSUME NEW c \in Commits, NEW b
  PROVE  /\ Shown(c, b) \subseteq DOMAIN Changes[c] /\ IsFiniteSet(Shown(c, b))
         /\ Shown(c, b) \subseteq Paths
         /\ \A p \in DOMAIN Changes[c] :
              /\ p \in Paths /\ p # NoPath
              /\ Changes[c][p].status \in Statuses /\ Changes[c][p].status # NoPath
              /\ Changes[c][p].kind \in ChangeKinds /\ Changes[c][p].lines \in Nat
<1>1. Shown(c, b) \subseteq DOMAIN Changes[c]
  BY DEF Shown
<1>2. IsFiniteSet(Shown(c, b))
  BY <1>1, CommitsAssumption, FS_Subset
<1> QED BY <1>1, <1>2, CommitsAssumption DEF Statuses, NoPath

(* The first pass.  D holds the files that have been read.                 *)
NameState == [hash : Commits \cup {NoCommit}, pending : Statuses \cup Paths \cup {NoPath},
              entries : Entries]
NameToken == [t : {"commit"}, v : Commits] \cup [t : {"field"}, v : Statuses \cup Paths]
NameStep == [a \in NameState \X NameToken |-> NameStatusField(a[1], a[2])]

Named(E, D) ==
  \A c \in Commits, p \in Paths :
    E[c][p] = IF <<c, p>> \in D THEN [NoEntry EXCEPT !.status = Changes[c][p].status] ELSE NoEntry

\* The state of the --name-status reader is typed,
LEMMA NameFieldIs ==
  ASSUME NEW s \in NameState, NEW f \in NameToken
  PROVE  NameStatusField(s, f) \in NameState
<1>0. /\ s.hash \in Commits \cup {NoCommit} /\ s.pending \in Statuses \cup Paths \cup {NoPath}
      /\ s.entries \in Entries /\ DOMAIN s = {"hash", "pending", "entries"}
  BY DEF NameState
<1>1. CASE f.t = "commit"
  <2>1. f.v \in Commits
    BY <1>1 DEF NameToken
  <2>2. NameStatusField(s, f) = [s EXCEPT !.hash = f.v, !.pending = NoPath]
    BY <1>1 DEF NameStatusField
  <2> QED BY <2>1, <2>2 DEF NameState
<1>2. CASE f.t # "commit"
  <2>1. f.v \in Statuses \cup Paths
    BY <1>2 DEF NameToken
  <2>2. CASE s.hash = NoCommit
    BY <1>2, <2>2 DEF NameStatusField
  <2>3. CASE s.hash # NoCommit /\ s.pending = NoPath
    <3>1. NameStatusField(s, f) = [s EXCEPT !.pending = f.v]
      BY <1>2, <2>3 DEF NameStatusField
    <3> QED BY <2>1, <3>1 DEF NameState
  <2>4. CASE s.hash # NoCommit /\ s.pending # NoPath
    <3> DEFINE e == [NoEntry EXCEPT !.status = s.pending]
               E == s.entries
               F == [E EXCEPT ![s.hash][f.v] = e]
    <3>1. e \in Entry
      BY <1>0, NoEntryIs DEF Entry
    <3>2. NameStatusField(s, f) = [s EXCEPT !.entries = F, !.pending = NoPath]
      BY <1>2, <2>4 DEF NameStatusField
    <3>3. F \in Entries
      <4> HIDE DEF e
      <4> QED BY <1>0, <2>4, <3>1, EntriesPut
    <3> HIDE DEF F
    <3> QED BY <3>2, <3>3 DEF NameState
  <2> QED BY <2>2, <2>3, <2>4
<1> QED BY <1>1, <1>2

\* so that its step is a machine's,
LEMMA NameMachine == Machine(NameStep, NameState, NameToken)
<1>1. ASSUME NEW a \in NameState \X NameToken PROVE NameStatusField(a[1], a[2]) \in NameState
  <2>1. a[1] \in NameState /\ a[2] \in NameToken
    OBVIOUS
  <2> QED BY <2>1, NameFieldIs
<1> QED BY <1>1 DEF Machine, NameStep

\* the step of which is NameStatusField.
LEMMA NameStepIs ==
  ASSUME NEW s \in NameState, NEW f \in NameToken
  PROVE  NameStep[<<s, f>>] = NameStatusField(s, f)
BY DEF NameStep

\* Folding with NameStatusField is running that machine.
LEMMA NameFold ==
  ASSUME NEW out \in Seq(NameToken), NEW s0 \in NameState
  PROVE  FoldLeft(NameStatusField, s0, out) = After(NameStep, s0, out)
<1>1. PICK h \in [SUBSET DOMAIN out -> NameState] : IsFold(h, NameStep, s0, out)
  BY NameMachine, FoldExists
<1> DEFINE E(i) == i = [s \in SUBSET DOMAIN out |->
                          IF s = {} THEN s0 ELSE NameStatusField(i[s \ {Max(s)}], out[Max(s)])]
           it == CHOOSE i : E(i)
<1>2. E(h)
  <2>1. ASSUME NEW s \in SUBSET DOMAIN out
        PROVE  h[s] = IF s = {} THEN s0 ELSE NameStatusField(h[s \ {Max(s)}], out[Max(s)])
    <3>1. h[s] = IF s = {} THEN s0 ELSE NameStep[<<h[s \ {Max(s)}], out[Max(s)]>>]
      BY <1>1 DEF IsFold
    <3>2. s # {} => h[s \ {Max(s)}] \in NameState /\ out[Max(s)] \in NameToken
      BY MaxIn
    <3> QED BY <3>1, <3>2, NameStepIs
  <2> QED BY <2>1
<1>3. E(it)
  <2>1. \E i : E(i)
    BY <1>2
  <2> HIDE DEF E
  <2> QED BY <2>1
<1>4. FoldLeft(NameStatusField, s0, out) = it[DOMAIN out]
  BY DEF FoldLeft, MapThenFoldSet
<1> HIDE DEF it
<1>5. FoldsBy(it, NameStep, NameState, s0, out)
  <2>1. it[{}] = s0
    BY <1>3
  <2>2. ASSUME NEW t \in SUBSET DOMAIN out, t # {}, it[t \ {Max(t)}] \in NameState
        PROVE  it[t] = NameStep[<<it[t \ {Max(t)}], out[Max(t)]>>]
    <3>1. it[t] = NameStatusField(it[t \ {Max(t)}], out[Max(t)])
      BY <1>3, <2>2
    <3>2. out[Max(t)] \in NameToken
      BY <2>2, MaxIn
    <3> QED BY <2>2, <3>1, <3>2, NameStepIs
  <2> QED BY <2>1, <2>2 DEF FoldsBy
<1> QED BY <1>4, <1>5, NameMachine, FoldIsAfter

\* The first element is read first.
LEMMA AfterFirst ==
  ASSUME NEW Y, NEW X, NEW g, Machine(g, Y, X), NEW y \in Y, NEW a \in X, NEW t \in Seq(X)
  PROVE  /\ g[<<y, a>>] \in Y /\ <<a>> \o t \in Seq(X)
         /\ After(g, y, <<a>> \o t) = After(g, g[<<y, a>>], t)
<1> DEFINE sa == <<a>>
<1>1. sa \in Seq(X) /\ After(g, y, sa) = g[<<y, a>>]
  <2>1. sa \in Seq(X)
    OBVIOUS
  <2>2. After(g, y, sa) = g[<<y, a>>]
    BY AfterOne
  <2> QED BY <2>1, <2>2
<1> HIDE DEF sa
<1>2. /\ After(g, y, sa) \in Y /\ After(g, y, sa \o t) = After(g, After(g, y, sa), t)
  BY <1>1, AfterConcat
<1>3. sa \o t \in Seq(X)
  BY <1>1
<1> QED BY <1>1, <1>2, <1>3 DEF sa

\* Reading two elements is two steps.
LEMMA AfterTwo ==
  ASSUME NEW Y, NEW X, NEW g, Machine(g, Y, X), NEW y \in Y, NEW a \in X, NEW b \in X
  PROVE  /\ g[<<y, a>>] \in Y /\ <<a, b>> \in Seq(X)
         /\ After(g, y, <<a, b>>) = g[<<g[<<y, a>>], b>>]
<1> DEFINE s == <<a, b>>
<1>1. s \in Seq(X) /\ Len(s) = 2 /\ s[1] = a /\ s[2] = b
  OBVIOUS
<1> HIDE DEF s
<1>2. PICK r \in [0..Len(s) -> Y] : IsRun(r, g, y, s)
  BY <1>1, RunExists
<1>3. After(g, y, s) = r[2]
  BY <1>1, <1>2, AfterIs
<1>4. 1 - 1 = 0 /\ 2 - 1 = 1
  OBVIOUS
<1>5. r[0] = y /\ r[1] = g[<<r[0], a>>] /\ r[2] = g[<<r[1], b>>] /\ r[1] \in Y
  BY <1>1, <1>2, <1>4 DEF IsRun
<1> QED BY <1>1, <1>3, <1>5 DEF s

\* The files of c, of the first k commits of l, and those of q up to the j-th.
FilesOf(c, b) == {<<c, p>> : p \in Shown(c, b)}
FilesTo(l, b, k) == UNION {FilesOf(l[i], b) : i \in 1..k}
FilesUpTo(c, q, j) == {<<c, q[i]>> : i \in 1..j}

\* The files of k commits are those of k-1 and of the k-th.
LEMMA FilesGrow ==
  ASSUME NEW l \in Seq(Commits), NEW b, NEW k \in 1..Len(l)
  PROVE  FilesTo(l, b, k) = FilesTo(l, b, k-1) \cup FilesOf(l[k], b)
<1>1. Len(l) \in Nat
  OBVIOUS
<1>2. 1..k = (1..(k-1)) \cup {k}
  BY <1>1
<1> QED BY <1>2 DEF FilesTo

\* The first j files are the first j-1 and the j-th.
LEMMA FilesUpToGrow ==
  ASSUME NEW c, NEW q, NEW j \in Nat \ {0}
  PROVE  FilesUpTo(c, q, j) = FilesUpTo(c, q, j-1) \cup {<<c, q[j]>>}
<1>1. 1..j = (1..(j-1)) \cup {j}
  OBVIOUS
<1> QED BY <1>1 DEF FilesUpTo

\* All the files of a commit are those git shows of it.
LEMMA FilesUpToAll ==
  ASSUME NEW c \in Commits, NEW b
  PROVE  /\ FilesUpTo(c, SetToSeq(Shown(c, b)), Cardinality(Shown(c, b))) = FilesOf(c, b)
         /\ FilesUpTo(c, SetToSeq(Shown(c, b)), 0) = {}
         /\ Cardinality(Shown(c, b)) \in Nat
         /\ \A i \in 1..Cardinality(Shown(c, b)) : SetToSeq(Shown(c, b))[i] \in Shown(c, b)
<1> DEFINE S == Shown(c, b)
           q == SetToSeq(S)
           n == Cardinality(S)
<1>1. IsFiniteSet(S)
  BY ChangeFacts
<1>2. /\ q \in Seq(S) /\ Len(q) = n /\ n \in Nat
      /\ \A x \in S : \E i \in 1..n : q[i] = x
  <2> HIDE DEF S
  <2> QED BY <1>1, SetToSeqIs
<1> HIDE DEF S, q, n
<1>3. \A i \in 1..n : q[i] \in S
  BY <1>2, ElementOfSeq
<1>4. FilesUpTo(c, q, n) = {<<c, p>> : p \in S}
  BY <1>2, <1>3 DEF FilesUpTo
<1>5. FilesUpTo(c, q, 0) = {}
  BY DEF FilesUpTo
<1> QED BY <1>2, <1>3, <1>4, <1>5 DEF S, q, n, FilesOf

\* A status and a path name one more file, with its status.
LEMMA NamePair ==
  ASSUME NEW s \in NameState, NEW c \in Commits, NEW b, NEW p \in Shown(c, b), NEW D,
         s.hash = c, s.pending = NoPath, Named(s.entries, D)
  PROVE  LET pair == <<[t |-> "field", v |-> Changes[c][p].status], [t |-> "field", v |-> p]>>
             v == After(NameStep, s, pair)
         IN  /\ pair \in Seq(NameToken) /\ v \in NameState
             /\ v.hash = c /\ v.pending = NoPath /\ Named(v.entries, D \cup {<<c, p>>})
<1> DEFINE st == Changes[c][p].status
           f1 == [t |-> "field", v |-> st]
           f2 == [t |-> "field", v |-> p]
           u == NameStatusField(s, f1)
           w == NameStatusField(u, f2)
<1>1. p \in Paths /\ st \in Statuses /\ st # NoPath /\ c # NoCommit
  BY ChangeFacts, CommitsAssumption
<1> HIDE DEF st
<1>2. f1 \in NameToken /\ f2 \in NameToken
  BY <1>1 DEF NameToken
<1>3. u \in NameState /\ w \in NameState
  <2> HIDE DEF f1, f2
  <2> QED BY <1>2, NameFieldIs
<1>4. u = [s EXCEPT !.pending = st]
  BY <1>1 DEF NameStatusField
<1>5. u.hash = c /\ u.pending = st /\ u.entries = s.entries
  BY <1>4 DEF NameState
<1> HIDE DEF u
<1> DEFINE e == [NoEntry EXCEPT !.status = st]
           F == [u.entries EXCEPT ![c][p] = e]
<1>6. w = [u EXCEPT !.entries = F, !.pending = NoPath]
  BY <1>1, <1>5 DEF NameStatusField
<1>7. e \in Entry /\ u.entries \in Entries
  BY <1>1, <1>3, NoEntryIs DEF Entry, NameState
<1> HIDE DEF e
<1>8. F \in Entries /\ \A d \in Commits, q \in Paths :
        F[d][q] = IF d = c /\ q = p THEN e ELSE s.entries[d][q]
  <2> DEFINE E == u.entries
  <2>1. E \in Entries /\ F = [E EXCEPT ![c][p] = e] /\ E = s.entries
    BY <1>5, <1>7
  <2> HIDE DEF E
  <2>2. e \in Entry
    BY <1>7
  <2>3. /\ [E EXCEPT ![c][p] = e] \in Entries
        /\ \A d \in Commits, q \in Paths :
             [E EXCEPT ![c][p] = e][d][q] = IF d = c /\ q = p THEN e ELSE E[d][q]
    BY <2>1, <2>2, EntriesPut, SMTT(30)
  <2> HIDE DEF F
  <2> QED BY <2>1, <2>3
<1> HIDE DEF F
<1>9. w.hash = c /\ w.pending = NoPath /\ w.entries = F
  BY <1>3, <1>5, <1>6 DEF NameState
<1> HIDE DEF w
<1>10. Named(F, D \cup {<<c, p>>})
  <2> SUFFICES ASSUME NEW d \in Commits, NEW q \in Paths
               PROVE  F[d][q] = IF <<d, q>> \in D \cup {<<c, p>>}
                                THEN [NoEntry EXCEPT !.status = Changes[d][q].status] ELSE NoEntry
    BY Zenon DEF Named
  <2>1. s.entries[d][q] = IF <<d, q>> \in D
                          THEN [NoEntry EXCEPT !.status = Changes[d][q].status] ELSE NoEntry
    BY DEF Named
  <2>2. CASE d = c /\ q = p
    BY <1>8, <2>2 DEF e, st
  <2>3. CASE ~(d = c /\ q = p)
    BY <1>8, <2>1, <2>3
  <2> QED BY <2>2, <2>3
<1>11. After(NameStep, s, <<f1, f2>>) = w /\ <<f1, f2>> \in Seq(NameToken)
  <2>1. NameStep[<<s, f1>>] = u /\ NameStep[<<u, f2>>] = w
    <3> HIDE DEF f1, f2
    <3> QED BY <1>2, <1>3, NameStepIs DEF u, w
  <2> HIDE DEF f1, f2
  <2> QED BY <1>2, <2>1, NameMachine, AfterTwo
<1> QED BY <1>3, <1>9, <1>10, <1>11 DEF st

\* The output of a commit names the files git shows of it.
LEMMA NameCommit ==
  ASSUME NEW s \in NameState, NEW c \in Commits, NEW b, NEW D, Named(s.entries, D)
  PROVE  /\ NameStatus(c, b) \in Seq(NameToken)
         /\ After(NameStep, s, NameStatus(c, b)) \in NameState
         /\ Named(After(NameStep, s, NameStatus(c, b)).entries, D \cup FilesOf(c, b))
<1> DEFINE n == Cardinality(Shown(c, b))
           q == SetToSeq(Shown(c, b))
           pair(p) == <<[t |-> "field", v |-> Changes[c][p].status], [t |-> "field", v |-> p]>>
           ss == [i \in 1..n |-> pair(q[i])]
           f == [t |-> "commit", v |-> c]
           u == NameStatusField(s, f)
           Q == [j \in 0..n |-> {v \in NameState : /\ v.hash = c /\ v.pending = NoPath
                                                   /\ Named(v.entries, D \cup FilesUpTo(c, q, j))}]
<1>1. /\ n \in Nat /\ \A i \in 1..n : q[i] \in Shown(c, b)
      /\ FilesUpTo(c, q, n) = FilesOf(c, b) /\ FilesUpTo(c, q, 0) = {}
  BY FilesUpToAll
<1>2. NameStatus(c, b) = <<f>> \o FlattenSeq(ss)
  BY DEF NameStatus
<1>3. f \in NameToken /\ u \in NameState
  <2>1. f \in NameToken
    BY DEF NameToken
  <2> HIDE DEF f
  <2> QED BY <2>1, NameFieldIs
<1>4. u.hash = c /\ u.pending = NoPath /\ u.entries = s.entries
  BY DEF NameStatusField, NameState
<1> HIDE DEF n, q, u
<1>5. ss \in Seq(Seq(NameToken)) /\ Len(ss) = n
  <2>1. ASSUME NEW i \in 1..n PROVE pair(q[i]) \in Seq(NameToken)
    <3> DEFINE p == q[i]
    <3>1. p \in Paths /\ Changes[c][p].status \in Statuses
      BY <1>1, ChangeFacts
    <3> HIDE DEF p
    <3>2. pair(p) \in Seq(NameToken)
      BY <3>1 DEF NameToken
    <3> QED BY <3>2 DEF p
  <2> HIDE DEF pair
  <2>2. ss \in [1..n -> Seq(NameToken)]
    BY <2>1
  <2> HIDE DEF ss
  <2> QED BY <1>1, <2>2
<1>6. u \in Q[0]
  <2>1. 0 \in 0..n /\ D \cup FilesUpTo(c, q, 0) = D
    BY <1>1
  <2> QED BY <1>3, <1>4, <2>1
<1>7. ASSUME NEW i \in 1..n, NEW v \in NameState, v \in Q[i-1]
      PROVE  After(NameStep, v, ss[i]) \in Q[i]
  <2> DEFINE p == q[i]
             B == D \cup FilesUpTo(c, q, i-1)
             w == After(NameStep, v, pair(p))
  <2>1. p \in Shown(c, b) /\ i - 1 \in 0..n /\ i \in 0..n /\ ss[i] = pair(p)
    BY <1>1
  <2>2. v.hash = c /\ v.pending = NoPath /\ Named(v.entries, B)
    BY <1>7, <2>1
  <2>3. D \cup FilesUpTo(c, q, i) = B \cup {<<c, p>>}
    BY <1>1, FilesUpToGrow
  <2> HIDE DEF p, B
  <2>4. w \in NameState /\ w.hash = c /\ w.pending = NoPath /\ Named(w.entries, B \cup {<<c, p>>})
    BY <2>1, <2>2, NamePair, SMTT(30)
  <2> HIDE DEF w
  <2>5. w \in Q[i]
    BY <2>1, <2>3, <2>4
  <2> QED BY <2>1, <2>5 DEF w
<1> HIDE DEF ss, Q
<1>p. \A i \in 1..Len(ss) : \A v \in NameState : v \in Q[i-1] => After(NameStep, v, ss[i]) \in Q[i]
  BY <1>5, <1>7
<1>8. /\ FlattenSeq(ss) \in Seq(NameToken) /\ After(NameStep, u, FlattenSeq(ss)) \in NameState
      /\ After(NameStep, u, FlattenSeq(ss)) \in Q[n]
  BY <1>3, <1>5, <1>6, <1>p, NameMachine, AfterParts, ZenonT(60)
<1>9. Named(After(NameStep, u, FlattenSeq(ss)).entries, D \cup FilesOf(c, b))
  <2>1. n \in 0..n
    BY <1>1
  <2> QED BY <1>1, <1>8, <2>1 DEF Q
<1>10. NameStep[<<s, f>>] = u
  <2> HIDE DEF f
  <2> QED BY <1>3, NameStepIs DEF u
<1> DEFINE r == FlattenSeq(ss)
<1> HIDE DEF f, r
<1>11. /\ <<f>> \o r \in Seq(NameToken) /\ After(NameStep, s, <<f>> \o r) = After(NameStep, u, r)
  <2>1. r \in Seq(NameToken)
    BY <1>8 DEF r
  <2> QED BY <1>3, <1>10, <2>1, NameMachine, AfterFirst
<1> QED BY <1>2, <1>8, <1>9, <1>11 DEF r

\* No commit has no files.
LEMMA FilesToNone == \A l, b : FilesTo(l, b, 0) = {}
BY DEF FilesTo

\* The positions and the commits of a list.
LEMMA CommitOf ==
  ASSUME NEW l \in Seq(Commits)
  PROVE  Len(l) \in Nat /\ \A i \in 1..Len(l) : l[i] \in Commits /\ i-1 \in 0..Len(l) /\ i \in 0..Len(l)
BY ElementOfSeq

\* parseNameStatusLogZ gives an entry with its status to the files of every commit.
LEMMA NameAll ==
  ASSUME NEW l \in Seq(Commits), NEW b
  PROVE  /\ parseNameStatusLogZ(Output(NameStatus, l, b)) \in Entries
         /\ Named(parseNameStatusLogZ(Output(NameStatus, l, b)), FilesTo(l, b, Len(l)))
<1> DEFINE n == Len(l)
           s0 == [hash |-> NoCommit, pending |-> NoPath, entries |-> NoEntries]
           ss == [i \in 1..n |-> NameStatus(l[i], b)]
           Q == [k \in 0..n |-> {v \in NameState : Named(v.entries, FilesTo(l, b, k))}]
           r == FlattenSeq(ss)
<1>0. s0 \in NameState /\ s0.entries = NoEntries
  BY NoEntryIs DEF NameState
<1>1. Named(NoEntries, {})
  BY NoEntryIs DEF Named
<1>2. n \in Nat /\ \A i \in 1..n : l[i] \in Commits /\ i-1 \in 0..n /\ i \in 0..n
  BY CommitOf
<1> HIDE DEF s0, n
<1>3. s0 \in Q[0]
  <2>1. 0 \in 0..n /\ FilesTo(l, b, 0) = {}
    BY <1>2, FilesToNone
  <2> QED BY <1>0, <1>1, <2>1
<1>4. ss \in Seq(Seq(NameToken)) /\ Len(ss) = n
  <2>1. ASSUME NEW i \in 1..n PROVE NameStatus(l[i], b) \in Seq(NameToken)
    BY <1>0, <1>1, <1>2, NameCommit
  <2>2. ss \in [1..n -> Seq(NameToken)]
    BY <2>1
  <2> HIDE DEF ss
  <2> QED BY <1>2, <2>2
<1>5. ASSUME NEW i \in 1..n, NEW v \in NameState, v \in Q[i-1]
      PROVE  After(NameStep, v, ss[i]) \in Q[i]
  <2> DEFINE D == FilesTo(l, b, i-1)
             c == l[i]
  <2>1. c \in Commits /\ i-1 \in 0..n /\ i \in 0..n /\ ss[i] = NameStatus(c, b)
    BY <1>2
  <2>2. Named(v.entries, D)
    BY <1>5, <2>1
  <2>3. FilesTo(l, b, i) = D \cup FilesOf(c, b)
    BY FilesGrow DEF n
  <2> HIDE DEF D, c
  <2>4. /\ After(NameStep, v, NameStatus(c, b)) \in NameState
        /\ Named(After(NameStep, v, NameStatus(c, b)).entries, D \cup FilesOf(c, b))
    BY <2>1, <2>2, NameCommit
  <2> QED BY <2>1, <2>3, <2>4
<1> HIDE DEF ss, Q
<1>p. \A i \in 1..Len(ss) : \A v \in NameState : v \in Q[i-1] => After(NameStep, v, ss[i]) \in Q[i]
  BY <1>4, <1>5
<1>6. /\ r \in Seq(NameToken) /\ After(NameStep, s0, r) \in NameState /\ After(NameStep, s0, r) \in Q[n]
  BY <1>0, <1>3, <1>4, <1>p, NameMachine, AfterParts
<1>7. Output(NameStatus, l, b) = r
  BY DEF Output, ss, n
<1> HIDE DEF r
<1>8. FoldLeft(NameStatusField, s0, r) = After(NameStep, s0, r)
  BY <1>0, <1>6, NameFold
<1>9. parseNameStatusLogZ(Output(NameStatus, l, b)) = After(NameStep, s0, r).entries
  BY <1>7, <1>8 DEF parseNameStatusLogZ, s0
<1>10. n \in 0..n
  BY <1>2
<1> QED BY <1>6, <1>9, <1>10 DEF Q, NameState, n

(* The second pass.  D holds the files that have an entry, K those whose   *)
(* numbers have been read.                                                 *)
NumState == [hash : Commits \cup {NoCommit}, entries : Entries]
NumToken == [t : {"commit"}, v : Commits] \cup [t : {"stat"}, v : Paths, n : Nat]
NumStep == [a \in NumState \X NumToken |-> NumStatField(a[1], a[2])]

NumOf(c, p) == IF Changes[c][p].kind = "binary" THEN 0 ELSE Changes[c][p].lines
Numbered(E, D, K) ==
  \A c \in Commits, p \in Paths :
    /\ E[c][p].status = IF <<c, p>> \in D THEN Changes[c][p].status ELSE NoPath
    /\ E[c][p].lines = IF <<c, p>> \in K THEN NumOf(c, p) ELSE 0
    /\ E[c][p].patch = <<>>

\* The fields of an entry.
LEMMA EntryFields ==
  ASSUME NEW e \in Entry
  PROVE  /\ e.status \in Statuses \cup Paths \cup {NoPath} /\ e.lines \in Nat /\ e.patch \in Seq(PatchText)
         /\ e = [status |-> e.status, lines |-> e.lines, patch |-> e.patch]
BY DEF Entry

\* The state of the --numstat reader is typed,
LEMMA NumFieldIs ==
  ASSUME NEW s \in NumState, NEW f \in NumToken
  PROVE  NumStatField(s, f) \in NumState
<1>0. s.hash \in Commits \cup {NoCommit} /\ s.entries \in Entries /\ DOMAIN s = {"hash", "entries"}
  BY DEF NumState
<1>1. CASE f.t = "commit"
  <2>1. f.v \in Commits
    BY <1>1 DEF NumToken
  <2>2. NumStatField(s, f) = [s EXCEPT !.hash = f.v]
    BY <1>1 DEF NumStatField
  <2> QED BY <2>1, <2>2 DEF NumState
<1>2. CASE f.t # "commit" /\ s.hash = NoCommit
  BY <1>2 DEF NumStatField
<1>3. CASE f.t # "commit" /\ s.hash # NoCommit
  <2>1. f.v \in Paths /\ f.n \in Nat /\ s.hash \in Commits
    BY <1>0, <1>3 DEF NumToken
  <2> DEFINE E == s.entries
             o == E[s.hash][f.v]
             e == [o EXCEPT !.lines = f.n, !.status = IF @ = NoPath THEN "M" ELSE @]
             F == [E EXCEPT ![s.hash][f.v] = e]
  <2>2. o \in Entry
    BY <1>0, <2>1 DEF Entries
  <2>3. e \in Entry
    <3> HIDE DEF o
    <3>1. o.status \in Statuses \cup Paths \cup {NoPath} /\ "M" \in Statuses
      BY <2>2, EntryFields DEF Statuses
    <3> QED BY <2>1, <2>2, <3>1 DEF Entry
  <2>4. NumStatField(s, f) = [s EXCEPT !.entries = F]
    BY <1>3 DEF NumStatField
  <2>5. F \in Entries
    <3> HIDE DEF e, E
    <3>1. E \in Entries
      BY <1>0 DEF E
    <3> QED BY <2>1, <2>3, <3>1, EntriesPut
  <2> HIDE DEF F
  <2> QED BY <2>4, <2>5 DEF NumState
<1> QED BY <1>1, <1>2, <1>3

\* so that its step is a machine's,
LEMMA NumMachine == Machine(NumStep, NumState, NumToken)
<1>1. ASSUME NEW a \in NumState \X NumToken PROVE NumStatField(a[1], a[2]) \in NumState
  <2>1. a[1] \in NumState /\ a[2] \in NumToken
    OBVIOUS
  <2> QED BY <2>1, NumFieldIs
<1> QED BY <1>1 DEF Machine, NumStep

\* the step of which is NumStatField.
LEMMA NumStepIs ==
  ASSUME NEW s \in NumState, NEW f \in NumToken
  PROVE  NumStep[<<s, f>>] = NumStatField(s, f)
BY DEF NumStep

\* Folding with NumStatField is running that machine.
LEMMA NumFold ==
  ASSUME NEW out \in Seq(NumToken), NEW s0 \in NumState
  PROVE  FoldLeft(NumStatField, s0, out) = After(NumStep, s0, out)
<1>1. PICK h \in [SUBSET DOMAIN out -> NumState] : IsFold(h, NumStep, s0, out)
  BY NumMachine, FoldExists
<1> DEFINE E(i) == i = [s \in SUBSET DOMAIN out |->
                          IF s = {} THEN s0 ELSE NumStatField(i[s \ {Max(s)}], out[Max(s)])]
           it == CHOOSE i : E(i)
<1>2. E(h)
  <2>1. ASSUME NEW s \in SUBSET DOMAIN out
        PROVE  h[s] = IF s = {} THEN s0 ELSE NumStatField(h[s \ {Max(s)}], out[Max(s)])
    <3>1. h[s] = IF s = {} THEN s0 ELSE NumStep[<<h[s \ {Max(s)}], out[Max(s)]>>]
      BY <1>1 DEF IsFold
    <3>2. s # {} => h[s \ {Max(s)}] \in NumState /\ out[Max(s)] \in NumToken
      BY MaxIn
    <3> QED BY <3>1, <3>2, NumStepIs
  <2> QED BY <2>1
<1>3. E(it)
  <2>1. \E i : E(i)
    BY <1>2
  <2> HIDE DEF E
  <2> QED BY <2>1
<1>4. FoldLeft(NumStatField, s0, out) = it[DOMAIN out]
  BY DEF FoldLeft, MapThenFoldSet
<1> HIDE DEF it
<1>5. FoldsBy(it, NumStep, NumState, s0, out)
  <2>1. it[{}] = s0
    BY <1>3
  <2>2. ASSUME NEW t \in SUBSET DOMAIN out, t # {}, it[t \ {Max(t)}] \in NumState
        PROVE  it[t] = NumStep[<<it[t \ {Max(t)}], out[Max(t)]>>]
    <3>1. it[t] = NumStatField(it[t \ {Max(t)}], out[Max(t)])
      BY <1>3, <2>2
    <3>2. out[Max(t)] \in NumToken
      BY <2>2, MaxIn
    <3> QED BY <2>2, <3>1, <3>2, NumStepIs
  <2> QED BY <2>1, <2>2 DEF FoldsBy
<1> QED BY <1>4, <1>5, NumMachine, FoldIsAfter

\* A line of --numstat gives its file its lines.
LEMMA NumOne ==
  ASSUME NEW s \in NumState, NEW c \in Commits, NEW p \in DOMAIN Changes[c], NEW D, NEW K,
         s.hash = c, Numbered(s.entries, D, K), <<c, p>> \in D
  PROVE  LET f == [t |-> "stat", v |-> p, n |-> NumOf(c, p)]
             w == NumStep[<<s, f>>]
         IN  /\ f \in NumToken /\ w \in NumState
             /\ w.hash = c /\ Numbered(w.entries, D, K \cup {<<c, p>>})
<1> DEFINE m == NumOf(c, p)
           f == [t |-> "stat", v |-> p, n |-> m]
           w == NumStatField(s, f)
           E == s.entries
           o == E[c][p]
           e == [o EXCEPT !.lines = m, !.status = IF @ = NoPath THEN "M" ELSE @]
           F == [E EXCEPT ![c][p] = e]
<1>1. p \in Paths /\ m \in Nat /\ c # NoCommit /\ Changes[c][p].status # NoPath
  BY ChangeFacts, CommitsAssumption DEF NumOf
<1> HIDE DEF m
<1>2. f \in NumToken
  BY <1>1 DEF NumToken
<1>3. w \in NumState /\ NumStep[<<s, f>>] = w
  <2> HIDE DEF f
  <2> QED BY <1>2, NumFieldIs, NumStepIs
<1>4. w = [s EXCEPT !.entries = F]
  BY <1>1 DEF NumStatField
<1>5. E \in Entries
  BY DEF NumState
<1>6. o \in Entry
  BY <1>1, <1>5 DEF Entries
<1>7. o.status = Changes[c][p].status /\ o.patch = <<>>
  BY <1>1 DEF Numbered
<1> HIDE DEF o
<1>8. e.status = Changes[c][p].status /\ e.lines = m /\ e.patch = <<>> /\ e \in Entry
  <2>1. DOMAIN o = {"status", "lines", "patch"}
    BY <1>6 DEF Entry
  <2>2. e \in Entry
    BY <1>1, <1>6, <1>7 DEF Entry
  <2> QED BY <1>1, <1>7, <2>1, <2>2
<1> HIDE DEF e, E
<1>9. /\ F \in Entries
      /\ \A d \in Commits, q \in Paths : F[d][q] = IF d = c /\ q = p THEN e ELSE E[d][q]
  BY <1>5, <1>8, EntriesPut, SMTT(30)
<1> HIDE DEF F
<1>10. w.hash = c /\ w.entries = F
  BY <1>4 DEF NumState
<1>11. Numbered(F, D, K \cup {<<c, p>>})
  <2> SUFFICES ASSUME NEW d \in Commits, NEW q \in Paths
               PROVE  /\ F[d][q].status = IF <<d, q>> \in D THEN Changes[d][q].status ELSE NoPath
                      /\ F[d][q].lines = IF <<d, q>> \in K \cup {<<c, p>>} THEN NumOf(d, q) ELSE 0
                      /\ F[d][q].patch = <<>>
    BY Zenon DEF Numbered
  <2>1. CASE d = c /\ q = p
    BY <1>8, <1>9, <2>1 DEF m
  <2>2. CASE ~(d = c /\ q = p)
    BY <1>9, <2>2 DEF Numbered, E
  <2> QED BY <2>1, <2>2
<1> QED BY <1>2, <1>3, <1>10, <1>11 DEF m

\* The output of a commit gives the files git shows of it their lines.
LEMMA NumCommit ==
  ASSUME NEW s \in NumState, NEW c \in Commits, NEW b, NEW D, NEW K,
         Numbered(s.entries, D, K), FilesOf(c, b) \subseteq D
  PROVE  /\ NumStat(c, b) \in Seq(NumToken)
         /\ After(NumStep, s, NumStat(c, b)) \in NumState
         /\ Numbered(After(NumStep, s, NumStat(c, b)).entries, D, K \cup FilesOf(c, b))
<1> DEFINE n == Cardinality(Shown(c, b))
           q == SetToSeq(Shown(c, b))
           tok(p) == [t |-> "stat", v |-> p, n |-> NumOf(c, p)]
           r == [i \in 1..n |-> tok(q[i])]
           f == [t |-> "commit", v |-> c]
           u == NumStatField(s, f)
           Q == [j \in 0..n |-> {v \in NumState : /\ v.hash = c
                                                  /\ Numbered(v.entries, D, K \cup FilesUpTo(c, q, j))}]
<1>1. /\ n \in Nat /\ \A i \in 1..n : q[i] \in Shown(c, b)
      /\ FilesUpTo(c, q, n) = FilesOf(c, b) /\ FilesUpTo(c, q, 0) = {}
  BY FilesUpToAll
<1>2. NumStat(c, b) = <<f>> \o r
  BY DEF NumStat, NumOf
<1>3. f \in NumToken /\ u \in NumState /\ NumStep[<<s, f>>] = u
  <2>1. f \in NumToken
    BY DEF NumToken
  <2> HIDE DEF f
  <2> QED BY <2>1, NumFieldIs, NumStepIs
<1>4. u.hash = c /\ u.entries = s.entries
  BY DEF NumStatField, NumState
<1> HIDE DEF n, q, u
<1>5. ASSUME NEW i \in 1..n
      PROVE  q[i] \in DOMAIN Changes[c] /\ tok(q[i]) \in NumToken /\ <<c, q[i]>> \in D
  <2> DEFINE p == q[i]
  <2>1. p \in Shown(c, b) /\ p \in Paths /\ p \in DOMAIN Changes[c] /\ NumOf(c, p) \in Nat
    BY <1>1, ChangeFacts DEF NumOf
  <2>2. tok(p) \in NumToken /\ <<c, p>> \in D
    <3> HIDE DEF p
    <3>1. tok(p) \in NumToken
      BY <2>1 DEF NumToken
    <3> QED BY <2>1, <3>1 DEF FilesOf
  <2> QED BY <2>1, <2>2
<1>6. r \in Seq(NumToken) /\ Len(r) = n
  <2> HIDE DEF tok
  <2>1. r \in [1..n -> NumToken]
    BY <1>5
  <2> HIDE DEF r
  <2> QED BY <1>1, <2>1
<1>7. u \in Q[0]
  <2>1. 0 \in 0..n /\ K \cup FilesUpTo(c, q, 0) = K
    BY <1>1
  <2> QED BY <1>3, <1>4, <2>1
<1>8. ASSUME NEW i \in 1..n, NEW v \in NumState, v \in Q[i-1]
      PROVE  NumStep[<<v, r[i]>>] \in Q[i]
  <2> DEFINE p == q[i]
             B == K \cup FilesUpTo(c, q, i-1)
             w == NumStep[<<v, tok(p)>>]
  <2>1. p \in DOMAIN Changes[c] /\ <<c, p>> \in D /\ i - 1 \in 0..n /\ i \in 0..n /\ r[i] = tok(p)
    <3>1. r[i] = tok(p)
      OBVIOUS
    <3>2. i - 1 \in 0..n /\ i \in 0..n
      BY <1>1
    <3> HIDE DEF tok, r
    <3> QED BY <1>5, <3>1, <3>2
  <2>2. v.hash = c /\ Numbered(v.entries, D, B)
    BY <1>8, <2>1
  <2>3. K \cup FilesUpTo(c, q, i) = B \cup {<<c, p>>}
    BY <1>1, FilesUpToGrow
  <2> HIDE DEF p, B
  <2>4. w \in NumState /\ w.hash = c /\ Numbered(w.entries, D, B \cup {<<c, p>>})
    BY <2>1, <2>2, NumOne
  <2> HIDE DEF w
  <2>5. w \in Q[i]
    BY <2>1, <2>3, <2>4
  <2> QED BY <2>1, <2>5 DEF w
<1> HIDE DEF r, Q
<1>9. After(NumStep, u, r) \in NumState /\ After(NumStep, u, r) \in Q[n]
  BY <1>3, <1>6, <1>7, <1>8, NumMachine, AfterElements
<1>10. Numbered(After(NumStep, u, r).entries, D, K \cup FilesOf(c, b))
  <2>1. n \in 0..n
    BY <1>1
  <2> QED BY <1>1, <1>9, <2>1 DEF Q
<1> HIDE DEF f
<1>11. /\ <<f>> \o r \in Seq(NumToken) /\ After(NumStep, s, <<f>> \o r) = After(NumStep, u, r)
  BY <1>3, <1>6, NumMachine, AfterFirst
<1> QED BY <1>2, <1>9, <1>10, <1>11

\* The files of a commit are among those of its list.
LEMMA FilesWithin ==
  ASSUME NEW l, NEW b, NEW n \in Nat, NEW i \in 1..n
  PROVE  FilesOf(l[i], b) \subseteq FilesTo(l, b, n)
BY DEF FilesTo

\* mergeNumstatLogZ gives every named file its lines.
LEMMA NumAll ==
  ASSUME NEW l \in Seq(Commits), NEW b, NEW E \in Entries, Named(E, FilesTo(l, b, Len(l)))
  PROVE  LET F == mergeNumstatLogZ(Output(NumStat, l, b), E)
             D == FilesTo(l, b, Len(l))
         IN  F \in Entries /\ Numbered(F, D, D)
<1> DEFINE n == Len(l)
           D == FilesTo(l, b, n)
           s0 == [hash |-> NoCommit, entries |-> E]
           ss == [i \in 1..n |-> NumStat(l[i], b)]
           Q == [k \in 0..n |-> {v \in NumState : Numbered(v.entries, D, FilesTo(l, b, k))}]
           r == FlattenSeq(ss)
<1>0. s0 \in NumState /\ s0.entries = E
  BY DEF NumState
<1>1. Numbered(E, D, {})
  <2> HIDE DEF D
  <2>1. Named(E, D)
    BY DEF D
  <2> SUFFICES ASSUME NEW c \in Commits, NEW p \in Paths
               PROVE  /\ E[c][p].status = IF <<c, p>> \in D THEN Changes[c][p].status ELSE NoPath
                      /\ E[c][p].lines = 0
                      /\ E[c][p].patch = <<>>
    BY Zenon DEF Numbered
  <2>2. E[c][p] = IF <<c, p>> \in D THEN [NoEntry EXCEPT !.status = Changes[c][p].status] ELSE NoEntry
    BY <2>1 DEF Named
  <2> QED BY <2>2 DEF NoEntry
<1>2. n \in Nat /\ \A i \in 1..n : l[i] \in Commits /\ i-1 \in 0..n /\ i \in 0..n
  BY CommitOf
<1>3. \A i \in 1..n : FilesOf(l[i], b) \subseteq D
  BY <1>2, FilesWithin
<1> HIDE DEF s0, n, D
<1>4. s0 \in Q[0]
  <2>1. 0 \in 0..n /\ FilesTo(l, b, 0) = {}
    BY <1>2, FilesToNone
  <2> QED BY <1>0, <1>1, <2>1
<1>5. ss \in Seq(Seq(NumToken)) /\ Len(ss) = n
  <2>1. ASSUME NEW i \in 1..n PROVE NumStat(l[i], b) \in Seq(NumToken)
    BY <1>0, <1>1, <1>2, <1>3, NumCommit
  <2>2. ss \in [1..n -> Seq(NumToken)]
    BY <2>1
  <2> HIDE DEF ss
  <2> QED BY <1>2, <2>2
<1>6. ASSUME NEW i \in 1..n, NEW v \in NumState, v \in Q[i-1]
      PROVE  After(NumStep, v, ss[i]) \in Q[i]
  <2> DEFINE K == FilesTo(l, b, i-1)
             c == l[i]
  <2>1. c \in Commits /\ i-1 \in 0..n /\ i \in 0..n /\ ss[i] = NumStat(c, b) /\ FilesOf(c, b) \subseteq D
    BY <1>2, <1>3
  <2>2. Numbered(v.entries, D, K)
    BY <1>6, <2>1
  <2>3. FilesTo(l, b, i) = K \cup FilesOf(c, b)
    BY FilesGrow DEF n
  <2> HIDE DEF K, c
  <2>4. /\ After(NumStep, v, NumStat(c, b)) \in NumState
        /\ Numbered(After(NumStep, v, NumStat(c, b)).entries, D, K \cup FilesOf(c, b))
    BY <2>1, <2>2, NumCommit
  <2> QED BY <2>1, <2>3, <2>4
<1> HIDE DEF ss, Q
<1>p. \A i \in 1..Len(ss) : \A v \in NumState : v \in Q[i-1] => After(NumStep, v, ss[i]) \in Q[i]
  BY <1>5, <1>6
<1>7. /\ r \in Seq(NumToken) /\ After(NumStep, s0, r) \in NumState /\ After(NumStep, s0, r) \in Q[n]
  BY <1>0, <1>4, <1>5, <1>p, NumMachine, AfterParts
<1>8. Output(NumStat, l, b) = r
  BY DEF Output, ss, n
<1> HIDE DEF r
<1>9. FoldLeft(NumStatField, s0, r) = After(NumStep, s0, r)
  BY <1>0, <1>7, NumFold
<1>10. mergeNumstatLogZ(Output(NumStat, l, b), E) = After(NumStep, s0, r).entries
  BY <1>8, <1>9 DEF mergeNumstatLogZ, s0
<1>11. n \in 0..n /\ FilesTo(l, b, n) = D
  BY <1>2 DEF D
<1> QED BY <1>7, <1>10, <1>11 DEF Q, NumState, n, D

(* The third pass.  D holds the files that have an entry, P those whose    *)
(* patch has been read.                                                    *)
PatchState == [hash : Commits \cup {NoCommit}, path : Paths \cup {NoPath}, lines : Seq(PatchText),
               oversized : BOOLEAN, entries : Entries]
PatchToken == [t : {"commit"}, v : Commits] \cup [t : {"diff"}, v : Paths]
              \cup [t : {"header", "binary"}, v : {NoPath}] \cup [t : {"line"}, v : PatchText]
PatchStep == [a \in PatchState \X PatchToken |-> PatchLine(a[1], a[2])]

TextPatch(c, p) == {<< <<c, p>> >>, << <<c, p>>, <<>> >>}
Patched(E, D, P) ==
  \A c \in Commits, p \in Paths :
    /\ E[c][p].status = IF <<c, p>> \in D THEN Changes[c][p].status ELSE NoPath
    /\ E[c][p].lines = IF <<c, p>> \in D THEN NumOf(c, p) ELSE 0
    /\ IF <<c, p>> \in D /\ Changes[c][p].kind = "text"
       THEN <<c, p>> \in P => E[c][p].patch \in TextPatch(c, p)
       ELSE E[c][p].patch = <<>>

\* flush changes nothing but the patch of the current file.
Flushes(s) == /\ s.hash # NoCommit /\ s.path # NoPath /\ s.lines # <<>> /\ ~s.oversized
              /\ s.entries[s.hash][s.path] # NoEntry

\* The fields of the patch reader's state.
LEMMA PatchStateIs ==
  ASSUME NEW s \in PatchState
  PROVE  /\ s.hash \in Commits \cup {NoCommit} /\ s.path \in Paths \cup {NoPath}
         /\ s.lines \in Seq(PatchText) /\ s.oversized \in BOOLEAN /\ s.entries \in Entries
         /\ DOMAIN s = {"hash", "path", "lines", "oversized", "entries"}
BY DEF PatchState

\* The empty text is a text, and the empty patch a patch.
LEMMA EmptyPatch == <<>> \in Seq(PatchText) /\ <<>> \in PatchText
<1>1. <<>> \in Seq(PatchText)
  OBVIOUS
<1>2. <<>> \in PatchText
  BY DEF PatchText
<1> QED BY <1>1, <1>2

\* Flush changes the patch of the file that was being read, or nothing.
LEMMA FlushIs ==
  ASSUME NEW s \in PatchState
  PROVE  /\ Flush(s) \in Entries
         /\ ~Flushes(s) => Flush(s) = s.entries
         /\ \A d \in Commits, q \in Paths :
              /\ Flush(s)[d][q].status = s.entries[d][q].status
              /\ Flush(s)[d][q].lines = s.entries[d][q].lines
              /\ Flush(s)[d][q].patch =
                   IF Flushes(s) /\ d = s.hash /\ q = s.path
                   THEN IF s.lines = << <<>> >> THEN <<>> ELSE s.lines
                   ELSE s.entries[d][q].patch
<1>1. /\ s.hash \in Commits \cup {NoCommit} /\ s.path \in Paths \cup {NoPath}
      /\ s.lines \in Seq(PatchText) /\ s.entries \in Entries
  BY PatchStateIs
<1>2. CASE ~Flushes(s)
  <2>1. Flush(s) = s.entries
    BY <1>2 DEF Flush, Flushes
  <2> QED BY <1>1, <1>2, <2>1
<1>3. CASE Flushes(s)
  <2> DEFINE E == s.entries
             c == s.hash
             p == s.path
             t == IF s.lines = << <<>> >> THEN <<>> ELSE s.lines
             o == E[c][p]
             e == [o EXCEPT !.patch = t]
             F == [E EXCEPT ![c][p] = e]
  <2>1. c \in Commits /\ p \in Paths /\ E \in Entries
    BY <1>1, <1>3 DEF Flushes
  <2>2. Flush(s) = F
    BY <1>3 DEF Flush, Flushes
  <2>3. t \in Seq(PatchText)
    BY <1>1, EmptyPatch
  <2> HIDE DEF c, p, E, t
  <2>4. o \in Entry
    BY <2>1 DEF Entries
  <2> HIDE DEF o
  <2>5. e \in Entry /\ e.patch = t /\ e.status = o.status /\ e.lines = o.lines
    BY <2>3, <2>4 DEF Entry
  <2> HIDE DEF e
  <2>6. /\ F \in Entries
        /\ \A d \in Commits, q \in Paths : F[d][q] = IF d = c /\ q = p THEN e ELSE E[d][q]
    BY <2>1, <2>5, EntriesPut
  <2> HIDE DEF F
  <2>7. ASSUME NEW d \in Commits, NEW q \in Paths
        PROVE  /\ F[d][q].status = E[d][q].status /\ F[d][q].lines = E[d][q].lines
               /\ F[d][q].patch = IF d = c /\ q = p THEN t ELSE E[d][q].patch
    <3>1. CASE d = c /\ q = p
      BY <2>5, <2>6, <3>1 DEF o
    <3>2. CASE ~(d = c /\ q = p)
      BY <2>6, <3>2
    <3> QED BY <3>1, <3>2
  <2> QED BY <1>3, <2>2, <2>6, <2>7 DEF c, p, E, t
<1> QED BY <1>2, <1>3

\* The tokens of a patch log.
LEMMA PatchTokens ==
  /\ \A c \in Commits : [t |-> "commit", v |-> c] \in PatchToken
  /\ \A p \in Paths : [t |-> "diff", v |-> p] \in PatchToken
  /\ [t |-> "header", v |-> NoPath] \in PatchToken /\ [t |-> "binary", v |-> NoPath] \in PatchToken
  /\ \A x \in PatchText : [t |-> "line", v |-> x] \in PatchToken
BY DEF PatchToken

\* StartFile stores what was read and starts a file with no lines.
LEMMA StartFileIs ==
  ASSUME NEW s \in PatchState, NEW p \in Paths \cup {NoPath}
  PROVE  LET w == StartFile(s, p)
         IN  /\ w \in PatchState /\ w.hash = s.hash /\ w.path = p /\ w.lines = <<>>
             /\ w.oversized = FALSE /\ w.entries = Flush(s)
<1>1. Flush(s) \in Entries /\ <<>> \in Seq(PatchText)
  BY FlushIs, EmptyPatch
<1> DEFINE F == Flush(s)
<1>2. StartFile(s, p) = [s EXCEPT !.entries = F, !.path = p, !.lines = <<>>, !.oversized = FALSE]
  BY DEF StartFile
<1> HIDE DEF F
<1> QED BY <1>1, <1>2 DEF PatchState, F

\* What each kind of line does.
LEMMA LineCommit ==
  ASSUME NEW s \in PatchState, NEW c \in Commits
  PROVE  LET w == PatchLine(s, [t |-> "commit", v |-> c])
         IN  /\ w \in PatchState /\ w.hash = c /\ w.path = NoPath /\ w.lines = <<>>
             /\ w.oversized = FALSE /\ w.entries = Flush(s)
<1> DEFINE x == StartFile(s, NoPath)
<1>1. /\ x \in PatchState /\ x.path = NoPath /\ x.lines = <<>>
      /\ x.oversized = FALSE /\ x.entries = Flush(s)
  BY StartFileIs
<1>2. PatchLine(s, [t |-> "commit", v |-> c]) = [x EXCEPT !.hash = c]
  BY DEF PatchLine
<1> HIDE DEF x
<1> QED BY <1>1, <1>2 DEF PatchState

\* A "diff --git" line starts a file.
LEMMA LineDiff ==
  ASSUME NEW s \in PatchState, NEW p \in Paths, s.hash # NoCommit
  PROVE  LET w == PatchLine(s, [t |-> "diff", v |-> p])
         IN  /\ w \in PatchState /\ w.hash = s.hash /\ w.path = p /\ w.lines = <<>>
             /\ w.oversized = FALSE /\ w.entries = Flush(s)
<1>1. PatchLine(s, [t |-> "diff", v |-> p]) = StartFile(s, p)
  BY DEF PatchLine
<1> DEFINE x == StartFile(s, p)
<1>2. /\ x \in PatchState /\ x.hash = s.hash /\ x.path = p /\ x.lines = <<>>
      /\ x.oversized = FALSE /\ x.entries = Flush(s)
  <2>1. p \in Paths \cup {NoPath}
    OBVIOUS
  <2> QED BY <2>1, StartFileIs
<1> HIDE DEF x
<1> QED BY <1>1, <1>2 DEF x

\* A header line changes nothing.
LEMMA LineHeader ==
  ASSUME NEW s \in PatchState
  PROVE  PatchLine(s, [t |-> "header", v |-> NoPath]) = s
BY DEF PatchLine

\* A "Binary files" line forgets the file.
LEMMA LineBinary ==
  ASSUME NEW s \in PatchState
  PROVE  LET w == PatchLine(s, [t |-> "binary", v |-> NoPath])
         IN  /\ w \in PatchState /\ w.hash = s.hash /\ w.entries = s.entries
             /\ s.hash # NoCommit => w.path = NoPath
<1> DEFINE w == PatchLine(s, [t |-> "binary", v |-> NoPath])
<1>1. w = s \/ w = [s EXCEPT !.path = NoPath, !.lines = <<>>]
  BY DEF PatchLine
<1>2. s.hash # NoCommit => s.path = NoPath \/ w = [s EXCEPT !.path = NoPath, !.lines = <<>>]
  BY DEF PatchLine
<1>3. s.path = NoPath => w = s
  BY DEF PatchLine
<1> HIDE DEF w
<1>4. w \in PatchState /\ w.hash = s.hash /\ w.entries = s.entries
  BY <1>1, EmptyPatch DEF PatchState
<1>5. s.hash # NoCommit => w.path = NoPath
  BY <1>2, <1>3 DEF PatchState
<1> QED BY <1>4, <1>5 DEF w

\* A line of text is kept while it fits and drops the patch when it does not.
LEMMA LineText ==
  ASSUME NEW s \in PatchState, NEW x \in PatchText
  PROVE  LET w == PatchLine(s, [t |-> "line", v |-> x])
         IN  /\ w \in PatchState /\ w.hash = s.hash /\ w.entries = s.entries /\ w.path = s.path
             /\ s.path = NoPath => w = s
             /\ s.oversized => w = s
             /\ s.hash # NoCommit /\ s.path # NoPath /\ ~s.oversized =>
                  IF Len(s.lines) = MaxPatchBytes THEN w.oversized = TRUE /\ w.lines = <<>>
                  ELSE w.oversized = FALSE /\ w.lines = Append(s.lines, x)
<1> DEFINE w == PatchLine(s, [t |-> "line", v |-> x])
           full == [s EXCEPT !.oversized = TRUE, !.lines = <<>>]
           more == [s EXCEPT !.lines = Append(s.lines, x)]
<1>0. s.lines \in Seq(PatchText) /\ s.oversized \in BOOLEAN
  BY PatchStateIs
<1>1. w = IF s.hash = NoCommit \/ s.path = NoPath \/ s.oversized THEN s
          ELSE IF Len(s.lines) = MaxPatchBytes THEN full ELSE more
  BY DEF PatchLine
<1>2. Append(s.lines, x) \in Seq(PatchText)
  BY <1>0
<1>3. full \in PatchState /\ full.hash = s.hash /\ full.entries = s.entries /\ full.path = s.path
      /\ full.oversized = TRUE /\ full.lines = <<>>
  BY EmptyPatch DEF PatchState
<1>4. more \in PatchState /\ more.hash = s.hash /\ more.entries = s.entries /\ more.path = s.path
      /\ more.oversized = s.oversized /\ more.lines = Append(s.lines, x)
  BY <1>2 DEF PatchState
<1>5. ~s.oversized => s.oversized = FALSE
  BY <1>0
<1> HIDE DEF w, full, more
<1> QED BY <1>1, <1>3, <1>4, <1>5 DEF w

\* The state of the patch reader is typed,
LEMMA PatchLineIs ==
  ASSUME NEW s \in PatchState, NEW f \in PatchToken
  PROVE  PatchLine(s, f) \in PatchState
<1>1. CASE f \in [t : {"commit"}, v : Commits]
  <2>1. f = [t |-> "commit", v |-> f.v] /\ f.v \in Commits
    BY <1>1
  <2> QED BY <2>1, LineCommit
<1>2. CASE f \in [t : {"diff"}, v : Paths]
  <2>1. f = [t |-> "diff", v |-> f.v] /\ f.v \in Paths
    BY <1>2
  <2>2. CASE s.hash = NoCommit
    BY <1>2, <2>2 DEF PatchLine
  <2>3. CASE s.hash # NoCommit
    BY <2>1, <2>3, LineDiff
  <2> QED BY <2>2, <2>3
<1>3. CASE f \in [t : {"header", "binary"}, v : {NoPath}]
  <2>1. CASE f.t = "header"
    <3>1. f = [t |-> "header", v |-> NoPath]
      BY <1>3, <2>1
    <3> QED BY <3>1, LineHeader
  <2>2. CASE f.t = "binary"
    <3>1. f = [t |-> "binary", v |-> NoPath]
      BY <1>3, <2>2
    <3> QED BY <3>1, LineBinary
  <2> QED BY <1>3, <2>1, <2>2
<1>4. CASE f \in [t : {"line"}, v : PatchText]
  <2>1. f = [t |-> "line", v |-> f.v] /\ f.v \in PatchText
    BY <1>4
  <2> QED BY <2>1, LineText
<1> QED BY <1>1, <1>2, <1>3, <1>4 DEF PatchToken

\* so that its step is a machine's,
LEMMA PatchMachine == Machine(PatchStep, PatchState, PatchToken)
<1>1. ASSUME NEW a \in PatchState \X PatchToken PROVE PatchLine(a[1], a[2]) \in PatchState
  <2>1. a[1] \in PatchState /\ a[2] \in PatchToken
    OBVIOUS
  <2> QED BY <2>1, PatchLineIs
<1> QED BY <1>1 DEF Machine, PatchStep

\* the step of which is PatchLine.
LEMMA PatchStepIs ==
  ASSUME NEW s \in PatchState, NEW f \in PatchToken
  PROVE  PatchStep[<<s, f>>] = PatchLine(s, f)
BY DEF PatchStep

\* Folding with PatchLine is running that machine.
LEMMA PatchFold ==
  ASSUME NEW out \in Seq(PatchToken), NEW s0 \in PatchState
  PROVE  FoldLeft(PatchLine, s0, out) = After(PatchStep, s0, out)
<1>1. PICK h \in [SUBSET DOMAIN out -> PatchState] : IsFold(h, PatchStep, s0, out)
  BY PatchMachine, FoldExists
<1> DEFINE E(i) == i = [s \in SUBSET DOMAIN out |->
                          IF s = {} THEN s0 ELSE PatchLine(i[s \ {Max(s)}], out[Max(s)])]
           it == CHOOSE i : E(i)
<1>2. E(h)
  <2>1. ASSUME NEW s \in SUBSET DOMAIN out
        PROVE  h[s] = IF s = {} THEN s0 ELSE PatchLine(h[s \ {Max(s)}], out[Max(s)])
    <3>1. h[s] = IF s = {} THEN s0 ELSE PatchStep[<<h[s \ {Max(s)}], out[Max(s)]>>]
      BY <1>1 DEF IsFold
    <3>2. s # {} => h[s \ {Max(s)}] \in PatchState /\ out[Max(s)] \in PatchToken
      BY MaxIn
    <3> QED BY <3>1, <3>2, PatchStepIs
  <2> QED BY <2>1
<1>3. E(it)
  <2>1. \E i : E(i)
    BY <1>2
  <2> HIDE DEF E
  <2> QED BY <2>1
<1>4. FoldLeft(PatchLine, s0, out) = it[DOMAIN out]
  BY DEF FoldLeft, MapThenFoldSet
<1> HIDE DEF it
<1>5. FoldsBy(it, PatchStep, PatchState, s0, out)
  <2>1. it[{}] = s0
    BY <1>3
  <2>2. ASSUME NEW t \in SUBSET DOMAIN out, t # {}, it[t \ {Max(t)}] \in PatchState
        PROVE  it[t] = PatchStep[<<it[t \ {Max(t)}], out[Max(t)]>>]
    <3>1. it[t] = PatchLine(it[t \ {Max(t)}], out[Max(t)])
      BY <1>3, <2>2
    <3>2. out[Max(t)] \in PatchToken
      BY <2>2, MaxIn
    <3> QED BY <2>2, <3>1, <3>2, PatchStepIs
  <2> QED BY <2>1, <2>2 DEF FoldsBy
<1> QED BY <1>4, <1>5, PatchMachine, FoldIsAfter

\* Between two files: what is gathered is the patch of the current file.
Ready(s, D) ==
  s.path # NoPath =>
    /\ s.hash \in Commits /\ s.path \in DOMAIN Changes[s.hash] /\ <<s.hash, s.path>> \in D
    /\ \/ s.oversized /\ Changes[s.hash][s.path].kind # "text"
       \/ ~s.oversized /\ s.lines = <<>> /\ Changes[s.hash][s.path].kind = "mode"
       \/ ~s.oversized /\ s.lines = << <<s.hash, s.path>> >> /\ Changes[s.hash][s.path].kind = "text"
Between(s, D, P) == Patched(Flush(s), D, P) /\ Ready(s, D)

\* The patch of a text change has text.
LEMMA TextPatchIs ==
  ASSUME NEW c \in Commits, NEW p \in Paths, NEW x \in TextPatch(c, p)
  PROVE  x # <<>> /\ x # << <<>> >>
<1>1. <<c, p>> # <<>>
  OBVIOUS
<1>2. CASE x = << <<c, p>> >>
  <2>1. Len(x) = 1 /\ x[1] = <<c, p>>
    BY <1>2
  <2>2. Len(<<>>) = 0 /\ << <<>> >>[1] = <<>>
    OBVIOUS
  <2> QED BY <1>1, <2>1, <2>2
<1>3. CASE x = << <<c, p>>, <<>> >>
  <2>1. Len(x) = 2
    BY <1>3
  <2>2. Len(<<>>) = 0 /\ Len(<< <<>> >>) = 1
    OBVIOUS
  <2> QED BY <2>1, <2>2
<1> QED BY <1>2, <1>3 DEF TextPatch

\* A file whose change is no text counts as patched.
LEMMA PatchedMore ==
  ASSUME NEW E, NEW D, NEW P, NEW Q, Patched(E, D, P),
         \A c \in Commits, p \in Paths :
           <<c, p>> \in Q /\ <<c, p>> \in D /\ Changes[c][p].kind = "text" => <<c, p>> \in P
  PROVE  Patched(E, D, Q)
BY Zenon DEF Patched

\* Storing the lines of a text change patches its file.
LEMMA PatchedPut ==
  ASSUME NEW s \in PatchState, NEW c \in Commits, NEW p \in DOMAIN Changes[c], NEW D, NEW P,
         s.hash = c, s.path = p, <<c, p>> \in D, s.lines \in TextPatch(c, p), ~s.oversized,
         Changes[c][p].kind = "text", Patched(s.entries, D, P)
  PROVE  Patched(Flush(s), D, P \cup {<<c, p>>})
<1>1. p \in Paths /\ p # NoPath /\ Changes[c][p].status # NoPath /\ c # NoCommit
  BY ChangeFacts, CommitsAssumption
<1>2. s.lines # <<>> /\ s.lines # << <<>> >>
  BY <1>1, TextPatchIs
<1>3. s.entries[c][p].status # NoPath
  BY <1>1 DEF Patched
<1>4. Flushes(s)
  BY <1>1, <1>2, <1>3, NoEntryIs DEF Flushes
<1> DEFINE F == Flush(s)
<1>5. \A d \in Commits, q \in Paths :
        /\ F[d][q].status = s.entries[d][q].status
        /\ F[d][q].lines = s.entries[d][q].lines
        /\ F[d][q].patch = IF d = c /\ q = p THEN s.lines ELSE s.entries[d][q].patch
  BY <1>2, <1>4, FlushIs
<1> HIDE DEF F
<1>6. ASSUME NEW d \in Commits, NEW q \in Paths
      PROVE  /\ F[d][q].status = IF <<d, q>> \in D THEN Changes[d][q].status ELSE NoPath
             /\ F[d][q].lines = IF <<d, q>> \in D THEN NumOf(d, q) ELSE 0
             /\ IF <<d, q>> \in D /\ Changes[d][q].kind = "text"
                THEN <<d, q>> \in P \cup {<<c, p>>} => F[d][q].patch \in TextPatch(d, q)
                ELSE F[d][q].patch = <<>>
  <2>1. CASE d = c /\ q = p
    BY <1>5, <2>1 DEF Patched
  <2>2. CASE ~(d = c /\ q = p)
    <3>1. <<d, q>> # <<c, p>>
      BY <2>2
    <3> QED BY <1>5, <2>2, <3>1 DEF Patched
  <2> QED BY <2>1, <2>2
<1> QED BY <1>6, Zenon DEF Patched, F

\* What the lines of one file leave behind.
LEMMA BodyText ==
  ASSUME NEW u \in PatchState, NEW c \in Commits, NEW p \in DOMAIN Changes[c], NEW D, NEW P,
         u.hash = c, u.path = p, u.lines = <<>>, u.oversized = FALSE, <<c, p>> \in D,
         Patched(u.entries, D, P), Changes[c][p].kind = "text"
  PROVE  LET f == [t |-> "line", v |-> <<c, p>>]
             w == PatchLine(u, f)
         IN  f \in PatchToken /\ w \in PatchState /\ w.hash = c /\ Between(w, D, P \cup {<<c, p>>})
<1> DEFINE x == <<c, p>>
           f == [t |-> "line", v |-> x]
           w == PatchLine(u, f)
<1>1. p \in Paths /\ p # NoPath /\ c # NoCommit
  BY ChangeFacts, CommitsAssumption
<1>2. x \in PatchText
  BY <1>1 DEF PatchText
<1>3. Len(u.lines) = 0 /\ Append(u.lines, x) = <<x>> /\ MaxPatchBytes # 0
  BY HistoryBoundsAssumption
<1> HIDE DEF x
<1>4. /\ w \in PatchState /\ w.hash = c /\ w.entries = u.entries /\ w.path = p
      /\ w.oversized = FALSE /\ w.lines = <<x>>
  BY <1>1, <1>2, <1>3, LineText
<1>5. f \in PatchToken
  BY <1>2, PatchTokens
<1> HIDE DEF w
<1>6. <<x>> \in TextPatch(c, p)
  BY DEF TextPatch, x
<1>7. Patched(Flush(w), D, P \cup {<<c, p>>})
  BY <1>4, <1>6, PatchedPut
<1>8. Ready(w, D)
  BY <1>4 DEF Ready, x
<1> QED BY <1>4, <1>5, <1>7, <1>8 DEF Between, w, x

\* Between two files nothing is pending of a change that is no text.
LEMMA BetweenOther ==
  ASSUME NEW w \in PatchState, NEW c \in Commits, NEW p \in DOMAIN Changes[c], NEW D, NEW P,
         w.hash = c, <<c, p>> \in D, Patched(w.entries, D, P), Changes[c][p].kind # "text",
         \/ w.path = NoPath
         \/ w.path = p /\ w.oversized
         \/ w.path = p /\ ~w.oversized /\ w.lines = <<>> /\ Changes[c][p].kind = "mode"
  PROVE  Between(w, D, P \cup {<<c, p>>})
<1>1. ~Flushes(w)
  BY DEF Flushes
<1>2. Flush(w) = w.entries
  BY <1>1, FlushIs
<1>3. Patched(w.entries, D, P \cup {<<c, p>>})
  <2>1. \A d \in Commits, q \in Paths :
          <<d, q>> \in P \cup {<<c, p>>} /\ <<d, q>> \in D /\ Changes[d][q].kind = "text" => <<d, q>> \in P
    OBVIOUS
  <2> QED BY <2>1, PatchedMore
<1>4. Ready(w, D)
  BY DEF Ready
<1> QED BY <1>2, <1>3, <1>4 DEF Between

BigLines(c, p) == [i \in 1..(MaxPatchBytes + 1) |-> [t |-> "line", v |-> <<c, p>>]]
Overfull(w, u) ==
  w.hash = u.hash /\ w.path = u.path /\ w.entries = u.entries /\ w.oversized = TRUE

\* A patch beyond the limit is dropped and stays dropped.
LEMMA BodyBig ==
  ASSUME NEW u \in PatchState, NEW c \in Commits, NEW p \in DOMAIN Changes[c],
         u.hash = c, u.path = p, u.lines = <<>>, u.oversized = FALSE
  PROVE  LET w == After(PatchStep, u, BigLines(c, p))
         IN  /\ BigLines(c, p) \in Seq(PatchToken) /\ w \in PatchState /\ Overfull(w, u)
<1> DEFINE x == <<c, p>>
           f == [t |-> "line", v |-> x]
           n == MaxPatchBytes + 1
           r == [i \in 1..n |-> f]
           Q == [j \in 0..n |-> {v \in PatchState :
                   /\ v.hash = c /\ v.path = p /\ v.entries = u.entries
                   /\ IF j = n THEN v.oversized = TRUE
                      ELSE v.oversized = FALSE /\ Len(v.lines) = j}]
<1>1. p \in Paths /\ p # NoPath /\ c # NoCommit
  BY ChangeFacts, CommitsAssumption
<1>2. x \in PatchText
  BY <1>1 DEF PatchText
<1>3. n \in Nat /\ n # 0 /\ MaxPatchBytes \in Nat /\ MaxPatchBytes = n - 1
  BY HistoryBoundsAssumption
<1> HIDE DEF x, n
<1>4. f \in PatchToken
  BY <1>2, PatchTokens
<1>5. r \in Seq(PatchToken) /\ Len(r) = n /\ \A i \in 1..n : r[i] = f
  <2> HIDE DEF f
  <2>1. r \in [1..n -> PatchToken] /\ \A i \in 1..n : r[i] = f
    BY <1>4
  <2> HIDE DEF r
  <2> QED BY <1>3, <2>1
<1>6. u \in Q[0]
  <2>1. 0 \in 0..n /\ Len(u.lines) = 0
    BY <1>3
  <2> QED BY <1>3, <2>1
<1>7. ASSUME NEW i \in 1..n, NEW v \in PatchState, v \in Q[i-1]
      PROVE  PatchStep[<<v, r[i]>>] \in Q[i]
  <2> DEFINE w == PatchLine(v, f)
  <2>1. i-1 \in 0..n /\ i \in 0..n /\ i-1 # n /\ i-1 \in Nat
    BY <1>3
  <2>2. /\ v.hash = c /\ v.path = p /\ v.entries = u.entries
        /\ v.oversized = FALSE /\ Len(v.lines) = i-1
    BY <1>7, <2>1
  <2>3. /\ w \in PatchState /\ w.hash = c /\ w.entries = u.entries /\ w.path = p
        /\ IF i-1 = MaxPatchBytes THEN w.oversized = TRUE
           ELSE w.oversized = FALSE /\ w.lines = Append(v.lines, x)
    BY <1>1, <1>2, <2>2, LineText
  <2>4. PatchStep[<<v, r[i]>>] = w
    <3> HIDE DEF f, r
    <3> QED BY <1>4, <1>5, PatchStepIs
  <2>5. v.lines \in Seq(PatchText)
    BY PatchStateIs
  <2> HIDE DEF w, f, r
  <2>6. CASE i = n
    BY <1>3, <2>1, <2>3, <2>4, <2>6
  <2>7. CASE i # n
    <3>1. i-1 # MaxPatchBytes
      BY <1>3, <2>1, <2>7
    <3>2. w.oversized = FALSE /\ w.lines = Append(v.lines, x)
      BY <2>3, <3>1
    <3>3. Len(w.lines) = i
      BY <1>2, <2>1, <2>2, <2>5, <3>2
    <3> QED BY <2>1, <2>3, <2>4, <2>7, <3>2, <3>3
  <2> QED BY <2>6, <2>7
<1> DEFINE w == After(PatchStep, u, r)
<1> HIDE DEF r, Q
<1>8. w \in PatchState /\ w \in Q[n]
  BY <1>5, <1>6, <1>7, PatchMachine, AfterElements
<1>9. n \in 0..n
  BY <1>3
<1>10. w.hash = c /\ w.path = p /\ w.entries = u.entries /\ w.oversized = TRUE
  <2> HIDE DEF w
  <2> QED BY <1>8, <1>9 DEF Q
<1>11. BigLines(c, p) = r
  BY DEF BigLines, r, n, x
<1> HIDE DEF f, w
<1> QED BY <1>5, <1>8, <1>10, <1>11 DEF w, Overfull

\* The lines of a file are collected, or the file is dropped,
LEMMA PatchBody ==
  ASSUME NEW u \in PatchState, NEW c \in Commits, NEW p \in DOMAIN Changes[c], NEW D, NEW P,
         u.hash = c, u.path = p, u.lines = <<>>, u.oversized = FALSE, <<c, p>> \in D,
         Patched(u.entries, D, P)
  PROVE  LET w == After(PatchStep, u, PatchLines(c, p))
         IN  /\ PatchLines(c, p) \in Seq(PatchToken) /\ w \in PatchState
             /\ w.hash = c /\ Between(w, D, P \cup {<<c, p>>})
<1> DEFINE r == PatchLines(c, p)
           w == After(PatchStep, u, r)
           k == Changes[c][p].kind
<1>0. k \in {"text", "big", "mode", "binary"} /\ c # NoCommit
  BY ChangeFacts, CommitsAssumption DEF ChangeKinds
<1>1. CASE k = "text"
  <2> DEFINE f == [t |-> "line", v |-> <<c, p>>]
  <2>1. r = <<f>>
    BY <1>1 DEF PatchLines
  <2>2. /\ f \in PatchToken /\ PatchLine(u, f) \in PatchState
        /\ PatchLine(u, f).hash = c /\ Between(PatchLine(u, f), D, P \cup {<<c, p>>})
    BY <1>1, BodyText
  <2> HIDE DEF f, r
  <2>3. After(PatchStep, u, <<f>>) = PatchStep[<<u, f>>]
    BY <2>2, PatchMachine, AfterOne
  <2>4. PatchStep[<<u, f>>] = PatchLine(u, f)
    BY <2>2, PatchStepIs
  <2>5. r \in Seq(PatchToken)
    BY <2>1, <2>2
  <2> QED BY <2>1, <2>2, <2>3, <2>4, <2>5 DEF r
<1>2. CASE k = "big"
  <2> DEFINE b == BigLines(c, p)
             x == After(PatchStep, u, b)
  <2>1. r = b
    BY <1>2 DEF PatchLines, BigLines
  <2>2. /\ b \in Seq(PatchToken) /\ x \in PatchState /\ x.hash = c /\ x.path = p
        /\ x.entries = u.entries /\ x.oversized = TRUE
    <3>1. b \in Seq(PatchToken) /\ x \in PatchState
      BY BodyBig, Zenon
    <3>2. Overfull(x, u)
      BY BodyBig
    <3> HIDE DEF b, x
    <3> QED BY <3>1, <3>2 DEF Overfull
  <2>3. w = x
    BY <2>1
  <2> HIDE DEF b, r, x, w
  <2>4. Between(x, D, P \cup {<<c, p>>})
    BY <1>2, <2>2, BetweenOther
  <2> QED BY <2>1, <2>2, <2>3, <2>4 DEF r, w
<1>3. CASE k = "mode"
  <2>1. r = <<>>
    BY <1>3 DEF PatchLines
  <2>2. w = u
    <3> HIDE DEF r
    <3> QED BY <2>1, PatchMachine, AfterEmpty
  <2>3. Between(u, D, P \cup {<<c, p>>})
    BY <1>3, BetweenOther
  <2>4. r \in Seq(PatchToken)
    <3> HIDE DEF r
    <3> QED BY <2>1
  <2> HIDE DEF r, w
  <2> QED BY <2>2, <2>3, <2>4 DEF r, w
<1>4. CASE k = "binary"
  <2> DEFINE f == [t |-> "binary", v |-> NoPath]
             x == PatchLine(u, f)
  <2>1. r = <<f>>
    BY <1>4 DEF PatchLines
  <2>2. f \in PatchToken /\ x \in PatchState /\ x.hash = c /\ x.entries = u.entries /\ x.path = NoPath
    BY <1>0, PatchTokens, LineBinary
  <2> HIDE DEF f, r
  <2>3. After(PatchStep, u, <<f>>) = PatchStep[<<u, f>>]
    BY <2>2, PatchMachine, AfterOne
  <2>4. PatchStep[<<u, f>>] = x
    BY <2>2, PatchStepIs
  <2>5. r \in Seq(PatchToken)
    BY <2>1, <2>2
  <2>6. w = x
    BY <2>1, <2>3, <2>4
  <2> HIDE DEF w, x
  <2>7. Between(x, D, P \cup {<<c, p>>})
    BY <1>4, <2>2, BetweenOther
  <2> QED BY <2>2, <2>5, <2>6, <2>7 DEF r, w
<1> QED BY <1>0, <1>1, <1>2, <1>3, <1>4

\* after its header lines too,
LEMMA PatchFile ==
  ASSUME NEW s \in PatchState, NEW c \in Commits, NEW p \in DOMAIN Changes[c], NEW D, NEW P,
         s.hash = c, <<c, p>> \in D, Between(s, D, P)
  PROVE  LET r == <<[t |-> "diff", v |-> p], [t |-> "header", v |-> NoPath]>> \o PatchLines(c, p)
             w == After(PatchStep, s, r)
         IN  /\ r \in Seq(PatchToken) /\ w \in PatchState
             /\ w.hash = c /\ Between(w, D, P \cup {<<c, p>>})
<1> DEFINE f == [t |-> "diff", v |-> p]
           g == [t |-> "header", v |-> NoPath]
           u == PatchLine(s, f)
           fg == <<f, g>>
           q == PatchLines(c, p)
           w == After(PatchStep, u, q)
<1>1. p \in Paths /\ c # NoCommit
  BY ChangeFacts, CommitsAssumption
<1>2. f \in PatchToken /\ g \in PatchToken
  BY <1>1, PatchTokens
<1>3. /\ u \in PatchState /\ u.hash = c /\ u.path = p /\ u.lines = <<>>
      /\ u.oversized = FALSE /\ u.entries = Flush(s)
  BY <1>1, LineDiff
<1>4. PatchLine(u, g) = u
  BY <1>3, LineHeader
<1> HIDE DEF f, g, u
<1>5. PatchStep[<<s, f>>] = u /\ PatchStep[<<u, g>>] = u
  BY <1>2, <1>3, <1>4, PatchStepIs DEF u
<1>6. fg \in Seq(PatchToken) /\ After(PatchStep, s, fg) = u
  BY <1>2, <1>5, PatchMachine, AfterTwo
<1>7. Patched(u.entries, D, P)
  BY <1>3 DEF Between
<1>8. /\ q \in Seq(PatchToken) /\ w \in PatchState /\ w.hash = c /\ Between(w, D, P \cup {<<c, p>>})
  BY <1>3, <1>7, PatchBody
<1> HIDE DEF fg, q, w
<1>9. After(PatchStep, s, fg \o q) = After(PatchStep, After(PatchStep, s, fg), q)
  BY <1>6, <1>8, PatchMachine, AfterConcat
<1>10. fg \o q \in Seq(PatchToken)
  BY <1>6, <1>8
<1>11. After(PatchStep, s, fg \o q) = w
  BY <1>6, <1>9 DEF w
<1> QED BY <1>8, <1>10, <1>11 DEF fg, q, f, g

\* and so for every file git shows of a commit.
LEMMA PatchCommit ==
  ASSUME NEW s \in PatchState, NEW c \in Commits, NEW b, NEW D, NEW P,
         Between(s, D, P), FilesOf(c, b) \subseteq D
  PROVE  /\ Patch(c, b) \in Seq(PatchToken)
         /\ After(PatchStep, s, Patch(c, b)) \in PatchState
         /\ Between(After(PatchStep, s, Patch(c, b)), D, P \cup FilesOf(c, b))
<1> DEFINE n == Cardinality(Shown(c, b))
           q == SetToSeq(Shown(c, b))
           part(p) == <<[t |-> "diff", v |-> p], [t |-> "header", v |-> NoPath]>> \o PatchLines(c, p)
           ss == [i \in 1..n |-> part(q[i])]
           r == FlattenSeq(ss)
           f == [t |-> "commit", v |-> c]
           g == [t |-> "line", v |-> <<>>]
           fg == <<f, g>>
           u == PatchLine(s, f)
           Q == [j \in 0..n |-> {v \in PatchState : v.hash = c /\ Between(v, D, P \cup FilesUpTo(c, q, j))}]
<1>1. /\ n \in Nat /\ \A i \in 1..n : q[i] \in Shown(c, b)
      /\ FilesUpTo(c, q, n) = FilesOf(c, b) /\ FilesUpTo(c, q, 0) = {}
  BY FilesUpToAll
<1>2. Patch(c, b) = fg \o r
  BY DEF Patch
<1>3. f \in PatchToken /\ g \in PatchToken
  BY PatchTokens, EmptyPatch
<1>4. /\ u \in PatchState /\ u.hash = c /\ u.path = NoPath /\ u.entries = Flush(s)
  BY LineCommit
<1>5. PatchLine(u, g) = u
  <2> HIDE DEF u
  <2> QED BY <1>4, EmptyPatch, LineText
<1> HIDE DEF n, q, u, f, g
<1>6. PatchStep[<<s, f>>] = u /\ PatchStep[<<u, g>>] = u
  BY <1>3, <1>4, <1>5, PatchStepIs DEF u
<1>7. fg \in Seq(PatchToken) /\ After(PatchStep, s, fg) = u
  BY <1>3, <1>6, PatchMachine, AfterTwo
<1>8. Between(u, D, P)
  <2>1. ~Flushes(u)
    BY <1>4 DEF Flushes
  <2>2. Flush(u) = Flush(s)
    BY <1>4, <2>1, FlushIs
  <2> QED BY <1>4, <2>2 DEF Between, Ready
<1>9. ASSUME NEW i \in 1..n
      PROVE  q[i] \in DOMAIN Changes[c] /\ <<c, q[i]>> \in D
  BY <1>1, ChangeFacts DEF FilesOf
<1>10. ASSUME NEW i \in 1..n, NEW v \in PatchState, v.hash = c, NEW B, Between(v, D, B)
       PROVE  /\ part(q[i]) \in Seq(PatchToken) /\ After(PatchStep, v, part(q[i])) \in PatchState
              /\ After(PatchStep, v, part(q[i])).hash = c
              /\ Between(After(PatchStep, v, part(q[i])), D, B \cup {<<c, q[i]>>})
  <2> DEFINE p == q[i]
  <2>1. p \in DOMAIN Changes[c] /\ <<c, p>> \in D
    BY <1>9
  <2> HIDE DEF p
  <2>2. /\ part(p) \in Seq(PatchToken) /\ After(PatchStep, v, part(p)) \in PatchState
        /\ After(PatchStep, v, part(p)).hash = c
        /\ Between(After(PatchStep, v, part(p)), D, B \cup {<<c, p>>})
    BY <1>10, <2>1, PatchFile
  <2> QED BY <2>2 DEF p
<1> HIDE DEF part
<1>11. ss \in Seq(Seq(PatchToken)) /\ Len(ss) = n
  <2>1. ss \in [1..n -> Seq(PatchToken)]
    BY <1>4, <1>8, <1>10
  <2> HIDE DEF ss
  <2> QED BY <1>1, <2>1
<1>12. u \in Q[0]
  <2>1. 0 \in 0..n /\ P \cup FilesUpTo(c, q, 0) = P
    BY <1>1
  <2> QED BY <1>4, <1>8, <2>1
<1>13. ASSUME NEW i \in 1..n, NEW v \in PatchState, v \in Q[i-1]
       PROVE  After(PatchStep, v, ss[i]) \in Q[i]
  <2> DEFINE B == P \cup FilesUpTo(c, q, i-1)
             w == After(PatchStep, v, part(q[i]))
  <2>1. i - 1 \in 0..n /\ i \in 0..n /\ ss[i] = part(q[i])
    BY <1>1
  <2>2. v.hash = c /\ Between(v, D, B)
    BY <1>13, <2>1
  <2>3. P \cup FilesUpTo(c, q, i) = B \cup {<<c, q[i]>>}
    BY <1>1, FilesUpToGrow
  <2> HIDE DEF B
  <2>4. w \in PatchState /\ w.hash = c /\ Between(w, D, B \cup {<<c, q[i]>>})
    BY <1>10, <2>2
  <2> HIDE DEF w
  <2>5. w \in Q[i]
    BY <2>1, <2>3, <2>4
  <2> QED BY <2>1, <2>5 DEF w
<1> HIDE DEF ss, Q
<1>p. \A i \in 1..Len(ss) : \A v \in PatchState : v \in Q[i-1] => After(PatchStep, v, ss[i]) \in Q[i]
  BY <1>11, <1>13
<1>14. r \in Seq(PatchToken) /\ After(PatchStep, u, r) \in PatchState /\ After(PatchStep, u, r) \in Q[n]
  BY <1>4, <1>11, <1>12, <1>p, PatchMachine, AfterParts, SMTT(30)
<1>15. Between(After(PatchStep, u, r), D, P \cup FilesOf(c, b))
  <2>1. n \in 0..n
    BY <1>1
  <2> QED BY <1>1, <1>14, <2>1 DEF Q
<1> HIDE DEF fg, r
<1>16. /\ fg \o r \in Seq(PatchToken)
       /\ After(PatchStep, s, fg \o r) = After(PatchStep, After(PatchStep, s, fg), r)
  BY <1>7, <1>14, PatchMachine, AfterConcat
<1> QED BY <1>2, <1>7, <1>14, <1>15, <1>16

\* A pair is its first element with the second appended.
LEMMA AppendSecond ==
  ASSUME NEW T, NEW x \in T, NEW y \in T
  PROVE  Append(<<x>>, y) = <<x, y>>
<1> DEFINE s == <<x>>
           a == Append(s, y)
           b == <<x, y>>
<1>1. s \in Seq(T)
  OBVIOUS
<1>2. Len(s) = 1 /\ s[1] = x
  OBVIOUS
<1>3. b \in Seq(T) /\ Len(b) = 2 /\ b[1] = x /\ b[2] = y
  OBVIOUS
<1> HIDE DEF s, b
<1>4. a \in Seq(T)
  BY <1>1
<1>5. Len(a) = Len(s) + 1
  BY <1>1
<1>6. a[Len(s)+1] = y
  BY <1>1
<1>7. a[1] = x
  BY <1>1, <1>2
<1>8. Len(s) + 1 = 2
  BY <1>2
<1> HIDE DEF a
<1>9. \A i \in 1..2 : a[i] = b[i]
  BY <1>3, <1>6, <1>7, <1>8
<1>10. a = b
  BY <1>3, <1>4, <1>5, <1>8, <1>9, SeqEqual
<1> QED BY <1>10 DEF s, a, b

\* The empty line at the end of the output disturbs no patch.
LEMMA EmptyLastLine ==
  ASSUME NEW s \in PatchState, NEW D, NEW P, Between(s, D, P)
  PROVE  LET w == PatchLine(s, [t |-> "line", v |-> <<>>])
         IN  w \in PatchState /\ Patched(Flush(w), D, P)
<1> DEFINE w == PatchLine(s, [t |-> "line", v |-> <<>>])
           c == s.hash
           p == s.path
           F == Flush(s)
<1>0. Patched(F, D, P) /\ Ready(s, D) /\ F \in Entries
  BY FlushIs DEF Between
<1>1. /\ w \in PatchState /\ w.hash = c /\ w.entries = s.entries /\ w.path = p
      /\ s.path = NoPath => w = s
      /\ s.oversized => w = s
      /\ s.hash # NoCommit /\ s.path # NoPath /\ ~s.oversized =>
           IF Len(s.lines) = MaxPatchBytes THEN w.oversized = TRUE /\ w.lines = <<>>
           ELSE w.oversized = FALSE /\ w.lines = Append(s.lines, <<>>)
  BY EmptyPatch, LineText
<1> HIDE DEF w
<1>2. CASE s.path = NoPath \/ s.oversized
  BY <1>0, <1>1, <1>2 DEF w
<1>3. CASE s.path # NoPath /\ ~s.oversized
  <2>1. /\ c \in Commits /\ p \in DOMAIN Changes[c] /\ <<c, p>> \in D
        /\ \/ s.lines = <<>> /\ Changes[c][p].kind = "mode"
           \/ s.lines = << <<c, p>> >> /\ Changes[c][p].kind = "text"
    BY <1>0, <1>3 DEF Ready
  <2>2. c # NoCommit /\ p \in Paths /\ p # NoPath /\ Changes[c][p].status # NoPath
    BY <2>1, CommitsAssumption, ChangeFacts
  <2>3. \A d \in Commits, q \in Paths :
          /\ F[d][q].status = s.entries[d][q].status
          /\ F[d][q].lines = s.entries[d][q].lines
          /\ ~(d = c /\ q = p) => F[d][q].patch = s.entries[d][q].patch
    BY FlushIs
  <2> HIDE DEF c, p, F
  <2>4. CASE s.lines = <<>> /\ Changes[c][p].kind = "mode"
    <3>1. Len(s.lines) = 0 /\ Append(s.lines, <<>>) = << <<>> >> /\ MaxPatchBytes # 0
      BY <2>4, HistoryBoundsAssumption
    <3>2. w.lines = << <<>> >>
      BY <1>1, <1>3, <2>2, <3>1 DEF c
    <3> DEFINE G == Flush(w)
    <3>3. ~Flushes(s)
      BY <2>4 DEF Flushes
    <3>4. F = s.entries
      BY <3>3, FlushIs DEF F
    <3>5. s.entries[c][p].patch = <<>>
      BY <1>0, <2>1, <2>2, <2>4, <3>4 DEF Patched
    <3>6. \A d \in Commits, q \in Paths :
            /\ G[d][q].status = s.entries[d][q].status
            /\ G[d][q].lines = s.entries[d][q].lines
            /\ G[d][q].patch = s.entries[d][q].patch
      BY <1>1, <3>2, <3>5, FlushIs
    <3> HIDE DEF G
    <3>7. Patched(G, D, P)
      <4> SUFFICES ASSUME NEW d \in Commits, NEW q \in Paths
                   PROVE  /\ G[d][q].status = IF <<d, q>> \in D THEN Changes[d][q].status ELSE NoPath
                          /\ G[d][q].lines = IF <<d, q>> \in D THEN NumOf(d, q) ELSE 0
                          /\ IF <<d, q>> \in D /\ Changes[d][q].kind = "text"
                             THEN <<d, q>> \in P => G[d][q].patch \in TextPatch(d, q)
                             ELSE G[d][q].patch = <<>>
        BY Zenon DEF Patched
      <4>1. /\ F[d][q].status = IF <<d, q>> \in D THEN Changes[d][q].status ELSE NoPath
            /\ F[d][q].lines = IF <<d, q>> \in D THEN NumOf(d, q) ELSE 0
            /\ IF <<d, q>> \in D /\ Changes[d][q].kind = "text"
               THEN <<d, q>> \in P => F[d][q].patch \in TextPatch(d, q)
               ELSE F[d][q].patch = <<>>
        BY <1>0 DEF Patched
      <4> QED BY <3>4, <3>6, <4>1
    <3> QED BY <1>1, <3>7 DEF G, w
  <2>5. CASE s.lines = << <<c, p>> >> /\ Changes[c][p].kind = "text"
    <3> DEFINE x == <<c, p>>
    <3>1. x \in PatchText /\ s.lines = <<x>>
      BY <2>1, <2>2, <2>5 DEF PatchText
    <3>2. Len(s.lines) = 1 /\ Append(s.lines, <<>>) = <<x, <<>> >> /\ MaxPatchBytes # 1
      <4> HIDE DEF x
      <4>1. Len(s.lines) = 1
        BY <3>1
      <4>2. Append(s.lines, <<>>) = <<x, <<>> >>
        <5> DEFINE y == <<>>
        <5>1. y \in PatchText /\ Append(s.lines, y) = Append(<<x>>, y)
          BY <3>1, EmptyPatch
        <5> HIDE DEF y
        <5>2. Append(<<x>>, y) = <<x, y>>
          BY <3>1, <5>1, AppendSecond
        <5> QED BY <5>1, <5>2 DEF y
      <4>3. MaxPatchBytes # 1
        BY HistoryBoundsAssumption
      <4> QED BY <4>1, <4>2, <4>3
    <3>3. w.lines = <<x, <<>> >> /\ w.oversized = FALSE
      BY <1>1, <1>3, <2>2, <3>2 DEF c
    <3>4. w.lines \in TextPatch(c, p)
      BY <3>3 DEF TextPatch
    <3> DEFINE P0 == P \ {<<c, p>>}
    <3>5. Patched(s.entries, D, P0)
      <4> SUFFICES ASSUME NEW d \in Commits, NEW q \in Paths
                   PROVE  /\ s.entries[d][q].status = IF <<d, q>> \in D THEN Changes[d][q].status ELSE NoPath
                          /\ s.entries[d][q].lines = IF <<d, q>> \in D THEN NumOf(d, q) ELSE 0
                          /\ IF <<d, q>> \in D /\ Changes[d][q].kind = "text"
                             THEN <<d, q>> \in P0 => s.entries[d][q].patch \in TextPatch(d, q)
                             ELSE s.entries[d][q].patch = <<>>
        BY Zenon DEF Patched
      <4>1. /\ F[d][q].status = IF <<d, q>> \in D THEN Changes[d][q].status ELSE NoPath
            /\ F[d][q].lines = IF <<d, q>> \in D THEN NumOf(d, q) ELSE 0
            /\ IF <<d, q>> \in D /\ Changes[d][q].kind = "text"
               THEN <<d, q>> \in P => F[d][q].patch \in TextPatch(d, q)
               ELSE F[d][q].patch = <<>>
        BY <1>0 DEF Patched
      <4>2. CASE d = c /\ q = p
        BY <2>1, <2>3, <2>5, <4>1, <4>2
      <4>3. CASE ~(d = c /\ q = p)
        BY <2>3, <4>1, <4>3
      <4> QED BY <4>2, <4>3
    <3> HIDE DEF P0
    <3>6. Patched(Flush(w), D, P0 \cup {<<c, p>>})
      BY <1>1, <2>1, <2>5, <3>3, <3>4, <3>5, PatchedPut
    <3>7. Patched(Flush(w), D, P)
      <4>1. \A d \in Commits, q \in Paths : <<d, q>> \in P => <<d, q>> \in P0 \cup {<<c, p>>}
        BY DEF P0
      <4> QED BY <3>6, <4>1, PatchedMore
    <3> QED BY <1>1, <3>7 DEF w
  <2> QED BY <2>1, <2>4, <2>5
<1> QED BY <1>2, <1>3, PatchStateIs

\* mergePatchLog gives every text change that fits its patch, and the others none.
LEMMA PatchAll ==
  ASSUME NEW l \in Seq(Commits), NEW b, NEW E \in Entries,
         Numbered(E, FilesTo(l, b, Len(l)), FilesTo(l, b, Len(l)))
  PROVE  LET F == mergePatchLog(PatchOutput(l, b), E)
             D == FilesTo(l, b, Len(l))
         IN  F \in Entries /\ Patched(F, D, D)
<1> DEFINE n == Len(l)
           D == FilesTo(l, b, n)
           s0 == [hash |-> NoCommit, path |-> NoPath, lines |-> <<>>, oversized |-> FALSE, entries |-> E]
           ss == [i \in 1..n |-> Patch(l[i], b)]
           Q == [k \in 0..n |-> {v \in PatchState : Between(v, D, FilesTo(l, b, k))}]
           r == FlattenSeq(ss)
           f == [t |-> "line", v |-> <<>>]
<1>0. s0 \in PatchState /\ s0.entries = E /\ s0.path = NoPath
  BY EmptyPatch DEF PatchState
<1>1. Patched(E, D, {})
  <2> HIDE DEF D
  <2>1. Numbered(E, D, D)
    BY DEF D
  <2> QED BY <2>1, Zenon DEF Patched, Numbered
<1>2. n \in Nat /\ \A i \in 1..n : l[i] \in Commits /\ i-1 \in 0..n /\ i \in 0..n
  BY CommitOf
<1>3. \A i \in 1..n : FilesOf(l[i], b) \subseteq D
  BY <1>2, FilesWithin
<1> HIDE DEF s0, n, D
<1>4. Between(s0, D, {})
  <2>1. ~Flushes(s0)
    BY <1>0 DEF Flushes
  <2>2. Flush(s0) = E
    BY <1>0, <2>1, FlushIs
  <2> QED BY <1>0, <1>1, <2>2 DEF Between, Ready
<1>5. s0 \in Q[0]
  <2>1. 0 \in 0..n /\ FilesTo(l, b, 0) = {}
    BY <1>2, FilesToNone
  <2> QED BY <1>0, <1>4, <2>1
<1>6. ss \in Seq(Seq(PatchToken)) /\ Len(ss) = n
  <2>1. ASSUME NEW i \in 1..n PROVE Patch(l[i], b) \in Seq(PatchToken)
    BY <1>0, <1>2, <1>3, <1>4, PatchCommit
  <2>2. ss \in [1..n -> Seq(PatchToken)]
    BY <2>1
  <2> HIDE DEF ss
  <2> QED BY <1>2, <2>2
<1>7. ASSUME NEW i \in 1..n, NEW v \in PatchState, v \in Q[i-1]
      PROVE  After(PatchStep, v, ss[i]) \in Q[i]
  <2> DEFINE K == FilesTo(l, b, i-1)
             c == l[i]
  <2>1. c \in Commits /\ i-1 \in 0..n /\ i \in 0..n /\ ss[i] = Patch(c, b) /\ FilesOf(c, b) \subseteq D
    BY <1>2, <1>3
  <2>2. Between(v, D, K)
    BY <1>7, <2>1
  <2>3. FilesTo(l, b, i) = K \cup FilesOf(c, b)
    BY FilesGrow DEF n
  <2> HIDE DEF K, c
  <2>4. /\ After(PatchStep, v, Patch(c, b)) \in PatchState
        /\ Between(After(PatchStep, v, Patch(c, b)), D, K \cup FilesOf(c, b))
    BY <2>1, <2>2, PatchCommit
  <2> QED BY <2>1, <2>3, <2>4
<1> HIDE DEF ss, Q
<1>p. \A i \in 1..Len(ss) : \A v \in PatchState : v \in Q[i-1] => After(PatchStep, v, ss[i]) \in Q[i]
  BY <1>6, <1>7
<1> DEFINE u == After(PatchStep, s0, r)
<1>8. r \in Seq(PatchToken) /\ u \in PatchState /\ u \in Q[n]
  BY <1>0, <1>5, <1>6, <1>p, PatchMachine, AfterParts
<1>9. Between(u, D, D)
  <2>1. n \in 0..n /\ FilesTo(l, b, n) = D
    BY <1>2 DEF D
  <2> QED BY <1>8, <2>1 DEF Q
<1>10. PatchOutput(l, b) = r \o <<f>>
  BY DEF Output, PatchOutput, ss, n
<1> HIDE DEF r
<1>11. f \in PatchToken
  BY PatchTokens, EmptyPatch
<1>12. PatchLine(u, f) \in PatchState /\ Patched(Flush(PatchLine(u, f)), D, D)
  <2> HIDE DEF u
  <2> QED BY <1>8, <1>9, EmptyLastLine
<1> DEFINE sf == <<f>>
<1>13. sf \in Seq(PatchToken) /\ After(PatchStep, u, sf) = PatchLine(u, f)
  <2> HIDE DEF f, u
  <2>1. sf \in Seq(PatchToken)
    BY <1>11
  <2>2. After(PatchStep, u, sf) = PatchStep[<<u, f>>]
    BY <1>8, <1>11, PatchMachine, AfterOne
  <2> QED BY <1>8, <1>11, <2>1, <2>2, PatchStepIs
<1> DEFINE w == PatchLine(u, f)
           out == r \o sf
<1> HIDE DEF f, sf
<1>14. out \in Seq(PatchToken) /\ After(PatchStep, s0, out) = w
  <2>1. out \in Seq(PatchToken)
    BY <1>8, <1>13
  <2>2. After(PatchStep, s0, out) = After(PatchStep, u, sf)
    BY <1>0, <1>8, <1>13, PatchMachine, AfterConcat
  <2> QED BY <1>13, <2>1, <2>2
<1> HIDE DEF out, w
<1>15. FoldLeft(PatchLine, s0, out) = w
  BY <1>0, <1>14, PatchFold
<1>16. mergePatchLog(PatchOutput(l, b), E) = Flush(w)
  <2>1. PatchOutput(l, b) = out
    BY <1>10 DEF out, sf
  <2> QED BY <1>15, <2>1 DEF mergePatchLog, s0
<1>17. w \in PatchState /\ Patched(Flush(w), D, D)
  BY <1>12 DEF w
<1>18. Flush(w) \in Entries
  BY <1>17, FlushIs
<1> QED BY <1>16, <1>17, <1>18 DEF n, D

\* What the three passes make of the log: the files git shows, and no others.
LEMMA DiffStatLogIs ==
  ASSUME NEW l \in Seq(Commits), NEW b
  PROVE  LET E == DiffStatLog(l, b)
             D == FilesTo(l, b, Len(l))
         IN  E \in Entries /\ Patched(E, D, D)
<1> DEFINE E1 == parseNameStatusLogZ(Output(NameStatus, l, b))
           E2 == mergeNumstatLogZ(Output(NumStat, l, b), E1)
           E3 == mergePatchLog(PatchOutput(l, b), E2)
           D == FilesTo(l, b, Len(l))
<1>1. E1 \in Entries /\ Named(E1, D)
  BY NameAll
<1>2. DiffStatLog(l, b) = E3
  BY DEF DiffStatLog
<1> HIDE DEF E1
<1>3. E2 \in Entries /\ Numbered(E2, D, D)
  BY <1>1, NumAll
<1> HIDE DEF E2
<1>4. E3 \in Entries /\ Patched(E3, D, D)
  BY <1>3, PatchAll
<1> HIDE DEF E3
<1> QED BY <1>2, <1>4

\* What the three logs together say of a file of a commit: git's change, or nothing.
LEMMA DiffMapIs ==
  ASSUME NEW l \in Seq(Commits), NEW b, NEW c \in Commits, NEW p \in Paths
  PROVE  LET e == DiffStatLog(l, b)[c][p]
         IN  IF (\E i \in 1..Len(l) : l[i] = c) /\ p \in Shown(c, b)
             THEN /\ e # NoEntry /\ e.status = Changes[c][p].status /\ e.lines = NumOf(c, p)
                  /\ KeptPatch(c, p, e.patch)
             ELSE e = NoEntry
<1> DEFINE E == DiffStatLog(l, b)
           e == E[c][p]
           D == FilesTo(l, b, Len(l))
<1>1. E \in Entries /\ Patched(E, D, D)
  BY DiffStatLogIs
<1>2. <<c, p>> \in D <=> (\E i \in 1..Len(l) : l[i] = c) /\ p \in Shown(c, b)
  BY DEF FilesTo, FilesOf
<1> HIDE DEF E, D
<1>3. e \in Entry
  BY <1>1 DEF Entries
<1>4. /\ e.status = IF <<c, p>> \in D THEN Changes[c][p].status ELSE NoPath
      /\ e.lines = IF <<c, p>> \in D THEN NumOf(c, p) ELSE 0
      /\ IF <<c, p>> \in D /\ Changes[c][p].kind = "text"
         THEN e.patch \in TextPatch(c, p) ELSE e.patch = <<>>
  BY <1>1 DEF Patched
<1> HIDE DEF e
<1>5. CASE <<c, p>> \in D
  <2>1. Changes[c][p].status # NoPath
    BY <1>2, <1>5, ChangeFacts
  <2>2. e # NoEntry
    BY <1>4, <1>5, <2>1, NoEntryIs
  <2>3. KeptPatch(c, p, e.patch)
    BY <1>4, <1>5 DEF KeptPatch, TextPatch
  <2> QED BY <1>2, <1>4, <1>5, <2>2, <2>3 DEF e, E
<1>6. CASE <<c, p>> \notin D
  <2>1. e = NoEntry
    BY <1>3, <1>4, <1>6, NoEntryIs, EntryFields
  <2> QED BY <1>2, <1>6, <2>1 DEF e, E
<1> QED BY <1>5, <1>6

(* Ancestors and Mainline: the equations have a solution because every     *)
(* commit has a generation, and so has what is said of the solution.       *)
IsGeneration(g) ==
  /\ g \in [Commits -> 0..Cardinality(Commits)]
  /\ \A c \in Commits : \A i \in DOMAIN Parents[c] : g[Parents[c][i]] < g[c]

\* Some function numbers the commits by generation.
LEMMA GenerationExists == \E g : IsGeneration(g)
BY AncestryAssumption DEF IsGeneration

\* The parents of a commit are commits.
LEMMA ParentsIs ==
  ASSUME NEW c \in Commits
  PROVE  /\ Parents[c] \in Seq(Commits) /\ Len(Parents[c]) \in Nat
         /\ DOMAIN Parents[c] = 1..Len(Parents[c])
         /\ \A i \in DOMAIN Parents[c] : Parents[c][i] \in Commits
         /\ Range(Parents[c]) = {Parents[c][i] : i \in DOMAIN Parents[c]}
         /\ Parents[c] # <<>> => 1 \in DOMAIN Parents[c]
<1>1. Parents[c] \in Seq(Commits)
  BY CommitsAssumption
<1> DEFINE q == Parents[c]
<1>2. Len(q) \in Nat /\ DOMAIN q = 1..Len(q) /\ \A i \in 1..Len(q) : q[i] \in Commits
  BY <1>1, ElementOfSeq
<1>3. q # <<>> => Len(q) # 0
  <2> HIDE DEF q
  <2>1. q \in Seq(Commits)
    BY <1>1 DEF q
  <2> QED BY <2>1
<1>4. q # <<>> => 1 \in DOMAIN q
  BY <1>2, <1>3
<1> QED BY <1>1, <1>2, <1>4 DEF Range

\* A set of commits that holds whatever it holds of their parents holds all.
LEMMA GenerationInduction ==
  ASSUME NEW S,
         \A c \in Commits : (\A i \in DOMAIN Parents[c] : Parents[c][i] \in S) => c \in S
  PROVE  Commits \subseteq S
<1>1. PICK g : IsGeneration(g)
  BY GenerationExists
<1>2. Cardinality(Commits) \in Nat
  BY CommitsAssumption, FS_CardinalityType
<1> DEFINE n == Cardinality(Commits)
           K == {k \in 0..n : \A c \in Commits : g[c] <= k => c \in S}
<1>3. \A c \in Commits : g[c] \in 0..n /\ \A i \in DOMAIN Parents[c] :
        g[Parents[c][i]] < g[c] /\ Parents[c][i] \in Commits
  BY <1>1, ParentsIs DEF IsGeneration
<1> HIDE DEF n
<1>4. n \in Nat
  BY <1>2 DEF n
<1>5. 0 \in K
  <2>1. ASSUME NEW c \in Commits, g[c] <= 0 PROVE c \in S
    <3>1. ASSUME NEW i \in DOMAIN Parents[c] PROVE FALSE
      <4>1. g[Parents[c][i]] < g[c] /\ g[Parents[c][i]] \in 0..n /\ g[c] \in 0..n
        BY <1>3
      <4> QED BY <1>4, <2>1, <4>1
    <3> QED BY <3>1
  <2> QED BY <1>4, <2>1
<1>6. ASSUME NEW k \in 0..(n-1), k \in K PROVE k + 1 \in K
  <2>1. ASSUME NEW c \in Commits, g[c] <= k + 1 PROVE c \in S
    <3>1. ASSUME NEW i \in DOMAIN Parents[c] PROVE Parents[c][i] \in S
      <4>1. g[Parents[c][i]] < g[c] /\ g[Parents[c][i]] \in 0..n /\ g[c] \in 0..n
            /\ Parents[c][i] \in Commits
        BY <1>3
      <4>2. g[Parents[c][i]] <= k
        BY <1>4, <2>1, <4>1
      <4> QED BY <1>6, <4>1, <4>2
    <3> QED BY <3>1
  <2>2. k + 1 \in 0..n
    BY <1>4
  <2> QED BY <2>1, <2>2
<1> HIDE DEF K
<1>7. 0..n \subseteq K
  BY <1>4, <1>5, <1>6, InductionTo
<1>8. n \in K
  BY <1>4, <1>7
<1>9. ASSUME NEW c \in Commits PROVE c \in S
  <2>1. g[c] <= n
    BY <1>3, <1>4
  <2> QED BY <1>8, <2>1 DEF K
<1> QED BY <1>9

\* A recursive definition that asks for the values at parents only.
OverParents(e, Y) ==
  /\ \A f \in [Commits -> Y], c \in Commits : e[<<f, c>>] \in Y
  /\ \A f, h \in [Commits -> Y], c \in Commits :
       (\A i \in DOMAIN Parents[c] : f[Parents[c][i]] = h[Parents[c][i]]) => e[<<f, c>>] = e[<<h, c>>]

\* A definition by recursion over parents has a solution.
LEMMA RecursionOverParents ==
  ASSUME NEW Y, NEW e, Y # {}, OverParents(e, Y)
  PROVE  \E f \in [Commits -> Y] : \A c \in Commits : f[c] = e[<<f, c>>]
<1>1. PICK g : IsGeneration(g)
  BY GenerationExists
<1>2. Cardinality(Commits) \in Nat
  BY CommitsAssumption, FS_CardinalityType
<1> DEFINE n == Cardinality(Commits)
           Good(f, k) == \A c \in Commits : g[c] <= k => f[c] = e[<<f, c>>]
           K == {k \in 0..n : \E f \in [Commits -> Y] : Good(f, k)}
<1>3. \A c \in Commits : g[c] \in 0..n /\ \A i \in DOMAIN Parents[c] :
        g[Parents[c][i]] < g[c] /\ Parents[c][i] \in Commits
  BY <1>1, ParentsIs DEF IsGeneration
<1> HIDE DEF n
<1>4. n \in Nat
  BY <1>2 DEF n
<1>5. ASSUME NEW f \in [Commits -> Y], NEW k \in Int, Good(f, k)
      PROVE  \E h \in [Commits -> Y] : Good(h, k + 1)
  <2> DEFINE h == [c \in Commits |-> IF g[c] <= k THEN f[c] ELSE e[<<f, c>>]]
  <2>1. h \in [Commits -> Y]
    BY DEF OverParents
  <2>2. ASSUME NEW c \in Commits, g[c] <= k + 1 PROVE h[c] = e[<<h, c>>]
    <3>1. \A i \in DOMAIN Parents[c] : f[Parents[c][i]] = h[Parents[c][i]]
      <4> SUFFICES ASSUME NEW i \in DOMAIN Parents[c] PROVE f[Parents[c][i]] = h[Parents[c][i]]
        OBVIOUS
      <4> DEFINE p == Parents[c][i]
      <4>1. p \in Commits /\ g[p] < g[c] /\ g[p] \in 0..n /\ g[c] \in 0..n
        BY <1>3
      <4> HIDE DEF p
      <4>2. g[p] <= k
        BY <1>4, <2>2, <4>1
      <4>3. f[p] = h[p]
        BY <4>1, <4>2
      <4> QED BY <4>3 DEF p
    <3>2. e[<<f, c>>] = e[<<h, c>>]
      <4> HIDE DEF h
      <4> QED BY <2>1, <3>1 DEF OverParents
    <3>3. h[c] = e[<<f, c>>]
      BY <1>5
    <3> QED BY <3>2, <3>3
  <2> HIDE DEF h
  <2> QED BY <2>1, <2>2
<1>6. 0 \in K
  <2>1. PICK y \in Y : TRUE
    OBVIOUS
  <2> DEFINE f == [c \in Commits |-> y]
  <2>2. f \in [Commits -> Y]
    OBVIOUS
  <2>3. Good(f, -1)
    BY <1>3
  <2> HIDE DEF f, Good
  <2>4. \E h \in [Commits -> Y] : Good(h, (-1) + 1)
    BY <1>5, <2>2, <2>3
  <2> QED BY <1>4, <2>4
<1>7. ASSUME NEW k \in 0..(n-1), k \in K PROVE k + 1 \in K
  <2> HIDE DEF Good
  <2>1. PICK f \in [Commits -> Y] : Good(f, k)
    BY <1>7
  <2>2. k + 1 \in 0..n
    BY <1>4
  <2> QED BY <1>5, <2>1, <2>2
<1> HIDE DEF K
<1>8. 0..n \subseteq K
  BY <1>4, <1>6, <1>7, InductionTo
<1>9. PICK f \in [Commits -> Y] : Good(f, n)
  <2>1. n \in K
    BY <1>4, <1>8
  <2> QED BY <2>1 DEF K
<1>10. \A c \in Commits : f[c] = e[<<f, c>>]
  BY <1>3, <1>4, <1>9
<1> QED BY <1>10

\* The mainline of a commit is the commit and the mainline of its first parent.
LEMMA MainlineIs ==
  \A c \in Commits :
    Mainline[c] = <<c>> \o (IF Parents[c] = <<>> THEN <<>> ELSE Mainline[Parents[c][1]])
<1> DEFINE Y == Seq(Commits)
           v(f, c) == <<c>> \o (IF Parents[c] = <<>> THEN <<>> ELSE f[Parents[c][1]])
           e == [a \in [Commits -> Y] \X Commits |-> v(a[1], a[2])]
           Eq(f) == f = [c \in Commits |-> v(f, c)]
<1>1. Y # {}
  <2>1. <<>> \in Y
    BY SMTT(30)
  <2> QED BY <2>1, Zenon
<1>2. ASSUME NEW f \in [Commits -> Y], NEW c \in Commits PROVE e[<<f, c>>] = v(f, c) /\ v(f, c) \in Y
  <2>1. e[<<f, c>>] = v(f, c)
    <3> HIDE DEF v
    <3> QED OBVIOUS
  <2> DEFINE r == IF Parents[c] = <<>> THEN <<>> ELSE f[Parents[c][1]]
  <2>2. r \in Seq(Commits)
    <3>1. CASE Parents[c] = <<>>
      BY <3>1
    <3>2. CASE Parents[c] # <<>>
      <4>1. Parents[c][1] \in Commits
        BY <3>2, ParentsIs
      <4> QED BY <3>2, <4>1
    <3> QED BY <3>1, <3>2
  <2> HIDE DEF r
  <2>3. <<c>> \o r \in Seq(Commits)
    <3> DEFINE s == <<c>>
    <3>1. s \in Seq(Commits)
      OBVIOUS
    <3> HIDE DEF s
    <3>2. s \o r \in Seq(Commits)
      BY <2>2, <3>1
    <3> QED BY <3>2 DEF s
  <2> QED BY <2>1, <2>3, Zenon DEF r
<1>3. ASSUME NEW f \in [Commits -> Y], NEW h \in [Commits -> Y], NEW c \in Commits,
             \A i \in DOMAIN Parents[c] : f[Parents[c][i]] = h[Parents[c][i]]
      PROVE  v(f, c) = v(h, c)
  <2>1. Parents[c] # <<>> => f[Parents[c][1]] = h[Parents[c][1]]
    BY <1>3, ParentsIs
  <2> QED BY <2>1
<1> HIDE DEF v
<1>4. OverParents(e, Y)
  <2> HIDE DEF e, Y
  <2> QED BY <1>2, <1>3 DEF OverParents
<1> HIDE DEF e, Y
<1>5. PICK f \in [Commits -> Y] : \A c \in Commits : f[c] = e[<<f, c>>]
  BY <1>1, <1>4, RecursionOverParents
<1>6. \A c \in Commits : f[c] = v(f, c)
  BY <1>2, <1>5
<1>7. Eq(f)
  BY <1>6
<1>8. Mainline = CHOOSE g : Eq(g)
  BY DEF Mainline, v
<1>9. Eq(Mainline)
  <2>1. \E g : Eq(g)
    BY <1>7
  <2> HIDE DEF Eq
  <2> QED BY <1>8, <2>1
<1>10. \A c \in Commits : Mainline[c] = v(Mainline, c)
  <2> DEFINE M == Mainline
  <2>1. Eq(M)
    BY <1>9
  <2> HIDE DEF M
  <2>2. \A c \in Commits : M[c] = v(M, c)
    BY <2>1
  <2> QED BY <2>2 DEF M
<1> QED BY <1>10, SMTT(30) DEF v

\* The ancestors of a commit are the commit and those of its parents.
LEMMA AncestorsIs ==
  \A c \in Commits : Ancestors[c] = {c} \cup UNION {Ancestors[p] : p \in Range(Parents[c])}
<1> DEFINE Y == SUBSET Commits
           v(f, c) == {c} \cup UNION {f[p] : p \in Range(Parents[c])}
           e == [a \in [Commits -> Y] \X Commits |-> v(a[1], a[2])]
           Eq(f) == f = [c \in Commits |-> v(f, c)]
<1>1. Y # {}
  OBVIOUS
<1>2. ASSUME NEW f \in [Commits -> Y], NEW c \in Commits PROVE e[<<f, c>>] = v(f, c) /\ v(f, c) \in Y
  <2>1. e[<<f, c>>] = v(f, c)
    <3> HIDE DEF v
    <3> QED OBVIOUS
  <2>2. Range(Parents[c]) \subseteq Commits
    BY ParentsIs, SMTT(30)
  <2>3. v(f, c) \in Y
    BY <2>2
  <2> QED BY <2>1, <2>3
<1>3. ASSUME NEW f \in [Commits -> Y], NEW h \in [Commits -> Y], NEW c \in Commits,
             \A i \in DOMAIN Parents[c] : f[Parents[c][i]] = h[Parents[c][i]]
      PROVE  v(f, c) = v(h, c)
  <2>1. \A p \in Range(Parents[c]) : f[p] = h[p]
    BY <1>3 DEF Range
  <2> QED BY <2>1
<1> HIDE DEF v
<1>4. OverParents(e, Y)
  <2> HIDE DEF e, Y
  <2> QED BY <1>2, <1>3 DEF OverParents
<1> HIDE DEF e, Y
<1>5. PICK f \in [Commits -> Y] : \A c \in Commits : f[c] = e[<<f, c>>]
  BY <1>1, <1>4, RecursionOverParents
<1>6. \A c \in Commits : f[c] = v(f, c)
  BY <1>2, <1>5
<1>7. Eq(f)
  BY <1>6
<1>8. Ancestors = CHOOSE g : Eq(g)
  BY DEF Ancestors, v
<1>9. Eq(Ancestors)
  <2>1. \E g : Eq(g)
    BY <1>7
  <2> HIDE DEF Eq
  <2> QED BY <1>8, <2>1
<1>10. \A c \in Commits : Ancestors[c] = v(Ancestors, c)
  <2> DEFINE M == Ancestors
  <2>1. Eq(M)
    BY <1>9
  <2> HIDE DEF M
  <2>2. \A c \in Commits : M[c] = v(M, c)
    BY <2>1
  <2> QED BY <2>2 DEF M
<1> QED BY <1>10 DEF v

\* A commit is its own ancestor, and ancestors are commits.
LEMMA AncestorsFacts ==
  \A c \in Commits : c \in Ancestors[c] /\ Ancestors[c] \subseteq Commits
<1> DEFINE S == {c \in Commits : Ancestors[c] \subseteq Commits}
<1>1. ASSUME NEW c \in Commits, \A i \in DOMAIN Parents[c] : Parents[c][i] \in S PROVE c \in S
  <2>1. \A p \in Range(Parents[c]) : Ancestors[p] \subseteq Commits
    BY <1>1 DEF Range
  <2> QED BY <2>1, AncestorsIs
<1> HIDE DEF S
<1>2. Commits \subseteq S
  BY <1>1, GenerationInduction
<1> QED BY <1>2, AncestorsIs DEF S

\* The mainline starts at the commit, holds ancestors only, and with a commit its
\* first parent.
MainlineOf(c) ==
  /\ Mainline[c] \in Seq(Commits) /\ Len(Mainline[c]) # 0 /\ Mainline[c][1] = c
  /\ Range(Mainline[c]) \subseteq Ancestors[c]
  /\ \A d \in Range(Mainline[c]) : Parents[d] # <<>> => Parents[d][1] \in Range(Mainline[c])

\* A sequence with one more element in front.
LEMMA ConsRange ==
  ASSUME NEW X, NEW x \in X, NEW t \in Seq(X)
  PROVE  LET s == <<x>> \o t
         IN  s \in Seq(X) /\ Len(s) = Len(t) + 1 /\ s[1] = x /\ Range(s) = {x} \cup Range(t)
<1> DEFINE a == <<x>>
           s == a \o t
<1>1. a \in Seq(X)
  OBVIOUS
<1>2. Len(a) = 1 /\ a[1] = x
  OBVIOUS
<1>3. Len(t) \in Nat /\ DOMAIN t = 1..Len(t)
  OBVIOUS
<1> HIDE DEF a
<1>4. /\ s \in Seq(X) /\ Len(s) = Len(a) + Len(t)
      /\ \A i \in 1..(Len(a) + Len(t)) : s[i] = IF i <= Len(a) THEN a[i] ELSE t[i - Len(a)]
  BY <1>1, ConcatProperties
<1> HIDE DEF s
<1>5. Len(s) = Len(t) + 1 /\ s[1] = x /\ DOMAIN s = 1..(Len(t) + 1)
  BY <1>2, <1>3, <1>4
<1>6. \A i \in 1..Len(t) : i + 1 \in 1..(Len(t) + 1) /\ s[i + 1] = t[i]
  BY <1>2, <1>3, <1>4
<1>7. \A i \in 1..(Len(t) + 1) : i # 1 => i - 1 \in 1..Len(t) /\ s[i] = t[i - 1]
  BY <1>2, <1>3, <1>4
<1>8. Range(s) \subseteq {x} \cup Range(t)
  BY <1>3, <1>5, <1>7 DEF Range
<1>9. {x} \cup Range(t) \subseteq Range(s)
  <2>1. 1 \in DOMAIN s
    BY <1>3, <1>5
  <2> QED BY <1>3, <1>5, <1>6, <2>1 DEF Range
<1> QED BY <1>4, <1>5, <1>8, <1>9 DEF s, a

\* A mainline starts at its commit and stays within the ancestors.
LEMMA MainlineFacts == \A c \in Commits : MainlineOf(c)
<1> DEFINE S == {c \in Commits : MainlineOf(c)}
<1>1. ASSUME NEW c \in Commits, \A i \in DOMAIN Parents[c] : Parents[c][i] \in S PROVE MainlineOf(c)
  <2> DEFINE M == Mainline
             t == IF Parents[c] = <<>> THEN <<>> ELSE Mainline[Parents[c][1]]
             s == <<c>> \o t
  <2>1. M[c] = s
    BY MainlineIs
  <2>2. c \in Ancestors[c] /\ \A p \in Range(Parents[c]) : Ancestors[p] \subseteq Ancestors[c]
    BY AncestorsIs
  <2>3. /\ t \in Seq(Commits) /\ Range(t) \subseteq Ancestors[c]
        /\ Parents[c] # <<>> => Parents[c][1] \in Range(t)
        /\ \A d \in Range(t) : Parents[d] # <<>> => Parents[d][1] \in Range(t)
    <3>1. CASE Parents[c] = <<>>
      <4>1. t = <<>> /\ <<>> \in Seq(Commits) /\ Range(<<>>) = {}
        BY <3>1 DEF Range
      <4> HIDE DEF t
      <4> QED BY <3>1, <4>1
    <3>2. CASE Parents[c] # <<>>
      <4> DEFINE p == Parents[c][1]
      <4>1. p \in S /\ p \in Range(Parents[c]) /\ t = Mainline[p]
        BY <1>1, <3>2, ParentsIs
      <4> HIDE DEF p, t
      <4>2. MainlineOf(p) /\ Ancestors[p] \subseteq Ancestors[c]
        BY <2>2, <4>1
      <4>3. p \in Range(t)
        <5>1. t \in Seq(Commits) /\ Len(t) # 0 /\ t[1] = p
          BY <4>1, <4>2 DEF MainlineOf
        <5>2. 1 \in DOMAIN t
          BY <5>1
        <5> QED BY <5>1, <5>2 DEF Range
      <4> QED BY <4>1, <4>2, <4>3 DEF MainlineOf, p
    <3> QED BY <3>1, <3>2
  <2> HIDE DEF t
  <2>4. s \in Seq(Commits) /\ Len(s) = Len(t) + 1 /\ s[1] = c /\ Range(s) = {c} \cup Range(t)
    BY <2>3, ConsRange
  <2>5. Len(t) + 1 # 0
    BY <2>3
  <2> HIDE DEF s
  <2>6. \A d \in Range(s) : Parents[d] # <<>> => Parents[d][1] \in Range(s)
    BY <2>3, <2>4
  <2> QED BY <2>1, <2>2, <2>3, <2>4, <2>5, <2>6 DEF MainlineOf
<1>2. ASSUME NEW c \in Commits, \A i \in DOMAIN Parents[c] : Parents[c][i] \in S PROVE c \in S
  BY <1>1, <1>2
<1> HIDE DEF S
<1>3. Commits \subseteq S
  BY <1>2, GenerationInduction
<1> QED BY <1>3 DEF S

\* What git log lists.
LEMMA LogOfAll ==
  ASSUME NEW h \in Commits, NEW l \in LogCommits(h, NoCommit)
  PROVE  /\ l \in Seq(Commits) /\ l # <<>> /\ Head(l) = h
         /\ Len(Mainline[h]) <= MaxCommits => l = Mainline[h]
<1> DEFINE m == Mainline[h]
           k == Min({MaxCommits, Len(m)})
<1>1. m \in Seq(Commits) /\ Len(m) # 0 /\ m[1] = h
  BY MainlineFacts DEF MainlineOf
<1>2. l = SubSeq(m, 1, k)
  BY DEF LogCommits
<1> HIDE DEF m
<1>3. MaxCommits \in Nat /\ MaxCommits # 0 /\ Len(m) \in Nat
  BY <1>1, HistoryBoundsAssumption
<1>4. k = IF MaxCommits <= Len(m) THEN MaxCommits ELSE Len(m)
  BY <1>3, MinOfTwo
<1> HIDE DEF k
<1>5. 1 \in 1..Len(m) /\ k \in 1..Len(m)
  BY <1>1, <1>3, <1>4
<1>6. Head(SubSeq(m, 1, k)) = m[1]
  BY <1>1, <1>5, HeadTailOfSubSeq
<1>7. SubSeq(m, 1, k) \in Seq(Commits) /\ Len(SubSeq(m, 1, k)) = k
  <2>1. \A i \in 1..k : m[i] \in Commits
    BY <1>1, <1>3, <1>5, ElementOfSeq
  <2>2. 1 \in Int /\ k \in Int /\ 1 <= k /\ k - 1 + 1 = k
    BY <1>3, <1>5
  <2> QED BY <2>1, <2>2, SubSeqProperties
<1>8. SubSeq(m, 1, k) # <<>>
  <2>1. Len(<<>>) = 0 /\ k # 0
    BY <1>3, <1>5
  <2> QED BY <1>7, <2>1
<1>9. Len(m) <= MaxCommits => l = m
  <2> SUFFICES ASSUME Len(m) <= MaxCommits PROVE l = m
    OBVIOUS
  <2>1. k = Len(m)
    BY <1>3, <1>4
  <2> QED BY <1>1, <1>2, <2>1, SubSeqFull
<1> QED BY <1>1, <1>2, <1>6, <1>7, <1>8, <1>9 DEF m

\* git log base..head lists what head has and base has not, head first.
LEMMA LogSince ==
  ASSUME NEW h \in Commits, NEW b \in Commits, NEW l \in LogCommits(h, b)
  PROVE  /\ l \in Seq(Commits) /\ (l # <<>> => Head(l) = h)
         /\ Range(l) = Ancestors[h] \ Ancestors[b]
<1> DEFINE S == Ancestors[h] \ Ancestors[b]
<1>0. S \subseteq Commits /\ IsFiniteSet(S) /\ b # NoCommit
  <2>1. S \subseteq Commits
    BY AncestorsFacts
  <2> QED BY <2>1, CommitsAssumption, FS_Subset
<1>1. l \in IF S = {} THEN {<<>>} ELSE Listings(S, h)
  BY <1>0 DEF LogCommits
<1> HIDE DEF S
<1>2. CASE S = {}
  <2>1. l = <<>>
    BY <1>1, <1>2
  <2>2. l \in Seq(Commits) /\ Range(l) = {}
    BY <2>1 DEF Range
  <2> QED BY <1>2, <2>1, <2>2 DEF S
<1>3. CASE S # {}
  <2>1. l \in SetToSeqs(S) /\ \A i \in 1..Len(l) :
          IF i = 1 THEN l[1] = h ELSE \E j \in 1..(i-1) : l[i] \in Range(Parents[l[j]])
    BY <1>1, <1>3 DEF Listings
  <2>2. /\ l \in [1..Cardinality(S) -> S]
        /\ \A i, j \in 1..Cardinality(S) : l[i] = l[j] => i = j
    BY <2>1 DEF SetToSeqs
  <2>3. /\ l \in Seq(S) /\ Len(l) = Cardinality(S)
        /\ \A x \in S : \E i \in 1..Cardinality(S) : l[i] = x
    BY <1>0, <2>2, Enumerated
  <2>4. Range(l) = S
    BY <2>2, <2>3 DEF Range
  <2>5. l \in Seq(Commits)
    BY <1>0, <2>3, SeqMonotonic
  <2>6. l # <<>> => Head(l) = h
    <3> SUFFICES ASSUME l # <<>> PROVE Head(l) = h
      OBVIOUS
    <3>1. Head(l) = l[1] /\ 1 \in 1..Len(l)
      BY <2>5
    <3> QED BY <2>1, <3>1
  <2> QED BY <2>4, <2>5, <2>6 DEF S
<1> QED BY <1>2, <1>3

\* The list of a phase, taken from the front.
LaterIn(s) == {s[i] : i \in 2..Len(s)}

\* The elements of a sequence and their positions.
LEMMA RangeIs ==
  ASSUME NEW X, NEW s \in Seq(X)
  PROVE  /\ Range(s) \subseteq X /\ Len(s) \in Nat /\ DOMAIN s = 1..Len(s)
         /\ Range(s) = {s[i] : i \in 1..Len(s)}
         /\ s = <<>> <=> Len(s) = 0
         /\ s # <<>> => Head(s) = s[1] /\ Head(s) \in Range(s)
         /\ LaterIn(s) \subseteq Range(s)
<1>1. Len(s) \in Nat /\ DOMAIN s = 1..Len(s) /\ (s = <<>> <=> Len(s) = 0)
  OBVIOUS
<1>2. \A i \in 1..Len(s) : s[i] \in X
  BY ElementOfSeq
<1>3. Range(s) = {s[i] : i \in 1..Len(s)}
  BY <1>1 DEF Range
<1>4. s # <<>> => Head(s) = s[1]
  OBVIOUS
<1>5. s # <<>> => 1 \in 1..Len(s)
  BY <1>1
<1>6. LaterIn(s) \subseteq Range(s)
  BY <1>1, <1>3 DEF LaterIn
<1>7. Range(s) \subseteq X
  BY <1>2, <1>3
<1> QED BY <1>1, <1>3, <1>4, <1>5, <1>6, <1>7

\* The elements after the head are those of the tail.
LEMMA LaterIs ==
  ASSUME NEW X, NEW s \in Seq(X), s # <<>>
  PROVE  /\ Range(s) = {Head(s)} \cup LaterIn(s)
         /\ Tail(s) \in Seq(X) /\ Range(Tail(s)) = LaterIn(s)
         /\ Len(s) > 1 => Tail(s) # <<>> /\ Head(Tail(s)) = s[2]
         /\ ~(Len(s) > 1) => LaterIn(s) = {} /\ Tail(s) = <<>>
<1> DEFINE t == Tail(s)
<1>1. /\ Len(s) \in Nat /\ Len(s) # 0 /\ Head(s) = s[1]
      /\ Range(s) = {s[i] : i \in 1..Len(s)}
  BY RangeIs
<1>2. /\ t \in Seq(X) /\ Len(t) = Len(s)-1 /\ \A i \in 1..Len(t) : t[i] = s[i+1]
  BY HeadTailProperties
<1> HIDE DEF t
<1>3. /\ Range(t) = {t[i] : i \in 1..Len(t)} /\ (t # <<>> => Head(t) = t[1]) /\ (t = <<>> <=> Len(t) = 0)
  BY <1>2, RangeIs
<1>4. Range(s) = {Head(s)} \cup LaterIn(s)
  <2>1. 1..Len(s) = {1} \cup 2..Len(s)
    BY <1>1
  <2> QED BY <1>1, <2>1 DEF LaterIn
<1>5. Range(t) = LaterIn(s)
  <2>1. \A i \in 1..Len(t) : i+1 \in 2..Len(s)
    BY <1>1, <1>2
  <2>2. \A i \in 2..Len(s) : i-1 \in 1..Len(t) /\ t[i-1] = s[i]
    <3> SUFFICES ASSUME NEW i \in 2..Len(s) PROVE i-1 \in 1..Len(t) /\ t[i-1] = s[i]
      OBVIOUS
    <3>1. i-1 \in 1..Len(t) /\ (i-1)+1 = i
      BY <1>1, <1>2
    <3> QED BY <1>2, <3>1
  <2> QED BY <1>2, <1>3, <2>1, <2>2 DEF LaterIn
<1>6. Len(s) > 1 => t # <<>> /\ Head(t) = s[2]
  <2> SUFFICES ASSUME Len(s) > 1 PROVE t # <<>> /\ Head(t) = s[2]
    OBVIOUS
  <2>1. Len(t) # 0 /\ 1 \in 1..Len(t) /\ 1+1 = 2
    BY <1>1, <1>2
  <2> QED BY <1>2, <1>3, <2>1
<1>7. ~(Len(s) > 1) => LaterIn(s) = {} /\ t = <<>>
  <2> SUFFICES ASSUME ~(Len(s) > 1) PROVE LaterIn(s) = {} /\ t = <<>>
    OBVIOUS
  <2>1. Len(s) = 1 /\ Len(t) = 0
    BY <1>1, <1>2
  <2>2. 2..Len(s) = {}
    BY <2>1
  <2> QED BY <1>3, <2>1, <2>2 DEF LaterIn
<1> QED BY <1>2, <1>4, <1>5, <1>6, <1>7 DEF t

\* The least of some ordinals is one of them.
LEMMA LeastOrdinal ==
  ASSUME NEW n \in Nat, NEW T \in SUBSET (1..n), T # {}
  PROVE  Min(T) \in T
<1>1. T \subseteq Nat
  OBVIOUS
<1>2. \E x \in T : \A y \in T : x <= y
  BY <1>1, LeastElement
<1> QED BY <1>2 DEF Min

(* The inductive invariant, action by action.                              *)
HistoryIInv ==
  /\ TypeOK /\ JobPlan /\ CommitsSoFar /\ ParentsSoFar /\ DiffsSoFar /\ RowsAndSnapshot
  /\ IndexedWhole /\ SnapshotLinked /\ DiffsFaithful /\ HistoryUnbroken

\* What a running job has to index.
LEMMA PlanFacts ==
  ASSUME JobPlan, pc # "idle"
  PROVE  /\ head \in Commits /\ list \in Seq(Commits) /\ Range(list) \subseteq Commits
         /\ list # <<>> => Head(list) = head /\ Head(list) \in Range(list)
         /\ base = NoCommit /\ Len(Mainline[head]) <= MaxCommits => list = Mainline[head]
         /\ base # NoCommit => base \in Commits /\ Range(list) = Ancestors[head] \ Ancestors[base]
<1>1. head \in Commits /\ list \in LogCommits(head, base) /\ base \in Commits \cup {NoCommit}
  BY DEF JobPlan
<1>2. CASE base = NoCommit
  <2>1. /\ list \in Seq(Commits) /\ list # <<>> /\ Head(list) = head
        /\ Len(Mainline[head]) <= MaxCommits => list = Mainline[head]
    BY <1>1, <1>2, LogOfAll
  <2> QED BY <1>1, <1>2, <2>1, RangeIs
<1>3. CASE base # NoCommit
  <2>1. /\ list \in Seq(Commits) /\ (list # <<>> => Head(list) = head)
        /\ Range(list) = Ancestors[head] \ Ancestors[base]
    BY <1>1, <1>3, LogSince
  <2> QED BY <1>1, <1>3, <2>1, RangeIs
<1> QED BY <1>2, <1>3

\* The entries of a commit the job indexes are git's changes.
LEMMA EntryFacts ==
  ASSUME JobPlan, pc # "idle", NEW c \in Range(list)
  PROVE  /\ c \in Commits /\ EntryPaths(c) = Shown(c, base)
         /\ \A p \in EntryPaths(c) :
              /\ p \in DOMAIN Changes[c] /\ diffMap[c][p].status = Changes[c][p].status
              /\ diffMap[c][p].lines = NumOf(c, p) /\ KeptPatch(c, p, diffMap[c][p].patch)
<1>1. list \in Seq(Commits) /\ diffMap = DiffStatLog(list, base) /\ c \in Commits
  BY PlanFacts DEF JobPlan
<1>2. \E i \in 1..Len(list) : list[i] = c
  BY <1>1, RangeIs
<1>3. ASSUME NEW p \in Paths
      PROVE  IF p \in Shown(c, base)
             THEN /\ diffMap[c][p] # NoEntry /\ diffMap[c][p].status = Changes[c][p].status
                  /\ diffMap[c][p].lines = NumOf(c, p) /\ KeptPatch(c, p, diffMap[c][p].patch)
             ELSE diffMap[c][p] = NoEntry
  BY <1>1, <1>2, DiffMapIs
<1>4. Shown(c, base) \subseteq Paths /\ Shown(c, base) \subseteq DOMAIN Changes[c]
  BY <1>1, ChangeFacts
<1>5. EntryPaths(c) = Shown(c, base)
  BY <1>3, <1>4 DEF EntryPaths
<1> QED BY <1>1, <1>3, <1>4, <1>5

\* The invariant holds of an empty database.
LEMMA HistoryInit == Init => HistoryIInv
<1> SUFFICES ASSUME Init PROVE HistoryIInv
  OBVIOUS
<1>1. /\ commits = {} /\ parentRows = {} /\ diffRows = {} /\ links = [c \in Commits |-> NoCommit]
      /\ active = NoCommit /\ whole = FALSE /\ pc = "idle" /\ base = NoCommit /\ ok = FALSE
      /\ jobs = 0 /\ requests = 0 /\ req.at = "idle"
  BY DEF Init, NoRequest
<1>2. TypeOK
  <2>1. MaxJobs \in Nat /\ MaxRequests \in Nat
    BY HistoryBoundsAssumption
  <2>2. 0 \in 0..MaxJobs /\ 0 \in 0..MaxRequests
    BY <2>1
  <2>3. links \in [Commits -> Commits \cup {NoCommit}] /\ \A c \in Commits : links[c] = NoCommit
    BY <1>1
  <2> QED BY <1>1, <2>2, <2>3 DEF TypeOK
<1>3. JobPlan /\ CommitsSoFar /\ ParentsSoFar /\ DiffsSoFar
  BY <1>1 DEF JobPlan, CommitsSoFar, ParentsSoFar, DiffsSoFar
<1>4. RowsAndSnapshot /\ IndexedWhole /\ SnapshotLinked /\ DiffsFaithful /\ HistoryUnbroken
  BY <1>1 DEF RowsAndSnapshot, IndexedWhole, SnapshotLinked, DiffsFaithful, HistoryUnbroken
<1> QED BY <1>2, <1>3, <1>4 DEF HistoryIInv

\* What is stored, and what is said of it alone.
LEMMA SameStore ==
  ASSUME HistoryIInv, UNCHANGED <<commits, parentRows, diffRows, links, active, whole, req, requests>>,
         pc' \in {"idle", "commits", "parents", "diffs", "build", "link"}, ok' \in BOOLEAN,
         jobs' \in 0..MaxJobs
  PROVE  TypeOK' /\ RowsAndSnapshot' /\ SnapshotLinked' /\ DiffsFaithful' /\ HistoryUnbroken'
<1>1. TypeOK'
  BY DEF HistoryIInv, TypeOK
<1>2. RowsAndSnapshot'
  BY DEF HistoryIInv, RowsAndSnapshot
<1>3. SnapshotLinked'
  BY DEF HistoryIInv, SnapshotLinked
<1>4. DiffsFaithful'
  BY DEF HistoryIInv, DiffsFaithful
<1>5. HistoryUnbroken'
  BY DEF HistoryIInv, HistoryUnbroken, DiffsStored
<1> QED BY <1>1, <1>2, <1>3, <1>4, <1>5

\* A job plans from the logs of its head.
LEMMA BeginKeeps ==
  ASSUME HistoryIInv, NEW w \in Workflows, NEW h \in Heads, NEW b \in Heads \cup {NoCommit}, Begin(w, h, b)
  PROVE  HistoryIInv'
<1>1. /\ UNCHANGED <<commits, parentRows, diffRows, links, active, whole, req, requests>>
      /\ pc' = "commits" /\ ok' = TRUE /\ jobs < MaxJobs /\ jobs' = jobs + 1
      /\ head' = h /\ base' = b /\ list' \in LogCommits(h, b) /\ diffMap' = DiffStatLog(list', b)
      /\ rest' = list' /\ b \in {NoCommit, active}
  BY DEF Begin, rowVars, snapVars, reqVars
<1>2. jobs' \in 0..MaxJobs
  BY <1>1, HistoryBoundsAssumption DEF HistoryIInv, TypeOK
<1>3. TypeOK' /\ RowsAndSnapshot' /\ SnapshotLinked' /\ DiffsFaithful' /\ HistoryUnbroken'
  BY <1>1, <1>2, SameStore
<1>4. JobPlan'
  BY <1>1, CommitsAssumption DEF JobPlan
<1>5. list' \in Seq(Commits)
  <2>1. h \in Commits /\ b \in Commits \cup {NoCommit}
    BY CommitsAssumption
  <2> QED BY <1>1, <2>1, LogOfAll, LogSince
<1>6. CommitsSoFar'
  BY <1>1, <1>5 DEF CommitsSoFar
<1>7. ParentsSoFar' /\ DiffsSoFar' /\ IndexedWhole'
  BY <1>1 DEF ParentsSoFar, DiffsSoFar, IndexedWhole
<1> QED BY <1>3, <1>4, <1>6, <1>7 DEF HistoryIInv

\* The store grows.
LEMMA UnbrokenGrows ==
  ASSUME HistoryUnbroken, UNCHANGED <<whole, active>>,
         commits \subseteq commits', parentRows \subseteq parentRows', diffRows \subseteq diffRows'
  PROVE  HistoryUnbroken'
BY DEF HistoryUnbroken, DiffsStored

\* A commit is inserted, or was there.
LEMMA InsertCommitKeeps ==
  ASSUME HistoryIInv, InsertCommit
  PROVE  HistoryIInv'
<1>1. /\ UNCHANGED <<parentRows, diffRows, links, active, whole, req, requests, pc, base, head, list,
                     diffMap, left, ok, jobs>>
      /\ pc = "commits" /\ rest # <<>> /\ commits' = commits \cup {Head(rest)} /\ rest' = Tail(rest)
  BY DEF InsertCommit, CommitsWith, snapVars, planVars, reqVars
<1>2. rest \in Seq(Commits) /\ Range(rest) \subseteq Range(list) /\ Range(list) \subseteq commits \cup Range(rest)
  BY <1>1 DEF HistoryIInv, CommitsSoFar
<1>3. /\ Range(rest) = {Head(rest)} \cup LaterIn(rest)
      /\ Tail(rest) \in Seq(Commits) /\ Range(Tail(rest)) = LaterIn(rest)
      /\ Range(rest) \subseteq Commits
  BY <1>1, <1>2, LaterIs, RangeIs
<1>4. TypeOK'
  BY <1>1, <1>3 DEF HistoryIInv, TypeOK
<1>5. JobPlan'
  BY <1>1 DEF HistoryIInv, JobPlan
<1>6. CommitsSoFar'
  BY <1>1, <1>2, <1>3 DEF CommitsSoFar
<1>7. ParentsSoFar' /\ DiffsSoFar' /\ IndexedWhole'
  BY <1>1 DEF ParentsSoFar, DiffsSoFar, IndexedWhole
<1>8. RowsAndSnapshot' /\ SnapshotLinked' /\ DiffsFaithful'
  BY <1>1 DEF HistoryIInv, RowsAndSnapshot, SnapshotLinked, DiffsFaithful
<1>9. HistoryUnbroken'
  BY <1>1, UnbrokenGrows DEF HistoryIInv
<1> QED BY <1>4, <1>5, <1>6, <1>7, <1>8, <1>9 DEF HistoryIInv

\* Steps that write no row of a diff or of a snapshot keep what is said of them.
LEMMA RowsKept ==
  ASSUME HistoryIInv, UNCHANGED <<diffRows, links, active, whole>>
  PROVE  RowsAndSnapshot' /\ SnapshotLinked' /\ DiffsFaithful'
BY DEF HistoryIInv, RowsAndSnapshot, SnapshotLinked, DiffsFaithful

\* The second pass starts again at the head of the list.
LEMMA StartParentsKeeps ==
  ASSUME HistoryIInv, StartParents
  PROVE  HistoryIInv'
<1>1. /\ UNCHANGED <<commits, parentRows, diffRows, links, active, whole, req, requests, base, head, list,
                     diffMap, ok, jobs>>
      /\ pc = "commits" /\ rest = <<>> /\ pc' = "parents" /\ rest' = list
      /\ left' = IF list = <<>> THEN {} ELSE Ordinals(Head(list))
  BY DEF StartParents, rowVars, snapVars, planVars, reqVars
<1>2. TypeOK' /\ RowsAndSnapshot' /\ SnapshotLinked' /\ DiffsFaithful' /\ HistoryUnbroken'
  <2>1. ok' \in BOOLEAN /\ jobs' \in 0..MaxJobs
    BY <1>1 DEF HistoryIInv, TypeOK
  <2> QED BY <1>1, <2>1, SameStore
<1>3. JobPlan'
  BY <1>1 DEF HistoryIInv, JobPlan
<1>4. list \in Seq(Commits)
  BY <1>1, PlanFacts DEF HistoryIInv
<1>5. Range(list) \subseteq commits
  <2>1. Range(rest) = {}
    BY <1>1 DEF Range
  <2> QED BY <1>1, <2>1 DEF HistoryIInv, CommitsSoFar
<1>6. CommitsSoFar'
  BY <1>1, <1>4, <1>5 DEF CommitsSoFar
<1>7. ParentsSoFar'
  <2>1. list # <<>> => Range(list) = {Head(list)} \cup LaterIn(list)
    BY <1>4, LaterIs
  <2>2. list = <<>> => Range(list) = {}
    BY DEF Range
  <2>3. Later' = LaterIn(list)
    BY <1>1 DEF Later, LaterIn
  <2> SUFFICES ASSUME NEW c \in Range(list), NEW i \in Ordinals(c), c \notin LaterIn(list)
               PROVE  rest' # <<>> /\ c = Head(rest') /\ i \in left'
    BY <1>1, <2>3 DEF ParentsSoFar, Current, Ordinals
  <2> QED BY <1>1, <2>1, <2>2
<1>8. DiffsSoFar' /\ IndexedWhole'
  BY <1>1 DEF DiffsSoFar, IndexedWhole
<1> QED BY <1>2, <1>3, <1>6, <1>7, <1>8 DEF HistoryIInv

\* The pass goes on to the next commit once its parents are stored.
LEMMA NextParentsKeeps ==
  ASSUME HistoryIInv, NextParents
  PROVE  HistoryIInv'
<1>1. /\ UNCHANGED <<commits, parentRows, diffRows, links, active, whole, req, requests, base, head, list,
                     diffMap, ok, jobs>>
      /\ pc = "parents" /\ left = {}
      /\ \/ /\ Len(rest) > 1 /\ rest' = Tail(rest) /\ left' = Ordinals(rest[2]) /\ pc' = "parents"
         \/ /\ ~(Len(rest) > 1) /\ rest' = list /\ pc' = "diffs"
            /\ left' = IF list = <<>> THEN {} ELSE EntryPaths(Head(list))
  BY DEF NextParents, rowVars, snapVars, planVars, reqVars
<1>2. TypeOK' /\ RowsAndSnapshot' /\ SnapshotLinked' /\ DiffsFaithful' /\ HistoryUnbroken'
  <2>1. ok' \in BOOLEAN /\ jobs' \in 0..MaxJobs
    BY <1>1 DEF HistoryIInv, TypeOK
  <2> QED BY <1>1, <2>1, SameStore
<1>3. JobPlan'
  BY <1>1 DEF HistoryIInv, JobPlan
<1>4. list \in Seq(Commits) /\ Range(list) \subseteq commits
  BY <1>1, PlanFacts DEF HistoryIInv, CommitsSoFar
<1>5. rest \in Seq(Commits) /\ Range(rest) \subseteq Range(list) /\ (rest = <<>> => list = <<>>)
  BY <1>1 DEF HistoryIInv, CommitsSoFar
<1>6. \A c \in Range(list) : \A i \in Ordinals(c) :
        c \in LaterIn(rest) \/ (Parents[c][i] \in commits => <<c, i, Parents[c][i]>> \in parentRows)
  BY <1>1 DEF HistoryIInv, ParentsSoFar, Later, LaterIn
<1>7. IndexedWhole'
  BY <1>1 DEF IndexedWhole
<1>8. CASE Len(rest) > 1
  <2>1. rest # <<>>
    BY <1>8
  <2>2. /\ Tail(rest) \in Seq(Commits) /\ Tail(rest) # <<>> /\ Head(Tail(rest)) = rest[2]
        /\ Range(Tail(rest)) = LaterIn(rest) /\ Range(rest) = {Head(rest)} \cup LaterIn(rest)
    BY <1>5, <1>8, <2>1, LaterIs
  <2> DEFINE t == Tail(rest)
  <2>3. LaterIn(rest) = {Head(t)} \cup LaterIn(t)
    BY <2>2, LaterIs
  <2>4. pc' = "parents" /\ rest' = t /\ left' = Ordinals(Head(t))
    BY <1>1, <1>8, <2>2
  <2> HIDE DEF t
  <2>5. t \in Seq(Commits) /\ t # <<>> /\ Range(t) \subseteq Range(list)
    BY <1>5, <2>2 DEF t
  <2>6. CommitsSoFar'
    BY <1>1, <1>4, <2>4, <2>5 DEF CommitsSoFar
  <2>7. Later' = LaterIn(t)
    BY <2>4 DEF Later, LaterIn
  <2>8. ParentsSoFar'
    <3> SUFFICES ASSUME NEW c \in Range(list), NEW i \in Ordinals(c), c \notin LaterIn(t),
                        ~(Parents[c][i] \in commits => <<c, i, Parents[c][i]>> \in parentRows)
                 PROVE  rest' # <<>> /\ c = Head(rest') /\ i \in left'
      BY <1>1, <2>4, <2>7 DEF ParentsSoFar, Current, Ordinals
    <3>1. c \in LaterIn(rest)
      BY <1>6
    <3>2. c = Head(t)
      BY <2>3, <3>1
    <3> QED BY <2>4, <2>5, <3>2
  <2>9. DiffsSoFar'
    BY <2>4 DEF DiffsSoFar
  <2> QED BY <1>2, <1>3, <1>7, <2>6, <2>8, <2>9 DEF HistoryIInv
<1>9. CASE ~(Len(rest) > 1)
  <2>1. /\ pc' = "diffs" /\ rest' = list
        /\ left' = IF list = <<>> THEN {} ELSE EntryPaths(Head(list))
    BY <1>1, <1>9
  <2>2. LaterIn(rest) = {}
    <3>1. CASE rest = <<>>
      BY <3>1 DEF LaterIn
    <3>2. CASE rest # <<>>
      BY <1>5, <1>9, <3>2, LaterIs
    <3> QED BY <3>1, <3>2
  <2>3. CommitsSoFar'
    BY <1>1, <1>4, <2>1 DEF CommitsSoFar
  <2>4. ParentsSoFar'
    BY <2>1 DEF ParentsSoFar
  <2>5. \A c \in Range(list) : Stored(c)'
    BY <1>1, <1>4, <1>6, <2>2 DEF Stored, Ordinals
  <2>6. Later' = LaterIn(list) /\ \A c : EntryPaths(c)' = EntryPaths(c)
    BY <1>1, <2>1 DEF Later, LaterIn, EntryPaths
  <2>7. list # <<>> => Range(list) = {Head(list)} \cup LaterIn(list)
    BY <1>4, LaterIs
  <2>8. list = <<>> => Range(list) = {}
    BY DEF Range
  <2>9. DiffsSoFar'
    <3>1. ASSUME NEW c \in Range(list), NEW p \in EntryPaths(c), c \notin LaterIn(list)
          PROVE  rest' # <<>> /\ c = Head(rest') /\ p \in left'
      BY <2>1, <2>7, <2>8, <3>1
    <3>2. (rest # <<>> => left \subseteq EntryPaths(Head(rest)))'
      BY <1>1, <2>1 DEF EntryPaths
    <3> QED BY <1>1, <2>5, <2>6, <3>1, <3>2 DEF DiffsSoFar, Current
  <2> QED BY <1>2, <1>3, <1>7, <2>3, <2>4, <2>9 DEF HistoryIInv
<1> QED BY <1>8, <1>9

\* One parent of a commit is stored.
LEMMA InsertCommitParentKeeps ==
  ASSUME HistoryIInv, InsertCommitParent
  PROVE  HistoryIInv'
<1> DEFINE h == Head(rest)
           i == Min(left)
           p == Parents[h][i]
<1>1. /\ UNCHANGED <<commits, diffRows, links, active, whole, req, requests, pc, base, head, list,
                     diffMap, rest, ok, jobs>>
      /\ pc = "parents" /\ left # {} /\ left' = left \ {i}
      /\ parentRows' = IF Known(p) THEN parentRows \cup {<<h, i, p>>} ELSE parentRows
  BY DEF InsertCommitParent, ParentsWith, snapVars, planVars, reqVars
<1>2. /\ rest \in Seq(Commits) /\ Range(rest) \subseteq Range(list) /\ Range(list) \subseteq commits
      /\ rest # <<>>
  BY <1>1 DEF HistoryIInv, CommitsSoFar
<1>3. h \in Range(list) /\ h \in commits /\ h \in Commits
  <2>1. h \in Range(rest) /\ Range(rest) \subseteq Commits
    BY <1>2, RangeIs
  <2> QED BY <1>2, <2>1
<1>4. i \in left /\ i \in Ordinals(h)
  <2>1. left \subseteq Ordinals(h)
    BY <1>1, <1>2 DEF HistoryIInv, ParentsSoFar
  <2>2. Len(Parents[h]) \in Nat
    BY <1>3, ParentsIs
  <2>3. Min(left) \in left
    BY <1>1, <2>1, <2>2, LeastOrdinal DEF Ordinals
  <2> QED BY <2>1, <2>3
<1> HIDE DEF h, i
<1>5. Known(p) <=> p \in commits
  BY <1>2 DEF Known, GetCommitByHash
<1> HIDE DEF p
<1>6. TypeOK'
  <2>1. \A r \in parentRows' : {r[1], r[3]} \subseteq commits
    <3> SUFFICES ASSUME NEW r \in parentRows' PROVE {r[1], r[3]} \subseteq commits
      OBVIOUS
    <3>1. CASE r \in parentRows
      BY <3>1 DEF HistoryIInv, TypeOK
    <3>2. CASE r \notin parentRows
      <4>1. Known(p) /\ r = <<h, i, p>>
        BY <1>1, <3>2
      <4> QED BY <1>3, <1>5, <4>1
    <3> QED BY <3>1, <3>2
  <2> QED BY <1>1, <2>1 DEF HistoryIInv, TypeOK
<1>7. JobPlan' /\ CommitsSoFar'
  <2>1. CommitsSoFar'
    BY <1>1, <1>2 DEF HistoryIInv, CommitsSoFar
  <2> QED BY <1>1, <2>1 DEF HistoryIInv, JobPlan
<1>8. ParentsSoFar'
  <2>1. left' \subseteq left
    BY <1>1
  <2>2. Later' = Later /\ \A c : Current(c)' = Current(c)
    BY <1>1 DEF Later, Current
  <2>3. ASSUME NEW c \in Range(list), NEW j \in Ordinals(c), c \notin Later, ~(Current(c) /\ j \in left'),
               Parents[c][j] \in commits
        PROVE  <<c, j, Parents[c][j]>> \in parentRows'
    <3>1. CASE Current(c) /\ j \in left
      <4>1. c = h /\ j = i
        BY <1>1, <2>3, <3>1 DEF Current, h
      <4>2. Known(p) /\ Parents[c][j] = p
        BY <1>5, <2>3, <4>1 DEF p
      <4> QED BY <1>1, <4>1, <4>2
    <3>2. CASE ~(Current(c) /\ j \in left)
      <4>1. <<c, j, Parents[c][j]>> \in parentRows
        BY <1>1, <2>3, <3>2 DEF HistoryIInv, ParentsSoFar
      <4> QED BY <1>1, <4>1
    <3> QED BY <3>1, <3>2
  <2>4. left' \subseteq Ordinals(Head(rest))
    BY <1>1, <1>2, <2>1 DEF HistoryIInv, ParentsSoFar
  <2> QED BY <1>1, <2>2, <2>3, <2>4 DEF ParentsSoFar, Ordinals
<1>9. DiffsSoFar' /\ IndexedWhole'
  BY <1>1 DEF DiffsSoFar, IndexedWhole
<1>10. RowsAndSnapshot' /\ SnapshotLinked' /\ DiffsFaithful'
  BY <1>1, RowsKept
<1>11. HistoryUnbroken'
  BY <1>1, UnbrokenGrows DEF HistoryIInv
<1> QED BY <1>6, <1>7, <1>8, <1>9, <1>10, <1>11 DEF HistoryIInv

\* The pass goes on to the next commit once its files are stored.
LEMMA NextDiffsKeeps ==
  ASSUME HistoryIInv, NextDiffs
  PROVE  HistoryIInv'
<1>1. /\ UNCHANGED <<commits, parentRows, diffRows, links, active, whole, req, requests, base, head, list,
                     diffMap, ok, jobs>>
      /\ pc = "diffs" /\ left = {}
      /\ \/ /\ Len(rest) > 1 /\ rest' = Tail(rest) /\ left' = EntryPaths(rest[2]) /\ pc' = "diffs"
         \/ /\ ~(Len(rest) > 1) /\ pc' = "build"
  BY DEF NextDiffs, rowVars, snapVars, planVars, reqVars
<1>2. TypeOK' /\ RowsAndSnapshot' /\ SnapshotLinked' /\ DiffsFaithful' /\ HistoryUnbroken'
  <2>1. ok' \in BOOLEAN /\ jobs' \in 0..MaxJobs
    BY <1>1 DEF HistoryIInv, TypeOK
  <2> QED BY <1>1, <2>1, SameStore
<1>3. JobPlan'
  BY <1>1 DEF HistoryIInv, JobPlan
<1>4. rest \in Seq(Commits) /\ Range(rest) \subseteq Range(list) /\ Range(list) \subseteq commits
  BY <1>1 DEF HistoryIInv, CommitsSoFar
<1>5. \A c \in Range(list) : /\ Stored(c)
                             /\ \A p \in EntryPaths(c) : c \in LaterIn(rest) \/ RowOf(c, p)
  BY <1>1 DEF HistoryIInv, DiffsSoFar, Later, LaterIn
<1>6. \A c : Stored(c)' = Stored(c) /\ EntryPaths(c)' = EntryPaths(c)
  BY <1>1 DEF Stored, EntryPaths, Ordinals
<1>7. \A c, p : RowOf(c, p)' = RowOf(c, p)
  BY <1>1 DEF RowOf
<1>8. ParentsSoFar'
  BY <1>1 DEF ParentsSoFar
<1>9. CASE Len(rest) > 1
  <2>1. rest # <<>>
    BY <1>9
  <2>2. /\ Tail(rest) \in Seq(Commits) /\ Tail(rest) # <<>> /\ Head(Tail(rest)) = rest[2]
        /\ Range(Tail(rest)) = LaterIn(rest) /\ Range(rest) = {Head(rest)} \cup LaterIn(rest)
    BY <1>4, <1>9, <2>1, LaterIs
  <2> DEFINE t == Tail(rest)
  <2>3. LaterIn(rest) = {Head(t)} \cup LaterIn(t)
    BY <2>2, LaterIs
  <2>4. pc' = "diffs" /\ rest' = t /\ left' = EntryPaths(Head(t))
    BY <1>1, <1>9, <2>2
  <2> HIDE DEF t
  <2>5. t \in Seq(Commits) /\ t # <<>> /\ Range(t) \subseteq Range(list)
    BY <1>4, <2>2 DEF t
  <2>6. CommitsSoFar'
    BY <1>1, <1>4, <2>4, <2>5 DEF CommitsSoFar
  <2>7. Later' = LaterIn(t)
    BY <2>4 DEF Later, LaterIn
  <2>8. DiffsSoFar'
    <3>1. ASSUME NEW c \in Range(list), NEW p \in EntryPaths(c), c \notin LaterIn(t), ~RowOf(c, p)
          PROVE  rest' # <<>> /\ c = Head(rest') /\ p \in left'
      <4>1. c \in LaterIn(rest)
        BY <1>5, <3>1
      <4>2. c = Head(t)
        BY <2>3, <3>1, <4>1
      <4> QED BY <2>4, <2>5, <3>1, <4>2
    <3>2. (rest # <<>> => left \subseteq EntryPaths(Head(rest)))'
      BY <1>1, <2>4 DEF EntryPaths
    <3> QED BY <1>1, <1>5, <1>6, <1>7, <2>7, <3>1, <3>2 DEF DiffsSoFar, Current
  <2>9. IndexedWhole'
    BY <2>4 DEF IndexedWhole
  <2> QED BY <1>2, <1>3, <1>8, <2>6, <2>8, <2>9 DEF HistoryIInv
<1>10. CASE ~(Len(rest) > 1)
  <2>1. pc' = "build"
    BY <1>1, <1>10
  <2>2. LaterIn(rest) = {}
    <3>1. CASE rest = <<>>
      BY <3>1 DEF LaterIn
    <3>2. CASE rest # <<>>
      BY <1>4, <1>10, <3>2, LaterIs
    <3> QED BY <3>1, <3>2
  <2>3. CommitsSoFar' /\ DiffsSoFar'
    BY <2>1 DEF CommitsSoFar, DiffsSoFar
  <2>4. ASSUME NEW c \in Range(list) PROVE (Stored(c) /\ DiffsStored(c, Shown(c, base)))'
    <3>1. EntryPaths(c) = Shown(c, base)
      BY <1>1, EntryFacts DEF HistoryIInv
    <3>2. Shown(c, base)' = Shown(c, base)
      BY <1>1 DEF Shown
    <3>3. Stored(c)' /\ \A p \in Shown(c, base) : RowOf(c, p)
      BY <1>5, <1>6, <2>2, <3>1
    <3> QED BY <1>1, <3>2, <3>3 DEF DiffsStored, RowOf
  <2>5. IndexedWhole'
    BY <1>1, <2>4 DEF IndexedWhole
  <2> QED BY <1>2, <1>3, <1>8, <2>3, <2>5 DEF HistoryIInv
<1> QED BY <1>9, <1>10

\* A row for a file: the first one stays, and says of the file what git says.
LEMMA DiffRowIs ==
  ASSUME HistoryIInv, pc = "diffs", NEW c \in Range(list), NEW p \in EntryPaths(c)
  PROVE  LET r == DiffRow(c, p)
         IN  /\ c \in Commits /\ p \in DOMAIN Changes[c] /\ p # NoPath
             /\ r.commit = c /\ r.parent = FirstParent(c) /\ r.change_type = Changes[c][p].status
             /\ r.old = (IF Changes[c][p].status = "A" THEN NoPath ELSE p)
             /\ r.new = (IF Changes[c][p].status = "D" THEN NoPath ELSE p)
             /\ r.lines = NumOf(c, p) /\ KeptPatch(c, p, r.patch)
<1>1. /\ c \in Commits /\ p \in DOMAIN Changes[c] /\ diffMap[c][p].status = Changes[c][p].status
      /\ diffMap[c][p].lines = NumOf(c, p) /\ KeptPatch(c, p, diffMap[c][p].patch)
  BY EntryFacts DEF HistoryIInv
<1>2. p # NoPath
  BY <1>1, ChangeFacts
<1> DEFINE e == diffMap[c][p]
<1> HIDE DEF e
<1>3. DiffRow(c, p) = [commit |-> c, parent |-> FirstParent(c), change_type |-> e.status,
                       old |-> IF e.status = "A" THEN NoPath ELSE p,
                       new |-> IF e.status = "D" THEN NoPath ELSE p,
                       lines |-> e.lines, patch |-> e.patch]
  BY DEF DiffRow, e
<1>4. e.status = Changes[c][p].status /\ e.lines = NumOf(c, p) /\ KeptPatch(c, p, e.patch)
  BY <1>1 DEF e
<1> QED BY <1>1, <1>2, <1>3, <1>4

PathOf(d) == IF d.new = NoPath THEN d.old ELSE d.new
\* What DiffsFaithful says of a row by itself.
RowRight(d) ==
  LET p == PathOf(d)
      change == Changes[d.commit][p]
  IN /\ p \in DOMAIN Changes[d.commit]
     /\ d.change_type = change.status
     /\ (d.old = NoPath) = (change.status = "A") /\ (d.new = NoPath) = (change.status = "D")
     /\ d.lines = IF change.kind = "binary" THEN 0 ELSE change.lines
     /\ KeptPatch(d.commit, p, d.patch)
     /\ {d.old, d.new} \ {NoPath} = {p}

\* Stored diffs are right, and one row stands for a path of a commit.
LEMMA FaithfulIs ==
  ASSUME DiffsFaithful, RowsAndSnapshot
  PROVE  /\ \A d \in diffRows : RowRight(d)
         /\ \A d, e \in diffRows : e.commit = d.commit /\ {e.old, e.new} \cap {PathOf(d)} # {} => e = d
BY DEF DiffsFaithful, RowsAndSnapshot, RowRight, PathOf

\* Storing a diff keeps the others and stores the one.
LEMMA InsertDiffKeeps ==
  ASSUME HistoryIInv, pc = "diffs", NEW c \in Range(list), NEW p \in EntryPaths(c),
         UNCHANGED <<whole, active>>, InsertDiff(DiffRow(c, p))
  PROVE  DiffsFaithful' /\ RowsAndSnapshot' /\ RowOf(c, p)'
<1> DEFINE r == DiffRow(c, p)
           st == Changes[c][p].status
<1>1. /\ c \in Commits /\ p \in DOMAIN Changes[c] /\ p # NoPath /\ st \in Statuses
      /\ r.commit = c /\ r.change_type = st
      /\ r.old = (IF st = "A" THEN NoPath ELSE p)
      /\ r.new = (IF st = "D" THEN NoPath ELSE p)
      /\ r.lines = NumOf(c, p) /\ KeptPatch(c, p, r.patch)
  BY DiffRowIs, ChangeFacts
<1>2. diffRows' = IF \E d \in diffRows : SameKey(d, r) THEN diffRows ELSE diffRows \cup {r}
  BY DEF InsertDiff
<1>3. /\ \A d \in diffRows : RowRight(d)
      /\ \A d, e \in diffRows : e.commit = d.commit /\ {e.old, e.new} \cap {PathOf(d)} # {} => e = d
  BY FaithfulIs DEF HistoryIInv
<1> HIDE DEF r, st
<1>4. PathOf(r) = p
  BY <1>1 DEF PathOf, Statuses
<1>5. RowRight(r)
  BY <1>1, <1>4 DEF RowRight, NumOf, Statuses, st
<1>6. p \in {r.old, r.new}
  BY <1>1 DEF Statuses
<1>7. CASE \E d \in diffRows : SameKey(d, r)
  <2>1. diffRows' = diffRows
    BY <1>2, <1>7
  <2>2. RowOf(c, p)'
    BY <1>1, <1>6, <1>7, <2>1 DEF RowOf, SameKey
  <2> QED BY <2>1, <2>2 DEF HistoryIInv, DiffsFaithful, RowsAndSnapshot
<1>8. CASE ~\E d \in diffRows : SameKey(d, r)
  <2>1. diffRows' = diffRows \cup {r}
    BY <1>2, <1>8
  <2>2. RowOf(c, p)'
    BY <1>1, <1>6, <2>1 DEF RowOf
  <2>3. ASSUME NEW d \in diffRows, d.commit = c, p \in {d.old, d.new} PROVE FALSE
    <3>1. RowRight(d)
      BY <1>3
    <3>2. PathOf(d) = p /\ {d.old, d.new} \ {NoPath} = {p}
      BY <1>1, <2>3, <3>1 DEF RowRight
    <3>3. (d.old = NoPath) = (st = "A") /\ (d.new = NoPath) = (st = "D")
      BY <2>3, <3>1, <3>2 DEF RowRight, st
    <3>4. d.old \in {NoPath, p} /\ d.new \in {NoPath, p}
      BY <3>2
    <3>5. SameKey(d, r)
      BY <1>1, <2>3, <3>3, <3>4 DEF SameKey
    <3> QED BY <1>8, <3>5
  <2>4. ASSUME NEW d \in diffRows, NEW e \in {r}, e.commit = d.commit, {e.old, e.new} \cap {PathOf(d)} # {}
        PROVE  FALSE
    <3>1. PathOf(d) \in {r.old, r.new} /\ d.commit = c
      BY <1>1, <2>4
    <3>2. PathOf(d) \in DOMAIN Changes[c]
      BY <1>3, <3>1 DEF RowRight
    <3>3. PathOf(d) # NoPath
      BY <1>1, <3>2, ChangeFacts
    <3>4. PathOf(d) = p
      BY <1>1, <3>1, <3>3
    <3>5. p \in {d.old, d.new}
      BY <3>4 DEF PathOf
    <3> QED BY <2>3, <3>1, <3>5
  <2>5. ASSUME NEW d \in diffRows', NEW e \in diffRows', e.commit = d.commit,
               {e.old, e.new} \cap {PathOf(d)} # {}
        PROVE  e = d
    <3>1. CASE d \in diffRows /\ e \in diffRows
      BY <1>3, <2>5, <3>1
    <3>2. CASE d \in diffRows /\ e = r
      BY <2>4, <2>5, <3>2
    <3>3. CASE d = r /\ e \in diffRows
      <4>1. p \in {e.old, e.new} /\ e.commit = c
        BY <1>1, <1>4, <2>5, <3>3
      <4> QED BY <2>3, <3>3, <4>1
    <3> QED BY <2>1, <3>1, <3>2, <3>3
  <2>6. \A d \in diffRows' : RowRight(d)
    BY <1>3, <1>5, <2>1
  <2>7. DiffsFaithful'
    BY <2>5, <2>6 DEF DiffsFaithful, RowRight, PathOf
  <2>8. RowsAndSnapshot'
    <3>1. \A d \in diffRows' : {d.old, d.new} \ {NoPath} = {IF d.new = NoPath THEN d.old ELSE d.new}
      BY <2>6 DEF RowRight, PathOf
    <3> QED BY <3>1 DEF HistoryIInv, RowsAndSnapshot
  <2> QED BY <2>2, <2>7, <2>8
<1> QED BY <1>7, <1>8

\* The diff of one file of a commit is stored.
LEMMA InsertCommitFileDiffKeeps ==
  ASSUME HistoryIInv, NEW p \in Paths, InsertCommitFileDiff(p)
  PROVE  HistoryIInv'
<1>0. PICK h : h = Head(rest)
  OBVIOUS
<1> DEFINE r == DiffRow(h, p)
<1>1. /\ UNCHANGED <<commits, parentRows, links, active, whole, req, requests, pc, base, head, list,
                     diffMap, rest, ok, jobs>>
      /\ pc = "diffs" /\ p \in left /\ left' = left \ {p} /\ InsertDiff(r)
  BY <1>0 DEF InsertCommitFileDiff, snapVars, planVars, reqVars
<1>2. /\ rest \in Seq(Commits) /\ Range(rest) \subseteq Range(list) /\ Range(list) \subseteq commits
      /\ rest # <<>>
  BY <1>1 DEF HistoryIInv, CommitsSoFar
<1>3. h \in Range(list) /\ p \in EntryPaths(h) /\ h \in commits
  <2>1. h \in Range(rest)
    BY <1>0, <1>2, RangeIs
  <2>2. left \subseteq EntryPaths(h)
    BY <1>0, <1>1, <1>2 DEF HistoryIInv, DiffsSoFar
  <2> QED BY <1>1, <1>2, <2>1, <2>2
<1>4. DiffsFaithful' /\ RowsAndSnapshot' /\ RowOf(h, p)'
  BY <1>1, <1>3, InsertDiffKeeps
<1>5. r.commit = h /\ r.parent = FirstParent(h) /\ h \in Commits
  BY <1>1, <1>3, DiffRowIs
<1>6. FirstParent(h) \in commits \cup {NoCommit}
  BY <1>2 DEF FirstParent, Known, GetCommitByHash
<1> HIDE DEF r
<1>7. diffRows \subseteq diffRows' /\ diffRows' \subseteq diffRows \cup {r}
  BY <1>1 DEF InsertDiff
<1>8. TypeOK'
  <2>1. \A d \in diffRows' : d.commit \in commits /\ d.parent \in commits \cup {NoCommit}
    BY <1>3, <1>5, <1>6, <1>7 DEF HistoryIInv, TypeOK
  <2> QED BY <1>1, <2>1 DEF HistoryIInv, TypeOK
<1>9. JobPlan'
  BY <1>1 DEF HistoryIInv, JobPlan
<1>10. CommitsSoFar'
  BY <1>1, <1>2 DEF HistoryIInv, CommitsSoFar
<1>11. DiffsSoFar'
  <2>1. \A c : Stored(c)' = Stored(c) /\ EntryPaths(c)' = EntryPaths(c) /\ Current(c)' = Current(c)
    BY <1>1 DEF Stored, EntryPaths, Ordinals, Current
  <2>2. Later' = Later
    BY <1>1 DEF Later
  <2>3. \A c, q : RowOf(c, q) => RowOf(c, q)'
    BY <1>7 DEF RowOf
  <2>4. ASSUME NEW c \in Range(list), NEW q \in EntryPaths(c), c \notin Later, ~RowOf(c, q)'
        PROVE  Current(c) /\ q \in left'
    <3>1. Current(c) /\ q \in left
      BY <1>1, <2>3, <2>4 DEF HistoryIInv, DiffsSoFar
    <3>2. c = h
      BY <1>0, <3>1 DEF Current
    <3>3. q # p
      BY <1>4, <2>4, <3>2
    <3> QED BY <1>1, <3>1, <3>3
  <2>5. (rest # <<>> => left \subseteq EntryPaths(Head(rest)))'
    BY <1>1 DEF HistoryIInv, DiffsSoFar, EntryPaths
  <2>6. \A c \in Range(list) : Stored(c)
    BY <1>1 DEF HistoryIInv, DiffsSoFar
  <2> QED BY <1>1, <2>1, <2>2, <2>4, <2>5, <2>6 DEF DiffsSoFar
<1>12. ParentsSoFar' /\ IndexedWhole'
  BY <1>1 DEF ParentsSoFar, IndexedWhole
<1>13. SnapshotLinked'
  BY <1>1 DEF HistoryIInv, SnapshotLinked
<1>14. HistoryUnbroken'
  BY <1>1, <1>7, UnbrokenGrows DEF HistoryIInv
<1> QED BY <1>4, <1>8, <1>9, <1>10, <1>11, <1>12, <1>13, <1>14 DEF HistoryIInv

\* A failure of the database ends the indexing, and what is stored stays.
LEMMA IndexingFailsKeeps ==
  ASSUME HistoryIInv, IndexingFails
  PROVE  HistoryIInv'
<1>1. /\ UNCHANGED <<commits, parentRows, diffRows, links, active, whole, req, requests, base, head, list,
                     diffMap, jobs>>
      /\ pc \in {"commits", "parents", "diffs"} /\ pc' = "build" /\ ok' = FALSE
  BY DEF IndexingFails, rowVars, snapVars, planVars, reqVars
<1>2. TypeOK' /\ RowsAndSnapshot' /\ SnapshotLinked' /\ DiffsFaithful' /\ HistoryUnbroken'
  <2>1. ok' \in BOOLEAN /\ jobs' \in 0..MaxJobs
    BY <1>1 DEF HistoryIInv, TypeOK
  <2> QED BY <1>1, <2>1, SameStore
<1>3. JobPlan'
  BY <1>1 DEF HistoryIInv, JobPlan
<1>4. CommitsSoFar' /\ ParentsSoFar' /\ DiffsSoFar' /\ IndexedWhole'
  BY <1>1 DEF CommitsSoFar, ParentsSoFar, DiffsSoFar, IndexedWhole
<1> QED BY <1>2, <1>3, <1>4 DEF HistoryIInv

\* The job returns.
LEMMA ReturnKeeps ==
  ASSUME HistoryIInv, Return, UNCHANGED <<commits, parentRows, diffRows, active, whole, req, requests>>,
         \A c \in Commits : links'[c] \in {c, NoCommit} \cap (commits \cup {NoCommit}),
         links' \in [Commits -> Commits \cup {NoCommit}]
  PROVE  HistoryIInv'
<1>1. pc' = "idle" /\ base' = NoCommit /\ ok' = FALSE /\ jobs' = jobs
  BY DEF Return
<1>2. TypeOK' /\ SnapshotLinked'
  BY <1>1 DEF HistoryIInv, TypeOK, SnapshotLinked
<1>3. RowsAndSnapshot' /\ DiffsFaithful' /\ HistoryUnbroken'
  <2>1. HistoryUnbroken'
    BY UnbrokenGrows DEF HistoryIInv
  <2> QED BY <2>1 DEF HistoryIInv, RowsAndSnapshot, DiffsFaithful
<1>4. JobPlan' /\ CommitsSoFar' /\ ParentsSoFar' /\ DiffsSoFar' /\ IndexedWhole'
  BY <1>1 DEF JobPlan, CommitsSoFar, ParentsSoFar, DiffsSoFar, IndexedWhole
<1> QED BY <1>2, <1>3, <1>4 DEF HistoryIInv

\* A build that fails, or whose link fails, leaves the snapshot as it was.
LEMMA StoppedKeeps ==
  ASSUME HistoryIInv, BuildFails \/ LinkFails
  PROVE  HistoryIInv'
<1>1. Return /\ UNCHANGED <<commits, parentRows, diffRows, active, whole, req, requests, links>>
  BY DEF BuildFails, LinkFails, rowVars, snapVars, reqVars
<1>2. /\ links' \in [Commits -> Commits \cup {NoCommit}]
      /\ \A c \in Commits : links'[c] \in {c, NoCommit} \cap (commits \cup {NoCommit})
  BY <1>1 DEF HistoryIInv, TypeOK, SnapshotLinked
<1> QED BY <1>1, <1>2, ReturnKeeps

\* The snapshot is linked to the row of its commit.
LEMMA LinkKeeps ==
  ASSUME HistoryIInv, Link
  PROVE  HistoryIInv'
<1>1. /\ Return /\ UNCHANGED <<commits, parentRows, diffRows, active, whole, req, requests>>
      /\ pc = "link"
      /\ links' = IF LinkTarget = NoCommit THEN links ELSE [links EXCEPT ![head] = LinkTarget]
  BY DEF Link, rowVars, reqVars, UpdateSnapshotCommitID
<1>2. head \in Commits /\ (list # <<>> => Head(list) = head /\ Head(list) \in Range(list))
  BY <1>1, PlanFacts DEF HistoryIInv
<1>3. LinkTarget # NoCommit => LinkTarget = head /\ head \in commits
  <2>1. HeadCommitDBID # NoCommit => HeadCommitDBID = head /\ head \in commits
    <3> SUFFICES ASSUME HeadCommitDBID # NoCommit PROVE HeadCommitDBID = head /\ head \in commits
      OBVIOUS
    <3>1. ok /\ list # <<>> /\ HeadCommitDBID = Head(list)
      BY DEF HeadCommitDBID
    <3>2. Stored(Head(list))
      BY <1>1, <1>2, <3>1 DEF HistoryIInv, IndexedWhole
    <3> QED BY <1>2, <3>1, <3>2 DEF Stored
  <2> QED BY <2>1 DEF LinkTarget, GetCommitByHash
<1>4. /\ links \in [Commits -> Commits \cup {NoCommit}]
      /\ \A c \in Commits : links[c] \in {c, NoCommit} \cap (commits \cup {NoCommit})
  BY DEF HistoryIInv, TypeOK, SnapshotLinked
<1>5. /\ links' \in [Commits -> Commits \cup {NoCommit}]
      /\ \A c \in Commits : links'[c] \in {c, NoCommit} \cap (commits \cup {NoCommit})
  <2>1. CASE LinkTarget = NoCommit
    BY <1>1, <1>4, <2>1
  <2>2. CASE LinkTarget # NoCommit
    BY <1>1, <1>2, <1>3, <1>4, <2>2
  <2> QED BY <2>1, <2>2
<1> QED BY <1>1, <1>5, ReturnKeeps

\* The snapshot becomes the active one.
LEMMA ActivateKeeps ==
  ASSUME HistoryIInv, Activate
  PROVE  HistoryIInv'
<1>1. /\ UNCHANGED <<commits, parentRows, diffRows, links, req, requests, base, head, list, diffMap, ok, jobs>>
      /\ pc = "build" /\ pc' = "link" /\ active' = head
      /\ whole' = /\ ok
                  /\ IF base = NoCommit THEN Len(Mainline[head]) <= MaxCommits
                     ELSE /\ whole
                          /\ Range(Mainline[head]) \cap Ancestors[base] \subseteq Range(Mainline[base])
  BY DEF Activate, rowVars, planVars, workVars, reqVars
<1>2. /\ head \in Commits /\ Range(list) \subseteq Commits
      /\ base = NoCommit /\ Len(Mainline[head]) <= MaxCommits => list = Mainline[head]
      /\ base # NoCommit => base \in Commits /\ Range(list) = Ancestors[head] \ Ancestors[base]
  BY <1>1, PlanFacts DEF HistoryIInv
<1>3. base \in {NoCommit, active}
  BY <1>1 DEF HistoryIInv, JobPlan
<1>4. whole' \in BOOLEAN
  <2>1. ok \in BOOLEAN /\ whole \in BOOLEAN
    BY DEF HistoryIInv, TypeOK
  <2> QED BY <1>1, <2>1
<1>5. TypeOK'
  BY <1>1, <1>2, <1>4 DEF HistoryIInv, TypeOK
<1>6. JobPlan' /\ CommitsSoFar' /\ ParentsSoFar' /\ DiffsSoFar'
  BY <1>1 DEF HistoryIInv, JobPlan, CommitsSoFar, ParentsSoFar, DiffsSoFar
<1>7. RowsAndSnapshot' /\ SnapshotLinked' /\ DiffsFaithful'
  BY <1>1, <1>2 DEF HistoryIInv, RowsAndSnapshot, SnapshotLinked, DiffsFaithful
<1>8. IndexedWhole'
  BY <1>1 DEF HistoryIInv, IndexedWhole, Stored, DiffsStored, Shown, Ordinals
<1>9. HistoryUnbroken'
  <2> SUFFICES ASSUME whole', NEW c \in Range(Mainline[head])
               PROVE  /\ c \in commits
                      /\ Parents[c] # <<>> => <<c, 1, Parents[c][1]>> \in parentRows
                      /\ Len(Parents[c]) < 2 => DiffsStored(c, DOMAIN Changes[c])
    BY <1>1, ZenonT(40) DEF HistoryUnbroken, DiffsStored
  <2>1. ok
    BY <1>1
  <2>2. \A d \in Range(list) : Stored(d) /\ DiffsStored(d, Shown(d, base))
    BY <1>1, <2>1 DEF HistoryIInv, IndexedWhole
  <2>3. MainlineOf(head)
    BY <1>2, MainlineFacts
  <2>4. Parents[c] # <<>> => Parents[c][1] \in Range(Mainline[head])
    BY <2>3 DEF MainlineOf
  <2>5. c \in Ancestors[head] /\ c \in Commits
    BY <1>2, <2>3, AncestorsFacts DEF MainlineOf
  <2>6. ASSUME c \in Range(list), Parents[c] # <<>> => Parents[c][1] \in commits,
               Len(Parents[c]) < 2 => Shown(c, base) = DOMAIN Changes[c]
        PROVE  /\ c \in commits
               /\ Parents[c] # <<>> => <<c, 1, Parents[c][1]>> \in parentRows
               /\ Len(Parents[c]) < 2 => DiffsStored(c, DOMAIN Changes[c])
    <3>1. Stored(c) /\ DiffsStored(c, Shown(c, base))
      BY <2>2, <2>6
    <3>2. Parents[c] # <<>> => 1 \in Ordinals(c)
      BY <2>5, ParentsIs DEF Ordinals
    <3>3. c \in commits /\ (Parents[c] # <<>> => <<c, 1, Parents[c][1]>> \in parentRows)
      BY <2>6, <3>1, <3>2 DEF Stored
    <3> QED BY <2>6, <3>1, <3>3
  <2>7. Len(Parents[c]) < 2 => Shown(c, base) = DOMAIN Changes[c]
    <3>1. Len(Parents[c]) \in Nat
      BY <2>5, ParentsIs
    <3> QED BY <3>1 DEF Shown
  <2>8. CASE base = NoCommit
    <3>1. list = Mainline[head]
      BY <1>1, <1>2, <2>8
    <3>2. Parents[c] # <<>> => Parents[c][1] \in commits
      BY <2>2, <2>4, <3>1 DEF Stored
    <3> QED BY <2>6, <2>7, <3>1, <3>2
  <2>9. CASE base # NoCommit
    <3>1. /\ whole /\ base = active /\ Range(list) = Ancestors[head] \ Ancestors[base]
          /\ Range(Mainline[head]) \cap Ancestors[base] \subseteq Range(Mainline[base])
      BY <1>1, <1>2, <1>3, <2>9
    <3>2. \A d \in Range(Mainline[base]) :
            /\ d \in commits
            /\ Parents[d] # <<>> => <<d, 1, Parents[d][1]>> \in parentRows
            /\ Len(Parents[d]) < 2 => DiffsStored(d, DOMAIN Changes[d])
      BY <3>1 DEF HistoryIInv, HistoryUnbroken
    <3>3. ASSUME NEW d \in Range(Mainline[head]) PROVE d \in commits
      <4>1. CASE d \in Ancestors[base]
        BY <3>1, <3>2, <4>1
      <4>2. CASE d \notin Ancestors[base]
        BY <2>2, <2>3, <3>1, <4>2 DEF MainlineOf, Stored
      <4> QED BY <4>1, <4>2
    <3>4. CASE c \in Ancestors[base]
      BY <3>1, <3>2, <3>4
    <3>5. CASE c \notin Ancestors[base]
      BY <2>4, <2>5, <2>6, <2>7, <3>1, <3>3, <3>5
    <3> QED BY <3>4, <3>5
  <2> QED BY <2>8, <2>9
<1> QED BY <1>5, <1>6, <1>7, <1>8, <1>9 DEF HistoryIInv

RequestAts == {"idle", "commit", "page", "diff", "count", "stats", "parents", "done"}

\* The browser writes nothing.
LEMMA BrowserIs ==
  ASSUME Browser, TypeOK, PageProgress
  PROVE  /\ UNCHANGED <<commits, parentRows, diffRows, links, active, whole, pc, base, head, list,
                        diffMap, rest, left, ok, jobs>>
         /\ req'.at \in RequestAts /\ requests' \in 0..MaxRequests
<1>0. DOMAIN req = ReqFields /\ requests \in 0..MaxRequests /\ MaxRequests \in Nat
  BY NoRequestFields, HistoryBoundsAssumption DEF PageProgress, TypeOK
<1>1. ASSUME NEW q, DOMAIN q = DOMAIN NoRequest, Receive(q)
      PROVE  /\ UNCHANGED <<commits, parentRows, diffRows, links, active, whole, pc, base, head, list,
                            diffMap, rest, left, ok, jobs>>
             /\ req'.at \in RequestAts /\ requests' \in 0..MaxRequests
  <2>1. requests' \in 0..MaxRequests
    BY <1>0, <1>1 DEF Receive
  <2>2. req'.at \in RequestAts
    <3>1. Done(q).at = "done"
      BY DEF Done, NoRequest
    <3>2. "at" \in DOMAIN q
      BY <1>1, NoRequestFields DEF ReqFields
    <3> QED BY <1>1, <3>1, <3>2 DEF Receive, RequestAts
  <2> QED BY <1>1, <2>1, <2>2 DEF Receive, rowVars, snapVars, planVars, workVars
<1>2. ASSUME NEW q, q.at \in RequestAts, Respond(q)
      PROVE  /\ UNCHANGED <<commits, parentRows, diffRows, links, active, whole, pc, base, head, list,
                            diffMap, rest, left, ok, jobs>>
             /\ req'.at \in RequestAts /\ requests' \in 0..MaxRequests
  BY <1>0, <1>2 DEF Respond, rowVars, snapVars, planVars, workVars
<1>3. Limits \subseteq Nat /\ Offsets \subseteq Nat
  BY HistoryBoundsAssumption
<1>4. \A op, of, path, F : \A a \in Nat, o \in Nat : DOMAIN Page(op, of, path, F, a, o) = DOMAIN NoRequest
  BY PageIs
<1>5. CASE HandleList \/ HandleGet \/ HandleDiffs \/ HandleFileHistory
  <2>1. \E q : DOMAIN q = DOMAIN NoRequest /\ Receive(q)
    <3>1. CASE HandleList
      <4>1. PICK F \in Filters, a \in Limits, o \in Offsets : Receive(Page("list", NoCommit, NoPath, F, a, o))
        BY <3>1, Zenon DEF HandleList
      <4> QED BY <1>3, <1>4, <4>1
    <3>2. CASE HandleGet
      <4>1. PICK c \in Commits : Receive(Page("get", c, NoPath, {}, 0, 0))
        BY <3>2, Zenon DEF HandleGet
      <4> QED BY <1>4, <4>1
    <3>3. CASE HandleDiffs
      <4>1. PICK c \in Commits :
              \/ \E a \in Limits, o \in Offsets : Receive(Page("diffs", c, NoPath, {}, a, o))
              \/ \E p \in Paths : Receive(Page("diff", c, p, {}, 0, 0))
        BY <3>3, Zenon DEF HandleDiffs
      <4>2. ASSUME NEW a \in Limits, NEW o \in Offsets, Receive(Page("diffs", c, NoPath, {}, a, o))
            PROVE  \E q : DOMAIN q = DOMAIN NoRequest /\ Receive(q)
        BY <1>3, <1>4, <4>2
      <4>3. ASSUME NEW p \in Paths, Receive(Page("diff", c, p, {}, 0, 0))
            PROVE  \E q : DOMAIN q = DOMAIN NoRequest /\ Receive(q)
        BY <1>4, <4>3
      <4> QED BY <4>1, <4>2, <4>3
    <3>4. CASE HandleFileHistory
      <4>1. PICK p \in Paths, a \in Limits, o \in Offsets : Receive(Page("history", NoCommit, p, {}, a, o))
        BY <3>4, Zenon DEF HandleFileHistory
      <4> QED BY <1>3, <1>4, <4>1
    <3> QED BY <1>5, <3>1, <3>2, <3>3, <3>4
  <2> QED BY <1>1, <2>1
<1>6. CASE GetCommit \/ ReadPage \/ ReadDiff \/ ReadCount \/ ReadStats \/ ReadParents
  <2>0. \A q : Done(q).at = "done"
    BY DEF Done, NoRequest
  <2>1. \A a : [req EXCEPT !.at = a].at = a
    BY <1>0 DEF ReqFields
  <2>2. \A a, n : [req EXCEPT !.at = a, !.items = n].at = a
    BY <1>0 DEF ReqFields
  <2>a. \A a \in RequestAts : \A n : [req EXCEPT !.at = a, !.items = n].at \in RequestAts
    BY <2>2
  <2>b. \A a \in RequestAts : [req EXCEPT !.at = a].at \in RequestAts
    BY <2>1
  <2>c. \A q : Done(q).at \in RequestAts
    BY <2>0 DEF RequestAts
  <2>3. \E q : q.at \in RequestAts /\ Respond(q)
    <3>1. CASE GetCommit
      <4>1. PICK q : Respond(q) /\ (q = Done(req) \/ \E x \in RequestAts : q = [req EXCEPT !.at = x])
        BY <3>1 DEF GetCommit, RequestAts
      <4> QED BY <2>b, <2>c, <4>1, Zenon
    <3>2. CASE ReadPage
      <4>1. PICK q : Respond(q) /\ q = [req EXCEPT !.at = "count", !.items = PageSize(req, Listed(req))]
        BY <3>2, Zenon DEF ReadPage
      <4>2. "count" \in RequestAts
        BY DEF RequestAts
      <4> QED BY <2>a, <4>1, <4>2, Zenon
    <3>3. CASE ReadDiff
      <4>1. PICK q : Respond(q) /\ (q = Done(req) \/ q = [req EXCEPT !.at = "count", !.items = 1])
        BY <3>3, Zenon DEF ReadDiff
      <4>2. "count" \in RequestAts
        BY DEF RequestAts
      <4> QED BY <2>a, <2>c, <4>1, <4>2, Zenon
    <3>4. CASE ReadCount \/ ReadParents
      BY <2>c, <3>4, Zenon DEF ReadCount, ReadParents
    <3>5. CASE ReadStats
      <4>1. PICK q : Respond(q) /\ q = [req EXCEPT !.at = "parents", !.items = GetCommitDiffStats(req.of)]
        BY <3>5, Zenon DEF ReadStats
      <4>2. "parents" \in RequestAts
        BY DEF RequestAts
      <4> QED BY <2>a, <4>1, <4>2, Zenon
    <3> QED BY <1>6, <3>1, <3>2, <3>3, <3>4, <3>5
  <2> QED BY <1>2, <2>3
<1> QED BY <1>5, <1>6 DEF Browser

\* A step of the browser keeps the invariant.
LEMMA HistorySame ==
  ASSUME HistoryIInv,
         UNCHANGED <<commits, parentRows, diffRows, links, active, whole, pc, base, head, list,
                     diffMap, rest, left, ok, jobs>>,
         req'.at \in RequestAts, requests' \in 0..MaxRequests
  PROVE  HistoryIInv'
<1>1. TypeOK'
  BY DEF HistoryIInv, TypeOK, RequestAts
<1>2. JobPlan' /\ CommitsSoFar' /\ RowsAndSnapshot'
  BY DEF HistoryIInv, JobPlan, CommitsSoFar, RowsAndSnapshot
<1>3. ParentsSoFar'
  BY DEF HistoryIInv, ParentsSoFar, Later, Current, Ordinals
<1>4. DiffsSoFar'
  BY DEF HistoryIInv, DiffsSoFar, Later, Current, Stored, EntryPaths, RowOf, Ordinals
<1>5. IndexedWhole'
  BY DEF HistoryIInv, IndexedWhole, Stored, DiffsStored, Shown, Ordinals
<1>6. SnapshotLinked' /\ DiffsFaithful'
  BY DEF HistoryIInv, SnapshotLinked, DiffsFaithful
<1>7. HistoryUnbroken'
  BY UnbrokenGrows DEF HistoryIInv
<1> QED BY <1>1, <1>2, <1>3, <1>4, <1>5, <1>6, <1>7 DEF HistoryIInv

\* Every step keeps the invariant,
LEMMA HistoryNext ==
  ASSUME HistoryIInv, PageProgress, [Next]_vars
  PROVE  HistoryIInv'
<1>1. CASE Job
  <2>1. CASE \E w \in Workflows, h \in Heads, b \in Heads \cup {NoCommit} : Begin(w, h, b)
    BY <2>1, BeginKeeps
  <2>2. CASE InsertCommit
    BY <2>2, InsertCommitKeeps
  <2>3. CASE StartParents
    BY <2>3, StartParentsKeeps
  <2>4. CASE NextParents
    BY <2>4, NextParentsKeeps
  <2>5. CASE InsertCommitParent
    BY <2>5, InsertCommitParentKeeps
  <2>6. CASE NextDiffs
    BY <2>6, NextDiffsKeeps
  <2>7. CASE \E p \in Paths : InsertCommitFileDiff(p)
    BY <2>7, InsertCommitFileDiffKeeps
  <2>8. CASE IndexingFails
    BY <2>8, IndexingFailsKeeps
  <2>9. CASE Activate
    BY <2>9, ActivateKeeps
  <2>10. CASE BuildFails \/ LinkFails
    BY <2>10, StoppedKeeps
  <2>11. CASE Link
    BY <2>11, LinkKeeps
  <2> QED BY <1>1, <2>1, <2>2, <2>3, <2>4, <2>5, <2>6, <2>7, <2>8, <2>9, <2>10, <2>11 DEF Job
<1>2. CASE Browser
  <2>1. TypeOK
    BY DEF HistoryIInv
  <2> QED BY <1>2, <2>1, BrowserIs, HistorySame
<1>3. CASE UNCHANGED vars
  <2>1. /\ UNCHANGED <<commits, parentRows, diffRows, links, active, whole, pc, base, head, list,
                       diffMap, rest, left, ok, jobs>>
        /\ UNCHANGED <<req, requests>>
    BY <1>3 DEF vars, rowVars, snapVars, planVars, workVars, reqVars
  <2>2. req'.at \in RequestAts /\ requests' \in 0..MaxRequests
    BY <2>1 DEF HistoryIInv, TypeOK, RequestAts
  <2> QED BY <2>1, <2>2, HistorySame
<1> QED BY <1>1, <1>2, <1>3 DEF Next

\* which therefore always holds.
LEMMA HistoryIndexed == Spec => [](PageProgress /\ HistoryIInv)
<1>1. PageProgress /\ PageCounts /\ HistoryIInv /\ [Next]_vars => (PageProgress /\ PageCounts /\ HistoryIInv)'
  BY PagesNext, HistoryNext
<1> QED BY <1>1, PageInit, HistoryInit, PTL DEF Spec

\* The rows refer to rows, a job that reports success has stored every commit that
\* git log listed with its parents and its diffs (Indexer.IndexAll and IndexSince),
\* and a snapshot is linked to its own commit.
THEOREM HistoryIsStored == Spec => []HistoryInv
<1>1. HistoryIInv => HistoryInv
  BY DEF HistoryIInv, HistoryInv
<1> QED BY <1>1, HistoryIndexed, PTL

\* A file of a commit has one row, with the status, the numbers and the patch of its
\* own change: what DiffStatLog merges from three outputs of git, stored by any
\* number of jobs.
THEOREM DiffsAreFaithful == Spec => []DiffsFaithful
<1>1. HistoryIInv => DiffsFaithful
  BY DEF HistoryIInv
<1> QED BY <1>1, HistoryIndexed, PTL

\* If indexing succeeded ever since a job that reached the root, and no merge moved
\* the mainline, the history of the active commit is stored without a gap.
THEOREM MainlineIsUnbroken == Spec => []HistoryUnbroken
<1>1. HistoryIInv => HistoryUnbroken
  BY DEF HistoryIInv
<1> QED BY <1>1, HistoryIndexed, PTL

-----------------------------------------------------------------------------
(* ImportTargets: the lookup maps are those of the best matches.           *)

PathCount == Len(SortedPaths)

\* The path at position i is a match of a rank for a name, in a tree.
Answers(tree, rank, i, name) ==
  SortedPaths[i].path \in tree /\ Candidate(rank, SortedPaths[i], name, "go")

\* Of the first n paths, no one answers with a rank of R; position i answers with
\* rank r and comes before the others that do.
NoAnswer(tree, n, R, name) == \A r \in R, i \in 1..n : ~Answers(tree, r, i, name)
BestAnswer(tree, n, R, name, r, i) ==
  /\ r \in R /\ i \in 1..n /\ Answers(tree, r, i, name)
  /\ \A s \in R, j \in 1..n : Answers(tree, s, j, name) => r < s \/ (r = s /\ i <= j)

\* What a lookup map has for a name after the first n paths.
KeyIs(map, tree, n, R, name) ==
  /\ name \notin DOMAIN map => NoAnswer(tree, n, R, name)
  /\ name \in DOMAIN map => \E r \in R, i \in 1..n :
        map[name] = SortedPaths[i] /\ BestAnswer(tree, n, R, name, r, i)

StemRanks == {2, 3, 4}
IndexRanks == {5, 6}
GoRanks == {7}

LookupIs(maps, tree, n) ==
  \A name : /\ KeyIs(maps.stemMap, tree, n, StemRanks, name)
            /\ KeyIs(maps.dirIndex, tree, n, IndexRanks, name)
            /\ KeyIs(maps.goDir, tree, n, GoRanks, name)

\* What the strings of paths give, of one path and of two.
LEMMA PathFacts ==
  /\ PathCount \in Nat /\ DOMAIN SortedPaths = 1..PathCount
  /\ \A i \in 1..PathCount : SortedPaths[i].path # ""
  /\ \A i \in 1..PathCount : SortedPaths[i].dts =>
       SortedPaths[i].stem # SortedPaths[i].path /\ SortedPaths[i].bareStem # SortedPaths[i].stem
  /\ \A i, j \in 1..PathCount : i # j =>
       /\ SortedPaths[i].path # SortedPaths[j].path
       /\ SortedPaths[i].dts /\ SortedPaths[j].dts =>
            /\ SortedPaths[i].stem # SortedPaths[j].stem
            /\ SortedPaths[i].bareStem # SortedPaths[j].bareStem
            /\ SortedPaths[i].isIndex /\ SortedPaths[j].isIndex =>
                 SortedPaths[i].dir # SortedPaths[j].dir
<1>1. PathCount \in Nat /\ DOMAIN SortedPaths = 1..PathCount
  <2>1. PICK T : SortedPaths \in Seq(T)
    BY PathsAssumption, Zenon
  <2> QED BY <2>1 DEF PathCount
<1> QED BY <1>1, PathsAssumption, Zenon DEF PathCount

\* A path that answers to no name of a rank of R changes nothing for the name.
LEMMA KeyKept ==
  ASSUME NEW map, NEW new, NEW tree, NEW n \in Nat, NEW R, NEW name,
         KeyIs(map, tree, n, R, name),
         name \in DOMAIN new <=> name \in DOMAIN map,
         name \in DOMAIN map => new[name] = map[name],
         \A r \in R : ~Answers(tree, r, n + 1, name)
  PROVE  KeyIs(new, tree, n + 1, R, name)
<1>1. \A j \in 1..(n + 1) : j \in 1..n \/ j = n + 1
  OBVIOUS
<1>2. 1..n \subseteq 1..(n + 1)
  OBVIOUS
<1>3. CASE name \notin DOMAIN map
  BY <1>1, <1>3 DEF KeyIs, NoAnswer
<1>4. CASE name \in DOMAIN map
  <2>1. PICK r \in R, i \in 1..n : map[name] = SortedPaths[i] /\ BestAnswer(tree, n, R, name, r, i)
    BY <1>4 DEF KeyIs
  <2>2. BestAnswer(tree, n + 1, R, name, r, i)
    BY <1>1, <1>2, <2>1 DEF BestAnswer
  <2> QED BY <1>2, <1>4, <2>1, <2>2 DEF KeyIs
<1> QED BY <1>3, <1>4

\* A path that answers with one rank, and before those registered, takes the name.
LEMMA KeyTaken ==
  ASSUME NEW map, NEW new, NEW tree, NEW n \in Nat, NEW R, R \subseteq Nat, NEW name, NEW r \in R,
         KeyIs(map, tree, n, R, name),
         name \in DOMAIN new, new[name] = SortedPaths[n + 1],
         Answers(tree, r, n + 1, name),
         \A s \in R : Answers(tree, s, n + 1, name) => s = r,
         \A s \in R, j \in 1..n : name \in DOMAIN map /\ Answers(tree, s, j, name) => r < s
  PROVE  KeyIs(new, tree, n + 1, R, name)
<1>1. \A j \in 1..(n + 1) : j \in 1..n \/ j = n + 1
  OBVIOUS
<1>2. n + 1 \in 1..(n + 1)
  OBVIOUS
<1>3. ASSUME NEW s \in R, NEW j \in 1..(n + 1), Answers(tree, s, j, name)
      PROVE  r < s \/ (r = s /\ n + 1 <= j)
  <2>1. CASE j = n + 1
    BY <1>3, <2>1
  <2>2. CASE j \in 1..n
    BY <1>3, <2>2 DEF KeyIs, NoAnswer
  <2> QED BY <1>1, <2>1, <2>2
<1>4. BestAnswer(tree, n + 1, R, name, r, n + 1)
  BY <1>2, <1>3 DEF BestAnswer
<1> QED BY <1>2, <1>4 DEF KeyIs

\* A path that answers after the one registered does not.
LEMMA KeyStays ==
  ASSUME NEW map, NEW new, NEW tree, NEW n \in Nat, NEW R, R \subseteq Nat, NEW name,
         KeyIs(map, tree, n, R, name),
         name \in DOMAIN map, name \in DOMAIN new, new[name] = map[name],
         \A r \in R, i \in 1..n : map[name] = SortedPaths[i] /\ Answers(tree, r, i, name) =>
            \A s \in R : Answers(tree, s, n + 1, name) => r <= s
  PROVE  KeyIs(new, tree, n + 1, R, name)
<1>1. \A j \in 1..(n + 1) : j \in 1..n \/ j = n + 1
  OBVIOUS
<1>2. 1..n \subseteq 1..(n + 1)
  OBVIOUS
<1>3. PICK r \in R, i \in 1..n : map[name] = SortedPaths[i] /\ BestAnswer(tree, n, R, name, r, i)
  BY DEF KeyIs
<1>4. Answers(tree, r, i, name)
  BY <1>3 DEF BestAnswer
<1>5. ASSUME NEW s \in R, NEW j \in 1..(n + 1), Answers(tree, s, j, name)
      PROVE  r < s \/ (r = s /\ i <= j)
  <2>1. CASE j = n + 1
    <3>1. r <= s
      BY <1>3, <1>4, <1>5, <2>1
    <3> QED BY <2>1, <3>1
  <2>2. CASE j \in 1..n
    BY <1>3, <1>5, <2>2 DEF BestAnswer
  <2> QED BY <1>1, <2>1, <2>2
<1>6. BestAnswer(tree, n + 1, R, name, r, i)
  BY <1>2, <1>3, <1>4, <1>5 DEF BestAnswer
<1> QED BY <1>2, <1>3, <1>6 DEF KeyIs

\* The ranks of a path of the tree.
LEMMA AnswersIs ==
  ASSUME NEW tree, NEW i, NEW name, SortedPaths[i].path \in tree
  PROVE  /\ Answers(tree, 2, i, name) <=> /\ ~SortedPaths[i].dts /\ SortedPaths[i].stem = name
                                          /\ SortedPaths[i].stem # SortedPaths[i].path
         /\ Answers(tree, 3, i, name) <=> SortedPaths[i].dts /\ SortedPaths[i].stem = name
         /\ Answers(tree, 4, i, name) <=> SortedPaths[i].dts /\ SortedPaths[i].bareStem = name
         /\ Answers(tree, 5, i, name) <=> SortedPaths[i].isIndex /\ SortedPaths[i].dir = name /\ ~SortedPaths[i].dts
         /\ Answers(tree, 6, i, name) <=> SortedPaths[i].isIndex /\ SortedPaths[i].dir = name /\ SortedPaths[i].dts
         /\ Answers(tree, 7, i, name) <=> SortedPaths[i].go /\ SortedPaths[i].dir = name
BY DEF Answers, Candidate

\* Put changes the entry of its key only.
LEMMA PutIs ==
  ASSUME NEW map, NEW key, NEW value, NEW name
  PROVE  /\ name \in DOMAIN Put(map, key, value) <=> name = key \/ name \in DOMAIN map
         /\ name = key => Put(map, key, value)[name] = value
         /\ name # key /\ name \in DOMAIN map => Put(map, key, value)[name] = map[name]
BY DEF Put

\* The entry of a name is of position i, which answers with rank r.
EntryOf(map, tree, n, R, name, r, i) ==
  /\ map[name] = SortedPaths[i] /\ Answers(tree, r, i, name) /\ SortedPaths[i].path \in tree
  /\ \A s \in R, j \in 1..n : Answers(tree, s, j, name) => r <= s

\* The entry of a name is of a path that answers to it, and before the others.
LEMMA EntryAnswers ==
  ASSUME NEW map, NEW tree, NEW n \in Nat, NEW R, R \subseteq Nat, NEW name, KeyIs(map, tree, n, R, name),
         name \in DOMAIN map
  PROVE  \E r \in R, i \in 1..n : EntryOf(map, tree, n, R, name, r, i)
<1>1. PICK r \in R, i \in 1..n : map[name] = SortedPaths[i] /\ BestAnswer(tree, n, R, name, r, i)
  BY DEF KeyIs
<1>2. Answers(tree, r, i, name)
  BY <1>1, Zenon DEF BestAnswer
<1>3. SortedPaths[i].path \in tree
  BY <1>2, Zenon DEF Answers
<1>4. ASSUME NEW s \in R, NEW j \in 1..n, Answers(tree, s, j, name)
      PROVE  r <= s
  <2>1. r < s \/ (r = s /\ i <= j)
    BY <1>1, <1>4, Zenon DEF BestAnswer
  <2>2. r \in Nat /\ s \in Nat
    BY Zenon
  <2> QED BY <2>1, <2>2
<1> QED BY <1>1, <1>2, <1>3, <1>4, Zenon DEF EntryOf

\* dirIndex after one more path,
LEMMA DirIndexStep ==
  ASSUME NEW map, NEW tree, NEW n \in Nat, n + 1 \in 1..PathCount, NEW name,
         KeyIs(map, tree, n, IndexRanks, name),
         NEW p, p = SortedPaths[n + 1], p.path \in tree
  PROVE  KeyIs(IF p.isIndex /\ Replaceable(map, p.dir) THEN Put(map, p.dir, p) ELSE map,
               tree, n + 1, IndexRanks, name)
<1>0. IndexRanks \subseteq Nat
  BY DEF IndexRanks
<1>b. ASSUME name \in DOMAIN map
      PROVE  \E e \in IndexRanks, i \in 1..n : EntryOf(map, tree, n, IndexRanks, name, e, i)
  BY <1>0, <1>b, EntryAnswers
<1> DEFINE new == IF p.isIndex /\ Replaceable(map, p.dir) THEN Put(map, p.dir, p) ELSE map
<1>a. 1..n \subseteq 1..PathCount /\ n + 1 \notin 1..n
  <2>1. PathCount \in Nat
    BY PathFacts, Zenon
  <2> QED BY <2>1
<1>1. CASE p.isIndex /\ p.dir = name
  <2>1. CASE Replaceable(map, name)
    <3>1. name \in DOMAIN new /\ new[name] = p
      BY <1>1, <2>1, PutIs
    <3> DEFINE r == IF p.dts THEN 6 ELSE 5
    <3>2. r \in IndexRanks /\ Answers(tree, r, n + 1, name)
      BY <1>1, AnswersIs DEF IndexRanks
    <3>3. \A s \in IndexRanks : Answers(tree, s, n + 1, name) => s = r
      BY AnswersIs DEF IndexRanks
    <3>4. ASSUME NEW s \in IndexRanks, NEW j \in 1..n, name \in DOMAIN map, Answers(tree, s, j, name)
          PROVE  r < s
      <4>1. PICK e \in IndexRanks, i \in 1..n :
              /\ map[name] = SortedPaths[i] /\ Answers(tree, e, i, name) /\ SortedPaths[i].path \in tree
              /\ \A t \in IndexRanks, k \in 1..n : Answers(tree, t, k, name) => e <= t
        BY <1>b, <3>4 DEF EntryOf
      <4>2. SortedPaths[i].dts
        BY <2>1, <3>4, <4>1 DEF Replaceable
      <4>3. e = 6 /\ SortedPaths[i].isIndex /\ SortedPaths[i].dir = name
        BY <4>1, <4>2, AnswersIs DEF IndexRanks
      <4>4. ~p.dts
        BY <1>1, <1>a, <4>2, <4>3, PathFacts, Zenon
      <4>5. e <= s
        BY <3>4, <4>1
      <4> QED BY <4>3, <4>4, <4>5 DEF IndexRanks
    <3> HIDE DEF new, r
    <3> QED BY <1>0, <3>1, <3>2, <3>3, <3>4, KeyTaken DEF new
  <2>2. CASE ~Replaceable(map, name)
    <3>1. name \in DOMAIN map /\ new = map
      BY <1>1, <2>2 DEF Replaceable
    <3>2. ASSUME NEW r \in IndexRanks, NEW i \in 1..n, map[name] = SortedPaths[i], Answers(tree, r, i, name),
                 NEW s \in IndexRanks, Answers(tree, s, n + 1, name)
          PROVE  r <= s
      <4>1. ~SortedPaths[i].dts /\ SortedPaths[i].path \in tree
        BY <2>2, <3>2 DEF Replaceable, Answers
      <4>2. r = 5
        BY <3>2, <4>1, AnswersIs DEF IndexRanks
      <4> QED BY <4>2 DEF IndexRanks
    <3> HIDE DEF new
    <3> QED BY <1>0, <3>1, <3>2, KeyStays DEF new
  <2> QED BY <2>1, <2>2
<1>2. CASE ~(p.isIndex /\ p.dir = name)
  <2>1. \A r \in IndexRanks : ~Answers(tree, r, n + 1, name)
    BY <1>2, AnswersIs DEF IndexRanks
  <2>2. name \in DOMAIN new <=> name \in DOMAIN map
    BY <1>2, PutIs
  <2>3. name \in DOMAIN map => new[name] = map[name]
    BY <1>2, PutIs
  <2> HIDE DEF new
  <2> QED BY <2>1, <2>2, <2>3, KeyKept DEF new
<1> QED BY <1>1, <1>2

\* goDir after one more path,
LEMMA GoDirStep ==
  ASSUME NEW map, NEW tree, NEW n \in Nat, n + 1 \in 1..PathCount, NEW name,
         KeyIs(map, tree, n, GoRanks, name),
         NEW p, p = SortedPaths[n + 1], p.path \in tree
  PROVE  KeyIs(IF p.go /\ p.dir \notin DOMAIN map THEN Put(map, p.dir, p) ELSE map,
               tree, n + 1, GoRanks, name)
<1>0. GoRanks \subseteq Nat
  BY DEF GoRanks
<1> DEFINE new == IF p.go /\ p.dir \notin DOMAIN map THEN Put(map, p.dir, p) ELSE map
<1>1. CASE p.go /\ p.dir = name /\ name \notin DOMAIN map
  <2>1. name \in DOMAIN new /\ new[name] = p
    BY <1>1, PutIs
  <2>2. 7 \in GoRanks /\ Answers(tree, 7, n + 1, name)
    BY <1>1, AnswersIs DEF GoRanks
  <2>3. \A s \in GoRanks : s = 7
    BY DEF GoRanks
  <2> HIDE DEF new
  <2> QED BY <1>0, <1>1, <2>1, <2>2, <2>3, KeyTaken DEF new
<1>2. CASE p.go /\ p.dir = name /\ name \in DOMAIN map
  <2>1. new = map
    BY <1>2
  <2>2. \A r, s \in GoRanks : r <= s
    BY DEF GoRanks
  <2> HIDE DEF new
  <2> QED BY <1>0, <1>2, <2>1, <2>2, KeyStays DEF new
<1>3. CASE ~(p.go /\ p.dir = name)
  <2>1. \A r \in GoRanks : ~Answers(tree, r, n + 1, name)
    BY <1>3, AnswersIs DEF GoRanks
  <2>2. name \in DOMAIN new <=> name \in DOMAIN map
    BY <1>3, PutIs
  <2>3. name \in DOMAIN map => new[name] = map[name]
    BY <1>3, PutIs
  <2> HIDE DEF new
  <2> QED BY <2>1, <2>2, <2>3, KeyKept DEF new
<1> QED BY <1>1, <1>2, <1>3

StemsWith(map, p) ==
  LET primary == IF p.stem # p.path /\ Replaceable(map, p.stem) THEN Put(map, p.stem, p) ELSE map
  IN  IF p.dts /\ p.bareStem # p.stem /\ p.bareStem \notin DOMAIN primary
      THEN Put(primary, p.bareStem, p) ELSE primary

\* What registerPath makes of the entry of a name: its stem, the bare stem of a
\* declaration, or another name.
LEMMA StemsWithIs ==
  ASSUME NEW map, NEW p, NEW name, p.dts => p.stem # p.path /\ p.bareStem # p.stem
  PROVE  /\ p.stem = name /\ p.stem # p.path /\ Replaceable(map, name) =>
              name \in DOMAIN StemsWith(map, p) /\ StemsWith(map, p)[name] = p
         /\ p.stem = name /\ p.stem # p.path /\ ~Replaceable(map, name) =>
              /\ name \in DOMAIN map /\ name \in DOMAIN StemsWith(map, p)
              /\ StemsWith(map, p)[name] = map[name]
         /\ p.dts /\ p.bareStem = name /\ name \notin DOMAIN map =>
              name \in DOMAIN StemsWith(map, p) /\ StemsWith(map, p)[name] = p
         /\ p.dts /\ p.bareStem = name /\ name \in DOMAIN map =>
              name \in DOMAIN StemsWith(map, p) /\ StemsWith(map, p)[name] = map[name]
         /\ ~(p.stem = name /\ p.stem # p.path) /\ ~(p.dts /\ p.bareStem = name) =>
              /\ name \in DOMAIN StemsWith(map, p) <=> name \in DOMAIN map
              /\ name \in DOMAIN map => StemsWith(map, p)[name] = map[name]
<1> DEFINE primary == IF p.stem # p.path /\ Replaceable(map, p.stem) THEN Put(map, p.stem, p) ELSE map
           new == IF p.dts /\ p.bareStem # p.stem /\ p.bareStem \notin DOMAIN primary
                  THEN Put(primary, p.bareStem, p) ELSE primary
<1>0. StemsWith(map, p) = new
  BY DEF StemsWith
<1>1. p.stem = name /\ p.stem # p.path /\ Replaceable(map, name) => name \in DOMAIN primary /\ primary[name] = p
  BY PutIs
<1>2. ~(p.stem = name /\ p.stem # p.path /\ Replaceable(map, name)) =>
        /\ name \in DOMAIN primary <=> name \in DOMAIN map
        /\ name \in DOMAIN map => primary[name] = map[name]
  BY PutIs
<1> HIDE DEF primary
<1>3. p.dts /\ p.bareStem = name /\ name \notin DOMAIN primary => name \in DOMAIN new /\ new[name] = p
  BY PutIs
<1>4. ~(p.dts /\ p.bareStem = name /\ name \notin DOMAIN primary) =>
        /\ name \in DOMAIN new <=> name \in DOMAIN primary
        /\ name \in DOMAIN primary => new[name] = primary[name]
  BY PutIs
<1> HIDE DEF new
<1>5. ~Replaceable(map, name) => name \in DOMAIN map
  BY DEF Replaceable
<1> QED BY <1>0, <1>1, <1>2, <1>3, <1>4, <1>5

\* stemMap after one more path,
LEMMA StemStep ==
  ASSUME NEW map, NEW tree, NEW n \in Nat, n + 1 \in 1..PathCount, NEW name,
         KeyIs(map, tree, n, StemRanks, name),
         NEW p, p = SortedPaths[n + 1], p.path \in tree
  PROVE  KeyIs(StemsWith(map, p), tree, n + 1, StemRanks, name)
<1>0. StemRanks \subseteq Nat /\ StemRanks = {2, 3, 4}
  BY DEF StemRanks
<1>a. 1..n \subseteq 1..PathCount /\ n + 1 \notin 1..n
  <2>1. PathCount \in Nat
    BY PathFacts, Zenon
  <2> QED BY <2>1
<1>b. ASSUME name \in DOMAIN map
      PROVE  \E e \in StemRanks, i \in 1..n : EntryOf(map, tree, n, StemRanks, name, e, i)
  BY <1>0, <1>b, EntryAnswers
<1>c. p.dts => p.stem # p.path /\ p.bareStem # p.stem
  BY PathFacts, Zenon
<1>d. /\ Answers(tree, 2, n + 1, name) <=> ~p.dts /\ p.stem = name /\ p.stem # p.path
      /\ Answers(tree, 3, n + 1, name) <=> p.dts /\ p.stem = name
      /\ Answers(tree, 4, n + 1, name) <=> p.dts /\ p.bareStem = name
  BY AnswersIs
<1>1. CASE p.stem = name /\ p.stem # p.path
  <2> DEFINE r == IF p.dts THEN 3 ELSE 2
  <2>1. r \in StemRanks /\ Answers(tree, r, n + 1, name)
    BY <1>0, <1>1, <1>d
  <2>2. \A s \in StemRanks : Answers(tree, s, n + 1, name) => s = r
    BY <1>0, <1>1, <1>c, <1>d
  <2>3. CASE Replaceable(map, name)
    <3>1. name \in DOMAIN StemsWith(map, p) /\ StemsWith(map, p)[name] = p
      BY <1>1, <1>c, <2>3, StemsWithIs
    <3>2. ASSUME NEW s \in StemRanks, NEW j \in 1..n, name \in DOMAIN map, Answers(tree, s, j, name)
          PROVE  r < s
      <4>1. PICK e \in StemRanks, i \in 1..n :
              /\ map[name] = SortedPaths[i] /\ Answers(tree, e, i, name) /\ SortedPaths[i].path \in tree
              /\ \A t \in StemRanks, k \in 1..n : Answers(tree, t, k, name) => e <= t
        BY <1>b, <3>2 DEF EntryOf
      <4>2. SortedPaths[i].dts
        BY <2>3, <3>2, <4>1 DEF Replaceable
      <4>3. e = 4 \/ (e = 3 /\ SortedPaths[i].stem = name)
        BY <1>0, <4>1, <4>2, AnswersIs
      <4>4. e = 3 => ~p.dts
        <5> SUFFICES ASSUME e = 3, p.dts PROVE FALSE
          OBVIOUS
        <5>1. i \in 1..PathCount /\ i # n + 1
          BY <1>a
        <5>2. SortedPaths[i].stem # SortedPaths[n + 1].stem
          BY <4>2, <5>1, PathFacts, Zenon
        <5> QED BY <1>1, <4>3, <5>2
      <4>5. e <= s
        BY <3>2, <4>1
      <4> QED BY <1>0, <4>3, <4>4, <4>5
    <3> HIDE DEF r
    <3> QED BY <1>0, <2>1, <2>2, <3>1, <3>2, KeyTaken
  <2>4. CASE ~Replaceable(map, name)
    <3>1. /\ name \in DOMAIN map /\ name \in DOMAIN StemsWith(map, p)
          /\ StemsWith(map, p)[name] = map[name]
      BY <1>1, <1>c, <2>4, StemsWithIs
    <3>2. ASSUME NEW q \in StemRanks, NEW i \in 1..n, map[name] = SortedPaths[i], Answers(tree, q, i, name),
                 NEW s \in StemRanks, Answers(tree, s, n + 1, name)
          PROVE  q <= s
      <4>1. ~SortedPaths[i].dts /\ SortedPaths[i].path \in tree
        BY <2>4, <3>2 DEF Replaceable, Answers
      <4>2. q = 2
        BY <1>0, <3>2, <4>1, AnswersIs
      <4> QED BY <1>0, <4>2
    <3> QED BY <1>0, <3>1, <3>2, KeyStays
  <2> QED BY <2>3, <2>4
<1>2. CASE p.dts /\ p.bareStem = name
  <2>1. 4 \in StemRanks /\ Answers(tree, 4, n + 1, name)
    BY <1>0, <1>2, <1>d
  <2>2. \A s \in StemRanks : Answers(tree, s, n + 1, name) => s = 4
    BY <1>0, <1>2, <1>c, <1>d
  <2>3. CASE name \notin DOMAIN map
    <3>1. name \in DOMAIN StemsWith(map, p) /\ StemsWith(map, p)[name] = p
      BY <1>2, <1>c, <2>3, StemsWithIs
    <3> QED BY <1>0, <2>1, <2>2, <2>3, <3>1, KeyTaken
  <2>4. CASE name \in DOMAIN map
    <3>1. name \in DOMAIN StemsWith(map, p) /\ StemsWith(map, p)[name] = map[name]
      BY <1>2, <1>c, <2>4, StemsWithIs
    <3>2. \A q \in StemRanks, s \in StemRanks : Answers(tree, s, n + 1, name) => q <= s
      BY <1>0, <2>2
    <3> QED BY <1>0, <2>4, <3>1, <3>2, KeyStays
  <2> QED BY <2>3, <2>4
<1>3. CASE ~(p.stem = name /\ p.stem # p.path) /\ ~(p.dts /\ p.bareStem = name)
  <2>1. \A r \in StemRanks : ~Answers(tree, r, n + 1, name)
    BY <1>0, <1>3, <1>c, <1>d
  <2>2. name \in DOMAIN StemsWith(map, p) <=> name \in DOMAIN map
    BY <1>3, <1>c, StemsWithIs
  <2>3. name \in DOMAIN map => StemsWith(map, p)[name] = map[name]
    BY <1>3, <1>c, StemsWithIs
  <2> QED BY <2>1, <2>2, <2>3, KeyKept
<1> QED BY <1>1, <1>2, <1>3

\* One more path: registered when it is of the tree.
Registered(tree, maps, p) == IF p.path \in tree THEN registerPath(maps, p) ELSE maps

\* and the three maps together.
LEMMA RegisterStep ==
  ASSUME NEW maps, NEW tree, NEW n \in Nat, n + 1 \in 1..PathCount, LookupIs(maps, tree, n)
  PROVE  LookupIs(Registered(tree, maps, SortedPaths[n + 1]), tree, n + 1)
<1>1. PICK p : p = SortedPaths[n + 1]
  OBVIOUS
<1>2. CASE p.path \in tree
  <2>1. /\ registerPath(maps, p).stemMap = StemsWith(maps.stemMap, p)
        /\ registerPath(maps, p).goDir =
             IF p.go /\ p.dir \notin DOMAIN maps.goDir THEN Put(maps.goDir, p.dir, p) ELSE maps.goDir
        /\ registerPath(maps, p).dirIndex =
             IF p.isIndex /\ Replaceable(maps.dirIndex, p.dir)
             THEN Put(maps.dirIndex, p.dir, p) ELSE maps.dirIndex
    BY DEF registerPath, StemsWith
  <2>2. ASSUME NEW name PROVE KeyIs(registerPath(maps, p).stemMap, tree, n + 1, StemRanks, name)
    BY <1>1, <1>2, <2>1, StemStep DEF LookupIs
  <2>3. ASSUME NEW name PROVE KeyIs(registerPath(maps, p).goDir, tree, n + 1, GoRanks, name)
    BY <1>1, <1>2, <2>1, GoDirStep DEF LookupIs
  <2>4. ASSUME NEW name PROVE KeyIs(registerPath(maps, p).dirIndex, tree, n + 1, IndexRanks, name)
    BY <1>1, <1>2, <2>1, DirIndexStep DEF LookupIs
  <2>5. LookupIs(registerPath(maps, p), tree, n + 1)
    BY <2>2, <2>3, <2>4 DEF LookupIs
  <2> QED BY <1>1, <1>2, <2>5 DEF Registered
<1>3. CASE p.path \notin tree
  <2>1. \A r, name : ~Answers(tree, r, n + 1, name)
    BY <1>1, <1>3 DEF Answers
  <2>2. LookupIs(maps, tree, n + 1)
    BY <2>1, KeyKept DEF LookupIs
  <2> QED BY <1>1, <1>3, <2>2 DEF Registered
<1> QED BY <1>2, <1>3

\* The lookup maps are read off the paths as a machine would.
PathRecords == {SortedPaths[i] : i \in 1..PathCount}
MapNames == {p.stem : p \in PathRecords} \cup {p.bareStem : p \in PathRecords} \cup {p.dir : p \in PathRecords}
NameMaps == UNION {[K -> PathRecords] : K \in SUBSET MapNames}
LookupMaps == [stemMap : NameMaps, goDir : NameMaps, dirIndex : NameMaps]

\* A map with one more entry is a map.
LEMMA PutMap ==
  ASSUME NEW map \in NameMaps, NEW key \in MapNames, NEW p \in PathRecords
  PROVE  Put(map, key, p) \in NameMaps
<1>1. PICK K \in SUBSET MapNames : map \in [K -> PathRecords]
  BY DEF NameMaps
<1>2. Put(map, key, p) \in [K \cup {key} -> PathRecords]
  BY <1>1 DEF Put
<1>3. K \cup {key} \in SUBSET MapNames
  OBVIOUS
<1> QED BY <1>2, <1>3 DEF NameMaps

\* The empty maps are right of no path.
LEMMA NoMapsIs == NoMaps \in LookupMaps /\ \A tree : LookupIs(NoMaps, tree, 0)
<1>1. <<>> \in [{} -> PathRecords] /\ DOMAIN <<>> = {}
  OBVIOUS
<1>2. <<>> \in NameMaps
  BY <1>1 DEF NameMaps
<1>3. NoMaps.stemMap = <<>> /\ NoMaps.goDir = <<>> /\ NoMaps.dirIndex = <<>>
  BY DEF NoMaps
<1>4. NoMaps \in LookupMaps
  BY <1>2 DEF NoMaps, LookupMaps
<1>5. ASSUME NEW tree, NEW R, NEW name PROVE KeyIs(<<>>, tree, 0, R, name)
  BY <1>1 DEF KeyIs, NoAnswer
<1> QED BY <1>3, <1>4, <1>5 DEF LookupIs

\* Registering a path gives maps,
LEMMA RegisteredMaps ==
  ASSUME NEW tree, NEW maps \in LookupMaps, NEW p \in PathRecords
  PROVE  Registered(tree, maps, p) \in LookupMaps
<1>1. p.stem \in MapNames /\ p.bareStem \in MapNames /\ p.dir \in MapNames
  BY DEF MapNames
<1>2. maps.stemMap \in NameMaps /\ maps.goDir \in NameMaps /\ maps.dirIndex \in NameMaps
  BY DEF LookupMaps
<1>3. StemsWith(maps.stemMap, p) \in NameMaps
  <2>1. PICK primary \in NameMaps :
          StemsWith(maps.stemMap, p) =
            IF p.dts /\ p.bareStem # p.stem /\ p.bareStem \notin DOMAIN primary
            THEN Put(primary, p.bareStem, p) ELSE primary
    <3> DEFINE q == IF p.stem # p.path /\ Replaceable(maps.stemMap, p.stem)
                    THEN Put(maps.stemMap, p.stem, p) ELSE maps.stemMap
    <3>1. q \in NameMaps
      BY <1>1, <1>2, PutMap
    <3>2. StemsWith(maps.stemMap, p) =
            IF p.dts /\ p.bareStem # p.stem /\ p.bareStem \notin DOMAIN q
            THEN Put(q, p.bareStem, p) ELSE q
      BY DEF StemsWith
    <3> HIDE DEF q
    <3> QED BY <3>1, <3>2
  <2> QED BY <1>1, <2>1, PutMap
<1>4. registerPath(maps, p) =
        [stemMap |-> StemsWith(maps.stemMap, p),
         goDir |-> IF p.go /\ p.dir \notin DOMAIN maps.goDir
                   THEN Put(maps.goDir, p.dir, p) ELSE maps.goDir,
         dirIndex |-> IF p.isIndex /\ Replaceable(maps.dirIndex, p.dir)
                      THEN Put(maps.dirIndex, p.dir, p) ELSE maps.dirIndex]
  BY DEF registerPath, StemsWith
<1>5. (IF p.go /\ p.dir \notin DOMAIN maps.goDir THEN Put(maps.goDir, p.dir, p) ELSE maps.goDir) \in NameMaps
  BY <1>1, <1>2, PutMap
<1>6. (IF p.isIndex /\ Replaceable(maps.dirIndex, p.dir)
       THEN Put(maps.dirIndex, p.dir, p) ELSE maps.dirIndex) \in NameMaps
  BY <1>1, <1>2, PutMap
<1>7. \A a, b, c \in NameMaps : [stemMap |-> a, goDir |-> b, dirIndex |-> c] \in LookupMaps
  BY DEF LookupMaps
<1>8. registerPath(maps, p) \in LookupMaps
  BY <1>3, <1>4, <1>5, <1>6, <1>7
<1> QED BY <1>8 DEF Registered

RegisterMachine(tree) == [a \in LookupMaps \X PathRecords |-> Registered(tree, a[1], a[2])]

\* so that it is the step of a machine.
LEMMA RegisterMachineIs ==
  ASSUME NEW tree
  PROVE  /\ Machine(RegisterMachine(tree), LookupMaps, PathRecords)
         /\ \A maps \in LookupMaps, p \in PathRecords :
              RegisterMachine(tree)[<<maps, p>>] = Registered(tree, maps, p)
<1>1. \A a \in LookupMaps \X PathRecords : Registered(tree, a[1], a[2]) \in LookupMaps
  BY RegisteredMaps
<1>2. Machine(RegisterMachine(tree), LookupMaps, PathRecords)
  BY <1>1 DEF Machine, RegisterMachine
<1> QED BY <1>2 DEF RegisterMachine

\* The paths that are registered, in order.
LEMMA SortedPathsSeq == SortedPaths \in Seq(PathRecords) /\ Len(SortedPaths) = PathCount
<1>1. PICK T : SortedPaths \in Seq(T)
  BY PathsAssumption, Zenon
<1>2. \A i \in 1..Len(SortedPaths) : SortedPaths[i] \in PathRecords
  BY DEF PathRecords, PathCount
<1> QED BY <1>1, <1>2 DEF PathCount

\* Lookup is the machine's state after the last path.
LEMMA LookupFold ==
  ASSUME NEW tree
  PROVE  Lookup(tree) = After(RegisterMachine(tree), NoMaps, SortedPaths)
<1> DEFINE out == SortedPaths
           g == RegisterMachine(tree)
<1>0. out \in Seq(PathRecords) /\ NoMaps \in LookupMaps
  BY SortedPathsSeq, NoMapsIs
<1>a. Machine(g, LookupMaps, PathRecords)
  BY RegisterMachineIs
<1>b. \A maps \in LookupMaps, p \in PathRecords : g[<<maps, p>>] = Registered(tree, maps, p)
  BY RegisterMachineIs, Zenon
<1> HIDE DEF g
<1>1. PICK h \in [SUBSET DOMAIN out -> LookupMaps] : IsFold(h, g, NoMaps, out)
  BY <1>0, <1>a, FoldExists
<1> DEFINE E(i) == i = [s \in SUBSET DOMAIN out |->
                          IF s = {} THEN NoMaps ELSE Registered(tree, i[s \ {Max(s)}], out[Max(s)])]
           it == CHOOSE i : E(i)
<1>2. E(h)
  <2>1. ASSUME NEW s \in SUBSET DOMAIN out
        PROVE  h[s] = IF s = {} THEN NoMaps ELSE Registered(tree, h[s \ {Max(s)}], out[Max(s)])
    <3>1. h[s] = IF s = {} THEN NoMaps ELSE g[<<h[s \ {Max(s)}], out[Max(s)]>>]
      BY <1>1 DEF IsFold
    <3>2. s # {} => h[s \ {Max(s)}] \in LookupMaps /\ out[Max(s)] \in PathRecords
      BY <1>0, MaxIn
    <3> QED BY <1>b, <3>1, <3>2
  <2> QED BY <2>1
<1>3. E(it)
  <2>1. \E i : E(i)
    BY <1>2
  <2> HIDE DEF E
  <2> QED BY <2>1
<1>4. Lookup(tree) = it[DOMAIN out]
  BY DEF Lookup, FoldLeft, MapThenFoldSet, Registered
<1> HIDE DEF it
<1>5. FoldsBy(it, g, LookupMaps, NoMaps, out)
  <2>1. it[{}] = NoMaps
    BY <1>3
  <2>2. ASSUME NEW t \in SUBSET DOMAIN out, t # {}, it[t \ {Max(t)}] \in LookupMaps
        PROVE  it[t] = g[<<it[t \ {Max(t)}], out[Max(t)]>>]
    <3>1. it[t] = Registered(tree, it[t \ {Max(t)}], out[Max(t)])
      BY <1>3, <2>2
    <3>2. out[Max(t)] \in PathRecords
      BY <1>0, <2>2, MaxIn
    <3> QED BY <1>b, <2>2, <3>1, <3>2
  <2> QED BY <2>1, <2>2 DEF FoldsBy
<1>6. it[DOMAIN out] = After(g, NoMaps, out)
  BY <1>0, <1>a, <1>5, FoldIsAfter
<1> QED BY <1>4, <1>6 DEF g

\* The maps have, for every name, the best of the paths of the tree.
LEMMA LookupRight ==
  ASSUME NEW tree
  PROVE  LookupIs(Lookup(tree), tree, PathCount)
<1> DEFINE g == RegisterMachine(tree)
           Q == [n \in 0..PathCount |-> {maps \in LookupMaps : LookupIs(maps, tree, n)}]
<1>1. Machine(g, LookupMaps, PathRecords) /\ NoMaps \in LookupMaps
  BY RegisterMachineIs, NoMapsIs
<1>a. SortedPaths \in Seq(PathRecords)
  BY SortedPathsSeq
<1>b. PathCount \in Nat /\ Len(SortedPaths) = PathCount
  BY PathFacts, Zenon DEF PathCount
<1>2. NoMaps \in Q[0]
  BY <1>b, NoMapsIs
<1>3. ASSUME NEW i \in 1..PathCount, NEW v \in LookupMaps, v \in Q[i-1]
      PROVE  g[<<v, SortedPaths[i]>>] \in Q[i]
  <2>1. i - 1 \in Nat /\ (i - 1) + 1 = i /\ i - 1 \in 0..PathCount /\ i \in 0..PathCount
    BY <1>b
  <2>2. LookupIs(v, tree, i - 1)
    BY <1>3, <2>1
  <2>3. LookupIs(Registered(tree, v, SortedPaths[i]), tree, i)
    BY <2>1, <2>2, RegisterStep
  <2>4. SortedPaths[i] \in PathRecords
    BY DEF PathRecords
  <2>5. g[<<v, SortedPaths[i]>>] = Registered(tree, v, SortedPaths[i])
    BY <2>4, RegisterMachineIs
  <2>6. Registered(tree, v, SortedPaths[i]) \in LookupMaps
    BY <2>4, RegisteredMaps
  <2> QED BY <2>1, <2>3, <2>5, <2>6
<1> HIDE DEF g, Q
<1>4. \A i \in 1..Len(SortedPaths) : \A v \in LookupMaps : v \in Q[i-1] => g[<<v, SortedPaths[i]>>] \in Q[i]
  BY <1>3, <1>b
<1>5. After(g, NoMaps, SortedPaths) \in Q[Len(SortedPaths)]
  BY <1>1, <1>a, <1>2, <1>4, AfterElements
<1>6. Lookup(tree) \in Q[PathCount]
  BY <1>b, <1>5, LookupFold DEF g
<1> QED BY <1>6, <1>b DEF Q

\* A candidate that comes before all the others is the expected one.
LEMMA ExpectedIs ==
  ASSUME NEW tree, NEW name, NEW lang, NEW r \in 1..7, NEW i \in 1..PathCount,
         SortedPaths[i].path \in tree, Candidate(r, SortedPaths[i], name, lang),
         \A s \in 1..7, j \in 1..PathCount :
           SortedPaths[j].path \in tree /\ Candidate(s, SortedPaths[j], name, lang) =>
             r < s \/ (r = s /\ i <= j)
  PROVE  Expected(tree, name, lang) = SortedPaths[i].path
<1> DEFINE all == Candidates(tree, name, lang)
           first(c) == c \in all /\ \A d \in all : Before(c, d)
           c == CHOOSE c \in all : \A d \in all : Before(c, d)
<1>0. PathCount \in Nat
  BY PathFacts, Zenon
<1>1. \A d : d \in all <=> /\ d \in (1..7) \X (1..PathCount)
                           /\ SortedPaths[d[2]].path \in tree
                           /\ Candidate(d[1], SortedPaths[d[2]], name, lang)
  BY DEF Candidates, PathCount
<1>2. <<r, i>> \in all
  BY <1>1
<1>3. \A d \in all : r < d[1] \/ (r = d[1] /\ i <= d[2])
  BY <1>1
<1>4. first(<<r, i>>)
  BY <1>2, <1>3 DEF Before
<1>5. first(c)
  <2>1. \E x \in all : \A d \in all : Before(x, d)
    BY <1>4
  <2> QED BY <2>1, Zenon
<1>6. Expected(tree, name, lang) = SortedPaths[c[2]].path
  BY <1>2, Zenon DEF Expected
<1> HIDE DEF c, all
<1>7. Before(c, <<r, i>>) /\ (r < c[1] \/ (r = c[1] /\ i <= c[2]))
  BY <1>2, <1>3, <1>5
<1>8. c \in (1..7) \X (1..PathCount)
  BY <1>1, <1>5
<1>9. c[2] = i
  BY <1>0, <1>7, <1>8 DEF Before
<1> QED BY <1>6, <1>9

\* Without a candidate there is nothing to expect.
LEMMA ExpectedNone ==
  ASSUME NEW tree, NEW name, NEW lang,
         \A s \in 1..7, j \in 1..PathCount :
           ~(SortedPaths[j].path \in tree /\ Candidate(s, SortedPaths[j], name, lang))
  PROVE  Expected(tree, name, lang) = ""
<1>1. Candidates(tree, name, lang) = {}
  BY DEF Candidates, PathCount
<1> QED BY <1>1 DEF Expected

\* The first match of ResolveImportTargets is the expected one.
LEMMA MatchRight ==
  ASSUME NEW tree, tree \subseteq FilePaths, NEW name, NEW lang
  PROVE  Match(Lookup(tree), tree, name, lang) = Expected(tree, name, lang)
<1>1. PICK maps : maps = Lookup(tree)
  OBVIOUS
<1>2. LookupIs(maps, tree, PathCount)
  BY <1>1, LookupRight
<1>3. /\ KeyIs(maps.stemMap, tree, PathCount, StemRanks, name)
      /\ KeyIs(maps.dirIndex, tree, PathCount, IndexRanks, name)
      /\ KeyIs(maps.goDir, tree, PathCount, GoRanks, name)
  BY <1>2 DEF LookupIs
<1> DEFINE Here(s, j) == SortedPaths[j].path \in tree /\ Candidate(s, SortedPaths[j], name, lang)
<1>4. \A s \in 1..6, j \in 1..PathCount : Here(s, j) <=> Answers(tree, s, j, name)
  BY DEF Answers, Candidate
<1>5. \A j \in 1..PathCount : Here(7, j) <=> lang = "go" /\ Answers(tree, 7, j, name)
  BY DEF Answers, Candidate
<1>6. \A j \in 1..PathCount : Here(1, j) <=> SortedPaths[j].path = name /\ name \in tree
  BY DEF Candidate
<1>7. \A s \in 1..7, j \in 1..PathCount :
        Here(s, j) <=> SortedPaths[j].path \in tree /\ Candidate(s, SortedPaths[j], name, lang)
  OBVIOUS
<1> HIDE DEF Here
<1>8. ASSUME NEW r \in 1..7, NEW i \in 1..PathCount, Here(r, i),
             \A s \in 1..7, j \in 1..PathCount : Here(s, j) => r < s \/ (r = s /\ i <= j)
      PROVE  Expected(tree, name, lang) = SortedPaths[i].path
  BY <1>7, <1>8, ExpectedIs
<1>9. /\ 1..7 = {1} \cup StemRanks \cup IndexRanks \cup GoRanks
      /\ StemRanks \cup IndexRanks = 2..6 /\ GoRanks = {7}
      /\ StemRanks = 2..4 /\ IndexRanks = 5..6
  BY DEF StemRanks, IndexRanks, GoRanks
<1>a. CASE name \in tree
  <2>1. PICK i \in 1..PathCount : SortedPaths[i].path = name
    BY <1>a DEF FilePaths, PathCount
  <2>2. Here(1, i)
    BY <1>6, <1>a, <2>1
  <2>3. ASSUME NEW s \in 1..7, NEW j \in 1..PathCount, Here(s, j) PROVE 1 < s \/ (1 = s /\ i <= j)
    <3>1. s = 1 => j = i
      BY <1>6, <2>1, <2>3, PathFacts, Zenon
    <3> QED BY <3>1
  <2>4. Expected(tree, name, lang) = SortedPaths[i].path
    BY <1>8, <2>2, <2>3
  <2> QED BY <1>a, <2>1, <2>4, Zenon DEF Match
<1>b. ASSUME name \notin tree, NEW j \in 1..PathCount PROVE ~Here(1, j)
  BY <1>6, <1>b
<1>c. CASE name \notin tree /\ name \in DOMAIN maps.stemMap
  <2>1. PICK r \in StemRanks, i \in 1..PathCount :
          maps.stemMap[name] = SortedPaths[i] /\ BestAnswer(tree, PathCount, StemRanks, name, r, i)
    BY <1>3, <1>c DEF KeyIs
  <2>2. Here(r, i)
    BY <1>4, <1>9, <2>1 DEF BestAnswer
  <2>3. ASSUME NEW s \in 1..7, NEW j \in 1..PathCount, Here(s, j) PROVE r < s \/ (r = s /\ i <= j)
    <3>1. CASE s \in StemRanks
      BY <1>4, <1>9, <2>1, <2>3, <3>1 DEF BestAnswer
    <3>2. CASE s \in 5..7
      BY <1>9, <3>2
    <3> QED BY <1>9, <1>b, <1>c, <2>3, <3>1, <3>2
  <2>4. Expected(tree, name, lang) = SortedPaths[i].path
    BY <1>8, <1>9, <2>2, <2>3
  <2>5. Match(maps, tree, name, lang) = maps.stemMap[name].path
    BY <1>c, Zenon DEF Match
  <2> QED BY <1>1, <2>1, <2>4, <2>5
<1>d. ASSUME name \notin DOMAIN maps.stemMap, NEW s \in StemRanks, NEW j \in 1..PathCount PROVE ~Here(s, j)
  BY <1>3, <1>4, <1>9, <1>d DEF KeyIs, NoAnswer
<1>e. CASE name \notin tree \cup DOMAIN maps.stemMap /\ name \in DOMAIN maps.dirIndex
  <2>1. PICK r \in IndexRanks, i \in 1..PathCount :
          maps.dirIndex[name] = SortedPaths[i] /\ BestAnswer(tree, PathCount, IndexRanks, name, r, i)
    BY <1>3, <1>e DEF KeyIs
  <2>2. Here(r, i)
    BY <1>4, <1>9, <2>1 DEF BestAnswer
  <2>3. ASSUME NEW s \in 1..7, NEW j \in 1..PathCount, Here(s, j) PROVE r < s \/ (r = s /\ i <= j)
    <3>1. CASE s \in IndexRanks
      BY <1>4, <1>9, <2>1, <2>3, <3>1 DEF BestAnswer
    <3>2. CASE s = 7
      BY <1>9, <3>2
    <3> QED BY <1>9, <1>b, <1>d, <1>e, <2>3, <3>1, <3>2
  <2>4. Expected(tree, name, lang) = SortedPaths[i].path
    BY <1>8, <1>9, <2>2, <2>3
  <2>5. Match(maps, tree, name, lang) = maps.dirIndex[name].path
    BY <1>e, Zenon DEF Match
  <2> QED BY <1>1, <2>1, <2>4, <2>5
<1>f. ASSUME name \notin DOMAIN maps.dirIndex, NEW s \in IndexRanks, NEW j \in 1..PathCount PROVE ~Here(s, j)
  BY <1>3, <1>4, <1>9, <1>f DEF KeyIs, NoAnswer
<1>g. CASE /\ name \notin tree \cup DOMAIN maps.stemMap \cup DOMAIN maps.dirIndex
           /\ lang = "go" /\ name \in DOMAIN maps.goDir
  <2>1. PICK r \in GoRanks, i \in 1..PathCount :
          maps.goDir[name] = SortedPaths[i] /\ BestAnswer(tree, PathCount, GoRanks, name, r, i)
    BY <1>3, <1>g DEF KeyIs
  <2>2. r = 7 /\ Here(r, i)
    BY <1>5, <1>9, <1>g, <2>1 DEF BestAnswer
  <2>3. ASSUME NEW s \in 1..7, NEW j \in 1..PathCount, Here(s, j) PROVE r < s \/ (r = s /\ i <= j)
    <3>1. CASE s = 7
      BY <1>5, <1>9, <2>1, <2>2, <2>3, <3>1 DEF BestAnswer
    <3> QED BY <1>9, <1>b, <1>d, <1>f, <1>g, <2>3, <3>1
  <2>4. Expected(tree, name, lang) = SortedPaths[i].path
    BY <1>8, <2>2, <2>3
  <2>5. Match(maps, tree, name, lang) = maps.goDir[name].path
    BY <1>g DEF Match
  <2> QED BY <1>1, <2>1, <2>4, <2>5
<1>h. CASE /\ name \notin tree \cup DOMAIN maps.stemMap \cup DOMAIN maps.dirIndex
           /\ ~(lang = "go" /\ name \in DOMAIN maps.goDir)
  <2>1. ASSUME NEW j \in 1..PathCount PROVE ~Here(7, j)
    BY <1>3, <1>5, <1>9, <1>h DEF KeyIs, NoAnswer
  <2>2. ASSUME NEW s \in 1..7, NEW j \in 1..PathCount PROVE ~Here(s, j)
    BY <1>9, <1>b, <1>d, <1>f, <1>h, <2>1
  <2>3. Expected(tree, name, lang) = ""
    BY <1>7, <2>2, ExpectedNone, Zenon
  <2>4. Match(maps, tree, name, lang) = ""
    BY <1>h, Zenon DEF Match
  <2> QED BY <1>1, <2>3, <2>4, Zenon
<1> QED BY <1>a, <1>c, <1>e, <1>g, <1>h

\* A resolved import has the row that is expected of it.
LEMMA RowExpected ==
  ASSUME NEW at \in BranchStates, NEW imp, NEW d,
         d = ResolveImport(Lookup(Tree(at.version)), Tree(at.version), at.gomod, ExtractedImport(imp))
  PROVE  <<d.name, d.TargetFilePath, d.ImportType>> = ExpectedRow(imp, at)
<1> DEFINE x == ExtractedImport(imp)
           tree == Tree(at.version)
           asked == Asked(imp, at.gomod)
           lang == IF imp.type = "INTERNAL" THEN "" ELSE imp.lang
           best == IF asked = "" THEN "" ELSE Expected(tree, asked, lang)
<1>1. /\ x.name = imp.name /\ x.lang = imp.lang /\ x.candidate = imp.path
      /\ x.ImportType = imp.type
      /\ x.TargetFilePath = IF imp.type = "INTERNAL" THEN imp.path ELSE ""
      /\ DOMAIN x = {"name", "lang", "candidate", "ImportType", "TargetFilePath"}
  BY Zenon DEF ExtractedImport
<1> HIDE DEF x
<1>2. convertImportToPath(x, at.gomod) =
        IF imp.lang = "python" \/ (imp.lang = "go" /\ at.gomod # "" /\ imp.name = at.gomod)
        THEN imp.path ELSE ""
  BY <1>1, Zenon DEF convertImportToPath
<1>3. (CASE x.ImportType = "INTERNAL" -> x.TargetFilePath
         [] x.ImportType = "EXTERNAL" -> convertImportToPath(x, at.gomod)
         [] OTHER -> "") = asked
  <2>1. CASE imp.type = "INTERNAL"
    <3>1. asked = imp.path
      BY <2>1, Zenon DEF Asked
    <3>2. x.ImportType = "INTERNAL" /\ x.TargetFilePath = imp.path
      BY <1>1, <2>1, Zenon
    <3> HIDE DEF asked
    <3> QED BY <3>1, <3>2
  <2>2. CASE imp.type = "EXTERNAL"
    <3>1. asked = convertImportToPath(x, at.gomod)
      BY <1>2, <2>2, Zenon DEF Asked
    <3>2. x.ImportType = "EXTERNAL" /\ x.ImportType # "INTERNAL"
      BY <1>1, <2>2
    <3> HIDE DEF asked
    <3> QED BY <3>1, <3>2
  <2>3. CASE imp.type \notin {"INTERNAL", "EXTERNAL"}
    BY <1>1, <2>3 DEF Asked
  <2> QED BY <2>1, <2>2, <2>3
<1>4. (IF x.ImportType = "INTERNAL" THEN "" ELSE x.lang) = lang
  BY <1>1, Zenon
<1>5. tree \subseteq FilePaths
  BY DEF Tree
<1> HIDE DEF asked, lang, tree
<1>6. Match(Lookup(tree), tree, asked, lang) = Expected(tree, asked, lang)
  BY <1>5, MatchRight
<1>7. d = IF best = "" THEN x ELSE [x EXCEPT !.TargetFilePath = best, !.ImportType = "INTERNAL"]
  BY <1>3, <1>4, <1>6, Zenon DEF ResolveImport, x, tree
<1>8. ExpectedRow(imp, at) =
        << imp.name,
           IF best # "" THEN best ELSE IF imp.type = "INTERNAL" THEN imp.path ELSE "",
           IF best # "" THEN "INTERNAL" ELSE imp.type >>
  BY DEF ExpectedRow, asked, lang, tree
<1> HIDE DEF best
<1>9. CASE best = ""
  BY <1>1, <1>7, <1>8, <1>9, Zenon
<1>a. CASE best # ""
  <2>1. d.name = imp.name /\ d.TargetFilePath = best /\ d.ImportType = "INTERNAL"
    BY <1>1, <1>7, <1>a, Zenon
  <2> QED BY <1>8, <1>a, <2>1, Zenon
<1> QED BY <1>9, <1>a, Zenon

\* Rows that the resolver made at a commit are the expected ones.
LEMMA RowsGiveTargets ==
  ASSUME RowsResolved
  PROVE  TargetsResolved
<1> SUFFICES ASSUME index # None PROVE
      /\ DOMAIN index.deps = Tree(index.version)
      /\ \A p \in DOMAIN index.deps :
           /\ index.parsedAt[p].version[p] = index.version[p]
           /\ {<<d.name, d.TargetFilePath, d.ImportType>> : d \in index.deps[p]} =
              {ExpectedRow(imp, index.parsedAt[p]) : imp \in ImportsOf[p][index.version[p]]}
  BY DEF TargetsResolved
<1>1. DOMAIN index.deps = Tree(index.version)
  BY DEF RowsResolved
<1>2. ASSUME NEW p \in DOMAIN index.deps
      PROVE  /\ index.parsedAt[p].version[p] = index.version[p]
             /\ {<<d.name, d.TargetFilePath, d.ImportType>> : d \in index.deps[p]} =
                {ExpectedRow(imp, index.parsedAt[p]) : imp \in ImportsOf[p][index.version[p]]}
  <2>1. PICK at : at = index.parsedAt[p]
    OBVIOUS
  <2>2. /\ at \in BranchStates /\ at.version[p] = index.version[p]
        /\ index.deps[p] = ResolveImportTargets(Tree(at.version), at.gomod, p, index.version[p])
    BY <1>1, <1>2, <2>1 DEF RowsResolved
  <2> DEFINE imports == ImportsOf[p][index.version[p]]
             rows(imp) == ResolveImport(Lookup(Tree(at.version)), Tree(at.version), at.gomod,
                                        ExtractedImport(imp))
  <2>3. index.deps[p] = {rows(imp) : imp \in imports}
    BY <2>2 DEF ResolveImportTargets
  <2>4. \A imp : <<rows(imp).name, rows(imp).TargetFilePath, rows(imp).ImportType>> = ExpectedRow(imp, at)
    BY <2>2, RowExpected
  <2> HIDE DEF rows, imports
  <2>5. {<<d.name, d.TargetFilePath, d.ImportType>> : d \in index.deps[p]} =
        {ExpectedRow(imp, at) : imp \in imports}
    <3>1. ASSUME NEW d \in index.deps[p]
          PROVE  <<d.name, d.TargetFilePath, d.ImportType>> \in {ExpectedRow(imp, at) : imp \in imports}
      <4>1. PICK imp \in imports : d = rows(imp)
        BY <2>3
      <4> QED BY <2>4, <4>1
    <3>2. ASSUME NEW imp \in imports
          PROVE  ExpectedRow(imp, at) \in {<<d.name, d.TargetFilePath, d.ImportType>> : d \in index.deps[p]}
      <4>1. rows(imp) \in index.deps[p]
        BY <2>3
      <4> QED BY <2>4, <4>1
    <3> QED BY <3>1, <3>2
  <2> QED BY <2>1, <2>2, <2>5 DEF imports
<1> QED BY <1>1, <1>2

\* Without a snapshot there are no rows.
LEMMA ImportInitial == ImportInit => ImportTypeOK /\ RowsResolved
BY BranchAssumption DEF ImportInit, ImportTypeOK, RowsResolved

\* A commit changes the branch and not the snapshot.
LEMMA CommitKeepsTargets ==
  ASSUME ImportTypeOK, RowsResolved, Commit
  PROVE  ImportTypeOK' /\ RowsResolved'
<1>1. pushes' \in 0..MaxPushes
  BY BranchAssumption DEF ImportTypeOK, Commit
<1>2. branch' \in BranchStates
  <2>1. branch.version \in TreeVersions /\ branch.gomod \in GoModules
        /\ branch = [version |-> branch.version, gomod |-> branch.gomod]
    BY DEF ImportTypeOK, BranchStates
  <2>2. ASSUME NEW p \in FilePaths, NEW v \in Versions[p], branch' = [branch EXCEPT !.version[p] = v]
        PROVE  branch' \in BranchStates
    <3>1. [branch.version EXCEPT ![p] = v] \in TreeVersions
      BY <2>1, BranchAssumption DEF TreeVersions
    <3>2. branch' = [version |-> [branch.version EXCEPT ![p] = v], gomod |-> branch.gomod]
      BY <2>1, <2>2
    <3> QED BY <2>1, <3>1, <3>2 DEF BranchStates
  <2>3. ASSUME NEW m \in GoModules, branch' = [branch EXCEPT !.gomod = m]
        PROVE  branch' \in BranchStates
    BY <2>1, <2>3 DEF BranchStates
  <2> QED BY <2>2, <2>3 DEF Commit
<1>3. index' = index
  BY DEF Commit
<1> QED BY <1>1, <1>2, <1>3 DEF ImportTypeOK, RowsResolved

\* What a build leaves: rows for the files of the branch's commit.
LEMMA BuildKeepsTargets ==
  ASSUME ImportTypeOK, UNCHANGED <<branch, pushes>>,
         NEW deps, NEW parsedAt,
         index' = [version |-> branch.version, deps |-> deps, parsedAt |-> parsedAt],
         DOMAIN deps = Tree(branch.version), DOMAIN parsedAt = Tree(branch.version),
         \A p \in Tree(branch.version) :
           /\ parsedAt[p] \in BranchStates /\ parsedAt[p].version[p] = branch.version[p]
           /\ deps[p] = ResolveImportTargets(Tree(parsedAt[p].version), parsedAt[p].gomod, p,
                                             branch.version[p])
  PROVE  ImportTypeOK' /\ RowsResolved'
<1>1. index'.version = branch.version /\ index'.deps = deps /\ index'.parsedAt = parsedAt
  OBVIOUS
<1>2. branch.version \in TreeVersions
  BY DEF ImportTypeOK, BranchStates
<1>3. RowsResolved'
  BY <1>1, <1>2 DEF RowsResolved
<1> QED BY <1>3 DEF ImportTypeOK

\* A full build resolves every file at the branch's commit.
LEMMA FullIndexKeepsTargets ==
  ASSUME ImportTypeOK, FullIndex
  PROVE  ImportTypeOK' /\ RowsResolved'
<1> DEFINE tree == Tree(branch.version)
           deps == [p \in tree |-> ResolveImportTargets(tree, branch.gomod, p, branch.version[p])]
           parsedAt == [p \in tree |-> branch]
<1>1. index' = [version |-> branch.version, deps |-> deps, parsedAt |-> parsedAt]
      /\ UNCHANGED <<branch, pushes>>
  BY DEF FullIndex
<1>2. DOMAIN deps = tree /\ DOMAIN parsedAt = tree
  OBVIOUS
<1>3. \A p \in tree :
        /\ parsedAt[p] \in BranchStates /\ parsedAt[p].version[p] = branch.version[p]
        /\ deps[p] = ResolveImportTargets(Tree(parsedAt[p].version), parsedAt[p].gomod, p, branch.version[p])
  BY DEF ImportTypeOK
<1> HIDE DEF deps, parsedAt
<1> QED BY <1>1, <1>2, <1>3, BuildKeepsTargets

\* An incremental build resolves the changed files and copies the others.
LEMMA IncrementalIndexKeepsTargets ==
  ASSUME ImportTypeOK, RowsResolved, IncrementalIndex
  PROVE  ImportTypeOK' /\ RowsResolved'
<1> DEFINE tree == Tree(branch.version)
           changed == {p \in tree : branch.version[p] # index.version[p]}
           deleted == Tree(index.version) \ tree
           unchanged == Tree(index.version) \ (changed \cup deleted)
           all == AllFilePaths(changed, unchanged)
           deps == [p \in changed \cup unchanged |->
                      IF p \in changed
                      THEN ResolveImportTargets(all, branch.gomod, p, branch.version[p])
                      ELSE index.deps[p]]
           parsedAt == [p \in changed \cup unchanged |->
                          IF p \in changed THEN branch ELSE index.parsedAt[p]]
<1>1. /\ index # None /\ UNCHANGED <<branch, pushes>>
      /\ index' = [version |-> branch.version, deps |-> deps, parsedAt |-> parsedAt]
  BY DEF IncrementalIndex
<1>2. \A p : p \in tree <=> p \in FilePaths /\ branch.version[p] # 0
  BY DEF Tree
<1>3. \A p : p \in Tree(index.version) <=> p \in FilePaths /\ index.version[p] # 0
  BY DEF Tree
<1> HIDE DEF tree
<1>4. \A p \in unchanged : /\ p \in tree /\ p \in Tree(index.version) /\ p \notin changed
                           /\ branch.version[p] = index.version[p]
  OBVIOUS
<1>5. changed \cup unchanged = tree
  <2>1. ASSUME NEW p \in tree PROVE p \in changed \cup unchanged
    BY <1>2, <1>3
  <2> QED BY <1>4, <2>1
<1>6. all = tree
  BY <1>5 DEF AllFilePaths
<1> HIDE DEF all
<1>7. DOMAIN deps = tree /\ DOMAIN parsedAt = tree
  BY <1>5
<1>8. ASSUME NEW p \in tree
      PROVE  /\ parsedAt[p] \in BranchStates /\ parsedAt[p].version[p] = branch.version[p]
             /\ deps[p] = ResolveImportTargets(Tree(parsedAt[p].version), parsedAt[p].gomod, p,
                                               branch.version[p])
  <2>1. CASE p \in changed
    <3>1. parsedAt[p] = branch
      BY <1>5, <2>1
    <3>2. deps[p] = ResolveImportTargets(tree, branch.gomod, p, branch.version[p])
      BY <1>5, <1>6, <2>1
    <3> QED BY <3>1, <3>2 DEF ImportTypeOK, tree
  <2>2. CASE p \notin changed
    <3>1. p \in unchanged
      BY <1>5, <2>2
    <3>2. parsedAt[p] = index.parsedAt[p] /\ deps[p] = index.deps[p]
      BY <1>5, <2>2
    <3>3. p \in Tree(index.version) /\ branch.version[p] = index.version[p]
      BY <1>4, <3>1
    <3> HIDE DEF parsedAt, deps
    <3> QED BY <1>1, <3>2, <3>3 DEF RowsResolved
  <2> QED BY <2>1, <2>2
<1> HIDE DEF deps, parsedAt
<1> QED BY <1>1, <1>7, <1>8, BuildKeepsTargets DEF tree

\* Every step keeps the rows resolved.
LEMMA ImportStep ==
  ASSUME ImportTypeOK, RowsResolved, [ImportNext]_importVars
  PROVE  ImportTypeOK' /\ RowsResolved'
<1>1. CASE ImportNext
  BY <1>1, CommitKeepsTargets, FullIndexKeepsTargets, IncrementalIndexKeepsTargets DEF ImportNext
<1>2. CASE UNCHANGED importVars
  BY <1>2 DEF importVars, ImportTypeOK, RowsResolved
<1> QED BY <1>1, <1>2

\* The dependency rows of the active snapshot, whichever builds it went through,
\* name the best match of their import at the commit where the importing file was
\* last parsed (ResolveImportTargets, registerPath and the copying of unchanged
\* files): an implementation before a declaration, a file before a directory.
THEOREM TargetsAreResolved == ImportSpec => []TargetsInv
<1>1. ImportInit => ImportTypeOK /\ RowsResolved
  BY ImportInitial
<1>2. ImportTypeOK /\ RowsResolved /\ [ImportNext]_importVars => ImportTypeOK' /\ RowsResolved'
  BY ImportStep
<1>3. ImportTypeOK /\ RowsResolved => TargetsInv
  BY RowsGiveTargets DEF TargetsInv
<1> QED BY <1>1, <1>2, <1>3, PTL DEF ImportSpec
=============================================================================
