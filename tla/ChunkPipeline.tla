--------------------------- MODULE ChunkPipeline ---------------------------
(***************************************************************************)
(* The content half of a build: file contents cut into chunks of at most   *)
(* MaxInput bytes, the chunks embedded in batches, the vectors upserted in *)
(* batches (splitRawChunks, splitOversizedChunks, OllamaClient.Embed and   *)
(* the second and third phase of Pipeline.processFiles).                   *)
(*                                                                         *)
(* A content is a sequence of byte classes; a chunk is the half-open range *)
(* of the bytes it holds, so nothing but positions and line numbers is     *)
(* computed.  The vector of a text stands for the text itself.             *)
(***************************************************************************)
EXTENDS Integers, Sequences, FiniteSets, FiniteSetsExt, SequencesExt

CONSTANTS MaxInput,         \* embedding.DefaultMaxInputChars
          EmbedBatchSize,   \* texts of one request to the embedding service
          UpsertBatchSize,  \* points of one request to the vector store
          Files             \* the builds' inputs: sequences of files to index

VARIABLES files,       \* the files of this build: [kind, content, start, end]
          inputLimit,  \* the embedding client's maxInputChars
          file,        \* index of the file being split
          pos,         \* bytes of that file already in a chunk
          line,        \* currentLine
          chunks,      \* the chunks so far, in order
          phase,
          vectors,     \* what Embed has returned so far
          points       \* the vector store: chunk -> vector

chunkVars == <<files, inputLimit, file, pos, line, chunks, phase, vectors, points>>

(* A rune takes at most four bytes, and a limit below that could cut none. *)
ASSUME MaxInputAssumption == MaxInput \in Nat /\ MaxInput >= 4

ASSUME BatchAssumption == EmbedBatchSize \in Nat \ {0} /\ UpsertBatchSize \in Nat \ {0}

Byte == {"nl", "ascii", "lead", "cont"}

Newlines(content, from, to) == Cardinality({i \in from + 1 .. to : content[i] = "nl"})

(* Encoded text: a continuation byte follows the bytes of its rune, and a  *)
(* rune has at most three of them.                                         *)
Encoded(content) ==
    \A i \in 1 .. Len(content) : content[i] = "cont" =>
        /\ i > 1 /\ content[i - 1] \in {"lead", "cont"}
        /\ i > 3 => \E j \in i - 3 .. i - 1 : content[j] # "cont"

(* A file to index as raw text, or a chunk that the parser made of one.    *)
SourceFile == [kind : {"raw", "parsed"}, content : Seq(Byte), start : Nat, end : Nat]

(* The parser makes no empty chunk.  Its line range need not be that of    *)
(* its text: the summary of a class of more than 200 lines has the range   *)
(* of the class.                                                           *)
ASSUME FilesAssumption ==
    \A fs \in Files :
        /\ fs \in Seq(SourceFile) /\ fs # <<>>
        /\ \A f \in 1 .. Len(fs) :
             /\ Encoded(fs[f].content)
             /\ fs[f].kind = "parsed" => fs[f].content # <<>>

Phases == {"split", "embed", "upsert", "done", "failed"}

(* NewOllamaClient: a maxTokens that is not positive means the default. *)
InputLimit(maxTokens) == IF maxTokens <= 0 THEN MaxInput ELSE maxTokens

ChunkInit(maxTokens) ==
    /\ files \in Files
    /\ inputLimit = InputLimit(maxTokens)
    /\ file = 1 /\ pos = 0
    /\ line = files[1].start
    /\ chunks = <<>> /\ vectors = <<>> /\ points = <<>>
    /\ phase = "split"

-----------------------------------------------------------------------------
Content == files[file].content

Remaining == Len(Content) - pos

RuneStart(b) == b # "cont"

(* Falling back from a full chunk: backwards to where a rune ends. *)
StepBackPastRune == pos + MaxInput

StepBack ==
    pos + Max({0} \cup {e \in 1 .. MaxInput :
                          \/ Content[pos + e] \notin {"lead", "cont"}
                          \/ RuneStart(Content[pos + e + 1])})

(* Where the next chunk ends.  A newline that is the first byte of the rest *)
(* is not taken (cut > 0).                                                  *)
ChunkEnd ==
    LET cuts == {e \in 2 .. MaxInput : Content[pos + e] = "nl"}
    IN  IF Remaining <= MaxInput THEN Len(Content)
        ELSE IF cuts # {} THEN pos + Max(cuts) ELSE StepBack

(* The last line of a chunk: a line that the final chunk leaves without a  *)
(* newline counts, the position after a newline does not.                  *)
LastLine(from, to) ==
    LET newlines == Newlines(Content, from, to)
        partial == to = Len(Content) /\ Content[to] # "nl"
    IN  IF newlines > 0 /\ ~partial THEN line + newlines - 1 ELSE line + newlines

AppendChunk(to, endLine) ==
    /\ chunks' = Append(chunks, [file |-> file, from |-> pos, to |-> to,
                                 StartLine |-> line, EndLine |-> endLine])
    /\ pos' = to
    /\ line' = endLine + 1

(* A chunk of the parser that fits the limit stays as the parser made it.  *)
KeepChunk ==
    /\ phase = "split" /\ file <= Len(files)
    /\ files[file].kind = "parsed" /\ pos = 0 /\ 0 < Remaining /\ Remaining <= MaxInput
    /\ AppendChunk(Len(Content), files[file].end)
    /\ UNCHANGED <<files, inputLimit, file, phase, vectors, points>>

(* One turn of the loop of splitRawChunks or splitChunkContent; a raw file *)
(* that fits is one chunk with the same line range.                        *)
SplitChunk ==
    /\ phase = "split" /\ file <= Len(files)
    /\ Remaining > 0
    /\ files[file].kind = "raw" \/ Len(Content) > MaxInput
    /\ AppendChunk(ChunkEnd, LastLine(pos, ChunkEnd))
    /\ UNCHANGED <<files, inputLimit, file, phase, vectors, points>>

NextFile ==
    /\ phase = "split" /\ file <= Len(files)
    /\ Remaining = 0
    /\ file' = file + 1
    /\ pos' = 0
    /\ line' = IF file < Len(files) THEN files[file + 1].start ELSE line
    /\ UNCHANGED <<files, inputLimit, chunks, phase, vectors, points>>

(* Every artifact is written; a build without chunks needs no vectors. *)
StartEmbedding ==
    /\ phase = "split" /\ file > Len(files)
    /\ phase' = IF chunks = <<>> THEN "done" ELSE "embed"
    /\ UNCHANGED <<files, inputLimit, file, pos, line, chunks, vectors, points>>

-----------------------------------------------------------------------------
(* What is embedded of chunk i: its bytes up to the client's limit. *)
Text(i) ==
    [file |-> chunks[i].file, from |-> chunks[i].from,
     to |-> Min({chunks[i].to, chunks[i].from + inputLimit})]

(* The indices of the batch that follows the first `done` of n items. *)
BatchAfter(done, n, size) == done + 1 .. Min({done + size, n})

(* One request of Embed: one vector for each text of the batch, appended.  *)
EmbedBatch ==
    /\ phase = "embed" /\ Len(vectors) < Len(chunks)
    /\ LET batch == BatchAfter(Len(vectors), Len(chunks), EmbedBatchSize)
       IN  vectors' = vectors \o [k \in 1 .. Cardinality(batch) |-> Text(Min(batch) + k - 1)]
    /\ UNCHANGED <<files, inputLimit, file, pos, line, chunks, phase, points>>

(* The pipeline goes on only with as many vectors as texts. *)
Embedded ==
    /\ phase = "embed" /\ Len(vectors) >= Len(chunks)
    /\ phase' = IF Len(vectors) = Len(chunks) THEN "upsert" ELSE "failed"
    /\ UNCHANGED <<files, inputLimit, file, pos, line, chunks, vectors, points>>

(* One upsert: the points carry the id of their chunk and its vector. *)
UpsertBatchFromFirst ==
    /\ phase = "upsert" /\ Cardinality(DOMAIN points) < Len(chunks)
    /\ LET done == Cardinality(DOMAIN points)
           batch == BatchAfter(done, Len(chunks), UpsertBatchSize)
       IN  points' = [i \in DOMAIN points \cup batch |->
                        IF i \in batch THEN vectors[i - done] ELSE points[i]]
    /\ UNCHANGED <<files, inputLimit, file, pos, line, chunks, phase, vectors>>

UpsertBatch ==
    /\ phase = "upsert" /\ Cardinality(DOMAIN points) < Len(chunks)
    /\ LET batch == BatchAfter(Cardinality(DOMAIN points), Len(chunks), UpsertBatchSize)
       IN  points' = [i \in DOMAIN points \cup batch |-> vectors[i]]
    /\ UNCHANGED <<files, inputLimit, file, pos, line, chunks, phase, vectors>>

Upserted ==
    /\ phase = "upsert" /\ Cardinality(DOMAIN points) >= Len(chunks)
    /\ phase' = "done"
    /\ UNCHANGED <<files, inputLimit, file, pos, line, chunks, vectors, points>>

(* A request that fails, or an answer of the wrong size or dimensions, ends *)
(* the pipeline; the points upserted before it stay.                        *)
RequestFails ==
    /\ phase \in {"embed", "upsert"}
    /\ phase' = "failed"
    /\ UNCHANGED <<files, inputLimit, file, pos, line, chunks, vectors, points>>

ChunkNext ==
    \/ KeepChunk \/ SplitChunk \/ NextFile \/ StartEmbedding
    \/ EmbedBatch \/ Embedded \/ UpsertBatch \/ Upserted \/ RequestFails

ChunkSpec(maxTokens) == ChunkInit(maxTokens) /\ [][ChunkNext]_chunkVars

-----------------------------------------------------------------------------
(* The line of byte i of file f: the newlines before it, from its start.   *)
LineOfByte(f, i) ==
    files[f].start + Newlines(files[f].content, 0, i - 1)

(* The chunks come file by file, and those of a file are its content: none *)
(* is empty, none is longer than the embedding limit, none begins or ends  *)
(* inside a rune, each begins where the one before it ended, and when the  *)
(* build goes on to embed, the last one ends where the file does.          *)
ChunksTile ==
    /\ \A i \in 1 .. Len(chunks) :
         LET c == chunks[i]
             content == files[c.file].content
         IN  /\ i > 1 => chunks[i - 1].file <= c.file
             /\ c.from = IF i > 1 /\ chunks[i - 1].file = c.file THEN chunks[i - 1].to ELSE 0
             /\ c.from < c.to /\ c.to <= c.from + MaxInput /\ c.to <= Len(content)
             /\ c.to < Len(content) => RuneStart(content[c.to + 1])
    /\ phase # "split" => \A f \in 1 .. Len(files) : files[f].content # <<>> =>
         \E i \in 1 .. Len(chunks) : chunks[i].file = f /\ chunks[i].to = Len(files[f].content)

(* A line of the limit or more, which is cut inside.                       *)
LongLine(content) ==
    \E j \in 0 .. Len(content) - MaxInput : \A k \in 1 .. MaxInput - 1 : content[j + k] # "nl"

(* A chunk of the parser that fits the limit keeps the parser's range.     *)
Kept(f) == f.kind = "parsed" /\ Len(f.content) <= MaxInput

(* The line range stored with a part of a raw file, or of a parser's chunk *)
(* over the limit, is the range of the lines its bytes lie on, counted     *)
(* from where the text starts, when all lines of the text are shorter than *)
(* the limit (after a cut inside a line the numbers drift).                *)
LinesExact ==
    \A i \in 1 .. Len(chunks) :
        LET c == chunks[i]
            f == files[c.file]
        IN  IF Kept(f) THEN c.StartLine = f.start /\ c.EndLine = f.end
            ELSE ~LongLine(f.content) =>
                    /\ c.StartLine = LineOfByte(c.file, c.from + 1)
                    /\ c.EndLine = LineOfByte(c.file, c.to)

(* Every point carries the vector of its own chunk's text, whatever the    *)
(* batches and the limit of the embedding client are, and a build that has *)
(* finished has a point for every chunk.                                   *)
VectorsMatch ==
    /\ \A i \in DOMAIN points : i \in DOMAIN chunks /\ points[i] = Text(i)
    /\ phase = "done" => DOMAIN points = DOMAIN chunks

Chunk == [file : Nat, from : Nat, to : Nat, StartLine : Nat, EndLine : Nat]

ChunkTypeOK ==
    /\ phase \in Phases
    /\ file \in 1 .. Len(files) + 1
    /\ pos \in Nat /\ line \in Nat
    /\ chunks \in Seq(Chunk) /\ \A i \in 1 .. Len(chunks) : chunks[i].file \in 1 .. Len(files)
    /\ vectors \in Seq({Text(i) : i \in 1 .. Len(chunks)}) /\ Len(vectors) <= Len(chunks)

(* The types, and what splitRawChunks and splitOversizedChunks must keep   *)
(* through every cut: the chunks are the content, with its line numbers.   *)
ChunksInv == ChunkTypeOK /\ ChunksTile /\ LinesExact

-----------------------------------------------------------------------------
(* Why ChunksInv and VectorsMatch hold, for all contents and limits.       *)

(* Where the splitting of the files stands: the files before this one are  *)
(* in chunks, and the next chunk of this one begins where its last ended,  *)
(* at a rune, on the line that is counted.                                 *)
SplitProgress ==
    phase = "split" =>
        /\ \A i \in 1 .. Len(chunks) : chunks[i].file <= file
        /\ \A f \in 1 .. file - 1 : files[f].content # <<>> =>
             \E i \in 1 .. Len(chunks) : chunks[i].file = f /\ chunks[i].to = Len(files[f].content)
        /\ file <= Len(files) =>
             /\ pos <= Len(Content)
             /\ pos < Len(Content) => RuneStart(Content[pos + 1])
             /\ pos = IF chunks # <<>> /\ chunks[Len(chunks)].file = file
                      THEN chunks[Len(chunks)].to ELSE 0
             /\ pos = 0 => line = files[file].start
             /\ ~LongLine(Content) /\ pos < Len(Content) => line = LineOfByte(file, pos + 1)

(* Vectors come in the order of the chunks, and points in that of both.    *)
VectorProgress ==
    /\ \A i \in 1 .. Len(vectors) : vectors[i] = Text(i)
    /\ phase = "split" => vectors = <<>>
    /\ phase \in {"upsert", "done"} => Len(vectors) = Len(chunks)
    /\ \E n \in 0 .. Len(chunks) : DOMAIN points = 1 .. n
    /\ phase \in {"split", "embed"} => DOMAIN points = {}
    /\ \A i \in DOMAIN points : points[i] = Text(i)
    /\ phase = "done" => DOMAIN points = 1 .. Len(chunks)

ChunkIInv == files \in Files /\ ChunksInv /\ SplitProgress /\ VectorProgress
=============================================================================
