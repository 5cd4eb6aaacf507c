----------------------------- MODULE RagChunking -----------------------------
(***************************************************************************)
(* How texts are cut: the sections of a document into chunks for retrieval *)
(* (services/rag/chunking.py), a chunk again when the embedding provider   *)
(* finds it too long (services/rag/local_postgres.py), and an artifact by  *)
(* the Context Engine's default chunker (core/context_engine/chunking.py). *)
(* Each step is one turn of a loop of the code.  A text is a sequence of   *)
(* characters, a chunk the record of its section and of its first and last *)
(* position there.                                                         *)
(***************************************************************************)
EXTENDS Integers, Sequences, FiniteSets, FiniteSetsExt

CONSTANTS
  MinSize,    \* the smallest chunk size allowed, 100 in the code
  Documents,  \* documents, each the sequence of the texts of its sections
  Artifacts,  \* texts of artifacts
  Settings,   \* configured sizes and overlaps, as both chunkers accept them
  Limits      \* the longest input that an embedding provider may take

ASSUME ChunkingAssumption ==
  /\ MinSize \in Nat \ {0}
  /\ Documents \subseteq Seq(Seq(STRING))
  /\ Artifacts \subseteq Seq(STRING)
  /\ Settings \subseteq {s \in [size: Nat, overlap: Nat] : s.overlap < s.size}
  /\ Limits \subseteq Nat

VARIABLES
  phase,    \* where the ingestion is, or how it ended
  doc,      \* the normalized texts, their settings and the provider's limit
  section,  \* how many sections build_rag_chunks has begun
  job,      \* the text that is being split: all of a section or one chunk
  start,    \* the position before the next window
  cut,      \* the chunks of the job so far
  pending,  \* the chunks that are not embedded
  embedded  \* those that are

cutting   == <<job, start, cut>>
chunkVars == <<phase, doc, section, cutting, pending, embedded>>

Space == " "
Stop  == "."

Least(a, b) == IF a < b THEN a ELSE b
Most(a, b)  == IF a > b THEN a ELSE b

TextChunk == [section: Nat, from: Nat, to: Nat]

Length(chunk) == chunk.to - chunk.from + 1

NoDoc == [texts |-> <<>>, size |-> 1, overlap |-> 0, limit |-> 0]
NoJob == [section |-> 0, from |-> 1, to |-> 0, size |-> 1, overlap |-> 0]

ChunkTypeOK ==
  /\ phase \in {"idle", "cutting", "embedding", "artifact", "stored", "empty",
                "tooLong", "refused", "chunked"}
  /\ doc \in [texts: Seq(Seq(STRING)), size: Nat, overlap: Nat, limit: Nat]
  /\ section \in 0 .. Len(doc.texts)
  /\ job \in [section: Nat, from: Nat, to: Nat, size: Nat, overlap: Nat]
  /\ start \in Nat
  /\ {cut, pending, embedded} \subseteq Seq(TextChunk)

ChunkInit ==
  /\ phase = "idle" /\ doc = NoDoc /\ section = 0
  /\ job = NoJob /\ start = 0 /\ cut = <<>>
  /\ pending = <<>> /\ embedded = <<>>

-----------------------------------------------------------------------------
(* Splitting a text                                                        *)

\* A run of white space becomes one space and none is left at the ends.
NormalizeText(text) ==
  LET kept == {i \in DOMAIN text :
                 \/ text[i] # Space
                 \/ /\ i > 1 /\ text[i - 1] # Space
                    /\ \E j \in i + 1 .. Len(text) : text[j] # Space}
      Nth(n) == CHOOSE p \in kept : Cardinality({q \in kept : q <= p}) = n
  IN [n \in 1 .. Cardinality(kept) |-> text[Nth(n)]]

\* Where the window of positions start + 1 .. hardEnd ends: after its last full
\* stop and space, else after its last space, if that is in the window's second
\* half; a normalized text has no other white space.  The text ends at to.
FindSplitPoint(text, to, start_, hardEnd) ==
  LET far    == start_ + Most(1, (hardEnd - start_) \div 2)
      stops  == {e \in far + 2 .. hardEnd : text[e - 1] = Stop /\ text[e] = Space}
      spaces == {e \in far + 1 .. hardEnd : text[e] = Space}
  IN IF hardEnd >= to THEN hardEnd
     ELSE IF stops # {} THEN Max(stops)
     ELSE IF spaces # {} THEN Max(spaces)
     ELSE hardEnd

\* The positions start_ + 1 .. end without the spaces at their ends.
Strip(k, text, start_, end) ==
  LET solid == {p \in start_ + 1 .. end : text[p] # Space}
  IN IF solid = {} THEN <<>>
     ELSE <<[section |-> k, from |-> Min(solid), to |-> Max(solid)]>>

\* Mutant: the next chunk skips a character.
NextStart_Skips(end, start_, overlap) == Most(end - overlap + 1, start_ + 1)

NextStart(end, start_, overlap) == Most(end - overlap, start_ + 1)

\* split_text_into_chunks is called; a chunk of a normalized text is normalized.
Split(k, from, to, size, overlap) ==
  /\ job' = [section |-> k, from |-> from, to |-> to, size |-> size,
             overlap |-> overlap]
  /\ start' = from - 1 /\ cut' = <<>>

Splitting == phase \in {"cutting", "embedding"} /\ job # NoJob /\ start < job.to

\* A text of at most the chunk size is one chunk.
KeepShort ==
  /\ Splitting /\ Length(job) <= job.size
  /\ cut' = <<[section |-> job.section, from |-> job.from, to |-> job.to]>>
  /\ start' = job.to
  /\ UNCHANGED <<phase, doc, section, job, pending, embedded>>

\* One turn of the loop; the one that reaches the end is the last.
CutWindow ==
  /\ Splitting /\ Length(job) > job.size
  /\ LET text == doc.texts[job.section]
         end  == FindSplitPoint(text, job.to, start, Least(start + job.size, job.to))
     IN /\ cut' = cut \o Strip(job.section, text, start, end)
        /\ start' = IF end >= job.to THEN job.to
                    ELSE NextStart(end, start, job.overlap)
  /\ UNCHANGED <<phase, doc, section, job, pending, embedded>>

SplitReturns == job # NoJob /\ start = job.to

NothingToSplit == job' = NoJob /\ start' = 0 /\ cut' = <<>>

-----------------------------------------------------------------------------
(* Ingestion of a document                                                 *)

\* build_rag_chunks refuses sizes below the smallest.
ReceiveDocument ==
  /\ phase = "idle"
  /\ \E d \in Documents, s \in Settings, limit \in Limits :
       /\ s.size >= MinSize
       /\ doc' = [texts |-> [k \in 1 .. Len(d) |-> NormalizeText(d[k])],
                  size |-> s.size, overlap |-> s.overlap, limit |-> limit]
  /\ phase' = "cutting"
  /\ UNCHANGED <<section, cutting, pending, embedded>>

NextSection ==
  /\ phase = "cutting" /\ job = NoJob /\ section < Len(doc.texts)
  /\ section' = section + 1
  /\ Split(section', 1, Len(doc.texts[section']), doc.size, doc.overlap)
  /\ UNCHANGED <<phase, doc, pending, embedded>>

SectionIsSplit ==
  /\ phase = "cutting" /\ SplitReturns
  /\ pending' = pending \o cut
  /\ NothingToSplit
  /\ UNCHANGED <<phase, doc, section, embedded>>

\* A document without text is refused.
EmbeddingBegins ==
  /\ phase = "cutting" /\ job = NoJob /\ section = Len(doc.texts)
  /\ phase' = IF pending = <<>> THEN "empty" ELSE "embedding"
  /\ UNCHANGED <<doc, section, cutting, pending, embedded>>

Embedding == phase = "embedding" /\ job = NoJob /\ pending # <<>>

Embed ==
  /\ Embedding /\ Length(Head(pending)) <= doc.limit
  /\ embedded' = Append(embedded, Head(pending))
  /\ pending' = Tail(pending)
  /\ UNCHANGED <<phase, doc, section, cutting>>

\* Mutant: the configured size, whatever the chunk.
SplitSize_Configured(chunk, size) == Most(MinSize, size)

SplitSize(chunk, size) == Most(MinSize, Least(size, Length(chunk) \div 2))

\* The provider finds a chunk too long.  It is split, and waits at the head of
\* pending for its pieces to take its place.
SplitPreparedChunk ==
  /\ Embedding /\ Length(Head(pending)) > Most(doc.limit, MinSize)
  /\ LET chunk == Head(pending)
         half  == SplitSize(chunk, doc.size)
     IN Split(chunk.section, chunk.from, chunk.to, half,
              Least(doc.overlap, half \div 10))
  /\ UNCHANGED <<phase, doc, section, pending, embedded>>

ChunkIsSplit ==
  /\ phase = "embedding" /\ SplitReturns
  /\ IF Len(cut) <= 1
     THEN phase' = "tooLong" /\ UNCHANGED pending
     ELSE pending' = cut \o Tail(pending) /\ UNCHANGED phase
  /\ NothingToSplit
  /\ UNCHANGED <<doc, section, embedded>>

\* A chunk that is too long and as short as allowed fails the ingestion.
GiveUp ==
  /\ Embedding
  /\ Length(Head(pending)) > doc.limit /\ Length(Head(pending)) <= MinSize
  /\ phase' = "tooLong"
  /\ UNCHANGED <<doc, section, cutting, pending, embedded>>

\* Any other error of the provider does so too.
ProviderFails ==
  /\ Embedding
  /\ phase' = "refused"
  /\ UNCHANGED <<doc, section, cutting, pending, embedded>>

StoreChunks ==
  /\ phase = "embedding" /\ job = NoJob /\ pending = <<>>
  /\ phase' = "stored"
  /\ UNCHANGED <<doc, section, cutting, pending, embedded>>

-----------------------------------------------------------------------------
(* An artifact of the Context Engine                                       *)

ReceiveArtifact ==
  /\ phase = "idle"
  /\ \E text \in Artifacts, s \in Settings :
       /\ doc' = [texts |-> <<text>>, size |-> s.size, overlap |-> s.overlap,
                  limit |-> 0]
       /\ Split(1, 1, Len(text), s.size, s.overlap)
  /\ phase' = "artifact" /\ section' = 1
  /\ UNCHANGED <<pending, embedded>>

\* Mutant: the overlap is added to the start.
WindowStart_Adds(end, overlap) == end + overlap

\* Each window takes up the last characters of the one before.
WindowStart(end, overlap) == end - overlap

\* One turn of the loop of SimpleTextChunker.chunk.
CutSimple ==
  /\ phase = "artifact" /\ start < job.to
  /\ LET end == Least(job.to, start + job.size)
     IN /\ cut' = Append(cut, [section |-> 1, from |-> start + 1, to |-> end])
        /\ start' = IF end = job.to THEN job.to ELSE WindowStart(end, job.overlap)
  /\ UNCHANGED <<phase, doc, section, job, pending, embedded>>

ArtifactIsCut ==
  /\ phase = "artifact" /\ start >= job.to
  /\ phase' = "chunked"
  /\ UNCHANGED <<doc, section, cutting, pending, embedded>>

-----------------------------------------------------------------------------
ChunkNext ==
  \/ KeepShort \/ CutWindow
  \/ ReceiveDocument \/ NextSection \/ SectionIsSplit \/ EmbeddingBegins
  \/ Embed \/ SplitPreparedChunk \/ ChunkIsSplit \/ GiveUp \/ ProviderFails
  \/ StoreChunks
  \/ ReceiveArtifact \/ CutSimple \/ ArtifactIsCut

ChunkSpec == ChunkInit /\ [][ChunkNext]_chunkVars

-----------------------------------------------------------------------------
(* Properties                                                              *)

SectionText(k) == doc.texts[k]

Holds(chunks, k, p) ==
  \E i \in DOMAIN chunks :
    chunks[i].section = k /\ p \in chunks[i].from .. chunks[i].to

\* A stored document has every character of its sections but spaces in a chunk
\* that was embedded, and none longer than the provider takes
\* (build_rag_chunks, _embed_prepared_chunks).
StoredChunksCoverText ==
  phase = "stored" =>
    /\ \A k \in DOMAIN doc.texts : \A p \in DOMAIN SectionText(k) :
         SectionText(k)[p] # Space => Holds(embedded, k, p)
    /\ \A i \in DOMAIN embedded :
         Length(embedded[i]) \in 1 .. Least(doc.limit, doc.size)

\* A document is refused as too long only by a provider that does not take the
\* smallest chunks: splitting a longer one always gives several, all shorter;
\* and as empty only if there is nothing in it (_split_prepared_chunk_for_retry).
IngestionsFailForAReason ==
  /\ phase = "tooLong" => doc.limit < MinSize
  /\ phase = "empty" => \A k \in DOMAIN doc.texts : SectionText(k) = <<>>

\* The chunks of a text advance and every turn of the loop moves on, also where
\* the overlap takes it back further than the last split point; so the loop
\* ends, and a chunk is split into shorter ones (split_text_into_chunks).
CutsAdvance ==
  job # NoJob =>
    /\ Len(cut) <= start - job.from + 1
    /\ \A i \in 2 .. Len(cut) : /\ cut[i - 1].from <= cut[i].from
                                /\ cut[i - 1].to <= cut[i].to
    /\ \A i \in DOMAIN cut : Length(cut[i]) \in 1 .. job.size
    /\ phase = "embedding" => job.size < Length(job)

\* An artifact's chunks leave no character out, and their offsets rebuild the
\* text (SimpleTextChunker.chunk).
ArtifactChunksCoverText ==
  phase = "chunked" => \A p \in DOMAIN SectionText(1) : Holds(cut, 1, p)

\* No text is lost between a document and its embedded chunks, nor between an
\* artifact and its chunks, and both cuts end (chunking.py of either engine,
\* local_postgres.py).
ChunksCoverText ==
  /\ StoredChunksCoverText /\ IngestionsFailForAReason
  /\ CutsAdvance /\ ArtifactChunksCoverText
=============================================================================
