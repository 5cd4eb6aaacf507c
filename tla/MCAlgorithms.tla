---------------------------- MODULE MCAlgorithms ----------------------------
(***************************************************************************)
(* The algorithms on bounded inputs.  A behaviour runs one of them: an     *)
(* ingestion takes three steps, a chunker one for each turn of its loops,  *)
(* the rules, a view and a brief one.                                      *)
(***************************************************************************)
EXTENDS ArtifactIngestion, JobSearch, BriefTools, RagChunking

vars == <<work, report, ingestionVars, chunkVars>>

Init == WorkInit /\ ReportInit /\ IngestionInit /\ ChunkInit

Begun == [work |-> work.kind # "none", report |-> report.made,
          ingestion |-> stage # "idle", chunks |-> phase # "idle"]

Alone(w) == \A other \in DOMAIN Begun \ {w} : ~Begun[other]

Working   == Alone("work") /\ WorkNext
             /\ UNCHANGED <<report, ingestionVars, chunkVars>>
Reporting == Alone("report") /\ MakeBrief
             /\ UNCHANGED <<work, ingestionVars, chunkVars>>
Ingesting == Alone("ingestion") /\ IngestionNext
             /\ UNCHANGED <<work, report, chunkVars>>
Chunking  == Alone("chunks") /\ ChunkNext
             /\ UNCHANGED <<work, report, ingestionVars>>

Next == Working \/ Reporting \/ Ingesting \/ Chunking

Spec == Init /\ [][Next]_vars

SeqsUpTo(S, n) == UNION {[1 .. k -> S] : k \in 0 .. n}

-----------------------------------------------------------------------------
(* Ingestion with a model                                                  *)

TwoChunks == <<[id |-> 101], [id |-> 102]>>

Citations == {<<>>, <<102>>, <<101, 999>>}

Item(cites) == [type |-> "clarify_scope", cites |-> cites]

\* What rules found, with an item or without.
MCFound == [entities : {<<[name |-> "x", cites |-> <<101>>]>>},
            relationships : {{}},
            signals : {<<[type |-> "technology", cites |-> <<102>>]>>},
            items : SeqsUpTo({Item(<<101>>)}, 1)]

MCExtractionReplies ==
  {Raises} \union
  [entities : SeqsUpTo([name : {"x", "y"}, cites : Citations], 2),
   relationships : {{}} \union {{x} : x \in [from : {"x"}, to : {"x", "y", "z"},
                                           cites : Citations]},
   signals : SeqsUpTo([type : {"technology"}, cites : Citations], 1),
   items : SeqsUpTo({Item(<<102>>)}, 1)]

MCItemReplies == {Raises} \union
                 [items : SeqsUpTo({Item(c) : c \in Citations}, 2)]

Step(id, purpose) == [id |-> id, profile |-> Unset, purpose |-> purpose]

\* A catalog whose flows have a profile of their own, or miss their steps.
Catalog(mode, profile, complete) ==
  [mode |-> mode, profile |-> "default",
   profiles |-> [default |-> [structured |-> TRUE, implemented |-> TRUE],
                 plain |-> [structured |-> FALSE, implemented |-> TRUE]],
   flows |-> <<[id |-> "extraction", mode |-> Unset, profile |-> profile,
                steps |-> IF complete THEN <<Step("artifact_extraction",
                                                  "structured_extraction")>>
                          ELSE <<>>],
               [id |-> "actionable_item_synthesis", mode |-> Unset,
                profile |-> Unset,
                steps |-> IF complete THEN <<Step("actionable_items",
                                                  "actionable_item_synthesis")>>
                          ELSE <<>>]>>]

MCIngestions ==
  [chunks : {TwoChunks}, found : MCFound, generated : {<<Item(<<>>)>>},
   configured : BOOLEAN, onLoop : BOOLEAN, override : {Unset, "llm"},
   catalog : {Catalog(mode, profile, complete) :
                mode \in {"deterministic", "llm", "hybrid"},
                profile \in {Unset, "plain"}, complete \in BOOLEAN}]

-----------------------------------------------------------------------------
(* Ingestion and views of the job_search domain                            *)

Marks == {"title", "company", "role_experience", "seniority", "responsibility",
          "leadership_expectation", "unusual_scope_indicator", "compensation",
          "location", "platform", "ai", "outcome", "leadership", "concern",
          "question", "theme", "risk", "next", "situation", "action",
          "competency", "python"}

\* A line that matches nothing, one list or all of them; its spaces may have to be
\* collapsed, and the second may contain the first.
Line(k) == {[text |-> k, marks |-> M, holds |-> {k}] :
             M \in {{}, Marks} \union {{m} : m \in Marks}}
           \union {[text |-> k, marks |-> Marks, holds |-> H] : H \in {{}, 1 .. k}}

\* Two lines in one chunk, in two, or in two that overlap, or that cut the second.
Cut(text, how) ==
  LET Chunk(k, lines) == [id |-> 100 + k, lines |-> lines]
      Half(k) == [text |-> 10 + k, marks |-> {}, holds |-> {10 + k}]
  IN CASE how = "one"     -> <<Chunk(1, text)>>
       [] how = "two"     -> <<Chunk(1, <<text[1]>>), Chunk(2, <<text[2]>>)>>
       [] how = "overlap" -> <<Chunk(1, text), Chunk(2, <<text[2]>>)>>
       [] how = "cut"     -> <<Chunk(1, <<text[1], Half(1)>>),
                               Chunk(2, <<Half(2)>>)>>

\* Ten lines that match some lists.
LongText(marks) ==
  [k \in 1 .. 10 |-> [text |-> k, marks |-> marks, holds |-> {k}]]

MCSubmissions ==
  {[type |-> type, text |-> <<one, two>>, chunks |-> Cut(<<one, two>>, how)] :
     type \in ArtifactTypes, one \in Line(1), two \in Line(2),
     how \in {"one", "two", "overlap", "cut"}}
  \union {[type |-> type, text |-> LongText({"responsibility"}),
           chunks |-> <<[id |-> 101, lines |-> LongText({"responsibility"})]>>] :
              type \in ArtifactTypes}

\* The context of a view: two artifacts, of which the first was listed and the
\* second may have been ingested too late for its chunks to be listed.
Context(types, text, late) ==
  LET Chunks(k) == <<[id |-> 100 + k, artifact |-> k],
                     [id |-> 110 + k, artifact |-> k]>>
      Result(k) == Ingest(types[k], text, <<[id |-> 100 + k, lines |-> text],
                                            [id |-> 110 + k, lines |-> <<>>]>>)
      From(records, k) == [i \in DOMAIN records |->
                            [type |-> records[i].type, artifact |-> k,
                             cites |-> records[i].cites]]
  IN [chunks    |-> Chunks(1) \o (IF late THEN <<>> ELSE Chunks(2)),
      artifacts |-> IF late THEN <<types[1]>> ELSE types,
      signals   |-> From(Result(2).signals, 2) \o From(Result(1).signals, 1),
      items     |-> From(Result(2).items, 2) \o From(Result(1).items, 1)]

MCViewRequests ==
  [context : {Context(types, text, late) :
                types \in [1 .. 2 -> ArtifactTypes], late \in BOOLEAN,
                text \in {Take(LongText(Marks), 1), LongText(Marks)}},
   view : Views,
   step : {[mode |-> "hybrid", profile |-> [structured |-> TRUE,
                                            implemented |-> TRUE]]},
   onLoop : {FALSE},
   reply : {[sections |-> <<cited>>] : cited \in SeqsUpTo(1 .. 3, 2)}]

-----------------------------------------------------------------------------
(* Chunking and briefs                                                     *)

Texts(n) == SeqsUpTo({"x", Stop, Space}, n)

\* Documents of one section, or of a short one and one that is split.
MCDocuments == {<<text>> : text \in Texts(6)}
               \union {<<text, <<"x", Space, "x">>>> : text \in Texts(2)}

MCArtifacts == Texts(3)
MCLimits == 1 .. 4

MCSettings == {s \in [size : (1 .. 4) \union {6}, overlap : 0 .. 3] :
                 s.overlap < s.size}

Notes == {Blank} \union
         [key : {1, 2}, terms : {{}, {"budget"}},
          marks : SUBSET {"decision", "action", "negative", "positive"}]

\* One or two notes of every kind, or ten of one kind: more than a section lists.
MCNoteLists ==
  SeqsUpTo(Notes, 2)
    \union {[i \in 1 .. 10 |-> [key |-> i, marks |-> M, terms |-> {}]] :
              M \in SUBSET {"decision", "action"}}
=============================================================================
