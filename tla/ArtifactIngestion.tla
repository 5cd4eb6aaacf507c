-------------------------- MODULE ArtifactIngestion --------------------------
(***************************************************************************)
(* What an ingestion makes of one artifact before it is stored             *)
(* (core/context_engine/service.py with the wrappers of                    *)
(* domains/job_search/llm.py): the rules of the extractor that accepts its *)
(* type find records, a model may add to them or replace them, the task    *)
(* generator adds items, and a model may refine those.  What a model       *)
(* replies is any record of the output schema's fields, or an exception.   *)
(* In job_search one extractor accepts each type and one generator runs.   *)
(***************************************************************************)
EXTENDS ContextModel

CONSTANTS
  Ingestions,        \* what an ingestion is given: the chunks of the artifact,
                     \* what rules find and generate, and its execution context
  ExtractionReplies, \* what a model may reply to the extraction prompt
  ItemReplies        \* and to the prompt for actionable items

ChunkLists == Seq([id : Nat])

\* Records, as far as validation looks at them.
Entities  == Seq([name : STRING, cites : Seq(Nat)])
Signals   == Seq([type : STRING, cites : Seq(Nat)])
Items     == Seq([type : STRING, cites : Seq(Nat)])
Links     == SUBSET [from : STRING, to : STRING, cites : Seq(Nat)]
Relations == SUBSET [from : STRING, to : STRING, cites : Seq(Nat),
                     source : Nat, target : Nat]

Outputs == [entities : Entities, relationships : Relations,
            signals : Signals, items : Items]

NoOutputs == [entities |-> <<>>, relationships |-> {},
              signals |-> <<>>, items |-> <<>>]

\* A record cites something, and only chunks of the artifact.
Grounded(record, chunks) ==
  /\ record.cites # <<>>
  /\ \A i \in DOMAIN record.cites : record.cites[i] \in Ids(chunks)

\* So do all records of a result, and its relationships join the entities whose
\* names they were given.
AllGrounded(result, chunks) ==
  /\ \A i \in DOMAIN result.entities : Grounded(result.entities[i], chunks)
  /\ \A i \in DOMAIN result.signals : Grounded(result.signals[i], chunks)
  /\ \A x \in result.relationships :
       /\ Grounded(x, chunks)
       /\ {x.source, x.target} \subseteq DOMAIN result.entities
       /\ result.entities[x.source].name = x.from
       /\ result.entities[x.target].name = x.to

\* The rules attribute what they find to chunks of the artifact, and the
\* generator has something to do for every artifact.
ASSUME IngestionAssumption ==
  /\ \A r \in Ingestions :
       /\ r.chunks \in ChunkLists /\ r.found \in Outputs
       /\ r.generated \in Items /\ r.generated # <<>>
       /\ AllGrounded(r.found, r.chunks)
       /\ \A i \in DOMAIN r.found.items : Grounded(r.found.items[i], r.chunks)
  /\ ExtractionReplies \ {Raises} \subseteq
       [entities : Entities, relationships : Links, signals : Signals, items : Items]
  /\ ItemReplies \ {Raises} \subseteq [items : Items]

VARIABLES
  asked,     \* what the ingestion was given
  stage,     \* how far it is
  extracted, \* history: what extraction gave
  outputs    \* the records collected so far

ingestionVars == <<asked, stage, extracted, outputs>>

IngestionInit ==
  /\ asked = "nothing" /\ stage = "idle"
  /\ extracted = NoOutputs /\ outputs = NoOutputs

\* A step of the configured execution context, if there is one.
StepOf(r, flowId, stepId, purpose) ==
  IF r.configured THEN ResolveStep(r.catalog, flowId, stepId, purpose, r.override)
  ELSE Raises

ExtractionStep(r) ==
  StepOf(r, "extraction", "artifact_extraction", "structured_extraction")

ItemsStep(r) ==
  StepOf(r, "actionable_item_synthesis", "actionable_items",
         "actionable_item_synthesis")

IngestArtifact ==
  /\ stage = "idle"
  /\ asked' \in Ingestions
  /\ stage' = "extract"
  /\ UNCHANGED <<extracted, outputs>>

Extract ==
  /\ stage = "extract"
  /\ \E reply \in ExtractionReplies :
       outputs' = ExtractWithExecution(asked.found, asked.chunks,
                    ExtractionStep(asked), asked.onLoop, reply)
  /\ extracted' = outputs'
  /\ stage' = "generate"
  /\ UNCHANGED asked

GenerateTasks ==
  /\ stage = "generate"
  /\ \E reply \in ItemReplies :
       outputs' = [outputs EXCEPT
                    !.items = GenerateWithExecution(@, asked.generated, asked.chunks,
                                ItemsStep(asked), asked.onLoop, reply)]
  /\ stage' = "store"
  /\ UNCHANGED <<asked, extracted>>

IngestionNext == IngestArtifact \/ Extract \/ GenerateTasks

IngestionSpec == IngestionInit /\ [][IngestionNext]_ingestionVars

-----------------------------------------------------------------------------
(* Properties                                                              *)

\* What is stored cites chunks of the artifact whatever a model replies, and a
\* relationship joins the entities whose names it was given, although those of
\* the model come after those of the rules; only the items of the generator name
\* no chunk (_map_extraction_output, _source_links, extract_with_execution).
ExtractionIsGrounded ==
  stage \in {"generate", "store"} =>
    /\ AllGrounded(outputs, asked.chunks)
    /\ \A i \in DOMAIN outputs.items :
         \/ Grounded(outputs.items[i], asked.chunks)
         \/ \E j \in DOMAIN asked.generated : outputs.items[i] = asked.generated[j]

\* Unless the mode lets a model replace them, what the rules found is kept, first
\* and in order, also when the model fails or answers nonsense; and when it may
\* replace them, never by nothing (extract_with_execution).
RulesAreKept ==
  stage \in {"generate", "store"} =>
    LET step == ExtractionStep(asked) IN
      IF step # Raises /\ step.mode = "llm"
      THEN HasOutputs(asked.found) => HasOutputs(extracted)
      ELSE /\ IsPrefix(asked.found.entities, extracted.entities)
           /\ asked.found.relationships \subseteq extracted.relationships
           /\ IsPrefix(asked.found.signals, extracted.signals)
           /\ IsPrefix(asked.found.items, extracted.items)

\* Task generation keeps what extraction gave in every mode, and the artifact ends
\* with at least one item more (generate_with_execution).
FoundItemsStay ==
  stage = "store" =>
    /\ outputs = [extracted EXCEPT !.items = outputs.items]
    /\ IsPrefix(extracted.items, outputs.items)
    /\ Len(outputs.items) > Len(extracted.items)

\* What a model may change of an ingestion: the three parts above, which guard
\* against invented sources, misplaced entities and lost findings (llm.py,
\* extract_with_execution and generate_with_execution).
ModelStepsAreGrounded == ExtractionIsGrounded /\ RulesAreKept /\ FoundItemsStay

\* The records have the fields of their kinds, and generation starts from what
\* extraction gave (service.py, ingest_artifact).
IngestionTypeOK ==
  /\ stage \in {"idle", "extract", "generate", "store"}
  /\ stage # "idle" => asked \in Ingestions
  /\ extracted \in Outputs /\ outputs \in Outputs
  /\ stage = "generate" => outputs = extracted

\* The invariant from which the properties follow.
IngestionInv == IngestionTypeOK /\ ModelStepsAreGrounded
=============================================================================
