---------------------------- MODULE ContextModel ----------------------------
(***************************************************************************)
(* The model-assisted steps of the Context Engine                          *)
(* (core/context_engine/llm.py and domains/job_search/llm.py): how a step  *)
(* is configured and run, what becomes of the model's output, and which    *)
(* part of the context a synthesis prompt shows.  A model's output is      *)
(* abstracted to what its validation looks at: the chunks its records      *)
(* cite (an empty excerpt counts as a chunk nobody has) and the entity     *)
(* names its relationships use.  Chunk ids are integers above the compact  *)
(* ids 1, 2, ... of a prompt.                                              *)
(***************************************************************************)
EXTENDS Naturals, Sequences, SequencesExt, Lists

Raises == [raises |-> TRUE]  \* an exception, whatever its message

Unset == "unset"             \* an optional setting that is absent

Ids(records) == {records[i].id : i \in DOMAIN records}

-----------------------------------------------------------------------------
(* Configuration and execution                                             *)

\* The flow and the step are the first with their id; the profile is the step's,
\* else the flow's, else the catalog's, and has to be configured; the mode is
\* the setting's, else the flow's, else the catalog's.
ResolveStep(catalog, flowId, stepId, purpose, override) ==
  LET flows == SelectSeq(catalog.flows, LAMBDA f : f.id = flowId)
      steps == SelectSeq(flows[1].steps, LAMBDA s : s.id = stepId)
      FirstSet(options) == SelectSeq(options, LAMBDA x : x # Unset)
      profiles == FirstSet(<<steps[1].profile, flows[1].profile, catalog.profile>>)
  IN IF \/ flows = <<>>
        \/ steps = <<>>
        \/ steps[1].purpose # purpose
        \/ profiles = <<>>
        \/ profiles[1] \notin DOMAIN catalog.profiles
     THEN Raises
     ELSE [mode |-> FirstSet(<<override, flows[1].mode, catalog.mode>>)[1],
           profile |-> catalog.profiles[profiles[1]]]

\* What the output schemas require of a reply: at least one reference everywhere,
\* at least one section.
ValidExtraction(output) ==
  /\ \A s \in {output.entities, output.signals, output.items} :
       \A i \in DOMAIN s : s[i].cites # <<>>
  /\ \A x \in output.relationships : x.cites # <<>>

ValidPerspective(output) ==
  /\ output.sections # <<>>
  /\ \A i \in DOMAIN output.sections : output.sections[i] # <<>>

ValidItems(output) == \A i \in DOMAIN output.items : output.items[i].cites # <<>>

\* The runner refuses a profile it cannot serve and a call from the event loop;
\* otherwise the provider fails or gives an answer, which its schema may refuse.
RunStructured(step, onLoop, reply, valid) ==
  IF \/ ~step.profile.structured \/ ~step.profile.implemented
     \/ onLoop
     \/ reply = Raises
     \/ ~valid
  THEN Raises ELSE reply

-----------------------------------------------------------------------------
(* From the model's output to records                                      *)

\* A record has to cite something, and only chunks of the artifact.
Unsourced(record, chunks) ==
  \/ record.cites = <<>>
  \/ \E i \in DOMAIN record.cites : record.cites[i] \notin Ids(chunks)

AnyUnsourced(records, chunks) ==
  \E i \in DOMAIN records : Unsourced(records[i], chunks)

\* The places of the entities with a name; the last of them keeps it.
Named(output, name) == {i \in DOMAIN output.entities :
                          output.entities[i].name = name}

Latest(S) == CHOOSE i \in S : \A j \in S : j <= i

\* A relationship between names no entity has is dropped, before its sources are
\* looked at.
Resolved(output) == {x \in output.relationships :
                       Named(output, x.from) # {} /\ Named(output, x.to) # {}}

\* A stored relationship holds the places of its entities.
Placed(output, x) == [from |-> x.from, to |-> x.to, cites |-> x.cites,
                      source |-> Latest(Named(output, x.from)),
                      target |-> Latest(Named(output, x.to))]

\* Relationships are a set: nothing depends on their order.
MapExtractionOutput(output, chunks) ==
  IF \/ \E s \in {output.entities, output.signals, output.items} :
            AnyUnsourced(s, chunks)
     \/ \E x \in Resolved(output) : Unsourced(x, chunks)
  THEN Raises
  ELSE [entities |-> output.entities,
        relationships |-> {Placed(output, x) : x \in Resolved(output)},
        signals |-> output.signals,
        items |-> output.items]

HasOutputs(result) ==
  \/ result.entities # <<>> \/ result.relationships # {}
  \/ result.signals # <<>>  \/ result.items # <<>>

\* Mutant: the places of the model's entities are not moved.
Join_Unmoved(one, two) ==
  [entities |-> one.entities \o two.entities,
   relationships |-> one.relationships \union two.relationships,
   signals |-> one.signals \o two.signals,
   items |-> one.items \o two.items]

\* What a relationship calls its i-th entity comes after n others (in the code,
\* entities have ids of their own).
Moved(x, n) == [from |-> x.from, to |-> x.to, cites |-> x.cites,
                source |-> x.source + n, target |-> x.target + n]

\* The lists of two results.
Join(one, two) ==
  [entities |-> one.entities \o two.entities,
   relationships |-> one.relationships
     \union {Moved(x, Len(one.entities)) : x \in two.relationships},
   signals |-> one.signals \o two.signals,
   items |-> one.items \o two.items]

\* Mutant: the model's part replaces the extractor's.
ExtractWithExecution_Replaces(deterministic, chunks, step, onLoop, reply) ==
  LET output == RunStructured(step, onLoop, reply, ValidExtraction(reply))
      modelled == MapExtractionOutput(output, chunks)
  IN IF \/ step = Raises
        \/ step.mode = "deterministic"
        \/ output = Raises
        \/ modelled = Raises
     THEN deterministic ELSE modelled

\* The step is Raises when it cannot be resolved or nothing is configured; every
\* failure leaves the extractor's own result.
ExtractWithExecution(deterministic, chunks, step, onLoop, reply) ==
  LET output == RunStructured(step, onLoop, reply, ValidExtraction(reply))
      modelled == MapExtractionOutput(output, chunks)
  IN IF \/ step = Raises
        \/ step.mode = "deterministic"
        \/ output = Raises
        \/ modelled = Raises
        \/ step.mode = "llm" /\ ~HasOutputs(modelled)
     THEN deterministic
     ELSE IF step.mode = "llm" THEN modelled ELSE Join(deterministic, modelled)

\* Mutant: the model's items replace all others.
GenerateWithExecution_Replaces(current, generated, chunks, step, onLoop, reply) ==
  LET output == RunStructured(step, onLoop, reply, ValidItems(reply))
  IN IF step = Raises \/ output = Raises \/ AnyUnsourced(output.items, chunks)
     THEN current \o generated
     ELSE output.items

\* Items that extraction found stay; the generator's are refined or replaced.
GenerateWithExecution(current, generated, chunks, step, onLoop, reply) ==
  LET output == RunStructured(step, onLoop, reply, ValidItems(reply))
  IN IF \/ step = Raises
        \/ step.mode = "deterministic"
        \/ output = Raises
        \/ AnyUnsourced(output.items, chunks)
        \/ step.mode = "llm" /\ output.items = <<>>
     THEN current \o generated
     ELSE IF step.mode = "llm" THEN current \o output.items
     ELSE current \o generated \o output.items

-----------------------------------------------------------------------------
(* What a synthesis prompt shows                                           *)

Sources(records) == Flat([i \in DOMAIN records |-> records[i].cites])

OfTypes(records, types) == Where(records, LAMBDA x : x.type \in types)

\* Mutant: chunks that are not in the context are kept.
SelectPerspectiveChunks_Unknown(context, evidence, graph) ==
  Take(Distinct(evidence
         \o Sources(OfTypes(context.signals, graph.signalTypes))
         \o Sources(OfTypes(context.items, graph.itemTypes))), graph.chunkLimit)

\* Chunks the deterministic view, the signals and the items cite, as far as the
\* graph depends on them, then the chunks of the fallback artifact types.
SelectPerspectiveChunks(context, evidence, graph) ==
  LET If(node, ids) == IF node \in graph.dependsOn THEN ids ELSE <<>>
      ids == If("deterministic_view", evidence)
             \o If("signals", Sources(OfTypes(context.signals, graph.signalTypes)))
             \o If("actionable_items",
                   Sources(OfTypes(context.items, graph.itemTypes)))
      selected == Distinct(Where(ids, LAMBDA c : c \in Ids(context.chunks)))
      others == Where(context.chunks,
                  LAMBDA c : /\ c.id \notin Range(selected)
                             /\ c.artifact \in DOMAIN context.artifacts
                             /\ context.artifacts[c.artifact] \in graph.fallback)
      all == IF Len(selected) < graph.chunkLimit
             THEN selected \o [i \in DOMAIN others |-> others[i].id]
             ELSE selected
  IN Take(Distinct(all), graph.chunkLimit)

\* A record is shown when it cites a selected chunk or an artifact of one.
HasSelectedSource(record, context, selected) ==
  \/ \E i \in DOMAIN record.cites : record.cites[i] \in Range(selected)
  \/ \E i \in DOMAIN context.chunks :
       /\ context.chunks[i].id \in Range(selected)
       /\ context.chunks[i].artifact = record.artifact

\* The order in which the prompt meets chunk ids: the k-th is shown as k.
PromptChunkIds(context, evidence, graph) ==
  LET selected == SelectPerspectiveChunks(context, evidence, graph)
      Shown(records, types, limit) ==
        Sources(Take(Where(OfTypes(records, types),
          LAMBDA x : HasSelectedSource(x, context, selected)), limit))
  IN Distinct(evidence \o selected
                  \o Shown(context.signals, graph.signalTypes, graph.signalLimit)
                  \o Shown(context.items, graph.itemTypes, graph.itemLimit))

\* Mutant: the model's ids are taken as they come.
OriginalChunkId_AsReturned(ids, returned) == returned

\* An id the model returns: one of the prompt's, or taken as an original.
OriginalChunkId(ids, returned) ==
  IF returned \in DOMAIN ids THEN ids[returned] ELSE returned

\* The synthesized sections, each with the chunks it cites, or an exception when
\* one of them, or its artifact, is not in the context.
MapPerspectiveOutput(output, context, ids) ==
  LET cites == [i \in DOMAIN output.sections |->
                 [j \in DOMAIN output.sections[i] |->
                   OriginalChunkId(ids, output.sections[i][j])]]
      known == {c.id : c \in {x \in Range(context.chunks) :
                               x.artifact \in DOMAIN context.artifacts}}
  IN IF \A i \in DOMAIN cites : Range(cites[i]) \subseteq known
     THEN [sections |-> cites] ELSE Raises

\* The sections of the view, with the evidence of the builder's own sections when
\* the model is not wanted or fails.
BuildWithExecution(evidence, context, graph, step, onLoop, reply) ==
  LET output == RunStructured(step, onLoop, reply, ValidPerspective(reply))
      mapped == MapPerspectiveOutput(output, context,
                  PromptChunkIds(context, evidence, graph))
      deterministic == [sections |-> <<evidence>>]
  IN CASE step = Raises -> deterministic
       [] step.mode = "deterministic" -> deterministic
       [] output = Raises -> deterministic
       [] mapped = Raises -> deterministic
       [] OTHER -> mapped
=============================================================================
