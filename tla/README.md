# Verification of demo-service

TLA+ models of the parts of demo-service in which several actors share state,
the TLC runs that check them on small instances, and TLAPS proofs for every
instance. `PROJECT.json` lists components, runs, mutants, the map from
definitions to source lines, findings, hazards and theorems.

## The system

demo-service has a Python backend (FastAPI, SQLAlchemy), a Rust SIP gateway
(`rust-sbc-gateway`) and a Rust text service (`text-tools`).

| Component | State | Operations | Interacts with |
|---|---|---|---|
| Gateway: SIP engine (`sip_engine.rs`, `bridge.rs`) | pending invites, dialogs, cached BYE responses, RTP port pool, outbound transactions; one task that owns all of it | INVITE, BYE, CANCEL, responses; setup results; backend end; cleanup on each INVITE, BYE and setup result | callers over UDP, a setup task and bridge tasks per call (channels), the backend's WebSocket |
| Gateway: control API (`main.rs`, `state.rs`) | session registry, its own port pool | create session, update state, start transfer, media stream | the SIP engine (command channel), an RTP sender task per transfer |
| Invitations (`routes/access.py`, `routes/invitations_admin.py`, `services/invite_fulfillment.py`, `email.py`) | codes, redemptions, requests | create, deactivate, redeem; request, fulfill in the background, review, issue | SMTP, an LLM for the wording |
| Runs (`routes/runs.py`, `services/runs.py`, `workflow_executor.py`, `follow_up.py`, `run_ingestion.py`) | one row per run, events | draft, sample, ingest, preference, submit, execute, follow up | LLM agents, text-tools, SMS |
| SMS (`notifications.py`, `sms_ai.py`, `twilio.py`, `webhooks.py`) | opt-outs, conversations, messages | preference, completion notice, inbound reply | Twilio, an LLM |
| RAG (`routes/rag.py`, `services/rag`) | personas, documents, chunks, conversations, turns | persona CRUD, upload and link, chat turn | embeddings, LLM |
| Voice (`routes/voice.py`, `services/voice`) | a session per call, personas, greeting | start, audio, barge-in, tool calls, transfer, end | the model's realtime socket, the gateway |
| Context Engine (`core/context_engine`, `domains/job_search`) | artifacts, chunks, entities, signals, perspectives | ingest, build a perspective | extractors |
| Text tools (`text-tools`, `services/text_tools.py`) | none | normalize, chunk, analyze | runs, RAG |
| Tokens, registries, schemas, migrations, charts, local tooling | configuration | | |

What is hard in it: a gateway loop fed by three channels and the network, whose
setup tasks report after the call has changed; FastAPI handlers of two kinds,
`def` handlers in worker threads (any interleaving between a read and a
commit) and `async def` handlers on one event loop (atomic between awaits);
SQLAlchemy sessions that write back values read earlier, with no row locks;
background tasks that a restart loses; external calls that fail, or succeed
without saying so. The list of places is under `hazards` in `PROJECT.json`.

What makes each part correct:

- SIP engine: one record per call, every bridge and port owned by exactly one
  record, every accepted invite resolved, closed calls stay closed.
- Control API: the pool is exact, no port is given twice, no update is lost.
- Invitations: limits hold, deactivation is final, a mailed code exists, a
  recorded success happened, a request gets one code and its verdict holds.
- Runs: executions exclude each other; status, brief and notice agree;
  processing ends.
- SMS: the reply limit and the opt-out hold, every send is on record.
- RAG: conversations numbered without gaps, answers grounded in what the persona
  may read, one document per text, unique names, final deletions.
- Voice: nothing of an interrupted response is played and nothing of another one
  swallowed, each tool call gets one result, a call ends.
- Context Engine: a published view covers what was ingested when it was asked
  for, of its owner only; an answer that does not is marked stale; whatever a
  model returns, stored records cite real sources.
- Text algorithms: no text is lost in chunks; a brief loses a note only where its
  sections are full.

## Modules

A component with state has a specification `X.tla`, `MCX.tla` (extends it,
supplies the symmetry set and constants) and one `.cfg` per run. The algorithms
share `MCAlgorithms.tla`. Proofs are in modules of their own: `XProofs.tla`, or
one module for two components that belong together (`InvitationProofs` for the
two invitation modules, `ContextProofs` for `ContextViews`,
`ArtifactIngestion`, `JobSearch` and `BriefTools`, `RagProofs` for `RagStore` and
`RagChunking`). Operators
named `Action_Suffix` are faulty variants of `Action`, used to show that each
property can fail; no specification uses them.

### SipEngine

The engine's loop. `pending`, `dialogs`, `byeCache`, `inUse` and `active` are
`pending_inbound`, `inbound_dialogs`, `recent_bye_responses`, the pool's
`in_use` and the gauge. `setup` and `bridge` are the setup task and bridge of
each call attempt, `endEvent` the bridge event channel, `answer` the last final
response per call. The caller's side (invite, cancel, hang up) and the network
are external: a request once sent stays in the network, so it may be lost,
duplicated, delayed and reordered. Each arm of `select!` is atomic: the engine
awaits only sends inside a handler and owns its tables. `CleanupStaleState`
is part of the handlers that call it. `SlowSetup` says whether a
setup may outlive the 60 s after which a pending invite is swept; with the
default timeout (7 s) it does not.

### TransferControl

The control API with its registry and pool, the RTP sender of each transfer,
and the engine's outbound transactions. The registry lock is held for a
single read or write, so `start_transfer` and `handle_ws` are several steps,
each with the clone it works on. `inbound` stands for the ports bound by
inbound calls, whose pool is the other one. A transaction's `ack_sent_once` is
the state "acked" of its INVITE; responses other than failures leave it open.

### InviteRedemption

Codes, redemption rows, and handlers that check a row and commit later.
`max_uses` is a constant function with a marker for unlimited.

### InviteFulfillment

Requests with review and fulfillment status, the set of codes issued for each
(by the task or by which operator), the mail, the background task's step, and
operator calls that read and commit at different times. A database call of the
task may raise: inside the `try` the `except` block records the failure, before it
or in the block itself the exception ends the task and the last commit stands
(`FulfillRaises`). Names begin with
"Request" where InviteRedemption has the same. The model follows
SQLAlchemy: a commit writes the attributes the handler assigned and leaves the
others.

### RunLifecycle

One run. `at` is how far each call is. Calls in worker threads
load, then commit. Coroutines hold `loop` between two awaits: this is what
keeps two executions apart, and the model shows it (the mutant that awaits after the
submit breaks `ExclusiveExecution`). A brief is the text it was
made from. `Faults` allows failing commits and restarts.

### SmsThread

One phone number: opt-out row, run preferences, conversations with their
counter, and notices and replies as coroutines. Twilio accepts, rejects, or
accepts and loses the answer. A step ends at a commit (or at an await, or at the
call of Twilio), and with `Faults` a database call may raise in each of them:
`DatabaseFails` ends the coroutine and keeps what was committed, a row at
"attempted" included. The webhook then answers 500 and nobody resumes the message.
`Faults` also allows restarts.

### ContextContract and ContextViews

`ContextContract` is what a caller of the Context Engine may rely on: a view that
a request publishes comes from artifacts of its owner and covers every artifact
whose ingestion had been confirmed when the request began. It has three
variables and says nothing of tables, caches or sessions.

`ContextViews` is the store. Every repository call opens a session and commits,
so an ingestion (`StoreArtifact`, `StoreChunks` to `StoreItems`) fills six tables
one after the other, and a request for a view lists artifacts, reads the cached
row, reads five tables, and replaces the row, each in a step of its own, in
worker threads. Any of them may fail between two commits. A record is abstracted
to the artifact it comes from. `PromisesKept` is the refinement: the instance
`Contract` maps the ingestions that have ended, what each open request is due,
and of each stored view the artifacts of which it holds every table.

### ContextModel and ArtifactIngestion

`ContextModel` is how a model-assisted step is configured, run, validated and
merged with the deterministic result, and which chunks a prompt shows under which
compact ids, all as operators. A record is what validation looks at: what it
cites, the name of an entity, the names a relationship uses and the places of its
entities. Relationships form a set, since nothing depends on their order; the
other records stay in order, because merging is concatenation.

`ArtifactIngestion` is `ingest_artifact` between storing the chunks and storing
the records: `IngestArtifact` (what came in, its chunks and what the rules
find), `Extract` and `GenerateTasks`, each with any reply of a model or an
exception. `extracted` is history. That an ingestion can fail between two tables
is `ContextViews`' part, where a record is its artifact; here it is what it cites.

### RagChunking

Both chunkers, and the splitting again of a chunk the embedding provider finds
too long. A step is one turn of a loop of the code: a window is cut, a section
begun, a chunk embedded or split. `job` is the text that is being split, `pending`
the chunks not embedded; the pieces of a chunk take its place at the head, which
is the order of the code's recursion. Overlapping windows, the split at a full
stop or a space, and the stripping of each piece are in `CutWindow`.

### JobSearch and BriefTools

`JobSearch` is the domain pack: extractors, generated items, views and the
context graphs of `domain.yaml`, over lines that are what they say and the word
lists they match. `normalize_space` collapses a line before it is quoted, and the
quote is then searched for in the chunks as they are written, so what a line says
(`text`) and what a search finds in it (`holds`) are two things: a line with spaces
to collapse does not hold what it says, and a quote that no chunk holds is
attributed to the first. A section of a view shows eight records. `BriefTools` is the deterministic brief, with eight notes in a section. Both are operators on
sequences; their only state is what one step made of its input, `work` (an
artifact ingested or a view built) and `report` (the sections of some notes and
their brief), which is what the properties are about. The input is any member of
a constant, assumed to be well formed and nothing else: a text of any lines, any
chunks of it, a context with chunks missing, any reply.

What the code does with a comprehension or a loop over a list is in `Lists`: the
elements at some places (`At`, `Where`), each element once (`Distinct`), several
lists end to end (`Flat`). They are recursive functions over the length of the
list, because that is a form proofs can open.

### RagStore

The tables of `models/rag.py` for one invitation code. Plain-function handlers
(`CheckX`, then `CommitX`) run in worker threads with anything in between.
Uploads and chat turns are coroutines: the segments between two awaits are
actions, split where a thread may commit between two commits of one segment (the
document and its link). A turn takes the outcome of the model's plan
(`PlanAnswer`, `PlanRefusal`, `FailTurn`) and draft as a choice; a draft may name
any chunk, and be blank: only a draft with a text that selects nothing it was given
cites everything it was given. `SavePersonas` is a write under the unique constraint on (code, name,
is_active). `offered` is history: what the persona could read during the turn.
A restart loses every handler, not the rows.

### VoiceStream

One call: `_handle_twilio_messages` (`input`), `_handle_xai_to_twilio`
(`output`), one task per tool call (`tool`) and `voice_stream` itself (`main`),
with the local variables of the code (`active` is `response_active`, `current`
and `cancelled` the response ids, `ready` the queued results, `closing`
`close_after_response`). They are coroutines, so what lies between two awaits is
one action; a flush sends its results one by one, with tools ending in between.
The provider is external: it answers in order, over a queue of `MaxEvents`
events, one response at a time, begins responses unasked or on request, refuses
with an error what it cannot follow, and may vanish. Transcripts and the caller's
audio change nothing the properties see and are left out.

## Runs

| Run | Checks | Instance |
|---|---|---|
| SipSlow | PendingAndDialogsDisjoint, NoOrphanBridge, GaugeCountsDialogs | 2 calls, 2 attempts, 2 ports, slow setups |
| SipLive | NoPortLeak, PendingIsResolved | 1 call, 3 attempts, 2 ports, default timeout |
| Redeem | UseCountWithinLimit, UseCountIsBackedByRows, DeactivationIsFinal | a code for 2 uses and an unlimited one, 5 handlers |
| Fulfill | MailFollowsCode, FulfilledMeansMailed, RequestIsSettled | 2 requests, 2 operator calls, database failures, restarts |
| Run | ExclusiveExecution, CompletedHasBrief, NoticeIsTrue, CompletedIsKept, AnsweredRunTakesNoMore, ProcessingEnds | 3 calls, database faults, restarts |
| Sms | CountWithinLimit, CountIsBacked, SentIsRecorded, NoNoticeAfterOptOut, MessageIsSettled | 1 run, 2 messages, limit 1, database failures, restarts |
| Transfer | PortsAreExclusive, PoolIsExact, InvitedPortIsHeld | 2 transfers, 1 stream, 2 ports |
| Context | PromisesKept (the refinement), FreshAnswerIsCurrent | 2 artifacts of one owner and 1 of another, 2 requests, failures |
| Rag | TurnsAreContiguous, CitationsAreGrounded, NoTwinUploads, ActiveNamesAreUnique, DeletionIsFinal | 2 personas, 2 names, 1 conversation, 2 thread calls, 2 uploads of one text, 2 turns, limit 1, restarts |
| Voice | QueuedResultsAreReleased, InterruptionIsExact, CallsAreAnswered | 2 tool calls of any kind, 2 responses, 1 barge-in, 2 events on their way |
| Algorithms | ModelStepsAreGrounded, SignalsAreFaithful, PromptsAreFaithful, ChunksCoverText, BriefIsFaithful | an ingestion of 2 chunks in every mode, with any reply of up to 2 entities, a relationship, a signal, an item, and 2 items refined; 2 lines with any word list, tidy, with spaces to collapse or containing the other, cut four ways, and a text of 10; 2 artifacts of 1 or 10 lines and 2 citations per view; texts of up to 6 characters (a letter, a full stop, a space) and two sections, sizes up to 6, overlaps up to 3, provider limits up to 4, smallest size 2; artifacts of 3 characters; 2 notes, or 10 of one kind |

The properties of Algorithms are conjunctions of parts, one per algorithm, each
with a comment of its own. A behaviour picks one algorithm: those that are
operators take one step, an ingestion three, a chunker one for each turn of its
loops.

One run ends in a violation, with a finding: SipPortReuse. CANCEL and the late
setup result free one port twice; a live call's port is missing from the pool's
record.

### Seen while modelling

Behaviours of the models here, and of the code, that a reader of its documents
might not expect. They have no run of their own.

Gateway. Transfers and inbound calls draw the same ports from two pools made over
one range. An INVITE retransmission delivered after its CANCEL is set up as a new
call; a BYE during setup is answered and the call is established all the same
(the gateway's README: "retransmit-safe responses"). The backend's end, handled
before the setup result, is dropped. A backend socket that closes without an end
event leaves the dialog until the caller hangs up. Opening a media stream writes
back a session read earlier and can undo a transfer's update. Any second ACK
counts as a resend "on 2xx retransmissions".

Invitations. Two redemptions that read the same count are both granted, past
`max_uses` ("maximum allowed redemptions", `models/invitation.py:39`). A
redemption can commit after the deactivation. The background task issues a code
for a request rejected before it ran; the task and an operator can each issue a
code for one request, and an approval can overwrite a rejection, both refused
when made one after the other. `fulfillment_status` takes "processing" and
"sent", which its column comment does not list.

Runs and SMS. Ingestion checks that the run is editable before it awaits the
uploads and not after. The text of an earlier ingestion wins over an input text
updated later. Two overlapping follow-ups are both answered. A reply that was
being generated is sent after an opt-out was confirmed. Overlapping messages
share one count of LLM replies. A database error in the task of a request, outside
its `try` or in its `except` block, leaves the request pending or processing, and
one after a message was sent leaves its row at "attempted"; nothing repairs either.
A webhook that Twilio repeats is answered twice.

Context Engine. Two requests that both find no row insert two, and the second
fails; two that replace one row may do so in either order, the older build last.
A view built after an artifact was committed and before its signals were lacks
them and is not reported stale, because ids of artifacts are compared.
`ingest_artifact` called from an upload runs on the event loop, where a
synchronous model step always raises (`llm.py:276`): uploads get the
deterministic result in every mode. A seniority signal's excerpt is not taken
from the text. A quote whose spaces were collapsed, or whose line every chunk cuts,
is attributed to the first chunk, which need not contain it. Items made of interview notes are shown by no view. A brief
section that is both a decision and an action is reported as a duplicate of
itself. Sections of views and briefs show eight records, and nothing tells the
reader that there were more: with nine artifacts of a type the last may be in no
section at all, and a ninth note is in no brief.

RAG. Overlapping turns exceed the limit of ten, which is checked before the model
calls. The unique constraint covers inactive rows, so deleting a second persona
of one name fails. A reused document keeps the label of the persona that uploaded
it first. A persona deleted during an upload is linked all the same.

Voice. An unknown tool gets no result. After "stop" a call of the provider that
was on its way is looked up among all voice tools, without the persona's
configuration. A second "start" on one socket leaves the first session in the
registry, and a session with an empty id is never removed. A conversation record
that cannot be inserted is only logged.

Bounds. Every race of these handlers is between two or three actors on one row,
port or call, so two of each (three where a third can interfere: an attempt
after a cancelled one, an executor beside an editor and a follow-up) let each of them happen; the faulty variants, each of which breaks its property
within the run's bounds, show that the interesting interleavings are inside them. The proofs have no
bounds. Attempts, handlers,
messages and calls are finite sets consumed one by one, which bounds every
behaviour; for that reason the runs do not check deadlock: a model in which
every handler is over has ended, the program has not. Symmetry is used only
where no liveness is checked and sets are interchangeable.

In Voice two events on their way let one be late: audio or a call sent before the
provider saw the cancel, with the end of its response behind it. In
Algorithms the smallest chunk size is 2 instead of 100, so that a text of six
characters is cut, split again and given up. Type invariants and the dangling
rows and owner scope of the Context Engine are proved for every instance and no
run repeats them.

Fairness. `SipEngine`: setup tasks are bounded by their two timeouts, tokio
polls ready tasks, and `select!` chooses among ready arms at random, so setup,
report and handling each have weak fairness; callers have none.
`InviteFulfillment`: a background task runs in a worker thread after the
response and its database, SMTP and LLM calls return or raise. `RunLifecycle` and
`SmsThread`: database, LLM and Twilio calls return or raise, and asyncio's ready queue is
first in, first out. `VoiceStream`: the event loop runs each task that can go on,
the tools' remote calls have timeouts, and the provider ends a response it began;
it need not begin one, answer a request, or stay. No request has to arrive. A restart really can leave a
run in processing or a request pending, and so can a database call that raises
where nothing handles it leave a request or a message: the liveness properties
(`ProcessingEnds`, `RequestIsSettled`, `MessageIsSettled`) say so, each for the
task, call or handler that was lost or raised, and hold for every other.

One process each is what the charts deploy: one uvicorn worker and one replica
of the backend, one replica of the gateway replaced by recreation.

## Proofs

Each `XProofs` module proves that an inductive invariant `Inv` holds
(`SpecInv`: initially, and preserved by every action, one step each) and the
properties from it. The constants are arbitrary, under the named assumption of
the component's module, which TLC evaluates in every run.

| Module | Proved | What the invariant adds, and why |
|---|---|---|
| SipEngineProofs | TypeOK, PendingAndDialogsDisjoint, GaugeCountsDialogs, NoOrphanBridge, NoPortLeak | only pending invites are old; a dialog's bridge was built by a finished setup of the same call (so a teardown stops one bridge only); a setup that has not bridged has none |
| InvitationProofs, InviteRedemption | TypeOK, UseCountWithinLimit, UseCountIsBackedByRows, DeactivationIsFinal | rows and handlers agree; what a handler has read is backed by rows and below the limit, which is why a stale write cannot exceed it; a code is not off before it exists |
| InvitationProofs, InviteFulfillment | RequestTypeOK, MailFollowsCode, FulfilledMeansMailed | the task's step says which of code and mail exist |
| RunLifecycleProofs | TypeOK, ExclusiveExecution, CompletedHasBrief, NoticeIsTrue, CompletedIsKept, AnsweredRunTakesNoMore | a call between awaits holds the loop; an execution's step says the status and the brief; a notice comes last; an answered follow-up is counted |
| SmsThreadProofs | TypeOK, CountWithinLimit, CountIsBacked, SentIsRecorded, NoNoticeAfterOptOut | a sender holds the loop; a notice on its way was allowed; the row matches the step; a count that was read is below the limit and backed by replies; a message not yet answered has no text |
| TransferControlProofs | TypeOK, PortsAreExclusive, PoolIsExact, InvitedPortIsHeld | an INVITE exists only for a request that is done; a request that was let in has a session and a port |
| ContextProofs, ContextViews | TypeOK, NoDanglingRows, FreshAnswerIsCurrent, ViewsAreOwnerScoped, and `Spec => PromisesKept` | where an ingestion stands says which tables hold it; a request has listed, and read of each table it is past, whatever it is due. The refinement then has one step per action: ending an ingestion adds to `ingested`, beginning or ending a request changes what is due, replacing a row publishes, and everything else stutters |
| ContextProofs, ArtifactIngestion | IngestionTypeOK, ModelStepsAreGrounded | generation starts from what extraction gave. The work is in lemmas about the operators: what validation lets through is grounded, a relationship finds the last entity of its name, joining two results moves the places of the second, and every branch of a fallback keeps the deterministic records as a prefix |
| ContextProofs, JobSearch | SignalsAreFaithful, PromptsAreFaithful | `work` is what the operators make of a well-formed input, so all of the work is in lemmas: the elements at some places keep their order and repeat nothing new; each rule of an extractor gives signals of a type no other rule has; ids shown by a prompt come from the context; every artifact type has a generated item of a type that some section shows; a section is the beginning of the records of its types, so what it leaves out comes after eight; a reply that cites what it was shown translates to what it cites |
| ContextProofs, BriefTools | BriefIsFaithful | `report` is what the tools make of some notes; sections are numbered in order, each tool is described by the places of the sections it keeps, and a list of a brief is the beginning of what its tool keeps |
| RagProofs, RagStore | TypeOK, TurnsAreContiguous, CitationsAreGrounded, NoTwinUploads, ActiveNamesAreUnique, DeletionIsFinal | the indices of a conversation are exactly those below an even number; a running turn is offered whatever is linked to its persona and retrieved nothing else; a draft with a text that selects nothing cites all of it; an upload has stored nothing before it leaves "reading"; only rows that exist are active. Names are unique by the constraint, not by the check that precedes it |
| RagProofs, RagChunking | ChunkTypeOK, ChunksCoverText | every character before `start` is held by a chunk or is a space, and every section begun is held by what is embedded, pending and cut; chunks end no later than `start` and advance; a chunk begins and ends with a character that is no space, so a piece that is shorter than its text is followed by another: splitting again never gives one piece |
| VoiceStreamProofs | TypeOK, QueuedResultsAreReleased, InterruptionIsExact | the handler's view and the provider's are joined by the queue between them: read from its head, the events lead from the response the handler knows of to the one being produced; what they announce is new, the flags match what was played and cancelled, and every result is in one place |

Only model-checked:

- the liveness properties (`PendingIsResolved`, `RequestIsSettled`,
  `ProcessingEnds`, `MessageIsSettled`, `CallsAreAnswered`), since fairness and
  ENABLED are out of the prover's reach. That the chunkers' loops end is not
  stated as liveness: `CutsAdvance`, which is proved, says that no turn stands
  still and that each split is into shorter chunks.

Every other property of a passing run is a listed theorem.

Induction over the length of a list. The library's induction theorems take an
operator that the provers cannot instantiate. `ContextProofs` states induction for
a set instead (`Induction`: a set that has 0, and n + 1 with every n, has every
natural number), proved from the library's `WFMin` (a non-empty set has a least
element), and applies it to the set of the lengths up to which a recursive
function is as stated (`Turns`, `Recursion`). The operators of the community
modules that filter or merge (`SelectSeq`, `@@`) stay opaque to the provers:
`ResolveStep`, which looks up the configured step, enters the proofs as a step
that may be any.

## Not modelled, and the plan

Not modelled: SIP and SDP text, RTP framing, audio conversion, the wording of
mails, briefs, answers and replies, ranking of retrieved chunks, what the voice
tools compute, voice personas and the greeting that is synthesised again after
each change of them, the limits of run ingestion, the text-tools service, tokens,
registries, schemas, migrations, charts and local tooling.

Order of work, most important first; all but the last two steps are done:

1. SipEngine, the one component with real concurrency inside, with proofs.
2. InviteRedemption, InviteFulfillment: limits and verdicts under races.
3. RunLifecycle, SmsThread: the main product path and what it sends.
4. TransferControl: the gateway's other half.
5. ContextViews and the contract it implements; the refinement proved.
6. RagStore: personas, documents, conversations and turns; proofs.
7. VoiceStream: barge-in, tool calls and results, the end of a call.
8. The pure algorithms of the Context Engine, RAG and the brief.
9. VoiceStream, the chunkers, an artifact's ingestion, the job-search pack and
   the brief for every instance: an inductive invariant of each, and the proofs.
10. The greeting refresh, and the limits of run ingestion.
11. A composition of RunLifecycle and SmsThread, with the notice of the one as
    the start of the other.
