---------------------------- MODULE ContextViews ----------------------------
(***************************************************************************)
(* The Context Engine's durable store: ingestion of artifacts, and the     *)
(* perspective views cached per owner (core/context_engine/service.py and  *)
(* sqlalchemy_storage.py, behind api/routes/context.py).  Every repository *)
(* call opens its own session and commits, so the rows derived from an     *)
(* artifact appear table by table while other requests, in other worker    *)
(* threads, list artifacts, read those tables and replace a view.  The     *)
(* records a table holds are abstracted to the artifacts they come from;   *)
(* one domain and one view definition are considered, other rows being     *)
(* keyed apart.  An exception or a process restart may end any request     *)
(* between two commits.                                                    *)
(***************************************************************************)
CONSTANTS
  Artifacts,  \* artifacts, each the subject of one ingestion request
  Requests,   \* requests for the view, each made once
  Owners,     \* invitation codes
  Asks,       \* the invitation code in the token of each view request
  OwnerOf,    \* the invitation code that ingests each artifact
  Earlier,    \* artifacts whose ingestion was over before
  NoView,     \* no row in context_perspective_views
  NotAsked,   \* of a request that has not begun, in the contract
  Over        \* of a request that has ended, in the contract

ASSUME ContextAssumption ==
  /\ OwnerOf \in [Artifacts -> Owners]
  /\ Asks \in [Requests -> Owners]
  /\ Earlier \subseteq Artifacts
  /\ \A S \in SUBSET Artifacts : S # NotAsked /\ S # Over
  /\ NoView \notin Requests
  /\ NotAsked # Over

VARIABLES
  artifacts,  \* rows of context_artifacts
  rows,       \* per derived table, the artifacts it holds records of
  ingest,     \* how far the ingestion of each artifact is
  views,      \* the row of each owner in context_perspective_views
  at,         \* how far each view request is
  regenerate, \* its query parameter
  listed,     \* the artifacts it has listed
  got,        \* what it has read of each derived table
  found,      \* the row it found and will replace
  answer,     \* the sources of the view it returned, with its is_stale
  due         \* history: what was ingested for the owner when it began

store   == <<artifacts, rows, ingest>>
request == <<at, regenerate, listed, got, found, answer, due>>
vars    == <<store, views, request>>

\* The derived tables, each with the one that ingest_artifact stores and
\* _build_perspective reads after it.
After == [chunks |-> "entities", entities |-> "relationships",
          relationships |-> "signals", signals |-> "actionable_items",
          actionable_items |-> "end"]

Tables == {"chunks", "entities", "relationships", "signals", "actionable_items"}

Steps == {"new", "end", "rejected", "failed"} \union Tables
Phases == {"new", "listed", "build", "end", "write", "done", "failed",
           "conflict"} \union Tables
View == [id : Requests, sources : SUBSET Artifacts,
         parts : [Tables -> SUBSET Artifacts]]

ASSUME NoViewAssumption == NoView \notin View

\* Tables and request locals keep their types: an ingestion is in one of the
\* steps of ingest_artifact, and an owner has at most one view row, with sources
\* and parts of known artifacts (models/context_engine.py).
TypeOK ==
  /\ artifacts \subseteq Artifacts
  /\ rows \in [Tables -> SUBSET Artifacts]
  /\ ingest \in [Artifacts -> Steps]
  /\ views \in [Owners -> View \union {NoView}]
  /\ at \in [Requests -> Phases]
  /\ regenerate \in [Requests -> BOOLEAN]
  /\ listed \in [Requests -> SUBSET Artifacts]
  /\ got \in [Requests -> [Tables -> SUBSET Artifacts]]
  /\ found \in [Requests -> Requests \union {NoView}]
  /\ answer \in [Requests -> [sources : SUBSET Artifacts, stale : BOOLEAN]
                             \union {NoView}]
  /\ due \in [Requests -> SUBSET Artifacts]

Empty == [t \in Tables |-> {}]

Init ==
  /\ artifacts \in {{}, Earlier} /\ rows = [t \in Tables |-> artifacts]
  /\ ingest = [a \in Artifacts |-> IF a \in artifacts THEN "end"
                                   ELSE IF a \in Earlier THEN "rejected"
                                   ELSE "new"]
  /\ views = [o \in Owners |-> NoView]
  /\ at = [r \in Requests |-> "new"]
  /\ regenerate \in [Requests -> BOOLEAN]
  /\ listed = [r \in Requests |-> {}]
  /\ got = [r \in Requests |-> Empty]
  /\ found = [r \in Requests |-> NoView]
  /\ answer = [r \in Requests |-> NoView]
  /\ due = [r \in Requests |-> {}]

-----------------------------------------------------------------------------
(* Ingestion                                                               *)

\* The domain or the artifact type is unknown, or the text is empty, unreadable
\* or not of a supported kind: nothing has been stored.
Reject(a) ==
  /\ ingest[a] = "new"
  /\ ingest' = [ingest EXCEPT ![a] = "rejected"]
  /\ UNCHANGED <<artifacts, rows, views, request>>

StoreArtifact(a) ==
  /\ ingest[a] = "new"
  /\ artifacts' = artifacts \union {a}
  /\ ingest' = [ingest EXCEPT ![a] = "chunks"]
  /\ UNCHANGED <<rows, views, request>>

\* The owner of a derived row is that of the first known artifact its source
\* links name; a row without a known source is refused.
OwnerFromRequiredSources(a) == a \in artifacts

\* One repository call: all rows of one table and their source links, in one
\* commit.  Extraction and task generation come before the entities.
Store(a, t) ==
  /\ OwnerFromRequiredSources(a)
  /\ rows' = [rows EXCEPT ![t] = @ \union {a}]
  /\ ingest' = [ingest EXCEPT ![a] = After[t]]
  /\ UNCHANGED <<artifacts, views, request>>

StoreChunks(a) == ingest[a] = "chunks" /\ Store(a, "chunks")

StoreEntities(a) == ingest[a] = "entities" /\ Store(a, "entities")

StoreRelationships(a) == ingest[a] = "relationships" /\ Store(a, "relationships")

StoreSignals(a) == ingest[a] = "signals" /\ Store(a, "signals")

\* Mutant: the last session is closed without its commit.
StoreItems_Uncommitted(a) ==
  /\ ingest[a] = "actionable_items"
  /\ ingest' = [ingest EXCEPT ![a] = "end"]
  /\ UNCHANGED <<artifacts, rows, views, request>>

StoreItems(a) == ingest[a] = "actionable_items" /\ Store(a, "actionable_items")

\* An extractor raises, a commit fails or the process ends: what was committed
\* stays.
IngestFails(a) ==
  /\ ingest[a] \in Tables
  /\ ingest' = [ingest EXCEPT ![a] = "failed"]
  /\ UNCHANGED <<artifacts, rows, views, request>>

IngestStep(a) ==
  \/ StoreArtifact(a) \/ StoreChunks(a) \/ StoreEntities(a)
  \/ StoreRelationships(a) \/ StoreSignals(a) \/ StoreItems(a)

-----------------------------------------------------------------------------
(* A request for a view                                                    *)

Owned(o) == {a \in Artifacts : OwnerOf[a] = o}

Ingested == {a \in Artifacts : ingest[a] = "end"}

ListArtifacts(o) == {a \in artifacts : OwnerOf[a] = o}

\* What a listing of one derived table returns: the chunks of the listed
\* artifacts, or the rows of the owner whatever was listed.
ListRows(r, t) ==
  IF t = "chunks" THEN rows[t] \intersect listed[r]
  ELSE rows[t] \intersect Owned(Asks[r])

\* A request that ends forgets its locals.
Ends(r, how) ==
  /\ at' = [at EXCEPT ![r] = how]
  /\ listed' = [listed EXCEPT ![r] = {}]
  /\ got' = [got EXCEPT ![r] = Empty]
  /\ found' = [found EXCEPT ![r] = NoView]

GetPerspective(r) ==
  /\ at[r] = "new"
  /\ listed' = [listed EXCEPT ![r] = ListArtifacts(Asks[r])]
  /\ at' = [at EXCEPT ![r] = IF regenerate[r] THEN "build" ELSE "listed"]
  /\ due' = [due EXCEPT ![r] = Ingested \intersect Owned(Asks[r])]
  /\ UNCHANGED <<store, views, regenerate, got, found, answer>>

\* Mutant: only artifacts that are gone make a view stale.
WithStaleMetadata_Subset(v, current) ==
  [sources |-> v.sources, stale |-> ~(v.sources \subseteq current)]

\* The cached view is judged by the artifacts listed before it was read.
WithStaleMetadata(v, current) ==
  [sources |-> v.sources, stale |-> current # v.sources]

ReadCached(r) ==
  /\ at[r] = "listed"
  /\ LET v == views[Asks[r]] IN
       IF v = NoView
       THEN /\ at' = [at EXCEPT ![r] = "build"]
            /\ UNCHANGED <<answer, listed, got, found>>
       ELSE /\ answer' = [answer EXCEPT ![r] = WithStaleMetadata(v, listed[r])]
            /\ Ends(r, "done")
  /\ UNCHANGED <<store, views, regenerate, due>>

\* An empty listing is taken again before the tables are read.
BuildPerspective(r) ==
  /\ at[r] = "build"
  /\ listed' = [listed EXCEPT ![r] = IF @ = {} THEN ListArtifacts(Asks[r])
                                     ELSE @]
  /\ at' = [at EXCEPT ![r] = "chunks"]
  /\ UNCHANGED <<store, views, regenerate, got, found, answer, due>>

ReadTable(r, t) ==
  /\ at[r] = t
  /\ got' = [got EXCEPT ![r][t] = ListRows(r, t)]
  /\ at' = [at EXCEPT ![r] = After[t]]
  /\ UNCHANGED <<store, views, regenerate, listed, found, answer, due>>

\* A view gets an id of its own, the primary key of its row.
Built(r) == [id |-> r, sources |-> listed[r], parts |-> got[r]]

RowOf(o) == IF views[o] = NoView THEN NoView ELSE views[o].id

\* store_perspective_view looks for a row to replace ...
FindRow(r) ==
  /\ at[r] = "end"
  /\ found' = [found EXCEPT ![r] = RowOf(Asks[r])]
  /\ at' = [at EXCEPT ![r] = "write"]
  /\ UNCHANGED <<store, views, regenerate, listed, got, answer, due>>

\* ... and commits.  Replacing a row gives it another primary key, so the update
\* misses when another request has replaced it, as an insertion fails when
\* another has inserted.
WriteRow(r) ==
  /\ at[r] = "write"
  /\ IF found[r] = RowOf(Asks[r])
     THEN /\ views' = [views EXCEPT ![Asks[r]] = Built(r)]
          /\ answer' = [answer EXCEPT ![r] = [sources |-> listed[r],
                                              stale |-> FALSE]]
          /\ Ends(r, "done")
     ELSE /\ Ends(r, "conflict")
          /\ UNCHANGED <<views, answer>>
  /\ UNCHANGED <<store, regenerate, due>>

\* The view is not registered, the builder raises or the process ends.
RequestFails(r) ==
  /\ at[r] \in {"build", "end", "write"} \union Tables
  /\ Ends(r, "failed")
  /\ UNCHANGED <<store, views, regenerate, answer, due>>

RequestStep(r) ==
  \/ GetPerspective(r) \/ ReadCached(r) \/ BuildPerspective(r)
  \/ \E t \in Tables : ReadTable(r, t)
  \/ FindRow(r) \/ WriteRow(r)

Next ==
  \/ \E a \in Artifacts : Reject(a) \/ IngestStep(a) \/ IngestFails(a)
  \/ \E r \in Requests : RequestStep(r) \/ RequestFails(r)

Spec == Init /\ [][Next]_vars

-----------------------------------------------------------------------------
(* Properties                                                              *)

\* The refinement mapping to what the engine promises: a view covers the
\* artifacts of which it took every derived table.
Covers(v) == {a \in v.sources : \A t \in Tables : a \in v.parts[t]}

Published(v) == IF v = NoView THEN NoView
                ELSE [sources |-> v.sources, covers |-> Covers(v)]

Ended == {"done", "failed", "conflict"}

\* What a request must cover, while it is open.
Due(r) == IF at[r] = "new" THEN NotAsked
          ELSE IF at[r] \in Ended THEN Over ELSE due[r]

Contract == INSTANCE ContextContract WITH
  ingested <- Ingested,
  due      <- [r \in Requests |-> Due(r)],
  view     <- [o \in Owners |-> Published(views[o])]

\* A published view covers whatever was ingested when its request began, for
\* its owner only, although the artifacts, the five derived tables and the view
\* are read and written in seven sessions (service.py, get_perspective and
\* _build_perspective).
PromisesKept == Contract!Spec

\* Rows never outlive or precede what they point to: a derived row has its
\* artifact, and an artifact's relationships are there only with its entities,
\* its action items only with its signals, wherever an ingestion stopped
\* (service.py, the order of the store_* calls).
NoDanglingRows ==
  /\ \A t \in Tables : rows[t] \subseteq artifacts
  /\ rows["relationships"] \subseteq rows["entities"]
  /\ rows["actionable_items"] \subseteq rows["signals"]

\* An answer that is not marked stale is drawn from every artifact whose
\* ingestion was confirmed before the request, cached or not, even when another
\* request replaces the view between the listing and the read of the cache
\* (service.py, _with_stale_metadata).
FreshAnswerIsCurrent ==
  \A r \in Requests :
    answer[r] # NoView /\ ~answer[r].stale
      => due[r] \subseteq answer[r].sources

\* No view, cached or answered, holds anything of another owner's artifacts
\* (the owner filters of the list_* queries).
ViewsAreOwnerScoped ==
  \A o \in Owners : views[o] # NoView =>
    /\ views[o].sources \subseteq Owned(o)
    /\ \A t \in Tables : views[o].parts[t] \subseteq Owned(o)

-----------------------------------------------------------------------------
(* What makes them inductive: where an ingestion or a request is tells which *)
(* tables are complete for it.                                               *)

\* The tables before a step.
Prior == [chunks |-> {}, entities |-> {"chunks"},
          relationships |-> {"chunks", "entities"},
          signals |-> {"chunks", "entities", "relationships"},
          actionable_items |-> {"chunks", "entities", "relationships", "signals"},
          end |-> Tables, write |-> Tables]

IngestMatchesRows ==
  \A a \in Artifacts : ingest[a] \in Tables \union {"end"} =>
    a \in artifacts /\ \A t \in Prior[ingest[a]] : a \in rows[t]

\* A request reads what belongs to its owner and misses nothing it is due.
ReadsAreDue ==
  \A r \in Requests :
    /\ due[r] \subseteq Ingested \intersect Owned(Asks[r])
    /\ listed[r] \subseteq Owned(Asks[r])
    /\ \A t \in Tables : got[r][t] \subseteq Owned(Asks[r])
    /\ at[r] = "new" => answer[r] = NoView
    /\ at[r] \notin {"new"} \union Ended => due[r] \subseteq listed[r]
    /\ at[r] \in Tables \union {"end", "write"} =>
         \A t \in Prior[at[r]] : due[r] \subseteq got[r][t]

Inv ==
  /\ TypeOK
  /\ NoDanglingRows
  /\ IngestMatchesRows
  /\ ReadsAreDue
  /\ FreshAnswerIsCurrent
  /\ ViewsAreOwnerScoped
=============================================================================
