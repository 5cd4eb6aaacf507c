--------------------------- MODULE ContextProofs ---------------------------
(***************************************************************************)
(* Proofs about the Context Engine.  First ContextViews, for any           *)
(* artifacts, owners and requests: its invariants, and that it implements  *)
(* ContextContract.  The argument is about order: an ingestion is          *)
(* confirmed after its last table, a request notes what is due before it   *)
(* lists and reads, tables only grow, so whatever is due is in each table  *)
(* by the time the table is read.  Then ArtifactIngestion, for any         *)
(* artifact, configuration and model: a record that passes validation      *)
(* cites the artifact, and joining two results moves the places of         *)
(* entities and relationships together.                                    *)
(*                                                                         *)
(* Then JobSearch and BriefTools, for any texts, contexts, notes and       *)
(* replies.  Their lists are recursive functions (Lists); what these are   *)
(* is proved by least counterexamples: a set of numbers that has 0 and the *)
(* next of each of its numbers is Nat (Induction, from the library's       *)
(* WFMin), and for each function one picks the set of the numbers up to    *)
(* which it is as stated.  From then on a list of certain elements is      *)
(* known by its range, by the order of its places (AtPlaces) and by what   *)
(* comes before what in a list of lists (FlatLays).                        *)
(***************************************************************************)
EXTENDS ContextViews, ArtifactIngestion, JobSearch, BriefTools, SequenceTheorems,
        WellFoundedInduction, TLAPS

\* The tables that a step completes are those before the next step.
LEMMA PriorGrows ==
  \A t \in Tables : /\ After[t] \in Tables \union {"end"}
                    /\ Prior[After[t]] = Prior[t] \union {t}
                    /\ Prior[t] \subseteq Tables
BY DEF Tables, After, Prior

\* A service without requests satisfies the invariant.
LEMMA InitInv == Init => Inv
<1>. SUFFICES ASSUME Init PROVE Inv
  OBVIOUS
<1>1. TypeOK
  BY ContextAssumption DEF Init, TypeOK, Steps, Phases, Empty, Tables
<1>2. NoDanglingRows
  BY DEF Init, NoDanglingRows, Tables
<1>3. IngestMatchesRows
  <2>1. \A a \in Artifacts : ingest[a] \in Tables \union {"end"}
                               => ingest[a] = "end" /\ a \in artifacts
    BY DEF Init, Tables
  <2>2. Prior["end"] = Tables
    BY DEF Prior
  <2>. QED BY <2>1, <2>2 DEF Init, IngestMatchesRows
<1>4. ReadsAreDue
  BY DEF Init, ReadsAreDue, Empty, Ended, Tables
<1>5. FreshAnswerIsCurrent /\ ViewsAreOwnerScoped
  BY DEF Init, FreshAnswerIsCurrent, ViewsAreOwnerScoped
<1>. QED BY <1>1, <1>2, <1>3, <1>4, <1>5 DEF Inv

-----------------------------------------------------------------------------
(* Ingestion                                                               *)

\* What a step of an ingestion must do to keep the invariant.
LEMMA IngestionPreservesInv ==
  ASSUME Inv, UNCHANGED <<views, request>>, TypeOK', NoDanglingRows',
         IngestMatchesRows', Ingested \subseteq Ingested'
  PROVE  Inv'
<1>1. ReadsAreDue'
  BY DEF Inv, ReadsAreDue, request, Owned
<1>2. FreshAnswerIsCurrent' /\ ViewsAreOwnerScoped'
  BY DEF Inv, FreshAnswerIsCurrent, ViewsAreOwnerScoped, request, Owned
<1>. QED BY <1>1, <1>2 DEF Inv

\* An ingestion is refused or fails: nothing is stored.
LEMMA NothingStored ==
  ASSUME Inv, NEW a \in Artifacts, Reject(a) \/ IngestFails(a)
  PROVE  Inv' /\ Ingested' = Ingested
<1>1. /\ ingest[a] # "end" /\ UNCHANGED <<artifacts, rows, views, request>>
      /\ \E s \in {"rejected", "failed"} : ingest' = [ingest EXCEPT ![a] = s]
  BY DEF Reject, IngestFails, Tables
<1>2. TypeOK'
  BY <1>1 DEF Inv, TypeOK, Steps, request
<1>3. NoDanglingRows'
  BY <1>1 DEF Inv, NoDanglingRows
<1>4. Ingested' = Ingested
  BY <1>1 DEF Inv, TypeOK, Ingested
<1>5. IngestMatchesRows'
  BY <1>1 DEF Inv, TypeOK, IngestMatchesRows, Tables
<1>. QED BY <1>1, <1>2, <1>3, <1>4, <1>5, IngestionPreservesInv

\* The artifact's own row comes first.
LEMMA ArtifactStored ==
  ASSUME Inv, NEW a \in Artifacts, StoreArtifact(a)
  PROVE  Inv' /\ Ingested' = Ingested
<1>1. TypeOK'
  BY DEF Inv, TypeOK, StoreArtifact, Steps, Tables, request
<1>2. NoDanglingRows'
  BY DEF Inv, NoDanglingRows, StoreArtifact
<1>3. Ingested' = Ingested
  BY DEF Inv, TypeOK, Ingested, StoreArtifact
<1>4. IngestMatchesRows'
  <2>1. Prior["chunks"] = {}
    BY DEF Prior
  <2>. QED BY <2>1 DEF Inv, TypeOK, IngestMatchesRows, StoreArtifact, Tables
<1>. QED BY <1>1, <1>2, <1>3, <1>4, IngestionPreservesInv DEF StoreArtifact

\* A derived table is stored after those before it.
LEMMA TableStored ==
  ASSUME Inv, NEW a \in Artifacts, NEW t \in Tables, ingest[a] = t, Store(a, t)
  PROVE  /\ Inv'
         /\ Ingested' = IF t = "actionable_items" THEN Ingested \union {a}
                        ELSE Ingested
<1>1. a \in artifacts /\ \A u \in Prior[t] : a \in rows[u]
  BY DEF Inv, IngestMatchesRows
<1>2. /\ rows' = [rows EXCEPT ![t] = @ \union {a}]
      /\ ingest' = [ingest EXCEPT ![a] = After[t]]
      /\ UNCHANGED <<artifacts, views, request>>
  BY DEF Store
<1>3. \A u \in Tables : rows'[u] = IF u = t THEN rows[u] \union {a} ELSE rows[u]
  BY <1>2 DEF Inv, TypeOK
<1>4. TypeOK'
  <2>1. After[t] \in Steps
    BY PriorGrows DEF Steps
  <2>. QED BY <1>2, <2>1 DEF Inv, TypeOK, request
<1>5. NoDanglingRows'
  <2>1. t = "relationships" => a \in rows["entities"]
    BY <1>1 DEF Prior
  <2>2. t = "actionable_items" => a \in rows["signals"]
    BY <1>1 DEF Prior
  <2>3. {"entities", "relationships", "signals", "actionable_items"}
          \subseteq Tables
    BY DEF Tables
  <2>. QED BY <1>1, <1>2, <1>3, <2>1, <2>2, <2>3 DEF Inv, NoDanglingRows
<1>6. \A b \in Artifacts : ingest'[b] = IF b = a THEN After[t] ELSE ingest[b]
  BY <1>2 DEF Inv, TypeOK
<1>7. IngestMatchesRows'
  <2>. SUFFICES ASSUME NEW b \in Artifacts,
                       ingest'[b] \in Tables \union {"end"},
                       NEW u \in Prior[ingest'[b]]
                PROVE  b \in artifacts' /\ b \in rows'[u]
    BY <1>1, <1>2, <1>6 DEF Inv, IngestMatchesRows
  <2>1. CASE b = a
    <3>1. u \in Prior[t] \union {t} /\ u \in Tables
      BY <2>1, <1>6, PriorGrows
    <3>. QED BY <3>1, <2>1, <1>1, <1>2, <1>3
  <2>2. CASE b # a
    <3>1. u \in Tables
      BY <2>2, <1>6, PriorGrows DEF Prior, Tables
    <3>. QED BY <3>1, <2>2, <1>2, <1>3, <1>6 DEF Inv, IngestMatchesRows
  <2>. QED BY <2>1, <2>2
<1>8. Ingested' = IF t = "actionable_items" THEN Ingested \union {a} ELSE Ingested
  <2>1. t # "end" /\ (After[t] = "end" <=> t = "actionable_items")
    BY DEF After, Tables
  <2>. QED BY <1>6, <2>1 DEF Ingested
<1>9. Ingested \subseteq Ingested'
  BY <1>8
<1>. QED BY <1>2, <1>4, <1>5, <1>7, <1>8, <1>9, IngestionPreservesInv

\* Every step of an ingestion keeps the invariant and what is confirmed.
LEMMA IngestStepPreservesInv ==
  ASSUME Inv, NEW a \in Artifacts, Reject(a) \/ IngestStep(a) \/ IngestFails(a)
  PROVE  /\ Inv' /\ UNCHANGED <<views, request>>
         /\ Ingested' = Ingested \/ Ingested' = Ingested \union {a}
<1>1. CASE Reject(a) \/ IngestFails(a)
  BY <1>1, NothingStored DEF Reject, IngestFails
<1>2. CASE StoreArtifact(a)
  BY <1>2, ArtifactStored DEF StoreArtifact
<1>3. ASSUME NEW t \in Tables, ingest[a] = t, Store(a, t)
      PROVE  /\ Inv' /\ UNCHANGED <<views, request>>
             /\ Ingested' = Ingested \/ Ingested' = Ingested \union {a}
  BY <1>3, TableStored DEF Store
<1>4. CASE \/ StoreChunks(a) \/ StoreEntities(a) \/ StoreRelationships(a)
           \/ StoreSignals(a) \/ StoreItems(a)
  BY <1>4, <1>3 DEF StoreChunks, StoreEntities, StoreRelationships, StoreSignals,
                    StoreItems, Tables
<1>. QED BY <1>1, <1>2, <1>4 DEF IngestStep

-----------------------------------------------------------------------------
(* Requests                                                                *)

\* What a step of a request must do to keep the invariant: what concerns other
\* requests and ingestions stays.
LEMMA RequestPreservesInv ==
  ASSUME Inv, UNCHANGED store, TypeOK', NEW r \in Requests,
         \A q \in Requests \ {r} :
           /\ at'[q] = at[q] /\ due'[q] = due[q] /\ listed'[q] = listed[q]
           /\ got'[q] = got[q] /\ answer'[q] = answer[q],
         due'[r] \subseteq Ingested \intersect Owned(Asks[r]),
         listed'[r] \subseteq Owned(Asks[r]),
         \A t \in Tables : got'[r][t] \subseteq Owned(Asks[r]),
         at'[r] = "new" => answer'[r] = NoView,
         at'[r] \notin {"new"} \union Ended => due'[r] \subseteq listed'[r],
         at'[r] \in Tables \union {"end", "write"} =>
           \A t \in Prior[at'[r]] : due'[r] \subseteq got'[r][t],
         answer'[r] # NoView /\ ~answer'[r].stale
           => due'[r] \subseteq answer'[r].sources,
         ViewsAreOwnerScoped'
  PROVE  Inv'
<1>1. Ingested' = Ingested /\ \A o \in Owners : Owned(o)' = Owned(o)
  BY DEF store, Ingested, Owned
<1>2. ReadsAreDue'
  <2>. SUFFICES ASSUME NEW q \in Requests
                PROVE /\ due'[q] \subseteq Ingested \intersect Owned(Asks[q])
                      /\ listed'[q] \subseteq Owned(Asks[q])
                      /\ \A t \in Tables : got'[q][t] \subseteq Owned(Asks[q])
                      /\ at'[q] = "new" => answer'[q] = NoView
                      /\ at'[q] \notin {"new"} \union Ended
                           => due'[q] \subseteq listed'[q]
                      /\ at'[q] \in Tables \union {"end", "write"} =>
                           \A t \in Prior[at'[q]] : due'[q] \subseteq got'[q][t]
    BY <1>1 DEF ReadsAreDue, Owned
  <2>1. CASE q = r
    BY <2>1
  <2>2. CASE q # r
    BY <2>2 DEF Inv, ReadsAreDue
  <2>. QED BY <2>1, <2>2
<1>3. FreshAnswerIsCurrent'
  <2>. SUFFICES ASSUME NEW q \in Requests, answer'[q] # NoView, ~answer'[q].stale
                PROVE due'[q] \subseteq answer'[q].sources
    BY DEF FreshAnswerIsCurrent
  <2>1. CASE q = r
    BY <2>1
  <2>2. CASE q # r
    BY <2>2 DEF Inv, FreshAnswerIsCurrent
  <2>. QED BY <2>1, <2>2
<1>4. NoDanglingRows' /\ IngestMatchesRows'
  BY DEF Inv, store, NoDanglingRows, IngestMatchesRows
<1>. QED BY <1>2, <1>3, <1>4 DEF Inv

\* The facts about one request that its steps use.
LEMMA RequestFacts ==
  ASSUME Inv, NEW r \in Requests
  PROVE  /\ Asks[r] \in Owners
         /\ due[r] \subseteq Ingested \intersect Owned(Asks[r])
         /\ Ingested \intersect Owned(Asks[r]) \subseteq ListArtifacts(Asks[r])
         /\ ListArtifacts(Asks[r]) \subseteq Owned(Asks[r])
         /\ listed[r] \subseteq Owned(Asks[r])
         /\ \A t \in Tables : got[r][t] \subseteq Owned(Asks[r])
         /\ at[r] \notin {"new"} \union Ended => due[r] \subseteq listed[r]
         /\ \A t \in Tables : Ingested \subseteq rows[t]
         /\ \A t \in Tables : ListRows(r, t) \subseteq Owned(Asks[r])
<1>1. Asks[r] \in Owners
  BY ContextAssumption
<1>2. \A a \in Ingested : a \in artifacts /\ \A t \in Tables : a \in rows[t]
  <2>1. Prior["end"] = Tables
    BY DEF Prior
  <2>. QED BY <2>1 DEF Inv, IngestMatchesRows, Ingested
<1>3. Ingested \intersect Owned(Asks[r]) \subseteq ListArtifacts(Asks[r])
  BY <1>2 DEF Owned, ListArtifacts
<1>4. ListArtifacts(Asks[r]) \subseteq Owned(Asks[r])
  BY DEF Inv, TypeOK, Owned, ListArtifacts
<1>5. listed[r] \subseteq Owned(Asks[r])
  BY DEF Inv, ReadsAreDue
<1>6. \A t \in Tables : ListRows(r, t) \subseteq Owned(Asks[r])
  BY <1>5 DEF ListRows
<1>. QED BY <1>1, <1>2, <1>3, <1>4, <1>5, <1>6 DEF Inv, ReadsAreDue

\* A request begins: it notes what is due and lists.
LEMMA BeginPreservesInv ==
  ASSUME Inv, NEW r \in Requests, GetPerspective(r)
  PROVE  Inv'
<1>1. /\ UNCHANGED <<store, views, regenerate, got, found, answer>>
      /\ at[r] = "new" /\ at' = [at EXCEPT ![r] = at'[r]]
      /\ at'[r] \in {"build", "listed"}
      /\ listed' = [listed EXCEPT ![r] = ListArtifacts(Asks[r])]
      /\ due' = [due EXCEPT ![r] = Ingested \intersect Owned(Asks[r])]
  BY DEF GetPerspective, Inv, TypeOK
<1>2. TypeOK'
  <2>1. ListArtifacts(Asks[r]) \in SUBSET Artifacts
    BY DEF Inv, TypeOK, ListArtifacts
  <2>2. Ingested \intersect Owned(Asks[r]) \in SUBSET Artifacts
    BY DEF Owned
  <2>. QED BY <1>1, <2>1, <2>2 DEF Inv, TypeOK, Phases, store
<1>3. /\ listed'[r] = ListArtifacts(Asks[r])
      /\ due'[r] = Ingested \intersect Owned(Asks[r])
  BY <1>1 DEF Inv, TypeOK
<1>4. answer'[r] = NoView
  BY <1>1 DEF Inv, ReadsAreDue
<1>5. at'[r] \notin Tables \union {"end", "write", "new"}
  BY <1>1 DEF Tables
<1>6. ViewsAreOwnerScoped'
  BY <1>1 DEF Inv, ViewsAreOwnerScoped, Owned
<1>7. at'[r] \notin {"new"} \union Ended => due'[r] \subseteq listed'[r]
  BY <1>3, RequestFacts
<1>8. \A q \in Requests \ {r} :
        /\ at'[q] = at[q] /\ due'[q] = due[q] /\ listed'[q] = listed[q]
        /\ got'[q] = got[q] /\ answer'[q] = answer[q]
  BY <1>1 DEF Inv, TypeOK
<1>9. \A t \in Tables : got'[r][t] \subseteq Owned(Asks[r])
  BY <1>1, RequestFacts
<1>10. listed'[r] \subseteq Owned(Asks[r])
  BY <1>3, RequestFacts
<1>. QED BY <1>1, <1>2, <1>3, <1>4, <1>5, <1>6, <1>7, <1>8, <1>9, <1>10,
            RequestPreservesInv

\* A request ends without publishing: it answers with the cached view, fails or
\* meets a conflict.
LEMMA EndPreservesInv ==
  ASSUME Inv, NEW r \in Requests, at[r] # "new",
         NEW how \in Ended, Ends(r, how),
         UNCHANGED <<store, regenerate, due>>, ViewsAreOwnerScoped',
         views' \in [Owners -> View \union {NoView}],
         answer' \in [Requests -> [sources : SUBSET Artifacts, stale : BOOLEAN]
                                  \union {NoView}],
         \A q \in Requests \ {r} : answer'[q] = answer[q],
         answer'[r] # NoView /\ ~answer'[r].stale
           => due[r] \subseteq answer'[r].sources
  PROVE  Inv'
<1>1. /\ at' = [at EXCEPT ![r] = how] /\ listed' = [listed EXCEPT ![r] = {}]
      /\ got' = [got EXCEPT ![r] = Empty]
      /\ found' = [found EXCEPT ![r] = NoView]
  BY DEF Ends
<1>2. /\ at'[r] = how /\ listed'[r] = {} /\ got'[r] = Empty
      /\ how \notin Tables \union {"new", "end", "write"}
  BY <1>1 DEF Inv, TypeOK, Ended, Tables
<1>3. TypeOK'
  <2>1. how \in Phases /\ Empty \in [Tables -> SUBSET Artifacts]
    BY DEF Ended, Phases, Empty
  <2>. QED BY <1>1, <2>1 DEF Inv, TypeOK, store
<1>4. \A t \in Tables : got'[r][t] \subseteq Owned(Asks[r])
  BY <1>2 DEF Empty
<1>. QED BY <1>1, <1>2, <1>3, <1>4, RequestFacts, RequestPreservesInv
         DEF Inv, TypeOK

\* The cached view is answered, or none is found.
LEMMA CachePreservesInv ==
  ASSUME Inv, NEW r \in Requests, ReadCached(r)
  PROVE  Inv'
<1>1. /\ at[r] = "listed" /\ at[r] \notin {"new"} \union Ended
      /\ UNCHANGED <<store, views, regenerate, due>>
  BY DEF ReadCached, Ended
<1>2. ViewsAreOwnerScoped'
  BY <1>1 DEF Inv, ViewsAreOwnerScoped, Owned
<1>3. CASE views[Asks[r]] = NoView
  <2>1. at' = [at EXCEPT ![r] = "build"] /\ UNCHANGED <<answer, listed, got, found>>
    BY <1>3 DEF ReadCached
  <2>2. TypeOK'
    BY <1>1, <2>1 DEF Inv, TypeOK, Phases, store
  <2>3. at'[r] = "build" /\ "build" \notin Tables \union {"new", "end", "write"}
    BY <2>1 DEF Inv, TypeOK, Tables
  <2>4. answer[r] # NoView /\ ~answer[r].stale => due[r] \subseteq answer[r].sources
    BY DEF Inv, FreshAnswerIsCurrent
  <2>5. \A q \in Requests \ {r} : at'[q] = at[q]
    BY <2>1 DEF Inv, TypeOK
  <2>. QED BY <1>1, <1>2, <2>1, <2>2, <2>3, <2>4, <2>5, RequestFacts,
              RequestPreservesInv
<1>4. CASE views[Asks[r]] # NoView
  <2>. DEFINE v == views[Asks[r]]
              a == [sources |-> v.sources, stale |-> listed[r] # v.sources]
  <2>1. answer' = [answer EXCEPT ![r] = a] /\ Ends(r, "done")
    BY <1>4 DEF ReadCached, WithStaleMetadata
  <2>2. v.sources \in SUBSET Artifacts
    BY <1>4, RequestFacts DEF Inv, TypeOK, View
  <2>3. a \in [sources : SUBSET Artifacts, stale : BOOLEAN]
    BY <2>2
  <2>4. answer'[r] = a
    BY <2>1 DEF Inv, TypeOK
  <2>5. ~a.stale => due[r] \subseteq a.sources
    BY <1>1, RequestFacts
  <2>6. answer' \in [Requests -> [sources : SUBSET Artifacts, stale : BOOLEAN]
                                 \union {NoView}]
    BY <2>1, <2>3 DEF Inv, TypeOK
  <2>7. \A q \in Requests \ {r} : answer'[q] = answer[q]
    BY <2>1 DEF Inv, TypeOK
  <2>8. views' \in [Owners -> View \union {NoView}]
    BY <1>1 DEF Inv, TypeOK
  <2>9. "done" \in Ended
    BY DEF Ended
  <2>. HIDE DEF a, v
  <2>. QED BY <1>1, <1>2, <2>1, <2>4, <2>5, <2>6, <2>7, <2>8, <2>9, EndPreservesInv
<1>. QED BY <1>3, <1>4

\* The tables are about to be read, after a second listing if need be.
LEMMA BuildPreservesInv ==
  ASSUME Inv, NEW r \in Requests, BuildPerspective(r)
  PROVE  Inv'
<1>. DEFINE l == IF listed[r] = {} THEN ListArtifacts(Asks[r]) ELSE listed[r]
<1>1. /\ at[r] = "build" /\ at[r] \notin {"new"} \union Ended
      /\ UNCHANGED <<store, views, regenerate, got, found, answer, due>>
      /\ at' = [at EXCEPT ![r] = "chunks"] /\ listed' = [listed EXCEPT ![r] = l]
  BY DEF BuildPerspective, Ended
<1>2. l \in SUBSET Artifacts /\ l \subseteq Owned(Asks[r]) /\ due[r] \subseteq l
  BY <1>1, RequestFacts DEF Inv, TypeOK, ListArtifacts
<1>. HIDE DEF l
<1>3. TypeOK'
  BY <1>1, <1>2 DEF Inv, TypeOK, Phases, Tables, store
<1>4. at'[r] = "chunks" /\ listed'[r] = l /\ Prior["chunks"] = {}
  BY <1>1 DEF Inv, TypeOK, Prior
<1>5. answer[r] # NoView /\ ~answer[r].stale => due[r] \subseteq answer[r].sources
  BY DEF Inv, FreshAnswerIsCurrent
<1>6. ViewsAreOwnerScoped'
  BY <1>1 DEF Inv, ViewsAreOwnerScoped, Owned
<1>. QED BY <1>1, <1>2, <1>3, <1>4, <1>5, <1>6, RequestFacts, RequestPreservesInv
         DEF Inv, TypeOK

\* A table is read: what is due is in it.
LEMMA ReadPreservesInv ==
  ASSUME Inv, NEW r \in Requests, NEW t \in Tables, ReadTable(r, t)
  PROVE  Inv'
<1>1. /\ at[r] = t /\ at[r] \notin {"new"} \union Ended
      /\ UNCHANGED <<store, views, regenerate, listed, found, answer, due>>
      /\ got' = [got EXCEPT ![r] = [got[r] EXCEPT ![t] = ListRows(r, t)]]
      /\ at' = [at EXCEPT ![r] = After[t]]
  BY DEF ReadTable, Ended, Tables
<1>2. due[r] \subseteq ListRows(r, t)
  BY <1>1, RequestFacts DEF ListRows
<1>3. ListRows(r, t) \in SUBSET Artifacts
  BY RequestFacts DEF Owned
<1>4. TypeOK'
  <2>1. After[t] \in Phases
    BY PriorGrows DEF Phases
  <2>. QED BY <1>1, <1>3, <2>1 DEF Inv, TypeOK, store
<1>5. at'[r] = After[t]
  BY <1>1 DEF Inv, TypeOK
<1>6. \A u \in Tables : got'[r][u] = IF u = t THEN ListRows(r, t) ELSE got[r][u]
  BY <1>1 DEF Inv, TypeOK
<1>7. \A u \in Prior[After[t]] : due[r] \subseteq got'[r][u]
  <2>1. \A u \in Prior[t] : due[r] \subseteq got[r][u]
    BY <1>1 DEF Inv, ReadsAreDue
  <2>. QED BY <2>1, <1>2, <1>6, PriorGrows
<1>8. answer[r] # NoView /\ ~answer[r].stale => due[r] \subseteq answer[r].sources
  BY DEF Inv, FreshAnswerIsCurrent
<1>9. ViewsAreOwnerScoped'
  BY <1>1 DEF Inv, ViewsAreOwnerScoped, Owned
<1>10. \A u \in Tables : got'[r][u] \subseteq Owned(Asks[r])
  BY <1>6, RequestFacts
<1>11. at'[r] # "new"
  BY <1>5, PriorGrows DEF Tables
<1>12. \A q \in Requests \ {r} : at'[q] = at[q] /\ got'[q] = got[q]
  BY <1>1 DEF Inv, TypeOK
<1>. QED BY <1>1, <1>4, <1>5, <1>7, <1>8, <1>9, <1>10, <1>11, <1>12, RequestFacts,
            RequestPreservesInv

\* The row to replace is looked up.
LEMMA FindPreservesInv ==
  ASSUME Inv, NEW r \in Requests, FindRow(r)
  PROVE  Inv'
<1>1. /\ at[r] = "end" /\ at[r] \notin {"new"} \union Ended
      /\ UNCHANGED <<store, views, regenerate, listed, got, answer, due>>
      /\ at' = [at EXCEPT ![r] = "write"]
      /\ found' = [found EXCEPT ![r] = RowOf(Asks[r])]
  BY DEF FindRow, Ended
<1>2. RowOf(Asks[r]) \in Requests \union {NoView}
  BY RequestFacts DEF Inv, TypeOK, View, RowOf
<1>3. TypeOK'
  BY <1>1, <1>2 DEF Inv, TypeOK, Phases, store
<1>4. at'[r] = "write" /\ Prior["write"] = Prior["end"]
  BY <1>1 DEF Inv, TypeOK, Prior
<1>5. answer[r] # NoView /\ ~answer[r].stale => due[r] \subseteq answer[r].sources
  BY DEF Inv, FreshAnswerIsCurrent
<1>6. \A u \in Prior["end"] : due[r] \subseteq got[r][u]
  BY <1>1 DEF Inv, ReadsAreDue
<1>7. ViewsAreOwnerScoped'
  BY <1>1 DEF Inv, ViewsAreOwnerScoped, Owned
<1>8. \A q \in Requests \ {r} : at'[q] = at[q]
  BY <1>1 DEF Inv, TypeOK
<1>9. \A u \in Prior[at'[r]] : due[r] \subseteq got[r][u]
  BY <1>4, <1>6
<1>. QED BY <1>1, <1>3, <1>4, <1>5, <1>7, <1>8, <1>9, RequestFacts,
            RequestPreservesInv

\* What a request publishes is within its owner's artifacts and covers what is due.
LEMMA BuiltIsDue ==
  ASSUME Inv, NEW r \in Requests, at[r] = "write"
  PROVE  /\ Built(r) \in View
         /\ Built(r).sources \subseteq Owned(Asks[r])
         /\ \A t \in Tables : Built(r).parts[t] \subseteq Owned(Asks[r])
         /\ due[r] \subseteq Covers(Built(r))
<1>1. Prior["write"] = Tables /\ at[r] \notin {"new"} \union Ended
  BY DEF Prior, Ended
<1>2. \A t \in Tables : due[r] \subseteq got[r][t]
  BY <1>1 DEF Inv, ReadsAreDue
<1>3. due[r] \subseteq listed[r]
  BY <1>1, RequestFacts
<1>. QED BY <1>2, <1>3, RequestFacts DEF Inv, TypeOK, Built, View, Covers

\* The view is published, or another request came first.
LEMMA WritePreservesInv ==
  ASSUME Inv, NEW r \in Requests, WriteRow(r)
  PROVE  Inv'
<1>1. at[r] = "write" /\ UNCHANGED <<store, regenerate, due>>
  BY DEF WriteRow
<1>2. CASE found[r] = RowOf(Asks[r])
  <2>. DEFINE a == [sources |-> listed[r], stale |-> FALSE]
  <2>1. /\ views' = [views EXCEPT ![Asks[r]] = Built(r)]
        /\ answer' = [answer EXCEPT ![r] = a] /\ Ends(r, "done")
    BY <1>2 DEF WriteRow
  <2>2. ViewsAreOwnerScoped'
    <3>. SUFFICES ASSUME NEW o \in Owners, views'[o] # NoView
                  PROVE /\ views'[o].sources \subseteq Owned(o)
                        /\ \A t \in Tables : views'[o].parts[t] \subseteq Owned(o)
      BY DEF ViewsAreOwnerScoped, Owned
    <3>1. CASE o = Asks[r]
      <4>1. views'[o] = Built(r)
        BY <3>1, <2>1 DEF Inv, TypeOK
      <4>. QED BY <4>1, <3>1, <1>1, BuiltIsDue
    <3>2. CASE o # Asks[r]
      BY <3>2, <2>1 DEF Inv, TypeOK, ViewsAreOwnerScoped
    <3>. QED BY <3>1, <3>2
  <2>3. views' \in [Owners -> View \union {NoView}]
    BY <2>1, <1>1, BuiltIsDue DEF Inv, TypeOK
  <2>4. a \in [sources : SUBSET Artifacts, stale : BOOLEAN]
    BY DEF Inv, TypeOK
  <2>5. due[r] \subseteq a.sources
    BY <1>1, BuiltIsDue DEF Covers, Built
  <2>. HIDE DEF a
  <2>6. answer'[r] = a /\ \A q \in Requests \ {r} : answer'[q] = answer[q]
    BY <2>1 DEF Inv, TypeOK
  <2>7. answer' \in [Requests -> [sources : SUBSET Artifacts, stale : BOOLEAN]
                                 \union {NoView}]
    BY <2>1, <2>4 DEF Inv, TypeOK
  <2>8. "done" \in Ended
    BY DEF Ended
  <2>. QED BY <1>1, <2>1, <2>2, <2>3, <2>5, <2>6, <2>7, <2>8, EndPreservesInv
<1>3. CASE found[r] # RowOf(Asks[r])
  <2>1. UNCHANGED <<views, answer>> /\ Ends(r, "conflict") /\ "conflict" \in Ended
    BY <1>3 DEF WriteRow, Ended
  <2>2. ViewsAreOwnerScoped'
    BY <2>1 DEF Inv, ViewsAreOwnerScoped, Owned
  <2>3. answer[r] # NoView /\ ~answer[r].stale => due[r] \subseteq answer[r].sources
    BY DEF Inv, FreshAnswerIsCurrent
  <2>4. /\ views' \in [Owners -> View \union {NoView}]
        /\ answer' \in [Requests -> [sources : SUBSET Artifacts, stale : BOOLEAN]
                                    \union {NoView}]
    BY <2>1 DEF Inv, TypeOK
  <2>. QED BY <1>1, <2>1, <2>2, <2>3, <2>4, EndPreservesInv
<1>. QED BY <1>2, <1>3

\* The request fails.
LEMMA FailPreservesInv ==
  ASSUME Inv, NEW r \in Requests, RequestFails(r)
  PROVE  Inv'
<1>1. /\ at[r] # "new" /\ Ends(r, "failed") /\ "failed" \in Ended
      /\ UNCHANGED <<store, views, regenerate, answer, due>>
  BY DEF RequestFails, Tables, Ended
<1>2. ViewsAreOwnerScoped'
  BY <1>1 DEF Inv, ViewsAreOwnerScoped, Owned
<1>3. answer[r] # NoView /\ ~answer[r].stale => due[r] \subseteq answer[r].sources
  BY DEF Inv, FreshAnswerIsCurrent
<1>4. /\ views' \in [Owners -> View \union {NoView}]
      /\ answer' \in [Requests -> [sources : SUBSET Artifacts, stale : BOOLEAN]
                                  \union {NoView}]
  BY <1>1 DEF Inv, TypeOK
<1>. QED BY <1>1, <1>2, <1>3, <1>4, EndPreservesInv

\* Every step keeps the invariant.
LEMMA NextPreservesInv == Inv /\ [Next]_vars => Inv'
<1>. SUFFICES ASSUME Inv, [Next]_vars PROVE Inv'
  OBVIOUS
<1>1. CASE UNCHANGED vars
  BY <1>1 DEF vars, store, request, Inv, TypeOK, NoDanglingRows, IngestMatchesRows,
              ReadsAreDue, FreshAnswerIsCurrent, ViewsAreOwnerScoped, Owned,
              Ingested
<1>2. ASSUME NEW a \in Artifacts, Reject(a) \/ IngestStep(a) \/ IngestFails(a)
      PROVE  Inv'
  BY <1>2, IngestStepPreservesInv
<1>3. ASSUME NEW r \in Requests, RequestStep(r) \/ RequestFails(r)
      PROVE  Inv'
  BY <1>3, BeginPreservesInv, CachePreservesInv, BuildPreservesInv,
     ReadPreservesInv, FindPreservesInv, WritePreservesInv, FailPreservesInv
     DEF RequestStep
<1>. QED BY <1>1, <1>2, <1>3 DEF Next

-----------------------------------------------------------------------------
(* Theorems                                                                *)

\* The invariant holds however ingestions and requests interleave and fail.
THEOREM SpecInv == Spec => []Inv
BY InitInv, NextPreservesInv, PTL DEF Spec

\* Rows and request locals keep their types (models/context_engine.py).
THEOREM TypeCorrect == Spec => []TypeOK
<1>1. Inv => TypeOK
  BY DEF Inv
<1>. QED BY <1>1, SpecInv, PTL

\* No derived row is stored before what it points to, wherever an ingestion stops
\* (ingest_artifact).
THEOREM RowsAreBacked == Spec => []NoDanglingRows
<1>1. Inv => NoDanglingRows
  BY DEF Inv
<1>. QED BY <1>1, SpecInv, PTL

\* An answer not marked stale misses nothing that was ingested before the request
\* (_with_stale_metadata).
THEOREM FreshAnswersAreCurrent == Spec => []FreshAnswerIsCurrent
<1>1. Inv => FreshAnswerIsCurrent
  BY DEF Inv
<1>. QED BY <1>1, SpecInv, PTL

\* No view holds anything of another owner (the filters of the list_* queries).
THEOREM ViewsStayWithOwners == Spec => []ViewsAreOwnerScoped
<1>1. Inv => ViewsAreOwnerScoped
  BY DEF Inv
<1>. QED BY <1>1, SpecInv, PTL

-----------------------------------------------------------------------------
(* The store implements the contract                                       *)

\* The state of the contract that a state of the store stands for.
dueBar  == [r \in Requests |-> Due(r)]
viewBar == [o \in Owners |-> Published(views[o])]

\* What is due to an open request is a set of artifacts, so it is neither of the
\* contract's marks.
LEMMA OpenIsUnmarked ==
  ASSUME Inv, NEW r \in Requests, at[r] \notin {"new"} \union Ended
  PROVE  dueBar[r] = due[r] /\ dueBar[r] \notin {NotAsked, Over}
BY ContextAssumption DEF Inv, TypeOK, dueBar, Due

\* Initially nothing has been asked or published.
LEMMA InitMaps == Init => Contract!Init
<1>. SUFFICES ASSUME Init PROVE Contract!Init
  OBVIOUS
<1>1. Ingested \subseteq Artifacts
  BY DEF Ingested
<1>2. dueBar = [r \in Requests |-> NotAsked]
  BY DEF Init, dueBar, Due
<1>3. viewBar = [o \in Owners |-> NoView]
  BY DEF Init, viewBar, Published
<1>. QED BY <1>1, <1>2, <1>3 DEF Contract!Init, dueBar, viewBar

\* A request's own step leaves the others' dues alone.
LEMMA OthersDue ==
  ASSUME Inv, NEW r \in Requests, NEW d, dueBar'[r] = d,
         \A q \in Requests \ {r} : at'[q] = at[q] /\ due'[q] = due[q]
  PROVE  dueBar' = [dueBar EXCEPT ![r] = d]
BY DEF dueBar, Due

\* A request that ends without publishing finishes.
LEMMA EndMaps ==
  ASSUME Inv, NEW r \in Requests, at[r] \notin {"new"} \union Ended,
         NEW how \in Ended, Ends(r, how), UNCHANGED <<store, views, due>>
  PROVE  Contract!Finish(r)
<1>1. at'[r] = how /\ \A q \in Requests \ {r} : at'[q] = at[q] /\ due'[q] = due[q]
  BY DEF Ends, Inv, TypeOK
<1>2. dueBar'[r] = Over
  BY <1>1 DEF dueBar, Due, Ended
<1>3. dueBar' = [dueBar EXCEPT ![r] = Over]
  BY <1>1, <1>2, OthersDue
<1>4. Ingested' = Ingested /\ viewBar' = viewBar
  BY DEF store, Ingested, viewBar, Published, Covers
<1>. QED BY <1>3, <1>4, OpenIsUnmarked DEF Contract!Finish, dueBar, viewBar

\* A step that moves a request while it stays open is invisible.
LEMMA OpenStepMaps ==
  ASSUME Inv, NEW r \in Requests, NEW p, at[r] \notin {"new"} \union Ended,
         at' = [at EXCEPT ![r] = p], p \notin {"new"} \union Ended,
         UNCHANGED <<store, views, due>>
  PROVE  UNCHANGED Contract!vars
<1>1. at'[r] = p /\ \A q \in Requests \ {r} : at'[q] = at[q]
  BY DEF Inv, TypeOK
<1>2. dueBar' = dueBar
  BY <1>1 DEF dueBar, Due
<1>3. Ingested' = Ingested /\ viewBar' = viewBar
  BY DEF store, Ingested, viewBar, Published, Covers
<1>. QED BY <1>2, <1>3 DEF Contract!vars, dueBar, viewBar

\* A step of an ingestion confirms its artifact or is invisible.
LEMMA IngestionMaps ==
  ASSUME Inv, NEW a \in Artifacts, Reject(a) \/ IngestStep(a) \/ IngestFails(a)
  PROVE  [Contract!Next]_(Contract!vars)
<1>1. dueBar' = dueBar /\ viewBar' = viewBar
  BY IngestStepPreservesInv DEF request, dueBar, Due, viewBar, Published, Covers
<1>2. CASE Ingested' = Ingested
  BY <1>1, <1>2 DEF Contract!vars, dueBar, viewBar
<1>3. CASE Ingested' = Ingested \union {a}
  <2>1. Contract!Ingest(a)
    BY <1>1, <1>3 DEF Contract!Ingest, dueBar, viewBar
  <2>. QED BY <2>1 DEF Contract!Next
<1>. QED BY <1>2, <1>3, IngestStepPreservesInv

\* The first listing begins the request.
LEMMA BeginMaps ==
  ASSUME Inv, NEW r \in Requests, GetPerspective(r)
  PROVE  Contract!Begin(r, Asks[r])
<1>. DEFINE d == Ingested \intersect Owned(Asks[r])
<1>1. /\ at[r] = "new" /\ at'[r] \notin {"new"} \union Ended /\ due'[r] = d
      /\ \A q \in Requests \ {r} : at'[q] = at[q] /\ due'[q] = due[q]
      /\ UNCHANGED <<store, views>>
  BY DEF GetPerspective, Inv, TypeOK, Ended
<1>2. dueBar[r] = NotAsked /\ dueBar'[r] = d
  BY <1>1 DEF dueBar, Due
<1>3. dueBar' = [dueBar EXCEPT ![r] = d]
  BY <1>1, <1>2, OthersDue
<1>4. Ingested' = Ingested /\ viewBar' = viewBar
  BY <1>1 DEF store, Ingested, viewBar, Published, Covers
<1>5. Contract!Owned(Asks[r]) = Owned(Asks[r])
  BY DEF Contract!Owned, Owned
<1>. QED BY <1>2, <1>3, <1>4, <1>5 DEF Contract!Begin, dueBar, viewBar

\* The commit of a view publishes it; a conflict ends the request.
LEMMA WriteMaps ==
  ASSUME Inv, NEW r \in Requests, WriteRow(r)
  PROVE  Contract!Publish(r, Asks[r]) \/ Contract!Finish(r)
<1>1. at[r] = "write" /\ at[r] \notin {"new"} \union Ended
      /\ UNCHANGED <<store, due>>
  BY DEF WriteRow, Ended
<1>2. CASE found[r] = RowOf(Asks[r])
  <2>. DEFINE s == Built(r).sources
              c == Covers(Built(r))
  <2>1. views' = [views EXCEPT ![Asks[r]] = Built(r)] /\ Ends(r, "done")
    BY <1>2 DEF WriteRow
  <2>2. /\ s \in SUBSET Contract!Owned(Asks[r]) /\ c \in SUBSET s
        /\ dueBar[r] \subseteq c
    BY <1>1, BuiltIsDue, OpenIsUnmarked DEF Covers, Contract!Owned, Owned
  <2>3. Built(r) # NoView
    BY <1>1, BuiltIsDue, NoViewAssumption
  <2>4. Published(Built(r)) = [sources |-> s, covers |-> c]
    BY <2>3 DEF Published
  <2>5. viewBar' = [viewBar EXCEPT ![Asks[r]] = [sources |-> s, covers |-> c]]
    BY <2>1, <2>4 DEF viewBar, Inv, TypeOK, Published, Covers
  <2>6. at'[r] = "done" /\ \A q \in Requests \ {r} : at'[q] = at[q] /\ due'[q] = due[q]
    BY <1>1, <2>1 DEF Ends, Inv, TypeOK
  <2>7. dueBar' = [dueBar EXCEPT ![r] = Over]
    <3>1. dueBar'[r] = Over
      BY <2>6 DEF dueBar, Due, Ended
    <3>. QED BY <3>1, <2>6, OthersDue
  <2>8. Ingested' = Ingested
    BY <1>1 DEF store, Ingested
  <2>. HIDE DEF s, c
  <2>. QED BY <1>1, <2>2, <2>5, <2>7, <2>8, OpenIsUnmarked
           DEF Contract!Publish, dueBar, viewBar
<1>3. CASE found[r] # RowOf(Asks[r])
  <2>1. UNCHANGED views /\ Ends(r, "conflict") /\ "conflict" \in Ended
    BY <1>3 DEF WriteRow, Ended
  <2>. QED BY <1>1, <2>1, EndMaps
<1>. QED BY <1>2, <1>3

\* Every step of a request begins it, publishes, finishes or is invisible.
LEMMA RequestMaps ==
  ASSUME Inv, NEW r \in Requests, RequestStep(r) \/ RequestFails(r)
  PROVE  [Contract!Next]_(Contract!vars)
<1>1. CASE GetPerspective(r)
  BY <1>1, BeginMaps, RequestFacts DEF Contract!Next
<1>2. CASE WriteRow(r)
  BY <1>2, WriteMaps, RequestFacts DEF Contract!Next
<1>3. CASE ReadCached(r)
  <2>1. at[r] \notin {"new"} \union Ended /\ UNCHANGED <<store, views, due>>
    BY <1>3 DEF ReadCached, Ended
  <2>2. CASE views[Asks[r]] = NoView
    <3>1. at' = [at EXCEPT ![r] = "build"] /\ "build" \notin {"new"} \union Ended
      BY <1>3, <2>2 DEF ReadCached, Ended
    <3>. QED BY <2>1, <3>1, OpenStepMaps
  <2>3. CASE views[Asks[r]] # NoView
    <3>1. Ends(r, "done") /\ "done" \in Ended
      BY <1>3, <2>3 DEF ReadCached, Ended
    <3>. QED BY <2>1, <3>1, EndMaps DEF Contract!Next
  <2>. QED BY <2>2, <2>3
<1>4. CASE RequestFails(r)
  <2>1. /\ at[r] \notin {"new"} \union Ended /\ UNCHANGED <<store, views, due>>
        /\ Ends(r, "failed") /\ "failed" \in Ended
    BY <1>4 DEF RequestFails, Ended, Tables
  <2>. QED BY <2>1, EndMaps DEF Contract!Next
<1>5. ASSUME NEW p \in {"chunks", "write", "end"} \union Tables,
             at[r] \in {"build", "end"} \union Tables,
             at' = [at EXCEPT ![r] = p], UNCHANGED <<store, views, due>>
      PROVE  [Contract!Next]_(Contract!vars)
  <2>1. at[r] \notin {"new"} \union Ended /\ p \notin {"new"} \union Ended
    BY <1>5 DEF Ended, Tables
  <2>. QED BY <1>5, <2>1, OpenStepMaps
<1>6. CASE BuildPerspective(r) \/ FindRow(r)
  BY <1>5, <1>6 DEF BuildPerspective, FindRow
<1>7. ASSUME NEW t \in Tables, ReadTable(r, t)
      PROVE  [Contract!Next]_(Contract!vars)
  BY <1>5, <1>7, PriorGrows DEF ReadTable
<1>. QED BY <1>1, <1>2, <1>3, <1>4, <1>6, <1>7 DEF RequestStep

\* The store keeps the contract's promises: what a request publishes covers what
\* had been ingested for its owner when it began (get_perspective).
THEOREM Implements == Spec => PromisesKept
<1>1. Inv /\ [Next]_vars => [Contract!Next]_(Contract!vars)
  <2>. SUFFICES ASSUME Inv, [Next]_vars PROVE [Contract!Next]_(Contract!vars)
    OBVIOUS
  <2>1. CASE UNCHANGED vars
    BY <2>1 DEF vars, store, request, Contract!vars, Ingested, Due, Published, Covers
  <2>. QED BY <2>1, IngestionMaps, RequestMaps DEF Next
<1>. QED BY InitMaps, SpecInv, <1>1, PTL DEF Spec, PromisesKept, Contract!Spec

-----------------------------------------------------------------------------
(* What a model may change of an ingestion                                 *)

\* A set of places in a sequence has a last one.
LEMMA LatestIsIn ==
  ASSUME NEW n \in Nat, NEW S, S \subseteq 1 .. n, S # {}
  PROVE  Latest(S) \in S
<1> DEFINE R == {ss \in Nat \X Nat : ss[1] < ss[2]}
           D == {n - x : x \in S}
<1>1. IsWellFoundedOn(R, Nat)
  BY NatLessThanWellFounded DEF OpToRel
<1>2. \A x, y \in Nat : <<x, y>> \in R <=> x < y
  OBVIOUS
<1>3. D \subseteq Nat /\ D # {}
  <2>1. \A x \in S : n - x \in Nat
    OBVIOUS
  <2> QED  BY <2>1
<1>4. \A x \in S : n - x \in D
  OBVIOUS
<1>5. \A d \in D : \E x \in S : d = n - x
  OBVIOUS
<1> HIDE DEF R, D
<1>6. PICK d \in D : \A e \in D : ~ (<<e, d>> \in R)
  BY <1>1, <1>3, WFMin
<1>7. PICK m \in S : d = n - m
  BY <1>5
<1>8. \A x \in S : x <= m
  <2>1. SUFFICES ASSUME NEW x \in S PROVE x <= m
    OBVIOUS
  <2>2. n - x \in D /\ n - x \in Nat /\ d \in Nat
    BY <1>3, <1>4
  <2>3. ~ (n - x < d)
    BY <1>2, <1>6, <2>2
  <2> QED  BY <1>7, <2>2, <2>3
<1>9. \E i \in S : \A j \in S : j <= i
  BY <1>8
<1> QED  BY ONLY <1>9, Zenon DEF Latest

\* Where the elements of a concatenation u of s and t come from.
Splices(u, s, t) ==
  /\ \A i \in DOMAIN s : i \in DOMAIN u /\ u[i] = s[i]
  /\ \A i \in DOMAIN t : i + Len(s) \in DOMAIN u /\ u[i + Len(s)] = t[i]
  /\ \A i \in DOMAIN u : u[i] \in Range(s) \union Range(t)

LEMMA ElementsOfConcat ==
  ASSUME NEW S, NEW s \in Seq(S), NEW t \in Seq(S), NEW u, u = s \o t
  PROVE  u \in Seq(S) /\ Splices(u, s, t)
<1> DEFINE m == Len(s)
           n == Len(t)
<1>1. /\ u \in Seq(S)
      /\ Len(u) = m + n
      /\ \A i \in 1 .. m + n : u[i] = IF i <= m THEN s[i] ELSE t[i - m]
  BY ConcatProperties
<1>2. /\ m \in Nat /\ n \in Nat
      /\ DOMAIN s = 1 .. m /\ DOMAIN t = 1 .. n
  OBVIOUS
<1>3. DOMAIN u = 1 .. m + n
  BY <1>1
<1> HIDE DEF m, n
<1>4. ASSUME NEW i \in DOMAIN s
      PROVE  i \in DOMAIN u /\ u[i] = s[i]
  BY <1>1, <1>2, <1>3, <1>4
<1>5. ASSUME NEW i \in DOMAIN t
      PROVE  i + m \in DOMAIN u /\ u[i + m] = t[i]
  <2>1. i + m \in 1 .. m + n /\ ~ (i + m <= m) /\ (i + m) - m = i
    BY <1>2, <1>5
  <2> QED  BY <1>1, <1>3, <2>1
<1>6. ASSUME NEW i \in DOMAIN u
      PROVE  u[i] \in Range(s) \union Range(t)
  <2>1. CASE i <= m
    <3>1. i \in DOMAIN s /\ u[i] = s[i]
      BY <1>1, <1>2, <1>3, <1>6, <2>1
    <3> QED  BY <3>1 DEF Range
  <2>2. CASE ~ (i <= m)
    <3>1. i - m \in DOMAIN t
      BY <1>2, <1>3, <1>6, <2>2
    <3>2. u[i] = t[i - m]
      BY <1>1, <1>3, <1>6, <2>2
    <3> QED  BY <3>1, <3>2 DEF Range
  <2> QED  BY <2>1, <2>2
<1> QED  BY <1>1, <1>4, <1>5, <1>6 DEF m, Splices

LEMMA RegroupItems ==
  ASSUME NEW s \in Items, NEW t \in Items, NEW u \in Items
  PROVE  (s \o t) \o u = s \o (t \o u)
<1> DEFINE S == [type : STRING, cites : Seq(Nat)]
<1>1. s \in Seq(S) /\ t \in Seq(S) /\ u \in Seq(S)
  BY DEF Items
<1> HIDE DEF S
<1> QED  BY <1>1, ConcatAssociative

LEMMA EntitiesOfConcat ==
  ASSUME NEW s \in Entities, NEW t \in Entities, NEW u, u = s \o t
  PROVE  u \in Entities /\ Splices(u, s, t)
<1> DEFINE S == [name : STRING, cites : Seq(Nat)]
<1>1. s \in Seq(S) /\ t \in Seq(S) /\ Entities = Seq(S)
  BY DEF Entities
<1> HIDE DEF S
<1> QED  BY <1>1, ElementsOfConcat

LEMMA SignalsOfConcat ==
  ASSUME NEW s \in Signals, NEW t \in Signals, NEW u, u = s \o t
  PROVE  u \in Signals /\ Splices(u, s, t)
<1> DEFINE S == [type : STRING, cites : Seq(Nat)]
<1>1. s \in Seq(S) /\ t \in Seq(S) /\ Signals = Seq(S)
  BY DEF Signals
<1> HIDE DEF S
<1> QED  BY <1>1, ElementsOfConcat

LEMMA ItemsOfConcat ==
  ASSUME NEW s \in Items, NEW t \in Items, NEW u, u = s \o t
  PROVE  u \in Items /\ Splices(u, s, t)
<1> DEFINE S == [type : STRING, cites : Seq(Nat)]
<1>1. s \in Seq(S) /\ t \in Seq(S) /\ Items = Seq(S)
  BY DEF Items
<1> HIDE DEF S
<1> QED  BY <1>1, ElementsOfConcat

\* A sequence is a prefix of any that continues it.
LEMMA PrefixOfConcat ==
  ASSUME NEW S, NEW s \in Seq(S), NEW t \in Seq(S)
  PROVE  IsPrefix(s, s \o t)
<1>1. Len(s) <= Len(s \o t)
  BY ConcatProperties
<1>2. SubSeq(s, 1, Len(s)) = SubSeq(s \o t, 1, Len(s))
  <2>1. CASE Len(s) = 0
    <3>1. SubSeq(s, 1, 0) = <<>>
      BY SubSeqEmpty
    <3>2. SubSeq(s \o t, 1, 0) = <<>>
      BY SubSeqEmpty, ConcatProperties
    <3> QED  BY <2>1, <3>1, <3>2
  <2>2. CASE Len(s) # 0
    <3>1. 1 \in 1 .. Len(s) /\ Len(s) \in 1 .. Len(s)
      BY <2>2
    <3> QED  BY <3>1, SubSeqOfConcat1
  <2> QED  BY <2>1, <2>2
<1> QED  BY <1>1, <1>2 DEF IsPrefix

LEMMA PrefixOfItself ==
  ASSUME NEW S, NEW s \in Seq(S)
  PROVE  IsPrefix(s, s)
BY DEF IsPrefix

\* The run of a step gives what the model replied, unless it raises.
LEMMA RunGivesReply ==
  ASSUME NEW step, NEW onLoop, NEW reply, NEW valid,
         RunStructured(step, onLoop, reply, valid) # Raises
  PROVE  RunStructured(step, onLoop, reply, valid) = reply /\ reply # Raises
BY DEF RunStructured

LEMMA SourcedIsGrounded ==
  \A record, chunks : ~Unsourced(record, chunks) <=> Grounded(record, chunks)
BY DEF Unsourced, Grounded

\* A reply that passes validation has become grounded records; in particular a
\* relationship points at entities of the reply with its names.
LEMMA MappedIsGrounded ==
  ASSUME NEW reply \in [entities : Entities, relationships : Links,
                        signals : Signals, items : Items],
         NEW chunks,
         MapExtractionOutput(reply, chunks) # Raises
  PROVE  LET m == MapExtractionOutput(reply, chunks) IN
           /\ m \in Outputs
           /\ AllGrounded(m, chunks)
           /\ \A i \in DOMAIN m.items : Grounded(m.items[i], chunks)
<1> DEFINE m == MapExtractionOutput(reply, chunks)
<1>1. /\ \A s \in {reply.entities, reply.signals, reply.items} :
              ~AnyUnsourced(s, chunks)
      /\ \A x \in Resolved(reply) : ~Unsourced(x, chunks)
      /\ m = [entities |-> reply.entities,
              relationships |-> {Placed(reply, x) : x \in Resolved(reply)},
              signals |-> reply.signals, items |-> reply.items]
  BY DEF MapExtractionOutput
<1>2. /\ \A i \in DOMAIN reply.entities : Grounded(reply.entities[i], chunks)
      /\ \A i \in DOMAIN reply.signals : Grounded(reply.signals[i], chunks)
      /\ \A i \in DOMAIN reply.items : Grounded(reply.items[i], chunks)
  BY <1>1, SourcedIsGrounded DEF AnyUnsourced
<1>3. \A x \in Resolved(reply) :
        LET p == Placed(reply, x) IN
          /\ p \in [from : STRING, to : STRING, cites : Seq(Nat),
                    source : Nat, target : Nat]
          /\ Grounded(p, chunks)
          /\ {p.source, p.target} \subseteq DOMAIN reply.entities
          /\ reply.entities[p.source].name = p.from
          /\ reply.entities[p.target].name = p.to
  <2>1. SUFFICES ASSUME NEW x \in Resolved(reply)
                 PROVE  LET p == Placed(reply, x) IN
                          /\ p \in [from : STRING, to : STRING, cites : Seq(Nat),
                                    source : Nat, target : Nat]
                          /\ Grounded(p, chunks)
                          /\ {p.source, p.target} \subseteq DOMAIN reply.entities
                          /\ reply.entities[p.source].name = p.from
                          /\ reply.entities[p.target].name = p.to
    OBVIOUS
  <2> DEFINE p == Placed(reply, x)
  <2>2. /\ x \in [from : STRING, to : STRING, cites : Seq(Nat)]
        /\ Named(reply, x.from) # {} /\ Named(reply, x.to) # {}
    BY DEF Resolved, Links
  <2>3. /\ Len(reply.entities) \in Nat
        /\ DOMAIN reply.entities = 1 .. Len(reply.entities)
    BY DEF Entities
  <2>4. \A name : Named(reply, name) \subseteq 1 .. Len(reply.entities)
    BY <2>3 DEF Named
  <2>5. /\ Latest(Named(reply, x.from)) \in Named(reply, x.from)
        /\ Latest(Named(reply, x.to)) \in Named(reply, x.to)
    BY <2>2, <2>3, <2>4, LatestIsIn
  <2>6. p = [from |-> x.from, to |-> x.to, cites |-> x.cites,
             source |-> Latest(Named(reply, x.from)),
             target |-> Latest(Named(reply, x.to))]
    BY DEF Placed
  <2>7. /\ p.source \in Named(reply, x.from) /\ p.target \in Named(reply, x.to)
        /\ p.from = x.from /\ p.to = x.to /\ p.cites = x.cites
    BY <2>5, <2>6
  <2>8. /\ {p.source, p.target} \subseteq DOMAIN reply.entities
        /\ reply.entities[p.source].name = p.from
        /\ reply.entities[p.target].name = p.to
    BY <2>7 DEF Named
  <2>9. p.source \in Nat /\ p.target \in Nat
    BY <2>3, <2>8
  <2>10. p \in [from : STRING, to : STRING, cites : Seq(Nat),
                source : Nat, target : Nat]
    BY <2>2, <2>6, <2>9
  <2>11. Grounded(p, chunks)
    <3>1. Grounded(x, chunks)
      BY <1>1, SourcedIsGrounded
    <3> QED  BY <2>7, <3>1 DEF Grounded
  <2> QED  BY <2>8, <2>10, <2>11
<1>4. m.relationships \in Relations
  BY <1>1, <1>3 DEF Relations
<1>5. m \in Outputs
  BY <1>1, <1>4 DEF Outputs
<1>6. AllGrounded(m, chunks)
  <2>1. \A x \in m.relationships :
          /\ Grounded(x, chunks)
          /\ {x.source, x.target} \subseteq DOMAIN m.entities
          /\ m.entities[x.source].name = x.from
          /\ m.entities[x.target].name = x.to
    BY <1>1, <1>3
  <2> QED  BY <1>1, <1>2, <2>1 DEF AllGrounded
<1> QED  BY <1>1, <1>2, <1>5, <1>6

\* Two grounded results joined are grounded: the places of the second one's
\* entities are moved behind those of the first.
LEMMA JoinIsGrounded ==
  ASSUME NEW one \in Outputs, NEW two \in Outputs, NEW chunks,
         AllGrounded(one, chunks), AllGrounded(two, chunks)
  PROVE  Join(one, two) \in Outputs /\ AllGrounded(Join(one, two), chunks)
<1> DEFINE j == Join(one, two)
           n == Len(one.entities)
<1>1. j = [entities |-> one.entities \o two.entities,
           relationships |-> one.relationships
                             \union {Moved(x, n) : x \in two.relationships},
           signals |-> one.signals \o two.signals,
           items |-> one.items \o two.items]
  BY DEF Join
<1>2. /\ one.entities \in Entities /\ two.entities \in Entities
      /\ one.signals \in Signals /\ two.signals \in Signals
      /\ one.items \in Items /\ two.items \in Items
      /\ one.relationships \in Relations /\ two.relationships \in Relations
  BY DEF Outputs
<1>3. /\ j.entities \in Entities /\ n \in Nat
      /\ \A i \in DOMAIN one.entities : /\ i \in DOMAIN j.entities
                                        /\ j.entities[i] = one.entities[i]
      /\ \A i \in DOMAIN two.entities : /\ i + n \in DOMAIN j.entities
                                        /\ j.entities[i + n] = two.entities[i]
      /\ \A i \in DOMAIN j.entities :
           j.entities[i] \in Range(one.entities) \union Range(two.entities)
  <2>1. j.entities = one.entities \o two.entities
    <3> HIDE DEF j
    <3> QED  BY <1>1
  <2>2. n \in Nat
    BY <1>2 DEF Entities
  <2> HIDE DEF j
  <2>3. j.entities \in Entities /\ Splices(j.entities, one.entities, two.entities)
    BY <1>2, <2>1, EntitiesOfConcat
  <2> QED  BY <2>2, <2>3 DEF Splices
<1>4. /\ j.signals \in Signals
      /\ \A i \in DOMAIN j.signals : Grounded(j.signals[i], chunks)
  <2>1. j.signals = one.signals \o two.signals
    <3> HIDE DEF j
    <3> QED  BY <1>1
  <2> HIDE DEF j
  <2>2. /\ j.signals \in Signals
        /\ \A i \in DOMAIN j.signals :
             j.signals[i] \in Range(one.signals) \union Range(two.signals)
    <3>1. j.signals \in Signals /\ Splices(j.signals, one.signals, two.signals)
      BY <1>2, <2>1, SignalsOfConcat
    <3> QED  BY <3>1 DEF Splices
  <2> QED  BY <2>2 DEF AllGrounded, Range
<1>5. j.items \in Items
  BY <1>1, <1>2, ConcatProperties DEF Items
<1>6. \A x \in two.relationships :
        /\ Moved(x, n) \in [from : STRING, to : STRING, cites : Seq(Nat),
                            source : Nat, target : Nat]
        /\ Moved(x, n).source = x.source + n /\ Moved(x, n).target = x.target + n
        /\ Moved(x, n).from = x.from /\ Moved(x, n).to = x.to
        /\ Moved(x, n).cites = x.cites
  <2>1. n \in Nat
    BY <1>3
  <2> HIDE DEF n
  <2>2. SUFFICES ASSUME NEW x \in two.relationships
                 PROVE  /\ Moved(x, n) \in [from : STRING, to : STRING,
                                            cites : Seq(Nat),
                                            source : Nat, target : Nat]
                        /\ Moved(x, n).source = x.source + n
                        /\ Moved(x, n).target = x.target + n
                        /\ Moved(x, n).from = x.from /\ Moved(x, n).to = x.to
                        /\ Moved(x, n).cites = x.cites
    OBVIOUS
  <2>3. x \in [from : STRING, to : STRING, cites : Seq(Nat),
               source : Nat, target : Nat]
    BY <1>2 DEF Relations
  <2> QED  BY <2>1, <2>3 DEF Moved
<1>7. \A x \in j.relationships :
        /\ Grounded(x, chunks)
        /\ {x.source, x.target} \subseteq DOMAIN j.entities
        /\ j.entities[x.source].name = x.from
        /\ j.entities[x.target].name = x.to
  <2>1. SUFFICES ASSUME NEW x \in j.relationships
                 PROVE  /\ Grounded(x, chunks)
                        /\ {x.source, x.target} \subseteq DOMAIN j.entities
                        /\ j.entities[x.source].name = x.from
                        /\ j.entities[x.target].name = x.to
    OBVIOUS
  <2> HIDE DEF j, n
  <2>2. CASE x \in one.relationships
    <3>1. /\ Grounded(x, chunks)
          /\ {x.source, x.target} \subseteq DOMAIN one.entities
          /\ one.entities[x.source].name = x.from
          /\ one.entities[x.target].name = x.to
      BY <2>2 DEF AllGrounded
    <3>2. /\ j.entities[x.source] = one.entities[x.source]
          /\ j.entities[x.target] = one.entities[x.target]
          /\ {x.source, x.target} \subseteq DOMAIN j.entities
      BY <1>3, <3>1
    <3> QED  BY <3>1, <3>2
  <2>3. CASE \E y \in two.relationships : x = Moved(y, n)
    <3>1. PICK y \in two.relationships : x = Moved(y, n)
      BY <2>3
    <3>2. /\ Grounded(y, chunks)
          /\ {y.source, y.target} \subseteq DOMAIN two.entities
          /\ two.entities[y.source].name = y.from
          /\ two.entities[y.target].name = y.to
      BY DEF AllGrounded
    <3>3. /\ x.source = y.source + n /\ x.target = y.target + n
          /\ x.from = y.from /\ x.to = y.to /\ x.cites = y.cites
      BY <1>6, <3>1
    <3>4. /\ j.entities[x.source] = two.entities[y.source]
          /\ j.entities[x.target] = two.entities[y.target]
          /\ {x.source, x.target} \subseteq DOMAIN j.entities
      BY <1>3, <3>2, <3>3
    <3>5. Grounded(x, chunks)
      BY <3>2, <3>3 DEF Grounded
    <3> QED  BY <3>2, <3>3, <3>4, <3>5
  <2>4. \/ x \in one.relationships
        \/ \E y \in two.relationships : x = Moved(y, n)
    <3>1. j.relationships = one.relationships
                            \union {Moved(y, n) : y \in two.relationships}
      BY <1>1
    <3> QED  BY <2>1, <3>1
  <2> QED  BY <2>2, <2>3, <2>4
<1>8. j.relationships \in Relations
  BY <1>1, <1>2, <1>6 DEF Relations
<1>9. j \in Outputs
  BY <1>1, <1>3, <1>4, <1>5, <1>8 DEF Outputs
<1>10. \A i \in DOMAIN j.entities : Grounded(j.entities[i], chunks)
  <2> HIDE DEF j
  <2> QED  BY <1>3 DEF AllGrounded, Range
<1> QED
  <2> HIDE DEF j
  <2>1. AllGrounded(j, chunks)
    BY <1>4, <1>7, <1>10 DEF AllGrounded
  <2> QED  BY <1>9, <2>1 DEF j

\* What an ingestion is given, by IngestionAssumption.
LEMMA IngestionIsGiven ==
  ASSUME NEW r \in Ingestions
  PROVE  /\ r.chunks \in ChunkLists /\ r.found \in Outputs
         /\ r.generated \in Items /\ r.generated # <<>>
         /\ AllGrounded(r.found, r.chunks)
         /\ \A i \in DOMAIN r.found.items : Grounded(r.found.items[i], r.chunks)
BY IngestionAssumption

\* Extraction with a model: what it returns is grounded, and keeps what the rules
\* found unless the mode is the model's.
LEMMA ExtractionKeeps ==
  ASSUME NEW r \in Ingestions, NEW step, NEW reply \in ExtractionReplies
  PROVE  LET out == ExtractWithExecution(r.found, r.chunks, step, r.onLoop, reply)
         IN /\ out \in Outputs
            /\ AllGrounded(out, r.chunks)
            /\ \A i \in DOMAIN out.items : Grounded(out.items[i], r.chunks)
            /\ IF step # Raises /\ step.mode = "llm"
               THEN HasOutputs(r.found) => HasOutputs(out)
               ELSE /\ IsPrefix(r.found.entities, out.entities)
                    /\ r.found.relationships \subseteq out.relationships
                    /\ IsPrefix(r.found.signals, out.signals)
                    /\ IsPrefix(r.found.items, out.items)
<1> DEFINE output == RunStructured(step, r.onLoop, reply, ValidExtraction(reply))
           modelled == MapExtractionOutput(output, r.chunks)
           out == ExtractWithExecution(r.found, r.chunks, step, r.onLoop, reply)
           fails == \/ step = Raises \/ step.mode = "deterministic"
                    \/ output = Raises \/ modelled = Raises
                    \/ step.mode = "llm" /\ ~HasOutputs(modelled)
<1>1. out = IF fails THEN r.found
            ELSE IF step.mode = "llm" THEN modelled ELSE Join(r.found, modelled)
  BY DEF ExtractWithExecution
<1>2. /\ r.found \in Outputs /\ AllGrounded(r.found, r.chunks)
      /\ \A i \in DOMAIN r.found.items : Grounded(r.found.items[i], r.chunks)
  BY IngestionIsGiven
<1>3. /\ r.found.entities \in Entities /\ r.found.signals \in Signals
      /\ r.found.items \in Items
  BY <1>2 DEF Outputs
<1>4. /\ IsPrefix(r.found.entities, r.found.entities)
      /\ IsPrefix(r.found.signals, r.found.signals)
      /\ IsPrefix(r.found.items, r.found.items)
  BY <1>3, PrefixOfItself DEF Entities, Signals, Items
<1>5. ASSUME ~fails
      PROVE  /\ modelled \in Outputs
             /\ AllGrounded(modelled, r.chunks)
             /\ \A i \in DOMAIN modelled.items : Grounded(modelled.items[i], r.chunks)
  <2>1. output = reply /\ reply # Raises
    BY <1>5, RunGivesReply
  <2>2. reply \in [entities : Entities, relationships : Links,
                   signals : Signals, items : Items]
    BY <2>1, IngestionAssumption
  <2>3. MapExtractionOutput(reply, r.chunks) # Raises
    BY <1>5, <2>1
  <2> QED  BY <2>1, <2>2, <2>3, MappedIsGrounded
<1> HIDE DEF output, modelled
<1>6. CASE fails
  <2>1. out = r.found
    BY <1>1, <1>6
  <2> HIDE DEF out, fails
  <2> QED  BY <1>2, <1>4, <2>1 DEF out
<1>7. CASE ~fails /\ step.mode = "llm"
  <2>1. out = modelled /\ HasOutputs(modelled)
    BY <1>1, <1>7
  <2>2. step # Raises
    BY <1>7
  <2> HIDE DEF out
  <2> QED  BY <1>5, <1>7, <2>1, <2>2 DEF out
<1>8. CASE ~fails /\ step.mode # "llm"
  <2>1. out = Join(r.found, modelled)
    BY <1>1, <1>8
  <2>2. /\ modelled.entities \in Entities /\ modelled.signals \in Signals
        /\ modelled.items \in Items
    BY <1>5, <1>8 DEF Outputs
  <2>3. out \in Outputs /\ AllGrounded(out, r.chunks)
    BY <1>2, <1>5, <1>8, <2>1, JoinIsGrounded
  <2>4. /\ out.entities = r.found.entities \o modelled.entities
        /\ out.signals = r.found.signals \o modelled.signals
        /\ out.items = r.found.items \o modelled.items
        /\ r.found.relationships \subseteq out.relationships
    <3> HIDE DEF out
    <3> QED  BY <2>1 DEF Join
  <2>5. /\ IsPrefix(r.found.entities, out.entities)
        /\ IsPrefix(r.found.signals, out.signals)
        /\ IsPrefix(r.found.items, out.items)
    BY <1>3, <2>2, <2>4, PrefixOfConcat DEF Entities, Signals, Items
  <2>6. \A i \in DOMAIN out.items : Grounded(out.items[i], r.chunks)
    <3>1. \A i \in DOMAIN out.items :
            out.items[i] \in Range(r.found.items) \union Range(modelled.items)
      <4> HIDE DEF out
      <4>1. Splices(out.items, r.found.items, modelled.items)
        BY <1>3, <2>2, <2>4, ItemsOfConcat
      <4> QED  BY <4>1 DEF Splices
    <3> HIDE DEF out
    <3> QED  BY <1>2, <1>5, <1>8, <3>1 DEF Range
  <2> HIDE DEF out
  <2> QED  BY <1>8, <2>3, <2>4, <2>5, <2>6 DEF out
<1> QED  BY <1>6, <1>7, <1>8

\* Task generation with a model: it continues the items there are, by at least
\* one, with grounded items or the generator's own.
Continues(items, current, r) ==
  \E more \in Items :
    /\ items = current \o more /\ more # <<>>
    /\ \A i \in DOMAIN more :
         \/ Grounded(more[i], r.chunks)
         \/ \E j \in DOMAIN r.generated : more[i] = r.generated[j]

LEMMA GenerationContinues ==
  ASSUME NEW r \in Ingestions, NEW step, NEW reply \in ItemReplies,
         NEW current \in Items
  PROVE  Continues(GenerateWithExecution(current, r.generated, r.chunks, step,
                                         r.onLoop, reply), current, r)
<1> DEFINE output == RunStructured(step, r.onLoop, reply, ValidItems(reply))
           out == GenerateWithExecution(current, r.generated, r.chunks, step,
                                        r.onLoop, reply)
           fails == \/ step = Raises \/ step.mode = "deterministic"
                    \/ output = Raises \/ AnyUnsourced(output.items, r.chunks)
                    \/ step.mode = "llm" /\ output.items = <<>>
<1>1. out = IF fails THEN current \o r.generated
            ELSE IF step.mode = "llm" THEN current \o output.items
            ELSE current \o r.generated \o output.items
  BY DEF GenerateWithExecution
<1>2. r.generated \in Items /\ r.generated # <<>>
  BY IngestionIsGiven
<1>3. ASSUME ~fails
      PROVE  /\ output.items \in Items
             /\ \A i \in DOMAIN output.items : Grounded(output.items[i], r.chunks)
  <2>1. output = reply /\ reply # Raises
    BY <1>3, RunGivesReply
  <2>2. reply \in [items : Items]
    BY <2>1, IngestionAssumption
  <2>3. ~AnyUnsourced(output.items, r.chunks)
    BY <1>3
  <2>4. \A i \in DOMAIN output.items : Grounded(output.items[i], r.chunks)
    BY <2>3, SourcedIsGrounded DEF AnyUnsourced
  <2> QED  BY <2>1, <2>2, <2>4
<1> HIDE DEF output
<1>4. CASE fails
  <2>1. out = current \o r.generated
    BY <1>1, <1>4
  <2> HIDE DEF out
  <2> QED  BY <1>2, <2>1 DEF out, Continues
<1>5. CASE ~fails /\ step.mode = "llm"
  <2>1. out = current \o output.items /\ output.items # <<>>
    BY <1>1, <1>5
  <2> HIDE DEF out
  <2> QED  BY <1>3, <1>5, <2>1 DEF out, Continues
<1>6. CASE ~fails /\ step.mode # "llm"
  <2> DEFINE more == r.generated \o output.items
  <2>1. output.items \in Items
    BY <1>3, <1>6
  <2>2. more = r.generated \o output.items
    OBVIOUS
  <2>3. out = current \o more
    <3>1. out = (current \o r.generated) \o output.items
      BY <1>1, <1>6
    <3>2. (current \o r.generated) \o output.items
            = current \o (r.generated \o output.items)
      BY <1>2, <2>1, RegroupItems, Zenon
    <3> HIDE DEF out
    <3> QED  BY <3>1, <3>2, Zenon
  <2> HIDE DEF more
  <2>4. /\ more \in Items
        /\ \A i \in DOMAIN r.generated : i \in DOMAIN more
        /\ \A i \in DOMAIN more :
             more[i] \in Range(r.generated) \union Range(output.items)
    <3>1. more \in Items /\ Splices(more, r.generated, output.items)
      BY <1>2, <2>1, <2>2, ItemsOfConcat
    <3> QED  BY <3>1 DEF Splices
  <2>5. more # <<>>
    BY <1>2, <2>4 DEF Items
  <2>6. \A i \in DOMAIN more : \/ Grounded(more[i], r.chunks)
                               \/ \E j \in DOMAIN r.generated :
                                    more[i] = r.generated[j]
    BY <1>3, <1>6, <2>4 DEF Range
  <2> HIDE DEF out
  <2> QED  BY <2>3, <2>4, <2>5, <2>6 DEF out, Continues
<1> QED  BY <1>4, <1>5, <1>6

\* Nothing has been collected when an ingestion begins.
LEMMA IngestionInitInv == IngestionInit => IngestionInv
<1> SUFFICES ASSUME IngestionInit PROVE IngestionInv
  OBVIOUS
<1>1. NoOutputs \in Outputs
  BY DEF NoOutputs, Outputs, Entities, Signals, Items, Relations
<1>2. IngestionTypeOK
  BY <1>1 DEF IngestionInit, IngestionTypeOK
<1>3. stage = "idle"
  BY DEF IngestionInit
<1>4. ModelStepsAreGrounded
  BY <1>3 DEF ModelStepsAreGrounded, ExtractionIsGrounded, RulesAreKept,
              FoundItemsStay
<1> QED  BY <1>2, <1>4 DEF IngestionInv

LEMMA IngestArtifactInv == IngestionInv /\ IngestArtifact => IngestionInv'
<1> SUFFICES ASSUME IngestionInv, IngestArtifact PROVE IngestionInv'
  OBVIOUS
<1>1. stage' = "extract" /\ asked' \in Ingestions /\ UNCHANGED <<extracted, outputs>>
  BY DEF IngestArtifact
<1>2. IngestionTypeOK'
  BY <1>1 DEF IngestionInv, IngestionTypeOK
<1>3. ModelStepsAreGrounded'
  BY <1>1 DEF ModelStepsAreGrounded, ExtractionIsGrounded, RulesAreKept,
              FoundItemsStay
<1> QED  BY <1>2, <1>3 DEF IngestionInv

LEMMA ExtractInv == IngestionInv /\ Extract => IngestionInv'
<1> SUFFICES ASSUME IngestionInv, Extract PROVE IngestionInv'
  OBVIOUS
<1>1. PICK reply \in ExtractionReplies :
        outputs' = ExtractWithExecution(asked.found, asked.chunks,
                     ExtractionStep(asked), asked.onLoop, reply)
  BY DEF Extract
<1>2. /\ stage = "extract" /\ extracted' = outputs' /\ stage' = "generate"
      /\ asked' = asked
  BY DEF Extract
<1>3. asked \in Ingestions
  BY <1>2 DEF IngestionInv, IngestionTypeOK
<1> DEFINE step == ExtractionStep(asked)
<1>4. /\ outputs' \in Outputs
      /\ AllGrounded(outputs', asked.chunks)
      /\ \A i \in DOMAIN outputs'.items : Grounded(outputs'.items[i], asked.chunks)
      /\ IF step # Raises /\ step.mode = "llm"
         THEN HasOutputs(asked.found) => HasOutputs(outputs')
         ELSE /\ IsPrefix(asked.found.entities, outputs'.entities)
              /\ asked.found.relationships \subseteq outputs'.relationships
              /\ IsPrefix(asked.found.signals, outputs'.signals)
              /\ IsPrefix(asked.found.items, outputs'.items)
  <2> HIDE DEF step
  <2> SUFFICES LET out == ExtractWithExecution(asked.found, asked.chunks, step,
                                               asked.onLoop, reply)
               IN /\ out \in Outputs
                  /\ AllGrounded(out, asked.chunks)
                  /\ \A i \in DOMAIN out.items : Grounded(out.items[i], asked.chunks)
                  /\ IF step # Raises /\ step.mode = "llm"
                     THEN HasOutputs(asked.found) => HasOutputs(out)
                     ELSE /\ IsPrefix(asked.found.entities, out.entities)
                          /\ asked.found.relationships \subseteq out.relationships
                          /\ IsPrefix(asked.found.signals, out.signals)
                          /\ IsPrefix(asked.found.items, out.items)
    BY <1>1 DEF step
  <2> QED  BY <1>3, ExtractionKeeps
<1>5. IngestionTypeOK'
  BY <1>2, <1>3, <1>4 DEF IngestionTypeOK
<1>6. ExtractionIsGrounded'
  BY <1>2, <1>4 DEF ExtractionIsGrounded
<1>7. RulesAreKept'
  <2>1. ExtractionStep(asked)' = step
    BY <1>2 DEF ExtractionStep, StepOf
  <2> HIDE DEF step
  <2> QED  BY <1>2, <1>4, <2>1 DEF RulesAreKept
<1>8. FoundItemsStay'
  BY <1>2 DEF FoundItemsStay
<1> QED
  BY <1>5, <1>6, <1>7, <1>8 DEF IngestionInv, ModelStepsAreGrounded

LEMMA GenerateTasksInv == IngestionInv /\ GenerateTasks => IngestionInv'
<1> SUFFICES ASSUME IngestionInv, GenerateTasks PROVE IngestionInv'
  OBVIOUS
<1> DEFINE step == ItemsStep(asked)
<1>1. PICK reply \in ItemReplies :
        outputs' = [outputs EXCEPT
                     !.items = GenerateWithExecution(outputs.items, asked.generated,
                                 asked.chunks, step, asked.onLoop, reply)]
  BY DEF GenerateTasks
<1>2. /\ stage = "generate" /\ stage' = "store"
      /\ asked' = asked /\ extracted' = extracted
  BY DEF GenerateTasks
<1>3. /\ asked \in Ingestions /\ outputs \in Outputs /\ extracted \in Outputs
      /\ outputs = extracted
  BY <1>2 DEF IngestionInv, IngestionTypeOK
<1>4. outputs.items \in Items
  BY <1>3 DEF Outputs
<1> HIDE DEF step
<1> DEFINE items == GenerateWithExecution(outputs.items, asked.generated,
                      asked.chunks, step, asked.onLoop, reply)
<1>5. Continues(items, outputs.items, asked)
  BY <1>3, <1>4, GenerationContinues
<1>6. outputs' = [outputs EXCEPT !.items = items]
  BY <1>1
<1> HIDE DEF items
<1>7. PICK more \in Items :
        /\ items = outputs.items \o more /\ more # <<>>
        /\ \A i \in DOMAIN more :
             \/ Grounded(more[i], asked.chunks)
             \/ \E j \in DOMAIN asked.generated : more[i] = asked.generated[j]
  BY <1>5 DEF Continues
<1>8. outputs' = [outputs EXCEPT !.items = outputs.items \o more]
  BY <1>6, <1>7, Zenon
<1>9. /\ outputs'.items = outputs.items \o more
      /\ outputs'.entities = outputs.entities
      /\ outputs'.signals = outputs.signals
      /\ outputs'.relationships = outputs.relationships
  BY <1>3, <1>8 DEF Outputs
<1>10. /\ outputs'.items \in Items
      /\ Splices(outputs'.items, outputs.items, more)
  BY <1>4, <1>9, ItemsOfConcat
<1>11. outputs' \in Outputs
  <2>1. items \in Items
    BY <1>7, <1>9, <1>10, Zenon
  <2> QED  BY <1>3, <1>6, <2>1 DEF Outputs
<1>12. IngestionTypeOK'
  BY <1>2, <1>3, <1>11 DEF IngestionTypeOK
<1>13. AllGrounded(outputs, asked.chunks)
  BY <1>2 DEF IngestionInv, ModelStepsAreGrounded, ExtractionIsGrounded
<1>14. ExtractionIsGrounded'
  <2>1. AllGrounded(outputs', asked.chunks)
    BY <1>9, <1>13 DEF AllGrounded
  <2>2. \A i \in DOMAIN outputs.items :
          \/ Grounded(outputs.items[i], asked.chunks)
          \/ \E j \in DOMAIN asked.generated : outputs.items[i] = asked.generated[j]
    BY <1>2 DEF IngestionInv, ModelStepsAreGrounded, ExtractionIsGrounded
  <2>3. \A i \in DOMAIN outputs'.items :
          outputs'.items[i] \in Range(outputs.items) \union Range(more)
    BY <1>10 DEF Splices
  <2>4. \A i \in DOMAIN outputs'.items :
          \/ Grounded(outputs'.items[i], asked.chunks)
          \/ \E j \in DOMAIN asked.generated : outputs'.items[i] = asked.generated[j]
    <3>1. SUFFICES ASSUME NEW i \in DOMAIN outputs'.items
                   PROVE  \/ Grounded(outputs'.items[i], asked.chunks)
                          \/ \E j \in DOMAIN asked.generated :
                               outputs'.items[i] = asked.generated[j]
      OBVIOUS
    <3>2. CASE outputs'.items[i] \in Range(outputs.items)
      <4>1. PICK k \in DOMAIN outputs.items : outputs'.items[i] = outputs.items[k]
        BY <3>2 DEF Range
      <4> QED  BY <2>2, <4>1
    <3>3. CASE outputs'.items[i] \in Range(more)
      <4>1. PICK k \in DOMAIN more : outputs'.items[i] = more[k]
        BY <3>3 DEF Range
      <4> QED  BY <1>7, <4>1
    <3> QED  BY <2>3, <3>1, <3>2, <3>3
  <2> QED  BY <1>2, <2>1, <2>4 DEF ExtractionIsGrounded
<1>15. RulesAreKept'
  BY <1>2 DEF IngestionInv, ModelStepsAreGrounded, RulesAreKept, ExtractionStep,
              StepOf
<1>16. FoundItemsStay'
  <2>1. IsPrefix(outputs.items, outputs.items \o more)
    BY <1>4, PrefixOfConcat DEF Items
  <2>2. IsPrefix(extracted.items, outputs'.items)
    BY <1>3, <1>9, <2>1, Zenon
  <2>3. Len(outputs.items \o more) = Len(outputs.items) + Len(more)
    BY <1>4, ConcatProperties DEF Items
  <2>4. Len(more) \in Nat /\ Len(more) # 0 /\ Len(outputs.items) \in Nat
    BY <1>4, <1>7 DEF Items
  <2>5. Len(outputs'.items) > Len(extracted.items)
    <3>1. Len(outputs'.items) = Len(outputs.items) + Len(more)
      BY <1>9, <2>3, Zenon
    <3> QED  BY <1>3, <2>4, <3>1
  <2>6. outputs' = [extracted EXCEPT !.items = outputs'.items]
    BY <1>3, <1>8, <1>9, Zenon
  <2> QED  BY <1>2, <2>2, <2>5, <2>6 DEF FoundItemsStay
<1> QED
  BY <1>12, <1>14, <1>15, <1>16 DEF IngestionInv, ModelStepsAreGrounded

\* The invariant holds throughout every ingestion, whatever models reply.
THEOREM IngestionSpecInv == IngestionSpec => []IngestionInv
<1>1. IngestionInv /\ [IngestionNext]_ingestionVars => IngestionInv'
  <2> SUFFICES ASSUME IngestionInv, [IngestionNext]_ingestionVars
               PROVE  IngestionInv'
    OBVIOUS
  <2>1. CASE IngestArtifact
    BY <2>1, IngestArtifactInv
  <2>2. CASE Extract
    BY <2>2, ExtractInv
  <2>3. CASE GenerateTasks
    BY <2>3, GenerateTasksInv
  <2>4. CASE UNCHANGED ingestionVars
    BY <2>4 DEF ingestionVars, IngestionInv, IngestionTypeOK, ModelStepsAreGrounded,
                ExtractionIsGrounded, RulesAreKept, FoundItemsStay, ExtractionStep,
                StepOf
  <2> QED  BY <2>1, <2>2, <2>3, <2>4 DEF IngestionNext
<1> QED  BY IngestionInitInv, <1>1, PTL DEF IngestionSpec

\* Records have the fields of their kinds (service.py, ingest_artifact).
THEOREM IngestionTypeCorrect == IngestionSpec => []IngestionTypeOK
<1>1. IngestionInv => IngestionTypeOK
  BY DEF IngestionInv
<1> QED  BY IngestionSpecInv, <1>1, PTL

\* Whatever a model replies, in any mode and for any artifact, what is stored is
\* grounded, and what was found is kept (extract_with_execution,
\* generate_with_execution).
THEOREM ModelsAreContained == IngestionSpec => []ModelStepsAreGrounded
<1>1. IngestionInv => ModelStepsAreGrounded
  BY DEF IngestionInv
<1> QED  BY IngestionSpecInv, <1>1, PTL

-----------------------------------------------------------------------------
(* Lists: what the loops of Lists give                                     *)

\* Induction over the natural numbers, for a set.
LEMMA Induction ==
  ASSUME NEW G, 0 \in G, \A n \in Nat : n \in G => n + 1 \in G
  PROVE  \A n \in Nat : n \in G
<1> DEFINE R == {ss \in Nat \X Nat : ss[1] < ss[2]}
           B == {n \in Nat : n \notin G}
<1>1. IsWellFoundedOn(R, Nat)
  BY NatLessThanWellFounded DEF OpToRel
<1>2. \A x, y \in Nat : <<x, y>> \in R <=> x < y
  OBVIOUS
<1>3. B \subseteq Nat
  OBVIOUS
<1>4. SUFFICES ASSUME B # {} PROVE FALSE
  OBVIOUS
<1> HIDE DEF R
<1>5. PICK x \in B : \A y \in B : ~ (<<y, x>> \in R)
  BY <1>1, <1>3, <1>4, WFMin
<1>6. x \in Nat /\ x \notin G /\ x # 0
  BY <1>5
<1>7. x - 1 \in Nat /\ x - 1 < x
  BY <1>6
<1>8. x - 1 \in G
  <2>1. x - 1 \in B => <<x - 1, x>> \in R
    BY <1>2, <1>6, <1>7
  <2> QED  BY <1>5, <1>7, <2>1
<1>9. (x - 1) + 1 = x
  BY <1>6
<1> QED  BY <1>6, <1>7, <1>8, <1>9

\* The values of a loop that starts with a and takes its n-th turn with h.
Turns(u, a, k, h) ==
  u = [n \in 0 .. k |-> IF n = 0 THEN a ELSE h[<<n, u[n - 1]>>]]

\* Such a loop has a value after each turn.
LEMMA Recursion ==
  ASSUME NEW T, NEW a \in T, NEW k \in Nat, NEW h \in [Nat \X T -> T]
  PROVE  \E u \in [0 .. k -> T] : Turns(u, a, k, h)
<1> DEFINE G == {j \in Nat : \E u \in [0 .. j -> T] : Turns(u, a, j, h)}
<1>1. 0 \in G
  <2>1. /\ [n \in 0 .. 0 |-> a] \in [0 .. 0 -> T]
        /\ Turns([n \in 0 .. 0 |-> a], a, 0, h)
    BY DEF Turns
  <2> QED  BY <2>1
<1>2. \A j \in Nat : j \in G => j + 1 \in G
  <2>1. SUFFICES ASSUME NEW j \in Nat, NEW u \in [0 .. j -> T],
                        Turns(u, a, j, h)
                 PROVE  \E w \in [0 .. j + 1 -> T] : Turns(w, a, j + 1, h)
    OBVIOUS
  <2> DEFINE w == [n \in 0 .. j + 1 |-> IF n <= j THEN u[n] ELSE h[<<j + 1, u[j]>>]]
  <2>2. u[j] \in T /\ h[<<j + 1, u[j]>>] \in T
    OBVIOUS
  <2>3. w \in [0 .. j + 1 -> T]
    BY <2>2
  <2>4. \A n \in 0 .. j + 1 : w[n] = IF n = 0 THEN a ELSE h[<<n, w[n - 1]>>]
    <3>1. SUFFICES ASSUME NEW n \in 0 .. j + 1
                   PROVE  w[n] = IF n = 0 THEN a ELSE h[<<n, w[n - 1]>>]
      OBVIOUS
    <3>2. CASE n = 0
      BY <2>1, <3>2 DEF Turns
    <3>3. CASE n \in 1 .. j
      BY <2>1, <3>3 DEF Turns
    <3>4. CASE n = j + 1
      BY <3>4
    <3> QED  BY <3>1, <3>2, <3>3, <3>4
  <2>5. Turns(w, a, j + 1, h)
    BY <2>3, <2>4 DEF Turns
  <2> QED  BY <2>3, <2>5
<1> HIDE DEF G
<1>3. k \in G
  BY <1>1, <1>2, Induction
<1> QED  BY <1>3 DEF G

\* The turns of the loop that At stands for.
LEMMA AtTurns ==
  ASSUME NEW S, NEW s \in Seq(S), NEW places
  PROVE  \E u \in [0 .. Len(s) -> Seq(S)] :
           /\ At(s, places) = u[Len(s)] /\ u[0] = <<>>
           /\ \A n \in 1 .. Len(s) :
                u[n] = IF n \in places THEN Append(u[n - 1], s[n]) ELSE u[n - 1]
<1> DEFINE h == [x \in Nat \X Seq(S) |->
                   IF x[1] \in 1 .. Len(s) /\ x[1] \in places
                   THEN Append(x[2], s[x[1]]) ELSE x[2]]
           Loop(u) == u = [n \in 0 .. Len(s) |->
                             IF n = 0 THEN <<>>
                             ELSE IF n \in places THEN Append(u[n - 1], s[n])
                                  ELSE u[n - 1]]
<1>1. Len(s) \in Nat /\ <<>> \in Seq(S) /\ DOMAIN s = 1 .. Len(s)
  OBVIOUS
<1>2. h \in [Nat \X Seq(S) -> Seq(S)]
  <2>1. SUFFICES ASSUME NEW n \in Nat, NEW t \in Seq(S), n \in 1 .. Len(s)
                 PROVE  Append(t, s[n]) \in Seq(S)
    OBVIOUS
  <2> QED  BY <2>1
<1>3. \A n \in 1 .. Len(s), t \in Seq(S) :
        h[<<n, t>>] = IF n \in places THEN Append(t, s[n]) ELSE t
  OBVIOUS
<1> HIDE DEF h
<1>4. PICK v \in [0 .. Len(s) -> Seq(S)] : Turns(v, <<>>, Len(s), h)
  BY <1>1, <1>2, Recursion
<1>5. \A n \in 1 .. Len(s) :
        v[n] = IF n \in places THEN Append(v[n - 1], s[n]) ELSE v[n - 1]
  <2>1. SUFFICES ASSUME NEW n \in 1 .. Len(s)
                 PROVE  v[n] = IF n \in places THEN Append(v[n - 1], s[n])
                               ELSE v[n - 1]
    OBVIOUS
  <2>2. n \in 0 .. Len(s) /\ n # 0 /\ n - 1 \in 0 .. Len(s)
    BY <1>1
  <2>3. v[n] = h[<<n, v[n - 1]>>]
    BY <1>4, <2>2 DEF Turns
  <2>4. v[n - 1] \in Seq(S)
    BY <2>2
  <2> QED  BY <1>3, <2>3, <2>4
<1>6. v[0] = <<>>
  BY <1>1, <1>4 DEF Turns
<1>7. Loop(v)
  <2>1. \A n \in 0 .. Len(s) : n # 0 => n \in 1 .. Len(s)
    BY <1>1
  <2> QED  BY <1>5, <1>6, <2>1
<1> DEFINE u == CHOOSE u : Loop(u)
<1>8. Loop(u)
  BY <1>7
<1>9. At(s, places) = u[Len(s)]
  BY DEF At
<1> HIDE DEF u
<1> DEFINE G == {n \in Nat : n <= Len(s) => u[n] = v[n]}
<1>10. u[0] = <<>> /\ u = [n \in 0 .. Len(s) |-> u[n]]
  BY <1>1, <1>8
<1>11. \A n \in 1 .. Len(s) :
         u[n] = IF n \in places THEN Append(u[n - 1], s[n]) ELSE u[n - 1]
  <2>1. \A n \in 1 .. Len(s) : n \in 0 .. Len(s) /\ n # 0
    BY <1>1
  <2> QED  BY <1>8, <2>1
<1>12. 0 \in G
  BY <1>6, <1>10
<1>13. \A n \in Nat : n \in G => n + 1 \in G
  <2>1. SUFFICES ASSUME NEW n \in Nat, n \in G, n + 1 <= Len(s)
                 PROVE  u[n + 1] = v[n + 1]
    OBVIOUS
  <2>2. n + 1 \in 1 .. Len(s) /\ (n + 1) - 1 = n /\ u[n] = v[n]
    BY <1>1, <2>1
  <2> QED  BY <1>5, <1>11, <2>2
<1> HIDE DEF G
<1>14. \A n \in Nat : n \in G
  BY <1>12, <1>13, Induction
<1>15. u[Len(s)] = v[Len(s)]
  BY <1>1, <1>14 DEF G
<1> QED  BY <1>5, <1>6, <1>9, <1>15

\* How the elements of r, a part of s, lie in the first n of s.
Places(m, r, s, places, n) ==
  /\ m \in [1 .. Len(r) -> 1 .. n]
  /\ \A i \in 1 .. Len(r) : m[i] \in places /\ r[i] = s[m[i]]
  /\ \A i, j \in 1 .. Len(r) : i < j => m[i] < m[j]
  /\ \A p \in 1 .. n : p \in places => \E i \in 1 .. Len(r) : m[i] = p

\* One turn adds a place.
LEMMA PlaceAdded ==
  ASSUME NEW S, NEW s \in Seq(S), NEW places, NEW n \in Nat, n + 1 \in 1 .. Len(s),
         n + 1 \in places, NEW t \in Seq(S), NEW m, Places(m, t, s, places, n)
  PROVE  \E w : Places(w, Append(t, s[n + 1]), s, places, n + 1)
<1> DEFINE r == Append(t, s[n + 1])
           w == [i \in 1 .. Len(r) |-> IF i <= Len(t) THEN m[i] ELSE n + 1]
<1>1. s[n + 1] \in S
  OBVIOUS
<1>2. /\ r \in Seq(S) /\ Len(r) = Len(t) + 1 /\ Len(t) \in Nat
      /\ r[Len(r)] = s[n + 1]
      /\ \A i \in 1 .. Len(t) : r[i] = t[i]
  BY <1>1
<1> HIDE DEF r
<1>3. \A i \in 1 .. Len(t) : i \in 1 .. Len(r) /\ w[i] = m[i] /\ m[i] \in 1 .. n
  <2>1. \A i \in 1 .. Len(t) : i \in 1 .. Len(r) /\ i <= Len(t)
    BY <1>2
  <2>2. \A i \in 1 .. Len(t) : m[i] \in 1 .. n
    BY DEF Places
  <2> QED  BY <2>1, <2>2
<1>4. Len(r) \in 1 .. Len(r) /\ w[Len(r)] = n + 1
  BY <1>2
<1>5. \A i \in 1 .. Len(r) : i # Len(r) => i \in 1 .. Len(t)
  BY <1>2
<1>6. DOMAIN w = 1 .. Len(r) /\ w = [i \in 1 .. Len(r) |-> w[i]]
  OBVIOUS
<1> HIDE DEF w
<1>7. w \in [1 .. Len(r) -> 1 .. n + 1]
  <2>1. \A i \in 1 .. Len(r) : w[i] \in 1 .. n + 1
    BY <1>3, <1>4, <1>5
  <2> QED  BY <1>6, <2>1
<1>8. \A i \in 1 .. Len(r) : w[i] \in places /\ r[i] = s[w[i]]
  BY <1>2, <1>3, <1>4, <1>5 DEF Places
<1>9. \A i, j \in 1 .. Len(r) : i < j => w[i] < w[j]
  <2>1. SUFFICES ASSUME NEW i \in 1 .. Len(r), NEW j \in 1 .. Len(r), i < j
                 PROVE  w[i] < w[j]
    OBVIOUS
  <2>2. i \in 1 .. Len(t)
    BY <1>2, <2>1
  <2>3. CASE j = Len(r)
    BY <1>3, <1>4, <2>2, <2>3
  <2>4. CASE j # Len(r)
    <3>1. j \in 1 .. Len(t) /\ m[i] < m[j]
      BY <1>5, <2>1, <2>2, <2>4 DEF Places
    <3> QED  BY <1>3, <2>2, <3>1
  <2> QED  BY <2>3, <2>4
<1>10. \A p \in 1 .. n + 1 : p \in places => \E i \in 1 .. Len(r) : w[i] = p
  <2>1. SUFFICES ASSUME NEW p \in 1 .. n + 1, p \in places
                 PROVE  \E i \in 1 .. Len(r) : w[i] = p
    OBVIOUS
  <2>2. CASE p = n + 1
    BY <1>4, <2>2
  <2>3. CASE p # n + 1
    <3>1. PICK i \in 1 .. Len(t) : m[i] = p
      BY <2>1, <2>3 DEF Places
    <3> QED  BY <1>3, <3>1
  <2> QED  BY <2>2, <2>3
<1>11. Places(w, r, s, places, n + 1)
  BY <1>7, <1>8, <1>9, <1>10 DEF Places
<1> QED  BY <1>11 DEF r

\* At keeps the elements at the places, in order, and nothing else.
LEMMA AtPlaces ==
  ASSUME NEW S, NEW s \in Seq(S), NEW places
  PROVE  /\ At(s, places) \in Seq(S)
         /\ \E m : Places(m, At(s, places), s, places, Len(s))
<1>1. PICK u \in [0 .. Len(s) -> Seq(S)] :
        /\ At(s, places) = u[Len(s)] /\ u[0] = <<>>
        /\ \A n \in 1 .. Len(s) :
             u[n] = IF n \in places THEN Append(u[n - 1], s[n]) ELSE u[n - 1]
  BY AtTurns
<1>2. Len(s) \in Nat
  OBVIOUS
<1> DEFINE Reached(n) == n <= Len(s) => \E m : Places(m, u[n], s, places, n)
           G == {n \in Nat : Reached(n)}
<1>3. 0 \in G
  <2>1. Places([i \in 1 .. 0 |-> i], <<>>, s, places, 0)
    BY DEF Places
  <2> QED  BY <1>1, <2>1
<1>4. \A n \in Nat : n \in G => n + 1 \in G
  <2> SUFFICES ASSUME NEW n \in Nat, Reached(n) PROVE Reached(n + 1)
    <3> HIDE DEF Reached
    <3> QED  OBVIOUS
  <2>1. SUFFICES ASSUME n + 1 <= Len(s)
                 PROVE  \E m : Places(m, u[n + 1], s, places, n + 1)
    OBVIOUS
  <2>2. n <= Len(s) /\ n + 1 \in 1 .. Len(s) /\ n \in 0 .. Len(s)
    BY <1>2, <2>1
  <2>3. PICK m : Places(m, u[n], s, places, n)
    BY <2>1, <2>2
  <2>4. u[n + 1] = IF n + 1 \in places THEN Append(u[n], s[n + 1]) ELSE u[n]
    <3>1. (n + 1) - 1 = n
      OBVIOUS
    <3> QED  BY <1>1, <2>2, <3>1
  <2>5. CASE n + 1 \in places
    <3>1. u[n] \in Seq(S)
      BY <2>2
    <3>2. \E w : Places(w, Append(u[n], s[n + 1]), s, places, n + 1)
      BY <2>2, <2>3, <2>5, <3>1, PlaceAdded
    <3> QED  BY <2>4, <2>5, <3>2
  <2>6. CASE n + 1 \notin places
    <3>1. Places(m, u[n], s, places, n + 1)
      BY <2>1, <2>3, <2>6 DEF Places
    <3> QED  BY <2>4, <2>6, <3>1
  <2> QED  BY <2>5, <2>6
<1> HIDE DEF G
<1>5. \A n \in Nat : n \in G
  BY <1>3, <1>4, Induction
<1>6. \E m : Places(m, u[Len(s)], s, places, Len(s))
  BY <1>2, <1>5 DEF G
<1>7. u[Len(s)] \in Seq(S)
  BY <1>2
<1> QED  BY <1>1, <1>6, <1>7

\* The turns of the loop that Flat stands for.
LEMMA FlatTurns ==
  ASSUME NEW S, NEW ss \in Seq(Seq(S))
  PROVE  \E u \in [0 .. Len(ss) -> Seq(S)] :
           /\ Flat(ss) = u[Len(ss)] /\ u[0] = <<>>
           /\ \A n \in 1 .. Len(ss) : u[n] = u[n - 1] \o ss[n]
<1> DEFINE h == [x \in Nat \X Seq(S) |->
                   IF x[1] \in 1 .. Len(ss) THEN x[2] \o ss[x[1]] ELSE x[2]]
           Loop(u) == u = [n \in 0 .. Len(ss) |->
                             IF n = 0 THEN <<>> ELSE u[n - 1] \o ss[n]]
<1>1. Len(ss) \in Nat /\ <<>> \in Seq(S) /\ DOMAIN ss = 1 .. Len(ss)
  OBVIOUS
<1>2. h \in [Nat \X Seq(S) -> Seq(S)]
  <2>1. SUFFICES ASSUME NEW n \in Nat, NEW t \in Seq(S), n \in 1 .. Len(ss)
                 PROVE  t \o ss[n] \in Seq(S)
    OBVIOUS
  <2>2. ss[n] \in Seq(S)
    BY <2>1
  <2> QED  BY <2>1, <2>2
<1>3. \A n \in 1 .. Len(ss), t \in Seq(S) : h[<<n, t>>] = t \o ss[n]
  <2>1. SUFFICES ASSUME NEW n \in 1 .. Len(ss), NEW t \in Seq(S)
                 PROVE  h[<<n, t>>] = t \o ss[n]
    OBVIOUS
  <2>2. <<n, t>> \in Nat \X Seq(S)
    OBVIOUS
  <2> QED  BY <2>2
<1> HIDE DEF h
<1>4. PICK v \in [0 .. Len(ss) -> Seq(S)] : Turns(v, <<>>, Len(ss), h)
  BY <1>1, <1>2, Recursion
<1>5. \A n \in 1 .. Len(ss) : v[n] = v[n - 1] \o ss[n]
  <2>1. SUFFICES ASSUME NEW n \in 1 .. Len(ss)
                 PROVE  v[n] = v[n - 1] \o ss[n]
    OBVIOUS
  <2>2. n \in 0 .. Len(ss) /\ n # 0 /\ n - 1 \in 0 .. Len(ss)
    BY <1>1
  <2>3. v[n] = h[<<n, v[n - 1]>>]
    BY <1>4, <2>2 DEF Turns
  <2>4. v[n - 1] \in Seq(S)
    BY <2>2
  <2> QED  BY <1>3, <2>3, <2>4
<1>6. v[0] = <<>>
  BY <1>1, <1>4 DEF Turns
<1>7. Loop(v)
  <2>1. \A n \in 0 .. Len(ss) : n # 0 => n \in 1 .. Len(ss)
    BY <1>1
  <2> QED  BY <1>5, <1>6, <2>1
<1> DEFINE u == CHOOSE u : Loop(u)
<1>8. Loop(u)
  BY <1>7
<1>9. Flat(ss) = u[Len(ss)]
  BY DEF Flat
<1> HIDE DEF u
<1> DEFINE G == {n \in Nat : n <= Len(ss) => u[n] = v[n]}
<1>10. u[0] = <<>>
  BY <1>1, <1>8
<1>11. \A n \in 1 .. Len(ss) : u[n] = u[n - 1] \o ss[n]
  <2>1. \A n \in 1 .. Len(ss) : n \in 0 .. Len(ss) /\ n # 0
    BY <1>1
  <2> QED  BY <1>8, <2>1
<1>12. 0 \in G
  BY <1>6, <1>10
<1>13. \A n \in Nat : n \in G => n + 1 \in G
  <2>1. SUFFICES ASSUME NEW n \in Nat, n \in G, n + 1 <= Len(ss)
                 PROVE  u[n + 1] = v[n + 1]
    OBVIOUS
  <2>2. n + 1 \in 1 .. Len(ss) /\ (n + 1) - 1 = n /\ u[n] = v[n]
    BY <1>1, <2>1
  <2> QED  BY <1>5, <1>11, <2>2
<1> HIDE DEF G
<1>14. \A n \in Nat : n \in G
  BY <1>12, <1>13, Induction
<1>15. u[Len(ss)] = v[Len(ss)]
  BY <1>1, <1>14 DEF G
<1> QED  BY <1>5, <1>6, <1>9, <1>15

\* The element i of r is the element place[i] of the sequence list[i] of ss, and the
\* first n of ss are all there.
Laid(list, place, r, ss, n) ==
  /\ \A i \in 1 .. Len(r) : /\ list[i] \in 1 .. n
                            /\ place[i] \in 1 .. Len(ss[list[i]])
                            /\ r[i] = ss[list[i]][place[i]]
  /\ \A i, j \in 1 .. Len(r) : i # j => list[i] # list[j] \/ place[i] # place[j]
  /\ \A k \in 1 .. n : \A p \in 1 .. Len(ss[k]) :
       \E i \in 1 .. Len(r) : list[i] = k /\ place[i] = p

\* One turn adds a sequence.
LEMMA ListAdded ==
  ASSUME NEW S, NEW ss \in Seq(Seq(S)), NEW n \in Nat, n + 1 \in 1 .. Len(ss),
         NEW t \in Seq(S), NEW list, NEW place, Laid(list, place, t, ss, n)
  PROVE  \E list2, place2 : Laid(list2, place2, t \o ss[n + 1], ss, n + 1)
<1> DEFINE new == ss[n + 1]
           r == t \o new
           list2 == [i \in 1 .. Len(r) |-> IF i <= Len(t) THEN list[i] ELSE n + 1]
           place2 == [i \in 1 .. Len(r) |-> IF i <= Len(t) THEN place[i] ELSE i - Len(t)]
<1>1. new \in Seq(S)
  OBVIOUS
<1> HIDE DEF new
<1>2. /\ Len(t) \in Nat /\ Len(new) \in Nat /\ Len(r) = Len(t) + Len(new)
      /\ \A i \in 1 .. Len(t) : r[i] = t[i]
      /\ \A i \in 1 .. Len(r) : i > Len(t) => r[i] = new[i - Len(t)]
  BY <1>1
<1> HIDE DEF r
<1>3. \A i \in 1 .. Len(t) : i \in 1 .. Len(r) /\ list2[i] = list[i] /\ place2[i] = place[i]
  BY <1>2
<1>4. \A p \in 1 .. Len(new) : /\ p + Len(t) \in 1 .. Len(r)
                               /\ ~ (p + Len(t) <= Len(t))
                               /\ (p + Len(t)) - Len(t) = p
  BY <1>2
<1>5. \A p \in 1 .. Len(new) : /\ p + Len(t) \in 1 .. Len(r)
                               /\ list2[p + Len(t)] = n + 1
                               /\ place2[p + Len(t)] = p
                               /\ r[p + Len(t)] = new[p]
  <2>1. \A p \in 1 .. Len(new) : p + Len(t) > Len(t)
    BY <1>2
  <2> QED  BY <1>2, <1>4, <2>1
<1>6. \A i \in 1 .. Len(r) :
        i \in 1 .. Len(t) \/ \E p \in 1 .. Len(new) : i = p + Len(t)
  <2>1. SUFFICES ASSUME NEW i \in 1 .. Len(r), i \notin 1 .. Len(t)
                 PROVE  \E p \in 1 .. Len(new) : i = p + Len(t)
    OBVIOUS
  <2>2. i - Len(t) \in 1 .. Len(new) /\ i = (i - Len(t)) + Len(t)
    BY <1>2, <2>1
  <2> QED  BY <2>2
<1> HIDE DEF list2, place2
<1>12. \A i \in 1 .. Len(r) :
         i \notin 1 .. Len(t) => list2[i] = n + 1 /\ i = place2[i] + Len(t)
  <2>1. SUFFICES ASSUME NEW i \in 1 .. Len(r), i \notin 1 .. Len(t)
                 PROVE  list2[i] = n + 1 /\ i = place2[i] + Len(t)
    OBVIOUS
  <2>2. PICK p \in 1 .. Len(new) : i = p + Len(t)
    BY <1>6, <2>1
  <2>3. list2[p + Len(t)] = n + 1 /\ place2[p + Len(t)] = p
    BY <1>5
  <2> QED  BY <2>2, <2>3
<1>7. \A i \in 1 .. Len(t) : list[i] \in 1 .. n /\ list[i] # n + 1
  BY DEF Laid
<1>8. \A i \in 1 .. Len(r) : /\ list2[i] \in 1 .. n + 1
                             /\ place2[i] \in 1 .. Len(ss[list2[i]])
                             /\ r[i] = ss[list2[i]][place2[i]]
  <2>1. SUFFICES ASSUME NEW i \in 1 .. Len(r)
                 PROVE  /\ list2[i] \in 1 .. n + 1
                        /\ place2[i] \in 1 .. Len(ss[list2[i]])
                        /\ r[i] = ss[list2[i]][place2[i]]
    OBVIOUS
  <2>2. CASE i \in 1 .. Len(t)
    <3>1. 1 .. n \subseteq 1 .. n + 1
      OBVIOUS
    <3>2. /\ list[i] \in 1 .. n /\ place[i] \in 1 .. Len(ss[list[i]])
          /\ t[i] = ss[list[i]][place[i]]
      BY <2>2 DEF Laid
    <3>3. list2[i] = list[i] /\ place2[i] = place[i] /\ r[i] = t[i]
      BY <1>2, <1>3, <2>2
    <3> QED  BY <3>1, <3>2, <3>3
  <2>3. ASSUME NEW p \in 1 .. Len(new), i = p + Len(t)
        PROVE  /\ list2[i] \in 1 .. n + 1
               /\ place2[i] \in 1 .. Len(ss[list2[i]])
               /\ r[i] = ss[list2[i]][place2[i]]
    <3>1. list2[i] = n + 1 /\ place2[i] = p /\ r[i] = new[p]
      BY <1>5, <2>3
    <3>2. n + 1 \in 1 .. n + 1 /\ new = ss[n + 1]
      BY DEF new
    <3> QED  BY <3>1, <3>2
  <2> QED  BY <1>6, <2>2, <2>3
<1>9. \A i, j \in 1 .. Len(r) : i # j => list2[i] # list2[j] \/ place2[i] # place2[j]
  <2>1. SUFFICES ASSUME NEW i \in 1 .. Len(r), NEW j \in 1 .. Len(r),
                        list2[i] = list2[j], place2[i] = place2[j]
                 PROVE  i = j
    OBVIOUS
  <2>2. CASE i \in 1 .. Len(t) /\ j \in 1 .. Len(t)
    <3>1. list[i] = list[j] /\ place[i] = place[j]
      BY <1>3, <2>1, <2>2
    <3> QED  BY <2>2, <3>1 DEF Laid
  <2>3. i \notin 1 .. Len(t) => /\ list2[i] = n + 1
                               /\ i = place2[i] + Len(t)
    BY <1>12
  <2>4. j \notin 1 .. Len(t) => /\ list2[j] = n + 1
                               /\ j = place2[j] + Len(t)
    BY <1>12
  <2>5. i \in 1 .. Len(t) => list2[i] # n + 1
    BY <1>3, <1>7
  <2>6. j \in 1 .. Len(t) => list2[j] # n + 1
    BY <1>3, <1>7
  <2> QED  BY <2>1, <2>2, <2>3, <2>4, <2>5, <2>6
<1>10. \A k \in 1 .. n + 1 : \A p \in 1 .. Len(ss[k]) :
         \E i \in 1 .. Len(r) : list2[i] = k /\ place2[i] = p
  <2>1. SUFFICES ASSUME NEW k \in 1 .. n + 1, NEW p \in 1 .. Len(ss[k])
                 PROVE  \E i \in 1 .. Len(r) : list2[i] = k /\ place2[i] = p
    OBVIOUS
  <2>2. CASE k = n + 1
    <3>1. p \in 1 .. Len(new)
      BY <2>2 DEF new
    <3> QED  BY <1>5, <2>2, <3>1
  <2>3. CASE k # n + 1
    <3>1. k \in 1 .. n
      BY <2>3
    <3>2. PICK i \in 1 .. Len(t) : list[i] = k /\ place[i] = p
      BY <3>1 DEF Laid
    <3> QED  BY <1>3, <3>2
  <2> QED  BY <2>2, <2>3
<1>11. Laid(list2, place2, r, ss, n + 1)
  BY <1>8, <1>9, <1>10 DEF Laid
<1> QED  BY <1>11 DEF r, new

\* Flat has every element of every sequence, each once.
LEMMA FlatLays ==
  ASSUME NEW S, NEW ss \in Seq(Seq(S))
  PROVE  /\ Flat(ss) \in Seq(S)
         /\ \E list, place : Laid(list, place, Flat(ss), ss, Len(ss))
<1>1. PICK u \in [0 .. Len(ss) -> Seq(S)] :
        /\ Flat(ss) = u[Len(ss)] /\ u[0] = <<>>
        /\ \A n \in 1 .. Len(ss) : u[n] = u[n - 1] \o ss[n]
  BY FlatTurns
<1>2. Len(ss) \in Nat
  OBVIOUS
<1> DEFINE Reached(n) == n <= Len(ss) => \E list, place : Laid(list, place, u[n], ss, n)
           G == {n \in Nat : Reached(n)}
<1>3. 0 \in G
  <2>1. Laid(<<>>, <<>>, <<>>, ss, 0)
    BY DEF Laid
  <2> QED  BY <1>1, <2>1
<1>4. \A n \in Nat : n \in G => n + 1 \in G
  <2> SUFFICES ASSUME NEW n \in Nat, Reached(n) PROVE Reached(n + 1)
    <3> HIDE DEF Reached
    <3> QED  OBVIOUS
  <2>1. SUFFICES ASSUME n + 1 <= Len(ss)
                 PROVE  \E list, place : Laid(list, place, u[n + 1], ss, n + 1)
    OBVIOUS
  <2>2. n <= Len(ss) /\ n + 1 \in 1 .. Len(ss) /\ n \in 0 .. Len(ss)
    BY <1>2, <2>1
  <2>3. PICK list, place : Laid(list, place, u[n], ss, n)
    BY <2>2
  <2>4. u[n + 1] = u[n] \o ss[n + 1]
    <3>1. (n + 1) - 1 = n
      OBVIOUS
    <3> QED  BY <1>1, <2>2, <3>1
  <2>5. u[n] \in Seq(S)
    BY <2>2
  <2> QED  BY <2>2, <2>3, <2>4, <2>5, ListAdded
<1> HIDE DEF G
<1>5. \A n \in Nat : n \in G
  BY <1>3, <1>4, Induction
<1>6. \E list, place : Laid(list, place, u[Len(ss)], ss, Len(ss))
  BY <1>2, <1>5 DEF G
<1>7. u[Len(ss)] \in Seq(S)
  BY <1>2
<1> QED  BY <1>1, <1>6, <1>7

\* A set of numbers that has an element has a least one.
LEMMA LeastPlace ==
  ASSUME NEW S, S \subseteq Nat, S # {}
  PROVE  Min(S) \in S /\ \A x \in S : Min(S) <= x
<1> DEFINE G == {n \in Nat : \A x \in S : n <= x}
<1>1. SUFFICES ASSUME \A x \in S : x \notin G
               PROVE  FALSE
  <2>1. (\E x \in S : x \in G) => \E x \in S : \A y \in S : x =< y
    OBVIOUS
  <2>2. (\E x \in S : \A y \in S : x =< y)
          => Min(S) \in S /\ \A y \in S : Min(S) =< y
    BY ONLY Zenon DEF Min
  <2> QED  BY <2>1, <2>2
<1>2. 0 \in G
  OBVIOUS
<1>3. \A n \in Nat : n \in G => n + 1 \in G
  <2>1. SUFFICES ASSUME NEW n \in Nat, n \in G, NEW x \in S
                 PROVE  n + 1 <= x
    OBVIOUS
  <2>2. n <= x /\ x \in Nat /\ x # n
    BY <1>1, <2>1
  <2> QED  BY <2>2
<1>4. \A n \in Nat : n \in G
  <2> HIDE DEF G
  <2> QED  BY <1>2, <1>3, Induction
<1>5. PICK x \in S : TRUE
  OBVIOUS
<1>6. x + 1 \in G /\ x \in Nat
  BY <1>4, <1>5
<1> QED  BY <1>6

\* The elements that At keeps.
LEMMA AtKeeps ==
  ASSUME NEW S, NEW s \in Seq(S), NEW places
  PROVE  /\ At(s, places) \in Seq(S)
         /\ Range(At(s, places)) = {s[i] : i \in {j \in DOMAIN s : j \in places}}
<1> DEFINE r == At(s, places)
<1>1. r \in Seq(S) /\ \E m : Places(m, r, s, places, Len(s))
  BY AtPlaces
<1> HIDE DEF r
<1>2. PICK m : Places(m, r, s, places, Len(s))
  BY <1>1
<1>3. DOMAIN r = 1 .. Len(r) /\ DOMAIN s = 1 .. Len(s)
  BY <1>1
<1>4. \A i \in DOMAIN r : m[i] \in DOMAIN s /\ m[i] \in places /\ r[i] = s[m[i]]
  BY <1>2, <1>3 DEF Places
<1>5. \A p \in DOMAIN s : p \in places => \E i \in DOMAIN r : r[i] = s[p]
  BY <1>2, <1>3 DEF Places
<1> QED  BY <1>1, <1>4, <1>5 DEF Range, r

\* What Where keeps when the elements that pass its test are those of T.
LEMMA WhereKeeps ==
  ASSUME NEW S, NEW s \in Seq(S), NEW T, NEW places,
         \A i \in DOMAIN s : i \in places <=> s[i] \in T
  PROVE  /\ At(s, places) \in Seq(S)
         /\ Range(At(s, places)) = Range(s) \intersect T
         /\ At(s, places) # <<>> <=> \E x \in Range(s) : x \in T
<1> DEFINE r == At(s, places)
<1>1. /\ r \in Seq(S)
      /\ Range(r) = {s[i] : i \in {j \in DOMAIN s : j \in places}}
  BY AtKeeps
<1> HIDE DEF r
<1>2. Range(r) = Range(s) \intersect T
  BY <1>1 DEF Range
<1>3. r # <<>> <=> \E x \in Range(r) : TRUE
  <2>1. r # <<>> <=> Len(r) # 0
    BY <1>1, EmptySeq
  <2>2. DOMAIN r = 1 .. Len(r) /\ Len(r) \in Nat
    BY <1>1
  <2>3. r # <<>> <=> \E i \in DOMAIN r : TRUE
    <3>1. Len(r) # 0 => 1 \in DOMAIN r
      BY <2>2
    <3> QED  BY <2>1, <2>2, <3>1
  <2> QED  BY <2>3 DEF Range
<1> QED  BY <1>1, <1>2, <1>3 DEF r

\* Distinct keeps every element, and none twice.
LEMMA DistinctKeeps ==
  ASSUME NEW S, NEW s \in Seq(S)
  PROVE  /\ Distinct(s) \in Seq(S)
         /\ Range(Distinct(s)) = Range(s)
         /\ \A i, j \in DOMAIN Distinct(s) : i # j => Distinct(s)[i] # Distinct(s)[j]
<1> DEFINE first == {i \in DOMAIN s : \A j \in 1 .. i - 1 : s[j] # s[i]}
           r == At(s, first)
<1>1. /\ r \in Seq(S) /\ \E m : Places(m, r, s, first, Len(s))
      /\ Range(r) = {s[i] : i \in {j \in DOMAIN s : j \in first}}
  BY AtPlaces, AtKeeps
<1>2. Distinct(s) = r
  BY DEF Distinct
<1>3. DOMAIN s = 1 .. Len(s) /\ Len(s) \in Nat
  OBVIOUS
<1>4. \A i \in DOMAIN s : \E j \in first : s[j] = s[i]
  <2>1. SUFFICES ASSUME NEW i \in DOMAIN s
                 PROVE  \E j \in first : s[j] = s[i]
    OBVIOUS
  <2> DEFINE same == {j \in DOMAIN s : s[j] = s[i]}
  <2>2. same \subseteq Nat /\ same # {}
    BY <1>3
  <2>3. Min(same) \in same /\ \A x \in same : Min(same) <= x
    <3> HIDE DEF same
    <3> QED  BY <2>2, LeastPlace
  <2>4. \A j \in 1 .. Min(same) - 1 : s[j] # s[Min(same)]
    <3>1. Min(same) \in DOMAIN s /\ s[Min(same)] = s[i]
      BY <2>3
    <3>2. SUFFICES ASSUME NEW j \in 1 .. Min(same) - 1, s[j] = s[i]
                   PROVE  FALSE
      BY <3>1
    <3>3. j \in DOMAIN s /\ ~ (Min(same) <= j)
      BY <1>3, <3>1
    <3> QED  BY <2>3, <3>2, <3>3
  <2> QED  BY <2>3, <2>4
<1>5. Range(r) = Range(s)
  <2>1. first \subseteq DOMAIN s
    OBVIOUS
  <2> HIDE DEF first, r
  <2>2. {s[i] : i \in {j \in DOMAIN s : j \in first}} = {s[i] : i \in DOMAIN s}
    BY <1>4, <2>1
  <2> QED  BY <1>1, <2>2 DEF Range
<1> HIDE DEF r
<1>6. PICK m : Places(m, r, s, first, Len(s))
  BY <1>1
<1>7. DOMAIN r = 1 .. Len(r)
  BY <1>1
<1>8. \A i, j \in DOMAIN r : i < j => r[i] # r[j]
  <2>1. SUFFICES ASSUME NEW i \in DOMAIN r, NEW j \in DOMAIN r, i < j
                 PROVE  r[i] # r[j]
    OBVIOUS
  <2>2. /\ m[i] \in 1 .. Len(s) /\ m[j] \in first /\ m[j] \in 1 .. Len(s)
        /\ m[i] < m[j] /\ r[i] = s[m[i]] /\ r[j] = s[m[j]]
    BY <1>6, <1>7, <2>1 DEF Places
  <2>3. m[i] \in 1 .. m[j] - 1
    BY <1>3, <2>2
  <2> QED  BY <2>2, <2>3
<1>9. \A i, j \in DOMAIN r : i # j => i < j \/ j < i
  BY <1>7
<1> QED  BY <1>1, <1>2, <1>5, <1>8, <1>9

\* The beginning of a sequence.
LEMMA TakeKeeps ==
  ASSUME NEW S, NEW s \in Seq(S), NEW n \in Nat
  PROVE  /\ Take(s, n) \in Seq(S)
         /\ Len(Take(s, n)) <= n
         /\ n > 0 /\ s # <<>> => Take(s, n) # <<>>
         /\ \A i \in DOMAIN Take(s, n) : i \in DOMAIN s /\ Take(s, n)[i] = s[i]
<1> DEFINE k == IF n < Len(s) THEN n ELSE Len(s)
           r == [i \in 1 .. k |-> s[i]]
<1>1. k \in Nat /\ k <= n /\ k <= Len(s) /\ DOMAIN s = 1 .. Len(s)
  OBVIOUS
<1>2. Take(s, n) = r
  BY DEF Take
<1>3. \A i \in 1 .. k : i \in DOMAIN s /\ s[i] \in S
  BY <1>1
<1>5. n > 0 /\ s # <<>> => k # 0
  <2>1. s # <<>> => Len(s) # 0
    BY EmptySeq
  <2> QED  BY <2>1
<1> HIDE DEF k
<1>4. r \in Seq(S) /\ Len(r) = k /\ DOMAIN r = 1 .. k
  BY <1>1, <1>3
<1>6. k # 0 => r # <<>>
  BY <1>4
<1> QED  BY <1>1, <1>2, <1>3, <1>4, <1>5, <1>6

\* What a beginning leaves out, it leaves out because it is full.
LEMMA TakeLeavesOut ==
  ASSUME NEW S, NEW s \in Seq(S), NEW n \in Nat
  PROVE  Range(Take(s, n)) = Range(s) \/ Len(Take(s, n)) = n
<1>1. CASE n < Len(s)
  <2>1. Take(s, n) = [i \in 1 .. n |-> s[i]]
    BY <1>1 DEF Take
  <2>2. \A i \in 1 .. n : s[i] \in S
    BY <1>1
  <2> QED  BY <2>1, <2>2
<1>2. CASE ~ (n < Len(s))
  <2>1. Take(s, n) = [i \in 1 .. Len(s) |-> s[i]]
    BY <1>2 DEF Take
  <2>2. Take(s, n) = s
    BY <2>1
  <2> QED  BY <2>2
<1> QED  BY <1>1, <1>2

\* The elements of a concatenation.
LEMMA ConcatKeeps ==
  ASSUME NEW S, NEW s \in Seq(S), NEW t \in Seq(S)
  PROVE  s \o t \in Seq(S) /\ Range(s \o t) = Range(s) \union Range(t)
<1>1. s \o t \in Seq(S) /\ Splices(s \o t, s, t)
  BY ElementsOfConcat
<1>2. \A x \in Range(s) : x \in Range(s \o t)
  BY <1>1 DEF Splices, Range
<1>3. \A x \in Range(t) : x \in Range(s \o t)
  BY <1>1 DEF Splices, Range
<1>4. \A x \in Range(s \o t) : x \in Range(s) \union Range(t)
  <2>1. SUFFICES ASSUME NEW i \in DOMAIN (s \o t)
                 PROVE  (s \o t)[i] \in Range(s) \union Range(t)
    BY DEF Range
  <2> QED  BY <1>1 DEF Splices
<1> QED  BY <1>1, <1>2, <1>3, <1>4

-----------------------------------------------------------------------------
(* JobSearch: signals                                                      *)

TextLine == [text : Nat \ {0}, marks : SUBSET STRING, holds : SUBSET (Nat \ {0})]
TextChunks == Seq([id : Nat, lines : TextLines])
Valued == [text : Int, chunk : Nat]
\* The numbers of the chunks that say something.
Saying(chunks, text) == {k \in DOMAIN chunks : Says(chunks[k], text)}

\* The id c of a chunk that says something, if any chunk does.
Sourced(c, text, chunks) ==
  /\ \E k \in DOMAIN chunks : chunks[k].id = c
  /\ Saying(chunks, text) # {} => \E k \in Saying(chunks, text) : chunks[k].id = c

\* Values that differ, with their chunks.
ValuesAreSound(values, chunks) ==
  /\ values \in Seq(Valued)
  /\ \A i, j \in DOMAIN values : i # j => values[i].text # values[j].text
  /\ \A i \in DOMAIN values : Sourced(values[i].chunk, values[i].text, chunks)

\* A chunk is an id and lines.
LEMMA ChunksHaveLines ==
  ASSUME NEW chunks \in TextChunks, NEW k \in DOMAIN chunks
  PROVE  chunks[k].id \in Nat /\ chunks[k].lines \in Seq(TextLine)
<1> DEFINE C == [id : Nat, lines : TextLines]
<1>1. chunks \in Seq(C) /\ k \in 1 .. Len(chunks)
  BY DEF TextChunks
<1>2. chunks[k] \in C
  <2> HIDE DEF C
  <2> QED  BY <1>1, ElementOfSeq
<1> QED  BY <1>2 DEF TextLines, TextLine

\* The first of some chunks is a chunk, and one of those if there are any.
LEMMA FirstIsThere ==
  ASSUME NEW chunks \in TextChunks, chunks # <<>>, NEW hits, hits \subseteq DOMAIN chunks
  PROVE  /\ FirstOf(chunks, hits) \in Nat
         /\ \E k \in DOMAIN chunks : chunks[k].id = FirstOf(chunks, hits)
         /\ hits # {} => \E k \in hits : chunks[k].id = FirstOf(chunks, hits)
<1> DEFINE k == IF hits = {} THEN 1 ELSE Min(hits)
<1>1. chunks \in Seq([id : Nat, lines : TextLines])
  BY DEF TextChunks
<1>2. DOMAIN chunks = 1 .. Len(chunks) /\ Len(chunks) \in Nat /\ Len(chunks) # 0
  BY <1>1, EmptySeq
<1>3. hits # {} => Min(hits) \in hits
  <2>1. hits \subseteq Nat
    BY <1>2
  <2> QED  BY <2>1, LeastPlace
<1>4. k \in DOMAIN chunks /\ (hits # {} => k \in hits)
  BY <1>2, <1>3
<1>5. FirstOf(chunks, hits) = chunks[k].id
  BY DEF FirstOf
<1> HIDE DEF k
<1>6. chunks[k].id \in Nat
  BY <1>4, ChunksHaveLines
<1> QED  BY <1>4, <1>5, <1>6

\* What a text is attributed to says it, if any chunk does (source_for_match).
LEMMA MatchIsSourced ==
  ASSUME NEW chunks \in TextChunks, chunks # <<>>, NEW text
  PROVE  /\ SourceForMatch(chunks, text) \in Nat
         /\ Sourced(SourceForMatch(chunks, text), text, chunks)
<1>1. SourceForMatch(chunks, text) = FirstOf(chunks, Saying(chunks, text))
  BY DEF SourceForMatch, Saying
<1>2. Saying(chunks, text) \subseteq DOMAIN chunks
  BY DEF Saying
<1> QED  BY <1>1, <1>2, FirstIsThere DEF Sourced

\* Words that do not repeat, each with its source.
LEMMA WordsAreSound ==
  ASSUME NEW chunks \in TextChunks, chunks # <<>>, NEW said \in Seq(Int),
         \A i, j \in DOMAIN said : i # j => said[i] # said[j], NEW values,
         values = [i \in DOMAIN said |->
                    [text |-> said[i], chunk |-> SourceForMatch(chunks, said[i])]]
  PROVE  ValuesAreSound(values, chunks)
<1>1. \A i \in DOMAIN said :
        /\ said[i] \in Int /\ SourceForMatch(chunks, said[i]) \in Nat
        /\ Sourced(SourceForMatch(chunks, said[i]), said[i], chunks)
  BY MatchIsSourced
<1>2. DOMAIN said = 1 .. Len(said) /\ Len(said) \in Nat
  OBVIOUS
<1>3. \A i \in DOMAIN said : values[i] = [text |-> said[i],
                                          chunk |-> SourceForMatch(chunks, said[i])]
  OBVIOUS
<1>4. values \in Seq(Valued)
  <2>1. \A i \in DOMAIN said : values[i] \in Valued
    BY <1>1, <1>3 DEF Valued
  <2> QED  BY <1>2, <2>1
<1>5. DOMAIN values = DOMAIN said
  OBVIOUS
<1> QED  BY <1>1, <1>3, <1>4, <1>5 DEF ValuesAreSound

\* A line says something positive.
LEMMA LinesHaveText ==
  ASSUME NEW s \in Seq(TextLine), NEW i \in DOMAIN s
  PROVE  s[i].text \in Int /\ s[i].text > 0
<1>1. s[i] \in TextLine
  BY ElementOfSeq
<1> QED  BY <1>1 DEF TextLine

\* The lines of the chunks.
LEMMA LinesAreLines ==
  ASSUME NEW chunks \in TextChunks
  PROVE  LinesOf(chunks) \in Seq(TextLine)
<1> DEFINE ss == [i \in DOMAIN chunks |-> chunks[i].lines]
<1>1. ss \in Seq(Seq(TextLine))
  <2>1. DOMAIN chunks = 1 .. Len(chunks) /\ Len(chunks) \in Nat
    BY DEF TextChunks
  <2>2. \A k \in DOMAIN chunks : ss[k] \in Seq(TextLine)
    BY ChunksHaveLines
  <2> QED  BY <2>1, <2>2
<1> HIDE DEF ss
<1>2. Flat(ss) \in Seq(TextLine)
  BY <1>1, FlatLays
<1> QED  BY <1>2 DEF LinesOf, ss

\* Matching lines are lines of the text.
LEMMA MatchingIsPart ==
  ASSUME NEW s \in Seq(TextLine), NEW mark
  PROVE  Matching(s, mark) \in Seq(TextLine) /\ Range(Matching(s, mark)) \subseteq Range(s)
<1> DEFINE P == {i \in DOMAIN s : mark \in s[i].marks}
<1>1. Matching(s, mark) = At(s, P)
  BY DEF Matching, Where
<1>2. /\ At(s, P) \in Seq(TextLine)
      /\ Range(At(s, P)) = {s[i] : i \in {j \in DOMAIN s : j \in P}}
  <2> HIDE DEF P
  <2> QED  BY AtKeeps
<1> QED  BY <1>1, <1>2 DEF Range

\* What lines say is said once, however often they say it.
LEMMA QuotedIsSound ==
  ASSUME NEW chunks \in TextChunks, chunks # <<>>, NEW hits \in Seq(TextLine)
  PROVE  ValuesAreSound(Quoted(hits, chunks), chunks)
<1> DEFINE texts == [i \in DOMAIN hits |-> hits[i].text]
           said == Distinct(texts)
<1>1. Quoted(hits, chunks)
        = [i \in DOMAIN said |-> [text |-> said[i],
                                  chunk |-> SourceForMatch(chunks, said[i])]]
  BY DEF Quoted
<1>2. texts \in Seq(Int)
  <2>1. DOMAIN hits = 1 .. Len(hits) /\ Len(hits) \in Nat
    OBVIOUS
  <2>2. \A i \in DOMAIN hits : hits[i].text \in Int
    BY LinesHaveText
  <2> QED  BY <2>1, <2>2
<1> HIDE DEF texts
<1>3. said \in Seq(Int) /\ \A i, j \in DOMAIN said : i # j => said[i] # said[j]
  BY <1>2, DistinctKeeps
<1> HIDE DEF said
<1> QED  BY <1>1, <1>3, WordsAreSound

\* Lines taken from overlapping chunks are said once each (lines_containing).
LEMMA LinesAreSound ==
  ASSUME NEW chunks \in TextChunks, chunks # <<>>, NEW mark
  PROVE  ValuesAreSound(LinesContaining(chunks, mark), chunks)
<1>1. Matching(LinesOf(chunks), mark) \in Seq(TextLine)
  BY LinesAreLines, MatchingIsPart
<1> QED  BY <1>1, QuotedIsSound DEF LinesContaining

\* Lines taken from the whole text are said once each.
LEMMA MatchesAreSound ==
  ASSUME NEW chunks \in TextChunks, chunks # <<>>, NEW mark, NEW text \in TextLines
  PROVE  ValuesAreSound(Matches(text, chunks, mark), chunks)
<1>1. text \in Seq(TextLine)
  BY DEF TextLines, TextLine
<1>2. Matching(text, mark) \in Seq(TextLine)
  BY <1>1, MatchingIsPart
<1> QED  BY <1>2, QuotedIsSound DEF Matches

\* No search finds 0 or less in a line.
LEMMA OnlyWordsAreSaid ==
  ASSUME NEW chunks \in TextChunks, NEW n \in Int, n <= 0
  PROVE  Saying(chunks, n) = {}
<1> SUFFICES ASSUME NEW k \in DOMAIN chunks, NEW i \in DOMAIN chunks[k].lines,
                    n \in chunks[k].lines[i].holds
             PROVE  FALSE
  BY DEF Saying, Says
<1>1. chunks[k].lines \in Seq(TextLine)
  BY ChunksHaveLines
<1>2. chunks[k].lines[i] \in TextLine
  BY <1>1, ElementOfSeq
<1>3. chunks[k].lines[i].holds \subseteq Nat \ {0}
  BY <1>2 DEF TextLine
<1> QED  BY <1>3

\* A seniority is one value, and no line says it.
LEMMA SeniorityIsSound ==
  ASSUME NEW chunks \in TextChunks, chunks # <<>>, NEW text
  PROVE  ValuesAreSound(Seniority(text, chunks), chunks)
<1> DEFINE c == FirstOf(chunks, Having(chunks, "seniority_word"))
<1>1. c \in Nat /\ \E k \in DOMAIN chunks : chunks[k].id = c
  <2>1. Having(chunks, "seniority_word") \subseteq DOMAIN chunks
    BY DEF Having
  <2> QED  BY <2>1, FirstIsThere
<1>2. Sourced(c, 0, chunks)
  BY <1>1, OnlyWordsAreSaid DEF Sourced
<1>3. Seniority(text, chunks) \in {<<>>, <<[text |-> 0, chunk |-> c]>>}
  BY DEF Seniority
<1> HIDE DEF c
<1>4. ValuesAreSound(<<>>, chunks)
  BY DEF ValuesAreSound
<1>5. ValuesAreSound(<<[text |-> 0, chunk |-> c]>>, chunks)
  <2>1. [text |-> 0, chunk |-> c] \in Valued
    BY <1>1 DEF Valued
  <2> QED  BY <1>2, <2>1 DEF ValuesAreSound
<1> QED  BY <1>3, <1>4, <1>5

\* A keyword is found once, and no line says it.
LEMMA KeywordsAreSound ==
  ASSUME NEW chunks \in TextChunks, chunks # <<>>
  PROVE  ValuesAreSound(KeywordValues(chunks), chunks)
<1> DEFINE places == [k \in DOMAIN Keywords |-> k]
           P == {k \in DOMAIN places : Having(chunks, Keywords[places[k]]) # {}}
           r == At(places, P)
           values == [i \in DOMAIN r |->
                       [text |-> -r[i],
                        chunk |-> FirstOf(chunks, Having(chunks, Keywords[r[i]]))]]
<1>1. KeywordValues(chunks) = values
  BY DEF KeywordValues, Where
<1>2. places \in Seq(Nat) /\ \A k \in DOMAIN places : places[k] = k /\ k > 0
  BY DEF Keywords
<1> HIDE DEF P, places
<1>3. r \in Seq(Nat) /\ \E m : Places(m, r, places, P, Len(places))
  BY <1>2, AtPlaces
<1> HIDE DEF r
<1>4. PICK m : Places(m, r, places, P, Len(places))
  BY <1>3
<1>5. \A i \in DOMAIN r : r[i] = m[i] /\ r[i] \in Nat /\ r[i] > 0
  <2>1. \A i \in DOMAIN r : m[i] \in DOMAIN places /\ r[i] = places[m[i]]
    <3>1. DOMAIN r = 1 .. Len(r) /\ DOMAIN places = 1 .. Len(places)
      BY <1>2, <1>3
    <3> QED  BY <1>4, <3>1 DEF Places
  <2>2. \A i \in DOMAIN r : r[i] \in Nat
    BY <1>3
  <2> QED  BY <1>2, <2>1, <2>2
<1>6. \A i, j \in DOMAIN r : i # j => r[i] # r[j]
  <2>1. \A i, j \in DOMAIN r : i < j => r[i] < r[j]
    <3>1. DOMAIN r = 1 .. Len(r)
      BY <1>3
    <3>2. \A i, j \in DOMAIN r : i < j => m[i] < m[j]
      BY <1>4, <3>1 DEF Places
    <3> QED  BY <1>5, <3>2
  <2>2. \A i, j \in DOMAIN r : i # j => i < j \/ j < i
    BY <1>3
  <2> QED  BY <1>5, <2>1, <2>2
<1>7. \A i \in DOMAIN r :
        LET c == FirstOf(chunks, Having(chunks, Keywords[r[i]]))
        IN c \in Nat /\ Sourced(c, -r[i], chunks)
  <2>1. SUFFICES ASSUME NEW i \in DOMAIN r, NEW c,
                        c = FirstOf(chunks, Having(chunks, Keywords[r[i]]))
                 PROVE  c \in Nat /\ Sourced(c, -r[i], chunks)
    OBVIOUS
  <2>2. Having(chunks, Keywords[r[i]]) \subseteq DOMAIN chunks
    BY DEF Having
  <2>3. c \in Nat /\ \E k \in DOMAIN chunks : chunks[k].id = c
    BY <2>1, <2>2, FirstIsThere
  <2>4. Saying(chunks, -r[i]) = {}
    BY <1>5, OnlyWordsAreSaid
  <2> QED  BY <2>3, <2>4 DEF Sourced
<1>8. values \in Seq(Valued)
  <2>1. DOMAIN r = 1 .. Len(r) /\ Len(r) \in Nat
    BY <1>3
  <2>2. \A i \in DOMAIN r : values[i] \in Valued
    BY <1>5, <1>7 DEF Valued
  <2> QED  BY <2>1, <2>2
<1>9. \A i, j \in DOMAIN values : i # j => values[i].text # values[j].text
  BY <1>5, <1>6
<1>10. \A i \in DOMAIN values : Sourced(values[i].chunk, values[i].text, chunks)
  BY <1>7
<1> QED  BY <1>1, <1>8, <1>9, <1>10 DEF ValuesAreSound

-----------------------------------------------------------------------------

\* A rule has a source of values that is known, and a limit.
IsRule(rule) ==
  /\ rule.from \in {"lines", "text", "title", "seniority", "keywords"}
  /\ rule.cap \in Nat

\* The ways to write a rule give rules.
LEMMA RuleParts ==
  ASSUME NEW type, NEW mark, NEW cap \in Nat
  PROVE  /\ IsRule(Lines(type, mark, cap)) /\ IsRule(Whole(type, mark, cap))
         /\ IsRule(Tech(type)) /\ IsRule(Rule(type, "title", mark, cap))
         /\ IsRule(Rule(type, "seniority", mark, cap))
<1>1. Len(Keywords) \in Nat
  BY DEF Keywords
<1> QED  BY <1>1 DEF IsRule, Lines, Whole, Tech, Rule

\* Rules have types of their own.
RulesAreSound(rules) ==
  /\ DOMAIN rules = 1 .. Len(rules) /\ Len(rules) \in Nat
  /\ \A i \in DOMAIN rules : IsRule(rules[i])
  /\ \A i, j \in DOMAIN rules : i # j => rules[i].type # rules[j].type

\* The extractors' tables, one by one: each type has one rule.
LEMMA JobDescriptionRules ==
  /\ RulesAreSound(JobDescription)
  /\ \A i \in DOMAIN JobDescription : JobDescription[i].type # "inferred_risk"
<1>1. Len(JobDescription) = 9 /\ DOMAIN JobDescription = 1 .. 9
  BY DEF JobDescription
<1>2. 1 .. 9 = {1, 2, 3, 4, 5, 6, 7, 8, 9}
  OBVIOUS
<1>3. \A i \in 1 .. 9 : IsRule(JobDescription[i])
  BY <1>2, RuleParts DEF JobDescription
<1>4. /\ JobDescription[1].type = "role_title"
      /\ JobDescription[2].type = "company"
      /\ JobDescription[3].type = "seniority"
      /\ JobDescription[4].type = "responsibility"
      /\ JobDescription[5].type = "technology"
      /\ JobDescription[6].type = "leadership_expectation"
      /\ JobDescription[7].type = "compensation"
      /\ JobDescription[8].type = "location_constraint"
      /\ JobDescription[9].type = "unusual_scope_indicator"
  BY DEF JobDescription, Rule, Lines, Whole, Tech
<1>5. \A i, j \in 1 .. 9 : i # j => JobDescription[i].type # JobDescription[j].type
  BY <1>2, <1>4
<1> QED  BY <1>1, <1>2, <1>3, <1>4, <1>5 DEF RulesAreSound

LEMMA ResumeRules ==
  RulesAreSound(Resume)
<1>1. Len(Resume) = 7 /\ DOMAIN Resume = 1 .. 7
  BY DEF Resume
<1>2. 1 .. 7 = {1, 2, 3, 4, 5, 6, 7}
  OBVIOUS
<1>3. \A i \in 1 .. 7 : IsRule(Resume[i])
  BY <1>2, RuleParts DEF Resume
<1>4. /\ Resume[1].type = "role_experience"
      /\ Resume[2].type = "technical_skill"
      /\ Resume[3].type = "platform_experience"
      /\ Resume[4].type = "ai_agent_experience"
      /\ Resume[5].type = "measurable_outcome"
      /\ Resume[6].type = "leadership_signal"
      /\ Resume[7].type = "company_experience"
  BY DEF Resume, Rule, Lines, Whole, Tech
<1>5. \A i, j \in 1 .. 7 : i # j => Resume[i].type # Resume[j].type
  BY <1>2, <1>4
<1> QED  BY <1>1, <1>3, <1>5 DEF RulesAreSound

LEMMA InterviewNotesRules ==
  RulesAreSound(InterviewNotes)
<1>1. Len(InterviewNotes) = 5 /\ DOMAIN InterviewNotes = 1 .. 5
  BY DEF InterviewNotes
<1>2. 1 .. 5 = {1, 2, 3, 4, 5}
  OBVIOUS
<1>3. \A i \in 1 .. 5 : IsRule(InterviewNotes[i])
  BY <1>2, RuleParts DEF InterviewNotes
<1>4. /\ InterviewNotes[1].type = "interviewer_concern"
      /\ InterviewNotes[2].type = "open_question"
      /\ InterviewNotes[3].type = "technical_theme"
      /\ InterviewNotes[4].type = "interview_risk"
      /\ InterviewNotes[5].type = "next_action_signal"
  BY DEF InterviewNotes, Rule, Lines
<1>5. \A i, j \in 1 .. 5 : i # j => InterviewNotes[i].type # InterviewNotes[j].type
  BY <1>2, <1>4
<1> QED  BY <1>1, <1>3, <1>5 DEF RulesAreSound

LEMMA PersonalStoryRules ==
  RulesAreSound(PersonalStory)
<1>1. Len(PersonalStory) = 6 /\ DOMAIN PersonalStory = 1 .. 6
  BY DEF PersonalStory
<1>2. 1 .. 6 = {1, 2, 3, 4, 5, 6}
  OBVIOUS
<1>3. \A i \in 1 .. 6 : IsRule(PersonalStory[i])
  BY <1>2, RuleParts DEF PersonalStory
<1>4. /\ PersonalStory[1].type = "story_situation"
      /\ PersonalStory[2].type = "story_action"
      /\ PersonalStory[3].type = "story_result"
      /\ PersonalStory[4].type = "relevant_competency"
      /\ PersonalStory[5].type = "leadership_theme"
      /\ PersonalStory[6].type = "technical_theme"
  BY DEF PersonalStory, Rule, Lines
<1>5. \A i, j \in 1 .. 6 : i # j => PersonalStory[i].type # PersonalStory[j].type
  BY <1>2, <1>4
<1> QED  BY <1>1, <1>3, <1>5 DEF RulesAreSound

LEMMA RecruiterMessageRules ==
  RulesAreSound(ContextNotes.recruiter_message)
<1>1. /\ Len(ContextNotes.recruiter_message) = 3
      /\ DOMAIN ContextNotes.recruiter_message = 1 .. 3
  BY DEF ContextNotes
<1>2. 1 .. 3 = {1, 2, 3}
  OBVIOUS
<1>3. \A i \in 1 .. 3 : IsRule(ContextNotes.recruiter_message[i])
  BY <1>2, RuleParts DEF ContextNotes
<1>4. /\ ContextNotes.recruiter_message[1].type = "open_question"
      /\ ContextNotes.recruiter_message[2].type = "compensation"
      /\ ContextNotes.recruiter_message[3].type = "location_constraint"
  BY DEF ContextNotes, Rule, Lines
<1>5. \A i, j \in 1 .. 3 : i # j =>
        ContextNotes.recruiter_message[i].type
          # ContextNotes.recruiter_message[j].type
  BY <1>2, <1>4
<1> QED  BY <1>1, <1>3, <1>5 DEF RulesAreSound

LEMMA CompanyResearchRules ==
  RulesAreSound(ContextNotes.company_research)
<1>1. /\ Len(ContextNotes.company_research) = 2
      /\ DOMAIN ContextNotes.company_research = 1 .. 2
  BY DEF ContextNotes
<1>2. 1 .. 2 = {1, 2}
  OBVIOUS
<1>3. \A i \in 1 .. 2 : IsRule(ContextNotes.company_research[i])
  BY <1>2, RuleParts DEF ContextNotes
<1>4. /\ ContextNotes.company_research[1].type = "company_signal"
      /\ ContextNotes.company_research[2].type = "inferred_risk"
  BY DEF ContextNotes, Rule, Lines
<1>5. \A i, j \in 1 .. 2 : i # j =>
        ContextNotes.company_research[i].type
          # ContextNotes.company_research[j].type
  BY <1>2, <1>4
<1> QED  BY <1>1, <1>3, <1>5 DEF RulesAreSound

LEMMA CompensationNotesRules ==
  RulesAreSound(ContextNotes.compensation_notes)
<1>1. /\ Len(ContextNotes.compensation_notes) = 2
      /\ DOMAIN ContextNotes.compensation_notes = 1 .. 2
  BY DEF ContextNotes
<1>2. 1 .. 2 = {1, 2}
  OBVIOUS
<1>3. \A i \in 1 .. 2 : IsRule(ContextNotes.compensation_notes[i])
  BY <1>2, RuleParts DEF ContextNotes
<1>4. /\ ContextNotes.compensation_notes[1].type = "compensation"
      /\ ContextNotes.compensation_notes[2].type = "open_question"
  BY DEF ContextNotes, Rule, Lines
<1>5. \A i, j \in 1 .. 2 : i # j =>
        ContextNotes.compensation_notes[i].type
          # ContextNotes.compensation_notes[j].type
  BY <1>2, <1>4
<1> QED  BY <1>1, <1>3, <1>5 DEF RulesAreSound

LEMMA FollowUpNotesRules ==
  RulesAreSound(ContextNotes.follow_up_notes)
<1>1. /\ Len(ContextNotes.follow_up_notes) = 2
      /\ DOMAIN ContextNotes.follow_up_notes = 1 .. 2
  BY DEF ContextNotes
<1>2. 1 .. 2 = {1, 2}
  OBVIOUS
<1>3. \A i \in 1 .. 2 : IsRule(ContextNotes.follow_up_notes[i])
  BY <1>2, RuleParts DEF ContextNotes
<1>4. /\ ContextNotes.follow_up_notes[1].type = "next_action_signal"
      /\ ContextNotes.follow_up_notes[2].type = "open_question"
  BY DEF ContextNotes, Rule, Lines
<1>5. \A i, j \in 1 .. 2 : i # j =>
        ContextNotes.follow_up_notes[i].type
          # ContextNotes.follow_up_notes[j].type
  BY <1>2, <1>4
<1> QED  BY <1>1, <1>3, <1>5 DEF RulesAreSound

\* Every extractor has one rule for a type; the risk of a job has none.
LEMMA RulesAreGood ==
  ASSUME NEW type \in ArtifactTypes
  PROVE  /\ RulesAreSound(RulesOf[type])
         /\ type = "job_description" =>
              \A i \in DOMAIN RulesOf[type] : RulesOf[type][i].type # "inferred_risk"
<1>1. /\ RulesOf["job_description"] = JobDescription
      /\ RulesOf["resume"] = Resume
      /\ RulesOf["interview_notes"] = InterviewNotes
      /\ RulesOf["personal_story"] = PersonalStory
      /\ RulesOf["recruiter_message"] = ContextNotes.recruiter_message
      /\ RulesOf["company_research"] = ContextNotes.company_research
      /\ RulesOf["compensation_notes"] = ContextNotes.compensation_notes
      /\ RulesOf["follow_up_notes"] = ContextNotes.follow_up_notes
  BY DEF RulesOf
<1> QED  BY <1>1, JobDescriptionRules, ResumeRules, InterviewNotesRules,
            PersonalStoryRules, RecruiterMessageRules, CompanyResearchRules,
            CompensationNotesRules, FollowUpNotesRules DEF ArtifactTypes

\* Whatever a rule looks at, its values are sound.
LEMMA ValuesAreFound ==
  ASSUME NEW x, IsArtifact(x), NEW rule, IsRule(rule)
  PROVE  ValuesAreSound(Values(rule, x.text, x.chunks), x.chunks)
<1>1. x.chunks \in TextChunks /\ x.chunks # <<>> /\ x.text \in TextLines
  BY DEF IsArtifact, TextChunks
<1>2. /\ \A mark : ValuesAreSound(LinesContaining(x.chunks, mark), x.chunks)
      /\ \A mark : ValuesAreSound(Matches(x.text, x.chunks, mark), x.chunks)
      /\ ValuesAreSound(Seniority(x.text, x.chunks), x.chunks)
      /\ ValuesAreSound(KeywordValues(x.chunks), x.chunks)
  BY <1>1, LinesAreSound, MatchesAreSound, SeniorityIsSound, KeywordsAreSound
<1> QED  BY <1>2 DEF Values, IsRule

Signal(types) == [type : types, text : Int, cites : Seq(Nat)]

\* A signal cites one chunk, where it comes from.
Cited(signal, chunks) ==
  \E c \in Nat : signal.cites = <<c>> /\ Sourced(c, signal.text, chunks)

\* The signals of one rule: they have its type and say different things.
OfOneRule(s, type, types, chunks) ==
  /\ s \in Seq(Signal(types))
  /\ \A i \in DOMAIN s : s[i].type = type /\ Cited(s[i], chunks)
  /\ \A i, j \in DOMAIN s : i # j => s[i].text # s[j].text

\* The signals of one rule are of its type and say different things.
LEMMA RuleSignals ==
  ASSUME NEW chunks, NEW values, ValuesAreSound(values, chunks), NEW types,
         NEW type \in types, NEW cap \in Nat
  PROVE  OfOneRule(SignalsFromValues(type, Take(values, cap)), type, types, chunks)
<1> DEFINE v == Take(values, cap)
           s == SignalsFromValues(type, v)
<1>1. /\ v \in Seq(Valued)
      /\ \A i \in DOMAIN v : i \in DOMAIN values /\ v[i] = values[i]
  BY TakeKeeps DEF ValuesAreSound
<1>2. s = [i \in DOMAIN v |-> [type |-> type, text |-> v[i].text,
                               cites |-> <<v[i].chunk>>]]
  BY DEF SignalsFromValues
<1> HIDE DEF v, s
<1>3. /\ DOMAIN v = 1 .. Len(v) /\ Len(v) \in Nat
      /\ DOMAIN s = DOMAIN v
  BY <1>1, <1>2
<1>4. \A i \in DOMAIN v : v[i].text \in Int /\ v[i].chunk \in Nat
  <2>1. \A i \in DOMAIN v : v[i] \in Valued
    BY <1>1
  <2> QED  BY <2>1 DEF Valued
<1>5. \A i \in DOMAIN s : /\ s[i].type = type /\ s[i].text = v[i].text
                          /\ s[i].cites = <<v[i].chunk>>
                          /\ s[i] \in Signal(types)
  BY <1>2, <1>4 DEF Signal
<1>6. s \in Seq(Signal(types))
  <2>1. s = [i \in 1 .. Len(v) |-> s[i]]
    BY <1>2, <1>3
  <2> QED  BY <1>3, <1>5, <2>1
<1>7. \A i \in DOMAIN s : Cited(s[i], chunks)
  BY <1>1, <1>3, <1>4, <1>5 DEF ValuesAreSound, Cited
<1>8. \A i, j \in DOMAIN s : i # j => s[i].text # s[j].text
  BY <1>1, <1>3, <1>5 DEF ValuesAreSound
<1> QED  BY <1>5, <1>6, <1>7, <1>8 DEF OfOneRule, s, v

\* Signals that differ, each with its source.
SignalsAreSound(s, chunks) ==
  /\ \A i, j \in DOMAIN s : i # j => s[i].type # s[j].type \/ s[i].text # s[j].text
  /\ \A i \in DOMAIN s : Cited(s[i], chunks)

TypesOf(rules) == {rules[i].type : i \in DOMAIN rules}

\* The rules of an extractor repeat nothing.
LEMMA ApplyIsSound ==
  ASSUME NEW x, IsArtifact(x), NEW rules, RulesAreSound(rules), NEW s,
         s = Apply(rules, x.text, x.chunks)
  PROVE  s \in Seq(Signal(TypesOf(rules))) /\ SignalsAreSound(s, x.chunks)
<1> DEFINE S == Signal(TypesOf(rules))
           Part(i) == SignalsFromValues(rules[i].type,
                        Take(Values(rules[i], x.text, x.chunks), rules[i].cap))
           ss == [i \in DOMAIN rules |-> Part(i)]
<1>1. \A i \in DOMAIN rules :
        OfOneRule(Part(i), rules[i].type, TypesOf(rules), x.chunks)
  <2>1. SUFFICES ASSUME NEW i \in DOMAIN rules
                 PROVE  OfOneRule(Part(i), rules[i].type, TypesOf(rules), x.chunks)
    OBVIOUS
  <2>2. IsRule(rules[i]) /\ rules[i].cap \in Nat /\ rules[i].type \in TypesOf(rules)
    BY DEF RulesAreSound, IsRule, TypesOf
  <2>3. ValuesAreSound(Values(rules[i], x.text, x.chunks), x.chunks)
    BY <2>2, ValuesAreFound
  <2> QED  BY <2>2, <2>3, RuleSignals
<1>2. s = Flat(ss)
  BY DEF Apply
<1> HIDE DEF Part
<1>10. \A i \in DOMAIN rules :
         /\ Part(i) \in Seq(S)
         /\ \A k \in DOMAIN Part(i) : /\ Part(i)[k].type = rules[i].type
                                      /\ Cited(Part(i)[k], x.chunks)
         /\ \A k, l \in DOMAIN Part(i) : k # l => Part(i)[k].text # Part(i)[l].text
  BY <1>1 DEF OfOneRule
<1> HIDE DEF S
<1>3. /\ ss \in Seq(Seq(S)) /\ Len(ss) = Len(rules) /\ DOMAIN rules = 1 .. Len(rules)
      /\ \A i \in DOMAIN rules : ss[i] = Part(i)
  BY <1>10 DEF RulesAreSound
<1> HIDE DEF ss
<1>4. s \in Seq(S) /\ \E list, place : Laid(list, place, s, ss, Len(ss))
  BY <1>2, <1>3, FlatLays
<1>5. PICK list, place : Laid(list, place, s, ss, Len(ss))
  BY <1>4
<1>6. DOMAIN s = 1 .. Len(s)
  BY <1>4
<1>7. \A i \in DOMAIN s : /\ list[i] \in DOMAIN rules
                          /\ place[i] \in DOMAIN Part(list[i])
                          /\ s[i] = Part(list[i])[place[i]]
  <2>1. SUFFICES ASSUME NEW i \in DOMAIN s
                 PROVE  /\ list[i] \in DOMAIN rules
                        /\ place[i] \in DOMAIN Part(list[i])
                        /\ s[i] = Part(list[i])[place[i]]
    OBVIOUS
  <2>2. /\ list[i] \in DOMAIN rules /\ place[i] \in 1 .. Len(ss[list[i]])
        /\ s[i] = ss[list[i]][place[i]]
    BY <1>3, <1>5, <1>6 DEF Laid
  <2>3. ss[list[i]] = Part(list[i]) /\ DOMAIN Part(list[i]) = 1 .. Len(Part(list[i]))
    BY <1>10, <1>3, <2>2
  <2> QED  BY <2>2, <2>3
<1>8. \A i \in DOMAIN s : Cited(s[i], x.chunks)
  BY <1>10, <1>7
<1>9. \A i, j \in DOMAIN s : i # j => s[i].type # s[j].type \/ s[i].text # s[j].text
  <2>1. SUFFICES ASSUME NEW i \in DOMAIN s, NEW j \in DOMAIN s, i # j,
                        s[i].type = s[j].type
                 PROVE  s[i].text # s[j].text
    OBVIOUS
  <2>2. rules[list[i]].type = rules[list[j]].type
    BY <1>10, <1>7, <2>1
  <2>3. list[i] = list[j]
    BY <1>7, <2>2 DEF RulesAreSound
  <2>4. place[i] # place[j]
    BY <1>5, <1>6, <2>1, <2>3 DEF Laid
  <2> QED  BY <1>10, <1>7, <2>3, <2>4
<1> QED  BY <1>4, <1>8, <1>9 DEF SignalsAreSound, S

\* Some of the records.
LEMMA OfTypesKeeps ==
  ASSUME NEW S, NEW s \in Seq(S), NEW types
  PROVE  /\ OfTypes(s, types) \in Seq(S)
         /\ Range(OfTypes(s, types)) = {y \in Range(s) : y.type \in types}
<1> DEFINE P == {i \in DOMAIN s : s[i].type \in types}
<1>1. OfTypes(s, types) = At(s, P)
  BY DEF OfTypes, Where
<1>2. /\ At(s, P) \in Seq(S)
      /\ Range(At(s, P)) = {s[i] : i \in {j \in DOMAIN s : j \in P}}
  <2> HIDE DEF P
  <2> QED  BY AtKeeps
<1> QED  BY <1>1, <1>2 DEF Range

\* The risk of a job quotes one of its signals.
LEMMA RiskIsFound ==
  ASSUME NEW S, NEW s \in Seq(S)
  PROVE  ScopeRisk(s) = <<>> \/ \E i \in DOMAIN s : ScopeRisk(s) = <<s[i]>>
<1> DEFINE scope == OfTypes(s, {"unusual_scope_indicator"})
           more == OfTypes(s, {"leadership_expectation"})
           duties == OfTypes(s, {"responsibility"})
           quoted == scope \o more \o duties
<1>1. /\ scope \in Seq(S) /\ more \in Seq(S) /\ duties \in Seq(S)
      /\ Range(scope) \subseteq Range(s) /\ Range(more) \subseteq Range(s)
      /\ Range(duties) \subseteq Range(s)
  BY OfTypesKeeps
<1>2. ScopeRisk(s) = IF scope # <<>> \/ Len(duties) >= 6 THEN <<quoted[1]>> ELSE <<>>
  BY DEF ScopeRisk
<1> HIDE DEF scope, more, duties
<1>3. /\ quoted \in Seq(S) /\ Range(quoted) \subseteq Range(s)
      /\ Len(quoted) = Len(scope) + Len(more) + Len(duties)
  <2> DEFINE both == scope \o more
  <2>1. both \in Seq(S) /\ Range(both) = Range(scope) \union Range(more)
    BY <1>1, ConcatKeeps
  <2>2. Len(both) = Len(scope) + Len(more)
    BY <1>1
  <2>3. quoted = both \o duties
    OBVIOUS
  <2> HIDE DEF both, quoted
  <2>4. quoted \in Seq(S) /\ Range(quoted) = Range(both) \union Range(duties)
    <3>1. /\ both \o duties \in Seq(S)
          /\ Range(both \o duties) = Range(both) \union Range(duties)
      BY <1>1, <2>1, ConcatKeeps
    <3> QED  BY <2>3, <3>1
  <2>5. Len(quoted) = Len(both) + Len(duties)
    BY <1>1, <2>1, <2>3
  <2> QED  BY <1>1, <2>1, <2>2, <2>4, <2>5
<1> HIDE DEF quoted
<1>4. scope # <<>> \/ Len(duties) >= 6 => 1 \in DOMAIN quoted
  <2>1. scope # <<>> => Len(scope) # 0
    BY <1>1, EmptySeq
  <2>2. /\ Len(scope) \in Nat /\ Len(more) \in Nat /\ Len(duties) \in Nat
        /\ DOMAIN quoted = 1 .. Len(quoted)
    BY <1>1, <1>3
  <2> QED  BY <1>3, <2>1, <2>2
<1>5. 1 \in DOMAIN quoted => \E i \in DOMAIN s : quoted[1] = s[i]
  BY <1>3 DEF Range
<1> QED  BY <1>2, <1>4, <1>5

\* One more signal, of another type or alone.
LEMMA OneMoreIsSound ==
  ASSUME NEW S, NEW s \in Seq(S), NEW chunks, SignalsAreSound(s, chunks), NEW y,
         Cited(y, chunks), \A i \in DOMAIN s : s[i].type # y.type
  PROVE  SignalsAreSound(s \o <<y>>, chunks)
<1> DEFINE r == s \o <<y>>
<1>1. /\ Len(s) \in Nat /\ DOMAIN s = 1 .. Len(s) /\ DOMAIN r = 1 .. Len(s) + 1
      /\ r[Len(s) + 1] = y /\ \A i \in 1 .. Len(s) : r[i] = s[i]
  <2>1. s \in Seq(S \union {y}) /\ <<y>> \in Seq(S \union {y}) /\ Len(<<y>>) = 1
    OBVIOUS
  <2>2. r = Append(s, y)
    BY <2>1
  <2> HIDE DEF r
  <2> QED  BY <2>1, <2>2, AppendProperties
<1>2. \A i \in DOMAIN r : i = Len(s) + 1 \/ i \in DOMAIN s
  BY <1>1
<1> HIDE DEF r
<1>3. \A i \in DOMAIN r : Cited(r[i], chunks)
  BY <1>1, <1>2 DEF SignalsAreSound
<1>4. \A i, j \in DOMAIN r : i # j => r[i].type # r[j].type \/ r[i].text # r[j].text
  BY <1>1, <1>2 DEF SignalsAreSound
<1> QED  BY <1>3, <1>4 DEF SignalsAreSound, r

\* What an artifact gives.
LEMMA IngestIsSound ==
  ASSUME NEW x, IsArtifact(x)
  PROVE  SignalsAreSound(Ingest(x.type, x.text, x.chunks).signals, x.chunks)
<1> DEFINE rules == RulesOf[x.type]
           s == Apply(rules, x.text, x.chunks)
           more == MoreSignals(x.type, s, x.chunks)
           T == TypesOf(rules)
<1>1. x.type \in ArtifactTypes /\ x.chunks \in TextChunks /\ x.chunks # <<>>
  BY DEF IsArtifact, TextChunks
<1>2. /\ RulesAreSound(rules)
      /\ x.type = "job_description" => "inferred_risk" \notin T
  BY <1>1, RulesAreGood DEF TypesOf
<1>3. Ingest(x.type, x.text, x.chunks).signals = s \o more
  BY DEF Ingest, Stored
<1> HIDE DEF rules
<1>4. s \in Seq(Signal(T)) /\ SignalsAreSound(s, x.chunks)
  BY <1>2, ApplyIsSound
<1> HIDE DEF s
<1>5. DOMAIN s = 1 .. Len(s) /\ \A i \in DOMAIN s : s[i] \in Signal(T) /\ s[i].type \in T
  <2>1. \A i \in DOMAIN s : s[i] \in Signal(T)
    BY <1>4
  <2> QED  BY <1>4, <2>1 DEF Signal
<1>6. CASE more = <<>>
  BY <1>3, <1>4, <1>6, ConcatEmptySeq
<1>7. CASE x.type = "job_description" /\ more # <<>>
  <2>1. more = As("inferred_risk", ScopeRisk(s))
    BY <1>7 DEF MoreSignals, ContextNotes
  <2>2. ScopeRisk(s) # <<>>
    BY <1>7, <2>1 DEF As
  <2>3. PICK i \in DOMAIN s : ScopeRisk(s) = <<s[i]>>
    BY <1>4, <2>2, RiskIsFound
  <2> DEFINE y == [s[i] EXCEPT !.type = "inferred_risk"]
  <2>4. more = <<y>>
    BY <2>1, <2>3 DEF As
  <2>5. y.type = "inferred_risk" /\ y.text = s[i].text /\ y.cites = s[i].cites
    BY <1>5 DEF Signal
  <2> HIDE DEF y, more
  <2>6. Cited(y, x.chunks)
    BY <1>4, <2>5 DEF SignalsAreSound, Cited
  <2>7. \A k \in DOMAIN s : s[k].type # y.type
    BY <1>2, <1>5, <1>7, <2>5
  <2> QED  BY <1>3, <1>4, <2>4, <2>6, <2>7, OneMoreIsSound
<1>8. CASE x.type # "job_description" /\ more # <<>>
  <2> DEFINE y == [type |-> "source_summary", text |-> 0, cites |-> <<x.chunks[1].id>>]
  <2>1. s = <<>> /\ more = <<y>>
    BY <1>8 DEF MoreSignals
  <2>2. 1 \in DOMAIN x.chunks
    <3>1. x.chunks \in Seq([id : Nat, lines : TextLines])
      BY <1>1 DEF TextChunks
    <3> QED  BY <1>1, <3>1
  <2>3. x.chunks[1].id \in Nat
    BY <1>1, <2>2, ChunksHaveLines
  <2>4. Saying(x.chunks, 0) = {}
    BY <1>1, OnlyWordsAreSaid
  <2>5. Cited(y, x.chunks)
    BY <2>2, <2>3, <2>4 DEF Cited, Sourced
  <2>6. \A k \in DOMAIN s : s[k].type # y.type
    BY <2>1
  <2> HIDE DEF y, more
  <2> QED  BY <1>3, <1>4, <2>1, <2>5, <2>6, OneMoreIsSound
<1> QED  BY <1>6, <1>7, <1>8

\* An ingestion keeps what the runs check of signals (service.py, extractors.py).
LEMMA IngestedSignalsAreFaithful ==
  ASSUME work.kind = "ingest" => /\ IsArtifact(work.given)
                                 /\ work.out = Ingest(work.given.type, work.given.text,
                                                      work.given.chunks)
  PROVE  SignalsAreFaithful
<1> SUFFICES ASSUME work.kind = "ingest" PROVE SignalsAreFaithful
  BY DEF SignalsAreFaithful, NoSignalTwice, QuotesAreInTheirChunk
<1> DEFINE s == work.out.signals
           chunks == work.given.chunks
           With(text) == {chunks[k].id : k \in {c \in DOMAIN chunks :
                                                  Says(chunks[c], text)}}
<1>1. SignalsAreSound(s, chunks)
  BY IngestIsSound
<1>2. NoSignalTwice
  BY <1>1 DEF NoSignalTwice, SignalsAreSound
<1> HIDE DEF s, chunks
<1>3. \A i \in DOMAIN s : /\ Range(s[i].cites) \subseteq Ids(chunks)
                          /\ With(s[i].text) # {} => s[i].cites[1] \in With(s[i].text)
  <2>1. SUFFICES ASSUME NEW i \in DOMAIN s
                 PROVE  /\ Range(s[i].cites) \subseteq Ids(chunks)
                        /\ With(s[i].text) # {} => s[i].cites[1] \in With(s[i].text)
    OBVIOUS
  <2>2. PICK c \in Nat : s[i].cites = <<c>> /\ Sourced(c, s[i].text, chunks)
    BY <1>1 DEF SignalsAreSound, Cited
  <2>3. Range(s[i].cites) = {c} /\ s[i].cites[1] = c
    BY <2>2 DEF Range
  <2>4. c \in Ids(chunks)
    BY <2>2 DEF Sourced, Ids
  <2>5. With(s[i].text) # {} => c \in With(s[i].text)
    BY <2>2 DEF Sourced, Saying
  <2> QED  BY <2>3, <2>4, <2>5
<1>4. QuotesAreInTheirChunk
  BY <1>3 DEF QuotesAreInTheirChunk, s, chunks
<1> QED  BY <1>2, <1>4 DEF SignalsAreFaithful

-----------------------------------------------------------------------------
(* JobSearch: views and prompts                                            *)

\* A kind of item that each artifact is given.
LEMMA GeneratedIsShown ==
  ASSUME NEW type \in ArtifactTypes
  PROVE  /\ 1 \in DOMAIN Generate(type)
         /\ DOMAIN Generate(type) = 1 .. Len(Generate(type))
         /\ Len(Generate(type)) \in Nat
         /\ \E v \in Views : \E i \in DOMAIN SectionsOf[v] :
              Generate(type)[1] \in SectionsOf[v][i]
<1> DEFINE g == Generate(type)[1]
<1>1. /\ 1 \in DOMAIN Generate(type)
      /\ g \in {"prepare_interview_brief", "rewrite_resume_section",
                "draft_recruiter_follow_up", "clarify_compensation_expectations",
                "prepare_architecture_story", "research_company_concerns"}
  BY DEF Generate, ArtifactTypes
<1>5. DOMAIN Generate(type) = 1 .. Len(Generate(type)) /\ Len(Generate(type)) \in Nat
  <2>1. CASE type = "job_description"
    BY <2>1 DEF Generate
  <2>2. CASE type \in ArtifactTypes \ {"job_description"}
    BY <2>2 DEF Generate, ArtifactTypes
  <2> QED  BY <2>1, <2>2
<1>2. /\ SectionsOf["resume_positioning"] = ResumePositioning
      /\ SectionsOf["application_pipeline"] = ApplicationPipeline
      /\ {"resume_positioning", "application_pipeline"} \subseteq Views
  BY DEF SectionsOf, Views
<1>3. /\ {2, 4} \subseteq DOMAIN ApplicationPipeline
      /\ 4 \in DOMAIN ResumePositioning
      /\ "rewrite_resume_section" \in ResumePositioning[4]
      /\ {"prepare_interview_brief", "draft_recruiter_follow_up",
          "research_company_concerns"} \subseteq ApplicationPipeline[2]
      /\ {"clarify_compensation_expectations", "prepare_architecture_story"}
           \subseteq ApplicationPipeline[4]
  BY DEF ApplicationPipeline, ResumePositioning
<1> HIDE DEF g
<1>4. \/ g \in SectionsOf["resume_positioning"][4]
      \/ g \in SectionsOf["application_pipeline"][2]
      \/ g \in SectionsOf["application_pipeline"][4]
  BY <1>1, <1>2, <1>3
<1> QED  BY <1>1, <1>2, <1>3, <1>4, <1>5 DEF g

\* What the sections of each view show is in its graph.
LEMMA GraphsCoverSections ==
  ASSUME NEW view \in Views, NEW i \in DOMAIN SectionsOf[view]
  PROVE  SectionsOf[view][i] \subseteq GraphTypes(view)
<1>1. CASE view = "role_fit"
  <2>1. SectionsOf[view] = RoleFit /\ DOMAIN RoleFit = 1 .. 5
    BY <1>1 DEF SectionsOf, RoleFit
  <2>2. i \in {1, 2, 3, 4, 5}
    BY <2>1
  <2>3. RoleFit[i] \subseteq GraphTypes(view)
    BY <1>1, <2>2 DEF RoleFit, GraphTypes
  <2> QED  BY <2>1, <2>3
<1>2. CASE view = "interview_prep"
  <2>1. SectionsOf[view] = InterviewPrep /\ DOMAIN InterviewPrep = 1 .. 5
    BY <1>2 DEF SectionsOf, InterviewPrep
  <2>2. i \in {1, 2, 3, 4, 5}
    BY <2>1
  <2>3. InterviewPrep[i] \subseteq GraphTypes(view)
    BY <1>2, <2>2 DEF InterviewPrep, GraphTypes
  <2> QED  BY <2>1, <2>3
<1>3. CASE view = "resume_positioning"
  <2>1. SectionsOf[view] = ResumePositioning /\ DOMAIN ResumePositioning = 1 .. 4
    BY <1>3 DEF SectionsOf, ResumePositioning
  <2>2. i \in {1, 2, 3, 4}
    BY <2>1
  <2>3. ResumePositioning[i] \subseteq GraphTypes(view)
    BY <1>3, <2>2 DEF ResumePositioning, GraphTypes
  <2> QED  BY <2>1, <2>3
<1>4. CASE view = "application_pipeline"
  <2>1. SectionsOf[view] = ApplicationPipeline /\ DOMAIN ApplicationPipeline = 1 .. 4
    BY <1>4 DEF SectionsOf, ApplicationPipeline
  <2>2. i \in {1, 2, 3, 4}
    BY <2>1
  <2>3. ApplicationPipeline[i] \subseteq GraphTypes(view)
    BY <1>4, <2>2 DEF ApplicationPipeline, GraphTypes
  <2> QED  BY <2>1, <2>3
<1>5. CASE view = "compensation_scope_risk"
  <2>1. /\ SectionsOf[view] = CompensationScopeRisk
        /\ DOMAIN CompensationScopeRisk = 1 .. 3
    BY <1>5 DEF SectionsOf, CompensationScopeRisk
  <2>2. i \in {1, 2, 3}
    BY <2>1
  <2>3. CompensationScopeRisk[i] \subseteq GraphTypes(view)
    BY <1>5, <2>2 DEF CompensationScopeRisk, GraphTypes
  <2> QED  BY <2>1, <2>3
<1> QED  BY <1>1, <1>2, <1>3, <1>4, <1>5 DEF Views

\* A section shows records of its types, and leaves one out only when it is full.
LEMMA SectionShows ==
  ASSUME NEW S, NEW context, context.signals \in Seq(S), context.items \in Seq(S),
         NEW types
  PROVE  /\ \A j \in DOMAIN Section(context, types) :
              Section(context, types)[j].type \in types
         /\ \A y \in Range(context.signals) \union Range(context.items) :
              y.type \in types => \/ y \in Range(Section(context, types))
                                  \/ Len(Section(context, types)) = 8
<1> DEFINE all == context.signals \o context.items
           part == OfTypes(all, types)
           shown == Take(part, 8)
<1>1. all \in Seq(S) /\ Range(all) = Range(context.signals) \union Range(context.items)
  BY ConcatKeeps
<1>2. Section(context, types) = shown
  BY DEF Section
<1> HIDE DEF all
<1>3. part \in Seq(S) /\ Range(part) = {y \in Range(all) : y.type \in types}
  BY <1>1, OfTypesKeeps
<1> HIDE DEF part
<1>4. \A j \in DOMAIN shown : j \in DOMAIN part /\ shown[j] = part[j]
  BY <1>3, TakeKeeps
<1>5. Range(shown) = Range(part) \/ Len(shown) = 8
  BY <1>3, TakeLeavesOut
<1> HIDE DEF shown
<1>6. \A j \in DOMAIN shown : shown[j].type \in types
  BY <1>3, <1>4 DEF Range
<1> QED  BY <1>1, <1>2, <1>3, <1>5, <1>6

\* The selected chunks.
LEMMA SelectedAreKnown ==
  ASSUME NEW context, IsContext(context), NEW evidence \in Seq(Nat), NEW graph,
         graph.chunkLimit \in Nat, NEW r,
         r = SelectPerspectiveChunks(context, evidence, graph)
  PROVE  /\ \A i, j \in DOMAIN r : i # j => r[i] # r[j]
         /\ Len(r) <= graph.chunkLimit
         /\ Range(r) \subseteq Ids(context.chunks)
<1> DEFINE If(node, ids) == IF node \in graph.dependsOn THEN ids ELSE <<>>
           ids == If("deterministic_view", evidence)
                  \o If("signals", Sources(OfTypes(context.signals, graph.signalTypes)))
                  \o If("actionable_items",
                        Sources(OfTypes(context.items, graph.itemTypes)))
           known == Where(ids, LAMBDA c : c \in Ids(context.chunks))
           selected == Distinct(known)
           others == Where(context.chunks,
                       LAMBDA c : /\ c.id \notin Range(selected)
                                  /\ c.artifact \in DOMAIN context.artifacts
                                  /\ context.artifacts[c.artifact] \in graph.fallback)
           rest == [i \in DOMAIN others |-> others[i].id]
           all == IF Len(selected) < graph.chunkLimit THEN selected \o rest ELSE selected
           each == Distinct(all)
           K == Ids(context.chunks)
<1>1. r = Take(each, graph.chunkLimit)
  BY DEF SelectPerspectiveChunks
<1>2. ids \in Seq(Nat)
  <2>1. ASSUME NEW S \in {context.signals, context.items}, NEW types
        PROVE  Sources(OfTypes(S, types)) \in Seq(Nat)
    <3> DEFINE R == [type : STRING, artifact : Nat, cites : Seq(Nat)]
               part == OfTypes(S, types)
               cited == [i \in DOMAIN part |-> part[i].cites]
    <3>1. S \in Seq(R)
      BY <2>1 DEF IsContext
    <3> HIDE DEF R
    <3>2. part \in Seq(R)
      BY <3>1, OfTypesKeeps
    <3> HIDE DEF part
    <3>3. \A i \in DOMAIN part : part[i].cites \in Seq(Nat)
      <4>1. \A i \in DOMAIN part : part[i] \in R
        BY <3>2
      <4> QED  BY <4>1 DEF R
    <3>4. cited \in Seq(Seq(Nat))
      <4>1. DOMAIN part = 1 .. Len(part) /\ Len(part) \in Nat
        BY <3>2
      <4> QED  BY <3>3, <4>1
    <3> HIDE DEF cited
    <3>5. Flat(cited) \in Seq(Nat)
      BY <3>4, FlatLays
    <3> QED  BY <3>5 DEF Sources, cited, part
  <2>2. Sources(OfTypes(context.signals, graph.signalTypes)) \in Seq(Nat)
    BY <2>1
  <2>3. Sources(OfTypes(context.items, graph.itemTypes)) \in Seq(Nat)
    BY <2>1
  <2> QED  BY <2>2, <2>3
<1> HIDE DEF ids
<1>3. known \in Seq(K)
  <2> DEFINE P == {i \in DOMAIN ids : ids[i] \in K}
  <2>1. known = At(ids, P)
    BY DEF Where
  <2>2. At(ids, P) \in Seq(Nat) /\ Range(At(ids, P)) = {ids[i] : i \in {j \in DOMAIN ids : j \in P}}
    <3> HIDE DEF P
    <3> QED  BY <1>2, AtKeeps
  <2>3. \A i \in DOMAIN At(ids, P) : At(ids, P)[i] \in K
    <3>1. \A c \in Range(At(ids, P)) : c \in K
      BY <2>2
    <3> QED  BY <3>1 DEF Range
  <2> HIDE DEF P
  <2> QED  BY <2>1, <2>2, <2>3
<1> HIDE DEF known
<1>4. selected \in Seq(K)
  BY <1>3, DistinctKeeps
<1> HIDE DEF selected
<1>5. rest \in Seq(K)
  <2> DEFINE C == [id : Nat, artifact : DOMAIN context.artifacts]
             P == {i \in DOMAIN context.chunks :
                     /\ context.chunks[i].id \notin Range(selected)
                     /\ context.chunks[i].artifact \in DOMAIN context.artifacts
                     /\ context.artifacts[context.chunks[i].artifact] \in graph.fallback}
  <2>1. others = At(context.chunks, P)
    BY DEF Where
  <2>2. context.chunks \in Seq(C)
    BY DEF IsContext
  <2> HIDE DEF others, P, C
  <2>3. /\ others \in Seq(C)
        /\ Range(others) = {context.chunks[i] : i \in {j \in DOMAIN context.chunks : j \in P}}
    BY <2>1, <2>2, AtKeeps
  <2>4. \A i \in DOMAIN others : others[i].id \in K
    <3>1. \A c \in Range(others) : c.id \in K
      BY <2>3 DEF Ids
    <3> QED  BY <3>1 DEF Range
  <2>5. DOMAIN others = 1 .. Len(others) /\ Len(others) \in Nat
    BY <2>3
  <2> HIDE DEF K
  <2> QED  BY <2>4, <2>5
<1> HIDE DEF rest
<1>6. all \in Seq(K)
  <2>1. selected \o rest \in Seq(K)
    <3> HIDE DEF K
    <3> QED  BY <1>4, <1>5, ConcatKeeps
  <2> QED  BY <1>4, <2>1
<1> HIDE DEF all
<1>7. each \in Seq(K) /\ \A i, j \in DOMAIN each : i # j => each[i] # each[j]
  BY <1>6, DistinctKeeps
<1> HIDE DEF each
<1>8. /\ r \in Seq(K) /\ Len(r) <= graph.chunkLimit
      /\ \A i \in DOMAIN r : i \in DOMAIN each /\ r[i] = each[i]
  BY <1>1, <1>7, TakeKeeps
<1>9. Range(r) \subseteq K
  BY <1>8 DEF Range
<1> QED  BY <1>7, <1>8, <1>9

\* A reply whose references are chunks.
Heard(q, ids) == [i \in DOMAIN q.reply.sections |->
                   [j \in DOMAIN q.reply.sections[i] |-> ids[q.reply.sections[i][j]]]]

\* A model that obeys is heard.
LEMMA ObedienceIsHeard ==
  ASSUME NEW q, IsContext(q.context), NEW evidence, NEW graph, NEW ids, NEW selected,
         ids = PromptChunkIds(q.context, evidence, graph),
         Range(selected) \subseteq Ids(q.context.chunks), Obedient(q, ids, selected)
  PROVE  BuildWithExecution(evidence, q.context, graph, q.step, q.onLoop,
                            q.reply).sections = Heard(q, ids)
<1> DEFINE output == RunStructured(q.step, q.onLoop, q.reply, ValidPerspective(q.reply))
           mapped == MapPerspectiveOutput(output, q.context, ids)
           cites == [i \in DOMAIN q.reply.sections |->
                      [j \in DOMAIN q.reply.sections[i] |->
                        OriginalChunkId(ids, q.reply.sections[i][j])]]
           heard == Heard(q, ids)
           known == {c.id : c \in {y \in Range(q.context.chunks) :
                                     y.artifact \in DOMAIN q.context.artifacts}}
<1>1. output = q.reply /\ q.reply # Raises
  BY DEF RunStructured, Obedient
<1> HIDE DEF output
<1>2. \A i \in DOMAIN q.reply.sections : \A j \in DOMAIN q.reply.sections[i] :
        /\ q.reply.sections[i][j] \in DOMAIN ids
        /\ ids[q.reply.sections[i][j]] \in Ids(q.context.chunks)
  BY DEF Obedient
<1>3. cites = heard
  BY <1>2 DEF OriginalChunkId, Heard
<1>4. Ids(q.context.chunks) \subseteq known
  <2>1. \A k \in DOMAIN q.context.chunks :
          q.context.chunks[k].artifact \in DOMAIN q.context.artifacts
    <3> DEFINE C == [id : Nat, artifact : DOMAIN q.context.artifacts]
    <3>1. q.context.chunks \in Seq(C)
      BY DEF IsContext
    <3>2. \A k \in DOMAIN q.context.chunks : q.context.chunks[k] \in C
      <4> HIDE DEF C
      <4> QED  BY <3>1
    <3> QED  BY <3>2
  <2> QED  BY <2>1 DEF Ids, Range
<1>5. mapped = IF \A i \in DOMAIN cites : Range(cites[i]) \subseteq known
               THEN [sections |-> cites] ELSE Raises
  BY <1>1 DEF MapPerspectiveOutput
<1> HIDE DEF known, cites
<1>6. \A i \in DOMAIN heard : Range(heard[i]) \subseteq known
  BY <1>2, <1>4 DEF Range, Heard
<1> HIDE DEF heard, mapped
<1>7. mapped = [sections |-> heard]
  BY <1>3, <1>5, <1>6
<1>8. mapped # Raises
  <2>1. DOMAIN mapped = {"sections"} /\ DOMAIN Raises = {"raises"}
    BY <1>7 DEF Raises
  <2> QED  BY <2>1
<1>9. BuildWithExecution(evidence, q.context, graph, q.step, q.onLoop, q.reply) = mapped
  BY <1>1, <1>8 DEF BuildWithExecution, Obedient, mapped, output
<1> QED  BY <1>7, <1>9 DEF heard

\* Whatever an artifact says, its first generated item is of a type that is shown.
LEMMA ArtifactHasASection ==
  ASSUME NEW x, IsArtifact(x), NEW w, w = Ingest(x.type, x.text, x.chunks)
  PROVE  \E v \in Views : \E i \in DOMAIN SectionsOf[v] :
           \E y \in Range(w.items) : y.type \in SectionsOf[v][i]
<1> DEFINE rules == RulesOf[x.type]
           s == Apply(rules, x.text, x.chunks)
           extra == FoundItems(x.type, s)
           given == GeneratedItems(x.type)
           T == TypesOf(rules) \union Range(Generate(x.type))
                  \union {"clarify_scope", "clarify_interviewer_concern",
                          "prepare_technical_study_plan"}
           S == Signal(T)
<1>1. x.type \in ArtifactTypes
  BY DEF IsArtifact
<1>2. RulesAreSound(rules)
  BY <1>1, RulesAreGood
<1>3. w.items = extra \o given
  BY DEF Ingest, Stored
<1> HIDE DEF rules
<1>4. s \in Seq(S)
  <2>1. s \in Seq(Signal(TypesOf(rules)))
    BY <1>2, ApplyIsSound
  <2>2. Signal(TypesOf(rules)) \subseteq S
    BY DEF Signal
  <2> HIDE DEF S, s
  <2> QED  BY <2>1, <2>2
<1> HIDE DEF s
<1>5. \A type \in T, t \in Seq(S) : As(type, t) \in Seq(S)
  <2>1. SUFFICES ASSUME NEW type \in T, NEW t \in Seq(S)
                 PROVE  As(type, t) \in Seq(S)
    OBVIOUS
  <2>2. \A i \in DOMAIN t : [t[i] EXCEPT !.type = type] \in S
    <3>1. \A i \in DOMAIN t : t[i] \in S
      BY <2>1
    <3> HIDE DEF T
    <3> QED  BY <3>1 DEF Signal
  <2>3. DOMAIN t = 1 .. Len(t) /\ Len(t) \in Nat
    BY <2>1
  <2> HIDE DEF S
  <2> QED  BY <2>2, <2>3 DEF As
<1>6. /\ "clarify_scope" \in T
      /\ "clarify_interviewer_concern" \in T /\ "prepare_technical_study_plan" \in T
  OBVIOUS
<1>7. ScopeRisk(s) \in Seq(S)
  <2> HIDE DEF S
  <2>1. \A i \in DOMAIN s : <<s[i]>> \in Seq(S)
    BY <1>4
  <2>2. ScopeRisk(s) = <<>> \/ \E i \in DOMAIN s : ScopeRisk(s) = <<s[i]>>
    BY <1>4, RiskIsFound
  <2>3. CASE ScopeRisk(s) = <<>>
    BY <2>3
  <2>4. ASSUME NEW i \in DOMAIN s, ScopeRisk(s) = <<s[i]>>
        PROVE  ScopeRisk(s) \in Seq(S)
    BY <2>1, <2>4
  <2> QED  BY <2>2, <2>3, <2>4
<1>8. extra \in Seq(S)
  <2>1. \A types : Take(OfTypes(s, types), 3) \in Seq(S)
    <3> HIDE DEF S
    <3>1. \A types : OfTypes(s, types) \in Seq(S)
      BY <1>4, OfTypesKeeps
    <3> QED  BY <3>1, TakeKeeps
  <2> HIDE DEF S, T
  <2>2. /\ As("clarify_interviewer_concern",
              Take(OfTypes(s, {"interviewer_concern"}), 3)) \in Seq(S)
        /\ As("prepare_technical_study_plan",
              Take(OfTypes(s, {"technical_theme"}), 3)) \in Seq(S)
        /\ As("clarify_scope", ScopeRisk(s)) \in Seq(S)
    BY <1>5, <1>6, <1>7, <2>1
  <2> DEFINE one == As("clarify_interviewer_concern",
                       Take(OfTypes(s, {"interviewer_concern"}), 3))
             two == As("prepare_technical_study_plan",
                       Take(OfTypes(s, {"technical_theme"}), 3))
  <2>3. one \o two \in Seq(S)
    <3> HIDE DEF one, two
    <3>1. one \in Seq(S) /\ two \in Seq(S)
      BY <2>2 DEF one, two
    <3> QED  BY <3>1, ConcatKeeps
  <2> QED  BY <2>2, <2>3 DEF FoundItems
<1>9. /\ 1 \in DOMAIN Generate(x.type)
       /\ \E v \in Views : \E i \in DOMAIN SectionsOf[v] :
            Generate(x.type)[1] \in SectionsOf[v][i]
  BY <1>1, GeneratedIsShown
<1>10. /\ given \in Seq(S) /\ 1 \in DOMAIN given
       /\ given[1].type = Generate(x.type)[1]
  <2>1. DOMAIN Generate(x.type) = 1 .. Len(Generate(x.type))
        /\ Len(Generate(x.type)) \in Nat
    BY <1>1, GeneratedIsShown
  <2>2. \A i \in DOMAIN Generate(x.type) :
          [type |-> Generate(x.type)[i], text |-> 0, cites |-> <<>>] \in S
    BY DEF Signal, Range
  <2> HIDE DEF S, T
  <2> QED  BY <1>9, <2>1, <2>2 DEF GeneratedItems
<1>11. PICK v \in Views : \E i \in DOMAIN SectionsOf[v] :
          given[1].type \in SectionsOf[v][i]
  BY <1>9, <1>10
<1> HIDE DEF extra, given, S
<1>12. Range(w.items) = Range(extra) \union Range(given)
  BY <1>3, <1>8, <1>10, ConcatKeeps
<1>13. given[1] \in Range(w.items)
  BY <1>10, <1>12 DEF Range
<1> QED  BY <1>11, <1>13

-----------------------------------------------------------------------------
\* What is done is what the actions do for a member of the constants.
WorkInv ==
  /\ work.kind \in {"none", "ingest", "view"}
  /\ work.kind = "ingest" =>
       /\ IsArtifact(work.given)
       /\ work.out = Ingest(work.given.type, work.given.text, work.given.chunks)
  /\ work.kind = "view" =>
       LET r == work.given
           graph == ContextGraph(r.view)
           evidence == ViewEvidence(r.context, r.view)
       IN /\ r.view \in Views /\ IsContext(r.context)
          /\ work.selected = SelectPerspectiveChunks(r.context, evidence, graph)
          /\ work.ids = PromptChunkIds(r.context, evidence, graph)
          /\ work.out = BuildWithExecution(evidence, r.context, graph, r.step,
                                           r.onLoop, r.reply)

\* Both actions keep the invariant.
LEMMA WorkInvStep == WorkInv /\ [WorkNext]_work => WorkInv'
<1> SUFFICES ASSUME WorkInv, [WorkNext]_work
             PROVE  WorkInv'
  OBVIOUS
<1>1. CASE IngestText
  BY <1>1, JobSearchAssumption DEF IngestText, WorkInv
<1>2. CASE BuildView
  BY <1>2, JobSearchAssumption DEF BuildView, WorkInv
<1>3. CASE UNCHANGED work
  BY <1>3 DEF WorkInv
<1> QED  BY <1>1, <1>2, <1>3 DEF WorkNext

\* A view cites ids of chunks.
LEMMA EvidenceIsIds ==
  ASSUME NEW context, IsContext(context), NEW view \in Views
  PROVE  ViewEvidence(context, view) \in Seq(Nat)
<1> DEFINE R == [type : STRING, artifact : Nat, cites : Seq(Nat)]
           sections == SectionsOf[view]
           ss == [i \in DOMAIN sections |-> Evidence(Section(context, sections[i]))]
           last == IF view = "compensation_scope_risk"
                   THEN Evidence(Take(context.signals, 1)) ELSE <<>>
<1>1. context.signals \in Seq(R) /\ context.items \in Seq(R)
  BY DEF IsContext
<1>2. \A t \in Seq(R) : Evidence(t) \in Seq(Nat)
  <2>1. SUFFICES ASSUME NEW t \in Seq(R) PROVE Evidence(t) \in Seq(Nat)
    OBVIOUS
  <2> DEFINE cited == [i \in DOMAIN t |-> Take(t[i].cites, 1)]
  <2>2. \A i \in DOMAIN t : t[i].cites \in Seq(Nat)
    <3>1. \A i \in DOMAIN t : t[i] \in R
      <4> HIDE DEF R
      <4> QED  BY <2>1
    <3> QED  BY <3>1
  <2>3. \A i \in DOMAIN t : cited[i] \in Seq(Nat)
    BY <2>2, TakeKeeps
  <2>4. cited \in Seq(Seq(Nat))
    <3>1. DOMAIN t = 1 .. Len(t) /\ Len(t) \in Nat
      BY <2>1
    <3> QED  BY <2>3, <3>1
  <2> HIDE DEF cited
  <2>5. Flat(cited) \in Seq(Nat)
    BY <2>4, FlatLays
  <2> QED  BY <2>5 DEF Evidence, cited
<1> HIDE DEF R
<1>3. \A types : Section(context, types) \in Seq(R)
  <2>1. context.signals \o context.items \in Seq(R)
    BY <1>1, ConcatKeeps
  <2>2. \A types : OfTypes(context.signals \o context.items, types) \in Seq(R)
    BY <2>1, OfTypesKeeps
  <2> QED  BY <2>2, TakeKeeps DEF Section
<1>4. DOMAIN sections = 1 .. Len(sections) /\ Len(sections) \in Nat
  BY DEF SectionsOf, Views, RoleFit, InterviewPrep, ResumePositioning,
         ApplicationPipeline, CompensationScopeRisk
<1> HIDE DEF sections
<1>5. ss \in Seq(Seq(Nat))
  BY <1>2, <1>3, <1>4
<1> HIDE DEF ss
<1>6. Flat(ss) \in Seq(Nat)
  BY <1>5, FlatLays
<1>7. last \in Seq(Nat)
  <2>1. Take(context.signals, 1) \in Seq(R)
    BY <1>1, TakeKeeps
  <2> QED  BY <1>2, <2>1
<1>8. ViewEvidence(context, view) = Flat(ss) \o last
  BY DEF ViewEvidence, ss, sections
<1> HIDE DEF last
<1> QED  BY <1>6, <1>7, <1>8, ConcatKeeps

\* The invariant implies what the runs check of prompts.
LEMMA PromptsFollow == WorkInv => PromptsAreFaithful
<1> SUFFICES ASSUME WorkInv PROVE PromptsAreFaithful
  OBVIOUS
<1>1. EveryArtifactHasASection
  <2>1. SUFFICES ASSUME work.kind = "ingest" PROVE EveryArtifactHasASection
    BY DEF EveryArtifactHasASection
  <2>2. \E v \in Views : \E i \in DOMAIN SectionsOf[v] :
          \E y \in Range(work.out.items) : y.type \in SectionsOf[v][i]
    BY <2>1, ArtifactHasASection DEF WorkInv
  <2> QED  BY <2>2 DEF EveryArtifactHasASection
<1> DEFINE r == work.given
           graph == ContextGraph(r.view)
           evidence == ViewEvidence(r.context, r.view)
<1>2. work.kind = "view" =>
        /\ r.view \in Views /\ IsContext(r.context)
        /\ work.selected = SelectPerspectiveChunks(r.context, evidence, graph)
        /\ work.ids = PromptChunkIds(r.context, evidence, graph)
        /\ work.out = BuildWithExecution(evidence, r.context, graph, r.step,
                                         r.onLoop, r.reply)
  BY DEF WorkInv
<1>3. SectionsAreInTheGraph
  <2>1. SUFFICES ASSUME work.kind = "view", NEW i \in DOMAIN SectionsOf[r.view],
                        NEW j \in DOMAIN Section(r.context, SectionsOf[r.view][i])
                 PROVE  Section(r.context, SectionsOf[r.view][i])[j].type
                          \in GraphTypes(r.view)
    BY DEF SectionsAreInTheGraph
  <2> DEFINE R == [type : STRING, artifact : Nat, cites : Seq(Nat)]
  <2>2. r.context.signals \in Seq(R) /\ r.context.items \in Seq(R)
    BY <1>2, <2>1 DEF IsContext
  <2> HIDE DEF R, r
  <2>3. Section(r.context, SectionsOf[r.view][i])[j].type \in SectionsOf[r.view][i]
    BY <2>1, <2>2, SectionShows
  <2> QED  BY <1>2, <2>1, <2>3, GraphsCoverSections
<1>4. OnlyFullSectionsLeaveOut
  <2>1. SUFFICES ASSUME work.kind = "view", NEW i \in DOMAIN SectionsOf[r.view]
                 PROVE  LET types == SectionsOf[r.view][i]
                            shown == Section(r.context, types)
                        IN \A y \in Range(r.context.signals)
                                     \union Range(r.context.items) :
                             y.type \in types => y \in Range(shown) \/ Len(shown) = 8
    BY DEF OnlyFullSectionsLeaveOut
  <2> DEFINE R == [type : STRING, artifact : Nat, cites : Seq(Nat)]
  <2>2. r.context.signals \in Seq(R) /\ r.context.items \in Seq(R)
    BY <1>2, <2>1 DEF IsContext
  <2> HIDE DEF R, r
  <2> QED  BY <2>2, SectionShows
<1>5. PromptChunksAreKnown
  <2>1. SUFFICES ASSUME work.kind = "view" PROVE PromptChunksAreKnown
    BY DEF PromptChunksAreKnown
  <2>2. graph.chunkLimit \in Nat
    BY DEF ContextGraph
  <2>3. evidence \in Seq(Nat)
    BY <1>2, <2>1, EvidenceIsIds
  <2> HIDE DEF graph, evidence
  <2>4. /\ \A i, j \in DOMAIN work.selected :
             i # j => work.selected[i] # work.selected[j]
        /\ Len(work.selected) <= graph.chunkLimit
        /\ Range(work.selected) \subseteq Ids(r.context.chunks)
    BY <1>2, <2>1, <2>2, <2>3, SelectedAreKnown
  <2> QED  BY <2>4 DEF PromptChunksAreKnown, graph
<1>6. ObedientReplyIsUsed
  <2>1. SUFFICES ASSUME work.kind = "view", Obedient(r, work.ids, work.selected)
                 PROVE  ObedientReplyIsUsed
    BY DEF ObedientReplyIsUsed
  <2>2. Range(work.selected) \subseteq Ids(r.context.chunks)
    BY <1>5, <2>1 DEF PromptChunksAreKnown
  <2> HIDE DEF graph, evidence
  <2>3. work.out.sections = Heard(r, work.ids)
    <3> HIDE DEF r
    <3> QED  BY <1>2, <2>1, <2>2, ObedienceIsHeard
  <2> QED  BY <2>3 DEF ObedientReplyIsUsed, Heard
<1> QED  BY <1>1, <1>3, <1>5, <1>6, <1>4 DEF PromptsAreFaithful

\* Whatever is ingested, and however its text is cut into chunks, no signal is
\* repeated and none cites a chunk in which a search does not find what it quotes
\* while it finds it in another; a line whose spaces were collapsed may be found
\* in none (lines_containing and source_for_match of models.py).
THEOREM SignalsStayFaithful == WorkSpec => []SignalsAreFaithful
<1>1. WorkInit => WorkInv
  BY DEF WorkInit, WorkInv
<1>2. WorkInv => SignalsAreFaithful
  BY IngestedSignalsAreFaithful DEF WorkInv
<1> QED  BY <1>1, <1>2, WorkInvStep, PTL DEF WorkSpec

\* Whatever is ingested or asked for: every artifact has a record that some section
\* lists, a section leaves such a record out only when it is full, what it shows is
\* selected by the view's graph, a prompt shows known chunks within its limit, and
\* a model that cites only what it was shown is heard (_select_perspective_chunks and
\* _PromptIdMap of llm.py, builders.py, domain.yaml).
THEOREM PromptsStayFaithful == WorkSpec => []PromptsAreFaithful
<1>1. WorkInit => WorkInv
  BY DEF WorkInit, WorkInv
<1> QED  BY <1>1, PromptsFollow, WorkInvStep, PTL DEF WorkSpec

-----------------------------------------------------------------------------
(* BriefTools                                                              *)

Note == [key : Nat, marks : SUBSET STRING, terms : SUBSET STRING]
Noted == [id : Nat, key : Nat, marks : SUBSET STRING, terms : SUBSET STRING]

\* Sections are numbered.
LEMMA SectionsAreNumbered ==
  ASSUME NEW lines \in Seq(Note), NEW s, s = SplitIntoSections(NormalizeInput(lines))
  PROVE  s \in Seq(Noted) /\ \A i \in DOMAIN s : s[i].id = i
<1> DEFINE kept == Where(NormalizeInput(lines), LAMBDA x : x # Blank)
           Make(i) == [id |-> i, key |-> kept[i].key, marks |-> kept[i].marks,
                       terms |-> kept[i].terms]
<1>1. NormalizeInput(lines) \in Seq(Note)
  BY AtKeeps DEF NormalizeInput, Where
<1>2. kept \in Seq(Note)
  BY <1>1, AtKeeps DEF Where
<1>3. s = [i \in DOMAIN kept |-> Make(i)]
  BY DEF SplitIntoSections
<1> HIDE DEF kept
<1>4. DOMAIN kept = 1 .. Len(kept) /\ Len(kept) \in Nat
  BY <1>2
<1>5. \A i \in DOMAIN kept : kept[i] \in Note /\ i \in Nat
  BY <1>2, <1>4
<1>6. \A i \in DOMAIN kept : Make(i) \in Noted /\ Make(i).id = i
  BY <1>5 DEF Note, Noted
<1> HIDE DEF Make
<1>7. s \in Seq(Noted)
  BY <1>3, <1>4, <1>6
<1> QED  BY <1>3, <1>6, <1>7

\* What is listed of some sections: those at the places, the first eight of them.
LEMMA FirstAreListed ==
  ASSUME NEW s \in Seq(Noted), \A i \in DOMAIN s : s[i].id = i, NEW places,
         NEW kept, kept = JoinItems(At(s, places)), NEW k \in DOMAIN s
  PROVE  IF k \in places
         THEN \/ k \in Range(kept)
              \/ Len(kept) = 8 /\ \A i \in 1 .. 8 : kept[i] < k
         ELSE k \notin Range(kept)
<1> DEFINE r == At(s, places)
           ids == [i \in DOMAIN r |-> r[i].id]
           c == IF 8 < Len(r) THEN 8 ELSE Len(r)
<1>1. r \in Seq(Noted) /\ \E m : Places(m, r, s, places, Len(s))
  BY AtPlaces
<1>2. kept = Take(ids, 8)
  BY DEF JoinItems
<1> HIDE DEF r
<1>3. PICK m : Places(m, r, s, places, Len(s))
  BY <1>1
<1>4. DOMAIN r = 1 .. Len(r) /\ Len(r) \in Nat /\ DOMAIN s = 1 .. Len(s)
  BY <1>1
<1>5. \A i \in 1 .. Len(r) : m[i] \in DOMAIN s /\ m[i] \in places /\ ids[i] = m[i]
  BY <1>3, <1>4 DEF Places
<1>6. \A i \in 1 .. Len(r) : m[i] \in Nat
  BY <1>4, <1>5
<1>7. ids \in Seq(Nat) /\ Len(ids) = Len(r)
  BY <1>4, <1>5, <1>6
<1> HIDE DEF ids
<1>8. c \in Nat /\ c <= Len(r) /\ (c < Len(r) => c = 8)
  BY <1>4
<1>9. /\ Len(kept) = c /\ DOMAIN kept = 1 .. c
      /\ \A i \in 1 .. c : i \in 1 .. Len(r) /\ kept[i] = m[i]
  <2>1. kept = [i \in 1 .. c |-> ids[i]]
    BY <1>2, <1>7 DEF Take
  <2> HIDE DEF c
  <2>2. \A i \in 1 .. c : i \in 1 .. Len(r) /\ ids[i] = m[i] /\ ids[i] \in Nat
    BY <1>4, <1>5, <1>6, <1>8
  <2> QED  BY <1>8, <2>1, <2>2
<1> HIDE DEF c
<1>10. CASE k \in places
  <2>1. PICK j \in 1 .. Len(r) : m[j] = k
    BY <1>3, <1>4, <1>10 DEF Places
  <2>2. CASE j <= c
    <3>1. j \in 1 .. c
      BY <1>8, <2>2
    <3> QED  BY <1>9, <1>10, <2>1, <3>1 DEF Range
  <2>3. CASE ~ (j <= c)
    <3>1. c = 8
      BY <1>4, <1>8, <2>3
    <3>2. \A i \in 1 .. 8 : i \in 1 .. Len(r) /\ i < j /\ kept[i] = m[i]
      BY <1>9, <2>3, <3>1
    <3>3. \A i \in 1 .. 8 : m[i] < m[j]
      BY <1>3, <3>2 DEF Places
    <3> QED  BY <1>9, <1>10, <2>1, <3>1, <3>2, <3>3
  <2> QED  BY <2>2, <2>3
<1>11. CASE k \notin places
  BY <1>5, <1>9, <1>11 DEF Range
<1> QED  BY <1>10, <1>11

\* The places of what a brief lists.
Observed(s) == {i \in DOMAIN s : /\ "action" \notin s[i].marks
                                 /\ "decision" \notin s[i].marks}
Decided(s) == {i \in DOMAIN s : "decision" \in s[i].marks}
ToDo(s) == {i \in DOMAIN s : "action" \in s[i].marks}

\* What is found is what the sections say.
LEMMA FindingsAreSections ==
  ASSUME NEW s \in Seq(Noted), NEW f,
         f = [claims |-> ExtractClaims(s), decisions |-> ExtractDecisions(s),
              actions |-> ExtractActionItems(s)]
  PROVE  /\ f.claims \in Seq(Noted) /\ f.decisions \in Seq(Noted)
         /\ f.actions \in Seq(Noted)
         /\ Range(f.claims) = {x \in Range(s) : /\ "action" \notin x.marks
                                                /\ "decision" \notin x.marks}
         /\ Range(f.decisions) = {x \in Range(s) : "decision" \in x.marks}
         /\ Range(f.actions) = {x \in Range(s) : "action" \in x.marks}
         /\ Findings(f) \in Seq(Noted) /\ Range(Findings(f)) = Range(s)
<1>1. /\ f.claims \in Seq(Noted)
      /\ Range(f.claims) = {x \in Range(s) : "action" \notin x.marks /\ "decision" \notin x.marks}
  <2> DEFINE P == {i \in DOMAIN s : "action" \notin s[i].marks /\ "decision" \notin s[i].marks}
           T == {x \in Noted : "action" \notin x.marks /\ "decision" \notin x.marks}
  <2>1. f.claims = At(s, P)
    BY DEF ExtractClaims, Where, LooksLikeAction, LooksLikeDecision
  <2>2. \A i \in DOMAIN s : i \in P <=> s[i] \in T
    OBVIOUS
  <2>3. Range(s) \subseteq Noted
    BY DEF Range
  <2>4. f.claims \in Seq(Noted)
    BY <2>1, AtKeeps
  <2>5. Range(f.claims) = Range(s) \intersect T
    <3> HIDE DEF P, T
    <3> QED  BY <2>1, <2>2, WhereKeeps
  <2> QED  BY <2>3, <2>4, <2>5
<1>2. /\ f.decisions \in Seq(Noted)
      /\ Range(f.decisions) = {x \in Range(s) : "decision" \in x.marks}
  <2> DEFINE P == {i \in DOMAIN s : "decision" \in s[i].marks}
           T == {x \in Noted : "decision" \in x.marks}
  <2>1. f.decisions = At(s, P)
    BY DEF ExtractDecisions, Where, LooksLikeDecision
  <2>2. \A i \in DOMAIN s : i \in P <=> s[i] \in T
    OBVIOUS
  <2>3. Range(s) \subseteq Noted
    BY DEF Range
  <2>4. f.decisions \in Seq(Noted)
    BY <2>1, AtKeeps
  <2>5. Range(f.decisions) = Range(s) \intersect T
    <3> HIDE DEF P, T
    <3> QED  BY <2>1, <2>2, WhereKeeps
  <2> QED  BY <2>3, <2>4, <2>5
<1>3. /\ f.actions \in Seq(Noted)
      /\ Range(f.actions) = {x \in Range(s) : "action" \in x.marks}
  <2> DEFINE P == {i \in DOMAIN s : "action" \in s[i].marks}
           T == {x \in Noted : "action" \in x.marks}
  <2>1. f.actions = At(s, P)
    BY DEF ExtractActionItems, Where, LooksLikeAction
  <2>2. \A i \in DOMAIN s : i \in P <=> s[i] \in T
    OBVIOUS
  <2>3. Range(s) \subseteq Noted
    BY DEF Range
  <2>4. f.actions \in Seq(Noted)
    BY <2>1, AtKeeps
  <2>5. Range(f.actions) = Range(s) \intersect T
    <3> HIDE DEF P, T
    <3> QED  BY <2>1, <2>2, WhereKeeps
  <2> QED  BY <2>3, <2>4, <2>5
<1>4. /\ Findings(f) \in Seq(Noted)
      /\ Range(Findings(f)) = Range(f.claims) \union Range(f.decisions)
                                              \union Range(f.actions)
  <2> DEFINE both == f.claims \o f.decisions
  <2>1. both \in Seq(Noted) /\ Range(both) = Range(f.claims) \union Range(f.decisions)
    BY <1>1, <1>2, ConcatKeeps
  <2> HIDE DEF both
  <2>2. /\ both \o f.actions \in Seq(Noted)
        /\ Range(both \o f.actions) = Range(both) \union Range(f.actions)
    BY <1>3, <2>1, ConcatKeeps
  <2>3. Findings(f) = both \o f.actions
    BY DEF Findings, both
  <2> QED  BY <2>1, <2>2, <2>3
<1> QED  BY <1>1, <1>2, <1>3, <1>4

\* The negative notes among some that a positive one of them contradicts.
Tensions(s) == {n.id : n \in {x \in s : \E p \in s :
                                /\ x.id # p.id
                                /\ "negative" \in x.marks /\ "positive" \in p.marks
                                /\ x.terms \intersect p.terms # {}}}

\* They are the second of each pair.
Reported(c) == {c[i][2] : i \in DOMAIN c}

\* Each negative note of a tension is matched once.
LEMMA TensionsAreFound ==
  ASSUME NEW f, Findings(f) \in Seq(Noted)
  PROVE  Reported(FindContradictions(f)) = Tensions(Range(Findings(f)))
<1> DEFINE s == Range(Findings(f))
           c == FindContradictions(f)
           items == Findings(f)
           negatives == Where(items, LAMBDA x : "negative" \in x.marks)
           positives == Where(items, LAMBDA x : "positive" \in x.marks)
           Against(n) == Where(positives, LAMBDA p : Conflict(n, p))
           contested == Where(negatives, LAMBDA n : Against(n) # <<>>)
<1>1. c = [i \in DOMAIN contested |-> <<Against(contested[i])[1].id, contested[i].id>>]
  BY DEF FindContradictions
<1>2. /\ negatives \in Seq(Noted)
      /\ Range(negatives) = {x \in s : "negative" \in x.marks}
  <2> DEFINE P == {i \in DOMAIN items : "negative" \in items[i].marks}
           T == {x \in Noted : "negative" \in x.marks}
  <2>1. negatives = At(items, P)
    BY DEF Where
  <2>2. \A i \in DOMAIN items : i \in P <=> items[i] \in T
    OBVIOUS
  <2>3. s \subseteq Noted
    BY DEF Range
  <2>4. negatives \in Seq(Noted)
    BY <2>1, AtKeeps
  <2>5. Range(negatives) = s \intersect T
    <3> HIDE DEF P, T, negatives, items
    <3> QED  BY <2>1, <2>2, WhereKeeps DEF items
  <2> HIDE DEF negatives
  <2> QED  BY <2>3, <2>4, <2>5
<1>3. /\ positives \in Seq(Noted)
      /\ Range(positives) = {x \in s : "positive" \in x.marks}
  <2> DEFINE P == {i \in DOMAIN items : "positive" \in items[i].marks}
           T == {x \in Noted : "positive" \in x.marks}
  <2>1. positives = At(items, P)
    BY DEF Where
  <2>2. \A i \in DOMAIN items : i \in P <=> items[i] \in T
    OBVIOUS
  <2>3. s \subseteq Noted
    BY DEF Range
  <2>4. positives \in Seq(Noted)
    BY <2>1, AtKeeps
  <2>5. Range(positives) = s \intersect T
    <3> HIDE DEF P, T, positives, items
    <3> QED  BY <2>1, <2>2, WhereKeeps DEF items
  <2> HIDE DEF positives
  <2> QED  BY <2>3, <2>4, <2>5
<1> HIDE DEF items, negatives, positives
<1>4. \A n : Against(n) # <<>> <=> \E p \in Range(positives) : Conflict(n, p)
  <2>1. SUFFICES ASSUME NEW n
                 PROVE  Against(n) # <<>> <=> \E p \in Range(positives) : Conflict(n, p)
    OBVIOUS
  <2> DEFINE P == {i \in DOMAIN positives : Conflict(n, positives[i])}
           T == {p \in Noted : Conflict(n, p)}
  <2>5. Against(n) = At(positives, P)
    BY DEF Where
  <2>2. \A i \in DOMAIN positives : i \in P <=> positives[i] \in T
    BY <1>3
  <2>3. Range(positives) \subseteq Noted
    BY <1>3 DEF Range
  <2>4. Against(n) # <<>> <=> \E p \in Range(positives) : p \in T
    <3> HIDE DEF P, T, Against
    <3> QED  BY <1>3, <2>5, <2>2, WhereKeeps
  <2> QED  BY <2>3, <2>4
<1>5. /\ contested \in Seq(Noted)
      /\ Range(contested) = {n \in Range(negatives) :
                               \E p \in Range(positives) : Conflict(n, p)}
  <2> DEFINE P == {i \in DOMAIN negatives : Against(negatives[i]) # <<>>}
           T == {n \in Noted : Against(n) # <<>>}
  <2>1. contested = At(negatives, P)
    BY DEF Where
  <2> HIDE DEF Against
  <2>2. \A i \in DOMAIN negatives : i \in P <=> negatives[i] \in T
    BY <1>2
  <2>3. Range(negatives) \subseteq Noted
    BY <1>2 DEF Range
  <2> HIDE DEF contested
  <2>4. contested \in Seq(Noted)
    BY <1>2, <2>1, AtKeeps
  <2>5. Range(contested) = Range(negatives) \intersect T
    <3> HIDE DEF P, T
    <3> QED  BY <1>2, <2>1, <2>2, WhereKeeps
  <2> QED  BY <1>4, <2>3, <2>4, <2>5
<1> HIDE DEF contested, Against
<1>6. {c[i][2] : i \in DOMAIN c} = {n.id : n \in Range(contested)}
  BY <1>1 DEF Range
<1>7. Range(contested) = {x \in s : \E p \in s :
                            /\ x.id # p.id
                            /\ "negative" \in x.marks /\ "positive" \in p.marks
                            /\ x.terms \intersect p.terms # {}}
  BY <1>2, <1>3, <1>5 DEF Conflict
<1> QED  BY <1>6, <1>7 DEF Reported, Tensions, items

\* A report is what the tools make of some notes.
ReportInv ==
  report.made => \E lines \in NoteLists :
                   /\ report.sections = SplitIntoSections(NormalizeInput(lines))
                   /\ report.out = Brief(lines)

\* The invariant implies what the runs check of briefs.
LEMMA ReportIsFaithful == ReportInv => BriefIsFaithful
<1> SUFFICES ASSUME ReportInv, report.made
             PROVE  BriefIsFaithful
  BY DEF BriefIsFaithful, OnlyLateNotesAreLeftOut, ContradictionsAreReal
<1>1. PICK lines \in NoteLists :
        /\ report.sections = SplitIntoSections(NormalizeInput(lines))
        /\ report.out = Brief(lines)
  BY DEF ReportInv
<1> DEFINE s == report.sections
           f == report.out.findings
<1>2. lines \in Seq(Note)
  BY BriefAssumption DEF Note
<1>3. s \in Seq(Noted) /\ \A i \in DOMAIN s : s[i].id = i
  BY <1>1, <1>2, SectionsAreNumbered
<1>4. /\ f = [claims |-> ExtractClaims(s), decisions |-> ExtractDecisions(s),
              actions |-> ExtractActionItems(s)]
      /\ report.out.contradictions = FindContradictions(f)
  BY <1>1 DEF Brief
<1>5. /\ report.out.brief.observations = JoinItems(f.claims)
      /\ report.out.brief.decisions = JoinItems(f.decisions)
      /\ report.out.brief.actions = JoinItems(f.actions)
  BY <1>1 DEF Brief, FormatBrief
<1> HIDE DEF s, f
<1>6. /\ f.claims \in Seq(Noted) /\ f.decisions \in Seq(Noted)
      /\ f.actions \in Seq(Noted)
      /\ Range(f.claims) = {x \in Range(s) : /\ "action" \notin x.marks
                                             /\ "decision" \notin x.marks}
      /\ Range(f.decisions) = {x \in Range(s) : "decision" \in x.marks}
      /\ Range(f.actions) = {x \in Range(s) : "action" \in x.marks}
      /\ Findings(f) \in Seq(Noted) /\ Range(Findings(f)) = Range(s)
  BY <1>3, <1>4, FindingsAreSections
<1>7. OnlyLateNotesAreLeftOut
  <2> DEFINE brief == report.out.brief
             Kept(kept, x, belongs) ==
               IF belongs
               THEN \/ x.id \in Range(kept)
                    \/ Len(kept) = 8 /\ \A i \in 1 .. 8 : kept[i] < x.id
               ELSE x.id \notin Range(kept)
  <2>1. /\ brief.observations = JoinItems(At(s, Observed(s)))
        /\ brief.decisions = JoinItems(At(s, Decided(s)))
        /\ brief.actions = JoinItems(At(s, ToDo(s)))
    BY <1>4, <1>5 DEF ExtractClaims, ExtractDecisions, ExtractActionItems, Where,
                LooksLikeAction, LooksLikeDecision, Observed, Decided, ToDo
  <2> HIDE DEF brief
  <2>2. \A k \in DOMAIN s :
          /\ Kept(brief.observations, s[k], k \in Observed(s))
          /\ Kept(brief.decisions, s[k], k \in Decided(s))
          /\ Kept(brief.actions, s[k], k \in ToDo(s))
    BY <1>3, <2>1, FirstAreListed
  <2>3. SUFFICES ASSUME NEW x \in Range(s),
                        NEW kind \in {"observations", "decisions", "actions"}
                 PROVE  Kept(brief[kind], x,
                             \/ /\ kind = "observations"
                                /\ x.marks \intersect {"decision", "action"} = {}
                             \/ kind = "decisions" /\ "decision" \in x.marks
                             \/ kind = "actions" /\ "action" \in x.marks)
    BY DEF OnlyLateNotesAreLeftOut, s, brief
  <2>4. PICK k \in DOMAIN s : x = s[k]
    BY <2>3 DEF Range
  <2>5. /\ k \in Observed(s) <=> x.marks \intersect {"decision", "action"} = {}
        /\ k \in Decided(s) <=> "decision" \in x.marks
        /\ k \in ToDo(s) <=> "action" \in x.marks
    BY <2>4 DEF Observed, Decided, ToDo
  <2>6. CASE kind = "observations"
    BY <2>2, <2>4, <2>5, <2>6
  <2>7. CASE kind = "decisions"
    BY <2>2, <2>4, <2>5, <2>7
  <2>8. CASE kind = "actions"
    BY <2>2, <2>4, <2>5, <2>8
  <2> QED  BY <2>3, <2>6, <2>7, <2>8
<1>8. ContradictionsAreReal
  <2>1. Reported(FindContradictions(f)) = Tensions(Range(s))
    BY <1>6, TensionsAreFound
  <2> QED  BY <1>4, <2>1 DEF ContradictionsAreReal, Reported, Tensions, s
<1> QED  BY <1>7, <1>8 DEF BriefIsFaithful

\* Whatever the notes are, the brief lists each where it belongs and nowhere else,
\* leaving one out only after eight earlier ones, and names a contradiction exactly
\* when two sections are in tension (_join_items and extract_claims to
\* find_contradictions of workflows/tools.py).
THEOREM BriefsStayFaithful == ReportSpec => []BriefIsFaithful
<1>1. ReportInit => ReportInv
  BY DEF ReportInit, ReportInv
<1>2. ReportInv /\ [MakeBrief]_report => ReportInv'
  BY DEF ReportInv, MakeBrief
<1> QED  BY <1>1, <1>2, ReportIsFaithful, PTL DEF ReportSpec
=============================================================================
