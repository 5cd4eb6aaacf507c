--------------------------- MODULE ContextContract ---------------------------
(***************************************************************************)
(* What the Context Engine promises a caller who asks for a perspective    *)
(* view (core/context_engine/service.py, get_perspective): a view that a   *)
(* request publishes is drawn from artifacts of its owner and covers every *)
(* artifact whose ingestion had been confirmed when the request began.     *)
(* Nothing is promised about artifacts still being ingested, about the     *)
(* order of two publications, or that a request publishes at all.          *)
(***************************************************************************)
CONSTANTS
  Artifacts,  \* artifacts that may be ingested
  Requests,   \* requests for a view, each made once
  Owners,     \* owners of artifacts and views
  OwnerOf,    \* the owner of each artifact
  NoView,     \* no view is stored
  NotAsked,   \* the request has not begun
  Over        \* the request has ended

VARIABLES
  ingested,  \* artifacts whose ingestion was confirmed to the caller
  due,       \* what each open request must cover
  view       \* the published view of each owner

vars == <<ingested, due, view>>

Owned(o) == {a \in Artifacts : OwnerOf[a] = o}

Init ==
  /\ ingested \subseteq Artifacts
  /\ due = [r \in Requests |-> NotAsked]
  /\ view = [o \in Owners |-> NoView]

Ingest(a) ==
  /\ ingested' = ingested \union {a}
  /\ UNCHANGED <<due, view>>

Begin(r, o) ==
  /\ due[r] = NotAsked
  /\ due' = [due EXCEPT ![r] = ingested \intersect Owned(o)]
  /\ UNCHANGED <<ingested, view>>

Publish(r, o) ==
  /\ due[r] \notin {NotAsked, Over}
  /\ \E sources \in SUBSET Owned(o) : \E covers \in SUBSET sources :
       /\ due[r] \subseteq covers
       /\ view' = [view EXCEPT ![o] = [sources |-> sources, covers |-> covers]]
  /\ due' = [due EXCEPT ![r] = Over]
  /\ UNCHANGED ingested

Finish(r) ==
  /\ due[r] \notin {NotAsked, Over}
  /\ due' = [due EXCEPT ![r] = Over]
  /\ UNCHANGED <<ingested, view>>

Next ==
  \/ \E a \in Artifacts : Ingest(a)
  \/ \E r \in Requests, o \in Owners : Begin(r, o) \/ Publish(r, o)
  \/ \E r \in Requests : Finish(r)

Spec == Init /\ [][Next]_vars
=============================================================================
