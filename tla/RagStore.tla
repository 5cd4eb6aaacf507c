------------------------------ MODULE RagStore ------------------------------
(***************************************************************************)
(* The RAG demo of one invitation code (routes/rag.py over the tables of   *)
(* models/rag.py): its personas, the documents linked to them and its      *)
(* conversations.  The handlers that are plain functions run in worker     *)
(* threads: each reads what it checks, and commits later, with the others  *)
(* in between.  The uploads and the chat turns are coroutines of the one   *)
(* event loop: what one does between two awaits no other coroutine sees,   *)
(* but a worker thread may commit between two of its commits.  The         *)
(* document an upload stores is named by the upload, and stands for its    *)
(* chunks too: they are written in one transaction, and never change.      *)
(***************************************************************************)
EXTENDS Naturals, FiniteSets

CONSTANTS
  Personas, Names,  \* persona ids, and the name keys they may take
  Conversations,    \* conversation ids
  Contents,         \* extracted texts, as told apart by content_sha256
  Calls,            \* calls handled by worker threads, each once
  Uploads,          \* document uploads, each once
  Turns,            \* chat messages, each once
  MaxTurns,         \* user turns a conversation may have when one starts
  Cap,              \* chunks retrieved for a turn
  CanCrash,         \* whether the process may restart
  None              \* no value

ASSUME RagAssumption ==
  /\ MaxTurns \in Nat /\ Cap \in Nat \ {0}
  /\ CanCrash \in BOOLEAN
  /\ None \notin Personas \union Names \union Contents

VARIABLES
  name,     \* the name of each persona, None when there is no such row
  active,   \* its is_active
  owner,    \* the persona of each conversation, None when there is no row
  content,  \* the text of the document stored by each upload, or None
  links,    \* rows <<persona, document>> of rag_persona_documents
  msgs,     \* rows of rag_messages with their citations
  call,     \* what each worker thread is about to commit
  upload,   \* how far each upload is
  target,   \* the persona it is for: None from the route /documents
  turn,     \* how far each chat turn is
  topic,    \* its conversation
  got,      \* the documents whose chunks it retrieved
  offered,  \* history: the documents linked to its persona while it ran
  down      \* history: whether the process restarted

people  == <<name, active, owner>>
docs    == <<content, links>>
uploads == <<upload, target>>
turns   == <<turn, topic, got>>
vars    == <<people, docs, msgs, call, uploads, turns, offered, down>>

\* The text of a message: a model may draft nothing but white space.
DraftTexts == {"written", "blank"}

Rows == [conv: Conversations, index: Nat, role: {"user", "assistant"},
         of: Turns, text: DraftTexts,
         retrieved: SUBSET Uploads, cites: SUBSET Uploads]

\* What a worker thread has checked and not committed yet.
Requests ==
  [op: {"create"}, name: Names]
    \union [op: {"update"}, persona: Personas, name: Names]
    \union [op: {"delete"}, persona: Personas]
    \union [op: {"converse"}, persona: Personas]
    \union [op: {"unlink"}, persona: Personas, doc: Uploads]

Idle == [op |-> "idle"]
Done == [op |-> "done"]

TypeOK ==
  /\ name \in [Personas -> Names \union {None}]
  /\ active \in [Personas -> BOOLEAN]
  /\ owner \in [Conversations -> Personas \union {None}]
  /\ content \in [Uploads -> Contents \union {None}]
  /\ links \subseteq Personas \X Uploads
  /\ msgs \subseteq Rows
  /\ call \in [Calls -> Requests \union {Idle, Done}]
  /\ upload \in [Uploads -> {"new", "reading", "stored", "over"}]
  /\ target \in [Uploads -> Personas \union {None}]
  /\ turn \in [Turns -> {"new", "planning", "drafting", "over"}]
  /\ topic \in [Turns -> Conversations \union {None}]
  /\ got \in [Turns -> SUBSET Uploads]
  /\ offered \in [Turns -> SUBSET Uploads]
  /\ down \in BOOLEAN

\* Some personas may be there already, under names of their own, and every
\* conversation that exists is with one of them.
Init ==
  /\ name \in [Personas -> Names \union {None}]
  /\ \A p, q \in Personas : name[p] = name[q] /\ name[p] # None => p = q
  /\ active = [p \in Personas |-> name[p] # None]
  /\ owner \in [Conversations -> {p \in Personas : active[p]} \union {None}]
  /\ content = [u \in Uploads |-> None]
  /\ links = {} /\ msgs = {}
  /\ call = [k \in Calls |-> Idle]
  /\ upload = [u \in Uploads |-> "new"]
  /\ target = [u \in Uploads |-> None]
  /\ turn = [t \in Turns |-> "new"]
  /\ topic = [t \in Turns |-> None]
  /\ got = [t \in Turns |-> {}]
  /\ offered = [t \in Turns |-> {}]
  /\ down = FALSE

-----------------------------------------------------------------------------
(* The handlers in worker threads: a check, then a commit. *)

NameIsFree(n, others) == \A q \in others : ~ (active[q] /\ name[q] = n)

CheckRequest(k, r) ==
  /\ call[k] = Idle
  /\ call' = [call EXCEPT ![k] = r]
  /\ UNCHANGED <<people, docs, msgs, uploads, turns, offered, down>>

CheckCreate(k) == \E n \in Names :
  NameIsFree(n, Personas) /\ CheckRequest(k, [op |-> "create", name |-> n])

CheckUpdate(k) == \E p \in Personas, n \in Names :
  /\ active[p] /\ NameIsFree(n, Personas \ {p})
  /\ CheckRequest(k, [op |-> "update", persona |-> p, name |-> n])

CheckDelete(k) == \E p \in Personas :
  active[p] /\ CheckRequest(k, [op |-> "delete", persona |-> p])

CheckConversation(k) == \E p \in Personas :
  active[p] /\ CheckRequest(k, [op |-> "converse", persona |-> p])

CheckUnlink(k) == \E p \in Personas, d \in Uploads :
  /\ active[p] /\ <<p, d>> \in links
  /\ CheckRequest(k, [op |-> "unlink", persona |-> p, doc |-> d])

\* uq_rag_personas_invitation_name_active counts the deleted personas too.
NamesAreUnique(nm, act) ==
  \A p, q \in Personas :
    nm[p] # None /\ nm[p] = nm[q] /\ act[p] = act[q] => p = q

\* Mutant: The check of the routes is trusted: the table has no constraint.
SavePersonas_Unchecked(nm, act) == name' = nm /\ active' = act

\* A write of rag_personas, refused by the table's constraint (a 500).
SavePersonas(nm, act) ==
  IF NamesAreUnique(nm, act) THEN name' = nm /\ active' = act
                             ELSE UNCHANGED <<name, active>>

EndCall(k) == call' = [call EXCEPT ![k] = Done]

CommitCreate(k) ==
  /\ call[k].op = "create" /\ EndCall(k)
  /\ \E p \in Personas :
       /\ name[p] = None
       /\ SavePersonas([name EXCEPT ![p] = call[k].name],
                       [active EXCEPT ![p] = TRUE])
  /\ UNCHANGED <<owner, docs, msgs, uploads, turns, offered, down>>

\* Mutant: The update writes the whole row it has loaded.
CommitUpdate_WholeRow(k) ==
  /\ call[k].op = "update" /\ EndCall(k)
  /\ SavePersonas([name EXCEPT ![call[k].persona] = call[k].name],
                  [active EXCEPT ![call[k].persona] = TRUE])
  /\ UNCHANGED <<owner, docs, msgs, uploads, turns, offered, down>>

\* The update writes the columns it changed, whatever became of the row.
CommitUpdate(k) ==
  /\ call[k].op = "update" /\ EndCall(k)
  /\ SavePersonas([name EXCEPT ![call[k].persona] = call[k].name], active)
  /\ UNCHANGED <<owner, docs, msgs, uploads, turns, offered, down>>

CommitDelete(k) ==
  /\ call[k].op = "delete" /\ EndCall(k)
  /\ SavePersonas(name, [active EXCEPT ![call[k].persona] = FALSE])
  /\ UNCHANGED <<owner, docs, msgs, uploads, turns, offered, down>>

CommitConversation(k) ==
  /\ call[k].op = "converse" /\ EndCall(k)
  /\ \E c \in Conversations :
       owner[c] = None /\ owner' = [owner EXCEPT ![c] = call[k].persona]
  /\ UNCHANGED <<name, active, docs, msgs, uploads, turns, offered, down>>

CommitUnlink(k) ==
  /\ call[k].op = "unlink" /\ EndCall(k)
  /\ links' = links \ {<<call[k].persona, call[k].doc>>}
  /\ UNCHANGED <<people, content, msgs, uploads, turns, offered, down>>

Handle(k) ==
  \/ CheckCreate(k) \/ CommitCreate(k)
  \/ CheckUpdate(k) \/ CommitUpdate(k)
  \/ CheckDelete(k) \/ CommitDelete(k)
  \/ CheckConversation(k) \/ CommitConversation(k)
  \/ CheckUnlink(k) \/ CommitUnlink(k)

-----------------------------------------------------------------------------
(* Uploads *)

\* No coroutine runs while an upload is between its two commits.
LoopIsFree == \A u \in Uploads : upload[u] # "stored"

Linked(p) == {d \in Uploads : <<p, d>> \in links}

Running(t) == turn[t] \in {"planning", "drafting"}

\* The turns under way with persona p.
TurnsWith(p) == {t \in Turns : Running(t) /\ owner[topic[t]] = p}

\* Mutant: The lookup by hash joins the links of the personas.
WithContent_Linked(x) ==
  {d \in Uploads : content[d] = x /\ \E p \in Personas : <<p, d>> \in links}

\* get_document_by_hash returns any document with this text.
WithContent(x) == {d \in Uploads : content[d] = x}

BeginUpload(u) ==
  /\ LoopIsFree /\ upload[u] = "new"
  /\ upload' = [upload EXCEPT ![u] = "reading"]
  /\ \E p \in {q \in Personas : active[q]} \union {None} :
       target' = [target EXCEPT ![u] = p]
  /\ UNCHANGED <<people, docs, msgs, call, turns, offered, down>>

\* Nothing to extract, or the embedding provider failed: nothing is stored.
FailUpload(u) ==
  /\ LoopIsFree /\ upload[u] = "reading"
  /\ upload' = [upload EXCEPT ![u] = "over"]
  /\ UNCHANGED <<people, docs, msgs, call, target, turns, offered, down>>

\* The document and its chunks, in a transaction of their own.
StoreDocument(u) == \E x \in Contents :
  /\ LoopIsFree /\ upload[u] = "reading"
  /\ target[u] # None => WithContent(x) = {}
  /\ content' = [content EXCEPT ![u] = x]
  /\ upload' = [upload EXCEPT ![u] = IF target[u] = None THEN "over"
                                                         ELSE "stored"]
  /\ UNCHANGED <<people, links, msgs, call, target, turns, offered, down>>

Link(p, d) ==
  /\ links' = links \union {<<p, d>>}
  /\ offered' = [t \in Turns |-> IF t \in TurnsWith(p)
                                 THEN offered[t] \union {d} ELSE offered[t]]

LinkDocument(u, d) ==
  /\ Link(target[u], d)
  /\ upload' = [upload EXCEPT ![u] = "over"]
  /\ UNCHANGED <<people, content, msgs, call, target, turns, down>>

LinkStored(u) == upload[u] = "stored" /\ LinkDocument(u, u)

\* The text is known already: its document is reused.
LinkReused(u) == \E x \in Contents :
  /\ LoopIsFree /\ upload[u] = "reading" /\ target[u] # None
  /\ \E d \in WithContent(x) : LinkDocument(u, d)

Ingest(u) ==
  \/ BeginUpload(u) \/ FailUpload(u) \/ StoreDocument(u)
  \/ LinkStored(u) \/ LinkReused(u)

-----------------------------------------------------------------------------
(* Chat turns *)

MessagesOf(c) == {m \in msgs : m.conv = c}
UserTurns(c)  == Cardinality({m \in MessagesOf(c) : m.role = "user"})

\* Mutant: (max or 0) + 1: the first message gets number 1.
NextIndex_FromOne(c) ==
  IF MessagesOf(c) = {} THEN 1
  ELSE (CHOOSE i \in {m.index : m \in MessagesOf(c)} :
          \A m \in MessagesOf(c) : m.index <= i) + 1

\* One more than the highest turn_index.
NextIndex(c) ==
  IF MessagesOf(c) = {} THEN 0
  ELSE (CHOOSE i \in {m.index : m \in MessagesOf(c)} :
          \A m \in MessagesOf(c) : m.index <= i) + 1

BeginTurn(t) == \E c \in Conversations :
  /\ LoopIsFree /\ turn[t] = "new"
  /\ owner[c] # None /\ active[owner[c]]
  /\ UserTurns(c) < MaxTurns
  /\ turn' = [turn EXCEPT ![t] = "planning"]
  /\ topic' = [topic EXCEPT ![t] = c]
  /\ offered' = [offered EXCEPT ![t] = Linked(owner[c])]
  /\ UNCHANGED <<people, docs, msgs, call, uploads, got, down>>

\* Mutant: The draft's ids are stored without looking them up.
Cited_AsDrafted(retrieved, drafted, text) ==
  IF drafted = {} /\ text # "blank" THEN retrieved ELSE drafted

\* Mutant: A draft that selects nothing cites nothing.
Cited_NoFallback(retrieved, drafted, text) == drafted \intersect retrieved

\* _store_citations: the ids the draft selected among those retrieved, and
\* all of them when it selected none, unless its text is blank.  ("drafted"
\* is what the first five ids that were retrieved name, and any others.)
Cited(retrieved, drafted, text) ==
  LET selected == drafted \intersect retrieved
  IN  IF selected = {} /\ text # "blank" THEN retrieved ELSE selected

\* The question and the answer, with its citations, in one commit.
StoreTurn(t, retrieved, drafted, text) ==
  LET c == topic[t]
      i == NextIndex(c)
  IN  msgs' = msgs \union
        {[conv |-> c, index |-> i, role |-> "user", of |-> t,
          text |-> "written", retrieved |-> {}, cites |-> {}],
         [conv |-> c, index |-> i + 1, role |-> "assistant", of |-> t,
          text |-> text, retrieved |-> retrieved,
          cites |-> Cited(retrieved, drafted, text)]}

\* Mutant: The search forgets the join with rag_persona_documents.
Retrievable_AnyDocument(p) ==
  {s \in SUBSET {d \in Uploads : content[d] # None} : Cardinality(s) <= Cap}

\* The nearest chunks: an index search may return fewer than there are.
Retrievable(p) == {s \in SUBSET Linked(p) : Cardinality(s) <= Cap}

\* The plan needs an answer: the chunks are retrieved before the next await.
PlanAnswer(t) ==
  /\ LoopIsFree /\ turn[t] = "planning"
  /\ turn' = [turn EXCEPT ![t] = "drafting"]
  /\ \E s \in Retrievable(owner[topic[t]]) \union {{}} :
       got' = [got EXCEPT ![t] = s]
  /\ UNCHANGED <<people, docs, msgs, call, uploads, topic, offered, down>>

\* The plan refuses: the refusal is stored with no other await.
PlanRefusal(t) ==
  /\ LoopIsFree /\ turn[t] = "planning"
  /\ turn' = [turn EXCEPT ![t] = "over"]
  /\ StoreTurn(t, {}, {}, "written")
  /\ UNCHANGED <<people, docs, call, uploads, topic, got, offered, down>>

\* The draft may name any chunk id, and its text may be white space.
DraftAnswer(t) == \E drafted \in SUBSET Uploads, text \in DraftTexts :
  /\ LoopIsFree /\ turn[t] = "drafting"
  /\ turn' = [turn EXCEPT ![t] = "over"]
  /\ StoreTurn(t, got[t], drafted, text)
  /\ UNCHANGED <<people, docs, call, uploads, topic, got, offered, down>>

\* A model call, the query's embedding or the database raises: the turn leaves
\* nothing.
FailTurn(t) ==
  /\ LoopIsFree /\ Running(t)
  /\ turn' = [turn EXCEPT ![t] = "over"]
  /\ UNCHANGED <<people, docs, msgs, call, uploads, topic, got, offered, down>>

Chat(t) ==
  BeginTurn(t) \/ PlanAnswer(t) \/ PlanRefusal(t) \/ DraftAnswer(t)
    \/ FailTurn(t)

-----------------------------------------------------------------------------

\* What the handlers had not committed is lost.
Restart ==
  /\ CanCrash /\ ~ down /\ down' = TRUE
  /\ call' = [k \in Calls |-> IF call[k] = Idle THEN Idle ELSE Done]
  /\ upload' = [u \in Uploads |-> IF upload[u] = "new" THEN "new" ELSE "over"]
  /\ turn' = [t \in Turns |-> IF turn[t] = "new" THEN "new" ELSE "over"]
  /\ UNCHANGED <<people, docs, msgs, target, topic, got, offered>>

Next ==
  \/ \E k \in Calls : Handle(k)
  \/ \E u \in Uploads : Ingest(u)
  \/ \E t \in Turns : Chat(t)
  \/ Restart

Spec == Init /\ [][Next]_vars

-----------------------------------------------------------------------------
(* Properties *)

(***************************************************************************)
(* The messages of a conversation are numbered from 0 without gap or       *)
(* repetition, questions on even numbers, each followed by the answer to   *)
(* it, however the turns of the conversation overlap, fail or are lost.    *)
(* The number is read after both awaits and written in the same segment    *)
(* (routes/rag.py:531).                                                    *)
(***************************************************************************)
TurnsAreContiguous ==
  \A m \in msgs :
    /\ \A q \in MessagesOf(m.conv) : q.index = m.index => q = m
    /\ \A i \in 0 .. m.index : \E q \in MessagesOf(m.conv) : q.index = i
    /\ (m.role = "user") <=> (m.index % 2 = 0)
    /\ m.role = "user" =>
         \E q \in MessagesOf(m.conv) : q.index = m.index + 1 /\ q.of = m.of

(***************************************************************************)
(* An answer cites only documents that were linked to the conversation's   *)
(* persona at some moment of its turn, whatever ids the draft invents: a   *)
(* document unlinked before the turn began, or linked to another persona   *)
(* only, is never cited.  An answer with a text, drafted from retrieved    *)
(* chunks, cites some of them; a draft of white space that names none of   *)
(* them cites nothing (routes/rag.py:640).                                 *)
(***************************************************************************)
CitationsAreGrounded ==
  \A m \in msgs :
    /\ m.cites \subseteq m.retrieved
    /\ m.retrieved \subseteq offered[m.of]
    /\ m.retrieved # {} /\ m.text # "blank" => m.cites # {}

(***************************************************************************)
(* Personas never store one text twice: overlapping uploads, and an upload *)
(* repeated after a restart lost the link of the first, find the document. *)
(* (The lookup follows the await, routes/rag.py:730.)  A document of the   *)
(* route /documents is always new, so it may repeat an earlier one.        *)
(***************************************************************************)
NoTwinUploads ==
  \A u, v \in Uploads :
    /\ target[u] # None /\ target[v] # None
    /\ content[u] # None /\ content[u] = content[v]
    => u = v

(***************************************************************************)
(* Two active personas never have one name, although the routes check the  *)
(* name before they write it, with other threads in between                *)
(* (routes/rag.py:238).                                                    *)
(***************************************************************************)
ActiveNamesAreUnique ==
  \A p, q \in Personas :
    active[p] /\ active[q] /\ name[p] = name[q] => p = q

(***************************************************************************)
(* A deleted persona never comes back, although an update that read it     *)
(* before the deletion still writes its row (routes/rag.py:350).           *)
(***************************************************************************)
DeletionIsFinal ==
  [][\A p \in Personas :
       name[p] # None /\ ~ active[p] => ~ active'[p] /\ name'[p] # None]_vars
=============================================================================
