------------------------------ MODULE RagProofs ------------------------------
(***************************************************************************)
(* Proofs about RagStore for any personas, documents, uploads and turns,   *)
(* and about RagChunking for any texts, sizes and limits.                  *)
(*   In the store, names are unique by the constraint of the table alone;  *)
(* an upload stores a document in the segment that looked for it, so no    *)
(* twin slips in; a turn retrieves what is linked while it runs; and it    *)
(* numbers and stores its two messages in one segment, so that a           *)
(* conversation always holds the indices below an even number.             *)
(*   In the splitting, what the windows have passed is in chunks, and what *)
(* is split again stays pending until its pieces take its place.  The two  *)
(* facts that take arguing: a window that begins later never ends earlier, *)
(* although it may begin before the break where the last one ended; and a  *)
(* chunk that is longer than its pieces may be always gives two or more.   *)
(***************************************************************************)
EXTENDS RagStore, RagChunking, FiniteSetTheorems, WellFoundedInduction, TLAPS


\* Only a row that exists is active, and no two rows break the constraint.
PeopleInv ==
  /\ NamesAreUnique(name, active)
  /\ \A p \in Personas : active[p] => name[p] # None

\* An upload stores its document on leaving "reading".
UploadInv ==
  /\ NoTwinUploads
  /\ \A u \in Uploads :
       /\ upload[u] \in {"new", "reading"} => content[u] = None
       /\ upload[u] = "stored" => target[u] # None

\* A running turn belongs to a conversation, and is offered what is linked.
TurnInv ==
  \A t \in Turns :
    /\ turn[t] = "new" => got[t] = {}
    /\ Running(t) => /\ topic[t] \in Conversations
                     /\ owner[topic[t]] \in Personas
                     /\ Linked(owner[topic[t]]) \subseteq offered[t]
                     /\ got[t] \subseteq offered[t]

\* The messages of c have exactly the indices below 2 * n, as pairs.
Numbered(c, n) ==
  /\ \A m \in MessagesOf(c) : m.index < 2 * n
  /\ \A i \in 0 .. (2 * n) - 1 : \E m \in MessagesOf(c) : m.index = i

MsgInv ==
  /\ CitationsAreGrounded
  /\ TurnsAreContiguous
  /\ \A m \in msgs : turn[m.of] = "over"
  /\ \A c \in Conversations : \E n \in Nat : Numbered(c, n)

Inv == TypeOK /\ PeopleInv /\ UploadInv /\ TurnInv /\ MsgInv

-----------------------------------------------------------------------------
(* Types                                                                   *)

\* What a call that was checked carries.
LEMMA RequestShapes ==
  ASSUME TypeOK, NEW k \in Calls
  PROVE  /\ call[k].op = "create" => call[k].name \in Names
         /\ call[k].op = "update" => /\ call[k].persona \in Personas
                                     /\ call[k].name \in Names
         /\ call[k].op = "delete" => call[k].persona \in Personas
         /\ call[k].op = "converse" => call[k].persona \in Personas
BY DEF TypeOK, Requests, Idle, Done

LEMMA InitTypes == Init => TypeOK
BY RagAssumption DEF Init, TypeOK, Requests, Idle, Done, Rows

\* A worker thread's step keeps the types.
LEMMA HandleTypes ==
  ASSUME TypeOK, NEW k \in Calls, Handle(k)
  PROVE  TypeOK'
<1>1. ASSUME NEW r \in Requests, CheckRequest(k, r)
      PROVE  TypeOK'
  BY <1>1 DEF TypeOK, CheckRequest, people, docs, uploads, turns
<1>2. CASE CheckCreate(k)
  BY <1>1, <1>2 DEF CheckCreate, Requests
<1>3. CASE CheckUpdate(k)
  BY <1>1, <1>3 DEF CheckUpdate, Requests
<1>4. CASE CheckDelete(k)
  BY <1>1, <1>4 DEF CheckDelete, Requests
<1>5. CASE CheckConversation(k)
  BY <1>1, <1>5 DEF CheckConversation, Requests
<1>6. CASE CheckUnlink(k)
  BY <1>1, <1>6 DEF CheckUnlink, Requests
<1>7. EndCall(k) => call' \in [Calls -> Requests \union {Idle, Done}]
  BY DEF EndCall, TypeOK
<1>8. ASSUME NEW nm \in [Personas -> Names \union {None}],
             NEW act \in [Personas -> BOOLEAN], SavePersonas(nm, act)
      PROVE  /\ name' \in [Personas -> Names \union {None}]
             /\ active' \in [Personas -> BOOLEAN]
  BY <1>8 DEF SavePersonas, TypeOK
<1>9. CASE CommitCreate(k)
  <2>. PICK p \in Personas : SavePersonas([name EXCEPT ![p] = call[k].name],
                                          [active EXCEPT ![p] = TRUE])
    BY <1>9 DEF CommitCreate
  <2>1. [name EXCEPT ![p] = call[k].name] \in [Personas -> Names \union {None}]
    BY <1>9, RequestShapes DEF CommitCreate, TypeOK
  <2>2. [active EXCEPT ![p] = TRUE] \in [Personas -> BOOLEAN]
    BY DEF TypeOK
  <2>3. /\ name' \in [Personas -> Names \union {None}]
        /\ active' \in [Personas -> BOOLEAN]
    BY <1>8, <2>1, <2>2
  <2>. QED BY <1>7, <1>9, <2>3 DEF CommitCreate, TypeOK, docs, uploads, turns
<1>10. CASE CommitUpdate(k)
  <2>1. [name EXCEPT ![call[k].persona] = call[k].name]
          \in [Personas -> Names \union {None}]
    BY <1>10, RequestShapes DEF CommitUpdate, TypeOK
  <2>2. active \in [Personas -> BOOLEAN]
    BY DEF TypeOK
  <2>3. /\ name' \in [Personas -> Names \union {None}]
        /\ active' \in [Personas -> BOOLEAN]
    BY <1>8, <1>10, <2>1, <2>2 DEF CommitUpdate
  <2>. QED BY <1>7, <1>10, <2>3 DEF CommitUpdate, TypeOK, docs, uploads, turns
<1>11. CASE CommitDelete(k)
  <2>1. name \in [Personas -> Names \union {None}]
    BY DEF TypeOK
  <2>2. [active EXCEPT ![call[k].persona] = FALSE] \in [Personas -> BOOLEAN]
    BY DEF TypeOK
  <2>3. /\ name' \in [Personas -> Names \union {None}]
        /\ active' \in [Personas -> BOOLEAN]
    BY <1>8, <1>11, <2>1, <2>2 DEF CommitDelete
  <2>. QED BY <1>7, <1>11, <2>3 DEF CommitDelete, TypeOK, docs, uploads, turns
<1>12. CASE CommitConversation(k)
  <2>1. call[k].persona \in Personas
    BY <1>12, RequestShapes DEF CommitConversation
  <2>2. owner' \in [Conversations -> Personas \union {None}]
    BY <1>12, <2>1 DEF CommitConversation, TypeOK
  <2>. QED BY <1>7, <1>12, <2>2
         DEF CommitConversation, TypeOK, docs, uploads, turns
<1>13. CASE CommitUnlink(k)
  BY <1>7, <1>13 DEF CommitUnlink, TypeOK, people, uploads, turns
<1>. QED BY <1>2, <1>3, <1>4, <1>5, <1>6, <1>9, <1>10, <1>11, <1>12, <1>13
       DEF Handle

\* An upload's step keeps the types.
LEMMA IngestTypes ==
  ASSUME TypeOK, UploadInv, NEW u \in Uploads, Ingest(u)
  PROVE  TypeOK'
<1>1. CASE BeginUpload(u)
  BY <1>1 DEF BeginUpload, TypeOK, people, docs, turns
<1>2. CASE FailUpload(u)
  BY <1>2 DEF FailUpload, TypeOK, people, docs, turns
<1>3. CASE StoreDocument(u)
  BY <1>3 DEF StoreDocument, TypeOK, people, turns
<1>4. ASSUME NEW d \in Uploads, target[u] # None, LinkDocument(u, d)
      PROVE  TypeOK'
  <2>1. /\ links' \subseteq Personas \X Uploads
        /\ offered' \in [Turns -> SUBSET Uploads]
    BY <1>4 DEF LinkDocument, Link, TypeOK
  <2>. QED BY <1>4, <2>1 DEF LinkDocument, TypeOK, people, turns
<1>5. CASE LinkStored(u)
  BY <1>4, <1>5 DEF LinkStored, UploadInv
<1>6. CASE LinkReused(u)
  BY <1>4, <1>6 DEF LinkReused, WithContent
<1>. QED BY <1>1, <1>2, <1>3, <1>5, <1>6 DEF Ingest

\* The next message follows the pairs there are.
LEMMA NextIndexIsEven ==
  ASSUME TypeOK, NEW c \in Conversations, NEW n \in Nat, Numbered(c, n)
  PROVE  NextIndex(c) = 2 * n
<1>. DEFINE Ixs == {m.index : m \in MessagesOf(c)}
<1>1. \A m \in MessagesOf(c) : m.index \in Nat /\ m.index < 2 * n
  BY DEF TypeOK, MessagesOf, Rows, Numbered
<1>2. CASE n = 0
  BY <1>1, <1>2 DEF NextIndex
<1>3. CASE n # 0
  <2>1. (2 * n) - 1 \in 0 .. (2 * n) - 1
    BY <1>3
  <2>2. PICK q \in MessagesOf(c) : q.index = (2 * n) - 1
    BY <2>1 DEF Numbered
  <2>3. (2 * n) - 1 \in Ixs /\ \A m \in MessagesOf(c) : m.index <= (2 * n) - 1
    BY <1>1, <2>2
  <2>4. ASSUME NEW i \in Ixs, \A m \in MessagesOf(c) : m.index <= i
        PROVE  i = (2 * n) - 1
    BY <1>1, <2>2, <2>4
  <2>5. (CHOOSE i \in Ixs : \A m \in MessagesOf(c) : m.index <= i) = (2 * n) - 1
    BY <2>3, <2>4
  <2>6. NextIndex(c) = ((2 * n) - 1) + 1
    BY <2>2, <2>5 DEF NextIndex
  <2>. QED BY <2>6
<1>. QED BY <1>2, <1>3

\* The two rows a turn stores.
Question(t, i) ==
  [conv |-> topic[t], index |-> i, role |-> "user", of |-> t,
   text |-> "written", retrieved |-> {}, cites |-> {}]
Answer(t, i, retrieved, drafted, text) ==
  [conv |-> topic[t], index |-> i + 1, role |-> "assistant", of |-> t,
   text |-> text, retrieved |-> retrieved,
   cites |-> Cited(retrieved, drafted, text)]

LEMMA StoredRows ==
  ASSUME TypeOK, NEW t \in Turns, topic[t] \in Conversations,
         NEW n \in Nat, Numbered(topic[t], n),
         NEW retrieved \in SUBSET Uploads, NEW drafted \in SUBSET Uploads,
         NEW text \in DraftTexts,
         StoreTurn(t, retrieved, drafted, text)
  PROVE  /\ msgs' = msgs \union {Question(t, 2 * n),
                                 Answer(t, 2 * n, retrieved, drafted, text)}
         /\ Question(t, 2 * n) \in Rows
         /\ Answer(t, 2 * n, retrieved, drafted, text) \in Rows
         /\ msgs' \subseteq Rows
<1>1. NextIndex(topic[t]) = 2 * n
  BY NextIndexIsEven
<1>2. msgs' = msgs \union {Question(t, 2 * n),
                           Answer(t, 2 * n, retrieved, drafted, text)}
  BY <1>1 DEF StoreTurn, Question, Answer
<1>3. Cited(retrieved, drafted, text) \in SUBSET Uploads
  BY DEF Cited
<1>4. 2 * n \in Nat /\ (2 * n) + 1 \in Nat
  OBVIOUS
<1>5. Question(t, 2 * n) \in Rows
  BY <1>4 DEF Question, Rows, DraftTexts
<1>6. Answer(t, 2 * n, retrieved, drafted, text) \in Rows
  BY <1>3, <1>4 DEF Answer, Rows
<1>. QED BY <1>2, <1>5, <1>6 DEF TypeOK

\* A chat turn's step keeps the types.
LEMMA ChatTypes ==
  ASSUME Inv, NEW t \in Turns, Chat(t)
  PROVE  TypeOK'
<1>. USE DEF Inv
<1>1. CASE BeginTurn(t)
  <2>. PICK c \in Conversations :
         /\ turn' = [turn EXCEPT ![t] = "planning"]
         /\ topic' = [topic EXCEPT ![t] = c]
         /\ offered' = [offered EXCEPT ![t] = Linked(owner[c])]
    BY <1>1 DEF BeginTurn
  <2>1. Linked(owner[c]) \in SUBSET Uploads
    BY DEF Linked
  <2>. QED BY <1>1, <2>1 DEF BeginTurn, TypeOK, people, docs, uploads
<1>2. CASE PlanAnswer(t)
  <2>1. PICK s \in SUBSET Uploads : got' = [got EXCEPT ![t] = s]
    BY <1>2 DEF PlanAnswer, Retrievable, Linked
  <2>. QED BY <1>2, <2>1 DEF PlanAnswer, TypeOK, people, docs, uploads
<1>3. ASSUME Running(t), NEW retrieved \in SUBSET Uploads,
             NEW drafted \in SUBSET Uploads, NEW text \in DraftTexts,
             StoreTurn(t, retrieved, drafted, text)
      PROVE  msgs' \subseteq Rows
  <2>1. topic[t] \in Conversations
    BY <1>3 DEF TurnInv
  <2>2. PICK n \in Nat : Numbered(topic[t], n)
    BY <2>1 DEF MsgInv
  <2>. QED BY <1>3, <2>1, <2>2, StoredRows
<1>4. CASE PlanRefusal(t)
  <2>1. msgs' \subseteq Rows
    BY <1>3, <1>4 DEF PlanRefusal, Running, DraftTexts
  <2>. QED BY <1>4, <2>1 DEF PlanRefusal, TypeOK, people, docs, uploads
<1>5. CASE DraftAnswer(t)
  <2>1. got[t] \in SUBSET Uploads
    BY DEF TypeOK
  <2>2. msgs' \subseteq Rows
    BY <1>3, <1>5, <2>1 DEF DraftAnswer, Running
  <2>. QED BY <1>5, <2>2 DEF DraftAnswer, TypeOK, people, docs, uploads
<1>6. CASE FailTurn(t)
  BY <1>6 DEF FailTurn, TypeOK, people, docs, uploads
<1>. QED BY <1>1, <1>2, <1>4, <1>5, <1>6 DEF Chat

LEMMA RestartTypes == TypeOK /\ Restart => TypeOK'
BY DEF Restart, TypeOK, people, docs

-----------------------------------------------------------------------------
(* Personas                                                                *)

\* Only a commit on rag_personas touches them, and the constraint judges it.
LEMMA PeopleStep ==
  ASSUME TypeOK, PeopleInv, [Next]_vars
  PROVE  PeopleInv'
<1>1. ASSUME UNCHANGED <<name, active>>
      PROVE  PeopleInv'
  BY <1>1 DEF PeopleInv, NamesAreUnique
<1>2. ASSUME NEW nm \in [Personas -> Names \union {None}],
             NEW act \in [Personas -> BOOLEAN], SavePersonas(nm, act),
             \A p \in Personas : act[p] => nm[p] # None
      PROVE  PeopleInv'
  <2>1. CASE NamesAreUnique(nm, act)
    <3>1. name' = nm /\ active' = act
      BY <1>2, <2>1 DEF SavePersonas
    <3>. QED BY <1>2, <2>1, <3>1 DEF PeopleInv, NamesAreUnique
  <2>2. CASE ~ NamesAreUnique(nm, act)
    BY <1>1, <1>2, <2>2 DEF SavePersonas
  <2>. QED BY <2>1, <2>2
<1>3. None \notin Names
  BY RagAssumption
<1>4. ASSUME NEW k \in Calls, CommitCreate(k)
      PROVE  PeopleInv'
  <2>. PICK p \in Personas : SavePersonas([name EXCEPT ![p] = call[k].name],
                                          [active EXCEPT ![p] = TRUE])
    BY <1>4 DEF CommitCreate
  <2>1. call[k].name \in Names
    BY <1>4, RequestShapes DEF CommitCreate
  <2>2. /\ [name EXCEPT ![p] = call[k].name] \in [Personas -> Names \union {None}]
        /\ [active EXCEPT ![p] = TRUE] \in [Personas -> BOOLEAN]
    BY <2>1 DEF TypeOK
  <2>3. \A q \in Personas : [active EXCEPT ![p] = TRUE][q]
                              => [name EXCEPT ![p] = call[k].name][q] # None
    BY <1>3, <2>1 DEF TypeOK, PeopleInv
  <2>. QED BY <1>2, <2>2, <2>3
<1>5. ASSUME NEW k \in Calls, CommitUpdate(k)
      PROVE  PeopleInv'
  <2>1. call[k].name \in Names /\ call[k].persona \in Personas
    BY <1>5, RequestShapes DEF CommitUpdate
  <2>2. /\ [name EXCEPT ![call[k].persona] = call[k].name]
             \in [Personas -> Names \union {None}]
        /\ active \in [Personas -> BOOLEAN]
    BY <2>1 DEF TypeOK
  <2>3. \A q \in Personas : active[q]
          => [name EXCEPT ![call[k].persona] = call[k].name][q] # None
    BY <1>3, <2>1 DEF TypeOK, PeopleInv
  <2>. QED BY <1>2, <1>5, <2>2, <2>3 DEF CommitUpdate
<1>6. ASSUME NEW k \in Calls, CommitDelete(k)
      PROVE  PeopleInv'
  <2>1. /\ name \in [Personas -> Names \union {None}]
        /\ [active EXCEPT ![call[k].persona] = FALSE] \in [Personas -> BOOLEAN]
    BY DEF TypeOK
  <2>2. \A q \in Personas : [active EXCEPT ![call[k].persona] = FALSE][q]
                              => name[q] # None
    BY DEF TypeOK, PeopleInv
  <2>. QED BY <1>2, <1>6, <2>1, <2>2 DEF CommitDelete
<1>7. ASSUME NEW k \in Calls, Handle(k)
      PROVE  PeopleInv'
  BY <1>1, <1>4, <1>5, <1>6, <1>7
     DEF Handle, CheckCreate, CheckUpdate, CheckDelete, CheckConversation,
         CheckUnlink, CheckRequest, CommitConversation, CommitUnlink, people
<1>8. ASSUME NEW u \in Uploads, Ingest(u)
      PROVE  UNCHANGED people
  BY <1>8 DEF Ingest, BeginUpload, FailUpload, StoreDocument, LinkStored,
              LinkReused, LinkDocument
<1>9. ASSUME NEW t \in Turns, Chat(t)
      PROVE  UNCHANGED people
  BY <1>9 DEF Chat, BeginTurn, PlanAnswer, PlanRefusal, DraftAnswer, FailTurn
<1>. QED BY <1>1, <1>7, <1>8, <1>9 DEF Next, Restart, vars, people

\* A deleted persona stays: commits change its name, never revive it.
LEMMA DeletionStep ==
  ASSUME TypeOK, [Next]_vars, NEW p \in Personas, name[p] # None, ~ active[p]
  PROVE  ~ active'[p] /\ name'[p] # None
<1>1. None \notin Names
  BY RagAssumption
<1>2. ASSUME NEW k \in Calls, CommitCreate(k)
      PROVE  ~ active'[p] /\ name'[p] # None
  <2>. PICK q \in Personas :
         /\ name[q] = None
         /\ SavePersonas([name EXCEPT ![q] = call[k].name],
                         [active EXCEPT ![q] = TRUE])
    BY <1>2 DEF CommitCreate
  <2>. QED BY DEF SavePersonas, TypeOK
<1>3. ASSUME NEW k \in Calls, CommitUpdate(k)
      PROVE  ~ active'[p] /\ name'[p] # None
  <2>1. call[k].name \in Names
    BY <1>3, RequestShapes DEF CommitUpdate
  <2>2. [name EXCEPT ![call[k].persona] = call[k].name][p] # None
    BY <1>1, <2>1 DEF TypeOK
  <2>. QED BY <1>3, <2>2 DEF CommitUpdate, SavePersonas
<1>4. ASSUME NEW k \in Calls, CommitDelete(k)
      PROVE  ~ active'[p] /\ name'[p] # None
  BY <1>4 DEF CommitDelete, SavePersonas, TypeOK
<1>5. ASSUME NEW k \in Calls, Handle(k)
      PROVE  ~ active'[p] /\ name'[p] # None
  BY <1>2, <1>3, <1>4, <1>5
     DEF Handle, CheckCreate, CheckUpdate, CheckDelete, CheckConversation,
         CheckUnlink, CheckRequest, CommitConversation, CommitUnlink, people
<1>6. ASSUME NEW u \in Uploads, Ingest(u)
      PROVE  UNCHANGED people
  BY <1>6 DEF Ingest, BeginUpload, FailUpload, StoreDocument, LinkStored,
              LinkReused, LinkDocument
<1>7. ASSUME NEW t \in Turns, Chat(t)
      PROVE  UNCHANGED people
  BY <1>7 DEF Chat, BeginTurn, PlanAnswer, PlanRefusal, DraftAnswer, FailTurn
<1>. QED BY <1>5, <1>6, <1>7 DEF Next, Restart, vars, people

-----------------------------------------------------------------------------
(* Uploads                                                                 *)

LEMMA UploadStep ==
  ASSUME TypeOK, UploadInv, [Next]_vars
  PROVE  UploadInv'
<1>1. ASSUME UNCHANGED <<content, uploads>>
      PROVE  UploadInv'
  BY <1>1 DEF UploadInv, NoTwinUploads, uploads
<1>2. ASSUME NEW u \in Uploads, BeginUpload(u)
      PROVE  UploadInv'
  <2>1. /\ content' = content /\ content[u] = None
        /\ \A v \in Uploads \ {u} : target'[v] = target[v] /\ upload'[v] = upload[v]
        /\ upload'[u] = "reading"
    BY <1>2 DEF BeginUpload, UploadInv, TypeOK, docs
  <2>. QED BY <2>1 DEF UploadInv, NoTwinUploads
<1>3. ASSUME NEW u \in Uploads, UNCHANGED <<content, target>>,
             upload' = [upload EXCEPT ![u] = "over"]
      PROVE  UploadInv'
  <2>1. \A v \in Uploads : upload'[v] = IF v = u THEN "over" ELSE upload[v]
    BY <1>3 DEF TypeOK
  <2>. QED BY <1>3, <2>1 DEF UploadInv, NoTwinUploads
<1>4. ASSUME NEW u \in Uploads, StoreDocument(u)
      PROVE  UploadInv'
  <2>. PICK x \in Contents :
         /\ target[u] # None => WithContent(x) = {}
         /\ content' = [content EXCEPT ![u] = x]
    BY <1>4 DEF StoreDocument
  <2>1. /\ \A v \in Uploads : content'[v] = IF v = u THEN x ELSE content[v]
        /\ \A v \in Uploads \ {u} : upload'[v] = upload[v]
        /\ upload'[u] = IF target[u] = None THEN "over" ELSE "stored"
        /\ target' = target
    BY <1>4 DEF StoreDocument, TypeOK
  <2>2. target[u] # None => \A v \in Uploads : content[v] # x
    BY DEF WithContent
  <2>3. NoTwinUploads'
    BY <2>1, <2>2 DEF UploadInv, NoTwinUploads
  <2>4. \A v \in Uploads :
          /\ upload'[v] \in {"new", "reading"} => content'[v] = None
          /\ upload'[v] = "stored" => target'[v] # None
    BY <2>1 DEF UploadInv
  <2>. QED BY <2>3, <2>4 DEF UploadInv
<1>5. ASSUME NEW u \in Uploads, Ingest(u)
      PROVE  UploadInv'
  BY <1>2, <1>3, <1>4, <1>5 DEF Ingest, FailUpload, LinkStored, LinkReused,
                                LinkDocument, docs
<1>6. CASE Restart
  <2>1. /\ \A v \in Uploads : upload'[v] \in {"new", "over"}
        /\ \A v \in Uploads : upload'[v] = "new" => upload[v] = "new"
        /\ UNCHANGED <<content, target>>
    BY <1>6 DEF Restart, docs
  <2>. QED BY <2>1 DEF UploadInv, NoTwinUploads
<1>7. ASSUME NEW k \in Calls, Handle(k)
      PROVE  UploadInv'
  BY <1>1, <1>7
     DEF Handle, CheckCreate, CheckUpdate, CheckDelete, CheckConversation,
         CheckUnlink, CheckRequest, CommitCreate, CommitUpdate, CommitDelete,
         CommitConversation, CommitUnlink, docs
<1>8. ASSUME NEW t \in Turns, Chat(t)
      PROVE  UploadInv'
  BY <1>1, <1>8 DEF Chat, BeginTurn, PlanAnswer, PlanRefusal, DraftAnswer,
                    FailTurn, docs
<1>. QED BY <1>1, <1>5, <1>6, <1>7, <1>8 DEF Next, vars, docs

-----------------------------------------------------------------------------
(* Turns                                                                   *)

\* A worker thread gives no running turn another persona or document.
LEMMA HandleKeepsTurns ==
  ASSUME TypeOK, TurnInv, NEW k \in Calls, Handle(k)
  PROVE  TurnInv'
<1>1. UNCHANGED <<turns, offered>>
  BY DEF Handle, CheckCreate, CheckUpdate, CheckDelete, CheckConversation,
         CheckUnlink, CheckRequest, CommitCreate, CommitUpdate, CommitDelete,
         CommitConversation, CommitUnlink
<1>2. links' \subseteq links
  BY DEF Handle, CheckCreate, CheckUpdate, CheckDelete, CheckConversation,
         CheckUnlink, CheckRequest, CommitCreate, CommitUpdate, CommitDelete,
         CommitConversation, CommitUnlink, docs
<1>3. \A c \in Conversations : owner[c] \in Personas => owner'[c] = owner[c]
  <2>1. CASE UNCHANGED owner
    BY <2>1
  <2>2. CASE CommitConversation(k)
    BY <2>2, RagAssumption DEF CommitConversation, TypeOK
  <2>. QED BY <2>1, <2>2
    DEF Handle, CheckCreate, CheckUpdate, CheckDelete, CheckConversation,
        CheckUnlink, CheckRequest, CommitCreate, CommitUpdate, CommitDelete,
        CommitUnlink, people
<1>4. \A t \in Turns : turn'[t] = turn[t] /\ topic'[t] = topic[t]
                         /\ got'[t] = got[t] /\ offered'[t] = offered[t]
  BY <1>1 DEF turns
<1>5. \A p \in Personas : {d \in Uploads : <<p, d>> \in links'} \subseteq Linked(p)
  BY <1>2 DEF Linked
<1>. QED BY <1>3, <1>4, <1>5 DEF TurnInv, Running, Linked

\* A document linked to a persona is offered to its running turns.
LEMMA LinkKeepsTurns ==
  ASSUME TypeOK, TurnInv, NEW u \in Uploads, NEW d \in Uploads,
         LinkDocument(u, d)
  PROVE  TurnInv'
<1>1. /\ turn' = turn /\ topic' = topic /\ got' = got /\ owner' = owner
      /\ links' = links \union {<<target[u], d>>}
  BY DEF LinkDocument, Link, turns, people
<1>2. \A t \in Turns :
        offered'[t] = IF Running(t) /\ owner[topic[t]] = target[u]
                      THEN offered[t] \union {d} ELSE offered[t]
  BY DEF LinkDocument, Link, TurnsWith
<1>3. \A p \in Personas :
        {e \in Uploads : <<p, e>> \in links'}
          = IF p = target[u] THEN Linked(p) \union {d} ELSE Linked(p)
  BY <1>1 DEF Linked
<1>. SUFFICES ASSUME NEW t \in Turns, Running(t)
              PROVE  /\ topic[t] \in Conversations
                     /\ owner[topic[t]] \in Personas
                     /\ {e \in Uploads : <<owner[topic[t]], e>> \in links'}
                          \subseteq offered'[t]
                     /\ got[t] \subseteq offered'[t]
  BY <1>1 DEF TurnInv, Running, Linked
<1>4. /\ topic[t] \in Conversations /\ owner[topic[t]] \in Personas
      /\ Linked(owner[topic[t]]) \subseteq offered[t] /\ got[t] \subseteq offered[t]
  BY DEF TurnInv
<1>. QED BY <1>2, <1>3, <1>4

\* What a turn's own step leaves to the other turns.
LEMMA ChatKeepsTurns ==
  ASSUME TypeOK, TurnInv, NEW t \in Turns, Chat(t)
  PROVE  TurnInv'
<1>. DEFINE Good(s) ==
       /\ turn'[s] = "new" => got'[s] = {}
       /\ turn'[s] \in {"planning", "drafting"} =>
            /\ topic'[s] \in Conversations
            /\ owner[topic'[s]] \in Personas
            /\ Linked(owner[topic'[s]]) \subseteq offered'[s]
            /\ got'[s] \subseteq offered'[s]
<1>1. owner' = owner /\ links' = links
  BY DEF Chat, BeginTurn, PlanAnswer, PlanRefusal, DraftAnswer, FailTurn,
         people, docs
<1>2. \A s \in Turns \ {t} : /\ turn'[s] = turn[s] /\ topic'[s] = topic[s]
                             /\ got'[s] = got[s] /\ offered'[s] = offered[s]
  BY DEF Chat, BeginTurn, PlanAnswer, PlanRefusal, DraftAnswer, FailTurn, TypeOK
<1>3. \A s \in Turns \ {t} : Good(s)
  BY <1>2 DEF TurnInv, Running
<1>4. Good(t)
  <2>1. CASE BeginTurn(t)
    <3>. PICK c \in Conversations :
           /\ turn[t] = "new" /\ owner[c] # None
           /\ turn' = [turn EXCEPT ![t] = "planning"]
           /\ topic' = [topic EXCEPT ![t] = c]
           /\ offered' = [offered EXCEPT ![t] = Linked(owner[c])]
           /\ got' = got
      BY <2>1 DEF BeginTurn
    <3>1. turn'[t] = "planning" /\ topic'[t] = c /\ offered'[t] = Linked(owner[c])
      BY DEF TypeOK
    <3>2. got'[t] = {} /\ owner[c] \in Personas
      BY DEF TypeOK, TurnInv
    <3>. QED BY <3>1, <3>2
  <2>2. CASE PlanAnswer(t)
    <3>. PICK s \in Retrievable(owner[topic[t]]) \union {{}} :
           got' = [got EXCEPT ![t] = s]
      BY <2>2 DEF PlanAnswer
    <3>1. /\ turn[t] = "planning" /\ turn'[t] = "drafting"
          /\ topic' = topic /\ offered' = offered
      BY <2>2 DEF PlanAnswer, TypeOK
    <3>2. got'[t] = s /\ s \subseteq Linked(owner[topic[t]])
      BY DEF TypeOK, Retrievable
    <3>. QED BY <3>1, <3>2 DEF TurnInv, Running
  <2>3. CASE PlanRefusal(t) \/ DraftAnswer(t) \/ FailTurn(t)
    <3>1. turn'[t] = "over"
      BY <2>3 DEF PlanRefusal, DraftAnswer, FailTurn, TypeOK
    <3>. QED BY <3>1
  <2>. QED BY <2>1, <2>2, <2>3 DEF Chat
<1>5. \A s \in Turns : Good(s)
  BY <1>3, <1>4
<1>. QED BY <1>1, <1>5 DEF TurnInv, Running, Linked

LEMMA TurnStep ==
  ASSUME Inv, [Next]_vars
  PROVE  TurnInv'
<1>. USE DEF Inv
<1>1. ASSUME UNCHANGED <<people, links, turns, offered>>
      PROVE  TurnInv'
  BY <1>1 DEF TurnInv, Running, Linked, people, turns
<1>2. ASSUME NEW u \in Uploads, Ingest(u)
      PROVE  TurnInv'
  <2>1. CASE BeginUpload(u) \/ FailUpload(u) \/ StoreDocument(u)
    BY <1>1, <2>1 DEF BeginUpload, FailUpload, StoreDocument, docs
  <2>2. CASE LinkStored(u)
    BY <2>2, LinkKeepsTurns DEF LinkStored
  <2>3. CASE LinkReused(u)
    BY <2>3, LinkKeepsTurns DEF LinkReused, WithContent
  <2>. QED BY <1>2, <2>1, <2>2, <2>3 DEF Ingest
<1>3. CASE Restart
  <2>1. \A t \in Turns : turn'[t] = IF turn[t] = "new" THEN "new" ELSE "over"
    BY <1>3 DEF Restart
  <2>2. got' = got
    BY <1>3 DEF Restart
  <2>. QED BY <2>1, <2>2 DEF TurnInv, Running
<1>4. CASE UNCHANGED vars
  BY <1>1, <1>4 DEF vars, docs
<1>. QED BY <1>2, <1>3, <1>4, HandleKeepsTurns, ChatKeepsTurns DEF Next

-----------------------------------------------------------------------------
(* Messages                                                                *)

\* Steps that store no message only let offers grow and turns end.
LEMMA NothingSaid ==
  ASSUME MsgInv, TypeOK, msgs' = msgs,
         \A t \in Turns : turn[t] = "over" => /\ turn'[t] = "over"
                                              /\ offered[t] \subseteq offered'[t]
  PROVE  MsgInv'
<1>1. \A m \in msgs : m.of \in Turns
  BY DEF TypeOK, Rows
<1>2. CitationsAreGrounded'
  BY <1>1 DEF MsgInv, CitationsAreGrounded
<1>3. TurnsAreContiguous'
  BY DEF MsgInv, TurnsAreContiguous, MessagesOf
<1>4. \A c \in Conversations : \E n \in Nat : Numbered(c, n)'
  BY DEF MsgInv, Numbered, MessagesOf
<1>. QED BY <1>1, <1>2, <1>3, <1>4 DEF MsgInv

\* A turn that stores adds the next pair.
LEMMA PairSaid ==
  ASSUME Inv, NEW t \in Turns, Running(t),
         NEW retrieved \in SUBSET Uploads, NEW drafted \in SUBSET Uploads,
         NEW text \in DraftTexts,
         retrieved \subseteq offered[t], StoreTurn(t, retrieved, drafted, text),
         turn' = [turn EXCEPT ![t] = "over"], offered' = offered
  PROVE  MsgInv'
<1>. USE DEF Inv
<1>. DEFINE c == topic[t]
<1>1. c \in Conversations
  BY DEF TurnInv
<1>. PICK n \in Nat : Numbered(c, n)
  BY <1>1 DEF MsgInv
<1>. DEFINE a == Question(t, 2 * n)
            b == Answer(t, 2 * n, retrieved, drafted, text)
<1>2. msgs' = msgs \union {a, b} /\ a \in Rows /\ b \in Rows
  BY <1>1, StoredRows
<1>3. /\ a.conv = c /\ a.index = 2 * n /\ a.role = "user" /\ a.of = t
      /\ a.retrieved = {} /\ a.cites = {} /\ a.text = "written"
      /\ b.conv = c /\ b.index = (2 * n) + 1 /\ b.role = "assistant"
      /\ b.of = t /\ b.retrieved = retrieved /\ b.text = text
      /\ b.cites = Cited(retrieved, drafted, text)
  BY DEF Question, Answer
<1>4. \A m \in msgs : /\ m.of \in Turns /\ m.conv \in Conversations
                      /\ m.index \in Nat
  BY DEF TypeOK, Rows
<1>5. \A m \in msgs : m.conv = c => m.index < 2 * n
  BY DEF Numbered, MessagesOf
<1>. HIDE DEF a, b
<1>6. CitationsAreGrounded'
  <2>1. Cited(retrieved, drafted, text) \subseteq retrieved
    BY DEF Cited
  <2>2. retrieved # {} /\ text # "blank" => Cited(retrieved, drafted, text) # {}
    BY DEF Cited
  <2>. QED BY <1>2, <1>3, <2>1, <2>2 DEF MsgInv, CitationsAreGrounded
<1>7. \A m \in msgs' : turn'[m.of] = "over"
  <2>1. \A s \in Turns : turn[s] = "over" \/ s = t => turn'[s] = "over"
    BY DEF TypeOK
  <2>. QED BY <1>2, <1>3, <1>4, <2>1 DEF MsgInv
<1>8. ASSUME NEW e \in Conversations
      PROVE  {m \in msgs' : m.conv = e}
               = IF e = c THEN MessagesOf(e) \union {a, b} ELSE MessagesOf(e)
  BY <1>2, <1>3 DEF MessagesOf
<1>9. \A e \in Conversations : \E l \in Nat : Numbered(e, l)'
  <2>. TAKE e \in Conversations
  <2>1. CASE e = c
    <3>1. {m \in msgs' : m.conv = e} = MessagesOf(c) \union {a, b}
      BY <1>8, <2>1
    <3>2. \A m \in {q \in msgs' : q.conv = e} : m.index < 2 * (n + 1)
      BY <3>1, <1>3, <1>4, <1>5 DEF MessagesOf
    <3>3. \A i \in 0 .. (2 * (n + 1)) - 1 :
            \E m \in {q \in msgs' : q.conv = e} : m.index = i
      <4>. SUFFICES ASSUME NEW i \in 0 .. (2 * (n + 1)) - 1
                    PROVE  \E m \in MessagesOf(c) \union {a, b} : m.index = i
        BY <3>1
      <4>1. CASE i \in 0 .. (2 * n) - 1
        BY <4>1 DEF Numbered
      <4>2. CASE i = 2 * n
        BY <4>2, <1>3
      <4>3. CASE i = (2 * n) + 1
        BY <4>3, <1>3
      <4>. QED BY <4>1, <4>2, <4>3
    <3>4. n + 1 \in Nat
      OBVIOUS
    <3>. QED BY <3>2, <3>3, <3>4 DEF Numbered, MessagesOf
  <2>2. CASE e # c
    <3>1. {m \in msgs' : m.conv = e} = MessagesOf(e)
      BY <1>8, <2>2
    <3>2. PICK l \in Nat : Numbered(e, l)
      BY DEF MsgInv
    <3>. QED BY <3>1, <3>2 DEF Numbered, MessagesOf
  <2>. QED BY <2>1, <2>2
<1>10. TurnsAreContiguous'
  <2>. DEFINE Fits(m, row) ==
         /\ \A q \in row : q.index = m.index => q = m
         /\ \A i \in 0 .. m.index : \E q \in row : q.index = i
         /\ (m.role = "user") <=> (m.index % 2 = 0)
         /\ m.role = "user" =>
              \E q \in row : q.index = m.index + 1 /\ q.of = m.of
  <2>1. \A m \in msgs : Fits(m, MessagesOf(m.conv))
    BY DEF MsgInv, TurnsAreContiguous
  <2>2. \A m \in msgs : m.conv = c => Fits(m, MessagesOf(c) \union {a, b})
    <3>. SUFFICES ASSUME NEW m \in msgs, m.conv = c
                  PROVE  Fits(m, MessagesOf(c) \union {a, b})
      OBVIOUS
    <3>1. Fits(m, MessagesOf(c))
      BY <2>1
    <3>2. a.index # m.index /\ b.index # m.index
      BY <1>3, <1>4, <1>5
    <3>. QED BY <3>1, <3>2
  <2>3. \A i \in 0 .. (2 * n) - 1 : \E q \in MessagesOf(c) : q.index = i
    BY DEF Numbered
  <2>4. Fits(a, MessagesOf(c) \union {a, b})
    <3>1. \A q \in MessagesOf(c) \union {a, b} : q.index = a.index => q = a
      BY <1>3, <1>4, <1>5 DEF MessagesOf
    <3>2. \A i \in 0 .. a.index :
            \E q \in MessagesOf(c) \union {a, b} : q.index = i
      BY <1>3, <2>3
    <3>3. a.index % 2 = 0 /\ a.role = "user"
      BY <1>3
    <3>4. b.index = a.index + 1 /\ b.of = a.of
      BY <1>3
    <3>. QED BY <3>1, <3>2, <3>3, <3>4
  <2>5. Fits(b, MessagesOf(c) \union {a, b})
    <3>1. \A q \in MessagesOf(c) \union {a, b} : q.index = b.index => q = b
      BY <1>3, <1>4, <1>5 DEF MessagesOf
    <3>2. \A i \in 0 .. b.index :
            \E q \in MessagesOf(c) \union {a, b} : q.index = i
      BY <1>3, <2>3
    <3>3. b.index % 2 = 1 /\ b.role # "user"
      BY <1>3
    <3>. QED BY <3>1, <3>2, <3>3
  <2>6. ASSUME NEW m \in msgs'
        PROVE  Fits(m, {q \in msgs' : q.conv = m.conv})
    <3>1. CASE m.conv = c
      <4>1. {q \in msgs' : q.conv = m.conv} = MessagesOf(c) \union {a, b}
        BY <1>1, <1>8, <3>1
      <4>2. m \in msgs \/ m = a \/ m = b
        BY <1>2
      <4>3. Fits(m, MessagesOf(c) \union {a, b})
        BY <2>2, <2>4, <2>5, <3>1, <4>2
      <4>. QED BY <4>1, <4>3
    <3>2. CASE m.conv # c
      <4>1. m \in msgs
        BY <1>2, <1>3, <3>2
      <4>2. {q \in msgs' : q.conv = m.conv} = MessagesOf(m.conv)
        BY <1>4, <1>8, <3>2, <4>1
      <4>. QED BY <2>1, <4>1, <4>2
    <3>. QED BY <3>1, <3>2
  <2>. QED BY <2>6 DEF TurnsAreContiguous, MessagesOf
<1>. QED BY <1>6, <1>7, <1>9, <1>10 DEF MsgInv

LEMMA MsgStep ==
  ASSUME Inv, [Next]_vars
  PROVE  MsgInv'
<1>. USE DEF Inv
<1>1. ASSUME UNCHANGED <<msgs, turn, offered>>
      PROVE  MsgInv'
  BY <1>1, NothingSaid
<1>2. ASSUME NEW k \in Calls, Handle(k)
      PROVE  UNCHANGED <<msgs, turn, offered>>
  BY <1>2
     DEF Handle, CheckCreate, CheckUpdate, CheckDelete, CheckConversation,
         CheckUnlink, CheckRequest, CommitCreate, CommitUpdate, CommitDelete,
         CommitConversation, CommitUnlink, turns
<1>3. ASSUME NEW u \in Uploads, Ingest(u)
      PROVE  MsgInv'
  <2>1. CASE BeginUpload(u) \/ FailUpload(u) \/ StoreDocument(u)
    BY <1>1, <2>1 DEF BeginUpload, FailUpload, StoreDocument, turns
  <2>2. ASSUME NEW d \in Uploads, LinkDocument(u, d)
        PROVE  MsgInv'
    <3>1. /\ msgs' = msgs /\ turn' = turn
          /\ \A s \in Turns : offered[s] \subseteq offered'[s]
      BY <2>2 DEF LinkDocument, Link, turns
    <3>. QED BY <3>1, NothingSaid
  <2>. QED BY <1>3, <2>1, <2>2 DEF Ingest, LinkStored, LinkReused, WithContent
<1>4. ASSUME NEW t \in Turns, Chat(t)
      PROVE  MsgInv'
  <2>1. CASE BeginTurn(t) \/ PlanAnswer(t) \/ FailTurn(t)
    <3>1. /\ msgs' = msgs /\ turn[t] # "over"
          /\ \A s \in Turns \ {t} : turn'[s] = turn[s] /\ offered'[s] = offered[s]
      BY <2>1 DEF BeginTurn, PlanAnswer, FailTurn, Running, TypeOK
    <3>. QED BY <3>1, NothingSaid
  <2>2. CASE PlanRefusal(t)
    <3>1. {} \in SUBSET Uploads /\ {} \subseteq offered[t]
      OBVIOUS
    <3>. QED BY <2>2, <3>1, PairSaid DEF PlanRefusal, Running, DraftTexts
  <2>3. CASE DraftAnswer(t)
    <3>1. got[t] \in SUBSET Uploads
      BY DEF TypeOK
    <3>2. Running(t) /\ got[t] \subseteq offered[t]
      BY <2>3 DEF DraftAnswer, Running, TurnInv
    <3>. QED BY <2>3, <3>1, <3>2, PairSaid DEF DraftAnswer
  <2>. QED BY <1>4, <2>1, <2>2, <2>3 DEF Chat
<1>5. CASE Restart
  BY <1>5, NothingSaid DEF Restart
<1>6. CASE UNCHANGED vars
  BY <1>1, <1>6 DEF vars, turns
<1>. QED BY <1>1, <1>2, <1>3, <1>4, <1>5, <1>6 DEF Next

-----------------------------------------------------------------------------
(* Theorems                                                                *)

LEMMA InitInv == Init => Inv
<1>. SUFFICES ASSUME Init PROVE Inv
  OBVIOUS
<1>1. TypeOK
  BY InitTypes
<1>2. PeopleInv
  BY DEF Init, PeopleInv, NamesAreUnique
<1>3. UploadInv
  BY DEF Init, UploadInv, NoTwinUploads
<1>4. TurnInv
  BY DEF Init, TurnInv, Running
<1>5. MsgInv
  <2>1. CitationsAreGrounded /\ TurnsAreContiguous
    BY DEF Init, CitationsAreGrounded, TurnsAreContiguous
  <2>2. \A c \in Conversations : Numbered(c, 0)
    BY DEF Init, Numbered, MessagesOf
  <2>3. \A m \in msgs : turn[m.of] = "over"
    BY DEF Init
  <2>. QED BY <2>1, <2>2, <2>3 DEF MsgInv
<1>. QED BY <1>1, <1>2, <1>3, <1>4, <1>5 DEF Inv

LEMMA TypeStep ==
  ASSUME Inv, [Next]_vars
  PROVE  TypeOK'
<1>1. CASE UNCHANGED vars
  BY <1>1 DEF Inv, TypeOK, vars, people, docs, uploads, turns
<1>. QED BY <1>1, HandleTypes, IngestTypes, ChatTypes, RestartTypes DEF Inv, Next

(***************************************************************************)
(* The invariant of the store (routes/rag.py): types, names, uploads,      *)
(* running turns and stored messages, for any number of each.              *)
(***************************************************************************)
THEOREM SpecInv == Spec => []Inv
<1>1. ASSUME Inv, [Next]_vars PROVE Inv'
  <2>1. TypeOK'
    BY <1>1, TypeStep
  <2>2. PeopleInv' /\ UploadInv'
    BY <1>1, PeopleStep, UploadStep DEF Inv
  <2>3. TurnInv' /\ MsgInv'
    BY <1>1, TurnStep, MsgStep
  <2>. QED BY <2>1, <2>2, <2>3 DEF Inv
<1>. QED BY <1>1, InitInv, PTL DEF Spec

\* The tables of models/rag.py and the handlers' states keep their types.
THEOREM TypeCorrect == Spec => []TypeOK
<1>1. Inv => TypeOK
  BY DEF Inv
<1>. QED BY <1>1, SpecInv, PTL

\* The turns of a conversation are numbered without gap or repetition
\* (routes/rag.py:531), however they overlap.
THEOREM ConversationsStayContiguous == Spec => []TurnsAreContiguous
<1>1. Inv => TurnsAreContiguous
  BY DEF Inv, MsgInv
<1>. QED BY <1>1, SpecInv, PTL

\* Answers cite what was linked to their persona while they were made and, unless
\* they are blank, some of what they were drafted from (routes/rag.py:640).
THEOREM CitationsStayGrounded == Spec => []CitationsAreGrounded
<1>1. Inv => CitationsAreGrounded
  BY DEF Inv, MsgInv
<1>. QED BY <1>1, SpecInv, PTL

\* Uploads to personas store a text once (routes/rag.py:730).
THEOREM UploadsStayTwinless == Spec => []NoTwinUploads
<1>1. Inv => NoTwinUploads
  BY DEF Inv, UploadInv
<1>. QED BY <1>1, SpecInv, PTL

\* Active personas keep different names (routes/rag.py:238).
THEOREM NamesStayUnique == Spec => []ActiveNamesAreUnique
<1>1. Inv => ActiveNamesAreUnique
  BY DEF Inv, PeopleInv, NamesAreUnique, ActiveNamesAreUnique
<1>. QED BY <1>1, SpecInv, PTL

\* No step brings a deleted persona back (routes/rag.py:350).
THEOREM DeletionsHold == Spec => DeletionIsFinal
<1>1. ASSUME Inv, [Next]_vars
      PROVE  [\A p \in Personas :
                name[p] # None /\ ~ active[p]
                  => ~ active'[p] /\ name'[p] # None]_vars
  BY <1>1, DeletionStep DEF Inv
<1>. QED BY <1>1, SpecInv, PTL DEF Spec, DeletionIsFinal

-----------------------------------------------------------------------------
(* Splitting: the inductive invariant                                      *)

Retrieval == phase \notin {"artifact", "chunked"}

\* The positions from .. to of section k, beginning and ending with a character
\* that is not a space.
IsPlaced(k, from, to) ==
  /\ k \in 1 .. section
  /\ from \in 1 .. to /\ to \in 1 .. Len(SectionText(k))
  /\ SectionText(k)[from] # Space /\ SectionText(k)[to] # Space

IsPiece(c) == IsPlaced(c.section, c.from, c.to) /\ Length(c) <= doc.size

DocInv ==
  /\ doc.overlap < doc.size
  /\ Retrieval =>
       /\ phase # "idle" => MinSize <= doc.size
       /\ \A k \in DOMAIN doc.texts :
            SectionText(k) # <<>> => /\ SectionText(k)[1] # Space
                                     /\ SectionText(k)[Len(SectionText(k))] # Space

\* What is split is all of the section that was begun last, or the chunk at the
\* head of pending, which is longer than its pieces may be.
JobInv ==
  /\ job = NoJob => start = 0 /\ cut = <<>>
  /\ job # NoJob =>
       /\ phase \in {"cutting", "embedding", "artifact", "chunked"}
       /\ job.overlap < job.size
       /\ job.section \in 1 .. section
       /\ start \in job.from - 1 .. job.to
       /\ phase = "embedding" =>
            /\ pending # <<>>
            /\ job.section = Head(pending).section
            /\ job.from = Head(pending).from /\ job.to = Head(pending).to
            /\ job.size < Length(job) /\ job.size <= doc.size
       /\ phase # "embedding" =>
            /\ job.section = section
            /\ job.from = 1 /\ job.to = Len(SectionText(section))
            /\ job.size = doc.size

WindowEnd(s) == FindSplitPoint(SectionText(job.section), job.to, s,
                               Least(s + job.size, job.to))

\* What was cut off the job: all up to start, in chunks that advance and of which
\* the next is no step back.
CutInv ==
  job # NoJob /\ Retrieval =>
    /\ \A i \in DOMAIN cut :
         /\ cut[i].section = job.section /\ job.from <= cut[i].from
         /\ cut[i].to <= job.to /\ IsPlaced(job.section, cut[i].from, cut[i].to)
         /\ Length(cut[i]) <= job.size
    /\ \A p \in job.from .. start :
         SectionText(job.section)[p] # Space => Holds(cut, job.section, p)
    /\ Length(job) > job.size =>
         /\ cut = <<>> => start = job.from - 1
         /\ start = job.to => Len(cut) > 1
         /\ start < job.to /\ cut # <<>> =>
              /\ \A p \in start + 1 .. job.to :
                   SectionText(job.section)[p] # Space => cut[Len(cut)].from <= p
              /\ cut[Len(cut)].to <= Most(start, WindowEnd(start))

ArtifactInv ==
  ~ Retrieval =>
    /\ section = 1 /\ job # NoJob
    /\ phase = "chunked" => start = job.to
    /\ \A p \in 1 .. start : Holds(cut, 1, p)
    /\ cut # <<>> => /\ cut[Len(cut)].from <= start + 1
                     /\ cut[Len(cut)].to <= Least(job.to, start + job.size)

Pieces ==
  /\ \A i \in DOMAIN pending : IsPiece(pending[i])
  /\ \A i \in DOMAIN embedded : IsPiece(embedded[i])
                                /\ Length(embedded[i]) <= doc.limit

\* No character of a section that was split is missing.
NothingIsLost ==
  Retrieval =>
    \A k \in 1 .. section : \A p \in DOMAIN SectionText(k) :
      SectionText(k)[p] # Space =>
        \/ phase = "cutting" /\ job # NoJob /\ k = section
        \/ Holds(embedded, k, p) \/ Holds(pending, k, p)

PhaseInv ==
  /\ phase = "idle" => /\ job = NoJob /\ section = 0
  /\ phase \in {"idle", "cutting", "artifact"} => embedded = <<>>
  /\ phase \in {"idle", "artifact", "empty", "stored"} => pending = <<>>
  /\ phase = "empty" => embedded = <<>>
  /\ phase \in {"embedding", "stored", "empty"} => section = Len(doc.texts)
  /\ phase = "tooLong" => doc.limit < MinSize

ChunkInv ==
  /\ ChunkTypeOK /\ DocInv /\ JobInv /\ CutInv /\ ArtifactInv /\ Pieces
  /\ NothingIsLost /\ PhaseInv /\ CutsAdvance

-----------------------------------------------------------------------------
(* Sets of positions                                                       *)

\* A set of numbers that is not empty has a least element.
LEMMA LeastElement ==
  ASSUME NEW S, S \subseteq Nat, S # {}
  PROVE  Min(S) \in S /\ \A x \in S : Min(S) <= x
<1> DEFINE R == {ss \in Nat \X Nat : ss[1] < ss[2]}
<1>1. IsWellFoundedOn(R, Nat)
  BY NatLessThanWellFounded DEF OpToRel
<1>2. \A x, y \in Nat : <<x, y>> \in R <=> x < y
  OBVIOUS
<1> HIDE DEF R
<1>3. PICK x \in S : \A y \in S : ~ (<<y, x>> \in R)
  BY <1>1, WFMin
<1>4. \A y \in S : x <= y
  <2>1. SUFFICES ASSUME NEW y \in S PROVE x <= y
    OBVIOUS
  <2>2. x \in Nat /\ y \in Nat /\ ~ (y < x)
    BY <1>2, <1>3
  <2> QED  BY <2>2
<1>5. \E z \in S : \A y \in S : z =< y
  BY <1>4
<1> QED  BY ONLY <1>5, Zenon DEF Min

\* One that is bounded also has a greatest.
LEMMA GreatestElement ==
  ASSUME NEW n \in Nat, NEW S, S \subseteq 0 .. n, S # {}
  PROVE  Max(S) \in S /\ \A x \in S : x <= Max(S)
<1> DEFINE D == {n - x : x \in S}
<1>1. D \subseteq Nat /\ D # {}
  <2>1. \A x \in S : n - x \in Nat
    OBVIOUS
  <2> QED  BY <2>1
<1>2. Min(D) \in D /\ \A d \in D : Min(D) <= d
  BY <1>1, LeastElement
<1>3. PICK m \in S : Min(D) = n - m
  BY <1>2
<1>4. \A x \in S : n - x \in D
  OBVIOUS
<1> HIDE DEF D
<1>5. \A x \in S : x <= m
  BY <1>2, <1>3, <1>4
<1>6. \E z \in S : \A y \in S : z >= y
  BY <1>5
<1>7. Max(S) \in S /\ \A y \in S : Max(S) >= y
  BY ONLY <1>6, Zenon DEF Max
<1> QED  BY <1>7

-----------------------------------------------------------------------------
(* Windows                                                                 *)

\* The window that begins after start_ ends in it, and the last one at its end.
LEMMA SplitPointIsInWindow ==
  ASSUME NEW text, NEW to \in Nat, NEW start_ \in Nat, NEW hardEnd \in Nat,
         start_ < hardEnd
  PROVE  /\ FindSplitPoint(text, to, start_, hardEnd) \in start_ + 1 .. hardEnd
         /\ hardEnd >= to => FindSplitPoint(text, to, start_, hardEnd) = hardEnd
<1> DEFINE far    == start_ + Most(1, (hardEnd - start_) \div 2)
           stops  == {e \in far + 2 .. hardEnd : text[e - 1] = Stop /\ text[e] = Space}
           spaces == {e \in far + 1 .. hardEnd : text[e] = Space}
<1>1. far \in Nat /\ far >= start_ + 1
  BY DEF Most
<1>2. stops # {} => Max(stops) \in stops
  BY <1>1, GreatestElement, stops \subseteq 0 .. hardEnd
<1>3. spaces # {} => Max(spaces) \in spaces
  BY <1>1, GreatestElement, spaces \subseteq 0 .. hardEnd
<1> QED  BY <1>1, <1>2, <1>3 DEF FindSplitPoint

\* What a split point inside the text is: a break in the second half of the
\* window and the last of its kind, or the end of the window, without any.
SplitsAt(text, start_, half, end, e) ==
  LET IsStop(x)  == text[x - 1] = Stop /\ text[x] = Space
      IsSpace(x) == text[x] = Space
  IN \/ /\ e \in start_ + half + 2 .. end /\ IsStop(e)
        /\ \A x \in start_ + half + 2 .. end : IsStop(x) => x <= e
     \/ /\ e \in start_ + half + 1 .. end /\ IsSpace(e)
        /\ \A x \in start_ + half + 1 .. end : IsSpace(x) => x <= e
        /\ \A x \in start_ + half + 2 .. end : ~ IsStop(x)
     \/ /\ e = end
        /\ \A x \in start_ + half + 1 .. end : ~ IsSpace(x)

LEMMA SplitPointIsLast ==
  ASSUME NEW text, NEW to \in Nat, NEW start_ \in Nat, NEW size \in Nat \ {0},
         start_ + size < to
  PROVE  SplitsAt(text, start_, Most(1, size \div 2), start_ + size,
                  FindSplitPoint(text, to, start_, start_ + size))
<1> DEFINE far    == start_ + Most(1, (start_ + size - start_) \div 2)
           stops  == {x \in far + 2 .. start_ + size :
                        text[x - 1] = Stop /\ text[x] = Space}
           spaces == {x \in far + 1 .. start_ + size : text[x] = Space}
<1>1. start_ + size - start_ = size /\ start_ + size \in Nat
  OBVIOUS
<1>2. far \in Nat /\ far = start_ + Most(1, size \div 2)
  BY <1>1 DEF Most
<1>3. stops # {} => Max(stops) \in stops /\ \A x \in stops : x <= Max(stops)
  BY <1>1, <1>2, GreatestElement, stops \subseteq 0 .. start_ + size
<1>4. spaces # {} => Max(spaces) \in spaces /\ \A x \in spaces : x <= Max(spaces)
  BY <1>1, <1>2, GreatestElement, spaces \subseteq 0 .. start_ + size
<1>5. FindSplitPoint(text, to, start_, start_ + size)
        = IF stops # {} THEN Max(stops)
          ELSE IF spaces # {} THEN Max(spaces) ELSE start_ + size
  BY DEF FindSplitPoint
<1> HIDE DEF far
<1> QED  BY <1>2, <1>3, <1>4, <1>5 DEF SplitsAt

\* A later window of the same size does not end earlier, although it may begin
\* before the break where the first one ended.
LEMMA SplitPointsAdvance ==
  ASSUME NEW text, NEW to \in Nat, NEW size \in Nat \ {0},
         NEW s \in Nat, NEW t \in Nat, s < t, t < to,
         NEW d, d = FindSplitPoint(text, to, s, Least(s + size, to)), d < to,
         NEW e, e = FindSplitPoint(text, to, t, Least(t + size, to))
  PROVE  d <= e
<1>1. s + size < to /\ Least(s + size, to) = s + size
  BY SplitPointIsInWindow, s < Least(s + size, to) DEF Least
<1>2. CASE t + size >= to
  <2>1. e = to
    BY <1>2, SplitPointIsInWindow DEF Least
  <2> QED  BY <2>1, <1>1, SplitPointIsInWindow
<1>3. CASE t + size < to
  <2> DEFINE half == Most(1, size \div 2)
  <2>1. half \in 1 .. size
    BY DEF Most
  <2>2. Least(t + size, to) = t + size
    BY <1>3 DEF Least
  <2>3. d \in s + 1 .. s + size /\ e \in t + 1 .. t + size
    BY <1>1, <2>2, SplitPointIsInWindow
  <2>4. SplitsAt(text, s, half, s + size, d)
    BY <1>1, SplitPointIsLast
  <2>5. SplitsAt(text, t, half, t + size, e)
    BY <1>3, <2>2, SplitPointIsLast
  <2> HIDE DEF half
  <2> SUFFICES ASSUME e < d PROVE FALSE
    BY <2>3
  <2>6. e \in s + half + 1 .. s + size /\ text[e] = Space
    BY <2>1, <2>3, <2>5 DEF SplitsAt
  <2> QED  BY <2>1, <2>3, <2>4, <2>5, <2>6 DEF SplitsAt
<1> QED  BY <1>2, <1>3

\* A window without its spaces: at most one chunk, that holds all the rest.
IsStripped(k, text, s, e, chunks) ==
  \/ chunks = <<>> /\ \A p \in s + 1 .. e : text[p] = Space
  \/ \E c : /\ chunks = <<c>>
            /\ c = [section |-> k, from |-> c.from, to |-> c.to]
            /\ c.from \in s + 1 .. e /\ c.to \in c.from .. e
            /\ text[c.from] # Space /\ text[c.to] # Space
            /\ \A p \in s + 1 .. e : text[p] # Space => p \in c.from .. c.to

LEMMA StripKeepsTheRest ==
  ASSUME NEW k, NEW text, NEW s \in Nat, NEW e \in Nat
  PROVE  IsStripped(k, text, s, e, Strip(k, text, s, e))
<1> DEFINE solid == {p \in s + 1 .. e : text[p] # Space}
           c == [section |-> k, from |-> Min(solid), to |-> Max(solid)]
<1>1. CASE solid = {}
  BY <1>1 DEF Strip, IsStripped
<1>2. CASE solid # {}
  <2>1. Min(solid) \in solid /\ \A p \in solid : Min(solid) <= p
    BY <1>2, LeastElement, solid \subseteq Nat
  <2>2. Max(solid) \in solid /\ \A p \in solid : p <= Max(solid)
    BY <1>2, GreatestElement, solid \subseteq 0 .. e
  <2>3. Strip(k, text, s, e) = <<c>>
    BY <1>2 DEF Strip
  <2>4. c.from = Min(solid) /\ c.to = Max(solid)
    OBVIOUS
  <2> HIDE DEF c
  <2>5. c = [section |-> k, from |-> c.from, to |-> c.to]
    BY <2>4 DEF c
  <2> QED  BY <2>1, <2>2, <2>3, <2>4, <2>5 DEF IsStripped
<1> QED  BY <1>1, <1>2

\* A window that ends after start_ has a next one that begins after start_.
LEMMA NextStartAdvances ==
  ASSUME NEW s \in Nat, NEW e \in Nat, s < e, NEW overlap \in Nat
  PROVE  NextStart(e, s, overlap) \in s + 1 .. e
BY DEF NextStart, Most

-----------------------------------------------------------------------------
(* Normalization                                                           *)

\* Every rank up to the size of a finite set of numbers is that of an element.
LEMMA RanksExist ==
  ASSUME NEW n \in Nat, NEW K, K \subseteq 1 .. n
  PROVE  /\ IsFiniteSet(K) /\ Cardinality(K) \in Nat
         /\ \A r \in 1 .. Cardinality(K) :
              \E p \in K : Cardinality({q \in K : q <= p}) = r
<1>1. \A S \in SUBSET (1 .. n) : IsFiniteSet(S) /\ Cardinality(S) \in Nat
  <2>1. IsFiniteSet(1 .. n)
    BY FS_Interval
  <2> QED  BY <2>1, FS_Subset, FS_CardinalityType
<1> DEFINE Below(p) == {q \in K : q <= p}
           HasRank(r) == \E p \in K : Cardinality(Below(p)) = r
           Missing == {r \in 1 .. Cardinality(K) : ~ HasRank(r)}
<1>2. SUFFICES ASSUME Missing # {} PROVE FALSE
  BY <1>1
<1>3. PICK r \in Missing : \A x \in Missing : r <= x
  BY <1>1, <1>2, LeastElement, Missing \subseteq Nat
\* The elements above those of the ranks below r, which are not all of K.
<1>4. PICK L \in SUBSET K : /\ Cardinality(L) = r - 1
                            /\ \A x \in L, y \in K : y <= x => y \in L
  <2>1. CASE r = 1
    <3> WITNESS {} \in SUBSET K
    <3> QED  BY <2>1, FS_EmptySet
  <2>2. CASE r # 1
    <3>1. r - 1 \in 1 .. Cardinality(K) /\ r - 1 \notin Missing
      BY <1>1, <1>3, <2>2
    <3>2. PICK p \in K : Cardinality(Below(p)) = r - 1
      BY <3>1
    <3> WITNESS Below(p) \in SUBSET K
    <3> QED  BY <3>2
  <2> QED  BY <2>1, <2>2
<1>5. K \ L # {}
  <2>1. r \in 1 .. Cardinality(K) /\ Cardinality(K) \in Nat
    BY <1>1, <1>3
  <2>2. L # K
    BY <1>4, <2>1
  <2> QED  BY <2>2
<1>6. PICK p \in K \ L : \A y \in K \ L : p <= y
  BY <1>5, LeastElement, K \ L \subseteq Nat
<1>7. Below(p) = L \union {p}
  <2>1. \A q \in L : q <= p
    <3>1. SUFFICES ASSUME NEW q \in L, p < q PROVE FALSE
      BY K \subseteq Nat
    <3> QED  BY <1>4, <1>6, <3>1
  <2>2. \A q \in K \ L : q <= p => q = p
    BY <1>6, K \subseteq Nat
  <2> QED  BY <1>6, <2>1, <2>2
<1>8. Cardinality(Below(p)) = r
  BY <1>1, <1>3, <1>4, <1>6, <1>7, FS_AddElement
<1> QED  BY <1>3, <1>6, <1>8

\* A normalized text neither begins nor ends with a space.
LEMMA NormalizedEnds ==
  ASSUME NEW text \in Seq(STRING)
  PROVE  /\ NormalizeText(text) \in Seq(STRING)
         /\ NormalizeText(text) # <<>> =>
              /\ NormalizeText(text)[1] # Space
              /\ NormalizeText(text)[Len(NormalizeText(text))] # Space
<1> DEFINE kept == {i \in DOMAIN text :
                      \/ text[i] # Space
                      \/ /\ i > 1 /\ text[i - 1] # Space
                         /\ \E j \in i + 1 .. Len(text) : text[j] # Space}
           Below(p) == {q \in kept : q <= p}
           Nth(n) == CHOOSE p \in kept : Cardinality(Below(p)) = n
           N == Cardinality(kept)
<1>1. kept \subseteq 1 .. Len(text) /\ Len(text) \in Nat
  OBVIOUS
<1>2. IsFiniteSet(kept) /\ N \in Nat
  BY <1>1, RanksExist
<1>3. \A r \in 1 .. N : \E p \in kept : Cardinality(Below(p)) = r
  BY <1>1, RanksExist
<1>4. \A r \in 1 .. N : Nth(r) \in kept /\ Cardinality(Below(Nth(r))) = r
  BY <1>3
<1>5. NormalizeText(text) = [n \in 1 .. N |-> text[Nth(n)]]
  BY DEF NormalizeText
<1>6. \A p \in kept : text[p] \in STRING
  OBVIOUS
<1>7. \A p \in kept : text[p] = Space =>
        \E q, r \in kept : q < p /\ p < r
  <2>1. SUFFICES ASSUME NEW p \in kept, text[p] = Space
                 PROVE  \E q, r \in kept : q < p /\ p < r
    OBVIOUS
  <2>2. p > 1 /\ text[p - 1] # Space /\ p - 1 \in kept
    BY <2>1
  <2>3. PICK j \in p + 1 .. Len(text) : text[j] # Space
    BY <2>1
  <2>4. j \in kept /\ p < j /\ p - 1 < p
    BY <2>2, <2>3
  <2> QED  BY <2>2, <2>4
<1> HIDE DEF kept
<1>8. \A p \in kept : IsFiniteSet(Below(p)) /\ Cardinality(Below(p)) \in Nat
  BY <1>2, FS_Subset, FS_CardinalityType
<1>9. \A p \in kept : Cardinality(Below(p)) = 1 => text[p] # Space
  <2>1. SUFFICES ASSUME NEW p \in kept, Cardinality(Below(p)) = 1,
                        NEW q \in kept, q < p
                 PROVE  FALSE
    BY <1>7
  <2>2. {q, p} \subseteq Below(p) /\ q # p
    BY <2>1, <1>1
  <2>3. IsFiniteSet({q}) /\ Cardinality({q}) = 1
    BY FS_Singleton
  <2>4. {q} \in SUBSET Below(p) /\ Cardinality({q}) = Cardinality(Below(p))
    BY <2>1, <2>2, <2>3
  <2>5. {q} = Below(p)
    BY <1>8, <2>4, FS_Subset
  <2> QED  BY <2>2, <2>5
<1>10. \A p \in kept : Cardinality(Below(p)) = N => text[p] # Space
  <2>1. SUFFICES ASSUME NEW p \in kept, Cardinality(Below(p)) = N,
                        NEW r \in kept, p < r
                 PROVE  FALSE
    BY <1>7
  <2>2. Below(p) = kept
    BY <1>2, <2>1, FS_Subset
  <2> QED  BY <1>1, <2>1, <2>2
<1> HIDE DEF Nth, Below
<1>11. \A n \in 1 .. N : text[Nth(n)] \in STRING
  BY <1>4, <1>6
<1> HIDE DEF N
<1>12. /\ NormalizeText(text) \in Seq(STRING)
       /\ Len(NormalizeText(text)) = N
       /\ \A n \in 1 .. N : NormalizeText(text)[n] = text[Nth(n)]
  BY <1>2, <1>5, <1>11
<1>13. NormalizeText(text) # <<>> => N \in 1 .. N /\ 1 \in 1 .. N
  BY <1>2, <1>12
<1> QED  BY <1>4, <1>9, <1>10, <1>12, <1>13

-----------------------------------------------------------------------------
(* The invariant holds initially and under the steps that only change phase *)

USE DEF cutting, Retrieval

LEMMA ChunkInitInv == ChunkInit => ChunkInv
BY ChunkingAssumption DEF ChunkInit, ChunkInv, ChunkTypeOK, DocInv, JobInv, CutInv,
   ArtifactInv, Pieces, NothingIsLost, PhaseInv, CutsAdvance, NoDoc, NoJob

LEMMA EmbeddingBeginsInv == ChunkInv /\ EmbeddingBegins => ChunkInv'
<1>1. SUFFICES ASSUME ChunkInv, EmbeddingBegins PROVE ChunkInv'
  OBVIOUS
<1>2. ChunkTypeOK' /\ DocInv' /\ JobInv' /\ CutInv'
  BY <1>1 DEF ChunkInv, EmbeddingBegins, ChunkTypeOK, DocInv, JobInv, CutInv, SectionText
<1>3. ArtifactInv' /\ PhaseInv' /\ CutsAdvance'
  BY <1>1 DEF ChunkInv, EmbeddingBegins, ArtifactInv, PhaseInv, CutsAdvance
<1>4. Pieces' /\ NothingIsLost'
  BY <1>1 DEF ChunkInv, EmbeddingBegins, Pieces, IsPiece, IsPlaced, NothingIsLost,
              SectionText
<1> QED  BY <1>2, <1>3, <1>4 DEF ChunkInv

LEMMA OnlyPhaseInv ==
  ChunkInv /\ (GiveUp \/ ProviderFails \/ StoreChunks \/ ArtifactIsCut) => ChunkInv'
<1>1. SUFFICES ASSUME ChunkInv,
                      GiveUp \/ ProviderFails \/ StoreChunks \/ ArtifactIsCut
               PROVE  ChunkInv'
  OBVIOUS
<1> USE DEF GiveUp, ProviderFails, StoreChunks, ArtifactIsCut, Embedding
<1>2. ChunkTypeOK' /\ DocInv' /\ JobInv' /\ CutInv'
  BY <1>1 DEF ChunkInv, ChunkTypeOK, DocInv, JobInv, CutInv, SectionText
<1>3. ArtifactInv' /\ CutsAdvance'
  BY <1>1 DEF ChunkInv, JobInv, ArtifactInv, CutsAdvance
<1>4. Pieces' /\ NothingIsLost'
  BY <1>1 DEF ChunkInv, Pieces, IsPiece, IsPlaced, NothingIsLost, SectionText
<1>5. GiveUp => doc.limit < MinSize
  <2>1. SUFFICES ASSUME GiveUp PROVE doc.limit < MinSize
    OBVIOUS
  <2>2. Head(pending) \in TextChunk /\ doc.limit \in Nat
    BY <1>1, <2>1 DEF ChunkInv, ChunkTypeOK
  <2> QED  BY <2>1, <2>2, ChunkingAssumption DEF TextChunk, Length
<1>6. PhaseInv'
  BY <1>1, <1>5 DEF ChunkInv, PhaseInv, JobInv
<1> QED  BY <1>2, <1>3, <1>4, <1>6 DEF ChunkInv

-----------------------------------------------------------------------------
(* Beginning: a document or an artifact is received, a section begun        *)

LEMMA ReceiveDocumentInv == ChunkInv /\ ReceiveDocument => ChunkInv'
<1>1. SUFFICES ASSUME ChunkInv, ReceiveDocument PROVE ChunkInv'
  OBVIOUS
<1>2. PICK d \in Documents, s \in Settings, limit \in Limits :
        /\ s.size >= MinSize
        /\ doc' = [texts |-> [k \in 1 .. Len(d) |-> NormalizeText(d[k])],
                   size |-> s.size, overlap |-> s.overlap, limit |-> limit]
  BY <1>1 DEF ReceiveDocument
<1>3. /\ d \in Seq(Seq(STRING)) /\ limit \in Nat
      /\ s.size \in Nat /\ s.overlap \in Nat /\ s.overlap < s.size
  BY ChunkingAssumption
<1>4. \A k \in 1 .. Len(d) : NormalizeText(d[k]) \in Seq(STRING)
  BY <1>3, NormalizedEnds
<1>5. /\ doc' \in [texts: Seq(Seq(STRING)), size: Nat, overlap: Nat, limit: Nat]
      /\ Len(doc'.texts) = Len(d)
      /\ \A k \in DOMAIN doc'.texts : k \in 1 .. Len(d) /\ doc'.texts[k] = NormalizeText(d[k])
  BY <1>2, <1>3, <1>4
<1>6. /\ phase = "idle" /\ phase' = "cutting"
      /\ UNCHANGED <<section, job, start, cut, pending, embedded>>
  BY <1>1 DEF ReceiveDocument
<1>7. /\ job = NoJob /\ section = 0 /\ pending = <<>> /\ embedded = <<>>
      /\ start = 0 /\ cut = <<>>
  BY <1>1, <1>6 DEF ChunkInv, PhaseInv, JobInv
<1>8. ChunkTypeOK'
  BY <1>1, <1>5, <1>6, <1>7 DEF ChunkInv, ChunkTypeOK
<1>9. DocInv'
  <2>1. \A k \in DOMAIN doc'.texts : doc'.texts[k] # <<>> =>
          /\ doc'.texts[k][1] # Space
          /\ doc'.texts[k][Len(doc'.texts[k])] # Space
    BY <1>3, <1>5, NormalizedEnds
  <2> QED  BY <1>2, <1>3, <2>1, ChunkingAssumption DEF DocInv, SectionText
<1>10. JobInv' /\ CutInv' /\ ArtifactInv' /\ Pieces' /\ NothingIsLost' /\ PhaseInv'
  BY <1>6, <1>7 DEF JobInv, CutInv, ArtifactInv, Pieces, NothingIsLost, PhaseInv
<1>11. CutsAdvance'
  BY <1>6, <1>7 DEF CutsAdvance
<1> QED  BY <1>8, <1>9, <1>10, <1>11 DEF ChunkInv

LEMMA ReceiveArtifactInv == ChunkInv /\ ReceiveArtifact => ChunkInv'
<1>1. SUFFICES ASSUME ChunkInv, ReceiveArtifact PROVE ChunkInv'
  OBVIOUS
<1>2. PICK text \in Artifacts, s \in Settings :
        /\ doc' = [texts |-> <<text>>, size |-> s.size, overlap |-> s.overlap,
                   limit |-> 0]
        /\ job' = [section |-> 1, from |-> 1, to |-> Len(text), size |-> s.size,
                   overlap |-> s.overlap]
        /\ start' = 1 - 1 /\ cut' = <<>>
  BY <1>1 DEF ReceiveArtifact, Split
<1>3. /\ text \in Seq(STRING)
      /\ s.size \in Nat /\ s.overlap \in Nat /\ s.overlap < s.size
  BY ChunkingAssumption
<1>4. /\ doc' \in [texts: Seq(Seq(STRING)), size: Nat, overlap: Nat, limit: Nat]
      /\ Len(doc'.texts) = 1 /\ doc'.texts[1] = text
  BY <1>2, <1>3
<1>5. /\ phase = "idle" /\ phase' = "artifact" /\ section' = 1
      /\ UNCHANGED <<pending, embedded>>
  BY <1>1 DEF ReceiveArtifact
<1>6. pending = <<>> /\ embedded = <<>>
  BY <1>1, <1>5 DEF ChunkInv, PhaseInv
<1>7. ChunkTypeOK'
  BY <1>1, <1>2, <1>3, <1>4, <1>5, <1>6 DEF ChunkInv, ChunkTypeOK
<1>8. DocInv'
  BY <1>2, <1>3, <1>5 DEF DocInv
<1>9. job' # NoJob
  BY <1>2 DEF NoJob
<1>10. JobInv' /\ ArtifactInv'
  BY <1>2, <1>3, <1>4, <1>5, <1>9 DEF JobInv, ArtifactInv, SectionText
<1>11. CutInv' /\ Pieces' /\ NothingIsLost' /\ PhaseInv'
  BY <1>5, <1>6, <1>9 DEF CutInv, Pieces, NothingIsLost, PhaseInv
<1>12. CutsAdvance'
  BY <1>2, <1>3, <1>5 DEF CutsAdvance
<1> QED  BY <1>7, <1>8, <1>10, <1>11, <1>12 DEF ChunkInv

LEMMA NextSectionInv == ChunkInv /\ NextSection => ChunkInv'
<1>1. SUFFICES ASSUME ChunkInv, NextSection PROVE ChunkInv'
  OBVIOUS
<1>2. /\ phase = "cutting" /\ job = NoJob /\ section < Len(doc.texts)
      /\ section' = section + 1
      /\ job' = [section |-> section', from |-> 1,
                 to |-> Len(doc.texts[section']), size |-> doc.size,
                 overlap |-> doc.overlap]
      /\ start' = 0 /\ cut' = <<>>
      /\ UNCHANGED <<phase, doc, pending, embedded>>
  BY <1>1 DEF NextSection, Split
<1>3. /\ doc \in [texts: Seq(Seq(STRING)), size: Nat, overlap: Nat, limit: Nat]
      /\ section \in Nat /\ section' \in 1 .. Len(doc.texts)
      /\ Len(doc.texts[section']) \in Nat
  <2>1. /\ doc \in [texts: Seq(Seq(STRING)), size: Nat, overlap: Nat, limit: Nat]
        /\ section \in 0 .. Len(doc.texts)
    BY <1>1 DEF ChunkInv, ChunkTypeOK
  <2>2. doc.texts \in Seq(Seq(STRING))
    BY <2>1
  <2>3. section' \in 1 .. Len(doc.texts)
    BY <1>2, <2>1, <2>2
  <2>4. doc.texts[section'] \in Seq(STRING)
    BY <2>2, <2>3
  <2> QED  BY <2>1, <2>3, <2>4
<1>4. job' # NoJob
  BY <1>2, <1>3 DEF NoJob
<1>5. ChunkTypeOK'
  BY <1>1, <1>2, <1>3 DEF ChunkInv, ChunkTypeOK
<1>6. DocInv' /\ JobInv'
  BY <1>1, <1>2, <1>3, <1>4 DEF ChunkInv, DocInv, JobInv, SectionText
<1>7. CutInv' /\ CutsAdvance'
  BY <1>2, <1>3, <1>4 DEF CutInv, CutsAdvance, Length
<1>8. ArtifactInv' /\ PhaseInv'
  BY <1>1, <1>2 DEF ChunkInv, ArtifactInv, PhaseInv
<1>9. Pieces'
  BY <1>1, <1>2, <1>3 DEF ChunkInv, Pieces, IsPiece, IsPlaced, SectionText
<1>10. NothingIsLost'
  BY <1>1, <1>2, <1>3, <1>4 DEF ChunkInv, NothingIsLost, SectionText
<1> QED  BY <1>5, <1>6, <1>7, <1>8, <1>9, <1>10 DEF ChunkInv

-----------------------------------------------------------------------------
(* Chunks on their way from pending to embedded                            *)

LEMMA HoldsInEither ==
  ASSUME NEW a \in Seq(TextChunk), NEW b \in Seq(TextChunk), NEW k, NEW p,
         Holds(a, k, p) \/ Holds(b, k, p)
  PROVE  Holds(a \o b, k, p)
<1>1. CASE Holds(a, k, p)
  <2>1. PICK i \in DOMAIN a : a[i].section = k /\ p \in a[i].from .. a[i].to
    BY <1>1 DEF Holds
  <2>2. i \in DOMAIN (a \o b) /\ (a \o b)[i] = a[i]
    OBVIOUS
  <2> QED  BY <2>1, <2>2 DEF Holds
<1>2. CASE Holds(b, k, p)
  <2>1. PICK i \in DOMAIN b : b[i].section = k /\ p \in b[i].from .. b[i].to
    BY <1>2 DEF Holds
  <2>2. Len(a) + i \in DOMAIN (a \o b) /\ (a \o b)[Len(a) + i] = b[i]
    OBVIOUS
  <2> QED  BY <2>1, <2>2 DEF Holds
<1> QED  BY <1>1, <1>2

\* What a queue holds is held by its head or by its tail.
LEMMA HoldsInHeadOrTail ==
  ASSUME NEW s \in Seq(TextChunk), s # <<>>, NEW k, NEW p, Holds(s, k, p)
  PROVE  \/ Head(s).section = k /\ p \in Head(s).from .. Head(s).to
         \/ Holds(Tail(s), k, p)
<1>1. PICK i \in DOMAIN s : s[i].section = k /\ p \in s[i].from .. s[i].to
  BY DEF Holds
<1>2. CASE i = 1
  BY <1>1, <1>2
<1>3. CASE i # 1
  <2>1. i - 1 \in DOMAIN Tail(s) /\ Tail(s)[i - 1] = s[i]
    BY <1>3
  <2> QED  BY <1>1, <2>1 DEF Holds
<1> QED  BY <1>2, <1>3

LEMMA HoldsInAppended ==
  ASSUME NEW s \in Seq(TextChunk), NEW c \in TextChunk, NEW k, NEW p,
         Holds(s, k, p) \/ (c.section = k /\ p \in c.from .. c.to)
  PROVE  Holds(Append(s, c), k, p)
<1>1. /\ DOMAIN Append(s, c) = 1 .. Len(s) + 1 /\ DOMAIN s = 1 .. Len(s)
      /\ Append(s, c)[Len(s) + 1] = c
      /\ \A i \in DOMAIN s : Append(s, c)[i] = s[i]
  OBVIOUS
<1> QED  BY <1>1 DEF Holds

LEMMA EmbedInv == ChunkInv /\ Embed => ChunkInv'
<1>1. SUFFICES ASSUME ChunkInv, Embed PROVE ChunkInv'
  OBVIOUS
<1>2. /\ phase = "embedding" /\ job = NoJob /\ pending # <<>>
      /\ Length(Head(pending)) <= doc.limit
      /\ embedded' = Append(embedded, Head(pending))
      /\ pending' = Tail(pending)
      /\ UNCHANGED <<phase, doc, section, job, start, cut>>
  BY <1>1 DEF Embed, Embedding
<1>3. /\ pending \in Seq(TextChunk) /\ embedded \in Seq(TextChunk)
      /\ Head(pending) \in TextChunk
  BY <1>1, <1>2 DEF ChunkInv, ChunkTypeOK
<1>4. ChunkTypeOK'
  BY <1>1, <1>2, <1>3 DEF ChunkInv, ChunkTypeOK
<1>5. DocInv' /\ JobInv' /\ CutInv' /\ ArtifactInv' /\ PhaseInv' /\ CutsAdvance'
  BY <1>1, <1>2 DEF ChunkInv, DocInv, JobInv, CutInv, ArtifactInv, PhaseInv,
                    CutsAdvance, SectionText
<1>6. Pieces'
  <2>1. /\ \A i \in DOMAIN pending : IsPiece(pending[i])
        /\ \A i \in DOMAIN embedded : IsPiece(embedded[i])
                                      /\ Length(embedded[i]) <= doc.limit
    BY <1>1 DEF ChunkInv, Pieces
  <2>2. \A c : IsPiece(c)' <=> IsPiece(c)
    BY <1>2 DEF IsPiece, IsPlaced, SectionText
  <2>3. /\ \A i \in DOMAIN pending' : i + 1 \in DOMAIN pending
                                      /\ pending'[i] = pending[i + 1]
        /\ Head(pending) = pending[1] /\ 1 \in DOMAIN pending
    BY <1>2, <1>3
  <2>4. \A i \in DOMAIN embedded' :
          \/ i \in DOMAIN embedded /\ embedded'[i] = embedded[i]
          \/ embedded'[i] = Head(pending)
    BY <1>2, <1>3
  <2> QED  BY <1>2, <2>1, <2>2, <2>3, <2>4 DEF Pieces
<1>7. NothingIsLost'
  <2>1. SUFFICES ASSUME NEW k \in 1 .. section, NEW p \in DOMAIN SectionText(k),
                        SectionText(k)[p] # Space
                 PROVE  Holds(embedded', k, p) \/ Holds(pending', k, p)
    BY <1>2 DEF NothingIsLost, SectionText
  <2>2. Holds(embedded, k, p) \/ Holds(pending, k, p)
    BY <1>1, <1>2, <2>1 DEF ChunkInv, NothingIsLost
  <2> QED  BY <1>2, <1>3, <2>2, HoldsInHeadOrTail, HoldsInAppended
<1> QED  BY <1>4, <1>5, <1>6, <1>7 DEF ChunkInv

LEMMA SplitPreparedChunkInv == ChunkInv /\ SplitPreparedChunk => ChunkInv'
<1>1. SUFFICES ASSUME ChunkInv, SplitPreparedChunk PROVE ChunkInv'
  OBVIOUS
<1> DEFINE chunk == Head(pending)
           half == SplitSize(chunk, doc.size)
           overlap == Least(doc.overlap, half \div 10)
<1>2. /\ phase = "embedding" /\ job = NoJob /\ pending # <<>>
      /\ Length(chunk) > Most(doc.limit, MinSize)
      /\ job' = [section |-> chunk.section, from |-> chunk.from, to |-> chunk.to,
                 size |-> half, overlap |-> overlap]
      /\ start' = chunk.from - 1 /\ cut' = <<>>
      /\ UNCHANGED <<phase, doc, section, pending, embedded>>
  BY <1>1 DEF SplitPreparedChunk, Split, Embedding
<1>3. /\ chunk \in TextChunk /\ chunk = pending[1] /\ 1 \in DOMAIN pending
      /\ doc \in [texts: Seq(Seq(STRING)), size: Nat, overlap: Nat, limit: Nat]
  BY <1>1, <1>2 DEF ChunkInv, ChunkTypeOK
<1>4. IsPiece(chunk)
  BY <1>1, <1>3 DEF ChunkInv, Pieces
<1>5. /\ chunk.section \in 1 .. section /\ chunk.from \in 1 .. chunk.to
      /\ MinSize <= doc.size
  BY <1>1, <1>2, <1>4 DEF ChunkInv, DocInv, IsPiece, IsPlaced
\* Its pieces are to be shorter than the chunk, which is longer than MinSize.
<1>6. half \in 1 .. doc.size /\ half < Length(chunk)
  <2>1. Length(chunk) \in Nat /\ Length(chunk) > MinSize
    BY <1>2, <1>3, <1>5, ChunkingAssumption DEF Length, Most, TextChunk
  <2> QED  BY <1>3, <1>5, <2>1, ChunkingAssumption DEF SplitSize, Most, Least
<1>7. overlap \in Nat /\ overlap < half
  BY <1>3, <1>6 DEF Least
<1> HIDE DEF half, overlap, chunk
<1>8. job' # NoJob
  BY <1>2, <1>5 DEF NoJob
<1>9. ChunkTypeOK'
  <2>1. chunk.section \in Nat /\ chunk.from \in Nat /\ chunk.to \in Nat
    BY <1>3 DEF TextChunk
  <2>2. half \in Nat /\ chunk.from - 1 \in Nat
    BY <1>3, <1>5, <1>6, <2>1
  <2> QED  BY <1>1, <1>2, <1>7, <2>1, <2>2 DEF ChunkInv, ChunkTypeOK
<1>10. JobInv'
  BY <1>2, <1>3, <1>5, <1>6, <1>7, <1>8 DEF JobInv, TextChunk, Length, chunk
<1>11. CutInv'
  BY <1>2, <1>3, <1>5, <1>8 DEF CutInv, TextChunk
<1>12. CutsAdvance'
  BY <1>2, <1>3, <1>5, <1>6 DEF CutsAdvance, TextChunk, Length
<1>13. DocInv' /\ ArtifactInv' /\ PhaseInv'
  BY <1>1, <1>2 DEF ChunkInv, DocInv, ArtifactInv, PhaseInv, SectionText
<1>14. Pieces' /\ NothingIsLost'
  BY <1>1, <1>2 DEF ChunkInv, Pieces, IsPiece, IsPlaced, NothingIsLost, SectionText
<1> QED  BY <1>9, <1>10, <1>11, <1>12, <1>13, <1>14 DEF ChunkInv

-----------------------------------------------------------------------------
(* A split returns: its chunks take their place                            *)

\* What is known of the job when nothing of it is left, and of its chunks.
LEMMA SplitIsComplete ==
  ASSUME ChunkInv, phase \in {"cutting", "embedding"}, SplitReturns
  PROVE  /\ job # NoJob /\ job.section \in 1 .. section
         /\ cut \in Seq(TextChunk)
         /\ \A i \in DOMAIN cut :
              cut[i].section = job.section /\ IsPiece(cut[i])
         /\ \A p \in job.from .. job.to :
              SectionText(job.section)[p] # Space => Holds(cut, job.section, p)
<1> USE DEF SplitReturns
<1>1. job # NoJob /\ start = job.to /\ job.section \in 1 .. section
  BY DEF ChunkInv, JobInv
<1>2. /\ cut \in Seq(TextChunk) /\ job.size \in Nat /\ doc.size \in Nat
      /\ job.size <= doc.size
  BY <1>1 DEF ChunkInv, ChunkTypeOK, JobInv
<1>3. \A i \in DOMAIN cut :
        /\ cut[i].section = job.section /\ Length(cut[i]) <= job.size
        /\ IsPlaced(job.section, cut[i].from, cut[i].to)
  BY <1>1 DEF ChunkInv, CutInv
<1>4. \A i \in DOMAIN cut : Length(cut[i]) \in Int
  <2>1. \A i \in DOMAIN cut : cut[i] \in TextChunk
    BY <1>2
  <2> QED  BY <2>1 DEF Length, TextChunk
<1>5. \A i \in DOMAIN cut : cut[i].section = job.section /\ IsPiece(cut[i])
  BY <1>2, <1>3, <1>4 DEF IsPiece
<1> QED  BY <1>1, <1>2, <1>5 DEF ChunkInv, CutInv

LEMMA SectionIsSplitInv == ChunkInv /\ SectionIsSplit => ChunkInv'
<1>1. SUFFICES ASSUME ChunkInv, SectionIsSplit PROVE ChunkInv'
  OBVIOUS
<1>2. /\ phase = "cutting" /\ SplitReturns /\ pending' = pending \o cut
      /\ job' = NoJob /\ start' = 0 /\ cut' = <<>>
      /\ UNCHANGED <<phase, doc, section, embedded>>
  BY <1>1 DEF SectionIsSplit, NothingToSplit
<1>3. /\ cut \in Seq(TextChunk) /\ pending \in Seq(TextChunk)
      /\ \A i \in DOMAIN cut : IsPiece(cut[i])
  BY <1>1, <1>2, SplitIsComplete DEF ChunkInv, ChunkTypeOK
<1>4. ChunkTypeOK'
  BY <1>1, <1>2, <1>3 DEF ChunkInv, ChunkTypeOK, NoJob
<1>5. /\ DocInv' /\ JobInv' /\ CutInv' /\ ArtifactInv' /\ PhaseInv'
      /\ CutsAdvance'
  BY <1>1, <1>2 DEF ChunkInv, DocInv, JobInv, CutInv, ArtifactInv, PhaseInv,
                    CutsAdvance, SectionText
<1>6. Pieces'
  <2>1. \A i \in DOMAIN pending' :
          \/ i \in DOMAIN pending /\ pending'[i] = pending[i]
          \/ i - Len(pending) \in DOMAIN cut /\ pending'[i] = cut[i - Len(pending)]
    BY <1>2, <1>3
  <2>2. \A c : IsPiece(c)' <=> IsPiece(c)
    BY <1>2 DEF IsPiece, IsPlaced, SectionText
  <2> QED  BY <1>1, <1>2, <1>3, <2>1, <2>2 DEF ChunkInv, Pieces
<1>7. NothingIsLost'
  <2>1. SUFFICES ASSUME NEW k \in 1 .. section, NEW p \in DOMAIN SectionText(k),
                        SectionText(k)[p] # Space
                 PROVE  Holds(embedded, k, p) \/ Holds(pending', k, p)
    BY <1>2 DEF NothingIsLost, SectionText
  <2>2. CASE k = section
    <3>1. /\ job.section = section /\ job.from = 1
          /\ job.to = Len(SectionText(section))
      BY <1>1, <1>2 DEF ChunkInv, JobInv, SplitReturns
    <3>2. SectionText(k) \in Seq(STRING)
      BY <1>1 DEF ChunkInv, ChunkTypeOK, SectionText
    <3>3. p \in job.from .. job.to
      BY <2>2, <3>1, <3>2
    <3>4. Holds(cut, k, p)
      BY <1>1, <1>2, <2>1, <2>2, <3>1, <3>3, SplitIsComplete
    <3> QED  BY <1>2, <1>3, <3>4, HoldsInEither
  <2>3. CASE k # section
    BY <1>1, <1>2, <1>3, <2>1, <2>3, HoldsInEither DEF ChunkInv, NothingIsLost
  <2> QED  BY <2>2, <2>3
<1> QED  BY <1>4, <1>5, <1>6, <1>7 DEF ChunkInv

LEMMA ChunkIsSplitInv == ChunkInv /\ ChunkIsSplit => ChunkInv'
<1>1. SUFFICES ASSUME ChunkInv, ChunkIsSplit PROVE ChunkInv'
  OBVIOUS
<1>2. /\ phase = "embedding" /\ SplitReturns
      /\ job' = NoJob /\ start' = 0 /\ cut' = <<>>
      /\ UNCHANGED <<doc, section, embedded>>
  BY <1>1 DEF ChunkIsSplit, NothingToSplit
\* A chunk longer than its pieces may be gives several.
<1>3. /\ pending # <<>> /\ job.section = Head(pending).section
      /\ job.from = Head(pending).from /\ job.to = Head(pending).to
      /\ Len(cut) > 1
  <2>1. job # NoJob /\ start = job.to /\ job.size < Length(job)
    BY <1>1, <1>2 DEF ChunkInv, JobInv, SplitReturns
  <2>2. job.size \in Nat /\ Length(job) \in Int
    BY <1>1 DEF ChunkInv, ChunkTypeOK, Length
  <2>3. Len(cut) > 1
    BY <1>1, <1>2, <2>1, <2>2 DEF ChunkInv, CutInv
  <2> QED  BY <1>1, <1>2, <2>1, <2>3 DEF ChunkInv, JobInv
<1>4. /\ cut \in Seq(TextChunk) /\ pending \in Seq(TextChunk)
      /\ Tail(pending) \in Seq(TextChunk)
      /\ \A i \in DOMAIN cut : IsPiece(cut[i])
  BY <1>1, <1>2, <1>3, SplitIsComplete DEF ChunkInv, ChunkTypeOK
<1>5. pending' = cut \o Tail(pending) /\ UNCHANGED phase
  BY <1>1, <1>3, <1>4 DEF ChunkIsSplit
<1>6. ChunkTypeOK'
  BY <1>1, <1>2, <1>4, <1>5 DEF ChunkInv, ChunkTypeOK, NoJob
<1>7. /\ DocInv' /\ JobInv' /\ CutInv' /\ ArtifactInv' /\ PhaseInv'
      /\ CutsAdvance'
  BY <1>1, <1>2, <1>5 DEF ChunkInv, DocInv, JobInv, CutInv, ArtifactInv, PhaseInv,
                          CutsAdvance, SectionText
<1>8. Pieces'
  <2>1. \A i \in DOMAIN pending' :
          \/ i \in DOMAIN cut /\ pending'[i] = cut[i]
          \/ /\ i - Len(cut) + 1 \in DOMAIN pending
             /\ pending'[i] = pending[i - Len(cut) + 1]
    BY <1>3, <1>4, <1>5
  <2>2. \A c : IsPiece(c)' <=> IsPiece(c)
    BY <1>2 DEF IsPiece, IsPlaced, SectionText
  <2> QED  BY <1>1, <1>2, <1>4, <2>1, <2>2 DEF ChunkInv, Pieces
<1>9. NothingIsLost'
  <2>1. SUFFICES ASSUME NEW k \in 1 .. section, NEW p \in DOMAIN SectionText(k),
                        SectionText(k)[p] # Space
                 PROVE  Holds(embedded, k, p) \/ Holds(pending', k, p)
    BY <1>2 DEF NothingIsLost, SectionText
  <2>2. Holds(embedded, k, p) \/ Holds(pending, k, p)
    BY <1>1, <1>2, <2>1 DEF ChunkInv, NothingIsLost
  <2>3. Holds(pending, k, p) => Holds(cut, k, p) \/ Holds(Tail(pending), k, p)
    BY <1>1, <1>2, <1>3, <1>4, <2>1, HoldsInHeadOrTail, SplitIsComplete
  <2> QED  BY <1>4, <1>5, <2>2, <2>3, HoldsInEither
<1> QED  BY <1>6, <1>7, <1>8, <1>9 DEF ChunkInv

-----------------------------------------------------------------------------
(* Splitting: one turn of either loop                                      *)

\* The types and bounds of the job while it is split.
LEMMA JobFacts ==
  ASSUME ChunkInv, job # NoJob
  PROVE  /\ job.section \in 1 .. section /\ job.section \in Nat
         /\ section \in Nat /\ section <= Len(doc.texts)
         /\ job.from \in Nat /\ job.to \in Nat
         /\ job.size \in Nat /\ job.overlap \in Nat /\ job.overlap < job.size
         /\ start \in job.from - 1 .. job.to /\ start \in Nat
         /\ cut \in Seq(TextChunk)
         /\ \A k \in 1 .. section : SectionText(k) \in Seq(STRING)
<1>1. /\ section \in 0 .. Len(doc.texts) /\ doc.texts \in Seq(Seq(STRING))
      /\ cut \in Seq(TextChunk) /\ start \in Nat
  BY DEF ChunkInv, ChunkTypeOK
<1>2. /\ job.section \in Nat /\ job.from \in Nat /\ job.to \in Nat
      /\ job.size \in Nat /\ job.overlap \in Nat
  BY DEF ChunkInv, ChunkTypeOK
<1>3. /\ job.section \in 1 .. section /\ start \in job.from - 1 .. job.to
      /\ job.overlap < job.size
  BY DEF ChunkInv, JobInv
<1>4. \A k \in 1 .. section : SectionText(k) \in Seq(STRING)
  BY <1>1 DEF SectionText
<1> QED  BY <1>1, <1>2, <1>3, <1>4

\* A job of a document that is not empty begins and ends with a character.
LEMMA JobIsPlaced ==
  ASSUME ChunkInv, Splitting
  PROVE  /\ job # NoJob /\ Retrieval
         /\ IsPlaced(job.section, job.from, job.to)
<1>1. job # NoJob /\ phase \in {"cutting", "embedding"} /\ start < job.to
  BY DEF Splitting
<1>2. CASE phase = "cutting"
  <2>1. /\ job.section = section /\ job.from = 1
        /\ job.to = Len(SectionText(section)) /\ section \in 1 .. section
    BY <1>1, <1>2 DEF ChunkInv, JobInv
  <2>2. job.to \in Nat /\ start \in Nat /\ SectionText(section) \in Seq(STRING)
    BY <1>1, <2>1, JobFacts
  <2>3. SectionText(section) # <<>> /\ section \in DOMAIN doc.texts
    BY <1>1, <2>1, <2>2, JobFacts DEF ChunkInv, ChunkTypeOK
  <2>4. SectionText(section)[1] # Space
        /\ SectionText(section)[Len(SectionText(section))] # Space
    BY <1>2, <2>3 DEF ChunkInv, DocInv
  <2> QED  BY <1>1, <1>2, <2>1, <2>2, <2>4 DEF IsPlaced
<1>3. CASE phase = "embedding"
  <2>1. /\ pending # <<>> /\ job.section = Head(pending).section
        /\ job.from = Head(pending).from /\ job.to = Head(pending).to
    BY <1>1, <1>3 DEF ChunkInv, JobInv
  <2>2. pending \in Seq(TextChunk)
    BY DEF ChunkInv, ChunkTypeOK
  <2>3. Head(pending) = pending[1] /\ 1 \in DOMAIN pending
    BY <2>1, <2>2
  <2> QED  BY <1>1, <1>3, <2>1, <2>3 DEF ChunkInv, Pieces, IsPiece
<1> QED  BY <1>1, <1>2, <1>3

\* While a text is split, the document and its other chunks stay as they are.
LEMMA SplittingFrame ==
  ASSUME ChunkInv, job # NoJob, phase # "idle",
         start' \in start + 1 .. job.to, cut' \in Seq(TextChunk),
         UNCHANGED <<phase, doc, section, job, pending, embedded>>
  PROVE  /\ ChunkTypeOK' /\ DocInv' /\ JobInv' /\ Pieces'
         /\ NothingIsLost' /\ PhaseInv'
<1>1. start \in Nat /\ start' \in Nat /\ start' \in job.from - 1 .. job.to
  BY JobFacts
<1>2. ChunkTypeOK' /\ DocInv' /\ PhaseInv'
  BY <1>1 DEF ChunkInv, ChunkTypeOK, DocInv, PhaseInv, SectionText
<1>3. JobInv'
  BY <1>1 DEF ChunkInv, JobInv, SectionText, Length
<1>4. Pieces' /\ NothingIsLost'
  BY DEF ChunkInv, Pieces, IsPiece, IsPlaced, NothingIsLost, SectionText
<1> QED  BY <1>2, <1>3, <1>4

LEMMA KeepShortInv == ChunkInv /\ KeepShort => ChunkInv'
<1>1. SUFFICES ASSUME ChunkInv, KeepShort PROVE ChunkInv'
  OBVIOUS
<1>2. PICK c : c = [section |-> job.section, from |-> job.from, to |-> job.to]
  OBVIOUS
<1>3. /\ Splitting /\ Length(job) <= job.size /\ cut' = <<c>> /\ start' = job.to
      /\ UNCHANGED <<phase, doc, section, job, pending, embedded>>
  BY <1>1, <1>2 DEF KeepShort
<1>4. /\ job # NoJob /\ phase \in {"cutting", "embedding"} /\ start < job.to
      /\ IsPlaced(job.section, job.from, job.to)
  BY <1>1, <1>3, JobIsPlaced DEF Splitting
<1>5. c.section = job.section /\ c.from = job.from /\ c.to = job.to /\ c \in TextChunk
  BY <1>1, <1>2, <1>4, JobFacts DEF TextChunk
<1>6. /\ cut' \in Seq(TextChunk) /\ start' \in start + 1 .. job.to
      /\ Len(cut') = 1 /\ DOMAIN cut' = {1} /\ cut'[1] = c
  BY <1>1, <1>3, <1>4, <1>5, JobFacts
<1>7. /\ job.from \in 1 .. job.to /\ job.to \in Nat
      /\ Length(c) = Length(job) /\ Length(job) = job.to - job.from + 1
  BY <1>1, <1>4, <1>5, JobFacts DEF Length, IsPlaced
<1>8. CutInv'
  <2>1. IsPlaced(job.section, c.from, c.to)'
    BY <1>3, <1>4, <1>5 DEF IsPlaced, SectionText
  <2>2. \A p \in job.from .. job.to : Holds(cut', job.section, p)
    BY <1>5, <1>6 DEF Holds
  <2>3. Length(job') = Length(job) /\ ~ (Length(job) > job.size)
    BY <1>1, <1>3, <1>4, <1>7, JobFacts
  <2> QED  BY <1>3, <1>5, <1>6, <1>7, <2>1, <2>2, <2>3 DEF CutInv
<1>9. CutsAdvance'
  <2>1. /\ Length(job) \in 1 .. job.size /\ Len(cut') <= start' - job.from + 1
        /\ Length(job') = Length(job)
    BY <1>1, <1>3, <1>4, <1>6, <1>7, JobFacts
  <2> QED  BY <1>1, <1>3, <1>4, <1>6, <1>7, <2>1 DEF CutsAdvance, ChunkInv
<1>10. ArtifactInv'
  BY <1>3, <1>4 DEF ArtifactInv
<1> QED  BY <1>1, <1>3, <1>4, <1>6, <1>8, <1>9, <1>10, SplittingFrame DEF ChunkInv

\* One more chunk that is no step back keeps the chunks in order.
LEMMA OneMoreAdvances ==
  ASSUME ChunkInv, job # NoJob, NEW c \in TextChunk,
         Length(c) \in 1 .. job.size,
         cut # <<>> => /\ cut[Len(cut)].from <= c.from
                       /\ cut[Len(cut)].to <= c.to,
         start' \in start + 1 .. job.to, cut' = Append(cut, c),
         UNCHANGED <<phase, job>>
  PROVE  CutsAdvance'
<1>1. /\ cut \in Seq(TextChunk) /\ Len(cut) <= start - job.from + 1
      /\ start \in Nat /\ job.from \in Nat
  BY JobFacts DEF ChunkInv, CutsAdvance
<1>2. /\ Len(cut') = Len(cut) + 1 /\ Len(cut) \in Nat /\ cut'[Len(cut) + 1] = c
      /\ \A i \in 1 .. Len(cut) : cut'[i] = cut[i]
  BY <1>1
<1>3. Len(cut') <= start' - job'.from + 1
  BY <1>1, <1>2, JobFacts
<1>4. \A i \in 2 .. Len(cut') : /\ cut'[i - 1].from <= cut'[i].from
                                /\ cut'[i - 1].to <= cut'[i].to
  <2>1. SUFFICES ASSUME NEW i \in 2 .. Len(cut')
                 PROVE  /\ cut'[i - 1].from <= cut'[i].from
                        /\ cut'[i - 1].to <= cut'[i].to
    OBVIOUS
  <2>2. CASE i = Len(cut) + 1
    <3>1. cut'[i] = c /\ cut'[i - 1] = cut[Len(cut)] /\ cut # <<>>
      BY <1>1, <1>2, <2>2
    <3> QED  BY <3>1
  <2>3. CASE i # Len(cut) + 1
    <3>1. i \in 2 .. Len(cut) /\ cut'[i] = cut[i] /\ cut'[i - 1] = cut[i - 1]
      BY <1>2, <2>3
    <3> QED  BY <3>1 DEF ChunkInv, CutsAdvance
  <2> QED  BY <2>2, <2>3
<1>5. \A i \in DOMAIN cut' : Length(cut'[i]) \in 1 .. job.size
  <2>1. \A i \in DOMAIN cut : Length(cut[i]) \in 1 .. job.size
    BY DEF ChunkInv, CutsAdvance
  <2>2. \A i \in DOMAIN cut' : i \in DOMAIN cut \/ i = Len(cut) + 1
    BY <1>1
  <2> QED  BY <1>1, <1>2, <2>1, <2>2
<1>6. phase' = "embedding" => job'.size < Length(job')
  BY DEF ChunkInv, CutsAdvance
<1> QED  BY <1>3, <1>4, <1>5, <1>6 DEF CutsAdvance

LEMMA CutSimpleInv == ChunkInv /\ CutSimple => ChunkInv'
<1>1. SUFFICES ASSUME ChunkInv, CutSimple PROVE ChunkInv'
  OBVIOUS
<1>2. PICK end : end = Least(job.to, start + job.size)
  OBVIOUS
<1>3. PICK c : c = [section |-> 1, from |-> start + 1, to |-> end]
  OBVIOUS
<1>4. /\ phase = "artifact" /\ start < job.to /\ cut' = Append(cut, c)
      /\ start' = IF end = job.to THEN job.to ELSE end - job.overlap
      /\ UNCHANGED <<phase, doc, section, job, pending, embedded>>
  BY <1>1, <1>2, <1>3 DEF CutSimple, WindowStart
<1>5. /\ job # NoJob /\ section = 1 /\ job.section = 1 /\ job.from = 1
      /\ job.to = Len(SectionText(1))
  BY <1>1, <1>4 DEF ChunkInv, ArtifactInv, JobInv
<1>6. /\ start \in Nat /\ job.to \in Nat /\ job.size \in Nat /\ job.overlap \in Nat
      /\ job.overlap < job.size /\ cut \in Seq(TextChunk)
  BY <1>1, <1>5, JobFacts
<1>7. /\ end \in start + 1 .. job.to /\ end <= start + job.size
      /\ start' \in start + 1 .. end
      /\ end <= Least(job.to, start' + job.size)
  BY <1>2, <1>4, <1>6 DEF Least
<1>8. /\ c.section = 1 /\ c.from = start + 1 /\ c.to = end /\ c \in TextChunk
      /\ Length(c) = end - start
  BY <1>3, <1>6, <1>7 DEF TextChunk, Length
<1>9. /\ cut' \in Seq(TextChunk) /\ Len(cut') = Len(cut) + 1
      /\ cut'[Len(cut')] = c /\ cut' # <<>>
  BY <1>4, <1>6, <1>8
<1>10. CutsAdvance'
  <2>1. cut # <<>> => /\ cut[Len(cut)].from <= start + 1
                      /\ cut[Len(cut)].to <= Least(job.to, start + job.size)
    BY <1>1, <1>4 DEF ChunkInv, ArtifactInv
  <2>2. Length(c) \in 1 .. job.size /\ start' \in start + 1 .. job.to
    BY <1>6, <1>7, <1>8
  <2> QED  BY <1>1, <1>2, <1>4, <1>5, <1>8, <2>1, <2>2, OneMoreAdvances
<1>11. ArtifactInv'
  <2>1. \A p \in 1 .. start' : Holds(cut', 1, p)
    <3>1. SUFFICES ASSUME NEW p \in 1 .. start' PROVE Holds(cut', 1, p)
      OBVIOUS
    <3>2. p \in 1 .. start \/ p \in c.from .. c.to
      BY <1>6, <1>7, <1>8
    <3>3. p \in 1 .. start => Holds(cut, 1, p)
      BY <1>1, <1>4 DEF ChunkInv, ArtifactInv
    <3> QED  BY <1>4, <1>6, <1>8, <3>2, <3>3, HoldsInAppended
  <2>2. c.from <= start' + 1
    <3>1. PICK next : next = start'
      OBVIOUS
    <3>2. next \in start + 1 .. end /\ start \in Nat /\ end \in Nat
      BY <1>6, <1>7, <3>1
    <3>3. c.from <= next + 1
      BY <1>8, <3>2
    <3> QED  BY <3>1, <3>3
  <2>3. c.to <= Least(job.to, start' + job.size)
    BY <1>7, <1>8
  <2> QED  BY <1>4, <1>5, <1>9, <2>1, <2>2, <2>3 DEF ArtifactInv
<1>12. CutInv'
  BY <1>4 DEF CutInv
<1>13. start' \in start + 1 .. job.to
  BY <1>6, <1>7
<1> QED  BY <1>1, <1>4, <1>5, <1>9, <1>10, <1>11, <1>12, <1>13, SplittingFrame
         DEF ChunkInv

LEMMA CutWindowInv == ChunkInv /\ CutWindow => ChunkInv'
<1>1. SUFFICES ASSUME ChunkInv, CutWindow PROVE ChunkInv'
  OBVIOUS
<1>2. PICK text, k, from, to, size :
        /\ text = SectionText(job.section) /\ k = job.section
        /\ from = job.from /\ to = job.to /\ size = job.size
  OBVIOUS
<1>3. PICK end : end = FindSplitPoint(text, to, start, Least(start + size, to))
  OBVIOUS
<1>4. PICK next : next = start'
  OBVIOUS
<1>5. /\ Splitting /\ Length(job) > size
      /\ cut' = cut \o Strip(k, text, start, end)
      /\ next = IF end >= to THEN to ELSE NextStart(end, start, job.overlap)
      /\ UNCHANGED <<phase, doc, section, job, pending, embedded>>
  BY <1>1, <1>2, <1>3, <1>4 DEF CutWindow, SectionText
<1>6. /\ job # NoJob /\ phase \in {"cutting", "embedding"}
      /\ k \in 1 .. section /\ k \in Nat /\ cut \in Seq(TextChunk)
      /\ IsPlaced(k, from, to) /\ text \in Seq(STRING)
  BY <1>1, <1>2, <1>5, JobIsPlaced, JobFacts DEF Splitting
<1>7. /\ start \in Nat /\ from \in Nat /\ to \in Nat
      /\ size \in Nat \ {0} /\ job.overlap \in Nat
      /\ 1 <= from /\ from <= to /\ to <= Len(text)
      /\ from <= start + 1 /\ start < to /\ size < to - from + 1
      /\ text[from] # Space /\ text[to] # Space
  <2>1. /\ start \in Nat /\ from \in Nat /\ to \in Nat
        /\ size \in Nat \ {0} /\ job.overlap \in Nat /\ start \in from - 1 .. to
    BY <1>1, <1>2, <1>6, JobFacts
  <2>2. from \in 1 .. to /\ to \in 1 .. Len(text) /\ text[from] # Space /\ text[to] # Space
    BY <1>2, <1>6 DEF IsPlaced
  <2>3. size < to - from + 1 /\ start < to
    BY <1>2, <1>5, <2>1 DEF Length, Splitting
  <2> QED  BY <1>6, <2>1, <2>2, <2>3
<1>8. /\ end \in Nat /\ start < end /\ end <= to /\ end <= start + size
      /\ end = to => to <= start + size
  <2>1. PICK h \in Nat : h = Least(start + size, to)
    BY <1>7 DEF Least
  <2>2. start < h /\ h <= to /\ h <= start + size /\ (h = to => to <= start + size)
    BY <1>7, <2>1 DEF Least
  <2>3. end \in start + 1 .. h
    BY <1>3, <1>7, <2>1, <2>2, SplitPointIsInWindow
  <2> QED  BY <1>7, <2>1, <2>2, <2>3
<1>9. /\ next \in Nat /\ start < next /\ next <= end
      /\ next = to => end = to
  <2>1. NextStart(end, start, job.overlap) \in start + 1 .. end
    BY <1>7, <1>8, NextStartAdvances
  <2> QED  BY <1>5, <1>7, <1>8, <2>1
\* The next window does not end before this one.
<1>10. next < to => \A q \in Nat : q <= end => q <= Most(next, WindowEnd(start)')
  <2>1. SUFFICES ASSUME next < to, NEW q \in Nat, q <= end
                 PROVE  q <= Most(next, WindowEnd(start)')
    OBVIOUS
  <2>2. PICK h \in Nat : h = Least(next + size, to) /\ next < h
    BY <1>7, <1>9, <2>1 DEF Least
  <2>3. PICK e : e = FindSplitPoint(text, to, next, h)
    OBVIOUS
  <2>4. e = WindowEnd(start)'
    BY <1>2, <1>4, <1>5, <2>2, <2>3 DEF WindowEnd, SectionText
  <2>5. e \in Nat
    BY <1>7, <1>9, <2>2, <2>3, SplitPointIsInWindow
  <2>6. end < to
    BY <1>5, <1>7, <1>8, <2>1
  <2>7. end <= e
    BY <1>3, <1>7, <1>8, <1>9, <2>1, <2>2, <2>3, <2>6, SplitPointsAdvance
  <2>8. q <= Most(next, e)
    BY <1>8, <1>9, <2>1, <2>5, <2>7 DEF Most
  <2> QED  BY <2>4, <2>8
\* What the invariant says of the chunks so far.
<1>11. /\ \A i \in DOMAIN cut :
            /\ cut[i].section = k /\ from <= cut[i].from
            /\ cut[i].to <= to /\ IsPlaced(k, cut[i].from, cut[i].to)
            /\ Length(cut[i]) <= size
       /\ \A p \in from .. start : text[p] # Space => Holds(cut, k, p)
       /\ cut = <<>> => start = from - 1
       /\ cut # <<>> =>
            /\ \A p \in start + 1 .. to : text[p] # Space => cut[Len(cut)].from <= p
            /\ cut[Len(cut)].to <= end
  <2>1. WindowEnd(start) = end
    BY <1>2, <1>3 DEF WindowEnd
  <2>2. Most(start, end) = end
    BY <1>7, <1>8 DEF Most
  <2> QED  BY <1>1, <1>2, <1>5, <1>6, <1>7, <2>1, <2>2 DEF ChunkInv, CutInv
<1>12. \A f, t : IsPlaced(k, f, t)' <=> IsPlaced(k, f, t)
  BY <1>5 DEF IsPlaced, SectionText
<1>13. ASSUME Strip(k, text, start, end) = <<>>,
              \A p \in start + 1 .. end : text[p] = Space
       PROVE  cut' \in Seq(TextChunk) /\ CutInv' /\ CutsAdvance'
  <2>1. cut' = cut
    BY <1>5, <1>6, <1>13
  <2>2. cut # <<>> /\ next < to
    <3>1. from <= start
      <4>1. SUFFICES ASSUME from = start + 1 PROVE FALSE
        BY <1>7
      <4>2. from \in start + 1 .. end
        BY <1>7, <1>8, <4>1
      <4> QED  BY <1>7, <1>13, <4>2
    <3>2. end < to
      <4>1. SUFFICES ASSUME end = to PROVE FALSE
        BY <1>7, <1>8
      <4>2. to \in start + 1 .. end
        BY <1>7, <1>8, <4>1
      <4> QED  BY <1>7, <1>13, <4>2
    <3> QED  BY <1>7, <1>8, <1>9, <1>11, <3>1, <3>2
  <2>3. \A p \in from .. next : text[p] # Space => Holds(cut, k, p)
    <3>1. \A p \in from .. next : p \in from .. start \/ p \in start + 1 .. end
      BY <1>7, <1>8, <1>9
    <3> QED  BY <1>11, <1>13, <3>1
  <2>4. \A p \in next + 1 .. to : text[p] # Space => cut[Len(cut)].from <= p
    <3>1. \A p \in next + 1 .. to : p \in start + 1 .. to
      BY <1>7, <1>9
    <3> QED  BY <1>11, <2>2, <3>1
  <2>5. CutInv'
    <3>1. cut[Len(cut)].to \in Nat
      <4>1. cut[Len(cut)] \in TextChunk
        BY <1>6, <2>2
      <4> QED  BY <4>1 DEF TextChunk
    <3>2. cut[Len(cut)].to <= Most(next, WindowEnd(start)')
      BY <1>10, <1>11, <2>2, <3>1
    <3>3. \A i \in DOMAIN cut' :
            /\ cut'[i].section = k /\ from <= cut'[i].from
            /\ cut'[i].to <= to /\ IsPlaced(k, cut'[i].from, cut'[i].to)
            /\ Length(cut'[i]) <= size
      BY <1>11, <2>1
    <3>4. next # to
      BY <1>7, <1>9, <2>2
    <3> QED  BY <1>2, <1>4, <1>5, <1>12, <2>1, <2>2, <2>3, <2>4, <3>2, <3>3, <3>4
             DEF CutInv, SectionText, Length
  <2>6. CutsAdvance'
    <3>1. Len(cut) <= start - from + 1
      BY <1>1, <1>2, <1>6 DEF ChunkInv, CutsAdvance
    <3>2. Len(cut) <= next - from + 1
      BY <1>6, <1>7, <1>9, <3>1
    <3> QED  BY <1>1, <1>2, <1>4, <1>5, <1>6, <2>1, <3>2
             DEF ChunkInv, CutsAdvance, Length
  <2> QED  BY <1>6, <2>1, <2>5, <2>6
<1>14. ASSUME NEW c, Strip(k, text, start, end) = <<c>>,
              c = [section |-> k, from |-> c.from, to |-> c.to],
              c.from \in start + 1 .. end, c.to \in c.from .. end,
              text[c.from] # Space, text[c.to] # Space,
              \A p \in start + 1 .. end : text[p] # Space => p \in c.from .. c.to
       PROVE  cut' \in Seq(TextChunk) /\ CutInv' /\ CutsAdvance'
  <2>1. PICK f, t : f = c.from /\ t = c.to
    OBVIOUS
  <2>2. /\ f \in Nat /\ t \in Nat /\ start < f /\ f <= t /\ t <= end
        /\ text[f] # Space /\ text[t] # Space
        /\ \A p \in start + 1 .. end : text[p] # Space => f <= p /\ p <= t
    <3>1. f \in start + 1 .. end /\ t \in f .. end
      BY <1>14, <2>1
    <3>2. f \in Nat /\ t \in Nat /\ start < f /\ f <= t /\ t <= end
      BY <1>7, <1>8, <3>1
    <3>3. \A p \in start + 1 .. end : text[p] # Space => p \in f .. t
      BY <1>14, <2>1
    <3> QED  BY <1>7, <1>8, <1>14, <2>1, <3>2, <3>3
  <2>3. /\ c.section = k /\ c \in TextChunk
        /\ Length(c) \in 1 .. size /\ Length(c) <= size
    <3>1. c.section = k
      BY <1>14
    <3>2. c \in TextChunk
      BY <1>6, <1>14, <2>1, <2>2 DEF TextChunk
    <3>3. t - f + 1 \in 1 .. size
      BY <1>7, <1>8, <2>2
    <3> QED  BY <1>7, <2>1, <3>1, <3>2, <3>3 DEF Length
  <2>4. /\ cut' = Append(cut, c) /\ cut' \in Seq(TextChunk) /\ cut' # <<>>
        /\ Len(cut') = Len(cut) + 1 /\ cut'[Len(cut')] = c
    BY <1>5, <1>6, <1>14, <2>3
  <2>5. IsPlaced(k, f, t) /\ from <= f /\ t <= to
    <3>1. SectionText(k) = text
      BY <1>2
    <3>2. f \in 1 .. t /\ t \in 1 .. Len(text) /\ from <= f /\ t <= to
      BY <1>6, <1>7, <1>8, <2>2
    <3> QED  BY <1>6, <2>2, <3>1, <3>2 DEF IsPlaced
  <2>6. cut # <<>> => cut[Len(cut)].from <= f /\ cut[Len(cut)].to <= t
    <3>1. SUFFICES ASSUME cut # <<>>
                   PROVE  cut[Len(cut)].from <= f /\ cut[Len(cut)].to <= t
      OBVIOUS
    <3>2. Len(cut) \in DOMAIN cut /\ cut[Len(cut)] \in TextChunk
      BY <1>6, <3>1
    <3>3. f \in start + 1 .. to
      BY <1>7, <1>8, <2>2
    <3>4. cut[Len(cut)].from <= f
      BY <1>11, <2>2, <3>1, <3>3
    <3>5. PICK q \in Nat : q = cut[Len(cut)].to
      BY <3>2 DEF TextChunk
    <3>6. q <= end /\ text[q] # Space
      BY <1>2, <1>11, <3>1, <3>2, <3>5 DEF IsPlaced
    <3>7. q <= start \/ q \in start + 1 .. end
      BY <1>7, <1>8, <3>6
    <3>8. q <= t
      BY <1>7, <2>2, <3>6, <3>7
    <3> QED  BY <3>4, <3>5, <3>8
  <2>7. CutsAdvance'
    <3>1. start' \in start + 1 .. to
      BY <1>4, <1>7, <1>8, <1>9
    <3> QED  BY <1>1, <1>2, <1>5, <1>6, <2>1, <2>3, <2>4, <2>6, <3>1, OneMoreAdvances
  <2>8. \A i \in DOMAIN cut' :
          /\ cut'[i].section = k /\ from <= cut'[i].from
          /\ cut'[i].to <= to /\ IsPlaced(k, cut'[i].from, cut'[i].to)
          /\ Length(cut'[i]) <= size
    <3>1. \A i \in DOMAIN cut' : \/ i \in DOMAIN cut /\ cut'[i] = cut[i]
                                 \/ cut'[i] = c
      BY <1>6, <2>3, <2>4
    <3> QED  BY <1>11, <2>1, <2>3, <2>5, <3>1
  <2>9. \A p \in from .. next : text[p] # Space => Holds(cut', k, p)
    <3>1. SUFFICES ASSUME NEW p \in from .. next, text[p] # Space
                   PROVE  Holds(cut', k, p)
      OBVIOUS
    <3>2. p \in from .. start \/ p \in start + 1 .. end
      BY <1>7, <1>8, <1>9
    <3>3. p \in from .. start \/ p \in c.from .. c.to
      BY <1>14, <3>1, <3>2
    <3> QED  BY <1>6, <1>11, <2>3, <2>4, <3>1, <3>3, HoldsInAppended
  <2>10. next = to => Len(cut') > 1
    <3>1. SUFFICES ASSUME next = to, cut = <<>> PROVE FALSE
      BY <1>6, <2>4
    <3>2. end = to /\ start = from - 1
      BY <1>9, <1>11, <3>1
    <3> QED  BY <1>7, <1>8, <3>2
  <2>11. \A p \in next + 1 .. to : text[p] # Space => f <= p
    <3>1. \A p \in next + 1 .. to : p \in start + 1 .. end \/ end < p
      BY <1>7, <1>8, <1>9
    <3>2. \A p \in next + 1 .. to : end < p => f <= p
      BY <1>7, <1>8, <1>9, <2>2
    <3> QED  BY <2>2, <3>1, <3>2
  <2>12. next < to => t <= Most(next, WindowEnd(start)')
    BY <1>10, <2>2
  <2>13. CutInv'
    BY <1>2, <1>4, <1>5, <1>12, <2>1, <2>4, <2>8, <2>9, <2>10, <2>11, <2>12
       DEF CutInv, SectionText, Length
  <2> QED  BY <2>4, <2>7, <2>13
<1>15. IsStripped(k, text, start, end, Strip(k, text, start, end))
  BY <1>7, <1>8, StripKeepsTheRest
<1>16. cut' \in Seq(TextChunk) /\ CutInv' /\ CutsAdvance'
  BY <1>13, <1>14, <1>15 DEF IsStripped
<1>17. ArtifactInv'
  BY <1>5, <1>6 DEF ArtifactInv
<1>18. start' \in start + 1 .. to
  BY <1>4, <1>7, <1>8, <1>9
<1> QED  BY <1>1, <1>2, <1>5, <1>6, <1>16, <1>17, <1>18, SplittingFrame DEF ChunkInv

-----------------------------------------------------------------------------
(* Theorems                                                                *)

\* The inductive invariant: no step loses a character, breaks the order of the
\* chunks or leaves the job that is split behind.
THEOREM ChunkSpecInv == ChunkSpec => []ChunkInv
<1>1. ChunkInv /\ [ChunkNext]_chunkVars => ChunkInv'
  <2>1. SUFFICES ASSUME ChunkInv, [ChunkNext]_chunkVars PROVE ChunkInv'
    OBVIOUS
  <2>2. CASE KeepShort \/ CutWindow
    BY <2>1, <2>2, KeepShortInv, CutWindowInv
  <2>3. CASE ReceiveDocument \/ NextSection \/ SectionIsSplit \/ EmbeddingBegins
    BY <2>1, <2>3, ReceiveDocumentInv, NextSectionInv, SectionIsSplitInv,
       EmbeddingBeginsInv
  <2>4. CASE Embed \/ SplitPreparedChunk \/ ChunkIsSplit
    BY <2>1, <2>4, EmbedInv, SplitPreparedChunkInv, ChunkIsSplitInv
  <2>5. CASE GiveUp \/ ProviderFails \/ StoreChunks \/ ArtifactIsCut
    BY <2>1, <2>5, OnlyPhaseInv
  <2>6. CASE ReceiveArtifact \/ CutSimple
    BY <2>1, <2>6, ReceiveArtifactInv, CutSimpleInv
  <2>7. CASE UNCHANGED chunkVars
    BY <2>1, <2>7 DEF chunkVars, ChunkInv, ChunkTypeOK, DocInv, JobInv, CutInv,
       ArtifactInv, Pieces, NothingIsLost, PhaseInv, CutsAdvance, SectionText,
       IsPiece, IsPlaced, WindowEnd, Length
  <2> QED  BY <2>1, <2>2, <2>3, <2>4, <2>5, <2>6, <2>7 DEF ChunkNext
<1> QED  BY ChunkInitInv, <1>1, PTL DEF ChunkSpec

\* Every variable keeps its type while texts are cut and embedded.
THEOREM ChunkTypeCorrect == ChunkSpec => []ChunkTypeOK
<1>1. ChunkInv => ChunkTypeOK
  BY DEF ChunkInv
<1> QED  BY ChunkSpecInv, <1>1, PTL

\* No text is lost on the way to the stored chunks, whatever the texts, the sizes
\* and the provider's limit: each is covered by chunks that the provider takes,
\* and an ingestion fails only for a provider that does not take the smallest
\* (split_text_into_chunks, _embed_prepared_chunks, SimpleTextChunker.chunk).
THEOREM TextIsCovered == ChunkSpec => []ChunksCoverText
<1>1. ChunkInv => ChunksCoverText
  <2>1. SUFFICES ASSUME ChunkInv PROVE ChunksCoverText
    OBVIOUS
  <2>2. /\ doc \in [texts: Seq(Seq(STRING)), size: Nat, overlap: Nat, limit: Nat]
        /\ section \in 0 .. Len(doc.texts) /\ embedded \in Seq(TextChunk)
    BY <2>1 DEF ChunkInv, ChunkTypeOK
  <2>3. \A k \in DOMAIN doc.texts : /\ SectionText(k) \in Seq(STRING)
                                    /\ k \in 1 .. Len(doc.texts)
    BY <2>2 DEF SectionText
  <2>4. StoredChunksCoverText
    <3>1. SUFFICES ASSUME phase = "stored" PROVE StoredChunksCoverText
      BY DEF StoredChunksCoverText
    <3>2. pending = <<>> /\ section = Len(doc.texts)
      BY <2>1, <3>1 DEF ChunkInv, PhaseInv
    <3>3. \A k \in DOMAIN doc.texts : \A p \in DOMAIN SectionText(k) :
            SectionText(k)[p] # Space => Holds(embedded, k, p)
      BY <2>1, <2>3, <3>1, <3>2 DEF ChunkInv, NothingIsLost, Holds
    <3>4. \A i \in DOMAIN embedded :
            Length(embedded[i]) \in 1 .. Least(doc.limit, doc.size)
      <4>1. SUFFICES ASSUME NEW i \in DOMAIN embedded
                     PROVE  Length(embedded[i]) \in 1 .. Least(doc.limit, doc.size)
        OBVIOUS
      <4>2. /\ embedded[i].from \in 1 .. embedded[i].to
            /\ Length(embedded[i]) <= doc.size /\ Length(embedded[i]) <= doc.limit
        BY <2>1 DEF ChunkInv, Pieces, IsPiece, IsPlaced
      <4>3. embedded[i] \in TextChunk
        BY <2>2
      <4>4. embedded[i].from \in Nat /\ embedded[i].to \in Nat
        BY <4>3 DEF TextChunk
      <4> QED  BY <2>2, <4>2, <4>4 DEF Least, Length
    <3> QED  BY <3>3, <3>4 DEF StoredChunksCoverText
  <2>5. IngestionsFailForAReason
    <3>1. phase = "tooLong" => doc.limit < MinSize
      BY <2>1 DEF ChunkInv, PhaseInv
    <3>2. ASSUME phase = "empty", NEW k \in DOMAIN doc.texts, SectionText(k) # <<>>
          PROVE  FALSE
      <4>1. /\ pending = <<>> /\ embedded = <<>> /\ section = Len(doc.texts)
        BY <2>1, <3>2 DEF ChunkInv, PhaseInv
      <4>2. SectionText(k)[1] # Space /\ 1 \in DOMAIN SectionText(k)
        BY <2>1, <2>3, <3>2 DEF ChunkInv, DocInv
      <4>3. Holds(embedded, k, 1) \/ Holds(pending, k, 1)
        BY <2>1, <2>3, <3>2, <4>1, <4>2 DEF ChunkInv, NothingIsLost
      <4> QED  BY <4>1, <4>3 DEF Holds
    <3> QED  BY <3>1, <3>2 DEF IngestionsFailForAReason
  <2>6. CutsAdvance
    BY <2>1 DEF ChunkInv
  <2>7. ArtifactChunksCoverText
    <3>1. SUFFICES ASSUME phase = "chunked" PROVE ArtifactChunksCoverText
      BY DEF ArtifactChunksCoverText
    <3>2. /\ section = 1 /\ job # NoJob /\ start = job.to
          /\ \A p \in 1 .. start : Holds(cut, 1, p)
      BY <2>1, <3>1 DEF ChunkInv, ArtifactInv
    <3>3. job.to = Len(SectionText(1))
      BY <2>1, <3>1, <3>2 DEF ChunkInv, JobInv
    <3>4. SectionText(1) \in Seq(STRING)
      BY <2>2, <2>3, <3>2
    <3> QED  BY <3>2, <3>3, <3>4 DEF ArtifactChunksCoverText
  <2> QED  BY <2>4, <2>5, <2>6, <2>7 DEF ChunksCoverText
<1> QED  BY ChunkSpecInv, <1>1, PTL
=============================================================================
