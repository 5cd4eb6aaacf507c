-------------------------- MODULE InviteFulfillment --------------------------
(***************************************************************************)
(* The life of a public invite request: intake (routes/access.py), the     *)
(* background task that issues a code and emails it                        *)
(* (services/invite_fulfillment.py), and the operator who reviews requests *)
(* and issues codes by hand (routes/invitations_admin.py).  Task and       *)
(* handlers run in worker threads; each step below is one commit (or the   *)
(* SMTP exchange), and what a handler read before it may be stale.  The    *)
(* ORM writes a column only if the assigned value differs from the one it  *)
(* loaded.  A restart loses every task and handler and keeps the tables.   *)
(* (Its Init, Next and the like are named after the request, so that it    *)
(* can be extended beside InviteRedemption, which takes up the codes.)     *)
(***************************************************************************)
EXTENDS Naturals, FiniteSets

CONSTANTS
  Requests,   \* invite requests that can be submitted
  Operators,  \* calls of the operator (each is made once)
  CanCrash,   \* whether the process may be restarted
  NoValue        \* no value

ASSUME FulfillmentAssumption ==
  /\ CanCrash \in BOOLEAN
  /\ "task" \notin Operators

VARIABLES
  status,       \* status of each request ("absent" before it is submitted)
  fulfillment,  \* fulfillment_status
  codes,        \* linked invitation codes, named by who created them
  mail,         \* what became of the invite email
  task,         \* where the background task is
  call          \* the operator calls: what each has read

requestVars == <<status, fulfillment, codes, mail, task, call>>

Verdicts == {"reviewed", "approved", "rejected"}
Statuses == {"absent", "submitted", "fulfilled", "email_failed"} \union Verdicts
Kinds    == {"draft", "link"} \union Verdicts
Unmade   == [at |-> "new", kind |-> NoValue, request |-> NoValue, saw |-> NoValue]

RequestTypeOK ==
  /\ status \in [Requests -> Statuses]
  /\ fulfillment \in [Requests -> {"pending", "processing", "sent", "failed"}]
  /\ codes \in [Requests -> SUBSET ({"task"} \union Operators)]
  /\ mail \in [Requests -> {"none", "failed", "sent"}]
  /\ task \in [Requests ->
       {"none", "queued", "started", "coded", "mailed", "failing", "over",
        "raised", "lost"}]
  /\ call \in [Operators ->
       [at : {"open", "over"}, kind : Kinds, request : Requests, saw : Statuses]
         \union {Unmade}]

RequestInit ==
  /\ status = [q \in Requests |-> "absent"]
  /\ fulfillment = [q \in Requests |-> "pending"]
  /\ codes = [q \in Requests |-> {}]
  /\ mail = [q \in Requests |-> "none"]
  /\ task = [q \in Requests |-> "none"]
  /\ call = [o \in Operators |-> Unmade]

Goto(q, step) == task' = [task EXCEPT ![q] = step]

-----------------------------------------------------------------------------
(* The visitor and the background task.                                      *)

\* create_invite_request: the row is committed, then the task is queued.
CreateInviteRequest(q) ==
  /\ status[q] = "absent"
  /\ status' = [status EXCEPT ![q] = "submitted"]
  /\ Goto(q, "queued")
  /\ UNCHANGED <<fulfillment, codes, mail, call>>

\* A request that has a code already is left as it is.
FulfillReturns(q) ==
  /\ task[q] = "queued" /\ codes[q] # {}
  /\ Goto(q, "over")
  /\ UNCHANGED <<status, fulfillment, codes, mail, call>>

FulfillStarts(q) ==
  /\ task[q] = "queued" /\ codes[q] = {}
  /\ fulfillment' = [fulfillment EXCEPT ![q] = "processing"]
  /\ Goto(q, "started")
  /\ UNCHANGED <<status, codes, mail, call>>

\* The code is committed before the email is drafted and sent.
FulfillCreatesCode_Uncommitted(q) ==
  /\ task[q] = "started"
  /\ Goto(q, "coded")
  /\ UNCHANGED <<status, fulfillment, codes, mail, call>>

FulfillCreatesCode(q) ==
  /\ task[q] = "started"
  /\ codes' = [codes EXCEPT ![q] = @ \union {"task"}]
  /\ Goto(q, "coded")
  /\ UNCHANGED <<status, fulfillment, mail, call>>

\* No unique code, an unknown label, or a failing commit.
FulfillCannotCreateCode(q) ==
  /\ task[q] = "started"
  /\ Goto(q, "failing")
  /\ UNCHANGED <<status, fulfillment, codes, mail, call>>

\* Drafting cannot fail (there is a fixed template); SMTP may.
FulfillSends(q) ==
  /\ task[q] = "coded"
  /\ \/ mail' = [mail EXCEPT ![q] = "sent"] /\ Goto(q, "mailed")
     \/ mail' = [mail EXCEPT ![q] = "failed"] /\ Goto(q, "failing")
  /\ UNCHANGED <<status, fulfillment, codes, call>>

FulfillRecords(q) ==
  /\ task[q] = "mailed"
  /\ status' = [status EXCEPT ![q] = "fulfilled"]
  /\ fulfillment' = [fulfillment EXCEPT ![q] = "sent"]
  /\ Goto(q, "over")
  /\ UNCHANGED <<codes, mail, call>>

\* The commit after the email was sent fails: handled as any other failure.
FulfillCannotRecord(q) ==
  /\ task[q] = "mailed"
  /\ Goto(q, "failing")
  /\ UNCHANGED <<status, fulfillment, codes, mail, call>>

\* The except block: rollback, then the failure is recorded.
FulfillFails_AsSent(q) ==
  /\ task[q] = "failing"
  /\ status' = [status EXCEPT ![q] = "fulfilled"]
  /\ fulfillment' = [fulfillment EXCEPT ![q] = "failed"]
  /\ Goto(q, "over")
  /\ UNCHANGED <<codes, mail, call>>

FulfillFails_Silently(q) ==
  /\ task[q] = "failing"
  /\ Goto(q, "over")
  /\ UNCHANGED <<status, fulfillment, codes, mail, call>>

FulfillFails(q) ==
  /\ task[q] = "failing"
  /\ status' = [status EXCEPT ![q] = "email_failed"]
  /\ fulfillment' = [fulfillment EXCEPT ![q] = "failed"]
  /\ Goto(q, "over")
  /\ UNCHANGED <<codes, mail, call>>

\* A database call outside the handled part raises, the ones before the try or
\* those of the except block: the task ends there, and its last commit stands.
FulfillRaises(q) ==
  /\ task[q] \in {"queued", "failing"}
  /\ Goto(q, "raised")
  /\ UNCHANGED <<status, fulfillment, codes, mail, call>>

-----------------------------------------------------------------------------
(* The operator.  A refused call (404, 409) changes nothing and is not a     *)
(* step.                                                                     *)

Reads(o, q, kind) ==
  /\ call[o].at = "new"
  /\ status[q] # "absent"
  /\ call' = [call EXCEPT ![o] =
       [at |-> "open", kind |-> kind, request |-> q, saw |-> status[q]]]
  /\ UNCHANGED <<status, fulfillment, codes, mail, task>>

\* issue_invite_code_draft: refused if a code is linked or status is rejected.
DraftChecks(o, q) == codes[q] = {} /\ status[q] # "rejected" /\ Reads(o, q, "draft")

\* create_invitation_code with an invitation_request_id: neither is checked.
LinkChecks(o, q) == Reads(o, q, "link")

\* review_invite_request.
ReviewChecks(o, q, v) ==
  /\ ~(status[q] = "rejected" /\ v = "approved")
  /\ Reads(o, q, v)

\* The status a call assigns, given what it loaded.
Assigned(k) ==
  CASE k.kind = "draft" -> "approved"
    [] k.kind = "link"  -> IF k.saw = "submitted" THEN "reviewed" ELSE k.saw
    [] OTHER            -> k.kind

CallCommits(o) ==
  LET k == call[o]
      q == k.request IN
  /\ k.at = "open"
  /\ status' = IF Assigned(k) = k.saw THEN status
               ELSE [status EXCEPT ![q] = Assigned(k)]
  /\ codes' = IF k.kind \in Verdicts THEN codes
              ELSE [codes EXCEPT ![q] = @ \union {o}]
  /\ call' = [call EXCEPT ![o].at = "over"]
  /\ UNCHANGED <<fulfillment, mail, task>>

-----------------------------------------------------------------------------
(* A restart: the BackgroundTasks queue and the threads are gone.            *)

Restart ==
  /\ CanCrash
  /\ task' = [q \in Requests |-> 
       IF task[q] \in {"none", "over", "raised"} THEN task[q] ELSE "lost"]
  /\ call' = [o \in Operators |->
       IF call[o].at = "new" THEN call[o] ELSE [call[o] EXCEPT !.at = "over"]]
  /\ UNCHANGED <<status, fulfillment, codes, mail>>

TaskStep(q) ==
  \/ FulfillReturns(q) \/ FulfillStarts(q)
  \/ FulfillCreatesCode(q) \/ FulfillCannotCreateCode(q)
  \/ FulfillSends(q)
  \/ FulfillRecords(q) \/ FulfillCannotRecord(q) \/ FulfillFails(q)
  \/ FulfillRaises(q)

RequestNext ==
  \/ \E q \in Requests : CreateInviteRequest(q) \/ TaskStep(q)
  \/ \E o \in Operators, q \in Requests : DraftChecks(o, q) \/ LinkChecks(o, q)
  \/ \E o \in Operators, q \in Requests, v \in Verdicts : ReviewChecks(o, q, v)
  \/ \E o \in Operators : CallCommits(o)
  \/ Restart

RequestSpec == RequestInit /\ [][RequestNext]_requestVars

\* The response starts the task in a worker thread, and its database, LLM and
\* SMTP calls return or raise: a task that runs takes its next step.
RequestFairness == \A q \in Requests : WF_requestVars(TaskStep(q))

RequestFairSpec == RequestSpec /\ RequestFairness

-----------------------------------------------------------------------------
(* Properties.                                                               *)

\* The email is only attempted once its code is committed, and the code stays
\* whatever happens after: nobody is mailed a code that cannot be redeemed,
\* and a failed send, a failed commit or a restart loses no code (README: "If
\* sending fails, the request and generated code remain persisted").
MailFollowsCode == \A q \in Requests : mail[q] # "none" => "task" \in codes[q]

\* A request is only recorded as fulfilled, or its email as sent, after SMTP
\* took the email, whatever the operator and failures do meanwhile.
FulfilledMeansMailed ==
  \A q \in Requests :
    status[q] = "fulfilled" \/ fulfillment[q] = "sent" => mail[q] = "sent"

\* Every submitted request is settled, whatever drafting, mailing and the
\* commits after the code do: recorded as sent or as failed, unless the
\* operator issued a code for it.  What is not settled is a request whose task
\* a restart lost, or where the database failed before the try or again while
\* the failure was recorded: it stays pending or processing.
RequestIsSettled ==
  \A q \in Requests :
    (task[q] = "queued") ~>
      \/ fulfillment[q] \in {"sent", "failed"}
      \/ codes[q] \intersect Operators # {}
      \/ task[q] \in {"raised", "lost"}

-----------------------------------------------------------------------------
(* What makes them inductive: where the task is tells what has been done.    *)

TaskMatchesTables ==
  \A q \in Requests :
    /\ task[q] \in {"none", "queued", "started", "coded"} => mail[q] = "none"
    /\ task[q] \in {"coded", "mailed"} => "task" \in codes[q]
    /\ task[q] = "mailed" => mail[q] = "sent"

AbsentHasNoTask == \A q \in Requests : status[q] = "absent" => task[q] = "none"

RequestInv ==
  /\ RequestTypeOK
  /\ MailFollowsCode
  /\ FulfilledMeansMailed
  /\ TaskMatchesTables
  /\ AbsentHasNoTask
=============================================================================
