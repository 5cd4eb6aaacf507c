---------------------------- MODULE RunLifecycle ----------------------------
(***************************************************************************)
(* One persisted demo run and the API calls made on it (routes/runs.py,    *)
(* services/runs.py, workflow_executor.py, follow_up.py).  Handlers are of *)
(* two kinds.  update, sample, notification-preference and follow-up are   *)
(* plain functions: they run in worker threads, and between the load of    *)
(* the row and the commit anything may happen.  ingest, submit and execute *)
(* are coroutines of the one event loop: a coroutine keeps the loop, its   *)
(* blocking database calls included, from one await to the next.  A call   *)
(* the code refuses (404, 409, 400) changes nothing and is not a step.     *)
(* A text is named by the call that wrote it.                              *)
(***************************************************************************)
EXTENDS Naturals, FiniteSets

CONSTANTS
  Calls,   \* API calls on the run, each made once
  Faults,  \* whether the process may restart and the database may fail
  None     \* no value

ASSUME RunAssumption ==
  /\ Faults \in BOOLEAN
  /\ None \notin Calls
  /\ "pasted" \notin Calls

VARIABLES
  status,      \* Run.status
  input,       \* Run.input_text
  normalized,  \* Run.normalized_input_text
  brief,       \* the text Run.output_brief_serialized was made from, as a set
  wantsSms,    \* Run.notification_preference_serialized: wants_sms
  followUps,   \* Run.follow_up_count
  loop,        \* the coroutine that runs on the event loop
  at,          \* how far each call is
  held,        \* the text an execution has read and will use
  answered,    \* follow-up calls that were answered
  notified     \* calls that went on to send the completion SMS

row   == <<status, input, normalized, brief, wantsSms, followUps>>
calls == <<loop, at, held, answered, notified>>
vars  == <<row, calls>>

Texts     == Calls \union {"pasted", None}
Executing == {"started", "working", "briefed", "completed"}
Finishing == {"processed", "notifying"}
InSession == {"submitted"} \union Executing \union Finishing
Threads   == {"updating", "sampling", "answering", "choosing", "refusing"}

TypeOK ==
  /\ status \in {"draft", "submitted", "processing", "completed", "failed"}
  /\ input \in Texts /\ normalized \in Texts
  /\ brief \in SUBSET Texts
  /\ wantsSms \in BOOLEAN
  /\ followUps \in 0..1
  /\ loop \in Calls \union {None}
  /\ at \in [Calls -> {"new", "ingesting", "over", "lost"} \union InSession \union Threads]
  /\ held \in [Calls -> Texts]
  /\ answered \subseteq Calls /\ notified \subseteq Calls

\* create_run.
Init ==
  /\ status = "draft"
  /\ input \in {"pasted", None} /\ normalized = None
  /\ brief = {} /\ wantsSms = FALSE /\ followUps = 0
  /\ loop = None
  /\ at = [c \in Calls |-> "new"]
  /\ held = [c \in Calls |-> None]
  /\ answered = {} /\ notified = {}

Goto(c, step) == at' = [at EXCEPT ![c] = step]

\* The coroutine c runs, either because it has the loop or because it is free.
Runs(c)   == loop \in {None, c}
Keeps(c)  == Runs(c) /\ loop' = c
Yields(c) == Runs(c) /\ loop' = None

Editable_Completed == status \in {"draft", "failed", "completed"}

Editable == status \in {"draft", "failed"}

-----------------------------------------------------------------------------
(* Handlers in worker threads: load and check, later commit.                 *)

Load(c, step) ==
  /\ at[c] = "new"
  /\ Goto(c, step)
  /\ UNCHANGED <<row, loop, held, answered, notified>>

\* update_run_draft checks no status, apply_sample_chaos_to_run does.
UpdateLoads(c) == Load(c, "updating")
SampleLoads(c) == Editable /\ Load(c, "sampling")

\* capture_notification_preference, with wants_sms true or false.
ChooseLoads(c) == \E step \in {"choosing", "refusing"} : Load(c, step)

UpdateCommits(c) ==
  /\ at[c] = "updating"
  /\ input' \in {c, None}
  /\ Goto(c, "over")
  /\ UNCHANGED <<status, normalized, brief, wantsSms, followUps, loop, held, answered, notified>>

SampleCommits(c) ==
  /\ at[c] = "sampling"
  /\ input' = c /\ normalized' = c
  /\ Goto(c, "over")
  /\ UNCHANGED <<status, brief, wantsSms, followUps, loop, held, answered, notified>>

ChooseCommits(c) ==
  /\ at[c] \in {"choosing", "refusing"}
  /\ wantsSms' = (at[c] = "choosing")
  /\ Goto(c, "over")
  /\ UNCHANGED <<status, input, normalized, brief, followUps, loop, held, answered, notified>>

\* answer_follow_up.
FollowUpLoads(c) ==
  /\ status = "completed" /\ brief # {} /\ followUps < 1
  /\ Load(c, "answering")

FollowUpCommits_Uncounted(c) ==
  /\ at[c] = "answering"
  /\ answered' = answered \union {c}
  /\ Goto(c, "over")
  /\ UNCHANGED <<status, input, normalized, brief, wantsSms, followUps, loop, held, notified>>

FollowUpCommits(c) ==
  /\ at[c] = "answering"
  /\ followUps' = 1
  /\ answered' = answered \union {c}
  /\ Goto(c, "over")
  /\ UNCHANGED <<status, input, normalized, brief, wantsSms, loop, held, notified>>

-----------------------------------------------------------------------------
(* ingest: the status is checked, uploads are read (await), then the row is  *)
(* written.  Nothing accepted leaves no normalized text.                     *)

IngestChecks(c) ==
  /\ at[c] = "new" /\ Editable
  /\ Yields(c)
  /\ Goto(c, "ingesting")
  /\ UNCHANGED <<row, held, answered, notified>>

IngestCommits(c) ==
  /\ at[c] = "ingesting"
  /\ Yields(c)
  /\ \/ input' \in {c, None} /\ normalized' = c
     \/ input' = None /\ normalized' = None
  /\ Goto(c, "over")
  /\ UNCHANGED <<status, brief, wantsSms, followUps, held, answered, notified>>

\* Reading an upload, or the text-tools service, fails.
IngestFails(c) ==
  /\ at[c] = "ingesting"
  /\ Yields(c)
  /\ Goto(c, "over")
  /\ UNCHANGED <<row, held, answered, notified>>

-----------------------------------------------------------------------------
(* submit and execute.                                                       *)

\* submit_run, with or without a text.  The coroutine does not await between
\* this commit and the start of the execution.
SubmitCommits_Yields(c) ==
  /\ at[c] = "new" /\ Editable
  /\ Yields(c)
  /\ status' = "submitted"
  /\ input' \in {input, c, None}
  /\ Goto(c, "submitted")
  /\ UNCHANGED <<normalized, brief, wantsSms, followUps, held, answered, notified>>

SubmitCommits(c) ==
  /\ at[c] = "new" /\ Editable
  /\ Keeps(c)
  /\ status' = "submitted"
  /\ input' \in {input, c, None}
  /\ Goto(c, "submitted")
  /\ UNCHANGED <<normalized, brief, wantsSms, followUps, held, answered, notified>>

\* execute_run_workflow: a submitted call goes on, an execute call starts here.
Executable == status \in {"draft", "submitted", "failed"}

ExecStarts(c) ==
  /\ at[c] \in {"new", "submitted"}
  /\ at[c] = "new" => Executable
  /\ Keeps(c)
  /\ status' = "processing"
  /\ Goto(c, "started")
  /\ UNCHANGED <<input, normalized, brief, wantsSms, followUps, held, answered, notified>>

\* The row is loaded again before the first agent call is awaited.
ExecReads(c) ==
  /\ at[c] = "started"
  /\ Yields(c)
  /\ held' = [held EXCEPT ![c] = IF normalized # None THEN normalized ELSE input]
  /\ Goto(c, "working")
  /\ UNCHANGED <<row, answered, notified>>

\* After the last agent call: no await until the response.
ExecWritesBrief_Uncommitted(c) ==
  /\ at[c] = "working"
  /\ Keeps(c)
  /\ Goto(c, "briefed")
  /\ UNCHANGED <<row, held, answered, notified>>

ExecWritesBrief(c) ==
  /\ at[c] = "working"
  /\ Keeps(c)
  /\ brief' = {held[c]}
  /\ Goto(c, "briefed")
  /\ UNCHANGED <<status, input, normalized, wantsSms, followUps, held, answered, notified>>

ExecCompletes_Notifies(c) ==
  /\ at[c] = "briefed"
  /\ Keeps(c)
  /\ status' = "completed"
  /\ notified' = IF wantsSms THEN notified \union {c} ELSE notified
  /\ Goto(c, "completed")
  /\ UNCHANGED <<input, normalized, brief, wantsSms, followUps, held, answered>>

ExecCompletes(c) ==
  /\ at[c] = "briefed"
  /\ Keeps(c)
  /\ status' = "completed"
  /\ Goto(c, "completed")
  /\ UNCHANGED <<input, normalized, brief, wantsSms, followUps, held, answered, notified>>

\* _run_post_processors and the final refresh: the preference is read here.
ExecAudits(c) ==
  /\ at[c] = "completed"
  /\ Keeps(c)
  /\ Goto(c, IF wantsSms THEN "notifying" ELSE "processed")
  /\ UNCHANGED <<row, held, answered, notified>>

\* The workflow of an execute call is not in the registry.
WorkflowIsUnknown(c) ==
  /\ at[c] = "new" /\ Executable
  /\ Yields(c)
  /\ status' = "failed"
  /\ Goto(c, "over")
  /\ UNCHANGED <<input, normalized, brief, wantsSms, followUps, held, answered, notified>>

\* The except block covers everything since the status check, the audit too.
ExecFails_Silently(c) ==
  /\ at[c] \in {"submitted"} \union Executing
  /\ Yields(c)
  /\ Goto(c, "over")
  /\ UNCHANGED <<row, held, answered, notified>>

ExecFails(c) ==
  /\ at[c] \in {"submitted"} \union Executing
  /\ Yields(c)
  /\ status' = "failed"
  /\ Goto(c, "over")
  /\ UNCHANGED <<input, normalized, brief, wantsSms, followUps, held, answered, notified>>

\* maybe_send_completion_notification, with the row as last refreshed.
Notify(c) ==
  /\ at[c] \in Finishing
  /\ Yields(c)
  /\ notified' = IF at[c] = "notifying" THEN notified \union {c} ELSE notified
  /\ Goto(c, "over")
  /\ UNCHANGED <<row, held, answered>>

-----------------------------------------------------------------------------
(* Faults.                                                                   *)

\* A commit fails and so does the one of the except block: the row stays.
DatabaseFails(c) ==
  /\ Faults
  /\ at[c] \in InSession \union Threads
  /\ at[c] \in InSession => Runs(c)
  /\ loop' = IF loop = c THEN None ELSE loop
  /\ Goto(c, "lost")
  /\ UNCHANGED <<row, held, answered, notified>>

Restart ==
  /\ Faults
  /\ loop' = None
  /\ at' = [c \in Calls |-> IF at[c] \in {"new", "over"} THEN at[c] ELSE "lost"]
  /\ UNCHANGED <<row, held, answered, notified>>

ThreadStep(c) ==
  \/ UpdateLoads(c) \/ UpdateCommits(c)
  \/ SampleLoads(c) \/ SampleCommits(c)
  \/ ChooseLoads(c) \/ ChooseCommits(c)
  \/ FollowUpLoads(c) \/ FollowUpCommits(c)

IngestStep(c) == IngestChecks(c) \/ IngestCommits(c) \/ IngestFails(c)

\* What a call that executes the run does once it has started.
ExecStep(c) ==
  \/ ExecReads(c) \/ ExecWritesBrief(c) \/ ExecCompletes(c)
  \/ ExecAudits(c) \/ ExecFails(c) \/ Notify(c)

Next ==
  \/ \E c \in Calls :
       \/ ThreadStep(c) \/ IngestStep(c)
       \/ SubmitCommits(c) \/ ExecStarts(c) \/ WorkflowIsUnknown(c) \/ ExecStep(c)
       \/ DatabaseFails(c)
  \/ Restart

Spec == Init /\ [][Next]_vars

\* Agent calls have a timeout or raise, database calls return or raise, and
\* the loop is fair to its coroutines: a call that executes takes its steps.
Fairness == \A c \in Calls :
  /\ WF_vars(ExecStep(c))
  /\ WF_vars(at[c] = "submitted" /\ ExecStarts(c))

FairSpec == Spec /\ Fairness

-----------------------------------------------------------------------------
(* Properties.                                                               *)

\* Two calls never execute the run at the same time, however submit, execute
\* and their retries interleave: between the status check and the commit of
\* "processing" the coroutine does not await.
ExclusiveExecution ==
  \A c, d \in Calls : at[c] \in Executing /\ at[d] \in Executing => c = d

\* A run that is shown as completed has a brief, across failures, restarts
\* and executions again.
CompletedHasBrief == status = "completed" => brief # {}

\* Once somebody was sent "Your messy-notes run is complete" the run is and
\* stays complete, and the message is sent once.
NoticeIsTrue ==
  notified # {} => status = "completed" /\ \A c, d \in notified : c = d

\* No call takes a completed run back, except the execution that completed it
\* (its audit may fail).
CompletedIsKept ==
  [][status = "completed" /\ (\A c \in Calls : at[c] \notin Executing)
       => status' = "completed"]_vars

\* README: "second follow-ups are rejected".  Once one was answered no other is
\* let in, whatever is edited, ingested, executed or restarted in between
\* (calls that were let in before may still be answered).
AnsweredRunTakesNoMore ==
  [][answered # {} =>
       \A c \in Calls : at'[c] = "answering" => at[c] = "answering"]_vars

\* An execution ends: the run does not stay in processing, unless a restart or
\* a database that is down lost the call.
ProcessingEnds ==
  \A c \in Calls :
    at[c] = "started" ~> status \in {"completed", "failed"} \/ at[c] = "lost"

-----------------------------------------------------------------------------
(* What makes them inductive.                                                *)

\* The coroutine that is past an await-free commit has the loop.
LoopIsHeld ==
  \A c \in Calls :
    at[c] \in InSession \ {"working"} => loop = c

\* What an execution's step says of the row.
StepMatchesRow ==
  \A c \in Calls :
    /\ at[c] = "submitted" => status = "submitted"
    /\ at[c] \in {"started", "working", "briefed"} => status = "processing"
    /\ at[c] \in {"completed"} \union Finishing => status = "completed" /\ brief # {}
    /\ at[c] = "briefed" => brief # {}

AnswersAreCounted == answered # {} => followUps = 1

\* Nothing is sent before the execution that completed the run is over.
NoticeComesLast ==
  notified # {} => \A c \in Calls : at[c] \notin InSession

Inv ==
  /\ TypeOK
  /\ ExclusiveExecution
  /\ CompletedHasBrief
  /\ NoticeIsTrue
  /\ LoopIsHeld
  /\ StepMatchesRow
  /\ NoticeComesLast
  /\ AnswersAreCounted
=============================================================================
