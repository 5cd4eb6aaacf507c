------------------------------ MODULE SmsThread ------------------------------
(***************************************************************************)
(* The SMS exchange with one phone number (services/notifications.py and   *)
(* the Twilio webhook): the completion notice of each run, the inbound     *)
(* replies, the LLM answers and the permanent opt-out.  Notices and        *)
(* replies are handled by coroutines of the one event loop: each keeps the *)
(* loop, blocking database and Twilio calls included, until it awaits the  *)
(* LLM or ends.  A database call that raises ends its coroutine between    *)
(* two commits: the webhook answers 500, and the execution of the run      *)
(* handles its notice's (RunLifecycle).  The preference is stored by a     *)
(* handler in a worker thread.  A conversation row is named by its run, or *)
(* by None when it has no run: there is at most one of each.               *)
(***************************************************************************)
EXTENDS Naturals, FiniteSets

CONSTANTS
  Runs,      \* runs whose completion may be notified, each once
  Messages,  \* inbound messages from the number, each delivered once
  Limit,     \* LLM_REPLY_LIMIT
  Faults,    \* whether the process may restart and the database may fail
  None       \* no value

ASSUME SmsAssumption ==
  /\ Limit \in Nat \ {0}
  /\ Faults \in BOOLEAN
  /\ Runs \intersect Messages = {}
  /\ None \notin Runs \union Messages
  /\ IsFiniteSet(Messages)

VARIABLES
  optedOut,    \* the number has a row in sms_opt_outs
  preference,  \* the stored preference of each run, or a handler storing it
  threads,     \* conversations that exist
  latest,      \* the conversation with the highest id
  count,       \* llm_reply_count of each conversation
  loop,        \* the coroutine that runs on the event loop
  at,          \* how far each notice or reply is
  thread,      \* the conversation it belongs to
  saw,         \* the llm_reply_count it has loaded
  text,        \* what it sends
  record,      \* the status of its outbound row in sms_messages
  sent         \* what Twilio accepted

tables  == <<optedOut, preference, threads, latest, count>>
handler == <<at, thread, saw, text>>
vars    == <<tables, handler, loop, record, sent>>

Jobs    == Runs \union Messages
Threads == Runs \union {None}

TypeOK ==
  /\ optedOut \in BOOLEAN
  /\ preference \in [Runs -> {"none", "checked", "sms"}]
  /\ threads \subseteq Threads /\ latest \in Threads
  /\ count \in [Threads -> Nat]
  /\ loop \in Jobs \union {None}
  /\ at \in [Jobs -> {"new", "received", "classifying", "generating", "ready", "sending",
                      "accepted", "rejected", "over", "raised", "lost"}]
  /\ thread \in [Jobs -> Threads]
  /\ saw \in [Jobs -> Nat]
  /\ text \in [Jobs -> {"none", "notice", "confirmation", "llm", "limit"}]
  /\ record \in [Jobs -> {"none", "skipped", "attempted", "sent", "failed"}]
  /\ sent \subseteq Jobs

Init ==
  /\ optedOut = FALSE
  /\ preference = [r \in Runs |-> "none"]
  /\ threads = {} /\ latest = None
  /\ count = [t \in Threads |-> 0]
  /\ loop = None
  /\ at = [j \in Jobs |-> "new"]
  /\ thread = [j \in Jobs |-> None]
  /\ saw = [j \in Jobs |-> 0]
  /\ text = [j \in Jobs |-> "none"]
  /\ record = [j \in Jobs |-> "none"]
  /\ sent = {}

Goto(j, step) == at' = [at EXCEPT ![j] = step]
Writes(j, what) == text' = [text EXCEPT ![j] = what]

Has(j)    == loop \in {None, j}
Keeps(j)  == Has(j) /\ loop' = j
Yields(j) == Has(j) /\ loop' = None

-----------------------------------------------------------------------------
(* capture_notification_preference, in a worker thread.                      *)

PreferenceChecks(r) ==
  /\ preference[r] = "none" /\ ~optedOut
  /\ preference' = [preference EXCEPT ![r] = "checked"]
  /\ UNCHANGED <<optedOut, threads, latest, count, handler, loop, record, sent>>

PreferenceCommits(r) ==
  /\ preference[r] = "checked"
  /\ preference' = [preference EXCEPT ![r] = "sms"]
  /\ UNCHANGED <<optedOut, threads, latest, count, handler, loop, record, sent>>

PreferenceFails(r) ==
  /\ Faults
  /\ preference[r] = "checked"
  /\ preference' = [preference EXCEPT ![r] = "none"]
  /\ UNCHANGED <<optedOut, threads, latest, count, handler, loop, record, sent>>

PreferenceDeclines(r) ==
  /\ preference[r] = "sms"
  /\ preference' = [preference EXCEPT ![r] = "none"]
  /\ UNCHANGED <<optedOut, threads, latest, count, handler, loop, record, sent>>

-----------------------------------------------------------------------------
(* _record_outbound_message, send_sms and the update of the row.             *)

Prepare_Yields(j) ==
  /\ at[j] = "ready"
  /\ Yields(j)
  /\ record' = [record EXCEPT ![j] = "attempted"]
  /\ Goto(j, "sending")
  /\ UNCHANGED <<tables, thread, saw, text, sent>>

Prepare_Unrecorded(j) ==
  /\ at[j] = "ready"
  /\ Keeps(j)
  /\ Goto(j, "sending")
  /\ UNCHANGED <<tables, thread, saw, text, record, sent>>

Prepare(j) ==
  /\ at[j] = "ready"
  /\ Keeps(j)
  /\ record' = [record EXCEPT ![j] = "attempted"]
  /\ Goto(j, "sending")
  /\ UNCHANGED <<tables, thread, saw, text, sent>>

\* Twilio may accept a message and its answer be lost (timeout).
Send(j) ==
  /\ at[j] = "sending"
  /\ Keeps(j)
  /\ \/ Goto(j, "accepted") /\ sent' = sent \union {j}
     \/ Goto(j, "rejected") /\ sent' \in {sent, sent \union {j}}
  /\ UNCHANGED <<tables, thread, saw, text, record>>

RecordOutcome_OnSuccess(j) ==
  /\ at[j] \in {"accepted", "rejected"}
  /\ Yields(j)
  /\ record' = [record EXCEPT ![j] = IF at[j] = "accepted" THEN "sent" ELSE @]
  /\ Goto(j, "over")
  /\ UNCHANGED <<tables, thread, saw, text, sent>>

RecordOutcome(j) ==
  /\ at[j] \in {"accepted", "rejected"}
  /\ Yields(j)
  /\ record' = [record EXCEPT ![j] = IF at[j] = "accepted" THEN "sent" ELSE "failed"]
  /\ Goto(j, "over")
  /\ UNCHANGED <<tables, thread, saw, text, sent>>

-----------------------------------------------------------------------------
(* maybe_send_completion_notification of a completed run.                    *)

NoticeIsUnwanted(r) ==
  /\ at[r] = "new" /\ preference[r] # "sms"
  /\ Yields(r)
  /\ Goto(r, "over")
  /\ UNCHANGED <<tables, thread, saw, text, record, sent>>

NoticeIsSkipped(r) ==
  /\ at[r] = "new" /\ preference[r] = "sms" /\ optedOut
  /\ Yields(r)
  /\ record' = [record EXCEPT ![r] = "skipped"]
  /\ Goto(r, "over")
  /\ UNCHANGED <<tables, thread, saw, text, sent>>

\* The conversation is committed before the row of the notice.
NoticeStarts(r) ==
  /\ at[r] = "new" /\ preference[r] = "sms" /\ ~optedOut
  /\ Keeps(r)
  /\ threads' = threads \union {r}
  /\ latest' = IF r \in threads THEN latest ELSE r
  /\ thread' = [thread EXCEPT ![r] = r]
  /\ Writes(r, "notice")
  /\ Goto(r, "ready")
  /\ UNCHANGED <<optedOut, preference, count, saw, record, sent>>

-----------------------------------------------------------------------------
(* handle_inbound_sms_reply.                                                 *)

\* The conversation of an inbound message: the latest, or a new one.
Inbound == IF threads = {} THEN None ELSE latest

Joins(m) ==
  /\ threads' = threads \union {Inbound}
  /\ latest' = Inbound
  /\ thread' = [thread EXCEPT ![m] = Inbound]

\* The conversation and the inbound row are committed.
Receive(m) ==
  /\ at[m] = "new"
  /\ Keeps(m)
  /\ Joins(m)
  /\ Goto(m, "received")
  /\ UNCHANGED <<optedOut, preference, count, saw, text, record, sent>>

\* Any text but an exact STOP word is classified by the LLM.
IntentIsAsked(m) ==
  /\ at[m] = "received"
  /\ Yields(m)
  /\ Goto(m, "classifying")
  /\ UNCHANGED <<tables, thread, saw, text, record, sent>>

\* An exact STOP word, without an await, or an opt-out to the LLM: the row of
\* the list is committed before the confirmation is prepared.
OptsOut(m) ==
  /\ at[m] \in {"received", "classifying"}
  /\ Keeps(m)
  /\ optedOut' = TRUE
  /\ Writes(m, "confirmation")
  /\ Goto(m, "ready")
  /\ UNCHANGED <<preference, threads, latest, count, thread, saw, record, sent>>

\* Not an opt-out, or the classification failed: a blocked number gets nothing.
BlockedIsIgnored(m) ==
  /\ at[m] = "classifying" /\ optedOut
  /\ Yields(m)
  /\ Goto(m, "over")
  /\ UNCHANGED <<tables, thread, saw, text, record, sent>>

WithinLimit_OffByOne(m) == count[thread[m]] <= Limit

WithinLimit(m) == count[thread[m]] < Limit

\* The count is loaded here and used after the LLM answered.
ReplyIsRequested(m) ==
  /\ at[m] = "classifying" /\ ~optedOut /\ WithinLimit(m)
  /\ Yields(m)
  /\ saw' = [saw EXCEPT ![m] = count[thread[m]]]
  /\ Goto(m, "generating")
  /\ UNCHANGED <<tables, thread, text, record, sent>>

LimitIsReached(m) ==
  /\ at[m] = "classifying" /\ ~optedOut /\ ~WithinLimit(m)
  /\ Keeps(m)
  /\ Writes(m, "limit")
  /\ Goto(m, "ready")
  /\ UNCHANGED <<tables, thread, saw, record, sent>>

\* The LLM's reply or, if it failed, the fallback: counted, then sent.
ReplyIsCounted_Twice(m) ==
  /\ at[m] = "generating"
  /\ Keeps(m)
  /\ count' = [count EXCEPT ![thread[m]] = saw[m] + 2]
  /\ Writes(m, "llm")
  /\ Goto(m, "ready")
  /\ UNCHANGED <<optedOut, preference, threads, latest, thread, saw, record, sent>>

ReplyIsCounted(m) ==
  /\ at[m] = "generating"
  /\ Keeps(m)
  /\ count' = [count EXCEPT ![thread[m]] = saw[m] + 1]
  /\ Writes(m, "llm")
  /\ Goto(m, "ready")
  /\ UNCHANGED <<optedOut, preference, threads, latest, thread, saw, record, sent>>

-----------------------------------------------------------------------------

\* A database call of a coroutine that has the loop raises, in whatever step:
\* what was committed stays, an attempted row included, and the loop goes on.
DatabaseFails(j) ==
  /\ Faults
  /\ at[j] \notin {"over", "raised", "lost"}
  /\ Yields(j)
  /\ Goto(j, "raised")
  /\ UNCHANGED <<tables, thread, saw, text, record, sent>>

\* A restart ends every handler; the tables stay.
Restart ==
  /\ Faults
  /\ loop' = None
  /\ at' = [j \in Jobs |-> IF at[j] \in {"new", "over", "raised"} THEN at[j] ELSE "lost"]
  /\ preference' = [r \in Runs |-> IF preference[r] = "checked" THEN "none" ELSE preference[r]]
  /\ UNCHANGED <<optedOut, threads, latest, count, thread, saw, text, record, sent>>

NoticeStep(r) == NoticeIsUnwanted(r) \/ NoticeIsSkipped(r) \/ NoticeStarts(r)

MessageStep(m) ==
  \/ Receive(m) \/ IntentIsAsked(m) \/ OptsOut(m) \/ BlockedIsIgnored(m)
  \/ ReplyIsRequested(m) \/ LimitIsReached(m) \/ ReplyIsCounted(m)

SendStep(j) == Prepare(j) \/ Send(j) \/ RecordOutcome(j)

PreferenceStep(r) ==
  \/ PreferenceChecks(r) \/ PreferenceCommits(r)
  \/ PreferenceFails(r) \/ PreferenceDeclines(r)

Next ==
  \/ \E r \in Runs : PreferenceStep(r) \/ NoticeStep(r)
  \/ \E m \in Messages : MessageStep(m)
  \/ \E j \in Jobs : SendStep(j) \/ DatabaseFails(j)
  \/ Restart

Spec == Init /\ [][Next]_vars

\* LLM, database and Twilio calls return or raise, and the loop is fair to its coroutines.
Fairness ==
  /\ \A m \in Messages : WF_vars(at[m] # "new" /\ MessageStep(m))
  /\ \A j \in Jobs : WF_vars(SendStep(j))

FairSpec == Spec /\ Fairness

-----------------------------------------------------------------------------
(* Properties.                                                               *)

\* The LLM replies of a conversation.
Replies(t) == {m \in Messages : text[m] = "llm" /\ thread[m] = t}

\* llm_reply_count never goes over the limit, whichever replies overlap.
CountWithinLimit == \A t \in Threads : count[t] <= Limit

\* llm_reply_count never says more than what was generated: nobody is cut off
\* with the limit message early, even when counting overlaps and restarts.
CountIsBacked == \A t \in Threads : count[t] <= Cardinality(Replies(t))

\* Every SMS that left has its row in sms_messages, and a row that says sent
\* is true, even if the process stops or Twilio's answer is lost.
SentIsRecorded ==
  \A j \in Jobs : /\ j \in sent => record[j] \in {"attempted", "sent", "failed"}
                  /\ record[j] = "sent" => j \in sent

\* "future completion sends to blocked numbers are skipped": no completion
\* notice leaves once the opt-out is committed, although the check of the
\* list, the insert of the row and the send are separate steps.
NoNoticeAfterOptOut ==
  [][optedOut => (sent' \ sent) \intersect Runs = {}]_vars

\* A message that was received is settled, however its handling meets other
\* messages and whatever Twilio and the LLM do: blocked, or answered with an
\* outbound row that says what became of the answer.  A restart or a database
\* call that raises ends the handling, and what it did so far stays.
MessageIsSettled ==
  \A m \in Messages :
    at[m] = "received" ~>
      \/ at[m] = "over" /\ (optedOut \/ record[m] \in {"sent", "failed"})
      \/ at[m] \in {"raised", "lost"}

-----------------------------------------------------------------------------
(* What makes them inductive.                                                *)

LoopIsHeld ==
  \A j \in Jobs :
    at[j] \in {"received", "ready", "sending", "accepted", "rejected"} => loop = j

\* A notice on its way: the number was not opted out when it was checked, and
\* nobody else had the loop since.
NoticeIsAllowed == \A r \in Runs : at[r] \in {"ready", "sending"} => ~optedOut

RowMatchesStep ==
  \A j \in Jobs :
    /\ at[j] \in {"sending", "accepted", "rejected"} => record[j] = "attempted"
    /\ at[j] = "accepted" => j \in sent
    /\ at[j] \in {"new", "received", "classifying", "generating", "ready"} =>
         record[j] = "none" /\ j \notin sent

\* What an answer will write back is below the limit.
SeenIsBelowLimit == \A m \in Messages : at[m] = "generating" => saw[m] < Limit

\* It is no more than what was generated when it was loaded.
SeenIsBacked ==
  \A m \in Messages :
    at[m] = "generating" => saw[m] <= Cardinality(Replies(thread[m]))

UnansweredHasNoText ==
  \A m \in Messages :
    at[m] \in {"new", "received", "classifying", "generating"} => text[m] = "none"

Inv ==
  /\ TypeOK
  /\ CountWithinLimit
  /\ SentIsRecorded
  /\ LoopIsHeld
  /\ NoticeIsAllowed
  /\ RowMatchesStep
  /\ SeenIsBelowLimit
  /\ CountIsBacked
  /\ SeenIsBacked
  /\ UnansweredHasNoText
=============================================================================
