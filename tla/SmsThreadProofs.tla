-------------------------- MODULE SmsThreadProofs --------------------------
(***************************************************************************)
(* Proofs about SmsThread, for any number of runs, messages and any limit. *)
(* The limit of the counter rests on what a handler loaded before the LLM  *)
(* call (SeenIsBelowLimit); that no notice follows an opt-out rests on who *)
(* has the loop between the check and the send (LoopIsHeld).               *)
(***************************************************************************)
EXTENDS SmsThread, FiniteSetTheorems, TLAPS

USE SmsAssumption

\* The parts of the invariant about the exchange.
ThreadInv ==
  /\ CountWithinLimit
  /\ SentIsRecorded
  /\ LoopIsHeld
  /\ NoticeIsAllowed
  /\ RowMatchesStep
  /\ SeenIsBelowLimit
  /\ UnansweredHasNoText

\* A number nobody has written to satisfies the invariant.
LEMMA InitInv == Init => Inv
<1> SUFFICES ASSUME Init PROVE Inv
    OBVIOUS
<1> USE DEF Init
<1>1. optedOut \in BOOLEAN /\ threads \subseteq Threads
    BY Zenon
<1>2. TypeOK
    BY <1>1 DEF TypeOK, Threads, Jobs
<1>3. CountWithinLimit /\ SentIsRecorded /\ LoopIsHeld
    BY DEF CountWithinLimit, SentIsRecorded, LoopIsHeld, Threads, Jobs
<1>4. NoticeIsAllowed /\ RowMatchesStep /\ SeenIsBelowLimit /\ UnansweredHasNoText
    BY DEF NoticeIsAllowed, RowMatchesStep, SeenIsBelowLimit, UnansweredHasNoText, Jobs
<1>5. \A t \in Threads : Replies(t) = {}
    BY DEF Replies, Jobs
<1>6. CountIsBacked
    BY <1>2, <1>5, FS_EmptySet DEF CountIsBacked, TypeOK
<1>7. SeenIsBacked
    BY DEF SeenIsBacked, Jobs
<1>. QED
    BY <1>2, <1>3, <1>4, <1>6, <1>7 DEF Inv

\* Every step keeps the types.
LEMMA StepTypes == TypeOK /\ [Next]_vars => TypeOK'
<1> SUFFICES ASSUME TypeOK, [Next]_vars PROVE TypeOK'
    OBVIOUS
<1> USE DEF TypeOK, Threads, Jobs, Goto, tables, handler
<1>1. ASSUME NEW r \in Runs, PreferenceChecks(r) PROVE TypeOK'
    BY <1>1 DEF PreferenceChecks
<1>2. ASSUME NEW r \in Runs, PreferenceCommits(r) PROVE TypeOK'
    BY <1>2 DEF PreferenceCommits
<1>3. ASSUME NEW r \in Runs, PreferenceDeclines(r) PROVE TypeOK'
    BY <1>3 DEF PreferenceDeclines
<1>4. ASSUME NEW r \in Runs, NoticeIsUnwanted(r) PROVE TypeOK'
    BY <1>4 DEF NoticeIsUnwanted, Yields, Has
<1>5. ASSUME NEW r \in Runs, NoticeIsSkipped(r) PROVE TypeOK'
    BY <1>5 DEF NoticeIsSkipped, Yields, Has
<1>6. ASSUME NEW r \in Runs, NoticeStarts(r) PROVE TypeOK'
    BY <1>6 DEF NoticeStarts, Keeps, Has, Writes
<1>7. ASSUME NEW m \in Messages, Receive(m) PROVE TypeOK'
    BY <1>7 DEF Receive, Joins, Inbound, Keeps, Has
<1>8. ASSUME NEW m \in Messages, IntentIsAsked(m) PROVE TypeOK'
    BY <1>8 DEF IntentIsAsked, Yields, Has
<1>9. ASSUME NEW m \in Messages, OptsOut(m) PROVE TypeOK'
    BY <1>9 DEF OptsOut, Keeps, Has, Writes
<1>10. ASSUME NEW m \in Messages, BlockedIsIgnored(m) PROVE TypeOK'
    BY <1>10 DEF BlockedIsIgnored, Yields, Has
<1>11. ASSUME NEW m \in Messages, ReplyIsRequested(m) PROVE TypeOK'
    BY <1>11 DEF ReplyIsRequested, WithinLimit, Yields, Has
<1>12. ASSUME NEW m \in Messages, LimitIsReached(m) PROVE TypeOK'
    BY <1>12 DEF LimitIsReached, WithinLimit, Keeps, Has, Writes
<1>13. ASSUME NEW m \in Messages, ReplyIsCounted(m) PROVE TypeOK'
    BY <1>13 DEF ReplyIsCounted, Keeps, Has, Writes
<1>14. ASSUME NEW j \in Jobs, Prepare(j) PROVE TypeOK'
    BY <1>14 DEF Prepare, Keeps, Has
<1>15. ASSUME NEW j \in Jobs, Send(j) PROVE TypeOK'
    BY <1>15 DEF Send, Keeps, Has
<1>16. ASSUME NEW j \in Jobs, RecordOutcome(j) PROVE TypeOK'
    BY <1>16 DEF RecordOutcome, Yields, Has
<1>17. ASSUME NEW j \in Jobs, DatabaseFails(j) PROVE TypeOK'
    BY <1>17 DEF DatabaseFails, Yields, Has
<1>18. ASSUME NEW r \in Runs, PreferenceFails(r) PROVE TypeOK'
    BY <1>18 DEF PreferenceFails
<1>19. CASE Restart
    BY <1>19 DEF Restart
<1>20. CASE UNCHANGED vars
    BY <1>20 DEF vars
<1>. QED
    BY <1>1, <1>2, <1>3, <1>4, <1>5, <1>6, <1>7, <1>8, <1>9, <1>10, <1>11, <1>12, <1>13, <1>14, <1>15, <1>16, <1>17, <1>18, <1>19, <1>20
    DEF Next, PreferenceStep, NoticeStep, MessageStep, SendStep

\* Every step keeps the parts about the exchange.
LEMMA StepThread == Inv /\ [Next]_vars => ThreadInv'
<1> SUFFICES ASSUME Inv, [Next]_vars PROVE ThreadInv'
    OBVIOUS
<1> USE DEF Inv, TypeOK, Threads, Jobs, Goto, tables, handler, ThreadInv, CountWithinLimit,
            SentIsRecorded, LoopIsHeld, NoticeIsAllowed, RowMatchesStep, SeenIsBelowLimit,
            UnansweredHasNoText
<1>1. ASSUME NEW r \in Runs, PreferenceChecks(r) PROVE ThreadInv'
    BY <1>1 DEF PreferenceChecks
<1>2. ASSUME NEW r \in Runs, PreferenceCommits(r) PROVE ThreadInv'
    BY <1>2 DEF PreferenceCommits
<1>3. ASSUME NEW r \in Runs, PreferenceDeclines(r) PROVE ThreadInv'
    BY <1>3 DEF PreferenceDeclines
<1>4. ASSUME NEW r \in Runs, NoticeIsUnwanted(r) PROVE ThreadInv'
    BY <1>4 DEF NoticeIsUnwanted, Yields, Has
<1>5. ASSUME NEW r \in Runs, NoticeIsSkipped(r) PROVE ThreadInv'
    BY <1>5 DEF NoticeIsSkipped, Yields, Has
<1>6. ASSUME NEW r \in Runs, NoticeStarts(r) PROVE ThreadInv'
    BY <1>6 DEF NoticeStarts, Keeps, Has, Writes
<1>7. ASSUME NEW m \in Messages, Receive(m) PROVE ThreadInv'
    BY <1>7 DEF Receive, Joins, Inbound, Keeps, Has
<1>8. ASSUME NEW m \in Messages, IntentIsAsked(m) PROVE ThreadInv'
    BY <1>8 DEF IntentIsAsked, Yields, Has
<1>9. ASSUME NEW m \in Messages, OptsOut(m) PROVE ThreadInv'
    BY <1>9 DEF OptsOut, Keeps, Has, Writes
<1>10. ASSUME NEW m \in Messages, BlockedIsIgnored(m) PROVE ThreadInv'
    BY <1>10 DEF BlockedIsIgnored, Yields, Has
<1>11. ASSUME NEW m \in Messages, ReplyIsRequested(m) PROVE ThreadInv'
    BY <1>11 DEF ReplyIsRequested, WithinLimit, Yields, Has
<1>12. ASSUME NEW m \in Messages, LimitIsReached(m) PROVE ThreadInv'
    BY <1>12 DEF LimitIsReached, WithinLimit, Keeps, Has, Writes
<1>13. ASSUME NEW m \in Messages, ReplyIsCounted(m) PROVE ThreadInv'
    BY <1>13 DEF ReplyIsCounted, Keeps, Has, Writes
<1>14. ASSUME NEW j \in Jobs, Prepare(j) PROVE ThreadInv'
    BY <1>14 DEF Prepare, Keeps, Has
<1>15. ASSUME NEW j \in Jobs, Send(j) PROVE ThreadInv'
    BY <1>15 DEF Send, Keeps, Has
<1>16. ASSUME NEW j \in Jobs, RecordOutcome(j) PROVE ThreadInv'
    BY <1>16 DEF RecordOutcome, Yields, Has
<1>17. ASSUME NEW j \in Jobs, DatabaseFails(j) PROVE ThreadInv'
    BY <1>17 DEF DatabaseFails, Yields, Has
<1>18. ASSUME NEW r \in Runs, PreferenceFails(r) PROVE ThreadInv'
    BY <1>18 DEF PreferenceFails
<1>19. CASE Restart
    BY <1>19 DEF Restart
<1>20. CASE UNCHANGED vars
    BY <1>20 DEF vars
<1>. QED
    BY <1>1, <1>2, <1>3, <1>4, <1>5, <1>6, <1>7, <1>8, <1>9, <1>10, <1>11, <1>12, <1>13, <1>14, <1>15, <1>16, <1>17, <1>18, <1>19, <1>20
    DEF Next, PreferenceStep, NoticeStep, MessageStep, SendStep

\* A reply that was generated stays one of its thread.
LEMMA RepliesStay ==
  ASSUME Inv, [Next]_vars
  PROVE  \A m \in Messages :
           text[m] = "llm" => text'[m] = "llm" /\ thread'[m] = thread[m]
<1> SUFFICES ASSUME NEW d \in Messages, text[d] = "llm"
             PROVE  text'[d] = "llm" /\ thread'[d] = thread[d]
    OBVIOUS
<1> USE DEF Inv, TypeOK, Jobs, UnansweredHasNoText, tables, handler, Goto
<1>1. ASSUME NEW r \in Runs, PreferenceStep(r) \/ NoticeStep(r)
      PROVE  text'[d] = "llm" /\ thread'[d] = thread[d]
    BY <1>1 DEF PreferenceStep, PreferenceChecks, PreferenceCommits,
       PreferenceFails, PreferenceDeclines,
       NoticeStep, NoticeIsUnwanted, NoticeIsSkipped, NoticeStarts, Writes
<1>2. ASSUME NEW m \in Messages, MessageStep(m)
      PROVE  text'[d] = "llm" /\ thread'[d] = thread[d]
    BY <1>2 DEF MessageStep, Receive, IntentIsAsked, OptsOut, BlockedIsIgnored,
       ReplyIsRequested, LimitIsReached, ReplyIsCounted, Joins, Writes
<1>3. ASSUME NEW j \in Jobs, SendStep(j) \/ DatabaseFails(j)
      PROVE  text'[d] = "llm" /\ thread'[d] = thread[d]
    BY <1>3 DEF SendStep, Prepare, Send, RecordOutcome, DatabaseFails
<1>. QED
    BY <1>1, <1>2, <1>3 DEF Next, Restart, vars

\* Every step keeps the counter, and what was loaded of it, backed by replies.
LEMMA StepCounts == Inv /\ [Next]_vars => CountIsBacked' /\ SeenIsBacked'
<1> SUFFICES ASSUME Inv, [Next]_vars PROVE CountIsBacked' /\ SeenIsBacked'
    OBVIOUS
<1> DEFINE After(t) == {m \in Messages : text'[m] = "llm" /\ thread'[m] = t}
<1>1. \A t : Replies(t) \subseteq After(t)
    BY RepliesStay DEF Replies
<1>2. \A t : IsFiniteSet(Replies(t)) /\ IsFiniteSet(After(t))
    BY FS_Subset DEF Replies
<1>3. \A t : /\ Cardinality(Replies(t)) <= Cardinality(After(t))
             /\ Cardinality(Replies(t)) \in Nat /\ Cardinality(After(t)) \in Nat
    BY <1>1, <1>2, FS_Subset, FS_CardinalityType
<1>4. /\ (\A t \in Threads : count'[t] <= Cardinality(After(t))) => CountIsBacked'
      /\ (\A m \in Messages : at'[m] = "generating" => saw'[m] <= Cardinality(After(thread'[m])))
           => SeenIsBacked'
    BY DEF CountIsBacked, SeenIsBacked, Replies
<1> HIDE DEF After
<1>5. CASE \E m \in Messages : ReplyIsCounted(m)
  <2>1. PICK m \in Messages : ReplyIsCounted(m)
    BY <1>5
  <2>2. /\ thread[m] \in Threads /\ saw[m] \in Nat
        /\ saw[m] <= Cardinality(Replies(thread[m]))
        /\ m \notin Replies(thread[m])
    BY <2>1 DEF ReplyIsCounted, Inv, TypeOK, Jobs, SeenIsBacked, UnansweredHasNoText, Replies
  <2>3. m \in After(thread[m])
    BY <2>1 DEF ReplyIsCounted, Writes, After, Inv, TypeOK, Jobs
  <2>4. Cardinality(Replies(thread[m]) \union {m}) = Cardinality(Replies(thread[m])) + 1
    BY <1>2, <2>2, FS_AddElement
  <2>5. Cardinality(Replies(thread[m])) + 1 <= Cardinality(After(thread[m]))
    BY <1>1, <1>2, <2>3, <2>4, FS_Subset
  <2>6. \A t \in Threads : count'[t] <= Cardinality(After(t))
    BY <1>3, <2>1, <2>2, <2>5 DEF ReplyIsCounted, Inv, TypeOK, CountIsBacked
  <2>7. \A n \in Messages : at'[n] = "generating" => saw'[n] <= Cardinality(After(thread'[n]))
    BY <1>3, <2>1 DEF ReplyIsCounted, Goto, Inv, TypeOK, Jobs, SeenIsBacked
  <2>. QED
    BY <1>4, <2>6, <2>7
<1>6. CASE \E m \in Messages : ReplyIsRequested(m)
  <2>1. PICK m \in Messages : ReplyIsRequested(m)
    BY <1>6
  <2>2. \A t \in Threads : count'[t] <= Cardinality(After(t))
    BY <1>3, <2>1 DEF ReplyIsRequested, tables, Inv, TypeOK, CountIsBacked
  <2>3. \A n \in Messages : at'[n] = "generating" => saw'[n] <= Cardinality(After(thread'[n]))
    BY <1>3, <2>1
       DEF ReplyIsRequested, Goto, tables, Inv, TypeOK, Jobs, SeenIsBacked, CountIsBacked
  <2>. QED
    BY <1>4, <2>2, <2>3
<1>7. CASE \A m \in Messages : ~ReplyIsCounted(m) /\ ~ReplyIsRequested(m)
  <2> DEFINE Kept ==
        /\ UNCHANGED <<count, saw>>
        /\ \A n \in Messages :
             at'[n] = "generating" => at[n] = "generating" /\ thread'[n] = thread[n]
  <2>1. Kept
    <3> USE <1>7 DEF Inv, TypeOK, Jobs, tables, handler, Goto
    <3>1. ASSUME NEW r \in Runs, PreferenceStep(r) \/ NoticeStep(r) PROVE Kept
      BY <3>1, SmsAssumption DEF PreferenceStep, PreferenceChecks, PreferenceCommits, PreferenceFails,
         PreferenceDeclines, NoticeStep, NoticeIsUnwanted, NoticeIsSkipped, NoticeStarts
    <3>2. ASSUME NEW m \in Messages, MessageStep(m) PROVE Kept
      BY <3>2 DEF MessageStep, Receive, IntentIsAsked, OptsOut, BlockedIsIgnored,
         LimitIsReached, Joins
    <3>3. ASSUME NEW j \in Jobs, SendStep(j) \/ DatabaseFails(j) PROVE Kept
      BY <3>3 DEF SendStep, Prepare, Send, RecordOutcome, DatabaseFails
    <3>. QED
      BY <3>1, <3>2, <3>3 DEF Next, Restart, vars
  <2>2. \A t \in Threads : count'[t] <= Cardinality(After(t))
    BY <1>3, <2>1 DEF Inv, TypeOK, CountIsBacked
  <2>3. \A n \in Messages : at'[n] = "generating" => saw'[n] <= Cardinality(After(thread'[n]))
    BY <1>3, <2>1 DEF Inv, TypeOK, Jobs, SeenIsBacked
  <2>. QED
    BY <1>4, <2>2, <2>3
<1>. QED
    BY <1>5, <1>6, <1>7

\* The invariant holds of every exchange.
THEOREM SpecInv == Spec => []Inv
<1>1. Inv /\ [Next]_vars => Inv'
    BY StepTypes, StepThread, StepCounts DEF Inv, ThreadInv
<1>. QED
    BY InitInv, <1>1, PTL DEF Spec

\* The rows of the SMS tables keep their types (models/sms.py).
THEOREM TypeCorrect == Spec => []TypeOK
<1>1. Inv => TypeOK
  BY DEF Inv
<1>. QED BY <1>1, SpecInv, PTL

\* llm_reply_count stays within LLM_REPLY_LIMIT in every interleaving.
THEOREM CounterStaysWithinLimit == Spec => []CountWithinLimit
<1>1. Inv => CountWithinLimit
    BY DEF Inv
<1>. QED
    BY SpecInv, <1>1, PTL

\* llm_reply_count never claims a reply that was not generated, for any number
\* of overlapping messages and restarts.
THEOREM CounterIsBacked == Spec => []CountIsBacked
<1>1. Inv => CountIsBacked
    BY DEF Inv
<1>. QED
    BY SpecInv, <1>1, PTL

\* sms_messages accounts for every SMS that left, across restarts.
THEOREM SendsAreRecorded == Spec => []SentIsRecorded
<1>1. Inv => SentIsRecorded
    BY DEF Inv
<1>. QED
    BY SpecInv, <1>1, PTL

\* No completion notice leaves after the opt-out is committed.
THEOREM NoticesRespectOptOut == Spec => NoNoticeAfterOptOut
<1>1. ASSUME Inv, [Next]_vars, optedOut PROVE (sent' \ sent) \intersect Runs = {}
  <2> USE <1>1 DEF Inv, TypeOK, Jobs, tables, handler
  <2>1. ASSUME NEW j \in Jobs, Send(j) PROVE (sent' \ sent) \intersect Runs = {}
    BY <2>1 DEF Send, NoticeIsAllowed
  <2>2. \/ UNCHANGED sent
        \/ \E j \in Jobs : Send(j)
    BY DEF Next, Restart, vars, PreferenceStep, PreferenceChecks, PreferenceCommits, PreferenceFails,
       PreferenceDeclines, NoticeStep, NoticeIsUnwanted, NoticeIsSkipped, NoticeStarts,
       MessageStep, Receive, IntentIsAsked, OptsOut, BlockedIsIgnored,
       ReplyIsRequested, LimitIsReached, ReplyIsCounted, SendStep, Prepare,
       RecordOutcome, DatabaseFails
  <2>. QED
    BY <2>1, <2>2
<1>. QED
    BY SpecInv, <1>1, PTL DEF Spec, NoNoticeAfterOptOut
=============================================================================
