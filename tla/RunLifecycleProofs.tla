------------------------- MODULE RunLifecycleProofs -------------------------
(***************************************************************************)
(* Proofs about RunLifecycle, for any set of calls.  Exclusive execution   *)
(* is not inductive by itself: that a coroutine between two await-free     *)
(* commits has the loop (LoopIsHeld), and what the row says meanwhile      *)
(* (StepMatchesRow), are what keep a second call out.                      *)
(***************************************************************************)
EXTENDS RunLifecycle, TLAPS

USE RunAssumption

\* The parts of the invariant about executions.
ExecInv ==
  /\ ExclusiveExecution
  /\ CompletedHasBrief
  /\ NoticeIsTrue
  /\ LoopIsHeld
  /\ StepMatchesRow
  /\ NoticeComesLast
  /\ AnswersAreCounted

\* create_run establishes the invariant.
LEMMA InitInv == Init => Inv
<1> SUFFICES ASSUME Init PROVE Inv
    OBVIOUS
<1> USE DEF Init, InSession, Executing, Finishing
<1>1. TypeOK
  <2>1. wantsSms \in BOOLEAN /\ brief \in SUBSET Texts
    BY Zenon
  <2>2. input \in Texts /\ normalized \in Texts /\ held \in [Calls -> Texts]
    BY DEF Texts
  <2>3. at \in [Calls -> {"new", "ingesting", "over", "lost"} \union InSession \union Threads]
    OBVIOUS
  <2>. QED
    BY <2>1, <2>2, <2>3 DEF TypeOK
<1>2. ExclusiveExecution /\ LoopIsHeld /\ StepMatchesRow
    BY DEF ExclusiveExecution, LoopIsHeld, StepMatchesRow
<1>3. CompletedHasBrief /\ NoticeIsTrue /\ NoticeComesLast /\ AnswersAreCounted
    BY DEF CompletedHasBrief, NoticeIsTrue, NoticeComesLast, AnswersAreCounted
<1>. QED
    BY <1>1, <1>2, <1>3 DEF Inv

\* Every step keeps the types.
LEMMA StepTypes == TypeOK /\ [Next]_vars => TypeOK'
<1> SUFFICES ASSUME TypeOK, [Next]_vars PROVE TypeOK'
    OBVIOUS
<1> USE DEF TypeOK, Texts, InSession, Executing, Finishing, Threads, Goto, row, calls
<1>1. ASSUME NEW c \in Calls, UpdateLoads(c) PROVE TypeOK'
    BY <1>1 DEF UpdateLoads, Load
<1>2. ASSUME NEW c \in Calls, SampleLoads(c) PROVE TypeOK'
    BY <1>2 DEF SampleLoads, Load, Editable
<1>3. ASSUME NEW c \in Calls, ChooseLoads(c) PROVE TypeOK'
    BY <1>3 DEF ChooseLoads, Load
<1>4. ASSUME NEW c \in Calls, FollowUpLoads(c) PROVE TypeOK'
    BY <1>4 DEF FollowUpLoads, Load
<1>5. ASSUME NEW c \in Calls, UpdateCommits(c) PROVE TypeOK'
    BY <1>5 DEF UpdateCommits
<1>6. ASSUME NEW c \in Calls, SampleCommits(c) PROVE TypeOK'
    BY <1>6 DEF SampleCommits
<1>7. ASSUME NEW c \in Calls, ChooseCommits(c) PROVE TypeOK'
    BY <1>7 DEF ChooseCommits
<1>8. ASSUME NEW c \in Calls, FollowUpCommits(c) PROVE TypeOK'
    BY <1>8 DEF FollowUpCommits
<1>9. ASSUME NEW c \in Calls, IngestChecks(c) PROVE TypeOK'
    BY <1>9 DEF IngestChecks, Editable, Yields, Runs
<1>10. ASSUME NEW c \in Calls, IngestCommits(c) PROVE TypeOK'
    BY <1>10 DEF IngestCommits, Yields, Runs
<1>11. ASSUME NEW c \in Calls, IngestFails(c) PROVE TypeOK'
    BY <1>11 DEF IngestFails, Yields, Runs
<1>12. ASSUME NEW c \in Calls, SubmitCommits(c) PROVE TypeOK'
    BY <1>12 DEF SubmitCommits, Editable, Keeps, Runs
<1>13. ASSUME NEW c \in Calls, ExecStarts(c) PROVE TypeOK'
    BY <1>13 DEF ExecStarts, Executable, Keeps, Runs
<1>14. ASSUME NEW c \in Calls, WorkflowIsUnknown(c) PROVE TypeOK'
    BY <1>14 DEF WorkflowIsUnknown, Executable, Yields, Runs
<1>15. ASSUME NEW c \in Calls, ExecReads(c) PROVE TypeOK'
    BY <1>15 DEF ExecReads, Yields, Runs
<1>16. ASSUME NEW c \in Calls, ExecWritesBrief(c) PROVE TypeOK'
    BY <1>16 DEF ExecWritesBrief, Keeps, Runs
<1>17. ASSUME NEW c \in Calls, ExecCompletes(c) PROVE TypeOK'
    BY <1>17 DEF ExecCompletes, Keeps, Runs
<1>18. ASSUME NEW c \in Calls, ExecAudits(c) PROVE TypeOK'
    BY <1>18 DEF ExecAudits, Keeps, Runs
<1>19. ASSUME NEW c \in Calls, ExecFails(c) PROVE TypeOK'
    BY <1>19 DEF ExecFails, Yields, Runs
<1>20. ASSUME NEW c \in Calls, Notify(c) PROVE TypeOK'
    BY <1>20 DEF Notify, Yields, Runs
<1>21. ASSUME NEW c \in Calls, DatabaseFails(c) PROVE TypeOK'
    BY <1>21 DEF DatabaseFails, Runs
<1>22. CASE Restart
    BY <1>22 DEF Restart
<1>23. CASE UNCHANGED vars
    BY <1>23 DEF vars
<1>. QED
    BY <1>1, <1>2, <1>3, <1>4, <1>5, <1>6, <1>7, <1>8, <1>9, <1>10, <1>11, <1>12, <1>13, <1>14, <1>15, <1>16, <1>17, <1>18, <1>19, <1>20, <1>21, <1>22, <1>23 DEF Next, ThreadStep, IngestStep, ExecStep

\* Every step keeps the parts about executions.
LEMMA StepExecutions == Inv /\ [Next]_vars => ExecInv'
<1> SUFFICES ASSUME Inv, [Next]_vars PROVE ExecInv'
    OBVIOUS
<1> USE DEF Inv, TypeOK, InSession, Executing, Finishing, Threads, Goto, row, calls, ExecInv,
            ExclusiveExecution, CompletedHasBrief, NoticeIsTrue, LoopIsHeld,
            StepMatchesRow, NoticeComesLast, AnswersAreCounted
<1>1. ASSUME NEW c \in Calls, UpdateLoads(c) PROVE ExecInv'
    BY <1>1 DEF UpdateLoads, Load
<1>2. ASSUME NEW c \in Calls, SampleLoads(c) PROVE ExecInv'
    BY <1>2 DEF SampleLoads, Load, Editable
<1>3. ASSUME NEW c \in Calls, ChooseLoads(c) PROVE ExecInv'
    BY <1>3 DEF ChooseLoads, Load
<1>4. ASSUME NEW c \in Calls, FollowUpLoads(c) PROVE ExecInv'
    BY <1>4 DEF FollowUpLoads, Load
<1>5. ASSUME NEW c \in Calls, UpdateCommits(c) PROVE ExecInv'
    BY <1>5 DEF UpdateCommits
<1>6. ASSUME NEW c \in Calls, SampleCommits(c) PROVE ExecInv'
    BY <1>6 DEF SampleCommits
<1>7. ASSUME NEW c \in Calls, ChooseCommits(c) PROVE ExecInv'
    BY <1>7 DEF ChooseCommits
<1>8. ASSUME NEW c \in Calls, FollowUpCommits(c) PROVE ExecInv'
    BY <1>8 DEF FollowUpCommits
<1>9. ASSUME NEW c \in Calls, IngestChecks(c) PROVE ExecInv'
    BY <1>9 DEF IngestChecks, Editable, Yields, Runs
<1>10. ASSUME NEW c \in Calls, IngestCommits(c) PROVE ExecInv'
    BY <1>10 DEF IngestCommits, Yields, Runs
<1>11. ASSUME NEW c \in Calls, IngestFails(c) PROVE ExecInv'
    BY <1>11 DEF IngestFails, Yields, Runs
<1>12. ASSUME NEW c \in Calls, SubmitCommits(c) PROVE ExecInv'
    BY <1>12 DEF SubmitCommits, Editable, Keeps, Runs
<1>13. ASSUME NEW c \in Calls, ExecStarts(c) PROVE ExecInv'
    BY <1>13 DEF ExecStarts, Executable, Keeps, Runs
<1>14. ASSUME NEW c \in Calls, WorkflowIsUnknown(c) PROVE ExecInv'
    BY <1>14 DEF WorkflowIsUnknown, Executable, Yields, Runs
<1>15. ASSUME NEW c \in Calls, ExecReads(c) PROVE ExecInv'
    BY <1>15 DEF ExecReads, Yields, Runs
<1>16. ASSUME NEW c \in Calls, ExecWritesBrief(c) PROVE ExecInv'
    BY <1>16 DEF ExecWritesBrief, Keeps, Runs
<1>17. ASSUME NEW c \in Calls, ExecCompletes(c) PROVE ExecInv'
    BY <1>17 DEF ExecCompletes, Keeps, Runs
<1>18. ASSUME NEW c \in Calls, ExecAudits(c) PROVE ExecInv'
    BY <1>18 DEF ExecAudits, Keeps, Runs
<1>19. ASSUME NEW c \in Calls, ExecFails(c) PROVE ExecInv'
    BY <1>19 DEF ExecFails, Yields, Runs
<1>20. ASSUME NEW c \in Calls, Notify(c) PROVE ExecInv'
    BY <1>20 DEF Notify, Yields, Runs
<1>21. ASSUME NEW c \in Calls, DatabaseFails(c) PROVE ExecInv'
    BY <1>21 DEF DatabaseFails, Runs
<1>22. CASE Restart
    BY <1>22 DEF Restart
<1>23. CASE UNCHANGED vars
    BY <1>23 DEF vars
<1>. QED
    BY <1>1, <1>2, <1>3, <1>4, <1>5, <1>6, <1>7, <1>8, <1>9, <1>10, <1>11, <1>12, <1>13, <1>14, <1>15, <1>16, <1>17, <1>18, <1>19, <1>20, <1>21, <1>22, <1>23 DEF Next, ThreadStep, IngestStep, ExecStep

\* The invariant holds of every behaviour of the run.
THEOREM SpecInv == Spec => []Inv
<1>1. Inv /\ [Next]_vars => Inv'
    BY StepTypes, StepExecutions DEF Inv, ExecInv
<1>. QED
    BY InitInv, <1>1, PTL DEF Spec

\* Columns and call states keep their types.
THEOREM TypeCorrect == Spec => []TypeOK
<1>1. Inv => TypeOK
    BY DEF Inv
<1>. QED
    BY SpecInv, <1>1, PTL

\* execute_run_workflow never runs twice at once on a run.
THEOREM ExecutionIsExclusive == Spec => []ExclusiveExecution
<1>1. Inv => ExclusiveExecution
    BY DEF Inv
<1>. QED
    BY SpecInv, <1>1, PTL

\* A completed run always has a brief to show and to ask about.
THEOREM CompletedRunsHaveBriefs == Spec => []CompletedHasBrief
<1>1. Inv => CompletedHasBrief
    BY DEF Inv
<1>. QED
    BY SpecInv, <1>1, PTL

\* The completion SMS is sent once and is never contradicted later.
THEOREM NoticesAreTrue == Spec => []NoticeIsTrue
<1>1. Inv => NoticeIsTrue
    BY DEF Inv
<1>. QED
    BY SpecInv, <1>1, PTL

\* A completed run is only taken back by the execution that completed it.
THEOREM CompletionIsKept == Spec => CompletedIsKept
<1>1. ASSUME Inv, [Next]_vars, status = "completed",
             \A c \in Calls : at[c] \notin Executing
      PROVE  status' = "completed"
  <2> USE <1>1 DEF Executing, Finishing, row, calls
  <2>1. \A c \in Calls : at[c] # "submitted"
    BY DEF Inv, StepMatchesRow
  <2>2. ASSUME NEW c \in Calls, ThreadStep(c) \/ IngestStep(c) PROVE status' = status
    BY <2>2 DEF ThreadStep, IngestStep, UpdateLoads, SampleLoads, ChooseLoads,
         FollowUpLoads, Load, UpdateCommits, SampleCommits, ChooseCommits,
         FollowUpCommits, IngestChecks, IngestCommits, IngestFails
  <2>3. ASSUME NEW c \in Calls, SubmitCommits(c) \/ ExecStarts(c) \/ WorkflowIsUnknown(c)
        PROVE  FALSE
    BY <2>1, <2>3 DEF SubmitCommits, Editable, ExecStarts, WorkflowIsUnknown, Executable
  <2>4. ASSUME NEW c \in Calls, ExecStep(c) \/ DatabaseFails(c) PROVE status' = status
    BY <2>1, <2>4 DEF ExecStep, ExecReads, ExecWritesBrief, ExecCompletes, ExecAudits,
         ExecFails, Notify, DatabaseFails
  <2>. QED
    BY <2>2, <2>3, <2>4 DEF Next, Restart, vars
<1>. QED
    BY SpecInv, <1>1, PTL DEF Spec, CompletedIsKept

\* After one follow-up was answered answer_follow_up lets no other in.
THEOREM SecondFollowUpsAreRefused == Spec => AnsweredRunTakesNoMore
<1>1. ASSUME Inv, [Next]_vars, answered # {}
      PROVE  \A c \in Calls : at'[c] = "answering" => at[c] = "answering"
  <2> SUFFICES ASSUME NEW d \in Calls, at'[d] = "answering" PROVE at[d] = "answering"
    OBVIOUS
  <2> USE <1>1 DEF Inv, TypeOK, Goto, row, calls
  <2>1. ASSUME NEW c \in Calls, ThreadStep(c) \/ IngestStep(c) PROVE at[d] = "answering"
    BY <2>1 DEF AnswersAreCounted, ThreadStep, IngestStep, UpdateLoads, SampleLoads, ChooseLoads,
         FollowUpLoads, Load, UpdateCommits, SampleCommits, ChooseCommits,
         FollowUpCommits, IngestChecks, IngestCommits, IngestFails
  <2>2. ASSUME NEW c \in Calls, SubmitCommits(c) \/ ExecStarts(c) \/ WorkflowIsUnknown(c)
        PROVE  at[d] = "answering"
    BY <2>2 DEF SubmitCommits, ExecStarts, WorkflowIsUnknown
  <2>3. ASSUME NEW c \in Calls, ExecStep(c) \/ DatabaseFails(c) PROVE at[d] = "answering"
    BY <2>3 DEF ExecStep, ExecReads, ExecWritesBrief, ExecCompletes, ExecAudits,
         ExecFails, Notify, DatabaseFails
  <2>. QED
    BY <2>1, <2>2, <2>3 DEF Next, Restart, vars
<1>. QED
    BY SpecInv, <1>1, PTL DEF Spec, AnsweredRunTakesNoMore
=============================================================================
