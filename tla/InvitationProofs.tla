-------------------------- MODULE InvitationProofs --------------------------
(***************************************************************************)
(* Proofs about invitation codes: how a request gets one                   *)
(* (InviteFulfillment) and how one is redeemed (InviteRedemption).         *)
(***************************************************************************)
EXTENDS InviteFulfillment, InviteRedemption, FiniteSetTheorems, TLAPS

-----------------------------------------------------------------------------
(* InviteFulfillment, for any requests, operator calls and restarts: what  *)
(* the tables say about the email is true.  The link between the task's    *)
(* position and the tables (TaskMatchesTables) is what makes it inductive; *)
(* operator calls cannot write "fulfilled", because a call that loaded it  *)
(* and keeps it writes nothing.                                            *)


\* An empty request table satisfies the invariant.
LEMMA RequestInitInv == RequestInit => RequestInv
BY DEF RequestInit, RequestInv, RequestTypeOK, MailFollowsCode, FulfilledMeansMailed, TaskMatchesTables,
       AbsentHasNoTask, Statuses, Unmade

\* Steps of intake and of the background task.
LEMMA TaskPreservesRequestInv ==
  ASSUME RequestInv, NEW q \in Requests, CreateInviteRequest(q) \/ TaskStep(q)
  PROVE  RequestInv'
<1>. USE DEF RequestInv, Goto
<1>1. CASE CreateInviteRequest(q)
  <2>1. RequestTypeOK' /\ MailFollowsCode' /\ FulfilledMeansMailed'
    BY <1>1 DEF CreateInviteRequest, RequestTypeOK, Statuses, MailFollowsCode, FulfilledMeansMailed
  <2>2. mail[q] = "none"
    BY <1>1 DEF CreateInviteRequest, AbsentHasNoTask, TaskMatchesTables
  <2>3. TaskMatchesTables' /\ AbsentHasNoTask'
    BY <1>1, <2>2 DEF CreateInviteRequest, RequestTypeOK, TaskMatchesTables, AbsentHasNoTask
  <2>. QED BY <2>1, <2>3
<1>2. CASE \/ FulfillReturns(q) \/ FulfillCannotCreateCode(q)
           \/ FulfillCannotRecord(q) \/ FulfillRaises(q)
  BY <1>2 DEF FulfillReturns, FulfillCannotCreateCode, FulfillCannotRecord, FulfillRaises,
              RequestTypeOK,
              MailFollowsCode, FulfilledMeansMailed, TaskMatchesTables, AbsentHasNoTask
<1>3. CASE FulfillStarts(q)
  BY <1>3 DEF FulfillStarts, RequestTypeOK, MailFollowsCode, FulfilledMeansMailed, TaskMatchesTables, AbsentHasNoTask
<1>4. CASE FulfillCreatesCode(q)
  BY <1>4 DEF FulfillCreatesCode, RequestTypeOK, MailFollowsCode, FulfilledMeansMailed,
              TaskMatchesTables, AbsentHasNoTask
<1>5. CASE FulfillSends(q)
  <2>1. RequestTypeOK'
    BY <1>5 DEF FulfillSends, RequestTypeOK
  <2>2. MailFollowsCode' /\ TaskMatchesTables' /\ AbsentHasNoTask'
    BY <1>5 DEF FulfillSends, RequestTypeOK, MailFollowsCode, TaskMatchesTables, AbsentHasNoTask
  <2>3. FulfilledMeansMailed'
    <3>1. CASE mail' = [mail EXCEPT ![q] = "sent"]
      BY <1>5, <3>1 DEF FulfillSends, RequestTypeOK, FulfilledMeansMailed
    <3>2. CASE mail' = [mail EXCEPT ![q] = "failed"]
      \* A task that is still sending has recorded nothing.
      BY <1>5, <3>2 DEF FulfillSends, RequestTypeOK, FulfilledMeansMailed, TaskMatchesTables, AbsentHasNoTask
    <3>. QED BY <1>5, <3>1, <3>2 DEF FulfillSends
  <2>. QED BY <2>1, <2>2, <2>3
<1>6. CASE FulfillRecords(q)
  BY <1>6 DEF FulfillRecords, RequestTypeOK, Statuses, MailFollowsCode, FulfilledMeansMailed,
              TaskMatchesTables, AbsentHasNoTask
<1>7. CASE FulfillFails(q)
  BY <1>7 DEF FulfillFails, RequestTypeOK, Statuses, MailFollowsCode, FulfilledMeansMailed,
              TaskMatchesTables, AbsentHasNoTask
<1>. QED BY <1>1, <1>2, <1>3, <1>4, <1>5, <1>6, <1>7 DEF TaskStep

\* The operator's calls.
LEMMA CallPreservesRequestInv ==
  ASSUME RequestInv, NEW o \in Operators,
         \/ \E q \in Requests : DraftChecks(o, q) \/ LinkChecks(o, q)
         \/ \E q \in Requests, v \in Verdicts : ReviewChecks(o, q, v)
         \/ CallCommits(o)
  PROVE  RequestInv'
<1>. USE DEF RequestInv
<1>1. ASSUME NEW q \in Requests, NEW kind \in Kinds, Reads(o, q, kind) PROVE RequestInv'
  <2>1. RequestTypeOK'
    BY <1>1 DEF Reads, RequestTypeOK
  <2>2. UNCHANGED <<status, fulfillment, codes, mail, task>>
    BY <1>1 DEF Reads
  <2>. QED BY <2>1, <2>2 DEF MailFollowsCode, FulfilledMeansMailed, TaskMatchesTables, AbsentHasNoTask
<1>2. ASSUME CallCommits(o) PROVE RequestInv'
  <2>. DEFINE k == call[o]
              q == k.request
  <2>1. /\ k \in [at : {"open", "over"}, kind : Kinds, request : Requests, saw : Statuses]
        /\ UNCHANGED <<fulfillment, mail, task>>
    BY <1>2 DEF CallCommits, RequestTypeOK, Unmade
  <2>2. Assigned(k) \in Statuses /\ (Assigned(k) \in {"fulfilled", "absent"} => Assigned(k) = k.saw)
    BY <2>1 DEF Assigned, Kinds, Verdicts, Statuses
  <2>3. /\ status' \in [Requests -> Statuses]
        /\ \A p \in Requests : status'[p] = "fulfilled" => status[p] = "fulfilled"
        /\ \A p \in Requests : status'[p] = "absent" => status[p] = "absent"
    <3>. HIDE DEF k, q
    <3>1. status' = status \/ (status' = [status EXCEPT ![q] = Assigned(k)] /\ Assigned(k) # k.saw)
      BY <1>2 DEF CallCommits, k, q
    <3>. QED BY <2>2, <3>1 DEF RequestTypeOK
  <2>4. /\ codes' \in [Requests -> SUBSET ({"task"} \union Operators)]
        /\ \A p \in Requests : codes[p] \subseteq codes'[p]
    BY <1>2 DEF CallCommits, RequestTypeOK
  <2>5. call' \in [Operators ->
          [at : {"open", "over"}, kind : Kinds, request : Requests, saw : Statuses]
            \union {Unmade}]
    BY <1>2, <2>1 DEF CallCommits, RequestTypeOK
  <2>6. RequestTypeOK'
    BY <2>1, <2>3, <2>4, <2>5 DEF RequestTypeOK
  <2>. QED BY <2>1, <2>3, <2>4, <2>6 DEF MailFollowsCode, FulfilledMeansMailed, TaskMatchesTables, AbsentHasNoTask
<1>. QED BY <1>1, <1>2 DEF DraftChecks, LinkChecks, ReviewChecks, Kinds

\* A restart drops the tasks and the calls in flight, never a committed row.
LEMMA RestartPreservesRequestInv ==
  ASSUME RequestInv, Restart
  PROVE  RequestInv'
<1>. USE DEF RequestInv, Restart
<1>1. RequestTypeOK'
  <2>1. task' \in [Requests ->
          {"none", "queued", "started", "coded", "mailed", "failing", "over",
           "raised", "lost"}]
    BY DEF RequestTypeOK
  <2>2. call' \in [Operators ->
          [at : {"open", "over"}, kind : Kinds, request : Requests, saw : Statuses]
            \union {Unmade}]
    BY DEF RequestTypeOK, Unmade
  <2>. QED BY <2>1, <2>2 DEF RequestTypeOK
<1>2. MailFollowsCode' /\ FulfilledMeansMailed'
  BY DEF MailFollowsCode, FulfilledMeansMailed
<1>3. TaskMatchesTables' /\ AbsentHasNoTask'
  BY DEF TaskMatchesTables, AbsentHasNoTask
<1>. QED BY <1>1, <1>2, <1>3

\* Every step of intake, task, operator or restart preserves RequestInv.
LEMMA RequestNextPreservesInv == RequestInv /\ [RequestNext]_requestVars => RequestInv'
<1>. SUFFICES ASSUME RequestInv, [RequestNext]_requestVars PROVE RequestInv'
  OBVIOUS
<1>1. CASE UNCHANGED requestVars
  BY <1>1 DEF requestVars, RequestInv, RequestTypeOK, MailFollowsCode, FulfilledMeansMailed, TaskMatchesTables, AbsentHasNoTask
<1>2. CASE RequestNext
  BY <1>2, TaskPreservesRequestInv, CallPreservesRequestInv, RestartPreservesRequestInv DEF RequestNext
<1>. QED BY <1>1, <1>2

\* RequestInv holds of every behaviour of intake and fulfillment.
THEOREM RequestSpecInv == RequestSpec => []RequestInv
BY RequestInitInv, RequestNextPreservesInv, PTL DEF RequestSpec

\* The tables keep their types under every interleaving and restart.
THEOREM RequestTypeCorrect == RequestSpec => []RequestTypeOK
BY RequestSpecInv, PTL DEF RequestInv

\* No email goes out before its code is committed, and no code that was mailed
\* is lost, for any number of requests, operator calls and restarts.
THEOREM MailedCodesExist == RequestSpec => []MailFollowsCode
BY RequestSpecInv, PTL DEF RequestInv

\* What is recorded as fulfilled or sent was mailed.
THEOREM RecordsAreTrue == RequestSpec => []FulfilledMeansMailed
BY RequestSpecInv, PTL DEF RequestInv

-----------------------------------------------------------------------------
(* InviteRedemption, for any codes, limits and concurrent redemptions.     *)
(* use_count is written from a stale read, so its bounds need an invariant *)
(* about what sessions have read: the value was below the limit, and no    *)
(* larger than the number of rows, which grows.                            *)


\* A code's rows after a step.
NewRows(c) == RowsIn(redemptions', redeem', c)

\* Empty code and redemption tables satisfy the invariant.
LEMMA InitInv == Init => Inv
<1>. SUFFICES ASSUME Init PROVE Inv
  OBVIOUS
<1>1. \A c \in Codes : RowsOf(c) = {}
  BY DEF Init, RowsOf, RowsIn
<1>2. UseCountIsBackedByRows
  BY <1>1, FS_EmptySet DEF Init, UseCountIsBackedByRows
<1>3. TypeOK /\ UncreatedCodesAreActive
  BY DEF Init, TypeOK, Steps, UncreatedCodesAreActive
<1>4. UseCountWithinLimit
  BY RedemptionAssumption DEF Init, UseCountWithinLimit
<1>5. HandlersMatchRows /\ ReadsAreBackedByRows
  BY DEF Init, HandlersMatchRows, ReadsAreBackedByRows
<1>. QED BY <1>2, <1>3, <1>4, <1>5 DEF Inv

\* The number of a code's rows is a number, whatever has been redeemed.
LEMMA RowsAreCounted ==
  ASSUME TypeOK, NEW c \in Codes
  PROVE  IsFiniteSet(RowsOf(c)) /\ Cardinality(RowsOf(c)) \in Nat
<1>1. IsFiniteSet(RowsOf(c))
  BY FS_Subset, RedemptionAssumption DEF RowsOf, RowsIn, TypeOK
<1>. QED BY <1>1, FS_CardinalityType

\* Steps that insert no row and move only handlers that have none keep every
\* code's rows.
LEMMA RowsUnchanged ==
  ASSUME Inv, UNCHANGED redemptions,
         \A r \in redemptions : redeem'[r].code = redeem[r].code,
         NEW c \in Codes
  PROVE  NewRows(c) = RowsOf(c)
BY DEF RowsOf, RowsIn, NewRows

\* Creating or deactivating a code.
LEMMA OperatorPreservesInv ==
  ASSUME Inv, NEW c \in Codes, CreateCode(c) \/ DeactivateCode(c)
  PROVE  Inv'
<1>. USE DEF Inv
<1>1. UNCHANGED <<redemptions, redeem>> /\ created \subseteq created'
  BY DEF CreateCode, DeactivateCode
<1>2. \A d \in Codes : NewRows(d) = RowsOf(d)
  BY <1>1, RowsUnchanged
<1>3. \A d \in Codes : use_count'[d] = use_count[d] \/ use_count'[d] = 0
  BY DEF CreateCode, DeactivateCode, TypeOK
<1>4. TypeOK' /\ UncreatedCodesAreActive'
  <2>1. CASE CreateCode(c)
    BY <2>1 DEF CreateCode, TypeOK, UncreatedCodesAreActive
  <2>2. CASE DeactivateCode(c)
    BY <2>2 DEF DeactivateCode, TypeOK, UncreatedCodesAreActive
  <2>. QED BY <2>1, <2>2
<1>5. UseCountIsBackedByRows'
  <2>1. \A d \in Codes : Cardinality(RowsOf(d)) \in Nat
    BY RowsAreCounted
  <2>. QED BY <1>2, <1>3, <2>1 DEF UseCountIsBackedByRows, NewRows, RowsOf
<1>6. UseCountWithinLimit'
  BY <1>3, RedemptionAssumption DEF UseCountWithinLimit
<1>7. HandlersMatchRows'
  BY <1>1 DEF HandlersMatchRows
<1>8. ReadsAreBackedByRows'
  BY <1>1, <1>2 DEF ReadsAreBackedByRows, HandlersMatchRows, NewRows, RowsOf
<1>. QED BY <1>4, <1>5, <1>6, <1>7, <1>8

\* A redemption that checks, is refused or is abandoned.
LEMMA ReadPreservesInv ==
  ASSUME Inv, NEW r \in Redeems,
         \/ \E c \in Codes : RedeemIsRefused(r, c) \/ RedeemChecks(r, c)
         \/ RedeemIsAbandoned(r)
  PROVE  Inv'
<1>. USE DEF Inv
<1>1. /\ UNCHANGED <<created, is_active, use_count, redemptions>>
      /\ \A s \in Redeems \ {r} : redeem'[s] = redeem[s]
      /\ redeem[r].at \in {"new", "checked"}
  BY DEF RedeemIsRefused, RedeemChecks, RedeemIsAbandoned, TypeOK
<1>2. \/ redeem'[r].at = "refused"
      \/ \E c \in Codes : /\ redeem'[r] = [at |-> "checked", code |-> c, seen |-> use_count[c]]
                          /\ ~LimitReached(c)
  BY DEF RedeemIsRefused, RedeemIsAbandoned, RedeemChecks, Redeemable, TypeOK
<1>4. \A d \in Codes : NewRows(d) = RowsOf(d)
  <2>1. r \notin redemptions
    BY <1>1 DEF HandlersMatchRows
  <2>. QED BY <1>1, <2>1, RowsUnchanged DEF TypeOK
<1>5. TypeOK' /\ UncreatedCodesAreActive'
  BY <1>1 DEF RedeemIsRefused, RedeemChecks, RedeemIsAbandoned, TypeOK, Steps,
              UncreatedCodesAreActive
<1>6. UseCountWithinLimit' /\ UseCountIsBackedByRows'
  BY <1>1, <1>4 DEF UseCountWithinLimit, UseCountIsBackedByRows, NewRows, RowsOf
<1>7. HandlersMatchRows'
  <2>1. \/ redeem'[r].at = "refused"
        \/ redeem'[r].at = "checked" /\ redeem'[r].code \in Codes
    <3>1. ASSUME NEW c \in Codes,
                 redeem'[r] = [at |-> "checked", code |-> c, seen |-> use_count[c]]
          PROVE  redeem'[r].at = "checked" /\ redeem'[r].code \in Codes
      BY <3>1
    <3>. QED BY <1>2, <3>1
  <2>. QED BY <1>1, <2>1 DEF HandlersMatchRows
<1>8. ReadsAreBackedByRows'
  <2>. SUFFICES ASSUME NEW s \in Redeems, redeem'[s].at = "checked"
                PROVE  /\ redeem'[s].seen <= Cardinality(NewRows(redeem'[s].code))
                       /\ MaxUses[redeem'[s].code] # Unlimited =>
                            redeem'[s].seen < MaxUses[redeem'[s].code]
    BY DEF ReadsAreBackedByRows, RowsOf, NewRows
  <2>1. CASE s # r
    BY <1>1, <1>4, <2>1 DEF ReadsAreBackedByRows, HandlersMatchRows, NewRows, RowsOf
  <2>2. CASE s = r
    <3>1. PICK c \in Codes :
            /\ redeem'[r] = [at |-> "checked", code |-> c, seen |-> use_count[c]]
            /\ ~LimitReached(c)
      BY <1>2, <2>2
    <3>2. redeem'[s].code = c /\ redeem'[s].seen = use_count[c]
      BY <2>2, <3>1
    <3>3. use_count[c] \in Nat /\ MaxUses[c] \in Nat \union {Unlimited}
      BY RedemptionAssumption DEF TypeOK
    <3>. QED BY <1>4, <3>1, <3>2, <3>3 DEF LimitReached, UseCountIsBackedByRows
  <2>. QED BY <2>1, <2>2
<1>. QED BY <1>5, <1>6, <1>7, <1>8

\* The commit of a redemption: the count it writes is one more than what it
\* read, and the row it inserts is one more than there were.
LEMMA CommitPreservesInv ==
  ASSUME Inv, NEW r \in Redeems, RedeemCommits(r)
  PROVE  Inv'
<1>. USE DEF Inv
<1>. DEFINE c == redeem[r].code
<1>1. /\ redeem[r].at = "checked" /\ c \in Codes /\ r \notin redemptions
      /\ use_count' = [use_count EXCEPT ![c] = redeem[r].seen + 1]
      /\ redemptions' = redemptions \union {r}
      /\ redeem' = [redeem EXCEPT ![r].at = "redeemed"]
      /\ UNCHANGED <<created, is_active>>
  BY DEF RedeemCommits, HandlersMatchRows
<1>2. /\ \A s \in Redeems : redeem'[s].code = redeem[s].code /\ redeem'[s].seen = redeem[s].seen
      /\ redeem'[r].at = "redeemed"
      /\ \A s \in Redeems \ {r} : redeem'[s].at = redeem[s].at
  BY <1>1 DEF TypeOK
<1>3. TypeOK' /\ UncreatedCodesAreActive'
  BY <1>1 DEF TypeOK, Steps, UncreatedCodesAreActive
<1>4. /\ NewRows(c) = RowsOf(c) \union {r} /\ r \notin RowsOf(c)
      /\ \A d \in Codes \ {c} : NewRows(d) = RowsOf(d)
  <2>1. \A d \in Codes : NewRows(d) = {s \in redemptions \union {r} : redeem[s].code = d}
    BY <1>1, <1>2 DEF NewRows, RowsIn, TypeOK
  <2>. QED BY <1>1, <2>1 DEF RowsOf, RowsIn
<1>5. /\ Cardinality(NewRows(c)) = Cardinality(RowsOf(c)) + 1
      /\ Cardinality(RowsOf(c)) \in Nat
  BY <1>1, <1>4, RowsAreCounted, FS_AddElement
<1>6. \A d \in Codes : /\ Cardinality(RowsOf(d)) \in Nat
                       /\ Cardinality(RowsOf(d)) <= Cardinality(NewRows(d))
  <2>1. \A d \in Codes : Cardinality(RowsOf(d)) \in Nat
    BY RowsAreCounted
  <2>2. \A d \in Codes \ {c} : Cardinality(RowsOf(d)) <= Cardinality(NewRows(d))
    BY <1>4, <2>1
  <2>. QED BY <1>5, <2>1, <2>2
<1>7. /\ redeem[r].seen \in Nat /\ redeem[r].seen <= Cardinality(RowsOf(c))
      /\ MaxUses[c] # Unlimited => redeem[r].seen < MaxUses[c]
  BY <1>1 DEF ReadsAreBackedByRows, TypeOK
<1>8. UseCountIsBackedByRows'
  <2>. SUFFICES ASSUME NEW d \in Codes PROVE use_count'[d] <= Cardinality(NewRows(d))
    BY DEF UseCountIsBackedByRows, NewRows, RowsOf
  <2>1. CASE d = c
    <3>1. use_count'[d] = redeem[r].seen + 1
      BY <1>1, <2>1 DEF TypeOK
    <3>. QED BY <1>5, <1>7, <2>1, <3>1
  <2>2. CASE d # c
    <3>1. use_count'[d] = use_count[d]
      BY <1>1, <2>2 DEF TypeOK
    <3>. QED BY <1>4, <2>2, <3>1 DEF UseCountIsBackedByRows, NewRows, RowsOf
  <2>. QED BY <2>1, <2>2
<1>9. UseCountWithinLimit'
  <2>. SUFFICES ASSUME NEW d \in Codes, MaxUses[d] # Unlimited
                PROVE  use_count'[d] <= MaxUses[d]
    BY DEF UseCountWithinLimit
  <2>1. MaxUses[d] \in Nat
    BY RedemptionAssumption
  <2>. QED BY <1>1, <1>7, <2>1 DEF TypeOK, UseCountWithinLimit
<1>10. HandlersMatchRows'
  BY <1>1, <1>2 DEF HandlersMatchRows
<1>11. ReadsAreBackedByRows'
  <2>. SUFFICES ASSUME NEW s \in Redeems, redeem'[s].at = "checked"
                PROVE  /\ redeem'[s].seen <= Cardinality(NewRows(redeem'[s].code))
                       /\ MaxUses[redeem'[s].code] # Unlimited =>
                            redeem'[s].seen < MaxUses[redeem'[s].code]
    BY DEF ReadsAreBackedByRows, RowsOf, NewRows
  <2>1. s # r /\ redeem[s].at = "checked" /\ redeem[s].code \in Codes /\ redeem[s].seen \in Nat
    BY <1>2 DEF HandlersMatchRows, TypeOK
  <2>2. redeem[s].seen <= Cardinality(RowsOf(redeem[s].code))
    BY <2>1 DEF ReadsAreBackedByRows
  <2>3. redeem[s].seen <= Cardinality(NewRows(redeem[s].code))
    <3>1. ASSUME NEW n \in Nat, NEW m \in Nat, NEW k, m <= k, n <= m, k \in Nat PROVE n <= k
      BY <3>1
    <3>2. Cardinality(NewRows(redeem[s].code)) \in Nat
      BY <1>4, <1>5, <2>1, RowsAreCounted
    <3>. QED BY <1>6, <2>1, <2>2, <3>1, <3>2
  <2>. QED BY <1>2, <2>1, <2>3 DEF ReadsAreBackedByRows
<1>. QED BY <1>3, <1>8, <1>9, <1>10, <1>11

\* Every step of an operator or of a redemption preserves Inv.
LEMMA NextPreservesInv == Inv /\ [Next]_vars => Inv'
<1>. SUFFICES ASSUME Inv, [Next]_vars PROVE Inv'
  OBVIOUS
<1>1. CASE UNCHANGED vars
  BY <1>1 DEF vars, Inv, TypeOK, UncreatedCodesAreActive, UseCountWithinLimit,
     UseCountIsBackedByRows, HandlersMatchRows, ReadsAreBackedByRows, RowsOf, NewRows
<1>2. CASE Next
  BY <1>2, OperatorPreservesInv, ReadPreservesInv, CommitPreservesInv DEF Next
<1>. QED BY <1>1, <1>2

\* Inv holds of every interleaving of redemptions and operator calls.
THEOREM SpecInv == Spec => []Inv
BY InitInv, NextPreservesInv, PTL DEF Spec

\* The code and redemption tables keep their types, whatever handlers interleave
\* (models/invitation.py).
THEOREM TypeCorrect == Spec => []TypeOK
<1>1. Inv => TypeOK
  BY DEF Inv
<1>. QED BY <1>1, SpecInv, PTL

\* The counter stays within max_uses for every interleaving of redemptions.
THEOREM CounterIsBounded == Spec => []UseCountWithinLimit
BY SpecInv, PTL DEF Inv

\* The counter never exceeds the number of tokens issued.
THEOREM CounterIsBacked == Spec => []UseCountIsBackedByRows
BY SpecInv, PTL DEF Inv

\* No interleaving turns a deactivated code back on.
THEOREM DeactivationHolds == Spec => DeactivationIsFinal
<1>1. Inv /\ [Next]_vars => [\A c \in Codes : ~is_active[c] => ~is_active'[c]]_vars
  <2>. SUFFICES ASSUME Inv, Next, NEW c \in Codes, ~is_active[c] PROVE ~is_active'[c]
    OBVIOUS
  <2>. USE DEF Inv
  <2>1. ASSUME NEW d \in Codes, CreateCode(d) PROVE ~is_active'[c]
    BY <2>1 DEF CreateCode, TypeOK, UncreatedCodesAreActive
  <2>2. ASSUME NEW d \in Codes, DeactivateCode(d) PROVE ~is_active'[c]
    BY <2>2 DEF DeactivateCode, TypeOK
  <2>3. ASSUME UNCHANGED is_active PROVE ~is_active'[c]
    BY <2>3
  <2>. QED BY <2>1, <2>2, <2>3 DEF Next, RedeemIsRefused, RedeemChecks, RedeemCommits,
                                  RedeemIsAbandoned
<1>. QED BY <1>1, SpecInv, PTL DEF Spec, DeactivationIsFinal
=============================================================================
