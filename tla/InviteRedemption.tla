--------------------------- MODULE InviteRedemption ---------------------------
(***************************************************************************)
(* Redemption of invitation codes (app/api/routes/access.py) beside their  *)
(* creation and deactivation by the operator                               *)
(* (app/api/routes/invitations_admin.py).  The routes are plain functions: *)
(* each request runs in a worker thread with a database session of its     *)
(* own, so the row a redemption checked may have changed when it commits.  *)
(* The database runs at READ COMMITTED, and the ORM's UPDATE writes the    *)
(* columns the handler assigned, as absolute values.                       *)
(***************************************************************************)
EXTENDS Naturals, FiniteSets

CONSTANTS
  Codes,      \* rows invitation_codes can get
  Redeems,    \* redemption requests that arrive (bounds them)
  MaxUses,    \* max_uses each code is created with, or Unlimited
  Unlimited,  \* null in max_uses
  None        \* no code

ASSUME RedemptionAssumption ==
  /\ IsFiniteSet(Redeems)
  /\ Unlimited \notin Nat
  /\ None \notin Codes
  /\ MaxUses \in [Codes -> (Nat \ {0}) \union {Unlimited}]

VARIABLES
  created,      \* codes whose row is committed
  is_active,    \* is_active of each code
  use_count,    \* use_count of each code
  redemptions,  \* invitation_redemptions: the requests whose row is committed
  redeem        \* the handlers: where each is, its code and the count it read

vars == <<created, is_active, use_count, redemptions, redeem>>

Steps == {"new", "checked", "redeemed", "refused"}

TypeOK ==
  /\ created \in SUBSET Codes
  /\ is_active \in [Codes -> BOOLEAN]
  /\ use_count \in [Codes -> Nat]
  /\ redemptions \in SUBSET Redeems
  /\ redeem \in [Redeems -> [at : Steps, code : Codes \union {None}, seen : Nat]]

Init ==
  /\ created = {}
  /\ is_active = [c \in Codes |-> TRUE]
  /\ use_count = [c \in Codes |-> 0]
  /\ redemptions = {}
  /\ redeem = [r \in Redeems |-> [at |-> "new", code |-> None, seen |-> 0]]

-----------------------------------------------------------------------------
(* The operator.                                                             *)

\* create_invitation_code: a duplicate code string is refused (409), so every
\* code is created once.
CreateCode(c) ==
  /\ c \notin created
  /\ created' = created \union {c}
  /\ is_active' = [is_active EXCEPT ![c] = TRUE]
  /\ use_count' = [use_count EXCEPT ![c] = 0]
  /\ UNCHANGED <<redemptions, redeem>>

\* deactivate_invitation_code writes is_active and no other column.
DeactivateCode(c) ==
  /\ c \in created
  /\ is_active' = [is_active EXCEPT ![c] = FALSE]
  /\ UNCHANGED <<created, use_count, redemptions, redeem>>

-----------------------------------------------------------------------------
(* redeem_invitation_code, in the two database steps other threads see.      *)

LimitReached_OffByOne(c) == MaxUses[c] # Unlimited /\ use_count[c] > MaxUses[c]

LimitReached(c) == MaxUses[c] # Unlimited /\ use_count[c] >= MaxUses[c]

Redeemable(c) == is_active[c] /\ ~LimitReached(c)

\* 404, or one of the two 403s.
RedeemIsRefused(r, c) ==
  /\ redeem[r].at = "new"
  /\ c \notin created \/ ~Redeemable(c)
  /\ redeem' = [redeem EXCEPT ![r].at = "refused"]
  /\ UNCHANGED <<created, is_active, use_count, redemptions>>

\* The row passes every check; its use_count is in the session now.
RedeemChecks(r, c) ==
  /\ redeem[r].at = "new"
  /\ c \in created /\ Redeemable(c)
  /\ redeem' = [redeem EXCEPT ![r] = [at |-> "checked", code |-> c, seen |-> use_count[c]]]
  /\ UNCHANGED <<created, is_active, use_count, redemptions>>

\* The commit: use_count becomes what the session read plus one, and the
\* redemption row of the issued token is inserted.
RedeemCommits_Reactivates(r) ==
  LET c == redeem[r].code IN
  /\ redeem[r].at = "checked"
  /\ use_count' = [use_count EXCEPT ![c] = redeem[r].seen + 1]
  /\ is_active' = [is_active EXCEPT ![c] = TRUE]
  /\ redemptions' = redemptions \union {r}
  /\ redeem' = [redeem EXCEPT ![r].at = "redeemed"]
  /\ UNCHANGED created

RedeemCommits_NoRow(r) ==
  LET c == redeem[r].code IN
  /\ redeem[r].at = "checked"
  /\ use_count' = [use_count EXCEPT ![c] = redeem[r].seen + 1]
  /\ redeem' = [redeem EXCEPT ![r].at = "redeemed"]
  /\ UNCHANGED <<created, is_active, redemptions>>

RedeemCommits(r) ==
  LET c == redeem[r].code IN
  /\ redeem[r].at = "checked"
  /\ use_count' = [use_count EXCEPT ![c] = redeem[r].seen + 1]
  /\ redemptions' = redemptions \union {r}
  /\ redeem' = [redeem EXCEPT ![r].at = "redeemed"]
  /\ UNCHANGED <<created, is_active>>

\* The code's label names no experience (403 after the checks), or the commit
\* fails: the session is closed and nothing of it is kept.
RedeemIsAbandoned(r) ==
  /\ redeem[r].at = "checked"
  /\ redeem' = [redeem EXCEPT ![r].at = "refused"]
  /\ UNCHANGED <<created, is_active, use_count, redemptions>>

-----------------------------------------------------------------------------

Next ==
  \/ \E c \in Codes : CreateCode(c) \/ DeactivateCode(c)
  \/ \E r \in Redeems, c \in Codes : RedeemIsRefused(r, c) \/ RedeemChecks(r, c)
  \/ \E r \in Redeems : RedeemCommits(r) \/ RedeemIsAbandoned(r)

Spec == Init /\ [][Next]_vars

-----------------------------------------------------------------------------
(* Properties.                                                               *)

\* The redemptions of a code, one per access token issued for it.
RowsIn(rows, handlers, c) == {r \in rows : handlers[r].code = c}
RowsOf(c) == RowsIn(redemptions, redeem, c)

\* use_count never passes max_uses, although concurrent redemptions write it
\* from values that are stale when they commit.
UseCountWithinLimit ==
  \A c \in Codes : MaxUses[c] # Unlimited => use_count[c] <= MaxUses[c]

\* use_count never claims a redemption that has no row: lost updates make the
\* counter too small, never too large, so a code is never exhausted early.
UseCountIsBackedByRows == \A c \in Codes : use_count[c] <= Cardinality(RowsOf(c))

\* No request turns a deactivated code back on: a redemption that read the row
\* while it was active and commits later leaves is_active alone.
DeactivationIsFinal ==
  [][\A c \in Codes : ~is_active[c] => ~is_active'[c]]_vars

-----------------------------------------------------------------------------
(* The inductive invariant: what a session has read was true of the rows at  *)
(* the time and can only have become truer, and it passed the limit; no code is off before  *)
(* it exists.                                                                *)

HandlersMatchRows ==
  \A r \in Redeems :
    /\ r \in redemptions <=> redeem[r].at = "redeemed"
    /\ redeem[r].at \in {"checked", "redeemed"} => redeem[r].code \in Codes

ReadsAreBackedByRows ==
  \A r \in Redeems :
    redeem[r].at = "checked" =>
      /\ redeem[r].seen <= Cardinality(RowsOf(redeem[r].code))
      /\ MaxUses[redeem[r].code] # Unlimited => redeem[r].seen < MaxUses[redeem[r].code]

UncreatedCodesAreActive == \A c \in Codes \ created : is_active[c]

Inv ==
  /\ TypeOK
  /\ UncreatedCodesAreActive
  /\ UseCountWithinLimit
  /\ UseCountIsBackedByRows
  /\ HandlersMatchRows
  /\ ReadsAreBackedByRows
=============================================================================
