--------------------------- MODULE SipEngineProofs ---------------------------
(***************************************************************************)
(* Proofs about SipEngine for any set of Call-IDs, any port range, any     *)
(* number of setup tasks and either setting of SlowSetup.                  *)
(*                                                                         *)
(* The inductive invariant is SipEngine's Inv.  The disjointness of the    *)
(* two tables is inductive by itself; the gauge needs it (a dialog is only *)
(* inserted where there was none) and the finiteness of CallIds; orphan    *)
(* freedom needs DialogOwnsItsBridge, so that tearing one call down cannot *)
(* stop or lose the bridge of another.                                     *)
(***************************************************************************)
EXTENDS SipEngine, FiniteSetTheorems, TLAPS

\* The dialogs of a dialog table.
Established(d) == {c \in CallIds : d[c] # None}

\* Inserting a dialog for a call that has none, and removing one, change the
\* number of dialogs by one (what fetch_add and fetch_sub of the gauge mirror).
LEMMA InsertCounts ==
  ASSUME NEW d, NEW c \in CallIds, d[c] = None, NEW e, e # None,
         NEW d1, d1 = [d EXCEPT ![c] = e], DOMAIN d = CallIds
  PROVE  Cardinality(Established(d1)) = Cardinality(Established(d)) + 1
<1>1. IsFiniteSet(Established(d))
  BY FS_Subset, SipAssumption DEF Established
<1>2. Established(d1) = Established(d) \union {c} /\ c \notin Established(d)
  BY DEF Established
<1>. QED BY <1>1, <1>2, FS_AddElement

\* Tearing a dialog down decreases the number of dialogs by one.
LEMMA RemoveCounts ==
  ASSUME NEW d, NEW c \in CallIds, d[c] # None,
         NEW d1, d1 = [d EXCEPT ![c] = None], DOMAIN d = CallIds
  PROVE  /\ Cardinality(Established(d1)) = Cardinality(Established(d)) - 1
         /\ Cardinality(Established(d1)) \in Nat
<1>1. IsFiniteSet(Established(d))
  BY FS_Subset, SipAssumption DEF Established
<1>2. Established(d1) = Established(d) \ {c} /\ c \in Established(d)
  BY DEF Established
<1>. QED BY <1>1, <1>2, FS_RemoveElement, FS_CardinalityType

\* GaugeCountsDialogs in terms of the set of established calls.
LEMMA GaugeIsCardinality ==
  GaugeCountsDialogs <=> active = Cardinality(Established(dialogs))
BY DEF GaugeCountsDialogs, Established

-----------------------------------------------------------------------------

\* The empty engine satisfies the invariant.
LEMMA InitInv == Init => Inv
<1>. SUFFICES ASSUME Init PROVE Inv
  OBVIOUS
<1>. USE DEF Init
<1>1. TypeOK
  BY SipAssumption DEF TypeOK, Requests, Signals
<1>2. PendingAndDialogsDisjoint
  BY DEF PendingAndDialogsDisjoint
<1>3. GaugeCountsDialogs
  <2>1. {c \in CallIds : dialogs[c] # None} = {}
    OBVIOUS
  <2>. QED BY <2>1, FS_EmptySet DEF GaugeCountsDialogs
<1>4. NoOrphanBridge
  BY DEF NoOrphanBridge
<1>5. NoPortLeak
  BY DEF NoPortLeak
<1>6. OldInvitesArePending /\ DialogOwnsItsBridge /\ UnbridgedSetupHasNoBridge
  BY DEF OldInvitesArePending, DialogOwnsItsBridge, UnbridgedSetupHasNoBridge
<1>. QED BY <1>1, <1>2, <1>3, <1>4, <1>5, <1>6 DEF Inv

-----------------------------------------------------------------------------
(* The pieces handlers share.                                                *)

\* The sweep leaves well-typed tables, drops only pending invites, and drops
\* none of them when setups cannot outlast the age limit.
LEMMA SweepFacts ==
  ASSUME TypeOK, OldInvitesArePending,
         NEW np \in [CallIds -> Ports \union {None}], NEW nb \in SUBSET CallIds,
         CleanupStaleState(np, nb)
  PROVE  /\ pending' \in [CallIds -> Ports \union {None}]
         /\ stale' = {}
         /\ byeCache' \in SUBSET CallIds
         /\ \A c \in CallIds : pending'[c] # None => pending'[c] = np[c]
         /\ ~SlowSetup => pending' = np
         /\ OldInvitesArePending'
<1>1. ~SlowSetup => stale = {}
  BY DEF OldInvitesArePending
<1>2. ~SlowSetup => pending' = np
  BY <1>1 DEF CleanupStaleState
<1>. QED BY <1>2 DEF CleanupStaleState, TypeOK, OldInvitesArePending

\* Tearing a call down keeps the gauge exact and non-negative, and stops the
\* bridge of that call and of no other.
LEMMA TeardownFacts ==
  ASSUME Inv, NEW c \in CallIds, dialogs[c] # None, Teardown(c)
  PROVE  /\ dialogs' \in [CallIds -> [port : Ports, bridge : Setups] \union {None}]
         /\ dialogs'[c] = None
         /\ \A d \in CallIds \ {c} : dialogs'[d] = dialogs[d]
         /\ bridge' \in [Setups -> {"none", "live", "ended", "dark", "stopped"}]
         /\ bridge'[dialogs[c].bridge] = "stopped"
         /\ \A s \in Setups \ {dialogs[c].bridge} : bridge'[s] = bridge[s]
         /\ \A d \in CallIds \ {c} : dialogs[d] # None => dialogs[d].bridge # dialogs[c].bridge
         /\ inUse' = inUse \ {dialogs[c].port}
         /\ active' \in Nat
         /\ GaugeCountsDialogs'
<1>1. TypeOK /\ DialogOwnsItsBridge /\ GaugeCountsDialogs
  BY DEF Inv
<1>2. dialogs[c] \in [port : Ports, bridge : Setups]
  BY <1>1 DEF TypeOK
<1>3. active' \in Nat /\ GaugeCountsDialogs'
  <2>1. active' = active - 1 /\ dialogs' = [dialogs EXCEPT ![c] = None]
    BY DEF Teardown
  <2>2. DOMAIN dialogs = CallIds
    BY <1>1 DEF TypeOK
  <2>3. /\ Cardinality(Established(dialogs')) = Cardinality(Established(dialogs)) - 1
        /\ Cardinality(Established(dialogs')) \in Nat
    BY <2>1, <2>2, RemoveCounts
  <2>4. active = Cardinality(Established(dialogs))
    BY <1>1 DEF GaugeCountsDialogs, Established
  <2>. QED BY <2>1, <2>3, <2>4 DEF GaugeCountsDialogs, Established
<1>4. \A d \in CallIds \ {c} : dialogs[d] # None => dialogs[d].bridge # dialogs[c].bridge
  BY <1>1 DEF DialogOwnsItsBridge
<1>. QED BY <1>1, <1>2, <1>3, <1>4 DEF Teardown, StopBridge, TypeOK

-----------------------------------------------------------------------------
(* One lemma per group of actions: each preserves the invariant.             *)

\* A caller only adds datagrams to the network.
LEMMA CallerPreservesInv ==
  ASSUME Inv, NEW c \in CallIds, NEW m \in Requests, Send(c, m)
  PROVE  Inv'
<1>. USE DEF Send, engineVars, taskVars
<1>1. TypeOK'
  BY DEF Inv, TypeOK
<1>2. (PendingAndDialogsDisjoint /\ GaugeCountsDialogs /\ NoOrphanBridge /\ NoPortLeak)'
  BY DEF Inv, PendingAndDialogsDisjoint, GaugeCountsDialogs, NoOrphanBridge, NoPortLeak, HeldPorts
<1>3. (OldInvitesArePending /\ DialogOwnsItsBridge /\ UnbridgedSetupHasNoBridge)'
  BY DEF Inv, OldInvitesArePending, DialogOwnsItsBridge, UnbridgedSetupHasNoBridge
<1>. QED BY <1>1, <1>2, <1>3 DEF Inv

\* An INVITE that only answers and sweeps.
LEMMA RejectedInvitePreservesInv ==
  ASSUME Inv, NEW c \in CallIds, ReceiveInvite(c), ~InviteStartsSetup(c)
  PROVE  Inv'
<1>. USE DEF Inv
<1>1. /\ CleanupStaleState(pending, {})
      /\ UNCHANGED <<sent, dialogs, active, setup, bridge, endEvent>>
      /\ answer' \in [CallIds -> Signals]
      /\ inUse' \subseteq inUse
  <2>1. CASE InviteIsDuplicate(c)
    BY <2>1 DEF ReceiveInvite, InviteIsDuplicate, Answer, TypeOK, Signals, taskVars
  <2>2. CASE InviteFindsNoPort(c)
    BY <2>2 DEF ReceiveInvite, InviteFindsNoPort, Answer, TypeOK, Signals, taskVars
  <2>3. CASE InviteHasNoMedia(c)
    BY <2>3 DEF ReceiveInvite, InviteHasNoMedia, Answer, TypeOK, Signals, taskVars
  <2>. QED BY <2>1, <2>2, <2>3 DEF ReceiveInvite
<1>2. pending \in [CallIds -> Ports \union {None}] /\ {} \in SUBSET CallIds
  BY DEF TypeOK
<1>3. /\ pending' \in [CallIds -> Ports \union {None}]
      /\ stale' = {} /\ byeCache' \in SUBSET CallIds
      /\ \A d \in CallIds : pending'[d] # None => pending'[d] = pending[d]
      /\ ~SlowSetup => pending' = pending
      /\ OldInvitesArePending'
  BY <1>1, <1>2, SweepFacts
<1>4. TypeOK'
  BY <1>1, <1>3 DEF TypeOK
<1>5. PendingAndDialogsDisjoint'
  BY <1>1, <1>3 DEF PendingAndDialogsDisjoint
<1>6. NoPortLeak'
  BY <1>1, <1>3 DEF NoPortLeak, HeldPorts
<1>7. (GaugeCountsDialogs /\ NoOrphanBridge /\ DialogOwnsItsBridge /\ UnbridgedSetupHasNoBridge)'
  BY <1>1 DEF GaugeCountsDialogs, NoOrphanBridge, DialogOwnsItsBridge, UnbridgedSetupHasNoBridge
<1>. QED BY <1>3, <1>4, <1>5, <1>6, <1>7

\* An INVITE accepted for setup reserves a port for a call that had none.
LEMMA AcceptedInvitePreservesInv ==
  ASSUME Inv, NEW c \in CallIds, ReceiveInvite(c), InviteStartsSetup(c)
  PROVE  Inv'
<1>. USE DEF Inv
<1>1. PICK p \in Ports, s \in Setups :
        /\ setup[s].stage = "unused"
        /\ inUse' = inUse \union {p}
        /\ setup' = [setup EXCEPT ![s] = [stage |-> "connecting", call |-> c, port |-> p]]
        /\ CleanupStaleState([pending EXCEPT ![c] = p], {})
  BY DEF InviteStartsSetup
<1>2. /\ dialogs[c] = None /\ pending[c] = None
      /\ UNCHANGED <<sent, dialogs, active, bridge, endEvent>>
      /\ answer' \in [CallIds -> Signals]
  BY DEF ReceiveInvite, InviteStartsSetup, Answer, TypeOK, Signals
<1>. DEFINE np == [pending EXCEPT ![c] = p]
<1>3. np \in [CallIds -> Ports \union {None}] /\ {} \in SUBSET CallIds
  BY DEF TypeOK
<1>4. /\ pending' \in [CallIds -> Ports \union {None}]
      /\ stale' = {} /\ byeCache' \in SUBSET CallIds
      /\ \A d \in CallIds : pending'[d] # None => pending'[d] = np[d]
      /\ ~SlowSetup => pending' = np
      /\ OldInvitesArePending'
  BY <1>1, <1>3, SweepFacts
<1>5. TypeOK'
  BY <1>1, <1>2, <1>4 DEF TypeOK, Stages
<1>6. PendingAndDialogsDisjoint'
  BY <1>2, <1>4 DEF PendingAndDialogsDisjoint, TypeOK
<1>7. NoPortLeak'
  <2>. SUFFICES ASSUME ~SlowSetup, NEW q \in inUse' PROVE q \in HeldPorts'
    BY DEF NoPortLeak
  <2>1. pending' = np /\ pending'[c] = p /\ p # None
    BY <1>3, <1>4, SipAssumption DEF TypeOK
  <2>2. CASE q = p
    BY <2>1, <2>2 DEF HeldPorts
  <2>3. CASE q \in inUse /\ q # p
    <3>1. CASE \E d \in CallIds : pending[d] # None /\ pending[d] = q
      BY <1>2, <2>1, <3>1 DEF HeldPorts, TypeOK
    <3>2. CASE \E d \in CallIds : dialogs[d] # None /\ dialogs[d].port = q
      BY <1>2, <3>2 DEF HeldPorts
    <3>. QED BY <2>3, <3>1, <3>2 DEF NoPortLeak, HeldPorts
  <2>. QED BY <1>1, <2>2, <2>3
<1>8. (GaugeCountsDialogs /\ UnbridgedSetupHasNoBridge)'
  BY <1>1, <1>2 DEF GaugeCountsDialogs, UnbridgedSetupHasNoBridge, TypeOK
<1>9. DialogOwnsItsBridge'
  BY <1>1, <1>2 DEF DialogOwnsItsBridge, TypeOK
<1>10. NoOrphanBridge'
  <2>1. bridge[s] = "none"
    BY <1>1 DEF UnbridgedSetupHasNoBridge
  <2>. QED BY <1>1, <1>2, <2>1 DEF NoOrphanBridge, TypeOK
<1>. QED BY <1>4, <1>5, <1>6, <1>7, <1>8, <1>9, <1>10

\* Tearing a call down, whoever asks for it, preserves everything that relates
\* dialogs, bridges and ports.
LEMMA TeardownPreservesParts ==
  ASSUME Inv, NEW c \in CallIds, dialogs[c] # None, Teardown(c), UNCHANGED setup,
         \A d \in CallIds : pending'[d] # None => pending'[d] = pending[d],
         ~SlowSetup => pending' = pending,
         \A s \in Setups : endEvent[s] = "none" => endEvent'[s] = "none"
  PROVE  (/\ PendingAndDialogsDisjoint /\ NoOrphanBridge /\ NoPortLeak
          /\ DialogOwnsItsBridge /\ UnbridgedSetupHasNoBridge)'
<1>. USE DEF Inv
<1>. DEFINE b == dialogs[c].bridge
<1>1. /\ dialogs'[c] = None
      /\ \A d \in CallIds \ {c} : dialogs'[d] = dialogs[d]
      /\ bridge'[b] = "stopped"
      /\ \A s \in Setups \ {b} : bridge'[s] = bridge[s]
      /\ \A d \in CallIds \ {c} : dialogs[d] # None => dialogs[d].bridge # b
      /\ inUse' = inUse \ {dialogs[c].port}
  BY TeardownFacts
<1>2. PendingAndDialogsDisjoint'
  BY <1>1 DEF PendingAndDialogsDisjoint
<1>3. NoOrphanBridge'
  <2>. SUFFICES ASSUME NEW s \in Setups, bridge'[s] \notin {"none", "stopped"}
                PROVE  \/ setup'[s].stage \in {"bridged", "ok"}
                       \/ \E d \in CallIds : dialogs'[d] # None /\ dialogs'[d].bridge = s
    BY DEF NoOrphanBridge
  <2>1. s # b /\ bridge'[s] = bridge[s]
    BY <1>1
  <2>. QED BY <1>1, <2>1 DEF NoOrphanBridge
<1>4. NoPortLeak'
  <2>. SUFFICES ASSUME ~SlowSetup, NEW q \in inUse' PROVE q \in HeldPorts'
    BY DEF NoPortLeak
  <2>1. q \in inUse /\ q # dialogs[c].port
    BY <1>1
  <2>2. CASE \E d \in CallIds : pending[d] # None /\ pending[d] = q
    BY <2>2 DEF HeldPorts
  <2>3. CASE \E d \in CallIds : dialogs[d] # None /\ dialogs[d].port = q
    BY <1>1, <2>1, <2>3 DEF HeldPorts
  <2>. QED BY <2>1, <2>2, <2>3 DEF NoPortLeak, HeldPorts
<1>5. DialogOwnsItsBridge'
  BY <1>1 DEF DialogOwnsItsBridge
<1>6. UnbridgedSetupHasNoBridge'
  <2>1. setup[b].stage = "done"
    BY DEF DialogOwnsItsBridge
  <2>. QED BY <1>1, <2>1 DEF UnbridgedSetupHasNoBridge
<1>. QED BY <1>2, <1>3, <1>4, <1>5, <1>6

\* A BYE tears its dialog down completely or changes no table.
LEMMA ByePreservesInv ==
  ASSUME Inv, NEW c \in CallIds, ReceiveBye(c)
  PROVE  Inv'
<1>. USE DEF Inv
<1>1. PICK nb \in SUBSET CallIds : CleanupStaleState(pending, nb)
  <2>1. CASE c \in byeCache
    BY <2>1, {} \in SUBSET CallIds DEF ReceiveBye
  <2>2. CASE c \notin byeCache
    <3>1. PICK replied \in BOOLEAN :
            CleanupStaleState(pending, IF replied THEN {c} ELSE {})
      BY <2>2 DEF ReceiveBye
    <3>2. (IF replied THEN {c} ELSE {}) \in SUBSET CallIds
      OBVIOUS
    <3>. QED BY <3>1, <3>2
  <2>. QED BY <2>1, <2>2
<1>2. /\ pending' \in [CallIds -> Ports \union {None}]
      /\ stale' = {} /\ byeCache' \in SUBSET CallIds
      /\ \A d \in CallIds : pending'[d] # None => pending'[d] = pending[d]
      /\ ~SlowSetup => pending' = pending
      /\ OldInvitesArePending'
  BY <1>1, SweepFacts DEF TypeOK
<1>3. UNCHANGED <<sent, answer, setup, endEvent>>
  BY DEF ReceiveBye, taskVars
<1>4. CASE dialogs[c] # None /\ Teardown(c)
  <2>1. TypeOK' /\ GaugeCountsDialogs'
    BY <1>2, <1>3, <1>4, TeardownFacts DEF TypeOK, Teardown
  <2>2. (/\ PendingAndDialogsDisjoint /\ NoOrphanBridge /\ NoPortLeak
         /\ DialogOwnsItsBridge /\ UnbridgedSetupHasNoBridge)'
    BY <1>2, <1>3, <1>4, TeardownPreservesParts
  <2>. QED BY <1>2, <2>1, <2>2
<1>5. CASE UNCHANGED <<dialogs, inUse, active, bridge>>
  <2>1. TypeOK' /\ PendingAndDialogsDisjoint'
    BY <1>2, <1>3, <1>5 DEF TypeOK, PendingAndDialogsDisjoint
  <2>2. NoPortLeak'
    BY <1>2, <1>5 DEF NoPortLeak, HeldPorts
  <2>3. (GaugeCountsDialogs /\ NoOrphanBridge /\ DialogOwnsItsBridge /\ UnbridgedSetupHasNoBridge)'
    BY <1>3, <1>5 DEF GaugeCountsDialogs, NoOrphanBridge, DialogOwnsItsBridge, UnbridgedSetupHasNoBridge
  <2>. QED BY <1>2, <2>1, <2>2, <2>3
<1>. QED BY <1>4, <1>5 DEF ReceiveBye, taskVars

\* CANCEL forgets a pending invite and gives back its port.
LEMMA CancelPreservesInv ==
  ASSUME Inv, NEW c \in CallIds, ReceiveCancel(c)
  PROVE  Inv'
<1>. USE DEF Inv
<1>. DEFINE np == [pending EXCEPT ![c] = None]
<1>1. /\ CleanupStaleState(np, {})
      /\ UNCHANGED <<sent, dialogs, active, setup, bridge, endEvent>>
      /\ answer' \in [CallIds -> Signals]
      /\ inUse' \subseteq inUse
      /\ pending[c] # None => inUse' = inUse \ {pending[c]}
  BY DEF ReceiveCancel, Answer, TypeOK, Signals, taskVars
<1>2. np \in [CallIds -> Ports \union {None}] /\ {} \in SUBSET CallIds
  BY DEF TypeOK
<1>3. /\ pending' \in [CallIds -> Ports \union {None}]
      /\ stale' = {} /\ byeCache' \in SUBSET CallIds
      /\ \A d \in CallIds : pending'[d] # None => pending'[d] = np[d]
      /\ ~SlowSetup => pending' = np
      /\ OldInvitesArePending'
  BY <1>1, <1>2, SweepFacts
<1>4. TypeOK'
  BY <1>1, <1>3 DEF TypeOK
<1>5. PendingAndDialogsDisjoint'
  BY <1>1, <1>3 DEF PendingAndDialogsDisjoint, TypeOK
<1>6. NoPortLeak'
  <2>. SUFFICES ASSUME ~SlowSetup, NEW q \in inUse' PROVE q \in HeldPorts'
    BY DEF NoPortLeak
  <2>1. CASE \E d \in CallIds : pending[d] # None /\ pending[d] = q
    <3>1. PICK d \in CallIds : pending[d] # None /\ pending[d] = q
      BY <2>1
    <3>2. d # c
      BY <1>1, <3>1
    <3>3. pending'[d] = q
      BY <1>3, <3>1, <3>2 DEF TypeOK
    <3>. QED BY <3>1, <3>3 DEF HeldPorts
  <2>2. CASE \E d \in CallIds : dialogs[d] # None /\ dialogs[d].port = q
    BY <1>1, <2>2 DEF HeldPorts
  <2>. QED BY <1>1, <2>1, <2>2 DEF NoPortLeak, HeldPorts
<1>7. (GaugeCountsDialogs /\ NoOrphanBridge /\ DialogOwnsItsBridge /\ UnbridgedSetupHasNoBridge)'
  BY <1>1 DEF GaugeCountsDialogs, NoOrphanBridge, DialogOwnsItsBridge, UnbridgedSetupHasNoBridge
<1>. QED BY <1>3, <1>4, <1>5, <1>6, <1>7

\* Any other datagram only runs the sweep.
LEMMA OtherPreservesInv == Inv /\ ReceiveOther => Inv'
<1>. SUFFICES ASSUME Inv, ReceiveOther PROVE Inv'
  OBVIOUS
<1>. USE DEF Inv
<1>1. /\ CleanupStaleState(pending, {})
      /\ UNCHANGED <<sent, answer, dialogs, inUse, active, setup, bridge, endEvent>>
  BY DEF ReceiveOther, taskVars
<1>2. pending \in [CallIds -> Ports \union {None}] /\ {} \in SUBSET CallIds
  BY DEF TypeOK
<1>3. /\ pending' \in [CallIds -> Ports \union {None}]
      /\ stale' = {} /\ byeCache' \in SUBSET CallIds
      /\ \A d \in CallIds : pending'[d] # None => pending'[d] = pending[d]
      /\ ~SlowSetup => pending' = pending
      /\ OldInvitesArePending'
  BY <1>1, <1>2, SweepFacts
<1>4. TypeOK' /\ PendingAndDialogsDisjoint'
  BY <1>1, <1>3 DEF TypeOK, PendingAndDialogsDisjoint
<1>5. NoPortLeak'
  BY <1>1, <1>3 DEF NoPortLeak, HeldPorts
<1>6. (GaugeCountsDialogs /\ NoOrphanBridge /\ DialogOwnsItsBridge /\ UnbridgedSetupHasNoBridge)'
  BY <1>1 DEF GaugeCountsDialogs, NoOrphanBridge, DialogOwnsItsBridge, UnbridgedSetupHasNoBridge
<1>. QED BY <1>3, <1>4, <1>5, <1>6

\* The state of a setup task whose result the engine takes.
LEMMA ResultFacts ==
  ASSUME Inv, NEW s \in Setups, HandleSetupResult(s)
  PROVE  /\ setup[s] \in [stage : Stages \ {"unused"}, call : CallIds, port : Ports]
         /\ setup' \in [Setups -> [stage : Stages \ {"unused"}, call : CallIds, port : Ports]
                                   \union {Idle}]
         /\ setup'[s].stage = "done" /\ setup'[s].call = setup[s].call
         /\ \A t \in Setups \ {s} : setup'[t] = setup[t]
         /\ setup[s].stage = "err" => bridge[s] = "none"
         /\ UNCHANGED <<sent, byeCache, endEvent>>
<1>1. setup[s] \in [stage : Stages \ {"unused"}, call : CallIds, port : Ports]
  BY DEF Inv, TypeOK, HandleSetupResult, Idle
<1>2. setup[s].stage = "err" => bridge[s] = "none"
  BY DEF Inv, UnbridgedSetupHasNoBridge
<1>. QED BY <1>1, <1>2 DEF Inv, TypeOK, HandleSetupResult, Done, Stages

\* A result that ends without a dialog: no one holds the bridge afterwards, and
\* it is stopped if it was built.
LEMMA LostResultPreservesInv ==
  ASSUME Inv, NEW s \in Setups, HandleSetupResult(s), ~ResultIsSuccess(s)
  PROVE  Inv'
<1>. USE DEF Inv
<1>. DEFINE c == setup[s].call
<1>1. /\ setup[s] \in [stage : Stages \ {"unused"}, call : CallIds, port : Ports]
      /\ setup' \in [Setups -> [stage : Stages \ {"unused"}, call : CallIds, port : Ports]
                               \union {Idle}]
      /\ setup'[s].stage = "done" /\ setup'[s].call = setup[s].call
      /\ \A t \in Setups \ {s} : setup'[t] = setup[t]
      /\ setup[s].stage = "err" => bridge[s] = "none"
      /\ UNCHANGED <<sent, byeCache, endEvent>>
  BY ResultFacts
<1>2. /\ UNCHANGED <<dialogs, active>>
      /\ answer' \in [CallIds -> Signals]
      /\ pending' = [pending EXCEPT ![c] = None]
      /\ stale' \subseteq stale \ {c}
      /\ bridge' = [bridge EXCEPT ![s] = "stopped"] \/ (bridge' = bridge /\ bridge[s] = "none")
      /\ inUse' \subseteq inUse
      /\ pending[c] # None => inUse' = inUse \ {pending[c]}
  <2>1. CASE ResultIsUnclaimed(s)
    <3>1. pending[c] = None /\ UNCHANGED <<answer, pending, stale, dialogs, active>>
      BY <2>1 DEF ResultIsUnclaimed
    <3>2. pending = [pending EXCEPT ![c] = None] /\ c \notin stale
      BY <1>1, <3>1 DEF TypeOK, OldInvitesArePending
    <3>. QED BY <1>1, <2>1, <3>1, <3>2 DEF ResultIsUnclaimed, StopBridge, TypeOK
  <2>2. CASE ResultCannotBeAnswered(s)
    BY <1>1, <2>2 DEF ResultCannotBeAnswered, StopBridge, Forget, TypeOK
  <2>3. CASE ResultIsFailure(s)
    BY <1>1, <2>3 DEF ResultIsFailure, Forget, Answer, TypeOK, Signals
  <2>. QED BY <2>1, <2>2, <2>3 DEF HandleSetupResult
<1>3. /\ bridge' \in [Setups -> {"none", "live", "ended", "dark", "stopped"}]
      /\ bridge'[s] \in {"none", "stopped"}
      /\ \A t \in Setups \ {s} : bridge'[t] = bridge[t]
  BY <1>2 DEF TypeOK
<1>4. TypeOK'
  BY <1>1, <1>2, <1>3 DEF TypeOK
<1>5. PendingAndDialogsDisjoint' /\ GaugeCountsDialogs'
  BY <1>2 DEF PendingAndDialogsDisjoint, GaugeCountsDialogs, TypeOK
<1>6. \A d \in CallIds : dialogs[d] # None => dialogs[d].bridge # s
  BY DEF DialogOwnsItsBridge, HandleSetupResult
<1>7. DialogOwnsItsBridge'
  BY <1>1, <1>2, <1>6 DEF DialogOwnsItsBridge, TypeOK
<1>8. NoOrphanBridge'
  BY <1>1, <1>2, <1>3 DEF NoOrphanBridge
<1>9. UnbridgedSetupHasNoBridge'
  BY <1>1, <1>3 DEF UnbridgedSetupHasNoBridge
<1>10. OldInvitesArePending'
  BY <1>1, <1>2 DEF OldInvitesArePending, TypeOK
<1>11. NoPortLeak'
  <2>. SUFFICES ASSUME ~SlowSetup, NEW q \in inUse' PROVE q \in HeldPorts'
    BY DEF NoPortLeak
  <2>1. CASE \E d \in CallIds : pending[d] # None /\ pending[d] = q
    <3>1. PICK d \in CallIds : pending[d] # None /\ pending[d] = q
      BY <2>1
    <3>2. d # c
      BY <1>2, <3>1
    <3>3. pending'[d] = q
      BY <1>2, <3>1, <3>2 DEF TypeOK
    <3>. QED BY <3>1, <3>3 DEF HeldPorts
  <2>2. CASE \E d \in CallIds : dialogs[d] # None /\ dialogs[d].port = q
    BY <1>2, <2>2 DEF HeldPorts
  <2>. QED BY <1>2, <2>1, <2>2 DEF NoPortLeak, HeldPorts
<1>. QED BY <1>4, <1>5, <1>7, <1>8, <1>9, <1>10, <1>11

\* A successful setup turns its pending invite into a dialog.
LEMMA SuccessPreservesInv ==
  ASSUME Inv, NEW s \in Setups, HandleSetupResult(s), ResultIsSuccess(s)
  PROVE  Inv'
<1>. USE DEF Inv
<1>. DEFINE c == setup[s].call
            e == [port |-> pending[c], bridge |-> s]
<1>1. /\ setup[s] \in [stage : Stages \ {"unused"}, call : CallIds, port : Ports]
      /\ setup' \in [Setups -> [stage : Stages \ {"unused"}, call : CallIds, port : Ports]
                               \union {Idle}]
      /\ setup'[s].stage = "done" /\ setup'[s].call = setup[s].call
      /\ \A t \in Setups \ {s} : setup'[t] = setup[t]
      /\ UNCHANGED <<sent, byeCache, endEvent>>
  BY ResultFacts
<1>2. /\ pending[c] # None /\ setup[s].stage = "ok"
      /\ dialogs' = [dialogs EXCEPT ![c] = e]
      /\ active' = active + 1
      /\ answer' = [answer EXCEPT ![c] = "200"]
      /\ pending' = [pending EXCEPT ![c] = None]
      /\ stale' = stale \ {c}
      /\ UNCHANGED <<inUse, bridge>>
  BY DEF ResultIsSuccess, Answer, Forget
<1>3. /\ c \in CallIds /\ dialogs[c] = None
      /\ e \in [port : Ports, bridge : Setups] /\ e # None
  BY <1>1, <1>2, SipAssumption DEF TypeOK, PendingAndDialogsDisjoint
<1>4. dialogs'[c] = e /\ \A d \in CallIds \ {c} : dialogs'[d] = dialogs[d]
  BY <1>2, <1>3 DEF TypeOK
<1>5. TypeOK'
  BY <1>1, <1>2, <1>3 DEF TypeOK, Signals
<1>6. PendingAndDialogsDisjoint'
  BY <1>2, <1>3 DEF PendingAndDialogsDisjoint, TypeOK
<1>7. GaugeCountsDialogs'
  <2>1. DOMAIN dialogs = CallIds
    BY DEF TypeOK
  <2>2. Cardinality(Established(dialogs')) = Cardinality(Established(dialogs)) + 1
    <3>. HIDE DEF c, e
    <3>. QED BY <1>2, <1>3, <2>1, InsertCounts
  <2>3. active = Cardinality(Established(dialogs))
    BY DEF GaugeCountsDialogs, Established
  <2>. QED BY <1>2, <2>2, <2>3 DEF GaugeCountsDialogs, Established
<1>8. NoOrphanBridge'
  <2>. SUFFICES ASSUME NEW t \in Setups, bridge'[t] \notin {"none", "stopped"}
                PROVE  \/ setup'[t].stage \in {"bridged", "ok"}
                       \/ \E d \in CallIds : dialogs'[d] # None /\ dialogs'[d].bridge = t
    BY DEF NoOrphanBridge
  <2>1. CASE t = s
    BY <1>3, <1>4, <2>1
  <2>2. CASE t # s
    BY <1>1, <1>2, <1>3, <1>4, <2>2 DEF NoOrphanBridge
  <2>. QED BY <2>1, <2>2
<1>9. NoPortLeak'
  <2>. SUFFICES ASSUME ~SlowSetup, NEW q \in inUse' PROVE q \in HeldPorts'
    BY DEF NoPortLeak
  <2>1. CASE \E d \in CallIds : pending[d] # None /\ pending[d] = q
    <3>1. PICK d \in CallIds : pending[d] # None /\ pending[d] = q
      BY <2>1
    <3>2. CASE d = c
      BY <1>3, <1>4, <3>1, <3>2 DEF HeldPorts
    <3>3. CASE d # c
      <4>1. pending'[d] = q
        BY <1>2, <3>1, <3>3 DEF TypeOK
      <4>. QED BY <3>1, <4>1 DEF HeldPorts
    <3>. QED BY <3>2, <3>3
  <2>2. CASE \E d \in CallIds : dialogs[d] # None /\ dialogs[d].port = q
    BY <1>3, <1>4, <2>2 DEF HeldPorts
  <2>. QED BY <1>2, <2>1, <2>2 DEF NoPortLeak, HeldPorts
<1>10. OldInvitesArePending'
  BY <1>1, <1>2 DEF OldInvitesArePending, TypeOK
<1>11. DialogOwnsItsBridge'
  <2>1. \A d \in CallIds : dialogs[d] # None => dialogs[d].bridge # s
    BY <1>2 DEF DialogOwnsItsBridge
  <2>. QED BY <1>1, <1>3, <1>4, <2>1 DEF DialogOwnsItsBridge, TypeOK
<1>12. UnbridgedSetupHasNoBridge'
  BY <1>1, <1>2 DEF UnbridgedSetupHasNoBridge
<1>. QED BY <1>5, <1>6, <1>7, <1>8, <1>9, <1>10, <1>11, <1>12

\* A backend "end" tears down the dialog its Call-ID has now, if any.
LEMMA BackendEndPreservesInv ==
  ASSUME Inv, NEW s \in Setups, HandleBackendEnd(s)
  PROVE  Inv'
<1>. USE DEF Inv
<1>. DEFINE c == setup[s].call
<1>0. c \in CallIds
  BY DEF HandleBackendEnd, UnbridgedSetupHasNoBridge, TypeOK, Idle
<1>1. /\ UNCHANGED <<sent, pending, stale, byeCache, setup>>
      /\ endEvent' \in [Setups -> {"none", "queued", "handled"}]
      /\ \A t \in Setups : endEvent[t] = "none" => endEvent'[t] = "none"
      /\ answer' \in [CallIds -> Signals]
  BY DEF HandleBackendEnd, TypeOK, Answer, Signals
<1>2. OldInvitesArePending'
  BY <1>1 DEF OldInvitesArePending
<1>3. CASE dialogs[c] # None /\ Teardown(c)
  <2>1. TypeOK' /\ GaugeCountsDialogs'
    BY <1>0, <1>1, <1>3, TeardownFacts DEF TypeOK
  <2>2. (/\ PendingAndDialogsDisjoint /\ NoOrphanBridge /\ NoPortLeak
         /\ DialogOwnsItsBridge /\ UnbridgedSetupHasNoBridge)'
    BY <1>0, <1>1, <1>3, TeardownPreservesParts
  <2>. QED BY <1>2, <2>1, <2>2
<1>4. CASE UNCHANGED <<dialogs, inUse, active, bridge>>
  <2>1. TypeOK'
    BY <1>1, <1>4 DEF TypeOK
  <2>2. (/\ PendingAndDialogsDisjoint /\ GaugeCountsDialogs /\ NoOrphanBridge /\ NoPortLeak
         /\ DialogOwnsItsBridge /\ UnbridgedSetupHasNoBridge)'
    BY <1>1, <1>4 DEF PendingAndDialogsDisjoint, GaugeCountsDialogs, NoOrphanBridge,
       NoPortLeak, HeldPorts, DialogOwnsItsBridge, UnbridgedSetupHasNoBridge
  <2>. QED BY <1>2, <2>1, <2>2
<1>. QED BY <1>3, <1>4 DEF HandleBackendEnd

\* Steps of the setup tasks and of the bridges they start.
LEMMA TaskPreservesInv ==
  ASSUME Inv, NEW s \in Setups,
         \/ SetupBridges(s) \/ SetupFails(s) \/ SetupReports(s)
         \/ BackendEnds(s) \/ BackendVanishes(s) \/ BridgeGoesDark(s)
  PROVE  Inv'
<1>. USE DEF Inv, engineVars
<1>1. /\ UNCHANGED <<sent, answer, pending, stale, dialogs, byeCache, inUse, active>>
      /\ \A t \in Setups \ {s} : /\ setup'[t] = setup[t] /\ bridge'[t] = bridge[t]
                                /\ endEvent'[t] = endEvent[t]
  BY DEF SetupBridges, SetupFails, SetupReports, BackendEnds, BackendVanishes,
         BridgeGoesDark, TypeOK
<1>2. TypeOK' /\ setup'[s].call = setup[s].call
  <2>1. CASE setup[s].stage = "unused"
    <3>1. bridge[s] = "none"
      BY <2>1 DEF UnbridgedSetupHasNoBridge
    <3>. QED BY <2>1, <3>1 DEF SetupBridges, SetupFails, SetupReports, BackendEnds,
                BackendVanishes, BridgeGoesDark
  <2>2. CASE setup[s].stage # "unused"
    <3>1. setup[s] \in [stage : Stages \ {"unused"}, call : CallIds, port : Ports]
      BY <2>2 DEF TypeOK, Idle
    <3>2. CASE SetupBridges(s)
      BY <3>1, <3>2 DEF SetupBridges, TypeOK, Stages
    <3>3. CASE SetupFails(s) \/ SetupReports(s)
      BY <3>1, <3>3 DEF SetupFails, SetupReports, TypeOK, Stages
    <3>4. CASE BackendEnds(s) \/ BackendVanishes(s) \/ BridgeGoesDark(s)
      BY <3>4 DEF BackendEnds, BackendVanishes, BridgeGoesDark, TypeOK
    <3>. QED BY <3>2, <3>3, <3>4
  <2>. QED BY <2>1, <2>2
<1>3. (PendingAndDialogsDisjoint /\ GaugeCountsDialogs /\ NoPortLeak /\ OldInvitesArePending)'
  BY <1>1 DEF PendingAndDialogsDisjoint, GaugeCountsDialogs, NoPortLeak, HeldPorts,
              OldInvitesArePending
<1>4. /\ bridge'[s] \notin {"none", "stopped"} =>
           setup'[s].stage \in {"bridged", "ok"} \/ bridge[s] \notin {"none", "stopped"}
      /\ setup[s].stage \in {"bridged", "ok"} => setup'[s].stage \in {"bridged", "ok"}
      /\ setup[s].stage = "done" => setup'[s].stage = "done"
      /\ setup'[s].stage \in {"unused", "connecting", "err"} =>
           /\ setup[s].stage \in {"unused", "connecting", "err"}
           /\ bridge[s] = "none" => bridge'[s] = "none" /\ endEvent'[s] = endEvent[s]
  <2>1. CASE SetupBridges(s)
    <3>1. setup'[s].stage = "bridged" /\ setup[s].stage = "connecting"
      BY <2>1 DEF SetupBridges, TypeOK, Idle
    <3>. QED BY <3>1
  <2>2. CASE SetupFails(s)
    <3>1. setup'[s].stage = "err" /\ setup[s].stage = "connecting"
      BY <2>2 DEF SetupFails, TypeOK, Idle
    <3>. QED BY <2>2, <3>1 DEF SetupFails
  <2>3. CASE SetupReports(s)
    <3>1. setup'[s].stage = "ok" /\ setup[s].stage = "bridged"
      BY <2>3 DEF SetupReports, TypeOK, Idle
    <3>. QED BY <3>1
  <2>4. CASE BackendEnds(s) \/ BackendVanishes(s) \/ BridgeGoesDark(s)
    BY <2>4 DEF BackendEnds, BackendVanishes, BridgeGoesDark
  <2>. QED BY <2>1, <2>2, <2>3, <2>4
<1>5. NoOrphanBridge'
  BY <1>1, <1>4 DEF NoOrphanBridge
<1>6. DialogOwnsItsBridge'
  BY <1>1, <1>2, <1>4 DEF DialogOwnsItsBridge, TypeOK
<1>7. UnbridgedSetupHasNoBridge'
  BY <1>1, <1>4 DEF UnbridgedSetupHasNoBridge
<1>. QED BY <1>2, <1>3, <1>5, <1>6, <1>7

\* Time passing only marks invites that are pending.
LEMMA AgePreservesInv ==
  ASSUME Inv, NEW c \in CallIds, PendingGrowsOld(c)
  PROVE  Inv'
<1>. USE DEF Inv, PendingGrowsOld, taskVars
<1>1. TypeOK' /\ OldInvitesArePending'
  BY DEF TypeOK, OldInvitesArePending
<1>2. (/\ PendingAndDialogsDisjoint /\ GaugeCountsDialogs /\ NoOrphanBridge /\ NoPortLeak
       /\ DialogOwnsItsBridge /\ UnbridgedSetupHasNoBridge)'
  BY DEF PendingAndDialogsDisjoint, GaugeCountsDialogs, NoOrphanBridge,
     NoPortLeak, HeldPorts, DialogOwnsItsBridge, UnbridgedSetupHasNoBridge
<1>. QED BY <1>1, <1>2

-----------------------------------------------------------------------------

\* Every step of the engine, its callers and its tasks preserves Inv.
LEMMA NextPreservesInv == Inv /\ [Next]_vars => Inv'
<1>. SUFFICES ASSUME Inv, [Next]_vars PROVE Inv'
  OBVIOUS
<1>1. CASE UNCHANGED vars
  BY <1>1 DEF vars, engineVars, taskVars, Inv, TypeOK, PendingAndDialogsDisjoint,
     GaugeCountsDialogs, NoOrphanBridge, NoPortLeak, HeldPorts, OldInvitesArePending,
     DialogOwnsItsBridge, UnbridgedSetupHasNoBridge
<1>2. ASSUME NEW c \in CallIds, CallStep(c) PROVE Inv'
  <2>1. CASE CallerInvites(c) \/ CallerCancels(c) \/ CallerHangsUp(c)
    BY <2>1, CallerPreservesInv DEF CallerInvites, CallerCancels, CallerHangsUp, Requests
  <2>2. CASE ReceiveInvite(c)
    BY <2>2, AcceptedInvitePreservesInv, RejectedInvitePreservesInv
  <2>3. CASE ReceiveBye(c)
    BY <2>3, ByePreservesInv
  <2>4. CASE ReceiveCancel(c)
    BY <2>4, CancelPreservesInv
  <2>5. CASE PendingGrowsOld(c)
    BY <2>5, AgePreservesInv
  <2>. QED BY <1>2, <2>1, <2>2, <2>3, <2>4, <2>5 DEF CallStep
<1>3. ASSUME NEW s \in Setups, TaskStep(s) PROVE Inv'
  <2>1. CASE HandleSetupResult(s)
    BY <2>1, SuccessPreservesInv, LostResultPreservesInv
  <2>2. CASE HandleBackendEnd(s)
    BY <2>2, BackendEndPreservesInv
  <2>3. CASE \/ SetupBridges(s) \/ SetupFails(s) \/ SetupReports(s)
             \/ BackendEnds(s) \/ BackendVanishes(s) \/ BridgeGoesDark(s)
    BY <2>3, TaskPreservesInv
  <2>. QED BY <1>3, <2>1, <2>2, <2>3 DEF TaskStep
<1>. QED BY <1>1, <1>2, <1>3, OtherPreservesInv DEF Next

\* Inv holds of every behaviour of the engine.
THEOREM SpecInv == Spec => []Inv
BY InitInv, NextPreservesInv, PTL DEF Spec

\* Type correctness of the engine's tables, its pool and its tasks.
THEOREM TypeCorrect == Spec => []TypeOK
BY SpecInv, PTL DEF Inv

\* pending_inbound and inbound_dialogs never hold one Call-ID at once, for any
\* number of calls and any loss, duplication and reordering of datagrams.
THEOREM TablesAreDisjoint == Spec => []PendingAndDialogsDisjoint
BY SpecInv, PTL DEF Inv

\* inbound_calls_active is always the number of established dialogs.
THEOREM GaugeIsExact == Spec => []GaugeCountsDialogs
BY SpecInv, PTL DEF Inv

\* No bridge outlives the engine's record of it.
THEOREM BridgesAreOwned == Spec => []NoOrphanBridge
BY SpecInv, PTL DEF Inv

\* With a setup timeout under 60 s, no path loses a port of the pool.
THEOREM PortsAreNotLost == Spec => []NoPortLeak
BY SpecInv, PTL DEF Inv
=============================================================================
