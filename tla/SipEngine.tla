------------------------------ MODULE SipEngine ------------------------------
(***************************************************************************)
(* The inbound half of the SIP engine of rust-sbc-gateway                  *)
(* (src/sip_engine.rs, src/bridge.rs): one task that owns the tables of    *)
(* pending invites and established dialogs, the RTP port pool and the      *)
(* cache of BYE responses, and that serves, in any order, datagrams from   *)
(* the SIP socket, results of the setup tasks it spawned and events from   *)
(* the media bridges those tasks created.  An action is one arm of the     *)
(* engine's select! loop, or one step of a task that runs beside it.       *)
(*                                                                         *)
(* The SIP socket is UDP: a datagram that was sent can be delivered never, *)
(* once or many times, and in any order.  The two channels into the engine *)
(* are sets of undelivered items: the senders are independent tasks, so    *)
(* taking two queued items in either order is also reached by sending them *)
(* in the other order.                                                     *)
(***************************************************************************)
EXTENDS Naturals, FiniteSets

CONSTANTS
  CallIds,     \* the Call-IDs the callers use
  RtpStart,    \* SBC_RTP_START_PORT
  RtpEnd,      \* SBC_RTP_END_PORT
  Setups,      \* the setup tasks that can be spawned (bounds INVITE handling)
  SlowSetup,   \* SBC_CALL_SETUP_TIMEOUT_MS exceeds the 60 s age limit
  None         \* absence of a table entry

Ports == RtpStart..RtpEnd

ASSUME SipAssumption ==
  /\ IsFiniteSet(CallIds)
  /\ RtpStart \in Nat /\ RtpEnd \in Nat
  /\ SlowSetup \in BOOLEAN
  /\ None \notin Ports
  /\ None \notin [port : Ports, bridge : Setups]

VARIABLES
  sent,        \* datagrams each caller has put on the network
  answer,      \* the last thing the engine has sent for each call's INVITE
  pending,     \* pending_inbound: the reserved port, or None
  stale,       \* pending invites older than 60 s
  dialogs,     \* inbound_dialogs: reserved port and bridge, or None
  byeCache,    \* recent_bye_responses: calls whose BYE has a cached 200
  inUse,       \* rtp_port_pool.in_use
  active,      \* metrics.inbound_calls_active
  setup,       \* the spawned setup tasks
  bridge,      \* the four bridge tasks and the RTP socket of each setup
  endEvent     \* BackendEndRequested, per bridge

engineVars == <<answer, pending, stale, dialogs, byeCache, inUse, active>>
taskVars   == <<setup, bridge, endEvent>>
vars       == <<sent, engineVars, taskVars>>

Requests == {"INVITE", "CANCEL", "BYE"}
Signals  == {"none", "180", "200", "487", "488", "503", "BYE"}
Stages   == {"unused", "connecting", "bridged", "ok", "err", "done"}
Idle     == [stage |-> "unused", call |-> None, port |-> None]

TypeOK ==
  /\ sent \in [CallIds -> SUBSET Requests]
  /\ answer \in [CallIds -> Signals]
  /\ pending \in [CallIds -> Ports \union {None}]
  /\ stale \in SUBSET CallIds
  /\ dialogs \in [CallIds -> [port : Ports, bridge : Setups] \union {None}]
  /\ byeCache \in SUBSET CallIds
  /\ inUse \in SUBSET Ports
  /\ active \in Nat
  /\ setup \in [Setups -> [stage : Stages \ {"unused"}, call : CallIds, port : Ports]
                          \union {Idle}]
  /\ bridge \in [Setups -> {"none", "live", "ended", "dark", "stopped"}]
  /\ endEvent \in [Setups -> {"none", "queued", "handled"}]

Init ==
  /\ sent = [c \in CallIds |-> {}]
  /\ answer = [c \in CallIds |-> "none"]
  /\ pending = [c \in CallIds |-> None]
  /\ stale = {}
  /\ dialogs = [c \in CallIds |-> None]
  /\ byeCache = {}
  /\ inUse = {}
  /\ active = 0
  /\ setup = [s \in Setups |-> Idle]
  /\ bridge = [s \in Setups |-> "none"]
  /\ endEvent = [s \in Setups |-> "none"]

-----------------------------------------------------------------------------
(* The callers.  A caller may CANCEL an invite it has sent, and may end the  *)
(* call with BYE once it holds a tagged response (180 or 200).               *)

Send(c, m) ==
  /\ m \notin sent[c]
  /\ sent' = [sent EXCEPT ![c] = @ \union {m}]
  /\ UNCHANGED <<engineVars, taskVars>>

CallerInvites(c) == Send(c, "INVITE")
CallerCancels(c) == "INVITE" \in sent[c] /\ Send(c, "CANCEL")
CallerHangsUp(c) == answer[c] \in {"180", "200"} /\ Send(c, "BYE")

-----------------------------------------------------------------------------
(* Pieces of the engine shared by its handlers.                              *)

Free == Ports \ inUse

\* BoundedRtpPortPool::allocate: the lowest port that is not in use.
Allocates(p) == p \in Free /\ \A q \in Free : p <= q

Answer(c, m) == answer' = [answer EXCEPT ![c] = m]

StopBridge(s) == bridge' = [bridge EXCEPT ![s] = "stopped"]

\* The teardown shared by BYE and by a backend "end": the dialog leaves the
\* table, its bridge is stopped and its port goes back to the pool.
Teardown(c) ==
  /\ dialogs' = [dialogs EXCEPT ![c] = None]
  /\ StopBridge(dialogs[c].bridge)
  /\ inUse' = inUse \ {dialogs[c].port}
  /\ active' = active - 1

\* cleanup_stale_state runs at the end of every datagram: pending invites
\* over 60 s old are forgotten (their port stays in use) and cached BYE
\* responses over 300 s old are dropped.
CleanupStaleState(newPending, newByes) ==
  /\ pending' = [c \in CallIds |-> IF c \in stale THEN None ELSE newPending[c]]
  /\ stale' = {}
  /\ \E expired \in SUBSET byeCache : byeCache' = (byeCache \ expired) \union newByes

-----------------------------------------------------------------------------
(* INVITE.                                                                   *)

\* A duplicate of an answered INVITE gets the cached 200 again; a duplicate
\* of a pending one is dropped.
InviteIsDuplicate(c) ==
  /\ \/ dialogs[c] # None /\ Answer(c, "200")
     \/ dialogs[c] = None /\ pending[c] # None /\ UNCHANGED answer
  /\ UNCHANGED <<inUse, taskVars>>
  /\ CleanupStaleState(pending, {})

\* 100 and 180 have been sent before the pool is asked; 503 if it is empty.
InviteFindsNoPort(c) ==
  /\ dialogs[c] = None /\ pending[c] = None
  /\ Free = {}
  /\ Answer(c, "503")
  /\ UNCHANGED <<inUse, taskVars>>
  /\ CleanupStaleState(pending, {})

\* No usable media address in the SDP: 488, and the port is given back.
InviteHasNoMedia_KeepsPort(c) ==
  /\ dialogs[c] = None /\ pending[c] = None
  /\ \E p \in Ports : Allocates(p) /\ inUse' = inUse \union {p}
  /\ Answer(c, "488")
  /\ UNCHANGED taskVars
  /\ CleanupStaleState(pending, {})

InviteHasNoMedia(c) ==
  /\ dialogs[c] = None /\ pending[c] = None
  /\ \E p \in Ports : Allocates(p) /\ inUse' = (inUse \union {p}) \ {p}
  /\ Answer(c, "488")
  /\ UNCHANGED taskVars
  /\ CleanupStaleState(pending, {})

\* The invite is accepted for setup: a port is reserved, the invite becomes
\* pending and a task is spawned that builds the bridge.
InviteStartsSetup_IgnoresDialog(c) ==
  /\ pending[c] = None
  /\ \E p \in Ports, s \in Setups :
       /\ Allocates(p)
       /\ setup[s].stage = "unused"
       /\ inUse' = inUse \union {p}
       /\ setup' = [setup EXCEPT ![s] = [stage |-> "connecting", call |-> c, port |-> p]]
       /\ CleanupStaleState([pending EXCEPT ![c] = p], {})
  /\ Answer(c, "180")
  /\ UNCHANGED <<bridge, endEvent>>

InviteStartsSetup(c) ==
  /\ dialogs[c] = None /\ pending[c] = None
  /\ \E p \in Ports, s \in Setups :
       /\ Allocates(p)
       /\ setup[s].stage = "unused"
       /\ inUse' = inUse \union {p}
       /\ setup' = [setup EXCEPT ![s] = [stage |-> "connecting", call |-> c, port |-> p]]
       /\ CleanupStaleState([pending EXCEPT ![c] = p], {})
  /\ Answer(c, "180")
  /\ UNCHANGED <<bridge, endEvent>>

ReceiveInvite(c) ==
  /\ "INVITE" \in sent[c]
  /\ \/ InviteIsDuplicate(c)
     \/ InviteFindsNoPort(c)
     \/ InviteHasNoMedia(c)
     \/ InviteStartsSetup(c)
  /\ UNCHANGED <<sent, dialogs, active>>

-----------------------------------------------------------------------------
(* BYE and CANCEL.                                                           *)

\* A BYE whose 200 is cached is answered from the cache and goes no further.
\* Otherwise it is answered (the response is cached if it could be sent) and
\* the dialog, if there is one, is torn down.
ReceiveBye(c) ==
  /\ "BYE" \in sent[c]
  /\ \/ /\ c \in byeCache
        /\ CleanupStaleState(pending, {})
        /\ UNCHANGED <<dialogs, inUse, active, taskVars>>
     \/ /\ c \notin byeCache
        /\ \E replied \in BOOLEAN :
             CleanupStaleState(pending, IF replied THEN {c} ELSE {})
        /\ \/ dialogs[c] # None /\ Teardown(c)
           \/ dialogs[c] = None /\ UNCHANGED <<dialogs, inUse, active, bridge>>
        /\ UNCHANGED <<setup, endEvent>>
  /\ UNCHANGED <<sent, answer>>

\* CANCEL ends a pending invite with 487 and gives its port back; the setup
\* task is not told.  For any other call it is only answered.
ReceiveCancel(c) ==
  /\ "CANCEL" \in sent[c]
  /\ \/ /\ pending[c] # None
        /\ Answer(c, "487")
        /\ inUse' = inUse \ {pending[c]}
     \/ pending[c] = None /\ UNCHANGED <<answer, inUse>>
  /\ CleanupStaleState([pending EXCEPT ![c] = None], {})
  /\ UNCHANGED <<sent, dialogs, active, taskVars>>

\* Every other datagram (ACK, an unknown method, a response, an INVITE without
\* a Call-ID) changes none of the inbound tables, but the sweep still runs.
ReceiveOther ==
  /\ CleanupStaleState(pending, {})
  /\ UNCHANGED <<sent, answer, dialogs, inUse, active, taskVars>>

-----------------------------------------------------------------------------
(* InboundSetupResult and BackendEndRequested.                               *)

Done(s) == setup' = [setup EXCEPT ![s].stage = "done"]
Forget(c) == pending' = [pending EXCEPT ![c] = None] /\ stale' = stale \ {c}

\* The invite is gone: a bridge that was built for it is stopped and the port
\* that bridge was built on is released.
ResultIsUnclaimed_KeepsBridge(s) ==
  /\ pending[setup[s].call] = None
  /\ inUse' = IF setup[s].stage = "ok" THEN inUse \ {setup[s].port} ELSE inUse
  /\ UNCHANGED <<answer, pending, stale, dialogs, active, bridge>>

ResultIsUnclaimed(s) ==
  /\ pending[setup[s].call] = None
  /\ \/ setup[s].stage = "ok" /\ StopBridge(s) /\ inUse' = inUse \ {setup[s].port}
     \/ setup[s].stage = "err" /\ UNCHANGED <<bridge, inUse>>
  /\ UNCHANGED <<answer, pending, stale, dialogs, active>>

ResultIsSuccess(s) ==
  LET c == setup[s].call IN
  /\ pending[c] # None /\ setup[s].stage = "ok"
  /\ dialogs' = [dialogs EXCEPT ![c] = [port |-> pending[c], bridge |-> s]]
  /\ active' = active + 1
  /\ Answer(c, "200")
  /\ Forget(c)
  /\ UNCHANGED <<inUse, bridge>>

\* The 200 cannot be built or sent: the bridge is stopped, nothing is answered.
ResultCannotBeAnswered(s) ==
  LET c == setup[s].call IN
  /\ pending[c] # None /\ setup[s].stage = "ok"
  /\ StopBridge(s)
  /\ inUse' = inUse \ {pending[c]}
  /\ Forget(c)
  /\ UNCHANGED <<answer, dialogs, active>>

ResultIsFailure(s) ==
  LET c == setup[s].call IN
  /\ pending[c] # None /\ setup[s].stage = "err"
  /\ Answer(c, "503")
  /\ inUse' = inUse \ {pending[c]}
  /\ Forget(c)
  /\ UNCHANGED <<dialogs, active, bridge>>

HandleSetupResult(s) ==
  /\ setup[s].stage \in {"ok", "err"}
  /\ \/ ResultIsUnclaimed(s)
     \/ ResultIsSuccess(s)
     \/ ResultCannotBeAnswered(s)
     \/ ResultIsFailure(s)
  /\ Done(s)
  /\ UNCHANGED <<sent, byeCache, endEvent>>

\* Mutant: a backend "end" that finds no dialog is counted all the same.
HandleBackendEnd_CountsAlways(s) ==
  /\ endEvent[s] = "queued"
  /\ endEvent' = [endEvent EXCEPT ![s] = "handled"]
  /\ LET c == setup[s].call IN
       \/ dialogs[c] # None /\ Teardown(c) /\ Answer(c, "BYE")
       \/ /\ dialogs[c] = None /\ active' = active - 1
          /\ UNCHANGED <<dialogs, inUse, bridge, answer>>
  /\ UNCHANGED <<sent, pending, stale, byeCache, setup>>

\* A backend "end" sends BYE to the caller and tears the call down, if the
\* Call-ID it names has a dialog now.
HandleBackendEnd(s) ==
  /\ endEvent[s] = "queued"
  /\ endEvent' = [endEvent EXCEPT ![s] = "handled"]
  /\ LET c == setup[s].call IN
       \/ dialogs[c] # None /\ Teardown(c) /\ Answer(c, "BYE")
       \/ dialogs[c] = None /\ UNCHANGED <<dialogs, inUse, active, bridge, answer>>
  /\ UNCHANGED <<sent, pending, stale, byeCache, setup>>

-----------------------------------------------------------------------------
(* The setup task (start_inbound_bridge) and the tasks of its bridge.        *)

\* The operating system binds a UDP port for one socket at a time.
BoundPorts == {setup[s].port : s \in {t \in Setups : bridge[t] \in {"live", "ended"}}}

\* The backend WebSocket is connected, the RTP socket is bound and the bridge
\* tasks run.
SetupBridges(s) ==
  /\ setup[s].stage = "connecting"
  /\ setup[s].port \notin BoundPorts
  /\ setup' = [setup EXCEPT ![s].stage = "bridged"]
  /\ bridge' = [bridge EXCEPT ![s] = "live"]
  /\ UNCHANGED <<sent, engineVars, endEvent>>

\* Connecting or binding fails, or either timeout expires: Err is reported.
SetupFails_Silently(s) ==
  /\ setup[s].stage = "connecting"
  /\ setup' = [setup EXCEPT ![s].stage = "done"]
  /\ UNCHANGED <<sent, engineVars, bridge, endEvent>>

SetupFails(s) ==
  /\ setup[s].stage = "connecting"
  /\ setup' = [setup EXCEPT ![s].stage = "err"]
  /\ UNCHANGED <<sent, engineVars, bridge, endEvent>>

SetupReports(s) ==
  /\ setup[s].stage = "bridged"
  /\ setup' = [setup EXCEPT ![s].stage = "ok"]
  /\ UNCHANGED <<sent, engineVars, bridge, endEvent>>

\* The backend ends the call: playout stops and the engine is told.
BackendEnds(s) ==
  /\ bridge[s] = "live"
  /\ bridge' = [bridge EXCEPT ![s] = "ended"]
  /\ endEvent' = [endEvent EXCEPT ![s] = "queued"]
  /\ UNCHANGED <<sent, engineVars, setup>>

\* The WebSocket breaks without "end": the engine is not told.
BackendVanishes(s) ==
  /\ bridge[s] = "live"
  /\ bridge' = [bridge EXCEPT ![s] = "ended"]
  /\ UNCHANGED <<sent, engineVars, setup, endEvent>>

\* The next RTP packet after that ends the RTP->WS loop, which closes the socket.
BridgeGoesDark(s) ==
  /\ bridge[s] = "ended"
  /\ bridge' = [bridge EXCEPT ![s] = "dark"]
  /\ UNCHANGED <<sent, engineVars, setup, endEvent>>

\* 60 s pass while an invite is pending.
PendingGrowsOld(c) ==
  /\ SlowSetup
  /\ pending[c] # None /\ c \notin stale
  /\ stale' = stale \union {c}
  /\ UNCHANGED <<sent, answer, pending, dialogs, byeCache, inUse, active, taskVars>>

-----------------------------------------------------------------------------

CallStep(c) ==
  \/ CallerInvites(c) \/ CallerCancels(c) \/ CallerHangsUp(c)
  \/ ReceiveInvite(c) \/ ReceiveBye(c) \/ ReceiveCancel(c)
  \/ PendingGrowsOld(c)

TaskStep(s) ==
  \/ SetupBridges(s) \/ SetupFails(s) \/ SetupReports(s)
  \/ BackendEnds(s) \/ BackendVanishes(s) \/ BridgeGoesDark(s)
  \/ HandleSetupResult(s) \/ HandleBackendEnd(s)

Next ==
  \/ \E c \in CallIds : CallStep(c)
  \/ \E s \in Setups : TaskStep(s)
  \/ ReceiveOther

Spec == Init /\ [][Next]_vars

\* Both timeouts bound the setup task, tokio polls every ready task, and
\* select! picks its ready arms at random: a setup task finishes and reports,
\* and what is queued for the engine is taken.
Fairness ==
  \A s \in Setups :
    /\ WF_vars(SetupBridges(s) \/ SetupFails(s))
    /\ WF_vars(SetupReports(s))
    /\ WF_vars(HandleSetupResult(s))
    /\ WF_vars(HandleBackendEnd(s))

FairSpec == Spec /\ Fairness

-----------------------------------------------------------------------------
(* Properties.                                                               *)

\* No Call-ID is pending and established at once, however INVITEs are
\* retransmitted and setup results arrive: pending_inbound and
\* inbound_dialogs of spawn_sip_engine stay disjoint, so no dialog (with its
\* bridge and port) is ever overwritten by a second setup of the same call.
PendingAndDialogsDisjoint == \A c \in CallIds : pending[c] = None \/ dialogs[c] = None

\* metrics.inbound_calls_active equals the number of established dialogs, so
\* the unsigned gauge never wraps below zero: every fetch_add has exactly one
\* fetch_sub although BYE and the backend's "end" race to tear a call down.
GaugeCountsDialogs == active = Cardinality({c \in CallIds : dialogs[c] # None})

\* A bridge that was built is stopped, or held by a dialog, or its setup
\* result is still on its way: no WebSocket, RTP socket or task outlives the
\* engine's record of it, whatever CANCEL, BYE and sweeps do meanwhile.
NoOrphanBridge ==
  \A s \in Setups :
    bridge[s] \notin {"none", "stopped"} =>
      \/ setup[s].stage \in {"bridged", "ok"}
      \/ \E c \in CallIds : dialogs[c] # None /\ dialogs[c].bridge = s

HeldPorts ==
  {pending[c] : c \in {d \in CallIds : pending[d] # None}} \union
  {dialogs[c].port : c \in {d \in CallIds : dialogs[d] # None}}

\* With a setup timeout under 60 s (the default is 7 s) every port marked in
\* use belongs to a pending invite or a dialog: no path through rejection,
\* CANCEL, BYE, failure or late results loses a port of the bounded pool.
NoPortLeak == ~SlowSetup => inUse \subseteq HeldPorts

\* Every invite accepted for setup is resolved: it becomes a dialog, is
\* rejected, or is cancelled, so no caller rings for ever.
PendingIsResolved == \A c \in CallIds : (pending[c] # None) ~> (pending[c] = None)

\* What makes the properties above inductive: only pending invites are old; a
\* dialog's bridge was built by a finished setup of the same call, so no two
\* dialogs share one; and a setup that has not bridged has no bridge
\* and no event of one.
OldInvitesArePending == stale \subseteq {c \in CallIds : SlowSetup /\ pending[c] # None}

DialogOwnsItsBridge ==
  \A c \in CallIds :
    dialogs[c] # None => /\ setup[dialogs[c].bridge].stage = "done"
                         /\ setup[dialogs[c].bridge].call = c

UnbridgedSetupHasNoBridge ==
  \A s \in Setups :
    setup[s].stage \in {"unused", "connecting", "err"} => bridge[s] = "none" /\ endEvent[s] = "none"

Inv ==
  /\ TypeOK
  /\ PendingAndDialogsDisjoint
  /\ GaugeCountsDialogs
  /\ NoOrphanBridge
  /\ NoPortLeak
  /\ OldInvitesArePending
  /\ DialogOwnsItsBridge
  /\ UnbridgedSetupHasNoBridge

\* in_use of BoundedRtpPortPool is the set of ports in use: the port of every
\* pending invite and dialog is in it, so no two calls are given one port.
HeldPortsAreInUse == HeldPorts \subseteq inUse

=============================================================================
