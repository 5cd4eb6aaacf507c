--------------------------- MODULE TransferControl ---------------------------
(***************************************************************************)
(* The gateway's control plane (main.rs, state.rs) and the outbound half   *)
(* of its SIP engine (sip_engine.rs): sessions, transfers with their RTP   *)
(* ports and sender tasks, outbound INVITEs and their ACKs.  Handlers are  *)
(* tasks of a multi-threaded runtime: every lock of the registry or of the *)
(* port pool is a step, and what a handler cloned before may be stale.     *)
(* Inbound calls bind ports of the same range out of a pool of their own   *)
(* (SipEngine): here they are the environment.                             *)
(***************************************************************************)
EXTENDS Integers, FiniteSets

CONSTANTS
  Sessions,   \* session ids
  Transfers,  \* start_transfer requests, each made once
  Streams,    \* WebSocket connections to /api/voice/stream
  Ports,      \* the RTP range
  None        \* no value

ASSUME TransferAssumption ==
  /\ Ports \subseteq Nat
  /\ None \notin Transfers

VARIABLES
  pool,      \* ports in_use in RtpPortPool
  registry,  \* SessionRegistry
  step,      \* how far each start_transfer request is
  session,   \* its session id
  port,      \* its RTP port
  copy,      \* its clone of the session
  sender,    \* the state of the RTP sender task it spawned
  stream,    \* each connection: how far it is, its session id and its clone
  inbound,   \* ports bound by inbound calls
  engine,    \* the SIP engine task: starting, up or down
  invite     \* its outbound INVITE; acked once ack_sent_once of the transaction is set

request == <<step, session, port, copy>>
sip     == <<engine, invite>>
vars    == <<pool, registry, request, sender, stream, inbound, sip>>

CallStates   == {"NormalCall", "WarmTransferActive", "TransferComplete"}
CallSessions == [state : CallStates, rtp : Transfers \union {None}]
NewSession   == [state |-> "NormalCall", rtp |-> None]
Unopened     == [at |-> "new", session |-> None, copy |-> NewSession]

TypeOK ==
  /\ pool \subseteq Ports
  /\ registry \in [Sessions -> CallSessions \union {None}]
  /\ step \in [Transfers -> {"new", "allocated", "loaded", "registered",
                             "failing", "refused", "done"}]
  /\ session \in [Transfers -> Sessions \union {None}]
  /\ port \in [Transfers -> Ports \union {-1}]
  /\ copy \in [Transfers -> CallSessions]
  /\ sender \in [Transfers -> {"none", "spawned", "bound", "ended"}]
  /\ stream \in [Streams ->
       [at : {"loaded", "open"}, session : Sessions, copy : CallSessions] \union {Unopened}]
  /\ inbound \subseteq Ports
  /\ engine \in {"starting", "up", "down"}
  /\ invite \in [Transfers -> {"none", "queued", "open", "acked", "closed"}]

Init ==
  /\ pool = {} /\ registry = [s \in Sessions |-> None]
  /\ step = [t \in Transfers |-> "new"]
  /\ session = [t \in Transfers |-> None]
  /\ port = [t \in Transfers |-> -1]
  /\ copy = [t \in Transfers |-> NewSession]
  /\ sender = [t \in Transfers |-> "none"]
  /\ stream = [w \in Streams |-> Unopened]
  /\ inbound = {}
  /\ engine = "starting"
  /\ invite = [t \in Transfers |-> "none"]

Stored(s) == IF registry[s] = None THEN NewSession ELSE registry[s]
Upsert(s, value) == registry' = [registry EXCEPT ![s] = value]
Goto(t, place) == step' = [step EXCEPT ![t] = place]

-----------------------------------------------------------------------------
(* create_session, update_state and the media stream.                        *)

CreateSession(s) ==
  /\ Upsert(s, NewSession)
  /\ UNCHANGED <<pool, request, sender, stream, inbound, sip>>

UpdateState(s, new) ==
  /\ registry[s] # None
  /\ Upsert(s, [registry[s] EXCEPT !.state = new])
  /\ UNCHANGED <<pool, request, sender, stream, inbound, sip>>

\* handle_ws clones the session (or makes one) and puts the clone back.
StreamLoads(w, s) ==
  /\ stream[w].at = "new"
  /\ stream' = [stream EXCEPT ![w] = [at |-> "loaded", session |-> s, copy |-> Stored(s)]]
  /\ UNCHANGED <<pool, registry, request, sender, inbound, sip>>

StreamUpserts(w) ==
  /\ stream[w].at = "loaded"
  /\ Upsert(stream[w].session, stream[w].copy)
  /\ stream' = [stream EXCEPT
       ![w] = [at |-> "open", session |-> stream[w].session, copy |-> NewSession]]
  /\ UNCHANGED <<pool, request, sender, inbound, sip>>

-----------------------------------------------------------------------------
(* start_transfer.                                                           *)

\* RtpPortPool::allocate takes the lowest free port; none free: refused.
Allocate_IgnoresUse(t, p) ==
  /\ \A q \in Ports : p <= q
  /\ port' = [port EXCEPT ![t] = p]
  /\ pool' = pool \union {p}

Allocate(t, p) ==
  /\ p \notin pool /\ \A q \in Ports \ pool : p <= q
  /\ port' = [port EXCEPT ![t] = p]
  /\ pool' = pool \union {p}

TransferStarts(t, s) ==
  /\ step[t] = "new"
  /\ \E p \in Ports : Allocate(t, p)
  /\ session' = [session EXCEPT ![t] = s]
  /\ Goto(t, "allocated")
  /\ UNCHANGED <<registry, copy, sender, stream, inbound, sip>>

\* The session is cloned and, if a valid RTP target is given, an RTP sender
\* is spawned and its channel put into the clone.
TransferLoads(t) ==
  /\ step[t] = "allocated"
  /\ \/ /\ copy' = [copy EXCEPT ![t] = [Stored(session[t]) EXCEPT !.rtp = t]]
        /\ sender' = [sender EXCEPT ![t] = "spawned"]
     \/ copy' = [copy EXCEPT ![t] = Stored(session[t])] /\ UNCHANGED sender
  /\ Goto(t, "loaded")
  /\ UNCHANGED <<pool, registry, session, port, stream, inbound, sip>>

\* The handler returns and its clone is dropped.
Returns(t, how) ==
  /\ copy' = [copy EXCEPT ![t] = NewSession]
  /\ Goto(t, how)

\* Each error path gives the port back.
Releases(t) ==
  /\ pool' = pool \ {port[t]}
  /\ Returns(t, "refused")
  /\ UNCHANGED <<registry, session, port, sender, stream, inbound, sip>>

TransferHasBadTarget_KeepsPort(t) ==
  /\ step[t] = "allocated"
  /\ Goto(t, "refused")
  /\ UNCHANGED <<pool, registry, session, port, copy, sender, stream, inbound, sip>>

TransferHasBadTarget(t) == step[t] = "allocated" /\ Releases(t)

TransferRegisters(t) ==
  /\ step[t] = "loaded"
  /\ Upsert(session[t], [copy[t] EXCEPT !.state = "WarmTransferActive"])
  /\ Goto(t, "registered")
  /\ UNCHANGED <<pool, session, port, copy, sender, stream, inbound, sip>>

\* The command is queued unless the engine task is gone.
TransferSends_Releases(t) ==
  /\ step[t] = "registered" /\ engine # "down"
  /\ invite' = [invite EXCEPT ![t] = "queued"]
  /\ pool' = pool \ {port[t]}
  /\ Returns(t, "done")
  /\ UNCHANGED <<registry, session, port, sender, stream, inbound, engine>>

TransferSends(t) ==
  /\ step[t] = "registered" /\ engine # "down"
  /\ invite' = [invite EXCEPT ![t] = "queued"]
  /\ Returns(t, "done")
  /\ UNCHANGED <<pool, registry, session, port, sender, stream, inbound, engine>>

TransferCannotSend(t) ==
  /\ step[t] = "registered" /\ engine = "down"
  /\ Goto(t, "failing")
  /\ UNCHANGED <<pool, registry, session, port, copy, sender, stream, inbound, sip>>

TransferGivesUp(t) == step[t] = "failing" /\ Releases(t)

-----------------------------------------------------------------------------
(* The RTP sender task, and inbound calls on the same range.                 *)

Bound == inbound \union {port[t] : t \in {u \in Transfers : sender[u] = "bound"}}

SenderBinds(t) ==
  /\ sender[t] = "spawned"
  /\ sender' = [sender EXCEPT ![t] = IF port[t] \in Bound THEN "ended" ELSE "bound"]
  /\ UNCHANGED <<pool, registry, request, stream, inbound, sip>>

\* Nobody holds the channel any more: neither the registry nor a handler.
SenderEnds(t) ==
  /\ sender[t] = "bound"
  /\ \A s \in Sessions : registry[s] # None => registry[s].rtp # t
  /\ \A u \in Transfers :
       step[u] \in {"loaded", "registered", "failing"} => copy[u].rtp # t
  /\ \A w \in Streams : stream[w].at = "loaded" => stream[w].copy.rtp # t
  /\ sender' = [sender EXCEPT ![t] = "ended"]
  /\ UNCHANGED <<pool, registry, request, stream, inbound, sip>>

InboundBinds(p) ==
  /\ p \notin Bound
  /\ inbound' = inbound \union {p}
  /\ UNCHANGED <<pool, registry, request, sender, stream, sip>>

InboundFrees(p) ==
  /\ p \in inbound
  /\ inbound' = inbound \ {p}
  /\ UNCHANGED <<pool, registry, request, sender, stream, sip>>

-----------------------------------------------------------------------------
(* The SIP engine, outbound.                                                 *)

control == <<pool, registry, request, sender, stream, inbound>>

EngineStarts ==
  /\ engine = "starting"
  /\ engine' = "up"
  /\ UNCHANGED <<control, invite>>

\* The SIP socket cannot be bound: the task ends, queued commands are lost.
EngineCannotBind ==
  /\ engine = "starting"
  /\ engine' = "down"
  /\ invite' = [t \in Transfers |-> IF invite[t] = "queued" THEN "closed" ELSE invite[t]]
  /\ UNCHANGED control

\* handle_outbound_invite: a transaction is kept if the datagram was sent.
HandleInvite(t) ==
  /\ engine = "up" /\ invite[t] = "queued"
  /\ \E fate \in {"open", "closed"} : invite' = [invite EXCEPT ![t] = fate]
  /\ UNCHANGED <<control, engine>>

Transactions == {t \in Transfers : invite[t] \in {"open", "acked"}}

\* handle_sip_response.  An ACK is sent for any response that has a To header;
\* provisional and success responses leave the transaction open.
ReceiveResponse(t) ==
  /\ t \in Transactions
  /\ invite' = [invite EXCEPT ![t] = "acked"]
  /\ UNCHANGED <<control, engine>>

ReceiveFailure(t) ==
  /\ t \in Transactions
  /\ invite' = [invite EXCEPT ![t] = "closed"]
  /\ UNCHANGED <<control, engine>>

\* cleanup_stale_state, 300 s after the INVITE.
Expire(t) ==
  /\ t \in Transactions
  /\ invite' = [invite EXCEPT ![t] = "closed"]
  /\ UNCHANGED <<control, engine>>

-----------------------------------------------------------------------------

TransferStep(t) ==
  \/ \E s \in Sessions : TransferStarts(t, s)
  \/ TransferLoads(t) \/ TransferHasBadTarget(t)
  \/ TransferRegisters(t) \/ TransferSends(t)
  \/ TransferCannotSend(t) \/ TransferGivesUp(t)
  \/ SenderBinds(t) \/ SenderEnds(t)

SipStep(t) ==
  \/ HandleInvite(t)
  \/ ReceiveResponse(t) \/ ReceiveFailure(t) \/ Expire(t)

Next ==
  \/ \E s \in Sessions : CreateSession(s) \/ \E new \in CallStates : UpdateState(s, new)
  \/ \E w \in Streams : StreamUpserts(w) \/ \E s \in Sessions : StreamLoads(w, s)
  \/ \E t \in Transfers : TransferStep(t) \/ SipStep(t)
  \/ \E p \in Ports : InboundBinds(p) \/ InboundFrees(p)
  \/ EngineStarts \/ EngineCannotBind

Spec == Init /\ [][Next]_vars

-----------------------------------------------------------------------------
(* Properties.                                                               *)

\* Requests that have a port and have not given it back.
Holders == {t \in Transfers : step[t] \notin {"new", "refused"}}

\* Two transfers are never told the same RTP port, whatever failed between.
PortsAreExclusive == \A t, u \in Holders : port[t] = port[u] => t = u

\* A port is in_use exactly if a transfer holds it: every early return of
\* start_transfer gives the port back, and never that of another transfer.
PoolIsExact == pool = {port[t] : t \in Holders}

\* The port an INVITE offers in its SDP stays with its transfer as long as
\* the INVITE is queued or may still be answered.
InvitedPortIsHeld ==
  \A t \in Transfers : invite[t] \in {"queued", "open", "acked"} => t \in Holders /\ port[t] \in pool

\* Only a request that is done has an INVITE (makes InvitedPortIsHeld inductive).
InviteComesLast == \A t \in Transfers : invite[t] # "none" => step[t] = "done"

\* A request that was let in names a session and a port.
RequestIsComplete ==
  \A t \in Transfers : step[t] # "new" => session[t] \in Sessions /\ port[t] \in Ports

Inv ==
  /\ TypeOK
  /\ PortsAreExclusive
  /\ PoolIsExact
  /\ InviteComesLast
  /\ RequestIsComplete
=============================================================================
