----------------------- MODULE TransferControlProofs -----------------------
(***************************************************************************)
(* Proofs about TransferControl, for any sessions, transfers, streams and  *)
(* port range: the control plane's port pool is exact and exclusive.       *)
(***************************************************************************)
EXTENDS TransferControl, TLAPS

USE TransferAssumption

\* The parts of the invariant about ports.
PortInv == PortsAreExclusive /\ PoolIsExact /\ InviteComesLast /\ RequestIsComplete

\* The gateway starts with an empty registry and no port in use.
LEMMA InitInv == Init => Inv
<1> SUFFICES ASSUME Init PROVE Inv
    OBVIOUS
<1> USE DEF Init
<1>1. NewSession \in CallSessions
    BY DEF NewSession, CallSessions, CallStates
<1>2. pool \subseteq Ports /\ inbound \subseteq Ports
    BY Zenon
<1>3. TypeOK
    BY <1>1, <1>2 DEF TypeOK
<1>4. PortsAreExclusive /\ PoolIsExact
    BY DEF PortsAreExclusive, PoolIsExact, Holders
<1>5. InviteComesLast /\ RequestIsComplete
    BY DEF InviteComesLast, RequestIsComplete
<1>. QED
    BY <1>3, <1>4, <1>5 DEF Inv

\* Every step keeps the types.
LEMMA StepTypes == TypeOK /\ RequestIsComplete /\ [Next]_vars => TypeOK'
<1> SUFFICES ASSUME TypeOK, RequestIsComplete, [Next]_vars PROVE TypeOK'
    OBVIOUS
<1> USE DEF TypeOK, RequestIsComplete, CallSessions, CallStates, NewSession, Unopened, Goto, Returns,
            request, sip, control, Transactions
<1>1. ASSUME NEW s \in Sessions, CreateSession(s) PROVE TypeOK'
    BY <1>1 DEF CreateSession, Upsert
<1>2. ASSUME NEW s \in Sessions, NEW new \in CallStates, UpdateState(s, new) PROVE TypeOK'
    BY <1>2 DEF UpdateState, Upsert
<1>3. ASSUME NEW w \in Streams, NEW s \in Sessions, StreamLoads(w, s) PROVE TypeOK'
    BY <1>3 DEF StreamLoads, Stored
<1>4. ASSUME NEW w \in Streams, StreamUpserts(w) PROVE TypeOK'
    BY <1>4 DEF StreamUpserts, Upsert
<1>5. ASSUME NEW t \in Transfers, NEW s \in Sessions, TransferStarts(t, s) PROVE TypeOK'
    BY <1>5 DEF TransferStarts, Allocate
<1>6. ASSUME NEW t \in Transfers, TransferLoads(t) PROVE TypeOK'
    BY <1>6 DEF TransferLoads, Stored
<1>7. ASSUME NEW t \in Transfers, TransferHasBadTarget(t) PROVE TypeOK'
    BY <1>7 DEF TransferHasBadTarget, Releases
<1>8. ASSUME NEW t \in Transfers, TransferRegisters(t) PROVE TypeOK'
    BY <1>8 DEF TransferRegisters, Upsert
<1>9. ASSUME NEW t \in Transfers, TransferSends(t) PROVE TypeOK'
    BY <1>9 DEF TransferSends
<1>10. ASSUME NEW t \in Transfers, TransferCannotSend(t) PROVE TypeOK'
    BY <1>10 DEF TransferCannotSend
<1>11. ASSUME NEW t \in Transfers, TransferGivesUp(t) PROVE TypeOK'
    BY <1>11 DEF TransferGivesUp, Releases
<1>12. ASSUME NEW t \in Transfers, SenderBinds(t) PROVE TypeOK'
    BY <1>12 DEF SenderBinds
<1>13. ASSUME NEW t \in Transfers, SenderEnds(t) PROVE TypeOK'
    BY <1>13 DEF SenderEnds
<1>14. ASSUME NEW p \in Ports, InboundBinds(p) PROVE TypeOK'
    BY <1>14 DEF InboundBinds
<1>15. ASSUME NEW p \in Ports, InboundFrees(p) PROVE TypeOK'
    BY <1>15 DEF InboundFrees
<1>16. ASSUME NEW t \in Transfers, HandleInvite(t) PROVE TypeOK'
    BY <1>16 DEF HandleInvite
<1>17. ASSUME NEW t \in Transfers, ReceiveResponse(t) PROVE TypeOK'
    BY <1>17 DEF ReceiveResponse
<1>18. ASSUME NEW t \in Transfers, ReceiveFailure(t) PROVE TypeOK'
    BY <1>18 DEF ReceiveFailure
<1>19. ASSUME NEW t \in Transfers, Expire(t) PROVE TypeOK'
    BY <1>19 DEF Expire
<1>20. CASE EngineStarts
    BY <1>20 DEF EngineStarts
<1>21. CASE EngineCannotBind
    BY <1>21 DEF EngineCannotBind
<1>22. CASE UNCHANGED vars
    BY <1>22 DEF vars
<1> HIDE DEF TypeOK, RequestIsComplete, CallSessions, CallStates, NewSession, Unopened, Goto, Returns,
             request, sip, control, Transactions
<1>. QED
    BY <1>1, <1>2, <1>3, <1>4, <1>5, <1>6, <1>7, <1>8, <1>9, <1>10, <1>11, <1>12,
       <1>13, <1>14, <1>15, <1>16, <1>17, <1>18, <1>19, <1>20, <1>21, <1>22
    DEF Next, TransferStep, SipStep

\* Every step keeps the parts about ports.
LEMMA StepPorts == Inv /\ [Next]_vars => PortInv'
<1> SUFFICES ASSUME Inv, [Next]_vars PROVE PortInv'
    OBVIOUS
<1> USE DEF Inv, TypeOK, PortInv, PortsAreExclusive, PoolIsExact, InviteComesLast,
            RequestIsComplete, Holders, Goto, Returns, Transactions, request, sip, control
<1>1. ASSUME NEW s \in Sessions, CreateSession(s) PROVE PortInv'
    BY <1>1 DEF CreateSession, Upsert
<1>2. ASSUME NEW s \in Sessions, NEW new \in CallStates, UpdateState(s, new) PROVE PortInv'
    BY <1>2 DEF UpdateState, Upsert
<1>3. ASSUME NEW w \in Streams, NEW s \in Sessions, StreamLoads(w, s) PROVE PortInv'
    BY <1>3 DEF StreamLoads, Stored
<1>4. ASSUME NEW w \in Streams, StreamUpserts(w) PROVE PortInv'
    BY <1>4 DEF StreamUpserts, Upsert
<1>5. ASSUME NEW t \in Transfers, NEW s \in Sessions, TransferStarts(t, s) PROVE PortInv'
    BY <1>5 DEF TransferStarts, Allocate
<1>6. ASSUME NEW t \in Transfers, TransferLoads(t) PROVE PortInv'
    BY <1>6 DEF TransferLoads, Stored
<1>7. ASSUME NEW t \in Transfers, TransferHasBadTarget(t) PROVE PortInv'
    BY <1>7 DEF TransferHasBadTarget, Releases
<1>8. ASSUME NEW t \in Transfers, TransferRegisters(t) PROVE PortInv'
    BY <1>8 DEF TransferRegisters, Upsert
<1>9. ASSUME NEW t \in Transfers, TransferSends(t) PROVE PortInv'
    BY <1>9 DEF TransferSends
<1>10. ASSUME NEW t \in Transfers, TransferCannotSend(t) PROVE PortInv'
    BY <1>10 DEF TransferCannotSend
<1>11. ASSUME NEW t \in Transfers, TransferGivesUp(t) PROVE PortInv'
    BY <1>11 DEF TransferGivesUp, Releases
<1>12. ASSUME NEW t \in Transfers, SenderBinds(t) PROVE PortInv'
    BY <1>12 DEF SenderBinds
<1>13. ASSUME NEW t \in Transfers, SenderEnds(t) PROVE PortInv'
    BY <1>13 DEF SenderEnds
<1>14. ASSUME NEW p \in Ports, InboundBinds(p) PROVE PortInv'
    BY <1>14 DEF InboundBinds
<1>15. ASSUME NEW p \in Ports, InboundFrees(p) PROVE PortInv'
    BY <1>15 DEF InboundFrees
<1>16. ASSUME NEW t \in Transfers, HandleInvite(t) PROVE PortInv'
    BY <1>16 DEF HandleInvite
<1>17. ASSUME NEW t \in Transfers, ReceiveResponse(t) PROVE PortInv'
    BY <1>17 DEF ReceiveResponse
<1>18. ASSUME NEW t \in Transfers, ReceiveFailure(t) PROVE PortInv'
    BY <1>18 DEF ReceiveFailure
<1>19. ASSUME NEW t \in Transfers, Expire(t) PROVE PortInv'
    BY <1>19 DEF Expire
<1>20. CASE EngineStarts
    BY <1>20 DEF EngineStarts
<1>21. CASE EngineCannotBind
    BY <1>21 DEF EngineCannotBind
<1>22. CASE UNCHANGED vars
    BY <1>22 DEF vars
<1> HIDE DEF Inv, TypeOK, PortInv, PortsAreExclusive, PoolIsExact, InviteComesLast,
             RequestIsComplete, Holders, Goto, Returns, Transactions, request, sip, control
<1>. QED
    BY <1>1, <1>2, <1>3, <1>4, <1>5, <1>6, <1>7, <1>8, <1>9, <1>10, <1>11, <1>12,
       <1>13, <1>14, <1>15, <1>16, <1>17, <1>18, <1>19, <1>20, <1>21, <1>22
    DEF Next, TransferStep, SipStep

\* The invariant holds of every run of the gateway.
THEOREM SpecInv == Spec => []Inv
<1>1. Inv /\ [Next]_vars => Inv'
    BY StepTypes, StepPorts DEF Inv, PortInv
<1>. QED
    BY InitInv, <1>1, PTL DEF Spec

\* Sessions, transactions and the port pool keep their types (state.rs).
THEOREM TypeCorrect == Spec => []TypeOK
<1>1. Inv => TypeOK
  BY DEF Inv
<1>. QED BY <1>1, SpecInv, PTL

\* No two transfers are given the same RTP port.
THEOREM PortsStayExclusive == Spec => []PortsAreExclusive
<1>1. Inv => PortsAreExclusive
    BY DEF Inv
<1>. QED
    BY SpecInv, <1>1, PTL

\* RtpPortPool marks exactly the ports transfers hold.
THEOREM PoolStaysExact == Spec => []PoolIsExact
<1>1. Inv => PoolIsExact
    BY DEF Inv
<1>. QED
    BY SpecInv, <1>1, PTL

\* The port offered in an INVITE is not given away while it may be answered.
THEOREM InvitedPortsAreHeld == Spec => []InvitedPortIsHeld
<1>1. Inv => InvitedPortIsHeld
    BY DEF Inv, TypeOK, InviteComesLast, PoolIsExact, Holders, InvitedPortIsHeld
<1>. QED
    BY SpecInv, <1>1, PTL
=============================================================================
