------------------------ MODULE MasqueConnectProofs ------------------------
(***************************************************************************)
(* Safety of MasqueConnect, and its refinement of MaintainTunnel, for      *)
(* every setting of the reconnect loop.  The inductive invariant lists     *)
(* which objects exist at which step of an attempt, and relates the        *)
(* counter of the loop to the number of failed attempts.                   *)
(***************************************************************************)
EXTENDS MasqueConnect, TLAPS

\* The HTTP/3 steps are reached without HTTP/2 only.
ProtocolInv == http2 => pc \notin {"listen", "dial"}

\* What ConnectTunnel hands to its caller.
Stack == IF http2 THEN {"tcp", "stream"} ELSE {"socket", "quic", "stream"}

\* The objects that exist at each step of an attempt: the stack grows while the
\* attempt connects and is taken down by the deferred calls in their order.
StackInv ==
    /\ pc \in Waiting \cup {"listen", "onDisconnected"} => open = {}
    /\ pc = "dial" => open = {"socket"}
    /\ pc = "request" => open = IF http2 THEN {} ELSE {"socket", "quic"}
    /\ pc \in {"status", "onConnected", "forwarding", "closeStream"} => open = Stack
    /\ pc = "closeSocket" => open = Stack \ {"stream"}
    /\ pc = "closeTransport" => open = IF http2 THEN {"tcp"} ELSE {}

\* connected is what the deferred function reads: it is set from the answer of
\* the edge to the return of OnDisconnected, and a session exists until then.
SessionInv ==
    /\ pc \in {"onConnected", "forwarding", "onDisconnected"} => connected
    /\ pc \in Waiting \cup Connecting => ~connected
    /\ edge # "none" <=> connected /\ pc # "onDisconnected"
    /\ pc \in Closing /\ connected => edge = "dead" \/ ctxDone

\* reconnectAttempt counts the failures since the last session, a second round
\* of ConnectTunnel's loop not included.
CountInv ==
    /\ failures = IF connected THEN 0 ELSE attempt
    /\ pc = "paused" => MaxReconnectAttempts > 0 /\ attempt >= MaxReconnectAttempts

IInv == TypeOK /\ ProtocolInv /\ StackInv /\ SessionInv /\ CountInv

-----------------------------------------------------------------------------
USE DEF Connecting, Closing, Waiting, Objects

\* The loop starts with nothing open.
LEMMA TypeInit == Init => TypeOK
<1> SUFFICES ASSUME Init PROVE TypeOK
  OBVIOUS
<1>1. tries \in 0..1 /\ attempt \in 0..AttemptCap /\ failures \in 0..AttemptCap
  BY ConnectAssumption DEF Init
<1> QED BY <1>1 DEF Init, TypeOK

\* The saturating counter stays in its range and reaches the limit exactly when
\* the unbounded one of the code does.
LEMMA AttemptStep ==
  ASSUME NEW a \in 0..AttemptCap
  PROVE  /\ Loop!NextAttempt(a) \in 0..AttemptCap
         /\ Loop!NextAttempt(a) >= MaxReconnectAttempts <=> a + 1 >= MaxReconnectAttempts
  BY ConnectAssumption DEF Loop!NextAttempt

\* Every action keeps every variable in its type.
LEMMA TypeStep == TypeOK /\ [Next]_vars => TypeOK'
<1> SUFFICES ASSUME TypeOK, [Next]_vars PROVE TypeOK'
  OBVIOUS
<1> USE AttemptStep DEF TypeOK
<1>1. ReturnFailed => /\ attempt' \in 0..AttemptCap /\ failures' \in 0..AttemptCap
                      /\ tries' \in 0..1
                      /\ pc' \in Waiting
  BY DEF ReturnFailed, Loop!AfterError
<1>2. \A r \in BOOLEAN : RoundFails(r) =>
          /\ attempt' \in 0..AttemptCap /\ failures' \in 0..AttemptCap
          /\ tries' \in 0..1
          /\ pc' \in Waiting \cup {"listen"}
  BY <1>1 DEF RoundFails
<1>3. CASE \/ StartAttempt \/ OnConnectedReturns \/ EdgeDies \/ ForwardingEnds
           \/ CloseStream \/ CloseSocket \/ NextRound \/ CancelContext \/ StopLoop
           \/ CheckStatus
  <2> USE <1>3 DEF StartAttempt, OnConnectedReturns, EdgeDies, ForwardingEnds,
                   CloseStream, CloseSocket, NextRound, CancelContext, StopLoop,
                   CheckStatus
  <2>1. tries' \in 0..1 /\ attempt' \in 0..AttemptCap /\ failures' \in 0..AttemptCap
    BY ConnectAssumption
  <2>2. /\ http2' \in BOOLEAN /\ connected' \in BOOLEAN /\ ctxDone' \in BOOLEAN
        /\ edge' \in {"none", "live", "dead"}
    OBVIOUS
  <2>3. /\ pc' \in Connecting \cup Closing \cup Waiting
                   \cup {"onConnected", "forwarding", "onDisconnected"}
        /\ open' \subseteq Objects
    OBVIOUS
  <2> QED BY <2>1, <2>2, <2>3
<1>4. CASE ListenUDP
  BY <1>4, <1>2 DEF ListenUDP
<1>5. CASE DialQUIC
  BY <1>5, <1>2 DEF DialQUIC
<1>6. CASE RequestH3
  BY <1>6, <1>2 DEF RequestH3
<1>7. CASE RequestH2
  BY <1>7, <1>2 DEF RequestH2, CloseIdle
<1>8. CASE CloseTransport
  BY <1>8, <1>1 DEF CloseTransport, CloseIdle
<1>9. CASE OnDisconnectedReturns
  <2>1. attempt' \in 0..AttemptCap /\ pc' \in Waiting
    BY <1>9, ConnectAssumption DEF OnDisconnectedReturns, Loop!AfterError
  <2> QED BY <1>9, <2>1 DEF OnDisconnectedReturns
<1>10. CASE UNCHANGED vars
  BY <1>10 DEF vars
<1> QED
  BY <1>3, <1>4, <1>5, <1>6, <1>7, <1>8, <1>9, <1>10 DEF Next, LoopNext

\* Type correctness of the attempt: every variable stays in its type.
THEOREM TypeCorrect == Spec => []TypeOK
  BY TypeInit, TypeStep, PTL DEF Spec

-----------------------------------------------------------------------------
\* The loop starts with nothing open, which is what its first place calls for.
LEMMA IInvInit == Init => IInv
  BY TypeInit DEF Init, IInv, ProtocolInv, StackInv, SessionInv, CountInv

\* Every step of an attempt, and every way out of it, keeps the inventory of
\* open objects and the count of failures.
LEMMA IInvStep == IInv /\ [Next]_vars => IInv'
<1> SUFFICES ASSUME IInv, [Next]_vars
             PROVE  ProtocolInv' /\ StackInv' /\ SessionInv' /\ CountInv'
  BY TypeStep DEF IInv
<1> USE DEF IInv, ProtocolInv, SessionInv, CountInv
<1>0. TypeOK /\ TypeOK'
  BY TypeStep
<1>1. ASSUME ReturnFailed, ~connected, ~connected'
      PROVE  CountInv' /\ pc' \in Waiting
  BY <1>0, <1>1, ConnectAssumption
  DEF ReturnFailed, TypeOK, Loop!AfterError, Loop!NextAttempt
<1>2. ASSUME NEW r \in BOOLEAN, RoundFails(r), ~connected, ~connected'
      PROVE  CountInv' /\ pc' \in Waiting \cup (IF r THEN {"listen"} ELSE {})
  BY <1>0, <1>1, <1>2 DEF RoundFails
<1>3. CASE ListenUDP
  BY <1>0, <1>2, <1>3 DEF ListenUDP, StackInv, Stack, TypeOK
<1>4. CASE DialQUIC
  BY <1>0, <1>2, <1>4 DEF DialQUIC, StackInv, Stack, TypeOK
<1>5. CASE RequestH3
  BY <1>0, <1>2, <1>5 DEF RequestH3, StackInv, Stack, TypeOK
<1>6. CASE RequestH2
  BY <1>0, <1>2, <1>6 DEF RequestH2, CloseIdle, StackInv, Stack, TypeOK
<1>7. CASE CheckStatus
  BY <1>0, <1>7 DEF CheckStatus, StackInv, Stack, TypeOK
<1>8. CASE StartAttempt \/ OnConnectedReturns \/ EdgeDies \/ CancelContext
  BY <1>0, <1>8
  DEF StartAttempt, OnConnectedReturns, EdgeDies, CancelContext, StackInv, Stack, TypeOK
<1>9. CASE ForwardingEnds \/ CloseStream \/ CloseSocket
  BY <1>0, <1>9 DEF ForwardingEnds, CloseStream, CloseSocket, StackInv, Stack, TypeOK
<1>10. CASE CloseTransport
  BY <1>0, <1>1, <1>10 DEF CloseTransport, CloseIdle, StackInv, Stack, TypeOK
<1>11. CASE OnDisconnectedReturns
  BY <1>0, <1>11, ConnectAssumption
  DEF OnDisconnectedReturns, Loop!AfterError, StackInv, Stack, TypeOK
<1>12. CASE NextRound \/ StopLoop
  BY <1>0, <1>12 DEF NextRound, StopLoop, StackInv, Stack, TypeOK
<1>13. CASE UNCHANGED vars
  BY <1>0, <1>13 DEF vars, StackInv, Stack, TypeOK
<1> QED
  BY <1>3, <1>4, <1>5, <1>6, <1>7, <1>8, <1>9, <1>10, <1>11, <1>12, <1>13
  DEF Next, LoopNext

\* At every place of an attempt exactly the objects exist that connectTunnelHTTP3 has created by
\* then and not yet closed, and the count of failures is that of the loop.
THEOREM AttemptInvariant == Spec => []IInv
  BY IInvInit, IInvStep, PTL DEF Spec

\* No path out of an attempt leaks a socket, a QUIC connection, a TCP
\* connection or a stream: at whichever step connectTunnelHTTP3 or ConnectTunnel
\* failed, nothing is open when MaintainTunnel goes on or a round is retried.
THEOREM NothingHeld == Spec => []NothingHeldBetweenAttempts
<1>1. IInv => NothingHeldBetweenAttempts
  BY DEF IInv, StackInv, NothingHeldBetweenAttempts
<1> QED BY <1>1, AttemptInvariant, PTL

\* MaintainTunnel gives up only after MaxReconnectAttempts failed attempts in a
\* row: neither a lost session nor a retried round brings the pause nearer.
THEOREM PausesAfterFailures == Spec => []PausesOnlyAfterFailuresInARow
<1>1. IInv => PausesOnlyAfterFailuresInARow
  BY DEF IInv, SessionInv, CountInv, PausesOnlyAfterFailuresInARow
<1> QED BY <1>1, AttemptInvariant, PTL

-----------------------------------------------------------------------------
\* The initial states are initial states of the reconnect loop.
LEMMA LoopInit == Init => Loop!MaintInit
  BY DEF Init, Loop!MaintInit, LoopState

\* Each step of the attempt is one step of the loop of MaintainTunnel, or none.
LEMMA LoopStep == IInv /\ [Next]_vars => [Loop!MaintNext]_(Loop!maintVars)
<1> SUFFICES ASSUME IInv, [Next]_vars PROVE Loop!MaintNext \/ UNCHANGED Loop!maintVars
  OBVIOUS
<1> USE DEF LoopState, Loop!maintVars
<1>0. TypeOK /\ SessionInv
  BY DEF IInv
<1> USE <1>0 DEF TypeOK, SessionInv
<1>1. ASSUME ReturnFailed, LoopState = "connecting", ~connected, ~connected', UNCHANGED <<edge, ctxDone>>
      PROVE  Loop!ConnectFails
  BY <1>1 DEF ReturnFailed, Loop!ConnectFails, Loop!AfterError
<1>2. ASSUME NEW r \in BOOLEAN, RoundFails(r), LoopState = "connecting",
             ~connected, ~connected', UNCHANGED <<edge, ctxDone>>
      PROVE  Loop!ConnectFails \/ UNCHANGED Loop!maintVars
  BY <1>1, <1>2 DEF RoundFails
<1>3. CASE ListenUDP
  BY <1>2, <1>3 DEF ListenUDP, Loop!MaintNext
<1>4. CASE DialQUIC
  BY <1>2, <1>4 DEF DialQUIC, Loop!MaintNext
<1>5. CASE RequestH3
  BY <1>2, <1>5 DEF RequestH3, Loop!MaintNext
<1>6. CASE RequestH2
  BY <1>2, <1>6 DEF RequestH2, Loop!MaintNext
<1>7. CASE CheckStatus
  BY <1>7 DEF CheckStatus, Loop!MaintNext, Loop!ConnectSucceeds
<1>8. CASE StartAttempt
  BY <1>8 DEF StartAttempt, Loop!MaintNext, Loop!StartAttempt
<1>9. CASE OnConnectedReturns
  BY <1>9 DEF OnConnectedReturns, Loop!MaintNext, Loop!OnConnectedReturns
<1>10. CASE EdgeDies
  BY <1>10 DEF EdgeDies, Loop!MaintNext, Loop!SessionDies
<1>11. CASE ForwardingEnds \/ CloseStream \/ CloseSocket
  BY <1>11 DEF ForwardingEnds, CloseStream, CloseSocket
<1>12. CASE CloseTransport
  <2>1. CASE connected
    BY <1>12, <2>1 DEF CloseTransport, Loop!MaintNext, Loop!ForwardingEnds
  <2>2. CASE ~connected
    BY <1>1, <1>12, <2>2 DEF CloseTransport, Loop!MaintNext
  <2> QED BY <2>1, <2>2
<1>13. CASE OnDisconnectedReturns
  BY <1>13 DEF OnDisconnectedReturns, Loop!MaintNext, Loop!OnDisconnectedReturns, Loop!AfterError
<1>14. CASE NextRound
  BY <1>14 DEF NextRound, Loop!MaintNext, Loop!DemandWakes, Loop!BackoffElapses
<1>15. CASE CancelContext
  BY <1>15 DEF CancelContext, Loop!MaintNext, Loop!CancelContext
<1>16. CASE StopLoop
  BY <1>16 DEF StopLoop, Loop!MaintNext, Loop!StopLoop
<1>17. CASE UNCHANGED vars
  BY <1>17 DEF vars
<1> QED
  BY <1>3, <1>4, <1>5, <1>6, <1>7, <1>8, <1>9, <1>10, <1>11, <1>12, <1>13, <1>14,
     <1>15, <1>16, <1>17
  DEF Next, LoopNext

\* ConnectTunnel with its retry and the deferred calls of
\* handleConnectionWithForwarding implement the single steps MaintainTunnel
\* takes them for.
THEOREM RefinesMaintainTunnel == Spec => AttemptRefined
  BY LoopInit, LoopStep, AttemptInvariant, PTL DEF Spec, AttemptRefined, Loop!MaintSpec

=============================================================================
