--------------------------- MODULE WireGuardProofs ---------------------------
(***************************************************************************)
(* Safety of the WireGuard transport for every set of clients, every       *)
(* window and backoff, with and without keepalives.  The gate is written   *)
(* by two goroutines, the server and the watchdog; the inductive invariant *)
(* says which of them may move it when.                                    *)
(***************************************************************************)
EXTENDS WireGuardTransport, TLAPS

Starting == {"profile", "device", "boot", "start"}
Over     == {"finalPublish", "closeDevice", "closeTun", "done", "panicked"}
Serving  == {"listen", "serving", "closing"}

\* The watchdog runs from StartPublish to the join, and each stage of a
\* recovery belongs to an outage.
SupInv ==
    /\ server \in Starting \cup {"startPublish"} => sup = "off"
    /\ server \in Over => sup \in {"off", "done"}
    /\ sup = "off" => ~down
    /\ sup = "upPublish" => ~down
    /\ sup \in {"downPublish", "reset", "sweep", "backoff", "repoint"} => down

\* An outage closes the gate; without one the gate is open while the server
\* serves.
GateInv ==
    /\ down => ~tunnelUp
    /\ server \in Starting \cup Over => ~tunnelUp
    /\ server \in {"startPublish"} \cup Serving => down \/ tunnelUp

\* During the walk of an outage's reset an open client that is on the session is
\* still to be visited; after it there is none.
ClientInv ==
    /\ down /\ sup = "sweep" =>
         \A c \in activeConns : cl[c] \in {"dialing", "flow"} => c \in sweep
    /\ down /\ sup \notin {"downPublish", "reset", "sweep"} =>
         \A c \in activeConns : cl[c] \notin {"dialing", "flow"}

IInv == TypeOK /\ SupInv /\ GateInv /\ ClientInv

-----------------------------------------------------------------------------
(* Types, numbers apart from the rest *)

NumbersOK ==
    /\ sinceProgress \in 0..Window /\ sinceAttempt \in 0..MaxBackoff
    /\ backoff \in 1..MaxBackoff
    /\ unanswered \in 0..2 /\ edgeMoves \in 0..MaxMoves

StagesOK ==
    /\ server \in {"profile", "device", "boot", "start", "startPublish", "listen", "serving",
                   "closing", "closePublish", "stop", "join", "finalPublish", "closeDevice",
                   "closeTun", "done", "panicked"}
    /\ sup \in {"off", "select", "upPublish", "downPublish", "reset", "sweep",
                "backoff", "repoint", "done"}
    /\ cl \in [Conns -> {"out", "admitted", "tracked", "dialing", "flow"}]
    /\ sweep \subseteq Conns
    /\ endpoint \in Places /\ edge \in Places

FlagsOK ==
    /\ tunClosed \in BOOLEAN /\ down \in BOOLEAN /\ stopped \in BOOLEAN
    /\ sent \in BOOLEAN /\ rcvd \in BOOLEAN /\ owed \in BOOLEAN

\* The type invariant in parts, so that a step need expand only what it changes.
LEMMA TypeSplits ==
  /\ TypeOK <=> RuntimeTypeOK /\ NumbersOK /\ StagesOK /\ FlagsOK
  /\ TypeOK' <=> RuntimeTypeOK' /\ NumbersOK' /\ StagesOK' /\ FlagsOK'
  BY DEF TypeOK, NumbersOK, StagesOK, FlagsOK

USE DEF runtimeVars, fileVars, supVars, clVars, wireVars, edgeVars

\* A cap caps.
LEMMA Min2Bound ==
  ASSUME NEW a \in Nat, NEW b \in Nat
  PROVE  Min2(a, b) \in 0..b /\ (a # 0 /\ b # 0 => Min2(a, b) \in 1..b)
  BY DEF Min2

\* The counters of polls stay within their caps.
LEMMA NumbersStep ==
  NumbersOK /\ [Next]_vars => NumbersOK'
<1> SUFFICES ASSUME NumbersOK, [Next]_vars PROVE NumbersOK'
  OBVIOUS
<1> USE WireGuardAssumption DEF NumbersOK
<1>1. CASE ServerStep \/ ListenerClosed
  BY <1>1 DEF ServerStep, BuildTUN, StartDevice, PrepareFails, NewSocksRuntime, StartUp,
              StartPublish, Listen, ServerSwapsDown, ServerPublishesDown, StopSupervisor,
              JoinSupervisor, FinalPublish, CloseDevice, CloseTun, ListenerClosed
<1>2. CASE Poll
  <2>1. /\ sinceAttempt' = Min2(sinceAttempt + 1, MaxBackoff)
        /\ unanswered' = IF unanswered = 1 THEN 2 ELSE unanswered
    BY <1>2 DEF Poll, PollFails, PollProgressed, PollStalled, TickPasses
  <2>2. sinceProgress' \in {0, Min2(sinceProgress + 1, Window)}
    BY <1>2 DEF Poll, PollFails, PollProgressed, PollStalled
  <2>3. backoff' \in {1, backoff} /\ UNCHANGED edgeMoves
    <3>1. CASE PollProgressed
      BY <3>1 DEF PollProgressed
    <3>2. CASE PollFails \/ PollStalled
      BY <3>2 DEF PollFails, PollStalled
    <3> QED BY <1>2, <3>1, <3>2 DEF Poll
  <2>4. sinceAttempt' \in 0..MaxBackoff /\ sinceProgress' \in 0..Window
    <3>1. /\ Min2(sinceAttempt + 1, MaxBackoff) \in 0..MaxBackoff
          /\ Min2(sinceProgress + 1, Window) \in 0..Window
      <4>1. /\ sinceAttempt + 1 \in Nat /\ sinceProgress + 1 \in Nat
            /\ MaxBackoff \in Nat /\ Window \in Nat
        OBVIOUS
      <4> QED BY <4>1, Min2Bound
    <3> QED BY <2>1, <2>2, <3>1
  <2> QED BY <2>1, <2>3, <2>4
<1>3. CASE SupStep \/ Repoint \/ SupervisorReturns
  <2>1. backoff' \in {backoff, NextBackoff} /\ UNCHANGED <<sinceProgress, edgeMoves>>
    BY <1>3 DEF SupStep, Repoint, PublishUp, PublishDown, ResetStarts, ResetVisits, ResetEnds,
                TestBackoff, RepointOk, RepointFails, SupervisorReturns
  <2>2. sinceAttempt' \in {0, sinceAttempt}
    BY <1>3 DEF SupStep, Repoint, PublishUp, PublishDown, ResetStarts, ResetVisits, ResetEnds,
                TestBackoff, RepointOk, RepointFails, SupervisorReturns
  <2>3. unanswered' \in {1, unanswered}
    BY <1>3 DEF SupStep, Repoint, PublishUp, PublishDown, ResetStarts, ResetVisits, ResetEnds,
                TestBackoff, RepointOk, RepointFails, SupervisorReturns, SendPacket
  <2>4. NextBackoff \in 1..MaxBackoff
    BY Min2Bound DEF NextBackoff
  <2> QED BY <2>1, <2>2, <2>3, <2>4
<1>4. ASSUME NEW c \in Conns, ClientStep(c)
      PROVE  NumbersOK'
  BY <1>4 DEF Admit, Drop, ClientStep, Track, Dial, DialSucceeds, ServeEnds
<1>5. CASE DeviceSends \/ KeepaliveSends \/ PeerSends \/ EdgeMoves
  BY <1>5 DEF DeviceSends, KeepaliveSends, PeerSends, EdgeMoves, SendPacket
<1>6. CASE UNCHANGED vars
  BY <1>6 DEF vars
<1> QED BY <1>1, <1>2, <1>3, <1>4, <1>5, <1>6 DEF Next

\* The places of the server, the watchdog, the clients and the edge.
LEMMA StagesStep ==
  StagesOK /\ RuntimeTypeOK /\ FlagsOK /\ [Next]_vars => StagesOK' /\ RuntimeTypeOK' /\ FlagsOK'
<1> SUFFICES ASSUME StagesOK, RuntimeTypeOK, FlagsOK, [Next]_vars
             PROVE  StagesOK' /\ RuntimeTypeOK' /\ FlagsOK'
  OBVIOUS
<1>1. CASE ServerStep \/ ListenerClosed
  <2> USE DEF ServerStep, BuildTUN, StartDevice, PrepareFails, NewSocksRuntime, StartUp,
              StartPublish, Listen, ServerSwapsDown, ServerPublishesDown, StopSupervisor,
              JoinSupervisor, FinalPublish, CloseDevice, CloseTun, ListenerClosed
  <2>1. StagesOK'
    BY <1>1 DEF StagesOK
  <2>2. RuntimeTypeOK'
    BY <1>1 DEF RuntimeTypeOK, PublishTunnelState, SwapTunnelUp
  <2>3. FlagsOK'
    BY <1>1 DEF FlagsOK
  <2> QED BY <2>1, <2>2, <2>3
<1>2. CASE Poll
  <2> USE DEF Poll, PollFails, PollProgressed, PollStalled, TickPasses
  <2>1. StagesOK'
    BY <1>2 DEF StagesOK
  <2>2. RuntimeTypeOK'
    BY <1>2 DEF RuntimeTypeOK, SwapTunnelUp
  <2>3. FlagsOK'
    BY <1>2 DEF FlagsOK
  <2> QED BY <2>1, <2>2, <2>3
<1>3. CASE SupStep \/ Repoint \/ SupervisorReturns
  <2> USE DEF SupStep, Repoint, PublishUp, PublishDown, ResetStarts, ResetVisits, ResetEnds,
              TestBackoff, RepointOk, RepointFails, SupervisorReturns
  <2>1. StagesOK'
    BY <1>3 DEF StagesOK, RuntimeTypeOK
  <2>2. RuntimeTypeOK'
    BY <1>3 DEF RuntimeTypeOK, PublishTunnelState, CloseManaged
  <2>3. FlagsOK'
    BY <1>3 DEF FlagsOK, SendPacket
  <2> QED BY <2>1, <2>2, <2>3
<1>4. ASSUME NEW c \in Conns, ClientStep(c)
      PROVE  StagesOK' /\ RuntimeTypeOK' /\ FlagsOK'
  <2> USE DEF Admit, Drop, ClientStep, Track, Dial, DialSucceeds, ServeEnds
  <2>1. StagesOK'
    BY <1>4 DEF StagesOK
  <2>2. RuntimeTypeOK'
    BY <1>4 DEF RuntimeTypeOK, SignalDemand, TrackConn, CloseManaged
  <2>3. FlagsOK'
    BY <1>4 DEF FlagsOK
  <2> QED BY <2>1, <2>2, <2>3
<1>5. CASE DeviceSends \/ KeepaliveSends \/ PeerSends \/ EdgeMoves
  <2> USE DEF DeviceSends, KeepaliveSends, PeerSends, EdgeMoves
  <2>1. StagesOK'
    BY <1>5 DEF StagesOK
  <2>2. RuntimeTypeOK'
    BY <1>5 DEF RuntimeTypeOK
  <2>3. FlagsOK'
    BY <1>5 DEF FlagsOK, SendPacket
  <2> QED BY <2>1, <2>2, <2>3
<1>6. CASE UNCHANGED vars
  BY <1>6 DEF vars, StagesOK, RuntimeTypeOK, FlagsOK
<1> QED BY <1>1, <1>2, <1>3, <1>4, <1>5, <1>6 DEF Next

-----------------------------------------------------------------------------
(* The gate *)

\* Server and watchdog hand the gate to each other at the start and at the join.
LEMMA GateStep ==
  TypeOK /\ SupInv /\ GateInv /\ [Next]_vars => SupInv' /\ GateInv'
<1> SUFFICES ASSUME TypeOK, SupInv, GateInv, [Next]_vars PROVE SupInv' /\ GateInv'
  OBVIOUS
<1> USE DEF Starting, Over, Serving, SupInv, GateInv
<1>0. StagesOK /\ down \in BOOLEAN /\ tunnelUp \in BOOLEAN
  BY DEF TypeOK, StagesOK, RuntimeTypeOK
<1>1. CASE ServerStep \/ ListenerClosed
  <2>1. CASE BuildTUN
    BY <1>0, <2>1 DEF BuildTUN
  <2>2. CASE StartDevice
    BY <1>0, <2>2 DEF StartDevice
  <2>3. CASE PrepareFails
    BY <1>0, <2>3 DEF PrepareFails
  <2>4. CASE NewSocksRuntime
    BY <1>0, <2>4 DEF NewSocksRuntime
  <2>5. CASE StartUp
    BY <1>0, <2>5 DEF StartUp, SwapTunnelUp
  <2>6. CASE StartPublish
    BY <1>0, <2>6 DEF StartPublish
  <2>7. CASE Listen \/ ListenerClosed
    BY <1>0, <2>7 DEF Listen, ListenerClosed
  <2>8. CASE ServerSwapsDown
    BY <1>0, <2>8 DEF ServerSwapsDown, SwapTunnelUp
  <2>9. CASE ServerPublishesDown \/ StopSupervisor
    <3>1. /\ UNCHANGED <<sup, down, tunnelUp>> /\ server' \in {"stop", "join"}
      BY <2>9 DEF ServerPublishesDown, StopSupervisor
    <3> QED BY <3>1
  <2>10. CASE JoinSupervisor
    BY <1>0, <2>10 DEF JoinSupervisor, SwapTunnelUp
  <2>11. CASE FinalPublish
    BY <1>0, <2>11 DEF FinalPublish
  <2>12. CASE CloseDevice \/ CloseTun
    BY <1>0, <2>12 DEF CloseDevice, CloseTun
  <2> QED BY <1>1, <2>1, <2>2, <2>3, <2>4, <2>5, <2>6, <2>7, <2>8, <2>9, <2>10, <2>11, <2>12 DEF ServerStep
<1>2. CASE Poll
  <2>1. CASE PollFails
    BY <2>1 DEF PollFails
  <2>2. CASE PollProgressed
    BY <1>0, <2>2 DEF PollProgressed, TickPasses, SwapTunnelUp
  <2>3. CASE PollStalled
    BY <1>0, <2>3 DEF PollStalled, TickPasses, SwapTunnelUp
  <2> QED BY <1>2, <2>1, <2>2, <2>3 DEF Poll
<1>3. CASE SupStep \/ Repoint \/ SupervisorReturns
  <2>1. UNCHANGED <<server, down, tunnelUp>>
    BY <1>3 DEF SupStep, Repoint, PublishUp, PublishDown, ResetStarts, ResetVisits, ResetEnds,
                TestBackoff, RepointOk, RepointFails, SupervisorReturns
  <2>2. /\ sup # "off" /\ sup # "done"
        /\ sup' \in {"select", "reset", "sweep", "backoff", "repoint", "done"}
        /\ sup' \in {"reset", "sweep", "backoff", "repoint"}
           => sup \in {"downPublish", "reset", "sweep", "backoff"}
    BY <1>3 DEF SupStep, Repoint, PublishUp, PublishDown, ResetStarts, ResetVisits, ResetEnds,
                TestBackoff, RepointOk, RepointFails, SupervisorReturns
  <2> QED BY <2>1, <2>2
<1>4. CASE UNCHANGED <<server, sup, down, tunnelUp>>
  BY <1>4
<1> QED
  BY <1>1, <1>2, <1>3, <1>4
  DEF Next, Admit, Drop, ClientStep, Track, Dial, DialSucceeds, ServeEnds, DeviceSends,
      KeepaliveSends, PeerSends, EdgeMoves, vars

\* The walk closes what was tracked when it began, and a closed gate lets nobody
\* dial.
LEMMA ClientStepInv ==
  TypeOK /\ SupInv /\ GateInv /\ ClientInv /\ [Next]_vars => ClientInv'
<1> SUFFICES ASSUME TypeOK, SupInv, GateInv, ClientInv, [Next]_vars PROVE ClientInv'
  OBVIOUS
<1>0. StagesOK /\ activeConns \subseteq Conns
  BY DEF TypeOK, StagesOK, RuntimeTypeOK
<1>1. ASSUME NEW c \in Conns, ClientStep(c)
      PROVE  ClientInv'
  <2>1. UNCHANGED <<sup, down>> /\ \A d \in Conns \ {c} : cl'[d] = cl[d]
    BY <1>0, <1>1 DEF ClientStep, Admit, Drop, Track, Dial, DialSucceeds, ServeEnds, StagesOK
  <2>2. \A d \in Conns \ {c} : (d \in activeConns' => d \in activeConns) /\ (d \in sweep => d \in sweep')
    BY <1>1 DEF ClientStep, Admit, Drop, Track, Dial, DialSucceeds, ServeEnds, TrackConn, CloseManaged
  <2>3. cl'[c] \in {"dialing", "flow"} =>
          tunnelUp \/ (cl[c] \in {"dialing", "flow"} /\ UNCHANGED <<activeConns, sweep>>)
    BY <1>0, <1>1 DEF ClientStep, Admit, Drop, Track, Dial, DialSucceeds, ServeEnds, StagesOK
  <2>4. activeConns' \subseteq Conns
    BY <1>0, <1>1 DEF ClientStep, Admit, Drop, Track, Dial, DialSucceeds, ServeEnds, TrackConn, CloseManaged
  <2> QED BY <2>1, <2>2, <2>3, <2>4 DEF ClientInv, GateInv
<1>2. CASE ResetStarts
  BY <1>2 DEF ResetStarts, ClientInv
<1>3. ASSUME NEW c \in Conns, ResetVisits(c) PROVE ClientInv'
  <2>1. /\ activeConns' = activeConns \ {c} /\ sweep' = sweep \ {c} /\ sup = "sweep"
        /\ UNCHANGED <<cl, sup, down>>
    BY <1>3 DEF ResetVisits, CloseManaged
  <2> QED BY <2>1 DEF ClientInv
<1>4. CASE ResetEnds
  <2>1. sup = "sweep" /\ sup' = "backoff" /\ sweep = {} /\ UNCHANGED <<activeConns, cl, down>>
    BY <1>4 DEF ResetEnds
  <2> QED BY <2>1 DEF ClientInv
<1>5. CASE UNCHANGED <<cl, activeConns, sweep, down, sup>>
  BY <1>5 DEF ClientInv
<1>6. CASE PollStalled
  <2>1. UNCHANGED <<cl, activeConns, sweep>> /\ sup = "select"
    BY <1>6 DEF PollStalled, TickPasses
  <2>2. (UNCHANGED down /\ sup' \in {"select", "backoff"}) \/ sup' \in {"downPublish", "reset"}
    BY <1>6, <2>1 DEF PollStalled
  <2> QED BY <2>1, <2>2 DEF ClientInv
<1>7. CASE PollProgressed
  BY <1>7 DEF PollProgressed, ClientInv
<1>8. CASE StartPublish
  <2>1. UNCHANGED <<cl, activeConns, sweep, down>> /\ ~down
    BY <1>8 DEF StartPublish, SupInv
  <2> QED BY <2>1 DEF ClientInv
<1>9. CASE PublishUp \/ PublishDown \/ TestBackoff \/ Repoint \/ SupervisorReturns
  <2>1. /\ UNCHANGED <<cl, activeConns, sweep, down>>
        /\ sup' # "sweep" /\ sup # "sweep"
        /\ sup' \in {"downPublish", "reset"} \/ sup \notin {"downPublish", "reset"}
    BY <1>9 DEF PublishUp, PublishDown, TestBackoff, Repoint, RepointOk, RepointFails, SupervisorReturns
  <2> QED BY <2>1 DEF ClientInv
<1> QED
  <2>1. ASSUME ServerStep \/ ListenerClosed, ~StartPublish
        PROVE  UNCHANGED <<cl, activeConns, sweep, down, sup>>
    BY <2>1 DEF ServerStep, BuildTUN, StartDevice, PrepareFails, NewSocksRuntime, StartUp,
                Listen, ServerSwapsDown, ServerPublishesDown, StopSupervisor,
                JoinSupervisor, FinalPublish, CloseDevice, CloseTun, ListenerClosed
  <2>2. ASSUME DeviceSends \/ KeepaliveSends \/ PeerSends \/ EdgeMoves \/ PollFails \/ UNCHANGED vars
        PROVE  UNCHANGED <<cl, activeConns, sweep, down, sup>>
    BY <2>2 DEF DeviceSends, KeepaliveSends, PeerSends, EdgeMoves, PollFails, vars
  <2> QED
    BY <1>1, <1>2, <1>3, <1>4, <1>5, <1>6, <1>7, <1>8, <1>9, <2>1, <2>2 DEF Next, Poll, SupStep

-----------------------------------------------------------------------------
(* The theorems *)

\* The transport starts with the gate down and no clients.
LEMMA IInvInit == Init => IInv
<1> SUFFICES ASSUME Init PROVE IInv
  OBVIOUS
<1>1. NumbersOK
  BY WireGuardAssumption DEF Init, NumbersOK
<1>2. StagesOK /\ RuntimeTypeOK
  BY DEF Init, RuntimeInit, StagesOK, RuntimeTypeOK, Places
<1>3. FlagsOK
  BY DEF Init, FlagsOK
<1>4. SupInv /\ GateInv /\ ClientInv
  BY DEF Init, RuntimeInit, SupInv, GateInv, ClientInv, Over, Starting, Serving
<1> QED BY <1>1, <1>2, <1>3, <1>4, TypeSplits DEF IInv

\* IInv is inductive, whatever the edge and the clients do.
THEOREM WatchdogInvariant == Spec => []IInv
<1>1. IInv /\ [Next]_vars => IInv'
  <2> SUFFICES ASSUME IInv, [Next]_vars PROVE IInv'
    OBVIOUS
  <2>1. TypeOK'
    BY TypeSplits, NumbersStep, StagesStep DEF IInv
  <2>2. SupInv' /\ GateInv'
    BY GateStep DEF IInv
  <2>3. ClientInv'
    BY ClientStepInv DEF IInv
  <2> QED BY <2>1, <2>2, <2>3 DEF IInv
<1> QED BY <1>1, IInvInit, PTL DEF Spec

\* Every variable of the transport keeps its type.
THEOREM TypeCorrect == Spec => []TypeOK
<1>1. IInv => TypeOK
  BY DEF IInv
<1> QED BY <1>1, WatchdogInvariant, PTL

\* While the proxy serves, the gate is what superviseWireGuard thinks of the
\* session.
THEOREM GateIsWatchdogs == Spec => []GateFollowsWatchdog
<1>1. IInv => GateFollowsWatchdog
  <2> SUFFICES ASSUME IInv, server \in {"listen", "serving"}, sup = "select"
               PROVE  tunnelUp = ~down
    BY DEF GateFollowsWatchdog
  <2>1. tunnelUp \in BOOLEAN /\ down \in BOOLEAN /\ (down => ~tunnelUp) /\ (down \/ tunnelUp)
    BY DEF IInv, GateInv, TypeOK, RuntimeTypeOK, Serving
  <2> QED BY <2>1
<1> QED BY <1>1, WatchdogInvariant, PTL

\* ResetTrackedConns and the gate leave no open client on a wedged session,
\* whatever a dial of a closed one still does.
THEOREM OutageHasNoFlow == Spec => []NoFlowDuringOutage
<1>1. IInv => NoFlowDuringOutage
  BY DEF IInv, ClientInv, NoFlowDuringOutage
<1> QED BY <1>1, WatchdogInvariant, PTL

\* However the defers of runWireGuardTransport interleave with a recovery of
\* superviseWireGuard, the gate is closed from the join on.
THEOREM GateClosedAfterJoin == Spec => []NoLateRecovery
<1>1. IInv => NoLateRecovery
  BY DEF IInv, SupInv, GateInv, NoLateRecovery, Over
<1> QED BY <1>1, WatchdogInvariant, PTL

=============================================================================
