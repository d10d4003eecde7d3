----------------------- MODULE TunnelLifecycleProofs -----------------------
(***************************************************************************)
(* Safety of TunnelLifecycle for every set of clients and every setting of *)
(* the reconnect loop.  The inductive invariant says where each callback   *)
(* may be, when a session and an open gate may exist, and which stranded   *)
(* flows the running sweep still owes a visit.                             *)
(***************************************************************************)
EXTENDS TunnelLifecycle, TLAPS

\* A callback stage belongs to its callback; the main context is never
\* cancelled.
CallbackInv ==
    /\ ~ctxDone
    /\ cb = "boot" => loop = "top"
    /\ cb = "publish" => loop \in {"onConnected", "onDisconnected"}
    /\ cb = "drain" => loop = "onConnected"
    /\ cb \in {"reset", "sweep"} => loop = "onDisconnected"

\* A session exists exactly between the edge's answer and the deferred close.
SessionInv == (session # "none") <=> (loop \in {"onConnected", "forwarding"})

\* The gate is up from OnConnected's swap to OnDisconnected's.
GateInv ==
    tunnelUp <=> \/ loop = "onConnected" /\ cb \in {"publish", "drain"}
                 \/ loop = "forwarding"
                 \/ loop = "onDisconnected" /\ cb = "swap"

\* A relayed flow runs on the live session or is stranded, and a stranded flow
\* that is still open is one that the loop has yet to sweep.
FlowInv ==
    /\ \A c \in stranded : conn[c] = "relay"
    /\ \A c \in Conns : conn[c] = "relay" => c \in stranded \/ session = "live"
    /\ \A c \in stranded \cap activeConns :
        \/ session = "dead"
        \/ loop = "onDisconnected" /\ (cb = "sweep" => c \in sweep)

IInv == TypeOK /\ CallbackInv /\ SessionInv /\ GateInv /\ FlowInv

-----------------------------------------------------------------------------
USE DEF maintVars, runtimeVars, fileVars, clientVars, cbVars, tallyVars

\* Each action keeps every variable in its type.  The three parts of TypeOK are
\* proved apart where an action writes both numbers and Booleans.
LEMMA TypeStep == TypeOK /\ [Next]_vars => TypeOK'
<1> SUFFICES ASSUME TypeOK, [Next]_vars PROVE MaintTypeOK' /\ RuntimeTypeOK' /\ OwnTypeOK'
  BY DEF TypeOK
<1> USE MaintainTunnelAssumption, MaxCrashesAssumption
    DEF TypeOK, MaintTypeOK, RuntimeTypeOK, OwnTypeOK, LoopStates, ConnStates,
        AtAcceptor, Served
<1>1. CASE NewSocksRuntime
  BY ZenonT(60), <1>1 DEF NewSocksRuntime, PublishTunnelState
<1>2. CASE LoopStep
  BY <1>2 DEF LoopStep, StartAttempt, ConnectFails, ConnectSucceeds,
              BackoffElapses, NextAttempt, AfterError
<1>3. CASE LoseSession
  BY <1>3 DEF LoseSession, SessionDies
<1>4. CASE CallbackSwap \/ CallbackPublish
  <2>1. MaintTypeOK'
    BY <1>4 DEF CallbackSwap, CallbackPublish
  <2>2. RuntimeTypeOK'
    BY <1>4 DEF CallbackSwap, CallbackPublish, SwapTunnelUp, PublishTunnelState
  <2>3. OwnTypeOK'
    BY <1>4 DEF CallbackSwap, CallbackPublish
  <2> QED BY <2>1, <2>2, <2>3
<1>5. CASE OnConnectedEnds \/ SessionLost
  BY ZenonT(60), <1>5 DEF OnConnectedEnds, OnConnectedReturns, DrainDemand, SessionLost,
              ForwardingEnds
<1>6. CASE ResetStarts \/ \E c \in Conns : ResetVisits(c)
  BY <1>6 DEF ResetStarts, ResetVisits, CloseManaged
<1>7. CASE OnDisconnectedEnds \/ WakeOnDemand
  <2>1. MaintTypeOK'
    BY <1>7 DEF OnDisconnectedEnds, OnDisconnectedReturns, AfterError,
                WakeOnDemand, DemandWakes
  <2>2. RuntimeTypeOK' /\ OwnTypeOK'
    BY <1>7 DEF OnDisconnectedEnds, WakeOnDemand, ReceiveDemand
  <2> QED BY <2>1, <2>2
<1>8. ASSUME NEW c \in Conns, AcceptNext(c)
      PROVE  MaintTypeOK' /\ RuntimeTypeOK' /\ OwnTypeOK'
  <2>1. MaintTypeOK'
    BY <1>8 DEF AcceptNext, Accept, CheckGate, DropRefused, Admit
  <2>2. RuntimeTypeOK'
    BY <1>8 DEF AcceptNext, Accept, CheckGate, DropRefused, Admit, SignalDemand,
                TrackConn
  <2>3. OwnTypeOK'
    BY <1>8 DEF AcceptNext, Accept, CheckGate, DropRefused, Admit, Move
  <2> QED BY <2>1, <2>2, <2>3
<1>9. ASSUME NEW c \in Conns, ClientNext(c)
      PROVE  MaintTypeOK' /\ RuntimeTypeOK' /\ OwnTypeOK'
  BY <1>9 DEF ClientNext, ClientConnects, DialGate, DialSucceeds, ServeOther,
              DatagramRefused, ServeEnds, CloseManaged, Move
<1>10. CASE Crash
  <2>0. attempt' \in 0..AttemptCap
    BY <1>10 DEF Crash
  <2>1. MaintTypeOK'
    BY <1>10, <2>0 DEF Crash
  <2>2. RuntimeTypeOK'
    BY <1>10 DEF Crash
  <2>3. crashes' \in 0..MaxCrashes
    BY <1>10 DEF Crash
  <2>4. conn' \in [Conns -> ConnStates]
    BY <1>10 DEF Crash
  <2>5. listening' \in BOOLEAN /\ freshDemand' \in BOOLEAN
    BY <1>10 DEF Crash
  <2>6. OwnTypeOK'
    BY <1>10, <2>3, <2>4, <2>5 DEF Crash
  <2> QED BY <2>1, <2>2, <2>6
<1>11. CASE UNCHANGED vars
  BY <1>11 DEF vars
<1> QED
  BY <1>1, <1>2, <1>3, <1>4, <1>5, <1>6, <1>7, <1>8, <1>9, <1>10, <1>11
  DEF Next, LoopNext

\* The process starts with types in order.
LEMMA TypeInit == Init => TypeOK
<1> SUFFICES ASSUME Init PROVE MaintTypeOK /\ RuntimeTypeOK /\ OwnTypeOK
  BY DEF TypeOK
<1>1. attempt \in 0..AttemptCap
  BY MaintainTunnelAssumption DEF Init, MaintInit
<1>2. MaintTypeOK
  BY <1>1 DEF Init, MaintInit, MaintTypeOK, LoopStates
<1>3. RuntimeTypeOK
  BY DEF Init, RuntimeInit, RuntimeTypeOK
<1>4. crashes \in 0..MaxCrashes
  BY MaintainTunnelAssumption, MaxCrashesAssumption DEF Init
<1>5. OwnTypeOK
  BY <1>4 DEF Init, OwnTypeOK, ConnStates
<1> QED BY <1>2, <1>3, <1>5

\* Type correctness of the composed system: every variable of the reconnect
\* loop, the SOCKS runtime and the clients stays in its type.
THEOREM TypeCorrect == Spec => []TypeOK
  BY TypeInit, TypeStep, PTL DEF Spec

-----------------------------------------------------------------------------
\* The goroutine of the reconnect loop keeps its callbacks, its session and the
\* gate in step; no other goroutine writes the gate.
LEMMA ControlStep ==
  TypeOK /\ CallbackInv /\ SessionInv /\ GateInv /\ [Next]_vars
     => CallbackInv' /\ SessionInv' /\ GateInv'
<1> SUFFICES ASSUME TypeOK, CallbackInv, SessionInv, GateInv, [Next]_vars
             PROVE  CallbackInv' /\ SessionInv' /\ GateInv'
  OBVIOUS
<1> USE DEF TypeOK, MaintTypeOK, RuntimeTypeOK, OwnTypeOK, LoopStates,
            CallbackInv, SessionInv, GateInv
<1>1. CASE NewSocksRuntime
  BY <1>1 DEF NewSocksRuntime
<1>2. CASE LoopStep
  BY <1>2 DEF LoopStep, StartAttempt, ConnectFails, ConnectSucceeds,
              BackoffElapses, AfterError
<1>3. CASE LoseSession
  BY <1>3 DEF LoseSession, SessionDies
<1>4. CASE CallbackSwap
  <2>1. CASE loop = "onConnected"
    <3>1. tunnelUp' = TRUE /\ cb' \in {"publish", "drain"}
      BY <1>4, <2>1 DEF CallbackSwap, SwapTunnelUp
    <3> QED BY <1>4, <2>1, <3>1 DEF CallbackSwap
  <2>2. CASE loop = "onDisconnected"
    <3>1. tunnelUp' = FALSE /\ cb' \in {"publish", "reset"}
      BY <1>4, <2>2 DEF CallbackSwap, SwapTunnelUp
    <3> QED BY <1>4, <2>2, <3>1 DEF CallbackSwap
  <2> QED BY <1>4, <2>1, <2>2 DEF CallbackSwap
<1>4b. CASE CallbackPublish
  BY <1>4b DEF CallbackPublish
<1>5. CASE OnConnectedEnds \/ SessionLost
  BY <1>5 DEF OnConnectedEnds, OnConnectedReturns, SessionLost, ForwardingEnds
<1>6. CASE ResetStarts \/ \E c \in Conns : ResetVisits(c)
  BY <1>6 DEF ResetStarts, ResetVisits
<1>7. CASE OnDisconnectedEnds \/ WakeOnDemand
  BY <1>7 DEF OnDisconnectedEnds, OnDisconnectedReturns, AfterError,
              WakeOnDemand, DemandWakes
<1>8. ASSUME NEW c \in Conns, AcceptNext(c) \/ ClientNext(c)
      PROVE  CallbackInv' /\ SessionInv' /\ GateInv'
  BY <1>8 DEF AcceptNext, Accept, CheckGate, DropRefused, Admit, ClientNext,
              ClientConnects, DialGate, DialSucceeds, ServeOther,
              DatagramRefused, ServeEnds
<1>10. CASE Crash
  BY <1>10 DEF Crash
<1>11. CASE UNCHANGED vars
  BY <1>11 DEF vars
<1> QED
  BY <1>1, <1>2, <1>3, <1>4, <1>5, <1>6, <1>7, <1>8, <1>4b, <1>10, <1>11
  DEF Next, LoopNext

\* What each step does to the flows.
LEMMA FlowStep == IInv /\ [Next]_vars => FlowInv'
<1> SUFFICES ASSUME IInv, [Next]_vars PROVE FlowInv'
  OBVIOUS
<1> USE DEF IInv, TypeOK, MaintTypeOK, RuntimeTypeOK, OwnTypeOK, CallbackInv,
            SessionInv, FlowInv
<1>1. CASE NewSocksRuntime
  BY <1>1 DEF NewSocksRuntime
<1>2. CASE LoopStep
  BY <1>2 DEF LoopStep, StartAttempt, ConnectFails, ConnectSucceeds, BackoffElapses
<1>3. CASE LoseSession
  BY <1>3 DEF LoseSession, SessionDies
<1>4. CASE CallbackSwap \/ CallbackPublish
  BY <1>4 DEF CallbackSwap, CallbackPublish
<1>5. CASE OnConnectedEnds \/ SessionLost
  BY <1>5 DEF OnConnectedEnds, OnConnectedReturns, SessionLost, ForwardingEnds
<1>6. CASE ResetStarts \/ \E c \in Conns : ResetVisits(c)
  BY <1>6 DEF ResetStarts, ResetVisits, CloseManaged
<1>7. CASE OnDisconnectedEnds \/ WakeOnDemand
  BY <1>7 DEF OnDisconnectedEnds, OnDisconnectedReturns, WakeOnDemand, DemandWakes
<1>8. ASSUME NEW c \in Conns, AcceptNext(c) PROVE FlowInv'
  BY <1>8 DEF AcceptNext, Accept, CheckGate, DropRefused, Admit, Move, TrackConn
<1>9. ASSUME NEW c \in Conns, ClientNext(c) PROVE FlowInv'
  BY <1>9 DEF ClientNext, ClientConnects, DialGate, DialSucceeds, ServeOther,
              DatagramRefused, ServeEnds, CloseManaged, Move
<1>10. CASE Crash
  BY <1>10 DEF Crash
<1>11. CASE UNCHANGED vars
  BY <1>11 DEF vars
<1> QED
  BY <1>1, <1>2, <1>3, <1>4, <1>5, <1>6, <1>7, <1>8, <1>9, <1>10, <1>11
  DEF Next, LoopNext

\* The process starts without a session, with the gate down and nobody tracked.
LEMMA InitIInv == Init => IInv
  BY TypeInit DEF Init, MaintInit, RuntimeInit, IInv, CallbackInv, SessionInv,
                  GateInv, FlowInv

\* The inductive invariant.
LEMMA Inductive == Spec => []IInv
<1>1. IInv /\ [Next]_vars => IInv'
  BY TypeStep, ControlStep, FlowStep DEF IInv
<1> QED
  BY InitIInv, <1>1, PTL DEF Spec

\* For every number of clients and every interleaving of accepts, dials, sweeps
\* and reconnects: an open flow whose session is gone is one that the
\* disconnect being processed will still reset.
THEOREM FlowsDieWithTheirSession == Spec => []NoFlowOutlivesItsSession
<1>1. IInv => NoFlowOutlivesItsSession
  BY DEF IInv, FlowInv, NoFlowOutlivesItsSession, OpenFlows
<1> QED
  BY Inductive, <1>1, PTL

\* A waiting loop has closed the gate and has no session, so a client that
\* comes is refused and signals the demand that wakes it.
THEOREM GateDownWhileWaiting == Spec => []WaitsOnlyWithGateDown
<1>1. IInv => WaitsOnlyWithGateDown
  BY DEF IInv, TypeOK, MaintTypeOK, RuntimeTypeOK, SessionInv, GateInv, WaitsOnlyWithGateDown
<1> QED
  BY Inductive, <1>1, PTL

-----------------------------------------------------------------------------
\* The healthcheck's file agrees with the gate between transitions unless its
\* last write failed, across any number of crashes and restarts.
THEOREM StateFileIsTruthful == Spec => []StateFileTellsTheGate
<1> USE DEF StateFileTellsTheGate
<1>1. Init => StateFileTellsTheGate
  BY DEF Init
<1>2. IInv /\ StateFileTellsTheGate /\ [Next]_vars => StateFileTellsTheGate'
  <2> SUFFICES ASSUME IInv, StateFileTellsTheGate, [Next]_vars
               PROVE  StateFileTellsTheGate'
    OBVIOUS
  <2> USE DEF IInv, TypeOK, MaintTypeOK, RuntimeTypeOK, OwnTypeOK, CallbackInv, GateInv
  <2>1. CASE NewSocksRuntime
    <3>1. tunnelUp' = FALSE
      BY <2>1 DEF NewSocksRuntime
    <3> QED BY <2>1, <3>1 DEF NewSocksRuntime, PublishTunnelState
  <2>2. CASE CallbackSwap
    <3>1. cb' # "publish" => tunnelUp' = tunnelUp
      BY <2>2 DEF CallbackSwap, SwapTunnelUp
    <3> QED BY <2>2, <3>1 DEF CallbackSwap
  <2>3. CASE CallbackPublish
    <3>1. tunnelUp' = (loop = "onConnected")
      BY <2>3 DEF CallbackPublish
    <3> QED BY <2>3, <3>1 DEF CallbackPublish, PublishTunnelState
  <2>4. CASE LoopStep
    BY <2>4 DEF LoopStep
  <2>5. CASE OnConnectedEnds \/ SessionLost \/ ResetStarts \/ OnDisconnectedEnds
    BY <2>5 DEF OnConnectedEnds, SessionLost, ResetStarts, OnDisconnectedEnds
  <2>6. CASE WakeOnDemand \/ LoseSession \/ \E c \in Conns : ResetVisits(c)
    BY <2>6 DEF WakeOnDemand, LoseSession, ResetVisits
  <2>7. ASSUME NEW c \in Conns, AcceptNext(c) \/ ClientNext(c)
        PROVE  StateFileTellsTheGate'
    BY <2>7 DEF AcceptNext, Accept, CheckGate, DropRefused, Admit, ClientNext,
                ClientConnects, DialGate, DialSucceeds, ServeOther,
                DatagramRefused, ServeEnds
  <2>8. CASE Crash
    BY <2>8 DEF Crash
  <2>9. CASE UNCHANGED vars
    BY <2>9 DEF vars
  <2> QED
    BY <2>1, <2>2, <2>3, <2>4, <2>5, <2>6, <2>7, <2>8, <2>9 DEF Next, LoopNext
<1> QED
  BY <1>1, <1>2, Inductive, PTL DEF Spec

\* A token left by a refused client survives until it wakes the loop or the
\* gate is up: drainDemand never eats the demand of a client still refused.
THEOREM NoDemandLost == Spec => DemandKeptWhileDown
<1>1. IInv /\ [Next]_vars =>
        [demand /\ ~tunnelUp /\ ~demand' => loop = "parked" \/ crashes' # crashes]_vars
  <2> SUFFICES ASSUME IInv, Next, demand, ~tunnelUp, ~demand'
               PROVE  loop = "parked" \/ crashes' # crashes
    OBVIOUS
  <2>1. CASE OnConnectedEnds
    BY <2>1 DEF OnConnectedEnds, OnConnectedReturns, IInv, GateInv
  <2>2. CASE WakeOnDemand
    BY <2>2 DEF WakeOnDemand, DemandWakes
  <2>3. CASE Crash
    BY <2>3 DEF Crash, IInv, TypeOK, OwnTypeOK
  <2>4. CASE NewSocksRuntime \/ LoopStep \/ LoseSession \/ CallbackSwap \/ CallbackPublish
    BY <2>4 DEF NewSocksRuntime, LoopStep, LoseSession, CallbackSwap, CallbackPublish
  <2>5. CASE SessionLost \/ ResetStarts \/ OnDisconnectedEnds \/ \E c \in Conns : ResetVisits(c)
    BY <2>5 DEF SessionLost, ResetStarts, OnDisconnectedEnds, ResetVisits
  <2>6. ASSUME NEW c \in Conns, AcceptNext(c) \/ ClientNext(c) PROVE FALSE
    BY <2>6 DEF AcceptNext, Accept, CheckGate, DropRefused, SignalDemand, Admit,
                ClientNext, ClientConnects, DialGate, DialSucceeds, ServeOther,
                DatagramRefused, ServeEnds
  <2> QED
    BY <2>1, <2>2, <2>3, <2>4, <2>5, <2>6 DEF Next, LoopNext
<1> QED
  BY <1>1, Inductive, PTL DEF Spec, DemandKeptWhileDown

-----------------------------------------------------------------------------
\* Every step of the proxy is a step or a stutter of FlowSessions.
LEMMA FlowsStep ==
  IInv /\ [Next]_vars => [Flows!AbsNext]_(Flows!absVars)
<1> SUFFICES ASSUME IInv, [Next]_vars
             PROVE  Flows!AbsNext \/ UNCHANGED Flows!absVars
  OBVIOUS
<1> USE DEF Flows!absVars, OpenFlows
<1>1. CASE NewSocksRuntime \/ CallbackSwap \/ CallbackPublish \/ ResetStarts
  BY <1>1 DEF NewSocksRuntime, CallbackSwap, CallbackPublish, ResetStarts
<1>2. CASE LoopStep
  <2>1. CASE ConnectSucceeds
    <3>1. session = "none" /\ loop = "connecting"
      BY <2>1 DEF ConnectSucceeds, IInv, SessionInv
    <3>2. OpenFlows = {}
      BY <3>1 DEF IInv, FlowInv, TypeOK, RuntimeTypeOK
    <3>3. Flows!LinkUp
      BY <1>2, <2>1, <3>2 DEF LoopStep, ConnectSucceeds, Flows!LinkUp
    <3> QED BY <3>3 DEF Flows!AbsNext
  <2>2. CASE StartAttempt \/ ConnectFails \/ BackoffElapses
    BY <1>2, <2>2 DEF LoopStep, StartAttempt, ConnectFails, BackoffElapses
  <2> QED BY <1>2, <2>1, <2>2 DEF LoopStep
<1>3. CASE LoseSession
  <2>1. Flows!LinkLost
    BY <1>3 DEF LoseSession, SessionDies, Flows!LinkLost
  <2> QED BY <2>1 DEF Flows!AbsNext
<1>4. CASE SessionLost
  <2>1. Flows!LinkLost
    BY <1>4 DEF SessionLost, ForwardingEnds, Flows!LinkLost
  <2> QED BY <2>1 DEF Flows!AbsNext
<1>5. CASE OnConnectedEnds \/ OnDisconnectedEnds \/ WakeOnDemand
  BY <1>5 DEF OnConnectedEnds, OnConnectedReturns, OnDisconnectedEnds,
              OnDisconnectedReturns, WakeOnDemand, DemandWakes
<1>6. ASSUME NEW c \in Conns, ResetVisits(c) PROVE Flows!CloseFlow(c)
  BY <1>6 DEF ResetVisits, CloseManaged, Flows!CloseFlow
<1>7. ASSUME NEW c \in Conns, ServeEnds(c) PROVE Flows!CloseFlow(c)
  BY <1>7 DEF ServeEnds, CloseManaged, Flows!CloseFlow, IInv, TypeOK,
              OwnTypeOK, RuntimeTypeOK
<1>8. ASSUME NEW c \in Conns, DialSucceeds(c)
      PROVE  Flows!OpenFlow(c) \/ UNCHANGED Flows!absVars
  BY <1>8 DEF DialSucceeds, Move, Flows!OpenFlow, IInv, TypeOK, OwnTypeOK,
              RuntimeTypeOK
<1>9. ASSUME NEW c \in Conns,
             \/ AcceptNext(c) \/ ClientConnects(c) \/ DialGate(c)
             \/ \E kind \in {"direct", "assoc"} : ServeOther(c, kind)
             \/ DatagramRefused(c)
      PROVE  UNCHANGED Flows!absVars
  BY <1>9 DEF AcceptNext, Accept, CheckGate, DropRefused, Admit, TrackConn,
              ClientConnects, DialGate, ServeOther, DatagramRefused, Move,
              IInv, TypeOK, OwnTypeOK, RuntimeTypeOK
<1>10. CASE Crash
  <2>1. Flows!ProcessDies
    BY <1>10 DEF Crash, Flows!ProcessDies
  <2> QED BY <2>1 DEF Flows!AbsNext
<1>11. CASE UNCHANGED vars
  BY <1>11 DEF vars
<1> QED
  BY <1>1, <1>2, <1>3, <1>4, <1>5, <1>6, <1>7, <1>8, <1>9, <1>10, <1>11
  DEF Next, LoopNext, ClientNext, Flows!AbsNext

\* The proxy implements FlowSessions: a flow opens only on a live session, and
\* a new session starts only when no flow of an earlier one is open.
THEOREM ImplementsFlowSessions == Spec => FlowsRefined
<1>1. Init => Flows!AbsInit
  BY DEF Init, MaintInit, RuntimeInit, Flows!AbsInit, OpenFlows
<1> QED
  BY <1>1, FlowsStep, Inductive, PTL DEF Spec, FlowsRefined, Flows!AbsSpec

-----------------------------------------------------------------------------
\* Every step but a crash is a step of the reconnect loop or leaves it alone.
LEMMA RunsLoopStep ==
  IInv /\ [Next]_vars => [MaintNext \/ (crashes' # crashes /\ MaintInit')]_maintVars
<1> SUFFICES ASSUME IInv, [Next]_vars
             PROVE  MaintNext \/ (crashes' # crashes /\ MaintInit') \/ UNCHANGED maintVars
  OBVIOUS
<1>1. CASE LoopNext
  BY <1>1 DEF LoopNext, NewSocksRuntime, LoopStep, CallbackSwap, CallbackPublish, OnConnectedEnds,
              SessionLost, ResetStarts, ResetVisits, OnDisconnectedEnds, WakeOnDemand, MaintNext
<1>2. CASE LoseSession
  BY <1>2 DEF LoseSession, MaintNext
<1>3. ASSUME NEW c \in Conns, AcceptNext(c) \/ ClientNext(c) PROVE UNCHANGED maintVars
  BY <1>3 DEF AcceptNext, Accept, CheckGate, DropRefused, Admit, ClientNext, ClientConnects,
              DialGate, DialSucceeds, ServeOther, DatagramRefused, ServeEnds
<1>4. CASE Crash
  <2>1. crashes' # crashes
    BY <1>4 DEF Crash, IInv, TypeOK, OwnTypeOK
  <2>2. ctxDone' = FALSE
    BY <1>4 DEF Crash, IInv, CallbackInv, TypeOK, MaintTypeOK
  <2> QED BY <1>4, <2>1, <2>2 DEF Crash, MaintInit
<1>5. CASE UNCHANGED vars
  BY <1>5 DEF vars
<1> QED BY <1>1, <1>2, <1>3, <1>4, <1>5 DEF Next

\* The composed process runs MaintainTunnel's loop and nothing else writes the loop's state: the
\* callbacks, the accept loop and the clients take part in its steps or leave it alone, and a crash
\* starts it again.
THEOREM RunsMaintainTunnel == Spec => LoopBetweenCrashes
<1>1. Init => MaintInit
  BY DEF Init
<1> QED
  BY <1>1, RunsLoopStep, Inductive, PTL DEF Spec, LoopBetweenCrashes

\* The tunnel of the process waits for demand only when it is lazy and has lost a connection, pauses
\* only when its attempts are used up, and holds a session in no wait.
THEOREM TunnelWaitsForAReason == Spec => []WaitsForAReason
<1>1. Init => WaitsForAReason
  BY DEF Init, MaintInit, WaitsForAReason
<1>2. ASSUME IInv, WaitsForAReason, [Next]_vars, IInv' PROVE WaitsForAReason'
  <2>1. (session' # "none") <=> (loop' \in {"onConnected", "forwarding"})
    BY <1>2 DEF IInv, SessionInv
  <2>2. /\ loop' = "parked" => ~AlwaysReconnect /\ attempt' = 0
        /\ loop' = "paused" => MaxReconnectAttempts > 0 /\ attempt' >= MaxReconnectAttempts
    <3>1. CASE MaintNext
      <4>1. CASE ConnectFails
        <5>1. AttemptCap \in Nat \ {0} /\ attempt \in 0..AttemptCap
          BY <1>2, MaintainTunnelAssumption DEF IInv, TypeOK, MaintTypeOK
        <5>2. attempt' = NextAttempt(attempt) /\ attempt' # 0
          BY <4>1, <5>1 DEF ConnectFails, NextAttempt
        <5> QED BY <4>1, <5>2 DEF ConnectFails, AfterError
      <4>2. CASE OnDisconnectedReturns
        BY <4>2 DEF OnDisconnectedReturns, AfterError
      <4> QED
        BY <1>2, <3>1, <4>1, <4>2 DEF MaintNext, StartAttempt, ConnectSucceeds, OnConnectedReturns,
               SessionDies, ForwardingEnds, DemandWakes, BackoffElapses, CancelContext, StopLoop,
               WaitsForAReason
    <3>2. CASE MaintInit'
      BY <3>2 DEF MaintInit
    <3>3. CASE UNCHANGED maintVars
      BY <1>2, <3>3 DEF WaitsForAReason
    <3> QED BY <1>2, <3>1, <3>2, <3>3, RunsLoopStep
  <2> QED BY <2>1, <2>2 DEF WaitsForAReason
<1> QED
  BY <1>1, <1>2, Inductive, PTL DEF Spec

=============================================================================
