-------------------------- MODULE TunnelLifecycle --------------------------
(***************************************************************************)
(* The L3 data plane's control: the reconnect loop (MaintainTunnel) with   *)
(* the callbacks startTunnel gives it, the SOCKS accept loop               *)
(* (runSocksServer) and one goroutine per served client, sharing a         *)
(* socksRuntime.  Every step is one access to shared state; the goroutines *)
(* interleave between steps.                                               *)
(***************************************************************************)
EXTENDS MaintainTunnel, SocksRuntime

CONSTANT MaxCrashes   \* bound: how often the process is killed

ASSUME MaxCrashesAssumption == MaxCrashes \in Nat

VARIABLES
    conn,        \* where each client connection is
    stranded,    \* relayed flows whose session is gone
    sweep,       \* connections ResetTrackedConns still has to visit
    cb,          \* where the running callback is
    listening,   \* readyCh is closed and the accept loop runs
    crashes,     \* how often the process was killed
    freshDemand, \* history: a client was refused since the last session ended
    udpRefused   \* history: associations a datagram of which was refused

clientVars == <<conn, stranded, udpRefused>>
cbVars == <<cb, sweep, listening>>
tallyVars == <<crashes, freshDemand>>
vars == <<maintVars, runtimeVars, clientVars, cbVars, tallyVars>>

\* A connection the accept loop holds: accepted and before or after the gate.
AtAcceptor == {"gate", "refused", "admitted"}

\* A connection a ServeConn goroutine holds.
Served == {"serving", "dialing", "relay", "direct", "assoc"}

ConnStates == {"absent", "backlog"} \cup AtAcceptor \cup Served

OwnTypeOK ==
    /\ conn \in [Conns -> ConnStates]
    /\ stranded \subseteq Conns
    /\ sweep \subseteq Conns
    /\ cb \in {"boot", "swap", "publish", "drain", "reset", "sweep"}
    /\ listening \in BOOLEAN
    /\ crashes \in 0..MaxCrashes
    /\ freshDemand \in BOOLEAN
    /\ udpRefused \subseteq Conns

TypeOK == MaintTypeOK /\ RuntimeTypeOK /\ OwnTypeOK

Init ==
    /\ MaintInit
    /\ RuntimeInit
    /\ conn = [c \in Conns |-> "absent"]
    /\ stranded = {}
    /\ sweep = {}
    /\ cb = "boot"
    /\ listening = FALSE
    /\ crashes = 0
    /\ freshDemand = FALSE
    /\ udpRefused = {}

-----------------------------------------------------------------------------
(* The reconnect loop and its callbacks *)

\* Mutant: a restart trusts the file that the previous run left behind.
BugNoBootPublish ==
    /\ cb = "boot" /\ cb' = "swap"
    /\ UNCHANGED <<maintVars, runtimeVars, clientVars, sweep, listening, tallyVars>>

\* newSocksRuntime claims the state file before the loop starts.
NewSocksRuntime ==
    /\ cb = "boot" /\ cb' = "swap"
    /\ PublishTunnelState(FALSE)
    /\ UNCHANGED <<maintVars, tunnelUp, demand, activeConns, clientVars, sweep,
                   listening, tallyVars>>

\* The steps of the loop that run no callback.
LoopStep ==
    /\ cb # "boot"
    /\ StartAttempt \/ ConnectFails \/ ConnectSucceeds \/ BackoffElapses
    /\ UNCHANGED <<runtimeVars, clientVars, cbVars, tallyVars>>

\* The session dies: the edge forgets every flow it carried.
LoseSession ==
    /\ SessionDies
    /\ stranded' = stranded \cup {c \in Conns : conn[c] = "relay"}
    /\ UNCHANGED <<runtimeVars, conn, udpRefused, cbVars, tallyVars>>

\* SetTunnelUp as both callbacks call it: the swap, and the publication if the
\* value changed.
CallbackSwap ==
    /\ cb = "swap"
    /\ loop \in {"onConnected", "onDisconnected"}
    /\ LET up == loop = "onConnected"
       IN  /\ SwapTunnelUp(up)
           /\ cb' = IF tunnelUp # up THEN "publish"
                    ELSE IF up THEN "drain" ELSE "reset"
    /\ UNCHANGED <<maintVars, demand, activeConns, fileVars, clientVars, sweep,
                   listening, tallyVars>>

CallbackPublish ==
    /\ cb = "publish"
    /\ LET up == loop = "onConnected"
       IN  /\ PublishTunnelState(up)
           /\ cb' = IF up THEN "drain" ELSE "reset"
    /\ UNCHANGED <<maintVars, tunnelUp, demand, activeConns, clientVars, sweep,
                   listening, tallyVars>>

\* OnConnected ends: drainDemand, then readyOnce lets the accept loop start.
OnConnectedEnds ==
    /\ cb = "drain" /\ cb' = "swap"
    /\ DrainDemand
    /\ listening' = TRUE
    /\ OnConnectedReturns
    /\ UNCHANGED <<tunnelUp, activeConns, fileVars, clientVars, sweep, tallyVars>>

\* The forwarding select returns and OnDisconnected starts.
SessionLost ==
    /\ ForwardingEnds
    /\ freshDemand' = FALSE
    /\ UNCHANGED <<runtimeVars, clientVars, cbVars, crashes>>

\* Mutant: OnDisconnected forgets ResetTrackedConns.
BugNoReset ==
    /\ cb = "reset" /\ cb' = "sweep"
    /\ sweep' = {}
    /\ UNCHANGED <<maintVars, runtimeVars, clientVars, listening, tallyVars>>

\* ResetTrackedConns: Range starts.  It visits every key present throughout;
\* a key stored meanwhile it may or may not visit.
ResetStarts ==
    /\ cb = "reset" /\ cb' = "sweep"
    /\ sweep' = activeConns
    /\ UNCHANGED <<maintVars, runtimeVars, clientVars, listening, tallyVars>>

\* Range visits c and closes it.
ResetVisits(c) ==
    /\ cb = "sweep"
    /\ c \in activeConns
    /\ CloseManaged(c)
    /\ sweep' = sweep \ {c}
    /\ UNCHANGED <<maintVars, tunnelUp, demand, fileVars, clientVars, cb,
                   listening, tallyVars>>

\* Mutant: OnDisconnected drains the demand its own refusals have left.
BugDrainOnDisconnect ==
    /\ cb = "sweep" /\ cb' = "swap"
    /\ sweep = {}
    /\ DrainDemand
    /\ OnDisconnectedReturns
    /\ UNCHANGED <<tunnelUp, activeConns, fileVars, clientVars, sweep,
                   listening, tallyVars>>

\* Range and OnDisconnected return.
OnDisconnectedEnds ==
    /\ cb = "sweep" /\ cb' = "swap"
    /\ sweep = {}
    /\ OnDisconnectedReturns
    /\ UNCHANGED <<runtimeVars, clientVars, sweep, listening, tallyVars>>

\* WaitForReconnectDemand receives a token and the loop goes round.
WakeOnDemand ==
    /\ ReceiveDemand
    /\ DemandWakes
    /\ UNCHANGED <<tunnelUp, activeConns, fileVars, clientVars, cbVars, tallyVars>>

-----------------------------------------------------------------------------
(* Clients and the accept loop *)

\* Connection c goes from one place to another.
Move(c, from, to) ==
    /\ conn[c] = from
    /\ conn' = [conn EXCEPT ![c] = to]

\* A client connects; the connection waits to be accepted.
ClientConnects(c) ==
    /\ listening
    /\ Move(c, "absent", "backlog")
    /\ UNCHANGED <<maintVars, runtimeVars, stranded, udpRefused, cbVars, tallyVars>>

\* Accept returns; the loop holds one connection at a time.
Accept(c) ==
    /\ \A d \in Conns : conn[d] \notin AtAcceptor
    /\ Move(c, "backlog", "gate")
    /\ UNCHANGED <<maintVars, runtimeVars, stranded, udpRefused, cbVars, tallyVars>>

\* DropIfDisconnected loads the gate.
CheckGate(c) ==
    /\ Move(c, "gate", IF tunnelUp THEN "admitted" ELSE "refused")
    /\ freshDemand' = (freshDemand \/ ~tunnelUp)
    /\ UNCHANGED <<maintVars, runtimeVars, stranded, udpRefused, cbVars, crashes>>

\* Mutant: a refused client is dropped without SignalDemand.
BugSilentDrop(c) ==
    /\ Move(c, "refused", "absent")
    /\ UNCHANGED <<maintVars, runtimeVars, stranded, udpRefused, cbVars, tallyVars>>

\* DropIfDisconnected saw the gate down: it signals demand and closes.
DropRefused(c) ==
    /\ Move(c, "refused", "absent")
    /\ SignalDemand
    /\ UNCHANGED <<maintVars, tunnelUp, activeConns, fileVars, stranded,
                   udpRefused, cbVars, tallyVars>>

\* The accept loop tracks the connection and starts ServeConn.
Admit(c) ==
    /\ Move(c, "admitted", "serving")
    /\ TrackConn(c)
    /\ UNCHANGED <<maintVars, tunnelUp, demand, fileVars, stranded, udpRefused,
                   cbVars, tallyVars>>

-----------------------------------------------------------------------------
(* ServeConn: negotiation, then CONNECT or UDP ASSOCIATE *)

\* CONNECT through the tunnel: DialContext loads the gate and, if it is up,
\* dials (if it is down ServeConn ends, see ServeEnds).
DialGate(c) ==
    /\ tunnelUp
    /\ Move(c, "serving", "dialing")
    /\ UNCHANGED <<maintVars, runtimeVars, stranded, udpRefused, cbVars, tallyVars>>

\* upstreamDial completes its handshake, which needs a live session.
DialSucceeds(c) ==
    /\ session = "live"
    /\ Move(c, "dialing", "relay")
    /\ UNCHANGED <<maintVars, runtimeVars, stranded, udpRefused, cbVars, tallyVars>>

\* The route policy chose the direct network (no gate), or the request is a UDP
\* ASSOCIATE, which opens its relay socket without asking the gate.
ServeOther(c, kind) ==
    /\ Move(c, "serving", kind)
    /\ UNCHANGED <<maintVars, runtimeVars, stranded, udpRefused, cbVars, tallyVars>>

\* A datagram of an association has a new destination: DialContext refuses it
\* while the gate is down, and the datagram is dropped.
DatagramRefused(c) ==
    /\ conn[c] = "assoc" /\ c \in activeConns
    /\ ~tunnelUp
    /\ udpRefused' = udpRefused \cup {c}
    /\ UNCHANGED <<maintVars, runtimeVars, conn, stranded, cbVars, tallyVars>>

\* ServeConn returns (a failed negotiation, a dial refused or failed, the end of
\* the relay, or a client connection closed under it) and closes the client.
ServeEnds(c) ==
    /\ conn[c] \in Served
    /\ conn' = [conn EXCEPT ![c] = "absent"]
    /\ CloseManaged(c)
    /\ sweep' = sweep \ {c}
    /\ stranded' = stranded \ {c}
    /\ udpRefused' = udpRefused \ {c}
    /\ UNCHANGED <<maintVars, tunnelUp, demand, fileVars, cb, listening, tallyVars>>

-----------------------------------------------------------------------------
\* The process is killed and started again; only the state file survives.
Crash ==
    /\ crashes < MaxCrashes
    /\ crashes' = crashes + 1
    /\ loop' = "top" /\ attempt' = 0 /\ session' = "none"
    /\ tunnelUp' = FALSE /\ demand' = FALSE /\ activeConns' = {}
    /\ conn' = [c \in Conns |-> "absent"]
    /\ stranded' = {} /\ udpRefused' = {}
    /\ cb' = "boot" /\ sweep' = {} /\ listening' = FALSE
    /\ freshDemand' = FALSE /\ writeFailed' = FALSE
    /\ UNCHANGED <<ctxDone, stateFile>>

LoopNext ==
    \/ NewSocksRuntime
    \/ LoopStep
    \/ CallbackSwap
    \/ CallbackPublish
    \/ OnConnectedEnds
    \/ SessionLost
    \/ ResetStarts
    \/ \E c \in Conns : ResetVisits(c)
    \/ OnDisconnectedEnds
    \/ WakeOnDemand

AcceptNext(c) == Accept(c) \/ CheckGate(c) \/ DropRefused(c) \/ Admit(c)

ClientNext(c) ==
    \/ ClientConnects(c)
    \/ DialGate(c)
    \/ DialSucceeds(c)
    \/ \E kind \in {"direct", "assoc"} : ServeOther(c, kind)
    \/ DatagramRefused(c)
    \/ ServeEnds(c)

Next ==
    \/ LoopNext
    \/ LoseSession
    \/ \E c \in Conns : AcceptNext(c) \/ ClientNext(c)
    \/ Crash

\* The loop's and the accept loop's goroutines keep running, except that nothing
\* bounds a handshake with the edge; a ServeConn whose client connection was
\* closed returns from its blocked read.
Fairness ==
    /\ WF_vars(loop # "connecting" /\ LoopNext)
    /\ \A c \in Conns :
        /\ WF_vars(AcceptNext(c))
        /\ WF_vars(c \notin activeConns /\ ServeEnds(c))

Spec == Init /\ [][Next]_vars

FairSpec == Spec /\ Fairness

-----------------------------------------------------------------------------
(* Properties *)

\* A tunnelled flow whose client connection is open.
OpenFlows == {c \in activeConns : conn[c] = "relay"}

\* An open flow belongs to the current session, unless the loop has not yet
\* finished noticing that the session is gone (OnDisconnected's sweep is still
\* to come or running): no client is left hanging on a flow whose edge state
\* died, whatever the order of accepts, dials, sweeps and reconnects.
NoFlowOutlivesItsSession ==
    OpenFlows \cap stranded # {} =>
        \/ session = "dead"
        \/ loop = "onDisconnected"

\* While the gate is down a demand token disappears only by waking the parked
\* loop (or with the process): drainDemand takes it only from an open gate.
DemandKeptWhileDown ==
    [][demand /\ ~tunnelUp /\ ~demand' => loop = "parked" \/ crashes' # crashes]_vars

\* The loop waits (for demand, for a backoff, for the operator) only with the
\* gate closed; were it open, no client would be refused and none would signal
\* the demand a parked loop waits for.
WaitsOnlyWithGateDown ==
    loop \in {"parked", "backoff", "paused", "connecting"} =>
        ~tunnelUp /\ session = "none"

\* Outside a transition and the start of the process the healthcheck's file
\* says what the gate says, provided that its last write succeeded: a file left
\* "up" by a killed process is never taken for this process's tunnel.
StateFileTellsTheGate ==
    cb \notin {"boot", "publish"} /\ ~writeFailed =>
        (stateFile = "up") = tunnelUp

\* The proxy implements the abstract promise about flows and sessions.
Flows == INSTANCE FlowSessions WITH link <- session = "live", open <- OpenFlows
FlowsRefined == Flows!AbsSpec

\* Whatever the accept loop, the clients and the callbacks do, the process runs
\* the reconnect loop of MaintainTunnel, from the start again after a crash.
LoopBetweenCrashes ==
    MaintInit /\ [][MaintNext \/ (crashes' # crashes /\ MaintInit')]_maintVars

\* A refused client is followed by a connection attempt or an open gate, unless
\* the loop gave up at MaxReconnectAttempts.
RefusalLeadsToAttempt ==
    \A c \in Conns :
        conn[c] = "refused" ~> loop \in {"connecting", "paused"} \/ tunnelUp

\* A client on a flow that lost its session has its connection closed.
StrandedClientsAreReset ==
    \A c \in Conns : c \in OpenFlows \cap stranded ~> c \notin activeConns

\* socks_runtime.go on ResetTrackedConns: "New connections cannot be tracked
\* while the tunnel is down".
NoTrackingWhileDown ==
    [][activeConns' \subseteq activeConns \/ tunnelUp]_vars

\* The same comment: "so this only ever closes genuinely-stranded flows"; a
\* flow on the direct network has no session to lose.
ResetSparesDirectFlows ==
    [][\A c \in Conns : ResetVisits(c) => conn[c] # "direct"]_vars

\* tunnel.go on AlwaysReconnect: a dropped tunnel "is NOT rebuilt until there is
\* fresh outbound demand".
RebuiltOnFreshDemand ==
    [][WakeOnDemand => freshDemand]_vars

\* tunnel.go on WaitForReconnectDemand: it blocks until "there is outbound demand
\* for the tunnel (a SOCKS client wanting to dial, or pending outbound
\* traffic)".  A datagram that DialContext refused is a client wanting to dial.
RefusedDatagramLeadsToAttempt ==
    \A c \in Conns :
        c \in udpRefused ~>
            \/ loop \in {"connecting", "paused"} \/ tunnelUp
            \/ conn[c] # "assoc"

=============================================================================
