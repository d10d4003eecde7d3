------------------------- MODULE WireGuardTransport -------------------------
(***************************************************************************)
(* The in-process WireGuard transport, cmd/wg_transport.go: the device is  *)
(* brought up, the shared SOCKS runtime is opened, a watchdog              *)
(* (superviseWireGuard) polls the peer's counters, takes the gate down and *)
(* resets the clients when the session wedges, re-points the endpoint with *)
(* backoff, and the defers of runWireGuardTransport end it all.            *)
(*                                                                         *)
(* The counters are abstracted to whether they advanced since the last     *)
(* sample.  Durations are counted in polls.  The wireguard-go device, the  *)
(* WARP edge and the API that tells where the edge is are external; the    *)
(* device's Close is taken to close the TUN device it was given.           *)
(***************************************************************************)
EXTENDS Naturals, SocksRuntime

CONSTANTS
    Keepalive,   \* persistent keepalives are on (--wg-keepalive # 0), on both sides
    Window,      \* wedgeWindow, in polls
    MaxBackoff,  \* wgMaxRecoveryBackoff, in polls
    MaxMoves     \* bound: moves of the WARP edge

ASSUME WireGuardAssumption ==
    /\ Keepalive \in BOOLEAN
    /\ Window \in Nat \ {0}
    /\ MaxBackoff \in Nat \ {0}
    /\ MaxMoves \in Nat

VARIABLES
    server,        \* where runWireGuardTransport is
    tunClosed,     \* the netstack device's channels are closed
    sup,           \* where superviseWireGuard is
    down,          \* the watchdog's down
    sinceProgress, \* polls since lastProgress, capped at Window
    sinceAttempt,  \* polls since lastAttempt, capped at MaxBackoff
    backoff,       \* backoff
    stopped,       \* superCtx is cancelled
    cl,            \* where a client connection is
    sweep,         \* connections ResetTrackedConns still has to visit
    sent,          \* tx_bytes advanced since the last sample
    rcvd,          \* rx_bytes or the handshake time advanced since the last sample
    owed,          \* a packet has reached the edge and is not answered yet
    unanswered,    \* observer: polls since the oldest packet without an answer, plus 1
    endpoint,      \* the peer's endpoint in the device
    edge,          \* where the edge is
    edgeMoves      \* moves so far

supVars  == <<sup, down, sinceProgress, sinceAttempt, backoff>>
clVars   == <<cl, sweep>>
wireVars == <<sent, rcvd, owed, unanswered, endpoint>>
edgeVars == <<edge, edgeMoves>>
vars == <<runtimeVars, server, tunClosed, supVars, stopped, clVars, wireVars, edgeVars>>

Places == {"A", "B"}

TypeOK ==
    /\ RuntimeTypeOK
    /\ server \in {"profile", "device", "boot", "start", "startPublish", "listen", "serving",
                   "closing", "closePublish", "stop", "join", "finalPublish", "closeDevice",
                   "closeTun", "done", "panicked"}
    /\ tunClosed \in BOOLEAN
    /\ sup \in {"off", "select", "upPublish", "downPublish", "reset", "sweep",
                "backoff", "repoint", "done"}
    /\ down \in BOOLEAN
    /\ sinceProgress \in 0..Window
    /\ sinceAttempt \in 0..MaxBackoff
    /\ backoff \in 1..MaxBackoff
    /\ stopped \in BOOLEAN
    /\ cl \in [Conns -> {"out", "admitted", "tracked", "dialing", "flow"}]
    /\ sweep \subseteq Conns
    /\ sent \in BOOLEAN /\ rcvd \in BOOLEAN /\ owed \in BOOLEAN
    /\ unanswered \in 0..2
    /\ endpoint \in Places /\ edge \in Places
    /\ edgeMoves \in 0..MaxMoves

Init ==
    /\ RuntimeInit
    /\ server = "profile" /\ tunClosed = FALSE /\ sup = "off"
    /\ down = FALSE /\ sinceProgress = 0 /\ sinceAttempt = MaxBackoff /\ backoff = 1
    /\ stopped = FALSE
    /\ cl = [c \in Conns |-> "out"] /\ sweep = {}
    /\ sent = FALSE /\ rcvd = FALSE /\ owed = FALSE /\ unanswered = 0
    /\ endpoint = "A" /\ edge \in Places /\ edgeMoves = 0

Min2(a, b) == IF a < b THEN a ELSE b

-----------------------------------------------------------------------------
(* runWireGuardTransport *)

\* The source device is fetched, its profile checked and the TUN created, or
\* one of them fails and nothing is left to close.
BuildTUN ==
    /\ server = "profile"
    /\ server' \in {"device", "done"}
    /\ UNCHANGED <<runtimeVars, tunClosed, supVars, stopped, clVars, wireVars, edgeVars>>

\* StartWireGuardTunnel closes the device it could not configure or bring up.
\* The wait for the first handshake only delays: the transport serves anyway.
StartDevice ==
    /\ server = "device"
    /\ \/ server' = "boot" /\ UNCHANGED tunClosed
       \/ server' = "closeTun" /\ tunClosed' = TRUE
    /\ UNCHANGED <<runtimeVars, supVars, stopped, clVars, wireVars, edgeVars>>

\* prepareSocksRuntime refuses the route policy or a DNS server.
PrepareFails ==
    /\ server = "boot"
    /\ server' = "closeDevice"
    /\ UNCHANGED <<runtimeVars, tunClosed, supVars, stopped, clVars, wireVars, edgeVars>>

\* newSocksRuntime publishes "down".
NewSocksRuntime ==
    /\ server = "boot"
    /\ PublishTunnelState(FALSE)
    /\ server' = "start"
    /\ UNCHANGED <<tunnelUp, demand, activeConns, supVars, stopped, clVars, wireVars, edgeVars, tunClosed>>

\* SetTunnelUp(true) ...
StartUp ==
    /\ server = "start"
    /\ SwapTunnelUp(TRUE)
    /\ server' = "startPublish"
    /\ UNCHANGED <<demand, activeConns, fileVars, supVars, stopped, clVars, wireVars, edgeVars, tunClosed>>

\* ... and the watchdog starts.
StartPublish ==
    /\ server = "startPublish"
    /\ PublishTunnelState(TRUE)
    /\ server' = "listen" /\ sup' = "select"
    /\ UNCHANGED <<tunnelUp, demand, activeConns, down, sinceProgress, sinceAttempt, backoff,
                   stopped, clVars, wireVars, edgeVars, tunClosed>>

\* runSocksServer: Listen may fail, before its own defer is in place; Accept
\* reports a closed listener.
Listen ==
    /\ server = "listen"
    /\ server' \in {"serving", "stop"}
    /\ UNCHANGED <<runtimeVars, supVars, stopped, clVars, wireVars, edgeVars, tunClosed>>

ListenerClosed ==
    /\ server = "serving" /\ \A c \in Conns : cl[c] # "admitted"
    /\ server' = "closing"
    /\ UNCHANGED <<runtimeVars, supVars, stopped, clVars, wireVars, edgeVars, tunClosed>>

\* The deferred SetTunnelUp(false) of runSocksServer, in its two halves.
ServerSwapsDown ==
    /\ server = "closing"
    /\ SwapTunnelUp(FALSE)
    /\ server' = IF tunnelUp THEN "closePublish" ELSE "stop"
    /\ UNCHANGED <<demand, activeConns, fileVars, supVars, stopped, clVars, wireVars, edgeVars, tunClosed>>

ServerPublishesDown ==
    /\ server = "closePublish"
    /\ PublishTunnelState(FALSE)
    /\ server' = "stop"
    /\ UNCHANGED <<tunnelUp, demand, activeConns, supVars, stopped, clVars, wireVars, edgeVars, tunClosed>>

\* Mutant: the watchdog's context is not cancelled.
BugNoCancel ==
    /\ server = "stop"
    /\ server' = "join"
    /\ UNCHANGED <<stopped, runtimeVars, supVars, clVars, wireVars, edgeVars, tunClosed>>

\* stopSupervisor().
StopSupervisor ==
    /\ server = "stop"
    /\ stopped' = TRUE
    /\ server' = "join"
    /\ UNCHANGED <<runtimeVars, supVars, clVars, wireVars, edgeVars, tunClosed>>

\* Mutant: the watchdog is told to stop and not waited for.
BugNoJoin ==
    /\ server = "join"
    /\ SwapTunnelUp(FALSE)
    /\ server' = IF tunnelUp THEN "finalPublish" ELSE "closeDevice"
    /\ UNCHANGED <<demand, activeConns, fileVars, supVars, stopped, clVars, wireVars, edgeVars, tunClosed>>

\* <-supervisorDone; SetTunnelUp(false).
JoinSupervisor ==
    /\ server = "join" /\ sup = "done"
    /\ SwapTunnelUp(FALSE)
    /\ server' = IF tunnelUp THEN "finalPublish" ELSE "closeDevice"
    /\ UNCHANGED <<demand, activeConns, fileVars, supVars, stopped, clVars, wireVars, edgeVars, tunClosed>>

FinalPublish ==
    /\ server = "finalPublish"
    /\ PublishTunnelState(FALSE)
    /\ server' = "closeDevice"
    /\ UNCHANGED <<tunnelUp, demand, activeConns, supVars, stopped, clVars, wireVars, edgeVars, tunClosed>>

\* The deferred wgDev.Close(), which closes the TUN device.
CloseDevice ==
    /\ server = "closeDevice"
    /\ server' = "closeTun" /\ tunClosed' = TRUE
    /\ UNCHANGED <<runtimeVars, supVars, stopped, clVars, wireVars, edgeVars>>

\* The deferred tunDev.Close(): closing a closed channel panics.
CloseTun ==
    /\ server = "closeTun"
    /\ server' = IF tunClosed THEN "panicked" ELSE "done"
    /\ tunClosed' = TRUE
    /\ UNCHANGED <<runtimeVars, supVars, stopped, clVars, wireVars, edgeVars>>

-----------------------------------------------------------------------------
(* superviseWireGuard *)

\* wgWedged(sent, since, window).
Wedged(since) == sent /\ since >= Window

\* A tick of the ticker: time passes, and the counters are sampled.
TickPasses ==
    /\ sup = "select"
    /\ sinceAttempt' = Min2(sinceAttempt + 1, MaxBackoff)
    /\ unanswered' = IF unanswered = 1 THEN 2 ELSE unanswered

\* readWGHealth failed: the tick is skipped and the previous sample is kept.
PollFails ==
    /\ TickPasses
    /\ sinceProgress' = Min2(sinceProgress + 1, Window)
    /\ UNCHANGED <<runtimeVars, server, sup, down, backoff, stopped, clVars, sent, rcvd, owed,
                   endpoint, edgeVars, tunClosed>>

\* Mutant: the watchdog forgets to open the gate when traffic resumes.
BugRecoversSilently ==
    /\ TickPasses /\ rcvd
    /\ sinceProgress' = 0
    /\ down' = FALSE /\ backoff' = 1
    /\ sent' = FALSE /\ rcvd' = FALSE
    /\ UNCHANGED <<runtimeVars, sup, server, stopped, clVars, owed, endpoint, edgeVars, tunClosed>>

\* Receive progress: a wedge is over, SetTunnelUp(true).
PollProgressed ==
    /\ TickPasses /\ rcvd
    /\ sinceProgress' = 0
    /\ down' = FALSE
    /\ IF down THEN /\ backoff' = 1
                    /\ SwapTunnelUp(TRUE)
                    /\ sup' = IF tunnelUp THEN "select" ELSE "upPublish"
               ELSE UNCHANGED <<backoff, tunnelUp, sup>>
    /\ sent' = FALSE /\ rcvd' = FALSE
    /\ UNCHANGED <<demand, activeConns, fileVars, server, stopped, clVars, owed, endpoint, edgeVars, tunClosed>>

PublishUp ==
    /\ sup = "upPublish"
    /\ PublishTunnelState(TRUE)
    /\ sup' = "select"
    /\ UNCHANGED <<tunnelUp, demand, activeConns, server, down, sinceProgress, sinceAttempt,
                   backoff, stopped, clVars, wireVars, edgeVars, tunClosed>>

\* No progress: nothing unless the sample is a wedge, which at first takes the
\* gate down, SetTunnelUp(false).
PollStalled ==
    /\ TickPasses /\ ~rcvd
    /\ sinceProgress' = Min2(sinceProgress + 1, Window)
    /\ sent' = FALSE
    /\ \/ ~Wedged(sinceProgress + 1) /\ UNCHANGED <<down, tunnelUp, sup>>
       \/ Wedged(sinceProgress + 1) /\ down /\ sup' = "backoff" /\ UNCHANGED <<down, tunnelUp>>
       \/ /\ Wedged(sinceProgress + 1) /\ ~down
          /\ down' = TRUE
          /\ SwapTunnelUp(FALSE)
          /\ sup' = IF tunnelUp THEN "downPublish" ELSE "reset"
    /\ UNCHANGED <<demand, activeConns, fileVars, server, backoff, stopped, clVars, rcvd, owed,
                   endpoint, edgeVars, tunClosed>>

PublishDown ==
    /\ sup = "downPublish"
    /\ PublishTunnelState(FALSE)
    /\ sup' = "reset"
    /\ UNCHANGED <<tunnelUp, demand, activeConns, server, down, sinceProgress, sinceAttempt,
                   backoff, stopped, clVars, wireVars, edgeVars, tunClosed>>

\* Mutant: the wedged session's clients are left alone.
BugNoReset ==
    /\ sup = "reset" /\ sup' = "sweep"
    /\ sweep' = {}
    /\ UNCHANGED <<runtimeVars, cl, server, down, sinceProgress, sinceAttempt, backoff,
                   stopped, wireVars, edgeVars, tunClosed>>

\* ResetTrackedConns: Range starts.  It visits every key present throughout; a
\* key stored meanwhile it may or may not visit.
ResetStarts ==
    /\ sup = "reset" /\ sup' = "sweep"
    /\ sweep' = activeConns
    /\ UNCHANGED <<runtimeVars, cl, server, down, sinceProgress, sinceAttempt, backoff,
                   stopped, wireVars, edgeVars, tunClosed>>

\* Range visits c and closes it.  Only the connection is closed: a dial of c
\* has context.Background() and goes on.
ResetVisits(c) ==
    /\ sup = "sweep"
    /\ c \in activeConns
    /\ CloseManaged(c)
    /\ sweep' = sweep \ {c}
    /\ UNCHANGED <<tunnelUp, demand, fileVars, cl, server, supVars, stopped, wireVars, edgeVars,
                   tunClosed>>

ResetEnds ==
    /\ sup = "sweep" /\ sup' = "backoff"
    /\ sweep = {}
    /\ UNCHANGED <<runtimeVars, clVars, server, down, sinceProgress, sinceAttempt, backoff,
                   stopped, wireVars, edgeVars, tunClosed>>

\* time.Since(lastAttempt) < backoff.
TestBackoff ==
    /\ sup = "backoff"
    /\ sup' = IF sinceAttempt < backoff THEN "select" ELSE "repoint"
    /\ sinceAttempt' = IF sinceAttempt < backoff THEN sinceAttempt ELSE 0
    /\ UNCHANGED <<runtimeVars, server, down, sinceProgress, backoff, stopped, clVars, wireVars, edgeVars, tunClosed>>

\* nextWGBackoff.
NextBackoff == Min2(2 * backoff, MaxBackoff)

\* What a packet sent to the endpoint does to the counters.
SendPacket(to) ==
    /\ sent' = TRUE
    /\ owed' = (owed \/ to = edge)
    /\ unanswered' = IF unanswered = 0 THEN 1 ELSE unanswered

\* Mutant: the update is built from the endpoint that the device already has.
BugRepointsOld ==
    /\ sup = "repoint"
    /\ SendPacket(endpoint) \/ UNCHANGED <<sent, owed, unanswered>>
    /\ backoff' = NextBackoff
    /\ sup' = "select"
    /\ UNCHANGED <<endpoint, runtimeVars, server, down, sinceProgress, sinceAttempt, stopped, clVars,
                   rcvd, edgeVars, tunClosed>>

\* repointWireGuardEndpoint returns, if it does, then a nudge, which the device sends only if it
\* still has a session key.
RepointOk ==
    /\ sup = "repoint"
    /\ endpoint' = edge
    /\ SendPacket(edge) \/ UNCHANGED <<sent, owed, unanswered>>
    /\ backoff' = NextBackoff
    /\ sup' = "select"
    /\ UNCHANGED <<runtimeVars, server, down, sinceProgress, sinceAttempt, stopped, clVars, rcvd, edgeVars, tunClosed>>

RepointFails ==
    /\ sup = "repoint"
    /\ backoff' = NextBackoff
    /\ sup' = "select"
    /\ UNCHANGED <<runtimeVars, server, down, sinceProgress, sinceAttempt, stopped, clVars, wireVars, edgeVars, tunClosed>>

SupervisorReturns ==
    /\ sup = "select" /\ stopped
    /\ sup' = "done"
    /\ UNCHANGED <<runtimeVars, server, down, sinceProgress, sinceAttempt, backoff, stopped, clVars,
                   wireVars, edgeVars, tunClosed>>

-----------------------------------------------------------------------------
(* Clients of the SOCKS server *)

\* The accept loop takes one connection at a time.
Accepting == server = "serving" /\ \A c \in Conns : cl[c] # "admitted"

\* DropIfDisconnected lets the client pass ...
Admit(c) ==
    /\ Accepting /\ cl[c] = "out" /\ tunnelUp
    /\ cl' = [cl EXCEPT ![c] = "admitted"]
    /\ UNCHANGED <<runtimeVars, sweep, server, supVars, stopped, wireVars, edgeVars, tunClosed>>

\* ... or closes it.
Drop(c) ==
    /\ Accepting /\ cl[c] = "out" /\ ~tunnelUp
    /\ SignalDemand
    /\ UNCHANGED <<tunnelUp, activeConns, fileVars, server, supVars, stopped, clVars, wireVars, edgeVars, tunClosed>>

Track(c) ==
    /\ cl[c] = "admitted"
    /\ TrackConn(c)
    /\ cl' = [cl EXCEPT ![c] = "tracked"]
    /\ UNCHANGED <<tunnelUp, demand, fileVars, sweep, server, supVars, stopped, wireVars, edgeVars, tunClosed>>

\* ServeConn has read the request; DialContext finds the gate up and dials, also
\* for a client that was closed meanwhile (if it is down ServeConn ends).
Dial(c) ==
    /\ cl[c] = "tracked" /\ tunnelUp
    /\ cl' = [cl EXCEPT ![c] = "dialing"]
    /\ UNCHANGED <<runtimeVars, sweep, server, supVars, stopped, wireVars, edgeVars, tunClosed>>

DialSucceeds(c) ==
    /\ cl[c] = "dialing"
    /\ cl' = [cl EXCEPT ![c] = "flow"]
    /\ UNCHANGED <<runtimeVars, sweep, server, supVars, stopped, wireVars, edgeVars, tunClosed>>

\* ServeConn returns (a failed negotiation, a dial refused, failed or timed out,
\* the end of the relay, a connection closed under it) and closes the client.
ServeEnds(c) ==
    /\ cl[c] \in {"tracked", "dialing", "flow"}
    /\ cl' = [cl EXCEPT ![c] = "out"]
    /\ CloseManaged(c)
    /\ sweep' = sweep \ {c}
    /\ UNCHANGED <<tunnelUp, demand, fileVars, server, supVars, stopped, wireVars, edgeVars, tunClosed>>

-----------------------------------------------------------------------------
(* The device and the edge *)

\* A client's traffic, or the device's own handshakes, which it gives up after
\* a while.
DeviceSends ==
    /\ \/ \E c \in Conns : cl[c] \in {"dialing", "flow"}
       \/ unanswered # 0
    /\ SendPacket(endpoint)
    /\ UNCHANGED <<runtimeVars, server, supVars, stopped, clVars, rcvd, endpoint, edgeVars, tunClosed>>

KeepaliveSends ==
    /\ Keepalive /\ ~sent
    /\ SendPacket(endpoint)
    /\ UNCHANGED <<runtimeVars, server, supVars, stopped, clVars, rcvd, endpoint, edgeVars, tunClosed>>

\* The edge answers, or sends a keepalive of its own.
PeerSends ==
    /\ endpoint = edge /\ (owed \/ Keepalive) /\ ~rcvd
    /\ rcvd' = TRUE /\ owed' = FALSE /\ unanswered' = 0
    /\ UNCHANGED <<runtimeVars, server, supVars, stopped, clVars, sent, endpoint, edgeVars, tunClosed>>

EdgeMoves ==
    /\ edgeMoves < MaxMoves
    /\ edge' \in Places \ {edge}
    /\ edgeMoves' = edgeMoves + 1
    /\ owed' = FALSE
    /\ UNCHANGED <<runtimeVars, server, supVars, stopped, clVars, sent, rcvd, unanswered, endpoint, tunClosed>>

-----------------------------------------------------------------------------
ServerStep ==
    \/ BuildTUN \/ StartDevice \/ PrepareFails \/ NewSocksRuntime
    \/ StartUp \/ StartPublish \/ Listen
    \/ ServerSwapsDown \/ ServerPublishesDown \/ StopSupervisor \/ JoinSupervisor \/ FinalPublish
    \/ CloseDevice \/ CloseTun

Poll == PollFails \/ PollProgressed \/ PollStalled

\* What the watchdog does by itself after a poll.
SupStep ==
    \/ PublishUp \/ PublishDown
    \/ ResetStarts \/ (\E c \in Conns : ResetVisits(c)) \/ ResetEnds
    \/ TestBackoff

\* The request of a re-point returns.
Repoint == RepointOk \/ RepointFails

ClientStep(c) ==
    Admit(c) \/ Drop(c) \/ Track(c) \/ Dial(c) \/ DialSucceeds(c) \/ ServeEnds(c)

Next ==
    \/ ServerStep \/ ListenerClosed
    \/ Poll \/ SupStep \/ Repoint \/ SupervisorReturns
    \/ \E c \in Conns : ClientStep(c)
    \/ DeviceSends \/ KeepaliveSends \/ PeerSends \/ EdgeMoves

\* Goroutines run; the ticker ticks and the sample is readable again and again;
\* a working path delivers; keepalives are sent.  Nothing is assumed of the API's
\* requests, which have neither a context nor a timeout: not of the one in
\* BuildTUN and not of Repoint.
Fairness ==
    /\ WF_vars(server # "profile" /\ ServerStep)
    /\ WF_vars(SupStep) /\ SF_vars(SupervisorReturns)
    /\ SF_vars(PollProgressed) /\ SF_vars(PollStalled)
    /\ WF_vars(KeepaliveSends) /\ WF_vars(PeerSends)

Spec == Init /\ [][Next]_vars /\ Fairness

-----------------------------------------------------------------------------
(* Properties *)

\* While the proxy serves and the watchdog is not in the middle of a
\* transition, the gate is closed exactly during what the watchdog takes for an
\* outage.
GateFollowsWatchdog ==
    server \in {"listen", "serving"} /\ sup = "select" => tunnelUp = ~down

\* Once ResetTrackedConns has dealt with a wedge no open client connection waits
\* for a dial over the dead session or is kept on one of its flows, not even one
\* that passed the accept loop's test before the gate was closed and is tracked
\* during or after the walk.  (The dial itself, of a client that was closed, may
\* still be running.)
NoFlowDuringOutage ==
    down /\ sup \in {"backoff", "repoint", "select"}
    => \A c \in activeConns : cl[c] \notin {"dialing", "flow"}

\* cmd/wg_transport.go on the deferred join: a recovery that is in flight when
\* the server stops leaves no claim of a tunnel that no longer exists.  From the
\* join on the gate is closed and no watchdog is left to open it.
NoLateRecovery ==
    server \in {"finalPublish", "closeDevice", "closeTun", "done", "panicked"}
    => ~tunnelUp /\ sup \in {"off", "done"}

\* If the API answers again and again, a wedged session is re-pointed until it
\* works again.
APIAnswers == SF_vars(RepointOk)
WedgeHeals ==
    APIAnswers => ((down /\ server = "serving") ~> (~down \/ server # "serving"))

\* If every request of a re-point returns, with whatever result, stopping the
\* server ends the watchdog wherever it is in a recovery, and the defers go on to
\* the device with the gate closed for good.
RequestsReturn == []<>(sup # "repoint")
ShutdownJoinsWatchdog ==
    RequestsReturn =>
        ((server = "closing") ~> (server = "closeDevice" /\ sup = "done" /\ [](~tunnelUp)))

\* cmd/wg_transport.go on superviseWireGuard: "It returns when ctx is
\* cancelled".
CancelEndsWatchdog == stopped ~> sup = "done"

\* The defers release each resource once.
TunClosedOnce == server # "panicked"

\* cmd/tunnel_health_state.go: writers are serialised "so the file always
\* reflects the last transition"; once the watchdog is joined and the last
\* SetTunnelUp(false) has returned, the last transition is "down".
FileShowsFinalState ==
    server = "closeDevice" /\ sup = "done" => stateFile = "down" \/ writeFailed

\* cmd/wg_transport.go: the signal is "robust against a healthy idle tunnel":
\* over a path that works no wedge is declared on packets sent since the last
\* poll alone.
IdleTunnelNeverWedged ==
    [][~down /\ down' => endpoint # edge \/ unanswered > 1]_vars
=============================================================================
