---------------------------- MODULE L3UDPTunnel ----------------------------
(***************************************************************************)
(* The parallel UDP leg of L4 "mix" mode, cmd/l3_udp_tunnel.go: a second   *)
(* MaintainTunnel loop that starts with the first datagram, is always      *)
(* lazy, and is cancelled by cleanup.  Its clients are the UDP             *)
(* associations of cmd/socks_adapter.go, which dial once per destination   *)
(* and afterwards write to the upstream they keep.                         *)
(*                                                                         *)
(* A flow is one (association, destination) pair.                          *)
(***************************************************************************)
EXTENDS MaintainTunnel

CONSTANT Flows

ASSUME LazyAssumption == ~AlwaysReconnect   \* pinned by startL3UDPTunnel

VARIABLES
    up,        \* the leg's gate, an atomic.Bool
    demand,    \* the demand channel of capacity 1 holds a token
    started,   \* startOnce has fired
    draining,  \* OnConnected has set the gate and not yet drained the token
    flow,      \* what the association is doing for each flow
    lost       \* history: kept upstreams written to since the leg went down

legVars == <<up, demand, started, draining>>
udpLegVars == <<maintVars, legVars, flow, lost>>

\* "idle": no upstream; "gate", "refused", "dialing": inside DialUDP;
\* "kept": the association holds an upstream for the destination.
FlowStates == {"idle", "gate", "refused", "dialing", "kept"}

LegTypeOK ==
    /\ MaintTypeOK
    /\ up \in BOOLEAN /\ demand \in BOOLEAN
    /\ started \in BOOLEAN /\ draining \in BOOLEAN
    /\ flow \in [Flows -> FlowStates]
    /\ lost \subseteq Flows

LegInit ==
    /\ MaintInit
    /\ up = FALSE /\ demand = FALSE /\ started = FALSE /\ draining = FALSE
    /\ flow = [f \in Flows |-> "idle"]
    /\ lost = {}

-----------------------------------------------------------------------------
(* The association's side: forwardFromClient and DialUDP *)

MoveFlow(f, from, to) ==
    /\ flow[f] = from
    /\ flow' = [flow EXCEPT ![f] = to]

\* A datagram for a destination without an upstream: DialUDP, which first
\* starts the loop, once.
FirstDatagram(f) ==
    /\ MoveFlow(f, "idle", "gate")
    /\ started' = TRUE
    /\ UNCHANGED <<maintVars, up, demand, draining, lost>>

\* DialUDP loads the gate.
CheckGate(f) ==
    /\ MoveFlow(f, "gate", IF up THEN "dialing" ELSE "refused")
    /\ UNCHANGED <<maintVars, legVars, lost>>

\* Mutant: the dial is refused without waking the leg.
BugSilentRefusal(f) ==
    /\ MoveFlow(f, "refused", "idle")
    /\ UNCHANGED <<maintVars, legVars, lost>>

\* The gate was down: signal demand, drop the datagram.
RefuseDial(f) ==
    /\ MoveFlow(f, "refused", "idle")
    /\ demand' = TRUE
    /\ UNCHANGED <<maintVars, up, started, draining, lost>>

\* The netstack dial succeeds (UDP needs no handshake) and the association
\* keeps the upstream.
DialSucceeds(f) ==
    /\ MoveFlow(f, "dialing", "kept")
    /\ UNCHANGED <<maintVars, legVars, lost>>

\* The netstack dial fails: a leg that died meanwhile is woken.
DialFails(f) ==
    /\ MoveFlow(f, "dialing", IF up THEN "idle" ELSE "refused")
    /\ UNCHANGED <<maintVars, legVars, lost>>

\* A datagram for a destination whose upstream is kept goes into the netstack;
\* without a live session the forwarding pump discards it.
WriteKept(f) ==
    /\ flow[f] = "kept"
    /\ lost' = IF session = "live" THEN lost ELSE lost \cup {f}
    /\ UNCHANGED <<maintVars, legVars, flow>>

\* The upstream's read deadline passes or the association ends: the upstream is
\* removed.
DropUpstream(f) ==
    /\ MoveFlow(f, "kept", "idle")
    /\ lost' = lost \ {f}
    /\ UNCHANGED <<maintVars, legVars>>

-----------------------------------------------------------------------------
(* The loop's side *)

\* The steps of the loop that run no callback; it exists once started.
LoopStep ==
    /\ started
    /\ \/ StartAttempt \/ ConnectFails \/ ConnectSucceeds \/ BackoffElapses
       \/ ForwardingEnds \/ StopLoop
    /\ UNCHANGED <<legVars, flow, lost>>

LoseSession ==
    /\ SessionDies
    /\ UNCHANGED <<legVars, flow, lost>>

\* OnConnected: the gate goes up ...
OnConnectedUp ==
    /\ loop = "onConnected" /\ ~draining
    /\ up' = TRUE /\ draining' = TRUE
    /\ lost' = {}
    /\ UNCHANGED <<maintVars, demand, started, flow>>

\* ... and drainDemand takes what accumulated.
OnConnectedDrain ==
    /\ draining
    /\ draining' = FALSE /\ demand' = FALSE
    /\ OnConnectedReturns
    /\ UNCHANGED <<up, started, flow, lost>>

\* Mutant: OnDisconnected leaves the gate up.
BugGateStaysUp ==
    /\ OnDisconnectedReturns
    /\ UNCHANGED <<legVars, flow, lost>>

\* OnDisconnected lowers the gate and resets no upstream.
OnDisconnectedDown ==
    /\ up' = FALSE
    /\ OnDisconnectedReturns
    /\ UNCHANGED <<demand, started, draining, flow, lost>>

\* waitForReconnectDemand receives a token.
WakeOnDemand ==
    /\ demand /\ demand' = FALSE
    /\ DemandWakes
    /\ UNCHANGED <<up, started, draining, flow, lost>>

\* cleanup cancels the loop's context.
Cleanup ==
    /\ CancelContext
    /\ UNCHANGED <<legVars, flow, lost>>

LoopNext ==
    \/ LoopStep \/ OnConnectedUp \/ OnConnectedDrain \/ OnDisconnectedDown
    \/ WakeOnDemand

FlowNext(f) ==
    \/ CheckGate(f) \/ RefuseDial(f) \/ DialSucceeds(f) \/ DialFails(f)

LegNext ==
    \/ LoopNext
    \/ LoseSession
    \/ Cleanup
    \/ \E f \in Flows :
        FirstDatagram(f) \/ FlowNext(f) \/ WriteKept(f) \/ DropUpstream(f)

LegSpec == LegInit /\ [][LegNext]_udpLegVars

\* The loop's goroutine runs, but nothing bounds a handshake unless the context
\* is cancelled; a DialUDP call runs to its end.
LegFairness ==
    /\ WF_udpLegVars((loop # "connecting" \/ ctxDone) /\ LoopNext)
    /\ \A f \in Flows : WF_udpLegVars(FlowNext(f))

\* A client keeps sending and an upstream that hears nothing meets its read
\* deadline.
SenderFairness ==
    \A f \in Flows : WF_udpLegVars(FirstDatagram(f)) /\ WF_udpLegVars(f \in lost /\ DropUpstream(f))

LegFairSpec == LegSpec /\ LegFairness

-----------------------------------------------------------------------------
(* Properties *)

\* After cleanup a started loop stops and leaves the gate down.
CleanupStopsTheLoop ==
    ctxDone /\ started ~> [](loop = "stopped" /\ ~up)

\* A client that keeps sending on a kept upstream gets the leg back at the
\* latest when that upstream's read deadline has removed it.
SenderGetsLegBack ==
    SenderFairness => \A f \in Flows : f \in lost ~> loop \in {"connecting", "stopped"} \/ up

\* The gate is down whenever the loop waits, connects or has stopped: DialUDP
\* opens no upstream into a leg that has no forwarding goroutine to come.
GateOnlyAroundASession ==
    /\ up => loop \in {"onConnected", "forwarding", "onDisconnected"}
    /\ loop = "stopped" => ~up /\ ~draining /\ session = "none"

\* drainDemand runs beside the dials that signal demand: a token leaves the
\* channel only by waking the loop or with the gate already up, so a refused
\* dial is never forgotten by a leg that is down.
TokenKeptWhileDown ==
    [][demand /\ ~demand' => (up /\ up') \/ (loop = "parked" /\ loop' = "top")]_udpLegVars

\* l3_udp_tunnel.go on KeepAlivePeriod: "a >30s lull simply drops one datagram
\* and reconnects": a datagram lost while the leg is parked wakes it.
LostDatagramWakesLeg ==
    [][lost' # lost /\ ~(lost' \subseteq lost) /\ loop = "parked" => demand']_udpLegVars

=============================================================================
