--------------------------- MODULE MaintainTunnel ---------------------------
(***************************************************************************)
(* The reconnect loop of api/tunnel.go: MaintainTunnel and the single      *)
(* connection it runs each time round, handleConnectionWithForwarding.     *)
(*                                                                         *)
(* The loop runs in one goroutine.  It calls back into its owner           *)
(* (OnConnected, OnDisconnected, WaitForReconnectDemand): while loop is    *)
(* "onConnected", "onDisconnected" or "parked" the owner's code is         *)
(* running, and the module that composes this one adds its effects to the  *)
(* actions below.                                                          *)
(***************************************************************************)
EXTENDS Naturals

CONSTANTS
    AlwaysReconnect,        \* ConnectionConfig.AlwaysReconnect
    MaxReconnectAttempts,   \* ConnectionConfig.MaxReconnectAttempts, 0 = no limit
    AttemptCap              \* bound: reconnectAttempt saturates here

\* Only the comparison with MaxReconnectAttempts reads the attempt counter,
\* so saturating it at a cap no smaller than that limit loses nothing.
ASSUME MaintainTunnelAssumption ==
    /\ AlwaysReconnect \in BOOLEAN
    /\ MaxReconnectAttempts \in Nat
    /\ AttemptCap \in Nat \ {0}
    /\ MaxReconnectAttempts <= AttemptCap

VARIABLES
    loop,      \* where the goroutine of MaintainTunnel is
    attempt,   \* reconnectAttempt
    session,   \* the MASQUE session: "none", "live", or "dead" and not yet noticed
    ctxDone    \* the context given to MaintainTunnel is cancelled

maintVars == <<loop, attempt, session, ctxDone>>

LoopStates ==
    {"top", "connecting", "onConnected", "forwarding", "onDisconnected",
     "parked", "paused", "backoff", "stopped"}

MaintTypeOK ==
    /\ loop \in LoopStates
    /\ attempt \in 0..AttemptCap
    /\ session \in {"none", "live", "dead"}
    /\ ctxDone \in BOOLEAN

MaintInit ==
    /\ loop = "top"
    /\ attempt = 0
    /\ session = "none"
    /\ ctxDone = FALSE

-----------------------------------------------------------------------------
\* The connect error paths return reconnectAttempt + 1.
NextAttempt(a) == IF a < AttemptCap THEN a + 1 ELSE a

\* Where MaintainTunnel goes once handleConnectionWithForwarding has returned
\* attempt number a and an error: an attempt of 0 means that an established
\* connection was lost.
AfterError(a) ==
    IF a = 0 /\ ~AlwaysReconnect THEN "parked"
    ELSE IF MaxReconnectAttempts > 0 /\ a >= MaxReconnectAttempts THEN "paused"
    ELSE "backoff"

\* The top of the for loop: the context is alive, call
\* handleConnectionWithForwarding.
StartAttempt ==
    /\ loop = "top" /\ ~ctxDone
    /\ loop' = "connecting"
    /\ UNCHANGED <<attempt, session, ctxDone>>

\* No endpoint, an endpoint of the wrong type, an error of the handshake, or a
\* response other than 200: each returns reconnectAttempt + 1.
ConnectFails ==
    /\ loop = "connecting"
    /\ attempt' = NextAttempt(attempt)
    /\ loop' = IF ctxDone THEN "stopped" ELSE AfterError(attempt')
    /\ UNCHANGED <<session, ctxDone>>

\* The edge answered 200; OnConnected is called from this goroutine.
ConnectSucceeds ==
    /\ loop = "connecting"
    /\ loop' = "onConnected"
    /\ session' = "live"
    /\ UNCHANGED <<attempt, ctxDone>>

\* OnConnected has returned; the forwarding goroutine starts and the loop waits
\* on it and on the context.
OnConnectedReturns ==
    /\ loop = "onConnected"
    /\ loop' = "forwarding"
    /\ UNCHANGED <<attempt, session, ctxDone>>

\* The path or the edge ends the session (idle eviction, reset, timeout).
SessionDies ==
    /\ session = "live"
    /\ session' = "dead"
    /\ UNCHANGED <<loop, attempt, ctxDone>>

\* The select of handleConnectionWithForwarding returns; the deferred calls
\* close the connection and then run OnDisconnected.
ForwardingEnds ==
    /\ loop = "forwarding"
    /\ session = "dead" \/ ctxDone
    /\ loop' = "onDisconnected"
    /\ session' = "none"
    /\ UNCHANGED <<attempt, ctxDone>>

\* OnDisconnected has returned, and handleConnectionWithForwarding returns 0.
OnDisconnectedReturns ==
    /\ loop = "onDisconnected"
    /\ attempt' = 0
    /\ loop' = IF ctxDone THEN "stopped" ELSE AfterError(0)
    /\ UNCHANGED <<session, ctxDone>>

\* WaitForReconnectDemand returned nil.
DemandWakes ==
    /\ loop = "parked"
    /\ loop' = "top"
    /\ UNCHANGED <<attempt, session, ctxDone>>

\* The backoff delay is over.
BackoffElapses ==
    /\ loop = "backoff"
    /\ loop' = "top"
    /\ UNCHANGED <<attempt, session, ctxDone>>

\* The owner cancels the context.
CancelContext ==
    /\ ~ctxDone
    /\ ctxDone' = TRUE
    /\ UNCHANGED <<loop, attempt, session>>

\* Every wait of the loop also selects on ctx.Done().
StopLoop ==
    /\ ctxDone
    /\ loop \in {"top", "parked", "paused", "backoff"}
    /\ loop' = "stopped"
    /\ UNCHANGED <<attempt, session, ctxDone>>

\* The loop on its own, its owner's callbacks returning at any time.
MaintNext ==
    \/ StartAttempt \/ ConnectFails \/ ConnectSucceeds \/ OnConnectedReturns
    \/ SessionDies \/ ForwardingEnds \/ OnDisconnectedReturns
    \/ DemandWakes \/ BackoffElapses \/ CancelContext \/ StopLoop

MaintSpec == MaintInit /\ [][MaintNext]_maintVars

-----------------------------------------------------------------------------
(* Properties *)

\* The loop waits for demand only after it has lost a connection and only when
\* it is lazy; it waits for the long pause only when its attempts are used up;
\* and it holds a session only while it calls OnConnected or forwards, so
\* never in a wait and never once MaintainTunnel has returned.
WaitsForAReason ==
    /\ loop = "parked" => ~AlwaysReconnect /\ attempt = 0
    /\ loop = "paused" => MaxReconnectAttempts > 0 /\ attempt >= MaxReconnectAttempts
    /\ session # "none" <=> loop \in {"onConnected", "forwarding"}

=============================================================================
