---------------------------- MODULE SocksRuntime ----------------------------
(***************************************************************************)
(* The state shared by a transport and the SOCKS server,                   *)
(* cmd/socks_runtime.go: the tunnel gate, the demand token, the tracked    *)
(* client connections, and the healthcheck's state file that SetTunnelUp   *)
(* publishes (cmd/tunnel_health_state.go).                                 *)
(*                                                                         *)
(* The methods are action fragments: each constrains the primed value of   *)
(* the one piece of shared state it writes.                                *)
(***************************************************************************)
CONSTANT Conns   \* identities of client TCP connections

VARIABLES
    tunnelUp,     \* tunnelUp, an atomic.Bool
    demand,       \* the demand channel of capacity 1 holds a token
    activeConns,  \* activeConns, the set of tracked connections
    stateFile,    \* content of USCF_TUNNEL_STATE_FILE
    writeFailed   \* the last write of the state file failed (history)

runtimeVars == <<tunnelUp, demand, activeConns, stateFile, writeFailed>>
fileVars == <<stateFile, writeFailed>>

RuntimeTypeOK ==
    /\ tunnelUp \in BOOLEAN
    /\ demand \in BOOLEAN
    /\ activeConns \subseteq Conns
    /\ stateFile \in {"up", "down"}
    /\ writeFailed \in BOOLEAN

\* A previous run may have left "up" in the file.
RuntimeInit ==
    /\ tunnelUp = FALSE
    /\ demand = FALSE
    /\ activeConns = {}
    /\ stateFile \in {"up", "down"}
    /\ writeFailed = FALSE

-----------------------------------------------------------------------------
\* publishTunnelState: replaces the file by a rename, or fails, logs and leaves
\* the old content.
PublishTunnelState(up) ==
    \/ /\ stateFile' = IF up THEN "up" ELSE "down"
       /\ writeFailed' = FALSE
    \/ /\ writeFailed' = TRUE
       /\ UNCHANGED stateFile

\* Mutant: once up, the gate never goes down again.
BugGateSticks(up) == tunnelUp' = (tunnelUp \/ up)

\* SetTunnelUp, first half: the atomic Swap.  The caller publishes next, and
\* only if the value changed.
SwapTunnelUp(up) == tunnelUp' = up

\* SignalDemand: a send that does not block; a full channel keeps its token.
SignalDemand == demand' = TRUE

\* WaitForReconnectDemand: receives the token.
ReceiveDemand == demand /\ demand' = FALSE

\* drainDemand: a receive that does not block.
DrainDemand == demand' = FALSE

\* TrackConn: stores the wrapped connection.
TrackConn(c) == activeConns' = activeConns \cup {c}

\* managedConn.Close: closes once and deletes the connection from the map.
CloseManaged(c) == activeConns' = activeConns \ {c}

=============================================================================
