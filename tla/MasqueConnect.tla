--------------------------- MODULE MasqueConnect ---------------------------
(***************************************************************************)
(* What MaintainTunnel calls "a connection attempt": ConnectTunnel and     *)
(* connectTunnelHTTP3 of api/masque.go inside                              *)
(* handleConnectionWithForwarding of api/tunnel.go, up to its deferred     *)
(* calls.                                                                  *)
(*                                                                         *)
(* An attempt builds a stack of objects: over HTTP/3 a UDP socket, the     *)
(* QUIC connection on it and the connect-ip stream on that; over HTTP/2 a  *)
(* TCP connection and the stream.  Every step can fail, one failure is     *)
(* retried inside the attempt, and each way out has to give back what was  *)
(* built so far.  MaintainTunnel is the specification this one refines.    *)
(***************************************************************************)
EXTENDS Naturals

CONSTANTS
    AlwaysReconnect, MaxReconnectAttempts, AttemptCap   \* as in MaintainTunnel

ASSUME ConnectAssumption ==
    /\ AlwaysReconnect \in BOOLEAN
    /\ MaxReconnectAttempts \in Nat
    /\ AttemptCap \in Nat \ {0}
    /\ MaxReconnectAttempts <= AttemptCap

VARIABLES
    http2,      \* config.UseHTTP2; the endpoint's type follows it (selectMasqueEndpoint)
    pc,         \* where the goroutine of MaintainTunnel is
    tries,      \* failed rounds of ConnectTunnel's retry loop
    attempt,    \* reconnectAttempt
    open,       \* the objects that are open
    connected,  \* the variable of handleConnectionWithForwarding
    edge,       \* the established session: "none", "live" or "dead"
    ctxDone,    \* the context is cancelled
    failures    \* history: failed attempts since the last session

vars == <<http2, pc, tries, attempt, open, connected, edge, ctxDone, failures>>

Connecting == {"listen", "dial", "request", "status"}
Closing    == {"closeStream", "closeSocket", "closeTransport"}
Waiting    == {"top", "parked", "paused", "backoff", "stopped"}
Objects    == {"socket", "quic", "tcp", "stream"}

\* MaintainTunnel sees one step "connecting", and one "forwarding" that lasts
\* until the deferred calls have closed everything.
LoopState ==
    CASE pc \in Connecting -> "connecting"
      [] pc \in Closing    -> IF connected THEN "forwarding" ELSE "connecting"
      [] OTHER             -> pc
Loop == INSTANCE MaintainTunnel WITH loop <- LoopState, session <- edge

TypeOK ==
    /\ http2 \in BOOLEAN /\ connected \in BOOLEAN /\ ctxDone \in BOOLEAN
    /\ pc \in Connecting \cup Closing \cup Waiting \cup {"onConnected", "forwarding", "onDisconnected"}
    /\ tries \in 0..1
    /\ attempt \in 0..AttemptCap
    /\ open \subseteq Objects
    /\ edge \in {"none", "live", "dead"}
    /\ failures \in 0..AttemptCap

Init ==
    /\ http2 \in BOOLEAN
    /\ pc = "top" /\ tries = 0 /\ attempt = 0
    /\ open = {} /\ connected = FALSE /\ edge = "none"
    /\ ctxDone = FALSE /\ failures = 0

-----------------------------------------------------------------------------
(* The way out of a failed attempt *)

\* handleConnectionWithForwarding returns reconnectAttempt + 1.
ReturnFailed ==
    /\ attempt' = Loop!NextAttempt(attempt)
    /\ failures' = Loop!NextAttempt(failures)
    /\ pc' = IF ctxDone THEN "stopped" ELSE Loop!AfterError(attempt')
    /\ tries' = 0

\* Mutant: the second round counts as another attempt.
BugRetryCounted(retryable) ==
    \/ /\ retryable /\ tries = 0
       /\ pc' = "listen" /\ tries' = 1
       /\ attempt' = Loop!NextAttempt(attempt)
       /\ UNCHANGED failures
    \/ /\ ~retryable \/ tries = 1
       /\ ReturnFailed

\* The loop of ConnectTunnel: an error that isRetryableHTTP3ConnectFailure
\* accepts starts a second round, once; "access denied" and all others return.
RoundFails(retryable) ==
    \/ /\ retryable /\ tries = 0
       /\ pc' = "listen" /\ tries' = 1
       /\ UNCHANGED <<attempt, failures>>
    \/ /\ ~retryable \/ tries = 1
       /\ ReturnFailed

-----------------------------------------------------------------------------
(* ConnectTunnel and connectTunnelHTTP3 *)

StartAttempt ==
    /\ pc = "top" /\ ~ctxDone
    /\ pc' = IF http2 THEN "request" ELSE "listen"
    /\ UNCHANGED <<http2, tries, attempt, open, connected, edge, ctxDone, failures>>

\* net.ListenUDP.
ListenUDP ==
    /\ pc = "listen"
    /\ \/ pc' = "dial" /\ open' = open \cup {"socket"} /\ UNCHANGED <<tries, attempt, failures>>
       \/ RoundFails(FALSE) /\ UNCHANGED open
    /\ UNCHANGED <<http2, connected, edge, ctxDone>>

\* quic.Dial.
DialQUIC ==
    /\ pc = "dial"
    /\ \/ pc' = "request" /\ open' = open \cup {"quic"} /\ UNCHANGED <<tries, attempt, failures>>
       \/ RoundFails(FALSE) /\ open' = open \ {"socket"}
    /\ UNCHANGED <<http2, connected, edge, ctxDone>>

\* Mutant: the caller is relied on to close the socket.
BugSocketKept ==
    /\ pc = "request" /\ ~http2
    /\ \/ pc' = "status" /\ open' = open \cup {"stream"} /\ UNCHANGED <<tries, attempt, failures>>
       \/ /\ \E retryable \in BOOLEAN : RoundFails(retryable)
          /\ open' = open \ {"quic"}
    /\ UNCHANGED <<http2, connected, edge, ctxDone>>

\* connectip.Dial: the edge may abort the first response with a
\* PROTOCOL_VIOLATION, the failure that is retried.
RequestH3 ==
    /\ pc = "request" /\ ~http2
    /\ \/ pc' = "status" /\ open' = open \cup {"stream"} /\ UNCHANGED <<tries, attempt, failures>>
       \/ /\ \E retryable \in BOOLEAN : RoundFails(retryable)
          /\ open' = open \ {"quic", "socket"}
    /\ UNCHANGED <<http2, connected, edge, ctxDone>>

\* CloseIdleConnections closes a connection that carries no stream.
CloseIdle(objects) == IF "stream" \in objects THEN objects ELSE objects \ {"tcp"}

\* connectip.DialH2 dials and asks; after an error closer.Close() finds the
\* connection, if it got that far, without a stream.
RequestH2 ==
    /\ pc = "request" /\ http2
    /\ \/ /\ pc' = "status" /\ open' = open \cup {"tcp", "stream"}
          /\ UNCHANGED <<tries, attempt, failures>>
       \/ /\ RoundFails(FALSE)
          /\ \E dialled \in SUBSET {"tcp"} : open' = CloseIdle(open \cup dialled)
    /\ UNCHANGED <<http2, connected, edge, ctxDone>>

-----------------------------------------------------------------------------
(* handleConnectionWithForwarding *)

\* rsp.StatusCode: from here on the deferred calls close what was built.
CheckStatus ==
    /\ pc = "status"
    /\ \/ /\ pc' = "onConnected" /\ connected' = TRUE /\ edge' = "live"
          /\ failures' = 0
       \/ /\ pc' = "closeStream"
          /\ UNCHANGED <<connected, edge, failures>>
    /\ tries' = 0
    /\ UNCHANGED <<http2, attempt, open, ctxDone>>

OnConnectedReturns ==
    /\ pc = "onConnected"
    /\ pc' = "forwarding"
    /\ UNCHANGED <<http2, tries, attempt, open, connected, edge, ctxDone, failures>>

\* The session is lost at the edge or on the path.
EdgeDies ==
    /\ edge = "live"
    /\ edge' = "dead"
    /\ UNCHANGED <<http2, pc, tries, attempt, open, connected, ctxDone, failures>>

\* The select: handleForwarding reported the loss, or the context is done.
ForwardingEnds ==
    /\ pc = "forwarding"
    /\ edge = "dead" \/ ctxDone
    /\ pc' = "closeStream"
    /\ UNCHANGED <<http2, tries, attempt, open, connected, edge, ctxDone, failures>>

\* ipConn.Close().
CloseStream ==
    /\ pc = "closeStream"
    /\ open' = open \ {"stream"}
    /\ pc' = "closeSocket"
    /\ UNCHANGED <<http2, tries, attempt, connected, edge, ctxDone, failures>>

\* udpConn.Close(), nil over HTTP/2: quic-go gives up a connection whose socket
\* is gone.
CloseSocket ==
    /\ pc = "closeSocket"
    /\ open' = IF http2 THEN open ELSE open \ {"socket", "quic"}
    /\ pc' = "closeTransport"
    /\ UNCHANGED <<http2, tries, attempt, connected, edge, ctxDone, failures>>

\* tr.Close(): the HTTP/3 transport did not dial the QUIC connection and leaves
\* it alone, the HTTP/2 closer closes idle connections.  It is the last of the
\* deferred calls but OnDisconnected, which runs for an established session only.
CloseTransport ==
    /\ pc = "closeTransport"
    /\ open' = IF http2 THEN CloseIdle(open) ELSE open
    /\ IF connected
       THEN /\ pc' = "onDisconnected" /\ edge' = "none"
            /\ UNCHANGED <<tries, attempt, failures>>
       ELSE /\ ReturnFailed /\ UNCHANGED edge
    /\ UNCHANGED <<http2, connected, ctxDone>>

\* Mutant: a lost session does not restart the count.
BugAttemptNotReset ==
    /\ pc = "onDisconnected"
    /\ connected' = FALSE
    /\ pc' = IF ctxDone THEN "stopped" ELSE Loop!AfterError(0)
    /\ UNCHANGED <<http2, tries, attempt, open, edge, ctxDone, failures>>

\* OnDisconnected has returned, and handleConnectionWithForwarding returns 0.
OnDisconnectedReturns ==
    /\ pc = "onDisconnected"
    /\ attempt' = 0 /\ connected' = FALSE
    /\ pc' = IF ctxDone THEN "stopped" ELSE Loop!AfterError(0)
    /\ UNCHANGED <<http2, tries, open, edge, ctxDone, failures>>

-----------------------------------------------------------------------------
(* MaintainTunnel between attempts *)

\* WaitForReconnectDemand returns, or the backoff delay is over.
NextRound ==
    /\ pc \in {"parked", "backoff"}
    /\ pc' = "top"
    /\ UNCHANGED <<http2, tries, attempt, open, connected, edge, ctxDone, failures>>

CancelContext ==
    /\ ~ctxDone
    /\ ctxDone' = TRUE
    /\ UNCHANGED <<http2, pc, tries, attempt, open, connected, edge, failures>>

\* Mutant: the pause at the limit does not watch the context.
BugPausedForEver ==
    /\ ctxDone
    /\ pc \in {"top", "parked", "backoff"}
    /\ pc' = "stopped"
    /\ UNCHANGED <<http2, tries, attempt, open, connected, edge, ctxDone, failures>>

StopLoop ==
    /\ ctxDone
    /\ pc \in {"top", "parked", "paused", "backoff"}
    /\ pc' = "stopped"
    /\ UNCHANGED <<http2, tries, attempt, open, connected, edge, ctxDone, failures>>

LoopNext ==
    \/ StartAttempt \/ ListenUDP \/ DialQUIC \/ RequestH3 \/ RequestH2
    \/ CheckStatus \/ OnConnectedReturns \/ ForwardingEnds
    \/ CloseStream \/ CloseSocket \/ CloseTransport \/ OnDisconnectedReturns
    \/ NextRound \/ StopLoop

Next == LoopNext \/ EdgeDies \/ CancelContext

Spec == Init /\ [][Next]_vars

\* The goroutine runs.  The edge need not answer, except that the calls that
\* wait for it return once their context is cancelled.
FairSpec == Spec /\ WF_vars((pc \notin {"dial", "request"} \/ ctxDone) /\ LoopNext)

-----------------------------------------------------------------------------
(* Properties *)

\* "A failed attempt never leaks a socket": on every path out of an attempt, at
\* whichever step it failed, after the inner retry and after a lost session,
\* nothing is open when the loop goes on, and a retry starts from nothing.
NothingHeldBetweenAttempts ==
    pc \in Waiting \cup {"listen", "onDisconnected"} => open = {}

\* The loop gives up only after MaxReconnectAttempts attempts failed since the
\* last session, the rounds inside ConnectTunnel not being counted.
PausesOnlyAfterFailuresInARow ==
    pc = "paused" => MaxReconnectAttempts > 0 /\ failures >= MaxReconnectAttempts

\* The attempt is what MaintainTunnel takes it for: retries and deferred calls
\* are invisible to it.
AttemptRefined == Loop!MaintSpec

\* Cancelling the context ends the loop wherever it is, with everything closed.
CancelEndsTheAttempt == ctxDone ~> [](pc = "stopped" /\ open = {})

=============================================================================
