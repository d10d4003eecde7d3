---------------------------- MODULE FlowSessions ----------------------------
(***************************************************************************)
(* What the SOCKS proxy promises its clients about tunnelled TCP flows,    *)
(* without gates, tokens, callbacks or sweeps.  The edge state of a flow   *)
(* lives in the session that carried its handshake, so a flow is opened    *)
(* only on a live link, and a link comes back only when no flow of the     *)
(* previous one is still open to its client.                               *)
(***************************************************************************)
CONSTANT Conns

VARIABLES
    link,   \* a session is alive
    open    \* tunnelled flows whose client connection is open

absVars == <<link, open>>

AbsInit == link = FALSE /\ open = {}

\* A flow is established over the live session.
OpenFlow(c) == link /\ open' = open \cup {c} /\ UNCHANGED link

\* A flow ends, for whatever reason.
CloseFlow(c) == open' = open \ {c} /\ UNCHANGED link

\* The session is lost under its flows.
LinkLost == link' = FALSE /\ UNCHANGED open

\* A new session: nothing is left of the old one.
LinkUp == open = {} /\ link' = TRUE /\ UNCHANGED open

\* The process is killed.
ProcessDies == link' = FALSE /\ open' = {}

AbsNext ==
    \/ \E c \in Conns : OpenFlow(c) \/ CloseFlow(c)
    \/ LinkLost
    \/ LinkUp
    \/ ProcessDies

AbsSpec == AbsInit /\ [][AbsNext]_absVars

=============================================================================
