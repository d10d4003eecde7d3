--------------------------- MODULE UDPAssociation ---------------------------
(***************************************************************************)
(* SOCKS5 UDP ASSOCIATE, from cmd/socks_adapter.go.                        *)
(*                                                                         *)
(* Each association is served by one goroutine that reads the client's     *)
(* datagrams and dials an upstream socket for every new destination, one   *)
(* goroutine per upstream that relays the answers, and one watcher of the  *)
(* TCP control connection.  Whichever of them (or the idle reaper) calls   *)
(* close() first tears the association down while the others are still     *)
(* running.  All associations share the udpSem semaphore, which bounds the *)
(* upstream sockets of the process; countedConn pairs every socket with    *)
(* one slot of it.                                                         *)
(***************************************************************************)
EXTENDS Integers, FiniteSets

CONSTANTS
    Assocs,         \* associations (one per control connection)
    Dsts,           \* destinations a client sends datagrams to
    Ups,            \* upstream socket objects; reused once nobody holds them
    None,           \* no socket, no destination
    MaxUpstreams    \* maxConcurrentUDPUpstreams, the capacity of udpSem

ASSUME UDPAssumption ==
    /\ None \notin Ups \cup Dsts \cup (Assocs \X Dsts)
    /\ IsFiniteSet(Ups) /\ IsFiniteSet(Assocs)
    /\ MaxUpstreams \in Nat \ {0}

VARIABLES
    slots,      \* tokens in udpSem
    closed,     \* udpAssociation.closed
    control,    \* the TCP control connection: "open", or "gone" (EOF, reset, closed)
    relay,      \* the relay socket is open
    upstreams,  \* udpAssociation.upstreams
    reader,     \* the goroutine of handleAssociate: its place, destination, socket
    closer,     \* the goroutine inside close() past its critical section
    toClose,    \* the sockets close() collected and has not yet closed
    sock,       \* "unused", "open", "shut", or "released" (its slot is given back)
    home,       \* the association and destination a socket was dialled for
    relayer     \* relayFromUpstream of the socket: its place

vars == <<slots, closed, control, relay, upstreams, reader, closer, toClose,
          sock, home, relayer>>

assocVars == <<closed, control, relay, closer, toClose>>
sockVars  == <<slots, sock, home>>

ReaderPlaces ==
    {"reading", "resolving", "dialing", "storing", "writing", "removing",
     "discarding", "ending", "ended"}

TypeOK ==
    /\ slots \in 0..MaxUpstreams
    /\ closed \in [Assocs -> BOOLEAN]
    /\ control \in [Assocs -> {"open", "gone"}]
    /\ relay \in [Assocs -> BOOLEAN]
    /\ upstreams \in [Assocs -> [Dsts -> Ups \cup {None}]]
    /\ reader \in [Assocs -> [at : ReaderPlaces, dst : Dsts \cup {None},
                             up : Ups \cup {None}]]
    /\ closer \in [Assocs -> {"relay", "control", "sockets", "done"}]
    /\ toClose \in [Assocs -> SUBSET Ups]
    /\ sock \in [Ups -> {"unused", "open", "shut", "released"}]
    /\ home \in [Ups -> (Assocs \X Dsts) \cup {None}]
    /\ relayer \in [Ups -> {"none", "reading", "removing", "closing"}]

\* Before the first client: every association is over.
Init ==
    /\ slots = 0
    /\ closed = [a \in Assocs |-> TRUE]
    /\ control = [a \in Assocs |-> "gone"]
    /\ relay = [a \in Assocs |-> FALSE]
    /\ upstreams = [a \in Assocs |-> [d \in Dsts |-> None]]
    /\ reader = [a \in Assocs |-> [at |-> "ended", dst |-> None, up |-> None]]
    /\ closer = [a \in Assocs |-> "done"]
    /\ toClose = [a \in Assocs |-> {}]
    /\ sock = [u \in Ups |-> "unused"]
    /\ home = [u \in Ups |-> None]
    /\ relayer = [u \in Ups |-> "none"]

-----------------------------------------------------------------------------
\* Nothing of the association is left: no goroutine and no socket.
Gone(a) ==
    /\ closed[a]
    /\ reader[a].at = "ended"
    /\ closer[a] = "done"
    /\ \A u \in Ups : sock[u] # "unused" => home[u][1] # a

\* The goroutines that are inside Close of socket u.
IsBeingClosed(u) ==
    \/ relayer[u] = "closing"
    \/ \E a \in Assocs :
         \/ reader[a].at = "discarding" /\ reader[a].up = u
         \/ closer[a] = "sockets" /\ u \in toClose[a]

\* Nobody refers to u any more: the garbage collector may have it.
Forgotten(u) ==
    /\ relayer[u] = "none"
    /\ \A a \in Assocs : reader[a].up # u /\ u \notin toClose[a]
    /\ \A a \in Assocs, d \in Dsts : upstreams[a][d] # u

ReaderAt(a, p) == reader' = [reader EXCEPT ![a].at = p]

\* What a reader holds of its last destination and socket is dead once it is
\* back at the top of its loop.
ReaderBack(a) ==
    reader' = [reader EXCEPT ![a] = [at |-> "reading", dst |-> None, up |-> None]]

\* handleAssociate: the relay socket and the association are created.
Associate(a) ==
    /\ Gone(a)
    /\ closed' = [closed EXCEPT ![a] = FALSE]
    /\ control' = [control EXCEPT ![a] = "open"]
    /\ relay' = [relay EXCEPT ![a] = TRUE]
    /\ ReaderAt(a, "reading")
    /\ UNCHANGED <<sockVars, upstreams, closer, toClose, relayer>>

\* A datagram for a destination that has no upstream yet: forwardFromClient
\* leaves its first critical section to resolve and dial.  (A datagram for a
\* known destination is written to its upstream and the result ignored, and one
\* read after close() is dropped: neither changes the state.)
NewDestination(a, d) ==
    /\ reader[a].at = "reading" /\ relay[a]
    /\ ~closed[a] /\ upstreams[a][d] = None
    /\ reader' = [reader EXCEPT ![a] = [at |-> "resolving", dst |-> d, up |-> None]]
    /\ UNCHANGED <<assocVars, sockVars, upstreams, relayer>>

\* The resolver fails, or acquireUDPSlot finds udpSem full: the datagram is dropped.
DropDatagram(a) ==
    /\ reader[a].at = "resolving"
    /\ ReaderBack(a)
    /\ UNCHANGED <<assocVars, sockVars, upstreams, relayer>>

\* acquireUDPSlot: a non-blocking send on udpSem.
AcquireUDPSlot(a) ==
    /\ reader[a].at = "resolving"
    /\ slots < MaxUpstreams
    /\ slots' = slots + 1
    /\ ReaderAt(a, "dialing")
    /\ UNCHANGED <<assocVars, sock, home, upstreams, relayer>>

\* releaseUDPSlot: a non-blocking receive from udpSem.
ReleaseUDPSlot == slots' = IF slots > 0 THEN slots - 1 ELSE slots

\* Mutant: the error path of the dial forgets the slot.
BugDialErrorLeaks(a) ==
    /\ reader[a].at = "dialing"
    /\ ReaderBack(a)
    /\ UNCHANGED <<assocVars, sockVars, upstreams, relayer>>

\* The dial is refused (tunnel down, blocked port) or fails.
DialFails(a) ==
    /\ reader[a].at = "dialing"
    /\ ReleaseUDPSlot
    /\ ReaderBack(a)
    /\ UNCHANGED <<assocVars, sock, home, upstreams, relayer>>

\* The dial succeeds; the socket is wrapped in a countedConn.
DialSucceeds(a, u) ==
    /\ reader[a].at = "dialing"
    /\ sock[u] = "unused"
    /\ sock' = [sock EXCEPT ![u] = "open"]
    /\ home' = [home EXCEPT ![u] = <<a, reader[a].dst>>]
    /\ reader' = [reader EXCEPT ![a] = [@ EXCEPT !.at = "storing", !.up = u]]
    /\ UNCHANGED <<assocVars, slots, upstreams, relayer>>

\* Mutant: close() is not looked for again after the dial.
BugStoreUnchecked(a) ==
    /\ reader[a].at = "storing"
    /\ ReaderAt(a, "writing")
    /\ upstreams' = [upstreams EXCEPT ![a][reader[a].dst] = reader[a].up]
    /\ UNCHANGED <<assocVars, sockVars, relayer>>

\* The second critical section of forwardFromClient: the socket is discarded
\* when the association was closed, or the destination served, meanwhile.
StoreUpstream(a) ==
    LET d == reader[a].dst IN
    /\ reader[a].at = "storing"
    /\ IF closed[a] \/ upstreams[a][d] # None
       THEN ReaderAt(a, "discarding") /\ UNCHANGED upstreams
       ELSE /\ ReaderAt(a, "writing")
            /\ upstreams' = [upstreams EXCEPT ![a][d] = reader[a].up]
    /\ UNCHANGED <<assocVars, sockVars, relayer>>

\* The first datagram is written and the relay goroutine is started.
StartRelay(a) ==
    LET u == reader[a].up IN
    /\ reader[a].at = "writing"
    /\ sock[u] = "open"
    /\ relayer' = [relayer EXCEPT ![u] = "reading"]
    /\ ReaderBack(a)
    /\ UNCHANGED <<assocVars, sockVars, upstreams>>

\* The first write fails, because of the network or because close() was faster.
FirstWriteFails(a) ==
    /\ reader[a].at = "writing"
    /\ ReaderAt(a, "removing")
    /\ UNCHANGED <<assocVars, sockVars, upstreams, relayer>>

\* The critical section of removeUpstream.
Removed(u) ==
    LET a == home[u][1]
        d == home[u][2]
    IN IF upstreams[a][d] = u THEN [upstreams EXCEPT ![a][d] = None] ELSE upstreams

ReaderRemoves(a) ==
    /\ reader[a].at = "removing"
    /\ upstreams' = Removed(reader[a].up)
    /\ ReaderAt(a, "discarding")
    /\ UNCHANGED <<assocVars, sockVars, relayer>>

\* countedConn.Close: the socket is closed first, then the slot is released,
\* once, whichever of the goroutines that call Close gets there first.
CloseStep(u) ==
    /\ IsBeingClosed(u)
    /\ \/ /\ sock[u] = "open"
          /\ sock' = [sock EXCEPT ![u] = "shut"]
          /\ UNCHANGED slots
       \/ /\ sock[u] = "shut"
          /\ sock' = [sock EXCEPT ![u] = "released"]
          /\ ReleaseUDPSlot
    /\ UNCHANGED <<assocVars, home, upstreams, reader, relayer>>

\* Close has returned to the reader.
ReaderDiscarded(a) ==
    /\ reader[a].at = "discarding"
    /\ sock[reader[a].up] = "released"
    /\ ReaderBack(a)
    /\ UNCHANGED <<assocVars, sockVars, upstreams, relayer>>

-----------------------------------------------------------------------------
\* relayFromUpstream returns: its socket was closed or failed, or the relay
\* socket refused the answer.
RelayEnds(u) ==
    /\ relayer[u] = "reading"
    /\ relayer' = [relayer EXCEPT ![u] = "removing"]
    /\ UNCHANGED <<assocVars, sockVars, upstreams, reader>>

RelayRemoves(u) ==
    /\ relayer[u] = "removing"
    /\ upstreams' = Removed(u)
    /\ relayer' = [relayer EXCEPT ![u] = "closing"]
    /\ UNCHANGED <<assocVars, sockVars, reader>>

RelayClosed(u) ==
    /\ relayer[u] = "closing"
    /\ sock[u] = "released"
    /\ relayer' = [relayer EXCEPT ![u] = "none"]
    /\ UNCHANGED <<assocVars, sockVars, upstreams, reader>>

\* The last reference to a closed socket is gone.
Collect(u) ==
    /\ sock[u] = "released" /\ Forgotten(u)
    /\ sock' = [sock EXCEPT ![u] = "unused"]
    /\ home' = [home EXCEPT ![u] = None]
    /\ UNCHANGED <<assocVars, slots, upstreams, reader, relayer>>

-----------------------------------------------------------------------------
\* Mutant: close() empties the map without collecting what was in it.
BugForgetUpstreams(a) ==
    /\ ~closed[a]
    /\ closed' = [closed EXCEPT ![a] = TRUE]
    /\ closer' = [closer EXCEPT ![a] = "relay"]
    /\ toClose' = [toClose EXCEPT ![a] = {}]
    /\ upstreams' = [upstreams EXCEPT ![a] = [d \in Dsts |-> None]]

\* The critical section of close().
TearDown(a) ==
    /\ ~closed[a]
    /\ closed' = [closed EXCEPT ![a] = TRUE]
    /\ closer' = [closer EXCEPT ![a] = "relay"]
    /\ toClose' = [toClose EXCEPT ![a] = {upstreams[a][d] : d \in Dsts} \ {None}]
    /\ upstreams' = [upstreams EXCEPT ![a] = [d \in Dsts |-> None]]

\* The client closes the control connection, or the runtime resets it.
ClientLeaves(a) ==
    /\ control[a] = "open"
    /\ control' = [control EXCEPT ![a] = "gone"]
    /\ UNCHANGED <<sockVars, closed, relay, closer, toClose, upstreams, reader, relayer>>

\* drainControlConn returns.
ControlWatcher(a) ==
    /\ control[a] = "gone"
    /\ TearDown(a)
    /\ UNCHANGED <<sockVars, control, relay, reader, relayer>>

\* idleReaper: no datagram for idleTimeout (time is abstracted).
IdleReaper(a) ==
    /\ TearDown(a)
    /\ UNCHANGED <<sockVars, control, relay, reader, relayer>>

\* ReadFromUDP fails: handleAssociate returns and its deferred calls begin.
ReadFails(a) ==
    /\ reader[a].at = "reading"
    /\ ReaderAt(a, "ending")
    /\ UNCHANGED <<assocVars, sockVars, upstreams, relayer>>

\* The deferred close() and relay.Close(); close() returns at once if another
\* goroutine was first.
ReaderEnds(a) ==
    /\ reader[a].at = "ending"
    /\ IF closed[a] THEN UNCHANGED <<closed, closer, toClose, upstreams>> ELSE TearDown(a)
    /\ relay' = [relay EXCEPT ![a] = FALSE]
    /\ ReaderAt(a, "ended")
    /\ UNCHANGED <<sockVars, control, relayer>>

\* The rest of close(): the relay socket, the control connection, the upstreams.
CloserStep(a) ==
    /\ \/ /\ closer[a] = "relay"
          /\ relay' = [relay EXCEPT ![a] = FALSE]
          /\ closer' = [closer EXCEPT ![a] = "control"]
          /\ UNCHANGED <<control, toClose>>
       \/ /\ closer[a] = "control"
          /\ control' = [control EXCEPT ![a] = "gone"]
          /\ closer' = [closer EXCEPT ![a] = "sockets"]
          /\ UNCHANGED <<relay, toClose>>
       \/ /\ closer[a] = "sockets"
          /\ \E u \in toClose[a] :
               /\ sock[u] = "released"
               /\ toClose' = [toClose EXCEPT ![a] = @ \ {u}]
          /\ UNCHANGED <<relay, control, closer>>
       \/ /\ closer[a] = "sockets" /\ toClose[a] = {}
          /\ closer' = [closer EXCEPT ![a] = "done"]
          /\ UNCHANGED <<relay, control, toClose>>
    /\ UNCHANGED <<sockVars, closed, upstreams, reader, relayer>>

-----------------------------------------------------------------------------
ReaderNext(a) ==
    \/ DropDatagram(a) \/ AcquireUDPSlot(a) \/ DialFails(a)
    \/ \E u \in Ups : DialSucceeds(a, u)
    \/ StoreUpstream(a) \/ StartRelay(a) \/ FirstWriteFails(a)
    \/ ReaderRemoves(a) \/ ReaderDiscarded(a) \/ ReaderEnds(a)

ClientNext(a) ==
    \/ Associate(a) \/ ClientLeaves(a) \/ IdleReaper(a)
    \/ \E d \in Dsts : NewDestination(a, d)

Next ==
    \/ \E a \in Assocs : \/ ClientNext(a) \/ ReaderNext(a) \/ ReadFails(a)
                         \/ ControlWatcher(a) \/ CloserStep(a)
    \/ \E u \in Ups : RelayEnds(u) \/ RelayRemoves(u) \/ RelayClosed(u)
                      \/ CloseStep(u) \/ Collect(u)

Spec == Init /\ [][Next]_vars

\* Every goroutine that can run does.  A UDP dial and the resolver return (no
\* peer has to answer the first, the second has a timeout); a read on a closed
\* socket returns an error; nothing is assumed of the client or of the network.
Fairness ==
    /\ \A a \in Assocs :
         /\ WF_vars(ReaderNext(a))
         /\ WF_vars(~relay[a] /\ ReadFails(a))
         /\ WF_vars(ControlWatcher(a))
         /\ WF_vars(CloserStep(a))
    /\ \A u \in Ups :
         /\ WF_vars(sock[u] # "open" /\ RelayEnds(u))
         /\ WF_vars(RelayRemoves(u) \/ RelayClosed(u))
         /\ WF_vars(CloseStep(u))
         /\ WF_vars(Collect(u))

FairSpec == Spec /\ Fairness

-----------------------------------------------------------------------------
(* Properties *)

\* Every token of udpSem stands for one upstream socket that is not yet given
\* back or for one dial in progress, through every failed dial, discarded
\* socket, double Close and teardown ("pairing is kept exact by countedConn").
SlotsAreAccountedFor ==
    slots = Cardinality({a \in Assocs : reader[a].at = "dialing"})
            + Cardinality({u \in Ups : sock[u] \in {"open", "shut"}})

\* No upstream socket is orphaned: an open one is in its association's map with
\* a goroutine that reads from it (or is about to be started, or is about to
\* remove it), or some goroutine is on its way to close it.  So no destination
\* is ever relayed by two sockets of one association.
NoOrphanSocket ==
    \A u \in Ups : sock[u] = "open" =>
        LET a == home[u][1]
            d == home[u][2]
            readerHas(places) == reader[a].up = u /\ reader[a].at \in places
        IN \/ upstreams[a][d] = u /\ (relayer[u] # "none" \/ readerHas({"writing", "removing"}))
           \/ readerHas({"storing", "removing", "discarding"})
           \/ relayer[u] \in {"removing", "closing"}
           \/ u \in toClose[a]

\* One destination of an association is relayed by one socket: its answers do not
\* come by two ways, also while close() and removeUpstream race with a new dial.
OneRelayPerDestination ==
    \A u, v \in Ups :
        sock[u] = "open" /\ sock[v] = "open" /\ relayer[u] = "reading" /\ relayer[v] = "reading"
        /\ home[u] = home[v] => u = v

\* When the last goroutine of an association and its sockets are gone, whichever
\* of them called close() first, so are the relay socket, the control connection
\* and every entry of the map.
GoneHoldsNothing ==
    \A a \in Assocs : Gone(a) =>
        /\ ~relay[a] /\ control[a] = "gone"
        /\ toClose[a] = {} /\ reader[a].up = None
        /\ \A d \in Dsts : upstreams[a][d] = None

\* When the control connection goes, everything the association held, sockets,
\* slots and goroutines, is eventually given back.
LeavingFreesEverything ==
    \A a \in Assocs : control[a] = "gone" ~> Gone(a)

=============================================================================
