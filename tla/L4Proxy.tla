------------------------------ MODULE L4Proxy ------------------------------
(***************************************************************************)
(* L4Proxy of api/l4proxy.go: every TCP flow of L4 mode is one CONNECT     *)
(* stream on a single shared QUIC connection, which is cached, torn down   *)
(* when it fails, and rebuilt by the next dial.                            *)
(*                                                                         *)
(* Dialers are concurrent DialContext calls.  Each step of one is what it  *)
(* does between two points where another goroutine can run: a critical     *)
(* section of mu, an operation on dialSem, an atomic access to             *)
(* firstFailNanos, or a wait for the network.                              *)
(***************************************************************************)
EXTENDS Integers, FiniteSets

CONSTANTS
    Dialers,   \* concurrent DialContext calls
    Conns,     \* QUIC connection objects; reused once nobody holds them
    None       \* no connection, nobody

ASSUME L4Assumption == None \notin Conns \cup Dialers

VARIABLES
    current,    \* clientConn (udpConn, quicConn and cachedLocal go with it)
    closed,     \* closed
    dialSem,    \* who holds dialSem
    firstFail,  \* firstFailNanos: "none", or a run "young", or "old" (2 x connectTimeout)
    link,       \* each connection: "unused", "live", "wedged" (answers no CONNECT), "dead", "closed"
    dialer      \* each dial: its place, its connection, whether it is the
                \* retry, whether its context's deadline has passed, and why
                \* it calls closeConn

vars == <<current, closed, dialSem, firstFail, link, dialer>>

Places ==
    {"idle", "fast", "waiting", "recheck", "dialing", "storing", "opening",
     "asked", "answered", "noting", "loading", "stamping", "tearing", "reset"}

\* Where the rest of the dial still looks at its context.
UsesContext ==
    {"fast", "waiting", "recheck", "dialing", "storing", "opening", "asked",
     "tearing", "reset"}

\* Where a dial dereferences its connection.
UsesConn ==
    {"storing", "opening", "asked", "answered", "noting", "loading", "stamping",
     "tearing", "reset"}

TypeOK ==
    /\ current \in Conns \cup {None}
    /\ closed \in BOOLEAN
    /\ dialSem \in Dialers \cup {None}
    /\ firstFail \in {"none", "young", "old"}
    /\ link \in [Conns -> {"unused", "live", "wedged", "dead", "closed"}]
    /\ dialer \in [Dialers -> [at : Places, conn : Conns \cup {None}, retry : BOOLEAN,
                               late : BOOLEAN, why : {"none", "open", "late", "wedge"}]]
    /\ \A d \in Dialers : dialer[d].at \in UsesConn => dialer[d].conn \in Conns

Idle == [at |-> "idle", conn |-> None, retry |-> FALSE, late |-> FALSE, why |-> "none"]

Init ==
    /\ current = None
    /\ closed = FALSE
    /\ dialSem = None
    /\ firstFail = "none"
    /\ link = [c \in Conns |-> "unused"]
    /\ dialer = [d \in Dialers |-> Idle]

At(d, p)      == dialer[d].at = p
Go(d, p)      == dialer' = [dialer EXCEPT ![d].at = p]
Use(d, p, c)  == dialer' = [dialer EXCEPT ![d].at = p, ![d].conn = c]
Finish(d)     == dialer' = [dialer EXCEPT ![d] = Idle]
TearFor(d, w) == dialer' = [dialer EXCEPT ![d].at = "tearing", ![d].why = w]

-----------------------------------------------------------------------------
(* DialContext and dialConn *)

StartDial(d) ==
    /\ At(d, "idle")
    /\ Go(d, "fast")
    /\ UNCHANGED <<current, closed, dialSem, link, firstFail>>

\* The deadline of the dial's context passes: errors.Is(ctx.Err(), Canceled)
\* stays false (no caller of the program cancels a dial).
DeadlinePasses(d) ==
    /\ dialer[d].at \in UsesContext /\ ~dialer[d].late
    /\ dialer' = [dialer EXCEPT ![d].late = TRUE]
    /\ UNCHANGED <<current, closed, dialSem, link, firstFail>>

\* dialConn, the fast path under mu.
FastPath(d) ==
    /\ At(d, "fast")
    /\ IF closed THEN Finish(d)
       ELSE IF current # None THEN Use(d, "opening", current)
       ELSE Go(d, "waiting")
    /\ UNCHANGED <<current, closed, dialSem, link, firstFail>>

\* The select on dialSem and ctx.Done(): with both ready either is taken.
AcquireSem(d) ==
    /\ At(d, "waiting")
    /\ dialSem = None
    /\ dialSem' = d
    /\ Go(d, "recheck")
    /\ UNCHANGED <<current, closed, link, firstFail>>

GiveUpWaiting(d) ==
    /\ At(d, "waiting") /\ dialer[d].late
    /\ Finish(d)
    /\ UNCHANGED <<current, closed, dialSem, link, firstFail>>

\* Mutant: the builder does not look again once it has dialSem.
BugNoRecheck(d) ==
    /\ At(d, "recheck")
    /\ IF closed THEN Finish(d) /\ dialSem' = None
       ELSE Go(d, "dialing") /\ UNCHANGED dialSem
    /\ UNCHANGED <<current, closed, link, firstFail>>

\* The second look under mu; the deferred receive from dialSem ends the build.
Recheck(d) ==
    /\ At(d, "recheck")
    /\ IF closed THEN Finish(d) /\ dialSem' = None
       ELSE IF current # None THEN Use(d, "opening", current) /\ dialSem' = None
       ELSE Go(d, "dialing") /\ UNCHANGED dialSem
    /\ UNCHANGED <<current, closed, link, firstFail>>

\* ListenUDP or quic.Dial fails, the latter also when the deadline passes.
QuicDialFails(d) ==
    /\ At(d, "dialing")
    /\ Finish(d)
    /\ dialSem' = None
    /\ UNCHANGED <<current, closed, link, firstFail>>

QuicDialSucceeds(d, c) ==
    /\ At(d, "dialing") /\ ~dialer[d].late
    /\ link[c] = "unused"
    /\ link' = [link EXCEPT ![c] = "live"]
    /\ Use(d, "storing", c)
    /\ UNCHANGED <<current, closed, dialSem, firstFail>>

\* The last critical section of dialConn: the connection is stored, unless
\* Close ran during the handshake.
StoreConn(d) ==
    LET c == dialer[d].conn IN
    /\ At(d, "storing")
    /\ IF closed
       THEN Finish(d) /\ link' = [link EXCEPT ![c] = "closed"] /\ UNCHANGED current
       ELSE Go(d, "opening") /\ current' = c /\ UNCHANGED link
    /\ dialSem' = None
    /\ UNCHANGED <<closed, firstFail>>

-----------------------------------------------------------------------------
(* openStreamWithRetry *)

OpenStream(d) ==
    /\ At(d, "opening") /\ ~dialer[d].late
    /\ link[dialer[d].conn] \in {"live", "wedged"}
    /\ Go(d, "asked")
    /\ UNCHANGED <<current, closed, dialSem, link, firstFail>>

\* OpenRequestStream fails: the connection is dead, it is saturated, or the
\* dial's own deadline has passed.  Only a cancelled caller would be let off.
OpenStreamFails(d) ==
    /\ At(d, "opening")
    /\ TearFor(d, IF dialer[d].late THEN "late" ELSE "open")
    /\ UNCHANGED <<current, closed, dialSem, link, firstFail>>

\* Where a dial goes when its closeConn returns: the retry of a stream-open
\* failure dials again, everything else returns the error.
AfterCloseConn(d) ==
    IF dialer[d].why # "wedge" /\ ~dialer[d].retry
    THEN dialer' = [dialer EXCEPT ![d] = [@ EXCEPT !.at = "fast", !.conn = None,
                                                   !.retry = TRUE, !.why = "none"]]
    ELSE Finish(d)

\* Mutant: closeConn takes whatever connection is cached.
BugCloseAnyConn(d) ==
    /\ At(d, "tearing")
    /\ IF current # None
       THEN Use(d, "reset", current) /\ current' = None
       ELSE AfterCloseConn(d) /\ UNCHANGED current
    /\ UNCHANGED <<closed, dialSem, link, firstFail>>

\* The critical section of closeConn: only the connection the caller used.
CloseConn(d) ==
    /\ At(d, "tearing")
    /\ IF current = dialer[d].conn
       THEN Go(d, "reset") /\ current' = None
       ELSE AfterCloseConn(d) /\ UNCHANGED current
    /\ UNCHANGED <<closed, dialSem, link, firstFail>>

\* Mutant: the connection is dropped without being closed.
BugDropWithoutClose(d) ==
    /\ At(d, "reset")
    /\ firstFail' = "none"
    /\ AfterCloseConn(d)
    /\ UNCHANGED <<current, closed, dialSem, link>>

\* The rest of closeConn, after the unlock: the run is cleared and the
\* connection closed.
CloseConnEnds(d) ==
    /\ At(d, "reset")
    /\ firstFail' = "none"
    /\ link' = [link EXCEPT ![dialer[d].conn] = "closed"]
    /\ AfterCloseConn(d)
    /\ UNCHANGED <<current, closed, dialSem>>

-----------------------------------------------------------------------------
(* The CONNECT exchange and noteConnFailure *)

\* The exchange is over, and with it the use of the context.
Settle(d, p) == dialer' = [dialer EXCEPT ![d].at = p, ![d].late = FALSE]

\* The edge answers, with a 2xx or a rejection.
Answer(d) ==
    /\ At(d, "asked") /\ link[dialer[d].conn] = "live"
    /\ Settle(d, "answered")
    /\ UNCHANGED <<current, closed, dialSem, link, firstFail>>

\* firstFailNanos.Store(0); the dial returns its stream or the rejection.
ClearRun(d) ==
    /\ At(d, "answered")
    /\ firstFail' = "none"
    /\ Finish(d)
    /\ UNCHANGED <<current, closed, dialSem, link>>

\* SendRequestHeader or ReadResponse fails: the connection is gone, or no
\* answer comes before the deadline (a wedge, or one target that hangs).
NoAnswer(d) ==
    /\ At(d, "asked")
    /\ dialer[d].late \/ link[dialer[d].conn] \in {"dead", "closed"}
    /\ Settle(d, "noting")
    /\ UNCHANGED <<current, closed, dialSem, link, firstFail>>

\* noteConnFailure: is the connection still the cached one?  mu is released
\* before the run is looked at.
CheckCurrent(d) ==
    /\ At(d, "noting")
    /\ IF current = dialer[d].conn THEN Go(d, "loading") ELSE Finish(d)
    /\ UNCHANGED <<current, closed, dialSem, link, firstFail>>

\* Mutant: an old run is left alone.
BugNeverTrips(d) ==
    /\ At(d, "loading")
    /\ IF firstFail = "none" THEN Go(d, "stamping") ELSE Finish(d)
    /\ UNCHANGED <<current, closed, dialSem, link, firstFail>>

\* firstFailNanos.Load() and the elapsed-time trip.
LoadRun(d) ==
    /\ At(d, "loading")
    /\ CASE firstFail = "none"  -> Go(d, "stamping")
         [] firstFail = "young" -> Finish(d)
         [] firstFail = "old"   -> TearFor(d, "wedge")
    /\ UNCHANGED <<current, closed, dialSem, link, firstFail>>

\* firstFailNanos.Store(now).
StampRun(d) ==
    /\ At(d, "stamping")
    /\ firstFail' = "young"
    /\ Finish(d)
    /\ UNCHANGED <<current, closed, dialSem, link>>

\* 2 x connectTimeout passes since the run was stamped.
RunAges ==
    /\ firstFail = "young"
    /\ firstFail' = "old"
    /\ UNCHANGED <<current, closed, dialSem, link, dialer>>

-----------------------------------------------------------------------------
(* Close, and the world outside *)

Close ==
    /\ ~closed
    /\ closed' = TRUE
    /\ current' = None
    /\ link' = [c \in Conns |-> IF c = current THEN "closed" ELSE link[c]]
    /\ UNCHANGED <<dialSem, dialer, firstFail>>

\* The edge stops answering on a connection, or the connection dies.
LinkFails(c) ==
    /\ \/ link[c] = "live" /\ link' = [link EXCEPT ![c] = "wedged"]
       \/ link[c] \in {"live", "wedged"} /\ link' = [link EXCEPT ![c] = "dead"]
    /\ UNCHANGED <<current, closed, dialSem, dialer, firstFail>>

\* The last reference to a closed connection is gone.
Collect(c) ==
    /\ link[c] = "closed"
    /\ \A d \in Dialers : dialer[d].conn # c
    /\ link' = [link EXCEPT ![c] = "unused"]
    /\ UNCHANGED <<current, closed, dialSem, dialer, firstFail>>

DialerNext(d) ==
    \/ FastPath(d) \/ AcquireSem(d) \/ GiveUpWaiting(d) \/ Recheck(d)
    \/ QuicDialFails(d) \/ (\E c \in Conns : QuicDialSucceeds(d, c)) \/ StoreConn(d)
    \/ OpenStream(d) \/ OpenStreamFails(d) \/ CloseConn(d) \/ CloseConnEnds(d)
    \/ Answer(d) \/ ClearRun(d) \/ NoAnswer(d)
    \/ CheckCurrent(d) \/ LoadRun(d) \/ StampRun(d)

Next ==
    \/ \E d \in Dialers : StartDial(d) \/ DeadlinePasses(d) \/ DialerNext(d)
    \/ \E c \in Conns : LinkFails(c) \/ Collect(c)
    \/ RunAges \/ Close

Spec == Init /\ [][Next]_vars

\* Goroutines run, deadlines and clocks advance, and clients keep dialling.
FairSpec ==
    /\ Spec
    /\ \A d \in Dialers : WF_vars(StartDial(d)) /\ WF_vars(DialerNext(d)) /\ WF_vars(DeadlinePasses(d))
    /\ WF_vars(RunAges)
    /\ \A c \in Conns : WF_vars(Collect(c))

-----------------------------------------------------------------------------
(* Properties *)

Established == {c \in Conns : link[c] \in {"live", "wedged", "dead"}}

\* No connection is leaked: one that was established and not closed is the
\* cached one, is about to be stored (or discarded), or is about to be closed by
\* the dial that took it out of the cache.
NoConnectionLeak ==
    \A c \in Established :
        \/ c = current
        \/ \E d \in Dialers : dialer[d].conn = c /\ dialer[d].at \in {"storing", "reset"}

\* One egress identity: apart from connections on their way out, at most one is
\* established at a time, however many dials race to build it.
SingleConnection ==
    \A c1, c2 \in Established :
        \/ c1 = c2
        \/ \E d \in Dialers : dialer[d].conn \in {c1, c2} /\ dialer[d].at = "reset"

\* A dial tears down only the connection it used: one that was rebuilt by
\* another goroutine in the meantime is spared.
OnlyOwnConnectionTornDown ==
    [][(current # None /\ current' = None) =>
         \/ closed' # closed
         \/ \E d \in Dialers : At(d, "tearing") /\ dialer[d].conn = current]_vars

\* A connection that stays up but answers nothing does not stay cached for
\* ever, as long as clients keep dialling.
WedgeIsDetected ==
    \A c \in Conns : (current = c /\ link[c] = "wedged") ~> current # c

\* "Ignored when ... the failure is on an already-replaced connection."
StaleFailureIsIgnored ==
    [][\A d \in Dialers :
         (At(d, "stamping") /\ ~At(d, "stamping")') => current \in {None, dialer[d].conn}]_vars

\* "The elapsed trip only fires on a *sustained* wedge".
TripMeansWedge ==
    [][\A d \in Dialers :
         (At(d, "tearing") /\ dialer[d].why = "wedge" /\ current' # current)
            => link[dialer[d].conn] # "live"]_vars

\* "The rebuild+retry is skipped only when the CALLER cancelled (its own ctx is
\* done): the connection is fine, the client just gave up."
LateCallerSparesConnection ==
    [][\A d \in Dialers :
         (At(d, "tearing") /\ dialer[d].why = "late" /\ current = dialer[d].conn)
            => (current' = current \/ closed' # closed)]_vars

=============================================================================
