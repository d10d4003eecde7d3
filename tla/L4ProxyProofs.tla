--------------------------- MODULE L4ProxyProofs ---------------------------
(***************************************************************************)
(* Safety of L4Proxy for every number of concurrent dials and of           *)
(* connections.  The inductive invariant says who holds dialSem, and that  *)
(* each established connection has exactly one owner: the cache, the dial  *)
(* that built it, or the dial that took it out of the cache.               *)
(*                                                                         *)
(* The second part proves the UDP leg that L4 mode runs beside it          *)
(* (L3UDPTunnel), for every set of flows: it runs the reconnect loop of    *)
(* MaintainTunnel, and what holds of that loop holds of the leg.           *)
(***************************************************************************)
EXTENDS L4Proxy, L3UDPTunnel, TLAPS

\* dialSem is held exactly while a connection is being built.
SemInv == \A d \in Dialers : dialSem = d <=> dialer[d].at \in {"recheck", "dialing", "storing"}

\* Nothing is cached while a connection is being built, nor after Close.
CacheInv ==
    /\ closed => current = None
    /\ current # None => current \in Established
    /\ \A d \in Dialers : dialer[d].at \in {"dialing", "storing"} => current = None

\* The dials that own a connection own an established one, each its own, and
\* not the cached one.
Owner(d) == dialer[d].at \in {"storing", "reset"}
OwnerInv ==
    /\ \A d \in Dialers : Owner(d) => /\ dialer[d].conn \in Established
                                      /\ dialer[d].conn # current
    /\ \A d1, d2 \in Dialers :
        Owner(d1) /\ Owner(d2) /\ dialer[d1].conn = dialer[d2].conn => d1 = d2

IInv == TypeOK /\ SemInv /\ CacheInv /\ OwnerInv /\ NoConnectionLeak

-----------------------------------------------------------------------------
USE DEF Places, UsesContext, UsesConn, At

\* The record of a dial, and the type of all of them.
DialRecord == [at : Places, conn : Conns \cup {None}, retry : BOOLEAN,
               late : BOOLEAN, why : {"none", "open", "late", "wedge"}]
DialerOK ==
    /\ dialer \in [Dialers -> DialRecord]
    /\ \A d \in Dialers : dialer[d].at \in UsesConn => dialer[d].conn \in Conns

\* A dial that moves keeps a well-formed record, whichever way its record is
\* written, and no other record changes.
LEMMA RecordMoves ==
  ASSUME NEW r \in DialRecord, NEW p \in Places, NEW c \in Conns \cup {None},
         NEW w \in {"none", "open", "late", "wedge"}
  PROVE  /\ [r EXCEPT !.at = p] \in DialRecord
         /\ [r EXCEPT !.at = p, !.conn = c] \in DialRecord
         /\ [r EXCEPT !.at = p, !.why = w] \in DialRecord
         /\ [r EXCEPT !.at = p, !.late = FALSE] \in DialRecord
         /\ [r EXCEPT !.late = TRUE] \in DialRecord
         /\ [r EXCEPT !.at = "fast", !.conn = None, !.retry = TRUE, !.why = "none"] \in DialRecord
         /\ Idle \in DialRecord
<1>1. /\ [r EXCEPT !.at = p] \in DialRecord
      /\ [r EXCEPT !.at = p, !.conn = c] \in DialRecord
      /\ [r EXCEPT !.at = p, !.why = w] \in DialRecord
  BY ZenonT(60) DEF DialRecord
<1>2. [r EXCEPT !.at = p, !.late = FALSE] \in DialRecord
  BY DEF DialRecord
<1>3. [r EXCEPT !.late = TRUE] \in DialRecord
  BY DEF DialRecord
<1>4. [r EXCEPT !.at = "fast", !.conn = None, !.retry = TRUE, !.why = "none"] \in DialRecord
  BY DEF DialRecord
<1>5. Idle \in DialRecord
  BY DEF DialRecord, Idle
<1> QED BY <1>1, <1>2, <1>3, <1>4, <1>5

\* A dial that moves to a well-typed record leaves the dials well typed.
LEMMA DialerMoves ==
  ASSUME DialerOK, NEW d \in Dialers, NEW r \in DialRecord,
         dialer' = [dialer EXCEPT ![d] = r],
         r.at \in UsesConn => r.conn \in Conns
  PROVE  DialerOK'
  BY DEF DialerOK

\* The moves that the actions are built from keep the dials well typed.
LEMMA HelperMoves ==
  ASSUME DialerOK, NEW d \in Dialers
  PROVE  /\ \A p \in Places : (p \in UsesConn => dialer[d].conn \in Conns)
                => (Go(d, p) => DialerOK') /\ (Settle(d, p) => DialerOK')
         /\ \A p \in Places, c \in Conns : Use(d, p, c) => DialerOK'
         /\ Finish(d) => DialerOK'
         /\ \A w \in {"open", "late", "wedge"} :
                dialer[d].conn \in Conns /\ TearFor(d, w) => DialerOK'
         /\ AfterCloseConn(d) => DialerOK'
<1> DEFINE r == dialer[d]
<1>0. r \in DialRecord
  BY DEF DialerOK
<1>1. ASSUME NEW p \in Places, p \in UsesConn => r.conn \in Conns, Go(d, p)
      PROVE  DialerOK'
  <2>0. dialer' = [dialer EXCEPT ![d] = [r EXCEPT !.at = p]]
    BY <1>1 DEF Go
  <2>1. [r EXCEPT !.at = p] \in DialRecord
    BY <1>0 DEF DialRecord
  <2>2. [r EXCEPT !.at = p].at = p /\ [r EXCEPT !.at = p].conn = r.conn
    BY <1>0 DEF DialRecord
  <2> QED BY <1>1, <2>0, <2>1, <2>2, DialerMoves
<1>2. ASSUME NEW p \in Places, p \in UsesConn => r.conn \in Conns, Settle(d, p)
      PROVE  DialerOK'
  <2>0. dialer' = [dialer EXCEPT ![d] = [r EXCEPT !.at = p, !.late = FALSE]]
    BY <1>2 DEF Settle
  <2>1. [r EXCEPT !.at = p, !.late = FALSE] \in DialRecord
    BY <1>0 DEF DialRecord
  <2>2. /\ [r EXCEPT !.at = p, !.late = FALSE].at = p
        /\ [r EXCEPT !.at = p, !.late = FALSE].conn = r.conn
    BY <1>0 DEF DialRecord
  <2> QED BY <1>2, <2>0, <2>1, <2>2, DialerMoves
<1>3. ASSUME NEW p \in Places, NEW c \in Conns, Use(d, p, c)
      PROVE  DialerOK'
  <2>0. dialer' = [dialer EXCEPT ![d] = [r EXCEPT !.at = p, !.conn = c]]
    BY <1>3 DEF Use
  <2>1. [r EXCEPT !.at = p, !.conn = c] \in DialRecord
    BY <1>0 DEF DialRecord
  <2>2. [r EXCEPT !.at = p, !.conn = c].conn = c
    BY <1>0 DEF DialRecord
  <2> QED BY <2>0, <2>1, <2>2, DialerMoves
<1>4. ASSUME Finish(d) PROVE DialerOK'
  BY <1>4, RecordMoves, DialerMoves DEF Finish, Idle, DialerOK
<1>5. ASSUME NEW w \in {"open", "late", "wedge"}, r.conn \in Conns, TearFor(d, w)
      PROVE  DialerOK'
  <2>0. dialer' = [dialer EXCEPT ![d] = [r EXCEPT !.at = "tearing", !.why = w]]
    BY <1>5 DEF TearFor
  <2>1. [r EXCEPT !.at = "tearing", !.why = w] \in DialRecord
    BY <1>0 DEF DialRecord
  <2>2. [r EXCEPT !.at = "tearing", !.why = w].conn = r.conn
    BY <1>0 DEF DialRecord
  <2> QED BY <1>5, <2>0, <2>1, <2>2, DialerMoves
<1>6. ASSUME AfterCloseConn(d) PROVE DialerOK'
  <2> DEFINE q == [r EXCEPT !.at = "fast", !.conn = None, !.retry = TRUE, !.why = "none"]
  <2>1. q \in DialRecord
    BY <1>0, RecordMoves
  <2>2. q.at = "fast"
    BY <1>0 DEF DialRecord
  <2>3. CASE dialer' = [dialer EXCEPT ![d] = q]
    <3> HIDE DEF q
    <3> QED BY <2>1, <2>2, <2>3, DialerMoves
  <2>4. dialer' = [dialer EXCEPT ![d] = q] \/ Finish(d)
    BY <1>6, Zenon DEF AfterCloseConn
  <2> QED BY <1>4, <2>3, <2>4
<1> QED BY <1>1, <1>2, <1>3, <1>4, <1>5, <1>6

\* Where the helpers leave the dial: they move one dial and no other.
MovesTo(d, places) ==
    /\ dialer'[d].at \in places
    /\ \A e \in Dialers \ {d} : dialer'[e] = dialer[e]

\* Where each of those moves takes its dial.
LEMMA HelperEffects ==
  ASSUME DialerOK, NEW d \in Dialers
  PROVE  /\ \A p \in Places : Go(d, p) => MovesTo(d, {p})
         /\ \A p \in Places : Settle(d, p) => MovesTo(d, {p})
         /\ \A p \in Places, c \in Conns : Use(d, p, c) => MovesTo(d, {p})
         /\ \A w \in {"open", "late", "wedge"} : TearFor(d, w) => MovesTo(d, {"tearing"})
         /\ Finish(d) => MovesTo(d, {"idle"})
         /\ AfterCloseConn(d) => MovesTo(d, {"fast", "idle"})
<1> USE DEF DialerOK, DialRecord, MovesTo
<1>1. \A p \in Places : Go(d, p) => MovesTo(d, {p})
  BY DEF Go
<1>2. \A p \in Places : Settle(d, p) => MovesTo(d, {p})
  BY DEF Settle
<1>3. \A p \in Places, c \in Conns : Use(d, p, c) => MovesTo(d, {p})
  BY DEF Use
<1>4. \A w \in {"open", "late", "wedge"} : TearFor(d, w) => MovesTo(d, {"tearing"})
  BY DEF TearFor
<1>5. Finish(d) => MovesTo(d, {"idle"})
  BY DEF Finish, Idle
<1>6. AfterCloseConn(d) => MovesTo(d, {"fast", "idle"})
  BY <1>5, ZenonT(60) DEF AfterCloseConn
<1> QED BY <1>1, <1>2, <1>3, <1>4, <1>5, <1>6

\* Every action keeps every variable in its type, and a dial that uses a
\* connection has one.
LEMMA TypeStep == TypeOK /\ [Next]_vars => TypeOK'
<1> DEFINE RestOK ==
        /\ current \in Conns \cup {None}
        /\ closed \in BOOLEAN
        /\ dialSem \in Dialers \cup {None}
        /\ firstFail \in {"none", "young", "old"}
        /\ link \in [Conns -> {"unused", "live", "wedged", "dead", "closed"}]
<1>0. (TypeOK <=> RestOK /\ DialerOK) /\ (TypeOK' <=> RestOK' /\ DialerOK')
  BY DEF TypeOK, DialerOK, DialRecord
<1> SUFFICES ASSUME RestOK, DialerOK, [Next]_vars PROVE RestOK' /\ DialerOK'
  BY <1>0
<1>1. ASSUME NEW d \in Dialers, StartDial(d) PROVE RestOK' /\ DialerOK'
  BY <1>1, HelperMoves DEF StartDial
<1>2. ASSUME NEW d \in Dialers, DeadlinePasses(d) PROVE RestOK' /\ DialerOK'
  <2> DEFINE r == [dialer[d] EXCEPT !.late = TRUE]
  <2>0. dialer[d] \in DialRecord
    BY DEF DialerOK
  <2>1. r \in DialRecord
    BY <2>0, RecordMoves
  <2>2. r.at = dialer[d].at /\ r.conn = dialer[d].conn
    BY <2>0 DEF DialRecord
  <2>3. dialer' = [dialer EXCEPT ![d] = r]
    BY <1>2 DEF DeadlinePasses
  <2> HIDE DEF r
  <2>4. DialerOK'
    BY <2>1, <2>2, <2>3, DialerMoves DEF DialerOK
  <2> QED BY <1>2, <2>4 DEF DeadlinePasses
<1>3. ASSUME NEW d \in Dialers,
             FastPath(d) \/ AcquireSem(d) \/ GiveUpWaiting(d) \/ Recheck(d)
      PROVE  RestOK' /\ DialerOK'
  BY <1>3, HelperMoves DEF FastPath, AcquireSem, GiveUpWaiting, Recheck
<1>4. ASSUME NEW d \in Dialers,
             QuicDialFails(d) \/ (\E c \in Conns : QuicDialSucceeds(d, c)) \/ StoreConn(d)
      PROVE  RestOK' /\ DialerOK'
  <2>1. dialer[d].at = "storing" => dialer[d].conn \in Conns
    BY DEF DialerOK
  <2> QED BY <1>4, <2>1, HelperMoves DEF QuicDialFails, QuicDialSucceeds, StoreConn
<1>5. ASSUME NEW d \in Dialers,
             \/ OpenStream(d) \/ OpenStreamFails(d) \/ CloseConn(d) \/ CloseConnEnds(d)
             \/ Answer(d) \/ ClearRun(d) \/ NoAnswer(d)
             \/ CheckCurrent(d) \/ LoadRun(d) \/ StampRun(d)
      PROVE  RestOK' /\ DialerOK'
  <2>1. dialer[d].conn \in Conns
    BY <1>5 DEF DialerOK, OpenStream, OpenStreamFails, CloseConn, CloseConnEnds, Answer,
                ClearRun, NoAnswer, CheckCurrent, LoadRun, StampRun
  <2>2. DialerOK'
    BY <1>5, <2>1, HelperMoves DEF OpenStream, OpenStreamFails, CloseConn, CloseConnEnds,
       Answer, ClearRun, NoAnswer, CheckCurrent, LoadRun, StampRun
  <2>3. RestOK'
    BY <1>5 DEF OpenStream, OpenStreamFails, CloseConn, CloseConnEnds,
       Answer, ClearRun, NoAnswer, CheckCurrent, LoadRun, StampRun
  <2> QED BY <2>2, <2>3
<1>6. CASE \/ (\E c \in Conns : LinkFails(c) \/ Collect(c))
           \/ RunAges \/ Close \/ UNCHANGED vars
  <2>1. UNCHANGED dialer
    BY <1>6 DEF LinkFails, Collect, RunAges, Close, vars
  <2>2. RestOK'
    BY <1>6 DEF LinkFails, Collect, RunAges, Close, vars
  <2> QED BY <2>1, <2>2 DEF DialerOK
<1> QED
  BY <1>1, <1>2, <1>3, <1>4, <1>5, <1>6 DEF Next, DialerNext

\* A new proxy has no connection and no dial.
LEMMA TypeInit == Init => TypeOK
<1> SUFFICES ASSUME Init PROVE TypeOK
  OBVIOUS
<1>1. dialer \in [Dialers -> DialRecord]
  <2>1. Idle \in DialRecord
    BY DEF Idle, DialRecord
  <2> QED BY <2>1 DEF Init
<1> QED BY <1>1 DEF Init, Idle, DialRecord, TypeOK

\* Type correctness of the shared connection and the dials: in particular a
\* dial never dereferences a missing connection.
THEOREM TypeCorrect == Spec => []TypeOK
  BY TypeInit, TypeStep, PTL DEF Spec

-----------------------------------------------------------------------------
\* A new proxy owns nothing, so all of its connections are accounted for.
LEMMA IInvInit == Init => IInv
  BY TypeInit, L4Assumption
  DEF Init, Idle, IInv, SemInv, CacheInv, OwnerInv, Owner, NoConnectionLeak, Established

\* A dial that neither enters nor leaves an owning place, with dialSem, the
\* cache and the connections left alone, disturbs nothing.
LEMMA QuietMove ==
  ASSUME IInv, TypeOK', NEW d \in Dialers,
         UNCHANGED <<current, closed, dialSem, link>>,
         \A e \in Dialers : e # d => dialer'[e] = dialer[e],
         dialer[d].at \notin {"recheck", "dialing", "storing", "reset"},
         dialer'[d].at \notin {"recheck", "dialing", "storing", "reset"}
  PROVE  IInv'
  BY SMTT(30) DEF IInv, TypeOK, SemInv, CacheInv, OwnerInv, Owner, NoConnectionLeak, Established

\* Each step of a dial, and of the world around it, keeps one owner for each
\* established connection.
LEMMA IInvStep == IInv /\ [Next]_vars => IInv'
<1> SUFFICES ASSUME IInv, [Next]_vars PROVE IInv'
  OBVIOUS
<1>0. TypeOK /\ TypeOK'
  BY TypeStep DEF IInv
<1> USE <1>0
<1>records. DialerOK
  BY DEF TypeOK, DialerOK, DialRecord
<1>1. ASSUME NEW d \in Dialers,
             \/ StartDial(d) \/ FastPath(d) \/ GiveUpWaiting(d)
             \/ OpenStream(d) \/ OpenStreamFails(d)
             \/ Answer(d) \/ ClearRun(d) \/ NoAnswer(d)
             \/ CheckCurrent(d) \/ LoadRun(d) \/ StampRun(d)
      PROVE  IInv'
  <2>1. /\ UNCHANGED <<current, closed, dialSem, link>>
        /\ dialer[d].at \notin {"recheck", "dialing", "storing", "reset"}
    BY <1>1 DEF StartDial, FastPath, GiveUpWaiting, OpenStream, OpenStreamFails,
       Answer, ClearRun, NoAnswer, CheckCurrent, LoadRun, StampRun
  <2>2. CASE StartDial(d) \/ FastPath(d) \/ GiveUpWaiting(d)
    <3>1. MovesTo(d, {"fast", "opening", "waiting", "idle"})
      BY <2>2, <1>records, HelperEffects DEF MovesTo, TypeOK, StartDial, FastPath, GiveUpWaiting
    <3> QED BY <2>1, <3>1, QuietMove DEF MovesTo
  <2>3. CASE OpenStream(d) \/ OpenStreamFails(d) \/ Answer(d) \/ ClearRun(d) \/ NoAnswer(d)
    <3>1. MovesTo(d, {"asked", "tearing", "answered", "idle", "noting"})
      BY <2>3, <1>records, HelperEffects
      DEF MovesTo, OpenStream, OpenStreamFails, Answer, ClearRun, NoAnswer
    <3> QED BY <2>1, <3>1, QuietMove DEF MovesTo
  <2>4. CASE CheckCurrent(d) \/ LoadRun(d) \/ StampRun(d)
    <3>0. firstFail \in {"none", "young", "old"}
      BY DEF TypeOK
    <3>1. MovesTo(d, {"loading", "stamping", "tearing", "idle"})
      BY <2>4, <3>0, <1>records, HelperEffects DEF MovesTo, CheckCurrent, LoadRun, StampRun
    <3> QED BY <2>1, <3>1, QuietMove DEF MovesTo
  <2> QED BY <1>1, <2>2, <2>3, <2>4
<1>spared. ASSUME NEW d \in Dialers, CloseConn(d), current # dialer[d].conn PROVE IInv'
  <2>1. MovesTo(d, {"fast", "idle"})
    BY <1>records, <1>spared, HelperEffects DEF CloseConn
  <2> QED BY <1>spared, <2>1, QuietMove DEF CloseConn, MovesTo
<1> USE DEF IInv, TypeOK, SemInv, CacheInv, OwnerInv, Owner, NoConnectionLeak, Established
<1>2. ASSUME NEW d \in Dialers, DeadlinePasses(d) PROVE IInv'
  BY <1>2 DEF DeadlinePasses
<1>3. ASSUME NEW d \in Dialers, AcquireSem(d) PROVE IInv'
  BY <1>3, L4Assumption, SMTT(30) DEF AcquireSem, Go
<1>4. ASSUME NEW d \in Dialers, Recheck(d) PROVE IInv'
  BY <1>4, L4Assumption, SMTT(30) DEF Recheck, Go, Use, Finish, Idle
<1>5. ASSUME NEW d \in Dialers, QuicDialFails(d) PROVE IInv'
  BY <1>5, L4Assumption, SMTT(30) DEF QuicDialFails, Finish, Idle
<1>6. ASSUME NEW d \in Dialers, NEW c \in Conns, QuicDialSucceeds(d, c) PROVE IInv'
  BY <1>6, L4Assumption, SMTT(30) DEF QuicDialSucceeds, Use
<1>7. ASSUME NEW d \in Dialers, StoreConn(d) PROVE IInv'
  BY <1>7, L4Assumption, SMTT(30) DEF StoreConn, Go, Finish, Idle
<1>8. ASSUME NEW d \in Dialers, CloseConn(d) PROVE IInv'
  <2>1. CASE current = dialer[d].conn
    BY <1>8, <2>1, L4Assumption, SMTT(30) DEF CloseConn, Go
  <2>2. CASE current # dialer[d].conn
    BY <1>8, <1>spared, <2>2
  <2> QED BY <2>1, <2>2
<1>9. ASSUME NEW d \in Dialers, CloseConnEnds(d) PROVE IInv'
  <2>1. MovesTo(d, {"fast", "idle"})
    BY <1>9, <1>records, HelperEffects DEF CloseConnEnds
  <2>2. /\ dialer[d].at = "reset" /\ UNCHANGED <<current, closed, dialSem>>
        /\ link' = [link EXCEPT ![dialer[d].conn] = "closed"]
    BY <1>9 DEF CloseConnEnds
  <2>3. SemInv'
    BY <2>1, <2>2 DEF MovesTo
  <2>4. CacheInv'
    BY <2>1, <2>2 DEF MovesTo
  <2>5. OwnerInv'
    BY <2>1, <2>2, SMTT(30) DEF MovesTo
  <2>6. NoConnectionLeak'
    BY <2>1, <2>2 DEF MovesTo
  <2> QED BY <2>3, <2>4, <2>5, <2>6
<1>10. ASSUME NEW c \in Conns, LinkFails(c) PROVE IInv'
  BY <1>10 DEF LinkFails
<1>11. ASSUME NEW c \in Conns, Collect(c) PROVE IInv'
  BY <1>11 DEF Collect
<1>12. CASE RunAges
  BY <1>12 DEF RunAges
<1>13. CASE Close
  BY <1>13, L4Assumption DEF Close
<1>14. CASE UNCHANGED vars
  BY <1>14 DEF vars
<1> QED
  BY <1>1, <1>2, <1>3, <1>4, <1>5, <1>6, <1>7, <1>8, <1>9, <1>10, <1>11, <1>12, <1>13, <1>14
  DEF Next, DialerNext

\* At every moment an established connection has one owner: the cache, the dial that built it, or the
\* dial that took it out of the cache; dialSem is held exactly while a connection is built.
THEOREM OwnershipInvariant == Spec => []IInv
  BY IInvInit, IInvStep, PTL DEF Spec

\* L4Proxy leaks no QUIC connection: whatever the dials, closeConn, Close and
\* the network do, an established connection is the cached one or has a dial
\* that is about to store or close it.
THEOREM NoLeak == Spec => []NoConnectionLeak
<1>1. IInv => NoConnectionLeak
  BY DEF IInv
<1> QED BY <1>1, OwnershipInvariant, PTL

\* However many dials race to build it, there is one connection, and so one
\* egress identity, apart from those a dial is about to close.
THEOREM OneConnection == Spec => []SingleConnection
<1>1. ASSUME IInv PROVE SingleConnection
  <2> SUFFICES ASSUME NEW c1 \in Established, NEW c2 \in Established,
                      \A d \in Dialers : dialer[d].conn \in {c1, c2} => dialer[d].at # "reset"
               PROVE  c1 = c2
    BY DEF SingleConnection
  <2>1. /\ c1 = current \/ \E d \in Dialers : dialer[d].conn = c1 /\ dialer[d].at = "storing"
        /\ c2 = current \/ \E d \in Dialers : dialer[d].conn = c2 /\ dialer[d].at = "storing"
    BY <1>1 DEF IInv, NoConnectionLeak
  <2>2. c1 # None /\ c2 # None
    BY L4Assumption DEF Established
  <2> QED
    BY <1>1, <2>1, <2>2 DEF IInv, SemInv, CacheInv
<1> QED BY <1>1, OwnershipInvariant, PTL

\* closeConn takes only the connection its caller used out of the cache, so one
\* that another dial has rebuilt in the meantime survives a stale failure.
THEOREM OwnTornDown == Spec => OnlyOwnConnectionTornDown
<1>1. ASSUME TypeOK, [Next]_vars
      PROVE  [(current # None /\ current' = None) =>
                 \/ closed' # closed
                 \/ \E d \in Dialers : At(d, "tearing") /\ dialer[d].conn = current]_vars
  <2> SUFFICES ASSUME Next, current # None, current' = None
               PROVE  \/ closed' # closed
                      \/ \E d \in Dialers : At(d, "tearing") /\ dialer[d].conn = current
    BY <1>1
  <2>1. ASSUME NEW d \in Dialers, StoreConn(d) PROVE current' # None
    BY <1>1, <2>1, L4Assumption DEF StoreConn, TypeOK
  <2>2. ASSUME NEW d \in Dialers, CloseConn(d)
        PROVE  At(d, "tearing") /\ dialer[d].conn = current
    BY <2>2 DEF CloseConn
  <2>3. CASE Close
    BY <1>1, <2>3 DEF Close, TypeOK
  <2> QED
    BY <2>1, <2>2, <2>3
    DEF Next, DialerNext, StartDial, DeadlinePasses, FastPath, AcquireSem, GiveUpWaiting,
        Recheck, QuicDialFails, QuicDialSucceeds, OpenStream, OpenStreamFails, CloseConnEnds,
        Answer, ClearRun, NoAnswer, CheckCurrent, LoadRun, StampRun, LinkFails, Collect, RunAges
<1> QED BY <1>1, TypeCorrect, PTL DEF Spec, OnlyOwnConnectionTornDown

-----------------------------------------------------------------------------
(* The reconnect loop *)

\* Counting a failed attempt stays in range and never counts down to zero.
LEMMA AttemptCounts ==
  ASSUME NEW a \in 0..AttemptCap
  PROVE  NextAttempt(a) \in 0..AttemptCap /\ NextAttempt(a) # 0
<1>1. AttemptCap \in Nat \ {0}
  BY MaintainTunnelAssumption
<1> QED BY <1>1 DEF NextAttempt

\* A failed attempt or a lost connection leads to one of the three waits, and
\* each wait has the reason MaintainTunnel tests for.
LEMMA ErrorWaits ==
  ASSUME NEW a \in 0..AttemptCap
  PROVE  /\ AfterError(a) \in {"parked", "paused", "backoff"}
         /\ AfterError(a) = "parked" => ~AlwaysReconnect /\ a = 0
         /\ AfterError(a) = "paused" => MaxReconnectAttempts > 0 /\ a >= MaxReconnectAttempts
BY DEF AfterError

\* The loop starts in its type and with nothing to wait for.
LEMMA MaintInitHolds == MaintInit => MaintTypeOK /\ WaitsForAReason
<1> SUFFICES ASSUME MaintInit PROVE MaintTypeOK /\ WaitsForAReason
  OBVIOUS
<1>1. 0 \in 0..AttemptCap
  BY MaintainTunnelAssumption
<1>2. loop = "top" /\ attempt = 0 /\ session = "none" /\ ctxDone = FALSE
  BY DEF MaintInit
<1>3. ctxDone \in BOOLEAN
  BY <1>2
<1> QED BY <1>1, <1>2, <1>3 DEF MaintTypeOK, WaitsForAReason, LoopStates

\* Every step of the loop keeps its type and its reasons to wait.
LEMMA MaintStepHolds ==
  MaintTypeOK /\ WaitsForAReason /\ [MaintNext]_maintVars => (MaintTypeOK /\ WaitsForAReason)'
<1> SUFFICES ASSUME MaintTypeOK, WaitsForAReason, [MaintNext]_maintVars
             PROVE  MaintTypeOK' /\ WaitsForAReason'
  OBVIOUS
<1> USE DEF MaintTypeOK, WaitsForAReason, LoopStates
<1>1. CASE StartAttempt
  BY <1>1 DEF StartAttempt
<1>2. CASE ConnectFails
  <2>1. attempt' \in 0..AttemptCap /\ attempt' # 0
    BY <1>2, AttemptCounts DEF ConnectFails
  <2>2. /\ loop' = "stopped" \/ loop' = AfterError(attempt')
        /\ loop = "connecting" /\ session' = session /\ ctxDone' = ctxDone
    BY <1>2 DEF ConnectFails
  <2> QED BY <2>1, <2>2, ErrorWaits
<1>3. CASE ConnectSucceeds
  BY <1>3 DEF ConnectSucceeds
<1>4. CASE OnConnectedReturns
  BY <1>4 DEF OnConnectedReturns
<1>5. CASE SessionDies
  BY <1>5 DEF SessionDies
<1>6. CASE ForwardingEnds
  BY <1>6 DEF ForwardingEnds
<1>7. CASE OnDisconnectedReturns
  <2>1. attempt' = 0 /\ 0 \in 0..AttemptCap
    BY <1>7, MaintainTunnelAssumption DEF OnDisconnectedReturns
  <2>2. /\ loop' = "stopped" \/ loop' = AfterError(0)
        /\ loop = "onDisconnected" /\ session' = session /\ ctxDone' = ctxDone
    BY <1>7 DEF OnDisconnectedReturns
  <2> QED BY <2>1, <2>2, ErrorWaits
<1>8. CASE DemandWakes
  BY <1>8 DEF DemandWakes
<1>9. CASE BackoffElapses
  BY <1>9 DEF BackoffElapses
<1>10. CASE CancelContext
  BY <1>10 DEF CancelContext
<1>11. CASE StopLoop
  BY <1>11 DEF StopLoop
<1>12. CASE UNCHANGED maintVars
  BY <1>12 DEF maintVars
<1> QED
  BY <1>1, <1>2, <1>3, <1>4, <1>5, <1>6, <1>7, <1>8, <1>9, <1>10, <1>11, <1>12 DEF MaintNext

\* MaintainTunnel parks only when lazy and only for a lost connection, pauses only when its attempts
\* are used up, and holds a session only from the edge's answer to the deferred close.
THEOREM LoopWaitsForAReason == MaintSpec => [](MaintTypeOK /\ WaitsForAReason)
  BY MaintInitHolds, MaintStepHolds, PTL DEF MaintSpec

-----------------------------------------------------------------------------
(* The UDP leg *)

\* Every step of the leg is a step of the loop or leaves the loop alone.
LEMMA LegRunsLoopStep == [LegNext]_udpLegVars => [MaintNext]_maintVars
<1> SUFFICES ASSUME [LegNext]_udpLegVars PROVE [MaintNext]_maintVars
  OBVIOUS
<1>1. CASE LoopNext
  BY <1>1 DEF LoopNext, LoopStep, OnConnectedUp, OnConnectedDrain, OnDisconnectedDown, WakeOnDemand,
              MaintNext
<1>2. CASE LoseSession \/ Cleanup
  BY <1>2 DEF LoseSession, Cleanup, MaintNext
<1>3. ASSUME NEW f \in Flows, FirstDatagram(f) \/ FlowNext(f) \/ WriteKept(f) \/ DropUpstream(f)
      PROVE  UNCHANGED maintVars
  BY <1>3 DEF FirstDatagram, FlowNext, CheckGate, RefuseDial, DialSucceeds, DialFails, WriteKept,
              DropUpstream
<1>4. CASE UNCHANGED udpLegVars
  BY <1>4 DEF udpLegVars
<1> QED BY <1>1, <1>2, <1>3, <1>4 DEF LegNext

\* The UDP leg runs the reconnect loop: whatever its clients, drainDemand and cleanup do, its
\* goroutine takes only the steps of MaintainTunnel.
THEOREM LegRunsMaintainTunnel == LegSpec => MaintSpec
<1>1. LegInit => MaintInit
  BY DEF LegInit
<1> QED BY <1>1, LegRunsLoopStep, PTL DEF LegSpec, MaintSpec

\* So the leg, too, waits only for a reason.
THEOREM LegWaitsForAReason == LegSpec => []WaitsForAReason
  BY LegRunsMaintainTunnel, LoopWaitsForAReason, PTL

\* Where the loop is while the gate is up or OnConnected is about to drain, and
\* that a loop that has moved was started.
LegInv ==
    /\ loop # "top" => started
    /\ draining => loop = "onConnected" /\ up
    /\ up => draining \/ loop \in {"forwarding", "onDisconnected"}

\* A move of one flow gives the flow table its type again.
LEMMA FlowMoves ==
  ASSUME LegTypeOK, NEW f \in Flows, NEW to \in FlowStates, flow' = [flow EXCEPT ![f] = to]
  PROVE  flow' \in [Flows -> FlowStates]
BY DEF LegTypeOK

\* The leg starts with the gate down, no token and no upstream.
LEMMA LegInitHolds == LegInit => LegTypeOK /\ LegInv
<1> SUFFICES ASSUME LegInit PROVE LegTypeOK /\ LegInv
  OBVIOUS
<1>1. MaintTypeOK /\ loop = "top"
  BY MaintInitHolds DEF LegInit, MaintInit
<1>2. flow \in [Flows -> FlowStates]
  BY DEF LegInit, FlowStates
<1> QED BY <1>1, <1>2 DEF LegInit, LegTypeOK, LegInv

\* The loop's steps keep the gate and the token in their types.
LEMMA LegTypeStep ==
  LegTypeOK /\ WaitsForAReason /\ [LegNext]_udpLegVars => LegTypeOK'
<1> SUFFICES ASSUME LegTypeOK, WaitsForAReason, [LegNext]_udpLegVars PROVE LegTypeOK'
  OBVIOUS
<1>1. MaintTypeOK'
  BY LegRunsLoopStep, MaintStepHolds DEF LegTypeOK
<1>2. CASE LoopNext \/ LoseSession \/ Cleanup
  <2>1. /\ up' \in BOOLEAN /\ demand' \in BOOLEAN
        /\ started' \in BOOLEAN /\ draining' \in BOOLEAN
    BY <1>2 DEF LoopNext, LoopStep, OnConnectedUp, OnConnectedDrain, OnDisconnectedDown, WakeOnDemand,
                LoseSession, Cleanup, legVars, LegTypeOK
  <2>2. flow' = flow /\ lost' \subseteq lost
    BY <1>2 DEF LoopNext, LoopStep, OnConnectedUp, OnConnectedDrain, OnDisconnectedDown, WakeOnDemand,
                LoseSession, Cleanup
  <2> QED BY <1>1, <2>1, <2>2 DEF LegTypeOK
<1>3. ASSUME NEW f \in Flows, FirstDatagram(f) \/ FlowNext(f) \/ WriteKept(f) \/ DropUpstream(f)
      PROVE  LegTypeOK'
  <2>1. flow' = flow \/ \E to \in FlowStates : flow' = [flow EXCEPT ![f] = to]
    BY <1>3 DEF FirstDatagram, FlowNext, CheckGate, RefuseDial, DialSucceeds, DialFails, WriteKept,
                DropUpstream, MoveFlow, FlowStates
  <2>2. flow' \in [Flows -> FlowStates]
    BY <2>1, FlowMoves DEF LegTypeOK
  <2>3. /\ up' \in BOOLEAN /\ demand' \in BOOLEAN
        /\ started' \in BOOLEAN /\ draining' \in BOOLEAN
    BY <1>3 DEF FirstDatagram, FlowNext, CheckGate, RefuseDial, DialSucceeds, DialFails, WriteKept,
                DropUpstream, legVars, LegTypeOK
  <2>4. lost' \subseteq Flows
    BY <1>3 DEF FirstDatagram, FlowNext, CheckGate, RefuseDial, DialSucceeds, DialFails, WriteKept,
                DropUpstream, LegTypeOK
  <2> QED BY <1>1, <2>2, <2>3, <2>4 DEF LegTypeOK
<1>4. CASE UNCHANGED udpLegVars
  BY <1>1, <1>4 DEF udpLegVars, legVars, LegTypeOK
<1> QED BY <1>2, <1>3, <1>4 DEF LegNext

\* The callbacks raise and lower the gate around each session.
LEMMA LegInvStep ==
  LegTypeOK /\ WaitsForAReason /\ LegInv /\ [LegNext]_udpLegVars => LegInv'
<1> SUFFICES ASSUME LegTypeOK, WaitsForAReason, LegInv, [LegNext]_udpLegVars PROVE LegInv'
  OBVIOUS
<1> USE DEF LegInv
<1>1. CASE LoopStep
  <2>1. UNCHANGED <<up, started, draining>> /\ started
    BY <1>1 DEF LoopStep, legVars
  <2>2. CASE loop = "forwarding"
    BY <1>1, <2>1, <2>2 DEF LoopStep, StartAttempt, ConnectFails, ConnectSucceeds, BackoffElapses,
                            ForwardingEnds, StopLoop
  <2>3. CASE loop # "forwarding"
    <3>1. loop \notin {"onConnected", "onDisconnected"}
      BY <1>1, <2>3 DEF LoopStep, StartAttempt, ConnectFails, ConnectSucceeds, BackoffElapses,
                        ForwardingEnds, StopLoop
    <3>2. ~up /\ ~draining
      BY <2>3, <3>1
    <3> QED BY <2>1, <3>2
  <2> QED BY <2>2, <2>3
<1>2. CASE OnConnectedUp
  BY <1>2 DEF OnConnectedUp, maintVars
<1>3. CASE OnConnectedDrain
  BY <1>3 DEF OnConnectedDrain, OnConnectedReturns
<1>4. CASE OnDisconnectedDown
  BY <1>4 DEF OnDisconnectedDown, OnDisconnectedReturns
<1>5. CASE WakeOnDemand
  BY <1>5 DEF WakeOnDemand, DemandWakes
<1>6. CASE LoseSession
  BY <1>6 DEF LoseSession, SessionDies, legVars
<1>7. CASE Cleanup
  BY <1>7 DEF Cleanup, CancelContext, legVars
<1>8. ASSUME NEW f \in Flows, FirstDatagram(f) \/ FlowNext(f) \/ WriteKept(f) \/ DropUpstream(f)
      PROVE  LegInv'
  <2>1. loop' = loop /\ up' = up /\ draining' = draining /\ (started => started')
    BY <1>8 DEF FirstDatagram, FlowNext, CheckGate, RefuseDial, DialSucceeds, DialFails, WriteKept,
                DropUpstream, legVars, maintVars
  <2> QED BY <2>1
<1>9. CASE UNCHANGED udpLegVars
  BY <1>9 DEF udpLegVars, legVars, maintVars
<1> QED
  BY <1>1, <1>2, <1>3, <1>4, <1>5, <1>6, <1>7, <1>8, <1>9 DEF LegNext, LoopNext

\* The type of the leg's state and where its loop is while the gate is up, for every set of flows.
THEOREM LegInvariant == LegSpec => [](LegTypeOK /\ LegInv)
  BY LegInitHolds, LegTypeStep, LegInvStep, LegWaitsForAReason, PTL DEF LegSpec

\* The gate of the UDP leg is up only around a session; a leg that cleanup has stopped has it down,
\* its OnConnected is over and its session closed.
THEOREM LegGate == LegSpec => []GateOnlyAroundASession
<1>1. LegTypeOK /\ LegInv /\ WaitsForAReason => GateOnlyAroundASession
  BY DEF LegInv, WaitsForAReason, GateOnlyAroundASession
<1> QED BY <1>1, LegInvariant, LegWaitsForAReason, PTL

\* However the dials race with OnConnected, a demand token is never drained while the leg is down: it
\* wakes the parked loop, or the gate it asked for is up.
THEOREM LegKeepsDemand == LegSpec => TokenKeptWhileDown
<1>1. ASSUME LegInv, [LegNext]_udpLegVars
      PROVE  [demand /\ ~demand' => (up /\ up') \/ (loop = "parked" /\ loop' = "top")]_udpLegVars
  <2> SUFFICES ASSUME LegNext, demand, ~demand'
               PROVE  (up /\ up') \/ (loop = "parked" /\ loop' = "top")
    BY <1>1
  <2>1. CASE OnConnectedDrain
    BY <1>1, <2>1 DEF OnConnectedDrain, LegInv
  <2>2. CASE WakeOnDemand
    BY <2>2 DEF WakeOnDemand, DemandWakes
  <2> QED
    BY <2>1, <2>2 DEF LegNext, LoopNext, LoopStep, OnConnectedUp, OnDisconnectedDown, LoseSession,
                      Cleanup, FirstDatagram, FlowNext, CheckGate, RefuseDial, DialSucceeds,
                      DialFails, WriteKept, DropUpstream, legVars
<1> QED BY <1>1, LegInvariant, PTL DEF LegSpec, TokenKeptWhileDown

=============================================================================
