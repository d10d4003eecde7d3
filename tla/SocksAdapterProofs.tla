------------------------- MODULE SocksAdapterProofs -------------------------
(***************************************************************************)
(* Safety of the two handlers of cmd/socks_adapter.go.                     *)
(*                                                                         *)
(* UDPAssociation, for every number of associations, destinations and      *)
(* sockets and every capacity of udpSem: the count of slots by induction   *)
(* on the set of sockets and dials it stands for, and the absence of       *)
(* orphans from an inventory of who refers to a socket.                    *)
(*                                                                         *)
(* TCPRelay, for every idle and half-open bound: what relayTCP has         *)
(* received of the two halves at each of its stages, and how far away a    *)
(* deadline can be that was armed, kept or rebound at each point of the    *)
(* race between SetIdleTimeout and a Read or Write.                        *)
(***************************************************************************)
EXTENDS UDPAssociation, TCPRelay, FiniteSetTheorems, TLAPS

-----------------------------------------------------------------------------
(* UDPAssociation *)

\* The parts of TypeOK that an action may write together.
AssocTypeOK ==
    /\ closed \in [Assocs -> BOOLEAN]
    /\ control \in [Assocs -> {"open", "gone"}]
    /\ relay \in [Assocs -> BOOLEAN]
    /\ closer \in [Assocs -> {"relay", "control", "sockets", "done"}]
    /\ toClose \in [Assocs -> SUBSET Ups]
MapTypeOK == upstreams \in [Assocs -> [Dsts -> Ups \cup {None}]]
Reader == [at : ReaderPlaces, dst : Dsts \cup {None}, up : Ups \cup {None}]
ReaderTypeOK == reader \in [Assocs -> Reader]
SockTypeOK ==
    /\ sock \in [Ups -> {"unused", "open", "shut", "released"}]
    /\ home \in [Ups -> (Assocs \X Dsts) \cup {None}]
    /\ relayer \in [Ups -> {"none", "reading", "removing", "closing"}]

\* Where forwardFromClient holds a socket that it has dialled.
Holding == {"storing", "writing", "removing", "discarding"}

\* The reader holds a socket exactly from its dial to its hand-over, and no
\* relay goroutine runs on it before that.
ReaderInv ==
    \A a \in Assocs :
        /\ reader[a].at \in Holding \cup {"resolving", "dialing"} => reader[a].dst \in Dsts
        /\ reader[a].up # None => reader[a].at \in Holding
        /\ reader[a].at \in Holding =>
             /\ reader[a].up \in Ups
             /\ sock[reader[a].up] # "unused" /\ relayer[reader[a].up] = "none"
             /\ home[reader[a].up] = <<a, reader[a].dst>>

\* A socket in the map is filed under the destination it was dialled for.
MapInv ==
    \A a \in Assocs, d \in Dsts : upstreams[a][d] # None =>
        /\ sock[upstreams[a][d]] # "unused"
        /\ home[upstreams[a][d]] = <<a, d>>

\* One call of close() per association gets past its critical section, and what
\* it still has to close was dialled for that association.
CloserInv ==
    \A a \in Assocs :
        /\ ~closed[a] => closer[a] = "done"
        /\ closer[a] = "done" => toClose[a] = {}
        /\ \A u \in toClose[a] : sock[u] # "unused" /\ home[u][1] = a

\* A socket in use has a home, and nothing relays on one that is not.
SockInv ==
    \A u \in Ups : IF sock[u] = "unused" THEN relayer[u] = "none"
                                         ELSE home[u] \in Assocs \X Dsts

OwnerInv == ReaderInv /\ MapInv /\ CloserInv /\ SockInv
IInv == TypeOK /\ OwnerInv /\ NoOrphanSocket /\ SlotsAreAccountedFor

-----------------------------------------------------------------------------
USE DEF assocVars, sockVars, ReaderPlaces

TypeParts == slots \in 0..MaxUpstreams /\ AssocTypeOK /\ MapTypeOK /\ ReaderTypeOK /\ SockTypeOK

\* The type invariant in parts, so that a step need expand only what it changes.
LEMMA TypeSplits == (TypeOK <=> TypeParts) /\ (TypeOK' <=> TypeParts')
  BY DEF TypeOK, TypeParts, AssocTypeOK, MapTypeOK, ReaderTypeOK, Reader, SockTypeOK

\* The two ways forwardFromClient's goroutine moves: its record stays well
\* formed and the other goroutines keep theirs.
LEMMA ReaderMoves ==
  ASSUME ReaderTypeOK, NEW a \in Assocs
  PROVE  /\ \A p \in ReaderPlaces : ReaderAt(a, p) =>
              /\ ReaderTypeOK'
              /\ reader'[a].at = p
              /\ reader'[a].dst = reader[a].dst /\ reader'[a].up = reader[a].up
              /\ \A b \in Assocs \ {a} : reader'[b] = reader[b]
         /\ ReaderBack(a) =>
              /\ ReaderTypeOK'
              /\ reader'[a].at = "reading" /\ reader'[a].up = None
              /\ \A b \in Assocs \ {a} : reader'[b] = reader[b]
  BY DEF ReaderTypeOK, Reader, ReaderAt, ReaderBack

\* removeUpstream leaves every entry but that of the removed socket alone.
LEMMA RemovedMap ==
  ASSUME MapTypeOK, NEW u \in Ups, home[u] \in Assocs \X Dsts
  PROVE  /\ Removed(u) \in [Assocs -> [Dsts -> Ups \cup {None}]]
         /\ \A a \in Assocs, d \in Dsts :
              Removed(u)[a][d] = upstreams[a][d] \/ (upstreams[a][d] = u /\ Removed(u)[a][d] = None)
  BY DEF MapTypeOK, Removed

\* TearDown empties the map of one association into its list.
LEMMA TearDownTypes ==
  ASSUME AssocTypeOK, MapTypeOK, NEW a \in Assocs, TearDown(a)
  PROVE  /\ closed' \in [Assocs -> BOOLEAN]
         /\ closer' \in [Assocs -> {"relay", "control", "sockets", "done"}]
         /\ toClose' \in [Assocs -> SUBSET Ups]
         /\ MapTypeOK'
<1>1. closed' \in [Assocs -> BOOLEAN]
  BY DEF AssocTypeOK, TearDown
<1>2. closer' \in [Assocs -> {"relay", "control", "sockets", "done"}]
  BY DEF AssocTypeOK, TearDown
<1>3. toClose' \in [Assocs -> SUBSET Ups]
  BY DEF AssocTypeOK, MapTypeOK, TearDown
<1>4. MapTypeOK'
  BY DEF MapTypeOK, TearDown
<1> QED BY <1>1, <1>2, <1>3, <1>4

\* Every action keeps every variable in its type.
LEMMA TypeStep == TypeOK /\ OwnerInv /\ [Next]_vars => TypeOK'
<1> SUFFICES ASSUME slots \in 0..MaxUpstreams, AssocTypeOK, MapTypeOK, ReaderTypeOK, SockTypeOK,
                    OwnerInv, [Next]_vars
             PROVE  /\ slots' \in 0..MaxUpstreams
                    /\ AssocTypeOK' /\ MapTypeOK' /\ ReaderTypeOK' /\ SockTypeOK'
  BY TypeSplits DEF TypeParts
<1>1. slots' \in 0..MaxUpstreams
  <2>1. MaxUpstreams \in Nat /\ slots \in 0..MaxUpstreams
    BY UDPAssumption
  <2>2. ReleaseUDPSlot => slots' \in 0..MaxUpstreams
    BY <2>1 DEF ReleaseUDPSlot
  <2>3. \A a \in Assocs : AcquireUDPSlot(a) => slots' \in 0..MaxUpstreams
    BY <2>1 DEF AcquireUDPSlot
  <2> QED
    BY <2>1, <2>2, <2>3
    DEF Next, ClientNext, ReaderNext, Associate, ClientLeaves, IdleReaper, NewDestination,
        DropDatagram, DialFails, DialSucceeds, StoreUpstream, StartRelay, FirstWriteFails,
        ReaderRemoves, ReaderDiscarded, ReaderEnds, ReadFails, ControlWatcher, CloserStep,
        RelayEnds, RelayRemoves, RelayClosed, CloseStep, Collect, vars
<1>2. AssocTypeOK'
  <2>1. ASSUME NEW a \in Assocs, Associate(a) PROVE AssocTypeOK'
    BY <2>1 DEF AssocTypeOK, Associate
  <2>2. ASSUME NEW a \in Assocs, ClientLeaves(a) PROVE AssocTypeOK'
    BY <2>2 DEF AssocTypeOK, ClientLeaves
  <2>3. ASSUME NEW a \in Assocs, IdleReaper(a) \/ ControlWatcher(a) PROVE AssocTypeOK'
    BY <2>3, TearDownTypes DEF AssocTypeOK, IdleReaper, ControlWatcher
  <2>4. ASSUME NEW a \in Assocs, ReaderEnds(a) PROVE AssocTypeOK'
    <3>1. relay' \in [Assocs -> BOOLEAN]
      BY <2>4 DEF AssocTypeOK, ReaderEnds
    <3> QED BY <2>4, <3>1, TearDownTypes DEF AssocTypeOK, ReaderEnds
  <2>5. ASSUME NEW a \in Assocs, CloserStep(a) PROVE AssocTypeOK'
    BY <2>5 DEF AssocTypeOK, CloserStep
  <2>6. CASE UNCHANGED assocVars
    BY <2>6 DEF AssocTypeOK
  <2> QED
    BY <2>1, <2>2, <2>3, <2>4, <2>5, <2>6
    DEF Next, ClientNext, ReaderNext, NewDestination, AcquireUDPSlot,
        DropDatagram, DialFails, DialSucceeds, StoreUpstream, StartRelay, FirstWriteFails,
        ReaderRemoves, ReaderDiscarded, ReadFails,
        RelayEnds, RelayRemoves, RelayClosed, CloseStep, Collect, vars
<1>3. MapTypeOK'
  <2>1. ASSUME NEW a \in Assocs, IdleReaper(a) \/ ControlWatcher(a) \/ ReaderEnds(a)
        PROVE  MapTypeOK'
    BY <2>1, TearDownTypes DEF MapTypeOK, IdleReaper, ControlWatcher, ReaderEnds
  <2>2. ASSUME NEW a \in Assocs, StoreUpstream(a) PROVE MapTypeOK'
    <3>1. reader[a].up \in Ups /\ reader[a].dst \in Dsts
      BY <2>2 DEF OwnerInv, ReaderInv, Holding, StoreUpstream
    <3> QED BY <2>2, <3>1 DEF MapTypeOK, StoreUpstream
  <2>3. ASSUME NEW a \in Assocs, ReaderRemoves(a) PROVE MapTypeOK'
    <3>1. reader[a].up \in Ups /\ home[reader[a].up] \in Assocs \X Dsts
      BY <2>3 DEF OwnerInv, ReaderInv, Holding, SockInv, ReaderRemoves
    <3> QED BY <2>3, <3>1, RemovedMap DEF MapTypeOK, ReaderRemoves
  <2>4. ASSUME NEW u \in Ups, RelayRemoves(u) PROVE MapTypeOK'
    <3>1. home[u] \in Assocs \X Dsts
      BY <2>4 DEF OwnerInv, SockInv, RelayRemoves
    <3> QED BY <2>4, <3>1, RemovedMap DEF MapTypeOK, RelayRemoves
  <2>5. CASE UNCHANGED upstreams
    BY <2>5 DEF MapTypeOK
  <2> QED
    BY <2>1, <2>2, <2>3, <2>4, <2>5
    DEF Next, ClientNext, ReaderNext, Associate, ClientLeaves, NewDestination, AcquireUDPSlot,
        DropDatagram, DialFails, DialSucceeds, StartRelay, FirstWriteFails,
        ReaderDiscarded, ReadFails, CloserStep,
        RelayEnds, RelayClosed, CloseStep, Collect, vars
<1>4. ReaderTypeOK'
  <2>1. ASSUME NEW a \in Assocs, NEW d \in Dsts, NewDestination(a, d) PROVE ReaderTypeOK'
    BY <2>1 DEF ReaderTypeOK, Reader, NewDestination
  <2>2. ASSUME NEW a \in Assocs, NEW u \in Ups, DialSucceeds(a, u) PROVE ReaderTypeOK'
    BY <2>2 DEF ReaderTypeOK, Reader, DialSucceeds
  <2>3. ASSUME NEW a \in Assocs, ReaderBack(a) \/ \E p \in ReaderPlaces : ReaderAt(a, p)
        PROVE  ReaderTypeOK'
    BY <2>3, ReaderMoves
  <2>4. CASE UNCHANGED reader
    BY <2>4 DEF ReaderTypeOK
  <2> QED
    BY <2>1, <2>2, <2>3, <2>4
    DEF Next, ClientNext, ReaderNext, Associate, ClientLeaves, IdleReaper, AcquireUDPSlot,
        DropDatagram, DialFails, StoreUpstream, StartRelay, FirstWriteFails,
        ReaderRemoves, ReaderDiscarded, ReaderEnds, ReadFails, ControlWatcher, CloserStep,
        RelayEnds, RelayRemoves, RelayClosed, CloseStep, Collect, vars
<1>5. SockTypeOK'
  <2> USE DEF SockTypeOK
  <2>1. ASSUME NEW a \in Assocs, NEW u \in Ups, DialSucceeds(a, u) PROVE SockTypeOK'
    BY <2>1 DEF OwnerInv, ReaderInv, DialSucceeds
  <2>2. ASSUME NEW a \in Assocs, StartRelay(a) PROVE SockTypeOK'
    BY <2>2 DEF StartRelay
  <2>3. ASSUME NEW u \in Ups, RelayEnds(u) \/ RelayRemoves(u) \/ RelayClosed(u) PROVE SockTypeOK'
    BY <2>3 DEF RelayEnds, RelayRemoves, RelayClosed
  <2>4. ASSUME NEW u \in Ups, CloseStep(u) \/ Collect(u) PROVE SockTypeOK'
    BY <2>4 DEF CloseStep, Collect
  <2>5. CASE UNCHANGED <<sock, home, relayer>>
    BY <2>5
  <2> QED
    BY <2>1, <2>2, <2>3, <2>4, <2>5
    DEF Next, ClientNext, ReaderNext, Associate, ClientLeaves, IdleReaper, AcquireUDPSlot,
        NewDestination, DropDatagram, DialFails, StoreUpstream, FirstWriteFails,
        ReaderRemoves, ReaderDiscarded, ReaderEnds, ReadFails, ControlWatcher, CloserStep, vars
<1> QED BY <1>1, <1>2, <1>3, <1>4, <1>5

-----------------------------------------------------------------------------
\* Every action keeps the inventory of who refers to which socket.
LEMMA OwnerStep == TypeOK /\ TypeOK' /\ OwnerInv /\ [Next]_vars => OwnerInv'
<1> SUFFICES ASSUME TypeOK, TypeOK', OwnerInv, [Next]_vars PROVE OwnerInv'
  OBVIOUS
<1>0. TypeParts /\ TypeParts'
  BY TypeSplits
<1>00. ReaderTypeOK
  BY <1>0 DEF TypeParts
<1>parts. ReaderInv /\ MapInv /\ CloserInv /\ SockInv
  BY DEF OwnerInv
<1> USE DEF OwnerInv, ReaderInv, MapInv, CloserInv, SockInv, Holding
<1>teardown. ASSUME NEW a \in Assocs, TearDown(a), UNCHANGED <<sock, home>>
             PROVE  MapInv' /\ CloserInv'
  <2>0. AssocTypeOK /\ MapTypeOK
    BY <1>0 DEF TypeParts
  <2>1. MapInv'
    BY <1>teardown, <2>0 DEF TearDown, MapTypeOK
  <2>2. ASSUME NEW b \in Assocs
        PROVE  /\ ~closed'[b] => closer'[b] = "done"
               /\ closer'[b] = "done" => toClose'[b] = {}
    BY <1>teardown, <2>0 DEF TearDown, AssocTypeOK
  <2>3. ASSUME NEW b \in Assocs, NEW u \in toClose'[b]
        PROVE  sock'[u] # "unused" /\ home'[u][1] = b
    <3>1. CASE b = a
      <4>1. PICK d \in Dsts : u = upstreams[a][d] /\ u # None
        BY <1>teardown, <2>0, <2>3, <3>1 DEF TearDown, AssocTypeOK
      <4>2. sock[u] # "unused" /\ home[u] = <<a, d>>
        BY <4>1 DEF OwnerInv, MapInv
      <4> QED BY <1>teardown, <3>1, <4>2
    <3>2. CASE b # a
      BY <1>teardown, <2>0, <2>3, <3>2 DEF TearDown, AssocTypeOK
    <3> QED BY <3>1, <3>2
  <2> QED BY <2>1, <2>2, <2>3
<1>1. ASSUME NEW a \in Assocs,
             \/ \E d \in Dsts : NewDestination(a, d)
             \/ DropDatagram(a) \/ AcquireUDPSlot(a) \/ DialFails(a) \/ FirstWriteFails(a)
             \/ ReaderDiscarded(a) \/ ReadFails(a)
      PROVE  OwnerInv'
  <2>1. UNCHANGED <<closed, upstreams, closer, toClose, sock, home, relayer>>
    BY <1>1 DEF NewDestination, DropDatagram, AcquireUDPSlot, DialFails, FirstWriteFails,
                ReaderDiscarded, ReadFails
  <2>2. ReaderInv'
    BY <1>00, <1>1, <2>1, ReaderMoves
    DEF NewDestination, DropDatagram, AcquireUDPSlot, DialFails, FirstWriteFails,
                ReaderDiscarded, ReadFails, ReaderTypeOK, Reader
  <2> QED BY <2>1, <2>2
<1>2. ASSUME NEW a \in Assocs, NEW u \in Ups, DialSucceeds(a, u) PROVE OwnerInv'
  BY <1>0, <1>2 DEF DialSucceeds, TypeParts, ReaderTypeOK, Reader, SockTypeOK, MapTypeOK
<1>3. ASSUME NEW a \in Assocs, StoreUpstream(a) PROVE OwnerInv'
  BY <1>0, <1>00, <1>3, ReaderMoves, SMTT(40) DEF StoreUpstream, TypeParts, MapTypeOK
<1>4. ASSUME NEW a \in Assocs, StartRelay(a) PROVE OwnerInv'
  <2> DEFINE v == reader[a].up
  <2>1. v \in Ups /\ sock[v] # "unused" /\ home[v][1] = a
    BY <1>4 DEF StartRelay
  <2>2. /\ UNCHANGED <<closed, upstreams, closer, toClose, sock, home>>
        /\ relayer' = [relayer EXCEPT ![v] = "reading"]
        /\ reader'[a].at = "reading" /\ reader'[a].up = None
        /\ \A b \in Assocs \ {a} : reader'[b] = reader[b]
    BY <1>00, <1>4, ReaderMoves DEF StartRelay
  <2>3. \A b \in Assocs \ {a} : reader[b].at \in Holding => reader[b].up # v
    BY <2>1
  <2>4. relayer \in [Ups -> {"none", "reading", "removing", "closing"}]
    BY <1>0 DEF TypeParts, SockTypeOK
  <2> HIDE DEF v
  <2>5. ReaderInv'
    BY <2>1, <2>2, <2>3, <2>4
  <2>6. SockInv'
    BY <2>1, <2>2, <2>4
  <2> QED BY <2>2, <2>5, <2>6
<1>5. ASSUME NEW a \in Assocs, ReaderRemoves(a) PROVE OwnerInv'
  <2> DEFINE v == reader[a].up
  <2>1. v \in Ups /\ home[v] \in Assocs \X Dsts
    BY <1>5 DEF ReaderRemoves
  <2>2. /\ UNCHANGED <<closed, closer, toClose, sock, home, relayer>>
        /\ upstreams' = Removed(v)
        /\ reader'[a].at = "discarding" /\ reader'[a].up = v /\ reader'[a].dst = reader[a].dst
        /\ \A b \in Assocs \ {a} : reader'[b] = reader[b]
    BY <1>00, <1>5, ReaderMoves DEF ReaderRemoves
  <2>3. ReaderInv'
    BY <1>5, <2>2 DEF ReaderRemoves
  <2>4. MapTypeOK
    BY <1>0 DEF TypeParts
  <2> HIDE DEF v
  <2>5. \A b \in Assocs, d \in Dsts : upstreams'[b][d] # None => upstreams'[b][d] = upstreams[b][d]
    BY <2>1, <2>2, <2>4, RemovedMap
  <2>6. ASSUME NEW b \in Assocs, NEW d \in Dsts, upstreams'[b][d] # None
        PROVE  /\ sock'[upstreams'[b][d]] # "unused"
               /\ home'[upstreams'[b][d]] = <<b, d>>
    <3>1. upstreams'[b][d] = upstreams[b][d]
      BY <2>5, <2>6
    <3>2. /\ sock[upstreams[b][d]] # "unused"
          /\ home[upstreams[b][d]] = <<b, d>>
      <4> HIDE DEF OwnerInv, ReaderInv, CloserInv, SockInv
      <4> QED BY <1>parts, <2>6, <3>1
    <3> QED BY <2>2, <3>1, <3>2
  <2>7. MapInv'
    BY <2>6
  <2> QED BY <2>2, <2>3, <2>7
<1>6. ASSUME NEW a \in Assocs, ReaderEnds(a) PROVE OwnerInv'
  <2>1. /\ UNCHANGED <<sock, home, relayer>>
        /\ reader'[a].at = "ended" /\ reader'[a].up = None
        /\ \A b \in Assocs \ {a} : reader'[b] = reader[b]
    BY <1>00, <1>6, ReaderMoves DEF ReaderEnds
  <2>2. MapInv' /\ CloserInv'
    <3>1. CASE closed[a]
      <4>1. UNCHANGED <<closed, closer, toClose, upstreams>>
        BY <1>6, <3>1 DEF ReaderEnds
      <4>2. UNCHANGED <<sock, home>>
        BY <2>1
      <4>3. MapInv'
        <5> HIDE DEF OwnerInv, ReaderInv, CloserInv, SockInv
        <5> QED BY <1>parts, <4>1, <4>2
      <4>4. CloserInv'
        <5> HIDE DEF OwnerInv, ReaderInv, MapInv, SockInv
        <5> QED BY <1>parts, <4>1, <4>2
      <4> QED BY <4>3, <4>4
    <3>2. CASE ~closed[a]
      BY <1>6, <1>teardown, <2>1, <3>2 DEF ReaderEnds
    <3> QED BY <3>1, <3>2
  <2>3. ReaderInv' /\ SockInv'
    BY <2>1
  <2> QED BY <2>2, <2>3
<1>7. ASSUME NEW a \in Assocs, IdleReaper(a) \/ ControlWatcher(a) PROVE OwnerInv'
  <2>1. UNCHANGED <<sock, home, relayer, reader>> /\ MapInv' /\ CloserInv'
    BY <1>7, <1>teardown DEF IdleReaper, ControlWatcher
  <2> QED BY <2>1
<1>8. ASSUME NEW a \in Assocs, Associate(a) PROVE OwnerInv'
  BY <1>0, <1>00, <1>8, ReaderMoves DEF Associate, Gone, TypeParts, AssocTypeOK
<1>9. ASSUME NEW a \in Assocs, ClientLeaves(a) PROVE OwnerInv'
  BY <1>9 DEF ClientLeaves
<1>10. ASSUME NEW a \in Assocs, CloserStep(a) PROVE OwnerInv'
  BY <1>0, <1>10 DEF CloserStep, TypeParts, AssocTypeOK
<1>11. ASSUME NEW u \in Ups, RelayEnds(u) PROVE OwnerInv'
  BY <1>0, <1>11 DEF RelayEnds, TypeParts, SockTypeOK
<1>12. ASSUME NEW u \in Ups, RelayRemoves(u) PROVE OwnerInv'
  BY <1>0, <1>12, RemovedMap DEF RelayRemoves, TypeParts, SockTypeOK, MapTypeOK
<1>13. ASSUME NEW u \in Ups, RelayClosed(u) PROVE OwnerInv'
  BY <1>0, <1>13 DEF RelayClosed, TypeParts, SockTypeOK
<1>14. ASSUME NEW u \in Ups, CloseStep(u) PROVE OwnerInv'
  <2>1. /\ UNCHANGED <<closed, upstreams, closer, toClose, home, relayer, reader>>
        /\ \A v \in Ups : sock'[v] = "unused" <=> sock[v] = "unused"
    BY <1>0, <1>14 DEF CloseStep, TypeParts, SockTypeOK
  <2>2. MapTypeOK /\ AssocTypeOK
    BY <1>0 DEF TypeParts
  <2>3. ReaderInv' /\ SockInv'
    BY <2>1
  <2>4. MapInv'
    <3> HIDE DEF OwnerInv, ReaderInv, CloserInv, SockInv
    <3> SUFFICES ASSUME NEW b \in Assocs, NEW d \in Dsts, upstreams[b][d] # None
                 PROVE  sock'[upstreams[b][d]] # "unused" /\ home[upstreams[b][d]] = <<b, d>>
      BY <2>1
    <3>1. upstreams[b][d] \in Ups
      BY <2>2 DEF MapTypeOK
    <3>2. sock[upstreams[b][d]] # "unused" /\ home[upstreams[b][d]] = <<b, d>>
      BY <1>parts
    <3> QED BY <2>1, <3>1, <3>2
  <2>5. CloserInv'
    <3> HIDE DEF OwnerInv, ReaderInv, MapInv, SockInv
    <3> QED BY <1>parts, <2>1, <2>2 DEF AssocTypeOK
  <2> QED BY <2>3, <2>4, <2>5
<1>15. ASSUME NEW u \in Ups, Collect(u) PROVE OwnerInv'
  BY <1>0, <1>15 DEF Collect, Forgotten, TypeParts, SockTypeOK
<1>16. CASE UNCHANGED vars
  <2>1. UNCHANGED <<closed, upstreams, closer, toClose, sock, home, relayer, reader>>
    BY <1>16 DEF vars
  <2>2. ReaderInv' /\ SockInv'
    <3> HIDE DEF OwnerInv, MapInv, CloserInv
    <3> QED BY <1>parts, <2>1
  <2>3. MapInv' /\ CloserInv'
    <3> HIDE DEF OwnerInv, ReaderInv, SockInv
    <3> QED BY <1>parts, <2>1
  <2> QED BY <2>2, <2>3
<1> QED
  BY <1>1, <1>2, <1>3, <1>4, <1>5, <1>6, <1>7, <1>8, <1>9, <1>10, <1>11, <1>12, <1>13,
     <1>14, <1>15, <1>16
  DEF Next, ClientNext, ReaderNext

-----------------------------------------------------------------------------
\* What NoOrphanSocket asks of one socket.
Kept(u) ==
    LET a == home[u][1]
        d == home[u][2]
    IN \/ upstreams[a][d] = u /\ (relayer[u] # "none" \/ (reader[a].up = u /\ reader[a].at \in {"writing", "removing"}))
       \/ reader[a].up = u /\ reader[a].at \in {"storing", "removing", "discarding"}
       \/ relayer[u] \in {"removing", "closing"}
       \/ u \in toClose[a]

\* A step that ends an association or a relay closes the socket it leaves behind.
LEMMA OrphanStep ==
  TypeOK /\ TypeOK' /\ OwnerInv /\ OwnerInv' /\ NoOrphanSocket /\ [Next]_vars => NoOrphanSocket'
<1> SUFFICES ASSUME TypeOK, TypeOK', OwnerInv, OwnerInv', [Next]_vars,
                    NEW u \in Ups, sock'[u] = "open", sock[u] = "open" => Kept(u)
             PROVE  Kept(u)'
  BY DEF NoOrphanSocket, Kept
<1>0. TypeParts /\ TypeParts'
  BY TypeSplits
<1>00. ReaderTypeOK
  BY <1>0 DEF TypeParts
<1> DEFINE h == home[u][1]
           k == home[u][2]
<1>1. ASSUME NEW a \in Assocs, NEW v \in Ups, DialSucceeds(a, v) PROVE Kept(u)'
  BY <1>0, <1>1 DEF DialSucceeds, TypeParts, SockTypeOK, ReaderTypeOK, Reader, Kept, OwnerInv,
                    ReaderInv, Holding
\* In all other steps the socket was open before and keeps its home.
<1>2. ASSUME sock[u] = "open", UNCHANGED home PROVE h \in Assocs /\ k \in Dsts /\ Kept(u)
  BY <1>2 DEF OwnerInv, SockInv
<1>3. ASSUME NEW a \in Assocs,
             \/ \E d \in Dsts : NewDestination(a, d)
             \/ DropDatagram(a) \/ AcquireUDPSlot(a) \/ DialFails(a)
             \/ ReadFails(a) \/ ReaderDiscarded(a)
      PROVE  Kept(u)'
  <2>1. /\ UNCHANGED <<upstreams, toClose, sock, home, relayer>>
        /\ reader[a].up # u
        /\ \A b \in Assocs \ {a} : reader'[b] = reader[b]
    <3>1. UNCHANGED <<upstreams, toClose, sock, home, relayer>>
      BY <1>3 DEF NewDestination, DropDatagram, AcquireUDPSlot, DialFails, ReadFails,
                  ReaderDiscarded
    <3>2. \A b \in Assocs \ {a} : reader'[b] = reader[b]
      BY <1>00, <1>3, ReaderMoves
      DEF NewDestination, DropDatagram, AcquireUDPSlot, DialFails, ReadFails, ReaderDiscarded,
          ReaderTypeOK
    <3>3. reader[a].at \in Holding => reader[a].up # u
      BY <1>3, <3>1 DEF NewDestination, DropDatagram, AcquireUDPSlot, DialFails, ReadFails,
                  ReaderDiscarded, Holding
    <3>4. reader[a].up # u
      BY <3>3, UDPAssumption DEF OwnerInv, ReaderInv
    <3> QED BY <3>1, <3>2, <3>4
  <2> QED BY <1>2, <2>1 DEF Kept
<1>4. ASSUME NEW a \in Assocs, StoreUpstream(a) PROVE Kept(u)'
  <2>1. /\ UNCHANGED <<toClose, sock, home, relayer>>
        /\ reader[a].at = "storing" /\ reader'[a].at \in {"writing", "discarding"}
        /\ reader'[a].up = reader[a].up
        /\ \A b \in Assocs \ {a} : reader'[b] = reader[b]
    BY <1>00, <1>4, ReaderMoves DEF StoreUpstream
  <2>2. CASE reader[a].up = u
    <3>1. h = a /\ k = reader[a].dst /\ k \in Dsts
      BY <2>1, <2>2 DEF OwnerInv, ReaderInv, Holding
    <3>2. CASE closed[a] \/ upstreams[a][k] # None
      <4>1. reader'[a].at = "discarding"
        BY <1>00, <1>4, <3>1, <3>2, ReaderMoves DEF StoreUpstream
      <4> QED BY <2>1, <2>2, <3>1, <4>1 DEF Kept
    <3>3. CASE ~(closed[a] \/ upstreams[a][k] # None)
      <4>1. reader'[a].at = "writing" /\ upstreams' = [upstreams EXCEPT ![a][k] = u]
        BY <1>00, <1>4, <2>2, <3>1, <3>3, ReaderMoves DEF StoreUpstream
      <4>2. upstreams'[a][k] = u
        BY <1>0, <3>1, <4>1 DEF TypeParts, MapTypeOK
      <4> QED BY <2>1, <2>2, <3>1, <4>1, <4>2 DEF Kept
    <3> QED BY <3>2, <3>3
  <2>3. CASE reader[a].up # u
    <3>1. h \in Assocs /\ k \in Dsts /\ Kept(u)
      BY <1>2, <2>1
    <3>2. upstreams[h][k] = u => upstreams'[h][k] = u
      <4>1. reader[a].dst \in Dsts /\ u # None
        BY <2>1, UDPAssumption DEF OwnerInv, ReaderInv, Holding
      <4>2. \/ UNCHANGED upstreams
            \/ /\ upstreams[a][reader[a].dst] = None
               /\ upstreams' = [upstreams EXCEPT ![a][reader[a].dst] = reader[a].up]
        BY <1>4 DEF StoreUpstream
      <4>3. MapTypeOK
        BY <1>0 DEF TypeParts
      <4> QED BY <3>1, <4>1, <4>2, <4>3 DEF MapTypeOK
    <3> QED BY <2>1, <2>3, <3>1, <3>2 DEF Kept
  <2> QED BY <2>2, <2>3
<1>5. ASSUME NEW a \in Assocs, StartRelay(a) PROVE Kept(u)'
  BY <1>0, <1>00, <1>2, <1>5, ReaderMoves
  DEF StartRelay, Kept, TypeParts, SockTypeOK, OwnerInv, ReaderInv, Holding
<1>6. ASSUME NEW a \in Assocs, FirstWriteFails(a) PROVE Kept(u)'
  BY <1>00, <1>2, <1>6, ReaderMoves DEF FirstWriteFails, Kept
<1>7. ASSUME NEW a \in Assocs, ReaderRemoves(a) PROVE Kept(u)'
  <2>1. /\ UNCHANGED <<toClose, sock, home, relayer>>
        /\ reader'[a].at = "discarding" /\ reader'[a].up = reader[a].up
        /\ reader[a].at = "removing"
        /\ \A b \in Assocs \ {a} : reader'[b] = reader[b]
    BY <1>00, <1>7, ReaderMoves DEF ReaderRemoves
  <2>2. reader[a].up \in Ups /\ home[reader[a].up] \in Assocs \X Dsts
        /\ home[reader[a].up][1] = a
    BY <2>1 DEF OwnerInv, ReaderInv, SockInv, Holding
  <2>3. reader[a].up # u => (upstreams[h][k] = u => upstreams'[h][k] = u)
    BY <1>0, <1>2, <1>7, <2>1, <2>2, RemovedMap DEF ReaderRemoves, TypeParts
  <2> QED BY <1>2, <2>1, <2>2, <2>3 DEF Kept
<1>8. ASSUME NEW v \in Ups, RelayRemoves(v) PROVE Kept(u)'
  <2>1. /\ UNCHANGED <<toClose, sock, home, reader>>
        /\ relayer' = [relayer EXCEPT ![v] = "closing"]
    BY <1>8 DEF RelayRemoves
  <2>2. home[v] \in Assocs \X Dsts
    BY <1>8 DEF OwnerInv, SockInv, RelayRemoves
  <2>3. v # u => (upstreams[h][k] = u => upstreams'[h][k] = u)
    BY <1>0, <1>2, <1>8, <2>1, <2>2, RemovedMap DEF RelayRemoves, TypeParts
  <2>4. relayer \in [Ups -> {"none", "reading", "removing", "closing"}]
    BY <1>0 DEF TypeParts, SockTypeOK
  <2> QED BY <1>2, <2>1, <2>3, <2>4 DEF Kept
<1>9. ASSUME NEW a \in Assocs, TearDown(a), UNCHANGED <<sock, home, relayer>>,
             \A b \in Assocs : reader'[b].up = reader[b].up /\
                 (reader[b].up # None => reader'[b].at = reader[b].at)
      PROVE  Kept(u)'
  <2>1. Kept(u) /\ h \in Assocs /\ k \in Dsts
    BY <1>2, <1>9
  <2>2. u # None
    BY UDPAssumption
  <2>3. CASE h = a
    <3>1. /\ toClose[a] = {}
          /\ upstreams[a][k] = u => u \in toClose'[a]
      BY <1>0, <1>9, <2>1, <2>2 DEF TearDown, OwnerInv, CloserInv, TypeParts, AssocTypeOK
    <3> QED BY <1>9, <2>1, <2>2, <2>3, <3>1 DEF Kept
  <2>4. CASE h # a
    <3>1. toClose'[h] = toClose[h] /\ upstreams'[h] = upstreams[h]
      BY <1>0, <1>9, <2>1, <2>4 DEF TearDown, TypeParts, AssocTypeOK, MapTypeOK
    <3> QED BY <1>9, <2>1, <2>2, <2>4, <3>1 DEF Kept
  <2> QED BY <2>3, <2>4
<1>10. ASSUME NEW a \in Assocs, IdleReaper(a) \/ ControlWatcher(a) PROVE Kept(u)'
  BY <1>9, <1>10 DEF IdleReaper, ControlWatcher
<1>11. ASSUME NEW a \in Assocs, ReaderEnds(a) PROVE Kept(u)'
  <2>1. /\ UNCHANGED <<sock, home, relayer>>
        /\ reader[a].up = None /\ reader'[a].up = None
        /\ \A b \in Assocs \ {a} : reader'[b] = reader[b]
    BY <1>00, <1>11, ReaderMoves DEF ReaderEnds, OwnerInv, ReaderInv, Holding
  <2>2. u # None
    BY UDPAssumption
  <2>3. CASE closed[a]
    <3>1. UNCHANGED <<toClose, upstreams>>
      BY <1>11, <2>3 DEF ReaderEnds
    <3> QED BY <1>2, <2>1, <2>2, <3>1 DEF Kept
  <2>4. CASE ~closed[a]
    BY <1>9, <1>11, <2>1, <2>4 DEF ReaderEnds
  <2> QED BY <2>3, <2>4
<1>12. ASSUME NEW a \in Assocs, Associate(a) PROVE Kept(u)'
  BY <1>00, <1>2, <1>12, ReaderMoves, UDPAssumption
  DEF Associate, Gone, Kept, OwnerInv, ReaderInv, Holding
<1>13. ASSUME NEW a \in Assocs, ClientLeaves(a) PROVE Kept(u)'
  BY <1>2, <1>13 DEF ClientLeaves, Kept
<1>14. ASSUME NEW a \in Assocs, CloserStep(a) PROVE Kept(u)'
  <2>1. /\ UNCHANGED <<upstreams, reader, sock, home, relayer>>
        /\ \A b \in Assocs : u \in toClose[b] => u \in toClose'[b]
    BY <1>0, <1>14 DEF CloserStep, TypeParts, AssocTypeOK
  <2> QED BY <1>2, <2>1 DEF Kept
<1>15. ASSUME NEW v \in Ups, RelayEnds(v) \/ RelayClosed(v) PROVE Kept(u)'
  <2>1. /\ UNCHANGED <<upstreams, reader, toClose, sock, home>>
        /\ relayer[u] # "none" => relayer'[u] # "none"
        /\ relayer[u] \in {"removing", "closing"} => relayer'[u] = relayer[u]
    BY <1>0, <1>15 DEF RelayEnds, RelayClosed, TypeParts, SockTypeOK
  <2> QED BY <1>2, <2>1 DEF Kept
<1>16. ASSUME NEW v \in Ups, CloseStep(v) PROVE Kept(u)'
  <2>1. /\ UNCHANGED <<upstreams, reader, toClose, relayer, home>>
        /\ sock[u] = "open"
    BY <1>0, <1>16 DEF CloseStep, TypeParts, SockTypeOK
  <2> QED BY <1>2, <2>1 DEF Kept
<1>17. ASSUME NEW v \in Ups, Collect(v) PROVE Kept(u)'
  <2>1. /\ UNCHANGED <<upstreams, reader, toClose, relayer>>
        /\ sock[u] = "open" /\ home'[u] = home[u]
    BY <1>0, <1>17 DEF Collect, TypeParts, SockTypeOK
  <2> QED BY <2>1 DEF Kept
<1>18. CASE UNCHANGED vars
  BY <1>18 DEF vars, Kept
<1> QED
  BY <1>1, <1>3, <1>4, <1>5, <1>6, <1>7, <1>8, <1>10, <1>11, <1>12, <1>13, <1>14,
     <1>15, <1>16, <1>17, <1>18
  DEF Next, ClientNext, ReaderNext

-----------------------------------------------------------------------------
\* What the tokens of udpSem stand for.
Dialing == {a \in Assocs : reader[a].at = "dialing"}
Counted == {u \in Ups : sock[u] \in {"open", "shut"}}

\* The effect of a step on the two sets is one of five, and the count follows it:
\* nothing, a dial begins, a dial fails, a dial becomes a socket, a socket is
\* given back.
LEMMA SlotStep ==
  TypeOK /\ TypeOK' /\ OwnerInv /\ SlotsAreAccountedFor /\ [Next]_vars => SlotsAreAccountedFor'
<1> SUFFICES ASSUME TypeOK, TypeOK', OwnerInv, [Next]_vars,
                    slots = Cardinality(Dialing) + Cardinality(Counted)
             PROVE  slots' = Cardinality(Dialing') + Cardinality(Counted')
  BY DEF SlotsAreAccountedFor, Dialing, Counted
<1>0. TypeParts
  BY TypeSplits
<1>00. ReaderTypeOK /\ SockTypeOK /\ slots \in Nat
  BY <1>0, UDPAssumption DEF TypeParts
<1>1. /\ IsFiniteSet(Dialing) /\ IsFiniteSet(Counted)
      /\ Cardinality(Dialing) \in Nat /\ Cardinality(Counted) \in Nat
  BY UDPAssumption, FS_Subset, FS_CardinalityType DEF Dialing, Counted
<1>2. ASSUME UNCHANGED slots, Dialing' = Dialing, Counted' = Counted
      PROVE  slots' = Cardinality(Dialing') + Cardinality(Counted')
  BY <1>2
<1>3. ASSUME NEW a \in Assocs, AcquireUDPSlot(a)
      PROVE  slots' = Cardinality(Dialing') + Cardinality(Counted')
  <2>1. a \notin Dialing /\ Dialing' = Dialing \cup {a} /\ Counted' = Counted
    BY <1>00, <1>3, ReaderMoves DEF AcquireUDPSlot, Dialing, Counted
  <2>2. Cardinality(Dialing') = Cardinality(Dialing) + 1
    BY <1>1, <2>1, FS_AddElement
  <2> QED BY <1>1, <1>3, <2>1, <2>2 DEF AcquireUDPSlot
<1>4. ASSUME NEW a \in Assocs, DialFails(a)
      PROVE  slots' = Cardinality(Dialing') + Cardinality(Counted')
  <2>1. a \in Dialing /\ Dialing' = Dialing \ {a} /\ Counted' = Counted
    BY <1>00, <1>4, ReaderMoves DEF DialFails, Dialing, Counted
  <2>2. Cardinality(Dialing') = Cardinality(Dialing) - 1 /\ Cardinality(Dialing') \in Nat
    BY <1>1, <2>1, FS_RemoveElement, FS_CardinalityType
  <2> QED BY <1>1, <1>4, <2>1, <2>2 DEF DialFails, ReleaseUDPSlot
<1>5. ASSUME NEW a \in Assocs, NEW u \in Ups, DialSucceeds(a, u)
      PROVE  slots' = Cardinality(Dialing') + Cardinality(Counted')
  <2>1. a \in Dialing /\ Dialing' = Dialing \ {a}
    BY <1>00, <1>5 DEF DialSucceeds, Dialing, ReaderTypeOK, Reader
  <2>2. u \notin Counted /\ Counted' = Counted \cup {u}
    BY <1>00, <1>5 DEF DialSucceeds, Counted, SockTypeOK
  <2>3. /\ Cardinality(Dialing') = Cardinality(Dialing) - 1
        /\ Cardinality(Counted') = Cardinality(Counted) + 1
    BY <1>1, <2>1, <2>2, FS_RemoveElement, FS_AddElement
  <2> QED BY <1>1, <1>5, <2>3 DEF DialSucceeds
<1>6. ASSUME NEW u \in Ups, CloseStep(u)
      PROVE  slots' = Cardinality(Dialing') + Cardinality(Counted')
  <2>1. Dialing' = Dialing
    BY <1>6 DEF CloseStep, Dialing
  <2>2. CASE sock[u] = "open"
    <3>1. Counted' = Counted /\ UNCHANGED slots
      BY <1>00, <1>6, <2>2 DEF CloseStep, Counted, SockTypeOK
    <3> QED BY <1>2, <2>1, <3>1
  <2>3. CASE sock[u] = "shut"
    <3>1. u \in Counted /\ Counted' = Counted \ {u} /\ ReleaseUDPSlot
      BY <1>00, <1>6, <2>3 DEF CloseStep, Counted, SockTypeOK
    <3>2. Cardinality(Counted') = Cardinality(Counted) - 1 /\ Cardinality(Counted') \in Nat
      BY <1>1, <3>1, FS_RemoveElement, FS_CardinalityType
    <3> QED BY <1>1, <2>1, <3>1, <3>2 DEF ReleaseUDPSlot
  <2> QED BY <1>6, <2>2, <2>3 DEF CloseStep
<1>7. ASSUME NEW u \in Ups, Collect(u)
      PROVE  slots' = Cardinality(Dialing') + Cardinality(Counted')
  <2>1. Dialing' = Dialing /\ Counted' = Counted /\ UNCHANGED slots
    BY <1>00, <1>7 DEF Collect, Dialing, Counted, SockTypeOK
  <2> QED BY <1>2, <2>1
<1>8. ASSUME NEW a \in Assocs,
             \/ Associate(a) \/ (\E d \in Dsts : NewDestination(a, d))
             \/ DropDatagram(a) \/ StoreUpstream(a) \/ StartRelay(a) \/ FirstWriteFails(a)
             \/ ReaderRemoves(a) \/ ReaderDiscarded(a) \/ ReaderEnds(a) \/ ReadFails(a)
      PROVE  slots' = Cardinality(Dialing') + Cardinality(Counted')
  <2>1. UNCHANGED <<slots, sock>> /\ reader[a].at # "dialing"
    BY <1>8 DEF Associate, Gone, NewDestination, DropDatagram, StoreUpstream, StartRelay,
                FirstWriteFails, ReaderRemoves, ReaderDiscarded, ReaderEnds, ReadFails
  <2>2. /\ reader'[a].at # "dialing"
        /\ \A b \in Assocs \ {a} : reader'[b] = reader[b]
    <3>1. ASSUME NEW d \in Dsts, NewDestination(a, d)
          PROVE  /\ reader'[a].at # "dialing"
                 /\ \A b \in Assocs \ {a} : reader'[b] = reader[b]
      BY <1>00, <3>1 DEF NewDestination, ReaderTypeOK
    <3> QED BY <1>00, <1>8, <3>1, ReaderMoves
        DEF Associate, DropDatagram, StoreUpstream, StartRelay, FirstWriteFails,
            ReaderRemoves, ReaderDiscarded, ReaderEnds, ReadFails
  <2>3. Dialing' = Dialing /\ Counted' = Counted
    BY <2>1, <2>2 DEF Dialing, Counted
  <2> QED BY <1>2, <2>1, <2>3
<1>9. CASE UNCHANGED <<slots, sock, reader>>
  BY <1>2, <1>9 DEF Dialing, Counted
<1> QED
  BY <1>3, <1>4, <1>5, <1>6, <1>7, <1>8, <1>9
  DEF Next, ClientNext, ReaderNext, ClientLeaves, IdleReaper, ControlWatcher, CloserStep,
      RelayEnds, RelayRemoves, RelayClosed, vars

-----------------------------------------------------------------------------
\* Before the first association no socket is open and no slot is taken.
LEMMA IInvInit == Init => IInv
<1> SUFFICES ASSUME Init PROVE IInv
  OBVIOUS
<1>1. slots \in 0..MaxUpstreams
  BY UDPAssumption DEF Init
<1>2. AssocTypeOK
  BY DEF Init, AssocTypeOK
<1>3. MapTypeOK /\ ReaderTypeOK /\ SockTypeOK
  BY DEF Init, MapTypeOK, ReaderTypeOK, Reader, SockTypeOK
<1>4. TypeOK
  BY <1>1, <1>2, <1>3, TypeSplits DEF TypeParts
<1>5. OwnerInv /\ NoOrphanSocket
  BY DEF Init, OwnerInv, ReaderInv, MapInv, CloserInv, SockInv, Holding, NoOrphanSocket
<1>6. SlotsAreAccountedFor
  <2>1. Dialing = {} /\ Counted = {} /\ slots = 0
    BY DEF Init, Dialing, Counted
  <2> QED BY <2>1, FS_EmptySet DEF SlotsAreAccountedFor, Dialing, Counted
<1> QED BY <1>4, <1>5, <1>6 DEF IInv

\* At every moment a reader, a map and a close() refer only to sockets of their own association, no
\* open socket is left without one that will close it, and udpSem counts the sockets and dials.
THEOREM AssociationInvariant == Spec => []IInv
<1>1. IInv /\ [Next]_vars => IInv'
  BY TypeStep, OwnerStep, OrphanStep, SlotStep DEF IInv
<1> QED BY <1>1, IInvInit, PTL DEF Spec

\* Type correctness of the associations: in particular udpSem never holds more
\* tokens than its capacity, and no goroutine dereferences a missing socket.
THEOREM TypeCorrect == Spec => []TypeOK
<1>1. IInv => TypeOK
  BY DEF IInv
<1> QED BY <1>1, AssociationInvariant, PTL

\* countedConn keeps the pairing of sockets and slots exact: no path through
\* forwardFromClient, removeUpstream, close() and concurrent Close calls leaks a
\* slot or gives one back twice.
THEOREM SlotsExact == Spec => []SlotsAreAccountedFor
<1>1. IInv => SlotsAreAccountedFor
  BY DEF IInv
<1> QED BY <1>1, AssociationInvariant, PTL

\* No upstream socket is orphaned, however close(), removeUpstream and the
\* second critical section of forwardFromClient interleave.
THEOREM NoOrphans == Spec => []NoOrphanSocket
<1>1. IInv => NoOrphanSocket
  BY DEF IInv
<1> QED BY <1>1, AssociationInvariant, PTL

\* A closed association has an empty map, and close() has let go of what it passed.
LeftInv ==
    \A a \in Assocs : closed[a] =>
        /\ \A d \in Dsts : upstreams[a][d] = None
        /\ closer[a] # "relay" => ~relay[a]
        /\ closer[a] \in {"sockets", "done"} => control[a] = "gone"

\* What close() collected was dialled for different destinations.
ListInv ==
    \A a \in Assocs : \A u, v \in toClose[a] : home[u] = home[v] => u = v

\* close() empties the map into its list.
LEMMA TearDownLeaves ==
  ASSUME AssocTypeOK, MapTypeOK, MapInv, LeftInv, ListInv, NEW a \in Assocs, TearDown(a),
         UNCHANGED home,
         \A b \in Assocs \ {a} : relay'[b] = relay[b] /\ control'[b] = control[b]
  PROVE  LeftInv' /\ ListInv'
<1>1. \A b \in Assocs \ {a} : /\ closed'[b] = closed[b] /\ closer'[b] = closer[b]
                              /\ upstreams'[b] = upstreams[b] /\ toClose'[b] = toClose[b]
  BY DEF TearDown, AssocTypeOK, MapTypeOK
<1>2. /\ closer'[a] = "relay" /\ \A d \in Dsts : upstreams'[a][d] = None
      /\ \A u \in toClose'[a] : \E d \in Dsts : u = upstreams[a][d] /\ u # None
  BY DEF TearDown, AssocTypeOK, MapTypeOK
<1>3. LeftInv'
  BY <1>1, <1>2 DEF LeftInv
<1>4. \A u, v \in toClose'[a] : home'[u] = home'[v] => u = v
  BY <1>2 DEF MapInv
<1>5. ListInv'
  BY <1>1, <1>4 DEF ListInv
<1> QED BY <1>3, <1>5

\* No step fills the map of a closed association or takes back what close() did.
LEMMA LeftStep == TypeOK /\ OwnerInv /\ LeftInv /\ ListInv /\ [Next]_vars => LeftInv' /\ ListInv'
<1> SUFFICES ASSUME TypeOK, OwnerInv, LeftInv, ListInv, [Next]_vars
             PROVE  LeftInv' /\ ListInv'
  OBVIOUS
<1>0. AssocTypeOK /\ MapTypeOK /\ ReaderTypeOK /\ SockTypeOK
  BY TypeSplits DEF TypeParts
<1>1. ASSUME UNCHANGED <<closed, control, relay, closer, toClose, upstreams, home>>
      PROVE  LeftInv' /\ ListInv'
  BY <1>1 DEF LeftInv, ListInv
<1>2. ASSUME NEW a \in Assocs, NEW u \in Ups, DialSucceeds(a, u)
      PROVE  LeftInv' /\ ListInv'
  <2>1. /\ UNCHANGED <<closed, control, relay, closer, toClose, upstreams>> /\ sock[u] = "unused"
        /\ \A v \in Ups \ {u} : home'[v] = home[v]
    BY <1>0, <1>2 DEF DialSucceeds, SockTypeOK
  <2>2. \A b \in Assocs : u \notin toClose[b] /\ toClose[b] \subseteq Ups
    BY <1>0, <2>1 DEF OwnerInv, CloserInv, AssocTypeOK
  <2> QED BY <2>1, <2>2 DEF LeftInv, ListInv
<1>3. ASSUME NEW u \in Ups, Collect(u)
      PROVE  LeftInv' /\ ListInv'
  <2>1. /\ UNCHANGED <<closed, control, relay, closer, toClose, upstreams>>
        /\ \A v \in Ups \ {u} : home'[v] = home[v]
    BY <1>0, <1>3 DEF Collect, SockTypeOK
  <2>2. \A b \in Assocs : u \notin toClose[b] /\ toClose[b] \subseteq Ups
    BY <1>0, <1>3 DEF Collect, Forgotten, AssocTypeOK
  <2> QED BY <2>1, <2>2 DEF LeftInv, ListInv
<1>4. ASSUME NEW a \in Assocs, StoreUpstream(a)
      PROVE  LeftInv' /\ ListInv'
  <2>1. /\ UNCHANGED <<closed, control, relay, closer, toClose, home>>
        /\ closed[a] => upstreams' = upstreams
        /\ \A b \in Assocs \ {a} : upstreams'[b] = upstreams[b]
    BY <1>0, <1>4 DEF StoreUpstream, MapTypeOK
  <2> QED BY <2>1 DEF LeftInv, ListInv
<1>5. ASSUME NEW u \in Ups, home[u] \in Assocs \X Dsts, upstreams' = Removed(u),
             UNCHANGED <<closed, control, relay, closer, toClose, home>>
      PROVE  LeftInv' /\ ListInv'
  BY <1>0, <1>5, RemovedMap DEF LeftInv, ListInv
<1>6. ASSUME NEW a \in Assocs, ReaderRemoves(a)
      PROVE  LeftInv' /\ ListInv'
  <2>1. reader[a].up \in Ups /\ home[reader[a].up] \in Assocs \X Dsts
    BY <1>6 DEF ReaderRemoves, OwnerInv, ReaderInv, SockInv, Holding
  <2> QED BY <1>5, <1>6, <2>1 DEF ReaderRemoves
<1>7. ASSUME NEW u \in Ups, RelayRemoves(u)
      PROVE  LeftInv' /\ ListInv'
  <2>1. home[u] \in Assocs \X Dsts
    BY <1>7 DEF RelayRemoves, OwnerInv, SockInv
  <2> QED BY <1>5, <1>7, <2>1 DEF RelayRemoves
<1>8. ASSUME NEW a \in Assocs, TearDown(a), UNCHANGED <<home, control>>,
             \A b \in Assocs \ {a} : relay'[b] = relay[b]
      PROVE  LeftInv' /\ ListInv'
  BY <1>0, <1>8, TearDownLeaves DEF OwnerInv
<1>9. ASSUME NEW a \in Assocs, IdleReaper(a) \/ ControlWatcher(a)
      PROVE  LeftInv' /\ ListInv'
  BY <1>8, <1>9 DEF IdleReaper, ControlWatcher
<1>10. ASSUME NEW a \in Assocs, ReaderEnds(a)
       PROVE  LeftInv' /\ ListInv'
  <2>1. /\ ~relay'[a] /\ UNCHANGED <<home, control>>
        /\ \A b \in Assocs \ {a} : relay'[b] = relay[b]
    BY <1>0, <1>10 DEF ReaderEnds, AssocTypeOK
  <2>2. CASE closed[a]
    <3>1. UNCHANGED <<closed, closer, toClose, upstreams>>
      BY <1>10, <2>2 DEF ReaderEnds
    <3> QED BY <2>1, <3>1 DEF LeftInv, ListInv
  <2>3. CASE ~closed[a]
    BY <1>8, <1>10, <2>1, <2>3 DEF ReaderEnds
  <2> QED BY <2>2, <2>3
<1>11. ASSUME NEW a \in Assocs, Associate(a)
       PROVE  LeftInv' /\ ListInv'
  <2>1. /\ UNCHANGED <<closer, toClose, upstreams, home>> /\ ~closed'[a]
        /\ \A b \in Assocs \ {a} : /\ closed'[b] = closed[b]
                                   /\ control'[b] = control[b] /\ relay'[b] = relay[b]
    BY <1>0, <1>11 DEF Associate, AssocTypeOK
  <2> QED BY <2>1 DEF LeftInv, ListInv
<1>12. ASSUME NEW a \in Assocs, ClientLeaves(a)
       PROVE  LeftInv' /\ ListInv'
  <2>1. /\ UNCHANGED <<closed, relay, closer, toClose, upstreams, home>>
        /\ \A b \in Assocs : control'[b] = "gone" \/ control'[b] = control[b]
    BY <1>0, <1>12 DEF ClientLeaves, AssocTypeOK
  <2> QED BY <2>1 DEF LeftInv, ListInv
<1>13. ASSUME NEW a \in Assocs, CloserStep(a)
       PROVE  LeftInv' /\ ListInv'
  <2>1. /\ UNCHANGED <<closed, upstreams, home>>
        /\ \A b \in Assocs \ {a} : /\ closer'[b] = closer[b] /\ control'[b] = control[b]
                                   /\ relay'[b] = relay[b]
        /\ \A b \in Assocs : toClose'[b] \subseteq toClose[b]
    BY <1>0, <1>13 DEF CloserStep, AssocTypeOK
  <2>2. \/ closer'[a] = "control" /\ ~relay'[a] /\ control'[a] = control[a]
        \/ closer[a] = "control" /\ closer'[a] = "sockets" /\ control'[a] = "gone" /\ relay'[a] = relay[a]
        \/ /\ closer[a] = "sockets" /\ closer'[a] \in {"sockets", "done"}
           /\ relay' = relay /\ control' = control
    BY <1>0, <1>13 DEF CloserStep, AssocTypeOK
  <2>3. ListInv'
    BY <2>1 DEF ListInv
  <2>4. LeftInv'
    BY <2>1, <2>2 DEF LeftInv
  <2> QED BY <2>3, <2>4
<1>14. ASSUME NEW a \in Assocs,
              \/ \E d \in Dsts : NewDestination(a, d)
              \/ DropDatagram(a) \/ AcquireUDPSlot(a) \/ DialFails(a) \/ StartRelay(a)
              \/ FirstWriteFails(a) \/ ReaderDiscarded(a) \/ ReadFails(a)
       PROVE  LeftInv' /\ ListInv'
  BY <1>1, <1>14 DEF NewDestination, DropDatagram, AcquireUDPSlot, DialFails, StartRelay,
                     FirstWriteFails, ReaderDiscarded, ReadFails
<1>15. ASSUME NEW u \in Ups, RelayEnds(u) \/ RelayClosed(u) \/ CloseStep(u)
       PROVE  LeftInv' /\ ListInv'
  BY <1>1, <1>15 DEF RelayEnds, RelayClosed, CloseStep
<1>16. CASE UNCHANGED vars
  BY <1>1, <1>16 DEF vars
<1> QED
  BY <1>2, <1>3, <1>4, <1>6, <1>7, <1>9, <1>10, <1>11, <1>12, <1>13, <1>14, <1>15, <1>16
  DEF Next, ClientNext, ReaderNext

\* A closed association is empty and close() releases in order, at every moment.
LEMMA LeftAlways == Spec => [](LeftInv /\ ListInv)
<1>1. Init => LeftInv /\ ListInv
  BY DEF Init, LeftInv, ListInv
<1>2. IInv /\ LeftInv /\ ListInv /\ [Next]_vars => LeftInv' /\ ListInv'
  BY LeftStep DEF IInv
<1> QED BY <1>1, <1>2, AssociationInvariant, PTL DEF Spec

\* Two sockets of one association never relay the same destination, for every
\* interleaving of close(), removeUpstream and a dial in progress.
THEOREM OneRelay == Spec => []OneRelayPerDestination
<1>1. IInv /\ LeftInv /\ ListInv => OneRelayPerDestination
  <2> SUFFICES ASSUME IInv, LeftInv, ListInv, NEW u \in Ups, NEW v \in Ups,
                      sock[u] = "open", sock[v] = "open",
                      relayer[u] = "reading", relayer[v] = "reading", home[u] = home[v]
               PROVE  u = v
    BY DEF OneRelayPerDestination
  <2> DEFINE a == home[u][1]
             d == home[u][2]
  <2>1. home[u] \in Assocs \X Dsts
    BY DEF IInv, OwnerInv, SockInv
  <2>2. a \in Assocs /\ d \in Dsts
    BY <2>1
  <2>3. ASSUME NEW w \in Ups, sock[w] = "open", relayer[w] = "reading", home[w] = home[u]
        PROVE  upstreams[a][d] = w \/ w \in toClose[a]
    BY <2>2, <2>3 DEF IInv, OwnerInv, ReaderInv, Holding, NoOrphanSocket
  <2>4. closed[a] => upstreams[a][d] = None
    BY <2>2 DEF LeftInv
  <2>5. ~closed[a] => toClose[a] = {}
    BY <2>2 DEF IInv, OwnerInv, CloserInv
  <2>6. u # None /\ v # None
    BY UDPAssumption
  <2>7. \A x, y \in toClose[a] : home[x] = home[y] => x = y
    BY <2>2 DEF ListInv
  <2>8. /\ upstreams[a][d] = u \/ u \in toClose[a]
        /\ upstreams[a][d] = v \/ v \in toClose[a]
    BY <2>3
  <2> HIDE DEF a, d
  <2> QED BY <2>4, <2>5, <2>6, <2>7, <2>8
<1> QED BY <1>1, AssociationInvariant, LeftAlways, PTL

\* An association that is gone holds nothing, whoever called close(): the safety
\* half of LeavingFreesEverything.
THEOREM GoneIsEmpty == Spec => []GoneHoldsNothing
<1>1. IInv /\ LeftInv => GoneHoldsNothing
  <2> SUFFICES ASSUME IInv, LeftInv, NEW a \in Assocs, Gone(a)
               PROVE  /\ ~relay[a] /\ control[a] = "gone"
                      /\ toClose[a] = {} /\ reader[a].up = None
                      /\ \A d \in Dsts : upstreams[a][d] = None
    BY DEF GoneHoldsNothing
  <2>1. closed[a] /\ closer[a] = "done" /\ reader[a].at = "ended"
    BY DEF Gone
  <2>2. ~relay[a] /\ control[a] = "gone" /\ \A d \in Dsts : upstreams[a][d] = None
    BY <2>1 DEF LeftInv
  <2>3. toClose[a] = {} /\ reader[a].up = None
    BY <2>1 DEF IInv, OwnerInv, CloserInv, ReaderInv, Holding
  <2> QED BY <2>2, <2>3
<1> QED BY <1>1, AssociationInvariant, LeftAlways, PTL

-----------------------------------------------------------------------------
(* TCPRelay *)

\* Three quarters of a bound.
Bound(n) == n - n \div 4

\* Where relayTCP has received one result, and where both.
OneReceived  == {"override", "bump", "reset", "rebound", "second", "tear", "reclaim"}
BothReceived == {"close", "returned"}

\* The result of half h is in errc.
Queued(h) == \E i \in DOMAIN errc : errc[i] = h

\* A half sends one result, when it is done, and relayTCP receives each once.
ResultInv ==
    /\ errc \in {<<>>, <<"up">>, <<"down">>, <<"up", "down">>, <<"down", "up">>}
    /\ \A h \in Halves : Queued(h) => At(h, "done")
    /\ main[1] = "first" => \A h \in Halves : At(h, "done") => Queued(h)
    /\ main[1] \in OneReceived =>
         \E h \in Halves : /\ At(h, "done") /\ ~Queued(h)
                           /\ \A g \in Halves \ {h} : At(g, "done") => Queued(g)
    /\ main[1] \in BothReceived => errc = <<>> /\ \A h \in Halves : At(h, "done")

\* The Close calls are made in order, and none is undone.
CloseInv ==
    /\ main \in {<<"tear", "upstream">>, <<"close", "upstream">>} => ~open["client"]
    /\ main[1] \in {"reclaim", "returned"} => ~open["client"] /\ ~open["upstream"]

\* How far SetIdleTimeout has come: each connection's generation is bumped at
\* most once, after its override.
Before(e) ==
    {<<"first", "-">>, <<"override", "client">>, <<"bump", "client">>} \cup
    IF e = "client" THEN {}
    ELSE {<<"reset", "client">>, <<"rebound", "client">>,
          <<"override", "upstream">>, <<"bump", "upstream">>}
LowerInv ==
    \A e \in Conns :
        /\ main \in Before(e) => gen[e] = 0
        /\ main \in {<<"bump", e>>, <<"reset", e>>, <<"rebound", e>>} => lowered[e]
        /\ main = <<"rebound", e>> =>
             \A h \in Halves, o \in Ops : ConnOf(h, o) = e => age[h][o] \in {0, Idle}

\* The bound that Read or Write loaded is the one in force, or the longer one
\* that SetIdleTimeout has just replaced.
LoadedInv(h) ==
    half[h].at \in {"gen", "age", "arm", "mark", "recheck"} =>
        half[h].idle = Idle \/ (half[h].idle = HalfOpen /\ lowered[Conn(h)])

\* A deadline that has just been armed is at least the bound in force away.
ArmedInv(h) ==
    half[h].at \in {"mark", "recheck"} => deadline[h][half[h].op] >= IdleOf(Conn(h))

\* A mark that may still be trusted tells the distance of the deadline.  One of
\* the shorter bound is older than the current instant only if the half will
\* load, or has loaded, the shorter bound.
MarkInv(h) ==
    \A o \in Ops : age[h][o] < Idle =>
        \/ deadline[h][o] + age[h][o] >= Idle
        \/ /\ lowered[ConnOf(h, o)]
           /\ deadline[h][o] + age[h][o] >= HalfOpen
           /\ half[h].op = o /\ half[h].at \in {"gen", "age"}
                => half[h].idle = HalfOpen \/ age[h][o] = 0

\* A half that waits has been quiet, or will have been when its deadline passes,
\* for three quarters of the bound in force.
QuietInv(h) ==
    half[h].at = "blocked" /\ quiet[h] < Idle =>
        quiet[h] + deadline[h][half[h].op] >= Bound(IdleOf(Conn(h)))

TimeInv(h) == LoadedInv(h) /\ ArmedInv(h) /\ MarkInv(h) /\ QuietInv(h)

RelayIInv ==
    RelayTypeOK /\ ResultInv /\ CloseInv /\ LowerInv /\ \A h \in Halves : TimeInv(h)

RelayHalf == [at : Places, op : Ops, idle : 0..Idle, gen : 0..1]

\* The halves, connections and operations are the two constants of each kind.
LEMMA RelayTypes ==
    /\ Idle \in Nat \ {0} /\ HalfOpen \in 0..Idle /\ MaxMoves \in Nat
    /\ NoDeadline \in Nat /\ Idle \in 0..NoDeadline /\ 0..Idle \subseteq 0..NoDeadline
    /\ \A h, o : ConnOf(h, o) \in Conns
BY RelayAssumption DEF NoDeadline, ConnOf, Conns

\* relayTCP starts in the invariant.
LEMMA RelayInitial == RelayInit => RelayIInv
<1> SUFFICES ASSUME RelayInit PROVE RelayIInv
  OBVIOUS
<1> USE RelayTypes
<1>1. RelayTypeOK
  <2>1. half \in [Halves -> RelayHalf]
    BY DEF RelayInit, RelayHalf, Begin, Places, Ops
  <2>2. /\ age \in [Halves -> [Ops -> 0..Idle]]
        /\ deadline \in [Halves -> [Ops -> 0..NoDeadline]]
    BY DEF RelayInit, NoDeadline
  <2>3. main \in ({"first", "second", "reclaim", "returned"} \X {"-"})
    BY DEF RelayInit
  <2> QED BY <2>1, <2>2, <2>3 DEF RelayInit, RelayTypeOK, RelayHalf, Endings
<1>2. ResultInv /\ CloseInv
  BY DEF RelayInit, ResultInv, CloseInv, Queued, At, Begin, OneReceived, BothReceived, Halves
<1>3. LowerInv /\ \A h \in Halves : TimeInv(h)
  BY DEF RelayInit, LowerInv, TimeInv, LoadedInv, ArmedInv, MarkInv, QuietInv, At, Begin, Halves, Ops
<1> QED BY <1>1, <1>2, <1>3 DEF RelayIInv

\* Moving a goroutine to another place keeps the type of the halves.
LEMMA GoTypes ==
    ASSUME half \in [Halves -> RelayHalf], NEW h \in Halves, NEW p \in Places, Go(h, p)
    PROVE  half' \in [Halves -> RelayHalf]
BY DEF Go, RelayHalf

\* The same for a goroutine that starts waiting in its Read or Write.
LEMMA BlockTypes ==
    ASSUME half \in [Halves -> RelayHalf], NEW h \in Halves, Block(h)
    PROVE  half' \in [Halves -> RelayHalf]
<1>1. [Begin(half[h].op) EXCEPT !.at = "blocked"] \in RelayHalf
  BY RelayTypes DEF Begin, RelayHalf, Places
<1> QED BY <1>1 DEF Block

\* The same for an ending.
LEMMA EndTypes ==
    ASSUME half \in [Halves -> RelayHalf], ended \in [Halves -> Endings],
           NEW h \in Halves, NEW how \in Endings, End(h, how)
    PROVE  half' \in [Halves -> RelayHalf] /\ ended' \in [Halves -> Endings]
BY GoTypes DEF End, Places

\* What a TimeoutConn keeps is typed by what is stored in it.
LEMMA ArmTypes ==
    ASSUME deadline \in [Halves -> [Ops -> 0..NoDeadline]], half \in [Halves -> RelayHalf],
           NEW h \in Halves, NEW t \in 0..Idle, Arm(h, t)
    PROVE  deadline' \in [Halves -> [Ops -> 0..NoDeadline]]
BY RelayTypes DEF Arm, RelayHalf

\* The bound in force is one of the two.
LEMMA IdleOfTypes ==
    ASSUME NEW e
    PROVE  IdleOf(e) \in 0..Idle
BY RelayTypes DEF IdleOf

\* The parts of RelayTypeOK that are written together.
MainType == main \in ({"first", "second", "reclaim", "returned"} \X {"-"}) \cup (Stages \X Conns)
ErrcType == errc \in {<<>>} \cup {<<h>> : h \in Halves} \cup (Halves \X Halves)
CopyType ==
    /\ half \in [Halves -> RelayHalf]
    /\ ended \in [Halves -> Endings]
    /\ quiet \in [Halves -> 0..Idle]
    /\ moves \in 0..MaxMoves
TimerType ==
    /\ lowered \in [Conns -> BOOLEAN]
    /\ gen \in [Conns -> 0..1]
    /\ age \in [Halves -> [Ops -> 0..Idle]]
    /\ deadline \in [Halves -> [Ops -> 0..NoDeadline]]
OpenType == open \in [Conns -> BOOLEAN]

\* RelayTypeOK is the conjunction of its parts.
LEMMA RelayTypeSplits == RelayTypeOK <=> MainType /\ ErrcType /\ CopyType /\ TimerType /\ OpenType
BY DEF RelayTypeOK, MainType, ErrcType, CopyType, TimerType, OpenType, RelayHalf

\* A copying goroutine writes what its type allows.
LEMMA HalfTypes ==
    ASSUME CopyType, TimerType, NEW h \in Halves, HalfStep(h) \/ Move(h) \/ PeerEnds(h)
    PROVE  CopyType' /\ TimerType'
<1> USE RelayTypes, IdleOfTypes
<1> USE DEF CopyType, TimerType
<1>1. CASE LoadIdle(h)
  <2>1. half' \in [Halves -> RelayHalf]
    BY ZenonT(60), <1>1 DEF LoadIdle, RelayHalf, Places
  <2> QED BY <1>1, <2>1 DEF LoadIdle, connVars
<1>2. CASE LoadGen(h)
  <2>1. half' \in [Halves -> RelayHalf]
    BY ZenonT(60), <1>2 DEF LoadGen, RelayHalf, Places, Conn
  <2> QED BY <1>2, <2>1 DEF LoadGen, connVars
<1>3. CASE LoadAge(h)
  <2>1. half' \in [Halves -> RelayHalf]
    BY <1>3, GoTypes, BlockTypes DEF LoadAge, Places
  <2> QED BY <1>3, <2>1 DEF LoadAge, connVars
<1>4. CASE ArmDeadline(h)
  <2>1. half[h].idle \in 0..Idle
    BY DEF RelayHalf
  <2>2. half' \in [Halves -> RelayHalf] /\ ended' \in [Halves -> Endings]
    BY <1>4, GoTypes, EndTypes DEF ArmDeadline, Places, Endings
  <2>3. deadline' \in [Halves -> [Ops -> 0..NoDeadline]]
    BY <1>4, <2>1, ArmTypes DEF ArmDeadline
  <2> QED BY <1>4, <2>2, <2>3 DEF ArmDeadline
<1>5. CASE MarkArmed(h)
  <2>1. half' \in [Halves -> RelayHalf]
    BY <1>5, GoTypes DEF MarkArmed, Places
  <2>2. age' \in [Halves -> [Ops -> 0..Idle]]
    <3>1. half[h].op \in Ops
      BY DEF RelayHalf
    <3> QED BY <1>5, <3>1 DEF MarkArmed
  <2> QED BY <1>5, <2>1, <2>2 DEF MarkArmed
<1>6. CASE Recheck(h)
  <2>1. half' \in [Halves -> RelayHalf] /\ ended' \in [Halves -> Endings]
    BY <1>6, BlockTypes, EndTypes DEF Recheck, Endings
  <2>2. deadline' \in [Halves -> [Ops -> 0..NoDeadline]]
    BY <1>6, ArmTypes DEF Recheck
  <2> QED BY <1>6, <2>1, <2>2 DEF Recheck
<1>7. CASE Unblocks(h)
  <2>1. half' \in [Halves -> RelayHalf] /\ ended' \in [Halves -> Endings]
    BY <1>7, EndTypes DEF Unblocks, Endings
  <2> QED BY <1>7, <2>1 DEF Unblocks, connVars
<1>8. CASE SendResult(h)
  <2>1. half' \in [Halves -> RelayHalf]
    BY <1>8, GoTypes DEF SendResult, Places
  <2> QED BY <1>8, <2>1 DEF SendResult, connVars
<1>9. CASE Move(h)
  <2>1. Begin(IF half[h].op = "read" THEN "write" ELSE "read") \in RelayHalf
    BY DEF Begin, RelayHalf, Places, Ops
  <2>2. half' \in [Halves -> RelayHalf] /\ quiet' \in [Halves -> 0..Idle]
    BY <1>9, <2>1 DEF Move
  <2>3. moves' \in 0..MaxMoves
    BY <1>9 DEF Move
  <2> QED BY <1>9, <2>2, <2>3 DEF Move, connVars
<1>10. CASE PeerEnds(h)
  <2>1. half' \in [Halves -> RelayHalf] /\ ended' \in [Halves -> Endings]
    BY <1>10, EndTypes DEF PeerEnds, Endings
  <2> QED BY <1>10, <2>1 DEF PeerEnds, connVars
<1> QED
  BY <1>1, <1>2, <1>3, <1>4, <1>5, <1>6, <1>7, <1>8, <1>9, <1>10 DEF HalfStep

\* relayTCP moves through its stages.
LEMMA MainTypes ==
    ASSUME MainType, MainStep
    PROVE  MainType'
<1> USE DEF MainType, Stages, Conns
<1>1. CASE ReceiveFirst
  BY <1>1 DEF ReceiveFirst
<1>2. CASE ReceiveSecond
  BY <1>2 DEF ReceiveSecond
<1>3. ASSUME NEW e \in Conns, StoreOverride(e) \/ BumpGen(e) \/ ResetMarks(e) \/ Rebound(e)
      PROVE  MainType'
  BY <1>3 DEF StoreOverride, BumpGen, ResetMarks, Rebound
<1>4. ASSUME NEW e \in Conns, CloseConn(e)
      PROVE  MainType'
  BY <1>4 DEF CloseConn
<1> QED BY <1>1, <1>2, <1>3, <1>4 DEF MainStep

\* relayTCP and the environment write what their types allow; idleGen is bumped
\* once per connection.
LEMMA TimerTypes ==
    ASSUME TimerType, CopyType, OpenType, LowerInv, MainStep \/ ResetByTunnel \/ Tick
    PROVE  TimerType' /\ CopyType' /\ OpenType'
<1> USE RelayTypes
<1> USE DEF TimerType, CopyType, OpenType
<1>1. CASE ReceiveFirst \/ ReceiveSecond
  BY <1>1 DEF ReceiveFirst, ReceiveSecond, connVars
<1>2. ASSUME NEW e \in Conns, StoreOverride(e)
      PROVE  TimerType' /\ CopyType' /\ OpenType'
  BY <1>2 DEF StoreOverride
<1>3. ASSUME NEW e \in Conns, BumpGen(e)
      PROVE  TimerType' /\ CopyType' /\ OpenType'
  <2>1. gen[e] = 0
    BY <1>3 DEF BumpGen, LowerInv, Before, Conns
  <2> QED BY <1>3, <2>1 DEF BumpGen
<1>4. ASSUME NEW e \in Conns, ResetMarks(e)
      PROVE  TimerType' /\ CopyType' /\ OpenType'
  <2>1. age' \in [Halves -> [Ops -> 0..Idle]]
    BY <1>4 DEF ResetMarks
  <2> QED BY <1>4, <2>1 DEF ResetMarks
<1>5. ASSUME NEW e \in Conns, Rebound(e)
      PROVE  TimerType' /\ CopyType' /\ OpenType'
  <2>1. ASSUME NEW h \in Halves
        PROVE  [deadline[h] EXCEPT !["read"] = HalfOpen] \in [Ops -> 0..NoDeadline]
    BY DEF Ops
  <2>2. deadline' \in [Halves -> [Ops -> 0..NoDeadline]]
    BY <1>5, <2>1 DEF Rebound
  <2> QED BY <1>5, <2>2 DEF Rebound
<1>6. ASSUME NEW e \in Conns, CloseConn(e)
      PROVE  TimerType' /\ CopyType' /\ OpenType'
  BY <1>6 DEF CloseConn, connVars
<1>7. CASE ResetByTunnel
  BY <1>7 DEF ResetByTunnel, connVars
<1>8. CASE Tick
  <2>1. \A n \in 0..Idle : Older(n) \in 0..Idle
    BY DEF Older
  <2>2. \A n \in 0..NoDeadline : Nearer(n) \in 0..NoDeadline
    BY DEF Nearer
  <2>3. age' \in [Halves -> [Ops -> 0..Idle]]
    BY <1>8, <2>1 DEF Tick
  <2>4. deadline' \in [Halves -> [Ops -> 0..NoDeadline]]
    BY <1>8, <2>2 DEF Tick
  <2>5. quiet' \in [Halves -> 0..Idle]
    BY <1>8, <2>1 DEF Tick
  <2> QED BY <1>8, <2>3, <2>4, <2>5 DEF Tick
<1> QED BY <1>1, <1>2, <1>3, <1>4, <1>5, <1>6, <1>7, <1>8 DEF MainStep

\* A send on the channel that holds one result.
LEMMA AppendPair ==
    ASSUME NEW x \in Halves, NEW y \in Halves
    PROVE  Append(<<x>>, y) = <<x, y>>
<1> DEFINE s == Append(<<x>>, y)
           t == <<x, y>>
<1>1. s \in Seq(Halves) /\ Len(s) = 2 /\ s[1] = x /\ s[2] = y
  OBVIOUS
<1>2. t \in Seq(Halves) /\ Len(t) = 2 /\ t[1] = x /\ t[2] = y
  OBVIOUS
<1> HIDE DEF s, t
<1>3. s = t
  BY <1>1, <1>2
<1> QED BY <1>3 DEF s, t

\* The channel as a sequence: what a send and a receive leave in it.
LEMMA ErrcCases ==
    ASSUME ResultInv
    PROVE  /\ \A h \in Halves : ~Queued(h) =>
                /\ Append(errc, h) \in {<<>>, <<"up">>, <<"down">>, <<"up", "down">>, <<"down", "up">>}
                /\ \A g : (\E i \in DOMAIN Append(errc, h) : Append(errc, h)[i] = g) <=> Queued(g) \/ g = h
           /\ errc # <<>> =>
                /\ Head(errc) \in Halves /\ Queued(Head(errc))
                /\ Tail(errc) \in {<<>>, <<"up">>, <<"down">>}
                /\ \A g : (\E i \in DOMAIN Tail(errc) : Tail(errc)[i] = g) <=> Queued(g) /\ g # Head(errc)
<1>1. CASE errc = <<>>
  BY <1>1 DEF Queued, Halves
<1>2. CASE errc = <<"up">>
  <2>1. \A g : Queued(g) <=> g = "up"
    BY <1>2 DEF Queued
  <2>2. Append(errc, "down") = <<"up", "down">> /\ Head(errc) = "up" /\ Tail(errc) = <<>>
    BY <1>2, AppendPair DEF Halves
  <2>3. \A g : (\E i \in DOMAIN <<"up", "down">> : <<"up", "down">>[i] = g) <=> g = "up" \/ g = "down"
    OBVIOUS
  <2> QED BY <1>2, <2>1, <2>2, <2>3 DEF Halves
<1>3. CASE errc = <<"down">>
  <2>1. \A g : Queued(g) <=> g = "down"
    BY <1>3 DEF Queued
  <2>2. Append(errc, "up") = <<"down", "up">> /\ Head(errc) = "down" /\ Tail(errc) = <<>>
    BY <1>3, AppendPair DEF Halves
  <2>3. \A g : (\E i \in DOMAIN <<"down", "up">> : <<"down", "up">>[i] = g) <=> g = "down" \/ g = "up"
    OBVIOUS
  <2> QED BY <1>3, <2>1, <2>2, <2>3 DEF Halves
<1>4. CASE errc = <<"up", "down">>
  BY <1>4 DEF Queued, Halves
<1>5. CASE errc = <<"down", "up">>
  BY <1>5 DEF Queued, Halves
<1> QED BY <1>1, <1>2, <1>3, <1>4, <1>5 DEF ResultInv

\* A step of a half that is not its last leaves its result unsent.
LEMMA HalfStays ==
    ASSUME CopyType, NEW h \in Halves, HalfStep(h) \/ Move(h) \/ PeerEnds(h), ~SendResult(h)
    PROVE  /\ UNCHANGED <<errc, main, open>>
           /\ \A g \in Halves : At(g, "done")' <=> At(g, "done")
<1> USE DEF At, Go, Block, End, Begin, CopyType, RelayHalf
<1>1. CASE LoadIdle(h) \/ LoadGen(h) \/ LoadAge(h)
  BY <1>1 DEF LoadIdle, LoadGen, LoadAge
<1>2. CASE ArmDeadline(h)
  BY SMTT(30), <1>2 DEF ArmDeadline
<1>3. CASE MarkArmed(h)
  BY <1>3 DEF MarkArmed
<1>4. CASE Recheck(h)
  BY <1>4 DEF Recheck
<1>5. CASE Unblocks(h) \/ PeerEnds(h)
  BY <1>5 DEF Unblocks, PeerEnds
<1>6. CASE Move(h)
  BY <1>6 DEF Move
<1> QED BY <1>1, <1>2, <1>3, <1>4, <1>5, <1>6 DEF HalfStep

\* Results are sent and received one by one.
LEMMA ResultStep ==
    ASSUME CopyType, MainType, ResultInv, RelayNext
    PROVE  ResultInv'
<1> USE DEF OneReceived, BothReceived
<1>1. ASSUME NEW h \in Halves, HalfStep(h) \/ Move(h) \/ PeerEnds(h), ~SendResult(h)
      PROVE  ResultInv'
  BY <1>1, HalfStays DEF ResultInv, Queued
<1>2. ASSUME NEW h \in Halves, SendResult(h)
      PROVE  ResultInv'
  <2>1. /\ main' = main /\ errc' = Append(errc, h)
        /\ ~At(h, "done")
        /\ \A g \in Halves : At(g, "done")' <=> At(g, "done") \/ g = h
    BY <1>2 DEF SendResult, Go, At, CopyType, RelayHalf
  <2>2. ~Queued(h)
    BY <2>1 DEF ResultInv
  <2>3. \A g \in Halves : Queued(g)' <=> Queued(g) \/ g = h
    BY <2>1, <2>2, ErrcCases DEF Queued
  <2>4. errc' \in {<<>>, <<"up">>, <<"down">>, <<"up", "down">>, <<"down", "up">>}
    BY <2>1, <2>2, ErrcCases
  <2>5. main[1] \notin BothReceived
    BY <2>1 DEF ResultInv
  <2> QED BY <2>1, <2>2, <2>3, <2>4, <2>5 DEF ResultInv
<1>3. ASSUME ReceiveFirst \/ ReceiveSecond
      PROVE  ResultInv'
  <2>1. /\ half' = half /\ errc # <<>> /\ errc' = Tail(errc)
        /\ \A g \in Halves : At(g, "done")' <=> At(g, "done")
    BY <1>3 DEF ReceiveFirst, ReceiveSecond, At
  <2>2. /\ Head(errc) \in Halves /\ Queued(Head(errc)) /\ At(Head(errc), "done")
        /\ \A g \in Halves : Queued(g)' <=> Queued(g) /\ g # Head(errc)
        /\ errc' \in {<<>>, <<"up">>, <<"down">>}
    BY <2>1, ErrcCases DEF Queued, ResultInv
  <2>3. CASE main[1] = "first"
    <3>1. main'[1] \in OneReceived
      BY <1>3, <2>3 DEF ReceiveFirst, ReceiveSecond
    <3> QED BY <2>1, <2>2, <2>3, <3>1 DEF ResultInv
  <2>4. CASE main[1] \in {"second", "reclaim"}
    <3>1. main'[1] \in BothReceived
      BY <1>3, <2>4 DEF ReceiveFirst, ReceiveSecond
    <3>2. PICK f \in Halves : /\ At(f, "done") /\ ~Queued(f)
                              /\ \A g \in Halves \ {f} : At(g, "done") => Queued(g)
      BY <2>4 DEF ResultInv
    <3>3. \A g \in Halves : g = f \/ g = Head(errc)
      BY <2>2, <3>2 DEF Halves
    <3>4. \A g \in Halves : At(g, "done") /\ ~Queued(g)'
      BY <2>2, <3>2, <3>3
    <3>5. errc' = <<>>
      BY <2>2, <3>4 DEF Queued, Halves
    <3> QED BY <2>1, <2>2, <3>1, <3>4, <3>5 DEF ResultInv
  <2> QED BY <1>3, <2>3, <2>4 DEF ReceiveFirst, ReceiveSecond
<1>4. ASSUME NEW e \in Conns,
             StoreOverride(e) \/ BumpGen(e) \/ ResetMarks(e) \/ Rebound(e) \/ CloseConn(e)
      PROVE  ResultInv'
  <2>1. /\ half' = half /\ errc' = errc
        /\ \/ main[1] \in OneReceived /\ main'[1] \in OneReceived
           \/ main[1] \in BothReceived /\ main'[1] \in BothReceived
    BY <1>4 DEF StoreOverride, BumpGen, ResetMarks, Rebound, CloseConn, MainType, Stages, Conns
  <2>2. /\ \A g \in Halves : At(g, "done")' <=> At(g, "done")
        /\ \A g \in Halves : Queued(g)' <=> Queued(g)
    BY <2>1 DEF At, Queued
  <2> QED BY <2>1, <2>2 DEF ResultInv
<1>5. ASSUME ResetByTunnel \/ Tick
      PROVE  ResultInv'
  BY <1>5 DEF ResetByTunnel, Tick, ResultInv, Queued, At
<1> QED BY <1>1, <1>2, <1>3, <1>4, <1>5 DEF RelayNext, MainStep

\* The connections are closed in order.
LEMMA CloseStays ==
    ASSUME CopyType, MainType, OpenType, CloseInv, RelayNext
    PROVE  CloseInv'
<1>1. ASSUME NEW h \in Halves, HalfStep(h) \/ Move(h) \/ PeerEnds(h)
      PROVE  CloseInv'
  <2>1. main' = main /\ open' = open
    BY <1>1, HalfStays DEF SendResult
  <2> QED BY <2>1 DEF CloseInv
<1>2. ASSUME ReceiveFirst \/ ReceiveSecond
      PROVE  CloseInv'
  BY <1>2 DEF ReceiveFirst, ReceiveSecond, CloseInv
<1>3. ASSUME NEW e \in Conns, StoreOverride(e) \/ BumpGen(e) \/ ResetMarks(e) \/ Rebound(e)
      PROVE  CloseInv'
  BY <1>3 DEF StoreOverride, BumpGen, ResetMarks, Rebound, CloseInv
<1>4. ASSUME NEW e \in Conns, CloseConn(e)
      PROVE  CloseInv'
  BY <1>4 DEF CloseConn, CloseInv, OpenType, MainType, Conns
<1>5. ASSUME ResetByTunnel \/ Tick
      PROVE  CloseInv'
  BY <1>5 DEF ResetByTunnel, Tick, CloseInv, OpenType, Conns
<1> QED BY <1>1, <1>2, <1>3, <1>4, <1>5 DEF RelayNext, MainStep

\* SetIdleTimeout works through the connections one after the other.
LEMMA LowerStep ==
    ASSUME CopyType, TimerType, MainType, LowerInv, RelayNext
    PROVE  LowerInv'
<1> USE RelayTypes
<1>1. ASSUME NEW h \in Halves, HalfStep(h) \/ Move(h) \/ PeerEnds(h), ~MarkArmed(h)
      PROVE  LowerInv'
  <2>1. UNCHANGED <<main, lowered, gen, age>>
    BY <1>1 DEF HalfStep, LoadIdle, LoadGen, LoadAge, ArmDeadline, Recheck, Unblocks, SendResult,
                Move, PeerEnds, connVars
  <2> QED BY <2>1 DEF LowerInv
<1>2. ASSUME NEW h \in Halves, MarkArmed(h)
      PROVE  LowerInv'
  <2>1. UNCHANGED <<main, lowered, gen>>
    BY <1>2 DEF MarkArmed
  <2>2. \A g \in Halves, o \in Ops : age'[g][o] = 0 \/ age'[g][o] = age[g][o]
    BY <1>2 DEF MarkArmed, TimerType
  <2> QED BY <2>1, <2>2 DEF LowerInv
<1>3. ASSUME ReceiveFirst \/ ReceiveSecond
      PROVE  LowerInv'
  BY <1>3 DEF ReceiveFirst, ReceiveSecond, LowerInv, Before, connVars
<1>4. ASSUME NEW e \in Conns, StoreOverride(e)
      PROVE  LowerInv'
  BY <1>4 DEF StoreOverride, LowerInv, Before, TimerType, Conns
<1>5. ASSUME NEW e \in Conns, BumpGen(e)
      PROVE  LowerInv'
  BY <1>5 DEF BumpGen, LowerInv, Before, TimerType, Conns
<1>6. ASSUME NEW e \in Conns, ResetMarks(e)
      PROVE  LowerInv'
  <2>1. \A g \in Halves, o \in Ops : ConnOf(g, o) = e => age'[g][o] = Idle
    BY <1>6 DEF ResetMarks
  <2> QED BY <1>6, <2>1 DEF ResetMarks, LowerInv, Before, Conns
<1>7. ASSUME NEW e \in Conns, Rebound(e)
      PROVE  LowerInv'
  BY <1>7 DEF Rebound, LowerInv, Before, Conns
<1>8. ASSUME NEW e \in Conns, CloseConn(e)
      PROVE  LowerInv'
  BY <1>8 DEF CloseConn, LowerInv, Before, Conns, connVars
<1>9. CASE ResetByTunnel
  BY <1>9 DEF ResetByTunnel, LowerInv, connVars
<1>10. CASE Tick
  <2>1. main[1] \in {"first", "second", "reclaim"} /\ UNCHANGED <<main, lowered, gen>>
    BY <1>10 DEF Tick, Quiescent
  <2> QED BY <2>1 DEF LowerInv
<1> QED BY <1>1, <1>2, <1>3, <1>4, <1>5, <1>6, <1>7, <1>8, <1>9, <1>10 DEF RelayNext, MainStep

\* Three quarters of a bound is less than the bound and grows with it, and a
\* deadline of that bound is still this far off during its first quarter.
LEMMA BoundFacts ==
    /\ \A n \in Nat : Bound(n) \in Nat /\ Bound(n) <= n
    /\ \A m, n \in Nat : m <= n => Bound(m) <= Bound(n)
    /\ \A a, n \in Nat : 4 * a <= n => Bound(n) <= n - a
BY DEF Bound

\* The clocks of the relay are natural numbers, and the bound in force is one of the two.
LEMMA ClockTypes ==
    ASSUME CopyType, TimerType
    PROVE  /\ \A h \in Halves, o \in Ops : age[h][o] \in 0..Idle /\ deadline[h][o] \in 0..NoDeadline
           /\ \A h \in Halves : /\ quiet[h] \in 0..Idle /\ half[h].idle \in 0..Idle
                                /\ half[h].op \in Ops
           /\ \A e : IdleOf(e) = IF lowered[e] THEN HalfOpen ELSE Idle
           /\ NoDeadline = Idle + 1
BY DEF CopyType, TimerType, RelayHalf, IdleOf, NoDeadline

\* What a half's clocks are after a step that leaves them and the bounds alone.
SameClocks(h) ==
    /\ half'[h] = half[h] /\ quiet'[h] = quiet[h]
    /\ \A o \in Ops : deadline'[h][o] = deadline[h][o] /\ age'[h][o] = age[h][o]
    /\ lowered' = lowered

\* Such a step keeps what its clocks say.
LEMMA SameTime ==
    ASSUME CopyType, TimerType, NEW h \in Halves, TimeInv(h), SameClocks(h)
    PROVE  TimeInv(h)'
<1>1. half[h].op \in Ops
  BY ClockTypes
<1> QED BY <1>1 DEF SameClocks, TimeInv, LoadedInv, ArmedInv, MarkInv, QuietInv, Conn, IdleOf

\* A copying goroutine touches its own clocks only.
LEMMA OtherHalf ==
    ASSUME CopyType, TimerType, NEW h \in Halves, HalfStep(h) \/ Move(h) \/ PeerEnds(h),
           NEW g \in Halves, g # h
    PROVE  SameClocks(g)
<1> USE DEF SameClocks, Go, Block, Arm, End, connVars, CopyType, TimerType
<1>1. CASE LoadIdle(h) \/ LoadGen(h) \/ LoadAge(h) \/ SendResult(h)
  BY <1>1 DEF LoadIdle, LoadGen, LoadAge, SendResult
<1>2. CASE ArmDeadline(h) \/ Recheck(h)
  BY <1>2 DEF ArmDeadline, Recheck
<1>3. CASE MarkArmed(h)
  BY <1>3 DEF MarkArmed
<1>4. CASE Unblocks(h) \/ PeerEnds(h) \/ Move(h)
  BY <1>4 DEF Unblocks, PeerEnds, Move
<1> QED BY <1>1, <1>2, <1>3, <1>4 DEF HalfStep

\* Read and Write keep what the clocks of their half say.
LEMMA OwnHalf ==
    ASSUME CopyType, TimerType, NEW h \in Halves, TimeInv(h), HalfStep(h) \/ Move(h) \/ PeerEnds(h)
    PROVE  TimeInv(h)'
<1> DEFINE o == half[h].op
           e == Conn(h)
<1>0. /\ o \in Ops /\ e = ConnOf(h, o) /\ half[h] \in RelayHalf
      /\ IdleOf(e) = IF lowered[e] THEN HalfOpen ELSE Idle
  BY ClockTypes DEF Conn, CopyType
<1>t. /\ \A p \in Ops : age[h][p] \in 0..Idle /\ deadline[h][p] \in 0..NoDeadline
      /\ quiet[h] \in 0..Idle /\ half[h].idle \in 0..Idle
  BY ClockTypes
<1>c. Idle \in Nat \ {0} /\ HalfOpen \in 0..Idle /\ NoDeadline = Idle + 1
  BY RelayTypes DEF NoDeadline
<1>1. CASE LoadIdle(h)
  <2>1. /\ half'[h].at = "gen" /\ half'[h].op = o /\ half'[h].idle = IdleOf(e)
        /\ Conn(h)' = e
        /\ UNCHANGED <<lowered, age, deadline, quiet>>
    BY <1>1 DEF LoadIdle, connVars, Conn, CopyType, RelayHalf
  <2> HIDE DEF o, e
  <2> QED BY <1>0, <1>t, <1>c, <2>1 DEF TimeInv, LoadedInv, ArmedInv, MarkInv, QuietInv
<1>2. CASE LoadGen(h)
  <2>1. /\ half[h].at = "gen" /\ half'[h].at = "age" /\ half'[h].op = o /\ half'[h].idle = half[h].idle
        /\ Conn(h)' = e
        /\ UNCHANGED <<lowered, age, deadline, quiet>>
    BY <1>2 DEF LoadGen, At, connVars, Conn, CopyType, RelayHalf
  <2>2. half[h].op = o /\ Conn(h) = e
    OBVIOUS
  <2> HIDE DEF o, e
  <2> QED BY <1>0, <1>t, <1>c, <2>1, <2>2 DEF TimeInv, LoadedInv, ArmedInv, MarkInv, QuietInv
<1>3. CASE LoadAge(h)
  <2>1. half[h].at = "age" /\ half[h].op = o /\ Conn(h) = e
    BY <1>3 DEF LoadAge, At
  <2>2. /\ half'[h].op = o /\ Conn(h)' = e
        /\ UNCHANGED <<lowered, age, deadline, quiet>>
    BY <1>3 DEF LoadAge, Go, Block, Begin, connVars, Conn, CopyType, RelayHalf
  <2>3. CASE 4 * age[h][o] > half[h].idle
    <3>1. half'[h].at = "arm" /\ half'[h].idle = half[h].idle
      BY <1>3, <2>3 DEF LoadAge, Go, CopyType, RelayHalf
    <3> HIDE DEF o, e
    <3> QED BY <1>0, <1>t, <1>c, <2>1, <2>2, <3>1
            DEF TimeInv, LoadedInv, ArmedInv, MarkInv, QuietInv
  <2>4. CASE 4 * age[h][o] <= half[h].idle
    <3>1. half'[h].at = "blocked"
      BY <1>3, <1>0, <1>t, <2>4 DEF LoadAge, Block, Begin, CopyType, RelayHalf
    <3>2. age[h][o] < Idle
      BY <1>0, <1>t, <1>c, <2>4
    <3>3. deadline[h][o] >= Bound(IdleOf(e))
      <4> HIDE DEF o, e
      <4>1. CASE deadline[h][o] + age[h][o] >= Idle
        <5>1. deadline[h][o] >= Idle - age[h][o] /\ 4 * age[h][o] <= Idle
          BY <1>0, <1>t, <1>c, <2>4, <4>1
        <5>2. age[h][o] \in Nat /\ IdleOf(e) \in Nat /\ Idle \in Nat /\ IdleOf(e) <= Idle
          BY <1>0, <1>t, <1>c
        <5>3. Bound(Idle) <= Idle - age[h][o]
          BY <5>1, <5>2, BoundFacts
        <5>4. Bound(IdleOf(e)) <= Bound(Idle) /\ Bound(Idle) \in Nat /\ Bound(IdleOf(e)) \in Nat
          BY <5>2, BoundFacts
        <5> QED BY <1>0, <1>t, <5>1, <5>2, <5>3, <5>4
      <4>2. CASE lowered[e] /\ deadline[h][o] + age[h][o] >= HalfOpen /\ half[h].idle = HalfOpen
        <5>1. IdleOf(e) = HalfOpen /\ 4 * age[h][o] <= HalfOpen
          BY <1>0, <2>4, <4>2
        <5>2. age[h][o] \in Nat /\ HalfOpen \in Nat
          BY <1>0, <1>t, <1>c
        <5>3. Bound(HalfOpen) <= HalfOpen - age[h][o] /\ Bound(HalfOpen) \in Nat
          BY <5>1, <5>2, BoundFacts
        <5> QED BY <1>0, <1>t, <4>2, <5>1, <5>2, <5>3
      <4>3. CASE lowered[e] /\ deadline[h][o] + age[h][o] >= HalfOpen /\ age[h][o] = 0
        <5>1. IdleOf(e) = HalfOpen /\ Bound(HalfOpen) <= HalfOpen /\ Bound(HalfOpen) \in Nat
          BY <1>0, <1>c, <4>3, BoundFacts
        <5> QED BY <1>0, <1>t, <1>c, <4>3, <5>1
      <4> QED BY <1>0, <2>1, <3>2, <4>1, <4>2, <4>3 DEF TimeInv, MarkInv
    <3>4. Bound(IdleOf(e)) \in Nat
      BY <1>0, <1>c, BoundFacts
    <3> HIDE DEF o, e
    <3>5. QuietInv(h)'
      <4>1. /\ Bound(IdleOf(Conn(h)))' = Bound(IdleOf(e))
            /\ quiet'[h] = quiet[h] /\ deadline'[h][half'[h].op] = deadline[h][o]
        BY <2>2 DEF IdleOf, Bound
      <4> QED BY <1>0, <1>t, <1>c, <3>3, <3>4, <4>1 DEF QuietInv
    <3>6. LoadedInv(h)' /\ ArmedInv(h)' /\ MarkInv(h)'
      BY <1>0, <1>t, <1>c, <2>2, <3>1 DEF TimeInv, LoadedInv, ArmedInv, MarkInv
    <3> QED BY <3>5, <3>6 DEF TimeInv
  <2> QED BY <1>0, <1>t, <2>3, <2>4
<1>4. CASE ArmDeadline(h) /\ open[e]
  <2>1. half[h].at = "arm" /\ half[h].op = o /\ Conn(h) = e
    BY <1>4 DEF ArmDeadline, At
  <2>2. /\ half'[h].op = o /\ half'[h].at = "mark" /\ half'[h].idle = half[h].idle /\ Conn(h)' = e
        /\ UNCHANGED <<lowered, age, quiet>>
    BY <1>4 DEF ArmDeadline, Go, Conn, CopyType, RelayHalf
  <2>3. /\ deadline'[h][o] = half[h].idle
        /\ \A p \in Ops : p # o => deadline'[h][p] = deadline[h][p]
    BY <1>0, <1>4 DEF ArmDeadline, Arm, TimerType
  <2>4. half[h].idle = Idle \/ (half[h].idle = HalfOpen /\ lowered[e])
    BY <2>1 DEF TimeInv, LoadedInv
  <2> HIDE DEF o, e
  <2>5. LoadedInv(h)' /\ QuietInv(h)'
    BY <2>2, <2>4 DEF LoadedInv, QuietInv
  <2>6. ArmedInv(h)'
    BY <1>0, <1>c, <2>2, <2>3, <2>4 DEF ArmedInv, IdleOf
  <2>7. MarkInv(h)'
    BY <1>0, <1>t, <1>c, <2>1, <2>2, <2>3, <2>4 DEF TimeInv, MarkInv
  <2> QED BY <2>5, <2>6, <2>7 DEF TimeInv
<1>5. CASE MarkArmed(h)
  <2>1. half[h].at = "mark" /\ half[h].op = o /\ Conn(h) = e
    BY <1>5 DEF MarkArmed, At
  <2>2. /\ half'[h].op = o /\ half'[h].at = "recheck" /\ half'[h].idle = half[h].idle /\ Conn(h)' = e
        /\ UNCHANGED <<lowered, deadline, quiet>>
    BY <1>5 DEF MarkArmed, Go, Conn, CopyType, RelayHalf
  <2>3. age'[h][o] = 0 /\ \A p \in Ops : p # o => age'[h][p] = age[h][p]
    BY <1>0, <1>5 DEF MarkArmed, TimerType
  <2> HIDE DEF o, e
  <2>4. LoadedInv(h)' /\ QuietInv(h)' /\ ArmedInv(h)'
    BY <2>1, <2>2 DEF TimeInv, LoadedInv, QuietInv, ArmedInv, IdleOf
  <2>5. deadline[h][o] >= IdleOf(e)
    BY <2>1 DEF TimeInv, ArmedInv
  <2>6. MarkInv(h)'
    BY <1>0, <1>t, <1>c, <2>1, <2>2, <2>3, <2>5 DEF TimeInv, MarkInv
  <2> QED BY <2>4, <2>6 DEF TimeInv
<1>6. CASE Recheck(h) /\ half'[h].at = "blocked"
  <2>1. half[h].at = "recheck" /\ half[h].op = o /\ Conn(h) = e
    BY <1>6 DEF Recheck, At
  <2>2. /\ half'[h].op = o /\ Conn(h)' = e
        /\ UNCHANGED <<lowered, age, quiet>>
    BY <1>6 DEF Recheck, Block, Begin, End, Go, Conn, CopyType, RelayHalf
  <2>3. ~End(h, "failed")
    BY <1>6 DEF End, Go, CopyType, RelayHalf
  <2>4. /\ deadline'[h][o] = deadline[h][o] \/ deadline'[h][o] = IdleOf(e)
        /\ \A p \in Ops : p # o => deadline'[h][p] = deadline[h][p]
    BY <1>0, <1>6, <2>3 DEF Recheck, Arm, TimerType
  <2>5. deadline[h][o] >= IdleOf(e)
    BY <2>1 DEF TimeInv, ArmedInv
  <2>6. deadline'[h][o] \in Nat /\ deadline'[h][o] >= IdleOf(e)
    BY <1>0, <1>t, <1>c, <2>4, <2>5
  <2> HIDE DEF o, e
  <2>7. LoadedInv(h)' /\ ArmedInv(h)'
    BY <1>6, <2>2 DEF LoadedInv, ArmedInv
  <2>8. MarkInv(h)'
    BY <1>0, <1>t, <1>c, <1>6, <2>2, <2>4, <2>6 DEF TimeInv, MarkInv
  <2>9. QuietInv(h)'
    <3>1. Bound(IdleOf(e)) \in Nat /\ Bound(IdleOf(e)) <= IdleOf(e)
      BY <1>0, <1>c, BoundFacts
    <3>2. /\ Bound(IdleOf(Conn(h)))' = Bound(IdleOf(e))
          /\ quiet'[h] = quiet[h] /\ deadline'[h][half'[h].op] = deadline'[h][o]
      BY <2>2 DEF IdleOf, Bound
    <3> QED BY <1>0, <1>t, <1>c, <2>6, <3>1, <3>2 DEF QuietInv
  <2> QED BY <2>7, <2>8, <2>9 DEF TimeInv
<1>7. CASE half'[h].at \in {"closing", "done", "idle"} /\ UNCHANGED connVars
  BY <1>0, <1>t, <1>c, <1>7 DEF TimeInv, LoadedInv, ArmedInv, MarkInv, QuietInv, connVars
<1>8. \/ LoadIdle(h) \/ LoadGen(h) \/ LoadAge(h) \/ MarkArmed(h)
      \/ (ArmDeadline(h) /\ open[e])
      \/ (Recheck(h) /\ half'[h].at = "blocked")
      \/ (half'[h].at \in {"closing", "done", "idle"} /\ UNCHANGED connVars)
  <2>1. CASE Recheck(h)
    BY <2>1 DEF Recheck, Block, Begin, End, Go, CopyType, RelayHalf, connVars
  <2>2. CASE ArmDeadline(h)
    BY <2>2 DEF ArmDeadline, End, Go, CopyType, RelayHalf, connVars
  <2>3. CASE Unblocks(h) \/ PeerEnds(h)
    BY <2>3 DEF Unblocks, PeerEnds, End, Go, CopyType, RelayHalf, connVars
  <2>4. CASE SendResult(h)
    BY <2>4 DEF SendResult, Go, CopyType, RelayHalf, connVars
  <2>5. CASE Move(h)
    BY <2>5 DEF Move, Begin, CopyType, RelayHalf, connVars
  <2>6. CASE LoadIdle(h) \/ LoadGen(h) \/ LoadAge(h) \/ MarkArmed(h)
    BY <2>6
  <2> HIDE DEF e
  <2> QED BY <2>1, <2>2, <2>3, <2>4, <2>5, <2>6 DEF HalfStep
<1> QED BY <1>1, <1>2, <1>3, <1>4, <1>5, <1>6, <1>7, <1>8

\* relayTCP changes the bounds under the copying goroutines, and time passes.
LEMMA BoundsMove ==
    ASSUME CopyType, TimerType, LowerInv, MainStep \/ ResetByTunnel \/ Tick,
           NEW h \in Halves, TimeInv(h)
    PROVE  TimeInv(h)'
<1>p. PICK o, e : half[h].op = o /\ Conn(h) = e
  OBVIOUS
<1>0. /\ o \in Ops /\ e = ConnOf(h, o) /\ e \in Conns
      /\ IdleOf(e) = IF lowered[e] THEN HalfOpen ELSE Idle
  BY <1>p, ClockTypes, RelayTypes DEF Conn
<1>t. /\ \A p \in Ops : age[h][p] \in 0..Idle /\ deadline[h][p] \in 0..NoDeadline
      /\ quiet[h] \in 0..Idle /\ half[h].idle \in 0..Idle
  BY ClockTypes
<1>c. Idle \in Nat \ {0} /\ HalfOpen \in 0..Idle /\ NoDeadline = Idle + 1
  BY RelayTypes DEF NoDeadline
<1>1. CASE UNCHANGED <<half, quiet, connVars>>
  BY <1>1, SameTime DEF SameClocks, connVars
<1>2. ASSUME NEW c \in Conns, StoreOverride(c)
      PROVE  TimeInv(h)'
  <2>1. /\ UNCHANGED <<half, quiet, age, deadline>>
        /\ Conn(h)' = e /\ \A d \in Conns : lowered[d] => lowered'[d]
        /\ IdleOf(e)' = IF lowered'[e] THEN HalfOpen ELSE Idle
    BY <1>2, <1>p DEF StoreOverride, Conn, TimerType, IdleOf
  <2>2. IdleOf(e)' <= IdleOf(e) /\ IdleOf(e)' \in Nat /\ IdleOf(e) \in Nat
    BY <1>0, <1>c, <2>1
  <2>3. LoadedInv(h)' /\ MarkInv(h)'
    BY <1>0, <1>p, <2>1, RelayTypes DEF TimeInv, LoadedInv, MarkInv
  <2>4. ArmedInv(h)'
    <3>1. IdleOf(Conn(h))' = IdleOf(e)'
      BY <2>1 DEF IdleOf
    <3> QED BY <1>0, <1>t, <1>c, <1>p, <2>1, <2>2, <3>1 DEF TimeInv, ArmedInv
  <2>5. QuietInv(h)'
    <3>1. Bound(IdleOf(Conn(h)))' = Bound(IdleOf(e)')
      BY <2>1 DEF IdleOf, Bound
    <3>2. /\ Bound(IdleOf(e)') <= Bound(IdleOf(e))
          /\ Bound(IdleOf(e)') \in Nat /\ Bound(IdleOf(e)) \in Nat
      BY <2>2, BoundFacts
    <3>3. half[h].at = "blocked" /\ quiet[h] < Idle => quiet[h] + deadline[h][o] >= Bound(IdleOf(e))
      BY <1>p DEF TimeInv, QuietInv
    <3> QED BY <1>0, <1>t, <1>c, <1>p, <2>1, <3>1, <3>2, <3>3 DEF QuietInv
  <2> QED BY <2>3, <2>4, <2>5 DEF TimeInv
<1>3. ASSUME NEW c \in Conns, BumpGen(c)
      PROVE  TimeInv(h)'
  BY <1>3, SameTime DEF BumpGen, SameClocks
<1>4. ASSUME NEW c \in Conns, ResetMarks(c)
      PROVE  TimeInv(h)'
  <2>1. /\ UNCHANGED <<half, quiet, deadline, lowered>>
        /\ \A p \in Ops : age'[h][p] = Idle \/ age'[h][p] = age[h][p]
    BY <1>4 DEF ResetMarks
  <2>2. LoadedInv(h)' /\ ArmedInv(h)' /\ QuietInv(h)'
    BY <2>1 DEF TimeInv, LoadedInv, ArmedInv, QuietInv, Conn, IdleOf, Bound
  <2>3. MarkInv(h)'
    BY <1>t, <1>c, <2>1 DEF TimeInv, MarkInv
  <2> QED BY <2>2, <2>3 DEF TimeInv
<1>5. ASSUME NEW c \in Conns, Rebound(c)
      PROVE  TimeInv(h)'
  <2>1. UNCHANGED <<half, quiet, age, lowered>> /\ Conn(h)' = e /\ IdleOf(e)' = IdleOf(e)
    BY <1>5, <1>p DEF Rebound, Conn, IdleOf
  <2>2. /\ deadline'[h]["write"] = deadline[h]["write"]
        /\ \/ deadline'[h]["read"] = deadline[h]["read"]
           \/ ConnOf(h, "read") = c /\ deadline'[h]["read"] = HalfOpen
    BY <1>5 DEF Rebound, TimerType, Ops
  <2>3. /\ lowered[c]
        /\ \A p \in Ops : ConnOf(h, p) = c => age[h][p] \in {0, Idle}
    BY <1>5 DEF Rebound, LowerInv
  <2>4. \A p \in Ops : \/ deadline'[h][p] = deadline[h][p]
                       \/ /\ deadline'[h][p] = HalfOpen /\ lowered[ConnOf(h, p)]
                          /\ age[h][p] \in {0, Idle}
    BY <2>2, <2>3 DEF Ops
  <2>5. LoadedInv(h)'
    BY <1>p, <2>1 DEF TimeInv, LoadedInv
  <2>6. ArmedInv(h)'
    <3>1. IdleOf(Conn(h))' = IdleOf(e)
      BY <2>1 DEF IdleOf
    <3> QED BY <1>0, <1>t, <1>c, <1>p, <2>1, <2>4, <3>1 DEF TimeInv, ArmedInv
  <2>7. MarkInv(h)'
    BY <1>t, <1>c, <2>1, <2>4 DEF TimeInv, MarkInv
  <2>8. QuietInv(h)'
    <3>1. Bound(IdleOf(Conn(h)))' = Bound(IdleOf(e))
      BY <2>1 DEF IdleOf, Bound
    <3>2. Bound(HalfOpen) <= HalfOpen /\ Bound(HalfOpen) \in Nat
      BY <1>c, BoundFacts
    <3>3. half[h].at = "blocked" /\ quiet[h] < Idle => quiet[h] + deadline[h][o] >= Bound(IdleOf(e))
      BY <1>p DEF TimeInv, QuietInv
    <3> QED BY <1>0, <1>t, <1>c, <1>p, <2>1, <2>4, <3>1, <3>2, <3>3 DEF QuietInv
  <2> QED BY <2>5, <2>6, <2>7, <2>8 DEF TimeInv
<1>6. CASE Tick
  <2>1. /\ UNCHANGED <<half, lowered>> /\ quiet'[h] = Older(quiet[h])
        /\ \A p \in Ops : age'[h][p] = Older(age[h][p]) /\ deadline'[h][p] = Nearer(deadline[h][p])
        /\ half[h].at \in {"done", "blocked"}
        /\ half[h].at = "blocked" => deadline[h][o] > 0
    BY <1>6, <1>p DEF Tick, Quiescent, At, Pending
  <2>2. \A n \in 0..Idle : Older(n) = IF n < Idle THEN n + 1 ELSE n
    BY DEF Older
  <2>3. \A n \in 0..NoDeadline : \/ n = 0 /\ Nearer(n) = 0
                                 \/ n = Idle + 1 /\ Nearer(n) = Idle + 1
                                 \/ n > 0 /\ Nearer(n) = n - 1
    BY <1>c DEF Nearer
  <2>4. LoadedInv(h)' /\ ArmedInv(h)'
    BY <2>1 DEF LoadedInv, ArmedInv
  <2>5. MarkInv(h)'
    BY <1>t, <1>c, <2>1, <2>2, <2>3 DEF TimeInv, MarkInv
  <2>6. QuietInv(h)'
    <3>1. Bound(IdleOf(Conn(h)))' = Bound(IdleOf(e)) /\ half'[h].op = o
      BY <1>p, <2>1 DEF IdleOf, Bound, Conn
    <3>2. Bound(IdleOf(e)) \in Nat /\ Bound(IdleOf(e)) <= Idle
      <4>1. IdleOf(e) \in Nat /\ IdleOf(e) <= Idle
        BY <1>0, <1>c
      <4>2. Bound(IdleOf(e)) \in Nat /\ Bound(IdleOf(e)) <= IdleOf(e)
        BY <4>1, BoundFacts
      <4> QED BY <1>c, <4>1, <4>2
    <3>3. half[h].at = "blocked" /\ quiet[h] < Idle => quiet[h] + deadline[h][o] >= Bound(IdleOf(e))
      BY <1>p DEF TimeInv, QuietInv
    <3> QED BY <1>0, <1>t, <1>c, <2>1, <2>2, <2>3, <3>1, <3>2, <3>3 DEF QuietInv
  <2> QED BY <2>4, <2>5, <2>6 DEF TimeInv
<1>7. UNCHANGED <<half, quiet, connVars>> \/ (\E c \in Conns :
          StoreOverride(c) \/ BumpGen(c) \/ ResetMarks(c) \/ Rebound(c)) \/ Tick
  BY DEF MainStep, ReceiveFirst, ReceiveSecond, CloseConn, ResetByTunnel
<1> QED BY <1>1, <1>2, <1>3, <1>4, <1>5, <1>6, <1>7

\* The inductive invariant of the relay is preserved by every step.
LEMMA RelayPreserved == RelayIInv /\ [RelayNext]_relayVars => RelayIInv'
<1> SUFFICES ASSUME RelayIInv, [RelayNext]_relayVars
             PROVE  RelayIInv'
  OBVIOUS
<1>0. MainType /\ ErrcType /\ CopyType /\ TimerType /\ OpenType
  BY RelayTypeSplits DEF RelayIInv
<1>1. CASE UNCHANGED relayVars
  BY SMTT(30), <1>1 DEF relayVars, RelayIInv, RelayTypeOK, ResultInv, CloseInv, LowerInv, TimeInv, LoadedInv,
              ArmedInv, MarkInv, QuietInv, Queued, At, Conn, IdleOf
<1>2. CASE RelayNext
  <2>1. ResultInv' /\ CloseInv' /\ LowerInv'
    BY <1>0, <1>2, ResultStep, CloseStays, LowerStep DEF RelayIInv
  <2>2. CopyType' /\ TimerType' /\ OpenType' /\ \A h \in Halves : TimeInv(h)'
    <3>1. ASSUME NEW h \in Halves, HalfStep(h) \/ Move(h) \/ PeerEnds(h)
          PROVE  CopyType' /\ TimerType' /\ OpenType' /\ \A g \in Halves : TimeInv(g)'
      <4>1. OpenType'
        BY <1>0, <3>1, HalfStays DEF OpenType, SendResult
      <4>2. CopyType' /\ TimerType'
        BY <1>0, <3>1, HalfTypes
      <4>3. ASSUME NEW g \in Halves
            PROVE  TimeInv(g)'
        <5>1. CASE g = h
          BY <1>0, <3>1, <5>1, OwnHalf DEF RelayIInv
        <5>2. CASE g # h
          <6>1. SameClocks(g)
            BY <1>0, <3>1, <5>2, OtherHalf
          <6> QED BY <1>0, <6>1, SameTime DEF RelayIInv
        <5> QED BY <5>1, <5>2
      <4> QED BY <4>1, <4>2, <4>3
    <3>2. ASSUME MainStep \/ ResetByTunnel \/ Tick
          PROVE  CopyType' /\ TimerType' /\ OpenType' /\ \A g \in Halves : TimeInv(g)'
      BY <1>0, <3>2, TimerTypes, BoundsMove DEF RelayIInv
    <3> QED BY <1>2, <3>1, <3>2 DEF RelayNext
  <2>3. MainType'
    <3>1. MainStep \/ main' = main
      BY <1>0, <1>2, HalfStays DEF RelayNext, SendResult, ResetByTunnel, Tick
    <3> QED BY <1>0, <3>1, MainTypes DEF MainType
  <2>4. ErrcType'
    BY <2>1 DEF ResultInv, ErrcType, Halves
  <2>5. RelayTypeOK'
    BY <2>2, <2>3, <2>4 DEF RelayTypeOK, MainType, ErrcType, CopyType, TimerType, OpenType, RelayHalf
  <2> QED BY <2>1, <2>2, <2>5 DEF RelayIInv
<1> QED BY <1>1, <1>2

\* Whatever the two copying goroutines, relayTCP and a reset of the tunnel do,
\* every result of a half is received once, the connections are closed in order
\* and each armed deadline is as far away as the bounds that raced for it allow.
THEOREM RelayInvariant == RelaySpec => []RelayIInv
<1>1. RelayIInv /\ [RelayNext]_relayVars => RelayIInv'
  BY RelayPreserved
<1> QED BY <1>1, RelayInitial, PTL DEF RelaySpec

\* Type correctness of the relay, for every pair of bounds: in particular idleGen
\* is bumped at most once per connection and the channel never holds a third result.
THEOREM RelayTypeCorrect == RelaySpec => []RelayTypeOK
<1>1. RelayIInv => RelayTypeOK
  BY DEF RelayIInv
<1> QED BY <1>1, RelayInvariant, PTL

\* relayTCP returns only when both copying goroutines have ended and both
\* connections are closed, on every path: two results, an error that tears the
\* connections down, a reset of the client by the tunnel in between.
THEOREM ReturnReclaims == RelaySpec => []ReturnedMeansReclaimed
<1>1. RelayIInv => ReturnedMeansReclaimed
  BY DEF RelayIInv, ResultInv, CloseInv, BothReceived, ReturnedMeansReclaimed, Returned, Conns
<1> QED BY <1>1, RelayInvariant, PTL

\* A direction that times out has been quiet for three quarters of the bound in
\* force at that moment, for every idle and half-open bound and wherever
\* SetIdleTimeout lowered it under a Read or a Write.
THEOREM TimeoutsAreQuiet == RelaySpec => TimeoutMeansQuiet
<1> DEFINE P(h) == ended[h] # "timeout" /\ ended'[h] = "timeout"
                     => quiet[h] >= IdleOf(Conn(h)) - IdleOf(Conn(h)) \div 4
<1>1. RelayIInv /\ [RelayNext]_relayVars => [\A h \in Halves : P(h)]_relayVars
  <2> SUFFICES ASSUME RelayIInv, RelayNext, NEW h \in Halves,
                      ended[h] # "timeout", ended'[h] = "timeout"
               PROVE  quiet[h] >= Bound(IdleOf(Conn(h)))
    BY DEF Bound
  <2>1. CopyType /\ TimerType /\ TimeInv(h)
    BY RelayTypeSplits DEF RelayIInv
  <2>2. At(h, "blocked") /\ ~Pending(h)
    <3>1. PICK g \in Halves : HalfStep(g) \/ Move(g) \/ PeerEnds(g)
      BY DEF RelayNext, MainStep, ReceiveFirst, ReceiveSecond, StoreOverride, BumpGen, ResetMarks,
             Rebound, CloseConn, ResetByTunnel, Tick
    <3>2. g = h /\ Unblocks(h)
      BY <2>1, <3>1 DEF CopyType, HalfStep, LoadIdle, LoadGen, LoadAge, ArmDeadline, MarkArmed, Recheck,
             Unblocks, SendResult, Move, PeerEnds, End
    <3> QED BY <2>1, <3>2 DEF CopyType, Unblocks, End
  <2>3. deadline[h][half[h].op] = 0 /\ quiet[h] \in 0..Idle
    BY <2>1, <2>2, ClockTypes, RelayTypes DEF Pending
  <2>4. Bound(IdleOf(Conn(h))) \in Nat /\ Bound(IdleOf(Conn(h))) <= Idle
    <3>1. IdleOf(Conn(h)) \in Nat /\ IdleOf(Conn(h)) <= Idle
      BY IdleOfTypes, RelayTypes
    <3>2. Bound(IdleOf(Conn(h))) \in Nat /\ Bound(IdleOf(Conn(h))) <= IdleOf(Conn(h))
      BY <3>1, BoundFacts
    <3> QED BY <3>1, <3>2, RelayTypes
  <2>5. quiet[h] < Idle => quiet[h] + 0 >= Bound(IdleOf(Conn(h)))
    BY <2>1, <2>2, <2>3 DEF TimeInv, QuietInv, At
  <2> QED BY <2>3, <2>4, <2>5, RelayTypes
<1> QED BY <1>1, RelayInvariant, PTL DEF RelaySpec, TimeoutMeansQuiet

=============================================================================
