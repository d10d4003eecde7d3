--------------------- MODULE ForwardingSupervisorProofs ---------------------
(***************************************************************************)
(* Safety of the forwarding supervisor for any number of sessions and any  *)
(* depth of the ICMP queue.                                                *)
(*                                                                         *)
(* A pump, a reader and handleForwarding may each be behind by a session;  *)
(* the inductive invariant says what each of them knows of the session it  *)
(* is about to report or to close.  The supervisor on the netstack device  *)
(* (DeviceForwarding) is shown to implement it, and its own invariant says *)
(* who can be inside the device, and when.                                 *)
(***************************************************************************)
EXTENDS DeviceForwarding, TLAPS

Held == {"attaching", "spawning", "waiting", "detaching", "closing"}
Down == {"dead", "closed"}

\* MaintainTunnel leaves its loop only after cancel, and until then
\* handleForwarding belongs to the connection it runs.
LoopInv ==
    /\ loop \in {"stopping", "closing", "joining", "returned"} => ctxDone
    /\ ~ctxDone => \A s \in Sessions : fwd[s] \in Held => loop = "running" /\ loopSess = s
    /\ loop = "running" => loopSess \in Sessions

\* Whoever is about to close a session before shutdown has its error; a session
\* that handleForwarding is done with is closed.
BlameInv ==
    /\ ~ctxDone => \A s \in Sessions : fwd[s] \in {"detaching", "closing"} => err[s] # "none"
    /\ \A s \in Sessions : rdr[s] = "closing" => err[s] # "none"
    /\ pump.at = "closing" => err[pump.sess] # "none"
    /\ \A s \in Sessions : fwd[s] = "ended" => once[s] = "done"

\* An error of the connection is charged only to a session whose connection is
\* down.
ConnErrorInv ==
    /\ \A s \in Sessions : err[s] = "conn" => conn[s] \in Down
    /\ \A s \in Sessions : rdr[s] \in {"failed", "checking", "connError"} => conn[s] \in Down
    /\ pump.at \in {"checking", "connError"} => conn[pump.sess] \in Down
    /\ pump.at \in {"writing", "checking", "connError", "deviceError", "closing"} =>
         pump.sess \in Sessions
    /\ \A s \in Sessions : once[s] # "no" => conn[s] = "closed"

\* A session object that is free is held by nobody.
FreeInv ==
    \A s \in Sessions : conn[s] = "unused" =>
        /\ fwd[s] = "none" /\ rdr[s] = "none" /\ err[s] = "none"
        /\ active # s /\ pump.sess # s

IInv == TypeOK /\ LoopInv /\ BlameInv /\ ConnErrorInv /\ FreeInv

-----------------------------------------------------------------------------
USE DEF loopVars, sessVars, pumpVars

PumpPlaces == {"top", "reading", "got", "writing", "checking", "connError", "deviceError",
               "closing", "ended"}
ReaderPlaces == {"none", "top", "reading", "failed", "checking", "connError", "deviceError",
                 "closing"}

PumpOK == pump \in [at : PumpPlaces, sess : Sessions \cup {None}]
LoopOK ==
    /\ loop \in {"idle", "running", "stopping", "closing", "joining", "returned"}
    /\ loopSess \in Sessions \cup {None} /\ active \in Sessions \cup {None}
    /\ device \in {"open", "closed"}
SessOK ==
    /\ conn \in [Sessions -> {"unused", "up", "dead", "closed"}]
    /\ once \in [Sessions -> {"no", "shut", "done"}]
    /\ err \in [Sessions -> {"none", "conn", "device"}]
    /\ fwd \in [Sessions -> {"none", "attaching", "spawning", "waiting", "detaching",
                             "closing", "ended"}]
    /\ rdr \in [Sessions -> ReaderPlaces]
RestOK == ctxDone \in BOOLEAN /\ injector \in BOOLEAN
IcmpOK == icmp \in 0..IcmpDepth

\* The type invariant in parts, so that a step need expand only what it changes.
LEMMA TypeSplits ==
  /\ TypeOK <=> PumpOK /\ LoopOK /\ SessOK /\ RestOK /\ IcmpOK
  /\ TypeOK' <=> PumpOK' /\ LoopOK' /\ SessOK' /\ RestOK' /\ IcmpOK'
  BY DEF TypeOK, PumpOK, LoopOK, SessOK, RestOK, IcmpOK, PumpPlaces, ReaderPlaces

\* The steps of the pump and of the injector, which leave every session as it is
\* except for the error they report.
Pumps == PumpNext \/ PumpGets \/ DeviceReadFails

\* What a step of runDeviceToIP does: where it goes and with which session.
LEMMA PumpEffect ==
  ASSUME PumpOK, LoopOK, Pumps
  PROVE  /\ UNCHANGED <<loopVars, sessVars, fwd, rdr, injector>>
         /\ PumpOK'
         /\ pump'.sess \in {None, active, pump.sess}
         /\ pump'.at = "writing" => active # None /\ pump'.sess = active
         /\ pump'.at = "deviceError" => active # None /\ pump'.sess = active
         /\ pump'.at = "checking" => /\ pump.at = "writing" /\ conn[pump.sess] # "up"
                                     /\ pump'.sess = pump.sess
         /\ pump'.at = "connError" => pump.at = "checking" /\ pump'.sess = pump.sess
         /\ pump'.at = "closing" => /\ pump.at \in {"connError", "deviceError"}
                                    /\ pump'.sess = pump.sess
                                    /\ Report(pump.sess, pump.at)
         /\ pump'.at # "closing" => UNCHANGED err
<1> USE DEF PumpOK, PumpPlaces, PumpGo, PumpTop
<1>1. CASE PumpStarts
  BY <1>1 DEF PumpStarts
<1>2. CASE PumpGets \/ PumpStops
  BY <1>2 DEF PumpGets, PumpStops
<1>3. CASE DeviceReadFails
  BY <1>3 DEF DeviceReadFails, LoopOK
<1>4. CASE PumpPicksSession
  BY <1>4 DEF PumpPicksSession, LoopOK
<1>5. CASE PumpWrites
  BY <1>5 DEF PumpWrites
<1>6. CASE PumpWriteFails
  BY <1>6 DEF PumpWriteFails
<1>7. CASE PumpChecksActive
  BY <1>7 DEF PumpChecksActive
<1>8. CASE PumpReports
  BY <1>8 DEF PumpReports
<1>9. CASE PumpReported
  BY <1>9 DEF PumpReported
<1> QED BY <1>1, <1>2, <1>3, <1>4, <1>5, <1>6, <1>7, <1>8, <1>9 DEF Pumps, PumpNext

\* What a report does to the errors of the sessions.
LEMMA ReportEffect ==
  ASSUME SessOK, NEW s \in Sessions, NEW at, Report(s, at)
  PROVE  /\ err' \in [Sessions -> {"none", "conn", "device"}]
         /\ err'[s] # "none"
         /\ err'[s] = "conn" => err[s] = "conn" \/ at # "deviceError"
         /\ \A x \in Sessions \ {s} : err'[x] = err[x]
  BY DEF Report, SessOK

\* What a step of runIPToDevice of session s does.
LEMMA ReaderEffect ==
  ASSUME SessOK, NEW s \in Sessions, ReaderNext(s) \/ ReaderDelivers(s) \/ DeviceWriteFails(s)
  PROVE  /\ UNCHANGED <<loopVars, sessVars, fwd, pumpVars>>
         /\ rdr[s] # "none"
         /\ rdr'[s] \in ReaderPlaces /\ rdr' = [rdr EXCEPT ![s] = rdr'[s]]
         /\ rdr'[s] = "failed" => rdr[s] = "reading" /\ conn[s] # "up"
         /\ rdr'[s] = "checking" => rdr[s] = "failed"
         /\ rdr'[s] = "connError" => rdr[s] = "checking"
         /\ rdr'[s] = "closing" => /\ rdr[s] \in {"connError", "deviceError"}
                                   /\ Report(s, rdr[s])
         /\ rdr'[s] # "closing" => UNCHANGED err
<1> USE DEF SessOK, ReaderPlaces, RdrGo
<1>1. CASE ReaderTop(s)
  BY <1>1 DEF ReaderTop
<1>2. CASE ReadPacketFails(s)
  BY <1>2 DEF ReadPacketFails
<1>3. CASE ReaderChecksContext(s)
  BY <1>3 DEF ReaderChecksContext
<1>4. CASE ReaderChecksActive(s)
  BY <1>4 DEF ReaderChecksActive
<1>5. CASE ReaderReports(s)
  BY <1>5 DEF ReaderReports
<1>6. CASE ReaderEnds(s)
  BY <1>6 DEF ReaderEnds
<1>7. CASE ReaderDelivers(s)
  BY <1>7 DEF ReaderDelivers
<1>8. CASE DeviceWriteFails(s)
  BY <1>8 DEF DeviceWriteFails
<1> QED BY <1>1, <1>2, <1>3, <1>4, <1>5, <1>6, <1>7, <1>8 DEF ReaderNext

\* Every step is one of these.
LEMMA StepCases ==
  ASSUME [Next]_vars
  PROVE  \/ LoopNext \/ Cancel \/ CloseDevice \/ Pumps \/ InjectorStep \/ UNCHANGED vars
         \/ \E s \in Sessions :
              \/ Connect(s) \/ ForwardingNext(s) \/ CloseSession(s) \/ ConnDies(s) \/ Collect(s)
              \/ ReaderNext(s) \/ ReaderDelivers(s) \/ DeviceWriteFails(s)
  BY DEF Next, Pumps

-----------------------------------------------------------------------------
(* Types *)

\* A step of the supervisor, the loop or the environment keeps the types.
LEMMA TypeStep == TypeOK /\ LoopInv /\ ConnErrorInv /\ [Next]_vars => TypeOK'
<1> SUFFICES ASSUME PumpOK, LoopOK, SessOK, RestOK, IcmpOK, LoopInv, ConnErrorInv, [Next]_vars
             PROVE  PumpOK' /\ LoopOK' /\ SessOK' /\ RestOK' /\ IcmpOK'
  BY TypeSplits
<1>1. CASE LoopNext
  <2>1. LoopOK'
    BY <1>1 DEF LoopNext, ConnectionReturns, StopLoop, CloseSwaps, CloseClosed, Joined, LoopOK
  <2>2. SessOK'
    BY <1>1 DEF LoopNext, ConnectionReturns, StopLoop, CloseSwaps, CloseClosed, Joined, SessOK
  <2>3. PumpOK' /\ RestOK' /\ IcmpOK'
    BY <1>1 DEF LoopNext, ConnectionReturns, StopLoop, CloseSwaps, CloseClosed, Joined, PumpOK,
                RestOK, IcmpOK
  <2> QED BY <2>1, <2>2, <2>3
<1>2. CASE Cancel \/ CloseDevice
  <2>1. LoopOK' /\ SessOK' /\ PumpOK' /\ IcmpOK'
    BY <1>2 DEF Cancel, CloseDevice, LoopOK, SessOK, PumpOK, IcmpOK
  <2>2. RestOK'
    BY <1>2 DEF Cancel, CloseDevice, RestOK
  <2> QED BY <2>1, <2>2
<1>3. CASE Pumps
  <2>1. PumpOK' /\ LoopOK' /\ RestOK'
    BY <1>3, PumpEffect DEF LoopOK, RestOK
  <2>2. IcmpOK'
    BY <1>3, SupervisorAssumption DEF Pumps, PumpNext, PumpStarts, PumpStops, PumpPicksSession,
       PumpWrites, PumpWriteFails, PumpChecksActive, PumpReports, PumpReported, PumpGets,
       DeviceReadFails, IcmpOK
  <2>3. SessOK'
    <3>1. UNCHANGED <<conn, once, fwd, rdr>>
      BY <1>3, PumpEffect
    <3>2. err' \in [Sessions -> {"none", "conn", "device"}]
      <4>1. CASE pump'.at = "closing"
        <5>1. pump.sess \in Sessions /\ Report(pump.sess, pump.at)
          BY <1>3, <4>1, PumpEffect DEF ConnErrorInv
        <5> QED BY <5>1, ReportEffect
      <4>2. CASE pump'.at # "closing"
        BY <1>3, <4>2, PumpEffect DEF SessOK
      <4> QED BY <4>1, <4>2
    <3> QED BY <3>1, <3>2 DEF SessOK
  <2> QED BY <2>1, <2>2, <2>3
<1>4. CASE InjectorStep
  <2>1. LoopOK' /\ SessOK' /\ PumpOK'
    BY <1>4 DEF InjectorStep, LoopOK, SessOK, PumpOK
  <2>2. RestOK'
    BY <1>4 DEF InjectorStep, RestOK
  <2>3. IcmpOK'
    <3>1. icmp' = icmp \/ (icmp > 0 /\ icmp' = icmp - 1)
      BY <1>4 DEF InjectorStep
    <3> QED BY <3>1, SupervisorAssumption DEF IcmpOK
  <2> QED BY <2>1, <2>2, <2>3
<1>5. ASSUME NEW s \in Sessions,
             Connect(s) \/ ForwardingNext(s) \/ CloseSession(s) \/ ConnDies(s) \/ Collect(s)
      PROVE  PumpOK' /\ LoopOK' /\ SessOK' /\ RestOK' /\ IcmpOK'
  <2> USE DEF Connect, ForwardingNext, Attach, SpawnReader, WaitEnds, Detach, ForwardingReturns,
              CloseSession, ConnDies, Collect, FwdGo, RdrGo
  <2>0. UNCHANGED <<pumpVars, ctxDone>>
    BY <1>5
  <2>1. PumpOK' /\ RestOK' /\ IcmpOK'
    BY <2>0 DEF PumpOK, RestOK, IcmpOK
  <2>2. LoopOK'
    BY <1>5 DEF LoopOK
  <2>3. SessOK'
    BY <1>5 DEF SessOK, ReaderPlaces
  <2> QED BY <2>1, <2>2, <2>3
<1>6. ASSUME NEW s \in Sessions, ReaderNext(s) \/ ReaderDelivers(s) \/ DeviceWriteFails(s)
      PROVE  PumpOK' /\ LoopOK' /\ SessOK' /\ RestOK' /\ IcmpOK'
  <2>1. UNCHANGED <<loopVars, sessVars, fwd, pumpVars>>
    BY <1>6, ReaderEffect
  <2>2. rdr' \in [Sessions -> ReaderPlaces]
    BY <1>6, ReaderEffect DEF SessOK
  <2>3. err' \in [Sessions -> {"none", "conn", "device"}]
    <3>1. CASE rdr'[s] = "closing"
      BY <1>6, <3>1, ReaderEffect, ReportEffect
    <3>2. CASE rdr'[s] # "closing"
      BY <1>6, <3>2, ReaderEffect DEF SessOK
    <3> QED BY <3>1, <3>2
  <2> QED BY <2>1, <2>2, <2>3 DEF PumpOK, LoopOK, SessOK, RestOK, IcmpOK
<1>7. CASE UNCHANGED vars
  BY <1>7 DEF vars, PumpOK, LoopOK, SessOK, RestOK, IcmpOK
<1> QED BY <1>1, <1>2, <1>3, <1>4, <1>5, <1>6, <1>7, StepCases

-----------------------------------------------------------------------------
(* The invariants, one group of steps at a time *)

Safe == LoopInv /\ BlameInv /\ ConnErrorInv /\ FreeInv

\* The steps of MaintainTunnel and of the supervisor's Close.
LEMMA LoopSafe ==
  ASSUME TypeOK, Safe, LoopNext \/ Cancel \/ CloseDevice
  PROVE  Safe'
<1>0. PumpOK /\ LoopOK /\ SessOK
  BY TypeSplits
<1>1. UNCHANGED <<once, err, fwd, rdr, pumpVars>>
  BY DEF LoopNext, ConnectionReturns, StopLoop, CloseSwaps, CloseClosed, Joined, Cancel, CloseDevice
<1>2. /\ ctxDone => ctxDone'
      /\ loop' \in {"stopping", "closing", "joining", "returned"} => ctxDone'
      /\ loop' = "running" => loop = "running" /\ loopSess' = loopSess
      /\ active' \in {active, None}
  BY DEF LoopNext, ConnectionReturns, StopLoop, CloseSwaps, CloseClosed, Joined, Cancel,
         CloseDevice, Safe, LoopInv
<1>3. /\ \A s \in Sessions : conn'[s] \in {conn[s], "closed"}
      /\ \A s \in Sessions : conn'[s] # conn[s] => loop = "running" /\ loopSess = s
  <2>1. CASE ConnectionReturns
    BY <1>0, <2>1 DEF ConnectionReturns, SessOK
  <2>2. CASE UNCHANGED conn
    BY <2>2
  <2> QED BY <2>1, <2>2
      DEF LoopNext, StopLoop, CloseSwaps, CloseClosed, Joined, Cancel, CloseDevice
<1>4. ~ctxDone' /\ loop # loop' => loop = "running" /\ fwd[loopSess] = "ended"
  BY <1>2 DEF LoopNext, ConnectionReturns, StopLoop, CloseSwaps, CloseClosed, Joined, Cancel,
         CloseDevice
<1>5. LoopInv'
  BY <1>1, <1>2, <1>4 DEF Safe, LoopInv, Held
<1>6. BlameInv'
  BY <1>1, <1>2 DEF Safe, BlameInv
<1>7. ConnErrorInv'
  BY <1>1, <1>3 DEF Safe, ConnErrorInv, Down
<1>8. FreeInv'
  BY <1>0, <1>1, <1>2, <1>3, SupervisorAssumption DEF Safe, FreeInv
<1> QED BY <1>5, <1>6, <1>7, <1>8 DEF Safe

\* runDeviceToIP reports only the session it wrote to, and only after it found
\* that one's connection down, or the device.
LEMMA PumpSafe ==
  ASSUME TypeOK, Safe, Pumps
  PROVE  Safe'
<1>0. PumpOK /\ LoopOK /\ SessOK
  BY TypeSplits
<1>1. /\ UNCHANGED <<loopVars, sessVars, fwd, rdr>>
      /\ PumpOK'
      /\ pump'.sess \in {None, active, pump.sess}
      /\ pump'.at = "writing" => active # None /\ pump'.sess = active
      /\ pump'.at = "deviceError" => active # None /\ pump'.sess = active
      /\ pump'.at = "checking" => /\ pump.at = "writing" /\ conn[pump.sess] # "up"
                                  /\ pump'.sess = pump.sess
      /\ pump'.at = "connError" => pump.at = "checking" /\ pump'.sess = pump.sess
      /\ pump'.at = "closing" => /\ pump.at \in {"connError", "deviceError"}
                                 /\ pump'.sess = pump.sess
                                 /\ Report(pump.sess, pump.at)
      /\ pump'.at # "closing" => UNCHANGED err
  BY <1>0, PumpEffect
<1>2. \A s \in Sessions : /\ err[s] # "none" => err'[s] # "none"
                          /\ err'[s] = "conn" => err[s] = "conn" \/ (pump.sess = s /\ pump.at = "connError")
                          /\ err'[s] # err[s] => s = pump.sess
  <2>1. CASE pump'.at = "closing"
    <3>1. pump.sess \in Sessions
      BY <1>1, <2>1 DEF Safe, ConnErrorInv
    <3> QED BY <1>0, <1>1, <2>1, <3>1, ReportEffect
  <2>2. CASE pump'.at # "closing"
    BY <1>1, <2>2
  <2> QED BY <2>1, <2>2
<1>3. LoopInv'
  BY <1>1 DEF Safe, LoopInv
<1>4. pump'.at = "closing" => err'[pump'.sess] # "none"
  <2> SUFFICES ASSUME pump'.at = "closing" PROVE err'[pump'.sess] # "none"
    OBVIOUS
  <2>1. pump.sess \in Sessions /\ Report(pump.sess, pump.at) /\ pump'.sess = pump.sess
    BY <1>1 DEF Safe, ConnErrorInv
  <2> QED BY <1>0, <2>1, ReportEffect
<1>5. BlameInv'
  BY <1>1, <1>2, <1>4 DEF Safe, BlameInv
<1>6. \A s \in Sessions : err'[s] = "conn" => conn'[s] \in Down
  BY <1>1, <1>2 DEF Safe, ConnErrorInv
<1>7. pump'.at \in {"checking", "connError"} => conn'[pump'.sess] \in Down
  <2>1. CASE pump'.at = "checking"
    <3>1. pump.sess \in Sessions /\ conn[pump.sess] # "up" /\ conn[pump.sess] # "unused"
      BY <1>1, <2>1 DEF Safe, ConnErrorInv, FreeInv
    <3> QED BY <1>0, <1>1, <2>1, <3>1 DEF SessOK, Down
  <2>2. CASE pump'.at = "connError"
    BY <1>1, <2>2 DEF Safe, ConnErrorInv
  <2> QED BY <2>1, <2>2
<1>8. pump'.at \in {"writing", "checking", "connError", "deviceError", "closing"} =>
         pump'.sess \in Sessions
  BY <1>0, <1>1 DEF Safe, ConnErrorInv, LoopOK
<1>9. ConnErrorInv'
  BY <1>1, <1>6, <1>7, <1>8 DEF Safe, ConnErrorInv
<1>10. FreeInv'
  <2> SUFFICES ASSUME NEW s \in Sessions, conn[s] = "unused"
               PROVE  err'[s] = "none" /\ pump'.sess # s
    BY <1>1 DEF Safe, FreeInv
  <2>1. err[s] = "none" /\ active # s /\ pump.sess # s /\ s # None
    BY SupervisorAssumption DEF Safe, FreeInv
  <2> QED BY <1>1, <1>2, <2>1
<1> QED BY <1>3, <1>5, <1>9, <1>10 DEF Safe

\* runIPToDevice reports its own session.
LEMMA ReaderSafe ==
  ASSUME TypeOK, Safe, NEW s \in Sessions,
         ReaderNext(s) \/ ReaderDelivers(s) \/ DeviceWriteFails(s)
  PROVE  Safe'
<1>0. PumpOK /\ LoopOK /\ SessOK
  BY TypeSplits
<1>1. /\ UNCHANGED <<loopVars, sessVars, fwd, pumpVars>>
      /\ rdr[s] # "none"
      /\ \A x \in Sessions \ {s} : rdr'[x] = rdr[x]
      /\ rdr'[s] = "failed" => rdr[s] = "reading" /\ conn[s] # "up"
      /\ rdr'[s] = "checking" => rdr[s] = "failed"
      /\ rdr'[s] = "connError" => rdr[s] = "checking"
      /\ rdr'[s] = "closing" => /\ rdr[s] \in {"connError", "deviceError"}
                                /\ Report(s, rdr[s])
      /\ rdr'[s] # "closing" => UNCHANGED err
  <2>1. rdr' = [rdr EXCEPT ![s] = rdr'[s]]
    BY <1>0, ReaderEffect
  <2>2. \A x \in Sessions \ {s} : rdr'[x] = rdr[x]
    BY <1>0, <2>1 DEF SessOK
  <2> QED BY <1>0, <2>2, ReaderEffect
<1>2. /\ \A x \in Sessions : err[x] # "none" => err'[x] # "none"
      /\ err'[s] = "conn" => err[s] = "conn" \/ rdr[s] = "connError"
      /\ \A x \in Sessions \ {s} : err'[x] = err[x]
      /\ rdr'[s] = "closing" => err'[s] # "none"
  <2>1. CASE rdr'[s] = "closing"
    BY <1>0, <1>1, <2>1, ReportEffect
  <2>2. CASE rdr'[s] # "closing"
    BY <1>1, <2>2
  <2> QED BY <2>1, <2>2
<1>3. LoopInv'
  BY <1>1 DEF Safe, LoopInv
<1>4. BlameInv'
  <2>1. \A x \in Sessions : rdr'[x] = "closing" => err'[x] # "none"
    BY <1>1, <1>2 DEF Safe, BlameInv
  <2>2. pump.at = "closing" => err'[pump.sess] # "none"
    BY <1>2 DEF Safe, BlameInv, ConnErrorInv
  <2> QED BY <1>1, <1>2, <2>1, <2>2 DEF Safe, BlameInv
<1>5. conn[s] # "unused"
  BY <1>1 DEF Safe, FreeInv
<1>6. ConnErrorInv'
  <2>1. rdr'[s] \in {"failed", "checking", "connError"} => conn[s] \in Down
    BY <1>0, <1>1, <1>5 DEF Safe, ConnErrorInv, SessOK, Down
  <2>2. \A x \in Sessions : err'[x] = "conn" => conn[x] \in Down
    BY <1>2 DEF Safe, ConnErrorInv
  <2> QED BY <1>1, <2>1, <2>2 DEF Safe, ConnErrorInv
<1>7. FreeInv'
  BY <1>1, <1>2, <1>5 DEF Safe, FreeInv
<1> QED BY <1>3, <1>4, <1>6, <1>7 DEF Safe

\* A connection dies or is closed, and handleForwarding of a session moves.
LEMMA SessionSafe ==
  ASSUME TypeOK, Safe, NEW s \in Sessions,
         Connect(s) \/ ForwardingNext(s) \/ CloseSession(s) \/ ConnDies(s) \/ Collect(s)
  PROVE  Safe'
<1>0. PumpOK /\ LoopOK /\ SessOK
  BY TypeSplits
<1>1. CASE Connect(s)
  <2>1. /\ loop = "idle" /\ ~ctxDone /\ ctxDone' = ctxDone /\ loop' = "running" /\ loopSess' = s
        /\ UNCHANGED <<active, once, err, rdr, pump>> /\ conn[s] = "unused"
        /\ conn'[s] = "up" /\ fwd'[s] = "attaching"
        /\ \A x \in Sessions \ {s} : conn'[x] = conn[x] /\ fwd'[x] = fwd[x]
    BY <1>0, <1>1 DEF Connect, FwdGo, SessOK
  <2>2. fwd[s] = "none" /\ rdr[s] = "none" /\ err[s] = "none" /\ active # s /\ pump.sess # s
    BY <2>1 DEF Safe, FreeInv
  <2>3. once[s] = "no"
    BY <1>0, <2>1 DEF Safe, ConnErrorInv, SessOK
  <2>4. LoopInv'
    BY <2>1 DEF Safe, LoopInv, Held
  <2>5. BlameInv'
    BY <2>1 DEF Safe, BlameInv
  <2>6. ConnErrorInv'
    BY <2>1, <2>2, <2>3 DEF Safe, ConnErrorInv
  <2>7. FreeInv'
    BY <2>1 DEF Safe, FreeInv
  <2> QED BY <2>4, <2>5, <2>6, <2>7 DEF Safe
<1>2. CASE ForwardingNext(s)
  <2>1. /\ UNCHANGED <<loopVars, conn, once, err, pumpVars>>
        /\ \A x \in Sessions \ {s} : fwd'[x] = fwd[x] /\ rdr'[x] = rdr[x]
        /\ active' \in {active, None, s}
        /\ fwd[s] \in Held /\ fwd'[s] # "none" /\ rdr'[s] \in {rdr[s], "top"}
    BY <1>0, <1>2 DEF ForwardingNext, Attach, SpawnReader, WaitEnds, Detach, ForwardingReturns,
                      FwdGo, RdrGo, SessOK, Held
  <2>2. /\ fwd'[s] = "detaching" => fwd[s] = "waiting" /\ (err[s] # "none" \/ ForwardingCtxDone(s))
        /\ fwd'[s] = "closing" => fwd[s] = "detaching"
        /\ fwd'[s] = "ended" => once[s] = "done"
    BY <1>0, <1>2 DEF ForwardingNext, Attach, SpawnReader, WaitEnds, Detach, ForwardingReturns,
                      FwdGo, SessOK
  <2>3. LoopInv'
    BY <2>1 DEF Safe, LoopInv
  <2>4. BlameInv'
    BY <2>1, <2>2 DEF Safe, BlameInv, LoopInv, ForwardingCtxDone, Held
  <2>5. ConnErrorInv'
    BY <2>1 DEF Safe, ConnErrorInv
  <2>6. FreeInv'
    <3>1. conn[s] # "unused"
      BY <2>1 DEF Safe, FreeInv, Held
    <3> QED BY <2>1, <3>1, SupervisorAssumption DEF Safe, FreeInv
  <2> QED BY <2>3, <2>4, <2>5, <2>6 DEF Safe
<1>3. CASE CloseSession(s)
  <2>1. /\ UNCHANGED <<loopVars, active, err, fwd, rdr, pumpVars>>
        /\ \A x \in Sessions \ {s} : conn'[x] = conn[x] /\ once'[x] = once[x]
        /\ once[s] = "no" => conn'[s] = "closed" /\ once'[s] = "shut"
        /\ once[s] # "no" => conn'[s] = conn[s] /\ once'[s] = "done"
    BY <1>0, <1>3 DEF CloseSession, SessOK
  <2>2. conn'[s] = "closed"
    BY <2>1 DEF Safe, ConnErrorInv
  <2>3. \A x \in Sessions : conn[x] \in Down => conn'[x] \in Down
    BY <2>1, <2>2 DEF Down
  <2>4. LoopInv' /\ BlameInv'
    BY <2>1 DEF Safe, LoopInv, BlameInv
  <2>5. ConnErrorInv'
    BY <2>1, <2>2, <2>3 DEF Safe, ConnErrorInv
  <2>6. FreeInv'
    BY <2>1, <2>2 DEF Safe, FreeInv
  <2> QED BY <2>4, <2>5, <2>6 DEF Safe
<1>4. CASE ConnDies(s)
  <2>1. /\ UNCHANGED <<loopVars, active, once, err, fwd, rdr, pumpVars>>
        /\ \A x \in Sessions \ {s} : conn'[x] = conn[x]
        /\ conn[s] = "up" /\ conn'[s] = "dead"
    BY <1>0, <1>4 DEF ConnDies, SessOK
  <2>2. \A x \in Sessions : conn[x] \in Down => conn'[x] \in Down
    BY <2>1 DEF Down
  <2>3. LoopInv' /\ BlameInv'
    BY <2>1 DEF Safe, LoopInv, BlameInv
  <2>4. ConnErrorInv'
    BY <2>1, <2>2 DEF Safe, ConnErrorInv
  <2>5. FreeInv'
    BY <2>1 DEF Safe, FreeInv
  <2> QED BY <2>3, <2>4, <2>5 DEF Safe
<1>5. CASE Collect(s)
  <2>1. /\ UNCHANGED <<loopVars, active, rdr, pumpVars>>
        /\ rdr[s] = "none" /\ s # active /\ s # pump.sess
        /\ conn'[s] = "unused" /\ once'[s] = "no" /\ fwd'[s] = "none" /\ err'[s] = "none"
        /\ \A x \in Sessions \ {s} : /\ conn'[x] = conn[x] /\ once'[x] = once[x]
                                     /\ fwd'[x] = fwd[x] /\ err'[x] = err[x]
    BY <1>0, <1>5 DEF Collect, FwdGo, SessOK
  <2>2. LoopInv'
    BY <2>1 DEF Safe, LoopInv, Held
  <2>3. BlameInv'
    <3>1. pump.at = "closing" => err'[pump.sess] # "none"
      BY <2>1 DEF Safe, BlameInv, ConnErrorInv
    <3> QED BY <2>1, <3>1 DEF Safe, BlameInv
  <2>4. ConnErrorInv'
    <3>1. pump.at \in {"checking", "connError"} => conn'[pump.sess] \in Down
      BY <2>1 DEF Safe, ConnErrorInv
    <3> QED BY <2>1, <3>1 DEF Safe, ConnErrorInv
  <2>5. FreeInv'
    BY <2>1 DEF Safe, FreeInv
  <2> QED BY <2>2, <2>3, <2>4, <2>5 DEF Safe
<1> QED BY <1>1, <1>2, <1>3, <1>4, <1>5

\* Steps that touch no session.
LEMMA QuietSafe ==
  ASSUME Safe, InjectorStep \/ UNCHANGED vars
  PROVE  Safe'
<1>1. UNCHANGED <<loopVars, sessVars, err, fwd, rdr, pump>>
  BY DEF InjectorStep, vars
<1> QED BY <1>1 DEF Safe, LoopInv, BlameInv, ConnErrorInv, FreeInv

-----------------------------------------------------------------------------
(* The theorems *)

\* Nothing is attached and nobody has failed when the loop starts.
LEMMA IInvInit == Init => IInv
<1> SUFFICES ASSUME Init PROVE IInv
  OBVIOUS
<1>1. PumpOK /\ LoopOK /\ SessOK
  BY DEF Init, PumpOK, LoopOK, SessOK, PumpPlaces, ReaderPlaces
<1>2. RestOK
  BY DEF Init, RestOK
<1>3. IcmpOK
  BY SupervisorAssumption DEF Init, IcmpOK
<1>4. LoopInv /\ BlameInv /\ ConnErrorInv /\ FreeInv
  BY SupervisorAssumption DEF Init, LoopInv, BlameInv, ConnErrorInv, FreeInv, Held
<1> QED BY <1>1, <1>2, <1>3, <1>4, TypeSplits DEF IInv

\* IInv is inductive.
THEOREM SupervisorInvariant == Spec => []IInv
<1>1. IInv /\ [Next]_vars => IInv'
  <2> SUFFICES ASSUME IInv, [Next]_vars PROVE TypeOK' /\ Safe'
    BY DEF IInv, Safe
  <2>1. TypeOK /\ Safe
    BY DEF IInv, Safe
  <2>2. TypeOK'
    BY TypeStep DEF IInv
  <2>3. Safe'
    BY <2>1, StepCases, LoopSafe, PumpSafe, ReaderSafe, SessionSafe, QuietSafe
  <2> QED BY <2>2, <2>3
<1> QED BY <1>1, IInvInit, PTL DEF Spec

\* Every variable of the supervisor keeps its type.
THEOREM TypeCorrect == Spec => []TypeOK
<1>1. IInv => TypeOK
  BY DEF IInv
<1> QED BY <1>1, SupervisorInvariant, PTL

\* Before shutdown a connection that is up is closed only after an error of the
\* device was put in its session's errCh: neither a late report about an earlier
\* session nor the end of handleForwarding closes it.
THEOREM HealthySessionsAreKept == Spec => HealthySessionIsKept
<1>1. IInv /\ [Next]_vars =>
        [\A s \in Sessions :
           (conn[s] = "up" /\ conn'[s] = "closed" /\ ~ctxDone) => err[s] = "device"]_vars
  <2> SUFFICES ASSUME IInv, [Next]_vars, NEW s \in Sessions,
                      conn[s] = "up", conn'[s] = "closed", ~ctxDone
               PROVE  err[s] = "device"
    OBVIOUS
  <2>0. PumpOK /\ LoopOK /\ SessOK
    BY TypeSplits DEF IInv
  <2>1. once[s] = "no" /\ err[s] # "conn"
    BY <2>0 DEF IInv, ConnErrorInv, SessOK, Down
  <2>2. CASE CloseSession(s)
    <3>1. err[s] # "none"
      BY <2>2 DEF CloseSession, InClose, IInv, LoopInv, BlameInv
    <3> QED BY <2>0, <2>1, <3>1 DEF SessOK
  <2>3. CASE ConnectionReturns
    <3>1. loopSess = s /\ fwd[s] = "ended"
      BY <2>0, <2>3 DEF ConnectionReturns, SessOK
    <3> QED BY <2>1, <3>1 DEF IInv, BlameInv
  <2>4. ASSUME UNCHANGED conn PROVE FALSE
    BY <2>4
  <2>5. ASSUME NEW x \in Sessions, CloseSession(x), x # s PROVE FALSE
    BY <2>0, <2>5 DEF CloseSession, SessOK
  <2>6. ASSUME NEW x \in Sessions, Connect(x) \/ ConnDies(x) \/ Collect(x) PROVE FALSE
    BY <2>0, <2>6 DEF Connect, ConnDies, Collect, SessOK
  <2>7. ASSUME Pumps PROVE FALSE
    BY <2>0, <2>7, PumpEffect
  <2>8. ASSUME NEW x \in Sessions, ReaderNext(x) \/ ReaderDelivers(x) \/ DeviceWriteFails(x)
        PROVE  FALSE
    BY <2>0, <2>8, ReaderEffect
  <2>9. ASSUME NEW x \in Sessions, ForwardingNext(x) PROVE FALSE
    BY <2>9 DEF ForwardingNext, Attach, SpawnReader, WaitEnds, Detach, ForwardingReturns
  <2>10. ASSUME Cancel \/ CloseDevice \/ InjectorStep \/ UNCHANGED vars PROVE FALSE
    BY <2>10 DEF Cancel, CloseDevice, InjectorStep, vars
  <2>11. ASSUME LoopNext, ~ConnectionReturns PROVE FALSE
    BY <2>11 DEF LoopNext, StopLoop, CloseSwaps, CloseClosed, Joined
  <2> QED BY <2>2, <2>3, <2>5, <2>6, <2>7, <2>8, <2>9, <2>10, <2>11, StepCases
<1> QED BY <1>1, SupervisorInvariant, PTL DEF Spec, HealthySessionIsKept

-----------------------------------------------------------------------------
(* DeviceForwarding *)

\* Who is inside WriteNotify: a reader that has written a packet and is not back
\* at the top of its loop, the injector, or a goroutine of the stack.
SenderInv ==
    /\ \A s \in Sessions : s \in sending => rdr[s] = "top"
    /\ Injector \in sending => injector

\* After wg.Wait a session that was attached late still gets a reader, which
\* ends at its first check.
ReturnedInv ==
    loop = "returned" =>
        /\ ~injector
        /\ \A s \in Sessions : rdr[s] \in {"none", "top"} /\ s \notin sending

\* The device goes in the order of Close: cancel, detach, close the queue.
DetachInv ==
    /\ ~attached => ctxDone
    /\ device = "closed" => ~attached
    /\ panicked <=> device = "closed" /\ sending # {}

DevInv == IInv /\ DevTypeOK /\ SenderInv /\ ReturnedInv /\ DetachInv

DevSafe == SenderInv /\ ReturnedInv /\ DetachInv

\* The steps of the composition, each a step of the supervisor or none of its.
DevReaders == \E s \in Sessions : ReaderWrites(s) \/ ReaderGoesOn(s)
DevPump == PumpReads \/ PumpGoesOn
DevLoop == LoopGoesOn \/ Elsewhere \/ \E s \in Sessions : ForwardingGoesOn(s) \/ SessionCloses(s)
DevSenders == (\E g \in Stack : StackSends(g)) \/ (\E g \in Goroutines : WriteNotifyReturns(g))
DevClose == DetachDevice \/ CloseTun

\* A step of the composition is one of these.
LEMMA DevCases ==
    ASSUME DevNext
    PROVE  ~panicked /\ (DevReaders \/ DevPump \/ InjectorGoesOn \/ DevLoop \/ DevSenders \/ DevClose)
BY DEF DevNext, DevReaders, DevPump, DevLoop, DevSenders, DevClose

\* What the device does is a step of the supervisor, or invisible to it.
LEMMA DevStepRefines ==
    ASSUME [DevNext]_devVars
    PROVE  [Next]_vars
<1>1. CASE UNCHANGED devVars
  BY <1>1 DEF devVars
<1>2. CASE DevNext
  <2>1. CASE DevReaders
    BY <2>1 DEF DevReaders, ReaderWrites, ReaderGoesOn, Next
  <2>2. CASE DevPump
    BY <2>2 DEF DevPump, PumpReads, PumpGoesOn, Next
  <2>3. CASE InjectorGoesOn
    BY <2>3 DEF InjectorGoesOn, Next
  <2>4. CASE DevLoop
    BY <2>4 DEF DevLoop, LoopGoesOn, Elsewhere, ForwardingGoesOn, SessionCloses, Next
  <2>5. CASE DevSenders
    BY <2>5 DEF DevSenders, StackSends, WriteNotifyReturns
  <2>6. CASE DevClose
    BY <2>6 DEF DevClose, DetachDevice, CloseTun, Next
  <2> QED BY <1>2, <2>1, <2>2, <2>3, <2>4, <2>5, <2>6, DevCases
<1> QED BY <1>1, <1>2

\* The supervisor on a device that can block its writers and close under them is
\* still the supervisor that was verified on its own.
THEOREM DeviceImplementsSupervisor == DevSpec => Spec
<1>1. DevInit => Init
  BY DEF DevInit
<1> QED BY <1>1, DevStepRefines, PTL DEF DevSpec, Spec

\* So a session whose connection is healthy is kept there too: neither a reader
\* that is late because the device blocked it nor the pump's late report on an
\* earlier session closes it.
THEOREM HealthyOnTheDevice == DevSpec => HealthySessionIsKept
BY DeviceImplementsSupervisor, HealthySessionsAreKept, PTL

\* Read takes no more than there is.
LEMMA BatchFits ==
    ASSUME NEW q \in 0..QueueDepth, q > 0
    PROVE  q - Min({q, BatchSize}) \in 0..QueueDepth
<1>1. BatchSize \in Nat \ {0} /\ QueueDepth \in Nat
  BY NetTunAssumption
<1>2. \E x \in {q, BatchSize} : \A y \in {q, BatchSize} : x <= y
  BY <1>1
<1>3. Min({q, BatchSize}) \in {q, BatchSize} /\ \A y \in {q, BatchSize} : Min({q, BatchSize}) <= y
  BY <1>2 DEF Min
<1> QED BY <1>1, <1>3

\* The device's own steps keep its types.
LEMMA TunTypeStep ==
    ASSUME TunTypeOK(Goroutines), [DevNext]_devVars
    PROVE  TunTypeOK(Goroutines)'
<1> USE NetTunAssumption
<1>1. ASSUME UNCHANGED tunVars PROVE TunTypeOK(Goroutines)'
  BY <1>1 DEF tunVars, TunTypeOK
<1>2. ASSUME NEW g \in Goroutines, Emit(g) PROVE TunTypeOK(Goroutines)'
  BY <1>2 DEF Emit, TunTypeOK
<1>3. ASSUME NEW g \in Goroutines, Enqueue(g) PROVE TunTypeOK(Goroutines)'
  BY <1>3 DEF Enqueue, TunTypeOK
<1>4. ASSUME Read PROVE TunTypeOK(Goroutines)'
  BY <1>4, BatchFits DEF Read, TunTypeOK
<1>5. ASSUME DetachStack PROVE TunTypeOK(Goroutines)'
  BY <1>5 DEF DetachStack, TunTypeOK
<1>6. ASSUME CloseQueue PROVE TunTypeOK(Goroutines)'
  BY <1>6 DEF CloseQueue, TunTypeOK
<1>7. \/ UNCHANGED tunVars \/ Read \/ DetachStack \/ CloseQueue
      \/ \E g \in Goroutines : Emit(g) \/ Enqueue(g)
  <2>1. CASE UNCHANGED devVars
    BY <2>1 DEF devVars
  <2>2. CASE DevReaders
    BY <2>2 DEF DevReaders, ReaderWrites, ReaderGoesOn, Inject, Goroutines
  <2>3. CASE DevPump
    BY <2>3 DEF DevPump, PumpReads, PumpGoesOn
  <2>4. CASE InjectorGoesOn
    BY <2>4 DEF InjectorGoesOn, Inject, Goroutines
  <2>5. CASE DevLoop
    BY <2>5 DEF DevLoop, LoopGoesOn, Elsewhere, ForwardingGoesOn, SessionCloses
  <2>6. CASE DevSenders
    BY <2>6 DEF DevSenders, StackSends, WriteNotifyReturns, Goroutines
  <2>7. CASE DevClose
    BY <2>7 DEF DevClose, DetachDevice, CloseTun
  <2> QED BY <2>1, <2>2, <2>3, <2>4, <2>5, <2>6, <2>7, DevCases
<1> QED BY <1>1, <1>2, <1>3, <1>4, <1>5, <1>6, <1>7

\* A step that leaves the device alone keeps who is in it, if no reader moves
\* off the top and nothing of the shutdown is taken back.
LEMMA DevQuiet ==
    ASSUME DevSafe, LoopInv, UNCHANGED <<tunVars, device>>, ctxDone => ctxDone',
           Injector \in sending => injector', injector' => injector,
           loop' = "returned" =>
             loop = "returned" \/ (ctxDone /\ ~injector /\ \A s \in Sessions : rdr[s] = "none"),
           \A s \in Sessions :
             \/ rdr'[s] = rdr[s] \/ rdr'[s] = "top"
             \/ s \notin sending /\ (ctxDone => rdr'[s] = "none")
    PROVE  DevSafe'
<1>1. UNCHANGED <<attached, queue, sending, panicked, device>>
  BY DEF tunVars
<1>2. SenderInv'
  BY <1>1 DEF DevSafe, SenderInv
<1>3. DetachInv'
  BY <1>1 DEF DevSafe, DetachInv
<1>4. ReturnedInv'
  <2> SUFFICES ASSUME loop' = "returned"
               PROVE  ~injector' /\ \A s \in Sessions : rdr'[s] \in {"none", "top"} /\ s \notin sending'
    BY DEF ReturnedInv
  <2>1. ctxDone /\ ~injector /\ \A s \in Sessions : rdr[s] \in {"none", "top"} /\ s \notin sending
    BY DEF DevSafe, ReturnedInv, SenderInv, LoopInv
  <2> QED BY <1>1, <2>1
<1> QED BY <1>2, <1>3, <1>4 DEF DevSafe

\* Every step of the composition keeps what is known of the device's senders.
LEMMA DevSafeStep ==
    ASSUME IInv, DevSafe, [DevNext]_devVars
    PROVE  DevSafe'
<1>0. PumpOK /\ LoopOK /\ SessOK /\ LoopInv /\ IcmpOK
  BY TypeSplits DEF IInv
<1>1. CASE UNCHANGED devVars
  BY <1>1 DEF devVars, vars, tunVars, DevSafe, SenderInv, ReturnedInv, DetachInv
<1>2. CASE DevLoop
  <2>1. UNCHANGED <<tunVars, device, injector>> /\ (ctxDone => ctxDone')
    BY <1>2 DEF DevLoop, LoopGoesOn, Elsewhere, ForwardingGoesOn, SessionCloses, LoopNext,
                ConnectionReturns, StopLoop, CloseSwaps, CloseClosed, Joined, Cancel, Connect, ConnDies,
                Collect, ForwardingNext, Attach, SpawnReader, WaitEnds, Detach, ForwardingReturns,
                CloseSession
  <2>2. \A s \in Sessions : rdr'[s] = rdr[s] \/ rdr'[s] = "top"
    BY <1>0, <1>2 DEF DevLoop, LoopGoesOn, Elsewhere, ForwardingGoesOn, SessionCloses, LoopNext,
                ConnectionReturns, StopLoop, CloseSwaps, CloseClosed, Joined, Cancel, Connect, ConnDies,
                Collect, ForwardingNext, Attach, SpawnReader, WaitEnds, Detach, ForwardingReturns,
                CloseSession, RdrGo, SessOK
  <2>3. loop' = "returned" =>
          loop = "returned" \/ (ctxDone /\ ~injector /\ \A s \in Sessions : rdr[s] = "none")
    BY <1>0, <1>2 DEF LoopInv, DevLoop, LoopGoesOn, Elsewhere, ForwardingGoesOn, SessionCloses, LoopNext,
                ConnectionReturns, StopLoop, CloseSwaps, CloseClosed, Joined, Cancel, Connect, ConnDies,
                Collect, ForwardingNext, Attach, SpawnReader, WaitEnds, Detach, ForwardingReturns,
                CloseSession
  <2>4. Injector \in sending => injector
    BY DEF DevSafe, SenderInv
  <2> QED BY <1>0, <2>1, <2>2, <2>3, <2>4, DevQuiet
<1>3. ASSUME NEW s \in Sessions, ReaderGoesOn(s)
      PROVE  DevSafe'
  <2>1. s \notin sending /\ UNCHANGED tunVars /\ (ReaderNext(s) \/ DeviceWriteFails(s))
    BY <1>3 DEF ReaderGoesOn
  <2>2. /\ UNCHANGED <<loopVars, pumpVars>>
        /\ \A x \in Sessions \ {s} : rdr'[x] = rdr[x]
    BY <1>0, <2>1, ReaderEffect DEF SessOK
  <2>3. CASE loop = "returned"
    <3>1. rdr[s] \in {"none", "top"} /\ ctxDone
      BY <1>0, <2>3 DEF DevSafe, ReturnedInv, LoopInv
    <3>2. rdr'[s] = "none"
      BY <1>0, <2>1, <3>1 DEF ReaderNext, ReaderTop, ReadPacketFails, ReaderChecksContext,
            ReaderChecksActive, ReaderReports, ReaderEnds, DeviceWriteFails, Cancelled, RdrGo, SessOK
    <3>3. Injector \in sending => injector
      BY DEF DevSafe, SenderInv
    <3> QED BY <1>0, <2>1, <2>2, <2>3, <3>1, <3>2, <3>3, DevQuiet
  <2>4. CASE loop # "returned"
    BY <2>1, <2>2, <2>4 DEF DevSafe, SenderInv, ReturnedInv, DetachInv, tunVars
  <2> QED BY <2>3, <2>4
<1>4. ASSUME NEW s \in Sessions, ReaderWrites(s)
      PROVE  DevSafe'
  <2>1. /\ UNCHANGED <<loopVars, pumpVars>> /\ rdr[s] = "reading" /\ rdr'[s] = "top"
        /\ \A x \in Sessions \ {s} : rdr'[x] = rdr[x]
    BY <1>0, <1>4 DEF ReaderWrites, ReaderDelivers, RdrGo, SessOK
  <2>2. loop # "returned"
    BY <2>1 DEF DevSafe, ReturnedInv
  <2>3. \/ UNCHANGED tunVars
        \/ attached /\ sending' = sending \cup {s} /\ UNCHANGED <<attached, panicked>>
    BY <1>4 DEF ReaderWrites, Inject, Emit
  <2>4. s # Injector
    BY DeviceAssumption
  <2> QED BY <2>1, <2>2, <2>3, <2>4 DEF DevSafe, SenderInv, ReturnedInv, DetachInv, tunVars
<1>5. CASE DevPump
  <2>1. Pumps
    BY <1>5 DEF DevPump, PumpReads, PumpGoesOn, Pumps
  <2>2. UNCHANGED <<loopVars, rdr, injector>>
    BY <1>0, <2>1, PumpEffect
  <2>3. UNCHANGED <<attached, sending, panicked>>
    BY <1>5 DEF DevPump, PumpReads, PumpGoesOn, Read, tunVars
  <2> QED BY <2>2, <2>3 DEF DevSafe, SenderInv, ReturnedInv, DetachInv
<1>6. CASE InjectorGoesOn
  <2>1. /\ injector /\ Injector \notin sending /\ UNCHANGED <<loopVars, rdr>>
        /\ injector' => injector
    BY <1>6 DEF InjectorGoesOn, InjectorStep
  <2>2. loop # "returned"
    BY <2>1 DEF DevSafe, ReturnedInv
  <2>3. \/ UNCHANGED tunVars
        \/ /\ attached /\ sending' = sending \cup {Injector} /\ UNCHANGED <<attached, panicked>>
           /\ icmp' < icmp
    BY <1>6 DEF InjectorGoesOn, Inject, Emit
  <2>4. icmp' < icmp => injector'
    <3>1. icmp' < icmp => icmp' # icmp
      BY <1>0, SupervisorAssumption DEF IcmpOK
    <3>2. icmp' # icmp => injector' = injector
      BY <1>6 DEF InjectorGoesOn, InjectorStep
    <3> QED BY <2>1, <3>1, <3>2
  <2>5. Injector \notin Sessions
    BY DeviceAssumption
  <2>6. SenderInv'
    BY <2>1, <2>3, <2>4, <2>5 DEF DevSafe, SenderInv, tunVars
  <2>7. ReturnedInv' /\ DetachInv'
    BY <2>1, <2>2, <2>3 DEF DevSafe, ReturnedInv, DetachInv, tunVars
  <2> QED BY <2>6, <2>7 DEF DevSafe
<1>7. ASSUME NEW g \in Stack, StackSends(g)
      PROVE  DevSafe'
  <2>1. /\ UNCHANGED vars /\ attached /\ sending' = sending \cup {g} /\ UNCHANGED <<attached, panicked>>
        /\ g \notin Sessions /\ g # Injector
    BY <1>7, DeviceAssumption DEF StackSends, Emit
  <2> QED BY <2>1 DEF DevSafe, SenderInv, ReturnedInv, DetachInv, vars
<1>8. ASSUME NEW g \in Goroutines, WriteNotifyReturns(g), ~panicked
      PROVE  DevSafe'
  <2>1. UNCHANGED vars /\ g \in sending /\ sending' = sending \ {g} /\ UNCHANGED <<attached, panicked>>
    BY <1>8 DEF WriteNotifyReturns, Enqueue
  <2> QED BY <1>8, <2>1 DEF DevSafe, SenderInv, ReturnedInv, DetachInv, vars
<1>9. CASE DetachDevice
  <2>1. UNCHANGED vars /\ ctxDone /\ attached /\ ~attached' /\ UNCHANGED <<sending, panicked>>
    BY <1>9 DEF DetachDevice, DetachStack
  <2> QED BY <2>1 DEF DevSafe, SenderInv, ReturnedInv, DetachInv, vars
<1>10. CASE CloseTun
  <2>1. /\ ctxDone /\ UNCHANGED <<loop, ctxDone, rdr, injector>> /\ device' = "closed"
        /\ ~attached /\ UNCHANGED <<attached, sending>> /\ panicked' = (sending # {})
    BY <1>10 DEF CloseTun, CloseDevice, CloseQueue
  <2> QED BY <2>1 DEF DevSafe, SenderInv, ReturnedInv, DetachInv
<1> QED
  BY <1>1, <1>2, <1>3, <1>4, <1>5, <1>6, <1>7, <1>8, <1>9, <1>10, DevCases
  DEF DevReaders, DevSenders, DevClose

\* A packet is held only by a reader that is back at the top of its loop, by the
\* running injector or by the stack; after Close has returned no goroutine of the
\* supervisor is left in the device; and the queue is closed only after cancel
\* and detach.
THEOREM DeviceInvariant == DevSpec => []DevInv
<1>1. DevSpec => []IInv
  BY DeviceImplementsSupervisor, SupervisorInvariant, PTL
<1>2. DevInit => TunTypeOK(Goroutines) /\ DevSafe
  <2> SUFFICES ASSUME Init, TunInit PROVE TunTypeOK(Goroutines) /\ DevSafe
    BY DEF DevInit
  <2>1. attached \in BOOLEAN /\ panicked \in BOOLEAN /\ sending \subseteq Goroutines
    BY DEF TunInit
  <2>2. queue \in 0..QueueDepth
    BY NetTunAssumption DEF TunInit
  <2>3. SenderInv /\ ReturnedInv
    BY DEF Init, TunInit, SenderInv, ReturnedInv
  <2>4. DetachInv
    BY DEF Init, TunInit, DetachInv
  <2> QED BY <2>1, <2>2, <2>3, <2>4 DEF TunTypeOK, DevSafe
<1>3. IInv /\ TunTypeOK(Goroutines) /\ DevSafe /\ [DevNext]_devVars
        => TunTypeOK(Goroutines)' /\ DevSafe'
  BY TunTypeStep, DevSafeStep
<1>4. IInv /\ TunTypeOK(Goroutines) /\ DevSafe => DevInv
  BY DEF IInv, DevSafe, DevTypeOK, DevInv
<1> QED BY <1>1, <1>2, <1>3, <1>4, PTL DEF DevSpec

\* Type correctness of the composition: in particular the queue never holds more
\* than its depth and a batch never takes more than it holds.
THEOREM DevTypeCorrect == DevSpec => []DevTypeOK
<1>1. DevInv => DevTypeOK
  BY DEF DevInv
<1> QED BY <1>1, DeviceInvariant, PTL

\* Until the owner cancels, nothing that sessions, readers and senders do can
\* make the process panic, and the order cancel, join, close leaves only the
\* stack's own goroutines exposed.
THEOREM PanicOnlyInShutdown == DevSpec => []PanicNeedsSender
<1>1. DevInv => PanicNeedsSender
  <2> SUFFICES ASSUME DevInv, panicked
               PROVE  /\ ctxDone /\ ~attached /\ device = "closed" /\ sending # {}
                      /\ loop = "returned" => sending \subseteq Stack
    BY DEF PanicNeedsSender
  <2>1. ctxDone /\ ~attached /\ device = "closed" /\ sending # {}
    BY DEF DevInv, DetachInv
  <2>2. ASSUME loop = "returned" PROVE sending \subseteq Stack
    <3>1. Injector \notin sending /\ \A s \in Sessions : s \notin sending
      BY <2>2 DEF DevInv, SenderInv, ReturnedInv
    <3>2. sending \subseteq Goroutines
      BY DEF DevInv, DevTypeOK, TunTypeOK
    <3> QED BY <3>1, <3>2 DEF Goroutines
  <2> QED BY <2>1, <2>2
<1> QED BY <1>1, DeviceInvariant, PTL

=============================================================================
