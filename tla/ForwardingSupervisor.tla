------------------------ MODULE ForwardingSupervisor ------------------------
(***************************************************************************)
(* api/forwarding_supervisor.go: the pumps between the TUN device and the  *)
(* MASQUE connection, and the part of handleConnectionWithForwarding and   *)
(* MaintainTunnel that starts and stops them.                              *)
(*                                                                         *)
(* One device-to-IP pump and one ICMP injector live as long as the         *)
(* supervisor.  Every connection gets a session: a handleForwarding        *)
(* goroutine that attaches it, waits and detaches it, and an IP-to-device  *)
(* reader.  A reconnect swaps the active session under the pump, so the    *)
(* pump may be writing to a session that is already gone.                  *)
(***************************************************************************)
EXTENDS Integers, FiniteSets

CONSTANTS
    Sessions,   \* session objects; reused once nobody holds them
    None,       \* no session
    IcmpDepth   \* capacity of icmpCh

ASSUME SupervisorAssumption ==
    /\ None \notin Sessions
    /\ IcmpDepth \in Nat \ {0}

VARIABLES
    loop,       \* MaintainTunnel: "idle" between connections, "running" one,
                \* then "stopping", "closing", "joining" inside Close, "returned"
    loopSess,   \* the session of the connection it runs, or that Close closes
    ctxDone,    \* the context is cancelled (and with it every context derived from it)
    device,     \* the TUN device: "open" or "closed"
    active,     \* supervisor.active
    conn,       \* a session's connection: "unused", "up", "dead" (path or edge), "closed"
    once,       \* a session's closeOnce: "no", "shut" (conn closed), "done" (and cancelled)
    err,        \* what the first reportSessionError of a session put in errCh:
                \* nothing, an error of its connection or one of the device
    fwd,        \* handleForwarding of a session
    rdr,        \* runIPToDevice of a session
    pump,       \* runDeviceToIP: its place and the session it writes to
    injector,   \* runICMPInjector runs
    icmp        \* packets in icmpCh

vars == <<loop, loopSess, ctxDone, device, active, conn, once, err, fwd, rdr,
          pump, injector, icmp>>
loopVars == <<loop, loopSess, ctxDone, device>>
sessVars == <<active, conn, once>>
pumpVars == <<pump, injector, icmp>>

TypeOK ==
    /\ loop \in {"idle", "running", "stopping", "closing", "joining", "returned"}
    /\ loopSess \in Sessions \cup {None}
    /\ ctxDone \in BOOLEAN
    /\ device \in {"open", "closed"}
    /\ active \in Sessions \cup {None}
    /\ conn \in [Sessions -> {"unused", "up", "dead", "closed"}]
    /\ once \in [Sessions -> {"no", "shut", "done"}]
    /\ err \in [Sessions -> {"none", "conn", "device"}]
    /\ fwd \in [Sessions -> {"none", "attaching", "spawning", "waiting", "detaching",
                             "closing", "ended"}]
    /\ rdr \in [Sessions -> {"none", "top", "reading", "failed", "checking", "connError",
                             "deviceError", "closing"}]
    /\ pump \in [at : {"top", "reading", "got", "writing", "checking", "connError", "deviceError",
                       "closing", "ended"},
                 sess : Sessions \cup {None}]
    /\ injector \in BOOLEAN
    /\ icmp \in 0..IcmpDepth

Init ==
    /\ loop = "idle" /\ loopSess = None
    /\ ctxDone = FALSE /\ device = "open"
    /\ active = None
    /\ conn = [s \in Sessions |-> "unused"]
    /\ once = [s \in Sessions |-> "no"]
    /\ err = [s \in Sessions |-> "none"]
    /\ fwd = [s \in Sessions |-> "none"]
    /\ rdr = [s \in Sessions |-> "none"]
    /\ pump = [at |-> "top", sess |-> None]
    /\ injector = TRUE
    /\ icmp = 0

\* session.ctx is done.
Cancelled(s) == ctxDone \/ once[s] = "done"

\* The context given to handleForwarding: the child that
\* handleConnectionWithForwarding cancels when it returns.
ForwardingCtxDone(s) == ctxDone \/ ~(loop = "running" /\ loopSess = s)

FwdGo(s, p) == fwd' = [fwd EXCEPT ![s] = p]
RdrGo(s, p) == rdr' = [rdr EXCEPT ![s] = p]
PumpGo(p)   == pump' = [pump EXCEPT !.at = p]
PumpTop     == pump' = [at |-> "top", sess |-> None]

-----------------------------------------------------------------------------
(* session.close(): the connection first, then the context.  Whoever calls it
   while another is inside waits for closeOnce. *)

InClose(s) ==
    \/ fwd[s] = "closing" \/ rdr[s] = "closing"
    \/ pump.at = "closing" /\ pump.sess = s
    \/ loop = "closing" /\ loopSess = s

CloseSession(s) ==
    /\ InClose(s)
    /\ \/ /\ once[s] = "no"
          /\ once' = [once EXCEPT ![s] = "shut"]
          /\ conn' = [conn EXCEPT ![s] = "closed"]
       \/ /\ once[s] = "shut"
          /\ once' = [once EXCEPT ![s] = "done"]
          /\ UNCHANGED conn
    /\ UNCHANGED <<loopVars, active, err, fwd, rdr, pumpVars>>

\* reportSessionError: the first report is put in errCh and closes the
\* session; a later one only waits for errOnce.
Report(s, at) ==
    LET e == IF at = "deviceError" THEN "device" ELSE "conn"
    IN err' = [err EXCEPT ![s] = IF @ = "none" THEN e ELSE @]

-----------------------------------------------------------------------------
(* MaintainTunnel, handleConnectionWithForwarding and Close *)

\* A connection is up; handleForwarding starts in a goroutine of its own.
Connect(s) ==
    /\ loop = "idle" /\ ~ctxDone
    /\ conn[s] = "unused"
    /\ loop' = "running" /\ loopSess' = s
    /\ conn' = [conn EXCEPT ![s] = "up"]
    /\ FwdGo(s, "attaching")
    /\ UNCHANGED <<ctxDone, device, active, once, err, rdr, pumpVars>>

\* handleConnectionWithForwarding returns: its deferred calls close the
\* connection.  On ctx.Done() it does not wait for handleForwarding.
ConnectionReturns ==
    /\ loop = "running"
    /\ \/ fwd[loopSess] = "ended" /\ loop' = "idle"
       \/ ctxDone /\ loop' = "stopping"
    /\ loopSess' = None
    /\ conn' = [conn EXCEPT ![loopSess] = "closed"]
    /\ UNCHANGED <<ctxDone, device, active, once, err, fwd, rdr, pumpVars>>

StopLoop ==
    /\ loop = "idle" /\ ctxDone
    /\ loop' = "stopping"
    /\ UNCHANGED <<loopSess, ctxDone, device, sessVars, err, fwd, rdr, pumpVars>>

\* supervisor.Close: the active session is taken out under mu and closed.
CloseSwaps ==
    /\ loop = "stopping"
    /\ active' = None
    /\ loopSess' = active
    /\ loop' = IF active = None THEN "joining" ELSE "closing"
    /\ UNCHANGED <<ctxDone, device, conn, once, err, fwd, rdr, pumpVars>>

CloseClosed ==
    /\ loop = "closing" /\ once[loopSess] = "done"
    /\ loop' = "joining" /\ loopSess' = None
    /\ UNCHANGED <<ctxDone, device, sessVars, err, fwd, rdr, pumpVars>>

\* wg.Wait returns: the pump, the injector and every reader added so far are done.
Joined ==
    /\ loop = "joining"
    /\ pump.at = "ended" /\ ~injector
    /\ \A s \in Sessions : rdr[s] = "none"
    /\ loop' = "returned"
    /\ UNCHANGED <<loopSess, ctxDone, device, sessVars, err, fwd, rdr, pumpVars>>

\* The owner's cleanup: cancel(), then the device is closed.
Cancel ==
    /\ ~ctxDone
    /\ ctxDone' = TRUE
    /\ UNCHANGED <<loop, loopSess, device, sessVars, err, fwd, rdr, pumpVars>>

CloseDevice ==
    /\ ctxDone /\ device = "open"
    /\ device' = "closed"
    /\ UNCHANGED <<loop, loopSess, ctxDone, sessVars, err, fwd, rdr, pumpVars>>

-----------------------------------------------------------------------------
(* handleForwarding *)

\* attach: the critical section.  (handleForwarding detaches its session before
\* it returns, so no earlier session is left to be closed here.)
Attach(s) ==
    /\ fwd[s] = "attaching"
    /\ active' = s
    /\ FwdGo(s, "spawning")
    /\ UNCHANGED <<loopVars, conn, once, err, rdr, pumpVars>>

\* attach: wg.Add(1) and the reader.
SpawnReader(s) ==
    /\ fwd[s] = "spawning"
    /\ FwdGo(s, "waiting")
    /\ RdrGo(s, "top")
    /\ UNCHANGED <<loopVars, sessVars, err, pumpVars>>

WaitEnds(s) ==
    /\ fwd[s] = "waiting"
    /\ err[s] # "none" \/ ForwardingCtxDone(s)
    /\ FwdGo(s, "detaching")
    /\ UNCHANGED <<loopVars, sessVars, err, rdr, pumpVars>>

Detach(s) ==
    /\ fwd[s] = "detaching"
    /\ active' = IF active = s THEN None ELSE active
    /\ FwdGo(s, "closing")
    /\ UNCHANGED <<loopVars, conn, once, err, rdr, pumpVars>>

ForwardingReturns(s) ==
    /\ fwd[s] = "closing" /\ once[s] = "done"
    /\ FwdGo(s, "ended")
    /\ UNCHANGED <<loopVars, sessVars, err, rdr, pumpVars>>

-----------------------------------------------------------------------------
(* runIPToDevice *)

\* The check at the top of the loop.
ReaderTop(s) ==
    /\ rdr[s] = "top"
    /\ RdrGo(s, IF Cancelled(s) THEN "none" ELSE "reading")
    /\ UNCHANGED <<loopVars, sessVars, err, fwd, pumpVars>>

\* A packet is read and written to the device.
ReaderDelivers(s) ==
    /\ rdr[s] = "reading" /\ conn[s] = "up"
    /\ RdrGo(s, "top")
    /\ UNCHANGED <<loopVars, sessVars, err, fwd, pumpVars>>

\* ReadPacket fails: the session's context is looked at first.
ReadPacketFails(s) ==
    /\ rdr[s] = "reading" /\ conn[s] # "up"
    /\ RdrGo(s, "failed")
    /\ UNCHANGED <<loopVars, sessVars, err, fwd, pumpVars>>

ReaderChecksContext(s) ==
    /\ rdr[s] = "failed"
    /\ RdrGo(s, IF Cancelled(s) THEN "none" ELSE "checking")
    /\ UNCHANGED <<loopVars, sessVars, err, fwd, pumpVars>>

\* Mutant: a failed read ends the reader without a word.
BugSilentReader(s) ==
    /\ rdr[s] = "checking"
    /\ RdrGo(s, "none")
    /\ UNCHANGED <<loopVars, sessVars, err, fwd, pumpVars>>

ReaderChecksActive(s) ==
    /\ rdr[s] = "checking"
    /\ RdrGo(s, IF active = s THEN "connError" ELSE "none")
    /\ UNCHANGED <<loopVars, sessVars, err, fwd, pumpVars>>

\* The device refuses a packet that was read from the connection.
DeviceWriteFails(s) ==
    /\ rdr[s] = "reading" /\ conn[s] = "up"
    /\ RdrGo(s, "deviceError")
    /\ UNCHANGED <<loopVars, sessVars, err, fwd, pumpVars>>

ReaderReports(s) ==
    /\ rdr[s] \in {"connError", "deviceError"}
    /\ Report(s, rdr[s])
    /\ RdrGo(s, "closing")
    /\ UNCHANGED <<loopVars, sessVars, fwd, pumpVars>>

ReaderEnds(s) ==
    /\ rdr[s] = "closing" /\ once[s] = "done"
    /\ RdrGo(s, "none")
    /\ UNCHANGED <<loopVars, sessVars, err, fwd, pumpVars>>

-----------------------------------------------------------------------------
(* runDeviceToIP *)

\* The check at the top of the loop.
PumpStarts ==
    /\ pump.at = "top"
    /\ PumpGo(IF ctxDone THEN "ended" ELSE "reading")
    /\ UNCHANGED <<loopVars, sessVars, err, fwd, rdr, injector, icmp>>

\* The pump blocks in the read until the device has packets; those queued
\* before the device was closed can still be read.
PumpGets ==
    /\ pump.at = "reading"
    /\ PumpGo("got")
    /\ UNCHANGED <<loopVars, sessVars, err, fwd, rdr, injector, icmp>>

\* The read fails because the device is closed (which happens after cancel).
PumpStops ==
    /\ pump.at = "reading" /\ device = "closed" /\ ctxDone
    /\ PumpGo("ended")
    /\ UNCHANGED <<loopVars, sessVars, err, fwd, rdr, injector, icmp>>

\* The device fails although the supervisor is live: the active session is
\* blamed, and the pump tries again after a pause.
DeviceReadFails ==
    /\ pump.at = "reading" /\ ~ctxDone
    /\ pump' = [at |-> IF active = None THEN "top" ELSE "deviceError", sess |-> active]
    /\ UNCHANGED <<loopVars, sessVars, err, fwd, rdr, injector, icmp>>

\* activeSession(): packets are dropped while there is no usable session.
PumpPicksSession ==
    /\ pump.at = "got"
    /\ IF active = None \/ Cancelled(active) THEN PumpTop
       ELSE pump' = [at |-> "writing", sess |-> active]
    /\ UNCHANGED <<loopVars, sessVars, err, fwd, rdr, injector, icmp>>

\* A batch is written; an ICMP answer is queued for the injector or dropped.
PumpWrites ==
    /\ pump.at = "writing" /\ conn[pump.sess] = "up"
    /\ icmp' \in {icmp, IF icmp < IcmpDepth THEN icmp + 1 ELSE icmp}
    /\ PumpTop
    /\ UNCHANGED <<loopVars, sessVars, err, fwd, rdr, injector>>

PumpWriteFails ==
    /\ pump.at = "writing" /\ conn[pump.sess] # "up"
    /\ PumpGo("checking")
    /\ UNCHANGED <<loopVars, sessVars, err, fwd, rdr, injector, icmp>>

\* Mutant: the error is charged to whichever session is active now.
BugBlameActive ==
    /\ pump.at = "checking"
    /\ IF active # None THEN pump' = [at |-> "connError", sess |-> active] ELSE PumpTop
    /\ UNCHANGED <<loopVars, sessVars, err, fwd, rdr, injector, icmp>>

\* isActiveSession(session): a session already superseded is not reported.
PumpChecksActive ==
    /\ pump.at = "checking"
    /\ IF active = pump.sess THEN PumpGo("connError") ELSE PumpTop
    /\ UNCHANGED <<loopVars, sessVars, err, fwd, rdr, injector, icmp>>

PumpReports ==
    /\ pump.at \in {"connError", "deviceError"}
    /\ Report(pump.sess, pump.at)
    /\ PumpGo("closing")
    /\ UNCHANGED <<loopVars, sessVars, fwd, rdr, injector, icmp>>

PumpReported ==
    /\ pump.at = "closing" /\ once[pump.sess] = "done"
    /\ PumpTop
    /\ UNCHANGED <<loopVars, sessVars, err, fwd, rdr, injector, icmp>>

\* Mutant: the injector does not watch the context.
BugInjectorIgnoresContext ==
    /\ injector /\ icmp > 0
    /\ icmp' = icmp - 1
    /\ UNCHANGED <<loopVars, sessVars, err, fwd, rdr, pump, injector>>

\* runICMPInjector: its select, with both cases ready, takes either.
InjectorStep ==
    /\ injector
    /\ \/ ctxDone /\ injector' = FALSE /\ UNCHANGED icmp
       \/ icmp > 0 /\ icmp' = icmp - 1 /\ UNCHANGED injector
    /\ UNCHANGED <<loopVars, sessVars, err, fwd, rdr, pump>>

-----------------------------------------------------------------------------
(* The path fails; objects nobody refers to are reused. *)

ConnDies(s) ==
    /\ conn[s] = "up"
    /\ conn' = [conn EXCEPT ![s] = "dead"]
    /\ UNCHANGED <<loopVars, active, once, err, fwd, rdr, pumpVars>>

Collect(s) ==
    /\ fwd[s] = "ended" /\ rdr[s] = "none"
    /\ s \notin {active, loopSess, pump.sess}
    /\ conn' = [conn EXCEPT ![s] = "unused"]
    /\ once' = [once EXCEPT ![s] = "no"]
    /\ FwdGo(s, "none")
    /\ err' = [err EXCEPT ![s] = "none"]
    /\ UNCHANGED <<loopVars, active, rdr, pumpVars>>

LoopNext == ConnectionReturns \/ StopLoop \/ CloseSwaps \/ CloseClosed \/ Joined

ForwardingNext(s) ==
    Attach(s) \/ SpawnReader(s) \/ WaitEnds(s) \/ Detach(s) \/ ForwardingReturns(s)

ReaderNext(s) ==
    \/ ReaderTop(s) \/ ReadPacketFails(s) \/ ReaderChecksContext(s)
    \/ ReaderChecksActive(s) \/ ReaderReports(s) \/ ReaderEnds(s)

PumpNext ==
    \/ PumpStarts \/ PumpStops \/ PumpPicksSession \/ PumpWrites
    \/ PumpWriteFails \/ PumpChecksActive \/ PumpReports \/ PumpReported

Next ==
    \/ LoopNext \/ Cancel \/ CloseDevice
    \/ PumpNext \/ PumpGets \/ DeviceReadFails \/ InjectorStep
    \/ \E s \in Sessions :
         \/ Connect(s) \/ ForwardingNext(s) \/ ReaderNext(s) \/ ReaderDelivers(s) \/ DeviceWriteFails(s)
         \/ CloseSession(s) \/ ConnDies(s) \/ Collect(s)

Spec == Init /\ [][Next]_vars

-----------------------------------------------------------------------------
(* Properties *)

\* A session whose connection is healthy is not torn down by the failure of an
\* earlier one: only its own connection or the device can end it before shutdown.
HealthySessionIsKept ==
    [][\A s \in Sessions :
         (conn[s] = "up" /\ conn'[s] = "closed" /\ ~ctxDone) => err[s] = "device"]_vars

\* Every goroutine of the supervisor has ended.
AllEnded ==
    /\ loop = "returned" /\ pump.at = "ended" /\ ~injector
    /\ \A s \in Sessions : rdr[s] = "none" /\ fwd[s] \in {"none", "ended"}

\* "Cancel first so MaintainTunnel's forwarding supervisor unwinds its pump
\* goroutines before the TUN device disappears".
PumpsUnwindBeforeDevice ==
    [][(device = "open" /\ device' = "closed") =>
         (pump.at = "ended" /\ \A s \in Sessions : rdr[s] = "none")]_vars

=============================================================================
