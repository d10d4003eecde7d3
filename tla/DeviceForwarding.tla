-------------------------- MODULE DeviceForwarding --------------------------
(***************************************************************************)
(* The forwarding supervisor on top of the netstack device: the session's  *)
(* reader and the ICMP injector write to the device, the pump is its only  *)
(* reader, and goroutines of the stack send through it too.  A writer      *)
(* blocks when the device's queue is full, so everything here depends on   *)
(* the pump going back to its read, with or without a session.             *)
(***************************************************************************)
EXTENDS ForwardingSupervisor, NetTun

CONSTANTS
    Injector,   \* the goroutine of runICMPInjector
    Stack       \* goroutines of the stack that send (TCP timers, clients' writes)

\* They are different goroutines; a session stands for its reader.
ASSUME DeviceAssumption ==
    /\ Injector \notin Sessions \cup Stack
    /\ Sessions \cap Stack = {}

Goroutines == Sessions \cup {Injector} \cup Stack
devVars == <<vars, tunVars>>

DevTypeOK == TypeOK /\ TunTypeOK(Goroutines)

DevInit == Init /\ TunInit

-----------------------------------------------------------------------------
\* runIPToDevice: a packet is written to the device, and with it the stack runs.
ReaderWrites(s) == ReaderDelivers(s) /\ Inject(s)

\* The reader goes on when its WritePacket has returned.
ReaderGoesOn(s) ==
    /\ s \notin sending
    /\ ReaderNext(s) \/ DeviceWriteFails(s)
    /\ UNCHANGED tunVars

\* runICMPInjector: likewise.
InjectorGoesOn ==
    /\ Injector \notin sending
    /\ InjectorStep
    /\ IF icmp' < icmp THEN Inject(Injector) ELSE UNCHANGED tunVars

\* Mutant: the pump leaves the device alone while it has no session.
BugReadsForSession ==
    /\ active # None
    /\ PumpGets /\ Read

\* The pump's read returns packets.
PumpReads == PumpGets /\ Read

\* Read reports os.ErrClosed once the closed channel is empty.
PumpGoesOn ==
    /\ PumpNext
    /\ PumpStops => queue = 0
    /\ UNCHANGED tunVars

\* A goroutine of the stack sends on its own account.
StackSends(g) == Emit(g) /\ UNCHANGED vars

WriteNotifyReturns(g) == Enqueue(g) /\ UNCHANGED vars

\* The owner's cleanup after cancel(): tunDev.Close().
DetachDevice == ctxDone /\ DetachStack /\ UNCHANGED vars
CloseTun == CloseDevice /\ CloseQueue

\* What the supervisor does without touching the device.
LoopGoesOn == LoopNext /\ UNCHANGED tunVars
ForwardingGoesOn(s) == ForwardingNext(s) /\ UNCHANGED tunVars
SessionCloses(s) == CloseSession(s) /\ UNCHANGED tunVars
Elsewhere ==
    /\ Cancel \/ \E s \in Sessions : Connect(s) \/ ConnDies(s) \/ Collect(s)
    /\ UNCHANGED tunVars

\* A panic ends the process.
DevNext ==
    /\ ~panicked
    /\ \/ LoopGoesOn \/ Elsewhere
       \/ PumpReads \/ PumpGoesOn \/ InjectorGoesOn
       \/ DetachDevice \/ CloseTun
       \/ \E s \in Sessions :
            ForwardingGoesOn(s) \/ SessionCloses(s) \/ ReaderWrites(s) \/ ReaderGoesOn(s)
       \/ \E g \in Stack : StackSends(g)
       \/ \E g \in Goroutines : WriteNotifyReturns(g)

DevSpec == DevInit /\ [][DevNext]_devVars

\* Goroutines run; a read or write on a dead or closed connection returns, a
\* read of the device returns once packets are queued, and cleanup goes on to
\* close the device.  A channel serves its blocked senders in turn (strong fairness).
\* Nothing is assumed of who sends what.
DevFairSpec ==
    /\ DevSpec
    /\ WF_devVars(~panicked /\ LoopGoesOn)
    /\ WF_devVars(~panicked /\ PumpReads)
    /\ WF_devVars(~panicked /\ PumpGoesOn)
    /\ WF_devVars(~panicked /\ InjectorGoesOn)
    /\ WF_devVars(~panicked /\ DetachDevice)
    /\ WF_devVars(~panicked /\ CloseTun)
    /\ \A s \in Sessions :
         /\ WF_devVars(~panicked /\ ForwardingGoesOn(s))
         /\ WF_devVars(~panicked /\ SessionCloses(s))
         /\ WF_devVars(~panicked /\ s \notin sending /\ ReaderNext(s) /\ UNCHANGED tunVars)
    /\ \A g \in Goroutines : SF_devVars(~panicked /\ WriteNotifyReturns(g))

-----------------------------------------------------------------------------
(* Properties *)

\* "Reading and discarding keeps the netstack device drained so it never
\* blocks": whoever is blocked in WriteNotify gets on, also while there is no
\* session, while a session is torn down, and when the blocked goroutine is the
\* session's own reader or the injector.
SendersAreServed ==
    \A g \in Goroutines : []<>(g \notin sending \/ ctxDone)

\* The death of a connection always ends its handleForwarding, so that
\* MaintainTunnel learns of it, whichever pump notices first, and also when the
\* session's reader is then inside the device: no connection that is not up any
\* more is kept for ever (a panic in Close ends it too).
DeathEndsForwarding ==
    \A s \in Sessions :
        []<>(~(loop = "running" /\ loopSess = s /\ conn[s] # "up") \/ panicked)

\* Cancelling the context and closing the device ends every goroutine of the
\* supervisor, also a session that is attached while Close is running and a
\* reader that is blocked in the device when the pump has already gone: at the
\* latest closing the queue ends it, with the process.
ShutdownEndsOrPanics == []<>(ctxDone => AllEnded \/ panicked)

\* "Cancel first so MaintainTunnel's forwarding supervisor unwinds its pump
\* goroutines before the TUN device disappears": nobody sends on the channel
\* that Close closes.
NoSendOnClosedQueue == ~panicked

\* A send on the closed channel needs a goroutine that was already blocked in
\* WriteNotify when Close reached it; that is after cancel, and once the
\* supervisor's Close has returned it can only be a goroutine of the stack.
PanicNeedsSender ==
    panicked =>
        /\ ctxDone /\ ~attached /\ device = "closed"
        /\ sending # {}
        /\ loop = "returned" => sending \subseteq Stack

=============================================================================
