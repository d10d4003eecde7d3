------------------------------- MODULE NetTun -------------------------------
(***************************************************************************)
(* The netstack TUN device of internal/netstack/tun.go.  The stack's       *)
(* goroutines hand it packets (the channel endpoint calls WriteNotify in   *)
(* the goroutine that sends), and one reader takes them from a bounded     *)
(* channel in batches.  A packet written to the device is handled by the   *)
(* stack in the goroutine that writes it, and may make it send: a writer   *)
(* can block in WriteNotify like any other sender.                         *)
(*                                                                         *)
(* gVisor is external.  Its endpoint queue only holds a packet between the *)
(* stack's write and the WriteNotify that follows in the same goroutine,   *)
(* so a sender is represented by its WriteNotify alone.                    *)
(***************************************************************************)
EXTENDS Naturals, FiniteSetsExt

CONSTANTS
    QueueDepth,   \* incomingPacketQueueDepth
    BatchSize     \* batchSize

\* "it must not exceed incomingPacketQueueDepth" (batchSize).
ASSUME NetTunAssumption ==
    /\ QueueDepth \in Nat \ {0}
    /\ BatchSize \in 1..QueueDepth

VARIABLES
    attached,   \* the endpoint is attached to the stack and notifies the device
    queue,      \* packets in incomingPacket
    sending,    \* the goroutines inside WriteNotify that hold a packet
    panicked    \* a goroutine sent on the closed channel

tunVars == <<attached, queue, sending, panicked>>

TunTypeOK(G) ==
    /\ attached \in BOOLEAN
    /\ queue \in 0..QueueDepth
    /\ sending \subseteq G
    /\ panicked \in BOOLEAN

\* CreateNetTUN.
TunInit == attached = TRUE /\ queue = 0 /\ sending = {} /\ panicked = FALSE

-----------------------------------------------------------------------------
\* The stack sends a packet from goroutine g: WriteNotify takes it from the
\* endpoint.
Emit(g) ==
    /\ attached /\ g \notin sending
    /\ sending' = sending \cup {g}
    /\ UNCHANGED <<attached, queue, panicked>>

\* Write: InjectInbound runs the stack in the writer's goroutine, which sends
\* something or does not.
Inject(g) ==
    \/ Emit(g)
    \/ UNCHANGED tunVars

\* The channel send of WriteNotify, which waits while the queue is full.
Enqueue(g) ==
    /\ g \in sending
    /\ queue < QueueDepth
    /\ queue' = queue + 1
    /\ sending' = sending \ {g}
    /\ UNCHANGED <<attached, panicked>>

\* Read: blocks for the first packet and drains the rest, up to the caller's
\* buffers; what was queued before the channel was closed is still delivered.
Read ==
    /\ queue > 0
    /\ queue' = queue - Min({queue, BatchSize})
    /\ UNCHANGED <<attached, sending, panicked>>

\* Close: RemoveNIC, stack.Close, RemoveNotify and ep.Close.  They do not wait
\* for a goroutine that is inside WriteNotify.
DetachStack ==
    /\ attached
    /\ attached' = FALSE
    /\ UNCHANGED <<queue, sending, panicked>>

\* Close: close(incomingPacket).  A goroutine that is sending panics.
CloseQueue ==
    /\ ~attached
    /\ panicked' = (sending # {})
    /\ UNCHANGED <<attached, queue, sending>>

=============================================================================
