# uscf in TLA+

A verification development for `uscf`, a SOCKS5 proxy over Cloudflare WARP. The
modules model the concurrent control of the proxy: when the tunnel is up, who may
dial, what happens to clients when a session dies, how sockets, connections and
goroutines are given back, by which network a request leaves, and what an
interrupted start leaves on disk. Paths below are relative to the repository (`src/`).

Contents: [the system](#the-system) · [modules](#modules) · [runs](#runs) ·
[proofs](#proofs) · [findings and observations](#findings-and-observations) ·
[not modelled](#not-modelled) · [plan](#plan)

## The system

A client connects to the SOCKS listener; the accept loop tests a gate, tracks the
connection and hands it to a goroutine that dials and relays. Behind the dial there
is one of four transports, and each drives the gate.

| Component | State | Operations | Works with | What makes it correct |
|---|---|---|---|---|
| Reconnect loop, `api/tunnel.go` | attempt counter, the session | connect, callbacks, forward, park for demand, back off, pause at the limit | its owner through `OnConnected`, `OnDisconnected`, `WaitForReconnectDemand` | a refused client wakes it; it gives up only after that many failures in a row |
| MASQUE connect, `api/masque.go` | the socket, connection and stream of an attempt | listen, dial, request, retry once, close in defers | the reconnect loop, quic-go, connect-ip | an attempt that fails at any step leaves nothing open |
| SOCKS runtime, `cmd/socks_runtime.go`, `cmd/tunnel_health_state.go` | gate `tunnelUp`, a one-token `demand` channel, `activeConns`, the state file | `SetTunnelUp`, `SignalDemand`, `drainDemand`, `TrackConn`, `ResetTrackedConns` | every transport, the accept loop, a container's healthcheck | no demand is lost; the file tells the gate |
| L3 data plane, `cmd/proxy.go` (`startTunnel`, `runSocksServer`) | the connections being accepted and served | accept, drop, track, serve, reset | loop and runtime | no client hangs on a flow of a dead session |
| Forwarding supervisor, `api/forwarding_supervisor.go` | the active session, an ICMP queue | attach, pump, read, report, detach, Close | loop, TUN device, MASQUE connection | a late error of an old session spares the new one; shutdown joins everything |
| Netstack device, `internal/netstack/tun.go` | a bounded packet queue | Read, Write, WriteNotify, Close | the supervisor's pump, readers and injector; gVisor's goroutines | whoever blocks on a full queue is served |
| Lazy UDP leg, `cmd/l3_udp_tunnel.go` | its own gate, token and loop | `DialUDP`, cleanup | a second reconnect loop | a datagram brings the leg back |
| UDP ASSOCIATE, `cmd/socks_adapter.go` | upstream per destination, a process-wide semaphore | read, dial, store, relay, `close()` | resolver, dialers | slots and sockets stay paired; nothing outlives its association |
| TCP relay, `cmd/socks_adapter.go`, `models/net.go` | two copying goroutines, re-arming deadlines | copy, half-close, lower the idle bound | the two connections of a flow | both directions end and are reclaimed, none too early |
| L4 connection, `api/l4proxy.go` | a cached QUIC connection, a failure run | dial, CONNECT, tear down, rebuild, Close | concurrent dials | one connection, never leaked, replaced when wedged |
| Resolvers, `api/resolver.go`, `cmd/bypass_domain.go` | bounded cache, queries in progress, one race of servers per query | resolve, store, evict | every dial | answers never go back in time; one server that answers is enough |
| Routing, `cmd/route_policy.go`, `cmd/bypass_domain.go`, `cmd/l4.go`, `api/l4pool.go` | the normalised configuration | match, select a route, pick a shard | resolvers, dialers of both data planes | a request leaves by the documented network |
| WireGuard transport, `cmd/wg_transport.go` | the watchdog's counters, backoff | poll, declare a wedge, re-point, recover, stop | runtime, wireguard-go | gate and clients follow the watchdog; a wedge heals |
| Start-up, `cmd/root.go`, `cmd/proxy.go`, `cmd/wg_register.go`, `config/`, `api/cloudflare.go` | `config.json`, `config.yaml`, `key.json`, `wg-account.json`, `jwt.txt`, the account at the API | migrate, load, split, decide, register, bind, enrol, save, override | registration API, the operator | what is saved was confirmed by the API; an interrupted start should leave the account to the next one (with exceptions, see [observations](#findings-and-observations)) |
| Other commands, formatting, logging | | | | see [not modelled](#not-modelled) |

What is hard here: several goroutines act on state they read a moment ago (the gate,
the idle bound, the cached connection, the answers of racing DNS servers); callbacks run in the loop's goroutine while
clients come and go; `OnDisconnected` resets clients while others are between the
gate and the dial; every transport can die at any step; a waiting loop depends on a
token that has room for one; shutdown meets all of these half way. Start-up is
sequential, but it changes three files and a remote account one after the other, in
place, and can be killed between any two.

`PROJECT.json` lists every hazard at its line with the properties that guard it, or says why none does.

## Modules

An action is what a goroutine does between two points where another can run: a
critical section, an atomic access, a channel operation, or a wait for the network.
Names follow the source. `PROJECT.json` maps each definition to its lines.
Definitions called `Bug...` are variants of the next definition, each a plausible
mistake in that code; replacing the definition by it makes a run fail, which shows
that the run's property depends on the code.

- **MaintainTunnel** – the reconnect loop as actions over `loop`, `attempt`,
  `session`, `ctxDone`. While `loop` is `onConnected`, `onDisconnected` or `parked`
  the owner's code runs. The counter saturates at `AttemptCap`, which is never below
  `MaxReconnectAttempts`, the only thing it is compared with.
- **MasqueConnect** – one attempt in detail: `ConnectTunnel`, `connectTunnelHTTP3` and
  `handleConnectionWithForwarding` with its deferred calls. `open` is the set of
  objects that exist, `pc` where the goroutine is, `tries` the inner retry. It refines
  MaintainTunnel: all steps up to the status are its "connecting", and the deferred
  calls belong to its "forwarding". What quic-go and net/http do is external: a QUIC
  connection whose socket is closed is gone, `CloseIdleConnections` closes a connection
  without a stream.
- **SocksRuntime** – gate, token, tracked connections, state file, as fragments that
  constrain one primed variable each. The swap of the gate and the write of the file
  are separate, as in `SetTunnelUp`; a write may fail.
- **FlowSessions** – the abstract promise: a flow is opened on a live link only, and
  a new link comes up only when no flow of the last one is open.
- **TunnelLifecycle** – composes the first two with `startTunnel`'s callbacks, the
  accept loop and the clients, plus a crash and restart of the process. `conn[c]`
  says where a client is, `cb` and `sweep` where a callback is. Refinement to
  FlowSessions: the link is a live session, the open flows are the tracked clients
  being relayed through the tunnel.
- **L3UDPTunnel** – composes MaintainTunnel with the UDP leg of L4 mode. A flow is
  an (association, destination) pair.
- **UDPAssociation** – reader, relays, control watcher and closer of each
  association, and the shared semaphore. Socket objects are reused once nobody
  refers to them, so any number of dials is covered.
- **TCPRelay** – `relayTCP`, `copyHalf`, `shortenRelayIdle` over `TimeoutConn`, load
  by load and store by store, since the bound is lowered under a running Read. Time
  moves in ticks, only when every goroutine is blocked. Assumes a positive idle bound
  (the defaults; with 0 no deadline is armed at all).
- **L4Proxy** – `DialContext` with its one retry, `dialConn`, `closeConn`,
  `noteConnFailure`, `Close`. Of time since the first failure only "less or more than
  twice the connect timeout" matters.
- **CachingResolver** – an answer is the version of the record when it was read, so
  old and new can be told apart. What singleflight gives its callers (one query per name
  at a time, its result for all who joined) is external. Eviction chooses any expired entry, else any entry,
  as a Go map's order does.
- **SocksDispatch** – extends CachingResolver with what is around it: the normalised
  configuration `cfg`, the inner resolver of a name (tunnel servers racing each other,
  the deadline and the closing of the channel; local; system), and the dial that
  follows, with the route policy, the L4 pool's shard and the UDP rules of L4 mode.
  `flow` shows the last dial and its egress. A name is a sequence of labels; what
  `normalizeBypassDomain` makes of a string is a constant of the instance. WireGuard
  uses the L3 runtime and is covered by mode `l3`. The gate is up; the other modules
  are about the gate.
- **ForwardingSupervisor** – pump, injector, per-session goroutines, `closeOnce`,
  and the part of the loop that starts and stops them.
- **NetTun** – the device's queue as fragments: a goroutine inside `WriteNotify` holds
  one packet; `Write` runs the stack in the writer's goroutine, so a writer may end up
  in `WriteNotify` itself. `Close` detaches the stack and then closes the channel.
- **DeviceForwarding** – composes the two: session readers, injector and stack
  goroutines may be blocked in the device, the pump is its only reader. A send on the
  closed channel ends the process (`panicked`). gVisor is external; its `RemoveNIC` and
  `Close` do not wait for a goroutine that is inside `WriteNotify`.
- **WireGuardTransport** – composes SocksRuntime with start-up, the watchdog, the
  server's defers and clients. Durations are polls; counters are "advanced since the
  last sample". `sweep` is the walk of `ResetTrackedConns`, as in TunnelLifecycle: it
  closes client connections and leaves the clients' goroutines where they are, so a dial
  goes on, untracked, until it ends by itself. The device, the edge and the API are
  external; wireguard-go's `Device.Close` closes the TUN device it was given.
- **ProxyStartup** – one process from the command line to serving, over four files, a
  token file and the registration API's records. It is killed at any step. A file is
  truncated and then written, so a kill leaves it empty and a full disk cut off; a
  file cut off where it still decodes is represented by the empty one. The API
  refuses a request, answers it, or carries it out and the answer is lost. The
  operator puts a token, edits `account_mode`, deletes the config. `config.yml` is
  treated like `config.yaml`, `--http2` like `--l4`. Of the settings the module keeps
  "the operator's own listener settings" and the two transport switches.
- **...Proofs** – theorems: TunnelLifecycleProofs, MasqueConnectProofs, L4ProxyProofs (L4Proxy,
  MaintainTunnel, L3UDPTunnel), SocksAdapterProofs (UDPAssociation and TCPRelay, the two parts
  of `cmd/socks_adapter.go`), SocksDispatchProofs (with CachingResolver), WireGuardProofs,
  ForwardingSupervisorProofs (with NetTun and DeviceForwarding), ProxyStartupProofs: see
  [proofs](#proofs). TCPRelay and L3UDPTunnel call their specifications `RelaySpec` and
  `LegSpec`, so that a proof module can extend them beside another one.
- **MC...** – symmetry sets, command lines and configurations of the instances.

## Runs

All runs finish in under three minutes with two workers. The bounds are the smallest
at which every action happens and every mutant is caught.

| Run | Instance | Shows |
|---|---|---|
| TunnelLazy | 2 clients, lazy, 1 crash | `NoFlowOutlivesItsSession`, `WaitsOnlyWithGateDown`, `StateFileTellsTheGate`, `DemandKeptWhileDown`, refinement of FlowSessions, and that refusals wake the loop and stranded clients are reset |
| MasqueConnect | HTTP/3 and HTTP/2, `always_reconnect` off, limit 3 | no path out of an attempt leaks, the loop gives up only after three failed attempts in a row, cancelling ends it anywhere, refinement of MaintainTunnel |
| L3UDPLeg | 2 flows | a client that keeps sending gets the leg back, cleanup stops it |
| UDPAssociation | 2 associations, 1 destination, 2 sockets, 1 slot | slot accounting, no orphan socket, leaving frees everything |
| SocksDispatch | 2 callers, 2 names, 2 servers, 1 cache entry, 2 versions, 9 configurations | documented egress, a lookup fails only if every server did, no answer goes back |
| L4Proxy | 2 dials, 2 connections | one connection, no leak also across `Close`, only the own connection is torn down, a wedge is detected |
| ForwardingSupervisor | 2 sessions | a healthy session is kept: a late error of an old one never ends it |
| DeviceForwarding | 1 session, queue of 1, 1 stack goroutine | blocked senders are served, a death ends forwarding, shutdown ends every goroutine |
| TCPRelay | bounds 4 and 2, 2 reads | reclaim, no early timeout, prompt end on failure, end on silence |
| WireGuard | 1 client, window 2, backoff up to 2, 1 move | gate and watchdog agree, no open client on a wedged session, no recovery behind the join, a wedge heals if the API answers, stopping the server joins the watchdog if the API's requests return |
| ProxyStartup | 2 devices, 13 command lines | a saved identity is real, a kill leaves the account to the next start, a paid account is not registered over, a WG run spares `key.json` |
| RelayActiveCut | idle bound 4, no half-open bound, 3 reads | a violation: see findings |

Bounds worth a word. Two clients suffice for the races of the accept loop: one that
is between the gate and the dial while another has been swept (three were explored
as well). WireGuard's liveness is checked with one client, its invariants were explored
with two. One crash is enough, since a crash keeps nothing but the state file. A
socket or connection object returns to the pool, so two of them make any number of
generations. Two versions of a record make one old and one new answer. Two sessions
are an old and a new one. A queue of one packet is full after one, and with a batch of
one no sender is served by accident. The configurations of SocksDispatch are those that
take different branches, two of which normalisation refuses. A limit of three lets two
failures be followed by a session. Two devices are an old and a new account, or a MASQUE and a
WireGuard one; the command lines are those whose flags lead to different branches.

Fairness. Goroutines that can run do (weak fairness per goroutine: the Go
scheduler); calls with a deadline return; a read on a closed connection returns.
Nothing is assumed of clients and peers, of how long a handshake takes (no fairness
while `loop = "connecting"`), or of sessions living or dying. Stronger assumptions
are named where made: L4Proxy's `FairSpec` lets clients keep dialling, since only a
dial can notice a wedge; `SenderGetsLegBack` assumes a client that keeps sending;
`SilentRelayEnds` assumes that time passes; WireGuard assumes that samples are readable
again and again (strong fairness, a retry loop can do no better) and that a working path
delivers, but nothing of the API's requests, which have neither a context nor a timeout
(`cmd/wg_transport.go:351`, `api/cloudflare.go:19`). Its two liveness properties name what
they need of them: `WedgeHeals` that the API answers again and again (`APIAnswers`),
`ShutdownJoinsWatchdog` that every request returns with some result (`RequestsReturn`); DeviceForwarding lets a read of the device
return once packets are queued, and lets a channel serve its blocked senders in turn
(strong fairness per sender; Go's channels queue them). In MasqueConnect the calls that
wait for the edge need not return until the context is cancelled: neither
`quic.Dial` nor `connectip.Dial` is given a deadline of its own. ProxyStartup and
SocksDispatch state safety only and assume no fairness.

Deadlock is checked except where the modelled part ends by design (a relay returns,
cleanup, a stopped server, the pause at the limit).

## Proofs

The theorems hold for every value of the constants: any number of clients, dials,
associations, sockets, flows, callers, servers, sessions, stack goroutines, devices or command
lines, any limits, idle bounds and capacities, any sequence of crashes. Each part has an
inductive invariant (`IInv`, `RelayIInv`, `DevInv`, `LegInv`), first checked by TLC on small
instances, and the properties follow from it. Every safety property of a passing run is a
theorem; a few theorems state properties that no run lists (`LoopBetweenCrashes`,
`WaitsForAReason`, `GateOnlyAroundASession`, `TokenKeptWhileDown`, `OneRelayPerDestination`,
`GoneHoldsNothing`, `PanicNeedsSender`).

| Module | Theorems (property of a run) |
|---|---|
| TunnelLifecycleProofs | `TypeCorrect`, `FlowsDieWithTheirSession` (`NoFlowOutlivesItsSession`), `GateDownWhileWaiting` (`WaitsOnlyWithGateDown`), `StateFileIsTruthful` (`StateFileTellsTheGate`), `NoDemandLost` (`DemandKeptWhileDown`), `ImplementsFlowSessions` (`FlowsRefined`), `RunsMaintainTunnel`, `TunnelWaitsForAReason` |
| MasqueConnectProofs | `TypeCorrect`, `AttemptInvariant`, `NothingHeld` (`NothingHeldBetweenAttempts`), `PausesAfterFailures` (`PausesOnlyAfterFailuresInARow`), `RefinesMaintainTunnel` (`AttemptRefined`) |
| L4ProxyProofs | `TypeCorrect`, `OwnershipInvariant`, `NoLeak` (`NoConnectionLeak`), `OneConnection` (`SingleConnection`), `OwnTornDown` (`OnlyOwnConnectionTornDown`); `LoopWaitsForAReason`; `LegRunsMaintainTunnel`, `LegWaitsForAReason`, `LegInvariant`, `LegGate` (the safety half of `CleanupStopsTheLoop`), `LegKeepsDemand` |
| SocksAdapterProofs | `TypeCorrect`, `AssociationInvariant`, `SlotsExact` (`SlotsAreAccountedFor`), `NoOrphans` (`NoOrphanSocket`), `OneRelay`, `GoneIsEmpty` (the safety half of `LeavingFreesEverything`); `RelayTypeCorrect`, `RelayInvariant`, `ReturnReclaims` (`ReturnedMeansReclaimed`), `TimeoutsAreQuiet` (`TimeoutMeansQuiet`) |
| SocksDispatchProofs | `TypeCorrect`, `ResolverInvariant`, `NoStaleAnswer` (`AnswersNeverGoBack`), `AllFailed` (`AllFailedMeansAll`), `RoutingFollowsPolicy` (`EgressFollowsPolicy`) |
| WireGuardProofs | `TypeCorrect`, `WatchdogInvariant`, `GateIsWatchdogs` (`GateFollowsWatchdog`), `OutageHasNoFlow` (`NoFlowDuringOutage`), `GateClosedAfterJoin` (`NoLateRecovery`) |
| ForwardingSupervisorProofs | `TypeCorrect`, `SupervisorInvariant`, `HealthySessionsAreKept` (`HealthySessionIsKept`); `DeviceImplementsSupervisor`, `HealthyOnTheDevice` (`HealthySessionIsKept`), `DevTypeCorrect`, `DeviceInvariant`, `PanicOnlyInShutdown` |
| ProxyStartupProofs | `TypeCorrect`, `StartupInvariant`, `IdentityIsReal` (`SavedIdentityIsReal`), `AccountOnDisk` (`DiskCarriesTheAccount`), `WGLeavesKey` (`WGSparesKey`), `PaidIsLeftAlone` (`PaidAccountIsLeftAlone`) |

**TunnelLifecycle.** `IInv` adds to types what the invariants need but do not say:
`CallbackInv` (which callback step goes with which loop state), `SessionInv` (there is a
session exactly between connect and the end of forwarding), `GateInv` (the gate in each
state of loop and callback) and `FlowInv` (a flow whose session is gone is either
untracked or still to be swept). `NoFlowOutlivesItsSession` alone is not inductive: that
a new session may start relies on the sweep having visited every tracked flow, and that
none joins behind it relies on the gate being down throughout. `RunsMaintainTunnel` says that
the composition adds nothing to the loop but crashes, and `TunnelWaitsForAReason` carries the
loop's own promise through them.

**MasqueConnect.** `StackInv` lists the objects that exist at each `pc`, `SessionInv` ties
`connected` to the session, and `CountInv` says that the loop's counter is the number of
failures since the last session. The last makes the pause a statement about attempts: a
second round inside `ConnectTunnel` is not counted, although it is a second dial. In the
refinement of MaintainTunnel the steps between the start of an attempt and its outcome, a
retried round included, are stutters, and so are the deferred calls but the last.

**L4Proxy.** `SemInv` (dialSem is held exactly from the recheck to the store), `CacheInv`
(nothing is cached while a connection is built, nor after `Close`) and `OwnerInv` (a dial
that stores or resets owns its connection alone). One connection follows because a second
could be built only behind an empty cache, and the semaphore admits one builder.

**MaintainTunnel and L3UDPTunnel.** That the loop waits only for a reason is inductive with its
types: a failed attempt counts up and so never parks, a lost connection resets the counter. The
leg is shown to be that loop first, so it inherits this. `LegInv` says that the gate is up
only from OnConnected's store to OnDisconnected's, and that OnConnected drains with it up;
hence a token a refused dial has left is drained only when the gate it asked for is up.
`LazyAssumption` holds in that module and no proof uses it.

**UDPAssociation.** `OwnerInv` says who refers to a socket: the reader from its dial to the
hand-over, the map entry of the destination it was dialled for, the one `close()` of its
association. The count of slots is proved by following the two finite sets whose sizes it
adds up. That no socket is orphaned needs that the closer takes exactly what the map
holds, and that the reader tests `closed` in the critical section in which it stores.
`LeftInv` (a closed association has an empty map; `close()` has let go of what it passed) and
`ListInv` (what it collected was dialled for different destinations) come on top of it: two open
sockets of a destination would have to be in the map and in the list at once, or twice in one.

**TCPRelay.** Reclaiming needs that each half sends exactly one result and `relayTCP` receives
each once (`ResultInv`), and that the Close calls are in order (`CloseInv`). That no read times
out early is a statement about a deadline armed some instants ago with a bound loaded before
that, while the other goroutine lowers it. `LowerInv` follows `SetIdleTimeout`; `LoadedInv`,
`ArmedInv` and `MarkInv` say how far away a deadline is when it is armed, kept because it is
young enough, or rebound; `QuietInv` is what remains while a half waits: its silence so far and
the distance of its deadline add up to three quarters of the bound in force.

**SocksDispatch.** `LeaderInv` (a name in flight has one caller that queries), `AgeInv` (a
cached address is the newest anybody was told; a query in progress returns no older one),
`RaceInv` (without a result every server is pending or has failed), `ConfigInv`, `FlowInv`
and `ModeInv` (SOCKS-only mode has no cache). `AnswersNeverGoBack` needs `LeaderInv`: two
concurrent queries for a name could store their answers in either order.
`RoutingFollowsPolicy` rests on the lemma `MatchIsBypassed`: walking up the labels one by
one finds a configured domain exactly when one `IsSuffix` of the host. It assumes that no
host has an empty label (`WellFormedNames`): `Match` stops there, so the parents of
`a..b.c` are not found. Such a string is no DNS name; the other theorems do not
need the assumption.

**WireGuardTransport.** The gate is written by two goroutines. `SupInv` says between which
steps of the server the watchdog runs, `GateInv` what the gate is then, and `ClientInv` that
an open client on the session is still to be visited while the reset walks, and that there is
none after it. `NoFlowDuringOutage` alone is not inductive: nobody starts to dial behind the
walk because the gate is down throughout, and nobody else may open it because the server does
so only before the watchdog runs. The property is about open connections. A dial whose
client the reset has closed runs on over the dead session until its timeout, since
`handleConnect` gives it `context.Background()` (`cmd/socks_adapter.go:146`).

**ForwardingSupervisor.** Pump, readers and `handleForwarding` may each be a session behind.
`BlameInv` and `ConnErrorInv` say what each knows of the session it is about to close: its
own error, and an error of the connection only when that connection is down. `FreeInv`
says that a session object that is reused is referred to by none of them.

**DeviceForwarding.** Each step of the composition is one of the supervisor's or leaves its
variables alone, whatever blocks in the device, so what is proved of the supervisor holds on
the device too. `SenderInv` says who may be inside `WriteNotify`, `DetachInv` in which order
shutdown takes the device away, `ReturnedInv` what is left when the loop has returned. That a
send on the closed queue is possible at all is an observation below; the theorem bounds when:
after cancel, with a goroutine already inside, and after `Close` only with one of the stack.

**ProxyStartup.** `ShapeInv` says that a save in progress writes one of seven lists (the two
files of `SaveConfig` or what is left of them, those of the split of a legacy config, the
public config, the WG account, the migrated config). Everything else is a statement about
these: `KeyInv` and `SetInv` say what is on disk meanwhile, `LoadedInv` and `RegisterInv`
what the decision to register was based on, `RealInv` that an identity reaches a list only
after the API has confirmed it. The proof found that two operators, `ResolveAccountMode` and `LoadsTo`, were written with a
`CASE` whose guards overlapped, so that what they meant depended on the order in which
TLC tries them; they now test in the order of `cmd/proxy.go:495`.

Assumptions are the named ones of the modules: the constants' types, `None` and its like
being outside the sets they are added to, `MaxReconnectAttempts <= AttemptCap`,
`RelayAssumption` (a positive idle bound, and a half-open one no longer, to which
`config/config.go` clamps it), `NetTunAssumption` (a batch fits the queue), `DeviceAssumption` (the injector, the readers
and the stack's goroutines are different ones),
`ResolverAssumption` (a failure is no version of a record) and `DispatchAssumption` (a
configuration has the types of `SocksConfig`, and names normalise to sequences of labels).
Sockets and associations are finitely many.

Only model-checked: liveness, since the prover reaches neither fairness nor `ENABLED`. These are
`RefusalLeadsToAttempt`, `StrandedClientsAreReset`, `CancelEndsTheAttempt`,
`CleanupStopsTheLoop`, `SenderGetsLegBack`, `LeavingFreesEverything`, `WedgeIsDetected`,
`DeathEndsForwarding`, `ShutdownEndsOrPanics`, `SendersAreServed`, `HardFailureEndsRelay`,
`SilentRelayEnds`, `WedgeHeals`, `ShutdownJoinsWatchdog`. Of `CleanupStopsTheLoop`,
`LeavingFreesEverything` and `ShutdownJoinsWatchdog` the state they lead to is proved to be
what it should be; that it is reached is TLC's.

## Findings and observations

One run refutes what the repository says about itself:

- **RelayActiveCut** – a direction that is silent for the idle bound ends the whole
  relay, though the other one transfers (a download longer than `l4_idle_timeout`
  whose client has nothing to send). `config/config.go:195` speaks of a
  "both-directions-idle baseline" and says "an actively transferring flow is never
  cut".

Further statements of the docs that the models contradict. Each is stated as a
property at the end of its module and is violated when put into that module's
configuration:

| Property | Module | The code | The statement |
|---|---|---|---|
| `ShorterBoundWins` | TCPRelay (`HalfOpen < Idle`) | Read loads the bound (`models/net.go:44`) before the generation (46); `SetIdleTimeout` between the two leaves the long deadline armed | `models/net.go:55` "the shorter bound always wins" |
| `NoTrackingWhileDown` | TunnelLifecycle | a client passes the gate and is tracked after the sweep; it has not dialled, so no dead flow results | `cmd/socks_runtime.go:177` "New connections cannot be tracked while the tunnel is down" |
| `ResetSparesDirectFlows` | TunnelLifecycle | the reset also closes flows on the direct route | `cmd/socks_runtime.go:178` "only ever closes genuinely-stranded flows" |
| `RebuiltOnFreshDemand` | TunnelLifecycle | a token of a client refused before the session survives `drainDemand` and wakes the loop after it | `api/tunnel.go:166` "NOT rebuilt until there is fresh outbound demand" |
| `RefusedDatagramLeadsToAttempt` | TunnelLifecycle | `DialContext` refuses without signalling demand | `api/tunnel.go:172` "a SOCKS client wanting to dial, or pending outbound traffic" |
| `LostDatagramWakesLeg` | L3UDPTunnel | datagrams to a kept upstream are lost until it times out | `cmd/l3_udp_tunnel.go:154` "drops one datagram and reconnects" |
| `CacheIsBounded` | CachingResolver | failures are stored without the size test | `api/resolver.go:47` "max number of cached entries" |
| `StaleFailureIsIgnored` | L4Proxy | the test of the connection and the stamp of the run are two steps (`api/l4proxy.go:310`) | line 294 "Ignored ... on an already-replaced connection" |
| `TripMeansWedge` | L4Proxy | two isolated unanswered CONNECTs far apart tear down a connection that answers | line 293 "only fires on a *sustained* wedge" |
| `LateCallerSparesConnection` | L4Proxy | a dial whose own time runs out before its stream opens closes the shared connection under every other flow (`api/l4proxy.go:379`) | line 367 "skipped only when the CALLER cancelled" |
| `PumpsUnwindBeforeDevice` | ForwardingSupervisor | cleanup closes the device without waiting | `cmd/l3_udp_tunnel.go:190` "unwinds its pump goroutines before the TUN device disappears" |
| `NoSendOnClosedQueue` | DeviceForwarding | a reader, the injector or a goroutine of the stack is inside `WriteNotify` when cleanup closes the channel: it panics | `cmd/l3_udp_tunnel.go:190`, as above |
| `FileShowsFinalState` | WireGuardTransport | `SetTunnelUp` swaps outside `tunnelStateMu`: two callers can write in the reverse order of their swaps, and the last `SetTunnelUp(false)` finds the gate closed already and writes nothing | `cmd/tunnel_health_state.go:30` "the file always reflects the last transition" |
| `IdleTunnelNeverWedged` | WireGuardTransport (`Keepalive = FALSE`) | an idle spell counts towards the window, so the first packet after it looks like a wedge | `cmd/wg_transport.go:374` "robust against a healthy idle tunnel" |
| `WedgeHeals` | WireGuardTransport (`Keepalive = FALSE`) | the closed gate silences the device, and a silent device is never found wedged again | line 376 "repeatedly re-points ... until receive traffic resumes" |
| `CancelEndsWatchdog` | WireGuardTransport | the request of a re-point (`cmd/wg_transport.go:351`) has neither a context nor a timeout; while it hangs the watchdog does not return, and the server's defers wait for it (167) | line 378 "It returns when ctx is cancelled" |
| `PaidKeyIsNeverReplaced` | ProxyStartup | without the config file `key.json` is not looked at (`cmd/root.go:43`): `-c config.json` after the migration renamed it registers over a paid account | `README.md:157` "to avoid accidental re-registration" |
| `LegacyAccountIsKept` | ProxyStartup | a kill while the migration writes (`config/config.go:740`) leaves an empty `config.yaml`, which hides `config.json` from the next start, and that registers | `docs/config-reference.md:11` "so existing deployments keep working" |
| `SettingsAreKept` | ProxyStartup | `InitNewConfig` (`config/config.go:766`) sets the listener to its defaults, and the first registration saves them | `README.md:80` "To preconfigure the SOCKS listener before first run" |
| `WGNeverWritesKey` | ProxyStartup | the root command loads the config, and may split `key.json` off it, before WG mode is chosen | `cmd/proxy.go:222` "never reads or writes key.json" |

Observations that no sentence of the repository settles:

- `TunClosedOnce` (WireGuardTransport) is violated: `wgDev.Close` (`cmd/wg_transport.go:128`)
  closes the TUN device, and the deferred `tunDev.Close` (121) closes its channels again,
  which panics; so does a failing `StartWireGuardTunnel`, which has closed the device
  itself. This rests on wireguard-go's `Device.Close`, which is outside the repository.
- A bypassed host on a proxied port is tunnelled but resolved locally: the resolver looks
  at the bypass list, the route at the ports (`docs/config-reference.md:86` says only
  that "DNS behavior still follows `remote_dns`").
- UDP to a bypassed domain goes through the tunnel in L3 mode: `selectTCPRoute` lets
  everything but TCP pass (`docs/config-reference.md:79` does not say that
  `bypass_domain` is for TCP; the priority rules below it speak of TCP routing).

## Not modelled

- Bytes: the SOCKS5 handshake, IP packets, MTU, ICMP contents, DNS messages.
- Durations, except as "passed or not" or in ticks; log lines and reported counters.
- TLS: `PrepareTlsConfig` and the pinning of the endpoint's key are checks of
  certificates; a handshake succeeds, fails or hangs.
- `l4TCPConn`, the adaptor from a CONNECT stream to a `net.Conn`, and the peer's limit on
  streams: TCPRelay treats both ends of a flow alike.
- The socket, DNS and ping helpers of `internal/netstack/tun.go`: thin layers over
  gVisor without state of their own; the lookups of a tunnel query that are still
  running when `Resolve` returns, which have no effect any more.
- L4 start-up besides routing: warm-up and statistics.
- TCP to port 0, which `selectTCPRoute` always tunnels, and an empty host.
- `uscf wg update` and `uscf wg generate`, profile and key formatting; the defaults of
  single durations and the normalisation of the logging section.

## Plan

Done: the core (MaintainTunnel, SocksRuntime, TunnelLifecycle, FlowSessions, its
proofs) first, because every transport shares it; then the components with the most
concurrency, one module each; then WireGuard over the shared runtime; then start-up,
where the hard part is the crash between two writes; then the inside of a connection
attempt (MasqueConnect), the device under the supervisor (NetTun, DeviceForwarding),
and resolvers and routing around the cache (SocksDispatch).

Then proofs for every value of the constants: the tunnel's control, a connection attempt
and its refinement, the shared L4 connection, UDP associations, resolvers and routing, the
WireGuard transport, the forwarding supervisor, start-up; then the TCP relay and its deadlines,
the device under the supervisor, the UDP leg, and that the tunnel and the leg both run
MaintainTunnel's loop.

Open:

1. Liveness by proof, once the prover has the temporal rules for it.
2. `RaceInv` of SocksDispatch for lookups that outlive their query, should they ever get an
   effect; the peer's limit on streams in L4Proxy; `uscf wg update`.
3. Runs for the statements in the table above, if the repository changes the code or the
   sentence: each property is in its module already.
