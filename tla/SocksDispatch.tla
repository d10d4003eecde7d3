---------------------------- MODULE SocksDispatch ----------------------------
(***************************************************************************)
(* From a SOCKS request to the network it leaves by.  A caller resolves    *)
(* its host through the CachingResolver, whose inner resolver depends on   *)
(* the configuration and the name (bypassAwareResolver, LocalDNSResolver,  *)
(* TunnelDNSResolver), and then dials by the route policy: through the L3  *)
(* tunnel, a shard of the L4 pool, the L3 leg for UDP of L4 mode, or       *)
(* directly.                                                               *)
(*                                                                         *)
(* TunnelDNSResolver asks all servers at once.  The lookups race with each *)
(* other, with the deadline and with the goroutine that closes the result  *)
(* channel when all are done.  Lookups that are still running when Resolve *)
(* returns have no effect any more and are left out.                       *)
(*                                                                         *)
(* The network and the port of a request matter only for the dial, so they *)
(* are chosen there.  The tunnel's gate is the subject of TunnelLifecycle, *)
(* and of WireGuardTransport; here the gate is up.                         *)
(***************************************************************************)
EXTENDS CachingResolver, Sequences, SequencesExt

CONSTANTS
    Literal,      \* a host that is an IP literal
    Servers,      \* DNS servers
    Canonical,    \* normalizeBypassDomain: string -> labels, <<>> for a rejected one
    Ports,        \* destination ports
    RawConfigs,   \* the socks sections of config files that are considered
    MaxPoolSize,  \* config.MaxL4PoolSize and maxL4PoolShards
    ClientHash    \* the FNV-1a hash of a caller's source address

\* The types of the socks section: l4_pool_size and the ports are not yet
\* checked, and any string may be configured as a domain.
SocksSections ==
    [mode : {"l3", "l4", "socks"}, remoteDNS : BOOLEAN, dns : SUBSET Servers,
     bypassDomain : SUBSET DOMAIN Canonical, proxyTCPPort : SUBSET Int,
     blockUDP443 : BOOLEAN, l4UDP : STRING, l4PoolSize : Int]

ASSUME DispatchAssumption ==
    /\ MaxPoolSize \in Nat \ {0}
    /\ Literal \notin Names
    /\ Names \subseteq DOMAIN Canonical
    /\ \A d \in DOMAIN Canonical : Canonical[d] \in Seq(STRING)
    /\ RawConfigs \subseteq SocksSections
    /\ ClientHash \in [Callers -> Nat]

VARIABLES
    cfg,    \* AppConfig.Socks after NormalizeSocksConfig, and the mode that runs
    race,   \* TunnelDNSResolver.Resolve of each caller that leads a query
    flow    \* observer: the request dialled in the last step and its egress
dispatchVars == <<vars, cfg, race, flow>>

NoRace == [asked |-> FALSE, pending |-> {}, failed |-> {}, result |-> None,
           closed |-> FALSE]
NoFlow == [by |-> None, host |-> None, net |-> None, port |-> 0, egress |-> None, shard |-> 0]

Egresses == {"tunnel", "shard", "leg", "direct", "blocked", "unsupported"}

DispatchTypeOK ==
    /\ TypeOK
    /\ race \in [Callers -> [asked : BOOLEAN, pending : SUBSET Servers, failed : SUBSET Servers,
                             result : Versions \cup {None}, closed : BOOLEAN]]
    /\ flow = NoFlow \/ (flow.by \in Callers /\ flow.egress \in Egresses)

-----------------------------------------------------------------------------
(* NormalizeSocksConfig *)

\* A port out of range and an unknown l4_udp are errors.
Accepted(raw) ==
    /\ raw.proxyTCPPort \subseteq 1..65535
    /\ raw.l4UDP \in {"", "block", "direct", "tunnel"}

\* The clamp of l4_pool_size, which NewL4Pool repeats.
PoolSize(n) == IF n < 1 THEN 1 ELSE IF n > MaxPoolSize THEN MaxPoolSize ELSE n

Normalized(raw) ==
    [raw EXCEPT !.l4UDP = IF @ = "" THEN "block" ELSE @,
                !.l4PoolSize = PoolSize(@)]

DispatchInit ==
    /\ Init
    /\ cfg \in {Normalized(raw) : raw \in {r \in RawConfigs : Accepted(r)}}
    /\ race = [c \in Callers |-> NoRace]
    /\ flow = NoFlow

-----------------------------------------------------------------------------
(* bypassDomainMatcher *)

\* newBypassDomainMatcher: what normalises to nothing is left out.
BypassDomains == {Canonical[d] : d \in cfg.bypassDomain} \ {<<>>}

\* The suffixes that Match visits: it goes on past a label that is not empty.
Visited(labels) ==
    {SubSeq(labels, i, Len(labels)) :
        i \in {k \in 1..Len(labels) : \A j \in 1..(k - 1) : labels[j] # ""}}

Match(host) == host # Literal /\ Visited(Canonical[host]) \cap BypassDomains # {}

-----------------------------------------------------------------------------
(* Resolvers *)

\* prepareSocksRuntime, prepareL4SocksRuntime and bypassAwareResolver: only the
\* L3 data plane has a resolver in the tunnel.
AsksTunnel(name) == cfg.mode = "l3" /\ cfg.remoteDNS /\ ~Match(name)

\* TunnelDNSResolver.Resolve starts a lookup for every server.
AskServers(c) ==
    /\ caller[c].at = "querying" /\ caller[c].answer = None
    /\ AsksTunnel(caller[c].name) /\ cfg.dns # {} /\ ~race[c].asked
    /\ race' = [race EXCEPT ![c].asked = TRUE, ![c].pending = cfg.dns]
    /\ UNCHANGED <<vars, cfg>> /\ flow' = NoFlow

\* Mutant: a result channel without a buffer drops an answer that comes before
\* Resolve receives from it.
BugUnbuffered(c, s) ==
    /\ s \in race[c].pending
    /\ race' = [race EXCEPT ![c].pending = @ \ {s}]
    /\ UNCHANGED <<vars, cfg>> /\ flow' = NoFlow

\* A lookup succeeds: its answer is put in the channel unless one is there.
ServerAnswers(c, s) ==
    /\ s \in race[c].pending
    /\ race' = [race EXCEPT ![c].pending = @ \ {s},
                            ![c].result = IF @ = None THEN zone[caller[c].name] ELSE @]
    /\ UNCHANGED <<vars, cfg>> /\ flow' = NoFlow

ServerFails(c, s) ==
    /\ s \in race[c].pending
    /\ race' = [race EXCEPT ![c].pending = @ \ {s}, ![c].failed = @ \cup {s}]
    /\ UNCHANGED <<vars, cfg>> /\ flow' = NoFlow

\* wg.Wait returns and the channel is closed.
CloseResults(c) ==
    /\ race[c].asked /\ race[c].pending = {} /\ ~race[c].closed
    /\ race' = [race EXCEPT ![c].closed = TRUE]
    /\ UNCHANGED <<vars, cfg>> /\ flow' = NoFlow

RaceEnds(c, a) ==
    /\ caller' = [caller EXCEPT ![c].answer = a]
    /\ race' = [race EXCEPT ![c] = NoRace]
    /\ UNCHANGED <<cache, flight, zone, told, cfg>> /\ flow' = NoFlow

\* The select of Resolve: a value, a closed and empty channel, or the deadline,
\* which may pass at any time and wins or loses against a value that is there.
TakeResult(c) == race[c].result # None /\ RaceEnds(c, race[c].result)
AllServersFailed(c) == race[c].closed /\ race[c].result = None /\ RaceEnds(c, Failed)
LookupTimesOut(c) == race[c].asked /\ RaceEnds(c, Failed)

\* "no DNS servers configured".
NoServers(c) ==
    /\ caller[c].at = "querying" /\ caller[c].answer = None
    /\ AsksTunnel(caller[c].name) /\ cfg.dns = {}
    /\ RaceEnds(c, Failed)

\* LocalDNSResolver: one server, one lookup.
LocalResolves(c) ==
    /\ InnerResolves(c)
    /\ ~AsksTunnel(caller[c].name)
    /\ UNCHANGED <<cfg, race>> /\ flow' = NoFlow

\* systemDNSResolver of SOCKS-only mode has neither cache nor singleflight:
\* a lookup meets no other.
SystemResolves(c, n) ==
    /\ cfg.mode = "socks" /\ caller[c].at = "idle"
    /\ \E a \in {zone[n], Failed} :
         /\ caller' = [caller EXCEPT ![c] = [at |-> "answered", name |-> n,
                                             answer |-> a, floor |-> told[n]]]
         /\ Note(n, a)
    /\ UNCHANGED <<cache, flight, zone, cfg, race>> /\ flow' = NoFlow

-----------------------------------------------------------------------------
(* Route policy and dialers *)

\* Mutant: a bypassed domain is direct whatever its port.
BugBypassFirst(host, port) ==
    ~Match(host) /\ (cfg.proxyTCPPort # {} => port \in cfg.proxyTCPPort)

\* routePolicy.ShouldUseTunTCP.
ShouldUseTunTCP(host, port) ==
    IF cfg.proxyTCPPort # {} THEN port \in cfg.proxyTCPPort ELSE ~Match(host)

SelectTCPRoute(net, host, port) == net = "tcp" => ShouldUseTunTCP(host, port)

UDP443Blocked(net, port) == cfg.blockUDP443 /\ net = "udp" /\ port = 443

\* upstreamDial and dialWithTarget of prepareSocksRuntime.
L3Egress(net, host, port) ==
    IF ~SelectTCPRoute(net, host, port) THEN "direct"
    ELSE IF UDP443Blocked(net, port) THEN "blocked" ELSE "tunnel"

\* classifyL4UDP and dialL4UDP.
ClassifyL4UDP(port) ==
    IF cfg.l4UDP \notin {"direct", "tunnel"} THEN "unsupported"
    ELSE IF UDP443Blocked("udp", port) THEN "blocked"
    ELSE IF cfg.l4UDP = "tunnel" THEN "leg" ELSE "direct"

\* dialWithTarget of prepareL4SocksRuntime.
L4Egress(net, host, port) ==
    IF net = "udp" THEN ClassifyL4UDP(port)
    ELSE IF SelectTCPRoute(net, host, port) THEN "shard" ELSE "direct"

\* shardFor: the shard a client is pinned to.
ShardFor(c) == IF cfg.l4PoolSize = 1 THEN 0 ELSE ClientHash[c] % cfg.l4PoolSize

Egress(net, host, port) ==
    CASE cfg.mode = "l3" -> L3Egress(net, host, port)
      [] cfg.mode = "l4" -> L4Egress(net, host, port)
      [] OTHER -> "direct"

\* resolveDialAddr has an address (a literal needs no lookup) and the request is
\* dialled.
Dial(c, net, port) ==
    \E host \in {caller[c].name, Literal} :
        /\ \/ host = Literal /\ caller[c].at = "idle" /\ UNCHANGED vars
           \/ host # Literal /\ caller[c].answer # Failed /\ Return(c)
        /\ LET e == Egress(net, host, port) IN
           flow' = [by |-> c, host |-> host, net |-> net, port |-> port, egress |-> e,
                    shard |-> IF e = "shard" THEN ShardFor(c) ELSE 0]
        /\ UNCHANGED <<cfg, race>>

\* A failed resolution ends the request.
ResolveFails(c) ==
    /\ caller[c].answer = Failed
    /\ Return(c)
    /\ UNCHANGED <<cfg, race>> /\ flow' = NoFlow

\* The cache is asked.
Lookup(c, n) ==
    /\ cfg.mode # "socks"
    /\ Hit(c, n) \/ Miss(c, n)
    /\ UNCHANGED <<cfg, race>> /\ flow' = NoFlow

Singleflight(c) ==
    /\ EnterFlight(c) \/ Complete(c)
    /\ UNCHANGED <<cfg, race>> /\ flow' = NoFlow

World ==
    /\ \E n \in Names : Expire(n) \/ RecordChanges(n)
    /\ UNCHANGED <<cfg, race>> /\ flow' = NoFlow

LookupEnds(c) ==
    \/ \E s \in Servers : ServerAnswers(c, s) \/ ServerFails(c, s)
    \/ CloseResults(c) \/ TakeResult(c) \/ AllServersFailed(c)

Resolves(c) ==
    AskServers(c) \/ NoServers(c) \/ LocalResolves(c) \/ LookupEnds(c) \/ Singleflight(c)

DispatchNext ==
    \/ \E c \in Callers :
         \/ \E n \in Names : Lookup(c, n) \/ SystemResolves(c, n)
         \/ Resolves(c) \/ LookupTimesOut(c)
         \/ \E net \in {"tcp", "udp"}, port \in Ports : Dial(c, net, port)
         \/ ResolveFails(c)
    \/ World

DispatchSpec == DispatchInit /\ [][DispatchNext]_dispatchVars

-----------------------------------------------------------------------------
(* Properties *)

\* "Exact-or-subdomain list that goes directly through the current network".
Bypassed(host) ==
    host # Literal /\ \E d \in BypassDomains : IsSuffix(d, Canonical[host])

\* The documented routing (docs/config-reference.md, "Split Routing", l4_udp and
\* block_udp_443), whatever the cache said and whoever resolved the name: the
\* port allowlist decides TCP when there is one and the bypass list otherwise;
\* UDP leaves directly only with l4_udp=direct and never to port 443 when that is
\* blocked; L4 TCP uses one of at least one and at most MaxPoolSize shards.
EgressFollowsPolicy ==
    (flow # NoFlow /\ cfg.mode # "socks") =>
        LET f == flow IN
        /\ f.net = "tcp" =>
             (f.egress = "direct" <=> IF cfg.proxyTCPPort = {} THEN Bypassed(f.host)
                                      ELSE f.port \notin cfg.proxyTCPPort)
        /\ f.net = "udp" => (f.egress = "direct" => cfg.mode = "l4" /\ cfg.l4UDP = "direct")
        /\ (f.net = "udp" /\ f.port = 443 /\ cfg.blockUDP443) =>
             f.egress \in {"blocked", "unsupported"}
        /\ f.egress = "shard" => f.shard \in 0..(cfg.l4PoolSize - 1)

\* "It queries all resolvers concurrently and returns the first successful
\* result": Resolve reports that all servers failed only when every one has.
AllFailedMeansAll ==
    \A c \in Callers :
        (race[c].closed /\ race[c].result = None) => race[c].failed = cfg.dns

=============================================================================
