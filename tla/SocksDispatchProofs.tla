------------------------- MODULE SocksDispatchProofs -------------------------
(***************************************************************************)
(* Safety of SocksDispatch and of the CachingResolver inside it, for every *)
(* number of callers, names and servers and every configuration.           *)
(*                                                                         *)
(* The resolver's answers are safe because a name has one query at a time  *)
(* and a cached address is the newest one anybody was given; routing is    *)
(* safe because the suffixes that Match visits are the domain's parents.   *)
(***************************************************************************)
EXTENDS SocksDispatch, FiniteSetTheorems, SequenceTheorems, TLAPS

CallerRecord == [at : Places, name : Names \cup {None},
                 answer : Answers \cup {None}, floor : Versions]

\* SOCKS-only mode has no cache and no query.
ModeInv ==
    cfg.mode = "socks" =>
        DOMAIN cache = {} /\ \A c \in Callers : caller[c].at \in {"idle", "answered"}

\* singleflight: the names in flight are those of the callers that query, each
\* of one caller, and a caller waits only for a name in flight.
LeaderInv ==
    /\ \A c \in Callers : caller[c].at # "idle" => caller[c].name \in Names
    /\ \A c \in Callers : caller[c].at \in {"querying", "waiting"} => caller[c].name \in flight
    /\ \A n \in flight : \E c \in Callers : caller[c].at = "querying" /\ caller[c].name = n
    /\ \A c, d \in Callers :
        (caller[c].at = "querying" /\ caller[d].at = "querying" /\ caller[c].name = caller[d].name)
            => c = d

\* A version that was or may be given for name n now.
Current(n, a) == a \in Versions => told[n] <= a /\ a <= zone[n]

\* A cached address is the newest that was told; the answer of a query in
\* progress is no older; a caller expects no more than what was told.
AgeInv ==
    /\ \A n \in Names : told[n] <= zone[n]
    /\ \A n \in DOMAIN cache : cache[n].answer # Failed => cache[n].answer = told[n]
    /\ \A c \in Callers : caller[c].at # "idle" => caller[c].floor <= told[caller[c].name]
    /\ \A c \in Callers : caller[c].at = "missed" => caller[c].answer = None
    /\ \A c \in Callers : caller[c].at = "querying" => /\ Current(caller[c].name, caller[c].answer)
                                                       /\ Current(caller[c].name, race[c].result)

\* The race of a caller exists while it leads a query through the tunnel.  As
\* long as there is no result, every server is pending or has failed.
OneRace(c) ==
    IF race[c].asked
    THEN /\ caller[c].at = "querying" /\ caller[c].answer = None
         /\ AsksTunnel(caller[c].name)
         /\ race[c].closed => race[c].pending = {}
         /\ race[c].result = None => race[c].pending \cup race[c].failed = cfg.dns
    ELSE race[c] = NoRace

RaceInv == \A c \in Callers : OneRace(c)

\* The configuration that NormalizeSocksConfig lets through.
ConfigInv ==
    /\ cfg.mode \in {"l3", "l4", "socks"} /\ cfg.dns \subseteq Servers
    /\ cfg.l4PoolSize \in 1..MaxPoolSize
    /\ cfg.bypassDomain \subseteq DOMAIN Canonical

\* What the observer saw of the last dial.
FlowInv ==
    flow # NoFlow =>
        /\ flow.by \in Callers /\ flow.net \in {"tcp", "udp"}
        /\ flow.host \in Names \cup {Literal}
        /\ flow.egress = Egress(flow.net, flow.host, flow.port)
        /\ flow.shard = IF flow.egress = "shard" THEN ShardFor(flow.by) ELSE 0

RaceRecord == [asked : BOOLEAN, pending : SUBSET Servers, failed : SUBSET Servers,
               result : Versions \cup {None}, closed : BOOLEAN]
RaceTypeOK == race \in [Callers -> RaceRecord]

IInv == /\ TypeOK /\ RaceTypeOK
        /\ ModeInv /\ LeaderInv /\ AgeInv /\ AnswersNeverGoBack /\ RaceInv
        /\ ConfigInv /\ FlowInv

-----------------------------------------------------------------------------
(* bypassDomainMatcher *)

\* Reverse, elementwise.
LEMMA ReverseProps ==
  ASSUME NEW S, NEW s \in Seq(S)
  PROVE /\ Reverse(s) \in Seq(S)
        /\ Len(Reverse(s)) = Len(s)
        /\ \A i \in 1..Len(s) : Reverse(s)[i] = s[(Len(s) - i) + 1]
<1> DEFINE n == Len(s)
<1>1. n \in Nat /\ \A i \in 1..n : s[(n - i) + 1] \in S
  OBVIOUS
<1> QED BY <1>1, IsASeq DEF Reverse

\* The suffixes of a sequence of labels, as IsSuffix tells them.
LEMMA SuffixIsSubSeq ==
  ASSUME NEW S, NEW s \in Seq(S), NEW t \in Seq(S), s # <<>>
  PROVE  IsSuffix(s, t) <=> \E i \in 1..Len(t) : s = SubSeq(t, i, Len(t))
<1> DEFINE m == Len(s)
           n == Len(t)
           u == Reverse(s)
           v == Reverse(t)
<1>1. m \in Nat \ {0} /\ n \in Nat
  BY EmptySeq
<1>2. /\ u \in Seq(S) /\ v \in Seq(S) /\ Len(u) = m /\ Len(v) = n
      /\ \A i \in 1..m : u[i] = s[(m - i) + 1]
      /\ \A i \in 1..n : v[i] = t[(n - i) + 1]
  BY ReverseProps
<1>3. ASSUME m <= n
      PROVE  SubSeq(u, 1, m) = SubSeq(v, 1, m) <=> \A i \in 1..m : s[i] = t[n - m + i]
  <2> HIDE DEF u, v, m, n
  <2>1. SubSeq(u, 1, m) = SubSeq(v, 1, m) <=> \A i \in 1..m : u[i] = v[i]
    BY <1>1, <1>2, <1>3
  <2>2. ASSUME NEW i \in 1..m PROVE u[m - i + 1] = s[i] /\ v[m - i + 1] = t[n - m + i]
    BY <1>1, <1>2, <1>3
  <2>3. \A i \in 1..m : (m - i + 1) \in 1..m /\ m - (m - i + 1) + 1 = i
    BY <1>1
  <2> QED BY SMTT(40), <1>1, <2>1, <2>2, <2>3
<1>4. ASSUME m <= n
      PROVE  s = SubSeq(t, n - m + 1, n) <=> \A i \in 1..m : s[i] = t[n - m + i]
  <2> DEFINE w == SubSeq(t, n - m + 1, n)
  <2>1. w \in Seq(S) /\ Len(w) = m /\ \A i \in 1..m : w[i] = t[n - m + i]
    BY <1>1, <1>4
  <2> HIDE DEF w
  <2>2. s = w <=> \A i \in 1..m : s[i] = w[i]
    BY <2>1, SeqEqual
  <2> QED BY <2>1, <2>2 DEF w
<1>5. ASSUME NEW i \in 1..n, s = SubSeq(t, i, n) PROVE m <= n /\ i = n - m + 1
  BY <1>1, <1>5
<1>6. IsSuffix(s, t) <=> m <= n /\ SubSeq(u, 1, m) = SubSeq(v, 1, m)
  BY <1>2 DEF IsSuffix, IsPrefix
<1>7. (\E i \in 1..n : s = SubSeq(t, i, n)) <=> m <= n /\ s = SubSeq(t, n - m + 1, n)
  <2>1. m <= n => n - m + 1 \in 1..n
    BY <1>1
  <2> QED BY <1>5, <2>1
<1> QED BY <1>3, <1>4, <1>6, <1>7

\* No host name has an empty label.  Match goes no further than one, so it does
\* not find the parents of "a..b.c", which is no name that DNS knows.
WellFormedNames == \A n \in Names : \A i \in 1..Len(Canonical[n]) : Canonical[n][i] # ""

\* The walk of Match up the labels of a well-formed host decides whether it is a
\* configured domain or a subdomain of one.
LEMMA MatchIsBypassed ==
  ASSUME ConfigInv, WellFormedNames, NEW host \in Names \cup {Literal}
  PROVE  Match(host) <=> Bypassed(host)
<1>1. CASE host = Literal
  BY <1>1 DEF Match, Bypassed
<1>2. CASE host # Literal
  <2> DEFINE labels == Canonical[host]
  <2>1. labels \in Seq(STRING) /\ host \in Names /\ Len(labels) \in Nat
    BY <1>2, DispatchAssumption
  <2>2. \A d \in BypassDomains : d \in Seq(STRING) /\ d # <<>>
    BY DispatchAssumption DEF ConfigInv, BypassDomains
  <2>3. Visited(labels) = {SubSeq(labels, i, Len(labels)) : i \in 1..Len(labels)}
    <3>1. \A j \in 1..Len(labels) : labels[j] # ""
      BY <2>1 DEF WellFormedNames
    <3> HIDE DEF labels
    <3>2. ASSUME NEW k \in 1..Len(labels), NEW j \in 1..(k - 1) PROVE labels[j] # ""
      <4>1. j \in 1..Len(labels)
        BY <2>1
      <4> QED BY <3>1, <4>1
    <3> QED BY <3>2 DEF Visited
  <2> HIDE DEF labels
  <2>4. \A d \in BypassDomains : d \in Visited(labels) <=> IsSuffix(d, labels)
    BY <2>1, <2>2, <2>3, SuffixIsSubSeq
  <2> QED BY <1>2, <2>4 DEF Match, Bypassed, labels
<1> QED BY <1>1, <1>2

\* routePolicy and the dialers send each request where the documentation says.
LEMMA FlowFollowsPolicy ==
  ASSUME ConfigInv, FlowInv, WellFormedNames
  PROVE  EgressFollowsPolicy
<1> SUFFICES ASSUME flow # NoFlow, cfg.mode # "socks"
             PROVE  /\ flow.net = "tcp" =>
                         (flow.egress = "direct" <=>
                            IF cfg.proxyTCPPort = {} THEN Bypassed(flow.host)
                            ELSE flow.port \notin cfg.proxyTCPPort)
                    /\ flow.net = "udp" =>
                         (flow.egress = "direct" => cfg.mode = "l4" /\ cfg.l4UDP = "direct")
                    /\ (flow.net = "udp" /\ flow.port = 443 /\ cfg.blockUDP443) =>
                         flow.egress \in {"blocked", "unsupported"}
                    /\ flow.egress = "shard" => flow.shard \in 0..(cfg.l4PoolSize - 1)
  BY DEF EgressFollowsPolicy
<1>1. /\ flow.by \in Callers /\ flow.net \in {"tcp", "udp"}
      /\ flow.host \in Names \cup {Literal}
      /\ flow.egress = Egress(flow.net, flow.host, flow.port)
      /\ flow.egress = "shard" => flow.shard = ShardFor(flow.by)
  BY DEF FlowInv
<1>2. Match(flow.host) <=> Bypassed(flow.host)
  BY <1>1, MatchIsBypassed
<1>4. /\ cfg.mode = "l3" => flow.egress = L3Egress(flow.net, flow.host, flow.port)
      /\ cfg.mode = "l4" => flow.egress = L4Egress(flow.net, flow.host, flow.port)
      /\ cfg.mode \in {"l3", "l4"}
  BY <1>1 DEF Egress, ConfigInv
<1>5. flow.net = "tcp" =>
        (flow.egress = "direct" <=> IF cfg.proxyTCPPort = {} THEN Bypassed(flow.host)
                                    ELSE flow.port \notin cfg.proxyTCPPort)
  BY <1>2, <1>4 DEF L3Egress, L4Egress, SelectTCPRoute, ShouldUseTunTCP, UDP443Blocked
<1>6. flow.net = "udp" => (flow.egress = "direct" => cfg.mode = "l4" /\ cfg.l4UDP = "direct")
  BY <1>4 DEF L3Egress, L4Egress, SelectTCPRoute, UDP443Blocked, ClassifyL4UDP
<1>7. (flow.net = "udp" /\ flow.port = 443 /\ cfg.blockUDP443) =>
        flow.egress \in {"blocked", "unsupported"}
  BY <1>4 DEF L3Egress, L4Egress, SelectTCPRoute, UDP443Blocked, ClassifyL4UDP
<1>8. flow.egress = "shard" => flow.shard \in 0..(cfg.l4PoolSize - 1)
  <2>1. ClientHash[flow.by] \in Nat /\ cfg.l4PoolSize \in Nat \ {0}
    BY <1>1, DispatchAssumption DEF ConfigInv
  <2>2. ClientHash[flow.by] % cfg.l4PoolSize \in 0..(cfg.l4PoolSize - 1)
    BY <2>1
  <2> QED BY <1>1, <2>1, <2>2 DEF ShardFor
<1> QED BY <1>5, <1>6, <1>7, <1>8

-----------------------------------------------------------------------------
(* The steps of a caller *)

CallersOK == caller \in [Callers -> CallerRecord]
CacheOK   == DOMAIN cache \subseteq Names /\ \A n \in DOMAIN cache : cache[n] \in Entries
ZoneOK    == zone \in [Names -> Versions] /\ told \in [Names -> Versions]

\* The type invariant of the cache in parts, so that a step need expand only what it changes.
LEMMA TypeSplits ==
  /\ TypeOK <=> CallersOK /\ CacheOK /\ ZoneOK /\ flight \subseteq Names
  /\ TypeOK' <=> CallersOK' /\ CacheOK' /\ ZoneOK' /\ flight' \subseteq Names
  BY DEF TypeOK, CallersOK, CallerRecord, CacheOK, ZoneOK

\* Eviction only removes entries.
LEMMA EvictedShrinks ==
  ASSUME NEW base \in Evicted
  PROVE  /\ DOMAIN base \subseteq DOMAIN cache
         /\ \A n \in DOMAIN base : base[n] = cache[n]
<1>1. PICK g : base = Restrict(cache, DOMAIN cache \ g)
  BY DEF Evicted
<1> QED BY <1>1 DEF Restrict

\* What a step of the singleflight function writes, whatever was evicted.
LEMMA PutEffect ==
  ASSUME NEW base, NEW n, NEW a, cache' = Put(base, n, a)
  PROVE  /\ DOMAIN cache' = DOMAIN base \cup {n}
         /\ cache'[n] = [answer |-> a, fresh |-> TRUE]
         /\ \A m \in DOMAIN base \ {n} : cache'[m] = base[m]
  BY DEF Put

\* The observer takes the newer of two versions.
LEMMA NoteEffect ==
  ASSUME ZoneOK, NEW n \in Names, NEW a, Note(n, a)
  PROVE  /\ told' \in [Names -> Versions]
         /\ \A m \in Names : told[m] <= told'[m]
         /\ \A m \in Names \ {n} : told'[m] = told[m]
         /\ a \in Versions /\ told[n] <= a => told'[n] = a
         /\ a \notin Versions => told' = told
         /\ a \in Versions /\ a <= told[n] => told' = told
  BY ResolverAssumption DEF ZoneOK, Note, Versions

-----------------------------------------------------------------------------
(* Types *)

\* A step of a caller, a server or the clock keeps the types of the cache.
LEMMA TypeStep ==
  TypeOK /\ RaceTypeOK /\ LeaderInv /\ RaceInv /\ [DispatchNext]_dispatchVars => TypeOK'
<1> SUFFICES ASSUME CallersOK, CacheOK, ZoneOK, flight \subseteq Names, RaceTypeOK,
                    LeaderInv, RaceInv, [DispatchNext]_dispatchVars
             PROVE  CallersOK' /\ CacheOK' /\ ZoneOK' /\ flight' \subseteq Names
  BY TypeSplits
<1>0. \A c \in Callers : caller[c] \in CallerRecord
  BY DEF CallersOK
<1>00. 0 \in Versions /\ None \notin Versions
  BY ResolverAssumption DEF Versions, Answers
<1>1. ASSUME NEW c \in Callers, NEW n \in Names, Lookup(c, n)
      PROVE  CallersOK' /\ CacheOK' /\ ZoneOK' /\ flight' \subseteq Names
  <2>1. UNCHANGED <<cache, flight, zone>>
    BY <1>1 DEF Lookup, Hit, Miss
  <2>2. ZoneOK'
    BY <1>1, <2>1, NoteEffect DEF Lookup, Hit, Miss, ZoneOK
  <2>3. CallersOK'
    BY <1>1 DEF Lookup, Hit, Miss, CallersOK, CallerRecord, CacheOK, ZoneOK, Entries, Places
  <2> QED BY <2>1, <2>2, <2>3 DEF CacheOK
<1>2. ASSUME NEW c \in Callers, NEW n \in Names, SystemResolves(c, n)
      PROVE  CallersOK' /\ CacheOK' /\ ZoneOK' /\ flight' \subseteq Names
  <2>1. UNCHANGED <<cache, flight, zone>>
    BY <1>2 DEF SystemResolves
  <2>2. ZoneOK'
    BY <1>2, <2>1, NoteEffect DEF SystemResolves, ZoneOK
  <2>3. CallersOK'
    BY <1>2 DEF SystemResolves, CallersOK, CallerRecord, ZoneOK, Answers, Places
  <2> QED BY <2>1, <2>2, <2>3 DEF CacheOK
<1>3. ASSUME NEW c \in Callers,
             \/ AskServers(c) \/ CloseResults(c)
             \/ \E s \in Servers : ServerAnswers(c, s) \/ ServerFails(c, s)
      PROVE  CallersOK' /\ CacheOK' /\ ZoneOK' /\ flight' \subseteq Names
  <2>1. UNCHANGED <<cache, flight, caller, zone, told>>
    BY <1>3 DEF AskServers, CloseResults, ServerAnswers, ServerFails, vars
  <2> QED BY <2>1 DEF CallersOK, CacheOK, ZoneOK
<1>4. ASSUME NEW c \in Callers,
             \/ NoServers(c) \/ LocalResolves(c) \/ TakeResult(c) \/ AllServersFailed(c)
             \/ LookupTimesOut(c)
      PROVE  CallersOK' /\ CacheOK' /\ ZoneOK' /\ flight' \subseteq Names
  <2>1. UNCHANGED <<cache, flight, zone, told>>
    BY <1>4 DEF NoServers, LocalResolves, TakeResult, AllServersFailed, LookupTimesOut,
                RaceEnds, InnerResolves
  <2>2. PICK a \in Answers : caller' = [caller EXCEPT ![c].answer = a]
    <3>1. CASE LocalResolves(c)
      BY <3>1 DEF LocalResolves, InnerResolves, LeaderInv, ZoneOK, Answers
    <3>2. CASE TakeResult(c)
      BY <3>2 DEF TakeResult, RaceEnds, RaceTypeOK, RaceRecord, Answers
    <3>3. CASE NoServers(c) \/ AllServersFailed(c) \/ LookupTimesOut(c)
      BY <3>3 DEF NoServers, AllServersFailed, LookupTimesOut, RaceEnds, Answers
    <3> QED BY <1>4, <3>1, <3>2, <3>3
  <2>3. CallersOK'
    BY <2>2 DEF CallersOK, CallerRecord
  <2> QED BY <2>1, <2>3 DEF CacheOK, ZoneOK
<1>5. ASSUME NEW c \in Callers, EnterFlight(c)
      PROVE  CallersOK' /\ CacheOK' /\ ZoneOK' /\ flight' \subseteq Names
  <2>1. caller[c].name \in Names
    BY <1>5 DEF EnterFlight, LeaderInv
  <2>2. CallersOK'
    BY <1>5 DEF EnterFlight, CallersOK, CallerRecord, Places
  <2> QED BY <1>5, <2>1, <2>2 DEF EnterFlight, CacheOK, ZoneOK
<1>6. ASSUME NEW c \in Callers, Complete(c)
      PROVE  CallersOK' /\ CacheOK' /\ ZoneOK' /\ flight' \subseteq Names
  <2> DEFINE n == caller[c].name
             a == caller[c].answer
  <2>1. n \in Names /\ a \in Answers
    BY <1>0, <1>6 DEF Complete, LeaderInv, CallerRecord
  <2>2. CallersOK'
    BY <1>6, <2>1 DEF Complete, Deliver, CallersOK, CallerRecord, Places
  <2>3. ZoneOK'
    BY <1>6, <2>1, NoteEffect DEF Complete, ZoneOK
  <2>4. CacheOK'
    <3>1. PICK base : /\ cache' = Put(base, n, a)
                      /\ DOMAIN base \subseteq DOMAIN cache
                      /\ \A m \in DOMAIN base : base[m] = cache[m]
      BY <1>6, EvictedShrinks DEF Complete
    <3>2. [answer |-> a, fresh |-> TRUE] \in Entries
      BY <2>1 DEF Entries
    <3> HIDE DEF n, a
    <3>3. /\ DOMAIN cache' = DOMAIN base \cup {n}
          /\ cache'[n] = [answer |-> a, fresh |-> TRUE]
          /\ \A m \in DOMAIN base \ {n} : cache'[m] = base[m]
      BY <3>1, PutEffect
    <3> QED BY <2>1, <3>1, <3>2, <3>3 DEF CacheOK
  <2> QED BY <1>6, <2>2, <2>3, <2>4 DEF Complete
<1>7. ASSUME NEW c \in Callers, Return(c)
      PROVE  CallersOK' /\ CacheOK' /\ ZoneOK' /\ flight' \subseteq Names
  <2>1. CallersOK'
    BY <1>00, <1>7 DEF Return, CallersOK, CallerRecord, Places
  <2> QED BY <1>7, <2>1 DEF Return, CacheOK, ZoneOK
<1>8. ASSUME NEW n \in Names, Expire(n)
      PROVE  CallersOK' /\ CacheOK' /\ ZoneOK' /\ flight' \subseteq Names
  <2>1. CacheOK'
    BY <1>8 DEF Expire, CacheOK, Entries
  <2> QED BY <1>8, <2>1 DEF Expire, CallersOK, ZoneOK
<1>9. ASSUME NEW n \in Names, RecordChanges(n)
      PROVE  CallersOK' /\ CacheOK' /\ ZoneOK' /\ flight' \subseteq Names
  <2>1. ZoneOK'
    BY <1>9, ResolverAssumption DEF RecordChanges, ZoneOK, Versions
  <2> QED BY <1>9, <2>1 DEF RecordChanges, CallersOK, CacheOK
<1>10. CASE UNCHANGED vars
  BY <1>10 DEF vars, CallersOK, CacheOK, ZoneOK
<1> QED
  BY <1>1, <1>2, <1>3, <1>4, <1>5, <1>6, <1>7, <1>8, <1>9, <1>10
  DEF DispatchNext, Resolves, LookupEnds, Singleflight, World, Dial, ResolveFails, dispatchVars

\* Such a step keeps the types of the races and of the dials.
LEMMA RaceTypeStep ==
  TypeOK /\ RaceTypeOK /\ LeaderInv /\ RaceInv /\ ConfigInv /\ [DispatchNext]_dispatchVars
     => RaceTypeOK'
<1> SUFFICES ASSUME TypeOK, RaceTypeOK, LeaderInv, RaceInv, ConfigInv,
                    [DispatchNext]_dispatchVars
             PROVE  RaceTypeOK'
  OBVIOUS
<1>0. NoRace \in RaceRecord
  BY DEF NoRace, RaceRecord
<1>1. ASSUME NEW c \in Callers, AskServers(c) PROVE RaceTypeOK'
  BY ZenonT(60), <1>1 DEF AskServers, RaceTypeOK, RaceRecord, ConfigInv
<1>2. ASSUME NEW c \in Callers, CloseResults(c) PROVE RaceTypeOK'
  BY <1>2 DEF CloseResults, RaceTypeOK, RaceRecord
<1>3. ASSUME NEW c \in Callers, NEW s \in Servers, ServerFails(c, s) PROVE RaceTypeOK'
  BY <1>3 DEF ServerFails, RaceTypeOK, RaceRecord
<1>4. ASSUME NEW c \in Callers, NEW s \in Servers, ServerAnswers(c, s) PROVE RaceTypeOK'
  <2>1. zone[caller[c].name] \in Versions
    <3>1. race[c].asked
      BY <1>4 DEF ServerAnswers, RaceInv, OneRace, NoRace
    <3> QED BY <3>1 DEF RaceInv, OneRace, LeaderInv, TypeOK
  <2> DEFINE v == IF race[c].result = None THEN zone[caller[c].name] ELSE race[c].result
  <2>2. v \in Versions \cup {None}
    BY <2>1 DEF RaceTypeOK, RaceRecord
  <2>3. race' = [race EXCEPT ![c].pending = @ \ {s}, ![c].result = v]
    BY <1>4 DEF ServerAnswers
  <2> HIDE DEF v
  <2> QED BY <2>2, <2>3 DEF RaceTypeOK, RaceRecord
<1>5. ASSUME NEW c \in Callers, NEW a, RaceEnds(c, a) PROVE RaceTypeOK'
  BY <1>0, <1>5 DEF RaceEnds, RaceTypeOK
<1>6. CASE UNCHANGED race
  BY <1>6 DEF RaceTypeOK
<1> QED
  BY <1>1, <1>2, <1>3, <1>4, <1>5, <1>6
  DEF DispatchNext, Lookup, SystemResolves, Resolves, LookupEnds, NoServers, LocalResolves,
      TakeResult, AllServersFailed, LookupTimesOut, Singleflight, Dial, ResolveFails, World,
      dispatchVars

-----------------------------------------------------------------------------
(* The invariants *)

\* singleflight keeps one leader for each name in flight.
LEMMA LeaderStep ==
  TypeOK /\ LeaderInv /\ RaceInv /\ [DispatchNext]_dispatchVars => LeaderInv'
<1> SUFFICES ASSUME TypeOK, LeaderInv, RaceInv, [DispatchNext]_dispatchVars PROVE LeaderInv'
  OBVIOUS
<1>0. CallersOK
  BY TypeSplits
<1>1. ASSUME NEW c \in Callers, NEW n \in Names, Lookup(c, n) \/ SystemResolves(c, n)
      PROVE  LeaderInv'
  <2>1. /\ UNCHANGED flight
        /\ caller[c].at = "idle" /\ caller'[c].at \in {"answered", "missed"}
        /\ caller'[c].name = n
        /\ \A d \in Callers \ {c} : caller'[d] = caller[d]
    BY <1>0, <1>1 DEF Lookup, SystemResolves, Hit, Miss, CallersOK
  <2> QED BY <2>1 DEF LeaderInv
<1>2. ASSUME NEW c \in Callers, NEW a, caller' = [caller EXCEPT ![c].answer = a], UNCHANGED flight
      PROVE  LeaderInv'
  <2>1. \A d \in Callers : caller'[d].at = caller[d].at /\ caller'[d].name = caller[d].name
    BY <1>0, <1>2 DEF CallersOK, CallerRecord
  <2> QED BY <1>2, <2>1 DEF LeaderInv
<1>3. ASSUME NEW c \in Callers, EnterFlight(c) PROVE LeaderInv'
  <2> DEFINE n == caller[c].name
  <2>1. /\ flight' = flight \cup {n} /\ n \in Names /\ caller[c].at = "missed"
        /\ caller'[c].name = n
        /\ caller'[c].at = IF n \in flight THEN "waiting" ELSE "querying"
        /\ \A d \in Callers \ {c} : caller'[d] = caller[d]
    BY <1>0, <1>3 DEF EnterFlight, CallersOK, CallerRecord, LeaderInv
  <2> HIDE DEF n
  <2> QED BY <2>1 DEF LeaderInv
<1>4. ASSUME NEW c \in Callers, Complete(c) PROVE LeaderInv'
  <2> DEFINE n == caller[c].name
  <2>1. /\ flight' = flight \ {n} /\ caller[c].at = "querying"
        /\ \A d \in Callers : caller'[d].name = caller[d].name
        /\ \A d \in Callers :
             IF d = c \/ (caller[d].at = "waiting" /\ caller[d].name = n)
             THEN caller'[d].at = "answered"
             ELSE caller'[d].at = caller[d].at
    BY <1>0, <1>4 DEF Complete, Deliver, CallersOK, CallerRecord
  <2>2. caller[c].name = n
    OBVIOUS
  <2> HIDE DEF n
  <2> QED BY <2>1, <2>2 DEF LeaderInv
<1>5. ASSUME NEW c \in Callers, Return(c) PROVE LeaderInv'
  <2>1. /\ UNCHANGED flight
        /\ caller[c].at = "answered" /\ caller'[c].at = "idle"
        /\ \A d \in Callers \ {c} : caller'[d] = caller[d]
    BY <1>0, <1>5 DEF Return, CallersOK
  <2> QED BY <2>1 DEF LeaderInv
<1>6. CASE UNCHANGED <<caller, flight>>
  BY <1>6 DEF LeaderInv
<1> QED
  BY ZenonT(60), <1>1, <1>2, <1>3, <1>4, <1>5, <1>6
  DEF DispatchNext, Resolves, LookupEnds, AskServers, ServerAnswers, ServerFails, CloseResults,
      TakeResult, AllServersFailed, LookupTimesOut, NoServers, LocalResolves, InnerResolves,
      RaceEnds, Singleflight, World, Expire, RecordChanges, Dial, ResolveFails, vars, dispatchVars

\* In SOCKS-only mode nothing is cached and nobody queries.
LEMMA ModeStep ==
  TypeOK /\ ModeInv /\ RaceInv /\ [DispatchNext]_dispatchVars => ModeInv'
<1> SUFFICES ASSUME TypeOK, ModeInv, RaceInv, [DispatchNext]_dispatchVars, cfg'.mode = "socks"
             PROVE  DOMAIN cache' = {} /\ \A c \in Callers : caller'[c].at \in {"idle", "answered"}
  BY DEF ModeInv
<1>0. CallersOK
  BY TypeSplits
<1>1. UNCHANGED cfg
  BY ZenonT(60) DEF DispatchNext, Lookup, SystemResolves, Resolves, AskServers, NoServers, LocalResolves,
         LookupEnds, ServerAnswers, ServerFails, CloseResults, TakeResult, AllServersFailed,
         LookupTimesOut, RaceEnds, Singleflight, Dial, ResolveFails, World, dispatchVars
<1>2. /\ cfg.mode = "socks" /\ DOMAIN cache = {}
      /\ \A c \in Callers : caller[c].at \in {"idle", "answered"}
      /\ \A c \in Callers : ~race[c].asked /\ race[c] = NoRace
  BY <1>1 DEF ModeInv, RaceInv, OneRace
<1>quiet. \A c \in Callers : race[c].pending = {} /\ race[c].result = None /\ ~race[c].closed
  BY <1>2 DEF NoRace
<1>3. ASSUME NEW c \in Callers, Resolves(c) \/ LookupTimesOut(c) PROVE FALSE
  <2>1. caller[c].at \in {"idle", "answered"} /\ ~race[c].asked
    BY <1>2
  <2>2. race[c].pending = {} /\ race[c].result = None /\ ~race[c].closed
    BY <1>quiet
  <2> QED
    BY <1>3, <2>1, <2>2
    DEF Resolves, AskServers, NoServers, LocalResolves, InnerResolves, LookupEnds,
        ServerAnswers, ServerFails, CloseResults, TakeResult, AllServersFailed, Singleflight,
        EnterFlight, Complete, LookupTimesOut
<1>4. ASSUME NEW c \in Callers, NEW n \in Names, Lookup(c, n) PROVE FALSE
  BY <1>2, <1>4 DEF Lookup
<1>5. ASSUME NEW c \in Callers, NEW n \in Names, SystemResolves(c, n)
      PROVE  UNCHANGED cache /\ \A d \in Callers : caller'[d].at \in {"idle", "answered"}
  BY <1>0, <1>2, <1>5 DEF SystemResolves, CallersOK
<1>6. ASSUME NEW c \in Callers, Return(c)
      PROVE  UNCHANGED cache /\ \A d \in Callers : caller'[d].at \in {"idle", "answered"}
  BY <1>0, <1>2, <1>6 DEF Return, CallersOK
<1>7. CASE World
  BY <1>2, <1>7 DEF World, Expire, RecordChanges
<1>8. CASE UNCHANGED vars
  BY <1>2, <1>8 DEF vars
<1> QED
  BY <1>2, <1>3, <1>4, <1>5, <1>6, <1>7, <1>8 DEF DispatchNext, Dial, ResolveFails, dispatchVars

\* The configuration never changes.
LEMMA ConfigUnchanged ==
  [DispatchNext]_dispatchVars => UNCHANGED cfg
  BY ZenonT(60) DEF DispatchNext, Lookup, SystemResolves, Resolves, AskServers, NoServers, LocalResolves,
         LookupEnds, ServerAnswers, ServerFails, CloseResults, TakeResult, AllServersFailed,
         LookupTimesOut, RaceEnds, Singleflight, Dial, ResolveFails, World, dispatchVars

\* A caller that leads no race may move freely.
LEMMA WithoutRace ==
  ASSUME NEW d \in Callers, race'[d] = NoRace
  PROVE  OneRace(d)'
  BY DEF OneRace, NoRace

\* A caller that keeps its place, its name and its answer keeps its race.
LEMMA RaceKept ==
  ASSUME NEW d \in Callers, UNCHANGED cfg, OneRace(d), race'[d] = race[d],
         caller'[d] = caller[d]
  PROVE  OneRace(d)'
  BY DEF OneRace, AsksTunnel, Match, BypassDomains

\* A race belongs to a caller that queries; every other caller has none.
LEMMA RaceStep ==
  TypeOK /\ RaceTypeOK /\ LeaderInv /\ RaceInv /\ [DispatchNext]_dispatchVars => RaceInv'
<1> SUFFICES ASSUME TypeOK, RaceTypeOK, LeaderInv, RaceInv, [DispatchNext]_dispatchVars,
                    NEW d \in Callers
             PROVE  OneRace(d)'
  BY DEF RaceInv, OneRace
<1>0. CallersOK /\ UNCHANGED cfg /\ OneRace(d)
  BY TypeSplits, ConfigUnchanged DEF RaceInv, OneRace
<1>1. ASSUME NEW c \in Callers, UNCHANGED race, caller[c].at # "querying" \/ caller[c].answer # None,
             \A x \in Callers \ {c} : caller'[x] = caller[x]
      PROVE  OneRace(d)'
  <2>1. CASE d = c
    <3>1. race[d] = NoRace
      BY <1>0, <1>1, <2>1 DEF OneRace
    <3> QED BY <1>1, <3>1, WithoutRace
  <2>2. CASE d # c
    BY <1>0, <1>1, <2>2, RaceKept
  <2> QED BY <2>1, <2>2
<1>2. ASSUME NEW c \in Callers, NEW n \in Names, Lookup(c, n) \/ SystemResolves(c, n)
      PROVE  OneRace(d)'
  <2>1. /\ UNCHANGED race /\ caller[c].at # "querying"
        /\ \A x \in Callers \ {c} : caller'[x] = caller[x]
    BY <1>0, <1>2 DEF Lookup, SystemResolves, Hit, Miss, CallersOK
  <2> QED BY <1>1, <2>1
<1>3. ASSUME NEW c \in Callers, Return(c), UNCHANGED race PROVE OneRace(d)'
  <2>1. /\ caller[c].at # "querying"
        /\ \A x \in Callers \ {c} : caller'[x] = caller[x]
    BY <1>0, <1>3 DEF Return, CallersOK
  <2> QED BY <1>1, <1>3, <2>1
<1>4. ASSUME NEW c \in Callers, EnterFlight(c), UNCHANGED race PROVE OneRace(d)'
  <2>1. /\ caller[c].at # "querying"
        /\ \A x \in Callers \ {c} : caller'[x] = caller[x]
    BY <1>0, <1>4 DEF EnterFlight, CallersOK
  <2> QED BY <1>1, <1>4, <2>1
<1>5. ASSUME NEW c \in Callers, Complete(c), UNCHANGED race PROVE OneRace(d)'
  <2>1. caller[c].answer # None
    BY <1>5 DEF Complete
  <2>2. CASE d = c \/ caller[d].at = "waiting"
    <3>1. race[d] = NoRace
      BY <1>0, <2>1, <2>2 DEF OneRace
    <3> QED BY <1>5, <3>1, WithoutRace
  <2>3. CASE d # c /\ caller[d].at # "waiting"
    <3>1. caller'[d] = caller[d]
      BY <1>0, <1>5, <2>3 DEF Complete, Deliver
    <3> QED BY <1>0, <1>5, <3>1, RaceKept
  <2> QED BY <2>2, <2>3
<1>6. ASSUME NEW c \in Callers, NEW a, RaceEnds(c, a) PROVE OneRace(d)'
  <2>1. /\ race'[c] = NoRace
        /\ \A x \in Callers \ {c} : race'[x] = race[x] /\ caller'[x] = caller[x]
    BY <1>0, <1>6 DEF RaceEnds, CallersOK, RaceTypeOK
  <2> QED BY <1>0, <2>1, WithoutRace, RaceKept
<1>7. ASSUME NEW c \in Callers, LocalResolves(c) PROVE OneRace(d)'
  <2>1. UNCHANGED race /\ \A x \in Callers \ {c} : caller'[x] = caller[x]
    BY <1>0, <1>7 DEF LocalResolves, InnerResolves, CallersOK
  <2>2. CASE d = c
    <3>1. race[d] = NoRace
      BY <1>0, <1>7, <2>2 DEF OneRace, LocalResolves
    <3> QED BY <2>1, <3>1, WithoutRace
  <2> QED BY <1>0, <2>1, <2>2, RaceKept
<1>8. ASSUME NEW c \in Callers,
             \/ AskServers(c) \/ CloseResults(c)
             \/ \E s \in Servers : ServerAnswers(c, s) \/ ServerFails(c, s)
      PROVE  OneRace(d)'
  <2>1. UNCHANGED caller /\ \A x \in Callers \ {c} : race'[x] = race[x]
    BY <1>8 DEF AskServers, CloseResults, ServerAnswers, ServerFails, RaceTypeOK, vars
  <2>2. CASE d # c
    BY <1>0, <2>1, <2>2, RaceKept
  <2>3. CASE d = c
    <3> DEFINE r == race[c]
               q == race'[c]
    <3>1. r \in RaceRecord
      BY DEF RaceTypeOK
    <3>2. CASE AskServers(c)
      <4>1. /\ q.asked /\ q.pending = cfg.dns /\ q.failed = r.failed /\ q.closed = r.closed
            /\ caller[c].at = "querying" /\ caller[c].answer = None
            /\ AsksTunnel(caller[c].name) /\ ~r.asked
        BY <3>1, <3>2 DEF AskServers, RaceTypeOK, RaceRecord
      <4>2. r.failed = {} /\ ~r.closed
        BY <1>0, <2>3, <4>1 DEF OneRace, NoRace
      <4> QED BY <1>0, <2>1, <2>3, <4>1, <4>2 DEF OneRace, AsksTunnel, Match, BypassDomains
    <3>3. CASE CloseResults(c)
      <4>1. /\ q.asked /\ q.pending = {} /\ r.pending = {} /\ q.failed = r.failed /\ r.asked
            /\ q.result = r.result
        BY <3>1, <3>3 DEF CloseResults, RaceTypeOK, RaceRecord
      <4> QED BY <1>0, <2>1, <2>3, <4>1 DEF OneRace, AsksTunnel, Match, BypassDomains
    <3>4. ASSUME NEW s \in Servers, ServerAnswers(c, s) PROVE OneRace(d)'
      <4>1. s \in r.pending /\ r.asked
        BY <1>0, <2>3, <3>4 DEF ServerAnswers, OneRace, NoRace
      <4>2. zone[caller[c].name] # None
        <5>1. zone[caller[c].name] \in Versions
          BY <1>0, <2>3, <4>1 DEF OneRace, LeaderInv, TypeOK
        <5> QED BY <5>1, ResolverAssumption DEF Answers
      <4>3. q.asked = r.asked /\ q.closed = r.closed /\ q.result # None
        BY <3>1, <3>4, <4>2 DEF ServerAnswers, RaceTypeOK, RaceRecord
      <4>4. ~r.closed
        BY <1>0, <2>3, <4>1 DEF OneRace
      <4> QED BY <1>0, <2>1, <2>3, <4>1, <4>3, <4>4 DEF OneRace, AsksTunnel, Match, BypassDomains
    <3>5. ASSUME NEW s \in Servers, ServerFails(c, s) PROVE OneRace(d)'
      <4>1. s \in r.pending /\ r.asked
        BY <1>0, <2>3, <3>5 DEF ServerFails, OneRace, NoRace
      <4>2. /\ q.asked = r.asked /\ q.closed = r.closed /\ q.result = r.result
            /\ q.pending = r.pending \ {s} /\ q.failed = r.failed \cup {s}
        BY <3>1, <3>5 DEF ServerFails, RaceTypeOK, RaceRecord
      <4>3. ~r.closed
        BY <1>0, <2>3, <4>1 DEF OneRace
      <4> QED BY <1>0, <2>1, <2>3, <4>1, <4>2, <4>3 DEF OneRace, AsksTunnel, Match, BypassDomains
    <3> QED BY <1>8, <3>2, <3>3, <3>4, <3>5
  <2> QED BY <2>2, <2>3
<1>9. CASE UNCHANGED <<caller, race>>
  BY <1>0, <1>9, RaceKept
<1> QED
  BY <1>2, <1>3, <1>4, <1>5, <1>6, <1>7, <1>8, <1>9
  DEF DispatchNext, Resolves, LookupEnds, TakeResult, AllServersFailed, LookupTimesOut, NoServers,
      Singleflight, World, Expire, RecordChanges, Dial, ResolveFails, vars, dispatchVars

\* Time runs forward in the cache: the answers of AgeInv and of the callers.
LEMMA AgeStep ==
  /\ TypeOK /\ RaceTypeOK /\ ModeInv /\ LeaderInv /\ AgeInv /\ AnswersNeverGoBack /\ RaceInv
  /\ [DispatchNext]_dispatchVars
  => AgeInv' /\ AnswersNeverGoBack'
<1> SUFFICES ASSUME TypeOK, RaceTypeOK, ModeInv, LeaderInv, AgeInv, AnswersNeverGoBack, RaceInv,
                    [DispatchNext]_dispatchVars
             PROVE  AgeInv' /\ AnswersNeverGoBack'
  OBVIOUS
<1>0. CallersOK /\ ZoneOK /\ CacheOK
  BY TypeSplits
<1>00. /\ Versions \subseteq Nat /\ 0 \in Versions /\ None \notin Versions /\ Failed \notin Versions
       /\ None # Failed
  BY ResolverAssumption DEF Versions, Answers
<1>free. \A c \in Callers : caller[c].at # "querying" => race[c].result = None
  BY DEF RaceInv, OneRace, NoRace
\* A caller leaves idle and nothing else moves.
<1>1. ASSUME NEW c \in Callers, NEW n \in Names, Lookup(c, n) PROVE AgeInv' /\ AnswersNeverGoBack'
  <2>1. /\ UNCHANGED <<cache, zone, race>>
        /\ \A d \in Callers \ {c} : caller'[d] = caller[d]
        /\ caller'[c].at \in {"answered", "missed"} /\ caller'[c].name = n
        /\ caller'[c].floor = told[n]
        /\ caller'[c].at = "missed" => caller'[c].answer = None
    BY <1>0, <1>1 DEF Lookup, Hit, Miss, CallersOK
  <2>2. UNCHANGED told /\ (caller'[c].at = "answered" /\ caller'[c].answer # Failed
                              => caller'[c].answer = told[n])
    <3>1. CASE Miss(c, n)
      BY <1>0, <3>1 DEF Miss, CallersOK
    <3>2. CASE Hit(c, n)
      <4>1. /\ n \in DOMAIN cache /\ caller'[c].answer = cache[n].answer /\ Note(n, cache[n].answer)
        BY <1>0, <3>2 DEF Hit, CallersOK
      <4>2. cache[n].answer # Failed => cache[n].answer = told[n]
        BY <4>1 DEF AgeInv
      <4>3. ~(told[n] > told[n])
        <5>1. told[n] \in Nat
          BY <1>0, <1>00 DEF ZoneOK
        <5> QED BY <5>1
      <4>4. UNCHANGED told
        <5>1. CASE cache[n].answer = Failed
          BY <1>00, <4>1, <5>1 DEF Note
        <5>2. CASE cache[n].answer = told[n]
          BY <4>1, <4>3, <5>2 DEF Note
        <5> QED BY <4>2, <5>1, <5>2
      <4> QED BY <4>1, <4>2, <4>4
    <3> QED BY <1>1, <3>1, <3>2 DEF Lookup
  <2>3. told[n] \in Nat
    BY <1>0, <1>00 DEF ZoneOK
  <2>4. AnswersNeverGoBack'
    BY <2>1, <2>2, <2>3 DEF AnswersNeverGoBack
  <2>5. AgeInv'
    BY <2>1, <2>2, <2>3 DEF AgeInv, Current
  <2> QED BY <2>4, <2>5
<1>2. ASSUME NEW c \in Callers, NEW n \in Names, SystemResolves(c, n)
      PROVE  AgeInv' /\ AnswersNeverGoBack'
  <2>1. PICK a \in {zone[n], Failed} :
              /\ caller' = [caller EXCEPT ![c] = [at |-> "answered", name |-> n,
                                                  answer |-> a, floor |-> told[n]]]
              /\ Note(n, a)
    BY <1>2 DEF SystemResolves
  <2>2. /\ UNCHANGED <<cache, zone, race>> /\ DOMAIN cache = {}
        /\ \A d \in Callers : caller[d].at \in {"idle", "answered"}
    BY <1>2 DEF SystemResolves, ModeInv
  <2>3. /\ \A d \in Callers \ {c} : caller'[d] = caller[d]
        /\ caller'[c].at = "answered" /\ caller'[c].name = n /\ caller'[c].answer = a
        /\ caller'[c].floor = told[n]
    BY <1>0, <2>1 DEF CallersOK
  <2>4. /\ told[n] <= zone[n] /\ told[n] \in Nat /\ zone[n] \in Versions /\ zone[n] \in Nat
    BY <1>0, <1>00 DEF AgeInv, ZoneOK
  <2>5. /\ \A m \in Names : told[m] <= told'[m] /\ told'[m] <= zone[m]
    <3>1. /\ \A m \in Names : told[m] <= told'[m]
          /\ \A m \in Names \ {n} : told'[m] = told[m]
          /\ a \in Versions /\ told[n] <= a => told'[n] = a
          /\ a \notin Versions => told' = told
      BY <1>0, <2>1, NoteEffect
    <3>2. told'[n] <= zone[n]
      BY <1>00, <2>4, <3>1
    <3> QED BY <3>1, <3>2 DEF AgeInv
  <2>6. AnswersNeverGoBack'
    BY <2>3, <2>4 DEF AnswersNeverGoBack
  <2>7. \A d \in Callers : caller'[d].at # "idle" => caller'[d].floor <= told'[caller'[d].name]
    <3>1. ASSUME NEW d \in Callers \ {c}, caller[d].at # "idle"
          PROVE  caller[d].floor <= told'[caller[d].name]
      <4>1. caller[d].name \in Names /\ caller[d].floor <= told[caller[d].name]
        BY <3>1 DEF LeaderInv, AgeInv
      <4>2. told' \in [Names -> Versions]
        BY <1>0, <2>1, NoteEffect
      <4>3. caller[d].floor \in Nat /\ told[caller[d].name] \in Nat /\ told'[caller[d].name] \in Nat
        BY <1>0, <1>00, <4>1, <4>2 DEF CallersOK, CallerRecord, ZoneOK
      <4> QED BY <2>5, <4>1, <4>3
    <3> QED BY <2>3, <2>5, <3>1
  <2>8. AgeInv'
    <3>1. \A d \in Callers : caller'[d].at \in {"idle", "answered"}
      BY <2>2, <2>3
    <3> QED BY <2>2, <2>5, <2>7, <3>1 DEF AgeInv
  <2> QED BY <2>6, <2>8
\* A query or a race moves: only the caller that leads it.
<1>3. ASSUME NEW c \in Callers, NEW a, UNCHANGED <<cache, zone, told>>,
             caller[c].at = "querying", Current(caller[c].name, a),
             caller' = [caller EXCEPT ![c].answer = a],
             \A d \in Callers : race'[d].result \in {race[d].result, None}
      PROVE  AgeInv' /\ AnswersNeverGoBack'
  <2>1. /\ \A d \in Callers : /\ caller'[d].at = caller[d].at /\ caller'[d].name = caller[d].name
                              /\ caller'[d].floor = caller[d].floor
        /\ \A d \in Callers \ {c} : caller'[d] = caller[d]
        /\ caller'[c].answer = a
    BY <1>0, <1>3 DEF CallersOK, CallerRecord
  <2>2. \A d \in Callers : caller[d].at # "querying" => caller'[d].answer = caller[d].answer
    BY <1>3, <2>1
  <2>3. AnswersNeverGoBack'
    BY <2>1, <2>2 DEF AnswersNeverGoBack
  <2>4. \A d \in Callers : caller'[d].at = "querying" =>
            Current(caller'[d].name, caller'[d].answer) /\ Current(caller'[d].name, race'[d].result)
    <3>1. \A n : Current(n, None)
      BY <1>00 DEF Current
    <3> QED BY <1>3, <2>1, <3>1 DEF AgeInv
  <2>5. \A d \in Callers : caller'[d].at = "querying" =>
            /\ (caller'[d].answer \in Versions =>
                   told'[caller'[d].name] <= caller'[d].answer /\ caller'[d].answer <= zone'[caller'[d].name])
            /\ (race'[d].result \in Versions =>
                   told'[caller'[d].name] <= race'[d].result /\ race'[d].result <= zone'[caller'[d].name])
    BY <1>3, <2>4 DEF Current
  <2>6. AgeInv'
    BY <1>3, <2>1, <2>2, <2>5 DEF AgeInv, Current
  <2> QED BY <2>3, <2>6
<1>4. ASSUME NEW c \in Callers, LocalResolves(c) PROVE AgeInv' /\ AnswersNeverGoBack'
  <2>1. PICK a \in {zone[caller[c].name], Failed} : caller' = [caller EXCEPT ![c].answer = a]
    BY <1>4 DEF LocalResolves, InnerResolves
  <2>2. caller[c].at = "querying" /\ UNCHANGED <<cache, zone, told, race>>
    BY <1>4 DEF LocalResolves, InnerResolves
  <2>3. caller[c].name \in Names
    BY <2>2 DEF LeaderInv
  <2>4. Current(caller[c].name, a)
    BY <1>0, <1>00, <2>1, <2>3 DEF Current, AgeInv, ZoneOK
  <2> QED BY <1>3, <2>1, <2>2, <2>4
<1>5. ASSUME NEW c \in Callers, NoServers(c) \/ TakeResult(c) \/ AllServersFailed(c) \/ LookupTimesOut(c)
      PROVE  AgeInv' /\ AnswersNeverGoBack'
  <2>1. PICK a \in {race[c].result, Failed} : RaceEnds(c, a)
    BY <1>5 DEF NoServers, TakeResult, AllServersFailed, LookupTimesOut
  <2>2. caller[c].at = "querying"
    <3>1. CASE NoServers(c)
      BY <3>1 DEF NoServers
    <3>2. CASE ~race[c].asked
      BY <1>5, <3>1, <3>2 DEF RaceInv, OneRace, NoRace, TakeResult, AllServersFailed, LookupTimesOut
    <3>3. CASE race[c].asked
      BY <3>3 DEF RaceInv, OneRace
    <3> QED BY <3>1, <3>2, <3>3
  <2>3. Current(caller[c].name, a)
    BY <1>00, <2>1, <2>2 DEF AgeInv, Current
  <2>4. /\ caller' = [caller EXCEPT ![c].answer = a] /\ UNCHANGED <<cache, zone, told>>
        /\ race' = [race EXCEPT ![c] = NoRace]
    BY <2>1 DEF RaceEnds
  <2>5. \A d \in Callers : race'[d].result \in {race[d].result, None}
    BY <2>4 DEF RaceTypeOK, NoRace
  <2> QED BY <1>3, <2>2, <2>3, <2>4, <2>5
<1>6. ASSUME NEW c \in Callers,
             \/ AskServers(c) \/ CloseResults(c)
             \/ \E s \in Servers : ServerAnswers(c, s) \/ ServerFails(c, s)
      PROVE  AgeInv' /\ AnswersNeverGoBack'
  <2>1. UNCHANGED <<cache, zone, told, caller>>
    BY <1>6 DEF AskServers, CloseResults, ServerAnswers, ServerFails, vars
  <2>2. AnswersNeverGoBack'
    BY <2>1 DEF AnswersNeverGoBack
  <2>3. \A d \in Callers : race'[d].result \in {race[d].result, zone[caller[d].name]}
    <3>1. CASE AskServers(c)
      BY <3>1 DEF AskServers, RaceTypeOK, RaceRecord
    <3>2. CASE CloseResults(c)
      BY <3>2 DEF CloseResults, RaceTypeOK, RaceRecord
    <3>3. ASSUME NEW s \in Servers, ServerFails(c, s)
          PROVE  \A d \in Callers : race'[d].result = race[d].result
      BY <3>3 DEF ServerFails, RaceTypeOK, RaceRecord
    <3>4. ASSUME NEW s \in Servers, ServerAnswers(c, s)
          PROVE  /\ \A d \in Callers \ {c} : race'[d].result = race[d].result
                 /\ race'[c].result = IF race[c].result = None THEN zone[caller[c].name]
                                     ELSE race[c].result
      BY <3>4 DEF ServerAnswers, RaceTypeOK, RaceRecord
    <3> QED BY <1>6, <3>1, <3>2, <3>3, <3>4
  <2>4. ASSUME NEW d \in Callers, caller[d].at = "querying"
        PROVE  Current(caller[d].name, race'[d].result)
    <3>1. caller[d].name \in Names
      BY <2>4 DEF LeaderInv
    <3>2. Current(caller[d].name, zone[caller[d].name])
      <4>1. zone[caller[d].name] \in Nat /\ told[caller[d].name] <= zone[caller[d].name]
        BY <1>0, <1>00, <3>1 DEF AgeInv, ZoneOK
      <4> QED BY <4>1 DEF Current
    <3>3. Current(caller[d].name, race[d].result)
      BY <2>4 DEF AgeInv
    <3> QED BY <2>3, <3>2, <3>3
  <2>5. AgeInv'
    BY <2>1, <2>4 DEF AgeInv, Current
  <2> QED BY <2>2, <2>5
<1>7. ASSUME NEW c \in Callers, EnterFlight(c), UNCHANGED race PROVE AgeInv' /\ AnswersNeverGoBack'
  <2>1. /\ UNCHANGED <<cache, zone, told>>
        /\ \A d \in Callers : /\ caller'[d].name = caller[d].name
                              /\ caller'[d].floor = caller[d].floor
                              /\ caller'[d].answer = caller[d].answer
        /\ \A d \in Callers \ {c} : caller'[d] = caller[d]
        /\ caller[c].at = "missed" /\ caller'[c].at \in {"waiting", "querying"}
    BY <1>0, <1>7 DEF EnterFlight, CallersOK, CallerRecord
  <2>2. race[c].result = None /\ caller[c].answer = None
    BY <1>free, <2>1 DEF AgeInv
  <2>3. AnswersNeverGoBack'
    BY <2>1 DEF AnswersNeverGoBack
  <2>4. AgeInv'
    BY <1>00, <1>7, <2>1, <2>2 DEF AgeInv, Current
  <2> QED BY <2>3, <2>4
<1>8. ASSUME NEW c \in Callers, Complete(c), UNCHANGED race PROVE AgeInv' /\ AnswersNeverGoBack'
  <2> DEFINE n == caller[c].name
             a == caller[c].answer
  <2>1. /\ n \in Names /\ a \in Answers /\ a # None /\ caller[c].at = "querying"
        /\ UNCHANGED zone /\ Note(n, a)
    BY <1>0, <1>8 DEF Complete, LeaderInv, CallersOK, CallerRecord
  <2>2. a \in Versions => told[n] <= a /\ a <= zone[n]
    BY <2>1 DEF AgeInv, Current
  <2>3. \A d \in Callers :
          /\ caller'[d].name = caller[d].name /\ caller'[d].floor = caller[d].floor
          /\ IF d = c \/ (caller[d].at = "waiting" /\ caller[d].name = n)
             THEN caller'[d].at = "answered" /\ caller'[d].answer = a
             ELSE caller'[d].at = caller[d].at /\ caller'[d].answer = caller[d].answer
    BY <1>0, <1>8 DEF Complete, Deliver, CallersOK, CallerRecord
  <2>4. PICK base : /\ cache' = Put(base, n, a)
                    /\ DOMAIN base \subseteq DOMAIN cache
                    /\ \A m \in DOMAIN base : base[m] = cache[m]
    BY <1>8, EvictedShrinks DEF Complete
  <2>5. \A d \in Callers : caller[d].at = "querying" /\ caller[d].name = n => d = c
    BY <2>1 DEF LeaderInv
  <2>name. caller[c].name = n
    OBVIOUS
  <2> HIDE DEF n, a
  <2>6. /\ DOMAIN cache' = DOMAIN base \cup {n}
        /\ cache'[n] = [answer |-> a, fresh |-> TRUE]
        /\ \A m \in DOMAIN base \ {n} : cache'[m] = base[m]
    BY <2>4, PutEffect
  <2>7. /\ told' \in [Names -> Versions]
        /\ \A m \in Names : told[m] <= told'[m]
        /\ \A m \in Names \ {n} : told'[m] = told[m]
        /\ a \in Versions => told'[n] = a
        /\ a \notin Versions => told' = told
    BY <1>0, <2>1, <2>2, NoteEffect
  <2>8. \A m \in Names : told'[m] <= zone'[m]
    BY <2>1, <2>2, <2>7 DEF AgeInv
  <2>9. \A m \in DOMAIN cache' : cache'[m].answer # Failed => cache'[m].answer = told'[m]
    <3>1. ASSUME NEW m \in DOMAIN base \ {n}, cache'[m].answer # Failed
          PROVE  cache'[m].answer = told'[m]
      <4>1. m \in DOMAIN cache /\ m \in Names /\ cache'[m] = cache[m]
        BY <1>0, <2>4, <2>6 DEF CacheOK
      <4>2. cache[m].answer = told[m]
        BY <3>1, <4>1 DEF AgeInv
      <4> QED BY <2>7, <4>1, <4>2
    <3>2. cache'[n].answer = a
      BY <2>6
    <3>3. a # Failed => a = told'[n]
      BY <2>1, <2>7 DEF Answers
    <3> QED BY <2>6, <3>1, <3>2, <3>3
  <2>10. ASSUME NEW d \in Callers, caller[d].at # "idle"
         PROVE  caller[d].floor <= told'[caller[d].name]
    <3>1. caller[d].name \in Names /\ caller[d].floor <= told[caller[d].name]
      BY <2>10 DEF LeaderInv, AgeInv
    <3>2. caller[d].floor \in Nat /\ told[caller[d].name] \in Nat /\ told'[caller[d].name] \in Nat
      BY <1>0, <1>00, <2>7, <3>1 DEF CallersOK, CallerRecord, ZoneOK
    <3> QED BY <2>7, <3>1, <3>2
  <2>11. ASSUME NEW d \in Callers, d = c \/ (caller[d].at = "waiting" /\ caller[d].name = n), a # Failed
         PROVE  caller[d].floor <= a
    <3>1. a \in Versions
      BY <2>1, <2>11 DEF Answers
    <3>2. caller[d].floor <= told[n] /\ told[n] <= a
      BY <2>1, <2>2, <2>11, <2>name, <3>1 DEF AgeInv
    <3>3. caller[d].floor \in Nat /\ told[n] \in Nat /\ a \in Nat
      BY <1>0, <1>00, <2>1, <3>1 DEF CallersOK, CallerRecord, ZoneOK
    <3> QED BY <3>2, <3>3
  <2>12. AnswersNeverGoBack'
    <3> SUFFICES ASSUME NEW d \in Callers, caller'[d].at = "answered", caller'[d].answer # Failed
                 PROVE  caller'[d].answer >= caller'[d].floor
      BY DEF AnswersNeverGoBack
    <3>1. CASE d = c \/ (caller[d].at = "waiting" /\ caller[d].name = n)
      <4>1. caller'[d].answer = a /\ caller'[d].floor = caller[d].floor
        BY <2>3, <3>1
      <4>2. caller[d].floor <= a
        BY <2>11, <3>1, <4>1
      <4>3. caller[d].floor \in Nat /\ a \in Nat
        BY <1>0, <1>00, <2>1, <4>1 DEF CallersOK, CallerRecord, Answers
      <4> QED BY <4>1, <4>2, <4>3
    <3>2. CASE ~(d = c \/ (caller[d].at = "waiting" /\ caller[d].name = n))
      BY <2>3, <3>2 DEF AnswersNeverGoBack
    <3> QED BY <3>1, <3>2
  <2>13. ASSUME NEW d \in Callers, caller'[d].at = "querying"
         PROVE  /\ caller'[d].name = caller[d].name /\ caller'[d].answer = caller[d].answer
                /\ caller[d].at = "querying" /\ caller[d].name \in Names \ {n}
    <3>1. d # c /\ caller[d].at = "querying" /\ caller'[d].answer = caller[d].answer
      BY <2>3, <2>13
    <3> QED BY <2>3, <2>5, <3>1 DEF LeaderInv
  <2>14. AgeInv'
    <3>1. \A d \in Callers : caller'[d].at # "idle" => caller'[d].floor <= told'[caller'[d].name]
      <4>1. \A d \in Callers : caller'[d].at # "idle" => caller[d].at # "idle"
        BY <2>1, <2>3, <2>name
      <4> QED BY <2>3, <2>10, <4>1
    <3>2. \A d \in Callers : caller'[d].at = "missed" => caller'[d].answer = None
      BY <2>3 DEF AgeInv
    <3>3. ASSUME NEW d \in Callers, caller'[d].at = "querying"
          PROVE  /\ Current(caller[d].name, caller[d].answer) /\ Current(caller[d].name, race[d].result)
                 /\ told'[caller[d].name] = told[caller[d].name]
      BY <2>7, <2>13, <3>3 DEF AgeInv
    <3>4. \A d \in Callers : caller'[d].at = "querying" => Current(caller[d].name, caller[d].answer)'
                                                        /\ Current(caller[d].name, race[d].result)'
      BY <1>8, <2>1, <2>13, <3>3 DEF Current
    <3> QED BY <2>8, <2>9, <3>1, <3>2, <3>4 DEF AgeInv
  <2> QED BY <2>12, <2>14
<1>9. ASSUME NEW c \in Callers, Return(c), UNCHANGED race PROVE AgeInv' /\ AnswersNeverGoBack'
  <2>1. /\ UNCHANGED <<cache, zone, told>> /\ caller'[c].at = "idle"
        /\ \A d \in Callers \ {c} : caller'[d] = caller[d]
    BY <1>0, <1>9 DEF Return, CallersOK
  <2>2. AnswersNeverGoBack'
    BY <2>1 DEF AnswersNeverGoBack
  <2>3. AgeInv'
    BY <1>9, <2>1 DEF AgeInv, Current
  <2> QED BY <2>2, <2>3
<1>10. ASSUME NEW n \in Names, Expire(n), UNCHANGED race PROVE AgeInv' /\ AnswersNeverGoBack'
  <2>1. /\ UNCHANGED <<caller, zone, told>> /\ DOMAIN cache' = DOMAIN cache
        /\ \A m \in DOMAIN cache : cache'[m].answer = cache[m].answer
    BY <1>0, <1>10 DEF Expire, CacheOK, Entries
  <2> QED BY <1>10, <2>1 DEF AgeInv, AnswersNeverGoBack, Current
<1>11. ASSUME NEW n \in Names, RecordChanges(n), UNCHANGED race PROVE AgeInv' /\ AnswersNeverGoBack'
  <2>0. \A m \in Names : zone[m] \in Nat /\ told[m] \in Nat
    BY <1>0, <1>00 DEF ZoneOK
  <2>00. /\ UNCHANGED <<caller, cache, told>> /\ zone'[n] = zone[n] + 1
         /\ \A m \in Names \ {n} : zone'[m] = zone[m]
    BY <1>0, <1>11 DEF RecordChanges, ZoneOK
  <2>1. UNCHANGED <<caller, cache, told>> /\ \A m \in Names : zone[m] <= zone'[m]
    BY <2>0, <2>00
  <2>2. \A m \in Names : zone[m] \in Nat /\ zone'[m] \in Nat /\ told[m] \in Nat
    BY <2>0, <2>00
  <2>3. AnswersNeverGoBack'
    BY <2>1 DEF AnswersNeverGoBack
  <2>4. ASSUME NEW m \in Names, NEW v \in Versions \cup {None, Failed}, Current(m, v)
        PROVE  v \in Versions => told[m] <= v /\ v <= zone'[m]
    <3> SUFFICES ASSUME v \in Versions PROVE told[m] <= v /\ v <= zone'[m]
      OBVIOUS
    <3>1. told[m] <= v /\ v <= zone[m]
      BY <2>4 DEF Current
    <3>2. v \in Nat /\ zone[m] \in Nat /\ zone'[m] \in Nat /\ zone[m] <= zone'[m]
      BY <1>00, <2>1, <2>2
    <3> QED BY <3>1, <3>2
  <2>5. \A d \in Callers : caller[d].at = "querying" =>
            /\ caller[d].answer \in Versions =>
                  told[caller[d].name] <= caller[d].answer /\ caller[d].answer <= zone'[caller[d].name]
            /\ race[d].result \in Versions =>
                  told[caller[d].name] <= race[d].result /\ race[d].result <= zone'[caller[d].name]
    BY <2>4 DEF AgeInv, LeaderInv
  <2>6. AgeInv'
    BY <1>11, <2>1, <2>2, <2>5 DEF AgeInv, Current
  <2> QED BY <2>3, <2>6
<1>12. CASE UNCHANGED <<vars, race>>
  BY <1>12 DEF vars, AgeInv, AnswersNeverGoBack, Current
<1> QED
  BY <1>1, <1>2, <1>4, <1>5, <1>6, <1>7, <1>8, <1>9, <1>10, <1>11, <1>12
  DEF DispatchNext, Resolves, LookupEnds, Singleflight, World, Dial, ResolveFails, dispatchVars

\* The observer's record of a dial is what the dialers chose.
LEMMA FlowStep ==
  TypeOK /\ LeaderInv /\ FlowInv /\ [DispatchNext]_dispatchVars => FlowInv'
<1> SUFFICES ASSUME TypeOK, LeaderInv, FlowInv, [DispatchNext]_dispatchVars PROVE FlowInv'
  OBVIOUS
<1>0. UNCHANGED cfg
  BY ConfigUnchanged
<1>1. ASSUME NEW c \in Callers, NEW net \in {"tcp", "udp"}, NEW port \in Ports, Dial(c, net, port)
      PROVE  FlowInv'
  <2>1. PICK host \in {caller[c].name, Literal} :
           /\ host = Literal \/ (host # Literal /\ Return(c))
           /\ flow' = [by |-> c, host |-> host, net |-> net, port |-> port,
                       egress |-> Egress(net, host, port),
                       shard |-> IF Egress(net, host, port) = "shard" THEN ShardFor(c) ELSE 0]
    BY <1>1 DEF Dial
  <2>2. host \in Names \cup {Literal}
    BY <2>1 DEF Return, LeaderInv
  <2>3. /\ flow'.by = c /\ flow'.net = net /\ flow'.host = host /\ flow'.port = port
        /\ flow'.egress = Egress(net, host, port)
        /\ flow'.shard = IF Egress(net, host, port) = "shard" THEN ShardFor(c) ELSE 0
    BY <2>1
  <2>4. /\ flow'.egress = Egress(flow.net, flow.host, flow.port)'
        /\ flow'.shard = IF flow'.egress = "shard" THEN ShardFor(flow.by)' ELSE 0
    BY <1>0, <2>3
    DEF Egress, L3Egress, L4Egress, ClassifyL4UDP, SelectTCPRoute, ShouldUseTunTCP, Match,
        BypassDomains, UDP443Blocked, ShardFor
  <2> QED BY <2>2, <2>3, <2>4 DEF FlowInv
<1>2. CASE flow' = NoFlow
  BY <1>2 DEF FlowInv
<1>3. CASE UNCHANGED flow
  BY <1>0, <1>3
  DEF FlowInv, Egress, L3Egress, L4Egress, ClassifyL4UDP, SelectTCPRoute, ShouldUseTunTCP, Match,
      BypassDomains, UDP443Blocked, ShardFor, NoFlow
<1> QED
  BY <1>1, <1>2, <1>3
  DEF DispatchNext, Lookup, SystemResolves, Resolves, AskServers, NoServers, LocalResolves,
      LookupEnds, ServerAnswers, ServerFails, CloseResults, TakeResult, AllServersFailed,
      LookupTimesOut, RaceEnds, Singleflight, ResolveFails, World, dispatchVars

-----------------------------------------------------------------------------
(* The theorems *)

\* NormalizeSocksConfig lets only usable configurations through.
LEMMA ConfigInit == DispatchInit => ConfigInv
<1> SUFFICES ASSUME DispatchInit PROVE ConfigInv
  OBVIOUS
<1>1. PICK raw \in RawConfigs : cfg = Normalized(raw)
  BY DEF DispatchInit
<1>2. raw \in SocksSections
  BY DispatchAssumption
<1>3. /\ cfg.mode = raw.mode /\ cfg.dns = raw.dns /\ cfg.bypassDomain = raw.bypassDomain
      /\ cfg.l4PoolSize = PoolSize(raw.l4PoolSize)
  BY <1>1, <1>2 DEF Normalized, SocksSections
<1>4. PoolSize(raw.l4PoolSize) \in 1..MaxPoolSize
  BY <1>2, DispatchAssumption DEF PoolSize, SocksSections
<1> QED BY <1>2, <1>3, <1>4 DEF ConfigInv, SocksSections

\* Nobody resolves and nothing is cached when the runtime starts.
LEMMA IInvInit == DispatchInit => IInv
<1> SUFFICES ASSUME DispatchInit PROVE IInv
  OBVIOUS
<1>0. 0 \in Versions /\ None \notin Versions
  BY ResolverAssumption DEF Versions, Answers
<1>1. TypeOK
  <2>1. DOMAIN cache = {}
    BY DEF DispatchInit, Init
  <2>2. \A n \in Names : 0 \in Versions
    BY <1>0
  <2> QED BY <1>0, <2>1 DEF DispatchInit, Init, TypeOK, Places
<1>2. RaceTypeOK
  BY DEF DispatchInit, RaceTypeOK, RaceRecord, NoRace
<1>3. ModeInv /\ LeaderInv /\ AnswersNeverGoBack
  BY DEF DispatchInit, Init, ModeInv, LeaderInv, AnswersNeverGoBack
<1>4. AgeInv
  BY DEF DispatchInit, Init, AgeInv
<1>5. RaceInv
  BY DEF DispatchInit, RaceInv, OneRace, NoRace
<1>6. FlowInv
  BY DEF DispatchInit, FlowInv
<1> QED BY <1>1, <1>2, <1>3, <1>4, <1>5, <1>6, ConfigInit DEF IInv

\* IInv is inductive: the cache, the singleflight calls, the races between DNS
\* servers and the dialers keep each other's invariants.
THEOREM ResolverInvariant == DispatchSpec => []IInv
<1>1. IInv /\ [DispatchNext]_dispatchVars => IInv'
  <2> SUFFICES ASSUME IInv, [DispatchNext]_dispatchVars PROVE IInv'
    OBVIOUS
  <2>1. TypeOK' /\ RaceTypeOK'
    BY TypeStep, RaceTypeStep DEF IInv
  <2>2. ModeInv' /\ LeaderInv'
    BY ModeStep, LeaderStep DEF IInv
  <2>3. AgeInv' /\ AnswersNeverGoBack'
    BY AgeStep DEF IInv
  <2>4. RaceInv'
    BY RaceStep DEF IInv
  <2>5. ConfigInv'
    BY ConfigUnchanged DEF IInv, ConfigInv
  <2>6. FlowInv'
    BY FlowStep DEF IInv
  <2> QED BY <2>1, <2>2, <2>3, <2>4, <2>5, <2>6 DEF IInv
<1> QED BY <1>1, IInvInit, PTL DEF DispatchSpec

\* The types of the cache, the races and the last dial hold in every
\* configuration.
THEOREM TypeCorrect == DispatchSpec => []DispatchTypeOK
<1>1. ASSUME IInv PROVE DispatchTypeOK
  <2>1. TypeOK /\ RaceTypeOK /\ FlowInv /\ ConfigInv
    BY <1>1 DEF IInv
  <2>2. flow # NoFlow => flow.egress \in Egresses
    BY <2>1 DEF FlowInv, ConfigInv, Egress, L3Egress, L4Egress, ClassifyL4UDP, Egresses
  <2> QED BY <2>1, <2>2 DEF FlowInv, RaceTypeOK, RaceRecord, DispatchTypeOK
<1> QED BY <1>1, ResolverInvariant, PTL

\* CachingResolver.Resolve never answers with an address older than one that was
\* given before the call began.
THEOREM NoStaleAnswer == DispatchSpec => []AnswersNeverGoBack
<1>1. IInv => AnswersNeverGoBack
  BY DEF IInv
<1> QED BY <1>1, ResolverInvariant, PTL

\* TunnelDNSResolver.Resolve reports that all servers failed only when they did.
THEOREM AllFailed == DispatchSpec => []AllFailedMeansAll
<1>1. IInv => AllFailedMeansAll
  <2> SUFFICES ASSUME RaceInv, NEW c \in Callers, race[c].closed, race[c].result = None
               PROVE  race[c].failed = cfg.dns
    BY DEF IInv, AllFailedMeansAll
  <2>1. OneRace(c)
    BY DEF RaceInv
  <2>2. race[c].asked
    BY <2>1 DEF OneRace, NoRace
  <2>3. race[c].pending = {} /\ race[c].pending \cup race[c].failed = cfg.dns
    BY <2>1, <2>2 DEF OneRace
  <2> QED BY <2>3
<1> QED BY <1>1, ResolverInvariant, PTL

\* Every request leaves by the egress the documentation gives for it, whatever
\* the cache said, for hosts without an empty label.
THEOREM RoutingFollowsPolicy ==
  ASSUME WellFormedNames
  PROVE  DispatchSpec => []EgressFollowsPolicy
<1>1. IInv => EgressFollowsPolicy
  BY FlowFollowsPolicy DEF IInv
<1> QED BY <1>1, ResolverInvariant, PTL

=============================================================================
