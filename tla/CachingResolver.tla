-------------------------- MODULE CachingResolver --------------------------
(***************************************************************************)
(* CachingResolver of api/resolver.go: the DNS cache in front of every     *)
(* name a SOCKS client asks for.                                           *)
(*                                                                         *)
(* Callers run concurrently.  Each looks in the cache, and on a miss joins *)
(* the singleflight call for its name: the first caller queries the inner  *)
(* resolver and writes the cache, the others take its result.  An answer   *)
(* is the version of the record at the moment the inner resolver read it,  *)
(* so that an old answer can be told from a newer one.                     *)
(***************************************************************************)
EXTENDS Integers, FiniteSets, Functions, FiniteSetsExt

CONSTANTS
    Callers,      \* concurrent Resolve calls
    Names,        \* host names
    MaxEntries,   \* maxEntries
    MaxVersion,   \* bound: how often a record changes
    Failed,       \* the answer of a failed lookup
    None          \* no name, no answer yet

Versions == 0..MaxVersion
Answers  == Versions \cup {Failed}

\* An error is not an address, and "nothing yet" is neither.
ASSUME ResolverAssumption ==
    /\ MaxEntries \in Nat \ {0}
    /\ MaxVersion \in Nat
    /\ Failed \notin Versions
    /\ None \notin Answers /\ None \notin Names

VARIABLES
    cache,     \* cache: name -> answer and whether it has not expired
    flight,    \* singleflight.Group: the names with a query in progress
    caller,    \* each caller: its place, its name, its answer
    zone,      \* the version of each name's record (outside the program)
    told       \* observer: the newest version any caller was given
vars == <<cache, flight, caller, zone, told>>

Entries == [answer : Answers, fresh : BOOLEAN]
Places  == {"idle", "missed", "querying", "waiting", "answered"}

TypeOK ==
    /\ DOMAIN cache \subseteq Names
    /\ \A n \in DOMAIN cache : cache[n] \in Entries
    /\ flight \subseteq Names
    /\ caller \in [Callers -> [at : Places, name : Names \cup {None},
                               answer : Answers \cup {None}, floor : Versions]]
    /\ zone \in [Names -> Versions]
    /\ told \in [Names -> Versions]

Init ==
    /\ cache = [n \in {} |-> None]
    /\ flight = {}
    /\ caller = [c \in Callers |-> [at |-> "idle", name |-> None, answer |-> None, floor |-> 0]]
    /\ zone = [n \in Names |-> 0]
    /\ told = [n \in Names |-> 0]

-----------------------------------------------------------------------------
\* The observer notes how new an answer is.
Note(n, a) ==
    told' = IF a \in Versions /\ a > told[n] THEN [told EXCEPT ![n] = a] ELSE told

\* Resolve: the look in the cache under RLock, a hit on an entry not yet expired.
Hit(c, n) ==
    /\ caller[c].at = "idle"
    /\ n \in DOMAIN cache /\ cache[n].fresh
    /\ caller' = [caller EXCEPT ![c] = [at |-> "answered", name |-> n,
                                        answer |-> cache[n].answer, floor |-> told[n]]]
    /\ Note(n, cache[n].answer)
    /\ UNCHANGED <<cache, flight, zone>>

Miss(c, n) ==
    /\ caller[c].at = "idle"
    /\ ~(n \in DOMAIN cache /\ cache[n].fresh)
    /\ caller' = [caller EXCEPT ![c] = [at |-> "missed", name |-> n,
                                        answer |-> None, floor |-> told[n]]]
    /\ UNCHANGED <<cache, flight, zone, told>>

\* Mutant: every caller that missed queries for itself.
BugNoSingleflight(c) ==
    /\ caller[c].at = "missed"
    /\ caller' = [caller EXCEPT ![c].at = "querying"]
    /\ flight' = flight \cup {caller[c].name}
    /\ UNCHANGED <<cache, zone, told>>

\* Resolve calls sf.Do with the name: the first caller runs the query, the rest
\* wait for its result.
EnterFlight(c) ==
    LET n == caller[c].name IN
    /\ caller[c].at = "missed"
    /\ caller' = [caller EXCEPT ![c].at = IF n \in flight THEN "waiting" ELSE "querying"]
    /\ flight' = flight \cup {n}
    /\ UNCHANGED <<cache, zone, told>>

\* The inner resolver reads the record, or fails (it has a timeout).
InnerResolves(c) ==
    LET n == caller[c].name IN
    /\ caller[c].at = "querying" /\ caller[c].answer = None
    /\ \E a \in {zone[n], Failed} : caller' = [caller EXCEPT ![c].answer = a]
    /\ UNCHANGED <<cache, flight, zone, told>>

Expired == {n \in DOMAIN cache : ~cache[n].fresh}

\* evictLocked: ~10% of maxEntries, expired entries first, the choice among
\* equals being Go's map iteration order.
Target == IF MaxEntries \div 10 < 1 THEN 1 ELSE MaxEntries \div 10

Evicted ==
    LET few  == Cardinality(Expired) < Target
        gone == IF few
                THEN {Expired \cup rest :
                        rest \in kSubset(Target - Cardinality(Expired), DOMAIN cache \ Expired)}
                ELSE kSubset(Target, Expired)
    IN {Restrict(cache, DOMAIN cache \ g) : g \in gone}

Full == Cardinality(DOMAIN cache) >= MaxEntries

\* The entry written for n.
Put(base, n, a) ==
    [m \in DOMAIN base \cup {n} |->
        IF m = n THEN [answer |-> a, fresh |-> TRUE] ELSE base[m]]

\* singleflight, which is outside the repository, gives the result to every
\* caller that waits for n.
Deliver(c, n, a) ==
    caller' = [x \in Callers |->
                 IF x = c \/ (caller[x].at = "waiting" /\ caller[x].name = n)
                 THEN [caller[x] EXCEPT !.at = "answered", !.answer = a]
                 ELSE caller[x]]

\* The rest of the singleflight function, under the write lock: a failure is
\* stored as it is, an address makes room first.
Complete(c) ==
    LET n == caller[c].name
        a == caller[c].answer
    IN
    /\ caller[c].at = "querying" /\ a # None
    /\ \E base \in IF a # Failed /\ Full THEN Evicted ELSE {cache} :
         cache' = Put(base, n, a)
    /\ flight' = flight \ {n}
    /\ Deliver(c, n, a)
    /\ Note(n, a)
    /\ UNCHANGED zone

\* The caller is done with its answer.
Return(c) ==
    /\ caller[c].at = "answered"
    /\ caller' = [caller EXCEPT ![c] = [at |-> "idle", name |-> None, answer |-> None, floor |-> 0]]
    /\ UNCHANGED <<cache, flight, zone, told>>

\* Time passes the entry's expiresAt.
Expire(n) ==
    /\ n \in DOMAIN cache /\ cache[n].fresh
    /\ cache' = [cache EXCEPT ![n].fresh = FALSE]
    /\ UNCHANGED <<flight, caller, zone, told>>

\* The record of a name changes outside.
RecordChanges(n) ==
    /\ zone[n] < MaxVersion
    /\ zone' = [zone EXCEPT ![n] = @ + 1]
    /\ UNCHANGED <<cache, flight, caller, told>>

CallerNext(c) == EnterFlight(c) \/ InnerResolves(c) \/ Complete(c)

Next ==
    \/ \E c \in Callers : \/ \E n \in Names : Hit(c, n) \/ Miss(c, n)
                          \/ CallerNext(c) \/ Return(c)
    \/ \E n \in Names : Expire(n) \/ RecordChanges(n)

Spec == Init /\ [][Next]_vars

-----------------------------------------------------------------------------
(* Properties *)

\* Answers never go back in time: a caller that starts after somebody was given
\* version v of a record is not given an older one, from the cache or from a
\* query it joined half way.
AnswersNeverGoBack ==
    \A c \in Callers :
        (caller[c].at = "answered" /\ caller[c].answer # Failed) =>
            caller[c].answer >= caller[c].floor

\* "maxEntries: max number of cached entries".
CacheIsBounded == Cardinality(DOMAIN cache) <= MaxEntries

=============================================================================
