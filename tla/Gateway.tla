------------------------------- MODULE Gateway -------------------------------
(***************************************************************************)
(* The API gateway: a request is authenticated, counted against the limits *)
(* of its user, looked up in the response cache and otherwise sent to the  *)
(* service; the answer is judged by the threat detector and then cached.   *)
(* The gateway awaits only the service, so that a request is two steps of  *)
(* it, with the service's own step in between.                             *)
(***************************************************************************)
EXTENDS Integers, Sequences, FiniteSets, Functions

CONSTANTS
  Users,        \* with a role that SERVICE_ROLE_REQUIREMENTS names
  Paths,        \* cacheable paths, each with its query
  Requests,     \* requests in progress, so many at once
  Replicas,     \* processes of the gateway, each with a cache and a memory
  RedisBuild,   \* TRUE when RATE_LIMIT_REDIS_URL is set
  ServiceLimit, \* max_requests
  WriteLimit,   \* the limit of an endpoint for writes
  LimitWindow,  \* window_seconds, in ticks of the clock
  Ttl,          \* CACHE_TTL_SECONDS
  MaxEntries,   \* CACHE_MAX_ENTRIES
  Addresses,    \* of clients
  MaxIpHits,    \* max_ip_hits
  MaxUserHits,  \* max_user_hits
  Threshold,    \* THREAT_BLOCK_THRESHOLD
  HitWindow,    \* the detector's window, in ticks
  Flight,       \* the longest time a service takes
  MaxClock,     \* bound on the clock
  MaxArrivals   \* bound on the requests

ASSUME WindowsAssumption == {LimitWindow, HitWindow} \subseteq Nat \ {0}
ASSUME TimesAssumption == Ttl \in Nat \ {0} /\ Flight \in Nat /\ MaxEntries \in Nat \ {0}
ASSUME BuildAssumption == RedisBuild \in BOOLEAN
ASSUME LimitsAssumption == ServiceLimit \in Nat /\ IsFiniteSet(Replicas)
ASSUME GatewayBounds == MaxClock \in Nat /\ MaxArrivals \in Nat

VARIABLES
  clock,
  written,  \* history: the times at which each resource was written
  cache,    \* the response cache of each replica, by path and user
  request,
  hits,     \* what each store of the limiter counted, by user and level
  seen,     \* what the detector counted, of each address and each user
  passed,   \* history: the requests that passed the limit of the service
  answer,   \* the last answer to a read
  arrivals

gatewayVars == <<clock, written, cache, request, hits, seen, passed, answer, arrivals>>

Nothing == [is |-> "nothing"]

\* What a key is made of, beside the method.
Keys == Paths \X Users

Entry == [version : Nat, by : Users, expires : Int]

Request == [at : Replicas, user : Users, path : Paths, write : BOOLEAN, since : Int,
            phase : {"sent", "answered"}, version : Nat]

\* The detector has a count for each address and one for each user.
Callers == {<<"ip", a>> : a \in Addresses} \union {<<"user", u>> : u \in Users}

Answer == [user : Users, path : Paths, version : Nat, by : Users, at : Int]

\* What counts a request at replica g: Redis, or the memory of g when Redis is
\* not configured or fails the check.
Counters(g) == {g} \union (IF RedisBuild THEN {"redis"} ELSE {})

Stores == UNION {Counters(g) : g \in Replicas}

Service == <<"service">>

Levels == {Service} \union (Paths \X BOOLEAN)

\* A sliding window: how many events are so many ticks old.  What is older
\* than the window is pruned before it is counted, hence never kept here.
Window(size) == [0..size - 1 -> Nat]

Total(w) == FoldFunction(+, 0, w)

Another(w) == [w EXCEPT ![0] = @ + 1]

Aged(w) == [age \in DOMAIN w |-> IF age = 0 THEN 0 ELSE w[age - 1]]

-----------------------------------------------------------------------------
(* check_rate_limit: the sliding windows of the service and the endpoint *)

\* Mutant: a request is admitted at the limit.
Admits_AtLimit(h, store, u, l, limit) == Total(h[store][u][l]) <= limit

Admits(h, store, u, l, limit) == Total(h[store][u][l]) < limit

\* Redis counts a refused request, the memory of the process does not.
Counted(h, store, u, l, limit) ==
  IF store = "redis" \/ Admits(h, store, u, l, limit)
  THEN [h EXCEPT ![store][u][l] = Another(@)]
  ELSE h

EndpointLimit(write) == IF write THEN WriteLimit ELSE ServiceLimit

\* Each of the two checks turns to the memory when Redis fails it.  ok is
\* what they have said, and a refusal of the endpoint has used up the
\* service's quota.
RateLimit(g, u, p, write, ok) ==
  \E s, e \in Counters(g) :
    LET first == Counted(hits, s, u, Service, ServiceLimit)
        limit == EndpointLimit(write)
    IN \/ /\ ~Admits(hits, s, u, Service, ServiceLimit)
          /\ ~ok
          /\ hits' = first
          /\ UNCHANGED passed
       \/ /\ Admits(hits, s, u, Service, ServiceLimit)
          /\ ok = Admits(first, e, u, <<p, write>>, limit)
          /\ hits' = Counted(first, e, u, <<p, write>>, limit)
          /\ passed' = [passed EXCEPT ![u] = Another(@)]

-----------------------------------------------------------------------------
(* The response cache *)

\* The hash of method, path, query and user joined by colons: no two of the
\* keys here have the same.
Key(p, u) == <<p, u>>

\* Mutant: an entry is not checked for its age.
Hit_NoExpiry(g, k) == cache[g][k] # Nothing

Hit(g, k) == cache[g][k] # Nothing /\ cache[g][k].expires > clock

\* TTLResponseCache.get drops an entry that has expired.
Dropped(g, k) ==
  IF cache[g][k] # Nothing /\ ~Hit(g, k) THEN [cache EXCEPT ![g][k] = Nothing] ELSE cache

Entries(g) == {k \in Keys : cache[g][k] # Nothing}

\* A full cache loses an entry that expires first, whatever the key is.
Victims(g) ==
  IF Cardinality(Entries(g)) < MaxEntries THEN {}
  ELSE {k \in Entries(g) : \A j \in Entries(g) : cache[g][k].expires <= cache[g][j].expires}

SetEntry(g, k, e) ==
  \/ Victims(g) = {} /\ cache' = [cache EXCEPT ![g][k] = e]
  \/ \E v \in Victims(g) : cache' = [cache EXCEPT ![g][v] = Nothing, ![g][k] = e]

\* POST /kpi/cache/invalidate.  invalidate_prefix compares its prefix with
\* hash values and finds nothing; without a prefix the cache is emptied.
Invalidate(g) ==
  /\ cache' = [cache EXCEPT ![g] = [k \in Keys |-> Nothing]]
  /\ UNCHANGED <<clock, written, request, hits, seen, passed, answer, arrivals>>

-----------------------------------------------------------------------------
(* proxy_request *)

\* Up to the service: refused (by a limit, for its role or for its form, all
\* after it was counted), answered from the cache, or sent.
Arrive(r, g, u, p, write) ==
  /\ request[r] = Nothing
  /\ arrivals < MaxArrivals
  /\ arrivals' = arrivals + 1
  /\ \E ok \in BOOLEAN :
       /\ RateLimit(g, u, p, write, ok)
       /\ \/ UNCHANGED <<cache, request, answer>>
          \/ /\ ok /\ ~write /\ Hit(g, Key(p, u))
             /\ LET e == cache[g][Key(p, u)]
                IN answer' = [user |-> u, path |-> p, version |-> e.version,
                              by |-> e.by, at |-> clock]
             /\ UNCHANGED <<cache, request>>
          \/ /\ ok /\ (write \/ ~Hit(g, Key(p, u)))
             /\ request' = [request EXCEPT ![r] =
                  [at |-> g, user |-> u, path |-> p, write |-> write,
                   since |-> clock, phase |-> "sent", version |-> 0]]
             /\ cache' = IF write THEN cache ELSE Dropped(g, Key(p, u))
             /\ UNCHANGED answer
  /\ UNCHANGED <<clock, written, seen>>

\* The service writes or reads the resource.
Serve(r) ==
  /\ request[r] # Nothing
  /\ request[r].phase = "sent"
  /\ LET p == request[r].path
     IN /\ written' = IF request[r].write
                      THEN [written EXCEPT ![p] = Append(@, clock)] ELSE written
        /\ request' = [request EXCEPT ![r].phase = "answered",
                                      ![r].version = Len(written[p])]
  /\ UNCHANGED <<clock, cache, hits, seen, passed, answer, arrivals>>

\* A timeout or a lost connection (504, 502), before or after the service's
\* step.
Fail(r) ==
  /\ request[r] # Nothing
  /\ request' = [request EXCEPT ![r] = Nothing]
  /\ UNCHANGED <<clock, written, cache, hits, seen, passed, answer, arrivals>>

\* ThreatDetector.evaluate: the risk for the rates.  What it adds for the form
\* of the request and the status of its answer is not told apart.
Risk(count, a, u) ==
  (IF Total(count[<<"ip", a>>]) > MaxIpHits THEN 45 ELSE 0)
  + (IF Total(count[<<"user", u>>]) > MaxUserHits THEN 35 ELSE 0)

\* The detector counts the request first, under the address it came from and
\* its user.  One that it blocks (403) has had its effect at the service;
\* neither that nor an error is cached.
Finish(r) ==
  /\ request[r] # Nothing
  /\ request[r].phase = "answered"
  /\ LET x == request[r]
     IN \E a \in Addresses :
          LET count == [seen EXCEPT ![<<"ip", a>>] = Another(@), ![<<"user", x.user>>] = Another(@)]
          IN /\ seen' = count
             /\ \/ UNCHANGED <<cache, answer>>
                \/ /\ Risk(count, a, x.user) < Threshold /\ ~x.write
                   /\ SetEntry(x.at, Key(x.path, x.user),
                        [version |-> x.version, by |-> x.user, expires |-> clock + Ttl])
                   /\ answer' = [user |-> x.user, path |-> x.path, version |-> x.version,
                                 by |-> x.user, at |-> clock]
  /\ request' = [request EXCEPT ![r] = Nothing]
  /\ UNCHANGED <<clock, written, hits, passed, arrivals>>

\* Flight bounds a request that is not over.
Tick ==
  /\ clock < MaxClock
  /\ \A r \in Requests : request[r] # Nothing => clock < request[r].since + Flight
  /\ clock' = clock + 1
  /\ hits' = [s \in Stores |-> [u \in Users |-> [l \in Levels |-> Aged(hits[s][u][l])]]]
  /\ seen' = [c \in Callers |-> Aged(seen[c])]
  /\ passed' = [u \in Users |-> Aged(passed[u])]
  /\ UNCHANGED <<written, cache, request, answer, arrivals>>

NoHits(size) == [age \in 0..size - 1 |-> 0]

GatewayInit ==
  /\ clock = 0
  /\ written = [p \in Paths |-> <<>>]
  /\ cache = [g \in Replicas |-> [k \in Keys |-> Nothing]]
  /\ request = [r \in Requests |-> Nothing]
  /\ hits = [s \in Stores |-> [u \in Users |-> [l \in Levels |-> NoHits(LimitWindow)]]]
  /\ seen = [c \in Callers |-> NoHits(HitWindow)]
  /\ passed = [u \in Users |-> NoHits(LimitWindow)]
  /\ answer = Nothing
  /\ arrivals = 0

GatewayNext ==
  \/ \E r \in Requests, g \in Replicas, u \in Users, p \in Paths, write \in BOOLEAN :
       Arrive(r, g, u, p, write)
  \/ \E r \in Requests : Serve(r) \/ Fail(r) \/ Finish(r)
  \/ \E g \in Replicas : Invalidate(g)
  \/ Tick

GatewaySpec == GatewayInit /\ [][GatewayNext]_gatewayVars

-----------------------------------------------------------------------------
(* Properties *)

\* The gateway's state has its types.
GatewayTypeOK ==
  /\ clock \in 0..MaxClock
  /\ written \in [Paths -> Seq(0..clock)]
  /\ cache \in [Replicas -> [Keys -> Entry \union {Nothing}]]
  /\ request \in [Requests -> Request \union {Nothing}]
  /\ hits \in [Stores -> [Users -> [Levels -> Window(LimitWindow)]]]
  /\ seen \in [Callers -> Window(HitWindow)]
  /\ passed \in [Users -> Window(LimitWindow)]
  /\ answer \in Answer \union {Nothing}
  /\ arrivals \in 0..MaxArrivals

\* What version of p tells was overwritten by that time.
Stale(p, version, time) == Len(written[p]) > version /\ written[p][version + 1] <= time

\* However fills, writes and evictions interleave, a user is answered with what
\* the service gave to that user, at most as stale as the time to live and one
\* request.
ServedFresh ==
  answer # Nothing =>
    /\ answer.by = answer.user
    /\ ~Stale(answer.path, answer.version, answer.at - Ttl - Flight)

\* Within a window a user passes the limit of a service once for each store
\* that counts, also when Redis comes and goes.
RateKept ==
  \A u \in Users :
    Total(passed[u]) <= Cardinality(Stores) * ServiceLimit

=============================================================================
