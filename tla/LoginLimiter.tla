----------------------------- MODULE LoginLimiter -----------------------------
(***************************************************************************)
(* The limit on logins of the auth service: a counter in Redis for each    *)
(* client and each window of the clock, and when Redis does not answer, a  *)
(* list in the memory of the process of the logins it has let pass.        *)
(***************************************************************************)
EXTENDS Integers, FiniteSets

CONSTANTS
  AuthProcesses,
  Clients,        \* address and user agent
  MaxLogins,      \* max_requests, 100
  WindowSeconds,  \* window_seconds, 60
  MaxSeconds,     \* bound on the clock
  MaxAttempts     \* bound on the requests

ASSUME LimiterAssumption ==
  /\ MaxLogins \in Nat \ {0} /\ WindowSeconds \in Nat \ {0}
  /\ MaxSeconds \in Nat /\ MaxAttempts \in Nat

VARIABLES
  seconds,     \* time.time() of all processes
  counted,     \* the key of the current window in Redis
  memoryStore, \* the stamps of each process; a number tells equal ones apart
  byRedis,     \* history: logins let pass in this window on Redis's count
  byMemory,    \* history: those let pass in it on a process's list since it runs
  attempts

limiterVars == <<seconds, counted, memoryStore, byRedis, byMemory, attempts>>

WindowOf(time) == time \div WindowSeconds

\* INCR and EXPIRE are one transaction.
Increment(k) == counted' = [counted EXCEPT ![k] = @ + 1]

Attempt == attempts < MaxAttempts /\ attempts' = attempts + 1

CountInRedis(k) ==
  /\ Attempt
  /\ Increment(k)
  /\ byRedis' = IF counted[k] + 1 <= MaxLogins THEN [byRedis EXCEPT ![k] = @ + 1] ELSE byRedis
  /\ UNCHANGED <<seconds, memoryStore, byMemory>>

Recent(store) == {e \in store : seconds - e.at < WindowSeconds}

\* The call raises, before Redis has counted or after it.  What is refused is
\* not added to the list.
CountInMemory(p, k) ==
  /\ Attempt
  /\ Increment(k) \/ UNCHANGED counted
  /\ LET recent == Recent(memoryStore[p][k]) IN
     IF Cardinality(recent) >= MaxLogins
     THEN /\ memoryStore' = [memoryStore EXCEPT ![p][k] = recent]
          /\ UNCHANGED byMemory
     ELSE /\ memoryStore' = [memoryStore EXCEPT ![p][k] =
                               recent \union {[at |-> seconds, number |-> attempts]}]
          /\ byMemory' = [byMemory EXCEPT ![p][k] = @ + 1]
  /\ UNCHANGED <<seconds, byRedis>>

\* The next window has a key of its own.
SecondPasses ==
  /\ seconds < MaxSeconds
  /\ seconds' = seconds + 1
  /\ IF WindowOf(seconds + 1) = WindowOf(seconds)
     THEN UNCHANGED <<counted, byRedis, byMemory>>
     ELSE /\ counted' = [k \in Clients |-> 0]
          /\ byRedis' = [k \in Clients |-> 0]
          /\ byMemory' = [p \in AuthProcesses |-> [k \in Clients |-> 0]]
  /\ UNCHANGED <<memoryStore, attempts>>

RestartAuth(p) ==
  /\ memoryStore' = [memoryStore EXCEPT ![p] = [k \in Clients |-> {}]]
  /\ byMemory' = [byMemory EXCEPT ![p] = [k \in Clients |-> 0]]
  /\ UNCHANGED <<seconds, counted, byRedis, attempts>>

LimiterInit ==
  /\ seconds = 0
  /\ counted = [k \in Clients |-> 0]
  /\ memoryStore = [p \in AuthProcesses |-> [k \in Clients |-> {}]]
  /\ byRedis = [k \in Clients |-> 0]
  /\ byMemory = [p \in AuthProcesses |-> [k \in Clients |-> 0]]
  /\ attempts = 0

LimiterNext ==
  \/ SecondPasses
  \/ \E k \in Clients :
       CountInRedis(k) \/ \E p \in AuthProcesses : CountInMemory(p, k)
  \/ \E p \in AuthProcesses : RestartAuth(p)

LimiterSpec == LimiterInit /\ [][LimiterNext]_limiterVars

LimiterTypeOK ==
  /\ seconds \in 0..MaxSeconds
  /\ counted \in [Clients -> Nat]
  /\ memoryStore \in [AuthProcesses -> [Clients -> SUBSET [at : Nat, number : Nat]]]
  /\ byRedis \in [Clients -> Nat]
  /\ byMemory \in [AuthProcesses -> [Clients -> Nat]]
  /\ attempts \in 0..MaxAttempts

\* In a window of the clock Redis lets at most the limit pass, whatever it has
\* counted of calls that raised, and each process, however often Redis comes
\* and goes, at most as many again: its list counts sixty seconds back and so
\* the whole window.
LoginsLimited ==
  \A k \in Clients :
    /\ byRedis[k] <= MaxLogins
    /\ \A p \in AuthProcesses : byMemory[p][k] <= MaxLogins

=============================================================================
