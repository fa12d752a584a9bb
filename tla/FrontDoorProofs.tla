---------------------------- MODULE FrontDoorProofs ----------------------------
(***************************************************************************)
(* The front door, for any bounds: the refresh tokens of a login, whatever *)
(* Redis fails at; how often a user may log in and how often a user passes *)
(* the gateway's limit, whatever the stores refuse and count; the types of *)
(* the four parts; and that what holds of each part holds of them together.*)
(***************************************************************************)
EXTENDS FrontDoor, GatewayProofs, SumTheorems, SequenceTheorems

Token == [login : Nat, active : BOOLEAN]

TokensTyped == tokens \in Seq(Token)

LoginsKnown == \A i \in Jtis : tokens[i].login <= Len(tokens)

TokenInv == TokensTyped /\ LoginsKnown /\ OneActivePerLogin

-----------------------------------------------------------------------------
\* A token of a login without another active one.
LEMMA RegisterKeeps ==
  ASSUME NEW ts \in Seq(Token), NEW login \in 0..Len(ts) + 1,
         \A i \in 1..Len(ts) : ts[i].login <= Len(ts),
         \A i, j \in 1..Len(ts) :
           ts[i].login = ts[j].login /\ ts[i].active /\ ts[j].active => i = j,
         \A i \in 1..Len(ts) : ts[i].login = login => ~ts[i].active,
         tokens' = Register(ts, login)
  PROVE  TokenInv'
<1>1. /\ tokens' \in Seq(Token)
      /\ Len(tokens') = Len(ts) + 1 /\ Len(ts) \in Nat
      /\ tokens'[Len(ts) + 1] = [login |-> login, active |-> TRUE]
      /\ \A i \in 1..Len(ts) : tokens'[i] = ts[i] /\ ts[i] \in Token
  <2> DEFINE new == [login |-> login, active |-> TRUE]
  <2>1. new \in Token
    BY DEF Token
  <2>2. tokens' = Append(ts, new)
    BY DEF Register
  <2> HIDE DEF new
  <2>3. /\ tokens' \in Seq(Token) /\ Len(tokens') = Len(ts) + 1 /\ Len(ts) \in Nat
        /\ tokens'[Len(ts) + 1] = new
        /\ \A i \in 1..Len(ts) : tokens'[i] = ts[i]
    BY <2>1, <2>2, AppendProperties
  <2>4. \A i \in 1..Len(ts) : ts[i] \in Token
    BY ElementOfSeq
  <2> QED
    BY <2>3, <2>4 DEF new
<1>2. \A i \in 1..Len(tokens') : i \in 1..Len(ts) \/ i = Len(ts) + 1
  BY <1>1
<1>3. LoginsKnown'
  <2> SUFFICES ASSUME NEW i \in 1..Len(tokens') PROVE tokens'[i].login <= Len(tokens')
    BY DEF LoginsKnown, Jtis
  <2>1. CASE i \in 1..Len(ts)
    <3>1. tokens'[i].login = ts[i].login /\ ts[i].login \in Nat /\ ts[i].login <= Len(ts)
      BY <1>1, <2>1 DEF Token
    <3> QED
      BY <1>1, <3>1
  <2>2. CASE i = Len(ts) + 1
    BY <1>1, <2>2
  <2> QED
    BY <1>2, <2>1, <2>2
<1>4. OneActivePerLogin'
  <2> SUFFICES ASSUME NEW i \in 1..Len(tokens'), NEW j \in 1..Len(tokens'),
                      tokens'[i].login = tokens'[j].login,
                      tokens'[i].active, tokens'[j].active
               PROVE  i = j
    BY DEF OneActivePerLogin, Jtis
  <2>1. CASE i \in 1..Len(ts) /\ j \in 1..Len(ts)
    BY <1>1, <2>1
  <2>2. CASE i = Len(ts) + 1 /\ j \in 1..Len(ts)
    BY <1>1, <2>2
  <2>3. CASE i \in 1..Len(ts) /\ j = Len(ts) + 1
    BY <1>1, <2>3
  <2> QED
    BY <1>2, <2>1, <2>2, <2>3
<1> QED
  BY <1>1, <1>3, <1>4 DEF TokenInv, TokensTyped

LEMMA NewLoginKeeps ==
  ASSUME TokenInv, tokens' = Register(tokens, NewLogin(tokens))
  PROVE  TokenInv'
<1>1. Len(tokens) \in Nat /\ Len(tokens) + 1 \in 0..Len(tokens) + 1
  BY DEF TokenInv, TokensTyped
<1>2. \A i \in 1..Len(tokens) : tokens[i].login # Len(tokens) + 1
  BY <1>1 DEF TokenInv, TokensTyped, LoginsKnown, Jtis
<1> QED
  BY <1>1, <1>2, RegisterKeeps DEF TokenInv, TokensTyped, LoginsKnown, OneActivePerLogin, Jtis,
     NewLogin

\* A token that stops working.
LEMMA RotatedKeeps ==
  ASSUME TokenInv, NEW jti \in Jtis, tokens[jti].active
  PROVE  LET ts == Rotated(tokens, jti) IN
         /\ ts \in Seq(Token) /\ Len(ts) = Len(tokens)
         /\ \A i \in 1..Len(ts) : ts[i].login = tokens[i].login
         /\ \A i \in 1..Len(ts) : ts[i].active => tokens[i].active /\ i # jti
<1> DEFINE ts == Rotated(tokens, jti)
<1>1. tokens \in Seq(Token) /\ jti \in 1..Len(tokens) /\ \A i \in 1..Len(tokens) : tokens[i] \in Token
  BY ElementOfSeq DEF TokenInv, TokensTyped, Jtis
<1> DEFINE spent == [tokens[jti] EXCEPT !.active = FALSE]
<1>2. spent \in Token /\ spent.login = tokens[jti].login /\ ~spent.active
  BY <1>1 DEF Token
<1>3. ts = [tokens EXCEPT ![jti] = spent]
  BY DEF Rotated
<1> HIDE DEF spent, ts
<1>4. /\ ts \in Seq(Token) /\ Len(ts) = Len(tokens)
      /\ \A i \in 1..Len(tokens) : ts[i] = IF i = jti THEN spent ELSE tokens[i]
  BY <1>1, <1>2, <1>3, ExceptSeq
<1>5. /\ \A i \in 1..Len(ts) : ts[i].login = tokens[i].login
      /\ \A i \in 1..Len(ts) : ts[i].active => tokens[i].active /\ i # jti
  BY <1>2, <1>4
<1> QED
  BY <1>4, <1>5 DEF ts

LEMMA ExpiredKeeps ==
  ASSUME TokenInv, NEW jti \in Jtis, tokens[jti].active, tokens' = Rotated(tokens, jti)
  PROVE  TokenInv'
BY RotatedKeeps, SMTT(30) DEF TokenInv, TokensTyped, LoginsKnown, OneActivePerLogin, Jtis

LEMMA RefreshKeeps ==
  ASSUME TokenInv, NEW jti \in Jtis, Refresh(jti)
  PROVE  TokenInv'
<1>1. CASE tokens' = Rotated(tokens, jti)
  BY <1>1, ExpiredKeeps DEF Refresh
<1>2. CASE tokens' = Register(Rotated(tokens, jti), tokens[jti].login)
  <2> DEFINE ts == Rotated(tokens, jti)
             login == tokens[jti].login
  <2>1. /\ ts \in Seq(Token) /\ Len(ts) = Len(tokens)
        /\ \A i \in 1..Len(ts) : ts[i].login = tokens[i].login
        /\ \A i \in 1..Len(ts) : ts[i].active => tokens[i].active /\ i # jti
    BY RotatedKeeps DEF Refresh
  <2>2. tokens[jti].active
    BY DEF Refresh
  <2> HIDE DEF ts
  <2>3. \A i \in 1..Len(ts) : ts[i].login = login => ~ts[i].active
    BY <2>1, <2>2 DEF TokenInv, OneActivePerLogin, Jtis
  <2>4. \A i, j \in 1..Len(ts) : ts[i].login = ts[j].login /\ ts[i].active /\ ts[j].active => i = j
    BY <2>1 DEF TokenInv, OneActivePerLogin, Jtis
  <2>5. /\ \A i \in 1..Len(ts) : ts[i].login <= Len(ts)
        /\ login <= Len(ts) /\ login \in Nat
    <3>1. tokens[jti] \in Token /\ \A i \in 1..Len(tokens) : tokens[i].login <= Len(tokens)
      BY ElementOfSeq DEF TokenInv, TokensTyped, LoginsKnown, Jtis
    <3> QED
      BY <2>1, <3>1 DEF Token, Jtis
  <2>6. login \in 0..Len(ts) + 1 /\ tokens' = Register(ts, login)
    BY <1>2, <2>1, <2>5 DEF ts
  <2> HIDE DEF login
  <2> QED
    BY <2>1, <2>3, <2>4, <2>5, <2>6, RegisterKeeps
<1> QED
  BY <1>1, <1>2 DEF Refresh

LEMMA SameTokens == ASSUME TokenInv, tokens' = tokens PROVE TokenInv'
BY DEF TokenInv, TokensTyped, LoginsKnown, OneActivePerLogin, Jtis

LEMMA InitTokens == SessionsInit => TokenInv
<1> SUFFICES ASSUME SessionsInit PROVE TokenInv
  OBVIOUS
<1>1. CASE tokens = <<>>
  BY <1>1 DEF TokenInv, TokensTyped, LoginsKnown, OneActivePerLogin, Jtis
<1>2. CASE tokens = Register(<<>>, 1)
  <2>1. tokens = <<[login |-> 1, active |-> TRUE]>>
    BY <1>2 DEF Register
  <2>2. [login |-> 1, active |-> TRUE] \in Token
    BY DEF Token
  <2>3. tokens \in Seq(Token) /\ Len(tokens) = 1 /\ tokens[1].login = 1
    BY <2>1, <2>2
  <2> QED
    BY <2>3 DEF TokenInv, TokensTyped, LoginsKnown, OneActivePerLogin, Jtis
<1> QED
  BY <1>1, <1>2 DEF SessionsInit

LEMMA NextTokens == TokenInv /\ [SessionsNext]_sessionVars => TokenInv'
<1> SUFFICES ASSUME TokenInv, [SessionsNext]_sessionVars PROVE TokenInv'
  OBVIOUS
<1>1. CASE Login
  BY <1>1, NewLoginKeeps DEF Login
<1>2. ASSUME NEW jti \in Jtis, Refresh(jti) PROVE TokenInv'
  BY <1>2, RefreshKeeps
<1>3. ASSUME NEW jti \in Jtis, Expire(jti) PROVE TokenInv'
  BY <1>3, ExpiredKeeps DEF Expire, Rotated
<1>4. ASSUME NEW a \in Activities, LoginAnswered(a) PROVE TokenInv'
  BY <1>4, NewLoginKeeps DEF LoginAnswered
<1>5. ASSUME NEW u, \E secret \in Secrets : SetUp2fa(u, secret) \/ Enable2fa(u, secret)
      PROVE  TokenInv'
  BY <1>5, SameTokens DEF SetUp2fa, Enable2fa, AccountsOnly
<1>6. ASSUME NEW u, CreateUser(u) \/ Disable2fa(u) PROVE TokenInv'
  BY <1>6, SameTokens DEF CreateUser, Disable2fa, AccountsOnly
<1>7. CASE Start \/ SubmitForm \/ Get \/ Logout \/ NetworkEvent
  BY <1>7, SameTokens DEF Start, SubmitForm, Get, Logout, NetworkEvent, ServerIdle
<1>8. ASSUME NEW a \in Activities, Answered(a) \/ Failed401(a) \/ FailedOtherwise(a) PROVE TokenInv'
  BY <1>8, SameTokens DEF Answered, Failed401, FailedOtherwise, ServerIdle
<1>9. ASSUME NEW a \in Activities, RefreshFails(a) PROVE TokenInv'
  BY <1>9, SameTokens DEF RefreshFails, ServerIdle
<1>10. CASE UNCHANGED sessionVars
  BY <1>10, SameTokens DEF sessionVars
<1> QED
  BY <1>1, <1>2, <1>3, <1>4, <1>5, <1>6, <1>7, <1>8, <1>9, <1>10 DEF SessionsNext

\* The invariant below the property of the refresh tokens.
THEOREM TokensInvariant == SessionsSpec => []TokenInv
  BY InitTokens, NextTokens, PTL DEF SessionsSpec

\* Rotation (refresh_access_token), for any logins and any failures of Redis
\* between its calls: one token of a login works at a time.
THEOREM OneActivePerLoginHolds == SessionsSpec => []OneActivePerLogin
  BY TokensInvariant, PTL DEF TokenInv

-----------------------------------------------------------------------------
(* LoginLimiter *)

Stamp == [at : Nat, number : Nat]

\* The stamps of the window of the clock at a time.
OfWindow(store, time) == {e \in store : WindowOf(e.at) = WindowOf(time)}

\* A list holds the n logins of the window, among others, and not too many.
ListOK(store, n, time, number) ==
  /\ store \subseteq Stamp /\ IsFiniteSet(store)
  /\ \A e \in store : e.at <= time /\ e.number < number
  /\ Cardinality(store) <= MaxLogins
  /\ n \in Nat /\ n <= Cardinality(OfWindow(store, time))

LimitInv ==
  /\ LimiterTypeOK
  /\ \A k \in Clients : byRedis[k] <= counted[k] /\ byRedis[k] <= MaxLogins
  /\ \A p \in AuthProcesses, k \in Clients :
       ListOK(memoryStore[p][k], byMemory[p][k], seconds, attempts)

\* Two times of one window are less than its length apart.
LEMMA WindowLength ==
  ASSUME NEW a \in Int, NEW b \in Int, WindowOf(a) = WindowOf(b)
  PROVE  b - a < WindowSeconds
<1> DEFINE q == a \div WindowSeconds
<1>1. WindowSeconds \in Int /\ WindowSeconds >= 1
  BY LimiterAssumption
<1>2. q * WindowSeconds <= a
  BY <1>1
<1>3. b < (b \div WindowSeconds) * WindowSeconds + WindowSeconds
  BY <1>1
<1> QED
  BY <1>1, <1>2, <1>3 DEF WindowOf

LEMMA EmptyList ==
  ASSUME NEW time, NEW number
  PROVE  ListOK({}, 0, time, number)
<1>1. OfWindow({}, time) = {}
  BY DEF OfWindow
<1> QED
  BY <1>1, FS_EmptySet, LimiterAssumption DEF ListOK

\* A list that is left alone while its window lasts, or whose window is over.
LEMMA ListStays ==
  ASSUME NEW time \in Nat, NEW later \in {time, time + 1}, NEW number \in Nat,
         NEW next \in {number, number + 1}, NEW store, NEW n, ListOK(store, n, time, number),
         NEW m, m = 0 \/ (m = n /\ WindowOf(later) = WindowOf(time))
  PROVE  ListOK(store, m, later, next)
<1>1. \A e \in store : e.at \in Nat /\ e.number \in Nat /\ e.at <= time /\ e.number < number
  BY DEF ListOK, Stamp
<1>2. \A e \in store : e.at <= later /\ e.number < next
  BY <1>1
<1>3. Cardinality(OfWindow(store, later)) \in Nat
  BY FS_Subset, FS_CardinalityType DEF ListOK, OfWindow
<1>4. WindowOf(later) = WindowOf(time) => OfWindow(store, later) = OfWindow(store, time)
  BY DEF OfWindow
<1> QED
  BY <1>2, <1>3, <1>4 DEF ListOK

\* What is dropped from a list for its age is not of the window.
LEMMA PrunedList ==
  ASSUME NEW time \in Nat, NEW number \in Nat, NEW store, NEW n, ListOK(store, n, time, number),
         NEW recent, recent = {e \in store : time - e.at < WindowSeconds}
  PROVE  ListOK(recent, n, time, number)
<1>1. \A e \in store : e.at \in Nat /\ e.at <= time
  BY DEF ListOK, Stamp
<1>2. OfWindow(recent, time) = OfWindow(store, time)
  <2>1. \A e \in store : WindowOf(e.at) = WindowOf(time) => time - e.at < WindowSeconds
    BY <1>1, WindowLength
  <2> QED
    BY <2>1 DEF OfWindow
<1>3. /\ IsFiniteSet(recent) /\ Cardinality(recent) <= Cardinality(store)
      /\ Cardinality(recent) \in Nat /\ Cardinality(store) \in Nat
  BY FS_Subset, FS_CardinalityType DEF ListOK
<1>4. Cardinality(recent) <= MaxLogins
  BY <1>3, LimiterAssumption DEF ListOK
<1> QED
  BY <1>2, <1>3, <1>4 DEF ListOK

LEMMA GrownList ==
  ASSUME NEW time \in Nat, NEW number \in Nat, NEW store, NEW n, ListOK(store, n, time, number),
         Cardinality(store) < MaxLogins
  PROVE  ListOK(store \union {[at |-> time, number |-> number]}, n + 1, time, number + 1)
<1> DEFINE e == [at |-> time, number |-> number]
           grown == store \union {e}
<1>1. e \in Stamp /\ e.at = time /\ e.number = number
  BY DEF Stamp
<1>2. /\ store \subseteq Stamp /\ IsFiniteSet(store) /\ n \in Nat
      /\ \A d \in store : d.at <= time /\ d.number < number /\ d.number \in Nat
      /\ n <= Cardinality(OfWindow(store, time))
  BY DEF ListOK, Stamp
<1> HIDE DEF e
<1>3. e \notin store
  BY <1>1, <1>2
<1>4. IsFiniteSet(grown) /\ Cardinality(grown) = Cardinality(store) + 1 /\ Cardinality(store) \in Nat
  BY <1>2, <1>3, FS_AddElement, FS_CardinalityType
<1>5. OfWindow(grown, time) = OfWindow(store, time) \union {e}
  BY <1>1 DEF OfWindow
<1>6. IsFiniteSet(OfWindow(store, time)) /\ e \notin OfWindow(store, time)
  BY <1>2, <1>3, FS_Subset DEF OfWindow
<1>7. /\ Cardinality(OfWindow(grown, time)) = Cardinality(OfWindow(store, time)) + 1
      /\ Cardinality(OfWindow(store, time)) \in Nat
  BY <1>5, <1>6, FS_AddElement, FS_CardinalityType
<1>8. \A d \in grown : d.at <= time /\ d.number < number + 1
  BY <1>1, <1>2
<1>9. Cardinality(grown) <= MaxLogins
  BY <1>4, LimiterAssumption
<1>10. n + 1 \in Nat /\ n + 1 <= Cardinality(OfWindow(grown, time))
  BY <1>2, <1>7
<1> QED
  BY <1>1, <1>2, <1>4, <1>8, <1>9, <1>10 DEF ListOK, e

LEMMA LimitStart == LimiterInit => LimitInv
<1> SUFFICES ASSUME LimiterInit PROVE LimitInv
  OBVIOUS
<1>1. LimiterTypeOK
  BY LimiterAssumption DEF LimiterInit, LimiterTypeOK
<1>2. \A p \in AuthProcesses, k \in Clients : memoryStore[p][k] = {} /\ byMemory[p][k] = 0
  BY DEF LimiterInit
<1> QED
  BY <1>1, <1>2, EmptyList, LimiterAssumption DEF LimiterInit, LimitInv, LimiterTypeOK

LEMMA CountInRedisKeeps ==
  ASSUME LimitInv, NEW k \in Clients, CountInRedis(k)
  PROVE  LimitInv'
<1>1. /\ attempts' \in 0..MaxAttempts /\ attempts' = attempts + 1 /\ seconds' = seconds
      /\ seconds \in Nat /\ attempts \in Nat /\ memoryStore' = memoryStore /\ byMemory' = byMemory
  BY LimiterAssumption DEF CountInRedis, Attempt, LimitInv, LimiterTypeOK
<1>2. \A p \in AuthProcesses, j \in Clients :
        ListOK(memoryStore[p][j], byMemory[p][j], seconds, attempts + 1)
  BY <1>1, ListStays DEF LimitInv, LimiterTypeOK
<1>3. counted' \in [Clients -> Nat] /\ byRedis' \in [Clients -> Nat]
  BY DEF LimitInv, LimiterTypeOK, CountInRedis, Increment
<1>4. \A j \in Clients : byRedis'[j] <= counted'[j] /\ byRedis'[j] <= MaxLogins
  <2> SUFFICES ASSUME NEW j \in Clients PROVE byRedis'[j] <= counted'[j] /\ byRedis'[j] <= MaxLogins
    OBVIOUS
  <2>1. /\ byRedis[j] <= counted[j] /\ byRedis[j] <= MaxLogins
        /\ byRedis[j] \in Nat /\ counted[j] \in Nat /\ counted[k] \in Nat
    BY DEF LimitInv, LimiterTypeOK
  <2>2. counted'[j] = IF j = k THEN counted[j] + 1 ELSE counted[j]
    BY DEF CountInRedis, Increment, LimitInv, LimiterTypeOK
  <2>3. byRedis'[j] = IF j = k /\ counted[k] + 1 <= MaxLogins THEN byRedis[j] + 1 ELSE byRedis[j]
    BY DEF CountInRedis, LimitInv, LimiterTypeOK
  <2> QED
    BY <2>1, <2>2, <2>3, LimiterAssumption
<1> QED
  BY <1>1, <1>2, <1>3, <1>4 DEF LimitInv, LimiterTypeOK

LEMMA CountInMemoryKeeps ==
  ASSUME LimitInv, NEW q \in AuthProcesses, NEW k \in Clients, CountInMemory(q, k)
  PROVE  LimitInv'
<1>1. /\ attempts' \in 0..MaxAttempts /\ attempts' = attempts + 1 /\ seconds' = seconds
      /\ seconds \in Nat /\ attempts \in Nat /\ byRedis' = byRedis
  BY LimiterAssumption DEF CountInMemory, Attempt, LimitInv, LimiterTypeOK
<1>2. /\ counted' \in [Clients -> Nat]
      /\ \A j \in Clients : byRedis'[j] <= counted'[j] /\ byRedis'[j] <= MaxLogins
  <2>1. \A j \in Clients : counted[j] \in Nat /\ byRedis[j] \in Nat
    BY DEF LimitInv, LimiterTypeOK
  <2>2. CASE Increment(k)
    BY <1>1, <2>1, <2>2 DEF LimitInv, LimiterTypeOK, Increment
  <2>3. CASE UNCHANGED counted
    BY <1>1, <2>3 DEF LimitInv, LimiterTypeOK
  <2> QED
    BY <2>2, <2>3 DEF CountInMemory
<1>3. \A p \in AuthProcesses, j \in Clients :
        ListOK(memoryStore[p][j], byMemory[p][j], seconds, attempts + 1)
  BY <1>1, ListStays DEF LimitInv, LimiterTypeOK
<1> DEFINE recent == {e \in memoryStore[q][k] : seconds - e.at < WindowSeconds}
<1>4. Recent(memoryStore[q][k]) = recent
  BY DEF Recent
<1>5. ListOK(recent, byMemory[q][k], seconds, attempts)
  BY <1>1, PrunedList DEF LimitInv, LimiterTypeOK
<1> HIDE DEF recent
<1>6. \E s, n : /\ memoryStore' = [memoryStore EXCEPT ![q][k] = s]
                /\ byMemory' = [byMemory EXCEPT ![q][k] = n]
                /\ ListOK(s, n, seconds, attempts + 1)
  <2>1. CASE Cardinality(recent) >= MaxLogins
    <3>1. memoryStore' = [memoryStore EXCEPT ![q][k] = recent] /\ byMemory' = byMemory
      BY <1>4, <2>1 DEF CountInMemory
    <3>2. byMemory' = [byMemory EXCEPT ![q][k] = byMemory[q][k]]
      BY <3>1 DEF LimitInv, LimiterTypeOK
    <3>3. ListOK(recent, byMemory[q][k], seconds, attempts + 1)
      BY <1>1, <1>5, ListStays
    <3> QED
      BY <3>1, <3>2, <3>3
  <2>2. CASE ~(Cardinality(recent) >= MaxLogins)
    <3>1. Cardinality(recent) \in Nat
      BY <1>5, FS_CardinalityType DEF ListOK
    <3>2. Cardinality(recent) < MaxLogins
      BY <2>2, <3>1, LimiterAssumption
    <3>3. ListOK(recent \union {[at |-> seconds, number |-> attempts]}, byMemory[q][k] + 1,
                 seconds, attempts + 1)
      BY <1>1, <1>5, <3>2, GrownList
    <3>4. /\ memoryStore' = [memoryStore EXCEPT ![q][k] =
                               recent \union {[at |-> seconds, number |-> attempts]}]
          /\ byMemory' = [byMemory EXCEPT ![q][k] = byMemory[q][k] + 1]
      BY <1>4, <2>2 DEF CountInMemory
    <3> QED
      BY <3>3, <3>4
  <2> QED
    BY <2>1, <2>2
<1>7. /\ memoryStore' \in [AuthProcesses -> [Clients -> SUBSET Stamp]]
      /\ byMemory' \in [AuthProcesses -> [Clients -> Nat]]
      /\ \A p \in AuthProcesses, j \in Clients :
           ListOK(memoryStore'[p][j], byMemory'[p][j], seconds, attempts + 1)
  <2>1. PICK s, n : /\ memoryStore' = [memoryStore EXCEPT ![q][k] = s]
                    /\ byMemory' = [byMemory EXCEPT ![q][k] = n]
                    /\ ListOK(s, n, seconds, attempts + 1)
    BY <1>6
  <2>2. s \in SUBSET Stamp /\ n \in Nat
    BY <2>1 DEF ListOK
  <2>3. /\ memoryStore' \in [AuthProcesses -> [Clients -> SUBSET Stamp]]
        /\ byMemory' \in [AuthProcesses -> [Clients -> Nat]]
    BY <2>1, <2>2 DEF LimitInv, LimiterTypeOK, Stamp
  <2>4. \A p \in AuthProcesses, j \in Clients :
          IF p = q /\ j = k THEN memoryStore'[p][j] = s /\ byMemory'[p][j] = n
          ELSE memoryStore'[p][j] = memoryStore[p][j] /\ byMemory'[p][j] = byMemory[p][j]
    BY <2>1 DEF LimitInv, LimiterTypeOK
  <2> QED
    BY <1>3, <2>1, <2>3, <2>4
<1> QED
  BY <1>1, <1>2, <1>7 DEF LimitInv, LimiterTypeOK, Stamp

LEMMA SecondPassesKeeps == LimitInv /\ SecondPasses => LimitInv'
<1> SUFFICES ASSUME LimitInv, SecondPasses PROVE LimitInv'
  OBVIOUS
<1>1. /\ seconds' \in 0..MaxSeconds /\ seconds' = seconds + 1 /\ seconds \in Nat
      /\ attempts' = attempts /\ attempts \in Nat /\ memoryStore' = memoryStore
  BY LimiterAssumption DEF SecondPasses, LimitInv, LimiterTypeOK
<1>2. \A p \in AuthProcesses, k \in Clients :
        /\ ListOK(memoryStore[p][k], 0, seconds + 1, attempts)
        /\ WindowOf(seconds + 1) = WindowOf(seconds) =>
             ListOK(memoryStore[p][k], byMemory[p][k], seconds + 1, attempts)
  BY <1>1, ListStays DEF LimitInv, LimiterTypeOK
<1>3. CASE WindowOf(seconds + 1) = WindowOf(seconds)
  <2>1. UNCHANGED <<counted, byRedis, byMemory>>
    BY <1>3 DEF SecondPasses
  <2> QED
    BY <1>1, <1>2, <1>3, <2>1 DEF LimitInv, LimiterTypeOK
<1>4. CASE WindowOf(seconds + 1) # WindowOf(seconds)
  <2>1. /\ counted' = [k \in Clients |-> 0] /\ byRedis' = [k \in Clients |-> 0]
        /\ byMemory' = [p \in AuthProcesses |-> [k \in Clients |-> 0]]
    BY <1>4 DEF SecondPasses
  <2>2. \A p \in AuthProcesses :
          byMemory'[p] \in [Clients -> Nat] /\ \A k \in Clients : byMemory'[p][k] = 0
    BY <2>1
  <2> QED
    BY <1>1, <1>2, <2>1, <2>2, LimiterAssumption DEF LimitInv, LimiterTypeOK
<1> QED
  BY <1>3, <1>4

LEMMA RestartAuthKeeps ==
  ASSUME LimitInv, NEW q \in AuthProcesses, RestartAuth(q)
  PROVE  LimitInv'
<1>1. /\ UNCHANGED <<seconds, counted, byRedis, attempts>>
      /\ memoryStore' = [memoryStore EXCEPT ![q] = [k \in Clients |-> {}]]
      /\ byMemory' = [byMemory EXCEPT ![q] = [k \in Clients |-> 0]]
  BY DEF RestartAuth
<1>2. /\ memoryStore' \in [AuthProcesses -> [Clients -> SUBSET [at : Nat, number : Nat]]]
      /\ byMemory' \in [AuthProcesses -> [Clients -> Nat]]
  BY <1>1 DEF LimitInv, LimiterTypeOK
<1>3. \A p \in AuthProcesses, k \in Clients :
        ListOK(memoryStore'[p][k], byMemory'[p][k], seconds, attempts)
  <2> SUFFICES ASSUME NEW p \in AuthProcesses, NEW k \in Clients
               PROVE  ListOK(memoryStore'[p][k], byMemory'[p][k], seconds, attempts)
    OBVIOUS
  <2>1. CASE p = q
    <3>1. memoryStore'[p][k] = {} /\ byMemory'[p][k] = 0
      BY <1>1, <2>1 DEF LimitInv, LimiterTypeOK
    <3> QED
      BY <3>1, EmptyList
  <2>2. CASE p # q
    <3>1. memoryStore'[p][k] = memoryStore[p][k] /\ byMemory'[p][k] = byMemory[p][k]
      BY <1>1, <2>2 DEF LimitInv, LimiterTypeOK
    <3> QED
      BY <3>1 DEF LimitInv, LimiterTypeOK
  <2> QED
    BY <2>1, <2>2
<1> QED
  BY <1>1, <1>2, <1>3 DEF LimitInv, LimiterTypeOK

LEMMA LimitStep == LimitInv /\ [LimiterNext]_limiterVars => LimitInv'
<1>1. LimitInv /\ UNCHANGED limiterVars => LimitInv'
  BY DEF LimitInv, LimiterTypeOK, limiterVars
<1> QED
  BY <1>1, CountInRedisKeeps, CountInMemoryKeeps, SecondPassesKeeps, RestartAuthKeeps DEF LimiterNext

\* The invariant of the limiter: the logins a list has let pass in the window
\* of the clock are still in it.
THEOREM LimitInvariant == LimiterSpec => []LimitInv
  BY LimitStart, LimitStep, PTL DEF LimiterSpec

\* check_rate_limit: Redis lets the limit pass in a window and so does each
\* process, for any clients and processes, however Redis fails.
THEOREM LoginsLimitedHolds == LimiterSpec => []LoginsLimited
<1>1. LimitInv => LoginsLimited
  <2> SUFFICES ASSUME LimitInv, NEW p \in AuthProcesses, NEW k \in Clients
               PROVE  byMemory[p][k] <= MaxLogins
    BY DEF LimitInv, LimiterTypeOK, LoginsLimited
  <2> DEFINE store == memoryStore[p][k]
  <2>1. ListOK(store, byMemory[p][k], seconds, attempts)
    BY DEF LimitInv, LimiterTypeOK
  <2>2. /\ Cardinality(OfWindow(store, seconds)) <= Cardinality(store)
        /\ Cardinality(OfWindow(store, seconds)) \in Nat /\ Cardinality(store) \in Nat
    BY <2>1, FS_Subset, FS_CardinalityType DEF ListOK, OfWindow
  <2> QED
    BY <2>1, <2>2, LimiterAssumption DEF ListOK
<1> QED
  BY <1>1, LimitInvariant, PTL

-----------------------------------------------------------------------------
(* Types: Gateway *)

WindowsTyped ==
  /\ hits \in [Stores -> [Users -> [Levels -> Window(LimitWindow)]]]
  /\ seen \in [Callers -> Window(HitWindow)]
  /\ passed \in [Users -> Window(LimitWindow)]

LEMMA AnotherTyped ==
  ASSUME NEW size \in Nat \ {0}, NEW w \in Window(size)
  PROVE  Another(w) \in Window(size) /\ Aged(w) \in Window(size)
<1>1. 0 \in 0..size - 1 /\ w \in [0..size - 1 -> Nat] /\ w[0] + 1 \in Nat
  BY DEF Window
<1>2. \A age \in 0..size - 1 : age # 0 => age - 1 \in 0..size - 1
  OBVIOUS
<1> QED
  BY <1>1, <1>2 DEF Window, Another, Aged

LEMMA CountedTyped ==
  ASSUME NEW h \in [Stores -> [Users -> [Levels -> Window(LimitWindow)]]],
         NEW s \in Stores, NEW u \in Users, NEW l \in Levels, NEW limit
  PROVE  Counted(h, s, u, l, limit) \in [Stores -> [Users -> [Levels -> Window(LimitWindow)]]]
<1>1. Another(h[s][u][l]) \in Window(LimitWindow)
  BY AnotherTyped, WindowsAssumption
<1> HIDE DEF Window
<1>2. [h EXCEPT ![s][u][l] = Another(@)] \in [Stores -> [Users -> [Levels -> Window(LimitWindow)]]]
  BY <1>1
<1> QED
  BY <1>2 DEF Counted

LEMMA RateLimitTyped ==
  ASSUME WindowsTyped, NEW g \in Replicas, NEW u \in Users, NEW p \in Paths,
         NEW write \in BOOLEAN, NEW ok \in BOOLEAN, RateLimit(g, u, p, write, ok), seen' = seen
  PROVE  WindowsTyped'
<1> DEFINE H == [Stores -> [Users -> [Levels -> Window(LimitWindow)]]]
<1>1. PICK s \in Counters(g), e \in Counters(g) :
        LET first == Counted(hits, s, u, Service, ServiceLimit)
            limit == EndpointLimit(write)
        IN \/ hits' = first /\ UNCHANGED passed
           \/ /\ hits' = Counted(first, e, u, <<p, write>>, limit)
              /\ passed' = [passed EXCEPT ![u] = Another(@)]
  BY DEF RateLimit
<1>2. s \in Stores /\ e \in Stores /\ Service \in Levels /\ <<p, write>> \in Levels
  BY DEF Stores, Levels
<1>3. Counted(hits, s, u, Service, ServiceLimit) \in H
  BY <1>2, CountedTyped DEF WindowsTyped
<1>4. Counted(Counted(hits, s, u, Service, ServiceLimit), e, u, <<p, write>>, EndpointLimit(write)) \in H
  BY <1>2, <1>3, CountedTyped
<1>5. hits' \in H
  BY <1>1, <1>3, <1>4
<1>6. passed' \in [Users -> Window(LimitWindow)]
  <2>1. Another(passed[u]) \in Window(LimitWindow)
    BY AnotherTyped, WindowsAssumption DEF WindowsTyped
  <2> QED
    BY <1>1, <2>1 DEF WindowsTyped
<1> QED
  BY <1>5, <1>6 DEF WindowsTyped

LEMMA GatewayStart == GatewayInit => GatewayTypeOK
<1> SUFFICES ASSUME GatewayInit PROVE GatewayTypeOK
  OBVIOUS
<1>1. NoHits(LimitWindow) \in Window(LimitWindow) /\ NoHits(HitWindow) \in Window(HitWindow)
  BY DEF NoHits, Window
<1>2. written \in [Paths -> Seq(0..clock)]
  BY EmptySeq DEF GatewayInit
<1> QED
  BY <1>1, <1>2, GatewayBounds DEF GatewayInit, GatewayTypeOK

\* What a step does to the cache: entries go, and one may come.
LEMMA CacheTyped ==
  ASSUME cache \in [Replicas -> [Keys -> Entry \union {Nothing}]],
         NEW g \in Replicas, NEW k \in Keys, NEW e \in Entry
  PROVE  /\ SetEntry(g, k, e) => cache' \in [Replicas -> [Keys -> Entry \union {Nothing}]]
         /\ Dropped(g, k) \in [Replicas -> [Keys -> Entry \union {Nothing}]]
<1>1. Victims(g) \subseteq Keys
  BY DEF Victims, Entries
<1>2. ASSUME NEW v \in Keys
      PROVE  [cache EXCEPT ![g][v] = Nothing, ![g][k] = e] \in [Replicas -> [Keys -> Entry \union {Nothing}]]
  OBVIOUS
<1>3. [cache EXCEPT ![g][k] = e] \in [Replicas -> [Keys -> Entry \union {Nothing}]]
  OBVIOUS
<1>4. [cache EXCEPT ![g][k] = Nothing] \in [Replicas -> [Keys -> Entry \union {Nothing}]]
  OBVIOUS
<1>5. ASSUME SetEntry(g, k, e) PROVE cache' \in [Replicas -> [Keys -> Entry \union {Nothing}]]
  <2>1. CASE cache' = [cache EXCEPT ![g][k] = e]
    BY <1>3, <2>1
  <2>2. ASSUME NEW v \in Victims(g), cache' = [cache EXCEPT ![g][v] = Nothing, ![g][k] = e]
        PROVE  cache' \in [Replicas -> [Keys -> Entry \union {Nothing}]]
    BY <1>1, <1>2, <2>2
  <2> QED
    BY <1>5, <2>1, <2>2 DEF SetEntry
<1>6. Dropped(g, k) \in {cache, [cache EXCEPT ![g][k] = Nothing]}
  BY DEF Dropped
<1> QED
  BY <1>4, <1>5, <1>6

LEMMA ArriveTyped ==
  ASSUME GatewayTypeOK, NEW r \in Requests, NEW g \in Replicas, NEW u \in Users, NEW p \in Paths,
         NEW write \in BOOLEAN, Arrive(r, g, u, p, write)
  PROVE  GatewayTypeOK'
<1>1. /\ clock' = clock /\ written' = written /\ seen' = seen /\ clock \in Int
      /\ arrivals' \in 0..MaxArrivals
  BY GatewayBounds DEF Arrive, GatewayTypeOK
<1>2. WindowsTyped'
  BY RateLimitTyped DEF Arrive, GatewayTypeOK, WindowsTyped
<1>3. Key(p, u) \in Keys
  BY DEF Key, Keys
<1>4. cache' \in [Replicas -> [Keys -> Entry \union {Nothing}]]
  <2>1. cache' = cache \/ cache' = Dropped(g, Key(p, u))
    BY DEF Arrive
  <2>2. Dropped(g, Key(p, u)) \in [Replicas -> [Keys -> Entry \union {Nothing}]]
    <3>1. CASE Entry = {}
      BY <1>3, <3>1 DEF GatewayTypeOK, Dropped, Hit
    <3>2. CASE Entry # {}
      BY <1>3, <3>2, CacheTyped DEF GatewayTypeOK
    <3> QED
      BY <3>1, <3>2
  <2> QED
    BY <2>1, <2>2 DEF GatewayTypeOK
<1>5. request' \in [Requests -> Request \union {Nothing}]
  <2> DEFINE x == [at |-> g, user |-> u, path |-> p, write |-> write,
                   since |-> clock, phase |-> "sent", version |-> 0]
  <2>1. x \in Request
    BY <1>1 DEF Request
  <2>2. request' = request \/ request' = [request EXCEPT ![r] = x]
    BY DEF Arrive
  <2> HIDE DEF x
  <2> QED
    BY <2>1, <2>2 DEF GatewayTypeOK
<1>6. answer' \in Answer \union {Nothing}
  <2> DEFINE e == cache[g][Key(p, u)]
  <2>1. CASE answer' = answer
    BY <2>1 DEF GatewayTypeOK
  <2>2. CASE /\ Hit(g, Key(p, u))
             /\ answer' = [user |-> u, path |-> p, version |-> e.version, by |-> e.by, at |-> clock]
    <3>1. e \in Entry
      BY <1>3, <2>2 DEF Hit, GatewayTypeOK
    <3> QED
      BY <1>1, <2>2, <3>1 DEF Entry, Answer
  <2> QED
    BY <2>1, <2>2 DEF Arrive
<1> QED
  BY <1>1, <1>2, <1>4, <1>5, <1>6 DEF GatewayTypeOK, WindowsTyped

LEMMA ServeTyped ==
  ASSUME GatewayTypeOK, NEW r \in Requests, Serve(r)
  PROVE  GatewayTypeOK'
<1> DEFINE x == request[r]
<1>1. x \in Request
  BY DEF Serve, GatewayTypeOK
<1>2. x.path \in Paths /\ written[x.path] \in Seq(0..clock) /\ clock \in 0..clock
  BY <1>1 DEF Request, GatewayTypeOK
<1>3. Append(written[x.path], clock) \in Seq(0..clock) /\ Len(written[x.path]) \in Nat
  BY <1>2, AppendProperties, LenProperties
<1>4. written' \in [Paths -> Seq(0..clock)]
  BY <1>3 DEF Serve, GatewayTypeOK
<1>5. [x EXCEPT !.phase = "answered", !.version = Len(written[x.path])] \in Request
  BY <1>1, <1>3 DEF Request
<1>6. request' = [request EXCEPT ![r] = [x EXCEPT !.phase = "answered", !.version = Len(written[x.path])]]
  BY DEF Serve, GatewayTypeOK
<1>7. request' \in [Requests -> Request \union {Nothing}]
  BY <1>5, <1>6 DEF GatewayTypeOK
<1> QED
  BY <1>4, <1>7 DEF Serve, GatewayTypeOK

LEMMA FinishTyped ==
  ASSUME GatewayTypeOK, NEW r \in Requests, Finish(r)
  PROVE  GatewayTypeOK'
<1> DEFINE x == request[r]
           e == [version |-> x.version, by |-> x.user, expires |-> clock + Ttl]
           a == [user |-> x.user, path |-> x.path, version |-> x.version, by |-> x.user, at |-> clock]
<1>1. x \in Request
  BY DEF Finish, GatewayTypeOK
<1>2. clock \in Int /\ clock + Ttl \in Int
  BY TimesAssumption DEF GatewayTypeOK
<1>3. e \in Entry /\ a \in Answer /\ x.at \in Replicas /\ Key(x.path, x.user) \in Keys /\ x.user \in Users
  BY <1>1, <1>2 DEF Request, Entry, Answer, Key, Keys
<1>4. seen' \in [Callers -> Window(HitWindow)]
  <2>1. PICK ip \in Addresses :
          seen' = [seen EXCEPT ![<<"ip", ip>>] = Another(@), ![<<"user", x.user>>] = Another(@)]
    BY DEF Finish
  <2>2. <<"ip", ip>> \in Callers /\ <<"user", x.user>> \in Callers
    BY <1>3 DEF Callers
  <2>3. \A w \in Window(HitWindow) : Another(w) \in Window(HitWindow)
    BY AnotherTyped, WindowsAssumption
  <2> QED
    BY <2>1, <2>2, <2>3 DEF GatewayTypeOK
<1>5. \/ UNCHANGED <<cache, answer>>
      \/ SetEntry(x.at, Key(x.path, x.user), e) /\ answer' = a
  BY DEF Finish
<1> HIDE DEF e, a
<1>6. cache' \in [Replicas -> [Keys -> Entry \union {Nothing}]] /\ answer' \in Answer \union {Nothing}
  BY <1>3, <1>5, CacheTyped DEF GatewayTypeOK
<1> QED
  BY <1>4, <1>6 DEF Finish, GatewayTypeOK

LEMMA TickTyped == GatewayTypeOK /\ Tick => GatewayTypeOK'
<1> SUFFICES ASSUME GatewayTypeOK, Tick PROVE GatewayTypeOK'
  OBVIOUS
<1>1. clock' = clock + 1 /\ clock \in Nat /\ clock' \in 0..MaxClock
  BY GatewayBounds DEF Tick, GatewayTypeOK
<1>2. written' \in [Paths -> Seq(0..clock')]
  <2>1. 0..clock \subseteq 0..clock'
    BY <1>1
  <2>2. \A p \in Paths : written[p] \in Seq(0..clock')
    BY <2>1, SeqMonotonic DEF GatewayTypeOK
  <2> QED
    BY <2>2 DEF Tick, GatewayTypeOK
<1>3. WindowsTyped'
  <2>1. \A w \in Window(LimitWindow) : Aged(w) \in Window(LimitWindow)
    BY AnotherTyped, WindowsAssumption
  <2>2. \A w \in Window(HitWindow) : Aged(w) \in Window(HitWindow)
    BY AnotherTyped, WindowsAssumption
  <2> QED
    BY <2>1, <2>2 DEF Tick, GatewayTypeOK, WindowsTyped
<1> QED
  BY <1>1, <1>2, <1>3 DEF Tick, GatewayTypeOK, WindowsTyped

LEMMA GatewayTypes == GatewayTypeOK /\ [GatewayNext]_gatewayVars => GatewayTypeOK'
<1> SUFFICES ASSUME GatewayTypeOK, [GatewayNext]_gatewayVars PROVE GatewayTypeOK'
  OBVIOUS
<1>1. ASSUME NEW r \in Requests, Fail(r) PROVE GatewayTypeOK'
  BY <1>1 DEF Fail, GatewayTypeOK
<1>2. ASSUME NEW g \in Replicas, Invalidate(g) PROVE GatewayTypeOK'
  BY <1>2 DEF Invalidate, GatewayTypeOK
<1>3. CASE UNCHANGED gatewayVars
  BY <1>3 DEF gatewayVars, GatewayTypeOK
<1> QED
  BY <1>1, <1>2, <1>3, ArriveTyped, ServeTyped, FinishTyped, TickTyped DEF GatewayNext

-----------------------------------------------------------------------------
(* Types: RealtimeStream, beyond what its invariants say *)

StreamBounded ==
  /\ page.stray \in 0..MaxTimers
  /\ sender \in {"none", "waiting", "fetching"}
  /\ pushed \in 0..MaxPushes /\ shown >= 0

StreamInv == PageInv /\ QueueInv /\ StreamBounded

\* The functions of the page that do not touch its timers of SSE.
LEMMA StrayKept ==
  ASSUME NEW p \in Pages, p.stray \in 0..MaxTimers, NEW ok \in BOOLEAN
  PROVE  /\ Cleaned(p).stray \in 0..MaxTimers /\ FallBackToLocal(p).stray \in 0..MaxTimers
         /\ TrySSEFallback(p, ok).stray \in 0..MaxTimers
         /\ ConnectWebSocket(p, ok).stray \in 0..MaxTimers /\ OnClose(p, ok).stray \in 0..MaxTimers
BY DEF Pages, Cleaned, FallBackToLocal, TrySSEFallback, ConnectWebSocket, OnClose, ScheduleWsRetry

LEMMA StreamCounts == StreamInv /\ [StreamNext]_streamVars =>
                        sender' \in {"none", "waiting", "fetching"} /\ pushed' \in 0..MaxPushes /\ shown' >= 0
<1> SUFFICES ASSUME StreamInv, [StreamNext]_streamVars
             PROVE  sender' \in {"none", "waiting", "fetching"} /\ pushed' \in 0..MaxPushes /\ shown' >= 0
  OBVIOUS
<1>1. /\ sender \in {"none", "waiting", "fetching"} /\ pushed \in 0..MaxPushes
      /\ shown \in Int /\ shown >= 0 /\ queue \in Seq(Int)
  BY DEF StreamInv, StreamBounded, QueueInv
<1>2. CASE SendPushed
  <2>1. queue # <<>> => Head(queue) = queue[1] /\ Len(queue) \in Nat \ {0}
    BY <1>1, HeadTailProperties, EmptySeq
  <2>2. queue # <<>> => Head(queue) = pushed - Len(queue) + 1 /\ shown + Len(queue) <= pushed
    BY <2>1 DEF StreamInv, QueueInv
  <2>3. Head(queue) >= 0
    BY <1>1, <1>2, <2>1, <2>2 DEF SendPushed
  <2> QED
    BY <1>1, <1>2, <2>3 DEF SendPushed
<1>3. CASE Publish \/ FetchSnapshot \/ SendSnapshot \/ Unsubscribe \/ SocketOpens
  BY <1>1, <1>3, StreamBounds DEF Publish, FetchSnapshot, SendSnapshot, Unsubscribe, SocketOpens
<1>4. CASE UNCHANGED <<sender, pushed, shown>>
  BY <1>1, <1>4
<1> QED
  BY <1>2, <1>3, <1>4 DEF StreamNext, SocketFails, SocketCloses, SseSnapshot, SseFails, WsTimer,
     SseTimer, GiveUpTimer, StopStream, Unheard, streamVars

LEMMA StreamStray == StreamInv /\ [StreamNext]_streamVars => page'.stray \in 0..MaxTimers
<1> SUFFICES ASSUME StreamInv, [StreamNext]_streamVars PROVE page'.stray \in 0..MaxTimers
  OBVIOUS
<1>1. page \in Pages /\ page.stray \in 0..MaxTimers
  BY DEF StreamInv, StreamBounded, PageInv, Calm
<1>2. CASE page' = page
  BY <1>1, <1>2
<1>3. CASE SocketOpens \/ SseSnapshot
  BY <1>1, <1>3 DEF SocketOpens, SseSnapshot, Pages
<1> DEFINE failed == [page EXCEPT !.socket = "failed"]
           over == [page EXCEPT !.zombie = FALSE]
           tried == [page EXCEPT !.wsRetry = FALSE]
           retried == [page EXCEPT !.sseRetry = FALSE]
           fewer == [page EXCEPT !.stray = @ - 1]
           given_up == [page EXCEPT !.giveUp = FALSE]
<1>a. \A p \in {page, failed, over, tried, retried, given_up} : p \in Pages /\ p.stray \in 0..MaxTimers
  BY <1>1 DEF Pages
<1>b. page.stray > 0 => fewer \in Pages /\ fewer.stray \in 0..MaxTimers
  BY <1>1, StreamBounds DEF Pages
<1>4. CASE SocketFails
  <2>1. PICK ok \in BOOLEAN : page' \in {TrySSEFallback(failed, ok), TrySSEFallback(page, ok)}
    BY <1>4 DEF SocketFails
  <2> HIDE DEF failed
  <2> QED
    BY <1>a, <2>1, StrayKept
<1>5. CASE SocketCloses
  <2>1. PICK ok \in BOOLEAN : page' \in {OnClose(page, ok), OnClose(over, ok)}
    BY <1>5 DEF SocketCloses
  <2> HIDE DEF over
  <2> QED
    BY <1>a, <2>1, StrayKept
<1>6. CASE SseFails
  <2> DEFINE r == [page EXCEPT !.sse = "none"]
  <2>1. r \in Pages /\ r.stray = page.stray
    BY <1>1 DEF Pages
  <2> HIDE DEF r
  <2>2. ScheduleSseRetry(r).stray \in Int /\ ScheduleSseRetry(r).stray >= 0
    BY <1>1, <2>1 DEF ScheduleSseRetry, Pages
  <2> QED
    BY <1>6, <2>2, StreamBounds DEF SseFails, r
<1>7. CASE WsTimer
  <2>1. PICK ok \in BOOLEAN : page' = ConnectWebSocket(tried, ok)
    BY <1>7 DEF WsTimer
  <2> HIDE DEF tried
  <2> QED
    BY <1>a, <2>1, StrayKept
<1>8. CASE SseTimer
  <2>1. PICK ok \in BOOLEAN :
          \/ page' = TrySSEFallback([page EXCEPT !.sseRetry = FALSE], ok)
          \/ (page.stray > 0 /\ page' = TrySSEFallback([page EXCEPT !.stray = @ - 1], ok))
    BY <1>8 DEF SseTimer
  <2>2. page' = TrySSEFallback(retried, ok) \/ (page.stray > 0 /\ page' = TrySSEFallback(fewer, ok))
    BY <2>1
  <2> HIDE DEF retried, fewer
  <2> QED
    BY <1>a, <1>b, <2>2, StrayKept
<1>9. CASE GiveUpTimer
  <2>1. page' = FallBackToLocal(given_up)
    BY <1>9 DEF GiveUpTimer
  <2> HIDE DEF given_up
  <2> QED
    BY <1>a, <2>1, StrayKept
<1>10. CASE StopStream
  <2>1. Cleaned(page) \in Pages /\ Cleaned(page).stray \in 0..MaxTimers
    BY <1>1, CleanedQuiet, StrayKept
  <2> QED
    BY <1>1, <1>10, <2>1 DEF StopStream, Pages
<1> QED
  BY <1>2, <1>3, <1>4, <1>5, <1>6, <1>7, <1>8, <1>9, <1>10 DEF StreamNext, Publish, SendPushed,
     FetchSnapshot, SendSnapshot, Unsubscribe, streamVars

LEMMA StreamTypes == StreamInv /\ [StreamNext]_streamVars => StreamInv'
  BY PageStep, QueueStep, StreamCounts, StreamStray DEF StreamInv, StreamBounded

LEMMA StreamStart == StreamInit => StreamInv
<1> SUFFICES ASSUME StreamInit PROVE StreamInv
  OBVIOUS
<1>1. ASSUME NEW isLocal \in BOOLEAN PROVE Fresh(isLocal) \in Pages /\ Fresh(isLocal).stray = 0
  BY DEF Fresh, Pages
<1>2. page.stray \in 0..MaxTimers
  <2>1. PICK isLocal \in BOOLEAN, ok \in BOOLEAN : page = ConnectWebSocket(Fresh(isLocal), ok)
    BY DEF StreamInit
  <2>2. Fresh(isLocal) \in Pages /\ Fresh(isLocal).stray \in 0..MaxTimers
    BY <1>1, StreamBounds
  <2> HIDE DEF Fresh
  <2> QED
    BY <2>1, <2>2, StrayKept
<1> QED
  BY <1>2, PageStart, QueueStart, StreamBounds DEF StreamInit, StreamInv, StreamBounded

LEMMA StreamTyped == StreamInv => StreamTypeOK
<1> SUFFICES ASSUME StreamInv PROVE StreamTypeOK
  OBVIOUS
<1>1. page \in Page
  BY DEF StreamInv, StreamBounded, PageInv, Calm, Pages, Page
<1>2. /\ queue \in Seq(Int) /\ Len(queue) \in Nat /\ pushed \in 0..MaxPushes
      /\ shown \in Int /\ shown >= 0 /\ shown + Len(queue) <= pushed
      /\ \A i \in 1..Len(queue) : queue[i] = pushed - Len(queue) + i
      /\ DOMAIN queue = 1..Len(queue) /\ queue \in [1..Len(queue) -> Int]
  <2>1. queue \in Seq(Int)
    BY DEF StreamInv, QueueInv
  <2>2. Len(queue) \in Nat /\ DOMAIN queue = 1..Len(queue) /\ queue \in [1..Len(queue) -> Int]
    BY <2>1, LenProperties
  <2> QED
    BY <2>1, <2>2 DEF StreamInv, StreamBounded, QueueInv
<1>3. \A i \in 1..Len(queue) : queue[i] \in 1..MaxPushes
  BY <1>2, StreamBounds
<1>4. queue \in [1..Len(queue) -> 1..MaxPushes]
  BY <1>2, <1>3
<1>5. queue \in Seq(1..MaxPushes)
  <2>1. \A n \in Nat : [1..n -> 1..MaxPushes] \subseteq Seq(1..MaxPushes)
    BY SeqDef
  <2> QED
    BY <1>2, <1>4, <2>1
<1> QED
  BY <1>1, <1>2, <1>5 DEF StreamTypeOK, StreamInv, StreamBounded

-----------------------------------------------------------------------------
(* Types: Sessions *)

Names == People \union {None, "offline"}

TokenRow == [login : 1..MaxTokens, active : BOOLEAN]

Storage(n) == [access : Names, refresh : 0..n]

AccountsTyped ==
  DOMAIN accounts \subseteq People /\ \A u \in DOMAIN accounts : accounts[u] \in Factors

PageTyped ==
  /\ user \in People \union {"guest", "guest_user", "offline_user"}
  /\ offline \in BOOLEAN
  /\ call \in [Activities -> Calls]
  /\ requests \in 0..MaxRequests

LEMMA SessionsParts ==
  SessionsTypeOK <=>
    AccountsTyped /\ tokens \in Seq(TokenRow) /\ stored \in Storage(Len(tokens)) /\ PageTyped
BY Zenon DEF SessionsTypeOK, AccountsTyped, TokenRow, Storage, Names, PageTyped

LEMMA TokensGrow ==
  ASSUME NEW ts \in Seq(TokenRow), NEW login \in 1..MaxTokens
  PROVE  /\ Register(ts, login) \in Seq(TokenRow)
         /\ Len(Register(ts, login)) = Len(ts) + 1
<1>1. [login |-> login, active |-> TRUE] \in TokenRow
  BY DEF TokenRow
<1> QED
  BY <1>1, AppendProperties DEF Register

LEMMA RotatedTyped ==
  ASSUME tokens \in Seq(TokenRow), NEW jti \in Jtis
  PROVE  /\ Rotated(tokens, jti) \in Seq(TokenRow)
         /\ Len(Rotated(tokens, jti)) = Len(tokens)
         /\ tokens[jti].login \in 1..MaxTokens
<1> DEFINE spent == [tokens[jti] EXCEPT !.active = FALSE]
<1>1. tokens[jti] \in TokenRow
  BY ElementOfSeq DEF Jtis
<1>2. spent \in TokenRow /\ tokens[jti].login \in 1..MaxTokens
  BY <1>1 DEF TokenRow
<1>3. Rotated(tokens, jti) = [tokens EXCEPT ![jti] = spent]
  BY DEF Rotated
<1> HIDE DEF spent
<1>4. [tokens EXCEPT ![jti] = spent] \in Seq(TokenRow) /\ Len([tokens EXCEPT ![jti] = spent]) = Len(tokens)
  BY <1>2, ExceptSeq DEF Jtis
<1> QED
  BY <1>2, <1>3, <1>4

LEMMA StorageGrows ==
  ASSUME NEW n \in Nat, NEW m \in Nat, n <= m
  PROVE  Storage(n) \subseteq Storage(m)
<1>1. 0..n \subseteq 0..m
  OBVIOUS
<1> QED
  BY <1>1 DEF Storage

\* What a step of the service does to the tokens.
LEMMA TokensStay ==
  ASSUME SessionsTypeOK, tokens' \in Seq(TokenRow), Len(tokens') >= Len(tokens),
         UNCHANGED <<accounts, stored, user, offline, call, requests>>
  PROVE  SessionsTypeOK'
<1>1. /\ AccountsTyped /\ tokens \in Seq(TokenRow) /\ stored \in Storage(Len(tokens)) /\ PageTyped
  BY SessionsParts
<1>2. Len(tokens) \in Nat /\ Len(tokens') \in Nat
  BY <1>1, LenProperties
<1>3. stored' \in Storage(Len(tokens'))
  <2>1. stored \in Storage(Len(tokens'))
    BY <1>1, <1>2, StorageGrows
  <2> QED
    BY <2>1
<1>4. AccountsTyped'
  BY <1>1 DEF AccountsTyped
<1>5. PageTyped'
  BY <1>1 DEF PageTyped
<1>6. (AccountsTyped /\ tokens \in Seq(TokenRow) /\ stored \in Storage(Len(tokens)) /\ PageTyped)'
  BY <1>3, <1>4, <1>5
<1> QED
  BY <1>6, SessionsParts, PTL

\* What a step of the page does to what it stores and shows.
LEMMA PageStays ==
  ASSUME SessionsTypeOK, ServerIdle, stored' \in Storage(Len(tokens)), PageTyped'
  PROVE  SessionsTypeOK'
<1>1. /\ AccountsTyped /\ tokens \in Seq(TokenRow)
  BY SessionsParts
<1>2. accounts' = accounts /\ tokens' = tokens
  BY DEF ServerIdle
<1>3. AccountsTyped'
  BY <1>1, <1>2 DEF AccountsTyped
<1>4. (AccountsTyped /\ tokens \in Seq(TokenRow) /\ stored \in Storage(Len(tokens)) /\ PageTyped)'
  BY <1>1, <1>2, <1>3
<1> QED
  BY <1>4, SessionsParts, PTL

LEMMA AccountsStay ==
  ASSUME SessionsTypeOK, AccountsOnly, AccountsTyped'
  PROVE  SessionsTypeOK'
<1>1. tokens \in Seq(TokenRow) /\ stored \in Storage(Len(tokens)) /\ PageTyped
  BY SessionsParts
<1>2. /\ tokens' = tokens /\ stored' = stored
      /\ user' = user /\ offline' = offline /\ call' = call /\ requests' = requests
  BY DEF AccountsOnly
<1>3. PageTyped'
  BY <1>1, <1>2 DEF PageTyped
<1>4. (AccountsTyped /\ tokens \in Seq(TokenRow) /\ stored \in Storage(Len(tokens)) /\ PageTyped)'
  BY <1>1, <1>2, <1>3
<1> QED
  BY <1>4, SessionsParts, PTL

LEMMA AccountsTypes ==
  ASSUME SessionsTypeOK,
         \/ \E u \in People : CreateUser(u)
         \/ \E u \in DOMAIN accounts, secret \in Secrets : SetUp2fa(u, secret) \/ Enable2fa(u, secret)
         \/ \E u \in DOMAIN accounts : Disable2fa(u)
  PROVE  SessionsTypeOK'
<1>1. DOMAIN accounts \subseteq People /\ \A u \in DOMAIN accounts : accounts[u] \in Factors
  BY SessionsParts DEF AccountsTyped
<1> DEFINE Full == [secret : Secrets, enabled : BOOLEAN]
<1>a. \A u \in DOMAIN accounts :
        \/ accounts[u] \in Full
        \/ accounts[u] = [secret |-> None, enabled |-> FALSE]
  BY <1>1 DEF Factors, NoFactor
<1>b. ASSUME NEW f \in Full, NEW secret \in Secrets
      PROVE  [f EXCEPT !.secret = secret] \in Full /\ [f EXCEPT !.enabled = TRUE] \in Full
  OBVIOUS
<1>c. ASSUME NEW f, f = [secret |-> None, enabled |-> FALSE], NEW secret \in Secrets
      PROVE  /\ [f EXCEPT !.secret = secret] \in Full
             /\ f.secret = secret => [f EXCEPT !.enabled = TRUE] \in Full
  BY <1>c
<1>d. Full \subseteq Factors
  BY DEF Factors
<1>2. ASSUME NEW u \in People, CreateUser(u) PROVE AccountsTyped' /\ AccountsOnly
  BY <1>1, <1>2 DEF CreateUser, AccountsTyped, Factors
<1>3. ASSUME NEW u \in DOMAIN accounts, NEW f \in Factors, accounts' = [accounts EXCEPT ![u] = f]
      PROVE  AccountsTyped'
  BY <1>1, <1>3 DEF AccountsTyped
<1>4. ASSUME NEW u \in DOMAIN accounts, NEW secret \in Secrets, SetUp2fa(u, secret)
      PROVE  AccountsTyped' /\ AccountsOnly
  <2>1. [accounts[u] EXCEPT !.secret = secret] \in Factors
    BY <1>a, <1>b, <1>c, <1>d
  <2>2. accounts' = [accounts EXCEPT ![u] = [accounts[u] EXCEPT !.secret = secret]] /\ AccountsOnly
    BY <1>4 DEF SetUp2fa
  <2> QED
    BY <1>3, <2>1, <2>2
<1>5. ASSUME NEW u \in DOMAIN accounts, NEW secret \in Secrets, Enable2fa(u, secret)
      PROVE  AccountsTyped' /\ AccountsOnly
  <2>1. [accounts[u] EXCEPT !.enabled = TRUE] \in Factors
    BY <1>a, <1>b, <1>c, <1>d, <1>5 DEF Enable2fa
  <2>2. accounts' = [accounts EXCEPT ![u] = [accounts[u] EXCEPT !.enabled = TRUE]] /\ AccountsOnly
    BY <1>5 DEF Enable2fa
  <2> QED
    BY <1>3, <2>1, <2>2
<1>6. ASSUME NEW u \in DOMAIN accounts, Disable2fa(u) PROVE AccountsTyped' /\ AccountsOnly
  BY <1>3, <1>6 DEF Disable2fa, Factors
<1> QED
  BY <1>2, <1>4, <1>5, <1>6, AccountsStay

LEMMA TokensTypes ==
  ASSUME SessionsTypeOK, Login \/ \E jti \in Jtis : Refresh(jti) \/ Expire(jti)
  PROVE  SessionsTypeOK'
<1>1. tokens \in Seq(TokenRow) /\ Len(tokens) \in Nat
  BY SessionsParts, LenProperties
<1>2. CASE Login
  <2>1. NewLogin(tokens) \in 1..MaxTokens /\ tokens' = Register(tokens, NewLogin(tokens))
    BY <1>1, <1>2, SessionBounds DEF Login, NewLogin
  <2>2. tokens' \in Seq(TokenRow) /\ Len(tokens') >= Len(tokens)
    BY <1>1, <2>1, TokensGrow
  <2>3. UNCHANGED <<accounts, stored, user, offline, call, requests>>
    BY <1>2 DEF Login
  <2> QED
    BY <2>2, <2>3, TokensStay
<1>3. ASSUME NEW jti \in Jtis, Refresh(jti) \/ Expire(jti) PROVE SessionsTypeOK'
  <2>1. /\ Rotated(tokens, jti) \in Seq(TokenRow) /\ Len(Rotated(tokens, jti)) = Len(tokens)
        /\ tokens[jti].login \in 1..MaxTokens
    BY <1>1, RotatedTyped
  <2>2. tokens' = Rotated(tokens, jti) \/ tokens' = Register(Rotated(tokens, jti), tokens[jti].login)
    BY <1>3 DEF Refresh, Expire, Rotated
  <2>3. tokens' \in Seq(TokenRow) /\ Len(tokens') >= Len(tokens)
    BY <1>1, <2>1, <2>2, TokensGrow
  <2>4. UNCHANGED <<accounts, stored, user, offline, call, requests>>
    BY <1>3 DEF Refresh, Expire
  <2> QED
    BY <2>3, <2>4, TokensStay
<1> QED
  BY <1>2, <1>3

\* What is stored, and asked with it.
LEMMA StorageTyped ==
  ASSUME NEW n \in Nat
  PROVE  /\ NoTokens \in Storage(n)
         /\ \A s \in Storage(n) : EnsureOfflineToken(s) \in Storage(n) /\ Removed(s) \in Storage(n)
BY DEF Storage, NoTokens, EnsureOfflineToken, Removed, Names

LEMMA CallTyped ==
  ASSUME call \in [Activities -> Calls], NEW a \in Activities, NEW c \in Calls
  PROVE  [call EXCEPT ![a] = c] \in [Activities -> Calls]
OBVIOUS

LEMMA RejectedTyped ==
  ASSUME SessionsTypeOK, NEW a \in Activities, NEW step, NEW s \in Storage(Len(tokens)),
         Rejected(a, step, s), UNCHANGED <<offline, requests>>
  PROVE  stored' \in Storage(Len(tokens)) /\ PageTyped'
<1>1. PageTyped /\ Len(tokens) \in Nat
  BY SessionsParts, LenProperties
<1>2. Idle \in Calls /\ [step |-> "login", as |-> None] \in Calls
  BY DEF Calls
<1>3. stored' \in {Removed(s), EnsureOfflineToken(s), s}
  BY DEF Rejected
<1>4. user' \in {user, "offline_user"}
  BY DEF Rejected
<1>5. call' \in {[call EXCEPT ![a] = Idle], [call EXCEPT ![a] = [step |-> "login", as |-> None]]}
  BY DEF Rejected
<1>6. call' \in [Activities -> Calls]
  <2>1. call \in [Activities -> Calls]
    BY <1>1 DEF PageTyped
  <2> QED
    BY <1>2, <1>5, <2>1, CallTyped
<1>7. PageTyped'
  BY <1>1, <1>4, <1>6 DEF PageTyped
<1> QED
  BY <1>1, <1>3, <1>7, StorageTyped

LEMMA AskingTyped ==
  ASSUME NEW n \in Nat, stored \in Storage(n),
         NEW step \in {"me0", "login", "me1", "get"}
  PROVE  Asking(step) \in Calls
BY DEF Asking, Storage, Names, Calls

LEMMA PageTypes ==
  ASSUME SessionsTypeOK, Start \/ SubmitForm \/ Get \/ Logout \/ NetworkEvent
  PROVE  SessionsTypeOK'
<1>1. /\ Len(tokens) \in Nat /\ stored \in Storage(Len(tokens)) /\ tokens \in Seq(TokenRow) /\ PageTyped
  BY SessionsParts, LenProperties
<1>2. /\ user \in People \union {"guest", "guest_user", "offline_user"} /\ offline \in BOOLEAN
      /\ call \in [Activities -> Calls] /\ requests \in 0..MaxRequests
  BY <1>1 DEF PageTyped
<1>3. ServerIdle
  BY DEF Start, SubmitForm, Get, Logout, NetworkEvent
<1>4. requests < MaxRequests => requests + 1 \in 0..MaxRequests
  BY <1>2, SessionBounds
<1>5. requests' \in 0..MaxRequests
  BY <1>2, <1>4 DEF Start, SubmitForm, Get, Logout, NetworkEvent
<1>6. stored' \in {stored, EnsureOfflineToken(stored), NoTokens, EnsureOfflineToken(NoTokens)}
  BY DEF Start, SubmitForm, Get, Logout, NetworkEvent
<1>7. stored' \in Storage(Len(tokens))
  BY <1>1, <1>6, StorageTyped
<1>8. user' \in People \union {"guest", "guest_user", "offline_user"}
  BY <1>2 DEF Start, SubmitForm, Get, Logout, NetworkEvent
<1>9. offline' \in BOOLEAN
  BY <1>2 DEF Start, SubmitForm, Get, Logout, NetworkEvent
<1>10. \/ call' = call
       \/ \E a \in Activities, step \in {"me0", "login", "me1", "get"} :
            call' = [call EXCEPT ![a] = Asking(step)]
  BY DEF Start, SubmitForm, Get, Logout, NetworkEvent, Activities
<1>11. call' \in [Activities -> Calls]
  BY <1>1, <1>2, <1>10, AskingTyped, CallTyped
<1>12. PageTyped'
  BY <1>5, <1>8, <1>9, <1>11 DEF PageTyped
<1> QED
  BY <1>3, <1>7, <1>12, PageStays

LEMMA AnswersTypes ==
  ASSUME SessionsTypeOK, NEW a \in Activities,
         LoginAnswered(a) \/ Answered(a) \/ Failed401(a) \/ FailedOtherwise(a) \/ RefreshFails(a)
  PROVE  SessionsTypeOK'
<1>1. /\ Len(tokens) \in Nat /\ stored \in Storage(Len(tokens)) /\ tokens \in Seq(TokenRow)
      /\ PageTyped /\ AccountsTyped
  BY SessionsParts, LenProperties
<1>2. /\ user \in People \union {"guest", "guest_user", "offline_user"} /\ offline \in BOOLEAN
      /\ call \in [Activities -> Calls] /\ requests \in 0..MaxRequests
  BY <1>1 DEF PageTyped
<1>3. CASE LoginAnswered(a)
  <2>1. PICK u \in DOMAIN accounts :
          /\ stored' = [access |-> u, refresh |-> NewLogin(tokens)]
          /\ call' = [call EXCEPT ![a] = [step |-> "me1", as |-> u]]
    BY <1>3 DEF LoginAnswered
  <2>2. u \in People
    BY <1>1 DEF AccountsTyped
  <2>3. NewLogin(tokens) = Len(tokens) + 1 /\ NewLogin(tokens) \in 1..MaxTokens
    BY <1>1, <1>3, SessionBounds DEF LoginAnswered, NewLogin
  <2>4. tokens' \in Seq(TokenRow) /\ Len(tokens') = Len(tokens) + 1
    BY <1>1, <1>3, <2>3, TokensGrow DEF LoginAnswered
  <2>5. stored' \in Storage(Len(tokens'))
    BY <1>1, <2>1, <2>2, <2>3, <2>4 DEF Storage, Names
  <2>6. [step |-> "me1", as |-> u] \in Calls
    BY <2>2 DEF Calls
  <2>7. call' \in [Activities -> Calls]
    BY <1>2, <2>1, <2>6, CallTyped
  <2>8. accounts' = accounts /\ user' = user /\ offline' = offline /\ requests' = requests
    BY <1>3 DEF LoginAnswered
  <2>9. AccountsTyped'
    BY <1>1, <2>8 DEF AccountsTyped
  <2>10. PageTyped'
    BY <1>2, <2>7, <2>8 DEF PageTyped
  <2>11. (AccountsTyped /\ tokens \in Seq(TokenRow) /\ stored \in Storage(Len(tokens)) /\ PageTyped)'
    BY <2>4, <2>5, <2>9, <2>10
  <2> QED
    BY <2>11, SessionsParts, PTL
<1>4. CASE Answered(a)
  <2>1. ServerIdle /\ stored' = stored /\ offline' = offline /\ requests' = requests
    BY <1>4 DEF Answered
  <2>2. user' \in People \union {"guest", "guest_user", "offline_user"}
    BY <1>2, <1>4 DEF Answered
  <2>3. Idle \in Calls /\ call' = [call EXCEPT ![a] = Idle]
    BY <1>4 DEF Answered, Calls
  <2>4. call' \in [Activities -> Calls]
    BY <1>2, <2>3, CallTyped
  <2>5. PageTyped'
    BY <1>2, <2>1, <2>2, <2>4 DEF PageTyped
  <2>6. stored' \in Storage(Len(tokens))
    BY <1>1, <2>1
  <2> QED
    BY <2>1, <2>5, <2>6, PageStays
<1>5. CASE Failed401(a)
  <2>1. ServerIdle /\ offline' = offline /\ requests' = requests
    BY <1>5 DEF Failed401
  <2>2. CASE stored.refresh # 0 /\ ~offline
    <3> DEFINE asked == [call[a] EXCEPT !.step = RefreshOf(@)]
    <3>1. call' = [call EXCEPT ![a] = asked] /\ stored' = stored /\ user' = user
      BY <1>5, <2>2 DEF Failed401
    <3>2. asked \in Calls
      <4>1. call[a] \in Calls /\ call[a].step \in {"me0", "login", "me1", "get"}
        BY <1>2, <1>5 DEF Failed401
      <4>2. call[a] \in [step : {"me0", "login", "me1", "get", "refresh_me0", "refresh_login",
                                 "refresh_me1", "refresh_get"}, as : People \union {None, "offline"}]
        BY <4>1 DEF Calls, Idle
      <4>3. RefreshOf(call[a].step) \in {"refresh_me0", "refresh_login", "refresh_me1", "refresh_get"}
        BY DEF RefreshOf
      <4> QED
        BY <4>2, <4>3 DEF Calls
    <3> HIDE DEF asked
    <3>3. call' \in [Activities -> Calls]
      BY <1>2, <3>1, <3>2, CallTyped
    <3>4. PageTyped'
      BY <1>2, <2>1, <3>1, <3>3 DEF PageTyped
    <3>5. stored' \in Storage(Len(tokens))
      BY <1>1, <3>1
    <3> QED
      BY <2>1, <3>4, <3>5, PageStays
  <2>3. CASE ~(stored.refresh # 0 /\ ~offline)
    <3>1. Rejected(a, call[a].step, stored)
      BY <1>5, <2>3 DEF Failed401
    <3> QED
      BY <1>1, <2>1, <3>1, RejectedTyped, PageStays
  <2> QED
    BY <2>2, <2>3
<1>6. CASE FailedOtherwise(a)
  <2>1. ServerIdle /\ offline' = offline /\ requests' = requests /\ Rejected(a, call[a].step, stored)
    BY <1>6 DEF FailedOtherwise
  <2> QED
    BY <1>1, <2>1, RejectedTyped, PageStays
<1>7. CASE RefreshFails(a)
  <2>1. PICK step : Rejected(a, step, Removed(stored)) /\ ServerIdle /\ offline' = offline /\ requests' = requests
    BY <1>7 DEF RefreshFails
  <2>2. Removed(stored) \in Storage(Len(tokens))
    BY <1>1, StorageTyped
  <2> QED
    BY <2>1, <2>2, RejectedTyped, PageStays
<1> QED
  BY <1>3, <1>4, <1>5, <1>6, <1>7

LEMMA SessionsTypes == SessionsTypeOK /\ [SessionsNext]_sessionVars => SessionsTypeOK'
<1>1. SessionsTypeOK /\ UNCHANGED sessionVars => SessionsTypeOK'
  BY DEF SessionsTypeOK, sessionVars
<1> QED
  BY <1>1, AccountsTypes, TokensTypes, PageTypes, AnswersTypes DEF SessionsNext

LEMMA SessionsStart == SessionsInit => SessionsTypeOK
<1> SUFFICES ASSUME SessionsInit PROVE SessionsTypeOK
  OBVIOUS
<1>1. AccountsTyped
  BY DevAssumption DEF SessionsInit, AccountsTyped, Factors
<1>2. PageTyped
  BY SessionBounds DEF SessionsInit, PageTyped, Calls
<1>3. CASE tokens = <<>> /\ stored = NoTokens
  <2>1. tokens \in Seq(TokenRow) /\ Len(tokens) = 0
    BY <1>3, EmptySeq
  <2>2. stored \in Storage(Len(tokens))
    BY <1>3, <2>1, StorageTyped
  <2> QED
    BY <1>1, <1>2, <2>1, <2>2, SessionsParts
<1>4. CASE tokens = Register(<<>>, 1) /\ stored = [access |-> Dev, refresh |-> 1]
  <2>1. [login |-> 1, active |-> TRUE] \in TokenRow
    BY SessionBounds DEF TokenRow
  <2>2. tokens = <<[login |-> 1, active |-> TRUE]>>
    BY <1>4 DEF Register
  <2>3. tokens \in Seq(TokenRow) /\ Len(tokens) = 1
    BY <2>1, <2>2
  <2>4. [access |-> Dev, refresh |-> 1] \in Storage(1)
    BY DevAssumption DEF Names, Storage
  <2>5. stored \in Storage(Len(tokens))
    BY <1>4, <2>3, <2>4
  <2> QED
    BY <1>1, <1>2, <2>3, <2>5, SessionsParts
<1> QED
  BY <1>3, <1>4 DEF SessionsInit

-----------------------------------------------------------------------------
(* How often a user passes the limit *)

Ages == 0..LimitWindow - 1

\* What passed is shared among the stores that let it pass: each has counted
\* its share, which is no more than the limit, and may have counted refusals
\* and have been asked by other replicas.
Shares(a, p, h, u) ==
  /\ a \in [Stores -> Window(LimitWindow)]
  /\ \A s \in Stores : Summed(a[s]) <= ServiceLimit
  /\ \A s \in Stores : \A age \in Ages : a[s][age] <= h[s][u][Service][age]
  /\ \A age \in Ages : p[age] = Summed([s \in Stores |-> a[s][age]])

RateInv ==
  /\ WindowsTyped
  /\ \A u \in Users : \E a : Shares(a, passed[u], hits, u)

Histories == [Stores -> [Users -> [Levels -> Window(LimitWindow)]]]

LEMMA FiniteStores == IsFiniteSet(Stores) /\ IsFiniteSet(Ages) /\ 0 \in Ages /\ Ages \subseteq Nat
<1>1. Stores \in SUBSET (Replicas \union {"redis"})
  BY DEF Stores, Counters
<1>2. IsFiniteSet(Stores)
  BY <1>1, LimitsAssumption, FS_AddElement, FS_Subset
<1>3. LimitWindow \in Nat \ {0}
  BY WindowsAssumption
<1> QED
  BY <1>2, <1>3, FS_Interval DEF Ages

LEMMA TotalIsSum == ASSUME NEW w PROVE Total(w) = Summed(w)
BY Zenon DEF Total, Summed

\* Counting takes nothing away, and counts the request that is admitted.
LEMMA CountedGrows ==
  ASSUME NEW h \in Histories, NEW s \in Stores, NEW u \in Users, NEW l \in Levels, NEW limit
  PROVE  LET c == Counted(h, s, u, l, limit)
         IN /\ c \in Histories
            /\ \A x \in Stores : \A v \in Users : \A k \in Levels : \A age \in Ages :
                 c[x][v][k][age] \in Nat /\ h[x][v][k][age] <= c[x][v][k][age]
            /\ Admits(h, s, u, l, limit) => c[s][u][l][0] = h[s][u][l][0] + 1
<1> DEFINE c == Counted(h, s, u, l, limit)
           w == h[s][u][l]
<1>1. c \in Histories
  BY CountedTyped DEF Histories
<1>2. /\ \A x \in Stores : \A v \in Users : \A k \in Levels : h[x][v][k] \in [Ages -> Nat]
      /\ \A x \in Stores : \A v \in Users : \A k \in Levels : c[x][v][k] \in [Ages -> Nat]
  BY <1>1 DEF Histories, Window, Ages
<1>3. \/ c = h /\ ~Admits(h, s, u, l, limit)
      \/ c = [h EXCEPT ![s][u][l] = Another(@)]
  BY DEF Counted
<1>4. 0 \in Ages /\ w \in [Ages -> Nat]
  BY <1>2, FiniteStores
<1>5. Another(w) = [w EXCEPT ![0] = w[0] + 1]
  BY DEF Another
<1>6. Another(w)[0] = w[0] + 1 /\ \A age \in Ages : Another(w)[age] \in Nat /\ w[age] <= Another(w)[age]
  <2> HIDE DEF w
  <2> QED
    BY <1>4, <1>5
<1>7. CASE c = [h EXCEPT ![s][u][l] = Another(@)]
  <2>1. c[s][u][l] = Another(w)
    BY <1>7 DEF Histories
  <2>2. ASSUME NEW x \in Stores, NEW v \in Users, NEW k \in Levels, ~(x = s /\ v = u /\ k = l)
        PROVE  c[x][v][k] = h[x][v][k]
    BY <1>7, <2>2 DEF Histories
  <2>3. ASSUME NEW x \in Stores, NEW v \in Users, NEW k \in Levels, NEW age \in Ages
        PROVE  c[x][v][k][age] \in Nat /\ h[x][v][k][age] <= c[x][v][k][age]
    <3>1. CASE x = s /\ v = u /\ k = l
      BY <1>6, <2>1, <3>1
    <3>2. CASE ~(x = s /\ v = u /\ k = l)
      <4>1. c[x][v][k] = h[x][v][k] /\ h[x][v][k] \in [Ages -> Nat]
        BY <1>2, <2>2, <3>2
      <4>2. h[x][v][k][age] \in Nat
        BY <4>1
      <4> HIDE DEF c
      <4> QED
        BY <4>1, <4>2
    <3> QED
      BY <3>1, <3>2
  <2> HIDE DEF c, w
  <2> QED
    BY <1>1, <1>6, <2>1, <2>3 DEF c, w
<1>8. CASE c = h /\ ~Admits(h, s, u, l, limit)
  <2>1. \A x \in Stores : \A v \in Users : \A k \in Levels : \A age \in Ages : h[x][v][k][age] \in Nat
    BY <1>2
  <2> HIDE DEF c, w
  <2> QED
    BY <1>1, <1>8, <2>1 DEF c
<1> QED
  BY <1>3, <1>7, <1>8

LEMMA SharesStay ==
  ASSUME NEW a, NEW p, NEW h \in Histories, NEW g \in Histories, NEW u \in Users, Shares(a, p, h, u),
         \A s \in Stores : \A age \in Ages : h[s][u][Service][age] <= g[s][u][Service][age]
  PROVE  Shares(a, p, g, u)
<1>1. ASSUME NEW s \in Stores, NEW age \in Ages PROVE a[s][age] <= g[s][u][Service][age]
  <2>1. a[s] \in [Ages -> Nat] /\ h[s][u][Service] \in [Ages -> Nat] /\ g[s][u][Service] \in [Ages -> Nat]
    BY DEF Shares, Window, Ages, Histories, Levels
  <2>2. a[s][age] \in Nat /\ h[s][u][Service][age] \in Nat /\ g[s][u][Service][age] \in Nat
    BY <2>1
  <2>3. a[s][age] <= h[s][u][Service][age] /\ h[s][u][Service][age] <= g[s][u][Service][age]
    BY DEF Shares
  <2> QED
    BY <2>2, <2>3
<1> QED
  BY <1>1 DEF Shares

\* A store that is below the limit lets one more pass, and counts it.
LEMMA SharesGrow ==
  ASSUME NEW a, NEW p \in Window(LimitWindow), NEW h \in Histories, NEW g \in Histories,
         NEW u \in Users, NEW s \in Stores,
         Shares(a, p, h, u), Admits(h, s, u, Service, ServiceLimit),
         \A x \in Stores : \A age \in Ages : h[x][u][Service][age] <= g[x][u][Service][age],
         g[s][u][Service][0] >= h[s][u][Service][0] + 1
  PROVE  \E b : Shares(b, Another(p), g, u)
<1> DEFINE w == a[s]
           b == [a EXCEPT ![s] = Another(w)]
<1>1. Service \in Levels /\ 0 \in Ages /\ p \in [Ages -> Nat] /\ w \in [Ages -> Nat]
      /\ \A x \in Stores : /\ a[x] \in [Ages -> Nat] /\ h[x][u][Service] \in [Ages -> Nat]
                           /\ g[x][u][Service] \in [Ages -> Nat]
  BY FiniteStores DEF Shares, Window, Ages, Histories, Levels
<1>2. Another(w) \in [Ages -> Nat] /\ Another(w)[0] = w[0] + 1
      /\ \A age \in Ages : age # 0 => Another(w)[age] = w[age]
  <2> HIDE DEF w
  <2> QED
    BY <1>1 DEF Another
<1>3. b \in [Stores -> Window(LimitWindow)]
  BY <1>2 DEF Shares, Window, Ages
<1>4. b[s] = Another(w) /\ \A x \in Stores : x # s => b[x] = a[x]
  BY DEF Shares
<1> HIDE DEF b
<1>5. Summed(Another(w)) <= ServiceLimit
  <2>1. IsFiniteSet(Ages) /\ w \in [Ages -> Int] /\ Another(w) \in [Ages -> Int]
        /\ h[s][u][Service] \in [Ages -> Int] /\ 1 \in Int
    BY <1>1, <1>2, FiniteStores
  <2>2. \A age \in Ages : w[age] <= h[s][u][Service][age]
    BY DEF Shares
  <2>3. Summed(w) <= Summed(h[s][u][Service])
    BY <2>1, <2>2, SumAtMost
  <2>4. Summed(Another(w)) = Summed(w) + 1
    BY <1>1, <1>2, <2>1, SumWithChange, SMTT(30)
  <2>5. Summed(w) \in Int /\ Summed(h[s][u][Service]) \in Int
    BY <2>1, SumType
  <2>6. Summed(h[s][u][Service]) < ServiceLimit
    BY TotalIsSum DEF Admits
  <2> QED
    BY <2>3, <2>4, <2>5, <2>6, LimitsAssumption
<1>6. ASSUME NEW x \in Stores, NEW age \in Ages PROVE b[x][age] <= g[x][u][Service][age]
  <2>1. a[x][age] \in Nat /\ h[x][u][Service][age] \in Nat /\ g[x][u][Service][age] \in Nat
    BY <1>1
  <2>2. a[x][age] <= h[x][u][Service][age] /\ h[x][u][Service][age] <= g[x][u][Service][age]
    BY DEF Shares
  <2>3. CASE x = s /\ age = 0
    BY <1>2, <1>4, <2>1, <2>2, <2>3
  <2>4. CASE ~(x = s /\ age = 0)
    <3>1. b[x][age] = a[x][age]
      BY <1>2, <1>4, <2>4
    <3> QED
      BY <2>1, <2>2, <3>1
  <2> QED
    BY <2>3, <2>4
<1>7. ASSUME NEW age \in Ages PROVE Another(p)[age] = Summed([x \in Stores |-> b[x][age]])
  <2> DEFINE old == [x \in Stores |-> a[x][age]]
             new == [x \in Stores |-> b[x][age]]
  <2>1. old \in [Stores -> Int]
    BY <1>1
  <2>2. new \in [Stores -> Int]
    <3>1. \A x \in Stores : b[x] \in [Ages -> Nat]
      BY <1>3 DEF Window, Ages
    <3>2. \A x \in Stores : b[x][age] \in Int
      BY <3>1
    <3> QED
      BY <3>2
  <2>3. p[age] = Summed(old)
    BY DEF Shares
  <2>4. CASE age = 0
    <3>1. new[s] = old[s] + 1 /\ \A x \in Stores : x # s => new[x] = old[x]
      BY <1>2, <1>4, <2>4
    <3>2. Summed(new) = Summed(old) + 1
      <4> HIDE DEF old, new
      <4>1. IsFiniteSet(Stores) /\ 1 \in Int
        BY FiniteStores
      <4> QED
        BY <2>1, <2>2, <3>1, <4>1, SumWithChange
    <3>3. Another(p)[0] = p[0] + 1
      BY <1>1 DEF Another
    <3> QED
      BY <2>3, <2>4, <3>2, <3>3
  <2>5. CASE age # 0
    <3>1. \A x \in Stores : b[x][age] = a[x][age]
      BY <1>2, <1>4, <2>5
    <3>2. new = old
      BY <3>1
    <3>3. Another(p)[age] = p[age]
      BY <1>1, <2>5 DEF Another
    <3> QED
      BY <2>3, <3>2, <3>3
  <2> QED
    BY <2>4, <2>5
<1>8. \A x \in Stores : Summed(b[x]) <= ServiceLimit
  BY <1>4, <1>5 DEF Shares
<1> QED
  BY <1>3, <1>6, <1>7, <1>8 DEF Shares

LEMMA SharesAge ==
  ASSUME NEW a, NEW p \in Window(LimitWindow), NEW h \in Histories, NEW g \in Histories,
         NEW u \in Users, Shares(a, p, h, u),
         \A s \in Stores : g[s][u][Service] = Aged(h[s][u][Service])
  PROVE  \E b : Shares(b, Aged(p), g, u)
<1> DEFINE b == [s \in Stores |-> Aged(a[s])]
<1>1. LimitWindow \in Nat /\ Service \in Levels /\ 0 \in Ages /\ p \in [Ages -> Nat]
      /\ \A x \in Stores : a[x] \in [Ages -> Nat] /\ h[x][u][Service] \in [Ages -> Nat]
  BY FiniteStores, WindowsAssumption DEF Shares, Window, Ages, Histories, Levels
<1>2. ASSUME NEW w \in [Ages -> Nat]
      PROVE  /\ Aged(w) \in [Ages -> Nat] /\ Aged(w)[0] = 0
             /\ \A age \in Ages : Aged(w)[age] = IF age = 0 THEN 0 ELSE w[age - 1]
             /\ Summed(Aged(w)) <= Summed(w)
  <2>1. \A age \in Ages : age # 0 => age - 1 \in Ages
    BY <1>1 DEF Ages
  <2>2. /\ Aged(w) \in [Ages -> Nat]
        /\ \A age \in Ages : Aged(w)[age] = IF age = 0 THEN 0 ELSE w[age - 1]
    BY <2>1 DEF Aged
  <2>3. Summed(Aged(w)) <= Summed(w)
    BY <1>1, <2>2, SumShifted DEF Ages
  <2> QED
    BY <1>1, <2>2, <2>3
<1>3. b \in [Stores -> Window(LimitWindow)]
  BY <1>1, <1>2 DEF Window, Ages
<1>4. \A s \in Stores : b[s] = Aged(a[s])
  OBVIOUS
<1> HIDE DEF b
<1>5. ASSUME NEW s \in Stores PROVE Summed(b[s]) <= ServiceLimit
  <2>1. Summed(a[s]) <= ServiceLimit /\ Summed(b[s]) <= Summed(a[s])
    BY <1>1, <1>2, <1>4 DEF Shares
  <2>2. a[s] \in [Ages -> Int] /\ b[s] \in [Ages -> Int] /\ IsFiniteSet(Ages)
    BY <1>1, <1>2, <1>4, FiniteStores
  <2>3. Summed(a[s]) \in Int /\ Summed(b[s]) \in Int
    BY <2>2, SumType
  <2> QED
    BY <2>1, <2>3, LimitsAssumption
<1>6. ASSUME NEW s \in Stores, NEW age \in Ages PROVE b[s][age] <= g[s][u][Service][age]
  <2>1. a[s] \in [Ages -> Nat] /\ h[s][u][Service] \in [Ages -> Nat]
    BY <1>1
  <2>2. CASE age = 0
    BY <1>2, <1>4, <2>1, <2>2
  <2>3. CASE age # 0
    <3>1. age - 1 \in Ages
      BY <1>1, <2>3 DEF Ages
    <3>2. b[s][age] = a[s][age - 1] /\ g[s][u][Service][age] = h[s][u][Service][age - 1]
      BY <1>2, <1>4, <2>1, <2>3
    <3>3. a[s][age - 1] <= h[s][u][Service][age - 1]
      BY <3>1 DEF Shares
    <3> QED
      BY <3>2, <3>3
  <2> QED
    BY <2>2, <2>3
<1>7. ASSUME NEW age \in Ages PROVE Aged(p)[age] = Summed([x \in Stores |-> b[x][age]])
  <2> DEFINE new == [x \in Stores |-> b[x][age]]
  <2>1. CASE age = 0
    <3>1. \A x \in Stores : b[x][age] = 0
      BY <1>1, <1>2, <1>4, <2>1
    <3>2. new \in [Stores -> Int] /\ \A x \in Stores : new[x] = 0
      BY <3>1
    <3>3. Summed(new) = 0
      <4> HIDE DEF new
      <4> QED
        BY <3>2, FiniteStores, SumOfZeros
    <3>4. Aged(p)[age] = 0
      BY <1>1, <1>2, <2>1
    <3> QED
      BY <3>3, <3>4
  <2>2. CASE age # 0
    <3>1. age - 1 \in Ages
      BY <1>1, <2>2 DEF Ages
    <3>2. \A x \in Stores : b[x][age] = a[x][age - 1]
      BY <1>1, <1>2, <1>4, <2>2
    <3>3. new = [x \in Stores |-> a[x][age - 1]]
      BY <3>2
    <3>4. Aged(p)[age] = p[age - 1]
      BY <1>1, <1>2, <2>2
    <3>5. p[age - 1] = Summed([x \in Stores |-> a[x][age - 1]])
      BY <3>1 DEF Shares
    <3> QED
      BY <3>3, <3>4, <3>5
  <2> QED
    BY <2>1, <2>2
<1> QED
  BY <1>3, <1>5, <1>6, <1>7 DEF Shares

\* The shares of every store.
LEMMA SharesBounded ==
  ASSUME NEW a, NEW p \in Window(LimitWindow), NEW h \in Histories, NEW u \in Users, Shares(a, p, h, u)
  PROVE  Summed(p) <= Cardinality(Stores) * ServiceLimit
<1>1. /\ IsFiniteSet(Stores) /\ IsFiniteSet(Ages) /\ p \in [Ages -> Int] /\ ServiceLimit \in Nat
      /\ \A s \in Stores : a[s] \in [Ages -> Int] /\ Summed(a[s]) <= ServiceLimit
  BY FiniteStores, LimitsAssumption DEF Shares, Window, Ages
<1> DEFINE Part(T, age) == Summed([s \in T |-> a[s][age]])
           G == {T \in SUBSET Stores :
                   \A q \in [Ages -> Int] :
                     (\A age \in Ages : q[age] = Part(T, age)) => Summed(q) <= Cardinality(T) * ServiceLimit}
<1>2. {} \in G
  <2>1. ASSUME NEW q \in [Ages -> Int], \A age \in Ages : q[age] = Part({}, age)
        PROVE  Summed(q) <= Cardinality({}) * ServiceLimit
    <3>1. ASSUME NEW age \in Ages PROVE q[age] = 0
      <4> DEFINE none == [s \in {} |-> a[s][age]]
      <4>1. none \in [{} -> Int] /\ \A s \in {} : none[s] = 0
        OBVIOUS
      <4>2. Summed(none) = 0
        <5> HIDE DEF none
        <5> QED
          BY <4>1, FS_EmptySet, SumOfZeros
      <4> QED
        BY <2>1, <4>2
    <3>2. Summed(q) = 0
      BY <1>1, <3>1, SumOfZeros
    <3> QED
      BY <1>1, <3>2, FS_EmptySet
  <2> HIDE DEF Part
  <2> QED
    BY <2>1
<1>3. ASSUME NEW T \in SUBSET Stores, NEW y \in Stores \ T, T \in G PROVE T \union {y} \in G
  <2> DEFINE U == T \union {y}
  <2>1. IsFiniteSet(T) /\ Cardinality(T) \in Nat /\ Cardinality(U) = Cardinality(T) + 1 /\ U \in SUBSET Stores
    BY <1>1, FS_Subset, FS_CardinalityType, FS_AddElement
  <2>2. ASSUME NEW q \in [Ages -> Int], \A age \in Ages : q[age] = Part(U, age)
        PROVE  Summed(q) <= Cardinality(U) * ServiceLimit
    <3> DEFINE r == [age \in Ages |-> Part(T, age)]
    <3>1. ASSUME NEW age \in Ages PROVE Part(T, age) \in Int /\ q[age] = Part(T, age) + a[y][age]
      <4> DEFINE f == [s \in T |-> a[s][age]]
                 h2 == [s \in U |-> a[s][age]]
      <4>1. \A s \in Stores : a[s][age] \in Int
        BY <1>1
      <4>2. f \in [T -> Int] /\ h2 \in [U -> Int] /\ (\A s \in T : h2[s] = f[s]) /\ h2[y] = a[y][age] /\ y \notin T
        BY <2>1, <4>1
      <4>3. q[age] = Summed(h2) /\ Part(T, age) = Summed(f)
        BY <2>2
      <4> HIDE DEF f, h2, Part
      <4>4. Summed(h2) = Summed(f) + h2[y]
        BY <2>1, <4>2, SumWithPlace
      <4>5. Summed(f) \in Int
        BY <2>1, <4>2, SumType
      <4> QED
        BY <4>2, <4>3, <4>4, <4>5
    <3> HIDE DEF Part, U
    <3>2. r \in [Ages -> Int] /\ \A age \in Ages : r[age] = Part(T, age)
      BY <3>1
    <3>3. \A age \in Ages : q[age] = r[age] + a[y][age]
      BY <3>1, <3>2
    <3> HIDE DEF r
    <3>4. Summed(r) <= Cardinality(T) * ServiceLimit
      BY <1>3, <3>2
    <3>5. a[y] \in [Ages -> Int] /\ Summed(a[y]) <= ServiceLimit
      BY <1>1
    <3>6. Summed(q) = Summed(r) + Summed(a[y])
      BY <1>1, <3>2, <3>3, <3>5, SumOfSums
    <3>7. Summed(r) \in Int /\ Summed(a[y]) \in Int
      BY <1>1, <3>2, <3>5, SumType
    <3>8. (Cardinality(T) + 1) * ServiceLimit = Cardinality(T) * ServiceLimit + ServiceLimit
      BY <1>1, <2>1
    <3>9. Cardinality(T) * ServiceLimit \in Int
      BY <1>1, <2>1
    <3> QED
      BY <1>1, <2>1, <3>4, <3>5, <3>6, <3>7, <3>8, <3>9
  <2> HIDE DEF Part
  <2> QED
    BY <2>1, <2>2
<1>4. Stores \in G
  <2> HIDE DEF G
  <2> QED
    BY <1>1, <1>2, <1>3, SetInduction
<1>5. \A age \in Ages : p[age] = Part(Stores, age)
  BY DEF Shares
<1> HIDE DEF Part
<1> QED
  BY <1>1, <1>4, <1>5

LEMMA RateStart == GatewayInit => RateInv
<1> SUFFICES ASSUME GatewayInit PROVE RateInv
  OBVIOUS
<1>1. WindowsTyped
  BY GatewayStart DEF GatewayTypeOK, WindowsTyped
<1>2. ASSUME NEW u \in Users PROVE \E a : Shares(a, passed[u], hits, u)
  <2> DEFINE a == [s \in Stores |-> NoHits(LimitWindow)]
             none == NoHits(LimitWindow)
  <2>1. none \in [Ages -> Int] /\ none \in Window(LimitWindow) /\ \A age \in Ages : none[age] = 0
    BY WindowsAssumption DEF NoHits, Ages, Window
  <2>2. passed[u] = none /\ \A s \in Stores : a[s] = none /\ hits[s][u][Service] = none
    BY DEF GatewayInit, Levels
  <2>3. a \in [Stores -> Window(LimitWindow)]
    BY <2>1
  <2> HIDE DEF none, a
  <2>4. Summed(none) = 0
    BY <2>1, FiniteStores, SumOfZeros
  <2>5. ASSUME NEW age \in Ages PROVE none[age] = Summed([s \in Stores |-> a[s][age]])
    <3> DEFINE f == [s \in Stores |-> a[s][age]]
    <3>1. f \in [Stores -> Int] /\ \A s \in Stores : f[s] = 0
      BY <2>1, <2>2
    <3> HIDE DEF f
    <3>2. Summed(f) = 0
      BY <3>1, FiniteStores, SumOfZeros
    <3> QED
      BY <2>1, <3>2 DEF f
  <2>6. \A s \in Stores : Summed(a[s]) <= ServiceLimit
    BY <2>2, <2>4, LimitsAssumption
  <2>7. \A s \in Stores : \A age \in Ages : a[s][age] <= hits[s][u][Service][age]
    BY <2>1, <2>2
  <2> QED
    BY <2>2, <2>3, <2>5, <2>6, <2>7 DEF Shares
<1> QED
  BY <1>1, <1>2 DEF RateInv

LEMMA ArriveRate ==
  ASSUME RateInv, NEW g \in Replicas, NEW v \in Users, NEW p \in Paths,
         NEW write \in BOOLEAN, NEW ok \in BOOLEAN, RateLimit(g, v, p, write, ok), seen' = seen
  PROVE  RateInv'
<1>1. WindowsTyped' /\ WindowsTyped
  BY RateLimitTyped DEF RateInv
<1>2. PICK s \in Counters(g), e \in Counters(g) :
        LET first == Counted(hits, s, v, Service, ServiceLimit)
            limit == EndpointLimit(write)
        IN \/ hits' = first /\ UNCHANGED passed
           \/ /\ Admits(hits, s, v, Service, ServiceLimit)
              /\ hits' = Counted(first, e, v, <<p, write>>, limit)
              /\ passed' = [passed EXCEPT ![v] = Another(@)]
  BY DEF RateLimit
<1> DEFINE first == Counted(hits, s, v, Service, ServiceLimit)
           second == Counted(first, e, v, <<p, write>>, EndpointLimit(write))
<1>3. /\ s \in Stores /\ e \in Stores /\ Service \in Levels /\ <<p, write>> \in Levels
      /\ hits \in Histories /\ hits' \in Histories
  BY <1>1 DEF Stores, Levels, Histories, WindowsTyped
<1>4. /\ first \in Histories
      /\ \A x \in Stores : \A u \in Users : \A k \in Levels : \A age \in Ages :
           first[x][u][k][age] \in Nat /\ hits[x][u][k][age] <= first[x][u][k][age]
      /\ Admits(hits, s, v, Service, ServiceLimit) =>
           first[s][v][Service][0] = hits[s][v][Service][0] + 1
  BY <1>3, CountedGrows
<1> HIDE DEF first
<1>5. \A x \in Stores : \A u \in Users : \A k \in Levels : \A age \in Ages :
        second[x][u][k][age] \in Nat /\ first[x][u][k][age] <= second[x][u][k][age]
  BY <1>3, <1>4, CountedGrows
<1> HIDE DEF second
<1>6. \A x \in Stores : \A u \in Users : \A k \in Levels : \A age \in Ages :
        hits[x][u][k][age] \in Nat
  <2>1. \A x \in Stores : \A u \in Users : \A k \in Levels : hits[x][u][k] \in [Ages -> Nat]
    BY <1>3 DEF Histories, Window, Ages
  <2> QED
    BY <2>1
<1>7. \A x \in Stores : \A u \in Users : \A age \in Ages :
        hits[x][u][Service][age] <= second[x][u][Service][age]
  <2> SUFFICES ASSUME NEW x \in Stores, NEW u \in Users, NEW age \in Ages
               PROVE  hits[x][u][Service][age] <= second[x][u][Service][age]
    OBVIOUS
  <2>1. /\ hits[x][u][Service][age] \in Nat /\ first[x][u][Service][age] \in Nat
        /\ second[x][u][Service][age] \in Nat
        /\ hits[x][u][Service][age] <= first[x][u][Service][age]
        /\ first[x][u][Service][age] <= second[x][u][Service][age]
    BY <1>3, <1>4, <1>5, <1>6
  <2> QED
    BY <2>1
<1>8. \/ hits' = first /\ UNCHANGED passed
      \/ /\ Admits(hits, s, v, Service, ServiceLimit)
         /\ hits' = second
         /\ passed' = [passed EXCEPT ![v] = Another(@)]
  BY <1>2 DEF first, second
<1>9. ASSUME NEW u \in Users PROVE \E b : Shares(b, passed'[u], hits', u)
  <2>1. PICK a : Shares(a, passed[u], hits, u)
    BY DEF RateInv
  <2>2. passed[u] \in Window(LimitWindow)
    BY <1>1 DEF WindowsTyped
  <2>3. CASE hits' = first /\ UNCHANGED passed
    BY <1>3, <1>4, <2>1, <2>3, SharesStay
  <2>4. CASE /\ Admits(hits, s, v, Service, ServiceLimit)
             /\ hits' = second
             /\ passed' = [passed EXCEPT ![v] = Another(@)]
    <3>1. second \in Histories
      BY <1>3, <2>4
    <3>2. CASE u # v
      <4>1. passed'[u] = passed[u]
        BY <2>4, <3>2
      <4> QED
        BY <1>3, <1>7, <2>1, <2>4, <3>1, <4>1, SharesStay
    <3>3. CASE u = v
      <4>1. passed'[u] = Another(passed[u])
        BY <1>1, <2>4, <3>3 DEF WindowsTyped
      <4>2. second[s][u][Service][0] >= hits[s][u][Service][0] + 1
        <5>1. /\ first[s][u][Service][0] = hits[s][u][Service][0] + 1
              /\ first[s][u][Service][0] <= second[s][u][Service][0]
              /\ second[s][u][Service][0] \in Nat /\ hits[s][u][Service][0] \in Nat
          BY <1>3, <1>4, <1>5, <1>6, <2>4, <3>3, FiniteStores
        <5> QED
          BY <5>1
      <4>3. /\ Shares(a, passed[u], hits, u) /\ Admits(hits, s, u, Service, ServiceLimit)
            /\ \A x \in Stores : \A age \in Ages :
                 hits[x][u][Service][age] <= second[x][u][Service][age]
        BY <1>7, <2>1, <2>4, <3>3
      <4>4. \E b : Shares(b, Another(passed[u]), second, u)
        BY <1>3, <2>2, <3>1, <4>2, <4>3, SharesGrow
      <4> QED
        BY <2>4, <4>1, <4>4
    <3> QED
      BY <3>2, <3>3
  <2> QED
    BY <1>8, <2>3, <2>4
<1> QED
  BY <1>1, <1>9 DEF RateInv

LEMMA TickRate == RateInv /\ GatewayTypeOK /\ Tick => RateInv'
<1> SUFFICES ASSUME RateInv, GatewayTypeOK, Tick PROVE RateInv'
  OBVIOUS
<1>1. WindowsTyped /\ WindowsTyped'
  BY TickTyped DEF GatewayTypeOK, WindowsTyped
<1>2. hits \in Histories /\ hits' \in Histories
  BY <1>1 DEF WindowsTyped, Histories
<1>3. ASSUME NEW u \in Users PROVE \E b : Shares(b, passed'[u], hits', u)
  <2>1. PICK a : Shares(a, passed[u], hits, u)
    BY DEF RateInv
  <2>2. passed[u] \in Window(LimitWindow) /\ passed'[u] = Aged(passed[u])
    BY <1>1 DEF WindowsTyped, Tick
  <2>3. \A s \in Stores : hits'[s][u][Service] = Aged(hits[s][u][Service])
    BY DEF Tick, Levels
  <2> QED
    BY <1>2, <2>1, <2>2, <2>3, SharesAge
<1> QED
  BY <1>1, <1>3 DEF RateInv

LEMMA RateStep == RateInv /\ GatewayTypeOK /\ [GatewayNext]_gatewayVars => RateInv'
<1> SUFFICES ASSUME RateInv, GatewayTypeOK, [GatewayNext]_gatewayVars PROVE RateInv'
  OBVIOUS
<1>1. ASSUME UNCHANGED <<hits, seen, passed>> PROVE RateInv'
  BY <1>1 DEF RateInv, WindowsTyped
<1>2. ASSUME NEW r \in Requests, NEW g \in Replicas, NEW u \in Users, NEW p \in Paths,
             NEW write \in BOOLEAN, Arrive(r, g, u, p, write)
      PROVE  RateInv'
  <2>1. PICK ok \in BOOLEAN : RateLimit(g, u, p, write, ok)
    BY <1>2 DEF Arrive
  <2>2. seen' = seen
    BY <1>2 DEF Arrive
  <2> QED
    BY <2>1, <2>2, ArriveRate
<1>3. ASSUME NEW r \in Requests, Finish(r) PROVE RateInv'
  <2>1. WindowsTyped'
    BY <1>3, FinishTyped DEF GatewayTypeOK, WindowsTyped
  <2>2. hits' = hits /\ passed' = passed
    BY <1>3 DEF Finish
  <2> QED
    BY <2>1, <2>2 DEF RateInv
<1>4. ASSUME NEW r \in Requests, Serve(r) \/ Fail(r) PROVE UNCHANGED <<hits, seen, passed>>
  BY <1>4 DEF Serve, Fail
<1>5. ASSUME NEW g \in Replicas, Invalidate(g) PROVE UNCHANGED <<hits, seen, passed>>
  BY <1>5 DEF Invalidate
<1>6. CASE UNCHANGED gatewayVars
  BY <1>1, <1>6 DEF gatewayVars
<1> QED
  BY <1>1, <1>2, <1>3, <1>4, <1>5, <1>6, TickRate DEF GatewayNext

\* However Redis comes and goes, and whatever the endpoints' own limits refuse,
\* a user passes the limit of a service in a window once for each store that
\* counts: for any users, replicas, limits and any length of the window.
THEOREM RateKeptHolds == GatewaySpec => []RateKept
<1>1. RateInv => RateKept
  <2> SUFFICES ASSUME RateInv, NEW u \in Users
               PROVE  Total(passed[u]) <= Cardinality(Stores) * ServiceLimit
    BY DEF RateKept
  <2>1. PICK a : Shares(a, passed[u], hits, u)
    BY DEF RateInv
  <2>2. passed[u] \in Window(LimitWindow) /\ hits \in Histories
    BY DEF RateInv, WindowsTyped, Histories
  <2>3. Summed(passed[u]) <= Cardinality(Stores) * ServiceLimit
    BY <2>1, <2>2, SharesBounded
  <2> QED
    BY <2>3, TotalIsSum
<1>2. GatewaySpec => []GatewayTypeOK
  BY GatewayStart, GatewayTypes, PTL DEF GatewaySpec
<1> QED
  BY <1>1, <1>2, RateStart, RateStep, PTL DEF GatewaySpec

-----------------------------------------------------------------------------
(* The front door *)

\* A behaviour of the four parts together is one of each of them, which is what
\* lets every theorem about a part stand for the front door.
THEOREM FrontParts == Spec => GatewaySpec /\ StreamSpec /\ SessionsSpec /\ LimiterSpec
<1>1. Init => GatewayInit /\ StreamInit /\ SessionsInit /\ LimiterInit
  BY DEF Init
<1>2. [Next]_vars => /\ [GatewayNext]_gatewayVars /\ [StreamNext]_streamVars
                     /\ [SessionsNext]_sessionVars /\ [LimiterNext]_limiterVars
  BY DEF Next, vars, GatewayStep, StreamStep, SessionsStep, LoginsStep
<1> QED
  BY <1>1, <1>2, PTL DEF Spec, GatewaySpec, StreamSpec, SessionsSpec, LimiterSpec

\* The gateway, its stream, the sessions and the limit on logins have their
\* types in every behaviour, for any bounds.
THEOREM FrontTypes == Spec => []TypeOK
<1>1. GatewaySpec => []GatewayTypeOK
  BY GatewayStart, GatewayTypes, PTL DEF GatewaySpec
<1>2. StreamSpec => []StreamInv
  BY StreamStart, StreamTypes, PTL DEF StreamSpec
<1>3. SessionsSpec => []SessionsTypeOK
  BY SessionsStart, SessionsTypes, PTL DEF SessionsSpec
<1>4. GatewayTypeOK /\ StreamInv /\ SessionsTypeOK /\ LimitInv => TypeOK
  BY StreamTyped DEF TypeOK, LimitInv
<1> QED
  BY <1>1, <1>2, <1>3, <1>4, FrontParts, LimitInvariant, PTL

\* What users are served, how often they pass and may log in, from which source and on
\* which token: what is proved of each part holds of the parts together.
THEOREM FrontSafe ==
  Spec => [](/\ ServedFresh /\ RateKept /\ OneSource /\ QueueIsNewest
             /\ OneActivePerLogin /\ LoginsLimited)
BY FrontParts, ServedFreshHolds, RateKeptHolds, OneSourceHolds, QueueIsNewestHolds, OneActivePerLoginHolds,
   LoginsLimitedHolds, PTL

=============================================================================
