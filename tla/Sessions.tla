------------------------------- MODULE Sessions -------------------------------
(***************************************************************************)
(* The auth service, with the refresh tokens it keeps in Redis, and the    *)
(* web application's use of it: the start of the page and the login form   *)
(* both store tokens, every request reads them, and a 401 on any of them   *)
(* may remove them.                                                        *)
(***************************************************************************)
EXTENDS Integers, Sequences

CONSTANTS
  People,
  Dev,         \* DEV_USERNAME, whom the page logs in by itself
  Secrets,     \* the secrets of pyotp
  MaxTokens,   \* bound on the refresh tokens
  MaxRequests  \* bound on the page's other requests

ASSUME DevAssumption == Dev \in People
ASSUME SessionBounds == MaxTokens \in Nat \ {0} /\ MaxRequests \in Nat

VARIABLES
  accounts,   \* the users table: second factor of each account
  tokens,     \* refresh tokens by jti, with the login each descends from
  stored,     \* the page's local storage
  user,       \* whom the page shows
  offline,    \* shouldUseLocalLive
  call,       \* what each activity of the page waits for
  requests

sessionVars == <<accounts, tokens, stored, user, offline, call, requests>>

None == "none"

NoFactor == [secret |-> None, enabled |-> FALSE]

Factors == [secret : Secrets, enabled : BOOLEAN] \union {NoFactor}

Activities == {"boot", "form", "request"}

Idle == [step |-> "idle", as |-> None]

\* as: the owner of the token a request went out with.
Calls == [step : {"me0", "login", "me1", "get", "refresh_me0", "refresh_login",
                  "refresh_me1", "refresh_get"},
          as : People \union {None, "offline"}] \union {Idle}

-----------------------------------------------------------------------------
(* Auth service; every call of Redis may raise, which ends the handler *)

Jtis == 1..Len(tokens)

Register(ts, login) == Append(ts, [login |-> login, active |-> TRUE])

\* The logins so far are numbered by their first token.
NewLogin(ts) == Len(ts) + 1

\* POST /token: Redis may fail before the token is registered, or after it,
\* when the failed logins are reset; the caller gets the token in neither case.
Login ==
  /\ Len(tokens) < MaxTokens
  /\ tokens' = Register(tokens, NewLogin(tokens))
  /\ UNCHANGED <<accounts, stored, user, offline, call, requests>>

\* Mutant: the token that was exchanged stays active.
Rotated_OldKept(ts, jti) == ts

Rotated(ts, jti) == [ts EXCEPT ![jti].active = FALSE]

\* POST /refresh: look up, revoke, register.  When the last call raises, the
\* login has no token any more.
Refresh(jti) ==
  /\ tokens[jti].active
  /\ \/ tokens' = Rotated(tokens, jti)
     \/ /\ Len(tokens) < MaxTokens
        /\ tokens' = Register(Rotated(tokens, jti), tokens[jti].login)
  /\ UNCHANGED <<accounts, stored, user, offline, call, requests>>

\* The key's time to live in Redis ends.
Expire(jti) ==
  /\ tokens[jti].active
  /\ tokens' = [tokens EXCEPT ![jti].active = FALSE]
  /\ UNCHANGED <<accounts, stored, user, offline, call, requests>>

AccountsOnly == UNCHANGED <<tokens, stored, user, offline, call, requests>>

CreateUser(u) ==
  /\ u \notin DOMAIN accounts
  /\ accounts' = [v \in DOMAIN accounts \union {u} |->
                    IF v = u THEN NoFactor ELSE accounts[v]]
  /\ AccountsOnly

SetUp2fa(u, secret) ==
  /\ ~accounts[u].enabled
  /\ accounts' = [accounts EXCEPT ![u].secret = secret]
  /\ AccountsOnly

\* The code of the caller may be of a secret that was replaced meanwhile.
Enable2fa(u, secret) ==
  /\ accounts[u].secret = secret
  /\ accounts' = [accounts EXCEPT ![u].enabled = TRUE]
  /\ AccountsOnly

\* Mutant: the flag is not reset with the secret.
Disable2fa_FlagKept(u) ==
  /\ accounts[u].enabled
  /\ accounts' = [accounts EXCEPT ![u].secret = None]
  /\ AccountsOnly

Disable2fa(u) ==
  /\ accounts[u].enabled
  /\ accounts' = [accounts EXCEPT ![u] = NoFactor]
  /\ AccountsOnly

-----------------------------------------------------------------------------
(* The page: client.ts and AuthContext.tsx *)

NoTokens == [access |-> None, refresh |-> 0]

EnsureOfflineToken(s) == IF s.access = None THEN [s EXCEPT !.access = "offline"] ELSE s

Removed(s) == NoTokens

Asking(step) == [step |-> step, as |-> stored.access]

ServerIdle == UNCHANGED <<accounts, tokens>>

\* bootstrap
Start ==
  /\ call["boot"] = Idle
  /\ user = "guest"
  /\ IF offline
     THEN /\ stored' = EnsureOfflineToken(stored)
          /\ user' = "offline_user"
          /\ UNCHANGED call
     ELSE /\ call' = [call EXCEPT !["boot"] =
                        Asking(IF stored.access \in People THEN "me0" ELSE "login")]
          /\ UNCHANGED <<stored, user>>
  /\ ServerIdle /\ UNCHANGED <<offline, requests>>

\* The login form.
SubmitForm ==
  /\ call["form"] = Idle
  /\ requests < MaxRequests
  /\ requests' = requests + 1
  /\ IF offline
     THEN /\ stored' = EnsureOfflineToken(stored)
          /\ user' = "offline_user"
          /\ UNCHANGED call
     ELSE /\ call' = [call EXCEPT !["form"] = Asking("login")]
          /\ UNCHANGED <<stored, user>>
  /\ ServerIdle /\ UNCHANGED offline

Get ==
  /\ call["request"] = Idle
  /\ requests < MaxRequests
  /\ requests' = requests + 1
  /\ call' = [call EXCEPT !["request"] = Asking("get")]
  /\ ServerIdle /\ UNCHANGED <<stored, user, offline>>

Logout ==
  /\ requests < MaxRequests
  /\ requests' = requests + 1
  /\ stored' = IF offline THEN EnsureOfflineToken(NoTokens) ELSE NoTokens
  /\ user' = IF offline THEN "offline_user" ELSE "guest_user"
  /\ ServerIdle /\ UNCHANGED <<offline, call>>

NetworkEvent ==
  /\ requests < MaxRequests
  /\ requests' = requests + 1
  /\ offline' = ~offline
  /\ ServerIdle /\ UNCHANGED <<stored, user, call>>

\* The login is answered: both tokens are stored, and the page asks whose they
\* are.
LoginAnswered(a) ==
  /\ call[a].step = "login"
  /\ Len(tokens) < MaxTokens
  /\ \E u \in IF a = "boot" THEN {Dev} ELSE DOMAIN accounts :
       /\ u \in DOMAIN accounts
       /\ stored' = [access |-> u, refresh |-> NewLogin(tokens)]
       /\ call' = [call EXCEPT ![a] = [step |-> "me1", as |-> u]]
  /\ tokens' = Register(tokens, NewLogin(tokens))
  /\ UNCHANGED <<accounts, user, offline, requests>>

\* Any other answer of success.
Answered(a) ==
  /\ call[a].step \in {"me0", "me1", "get"}
  /\ call[a].as \in People
  /\ call' = [call EXCEPT ![a] = Idle]
  /\ user' = IF a = "request" THEN user ELSE call[a].as
  /\ ServerIdle /\ UNCHANGED <<stored, offline, requests>>

\* What the activity does about an error; s is what is stored by then.
Rejected(a, step, s) ==
  CASE a = "boot" /\ step = "me0" ->
         /\ stored' = Removed(s)
         /\ call' = [call EXCEPT ![a] = [step |-> "login", as |-> None]]
         /\ UNCHANGED user
    [] a = "boot" /\ step # "me0" ->
         /\ stored' = EnsureOfflineToken(s)
         /\ user' = "offline_user"
         /\ call' = [call EXCEPT ![a] = Idle]
    [] OTHER ->
         /\ stored' = s
         /\ call' = [call EXCEPT ![a] = Idle]
         /\ UNCHANGED user

RefreshOf(step) == CASE step = "me0" -> "refresh_me0" [] step = "login" -> "refresh_login"
                     [] step = "me1" -> "refresh_me1" [] OTHER -> "refresh_get"

\* A 401 (an expired or made-up token, a wrong password) asks for a refresh with
\* the refresh token stored by now; any other error is passed on.
Failed401(a) ==
  /\ call[a].step \in {"me0", "login", "me1", "get"}
  /\ IF stored.refresh # 0 /\ ~offline
     THEN /\ call' = [call EXCEPT ![a].step = RefreshOf(@)]
          /\ UNCHANGED <<stored, user>>
     ELSE Rejected(a, call[a].step, stored)
  /\ ServerIdle /\ UNCHANGED <<offline, requests>>

FailedOtherwise(a) ==
  /\ call[a].step \in {"me0", "login", "me1", "get"}
  /\ Rejected(a, call[a].step, stored)
  /\ ServerIdle /\ UNCHANGED <<offline, requests>>

\* The page sends the token in the body, where the service does not look for
\* it (422): the tokens are removed, whoever stored them.
RefreshFails(a) ==
  \E step \in {"me0", "login", "me1", "get"} :
    /\ call[a].step = RefreshOf(step)
    /\ Rejected(a, step, Removed(stored))
    /\ ServerIdle /\ UNCHANGED <<offline, requests>>

\* Tokens of an earlier visit may be stored.
SessionsInit ==
  /\ accounts = [u \in {Dev} |-> NoFactor]
  /\ \/ tokens = <<>> /\ stored = NoTokens
     \/ tokens = Register(<<>>, 1) /\ stored = [access |-> Dev, refresh |-> 1]
  /\ user = "guest"
  /\ offline \in BOOLEAN
  /\ call = [a \in Activities |-> Idle]
  /\ requests = 0

SessionsNext ==
  \/ Login
  \/ \E jti \in Jtis : Refresh(jti) \/ Expire(jti)
  \/ \E u \in People : CreateUser(u)
  \/ \E u \in DOMAIN accounts, secret \in Secrets : SetUp2fa(u, secret) \/ Enable2fa(u, secret)
  \/ \E u \in DOMAIN accounts : Disable2fa(u)
  \/ Start \/ SubmitForm \/ Get \/ Logout \/ NetworkEvent
  \/ \E a \in Activities :
       LoginAnswered(a) \/ Answered(a) \/ Failed401(a) \/ FailedOtherwise(a) \/ RefreshFails(a)

SessionsSpec == SessionsInit /\ [][SessionsNext]_sessionVars

-----------------------------------------------------------------------------
(* Properties *)

\* The state of accounts, tokens and page has its types.
SessionsTypeOK ==
  /\ DOMAIN accounts \subseteq People
  /\ \A u \in DOMAIN accounts : accounts[u] \in Factors
  /\ tokens \in Seq([login : 1..MaxTokens, active : BOOLEAN])
  /\ stored \in [access : People \union {None, "offline"}, refresh : 0..Len(tokens)]
  /\ user \in People \union {"guest", "guest_user", "offline_user"}
  /\ offline \in BOOLEAN
  /\ call \in [Activities -> Calls]
  /\ requests \in 0..MaxRequests

\* However refreshes fail between their calls of Redis, a login never has two
\* refresh tokens that work: one that was exchanged does not come back.
OneActivePerLogin ==
  \A i, j \in Jtis :
    tokens[i].login = tokens[j].login /\ tokens[i].active /\ tokens[j].active => i = j

=============================================================================
