--------------------------------- MODULE OAuth ---------------------------------
(***************************************************************************)
(* OAuth for one upstream server (auth/): the tokens in the OS keychain,   *)
(* the hub processes that use and refresh them, and the commands `auth     *)
(* login' and `auth logout', each a process of its own.                    *)
(*                                                                         *)
(* External: the SDK's OAuthClientProvider, which reads the keychain once  *)
(* for every client that is built, answers a 401 with one refresh and then *)
(* with a new authorization, and the authorization server, which lets a    *)
(* refresh token be used once.  A token is a number in the order of issue. *)
(***************************************************************************)
EXTENDS Integers, FiniteSets

CONSTANTS
    Hubs,       \* hub processes (an HTTP daemon, stdio hubs)
    MaxTokens,  \* bound on the tokens issued
    MaxLogins   \* bound on login commands

\* A login of the past may have left a token, which is one of them.
ASSUME OAuthAssumption == MaxTokens \in Nat \ {0} /\ MaxLogins \in Nat

VARIABLES
    token,     \* the token account of the keychain; 0: empty
    client,    \* the client account: an issuer; 0: empty
    locked,    \* the clients are built with a lock path
    lock,      \* the hubs that hold the refresh lock
    hub,       \* what each hub is doing
    login,     \* the login command under way
    callback,  \* its callback server
    logins,    \* how many logins there have been
    logout,    \* the logout command
    issued,    \* server: tokens issued so far
    issuers,   \* server: the issuer of each of them
    issuer,    \* server: the issuer now, perhaps another than that of the past login
    live,      \* server: the newest access token has not expired
    meddled    \* history: the keychain was written under a login or a refresh

keychain == <<token, client>>
server == <<issued, issuers, issuer, live>>
loginVars == <<login, callback, logins>>
oauthVars == <<keychain, locked, lock, hub, loginVars, logout, server, meddled>>

Token == 0..MaxTokens

Issuer == 1..2

Hub == [pc : {"down", "answered", "refused", "refreshing", "storing", "up", "auth_required"},
        mem : Token, new : Token]

Down == [pc |-> "down", mem |-> 0, new |-> 0]

Login ==
    [pc : {"idle", "probe", "forget", "register", "wait", "exchange", "store",
           "trailing", "check", "report"},
     prior : Token, mem : Token, new : Token, stored : BOOLEAN,
     accepted : BOOLEAN,  \* history: the stored token was good when the endpoint answered
     fault : BOOLEAN,     \* history: the token was refused, or the transport failed
     outcome : {"none", "success", "failed"}]

NoLogin ==
    [pc |-> "idle", prior |-> 0, mem |-> 0, new |-> 0, stored |-> FALSE,
     accepted |-> FALSE, fault |-> FALSE, outcome |-> "none"]

\* `conn' is the connection that is being read.
Callback ==
    [used : BOOLEAN, conn : {"none", "redirect", "stray"},
     result : {"none", "code", "exception"}]

FreshCallback == [used |-> FALSE, conn |-> "none", result |-> "none"]

OAuthTypeOK ==
    /\ token \in Token
    /\ client \in Issuer \cup {0}
    /\ locked \in BOOLEAN
    /\ lock \subseteq Hubs
    /\ hub \in [Hubs -> Hub]
    /\ login \in Login
    /\ callback \in Callback
    /\ logins \in 0..MaxLogins
    /\ logout \in {"idle", "client"}
    /\ issued \in Token
    /\ issuers \in [1..MaxTokens -> Issuer]
    /\ issuer \in Issuer
    /\ live \in BOOLEAN
    /\ meddled \in BOOLEAN

\* build_oauth_http_client wraps the provider when it is given a lock path;
\* OutboundClient gives it none.
\* A login of the past may have left a token, expired or not.
OAuthInit ==
    /\ token \in {0, 1}
    /\ client = token
    /\ locked \in BOOLEAN
    /\ lock = {}
    /\ hub = [h \in Hubs |-> Down]
    /\ login = NoLogin
    /\ callback = FreshCallback
    /\ logins = 0
    /\ logout = "idle"
    /\ issued = token
    /\ issuers = [t \in 1..MaxTokens |-> 1]
    /\ issuer \in Issuer
    /\ live \in BOOLEAN
    /\ meddled = FALSE

------------------------------------------------------------------------------
(* The authorization server *)

Issue ==
    /\ issued < MaxTokens
    /\ issued' = issued + 1
    /\ issuers' = [issuers EXCEPT ![issued + 1] = issuer]
    /\ live' = TRUE
    /\ UNCHANGED issuer

Expire ==
    /\ live
    /\ live' = FALSE
    /\ UNCHANGED <<keychain, locked, lock, hub, loginVars, logout, issued, issuers, issuer, meddled>>

\* The server accepts the newest access token until it expires.
Accepted(t) == t # 0 /\ t = issued /\ live

\* A refresh token is good for one use: it is the newest, of the issuer of now.
Refreshable(t) == t # 0 /\ t = issued /\ issuers[t] = issuer

------------------------------------------------------------------------------
(* A hub: build_oauth_http_client and _LockedAuth.async_auth_flow *)

HubStep(h, pc) == hub' = [hub EXCEPT ![h].pc = pc]

HubOnly == UNCHANGED <<keychain, locked, loginVars, logout, server, meddled>>

\* The first request of a flow is sent, with the token in memory, and answered
\* outside the lock.
FirstAnswer(t) == IF Accepted(t) THEN "answered" ELSE "refused"

\* A client is built for a connection; the provider loads the stored token.
HubConnect(h) ==
    /\ hub[h].pc \in {"down", "auth_required"}
    /\ hub' = [hub EXCEPT ![h] = [Down EXCEPT !.pc = FirstAnswer(token), !.mem = token]]
    /\ UNCHANGED lock
    /\ HubOnly

HubRequest(h) ==
    /\ hub[h].pc = "up"
    /\ HubStep(h, FirstAnswer(hub[h].mem))
    /\ UNCHANGED lock
    /\ HubOnly

\* refresh_lock_context is entered whatever the answer was.
HasLock(h) == ~locked \/ h \in lock

\* Acquired before the rest of the flow.
HubLock(h) ==
    /\ locked
    /\ hub[h].pc \in {"answered", "refused"}
    /\ lock = {}
    /\ lock' = {h}
    /\ UNCHANGED hub
    /\ HubOnly

\* Mutant: it tries again.
HubLockRetries(h) ==
    /\ hub[h].pc \in {"answered", "refused"}
    /\ lock \ {h} # {}
    /\ UNCHANGED <<hub, lock>>
    /\ HubOnly

\* filelock gives up after 30 seconds, and the request fails.
HubLockTimeout(h) ==
    /\ hub[h].pc \in {"answered", "refused"}
    /\ lock \ {h} # {}
    /\ hub' = [hub EXCEPT ![h] = Down]
    /\ UNCHANGED lock
    /\ HubOnly

\* OAuthFlowError ends the flow; OutboundClient.connect makes it the state
\* auth_required of the connection.
HubAuthRequired(h) ==
    /\ hub' = [hub EXCEPT ![h] = [Down EXCEPT !.pc = "auth_required"]]
    /\ lock' = lock \ {h}

\* Mutant: the lock is released before the token request.
HubHandlesUnlocked(h) ==
    /\ hub[h].pc \in {"answered", "refused"}
    /\ HasLock(h)
    /\ HubStep(h, CASE hub[h].pc = "answered" -> "up"
                    [] hub[h].pc = "refused" /\ hub[h].mem # 0 -> "refreshing"
                    [] OTHER -> "auth_required")
    /\ lock' = lock \ {h}
    /\ HubOnly

\* What the provider makes of the answer: nothing more to do, a refresh, or an
\* authorization that the runtime provider has no redirect handler for.
HubHandles(h) ==
    /\ hub[h].pc \in {"answered", "refused"}
    /\ HasLock(h)
    /\ \/ /\ hub[h].pc = "answered"
          /\ HubStep(h, "up")
          /\ lock' = lock \ {h}
       \/ /\ hub[h].pc = "refused"
          /\ hub[h].mem # 0
          /\ HubStep(h, "refreshing")
          /\ UNCHANGED lock
       \/ /\ hub[h].pc = "refused"
          /\ hub[h].mem = 0
          /\ HubAuthRequired(h)
    /\ HubOnly

HubRefreshed(h) ==
    /\ hub[h].pc = "refreshing"
    /\ Refreshable(hub[h].mem)
    /\ Issue
    /\ hub' = [hub EXCEPT ![h].pc = "storing", ![h].new = issued + 1]
    /\ UNCHANGED <<keychain, locked, lock, loginVars, logout, meddled>>

HubRefreshRefused(h) ==
    /\ hub[h].pc = "refreshing"
    /\ ~Refreshable(hub[h].mem)
    /\ HubAuthRequired(h)
    /\ HubOnly

\* KeyringTokenStorage.set_tokens; the request is sent again, and the flow, and
\* with it the lock, ends.
HubStores(h) ==
    /\ hub[h].pc = "storing"
    /\ token' = hub[h].new
    /\ hub' = [hub EXCEPT ![h].pc = "up", ![h].mem = hub[h].new, ![h].new = 0]
    /\ lock' = lock \ {h}
    /\ meddled' = (meddled \/ login.pc # "idle" \/ token # hub[h].mem)
    /\ UNCHANGED <<client, locked, loginVars, logout, server>>

\* An exception (the keychain is not available, a network error) or the end of
\* the process; either releases the lock.
HubFails(h) ==
    /\ hub[h].pc # "down"
    /\ hub' = [hub EXCEPT ![h] = Down]
    /\ lock' = lock \ {h}
    /\ HubOnly

------------------------------------------------------------------------------
(* auth login: run_login_flow and the CallbackServer *)

LoginStep(pc) == login' = [login EXCEPT !.pc = pc]

LoginOnly == UNCHANGED <<keychain, locked, lock, hub, logins, logout, server, meddled>>

\* The callback server is bound and the stored token is read.
LoginStart ==
    /\ login.pc = "idle"
    /\ logins < MaxLogins
    /\ logins' = logins + 1
    /\ login' = [NoLogin EXCEPT !.pc = "probe", !.prior = token, !.mem = token]
    /\ callback' = FreshCallback
    /\ UNCHANGED <<keychain, locked, lock, hub, logout, server, meddled>>

\* The driving GET is answered: with a 401 the authorization begins with the
\* discovery of the issuer and the registration of the client.  Any other
\* answer ends the flow, whatever it says: an endpoint that need not serve a
\* plain GET answers 404 or 405 without a look at the token.
LoginProbe ==
    /\ login.pc = "probe"
    /\ \/ login' = [login EXCEPT !.pc = "report", !.accepted = Accepted(login.mem)]
       \/ /\ ~Accepted(login.mem)
          /\ login' = [login EXCEPT !.pc = "forget", !.fault = TRUE]
    /\ UNCHANGED callback
    /\ LoginOnly

\* Mutant: the token is kept.
LoginForgetNothing ==
    /\ login.pc = "forget"
    /\ LoginStep("register")
    /\ UNCHANGED <<keychain, locked, lock, hub, callback, logins, logout, server, meddled>>

\* set_client_info: a token of another issuer is deleted...
LoginForget ==
    /\ login.pc = "forget"
    /\ token' = IF client \notin {0, issuer} THEN 0 ELSE token
    /\ LoginStep("register")
    /\ UNCHANGED <<client, locked, lock, hub, callback, logins, logout, server, meddled>>

\* ...before the new client information is written; the browser is opened.
LoginRegister ==
    /\ login.pc = "register"
    /\ client' = issuer
    /\ LoginStep("wait")
    /\ UNCHANGED <<token, locked, lock, hub, callback, logins, logout, server, meddled>>

\* A connection to the callback server: the first one uses it up, later ones
\* are told 410.
CallbackConnect(kind) ==
    /\ login.pc = "wait"
    /\ ~callback.used
    /\ callback' = [callback EXCEPT !.used = TRUE, !.conn = kind]
    /\ UNCHANGED login
    /\ LoginOnly

\* Its request is read: only a GET of the callback path sets the result; a
\* request that is late, too long or other is answered and forgotten.
CallbackRead ==
    /\ callback.conn # "none"
    /\ \/ callback' = [callback EXCEPT !.conn = "none", !.result = "exception"]
       \/ callback' = [callback EXCEPT !.conn = "none",
              !.result = IF callback.conn = "redirect" THEN "code" ELSE callback.result]
    /\ UNCHANGED login
    /\ LoginOnly

\* callback_handler returns the code, raises what the connection raised, or
\* gives up after 120 seconds.
LoginAuthorized ==
    /\ login.pc = "wait"
    /\ callback.result = "code"
    /\ LoginStep("exchange")
    /\ UNCHANGED callback
    /\ LoginOnly

LoginEnds(outcome) ==
    /\ login' = [NoLogin EXCEPT !.outcome = outcome]
    /\ callback' = FreshCallback

LoginRefused ==
    /\ login.pc = "wait"
    /\ callback.result = "exception"
    /\ LoginEnds("failed")
    /\ LoginOnly

\* Mutant: the first connection ends the waiting time.
LoginTimeoutUnused ==
    /\ login.pc = "wait"
    /\ ~callback.used
    /\ LoginEnds("failed")
    /\ LoginOnly

LoginTimeout ==
    /\ login.pc = "wait"
    /\ callback.result = "none"
    /\ LoginEnds("failed")
    /\ LoginOnly

LoginExchange ==
    /\ login.pc = "exchange"
    /\ Issue
    /\ login' = [login EXCEPT !.pc = "store", !.new = issued + 1]
    /\ UNCHANGED <<keychain, locked, lock, hub, callback, logins, logout, meddled>>

LoginStore ==
    /\ login.pc = "store"
    /\ token' = login.new
    /\ login' = [login EXCEPT !.pc = "trailing", !.stored = TRUE]
    /\ UNCHANGED <<client, locked, lock, hub, callback, logins, logout, server, meddled>>

\* The endpoint answers the GET at last, whatever it says.
LoginAnswered ==
    /\ login.pc = "trailing"
    /\ LoginStep("report")
    /\ UNCHANGED callback
    /\ LoginOnly

\* A transport error, in the exchange or after it.
LoginHTTPError ==
    /\ login.pc \in {"probe", "exchange", "trailing"}
    /\ login' = [login EXCEPT !.pc = "check", !.fault = TRUE]
    /\ UNCHANGED callback
    /\ LoginOnly

\* Mutant: any token will do.
LoginCheckAny ==
    /\ login.pc = "check"
    /\ IF token = 0
       THEN LoginEnds("failed")
       ELSE LoginStep("report") /\ UNCHANGED callback
    /\ LoginOnly

\* It is an error of the login unless the stored token has changed.
LoginCheck ==
    /\ login.pc = "check"
    /\ IF token \in {0, login.prior}
       THEN LoginEnds("failed")
       ELSE LoginStep("report") /\ UNCHANGED callback
    /\ LoginOnly

\* _print_login_success
LoginReport ==
    /\ login.pc = "report"
    /\ LoginEnds(IF token = 0 THEN "failed" ELSE "success")
    /\ LoginOnly

\* Any other exception, or the end of the process.
LoginFails ==
    /\ login.pc # "idle"
    /\ LoginEnds("failed")
    /\ LoginOnly

\* auth logout: two deletions, and the process may end between them.
LogoutToken ==
    /\ logout = "idle"
    /\ token # 0 \/ client # 0
    /\ token' = 0
    /\ logout' = "client"
    /\ meddled' = (meddled \/ login.pc # "idle")
    /\ UNCHANGED <<client, locked, lock, hub, loginVars, server>>

LogoutClient ==
    /\ logout = "client"
    /\ client' \in {0, client}
    /\ logout' = "idle"
    /\ UNCHANGED <<token, locked, lock, hub, loginVars, server, meddled>>

HubAction(h) ==
    \/ HubConnect(h)
    \/ HubRequest(h)
    \/ HubLock(h)
    \/ HubLockTimeout(h)
    \/ HubHandles(h)
    \/ HubRefreshed(h)
    \/ HubRefreshRefused(h)
    \/ HubStores(h)
    \/ HubFails(h)

LoginAction ==
    \/ LoginStart
    \/ LoginProbe
    \/ LoginForget
    \/ LoginRegister
    \/ \E kind \in {"redirect", "stray"} : CallbackConnect(kind)
    \/ CallbackRead
    \/ LoginAuthorized
    \/ LoginRefused
    \/ LoginTimeout
    \/ LoginExchange
    \/ LoginStore
    \/ LoginAnswered
    \/ LoginHTTPError
    \/ LoginCheck
    \/ LoginReport
    \/ LoginFails
    \/ LogoutToken
    \/ LogoutClient

OAuthNext ==
    \/ Expire
    \/ LoginAction
    \/ \E h \in Hubs : HubAction(h)

\* A request that was sent is answered or fails, the lock is acquired or given
\* up, and the callback server waits at most 120 seconds.
HubProgress(h) ==
    \/ HubLock(h)
    \/ HubLockTimeout(h)
    \/ HubHandles(h)
    \/ HubRefreshed(h)
    \/ HubRefreshRefused(h)
    \/ HubStores(h)
    \/ hub[h].pc = "refreshing" /\ HubFails(h)

LoginProgress ==
    \/ LoginProbe
    \/ LoginForget
    \/ LoginRegister
    \/ LoginAuthorized
    \/ LoginRefused
    \/ LoginTimeout
    \/ LoginExchange
    \/ LoginStore
    \/ LoginAnswered
    \/ LoginHTTPError
    \/ LoginCheck
    \/ LoginReport

OAuthFairness ==
    /\ \A h \in Hubs : WF_oauthVars(HubProgress(h))
    /\ WF_oauthVars(LoginProgress)

OAuthSpec == OAuthInit /\ [][OAuthNext]_oauthVars /\ OAuthFairness

------------------------------------------------------------------------------
(* Properties *)

\* Hubs between the token request and the storing of its answer.
Exchanging == {h \in Hubs : hub[h].pc \in {"refreshing", "storing"}}

\* With a lock path, no two processes refresh at the same time, whichever of
\* them fail, time out or die in between.
LockedRefresh == locked => Cardinality(Exchanging) <= 1

\* CHANGELOG: "Token refresh is serialized across tasks and processes."  The
\* code does not keep this: outbound.py passes no lock path.
RefreshSerialized == Cardinality(Exchanging) <= 1

\* run_login_flow: a login that nobody interfered with hides no failure that
\* it met.  After a refused token or a transport error, wherever in the flow,
\* success is reported only if this login stored a token.
NoFailureHidden ==
    [][ /\ ~meddled
        /\ login.pc # "idle"
        /\ login'.outcome = "success"
      => login.stored \/ ~login.fault ]_oauthVars

\* broker.py: "a failed (re-)login can never look like success on a stale
\* token".  A login that nobody interfered with is reported as successful only
\* when it stored a token, or when the stored one was good.  The code does not
\* keep this: an answer that is no 401 says nothing about the token.
NoFalseLogin ==
    [][ /\ ~meddled
        /\ login.pc # "idle"
        /\ login'.outcome = "success"
      => login.stored \/ login.accepted ]_oauthVars

\* The stored token comes from the issuer of the stored client information,
\* even if the login that changed the issuer dies half way.
IssuerMatches ==
    ~meddled /\ token # 0 /\ client # 0 => issuers[token] = client

\* Every request of a hub comes to an end, whoever holds the lock.
RequestsEnd ==
    \A h \in Hubs : hub[h].pc \in {"answered", "refused"} ~> hub[h].pc \in {"up", "auth_required", "down"}

\* A login comes to an end, also when another request used the callback up.
LoginsEnd == login.pc # "idle" ~> login.pc = "idle"

==============================================================================
