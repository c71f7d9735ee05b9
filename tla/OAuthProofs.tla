------------------------------ MODULE OAuthProofs ------------------------------
(***************************************************************************)
(* Proofs about module OAuth, for any number of hubs, tokens and logins.   *)
(*                                                                         *)
(* That refreshes exclude each other rests on Guarded: whoever is between  *)
(* the token request and the storing of its answer is the holder of the    *)
(* lock.  That token and client information belong together rests on       *)
(* Matched, which follows a token from the server to the keychain: a token *)
(* under way is one of the issuer of now, and the token in the keychain    *)
(* may be of another issuer only where the next step of the login deletes  *)
(* it, or where the client information says so.  That no login is falsely  *)
(* reported rests on Honest: a login that has stored nothing finds the     *)
(* token it began with, or none.                                           *)
(***************************************************************************)
EXTENDS OAuth, FiniteSetTheorems, TLAPS

\* Nobody has a token that was not issued.
Bounded ==
    /\ token <= issued
    /\ login.new <= issued
    /\ \A h \in Hubs : hub[h].mem <= issued /\ hub[h].new <= issued

\* Types and bounds.
Typed == OAuthTypeOK /\ Bounded

\* With a lock path, hubs that refresh have the lock, and one at most has it.
Guarded ==
    locked =>
        /\ \A h \in Hubs : hub[h].pc \in {"refreshing", "storing"} => h \in lock
        /\ \A g, h \in lock : g = h

\* Token t was issued by the issuer of now.
Current(t) == t # 0 /\ issuers[t] = issuer

\* Tokens under way, and what the keychain holds while nobody meddles.
Matched ==
    /\ \A h \in Hubs : hub[h].pc = "storing" => Current(hub[h].mem) /\ Current(hub[h].new)
    /\ login.pc = "store" => Current(login.new)
    /\ login.pc \in {"wait", "exchange", "store"} => client \in {0, issuer}
    /\ ~meddled /\ token # 0 =>
          /\ client # 0 => issuers[token] = client
          /\ client = 0 \/ logout = "client" \/ login.pc = "register" => issuers[token] = issuer

\* A login under way has no outcome yet, and reports a success for a reason.
Honest ==
    /\ login.pc # "idle" => login.outcome = "none"
    /\ login.pc = "trailing" => login.stored
    /\ login.pc = "probe" => ~login.fault
    /\ ~meddled /\ login.pc = "report" => login.stored \/ ~login.fault
    /\ ~meddled /\ login.pc # "idle" /\ ~login.stored => token \in {0, login.prior}

\* The invariant.
OAuthInv == Typed /\ Guarded /\ Matched /\ Honest

------------------------------------------------------------------------------
(* The initial states *)

\* The records the components start and end in are states of theirs.
LEMMA Blank == Down \in Hub /\ NoLogin \in Login /\ FreshCallback \in Callback
<1> 0 \in Token
  BY OAuthAssumption DEF Token
<1>1. Down \in Hub
  BY DEF Down, Hub
<1>2. NoLogin \in Login
  BY DEF NoLogin, Login
<1>3. FreshCallback \in Callback
  BY DEF FreshCallback, Callback
<1> QED
  BY <1>1, <1>2, <1>3

\* The invariant holds at first, whether or not a past login has left a token.
LEMMA OAuthInitInv == OAuthInit => OAuthInv
<1> SUFFICES ASSUME OAuthInit PROVE OAuthInv
  OBVIOUS
<1> USE OAuthAssumption DEF OAuthInit
<1>1. Typed
  <2>1. /\ token \in Token /\ issued \in Token /\ client \in Issuer \cup {0}
        /\ logins \in 0..MaxLogins /\ issuers \in [1..MaxTokens -> Issuer]
    BY DEF Token, Issuer
  <2>2. hub \in [Hubs -> Hub] /\ login \in Login /\ callback \in Callback
    BY Blank
  <2>3. OAuthTypeOK
    BY <2>1, <2>2, Zenon DEF OAuthTypeOK
  <2>4. Bounded
    BY DEF Bounded, Down, NoLogin
  <2> QED
    BY <2>3, <2>4 DEF Typed
<1>2. Guarded
  BY DEF Guarded, Down
<1>3. Matched
  BY DEF Matched, Down, NoLogin
<1>4. Honest
  BY DEF Honest, NoLogin
<1> QED
  BY <1>1, <1>2, <1>3, <1>4 DEF OAuthInv

------------------------------------------------------------------------------
(* Types *)

\* A step that gives a hub a new record, whose tokens were issued, is well typed.
LEMMA HubSet ==
    ASSUME Typed, NEW h \in Hubs, NEW r \in Hub, r.mem <= issued, r.new <= issued,
           hub' = [hub EXCEPT ![h] = r], lock' \subseteq Hubs,
           UNCHANGED <<locked, loginVars, logout, server>>,
           token' \in Token, token' <= issued, client' = client, meddled' \in BOOLEAN
    PROVE  Typed'
BY DEF Typed, Bounded, OAuthTypeOK, server, loginVars

\* The steps of a hub keep its state well formed.
LEMMA HubTyped ==
    ASSUME Typed, NEW h \in Hubs, HubAction(h)
    PROVE  Typed'
<1> USE OAuthAssumption
<1>0. /\ token \in Token /\ token \in Nat /\ token <= issued /\ issued \in Nat
      /\ meddled \in BOOLEAN /\ lock \subseteq Hubs /\ hub[h] \in Hub
      /\ hub[h].mem <= issued /\ hub[h].new <= issued
  BY DEF Typed, Bounded, OAuthTypeOK, Token
<1>d. Down \in Hub /\ Down.mem <= issued /\ Down.new <= issued
  BY <1>0, Blank DEF Down
<1>1. CASE HubConnect(h)
  <2> DEFINE r == [Down EXCEPT !.pc = FirstAnswer(token), !.mem = token]
  <2>1. r \in Hub /\ r.mem <= issued /\ r.new <= issued
    BY <1>0, <1>d DEF Hub, Down, FirstAnswer
  <2>2. hub' = [hub EXCEPT ![h] = r]
    BY <1>1 DEF HubConnect
  <2> HIDE DEF r
  <2> QED
    BY <1>0, <1>1, <2>1, <2>2, HubSet DEF HubConnect, HubOnly, keychain
<1>2. CASE HubRequest(h)
  <2> DEFINE r == [hub[h] EXCEPT !.pc = FirstAnswer(hub[h].mem)]
  <2>1. r \in Hub /\ r.mem <= issued /\ r.new <= issued
    BY <1>0 DEF Hub, FirstAnswer
  <2>2. hub' = [hub EXCEPT ![h] = r]
    BY <1>2 DEF HubRequest, HubStep
  <2> HIDE DEF r
  <2> QED
    BY <1>0, <1>2, <2>1, <2>2, HubSet DEF HubRequest, HubOnly, keychain
<1>3. CASE HubLock(h)
  BY <1>3 DEF HubLock, HubOnly, Typed, Bounded, OAuthTypeOK, keychain, server, loginVars
<1>4. CASE HubLockTimeout(h)
  BY <1>0, <1>d, <1>4, HubSet DEF HubLockTimeout, HubOnly, keychain
<1>5. CASE HubHandles(h)
  <2>1. ASSUME NEW pc \in {"up", "refreshing"}, HubStep(h, pc), lock' \subseteq lock, HubOnly
        PROVE  Typed'
    <3> DEFINE r == [hub[h] EXCEPT !.pc = pc]
    <3>1. r \in Hub /\ r.mem <= issued /\ r.new <= issued
      BY <1>0 DEF Hub
    <3>2. hub' = [hub EXCEPT ![h] = r]
      BY <2>1 DEF HubStep
    <3> HIDE DEF r
    <3> QED
      BY <1>0, <2>1, <3>1, <3>2, HubSet DEF HubOnly, keychain
  <2>2. ASSUME HubAuthRequired(h), HubOnly PROVE Typed'
    <3> DEFINE r == [Down EXCEPT !.pc = "auth_required"]
    <3>1. r \in Hub /\ r.mem <= issued /\ r.new <= issued
      BY <1>0, <1>d DEF Hub, Down
    <3>2. hub' = [hub EXCEPT ![h] = r]
      BY <2>2 DEF HubAuthRequired
    <3> HIDE DEF r
    <3> QED
      BY <1>0, <2>2, <3>1, <3>2, HubSet DEF HubAuthRequired, HubOnly, keychain
  <2> QED
    BY <1>5, <2>1, <2>2 DEF HubHandles
<1>6. CASE HubRefreshed(h)
  BY <1>6 DEF HubRefreshed, Issue, Typed, Bounded, OAuthTypeOK, Token, Hub, HubOnly, keychain, server, loginVars
<1>7. CASE HubRefreshRefused(h)
  <2> DEFINE r == [Down EXCEPT !.pc = "auth_required"]
  <2>1. r \in Hub /\ r.mem <= issued /\ r.new <= issued
    BY <1>0, <1>d DEF Hub, Down
  <2>2. hub' = [hub EXCEPT ![h] = r]
    BY <1>7 DEF HubRefreshRefused, HubAuthRequired
  <2> HIDE DEF r
  <2> QED
    BY <1>0, <1>7, <2>1, <2>2, HubSet DEF HubRefreshRefused, HubAuthRequired, HubOnly, keychain
<1>8. CASE HubStores(h)
  <2> DEFINE r == [hub[h] EXCEPT !.pc = "up", !.mem = hub[h].new, !.new = 0]
  <2> 0 \in Token
    BY DEF Token
  <2>a. r \in Hub
    BY <1>0 DEF Hub
  <2>b. r.mem = hub[h].new /\ r.new = 0
    BY <1>0 DEF Hub
  <2>1. r \in Hub /\ r.mem <= issued /\ r.new <= issued
    BY <1>0, <2>a, <2>b
  <2>2. hub' = [hub EXCEPT ![h] = r]
    BY <1>8 DEF HubStores, Typed, OAuthTypeOK
  <2>3. token' \in Token /\ token' <= issued
    BY <1>0, <1>8 DEF HubStores, Hub
  <2> HIDE DEF r
  <2> QED
    BY <1>0, <1>8, <2>1, <2>2, <2>3, HubSet DEF HubStores
<1>9. CASE HubFails(h)
  BY <1>0, <1>d, <1>9, HubSet DEF HubFails, HubOnly, keychain
<1> QED
  BY <1>1, <1>2, <1>3, <1>4, <1>5, <1>6, <1>7, <1>8, <1>9 DEF HubAction

\* A step of a command whose record is well formed is well typed.
LEMMA LoginSet ==
    ASSUME Typed, UNCHANGED <<locked, lock, hub, server>>,
           login' \in Login, login'.new <= issued, callback' \in Callback,
           token' \in Token, token' <= issued, client' \in Issuer \cup {0},
           logins' \in 0..MaxLogins, logout' \in {"idle", "client"}, meddled' \in BOOLEAN
    PROVE  Typed'
BY DEF Typed, Bounded, OAuthTypeOK, server

\* The steps of the commands keep their state well formed.
LEMMA LoginTyped ==
    ASSUME Typed, LoginAction
    PROVE  Typed'
<1> USE OAuthAssumption
<1>0. /\ token \in Token /\ token \in Nat /\ token <= issued /\ issued \in Nat
      /\ client \in Issuer \cup {0} /\ issuer \in Issuer /\ logins \in 0..MaxLogins
      /\ logout \in {"idle", "client"} /\ meddled \in BOOLEAN
      /\ login \in Login /\ login.new <= issued /\ login.new \in Token /\ callback \in Callback
      /\ 0 \in Token
  BY DEF Typed, Bounded, OAuthTypeOK, Token, Login
<1> USE <1>0
<1>a. ASSUME NEW pc \in {"forget", "register", "wait", "exchange", "trailing", "check", "report"}, LoginStep(pc)
      PROVE  login' \in Login /\ login'.new <= issued
  BY <1>a DEF LoginStep, Login
<1>b. ASSUME NEW outcome \in {"success", "failed"}, LoginEnds(outcome)
      PROVE  login' \in Login /\ login'.new <= issued /\ callback' \in Callback
  <2>1. login' \in Login
    BY <1>b, Blank DEF LoginEnds, Login
  <2>2. login'.new = 0
    BY <1>b DEF LoginEnds, NoLogin
  <2> QED
    BY <1>b, <2>1, <2>2, Blank DEF LoginEnds
<1>1. CASE LoginStart
  <2>a. login' \in Login /\ callback' \in Callback
    BY <1>1, Blank DEF LoginStart, Login
  <2>b. login'.new = 0
    BY <1>1 DEF LoginStart, NoLogin
  <2>1. login' \in Login /\ login'.new <= issued /\ callback' \in Callback
    BY <2>a, <2>b
  <2>2. logins' \in 0..MaxLogins
    BY <1>1 DEF LoginStart
  <2> QED
    BY <1>1, <2>1, <2>2, LoginSet DEF LoginStart, keychain
<1>2. CASE LoginProbe
  <2>1. login' \in Login /\ login'.new <= issued
    BY <1>2 DEF LoginProbe, Login, Accepted
  <2> QED
    BY <1>2, <2>1, LoginSet DEF LoginProbe, LoginOnly, keychain
<1>3. CASE LoginForget
  BY <1>3, <1>a, LoginSet DEF LoginForget
<1>4. CASE LoginRegister
  BY <1>4, <1>a, LoginSet DEF LoginRegister
<1>5. ASSUME NEW kind \in {"redirect", "stray"}, CallbackConnect(kind) PROVE Typed'
  <2>1. callback' \in Callback
    BY <1>5 DEF CallbackConnect, Callback
  <2> QED
    BY <1>5, <2>1, LoginSet DEF CallbackConnect, LoginOnly, keychain
<1>6. CASE CallbackRead
  <2>1. callback' \in Callback
    BY <1>6 DEF CallbackRead, Callback
  <2> QED
    BY <1>6, <2>1, LoginSet DEF CallbackRead, LoginOnly, keychain
<1>7. CASE LoginAuthorized
  BY <1>7, <1>a, LoginSet DEF LoginAuthorized, LoginOnly, keychain
<1>8. CASE LoginRefused
  BY <1>8, <1>b, LoginSet DEF LoginRefused, LoginOnly, keychain
<1>9. CASE LoginTimeout
  BY <1>9, <1>b, LoginSet DEF LoginTimeout, LoginOnly, keychain
<1>10. CASE LoginExchange
  <2>a. issued + 1 \in Token
    BY <1>10 DEF LoginExchange, Issue, Token
  <2>1. login' \in Login /\ login'.new = issued + 1
    BY <1>10, <2>a DEF LoginExchange, Login
  <2>2. issued' = issued + 1 /\ issued' \in Token /\ issuers' \in [1..MaxTokens -> Issuer]
    BY <1>10 DEF LoginExchange, Issue, Token, Typed, OAuthTypeOK
  <2>3. OAuthTypeOK'
    BY <1>10, <2>1, <2>2, Zenon DEF LoginExchange, Issue, Typed, OAuthTypeOK, keychain
  <2>4. Bounded'
    BY <1>10, <2>1, <2>2 DEF LoginExchange, Typed, Bounded, OAuthTypeOK, Hub, Token, keychain
  <2> QED
    BY <2>3, <2>4 DEF Typed
<1>11. CASE LoginStore
  <2>1. login' \in Login /\ login'.new <= issued
    BY <1>11 DEF LoginStore, Login
  <2> QED
    BY <1>11, <2>1, LoginSet DEF LoginStore
<1>12. CASE LoginAnswered
  BY <1>12, <1>a, LoginSet DEF LoginAnswered, LoginOnly, keychain
<1>13. CASE LoginHTTPError
  <2>1. login' \in Login /\ login'.new <= issued
    BY <1>13 DEF LoginHTTPError, Login
  <2> QED
    BY <1>13, <2>1, LoginSet DEF LoginHTTPError, LoginOnly, keychain
<1>14. CASE LoginCheck
  BY <1>14, <1>a, <1>b, LoginSet DEF LoginCheck, LoginOnly, keychain
<1>15. CASE LoginReport
  BY <1>15, <1>b, LoginSet DEF LoginReport, LoginOnly, keychain
<1>16. CASE LoginFails
  BY <1>16, <1>b, LoginSet DEF LoginFails, LoginOnly, keychain
<1>17. CASE LogoutToken
  BY <1>17, LoginSet DEF LogoutToken, loginVars
<1>18. CASE LogoutClient
  BY <1>18, LoginSet DEF LogoutClient, loginVars
<1> QED
  BY <1>1, <1>2, <1>3, <1>4, <1>5, <1>6, <1>7, <1>8, <1>9, <1>10, <1>11, <1>12, <1>13,
     <1>14, <1>15, <1>16, <1>17, <1>18 DEF LoginAction

------------------------------------------------------------------------------
(* The refresh lock *)

\* The commands leave the hubs and the lock alone.
LEMMA LoginKeepsLock ==
    ASSUME LoginAction
    PROVE  UNCHANGED <<locked, lock, hub>>
BY DEF LoginAction, LoginStart, LoginProbe, LoginForget, LoginRegister, CallbackConnect, CallbackRead,
       LoginAuthorized, LoginRefused, LoginTimeout, LoginExchange, LoginStore, LoginAnswered,
       LoginHTTPError, LoginCheck, LoginReport, LoginFails, LogoutToken, LogoutClient, LoginOnly

\* Every step of a hub keeps the refreshing hub and the holder of the lock one.
LEMMA HubGuarded ==
    ASSUME Typed, Guarded, NEW h \in Hubs, HubAction(h)
    PROVE  Guarded'
<1> USE DEF Guarded, Typed, OAuthTypeOK, HubOnly, HubStep
<1>1. CASE HubConnect(h)
  BY <1>1 DEF HubConnect, Down, FirstAnswer
<1>2. CASE HubRequest(h)
  BY <1>2 DEF HubRequest, FirstAnswer, Hub
<1>3. CASE HubLock(h)
  BY <1>3 DEF HubLock
<1>4. CASE HubLockTimeout(h)
  BY <1>4 DEF HubLockTimeout, Down
<1>5. CASE HubHandles(h)
  BY <1>5 DEF HubHandles, HasLock, HubAuthRequired, Down, Hub
<1>6. CASE HubRefreshed(h)
  BY <1>6 DEF HubRefreshed, Hub
<1>7. CASE HubRefreshRefused(h)
  BY <1>7 DEF HubRefreshRefused, HubAuthRequired, Down
<1>8. CASE HubStores(h)
  BY <1>8 DEF HubStores, Hub
<1>9. CASE HubFails(h)
  BY <1>9 DEF HubFails, Down
<1> QED
  BY <1>1, <1>2, <1>3, <1>4, <1>5, <1>6, <1>7, <1>8, <1>9 DEF HubAction

------------------------------------------------------------------------------
(* Tokens and their issuers *)

\* What the server issues does not touch the tokens that are out.
LEMMA IssueKeeps ==
    ASSUME Typed, Issue, NEW t \in Nat, t <= issued, t # 0
    PROVE  issuers'[t] = issuers[t]
<1>1. t \in 1..MaxTokens /\ t # issued + 1
  BY OAuthAssumption DEF Typed, OAuthTypeOK, Token
<1> QED
  BY <1>1 DEF Issue, Typed, OAuthTypeOK

\* What it issues is a token of the issuer of now.
LEMMA IssuedCurrent ==
    ASSUME Typed, Issue
    PROVE  issued + 1 # 0 /\ issuers'[issued + 1] = issuer'
<1>1. issued + 1 \in 1..MaxTokens /\ issued + 1 # 0
  BY OAuthAssumption DEF Typed, OAuthTypeOK, Token, Issue
<1> QED
  BY <1>1 DEF Issue, Typed, OAuthTypeOK

\* Every step of a hub keeps the tokens under way, and the one in the keychain
\* while nobody meddles, with their issuers.
LEMMA HubMatched ==
    ASSUME Typed, Matched, NEW h \in Hubs, HubAction(h)
    PROVE  Matched'
<1>0. /\ \A g \in Hubs : hub[g] \in Hub /\ hub[g].mem \in Nat /\ hub[g].new \in Nat /\ hub[g].mem <= issued /\ hub[g].new <= issued
      /\ hub \in [Hubs -> Hub] /\ token \in Nat /\ token <= issued /\ login.new \in Nat /\ login.new <= issued
      /\ issued \in Nat /\ meddled \in BOOLEAN
  BY OAuthAssumption DEF Typed, Bounded, OAuthTypeOK, Hub, Login, Token
<1>u. ASSUME \A g \in Hubs : hub'[g].pc = "storing" => hub'[g] = hub[g], HubOnly
      PROVE  Matched'
  BY <1>u DEF Matched, Current, HubOnly, keychain, server, loginVars
<1>1. CASE HubConnect(h)
  BY <1>0, <1>1, <1>u DEF HubConnect, Down, FirstAnswer
<1>2. CASE HubRequest(h)
  BY <1>0, <1>2, <1>u DEF HubRequest, HubStep, FirstAnswer, Hub
<1>3. CASE HubLock(h)
  BY <1>3 DEF HubLock, Matched, Current, HubOnly, keychain, server, loginVars
<1>4. CASE HubLockTimeout(h)
  BY <1>0, <1>4, <1>u DEF HubLockTimeout, Down
<1>5. CASE HubHandles(h)
  BY <1>0, <1>5, <1>u DEF HubHandles, HubStep, HubAuthRequired, Down, Hub
<1>6. CASE HubRefreshed(h)
  <2>1. \A t \in Nat : t <= issued /\ Current(t) => Current(t)'
    BY <1>6, IssueKeeps DEF HubRefreshed, Issue, Current
  <2>2. Current(hub[h].mem) /\ issued + 1 # 0 /\ issuers'[issued + 1] = issuer'
    BY <1>6, IssuedCurrent DEF HubRefreshed, Refreshable, Current
  <2>3. hub'[h].mem = hub[h].mem /\ hub'[h].new = issued + 1 /\ \A g \in Hubs \ {h} : hub'[g] = hub[g]
    BY <1>0, <1>6 DEF HubRefreshed, Hub
  <2>4. \A g \in Hubs : (hub[g].pc = "storing" => Current(hub[g].mem) /\ Current(hub[g].new))'
    <3> SUFFICES ASSUME NEW g \in Hubs, hub'[g].pc = "storing"
                 PROVE  (Current(hub[g].mem) /\ Current(hub[g].new))'
      OBVIOUS
    <3>1. CASE g = h
      BY <1>0, <2>1, <2>2, <2>3, <3>1 DEF Current
    <3>2. CASE g # h
      BY <1>0, <2>1, <2>3, <3>2 DEF Matched, Current
    <3> QED
      BY <3>1, <3>2
  <2>5. token # 0 => issuers'[token] = issuers[token]
    BY <1>0, <1>6, IssueKeeps DEF HubRefreshed
  <2> QED
    BY <1>0, <1>6, <2>1, <2>4, <2>5 DEF HubRefreshed, Issue, Matched, Current, keychain, loginVars
<1>7. CASE HubRefreshRefused(h)
  BY <1>0, <1>7, <1>u DEF HubRefreshRefused, HubAuthRequired, Down
<1>8. CASE HubStores(h)
  <2>1. Current(hub[h].mem) /\ Current(hub[h].new)
    BY <1>8 DEF HubStores, Matched
  <2>2. ~meddled' => ~meddled /\ login.pc = "idle" /\ token = hub[h].mem
    BY <1>0, <1>8 DEF HubStores
  <2>3. \A g \in Hubs : hub'[g].pc = "storing" => hub'[g] = hub[g]
    BY <1>0, <1>8 DEF HubStores, Hub
  <2> QED
    BY <1>0, <1>8, <2>1, <2>2, <2>3 DEF HubStores, Matched, Current, server, loginVars
<1>9. CASE HubFails(h)
  BY <1>0, <1>9, <1>u DEF HubFails, Down
<1> QED
  BY <1>1, <1>2, <1>3, <1>4, <1>5, <1>6, <1>7, <1>8, <1>9 DEF HubAction

\* So does every step of the commands.
LEMMA LoginMatched ==
    ASSUME Typed, Matched, LoginAction
    PROVE  Matched'
<1>0. /\ \A g \in Hubs : hub[g].mem \in Nat /\ hub[g].new \in Nat /\ hub[g].mem <= issued /\ hub[g].new <= issued
      /\ token \in Nat /\ token <= issued /\ login \in Login /\ issued \in Nat /\ meddled \in BOOLEAN
  BY OAuthAssumption DEF Typed, Bounded, OAuthTypeOK, Hub, Token
<1>h. UNCHANGED hub
  BY LoginKeepsLock
<1>u. ASSUME login'.pc \in {"wait", "exchange"} => login.pc \in {"wait", "exchange"},
             login'.pc \notin {"store", "register"},
             UNCHANGED <<keychain, logout, server, meddled>>
      PROVE  Matched'
  BY <1>h, <1>u DEF Matched, Current, keychain, server
<1>e. ASSUME NEW outcome, LoginEnds(outcome), LoginOnly
      PROVE  Matched'
  BY <1>u, <1>e DEF LoginEnds, LoginOnly, NoLogin
<1>1. CASE LoginStart
  BY <1>1, <1>u DEF LoginStart, NoLogin
<1>2. CASE LoginProbe
  BY <1>0, <1>2, <1>u DEF LoginProbe, LoginOnly, Login
<1>3. CASE LoginForget
  BY <1>0, <1>3, <1>h DEF LoginForget, LoginStep, Login, Matched, Current, server
<1>4. CASE LoginRegister
  BY <1>0, <1>4, <1>h DEF LoginRegister, LoginStep, Login, Matched, Current, server
<1>5. ASSUME NEW kind \in {"redirect", "stray"}, CallbackConnect(kind) PROVE Matched'
  BY <1>5, <1>h DEF CallbackConnect, LoginOnly, Matched, Current, keychain, server
<1>6. CASE CallbackRead
  BY <1>6, <1>h DEF CallbackRead, LoginOnly, Matched, Current, keychain, server
<1>7. CASE LoginAuthorized
  BY <1>0, <1>7, <1>u DEF LoginAuthorized, LoginStep, LoginOnly, Login
<1>8. CASE LoginRefused
  BY <1>8, <1>e DEF LoginRefused
<1>9. CASE LoginTimeout
  BY <1>9, <1>e DEF LoginTimeout
<1>10. CASE LoginExchange
  <2>1. \A t \in Nat : t <= issued /\ Current(t) => Current(t)'
    BY <1>10, IssueKeeps DEF LoginExchange, Issue, Current
  <2>2. \A g \in Hubs : (hub[g].pc = "storing" => Current(hub[g].mem) /\ Current(hub[g].new))'
    BY <1>0, <1>h, <2>1 DEF Matched, Current
  <2>3. token # 0 => issuers'[token] = issuers[token]
    BY <1>0, <1>10, IssueKeeps DEF LoginExchange
  <2>4. login'.pc = "store" /\ login'.new = issued + 1
    BY <1>0, <1>10 DEF LoginExchange, Login
  <2>5. issued + 1 # 0 /\ issuers'[issued + 1] = issuer'
    BY <1>10, IssuedCurrent DEF LoginExchange
  <2> QED
    BY <1>10, <1>h, <2>2, <2>3, <2>4, <2>5 DEF LoginExchange, Issue, Matched, Current, keychain
<1>11. CASE LoginStore
  BY <1>0, <1>11, <1>h DEF LoginStore, Login, Matched, Current, server
<1>12. CASE LoginAnswered
  BY <1>0, <1>12, <1>u DEF LoginAnswered, LoginStep, LoginOnly, Login
<1>13. CASE LoginHTTPError
  BY <1>0, <1>13, <1>u DEF LoginHTTPError, LoginStep, LoginOnly, Login
<1>14. CASE LoginCheck
  BY <1>0, <1>14, <1>u, <1>e DEF LoginCheck, LoginStep, LoginOnly, Login
<1>15. CASE LoginReport
  BY <1>15, <1>e DEF LoginReport
<1>16. CASE LoginFails
  BY <1>16, <1>e DEF LoginFails
<1>17. CASE LogoutToken
  BY <1>0, <1>17, <1>h DEF LogoutToken, Matched, Current, loginVars, server
<1>18. CASE LogoutClient
  BY <1>0, <1>18, <1>h DEF LogoutClient, Matched, Current, loginVars, server
<1> QED
  BY <1>1, <1>2, <1>3, <1>4, <1>5, <1>6, <1>7, <1>8, <1>9, <1>10, <1>11, <1>12, <1>13,
     <1>14, <1>15, <1>16, <1>17, <1>18 DEF LoginAction

------------------------------------------------------------------------------
(* What a login reports *)

\* Every step of a hub keeps a login honest: a hub that stores a token under a
\* login meddles.
LEMMA HubHonest ==
    ASSUME Typed, Honest, NEW h \in Hubs, HubAction(h)
    PROVE  Honest'
<1>0. meddled \in BOOLEAN
  BY DEF Typed, OAuthTypeOK
<1>1. CASE HubStores(h)
  <2>1. login.pc # "idle" => meddled'
    BY <1>1 DEF HubStores
  <2>2. ~meddled' => ~meddled
    BY <1>0, <1>1 DEF HubStores
  <2> QED
    BY <1>1, <2>1, <2>2 DEF HubStores, Honest, loginVars
<1>2. CASE UNCHANGED <<keychain, login, meddled>>
  BY <1>2 DEF Honest, keychain
<1> QED
  BY <1>1, <1>2 DEF HubAction, HubConnect, HubRequest, HubLock, HubLockTimeout, HubHandles, HubRefreshed,
     HubRefreshRefused, HubFails, HubOnly, loginVars

\* So does every step of the commands.
LEMMA LoginHonest ==
    ASSUME Typed, Honest, LoginAction
    PROVE  Honest'
<1>0. login \in Login /\ meddled \in BOOLEAN
  BY DEF Typed, OAuthTypeOK
<1>e. ASSUME NEW outcome, LoginEnds(outcome) PROVE Honest'
  BY <1>e DEF LoginEnds, NoLogin, Honest
<1> USE <1>0 DEF Honest, LoginOnly, LoginStep, Login, keychain
<1>1. CASE LoginStart
  BY <1>1 DEF LoginStart, NoLogin
<1>2. CASE LoginProbe
  BY <1>2 DEF LoginProbe
<1>3. CASE LoginForget
  BY <1>3 DEF LoginForget
<1>4. CASE LoginRegister
  BY <1>4 DEF LoginRegister
<1>5. ASSUME NEW kind \in {"redirect", "stray"}, CallbackConnect(kind) PROVE Honest'
  BY <1>5 DEF CallbackConnect
<1>6. CASE CallbackRead
  BY <1>6 DEF CallbackRead
<1>7. CASE LoginAuthorized
  BY <1>7 DEF LoginAuthorized
<1>8. CASE LoginRefused
  BY <1>8, <1>e DEF LoginRefused
<1>9. CASE LoginTimeout
  BY <1>9, <1>e DEF LoginTimeout
<1>10. CASE LoginExchange
  BY <1>10 DEF LoginExchange
<1>11. CASE LoginStore
  BY <1>11 DEF LoginStore
<1>12. CASE LoginAnswered
  BY <1>12 DEF LoginAnswered
<1>13. CASE LoginHTTPError
  BY <1>13 DEF LoginHTTPError
<1>14. CASE LoginCheck
  BY <1>14, <1>e DEF LoginCheck
<1>15. CASE LoginReport
  BY <1>15, <1>e DEF LoginReport
<1>16. CASE LoginFails
  BY <1>16, <1>e DEF LoginFails
<1>17. CASE LogoutToken
  BY <1>17 DEF LogoutToken, loginVars
<1>18. CASE LogoutClient
  BY <1>18 DEF LogoutClient, loginVars
<1> QED
  BY <1>1, <1>2, <1>3, <1>4, <1>5, <1>6, <1>7, <1>8, <1>9, <1>10, <1>11, <1>12, <1>13,
     <1>14, <1>15, <1>16, <1>17, <1>18 DEF LoginAction

------------------------------------------------------------------------------
(* Theorems *)

\* The invariant is inductive.
LEMMA OAuthStep == OAuthInv /\ [OAuthNext]_oauthVars => OAuthInv'
<1> SUFFICES ASSUME OAuthInv, [OAuthNext]_oauthVars PROVE OAuthInv'
  OBVIOUS
<1> USE DEF OAuthInv
<1>1. CASE LoginAction
  <2>1. Guarded'
    BY <1>1, LoginKeepsLock DEF Guarded
  <2> QED
    BY <1>1, <2>1, LoginTyped, LoginMatched, LoginHonest
<1>2. ASSUME NEW h \in Hubs, HubAction(h) PROVE OAuthInv'
  BY <1>2, HubTyped, HubGuarded, HubMatched, HubHonest
<1>3. CASE Expire \/ UNCHANGED oauthVars
  <2>1. /\ UNCHANGED <<keychain, locked, lock, hub, loginVars, logout, issued, issuers, issuer, meddled>>
        /\ live \in BOOLEAN => live' \in BOOLEAN
    BY <1>3 DEF Expire, oauthVars, server
  <2>2. Typed'
    BY <2>1 DEF Typed, OAuthTypeOK, Bounded, keychain, loginVars
  <2>3. Guarded' /\ Honest'
    BY <2>1 DEF Guarded, Honest, keychain, loginVars
  <2>4. Matched'
    BY <2>1 DEF Matched, Current, keychain, loginVars
  <2> QED
    BY <2>2, <2>3, <2>4
<1> QED
  BY <1>1, <1>2, <1>3 DEF OAuthNext

\* Whatever hubs, logins and logouts do to the keychain and the lock, and
\* wherever they end, the inductive invariant holds.
THEOREM OAuthInvariant == OAuthSpec => []OAuthInv
<1>1. OAuthInit => OAuthInv
  BY OAuthInitInv
<1>2. OAuthInv /\ [OAuthNext]_oauthVars => OAuthInv'
  BY OAuthStep
<1> QED
  BY <1>1, <1>2, PTL DEF OAuthSpec

\* With a lock path (refresh_lock_context), any number of hubs refresh one at a
\* time: a hub that dies, fails or times out leaves no second one in the flow.
THEOREM RefreshExclusive == OAuthSpec => []LockedRefresh
<1>1. OAuthInv => LockedRefresh
  <2> SUFFICES ASSUME OAuthInv, locked PROVE Cardinality(Exchanging) <= 1
    BY DEF LockedRefresh
  <2>1. \A g, h \in Exchanging : g = h
    BY DEF OAuthInv, Guarded, Exchanging
  <2>2. CASE Exchanging = {}
    BY <2>2, FS_EmptySet
  <2>3. CASE Exchanging # {}
    <3>1. PICK h : h \in Exchanging
      BY <2>3
    <3>2. Exchanging = {h}
      BY <2>1, <3>1
    <3> QED
      BY <3>2, FS_Singleton
  <2> QED
    BY <2>2, <2>3
<1> QED
  BY <1>1, OAuthInvariant, PTL

\* The token of the keychain is one of the issuer that the client information
\* names (set_client_info deletes the other before it writes), at every point at
\* which a command may die, unless a logout or a refresh wrote under a login.
THEOREM KeychainConsistent == OAuthSpec => []IssuerMatches
<1>1. OAuthInv => IssuerMatches
  BY DEF OAuthInv, Matched, IssuerMatches
<1> QED
  BY <1>1, OAuthInvariant, PTL

\* run_login_flow hides no failure: a login that nobody interfered with, and
\* that met a refusal or a transport error, reports a success only when it has
\* stored a token of its own.
THEOREM LoginHidesNoFailure == OAuthSpec => NoFailureHidden
<1> DEFINE Truthful == (~meddled /\ login.pc # "idle" /\ login'.outcome = "success") => (login.stored \/ ~login.fault)
<1>1. OAuthInv /\ [OAuthNext]_oauthVars => [Truthful]_oauthVars
  <2> SUFFICES ASSUME OAuthInv, OAuthNext, ~meddled, login.pc # "idle", login'.outcome = "success"
               PROVE  login.stored \/ ~login.fault
    OBVIOUS
  <2>0. login \in Login /\ login.outcome = "none"
    BY DEF OAuthInv, Typed, OAuthTypeOK, Honest
  <2>1. CASE LoginReport
    BY <2>1 DEF OAuthInv, Honest, LoginReport
  <2>2. ASSUME LoginEnds("failed") PROVE FALSE
    BY <2>2 DEF LoginEnds, NoLogin
  <2>3. ASSUME login'.outcome = login.outcome PROVE FALSE
    BY <2>0, <2>3
  <2>4. CASE LoginAction
    BY <2>0, <2>1, <2>2, <2>3, <2>4
       DEF LoginAction, LoginStart, LoginProbe, LoginForget, LoginRegister, CallbackConnect, CallbackRead,
           LoginAuthorized, LoginRefused, LoginTimeout, LoginExchange, LoginStore, LoginAnswered,
           LoginHTTPError, LoginCheck, LoginFails, LogoutToken, LogoutClient, LoginStep, Login, loginVars
  <2>5. CASE Expire \/ \E h \in Hubs : HubAction(h)
    BY <2>3, <2>5 DEF Expire, HubAction, HubConnect, HubRequest, HubLock, HubLockTimeout, HubHandles,
       HubRefreshed, HubRefreshRefused, HubStores, HubFails, HubOnly, loginVars
  <2> QED
    BY <2>4, <2>5 DEF OAuthNext
<1> QED
  BY <1>1, OAuthInvariant, PTL DEF OAuthSpec, NoFailureHidden

================================================================================
