------------------------------- MODULE Session -------------------------------
(***************************************************************************)
(* The browser session of the web front end: one tab, its two cookies (the *)
(* HttpOnly refresh token and the readable has_session flag), the in-memory*)
(* access token of lib/auth.ts, the zustand store of stores/auth-store.ts, *)
(* the two components that restore a session when a page is loaded         *)
(* (AuthRestorer and AuthGuard), the shared refresh of lib/api.ts, and the *)
(* sign-in, registration and sign-out forms that feed it.                  *)
(*                                                                         *)
(* A login issues a numbered pair: refresh token n and access token n.     *)
(* Refresh tokens rotate; access tokens expire.  The server reads          *)
(* revoked_at in one statement and rotates in later ones, so its check and *)
(* its rotation are two steps.                                             *)
(***************************************************************************)
EXTENDS Naturals, FiniteSets

CONSTANTS
  Requests,    \* the API calls a page can have outstanding at once
  MaxPairs,    \* bound: token pairs the server issues
  MaxLoads,    \* bound: full page loads the user asks for
  Lossy        \* whether a reply can be lost and a server step can fail

ASSUME SessionConstants ==
  /\ Requests \cap {"enable", "logout", "form", "restorer", "guard1", "guard2", "shared"} = {}
  /\ MaxPairs \in Nat \ {0}
  /\ MaxLoads \in Nat
  /\ Lossy \in BOOLEAN

VARIABLES
  issued,    \* how many pairs the server has issued
  revoked,   \* the refresh tokens with revoked_at set
  expired,   \* the access tokens past their lifetime
  cookie,    \* the refresh_token cookie (0: none)
  flag,      \* the has_session cookie
  token,     \* lib/auth.ts accessToken (0: null)
  store,     \* the auth store: isAuthenticated, accessToken, isHydrating
  page,      \* the page the tab shows
  guard,     \* AuthGuard: not mounted, checking, or settled
  seen,      \* the isAuthenticated AuthGuard's effect last ran with
  form,      \* which form the login or register page shows
  pc,        \* where every asynchronous task of the tab is
  sent,      \* the refresh cookie a task's last request carried: the cookie's path
             \* is /api/v1/auth, so only refreshes and the logout carry it
  bearer,    \* the access token a call's last request carried
  got,       \* the pair a task's reply carries
  loads,     \* page loads so far
  leaving,   \* location.href = '/login' has been assigned, the page is still there
  expect,    \* history: the tab loaded a guarded page with a valid cookie
             \* and the user has not left, signed in or signed out since
  smooth     \* history: nothing was lost, refused by a fault or torn down

serverVars == <<issued, revoked, expired>>
browserVars == <<cookie, flag>>
tabVars == <<token, store, page, guard, seen, form>>
taskVars == <<pc, sent, bearer, got>>
loadVars == <<loads, leaving>>
histVars == <<loadVars, expect, smooth>>
vars == <<serverVars, browserVars, tabVars, taskVars, histVars>>

Guards == {"guard1", "guard2"}
StoreRefreshes == {"restorer"} \cup Guards      \* calls of store.refreshToken
Refreshes == StoreRefreshes \cup {"shared"}     \* ... and api.ts refreshPromise
Calls == Requests \cup {"enable", "logout"}
Tasks == Refreshes \cup Calls \cup {"form"}

\* The pages behind AuthGuard share its layout; "dashboard" stands for any of them.
Guarded == {"dashboard"}
Pages == {"public", "login", "register"} \cup Guarded

Anonymous == [auth |-> FALSE, token |-> 0, hydrating |-> FALSE]
SignedIn(n) == [auth |-> TRUE, token |-> n, hydrating |-> FALSE]

FirstForm(p) == IF p = "login" THEN "password"
                ELSE IF p = "register" THEN "register" ELSE "none"

(***************************************************************************)
(* Pages.  Mounting a guarded page mounts AuthGuard; its effect runs       *)
(* later, as GuardEffect.                                                  *)
(***************************************************************************)
Show(p, auth) ==
  /\ page' = p
  /\ guard' = IF p \notin Guarded THEN "off"
              ELSE IF page \in Guarded THEN guard
              ELSE IF auth THEN "idle" ELSE "checking"
  /\ seen' = IF p \in Guarded /\ page \in Guarded THEN seen ELSE "never"
  /\ form' = IF p = page THEN form ELSE FirstForm(p)

\* A task is over: what its request carried is forgotten.
End(t) ==
  /\ pc' = [pc EXCEPT ![t] = "idle"]
  /\ sent' = [sent EXCEPT ![t] = 0]
  /\ got' = [got EXCEPT ![t] = 0]
  /\ bearer' = [bearer EXCEPT ![t] = 0]

\* Nothing but the page stays (client-side navigation keeps every promise).
Stay == UNCHANGED <<page, guard, seen, form>>

\* AuthRestorer's effect at a full load: no flag, no request.
RestorerStarts(hasSession) ==
  /\ pc' = [t \in Tasks |-> IF t = "restorer" /\ hasSession THEN "asked" ELSE "idle"]
  /\ sent' = [t \in Tasks |-> IF t = "restorer" /\ hasSession THEN cookie ELSE 0]
  /\ store' = [auth |-> FALSE, token |-> 0, hydrating |-> hasSession]
  /\ token' = 0

\* OAuth callback cookies: AuthRestorer puts the new token in the store at once,
\* in the same commit in which AuthGuard still sees an anonymous store.
RestorerAdopts(n) ==
  /\ pc' = [t \in Tasks |-> "idle"]
  /\ sent' = [t \in Tasks |-> 0]
  /\ store' = SignedIn(n)
  /\ token' = n

\* A full load: every script task dies, memory is lost, the cookies stay.
Boot(p) ==
  /\ bearer' = [t \in Tasks |-> 0]
  /\ got' = [t \in Tasks |-> 0]
  /\ page' = p
  /\ guard' = IF p \in Guarded THEN "checking" ELSE "off"
  /\ seen' = "never"
  /\ form' = FirstForm(p)
  /\ leaving' = FALSE
  /\ smooth' = IF \A t \in Tasks \ {"form"} : pc[t] = "idle" THEN smooth ELSE FALSE

CookieValid == cookie # 0 /\ cookie \notin revoked

Load(p) ==
  /\ loads < MaxLoads
  /\ loads' = loads + 1
  /\ Boot(p)
  /\ RestorerStarts(flag)
  /\ expect' = (p \in Guarded /\ CookieValid)
  /\ UNCHANGED <<serverVars, browserVars>>

\* A link: Header, sidebar, the sign-in links.
Visit(p) ==
  /\ p # page
  /\ p \in Guarded => store.auth
  /\ p \in {"login", "register"} => ~store.auth /\ ~store.hydrating
  /\ page \in Guarded => store.auth /\ guard = "idle"
  /\ Show(p, store.auth)
  /\ expect' = FALSE
  /\ UNCHANGED <<serverVars, browserVars, token, store, taskVars, loadVars, smooth>>

(***************************************************************************)
(* AuthGuard's effect, rerun whenever isAuthenticated changes.             *)
(***************************************************************************)
AuthSeen == IF store.auth THEN "in" ELSE "out"

\* Mutant: the effect lacks the early return of a signed-in store.
MutGuardRefreshes == flag

GuardRefreshes == ~store.auth /\ flag

GuardEffect ==
  /\ page \in Guarded
  /\ seen # AuthSeen
  /\ \/ /\ store.auth
        /\ seen' = "in"
        /\ guard' = "idle"
        /\ UNCHANGED <<page, form, pc, sent>>
     \/ /\ ~store.auth /\ ~flag
        /\ Show("login", FALSE)
        /\ UNCHANGED <<pc, sent>>
     \/ /\ GuardRefreshes
        /\ LET g == IF pc["guard1"] = "idle" THEN "guard1" ELSE "guard2" IN
             /\ pc[g] = "idle"
             /\ pc' = [pc EXCEPT ![g] = "asked"]
             /\ sent' = [sent EXCEPT ![g] = cookie]
        /\ seen' = "out"
        /\ UNCHANGED <<page, guard, form>>
  /\ UNCHANGED <<serverVars, browserVars, token, store, bearer, got, histVars>>

(***************************************************************************)
(* The server's side of a refresh: user service RefreshToken behind the    *)
(* gateway's Refresh, which clears the flag on every refusal.              *)
(***************************************************************************)
ServerCheck(r) ==
  /\ pc[r] = "asked"
  /\ pc' = [pc EXCEPT ![r] = IF sent[r] # 0 /\ sent[r] \notin revoked
                             THEN "checked" ELSE "refused"]
  /\ UNCHANGED <<serverVars, browserVars, tabVars, sent, bearer, got, histVars>>

Issue(t) ==
  /\ issued < MaxPairs
  /\ issued' = issued + 1
  /\ got' = [got EXCEPT ![t] = issued + 1]

\* The old token is revoked first: what fails after it leaves no session.
ServerRotate(r) ==
  /\ pc[r] = "checked"
  /\ revoked' = revoked \cup {sent[r]}
  /\ \/ /\ Issue(r)
        /\ pc' = [pc EXCEPT ![r] = "granted"]
        /\ UNCHANGED smooth
     \/ /\ Lossy \/ issued = MaxPairs
        /\ pc' = [pc EXCEPT ![r] = "refused"]
        /\ smooth' = FALSE
        /\ UNCHANGED <<issued, got>>
  /\ UNCHANGED <<expired, browserVars, tabVars, sent, bearer, loadVars,
                 expect>>

\* Mutant: the reply's refresh cookie is not stored, only the flag.
MutTakeCookies(r) ==
  /\ UNCHANGED cookie
  /\ flag' = (pc[r] = "granted")

\* The cookies of a reply are stored before any script sees the reply.
TakeCookies(r) ==
  /\ cookie' = IF pc[r] = "granted" THEN got[r] ELSE cookie
  /\ flag' = (pc[r] = "granted")

(***************************************************************************)
(* auth-store.ts refreshToken, called by AuthRestorer and by AuthGuard     *)
(* without any sharing between them.  AuthGuard goes on to /login when its *)
(* call failed, wherever the user is by then.                              *)
(***************************************************************************)
RefreshOk(r) ==
  /\ token' = got[r]
  /\ store' = SignedIn(got[r])
  /\ guard' = IF r \in Guards /\ guard = "checking" THEN "idle" ELSE guard
  /\ UNCHANGED <<page, seen, form>>

\* Mutant: AuthGuard's call has no failure branch.
MutRefreshFailedNoRedirect(r) ==
  /\ token' = 0
  /\ store' = Anonymous
  /\ r = r
  /\ Stay

RefreshFailed(r) ==
  /\ token' = 0
  /\ store' = Anonymous
  /\ IF r \in Guards THEN Show("login", FALSE) ELSE Stay

StoreRefreshReply(r) ==
  /\ pc[r] \in {"granted", "refused"}
  /\ TakeCookies(r)
  /\ IF pc[r] = "granted" THEN RefreshOk(r) ELSE RefreshFailed(r)
  /\ End(r)
  /\ UNCHANGED <<serverVars, histVars>>

StoreRefreshLost(r) ==
  /\ Lossy
  /\ pc[r] \in {"asked", "granted", "refused"}
  /\ RefreshFailed(r)
  /\ End(r)
  /\ smooth' = FALSE
  /\ UNCHANGED <<serverVars, browserVars, loadVars, expect>>

(***************************************************************************)
(* lib/api.ts request: the token in memory is attached; a 401 joins the    *)
(* shared refresh and is retried once.                                     *)
(***************************************************************************)
CarriesCookie(c) == c = "logout"

Dispatch(c, n) ==
  /\ pc' = [pc EXCEPT ![c] = "sent"]
  /\ bearer' = [bearer EXCEPT ![c] = n]
  /\ sent' = [sent EXCEPT ![c] = IF CarriesCookie(c) THEN cookie ELSE 0]

Call(c) ==
  /\ c \in Requests
  /\ pc[c] = "idle"
  /\ page \in Guarded /\ guard = "idle" /\ store.auth
  /\ Dispatch(c, token)
  /\ UNCHANGED <<serverVars, browserVars, tabVars, got, histVars>>

\* Header handleLogout: the button is there once hydrated and signed in.
Logout ==
  /\ pc["logout"] = "idle"
  /\ page \notin {"login", "register"}
  /\ store.auth /\ ~store.hydrating
  /\ Dispatch("logout", token)
  /\ expect' = FALSE
  /\ UNCHANGED <<serverVars, browserVars, tabVars, got, loadVars, smooth>>

Authorized(c) == bearer[c] # 0 /\ bearer[c] \notin expired

\* What the handler behind the gateway does: only the logout changes the session.
Effect(c) ==
  revoked' = IF CarriesCookie(c) /\ sent[c] # 0 THEN revoked \cup {sent[c]} ELSE revoked

ServerCall(c) ==
  /\ pc[c] \in {"sent", "again"}
  /\ IF Authorized(c)
       THEN Effect(c) /\ pc' = [pc EXCEPT ![c] = "ok"]
       ELSE /\ pc' = [pc EXCEPT ![c] = IF pc[c] = "sent" THEN "denied" ELSE "error"]
            /\ UNCHANGED revoked
  /\ UNCHANGED <<issued, expired, browserVars, tabVars, sent, bearer, got,
                 histVars>>

\* attemptRefresh: the first 401 starts the refresh, later ones wait for it.
JoinRefresh(c) ==
  /\ pc[c] = "denied"
  /\ pc' = [pc EXCEPT ![c] = "waiting",
                      !["shared"] = IF pc["shared"] = "idle" THEN "asked" ELSE @]
  /\ sent' = IF pc["shared"] = "idle" THEN [sent EXCEPT !["shared"] = cookie]
                                      ELSE sent
  /\ UNCHANGED <<serverVars, browserVars, tabVars, bearer, got, histVars>>

\* Mutant: the retry reuses the header built for the first attempt.
MutSharedGrantedOldHeader ==
  /\ pc["shared"] = "granted"
  /\ TakeCookies("shared")
  /\ token' = got["shared"]
  /\ pc' = [t \in Tasks |-> IF t = "shared" THEN "idle"
                           ELSE IF pc[t] = "waiting" THEN "again" ELSE pc[t]]
  /\ sent' = [sent EXCEPT !["shared"] = 0]
  /\ got' = [got EXCEPT !["shared"] = 0]
  /\ UNCHANGED <<serverVars, store, page, guard, seen, form, bearer, histVars>>

\* Mutant: the shared promise is never resolved for those who joined it.
MutSharedGrantedNoWake ==
  /\ pc["shared"] = "granted"
  /\ TakeCookies("shared")
  /\ token' = got["shared"]
  /\ End("shared")
  /\ UNCHANGED <<serverVars, store, page, guard, seen, form, histVars>>

\* The shared refresh fills lib/auth.ts only; every waiter retries with it.
SharedGranted ==
  /\ pc["shared"] = "granted"
  /\ TakeCookies("shared")
  /\ token' = got["shared"]
  /\ pc' = [t \in Tasks |-> IF t = "shared" THEN "idle"
                           ELSE IF pc[t] = "waiting" THEN "again" ELSE pc[t]]
  /\ bearer' = [t \in Tasks |-> IF pc[t] = "waiting" THEN token' ELSE bearer[t]]
  /\ sent' = [t \in Tasks |-> IF t = "shared" THEN 0
                             ELSE IF pc[t] = "waiting" /\ CarriesCookie(t) THEN cookie'
                             ELSE sent[t]]
  /\ got' = [got EXCEPT !["shared"] = 0]
  /\ UNCHANGED <<serverVars, store, page, guard, seen, form, histVars>>

\* ... or it fails: every waiter clears the token in memory, assigns location.href
\* and throws, which a logout catches and goes on.  The store of the old page is
\* not told, and the page lives on until the browser leaves it.
SharedFailed ==
  LET over(t) == t = "shared" \/ pc[t] = "waiting" IN
  /\ \/ pc["shared"] = "refused" /\ TakeCookies("shared") /\ UNCHANGED smooth
     \/ /\ Lossy /\ pc["shared"] \in {"asked", "granted", "refused"}
        /\ UNCHANGED browserVars /\ smooth' = FALSE
  /\ token' = 0
  /\ leaving' = TRUE
  /\ IF pc["logout"] = "waiting" THEN store' = Anonymous /\ Show("login", FALSE)
                                 ELSE UNCHANGED store /\ Stay
  /\ pc' = [t \in Tasks |-> IF over(t) THEN "idle" ELSE pc[t]]
  /\ sent' = [t \in Tasks |-> IF over(t) THEN 0 ELSE sent[t]]
  /\ bearer' = [t \in Tasks |-> IF over(t) THEN 0 ELSE bearer[t]]
  /\ got' = [got EXCEPT !["shared"] = 0]
  /\ UNCHANGED <<serverVars, loads, expect>>

\* The navigation to /login that api.ts asked for is committed.
Leave ==
  /\ leaving
  /\ Boot("login")
  /\ RestorerStarts(flag)
  /\ UNCHANGED <<serverVars, browserVars, loads, expect>>

\* The continuation of a call that is over.
Settled(c, ok) ==
  \/ c = "logout" /\ token' = 0 /\ store' = Anonymous /\ Show("login", FALSE)
  \/ c = "enable" /\ ok /\ Show("dashboard", store.auth) /\ UNCHANGED <<token, store>>
  \/ c # "logout" /\ ~(c = "enable" /\ ok) /\ UNCHANGED tabVars

\* Logout's reply clears both cookies; a logout without a cookie is refused.
CallReply(c) ==
  /\ pc[c] \in {"ok", "error"}
  /\ Settled(c, pc[c] = "ok")
  /\ IF c = "logout" /\ pc[c] = "ok" /\ sent[c] # 0
       THEN cookie' = 0 /\ flag' = FALSE
       ELSE UNCHANGED browserVars
  /\ End(c)
  /\ UNCHANGED <<serverVars, histVars>>

CallLost(c) ==
  /\ Lossy
  /\ pc[c] \in {"sent", "again", "ok", "denied", "error"}
  /\ Settled(c, FALSE)
  /\ End(c)
  /\ smooth' = FALSE
  /\ UNCHANGED <<serverVars, browserVars, loadVars, expect>>

Expire ==
  /\ token \notin expired \cup {0}
  /\ expired' = expired \cup {token}
  /\ UNCHANGED <<issued, revoked, browserVars, tabVars, taskVars,
                 histVars>>

(***************************************************************************)
(* The forms: LoginForm (password, then possibly the MFA code),            *)
(* RegisterForm (which enables the provider role with a second call; what  *)
(* the account may do with it is no part of the session).                  *)
(***************************************************************************)
Submit ==
  /\ page \in {"login", "register"}
  /\ pc["form"] = "idle" /\ pc["enable"] = "idle"
  /\ pc' = [pc EXCEPT !["form"] = form]
  /\ expect' = FALSE
  /\ UNCHANGED <<serverVars, browserVars, tabVars, sent, bearer, got, loadVars, smooth>>

ServerAuth ==
  /\ pc["form"] \in {"password", "mfa", "register"}
  /\ \/ /\ Issue("form")
        /\ pc' = [pc EXCEPT !["form"] = IF @ = "register" THEN "registered" ELSE "granted"]
     \/ /\ pc["form"] = "password"
        /\ pc' = [pc EXCEPT !["form"] = "challenged"]
        /\ UNCHANGED <<issued, got>>
     \/ /\ pc' = [pc EXCEPT !["form"] = "refused"]
        /\ UNCHANGED <<issued, got>>
  /\ UNCHANGED <<revoked, expired, browserVars, tabVars, sent, bearer, histVars>>

Adopt(n) ==
  /\ cookie' = n /\ flag' = TRUE
  /\ token' = n /\ store' = SignedIn(n)

FormReply ==
  /\ \/ /\ pc["form"] \in {"granted", "registered"}
        /\ Adopt(got["form"])
        /\ Show("dashboard", TRUE)
        /\ End("form")
     \/ /\ pc["form"] = "registered"                \* the intent is provider
        /\ Adopt(got["form"])
        /\ Stay
        /\ pc' = [pc EXCEPT !["form"] = "idle", !["enable"] = "sent"]
        /\ bearer' = [bearer EXCEPT !["enable"] = got["form"]]
        /\ got' = [got EXCEPT !["form"] = 0]
        /\ UNCHANGED sent
     \/ /\ pc["form"] = "challenged"
        /\ form' = IF form = "password" THEN "mfa" ELSE form
        /\ End("form")
        /\ UNCHANGED <<browserVars, token, store, page, guard, seen>>
     \/ /\ pc["form"] = "refused" \/ (Lossy /\ pc["form"] # "idle")
        /\ End("form")
        /\ UNCHANGED <<browserVars, tabVars>>
  /\ UNCHANGED <<serverVars, histVars>>

BackToLogin ==
  /\ form = "mfa" /\ pc["form"] = "idle"
  /\ form' = "password"
  /\ UNCHANGED <<serverVars, browserVars, token, store, page, guard, seen, taskVars,
                 histVars>>

\* OAuthButtons: away to the provider and back with the callback's cookies.
OAuth ==
  /\ page \in {"login", "register"}
  /\ loads < MaxLoads
  /\ loads' = loads + 1
  /\ issued < MaxPairs
  /\ issued' = issued + 1
  /\ cookie' = issued' /\ flag' = TRUE
  /\ Boot("dashboard")
  /\ RestorerAdopts(issued')
  /\ expect' = FALSE
  /\ UNCHANGED <<revoked, expired>>

Init ==
  /\ cookie \in {0, 1} /\ flag \in BOOLEAN /\ (flag <=> cookie = 1)
  /\ issued = cookie
  /\ revoked = {} /\ expired = {}
  /\ token = 0 /\ store = Anonymous
  /\ page = "public" /\ guard = "off" /\ seen = "never" /\ form = "none"
  /\ pc = [t \in Tasks |-> "idle"] /\ sent = [t \in Tasks |-> 0]
  /\ bearer = [t \in Tasks |-> 0] /\ got = [t \in Tasks |-> 0]
  /\ loads = 0 /\ leaving = FALSE /\ expect = FALSE /\ smooth = TRUE

Network ==
  \/ \E r \in Refreshes : ServerCheck(r) \/ ServerRotate(r)
  \/ \E r \in StoreRefreshes : StoreRefreshReply(r) \/ StoreRefreshLost(r)
  \/ \E c \in Calls : ServerCall(c) \/ JoinRefresh(c) \/ CallReply(c) \/ CallLost(c)
  \/ SharedGranted \/ SharedFailed \/ Leave
  \/ ServerAuth \/ FormReply

User ==
  \/ \E p \in Pages : Load(p) \/ Visit(p)
  \/ \E c \in Requests : Call(c)
  \/ Logout \/ Submit \/ BackToLogin \/ OAuth

Next == Network \/ GuardEffect \/ User \/ Expire

\* What is under way gets on, one task at a time: the server answers, the answer
\* arrives, the effect runs.  Nothing obliges a user, a form or a fault, nor the
\* browser to be done with a navigation.
Fairness ==
  /\ \A r \in StoreRefreshes : WF_vars(ServerCheck(r) \/ ServerRotate(r) \/ StoreRefreshReply(r))
  /\ WF_vars(ServerCheck("shared") \/ ServerRotate("shared") \/ SharedGranted \/ SharedFailed)
  /\ \A c \in Calls : WF_vars(ServerCall(c) \/ JoinRefresh(c) \/ CallReply(c))
  /\ WF_vars(GuardEffect)

Spec == Init /\ [][Next]_vars /\ Fairness

(***************************************************************************)
(* Properties.                                                             *)
(***************************************************************************)
\* A refresh of the store that is still under way while the store is signed in was
\* sent with an older cookie than the tab now has.  Its failure empties the store all
\* the same (auth-store.ts looks at nothing before it does): whenever that signs
\* somebody out, the answer was about another session than the one it ends.
LateAnswersAreStale ==
  store.auth => \A r \in StoreRefreshes : pc[r] # "idle" => sent[r] # cookie

\* While nothing is lost, a cookie whose token is already revoked is about to be
\* replaced or cleared by a reply under way: rotation never strands a session.
CookieCurrent ==
  smooth /\ cookie \in revoked =>
    \/ \E r \in Refreshes : pc[r] = "granted" /\ sent[r] = cookie
    \/ pc["logout"] = "ok"

\* A waiting call is never retried with a token that it, or any other call, has sent
\* before, although a sign-in may overtake the refresh it waits for (the retry may
\* then carry the older of two tokens).
RetryFresh ==
  [][\A c \in Calls : pc[c] = "waiting" /\ pc'[c] = "again" =>
       bearer'[c] # 0 /\ \A d \in Calls : bearer'[c] # bearer[d]]_vars

\* AuthGuard's spinner ends, whatever the two restorations and the network do.
GuardSettles == (guard = "checking") ~> (guard # "checking")

\* Nobody waits for ever on the refresh that the calls of api.ts share.
WaitersReleased ==
  (\E c \in Calls : pc[c] = "waiting") ~> (\A c \in Calls : pc[c] # "waiting")

\* docs/auth-flow.md: a page refresh with a valid refresh cookie keeps the user
\* signed in.
StaysLoggedIn == expect /\ smooth => page \in Guarded
=============================================================================
