---------------------------- MODULE SessionProofs ----------------------------
(***************************************************************************)
(* Session: the cookie is the current one while nothing is lost, a retry   *)
(* is fresh, and a refresh of the store that ends late was sent with an    *)
(* older cookie, for any number of outstanding calls, token pairs, loads   *)
(* and faults.                                                             *)
(***************************************************************************)
EXTENDS Session, TLAPS

Forms == {"none", "password", "mfa", "register"}

\* Where a task can be: in the store's refresh, in a call, or in a form.
Steps == Forms \cup {"idle", "asked", "checked", "granted", "refused"}
               \cup {"sent", "denied", "waiting", "again", "ok", "error"}
               \cup {"registered", "challenged"}

\* What a reply under way carries: six flows put it into the store unseen.
RepliesCarryTokens ==
  \A t \in Tasks : pc[t] \in {"granted", "registered"} => got[t] # 0

\* Types, and that a reply which grants something has a pair to grant.
IInv ==
  /\ issued \in Nat
  /\ token \in Nat
  /\ form \in Forms
  /\ got \in [Tasks -> Nat]
  /\ pc \in [Tasks -> Steps]
  /\ RepliesCarryTokens

\* The initial store is anonymous and nothing is under way.
LEMMA InitInv == Init => IInv
  BY DEF Init, IInv, Steps, Forms, RepliesCarryTokens

\* A page load leaves no reply under way; it empties the store, or fills it
\* with the pair of an OAuth callback.
LEMMA BootInv ==
  ASSUME IInv, NEW p, Boot(p), issued' \in Nat,
         \/ \E b : RestorerStarts(b)
         \/ \E n \in Nat \ {0} : RestorerAdopts(n)
  PROVE  IInv'
<1>1. /\ pc' \in [Tasks -> Steps]
      /\ \A t \in Tasks : pc'[t] \in {"asked", "idle"}
  <2>1. CASE \E b : RestorerStarts(b)
    <3>1. PICK b : RestorerStarts(b)
      BY <2>1
    <3>2. CASE b
      BY <3>1, <3>2 DEF RestorerStarts, Steps
    <3>3. CASE ~b
      BY <3>1, <3>3 DEF RestorerStarts, Steps
    <3>4. QED
      BY <3>2, <3>3
  <2>2. CASE \E n \in Nat \ {0} : RestorerAdopts(n)
    BY <2>2 DEF RestorerAdopts, Steps
  <2>3. QED
    BY <2>1, <2>2
<1>2. got' \in [Tasks -> Nat]
  BY DEF Boot
<1>3. token' \in Nat
  BY DEF RestorerStarts, RestorerAdopts
<1>4. form' \in Forms
  BY DEF Boot, FirstForm, Forms
<1>5. QED
  BY <1>1, <1>2, <1>3, <1>4 DEF IInv, RepliesCarryTokens

\* A step that leaves the token alone and lets no new reply appear.
LEMMA QuietInv ==
  ASSUME IInv, UNCHANGED <<issued, token>>,
         form' \in Forms, got' \in [Tasks -> Nat], pc' \in [Tasks -> Steps],
         \A t \in Tasks :
           pc'[t] \in {"granted", "registered"} => pc'[t] = pc[t] /\ got'[t] = got[t]
  PROVE  IInv'
<1>1. RepliesCarryTokens'
  BY DEF IInv, RepliesCarryTokens
<1>2. QED
  BY <1>1 DEF IInv

\* The same for a step that moves one task and no reply.
LEMMA MoveInv ==
  ASSUME IInv, UNCHANGED <<issued, token, form, got>>,
         NEW t \in Tasks, NEW s \in Steps \ {"granted", "registered"},
         pc' = [pc EXCEPT ![t] = s]
  PROVE  IInv'
<1>1. pc' \in [Tasks -> Steps]
  BY DEF IInv
<1>2. \A u \in Tasks :
        pc'[u] \in {"granted", "registered"} => pc'[u] = pc[u] /\ got'[u] = got[u]
  BY DEF IInv
<1>3. QED
  BY <1>1, <1>2, QuietInv DEF IInv

\* The end of a task takes its reply out of flight.
LEMMA EndInv ==
  ASSUME IInv, NEW t \in Tasks, End(t)
  PROVE  /\ pc' \in [Tasks -> Steps] /\ got' \in [Tasks -> Nat]
         /\ RepliesCarryTokens'
         /\ \A u \in Tasks :
              pc'[u] \in {"granted", "registered"} => pc'[u] = pc[u] /\ got'[u] = got[u]
<1>1. /\ pc' = [pc EXCEPT ![t] = "idle"]
      /\ got' = [got EXCEPT ![t] = 0]
      /\ "idle" \in Steps
  BY DEF End, Steps
<1>2. pc' \in [Tasks -> Steps] /\ got' \in [Tasks -> Nat]
  BY <1>1 DEF IInv
<1>3. \A u \in Tasks :
        pc'[u] \in {"granted", "registered"} => pc'[u] = pc[u] /\ got'[u] = got[u]
  BY <1>1 DEF IInv
<1>4. RepliesCarryTokens'
  BY <1>3 DEF IInv, RepliesCarryTokens
<1>5. QED
  BY <1>2, <1>3, <1>4

\* A granted request carries the pair just issued.
LEMMA IssueInv ==
  ASSUME IInv, UNCHANGED <<token, form>>, NEW t \in Tasks, Issue(t),
         NEW s \in Steps, pc' = [pc EXCEPT ![t] = s]
  PROVE  IInv'
<1>1. issued' \in Nat /\ issued' # 0 /\ got' = [got EXCEPT ![t] = issued']
  BY DEF Issue, IInv
<1>2. pc' \in [Tasks -> Steps] /\ got' \in [Tasks -> Nat]
  BY <1>1 DEF IInv
<1>3. RepliesCarryTokens'
  BY <1>1 DEF IInv, RepliesCarryTokens
<1>4. QED
  BY <1>1, <1>2, <1>3 DEF IInv

\* The form on the page is one of four, whatever page is shown.
LEMMA ShowForm ==
  ASSUME IInv, NEW p, NEW auth, Show(p, auth)
  PROVE  form' \in Forms
  BY DEF Show, FirstForm, Forms, IInv

\* The server's half: a reply that grants carries the pair just issued.
LEMMA ServerInv ==
  ASSUME IInv, \/ \E r \in Refreshes : ServerCheck(r) \/ ServerRotate(r)
               \/ ServerAuth
  PROVE  IInv'
<1>1. CASE \E r \in Refreshes : ServerCheck(r)
  <2>1. PICK r \in Refreshes : ServerCheck(r)
    BY <1>1
  <2>2. /\ r \in Tasks /\ UNCHANGED <<issued, token, form, got>>
        /\ \E s \in {"checked", "refused"} : pc' = [pc EXCEPT ![r] = s]
    BY <2>1 DEF ServerCheck, serverVars, tabVars, Tasks
  <2>3. QED
    BY <2>2, MoveInv DEF Steps
<1>2. CASE \E r \in Refreshes : ServerRotate(r)
  <2>1. PICK r \in Refreshes : ServerRotate(r)
    BY <1>2
  <2>2. UNCHANGED <<token, form>> /\ r \in Tasks
    BY <2>1 DEF ServerRotate, tabVars, Tasks
  <2>3. CASE Issue(r) /\ pc' = [pc EXCEPT ![r] = "granted"]
    BY <2>2, <2>3, IssueInv DEF Steps
  <2>4. CASE pc' = [pc EXCEPT ![r] = "refused"] /\ UNCHANGED <<issued, got>>
    BY <2>2, <2>4, MoveInv DEF Steps
  <2>5. QED
    BY <2>1, <2>3, <2>4 DEF ServerRotate
<1>3. CASE ServerAuth
  <2>1. UNCHANGED <<token, form>> /\ "form" \in Tasks
    BY <1>3 DEF ServerAuth, tabVars, Tasks
  <2>2. CASE /\ Issue("form")
             /\ \E s \in {"registered", "granted"} : pc' = [pc EXCEPT !["form"] = s]
    BY <2>1, <2>2, IssueInv DEF Steps
  <2>3. CASE /\ \E s \in {"challenged", "refused"} : pc' = [pc EXCEPT !["form"] = s]
             /\ UNCHANGED <<issued, got>>
    BY <2>1, <2>3, MoveInv DEF Steps
  <2>4. QED
    BY <1>3, <2>2, <2>3 DEF ServerAuth
<1>4. QED
  BY <1>1, <1>2, <1>3

\* The store's refreshes: a success takes up the reply's token, a failure drops the
\* one in memory.
LEMMA StoreRefreshInv ==
  ASSUME IInv, NEW r \in StoreRefreshes, StoreRefreshReply(r) \/ StoreRefreshLost(r)
  PROVE  IInv'
<1>1. r \in Tasks /\ End(r) /\ issued' = issued
  BY DEF StoreRefreshReply, StoreRefreshLost, serverVars, browserVars,
         StoreRefreshes, Refreshes, Tasks, IInv
<1>2. \/ pc[r] = "granted" /\ RefreshOk(r)
      \/ RefreshFailed(r)
  BY DEF StoreRefreshReply, StoreRefreshLost
<1>3. token' \in {0, got[r]} /\ got[r] \in Nat
  BY <1>1, <1>2 DEF RefreshOk, RefreshFailed, IInv, RepliesCarryTokens
<1>4. token' \in Nat
  BY <1>3
<1>5. form' \in Forms
  BY <1>2 DEF RefreshOk, RefreshFailed, Show, FirstForm, Stay, Forms, IInv
<1>6. QED
  BY <1>1, <1>4, <1>5, EndInv DEF IInv

\* The calls of lib/api.ts: only a logout touches the token, and drops it.
LEMMA CallInv ==
  ASSUME IInv, NEW c \in Calls,
         ServerCall(c) \/ JoinRefresh(c) \/ CallReply(c) \/ CallLost(c)
  PROVE  IInv'
<1>1. c \in Tasks /\ "shared" \in Tasks
  BY DEF Tasks, Refreshes
<1>2. CASE ServerCall(c)
  BY <1>1, <1>2, QuietInv DEF ServerCall, Effect, IInv, Steps, browserVars, tabVars
<1>3. CASE JoinRefresh(c)
  BY <1>1, <1>3, QuietInv DEF JoinRefresh, IInv, Steps, serverVars, browserVars, tabVars
<1>4. CASE CallReply(c) \/ CallLost(c)
  <2>1. End(c) /\ issued' = issued
    BY <1>4 DEF CallReply, CallLost, serverVars, browserVars, IInv
  <2>2. token' \in {0, token}
    BY <1>4 DEF CallReply, CallLost, Settled, tabVars
  <2>3. token' \in Nat
    BY <2>2 DEF IInv
  <2>4. form' \in Forms
    BY <1>4, ShowForm DEF CallReply, CallLost, Settled, tabVars, IInv
  <2>5. QED
    BY <1>1, <2>1, <2>3, <2>4, EndInv DEF IInv
<1>5. QED
  BY <1>2, <1>3, <1>4

\* The shared refresh fills the token in memory and wakes the waiting calls, or
\* drops it and ends them.
LEMMA SharedInv ==
  ASSUME IInv, SharedGranted \/ SharedFailed
  PROVE  IInv'
<1>1. CASE SharedGranted
  <2>1. "shared" \in Tasks /\ token' = got["shared"] /\ got["shared"] \in Nat \ {0}
    BY <1>1 DEF SharedGranted, Tasks, Refreshes, IInv, RepliesCarryTokens
  <2>2. UNCHANGED issued
    BY <1>1 DEF SharedGranted, serverVars
  <2>3. pc' \in [Tasks -> Steps] /\ got' \in [Tasks -> Nat]
    BY <1>1 DEF SharedGranted, IInv, Steps
  <2>4. \A t \in Tasks : pc'[t] \in {"granted", "registered"}
                           => t # "shared" /\ pc'[t] = pc[t] /\ got'[t] = got[t]
    BY <1>1 DEF SharedGranted, IInv, Steps
  <2>5. form' \in Forms
    BY <1>1 DEF SharedGranted, IInv
  <2>6. RepliesCarryTokens'
    BY <2>4 DEF IInv, RepliesCarryTokens
  <2>7. token' \in Nat /\ issued' \in Nat
    BY <2>1, <2>2 DEF IInv
  <2>8. QED
    BY <2>3, <2>5, <2>6, <2>7 DEF IInv
<1>2. CASE SharedFailed
  <2>1. token' = 0 /\ UNCHANGED issued /\ form' \in Forms
    BY <1>2, ShowForm DEF SharedFailed, serverVars, Stay, IInv
  <2>2. /\ pc' \in [Tasks -> Steps] /\ got' = [got EXCEPT !["shared"] = 0]
        /\ \A t \in Tasks : pc'[t] \in {"granted", "registered"}
                              => t # "shared" /\ pc'[t] = pc[t]
    BY <1>2 DEF SharedFailed, IInv, Steps
  <2>3. got' \in [Tasks -> Nat] /\ RepliesCarryTokens'
    BY <2>2 DEF IInv, RepliesCarryTokens
  <2>4. QED
    BY <2>1, <2>2, <2>3 DEF IInv
<1>3. QED
  BY <1>1, <1>2

\* The forms: a reply is adopted as a whole, store and token together.
LEMMA FormInv ==
  ASSUME IInv, Submit \/ FormReply \/ BackToLogin
  PROVE  IInv'
<1>1. "form" \in Tasks /\ "enable" \in Tasks
  BY DEF Tasks, Calls
<1>2. CASE Submit
  <2>1. /\ UNCHANGED <<issued, token, form, got>>
        /\ pc' = [pc EXCEPT !["form"] = form]
    BY <1>2 DEF Submit, serverVars, tabVars
  <2>2. form \in Steps \ {"granted", "registered"}
    BY DEF IInv, Forms, Steps
  <2>3. QED
    BY <1>1, <2>1, <2>2, MoveInv
<1>3. CASE FormReply
  <2>1. issued' = issued
    BY <1>3 DEF FormReply, serverVars
  <2>2. ASSUME pc["form"] \in {"granted", "registered"}, Adopt(got["form"])
        PROVE  token' \in Nat
    <3>1. got["form"] \in Nat /\ got["form"] # 0
      BY <1>1, <2>2 DEF IInv, RepliesCarryTokens
    <3>2. token' = got["form"]
      BY <2>2 DEF Adopt
    <3>3. QED
      BY <3>1, <3>2
  <2>3. CASE /\ pc["form"] \in {"granted", "registered"}
             /\ Adopt(got["form"])
             /\ Show("dashboard", TRUE)
             /\ End("form")
    BY <1>1, <2>1, <2>2, <2>3, ShowForm, EndInv DEF IInv
  <2>4. CASE /\ pc["form"] = "registered"
             /\ Adopt(got["form"])
             /\ Stay
             /\ pc' = [pc EXCEPT !["form"] = "idle", !["enable"] = "sent"]
             /\ got' = [got EXCEPT !["form"] = 0]
    <3>1. pc' \in [Tasks -> Steps] /\ got' \in [Tasks -> Nat]
      BY <2>4 DEF IInv, Steps
    <3>2. RepliesCarryTokens'
      BY <1>1, <2>4 DEF IInv, RepliesCarryTokens
    <3>3. form' \in Forms
      BY <2>4 DEF Stay, IInv
    <3>4. QED
      BY <2>1, <2>2, <2>4, <3>1, <3>2, <3>3 DEF IInv
  <2>5. CASE End("form") /\ UNCHANGED <<token, store>> /\ form' \in Forms
    BY <1>1, <2>1, <2>5, EndInv, QuietInv
  <2>6. UNCHANGED form => form' \in Forms
    BY DEF IInv
  <2>7. (IF form = "password" THEN "mfa" ELSE form) \in Forms
    BY DEF IInv, Forms
  <2>8. QED
    BY <1>3, <2>3, <2>4, <2>5, <2>6, <2>7 DEF FormReply, tabVars

<1>4. CASE BackToLogin
  <2>1. UNCHANGED <<issued, token, pc, got>> /\ form' \in Forms
    BY <1>4 DEF BackToLogin, serverVars, taskVars, Forms
  <2>2. QED
    BY <2>1, QuietInv DEF IInv
<1>5. QED
  BY <1>2, <1>3, <1>4

\* Loads, links, calls, sign-outs and the effect of the guard.
LEMMA UserInv ==
  ASSUME IInv,
         \/ \E p \in Pages : Load(p) \/ Visit(p)
         \/ \E c \in Requests : Call(c)
         \/ Logout \/ OAuth \/ GuardEffect \/ Expire
  PROVE  IInv'
<1>1. CASE \E p \in Pages : Load(p)
  BY <1>1, BootInv DEF Load, IInv, serverVars, browserVars
<1>2. CASE \E p \in Pages : Visit(p)
  <2>1. UNCHANGED <<issued, token, pc, got>> /\ form' \in Forms
    BY <1>2, ShowForm DEF Visit, serverVars, taskVars
  <2>2. QED
    BY <2>1, QuietInv DEF IInv
<1>3. CASE (\E c \in Requests : Call(c)) \/ Logout
  <2>1. /\ UNCHANGED <<issued, token, form, got>>
        /\ \E c \in Tasks : pc' = [pc EXCEPT ![c] = "sent"]
    BY <1>3 DEF Call, Logout, Dispatch, serverVars, tabVars, Tasks, Calls
  <2>2. QED
    BY <2>1, MoveInv DEF Steps
<1>4. CASE OAuth
  BY <1>4, BootInv DEF OAuth, IInv
<1>5. CASE GuardEffect
  <2>1. UNCHANGED <<issued, token, got>>
    BY <1>5 DEF GuardEffect, serverVars
  <2>2. CASE UNCHANGED pc /\ form' \in Forms
    BY <2>1, <2>2, QuietInv DEF IInv
  <2>3. CASE UNCHANGED form /\ \E g \in Guards : pc' = [pc EXCEPT ![g] = "asked"]
    BY <2>1, <2>3, MoveInv DEF Guards, Steps, Tasks, Refreshes, StoreRefreshes
  <2>4. UNCHANGED form => form' \in Forms
    BY DEF IInv
  <2>5. QED
    BY <1>5, <2>2, <2>3, <2>4, ShowForm DEF GuardEffect, Guards
<1>6. CASE Expire
  BY <1>6, QuietInv DEF Expire, IInv, browserVars, tabVars, taskVars
<1>7. QED
  BY <1>1, <1>2, <1>3, <1>4, <1>5, <1>6

\* The browser leaves the page for /login.
LEMMA LeaveInv ==
  ASSUME IInv, Leave
  PROVE  IInv'
  BY BootInv DEF Leave, IInv, serverVars

(***************************************************************************)
(* Whose pair it is.  A pair on its way to the tab is known to nobody yet. *)
(***************************************************************************)
\* The pairs that have reached the tab, or that the server has revoked.
Known == {0, cookie, token} \cup revoked \cup {sent[t] : t \in Tasks} \cup {bearer[t] : t \in Tasks}

\* A reply under way carries a pair that nobody else has or knows.
Unshared ==
  \A t \in Tasks : got[t] # 0 =>
    got[t] \notin Known /\ \A u \in Tasks : got[u] = got[t] => u = t

SecretInv ==
  /\ issued \in Nat
  /\ Known \subseteq 0..issued
  /\ got \in [Tasks -> 0..issued]
  /\ sent \in [Tasks -> Nat] /\ bearer \in [Tasks -> Nat]
  /\ Unshared

\* The cookie is covered: what replaces or clears it is on its way.
Covered ==
  \/ \E r \in Refreshes : pc[r] = "granted" /\ sent[r] = cookie
  \/ pc["logout"] = "ok" /\ sent["logout"] # 0

\* The inductive invariant of CookieCurrent and RetryFresh: with IInv, that pairs
\* under way are unshared, that rotation starts from a real token, and that a logout
\* which covers a revoked cookie is one that revoked something.
CookieInv ==
  /\ SecretInv
  /\ 0 \notin revoked
  /\ \A r \in Refreshes : pc[r] = "checked" => sent[r] # 0
  /\ smooth /\ cookie \in revoked => Covered

\* What a step may let the tab know: what is known, or the pair of a reply it ends.
Shown(n) == n \in Known \/ \E t \in Tasks : n = got[t] /\ got'[t] = 0

\* What the tab holds or has sent is known.
LEMMA KnownHas ==
  /\ 0 \in Known /\ cookie \in Known /\ token \in Known /\ revoked \subseteq Known
  /\ \A t \in Tasks : sent[t] \in Known /\ bearer[t] \in Known
  BY DEF Known

\* A step that ends replies, and puts into cookies, tokens and requests only what
\* was known before or was in these replies.
LEMMA RevealInv ==
  ASSUME SecretInv, issued' = issued,
         got' \in [Tasks -> Nat], \A t \in Tasks : got'[t] \in {0, got[t]},
         sent' \in [Tasks -> Nat], bearer' \in [Tasks -> Nat],
         Shown(cookie'), Shown(token'), revoked' \subseteq Known,
         \A t \in Tasks : Shown(sent'[t]) /\ Shown(bearer'[t])
  PROVE  SecretInv'
<1>1. \A n \in Known' : Shown(n)
  BY DEF Known, Shown
<1>2. Known' \subseteq 0..issued'
  BY <1>1 DEF Shown, SecretInv
<1>3. got' \in [Tasks -> 0..issued']
  BY DEF SecretInv
<1>4. ASSUME NEW t \in Tasks, got'[t] # 0
      PROVE  got'[t] \notin Known' /\ \A u \in Tasks : got'[u] = got'[t] => u = t
  <2>1. got'[t] = got[t]
    BY <1>4
  <2>2. got[t] \notin Known /\ \A u \in Tasks : got[u] = got[t] => u = t
    BY <1>4, <2>1 DEF SecretInv, Unshared
  <2>3. got[t] \notin Known'
    BY <1>1, <1>4, <2>1, <2>2 DEF Shown
  <2>4. QED
    BY <1>4, <2>1, <2>2, <2>3
<1>5. QED
  BY <1>2, <1>3, <1>4 DEF SecretInv, Unshared

\* The server issues a pair that was never seen before.
LEMMA FreshInv ==
  ASSUME SecretInv, NEW t \in Tasks, Issue(t), UNCHANGED <<cookie, token, sent, bearer>>,
         revoked' \subseteq Known
  PROVE  SecretInv'
<1>1. issued' = issued + 1 /\ got' = [got EXCEPT ![t] = issued + 1]
  BY DEF Issue
<1>2. Known' \subseteq Known
  BY DEF Known
<1>3. issued' \in Nat /\ Known' \subseteq 0..issued' /\ got' \in [Tasks -> 0..issued']
  BY <1>1, <1>2 DEF SecretInv
<1>4. Unshared'
  <2>1. issued' \notin Known'
    BY <1>1, <1>2 DEF SecretInv
  <2>2. \A u \in Tasks : got[u] # issued'
    BY <1>1 DEF SecretInv
  <2>3. QED
    BY <1>1, <1>2, <2>1, <2>2 DEF SecretInv, Unshared
<1>5. QED
  BY <1>3, <1>4 DEF SecretInv

\* A step that touches neither the cookies nor what covers a revoked one.
LEMMA CoverKept ==
  ASSUME CookieInv, UNCHANGED <<cookie, revoked>>, SecretInv',
         \A r \in Refreshes : pc'[r] = "checked" => sent'[r] # 0,
         smooth' => smooth,
         \A r \in Refreshes : pc[r] = "granted" => pc'[r] = "granted" /\ sent'[r] = sent[r],
         pc["logout"] = "ok" /\ sent["logout"] # 0 =>
           pc'["logout"] = "ok" /\ sent'["logout"] = sent["logout"]
  PROVE  CookieInv'
<1>1. Covered => Covered'
  BY DEF Covered
<1>2. QED
  BY <1>1 DEF CookieInv

\* A step after which the cookie is good, or something was lost.
LEMMA CoverNew ==
  ASSUME CookieInv, SecretInv', 0 \notin revoked',
         \A r \in Refreshes : pc'[r] = "checked" => sent'[r] # 0,
         cookie' \notin revoked' \/ ~smooth'
  PROVE  CookieInv'
  BY DEF CookieInv

\* The server's check and its rotation: the old token is revoked and the reply that
\* covers it is on its way, or the step was a fault.
LEMMA RefreshCookie ==
  ASSUME IInv, CookieInv, NEW r \in Refreshes, ServerCheck(r) \/ ServerRotate(r)
  PROVE  CookieInv'
<1> USE DEF serverVars, browserVars, tabVars, histVars
<1>1. r \in Tasks /\ r # "logout" /\ Refreshes \subseteq Tasks /\ pc \in [Tasks -> Steps]
  BY DEF Tasks, Refreshes, StoreRefreshes, Guards, IInv
<1>2. sent' = sent /\ bearer' = bearer /\ cookie' = cookie /\ token' = token
  BY DEF ServerCheck, ServerRotate
<1>3. CASE ServerCheck(r)
  <2>1. /\ UNCHANGED <<issued, revoked, got, smooth>> /\ pc[r] = "asked"
        /\ pc' = [pc EXCEPT ![r] = IF sent[r] # 0 /\ sent[r] \notin revoked
                                     THEN "checked" ELSE "refused"]
    BY <1>3 DEF ServerCheck
  <2>2. SecretInv'
    BY <1>2, <2>1 DEF CookieInv, SecretInv, Unshared, Known
  <2>3. QED
    BY <1>1, <1>2, <2>1, <2>2, CoverKept DEF CookieInv
<1>4. CASE ServerRotate(r)
  <2>1. revoked' = revoked \cup {sent[r]} /\ revoked' \subseteq Known /\ sent[r] # 0
    BY <1>1, <1>4, KnownHas DEF ServerRotate, CookieInv
  <2>2. CASE Issue(r) /\ pc' = [pc EXCEPT ![r] = "granted"] /\ UNCHANGED smooth
    <3>1. SecretInv'
      BY <1>1, <1>2, <2>1, <2>2, FreshInv DEF CookieInv
    <3>2. \A q \in Refreshes : pc'[q] = "checked" => sent'[q] # 0
      BY <1>1, <1>2, <2>2 DEF CookieInv
    <3>3. ASSUME smooth', cookie' \in revoked' PROVE Covered'
      <4>1. pc[r] = "checked"
        BY <1>4 DEF ServerRotate
      <4>2. CASE cookie = sent[r]
        BY <1>1, <1>2, <2>2, <4>2 DEF Covered
      <4>3. CASE cookie # sent[r]
        <5>1. Covered
          BY <1>2, <2>1, <2>2, <3>3, <4>3 DEF CookieInv
        <5>2. QED
          BY <1>1, <1>2, <2>2, <4>1, <5>1 DEF Covered
      <4>4. QED
        BY <4>2, <4>3
    <3>4. QED
      BY <2>1, <3>1, <3>2, <3>3 DEF CookieInv
  <2>3. CASE pc' = [pc EXCEPT ![r] = "refused"] /\ smooth' = FALSE /\ UNCHANGED <<issued, got>>
    <3>1. SecretInv'
      BY <1>2, <2>1, <2>3 DEF CookieInv, SecretInv, Unshared, Known
    <3>2. \A q \in Refreshes : pc'[q] = "checked" => sent'[q] # 0
      BY <1>1, <1>2, <2>3 DEF CookieInv
    <3>3. QED
      BY <2>1, <2>3, <3>1, <3>2, CoverNew DEF CookieInv
  <2>4. QED
    BY <1>4, <2>2, <2>3 DEF ServerRotate
<1>5. QED
  BY <1>3, <1>4

\* The end of a task whose pair, if it has one, the tab takes up or throws away.
LEMMA EndSecret ==
  ASSUME CookieInv, NEW t \in Tasks, End(t), UNCHANGED <<issued, revoked>>,
         cookie' \in {0, cookie, got[t]}, token' \in {0, token, got[t]}
  PROVE  /\ SecretInv'
         /\ \A u \in Tasks : u # t => pc'[u] = pc[u] /\ sent'[u] = sent[u]
         /\ pc' = [pc EXCEPT ![t] = "idle"]
<1>1. /\ got' = [got EXCEPT ![t] = 0] /\ sent' = [sent EXCEPT ![t] = 0]
      /\ bearer' = [bearer EXCEPT ![t] = 0] /\ pc' = [pc EXCEPT ![t] = "idle"]
  BY DEF End
<1>2. /\ got \in [Tasks -> Nat] /\ sent \in [Tasks -> Nat] /\ bearer \in [Tasks -> Nat]
      /\ issued \in Nat /\ SecretInv
  BY DEF CookieInv, SecretInv
<1>3. got' \in [Tasks -> Nat] /\ sent' \in [Tasks -> Nat] /\ bearer' \in [Tasks -> Nat]
  BY <1>1, <1>2
<1>4. \A u \in Tasks : got'[u] \in {0, got[u]}
  BY <1>1, <1>2
<1>5. got'[t] = 0
  BY <1>1, <1>2
<1>6. Shown(0) /\ Shown(got[t])
  BY <1>5, KnownHas DEF Shown
<1>7. Shown(cookie') /\ Shown(token') /\ revoked' \subseteq Known
  BY <1>6, KnownHas DEF Shown
<1>8. \A u \in Tasks : Shown(sent'[u]) /\ Shown(bearer'[u])
  BY <1>1, <1>2, <1>6, KnownHas DEF Shown
<1>9. SecretInv'
  BY <1>2, <1>3, <1>4, <1>7, <1>8, RevealInv
<1>10. QED
  BY <1>1, <1>9

\* A reply's pair has not been revoked.
LEMMA GotFresh ==
  ASSUME CookieInv, NEW t \in Tasks, got[t] # 0
  PROVE  got[t] \notin revoked
  BY KnownHas DEF CookieInv, SecretInv, Unshared

\* The cookies of a reply.
LEMMA TakenCookie ==
  ASSUME NEW r, TakeCookies(r)
  PROVE  cookie' = IF pc[r] = "granted" THEN got[r] ELSE cookie
  BY Zenon DEF TakeCookies

\* The store's refreshes: the cookie of a granted one is good, a refused one covered
\* nothing, and a lost one is a fault.
LEMMA StoreRefreshCookie ==
  ASSUME IInv, CookieInv, NEW r \in StoreRefreshes, StoreRefreshReply(r) \/ StoreRefreshLost(r)
  PROVE  CookieInv'
<1>1. /\ r \in Tasks /\ r \in Refreshes /\ r # "logout" /\ Refreshes \subseteq Tasks
      /\ "logout" \in Tasks
  BY DEF Tasks, Calls, Refreshes, StoreRefreshes, Guards
<1>2. End(r) /\ UNCHANGED <<issued, revoked>> /\ (smooth' => smooth)
  BY DEF StoreRefreshReply, StoreRefreshLost, serverVars, histVars
<1>3. token' \in {0, got[r]}
  BY DEF StoreRefreshReply, StoreRefreshLost, RefreshOk, RefreshFailed
<1>4. CASE StoreRefreshReply(r)
  <2>1. cookie' = IF pc[r] = "granted" THEN got[r] ELSE cookie
    BY <1>4, TakenCookie DEF StoreRefreshReply
  <2>2. SecretInv' /\ \A u \in Tasks : u # r => pc'[u] = pc[u] /\ sent'[u] = sent[u]
    BY <1>1, <1>2, <1>3, <2>1, EndSecret
  <2>3. \A q \in Refreshes : pc'[q] = "checked" => sent'[q] # 0
    BY <1>1, <1>2, <2>2 DEF CookieInv, End, IInv
  <2>4. CASE pc[r] = "granted"
    <3>1. got[r] # 0
      BY <1>1, <2>4 DEF IInv, RepliesCarryTokens
    <3>2. QED
      BY <1>1, <1>2, <2>1, <2>2, <2>3, <2>4, <3>1, GotFresh, CoverNew DEF CookieInv
  <2>5. CASE pc[r] # "granted"
    BY <1>1, <1>2, <2>1, <2>2, <2>3, <2>5, CoverKept
  <2>6. QED
    BY <2>4, <2>5
<1>5. CASE StoreRefreshLost(r)
  <2>1. cookie' = cookie /\ ~smooth'
    BY <1>5 DEF StoreRefreshLost, browserVars
  <2>2. SecretInv' /\ \A u \in Tasks : u # r => pc'[u] = pc[u] /\ sent'[u] = sent[u]
    BY <1>1, <1>2, <1>3, <2>1, EndSecret
  <2>3. \A q \in Refreshes : pc'[q] = "checked" => sent'[q] # 0
    BY <1>1, <1>2, <2>2 DEF CookieInv, End, IInv
  <2>4. QED
    BY <1>2, <2>1, <2>2, <2>3, CoverNew DEF CookieInv
<1>6. QED
  BY <1>4, <1>5

\* The calls of lib/api.ts.  Only a logout moves the cookie: it revokes the one it was
\* sent with, and its answer, which is then under way, clears the cookie.
LEMMA CallCookie ==
  ASSUME IInv, CookieInv, NEW c \in Calls,
         ServerCall(c) \/ JoinRefresh(c) \/ CallReply(c) \/ CallLost(c)
  PROVE  CookieInv'
<1> USE DEF serverVars, browserVars, histVars
<1>1. /\ c \in Tasks /\ "shared" \in Tasks /\ "logout" \in Tasks
      /\ "shared" \in Refreshes /\ "logout" \notin Refreshes /\ Refreshes \subseteq Tasks
      /\ pc \in [Tasks -> Steps]
  BY DEF Tasks, Calls, Refreshes, StoreRefreshes, Guards, IInv
<1>2. \A r \in Refreshes : r # c
  BY SessionConstants DEF Calls, Refreshes, StoreRefreshes, Guards
<1>3. sent \in [Tasks -> Nat]
  BY DEF CookieInv, SecretInv
<1>4. CASE ServerCall(c)
  <2>1. /\ UNCHANGED <<issued, got, smooth, sent, bearer, cookie, token>>
        /\ pc[c] \in {"sent", "again"}
        /\ \A t \in Tasks : t # c => pc'[t] = pc[t]
    BY <1>1, <1>4 DEF ServerCall, tabVars
  <2>2. \A r \in Refreshes : pc'[r] = pc[r]
    BY <1>1, <1>2, <2>1
  <2>3. CASE c = "logout" /\ sent[c] # 0 /\ Authorized(c)
    <3>1. revoked' = revoked \cup {sent[c]} /\ pc'[c] = "ok"
      BY <1>1, <1>4, <2>3 DEF ServerCall, Effect, CarriesCookie
    <3>2. SecretInv'
      <4>1. Known' = Known
        BY <1>1, <2>1, <3>1 DEF Known
      <4>2. QED
        BY <2>1, <4>1 DEF CookieInv, SecretInv, Unshared
    <3>3. Covered'
      BY <2>1, <2>3, <3>1 DEF Covered
    <3>4. QED
      BY <2>1, <2>2, <2>3, <3>1, <3>2, <3>3 DEF CookieInv
  <2>4. CASE ~(c = "logout" /\ sent[c] # 0 /\ Authorized(c))
    <3>1. revoked' = revoked
      BY <1>4, <2>4 DEF ServerCall, Effect, CarriesCookie
    <3>2. Known' = Known
      BY <2>1, <3>1 DEF Known
    <3>3. SecretInv'
      BY <2>1, <3>2 DEF CookieInv, SecretInv, Unshared
    <3>4. QED
      BY <1>1, <2>1, <2>2, <3>1, <3>3, CoverKept DEF CookieInv
  <2>5. QED
    BY <2>3, <2>4
<1>5. CASE JoinRefresh(c)
  <2>1. /\ UNCHANGED <<issued, revoked, got, smooth, bearer, cookie, token>>
        /\ pc[c] = "denied"
        /\ \A t \in Tasks : t \notin {c, "shared"} => pc'[t] = pc[t] /\ sent'[t] = sent[t]
        /\ IF pc["shared"] = "idle"
             THEN pc'["shared"] = "asked" /\ sent' = [sent EXCEPT !["shared"] = cookie]
             ELSE pc'["shared"] = pc["shared"] /\ sent' = sent
    BY <1>1, <1>2, <1>3, <1>5 DEF JoinRefresh, tabVars
  <2>2. cookie \in Nat
    BY KnownHas DEF CookieInv, SecretInv
  <2>3. sent' \in [Tasks -> Nat] /\ \A t \in Tasks : sent'[t] \in {sent[t], cookie}
    BY <1>1, <1>3, <2>1, <2>2
  <2>4. SecretInv'
    <3>1. Known' \subseteq Known
      BY <2>1, <2>3 DEF Known
    <3>2. QED
      BY <2>1, <2>3, <3>1 DEF CookieInv, SecretInv, Unshared
  <2>5. \A r \in Refreshes : /\ pc'[r] = "checked" => sent'[r] # 0
                             /\ pc[r] = "granted" => pc'[r] = "granted" /\ sent'[r] = sent[r]
    BY <1>1, <1>2, <2>1 DEF CookieInv
  <2>6. QED
    BY <1>1, <2>1, <2>4, <2>5, CoverKept
<1>6. CASE CallReply(c) \/ CallLost(c)
  <2>1. End(c) /\ issued' = issued /\ revoked' = revoked /\ (smooth' => smooth)
    <3>1. CASE CallReply(c)
      BY <3>1, Zenon DEF CallReply
    <3>2. CASE CallLost(c)
      BY <3>2 DEF CallLost
    <3>3. QED
      BY <1>6, <3>1, <3>2
  <2>2. token' \in {0, token}
    BY <1>6 DEF CallReply, CallLost, Settled, tabVars
  <2>a. cookie' \in {0, cookie}
    <3>1. CASE CallReply(c)
      BY <3>1 DEF CallReply
    <3>2. CASE CallLost(c)
      BY <3>2 DEF CallLost
    <3>3. QED
      BY <1>6, <3>1, <3>2
  <2>3. SecretInv' /\ \A u \in Tasks : u # c => pc'[u] = pc[u] /\ sent'[u] = sent[u]
    BY <1>1, <2>1, <2>2, <2>a, EndSecret
  <2>4. \A r \in Refreshes : pc'[r] = pc[r] /\ sent'[r] = sent[r]
    BY <1>1, <1>2, <2>3
  <2>5. CASE cookie' = 0 \/ CallLost(c)
    <3>1. cookie' = 0 \/ ~smooth'
      BY <2>5 DEF CallLost
    <3>2. QED
      BY <2>1, <2>3, <2>4, <3>1, CoverNew DEF CookieInv
  <2>6. CASE cookie' # 0 /\ CallReply(c)
    <3>1. cookie' = cookie /\ ~(c = "logout" /\ pc[c] = "ok" /\ sent[c] # 0)
      BY <2>6 DEF CallReply
    <3>2. QED
      BY <1>1, <2>1, <2>3, <2>4, <3>1, CoverKept DEF CookieInv
  <2>7. QED
    BY <1>6, <2>5, <2>6
<1>7. QED
  BY <1>4, <1>5, <1>6

\* A full load forgets every reply and every token; the restorer may send the cookie.
LEMMA BootSecret ==
  ASSUME CookieInv, NEW p, Boot(p), UNCHANGED <<issued, revoked, cookie>>,
         \E b : RestorerStarts(b)
  PROVE  SecretInv' /\ \A r \in Tasks : pc'[r] # "checked"
<1>1. PICK b : RestorerStarts(b)
  OBVIOUS
<1>2. /\ got' = [t \in Tasks |-> 0] /\ bearer' = [t \in Tasks |-> 0] /\ token' = 0
      /\ sent' = [t \in Tasks |-> IF t = "restorer" /\ b THEN cookie ELSE 0]
      /\ pc' = [t \in Tasks |-> IF t = "restorer" /\ b THEN "asked" ELSE "idle"]
  BY <1>1 DEF Boot, RestorerStarts
<1>3. cookie \in Nat
  BY KnownHas DEF CookieInv, SecretInv
<1>4. sent' \in [Tasks -> Nat] /\ \A t \in Tasks : sent'[t] \in {cookie, 0}
  BY <1>2, <1>3
<1>5. Known' \subseteq Known
  BY <1>2, <1>4 DEF Known
<1>6. SecretInv'
  BY <1>2, <1>4, <1>5 DEF CookieInv, SecretInv, Unshared
<1>7. QED
  BY <1>2, <1>6

\* The shared refresh installs a pair nobody has revoked, or its failure ends calls
\* that cover nothing.
LEMMA SharedCookie ==
  ASSUME IInv, CookieInv, SharedGranted \/ SharedFailed
  PROVE  CookieInv'
<1>1. "shared" \in Tasks /\ Refreshes \subseteq Tasks
  BY DEF Tasks, Refreshes
<1>2. UNCHANGED <<issued, revoked>>
  BY DEF SharedGranted, SharedFailed, serverVars
<1>3. CASE SharedGranted
  <2>1. /\ pc["shared"] = "granted" /\ token' = got["shared"]
        /\ got' = [got EXCEPT !["shared"] = 0]
        /\ bearer' = [t \in Tasks |-> IF pc[t] = "waiting" THEN token' ELSE bearer[t]]
        /\ sent' = [t \in Tasks |-> IF t = "shared" THEN 0
                                   ELSE IF pc[t] = "waiting" /\ CarriesCookie(t) THEN cookie'
                                   ELSE sent[t]]
        /\ pc' = [t \in Tasks |-> IF t = "shared" THEN "idle"
                                 ELSE IF pc[t] = "waiting" THEN "again" ELSE pc[t]]
    BY <1>3 DEF SharedGranted
  <2>2. cookie' = got["shared"]
    BY <1>3, <2>1, TakenCookie DEF SharedGranted
  <2>3. got["shared"] # 0 /\ got["shared"] \notin revoked
    BY <1>1, <2>1, GotFresh DEF IInv, RepliesCarryTokens
  <2>4. /\ got \in [Tasks -> Nat] /\ got["shared"] \in Nat
        /\ sent \in [Tasks -> Nat] /\ bearer \in [Tasks -> Nat]
    BY <1>1 DEF IInv, CookieInv, SecretInv
  <2>5. /\ got' \in [Tasks -> Nat] /\ got'["shared"] = 0
        /\ \A t \in Tasks : got'[t] \in {0, got[t]}
    BY <1>1, <2>1, <2>4
  <2>6. Shown(0) /\ Shown(got["shared"])
    BY <1>1, <2>5, KnownHas DEF Shown
  <2>7. sent' \in [Tasks -> Nat] /\ bearer' \in [Tasks -> Nat]
    BY <2>1, <2>2, <2>4
  <2>8. \A t \in Tasks : Shown(sent'[t]) /\ Shown(bearer'[t])
    BY <2>1, <2>2, <2>6, KnownHas DEF Shown
  <2>9. SecretInv'
    BY <1>2, <2>1, <2>2, <2>5, <2>6, <2>7, <2>8, KnownHas, RevealInv DEF CookieInv
  <2>10. \A r \in Refreshes : pc'[r] = "checked" => sent'[r] # 0
    BY <1>1, <2>1 DEF CookieInv
  <2>11. QED
    BY <1>2, <2>2, <2>3, <2>9, <2>10, CoverNew DEF CookieInv
<1>4. CASE SharedFailed
  <2>1. /\ token' = 0 /\ got' = [got EXCEPT !["shared"] = 0]
        /\ \A t \in Tasks : sent'[t] \in {0, sent[t]} /\ bearer'[t] \in {0, bearer[t]}
        /\ \A r \in Refreshes \ {"shared"} :
             pc[r] # "waiting" => pc'[r] = pc[r] /\ sent'[r] = sent[r]
        /\ \A t \in Tasks : pc'[t] \in {"idle", pc[t]}
        /\ pc'["shared"] = "idle"
    BY <1>1, <1>4 DEF SharedFailed
  <2>2. sent' \in [Tasks -> Nat] /\ bearer' \in [Tasks -> Nat]
    BY <1>4 DEF SharedFailed, CookieInv, SecretInv
  <2>3. cookie' = cookie
    BY <1>4, TakenCookie DEF SharedFailed, browserVars
  <2>4. SecretInv'
    <3>1. got' \in [Tasks -> Nat] /\ \A t \in Tasks : got'[t] \in {0, got[t]}
      BY <1>1, <2>1 DEF IInv
    <3>2. Shown(0) /\ \A t \in Tasks : Shown(sent'[t]) /\ Shown(bearer'[t])
      BY <2>1, KnownHas DEF Shown
    <3>3. QED
      BY <1>2, <2>1, <2>2, <2>3, <3>1, <3>2, KnownHas, RevealInv DEF CookieInv, Shown
  <2>5. \A r \in Refreshes : pc'[r] = "checked" => sent'[r] # 0
    BY <1>1, <2>1 DEF CookieInv
  <2>6. CASE pc["shared"] = "refused" /\ smooth' = smooth
    <3>1. "logout" \in Tasks
      BY DEF Tasks, Calls
    <3>2. \A t \in Tasks : pc[t] \in {"granted", "ok"} =>
            t # "shared" /\ pc'[t] = pc[t] /\ sent'[t] = sent[t]
      BY <1>1, <1>4, <2>6 DEF SharedFailed
    <3>3. QED
      BY <1>1, <1>2, <2>3, <2>4, <2>5, <2>6, <3>1, <3>2, CoverKept
  <2>7. CASE ~smooth'
    BY <1>2, <2>4, <2>5, <2>7, CoverNew DEF CookieInv
  <2>8. QED
    BY <1>4, <2>6, <2>7 DEF SharedFailed
<1>5. QED
  BY <1>3, <1>4

\* The forms: a pair adopted from a form's answer has not been revoked.
LEMMA FormCookie ==
  ASSUME IInv, CookieInv, Submit \/ ServerAuth \/ FormReply \/ BackToLogin
  PROVE  CookieInv'
<1> USE DEF serverVars, browserVars, tabVars, taskVars, histVars
<1>1. /\ "form" \in Tasks /\ "enable" \in Tasks /\ Refreshes \subseteq Tasks
      /\ "form" \notin Refreshes /\ "enable" \notin Refreshes
      /\ pc \in [Tasks -> Steps] /\ "logout" \in Tasks
  BY DEF Tasks, Calls, Refreshes, StoreRefreshes, Guards, IInv
<1>2. /\ got \in [Tasks -> Nat] /\ sent \in [Tasks -> Nat] /\ bearer \in [Tasks -> Nat]
  BY DEF IInv, CookieInv, SecretInv
<1>3. revoked' = revoked /\ (smooth' => smooth)
  <2>1. CASE Submit \/ BackToLogin
    BY <2>1 DEF Submit, BackToLogin
  <2>2. CASE ServerAuth
    BY <2>2 DEF ServerAuth
  <2>3. CASE FormReply
    BY <2>3, Zenon DEF FormReply
  <2>4. QED
    BY <2>1, <2>2, <2>3
<1>4. CASE Submit \/ BackToLogin
  <2>1. UNCHANGED <<issued, cookie, token, sent, bearer, got>>
    BY <1>4 DEF Submit, BackToLogin
  <2>2. \A t \in Tasks : t # "form" => pc'[t] = pc[t]
    BY <1>1, <1>4 DEF Submit, BackToLogin
  <2>3. SecretInv'
    BY <1>3, <2>1 DEF CookieInv, SecretInv, Unshared, Known
  <2>4. QED
    BY <1>1, <1>3, <2>1, <2>2, <2>3, CoverKept DEF CookieInv
<1>5. CASE ServerAuth
  <2>1. UNCHANGED <<cookie, token, sent, bearer>> /\ \A t \in Tasks : t # "form" => pc'[t] = pc[t]
    BY <1>1, <1>5 DEF ServerAuth
  <2>2. CASE Issue("form")
    <3>1. SecretInv'
      BY <1>1, <1>3, <2>1, <2>2, KnownHas, FreshInv DEF CookieInv
    <3>2. QED
      BY <1>1, <1>3, <2>1, <3>1, CoverKept DEF CookieInv
  <2>3. CASE UNCHANGED <<issued, got>>
    <3>1. SecretInv'
      BY <1>3, <2>1, <2>3 DEF CookieInv, SecretInv, Unshared, Known
    <3>2. QED
      BY <1>1, <1>3, <2>1, <3>1, CoverKept DEF CookieInv
  <2>4. QED
    BY <1>5, <2>2, <2>3 DEF ServerAuth
<1>6. CASE FormReply
  <2>1. issued' = issued
    BY <1>6 DEF FormReply
  <2>2. pc["form"] \in {"granted", "registered"} => got["form"] # 0 /\ got["form"] \notin revoked
    BY <1>1, GotFresh DEF IInv, RepliesCarryTokens
  <2>3. CASE /\ pc["form"] \in {"granted", "registered"}
             /\ Adopt(got["form"])
             /\ End("form")
    <3>1. SecretInv' /\ \A u \in Tasks : u # "form" => pc'[u] = pc[u] /\ sent'[u] = sent[u]
      BY <1>1, <1>3, <2>1, <2>3, EndSecret DEF Adopt
    <3>2. QED
      BY <1>1, <1>3, <2>2, <2>3, <3>1, CoverNew DEF Adopt, CookieInv
  <2>4. CASE /\ pc["form"] = "registered"
             /\ Adopt(got["form"])
             /\ pc' = [pc EXCEPT !["form"] = "idle", !["enable"] = "sent"]
             /\ bearer' = [bearer EXCEPT !["enable"] = got["form"]]
             /\ UNCHANGED sent
             /\ got' = [got EXCEPT !["form"] = 0]
    <3>1. /\ got' \in [Tasks -> Nat] /\ got'["form"] = 0
          /\ \A t \in Tasks : got'[t] \in {0, got[t]}
      BY <1>1, <1>2, <2>4
    <3>2. Shown(got["form"]) /\ sent' \in [Tasks -> Nat] /\ bearer' \in [Tasks -> Nat]
      BY <1>1, <1>2, <2>4, <3>1 DEF Shown
    <3>3. \A t \in Tasks : Shown(sent'[t]) /\ Shown(bearer'[t])
      BY <1>1, <1>2, <2>4, <3>2, KnownHas DEF Shown
    <3>4. cookie' = got["form"] /\ token' = got["form"]
      BY <2>4 DEF Adopt
    <3>5. SecretInv'
      BY <1>3, <2>1, <3>1, <3>2, <3>3, <3>4, KnownHas, RevealInv DEF CookieInv
    <3>6. \A r \in Refreshes : pc'[r] = "checked" => sent'[r] # 0
      BY <1>1, <1>2, <2>4 DEF CookieInv
    <3>7. QED
      BY <1>3, <2>2, <2>4, <3>4, <3>5, <3>6, CoverNew DEF CookieInv
  <2>5. CASE End("form") /\ UNCHANGED <<cookie, token>>
    <3>1. SecretInv' /\ \A u \in Tasks : u # "form" => pc'[u] = pc[u] /\ sent'[u] = sent[u]
      BY <1>1, <1>3, <2>1, <2>5, EndSecret
    <3>2. QED
      BY <1>1, <1>3, <2>5, <3>1, CoverKept DEF CookieInv
  <2>6. QED
    BY <1>6, <2>3, <2>4, <2>5 DEF FormReply
<1>7. QED
  BY <1>4, <1>5, <1>6

\* Loads, links, calls, sign-outs and the guard's effect send the cookie and never
\* move it; a load with the cookie revoked and its cover under way is a loss.
LEMMA UserCookie ==
  ASSUME IInv, CookieInv,
         \/ \E p \in Pages : Load(p) \/ Visit(p)
         \/ \E c \in Requests : Call(c)
         \/ Logout \/ OAuth \/ GuardEffect \/ Expire
  PROVE  CookieInv'
<1> USE DEF serverVars, browserVars, tabVars, taskVars, histVars
<1>1. /\ Refreshes \subseteq Tasks \ {"form"} /\ "logout" \in Tasks \ {"form"}
      /\ Calls \subseteq Tasks /\ "logout" \in Calls /\ "logout" \notin Refreshes
      /\ Requests \subseteq Calls /\ \A c \in Calls : c \notin Refreshes
  BY SessionConstants DEF Tasks, Calls, Refreshes, StoreRefreshes, Guards
<1>2. sent \in [Tasks -> Nat] /\ bearer \in [Tasks -> Nat] /\ cookie \in Nat /\ token \in Nat
  BY KnownHas DEF CookieInv, SecretInv
<1>3. ASSUME UNCHANGED <<issued, revoked, cookie, token, got, smooth>>,
             NEW t \in Tasks, pc[t] = "idle", NEW s \in {"asked", "sent"},
             pc' = [pc EXCEPT ![t] = s], NEW k \in {0, cookie}, sent' = [sent EXCEPT ![t] = k],
             bearer' \in [Tasks -> Nat],
             \A u \in Tasks : bearer'[u] \in {bearer[u], token}
      PROVE  CookieInv'
  <2>1. sent' \in [Tasks -> Nat] /\ \A u \in Tasks : sent'[u] \in {sent[u], cookie, 0}
    BY <1>2, <1>3
  <2>2. Known' \subseteq Known
    BY <1>3, <2>1 DEF Known
  <2>3. SecretInv'
    BY <1>3, <2>1, <2>2 DEF CookieInv, SecretInv, Unshared
  <2>4. /\ \A u \in Tasks : u # t => pc'[u] = pc[u] /\ sent'[u] = sent[u]
        /\ pc'[t] # "checked"
    BY <1>2, <1>3 DEF IInv
  <2>5. QED
    BY <1>1, <1>3, <2>3, <2>4, CoverKept DEF CookieInv
<1>4. ASSUME UNCHANGED <<issued, revoked, cookie, token, sent, bearer, got, pc, smooth>>
      PROVE  CookieInv'
  BY <1>4 DEF CookieInv, SecretInv, Unshared, Known, Covered
<1>5. CASE \E p \in Pages : Load(p)
  <2>1. PICK p \in Pages : Load(p)
    BY <1>5
  <2>2. Boot(p) /\ RestorerStarts(flag) /\ UNCHANGED <<issued, revoked, cookie>>
    BY <2>1 DEF Load
  <2>3. SecretInv' /\ \A r \in Tasks : pc'[r] # "checked"
    BY <2>2, BootSecret
  <2>4. smooth' => smooth /\ \A t \in Tasks \ {"form"} : pc[t] = "idle"
    BY <2>2 DEF Boot
  <2>5. smooth' => smooth /\ ~Covered
    BY <1>1, <2>4 DEF Covered
  <2>6. QED
    BY <1>1, <2>2, <2>3, <2>5, CoverNew DEF CookieInv
<1>6. CASE \E p \in Pages : Visit(p)
  BY <1>4, <1>6 DEF Visit
<1>7. CASE (\E c \in Requests : Call(c)) \/ Logout
  <2>1. PICK c \in Calls : pc[c] = "idle" /\ Dispatch(c, token)
    BY <1>1, <1>7 DEF Call, Logout
  <2>2. UNCHANGED <<issued, revoked, cookie, token, got, smooth>>
    BY <1>7 DEF Call, Logout
  <2>3. /\ bearer' \in [Tasks -> Nat] /\ \A u \in Tasks : bearer'[u] \in {bearer[u], token}
    BY <1>2, <2>1 DEF Dispatch
  <2>4. QED
    BY <1>1, <1>3, <2>1, <2>2, <2>3 DEF Dispatch
<1>8. CASE OAuth
  <2>1. /\ issued' = issued + 1 /\ cookie' = issued' /\ token' = issued' /\ revoked' = revoked
        /\ got' = [t \in Tasks |-> 0] /\ bearer' = [t \in Tasks |-> 0]
        /\ sent' = [t \in Tasks |-> 0] /\ pc' = [t \in Tasks |-> "idle"]
    BY <1>8 DEF OAuth, Boot, RestorerAdopts
  <2>2. Known' \subseteq Known \cup {issued'}
    BY <2>1 DEF Known
  <2>3. SecretInv'
    BY <2>1, <2>2 DEF CookieInv, SecretInv, Unshared
  <2>4. cookie' \notin revoked'
    BY <2>1, KnownHas DEF CookieInv, SecretInv
  <2>5. QED
    BY <1>1, <2>1, <2>3, <2>4, CoverNew DEF CookieInv
<1>9. CASE GuardEffect
  <2>1. UNCHANGED <<issued, revoked, cookie, token, got, smooth, bearer>>
    BY <1>9 DEF GuardEffect
  <2>2. CASE UNCHANGED <<pc, sent>>
    BY <1>4, <2>1, <2>2
  <2>3. CASE \E g \in Guards : /\ pc[g] = "idle" /\ pc' = [pc EXCEPT ![g] = "asked"]
                              /\ sent' = [sent EXCEPT ![g] = cookie]
    <3>1. Guards \subseteq Tasks
      BY DEF Tasks, Refreshes, StoreRefreshes
    <3>2. QED
      BY <1>2, <1>3, <2>1, <2>3, <3>1
  <2>4. QED
    BY <1>9, <2>2, <2>3 DEF GuardEffect, Guards
<1>10. CASE Expire
  BY <1>4, <1>10 DEF Expire
<1>11. QED
  BY <1>5, <1>6, <1>7, <1>8, <1>9, <1>10

\* The browser leaves the page: what covered the cookie goes down with it.
LEMMA LeaveCookie ==
  ASSUME IInv, CookieInv, Leave
  PROVE  CookieInv'
<1>1. /\ Refreshes \subseteq Tasks \ {"form"} /\ "logout" \in Tasks \ {"form"}
  BY DEF Tasks, Calls, Refreshes, StoreRefreshes, Guards
<1>2. Boot("login") /\ RestorerStarts(flag) /\ UNCHANGED <<issued, revoked, cookie>>
  BY DEF Leave, serverVars, browserVars
<1>3. SecretInv' /\ \A r \in Tasks : pc'[r] # "checked"
  BY <1>2, BootSecret
<1>4. smooth' => smooth /\ \A t \in Tasks \ {"form"} : pc[t] = "idle"
  BY <1>2 DEF Boot
<1>5. smooth' => smooth /\ ~Covered
  BY <1>1, <1>4 DEF Covered
<1>6. QED
  BY <1>1, <1>2, <1>3, <1>5, CoverNew DEF CookieInv

\* The two invariants hold together in every reachable state.
LEMMA CookieInvHolds == Spec => [](IInv /\ CookieInv)
<1>1. Init => IInv /\ CookieInv
  <2> SUFFICES ASSUME Init PROVE CookieInv
    BY InitInv
  <2>1. /\ cookie \in 0..issued /\ issued \in Nat /\ token = 0 /\ revoked = {}
        /\ sent = [t \in Tasks |-> 0] /\ bearer = [t \in Tasks |-> 0]
        /\ got = [t \in Tasks |-> 0] /\ pc = [t \in Tasks |-> "idle"]
    BY DEF Init
  <2>2. Known \subseteq {0, cookie}
    BY <2>1 DEF Known
  <2>3. SecretInv
    BY <2>1, <2>2 DEF SecretInv, Unshared
  <2>4. QED
    BY <2>1, <2>3 DEF CookieInv, Refreshes, StoreRefreshes, Tasks
<1>2. IInv /\ CookieInv /\ [Next]_vars => IInv' /\ CookieInv'
  <2> SUFFICES ASSUME IInv, CookieInv, [Next]_vars PROVE IInv' /\ CookieInv'
    OBVIOUS
  <2>1. CASE Next
    <3>1. IInv'
      BY <2>1, ServerInv, StoreRefreshInv, CallInv, SharedInv, FormInv, UserInv, LeaveInv
         DEF Next, Network, User
    <3>2. CookieInv'
      BY <2>1, RefreshCookie, StoreRefreshCookie, CallCookie, SharedCookie, FormCookie, UserCookie,
            LeaveCookie
         DEF Next, Network, User
    <3>3. QED
      BY <3>1, <3>2
  <2>2. CASE UNCHANGED vars
    <3>1. IInv'
      BY <2>2, QuietInv DEF vars, serverVars, browserVars, tabVars, taskVars, IInv
    <3>2. CookieInv'
      BY <2>2 DEF vars, serverVars, browserVars, tabVars, taskVars, histVars,
                  CookieInv, SecretInv, Unshared, Known, Covered
    <3>3. QED
      BY <3>1, <3>2
  <2>3. QED
    BY <2>1, <2>2
<1>3. QED
  BY <1>1, <1>2, PTL DEF Spec

\* While nothing is lost, a cookie whose token is revoked is about to be replaced or
\* cleared by an answer under way: rotation never strands a session.
THEOREM CookieIsCurrent == Spec => []CookieCurrent
<1>1. CookieInv => CookieCurrent
  BY DEF CookieInv, CookieCurrent, Covered
<1>2. QED
  BY <1>1, CookieInvHolds, PTL

\* Only the answer of the shared refresh wakes a waiting call.
LEMMA WokenByShared ==
  ASSUME IInv, [Next]_vars, NEW c \in Calls, pc[c] = "waiting", pc'[c] = "again"
  PROVE  SharedGranted
<1> USE DEF Tasks, Calls, Refreshes, StoreRefreshes, Guards
<1>1. c \in Tasks /\ c \notin Refreshes \cup {"form"} /\ pc \in [Tasks -> Steps]
  BY SessionConstants DEF IInv
<1>2. \A t, s : pc' = [pc EXCEPT ![t] = s] => t = c /\ s = "again"
  BY <1>1
<1>3. CASE \E r \in Refreshes : ServerCheck(r) \/ ServerRotate(r)
  BY <1>1, <1>2, <1>3 DEF ServerCheck, ServerRotate
<1>4. CASE \E r \in StoreRefreshes : StoreRefreshReply(r) \/ StoreRefreshLost(r)
  BY <1>1, <1>2, <1>4 DEF StoreRefreshReply, StoreRefreshLost, End
<1>5. CASE \E d \in Calls : CallReply(d) \/ CallLost(d)
  <2>1. \E d \in Calls : End(d)
    BY <1>5, Zenon DEF CallReply, CallLost
  <2>2. QED
    BY <1>2, <2>1 DEF End
<1>6. CASE \E d \in Calls : ServerCall(d) \/ JoinRefresh(d)
  BY <1>1, <1>6 DEF ServerCall, JoinRefresh
<1>7. CASE SharedFailed \/ (\E p \in Pages : Load(p)) \/ OAuth \/ Leave
  BY <1>1, <1>7 DEF SharedFailed, Leave, Load, OAuth, RestorerStarts, RestorerAdopts
<1>8. CASE ServerAuth \/ Submit \/ BackToLogin
  BY <1>1, <1>2, <1>8 DEF ServerAuth, Submit, BackToLogin, taskVars
<1>9. CASE FormReply
  BY <1>1, <1>9 DEF FormReply, End
<1>10. CASE (\E p \in Pages : Visit(p)) \/ Expire \/ UNCHANGED vars
  BY <1>10 DEF Visit, Expire, taskVars, vars
<1>11. CASE (\E d \in Requests : Call(d)) \/ Logout
  BY <1>1, <1>2, <1>11 DEF Call, Logout, Dispatch
<1>12. CASE GuardEffect
  BY <1>1, <1>12 DEF GuardEffect
<1>13. QED
  BY <1>3, <1>4, <1>5, <1>6, <1>7, <1>8, <1>9, <1>10, <1>11, <1>12 DEF Next, Network, User

\* A call that waited for the shared refresh is retried with a token that no call has
\* sent before, in every interleaving with sign-ins and other refreshes.
THEOREM RetryIsFresh == Spec => RetryFresh
<1>1. ASSUME IInv, CookieInv, [Next]_vars, NEW c \in Calls, pc[c] = "waiting", pc'[c] = "again"
      PROVE  bearer'[c] # 0 /\ \A d \in Calls : bearer'[c] # bearer[d]
  <2>1. SharedGranted
    BY <1>1, WokenByShared
  <2>2. c \in Tasks /\ Calls \subseteq Tasks /\ "shared" \in Tasks
    BY DEF Tasks, Refreshes
  <2>3. bearer'[c] = got["shared"] /\ pc["shared"] = "granted"
    BY <1>1, <2>1, <2>2 DEF SharedGranted
  <2>4. got["shared"] # 0 /\ got["shared"] \notin Known
    BY <1>1, <2>2, <2>3 DEF IInv, RepliesCarryTokens, CookieInv, SecretInv, Unshared
  <2>5. QED
    BY <2>2, <2>3, <2>4, KnownHas
<1>2. IInv /\ CookieInv /\ [Next]_vars =>
        [\A c \in Calls : pc[c] = "waiting" /\ pc'[c] = "again" =>
           bearer'[c] # 0 /\ \A d \in Calls : bearer'[c] # bearer[d]]_vars
  BY <1>1
<1>3. QED
  BY <1>2, CookieInvHolds, PTL DEF Spec, RetryFresh

(***************************************************************************)
(* Late answers.                                                           *)
(***************************************************************************)
\* What keeps LateAnswersAreStale: the store is empty, or neither it nor the cookie
\* moved and no refresh of the store began, or the cookie is a pair that was under way.
LEMMA LateKept ==
  ASSUME IInv, CookieInv, LateAnswersAreStale,
         \A r \in StoreRefreshes : pc'[r] # "idle" => pc[r] # "idle" /\ sent'[r] = sent[r],
         \/ UNCHANGED <<store, cookie>>
         \/ \E t \in Tasks : got[t] # 0 /\ cookie' = got[t]
  PROVE  LateAnswersAreStale'
<1>1. StoreRefreshes \subseteq Tasks
  BY DEF Tasks, Refreshes
<1>2. \A r \in StoreRefreshes, t \in Tasks : got[t] # 0 => sent[r] # got[t]
  BY <1>1, KnownHas DEF CookieInv, SecretInv, Unshared
<1>3. QED
  BY <1>2 DEF LateAnswersAreStale

\* A step that leaves the store empty keeps it trivially.
LEMMA LateEmpty ==
  ASSUME ~store'.auth
  PROVE  LateAnswersAreStale'
  BY DEF LateAnswersAreStale

\* Only the guard starts a refresh without loading a page, and not in a signed-in
\* store; whoever signs in has a pair that no request has carried.
LEMMA LateStep ==
  ASSUME IInv, CookieInv, LateAnswersAreStale, [Next]_vars
  PROVE  LateAnswersAreStale'
<1> USE DEF serverVars, browserVars, tabVars, taskVars
<1>1. /\ StoreRefreshes \subseteq Refreshes /\ Refreshes \subseteq Tasks /\ Calls \subseteq Tasks
      /\ "shared" \in Tasks /\ "form" \in Tasks /\ "enable" \in Calls
      /\ "shared" \notin StoreRefreshes /\ "form" \notin StoreRefreshes
      /\ \A c \in Calls : c \notin StoreRefreshes
      /\ Requests \subseteq Calls /\ "logout" \in Calls
      /\ pc \in [Tasks -> Steps] /\ sent \in [Tasks -> Nat]
  BY SessionConstants DEF Tasks, Calls, Refreshes, StoreRefreshes, Guards, IInv, CookieInv,
                          SecretInv
<1>2. CASE \E r \in Refreshes : ServerCheck(r) \/ ServerRotate(r)
  BY <1>1, <1>2, LateKept DEF ServerCheck, ServerRotate
<1>3. CASE \E r \in StoreRefreshes : StoreRefreshReply(r) \/ StoreRefreshLost(r)
  <2>1. PICK r \in StoreRefreshes : StoreRefreshReply(r) \/ StoreRefreshLost(r)
    BY <1>3
  <2>2. CASE StoreRefreshReply(r) /\ pc[r] = "granted"
    <3>1. cookie' = got[r] /\ got[r] # 0 /\ End(r)
      BY <1>1, <2>1, <2>2, TakenCookie DEF StoreRefreshReply, IInv, RepliesCarryTokens
    <3>2. QED
      BY <1>1, <3>1, LateKept DEF End
  <2>3. CASE ~(StoreRefreshReply(r) /\ pc[r] = "granted")
    <3>1. store' = Anonymous
      BY <2>1, <2>3 DEF StoreRefreshReply, StoreRefreshLost, RefreshFailed
    <3>2. QED
      BY <3>1, LateEmpty DEF Anonymous
  <2>4. QED
    BY <2>2, <2>3
<1>4. CASE \E c \in Calls : ServerCall(c) \/ JoinRefresh(c)
  BY <1>1, <1>4, LateKept DEF ServerCall, JoinRefresh
<1>5. CASE \E c \in Calls : CallReply(c) \/ CallLost(c)
  <2>1. PICK c \in Calls : CallReply(c) \/ CallLost(c)
    BY <1>5
  <2>2. End(c) /\ \E ok \in BOOLEAN : Settled(c, ok)
    <3>1. CASE CallReply(c)
      BY <3>1, Zenon DEF CallReply
    <3>2. CASE CallLost(c)
      BY <3>2, Zenon DEF CallLost
    <3>3. QED
      BY <2>1, <3>1, <3>2
  <2>3. CASE c = "logout"
    BY <2>2, <2>3, LateEmpty DEF Settled, Anonymous
  <2>4. CASE c # "logout"
    <3>1. UNCHANGED <<store, cookie>>
      BY <2>1, <2>2, <2>4 DEF Settled, CallReply, CallLost
    <3>2. QED
      BY <1>1, <2>2, <3>1, LateKept DEF End
  <2>5. QED
    BY <2>3, <2>4
<1>6. CASE SharedGranted
  <2>1. cookie' = got["shared"] /\ got["shared"] # 0
    BY <1>1, <1>6, TakenCookie DEF SharedGranted, IInv, RepliesCarryTokens
  <2>2. \A r \in StoreRefreshes : pc'[r] # "idle" => pc[r] # "idle" /\ sent'[r] = sent[r]
    BY <1>1, <1>6 DEF SharedGranted, CarriesCookie
  <2>3. QED
    BY <1>1, <2>1, <2>2, LateKept
<1>7. CASE SharedFailed
  <2>1. cookie' = cookie
    BY <1>7, TakenCookie DEF SharedFailed
  <2>2. \A r \in StoreRefreshes : pc'[r] # "idle" => pc[r] # "idle" /\ sent'[r] = sent[r]
    BY <1>1, <1>7 DEF SharedFailed
  <2>3. store' = store \/ store' = Anonymous
    BY <1>7 DEF SharedFailed
  <2>4. QED
    BY <2>1, <2>2, <2>3, LateKept, LateEmpty DEF Anonymous
<1>8. CASE Leave \/ \E p \in Pages : Load(p)
  BY <1>8, LateEmpty DEF Leave, Load, RestorerStarts
<1>9. CASE OAuth
  BY <1>1, <1>9 DEF OAuth, RestorerAdopts, LateAnswersAreStale
<1>10. CASE ServerAuth \/ Submit \/ BackToLogin
  BY <1>1, <1>10, LateKept DEF ServerAuth, Submit, BackToLogin
<1>11. CASE FormReply
  <2>1. CASE pc["form"] \in {"granted", "registered"} /\ Adopt(got["form"])
    <3>1. cookie' = got["form"] /\ got["form"] # 0
      BY <1>1, <2>1 DEF Adopt, IInv, RepliesCarryTokens
    <3>2. \A r \in StoreRefreshes : pc'[r] # "idle" => pc[r] # "idle" /\ sent'[r] = sent[r]
      BY <1>1, <1>11 DEF FormReply, End
    <3>3. QED
      BY <1>1, <3>1, <3>2, LateKept
  <2>2. CASE UNCHANGED <<cookie, store>> /\ End("form")
    <3>1. \A r \in StoreRefreshes : pc'[r] # "idle" => pc[r] # "idle" /\ sent'[r] = sent[r]
      BY <1>1, <2>2 DEF End
    <3>2. UNCHANGED <<store, cookie>>
      BY <2>2
    <3>3. QED
      BY <3>1, <3>2, LateKept
  <2>3. QED
    BY <1>11, <2>1, <2>2 DEF FormReply
<1>12. CASE (\E p \in Pages : Visit(p)) \/ Expire \/ UNCHANGED vars
  BY <1>12, LateKept DEF Visit, Expire, vars
<1>13. CASE (\E c \in Requests : Call(c)) \/ Logout
  <2>1. PICK c \in Calls : Dispatch(c, token)
    BY <1>1, <1>13 DEF Call, Logout
  <2>2. UNCHANGED <<store, cookie>>
    BY <1>13 DEF Call, Logout
  <2>3. QED
    BY <1>1, <2>1, <2>2, LateKept DEF Dispatch
<1>14. CASE GuardEffect
  <2>1. UNCHANGED <<store, cookie>>
    BY <1>14 DEF GuardEffect
  <2>2. CASE UNCHANGED <<pc, sent>>
    BY <2>1, <2>2, LateKept
  <2>3. CASE ~store.auth
    BY <2>1, <2>3, LateEmpty
  <2>4. QED
    BY <1>14, <2>2, <2>3 DEF GuardEffect, GuardRefreshes
<1>15. QED
  BY <1>2, <1>3, <1>4, <1>5, <1>6, <1>7, <1>8, <1>9, <1>10, <1>11, <1>12, <1>13, <1>14
     DEF Next, Network, User

\* A refresh of the store that is still under way in a signed-in tab carries an older
\* cookie: when its failure signs the user out, the answer was about another session.
THEOREM LateAnswersStale == Spec => []LateAnswersAreStale
<1>1. Init => LateAnswersAreStale
  BY DEF Init, LateAnswersAreStale, Anonymous
<1>2. IInv /\ CookieInv /\ LateAnswersAreStale /\ [Next]_vars => LateAnswersAreStale'
  BY LateStep
<1>3. QED
  BY <1>1, <1>2, CookieInvHolds, PTL DEF Spec
=============================================================================
