------------------------------- MODULE Screens -------------------------------
(***************************************************************************)
(* One browser tab: the page the user is on, the requests its controls     *)
(* have sent, and the TanStack Query cache entry of one watched query      *)
(* (lib defaults: staleTime 60 s, refetch on mount and on focus when       *)
(* stale).  With watch = None the cache is left aside and every page is    *)
(* tried with all of its controls; otherwise the pages are the ones that   *)
(* show the watched query or write what it reads.                          *)
(*                                                                         *)
(* Instead of data an entry carries what it does not show yet: the names   *)
(* of the mutations the server has carried out since the entry was read.   *)
(***************************************************************************)
EXTENDS Pages

CONSTANTS
  None,         \* no watched query
  MaxSubmits,   \* bound: requests sent in one behaviour without a watched query
  MaxWrites     \* bound: requests sent that change the watched query

ASSUME ScreensConstants == {MaxSubmits, MaxWrites} \subseteq Nat

VARIABLES
  watch,        \* the watched query hook
  page,         \* the page the user is on
  view,         \* TRUE: the list, tab or filter the watched entry belongs to
  cache,        \* the watched entry
  fetch,        \* its request in flight
  ops,          \* mutations sent and not yet settled
  dialog,       \* 0: none open; 1, 2: a dialog, and another opened after it
  form,         \* the form that the watched entry seeds
  submits,      \* how many requests were sent
  foreign,      \* somebody else has changed what the entry shows
  event         \* what the last step did that a user would notice

vars == <<watch, page, view, cache, fetch, ops, dialog, form, submits, foreign, event>>

Elsewhere == "elsewhere"
Nothing == [what |-> "nothing"]
EmptyCache == [has |-> FALSE, unseen |-> {}, stale |-> FALSE, failed |-> FALSE]
Idle == [kind |-> "idle", served |-> FALSE, unseen |-> {}, met |-> FALSE]

(***************************************************************************)
(* The tables of Hooks and Pages as relations between names.               *)
(***************************************************************************)
\* A mutation changes what a query shows; a mutation's onSuccess refreshes a query.
WritesTo ==
  {<<x[1].name, x[2].name>> : x \in
     {mq \in Mutations \X Queries : mq[1].writes \cap mq[2].reads # {}}}
Refreshes ==
  {<<x[1].name, x[2].name>> : x \in
     {mq \in Mutations \X Queries : \E k \in mq[1].invalidates : Matches(k, mq[2].key)}}
Pushed == {q.name : q \in {h \in Queries : \E k \in UseWebSocketMessages : Matches(k, h.key)}}
Toasts == {m.name : m \in {h \in Mutations : h.toast}}
Polling == {q.name : q \in {h \in Queries : h.polls}}

AllControls == UNION {p.controls : p \in AllPages}
ShowsQuery ==
  {<<x[1].name, x[2].name>> : x \in {pq \in AllPages \X Queries : pq[2].name \in pq[1].shows}}
Reseeds ==
  {<<x[1].name, x[2].name>> : x \in {pq \in AllPages \X Queries : pq[2].name \in pq[1].reseeds}}
HasControl ==
  {<<x[1].name, x[2]>> : x \in {pc \in AllPages \X AllControls : pc[2] \in pc[1].controls}}
HasDialog == {pc[1] : pc \in {x \in HasControl : x[2].done = "close"}}
HasViews == {p.name : p \in {x \in AllPages : x.views}}
HasRetry == {p.name : p \in {x \in AllPages : x.retry}}

\* The pages that show a query or, for the same kind of user, write what it reads.
IsSite(p, q) ==
  /\ q.reads # {}
  /\ \/ q.name \in p.shows
     \/ /\ \E c \in p.controls : <<c.hook, q.name>> \in WritesTo
        /\ \E s \in AllPages : q.name \in s.shows /\ (s.area = "admin") = (p.area = "admin")
Sites ==
  {<<x[1].name, x[2].name>> : x \in {pq \in AllPages \X Queries : IsSite(pq[1], pq[2])}}
Watchable == {s[2] : s \in Sites}

On(p, v) == v /\ <<p, watch>> \in ShowsQuery
Shown == On(page, view)

(***************************************************************************)
(* The query cache, as functions on [cache, fetch].                        *)
(***************************************************************************)
\* A fetch is first when there is nothing to show meanwhile.
Started(st) ==
  [st EXCEPT !.fetch = [Idle EXCEPT !.kind = IF st.cache.has THEN "again" ELSE "first"]]

\* An observer mounts: load what is missing or stale, or join the load in flight.
Mounted(st, shown) ==
  IF shown /\ st.fetch.kind = "idle" /\ (~st.cache.has \/ st.cache.stale)
    THEN Started(st) ELSE st

\* Mutant: a refetch in flight is kept.
MutInvalidated(st, shown) ==
  LET marked == [st EXCEPT !.cache.stale = st.cache.has]
  IN  IF shown /\ st.fetch.kind = "idle" THEN Started(marked) ELSE marked

\* invalidateQueries: a shown entry is fetched again, and a refetch in flight is
\* thrown away for it.  A first load is joined, and an entry nobody shows is only
\* marked: what is in flight then arrives as if it were new.
Invalidated(st, shown) ==
  LET marked == [st EXCEPT !.cache.stale = st.cache.has]
  IN  IF shown /\ (st.fetch.kind = "idle" \/ st.cache.has) THEN Started(marked)
      ELSE IF st.fetch.kind # "idle" THEN [marked EXCEPT !.fetch.met = TRUE]
      ELSE marked

\* The server carries out a write: what was read before does not show it.
Written(st, cause) ==
  [cache |-> [st.cache EXCEPT !.unseen = IF st.cache.has THEN @ \cup {cause} ELSE {}],
   fetch |-> [st.fetch EXCEPT !.unseen = IF st.fetch.served THEN @ \cup {cause} ELSE {}]]

Now == [cache |-> cache, fetch |-> fetch]
Become(st) == cache' = st.cache /\ fetch' = st.fetch

StartFetch == Become(Started(Now))

Writes(c) == <<c.hook, watch>> \in WritesTo

(***************************************************************************)
(* Moving between pages.                                                   *)
(***************************************************************************)
Land(p) == IF <<p, watch>> \in Sites THEN p ELSE Elsewhere

\* Leaving unmounts the page: its requests go on without it.
Visit(p, st, rest) ==
  /\ page' = p /\ view' = TRUE /\ dialog' = 0 /\ form' = "clean"
  /\ ops' = [i \in DOMAIN rest |-> [rest[i] EXCEPT !.here = FALSE]]
  /\ Become(Mounted(st, On(p, TRUE)))

Open(p) ==
  /\ <<p, watch>> \in Sites /\ p # page
  /\ Visit(p, Now, ops)
  /\ event' = Nothing
  /\ UNCHANGED <<watch, submits, foreign>>

Leave ==
  /\ page # Elsewhere
  /\ Visit(Elsewhere, Now, ops)
  /\ event' = Nothing
  /\ UNCHANGED <<watch, submits, foreign>>

\* Another tab, filter or page of the same list, and back.
TurnView ==
  /\ watch # None /\ page \in HasViews
  /\ view' = ~view
  /\ Become(Mounted(Now, On(page, ~view)))
  /\ event' = Nothing
  /\ UNCHANGED <<watch, page, ops, dialog, form, submits, foreign>>

\* A confirmation or form opens, closes (also while its request is pending), and
\* the next one opens for another row.
OpenDialog ==
  /\ page \in HasDialog /\ dialog = 0
  /\ dialog' = IF \E i \in DOMAIN ops : ops[i].here /\ ops[i].dialog = 1 THEN 2 ELSE 1
  /\ event' = Nothing
  /\ UNCHANGED <<watch, page, view, cache, fetch, ops, form, submits, foreign>>

CloseDialog ==
  /\ dialog # 0
  /\ dialog' = 0
  /\ event' = Nothing
  /\ UNCHANGED <<watch, page, view, cache, fetch, ops, form, submits, foreign>>

Edit ==
  /\ Shown /\ cache.has /\ <<page, watch>> \in Reseeds
  /\ form' = "edited"
  /\ event' = Nothing
  /\ UNCHANGED <<watch, page, view, cache, fetch, ops, dialog, submits, foreign>>

(***************************************************************************)
(* The life of the watched entry.                                          *)
(***************************************************************************)
QueryStep == UNCHANGED <<watch, page, view, ops, dialog, submits>>

\* staleTime elapses.
Age ==
  /\ cache.has /\ ~cache.stale
  /\ cache' = [cache EXCEPT !.stale = TRUE]
  /\ event' = Nothing
  /\ UNCHANGED <<fetch, form, foreign>> /\ QueryStep

\* The window gets the focus; the page's retry button; refetchInterval.
Focus == /\ Shown /\ fetch.kind = "idle" /\ (cache.stale \/ ~cache.has)
         /\ StartFetch /\ event' = Nothing /\ UNCHANGED <<form, foreign>> /\ QueryStep
Retry == /\ Shown /\ fetch.kind = "idle" /\ cache.failed /\ ~cache.has /\ page \in HasRetry
         /\ StartFetch /\ event' = Nothing /\ UNCHANGED <<form, foreign>> /\ QueryStep
\* Mutant: polls only an entry that is stale already.
MutPoll == /\ Shown /\ fetch.kind = "idle" /\ watch \in Polling /\ cache.stale
           /\ StartFetch /\ event' = Nothing /\ UNCHANGED <<form, foreign>> /\ QueryStep
Poll == /\ Shown /\ fetch.kind = "idle" /\ watch \in Polling
        /\ StartFetch /\ event' = Nothing /\ UNCHANGED <<form, foreign>> /\ QueryStep

\* gcTime passes without an observer.
Collect ==
  /\ ~Shown /\ fetch.kind = "idle" /\ cache # EmptyCache
  /\ cache' = EmptyCache
  /\ event' = Nothing
  /\ UNCHANGED <<fetch, form, foreign>> /\ QueryStep

ServerReads ==
  /\ fetch.kind # "idle" /\ ~fetch.served
  /\ fetch' = [fetch EXCEPT !.served = TRUE]
  /\ event' = Nothing
  /\ UNCHANGED <<cache, form, foreign>> /\ QueryStep

\* Mutant: every answer is a new object.
MutDiffers(old, new) == TRUE

\* Structural sharing keeps the old object when nothing in it changed, so effects
\* on [data] run only for an answer that differs.
Differs(old, new) == ~old.has \/ old.unseen # new.unseen

\* The answer; a form that is seeded from it is reset when it differs.
Arrive ==
  /\ fetch.served
  /\ cache' = [has |-> TRUE, stale |-> FALSE, failed |-> FALSE,
                unseen |-> IF fetch.met /\ fetch.unseen # {} THEN {"raced"} ELSE fetch.unseen]
  /\ fetch' = Idle
  /\ IF Shown /\ <<page, watch>> \in Reseeds /\ Differs(cache, cache')
       THEN /\ form' = "clean"
            /\ event' = IF form = "edited"
                          THEN [what |-> "wiped", by |-> cache.unseen] ELSE Nothing
       ELSE /\ event' = Nothing /\ UNCHANGED form
  /\ UNCHANGED foreign /\ QueryStep

\* The load fails: old data stays on the page.
Fail ==
  /\ fetch.kind # "idle"
  /\ fetch' = Idle
  /\ cache' = [cache EXCEPT !.failed = TRUE]
  /\ event' = Nothing
  /\ UNCHANGED <<form, foreign>> /\ QueryStep

\* Another user, or another device of this one.
ForeignWrite ==
  /\ watch # None /\ ~foreign
  /\ foreign' = TRUE
  /\ Become(Written(Now, "foreign"))
  /\ event' = Nothing
  /\ UNCHANGED form /\ QueryStep

\* The chat socket announces a peer's message, if it is up.
Push ==
  /\ foreign /\ watch \in Pushed
  /\ Become(Invalidated(Now, Shown))
  /\ event' = Nothing
  /\ UNCHANGED <<form, foreign>> /\ QueryStep

(***************************************************************************)
(* The life of a mutation.                                                 *)
(***************************************************************************)
\* isPending belongs to the mounted component: a new visit starts enabled.
Pending(h) == \E i \in DOMAIN ops : ops[i].here /\ ops[i].control.hook = h

Submit(c) ==
  /\ <<page, c>> \in HasControl
  /\ IF watch = None THEN submits < MaxSubmits ELSE Writes(c) /\ submits < MaxWrites
  /\ \A h \in c.busy : ~Pending(h)
  /\ c.done = "close" => dialog # 0
  /\ ops' = Append(ops, [control |-> c, phase |-> "sent", here |-> TRUE, dialog |-> dialog])
  /\ submits' = submits + 1
  /\ form' = IF form = "edited" THEN "sent" ELSE form
  /\ event' = Nothing
  /\ UNCHANGED <<watch, page, view, cache, fetch, dialog, foreign>>

\* The server carries the request out, or refuses it; an answer may be lost.
Carry(i) ==
  /\ i \in DOMAIN ops /\ ops[i].phase = "sent"
  /\ \E phase \in {"done", "refused", "lost"} :
       /\ ops' = [ops EXCEPT ![i].phase = phase]
       /\ Become(IF phase = "refused" \/ ~Writes(ops[i].control) THEN Now
                   ELSE Written(Now, IF phase = "done" THEN ops[i].control.hook
                                     ELSE "unanswered"))
  /\ event' = Nothing
  /\ UNCHANGED <<watch, page, view, dialog, form, submits, foreign>>

\* The hook's onSuccess.
OnSuccess(h) ==
  IF <<h, watch>> \in Refreshes
    THEN Invalidated(Now, Shown) ELSE Now

\* Mutant: the toast is raised by the page's callback.
MutReported(o) == o.control.hook \in Toasts /\ o.here

\* A failure reaches the user by the hook's toast or by the page, if it is still there.
Reported(o) == o.control.hook \in Toasts \/ (o.control.shown /\ o.here)

\* Mutant: the page's callbacks outlive it.
MutContinues(o) == TRUE

\* What the page does next runs if it is still there or had awaited the answer.
Continues(o) == o.here \/ o.control.call = "async"

\* What the page does next is to go to another page.
Goes(o) == Continues(o) /\ o.control.done \notin {"stay", "close"}

\* What is left when the request at i has settled.
Without(q, i) == [j \in 1..(Len(q) - 1) |-> IF j < i THEN q[j] ELSE q[j + 1]]

Settled(i) == i \in DOMAIN ops /\ UNCHANGED <<watch, submits, foreign>>

\* The form keeps what was sent, after a failure as edits still to be saved.
FormAfter(o, left) == form' = IF form = "sent" /\ o.here THEN left ELSE form

SettleFailed(i) ==
  /\ Settled(i) /\ ops[i].phase \in {"refused", "lost"}
  /\ ops' = Without(ops, i)
  /\ FormAfter(ops[i], "edited")
  /\ event' = IF Reported(ops[i]) THEN Nothing
                ELSE [what |-> "unheard", hook |-> ops[i].control.hook, here |-> ops[i].here]
  /\ UNCHANGED <<page, view, cache, fetch, dialog>>

SettleAndGo(i) ==
  /\ Settled(i) /\ ops[i].phase = "done" /\ Goes(ops[i])
  /\ Visit(Land(ops[i].control.done), OnSuccess(ops[i].control.hook), Without(ops, i))
  /\ event' = IF ops[i].here THEN Nothing
                ELSE [what |-> "moved", hook |-> ops[i].control.hook]

\* "close" closes whatever dialog is open by now.
Closes(o) == o.control.done = "close" /\ o.here /\ Continues(o) /\ dialog # 0

SettleAndStay(i) ==
  /\ Settled(i) /\ ops[i].phase = "done" /\ ~Goes(ops[i])
  /\ ops' = Without(ops, i)
  /\ FormAfter(ops[i], "clean")
  /\ Become(OnSuccess(ops[i].control.hook))
  /\ dialog' = IF Closes(ops[i]) THEN 0 ELSE dialog
  /\ event' = IF Closes(ops[i]) /\ dialog # ops[i].dialog
                THEN [what |-> "closed", hook |-> ops[i].control.hook] ELSE Nothing
  /\ UNCHANGED <<page, view>>

Settle(i) == SettleFailed(i) \/ SettleAndGo(i) \/ SettleAndStay(i)

Init ==
  /\ watch \in Watchable \cup {None}
  /\ page \in IF watch = None THEN {pc[1] : pc \in HasControl}
                              ELSE {Elsewhere}
  /\ view = TRUE
  /\ cache = EmptyCache /\ fetch = Idle
  /\ ops = <<>> /\ dialog = 0 /\ form = "clean"
  /\ submits = 0 /\ foreign = FALSE /\ event = Nothing

Next ==
  \/ \E s \in Sites : watch = s[2] /\ Open(s[1])
  \/ Leave \/ TurnView \/ OpenDialog \/ CloseDialog \/ Edit
  \/ Age \/ Focus \/ Retry \/ Poll \/ Collect
  \/ ServerReads \/ Arrive \/ Fail \/ ForeignWrite \/ Push
  \/ \E pc \in HasControl : page = pc[1] /\ Submit(pc[2])
  \/ \E i \in DOMAIN ops : Carry(i) \/ Settle(i)

\* refetchInterval fires; of the loads tried again and again not every request and not
\* every answer is lost.
Fairness == WF_vars(Poll) /\ SF_vars(ServerReads) /\ SF_vars(Arrive)

Spec == Init /\ [][Next]_vars /\ Fairness

(***************************************************************************)
(* Properties.                                                             *)
(***************************************************************************)
\* Mutations whose onSuccess leaves a query out whose answer they change, with the
\* query: the page shows the old answer until it is stale and looked at again.
KnownGaps ==
  {"usePlaceBid", "bids.useAcceptOffer", "useAwardBid"} \X {"useSearchJobs", "useCustomerJobs"}
  \cup {"useAcceptContract", "useMarkComplete", "useApproveCompletion", "useCancelContract"}
       \X {"useSearchJobs", "useJob", "useCustomerJobs"}
  \cup {"useMarkComplete", "useApproveCompletion"} \X {"useReviewEligibility"}
  \* A provider's own pages are refreshed, what the public sees of him is not.
  \cup {"useEnableRole", "useUpdateProviderProfile", "useUpdateCategories"}
       \X {"useSearchProviders", "usePublicProviderProfile"}
  \cup {"useSetGlobalTerms", "useUpdatePortfolio"} \X {"usePublicProviderProfile"}
  \cup {"useUpdateProfile", "useCreateReview"} \X {"useSearchProviders"}
  \cup {<<"useAwardBid", "useContracts">>, <<"useSubmitGuaranteeClaim", "useContracts">>,
        <<"useResolveDispute", "useAdminGuaranteeClaims">>,
        <<"useReviewGuaranteeClaim", "useAdminDisputes">>,
        <<"useReviewGuaranteeClaim", "useAdminDispute">>,
        <<"useCancelSubscription", "useUsage">>, <<"useEnableRole", "useProviderProfile">>,
        <<"verify-email", "useProfile">>}

\* Once nothing is in flight, a page shows what this user's answered requests
\* changed, whatever page sent them and whichever way loads and invalidations
\* crossed.  Left out: another user's write, a request whose answer was lost, a load
\* that the invalidation joined instead of restarting, a failed load, the known gaps.
ReadYourWrites ==
  (ops = <<>> /\ fetch = Idle /\ Shown /\ cache.has /\ ~cache.failed)
    => \A h \in cache.unseen \ {"foreign", "unanswered", "raced"} : <<h, watch>> \in KnownGaps

\* Mutations no failure of which is ever shown, and those whose failure only the page
\* that sent them shows.
KnownSilent ==
  {"useUpdateProfile", "useEnableRole", "useMarkAsRead", "useMarkAllAsRead", "useSendMessage",
   "useMarkRead", "useReviewDocument", "useSuspendJob", "useRemoveJob", "useSuspendUser",
   "useBanUser", "useResolveReviewFlag", "useCreateChallenge", "useUpdateProviderProfile",
   "useSetGlobalTerms", "useUpdateCategories", "useUpdatePortfolio", "useUpdatePreferences",
   "useJoinChallenge"}
KnownOnPageOnly ==
  {"useResolveDispute", "useUpdateFeeConfig", "useReviewFraudAlert", "useCreateReview",
   "useCancelSubscription", "useChangeTier", "useEnableMFA", "useVerifyMFASetup",
   "useDisableMFA", "useUploadVerificationDocument", "forgot-password", "reset-password",
   "verify-email", "change-password"}

\* A failed request is brought to the user's notice, also when its page has been left
\* before the answer came; the exceptions are known by name.
FailureHeard ==
  event.what = "unheard"
    => event.hook \in KnownSilent \cup IF event.here THEN {} ELSE KnownOnPageOnly

\* Handlers that await mutateAsync() and then navigate, or close a dialog.
KnownLateMoves ==
  {"useCreateJob", "useEnableRole", "useAddEmployee", "useResolveDispute",
   "useReviewGuaranteeClaim"}
KnownLateCloses ==
  {"useUpdateProfile", "useCreateProperty", "useDeleteProperty", "useDeletePaymentMethod",
   "useCancelSubscription", "useReviewDocument", "useSuspendJob", "useRemoveJob",
   "useSuspendUser", "useBanUser", "useResolveReviewFlag"}

\* A late answer does not take the user away from where he has gone meanwhile, nor
\* close the dialog he has opened since; the exceptions are known by name.
LateAnswersKeepOut ==
  /\ event.what = "moved" => event.hook \in KnownLateMoves
  /\ event.what = "closed" => event.hook \in KnownLateCloses

\* A reload never wipes edits from a form seeded by it unless the record really
\* changed: a refetch on focus that brings nothing new leaves the form alone.
EditsKept == event.what = "wiped" => event.by # {}

\* What the tables of Hooks and Pages have to satisfy for the properties above to
\* hold however requests, loads and visits cross.  No request is behind this: the
\* tables are finite and TLC evaluates each line.
Writers(q) == {x[2].hook : x \in {y \in HasControl : <<y[1], q>> \in Sites}}

ASSUME TablesAssumption ==
  /\ \A s \in WritesTo \cup ShowsQuery : s[2] # None
  /\ \A x \in HasControl : x[1] # Elsewhere
  /\ \A w \in WritesTo \ Refreshes : w[1] \in Writers(w[2]) => w \in KnownGaps
  /\ \A s \in Reseeds : s[1] \notin HasViews
  /\ \A x \in HasControl :
       /\ \/ x[2].hook \in Toasts \cup KnownSilent
          \/ x[2].shown /\ x[2].hook \in KnownOnPageOnly
       /\ x[2].call = "async" /\ x[2].done \notin {"stay", "close"}
            => x[2].hook \in KnownLateMoves
       /\ x[2].done = "close" => x[2].hook \in KnownLateCloses

\* What somebody else changed reaches a page that polls without the user's help.
PolledCatchesUp ==
  (watch \in Polling /\ Shown /\ cache.unseen # {}) ~> (cache.unseen = {} \/ ~Shown)
=============================================================================
