# NoMarkup: TLA+ models, checks and proofs

NoMarkup is a reverse-auction marketplace for services: a customer publishes a
job, providers bid the price down, the winner and the customer sign a contract
with milestones, and the customer's money is held in escrow at Stripe until it
is released. This directory models the parts of the program that carry that
life cycle, on the servers and in the browser, checks them with TLC on small
instances and proves their safety invariants with TLAPS for every instance.

## 1. The system

The web front end (Next.js) talks to a gateway (Go, Chi), which authenticates,
limits and forwards requests over gRPC to five Go services (job, payment, user,
chat, notification) and four Rust engines (bidding, fraud, trust, imaging). All
of them share one PostgreSQL database; Redis carries caches, one-time codes and
publish/subscribe topics; Stripe holds the money and calls back with webhooks.

Two things make it hard.

*On the servers* no state is held in memory: every request is a task that reads
rows, decides, and writes rows. Most writes are single statements outside a
transaction, many with `WHERE id = $1` and nothing that repeats the check made
on the earlier read. Two requests on the same row, a request that ends half way
and a webhook that arrives late or twice are ordinary events.

*In the browser* everything is a callback. A component starts a request, a
timer or a socket, and what ends it runs when the component may be gone, another
page be shown, another step be open, another user be signed in, or another
answer be newer. Three stores (token, zustand, query cache) hold copies of what
the server knows, each refreshed by its own rule.

### Components

| component | state | operations | what makes it correct |
|---|---|---|---|
| bidding engine (`engines/bidding`) | `bids`, the auction columns of `jobs`, `auction_bid_events`, a Redis topic | place, update, withdraw, accept the offer price, award, close, expire after the deadline | prices stay under the cap and the first amount; one winner; the deadline moves at most three times; what viewers are told is on record |
| contracts, milestones, disputes (`services/job`) | `contracts`, `milestones`, `disputes`, `jobs.status` | create, accept, start, submit, approve, revise, complete, approve completion, cancel, open and resolve a dispute | nothing starts before both have accepted; milestones in order; limited revisions; an ended contract stays ended |
| payments and advances (`services/payment`) | `payments`, `working_capital_advances`, `advance_repayments`, Stripe's intents, charges, transfers | create, process, release, refund, webhooks; request, approve, disburse, repay | released money was transferred; refunds agree with Stripe; repayments are accounted for |
| web: session | token in `lib/auth.ts`, auth store, two cookies, guard | restore, guard, refresh, sign in (password, second factor, provider), register, sign out, API calls | an answer that signs the user out late is about an older session; the cookie stays current; retries are fresh; nobody waits for ever |
| web: chat connection | sockets, queue, backoff, timers; chat store | connect, reconnect, subscribe, type, disconnect | the shown channel is subscribed; a disconnect is quiet; typing marks end |
| web: live auction feed | the auction socket, the event store, the bid list, a throttle | open, reconnect, fold events, refetch, poll | the separate folds agree; the order book catches up |
| web: data hooks, cache, pages | query cache entries, mutations in flight, dialogs, forms | load, invalidate, mutate, navigate, poll, push | a user sees his own writes, hears of failures, keeps his edits and his place |
| web: multi-step forms | wizard step, values, uploads, lookups, saves in flight | post a job, set up a provider, file a dispute | what was passed with Next stays valid; what is ticked was saved; limits hold |
| job drafts and search index, reviews | `jobs`, `reviews`, the index | create, publish, repost, review | at most ten drafts; the index follows the status; double blind reviews |
| installments, subscriptions, insurance | their tables, Stripe objects | charge what is due, subscribe, claim | each installment charged once; a claim paid once |
| accounts, chat, notifications (services) | `users`, `refresh_tokens`, channels, sockets | register, verify, send, deliver | a refresh token is used once; attempts on a code are limited |
| gateway middleware | Redis keys, an in-memory window | idempotency keys, rate limits | one execution per key; at most the limit in a window |
| fraud, trust, imaging | appended rows, scores, stored objects | score, resize | numeric; no interleaving of interest |

### Interactions

The bidding engine and the job service write the same row of `jobs`. The
contract code moves that row on to `completed`. A release in the payment service
repays the provider's advances; a dispute in the job service and a payment in
the payment service are *not* connected: `ReleaseEscrow` never asks for the
state of the contract. The engine publishes on `auction:<job>`, which the
auction socket forwards to the browser (`AuctionFeed`). The browser's session
(`Session`) decides when the chat connection comes and goes (`AuthChange` of
`ChatSocket`) and whether a page of `Screens` is shown at all. A mutation of a
page invalidates cache keys; a message on the chat socket does too (`Push`).

## 2. Modules

| module | source | theorems in |
|---|---|---|
| `Bidding`, `MCBidding` | `engines/bidding/src/engine.rs`, job repository | `BiddingProofs` |
| `Contract`, `MCContract`, `Agreement` | `services/job` contract service and repository | `ContractProofs` |
| `Payment`, `MCPayment`, `Lending` | `services/payment` service, webhook, advance | `PaymentProofs` |
| `Session`, `MCSession` | `web/src` api, auth, auth store, `AuthRestorer`, `AuthGuard`, login and register forms; the refresh of gateway and user service | `SessionProofs` |
| `ChatSocket`, `MCChatSocket` | `lib/websocket.ts`, `useWebSocket.ts`, `chat-store.ts` | `ChatSocketProofs` |
| `AuctionFeed`, `MCAuctionFeed` | `lib/auction-websocket.ts`, the stream, spectator and terminal hooks, `auction-store.ts`, the arena | `AuctionFeedProofs` |
| `Hooks`, `Pages`, `Screens`, `MCScreens` | `hooks/use*.ts`, every page and component with a query or a mutation, `QueryProvider` | `ScreensProofs` |
| `Wizards`, `MCWizards` | `JobPostingForm`, provider onboarding, the dispute form, the upload components | `WizardsProofs` |

**Servers.** Each module has one job, contract or payment, because no two of
them share a row; the requests on it are the elements of `Handlers`. A handler
is a program counter `pc[h]` and the values it has read. A statement outside a
transaction, a transaction (it holds its row lock until commit) and a call to
Stripe or Redis are one step each. A read is a separate step exactly where the
write after it does not repeat the check the read was made for. `Abort` ends a
handler between two steps. Action names are the functions of the code plus the
step (`UpdateRead`, `UpdateWrite`).

* `Bidding`: `PlaceRead`/`PlaceTx`/`AlreadyBid` are `place_bid`; `UpdateRead` to
  `SnipeRefused` are `update_bid`, five statements; `Withdraw*`, `Offer*` and
  `Award` the functions of those names; `Sweep`, `ExpireBids`, `ExpireJob` the
  deadline sweep; `CloseAuction` and the rest the writes of the job service. The
  clock's unit is one anti-snipe window divided by `Window`.
* `Contract`: `UpdateJob` is the separate, unconditional update of the job that
  ends five of the operations. `Agreement` is the abstract specification: two
  parties, one variable for the status, one for the consents, every operation at
  once. `Promise == INSTANCE Agreement WITH status <- status, accepted <-
  accepted` is the refinement: the handlers and milestones are hidden, the
  committed rows are kept.
* `Payment`: `intent`, `refunded`, `transfers`, `transferred`, `disbursed`,
  `events`, `refundEvents` are Stripe's side, an external service modelled from
  how the code uses it: it executes or refuses a call and may deliver an event
  it has raised at any time, any number of times, or never. Amounts are exact
  cents. The intent is a destination charge (`stripe.go:224`), so `Capture` itself
  credits the provider, and `ReleaseEscrow` transfers the payout on top:
  `transfers` and `transferred` count the second kind only, and no property adds the
  two. `Lending` is the abstract specification of the advances: approved, paid
  out, repaid out of what transfers withhold, closed, every operation at once.
  `Books == INSTANCE Lending WITH paidOut <- [a \in Ids |-> disbursed[a] > 0]` is
  the refinement: requests, what they have read and the payment's row are hidden.
  Of an advance's transfers it shows only that there was one, so it does not say
  that there was only one (which the code does not promise, see section 5).

**Browser.** A callback runs to its end, so a callback is one action; between
two of them anything may happen. A promise is an entry that says where it is and
what its continuation closed over.

* `Session` has one tab. Tokens are numbered pairs, `issued` so far, `revoked`
  and `expired`. `pc[t]` says where each asynchronous task is: the restorer's
  and the guard's calls of the store's `refreshToken` (which share nothing),
  the shared refresh of `lib/api.ts`, the API calls, the logout, the form. The
  server's refresh is two steps (`ServerCheck`, `ServerRotate`), as the
  statements are. Navigation inside the application keeps every task; a full
  load (`Boot`) ends them all and keeps the cookies. When the shared refresh fails
  (`SharedFailed`) the token is gone at once, but the old page with its signed-in
  store and its tasks lives on, `leaving`, until the browser commits the navigation
  (`Leave`): until then store and token disagree, as in `api.ts:89`. One page stands
  for all that share the guard's layout; roles are left out.
* `ChatSocket` keeps every socket for which the browser still has an event, so
  the close event of an old socket may come after its successor was opened. The
  timers that `disconnect` forgets without clearing are `orphanTimers`.
* `AuctionFeed` joins the engine's book, the events on their way (`pipe`), the
  connection, the five folds over the events and the REST reads that the events
  make the query cache repeat, at most once in two seconds (`throttle`).
* `Hooks` and `Pages` are tables: every query with its cache key and the records
  its answer is made of (`reads`), every mutation with the records it changes
  (`writes`, read off the handler behind its path) and the keys it invalidates;
  every page with the queries it shows and its controls. `Screens` is the
  behaviour over those tables: a tab, one watched entry of the query cache, the
  mutations in flight. Instead of data the entry carries the mutations it does
  not show yet (`unseen`), which is what the properties are about. Which query
  is watched, and which page is opened, is chosen in `Init`: TLC goes through
  all of them.
* `Wizards` has the three forms; the user opens one. A value is its being valid,
  or not; a title may also be `overlong`, which only an image suggestion can make it.
  `suggested` is a history of the fields that a suggestion has written since Next
  last checked them. `HasMapbox` says whether a Mapbox token is configured.

Operators whose name begins with `Mut`, and those whose comment begins with
"Mutant", are not part of the specifications: each is a plausible mistake in the
operator that follows it, and a property must refute it.

## 3. Runs

Passing runs:

| run | shows | bounds |
|---|---|---|
| `bidding_sealed` | prices between one cent and the first amount, which was within the cap (`AmountWithinCap`); a bid's log of changes keeps the amount it was placed at, however updates run over each other (`HistoryKeepsOriginal`); the offer flag is truthful (`OfferFlagHonest`); the winner a job names was awarded (`AwardPointsToWinner`); the counter never goes negative (`TypeOK`); rows only move forward (`NoComeback`) | two providers, two requests, the sweep, requests that end early; amounts below, at and above the offer price |
| `bidding_live` | the deadline is the published one plus one window per extension, at most three (`DeadlineAccounted`); messages have their log row (`PublishedIsRecorded`) | one provider with two requests and three amounts: a placement and stale updates make five attempts to extend, two more than allowed; a clock that reaches the last possible deadline |
| `contract` | acceptance by both activates (`NoStuckAcceptance`), nothing starts before it (`NothingBeforeBothAccept`), milestones start in order, the limit of revisions is overrun by at most one per other request (`RevisionOverrun`), and the service implements the agreement (`ImplementsAgreement`) | two requests, two milestones, one dispute, early ends |
| `payment` | a released payment was transferred (`ReleasedWasTransferred`); refunds are never overstated (`RefundNeverOverstated`); `repaid_cents` is the sum of the repayment rows (`RepaymentsAccounted`); what a provider receives less was withheld for an advance (`ShortfallCredited`); advances only move forward (`AdvanceForward`); the service implements the lending: disbursed means the money has left, a cent withheld is a cent repaid (`ImplementsLending`) | two requests, failures anywhere, one advance that two releases pay off, full and partial refunds |
| `session` | a refresh still under way in a signed-in tab was sent with an older cookie, so that the session its failure ends is not the one it was asked about (`LateAnswersAreStale`); while nothing is lost, a revoked cookie is about to be replaced (`CookieCurrent`); a call is retried with a token that no call has sent before (`RetryFresh`); the guard's spinner ends (`GuardSettles`) and nobody waits for ever on the shared refresh (`WaitersReleased`) | one call beside logout and role change, two token pairs (a sign-in and its refresh, or a restored session and its rotation), one full load, any answer lost |
| `chat` | the channel on screen is subscribed until a connection ends (`ActiveSubscribed`); a disconnect is final until the next connect (`QuietAfterDisconnect`); a typing mark has a timer that takes it off (`TypingHasTimer`); an open dashboard keeps trying (`Reconnects`) | two channels, two sockets (an old one closing beside its successor), two queued messages, so that an unsubscription and a subscription wait together |
| `auction` | the separate folds agree on the lowest price (`LowestAgrees`); a quiet arena shows the engine's book (`BookCurrent`); an open arena gets a socket (`FeedOpens`) | two providers, two amounts, two events (one deferred by the throttle of the other), one fault |
| `screens` | a user sees his own writes (`ReadYourWrites`), hears of failures (`FailureHeard`), is not moved by late answers (`LateAnswersKeepOut`), keeps his edits (`EditsKept`), and a polling page catches up (`PolledCatchesUp`) | every page with every control and two requests in flight; every query with every page that shows or writes it and one write, loads and invalidations crossing freely |
| `wizards` | the steps behind the user stay valid, and so does a draft, but for a title and description that were suggested (`StepsBehindValid`); coordinates belong to the address (`AddressLocated`); a ticked step was saved or skipped (`CompletedSaved`); limits on files hold (`UploadsLimited`) | five inputs, two submissions, two addresses, one optional and one required document, limits of one and three files |

Runs that must find a violation: the code does not do what a document, a label
or a comment says of it (the findings in `PROJECT.json` quote both lines).

| run | what happens |
|---|---|
| `bidding_two_winners` | a `place_bid` that read the open job inserts its bid after the award, and that bid is awarded too |
| `session_restore` | on a reload with a valid cookie `AuthRestorer` and `AuthGuard` present the same refresh token; the second is refused, clears the store and sends the user to `/login` |
| `auction_reconnect` | after a lost connection the closed socket is kept, `doConnect` takes it for a live one, and the arena says RECONNECTING for ever |

### Exceptions a property names

`ReadYourWrites`, `FailureHeard` and `LateAnswersKeepOut` hold for all of the
application's pages except where the code leaves a gap, and the gap is listed in
the property by name, so that a new one fails the run:

* `KnownGaps`: mutations whose `onSuccess` forgets a query they change. A bid
  leaves the job lists old; accepting, completing or cancelling a contract leaves
  the job old, and completing it the question whether a review is due; resolving a
  dispute and reviewing a guarantee claim leave each other's list old. What the
  public sees of a provider is never refreshed: his page (`['provider', id]`) is
  left old when he becomes one and by his profile, categories, terms and
  portfolio, the search (`['providers', params]`) by the first three, by his name
  and by a review. Five more stand alone: an award and a guarantee claim leave the
  list of contracts old, cancelling a subscription its usage, becoming a provider
  the provider profile, and verifying an e-mail address the account.
* `KnownSilent`: 19 mutations no failure of which is shown anywhere;
  `KnownOnPageOnly`: 14 whose failure is shown only if the page is still there.
* `KnownLateMoves`, `KnownLateCloses`: handlers that await `mutateAsync` and
  then navigate, or close whichever dialog is open by then.

Others carry their exception as a condition: `ActiveSubscribed` ends with the
first lost connection (nothing subscribes again after a reconnect);
`BookCurrent` leaves out events that met the first load of the list, which joins
it; `AddressLocated` leaves out lookups answered in the wrong order, lookups that
found nothing, and a site without a Mapbox token, where nothing is looked up and
the form says so (`JobPostingForm.tsx:492` and `:577`); `EditsKept` is about
reloads, and does not speak of the form that the user's own save resets;
`StepsBehindValid` leaves out what a suggestion has written since; `UploadsLimited` leaves out two batches that overlap.
`CookieCurrent` is about runs in which nothing was lost: an answer of the
refresh that gets lost leaves a revoked cookie, and the user signs in again.

### Deadlock and fairness

Deadlock checking is off: an auction, a contract, a payment and a form end, a
user may stop, and every instance is bounded.

Fairness is stated where a run needs it and never about people:

* `Session`: each task that is under way gets on (the server answers or fails,
  the answer arrives, an effect that was scheduled runs): weak fairness of each
  task's steps. Nothing obliges the browser to commit a navigation (`Leave`).
* `ChatSocket`: timers fire, effects run, and a `close()` that was asked for
  completes. Nothing obliges a handshake to succeed or a connection to last.
* `AuctionFeed`: timers fire, handshakes end, replies and messages arrive.
* `Screens`: the polling timer fires (weak), as it does while the window is
  focused: `refetchInterval` rests in the background; of loads tried again and again not
  every request and not every answer is lost (strong, since a failed load
  disables the step in between).

`Bidding`, `Contract`, `Payment` and `Wizards` have safety properties only. That
an auction ends follows from `DeadlineAccounted`: the deadline never passes a
fixed time.

### Bounds

Bounds are constants: amounts and clock (`MaxAmount`, `MaxNow`), external
calls (`MaxReleases`, `MaxDisburse`, `MaxDisputes`), token pairs and loads
(`MaxPairs`, `MaxLoads`), sockets, queue and backoff, events and faults, inputs
and submissions. No safety property rests on them: each is proved for every value
of the bounds (section 4), and the run only shows it on an instance. For the
liveness properties the bounds are the smallest at which each callback can meet
each other one: two of a kind in flight, one old and one new.

That the bounds could mislead was not an idle worry. An earlier form of
`RetryFresh` said that a retry carries a *newer* token than the refused one. With
two token pairs no run could refute it, and its proof failed: with a third pair a
sign-in overtakes the shared refresh, and the call that waited for the refresh is
sent again with the older of the two new tokens. The property now says what does
hold, and what the server asks for: a token that nobody has sent before.

## 4. Proofs

Every safety invariant and every action property of the passing runs is stated by
a theorem, as are the refinements of `Agreement` and of `Lending`; all theorems hold
for every value of the constants that satisfies the assumption of the module.

### Assumptions

* The constants: `ConstantsAssumption`, `ContractAssumption`,
  `PaymentAssumption`, `SessionConstants`, `ChatConstants`, `FeedConstants`,
  `WizardConstants`, `ScreensConstants`. Bounds are natural numbers, prices lie
  within the bound, a payout lies between zero and the amount, advances owe
  something, calls are distinct from the built-in ones, no channel is called
  `None`, no address is the too short one. Requests in flight are finitely many
  where they are counted (`Handlers` of `Contract`). The assumption on the payout
  is what `CalculateFees` gives unless the minimum fee exceeds the amount.
* `TablesAssumption` of `Screens` is of another kind. Which mutation writes what,
  invalidates what and reports its failures is a finite table with several
  hundred lines (`Hooks`, `Pages`). A prover that expands it learns nothing, TLC
  evaluates it in a moment. So the proofs take from the tables seven facts, each
  about single lines (for instance: a hook which writes to a query and does not
  invalidate it is one of `KnownGaps`), and TLC evaluates them at the start of
  the run `screens`. No request, load or visit occurs in these facts. How those
  cross is what the theorems are about.

### The inductive invariants

No safety invariant is inductive alone, because a task acts on what it read some
steps ago. Each proof strengthens the invariants with a statement of what every
request in flight may still rely on. TLC was given each strengthening that it can
evaluate before the proof was tried.

* `BiddingProofs`: `InFlight` (the amount an update is about to write is below
  the *first* amount of the bid, although it may be above the current one),
  `HistoryKeepsOriginal`, `FlagFromOriginal` and `RecordedInFlight` (a handler
  about to publish has its log row). Theorems `TypeCorrect`, `PricesSafe`,
  `OfferFlagSafe`, `HistorySafe`, `DeadlineSafe`, `WinnerSafe`,
  `PublishSafe`, and the action property `BidsOnlyMoveForward`. The flag needs
  the first amount: an update may write over a lower one, but only what is below
  the amount for which the flag was set.
* `ContractProofs`: a milestone about to be approved or sent back has been
  started, and a completion or a dispute on its way means that both parties have
  accepted. Theorems `TypeCorrect`, `AcceptanceActivates`, `ConsentFirst`,
  `MilestonesInOrder`. `RevisionsBounded` counts: revisions written and revisions
  in hand (`Revisers`, the requests that have read a count below the limit)
  together are at most 3 + |`Handlers`| - 1 (`InHand`). When a request joins the
  revisers the count is at most 2 and the revisers are at most |`Handlers`|; one
  that writes leaves them as the count grows. `ServiceImplements`
  is `Spec => ImplementsAgreement`: initial states map to initial states, and
  under the inductive invariant every step is a step of `Agreement` or leaves
  status and consents alone; the invariant is needed because `Agreement`
  completes or disputes only what both have agreed to, which the writing
  statements do not check.
* `PaymentProofs`: `Carried` says of each handler that it never withholds more
  than the payout, that the advances it found active were disbursed, that a
  release about to write its status has a transfer, and that a refund about to
  be recorded was made at Stripe. A handler's facts are about totals that only
  grow (`GrowsStep`), so the steps of others preserve them (`OthersCarry`); each
  action is then examined for its own handler (`CarryStep`). Theorems
  `TypeCorrect`, `ReleaseSafe`, `RefundSafe`, `RepaymentSafe`,
  `AdvancesOnlyForward`. `NothingWithheldIsLost` needs a sum over all requests:
  what the releases in progress have withheld and not yet left out of a transfer.
  A sum over a set is defined by induction, which is out of the prover's reach;
  `MoneyHeld` says instead that *some* function on sets of handlers is additive
  (`Sums`) and makes the balance come out. When a request's share changes,
  `OneShareChanges` gives the next such function. `ServiceLends` is
  `Spec => ImplementsLending`. It needs to know of a request that pays an advance
  out that the advance was approved, of one about to record it that the money has
  left, of every deduction that it is within the debt (`Lent`), and that what has
  begun to be repaid was paid out (`PaidFirst`); `DueWithinDebt` shows the loop of a
  release keep the third, and `ShortfallCredited` is the bound on a transfer that
  `Lending` asks for. The facts are about totals and statuses that only move
  forward (`LastsStep`).
* `SessionProofs`: every reply under way carries a token (`RepliesCarryTokens`),
  which needs the numbering of pairs and the types of `pc` and `form`.
  `CookieIsCurrent` and `RetryIsFresh` rest
  on secrecy (`SecretInv`): a pair in a reply under way is known to nobody else,
  neither the cookie jar, nor the store, nor a call, nor another reply. So the
  token of a refresh that has just ended was never sent (`RetryIsFresh`), and
  what a reply puts into the cookie was not revoked. `CookieInv` adds that a
  logout that covers a revoked cookie has itself revoked something.
  `LateAnswersStale` follows from the same secrecy: whoever signs in brings a pair
  that no request has carried, so every refresh under way has an older one.
* `ChatSocketProofs`: `QuietAfterDisconnectHolds` and `TypingHasTimerHolds` are
  inductive by themselves. `ActiveSubscribedHolds` is not: the subscription may
  be at the server, in the queue, or undone further back in the queue. `Serve`
  folds the queue over what the socket has; the invariant says that the *result*
  of serving everything queued is exactly the active channel. The lemmas
  `ServeConcat`, `ServeOne`, `ServeSwitch` say what the fold does with a queue
  that grows at its end.
* `AuctionFeedProofs`: `FoldsAgree` gives the common meaning of the three minima,
  the least price among the events so far, and that a least amount exists
  (`LowestIsAgreed`). `BookInv` is a disjunction, and the point of the proof: what
  the book has and the list has not is still in the socket, in the throttle or in
  a read that is asked for (`BookIsCurrent`).
* `WizardsProofs`: `Requests` says of each request in flight what its
  continuation will rely on: a draft is good but for what can be suggested, the
  documents still to be uploaded complete the registered ones. `EvidenceInv` and
  `FilesInv` count uploads in flight against the limits. `BehindInv` says that a
  field behind the step shown is valid or was suggested; it holds because each
  field belongs to one step (`FieldsOfSteps`), the user edits only the one shown,
  and the indicators lead back only. A draft is sent from the last step, so all of
  its fields are behind the user (`DraftGood`). `LookupInv` says that the
  lookup of the address in the form is the *last* to be sent and to be answered.
  Theorems `StepsStayValid`, `CompletedIsSaved`, `UploadsAreLimited`,
  `AddressIsLocated`.
* `ScreensProofs`: `Tracked` says where a write of this user can be that the
  cached entry does not show: its answer is still on the way, or a load runs, or
  the last load failed, or the entry is stale and nobody looks at it; and a load
  that read the server before the write was met by the invalidation, unless the
  answer is still on the way. `StateOK` adds that a load hides nothing which the
  entry it replaces does not hide, from which `EditsAreKept` follows with
  `FormHeld`: a form is edited or sent only while its entry is shown. Theorems
  `WritesAreRead`, `FailuresAreHeard`, `LateAnswersStayOut`, `EditsAreKept`.

### Only model-checked

Liveness is outside this prover: `GuardSettles`, `WaitersReleased`,
`Reconnects`, `FeedOpens`, `PolledCatchesUp` are checked on the instances of
section 3. The facts of `TablesAssumption` are evaluated by TLC, as said above.
The type invariants of the browser modules are proved as far as the theorems
need them, as conjuncts of the inductive invariants, and not stated apart.

## 5. Not modelled

* Queries, rankings, analytics, formatting, logging, layout and authorisation
  checks that do not depend on changing state. On the web: types, interface
  primitives, illustrations, charts and static pages, which keep no state that
  another part depends on.
* In `Payment`: `CalculateFees` and the fee configuration (a given payout), the
  credit limit of an advance, and the events of installments, subscriptions and
  policies. `transfer.created` has no effect: the handler looks the payment up
  by a metadata entry that `CreateTransfer` never sets.
* In `Contract`: `AutoReleaseCompletedContracts`, which nothing calls, change
  orders and recurring instances. `ApproveCompletion` requires an active
  contract, and so never succeeds after the provider's `MarkComplete`.
* In `Session`: more than one tab (tokens are in the memory of a tab, the cookie
  is shared), password reset and e-mail verification, which change no session.
* In `AuctionFeed`: the spectator's connection manager, which repeats the
  auction's; only its fold over the events is modelled.
* In `Screens`: paging through more than two views of a query, and optimistic
  updates, which the code does not use.
* The parts listed as not modelled in `PROJECT.json`, each with its reason, and
  the hazards without a property, each with a note.

Requests that overlap or stop half way break more expectations than the runs and
the hazards of `PROJECT.json` show. Inside the models: a bid is updated after
its auction has ended (`engine.rs:186`), a withdrawal that stops between the row
and the counter leaves the counter high (`engine.rs:314`), a milestone is sent
back between the check and the write of `MarkComplete` (`contract.go:257`), the
job update of an acceptance lands after the one of a cancellation
(`contract_repo.go:506`), a creation that ends early leaves a payment without
its intent (`service.go:154`), a late `payment_failed` event is applied to any
status (`webhook.go:120`), two requests disburse an advance twice
(`advance.go:134`), and two releases transfer a payment twice (`service.go:282`). Outside them: concurrent creations exceed the limit
of ten drafts (`job.go:63`), the index goroutine may add a job after its removal
(`job.go:428`), a pending idempotency key expires while its handler runs
(`idempotency.go:94`), an attempt on a code is lost when two race
(`phone.go:193`), an installment may be charged twice (`installment.go:247`), an
approved claim whose transfer failed is never paid (`insurance.go:281`), a late
invoice event revives a cancelled subscription (`subscription.go:350`), reviews
past their window stay unpublished (`review_repo.go:434`); on the web a second
press on Publish creates a second job (`JobPostingForm.tsx:164`), the photos
selected there are never uploaded (`JobPostingForm.tsx:150`), and the auction
stream invalidates a key that no query has (`useAuctionStream.ts:79`), the draft
button asks for ten characters and no upper limit, so that an image's title of
more than 200 is stored (`JobPostingForm.tsx:182` and `:399`, `validations.ts:42`),
and the gateway answers a provider's profile without the `profile` around it that
the hooks take off (`provider.go:99`, `useProviderProfile.ts:20`): as the two stand,
`useProviderProfile` shows none. `Hooks` says of these queries what the handler
reads. A captured payment credits the provider, and its release transfers again
(`stripe.go:224`, `service.go:282`).

## 6. Plan

1. `Payment` completed: fees as operators checked over bounded inputs, then the
   events of installments; `Installment`, `Subscription`, `Insurance`.
2. `Job`: drafts and their limit, publishing, the index goroutine with its
   retries; `Review`: double blind publication and its window.
3. `PhoneOtp`, and idempotency keys and rate limits of the gateway.
4. `Marketplace`, the composition of `Bidding`, `Contract` and `Payment` over
   the shared rows; an escrow account as the abstract specification of the rest
   of `Payment`, as `Lending` is of its advances.
5. Proofs: the composed safety of `Marketplace` and the refinement of the escrow
   account, from the invariants that are proved for their parts.
