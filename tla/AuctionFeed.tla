----------------------------- MODULE AuctionFeed -----------------------------
(***************************************************************************)
(* The live auction of one job as a browser follows it: the connection of  *)
(* lib/auction-websocket.ts, the effect and the throttled invalidation of  *)
(* hooks/useAuctionStream.ts, the fold of stores/auction-store.ts, the bid *)
(* list and the polled state of hooks/useBids.ts, and what AuctionArena    *)
(* and the terminal adapters derive from them.                             *)
(*                                                                         *)
(* The bidding engine commits a bid and publishes the event; the socket    *)
(* delivers events in order, from the moment it is open.  The REST reads   *)
(* race with both.                                                         *)
(***************************************************************************)
EXTENDS Naturals, Sequences, FiniteSets

CONSTANTS
  Providers,     \* who bids
  Amounts,       \* bid amounts (positive)
  MaxEvents,     \* bound: bid events of the auction
  MaxAttempts,   \* maxReconnectAttempts
  MaxFaults      \* bound: connections lost, tokens replaced

ASSUME FeedConstants ==
  /\ Amounts \subseteq Nat \ {0}
  /\ MaxEvents \in Nat /\ MaxAttempts \in Nat /\ MaxFaults \in Nat

VARIABLES
  book,       \* engine: the active bid of every provider (0: none)
  published,  \* engine: how many events were published
  pipe,       \* events on their way over the open socket
  ended,      \* the auction's end has passed
  feed,       \* the manager: ws, jobId, tokenGetter, attempts, timers, status
  open,       \* the arena is mounted and its effect has a token
  faults,     \* connections lost and tokens replaced so far
  seen,       \* the store: events, currentLowest, priceHistory
  rest,       \* the bid list in the query cache: data, fetch, snapshot
  polled,     \* the polled auction state: lowest and count
  throttle,   \* within two seconds of an invalidation; pending timer
  party,      \* the savings celebration: never, shown, closed
  missed,     \* history: an event was published with no socket open to take it
  raced       \* history: an invalidation met the first load of the bid list

engineVars == <<book, published, ended>>
viewVars == <<seen, rest, polled, throttle, party>>
feedVars == <<engineVars, pipe, feed, open, faults, viewVars, missed, raced>>

NoBids == [p \in Providers |-> 0]
EmptyStore == [events |-> <<>>, currentLowest |-> 0, priceHistory |-> <<>>]
Idle == [ws |-> "null", jobId |-> FALSE, tokenGetter |-> FALSE, attempts |-> 0,
         connect |-> FALSE, reconnect |-> FALSE, status |-> "disconnected"]
NoData == [data |-> "none", fetch |-> "idle", snap |-> NoBids]

Least(S) == IF S = {} THEN 0 ELSE CHOOSE a \in S : \A b \in S : a <= b
Active == {p \in Providers : book[p] # 0}
Or(a, b) == IF a # 0 THEN a ELSE b                \* JavaScript's a || b

(***************************************************************************)
(* The engine: a bid is placed, lowered or withdrawn, and published.       *)
(***************************************************************************)
\* The event of a bid that goes from an amount to another (0: none).
EventOf(old, new) ==
  IF new = 0 THEN [type |-> "bid_withdrawn", amount |-> old]
  ELSE [type |-> IF old = 0 THEN "bid_placed" ELSE "bid_updated", amount |-> new]

BidEvent(p, a) ==
  /\ published < MaxEvents /\ ~ended
  /\ a # book[p] /\ (book[p] # 0 => a < book[p])
  /\ book' = [book EXCEPT ![p] = a]
  /\ published' = published + 1
  /\ pipe' = IF feed.ws = "open" THEN Append(pipe, EventOf(book[p], a)) ELSE pipe
  /\ missed' = IF feed.ws # "open" THEN TRUE ELSE missed
  /\ UNCHANGED <<ended, feed, open, faults, viewVars, raced>>

EndAuction ==
  /\ ~ended
  /\ ended' = TRUE
  /\ UNCHANGED <<book, published, pipe, feed, open, faults, viewVars, missed, raced>>

(***************************************************************************)
(* AuctionWebSocketManager.                                                *)
(***************************************************************************)
\* connect(): the last call within 100 ms wins.
Connect(f) == [f EXCEPT !.connect = TRUE]

\* disconnect(): the old socket's onclose is taken away first.
Disconnect(f) == Idle

\* doConnect: a socket object for this job, dead or alive, makes it a no-op.
\* The reconnect path passes no tokenGetter, and disconnect() drops the old one.
DoConnect(f, getter) ==
  IF f.ws # "null" /\ f.jobId THEN f
  ELSE [Disconnect(f) EXCEPT !.ws = "connecting", !.jobId = TRUE,
                             !.tokenGetter = getter, !.status = "connecting"]

\* Mutant: the debounce timer is armed by the first call and never fires.
MutConnectFires ==
  /\ feed.connect
  /\ feed' = [feed EXCEPT !.connect = FALSE]
  /\ UNCHANGED <<engineVars, pipe, open, faults, viewVars, missed, raced>>

ConnectFires ==
  /\ feed.connect
  /\ feed' = DoConnect([feed EXCEPT !.connect = FALSE], TRUE)
  /\ UNCHANGED <<engineVars, pipe, open, faults, viewVars, missed, raced>>

OnOpen ==
  /\ feed.ws = "connecting"
  /\ feed' = [feed EXCEPT !.ws = "open", !.attempts = 0, !.status = "connected"]
  /\ UNCHANGED <<engineVars, pipe, open, faults, viewVars, missed, raced>>

\* onclose, then attemptReconnect; this.ws keeps pointing at the dead socket.
OnClose ==
  /\ feed.ws \in {"connecting", "open"}
  /\ faults < MaxFaults
  /\ faults' = faults + 1
  /\ pipe' = <<>>
  /\ missed' = IF pipe # <<>> THEN TRUE ELSE missed
  /\ LET again == feed.attempts < MaxAttempts /\ feed.jobId /\ feed.tokenGetter
     IN  feed' = [feed EXCEPT !.ws = "closed", !.status = "disconnected",
                              !.attempts = IF again THEN @ + 1 ELSE @,
                              !.reconnect = again]
  /\ UNCHANGED <<engineVars, open, viewVars, raced>>

ReconnectFires ==
  /\ feed.reconnect
  /\ LET f == [feed EXCEPT !.reconnect = FALSE]
     IN  feed' = IF f.jobId /\ f.tokenGetter THEN DoConnect(f, FALSE) ELSE f
  /\ UNCHANGED <<engineVars, pipe, open, faults, viewVars, missed, raced>>

(***************************************************************************)
(* useAuctionStream's effect: setActiveJob on the way in, clearActiveJob   *)
(* on the way out; a new access token runs both.                           *)
(***************************************************************************)
Load(r) == [r EXCEPT !.fetch = IF @ = "idle" THEN "asked" ELSE @]

Mount ==
  /\ ~open
  /\ open' = TRUE
  /\ feed' = Connect(feed)
  /\ seen' = EmptyStore
  /\ \/ rest' = Load(rest)
     \/ rest.data = "some" /\ rest' = rest          \* still fresh: no request
  /\ party' = "never"
  /\ UNCHANGED <<engineVars, pipe, faults, polled, throttle, missed, raced>>

Unmount ==
  /\ open
  /\ open' = FALSE
  /\ feed' = Disconnect(feed)
  /\ pipe' = <<>>
  /\ missed' = TRUE
  /\ seen' = EmptyStore
  /\ UNCHANGED <<engineVars, faults, rest, polled, throttle, party, raced>>

TokenReplaced ==
  /\ open
  /\ faults < MaxFaults
  /\ faults' = faults + 1
  /\ feed' = Connect(Disconnect(feed))
  /\ pipe' = <<>>
  /\ missed' = TRUE
  /\ seen' = EmptyStore
  /\ UNCHANGED <<engineVars, open, rest, polled, throttle, party, raced>>

(***************************************************************************)
(* Messages: addBidEvent and the throttled invalidation.                   *)
(***************************************************************************)
Priced == {"bid_placed", "bid_updated"}
Latest(h) == h[Len(h)]
Chart(h, e) ==
  IF e.type \notin Priced THEN h
  ELSE Append(h, [amount |-> e.amount,
                  running_min |-> IF h = <<>> THEN e.amount
                                  ELSE Least({Latest(h).running_min, e.amount})])

\* Mutant: the fold takes a withdrawn amount for a bid.
MutAddBidEvent(s, e) ==
  [events |-> Append(s.events, e),
   currentLowest |-> IF s.currentLowest = 0 THEN e.amount
                     ELSE Least({s.currentLowest, e.amount}),
   priceHistory |-> Chart(s.priceHistory, e)]

AddBidEvent(s, e) ==
  [events |-> Append(s.events, e),
   currentLowest |-> IF e.type = "bid_withdrawn" THEN s.currentLowest
                     ELSE IF s.currentLowest = 0 THEN e.amount
                     ELSE Least({s.currentLowest, e.amount}),
   priceHistory |-> Chart(s.priceHistory, e)]

\* invalidateQueries on the bid list: a refetch replaces one under way, but the
\* first load of a query is joined, not replaced.
InvalidateQueries ==
  /\ rest' = [rest EXCEPT !.fetch = IF rest.data = "none" THEN @ ELSE "asked"]
  /\ raced' = IF rest.data = "none" /\ rest.fetch # "idle" THEN TRUE ELSE raced

\* Mutant: an event inside the two seconds is dropped instead of deferred.
MutThrottledInvalidate ==
  IF throttle.cool
    THEN UNCHANGED <<throttle, rest, raced>>
    ELSE InvalidateQueries /\ throttle' = [throttle EXCEPT !.cool = TRUE]

ThrottledInvalidate ==
  IF throttle.cool
    THEN throttle' = [throttle EXCEPT !.pending = TRUE] /\ UNCHANGED <<rest, raced>>
    ELSE InvalidateQueries /\ throttle' = [throttle EXCEPT !.cool = TRUE]

HandleMessage ==
  /\ feed.ws = "open" /\ pipe # <<>>
  /\ pipe' = Tail(pipe)
  /\ seen' = AddBidEvent(seen, Head(pipe))
  /\ ThrottledInvalidate
  /\ UNCHANGED <<engineVars, feed, open, faults, polled, party, missed>>

\* Two seconds later: the deferred invalidation, if there is one, runs first.
ThrottleElapses ==
  /\ throttle.cool
  /\ IF throttle.pending THEN InvalidateQueries ELSE UNCHANGED <<rest, raced>>
  /\ throttle' = [cool |-> throttle.pending, pending |-> FALSE]
  /\ UNCHANGED <<engineVars, pipe, feed, open, faults, seen, polled, party, missed>>

(***************************************************************************)
(* useBidsForJob and useLiveAuctionState.                                  *)
(***************************************************************************)
RestRead ==
  /\ rest.fetch = "asked"
  /\ rest' = [rest EXCEPT !.fetch = "read", !.snap = book]
  /\ UNCHANGED <<engineVars, pipe, feed, open, faults, seen, polled, throttle, party,
                 missed, raced>>

RestReply ==
  /\ rest.fetch = "read"
  /\ rest' = [data |-> "some", fetch |-> "idle", snap |-> rest.snap]
  /\ UNCHANGED <<engineVars, pipe, feed, open, faults, seen, polled, throttle, party,
                 missed, raced>>

\* Every 5 s, every 2 s near the end, not at all once the countdown is over.
Poll ==
  /\ open /\ ~ended
  /\ polled' = [lowest |-> Least({book[p] : p \in Active}), count |-> Cardinality(Active)]
  /\ UNCHANGED <<engineVars, pipe, feed, open, faults, seen, rest, throttle, party,
                 missed, raced>>

(***************************************************************************)
(* What AuctionArena shows.  The server sends no auction_state message, so *)
(* the store knows only what was delivered since it was connected.         *)
(***************************************************************************)
DisplayLowest == Or(seen.currentLowest, polled.lowest)
\* The events with a price, by their place in the stream.
PriceEvents == {i \in DOMAIN seen.events : seen.events[i].type \in Priced}
PriceAmounts == {seen.events[i].amount : i \in PriceEvents}
OrderBook ==
  IF rest.data = "none" THEN {} ELSE {p \in Providers : rest.snap[p] # 0}
DepthBuckets ==
  [a \in {rest.snap[p] : p \in OrderBook} |->
     Cardinality({p \in OrderBook : rest.snap[p] = a})]
BidActivities ==
  [i \in PriceEvents |->
     [amount |-> seen.events[i].amount,
      isLowest |-> seen.events[i].amount = Least(PriceAmounts)]]
ConnectionLabel ==
  CASE feed.status = "connected" -> "LIVE"
    [] feed.status = "connecting" -> "CONNECTING"
    [] OTHER -> "RECONNECTING"

\* The owner's celebration: once per mount, when the auction is over with savings.
Celebrate ==
  /\ open /\ party = "never" /\ ended /\ DisplayLowest > 0
  /\ party' = "shown"
  /\ UNCHANGED <<engineVars, pipe, feed, open, faults, seen, rest, polled, throttle,
                 missed, raced>>

CloseCelebration ==
  /\ party = "shown"
  /\ party' = "closed"
  /\ UNCHANGED <<engineVars, pipe, feed, open, faults, seen, rest, polled, throttle,
                 missed, raced>>

(***************************************************************************)
(* useSpectatorStream and the terminal adapters over the same events.      *)
(***************************************************************************)
SpectatorStream(events) ==
  [bidCount |-> Len(events),
   currentLowest |-> Least({events[i].amount :
                            i \in {j \in DOMAIN events : events[j].type # "bid_withdrawn"}})]

\* useSpectatorTerminal turns every event, withdrawals too, into a bid.
SpectatorTerminal(events) ==
  [bids |-> [i \in DOMAIN events |-> events[i].amount],
   currentLowest |-> Least({events[i].amount : i \in DOMAIN events}),
   bidCount |-> Len(events)]

\* useAuctionTerminal keeps the price events and prefers the bid list.
AuctionTerminal ==
  [bids |-> [i \in PriceEvents |-> seen.events[i].amount],
   currentLowest |-> IF PriceEvents = {} THEN seen.currentLowest ELSE Least(PriceAmounts),
   orderBook |-> IF OrderBook # {} THEN DepthBuckets
                 ELSE [a \in PriceAmounts |->
                         Cardinality({i \in PriceEvents : seen.events[i].amount = a})],
   isRunning |-> feed.status = "connected"]

Init ==
  /\ book \in [Providers -> {0} \cup Amounts] /\ published = 0 /\ ended = FALSE
  /\ pipe = <<>> /\ feed = Idle /\ open = FALSE /\ faults = 0
  /\ seen = EmptyStore /\ rest = NoData /\ polled = [lowest |-> 0, count |-> 0]
  /\ throttle = [cool |-> FALSE, pending |-> FALSE] /\ party = "never"
  /\ missed = FALSE /\ raced = FALSE

Next ==
  \/ \E p \in Providers, a \in Amounts \cup {0} : BidEvent(p, a)
  \/ EndAuction
  \/ Mount \/ Unmount \/ TokenReplaced
  \/ ConnectFires \/ OnOpen \/ OnClose \/ ReconnectFires
  \/ HandleMessage \/ ThrottleElapses
  \/ RestRead \/ RestReply \/ Poll
  \/ Celebrate \/ CloseCelebration

\* Timers fire, replies and messages arrive; nobody need bid or come or go.
Fairness ==
  /\ WF_feedVars(ConnectFires) /\ WF_feedVars(ReconnectFires)
  /\ WF_feedVars(OnOpen) /\ WF_feedVars(HandleMessage)
  /\ WF_feedVars(ThrottleElapses)
  /\ WF_feedVars(RestRead) /\ WF_feedVars(RestReply)

Spec == Init /\ [][Next]_feedVars /\ Fairness

(***************************************************************************)
(* Properties.                                                             *)
(***************************************************************************)
\* The lowest price the arena takes from the stream, the running minimum of its
\* chart, the spectator's and the terminal's lowest are separate folds over the same
\* events and agree: a withdrawal moves none of them (the spectator terminal alone
\* counts withdrawals, and can only show less).
LowestAgrees ==
  /\ seen.currentLowest = SpectatorStream(seen.events).currentLowest
  /\ seen.currentLowest = AuctionTerminal.currentLowest
  /\ seen.priceHistory # <<>> =>
       Latest(seen.priceHistory).running_min = seen.currentLowest
  /\ \A i \in DOMAIN BidActivities :
       BidActivities[i].isLowest => BidActivities[i].amount = seen.currentLowest
  /\ seen.currentLowest # 0 =>
       SpectatorTerminal(seen.events).currentLowest <= seen.currentLowest

\* Once the arena is quiet the order book is the engine's, however the events, the
\* throttle and the reads overlapped, if the socket took every event and none met
\* the first load of the list.
BookCurrent ==
  /\ open /\ ~missed /\ ~raced
  /\ pipe = <<>> /\ ~throttle.pending
  /\ rest.data = "some" /\ rest.fetch = "idle"
  => rest.snap = book

\* An arena that is open gets a socket.
FeedOpens == (open /\ feed.ws = "null") ~> (~open \/ feed.ws # "null")

\* AuctionArena's own label, and PLAN.md: a lost connection is being replaced.
FeedReconnects ==
  (open /\ ConnectionLabel = "RECONNECTING") ~> (~open \/ ConnectionLabel # "RECONNECTING")
=============================================================================
