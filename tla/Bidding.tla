------------------------------- MODULE Bidding -------------------------------
(***************************************************************************)
(* One auction of the bidding engine (engines/bidding/src/engine.rs): the  *)
(* row of the job, the bid rows that point to it, and the request handlers *)
(* that read and write them concurrently.                                  *)
(*                                                                         *)
(* A handler is a tokio task.  Every statement it sends outside a          *)
(* transaction commits by itself, so each one is a step of its own, and a  *)
(* value read in one step may be stale in the next.  The statements of a   *)
(* transaction hold the job's row lock until the commit, and are one step. *)
(* A handler may be dropped between two steps (the client disconnects, the *)
(* process dies, a statement fails): Abort.                                *)
(***************************************************************************)
EXTENDS Integers, FiniteSets

CONSTANTS Providers,    \* the providers that may bid on the job
          Handlers,     \* the requests in flight at the same time
          Scheduler,    \* the caller of the deadline sweep
          NoBid,        \* awarded_bid_id IS NULL
          MaxAmount,    \* bound: amounts, in cents, are 1..MaxAmount
          StartingBid,  \* jobs.starting_bid_cents, NoPrice when NULL
          OfferPrice,   \* jobs.offer_accepted_cents, NoPrice when NULL
          Live,         \* jobs.auction_type = 'live'
          EndsAt0,      \* jobs.auction_ends_at when the job was published
          Window,       \* the five minutes of the anti-snipe rule, in ticks
          MaxNow,       \* bound: the clock stops here
          MayAbort      \* handlers may be dropped between two statements

NoPrice == 0
SnipeLimit == 3

ASSUME ConstantsAssumption ==
    /\ IsFiniteSet(Providers)
    /\ NoBid \notin Providers
    /\ Scheduler \notin Handlers
    /\ MaxAmount \in Nat \ {0}
    /\ StartingBid \in 0..MaxAmount /\ OfferPrice \in 0..MaxAmount
    /\ Live \in BOOLEAN /\ MayAbort \in BOOLEAN
    /\ EndsAt0 \in Nat \ {0} /\ Window \in Nat \ {0}
    /\ MaxNow \in Nat

VARIABLES jobStatus,    \* jobs.status
          bidCount,     \* jobs.bid_count
          endsAt,       \* jobs.auction_ends_at
          snipeCount,   \* jobs.snipe_extension_count
          awardedBid,   \* jobs.awarded_bid_id
          bids,         \* the bids table: UNIQUE (job_id, provider_id)
          events,       \* auction_bid_events of the job
          wire,         \* what was published on the Redis topic of the job
          now,          \* the clock
          pc, who, amt, \* per handler: next statement, provider, amount
          seen          \* per handler: amount or row count read earlier

jobVars  == <<jobStatus, bidCount, endsAt, snipeCount, awardedBid>>
dbVars   == <<jobVars, bids, events, wire>>
reqVars  == <<pc, who, amt, seen>>
vars     == <<dbVars, now, reqVars>>

Amounts     == 1..MaxAmount
Tasks       == Handlers \cup {Scheduler}
JobStatuses == {"active", "closed", "closed_zero_bids", "awarded",
                "cancelled", "suspended"}
BidStatuses == {"none", "active", "awarded", "not_selected", "withdrawn",
                "expired"}
EventTypes  == {"bid_placed", "bid_updated", "bid_withdrawn"}
Steps       == {"idle", "place_tx", "update_write", "update_event",
                "snipe_check", "snipe_extend", "withdraw_write",
                "withdraw_count", "withdraw_event", "offer_insert",
                "offer_count", "publish_placed", "publish_updated",
                "publish_withdrawn", "expire_bids", "expire_job"}

\* A bid row; status "none" stands for the absence of a row.
Bid    == [status : BidStatuses, amount : 0..MaxAmount,
           original : 0..MaxAmount, offer : BOOLEAN,
           updates : SUBSET (0..MaxAmount)]
NoRow  == [status |-> "none", amount |-> 0, original |-> 0, offer |-> FALSE,
           updates |-> {}]

HasRow(p) == bids[p].status # "none"
Rows      == {p \in Providers : HasRow(p)}

Init ==
    /\ jobStatus = "active"
    /\ bidCount = 0
    /\ endsAt = EndsAt0
    /\ snipeCount = 0
    /\ awardedBid = NoBid
    /\ bids = [p \in Providers |-> NoRow]
    /\ events = {}
    /\ wire = {}
    /\ now = 0
    /\ pc = [h \in Tasks |-> "idle"]
    /\ who = [h \in Tasks |-> NoBid]
    /\ amt = [h \in Tasks |-> 0]
    /\ seen = [h \in Tasks |-> 0]

-----------------------------------------------------------------------------
(* Moving a handler from one statement to the next. *)

Goto(h, step) == pc' = [pc EXCEPT ![h] = step]

\* A finished request keeps none of its locals.
Finish(h) ==
    /\ Goto(h, "idle")
    /\ who' = [who EXCEPT ![h] = NoBid]
    /\ amt' = [amt EXCEPT ![h] = 0]
    /\ seen' = [seen EXCEPT ![h] = 0]

Start(h, step, p, a, s) ==
    /\ pc[h] = "idle"
    /\ Goto(h, step)
    /\ who' = [who EXCEPT ![h] = p]
    /\ amt' = [amt EXCEPT ![h] = a]
    /\ seen' = [seen EXCEPT ![h] = s]

Advance(h, step) == Goto(h, step) /\ UNCHANGED <<who, amt, seen>>

-----------------------------------------------------------------------------
(* Statements that several handlers share. *)

\* The new row of INSERT INTO bids.
Inserted(a, flag) == [status |-> "active", amount |-> a, original |-> a,
                      offer |-> flag, updates |-> {}]

\* Mutant: the constraint ignores withdrawn bids.
CanInsertAgain(p) == bids[p].status \in {"none", "withdrawn"}

\* UNIQUE (job_id, provider_id): also a withdrawn bid keeps its row.
CanInsert(p) == ~HasRow(p)

\* The SELECT ... AS snipe_window.
SnipeWindow == endsAt - Window <= now /\ snipeCount < SnipeLimit

\* Mutant: migration 011 was never applied.
NoCheckSnipeMax(count) == TRUE

\* CONSTRAINT chk_snipe_extension_max on the row an UPDATE would write.
CheckSnipeMax(count) == count <= SnipeLimit

\* UPDATE jobs SET auction_ends_at = ..., snipe_extension_count = ...
Extend ==
    /\ endsAt' = endsAt + Window
    /\ snipeCount' = snipeCount + 1

AuctionOpen == jobStatus = "active" /\ endsAt > now

WithinStartingBid(a) == StartingBid # NoPrice => a <= StartingBid

\* Mutant: the comparison the wrong way round.
MeetsOfferSwapped(a) == OfferPrice # NoPrice /\ a >= OfferPrice

\* is_offer_accepted of a placed bid.
MeetsOffer(a) == OfferPrice # NoPrice /\ a <= OfferPrice

\* Mutant: no GREATEST(..., 0).
DecrementedUnclamped(count) == count - 1

Decremented(count) == IF count > 0 THEN count - 1 ELSE 0

Event(type, a) == [type |-> type, amount |-> a]

-----------------------------------------------------------------------------
(* place_bid *)

PlaceRead(h, p, a) ==
    /\ AuctionOpen
    /\ WithinStartingBid(a)
    /\ Start(h, "place_tx", p, a, 0)
    /\ UNCHANGED <<dbVars, now>>

\* One transaction: INSERT the bid, count it, record the event and extend the
\* auction.  Nothing of what PlaceRead checked is checked again.
PlaceTx(h) ==
    /\ pc[h] = "place_tx"
    /\ CanInsert(who[h])
    /\ bids' = [bids EXCEPT ![who[h]] = Inserted(amt[h], MeetsOffer(amt[h]))]
    /\ bidCount' = bidCount + 1
    /\ IF Live
       THEN /\ events' = events \cup {Event("bid_placed", amt[h])}
            /\ IF SnipeWindow THEN Extend ELSE UNCHANGED <<endsAt, snipeCount>>
            /\ Advance(h, "publish_placed")
       ELSE /\ UNCHANGED <<events, endsAt, snipeCount>>
            /\ Finish(h)
    /\ UNCHANGED <<jobStatus, awardedBid, wire, now>>

\* BidError::AlreadyBid: the transaction is rolled back.
AlreadyBid(h) ==
    /\ pc[h] \in {"place_tx", "offer_insert"}
    /\ ~CanInsert(who[h])
    /\ Finish(h)
    /\ UNCHANGED <<dbVars, now>>

-----------------------------------------------------------------------------
(* update_bid *)

\* Mutant: the check against the current amount is missing.
MayBecome(row, a) == row.status = "active"

MayLower(row, a) == row.status = "active" /\ a < row.amount

UpdateRead(h, p, a) ==
    /\ MayLower(bids[p], a)
    /\ Start(h, "update_write", p, a, bids[p].amount)
    /\ UNCHANGED <<dbVars, now>>

\* Mutant: bid_updates = $2 where the code has bid_updates || $2.
LoweredReplaces(row, a, old) ==
    [row EXCEPT !.amount = a, !.updates = {old}]

\* The row after UPDATE bids SET amount_cents, bid_updates WHERE id.
Lowered(row, a, old) ==
    [row EXCEPT !.amount = a, !.updates = @ \cup {old}]

UpdateWrite(h) ==
    /\ pc[h] = "update_write"
    /\ bids' = [bids EXCEPT ![who[h]] = Lowered(@, amt[h], seen[h])]
    /\ IF Live THEN Advance(h, "update_event") ELSE Finish(h)
    /\ UNCHANGED <<jobVars, events, wire, now>>

\* Mutant: a failed INSERT of the event is ignored.
UpdateEventIgnored(h) ==
    /\ pc[h] = "update_event"
    /\ events' \in {events, events \cup {Event("bid_updated", amt[h])}}
    /\ Advance(h, "snipe_check")
    /\ UNCHANGED <<jobVars, bids, wire, now>>

UpdateEvent(h) ==
    /\ pc[h] = "update_event"
    /\ events' = events \cup {Event("bid_updated", amt[h])}
    /\ Advance(h, "snipe_check")
    /\ UNCHANGED <<jobVars, bids, wire, now>>

SnipeCheck(h) ==
    /\ pc[h] = "snipe_check"
    /\ Advance(h, IF SnipeWindow THEN "snipe_extend" ELSE "publish_updated")
    /\ UNCHANGED <<dbVars, now>>

SnipeExtend(h) ==
    /\ pc[h] = "snipe_extend"
    /\ CheckSnipeMax(snipeCount + 1)
    /\ Extend
    /\ Advance(h, "publish_updated")
    /\ UNCHANGED <<jobStatus, bidCount, awardedBid, bids, events, wire, now>>

\* The constraint refuses the row: update_bid returns DatabaseError, with the
\* new amount and the event already committed.
SnipeRefused(h) ==
    /\ pc[h] = "snipe_extend"
    /\ ~CheckSnipeMax(snipeCount + 1)
    /\ Finish(h)
    /\ UNCHANGED <<dbVars, now>>

-----------------------------------------------------------------------------
(* withdraw_bid *)

WithdrawRead(h, p) ==
    /\ bids[p].status = "active"
    /\ Start(h, "withdraw_write", p, 0, 0)
    /\ UNCHANGED <<dbVars, now>>

WithdrawWrite(h) ==
    /\ pc[h] = "withdraw_write"
    /\ bids' = [bids EXCEPT ![who[h]].status = "withdrawn"]
    /\ amt' = [amt EXCEPT ![h] = bids[who[h]].amount]
    /\ Goto(h, "withdraw_count")
    /\ UNCHANGED <<jobVars, events, wire, now, who, seen>>

WithdrawCount(h) ==
    /\ pc[h] = "withdraw_count"
    /\ bidCount' = Decremented(bidCount)
    /\ IF Live THEN Advance(h, "withdraw_event") ELSE Finish(h)
    /\ UNCHANGED <<jobStatus, endsAt, snipeCount, awardedBid, bids, events,
                   wire, now>>

WithdrawEvent(h) ==
    /\ pc[h] = "withdraw_event"
    /\ events' = events \cup {Event("bid_withdrawn", amt[h])}
    /\ Advance(h, "publish_withdrawn")
    /\ UNCHANGED <<jobVars, bids, wire, now>>

-----------------------------------------------------------------------------
(* accept_offer_price: not a transaction, and silent in a live auction *)

OfferRead(h, p) ==
    /\ OfferPrice # NoPrice
    /\ AuctionOpen
    /\ Start(h, "offer_insert", p, OfferPrice, 0)
    /\ UNCHANGED <<dbVars, now>>

OfferInsert(h) ==
    /\ pc[h] = "offer_insert"
    /\ CanInsert(who[h])
    /\ bids' = [bids EXCEPT ![who[h]] = Inserted(amt[h], TRUE)]
    /\ Advance(h, "offer_count")
    /\ UNCHANGED <<jobVars, events, wire, now>>

OfferCount(h) ==
    /\ pc[h] = "offer_count"
    /\ bidCount' = bidCount + 1
    /\ Finish(h)
    /\ UNCHANGED <<jobStatus, endsAt, snipeCount, awardedBid, bids, events,
                   wire, now>>

-----------------------------------------------------------------------------
(* Fire-and-forget PUBLISH: the result is ignored, so the message may be    *)
(* lost without the handler noticing.                                       *)

Published(step) ==
    CASE step = "publish_placed"    -> "bid_placed"
      [] step = "publish_updated"   -> "bid_updated"
      [] step = "publish_withdrawn" -> "bid_withdrawn"

Publish(h) ==
    /\ pc[h] \in {"publish_placed", "publish_updated", "publish_withdrawn"}
    /\ wire' \in {wire, wire \cup {Event(Published(pc[h]), amt[h])}}
    /\ Finish(h)
    /\ UNCHANGED <<jobVars, bids, events, now>>

-----------------------------------------------------------------------------
(* award_bid: one transaction under the job's row lock.  It looks at the    *)
(* status of the bid and never at the status of the job.                    *)

Awarded(p) ==
    [q \in Providers |->
        IF q = p THEN [bids[q] EXCEPT !.status = "awarded"]
        ELSE IF bids[q].status = "active"
             THEN [bids[q] EXCEPT !.status = "not_selected"]
             ELSE bids[q]]

Award(h, p) ==
    /\ pc[h] = "idle"
    /\ bids[p].status = "active"
    /\ bids' = Awarded(p)
    /\ jobStatus' = "awarded"
    /\ awardedBid' = p
    /\ UNCHANGED <<bidCount, endsAt, snipeCount, events, wire, now, reqVars>>

-----------------------------------------------------------------------------
(* check_auction_deadlines, then expire_auction for a job it returned       *)

Sweep ==
    /\ jobStatus = "active"
    /\ endsAt <= now
    /\ Start(Scheduler, "expire_bids", NoBid, 0, 0)
    /\ UNCHANGED <<dbVars, now>>

ActiveBids == {p \in Providers : bids[p].status = "active"}

\* Mutant: the UPDATE lacks AND status = 'active'.
ExpiredAll ==
    [p \in Providers |->
        IF HasRow(p) THEN [bids[p] EXCEPT !.status = "expired"] ELSE bids[p]]

Expired ==
    [p \in Providers |->
        IF bids[p].status = "active" THEN [bids[p] EXCEPT !.status = "expired"]
        ELSE bids[p]]

ExpireBids ==
    /\ pc[Scheduler] = "expire_bids"
    /\ bids' = Expired
    /\ seen' = [seen EXCEPT ![Scheduler] = Cardinality(ActiveBids)]
    /\ Goto(Scheduler, "expire_job")
    /\ UNCHANGED <<jobVars, events, wire, now, who, amt>>

ExpireJob ==
    /\ pc[Scheduler] = "expire_job"
    /\ jobStatus' = IF seen[Scheduler] > 0 THEN "closed" ELSE "closed_zero_bids"
    /\ Finish(Scheduler)
    /\ UNCHANGED <<bidCount, endsAt, snipeCount, awardedBid, bids, events,
                   wire, now>>

-----------------------------------------------------------------------------
(* The job service changes the status of the same row, one guarded UPDATE   *)
(* each (services/job/internal/repository/postgres.go).                     *)

SetJobStatus(s) ==
    /\ jobStatus' = s
    /\ UNCHANGED <<bidCount, endsAt, snipeCount, awardedBid, bids, events,
                   wire, now, reqVars>>

CloseAuction ==
    /\ jobStatus = "active"
    /\ SetJobStatus(IF bidCount > 0 THEN "closed" ELSE "closed_zero_bids")

CancelJob ==
    /\ jobStatus \in {"active", "closed", "closed_zero_bids"}
    /\ SetJobStatus("cancelled")

AdminSuspendJob ==
    /\ jobStatus \notin {"suspended", "cancelled"}
    /\ SetJobStatus("suspended")

AdminRemoveJob ==
    /\ jobStatus # "cancelled"
    /\ SetJobStatus("cancelled")

-----------------------------------------------------------------------------
\* The task is dropped between two statements; what it committed stays.
Abort(h) ==
    /\ MayAbort
    /\ pc[h] # "idle"
    /\ Finish(h)
    /\ UNCHANGED <<dbVars, now>>

Tick ==
    /\ now < MaxNow
    /\ now' = now + 1
    /\ UNCHANGED <<dbVars, reqVars>>

HandlerStep(h) ==
    \/ PlaceTx(h) \/ AlreadyBid(h)
    \/ UpdateWrite(h) \/ UpdateEvent(h) \/ SnipeCheck(h)
    \/ SnipeExtend(h) \/ SnipeRefused(h)
    \/ WithdrawWrite(h) \/ WithdrawCount(h) \/ WithdrawEvent(h)
    \/ OfferInsert(h) \/ OfferCount(h)
    \/ Publish(h)

Request(h, p) ==
    \/ \E a \in Amounts : PlaceRead(h, p, a) \/ UpdateRead(h, p, a)
    \/ WithdrawRead(h, p)
    \/ OfferRead(h, p)
    \/ Award(h, p)

Next ==
    \/ \E h \in Handlers : HandlerStep(h) \/ (\E p \in Providers : Request(h, p))
    \/ \E h \in Tasks : Abort(h)
    \/ Sweep \/ ExpireBids \/ ExpireJob
    \/ CloseAuction \/ CancelJob \/ AdminSuspendJob \/ AdminRemoveJob
    \/ Tick

Spec == Init /\ [][Next]_vars

-----------------------------------------------------------------------------
(* Types; the bid count in particular never becomes negative, although a    *)
(* withdrawal decrements it in a statement of its own.                      *)
TypeOK ==
    /\ jobStatus \in JobStatuses
    /\ bidCount \in Nat
    /\ endsAt \in Nat
    /\ snipeCount \in Nat
    /\ awardedBid \in Providers \cup {NoBid}
    /\ bids \in [Providers -> Bid]
    /\ events \subseteq [type : EventTypes, amount : 0..MaxAmount]
    /\ wire \subseteq [type : EventTypes, amount : 0..MaxAmount]
    /\ now \in 0..MaxNow
    /\ pc \in [Tasks -> Steps]
    /\ who \in [Tasks -> Providers \cup {NoBid}]
    /\ amt \in [Tasks -> 0..MaxAmount]
    /\ seen \in [Tasks -> Nat]


(* A bid never costs more than it did when it was placed, and it was placed *)
(* at or below the starting bid, or at the offer price.  update_bid checks  *)
(* the amount it read and writes without checking again, so this rests on   *)
(* the amounts that updates in flight still hold.                           *)
AmountWithinCap ==
    \A p \in Rows :
        /\ bids[p].amount \in 1..bids[p].original
        /\ WithinStartingBid(bids[p].original) \/ bids[p].original = OfferPrice

(* The history of a bid that changed still holds its first amount, whatever *)
(* updates ran over each other: the entry an update appends is the amount   *)
(* it read, and of those that read the first amount one writes first.  (An  *)
(* amount in between may be missing: a stale update overwrites it.)         *)
HistoryKeepsOriginal ==
    \A p \in Rows :
        bids[p].amount # bids[p].original => bids[p].original \in bids[p].updates

(* A bid shown as meeting the offer price does meet it, whichever of two    *)
(* concurrent updates wrote last.                                           *)
OfferFlagHonest ==
    \A p \in Rows : bids[p].offer => bids[p].amount <= OfferPrice

(* The deadline is the published one plus five minutes per extension, and   *)
(* there are at most three, although update_bid checks the limit in one     *)
(* statement and extends in another.                                        *)
DeadlineAccounted ==
    /\ snipeCount <= SnipeLimit
    /\ endsAt = EndsAt0 + Window * snipeCount

(* awarded_bid_id points to a bid that was awarded; expire_auction and      *)
(* later awards leave it so, only its own withdrawal can change it.         *)
AwardPointsToWinner ==
    awardedBid # NoBid => bids[awardedBid].status \in {"awarded", "withdrawn"}

(* What spectators were told on the topic is in auction_bid_events.         *)
PublishedIsRecorded == wire \subseteq events

\* The changes of one bid's row that a step may make.
RowForward(p) ==
    /\ HasRow(p) => bids'[p].original = bids[p].original
    /\ \/ bids'[p].status = bids[p].status
       \/ bids[p].status = "none" /\ bids'[p].status = "active"
       \/ bids[p].status = "active" /\ bids'[p].status \notin {"none", "active"}
       \/ bids[p].status # "none" /\ bids'[p].status = "withdrawn"

(* No step brings a bid back: a row is never deleted or replaced, no status *)
(* leads back to active, and withdrawn is final.                            *)
NoComeback == [][\A p \in Providers : RowForward(p)]_vars

-----------------------------------------------------------------------------
(* What the documents say, which overlapping or late requests refute.       *)

(* The comment in award_bid: the row is locked to prevent concurrent        *)
(* awards, so a job that has a winner gets no other.                        *)
OneWinner ==
    Cardinality({p \in Providers : bids[p].status = "awarded"}) <= 1

=============================================================================
