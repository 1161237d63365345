---------------------------- MODULE BiddingProofs ----------------------------
(***************************************************************************)
(* What Bidding guarantees for any number of providers, requests and       *)
(* amounts.  The invariants are not inductive by themselves: they rest on  *)
(* what a request in flight still remembers of an earlier read (InFlight). *)
(***************************************************************************)
EXTENDS Bidding, FiniteSetTheorems, TLAPS

(* What a handler between two statements still knows.                       *)
Remembered(h) ==
    /\ pc[h] \in {"place_tx", "offer_insert", "update_write", "withdraw_write"}
          => who[h] \in Providers
    /\ pc[h] = "place_tx" => amt[h] > 0 /\ WithinStartingBid(amt[h])
    /\ pc[h] = "offer_insert" => amt[h] > 0 /\ amt[h] = OfferPrice
    /\ pc[h] = "withdraw_write" => HasRow(who[h])
    /\ pc[h] = "update_write" =>
          LET row == bids[who[h]]
          IN  /\ HasRow(who[h])
              /\ amt[h] > 0 /\ amt[h] < row.original
              /\ seen[h] \in 0..MaxAmount
              /\ seen[h] = row.original \/ row.original \in row.updates

InFlight == \A h \in Tasks : Remembered(h)

(* What a handler on its way to PUBLISH has already recorded.               *)
Recorded(h) ==
    /\ pc[h] \in {"snipe_check", "snipe_extend", "publish_updated"}
          => Event("bid_updated", amt[h]) \in events
    /\ pc[h] = "publish_placed" => Event("bid_placed", amt[h]) \in events
    /\ pc[h] = "publish_withdrawn" => Event("bid_withdrawn", amt[h]) \in events

RecordedInFlight == \A h \in Tasks : Recorded(h)

(* A flagged bid was flagged for the amount it was placed at.               *)
FlagFromOriginal ==
    \A p \in Rows : bids[p].offer => bids[p].original <= OfferPrice

PriceInv == AmountWithinCap /\ HistoryKeepsOriginal /\ FlagFromOriginal


(* The status, the counter and the row written by each statement have the   *)
(* types of their columns.                                                  *)
LEMMA TypeStep == TypeOK /\ InFlight /\ [Next]_vars => TypeOK'
<1> SUFFICES ASSUME TypeOK, InFlight, [Next]_vars PROVE TypeOK'
  OBVIOUS
<1> USE ConstantsAssumption
    DEF TypeOK, vars, dbVars, jobVars, reqVars
<1>1. ASSUME NEW h \in Handlers, PlaceTx(h) PROVE TypeOK'
  <2>1. Inserted(amt[h], MeetsOffer(amt[h])) \in Bid
    BY DEF Inserted, MeetsOffer, Bid, BidStatuses, Tasks
  <2>2. bids' \in [Providers -> Bid]
    BY <1>1, <2>1 DEF PlaceTx
  <2>3. events' \subseteq [type : EventTypes, amount : 0..MaxAmount]
    BY <1>1 DEF PlaceTx, Event, EventTypes, Tasks
  <2>4. endsAt' \in Nat /\ snipeCount' \in Nat /\ bidCount' \in Nat
    BY <1>1 DEF PlaceTx, Extend
  <2>5. /\ pc' \in [Tasks -> Steps]
        /\ who' \in [Tasks -> Providers \cup {NoBid}]
        /\ amt' \in [Tasks -> 0..MaxAmount]
        /\ seen' \in [Tasks -> Nat]
    BY <1>1 DEF PlaceTx, Advance, Finish, Goto, Steps
  <2>6. QED
    BY <1>1, <2>2, <2>3, <2>4, <2>5 DEF PlaceTx
<1>2. ASSUME NEW h \in Handlers, AlreadyBid(h) PROVE TypeOK'
  BY <1>2
  DEF AlreadyBid, Finish, Goto, JobStatuses, Bid, BidStatuses, EventTypes,
      Steps, Amounts, Tasks
<1>3. ASSUME NEW h \in Handlers, UpdateWrite(h) PROVE TypeOK'
  <2>1. who[h] \in Providers /\ seen[h] \in 0..MaxAmount
    BY <1>3 DEF UpdateWrite, InFlight, Remembered, Tasks
  <2>2. Lowered(bids[who[h]], amt[h], seen[h]) \in Bid
    BY <2>1 DEF Lowered, Bid, Tasks
  <2>3. bids' \in [Providers -> Bid]
    BY <1>3, <2>1, <2>2 DEF UpdateWrite
  <2>4. QED
    BY <1>3, <2>3 DEF UpdateWrite, Advance, Finish, Goto, Steps, Tasks
<1>4. ASSUME NEW h \in Handlers, UpdateEvent(h) PROVE TypeOK'
  BY <1>4
  DEF UpdateEvent, Advance, Goto, Event, JobStatuses, Bid, BidStatuses,
      EventTypes, Steps, Amounts, Tasks
<1>5. ASSUME NEW h \in Handlers, SnipeCheck(h) PROVE TypeOK'
  BY <1>5
  DEF SnipeCheck, Advance, Goto, JobStatuses, Bid, BidStatuses, EventTypes,
      Steps, Amounts, Tasks
<1>6. ASSUME NEW h \in Handlers, SnipeExtend(h) PROVE TypeOK'
  BY <1>6
  DEF SnipeExtend, Extend, Advance, Goto, JobStatuses, Bid, BidStatuses,
      EventTypes, Steps, Amounts, Tasks
<1>7. ASSUME NEW h \in Handlers, SnipeRefused(h) PROVE TypeOK'
  BY <1>7
  DEF SnipeRefused, Finish, Goto, JobStatuses, Bid, BidStatuses, EventTypes,
      Steps, Amounts, Tasks
<1>8. ASSUME NEW h \in Handlers, WithdrawWrite(h) PROVE TypeOK'
  BY <1>8
  DEF WithdrawWrite, Goto, JobStatuses, Bid, BidStatuses, EventTypes, Steps,
      Amounts, Tasks, InFlight, Remembered, HasRow
<1>9. ASSUME NEW h \in Handlers, WithdrawCount(h) PROVE TypeOK'
  BY <1>9
  DEF WithdrawCount, Decremented, Advance, Finish, Goto, JobStatuses, Bid,
      BidStatuses, EventTypes, Steps, Amounts, Tasks
<1>10. ASSUME NEW h \in Handlers, WithdrawEvent(h) PROVE TypeOK'
  BY <1>10
  DEF WithdrawEvent, Advance, Goto, Event, JobStatuses, Bid, BidStatuses,
      EventTypes, Steps, Amounts, Tasks
<1>11. ASSUME NEW h \in Handlers, OfferInsert(h) PROVE TypeOK'
  BY <1>11
  DEF OfferInsert, CanInsert, Inserted, Advance, Goto, JobStatuses, Bid,
      BidStatuses, EventTypes, Steps, Amounts, Tasks, InFlight, Remembered
<1>12. ASSUME NEW h \in Handlers, OfferCount(h) PROVE TypeOK'
  BY <1>12
  DEF OfferCount, Finish, Goto, JobStatuses, Bid, BidStatuses, EventTypes,
      Steps, Amounts, Tasks
<1>13. ASSUME NEW h \in Handlers, Publish(h) PROVE TypeOK'
  BY <1>13
  DEF Publish, Published, Finish, Goto, Event, JobStatuses, Bid, BidStatuses,
      EventTypes, Steps, Amounts, Tasks
<1>14. ASSUME NEW h \in Handlers, NEW p \in Providers, NEW a \in Amounts,
           PlaceRead(h, p, a)
      PROVE TypeOK'
  BY <1>14
  DEF PlaceRead, Start, Goto, JobStatuses, Bid, BidStatuses, EventTypes,
      Steps, Amounts, Tasks
<1>15. ASSUME NEW h \in Handlers, NEW p \in Providers, NEW a \in Amounts,
           UpdateRead(h, p, a)
      PROVE TypeOK'
  BY <1>15
  DEF UpdateRead, MayLower, Start, Goto, JobStatuses, Bid, BidStatuses,
      EventTypes, Steps, Amounts, Tasks
<1>16. ASSUME NEW h \in Handlers, NEW p \in Providers, WithdrawRead(h, p)
      PROVE TypeOK'
  BY <1>16
  DEF WithdrawRead, Start, Goto, JobStatuses, Bid, BidStatuses, EventTypes,
      Steps, Amounts, Tasks
<1>17. ASSUME NEW h \in Handlers, NEW p \in Providers, OfferRead(h, p)
      PROVE TypeOK'
  BY <1>17
  DEF OfferRead, Start, Goto, JobStatuses, Bid, BidStatuses, EventTypes,
      Steps, Amounts, Tasks
<1>18. ASSUME NEW h \in Handlers, NEW p \in Providers, Award(h, p)
      PROVE TypeOK'
  BY <1>18
  DEF Award, Awarded, JobStatuses, Bid, BidStatuses, EventTypes, Steps,
      Amounts, Tasks
<1>19. ASSUME NEW h \in Tasks, Abort(h) PROVE TypeOK'
  BY <1>19
  DEF Abort, Finish, Goto, JobStatuses, Bid, BidStatuses, EventTypes, Steps,
      Amounts, Tasks
<1>20. CASE Sweep
  BY <1>20
  DEF Sweep, Start, Goto, JobStatuses, Bid, BidStatuses, EventTypes, Steps,
      Amounts, Tasks
<1>21. CASE ExpireBids
  BY <1>21, FS_Subset, FS_CardinalityType
  DEF ExpireBids, Expired, Goto, JobStatuses, Bid, BidStatuses, EventTypes,
      Steps, Amounts, Tasks, ActiveBids
<1>22. CASE ExpireJob
  BY <1>22
  DEF ExpireJob, Finish, Goto, JobStatuses, Bid, BidStatuses, EventTypes,
      Steps, Amounts, Tasks
<1>23. CASE CloseAuction \/ CancelJob \/ AdminSuspendJob \/ AdminRemoveJob
  BY <1>23
  DEF CloseAuction, CancelJob, AdminSuspendJob, AdminRemoveJob, SetJobStatus,
      JobStatuses, Bid, BidStatuses, EventTypes, Steps, Amounts, Tasks
<1>24. CASE Tick
  BY <1>24
  DEF Tick, JobStatuses, Bid, BidStatuses, EventTypes, Steps, Amounts, Tasks
<1>25. CASE UNCHANGED vars
  BY <1>25
  DEF JobStatuses, Bid, BidStatuses, EventTypes, Steps, Amounts, Tasks
<1>26. QED
  BY <1>1, <1>2, <1>3, <1>4, <1>5, <1>6, <1>7, <1>8, <1>9, <1>10, <1>11,
     <1>12, <1>13, <1>14, <1>15, <1>16, <1>17, <1>18, <1>19, <1>20, <1>21,
     <1>22, <1>23, <1>24, <1>25
  DEF Next, HandlerStep, Request, Tasks

(* What requests in flight remember stays true: no other handler can make   *)
(* it false, because a row keeps its first amount and never disappears.     *)
LEMMA InFlightStep ==
    TypeOK /\ InFlight /\ PriceInv /\ [Next]_vars => InFlight'
<1> SUFFICES ASSUME TypeOK, InFlight, PriceInv, [Next]_vars,
                    NEW g \in Tasks
             PROVE  Remembered(g)'
  BY DEF InFlight
<1> USE ConstantsAssumption
    DEF TypeOK, vars, dbVars, jobVars, reqVars
<1>1. ASSUME NEW h \in Handlers, PlaceTx(h) PROVE Remembered(g)'
  BY <1>1
  DEF PlaceTx, CanInsert, Inserted, Extend, Advance, Finish,
      Goto, Event, InFlight, Remembered, HasRow, WithinStartingBid, Tasks,
      Steps
<1>2. ASSUME NEW h \in Handlers, AlreadyBid(h) PROVE Remembered(g)'
  BY <1>2
  DEF AlreadyBid, Finish, Goto, InFlight, Remembered, HasRow,
      WithinStartingBid, Tasks, Steps
<1>3. ASSUME NEW h \in Handlers, UpdateWrite(h) PROVE Remembered(g)'
  BY <1>3
  DEF UpdateWrite, Lowered, Advance, Finish, Goto, InFlight, Remembered,
      HasRow, WithinStartingBid, Tasks, Steps, Bid
<1>4. ASSUME NEW h \in Handlers, UpdateEvent(h) PROVE Remembered(g)'
  BY <1>4
  DEF UpdateEvent, Advance, Goto, Event, InFlight, Remembered, HasRow,
      WithinStartingBid, Tasks, Steps
<1>5. ASSUME NEW h \in Handlers, SnipeCheck(h) PROVE Remembered(g)'
  BY <1>5
  DEF SnipeCheck, Advance, Goto, InFlight, Remembered, HasRow,
      WithinStartingBid, Tasks, Steps
<1>6. ASSUME NEW h \in Handlers, SnipeExtend(h) PROVE Remembered(g)'
  BY <1>6
  DEF SnipeExtend, Extend, Advance, Goto, InFlight, Remembered, HasRow,
      WithinStartingBid, Tasks, Steps
<1>7. ASSUME NEW h \in Handlers, SnipeRefused(h) PROVE Remembered(g)'
  BY <1>7
  DEF SnipeRefused, Finish, Goto, InFlight, Remembered, HasRow,
      WithinStartingBid, Tasks, Steps
<1>8. ASSUME NEW h \in Handlers, WithdrawWrite(h) PROVE Remembered(g)'
  BY <1>8
  DEF WithdrawWrite, Goto, InFlight, Remembered, HasRow, WithinStartingBid,
      Tasks, Steps, Bid
<1>9. ASSUME NEW h \in Handlers, WithdrawCount(h) PROVE Remembered(g)'
  BY <1>9
  DEF WithdrawCount, Decremented, Advance, Finish, Goto, InFlight, Remembered,
      HasRow, WithinStartingBid, Tasks, Steps
<1>10. ASSUME NEW h \in Handlers, WithdrawEvent(h) PROVE Remembered(g)'
  BY <1>10
  DEF WithdrawEvent, Advance, Goto, Event, InFlight, Remembered, HasRow,
      WithinStartingBid, Tasks, Steps
<1>11. ASSUME NEW h \in Handlers, OfferInsert(h) PROVE Remembered(g)'
  BY <1>11
  DEF OfferInsert, CanInsert, Inserted, Advance, Goto, InFlight, Remembered,
      HasRow, WithinStartingBid, Tasks, Steps
<1>12. ASSUME NEW h \in Handlers, OfferCount(h) PROVE Remembered(g)'
  BY <1>12
  DEF OfferCount, Finish, Goto, InFlight, Remembered, HasRow,
      WithinStartingBid, Tasks, Steps
<1>13. ASSUME NEW h \in Handlers, Publish(h) PROVE Remembered(g)'
  BY <1>13
  DEF Publish, Published, Finish, Goto, Event, InFlight, Remembered, HasRow,
      WithinStartingBid, Tasks, Steps
<1>14. ASSUME NEW h \in Handlers, NEW p \in Providers, NEW a \in Amounts,
           PlaceRead(h, p, a)
      PROVE Remembered(g)'
  BY <1>14
  DEF PlaceRead, Start, Goto, InFlight, Remembered, HasRow, WithinStartingBid,
      Tasks, Steps, Amounts
<1>15. ASSUME NEW h \in Handlers, NEW p \in Providers, NEW a \in Amounts,
           UpdateRead(h, p, a)
      PROVE Remembered(g)'
  BY <1>15
  DEF UpdateRead, MayLower, Start, Goto, InFlight, Remembered, HasRow,
      WithinStartingBid, Tasks, Steps, PriceInv, AmountWithinCap,
      HistoryKeepsOriginal, Rows, Amounts, Bid
<1>16. ASSUME NEW h \in Handlers, NEW p \in Providers, WithdrawRead(h, p)
      PROVE Remembered(g)'
  BY <1>16
  DEF WithdrawRead, Start, Goto, InFlight, Remembered, HasRow,
      WithinStartingBid, Tasks, Steps
<1>17. ASSUME NEW h \in Handlers, NEW p \in Providers, OfferRead(h, p)
      PROVE Remembered(g)'
  BY <1>17
  DEF OfferRead, Start, Goto, InFlight, Remembered, HasRow, WithinStartingBid,
      Tasks, Steps, NoPrice
<1>18. ASSUME NEW h \in Handlers, NEW p \in Providers, Award(h, p)
      PROVE Remembered(g)'
  BY <1>18
  DEF Award, Awarded, InFlight, Remembered, HasRow, WithinStartingBid, Tasks,
      Steps, Bid
<1>19. ASSUME NEW h \in Tasks, Abort(h) PROVE Remembered(g)'
  BY <1>19
  DEF Abort, Finish, Goto, InFlight, Remembered, HasRow, WithinStartingBid,
      Tasks, Steps
<1>20. CASE Sweep
  BY <1>20
  DEF Sweep, Start, Goto, InFlight, Remembered, HasRow, WithinStartingBid,
      Tasks, Steps
<1>21. CASE ExpireBids
  BY <1>21
  DEF ExpireBids, Expired, Goto, InFlight, Remembered, HasRow,
      WithinStartingBid, Tasks, Steps, Bid
<1>22. CASE ExpireJob
  BY <1>22
  DEF ExpireJob, Finish, Goto, InFlight, Remembered, HasRow,
      WithinStartingBid, Tasks, Steps
<1>23. CASE CloseAuction \/ CancelJob \/ AdminSuspendJob \/ AdminRemoveJob
  BY <1>23
  DEF CloseAuction, CancelJob, AdminSuspendJob, AdminRemoveJob, SetJobStatus,
      InFlight, Remembered, HasRow, WithinStartingBid, Tasks, Steps
<1>24. CASE Tick
  BY <1>24
  DEF Tick, InFlight, Remembered, HasRow, WithinStartingBid, Tasks, Steps
<1>25. CASE UNCHANGED vars
  BY <1>25
  DEF InFlight, Remembered, HasRow, WithinStartingBid, Tasks, Steps
<1>26. QED
  BY <1>1, <1>2, <1>3, <1>4, <1>5, <1>6, <1>7, <1>8, <1>9, <1>10, <1>11,
     <1>12, <1>13, <1>14, <1>15, <1>16, <1>17, <1>18, <1>19, <1>20, <1>21,
     <1>22, <1>23, <1>24, <1>25
  DEF Next, HandlerStep, Request, Tasks

(* Prices: a row is written by an INSERT at a checked amount, or by an      *)
(* update that was below the first amount when it was read.                 *)
LEMMA PriceStep ==
    TypeOK /\ InFlight /\ PriceInv /\ [Next]_vars => PriceInv'
<1> SUFFICES ASSUME TypeOK, InFlight, PriceInv, [Next]_vars PROVE PriceInv'
  OBVIOUS
<1> USE ConstantsAssumption
    DEF TypeOK, vars, dbVars, jobVars, reqVars
<1>1. ASSUME NEW h \in Handlers, PlaceTx(h) PROVE PriceInv'
  <2> DEFINE new == Inserted(amt[h], MeetsOffer(amt[h]))
  <2>1. who[h] \in Providers /\ amt[h] \in 1..MaxAmount
        /\ WithinStartingBid(amt[h])
    BY <1>1 DEF PlaceTx, InFlight, Remembered, Tasks
  <2>2. bids' = [bids EXCEPT ![who[h]] = new]
    BY <1>1 DEF PlaceTx
  <2>3. /\ new.amount = amt[h] /\ new.original = amt[h]
        /\ new.offer => amt[h] <= OfferPrice
    BY DEF Inserted, MeetsOffer
  <2> HIDE DEF new
  <2>4. QED
    BY <2>1, <2>2, <2>3
    DEF PriceInv, AmountWithinCap, HistoryKeepsOriginal, FlagFromOriginal,
        Rows, HasRow, WithinStartingBid
<1>2. ASSUME NEW h \in Handlers, AlreadyBid(h) PROVE PriceInv'
  BY <1>2
  DEF AlreadyBid, Finish, Goto, PriceInv, AmountWithinCap,
      HistoryKeepsOriginal, FlagFromOriginal, Rows, HasRow, WithinStartingBid
<1>3. ASSUME NEW h \in Handlers, UpdateWrite(h) PROVE PriceInv'
  BY <1>3
  DEF UpdateWrite, Lowered, Advance, Finish, Goto, PriceInv, AmountWithinCap,
      HistoryKeepsOriginal, FlagFromOriginal, Rows, HasRow, WithinStartingBid,
      Bid, InFlight, Remembered, Tasks
<1>4. ASSUME NEW h \in Handlers, UpdateEvent(h) PROVE PriceInv'
  BY <1>4
  DEF UpdateEvent, Advance, Goto, Event, PriceInv, AmountWithinCap,
      HistoryKeepsOriginal, FlagFromOriginal, Rows, HasRow, WithinStartingBid
<1>5. ASSUME NEW h \in Handlers, SnipeCheck(h) PROVE PriceInv'
  BY <1>5
  DEF SnipeCheck, Advance, Goto, PriceInv, AmountWithinCap,
      HistoryKeepsOriginal, FlagFromOriginal, Rows, HasRow, WithinStartingBid
<1>6. ASSUME NEW h \in Handlers, SnipeExtend(h) PROVE PriceInv'
  BY <1>6
  DEF SnipeExtend, Extend, Advance, Goto, PriceInv, AmountWithinCap,
      HistoryKeepsOriginal, FlagFromOriginal, Rows, HasRow, WithinStartingBid
<1>7. ASSUME NEW h \in Handlers, SnipeRefused(h) PROVE PriceInv'
  BY <1>7
  DEF SnipeRefused, Finish, Goto, PriceInv, AmountWithinCap,
      HistoryKeepsOriginal, FlagFromOriginal, Rows, HasRow, WithinStartingBid
<1>8. ASSUME NEW h \in Handlers, WithdrawWrite(h) PROVE PriceInv'
  BY <1>8
  DEF WithdrawWrite, Goto, PriceInv, AmountWithinCap, HistoryKeepsOriginal,
      FlagFromOriginal, Rows, HasRow, WithinStartingBid, InFlight, Remembered,
      Tasks, Bid
<1>9. ASSUME NEW h \in Handlers, WithdrawCount(h) PROVE PriceInv'
  BY <1>9
  DEF WithdrawCount, Decremented, Advance, Finish, Goto, PriceInv,
      AmountWithinCap, HistoryKeepsOriginal, FlagFromOriginal, Rows, HasRow,
      WithinStartingBid
<1>10. ASSUME NEW h \in Handlers, WithdrawEvent(h) PROVE PriceInv'
  BY <1>10
  DEF WithdrawEvent, Advance, Goto, Event, PriceInv, AmountWithinCap,
      HistoryKeepsOriginal, FlagFromOriginal, Rows, HasRow, WithinStartingBid
<1>11. ASSUME NEW h \in Handlers, OfferInsert(h) PROVE PriceInv'
  BY <1>11
  DEF OfferInsert, CanInsert, Inserted, Advance, Goto, PriceInv,
      AmountWithinCap, HistoryKeepsOriginal, FlagFromOriginal, Rows, HasRow,
      WithinStartingBid, Bid, InFlight, Remembered, Tasks
<1>12. ASSUME NEW h \in Handlers, OfferCount(h) PROVE PriceInv'
  BY <1>12
  DEF OfferCount, Finish, Goto, PriceInv, AmountWithinCap,
      HistoryKeepsOriginal, FlagFromOriginal, Rows, HasRow, WithinStartingBid
<1>13. ASSUME NEW h \in Handlers, Publish(h) PROVE PriceInv'
  BY <1>13
  DEF Publish, Published, Finish, Goto, Event, PriceInv, AmountWithinCap,
      HistoryKeepsOriginal, FlagFromOriginal, Rows, HasRow, WithinStartingBid
<1>14. ASSUME NEW h \in Handlers, NEW p \in Providers, NEW a \in Amounts,
           PlaceRead(h, p, a)
      PROVE PriceInv'
  BY <1>14
  DEF PlaceRead, Start, Goto, PriceInv, AmountWithinCap, HistoryKeepsOriginal,
      FlagFromOriginal, Rows, HasRow, WithinStartingBid
<1>15. ASSUME NEW h \in Handlers, NEW p \in Providers, NEW a \in Amounts,
           UpdateRead(h, p, a)
      PROVE PriceInv'
  BY <1>15
  DEF UpdateRead, MayLower, Start, Goto, PriceInv, AmountWithinCap,
      HistoryKeepsOriginal, FlagFromOriginal, Rows, HasRow, WithinStartingBid
<1>16. ASSUME NEW h \in Handlers, NEW p \in Providers, WithdrawRead(h, p)
      PROVE PriceInv'
  BY <1>16
  DEF WithdrawRead, Start, Goto, PriceInv, AmountWithinCap,
      HistoryKeepsOriginal, FlagFromOriginal, Rows, HasRow, WithinStartingBid
<1>17. ASSUME NEW h \in Handlers, NEW p \in Providers, OfferRead(h, p)
      PROVE PriceInv'
  BY <1>17
  DEF OfferRead, Start, Goto, PriceInv, AmountWithinCap, HistoryKeepsOriginal,
      FlagFromOriginal, Rows, HasRow, WithinStartingBid
<1>18. ASSUME NEW h \in Handlers, NEW p \in Providers, Award(h, p)
      PROVE PriceInv'
  BY <1>18
  DEF Award, Awarded, PriceInv, AmountWithinCap, HistoryKeepsOriginal,
      FlagFromOriginal, Rows, HasRow, WithinStartingBid, Bid
<1>19. ASSUME NEW h \in Tasks, Abort(h) PROVE PriceInv'
  BY <1>19
  DEF Abort, Finish, Goto, PriceInv, AmountWithinCap, HistoryKeepsOriginal,
      FlagFromOriginal, Rows, HasRow, WithinStartingBid
<1>20. CASE Sweep
  BY <1>20
  DEF Sweep, Start, Goto, PriceInv, AmountWithinCap, HistoryKeepsOriginal,
      FlagFromOriginal, Rows, HasRow, WithinStartingBid
<1>21. CASE ExpireBids
  BY <1>21
  DEF ExpireBids, Expired, Goto, PriceInv, AmountWithinCap,
      HistoryKeepsOriginal, FlagFromOriginal, Rows, HasRow, WithinStartingBid,
      Bid
<1>22. CASE ExpireJob
  BY <1>22
  DEF ExpireJob, Finish, Goto, PriceInv, AmountWithinCap,
      HistoryKeepsOriginal, FlagFromOriginal, Rows, HasRow, WithinStartingBid
<1>23. CASE CloseAuction \/ CancelJob \/ AdminSuspendJob \/ AdminRemoveJob
  BY <1>23
  DEF CloseAuction, CancelJob, AdminSuspendJob, AdminRemoveJob, SetJobStatus,
      PriceInv, AmountWithinCap, HistoryKeepsOriginal, FlagFromOriginal, Rows,
      HasRow, WithinStartingBid
<1>24. CASE Tick
  BY <1>24
  DEF Tick, PriceInv, AmountWithinCap, HistoryKeepsOriginal, FlagFromOriginal,
      Rows, HasRow, WithinStartingBid
<1>25. CASE UNCHANGED vars
  BY <1>25
  DEF PriceInv, AmountWithinCap, HistoryKeepsOriginal, FlagFromOriginal, Rows,
      HasRow, WithinStartingBid
<1>26. QED
  BY <1>1, <1>2, <1>3, <1>4, <1>5, <1>6, <1>7, <1>8, <1>9, <1>10, <1>11,
     <1>12, <1>13, <1>14, <1>15, <1>16, <1>17, <1>18, <1>19, <1>20, <1>21,
     <1>22, <1>23, <1>24, <1>25
  DEF Next, HandlerStep, Request, Tasks

(* The deadline moves only together with the counter, and the constraint    *)
(* on the row stops an extension whose check is stale.                      *)
LEMMA DeadlineStep == TypeOK /\ DeadlineAccounted /\ [Next]_vars => DeadlineAccounted'
<1> SUFFICES ASSUME TypeOK, DeadlineAccounted, [Next]_vars
             PROVE  DeadlineAccounted'
  OBVIOUS
<1>1. CASE UNCHANGED <<endsAt, snipeCount>>
  BY <1>1 DEF DeadlineAccounted
<1>2. CASE Extend /\ snipeCount < SnipeLimit
  <2>1. Window * (snipeCount + 1) = Window * snipeCount + Window
    BY ConstantsAssumption DEF TypeOK
  <2>2. QED
    BY <1>2, <2>1, ConstantsAssumption
    DEF DeadlineAccounted, TypeOK, Extend, SnipeLimit
<1>3. \/ UNCHANGED <<endsAt, snipeCount>>
      \/ Extend /\ snipeCount < SnipeLimit
  <2> USE DEF vars, dbVars, jobVars
  <2>1. ASSUME NEW h \in Handlers, PlaceTx(h) PROVE <1>3!:
    BY <2>1 DEF PlaceTx, SnipeWindow
  <2>2. ASSUME NEW h \in Handlers, SnipeExtend(h) PROVE <1>3!:
    BY <2>2 DEF SnipeExtend, CheckSnipeMax, TypeOK, SnipeLimit
  <2>3. ASSUME NEW h \in Handlers, HandlerStep(h), ~PlaceTx(h), ~SnipeExtend(h)
        PROVE UNCHANGED <<endsAt, snipeCount>>
    BY <2>3
    DEF HandlerStep, AlreadyBid, UpdateWrite, UpdateEvent, SnipeCheck,
        SnipeRefused, WithdrawWrite, WithdrawCount, WithdrawEvent,
        OfferInsert, OfferCount, Publish
  <2>4. ASSUME NEW h \in Handlers, NEW p \in Providers, Request(h, p)
        PROVE UNCHANGED <<endsAt, snipeCount>>
    BY <2>4
    DEF Request, PlaceRead, UpdateRead, WithdrawRead, OfferRead, Award
  <2>5. CASE \/ \E h \in Tasks : Abort(h)
             \/ Sweep \/ ExpireBids \/ ExpireJob
             \/ CloseAuction \/ CancelJob \/ AdminSuspendJob \/ AdminRemoveJob
             \/ Tick \/ UNCHANGED vars
    BY <2>5
    DEF Abort, Sweep, ExpireBids, ExpireJob, CloseAuction, CancelJob,
        AdminSuspendJob, AdminRemoveJob, SetJobStatus, Tick
  <2>6. QED
    BY <2>1, <2>2, <2>3, <2>4, <2>5 DEF Next
<1>4. QED
  BY <1>1, <1>2, <1>3

(* A bid that was awarded is only ever changed by its own withdrawal.       *)
LEMMA AwardStep ==
    TypeOK /\ AwardPointsToWinner /\ InFlight /\ [Next]_vars
        => AwardPointsToWinner'
<1> SUFFICES ASSUME TypeOK, AwardPointsToWinner, InFlight, [Next]_vars
             PROVE  AwardPointsToWinner'
  OBVIOUS
<1> USE ConstantsAssumption
    DEF TypeOK, vars, dbVars, jobVars, reqVars
<1>1. ASSUME NEW h \in Handlers, PlaceTx(h) PROVE AwardPointsToWinner'
  BY <1>1
  DEF PlaceTx, CanInsert, Inserted, Extend, Advance, Finish,
      Goto, Event, AwardPointsToWinner, HasRow
<1>2. ASSUME NEW h \in Handlers, AlreadyBid(h) PROVE AwardPointsToWinner'
  BY <1>2
  DEF AlreadyBid, Finish, Goto, AwardPointsToWinner
<1>3. ASSUME NEW h \in Handlers, UpdateWrite(h) PROVE AwardPointsToWinner'
  BY <1>3
  DEF UpdateWrite, Lowered, Advance, Finish, Goto, AwardPointsToWinner, Bid
<1>4. ASSUME NEW h \in Handlers, UpdateEvent(h) PROVE AwardPointsToWinner'
  BY <1>4
  DEF UpdateEvent, Advance, Goto, Event, AwardPointsToWinner
<1>5. ASSUME NEW h \in Handlers, SnipeCheck(h) PROVE AwardPointsToWinner'
  BY <1>5
  DEF SnipeCheck, Advance, Goto, AwardPointsToWinner
<1>6. ASSUME NEW h \in Handlers, SnipeExtend(h) PROVE AwardPointsToWinner'
  BY <1>6
  DEF SnipeExtend, Extend, Advance, Goto, AwardPointsToWinner
<1>7. ASSUME NEW h \in Handlers, SnipeRefused(h) PROVE AwardPointsToWinner'
  BY <1>7
  DEF SnipeRefused, Finish, Goto, AwardPointsToWinner
<1>8. ASSUME NEW h \in Handlers, WithdrawWrite(h) PROVE AwardPointsToWinner'
  BY <1>8
  DEF WithdrawWrite, Goto, AwardPointsToWinner, Bid
<1>9. ASSUME NEW h \in Handlers, WithdrawCount(h) PROVE AwardPointsToWinner'
  BY <1>9
  DEF WithdrawCount, Decremented, Advance, Finish, Goto, AwardPointsToWinner
<1>10. ASSUME NEW h \in Handlers, WithdrawEvent(h) PROVE AwardPointsToWinner'
  BY <1>10
  DEF WithdrawEvent, Advance, Goto, Event, AwardPointsToWinner
<1>11. ASSUME NEW h \in Handlers, OfferInsert(h) PROVE AwardPointsToWinner'
  BY <1>11
  DEF OfferInsert, CanInsert, Inserted, Advance, Goto, AwardPointsToWinner,
      HasRow
<1>12. ASSUME NEW h \in Handlers, OfferCount(h) PROVE AwardPointsToWinner'
  BY <1>12
  DEF OfferCount, Finish, Goto, AwardPointsToWinner
<1>13. ASSUME NEW h \in Handlers, Publish(h) PROVE AwardPointsToWinner'
  BY <1>13
  DEF Publish, Published, Finish, Goto, Event, AwardPointsToWinner
<1>14. ASSUME NEW h \in Handlers, NEW p \in Providers, NEW a \in Amounts,
           PlaceRead(h, p, a)
      PROVE AwardPointsToWinner'
  BY <1>14
  DEF PlaceRead, Start, Goto, AwardPointsToWinner
<1>15. ASSUME NEW h \in Handlers, NEW p \in Providers, NEW a \in Amounts,
           UpdateRead(h, p, a)
      PROVE AwardPointsToWinner'
  BY <1>15
  DEF UpdateRead, MayLower, Start, Goto, AwardPointsToWinner
<1>16. ASSUME NEW h \in Handlers, NEW p \in Providers, WithdrawRead(h, p)
      PROVE AwardPointsToWinner'
  BY <1>16
  DEF WithdrawRead, Start, Goto, AwardPointsToWinner
<1>17. ASSUME NEW h \in Handlers, NEW p \in Providers, OfferRead(h, p)
      PROVE AwardPointsToWinner'
  BY <1>17
  DEF OfferRead, Start, Goto, AwardPointsToWinner
<1>18. ASSUME NEW h \in Handlers, NEW p \in Providers, Award(h, p)
      PROVE AwardPointsToWinner'
  BY <1>18
  DEF Award, Awarded, AwardPointsToWinner, Bid
<1>19. ASSUME NEW h \in Tasks, Abort(h) PROVE AwardPointsToWinner'
  BY <1>19
  DEF Abort, Finish, Goto, AwardPointsToWinner
<1>20. CASE Sweep
  BY <1>20
  DEF Sweep, Start, Goto, AwardPointsToWinner
<1>21. CASE ExpireBids
  BY <1>21
  DEF ExpireBids, Expired, Goto, AwardPointsToWinner, Bid
<1>22. CASE ExpireJob
  BY <1>22
  DEF ExpireJob, Finish, Goto, AwardPointsToWinner
<1>23. CASE CloseAuction \/ CancelJob \/ AdminSuspendJob \/ AdminRemoveJob
  BY <1>23
  DEF CloseAuction, CancelJob, AdminSuspendJob, AdminRemoveJob, SetJobStatus,
      AwardPointsToWinner
<1>24. CASE Tick
  BY <1>24
  DEF Tick, AwardPointsToWinner
<1>25. CASE UNCHANGED vars
  BY <1>25
  DEF AwardPointsToWinner
<1>26. QED
  BY <1>1, <1>2, <1>3, <1>4, <1>5, <1>6, <1>7, <1>8, <1>9, <1>10, <1>11,
     <1>12, <1>13, <1>14, <1>15, <1>16, <1>17, <1>18, <1>19, <1>20, <1>21,
     <1>22, <1>23, <1>24, <1>25
  DEF Next, HandlerStep, Request, Tasks

(* An event is in the log before its handler comes to PUBLISH, and the log  *)
(* only grows.                                                              *)
LEMMA PublishStep ==
    TypeOK /\ RecordedInFlight /\ PublishedIsRecorded /\ [Next]_vars
        => RecordedInFlight' /\ PublishedIsRecorded'
<1> SUFFICES ASSUME TypeOK, RecordedInFlight, PublishedIsRecorded, [Next]_vars,
                    NEW g \in Tasks
             PROVE  Recorded(g)' /\ PublishedIsRecorded'
  BY DEF RecordedInFlight, Tasks
<1> USE ConstantsAssumption
    DEF TypeOK, vars, dbVars, jobVars, reqVars
<1>1. ASSUME NEW h \in Handlers, PlaceTx(h) PROVE Recorded(g)' /\ PublishedIsRecorded'
  BY <1>1
  DEF PlaceTx, CanInsert, Inserted, Extend, Advance, Finish,
      Goto, Event, RecordedInFlight, Recorded, PublishedIsRecorded, Tasks
<1>2. ASSUME NEW h \in Handlers, AlreadyBid(h) PROVE Recorded(g)' /\ PublishedIsRecorded'
  BY <1>2
  DEF AlreadyBid, Finish, Goto, RecordedInFlight, Recorded,
      PublishedIsRecorded, Tasks, Event
<1>3. ASSUME NEW h \in Handlers, UpdateWrite(h) PROVE Recorded(g)' /\ PublishedIsRecorded'
  BY <1>3
  DEF UpdateWrite, Lowered, Advance, Finish, Goto, RecordedInFlight, Recorded,
      PublishedIsRecorded, Tasks, Event
<1>4. ASSUME NEW h \in Handlers, UpdateEvent(h) PROVE Recorded(g)' /\ PublishedIsRecorded'
  BY <1>4
  DEF UpdateEvent, Advance, Goto, Event, RecordedInFlight, Recorded,
      PublishedIsRecorded, Tasks
<1>5. ASSUME NEW h \in Handlers, SnipeCheck(h) PROVE Recorded(g)' /\ PublishedIsRecorded'
  BY <1>5
  DEF SnipeCheck, Advance, Goto, RecordedInFlight, Recorded,
      PublishedIsRecorded, Tasks, Event
<1>6. ASSUME NEW h \in Handlers, SnipeExtend(h) PROVE Recorded(g)' /\ PublishedIsRecorded'
  BY <1>6
  DEF SnipeExtend, Extend, Advance, Goto, RecordedInFlight, Recorded,
      PublishedIsRecorded, Tasks, Event
<1>7. ASSUME NEW h \in Handlers, SnipeRefused(h) PROVE Recorded(g)' /\ PublishedIsRecorded'
  BY <1>7
  DEF SnipeRefused, Finish, Goto, RecordedInFlight, Recorded,
      PublishedIsRecorded, Tasks, Event
<1>8. ASSUME NEW h \in Handlers, WithdrawWrite(h) PROVE Recorded(g)' /\ PublishedIsRecorded'
  BY <1>8
  DEF WithdrawWrite, Goto, RecordedInFlight, Recorded, PublishedIsRecorded,
      Tasks, Event
<1>9. ASSUME NEW h \in Handlers, WithdrawCount(h) PROVE Recorded(g)' /\ PublishedIsRecorded'
  BY <1>9
  DEF WithdrawCount, Decremented, Advance, Finish, Goto, RecordedInFlight,
      Recorded, PublishedIsRecorded, Tasks, Event
<1>10. ASSUME NEW h \in Handlers, WithdrawEvent(h) PROVE Recorded(g)' /\ PublishedIsRecorded'
  BY <1>10
  DEF WithdrawEvent, Advance, Goto, Event, RecordedInFlight, Recorded,
      PublishedIsRecorded, Tasks
<1>11. ASSUME NEW h \in Handlers, OfferInsert(h) PROVE Recorded(g)' /\ PublishedIsRecorded'
  BY <1>11
  DEF OfferInsert, CanInsert, Inserted, Advance, Goto, RecordedInFlight,
      Recorded, PublishedIsRecorded, Tasks, Event
<1>12. ASSUME NEW h \in Handlers, OfferCount(h) PROVE Recorded(g)' /\ PublishedIsRecorded'
  BY <1>12
  DEF OfferCount, Finish, Goto, RecordedInFlight, Recorded,
      PublishedIsRecorded, Tasks, Event
<1>13. ASSUME NEW h \in Handlers, Publish(h) PROVE Recorded(g)' /\ PublishedIsRecorded'
  BY <1>13
  DEF Publish, Published, Finish, Goto, Event, RecordedInFlight, Recorded,
      PublishedIsRecorded, Tasks
<1>14. ASSUME NEW h \in Handlers, NEW p \in Providers, NEW a \in Amounts,
           PlaceRead(h, p, a)
      PROVE Recorded(g)' /\ PublishedIsRecorded'
  BY <1>14
  DEF PlaceRead, Start, Goto, RecordedInFlight, Recorded, PublishedIsRecorded,
      Tasks, Event
<1>15. ASSUME NEW h \in Handlers, NEW p \in Providers, NEW a \in Amounts,
           UpdateRead(h, p, a)
      PROVE Recorded(g)' /\ PublishedIsRecorded'
  BY <1>15
  DEF UpdateRead, MayLower, Start, Goto, RecordedInFlight, Recorded,
      PublishedIsRecorded, Tasks, Event
<1>16. ASSUME NEW h \in Handlers, NEW p \in Providers, WithdrawRead(h, p)
      PROVE Recorded(g)' /\ PublishedIsRecorded'
  BY <1>16
  DEF WithdrawRead, Start, Goto, RecordedInFlight, Recorded,
      PublishedIsRecorded, Tasks, Event
<1>17. ASSUME NEW h \in Handlers, NEW p \in Providers, OfferRead(h, p)
      PROVE Recorded(g)' /\ PublishedIsRecorded'
  BY <1>17
  DEF OfferRead, Start, Goto, RecordedInFlight, Recorded, PublishedIsRecorded,
      Tasks, Event
<1>18. ASSUME NEW h \in Handlers, NEW p \in Providers, Award(h, p)
      PROVE Recorded(g)' /\ PublishedIsRecorded'
  BY <1>18
  DEF Award, Awarded, RecordedInFlight, Recorded, PublishedIsRecorded, Tasks,
      Event
<1>19. ASSUME NEW h \in Tasks, Abort(h) PROVE Recorded(g)' /\ PublishedIsRecorded'
  BY <1>19
  DEF Abort, Finish, Goto, RecordedInFlight, Recorded, PublishedIsRecorded,
      Tasks, Event
<1>20. CASE Sweep
  BY <1>20
  DEF Sweep, Start, Goto, RecordedInFlight, Recorded, PublishedIsRecorded,
      Tasks, Event
<1>21. CASE ExpireBids
  BY <1>21
  DEF ExpireBids, Expired, Goto, RecordedInFlight, Recorded,
      PublishedIsRecorded, Tasks, Event
<1>22. CASE ExpireJob
  BY <1>22
  DEF ExpireJob, Finish, Goto, RecordedInFlight, Recorded,
      PublishedIsRecorded, Tasks, Event
<1>23. CASE CloseAuction \/ CancelJob \/ AdminSuspendJob \/ AdminRemoveJob
  BY <1>23
  DEF CloseAuction, CancelJob, AdminSuspendJob, AdminRemoveJob, SetJobStatus,
      RecordedInFlight, Recorded, PublishedIsRecorded, Tasks, Event
<1>24. CASE Tick
  BY <1>24
  DEF Tick, RecordedInFlight, Recorded, PublishedIsRecorded, Tasks, Event
<1>25. CASE UNCHANGED vars
  BY <1>25
  DEF RecordedInFlight, Recorded, PublishedIsRecorded, Tasks, Event
<1>26. QED
  BY <1>1, <1>2, <1>3, <1>4, <1>5, <1>6, <1>7, <1>8, <1>9, <1>10, <1>11,
     <1>12, <1>13, <1>14, <1>15, <1>16, <1>17, <1>18, <1>19, <1>20, <1>21,
     <1>22, <1>23, <1>24, <1>25
  DEF Next, HandlerStep, Request, Tasks

-----------------------------------------------------------------------------
(* The conjunction that is preserved by every step.                         *)
IInv == /\ TypeOK /\ InFlight /\ PriceInv
        /\ DeadlineAccounted /\ AwardPointsToWinner
        /\ RecordedInFlight /\ PublishedIsRecorded

(* Every reachable state of the auction satisfies the inductive invariant.  *)
THEOREM Invariance == Spec => []IInv
<1>1. Init => IInv
  <2> SUFFICES ASSUME Init PROVE IInv
    OBVIOUS
  <2> USE ConstantsAssumption DEF Init
  <2>1. TypeOK
    BY DEF TypeOK, JobStatuses, Bid, BidStatuses, NoRow, Steps
  <2>2. InFlight /\ RecordedInFlight
    BY DEF InFlight, Remembered, RecordedInFlight, Recorded
  <2>3. Rows = {}
    BY DEF Rows, HasRow, NoRow
  <2>4. PriceInv
    BY <2>3
    DEF PriceInv, AmountWithinCap, HistoryKeepsOriginal, FlagFromOriginal
  <2>5. DeadlineAccounted /\ AwardPointsToWinner /\ PublishedIsRecorded
    BY DEF DeadlineAccounted, SnipeLimit, AwardPointsToWinner,
           PublishedIsRecorded
  <2>6. QED
    BY <2>1, <2>2, <2>4, <2>5 DEF IInv
<1>2. IInv /\ [Next]_vars => IInv'
  BY TypeStep, InFlightStep, PriceStep, DeadlineStep, AwardStep, PublishStep
  DEF IInv
<1>3. QED
  BY <1>1, <1>2, PTL DEF Spec

(* Every column and every local of a handler keeps its type in every        *)
(* interleaving: in particular bid_count never becomes negative.            *)
THEOREM TypeCorrect == Spec => []TypeOK
<1>1. IInv => TypeOK
  BY DEF IInv
<1>2. QED
  BY <1>1, Invariance, PTL

(* Whatever updates of place_bid, update_bid and accept_offer_price run     *)
(* over each other, a bid stays between one cent and its first amount,      *)
(* which was within the job's cap; the first amount stays in the history    *)
(* and the offer flag stays truthful.                                       *)
THEOREM PricesSafe ==
    Spec => [](AmountWithinCap /\ HistoryKeepsOriginal /\ OfferFlagHonest)
<1>1. IInv => AmountWithinCap /\ HistoryKeepsOriginal /\ OfferFlagHonest
  <2> SUFFICES ASSUME IInv PROVE OfferFlagHonest
    BY DEF IInv, PriceInv
  <2> SUFFICES ASSUME NEW p \in Rows, bids[p].offer
               PROVE  bids[p].amount <= OfferPrice
    BY DEF OfferFlagHonest
  <2>1. bids[p].amount \in 1..bids[p].original /\ bids[p].original <= OfferPrice
    BY DEF IInv, PriceInv, AmountWithinCap, FlagFromOriginal
  <2>2. bids[p].original \in Nat /\ OfferPrice \in Nat
    BY ConstantsAssumption DEF IInv, TypeOK, Bid, Rows
  <2>3. QED
    BY <2>1, <2>2
<1>2. QED
  BY <1>1, Invariance, PTL

(* A bid shown as meeting the offer price meets it: updates only lower what *)
(* was flagged.                                                             *)
THEOREM OfferFlagSafe == Spec => []OfferFlagHonest
<1>1. AmountWithinCap /\ HistoryKeepsOriginal /\ OfferFlagHonest => OfferFlagHonest
  OBVIOUS
<1>2. QED
  BY <1>1, PricesSafe, PTL

(* However many updates of a bid run over each other, its history keeps the *)
(* amount it was placed at.                                                 *)
THEOREM HistorySafe == Spec => []HistoryKeepsOriginal
<1>1. IInv => HistoryKeepsOriginal
  BY DEF IInv, PriceInv
<1>2. QED
  BY <1>1, Invariance, PTL

(* The anti-snipe rule extends an auction at most three times, by five      *)
(* minutes each, for any number of concurrent updates.                      *)
THEOREM DeadlineSafe == Spec => []DeadlineAccounted
<1>1. IInv => DeadlineAccounted
  BY DEF IInv
<1>2. QED
  BY <1>1, Invariance, PTL

(* The bid a job names as its winner was awarded, and neither the deadline  *)
(* sweep nor another award takes that from it.                              *)
THEOREM WinnerSafe == Spec => []AwardPointsToWinner
<1>1. IInv => AwardPointsToWinner
  BY DEF IInv
<1>2. QED
  BY <1>1, Invariance, PTL

(* Spectators never hear of an event that is not in the log.                *)
THEOREM PublishSafe == Spec => []PublishedIsRecorded
<1>1. IInv => PublishedIsRecorded
  BY DEF IInv
<1>2. QED
  BY <1>1, Invariance, PTL

(* No interleaving of handlers, sweep and job service brings a bid back or  *)
(* replaces its row: statuses only move forward and withdrawn is final.     *)
THEOREM BidsOnlyMoveForward == Spec => NoComeback
<1>1. IInv /\ [Next]_vars => [\A p \in Providers : RowForward(p)]_vars
  <2> SUFFICES ASSUME IInv, [Next]_vars, NEW q \in Providers
               PROVE  RowForward(q)
    OBVIOUS
  <2> USE ConstantsAssumption
      DEF IInv, TypeOK, vars, dbVars, jobVars, reqVars
  <2>1. ASSUME NEW h \in Handlers, PlaceTx(h) PROVE RowForward(q)
    BY <2>1
    DEF PlaceTx, CanInsert, Inserted, Extend, Advance, Finish,
        Goto, Event, RowForward, HasRow
  <2>2. ASSUME NEW h \in Handlers, AlreadyBid(h) PROVE RowForward(q)
    BY <2>2
    DEF AlreadyBid, Finish, Goto, RowForward, HasRow
  <2>3. ASSUME NEW h \in Handlers, UpdateWrite(h) PROVE RowForward(q)
    BY <2>3
    DEF UpdateWrite, Lowered, Advance, Finish, Goto, RowForward, HasRow, Bid
  <2>4. ASSUME NEW h \in Handlers, UpdateEvent(h) PROVE RowForward(q)
    BY <2>4
    DEF UpdateEvent, Advance, Goto, Event, RowForward, HasRow
  <2>5. ASSUME NEW h \in Handlers, SnipeCheck(h) PROVE RowForward(q)
    BY <2>5
    DEF SnipeCheck, Advance, Goto, RowForward, HasRow
  <2>6. ASSUME NEW h \in Handlers, SnipeExtend(h) PROVE RowForward(q)
    BY <2>6
    DEF SnipeExtend, Extend, Advance, Goto, RowForward, HasRow
  <2>7. ASSUME NEW h \in Handlers, SnipeRefused(h) PROVE RowForward(q)
    BY <2>7
    DEF SnipeRefused, Finish, Goto, RowForward, HasRow
  <2>8. ASSUME NEW h \in Handlers, WithdrawWrite(h) PROVE RowForward(q)
    BY <2>8
    DEF WithdrawWrite, Goto, RowForward, HasRow, Bid, InFlight, Remembered,
        Tasks
  <2>9. ASSUME NEW h \in Handlers, WithdrawCount(h) PROVE RowForward(q)
    BY <2>9
    DEF WithdrawCount, Decremented, Advance, Finish, Goto, RowForward, HasRow
  <2>10. ASSUME NEW h \in Handlers, WithdrawEvent(h) PROVE RowForward(q)
    BY <2>10
    DEF WithdrawEvent, Advance, Goto, Event, RowForward, HasRow
  <2>11. ASSUME NEW h \in Handlers, OfferInsert(h) PROVE RowForward(q)
    BY <2>11
    DEF OfferInsert, CanInsert, Inserted, Advance, Goto, RowForward, HasRow
  <2>12. ASSUME NEW h \in Handlers, OfferCount(h) PROVE RowForward(q)
    BY <2>12
    DEF OfferCount, Finish, Goto, RowForward, HasRow
  <2>13. ASSUME NEW h \in Handlers, Publish(h) PROVE RowForward(q)
    BY <2>13
    DEF Publish, Published, Finish, Goto, Event, RowForward, HasRow
  <2>14. ASSUME NEW h \in Handlers, NEW p \in Providers, NEW a \in Amounts,
             PlaceRead(h, p, a)
        PROVE RowForward(q)
    BY <2>14
    DEF PlaceRead, Start, Goto, RowForward, HasRow
  <2>15. ASSUME NEW h \in Handlers, NEW p \in Providers, NEW a \in Amounts,
             UpdateRead(h, p, a)
        PROVE RowForward(q)
    BY <2>15
    DEF UpdateRead, MayLower, Start, Goto, RowForward, HasRow
  <2>16. ASSUME NEW h \in Handlers, NEW p \in Providers, WithdrawRead(h, p)
        PROVE RowForward(q)
    BY <2>16
    DEF WithdrawRead, Start, Goto, RowForward, HasRow
  <2>17. ASSUME NEW h \in Handlers, NEW p \in Providers, OfferRead(h, p)
        PROVE RowForward(q)
    BY <2>17
    DEF OfferRead, Start, Goto, RowForward, HasRow
  <2>18. ASSUME NEW h \in Handlers, NEW p \in Providers, Award(h, p)
        PROVE RowForward(q)
    BY <2>18
    DEF Award, Awarded, RowForward, HasRow, Bid
  <2>19. ASSUME NEW h \in Tasks, Abort(h) PROVE RowForward(q)
    BY <2>19
    DEF Abort, Finish, Goto, RowForward, HasRow
  <2>20. CASE Sweep
    BY <2>20
    DEF Sweep, Start, Goto, RowForward, HasRow
  <2>21. CASE ExpireBids
    BY <2>21
    DEF ExpireBids, Expired, Goto, RowForward, HasRow, Bid
  <2>22. CASE ExpireJob
    BY <2>22
    DEF ExpireJob, Finish, Goto, RowForward, HasRow
  <2>23. CASE CloseAuction \/ CancelJob \/ AdminSuspendJob \/ AdminRemoveJob
    BY <2>23
    DEF CloseAuction, CancelJob, AdminSuspendJob, AdminRemoveJob, SetJobStatus,
        RowForward, HasRow
  <2>24. CASE Tick
    BY <2>24
    DEF Tick, RowForward, HasRow
  <2>25. CASE UNCHANGED vars
    BY <2>25
    DEF RowForward, HasRow
  <2>26. QED
    BY <2>1, <2>2, <2>3, <2>4, <2>5, <2>6, <2>7, <2>8, <2>9, <2>10, <2>11,
       <2>12, <2>13, <2>14, <2>15, <2>16, <2>17, <2>18, <2>19, <2>20, <2>21,
       <2>22, <2>23, <2>24, <2>25
    DEF Next, HandlerStep, Request, Tasks
<1>2. QED
  BY <1>1, Invariance, PTL DEF Spec, NoComeback
=============================================================================
