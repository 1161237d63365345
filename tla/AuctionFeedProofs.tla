-------------------------- MODULE AuctionFeedProofs --------------------------
(***************************************************************************)
(* AuctionFeed: the folds over the events agree on the lowest price, and   *)
(* a quiet arena shows the engine's book, for any number of providers,     *)
(* amounts, events and reconnections.                                      *)
(***************************************************************************)
EXTENDS AuctionFeed, TLAPS

(***************************************************************************)
(* The lowest price.                                                       *)
(***************************************************************************)
Events == [type : Priced \cup {"bid_withdrawn"}, amount : Nat \ {0}]
Store == [events : Seq(Events), currentLowest : Nat,
          priceHistory : Seq([amount : Nat, running_min : Nat])]

\* The amounts of all events, and of those with a price.
Amts(es) == {es[i].amount : i \in DOMAIN es}
Prices(es) == {es[i].amount : i \in {j \in DOMAIN es : es[j].type \in Priced}}

\* The amount is the smallest of the set.
IsLeast(m, S) == m \in S /\ \A b \in S : m <= b

\* The three folds keep the same minimum, and there is a least amount as soon as
\* there is an event.
FoldsAgree(s) ==
  /\ IF s.currentLowest = 0 THEN Prices(s.events) = {} /\ s.priceHistory = <<>>
     ELSE /\ IsLeast(s.currentLowest, Prices(s.events))
          /\ s.priceHistory # <<>>
          /\ Latest(s.priceHistory).running_min = s.currentLowest
  /\ Amts(s.events) # {} => \E m \in Nat : IsLeast(m, Amts(s.events))

FeedInv ==
  /\ book \in [Providers -> {0} \cup Amounts]
  /\ pipe \in Seq(Events)
  /\ seen \in Store
  /\ FoldsAgree(seen)

\* Least picks the smallest number of a set that has one.
LEMMA LeastIs ==
  ASSUME NEW S \in SUBSET Nat, NEW m \in Nat, IsLeast(m, S)
  PROVE  Least(S) = m
<1>1. S # {}
  BY DEF IsLeast
<1>2. PICK a \in S : a = (CHOOSE x \in S : \A b \in S : x <= b) /\ \A b \in S : a <= b
  BY DEF IsLeast
<1>3. a = m
  BY <1>2 DEF IsLeast
<1>4. QED
  BY <1>1, <1>2, <1>3 DEF Least

\* The smaller of two numbers.
LEMMA LeastOfTwo ==
  ASSUME NEW a \in Nat, NEW b \in Nat
  PROVE  Least({a, b}) = IF a <= b THEN a ELSE b
<1>1. CASE a <= b
  BY <1>1, LeastIs, IsLeast(a, {a, b}) DEF IsLeast
<1>2. CASE ~(a <= b)
  BY <1>2, LeastIs, IsLeast(b, {a, b}) DEF IsLeast
<1>3. QED
  BY <1>1, <1>2

\* What is in a stream.
LEMMA InStream ==
  ASSUME NEW es \in Seq(Events)
  PROVE  /\ Amts(es) \subseteq Nat \ {0} /\ Prices(es) \subseteq Amts(es)
         /\ \A j \in DOMAIN es : es[j].type # "bid_withdrawn" <=> es[j].type \in Priced
<1>1. \A j \in DOMAIN es : es[j] \in Events
  OBVIOUS
<1>2. \A j \in DOMAIN es : es[j].amount \in Nat \ {0} /\
                          es[j].type \in Priced \cup {"bid_withdrawn"}
  BY <1>1 DEF Events
<1>3. QED
  BY <1>2 DEF Amts, Prices, Priced

\* One more event adds its amount, and to the prices if it has one.
LEMMA OneMore ==
  ASSUME NEW es \in Seq(Events), NEW e \in Events
  PROVE  /\ Amts(Append(es, e)) = Amts(es) \cup {e.amount}
         /\ Prices(Append(es, e)) =
              Prices(es) \cup (IF e.type \in Priced THEN {e.amount} ELSE {})
<1> DEFINE fs == Append(es, e)
<1>1. /\ fs \in Seq(Events) /\ DOMAIN fs = DOMAIN es \cup {Len(es) + 1}
      /\ DOMAIN es = 1 .. Len(es) /\ Len(es) \in Nat
      /\ \A i \in DOMAIN es : fs[i] = es[i]
      /\ fs[Len(es) + 1] = e
  OBVIOUS
<1> HIDE DEF fs
<1>2. Amts(fs) = Amts(es) \cup {e.amount}
  BY <1>1 DEF Amts
<1>3. Prices(fs) = Prices(es) \cup (IF e.type \in Priced THEN {e.amount} ELSE {})
  BY <1>1 DEF Prices
<1>4. QED
  BY <1>2, <1>3 DEF fs

\* The store folds one more event.
LEMMA FoldsStep ==
  ASSUME NEW s \in Store, NEW e \in Events, FoldsAgree(s)
  PROVE  AddBidEvent(s, e) \in Store /\ FoldsAgree(AddBidEvent(s, e))
<1> DEFINE t == AddBidEvent(s, e)
           low == s.currentLowest
           h == s.priceHistory
           P == Prices(s.events)
           A == Amts(s.events)
<1>1. /\ low \in Nat /\ e.amount \in Nat \ {0} /\ s.events \in Seq(Events)
      /\ h \in Seq([amount : Nat, running_min : Nat])
      /\ P \subseteq Nat /\ A \subseteq Nat
  <2>1. low \in Nat /\ s.events \in Seq(Events) /\ h \in Seq([amount : Nat, running_min : Nat])
    BY DEF Store
  <2>2. QED
    BY <2>1, InStream DEF Events
<1>2. /\ IF low = 0 THEN P = {} /\ h = <<>>
         ELSE IsLeast(low, P) /\ h # <<>> /\ Latest(h).running_min = low
      /\ A # {} => \E m \in Nat : IsLeast(m, A)
  BY DEF FoldsAgree
<1>3. /\ t.events = Append(s.events, e)
      /\ t.currentLowest = IF e.type = "bid_withdrawn" THEN low
                           ELSE IF low = 0 THEN e.amount
                           ELSE Least({low, e.amount})
      /\ t.priceHistory = Chart(h, e)
      /\ t = [events |-> t.events, currentLowest |-> t.currentLowest,
              priceHistory |-> t.priceHistory]
  BY DEF AddBidEvent
<1>4. /\ Amts(t.events) = A \cup {e.amount}
      /\ Prices(t.events) = P \cup (IF e.type \in Priced THEN {e.amount} ELSE {})
      /\ t.events \in Seq(Events)
  BY <1>1, <1>3, OneMore
<1>5. Least({low, e.amount}) = IF low <= e.amount THEN low ELSE e.amount
  BY <1>1, LeastOfTwo
<1>6. \E m \in Nat : IsLeast(m, Amts(t.events))
  <2>1. CASE A = {}
    BY <1>1, <1>4, <2>1 DEF IsLeast
  <2>2. CASE A # {}
    <3>1. PICK m \in Nat : IsLeast(m, A)
      BY <1>2, <2>2
    <3>2. IsLeast(IF m <= e.amount THEN m ELSE e.amount, A \cup {e.amount})
      BY <1>1, <3>1 DEF IsLeast
    <3>3. QED
      BY <1>1, <1>4, <3>2
  <2>3. QED
    BY <2>1, <2>2
<1>7. CASE e.type = "bid_withdrawn"
  <2>1. /\ t.currentLowest = low /\ t.priceHistory = h /\ Prices(t.events) = P
    BY <1>3, <1>4, <1>7 DEF Chart, Priced
  <2> HIDE DEF t, low, h, P
  <2>2. FoldsAgree(t)
    BY <1>2, <1>6, <2>1 DEF FoldsAgree
  <2>3. t \in Store
    BY <1>1, <1>3, <1>4, <2>1 DEF Store
  <2>4. QED
    BY <2>2, <2>3 DEF t
<1>8. CASE e.type \in Priced
  <2> DEFINE m == IF low = 0 THEN e.amount ELSE IF low <= e.amount THEN low ELSE e.amount
             pt == [amount |-> e.amount, running_min |-> m]
  <2>1. t.currentLowest = m /\ m \in Nat \ {0}
    BY <1>1, <1>3, <1>5, <1>8 DEF Priced
  <2>2. t.priceHistory = Append(h, pt)
    <3>1. h = <<>> <=> low = 0
      BY <1>2
    <3>2. (IF h = <<>> THEN e.amount ELSE Least({Latest(h).running_min, e.amount})) = m
      BY <1>2, <1>5, <3>1
    <3>3. QED
      BY <1>3, <1>8, <3>2 DEF Chart
  <2>3. /\ t.priceHistory \in Seq([amount : Nat, running_min : Nat])
        /\ t.priceHistory # <<>> /\ Latest(t.priceHistory).running_min = m
    <3>1. pt \in [amount : Nat, running_min : Nat] /\ pt.running_min = m
      BY <1>1, <2>1
    <3> HIDE DEF pt, m
    <3>2. Len(Append(h, pt)) = Len(h) + 1 /\ Append(h, pt)[Len(h) + 1] = pt /\ Append(h, pt) # <<>>
      BY <1>1, <3>1
    <3>3. QED
      BY <1>1, <2>2, <3>1, <3>2 DEF Latest
  <2>4. Prices(t.events) = P \cup {e.amount}
    BY <1>4, <1>8
  <2>5. IsLeast(m, Prices(t.events))
    BY <1>1, <1>2, <2>4 DEF IsLeast
  <2> HIDE DEF t, m
  <2>6. FoldsAgree(t)
    BY <1>6, <2>1, <2>3, <2>5 DEF FoldsAgree
  <2>7. t \in Store
    BY <1>3, <1>4, <2>1, <2>3 DEF Store
  <2>8. QED
    BY <2>6, <2>7 DEF t
<1>9. QED
  BY <1>7, <1>8 DEF Events

\* What happened so far is known to both folds; an empty store agrees with itself.
LEMMA FeedInvHolds == Spec => []FeedInv
<1>1. EmptyStore \in Store /\ FoldsAgree(EmptyStore)
  BY DEF EmptyStore, Store, FoldsAgree, Prices, Amts
<1>2. Init => FeedInv
  BY <1>1 DEF Init, FeedInv
<1>3. FeedInv /\ [Next]_feedVars => FeedInv'
  <2> SUFFICES ASSUME FeedInv, [Next]_feedVars PROVE FeedInv'
    OBVIOUS
  <2> USE DEF FeedInv, engineVars, viewVars
  <2>1. ASSUME NEW p \in Providers, NEW a \in Amounts \cup {0}, BidEvent(p, a)
        PROVE  FeedInv'
    <3>1. book[p] \in {0} \cup Amounts /\ book' \in [Providers -> {0} \cup Amounts]
      BY <2>1 DEF BidEvent
    <3>2. EventOf(book[p], a) \in Events
      BY <2>1, <3>1, FeedConstants DEF BidEvent, EventOf, Events, Priced
    <3>3. pipe' \in Seq(Events)
      <4>1. Append(pipe, EventOf(book[p], a)) \in Seq(Events)
        BY <3>2
      <4>2. QED
        BY <2>1, <4>1 DEF BidEvent
    <3>4. QED
      BY <2>1, <3>1, <3>3 DEF BidEvent
  <2>2. CASE HandleMessage
    <3>1. Head(pipe) \in Events /\ Tail(pipe) \in Seq(Events)
      BY <2>2 DEF HandleMessage
    <3>2. AddBidEvent(seen, Head(pipe)) \in Store /\ FoldsAgree(AddBidEvent(seen, Head(pipe)))
      BY <3>1, FoldsStep
    <3>3. QED
      BY <2>2, <3>1, <3>2 DEF HandleMessage
  <2>3. CASE Mount
    BY <1>1, <2>3 DEF Mount
  <2>4. CASE Unmount \/ TokenReplaced
    <3>1. seen' = EmptyStore /\ pipe' = <<>> /\ UNCHANGED book
      BY <2>4 DEF Unmount, TokenReplaced
    <3>2. QED
      BY <1>1, <3>1
  <2>5. CASE OnClose
    BY <2>5 DEF OnClose
  <2>6. CASE EndAuction \/ ConnectFires \/ OnOpen \/ ReconnectFires
    BY <2>6 DEF EndAuction, ConnectFires, OnOpen, ReconnectFires
  <2>7. CASE ThrottleElapses \/ RestRead \/ RestReply \/ Poll \/ Celebrate \/ CloseCelebration
    BY <2>7 DEF ThrottleElapses, RestRead, RestReply, Poll, Celebrate, CloseCelebration
  <2>8. CASE UNCHANGED feedVars
    BY <2>8 DEF feedVars
  <2>9. QED
    BY <2>1, <2>2, <2>3, <2>4, <2>5, <2>6, <2>7, <2>8 DEF Next
<1>4. QED
  BY <1>2, <1>3, PTL DEF Spec

\* The arena's lowest price, its chart, its activity list, the spectator's stream and
\* the terminal agree after any deliveries, losses and remounts.
THEOREM LowestIsAgreed == Spec => []LowestAgrees
<1>1. FeedInv => LowestAgrees
  <2> SUFFICES ASSUME FeedInv PROVE LowestAgrees
    OBVIOUS
  <2> DEFINE low == seen.currentLowest
             es == seen.events
  <2>1. /\ es \in Seq(Events) /\ low \in Nat
        /\ Prices(es) \subseteq Nat /\ Amts(es) \subseteq Nat /\ Prices(es) \subseteq Amts(es)
    <3>1. es \in Seq(Events) /\ low \in Nat
      BY DEF FeedInv, Store
    <3>2. QED
      BY <3>1, InStream
  <2>2. /\ IF low = 0 THEN Prices(es) = {} /\ seen.priceHistory = <<>>
           ELSE IsLeast(low, Prices(es)) /\ Latest(seen.priceHistory).running_min = low
        /\ Amts(es) # {} => \E m \in Nat : IsLeast(m, Amts(es))
    BY DEF FeedInv, FoldsAgree
  <2>3. Least(Prices(es)) = low
    <3>1. CASE low = 0
      BY <2>2, <3>1 DEF Least
    <3>2. CASE low # 0
      BY <2>1, <2>2, <3>2, LeastIs
    <3>3. QED
      BY <3>1, <3>2
  <2>4. /\ PriceAmounts = Prices(es)
        /\ PriceEvents = {} => low = 0
        /\ \A i \in PriceEvents : es[i].amount \in Prices(es)
    <3>1. PriceAmounts = Prices(es) /\ \A i \in PriceEvents : es[i].amount \in Prices(es)
      BY DEF PriceAmounts, PriceEvents, Prices
    <3>2. PriceEvents = {} => Prices(es) = {}
      BY DEF PriceEvents, Prices
    <3>3. QED
      BY <2>2, <3>1, <3>2 DEF IsLeast
  <2>5. {es[i].amount : i \in {j \in DOMAIN es : es[j].type # "bid_withdrawn"}} = Prices(es)
    <3>1. \A j \in DOMAIN es : es[j].type # "bid_withdrawn" <=> es[j].type \in Priced
      BY <2>1, InStream
    <3>2. QED
      BY <3>1 DEF Prices
  <2>6. SpectatorStream(es).currentLowest = low
    BY <2>3, <2>5 DEF SpectatorStream
  <2>7. AuctionTerminal.currentLowest = low
    BY <2>3, <2>4 DEF AuctionTerminal
  <2>8. seen.priceHistory # <<>> => Latest(seen.priceHistory).running_min = low
    BY <2>2
  <2>9. \A i \in DOMAIN BidActivities :
          BidActivities[i].isLowest => BidActivities[i].amount = low
    BY <2>3, <2>4 DEF BidActivities
  <2>10. low # 0 => SpectatorTerminal(es).currentLowest <= low
    <3> SUFFICES ASSUME low # 0 PROVE SpectatorTerminal(es).currentLowest <= low
      OBVIOUS
    <3>1. low \in Amts(es)
      BY <2>1, <2>2 DEF IsLeast
    <3>2. PICK m \in Nat : IsLeast(m, Amts(es))
      BY <2>2, <3>1
    <3>3. Least(Amts(es)) = m /\ m <= low
      BY <2>1, <3>1, <3>2, LeastIs DEF IsLeast
    <3>4. QED
      BY <3>3 DEF SpectatorTerminal, Amts
  <2>11. QED
    BY <2>6, <2>7, <2>8, <2>9, <2>10 DEF LowestAgrees
<1>2. QED
  BY <1>1, FeedInvHolds, PTL

(***************************************************************************)
(* The order book.                                                         *)
(***************************************************************************)
Fetches == {"idle", "asked", "read"}

\* While no event was missed, the arena is mounted once at most and its load of the
\* list is under way or done; and what the book has that the list has not is still
\* on its way: in the socket, in the throttle or in a read that is asked for.
BookInv ==
  /\ rest \in [data : {"none", "some"}, fetch : Fetches, snap : [Providers -> {0} \cup Amounts]]
  /\ throttle \in [cool : BOOLEAN, pending : BOOLEAN]
  /\ ~missed =>
       IF open THEN rest.data = "some" \/ rest.fetch # "idle"
       ELSE rest.data = "none" /\ rest.fetch = "idle"
  /\ open /\ ~missed /\ ~raced =>
       \/ pipe # <<>>
       \/ throttle.pending
       \/ rest.fetch = "asked"
       \/ rest.snap = book

\* The invalidation of a step leaves the list asked for, unless it met the first load.
LEMMA Invalidated ==
  ASSUME BookInv, InvalidateQueries
  PROVE  /\ rest' \in [data : {"none", "some"}, fetch : Fetches,
                       snap : [Providers -> {0} \cup Amounts]]
         /\ rest'.data = rest.data
         /\ IF rest.data = "none" THEN rest'.fetch = rest.fetch ELSE rest'.fetch = "asked"
         /\ rest.data = "none" /\ rest.fetch # "idle" => raced'
  BY DEF BookInv, InvalidateQueries, Fetches

\* What the user is shown is the engine's book once nothing is on its way.
THEOREM BookIsCurrent == Spec => []BookCurrent
<1>1. Init => BookInv
  BY DEF Init, BookInv, NoData, NoBids, Fetches
<1>2. FeedInv /\ BookInv /\ [Next]_feedVars => BookInv'
  <2> SUFFICES ASSUME FeedInv, BookInv, [Next]_feedVars PROVE BookInv'
    OBVIOUS
  <2> USE DEF engineVars, viewVars
  <2>1. ASSUME NEW p \in Providers, NEW a \in Amounts \cup {0}, BidEvent(p, a)
        PROVE  BookInv'
    <3>1. CASE feed.ws = "open"
      BY <2>1, <3>1 DEF BidEvent, BookInv, FeedInv
    <3>2. CASE feed.ws # "open"
      BY <2>1, <3>2 DEF BidEvent, BookInv
    <3>3. QED
      BY <3>1, <3>2
  <2>2. CASE HandleMessage
    <3>1. CASE throttle.cool
      BY <2>2, <3>1 DEF HandleMessage, ThrottledInvalidate, BookInv
    <3>2. CASE ~throttle.cool
      <4>1. InvalidateQueries /\ UNCHANGED <<open, missed>>
        BY <2>2, <3>2 DEF HandleMessage, ThrottledInvalidate
      <4>2. throttle' \in [cool : BOOLEAN, pending : BOOLEAN]
        BY <2>2, <3>2 DEF HandleMessage, ThrottledInvalidate, BookInv
      <4>3. QED
        BY <4>1, <4>2, Invalidated DEF BookInv, Fetches
    <3>3. QED
      BY <3>1, <3>2
  <2>3. CASE ThrottleElapses
    <3>1. CASE throttle.pending
      <4>1. InvalidateQueries /\ UNCHANGED <<open, missed>>
        BY <2>3, <3>1 DEF ThrottleElapses
      <4>2. throttle' \in [cool : BOOLEAN, pending : BOOLEAN]
        BY <2>3, <3>1 DEF ThrottleElapses, BookInv
      <4>3. QED
        BY <4>1, <4>2, Invalidated DEF BookInv, Fetches
    <3>2. CASE ~throttle.pending
      BY <2>3, <3>2 DEF ThrottleElapses, BookInv
    <3>3. QED
      BY <3>1, <3>2
  <2>4. CASE Mount
    BY <2>4 DEF Mount, Load, BookInv, Fetches
  <2>5. CASE Unmount \/ TokenReplaced
    BY <2>5 DEF Unmount, TokenReplaced, BookInv
  <2>6. CASE OnClose
    BY <2>6 DEF OnClose, BookInv
  <2>7. CASE RestRead
    BY <2>7 DEF RestRead, BookInv, FeedInv, Fetches
  <2>8. CASE RestReply
    BY <2>8 DEF RestReply, BookInv, Fetches
  <2>9. CASE EndAuction \/ ConnectFires \/ OnOpen \/ ReconnectFires
    <3>1. UNCHANGED <<book, pipe, open, rest, throttle, missed, raced>>
      BY <2>9 DEF EndAuction, ConnectFires, OnOpen, ReconnectFires
    <3>2. QED
      BY <3>1 DEF BookInv
  <2>10. CASE Poll \/ Celebrate \/ CloseCelebration
    BY <2>10 DEF Poll, Celebrate, CloseCelebration, BookInv
  <2>11. CASE UNCHANGED feedVars
    BY <2>11 DEF feedVars, BookInv
  <2>12. QED
    BY <2>1, <2>2, <2>3, <2>4, <2>5, <2>6, <2>7, <2>8, <2>9, <2>10, <2>11 DEF Next
<1>3. BookInv => BookCurrent
  BY DEF BookInv, BookCurrent
<1>4. QED
  BY <1>1, <1>2, <1>3, FeedInvHolds, PTL DEF Spec
=============================================================================
