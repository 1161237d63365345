--------------------------- MODULE ChatSocketProofs ---------------------------
(***************************************************************************)
(* ChatSocket: what the page shows is subscribed, a disconnect is final,   *)
(* and typing marks have timers, for any number of channels, sockets and   *)
(* queued messages.                                                        *)
(***************************************************************************)
EXTENDS ChatSocket, TLAPS

States == {"gone", "connecting", "open", "closing"}

Messages == [type : {"subscribe", "unsubscribe", "typing"}, channel : Channels]

\* A disconnect leaves nothing behind that could open a socket; what arrives later
\* does not either.
LEMMA QuietInv ==
  ASSUME QuietAfterDisconnect, [ChatNext]_chatVars
  PROVE  QuietAfterDisconnect'
<1> USE DEF QuietAfterDisconnect, managerVars, storeVars
<1>1. ASSUME Connect, UNCHANGED cur, ~reconnectTimer'
             \/ UNCHANGED reconnectTimer
      PROVE  QuietAfterDisconnect'
  BY <1>1 DEF Connect, Live
<1>2. CASE Mount
  BY <1>1, <1>2 DEF Mount, Disconnect, TearDown
<1>3. CASE Unmount
  BY <1>3 DEF Unmount, Disconnect, TearDown
<1>4. CASE AuthChange
  BY <1>4 DEF AuthChange
<1>5. CASE AuthEffect
  BY <1>1, <1>5 DEF AuthEffect, Restart, Disconnect, TearDown
<1>6. CASE OpenSocket
  BY <1>6 DEF OpenSocket
<1>7. CASE ReconnectFires
  BY <1>1, <1>7 DEF ReconnectFires
<1>8. CASE \E s \in Sockets : OnOpen(s) \/ OnClose(s)
  BY <1>8 DEF OnOpen, OnClose, ScheduleReconnect
<1>9. CASE (\E c \in Channels \cup {None} : SetActiveChannel(c)) \/ SendTyping
  BY <1>9 DEF SetActiveChannel, SendTyping
<1>10. CASE \E c \in Channels : PeerTyping(c) \/ TypingTimeout(c)
  BY <1>10 DEF PeerTyping, TypingTimeout
<1>11. CASE UNCHANGED chatVars
  BY <1>11 DEF chatVars
<1>12. QED
  BY <1>2, <1>3, <1>4, <1>5, <1>6, <1>7, <1>8, <1>9, <1>10, <1>11 DEF ChatNext

\* After a disconnect nothing of the manager can open a socket by itself.
THEOREM QuietAfterDisconnectHolds == Spec => []QuietAfterDisconnect
<1>1. ChatInit => QuietAfterDisconnect
  BY DEF ChatInit, QuietAfterDisconnect
<1>2. QED
  BY <1>1, QuietInv, PTL DEF Spec

(***************************************************************************)
(* Typing marks.                                                           *)
(***************************************************************************)
\* A peer shown typing has a timer the store can find, also across a disconnect,
\* which forgets the timers and the marks together.
THEOREM TypingHasTimerHolds == Spec => []TypingHasTimer
<1> USE DEF TypingHasTimer, storeVars
<1>1. ChatInit => TypingHasTimer
  BY DEF ChatInit
<1>2. TypingHasTimer /\ [ChatNext]_chatVars => TypingHasTimer'
  <2> SUFFICES ASSUME TypingHasTimer, [ChatNext]_chatVars
               PROVE  TypingHasTimer'
    OBVIOUS
  <2>1. CASE Mount \/ Unmount \/ AuthChange \/ AuthEffect
    BY <2>1 DEF Mount, Unmount, AuthChange, AuthEffect, Restart, Disconnect, TearDown
  <2>2. CASE OpenSocket \/ ReconnectFires
    BY <2>2 DEF OpenSocket, ReconnectFires
  <2>3. CASE \E s \in Sockets : OnOpen(s) \/ OnClose(s)
    BY <2>3 DEF OnOpen, OnClose
  <2>4. CASE (\E c \in Channels \cup {None} : SetActiveChannel(c)) \/ SendTyping
    BY <2>4 DEF SetActiveChannel, SendTyping
  <2>5. CASE \E c \in Channels : PeerTyping(c) \/ TypingTimeout(c)
    BY <2>5 DEF PeerTyping, TypingTimeout
  <2>6. CASE UNCHANGED chatVars
    BY <2>6 DEF chatVars
  <2>7. QED
    BY <2>1, <2>2, <2>3, <2>4, <2>5, <2>6 DEF ChatNext
<1>3. QED
  BY <1>1, <1>2, PTL DEF Spec

(***************************************************************************)
(* Subscriptions.                                                          *)
(***************************************************************************)
\* The server serves two runs of messages as it serves one after the other.
LEMMA ServeConcat ==
  ASSUME NEW set, NEW q \in Seq(Messages), NEW m \in Seq(Messages)
  PROVE  Serve(set, q \o m) = Serve(Serve(set, q), m)
<1> DEFINE n == Len(q)
           r == q \o m
<1>1. /\ n \in Nat /\ Len(m) \in Nat /\ DOMAIN q = 1..n /\ DOMAIN m = 1..Len(m)
      /\ DOMAIN r = 1..(n + Len(m))
      /\ \A i \in DOMAIN q : i \in DOMAIN r /\ r[i] = q[i]
      /\ \A i \in DOMAIN m : n + i \in DOMAIN r /\ r[n + i] = m[i]
      /\ \A i \in DOMAIN r : i \in DOMAIN q \/ (i - n \in DOMAIN m /\ r[i] = m[i - n])
  OBVIOUS
<1>2. ASSUME NEW c \in Channels
      PROVE  c \in Serve(set, r) <=> c \in Serve(Serve(set, q), m)
  <2> DEFINE Quiet(x) == \A j \in DOMAIN x : x[j] # Unsub(c)
             Asked(x) == \E i \in DOMAIN x : /\ x[i] = Sub(c)
                                            /\ \A j \in DOMAIN x : j > i => x[j] # Unsub(c)
  <2>1. Quiet(r) <=> Quiet(q) /\ Quiet(m)
    BY <1>1
  <2>2. Asked(r) <=> Asked(m) \/ (Asked(q) /\ Quiet(m))
    <3>1. ASSUME Asked(m) PROVE Asked(r)
      <4>1. PICK i \in DOMAIN m : /\ m[i] = Sub(c)
                                 /\ \A j \in DOMAIN m : j > i => m[j] # Unsub(c)
        BY <3>1
      <4>2. n + i \in DOMAIN r /\ r[n + i] = Sub(c)
        BY <4>1, <1>1
      <4>3. ASSUME NEW j \in DOMAIN r, j > n + i PROVE r[j] # Unsub(c)
        <5>1. j - n \in DOMAIN m /\ j - n > i /\ r[j] = m[j - n]
          BY <4>3, <1>1
        <5>2. QED
          BY <5>1, <4>1
      <4>4. QED
        BY <4>2, <4>3
    <3>2. ASSUME Asked(q), Quiet(m) PROVE Asked(r)
      BY <3>2, <1>1
    <3>3. ASSUME Asked(r) PROVE Asked(m) \/ (Asked(q) /\ Quiet(m))
      <4>1. PICK i \in DOMAIN r : /\ r[i] = Sub(c)
                                 /\ \A j \in DOMAIN r : j > i => r[j] # Unsub(c)
        BY <3>3
      <4>2. CASE i \in DOMAIN q
        <5>1. q[i] = Sub(c)
          BY <4>1, <4>2, <1>1
        <5>2. ASSUME NEW j \in DOMAIN q, j > i PROVE q[j] # Unsub(c)
          <6>1. j \in DOMAIN r /\ r[j] = q[j]
            BY <1>1
          <6>2. QED
            BY <6>1, <5>2, <4>1
        <5>3. ASSUME NEW j \in DOMAIN m PROVE m[j] # Unsub(c)
          <6>1. n + j \in DOMAIN r /\ n + j > i /\ r[n + j] = m[j]
            BY <4>2, <1>1
          <6>2. QED
            BY <6>1, <4>1
        <5>4. QED
          BY <4>2, <5>1, <5>2, <5>3
      <4>3. CASE i \notin DOMAIN q
        <5>1. i - n \in DOMAIN m /\ m[i - n] = Sub(c)
          BY <4>1, <4>3, <1>1
        <5>2. ASSUME NEW j \in DOMAIN m, j > i - n PROVE m[j] # Unsub(c)
          <6>1. n + j \in DOMAIN r /\ n + j > i /\ r[n + j] = m[j]
            BY <5>2, <1>1
          <6>2. QED
            BY <6>1, <4>1
        <5>3. QED
          BY <5>1, <5>2
      <4>4. QED
        BY <4>2, <4>3
    <3>4. QED
      BY <3>1, <3>2, <3>3
  <2>3. \A s, x : c \in Serve(s, x) <=> (c \in s /\ Quiet(x)) \/ Asked(x)
    BY DEF Serve
  <2>4. QED
    BY <2>1, <2>2, <2>3
<1>3. QED
  BY <1>2 DEF Serve

\* The messages about subscriptions can be told apart.
LEMMA SubUnsub ==
  \A a, b : Sub(a) # Unsub(b) /\ (Sub(a) = Sub(b) => a = b) /\ (Unsub(a) = Unsub(b) => a = b)
<1>1. ASSUME NEW a, NEW b PROVE Sub(a) # Unsub(b)
  <2>1. Sub(a).type = "subscribe" /\ Unsub(b).type = "unsubscribe"
    BY DEF Sub, Unsub
  <2>2. QED
    BY <2>1
<1>2. ASSUME NEW a, NEW b, Sub(a) = Sub(b) \/ Unsub(a) = Unsub(b) PROVE a = b
  <2>1. Sub(a).channel = a /\ Sub(b).channel = b
    BY DEF Sub
  <2>2. Unsub(a).channel = a /\ Unsub(b).channel = b
    BY DEF Unsub
  <2>3. QED
    BY <1>2, <2>1, <2>2
<1>3. QED
  BY <1>1, <1>2

\* No message changes nothing.
LEMMA ServeNone ==
  ASSUME NEW set, set \subseteq Channels
  PROVE  Serve(set, <<>>) = set
  BY DEF Serve

\* What a single message does to the channels served.
LEMMA ServeOne ==
  ASSUME NEW set, set \subseteq Channels, NEW c \in Channels
  PROVE  /\ Serve(set, <<Sub(c)>>) = set \cup {c}
         /\ Serve(set, <<Unsub(c)>>) = set \ {c}
         /\ Serve(set, <<[type |-> "typing", channel |-> c]>>) = set
<1>2. ASSUME NEW m, DOMAIN m = {1}, NEW d \in Channels
      PROVE  d \in Serve(set, m) <=> (d \in set /\ m[1] # Unsub(d)) \/ m[1] = Sub(d)
  <2>1. (\A j \in DOMAIN m : m[j] # Unsub(d)) <=> m[1] # Unsub(d)
    BY <1>2
  <2>2. (\E i \in DOMAIN m : m[i] = Sub(d) /\ \A j \in DOMAIN m : j > i => m[j] # Unsub(d))
          <=> m[1] = Sub(d)
    BY <1>2
  <2>3. QED
    BY <2>1, <2>2 DEF Serve
<1>3. \A x : DOMAIN <<x>> = {1} /\ <<x>>[1] = x
  OBVIOUS
<1>4. \A m : Serve(set, m) \subseteq Channels
  BY DEF Serve
<1>5. \A x : \A d \in Channels :
        d \in Serve(set, <<x>>) <=> (d \in set /\ x # Unsub(d)) \/ x = Sub(d)
  BY <1>2, <1>3
<1>6. Serve(set, <<Sub(c)>>) = set \cup {c}
  BY <1>4, <1>5, SubUnsub
<1>7. Serve(set, <<Unsub(c)>>) = set \ {c}
  BY <1>4, <1>5, SubUnsub
<1>8. Serve(set, <<[type |-> "typing", channel |-> c]>>) = set
  <2>1. \A d : /\ [type |-> "typing", channel |-> c] # Sub(d)
              /\ [type |-> "typing", channel |-> c] # Unsub(d)
    BY DEF Sub, Unsub
  <2>2. QED
    BY <1>4, <1>5, <2>1
<1>9. QED
  BY <1>6, <1>7, <1>8

\* A channel left and a channel entered: whatever was served before, it is only the
\* channel entered that is served after.
LEMMA ServeSwitch ==
  ASSUME NEW old \in Channels \cup {None}, NEW c \in Channels \cup {None},
         NEW set, set \subseteq Channels \cap {old}
  PROVE  Serve(set, (IF old = None THEN <<>> ELSE <<Unsub(old)>>) \o
                    (IF c = None THEN <<>> ELSE <<Sub(c)>>)) = {c} \ {None}
<1> DEFINE first == IF old = None THEN <<>> ELSE <<Unsub(old)>>
           then == IF c = None THEN <<>> ELSE <<Sub(c)>>
<1>1. None \notin Channels
  BY ChatConstants
<1>2. first \in Seq(Messages) /\ then \in Seq(Messages)
  <2>1. \A d \in Channels : Sub(d) \in Messages /\ Unsub(d) \in Messages
    BY DEF Sub, Unsub, Messages
  <2>2. QED
    BY <2>1
<1>3. Serve(set, first) = {}
  <2>2. CASE old = None
    <3>1. set = {}
      BY <1>1, <2>2
    <3>2. Serve(set, <<>>) = {}
      BY <3>1, ServeNone
    <3>3. QED
      BY <3>2, <2>2
  <2>3. CASE old # None
    <3>1. Serve(set, <<Unsub(old)>>) = set \ {old}
      BY <2>3, ServeOne
    <3>2. QED
      BY <3>1, <2>3
  <2>4. QED
    BY <2>2, <2>3
<1>4. Serve({}, then) = {c} \ {None}
  <2>1. CASE c = None
    <3>1. Serve({}, <<>>) = {}
      BY ServeNone
    <3>2. QED
      BY <3>1, <2>1
  <2>2. CASE c # None
    <3>1. Serve({}, <<Sub(c)>>) = {} \cup {c}
      BY <2>2, ServeOne
    <3>2. QED
      BY <3>1, <2>2
  <2>3. QED
    BY <2>1, <2>2
<1>5. Serve(set, first \o then) = Serve(Serve(set, first), then)
  <2> HIDE DEF first, then
  <2>1. QED
    BY <1>2, ServeConcat
<1>6. QED
  BY <1>3, <1>4, <1>5

\* The connection the manager would use, and the channels served on it.
Base == IF cur = 0 THEN {} ELSE subs[cur]

\* What the server serves once the queue is flushed.
Served == Serve(Base, outboundQueue)

\* The inductive invariant: what is queued, served after what the current socket has
\* already, leaves the active channel alone subscribed.  It needs that a socket starts
\* with no subscriptions, and that an open current one leaves nothing queued.
IInv ==
  /\ socks \in [Sockets -> States]
  /\ cur \in Sockets \cup {0}
  /\ subs \in [Sockets -> SUBSET Channels]
  /\ outboundQueue \in Seq(Messages)
  /\ activeChannelId \in Channels \cup {None}
  /\ cur # 0 => socks[cur] \in {"connecting", "open"}
  /\ \A s \in Sockets : socks[s] \in {"gone", "connecting"} => subs[s] = {}
  /\ cur # 0 /\ socks[cur] = "open" => outboundQueue = <<>>
  /\ Served \subseteq {activeChannelId}
  /\ ~dropped => Served = {activeChannelId} \ {None}

connection == <<socks, cur, outboundQueue, subs>>

\* The states the invariant is about are left alone.
LEMMA Unmoved ==
  ASSUME IInv, UNCHANGED <<connection, activeChannelId, dropped>>
  PROVE  IInv'
  BY DEF IInv, connection, Served, Base

\* What the server serves are channels.
LEMMA ServeType == \A set, m : Serve(set, m) \subseteq Channels
  BY DEF Serve

\* A disconnect empties the queue and leaves no current socket.
LEMMA TearDownInv ==
  ASSUME IInv, TearDown
  PROVE  IInv'
<1> USE DEF IInv
<1>1. /\ socks' \in [Sockets -> States] /\ cur' = 0 /\ subs' = subs
      /\ activeChannelId' = activeChannelId /\ dropped' = TRUE
      /\ outboundQueue' = <<>> /\ outboundQueue' \in Seq(Messages)
  BY DEF TearDown, States
<1>2. \A s \in Sockets : socks'[s] \in {"gone", "connecting"} => subs'[s] = {}
  BY <1>1 DEF TearDown
<1>3. Served' = {}
  <2>1. Base' = {}
    BY <1>1 DEF Base
  <2>2. QED
    BY <1>1, <2>1, ServeNone DEF Served
<1>4. QED
  BY <1>1, <1>2, <1>3

\* Opening a socket changes nothing of what will be served.
LEMMA OpenSocketInv ==
  ASSUME IInv, OpenSocket
  PROVE  IInv'
<1>1. CASE intentionalClose \/ Live(cur) \/ auth # "in"
  <2>1. UNCHANGED <<connection, activeChannelId, dropped>>
    BY <1>1 DEF OpenSocket, connection, storeVars
  <2>2. QED
    BY <2>1, Unmoved
<1>2. CASE ~(intentionalClose \/ Live(cur) \/ auth # "in")
  <2>1. PICK s \in Sockets : /\ socks[s] = "gone"
                             /\ socks' = [socks EXCEPT ![s] = "connecting"]
                             /\ cur' = s
    BY <1>2 DEF OpenSocket
  <2>3. cur = 0
    BY <1>2 DEF Live, IInv
  <2>4. UNCHANGED <<outboundQueue, subs, activeChannelId, dropped>>
    BY DEF OpenSocket, storeVars
  <2>5. s # 0 /\ subs[s] = {}
    BY <2>1 DEF IInv, Sockets
  <2>6. Served' = Served
    BY <2>1, <2>3, <2>4, <2>5 DEF Served, Base
  <2>7. socks' \in [Sockets -> States]
    BY <2>1 DEF IInv, States
  <2>8. socks'[cur'] = "connecting"
    BY <2>1 DEF IInv
  <2>9. \A r \in Sockets : socks'[r] \in {"gone", "connecting"} => subs'[r] = {}
    BY <2>1, <2>4, <2>5 DEF IInv
  <2>10. QED
    BY <2>1, <2>4, <2>6, <2>7, <2>8, <2>9 DEF IInv
<1>3. QED
  BY <1>1, <1>2

\* Whoever is subscribed to less is served less.
LEMMA ServeMonotone == \A set, q : Serve({}, q) \subseteq Serve(set, q)
  BY DEF Serve

\* A handler's messages are served after whatever is queued, now or later.
LEMMA SendServes ==
  ASSUME IInv, NEW msgs \in Seq(Messages), Send(msgs), UNCHANGED <<socks, cur>>
  PROVE  /\ Served' = Serve(Served, msgs)
         /\ outboundQueue' \in Seq(Messages)
         /\ subs' \in [Sockets -> SUBSET Channels]
         /\ \A s \in Sockets : socks'[s] \in {"gone", "connecting"} => subs'[s] = {}
         /\ cur # 0 /\ socks[cur] = "open" => outboundQueue' = <<>>
<1>1. CASE cur # 0 /\ socks[cur] = "open"
  <2>1. outboundQueue = <<>> /\ outboundQueue' = <<>>
    BY <1>1 DEF IInv, Send
  <2>2. cur \in Sockets /\ subs[cur] \subseteq Channels
    BY <1>1 DEF IInv
  <2>3. subs' = [subs EXCEPT ![cur] = Serve(subs[cur], msgs)]
    BY <1>1 DEF Send
  <2>4. subs' \in [Sockets -> SUBSET Channels] /\ subs'[cur] = Serve(subs[cur], msgs)
    BY <2>2, <2>3, ServeType DEF IInv
  <2>5. Served = subs[cur]
    <3>1. Serve(subs[cur], <<>>) = subs[cur]
      BY <2>2, ServeNone
    <3>2. QED
      BY <1>1, <2>1, <3>1 DEF Served, Base
  <2>6. Served' = subs'[cur]
    <3>1. Serve(subs'[cur], <<>>) = subs'[cur]
      BY <2>2, <2>4, ServeNone
    <3>2. QED
      BY <1>1, <2>1, <3>1 DEF Served, Base
  <2>7. \A s \in Sockets : socks'[s] \in {"gone", "connecting"} => subs'[s] = {}
    BY <1>1, <2>3 DEF IInv
  <2>8. QED
    BY <2>1, <2>4, <2>5, <2>6, <2>7 DEF IInv
<1>2. CASE ~(cur # 0 /\ socks[cur] = "open")
  <2>1. outboundQueue' = outboundQueue \o msgs /\ subs' = subs
    BY <1>2 DEF Send
  <2>2. Served' = Serve(Base, outboundQueue \o msgs)
    BY <2>1 DEF Served, Base
  <2>3. Served' = Serve(Served, msgs)
    BY <2>2, ServeConcat DEF IInv, Served
  <2>4. QED
    BY <1>2, <2>1, <2>3 DEF IInv
<1>3. QED
  BY <1>1, <1>2

\* Choosing a channel makes it the one that will be served.
LEMMA SetActiveChannelInv ==
  ASSUME IInv, NEW c \in Channels \cup {None}, SetActiveChannel(c)
  PROVE  IInv'
<1> DEFINE old == activeChannelId
           msgs == (IF old = None THEN <<>> ELSE <<Unsub(old)>>) \o
                   (IF c = None THEN <<>> ELSE <<Sub(c)>>)
<1>1. msgs \in Seq(Messages)
  <2>1. \A d \in Channels : Sub(d) \in Messages /\ Unsub(d) \in Messages
    BY DEF Sub, Unsub, Messages
  <2>2. QED
    BY <2>1 DEF IInv
<1>2. Send(msgs) /\ UNCHANGED <<socks, cur>> /\ activeChannelId' = c /\ ~dropped'
  BY DEF SetActiveChannel
<1>3. Serve(Served, msgs) = {c} \ {None}
  <2>1. Served \subseteq Channels \cap {old}
    BY ServeType DEF IInv, Served
  <2>2. QED
    BY <2>1, ServeSwitch DEF IInv
<1> HIDE DEF msgs
<1>4. /\ Served' = {c} \ {None}
      /\ outboundQueue' \in Seq(Messages)
      /\ subs' \in [Sockets -> SUBSET Channels]
      /\ \A s \in Sockets : socks'[s] \in {"gone", "connecting"} => subs'[s] = {}
      /\ cur # 0 /\ socks[cur] = "open" => outboundQueue' = <<>>
  BY <1>1, <1>2, <1>3, SendServes
<1>5. QED
  BY <1>2, <1>4 DEF IInv

\* Typing changes nothing of what is served.
LEMMA SendTypingInv ==
  ASSUME IInv, SendTyping
  PROVE  IInv'
<1> DEFINE msgs == <<[type |-> "typing", channel |-> activeChannelId]>>
<1>1. activeChannelId \in Channels /\ msgs \in Seq(Messages)
  BY DEF SendTyping, IInv, Messages
<1>2. Send(msgs) /\ UNCHANGED <<socks, cur, activeChannelId, dropped>>
  BY DEF SendTyping, storeVars
<1>3. Serve(Served, msgs) = Served
  BY <1>1, ServeOne, ServeType DEF Served
<1> HIDE DEF msgs
<1>4. /\ Served' = Served
      /\ outboundQueue' \in Seq(Messages)
      /\ subs' \in [Sockets -> SUBSET Channels]
      /\ \A s \in Sockets : socks'[s] \in {"gone", "connecting"} => subs'[s] = {}
      /\ cur # 0 /\ socks[cur] = "open" => outboundQueue' = <<>>
  BY <1>1, <1>2, <1>3, SendServes
<1>5. QED
  BY <1>2, <1>4 DEF IInv

\* The handler of a socket that opens flushes the queue through the current one, if
\* that is open: what was to be served is.
LEMMA OnOpenInv ==
  ASSUME IInv, NEW s \in Sockets, OnOpen(s)
  PROVE  IInv'
<1>1. /\ socks[s] = "connecting" /\ socks' = [socks EXCEPT ![s] = "open"]
      /\ UNCHANGED <<cur, activeChannelId, dropped>>
  BY DEF OnOpen, storeVars
<1>2. socks' \in [Sockets -> States] /\ (cur # 0 => socks'[cur] \in {"connecting", "open"})
  BY <1>1 DEF IInv, States
<1>3. CASE cur # 0 /\ socks'[cur] = "open"
  <2>1. outboundQueue' = <<>> /\ subs' = [subs EXCEPT ![cur] = Serve(subs[cur], outboundQueue)]
    BY <1>3 DEF OnOpen
  <2>2. cur \in Sockets
    BY <1>3 DEF IInv
  <2>3. /\ subs' \in [Sockets -> SUBSET Channels] /\ outboundQueue' \in Seq(Messages)
        /\ subs'[cur] = Served
    BY <1>3, <2>1, <2>2, ServeType DEF IInv, Served, Base
  <2>4. Served' = Served
    <3>1. Serve(Served, <<>>) = Served
      BY ServeNone, ServeType DEF Served
    <3>2. Base' = Served
      BY <1>1, <1>3, <2>3 DEF Base
    <3>3. Served' = Serve(Base', <<>>)
      BY <2>1 DEF Served
    <3>4. QED
      BY <3>1, <3>2, <3>3
  <2>5. \A r \in Sockets : socks'[r] \in {"gone", "connecting"} => subs'[r] = {}
    BY <1>1, <1>3, <2>1 DEF IInv
  <2>6. QED
    BY <1>1, <1>2, <2>1, <2>3, <2>4, <2>5 DEF IInv
<1>4. CASE ~(cur # 0 /\ socks'[cur] = "open")
  <2>1. UNCHANGED <<outboundQueue, subs>>
    BY <1>4 DEF OnOpen
  <2>2. Served' = Served
    BY <1>1, <2>1 DEF Served, Base
  <2>3. \A r \in Sockets : socks'[r] \in {"gone", "connecting"} => subs'[r] = {}
    BY <1>1, <2>1 DEF IInv
  <2>4. QED
    BY <1>1, <1>2, <1>4, <2>1, <2>2, <2>3 DEF IInv
<1>5. QED
  BY <1>3, <1>4

\* With the socket the server forgets what it was subscribed to; what is queued stays.
LEMMA OnCloseInv ==
  ASSUME IInv, NEW s \in Sockets, OnClose(s)
  PROVE  IInv'
<1>1. /\ socks' = [socks EXCEPT ![s] = "gone"] /\ subs' = [subs EXCEPT ![s] = {}]
      /\ cur' = 0 /\ dropped' = TRUE /\ UNCHANGED <<outboundQueue, activeChannelId>>
  BY DEF OnClose, storeVars
<1>2. Served' \subseteq Served
  <2>1. Served' = Serve({}, outboundQueue)
    BY <1>1 DEF Served, Base
  <2>2. QED
    BY <2>1, ServeMonotone DEF Served
<1>3. socks' \in [Sockets -> States] /\ subs' \in [Sockets -> SUBSET Channels]
  BY <1>1 DEF IInv, States
<1>4. \A r \in Sockets : socks'[r] \in {"gone", "connecting"} => subs'[r] = {}
  BY <1>1 DEF IInv
<1>5. QED
  BY <1>1, <1>2, <1>3, <1>4 DEF IInv

\* As long as no connection has ended since the channel was chosen, the channel on the
\* screen is subscribed on an open current socket, and it alone.
THEOREM ActiveSubscribedHolds == Spec => []ActiveSubscribed
<1>1. ChatInit => IInv
  <2> SUFFICES ASSUME ChatInit PROVE IInv
    OBVIOUS
  <2>1. Served = {}
    <3>1. Base = {} /\ outboundQueue = <<>>
      BY DEF ChatInit, Base
    <3>2. QED
      BY <3>1, ServeNone DEF Served
  <2>2. outboundQueue \in Seq(Messages)
    BY DEF ChatInit
  <2>3. QED
    BY <2>1, <2>2 DEF ChatInit, IInv, States
<1>2. IInv /\ [ChatNext]_chatVars => IInv'
  <2> SUFFICES ASSUME IInv, [ChatNext]_chatVars PROVE IInv'
    OBVIOUS
  <2> DEFINE still == UNCHANGED <<connection, activeChannelId, dropped>>
  <2>1. CASE Mount \/ Unmount \/ AuthEffect
    <3>1. TearDown \/ still
      BY <2>1 DEF Mount, Unmount, AuthEffect, Connect, Disconnect, Restart, connection,
                  managerVars, storeVars
    <3>2. QED
      BY <3>1, TearDownInv, Unmoved
  <2>2. CASE AuthChange \/ ReconnectFires
    <3>1. still
      BY <2>2 DEF AuthChange, ReconnectFires, connection, managerVars, storeVars
    <3>2. QED
      BY <3>1, Unmoved
  <2>3. CASE OpenSocket
    BY <2>3, OpenSocketInv
  <2>4. CASE \E s \in Sockets : OnOpen(s) \/ OnClose(s)
    BY <2>4, OnOpenInv, OnCloseInv
  <2>5. CASE \E c \in Channels \cup {None} : SetActiveChannel(c)
    BY <2>5, SetActiveChannelInv
  <2>6. CASE SendTyping
    BY <2>6, SendTypingInv
  <2>7. CASE \E c \in Channels : PeerTyping(c) \/ TypingTimeout(c)
    <3>1. still
      BY <2>7 DEF PeerTyping, TypingTimeout, connection, managerVars
    <3>2. QED
      BY <3>1, Unmoved
  <2>8. CASE UNCHANGED chatVars
    <3>1. still
      BY <2>8 DEF chatVars, connection, managerVars, storeVars
    <3>2. QED
      BY <3>1, Unmoved
  <2>9. QED
    BY <2>1, <2>2, <2>3, <2>4, <2>5, <2>6, <2>7, <2>8 DEF ChatNext
<1>3. IInv => ActiveSubscribed
  <2> SUFFICES ASSUME IInv, activeChannelId # None, ~dropped, cur # 0, socks[cur] = "open"
               PROVE  subs[cur] = {activeChannelId}
    BY DEF ActiveSubscribed
  <2>1. outboundQueue = <<>> /\ Served = {activeChannelId} /\ subs[cur] \subseteq Channels
    BY DEF IInv
  <2>2. Served = subs[cur]
    <3>1. Serve(subs[cur], <<>>) = subs[cur]
      BY <2>1, ServeNone
    <3>2. QED
      BY <2>1, <3>1 DEF Served, Base
  <2>3. QED
    BY <2>1, <2>2
<1>4. QED
  BY <1>1, <1>2, <1>3, PTL DEF Spec
=============================================================================
