----------------------------- MODULE ChatSocket -----------------------------
(***************************************************************************)
(* The chat connection of the web front end: the WebSocketManager singleton*)
(* of lib/websocket.ts (one current socket, a debounced connect, reconnect *)
(* with backoff, an outbound queue), the effect of hooks/useWebSocket.ts   *)
(* that drives it from the auth store, and the zustand store of            *)
(* stores/chat-store.ts (active channel, typing users and their timers).   *)
(*                                                                         *)
(* A socket keeps its handlers when the manager lets go of it, so the      *)
(* close event of an old socket runs the same code as that of the current  *)
(* one.  The server forgets a connection's subscriptions with it.          *)
(***************************************************************************)
EXTENDS Naturals, Sequences

CONSTANTS
  Channels,     \* chat channels
  None,         \* no channel
  MaxSockets,   \* bound: sockets that exist at once, in any state
  MaxQueue,     \* bound: messages waiting in outboundQueue
  MaxBackoff    \* doublings of the reconnect delay before its maximum

ASSUME ChatConstants ==
  /\ None \notin Channels
  /\ MaxSockets \in Nat \ {0} /\ MaxQueue \in Nat /\ MaxBackoff \in Nat

VARIABLES
  auth,         \* auth store, as useWebSocket reads it
  mounted,      \* what its effect last ran with ("off": not mounted)
  socks,        \* every socket the browser still has an event for
  cur,          \* this.socket (0: null)
  status,       \* this.status, copied to the store by the status listener
  backoff,      \* how often reconnectDelay has doubled
  reconnectTimer, connectTimer,
  outboundQueue,
  intentionalClose,
  subs,         \* server: the channels a socket is subscribed to
  activeChannelId,
  typingUsers,  \* channels in which the peer is shown typing
  typingTimers, \* ... the timers _typingTimers still knows
  orphanTimers, \* ... and those it has forgotten, still running
  dropped       \* history: a connection ended since the channel was chosen

managerVars == <<socks, cur, status, backoff, reconnectTimer, connectTimer,
                 outboundQueue, intentionalClose, subs>>
storeVars == <<activeChannelId, typingUsers, typingTimers, orphanTimers>>
chatVars == <<auth, mounted, managerVars, storeVars, dropped>>

Sockets == 1..MaxSockets
Live(s) == s # 0 /\ socks[s] \in {"connecting", "open"}

(***************************************************************************)
(* The manager.                                                            *)
(***************************************************************************)
\* connect(): debounced; a live socket or a waiting timer makes it a no-op.
Connect ==
  /\ intentionalClose' = IF Live(cur) THEN intentionalClose ELSE FALSE
  /\ connectTimer' = IF Live(cur) THEN connectTimer ELSE TRUE

\* The debounce elapses: openSocket reads the token at that moment.
OpenSocket ==
  /\ connectTimer
  /\ connectTimer' = FALSE
  /\ IF intentionalClose \/ Live(cur) \/ auth # "in"
       THEN UNCHANGED <<socks, cur, status>>
       ELSE \E s \in Sockets :
              /\ socks[s] = "gone"
              /\ socks' = [socks EXCEPT ![s] = "connecting"]
              /\ cur' = s
              /\ status' = "connecting"
  /\ UNCHANGED <<auth, mounted, backoff, reconnectTimer, outboundQueue,
                 intentionalClose, subs, storeVars, dropped>>

\* The server's view of a run of client messages on one connection: the last
\* message about a channel decides.
Sub(c) == [type |-> "subscribe", channel |-> c]
Unsub(c) == [type |-> "unsubscribe", channel |-> c]
Serve(set, msgs) ==
  {c \in Channels :
     \/ c \in set /\ \A j \in DOMAIN msgs : msgs[j] # Unsub(c)
     \/ \E i \in DOMAIN msgs : /\ msgs[i] = Sub(c)
                             /\ \A j \in DOMAIN msgs : j > i => msgs[j] # Unsub(c)}

\* Mutant: what cannot be sent now is dropped instead of queued.
MutSend(msgs) ==
  IF cur # 0 /\ socks[cur] = "open"
    THEN /\ subs' = [subs EXCEPT ![cur] = Serve(@, msgs)]
         /\ UNCHANGED outboundQueue
    ELSE UNCHANGED <<subs, outboundQueue>>

\* send(), for the messages one handler sends in a row.
Send(msgs) ==
  IF cur # 0 /\ socks[cur] = "open"
    THEN /\ subs' = [subs EXCEPT ![cur] = Serve(@, msgs)]
         /\ UNCHANGED outboundQueue
    ELSE /\ Len(outboundQueue) + Len(msgs) <= MaxQueue
         /\ outboundQueue' = outboundQueue \o msgs
         /\ UNCHANGED subs

\* onopen: the handlers of any socket flush through this.socket.
OnOpen(s) ==
  /\ socks[s] = "connecting"
  /\ socks' = [socks EXCEPT ![s] = "open"]
  /\ status' = "connected"
  /\ backoff' = 0
  /\ IF cur # 0 /\ socks'[cur] = "open"
       THEN /\ outboundQueue' = <<>>
            /\ subs' = [subs EXCEPT ![cur] = Serve(@, outboundQueue)]
       ELSE UNCHANGED <<outboundQueue, subs>>
  /\ UNCHANGED <<auth, mounted, cur, reconnectTimer, connectTimer,
                 intentionalClose, storeVars, dropped>>

\* Mutant: a close that was asked for schedules a reconnect like any other.
MutScheduleReconnect ==
  /\ reconnectTimer' = TRUE
  /\ backoff' = IF reconnectTimer \/ backoff = MaxBackoff THEN backoff ELSE backoff + 1

\* Mutant: the first lost connection is retried, the next one is not.
MutScheduleReconnectOnce ==
  /\ reconnectTimer' = (reconnectTimer \/ (~intentionalClose /\ backoff < MaxBackoff))
  /\ backoff' = IF intentionalClose \/ reconnectTimer \/ backoff = MaxBackoff
                  THEN backoff ELSE backoff + 1

\* scheduleReconnect, unless the close was asked for.
ScheduleReconnect ==
  /\ reconnectTimer' = IF intentionalClose THEN reconnectTimer ELSE TRUE
  /\ backoff' = IF intentionalClose \/ reconnectTimer \/ backoff = MaxBackoff
                  THEN backoff ELSE backoff + 1

\* onclose, of whichever socket it is: a refused handshake, a lost connection
\* or the end of a close() the manager asked for earlier.
OnClose(s) ==
  /\ socks[s] # "gone"
  /\ socks' = [socks EXCEPT ![s] = "gone"]
  /\ subs' = [subs EXCEPT ![s] = {}]
  /\ cur' = 0
  /\ status' = "disconnected"
  /\ ScheduleReconnect
  /\ dropped' = TRUE
  /\ UNCHANGED <<auth, mounted, connectTimer, outboundQueue, intentionalClose,
                 storeVars>>

ReconnectFires ==
  /\ reconnectTimer
  /\ reconnectTimer' = FALSE
  /\ Connect
  /\ UNCHANGED <<auth, mounted, socks, cur, status, backoff, outboundQueue, subs,
                 storeVars, dropped>>

\* The timers are forgotten, the typing users kept.
MutTearDown ==
  /\ reconnectTimer' = FALSE
  /\ socks' = [s \in Sockets |-> IF s = cur THEN "closing" ELSE socks[s]]
  /\ cur' = 0
  /\ outboundQueue' = <<>>
  /\ status' = "disconnected"
  /\ typingTimers' = {}
  /\ orphanTimers' = orphanTimers \cup typingTimers
  /\ dropped' = TRUE
  /\ UNCHANGED <<backoff, subs, activeChannelId, typingUsers>>

\* chat-store disconnect: manager and store; the typing timers run on.
TearDown ==
  /\ reconnectTimer' = FALSE
  /\ socks' = [s \in Sockets |-> IF s = cur THEN "closing" ELSE socks[s]]
  /\ cur' = 0
  /\ outboundQueue' = <<>>
  /\ status' = "disconnected"
  /\ typingUsers' = {} /\ typingTimers' = {}
  /\ orphanTimers' = orphanTimers \cup typingTimers
  /\ dropped' = TRUE
  /\ UNCHANGED <<backoff, subs, activeChannelId>>

Disconnect == TearDown /\ intentionalClose' = TRUE /\ connectTimer' = FALSE

\* A disconnect and a connect in a row.
Restart == TearDown /\ intentionalClose' = FALSE /\ connectTimer' = TRUE

(***************************************************************************)
(* useWebSocket: the effect's cleanup and body run when what it read of    *)
(* the auth store changes; leaving the dashboard runs the cleanup alone.   *)
(***************************************************************************)
AuthEffect ==
  /\ mounted # "off" /\ mounted # auth
  /\ mounted' = auth
  /\ \/ /\ mounted = "hydrating" /\ auth = "in"
        /\ Connect
        /\ UNCHANGED <<socks, cur, status, backoff, reconnectTimer,
                       outboundQueue, subs, storeVars, dropped>>
     \/ mounted = "out" /\ auth = "in" /\ Restart
     \/ auth # "in" /\ Disconnect
  /\ UNCHANGED auth

Mount ==
  /\ mounted = "off"
  /\ mounted' = auth
  /\ \/ /\ auth = "in"
        /\ Connect
        /\ UNCHANGED <<socks, cur, status, backoff, reconnectTimer,
                       outboundQueue, subs, storeVars, dropped>>
     \/ auth = "out" /\ Disconnect
     \/ auth = "hydrating" /\ UNCHANGED <<managerVars, storeVars, dropped>>
  /\ UNCHANGED auth

Unmount ==
  /\ mounted # "off"
  /\ mounted' = "off"
  /\ IF mounted = "hydrating" THEN UNCHANGED <<managerVars, storeVars, dropped>>
                              ELSE Disconnect
  /\ UNCHANGED auth

\* The auth store as Session.tla moves it: restored, signed in, signed out.
AuthChange ==
  /\ \/ auth = "hydrating" /\ auth' \in {"in", "out"}
     \/ auth = "in" /\ auth' = "out"
     \/ auth = "out" /\ auth' = "in"
  /\ mounted \in {"off", auth}
  /\ UNCHANGED <<mounted, managerVars, storeVars, dropped>>

(***************************************************************************)
(* chat-store.                                                             *)
(***************************************************************************)
\* setActiveChannel: choosing the active channel again does nothing.
SetActiveChannel(c) ==
  /\ mounted = "in"
  /\ activeChannelId # c
  /\ activeChannelId' = c
  /\ Send((IF activeChannelId = None THEN <<>> ELSE <<Unsub(activeChannelId)>>) \o
          (IF c = None THEN <<>> ELSE <<Sub(c)>>))
  /\ dropped' = FALSE
  /\ UNCHANGED <<auth, mounted, socks, cur, status, backoff, reconnectTimer,
                 connectTimer, intentionalClose, typingUsers, typingTimers,
                 orphanTimers>>

\* The composer's typing indicator (at most one per 300 ms), queued when offline.
SendTyping ==
  /\ mounted = "in" /\ activeChannelId # None
  /\ Send(<<[type |-> "typing", channel |-> activeChannelId]>>)
  /\ UNCHANGED <<auth, mounted, socks, cur, status, backoff, reconnectTimer,
                 connectTimer, intentionalClose, storeVars, dropped>>

\* addTypingUser: the tracked timer is replaced, an orphan keeps running.
PeerTyping(c) ==
  /\ mounted # "off"
  /\ \E s \in Sockets : socks[s] = "open" /\ c \in subs[s]
  /\ typingUsers' = typingUsers \cup {c}
  /\ typingTimers' = typingTimers \cup {c}
  /\ UNCHANGED <<auth, mounted, managerVars, activeChannelId, orphanTimers, dropped>>

\* removeTypingUser, from a timer, tracked or forgotten: it clears the tracked one.
TypingTimeout(c) ==
  /\ c \in typingTimers \cup orphanTimers
  /\ typingUsers' = typingUsers \ {c}
  /\ typingTimers' = typingTimers \ {c}
  /\ \/ c \in typingTimers /\ UNCHANGED orphanTimers
     \/ c \in orphanTimers /\ orphanTimers' = orphanTimers \ {c}
  /\ UNCHANGED <<auth, mounted, managerVars, activeChannelId, dropped>>

ChatInit ==
  /\ auth = "hydrating" /\ mounted = "off"
  /\ socks = [s \in Sockets |-> "gone"] /\ cur = 0
  /\ status = "disconnected" /\ backoff = 0
  /\ reconnectTimer = FALSE /\ connectTimer = FALSE
  /\ outboundQueue = <<>> /\ intentionalClose = FALSE
  /\ subs = [s \in Sockets |-> {}]
  /\ activeChannelId = None
  /\ typingUsers = {} /\ typingTimers = {} /\ orphanTimers = {}
  /\ dropped = FALSE

ChatNext ==
  \/ Mount \/ Unmount \/ AuthChange \/ AuthEffect
  \/ OpenSocket \/ ReconnectFires
  \/ \E s \in Sockets : OnOpen(s) \/ OnClose(s)
  \/ \E c \in Channels \cup {None} : SetActiveChannel(c)
  \/ SendTyping
  \/ \E c \in Channels : PeerTyping(c) \/ TypingTimeout(c)

\* Timers fire, effects run, and a close() that was asked for completes.
ChatFairness ==
  /\ WF_chatVars(OpenSocket) /\ WF_chatVars(ReconnectFires)
  /\ WF_chatVars(AuthEffect)
  /\ \A s \in Sockets : WF_chatVars(socks[s] = "closing" /\ OnClose(s))

Spec == ChatInit /\ [][ChatNext]_chatVars /\ ChatFairness

(***************************************************************************)
(* Properties.                                                             *)
(***************************************************************************)
\* The channel on the screen is subscribed on an open current socket, whatever was
\* queued and flushed before, as long as no connection has ended since it was
\* chosen (nothing subscribes again after a reconnect).
ActiveSubscribed ==
  activeChannelId # None /\ ~dropped /\ cur # 0 /\ socks[cur] = "open" =>
    subs[cur] = {activeChannelId}

\* After a disconnect nothing of the manager can open a socket by itself: a close
\* event that arrives late neither arms a timer nor leaves one armed.
QuietAfterDisconnect ==
  intentionalClose => cur = 0 /\ ~reconnectTimer /\ ~connectTimer

\* A peer shown typing is always taken off again by a timer the store can find.
TypingHasTimer == typingUsers \subseteq typingTimers

\* A dashboard that is open and signed in keeps trying to be connected.
Reconnects ==
  (mounted = "in" /\ auth = "in" /\ cur = 0) ~> (cur # 0 \/ mounted # "in" \/ auth # "in")
=============================================================================
