---------------------------- MODULE ScreensProofs ----------------------------
(***************************************************************************)
(* What Screens guarantees however many requests are sent and however      *)
(* loads, invalidations, answers and visits cross.  What the tables of     *)
(* Hooks and Pages must satisfy for it is TablesAssumption: TLC evaluates  *)
(* it, and nothing else about the tables is used here.                     *)
(***************************************************************************)
EXTENDS Screens, TLAPS

Own(h) == h \notin {"foreign", "unanswered", "raced"}
Causes == {"foreign", "unanswered", "raced"} \cup {x[2].hook : x \in HasControl}
Entry  == [has : BOOLEAN, unseen : SUBSET Causes, stale : BOOLEAN, failed : BOOLEAN]
Load   == [kind : {"idle", "first", "again"}, served : BOOLEAN,
           unseen : SUBSET Causes, met : BOOLEAN]
States == [cache : Entry, fetch : Load]

(* The controls a request can come from: of any page, or of a site of the   *)
(* watched query.                                                           *)
SentControls ==
  {x[2] : x \in {y \in HasControl : watch = None \/ <<y[1], watch>> \in Sites}}

Requests == [control : SentControls, phase : {"sent", "done", "refused", "lost"},
             here : BOOLEAN, dialog : 0..2]

(* The hooks whose request the server has carried out and whose answer is   *)
(* on its way back.                                                         *)
Under(q) == {q[i].control.hook : i \in {j \in DOMAIN q : q[j].phase = "done"}}

Changes(h) == <<h, watch>> \in WritesTo /\ h \in Writers(watch)

(* An entry hides nothing before it is there; a load that nobody runs has   *)
(* read nothing; a load hides nothing as long as the entry it replaces      *)
(* hides nothing; and what they hide was written to this query.             *)
StateOK(st) ==
  /\ st \in States
  /\ ~st.cache.has => st.cache.unseen = {}
  /\ st.fetch.kind = "idle" => st.fetch.unseen = {} /\ ~st.fetch.served
  /\ st.cache.has /\ st.cache.unseen = {} => st.fetch.unseen = {}
  /\ \A h \in st.cache.unseen \cup st.fetch.unseen : Own(h) => Changes(h)

Mine(h) == Own(h) /\ <<h, watch>> \in Refreshes

(* A write of this user that an entry hides, and whose hook refreshes the   *)
(* entry, is going to be seen: its answer is still underway (U), or a load  *)
(* runs, or the last load failed, or the entry is stale and will be loaded  *)
(* when a page shows it again.  A load that hides such a write was met by   *)
(* the invalidation unless the answer is still underway.                    *)
Tracked(st, U, shown) ==
  /\ \A h \in st.cache.unseen : Mine(h) =>
        \/ h \in U
        \/ st.fetch.kind # "idle"
        \/ st.cache.failed
        \/ ~shown /\ st.cache.stale
  /\ \A h \in st.fetch.unseen : Mine(h) => h \in U \/ st.fetch.met

(* A form is only edited, or sent, while its entry is there and shown.      *)
FormHeld ==
  form # "clean" => Shown /\ cache.has /\ <<page, watch>> \in Reseeds

PageOK == watch = None \/ page = Elsewhere \/ <<page, watch>> \in Sites

IInv ==
  /\ PageOK /\ dialog \in 0..2 /\ ops \in Seq(Requests)
  /\ StateOK(Now) /\ Tracked(Now, Under(ops), Shown)
  /\ FormHeld
  /\ FailureHeard /\ LateAnswersKeepOut /\ EditsKept
-----------------------------------------------------------------------------
(* The operators of the cache, on any state of it.                          *)

(* The fields of an entry and of a load.                                    *)
LEMMA Fields ==
    ASSUME NEW st \in States
    PROVE  /\ st = [cache |-> st.cache, fetch |-> st.fetch]
           /\ st.cache \in Entry /\ st.fetch \in Load
           /\ st.cache.has \in BOOLEAN /\ st.cache.stale \in BOOLEAN
           /\ st.cache.failed \in BOOLEAN /\ st.cache.unseen \in SUBSET Causes
           /\ st.fetch.served \in BOOLEAN /\ st.fetch.met \in BOOLEAN
           /\ st.fetch.unseen \in SUBSET Causes
  BY DEF States, Entry, Load

(* A load starts: the entry stays, and nothing has been read yet.           *)
LEMMA StartedIs ==
    ASSUME NEW st \in States
    PROVE  /\ Started(st) \in States
           /\ Started(st).cache = st.cache
           /\ Started(st).fetch.kind # "idle"
           /\ Started(st).fetch.unseen = {}
<1> DEFINE load == [Idle EXCEPT !.kind = IF st.cache.has THEN "again" ELSE "first"]
<1>1. load \in Load /\ load.kind # "idle" /\ load.unseen = {}
  BY DEF Idle, Load
<1> HIDE DEF load
<1>2. [st EXCEPT !.fetch = load] \in States
      /\ [st EXCEPT !.fetch = load].cache = st.cache
      /\ [st EXCEPT !.fetch = load].fetch = load
  BY <1>1 DEF States
<1>3. Started(st) = [st EXCEPT !.fetch = load]
  BY DEF Started, load
<1>4. QED
  BY <1>1, <1>2, <1>3

(* A load that starts tracks everything.                                    *)
LEMMA StartedKeeps ==
    ASSUME NEW st, StateOK(st), NEW U, NEW shown
    PROVE  StateOK(Started(st)) /\ Tracked(Started(st), U, shown)
<1>1. st \in States
  BY DEF StateOK
<1>2. /\ Started(st) \in States /\ Started(st).cache = st.cache
      /\ Started(st).fetch.kind # "idle" /\ Started(st).fetch.unseen = {}
  BY <1>1, StartedIs
<1>3. QED
  BY <1>2 DEF StateOK, Tracked

(* An observer mounts: what was only stale is loaded now.                   *)
LEMMA MountedKeeps ==
    ASSUME NEW st, StateOK(st), NEW U, NEW before, NEW shown,
           Tracked(st, U, before)
    PROVE  StateOK(Mounted(st, shown)) /\ Tracked(Mounted(st, shown), U, shown)
<1>0. st \in States
  BY DEF StateOK
<1>1. CASE shown /\ st.fetch.kind = "idle" /\ (~st.cache.has \/ st.cache.stale)
  <2>1. Mounted(st, shown) = Started(st)
    BY <1>1 DEF Mounted
  <2>2. QED
    BY <2>1, StartedKeeps
<1>2. CASE ~(shown /\ st.fetch.kind = "idle" /\ (~st.cache.has \/ st.cache.stale))
  <2>1. Mounted(st, shown) = st
    BY <1>2 DEF Mounted
  <2>2. Tracked(st, U, shown)
    BY <1>0, <1>2, Fields DEF Tracked, StateOK
  <2>3. QED
    BY <2>1, <2>2
<1>3. QED
  BY <1>1, <1>2

(* invalidateQueries, by the answer of the request h: from now on a load or *)
(* the mark on the entry tracks what that request wrote.                    *)
LEMMA InvalidatedKeeps ==
    ASSUME NEW st, StateOK(st), NEW U, NEW V, NEW h, NEW shown,
           Tracked(st, U, shown), U \subseteq V \cup {h}
    PROVE  StateOK(Invalidated(st, shown)) /\ Tracked(Invalidated(st, shown), V, shown)
<1> DEFINE marked == [st EXCEPT !.cache.stale = st.cache.has]
<1>0. st \in States
  BY DEF StateOK
<1>1. /\ marked \in States
      /\ marked.fetch = st.fetch
      /\ marked.cache.has = st.cache.has /\ marked.cache.unseen = st.cache.unseen
      /\ marked.cache.failed = st.cache.failed /\ marked.cache.stale = st.cache.has
  BY <1>0 DEF States, Entry
<1> HIDE DEF marked
<1>2. StateOK(marked)
  BY <1>1 DEF StateOK
<1>3. CASE shown /\ (st.fetch.kind = "idle" \/ st.cache.has)
  <2>1. Invalidated(st, shown) = Started(marked)
    BY <1>3 DEF Invalidated, marked
  <2>2. QED
    BY <1>2, <2>1, StartedKeeps
<1>4. CASE ~(shown /\ (st.fetch.kind = "idle" \/ st.cache.has)) /\ st.fetch.kind # "idle"
  <2> DEFINE met == [marked EXCEPT !.fetch.met = TRUE]
  <2>1. Invalidated(st, shown) = met
    BY <1>4 DEF Invalidated, marked
  <2>2. /\ met \in States /\ met.cache = marked.cache
        /\ met.fetch.kind = st.fetch.kind /\ met.fetch.unseen = st.fetch.unseen
        /\ met.fetch.served = st.fetch.served /\ met.fetch.met = TRUE
    BY <1>1 DEF States, Load
  <2> HIDE DEF met
  <2>3. StateOK(met)
    BY <1>1, <1>2, <2>2 DEF StateOK
  <2>4. Tracked(met, V, shown)
    BY <1>4, <2>2 DEF Tracked
  <2>5. QED
    BY <2>1, <2>3, <2>4
<1>5. CASE ~(shown /\ (st.fetch.kind = "idle" \/ st.cache.has)) /\ st.fetch.kind = "idle"
  <2>1. Invalidated(st, shown) = marked
    BY <1>5 DEF Invalidated, marked
  <2>2. ~shown
    BY <1>5
  <2>3. st.fetch.unseen = {} /\ (~st.cache.has => st.cache.unseen = {})
    BY <1>5 DEF StateOK
  <2>4. Tracked(marked, V, shown)
    BY <1>1, <2>2, <2>3 DEF Tracked
  <2>5. QED
    BY <1>2, <2>1, <2>4
<1>6. QED
  BY <1>3, <1>4, <1>5

(* The server carries out a write: its answer is underway, or nobody waits  *)
(* for it.                                                                  *)
LEMMA WrittenKeeps ==
    ASSUME NEW st, StateOK(st), NEW U, NEW V, NEW shown, Tracked(st, U, shown),
           NEW cause \in Causes, Own(cause) => cause \in V /\ Changes(cause),
           U \subseteq V
    PROVE  StateOK(Written(st, cause)) /\ Tracked(Written(st, cause), V, shown)
<1>0. st \in States
  BY DEF StateOK
<1> DEFINE c == IF st.cache.has THEN st.cache.unseen \cup {cause} ELSE {}
           f == IF st.fetch.served THEN st.fetch.unseen \cup {cause} ELSE {}
<1>1. c \in SUBSET Causes /\ f \in SUBSET Causes
  BY <1>0, Fields
<1>2. Written(st, cause) = [cache |-> [st.cache EXCEPT !.unseen = c],
                            fetch |-> [st.fetch EXCEPT !.unseen = f]]
  BY <1>0, Fields DEF Written, Entry, Load
<1> DEFINE w == Written(st, cause)
<1>3. /\ c \subseteq st.cache.unseen \cup {cause}
      /\ st.cache.has => c # {}
      /\ ~st.cache.has => c = {}
      /\ f \subseteq st.fetch.unseen \cup {cause}
      /\ ~st.fetch.served => f = {}
  OBVIOUS
<1> HIDE DEF c, f
<1>4. /\ w \in States
      /\ w.cache.unseen = c /\ w.cache.has = st.cache.has
      /\ w.cache.stale = st.cache.stale /\ w.cache.failed = st.cache.failed
      /\ w.fetch.unseen = f /\ w.fetch.kind = st.fetch.kind
      /\ w.fetch.served = st.fetch.served /\ w.fetch.met = st.fetch.met
  BY <1>0, <1>1, <1>2, Fields DEF States, Entry, Load
<1> HIDE DEF w
<1>5. StateOK(w)
  BY <1>3, <1>4 DEF StateOK
<1>6. Tracked(w, V, shown)
  <2>1. \A h \in st.cache.unseen \cup st.fetch.unseen \cup {cause} :
           Mine(h) /\ (h = cause \/ h \in U) => h \in V
    BY DEF Mine
  <2>2. QED
    BY <1>3, <1>4, <2>1 DEF Tracked
<1>7. QED
  BY <1>5, <1>6 DEF w

(* No load, write or invalidation takes an entry away.                      *)
LEMMA HasKept ==
    ASSUME NEW st \in States
    PROVE  /\ \A cause : Written(st, cause).cache.has = st.cache.has
           /\ \A shown : Invalidated(st, shown).cache.has = st.cache.has
<1>1. \A cause : Written(st, cause).cache.has = st.cache.has
  BY DEF Written, States, Entry
<1>2. ASSUME NEW shown PROVE Invalidated(st, shown).cache.has = st.cache.has
  <2> DEFINE marked == [st EXCEPT !.cache.stale = st.cache.has]
  <2>1. /\ marked \in States /\ marked.cache.has = st.cache.has
    BY DEF States, Entry
  <2> HIDE DEF marked
  <2>2. Started(marked).cache.has = st.cache.has
    BY <2>1, StartedIs
  <2>3. [marked EXCEPT !.fetch.met = TRUE].cache.has = st.cache.has
    BY <2>1 DEF States
  <2>4. \/ Invalidated(st, shown) = Started(marked)
        \/ Invalidated(st, shown) = [marked EXCEPT !.fetch.met = TRUE]
        \/ Invalidated(st, shown) = marked
    BY DEF Invalidated, marked
  <2>5. QED
    BY <2>1, <2>2, <2>3, <2>4
<1>3. QED
  BY <1>1, <1>2

-----------------------------------------------------------------------------
(* The requests.                                                            *)

(* A request that has settled takes only its own hook with it, and only if  *)
(* it was carried out.                                                      *)
LEMMA WithoutOne ==
    ASSUME NEW q \in Seq(Requests), NEW i \in DOMAIN q
    PROVE  /\ Without(q, i) \in Seq(Requests)
           /\ Under(q) \subseteq Under(Without(q, i)) \cup {q[i].control.hook}
           /\ q[i].phase # "done" => Under(q) \subseteq Under(Without(q, i))
<1>1. Len(q) \in Nat /\ DOMAIN q = 1 .. Len(q) /\ \A j \in 1 .. Len(q) : q[j] \in Requests
  OBVIOUS
<1> DEFINE w == Without(q, i)
<1>2. w \in [1 .. (Len(q) - 1) -> Requests]
  BY <1>1 DEF Without
<1>3. w \in Seq(Requests)
  BY <1>1, <1>2
<1>4. \A j \in DOMAIN q : j # i => \E k \in DOMAIN w : w[k] = q[j]
  <2> SUFFICES ASSUME NEW j \in DOMAIN q, j # i PROVE \E k \in DOMAIN w : w[k] = q[j]
    OBVIOUS
  <2>1. CASE j < i
    <3>1. j \in 1 .. (Len(q) - 1) /\ w[j] = q[j]
      BY <1>1, <2>1 DEF Without
    <3>2. QED
      BY <1>2, <3>1
  <2>2. CASE j > i
    <3>1. j - 1 \in 1 .. (Len(q) - 1) /\ w[j - 1] = q[j]
      BY <1>1, <2>2 DEF Without
    <3>2. QED
      BY <1>2, <3>1
  <2>3. QED
    BY <1>1, <2>1, <2>2
<1> HIDE DEF w
<1>5. \A h \in Under(q) : h \in Under(w) \/ (q[i].phase = "done" /\ h = q[i].control.hook)
  BY <1>4 DEF Under
<1>6. QED
  BY <1>3, <1>5 DEF w

(* Leaving a page takes nothing from its requests but the page.             *)
LEMMA Unmounted ==
    ASSUME NEW q \in Seq(Requests), NEW u,
           u = [i \in DOMAIN q |-> [q[i] EXCEPT !.here = FALSE]]
    PROVE  u \in Seq(Requests) /\ Under(u) = Under(q)
<1>1. Len(q) \in Nat /\ DOMAIN q = 1 .. Len(q) /\ \A j \in 1 .. Len(q) : q[j] \in Requests
  OBVIOUS
<1>2. /\ \A r \in Requests : /\ [r EXCEPT !.here = FALSE] \in Requests
                             /\ [r EXCEPT !.here = FALSE].phase = r.phase
                             /\ [r EXCEPT !.here = FALSE].control = r.control
  BY DEF Requests
<1>3. u \in [1 .. Len(q) -> Requests]
  BY <1>1, <1>2
<1>4. u \in Seq(Requests)
  BY <1>1, <1>3
<1>5. /\ DOMAIN u = DOMAIN q
      /\ \A i \in DOMAIN q : u[i].phase = q[i].phase /\ u[i].control = q[i].control
  BY <1>1, <1>2
<1>6. QED
  BY <1>4, <1>5 DEF Under

(* A request that is carried out is underway; one that is refused, or whose *)
(* answer is lost, is not.                                                  *)
LEMMA Carried ==
    ASSUME NEW q \in Seq(Requests), NEW i \in DOMAIN q, q[i].phase = "sent",
           NEW phase \in {"done", "refused", "lost"},
           NEW u, u = [q EXCEPT ![i].phase = phase]
    PROVE  /\ u \in Seq(Requests) /\ Under(q) \subseteq Under(u)
           /\ phase = "done" => q[i].control.hook \in Under(u)
<1>1. Len(q) \in Nat /\ DOMAIN q = 1 .. Len(q) /\ \A j \in 1 .. Len(q) : q[j] \in Requests
  OBVIOUS
<1>2. /\ [q[i] EXCEPT !.phase = phase] \in Requests
      /\ [q[i] EXCEPT !.phase = phase].phase = phase
      /\ [q[i] EXCEPT !.phase = phase].control = q[i].control
  BY <1>1 DEF Requests
<1>3. /\ u \in [1 .. Len(q) -> Requests]
      /\ u[i] = [q[i] EXCEPT !.phase = phase]
      /\ \A j \in DOMAIN q : j # i => u[j] = q[j]
      /\ DOMAIN u = DOMAIN q
  BY <1>1, <1>2
<1>4. u \in Seq(Requests)
  BY <1>1, <1>3
<1>5. QED
  BY <1>2, <1>3, <1>4 DEF Under

(* One more request, not carried out yet.                                   *)
LEMMA Appended ==
    ASSUME NEW q \in Seq(Requests), NEW r \in Requests
    PROVE  Append(q, r) \in Seq(Requests) /\ Under(q) \subseteq Under(Append(q, r))
<1>1. Len(q) \in Nat /\ DOMAIN q = 1 .. Len(q)
  OBVIOUS
<1>2. /\ Append(q, r) \in Seq(Requests)
      /\ DOMAIN q \subseteq DOMAIN Append(q, r)
      /\ \A j \in DOMAIN q : Append(q, r)[j] = q[j]
  BY <1>1
<1>3. QED
  BY <1>2 DEF Under
-----------------------------------------------------------------------------
(* The steps.  Tracking is the part of the invariant about the entry and    *)
(* the requests; what a user notices and the form come after it.            *)
Tracking == /\ PageOK /\ dialog \in 0..2 /\ ops \in Seq(Requests)
            /\ StateOK(Now) /\ Tracked(Now, Under(ops), Shown)

(* What a state of the cache keeps, it keeps as the next state of the cache *)
(* while the same query is watched.                                         *)
LEMMA NextNow ==
    ASSUME UNCHANGED watch, NEW st, StateOK(st), Become(st), NEW U, NEW shown,
           Tracked(st, U, shown), shown <=> Shown', U \subseteq Under(ops)'
    PROVE  StateOK(Now)' /\ Tracked(Now, Under(ops), Shown)'
<1>1. st \in States
  BY DEF StateOK
<1>2. Now' = st
  BY <1>1, Fields DEF Become, Now
<1>3. StateOK(Now)'
  BY <1>2 DEF StateOK, Changes
<1>4. Tracked(Now, Under(ops), Shown)'
  BY <1>2 DEF Tracked, Mine
<1>5. QED
  BY <1>3, <1>4

(* Which controls a request can come from depends on the watched query only. *)
LEMMA SameRequests == UNCHANGED watch => Requests' = Requests
  BY DEF Requests, SentControls

(* A page is mounted: what its visit found is tracked for it.               *)
LEMMA VisitKeeps ==
    ASSUME UNCHANGED watch, NEW p, NEW st, NEW rest \in Seq(Requests),
           NEW U, NEW before, StateOK(st), Tracked(st, U, before), U \subseteq Under(rest),
           p = Elsewhere \/ <<p, watch>> \in Sites,
           Visit(p, st, rest)
    PROVE  Tracking'
<1> DEFINE shown == On(p, TRUE)
           new   == Mounted(st, shown)
<1>1. StateOK(new) /\ Tracked(new, U, shown)
  BY MountedKeeps
<1>2. /\ page' = p /\ view' = TRUE /\ dialog' = 0
      /\ ops' = [i \in DOMAIN rest |-> [rest[i] EXCEPT !.here = FALSE]]
      /\ Become(new)
  BY DEF Visit
<1>3. ops' \in Seq(Requests) /\ Under(ops') = Under(rest)
  BY <1>2, Unmounted
<1>4. shown <=> Shown'
  BY <1>2 DEF On, Shown
<1> HIDE DEF shown, new
<1>5. U \subseteq Under(ops)'
  BY <1>3 DEF Under
<1>6. StateOK(Now)' /\ Tracked(Now, Under(ops), Shown)'
  BY <1>1, <1>2, <1>4, <1>5, NextNow
<1>7. (ops \in Seq(Requests))'
  BY <1>3, SameRequests
<1>8. PageOK' /\ dialog' \in 0..2
  BY <1>2 DEF PageOK
<1>9. QED
  BY <1>6, <1>7, <1>8 DEF Tracking

(* The user moves: to a page, away, to another view, into and out of a      *)
(* dialog, or he types.                                                     *)
LEMMA MovesTrack ==
    ASSUME Tracking,
           \/ \E s \in Sites : watch = s[2] /\ Open(s[1])
           \/ Leave \/ TurnView \/ OpenDialog \/ CloseDialog \/ Edit
           \/ UNCHANGED vars
    PROVE  Tracking'
<1> USE DEF Tracking
<1>1. ASSUME NEW s \in Sites, watch = s[2], Open(s[1]) PROVE Tracking'
  BY <1>1, VisitKeeps DEF Open
<1>2. CASE Leave
  BY <1>2, VisitKeeps DEF Leave
<1>3. CASE TurnView
  <2>1. /\ StateOK(Mounted(Now, On(page, ~view)))
        /\ Tracked(Mounted(Now, On(page, ~view)), Under(ops), On(page, ~view))
    BY MountedKeeps
  <2>2. /\ view' = ~view /\ UNCHANGED <<watch, page, ops, dialog>>
        /\ Become(Mounted(Now, On(page, ~view)))
    BY <1>3 DEF TurnView
  <2>3. On(page, ~view) <=> Shown'
    BY <2>2 DEF On, Shown
  <2>4. Under(ops) \subseteq Under(ops)'
    BY <2>2 DEF Under
  <2>5. StateOK(Now)' /\ Tracked(Now, Under(ops), Shown)'
    BY <2>1, <2>2, <2>3, <2>4, NextNow
  <2>6. QED
    BY <2>2, <2>5, SameRequests DEF PageOK
<1>4. CASE OpenDialog \/ CloseDialog \/ Edit \/ UNCHANGED vars
  <2>1. /\ UNCHANGED <<watch, page, view, cache, fetch, ops>>
        /\ dialog' \in 0..2
    BY <1>4 DEF OpenDialog, CloseDialog, Edit, vars
  <2>2. Become(Now)
    BY <2>1 DEF Become, Now
  <2>3. Shown <=> Shown'
    BY <2>1 DEF On, Shown
  <2>4. Under(ops) \subseteq Under(ops)'
    BY <2>1 DEF Under
  <2>5. StateOK(Now)' /\ Tracked(Now, Under(ops), Shown)'
    BY <2>1, <2>2, <2>3, <2>4, NextNow
  <2>6. QED
    BY <2>1, <2>5, SameRequests DEF PageOK
<1>5. QED
  BY <1>1, <1>2, <1>3, <1>4

(* A step of the entry alone: it is enough that the new entry is tracked.   *)
LEMMA QueryKeeps ==
    ASSUME Tracking, QueryStep, NEW st, Become(st), StateOK(st),
           Tracked(st, Under(ops), Shown)
    PROVE  Tracking'
<1>1. UNCHANGED <<watch, page, view, ops, dialog>>
  BY DEF QueryStep
<1>2. Shown <=> Shown'
  BY <1>1 DEF On, Shown
<1>3. Under(ops) \subseteq Under(ops)'
  BY <1>1 DEF Under
<1>4. StateOK(Now)' /\ Tracked(Now, Under(ops), Shown)'
  BY <1>1, <1>2, <1>3, NextNow
<1>5. QED
  BY <1>1, <1>4, SameRequests DEF Tracking, PageOK

(* The entry ages, is loaded, is collected, changes at the server, is       *)
(* announced.                                                               *)
LEMMA EntryTracks ==
    ASSUME Tracking,
           \/ Age \/ Focus \/ Retry \/ Poll \/ Collect
           \/ ServerReads \/ Arrive \/ Fail \/ ForeignWrite \/ Push
    PROVE  Tracking'
<1>0. /\ StateOK(Now) /\ Tracked(Now, Under(ops), Shown)
      /\ Now \in States /\ Now.cache = cache /\ Now.fetch = fetch
      /\ cache \in Entry /\ fetch \in Load
  BY DEF Tracking, StateOK, Now, States
<1>1. CASE Age
  <2> DEFINE st == [cache |-> [cache EXCEPT !.stale = TRUE], fetch |-> fetch]
  <2>1. Become(st) /\ QueryStep
    BY <1>1 DEF Age, Become
  <2>2. /\ st \in States /\ st.fetch = fetch /\ st.cache.has = cache.has
        /\ st.cache.unseen = cache.unseen /\ st.cache.failed = cache.failed
        /\ st.cache.stale = TRUE
    BY <1>0 DEF States, Entry
  <2> HIDE DEF st
  <2>3. StateOK(st) /\ Tracked(st, Under(ops), Shown)
    BY <1>0, <2>2 DEF StateOK, Tracked
  <2>4. QED
    BY <2>1, <2>3, QueryKeeps
<1>2. CASE Focus \/ Retry \/ Poll
  <2>1. Become(Started(Now)) /\ QueryStep
    BY <1>2 DEF Focus, Retry, Poll, StartFetch
  <2>2. QED
    BY <1>0, <2>1, StartedKeeps, QueryKeeps
<1>3. CASE Collect
  <2> DEFINE st == [cache |-> EmptyCache, fetch |-> fetch]
  <2>1. Become(st) /\ QueryStep /\ fetch.kind = "idle"
    BY <1>3 DEF Collect, Become
  <2>2. /\ st \in States /\ st.fetch = fetch /\ st.cache.has = FALSE
        /\ st.cache.unseen = {}
    BY <1>0 DEF States, Entry, EmptyCache
  <2> HIDE DEF st
  <2>3. StateOK(st) /\ Tracked(st, Under(ops), Shown)
    BY <1>0, <2>1, <2>2 DEF StateOK, Tracked
  <2>4. QED
    BY <2>1, <2>3, QueryKeeps
<1>4. CASE ServerReads
  <2> DEFINE st == [cache |-> cache, fetch |-> [fetch EXCEPT !.served = TRUE]]
  <2>1. Become(st) /\ QueryStep /\ fetch.kind # "idle"
    BY <1>4 DEF ServerReads, Become
  <2>2. /\ st \in States /\ st.cache = cache /\ st.fetch.kind = fetch.kind
        /\ st.fetch.unseen = fetch.unseen /\ st.fetch.met = fetch.met
    BY <1>0 DEF States, Load
  <2> HIDE DEF st
  <2>3. StateOK(st) /\ Tracked(st, Under(ops), Shown)
    BY <1>0, <2>1, <2>2 DEF StateOK, Tracked
  <2>4. QED
    BY <2>1, <2>3, QueryKeeps
<1>5. CASE Arrive
  <2> DEFINE unseen == IF fetch.met /\ fetch.unseen # {} THEN {"raced"} ELSE fetch.unseen
             st == [cache |-> [has |-> TRUE, stale |-> FALSE, failed |-> FALSE,
                               unseen |-> unseen],
                    fetch |-> Idle]
  <2>1. Become(st) /\ QueryStep
    BY <1>5 DEF Arrive, Become
  <2>2. /\ unseen \in SUBSET Causes
        /\ fetch.met => \A h \in unseen : ~Own(h)
        /\ \A h \in unseen : Own(h) => h \in fetch.unseen
    BY <1>0 DEF Load, Causes, Own
  <2> HIDE DEF unseen
  <2>3. Idle \in Load /\ Idle.unseen = {} /\ ~Idle.served
    BY DEF Idle, Load
  <2>4. /\ st \in States /\ st.cache.has = TRUE /\ st.cache.unseen = unseen
        /\ st.fetch = Idle
    BY <2>2, <2>3 DEF States, Entry
  <2> HIDE DEF st
  <2>5. StateOK(st) /\ Tracked(st, Under(ops), Shown)
    BY <1>0, <2>2, <2>3, <2>4 DEF StateOK, Tracked, Mine
  <2>6. QED
    BY <2>1, <2>5, QueryKeeps
<1>6. CASE Fail
  <2> DEFINE st == [cache |-> [cache EXCEPT !.failed = TRUE], fetch |-> Idle]
  <2>1. Become(st) /\ QueryStep
    BY <1>6 DEF Fail, Become
  <2>2. Idle \in Load /\ Idle.unseen = {} /\ ~Idle.served
    BY DEF Idle, Load
  <2>3. /\ st \in States /\ st.cache.has = cache.has /\ st.cache.failed = TRUE
        /\ st.cache.unseen = cache.unseen /\ st.fetch = Idle
    BY <1>0, <2>2 DEF States, Entry
  <2> HIDE DEF st
  <2>4. StateOK(st) /\ Tracked(st, Under(ops), Shown)
    BY <1>0, <2>2, <2>3 DEF StateOK, Tracked
  <2>5. QED
    BY <2>1, <2>4, QueryKeeps
<1>7. CASE ForeignWrite
  <2>1. Become(Written(Now, "foreign")) /\ QueryStep
    BY <1>7 DEF ForeignWrite
  <2>2. "foreign" \in Causes /\ ~Own("foreign")
    BY DEF Causes, Own
  <2>3. /\ StateOK(Written(Now, "foreign"))
        /\ Tracked(Written(Now, "foreign"), Under(ops), Shown)
    BY <1>0, <2>2, WrittenKeeps
  <2>4. QED
    BY <2>1, <2>3, QueryKeeps
<1>8. CASE Push
  <2>1. Become(Invalidated(Now, Shown)) /\ QueryStep
    BY <1>8 DEF Push
  <2>2. /\ StateOK(Invalidated(Now, Shown))
        /\ Tracked(Invalidated(Now, Shown), Under(ops), Shown)
    BY <1>0, InvalidatedKeeps
  <2>3. QED
    BY <2>1, <2>2, QueryKeeps
<1>9. QED
  BY <1>1, <1>2, <1>3, <1>4, <1>5, <1>6, <1>7, <1>8

(* A request is sent, from a page that has its control.                     *)
LEMMA SubmitTracks ==
    ASSUME Tracking, NEW pc \in HasControl, page = pc[1], Submit(pc[2])
    PROVE  Tracking'
<1> DEFINE c == pc[2]
           r == [control |-> c, phase |-> "sent", here |-> TRUE, dialog |-> dialog]
<1>1. <<page, c>> \in HasControl /\ page # Elsewhere
  BY TablesAssumption DEF Submit
<1>2. c \in SentControls
  BY <1>1 DEF SentControls, Tracking, PageOK
<1>3. r \in Requests
  BY <1>2 DEF Requests, Tracking
<1>4. ops' = Append(ops, r) /\ UNCHANGED <<watch, page, view, cache, fetch, dialog>>
  BY DEF Submit
<1> HIDE DEF r, c
<1>5. ops' \in Seq(Requests) /\ Under(ops) \subseteq Under(ops')
  BY <1>3, <1>4, Appended DEF Tracking
<1>6. Under(ops) \subseteq Under(ops)'
  BY <1>5 DEF Under
<1>7. Become(Now) /\ (Shown <=> Shown')
  BY <1>4 DEF Become, Now, On, Shown
<1>8. StateOK(Now)' /\ Tracked(Now, Under(ops), Shown)'
  BY <1>4, <1>6, <1>7, NextNow DEF Tracking
<1>9. QED
  BY <1>4, <1>5, <1>8, SameRequests DEF Tracking, PageOK

(* The server carries a request out or refuses it.                          *)
LEMMA CarryTracks ==
    ASSUME Tracking, NEW i \in DOMAIN ops, Carry(i)
    PROVE  Tracking'
<1>1. PICK phase \in {"done", "refused", "lost"} :
        /\ ops' = [ops EXCEPT ![i].phase = phase]
        /\ Become(IF phase = "refused" \/ ~Writes(ops[i].control) THEN Now
                   ELSE Written(Now, IF phase = "done" THEN ops[i].control.hook
                                     ELSE "unanswered"))
  BY DEF Carry
<1>2. UNCHANGED <<watch, page, view, dialog>> /\ ops[i].phase = "sent"
  BY DEF Carry
<1>3. ops \in Seq(Requests) /\ StateOK(Now) /\ Tracked(Now, Under(ops), Shown)
  BY DEF Tracking
<1>4. /\ ops' \in Seq(Requests) /\ Under(ops) \subseteq Under(ops')
      /\ phase = "done" => ops[i].control.hook \in Under(ops')
  <2> DEFINE u == [ops EXCEPT ![i].phase = phase]
  <2>1. /\ u \in Seq(Requests) /\ Under(ops) \subseteq Under(u)
        /\ phase = "done" => ops[i].control.hook \in Under(u)
    BY <1>2, <1>3, Carried
  <2>2. ops' = u
    BY <1>1
  <2> HIDE DEF u
  <2>3. QED
    BY <2>1, <2>2
<1>5. Shown <=> Shown'
  BY <1>2 DEF On, Shown
<1>6. Under(ops') = Under(ops)'
  BY DEF Under
<1>7. StateOK(Now)' /\ Tracked(Now, Under(ops), Shown)'
  <2>1. CASE phase = "refused" \/ ~Writes(ops[i].control)
    <3>1. Become(Now)
      BY <1>1, <2>1
    <3>2. QED
      BY <1>2, <1>3, <1>4, <1>5, <1>6, <3>1, NextNow
  <2>2. CASE ~(phase = "refused" \/ ~Writes(ops[i].control)) /\ phase = "done"
    <3> DEFINE h == ops[i].control.hook
    <3>1. ops[i].control \in SentControls
      <4>1. \A r \in Requests : r.control \in SentControls
        BY DEF Requests
      <4>2. ops[i] \in Requests
        BY <1>3
      <4>3. QED
        BY <4>1, <4>2
    <3>2. PICK y \in HasControl :
             y[2] = ops[i].control /\ (watch = None \/ <<y[1], watch>> \in Sites)
      BY <3>1 DEF SentControls
    <3>3. h \in Causes
      BY <3>2 DEF Causes
    <3>4. <<h, watch>> \in WritesTo /\ watch # None
      BY <2>2, TablesAssumption DEF Writes
    <3>5. Changes(h)
      BY <3>2, <3>4 DEF Changes, Writers
    <3>6. Become(Written(Now, h))
      BY <1>1, <2>2
    <3> HIDE DEF h
    <3>7. h \in Under(ops')
      BY <1>4, <2>2 DEF h
    <3>8. StateOK(Written(Now, h)) /\ Tracked(Written(Now, h), Under(ops'), Shown)
      BY <1>3, <1>4, <3>3, <3>5, <3>7, WrittenKeeps
    <3>9. QED
      BY <1>2, <1>5, <1>6, <3>6, <3>8, NextNow
  <2>3. CASE ~(phase = "refused" \/ ~Writes(ops[i].control)) /\ phase # "done"
    <3>1. Become(Written(Now, "unanswered"))
      BY <1>1, <2>3
    <3>2. "unanswered" \in Causes /\ ~Own("unanswered")
      BY DEF Causes, Own
    <3>3. /\ StateOK(Written(Now, "unanswered"))
          /\ Tracked(Written(Now, "unanswered"), Under(ops'), Shown)
      BY <1>3, <1>4, <3>2, WrittenKeeps
    <3>4. QED
      BY <1>2, <1>5, <1>6, <3>1, <3>3, NextNow
  <2>4. QED
    BY <2>1, <2>2, <2>3
<1>8. QED
  BY <1>2, <1>4, <1>7, SameRequests DEF Tracking, PageOK

(* The hook's onSuccess: what its own request wrote is tracked from now on  *)
(* without it.                                                              *)
LEMMA OnSuccessKeeps ==
    ASSUME StateOK(Now), NEW U, NEW V, NEW h, Tracked(Now, U, Shown),
           U \subseteq V \cup {h}
    PROVE  StateOK(OnSuccess(h)) /\ Tracked(OnSuccess(h), V, Shown)
<1>1. CASE <<h, watch>> \in Refreshes
  BY <1>1, InvalidatedKeeps DEF OnSuccess
<1>2. CASE <<h, watch>> \notin Refreshes
  <2>1. OnSuccess(h) = Now
    BY <1>2 DEF OnSuccess
  <2>2. Tracked(Now, V, Shown)
    BY <1>2 DEF Tracked, Mine
  <2>3. QED
    BY <2>1, <2>2
<1>3. QED
  BY <1>1, <1>2

(* An answer is settled.                                                    *)
LEMMA SettleTracks ==
    ASSUME Tracking, NEW i \in DOMAIN ops, Settle(i)
    PROVE  Tracking'
<1>0. /\ ops \in Seq(Requests) /\ StateOK(Now) /\ Tracked(Now, Under(ops), Shown)
      /\ dialog \in 0..2 /\ PageOK
  BY DEF Tracking
<1> DEFINE rest == Without(ops, i)
           h == ops[i].control.hook
<1>1. /\ rest \in Seq(Requests)
      /\ Under(ops) \subseteq Under(rest) \cup {h}
      /\ ops[i].phase # "done" => Under(ops) \subseteq Under(rest)
  BY <1>0, WithoutOne
<1>2. /\ StateOK(OnSuccess(h)) /\ Tracked(OnSuccess(h), Under(rest), Shown)
  BY <1>0, <1>1, OnSuccessKeeps
<1>3. CASE SettleFailed(i)
  <2>1. /\ UNCHANGED <<watch, page, view, cache, fetch, dialog>>
        /\ ops' = rest /\ ops[i].phase # "done"
    BY <1>3 DEF SettleFailed, Settled
  <2>2. Become(Now) /\ (Shown <=> Shown')
    BY <2>1 DEF Become, Now, On, Shown
  <2>3. Under(ops) \subseteq Under(ops)'
    BY <1>1, <2>1 DEF Under
  <2>4. StateOK(Now)' /\ Tracked(Now, Under(ops), Shown)'
    BY <1>0, <2>1, <2>2, <2>3, NextNow
  <2>5. QED
    BY <1>0, <1>1, <2>1, <2>4, SameRequests DEF Tracking, PageOK
<1>4. CASE SettleAndGo(i)
  <2>1. /\ UNCHANGED watch
        /\ Visit(Land(ops[i].control.done), OnSuccess(h), rest)
    BY <1>4 DEF SettleAndGo, Settled
  <2>2. \/ Land(ops[i].control.done) = Elsewhere
        \/ <<Land(ops[i].control.done), watch>> \in Sites
    BY DEF Land
  <2>3. QED
    BY <1>1, <1>2, <2>1, <2>2, VisitKeeps
<1>5. CASE SettleAndStay(i)
  <2>1. /\ UNCHANGED <<watch, page, view>> /\ dialog' \in 0..2
        /\ ops' = rest /\ Become(OnSuccess(h))
    BY <1>0, <1>5 DEF SettleAndStay, Settled
  <2>2. Shown <=> Shown'
    BY <2>1 DEF On, Shown
  <2>3. Under(rest) \subseteq Under(ops)'
    BY <2>1 DEF Under
  <2>4. StateOK(Now)' /\ Tracked(Now, Under(ops), Shown)'
    BY <1>2, <2>1, <2>2, <2>3, NextNow
  <2>5. QED
    BY <1>0, <1>1, <2>1, <2>4, SameRequests DEF Tracking, PageOK
<1>6. QED
  BY <1>3, <1>4, <1>5 DEF Settle
(* The entry and the requests are tracked through every step.               *)
LEMMA TrackingStep == Tracking /\ [Next]_vars => Tracking'
  BY MovesTrack, EntryTracks, SubmitTracks, CarryTracks, SettleTracks DEF Next

-----------------------------------------------------------------------------
(* An edited form keeps its page and its entry: only a visit takes the page *)
(* away, and it discards the form.                                          *)
LEMMA FormStep == Tracking /\ FormHeld /\ [Next]_vars => FormHeld'
<1> SUFFICES ASSUME Tracking, FormHeld, [Next]_vars PROVE FormHeld'
  OBVIOUS
<1>0. /\ Now \in States /\ cache \in Entry /\ fetch \in Load
      /\ cache.has \in BOOLEAN
  BY DEF Tracking, StateOK, Now, States, Entry
<1>1. ASSUME form' = "clean" PROVE FormHeld'
  BY <1>1 DEF FormHeld
<1>2. ASSUME UNCHANGED <<watch, page, view>>, cache.has => cache'.has,
             form' = form \/ form # "clean"
      PROVE  FormHeld'
  <2>1. Shown => Shown'
    BY <1>2 DEF On, Shown
  <2>2. QED
    BY <1>2, <2>1 DEF FormHeld
<1>3. CASE \/ \E s \in Sites : watch = s[2] /\ Open(s[1])
           \/ Leave
  BY <1>3, <1>1 DEF Open, Leave, Visit
<1>4. CASE TurnView
  <2>1. page \in HasViews /\ UNCHANGED form
    BY <1>4 DEF TurnView
  <2>2. <<page, watch>> \notin Reseeds
    BY <2>1, TablesAssumption
  <2>3. form = "clean"
    BY <2>2 DEF FormHeld
  <2>4. QED
    BY <1>1, <2>1, <2>3
<1>5. CASE OpenDialog \/ CloseDialog \/ UNCHANGED vars
  BY <1>5, <1>2 DEF OpenDialog, CloseDialog, vars
<1>6. CASE Edit
  <2>1. /\ Shown /\ cache.has /\ <<page, watch>> \in Reseeds
        /\ UNCHANGED <<watch, page, view, cache>>
    BY <1>6 DEF Edit
  <2>2. QED
    BY <2>1 DEF FormHeld, Shown, On
<1>7. CASE Age \/ ServerReads \/ Fail
  <2>1. UNCHANGED <<watch, page, view, form>>
    BY <1>7 DEF Age, ServerReads, Fail, QueryStep
  <2>2. cache'.has = cache.has
    BY <1>0, <1>7 DEF Age, ServerReads, Fail, Entry
  <2>3. QED
    BY <1>2, <2>1, <2>2
<1>8. CASE Focus \/ Retry \/ Poll
  <2>1. UNCHANGED <<watch, page, view, form>> /\ Become(Started(Now))
    BY <1>8 DEF Focus, Retry, Poll, StartFetch, QueryStep
  <2>2. Started(Now).cache = cache
    BY <1>0, StartedIs DEF Now
  <2>3. QED
    BY <1>2, <2>1, <2>2 DEF Become
<1>9. CASE Collect
  <2>1. ~Shown /\ UNCHANGED form
    BY <1>9 DEF Collect
  <2>2. QED
    BY <1>1, <2>1 DEF FormHeld
<1>10. CASE Arrive
  <2>1. UNCHANGED <<watch, page, view>> /\ cache'.has
    BY <1>10 DEF Arrive, QueryStep
  <2>2. form' = "clean" \/ form' = form
    BY <1>10 DEF Arrive
  <2>3. QED
    BY <1>1, <1>2, <2>1, <2>2
<1>11. CASE ForeignWrite
  <2>1. UNCHANGED <<watch, page, view, form>> /\ Become(Written(Now, "foreign"))
    BY <1>11 DEF ForeignWrite, QueryStep
  <2>2. QED
    BY <1>0, <1>2, <2>1, HasKept DEF Become, Now
<1>12. CASE Push
  <2>1. UNCHANGED <<watch, page, view, form>> /\ Become(Invalidated(Now, Shown))
    BY <1>12 DEF Push, QueryStep
  <2>2. QED
    BY <1>0, <1>2, <2>1, HasKept DEF Become, Now
<1>13. ASSUME NEW pc \in HasControl, page = pc[1], Submit(pc[2]) PROVE FormHeld'
  <2>1. UNCHANGED <<watch, page, view, cache>>
    BY <1>13 DEF Submit
  <2>2. form' = form \/ form # "clean"
    BY <1>13 DEF Submit
  <2>3. QED
    BY <1>2, <2>1, <2>2
<1>14. ASSUME NEW i \in DOMAIN ops, Carry(i) PROVE FormHeld'
  <2>1. UNCHANGED <<watch, page, view, form>>
    BY <1>14 DEF Carry
  <2>2. \/ Become(Now)
        \/ \E cause : Become(Written(Now, cause))
    BY <1>14 DEF Carry
  <2>3. QED
    BY <1>0, <1>2, <2>1, <2>2, HasKept DEF Become, Now
<1>15. ASSUME NEW i \in DOMAIN ops, Settle(i) PROVE FormHeld'
  <2>1. CASE SettleAndGo(i)
    BY <1>1, <2>1 DEF SettleAndGo, Visit
  <2>2. CASE SettleFailed(i)
    <3>1. UNCHANGED <<watch, page, view, cache>> /\ (form' = form \/ form = "sent")
      BY <2>2 DEF SettleFailed, Settled, FormAfter
    <3>2. QED
      BY <1>2, <3>1
  <2>3. CASE SettleAndStay(i)
    <3>1. /\ UNCHANGED <<watch, page, view>> /\ (form' = form \/ form = "sent")
          /\ Become(OnSuccess(ops[i].control.hook))
      BY <2>3 DEF SettleAndStay, Settled, FormAfter
    <3>2. cache.has => cache'.has
      BY <1>0, <3>1, HasKept DEF Become, Now, OnSuccess
    <3>3. QED
      BY <1>2, <3>1, <3>2
  <2>4. QED
    BY <1>15, <2>1, <2>2, <2>3 DEF Settle
<1>16. QED
  BY <1>3, <1>4, <1>5, <1>6, <1>7, <1>8, <1>9, <1>10, <1>11, <1>12, <1>13,
     <1>14, <1>15
  DEF Next

-----------------------------------------------------------------------------
(* What a step reports to the user.                                         *)
Reports == FailureHeard /\ LateAnswersKeepOut /\ EditsKept

(* A step that reports nothing reports nothing wrong.                       *)
LEMMA NothingReported == event' = Nothing => Reports'
  BY DEF Nothing, Reports, FailureHeard, LateAnswersKeepOut, EditsKept

(* Every report of a step is one that may be made: an answer settles as its *)
(* control allows, and an edited form is reset by a changed record only.    *)
LEMMA ReportsStep == Tracking /\ FormHeld /\ Reports /\ [Next]_vars => Reports'
<1> SUFFICES ASSUME Tracking, FormHeld, Reports, [Next]_vars PROVE Reports'
  OBVIOUS
<1>1. CASE UNCHANGED vars
  BY <1>1 DEF vars, Reports, FailureHeard, LateAnswersKeepOut, EditsKept
<1>2. CASE Arrive
  <2> DEFINE wiped == [what |-> "wiped", by |-> cache.unseen]
  <2>1. CASE event' = Nothing
    BY <2>1, NothingReported
  <2>2. CASE event' # Nothing
    <3>1. event' = wiped /\ form = "edited" /\ Differs(cache, cache')
      BY <1>2, <2>2 DEF Arrive
    <3>2. cache.has
      BY <3>1 DEF FormHeld
    <3>3. cache.unseen # cache'.unseen
      BY <3>1, <3>2 DEF Differs
    <3>4. fetch.unseen = {} => cache'.unseen = {}
      BY <1>2 DEF Arrive
    <3>5. cache.unseen = {} => fetch.unseen = {}
      BY <3>2 DEF Tracking, StateOK, Now
    <3>6. cache.unseen # {}
      BY <3>3, <3>4, <3>5
    <3>7. QED
      BY <3>1, <3>6 DEF Reports, FailureHeard, LateAnswersKeepOut, EditsKept
  <2>3. QED
    BY <2>1, <2>2
<1>3. ASSUME NEW i \in DOMAIN ops, Settle(i) PROVE Reports'
  <2> DEFINE o == ops[i]
             c == ops[i].control
  <2>1. PICK x \in HasControl : x[2] = c
    <3>1. \A r \in Requests : r.control \in SentControls
      BY DEF Requests
    <3>2. o \in Requests
      BY DEF Tracking
    <3>3. QED
      BY <3>1, <3>2 DEF SentControls
  <2>2. /\ \/ c.hook \in Toasts \cup KnownSilent
           \/ c.shown /\ c.hook \in KnownOnPageOnly
        /\ c.call = "async" /\ c.done \notin {"stay", "close"}
             => c.hook \in KnownLateMoves
        /\ c.done = "close" => c.hook \in KnownLateCloses
    BY <2>1, TablesAssumption
  <2>3. CASE event' = Nothing
    BY <2>3, NothingReported
  <2>4. CASE SettleFailed(i) /\ event' # Nothing
    <3>1. /\ event' = [what |-> "unheard", hook |-> c.hook, here |-> o.here]
          /\ ~Reported(o)
      BY <2>4 DEF SettleFailed
    <3>2. c.hook \notin Toasts /\ ~(c.shown /\ o.here)
      BY <3>1 DEF Reported
    <3>3. event'.what = "unheard" /\ event'.hook = c.hook /\ event'.here = o.here
      BY <3>1
    <3>4. c.hook \in KnownSilent \cup IF o.here THEN {} ELSE KnownOnPageOnly
      BY <2>2, <3>2
    <3>5. QED
      BY <3>3, <3>4 DEF Reports, FailureHeard, LateAnswersKeepOut, EditsKept
  <2>5. CASE SettleAndGo(i) /\ event' # Nothing
    <3>1. event' = [what |-> "moved", hook |-> c.hook] /\ ~o.here /\ Goes(o)
      BY <2>5 DEF SettleAndGo
    <3>2. c.hook \in KnownLateMoves
      BY <2>2, <3>1 DEF Goes, Continues
    <3>3. event'.what = "moved" /\ event'.hook = c.hook
      BY <3>1
    <3>4. QED
      BY <3>2, <3>3 DEF Reports, FailureHeard, LateAnswersKeepOut, EditsKept
  <2>6. CASE SettleAndStay(i) /\ event' # Nothing
    <3>1. event' = [what |-> "closed", hook |-> c.hook] /\ Closes(o)
      BY <2>6 DEF SettleAndStay
    <3>2. c.hook \in KnownLateCloses
      BY <2>2, <3>1 DEF Closes
    <3>3. event'.what = "closed" /\ event'.hook = c.hook
      BY <3>1
    <3>4. QED
      BY <3>2, <3>3 DEF Reports, FailureHeard, LateAnswersKeepOut, EditsKept
  <2>7. QED
    BY <1>3, <2>3, <2>4, <2>5, <2>6 DEF Settle
<1>4. CASE /\ ~UNCHANGED vars /\ ~Arrive
           /\ ~\E i \in DOMAIN ops : Settle(i)
  <2>1. event' = Nothing
    BY <1>4
    DEF Next, Open, Leave, TurnView, OpenDialog, CloseDialog, Edit, Age, Focus,
        Retry, Poll, Collect, ServerReads, Fail, ForeignWrite, Push, Submit, Carry
  <2>2. QED
    BY <2>1, NothingReported
<1>5. QED
  BY <1>1, <1>2, <1>3, <1>4

-----------------------------------------------------------------------------
(* A tab opens with an empty cache and no request.                          *)
LEMMA InitIInv == Init => IInv
<1> SUFFICES ASSUME Init PROVE IInv
  OBVIOUS
<1>1. /\ EmptyCache \in Entry /\ Idle \in Load
      /\ EmptyCache.unseen = {} /\ Idle.unseen = {} /\ ~Idle.served
  BY DEF EmptyCache, Idle, Entry, Load
<1>2. /\ Now \in States /\ Now.cache.unseen = {} /\ Now.fetch.unseen = {}
      /\ ~Now.fetch.served
  BY <1>1 DEF Init, Now, States
<1>3. StateOK(Now) /\ Tracked(Now, Under(ops), Shown)
  BY <1>2 DEF StateOK, Tracked
<1>4. PageOK
  BY DEF Init, PageOK
<1>5. dialog \in 0..2 /\ ops \in Seq(Requests) /\ form = "clean" /\ event = Nothing
  BY DEF Init
<1>6. FailureHeard /\ LateAnswersKeepOut /\ EditsKept
  BY <1>5 DEF Nothing, FailureHeard, LateAnswersKeepOut, EditsKept
<1>7. QED
  BY <1>3, <1>4, <1>5, <1>6 DEF IInv, FormHeld

(* The inductive invariant holds in every reachable state.                  *)
LEMMA ScreensInv == Spec => []IInv
<1>1. IInv <=> Tracking /\ FormHeld /\ Reports
  BY DEF IInv, Tracking, Reports
<1>2. IInv /\ [Next]_vars => IInv'
  <2>1. Tracking /\ FormHeld /\ Reports /\ [Next]_vars
          => Tracking' /\ FormHeld' /\ Reports'
    BY TrackingStep, FormStep, ReportsStep
  <2>2. Tracking' /\ FormHeld' /\ Reports' => IInv'
    BY DEF IInv, Tracking, Reports
  <2>3. QED
    BY <1>1, <2>1, <2>2
<1>3. QED
  BY InitIInv, <1>2, PTL DEF Spec

(* Query cache and mutations (useQuery, invalidateQueries): once nothing is *)
(* in flight, a page shows what the user's answered requests changed, for   *)
(* any number of requests, in whatever order their answers, the loads and   *)
(* the visits of pages come.                                                *)
THEOREM WritesAreRead == Spec => []ReadYourWrites
<1>1. IInv => ReadYourWrites
  <2> SUFFICES ASSUME IInv, ops = <<>>, fetch = Idle, Shown, ~cache.failed,
                      NEW h \in cache.unseen \ {"foreign", "unanswered", "raced"}
               PROVE  <<h, watch>> \in KnownGaps
    BY DEF ReadYourWrites
  <2>1. Under(ops) = {}
    BY DEF Under
  <2>2. fetch.kind = "idle"
    BY DEF Idle
  <2>3. Own(h) /\ Changes(h)
    BY DEF Own, IInv, StateOK, Now
  <2>4. ~Mine(h)
    BY <2>1, <2>2 DEF IInv, Tracked, Now
  <2>5. <<h, watch>> \in WritesTo \ Refreshes /\ h \in Writers(watch)
    BY <2>3, <2>4 DEF Mine, Changes
  <2>6. QED
    BY <2>5, TablesAssumption
<1>2. QED
  BY <1>1, ScreensInv, PTL

(* onError of the hooks and of the pages: no failure passes unnoticed, bar  *)
(* the ones of the mutations known by name.                                 *)
THEOREM FailuresAreHeard == Spec => []FailureHeard
<1>1. IInv => FailureHeard
  BY DEF IInv
<1>2. QED
  BY <1>1, ScreensInv, PTL

(* Answers that come late leave the user where he is, bar the known ones.   *)
THEOREM LateAnswersStayOut == Spec => []LateAnswersKeepOut
<1>1. IInv => LateAnswersKeepOut
  BY DEF IInv
<1>2. QED
  BY <1>1, ScreensInv, PTL

(* Forms seeded from a query: a reload resets edits only if the record      *)
(* really changed.                                                          *)
THEOREM EditsAreKept == Spec => []EditsKept
<1>1. IInv => EditsKept
  BY DEF IInv
<1>2. QED
  BY <1>1, ScreensInv, PTL
=============================================================================
