------------------------------ MODULE ProxyPool ------------------------------
(***************************************************************************)
(* The proxy pool (internal/proxypool/manager.go): one pool of sessions    *)
(* per channel, filled from the channel's extraction API, one reservation  *)
(* map shared by all channels, and Acquire, which tasks call at the same   *)
(* time.  Each stretch of Acquire under m.mu is one step; the HTTP request *)
(* and the wait for somebody else's request happen between two steps.      *)
(* Time runs in ticks, and every instant of the code is kept as the number *)
(* of ticks until it.  The extraction API is the environment: it answers   *)
(* with sessions, also ones it has given out before, or with an error.     *)
(***************************************************************************)
EXTENDS Integers

CONSTANTS
  Channels,     \* the channels
  Tasks,        \* calls of Acquire and the work done with their lease
  ChannelOf,    \* the channel of each task
  Budget,       \* minValidity of each task, in ticks
  Configs,      \* the settings a channel may have
  Sessions,     \* the proxy sessions an API may answer with
  Cache,        \* cacheLifetime
  Margin,       \* rotationMargin
  Backoff,      \* failureBackoff
  Reserve,      \* reservation of a session of no known end (10 minutes)
  FetchTicks,   \* the longest request (two attempts under the HTTP timeout)
  Requests,     \* calls of Acquire and Save in a behaviour
  Faults        \* whether reading the settings may fail

Larger(a, b) == IF a > b THEN a ELSE b

\* window is the API's sessTime, 0 when it names none.
ASSUME ConfigAssumption ==
  Configs \subseteq [source : {"off", "list", "api"}, url : Nat, window : Nat]
ASSUME TaskAssumption ==
  /\ ChannelOf \in [Tasks -> Channels]
  /\ Budget \in [Tasks -> Nat]
ASSUME TickAssumption ==
  /\ Cache \in Nat /\ Margin \in Nat /\ Backoff \in Nat /\ Reserve \in Nat
  /\ FetchTicks \in Nat /\ Requests \in Nat
  /\ Faults \in BOOLEAN

NoDeadline == -1
NoConfig == [source |-> "none", url |-> 0, window |-> 0]
NoTask == "none"
NoSession == "none"
ASSUME NameAssumption == NoTask \notin Tasks /\ NoSession \notin Sessions
NoLease == [proxy |-> NoSession, left |-> 0, reserved |-> 0]

Stages == {"idle", "acquire", "wait", "fetch", "direct", "listed", "leased",
           "failed"}

VARIABLES
  config,     \* the settings rows of each channel
  fp,         \* pool.fingerprint: the settings the pool was filled under
  entries,    \* pool.entries, all of one answer, whose order is left out
  fetching,   \* pool.fetching: the task whose request is under way
  backoff,    \* ticks until pool.retryAfter
  used,       \* m.used: ticks a session stays reserved, 0 when it is not in it
  pc,         \* where each task is
  asked,      \* the settings its request was sent for
  age,        \* ticks since it sent the request
  cancelled,  \* its context is cancelled
  lease,      \* what Acquire returned, and what is left of it and its reservation
  requests    \* calls left

poolVars == <<fp, entries, fetching, backoff>>
taskVars == <<pc, asked, age, cancelled, lease>>
vars == <<config, poolVars, used, taskVars, requests>>

-----------------------------------------------------------------------------
Init ==
  /\ config \in [Channels -> Configs]
  /\ fp = [c \in Channels |-> NoConfig]
  /\ entries = [c \in Channels |-> {}]
  /\ fetching = [c \in Channels |-> NoTask]
  /\ backoff = [c \in Channels |-> 0]
  /\ used = [x \in Sessions |-> 0]
  /\ pc = [t \in Tasks |-> "idle"]
  /\ asked = [t \in Tasks |-> NoConfig]
  /\ age = [t \in Tasks |-> 0]
  /\ cancelled = [t \in Tasks |-> FALSE]
  /\ lease = [t \in Tasks |-> NoLease]
  /\ requests = Requests

Spend == requests > 0 /\ requests' = requests - 1

\* usable(), and not reserved.
Usable(e, budget) ==
  e.cached > 0 /\ (e.left = NoDeadline \/ budget < e.left)
\* Mutant: the reservations are not consulted.
AvailableUsable(e, budget) == Usable(e, budget)
Available(e, budget) == Usable(e, budget) /\ used[e.proxy] = 0

-----------------------------------------------------------------------------
(* Acquire.                                                                *)

Begin(t) ==
  /\ Spend
  /\ pc[t] = "idle"
  /\ pc' = [pc EXCEPT ![t] = "acquire"]
  /\ UNCHANGED <<config, poolVars, used, asked, age, cancelled, lease>>

AtLoop(t) == pc[t] = "acquire" /\ ~cancelled[t]
Conf(t) == config[ChannelOf[t]]
TooShort(t) ==
  Conf(t).window > 0 /\ Conf(t).window <= Budget[t] + Margin

Return(t, outcome) ==
  /\ pc' = [pc EXCEPT ![t] = outcome]
  /\ UNCHANGED <<config, used, asked, age, cancelled, requests>>

(* ctx.Err() at the head of the loop, ctx.Done() while waiting.            *)
GiveUp(t) ==
  /\ pc[t] \in {"acquire", "wait"} /\ cancelled[t]
  /\ Return(t, "failed")
  /\ UNCHANGED <<poolVars, lease>>

(* The settings cannot be read.                                            *)
ReadFails(t) ==
  /\ Faults /\ AtLoop(t)
  /\ Return(t, "failed")
  /\ UNCHANGED <<poolVars, lease>>

(* A channel that is switched off, and a rotation window too short for the *)
(* task, are answered before the pool is looked at.                        *)
Direct(t) ==
  /\ AtLoop(t) /\ Conf(t).source = "off"
  /\ Return(t, "direct")
  /\ UNCHANGED <<poolVars, lease>>

WindowError(t) ==
  /\ AtLoop(t) /\ Conf(t).source = "api" /\ TooShort(t)
  /\ Return(t, "failed")
  /\ UNCHANGED <<poolVars, lease>>

(* poolLocked: a pool filled under other settings starts afresh; a request *)
(* under way stays registered.                                             *)
Kept(c) == fp[c] = config[c]
PoolEntries(c) == IF Kept(c) THEN entries[c] ELSE {}
PoolBackoff(c) == IF Kept(c) THEN backoff[c] ELSE 0

LookUp(t, rest, blocked) ==
  /\ fp' = [fp EXCEPT ![ChannelOf[t]] = Conf(t)]
  /\ entries' = [entries EXCEPT ![ChannelOf[t]] = rest]
  /\ backoff' = [backoff EXCEPT ![ChannelOf[t]] = blocked]

(* A list rotates without reservations; its order is left out.             *)
FromList(t) ==
  /\ AtLoop(t) /\ Conf(t).source = "list"
  /\ LookUp(t, PoolEntries(ChannelOf[t]), PoolBackoff(ChannelOf[t]))
  /\ Return(t, "listed")
  /\ UNCHANGED <<fetching, lease>>

FromApi(t) == AtLoop(t) /\ Conf(t).source = "api" /\ ~TooShort(t)
Fitting(t) ==
  {e \in PoolEntries(ChannelOf[t]) : Available(e, Budget[t])}
Unfit(t) == PoolEntries(ChannelOf[t]) \ Fitting(t)

\* The session's own end, or one that covers the task.
Reservation(t, e) ==
  IF e.left = NoDeadline THEN Larger(Budget[t] + Margin, Reserve) ELSE e.left

(* The first entry that fits is taken, those in front of it are dropped.   *)
TakeEntry(t, e) ==
  /\ FromApi(t) /\ e \in Fitting(t)
  /\ \E dropped \in SUBSET Unfit(t) :
        LookUp(t, PoolEntries(ChannelOf[t]) \ (dropped \cup {e}),
               PoolBackoff(ChannelOf[t]))
  /\ used' = [used EXCEPT ![e.proxy] = Reservation(t, e)]
  /\ lease' = [lease EXCEPT ![t] =
                 [proxy |-> e.proxy, left |-> e.left,
                  reserved |-> Reservation(t, e)]]
  /\ pc' = [pc EXCEPT ![t] = "leased"]
  /\ UNCHANGED <<config, fetching, asked, age, cancelled, requests>>

Empty(t) == FromApi(t) /\ Fitting(t) = {}

WaitForFetch(t) ==
  /\ Empty(t) /\ fetching[ChannelOf[t]] # NoTask
  /\ LookUp(t, {}, PoolBackoff(ChannelOf[t]))
  /\ Return(t, "wait")
  /\ UNCHANGED <<fetching, lease>>

BackingOff(t) ==
  /\ Empty(t) /\ fetching[ChannelOf[t]] = NoTask
  /\ PoolBackoff(ChannelOf[t]) > 0
  /\ LookUp(t, {}, PoolBackoff(ChannelOf[t]))
  /\ Return(t, "failed")
  /\ UNCHANGED <<fetching, lease>>

StartFetch(t) ==
  /\ Empty(t) /\ fetching[ChannelOf[t]] = NoTask
  /\ PoolBackoff(ChannelOf[t]) = 0
  /\ LookUp(t, {}, 0)
  /\ fetching' = [fetching EXCEPT ![ChannelOf[t]] = t]
  /\ pc' = [pc EXCEPT ![t] = "fetch"]
  /\ asked' = [asked EXCEPT ![t] = Conf(t)]
  /\ age' = [age EXCEPT ![t] = 0]
  /\ UNCHANGED <<config, used, cancelled, lease, requests>>

-----------------------------------------------------------------------------
(* The request ends, Acquire takes m.mu again: fetching is cleared and its *)
(* channel closed, which wakes everybody who waits on it.                  *)

\* Mutant: nobody is woken.
MovesAlone(t, to) == [pc EXCEPT ![t] = to]
MovesAndWakes(t, to) ==
  [u \in Tasks |-> IF u = t THEN to
     ELSE IF pc[u] = "wait" /\ ChannelOf[u] = ChannelOf[t] THEN "acquire"
     ELSE pc[u]]

EndFetch(t, to) ==
  /\ pc[t] = "fetch"
  /\ fetching' = [fetching EXCEPT ![ChannelOf[t]] = NoTask]
  /\ pc' = MovesAndWakes(t, to)
  /\ UNCHANGED <<config, used, asked, age, cancelled, lease, requests>>

\* Mutant: the answer is used whatever happened meanwhile.
NeverOutdated(t) == pc[t] # "fetch"
\* The fingerprints are compared, of the settings and of the pool.
Outdated(t) == Conf(t) # asked[t] \/ fp[ChannelOf[t]] # asked[t]

Discard(t) ==
  /\ Outdated(t) /\ ~cancelled[t]
  /\ EndFetch(t, "acquire")
  /\ UNCHANGED <<fp, entries, backoff>>

\* What the answer becomes: sessions that fit the task that asked for them.
EntryFor(t, x) ==
  [proxy |-> x, cached |-> Larger(Cache - age[t], 0), from |-> asked[t],
   left |-> IF asked[t].window = 0 THEN NoDeadline
            ELSE Larger(asked[t].window - Margin - age[t], 0)]
Accepted(t, answer) ==
  {e \in {EntryFor(t, x) : x \in answer} : Available(e, Budget[t])}

Accept(t, answer) ==
  LET es == entries[ChannelOf[t]] \cup Accepted(t, answer)
  IN /\ ~Outdated(t) /\ ~cancelled[t] /\ es # {}
     /\ EndFetch(t, "acquire")
     /\ entries' = [entries EXCEPT ![ChannelOf[t]] = es]
     /\ backoff' = [backoff EXCEPT ![ChannelOf[t]] = 0]
     /\ UNCHANGED fp

(* The request failed, nothing in the answer fits, or the settings cannot  *)
(* be read, as with a cancelled context.  The failure of a cancelled task  *)
(* is its own: whoever waited asks again.                                  *)
FetchFails(t) ==
  /\ ~Outdated(t) \/ Faults \/ cancelled[t]
  /\ EndFetch(t, "failed")
  /\ backoff' = [backoff EXCEPT ![ChannelOf[t]] =
                   IF cancelled[t] THEN @ ELSE Backoff]
  /\ UNCHANGED <<fp, entries>>

-----------------------------------------------------------------------------
(* The rest of the system.                                                 *)

Cancel(t) ==
  /\ pc[t] \notin {"idle", "failed"} /\ ~cancelled[t]
  /\ cancelled' = [cancelled EXCEPT ![t] = TRUE]
  /\ UNCHANGED <<config, poolVars, used, pc, asked, age, lease,
                 requests>>

(* The task is over, whatever it got.                                      *)
Leave(t) ==
  /\ pc[t] \in {"direct", "listed", "leased", "failed"}
  /\ pc' = [pc EXCEPT ![t] = "idle"]
  /\ cancelled' = [cancelled EXCEPT ![t] = FALSE]
  /\ lease' = [lease EXCEPT ![t] = NoLease]
  /\ asked' = [asked EXCEPT ![t] = NoConfig]
  /\ age' = [age EXCEPT ![t] = 0]
  /\ UNCHANGED <<config, poolVars, used, requests>>

\* Mutant: the request under way is forgotten.
SaveForgetsFetch(c, cfg) ==
  /\ Spend
  /\ config' = [config EXCEPT ![c] = cfg]
  /\ fp' = [fp EXCEPT ![c] = cfg]
  /\ entries' = [entries EXCEPT ![c] = {}]
  /\ backoff' = [backoff EXCEPT ![c] = 0]
  /\ fetching' = [fetching EXCEPT ![c] = NoTask]
  /\ UNCHANGED <<used, pc, asked, age, cancelled, lease>>

(* Save writes the rows and empties the channel's pool under m.mu.  A      *)
(* request under way goes on.                                              *)
Save(c, cfg) ==
  /\ Spend
  /\ config' = [config EXCEPT ![c] = cfg]
  /\ fp' = [fp EXCEPT ![c] = cfg]
  /\ entries' = [entries EXCEPT ![c] = {}]
  /\ backoff' = [backoff EXCEPT ![c] = 0]
  /\ UNCHANGED <<fetching, used, pc, asked, age, cancelled, lease>>

Less(n) == IF n > 0 THEN n - 1 ELSE n

Older(e) == [e EXCEPT !.cached = Less(@), !.left = Less(@)]
Shorter(l) ==
  [proxy |-> l.proxy, left |-> Less(l.left), reserved |-> Less(l.reserved)]

(* A critical section is short against a tick, a request has its timeout.  *)
Tick ==
  /\ \A t \in Tasks : pc[t] # "acquire"
  /\ \A t \in Tasks : pc[t] = "fetch" => age[t] < FetchTicks
  /\ age' = [t \in Tasks |-> IF pc[t] = "fetch" THEN age[t] + 1 ELSE age[t]]
  /\ used' = [x \in Sessions |-> Less(used[x])]
  /\ backoff' = [c \in Channels |-> Less(backoff[c])]
  /\ entries' = [c \in Channels |-> {Older(e) : e \in entries[c]}]
  /\ lease' = [t \in Tasks |-> Shorter(lease[t])]
  /\ UNCHANGED <<config, fp, fetching, pc, asked, cancelled, requests>>

-----------------------------------------------------------------------------
AcquireStep(t) ==
  \/ GiveUp(t) \/ ReadFails(t) \/ Direct(t) \/ WindowError(t) \/ FromList(t)
  \/ \E e \in Fitting(t) : TakeEntry(t, e)
  \/ WaitForFetch(t) \/ BackingOff(t) \/ StartFetch(t)

FetchStep(t) ==
  \/ Discard(t)
  \/ \E answer \in SUBSET Sessions : Accept(t, answer)
  \/ FetchFails(t)

Next ==
  \/ \E t \in Tasks :
       Begin(t) \/ AcquireStep(t) \/ FetchStep(t) \/ Cancel(t) \/ Leave(t)
  \/ \E c \in Channels, cfg \in Configs : Save(c, cfg)
  \/ Tick

Spec == Init /\ [][Next]_vars

(* Go runs every goroutine, a request ends by its timeout.                 *)
Fairness == \A t \in Tasks : WF_vars(AcquireStep(t)) /\ WF_vars(FetchStep(t))

FairSpec == Spec /\ Fairness

-----------------------------------------------------------------------------
(* Properties.                                                             *)

Entry == [proxy : Sessions, cached : Nat, left : Nat \cup {NoDeadline},
            from : Configs]

TypeOK ==
  /\ config \in [Channels -> Configs]
  /\ fp \in [Channels -> Configs \cup {NoConfig}]
  /\ entries \in [Channels -> SUBSET Entry]
  /\ fetching \in [Channels -> Tasks \cup {NoTask}]
  /\ backoff \in [Channels -> Nat]
  /\ used \in [Sessions -> Nat]
  /\ pc \in [Tasks -> Stages]
  /\ asked \in [Tasks -> Configs \cup {NoConfig}]
  /\ age \in [Tasks -> Nat]
  /\ cancelled \in [Tasks -> BOOLEAN]
  /\ lease \in [Tasks -> [proxy : Sessions \cup {NoSession},
                          left : Nat \cup {NoDeadline}, reserved : Nat]]
  /\ requests \in Nat

\* The task may still use its session: the lease's context, which has a timeout
\* only when the session's end is known, has not ended.
Live(t) == pc[t] = "leased" /\ lease[t].left # 0

\* The end of its session is not known, and the task has worked longer than the
\* reservation made for it.  Nothing in the pool keeps it from doing so.
Overdue(t) == lease[t].left = NoDeadline /\ lease[t].reserved = 0

(* Two tasks work through the same session at the same time only when one  *)
(* of them has outlived its reservation: as long as it lasts, and up to a  *)
(* known end always, the session is nobody else's, of this channel or of   *)
(* another, however often the APIs repeat themselves.                      *)
LeaseExclusive ==
  \A t, u \in Tasks :
    t # u /\ Live(t) /\ Live(u) /\ lease[t].proxy = lease[u].proxy
      => Overdue(t) \/ Overdue(u)

(* What a pool holds was fetched under the settings in force: after a Save *)
(* nothing extracted from another API is handed out.                       *)
PoolFresh ==
  \A c \in Channels : \A e \in entries[c] :
    e.from = config[c] /\ fp[c] = config[c]

(* A channel has one request under way at most, and fetching names it,     *)
(* across saves, resets and cancellations.                                 *)
OneFetch ==
  \A t \in Tasks : pc[t] = "fetch" <=> fetching[ChannelOf[t]] = t

(* A task waits only for a request that will wake it.                      *)
WaiterHasFetch ==
  \A t \in Tasks : pc[t] = "wait" => fetching[ChannelOf[t]] # NoTask

(* Every Acquire returns: with a lease, without one or with an error.      *)
AcquireReturns ==
  \A t \in Tasks : pc[t] \in {"acquire", "wait", "fetch"} ~>
                   pc[t] \notin {"acquire", "wait", "fetch"}
=============================================================================
