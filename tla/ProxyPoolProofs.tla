--------------------------- MODULE ProxyPoolProofs ---------------------------
(* Proofs about ProxyPool: its types, the bookkeeping of requests, the     *)
(* origin of what a pool holds, and the exclusiveness of leases.           *)
EXTENDS ProxyPool, TLAPS

USE ConfigAssumption, TaskAssumption, TickAssumption, NameAssumption

-----------------------------------------------------------------------------
(* The arithmetic helpers stay within their types.                         *)

\* Larger of two ticks, for reservations and remaining times.
LEMMA LargerTyped ==
  ASSUME NEW a \in Int, NEW b \in Nat
  PROVE  Larger(a, b) \in Nat /\ Larger(a, b) >= a /\ Larger(a, b) >= b
BY DEF Larger

\* A tick takes one off what is left; NoDeadline stays what it is.
LEMMA LessTyped ==
  ASSUME NEW n \in Nat \cup {NoDeadline}
  PROVE  /\ Less(n) \in Nat \cup {NoDeadline}
         /\ n \in Nat => Less(n) \in Nat
         /\ Less(n) # 0 => n # 0
         /\ n > 0 => Less(n) = n - 1
         /\ n <= 0 => Less(n) = n
BY DEF Less, NoDeadline

\* An entry grows older within its type and keeps session and origin.
LEMMA OlderTyped ==
  ASSUME NEW e \in Entry
  PROVE  /\ Older(e) \in Entry
         /\ Older(e).proxy = e.proxy /\ Older(e).from = e.from
<1>1. e.cached \in Nat /\ e.left \in Nat \cup {NoDeadline}
  BY DEF Entry
<1>2. Less(e.cached) \in Nat /\ Less(e.left) \in Nat \cup {NoDeadline}
  BY <1>1, LessTyped
<1> QED BY <1>1, <1>2 DEF Older, Entry

\* A lookup in a typed pool leaves it typed.
LEMMA LookUpTyped ==
  ASSUME TypeOK, NEW t \in Tasks, NEW rest \in SUBSET Entry,
         NEW blocked \in Nat, LookUp(t, rest, blocked)
  PROVE  /\ fp' \in [Channels -> Configs \cup {NoConfig}]
         /\ entries' \in [Channels -> SUBSET Entry]
         /\ backoff' \in [Channels -> Nat]
BY DEF TypeOK, LookUp, Conf

\* What a lookup starts from is typed.
LEMMA PoolTyped ==
  ASSUME TypeOK, NEW t \in Tasks
  PROVE  /\ ChannelOf[t] \in Channels /\ Conf(t) \in Configs
         /\ PoolEntries(ChannelOf[t]) \in SUBSET Entry
         /\ Fitting(t) \in SUBSET Entry
         /\ PoolBackoff(ChannelOf[t]) \in Nat
BY DEF TypeOK, Conf, PoolEntries, PoolBackoff, Fitting

\* What Acquire makes of an answer is typed.
LEMMA AcceptedTyped ==
  ASSUME TypeOK, NEW t \in Tasks, NEW answer \in SUBSET Sessions,
         ~Outdated(t)
  PROVE  /\ Accepted(t, answer) \in SUBSET Entry
         /\ \A e \in Accepted(t, answer) : e.from = Conf(t)
<1>1. Conf(t) \in Configs /\ asked[t] = Conf(t)
  BY PoolTyped DEF Outdated
<1>2. asked[t].window \in Nat /\ age[t] \in Nat
  BY <1>1 DEF TypeOK
<1>3. ASSUME NEW x \in answer
      PROVE  EntryFor(t, x) \in Entry /\ EntryFor(t, x).from = Conf(t)
  <2>1. /\ Larger(Cache - age[t], 0) \in Nat
        /\ Larger(asked[t].window - Margin - age[t], 0) \in Nat
    BY <1>2 DEF Larger
  <2>2. x \in Sessions
    OBVIOUS
  <2> QED BY <1>1, <2>1, <2>2 DEF EntryFor, Entry
<1> QED BY <1>3 DEF Accepted

-----------------------------------------------------------------------------
(* Types.                                                                  *)

\* Waking the waiters moves tasks between stages only.
LEMMA WakesTyped ==
  ASSUME TypeOK, NEW t \in Tasks, NEW to \in Stages, EndFetch(t, to)
  PROVE  /\ fetching' \in [Channels -> Tasks \cup {NoTask}]
         /\ pc' \in [Tasks -> Stages]
BY DEF TypeOK, EndFetch, MovesAndWakes, Stages

\* One step of Acquire keeps the types.
LEMMA AcquireTyped ==
  ASSUME TypeOK, NEW t \in Tasks, AcquireStep(t)
  PROVE  TypeOK'
<1> USE PoolTyped
<1>1. CASE GiveUp(t)
  BY <1>1 DEF GiveUp, Return, TypeOK, poolVars, Stages
<1>2. CASE ReadFails(t)
  BY <1>2 DEF ReadFails, Return, TypeOK, poolVars, Stages
<1>3. CASE Direct(t)
  BY <1>3 DEF Direct, Return, TypeOK, poolVars, Stages
<1>4. CASE WindowError(t)
  BY <1>4 DEF WindowError, Return, TypeOK, poolVars, Stages
<1>5. CASE FromList(t)
  BY <1>5, LookUpTyped DEF FromList, Return, TypeOK, Stages
<1>6. ASSUME NEW e \in Fitting(t), TakeEntry(t, e)
      PROVE  TypeOK'
  <2>1. e \in Entry
    OBVIOUS
  <2>2. PICK dropped \in SUBSET Unfit(t) :
          LookUp(t, PoolEntries(ChannelOf[t]) \ (dropped \cup {e}),
                 PoolBackoff(ChannelOf[t]))
    BY <1>6 DEF TakeEntry
  <2>3. /\ fp' \in [Channels -> Configs \cup {NoConfig}]
        /\ entries' \in [Channels -> SUBSET Entry]
        /\ backoff' \in [Channels -> Nat]
    BY <2>2, LookUpTyped
  <2>4. Reservation(t, e) \in Nat
    <3>1. e.left \in Nat \cup {NoDeadline} /\ Budget[t] \in Nat
      BY <2>1 DEF Entry
    <3> QED BY <3>1 DEF Reservation, Larger
  <2>5. used' \in [Sessions -> Nat]
    BY <1>6, <2>1, <2>4 DEF TakeEntry, TypeOK, Entry
  <2>6. lease' \in [Tasks -> [proxy : Sessions \cup {NoSession},
                          left : Nat \cup {NoDeadline}, reserved : Nat]]
    BY <1>6, <2>1, <2>4 DEF TakeEntry, TypeOK, Entry
  <2> QED BY <1>6, <2>3, <2>5, <2>6 DEF TakeEntry, TypeOK, Stages
<1>7. CASE WaitForFetch(t)
  BY <1>7, LookUpTyped DEF WaitForFetch, Return, TypeOK, Stages
<1>8. CASE BackingOff(t)
  BY <1>8, LookUpTyped DEF BackingOff, Return, TypeOK, Stages
<1>9. CASE StartFetch(t)
  BY <1>9, LookUpTyped DEF StartFetch, TypeOK, Stages
<1> QED BY <1>1, <1>2, <1>3, <1>4, <1>5, <1>6, <1>7, <1>8, <1>9 DEF AcquireStep

\* The end of a request keeps the types.
LEMMA FetchTyped ==
  ASSUME TypeOK, NEW t \in Tasks, FetchStep(t)
  PROVE  TypeOK'
<1> USE PoolTyped
<1>1. CASE Discard(t)
  BY <1>1, WakesTyped DEF Discard, EndFetch, TypeOK, Stages
<1>2. ASSUME NEW answer \in SUBSET Sessions, Accept(t, answer)
      PROVE  TypeOK'
  <2>1. Accepted(t, answer) \in SUBSET Entry
    BY <1>2, AcceptedTyped DEF Accept
  <2>2. /\ entries' \in [Channels -> SUBSET Entry]
        /\ backoff' \in [Channels -> Nat]
    BY <1>2, <2>1 DEF Accept, TypeOK
  <2> QED BY <1>2, <2>2, WakesTyped DEF Accept, EndFetch, TypeOK, Stages
<1>3. CASE FetchFails(t)
  <2>1. backoff' \in [Channels -> Nat]
    BY <1>3 DEF FetchFails, TypeOK
  <2> QED BY <1>3, <2>1, WakesTyped DEF FetchFails, EndFetch, TypeOK, Stages
<1> QED BY <1>1, <1>2, <1>3 DEF FetchStep

\* A tick keeps the types.
LEMMA TickTyped ==
  ASSUME TypeOK, Tick
  PROVE  TypeOK'
<1>1. age' \in [Tasks -> Nat]
  BY DEF Tick, TypeOK
<1>2. used' \in [Sessions -> Nat] /\ backoff' \in [Channels -> Nat]
  BY DEF Tick, TypeOK, Less
<1>3. entries' \in [Channels -> SUBSET Entry]
  <2>1. ASSUME NEW c \in Channels, NEW e \in entries[c]
        PROVE  Older(e) \in Entry
    BY OlderTyped DEF TypeOK
  <2>2. \A c \in Channels : {Older(e) : e \in entries[c]} \in SUBSET Entry
    BY <2>1
  <2> QED BY <2>2 DEF Tick
<1>4. lease' \in [Tasks -> [proxy : Sessions \cup {NoSession},
                         left : Nat \cup {NoDeadline}, reserved : Nat]]
  <2>1. ASSUME NEW t \in Tasks
        PROVE  Shorter(lease[t]) \in
                 [proxy : Sessions \cup {NoSession},
                  left : Nat \cup {NoDeadline}, reserved : Nat]
    <3>1. /\ lease[t].proxy \in Sessions \cup {NoSession}
          /\ lease[t].left \in Nat \cup {NoDeadline}
          /\ lease[t].reserved \in Nat
      BY DEF TypeOK
    <3>2. Less(lease[t].left) \in Nat \cup {NoDeadline}
          /\ Less(lease[t].reserved) \in Nat
      BY <3>1, LessTyped
    <3> QED BY <3>1, <3>2 DEF Shorter
  <2> QED BY <2>1 DEF Tick
<1> QED BY <1>1, <1>2, <1>3, <1>4 DEF Tick, TypeOK

\* Every step keeps the types.
LEMMA TypeStep == TypeOK /\ [Next]_vars => TypeOK'
<1> SUFFICES ASSUME TypeOK, [Next]_vars PROVE TypeOK'
  OBVIOUS
<1>1. ASSUME NEW t \in Tasks, Begin(t) PROVE TypeOK'
  BY <1>1 DEF Begin, Spend, TypeOK, poolVars, Stages
<1>2. ASSUME NEW t \in Tasks, Cancel(t) PROVE TypeOK'
  BY <1>2 DEF Cancel, TypeOK, poolVars
<1>3. ASSUME NEW t \in Tasks, Leave(t) PROVE TypeOK'
  BY <1>3 DEF Leave, TypeOK, poolVars, Stages, NoLease
<1>4. ASSUME NEW c \in Channels, NEW cfg \in Configs, Save(c, cfg)
      PROVE  TypeOK'
  BY <1>4 DEF Save, Spend, TypeOK
<1>5. CASE UNCHANGED vars
  BY <1>5 DEF vars, poolVars, taskVars, TypeOK
<1> QED BY <1>1, <1>2, <1>3, <1>4, <1>5, AcquireTyped, FetchTyped, TickTyped
        DEF Next

\* Every variable of the pool keeps its type, for every number of channels,
\* tasks and sessions.
THEOREM PoolTypeCorrect == Spec => []TypeOK
<1>1. Init => TypeOK
  BY DEF Init, TypeOK, Stages, NoLease
<1> QED BY <1>1, TypeStep, PTL DEF Spec

-----------------------------------------------------------------------------
(* The request under way.                                                  *)

FetchInv == OneFetch /\ WaiterHasFetch

\* A step of Acquire registers its request only where there is none, and
\* waits only where there is one.
LEMMA AcquireFetchInv ==
  ASSUME TypeOK, FetchInv, NEW t \in Tasks, AcquireStep(t)
  PROVE  FetchInv'
<1> USE DEF FetchInv, OneFetch, WaiterHasFetch, TypeOK
<1>1. CASE GiveUp(t)
  BY <1>1 DEF GiveUp, Return, poolVars
<1>2. CASE ReadFails(t) \/ Direct(t) \/ WindowError(t)
  BY <1>2 DEF ReadFails, Direct, WindowError, AtLoop, Return, poolVars
<1>3. CASE FromList(t)
  BY <1>3 DEF FromList, AtLoop, Return
<1>4. ASSUME NEW e \in Fitting(t), TakeEntry(t, e)
      PROVE  FetchInv'
  BY <1>4 DEF TakeEntry, FromApi, AtLoop
<1>5. CASE WaitForFetch(t)
  BY <1>5 DEF WaitForFetch, Empty, FromApi, AtLoop, Return
<1>6. CASE BackingOff(t)
  BY <1>6 DEF BackingOff, Empty, FromApi, AtLoop, Return
<1>7. CASE StartFetch(t)
  BY <1>7 DEF StartFetch, Empty, FromApi, AtLoop
<1> QED BY <1>1, <1>2, <1>3, <1>4, <1>5, <1>6, <1>7 DEF AcquireStep

\* The end of a request leaves none registered and nobody waiting for it.
LEMMA EndFetchInv ==
  ASSUME TypeOK, FetchInv, NEW t \in Tasks, NEW to \in {"acquire", "failed"},
         EndFetch(t, to)
  PROVE  FetchInv'
BY DEF FetchInv, OneFetch, WaiterHasFetch, TypeOK, EndFetch, MovesAndWakes

\* Every step keeps the bookkeeping of requests.
LEMMA FetchInvStep == TypeOK /\ FetchInv /\ [Next]_vars => FetchInv'
<1> SUFFICES ASSUME TypeOK, FetchInv, [Next]_vars PROVE FetchInv'
  OBVIOUS
<1>1. ASSUME NEW t \in Tasks, Begin(t) \/ Cancel(t) \/ Leave(t)
      PROVE  FetchInv'
  BY <1>1 DEF Begin, Cancel, Leave, FetchInv, OneFetch, WaiterHasFetch, TypeOK,
              poolVars
<1>2. ASSUME NEW t \in Tasks, FetchStep(t) PROVE FetchInv'
  BY <1>2, EndFetchInv DEF FetchStep, Discard, Accept, FetchFails
<1>3. ASSUME NEW c \in Channels, NEW cfg \in Configs, Save(c, cfg)
      PROVE  FetchInv'
  BY <1>3 DEF Save, FetchInv, OneFetch, WaiterHasFetch
<1>4. CASE Tick
  BY <1>4 DEF Tick, FetchInv, OneFetch, WaiterHasFetch
<1>5. CASE UNCHANGED vars
  BY <1>5 DEF vars, poolVars, taskVars, FetchInv, OneFetch, WaiterHasFetch
<1> QED BY <1>1, <1>2, <1>3, <1>4, <1>5, AcquireFetchInv DEF Next

\* Both parts of the invariant hold from the start.
LEMMA FetchInvAlways == Spec => []FetchInv
<1>1. Init => FetchInv
  BY DEF Init, FetchInv, OneFetch, WaiterHasFetch
<1> QED BY <1>1, FetchInvStep, PoolTypeCorrect, PTL DEF Spec

\* A channel never has two requests under way, and pool.fetching names the one
\* it has (manager.go, Acquire and Save).
THEOREM OneFetchAlways == Spec => []OneFetch
<1>1. FetchInv => OneFetch
  BY DEF FetchInv
<1> QED BY <1>1, FetchInvAlways, PTL

\* Nobody waits on a channel that no request will close.
THEOREM WaiterHasFetchAlways == Spec => []WaiterHasFetch
<1>1. FetchInv => WaiterHasFetch
  BY DEF FetchInv
<1> QED BY <1>1, FetchInvAlways, PTL

-----------------------------------------------------------------------------
(* The origin of what a pool holds.                                        *)

\* A lookup keeps only entries of the settings in force.
LEMMA LookUpFresh ==
  ASSUME TypeOK, PoolFresh, NEW t \in Tasks, NEW rest, NEW blocked,
         rest \subseteq PoolEntries(ChannelOf[t]),
         LookUp(t, rest, blocked), UNCHANGED config
  PROVE  PoolFresh'
BY PoolTyped DEF TypeOK, PoolFresh, LookUp, PoolEntries, Kept, Conf

\* Every step keeps the pools fresh.
LEMMA FreshStep == TypeOK /\ PoolFresh /\ [Next]_vars => PoolFresh'
<1> SUFFICES ASSUME TypeOK, PoolFresh, [Next]_vars PROVE PoolFresh'
  OBVIOUS
<1>1. CASE UNCHANGED <<config, fp, entries>>
  BY <1>1 DEF PoolFresh
<1>2. ASSUME NEW t \in Tasks, Begin(t) \/ Cancel(t) \/ Leave(t)
      PROVE  PoolFresh'
  BY <1>1, <1>2 DEF Begin, Cancel, Leave, poolVars
<1>3. ASSUME NEW t \in Tasks, AcquireStep(t) PROVE PoolFresh'
  <2>1. CASE GiveUp(t) \/ ReadFails(t) \/ Direct(t) \/ WindowError(t)
    BY <1>1, <2>1 DEF GiveUp, ReadFails, Direct, WindowError, Return, poolVars
  <2>2. ASSUME NEW e \in Fitting(t), TakeEntry(t, e)
        PROVE  PoolFresh'
    <3>1. PICK dropped \in SUBSET Unfit(t) :
            LookUp(t, PoolEntries(ChannelOf[t]) \ (dropped \cup {e}),
                   PoolBackoff(ChannelOf[t]))
      BY <2>2 DEF TakeEntry
    <3> QED BY <2>2, <3>1, LookUpFresh DEF TakeEntry
  <2>3. CASE FromList(t)
    BY <2>3, LookUpFresh DEF FromList, Return
  <2>4. CASE WaitForFetch(t) \/ BackingOff(t) \/ StartFetch(t)
    BY <2>4, LookUpFresh DEF WaitForFetch, BackingOff, StartFetch, Return
  <2> QED BY <1>3, <2>1, <2>2, <2>3, <2>4 DEF AcquireStep
<1>4. ASSUME NEW t \in Tasks, FetchStep(t) PROVE PoolFresh'
  <2>1. CASE Discard(t)
    BY <1>1, <2>1 DEF Discard, EndFetch
  <2>2. CASE FetchFails(t)
    BY <1>1, <2>2 DEF FetchFails, EndFetch
  <2>3. ASSUME NEW answer \in SUBSET Sessions, Accept(t, answer)
        PROVE  PoolFresh'
    <3>1. \A e \in Accepted(t, answer) : e.from = Conf(t)
      BY <2>3, AcceptedTyped DEF Accept
    <3>2. fp[ChannelOf[t]] = Conf(t)
      BY <2>3 DEF Accept, Outdated
    <3>3. /\ UNCHANGED <<config, fp>>
          /\ entries' = [entries EXCEPT ![ChannelOf[t]] =
                           @ \cup Accepted(t, answer)]
      BY <2>3 DEF Accept, EndFetch
    <3> QED BY <3>1, <3>2, <3>3 DEF PoolFresh, TypeOK, Conf
  <2> QED BY <1>4, <2>1, <2>2, <2>3 DEF FetchStep
<1>5. ASSUME NEW c \in Channels, NEW cfg \in Configs, Save(c, cfg)
      PROVE  PoolFresh'
  BY <1>5 DEF Save, PoolFresh, TypeOK
<1>6. CASE Tick
  <2>1. UNCHANGED <<config, fp>>
    BY <1>6 DEF Tick
  <2>2. ASSUME NEW c \in Channels, NEW e \in entries'[c]
        PROVE  e.from = config[c] /\ fp[c] = config[c]
    <3>1. PICK f \in entries[c] : e = Older(f)
      BY <1>6, <2>2 DEF Tick
    <3>2. f \in Entry
      BY DEF TypeOK
    <3> QED BY <3>1, <3>2, OlderTyped DEF PoolFresh
  <2> QED BY <2>1, <2>2 DEF PoolFresh
<1>7. CASE UNCHANGED vars
  BY <1>1, <1>7 DEF vars, poolVars
<1> QED BY <1>2, <1>3, <1>4, <1>5, <1>6, <1>7 DEF Next

\* Nothing extracted under replaced settings is ever in a pool to be handed
\* out, whatever saves happened while the request was under way.
THEOREM PoolFreshAlways == Spec => []PoolFresh
<1>1. Init => PoolFresh
  BY DEF Init, PoolFresh
<1> QED BY <1>1, FreshStep, PoolTypeCorrect, PTL DEF Spec

-----------------------------------------------------------------------------
(* Leases.                                                                 *)

\* A session stays reserved up to the known end of a lease, and for as long as
\* the reservation of a lease of no known end lasts: the strengthening that
\* makes LeaseExclusive inductive.
Covered(t) ==
  /\ lease[t].proxy \in Sessions
  /\ lease[t].left = NoDeadline => lease[t].reserved <= used[lease[t].proxy]
  /\ lease[t].left # NoDeadline => lease[t].left <= used[lease[t].proxy]
LeaseInv == LeaseExclusive /\ \A t \in Tasks : Live(t) => Covered(t)

\* Whoever works through a session and is not overdue keeps it reserved.
LEMMA LiveReserved ==
  ASSUME TypeOK, LeaseInv, NEW t \in Tasks, Live(t), ~Overdue(t)
  PROVE  used[lease[t].proxy] > 0
<1>1. /\ lease[t].left \in Nat \cup {NoDeadline} /\ lease[t].reserved \in Nat
      /\ Covered(t)
  BY DEF TypeOK, LeaseInv
<1>2. used[lease[t].proxy] \in Nat
  BY <1>1 DEF TypeOK, Covered
<1> QED BY <1>1, <1>2 DEF Live, Overdue, Covered

\* A step that changes no reservation and starts no lease.
LEMMA LeaseFrame ==
  ASSUME LeaseInv, used' = used,
         \A t \in Tasks : Live(t)' => Live(t) /\ lease'[t] = lease[t]
  PROVE  LeaseInv'
BY DEF LeaseInv, LeaseExclusive, Overdue, Covered

\* The new lease's session is nobody else's but of those who are overdue, and
\* its reservation is counted from now on.
LEMMA TakeEntryLease ==
  ASSUME TypeOK, LeaseInv, NEW t \in Tasks, NEW e \in Fitting(t),
         TakeEntry(t, e)
  PROVE  LeaseInv'
<1>1. e \in Entry /\ used[e.proxy] = 0 /\ e.proxy \in Sessions
  <2>1. e \in Entry
    BY PoolTyped
  <2> QED BY <2>1 DEF Fitting, Available, Entry
<1>2. /\ lease' = [lease EXCEPT ![t] =
                     [proxy |-> e.proxy, left |-> e.left,
                      reserved |-> Reservation(t, e)]]
      /\ used' = [used EXCEPT ![e.proxy] = Reservation(t, e)]
      /\ pc' = [pc EXCEPT ![t] = "leased"]
  BY DEF TakeEntry
<1>3. /\ lease'[t].proxy = e.proxy /\ lease'[t].left = e.left
      /\ lease'[t].reserved = Reservation(t, e) /\ used'[e.proxy] = Reservation(t, e)
  BY <1>1, <1>2 DEF TypeOK
<1>4. Covered(t)'
  <2>1. e.left \in Nat \cup {NoDeadline} /\ Budget[t] + Margin \in Nat
    BY <1>1 DEF Entry
  <2>2. Reservation(t, e) \in Nat /\ (e.left # NoDeadline => e.left <= Reservation(t, e))
    BY <2>1 DEF Reservation, Larger
  <2> QED BY <1>1, <1>3, <2>2 DEF Covered
<1>5. ASSUME NEW u \in Tasks, u # t, Live(u)'
      PROVE  /\ Live(u) /\ lease'[u] = lease[u]
             /\ (lease[u].proxy = e.proxy => Overdue(u)') /\ Covered(u)'
  <2>1. lease'[u] = lease[u] /\ pc'[u] = pc[u]
    BY <1>2, <1>5 DEF TypeOK
  <2>2. Live(u)
    BY <1>5, <2>1 DEF Live
  <2>3. lease[u].proxy = e.proxy => Overdue(u)
    BY <1>1, <2>2, LiveReserved
  <2>4. Covered(u)
    BY <2>2 DEF LeaseInv
  <2>5. CASE lease[u].proxy = e.proxy
    <3>1. Overdue(u) /\ Overdue(u)'
      BY <2>1, <2>3, <2>5 DEF Overdue
    <3>2. e.left \in Nat \cup {NoDeadline} /\ Budget[t] + Margin \in Nat
      BY <1>1 DEF Entry
    <3>3. Reservation(t, e) \in Nat
      BY <3>2 DEF Reservation, Larger
    <3>4. Covered(u)'
      BY <1>3, <2>1, <2>4, <2>5, <3>1, <3>3 DEF Covered, Overdue
    <3> QED BY <2>1, <2>2, <3>1, <3>4
  <2>6. CASE lease[u].proxy # e.proxy
    <3>1. used'[lease[u].proxy] = used[lease[u].proxy]
      BY <1>1, <1>2, <2>4, <2>6 DEF TypeOK, Covered
    <3> QED BY <2>1, <2>2, <2>4, <2>6, <3>1 DEF Covered
  <2> QED BY <2>5, <2>6
<1>6. ASSUME NEW u \in Tasks, NEW v \in Tasks, u # v, Live(u)', Live(v)',
             lease'[u].proxy = lease'[v].proxy
      PROVE  Overdue(u)' \/ Overdue(v)'
  <2>1. CASE u # t /\ v # t
    <3>1. Overdue(u) \/ Overdue(v)
      BY <1>5, <1>6, <2>1 DEF LeaseInv, LeaseExclusive
    <3> QED BY <1>5, <1>6, <2>1, <3>1 DEF Overdue
  <2>2. CASE u = t
    BY <1>3, <1>5, <1>6, <2>2
  <2>3. CASE v = t
    BY <1>3, <1>5, <1>6, <2>3
  <2> QED BY <2>1, <2>2, <2>3
<1> QED BY <1>4, <1>5, <1>6 DEF LeaseInv, LeaseExclusive

\* Reservations and leases run out together.
LEMMA TickLease ==
  ASSUME TypeOK, LeaseInv, Tick
  PROVE  LeaseInv'
<1>1. ASSUME NEW t \in Tasks, Live(t)'
      PROVE  /\ Live(t) /\ lease'[t].proxy = lease[t].proxy /\ Covered(t)'
             /\ Overdue(t) => Overdue(t)'
  <2>1. /\ pc'[t] = pc[t] /\ lease'[t].proxy = lease[t].proxy
        /\ lease'[t].left = Less(lease[t].left)
        /\ lease'[t].reserved = Less(lease[t].reserved)
    BY DEF Tick, Shorter
  <2>2. lease[t].left \in Nat \cup {NoDeadline} /\ lease[t].reserved \in Nat
    BY DEF TypeOK
  <2>3. Live(t)
    BY <1>1, <2>1, <2>2 DEF Live, Less
  <2>4. Covered(t)
    BY <2>3 DEF LeaseInv
  <2>5. /\ used'[lease[t].proxy] = Less(used[lease[t].proxy])
        /\ used[lease[t].proxy] \in Nat
    BY <2>4 DEF Tick, TypeOK, Covered
  <2>6. lease'[t].left = NoDeadline <=> lease[t].left = NoDeadline
    BY <2>1, <2>2 DEF Less, NoDeadline
  <2>7. used'[lease'[t].proxy] = Less(used[lease[t].proxy])
    BY <2>1, <2>5
  <2>8. CASE lease[t].left = NoDeadline
    <3>1. lease[t].reserved <= used[lease[t].proxy]
      BY <2>4, <2>8 DEF Covered
    <3>2. lease'[t].reserved <= used'[lease'[t].proxy]
      BY <2>1, <2>2, <2>5, <2>7, <3>1 DEF Less
    <3>3. Overdue(t) => Overdue(t)'
      BY <2>1, <2>6 DEF Overdue, Less
    <3> QED BY <2>1, <2>3, <2>4, <2>6, <2>8, <3>2, <3>3 DEF Covered
  <2>9. CASE lease[t].left # NoDeadline
    <3>1. lease[t].left \in Nat /\ lease[t].left <= used[lease[t].proxy]
      BY <2>2, <2>4, <2>9 DEF Covered
    <3>2. lease'[t].left <= used'[lease'[t].proxy]
      BY <2>1, <2>5, <2>7, <3>1 DEF Less
    <3> QED BY <2>1, <2>3, <2>4, <2>6, <2>9, <3>2 DEF Covered, Overdue
  <2> QED BY <2>1, <2>3, <2>8, <2>9
<1> QED BY <1>1 DEF LeaseInv, LeaseExclusive

\* Every step keeps leases exclusive and covered.
LEMMA LeaseStep == TypeOK /\ LeaseInv /\ [Next]_vars => LeaseInv'
<1> SUFFICES ASSUME TypeOK, LeaseInv, [Next]_vars PROVE LeaseInv'
  OBVIOUS
<1>1. ASSUME NEW t \in Tasks, NEW to \in Stages \ {"leased"},
             pc' = [pc EXCEPT ![t] = to], UNCHANGED <<used, lease>>
      PROVE  LeaseInv'
  <2>1. \A u \in Tasks : Live(u)' => Live(u) /\ lease'[u] = lease[u]
    BY <1>1 DEF Live, TypeOK
  <2> QED BY <1>1, <2>1, LeaseFrame
<1>2. ASSUME NEW t \in Tasks, Begin(t) PROVE LeaseInv'
  BY <1>1, <1>2 DEF Begin, Stages
<1>3. ASSUME NEW t \in Tasks, AcquireStep(t) PROVE LeaseInv'
  <2>1. ASSUME NEW to \in Stages \ {"leased"}, Return(t, to), lease' = lease
        PROVE  LeaseInv'
    BY <1>1, <2>1 DEF Return
  <2>2. /\ "failed" \in Stages \ {"leased"} /\ "direct" \in Stages \ {"leased"}
        /\ "listed" \in Stages \ {"leased"} /\ "wait" \in Stages \ {"leased"}
    BY DEF Stages
  <2>3. CASE GiveUp(t) \/ ReadFails(t) \/ WindowError(t)
    <3>1. Return(t, "failed") /\ lease' = lease
      BY <2>3 DEF GiveUp, ReadFails, WindowError
    <3> QED BY <2>1, <2>2, <3>1
  <2>4. CASE Direct(t)
    <3>1. Return(t, "direct") /\ lease' = lease
      BY <2>4 DEF Direct
    <3> QED BY <2>1, <2>2, <3>1
  <2>5. CASE FromList(t)
    <3>1. Return(t, "listed") /\ lease' = lease
      BY <2>5 DEF FromList
    <3> QED BY <2>1, <2>2, <3>1
  <2>6. CASE WaitForFetch(t)
    <3>1. Return(t, "wait") /\ lease' = lease
      BY <2>6 DEF WaitForFetch
    <3> QED BY <2>1, <2>2, <3>1
  <2>7. CASE BackingOff(t)
    <3>1. Return(t, "failed") /\ lease' = lease
      BY <2>7 DEF BackingOff
    <3> QED BY <2>1, <2>2, <3>1
  <2>8. CASE StartFetch(t)
    BY <1>1, <2>8 DEF StartFetch, Stages
  <2> QED BY <1>3, <2>3, <2>4, <2>5, <2>6, <2>7, <2>8, TakeEntryLease
          DEF AcquireStep
<1>4. ASSUME NEW t \in Tasks, FetchStep(t) PROVE LeaseInv'
  <2>1. ASSUME NEW to \in {"acquire", "failed"}, EndFetch(t, to)
        PROVE  LeaseInv'
    <3>1. \A u \in Tasks : Live(u)' => Live(u) /\ lease'[u] = lease[u]
      BY <2>1 DEF EndFetch, MovesAndWakes, Live, TypeOK
    <3> QED BY <2>1, <3>1, LeaseFrame DEF EndFetch
  <2> QED BY <1>4, <2>1 DEF FetchStep, Discard, Accept, FetchFails
<1>5. ASSUME NEW t \in Tasks, Leave(t) PROVE LeaseInv'
  <2>1. \A u \in Tasks : Live(u)' => Live(u) /\ lease'[u] = lease[u]
    BY <1>5 DEF Leave, Live, TypeOK, NoLease
  <2> QED BY <1>5, <2>1, LeaseFrame DEF Leave
<1>6. CASE UNCHANGED <<used, lease, pc>>
  BY <1>6, LeaseFrame DEF Live
<1>7. ASSUME NEW t \in Tasks, Cancel(t) PROVE LeaseInv'
  BY <1>6, <1>7 DEF Cancel
<1>8. ASSUME NEW c \in Channels, NEW cfg \in Configs, Save(c, cfg)
      PROVE  LeaseInv'
  BY <1>6, <1>8 DEF Save
<1>9. CASE UNCHANGED vars
  BY <1>6, <1>9 DEF vars, taskVars
<1> QED BY <1>2, <1>3, <1>4, <1>5, <1>7, <1>8, <1>9, TickLease DEF Next

\* Two tasks work through a session at a time, in one channel or across
\* channels, only when one of them has outlived its reservation.
THEOREM LeaseExclusiveAlways == Spec => []LeaseExclusive
<1>1. Init => LeaseInv
  BY DEF Init, LeaseInv, LeaseExclusive, Live
<1>2. LeaseInv => LeaseExclusive
  BY DEF LeaseInv
<1> QED BY <1>1, <1>2, LeaseStep, PoolTypeCorrect, PTL DEF Spec
=============================================================================
