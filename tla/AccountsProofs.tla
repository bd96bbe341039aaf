---------------------------- MODULE AccountsProofs ----------------------------
(* Proofs about Accounts: the slots counted are the slots taken, a row in  *)
(* progress has its task or its request, a code belongs to the wait it was *)
(* typed in for, a success stands, Adobe's saved session is kept, and a    *)
(* batch left to itself registers no more accounts than were asked for and *)
(* runs a mailbox once at a time.                                          *)
EXTENDS Accounts, Sequences, FiniteSetTheorems, WellFoundedInduction, TLAPS

Working == {"spawned", "queued", "active", "waiting", "refused"}
Claiming == {"accounts", "pool"}
HoldsSlot == {"active", "waiting", "refused", "checking", "releasing"}

Runs(t)   == task[t].pc \in Working
Claims(b) == IF batch[b].pc \in Claiming THEN batch[b].picked ELSE {}
Holders   == {t \in Tasks : task[t].pc \in HoldsSlot}

RowOK(r) == DOMAIN r = {"email", "status", "box", "auth", "arp", "dead"}
TaskOK(k) ==
    /\ DOMAIN k = {"id", "kind", "pc", "live", "by", "box", "restore", "waits", "code"}
    /\ k.pc # "free" => k.id \in Rows
BatchOK(c) ==
    /\ DOMAIN c = {"pc", "count", "live", "first", "running", "want", "todo", "held", "picked", "tracked"}
    /\ c.picked \subseteq Rows /\ RowOK(c.held.old)

\* What the records and the functions are, and what was read of the rows.
Shape ==
    /\ RowOK(start.old)
    /\ row = [id \in Rows |-> row[id]] /\ \A id \in Rows : RowOK(row[id])
    /\ task = [t \in Tasks |-> task[t]] /\ \A t \in Tasks : TaskOK(task[t])
    /\ batch = [b \in Batches |-> batch[b]] /\ \A b \in Batches : BatchOK(batch[b])

Slots == active = Cardinality(Holders) /\ active <= Limit

\* A rescue is set adrift when it is asked for, and a row in flight that is not
\* adrift has its task or its request.
Owned ==
    /\ \A t \in Tasks : Alive(t) /\ task[t].kind # "run" => task[t].id \in adrift
    /\ \A id \in Rows : row[id].status \in InFlight =>
          \/ \E t \in Tasks : task[t].id = id /\ Runs(t)
          \/ \E b \in Batches : id \in Claims(b)
          \/ id \in adrift

\* One task or one request has the row, and until it has ended the row is in
\* flight, or gone.
Alone(id) ==
    /\ \A t, u \in Tasks : Alive(t) /\ Alive(u) /\ task[t].id = id /\ task[u].id = id => t = u
    /\ \A t \in Tasks, b \in Batches : Alive(t) /\ task[t].id = id => id \notin Claims(b)
    /\ \A b, c \in Batches : id \in Claims(b) /\ id \in Claims(c) => b = c
    /\ (\E t \in Tasks : Runs(t) /\ task[t].id = id) \/ (\E b \in Batches : id \in Claims(b))
          => row[id].status \in InFlight \cup {"none"}

\* Ids are given in order, and a row that is gone has no history.
Table ==
    /\ born \in Nat
    /\ \A id \in Rows : Exists(id) => id <= born
    /\ \A id \in Rows : row[id].arp => Exists(id)

IInv ==
    /\ Shape /\ Slots /\ CodeOfThisWait /\ Owned /\ Table
    /\ \A id \in Rows : id \notin twin \cup adrift => Alone(id)

-----------------------------------------------------------------------------
(* What is read of the rows.                                               *)

\* The natural numbers are well ordered.
LEMMA LeastIsIn == ASSUME NEW S, S \subseteq Nat, S # {} PROVE LeastOf(S) \in S
<1> DEFINE R == OpToRel(<, Nat)
<1>1. IsWellFoundedOn(R, Nat)
  BY NatLessThanWellFounded, Zenon
<1>2. \A x, y \in Nat : <<x, y>> \in R <=> x < y
  BY DEF OpToRel
<1> HIDE DEF R
<1>3. PICK x \in S : \A y \in S : ~(<<y, x>> \in R)
  BY <1>1, WFMin
<1>4. ASSUME NEW y \in S PROVE x <= y
  <2>1. x \in Nat /\ y \in Nat /\ ~(<<y, x>> \in R)
    BY <1>3
  <2>2. ~(y < x)
    BY <1>2, <2>1
  <2> QED BY <2>1, <2>2
<1> QED BY <1>4 DEF LeastOf

\* The shape depends on the table, the goroutines and the requests.
LEMMA ShapeFrom ==
  ASSUME RowOK(start'.old), row' = [x \in Rows |-> row'[x]], \A x \in Rows : RowOK(row'[x]),
         task' = [t \in Tasks |-> task'[t]], \A t \in Tasks : TaskOK(task'[t]),
         batch' = [b \in Batches |-> batch'[b]], \A b \in Batches : BatchOK(batch'[b])
  PROVE  Shape'
<1>1. /\ (RowOK(start.old))' /\ (\A x \in Rows : RowOK(row[x]))'
      /\ (\A t \in Tasks : TaskOK(task[t]))' /\ (\A b \in Batches : BatchOK(batch[b]))'
  BY DEF RowOK, TaskOK, BatchOK
<1> QED BY <1>1 DEF Shape

\* A reading is a row, or the row of an address that has none.
LEMMA NothingOK == RowOK(Nothing.old)
<1>1. PICK r : r = Absent
  OBVIOUS
<1>2. Nothing.old = r /\ RowOK(r)
  BY <1>1 DEF Nothing, Absent, RowOK
<1> QED BY <1>2

LEMMA FoundOK == ASSUME Shape, NEW e PROVE RowOK(Found(e).old)
<1>1. CASE RowOf(e) = {}
  <2>1. PICK r : r = [Absent EXCEPT !.email = e]
    OBVIOUS
  <2>2. RowOK(r)
    BY <2>1 DEF Absent, RowOK
  <2> QED BY <1>1, <2>1, <2>2 DEF Found
<1>2. CASE RowOf(e) # {}
  <2>1. PICK id : id = LeastOf(RowOf(e))
    OBVIOUS
  <2>2. id \in RowOf(e)
    BY <1>2, <2>1, LeastIsIn, AccountAssumption DEF RowOf
  <2> QED BY <1>2, <2>1, <2>2 DEF Found, RowOf, Shape
<1> QED BY <1>1, <1>2

-----------------------------------------------------------------------------
(* New goroutines.                                                         *)

\* A finite set has subsets of every smaller size.
LEMMA SubsetOfSize ==
  ASSUME NEW S, IsFiniteSet(S), NEW n \in Nat, n <= Cardinality(S)
  PROVE  \E T \in SUBSET S : Cardinality(T) = n
<1>1. PICK m \in Nat : ExistsBijection(1..m, S)
  BY FS_NatBijection
<1>2. Cardinality(S) = m
  BY <1>1, FS_CountingElements
<1>3. PICK f : f \in Bijection(1..m, S)
  BY <1>1 DEF ExistsBijection
<1> DEFINE T == {f[k] : k \in 1..n}
           g == [k \in 1..n |-> f[k]]
<1>4. f \in [1..m -> S] /\ \A j, k \in 1..m : f[j] = f[k] => j = k
  BY <1>3 DEF Bijection, Injection, IsInjective
<1>5. 1..n \subseteq 1..m
  BY <1>2
<1>6. T \in SUBSET S
  BY <1>4, <1>5
<1>7. g \in Bijection(1..n, T)
  <2>1. g \in [1..n -> T]
    OBVIOUS
  <2>2. \A j, k \in 1..n : g[j] = g[k] => j = k
    BY <1>4, <1>5
  <2>3. \A y \in T : \E k \in 1..n : g[k] = y
    OBVIOUS
  <2> QED BY <2>1, <2>2, <2>3 DEF Bijection, Injection, IsInjective, Surjection
<1>8. Cardinality(T) = n
  BY <1>7, FS_CountingElements DEF ExistsBijection
<1> QED BY <1>6, <1>8

\* Every id gets one goroutine, under a name that was free.
Spawned(ids, kind) ==
    /\ task' = [t \in Tasks |-> task'[t]]
    /\ \A t \in Tasks : \/ task'[t] = task[t]
                        \/ /\ task[t].pc = "free" /\ TaskOK(task'[t]) /\ task'[t].pc = "spawned"
                           /\ task'[t].id \in ids /\ task'[t].kind = kind
    /\ \A id \in ids : \E t \in Tasks : task[t].pc = "free" /\ task'[t].pc = "spawned" /\ task'[t].id = id
    /\ \A t, u \in {x \in Tasks : task[x].pc = "free" /\ task'[x].pc = "spawned"} :
          task'[t].id = task'[u].id => t = u

\* The go statements do what they say.
LEMMA SpawnSpawns ==
  ASSUME Shape, NEW ids \in SUBSET Rows, NEW kind, NEW by, Spawn(ids, kind, by)
  PROVE  Spawned(ids, kind)
<1> DEFINE new == CHOOSE S \in SUBSET FreeTasks : Cardinality(S) = Cardinality(ids)
           of  == CHOOSE f \in [new -> ids] : \A x, y \in new : f[x] = f[y] => x = y
<1>1. /\ Cardinality(FreeTasks) >= Cardinality(ids)
      /\ task' = [t \in Tasks |-> IF t \in new
                      THEN [Unborn EXCEPT !.id = of[t], !.kind = kind, !.pc = "spawned", !.by = by]
                      ELSE task[t]]
  BY DEF Spawn
<1>2. IsFiniteSet(FreeTasks) /\ IsFiniteSet(ids)
  BY AccountAssumption, FS_Subset DEF FreeTasks
<1>3. Cardinality(ids) \in Nat /\ Cardinality(FreeTasks) \in Nat
  BY <1>2, FS_CardinalityType
<1>4. \E S \in SUBSET FreeTasks : Cardinality(S) = Cardinality(ids)
  BY <1>1, <1>2, <1>3, SubsetOfSize
<1>5. new \in SUBSET FreeTasks /\ Cardinality(new) = Cardinality(ids)
  BY <1>4
<1> HIDE DEF new
<1>6. IsFiniteSet(new)
  BY <1>2, <1>5, FS_Subset
<1>7. \E f \in [new -> ids] : \A x, y \in new : f[x] = f[y] => x = y
  <2>1. PICK f : f \in Bijection(new, ids)
    BY <1>2, <1>5, <1>6, FS_SameCardinalityBij DEF ExistsBijection
  <2> QED BY <2>1 DEF Bijection, Injection, IsInjective
<1>8. of \in [new -> ids] /\ \A x, y \in new : of[x] = of[y] => x = y
  BY <1>7
<1> HIDE DEF of
<1>9. \A id \in ids : \E t \in new : of[t] = id
  <2>1. of \in Injection(new, ids)
    BY <1>8 DEF Injection, IsInjective
  <2>2. of \in Surjection(new, ids)
    BY <2>1, <1>2, <1>5, FS_Injection
  <2> QED BY <2>2 DEF Surjection
<1> DEFINE Born(t) == [Unborn EXCEPT !.id = of[t], !.kind = kind, !.pc = "spawned", !.by = by]
<1>10. ASSUME NEW t \in new
       PROVE  /\ t \in Tasks /\ task[t].pc = "free" /\ task'[t] = Born(t) /\ of[t] \in ids
              /\ Born(t).id = of[t] /\ Born(t).kind = kind /\ Born(t).pc = "spawned"
              /\ DOMAIN Born(t) = {"id", "kind", "pc", "live", "by", "box", "restore", "waits", "code"}
  <2>1. t \in Tasks /\ task[t].pc = "free" /\ of[t] \in ids
    BY <1>5, <1>8 DEF FreeTasks
  <2>2. task'[t] = Born(t)
    BY <1>1, <2>1
  <2>3. /\ Born(t).id = of[t] /\ Born(t).kind = kind /\ Born(t).pc = "spawned"
        /\ DOMAIN Born(t) = {"id", "kind", "pc", "live", "by", "box", "restore", "waits", "code"}
    BY DEF Unborn
  <2> QED BY <2>1, <2>2, <2>3
<1>11. ASSUME NEW t \in Tasks, t \notin new PROVE task'[t] = task[t]
  BY <1>1, <1>11
<1>12. task' = [t \in Tasks |-> task'[t]]
  BY <1>1
<1> HIDE DEF Born
<1>13. \A t \in Tasks : \/ task'[t] = task[t]
                        \/ /\ task[t].pc = "free" /\ TaskOK(task'[t]) /\ task'[t].pc = "spawned"
                           /\ task'[t].id \in ids /\ task'[t].kind = kind
  BY <1>10, <1>11 DEF TaskOK
<1>14. \A id \in ids : \E t \in Tasks : task[t].pc = "free" /\ task'[t].pc = "spawned" /\ task'[t].id = id
  <2> TAKE id \in ids
  <2>1. PICK t \in new : of[t] = id
    BY <1>9
  <2> QED BY <2>1, <1>10
<1>15. ASSUME NEW t \in Tasks, NEW u \in Tasks, task[t].pc = "free", task[u].pc = "free", task'[t].id = task'[u].id,
              task'[t].pc = "spawned", task'[u].pc = "spawned"
       PROVE  t = u
  <2>1. t \in new /\ u \in new
    BY <1>11, <1>15
  <2>2. task'[t].id = of[t] /\ task'[u].id = of[u]
    BY <2>1, <1>10
  <2> QED BY <1>8, <1>15, <2>1, <2>2
<1>16. \A t, u \in {x \in Tasks : task[x].pc = "free" /\ task'[x].pc = "spawned"} :
          task'[t].id = task'[u].id => t = u
  BY <1>15
<1> QED BY <1>12, <1>13, <1>14, <1>16, Zenon DEF Spawned

-----------------------------------------------------------------------------
(* What a task does to its row.                                            *)

\* The row of id is written, if it is there: the status is one of some, and the
\* session's marks are what keepsSession says.
Wrote(id, statuses) ==
    /\ row' = [x \in Rows |-> row'[x]]
    /\ \A x \in Rows \ {id} : row'[x] = row[x]
    /\ id \in Rows => /\ RowOK(row'[id])
                      /\ ~Exists(id) => row'[id] = row[id]
                      /\ Exists(id) => row'[id].status \in statuses
                      /\ row'[id].arp => row[id].arp \/ Exists(id)
                      /\ row[id].auth => row'[id].auth

\* An UPDATE changes nothing but the fields it names.
LEMMA UpdateWrites ==
  ASSUME Shape, NEW id, NEW fields, Update(id, fields),
         DOMAIN fields \subseteq {"status", "auth", "arp", "dead"},
         NEW statuses,
         "status" \in DOMAIN fields => fields.status \in statuses,
         "status" \notin DOMAIN fields /\ id \in Rows => row[id].status \in statuses,
         "auth" \in DOMAIN fields => fields.auth = TRUE
  PROVE  Wrote(id, statuses)
<1>1. row' = [x \in Rows |-> row'[x]] /\ \A x \in Rows \ {id} : row'[x] = row[x]
  BY DEF Update, Shape
<1>2. ASSUME id \in Rows, ~Exists(id) PROVE row'[id] = row[id] /\ RowOK(row[id])
  BY <1>2 DEF Update, Shape
<1>3. ASSUME id \in Rows, Exists(id)
      PROVE  /\ RowOK(row[id])
             /\ row'[id] = [f \in DOMAIN row[id] |-> IF f \in DOMAIN fields THEN fields[f] ELSE row[id][f]]
  BY <1>3 DEF Update, Shape
<1>4. ASSUME id \in Rows, Exists(id)
      PROVE  /\ RowOK(row'[id])
             /\ row'[id].status = IF "status" \in DOMAIN fields THEN fields.status ELSE row[id].status
             /\ row'[id].auth = IF "auth" \in DOMAIN fields THEN fields.auth ELSE row[id].auth
             /\ row'[id].arp = IF "arp" \in DOMAIN fields THEN fields.arp ELSE row[id].arp
  BY <1>3, <1>4 DEF RowOK
<1>5. ASSUME id \in Rows, Exists(id)
      PROVE  /\ row'[id].status \in statuses
             /\ row[id].auth => row'[id].auth
  BY <1>4, <1>5
<1> QED BY <1>1, <1>2, <1>4, <1>5 DEF Wrote

\* What a step of task t may do to its row: write that it is in flight while it
\* runs, write its result when it ends, nothing about the status later
\* or after a rescue that failed.
RowStep(t) == LET id == task[t].id IN
    \/ row' = row /\ (Runs(t) => task'[t].pc \in Working \/ id \in adrift \/ row[id].status \notin InFlight)
    \/ Wrote(id, InFlight) /\ Runs(t) /\ task'[t].pc \in Working
    \/ Wrote(id, Final) /\ Runs(t) /\ task'[t].pc \notin Working
    \/ Wrote(id, {row[id].status}) /\ (~Runs(t) \/ id \in adrift)

SlotStepOf(t) ==
    \/ (task[t].pc \in HoldsSlot <=> task'[t].pc \in HoldsSlot) /\ active' = active
    \/ task[t].pc \notin HoldsSlot /\ task'[t].pc \in HoldsSlot /\ active < Limit /\ active' = active + 1
    \/ task[t].pc \in HoldsSlot /\ task'[t].pc \notin HoldsSlot /\ active' = IF active > 0 THEN active - 1 ELSE active

\* A step of task t and of nobody else.
Steps(t) == LET id == task[t].id IN
    /\ Alive(t)
    /\ task' = [u \in Tasks |-> task'[u]] /\ \A u \in Tasks \ {t} : task'[u] = task[u]
    /\ TaskOK(task'[t])
    /\ task'[t].pc # "free" => task'[t].id = id /\ task'[t].kind = task[t].kind
    /\ task'[t].pc \in Working => Runs(t)
    /\ task'[t].pc = "waiting" => task'[t].code \in {0, task'[t].waits}
    /\ RowStep(t) /\ SlotStepOf(t)
    /\ UNCHANGED <<born, platform, start, twin, adrift>>
    /\ batch' = [b \in Batches |-> batch'[b]]
    /\ \A b \in Batches : BatchOK(batch'[b]) /\ batch'[b].pc = batch[b].pc /\ batch'[b].picked = batch[b].picked
                       /\ batch'[b].held = batch[b].held

\* The slots follow the task.
LEMMA SlotsFollow ==
  ASSUME Slots, NEW t \in Tasks, SlotStepOf(t), \A u \in Tasks \ {t} : task'[u] = task[u]
  PROVE  Slots'
<1>1. IsFiniteSet(Holders) /\ Cardinality(Holders) \in Nat /\ Limit \in Nat
  <2>1. IsFiniteSet(Holders)
    BY AccountAssumption, FS_Subset DEF Holders
  <2> QED BY <2>1, FS_CardinalityType, AccountAssumption
<1>2. CASE (task[t].pc \in HoldsSlot <=> task'[t].pc \in HoldsSlot) /\ active' = active
  <2>1. Holders' = Holders
    BY <1>2 DEF Holders
  <2> QED BY <1>2, <2>1 DEF Slots
<1>3. CASE task[t].pc \notin HoldsSlot /\ task'[t].pc \in HoldsSlot /\ active < Limit /\ active' = active + 1
  <2>1. Holders' = Holders \cup {t} /\ t \notin Holders
    BY <1>3 DEF Holders
  <2>2. Cardinality(Holders') = Cardinality(Holders) + 1
    BY <1>1, <2>1, FS_AddElement
  <2> QED BY <1>1, <1>3, <2>2 DEF Slots
<1>4. CASE task[t].pc \in HoldsSlot /\ task'[t].pc \notin HoldsSlot /\ active' = IF active > 0 THEN active - 1 ELSE active
  <2>1. Holders' = Holders \ {t} /\ t \in Holders
    BY <1>4 DEF Holders
  <2>2. Cardinality(Holders') = Cardinality(Holders) - 1
    BY <1>1, <2>1, FS_RemoveElement
  <2>3. Cardinality(Holders') \in Nat
    <3>1. IsFiniteSet(Holders')
      BY <1>1, <2>1, FS_Subset
    <3> QED BY <3>1, FS_CardinalityType
  <2> QED BY <1>1, <1>4, <2>2, <2>3 DEF Slots
<1> QED BY <1>2, <1>3, <1>4 DEF SlotStepOf

\* Whatever task a step is of, the invariant is kept.
LEMMA StepsKeep ==
  ASSUME IInv, NEW t \in Tasks, Steps(t) PROVE IInv'
<1>1. PICK id : id = task[t].id
  OBVIOUS
<1>2. id \in Rows /\ Alive(t)
  BY <1>1 DEF IInv, Shape, TaskOK, Steps, Alive
<1>3. /\ row' = [x \in Rows |-> row'[x]] /\ \A x \in Rows \ {id} : row'[x] = row[x]
      /\ RowOK(row'[id]) /\ (~Exists(id) => row'[id] = row[id])
      /\ row'[id].arp => row[id].arp \/ Exists(id)
  BY <1>1, <1>2 DEF Steps, RowStep, Wrote, IInv, Shape
<1>4. \A u \in Tasks : TaskOK(task'[u]) /\ (Runs(u)' => Runs(u)) /\ (Alive(u)' => Alive(u) /\ task'[u].id = task[u].id /\ task'[u].kind = task[u].kind)
  BY DEF Steps, IInv, Shape, Runs, Alive
<1>5. \A b \in Batches : Claims(b)' = Claims(b)
  BY DEF Steps, Claims
<1>6. UNCHANGED <<born, platform, start, twin, adrift>>
  BY DEF Steps
<1>7. Shape'
  <2>1. \A x \in Rows : RowOK(row'[x])
    BY <1>3 DEF IInv, Shape
  <2>2. (\A x \in Rows : RowOK(row[x]))' /\ (\A u \in Tasks : TaskOK(task[u]))' /\ (\A b \in Batches : BatchOK(batch[b]))'
    BY <1>4, <2>1 DEF Steps, RowOK, TaskOK, BatchOK
  <2>3. (RowOK(start.old))'
    BY <1>6 DEF IInv, Shape, RowOK
  <2> QED BY <1>3, <2>2, <2>3 DEF Steps, Shape
<1>8. Slots'
  BY SlotsFollow DEF IInv, Steps
<1>9. CodeOfThisWait'
  BY DEF CodeOfThisWait, IInv, Steps
<1>10. Owned'
  <2>1. ASSUME NEW u \in Tasks, Alive(u)', task'[u].kind # "run" PROVE task'[u].id \in adrift'
    BY <1>4, <1>6, <2>1 DEF IInv, Owned
  <2>2. ASSUME NEW x \in Rows, row'[x].status \in InFlight
        PROVE \/ \E u \in Tasks : task'[u].id = x /\ Runs(u)'
              \/ \E b \in Batches : x \in Claims(b)'
              \/ x \in adrift'
    <3>1. CASE x = id
      <4>1. CASE row' = row
        <5>1. CASE task'[t].pc \in Working \/ id \in adrift
          BY <3>1, <1>1, <1>6, <5>1 DEF Steps, Runs, Working
        <5>2. CASE ~Runs(t)
          <6>1. ASSUME NEW u \in Tasks, task[u].id = x, Runs(u) PROVE u # t /\ task'[u] = task[u]
            BY <5>2, <6>1 DEF Steps
          <6>2. (\E u \in Tasks : task[u].id = x /\ Runs(u)) => \E u \in Tasks : task'[u].id = x /\ Runs(u)'
            BY <6>1 DEF Runs
          <6> QED BY <1>5, <1>6, <2>2, <4>1, <6>2 DEF IInv, Owned
        <5> QED BY <1>1, <1>2, <2>2, <3>1, <4>1, <5>1, <5>2 DEF Steps, RowStep, Wrote, InFlight, Final, Exists
      <4>2. CASE Wrote(id, InFlight) /\ task'[t].pc \in Working
        BY <1>1, <3>1, <4>2 DEF Steps, Runs, Working
      <4>3. CASE Wrote(id, Final) /\ row' # row
        <5>1. Exists(id)
          <6>1. row = [y \in Rows |-> row[y]]
            BY DEF IInv, Shape
          <6> QED BY <1>3, <4>3, <6>1
        <5> QED BY <1>2, <2>2, <3>1, <4>3, <5>1 DEF Wrote, InFlight, Final
      <4>4. CASE Wrote(id, {row[id].status}) /\ (~Runs(t) \/ id \in adrift)
        <5>1. row[id].status \in InFlight
          BY <1>2, <1>3, <2>2, <3>1, <4>4 DEF Wrote
        <5>2. ASSUME ~Runs(t), NEW u \in Tasks, task[u].id = x, Runs(u) PROVE u # t /\ task'[u] = task[u]
          BY <5>2 DEF Steps
        <5>3. ~Runs(t) /\ (\E u \in Tasks : task[u].id = x /\ Runs(u)) => \E u \in Tasks : task'[u].id = x /\ Runs(u)'
          BY <5>2 DEF Runs
        <5> QED BY <1>5, <1>6, <3>1, <4>4, <5>1, <5>3 DEF IInv, Owned
      <4> QED BY <1>1, <4>1, <4>2, <4>3, <4>4 DEF Steps, RowStep
    <3>2. CASE x # id
      <4>1. row[x].status \in InFlight
        BY <1>3, <2>2, <3>2
      <4>2. ASSUME NEW u \in Tasks, task[u].id = x, Runs(u) PROVE u # t /\ task'[u] = task[u]
        BY <1>1, <3>2, <4>2 DEF Steps
      <4>3. (\E u \in Tasks : task[u].id = x /\ Runs(u)) => \E u \in Tasks : task'[u].id = x /\ Runs(u)'
        BY <4>2 DEF Runs
      <4> QED BY <1>5, <1>6, <4>1, <4>3 DEF IInv, Owned
    <3> QED BY <3>1, <3>2
  <2>3. /\ \A u \in Tasks : Alive(u)' /\ task'[u].kind # "run" => task'[u].id \in adrift'
        /\ \A x \in Rows : row'[x].status \in InFlight =>
              \/ \E u \in Tasks : task'[u].id = x /\ Runs(u)'
              \/ \E b \in Batches : x \in Claims(b)'
              \/ x \in adrift'
    BY <2>1, <2>2
  <2> QED BY <2>3 DEF Owned
<1>11. Table'
  <2>1. \A x \in Rows : Exists(x)' => Exists(x)
    BY <1>3 DEF Exists
  <2>2. Exists(id) => Exists(id)' \/ row' = row
    BY <1>1, <1>2 DEF Steps, RowStep, Wrote, Exists, InFlight, Final
  <2>3. \A x \in Rows : row'[x].arp => Exists(x)'
    BY <1>3, <2>2 DEF IInv, Table, Exists
  <2> QED BY <1>6, <2>1, <2>3 DEF IInv, Table
<1>12. ASSUME NEW x \in Rows, x \notin twin \cup adrift PROVE Alone(x)'
  <2>1. Alone(x)
    BY <1>12 DEF IInv
  <2>2. \A u, v \in Tasks : Alive(u)' /\ Alive(v)' /\ task'[u].id = x /\ task'[v].id = x => u = v
    BY <1>4, <2>1 DEF Alone
  <2>3. \A u \in Tasks, b \in Batches : Alive(u)' /\ task'[u].id = x => x \notin Claims(b)'
    BY <1>4, <1>5, <2>1 DEF Alone
  <2>4. \A b, c \in Batches : x \in Claims(b)' /\ x \in Claims(c)' => b = c
    BY <1>5, <2>1 DEF Alone
  <2>5. ASSUME (\E u \in Tasks : Runs(u)' /\ task'[u].id = x) \/ (\E b \in Batches : x \in Claims(b)')
        PROVE  row'[x].status \in InFlight \cup {"none"}
    <3>1. (\E u \in Tasks : Runs(u) /\ task[u].id = x) \/ (\E b \in Batches : x \in Claims(b))
      <4>1. \A u \in Tasks : Runs(u)' => Alive(u)'
        BY DEF Runs, Alive, Working
      <4> QED BY <1>4, <1>5, <2>5, <4>1
    <3>2. row[x].status \in InFlight \cup {"none"}
      BY <2>1, <3>1 DEF Alone
    <3>3. CASE x # id
      BY <1>3, <3>2, <3>3
    <3>4. CASE x = id /\ Runs(t) /\ task'[t].pc \notin Working
      <4>1. \A b \in Batches : x \notin Claims(b)
        BY <1>1, <1>2, <2>1, <3>4 DEF Alone
      <4>2. \A u \in Tasks : ~(Runs(u)' /\ task'[u].id = x)
        <5> TAKE u \in Tasks
        <5>1. CASE u = t
          BY <3>4, <5>1 DEF Runs
        <5>2. CASE u # t
          <6>1. Alive(u) /\ task[u].id = x => u = t
            BY <1>1, <1>2, <2>1, <3>4 DEF Alone
          <6> QED BY <5>2, <6>1 DEF Steps, Runs, Alive, Working
        <5> QED BY <5>1, <5>2
      <4> QED BY <1>5, <2>5, <4>1, <4>2
    <3>5. CASE x = id /\ ~(Runs(t) /\ task'[t].pc \notin Working)
      <4>1. CASE row' = row
        BY <3>2, <4>1
      <4>2. CASE Wrote(id, InFlight)
        BY <1>2, <1>3, <3>2, <3>5, <4>2 DEF Wrote
      <4>3. CASE Wrote(id, {row[id].status})
        BY <1>2, <1>3, <3>2, <3>5, <4>3 DEF Wrote
      <4> QED BY <1>1, <3>5, <4>1, <4>2, <4>3 DEF Steps, RowStep
    <3> QED BY <3>3, <3>4, <3>5
  <2> QED BY <2>2, <2>3, <2>4, <2>5, Zenon DEF Alone
<1> QED BY <1>6, <1>7, <1>8, <1>9, <1>10, <1>11, <1>12, Zenon DEF IInv

-----------------------------------------------------------------------------
(* The steps of a task.                                                    *)

\* Task t goes on, and the rest of the tasks and the requests stay.
Moves(t, pc) ==
    /\ task' = [u \in Tasks |-> task'[u]] /\ \A u \in Tasks \ {t} : task'[u] = task[u]
    /\ TaskOK(task'[t]) /\ task'[t].pc = pc
    /\ task'[t].id = task[t].id /\ task'[t].kind = task[t].kind

Bystanders ==
    /\ UNCHANGED <<born, platform, start, twin, adrift>>
    /\ batch' = [b \in Batches |-> batch'[b]]
    /\ \A b \in Batches : BatchOK(batch'[b]) /\ batch'[b].pc = batch[b].pc /\ batch'[b].picked = batch[b].picked
                       /\ batch'[b].held = batch[b].held

\* Pc moves a task and keeps the rest of it.
LEMMA PcMoves ==
  ASSUME Shape, NEW t \in Tasks, Alive(t), NEW pc, Pc(t, pc) PROVE Moves(t, pc)
<1>1. TaskOK(task[t]) /\ task[t].id \in Rows
  BY DEF Shape, TaskOK, Alive
<1>2. PICK k : k = [task[t] EXCEPT !.pc = pc]
  OBVIOUS
<1>3. /\ task' = [u \in Tasks |-> task'[u]] /\ \A u \in Tasks \ {t} : task'[u] = task[u]
      /\ task'[t] = k
  BY <1>2 DEF Pc, Shape
<1>4. DOMAIN k = DOMAIN task[t] /\ k.pc = pc /\ k.id = task[t].id /\ k.kind = task[t].kind
  BY <1>1, <1>2 DEF TaskOK
<1> QED BY <1>1, <1>3, <1>4 DEF Moves, TaskOK

\* RunOnly leaves the requests alone.
LEMMA RunOnlyStays == ASSUME Shape, RunOnly PROVE Bystanders
BY DEF Shape, RunOnly, history, Bystanders

\* So does the end of a batch's loop.
LEMMA EndedStays ==
  ASSUME Shape, batch' = Ended(batch), UNCHANGED <<platform, born, runTracked, start, history>> PROVE Bystanders
<1>1. \A b \in Batches : /\ DOMAIN batch'[b] = DOMAIN batch[b] /\ batch'[b].pc = batch[b].pc
                         /\ batch'[b].picked = batch[b].picked /\ batch'[b].held = batch[b].held
  BY DEF Shape, BatchOK, Ended
<1>2. batch' = [b \in Batches |-> batch'[b]]
  BY DEF Shape, Ended
<1> QED BY <1>1, <1>2 DEF Shape, BatchOK, history, Bystanders

\* A task that goes on to a pc other than a wait makes a step of its own.
LEMMA MovingSteps ==
  ASSUME IInv, NEW t \in Tasks, Alive(t), NEW pc, Moves(t, pc), Bystanders,
         pc # "waiting" /\ (pc \in Working => Runs(t)), RowStep(t), SlotStepOf(t)
  PROVE  Steps(t)
BY DEF Moves, Bystanders, Steps

\* The pc's that are not on the way to anything: alive, working or not.
LEMMA EnterSteps == ASSUME IInv, NEW t \in Tasks, Enter(t) PROVE Steps(t)
<1>0. Shape
  BY DEF IInv
<1>1. PICK pc : pc = IF Exists(task[t].id) THEN "queued" ELSE "leaving"
  OBVIOUS
<1>2. PICK k : k = [task[t] EXCEPT !.pc = pc, !.box = row[task[t].id].box]
  OBVIOUS
<1>3. Alive(t) /\ Runs(t) /\ TaskOK(task[t]) /\ task[t].id \in Rows
  BY <1>0 DEF Enter, Alive, Runs, Working, Shape, TaskOK
<1>4. /\ task' = [u \in Tasks |-> task'[u]] /\ \A u \in Tasks \ {t} : task'[u] = task[u]
      /\ task'[t] = k
  BY <1>0, <1>1, <1>2 DEF Enter, Shape
<1>5. DOMAIN k = DOMAIN task[t] /\ k.pc = pc /\ k.id = task[t].id /\ k.kind = task[t].kind
  BY <1>2, <1>3 DEF TaskOK
<1>6. Moves(t, pc)
  BY <1>3, <1>4, <1>5 DEF Moves, TaskOK
<1>7. RowStep(t)
  <2>1. row' = row
    BY DEF Enter
  <2>2. task'[t].pc \in Working \/ row[task[t].id].status \notin InFlight
    BY <1>1, <1>4, <1>5 DEF Exists, InFlight, Working
  <2> QED BY <2>1, <2>2 DEF RowStep
<1>8. SlotStepOf(t)
  BY <1>1, <1>4, <1>5 DEF Enter, SlotStepOf, HoldsSlot
<1>9. Bystanders
  BY <1>0, RunOnlyStays DEF Enter
<1> QED BY <1>1, <1>3, <1>6, <1>7, <1>8, <1>9, MovingSteps

\* The slot is taken only while there is one.
LEMMA AcquireSteps == ASSUME IInv, NEW t \in Tasks, AcquireSlot(t) PROVE Steps(t)
<1>1. Shape /\ Alive(t) /\ Runs(t)
  BY DEF IInv, AcquireSlot, Alive, Runs, Working
<1>2. Moves(t, "active")
  BY <1>1, PcMoves DEF AcquireSlot
<1>3. RowStep(t) /\ SlotStepOf(t)
  BY <1>2 DEF AcquireSlot, RowStep, SlotStepOf, Moves, Working, HoldsSlot
<1>4. Bystanders
  BY <1>1, RunOnlyStays DEF AcquireSlot
<1> QED BY <1>1, <1>2, <1>3, <1>4, MovingSteps DEF Working

\* A task stopped in the queue writes that it failed; a rescue writes nothing.
LEMMA StoppedSteps == ASSUME IInv, NEW t \in Tasks, StoppedInQueue(t) PROVE Steps(t)
<1>1. Shape /\ Alive(t) /\ Runs(t)
  BY DEF IInv, StoppedInQueue, Alive, Runs, Working
<1>2. Moves(t, "leaving")
  BY <1>1, PcMoves DEF StoppedInQueue
<1>3. SlotStepOf(t)
  BY <1>2 DEF StoppedInQueue, SlotStepOf, Moves, HoldsSlot
<1>4. RowStep(t)
  <2>1. CASE task[t].kind = "run"
    <3>1. PICK fields : fields = [status |-> "register_failed"]
      OBVIOUS
    <3>2. DOMAIN fields = {"status"} /\ fields.status \in Final
      BY <3>1 DEF Final
    <3>3. Update(task[t].id, fields)
      BY <2>1, <3>1 DEF StoppedInQueue
    <3>4. Wrote(task[t].id, Final)
      BY <1>1, <3>2, <3>3, UpdateWrites
    <3> QED BY <1>1, <1>2, <3>4 DEF RowStep, Moves, Working
  <2>2. CASE task[t].kind # "run"
    BY <1>1, <2>2 DEF StoppedInQueue, RowStep, IInv, Owned
  <2> QED BY <2>1, <2>2
<1>5. Bystanders
  BY <1>1, RunOnlyStays DEF StoppedInQueue
<1> QED BY <1>1, <1>2, <1>3, <1>4, <1>5, MovingSteps DEF Working

\* The deferred calls give the slot back if there is one.
LEMMA LeaveSteps == ASSUME IInv, NEW t \in Tasks, Leave(t) PROVE Steps(t)
<1>1. Shape /\ Alive(t) /\ ~Runs(t)
  BY DEF IInv, Leave, Alive, Runs, Working
<1>2. PICK k : k = Unborn
  OBVIOUS
<1>3. TaskOK(k) /\ k.pc = "free"
  BY <1>2 DEF Unborn, TaskOK
<1>4. /\ task' = [u \in Tasks |-> task'[u]] /\ \A u \in Tasks \ {t} : task'[u] = task[u]
      /\ task'[t] = k
  BY <1>1, <1>2 DEF Leave, Shape
<1>5. RowStep(t) /\ SlotStepOf(t)
  BY <1>1, <1>3, <1>4 DEF Leave, RowStep, SlotStepOf, HoldsSlot
<1>6. Bystanders
  BY <1>1, RunOnlyStays DEF Leave
<1>7. k.pc \notin Working /\ k.pc # "waiting"
  BY <1>3 DEF Working
<1> QED BY <1>1, <1>3, <1>4, <1>5, <1>6, <1>7, Zenon DEF Steps, Bystanders

\* A wait begins with an empty channel.
LEMMA WaitSteps == ASSUME IInv, NEW t \in Tasks, WaitManualCode(t) PROVE Steps(t)
<1>1. Shape /\ Alive(t) /\ Runs(t) /\ TaskOK(task[t])
  BY DEF IInv, WaitManualCode, Alive, Runs, Working, Shape
<1>2. PICK k : k = [task[t] EXCEPT !.pc = "waiting", !.waits = @ + 1, !.code = 0]
  OBVIOUS
<1>3. /\ task' = [u \in Tasks |-> task'[u]] /\ \A u \in Tasks \ {t} : task'[u] = task[u]
      /\ task'[t] = k
  BY <1>1, <1>2 DEF WaitManualCode, NewChannel, Shape
<1>4. DOMAIN k = DOMAIN task[t] /\ k.pc = "waiting" /\ k.id = task[t].id /\ k.kind = task[t].kind /\ k.code = 0
  BY <1>1, <1>2 DEF TaskOK
<1>5. Moves(t, "waiting")
  BY <1>1, <1>3, <1>4 DEF Moves, TaskOK, Alive
<1>6. RowStep(t)
  <2>1. PICK fields : fields = [status |-> "waiting_code"]
    OBVIOUS
  <2>2. DOMAIN fields = {"status"} /\ fields.status \in InFlight /\ Update(task[t].id, fields)
    BY <2>1 DEF InFlight, WaitManualCode
  <2>3. Wrote(task[t].id, InFlight)
    BY <1>1, <2>2, UpdateWrites
  <2> QED BY <1>1, <1>5, <2>3 DEF RowStep, Moves, Working
<1>7. SlotStepOf(t)
  BY <1>5 DEF WaitManualCode, SlotStepOf, Moves, HoldsSlot
<1>8. Bystanders
  BY <1>1, RunOnlyStays DEF WaitManualCode
<1>9. task'[t].code \in {0, task'[t].waits}
  BY <1>3, <1>4
<1> QED BY <1>1, <1>5, <1>6, <1>7, <1>8, <1>9, Zenon DEF Steps, Moves, Bystanders

\* The code that was typed in is taken, and the row goes on.
LEMMA CodeSteps == ASSUME IInv, NEW t \in Tasks, CodeTaken(t) PROVE Steps(t)
<1>1. Shape /\ Alive(t) /\ Runs(t) /\ TaskOK(task[t])
  BY DEF IInv, CodeTaken, Alive, Runs, Working, Shape
<1>2. PICK k : k = [task[t] EXCEPT !.pc = "active", !.code = 0]
  OBVIOUS
<1>3. /\ task' = [u \in Tasks |-> task'[u]] /\ \A u \in Tasks \ {t} : task'[u] = task[u]
      /\ task'[t] = k
  BY <1>1, <1>2 DEF CodeTaken, Shape
<1>4. DOMAIN k = DOMAIN task[t] /\ k.pc = "active" /\ k.id = task[t].id /\ k.kind = task[t].kind
  BY <1>1, <1>2 DEF TaskOK
<1>5. Moves(t, "active")
  BY <1>1, <1>3, <1>4 DEF Moves, TaskOK, Alive
<1>6. RowStep(t)
  <2>1. PICK fields : fields = [status |-> "registering"]
    OBVIOUS
  <2>2. DOMAIN fields = {"status"} /\ fields.status \in InFlight /\ Update(task[t].id, fields)
    BY <2>1 DEF InFlight, CodeTaken
  <2>3. Wrote(task[t].id, InFlight)
    BY <1>1, <2>2, UpdateWrites
  <2> QED BY <1>1, <1>5, <2>3 DEF RowStep, Moves, Working
<1>7. SlotStepOf(t)
  BY <1>5 DEF CodeTaken, SlotStepOf, Moves, HoldsSlot
<1>8. Bystanders
  BY <1>1, RunOnlyStays DEF CodeTaken
<1> QED BY <1>1, <1>5, <1>6, <1>7, <1>8, MovingSteps DEF Working

\* A wait that ends without a code is still to write its result.
LEMMA NoCodeSteps == ASSUME IInv, NEW t \in Tasks, NoCode(t) PROVE Steps(t)
<1>1. Shape /\ Alive(t) /\ Runs(t)
  BY DEF IInv, NoCode, Alive, Runs, Working
<1>2. Moves(t, "refused")
  BY <1>1, PcMoves DEF NoCode
<1>3. RowStep(t) /\ SlotStepOf(t)
  BY <1>2 DEF NoCode, RowStep, SlotStepOf, Moves, Working, HoldsSlot
<1>4. Bystanders
  BY <1>1, RunOnlyStays DEF NoCode
<1> QED BY <1>1, <1>2, <1>3, <1>4, MovingSteps DEF Working

\* What the self check finds is not a status.
LEMMA SelfCheckSteps == ASSUME IInv, NEW t \in Tasks, SelfCheck(t) PROVE Steps(t)
<1>1. Shape /\ Alive(t) /\ ~Runs(t)
  BY DEF IInv, SelfCheck, Alive, Runs, Working
<1>2. Moves(t, "releasing")
  BY <1>1, PcMoves DEF SelfCheck
<1>3. RowStep(t)
  <2>1. PICK dead \in BOOLEAN : Update(task[t].id, [dead |-> dead])
    BY DEF SelfCheck
  <2>2. PICK fields : fields = [dead |-> dead]
    OBVIOUS
  <2>3. DOMAIN fields = {"dead"} /\ Update(task[t].id, fields)
    BY <2>1, <2>2
  <2>4. Wrote(task[t].id, {row[task[t].id].status})
    BY <1>1, <2>3, UpdateWrites
  <2> QED BY <1>1, <2>4 DEF RowStep
<1>4. SlotStepOf(t)
  BY <1>2 DEF SelfCheck, SlotStepOf, Moves, HoldsSlot
<1>5. Bystanders
  BY <1>1, RunOnlyStays DEF SelfCheck
<1> QED BY <1>1, <1>2, <1>3, <1>4, <1>5, MovingSteps DEF Working

\* However an attempt ends, its result is final; a rescue may write nothing.
LEMMA EndSteps ==
  ASSUME IInv, NEW t \in Tasks, NEW fields, NEW checks \in BOOLEAN, AttemptEnds(t, fields, checks), Bystanders,
         DOMAIN fields \subseteq {"status", "auth", "arp"},
         "status" \in DOMAIN fields => fields.status \in Final,
         "status" \notin DOMAIN fields => fields = <<>> /\ task[t].kind # "run",
         "auth" \in DOMAIN fields => fields.auth = TRUE
  PROVE  Steps(t)
<1>1. Shape /\ Alive(t) /\ Runs(t)
  BY DEF IInv, AttemptEnds, Alive, Runs, Working
<1>2. PICK pc : pc = IF checks THEN "checking" ELSE "releasing"
  OBVIOUS
<1>3. Moves(t, pc)
  BY <1>1, <1>2, PcMoves DEF AttemptEnds
<1>4. RowStep(t)
  <2>1. Update(task[t].id, fields)
    BY DEF AttemptEnds
  <2>2. CASE "status" \in DOMAIN fields
    <3>1. Wrote(task[t].id, Final)
      BY <1>1, <2>1, <2>2, UpdateWrites
    <3> QED BY <1>1, <1>2, <1>3, <3>1 DEF RowStep, Moves, Working
  <2>3. CASE "status" \notin DOMAIN fields
    <3>1. task[t].id \in adrift
      BY <1>1, <2>3 DEF IInv, Owned
    <3>2. DOMAIN fields = {}
      BY <2>3
    <3>3. Wrote(task[t].id, {row[task[t].id].status})
      BY <1>1, <2>1, <3>2, UpdateWrites
    <3> QED BY <3>1, <3>3 DEF RowStep
  <2> QED BY <2>2, <2>3
<1>5. SlotStepOf(t)
  BY <1>2, <1>3 DEF AttemptEnds, SlotStepOf, Moves, HoldsSlot
<1> QED BY <1>1, <1>2, <1>3, <1>4, <1>5, MovingSteps DEF Working

\* A created account whose cookies are gone is given up on the way in.
LEMMA AdobeEnterSteps == ASSUME IInv, NEW t \in Tasks, AdobeEnter(t) PROVE Steps(t)
<1>0. Shape
  BY DEF IInv
<1>1. PICK id : id = task[t].id
  OBVIOUS
<1>2. PICK lost : lost = (Exists(id) /\ row[id].arp /\ ~row[id].auth)
  OBVIOUS
<1>3. PICK pc : pc = IF Exists(id) /\ ~lost THEN "queued" ELSE "leaving"
  OBVIOUS
<1>4. PICK k : k = [task[t] EXCEPT !.pc = pc, !.box = row[id].box, !.restore = row[id].arp]
  OBVIOUS
<1>5. Alive(t) /\ Runs(t) /\ TaskOK(task[t]) /\ id \in Rows
  BY <1>0, <1>1 DEF AdobeEnter, Alive, Runs, Working, Shape, TaskOK
<1>6. /\ task' = [u \in Tasks |-> task'[u]] /\ \A u \in Tasks \ {t} : task'[u] = task[u]
      /\ task'[t] = k
  BY <1>0, <1>1, <1>2, <1>3, <1>4 DEF AdobeEnter, Shape
<1>7. DOMAIN k = DOMAIN task[t] /\ k.pc = pc /\ k.id = task[t].id /\ k.kind = task[t].kind
  BY <1>4, <1>5 DEF TaskOK
<1>8. Moves(t, pc)
  BY <1>1, <1>5, <1>6, <1>7 DEF Moves, TaskOK
<1>9. RowStep(t)
  <2>1. CASE lost
    <3>1. PICK fields : fields = [status |-> "account_exists"]
      OBVIOUS
    <3>2. DOMAIN fields = {"status"} /\ fields.status \in Final /\ Update(id, fields)
      BY <1>1, <1>2, <2>1, <3>1 DEF Final, AdobeEnter
    <3>3. Wrote(id, Final)
      BY <1>0, <3>2, UpdateWrites
    <3> QED BY <1>1, <1>3, <1>5, <1>8, <2>1, <3>3 DEF RowStep, Moves, Working
  <2>2. CASE ~lost
    <3>1. row' = row
      BY <1>1, <1>2, <2>2 DEF AdobeEnter
    <3>2. task'[t].pc \in Working \/ row[id].status \notin InFlight
      BY <1>3, <1>8, <2>2 DEF Moves, Exists, InFlight, Working
    <3> QED BY <1>1, <3>1, <3>2 DEF RowStep
  <2> QED BY <1>2, <2>1, <2>2
<1>10. SlotStepOf(t)
  BY <1>3, <1>8 DEF AdobeEnter, SlotStepOf, Moves, HoldsSlot
<1>11. Bystanders
  BY <1>0, RunOnlyStays DEF AdobeEnter
<1> QED BY <1>3, <1>5, <1>8, <1>9, <1>10, <1>11, MovingSteps

\* A rescue leaves its row as it is, whether it goes on or finds it taken.
LEMMA RescueEnterSteps == ASSUME IInv, NEW t \in Tasks, RescueEnter(t) PROVE Steps(t)
<1>0. Shape
  BY DEF IInv
<1>1. PICK id : id = task[t].id
  OBVIOUS
<1>2. Alive(t) /\ Runs(t) /\ TaskOK(task[t]) /\ id \in Rows /\ id \in adrift
  BY <1>0, <1>1 DEF RescueEnter, Alive, Runs, Working, Shape, TaskOK, IInv, Owned
<1>3. RowStep(t)
  BY <1>1, <1>2 DEF RescueEnter, RowStep
<1>4. Bystanders
  BY <1>0, RunOnlyStays DEF RescueEnter
<1>5. CASE task' = [task EXCEPT ![t] = Unborn]
  <2>1. PICK k : k = Unborn
    OBVIOUS
  <2>2. TaskOK(k) /\ k.pc = "free"
    BY <2>1 DEF Unborn, TaskOK
  <2>3. /\ task' = [u \in Tasks |-> task'[u]] /\ \A u \in Tasks \ {t} : task'[u] = task[u]
        /\ task'[t] = k
    BY <1>0, <1>5, <2>1 DEF Shape
  <2>4. SlotStepOf(t)
    BY <2>2, <2>3 DEF RescueEnter, SlotStepOf, HoldsSlot
  <2>5. k.pc \notin Working /\ k.pc # "waiting"
    BY <2>2 DEF Working
  <2> QED BY <1>2, <1>3, <1>4, <2>2, <2>3, <2>4, <2>5, Zenon DEF Steps, Bystanders
<1>6. CASE task' = [task EXCEPT ![t].pc = IF Exists(id) /\ row[id].auth THEN "queued" ELSE "leaving", ![t].box = row[id].box]
  <2>1. PICK pc : pc = IF Exists(id) /\ row[id].auth THEN "queued" ELSE "leaving"
    OBVIOUS
  <2>2. PICK k : k = [task[t] EXCEPT !.pc = pc, !.box = row[id].box]
    OBVIOUS
  <2>3. /\ task' = [u \in Tasks |-> task'[u]] /\ \A u \in Tasks \ {t} : task'[u] = task[u]
        /\ task'[t] = k
    BY <1>0, <1>6, <2>1, <2>2 DEF Shape
  <2>4. DOMAIN k = DOMAIN task[t] /\ k.pc = pc /\ k.id = task[t].id /\ k.kind = task[t].kind
    BY <1>2, <2>2 DEF TaskOK
  <2>5. Moves(t, pc)
    BY <1>1, <1>2, <2>3, <2>4 DEF Moves, TaskOK
  <2>6. SlotStepOf(t)
    BY <2>1, <2>5 DEF RescueEnter, SlotStepOf, Moves, HoldsSlot
  <2> QED BY <1>2, <1>3, <1>4, <2>1, <2>5, <2>6, MovingSteps
<1> QED BY <1>1, <1>5, <1>6 DEF RescueEnter

\* The results of an attempt, for every package.
Ends(t, s) == \/ AttemptEnds(t, [status |-> s, auth |-> TRUE], TRUE) \/ AttemptEnds(t, [status |-> s, auth |-> TRUE], FALSE)
              \/ AttemptEnds(t, [status |-> s], FALSE)

\* Each of them is a final status, so the task lets go of its row.
LEMMA ResultSteps ==
  ASSUME IInv, NEW t \in Tasks, NEW s \in Final, Ends(t, s), Bystanders PROVE Steps(t)
<1>1. CASE AttemptEnds(t, [status |-> s], FALSE)
  <2>1. PICK fields : fields = [status |-> s]
    OBVIOUS
  <2>2. DOMAIN fields = {"status"} /\ fields.status = s /\ AttemptEnds(t, fields, FALSE)
    BY <1>1, <2>1
  <2> QED BY <2>2, EndSteps
<1>2. CASE \E c \in BOOLEAN : AttemptEnds(t, [status |-> s, auth |-> TRUE], c)
  <2>1. PICK c \in BOOLEAN : AttemptEnds(t, [status |-> s, auth |-> TRUE], c)
    BY <1>2
  <2>2. PICK fields : fields = [status |-> s, auth |-> TRUE]
    OBVIOUS
  <2>3. DOMAIN fields = {"status", "auth"} /\ fields.status = s /\ fields.auth = TRUE /\ AttemptEnds(t, fields, c)
    BY <2>1, <2>2
  <2> QED BY <2>3, EndSteps
<1> QED BY <1>1, <1>2 DEF Ends

\* What an Adobe attempt that knows about the session writes.
LEMMA AdobeResultSteps ==
  ASSUME IInv, NEW t \in Tasks, Bystanders, platform = "adobe",
         \/ AttemptEnds(t, [status |-> "registered", auth |-> TRUE, arp |-> FALSE], TRUE)
         \/ AttemptEnds(t, [status |-> "account_exists", arp |-> TRUE], FALSE)
         \/ AttemptEnds(t, <<>>, FALSE) /\ task[t].kind = "rescue"
  PROVE  Steps(t)
<1>1. CASE AttemptEnds(t, [status |-> "registered", auth |-> TRUE, arp |-> FALSE], TRUE)
  <2>1. PICK fields : fields = [status |-> "registered", auth |-> TRUE, arp |-> FALSE]
    OBVIOUS
  <2>2. /\ DOMAIN fields = {"status", "auth", "arp"} /\ fields.status \in Final /\ fields.auth = TRUE
        /\ fields.arp = FALSE /\ AttemptEnds(t, fields, TRUE)
    BY <1>1, <2>1 DEF Final
  <2> QED BY <2>2, EndSteps
<1>2. CASE AttemptEnds(t, [status |-> "account_exists", arp |-> TRUE], FALSE)
  <2>1. PICK fields : fields = [status |-> "account_exists", arp |-> TRUE]
    OBVIOUS
  <2>2. /\ DOMAIN fields = {"status", "arp"} /\ fields.status \in Final /\ AttemptEnds(t, fields, FALSE)
    BY <1>2, <2>1 DEF Final
  <2> QED BY <2>2, EndSteps
<1>3. CASE AttemptEnds(t, <<>>, FALSE) /\ task[t].kind = "rescue"
  <2>1. PICK fields : fields = << >>
    OBVIOUS
  <2>2. AttemptEnds(t, fields, FALSE)
    BY <1>3, <2>1, Zenon
  <2>3. DOMAIN fields = {}
    <3>1. fields \in Seq({}) /\ Len(fields) = 0
      BY <2>1
    <3> QED BY <3>1
  <2> QED BY <1>3, <2>1, <2>2, <2>3, EndSteps
<1> QED BY <1>1, <1>2, <1>3

\* Every step of run and of runRescue, in every package.
TaskStep == \E t \in Tasks : \/ platform = "grok" /\ GrokRun(t)
                             \/ platform = "adobe" /\ AdobeRun(t)
                             \/ platform = "leonardo" /\ LeonardoRun(t)
                             \/ platform = "lovart" /\ LovartRun(t)

\* Each is a step of one task.
LEMMA RunsStep == ASSUME IInv, TaskStep PROVE \E u \in Tasks : Steps(u)
<1>0. Shape
  BY DEF IInv
<1>1. PICK t \in Tasks : \/ platform = "grok" /\ GrokRun(t)
                         \/ platform = "adobe" /\ AdobeRun(t)
                         \/ platform = "leonardo" /\ LeonardoRun(t)
                         \/ platform = "lovart" /\ LovartRun(t)
  BY DEF TaskStep
<1>2. CASE Enter(t) \/ SlotStep(t) \/ CodeStep(t) \/ SelfCheck(t) \/ AdobeEnter(t) \/ RescueEnter(t)
  BY <1>2, EnterSteps, AcquireSteps, StoppedSteps, LeaveSteps, WaitSteps, CodeSteps, NoCodeSteps, SelfCheckSteps,
     AdobeEnterSteps, RescueEnterSteps DEF SlotStep, CodeStep
<1>3. CASE GrokRegistered(t) \/ GrokFailed(t) \/ LeonardoRegistered(t) \/ LeonardoFailed(t) \/ LovartRegistered(t) \/ LovartFailed(t)
           \/ AdobeFailed(t) \/ AdobeAccountExists(t)
  <2>1. RunOnly
    BY <1>3 DEF GrokRegistered, GrokFailed, LeonardoRegistered, LeonardoFailed, LovartRegistered, LovartFailed, AdobeFailed, AdobeAccountExists
  <2>2. \E s \in Final : Ends(t, s)
    BY <1>3 DEF GrokRegistered, GrokFailed, LeonardoRegistered, LeonardoFailures, LeonardoFailed, LovartRegistered,
                LovartFailed, AdobeFailed, AdobeAccountExists, Ends, Final
  <2> QED BY <1>0, <2>1, <2>2, RunOnlyStays, ResultSteps
<1>4. CASE GrokUnavailable(t)
  <2>1. Bystanders
    BY <1>0, <1>4, EndedStays DEF GrokUnavailable
  <2>2. Ends(t, "register_failed") /\ "register_failed" \in Final
    BY <1>4 DEF GrokUnavailable, Ends, Final
  <2> QED BY <2>1, <2>2, ResultSteps
<1>5. CASE platform = "adobe" /\ (AdobeRegistered(t) \/ AdobeSessionLost(t) \/ RescueEnds(t))
  <2>1. Bystanders
    BY <1>0, <1>5, RunOnlyStays DEF AdobeRegistered, AdobeSessionLost, RescueEnds
  <2> QED BY <1>5, <2>1, AdobeResultSteps DEF AdobeRegistered, AdobeSessionLost, RescueEnds
<1>6. CASE platform = "grok" /\ GrokRun(t)
  BY <1>2, <1>3, <1>4, <1>6, Zenon DEF GrokRun, GrokCode
<1>7. CASE platform = "adobe" /\ AdobeRun(t)
  BY <1>2, <1>3, <1>5, <1>7, Zenon DEF AdobeRun, AdobeCode
<1>8. CASE platform = "leonardo" /\ LeonardoRun(t)
  BY <1>2, <1>3, <1>8, Zenon DEF LeonardoRun, LeonardoCode
<1>9. CASE platform = "lovart" /\ LovartRun(t)
  BY <1>2, <1>3, <1>9, Zenon DEF LovartRun, LovartCode
<1> QED BY <1>1, <1>6, <1>7, <1>8, <1>9

-----------------------------------------------------------------------------
(* The steps of the panel and of the batches.                              *)

\* A task no step is of: what it is at stays.
Kept(t) == /\ task'[t].pc = task[t].pc /\ task'[t].id = task[t].id /\ task'[t].kind = task[t].kind
           /\ task'[t].pc = "waiting" => task'[t].code \in {0, task'[t].waits}

\* New goroutines hold no slot and wait for no code.
LEMMA SlotsAndCodes ==
  ASSUME IInv, active' = active,
         \A t \in Tasks : Kept(t) \/ (task[t].pc = "free" /\ task'[t].pc = "spawned")
  PROVE  Slots' /\ CodeOfThisWait'
<1>1. Holders' = Holders
  BY DEF Holders, HoldsSlot, Kept
<1>2. CodeOfThisWait'
  BY DEF CodeOfThisWait, Kept
<1> QED BY <1>1, <1>2 DEF IInv, Slots

\* Who has a row depends on the tasks, the claims and the row.
LEMMA QuietKeeps ==
  ASSUME IInv, Shape', \A t \in Tasks : Kept(t), \A b \in Batches : Claims(b)' = Claims(b),
         row' = row, UNCHANGED <<active, born, platform, twin, adrift>>
  PROVE  IInv'
<1>1. Slots' /\ CodeOfThisWait'
  BY SlotsAndCodes
<1>2. \A t \in Tasks : (Alive(t)' <=> Alive(t)) /\ (Runs(t)' <=> Runs(t)) /\ task'[t].id = task[t].id /\ task'[t].kind = task[t].kind
  BY DEF Kept, Alive, Runs
<1>3. Owned'
  <2>1. (\A t \in Tasks : Alive(t) /\ task[t].kind # "run" => task[t].id \in adrift)'
    BY <1>2 DEF IInv, Owned
  <2>2. (\A id \in Rows : row[id].status \in InFlight =>
          \/ \E t \in Tasks : task[t].id = id /\ Runs(t)
          \/ \E b \in Batches : id \in Claims(b)
          \/ id \in adrift)'
    BY <1>2 DEF IInv, Owned
  <2> QED BY <2>1, <2>2 DEF Owned
<1>4. Table'
  BY DEF IInv, Table, Exists
<1>5. ASSUME NEW x \in Rows, x \notin twin \cup adrift PROVE Alone(x)'
  <2>1. Alone(x)
    BY <1>5 DEF IInv
  <2>2. (\A t, u \in Tasks : Alive(t) /\ Alive(u) /\ task[t].id = x /\ task[u].id = x => t = u)'
    BY <1>2, <2>1 DEF Alone
  <2>3. (\A t \in Tasks, b \in Batches : Alive(t) /\ task[t].id = x => x \notin Claims(b))'
    BY <1>2, <2>1 DEF Alone
  <2>4. (\A b, c \in Batches : x \in Claims(b) /\ x \in Claims(c) => b = c)'
    BY <2>1 DEF Alone
  <2>5. ((\E t \in Tasks : Runs(t) /\ task[t].id = x) \/ (\E b \in Batches : x \in Claims(b))
          => row[x].status \in InFlight \cup {"none"})'
    BY <1>2, <2>1 DEF Alone
  <2> QED BY <2>2, <2>3, <2>4, <2>5, Zenon DEF Alone
<1> QED BY <1>1, <1>3, <1>4, <1>5, Zenon DEF IInv

\* Goroutines for what batch b claimed take the claims over.
LEMMA HandedKeeps ==
  ASSUME IInv, Shape', NEW b \in Batches, Spawned(Claims(b), "run"), Claims(b)' = {},
         \A c \in Batches \ {b} : Claims(c)' = Claims(c),
         row' = row, UNCHANGED <<active, born, platform, twin, adrift>>
  PROVE  IInv'
<1>1. \A t \in Tasks : \/ task'[t] = task[t]
                       \/ task[t].pc = "free" /\ task'[t].pc = "spawned" /\ task'[t].id \in Claims(b) /\ task'[t].kind = "run"
  BY DEF Spawned
<1>2. \A t \in Tasks : task'[t] = task[t] => Kept(t)
  BY DEF IInv, CodeOfThisWait, Kept
<1>3. Slots' /\ CodeOfThisWait'
  BY <1>1, <1>2, SlotsAndCodes
<1>4. \A t \in Tasks : Alive(t) => task'[t] = task[t]
  BY <1>1 DEF Alive
<1>5. Owned'
  <2>1. (\A t \in Tasks : Alive(t) /\ task[t].kind # "run" => task[t].id \in adrift)'
    BY <1>1 DEF IInv, Owned, Alive
  <2>2. ASSUME NEW x \in Rows, row'[x].status \in InFlight
        PROVE \/ \E t \in Tasks : task'[t].id = x /\ Runs(t)'
              \/ \E c \in Batches : x \in Claims(c)'
              \/ x \in adrift'
    <3>1. CASE \E t \in Tasks : task[t].id = x /\ Runs(t)
      BY <1>4, <3>1 DEF Runs, Alive, Working
    <3>2. CASE x \in Claims(b)
      BY <3>2 DEF Spawned, Runs, Working
    <3>3. CASE x \in adrift \/ \E c \in Batches \ {b} : x \in Claims(c)
      BY <3>3
    <3> QED BY <2>2, <3>1, <3>2, <3>3 DEF IInv, Owned
  <2> QED BY <2>1, <2>2 DEF Owned
<1>6. Table'
  BY DEF IInv, Table, Exists
<1>7. ASSUME NEW x \in Rows, x \notin twin \cup adrift PROVE Alone(x)'
  <2>1. Alone(x)
    BY <1>7 DEF IInv
  <2>2. ASSUME NEW t \in Tasks, NEW u \in Tasks, Alive(t)', Alive(u)', task'[t].id = x, task'[u].id = x PROVE t = u
    <3>1. CASE Alive(t) /\ Alive(u)
      BY <1>4, <2>1, <2>2, <3>1 DEF Alone
    <3>2. CASE (Alive(t) /\ ~Alive(u)) \/ (~Alive(t) /\ Alive(u))
      <4>1. x \in Claims(b)
        BY <1>1, <2>2, <3>2 DEF Alive
      <4> QED BY <1>4, <2>1, <2>2, <3>2, <4>1 DEF Alone
    <3>3. CASE ~Alive(t) /\ ~Alive(u)
      <4>1. task[t].pc = "free" /\ task'[t].pc = "spawned" /\ task[u].pc = "free" /\ task'[u].pc = "spawned"
        BY <1>1, <2>2, <3>3 DEF Alive
      <4>2. \A v, w \in {y \in Tasks : task[y].pc = "free" /\ task'[y].pc = "spawned"} : task'[v].id = task'[w].id => v = w
        BY DEF Spawned
      <4>3. t \in {y \in Tasks : task[y].pc = "free" /\ task'[y].pc = "spawned"}
        BY <4>1
      <4>4. u \in {y \in Tasks : task[y].pc = "free" /\ task'[y].pc = "spawned"}
        BY <4>1
      <4> QED BY <2>2, <4>2, <4>3, <4>4, Zenon
    <3> QED BY <3>1, <3>2, <3>3
  <2>3. ASSUME NEW t \in Tasks, NEW c \in Batches, Alive(t)', task'[t].id = x PROVE x \notin Claims(c)'
    <3>1. CASE Alive(t)
      BY <1>4, <2>1, <2>3, <3>1 DEF Alone
    <3>2. CASE ~Alive(t)
      <4>1. x \in Claims(b)
        BY <1>1, <2>3, <3>2 DEF Alive
      <4> QED BY <2>1, <4>1 DEF Alone
    <3> QED BY <3>1, <3>2
  <2>4. \A c, d \in Batches : x \in Claims(c)' /\ x \in Claims(d)' => c = d
    BY <2>1 DEF Alone
  <2>5. ASSUME (\E t \in Tasks : Runs(t)' /\ task'[t].id = x) \/ (\E c \in Batches : x \in Claims(c)')
        PROVE  row'[x].status \in InFlight \cup {"none"}
    <3>1. (\E t \in Tasks : Runs(t) /\ task[t].id = x) \/ (\E c \in Batches : x \in Claims(c))
      <4>1. \A t \in Tasks : Runs(t)' /\ task'[t].id = x => (Runs(t) /\ task[t].id = x) \/ x \in Claims(b)
        BY <1>1 DEF Runs
      <4> QED BY <2>5, <4>1
    <3> QED BY <2>1, <3>1 DEF Alone
  <2>6. /\ (\A t, u \in Tasks : Alive(t) /\ Alive(u) /\ task[t].id = x /\ task[u].id = x => t = u)'
        /\ (\A t \in Tasks, c \in Batches : Alive(t) /\ task[t].id = x => x \notin Claims(c))'
    BY <2>2, <2>3
  <2> QED BY <2>4, <2>5, <2>6, Zenon DEF Alone
<1> QED BY <1>3, <1>5, <1>6, <1>7, Zenon DEF IInv

\* What a save of the reading h leaves, and who learns that somebody else has the row.
Saved(id, h, keeps) ==
    /\ id \in Rows /\ row' = [x \in Rows |-> row'[x]] /\ \A x \in Rows \ {id} : row'[x] = row[x]
    /\ RowOK(row'[id]) /\ row'[id].status = "registering"
    /\ (h.old.auth /\ h.old.arp /\ keeps = TRUE => row'[id].auth)
    /\ born' \in Nat /\ born <= born' /\ id <= born'
    /\ twin \subseteq twin'
    /\ id \notin twin' => /\ \A t \in Tasks : Alive(t) => task[t].id # id
                          /\ \A b \in Batches : id \notin Claims(b)

\* Save does so.
LEMMA SaveWrites ==
  ASSUME Shape, Table, NEW h, RowOK(h.old), NEW box, NEW keeps \in BOOLEAN, Save(h, box, keeps)
  PROVE  Saved(IdFor(h), h, keeps)
<1>0. PICK id : id = IdFor(h)
  OBVIOUS
<1>1. id \in Rows /\ row' = [row EXCEPT ![id] = Claimed(h, box, keeps)]
  BY <1>0 DEF Save
<1>2. row' = [x \in Rows |-> row'[x]] /\ (\A x \in Rows \ {id} : row'[x] = row[x]) /\ row'[id] = Claimed(h, box, keeps)
  BY <1>1 DEF Shape
<1>3. PICK r : r = h.old
  OBVIOUS
<1>4. PICK n : n = [r EXCEPT !.status = "registering", !.box = box, !.auth = @ /\ keeps /\ r.arp]
  OBVIOUS
<1>5. row'[id] = n
  BY <1>2, <1>3, <1>4 DEF Claimed
<1>6. DOMAIN n = DOMAIN r /\ n.status = "registering" /\ n.auth = (r.auth /\ keeps /\ r.arp)
  BY <1>3, <1>4 DEF RowOK
<1>7. RowOK(row'[id]) /\ row'[id].status = "registering"
  BY <1>3, <1>5, <1>6 DEF RowOK
<1>8. h.old.auth /\ h.old.arp /\ keeps = TRUE => row'[id].auth
  BY <1>3, <1>5, <1>6
<1>9. born' \in Nat /\ born <= born' /\ id <= born'
  BY <1>0, <1>1, AccountAssumption DEF Save, Table
<1>10. twin' = twin \cup Overlapping({id})
  BY <1>0 DEF Save
<1>11. ASSUME id \notin twin'
       PROVE  /\ \A t \in Tasks : Alive(t) => task[t].id # id
              /\ \A b \in Batches : id \notin Claims(b)
  <2>1. id \notin Overlapping({id})
    BY <1>10, <1>11
  <2> QED BY <2>1 DEF Overlapping, Claims, Claiming
<1> QED BY <1>0, <1>1, <1>2, <1>7, <1>8, <1>9, <1>10, <1>11 DEF Saved

\* A row saved with one owner, a goroutine or a claim, keeps the table.
LEMMA SavedTable ==
  ASSUME Table, NEW id \in Rows, \A x \in Rows \ {id} : row'[x] = row[x],
         row'[id].status = "registering", born' \in Nat, born <= born', id <= born', platform' = platform
  PROVE  Table'
<1>1. \A x \in Rows : Exists(x)' => x <= born'
  BY AccountAssumption DEF Table, Exists
<1>2. \A x \in Rows : row'[x].arp => Exists(x)'
  BY DEF Table, Exists
<1> QED BY <1>1, <1>2 DEF Table

\* A start gives the row it saved one goroutine.
LEMMA StartKeeps == ASSUME IInv, NEW keeps \in BOOLEAN, StartSave(keeps) PROVE IInv'
<1>1. PICK id : id = IdFor(start)
  OBVIOUS
<1>2. PICK box : box = IF start.old.email \in Pool THEN BoxOf[start.old.email] ELSE NoBox
  OBVIOUS
<1>4. Save(start, box, keeps) /\ Spawn({id}, "run", 0) /\ start' = Nothing
  BY <1>1, <1>2 DEF StartSave
<1>5. Shape /\ Table /\ UNCHANGED <<platform, active, batch, adrift>>
  BY DEF IInv, StartSave
<1>6. /\ id \in Rows /\ row' = [x \in Rows |-> row'[x]] /\ \A x \in Rows \ {id} : row'[x] = row[x]
      /\ RowOK(row'[id]) /\ row'[id].status = "registering"
      /\ born' \in Nat /\ born <= born' /\ id <= born'
      /\ twin \subseteq twin'
      /\ id \notin twin' => /\ \A t \in Tasks : Alive(t) => task[t].id # id
                            /\ \A b \in Batches : id \notin Claims(b)
  <2>1. Saved(id, start, keeps)
    BY <1>1, <1>4, <1>5, SaveWrites DEF Shape
  <2> QED BY <2>1 DEF Saved
<1>7. Spawned({id}, "run")
  BY <1>4, <1>5, <1>6, SpawnSpawns
<1>8. \A t \in Tasks : \/ task'[t] = task[t]
                       \/ task[t].pc = "free" /\ task'[t].pc = "spawned" /\ task'[t].id = id /\ task'[t].kind = "run"
  BY <1>7 DEF Spawned
<1>9. \A t \in Tasks : task'[t] = task[t] => Kept(t)
  BY DEF IInv, CodeOfThisWait, Kept
<1>10. Slots' /\ CodeOfThisWait'
  BY <1>5, <1>8, <1>9, SlotsAndCodes
<1>11. \A t \in Tasks : Alive(t) => task'[t] = task[t]
  BY <1>8 DEF Alive
<1>12. Shape'
  <2>1. \A x \in Rows : RowOK(row'[x])
    BY <1>5, <1>6 DEF Shape
  <2>2. \A t \in Tasks : TaskOK(task'[t])
    BY <1>5, <1>7 DEF Shape, Spawned
  <2>3. RowOK(start'.old)
    BY <1>4, NothingOK
  <2> QED BY <1>5, <1>6, <1>7, <2>1, <2>2, <2>3, ShapeFrom DEF Shape, Spawned
<1>13. Table'
  <2>1. /\ id \in Rows /\ (\A x \in Rows \ {id} : row'[x] = row[x]) /\ row'[id].status = "registering"
        /\ born' \in Nat /\ born <= born' /\ id <= born' /\ platform' = platform
    BY <1>5, <1>6, Zenon
  <2> QED BY <1>5, <2>1, SavedTable
<1>14. \A b \in Batches : Claims(b)' = Claims(b)
  BY <1>5 DEF Claims
<1>15. Owned'
  <2>1. (\A t \in Tasks : Alive(t) /\ task[t].kind # "run" => task[t].id \in adrift)'
    BY <1>5, <1>8 DEF IInv, Owned, Alive
  <2>2. ASSUME NEW x \in Rows, row'[x].status \in InFlight
        PROVE \/ \E t \in Tasks : task'[t].id = x /\ Runs(t)'
              \/ \E b \in Batches : x \in Claims(b)'
              \/ x \in adrift'
    <3>1. CASE x = id
      BY <1>7, <3>1 DEF Spawned, Runs, Working
    <3>2. CASE x # id /\ \E t \in Tasks : task[t].id = x /\ Runs(t)
      BY <1>11, <3>2 DEF Runs, Alive, Working
    <3>3. CASE x # id /\ ~ \E t \in Tasks : task[t].id = x /\ Runs(t)
      BY <1>5, <1>6, <1>14, <2>2, <3>3 DEF IInv, Owned
    <3> QED BY <3>1, <3>2, <3>3
  <2> QED BY <2>1, <2>2 DEF Owned
<1>16. ASSUME NEW x \in Rows, x \notin twin' \cup adrift' PROVE Alone(x)'
  <2>1. Alone(x)
    BY <1>5, <1>6, <1>16 DEF IInv
  <2>2. ASSUME NEW t \in Tasks, NEW u \in Tasks, Alive(t)', Alive(u)', task'[t].id = x, task'[u].id = x PROVE t = u
    <3>1. CASE Alive(t) /\ Alive(u)
      BY <1>11, <2>1, <2>2, <3>1 DEF Alone
    <3>2. CASE (Alive(t) /\ ~Alive(u)) \/ (~Alive(t) /\ Alive(u))
      BY <1>6, <1>8, <1>11, <1>16, <2>2, <3>2 DEF Alive
    <3>3. CASE ~Alive(t) /\ ~Alive(u)
      <4>1. task[t].pc = "free" /\ task'[t].pc = "spawned" /\ task[u].pc = "free" /\ task'[u].pc = "spawned"
        BY <1>8, <2>2, <3>3 DEF Alive
      <4>2. \A v, w \in {y \in Tasks : task[y].pc = "free" /\ task'[y].pc = "spawned"} : task'[v].id = task'[w].id => v = w
        BY <1>7 DEF Spawned
      <4>3. t \in {y \in Tasks : task[y].pc = "free" /\ task'[y].pc = "spawned"}
        BY <4>1
      <4>4. u \in {y \in Tasks : task[y].pc = "free" /\ task'[y].pc = "spawned"}
        BY <4>1
      <4> QED BY <2>2, <4>2, <4>3, <4>4, Zenon
    <3> QED BY <3>1, <3>2, <3>3
  <2>3. ASSUME NEW t \in Tasks, NEW b \in Batches, Alive(t)', task'[t].id = x PROVE x \notin Claims(b)'
    <3>1. CASE Alive(t)
      BY <1>11, <1>14, <2>1, <2>3, <3>1 DEF Alone
    <3>2. CASE ~Alive(t)
      BY <1>6, <1>8, <1>14, <1>16, <2>3, <3>2 DEF Alive
    <3> QED BY <3>1, <3>2
  <2>4. \A b, c \in Batches : x \in Claims(b)' /\ x \in Claims(c)' => b = c
    BY <1>14, <2>1 DEF Alone
  <2>5. ASSUME (\E t \in Tasks : Runs(t)' /\ task'[t].id = x) \/ (\E b \in Batches : x \in Claims(b)')
        PROVE  row'[x].status \in InFlight \cup {"none"}
    <3>1. CASE x = id
      BY <1>6, <3>1 DEF InFlight
    <3>2. CASE x # id
      <4>1. \A t \in Tasks : Runs(t)' /\ task'[t].id = x => Runs(t) /\ task[t].id = x
        BY <1>8, <3>2 DEF Runs
      <4> QED BY <1>6, <1>14, <2>1, <2>5, <3>2, <4>1 DEF Alone
    <3> QED BY <3>1, <3>2
  <2>6. /\ (\A t, u \in Tasks : Alive(t) /\ Alive(u) /\ task[t].id = x /\ task[u].id = x => t = u)'
        /\ (\A t \in Tasks, b \in Batches : Alive(t) /\ task[t].id = x => x \notin Claims(b))'
    BY <2>2, <2>3
  <2> QED BY <2>4, <2>5, <2>6, Zenon DEF Alone
<1> QED BY <1>10, <1>12, <1>13, <1>15, <1>16, Zenon DEF IInv

\* What a step of batch b does to the requests: the others keep their claims.
Goes(b, pc, picked) ==
    /\ batch' = [c \in Batches |-> batch'[c]] /\ \A c \in Batches : BatchOK(batch'[c])
    /\ \A c \in Batches \ {b} : batch'[c].pc = batch[c].pc /\ batch'[c].picked = batch[c].picked
    /\ batch'[b].pc = pc /\ batch'[b].picked = picked

\* A row that is claimed is saved, and no goroutine has it.
LEMMA ClaimKeeps ==
  ASSUME IInv, NEW b \in Batches, NEW keeps \in BOOLEAN, ClaimSave(b, keeps)
  PROVE  IInv'
<1>1. PICK h : h = batch[b].held
  OBVIOUS
<1>2. PICK id : id = IdFor(h)
  OBVIOUS
<1>3. /\ Save(h, BoxOf[h.old.email], keeps)
      /\ batch' = [batch EXCEPT ![b].held = Nothing, ![b].picked = @ \cup {id}]
      /\ batch[b].pc \in Claiming /\ UNCHANGED <<platform, task, active, start, adrift>>
  BY <1>1, <1>2 DEF ClaimSave, Claiming
<1>4. Shape /\ Table /\ RowOK(h.old)
  BY <1>1 DEF IInv, Shape, BatchOK
<1>5. /\ id \in Rows /\ row' = [x \in Rows |-> row'[x]] /\ \A x \in Rows \ {id} : row'[x] = row[x]
      /\ RowOK(row'[id]) /\ row'[id].status = "registering"
      /\ born' \in Nat /\ born <= born' /\ id <= born'
      /\ twin \subseteq twin'
      /\ id \notin twin' => /\ \A t \in Tasks : Alive(t) => task[t].id # id
                            /\ \A c \in Batches : id \notin Claims(c)
  <2>1. PICK box : box = BoxOf[h.old.email]
    OBVIOUS
  <2>2. Save(h, box, keeps)
    BY <1>3, <2>1
  <2>3. Saved(id, h, keeps)
    BY <1>2, <1>4, <2>2, SaveWrites
  <2> QED BY <2>3 DEF Saved
<1>6. PICK n : n = [batch[b] EXCEPT !.held = Nothing, !.picked = @ \cup {id}]
  OBVIOUS
<1>7. batch' = [c \in Batches |-> batch'[c]] /\ (\A c \in Batches \ {b} : batch'[c] = batch[c]) /\ batch'[b] = n
  BY <1>3, <1>4, <1>6 DEF Shape
<1>8. BatchOK(n) /\ n.pc = batch[b].pc /\ n.picked = batch[b].picked \cup {id}
  <2>1. DOMAIN n = DOMAIN batch[b] /\ n.pc = batch[b].pc /\ n.picked = batch[b].picked \cup {id} /\ n.held = Nothing
    BY <1>4, <1>6 DEF Shape, BatchOK
  <2> QED BY <1>4, <1>5, <2>1, NothingOK DEF Shape, BatchOK
<1>9. (\A c \in Batches \ {b} : Claims(c)' = Claims(c)) /\ Claims(b)' = Claims(b) \cup {id}
  BY <1>3, <1>7, <1>8 DEF Claims
<1>10. Shape'
  <2>1. (\A x \in Rows : RowOK(row'[x])) /\ \A c \in Batches : BatchOK(batch'[c])
    BY <1>4, <1>5, <1>7, <1>8 DEF Shape
  <2> QED BY <1>3, <1>4, <1>5, <1>7, <2>1, ShapeFrom DEF Shape
<1>11. Slots' /\ CodeOfThisWait'
  <2>1. \A t \in Tasks : Kept(t)
    BY <1>3 DEF IInv, CodeOfThisWait, Kept
  <2> QED BY <1>3, <2>1, SlotsAndCodes
<1>12. Table'
  <2>1. /\ id \in Rows /\ (\A x \in Rows \ {id} : row'[x] = row[x]) /\ row'[id].status = "registering"
        /\ born' \in Nat /\ born <= born' /\ id <= born' /\ platform' = platform
    BY <1>3, <1>5, Zenon
  <2> QED BY <1>4, <2>1, SavedTable
<1>13. \A t \in Tasks : (Alive(t)' <=> Alive(t)) /\ (Runs(t)' <=> Runs(t))
  BY <1>3 DEF Alive, Runs
<1>14. Owned'
  <2>1. (\A t \in Tasks : Alive(t) /\ task[t].kind # "run" => task[t].id \in adrift)'
    BY <1>3, <1>13 DEF IInv, Owned
  <2>2. ASSUME NEW x \in Rows, row'[x].status \in InFlight
        PROVE \/ \E t \in Tasks : task'[t].id = x /\ Runs(t)'
              \/ \E c \in Batches : x \in Claims(c)'
              \/ x \in adrift'
    <3>1. CASE x = id
      BY <1>9, <3>1
    <3>2. CASE x # id
      <4>1. \A c \in Batches : x \in Claims(c) => x \in Claims(c)'
        BY <1>9
      <4> QED BY <1>3, <1>5, <1>13, <2>2, <3>2, <4>1 DEF IInv, Owned
    <3> QED BY <3>1, <3>2
  <2> QED BY <2>1, <2>2 DEF Owned
<1>15. ASSUME NEW x \in Rows, x \notin twin' \cup adrift' PROVE Alone(x)'
  <2>1. Alone(x)
    BY <1>3, <1>5, <1>15 DEF IInv
  <2>2. (\A t, u \in Tasks : Alive(t) /\ Alive(u) /\ task[t].id = x /\ task[u].id = x => t = u)'
    BY <1>3, <1>13, <2>1 DEF Alone
  <2>3. ASSUME NEW t \in Tasks, NEW c \in Batches, Alive(t)', task'[t].id = x PROVE x \notin Claims(c)'
    BY <1>3, <1>5, <1>9, <1>13, <1>15, <2>1, <2>3 DEF Alone
  <2>4. ASSUME NEW c \in Batches, NEW d \in Batches, x \in Claims(c)', x \in Claims(d)' PROVE c = d
    BY <1>5, <1>9, <1>15, <2>1, <2>4 DEF Alone
  <2>5. ASSUME (\E t \in Tasks : Runs(t)' /\ task'[t].id = x) \/ (\E c \in Batches : x \in Claims(c)')
        PROVE  row'[x].status \in InFlight \cup {"none"}
    <3>1. CASE x = id
      BY <1>5, <3>1 DEF InFlight
    <3>2. CASE x # id
      BY <1>3, <1>5, <1>9, <1>13, <2>1, <2>5, <3>2 DEF Alone
    <3> QED BY <3>1, <3>2
  <2>6. /\ (\A t \in Tasks, c \in Batches : Alive(t) /\ task[t].id = x => x \notin Claims(c))'
        /\ (\A c, d \in Batches : x \in Claims(c) /\ x \in Claims(d) => c = d)'
    BY <2>3, <2>4
  <2> QED BY <2>2, <2>5, <2>6, Zenon DEF Alone
<1> QED BY <1>10, <1>11, <1>12, <1>14, <1>15, Zenon DEF IInv

-----------------------------------------------------------------------------
(* What becomes of the requests.                                           *)

\* A record that replaces the one of b.
LEMMA ReplacedGoes ==
  ASSUME Shape, NEW b \in Batches, NEW n, BatchOK(n), batch' = [batch EXCEPT ![b] = n]
  PROVE  Goes(b, n.pc, n.picked)
<1>1. batch' = [c \in Batches |-> batch'[c]] /\ (\A c \in Batches \ {b} : batch'[c] = batch[c]) /\ batch'[b] = n
  BY DEF Shape
<1> QED BY <1>1 DEF Shape, Goes

\* A pause claims nothing.
LEMMA PauseGoes ==
  ASSUME Shape, NEW b \in Batches, NEW pc, batch' = Pause(b, pc) PROVE Goes(b, pc, {})
<1>1. PICK n : n = [Idle EXCEPT !.pc = pc, !.count = batch[b].count, !.first = FALSE,
                                      !.live = batch[b].live, !.tracked = batch[b].tracked]
  OBVIOUS
<1>2. BatchOK(n) /\ n.pc = pc /\ n.picked = {}
  BY NothingOK, <1>1 DEF Idle, BatchOK
<1>3. batch' = [batch EXCEPT ![b] = n]
  BY <1>1 DEF Pause
<1> QED BY <1>2, <1>3, ReplacedGoes

\* Nor does a request that is over.
LEMMA OverGoes ==
  ASSUME Shape, NEW b \in Batches, batch' = Over(b) PROVE Goes(b, "over", {})
<1>1. PICK n : n = [Idle EXCEPT !.pc = "over", !.count = batch[b].count]
  OBVIOUS
<1>2. BatchOK(n) /\ n.pc = "over" /\ n.picked = {}
  BY NothingOK, <1>1 DEF Idle, BatchOK
<1>3. batch' = [batch EXCEPT ![b] = n]
  BY <1>1 DEF Over
<1> QED BY <1>2, <1>3, ReplacedGoes

\* The loop that returns cancels whichever is registered, which keeps its claims.
LEMMA ReturnsGoes ==
  ASSUME Shape, NEW b \in Batches, LoopReturns(b) PROVE Goes(b, "over", {})
<1>1. PICK n : n = [Idle EXCEPT !.pc = "over", !.count = batch[b].count]
  OBVIOUS
<1>2. BatchOK(n) /\ n.pc = "over" /\ n.picked = {}
  BY NothingOK, <1>1 DEF Idle, BatchOK
<1>3. PICK bs : bs = [batch EXCEPT ![b] = n]
  OBVIOUS
<1>4. batch' = IF topUpCancel = 0 THEN bs ELSE [bs EXCEPT ![topUpCancel].live = FALSE]
  BY <1>1, <1>3 DEF LoopReturns, Over, Ended
<1>5. bs = [c \in Batches |-> bs[c]] /\ (\A c \in Batches \ {b} : bs[c] = batch[c]) /\ bs[b] = n
  BY <1>3 DEF Shape
<1>6. \A c \in Batches : BatchOK(bs[c])
  BY <1>2, <1>5 DEF Shape
<1>7. \A c \in Batches : DOMAIN batch'[c] = DOMAIN bs[c] /\ batch'[c].pc = bs[c].pc /\ batch'[c].picked = bs[c].picked
                          /\ batch'[c].held = bs[c].held
  BY <1>4, <1>5, <1>6 DEF BatchOK
<1>8. batch' = [c \in Batches |-> batch'[c]]
  BY <1>4, <1>5
<1> QED BY <1>2, <1>5, <1>6, <1>7, <1>8 DEF BatchOK, Goes

\* A new round of claims begins with none.
LEMMA AskingGoes ==
  ASSUME Shape, NEW b \in Batches, NEW n, NEW found,
         \/ batch' = Asking(b, n, found)
         \/ \E m : batch' = [Asking(b, n, found) EXCEPT ![b].count = m]
  PROVE  Goes(b, "accounts", {})
<1>1. BatchOK(batch[b])
  BY DEF Shape
<1>2. PICK k : k = [batch[b] EXCEPT !.pc = "accounts", !.want = n, !.todo = found, !.held = Nothing, !.picked = {}]
  OBVIOUS
<1>3. BatchOK(k) /\ k.pc = "accounts" /\ k.picked = {}
  BY <1>1, <1>2, NothingOK DEF BatchOK
<1>4. Asking(b, n, found) = [batch EXCEPT ![b] = k]
  BY <1>2 DEF Asking, Shape
<1>5. CASE batch' = Asking(b, n, found)
  <2>1. batch' = [batch EXCEPT ![b] = k]
    BY <1>4, <1>5
  <2> QED BY <1>3, <2>1, ReplacedGoes
<1>6. CASE \E m : batch' = [Asking(b, n, found) EXCEPT ![b].count = m]
  <2>1. PICK m : batch' = [Asking(b, n, found) EXCEPT ![b].count = m]
    BY <1>6
  <2>2. PICK l : l = [k EXCEPT !.count = m]
    OBVIOUS
  <2>3. BatchOK(l) /\ l.pc = "accounts" /\ l.picked = {}
    BY <1>3, <2>2 DEF BatchOK
  <2>4. batch' = [batch EXCEPT ![b] = l]
    BY <1>4, <2>1, <2>2 DEF Shape
  <2> QED BY <2>3, <2>4, ReplacedGoes
<1> QED BY <1>5, <1>6

\* What is not picked or the place in the loop does not matter.
LEMMA PlainGoes ==
  ASSUME Shape, NEW b \in Batches, NEW pc, NEW todo, NEW running,
         \/ batch' = [batch EXCEPT ![b].pc = pc]
         \/ batch' = [batch EXCEPT ![b].pc = pc, ![b].todo = todo]
         \/ batch' = [batch EXCEPT ![b].pc = pc, ![b].running = running]
         \/ (\E h : RowOK(h.old) /\ batch' = [batch EXCEPT ![b].todo = todo, ![b].held = h]) /\ pc = batch[b].pc
  PROVE  Goes(b, pc, batch[b].picked)
<1>1. BatchOK(batch[b])
  BY DEF Shape
<1>2. CASE batch' = [batch EXCEPT ![b].pc = pc]
  <2>1. PICK n : n = [batch[b] EXCEPT !.pc = pc]
    OBVIOUS
  <2>2. BatchOK(n) /\ n.pc = pc /\ n.picked = batch[b].picked
    BY <1>1, <2>1 DEF BatchOK
  <2>3. batch' = [batch EXCEPT ![b] = n]
    BY <1>2, <2>1
  <2> QED BY <2>2, <2>3, ReplacedGoes
<1>3. CASE batch' = [batch EXCEPT ![b].pc = pc, ![b].todo = todo]
  <2>1. PICK n : n = [batch[b] EXCEPT !.pc = pc, !.todo = todo]
    OBVIOUS
  <2>2. BatchOK(n) /\ n.pc = pc /\ n.picked = batch[b].picked
    BY <1>1, <2>1 DEF BatchOK
  <2>3. batch' = [batch EXCEPT ![b] = n]
    BY <1>3, <2>1 DEF Shape
  <2> QED BY <2>2, <2>3, ReplacedGoes
<1>4. CASE batch' = [batch EXCEPT ![b].pc = pc, ![b].running = running]
  <2>1. PICK n : n = [batch[b] EXCEPT !.pc = pc, !.running = running]
    OBVIOUS
  <2>2. BatchOK(n) /\ n.pc = pc /\ n.picked = batch[b].picked
    BY <1>1, <2>1 DEF BatchOK
  <2>3. batch' = [batch EXCEPT ![b] = n]
    BY <1>4, <2>1 DEF Shape
  <2> QED BY <2>2, <2>3, ReplacedGoes
<1>5. CASE (\E h : RowOK(h.old) /\ batch' = [batch EXCEPT ![b].todo = todo, ![b].held = h]) /\ pc = batch[b].pc
  <2>0. PICK h : RowOK(h.old) /\ batch' = [batch EXCEPT ![b].todo = todo, ![b].held = h]
    BY <1>5
  <2>1. PICK n : n = [batch[b] EXCEPT !.todo = todo, !.held = h]
    OBVIOUS
  <2>2. BatchOK(n) /\ n.pc = pc /\ n.picked = batch[b].picked
    BY <1>1, <1>5, <2>0, <2>1 DEF BatchOK
  <2>3. batch' = [batch EXCEPT ![b] = n]
    BY <2>0, <2>1 DEF Shape
  <2> QED BY <2>2, <2>3, ReplacedGoes
<1> QED BY <1>2, <1>3, <1>4, <1>5

\* A pause may remember what the run has started so far.
LEMMA TrackedGoes ==
  ASSUME Shape, NEW b \in Batches, NEW tracked, batch' = [NextRound(b) EXCEPT ![b].tracked = tracked]
  PROVE  \E pc \in {"top", "asleep"} : Goes(b, pc, {})
<1>1. PICK pc \in {"top", "asleep"} : NextRound(b) = Pause(b, pc)
  BY DEF NextRound
<1>2. PICK n : n = [Idle EXCEPT !.pc = pc, !.count = batch[b].count, !.first = FALSE,
                                      !.live = batch[b].live, !.tracked = batch[b].tracked]
  OBVIOUS
<1>3. BatchOK(n) /\ n.pc = pc /\ n.picked = {}
  BY NothingOK, <1>2 DEF Idle, BatchOK
<1>4. PICK l : l = [n EXCEPT !.tracked = tracked]
  OBVIOUS
<1>5. BatchOK(l) /\ l.pc = pc /\ l.picked = {}
  BY <1>3, <1>4 DEF BatchOK
<1>6. NextRound(b) = [batch EXCEPT ![b] = n]
  BY <1>1, <1>2 DEF Pause
<1>7. batch' = [batch EXCEPT ![b] = l]
  BY <1>4, <1>6 DEF Shape
<1>8. Goes(b, pc, {})
  <2>1. BatchOK(l) /\ b \in Batches
    BY <1>5
  <2>2. Goes(b, l.pc, l.picked)
    BY <1>7, <2>1, ReplacedGoes
  <2> QED BY <1>5, <2>2
<1> QED BY <1>1, <1>8

\* The other claims are what they were.
LEMMA GoesClaims ==
  ASSUME NEW b \in Batches, NEW pc, NEW picked, Goes(b, pc, picked)
  PROVE  /\ \A c \in Batches \ {b} : Claims(c)' = Claims(c)
         /\ Claims(b)' = IF pc \in Claiming THEN picked ELSE {}
BY DEF Goes, Claims

-----------------------------------------------------------------------------
(* The rest of the steps, one by one.                                      *)

\* Tasks nobody touches are kept.
LEMMA SameKept == ASSUME IInv, task' = task PROVE \A t \in Tasks : Kept(t)
BY DEF IInv, CodeOfThisWait, Kept

\* A request that claims nothing may go anywhere.
LEMMA RoundKeeps ==
  ASSUME IInv, NEW b \in Batches, NEW pc, NEW picked, Goes(b, pc, picked), pc \notin Claiming \/ picked = {}, Claims(b) = {},
         task' = task, row' = row, UNCHANGED <<active, born, platform, start, twin, adrift>>
  PROVE  IInv'
<1>1. \A c \in Batches : Claims(c)' = Claims(c)
  BY GoesClaims
<1>2. Shape'
  BY ShapeFrom DEF IInv, Shape, Goes
<1> QED BY <1>1, <1>2, SameKept, QuietKeeps

\* A request that goes on claiming keeps what it has.
LEMMA ClaimingKeeps ==
  ASSUME IInv, NEW b \in Batches, NEW pc \in Claiming, Goes(b, pc, batch[b].picked), batch[b].pc \in Claiming,
         task' = task, row' = row, UNCHANGED <<active, born, platform, start, twin, adrift>>
  PROVE  IInv'
<1>1. \A c \in Batches : Claims(c)' = Claims(c)
  BY DEF Goes, Claims
<1>2. Shape'
  BY ShapeFrom DEF IInv, Shape, Goes
<1> QED BY <1>1, <1>2, SameKept, QuietKeeps

\* Rows whose request failed are adrift.
LEMMA FailsKeeps == ASSUME IInv, NEW b \in Batches, ClaimFails(b) PROVE IInv'
<1>1. Goes(b, "over", {})
  BY OverGoes, ReturnsGoes DEF ClaimFails, IInv
<1>2. (\A c \in Batches \ {b} : Claims(c)' = Claims(c)) /\ Claims(b)' = {}
  BY <1>1, GoesClaims DEF Claiming
<1>3. UNCHANGED <<platform, row, born, task, active, start, twin>> /\ adrift' = adrift \cup batch[b].picked
  BY DEF ClaimFails
<1>4. Shape'
  BY <1>1, <1>3, ShapeFrom DEF IInv, Shape, Goes
<1>5. Slots' /\ CodeOfThisWait'
  BY <1>3, SameKept, SlotsAndCodes
<1>6. \A t \in Tasks : (Alive(t)' <=> Alive(t)) /\ (Runs(t)' <=> Runs(t))
  BY <1>3 DEF Alive, Runs
<1>7. Owned'
  <2>1. (\A t \in Tasks : Alive(t) /\ task[t].kind # "run" => task[t].id \in adrift)'
    BY <1>3, <1>6 DEF IInv, Owned
  <2>2. \A x \in Rows, c \in Batches : x \in Claims(c) => x \in Claims(c)' \/ x \in adrift'
    BY <1>2, <1>3 DEF Claims
  <2>3. (\A id \in Rows : row[id].status \in InFlight =>
          \/ \E t \in Tasks : task[t].id = id /\ Runs(t)
          \/ \E c \in Batches : id \in Claims(c)
          \/ id \in adrift)'
    BY <1>3, <1>6, <2>2 DEF IInv, Owned
  <2> QED BY <2>1, <2>3 DEF Owned
<1>8. Table'
  BY <1>3 DEF IInv, Table, Exists
<1>9. ASSUME NEW x \in Rows, x \notin twin' \cup adrift' PROVE Alone(x)'
  <2>1. Alone(x)
    BY <1>3, <1>9 DEF IInv
  <2>2. (\A t, u \in Tasks : Alive(t) /\ Alive(u) /\ task[t].id = x /\ task[u].id = x => t = u)'
    BY <1>3, <1>6, <2>1 DEF Alone
  <2>3. (\A t \in Tasks, c \in Batches : Alive(t) /\ task[t].id = x => x \notin Claims(c))'
    BY <1>2, <1>3, <1>6, <2>1 DEF Alone
  <2>4. (\A c, d \in Batches : x \in Claims(c) /\ x \in Claims(d) => c = d)'
    BY <1>2, <2>1 DEF Alone
  <2>5. ((\E t \in Tasks : Runs(t) /\ task[t].id = x) \/ (\E c \in Batches : x \in Claims(c))
          => row[x].status \in InFlight \cup {"none"})'
    <3>1. \A c \in Batches : x \in Claims(c)' => x \in Claims(c)
      BY <1>2
    <3> QED BY <1>3, <1>6, <2>1, <3>1 DEF Alone
  <2> QED BY <2>2, <2>3, <2>4, <2>5, Zenon DEF Alone
<1> QED BY <1>4, <1>5, <1>7, <1>8, <1>9, Zenon DEF IInv

\* Goroutines of a rescue run beside whoever has the row, and it is adrift.
LEMMA RescueKeeps == ASSUME IInv, NEW ids \in SUBSET Rows, RescueAll(ids) PROVE IInv'
<1>1. Spawned(ids, "rescue")
  BY SpawnSpawns DEF IInv, RescueAll
<1>2. UNCHANGED <<platform, row, born, active, batch, start>> /\ twin \subseteq twin' /\ adrift' = adrift \cup ids
  BY DEF RescueAll
<1>3. \A t \in Tasks : \/ task'[t] = task[t]
                       \/ task[t].pc = "free" /\ task'[t].pc = "spawned" /\ task'[t].id \in ids /\ task'[t].kind = "rescue"
  BY <1>1 DEF Spawned
<1>4. \A t \in Tasks : task'[t] = task[t] => Kept(t)
  BY DEF IInv, CodeOfThisWait, Kept
<1>5. Slots' /\ CodeOfThisWait'
  BY <1>2, <1>3, <1>4, SlotsAndCodes
<1>6. Shape'
  <2>1. \A t \in Tasks : TaskOK(task'[t])
    BY <1>1 DEF IInv, Shape, Spawned
  <2> QED BY <1>1, <1>2, <2>1, ShapeFrom DEF IInv, Shape, Spawned
<1>7. \A c \in Batches : Claims(c)' = Claims(c)
  BY <1>2 DEF Claims
<1>8. \A t \in Tasks : Alive(t) => task'[t] = task[t]
  BY <1>3 DEF Alive
<1>9. Owned'
  <2>1. (\A t \in Tasks : Alive(t) /\ task[t].kind # "run" => task[t].id \in adrift)'
    BY <1>2, <1>3 DEF IInv, Owned, Alive
  <2>2. \A t \in Tasks : Runs(t) => Runs(t)' /\ task'[t].id = task[t].id
    BY <1>8 DEF Runs, Alive, Working
  <2>3. (\A id \in Rows : row[id].status \in InFlight =>
          \/ \E t \in Tasks : task[t].id = id /\ Runs(t)
          \/ \E c \in Batches : id \in Claims(c)
          \/ id \in adrift)'
    BY <1>2, <1>7, <2>2 DEF IInv, Owned
  <2> QED BY <2>1, <2>3 DEF Owned
<1>10. Table'
  BY <1>2 DEF IInv, Table, Exists
<1>11. ASSUME NEW x \in Rows, x \notin twin' \cup adrift' PROVE Alone(x)'
  <2>1. Alone(x) /\ x \notin ids
    BY <1>2, <1>11 DEF IInv
  <2>2. \A t \in Tasks : Alive(t)' /\ task'[t].id = x => Alive(t) /\ task[t].id = x
    BY <1>3, <2>1 DEF Alive
  <2>3. \A t \in Tasks : Runs(t)' /\ task'[t].id = x => Runs(t) /\ task[t].id = x
    BY <1>3, <2>1 DEF Runs
  <2>4. (\A t, u \in Tasks : Alive(t) /\ Alive(u) /\ task[t].id = x /\ task[u].id = x => t = u)'
    BY <2>1, <2>2 DEF Alone
  <2>5. (\A t \in Tasks, c \in Batches : Alive(t) /\ task[t].id = x => x \notin Claims(c))'
    BY <1>7, <2>1, <2>2 DEF Alone
  <2>6. (\A c, d \in Batches : x \in Claims(c) /\ x \in Claims(d) => c = d)'
    BY <1>7, <2>1 DEF Alone
  <2>7. ((\E t \in Tasks : Runs(t) /\ task[t].id = x) \/ (\E c \in Batches : x \in Claims(c))
          => row[x].status \in InFlight \cup {"none"})'
    BY <1>2, <1>7, <2>1, <2>3 DEF Alone
  <2> QED BY <2>4, <2>5, <2>6, <2>7, Zenon DEF Alone
<1> QED BY <1>5, <1>6, <1>9, <1>10, <1>11, Zenon DEF IInv

\* A stop reaches the tasks that run, and changes nothing else of them.
LEMMA CancelledKept ==
  ASSUME IInv, NEW ids, task' = Cancelled(ids)
  PROVE  /\ task' = [t \in Tasks |-> task'[t]] /\ \A t \in Tasks : TaskOK(task'[t])
         /\ \A t \in Tasks : Kept(t)
<1>1. task' = [t \in Tasks |-> task'[t]]
  BY DEF Cancelled
<1>2. ASSUME NEW t \in Tasks PROVE TaskOK(task'[t]) /\ Kept(t)
  <2>1. TaskOK(task[t])
    BY DEF IInv, Shape
  <2>2. task'[t] = task[t] \/ task'[t] = [task[t] EXCEPT !.live = FALSE]
    BY DEF Cancelled
  <2>3. /\ DOMAIN task'[t] = DOMAIN task[t] /\ task'[t].pc = task[t].pc /\ task'[t].id = task[t].id
        /\ task'[t].kind = task[t].kind /\ task'[t].code = task[t].code /\ task'[t].waits = task[t].waits
    BY <2>1, <2>2 DEF TaskOK
  <2> QED BY <2>1, <2>3 DEF TaskOK, Kept, IInv, CodeOfThisWait
<1> QED BY <1>1, <1>2

\* The rows that are deleted have no history; their goroutines go on.
LEMMA DeleteKeeps == ASSUME IInv, NEW ids, NEW stopped, Delete(ids, stopped) PROVE IInv'
<1>1. /\ task' = [t \in Tasks |-> task'[t]] /\ \A t \in Tasks : TaskOK(task'[t])
      /\ \A t \in Tasks : Kept(t)
  BY CancelledKept DEF Delete
<1>2. UNCHANGED <<platform, born, active, batch, start, twin, adrift>> /\ row' = [x \in Rows |-> IF x \in ids THEN Absent ELSE row[x]]
  BY DEF Delete
<1>3. PICK none : none = Absent
  OBVIOUS
<1>4. RowOK(none) /\ none.status = "none" /\ none.arp = FALSE
  BY <1>3 DEF Absent, RowOK
<1>5. row' = [x \in Rows |-> row'[x]] /\ \A x \in Rows : row'[x] = none \/ row'[x] = row[x]
  BY <1>2, <1>3
<1>6. Shape'
  <2>1. \A x \in Rows : RowOK(row'[x])
    BY <1>4, <1>5 DEF IInv, Shape
  <2> QED BY <1>1, <1>2, <1>5, <2>1, ShapeFrom DEF IInv, Shape
<1>7. Slots' /\ CodeOfThisWait'
  BY <1>1, <1>2, SlotsAndCodes
<1>8. \A c \in Batches : Claims(c)' = Claims(c)
  BY <1>2 DEF Claims
<1>9. \A t \in Tasks : (Alive(t)' <=> Alive(t)) /\ (Runs(t)' <=> Runs(t)) /\ task'[t].id = task[t].id /\ task'[t].kind = task[t].kind
  BY <1>1 DEF Kept, Alive, Runs
<1>10. \A x \in Rows : row'[x].status = "none" \/ row'[x] = row[x]
  BY <1>4, <1>5
<1>11. Owned'
  <2>1. (\A t \in Tasks : Alive(t) /\ task[t].kind # "run" => task[t].id \in adrift)'
    BY <1>2, <1>9 DEF IInv, Owned
  <2>2. \A x \in Rows : row'[x].status \in InFlight => row[x].status \in InFlight
    BY <1>10 DEF InFlight
  <2>3. (\A id \in Rows : row[id].status \in InFlight =>
          \/ \E t \in Tasks : task[t].id = id /\ Runs(t)
          \/ \E c \in Batches : id \in Claims(c)
          \/ id \in adrift)'
    BY <1>2, <1>8, <1>9, <2>2 DEF IInv, Owned
  <2> QED BY <2>1, <2>3 DEF Owned
<1>12. Table'
  <2>1. \A x \in Rows : Exists(x)' => x <= born'
    BY <1>2, <1>10 DEF IInv, Table, Exists
  <2>2. \A x \in Rows : row'[x].arp => Exists(x)'
    BY <1>2, <1>4, <1>5 DEF IInv, Table, Exists
  <2> QED BY <1>2, <2>1, <2>2 DEF IInv, Table
<1>13. ASSUME NEW x \in Rows, x \notin twin' \cup adrift' PROVE Alone(x)'
  <2>1. Alone(x)
    BY <1>2, <1>13 DEF IInv
  <2>2. (\A t, u \in Tasks : Alive(t) /\ Alive(u) /\ task[t].id = x /\ task[u].id = x => t = u)'
    BY <1>9, <2>1 DEF Alone
  <2>3. (\A t \in Tasks, c \in Batches : Alive(t) /\ task[t].id = x => x \notin Claims(c))'
    BY <1>8, <1>9, <2>1 DEF Alone
  <2>4. (\A c, d \in Batches : x \in Claims(c) /\ x \in Claims(d) => c = d)'
    BY <1>8, <2>1 DEF Alone
  <2>5. ((\E t \in Tasks : Runs(t) /\ task[t].id = x) \/ (\E c \in Batches : x \in Claims(c))
          => row[x].status \in InFlight \cup {"none"})'
    BY <1>8, <1>9, <1>10, <2>1 DEF Alone
  <2> QED BY <2>2, <2>3, <2>4, <2>5, Zenon DEF Alone
<1> QED BY <1>6, <1>7, <1>11, <1>12, <1>13, Zenon DEF IInv

\* After a restart nobody has a row, and none is in flight.
LEMMA RestartKeeps == ASSUME IInv, Restart PROVE IInv'
<1>1. PICK none : none = Unborn
  OBVIOUS
<1>2. TaskOK(none) /\ none.pc = "free"
  BY <1>1 DEF Unborn, TaskOK
<1>3. task' = [t \in Tasks |-> task'[t]] /\ \A t \in Tasks : task'[t] = none
  BY <1>1 DEF Restart
<1>4. PICK over : over = [Idle EXCEPT !.pc = "over"]
  OBVIOUS
<1>5. BatchOK(over) /\ over.picked = {} /\ BatchOK(Idle) /\ Idle.picked = {}
  BY NothingOK, <1>4 DEF Idle, BatchOK
<1>6. batch' = [b \in Batches |-> batch'[b]] /\ \A b \in Batches : BatchOK(batch'[b]) /\ batch'[b].picked = {}
  BY <1>4, <1>5 DEF Restart
<1>7. ASSUME NEW x \in Rows
      PROVE  RowOK(row'[x]) /\ row'[x].status \notin InFlight /\ row'[x].arp = row[x].arp /\ (Exists(x)' <=> Exists(x))
  <2>1. RowOK(row[x])
    BY DEF IInv, Shape
  <2>2. row'[x] = IF row[x].status \in InFlight THEN [row[x] EXCEPT !.status = "register_failed"] ELSE row[x]
    BY DEF Restart
  <2>3. CASE row[x].status \in InFlight
    <3>1. PICK r : r = [row[x] EXCEPT !.status = "register_failed"]
      OBVIOUS
    <3>2. RowOK(r) /\ r.status = "register_failed" /\ r.arp = row[x].arp
      BY <2>1, <3>1 DEF RowOK
    <3> QED BY <2>2, <2>3, <3>1, <3>2 DEF InFlight, Exists
  <2>4. CASE row[x].status \notin InFlight
    BY <2>1, <2>2, <2>4 DEF Exists
  <2> QED BY <2>3, <2>4
<1>8. Shape'
  <2>1. row' = [x \in Rows |-> row'[x]] /\ start' = Nothing
    BY DEF Restart
  <2>2. RowOK(start'.old)
    BY <2>1, NothingOK
  <2> QED BY <1>2, <1>3, <1>6, <1>7, <2>1, <2>2, ShapeFrom
<1>9. \A t \in Tasks : ~Alive(t)' /\ ~Runs(t)'
  BY <1>2, <1>3 DEF Alive, Runs, Working
<1>10. \A b \in Batches : Claims(b)' = {}
  BY <1>6 DEF Claims
<1>11. Slots' /\ CodeOfThisWait'
  <2>1. Holders' = {}
    BY <1>2, <1>3 DEF Holders, HoldsSlot
  <2>2. Cardinality(Holders') = 0
    BY <2>1, FS_EmptySet
  <2>3. active' = 0
    BY DEF Restart
  <2>4. Slots'
    BY <2>2, <2>3, AccountAssumption DEF Slots
  <2>5. CodeOfThisWait'
    BY <1>2, <1>3 DEF CodeOfThisWait
  <2> QED BY <2>4, <2>5
<1>12. Owned'
  BY <1>7, <1>9 DEF Owned
<1>13. Table'
  BY <1>7 DEF Restart, IInv, Table
<1>14. \A x \in Rows : Alone(x)'
  BY <1>9, <1>10 DEF Alone
<1> QED BY <1>8, <1>11, <1>12, <1>13, <1>14, Zenon DEF IInv

-----------------------------------------------------------------------------
\* Asking for accounts, and the first claims.
LEMMA RequestKeeps ==
  ASSUME IInv, NEW b \in Batches, NEW n, NEW found, Produce(b, n, found) PROVE IInv'
<1>1. PICK m : m = Min2(n, Limit)
  OBVIOUS
<1>2. batch' = [Asking(b, m, found) EXCEPT ![b].count = n]
  BY <1>1 DEF Produce
<1>3. Goes(b, "accounts", {})
  BY <1>2, AskingGoes DEF IInv
<1>4. Claims(b) = {} /\ task' = task /\ row' = row /\ UNCHANGED <<active, born, platform, start, twin, adrift>>
  BY DEF Produce, Claims, Claiming
<1> QED BY <1>3, <1>4, RoundKeeps

\* An address whose row is read, or that is passed over, leaves the list.
LEMMA ReadKeeps ==
  ASSUME IInv, NEW b \in Batches, NEW skipped, ClaimRead(b, skipped)
  PROVE  IInv'
<1>1. PICK e : e = LeastOf(batch[b].todo)
  OBVIOUS
<1>2. PICK todo : todo = batch[b].todo \ {e}
  OBVIOUS
<1>3. PICK h : h = IF e \in skipped THEN Nothing ELSE Found(e)
  OBVIOUS
<1>4. RowOK(h.old)
  <2>1. Shape
    BY DEF IInv
  <2> QED BY <1>3, <2>1, NothingOK, FoundOK
<1>5. /\ batch' = [batch EXCEPT ![b].todo = todo, ![b].held = h] /\ batch[b].pc \in Claiming
      /\ task' = task /\ row' = row /\ UNCHANGED <<active, born, platform, start, twin, adrift>>
  <2>1. batch' = [batch EXCEPT ![b].todo = todo, ![b].held = h]
    BY <1>1, <1>2, <1>3 DEF ClaimRead
  <2> QED BY <2>1 DEF ClaimRead, Claiming, history
<1>6. PICK pc : pc = batch[b].pc
  OBVIOUS
<1>7. Goes(b, pc, batch[b].picked)
  BY <1>4, <1>5, <1>6, PlainGoes DEF IInv
<1> QED BY <1>5, <1>6, <1>7, ClaimingKeeps

\* The pool comes after the accounts.
LEMMA PoolKeeps == ASSUME IInv, NEW b \in Batches, NEW found, ClaimPool(b, found) PROVE IInv'
<1>1. /\ batch' = [batch EXCEPT ![b].pc = "pool", ![b].todo = found] /\ batch[b].pc \in Claiming
      /\ task' = task /\ row' = row /\ UNCHANGED <<active, born, platform, start, twin, adrift>>
  BY DEF ClaimPool, Claiming, history
<1>2. PICK pc : pc = "pool"
  OBVIOUS
<1>3. Goes(b, pc, batch[b].picked)
  BY <1>1, <1>2, PlainGoes DEF IInv
<1> QED BY <1>1, <1>2, <1>3, ClaimingKeeps DEF Claiming

\* The claims of a request become goroutines when they are over.
LEMMA BeginRunKeeps == ASSUME IInv, NEW b \in Batches, BeginRun(b) PROVE IInv'
<1>1. Claims(b) = batch[b].picked /\ batch[b].picked \subseteq Rows
  BY DEF BeginRun, ClaimsOver, Claims, Claiming, IInv, Shape, BatchOK
<1>2. UNCHANGED <<platform, row, born, active, start, twin, adrift>>
  BY DEF BeginRun, history
<1>3. CASE batch[b].picked = {}
  <2>1. Goes(b, "over", {}) /\ task' = task
    BY <1>3, OverGoes DEF BeginRun, IInv
  <2> QED BY <1>1, <1>2, <1>3, <2>1, RoundKeeps
<1>4. CASE batch[b].picked # {}
  <2>1. Goes(b, "enter", {})
    BY <1>4, PauseGoes DEF BeginRun, IInv
  <2>2. PICK ids : ids = Claims(b)
    OBVIOUS
  <2>3. Spawned(ids, "run")
    BY <1>1, <1>4, <2>2, SpawnSpawns DEF BeginRun, IInv
  <2>4. (\A c \in Batches \ {b} : Claims(c)' = Claims(c)) /\ Claims(b)' = {}
    BY <2>1, GoesClaims DEF Claiming
  <2>5. Shape'
    <3>1. \A t \in Tasks : TaskOK(task'[t])
      BY <2>3 DEF IInv, Shape, Spawned
    <3> QED BY <1>2, <2>1, <2>3, <3>1, ShapeFrom DEF IInv, Shape, Spawned, Goes
  <2> QED BY <1>2, <2>2, <2>3, <2>4, <2>5, HandedKeeps
<1> QED BY <1>3, <1>4

\* So do those of a later round.
LEMMA TrackRunKeeps == ASSUME IInv, NEW b \in Batches, TrackRun(b) PROVE IInv'
<1>1. Claims(b) = batch[b].picked /\ batch[b].picked \subseteq Rows
  BY DEF TrackRun, ClaimsOver, Claims, Claiming, IInv, Shape, BatchOK
<1>2. UNCHANGED <<platform, row, born, active, start, twin, adrift>>
  BY DEF TrackRun, history
<1>3. PICK tracked : tracked = runTracked \cup batch[b].picked
  OBVIOUS
<1>4. batch' = [NextRound(b) EXCEPT ![b].tracked = tracked]
  BY <1>3 DEF TrackRun
<1>5. PICK pc \in {"top", "asleep"} : Goes(b, pc, {})
  BY <1>4, TrackedGoes DEF IInv
<1>6. PICK ids : ids = Claims(b)
  OBVIOUS
<1>7. Spawned(ids, "run")
  BY <1>1, <1>6, SpawnSpawns DEF TrackRun, IInv
<1>8. (\A c \in Batches \ {b} : Claims(c)' = Claims(c)) /\ Claims(b)' = {}
  BY <1>5, GoesClaims DEF Claiming
<1>9. Shape'
  <2>1. \A t \in Tasks : TaskOK(task'[t])
    BY <1>7 DEF IInv, Shape, Spawned
  <2> QED BY <1>2, <1>5, <1>7, <2>1, ShapeFrom DEF IInv, Shape, Spawned, Goes
<1> QED BY <1>2, <1>6, <1>7, <1>8, <1>9, HandedKeeps

\* The next round, the end of the loop or the next place in it.
LEMMA LoopGoes ==
  ASSUME IInv, NEW b \in Batches, NEW running,
         \/ LoopReturns(b)
         \/ batch' = Over(b)
         \/ batch' = NextRound(b)
         \/ batch' = Pause(b, "cooling")
         \/ batch' = [batch EXCEPT ![b].pc = "asleep"]
         \/ batch' = [batch EXCEPT ![b].pc = "counting", ![b].running = running]
         \/ \E n, found : batch' = Asking(b, n, found)
         \/ \E tracked : batch' = [NextRound(b) EXCEPT ![b].tracked = tracked]
  PROVE  \E pc, picked : Goes(b, pc, picked) /\ (pc \notin Claiming \/ picked = {})
<1>0. Shape
  BY DEF IInv
<1>1. CASE LoopReturns(b)
  BY <1>0, <1>1, ReturnsGoes
<1>2. CASE batch' = Over(b)
  BY <1>0, <1>2, OverGoes
<1>3. CASE batch' = NextRound(b)
  <2>1. PICK pc : pc = IF platform = "grok" THEN "top" ELSE "asleep"
    OBVIOUS
  <2>2. batch' = Pause(b, pc)
    BY <1>3, <2>1 DEF NextRound
  <2> QED BY <1>0, <2>2, PauseGoes
<1>4. CASE batch' = Pause(b, "cooling")
  BY <1>0, <1>4, PauseGoes
<1>5. CASE batch' = [batch EXCEPT ![b].pc = "asleep"]
  <2>1. PICK pc : pc = "asleep"
    OBVIOUS
  <2>2. Goes(b, pc, batch[b].picked)
    BY <1>0, <1>5, <2>1, PlainGoes
  <2> QED BY <2>1, <2>2 DEF Claiming
<1>6. CASE batch' = [batch EXCEPT ![b].pc = "counting", ![b].running = running]
  <2>1. PICK pc : pc = "counting"
    OBVIOUS
  <2>2. Goes(b, pc, batch[b].picked)
    BY <1>0, <1>6, <2>1, PlainGoes
  <2> QED BY <2>1, <2>2 DEF Claiming
<1>7. CASE \E n, found : batch' = Asking(b, n, found)
  BY <1>0, <1>7, AskingGoes
<1>8. CASE \E tracked : batch' = [NextRound(b) EXCEPT ![b].tracked = tracked]
  BY <1>0, <1>8, TrackedGoes
<1> QED BY <1>1, <1>2, <1>3, <1>4, <1>5, <1>6, <1>7, <1>8

\* What the WHERE clauses leave: addresses of the platform's that no other row
\* keeps, in grok of mailboxes that rest.  Only grok passes over what it found.
Offers == IF platform = "grok" THEN Accounts \cup Pool ELSE Mothers \cup Pool
Offered(found) == \A e \in found : e \in Offers \ Blocked /\ (platform = "grok" => BoxOf[e] \notin BusyBoxes)
Passes(b, skipped) == platform = "grok" => skipped = {e \in Emails : GrokSkips(b, e)}

\* A step of a loop that has nothing claimed.
LoopStep(b) ==
    \/ BeginTopUp(b) \/ LoopTop(b) \/ Wake(b) \/ CoolingOver(b)
    \/ (\E found : Offered(found) /\ Decide(b, found)) \/ (\E cooling \in BOOLEAN : NothingClaimed(b, cooling))

\* It keeps the invariant.
LEMMA LoopKeeps == ASSUME IInv, NEW b \in Batches, LoopStep(b) PROVE IInv'
<1>1. Claims(b) = {}
  BY DEF LoopStep, BeginTopUp, LoopTop, Wake, CoolingOver, Decide, NothingClaimed, Claims, Claiming
<1>2. task' = task /\ row' = row /\ UNCHANGED <<active, born, platform, start, twin, adrift>>
  BY DEF LoopStep, BeginTopUp, LoopTop, Wake, CoolingOver, Decide, NothingClaimed, LoopOnly, history
<1>3. PICK running : running = RunningNum
  OBVIOUS
<1>4. \/ LoopReturns(b)
      \/ batch' = Over(b)
      \/ batch' = NextRound(b)
      \/ batch' = Pause(b, "cooling")
      \/ batch' = [batch EXCEPT ![b].pc = "asleep"]
      \/ batch' = [batch EXCEPT ![b].pc = "counting", ![b].running = running]
      \/ \E n, found : batch' = Asking(b, n, found)
      \/ \E tracked : batch' = [NextRound(b) EXCEPT ![b].tracked = tracked]
  <2>1. CASE BeginTopUp(b)
    BY <2>1 DEF BeginTopUp
  <2>2. CASE LoopTop(b)
    BY <2>2 DEF LoopTop
  <2>3. CASE Wake(b)
    BY <1>3, <2>3 DEF Wake
  <2>4. CASE CoolingOver(b)
    BY <2>4 DEF CoolingOver
  <2>5. CASE \E found : Offered(found) /\ Decide(b, found)
    BY <2>5 DEF Decide
  <2>6. CASE \E cooling \in BOOLEAN : NothingClaimed(b, cooling)
    BY <2>6 DEF NothingClaimed
  <2> QED BY <2>1, <2>2, <2>3, <2>4, <2>5, <2>6 DEF LoopStep
<1>5. PICK pc, picked : Goes(b, pc, picked) /\ (pc \notin Claiming \/ picked = {})
  BY <1>4, LoopGoes
<1> QED BY <1>1, <1>2, <1>5, RoundKeeps

\* The code that is typed in is of the wait that is open.
LEMMA SubmitKeeps == ASSUME IInv, NEW id \in Rows, SubmitCode(id) PROVE IInv'
<1>1. PICK t : t = waiter[id]
  OBVIOUS
<1>2. task' = [task EXCEPT ![t].code = task[t].waits] /\ UNCHANGED <<platform, row, born, active, batch, start, twin, adrift>>
  BY <1>1 DEF SubmitCode, history
<1>3. task' = [u \in Tasks |-> task'[u]] /\ \A u \in Tasks \ {t} : task'[u] = task[u]
  BY <1>2 DEF IInv, Shape
<1>4. ASSUME t \in Tasks PROVE TaskOK(task'[t]) /\ Kept(t)
  <2>1. TaskOK(task[t]) /\ task'[t] = [task[t] EXCEPT !.code = task[t].waits]
    BY <1>2, <1>4 DEF IInv, Shape
  <2>2. PICK k : k = [task[t] EXCEPT !.code = task[t].waits]
    OBVIOUS
  <2>3. /\ DOMAIN k = DOMAIN task[t] /\ k.pc = task[t].pc /\ k.id = task[t].id /\ k.kind = task[t].kind
        /\ k.code = task[t].waits /\ k.waits = task[t].waits
    BY <2>1, <2>2 DEF TaskOK
  <2> QED BY <2>1, <2>2, <2>3 DEF TaskOK, Kept
<1>5. ASSUME NEW u \in Tasks PROVE TaskOK(task'[u]) /\ Kept(u)
  <2>1. CASE u = t
    BY <1>4, <2>1
  <2>2. CASE u # t
    BY <1>3, <2>2 DEF IInv, Shape, CodeOfThisWait, Kept
  <2> QED BY <2>1, <2>2
<1>6. Shape'
  BY <1>2, <1>3, <1>5, ShapeFrom DEF IInv, Shape
<1>7. \A b \in Batches : Claims(b)' = Claims(b)
  BY <1>2 DEF Claims
<1> QED BY <1>2, <1>5, <1>6, <1>7, QuietKeeps

\* A stop leaves the rows to their tasks and the claims to their requests.
LEMMA StopKeeps == ASSUME IInv, StopAll \/ \E id \in Rows : Stop(id) PROVE IInv'
<1>1. PICK ids : task' = Cancelled(ids)
  BY DEF Stop, StopAll
<1>2. UNCHANGED <<platform, row, born, active, start, twin, adrift>>
  BY DEF Stop, StopAll
<1>3. /\ batch' = [b \in Batches |-> batch'[b]]
      /\ \A b \in Batches : BatchOK(batch'[b]) /\ batch'[b].pc = batch[b].pc /\ batch'[b].picked = batch[b].picked
                       /\ batch'[b].held = batch[b].held
  <2>1. CASE batch' = batch
    BY <2>1 DEF IInv, Shape
  <2>2. CASE batch' = Ended(batch)
    <3>1. \A b \in Batches : /\ DOMAIN batch'[b] = DOMAIN batch[b] /\ batch'[b].pc = batch[b].pc
                             /\ batch'[b].picked = batch[b].picked /\ batch'[b].held = batch[b].held
      BY <2>2 DEF IInv, Shape, BatchOK, Ended
    <3>2. batch' = [b \in Batches |-> batch'[b]]
      BY <2>2 DEF IInv, Shape, Ended
    <3> QED BY <3>1, <3>2 DEF IInv, Shape, BatchOK
  <2> QED BY <2>1, <2>2 DEF Stop, StopAll
<1>4. /\ task' = [t \in Tasks |-> task'[t]] /\ \A t \in Tasks : TaskOK(task'[t])
      /\ \A t \in Tasks : Kept(t)
  BY <1>1, CancelledKept
<1>5. Shape'
  BY <1>2, <1>3, <1>4, ShapeFrom DEF IInv, Shape
<1>6. \A b \in Batches : Claims(b)' = Claims(b)
  BY <1>3 DEF Claims
<1> QED BY <1>2, <1>4, <1>5, <1>6, QuietKeeps

\* Steps that change nothing the invariant speaks of.
LEMMA IdleKeeps ==
  ASSUME IInv, RowOK(start'.old), task' = task, batch' = batch, row' = row,
         UNCHANGED <<active, born, platform, twin, adrift>>
  PROVE  IInv'
<1>1. \A b \in Batches : Claims(b)' = Claims(b)
  BY DEF Claims
<1>2. Shape'
  BY ShapeFrom DEF IInv, Shape
<1> QED BY <1>1, <1>2, SameKept, QuietKeeps

-----------------------------------------------------------------------------
(* The packages.                                                           *)

\* What every package's requests, loops and panel may do; Adobe keeps sessions.
Keeping(keeps) == keeps \in BOOLEAN /\ (platform = "adobe" => keeps = TRUE)
PanelStep ==
    \/ (\E e \in Emails : StartRead(e)) \/ StartFails \/ \E keeps : Keeping(keeps) /\ StartSave(keeps)
    \/ SubmitOrStop \/ DeleteRows
    \/ \E ids \in SUBSET Rows : RescueAll(ids)
BatchStep == \E b \in Batches :
    \/ \E n \in 1..MaxCount : \E found : Offered(found) /\ Produce(b, n, found)
    \/ ClaimFails(b) \/ (\E found : Offered(found) /\ ClaimPool(b, found))
    \/ \E skipped, keeps : Keeping(keeps) /\ Passes(b, skipped) /\ ClaimNext(b, skipped, keeps)
    \/ BeginRun(b) \/ TrackRun(b) \/ LoopStep(b)

\* The panel keeps the invariant.
LEMMA PanelKeeps == ASSUME IInv, PanelStep PROVE IInv'
<1>1. CASE (\E e \in Emails : StartRead(e)) \/ StartFails
  <2>1. task' = task /\ batch' = batch /\ row' = row /\ UNCHANGED <<active, born, platform, twin, adrift>>
    BY <1>1 DEF StartRead, StartFails, history
  <2>2. Shape
    BY DEF IInv
  <2>3. start' = Nothing \/ \E e \in Emails : start' = Found(e)
    BY <1>1 DEF StartRead, StartFails
  <2>4. RowOK(start'.old)
    BY <2>2, <2>3, NothingOK, FoundOK
  <2> QED BY <2>1, <2>4, IdleKeeps
<1>2. CASE \E keeps : Keeping(keeps) /\ StartSave(keeps)
  BY <1>2, StartKeeps DEF Keeping
<1>3. CASE SubmitOrStop
  BY <1>3, SubmitKeeps, StopKeeps DEF SubmitOrStop
<1>4. CASE DeleteRows
  BY <1>4, DeleteKeeps DEF DeleteRows, DeleteAll
<1>5. CASE \E ids \in SUBSET Rows : RescueAll(ids)
  BY <1>5, RescueKeeps
<1> QED BY <1>1, <1>2, <1>3, <1>4, <1>5 DEF PanelStep

\* The batches keep it.
LEMMA BatchKeeps == ASSUME IInv, BatchStep PROVE IInv'
<1>1. PICK b \in Batches :
        \/ \E n \in 1..MaxCount : \E found : Offered(found) /\ Produce(b, n, found)
        \/ ClaimFails(b) \/ (\E found : Offered(found) /\ ClaimPool(b, found))
        \/ \E skipped, keeps : Keeping(keeps) /\ Passes(b, skipped) /\ ClaimNext(b, skipped, keeps)
        \/ BeginRun(b) \/ TrackRun(b) \/ LoopStep(b)
  BY DEF BatchStep
<1>2. CASE \E n \in 1..MaxCount : \E found : Offered(found) /\ Produce(b, n, found)
  BY <1>2, RequestKeeps
<1>3. CASE \E skipped, keeps : Keeping(keeps) /\ Passes(b, skipped) /\ ClaimNext(b, skipped, keeps)
  <2>1. PICK skipped, keeps : Keeping(keeps) /\ Passes(b, skipped) /\ ClaimNext(b, skipped, keeps)
    BY <1>3
  <2> QED BY <2>1, ClaimKeeps, ReadKeeps DEF Keeping, ClaimNext
<1>4. CASE ClaimFails(b) \/ \E found : Offered(found) /\ ClaimPool(b, found)
  BY <1>4, FailsKeeps, PoolKeeps
<1>5. CASE BeginRun(b) \/ TrackRun(b) \/ LoopStep(b)
  BY <1>5, BeginRunKeeps, TrackRunKeeps, LoopKeeps
<1> QED BY <1>1, <1>2, <1>3, <1>4, <1>5

\* What each package finds.
LEMMA FindsOffers ==
  /\ platform = "grok" => Offered(GrokAccounts) /\ Offered(GrokPool)
  /\ platform = "adobe" => \A n : Offered(AdobeAccounts(n)) /\ Offered(AdobePool(n))
  /\ platform = "leonardo" => \A n : Offered(LeonardoAccounts(n)) /\ Offered(LeonardoPool(n))
  /\ platform = "lovart" => \A n : Offered(LovartAccounts(n)) /\ Offered(LovartPool(n))
BY AccountAssumption DEF Offered, Offers, GrokAccounts, GrokPool, FirstOf, AdobeAccounts, AdobePool, LeonardoAccounts, LeonardoPool,
   LovartAccounts, LovartPool

\* Every step is one of these.
LEMMA StepsAreThese ==
  ASSUME [Next]_vars PROVE TaskStep \/ PanelStep \/ BatchStep \/ Restart \/ Time \/ UNCHANGED vars
<1>1. CASE platform = "grok" /\ GrokNext
  <2>1. CASE \E b \in Batches : GrokStartFromAccounts(b) \/ GrokClaimTargets(b) \/ GrokProgress(b) \/ GrokTopUp(b)
    <3>1. PICK b \in Batches : GrokStartFromAccounts(b) \/ GrokClaimTargets(b) \/ GrokProgress(b) \/ GrokTopUp(b)
      BY <2>1
    <3>2. CASE GrokTopUp(b)
      <4>1. \/ LoopTop(b) \/ Wake(b) \/ CoolingOver(b) \/ (\E found : Offered(found) /\ Decide(b, found))
            \/ (\E cooling \in BOOLEAN : NothingClaimed(b, cooling))
        <5>1. (CoolingFailure \/ JustRun) \in BOOLEAN
          BY DEF CoolingFailure, JustRun
        <5>2. Offered(GrokAccounts)
          BY <1>1, FindsOffers
        <5> QED BY <3>2, <5>1, <5>2, Zenon DEF GrokTopUp
      <4> QED BY <4>1 DEF BatchStep, LoopStep
    <3>3. CASE GrokStartFromAccounts(b)
      <4>1. PICK n \in 1..MaxCount : Produce(b, n, GrokAccounts)
        BY <3>3 DEF GrokStartFromAccounts
      <4>2. \E found : Offered(found) /\ Produce(b, n, found)
        BY <1>1, <4>1, FindsOffers
      <4> QED BY <4>2 DEF BatchStep
    <3>4. CASE GrokClaimTargets(b)
      <4>1. Offered(GrokPool) /\ Keeping(FALSE) /\ Passes(b, {e \in Emails : GrokSkips(b, e)})
        BY <1>1, FindsOffers DEF Keeping, Passes
      <4> QED BY <3>4, <4>1 DEF GrokClaimTargets, BatchStep
    <3>5. CASE GrokProgress(b)
      BY <3>5 DEF GrokProgress, BatchStep, LoopStep
    <3> QED BY <3>1, <3>2, <3>3, <3>4, <3>5
  <2>2. CASE \E t \in Tasks : GrokRun(t)
    BY <1>1, <2>2 DEF TaskStep
  <2> QED BY <1>1, <2>1, <2>2 DEF GrokNext, GrokStart, GrokSubmitOrStop, GrokDeletes, PanelStep, Keeping
<1>2. CASE platform = "adobe" /\ AdobeNext
  <2>1. CASE \E b \in Batches : AdobeStartFromAccounts(b) \/ AdobeClaimTargets(b) \/ AdobeProgress(b) \/ AdobeTopUp(b)
    <3>1. PICK b \in Batches : AdobeStartFromAccounts(b) \/ AdobeClaimTargets(b) \/ AdobeProgress(b) \/ AdobeTopUp(b)
      BY <2>1
    <3>2. CASE AdobeTopUp(b)
      <4>1. Wake(b) \/ (\E found : Offered(found) /\ Decide(b, found)) \/ (\E cooling \in BOOLEAN : NothingClaimed(b, cooling)) \/ CoolingOver(b)
        <5>1. CoolingFailure \in BOOLEAN
          BY DEF CoolingFailure
        <5>2. Offered(AdobeAccounts(Short(b)))
          BY <1>2, FindsOffers
        <5> QED BY <3>2, <5>1, <5>2, Zenon DEF AdobeTopUp
      <4> QED BY <4>1 DEF BatchStep, LoopStep
    <3>3. CASE AdobeStartFromAccounts(b)
      <4>1. PICK n \in 1..MaxCount : Produce(b, n, AdobeAccounts(Min2(n, Limit)))
        BY <3>3 DEF AdobeStartFromAccounts
      <4>2. \E found : Offered(found) /\ Produce(b, n, found)
        BY <1>2, <4>1, FindsOffers
      <4> QED BY <4>2 DEF BatchStep
    <3>4. CASE AdobeClaimTargets(b)
      <4>1. Keeping(TRUE) /\ Passes(b, {}) /\ \A n : Offered(AdobePool(n))
        BY <1>2, FindsOffers DEF Keeping, Passes
      <4> QED BY <3>4, <4>1 DEF AdobeClaimTargets, BatchStep
    <3>5. CASE AdobeProgress(b)
      BY <3>5 DEF AdobeProgress, BatchStep, LoopStep
    <3> QED BY <3>1, <3>2, <3>3, <3>4, <3>5
  <2>2. CASE \E t \in Tasks : AdobeRun(t)
    BY <1>2, <2>2 DEF TaskStep
  <2>3. CASE RescueAllDead \/ \E id \in Rows : Rescue(id)
    BY <2>3 DEF RescueAllDead, Rescue, PanelStep
  <2> QED BY <1>2, <2>1, <2>2, <2>3 DEF AdobeNext, AdobeStart, AdobeSubmitOrStop, AdobeDeletes, PanelStep, Keeping
<1>3. CASE platform = "leonardo" /\ LeonardoNext
  <2>1. CASE \E b \in Batches : LeonardoStartFromAccounts(b) \/ LeonardoClaimTargets(b) \/ LeonardoProgress(b) \/ LeonardoTopUp(b)
    <3>1. PICK b \in Batches : LeonardoStartFromAccounts(b) \/ LeonardoClaimTargets(b) \/ LeonardoProgress(b) \/ LeonardoTopUp(b)
      BY <2>1
    <3>2. CASE LeonardoTopUp(b)
      <4>1. Wake(b) \/ (\E found : Offered(found) /\ Decide(b, found)) \/ (\E cooling \in BOOLEAN : NothingClaimed(b, cooling)) \/ CoolingOver(b)
        <5>1. CoolingFailure \in BOOLEAN
          BY DEF CoolingFailure
        <5>2. Offered(LeonardoAccounts(Short(b)))
          BY <1>3, FindsOffers
        <5> QED BY <3>2, <5>1, <5>2, Zenon DEF LeonardoTopUp
      <4> QED BY <4>1 DEF BatchStep, LoopStep
    <3>3. CASE LeonardoStartFromAccounts(b)
      <4>1. PICK n \in 1..MaxCount : Produce(b, n, LeonardoAccounts(Min2(n, Limit)))
        BY <3>3 DEF LeonardoStartFromAccounts
      <4>2. \E found : Offered(found) /\ Produce(b, n, found)
        BY <1>3, <4>1, FindsOffers
      <4> QED BY <4>2 DEF BatchStep
    <3>4. CASE LeonardoClaimTargets(b)
      <4>1. Keeping(FALSE) /\ Passes(b, {}) /\ \A n : Offered(LeonardoPool(n))
        BY <1>3, FindsOffers DEF Keeping, Passes
      <4> QED BY <3>4, <4>1 DEF LeonardoClaimTargets, BatchStep
    <3>5. CASE LeonardoProgress(b)
      BY <3>5 DEF LeonardoProgress, BatchStep, LoopStep
    <3> QED BY <3>1, <3>2, <3>3, <3>4, <3>5
  <2>2. CASE \E t \in Tasks : LeonardoRun(t)
    BY <1>3, <2>2 DEF TaskStep
  <2> QED BY <1>3, <2>1, <2>2 DEF LeonardoNext, LeonardoStart, LeonardoSubmitOrStop, LeonardoDeletes, PanelStep, Keeping
<1>4. CASE platform = "lovart" /\ LovartNext
  <2>1. CASE \E b \in Batches : LovartStartFromAccounts(b) \/ LovartClaimTargets(b) \/ LovartProgress(b) \/ LovartTopUp(b)
    <3>1. PICK b \in Batches : LovartStartFromAccounts(b) \/ LovartClaimTargets(b) \/ LovartProgress(b) \/ LovartTopUp(b)
      BY <2>1
    <3>2. CASE LovartTopUp(b)
      <4>1. Wake(b) \/ (\E found : Offered(found) /\ Decide(b, found)) \/ (\E cooling \in BOOLEAN : NothingClaimed(b, cooling)) \/ CoolingOver(b)
        <5>1. CoolingFailure \in BOOLEAN
          BY DEF CoolingFailure
        <5>2. Offered(LovartAccounts(Short(b)))
          BY <1>4, FindsOffers
        <5> QED BY <3>2, <5>1, <5>2, Zenon DEF LovartTopUp
      <4> QED BY <4>1 DEF BatchStep, LoopStep
    <3>3. CASE LovartStartFromAccounts(b)
      <4>1. PICK n \in 1..MaxCount : Produce(b, n, LovartAccounts(Min2(n, Limit)))
        BY <3>3 DEF LovartStartFromAccounts
      <4>2. \E found : Offered(found) /\ Produce(b, n, found)
        BY <1>4, <4>1, FindsOffers
      <4> QED BY <4>2 DEF BatchStep
    <3>4. CASE LovartClaimTargets(b)
      <4>1. Keeping(FALSE) /\ Passes(b, {}) /\ \A n : Offered(LovartPool(n))
        BY <1>4, FindsOffers DEF Keeping, Passes
      <4> QED BY <3>4, <4>1 DEF LovartClaimTargets, BatchStep
    <3>5. CASE LovartProgress(b)
      BY <3>5 DEF LovartProgress, BatchStep, LoopStep
    <3> QED BY <3>1, <3>2, <3>3, <3>4, <3>5
  <2>2. CASE \E t \in Tasks : LovartRun(t)
    BY <1>4, <2>2 DEF TaskStep
  <2> QED BY <1>4, <2>1, <2>2 DEF LovartNext, LovartStart, LovartSubmitOrStop, LovartDeletes, PanelStep, Keeping
<1> QED BY <1>1, <1>2, <1>3, <1>4 DEF Next, GrokNext, AdobeNext, LeonardoNext, LovartNext

\* Every step keeps the invariant.
LEMMA EveryStep == IInv /\ [Next]_vars => IInv'
<1> SUFFICES ASSUME IInv, [Next]_vars PROVE IInv'
  OBVIOUS
<1>1. CASE TaskStep
  BY <1>1, RunsStep, StepsKeep
<1>2. CASE PanelStep
  BY <1>2, PanelKeeps
<1>3. CASE BatchStep
  BY <1>3, BatchKeeps
<1>4. CASE Restart
  BY <1>4, RestartKeeps
<1>5. CASE Time \/ UNCHANGED vars
  <2>1. task' = task /\ batch' = batch /\ row' = row /\ UNCHANGED <<active, born, platform, twin, adrift>>
    BY <1>5 DEF Time, vars, history
  <2>2. RowOK(start'.old)
    BY <1>5 DEF Time, vars, IInv, Shape
  <2> QED BY <2>1, <2>2, IdleKeeps
<1> QED BY <1>1, <1>2, <1>3, <1>4, <1>5, StepsAreThese

\* Nothing runs and nothing is claimed at the start.
LEMMA Initially == Init => IInv
<1> SUFFICES ASSUME Init PROVE IInv
  OBVIOUS
<1>1. PICK none : none = Unborn
  OBVIOUS
<1>2. TaskOK(none) /\ none.pc = "free"
  BY <1>1 DEF Unborn, TaskOK
<1>3. task = [t \in Tasks |-> task[t]] /\ \A t \in Tasks : task[t] = none
  BY <1>1 DEF Init
<1>4. PICK idle : idle = Idle
  OBVIOUS
<1>5. BatchOK(idle) /\ idle.picked = {}
  BY NothingOK, <1>4 DEF Idle, BatchOK
<1>6. batch = [b \in Batches |-> batch[b]] /\ \A b \in Batches : BatchOK(batch[b]) /\ batch[b].picked = {}
  BY <1>4, <1>5 DEF Init
<1>7. PICK absent : absent = Absent
  OBVIOUS
<1>8. RowOK(absent) /\ absent.status = "none" /\ absent.arp = FALSE
  BY <1>7 DEF Absent, RowOK
<1>9. PICK old : old = [email |-> LeastOf(Emails), status |-> "register_failed", box |-> NoBox,
                        auth |-> TRUE, arp |-> TRUE, dead |-> FALSE]
  OBVIOUS
<1>10. RowOK(old) /\ old.status = "register_failed"
  BY <1>9 DEF RowOK
<1>11. /\ row = [id \in Rows |-> row[id]]
       /\ \A id \in Rows : row[id] = absent \/ (row[id] = old /\ id = 1 /\ platform = "adobe")
  BY <1>7, <1>9 DEF Init
<1>12. Shape
  <2>1. RowOK(start.old)
    BY NothingOK DEF Init
  <2> QED BY <1>2, <1>3, <1>6, <1>8, <1>10, <1>11, <2>1 DEF Shape
<1>13. \A t \in Tasks : ~Alive(t) /\ ~Runs(t)
  BY <1>2, <1>3 DEF Alive, Runs, Working
<1>14. \A b \in Batches : Claims(b) = {}
  BY <1>6 DEF Claims
<1>15. Slots
  <2>1. Holders = {}
    BY <1>2, <1>3 DEF Holders, HoldsSlot
  <2>2. Cardinality(Holders) = 0
    BY <2>1, FS_EmptySet
  <2> QED BY <2>2, AccountAssumption DEF Slots, Init
<1>16. CodeOfThisWait
  BY <1>2, <1>3 DEF CodeOfThisWait
<1>17. Owned
  BY <1>8, <1>10, <1>11, <1>13 DEF Owned, InFlight
<1>18. Table
  <2>1. \A id \in Rows : Exists(id) => id = 1 /\ platform = "adobe"
    BY <1>8, <1>11 DEF Exists
  <2>2. \A id \in Rows : row[id].arp => Exists(id)
    BY <1>8, <1>10, <1>11 DEF Exists
  <2>3. born \in Nat /\ (1 \in Rows /\ Exists(1) => born = 1)
    BY DEF Init
  <2> QED BY <2>1, <2>2, <2>3 DEF Table
<1>19. \A x \in Rows : Alone(x)
  BY <1>13, <1>14 DEF Alone
<1> QED BY <1>12, <1>15, <1>16, <1>17, <1>18, <1>19 DEF IInv

\* The invariant holds in every state the packages can be in.
THEOREM Invariance == Spec => []IInv
BY Initially, EveryStep, PTL DEF Spec

-----------------------------------------------------------------------------
(* What it says.                                                           *)

\* The slots counted are those of the tasks between AcquireSlot and ReleaseSlot.
THEOREM SlotsExactAlways == Spec => []SlotsExact
<1>1. IInv => SlotsExact
  <2>1. Holders = {t \in Tasks : task[t].pc \in {"active", "waiting", "refused", "checking", "releasing"}}
    BY DEF Holders, HoldsSlot
  <2> QED BY <2>1 DEF IInv, Slots, SlotsExact
<1> QED BY <1>1, Invariance, PTL

\* A row in progress has a task, a request, or is adrift until the next restart.
THEOREM InFlightOwnedAlways == Spec => []InFlightOwned
<1>1. IInv => InFlightOwned
  <2> SUFFICES ASSUME IInv, NEW id \in Rows, row[id].status \in InFlight
               PROVE  \/ \E t \in Tasks : task[t].id = id /\ task[t].pc \in {"spawned", "queued", "active", "waiting", "refused"}
                      \/ \E b \in Batches : id \in batch[b].picked /\ batch[b].pc \in {"accounts", "pool"}
                      \/ id \in adrift
    BY DEF InFlightOwned
  <2>1. \/ \E t \in Tasks : task[t].id = id /\ Runs(t)
        \/ \E b \in Batches : id \in Claims(b)
        \/ id \in adrift
    BY DEF IInv, Owned
  <2> QED BY <2>1 DEF Runs, Working, Claims, Claiming
<1> QED BY <1>1, Invariance, PTL

\* A code that is typed in is taken by the wait it was meant for.
THEOREM CodeOfThisWaitAlways == Spec => []CodeOfThisWait
<1>1. IInv => CodeOfThisWait
  BY DEF IInv
<1> QED BY <1>1, Invariance, PTL

\* The reading a save writes: a person's, or that of a request which claims.
Asked(h) == h = start \/ \E b \in Batches : batch[b].pc \in Claiming /\ h = batch[b].held

\* How the row of id comes out of a step.
LEMMA RowAfter ==
  ASSUME IInv, [Next]_vars, NEW id \in Rows
  PROVE  \/ row'[id] = row[id] \/ (row'[id].status = "none" /\ meddled')
         \/ \E t \in Tasks : Steps(t) /\ task[t].id = id /\ \E statuses : Wrote(id, statuses)
         \/ \E h, keeps : /\ Keeping(keeps) /\ Saved(id, h, keeps)
                          /\ h # Nothing /\ Asked(h) /\ id = IdFor(h)
         \/ Restart
<1>1. CASE TaskStep
  <2>1. PICK t \in Tasks : Steps(t)
    BY <1>1, RunsStep
  <2>2. CASE row' = row \/ task[t].id # id
    BY <2>1, <2>2 DEF Steps, RowStep, Wrote
  <2>3. CASE row' # row /\ task[t].id = id
    <3>1. \E statuses : Wrote(id, statuses)
      BY <2>1, <2>3 DEF Steps, RowStep
    <3> QED BY <2>1, <2>3, <3>1
  <2> QED BY <2>2, <2>3
<1>2. ASSUME NEW h, NEW box, NEW keeps, Keeping(keeps), Save(h, box, keeps), h # Nothing, Asked(h), RowOK(h.old)
      PROVE  \/ row'[id] = row[id]
             \/ \E g, k : /\ Keeping(k) /\ Saved(id, g, k)
                          /\ g # Nothing /\ Asked(g) /\ id = IdFor(g)
  <2>1. PICK sid : sid = IdFor(h)
    OBVIOUS
  <2>2. Saved(sid, h, keeps)
    BY <1>2, <2>1, SaveWrites DEF IInv, Keeping
  <2>3. CASE id = sid
    BY <1>2, <2>1, <2>2, <2>3
  <2>4. CASE id # sid
    BY <2>2, <2>4 DEF Saved
  <2> QED BY <2>3, <2>4
<1>3. CASE \E keeps : Keeping(keeps) /\ StartSave(keeps)
  <2>1. PICK keeps : Keeping(keeps) /\ StartSave(keeps)
    BY <1>3
  <2>2. PICK box : Save(start, box, keeps) /\ start # Nothing /\ Asked(start)
    BY <2>1 DEF StartSave, Asked
  <2>3. RowOK(start.old)
    BY DEF IInv, Shape
  <2> QED BY <1>2, <2>1, <2>2, <2>3
<1>9. CASE \E b \in Batches : \E skipped, keeps : Keeping(keeps) /\ Passes(b, skipped) /\ ClaimNext(b, skipped, keeps)
  <2>0. PICK b \in Batches : \E skipped, keeps : Keeping(keeps) /\ Passes(b, skipped) /\ ClaimNext(b, skipped, keeps)
    BY <1>9
  <2>1. PICK skipped, keeps : Keeping(keeps) /\ Passes(b, skipped) /\ ClaimNext(b, skipped, keeps)
    BY <2>0
  <2>2. CASE ClaimRead(b, skipped)
    BY <2>2 DEF ClaimRead
  <2>3. CASE ClaimSave(b, keeps)
    <3>1. PICK h : h = batch[b].held
      OBVIOUS
    <3>2. PICK box : Save(h, box, keeps) /\ h # Nothing /\ Asked(h)
      BY <2>3, <3>1 DEF ClaimSave, Asked, Claiming
    <3>3. RowOK(h.old)
      BY <3>1 DEF IInv, Shape, BatchOK
    <3> QED BY <1>2, <2>1, <3>2, <3>3
  <2> QED BY <2>1, <2>2, <2>3 DEF ClaimNext
<1>4. CASE DeleteRows
  <2>1. PICK none : none = Absent
    OBVIOUS
  <2>2. none.status = "none"
    BY <2>1 DEF Absent
  <2>3. (row'[id] = none \/ row'[id] = row[id]) /\ meddled'
    BY <1>4, <2>1 DEF DeleteRows, DeleteAll, Delete, Request
  <2> QED BY <2>2, <2>3
<1>5. CASE row' = row
  BY <1>5
<1>6. PanelStep => \/ row' = row \/ DeleteRows \/ \E keeps : Keeping(keeps) /\ StartSave(keeps)
  BY DEF PanelStep, StartRead, StartFails, SubmitOrStop, SubmitCode, Stop, StopAll, RescueAll
<1>7. BatchStep => row' = row \/ \E b \in Batches : \E skipped, keeps : Keeping(keeps) /\ Passes(b, skipped) /\ ClaimNext(b, skipped, keeps)
  BY DEF BatchStep, Produce, ClaimFails, ClaimPool, BeginRun, TrackRun, LoopStep, BeginTopUp, LoopTop, Wake,
         CoolingOver, Decide, NothingClaimed, LoopOnly
<1>8. Time \/ UNCHANGED vars => row' = row
  BY DEF Time, vars
<1> QED BY <1>1, <1>3, <1>4, <1>5, <1>6, <1>7, <1>8, <1>9, StepsAreThese, Zenon

-----------------------------------------------------------------------------
(* A batch left to itself: what its count has room for.                    *)

Calm == ~meddled /\ twin = {}

\* The rows that count against a batch: registered ones and those being worked on.
Registered == {id \in Rows : row[id].status = "registered"}
Underway == {id \in Rows : \E t \in Tasks : Runs(t) /\ task[t].id = id}
Used == Registered \cup Underway

Entered(id) == \E t \in Tasks : task[t].pc \notin {"free", "spawned"} /\ task[t].id = id

\* What a request or a loop in this state may still claim fits into its count.
Fits(c) ==
    /\ c.count \in Nat /\ c.want \in Nat /\ c.running \in Nat /\ c.tracked \subseteq Rows
    /\ c.first => c.pc \in Claiming \cup {"idle", "over"}
    /\ ~c.first => /\ c.pc \notin {"idle", "over"} /\ Used \subseteq runTracked
                   /\ c.pc # "enter" => Used \subseteq c.tracked
    /\ c.pc # "idle" => Cardinality(Used) <= c.count
    /\ c.pc \in Claiming => Cardinality(Used) + c.want <= c.count /\ Cardinality(c.picked) <= c.want
    /\ c.pc = "counting" => Cardinality(Underway) <= c.running

\* One batch and its tasks are all there is.
OneBatch ==
    /\ start = Nothing
    /\ \A b, c \in Batches : batch[b].pc # "idle" /\ batch[c].pc # "idle" => b = c
    /\ adrift # {} => \E b \in Batches : batch[b].pc = "over"
    /\ Used # {} => \E b \in Batches : batch[b].pc = "over" \/ ~batch[b].first
    /\ \A t \in Tasks : Alive(t) => /\ task[t].by \in Batches /\ batch[task[t].by].pc # "idle"
                                    /\ task[t].id \notin adrift

\* Every task that has begun can be stopped under its id.
Stoppable == cancel = [id \in Rows |-> cancel[id]] /\ \A id \in Rows : cancel[id] # 0 <=> Entered(id)

Undisturbed == OneBatch /\ Stoppable /\ runTracked \subseteq Rows /\ \A b \in Batches : Fits(batch[b])

Counted == Calm => Undisturbed

\* Two requests that differ in nothing that is counted.
Alike(c, d) ==
    /\ c.pc = d.pc /\ c.count = d.count /\ c.first = d.first /\ c.running = d.running
    /\ c.want = d.want /\ c.picked = d.picked /\ c.tracked = d.tracked
Whole(c) == DOMAIN c = {"pc", "count", "live", "first", "running", "want", "todo", "held", "picked", "tracked"}

\* The sets are finite.
LEMMA UsedFinite ==
  /\ IsFiniteSet(Rows) /\ IsFiniteSet(Used) /\ IsFiniteSet(Underway) /\ IsFiniteSet(Registered)
  /\ Cardinality(Used) \in Nat /\ Cardinality(Underway) \in Nat
<1>1. IsFiniteSet(Rows) /\ Used \subseteq Rows /\ Underway \subseteq Rows /\ Registered \subseteq Rows
  BY AccountAssumption DEF Used, Underway, Registered
<1>2. IsFiniteSet(Used) /\ IsFiniteSet(Underway) /\ IsFiniteSet(Registered)
  BY <1>1, FS_Subset
<1> QED BY <1>1, <1>2, FS_CardinalityType

\* A subset of a finite set is no larger.
LEMMA Smaller ==
  ASSUME NEW S, NEW T, IsFiniteSet(T), S \subseteq T
  PROVE  IsFiniteSet(S) /\ Cardinality(S) \in Nat /\ Cardinality(T) \in Nat /\ Cardinality(S) <= Cardinality(T)
<1>1. IsFiniteSet(S) /\ Cardinality(S) <= Cardinality(T)
  BY FS_Subset
<1> QED BY <1>1, FS_CardinalityType

\* A loop that ends tells the registered one, and changes nothing else of it.
LEMMA EndedAlike ==
  ASSUME NEW bs, bs = [c \in Batches |-> bs[c]], \A c \in Batches : Whole(bs[c]), NEW c \in Batches
  PROVE  Alike(Ended(bs)[c], bs[c])
<1>1. CASE topUpCancel = 0
  BY <1>1 DEF Ended, Alike
<1>2. CASE topUpCancel # 0
  <2>1. Ended(bs) = [bs EXCEPT ![topUpCancel].live = FALSE]
    BY <1>2 DEF Ended
  <2>2. CASE c = topUpCancel
    <3>1. PICK n : n = [bs[c] EXCEPT !.live = FALSE]
      OBVIOUS
    <3>2. Ended(bs)[c] = n
      BY <2>1, <2>2, <3>1
    <3>3. Alike(n, bs[c])
      BY <3>1 DEF Alike, Whole
    <3> QED BY <3>2, <3>3
  <2>3. CASE c # topUpCancel
    <3>1. Ended(bs)[c] = bs[c]
      BY <2>1, <2>3
    <3> QED BY <3>1 DEF Alike
  <2> QED BY <2>2, <2>3
<1> QED BY <1>1, <1>2

\* What fits a request fits one like it.
LEMMA AlikeFits ==
  ASSUME NEW c, NEW d, Fits(d), Alike(c, d), Used' \subseteq Used, Underway' \subseteq Underway, runTracked' = runTracked
  PROVE  Fits(c)'
<1>1. IsFiniteSet(Used)
  BY UsedFinite
<1>2. IsFiniteSet(Underway)
  BY UsedFinite
<1>3. Cardinality(Used') <= Cardinality(Used) /\ Cardinality(Used') \in Nat /\ Cardinality(Used) \in Nat
  BY <1>1, Smaller
<1>4. Cardinality(Underway') <= Cardinality(Underway) /\ Cardinality(Underway') \in Nat /\ Cardinality(Underway) \in Nat
  BY <1>2, Smaller
<1>5. \A s : s \in Used' => s \in Used
  OBVIOUS
<1>6. /\ c.count \in Nat /\ c.want \in Nat /\ c.running \in Nat /\ c.tracked \subseteq Rows
      /\ c.first => c.pc \in Claiming \cup {"idle", "over"}
      /\ ~c.first => c.pc \notin {"idle", "over"}
  BY DEF Fits, Alike
<1>7. ~c.first => Used' \subseteq runTracked' /\ (c.pc # "enter" => Used' \subseteq c.tracked)
  BY <1>5 DEF Fits, Alike
<1>8. c.pc # "idle" => Cardinality(Used') <= c.count
  BY <1>3 DEF Fits, Alike
<1>9. c.pc \in Claiming => Cardinality(Used') + c.want <= c.count /\ Cardinality(c.picked) <= c.want
  BY <1>3 DEF Fits, Alike
<1>10. c.pc = "counting" => Cardinality(Underway') <= c.running
  BY <1>4 DEF Fits, Alike
<1> QED BY <1>6, <1>7, <1>8, <1>9, <1>10 DEF Fits

\* What a step of a task does to who may stop it and to what is counted.
Carries(t) ==
    /\ task'[t].pc # task[t].pc /\ (task'[t].pc # "free" => task'[t].by = task[t].by)
    /\ \/ task[t].pc = "spawned" /\ task'[t].pc \notin {"free", "spawned"} /\ cancel' = [cancel EXCEPT ![task[t].id] = t]
       \/ task[t].pc \notin {"free", "spawned"} /\ task'[t].pc = "free" /\ cancel' = [cancel EXCEPT ![task[t].id] = 0]
       \/ task[t].pc \notin {"free", "spawned"} /\ task'[t].pc \notin {"free", "spawned"} /\ cancel' = cancel
    /\ UNCHANGED <<meddled, runTracked>>
    /\ batch' = batch \/ batch' = Ended(batch)

\* Pc keeps who asked for the task.
LEMMA PcCarries ==
  ASSUME Shape, NEW t \in Tasks, NEW pc, Pc(t, pc), task[t].pc \notin {"free", "spawned"},
         pc \notin {"free", "spawned", task[t].pc}, cancel' = cancel, UNCHANGED <<meddled, runTracked>>,
         batch' = batch \/ batch' = Ended(batch)
  PROVE  Carries(t)
<1>1. PICK k : k = [task[t] EXCEPT !.pc = pc]
  OBVIOUS
<1>2. task'[t] = k
  BY <1>1 DEF Pc, Shape
<1>3. k.pc = pc /\ k.by = task[t].by
  BY <1>1 DEF Shape, TaskOK
<1> QED BY <1>2, <1>3 DEF Carries

\* A task that enters, by way of any package.
LEMMA EnterCarries ==
  ASSUME Shape, NEW t \in Tasks, Enter(t) \/ AdobeEnter(t) PROVE Carries(t)
<1>1. PICK id : id = task[t].id
  OBVIOUS
<1>2. TaskOK(task[t]) /\ task[t].pc = "spawned" /\ cancel' = [cancel EXCEPT ![id] = t]
      /\ UNCHANGED <<meddled, runTracked, batch>>
  BY <1>1 DEF Enter, AdobeEnter, RunOnly, history, Shape
<1>3. PICK pc \in {"queued", "leaving"} : \E box, restore :
        \/ task' = [task EXCEPT ![t].pc = pc, ![t].box = box]
        \/ task' = [task EXCEPT ![t].pc = pc, ![t].box = box, ![t].restore = restore]
  <2>1. CASE Enter(t)
    <3>1. task' = [task EXCEPT ![t].pc = IF Exists(id) THEN "queued" ELSE "leaving", ![t].box = row[id].box]
      BY <1>1, <2>1 DEF Enter
    <3> QED BY <3>1
  <2>2. CASE AdobeEnter(t)
    <3>1. PICK lost : lost = (Exists(id) /\ row[id].arp /\ ~row[id].auth)
      OBVIOUS
    <3>2. task' = [task EXCEPT ![t].pc = IF Exists(id) /\ ~lost THEN "queued" ELSE "leaving",
                               ![t].box = row[id].box, ![t].restore = row[id].arp]
      BY <1>1, <2>2, <3>1 DEF AdobeEnter
    <3> QED BY <3>2
  <2> QED BY <2>1, <2>2
<1>4. PICK box, restore :
        \/ task' = [task EXCEPT ![t].pc = pc, ![t].box = box]
        \/ task' = [task EXCEPT ![t].pc = pc, ![t].box = box, ![t].restore = restore]
  BY <1>3
<1>5. PICK k, l : k = [task[t] EXCEPT !.pc = pc, !.box = box] /\ l = [task[t] EXCEPT !.pc = pc, !.box = box, !.restore = restore]
  OBVIOUS
<1>6. task'[t] = k \/ task'[t] = l
  BY <1>4, <1>5 DEF Shape
<1>7. k.pc = pc /\ k.by = task[t].by /\ l.pc = pc /\ l.by = task[t].by
  BY <1>2, <1>5 DEF TaskOK
<1>8. task'[t].pc = pc /\ task'[t].by = task[t].by
  BY <1>6, <1>7
<1> QED BY <1>1, <1>2, <1>3, <1>8 DEF Carries

\* A task that leaves.
LEMMA LeaveCarries == ASSUME Shape, NEW t \in Tasks, Leave(t) PROVE Carries(t)
<1>1. PICK k : k = Unborn
  OBVIOUS
<1>2. task'[t] = k /\ k.pc = "free"
  BY <1>1 DEF Leave, Shape, Unborn
<1>3. task[t].pc \notin {"free", "spawned"} /\ cancel' = [cancel EXCEPT ![task[t].id] = 0] /\ UNCHANGED <<meddled, runTracked, batch>>
  BY DEF Leave, RunOnly, history
<1> QED BY <1>2, <1>3 DEF Carries

\* A task in between.
LEMMA CodeCarries == ASSUME Shape, NEW t \in Tasks, WaitManualCode(t) \/ CodeTaken(t) PROVE Carries(t)
<1>1. PICK k, l : k = [task[t] EXCEPT !.pc = "waiting", !.waits = @ + 1, !.code = 0] /\ l = [task[t] EXCEPT !.pc = "active", !.code = 0]
  OBVIOUS
<1>2. k.pc = "waiting" /\ k.by = task[t].by /\ l.pc = "active" /\ l.by = task[t].by
  BY <1>1 DEF Shape, TaskOK
<1>3. UNCHANGED <<cancel, meddled, runTracked, batch>>
  BY DEF WaitManualCode, CodeTaken, RunOnly, history
<1>4. CASE WaitManualCode(t)
  <2>1. task'[t] = k /\ task[t].pc = "active"
    BY <1>1, <1>4 DEF WaitManualCode, NewChannel, Shape
  <2> QED BY <1>2, <1>3, <2>1 DEF Carries
<1>5. CASE CodeTaken(t)
  <2>1. task'[t] = l /\ task[t].pc = "waiting"
    BY <1>1, <1>5 DEF CodeTaken, Shape
  <2> QED BY <1>2, <1>3, <2>1 DEF Carries
<1> QED BY <1>4, <1>5

\* However an attempt ends.
LEMMA EndCarries ==
  ASSUME Shape, NEW t \in Tasks, NEW fields, NEW checks \in BOOLEAN, AttemptEnds(t, fields, checks), UNCHANGED <<meddled, runTracked>>,
         batch' = batch \/ batch' = Ended(batch)
  PROVE  Carries(t)
<1>1. PICK pc : pc = IF checks THEN "checking" ELSE "releasing"
  OBVIOUS
<1>2. Pc(t, pc) /\ task[t].pc \in {"active", "refused"} /\ cancel' = cancel
  BY <1>1 DEF AttemptEnds
<1> QED BY <1>1, <1>2, PcCarries

\* Every step of run.
LEMMA TaskCarries ==
  ASSUME IInv, TaskStep, \A t \in Tasks : Alive(t) => task[t].kind = "run"
  PROVE  \E t \in Tasks : Steps(t) /\ Carries(t)
<1>0. Shape
  BY DEF IInv
<1>1. PICK t \in Tasks : \/ platform = "grok" /\ GrokRun(t)
                         \/ platform = "adobe" /\ AdobeRun(t)
                         \/ platform = "leonardo" /\ LeonardoRun(t)
                         \/ platform = "lovart" /\ LovartRun(t)
  BY DEF TaskStep
<1>2. ASSUME Enter(t) \/ AdobeEnter(t) \/ Leave(t) \/ WaitManualCode(t) \/ CodeTaken(t) PROVE Carries(t)
  BY <1>0, <1>2, EnterCarries, LeaveCarries, CodeCarries
<1>3. ASSUME AcquireSlot(t) \/ StoppedInQueue(t) \/ NoCode(t) \/ SelfCheck(t) PROVE Carries(t)
  <2>1. UNCHANGED <<cancel, meddled, runTracked, batch>>
    BY <1>3 DEF AcquireSlot, StoppedInQueue, NoCode, SelfCheck, RunOnly, history
  <2>2. \E pc : Pc(t, pc) /\ task[t].pc \notin {"free", "spawned"} /\ pc \notin {"free", "spawned", task[t].pc}
    <3>1. CASE AcquireSlot(t)
      BY <3>1 DEF AcquireSlot
    <3>2. CASE StoppedInQueue(t)
      BY <3>2 DEF StoppedInQueue
    <3>3. CASE NoCode(t)
      BY <3>3 DEF NoCode
    <3>4. CASE SelfCheck(t)
      BY <3>4 DEF SelfCheck
    <3> QED BY <1>3, <3>1, <3>2, <3>3, <3>4
  <2> QED BY <1>0, <2>1, <2>2, PcCarries
<1>4. ASSUME GrokRegistered(t) \/ GrokFailed(t) \/ LeonardoRegistered(t) \/ LeonardoFailed(t) \/ LovartRegistered(t) \/ LovartFailed(t)
           \/ AdobeFailed(t) \/ AdobeAccountExists(t) \/ AdobeRegistered(t) \/ AdobeSessionLost(t)
      PROVE  Carries(t)
  <2>1. \E fields, checks : checks \in BOOLEAN /\ AttemptEnds(t, fields, checks)
    BY <1>4, Zenon DEF GrokRegistered, GrokFailed, LeonardoRegistered, LeonardoFailures, LeonardoFailed, LovartRegistered,
                LovartFailed, AdobeFailed, AdobeAccountExists, AdobeRegistered, AdobeSessionLost
  <2>2. UNCHANGED <<meddled, runTracked, batch>>
    BY <1>4 DEF GrokRegistered, GrokFailed, LeonardoRegistered, LeonardoFailed, LovartRegistered, LovartFailed,
                AdobeFailed, AdobeAccountExists, AdobeRegistered, AdobeSessionLost, RunOnly, history
  <2> QED BY <1>0, <2>1, <2>2, EndCarries
<1>5. ASSUME GrokUnavailable(t) PROVE Carries(t)
  <2>1. PICK fields : fields = [status |-> "register_failed"]
    OBVIOUS
  <2>2. AttemptEnds(t, fields, FALSE) /\ UNCHANGED <<meddled, runTracked>> /\ batch' = Ended(batch)
    BY <1>5, <2>1 DEF GrokUnavailable, history
  <2> QED BY <1>0, <2>2, EndCarries
<1>6. ~RescueEnter(t) /\ ~RescueEnds(t)
  <2>1. ASSUME RescueEnter(t) \/ RescueEnds(t) PROVE FALSE
    <3>1. task[t].kind = "rescue" /\ Alive(t)
      BY <2>1 DEF RescueEnter, RescueEnds, AttemptEnds, Alive
    <3> QED BY <3>1
  <2> QED BY <2>1
<1>7. Carries(t)
  <2>1. CASE platform = "grok" /\ GrokRun(t)
    BY <1>2, <1>3, <1>4, <1>5, <2>1, Zenon DEF GrokRun, GrokCode, SlotStep, CodeStep
  <2>2. CASE platform = "adobe" /\ AdobeRun(t)
    BY <1>2, <1>3, <1>4, <1>6, <2>2, Zenon DEF AdobeRun, AdobeCode, SlotStep, CodeStep
  <2>3. CASE platform = "leonardo" /\ LeonardoRun(t)
    BY <1>2, <1>3, <1>4, <2>3, Zenon DEF LeonardoRun, LeonardoCode, SlotStep, CodeStep
  <2>4. CASE platform = "lovart" /\ LovartRun(t)
    BY <1>2, <1>3, <1>4, <2>4, Zenon DEF LovartRun, LovartCode, SlotStep, CodeStep
  <2> QED BY <1>1, <2>1, <2>2, <2>3, <2>4
<1>8. PICK u \in Tasks : Steps(u)
  BY RunsStep
<1>9. u = t
  BY <1>7, <1>8 DEF Steps, Carries
<1> QED BY <1>7, <1>8, <1>9

\* A task's result takes the place of its work: what is counted does not grow.
LEMMA UsedShrinks ==
  ASSUME IInv, NEW t \in Tasks, Steps(t) PROVE Used' \subseteq Used /\ Underway' \subseteq Underway
<1>1. PICK id : id = task[t].id
  OBVIOUS
<1>2. id \in Rows
  BY <1>1 DEF IInv, Shape, TaskOK, Steps, Alive
<1>3. \A u \in Tasks : Runs(u)' => Runs(u) /\ task'[u].id = task[u].id
  BY DEF Steps, Runs, Working
<1>4. Underway' \subseteq Underway
  BY <1>3 DEF Underway
<1>5. ASSUME NEW x \in Rows, row'[x].status = "registered" PROVE x \in Used
  <2>1. CASE row'[x] = row[x]
    BY <1>5, <2>1 DEF Used, Registered
  <2>2. CASE row'[x] # row[x]
    <3>1. x = id
      BY <1>1, <2>2 DEF Steps, RowStep, Wrote
    <3>2. CASE Runs(t)
      BY <1>1, <3>1, <3>2 DEF Used, Underway
    <3>3. CASE ~Runs(t)
      <4>1. Wrote(id, {row[id].status})
        BY <1>1, <2>2, <3>3 DEF Steps, RowStep
      <4> QED BY <1>2, <1>5, <3>1, <4>1 DEF Wrote, Used, Registered
    <3> QED BY <3>2, <3>3
  <2> QED BY <2>1, <2>2
<1> QED BY <1>4, <1>5 DEF Used, Registered

\* A step that starts nothing leaves room for what there was room for.
LEMMA QuietCalm ==
  ASSUME Undisturbed, \A b \in Batches : Alike(batch'[b], batch[b]), Used' \subseteq Used, Underway' \subseteq Underway,
         UNCHANGED <<start, adrift, runTracked>>, Stoppable',
         \A t \in Tasks : Alive(t)' => Alive(t) /\ task'[t].by = task[t].by /\ task'[t].id = task[t].id
  PROVE  Undisturbed'
<1>1. OneBatch'
  <2>1. (\A b, c \in Batches : batch[b].pc # "idle" /\ batch[c].pc # "idle" => b = c)'
    BY DEF Undisturbed, OneBatch, Alike
  <2>2. (adrift # {} => \E b \in Batches : batch[b].pc = "over")'
    BY DEF Undisturbed, OneBatch, Alike
  <2>3. (Used # {} => \E b \in Batches : batch[b].pc = "over" \/ ~batch[b].first)'
    <3>1. Used' # {} => Used # {}
      OBVIOUS
    <3>2. Used # {} => \E b \in Batches : batch[b].pc = "over" \/ ~batch[b].first
      BY DEF Undisturbed, OneBatch
    <3>3. Used # {} => \E b \in Batches : batch'[b].pc = "over" \/ ~batch'[b].first
      BY <3>2 DEF Alike
    <3> QED BY <3>1, <3>3
  <2>4. (\A t \in Tasks : Alive(t) => /\ task[t].by \in Batches /\ batch[task[t].by].pc # "idle"
                                      /\ task[t].id \notin adrift)'
    BY DEF Undisturbed, OneBatch, Alike
  <2>5. start' = Nothing
    BY DEF Undisturbed, OneBatch
  <2> QED BY <2>1, <2>2, <2>3, <2>4, <2>5 DEF OneBatch
<1>2. ASSUME NEW b \in Batches PROVE Fits(batch[b])'
  <2>1. PICK c : c = batch'[b]
    OBVIOUS
  <2>2. PICK d : d = batch[b]
    OBVIOUS
  <2>3. Fits(d) /\ Alike(c, d)
    BY <2>1, <2>2 DEF Undisturbed
  <2>4. Fits(c)'
    BY <2>3, AlikeFits
  <2> QED BY <2>1, <2>4 DEF Fits
<1>3. runTracked' \subseteq Rows
  BY DEF Undisturbed
<1> QED BY <1>1, <1>2, <1>3 DEF Undisturbed

\* A task that leaves was the only one of its row.
LEMMA TaskCalm ==
  ASSUME IInv, Undisturbed, twin = {}, NEW t \in Tasks, Steps(t), Carries(t) PROVE Undisturbed'
<1>1. PICK id : id = task[t].id
  OBVIOUS
<1>2. Alive(t) /\ id \in Rows /\ id \notin adrift
  BY <1>1 DEF IInv, Shape, TaskOK, Steps, Alive, Undisturbed, OneBatch
<1>3. Alone(id)
  BY <1>2 DEF IInv
<1>4. /\ \A u \in Tasks \ {t} : task'[u] = task[u]
      /\ task'[t].pc # "free" => task'[t].id = id
  BY <1>1 DEF Steps
<1>5. \A b \in Batches : Alike(batch'[b], batch[b])
  <2>1. CASE batch' = batch
    BY <2>1 DEF Alike
  <2>2. CASE batch' = Ended(batch)
    <3>1. batch = [b \in Batches |-> batch[b]] /\ \A b \in Batches : Whole(batch[b])
      BY DEF IInv, Shape, BatchOK, Whole
    <3>2. \A b \in Batches : Alike(Ended(batch)[b], batch[b])
      BY <3>1, EndedAlike
    <3> QED BY <2>2, <3>2
  <2> QED BY <2>1, <2>2 DEF Carries
<1>6. Used' \subseteq Used /\ Underway' \subseteq Underway
  BY UsedShrinks
<1>7. UNCHANGED <<start, adrift, runTracked>>
  BY DEF Steps, Carries
<1>8. \A u \in Tasks : Alive(u)' => Alive(u) /\ task'[u].by = task[u].by /\ task'[u].id = task[u].id
  BY DEF Steps, Carries, Alive
<1>9. Stoppable'
  <2>1. cancel = [x \in Rows |-> cancel[x]] /\ \A x \in Rows : cancel[x] # 0 <=> Entered(x)
    BY DEF Undisturbed, Stoppable
  <2>2. t # 0
    BY AccountAssumption
  <2>3. ASSUME NEW x \in Rows, x # id PROVE Entered(x)' <=> Entered(x)
    BY <1>1, <1>4, <2>3 DEF Entered
  <2>4. task'[t].pc \notin {"free", "spawned"} => Entered(id)'
    BY <1>4 DEF Entered
  <2>5. task[t].pc \notin {"free", "spawned"} => Entered(id)
    BY <1>1 DEF Entered
  <2>6. task'[t].pc = "free" => ~Entered(id)'
    <3>1. SUFFICES ASSUME task'[t].pc = "free", NEW u \in Tasks, task'[u].pc \notin {"free", "spawned"}, task'[u].id = id PROVE FALSE
      BY DEF Entered
    <3>2. u # t
      BY <3>1
    <3>3. Alive(u) /\ task[u].id = id
      BY <1>4, <3>1, <3>2 DEF Alive
    <3> QED BY <1>1, <1>2, <1>3, <3>2, <3>3 DEF Alone
  <2>7. CASE task'[t].pc \notin {"free", "spawned"} /\ cancel' = [cancel EXCEPT ![id] = t]
    <3>1. cancel' = [x \in Rows |-> cancel'[x]] /\ cancel'[id] = t /\ \A x \in Rows \ {id} : cancel'[x] = cancel[x]
      BY <1>2, <2>1, <2>7
    <3>2. \A x \in Rows : cancel'[x] # 0 <=> Entered(x)'
      BY <2>1, <2>2, <2>3, <2>4, <2>7, <3>1
    <3> QED BY <3>1, <3>2 DEF Stoppable
  <2>8. CASE task'[t].pc = "free" /\ cancel' = [cancel EXCEPT ![id] = 0]
    <3>1. cancel' = [x \in Rows |-> cancel'[x]] /\ cancel'[id] = 0 /\ \A x \in Rows \ {id} : cancel'[x] = cancel[x]
      BY <1>2, <2>1, <2>8
    <3>2. \A x \in Rows : cancel'[x] # 0 <=> Entered(x)'
      BY <2>1, <2>3, <2>6, <2>8, <3>1
    <3> QED BY <3>1, <3>2 DEF Stoppable
  <2>9. CASE task[t].pc \notin {"free", "spawned"} /\ task'[t].pc \notin {"free", "spawned"} /\ cancel' = cancel
    <3>1. \A x \in Rows : cancel'[x] # 0 <=> Entered(x)'
      BY <2>1, <2>3, <2>4, <2>5, <2>9
    <3> QED BY <2>1, <2>9, <3>1 DEF Stoppable
  <2> QED BY <1>1, <2>7, <2>8, <2>9 DEF Carries
<1> QED BY <1>5, <1>6, <1>7, <1>8, <1>9, QuietCalm

\* A task that is left as it is.
Stays(t) == task'[t].pc = task[t].pc /\ task'[t].id = task[t].id /\ task'[t].by = task[t].by

\* Where the tasks stay, so does what is counted of them.
LEMMA StaysSame ==
  ASSUME \A t \in Tasks : Stays(t)
  PROVE  /\ Underway' = Underway
         /\ \A id : Entered(id)' <=> Entered(id)
         /\ \A t \in Tasks : Alive(t)' <=> Alive(t)
BY DEF Stays, Underway, Runs, Entered, Alive

\* Codes, stops and the clock start nothing.
LEMMA PanelCalm ==
  ASSUME IInv, Undisturbed, ~meddled, ~meddled', PanelStep \/ Time \/ UNCHANGED vars PROVE Undisturbed' /\ twin' = twin
<1>1. Shape
  BY DEF IInv
<1>2. ~(\E e \in Emails : StartRead(e)) /\ ~StartFails /\ ~(\E keeps : StartSave(keeps)) /\ ~DeleteRows
      /\ ~(\E ids \in SUBSET Rows : RescueAll(ids))
  BY DEF StartRead, StartFails, StartSave, DeleteRows, DeleteAll, Delete, RescueAll, Request, Undisturbed, OneBatch
<1>3. SubmitOrStop \/ Time \/ UNCHANGED vars
  BY <1>2 DEF PanelStep
<1>4. UNCHANGED <<row, cancel, start, adrift, runTracked, twin>>
  BY <1>3 DEF SubmitOrStop, SubmitCode, Stop, StopAll, Time, vars, progress, history
<1>5. \A t \in Tasks : Stays(t)
  <2>1. CASE task' = task
    BY <2>1 DEF Stays
  <2>2. CASE \E id \in Rows : SubmitCode(id)
    <3>1. PICK s : task' = [task EXCEPT ![s].code = task[s].waits]
      BY <2>2 DEF SubmitCode
    <3>2. ASSUME NEW t \in Tasks PROVE Stays(t)
      <4>1. PICK k : k = [task[t] EXCEPT !.code = task[s].waits]
        OBVIOUS
      <4>2. task'[t] = task[t] \/ task'[t] = k
        BY <1>1, <3>1, <4>1 DEF Shape
      <4>3. k.pc = task[t].pc /\ k.id = task[t].id /\ k.by = task[t].by
        BY <1>1, <4>1 DEF Shape, TaskOK
      <4> QED BY <4>2, <4>3 DEF Stays
    <3> QED BY <3>2
  <2>3. CASE \E ids : task' = Cancelled(ids)
    <3>1. ASSUME NEW t \in Tasks PROVE Stays(t)
      <4>1. PICK k : k = [task[t] EXCEPT !.live = FALSE]
        OBVIOUS
      <4>2. task'[t] = task[t] \/ task'[t] = k
        BY <2>3, <4>1 DEF Cancelled
      <4>3. k.pc = task[t].pc /\ k.id = task[t].id /\ k.by = task[t].by
        BY <1>1, <4>1 DEF Shape, TaskOK
      <4> QED BY <4>2, <4>3 DEF Stays
    <3> QED BY <3>1
  <2>4. Time \/ UNCHANGED vars => task' = task
    BY DEF Time, vars
  <2>5. SubmitOrStop => (\E id \in Rows : SubmitCode(id)) \/ \E ids : task' = Cancelled(ids)
    BY DEF SubmitOrStop, Stop, StopAll
  <2> QED BY <1>3, <2>1, <2>2, <2>3, <2>4, <2>5
<1>6. \A b \in Batches : Alike(batch'[b], batch[b])
  <2>1. batch' = batch \/ batch' = Ended(batch)
    BY <1>3 DEF SubmitOrStop, SubmitCode, Stop, StopAll, Time, vars
  <2>2. batch = [b \in Batches |-> batch[b]] /\ \A b \in Batches : Whole(batch[b])
    BY DEF IInv, Shape, BatchOK, Whole
  <2>3. \A b \in Batches : Alike(Ended(batch)[b], batch[b])
    BY <2>2, EndedAlike
  <2>4. \A b \in Batches : Alike(batch[b], batch[b])
    BY DEF Alike
  <2> QED BY <2>1, <2>3, <2>4
<1>7. Used' = Used /\ Underway' = Underway
  <2>1. Registered' = Registered
    BY <1>4 DEF Registered
  <2> QED BY <1>5, <2>1, StaysSame DEF Used
<1>8. Stoppable'
  BY <1>4, <1>5, StaysSame DEF Undisturbed, Stoppable
<1>9. \A t \in Tasks : Alive(t)' => Alive(t) /\ task'[t].by = task[t].by /\ task'[t].id = task[t].id
  BY <1>5, StaysSame DEF Stays
<1> QED BY <1>4, <1>6, <1>7, <1>8, <1>9, QuietCalm

\* What becomes of the request or loop of b; nobody else's changes.
Becomes(b, n) == Alike(batch'[b], n) /\ \A c \in Batches \ {b} : Alike(batch'[c], batch[c])

\* A record that replaces the one of b.
LEMMA ReplacedBecomes ==
  ASSUME Shape, NEW b \in Batches, NEW n, batch' = [batch EXCEPT ![b] = n] PROVE Becomes(b, n)
<1>1. batch'[b] = n /\ \A c \in Batches \ {b} : batch'[c] = batch[c]
  BY DEF Shape
<1> QED BY <1>1 DEF Becomes, Alike

\* What is left of a request or loop that pauses and of one that is over.
Paused(n, b, pc) == /\ n.pc = pc /\ n.count = batch[b].count /\ n.first = FALSE /\ n.running = 0
                    /\ n.want = 0 /\ n.picked = {} /\ n.tracked = batch[b].tracked
Finished(n, b) == /\ n.pc = "over" /\ n.count = batch[b].count /\ n.first = TRUE /\ n.running = 0
                  /\ n.want = 0 /\ n.picked = {} /\ n.tracked = {}

\* A pause is a pause.
LEMMA PauseBecomes ==
  ASSUME Shape, NEW b \in Batches, NEW pc, batch' = Pause(b, pc) PROVE \E n : Becomes(b, n) /\ Paused(n, b, pc)
<1>1. PICK n : n = [Idle EXCEPT !.pc = pc, !.count = batch[b].count, !.first = FALSE,
                                      !.live = batch[b].live, !.tracked = batch[b].tracked]
  OBVIOUS
<1>2. Paused(n, b, pc)
  BY <1>1 DEF Idle, Paused
<1>3. batch' = [batch EXCEPT ![b] = n]
  BY <1>1 DEF Pause
<1> QED BY <1>2, <1>3, ReplacedBecomes

\* The next round begins with a pause.
LEMMA RoundBecomes ==
  ASSUME Shape, NEW b \in Batches, batch' = NextRound(b)
  PROVE  \E n : \E pc \in {"top", "asleep"} : Becomes(b, n) /\ Paused(n, b, pc)
<1>1. PICK pc : pc = IF platform = "grok" THEN "top" ELSE "asleep"
  OBVIOUS
<1>2. batch' = Pause(b, pc) /\ pc \in {"top", "asleep"}
  BY <1>1 DEF NextRound
<1> QED BY <1>2, PauseBecomes

\* The next round begins with a pause, and the tracked rows are those given.
LEMMA TrackedBecomes ==
  ASSUME Shape, NEW b \in Batches, NEW tracked, batch' = [NextRound(b) EXCEPT ![b].tracked = tracked]
  PROVE  \E n : /\ Becomes(b, n) /\ n.pc \in {"top", "asleep"} /\ n.count = batch[b].count /\ n.first = FALSE
                /\ n.running = 0 /\ n.want = 0 /\ n.picked = {} /\ n.tracked = tracked
<1>1. PICK pc \in {"top", "asleep"} : NextRound(b) = Pause(b, pc)
  BY DEF NextRound
<1>2. PICK n : n = [Idle EXCEPT !.pc = pc, !.count = batch[b].count, !.first = FALSE,
                                      !.live = batch[b].live, !.tracked = batch[b].tracked]
  OBVIOUS
<1>3. Whole(n) /\ n.pc = pc /\ n.count = batch[b].count /\ n.first = FALSE /\ n.running = 0 /\ n.want = 0 /\ n.picked = {}
  BY <1>2 DEF Idle, Whole
<1>4. PICK l : l = [n EXCEPT !.tracked = tracked]
  OBVIOUS
<1>5. l.pc = pc /\ l.count = batch[b].count /\ l.first = FALSE /\ l.running = 0 /\ l.want = 0 /\ l.picked = {} /\ l.tracked = tracked
  BY <1>3, <1>4 DEF Whole
<1>6. NextRound(b) = [batch EXCEPT ![b] = n]
  BY <1>1, <1>2 DEF Pause
<1>7. batch' = [batch EXCEPT ![b] = l]
  BY <1>4, <1>6 DEF Shape
<1>8. Becomes(b, l)
  BY <1>7, ReplacedBecomes
<1> QED BY <1>5, <1>8

\* A request or a loop that is over has nothing any more.
LEMMA OverBecomes ==
  ASSUME Shape, NEW b \in Batches, batch' = Over(b) \/ LoopReturns(b) PROVE \E n : Becomes(b, n) /\ Finished(n, b)
<1>1. PICK n : n = [Idle EXCEPT !.pc = "over", !.count = batch[b].count]
  OBVIOUS
<1>2. Whole(n) /\ Finished(n, b)
  BY <1>1 DEF Idle, Finished, Whole
<1>3. PICK bs : bs = [batch EXCEPT ![b] = n]
  OBVIOUS
<1>4. Over(b) = bs
  BY <1>1, <1>3 DEF Over
<1>5. bs = [c \in Batches |-> bs[c]] /\ (\A c \in Batches \ {b} : bs[c] = batch[c]) /\ bs[b] = n
  BY <1>3 DEF Shape
<1>6. \A c \in Batches : Whole(bs[c])
  BY <1>2, <1>5 DEF Shape, BatchOK, Whole
<1>7. \A c \in Batches : Alike(Ended(bs)[c], bs[c])
  BY <1>5, <1>6, EndedAlike
<1>8. batch' = bs \/ batch' = Ended(bs)
  BY <1>4 DEF LoopReturns
<1>9. \A c \in Batches : Alike(batch'[c], bs[c])
  BY <1>7, <1>8 DEF Alike
<1>10. Becomes(b, n)
  BY <1>5, <1>9 DEF Becomes
<1> QED BY <1>2, <1>10

\* Only the place, the list or a count changes.
FieldsSet(b, pc, todo, running) ==
    \/ batch' = [batch EXCEPT ![b].pc = pc] /\ running = batch[b].running
    \/ batch' = [batch EXCEPT ![b].pc = pc, ![b].todo = todo] /\ running = batch[b].running
    \/ (\E h : batch' = [batch EXCEPT ![b].todo = todo, ![b].held = h]) /\ pc = batch[b].pc /\ running = batch[b].running
    \/ batch' = [batch EXCEPT ![b].pc = pc, ![b].running = running]

\* The rest of the request is as it was.
LEMMA FieldBecomes ==
  ASSUME Shape, NEW b \in Batches, NEW pc, NEW todo, NEW running, FieldsSet(b, pc, todo, running)
  PROVE  \E n : /\ Becomes(b, n) /\ n.pc = pc /\ n.count = batch[b].count /\ n.first = batch[b].first
                /\ n.running = running /\ n.want = batch[b].want /\ n.picked = batch[b].picked /\ n.tracked = batch[b].tracked
<1>1. PICK c : c = batch[b]
  OBVIOUS
<1>2. Whole(c)
  BY <1>1 DEF Shape, BatchOK, Whole
<1>3. PICK n1, n2, n4 : /\ n1 = [c EXCEPT !.pc = pc] /\ n2 = [c EXCEPT !.pc = pc, !.todo = todo]
                        /\ n4 = [c EXCEPT !.pc = pc, !.running = running]
  OBVIOUS
<1>4. \E n :
           /\ batch' = [batch EXCEPT ![b] = n] /\ n.pc = pc /\ n.count = c.count /\ n.first = c.first
           /\ n.running = running /\ n.want = c.want /\ n.picked = c.picked /\ n.tracked = c.tracked
  <2>1. CASE batch' = [batch EXCEPT ![b].pc = pc] /\ running = batch[b].running
    <3>1. batch' = [batch EXCEPT ![b] = n1]
      BY <1>1, <1>3, <2>1 DEF Shape
    <3>2. n1.pc = pc /\ n1.count = c.count /\ n1.first = c.first /\ n1.running = running /\ n1.want = c.want
          /\ n1.picked = c.picked /\ n1.tracked = c.tracked
      BY <1>1, <1>2, <1>3, <2>1 DEF Whole
    <3> QED BY <3>1, <3>2
  <2>2. CASE batch' = [batch EXCEPT ![b].pc = pc, ![b].todo = todo] /\ running = batch[b].running
    <3>1. batch' = [batch EXCEPT ![b] = n2]
      BY <1>1, <1>3, <2>2 DEF Shape
    <3>2. n2.pc = pc /\ n2.count = c.count /\ n2.first = c.first /\ n2.running = running /\ n2.want = c.want
          /\ n2.picked = c.picked /\ n2.tracked = c.tracked
      BY <1>1, <1>2, <1>3, <2>2 DEF Whole
    <3> QED BY <3>1, <3>2
  <2>3. CASE (\E h : batch' = [batch EXCEPT ![b].todo = todo, ![b].held = h]) /\ pc = batch[b].pc /\ running = batch[b].running
    <3>0. PICK h : batch' = [batch EXCEPT ![b].todo = todo, ![b].held = h]
      BY <2>3
    <3>9. PICK n3 : n3 = [c EXCEPT !.todo = todo, !.held = h]
      OBVIOUS
    <3>1. batch' = [batch EXCEPT ![b] = n3]
      BY <1>1, <2>3, <3>0, <3>9 DEF Shape
    <3>2. n3.pc = pc /\ n3.count = c.count /\ n3.first = c.first /\ n3.running = running /\ n3.want = c.want
          /\ n3.picked = c.picked /\ n3.tracked = c.tracked
      BY <1>1, <1>2, <2>3, <3>9 DEF Whole
    <3> QED BY <3>1, <3>2
  <2>4. CASE batch' = [batch EXCEPT ![b].pc = pc, ![b].running = running]
    <3>1. batch' = [batch EXCEPT ![b] = n4]
      BY <1>1, <1>3, <2>4 DEF Shape
    <3>2. n4.pc = pc /\ n4.count = c.count /\ n4.first = c.first /\ n4.running = running /\ n4.want = c.want
          /\ n4.picked = c.picked /\ n4.tracked = c.tracked
      BY <1>1, <1>2, <1>3, <2>4 DEF Whole
    <3> QED BY <3>1, <3>2
  <2> QED BY <2>1, <2>2, <2>3, <2>4 DEF FieldsSet
<1> QED BY <1>1, <1>4, ReplacedBecomes

\* More is asked for.
Asks(b, want, found, count) ==
    \/ batch' = Asking(b, want, found) /\ count = batch[b].count
    \/ batch' = [Asking(b, want, found) EXCEPT ![b].count = count]

\* A request that asks has nothing claimed yet.
LEMMA AskingBecomes ==
  ASSUME Shape, NEW b \in Batches, NEW want, NEW found, NEW count, Asks(b, want, found, count)
  PROVE  \E n : /\ Becomes(b, n) /\ n.pc = "accounts" /\ n.count = count /\ n.first = batch[b].first
                /\ n.running = batch[b].running /\ n.want = want /\ n.picked = {} /\ n.tracked = batch[b].tracked
<1>1. PICK c : c = batch[b]
  OBVIOUS
<1>2. Whole(c)
  BY <1>1 DEF Shape, BatchOK, Whole
<1>3. PICK k : k = [c EXCEPT !.pc = "accounts", !.want = want, !.todo = found, !.held = Nothing, !.picked = {}]
  OBVIOUS
<1>4. Whole(k) /\ k.pc = "accounts" /\ k.count = c.count /\ k.first = c.first /\ k.running = c.running
      /\ k.want = want /\ k.picked = {} /\ k.tracked = c.tracked
  BY <1>2, <1>3 DEF Whole
<1>5. Asking(b, want, found) = [batch EXCEPT ![b] = k]
  BY <1>1, <1>3 DEF Asking, Shape
<1>6. CASE batch' = Asking(b, want, found) /\ count = batch[b].count
  <2>1. batch' = [batch EXCEPT ![b] = k]
    BY <1>5, <1>6
  <2> QED BY <1>1, <1>4, <1>6, <2>1, ReplacedBecomes
<1>7. CASE batch' = [Asking(b, want, found) EXCEPT ![b].count = count]
  <2>1. PICK l : l = [k EXCEPT !.count = count]
    OBVIOUS
  <2>2. l.pc = "accounts" /\ l.count = count /\ l.first = c.first /\ l.running = c.running
        /\ l.want = want /\ l.picked = {} /\ l.tracked = c.tracked
    BY <1>4, <2>1 DEF Whole
  <2>3. batch' = [batch EXCEPT ![b] = l]
    BY <1>5, <1>7, <2>1 DEF Shape
  <2> QED BY <1>1, <2>2, <2>3, ReplacedBecomes
<1> QED BY <1>6, <1>7 DEF Asks

\* Whoever is not idle is alone, and the tasks are its own.
LEMMA OnlyOne ==
  ASSUME Undisturbed, NEW b \in Batches, batch[b].pc # "idle"
  PROVE  /\ \A c \in Batches \ {b} : batch[c].pc = "idle"
         /\ \A t \in Tasks : Alive(t) => task[t].by = b
BY DEF Undisturbed, OneBatch

\* What one batch turns into.
LEMMA TurnsCalm ==
  ASSUME Undisturbed, NEW b \in Batches, NEW n, Becomes(b, n), \A c \in Batches \ {b} : batch[c].pc = "idle",
         n.pc # "idle", Fits(n)', start' = start, Stoppable', runTracked' \subseteq Rows,
         adrift' # {} => n.pc = "over",
         Used' # {} => n.pc = "over" \/ ~n.first,
         \A t \in Tasks : Alive(t)' => task'[t].by = b /\ task'[t].id \notin adrift'
  PROVE  Undisturbed'
<1>1. batch'[b].pc = n.pc /\ (batch'[b].first <=> n.first)
  BY DEF Becomes, Alike
<1>2. \A c \in Batches \ {b} : batch'[c].pc = "idle"
  BY DEF Becomes, Alike
<1>3. OneBatch'
  <2>1. (\A c, d \in Batches : batch[c].pc # "idle" /\ batch[d].pc # "idle" => c = d)'
    BY <1>2
  <2>2. (adrift # {} => \E c \in Batches : batch[c].pc = "over")'
    BY <1>1
  <2>3. (Used # {} => \E c \in Batches : batch[c].pc = "over" \/ ~batch[c].first)'
    BY <1>1
  <2>4. (\A t \in Tasks : Alive(t) => /\ task[t].by \in Batches /\ batch[task[t].by].pc # "idle"
                                      /\ task[t].id \notin adrift)'
    BY <1>1
  <2>5. start' = Nothing
    BY DEF Undisturbed, OneBatch
  <2> QED BY <2>1, <2>2, <2>3, <2>4, <2>5 DEF OneBatch
<1>4. ASSUME NEW c \in Batches PROVE Fits(batch[c])'
  <2>1. CASE c = b
    <3>1. PICK m : m = batch'[b]
      OBVIOUS
    <3>2. Alike(m, n)
      BY <3>1 DEF Becomes
    <3>3. Fits(m)'
      BY <3>2 DEF Fits, Alike
    <3> QED BY <2>1, <3>1, <3>3 DEF Fits
  <2>2. CASE c # b
    <3>1. Fits(batch[c]) /\ batch[c].pc = "idle"
      BY <2>2 DEF Undisturbed
    <3>2. Alike(batch'[c], batch[c])
      BY <2>2 DEF Becomes
    <3>3. PICK m : m = batch'[c]
      OBVIOUS
    <3>4. /\ m.pc = "idle" /\ m.first /\ m.count \in Nat /\ m.want \in Nat /\ m.running \in Nat /\ m.tracked \subseteq Rows
      BY <3>1, <3>2, <3>3 DEF Fits, Alike
    <3>5. Fits(m)'
      BY <3>4 DEF Fits, Claiming
    <3> QED BY <3>3, <3>5 DEF Fits
  <2> QED BY <2>1, <2>2
<1> QED BY <1>3, <1>4 DEF Undisturbed

\* While a batch goes on no row is adrift, and its request has nothing running.
LEMMA NothingYet ==
  ASSUME Undisturbed, NEW b \in Batches, batch[b].pc \notin {"idle", "over"}
  PROVE  adrift = {} /\ (batch[b].first => Used = {})
<1>1. \A c \in Batches \ {b} : batch[c].pc = "idle"
  BY OnlyOne
<1>2. adrift = {}
  BY <1>1 DEF Undisturbed, OneBatch
<1>3. ASSUME Used # {} PROVE ~batch[b].first
  <2>1. PICK c \in Batches : batch[c].pc = "over" \/ ~batch[c].first
    BY <1>3 DEF Undisturbed, OneBatch
  <2>2. c = b
    <3>1. ASSUME c # b PROVE FALSE
      <4>1. batch[c].pc = "idle" /\ Fits(batch[c])
        BY <1>1, <3>1 DEF Undisturbed
      <4> QED BY <2>1, <4>1 DEF Fits
    <3> QED BY <3>1
  <2> QED BY <2>1, <2>2
<1> QED BY <1>2, <1>3

\* A turn that starts nothing and claims nothing.
LEMMA RoundCalm ==
  ASSUME Undisturbed, NEW b \in Batches, NEW n, Becomes(b, n), batch[b].pc \notin {"idle", "over"},
         n.pc # "idle", Fits(n), n.first /\ n.pc # "over" => batch[b].first,
         UNCHANGED <<row, task, cancel, start, runTracked, adrift>>
  PROVE  Undisturbed'
<1>1. (\A c \in Batches \ {b} : batch[c].pc = "idle") /\ \A t \in Tasks : Alive(t) => task[t].by = b
  BY OnlyOne
<1>2. Used' = Used /\ Underway' = Underway
  BY DEF Used, Registered, Underway, Runs
<1>3. Fits(n)'
  BY <1>2 DEF Fits
<1>4. Stoppable'
  BY DEF Undisturbed, Stoppable, Entered
<1>5. adrift = {}
  BY NothingYet
<1>6. Used # {} => ~batch[b].first
  BY NothingYet
<1>7. \A t \in Tasks : Alive(t)' => task'[t].by = b /\ task'[t].id \notin adrift'
  BY <1>1, <1>5 DEF Alive
<1>8. adrift' # {} => n.pc = "over"
  BY <1>5
<1>9. Used' # {} => n.pc = "over" \/ ~n.first
  BY <1>2, <1>6
<1>10. runTracked' \subseteq Rows
  BY DEF Undisturbed
<1> QED BY <1>1, <1>3, <1>4, <1>7, <1>8, <1>9, <1>10, TurnsCalm

\* A pause has room for nothing, and nothing more is asked for when it is over.
LEMMA PausedFits ==
  ASSUME Undisturbed, NEW b \in Batches, NEW n, NEW pc \in {"top", "asleep", "cooling"}, Paused(n, b, pc),
         ~batch[b].first, batch[b].pc # "enter"
  PROVE  Fits(n)
<1>1. Fits(batch[b])
  BY DEF Undisturbed
<1>2. n.pc \notin Claiming
  BY DEF Paused, Claiming
<1> QED BY <1>1, <1>2 DEF Paused, Fits

\* Neither has one that is over.
LEMMA FinishedFits ==
  ASSUME Undisturbed, NEW b \in Batches, NEW n, Finished(n, b), batch[b].pc # "idle" PROVE Fits(n)
<1>1. Fits(batch[b])
  BY DEF Undisturbed
<1>2. n.pc \notin Claiming
  BY DEF Finished, Claiming
<1> QED BY <1>1, <1>2 DEF Finished, Fits

\* The count of registered rows and the count of running tasks cover what is used.
LEMMA FilledCovers ==
  ASSUME Undisturbed, NEW b \in Batches, batch[b].pc = "counting", ~batch[b].first
  PROVE  Filled(b) \in Nat /\ Cardinality(Used) <= Filled(b)
<1>1. Fits(batch[b])
  BY DEF Undisturbed
<1> DEFINE done == {id \in batch[b].tracked : row[id].status = "registered"}
<1>2. Used \subseteq batch[b].tracked /\ batch[b].tracked \subseteq Rows /\ batch[b].running \in Nat
      /\ Cardinality(Underway) <= batch[b].running
  BY <1>1 DEF Fits
<1>3. Used = done \cup Underway
  BY <1>2 DEF Used, Registered, Underway
<1>4. done \subseteq Rows
  BY <1>2
<1>5. IsFiniteSet(done) /\ Cardinality(done) \in Nat
  <2>1. IsFiniteSet(Rows)
    BY UsedFinite
  <2> HIDE DEF done
  <2> QED BY <1>4, <2>1, Smaller
<1>6. IsFiniteSet(Underway) /\ Cardinality(Underway) \in Nat /\ Cardinality(Used) \in Nat
  BY UsedFinite
<1>7. Cardinality(Used) <= Cardinality(done) + Cardinality(Underway)
  <2> HIDE DEF done
  <2>1. Cardinality(done \cup Underway) = Cardinality(done) + Cardinality(Underway) - Cardinality(done \cap Underway)
    BY <1>5, <1>6, FS_Union
  <2>2. done \cap Underway \subseteq done
    OBVIOUS
  <2>3. Cardinality(done \cap Underway) \in Nat
    BY <1>5, <2>2, Smaller
  <2> QED BY <1>3, <1>5, <1>6, <2>1, <2>3
<1>8. Filled(b) = Cardinality(done) + batch[b].running
  BY DEF Filled, CountRegistered
<1> QED BY <1>2, <1>5, <1>6, <1>7, <1>8

\* When the loop wakes, every task that works is counted as running.
LEMMA RunningCovers ==
  ASSUME Undisturbed, NEW b \in Batches, batch[b].pc # "idle", \A t \in Tasks : task[t].by = b => task[t].pc # "spawned",
         \A t \in Tasks : Runs(t) => task[t].id \in Rows
  PROVE  RunningNum \in Nat /\ Cardinality(Underway) <= RunningNum
<1> DEFINE running == {id \in Rows : cancel[id] # 0}
<1>1. Underway \subseteq running
  <2>1. SUFFICES ASSUME NEW t \in Tasks, Runs(t), NEW id \in Rows, task[t].id = id PROVE cancel[id] # 0
    BY DEF Underway
  <2>2. Alive(t)
    BY <2>1 DEF Runs, Alive, Working
  <2>3. task[t].by = b
    BY <2>2, OnlyOne
  <2>4. Entered(id)
    BY <2>1, <2>2, <2>3 DEF Entered, Alive
  <2> QED BY <2>4 DEF Undisturbed, Stoppable
<1>2. IsFiniteSet(running)
  <2>1. IsFiniteSet(Rows)
    BY UsedFinite
  <2>2. running \subseteq Rows
    OBVIOUS
  <2> HIDE DEF running
  <2> QED BY <2>1, <2>2, Smaller
<1>3. RunningNum = Cardinality(running)
  BY DEF RunningNum
<1> HIDE DEF running
<1> QED BY <1>1, <1>2, <1>3, Smaller

\* A loop that pauses leaves room.
LEMMA PauseCalm ==
  ASSUME IInv, Undisturbed, NEW b \in Batches, ~batch[b].first, batch[b].pc \notin {"idle", "over", "enter"},
         UNCHANGED <<row, task, cancel, start, runTracked, adrift>>,
         batch' = NextRound(b) \/ batch' = Pause(b, "cooling")
  PROVE  Undisturbed'
<1>1. PICK n : \E pc \in {"top", "asleep", "cooling"} : Becomes(b, n) /\ Paused(n, b, pc)
  BY RoundBecomes, PauseBecomes DEF IInv
<1>2. Becomes(b, n) /\ Fits(n) /\ n.pc # "idle" /\ ~n.first
  BY <1>1, PausedFits DEF Paused
<1> QED BY <1>2, RoundCalm

\* So does a request or a loop that is over.
LEMMA OverCalm ==
  ASSUME IInv, Undisturbed, NEW b \in Batches, batch[b].pc \notin {"idle", "over"},
         UNCHANGED <<row, task, cancel, start, runTracked, adrift>>,
         batch' = Over(b) \/ LoopReturns(b)
  PROVE  Undisturbed'
<1>1. PICK n : Becomes(b, n) /\ Finished(n, b)
  BY OverBecomes DEF IInv
<1>2. Fits(n) /\ n.pc = "over"
  BY <1>1, FinishedFits DEF Finished
<1> QED BY <1>1, <1>2, RoundCalm

\* The loop wakes and counts the running tasks.
LEMMA WakeCalm == ASSUME IInv, Undisturbed, NEW b \in Batches, Wake(b) PROVE Undisturbed'
<1>1. UNCHANGED <<row, task, cancel, start, runTracked, adrift>> /\ batch[b].pc = "asleep"
  BY DEF Wake, LoopOnly, history
<1>2. Fits(batch[b]) /\ ~batch[b].first
  BY <1>1 DEF Undisturbed, Fits, Claiming
<1>3. CASE LoopReturns(b)
  BY <1>1, <1>3, OverCalm
<1>4. CASE batch[b].live /\ \A t \in Tasks : task[t].by = b => task[t].pc # "spawned"
  <2>1. PICK running : running = RunningNum
    OBVIOUS
  <2>2. batch' = [batch EXCEPT ![b].pc = "counting", ![b].running = running]
    BY <1>4, <2>1 DEF Wake
  <2>3. PICK pc : pc = "counting"
    OBVIOUS
  <2>4. PICK n : /\ Becomes(b, n) /\ n.pc = pc /\ n.count = batch[b].count /\ n.first = batch[b].first
                 /\ n.running = running /\ n.want = batch[b].want /\ n.picked = batch[b].picked /\ n.tracked = batch[b].tracked
    <3>1. PICK todo : todo = {}
      OBVIOUS
    <3>2. FieldsSet(b, pc, todo, running)
      BY <2>2, <2>3 DEF FieldsSet
    <3> QED BY <3>2, FieldBecomes DEF IInv
  <2>5. \A t \in Tasks : Runs(t) => task[t].id \in Rows
    BY DEF Runs, Working, IInv, Shape, TaskOK
  <2>6. running \in Nat /\ Cardinality(Underway) <= running
    BY <1>1, <1>4, <2>1, <2>5, RunningCovers
  <2>7. Fits(n)
    BY <1>1, <1>2, <2>3, <2>4, <2>6 DEF Fits, Claiming
  <2> QED BY <1>1, <1>2, <2>3, <2>4, <2>7, RoundCalm
<1> QED BY <1>3, <1>4 DEF Wake

\* What it asks for is what the count and the registered rows leave.
LEMMA DecideCalm == ASSUME IInv, Undisturbed, NEW b \in Batches, NEW found, Decide(b, found) PROVE Undisturbed'
<1>1. UNCHANGED <<row, task, cancel, start, runTracked, adrift>> /\ batch[b].pc = "counting"
  BY DEF Decide, LoopOnly, history
<1>2. Fits(batch[b]) /\ ~batch[b].first
  BY <1>1 DEF Undisturbed, Fits, Claiming
<1>3. CASE LoopReturns(b)
  BY <1>1, <1>3, OverCalm
<1>4. CASE batch' = NextRound(b)
  BY <1>1, <1>2, <1>4, PauseCalm
<1>5. CASE batch' = Asking(b, Short(b), found) /\ Filled(b) < batch[b].count /\ batch[b].running < Limit
  <2>1. PICK want : want = Short(b)
    OBVIOUS
  <2>2. PICK n : /\ Becomes(b, n) /\ n.pc = "accounts" /\ n.count = batch[b].count /\ n.first = batch[b].first
                 /\ n.running = batch[b].running /\ n.want = want /\ n.picked = {} /\ n.tracked = batch[b].tracked
    <3>1. PICK count : count = batch[b].count
      OBVIOUS
    <3>2. Asks(b, want, found, count)
      BY <1>5, <2>1, <3>1 DEF Asks
    <3> QED BY <3>1, <3>2, AskingBecomes DEF IInv
  <2>3. Filled(b) \in Nat /\ Cardinality(Used) <= Filled(b) /\ Cardinality(Used) \in Nat
    BY <1>1, <1>2, FilledCovers, UsedFinite
  <2>4. batch[b].count \in Nat /\ batch[b].running \in Nat /\ Limit \in Nat
    BY <1>2, AccountAssumption DEF Fits
  <2>5. want \in Nat /\ want <= batch[b].count - Filled(b)
    BY <1>5, <2>1, <2>3, <2>4 DEF Short, Min2
  <2>6. Cardinality(Used) + want <= batch[b].count
    BY <2>3, <2>4, <2>5
  <2>7. Cardinality({}) = 0
    BY FS_EmptySet
  <2>8. Fits(n)
    BY <1>1, <1>2, <2>2, <2>5, <2>6, <2>7 DEF Fits, Claiming
  <2> QED BY <1>1, <1>2, <2>2, <2>8, RoundCalm
<1>6. \/ LoopReturns(b) \/ batch' = NextRound(b)
      \/ batch' = Asking(b, Short(b), found) /\ Filled(b) < batch[b].count /\ batch[b].running < Limit
  <2>1. Filled(b) \in Nat /\ batch[b].running \in Nat /\ batch[b].count \in Nat /\ Limit \in Nat
    BY <1>1, <1>2, FilledCovers, AccountAssumption DEF Fits
  <2> QED BY <2>1 DEF Decide
<1> QED BY <1>3, <1>4, <1>5, <1>6

\* The loop begins where the request ended.
LEMMA BeginTopUpCalm == ASSUME IInv, Undisturbed, NEW b \in Batches, BeginTopUp(b) PROVE Undisturbed'
<1>1. UNCHANGED <<row, task, cancel, start, runTracked, adrift>> /\ batch[b].pc = "enter"
  BY DEF BeginTopUp, history
<1>2. Fits(batch[b]) /\ ~batch[b].first
  BY <1>1 DEF Undisturbed, Fits, Claiming
<1>3. CASE batch' = Over(b)
  BY <1>1, <1>3, OverCalm
<1>4. CASE batch' = [NextRound(b) EXCEPT ![b].tracked = runTracked]
  <2>1. PICK n : /\ Becomes(b, n) /\ n.pc \in {"top", "asleep"} /\ n.count = batch[b].count /\ n.first = FALSE
                 /\ n.running = 0 /\ n.want = 0 /\ n.picked = {} /\ n.tracked = runTracked
    BY <1>4, TrackedBecomes DEF IInv
  <2>2. n.pc \notin Claiming \cup {"idle", "counting"}
    BY <2>1 DEF Claiming
  <2>3. runTracked \subseteq Rows
    BY DEF Undisturbed
  <2>4. Fits(n)
    BY <1>1, <1>2, <2>1, <2>2, <2>3 DEF Fits
  <2> QED BY <1>1, <2>1, <2>2, <2>4, RoundCalm
<1> QED BY <1>3, <1>4 DEF BeginTopUp

\* Every step of a loop that has nothing claimed leaves room.
LEMMA LoopCalm == ASSUME IInv, Undisturbed, NEW b \in Batches, LoopStep(b) PROVE Undisturbed'
<1>1. CASE BeginTopUp(b) \/ Wake(b) \/ \E found : Offered(found) /\ Decide(b, found)
  BY <1>1, BeginTopUpCalm, WakeCalm, DecideCalm
<1>2. ASSUME LoopTop(b) \/ CoolingOver(b) \/ \E cooling \in BOOLEAN : NothingClaimed(b, cooling)
      PROVE  /\ UNCHANGED <<row, task, cancel, start, runTracked, adrift>>
             /\ batch[b].pc \in {"top", "cooling", "accounts", "pool"} /\ ~batch[b].first
             /\ \/ LoopReturns(b) \/ batch' = NextRound(b) \/ batch' = Pause(b, "cooling")
                \/ batch' = [batch EXCEPT ![b].pc = "asleep"] /\ batch[b].pc = "top"
  <2>1. UNCHANGED <<row, task, cancel, start, runTracked, adrift>>
    BY <1>2 DEF LoopTop, CoolingOver, NothingClaimed, LoopOnly, history
  <2>2. batch[b].pc \in {"top", "cooling", "accounts", "pool"}
    BY <1>2 DEF LoopTop, CoolingOver, NothingClaimed, ClaimsOver
  <2>3. ~batch[b].first
    BY <1>2 DEF LoopTop, CoolingOver, NothingClaimed, Undisturbed, Fits, Claiming
  <2>4. LoopTop(b) => LoopReturns(b) \/ (batch' = [batch EXCEPT ![b].pc = "asleep"] /\ batch[b].pc = "top")
    BY DEF LoopTop
  <2>5. CoolingOver(b) => batch' = NextRound(b) \/ LoopReturns(b)
    BY DEF CoolingOver
  <2>6. (\E cooling \in BOOLEAN : NothingClaimed(b, cooling)) => LoopReturns(b) \/ batch' = NextRound(b) \/ batch' = Pause(b, "cooling")
    BY DEF NothingClaimed
  <2> QED BY <1>2, <2>1, <2>2, <2>3, <2>4, <2>5, <2>6
<1>3. CASE LoopTop(b) \/ CoolingOver(b) \/ \E cooling \in BOOLEAN : NothingClaimed(b, cooling)
  <2>1. CASE LoopReturns(b)
    BY <1>2, <1>3, <2>1, OverCalm
  <2>2. CASE batch' = NextRound(b) \/ batch' = Pause(b, "cooling")
    BY <1>2, <1>3, <2>2, PauseCalm
  <2>3. CASE batch' = [batch EXCEPT ![b].pc = "asleep"] /\ batch[b].pc = "top"
    <3>1. PICK pc, running : pc = "asleep" /\ running = batch[b].running
      OBVIOUS
    <3>2. PICK n : /\ Becomes(b, n) /\ n.pc = pc /\ n.count = batch[b].count /\ n.first = batch[b].first
                   /\ n.running = running /\ n.want = batch[b].want /\ n.picked = batch[b].picked /\ n.tracked = batch[b].tracked
      <4>1. PICK todo : todo = {}
        OBVIOUS
      <4>2. FieldsSet(b, pc, todo, running)
        BY <2>3, <3>1 DEF FieldsSet
      <4> QED BY <4>2, FieldBecomes DEF IInv
    <3>3. Fits(batch[b])
      BY DEF Undisturbed
    <3>4. Fits(n)
      BY <1>2, <1>3, <2>3, <3>1, <3>2, <3>3 DEF Fits, Claiming
    <3> QED BY <1>2, <1>3, <3>1, <3>2, <3>4, RoundCalm
  <2> QED BY <1>2, <1>3, <2>1, <2>2, <2>3
<1> QED BY <1>1, <1>3 DEF LoopStep

-----------------------------------------------------------------------------
(* Requests and claims of a batch left to itself.                          *)

\* A claim's list is passed on, or shortened by an address whose row is read.
LEMMA ListCalm ==
  ASSUME IInv, Undisturbed, NEW b \in Batches, batch[b].pc \in Claiming, NEW pc \in Claiming, NEW todo,
         \/ batch' = [batch EXCEPT ![b].pc = pc, ![b].todo = todo]
         \/ (\E h : batch' = [batch EXCEPT ![b].todo = todo, ![b].held = h]) /\ pc = batch[b].pc,
         UNCHANGED <<row, task, cancel, start, runTracked, adrift>>
  PROVE  Undisturbed'
<1>1. PICK running : running = batch[b].running
  OBVIOUS
<1>2. FieldsSet(b, pc, todo, running)
  BY <1>1 DEF FieldsSet
<1>3. PICK n : /\ Becomes(b, n) /\ n.pc = pc /\ n.count = batch[b].count /\ n.first = batch[b].first
               /\ n.running = running /\ n.want = batch[b].want /\ n.picked = batch[b].picked /\ n.tracked = batch[b].tracked
  BY <1>2, FieldBecomes DEF IInv
<1>4. Fits(batch[b])
  BY DEF Undisturbed
<1>5. Fits(n)
  BY <1>1, <1>3, <1>4 DEF Fits, Claiming
<1>6. batch[b].pc \notin {"idle", "over"} /\ n.pc # "idle"
  BY <1>3 DEF Claiming
<1> QED BY <1>3, <1>5, <1>6, RoundCalm

\* The pool comes after the accounts.
LEMMA PoolCalm == ASSUME IInv, Undisturbed, NEW b \in Batches, NEW found, ClaimPool(b, found) PROVE Undisturbed'
<1>1. /\ batch' = [batch EXCEPT ![b].pc = "pool", ![b].todo = found] /\ batch[b].pc \in Claiming
      /\ UNCHANGED <<row, task, cancel, start, runTracked, adrift>>
  BY DEF ClaimPool, Claiming, progress, history
<1>2. PICK pc : pc = "pool"
  OBVIOUS
<1>3. batch' = [batch EXCEPT ![b].pc = pc, ![b].todo = found] /\ pc \in Claiming
  BY <1>1, <1>2 DEF Claiming
<1> QED BY <1>1, <1>3, ListCalm

\* The row of the next address is read.
LEMMA ReadCalm == ASSUME IInv, Undisturbed, NEW b \in Batches, NEW skipped, ClaimRead(b, skipped) PROVE Undisturbed'
<1>1. PICK e, todo, h, pc : /\ e = LeastOf(batch[b].todo) /\ todo = batch[b].todo \ {e} /\ pc = batch[b].pc
                            /\ h = IF e \in skipped THEN Nothing ELSE Found(e)
  OBVIOUS
<1>2. /\ batch[b].pc \in Claiming /\ batch' = [batch EXCEPT ![b].todo = todo, ![b].held = h]
      /\ UNCHANGED <<row, task, cancel, start, runTracked, adrift>>
  BY <1>1 DEF ClaimRead, Claiming, progress, history
<1> QED BY <1>1, <1>2, ListCalm

\* Whoever is registered is not about to be written over.
NotTaken == \A b \in Batches :
    batch[b].pc \in Claiming /\ batch[b].held # Nothing /\ IdFor(batch[b].held) \in Rows
        => row[IdFor(batch[b].held)].status # "registered"

\* A row that is claimed has nobody, and the request wanted one more.
LEMMA ClaimCalm ==
  ASSUME IInv, Undisturbed, NotTaken, twin' = {}, NEW b \in Batches, NEW keeps \in BOOLEAN, ClaimSave(b, keeps)
  PROVE  Undisturbed'
<1>1. PICK h : h = batch[b].held
  OBVIOUS
<1>3. /\ batch[b].pc \in Claiming /\ ~Enough(b) /\ h # Nothing /\ UNCHANGED <<task, cancel, start, runTracked, adrift>>
  BY <1>1 DEF ClaimSave, Claiming, progress
<1>5. PICK id : id = IdFor(h)
  OBVIOUS
<1>6. PICK box : Save(h, box, keeps)
  BY <1>1 DEF ClaimSave
<1>7. Saved(id, h, keeps)
  <2>1. RowOK(h.old)
    BY <1>1 DEF IInv, Shape, BatchOK
  <2> QED BY <1>5, <1>6, <2>1, SaveWrites DEF IInv
<1>8. PICK picked : picked = batch[b].picked \cup {id}
  OBVIOUS
<1>9. batch' = [batch EXCEPT ![b].held = Nothing, ![b].picked = picked]
  BY <1>1, <1>5, <1>8 DEF ClaimSave
<1>10. PICK c : c = batch[b]
  OBVIOUS
<1>11. Whole(c) /\ Fits(c) /\ c.picked \subseteq Rows
  BY <1>10 DEF IInv, Shape, BatchOK, Whole, Undisturbed
<1>12. PICK n : n = [c EXCEPT !.held = Nothing, !.picked = picked]
  OBVIOUS
<1>13. n.pc = c.pc /\ n.count = c.count /\ n.first = c.first /\ n.running = c.running /\ n.want = c.want
       /\ n.picked = picked /\ n.tracked = c.tracked
  BY <1>11, <1>12 DEF Whole
<1>14. batch' = [batch EXCEPT ![b] = n]
  BY <1>9, <1>10, <1>12 DEF IInv, Shape
<1>15. Becomes(b, n)
  BY <1>14, ReplacedBecomes DEF IInv
<1>16. Used' = Used /\ Underway' = Underway
  <2>1. Underway' = Underway
    BY <1>3 DEF Underway, Runs
  <2>2. id \in Rows /\ row'[id].status # "registered" /\ \A x \in Rows \ {id} : row'[x] = row[x]
    BY <1>7 DEF Saved
  <2>3. row[id].status # "registered"
    BY <1>1, <1>3, <1>5, <2>2 DEF NotTaken
  <2>4. Registered' = Registered
    BY <2>2, <2>3 DEF Registered
  <2> QED BY <2>1, <2>4 DEF Used
<1>17. Cardinality(picked) <= c.want
  <2>1. IsFiniteSet(c.picked) /\ Cardinality(c.picked) \in Nat
    BY <1>11, UsedFinite, Smaller
  <2>2. id \notin c.picked
    BY <1>3, <1>7, <1>10 DEF Saved, Claims
  <2>3. Cardinality(picked) = Cardinality(c.picked) + 1
    BY <1>8, <1>10, <2>1, <2>2, FS_AddElement
  <2>4. ~(Cardinality(c.picked) >= c.want) /\ c.want \in Nat
    BY <1>3, <1>10, <1>11 DEF Enough, Fits
  <2> QED BY <2>1, <2>3, <2>4
<1>18. Fits(n)'
  BY <1>3, <1>10, <1>11, <1>13, <1>16, <1>17 DEF Fits, Claiming
<1>19. batch[b].pc \notin {"idle", "over"}
  BY <1>3 DEF Claiming
<1>20. adrift = {} /\ (batch[b].first => Used = {})
  BY <1>19, NothingYet
<1>21. (\A d \in Batches \ {b} : batch[d].pc = "idle") /\ \A t \in Tasks : Alive(t) => task[t].by = b
  BY <1>19, OnlyOne
<1>22. Stoppable' /\ runTracked' \subseteq Rows
  BY <1>3 DEF Undisturbed, Stoppable, Entered
<1>23. \A t \in Tasks : Alive(t)' => task'[t].by = b /\ task'[t].id \notin adrift'
  BY <1>3, <1>20, <1>21 DEF Alive
<1>24. n.pc # "idle" /\ adrift' = {} /\ (Used' # {} => ~n.first)
  BY <1>3, <1>10, <1>13, <1>16, <1>19, <1>20
<1> QED BY <1>3, <1>15, <1>18, <1>21, <1>22, <1>23, <1>24, TurnsCalm

\* What was claimed before a statement fails has no task.
LEMMA FailsCalm == ASSUME IInv, Undisturbed, twin = {}, NEW b \in Batches, ClaimFails(b) PROVE Undisturbed'
<1>1. /\ batch[b].pc \in Claiming /\ UNCHANGED <<row, task, cancel, start, runTracked>>
      /\ adrift' = adrift \cup batch[b].picked /\ (batch' = Over(b) \/ LoopReturns(b))
  BY DEF ClaimFails, Claiming
<1>2. batch[b].pc \notin {"idle", "over"}
  BY <1>1 DEF Claiming
<1>3. PICK n : Becomes(b, n) /\ Finished(n, b)
  BY <1>1, OverBecomes DEF IInv
<1>4. n.pc = "over" /\ Fits(n)
  BY <1>2, <1>3, FinishedFits DEF Finished
<1>5. Used' = Used /\ Underway' = Underway
  BY <1>1 DEF Used, Registered, Underway, Runs
<1>6. Fits(n)'
  BY <1>1, <1>4, <1>5 DEF Fits
<1>7. (\A d \in Batches \ {b} : batch[d].pc = "idle") /\ \A t \in Tasks : Alive(t) => task[t].by = b
  BY <1>2, OnlyOne
<1>8. Stoppable' /\ runTracked' \subseteq Rows
  BY <1>1 DEF Undisturbed, Stoppable, Entered
<1>9. ASSUME NEW t \in Tasks, Alive(t)' PROVE task'[t].by = b /\ task'[t].id \notin adrift'
  <2>1. Alive(t) /\ task'[t] = task[t]
    BY <1>1, <1>9 DEF Alive
  <2>2. task[t].id \in Rows /\ adrift = {}
    BY <1>2, <2>1, NothingYet DEF IInv, Shape, TaskOK, Alive
  <2>3. Alone(task[t].id)
    BY <2>2 DEF IInv
  <2>4. task[t].id \notin Claims(b)
    BY <2>1, <2>3 DEF Alone
  <2> QED BY <1>1, <1>7, <2>1, <2>2, <2>4 DEF Claims
<1> QED BY <1>1, <1>3, <1>4, <1>6, <1>7, <1>8, <1>9, TurnsCalm

\* The first request finds nothing that counts against it.
LEMMA ProduceCalm ==
  ASSUME IInv, Undisturbed, ~meddled', NEW b \in Batches, NEW n \in Nat, NEW found, Produce(b, n, found) PROVE Undisturbed'
<1>1. /\ \A c \in Batches : batch[c].pc = "idle"
      /\ UNCHANGED <<row, task, cancel, start, runTracked, adrift>>
  BY DEF Produce, Request, progress
<1>2. PICK want : want = Min2(n, Limit)
  OBVIOUS
<1>3. want \in Nat /\ want <= n
  BY <1>2, AccountAssumption DEF Min2
<1>4. Asks(b, want, found, n)
  BY <1>2 DEF Produce, Asks
<1>5. PICK m : /\ Becomes(b, m) /\ m.pc = "accounts" /\ m.count = n /\ m.first = batch[b].first
               /\ m.running = batch[b].running /\ m.want = want /\ m.picked = {} /\ m.tracked = batch[b].tracked
  BY <1>4, AskingBecomes DEF IInv
<1>6. \A c \in Batches : Fits(batch[c]) /\ batch[c].first
  BY <1>1 DEF Undisturbed, Fits
<1>7. Used = {} /\ adrift = {} /\ \A t \in Tasks : ~Alive(t)
  BY <1>1, <1>6 DEF Undisturbed, OneBatch
<1>8. Used' = {}
  BY <1>1, <1>7 DEF Used, Registered, Underway, Runs
<1>9. Cardinality({}) = 0
  BY FS_EmptySet
<1>10. Fits(m)'
  BY <1>3, <1>5, <1>6, <1>8, <1>9 DEF Fits, Claiming
<1>11. Stoppable' /\ runTracked' \subseteq Rows
  BY <1>1 DEF Undisturbed, Stoppable, Entered
<1>12. \A t \in Tasks : ~Alive(t)'
  BY <1>1, <1>7 DEF Alive
<1> QED BY <1>1, <1>5, <1>7, <1>8, <1>10, <1>11, <1>12, TurnsCalm

-----------------------------------------------------------------------------
(* Claims of a batch left to itself become tasks.                          *)

\* A new goroutine knows who started it.
LEMMA SpawnedBy ==
  ASSUME Shape, NEW ids, NEW kind, NEW by, Spawn(ids, kind, by), NEW t \in Tasks, task'[t] # task[t]
  PROVE  task'[t].by = by
<1> DEFINE new == CHOOSE S \in SUBSET FreeTasks : Cardinality(S) = Cardinality(ids)
           of  == CHOOSE f \in [new -> ids] : \A x, y \in new : f[x] = f[y] => x = y
<1>1. task' = [u \in Tasks |-> IF u \in new
                      THEN [Unborn EXCEPT !.id = of[u], !.kind = kind, !.pc = "spawned", !.by = by]
                      ELSE task[u]]
  BY DEF Spawn
<1>2. PICK k : k = [Unborn EXCEPT !.id = of[t], !.kind = kind, !.pc = "spawned", !.by = by]
  OBVIOUS
<1>3. task'[t] = k
  BY <1>1, <1>2
<1>4. k.by = by
  BY <1>2 DEF Unborn
<1> QED BY <1>3, <1>4

\* As many rows are worked on afterwards as the request wanted, at most.
LEMMA HandedCalm ==
  ASSUME IInv, Undisturbed, NEW b \in Batches, batch[b].pc \in Claiming, Spawn(batch[b].picked, "run", b),
         NEW n, Becomes(b, n), n.pc \in {"enter", "top", "asleep"}, n.count = batch[b].count, n.first = FALSE,
         n.running = 0, n.want = 0, n.tracked \subseteq Rows, n.pc # "enter" => n.tracked = runTracked',
         runTracked' \subseteq Rows, Used \cup batch[b].picked \subseteq runTracked',
         UNCHANGED <<row, cancel, start, adrift>>
  PROVE  Undisturbed'
<1>1. PICK ids : ids = batch[b].picked
  OBVIOUS
<1>2. ids \subseteq Rows /\ Fits(batch[b])
  BY <1>1 DEF IInv, Shape, BatchOK, Undisturbed
<1>3. Spawned(ids, "run")
  BY <1>1, <1>2, SpawnSpawns DEF IInv
<1>4. batch[b].pc \notin {"idle", "over"}
  BY DEF Claiming
<1>5. adrift = {} /\ (\A c \in Batches \ {b} : batch[c].pc = "idle") /\ \A t \in Tasks : Alive(t) => task[t].by = b
  BY <1>4, OnlyOne, NothingYet
<1>6. Registered' = Registered /\ Underway' \subseteq Underway \cup ids
  <2>1. \A t \in Tasks : Runs(t)' => (Runs(t) /\ task'[t].id = task[t].id) \/ task'[t].id \in ids
    BY <1>3 DEF Spawned, Runs
  <2> QED BY <2>1 DEF Registered, Underway
<1>7. Used' \subseteq Used \cup ids
  BY <1>6 DEF Used
<1>8. Cardinality(Used') \in Nat /\ Cardinality(Used') <= n.count
  <2>1. IsFiniteSet(Used) /\ IsFiniteSet(ids) /\ Cardinality(Used) \in Nat /\ Cardinality(ids) \in Nat
    BY <1>2, UsedFinite, Smaller
  <2>2. Cardinality(Used \cup ids) = Cardinality(Used) + Cardinality(ids) - Cardinality(Used \cap ids)
    BY <2>1, FS_Union
  <2>3. Cardinality(Used \cap ids) \in Nat
    <3>1. Used \cap ids \subseteq ids
      OBVIOUS
    <3> QED BY <2>1, <3>1, Smaller
  <2>4. IsFiniteSet(Used \cup ids)
    BY <2>1, FS_Union
  <2>5. Cardinality(Used') \in Nat /\ Cardinality(Used') <= Cardinality(Used \cup ids) /\ Cardinality(Used \cup ids) \in Nat
    BY <1>7, <2>4, Smaller
  <2>6. Cardinality(Used) + batch[b].want <= n.count /\ Cardinality(ids) <= batch[b].want /\ batch[b].want \in Nat /\ n.count \in Nat
    BY <1>1, <1>2 DEF Fits
  <2> QED BY <2>1, <2>2, <2>3, <2>5, <2>6
<1>9. Used' \subseteq runTracked'
  BY <1>1, <1>7
<1>10. Fits(n)'
  BY <1>2, <1>8, <1>9 DEF Fits, Claiming
<1>11. Stoppable'
  <2>1. \A t \in Tasks : /\ task'[t].pc \notin {"free", "spawned"} <=> task[t].pc \notin {"free", "spawned"}
                         /\ task[t].pc \notin {"free", "spawned"} => task'[t].id = task[t].id
    BY <1>3 DEF Spawned
  <2>2. \A x : Entered(x)' <=> Entered(x)
    BY <2>1 DEF Entered
  <2> QED BY <2>2 DEF Undisturbed, Stoppable
<1>12. ASSUME NEW t \in Tasks, Alive(t)' PROVE task'[t].by = b /\ task'[t].id \notin adrift'
  BY <1>5, <1>12, SpawnedBy DEF Alive, IInv
<1>13. n.pc # "idle" /\ ~n.first /\ adrift' = {}
  BY <1>5
<1> QED BY <1>5, <1>10, <1>11, <1>12, <1>13, TurnsCalm

\* The request ends and its runs begin.
LEMMA BeginRunCalm == ASSUME IInv, Undisturbed, NEW b \in Batches, BeginRun(b) PROVE Undisturbed'
<1>1. batch[b].pc \in Claiming /\ batch[b].first /\ UNCHANGED <<row, cancel, start, adrift>>
  BY DEF BeginRun, ClaimsOver, Claiming, history
<1>2. batch[b].pc \notin {"idle", "over"}
  BY <1>1 DEF Claiming
<1>3. CASE batch[b].picked = {}
  BY <1>1, <1>2, <1>3, OverCalm DEF BeginRun
<1>4. CASE batch[b].picked # {}
  <2>1. Spawn(batch[b].picked, "run", b) /\ batch' = Pause(b, "enter") /\ runTracked' = batch[b].picked
    BY <1>4 DEF BeginRun
  <2>2. PICK n : Becomes(b, n) /\ Paused(n, b, "enter")
    BY <2>1, PauseBecomes DEF IInv
  <2>3. Used = {} /\ Fits(batch[b]) /\ batch[b].picked \subseteq Rows
    BY <1>1, <1>2, NothingYet DEF Undisturbed, IInv, Shape, BatchOK
  <2>4. /\ n.pc = "enter" /\ n.count = batch[b].count /\ n.first = FALSE /\ n.running = 0 /\ n.want = 0
        /\ n.tracked \subseteq Rows /\ runTracked' \subseteq Rows /\ Used \cup batch[b].picked \subseteq runTracked'
    BY <2>1, <2>2, <2>3 DEF Paused, Fits
  <2> QED BY <1>1, <2>1, <2>2, <2>4, HandedCalm
<1> QED BY <1>3, <1>4

\* A later round adds to what is tracked.
LEMMA TrackRunCalm == ASSUME IInv, Undisturbed, NEW b \in Batches, TrackRun(b) PROVE Undisturbed'
<1>1. batch[b].pc \in Claiming /\ ~batch[b].first /\ UNCHANGED <<row, cancel, start, adrift>>
  BY DEF TrackRun, ClaimsOver, Claiming, history
<1>2. PICK tracked : tracked = runTracked \cup batch[b].picked
  OBVIOUS
<1>3. Spawn(batch[b].picked, "run", b) /\ batch' = [NextRound(b) EXCEPT ![b].tracked = tracked] /\ runTracked' = tracked
  BY <1>2 DEF TrackRun
<1>4. PICK n : /\ Becomes(b, n) /\ n.pc \in {"top", "asleep"} /\ n.count = batch[b].count /\ n.first = FALSE
               /\ n.running = 0 /\ n.want = 0 /\ n.picked = {} /\ n.tracked = tracked
  BY <1>3, TrackedBecomes DEF IInv
<1>5. batch[b].picked \subseteq Rows /\ runTracked \subseteq Rows /\ Used \subseteq runTracked
  BY <1>1 DEF IInv, Shape, BatchOK, Undisturbed, Fits
<1>6. tracked \subseteq Rows /\ Used \cup batch[b].picked \subseteq tracked
  BY <1>2, <1>5
<1> QED BY <1>1, <1>3, <1>4, <1>6, HandedCalm

\* Whatever the batch does.
LEMMA BatchCalm == ASSUME IInv, Undisturbed, NotTaken, twin = {}, ~meddled', twin' = {}, BatchStep PROVE Undisturbed'
<1>1. PICK b \in Batches :
        \/ \E n \in 1..MaxCount : \E found : Offered(found) /\ Produce(b, n, found)
        \/ ClaimFails(b) \/ (\E found : Offered(found) /\ ClaimPool(b, found))
        \/ \E skipped, keeps : Keeping(keeps) /\ Passes(b, skipped) /\ ClaimNext(b, skipped, keeps)
        \/ BeginRun(b) \/ TrackRun(b) \/ LoopStep(b)
  BY DEF BatchStep
<1>2. CASE \E n \in 1..MaxCount : \E found : Offered(found) /\ Produce(b, n, found)
  BY <1>2, ProduceCalm
<1>3. CASE \E skipped, keeps : Keeping(keeps) /\ Passes(b, skipped) /\ ClaimNext(b, skipped, keeps)
  <2>1. PICK skipped, keeps : Keeping(keeps) /\ ClaimNext(b, skipped, keeps)
    BY <1>3
  <2> QED BY <2>1, ReadCalm, ClaimCalm DEF Keeping, ClaimNext
<1>4. CASE ClaimFails(b) \/ \E found : Offered(found) /\ ClaimPool(b, found)
  BY <1>4, FailsCalm, PoolCalm
<1>5. CASE BeginRun(b) \/ TrackRun(b) \/ LoopStep(b)
  BY <1>5, BeginRunCalm, TrackRunCalm, LoopCalm
<1> QED BY <1>1, <1>2, <1>3, <1>4, <1>5

\* Nobody gives up a second run of a row, or forgets a request of another kind.
LEMMA HistoryGrows == ASSUME IInv, [Next]_vars PROVE (meddled => meddled') /\ twin \subseteq twin'
<1>0. \A other : Request(other) => (meddled => meddled')
  BY Zenon DEF Request
<1>1. ASSUME TaskStep PROVE meddled' = meddled /\ twin' = twin
  <2>1. \E t \in Tasks : Steps(t)
    BY <1>1, RunsStep
  <2>2. meddled' = meddled
    <3>1. PICK t \in Tasks : GrokRun(t) \/ AdobeRun(t) \/ LeonardoRun(t) \/ LovartRun(t)
      BY <1>1 DEF TaskStep
    <3>2. CASE GrokRun(t)
      BY <3>2 DEF GrokRun, GrokCode, GrokRegistered, GrokFailed, GrokUnavailable, Enter, SlotStep, CodeStep, AcquireSlot,
                  StoppedInQueue, Leave, WaitManualCode, CodeTaken, NoCode, SelfCheck, RunOnly, history
    <3>3. CASE AdobeRun(t)
      BY <3>3 DEF AdobeRun, AdobeCode, AdobeEnter, AdobeRegistered, AdobeFailed, AdobeAccountExists, AdobeSessionLost,
                  RescueEnter, RescueEnds, SlotStep, CodeStep, AcquireSlot, StoppedInQueue, Leave, WaitManualCode,
                  CodeTaken, NoCode, SelfCheck, RunOnly, history
    <3>4. CASE LeonardoRun(t)
      BY <3>4 DEF LeonardoRun, LeonardoCode, LeonardoRegistered, LeonardoFailed, Enter, SlotStep, CodeStep, AcquireSlot,
                  StoppedInQueue, Leave, WaitManualCode, CodeTaken, NoCode, SelfCheck, RunOnly, history
    <3>5. CASE LovartRun(t)
      BY <3>5 DEF LovartRun, LovartCode, LovartRegistered, LovartFailed, Enter, SlotStep, CodeStep, AcquireSlot,
                  StoppedInQueue, Leave, WaitManualCode, CodeTaken, NoCode, SelfCheck, RunOnly, history
    <3> QED BY <3>1, <3>2, <3>3, <3>4, <3>5
  <2> QED BY <2>1, <2>2 DEF Steps
<1>2. ASSUME PanelStep PROVE (meddled => meddled') /\ twin \subseteq twin'
  <2>1. CASE (\E e \in Emails : StartRead(e)) \/ StartFails
    <3>1. twin' = twin /\ ((\E other : Request(other)) \/ meddled' = meddled)
      BY <2>1 DEF StartRead, StartFails, history
    <3> QED BY <1>0, <3>1
  <2>2. CASE \E keeps : Keeping(keeps) /\ StartSave(keeps)
    BY <2>2 DEF StartSave, Save
  <2>3. CASE SubmitOrStop
    <3>1. twin' = twin /\ ((\E other : Request(other)) \/ meddled' = meddled)
      BY <2>3 DEF SubmitOrStop, SubmitCode, Stop, StopAll, history
    <3> QED BY <1>0, <3>1
  <2>4. CASE DeleteRows
    BY <1>0, <2>4 DEF DeleteRows, DeleteAll, Delete
  <2>5. CASE \E ids \in SUBSET Rows : RescueAll(ids)
    BY <1>0, <2>5 DEF RescueAll
  <2> QED BY <1>2, <2>1, <2>2, <2>3, <2>4, <2>5 DEF PanelStep
<1>3. ASSUME BatchStep PROVE (meddled => meddled') /\ twin \subseteq twin'
  <2>1. PICK b \in Batches :
          \/ \E n \in 1..MaxCount : \E found : Offered(found) /\ Produce(b, n, found)
          \/ ClaimFails(b) \/ (\E found : Offered(found) /\ ClaimPool(b, found))
          \/ \E skipped, keeps : Keeping(keeps) /\ Passes(b, skipped) /\ ClaimNext(b, skipped, keeps)
          \/ BeginRun(b) \/ TrackRun(b) \/ LoopStep(b)
    BY <1>3 DEF BatchStep
  <2>2. CASE \E n \in 1..MaxCount : \E found : Offered(found) /\ Produce(b, n, found)
    BY <1>0, <2>2 DEF Produce
  <2>3. CASE \E skipped, keeps : Keeping(keeps) /\ Passes(b, skipped) /\ ClaimNext(b, skipped, keeps)
    BY <2>3 DEF ClaimNext, ClaimRead, ClaimSave, Save, history
  <2>4. CASE ClaimFails(b) \/ (\E found : Offered(found) /\ ClaimPool(b, found)) \/ BeginRun(b) \/ TrackRun(b)
    BY <2>4 DEF ClaimFails, ClaimPool, BeginRun, TrackRun, history
  <2>5. CASE LoopStep(b)
    BY <2>5 DEF LoopStep, BeginTopUp, LoopTop, Wake, Decide, NothingClaimed, CoolingOver, LoopOnly, history
  <2> QED BY <2>1, <2>2, <2>3, <2>4, <2>5
<1>4. ASSUME Restart \/ Time \/ UNCHANGED vars PROVE (meddled => meddled') /\ twin \subseteq twin'
  <2>1. twin' = twin /\ ((\E other : Request(other)) \/ meddled' = meddled)
    BY <1>4 DEF Restart, Time, vars, history
  <2> QED BY <1>0, <2>1
<1> QED BY <1>1, <1>2, <1>3, <1>4, StepsAreThese

\* What is calm after a step was calm before it.
LEMMA CalmBefore == ASSUME IInv, [Next]_vars, Calm' PROVE Calm
BY HistoryGrows, Zenon DEF Calm

-----------------------------------------------------------------------------
(* A batch left to itself: one run per mailbox.                            *)

Busy(id) == row[id].status \in InFlight

\* A row in flight that is run or claimed is run or claimed once.
OneOwner ==
    /\ \A t, u \in Tasks : Runs(t) /\ Runs(u) /\ task[t].id = task[u].id => t = u
    /\ \A t \in Tasks : Runs(t) => Busy(task[t].id) /\ \A b \in Batches : task[t].id \notin Claims(b)
    /\ \A b \in Batches : \A x \in Claims(b) : Busy(x)

\* A task reads the mailbox of its row, and no two rows in flight have the same.
\* In the packages other than grok's the mailbox is the address's own.
OwnMailbox ==
    /\ \A t \in Tasks : Runs(t) /\ task[t].pc # "spawned" => task[t].box = row[task[t].id].box
    /\ \A x, y \in Rows : Busy(x) /\ Busy(y) /\ row[x].box = row[y].box => x = y
    /\ platform # "grok" => \A x \in Rows : Busy(x) => row[x].email \in Offers /\ row[x].box = BoxOf[row[x].email]

OneRow == \A x, y \in Rows : Exists(x) /\ Exists(y) /\ row[x].email = row[y].email => x = y

\* What was found is still free when its turn comes; in grok the mailbox is, or
\* has been taken by the same round.
Listed(c) == \A e \in c.todo :
    /\ e \in Offers
    /\ \A x \in Rows : Exists(x) /\ row[x].email = e => row[x].status = "register_failed"
    /\ platform = "grok" => \A x \in Rows : Busy(x) /\ row[x].box = BoxOf[e] => x \in c.picked

\* A row that was read and not yet saved is as it was read, and free.
Fresh(h) ==
    /\ h.old.email \in Offers
    /\ \A x \in Rows : Exists(x) /\ row[x].email = h.old.email => x = h.id /\ row[x].status = "register_failed"
    /\ platform = "grok" => \A x \in Rows : Busy(x) => row[x].box # BoxOf[h.old.email]
    /\ \/ h.id = 0
       \/ /\ h.id \in Rows /\ row[h.id].status = "register_failed" /\ row[h.id].email = h.old.email
          /\ row[h.id].arp = h.old.arp /\ row[h.id].auth = h.old.auth
Current(c) == c.held # Nothing => Fresh(c.held) /\ c.held.old.email \notin c.todo

Single == start = Nothing /\ \A b, c \in Batches : batch[b].pc # "idle" /\ batch[c].pc # "idle" => b = c

Orderly == /\ Single /\ OneOwner /\ OwnMailbox /\ OneRow
           /\ \A b \in Batches : batch[b].pc \in Claiming => Listed(batch[b]) /\ Current(batch[b])

Ordered == ~meddled => Orderly

\* A step of a task leaves every row its address and its mailbox, and the task
\* reads the mailbox when it enters; once it has ended it writes no session.
SameMarks == \A x \in Rows : row'[x].arp = row[x].arp /\ row'[x].auth = row[x].auth
Reads(t) ==
    /\ task'[t].pc # task[t].pc
    /\ ~Runs(t) => SameMarks
    /\ \A x \in Rows : row'[x].email = row[x].email /\ row'[x].box = row[x].box
    /\ task'[t].pc \in Working => \/ task'[t].box = row[task[t].id].box
                                  \/ task[t].pc # "spawned" /\ task'[t].box = task[t].box
    /\ batch' = batch \/ batch' = Ended(batch)

\* An UPDATE does not name the address or the mailbox.
LEMMA UpdateReads ==
  ASSUME Shape, NEW id, NEW fields, Update(id, fields), DOMAIN fields \subseteq {"status", "auth", "arp", "dead"}
  PROVE  \A x \in Rows : row'[x].email = row[x].email /\ row'[x].box = row[x].box
<1>1. SUFFICES ASSUME NEW x \in Rows PROVE row'[x].email = row[x].email /\ row'[x].box = row[x].box
  OBVIOUS
<1>2. CASE ~Exists(id) \/ x # id
  BY <1>2 DEF Update, Shape
<1>3. CASE Exists(id) /\ x = id
  <2>1. PICK r : r = row[id]
    OBVIOUS
  <2>2. row'[x] = [f \in DOMAIN r |-> IF f \in DOMAIN fields THEN fields[f] ELSE r[f]]
    BY <1>3, <2>1 DEF Update, Shape
  <2>3. RowOK(r)
    BY <1>3, <2>1 DEF Shape
  <2> QED BY <1>3, <2>1, <2>2, <2>3 DEF RowOK
<1> QED BY <1>2, <1>3

\* Nor the session's marks, when it is about the health of the account.
LEMMA UpdateMarks ==
  ASSUME Shape, NEW id, NEW fields, Update(id, fields), DOMAIN fields = {"dead"} PROVE SameMarks
<1>1. SUFFICES ASSUME NEW x \in Rows PROVE row'[x].arp = row[x].arp /\ row'[x].auth = row[x].auth
  BY DEF SameMarks
<1>2. CASE ~Exists(id) \/ x # id
  BY <1>2 DEF Update, Shape
<1>3. CASE Exists(id) /\ x = id
  <2>1. PICK r : r = row[id]
    OBVIOUS
  <2>2. row'[x] = [f \in DOMAIN r |-> IF f \in DOMAIN fields THEN fields[f] ELSE r[f]]
    BY <1>3, <2>1 DEF Update, Shape
  <2>3. RowOK(r)
    BY <1>3, <2>1 DEF Shape
  <2> QED BY <1>3, <2>1, <2>2, <2>3 DEF RowOK
<1> QED BY <1>2, <1>3

\* Pc leaves the mailbox as it is.
LEMMA PcReads ==
  ASSUME Shape, NEW t \in Tasks, NEW pc, Pc(t, pc), task[t].pc # "spawned", pc # task[t].pc, ~Runs(t) => SameMarks,
         \A x \in Rows : row'[x].email = row[x].email /\ row'[x].box = row[x].box,
         batch' = batch \/ batch' = Ended(batch)
  PROVE  Reads(t)
<1>1. PICK k : k = [task[t] EXCEPT !.pc = pc]
  OBVIOUS
<1>2. task'[t] = k
  BY <1>1 DEF Pc, Shape
<1>3. k.pc = pc /\ k.box = task[t].box
  BY <1>1 DEF Shape, TaskOK
<1> QED BY <1>2, <1>3 DEF Reads

\* A task that enters reads the mailbox of its row.
LEMMA EnterReads == ASSUME Shape, NEW t \in Tasks, Enter(t) \/ AdobeEnter(t) PROVE Reads(t)
<1>1. PICK id : id = task[t].id
  OBVIOUS
<1>2. TaskOK(task[t]) /\ task[t].pc = "spawned" /\ batch' = batch
  BY DEF Enter, AdobeEnter, RunOnly, Shape
<1>3. \A x \in Rows : row'[x].email = row[x].email /\ row'[x].box = row[x].box
  <2>1. CASE row' = row
    BY <2>1
  <2>2. CASE row' # row
    <3>1. PICK fields : fields = [status |-> "account_exists"]
      OBVIOUS
    <3>2. Update(id, fields)
      BY <1>1, <2>2, <3>1 DEF Enter, AdobeEnter
    <3> QED BY <3>1, <3>2, UpdateReads
  <2> QED BY <2>1, <2>2
<1>4. PICK pc \in {"queued", "leaving"} : \E restore :
        \/ task' = [task EXCEPT ![t].pc = pc, ![t].box = row[id].box]
        \/ task' = [task EXCEPT ![t].pc = pc, ![t].box = row[id].box, ![t].restore = restore]
  <2>1. CASE Enter(t)
    <3>1. task' = [task EXCEPT ![t].pc = IF Exists(id) THEN "queued" ELSE "leaving", ![t].box = row[id].box]
      BY <1>1, <2>1 DEF Enter
    <3> QED BY <3>1
  <2>2. CASE AdobeEnter(t)
    <3>1. PICK lost : lost = (Exists(id) /\ row[id].arp /\ ~row[id].auth)
      OBVIOUS
    <3>2. task' = [task EXCEPT ![t].pc = IF Exists(id) /\ ~lost THEN "queued" ELSE "leaving",
                               ![t].box = row[id].box, ![t].restore = row[id].arp]
      BY <1>1, <2>2, <3>1 DEF AdobeEnter
    <3> QED BY <3>2
  <2> QED BY <2>1, <2>2
<1>5. PICK restore :
        \/ task' = [task EXCEPT ![t].pc = pc, ![t].box = row[id].box]
        \/ task' = [task EXCEPT ![t].pc = pc, ![t].box = row[id].box, ![t].restore = restore]
  BY <1>4
<1>6. PICK k, l : k = [task[t] EXCEPT !.pc = pc, !.box = row[id].box]
                  /\ l = [task[t] EXCEPT !.pc = pc, !.box = row[id].box, !.restore = restore]
  OBVIOUS
<1>7. task'[t] = k \/ task'[t] = l
  BY <1>5, <1>6 DEF Shape
<1>8. k.pc = pc /\ k.box = row[id].box /\ l.pc = pc /\ l.box = row[id].box
  BY <1>2, <1>6 DEF TaskOK
<1>9. task'[t].pc = pc /\ task'[t].box = row[id].box
  BY <1>7, <1>8
<1> QED BY <1>1, <1>2, <1>3, <1>9 DEF Reads, Runs, Working

\* So does a rescue, unless it gives up.
LEMMA RescueReads == ASSUME Shape, NEW t \in Tasks, RescueEnter(t) PROVE Reads(t)
<1>1. PICK id : id = task[t].id
  OBVIOUS
<1>2. TaskOK(task[t]) /\ task[t].pc = "spawned" /\ batch' = batch /\ row' = row
  BY DEF RescueEnter, RunOnly, Shape
<1>3. CASE task' = [task EXCEPT ![t] = Unborn]
  <2>1. PICK k : k = Unborn
    OBVIOUS
  <2>2. task'[t] = k /\ k.pc = "free"
    BY <1>3, <2>1 DEF Shape, Unborn
  <2> QED BY <1>2, <2>2 DEF Reads, Runs, Working
<1>4. CASE task' # [task EXCEPT ![t] = Unborn]
  <2>1. PICK pc \in {"queued", "leaving"} : task' = [task EXCEPT ![t].pc = pc, ![t].box = row[id].box]
    <3>1. task' = [task EXCEPT ![t].pc = IF Exists(id) /\ row[id].auth THEN "queued" ELSE "leaving", ![t].box = row[id].box]
      BY <1>1, <1>4 DEF RescueEnter
    <3> QED BY <3>1
  <2>2. PICK k : k = [task[t] EXCEPT !.pc = pc, !.box = row[id].box]
    OBVIOUS
  <2>3. task'[t] = k
    BY <2>1, <2>2 DEF Shape
  <2>4. k.pc = pc /\ k.box = row[id].box
    BY <1>2, <2>2 DEF TaskOK
  <2> QED BY <1>1, <1>2, <2>3, <2>4 DEF Reads, Runs, Working
<1> QED BY <1>3, <1>4

\* A task that leaves has read it.
LEMMA LeaveReads == ASSUME Shape, NEW t \in Tasks, Leave(t) PROVE Reads(t)
<1>1. PICK k : k = Unborn
  OBVIOUS
<1>2. task'[t] = k /\ k.pc = "free"
  BY <1>1 DEF Leave, Shape, Unborn
<1>3. task[t].pc # "free" /\ UNCHANGED <<row, batch>>
  BY DEF Leave, RunOnly
<1> QED BY <1>2, <1>3 DEF Reads, Working, SameMarks

\* A wait for a code changes the status and nothing else of the row.
LEMMA CodeReads == ASSUME Shape, NEW t \in Tasks, WaitManualCode(t) \/ CodeTaken(t) PROVE Reads(t)
<1>1. PICK k, l : k = [task[t] EXCEPT !.pc = "waiting", !.waits = @ + 1, !.code = 0] /\ l = [task[t] EXCEPT !.pc = "active", !.code = 0]
  OBVIOUS
<1>2. k.pc = "waiting" /\ k.box = task[t].box /\ l.pc = "active" /\ l.box = task[t].box
  BY <1>1 DEF Shape, TaskOK
<1>3. PICK waits, takes : waits = [status |-> "waiting_code"] /\ takes = [status |-> "registering"]
  OBVIOUS
<1>4. CASE WaitManualCode(t)
  <2>1. task'[t] = k /\ task[t].pc = "active" /\ batch' = batch
    BY <1>1, <1>4 DEF WaitManualCode, NewChannel, Shape, RunOnly
  <2>2. Update(task[t].id, waits)
    BY <1>3, <1>4 DEF WaitManualCode
  <2>3. \A x \in Rows : row'[x].email = row[x].email /\ row'[x].box = row[x].box
    BY <1>3, <2>2, UpdateReads
  <2> QED BY <1>2, <2>1, <2>3 DEF Reads, Runs, Working
<1>5. CASE CodeTaken(t)
  <2>1. task'[t] = l /\ task[t].pc = "waiting" /\ batch' = batch
    BY <1>1, <1>5 DEF CodeTaken, Shape, RunOnly
  <2>2. Update(task[t].id, takes)
    BY <1>3, <1>5 DEF CodeTaken
  <2>3. \A x \in Rows : row'[x].email = row[x].email /\ row'[x].box = row[x].box
    BY <1>3, <2>2, UpdateReads
  <2> QED BY <1>2, <2>1, <2>3 DEF Reads, Runs, Working
<1> QED BY <1>4, <1>5

\* However an attempt ends.
LEMMA EndReads ==
  ASSUME Shape, NEW t \in Tasks, NEW fields, NEW checks \in BOOLEAN, AttemptEnds(t, fields, checks),
         DOMAIN fields \subseteq {"status", "auth", "arp", "dead"}, batch' = batch \/ batch' = Ended(batch)
  PROVE  Reads(t)
<1>1. PICK pc : pc = IF checks THEN "checking" ELSE "releasing"
  OBVIOUS
<1>2. Pc(t, pc) /\ task[t].pc \in {"active", "refused"} /\ Update(task[t].id, fields)
  BY <1>1 DEF AttemptEnds
<1>3. \A x \in Rows : row'[x].email = row[x].email /\ row'[x].box = row[x].box
  BY <1>2, UpdateReads
<1> QED BY <1>1, <1>2, <1>3, PcReads DEF Runs, Working

\* Every step of run and runRescue.
LEMMA TaskReads == ASSUME IInv, TaskStep PROVE \E t \in Tasks : Steps(t) /\ Reads(t)
<1>0. Shape
  BY DEF IInv
<1>1. PICK t \in Tasks : \/ platform = "grok" /\ GrokRun(t)
                         \/ platform = "adobe" /\ AdobeRun(t)
                         \/ platform = "leonardo" /\ LeonardoRun(t)
                         \/ platform = "lovart" /\ LovartRun(t)
  BY DEF TaskStep
<1>2. ASSUME Enter(t) \/ AdobeEnter(t) \/ RescueEnter(t) \/ Leave(t) \/ WaitManualCode(t) \/ CodeTaken(t) PROVE Reads(t)
  BY <1>0, <1>2, EnterReads, RescueReads, LeaveReads, CodeReads
<1>3. ASSUME AcquireSlot(t) \/ StoppedInQueue(t) \/ NoCode(t) \/ SelfCheck(t) PROVE Reads(t)
  <2>1. batch' = batch
    BY <1>3 DEF AcquireSlot, StoppedInQueue, NoCode, SelfCheck, RunOnly
  <2>2. \E pc : Pc(t, pc) /\ task[t].pc # "spawned" /\ pc # task[t].pc
    <3>1. CASE AcquireSlot(t)
      BY <3>1 DEF AcquireSlot
    <3>2. CASE StoppedInQueue(t)
      BY <3>2 DEF StoppedInQueue
    <3>3. CASE NoCode(t)
      BY <3>3 DEF NoCode
    <3>4. CASE SelfCheck(t)
      BY <3>4 DEF SelfCheck
    <3> QED BY <1>3, <3>1, <3>2, <3>3, <3>4
  <2>3. \A x \in Rows : row'[x].email = row[x].email /\ row'[x].box = row[x].box
    <3>1. CASE AcquireSlot(t) \/ NoCode(t)
      BY <3>1 DEF AcquireSlot, NoCode
    <3>2. CASE StoppedInQueue(t)
      <4>1. PICK fields : fields = [status |-> "register_failed"]
        OBVIOUS
      <4>2. row' = row \/ Update(task[t].id, fields)
        BY <3>2, <4>1 DEF StoppedInQueue
      <4> QED BY <1>0, <4>1, <4>2, UpdateReads
    <3>3. CASE SelfCheck(t)
      <4>1. PICK dead : Update(task[t].id, [dead |-> dead])
        BY <3>3 DEF SelfCheck
      <4>2. PICK fields : fields = [dead |-> dead]
        OBVIOUS
      <4>3. Update(task[t].id, fields)
        BY <4>1, <4>2
      <4> QED BY <1>0, <4>2, <4>3, UpdateReads
    <3> QED BY <1>3, <3>1, <3>2, <3>3
  <2>4. ~Runs(t) => SameMarks
    <3>1. CASE AcquireSlot(t) \/ NoCode(t)
      BY <3>1 DEF AcquireSlot, NoCode, SameMarks
    <3>2. CASE StoppedInQueue(t)
      BY <3>2 DEF StoppedInQueue, Runs, Working
    <3>3. CASE SelfCheck(t)
      <4>1. PICK dead : Update(task[t].id, [dead |-> dead])
        BY <3>3 DEF SelfCheck
      <4>2. PICK fields : fields = [dead |-> dead]
        OBVIOUS
      <4>3. Update(task[t].id, fields) /\ DOMAIN fields = {"dead"}
        BY <4>1, <4>2
      <4> QED BY <1>0, <4>3, UpdateMarks
    <3> QED BY <1>3, <3>1, <3>2, <3>3
  <2> QED BY <1>0, <2>1, <2>2, <2>3, <2>4, PcReads
<1>4. PICK s2, s3, s4 : /\ s2 = [status |-> "account_exists", arp |-> TRUE]
                        /\ s3 = [status |-> "registered", auth |-> TRUE, arp |-> FALSE]
                        /\ s4 = [status |-> "registered", auth |-> TRUE]
  OBVIOUS
<1>5. ASSUME \/ GrokRegistered(t) \/ GrokFailed(t) \/ LeonardoRegistered(t) \/ LeonardoFailed(t) \/ LovartRegistered(t)
             \/ LovartFailed(t) \/ AdobeFailed(t) \/ AdobeAccountExists(t) \/ AdobeRegistered(t) \/ AdobeSessionLost(t) \/ RescueEnds(t)
      PROVE  Reads(t)
  <2>1. batch' = batch
    BY <1>5 DEF GrokRegistered, GrokFailed, LeonardoRegistered, LeonardoFailed, LovartRegistered, LovartFailed,
                AdobeFailed, AdobeAccountExists, AdobeRegistered, AdobeSessionLost, RescueEnds, RunOnly
  <2>2. DOMAIN s2 \subseteq {"status", "auth", "arp", "dead"} /\ DOMAIN s3 \subseteq {"status", "auth", "arp", "dead"}
        /\ DOMAIN s4 \subseteq {"status", "auth", "arp", "dead"}
    BY <1>4
  <2>3. CASE GrokRegistered(t) \/ LeonardoRegistered(t) \/ LovartRegistered(t)
    <3>1. AttemptEnds(t, s4, TRUE) \/ AttemptEnds(t, s4, FALSE)
      BY <1>4, <2>3 DEF GrokRegistered, LeonardoRegistered, LovartRegistered
    <3> QED BY <1>0, <2>1, <2>2, <3>1, EndReads
  <2>4. CASE GrokFailed(t) \/ LeonardoFailed(t) \/ LovartFailed(t) \/ AdobeFailed(t) \/ AdobeAccountExists(t)
    <3>1. PICK s : AttemptEnds(t, [status |-> s], FALSE)
      BY <2>4, Zenon DEF GrokFailed, LeonardoFailures, LeonardoFailed, LovartFailed, AdobeFailed, AdobeAccountExists
    <3>2. PICK fields : fields = [status |-> s]
      OBVIOUS
    <3>3. AttemptEnds(t, fields, FALSE) /\ DOMAIN fields \subseteq {"status", "auth", "arp", "dead"}
      BY <3>1, <3>2
    <3> QED BY <1>0, <2>1, <3>3, EndReads
  <2>5. CASE AdobeRegistered(t) \/ AdobeSessionLost(t)
    <3>1. AttemptEnds(t, s2, FALSE) \/ AttemptEnds(t, s3, TRUE)
      BY <1>4, <2>5 DEF AdobeRegistered, AdobeSessionLost
    <3> QED BY <1>0, <2>1, <2>2, <3>1, EndReads
  <2>6. CASE RescueEnds(t)
    <3>1. PICK none : none = << >>
      OBVIOUS
    <3>2. DOMAIN none = {}
      BY <3>1
    <3>3. AttemptEnds(t, s3, TRUE) \/ AttemptEnds(t, none, FALSE)
      BY <1>4, <2>6, <3>1 DEF RescueEnds
    <3>4. DOMAIN none \subseteq {"status", "auth", "arp", "dead"}
      BY <3>2
    <3> QED BY <1>0, <2>1, <2>2, <3>3, <3>4, EndReads
  <2> QED BY <1>5, <2>3, <2>4, <2>5, <2>6
<1>6. ASSUME GrokUnavailable(t) PROVE Reads(t)
  <2>1. PICK fields : fields = [status |-> "register_failed"]
    OBVIOUS
  <2>2. AttemptEnds(t, fields, FALSE) /\ batch' = Ended(batch) /\ DOMAIN fields \subseteq {"status", "auth", "arp", "dead"}
    BY <1>6, <2>1 DEF GrokUnavailable
  <2> QED BY <1>0, <2>2, EndReads
<1>7. Reads(t)
  <2>1. CASE platform = "grok" /\ GrokRun(t)
    BY <1>2, <1>3, <1>5, <1>6, <2>1, Zenon DEF GrokRun, GrokCode, SlotStep, CodeStep
  <2>2. CASE platform = "adobe" /\ AdobeRun(t)
    BY <1>2, <1>3, <1>5, <2>2, Zenon DEF AdobeRun, AdobeCode, SlotStep, CodeStep
  <2>3. CASE platform = "leonardo" /\ LeonardoRun(t)
    BY <1>2, <1>3, <1>5, <2>3, Zenon DEF LeonardoRun, LeonardoCode, SlotStep, CodeStep
  <2>4. CASE platform = "lovart" /\ LovartRun(t)
    BY <1>2, <1>3, <1>5, <2>4, Zenon DEF LovartRun, LovartCode, SlotStep, CodeStep
  <2> QED BY <1>1, <2>1, <2>2, <2>3, <2>4
<1>8. PICK u \in Tasks : Steps(u)
  BY RunsStep
<1>9. u = t
  BY <1>7, <1>8 DEF Steps, Reads
<1> QED BY <1>7, <1>8, <1>9

\* Nothing is added: the rows keep what they are, and no task begins.
LEMMA QuietOrderly ==
  ASSUME Orderly,
         \A x \in Rows : row'[x].email = row[x].email /\ row'[x].box = row[x].box /\ (Exists(x)' => Exists(x)) /\ (Busy(x)' => Busy(x)),
         \A x \in Rows : ~Busy(x) => row'[x].status = row[x].status /\ row'[x].arp = row[x].arp /\ row'[x].auth = row[x].auth,
         \A t \in Tasks : Runs(t)' => /\ Runs(t) /\ task'[t].id = task[t].id /\ task[t].id \in Rows /\ Busy(task[t].id)'
                                      /\ task'[t].pc # "spawned" => task'[t].box = row[task[t].id].box,
         \A b \in Batches : /\ batch'[b].pc = batch[b].pc /\ batch'[b].picked = batch[b].picked /\ batch'[b].todo = batch[b].todo
                            /\ batch'[b].held = batch[b].held
                            /\ \A x \in Claims(b) : Busy(x)',
         UNCHANGED <<start, platform>>
  PROVE  Orderly'
<1>1. Single'
  BY DEF Orderly, Single
<1>2. \A b \in Batches : Claims(b)' = Claims(b)
  BY DEF Claims
<1>3. OneOwner'
  <2>1. \A t, u \in Tasks : Runs(t)' /\ Runs(u)' /\ task'[t].id = task'[u].id => t = u
    BY DEF Orderly, OneOwner
  <2>2. \A t \in Tasks : Runs(t)' => Busy(task[t].id)'
    OBVIOUS
  <2>3. ASSUME NEW t \in Tasks, Runs(t)', NEW b \in Batches PROVE task'[t].id \notin Claims(b)'
    BY <1>2, <2>3 DEF Orderly, OneOwner
  <2>4. \A b \in Batches : \A x \in Claims(b)' : Busy(x)'
    BY <1>2
  <2> QED BY <2>1, <2>2, <2>3, <2>4 DEF OneOwner
<1>4. OwnMailbox'
  <2>1. \A t \in Tasks : Runs(t)' /\ task'[t].pc # "spawned" => task'[t].box = row'[task'[t].id].box
    OBVIOUS
  <2>2. \A x, y \in Rows : Busy(x)' /\ Busy(y)' /\ row'[x].box = row'[y].box => x = y
    BY DEF Orderly, OwnMailbox
  <2>3. platform' # "grok" => \A x \in Rows : Busy(x)' => row'[x].email \in Offers' /\ row'[x].box = BoxOf[row'[x].email]
    BY DEF Orderly, OwnMailbox, Offers
  <2> QED BY <2>1, <2>2, <2>3 DEF OwnMailbox
<1>5. OneRow'
  BY DEF Orderly, OneRow
<1>6. ASSUME NEW b \in Batches, batch'[b].pc \in Claiming PROVE Listed(batch[b])' /\ Current(batch[b])'
  <2>1. Listed(batch[b]) /\ Current(batch[b])
    BY <1>6 DEF Orderly
  <2>2. \A x \in Rows : row[x].status = "register_failed" => ~Busy(x)
    BY DEF Busy, InFlight
  <2>3. Listed(batch[b])'
    BY <2>1, <2>2 DEF Listed, Offers
  <2>4. Current(batch[b])'
    <3>1. PICK h, todo : h = batch[b].held /\ todo = batch[b].todo
      OBVIOUS
    <3>2. batch'[b].held = h /\ batch'[b].todo = todo
      BY <3>1
    <3>3. h # Nothing => Fresh(h) /\ h.old.email \notin todo
      BY <2>1, <3>1 DEF Current
    <3>4. ASSUME Fresh(h) PROVE Fresh(h)'
      <4>1. \A x \in Rows : Exists(x)' /\ row'[x].email = h.old.email => x = h.id /\ row'[x].status = "register_failed"
        BY <2>2, <3>4 DEF Fresh
      <4>2. platform = "grok" => \A x \in Rows : Busy(x)' => row'[x].box # BoxOf[h.old.email]
        BY <3>4 DEF Fresh
      <4>3. \/ h.id = 0
            \/ /\ h.id \in Rows /\ row'[h.id].status = "register_failed" /\ row'[h.id].email = h.old.email
               /\ row'[h.id].arp = h.old.arp /\ row'[h.id].auth = h.old.auth
        BY <2>2, <3>4 DEF Fresh
      <4>4. h.old.email \in Offers'
        BY <3>4 DEF Fresh, Offers
      <4> QED BY <4>1, <4>2, <4>3, <4>4 DEF Fresh
    <3> QED BY <3>2, <3>3, <3>4 DEF Current, Fresh
  <2> QED BY <2>3, <2>4
<1> QED BY <1>1, <1>3, <1>4, <1>5, <1>6 DEF Orderly

\* A loop that is cancelled has its list as before.
LEMMA EndedLists ==
  ASSUME Shape, batch' = batch \/ batch' = Ended(batch), NEW b \in Batches
  PROVE  /\ batch'[b].pc = batch[b].pc /\ batch'[b].picked = batch[b].picked
         /\ batch'[b].todo = batch[b].todo /\ batch'[b].held = batch[b].held
<1>1. PICK n : n = [batch[b] EXCEPT !.live = FALSE]
  OBVIOUS
<1>2. batch'[b] = batch[b] \/ batch'[b] = n
  BY <1>1 DEF Ended, Shape
<1>3. BatchOK(batch[b])
  BY DEF Shape
<1>4. n.pc = batch[b].pc /\ n.picked = batch[b].picked /\ n.todo = batch[b].todo /\ n.held = batch[b].held
  BY <1>1, <1>3 DEF BatchOK
<1> QED BY <1>2, <1>4

\* A task writes to its own row, which nobody else has.
LEMMA TaskOrderly == ASSUME IInv, Orderly, NEW t \in Tasks, Steps(t), Reads(t) PROVE Orderly'
<1>1. PICK id : id = task[t].id
  OBVIOUS
<1>2. Shape /\ Alive(t) /\ id \in Rows
  BY <1>1 DEF IInv, Shape, TaskOK, Steps, Alive
<1>3. /\ \A u \in Tasks \ {t} : task'[u] = task[u]
      /\ task'[t].pc \in Working => Runs(t) /\ task'[t].id = id
      /\ UNCHANGED <<start, platform>>
  BY <1>1 DEF Steps, Working
<1>4. OneOwner /\ OwnMailbox
  BY DEF Orderly
<1>5. Runs(t) => Busy(id) /\ \A b \in Batches : id \notin Claims(b)
  BY <1>1, <1>4 DEF OneOwner
<1>6. \A x \in Rows \ {id} : row'[x] = row[x]
  BY <1>1 DEF Steps, RowStep, Wrote
<1>7. (Exists(id)' => Exists(id)) /\ (Busy(id)' => Busy(id)) /\ (~Runs(t) => row'[id].status = row[id].status)
      /\ (task'[t].pc \in Working => Busy(id)')
  <2>1. CASE row' = row
    BY <1>3, <1>5, <2>1 DEF Exists, Busy
  <2>2. CASE Wrote(id, InFlight) /\ Runs(t) /\ task'[t].pc \in Working
    BY <1>2, <1>5, <2>2 DEF Wrote, Exists, Busy, InFlight
  <2>3. CASE Wrote(id, Final) /\ Runs(t) /\ task'[t].pc \notin Working
    BY <1>2, <1>5, <2>3 DEF Wrote, Exists, Busy, InFlight, Final
  <2>4. CASE Wrote(id, {row[id].status})
    BY <1>2, <1>3, <1>5, <2>4 DEF Wrote, Exists, Busy, InFlight
  <2> QED BY <1>1, <2>1, <2>2, <2>3, <2>4 DEF Steps, RowStep
<1>8. \A x \in Rows : row'[x].email = row[x].email /\ row'[x].box = row[x].box /\ (Exists(x)' => Exists(x)) /\ (Busy(x)' => Busy(x))
  BY <1>6, <1>7 DEF Reads, Exists, Busy
<1>9. ASSUME NEW u \in Tasks, Runs(u)'
      PROVE  /\ Runs(u) /\ task'[u].id = task[u].id /\ task[u].id \in Rows /\ Busy(task[u].id)'
             /\ task'[u].pc # "spawned" => task'[u].box = row[task[u].id].box
  <2>1. CASE u = t
    <3>1. task'[t].pc \in Working /\ Runs(t) /\ task'[t].id = id /\ row'[id].status \in InFlight
      BY <1>3, <1>7, <1>9, <2>1 DEF Runs, Busy
    <3>2. task[t].pc # "spawned" => task[t].box = row[id].box
      BY <1>1, <1>4, <3>1 DEF OwnMailbox
    <3>3. task'[t].box = row[id].box
      BY <1>1, <3>1, <3>2 DEF Reads
    <3> QED BY <1>1, <1>2, <2>1, <3>1, <3>3 DEF Busy
  <2>2. CASE u # t
    <3>1. task'[u] = task[u] /\ Runs(u) /\ task[u].id \in Rows
      BY <1>2, <1>3, <1>9, <2>2 DEF Runs, Shape, TaskOK, Working
    <3>2. row'[task[u].id].status = row[task[u].id].status
      <4>1. CASE task[u].id = id
        <5>1. ~Runs(t)
          BY <1>1, <1>4, <2>2, <3>1, <4>1 DEF OneOwner
        <5> QED BY <1>7, <4>1, <5>1
      <4>2. CASE task[u].id # id
        BY <1>6, <3>1, <4>2
      <4> QED BY <4>1, <4>2
    <3>3. Busy(task[u].id) /\ (task[u].pc # "spawned" => task[u].box = row[task[u].id].box)
      BY <1>4, <3>1 DEF OneOwner, OwnMailbox
    <3> QED BY <3>1, <3>2, <3>3 DEF Busy
  <2> QED BY <2>1, <2>2
<1>10. ASSUME NEW b \in Batches
       PROVE  /\ batch'[b].pc = batch[b].pc /\ batch'[b].picked = batch[b].picked /\ batch'[b].todo = batch[b].todo
              /\ batch'[b].held = batch[b].held
              /\ \A x \in Claims(b) : Busy(x)'
  <2>1. batch'[b].pc = batch[b].pc /\ batch'[b].picked = batch[b].picked /\ batch'[b].todo = batch[b].todo
              /\ batch'[b].held = batch[b].held
    BY <1>2, EndedLists DEF Reads
  <2>2. ASSUME NEW x \in Claims(b) PROVE Busy(x)'
    <3>1. Busy(x) /\ x \in Rows
      BY <1>2, <1>4, <2>2 DEF OneOwner, Claims, Shape, BatchOK
    <3>2. x = id => ~Runs(t)
      BY <1>5, <2>2
    <3> QED BY <1>6, <1>7, <3>1, <3>2 DEF Busy
  <2> QED BY <2>1, <2>2
<1>11. ASSUME NEW x \in Rows, ~Busy(x)
       PROVE  row'[x].status = row[x].status /\ row'[x].arp = row[x].arp /\ row'[x].auth = row[x].auth
  <2>1. CASE x = id
    <3>1. ~Runs(t)
      BY <1>5, <1>11, <2>1
    <3> QED BY <1>7, <2>1, <3>1 DEF Reads, SameMarks
  <2>2. CASE x # id
    BY <1>6, <2>2
  <2> QED BY <2>1, <2>2
<1> QED BY <1>3, <1>8, <1>9, <1>10, <1>11, QuietOrderly

\* Codes, stops and the clock start nothing.
LEMMA PanelOrderly ==
  ASSUME IInv, Orderly, ~meddled, ~meddled', PanelStep \/ Time \/ UNCHANGED vars PROVE Orderly'
<1>1. Shape /\ OneOwner /\ OwnMailbox
  BY DEF IInv, Orderly
<1>2. ~(\E e \in Emails : StartRead(e)) /\ ~StartFails /\ ~(\E keeps : StartSave(keeps)) /\ ~DeleteRows
      /\ ~(\E ids \in SUBSET Rows : RescueAll(ids))
  BY DEF StartRead, StartFails, StartSave, DeleteRows, DeleteAll, Delete, RescueAll, Request, Orderly, Single
<1>3. SubmitOrStop \/ Time \/ UNCHANGED vars
  BY <1>2 DEF PanelStep
<1>4. UNCHANGED <<row, start, platform>> /\ (batch' = batch \/ batch' = Ended(batch))
  BY <1>3 DEF SubmitOrStop, SubmitCode, Stop, StopAll, Time, vars, progress, history
<1>5. ASSUME NEW t \in Tasks PROVE task'[t].pc = task[t].pc /\ task'[t].id = task[t].id /\ task'[t].box = task[t].box
  <2>1. task' = task \/ (\E s : task' = [task EXCEPT ![s].code = task[s].waits]) \/ \E ids : task' = Cancelled(ids)
    BY <1>3 DEF SubmitOrStop, SubmitCode, Stop, StopAll, Time, vars
  <2>2. TaskOK(task[t])
    BY <1>1 DEF Shape
  <2>3. CASE task' = task
    BY <2>3
  <2>4. CASE \E s : task' = [task EXCEPT ![s].code = task[s].waits]
    <3>1. PICK s : task' = [task EXCEPT ![s].code = task[s].waits]
      BY <2>4
    <3>2. PICK k : k = [task[t] EXCEPT !.code = task[s].waits]
      OBVIOUS
    <3>3. task'[t] = task[t] \/ task'[t] = k
      BY <1>1, <3>1, <3>2 DEF Shape
    <3> QED BY <2>2, <3>2, <3>3 DEF TaskOK
  <2>5. CASE \E ids : task' = Cancelled(ids)
    <3>1. PICK k : k = [task[t] EXCEPT !.live = FALSE]
      OBVIOUS
    <3>2. task'[t] = task[t] \/ task'[t] = k
      BY <2>5, <3>1 DEF Cancelled
    <3> QED BY <2>2, <3>1, <3>2 DEF TaskOK
  <2> QED BY <2>1, <2>3, <2>4, <2>5
<1>6. \A x \in Rows : row'[x].email = row[x].email /\ row'[x].box = row[x].box /\ (Exists(x)' => Exists(x)) /\ (Busy(x)' => Busy(x))
  BY <1>4 DEF Exists, Busy
<1>7. ASSUME NEW t \in Tasks, Runs(t)'
      PROVE  /\ Runs(t) /\ task'[t].id = task[t].id /\ task[t].id \in Rows /\ Busy(task[t].id)'
             /\ task'[t].pc # "spawned" => task'[t].box = row[task[t].id].box
  <2>1. Runs(t) /\ task'[t].id = task[t].id /\ task'[t].pc = task[t].pc /\ task'[t].box = task[t].box
    BY <1>5, <1>7 DEF Runs
  <2>2. task[t].id \in Rows
    BY <1>1, <2>1 DEF Runs, Working, Shape, TaskOK
  <2>3. Busy(task[t].id) /\ (task[t].pc # "spawned" => task[t].box = row[task[t].id].box)
    BY <1>1, <2>1 DEF OneOwner, OwnMailbox
  <2> QED BY <1>4, <2>1, <2>2, <2>3 DEF Busy
<1>8. ASSUME NEW b \in Batches
      PROVE  /\ batch'[b].pc = batch[b].pc /\ batch'[b].picked = batch[b].picked /\ batch'[b].todo = batch[b].todo
              /\ batch'[b].held = batch[b].held
             /\ \A x \in Claims(b) : Busy(x)'
  <2>1. batch'[b].pc = batch[b].pc /\ batch'[b].picked = batch[b].picked /\ batch'[b].todo = batch[b].todo
              /\ batch'[b].held = batch[b].held
    BY <1>1, <1>4, EndedLists
  <2>2. \A x \in Claims(b) : Busy(x)'
    BY <1>1, <1>4 DEF OneOwner, Busy
  <2> QED BY <2>1, <2>2
<1> QED BY <1>4, <1>6, <1>7, <1>8, QuietOrderly

\* What a request or loop has on its list and has picked; the others stay.
Lists(b, pc, todo, picked) ==
    /\ batch'[b].pc = pc /\ batch'[b].todo = todo /\ batch'[b].picked = picked
    /\ batch'[b].held = Nothing
    /\ \A c \in Batches \ {b} : batch'[c] = batch[c]

\* A step of the one batch that leaves the rows and the tasks alone.
LEMMA TurnsOrderly ==
  ASSUME Orderly, NEW b \in Batches, \A c \in Batches \ {b} : batch[c].pc = "idle" /\ batch'[c].pc = "idle",
         UNCHANGED <<row, task, start, platform>>,
         Claims(b)' \subseteq Claims(b), batch'[b].pc \in Claiming => Listed(batch[b])' /\ Current(batch[b])'
  PROVE  Orderly'
<1>1. Single'
  BY DEF Orderly, Single
<1>2. \A c \in Batches : Claims(c)' \subseteq Claims(c)
  BY DEF Claims, Claiming
<1>3. OneOwner'
  BY <1>2 DEF Orderly, OneOwner, Runs, Busy
<1>4. OwnMailbox'
  BY DEF Orderly, OwnMailbox, Runs, Busy, Offers
<1>5. OneRow'
  BY DEF Orderly, OneRow, Exists
<1>6. \A c \in Batches : batch'[c].pc \in Claiming => c = b
  BY DEF Claiming
<1>7. (\A c \in Batches : batch[c].pc \in Claiming => Listed(batch[c]) /\ Current(batch[c]))'
  BY <1>6
<1> QED BY <1>1, <1>3, <1>4, <1>5, <1>7 DEF Orderly

\* A batch that has begun is the only one.
LEMMA OnlyThis == ASSUME Orderly, NEW b \in Batches, batch[b].pc # "idle" PROVE \A c \in Batches \ {b} : batch[c].pc = "idle"
BY DEF Orderly, Single

\* A request or loop that ends or pauses claims nothing.
LEMMA EndsOrderly ==
  ASSUME Orderly, NEW b \in Batches, batch[b].pc # "idle", NEW n, Becomes(b, n), n.pc \notin Claiming,
         UNCHANGED <<row, task, start, platform>>
  PROVE  Orderly'
<1>1. \A c \in Batches \ {b} : batch[c].pc = "idle" /\ batch'[c].pc = "idle"
  BY OnlyThis DEF Becomes, Alike
<1>2. batch'[b].pc \notin Claiming
  BY DEF Becomes, Alike
<1> QED BY <1>1, <1>2, TurnsOrderly DEF Claims

\* What was found is free.
LEMMA FoundListed == ASSUME NEW found, Offered(found), NEW c, c.todo = found PROVE Listed(c)
<1>1. SUFFICES ASSUME NEW e \in found
               PROVE  /\ e \in Offers
                      /\ \A x \in Rows : Exists(x) /\ row[x].email = e => row[x].status = "register_failed"
                      /\ platform = "grok" => \A x \in Rows : Busy(x) /\ row[x].box = BoxOf[e] => x \in c.picked
  BY DEF Listed
<1>2. e \in Offers /\ e \notin Blocked /\ (platform = "grok" => BoxOf[e] \notin BusyBoxes)
  BY <1>1 DEF Offered
<1>3. \A x \in Rows : Exists(x) /\ row[x].email = e => row[x].status = "register_failed"
  BY <1>2 DEF Blocked
<1>5. ASSUME platform = "grok", NEW x \in Rows, Busy(x), row[x].box = BoxOf[e] PROVE FALSE
  <2>1. Exists(x) /\ row[x].status \in InFlight
    BY <1>5 DEF Busy, Exists, InFlight
  <2>2. row[x].box \in BusyBoxes
    BY <2>1 DEF BusyBoxes
  <2> QED BY <1>2, <1>5, <2>2
<1> QED BY <1>2, <1>3, <1>5

\* A list that is new or has become shorter.
LEMMA ListsOrderly ==
  ASSUME Orderly, NEW b \in Batches, NEW pc, NEW todo, NEW picked, Lists(b, pc, todo, picked),
         \A c \in Batches \ {b} : batch[c].pc = "idle",
         picked \subseteq Claims(b),
         Offered(todo) \/ (batch[b].pc \in Claiming /\ todo \subseteq batch[b].todo /\ picked = batch[b].picked),
         UNCHANGED <<row, task, start, platform>>
  PROVE  Orderly'
<1>1. \A c \in Batches \ {b} : batch[c].pc = "idle" /\ batch'[c].pc = "idle"
  BY DEF Lists
<1>2. Claims(b)' \subseteq Claims(b)
  BY DEF Lists, Claims
<1>3. PICK c : c = batch'[b]
  OBVIOUS
<1>4. Listed(c)
  <2>1. CASE Offered(todo)
    BY <1>3, <2>1, FoundListed DEF Lists
  <2>2. CASE batch[b].pc \in Claiming /\ todo \subseteq batch[b].todo /\ picked = batch[b].picked
    <3>1. Listed(batch[b])
      BY <2>2 DEF Orderly
    <3> QED BY <1>3, <2>2, <3>1 DEF Lists, Listed
  <2> QED BY <2>1, <2>2
<1>5. Listed(batch[b])'
  BY <1>3, <1>4 DEF Listed, Offers, Busy, Exists
<1>6. Current(batch[b])'
  <2>1. batch'[b].held = Nothing
    BY DEF Lists
  <2> QED BY <2>1 DEF Current, Nothing, Absent
<1> QED BY <1>1, <1>2, <1>5, <1>6, TurnsOrderly

\* Asking lists what was found.
LEMMA AskingLists ==
  ASSUME Shape, NEW b \in Batches, NEW want, NEW found, NEW count, Asks(b, want, found, count)
  PROVE  Lists(b, "accounts", found, {})
<1>1. PICK c : c = batch[b]
  OBVIOUS
<1>2. Whole(c)
  BY <1>1 DEF Shape, BatchOK, Whole
<1>3. PICK k : k = [c EXCEPT !.pc = "accounts", !.want = want, !.todo = found, !.held = Nothing, !.picked = {}]
  OBVIOUS
<1>4. PICK l : l = [k EXCEPT !.count = count]
  OBVIOUS
<1>5. Whole(k) /\ k.pc = "accounts" /\ k.todo = found /\ k.picked = {} /\ k.held = Nothing
  BY <1>2, <1>3 DEF Whole
<1>6. l.pc = "accounts" /\ l.todo = found /\ l.picked = {} /\ l.held = Nothing
  BY <1>4, <1>5 DEF Whole
<1>7. Asking(b, want, found) = [batch EXCEPT ![b] = k]
  BY <1>1, <1>3 DEF Asking, Shape
<1>8. (batch'[b] = k \/ batch'[b] = l) /\ \A d \in Batches \ {b} : batch'[d] = batch[d]
  BY <1>4, <1>7 DEF Asks, Shape
<1> QED BY <1>5, <1>6, <1>8 DEF Lists

\* The rounds of the loop.
LEMMA LoopOrderly == ASSUME IInv, Orderly, NEW b \in Batches, LoopStep(b) PROVE Orderly'
<1>1. batch[b].pc # "idle" /\ UNCHANGED <<row, task, start, platform>>
  BY DEF LoopStep, BeginTopUp, LoopTop, Wake, CoolingOver, Decide, NothingClaimed, ClaimsOver, LoopOnly, history
<1>2. CASE \E n, found : Offered(found) /\ batch' = Asking(b, n, found)
  <2>1. PICK n, found : Offered(found) /\ batch' = Asking(b, n, found)
    BY <1>2
  <2>2. PICK count : count = batch[b].count
    OBVIOUS
  <2>3. Asks(b, n, found, count)
    BY <2>1, <2>2 DEF Asks
  <2>4. Lists(b, "accounts", found, {})
    BY <2>3, AskingLists DEF IInv
  <2> QED BY <1>1, <2>1, <2>4, OnlyThis, ListsOrderly
<1>3. CASE LoopReturns(b) \/ batch' = Over(b)
  <2>1. PICK n : Becomes(b, n) /\ Finished(n, b)
    BY <1>3, OverBecomes DEF IInv
  <2> QED BY <1>1, <2>1, EndsOrderly DEF Finished, Claiming
<1>4. CASE batch' = NextRound(b) \/ batch' = Pause(b, "cooling")
  <2>1. PICK n : \E pc \in {"top", "asleep", "cooling"} : Becomes(b, n) /\ Paused(n, b, pc)
    BY <1>4, RoundBecomes, PauseBecomes DEF IInv
  <2> QED BY <1>1, <2>1, EndsOrderly DEF Paused, Claiming
<1>5. CASE \E tracked : batch' = [NextRound(b) EXCEPT ![b].tracked = tracked]
  <2>1. PICK n : Becomes(b, n) /\ n.pc \in {"top", "asleep"}
    BY <1>5, TrackedBecomes DEF IInv
  <2> QED BY <1>1, <2>1, EndsOrderly DEF Claiming
<1>6. PICK running, todo : running = RunningNum /\ todo = batch[b].todo
  OBVIOUS
<1>7. CASE batch' = [batch EXCEPT ![b].pc = "asleep"] \/ batch' = [batch EXCEPT ![b].pc = "counting", ![b].running = running]
  <2>1. PICK pc, now : pc \in {"asleep", "counting"} /\ FieldsSet(b, pc, todo, now)
    BY <1>7 DEF FieldsSet
  <2>2. PICK n : Becomes(b, n) /\ n.pc = pc
    BY <2>1, FieldBecomes DEF IInv
  <2> QED BY <1>1, <2>1, <2>2, EndsOrderly DEF Claiming
<1>8. CASE BeginTopUp(b)
  BY <1>3, <1>5, <1>8 DEF BeginTopUp
<1>9. CASE LoopTop(b) \/ Wake(b)
  BY <1>3, <1>6, <1>7, <1>9 DEF LoopTop, Wake
<1>10. CASE CoolingOver(b) \/ \E cooling \in BOOLEAN : NothingClaimed(b, cooling)
  BY <1>3, <1>4, <1>10 DEF CoolingOver, NothingClaimed
<1>11. CASE \E found : Offered(found) /\ Decide(b, found)
  BY <1>2, <1>3, <1>4, <1>11 DEF Decide
<1> QED BY <1>8, <1>9, <1>10, <1>11 DEF LoopStep

-----------------------------------------------------------------------------
(* Claims of a batch left to itself: a mailbox is taken once.              *)

\* What is found of an address.
LEMMA FoundIs ==
  ASSUME NEW e
  PROVE  /\ Found(e).old.email = e
         /\ RowOf(e) = {} => Found(e).id = 0
         /\ RowOf(e) # {} => Found(e).id \in RowOf(e) /\ Found(e).old = row[Found(e).id]
<1>1. CASE RowOf(e) = {}
  <2>1. PICK r : r = [Absent EXCEPT !.email = e]
    OBVIOUS
  <2>2. r.email = e
    BY <2>1 DEF Absent
  <2> QED BY <1>1, <2>1, <2>2 DEF Found
<1>2. CASE RowOf(e) # {}
  <2>1. PICK id : id = LeastOf(RowOf(e))
    OBVIOUS
  <2>2. id \in RowOf(e)
    BY <1>2, <2>1, LeastIsIn, AccountAssumption DEF RowOf
  <2>3. Found(e).id = id /\ Found(e).old = row[id]
    BY <1>2, <2>1 DEF Found
  <2> QED BY <1>2, <2>2, <2>3 DEF RowOf
<1> QED BY <1>1, <1>2

\* The next address is read: its row is as the listing said.
LEMMA ReadOrderly ==
  ASSUME IInv, Orderly, NEW b \in Batches, NEW skipped, Passes(b, skipped), ClaimRead(b, skipped)
  PROVE  Orderly'
<1>1. PICK e : e = LeastOf(batch[b].todo)
  OBVIOUS
<1>2. PICK c : c = batch[b]
  OBVIOUS
<1>3. PICK todo : todo = c.todo \ {e}
  OBVIOUS
<1>4. PICK h : h = IF e \in skipped THEN Nothing ELSE Found(e)
  OBVIOUS
<1>5. /\ batch[b].pc \in Claiming /\ batch[b].pc # "idle" /\ c.todo # {} /\ UNCHANGED <<row, task, start, platform>>
      /\ batch' = [batch EXCEPT ![b].todo = todo, ![b].held = h]
  BY <1>1, <1>2, <1>3, <1>4 DEF ClaimRead, Claiming
<1>6. Shape /\ Whole(c) /\ Listed(c) /\ OneRow
  BY <1>2, <1>5 DEF IInv, Shape, BatchOK, Whole, Orderly
<1>7. \A d \in Batches \ {b} : batch[d].pc = "idle"
  BY <1>5, OnlyThis
<1>8. e \in c.todo /\ e \in Emails
  <2>1. c.todo \subseteq Emails /\ Emails \subseteq Nat
    BY <1>6, AccountAssumption DEF Listed, Offers
  <2> QED BY <1>1, <1>2, <1>5, <2>1, LeastIsIn
<1>9. PICK n : n = [c EXCEPT !.todo = todo, !.held = h]
  OBVIOUS
<1>10. batch'[b] = n /\ \A d \in Batches \ {b} : batch'[d] = batch[d]
  BY <1>2, <1>5, <1>6, <1>9 DEF Shape
<1>11. n.pc = c.pc /\ n.todo = todo /\ n.held = h /\ n.picked = c.picked
  BY <1>6, <1>9 DEF Whole
<1>12. CASE e \in skipped
  <2>1. Lists(b, c.pc, todo, c.picked)
    BY <1>4, <1>10, <1>11, <1>12 DEF Lists
  <2>2. c.picked \subseteq Claims(b) /\ todo \subseteq batch[b].todo /\ c.picked = batch[b].picked
    BY <1>2, <1>3, <1>5 DEF Claims
  <2> QED BY <1>5, <1>7, <2>1, <2>2, ListsOrderly
<1>13. CASE e \notin skipped
  <2>1. h = Found(e)
    BY <1>4, <1>13
  <2>2. /\ h.old.email = e
        /\ RowOf(e) = {} => h.id = 0
        /\ RowOf(e) # {} => h.id \in RowOf(e) /\ h.old = row[h.id]
    BY <2>1, FoundIs
  <2>3. e \in Offers /\ \A x \in Rows : Exists(x) /\ row[x].email = e => row[x].status = "register_failed"
    BY <1>6, <1>8 DEF Listed
  <2>4. ASSUME NEW x \in Rows, Exists(x), row[x].email = e PROVE x = h.id
    <3>1. RowOf(e) # {}
      BY <2>4 DEF RowOf
    <3>2. h.id \in Rows /\ Exists(h.id) /\ row[h.id].email = e
      BY <2>2, <3>1 DEF RowOf
    <3> QED BY <1>6, <2>4, <3>2 DEF OneRow
  <2>5. ASSUME platform = "grok", NEW x \in Rows, Busy(x), row[x].box = BoxOf[e] PROVE FALSE
    <3>1. x \in c.picked
      BY <1>6, <1>8, <2>5 DEF Listed
    <3>2. GrokSkips(b, e)
      BY <1>2, <2>5, <3>1 DEF GrokSkips
    <3> QED BY <1>8, <1>13, <2>5, <3>2 DEF Passes
  <2>6. \/ h.id = 0
        \/ /\ h.id \in Rows /\ row[h.id].status = "register_failed" /\ row[h.id].email = e
           /\ row[h.id].arp = h.old.arp /\ row[h.id].auth = h.old.auth
    <3>1. CASE RowOf(e) = {}
      BY <2>2, <3>1
    <3>2. CASE RowOf(e) # {}
      <4>1. h.id \in Rows /\ Exists(h.id) /\ row[h.id].email = e /\ h.old = row[h.id]
        BY <2>2, <3>2 DEF RowOf
      <4>2. row[h.id].status = "register_failed"
        BY <2>3, <4>1
      <4> QED BY <4>1, <4>2
    <3> QED BY <3>1, <3>2
  <2>7. Fresh(h)
    BY <2>2, <2>3, <2>4, <2>5, <2>6 DEF Fresh
  <2>8. Fresh(h)'
    BY <1>5, <2>7 DEF Fresh, Offers, Exists, Busy
  <2>9. Current(batch[b])'
    BY <1>3, <1>10, <1>11, <2>2, <2>8 DEF Current, Fresh
  <2>10. Listed(n)
    BY <1>3, <1>6, <1>11 DEF Listed
  <2>11. Listed(batch[b])'
    BY <1>5, <1>10, <2>10 DEF Listed, Offers, Busy, Exists
  <2>12. \A d \in Batches \ {b} : batch[d].pc = "idle" /\ batch'[d].pc = "idle"
    BY <1>7, <1>10
  <2>13. Claims(b)' \subseteq Claims(b)
    BY <1>2, <1>10, <1>11 DEF Claims
  <2> QED BY <1>5, <2>9, <2>11, <2>12, <2>13, TurnsOrderly
<1> QED BY <1>12, <1>13

\* The row a reading is saved to is free and, if it is there, as it was read.
LEMMA HeldFree ==
  ASSUME IInv, Orderly, NEW b \in Batches, batch[b].pc \in Claiming, NEW h, h = batch[b].held, h # Nothing,
         NEW id \in Rows, id = IdFor(h)
  PROVE  /\ row[id].status \in {"register_failed", "none"} /\ Fresh(h) /\ h.old.email \notin batch[b].todo
         /\ \A x \in Rows : Exists(x) /\ row[x].email = h.old.email => x = id
         /\ Exists(id) => id = h.id /\ row[id].arp = h.old.arp /\ row[id].auth = h.old.auth
<1>1. Fresh(h) /\ h.old.email \notin batch[b].todo
  BY DEF Orderly, Current
<1>2. CASE h.id = 0
  <2>1. id = born + 1 /\ born \in Nat
    BY <1>2 DEF IdFor, IInv, Table
  <2>2. ~Exists(id)
    BY <2>1, AccountAssumption DEF IInv, Table
  <2>3. \A x \in Rows : ~(Exists(x) /\ row[x].email = h.old.email)
    BY <1>1, <1>2, AccountAssumption DEF Fresh
  <2> QED BY <1>1, <2>2, <2>3 DEF Exists
<1>3. CASE h.id # 0
  <2>1. h.id \in Rows /\ row[h.id].status = "register_failed" /\ row[h.id].arp = h.old.arp /\ row[h.id].auth = h.old.auth
    BY <1>1, <1>3 DEF Fresh
  <2>2. id = h.id
    BY <2>1, AccountAssumption DEF IdFor
  <2> QED BY <1>1, <2>1, <2>2 DEF Fresh
<1> QED BY <1>2, <1>3

\* Nobody is registered that is about to be claimed.
LEMMA FreeToTake == ASSUME IInv, Orderly PROVE NotTaken
<1>1. SUFFICES ASSUME NEW b \in Batches, batch[b].pc \in Claiming, NEW h, h = batch[b].held, h # Nothing,
                      NEW id \in Rows, id = IdFor(h)
               PROVE  row[id].status # "registered"
  BY DEF NotTaken
<1> QED BY <1>1, HeldFree

\* A claim writes the address and its mailbox.
LEMMA ClaimWrites ==
  ASSUME Shape, NEW h, RowOK(h.old), NEW box, NEW keeps, Save(h, box, keeps), NEW id, id = IdFor(h)
  PROVE  id \in Rows /\ row'[id].email = h.old.email /\ row'[id].box = box
<1>1. id \in Rows /\ row' = [row EXCEPT ![id] = Claimed(h, box, keeps)]
  BY DEF Save
<1>2. PICK r : r = h.old
  OBVIOUS
<1>3. PICK n : n = [r EXCEPT !.status = "registering", !.box = box, !.auth = @ /\ keeps /\ r.arp]
  OBVIOUS
<1>4. row'[id] = n
  BY <1>1, <1>2, <1>3 DEF Claimed, Shape
<1>5. n.email = r.email /\ n.box = box
  BY <1>2, <1>3 DEF RowOK
<1> QED BY <1>1, <1>2, <1>4, <1>5

\* Nobody has the row or the mailbox of an address that is claimed.
LEMMA ClaimOrderly ==
  ASSUME IInv, Orderly, NEW b \in Batches, NEW keeps \in BOOLEAN, ClaimSave(b, keeps)
  PROVE  Orderly'
<1>1. PICK h : h = batch[b].held
  OBVIOUS
<1>2. PICK c : c = batch[b]
  OBVIOUS
<1>3. PICK e : e = h.old.email
  OBVIOUS
<1>4. /\ batch[b].pc \in Claiming /\ batch[b].pc # "idle" /\ h # Nothing /\ UNCHANGED <<task, start, platform>>
  BY <1>1 DEF ClaimSave, Claiming
<1>5. Shape /\ Whole(c) /\ Listed(c) /\ RowOK(h.old)
  BY <1>1, <1>2, <1>4 DEF IInv, Shape, BatchOK, Whole, Orderly
<1>6. \A d \in Batches \ {b} : batch[d].pc = "idle"
  BY <1>4, OnlyThis
<1>7. PICK id : id = IdFor(h)
  OBVIOUS
<1>8. PICK picked : picked = c.picked \cup {id}
  OBVIOUS
<1>9. Save(h, BoxOf[e], keeps) /\ batch' = [batch EXCEPT ![b].held = Nothing, ![b].picked = picked]
  BY <1>1, <1>2, <1>3, <1>7, <1>8 DEF ClaimSave
<1>10. Saved(id, h, keeps)
  BY <1>5, <1>7, <1>9, SaveWrites DEF IInv
<1>11. id \in Rows /\ (\A x \in Rows \ {id} : row'[x] = row[x]) /\ Busy(id)' /\ Exists(id)'
  BY <1>10 DEF Saved, Busy, Exists, InFlight
<1>12. OneOwner /\ OwnMailbox /\ OneRow
  BY DEF Orderly
<1>13. row'[id].email = e /\ row'[id].box = BoxOf[e]
  BY <1>3, <1>5, <1>7, <1>9, ClaimWrites
<1>14. /\ row[id].status \in {"register_failed", "none"} /\ Fresh(h) /\ e \notin c.todo
       /\ \A x \in Rows : Exists(x) /\ row[x].email = e => x = id
  BY <1>1, <1>2, <1>3, <1>4, <1>7, <1>11, HeldFree
<1>15. PICK n : n = [c EXCEPT !.held = Nothing, !.picked = picked]
  OBVIOUS
<1>16. batch'[b] = n /\ \A d \in Batches \ {b} : batch'[d] = batch[d]
  BY <1>2, <1>5, <1>9, <1>15 DEF Shape
<1>17. n.pc = c.pc /\ n.todo = c.todo /\ n.held = Nothing /\ n.picked = picked
  BY <1>5, <1>15 DEF Whole
<1>18. ~Busy(id) /\ e \in Offers
  BY <1>3, <1>14 DEF Fresh, Busy, InFlight
<1>19. ASSUME NEW x \in Rows, Busy(x), row[x].box = BoxOf[e] PROVE FALSE
  <2>1. CASE platform = "grok"
    BY <1>3, <1>14, <1>19, <2>1 DEF Fresh
  <2>2. CASE platform # "grok"
    <3>1. row[x].email \in Offers /\ row[x].box = BoxOf[row[x].email] /\ Exists(x)
      BY <1>12, <1>19, <2>2 DEF OwnMailbox, Busy, Exists, InFlight
    <3>2. row[x].email = e
      BY <1>18, <1>19, <2>2, <3>1, MailboxAssumption DEF Offers
    <3> QED BY <1>14, <1>18, <1>19, <3>1, <3>2
  <2> QED BY <2>1, <2>2
<1>20. Single'
  BY <1>4, <1>16, <1>17, <1>2 DEF Orderly, Single
<1>21. Claims(b)' = Claims(b) \cup {id} /\ \A d \in Batches \ {b} : Claims(d)' = Claims(d)
  BY <1>2, <1>4, <1>8, <1>16, <1>17 DEF Claims
<1>22. \A x \in Rows \ {id} : (Busy(x)' <=> Busy(x)) /\ (Exists(x)' <=> Exists(x))
  BY <1>11 DEF Busy, Exists
<1>23. \A t \in Tasks : (Runs(t)' <=> Runs(t)) /\ task'[t] = task[t] /\ (Runs(t) => task[t].id \in Rows \ {id})
  <2>1. ASSUME NEW t \in Tasks, Runs(t) PROVE task[t].id \in Rows \ {id}
    BY <1>5, <1>12, <1>18, <2>1 DEF Shape, TaskOK, Runs, Working, OneOwner
  <2> QED BY <1>4, <2>1 DEF Runs
<1>24. OneOwner'
  <2>1. \A t, u \in Tasks : Runs(t)' /\ Runs(u)' /\ task'[t].id = task'[u].id => t = u
    BY <1>12, <1>23 DEF OneOwner
  <2>2. ASSUME NEW t \in Tasks, Runs(t)' PROVE row'[task'[t].id].status \in InFlight
    <3>1. Runs(t) /\ task'[t] = task[t] /\ task[t].id \in Rows \ {id}
      BY <1>23, <2>2
    <3>2. Busy(task[t].id)
      BY <1>12, <3>1 DEF OneOwner
    <3> QED BY <1>11, <3>1, <3>2 DEF Busy
  <2>3. \A t \in Tasks : Runs(t)' => \A d \in Batches : task'[t].id \notin Claims(d)'
    BY <1>12, <1>21, <1>23 DEF OneOwner
  <2>4. ASSUME NEW d \in Batches, NEW x \in Claims(d)' PROVE Busy(x)'
    <3>1. CASE x = id
      BY <1>11, <3>1
    <3>2. CASE x # id
      <4>1. x \in Claims(d) /\ x \in Rows
        BY <1>5, <1>21, <2>4, <3>2 DEF Claims, Shape, BatchOK
      <4>2. Busy(x)
        BY <1>12, <4>1 DEF OneOwner
      <4> QED BY <1>22, <3>2, <4>1, <4>2
    <3> QED BY <3>1, <3>2
  <2> QED BY <2>1, <2>2, <2>3, <2>4 DEF OneOwner, Busy
<1>25. OwnMailbox'
  <2>1. ASSUME NEW t \in Tasks, Runs(t)', task'[t].pc # "spawned" PROVE task'[t].box = row'[task'[t].id].box
    <3>1. Runs(t) /\ task'[t] = task[t] /\ task[t].id \in Rows \ {id}
      BY <1>23, <2>1
    <3> QED BY <1>11, <1>12, <2>1, <3>1 DEF OwnMailbox
  <2>2. \A x, y \in Rows : Busy(x)' /\ Busy(y)' /\ row'[x].box = row'[y].box => x = y
    BY <1>11, <1>12, <1>13, <1>19, <1>22 DEF OwnMailbox
  <2>3. ASSUME platform # "grok", NEW x \in Rows, Busy(x)' PROVE row'[x].email \in Offers /\ row'[x].box = BoxOf[row'[x].email]
    BY <1>11, <1>12, <1>13, <1>18, <1>22, <2>3 DEF OwnMailbox
  <2>4. platform' # "grok" => \A x \in Rows : Busy(x)' => row'[x].email \in Offers' /\ row'[x].box = BoxOf[row'[x].email]
    BY <1>4, <2>3 DEF Offers
  <2> QED BY <2>1, <2>2, <2>4 DEF OwnMailbox
<1>26. OneRow'
  <2>1. ASSUME NEW x \in Rows, NEW y \in Rows, Exists(x)', Exists(y)', row'[x].email = row'[y].email PROVE x = y
    <3>1. ASSUME NEW z \in Rows \ {id}, Exists(z)' PROVE row'[z].email # e /\ Exists(z) /\ row'[z] = row[z]
      BY <1>11, <1>14, <1>22, <3>1
    <3>2. CASE x = id \/ y = id
      BY <1>13, <2>1, <3>1, <3>2
    <3>3. CASE x # id /\ y # id
      BY <1>12, <2>1, <3>1, <3>3 DEF OneRow
    <3> QED BY <3>2, <3>3
  <2> QED BY <2>1 DEF OneRow
<1>27. Listed(n)' /\ Current(n)'
  <2>1. ASSUME NEW f \in c.todo
        PROVE  /\ f \in Offers
               /\ \A x \in Rows : Exists(x)' /\ row'[x].email = f => row'[x].status = "register_failed"
               /\ platform = "grok" => \A x \in Rows : Busy(x)' /\ row'[x].box = BoxOf[f] => x \in picked
    <3>1. f # e
      BY <1>14, <2>1
    <3> QED BY <1>5, <1>8, <1>11, <1>13, <1>22, <2>1, <3>1 DEF Listed
  <2> QED BY <1>4, <1>17, <2>1 DEF Listed, Current, Offers
<1>28. ASSUME NEW d \in Batches, batch'[d].pc \in Claiming PROVE Listed(batch[d])' /\ Current(batch[d])'
  <2>1. d = b
    BY <1>6, <1>16, <1>28 DEF Claiming
  <2> QED BY <1>16, <1>27, <2>1 DEF Listed, Current, Fresh
<1> QED BY <1>20, <1>24, <1>25, <1>26, <1>28 DEF Orderly

\* Claimed rows become tasks, one each.
LEMMA HandedOrderly ==
  ASSUME IInv, Orderly, NEW b \in Batches, batch[b].pc \in Claiming, Spawn(batch[b].picked, "run", b),
         NEW n, Becomes(b, n), n.pc \notin Claiming, UNCHANGED <<row, start, platform>>
  PROVE  Orderly'
<1>1. PICK ids : ids = batch[b].picked
  OBVIOUS
<1>2. ids \in SUBSET Rows /\ ids = Claims(b) /\ Shape
  BY <1>1 DEF IInv, Shape, BatchOK, Claims
<1>3. Spawned(ids, "run")
  BY <1>1, <1>2, SpawnSpawns
<1>4. \A c \in Batches \ {b} : batch[c].pc = "idle" /\ batch'[c].pc = "idle"
  BY OnlyThis DEF Becomes, Alike, Claiming
<1>5. \A c \in Batches : batch'[c].pc \notin Claiming
  BY <1>4 DEF Becomes, Alike, Claiming
<1>6. OneOwner /\ OwnMailbox
  BY DEF Orderly
<1>7. \A t \in Tasks : Runs(t)' => \/ Runs(t) /\ task'[t] = task[t] /\ task[t].id \notin ids
                                   \/ task[t].pc = "free" /\ task'[t].pc = "spawned" /\ task'[t].id \in ids
  <2>1. \A t \in Tasks : Runs(t) => task[t].id \notin ids
    BY <1>2, <1>6 DEF OneOwner
  <2> QED BY <1>3, <2>1 DEF Spawned, Runs
<1>8. Single'
  BY <1>4 DEF Orderly, Single
<1>9. \A c \in Batches : Claims(c)' = {}
  BY <1>5 DEF Claims
<1>10. OneOwner'
  <2>1. ASSUME NEW t \in Tasks, NEW u \in Tasks, Runs(t)', Runs(u)', task'[t].id = task'[u].id PROVE t = u
    <3>1. CASE Runs(t) /\ task'[t] = task[t] /\ task[t].id \notin ids
      <4>1. Runs(u) /\ task'[u] = task[u]
        BY <1>7, <2>1, <3>1
      <4> QED BY <1>6, <2>1, <3>1, <4>1 DEF OneOwner
    <3>2. CASE task[t].pc = "free" /\ task'[t].pc = "spawned" /\ task'[t].id \in ids
      <4>1. task[u].pc = "free" /\ task'[u].pc = "spawned"
        BY <1>7, <2>1, <3>2
      <4>2. t \in {x \in Tasks : task[x].pc = "free" /\ task'[x].pc = "spawned"}
        BY <3>2
      <4>3. u \in {x \in Tasks : task[x].pc = "free" /\ task'[x].pc = "spawned"}
        BY <4>1
      <4> QED BY <1>3, <2>1, <4>2, <4>3, Zenon DEF Spawned
    <3> QED BY <1>7, <2>1, <3>1, <3>2
  <2>2. ASSUME NEW t \in Tasks, Runs(t)' PROVE row'[task'[t].id].status \in InFlight
    <3>1. Runs(t) => Busy(task[t].id)
      BY <1>6 DEF OneOwner
    <3>2. \A x \in ids : Busy(x)
      BY <1>2, <1>6 DEF OneOwner
    <3> QED BY <1>7, <2>2, <3>1, <3>2 DEF Busy
  <2> QED BY <1>9, <2>1, <2>2 DEF OneOwner, Busy
<1>11. OwnMailbox'
  <2>1. \A t \in Tasks : Runs(t)' /\ task'[t].pc # "spawned" => task'[t].box = row'[task'[t].id].box
    BY <1>6, <1>7 DEF OwnMailbox
  <2>2. \A x, y \in Rows : Busy(x)' /\ Busy(y)' /\ row'[x].box = row'[y].box => x = y
    BY <1>6 DEF OwnMailbox, Busy
  <2>3. platform' # "grok" => \A x \in Rows : Busy(x)' => row'[x].email \in Offers' /\ row'[x].box = BoxOf[row'[x].email]
    BY <1>6 DEF OwnMailbox, Busy, Offers
  <2> QED BY <2>1, <2>2, <2>3 DEF OwnMailbox
<1>12. OneRow'
  BY DEF Orderly, OneRow, Exists
<1> QED BY <1>5, <1>8, <1>10, <1>11, <1>12 DEF Orderly

\* The request and every later round hand over what they claimed.
LEMMA RunOrderly == ASSUME IInv, Orderly, NEW b \in Batches, BeginRun(b) \/ TrackRun(b) PROVE Orderly'
<1>1. batch[b].pc \in Claiming /\ batch[b].pc # "idle" /\ UNCHANGED <<row, start, platform>>
  BY DEF BeginRun, TrackRun, ClaimsOver, Claiming, history
<1>2. CASE batch' = Over(b) /\ task' = task
  <2>1. PICK n : Becomes(b, n) /\ Finished(n, b)
    BY <1>2, OverBecomes DEF IInv
  <2> QED BY <1>1, <1>2, <2>1, EndsOrderly DEF Finished, Claiming
<1>3. CASE Spawn(batch[b].picked, "run", b) /\ batch' = Pause(b, "enter")
  <2>1. PICK n : Becomes(b, n) /\ Paused(n, b, "enter")
    BY <1>3, PauseBecomes DEF IInv
  <2> QED BY <1>1, <1>3, <2>1, HandedOrderly DEF Paused, Claiming
<1>4. CASE Spawn(batch[b].picked, "run", b) /\ \E tracked : batch' = [NextRound(b) EXCEPT ![b].tracked = tracked]
  <2>1. PICK n : Becomes(b, n) /\ n.pc \in {"top", "asleep"}
    BY <1>4, TrackedBecomes DEF IInv
  <2> QED BY <1>1, <1>4, <2>1, HandedOrderly DEF Claiming
<1>5. CASE BeginRun(b)
  BY <1>2, <1>3, <1>5 DEF BeginRun
<1>6. CASE TrackRun(b)
  BY <1>4, <1>6 DEF TrackRun
<1> QED BY <1>5, <1>6

\* A request, the pool after the accounts, and a claim that fails.
LEMMA FoundOrderly ==
  ASSUME IInv, Orderly, ~meddled', NEW b \in Batches, NEW n, NEW found, Offered(found) \/ ClaimFails(b),
         Produce(b, n, found) \/ ClaimPool(b, found) \/ ClaimFails(b)
  PROVE  Orderly'
<1>1. UNCHANGED <<row, task, start, platform>>
  BY DEF Produce, ClaimPool, ClaimFails, progress, history
<1>2. CASE Produce(b, n, found) /\ Offered(found)
  <2>1. \A c \in Batches : batch[c].pc = "idle"
    BY <1>2 DEF Produce, Request
  <2>2. PICK want : want = Min2(n, Limit)
    OBVIOUS
  <2>3. Asks(b, want, found, n)
    BY <1>2, <2>2 DEF Produce, Asks
  <2>4. Lists(b, "accounts", found, {})
    BY <2>3, AskingLists DEF IInv
  <2> QED BY <1>1, <1>2, <2>1, <2>4, ListsOrderly
<1>3. CASE ClaimPool(b, found) /\ Offered(found)
  <2>1. batch[b].pc \in Claiming /\ batch[b].pc # "idle" /\ batch[b].held = Nothing
        /\ batch' = [batch EXCEPT ![b].pc = "pool", ![b].todo = found]
    BY <1>3 DEF ClaimPool, Claiming
  <2>2. PICK c : c = batch[b]
    OBVIOUS
  <2>3. PICK k : k = [c EXCEPT !.pc = "pool", !.todo = found]
    OBVIOUS
  <2>4. batch'[b] = k /\ \A d \in Batches \ {b} : batch'[d] = batch[d]
    BY <2>1, <2>2, <2>3 DEF IInv, Shape
  <2>5. Whole(c)
    BY <2>2 DEF IInv, Shape, BatchOK, Whole
  <2>6. k.pc = "pool" /\ k.todo = found /\ k.picked = c.picked /\ k.held = c.held
    BY <2>3, <2>5 DEF Whole
  <2>7. Lists(b, "pool", found, c.picked) /\ c.picked \subseteq Claims(b)
    BY <2>1, <2>2, <2>4, <2>6 DEF Lists, Claims
  <2> QED BY <1>1, <1>3, <2>1, <2>7, OnlyThis, ListsOrderly
<1>4. CASE ClaimFails(b)
  <2>1. batch[b].pc # "idle" /\ (batch' = Over(b) \/ LoopReturns(b))
    BY <1>4 DEF ClaimFails
  <2>2. PICK k : Becomes(b, k) /\ Finished(k, b)
    BY <2>1, OverBecomes DEF IInv
  <2> QED BY <1>1, <2>1, <2>2, EndsOrderly DEF Finished, Claiming
<1> QED BY <1>2, <1>3, <1>4

\* Whatever the batch does.
LEMMA BatchOrderly == ASSUME IInv, Orderly, ~meddled', BatchStep PROVE Orderly'
<1>1. PICK b \in Batches :
        \/ \E n \in 1..MaxCount : \E found : Offered(found) /\ Produce(b, n, found)
        \/ ClaimFails(b) \/ (\E found : Offered(found) /\ ClaimPool(b, found))
        \/ \E skipped, keeps : Keeping(keeps) /\ Passes(b, skipped) /\ ClaimNext(b, skipped, keeps)
        \/ BeginRun(b) \/ TrackRun(b) \/ LoopStep(b)
  BY DEF BatchStep
<1>2. CASE (\E n \in 1..MaxCount : \E found : Offered(found) /\ Produce(b, n, found))
           \/ ClaimFails(b) \/ (\E found : Offered(found) /\ ClaimPool(b, found))
  BY <1>2, FoundOrderly
<1>3. CASE \E skipped, keeps : Keeping(keeps) /\ Passes(b, skipped) /\ ClaimNext(b, skipped, keeps)
  <2>1. PICK skipped, keeps : Keeping(keeps) /\ Passes(b, skipped) /\ ClaimNext(b, skipped, keeps)
    BY <1>3
  <2> QED BY <2>1, ReadOrderly, ClaimOrderly DEF Keeping, ClaimNext
<1>4. CASE BeginRun(b) \/ TrackRun(b) \/ LoopStep(b)
  BY <1>4, RunOrderly, LoopOrderly
<1> QED BY <1>1, <1>2, <1>3, <1>4

\* Every step keeps the order, until somebody meddles.
LEMMA OrderedStep == IInv /\ Ordered /\ [Next]_vars => Ordered'
<1> SUFFICES ASSUME IInv, Ordered, [Next]_vars, ~meddled' PROVE Orderly'
  BY DEF Ordered
<1>1. meddled => meddled'
  BY HistoryGrows
<1>2. ~meddled
  BY <1>1, Zenon
<1>3. Orderly
  BY <1>2, Zenon DEF Ordered
<1>4. CASE TaskStep
  <2>1. PICK t \in Tasks : Steps(t) /\ Reads(t)
    BY <1>4, TaskReads
  <2> QED BY <1>3, <2>1, TaskOrderly
<1>5. CASE BatchStep
  BY <1>3, <1>5, BatchOrderly
<1>6. CASE PanelStep \/ Time \/ UNCHANGED vars
  BY <1>2, <1>3, <1>6, PanelOrderly
<1>7. ~Restart
  BY <1>2 DEF Restart, Request
<1> QED BY <1>4, <1>5, <1>6, <1>7, StepsAreThese

\* At the start no row is in flight and there is one at most.
LEMMA OrderedInitially == Init => Ordered
<1> SUFFICES ASSUME Init PROVE Orderly
  BY DEF Ordered
<1>1. PICK none, idle, absent : none = Unborn /\ idle = Idle /\ absent = Absent
  OBVIOUS
<1>2. PICK old : old = [email |-> LeastOf(Emails), status |-> "register_failed", box |-> NoBox,
                        auth |-> TRUE, arp |-> TRUE, dead |-> FALSE]
  OBVIOUS
<1>3. /\ \A t \in Tasks : task[t] = none
      /\ \A b \in Batches : batch[b] = idle
      /\ \A id \in Rows : row[id] = absent \/ (row[id] = old /\ id = 1)
      /\ start = Nothing
  BY <1>1, <1>2 DEF Init
<1>4. none.pc = "free" /\ idle.pc = "idle" /\ absent.status = "none" /\ old.status = "register_failed"
  BY <1>1, <1>2 DEF Unborn, Idle, Absent
<1>5. (\A t \in Tasks : ~Runs(t)) /\ (\A b \in Batches : batch[b].pc \notin Claiming /\ Claims(b) = {}) /\ \A x \in Rows : ~Busy(x)
  BY <1>3, <1>4 DEF Runs, Working, Claims, Claiming, Busy, InFlight
<1>6. Single
  BY <1>3, <1>4 DEF Single
<1>7. OneOwner /\ OwnMailbox
  BY <1>5 DEF OneOwner, OwnMailbox
<1>8. OneRow
  BY <1>3, <1>4 DEF OneRow, Exists
<1> QED BY <1>5, <1>6, <1>7, <1>8 DEF Orderly

\* The rows of a batch left to itself have mailboxes of their own.
THEOREM OrderedAlways == Spec => []Ordered
BY Invariance, OrderedInitially, OrderedStep, PTL DEF Spec

\* A batch left to itself runs a mailbox once at a time.
THEOREM OneRunPerMailboxAlways == Spec => []OneRunPerMailbox
<1>1. IInv /\ Ordered => OneRunPerMailbox
  <2> SUFFICES ASSUME IInv, Ordered, ~meddled, NEW t \in Tasks, NEW u \in Tasks, t # u, task[t].pc \in {"queued", "active"},
                      task[u].pc \in {"queued", "active"}, task[t].box = task[u].box
               PROVE  FALSE
    BY DEF OneRunPerMailbox
  <2>1. OneOwner /\ OwnMailbox
    BY DEF Ordered, Orderly
  <2>2. Runs(t) /\ Runs(u) /\ task[t].pc # "spawned" /\ task[u].pc # "spawned"
    BY DEF Runs, Working
  <2>3. task[t].id \in Rows /\ task[u].id \in Rows
    BY <2>2 DEF Runs, Working, IInv, Shape, TaskOK
  <2>4. Busy(task[t].id) /\ Busy(task[u].id) /\ row[task[t].id].box = row[task[u].id].box
    BY <2>1, <2>2 DEF OneOwner, OwnMailbox
  <2>5. task[t].id = task[u].id
    BY <2>1, <2>3, <2>4 DEF OwnMailbox
  <2> QED BY <2>1, <2>2, <2>5 DEF OneOwner
<1> QED BY <1>1, Invariance, OrderedAlways, PTL

-----------------------------------------------------------------------------
(* A batch left to itself: its count.                                      *)

\* A batch left to itself stays within its count.
LEMMA CountedStep == IInv /\ Ordered /\ Counted /\ [Next]_vars => Counted'
<1> SUFFICES ASSUME IInv, Ordered, Counted, [Next]_vars, Calm' PROVE Undisturbed'
  BY DEF Counted
<1>1. Calm /\ Undisturbed
  BY CalmBefore DEF Counted
<1>2. ~meddled /\ ~meddled' /\ twin = {} /\ twin' = {}
  BY <1>1 DEF Calm
<1>3. CASE TaskStep
  <2>1. \A t \in Tasks : Alive(t) => task[t].kind = "run"
    BY <1>1 DEF IInv, Owned, Undisturbed, OneBatch
  <2>2. PICK t \in Tasks : Steps(t) /\ Carries(t)
    BY <1>3, <2>1, TaskCarries
  <2> QED BY <1>1, <1>2, <2>2, TaskCalm
<1>4. CASE BatchStep
  BY <1>1, <1>2, <1>4, FreeToTake, BatchCalm DEF Ordered
<1>5. CASE PanelStep \/ Time \/ UNCHANGED vars
  BY <1>1, <1>2, <1>5, PanelCalm
<1>6. ~Restart
  BY <1>2 DEF Restart, Request
<1> QED BY <1>3, <1>4, <1>5, <1>6, StepsAreThese

\* Nothing is counted at the start.
LEMMA CountedInitially == Init => Counted
<1> SUFFICES ASSUME Init PROVE Undisturbed
  BY DEF Counted
<1>1. PICK none : none = Unborn
  OBVIOUS
<1>2. \A t \in Tasks : task[t] = none
  BY <1>1 DEF Init
<1>3. none.pc = "free"
  BY <1>1 DEF Unborn
<1>4. \A t \in Tasks : ~Alive(t) /\ ~Runs(t)
  BY <1>2, <1>3 DEF Alive, Runs, Working
<1>5. PICK idle : idle = Idle
  OBVIOUS
<1>6. \A b \in Batches : batch[b] = idle
  BY <1>5 DEF Init
<1>7. idle.pc = "idle" /\ idle.count = 0 /\ idle.first = TRUE /\ idle.running = 0 /\ idle.want = 0 /\ idle.tracked = {}
  BY <1>5 DEF Idle
<1>8. \A id \in Rows : row[id].status # "registered"
  <2>1. PICK absent : absent = Absent
    OBVIOUS
  <2>2. PICK old : old = [email |-> LeastOf(Emails), status |-> "register_failed", box |-> NoBox,
                          auth |-> TRUE, arp |-> TRUE, dead |-> FALSE]
    OBVIOUS
  <2>3. \A id \in Rows : row[id] = absent \/ row[id] = old
    BY <2>1, <2>2 DEF Init
  <2>4. absent.status = "none" /\ old.status = "register_failed"
    BY <2>1, <2>2 DEF Absent
  <2> QED BY <2>3, <2>4
<1>9. Used = {}
  BY <1>4, <1>8 DEF Used, Registered, Underway
<1>10. OneBatch
  <2>1. start = Nothing /\ adrift = {}
    BY DEF Init
  <2> QED BY <1>4, <1>6, <1>7, <1>9, <2>1 DEF OneBatch
<1>11. Stoppable
  <2>1. cancel = [id \in Rows |-> 0]
    BY DEF Init
  <2>2. \A id \in Rows : ~Entered(id)
    BY <1>2, <1>3 DEF Entered
  <2> QED BY <2>1, <2>2 DEF Stoppable
<1>12. \A b \in Batches : Fits(batch[b])
  BY <1>6, <1>7 DEF Fits, Claiming
<1>13. runTracked \subseteq Rows
  BY DEF Init
<1> QED BY <1>10, <1>11, <1>12, <1>13 DEF Undisturbed

\* What one batch uses fits into its count, as long as nobody meddles.
THEOREM CountedAlways == Spec => []Counted
BY Invariance, OrderedAlways, CountedInitially, CountedStep, PTL DEF Spec

\* A batch left to itself never registers more accounts than were asked for.
THEOREM NoOvershootAlways == Spec => []NoOvershoot
<1>1. IInv /\ Counted => NoOvershoot
  <2> SUFFICES ASSUME IInv, Counted, ~meddled, twin = {}, NEW b \in Batches, batch[b].pc # "idle"
               PROVE  CountRegistered(Rows) + Cardinality({id \in Rows : cancel[id] /= 0 /\ row[id].status \in InFlight}) <= batch[b].count
    BY DEF NoOvershoot
  <2> DEFINE Running == {id \in Rows : cancel[id] /= 0 /\ row[id].status \in InFlight}
  <2>1. Undisturbed
    BY DEF Counted, Calm
  <2>2. Cardinality(Used) <= batch[b].count /\ batch[b].count \in Nat
    BY <2>1 DEF Undisturbed, Fits
  <2>3. Running \subseteq Underway
    <3>1. SUFFICES ASSUME NEW id \in Rows, cancel[id] # 0, row[id].status \in InFlight PROVE id \in Underway
      OBVIOUS
    <3>2. PICK t \in Tasks : task[t].pc \notin {"free", "spawned"} /\ task[t].id = id
      BY <2>1, <3>1 DEF Undisturbed, Stoppable, Entered
    <3>3. Alive(t) /\ id \notin adrift
      BY <2>1, <3>2 DEF Undisturbed, OneBatch, Alive
    <3>4. Alone(id)
      BY <3>3 DEF IInv
    <3>5. \A c \in Batches : id \notin Claims(c)
      BY <3>2, <3>3, <3>4 DEF Alone
    <3> QED BY <3>1, <3>3, <3>5 DEF IInv, Owned, Underway
  <2>4. Running \cap Registered = {}
    BY DEF Registered, InFlight
  <2>5. IsFiniteSet(Registered) /\ IsFiniteSet(Used) /\ IsFiniteSet(Underway)
    BY UsedFinite
  <2> HIDE DEF Running
  <2>6. IsFiniteSet(Running) /\ Cardinality(Running) \in Nat /\ Cardinality(Registered) \in Nat
    BY <2>3, <2>5, Smaller
  <2>7. Cardinality(Registered \cup Running) = Cardinality(Registered) + Cardinality(Running) - Cardinality(Registered \cap Running)
    BY <2>5, <2>6, FS_Union
  <2>8. Cardinality(Registered \cap Running) = 0
    <3>1. Registered \cap Running = {}
      BY <2>4
    <3> QED BY <3>1, FS_EmptySet
  <2>9. Cardinality(Registered \cup Running) <= Cardinality(Used) /\ Cardinality(Registered \cup Running) \in Nat /\ Cardinality(Used) \in Nat
    <3>1. Registered \cup Running \subseteq Used
      BY <2>3 DEF Used
    <3> QED BY <2>5, <3>1, Smaller
  <2>10. CountRegistered(Rows) = Cardinality(Registered)
    BY DEF CountRegistered, Registered
  <2>11. CountRegistered(Rows) + Cardinality(Running) <= batch[b].count
    BY <2>2, <2>6, <2>7, <2>8, <2>9, <2>10
  <2> QED BY <2>11 DEF Running
<1> QED BY <1>1, Invariance, CountedAlways, PTL

-----------------------------------------------------------------------------
(* What becomes of a success and of a session.                             *)

\* A row that is saved was read before, or is new.
LEMMA SavedWasRead ==
  ASSUME IInv, NEW id \in Rows, Exists(id), NEW h, Asked(h), id = IdFor(h) PROVE h.id = id /\ h \in Readings
<1>1. id <= born /\ born \in Nat /\ id \in Nat
  BY AccountAssumption DEF IInv, Table
<1>2. h.id = id
  BY <1>1 DEF IdFor
<1> QED BY <1>2 DEF Asked, Readings

\* A task that no longer runs leaves a registered row's status.
LEMMA TaskLeaves ==
  ASSUME IInv, NEW id \in Rows, row[id].status = "registered", NEW t \in Tasks, Steps(t), task[t].id = id,
         NEW statuses, Wrote(id, statuses), ~Runs(t)
  PROVE  row'[id].status = "registered"
<1>1. Wrote(id, {row[id].status}) \/ row' = row
  BY DEF Steps, RowStep
<1> QED BY <1>1 DEF Wrote, Exists

\* A registered account is run again only after somebody interfered.
THEOREM SuccessStandsAlways == Spec => SuccessStands
<1>1. IInv /\ Ordered /\ [Next]_vars => [\A id \in Rows : row[id].status = "registered" /\ row'[id].status /= "registered" =>
        /\ meddled'
        /\ row'[id].status = "none" \/ id \in twin \cup adrift \/ \E h \in Readings : h.id = id]_vars
  <2> SUFFICES ASSUME IInv, Ordered, [Next]_vars, NEW id \in Rows, row[id].status = "registered", row'[id].status # "registered"
               PROVE  /\ meddled'
                      /\ row'[id].status = "none" \/ id \in twin \cup adrift \/ \E h \in Readings : h.id = id
    OBVIOUS
  <2>1. Exists(id) /\ (meddled => meddled') /\ (~meddled => Orderly)
    BY HistoryGrows, Zenon DEF Exists, Ordered
  <2>2. CASE row'[id].status = "none" /\ meddled'
    BY <2>2
  <2>3. ASSUME NEW t \in Tasks, NEW statuses, Steps(t), task[t].id = id, Wrote(id, statuses)
        PROVE  meddled' /\ id \in twin \cup adrift
    <3>1. Runs(t)
      BY <2>3, TaskLeaves
    <3>2. ~Alone(id)
      BY <3>1, <2>3 DEF Alone, InFlight
    <3>3. id \in twin \cup adrift
      BY <3>2 DEF IInv
    <3>4. ~Orderly
      BY <2>3, <3>1 DEF Orderly, OneOwner, Busy, InFlight
    <3> QED BY <2>1, <3>3, <3>4, Zenon
  <2>4. ASSUME NEW h, NEW keeps, Saved(id, h, keeps), h # Nothing, Asked(h), id = IdFor(h)
        PROVE  meddled' /\ \E g \in Readings : g.id = id
    <3>1. h.id = id /\ h \in Readings
      BY <2>1, <2>4, SavedWasRead
    <3>2. ASSUME Orderly PROVE FALSE
      <4>1. PICK b \in Batches : batch[b].pc \in Claiming /\ h = batch[b].held
        BY <2>4, <3>2 DEF Asked, Orderly, Single
      <4>2. row[id].status \in {"register_failed", "none"}
        BY <2>4, <3>2, <4>1, HeldFree
      <4> QED BY <4>2
    <3>3. meddled'
      BY <2>1, <3>2, Zenon
    <3> QED BY <3>1, <3>3
  <2>5. CASE Restart
    BY <2>5 DEF Restart, InFlight
  <2>6. row'[id] # row[id]
    BY <2>1
  <2> QED BY <2>2, <2>3, <2>4, <2>5, <2>6, RowAfter
<1> QED BY <1>1, Invariance, OrderedAlways, PTL DEF Spec, SuccessStands

\* Adobe keeps the cookies of an account that cannot be created again, unless
\* somebody interfered and they were not there when the row was read.
THEOREM SessionKeptAlways == Spec => SessionKept
<1>1. IInv /\ Ordered /\ [Next]_vars => [platform = "adobe" => \A id \in Rows : row[id].arp /\ row[id].auth /\ row'[id].status /= "none" =>
        \/ row'[id].auth
        \/ meddled' /\ \E h \in Readings : h.id = id /\ ~(h.old.arp /\ h.old.auth)]_vars
  <2> SUFFICES ASSUME IInv, Ordered, [Next]_vars, platform = "adobe", NEW id \in Rows, row[id].arp, row[id].auth,
                      row'[id].status # "none"
               PROVE  \/ row'[id].auth
                      \/ meddled' /\ \E h \in Readings : h.id = id /\ ~(h.old.arp /\ h.old.auth)
    OBVIOUS
  <2>1. Exists(id)
    BY DEF IInv, Table
  <2>2. (meddled => meddled') /\ (~meddled => Orderly)
    BY HistoryGrows, Zenon DEF Ordered
  <2>3. ASSUME NEW statuses, Wrote(id, statuses) PROVE row'[id].auth
    BY <2>3 DEF Wrote
  <2>4. ASSUME NEW h, NEW keeps, Keeping(keeps), Saved(id, h, keeps), h # Nothing, Asked(h), id = IdFor(h), ~row'[id].auth
        PROVE  meddled' /\ \E g \in Readings : g.id = id /\ ~(g.old.arp /\ g.old.auth)
    <3>1. h.id = id /\ h \in Readings
      BY <2>1, <2>4, SavedWasRead
    <3>2. ~(h.old.arp /\ h.old.auth)
      BY <2>4, Zenon DEF Keeping, Saved
    <3>3. ASSUME Orderly PROVE FALSE
      <4>1. PICK b \in Batches : batch[b].pc \in Claiming /\ h = batch[b].held
        BY <2>4, <3>3 DEF Asked, Orderly, Single
      <4>2. row[id].arp = h.old.arp /\ row[id].auth = h.old.auth
        BY <2>1, <2>4, <3>3, <4>1, HeldFree
      <4> QED BY <3>2, <4>2
    <3>4. meddled'
      BY <2>2, <3>3, Zenon
    <3> QED BY <3>1, <3>2, <3>4
  <2>5. ASSUME Restart PROVE row'[id].auth
    <3>1. RowOK(row[id])
      BY DEF IInv, Shape
    <3>2. row'[id] = IF row[id].status \in InFlight THEN [row[id] EXCEPT !.status = "register_failed"] ELSE row[id]
      BY <2>5 DEF Restart
    <3> QED BY <3>1, <3>2 DEF RowOK
  <2> QED BY <2>3, <2>4, <2>5, RowAfter
<1> QED BY <1>1, Invariance, OrderedAlways, PTL DEF Spec, SessionKept

=============================================================================
