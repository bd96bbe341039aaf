--------------------------- MODULE ProducerProofs ---------------------------
(***************************************************************************)
(* Proofs about Producer for every number of mailboxes, aliases and slots  *)
(* and every setting.  TypeOK is inductive by itself.  Structure ties the  *)
(* three places that know about a task together: the map p.inflight, the   *)
(* slots of the semaphore and the job the run loop carries between them.   *)
(* Scan says what the answers nextJob has so far still mean when it claims, *)
(* Rows adds what the database rows say about those tasks, and Slack what  *)
(* the two counters that are read apart let through.                       *)
(***************************************************************************)
EXTENDS Producer, FiniteSetTheorems, TLAPS

LEMMA MaxAgeNat == MaxAge \in Nat
BY SettingAssumption DEF MaxAge

LEMMA MotherAddress == \A m \in Mailboxes : Mother(m) \in Addresses
BY MailboxAssumption DEF Mother, Addresses

LEMMA AliasAddress ==
  \A m \in Mailboxes : AliasesOf(m) \subseteq Addresses
BY MailboxAssumption DEF AliasesOf, Addresses

LEMMA ZeroSuffix == 0 \in 0..(MaxAlias + 1) /\ 0 \in 0..MaxAlias
BY MailboxAssumption

(* No address stands for "none".                                           *)
LEMMA NoAddressFresh == NoAddress \notin Addresses
BY MailboxAssumption DEF NoAddress, Addresses, Mailboxes

-----------------------------------------------------------------------------
(* Type correctness.                                                       *)

(* A statement on one address's row, whichever it is.                      *)
Writes(a, s) == SetStatus(a, s) \/ UpdateStatus(a, s) \/ CreateRow(a, s)

LEMMA SetStatusType ==
  ASSUME TypeOK, NEW a \in Addresses, NEW s \in Statuses, Writes(a, s)
  PROVE  /\ status' \in [Addresses -> Statuses]
         /\ age' \in [Addresses -> 0..MaxAge]
BY MaxAgeNat DEF TypeOK, Writes, SetStatus, UpdateStatus, CreateRow

(* Every slot with a worker has a proper address; this needs no other part *)
(* of the invariant, so it is kept beside TypeOK.                          *)
SlotTyped == \A w \in Slots : stage[w] = "idle" <=> addr[w] = NoAddress
JobTyped == pc \in {"acquire", "launch"} => job \in Addresses
(* The address nextJob has cleared in full is one of the mailbox's.        *)
TakeTyped == question \in {"cool", "take"} => suffix \in 0..MaxAlias
Typed == TypeOK /\ SlotTyped /\ JobTyped /\ TakeTyped

LEMMA InitTyped == Init => Typed
<1> SUFFICES ASSUME Init PROVE Typed
  OBVIOUS
<1>1. status \in [Addresses -> Statuses] /\ age \in [Addresses -> 0..MaxAge]
  BY MaxAgeNat DEF Init, Statuses
<1>2. /\ stage \in [Slots -> Stages]
      /\ addr \in [Slots -> Addresses \cup {NoAddress}]
      /\ SlotTyped
  BY DEF Init, Stages, SlotTyped
<1>3. pc \in LoopStates /\ JobTyped
  BY DEF Init, LoopStates, JobTyped
<1>4. question \in Questions /\ suffix \in 0..(MaxAlias + 1) /\ TakeTyped
  BY MailboxAssumption DEF Init, Questions, TakeTyped
<1> QED
  BY <1>1, <1>2, <1>3, <1>4 DEF Init, Typed, TypeOK

(* A step of the scan passes the mailbox over, asks a further question     *)
(* about it, or claims.                                                    *)
LEMMA ScanEffect ==
  ASSUME Typed, NEW m \in Mailboxes, ScanStep(m)
  PROVE  /\ pc \in {"mothers", "fissions"} /\ Scanning(m) /\ Queries
         /\ \/ \E cool \in BOOLEAN : Skip(m, cool)
            \/ \E q \in Questions, i \in 0..(MaxAlias + 1) :
                  Ask(q, i) /\ (q \in {"cool", "take"} => i \in 0..MaxAlias)
            \/ /\ question = "take" /\ suffix \in 0..MaxAlias
               /\ Claim(<<m, suffix>>)
<1> USE DEF Questions
<1>1. 0 \in 0..(MaxAlias + 1) /\ 1 \in 0..(MaxAlias + 1)
  BY MailboxAssumption
<1>2. /\ suffix \in 0..(MaxAlias + 1) /\ 0 \in 0..MaxAlias
      /\ question \in {"cool", "take"} => suffix \in 0..MaxAlias
  BY MailboxAssumption DEF Typed, TypeOK, TakeTyped
<1>3. ~(suffix > MaxAlias) => /\ suffix + 1 \in 0..(MaxAlias + 1)
                              /\ suffix \in 0..MaxAlias
  BY <1>2, MailboxAssumption
<1>4. pc \in {"mothers", "fissions"} /\ Scanning(m) /\ Queries
  BY DEF ScanStep, ScanBusy, ScanGap, ScanFinal, ScanQuota, ScanAlias,
     ScanCool, ScanTake, Scanning
<1>5. CASE ScanBusy(m) \/ ScanGap(m) \/ ScanFinal(m)
  BY <1>1, <1>2, <1>4, <1>5 DEF ScanBusy, ScanGap, ScanFinal
<1>6. CASE ScanQuota(m) \/ ScanAlias(m) \/ ScanCool(m)
  BY <1>1, <1>2, <1>3, <1>4, <1>6 DEF ScanQuota, ScanAlias, ScanCool
<1>7. CASE ScanTake(m)
  BY <1>2, <1>4, <1>7 DEF ScanTake
<1> QED
  BY <1>5, <1>6, <1>7 DEF ScanStep

LEMMA LoopTyped == Typed /\ LoopStep => Typed'
<1> SUFFICES ASSUME Typed, LoopStep PROVE Typed'
  OBVIOUS
<1> USE ZeroSuffix
        DEF Typed, TypeOK, SlotTyped, JobTyped, TakeTyped, LoopStates, Stages,
        Questions, rowVars, progVars, scanVars, loopVars, workerVars,
        ScanReset, FromBusy
<1>1. CASE LoopTop
  BY <1>1 DEF LoopTop
<1>2. CASE LoopCount
  <2>1. /\ done' = 0 /\ cooling' = FALSE
        /\ pc' = "drain" \/ pc' = "top" \/ pc' = "mothers"
        /\ list' \in {{}, mbVerified} /\ todo' \in {{}, mbVerified}
        /\ question' = "busy" /\ suffix' = 0
        /\ UNCHANGED <<rowVars, progVars, inflight, job, workerVars, deleting>>
    BY <1>2 DEF LoopCount
  <2>2. cooling' \in BOOLEAN
    BY <2>1, Zenon
  <2> QED
    BY <2>1, <2>2
<1>3. CASE MothersDone
  BY <1>3 DEF MothersDone
<1>4. CASE FissionsDone
  BY <1>4 DEF FissionsDone
<1>5. CASE NoJob
  BY <1>5 DEF NoJob
<1>6. ASSUME NEW m \in Mailboxes, ScanStep(m) PROVE Typed'
  <2>1. ASSUME NEW cool \in BOOLEAN, Skip(m, cool), Queries PROVE Typed'
    BY <2>1 DEF Skip, FromBusy, Queries, Questions
  <2>2. ASSUME NEW q \in Questions, NEW i \in 0..(MaxAlias + 1),
               pc \in {"mothers", "fissions"}, Ask(q, i), Queries,
               q \in {"cool", "take"} => i \in 0..MaxAlias
        PROVE  Typed'
    BY <2>2 DEF Ask, Queries
  <2>3. ASSUME Scanning(m), Claim(<<m, suffix>>), Queries,
               suffix \in 0..MaxAlias
        PROVE  Typed'
    <3>1. <<m, suffix>> \in Addresses
      BY <2>3 DEF Addresses
    <3> QED
      BY <2>3, <3>1 DEF Claim, FromBusy, Queries, Questions
  <2> QED
    BY <1>6, <2>1, <2>2, <2>3, ScanEffect DEF Questions
<1>8. ASSUME NEW w \in Slots, AcquireSlot(w) PROVE Typed'
  BY <1>8, NoAddressFresh DEF AcquireSlot
<1>9. ASSUME NEW w \in Slots, Launch(w) PROVE Typed'
  BY <1>9 DEF Launch
<1>10. ASSUME NEW w \in Slots, LaunchCancelled(w) PROVE Typed'
  BY <1>10 DEF LaunchCancelled
<1>11. CASE AcquireCancelled
  BY <1>11 DEF AcquireCancelled
<1>12. CASE Finish
  BY <1>12 DEF Finish
<1> QED
  BY <1>1, <1>2, <1>3, <1>4, <1>5, <1>6, <1>8, <1>9, <1>10, <1>11, <1>12
  DEF LoopStep

LEMMA WorkerTyped ==
  ASSUME Typed, NEW w \in Slots, WorkerStep(w)
  PROVE  Typed'
<1> USE DEF Typed, TypeOK, SlotTyped, JobTyped, TakeTyped, Stages, rowVars,
        progVars, scanVars, loopVars, workerVars, Moves
<1>a. stage[w] # "idle" => addr[w] \in Addresses
  OBVIOUS
<1>1. CASE BeginAttempt(w)
  BY <1>1, <1>a, SetStatusType DEF BeginAttempt, WriteRow, Statuses, Writes
<1>2. CASE Succeed(w)
  BY <1>2, <1>a, SetStatusType DEF Succeed, WriteRow, Statuses, Final, Writes
<1>14. CASE BeginLook(w) \/ SucceedLook(w)
  BY <1>14 DEF BeginLook, SucceedLook, LookForRow
<1>3. CASE SkipAddress(w)
  BY <1>3, <1>a, SetStatusType DEF SkipAddress, Statuses, Final, Writes
<1>4. CASE RejectExisting(w)
  BY <1>4, <1>a, SetStatusType DEF RejectExisting, Statuses, Final, Writes
<1>5. CASE Fail(w)
  BY <1>5, <1>a, SetStatusType DEF Fail, Statuses, Writes
<1>6. CASE Panic(w)
  BY <1>6, <1>a DEF Panic
<1>7. CASE Abort(w)
  BY <1>7, <1>a, SetStatusType DEF Abort, Statuses, Writes
<1>8. CASE RecoverRow(w)
  BY <1>8, <1>a, SetStatusType DEF RecoverRow, Statuses, Writes
<1>9. CASE MarkFailed(w)
  BY <1>9, <1>a DEF MarkFailed
<1>10. CASE MarkSuccess(w)
  BY <1>10 DEF MarkSuccess
<1>11. CASE IncRegistered(w)
  BY <1>11 DEF IncRegistered
<1>12. CASE ReleaseInflight(w)
  BY <1>12 DEF ReleaseInflight
<1>13. CASE Exit(w)
  BY <1>13 DEF Exit
<1> QED
  BY <1>1, <1>2, <1>3, <1>4, <1>5, <1>6, <1>7, <1>8, <1>9, <1>10, <1>11,
     <1>12, <1>13, <1>14 DEF WorkerStep, AttemptEnds

LEMMA OtherTyped ==
  ASSUME Typed,
         \/ \E t \in Targets : Start(t)
         \/ Stop \/ Tick \/ PanelStep \/ CrashRestart
         \/ \E w \in Slots : WriteLog(w) \/ DisableMailbox(w)
  PROVE  Typed'
<1> USE MaxAgeNat, ZeroSuffix
        DEF Typed, TypeOK, SlotTyped, JobTyped, TakeTyped, LoopStates, Stages,
        Questions, FromBusy, Statuses, Final, rowVars, progVars, scanVars, loopVars, workerVars
<1>1. ASSUME NEW t \in Targets, Start(t) PROVE Typed'
  BY <1>1, SettingAssumption DEF Start
<1>2. CASE Stop
  BY <1>2 DEF Stop
<1>3. CASE Tick
  BY <1>3 DEF Tick
<1>4. ASSUME NEW a \in Addresses, DeleteRow(a) PROVE Typed'
  BY <1>4 DEF DeleteRow
<1>5. CASE DeleteAllCheck
  BY <1>5 DEF DeleteAllCheck
<1>6. CASE DeleteAllCommit
  <2>1. /\ status' \in [Addresses -> Statuses]
        /\ age' \in [Addresses -> 0..MaxAge]
    BY <1>6 DEF DeleteAllCommit
  <2>2. /\ deleting' = FALSE
        /\ UNCHANGED <<mbVerified, progVars, inflight, loopVars, workerVars>>
    BY <1>6 DEF DeleteAllCommit
  <2>3. deleting' \in BOOLEAN
    BY <2>2, Zenon
  <2> QED
    BY <2>1, <2>2, <2>3
<1>7. ASSUME NEW m \in Mailboxes, ToggleMailbox(m) PROVE Typed'
  BY <1>7 DEF ToggleMailbox
<1>8. CASE CrashRestart
  <2>1. /\ status' \in [Addresses -> Statuses]
        /\ age' \in [Addresses -> 0..MaxAge]
    BY <1>8 DEF CrashRestart
  <2>2. /\ stage' \in [Slots -> Stages]
        /\ addr' \in [Slots -> Addresses \cup {NoAddress}]
        /\ SlotTyped'
    BY <1>8 DEF CrashRestart
  <2>3. /\ running' = FALSE /\ cancelled' = FALSE /\ deleting' = FALSE
        /\ cooling' = FALSE
    BY <1>8 DEF CrashRestart, ScanReset
  <2> HIDE DEF SlotTyped
  <2> QED
    BY <1>8, <2>1, <2>2, <2>3 DEF CrashRestart, ScanReset
<1>9. ASSUME NEW w \in Slots, WriteLog(w) PROVE Typed'
  BY <1>9 DEF WriteLog
<1>10. ASSUME NEW w \in Slots, DisableMailbox(w) PROVE Typed'
  BY <1>10 DEF DisableMailbox
<1> QED
  BY <1>1, <1>2, <1>3, <1>4, <1>5, <1>6, <1>7, <1>8, <1>9, <1>10
  DEF PanelStep

LEMMA NextTyped == Typed /\ [Next]_vars => Typed'
<1> SUFFICES ASSUME Typed, [Next]_vars PROVE Typed'
  OBVIOUS
<1>1. CASE Next
  BY <1>1, LoopTyped, WorkerTyped, OtherTyped DEF Next
<1>2. CASE UNCHANGED vars
  BY <1>2 DEF vars, Typed, TypeOK, SlotTyped, JobTyped, TakeTyped, rowVars, progVars,
     scanVars, loopVars, workerVars
<1> QED
  BY <1>1, <1>2

(* Every variable of the producer keeps its type, for every setting.       *)
THEOREM TypeCorrect == Spec => []TypeOK
<1>1. Typed => TypeOK
  BY DEF Typed
<1> QED
  BY <1>1, InitTyped, NextTyped, PTL DEF Spec
-----------------------------------------------------------------------------
(* The tasks.  A slot is active from the moment the loop puts a job into   *)
(* it until its worker has released the address.                           *)

Inner == {"spawned", "opening", "creating", "working", "closing",
          "recreating", "succeeded", "marked", "failing", "aborted",
          "panicked", "settled"}
Active(w) == stage[w] = "held" \/ stage[w] \in Inner

ActiveInflight == \A w \in Slots : Active(w) => addr[w] \in inflight
ActiveDistinct ==
  \A w, v \in Slots : Active(w) /\ Active(v) /\ addr[w] = addr[v] => w = v
InflightCovered ==
  \A a \in inflight : \/ pc = "acquire" /\ a = job
                      \/ \E w \in Slots : Active(w) /\ addr[w] = a
JobFresh ==
  pc = "acquire" => /\ job \in inflight
                    /\ \A w \in Slots : Active(w) => addr[w] # job
HeldIsJob ==
  \A w \in Slots : stage[w] = "held" => pc = "launch" /\ addr[w] = job
IdleLoop ==
  /\ running <=> pc # "idle"
  /\ pc = "idle" => inflight = {} /\ \A w \in Slots : stage[w] = "idle"

(* What nextJob found out about the mailbox it looks at is still true: the *)
(* loop alone adds to p.inflight, and only a worker makes an address final.*)
ScanFree ==
  \A m \in Mailboxes : Scanning(m) /\ question # "busy" => ~Busy(m)
ScanOpen ==
  \A m \in Mailboxes : Scanning(m) /\ question \in {"cool", "take"} =>
    /\ <<m, suffix>> \in Addresses
    /\ ~IsRegistered(<<m, suffix>>)
ScanPass ==
  pc = "mothers" => /\ suffix = 0 /\ question \notin {"quota", "alias"}
                    /\ todo = {} => question = "busy"
Scan == ScanFree /\ ScanOpen /\ ScanPass

Structure ==
  /\ ActiveInflight /\ ActiveDistinct /\ InflightCovered
  /\ JobFresh /\ HeldIsJob /\ IdleLoop /\ MailboxExclusive

structVars == <<running, inflight, pc, job, stage, addr>>

LEMMA InitStructure == Init => Structure
BY DEF Init, Structure, ActiveInflight, ActiveDistinct, InflightCovered,
   JobFresh, HeldIsJob, IdleLoop, MailboxExclusive, Active, Inner

LEMMA StructureStutter == Structure /\ UNCHANGED structVars => Structure'
BY DEF structVars, Structure, ActiveInflight, ActiveDistinct, InflightCovered,
   JobFresh, HeldIsJob, IdleLoop, MailboxExclusive, Active

(* The loop moves on without a job and without touching a task.            *)
LEMMA StructureScan ==
  ASSUME Structure, pc \notin {"idle", "acquire", "launch"},
         pc' \notin {"idle", "acquire"},
         UNCHANGED <<running, inflight, stage, addr>>
  PROVE  Structure'
BY DEF Structure, ActiveInflight, ActiveDistinct, InflightCovered,
   JobFresh, HeldIsJob, IdleLoop, MailboxExclusive, Active

(* The loop claims an address of a mailbox that is not busy.               *)
LEMMA StructureClaim ==
  ASSUME Structure, pc \in {"mothers", "fissions"}, NEW a \in Addresses,
         \A b \in inflight : MailboxOf(b) # MailboxOf(a),
         Claim(a), UNCHANGED <<running, stage, addr>>
  PROVE  Structure'
<1>1. a \notin inflight
  OBVIOUS
<1> QED
  BY <1>1 DEF Claim, Structure, ActiveInflight, ActiveDistinct,
     InflightCovered, JobFresh, HeldIsJob, IdleLoop, MailboxExclusive, Active

(* A worker takes a step between spawned and settled.                      *)
LEMMA StructureInner ==
  ASSUME Typed, Structure, NEW w \in Slots, NEW from \in Inner,
         NEW to \in Inner, Moves(w, from, to),
         UNCHANGED <<running, inflight, pc, job, addr>>
  PROVE  Structure'
<1>1. \A v \in Slots : Active(v)' <=> Active(v)
  BY DEF Moves, Active, Typed, TypeOK, Inner
<1>2. \A v \in Slots : stage'[v] = "held" <=> stage[v] = "held"
  BY DEF Moves, Typed, TypeOK, Inner
<1>3. pc # "idle"
  BY DEF Moves, Structure, IdleLoop, Inner
<1> QED
  BY <1>1, <1>2, <1>3 DEF Structure, ActiveInflight, ActiveDistinct,
     InflightCovered, JobFresh, HeldIsJob, IdleLoop, MailboxExclusive

LEMMA LoopStructure == Typed /\ Structure /\ Scan /\ LoopStep => Structure'
<1> SUFFICES ASSUME Typed, Structure, Scan, LoopStep PROVE Structure'
  OBVIOUS
<1> USE DEF rowVars, progVars, scanVars, loopVars, workerVars
<1>1. CASE LoopTop
  BY <1>1, StructureScan DEF LoopTop
<1>2. CASE LoopCount
  BY <1>2, StructureScan DEF LoopCount
<1>3. CASE MothersDone
  BY <1>3, StructureScan DEF MothersDone
<1>4. CASE FissionsDone
  BY <1>4, StructureScan DEF FissionsDone
<1>5. CASE NoJob
  BY <1>5, StructureScan DEF NoJob
<1>6. ASSUME NEW m \in Mailboxes, ScanStep(m) PROVE Structure'
  <2>1. ASSUME Queries, pc \in {"mothers", "fissions"},
               (\E cool : Skip(m, cool)) \/ (\E q, i : Ask(q, i))
        PROVE  Structure'
    BY <2>1, StructureScan DEF Queries, Skip, Ask
  <2>2. ASSUME Scanning(m), question = "take", Claim(<<m, suffix>>), Queries
        PROVE  Structure'
    <3>1. <<m, suffix>> \in Addresses /\ ~Busy(m)
      BY <2>2 DEF Scan, ScanFree, ScanOpen
    <3>2. \A b \in inflight : MailboxOf(b) # MailboxOf(<<m, suffix>>)
      BY <3>1 DEF Busy, MailboxOf
    <3>3. pc \in {"mothers", "fissions"} /\ UNCHANGED <<running, stage, addr>>
      BY <2>2 DEF Scanning, Queries
    <3> QED
      BY <2>2, <3>1, <3>2, <3>3, StructureClaim
  <2>3. /\ pc \in {"mothers", "fissions"} /\ Scanning(m) /\ Queries
        /\ \/ \E cool : Skip(m, cool)
           \/ \E q, i : Ask(q, i)
           \/ question = "take" /\ Claim(<<m, suffix>>)
    BY <1>6, ScanEffect
  <2> QED
    BY <2>1, <2>2, <2>3
<1>8. ASSUME NEW w \in Slots, AcquireSlot(w) PROVE Structure'
  BY <1>8 DEF AcquireSlot, Typed, TypeOK, Structure, ActiveInflight,
     ActiveDistinct, InflightCovered, JobFresh, HeldIsJob, IdleLoop,
     MailboxExclusive, Active, Inner
<1>9. ASSUME NEW w \in Slots, Launch(w) PROVE Structure'
  <2>1. \A v \in Slots : stage[v] = "held" => v = w
    BY <1>9 DEF Launch, Structure, HeldIsJob, ActiveDistinct, Active
  <2>2. \A v \in Slots : (Active(v)' <=> Active(v)) /\ stage'[v] # "held"
    BY <1>9, <2>1 DEF Launch, Active, Typed, TypeOK, Inner
  <2> QED
    BY <1>9, <2>2 DEF Launch, Structure, ActiveInflight, ActiveDistinct,
       InflightCovered, JobFresh, HeldIsJob, IdleLoop, MailboxExclusive
<1>10. ASSUME NEW w \in Slots, LaunchCancelled(w) PROVE Structure'
  <2>1. \A v \in Slots : stage[v] = "held" => v = w
    BY <1>10 DEF LaunchCancelled, Structure, HeldIsJob, ActiveDistinct, Active
  <2>2. addr[w] = job
    BY <1>10 DEF LaunchCancelled, Structure, HeldIsJob
  <2>3. \A v \in Slots : /\ stage'[v] # "held"
                         /\ Active(v)' <=> Active(v) /\ v # w
                         /\ Active(v)' => addr'[v] = addr[v]
    BY <1>10, <2>1 DEF LaunchCancelled, Active, Typed, TypeOK, Inner
  <2> QED
    BY <1>10, <2>2, <2>3 DEF LaunchCancelled, Structure, ActiveInflight,
       ActiveDistinct, InflightCovered, JobFresh, HeldIsJob, IdleLoop,
       MailboxExclusive, Active
<1>11. CASE AcquireCancelled
  BY <1>11 DEF AcquireCancelled, Structure, ActiveInflight, ActiveDistinct,
     InflightCovered, JobFresh, HeldIsJob, IdleLoop, MailboxExclusive, Active
<1>12. CASE Finish
  BY <1>12 DEF Finish, Structure, ActiveInflight, ActiveDistinct,
     InflightCovered, JobFresh, HeldIsJob, IdleLoop, MailboxExclusive, Active,
     Inner
<1> QED
  BY <1>1, <1>2, <1>3, <1>4, <1>5, <1>6, <1>8, <1>9, <1>10, <1>11, <1>12
  DEF LoopStep

LEMMA WorkerStructure ==
  ASSUME Typed, Structure, NEW w \in Slots, WorkerStep(w)
  PROVE  Structure'
<1> USE DEF rowVars, progVars, scanVars, loopVars, workerVars
<1>1. CASE BeginAttempt(w)
  BY <1>1, StructureInner DEF BeginAttempt, WriteRow, Inner
<1>2. CASE Succeed(w)
  BY <1>2, StructureInner DEF Succeed, WriteRow, Inner
<1>14. CASE BeginLook(w) \/ SucceedLook(w)
  BY <1>14, StructureInner DEF BeginLook, SucceedLook, LookForRow, Inner
<1>3. CASE SkipAddress(w)
  BY <1>3, StructureInner DEF SkipAddress, Inner
<1>4. CASE RejectExisting(w)
  BY <1>4, StructureInner DEF RejectExisting, Inner
<1>5. CASE Fail(w)
  BY <1>5, StructureInner DEF Fail, Inner
<1>6. CASE Panic(w)
  BY <1>6, StructureInner DEF Panic, Inner
<1>7. CASE Abort(w)
  BY <1>7, StructureInner DEF Abort, Inner
<1>8. CASE RecoverRow(w)
  BY <1>8, StructureInner DEF RecoverRow, Inner
<1>9. CASE MarkFailed(w)
  BY <1>9, StructureInner DEF MarkFailed, Inner
<1>10. CASE MarkSuccess(w)
  BY <1>10, StructureInner DEF MarkSuccess, Inner
<1>11. CASE IncRegistered(w)
  BY <1>11, StructureInner DEF IncRegistered, Inner
<1>12. CASE ReleaseInflight(w)
  <2>1. \A v \in Slots : /\ stage'[v] = "held" <=> stage[v] = "held"
                         /\ Active(v)' <=> Active(v) /\ v # w
    BY <1>12 DEF ReleaseInflight, Moves, Active, Typed, TypeOK, Inner
  <2>2. Active(w) /\ pc # "idle"
    BY <1>12 DEF ReleaseInflight, Moves, Active, Inner, Structure, IdleLoop
  <2> QED
    BY <1>12, <2>1, <2>2 DEF ReleaseInflight, Structure, ActiveInflight,
       ActiveDistinct, InflightCovered, JobFresh, HeldIsJob, IdleLoop,
       MailboxExclusive
<1>13. CASE Exit(w)
  <2>1. \A v \in Slots : /\ stage'[v] = "held" <=> stage[v] = "held"
                         /\ Active(v)' <=> Active(v)
                         /\ Active(v) => addr'[v] = addr[v]
    BY <1>13 DEF Exit, Moves, Active, Typed, TypeOK, Inner
  <2>2. pc # "idle"
    BY <1>13 DEF Exit, Moves, Structure, IdleLoop
  <2> QED
    BY <1>13, <2>1, <2>2 DEF Exit, Structure, ActiveInflight, ActiveDistinct,
       InflightCovered, JobFresh, HeldIsJob, IdleLoop, MailboxExclusive,
       Active
<1> QED
  BY <1>1, <1>2, <1>3, <1>4, <1>5, <1>6, <1>7, <1>8, <1>9, <1>10, <1>11,
     <1>12, <1>13, <1>14 DEF WorkerStep, AttemptEnds

LEMMA NextStructure == Typed /\ Structure /\ Scan /\ [Next]_vars => Structure'
<1> SUFFICES ASSUME Typed, Structure, Scan, [Next]_vars PROVE Structure'
  OBVIOUS
<1> USE DEF structVars, rowVars, progVars, scanVars, loopVars, workerVars
<1>1. ASSUME NEW t \in Targets, Start(t) PROVE Structure'
  BY <1>1 DEF Start, Structure, ActiveInflight, ActiveDistinct,
     InflightCovered, JobFresh, HeldIsJob, IdleLoop, MailboxExclusive, Active,
     Inner
<1>2. CASE Stop
  BY <1>2, StructureStutter DEF Stop
<1>3. CASE Tick
  BY <1>3, StructureStutter DEF Tick
<1>4. CASE PanelStep
  BY <1>4, StructureStutter
  DEF PanelStep, DeleteRow, DeleteAllCheck, DeleteAllCommit, ToggleMailbox
<1>5. CASE CrashRestart
  BY <1>5 DEF CrashRestart, Structure, ActiveInflight, ActiveDistinct,
     InflightCovered, JobFresh, HeldIsJob, IdleLoop, MailboxExclusive, Active,
     Inner
<1>6. ASSUME NEW w \in Slots, WriteLog(w) \/ DisableMailbox(w)
      PROVE  Structure'
  BY <1>6, StructureStutter DEF WriteLog, DisableMailbox
<1>7. CASE UNCHANGED vars
  BY <1>7, StructureStutter DEF vars
<1> QED
  BY <1>1, <1>2, <1>3, <1>4, <1>5, <1>6, <1>7, LoopStructure, WorkerStructure
  DEF Next

-----------------------------------------------------------------------------
(* The rows.  Until its worker has stored an outcome, the address of a     *)
(* task is still open; a row in registering belongs to a live worker.      *)

\* The stages whose task may still write its row, and those whose row says
\* registering unless somebody deleted it.
Open == {"spawned", "opening", "creating", "working", "closing", "recreating",
         "panicked"}
AtWork == {"working", "closing", "panicked"}
Unsettled(w) == stage[w] = "held" \/ stage[w] \in Open
OpenTasks ==
  /\ \A w \in Slots : Unsettled(w) => status[addr[w]] \notin Final
  /\ pc = "acquire" => status[job] \notin Final
Rows == OpenTasks /\ RegisteringHasWorker

(* What a worker's write of status s to its own row does to the others.    *)
LEMMA WorkerWrite ==
  ASSUME Typed, Structure, NEW w \in Slots, stage[w] \in Inner,
         NEW s \in Statuses, Writes(addr[w], s)
  PROVE  /\ addr[w] \in Addresses
         /\ status' \in [Addresses -> Statuses]
         /\ status'[addr[w]] \in {status[addr[w]], s}
         /\ UpdateStatus(addr[w], s) => status'[addr[w]] \in {"absent", s}
         /\ \A a \in Addresses : a # addr[w] => status'[a] = status[a]
         /\ \A v \in Slots : Active(v) /\ v # w => addr[v] # addr[w]
         /\ pc = "acquire" => job # addr[w]
<1>1. Active(w) /\ addr[w] \in Addresses
  BY DEF Typed, TypeOK, SlotTyped, Active, Inner
<1>2. SetStatus(addr[w], s) \/ UNCHANGED <<status, age>>
  BY DEF Writes, UpdateStatus, CreateRow
<1>3. UpdateStatus(addr[w], s) =>
        SetStatus(addr[w], s) \/ (status[addr[w]] = "absent" /\ status' = status)
  BY DEF UpdateStatus
<1>4. /\ \A v \in Slots : Active(v) /\ v # w => addr[v] # addr[w]
      /\ pc = "acquire" => job # addr[w]
  BY <1>1 DEF Structure, ActiveDistinct, JobFresh
<1> QED
  BY <1>1, <1>2, <1>3, <1>4 DEF SetStatus, Typed, TypeOK

(* A step that changes no row, no address and no job keeps Rows when every *)
(* slot that becomes unsettled or stops working was so before.             *)
LEMMA RowsStutter ==
  ASSUME Rows, UNCHANGED <<status, addr>>,
         \A w \in Slots : Unsettled(w)' => Unsettled(w),
         \A w \in Slots : stage[w] \in AtWork => stage'[w] \in AtWork,
         pc' = "acquire" => pc = "acquire" /\ job' = job
  PROVE  Rows'
BY DEF Rows, OpenTasks, RegisteringHasWorker, AtWork

(* A worker whose own row ends up neither registering nor, while it is     *)
(* still unsettled, final.                                                 *)
LEMMA RowsWrite ==
  ASSUME Typed, Structure, Rows, NEW w \in Slots, stage[w] \in Open,
         NEW s \in Statuses, Writes(addr[w], s),
         NEW to, Moves(w, stage[w], to), UNCHANGED <<addr, pc, job>>,
         \/ s = "registering" /\ to = "working"
         \/ /\ s # "registering" /\ to # "held" /\ to \notin Open
            /\ status[addr[w]] = "registering" => UpdateStatus(addr[w], s)
  PROVE  Rows'
<1>a. stage[w] \in Inner
  BY DEF Open, Inner
<1>1. \A v \in Slots : v # w => stage'[v] = stage[v]
  BY DEF Moves, Typed, TypeOK
<1>2. stage'[w] = to
  BY DEF Moves, Typed, TypeOK
<1>3. \A v \in Slots : Unsettled(v) => Active(v)
  BY DEF Unsettled, Active, Inner, Open
<1>4. status'[addr[w]] = "registering" => to = "working"
  <2>1. status'[addr[w]] \in {status[addr[w]], s}
    BY <1>a, WorkerWrite
  <2>2. UpdateStatus(addr[w], s) => status'[addr[w]] \in {"absent", s}
    BY <1>a, WorkerWrite
  <2> QED
    BY <2>1, <2>2
<1>5. Unsettled(w) /\ to = "working" => status'[addr[w]] \notin Final
  <2>1. status'[addr[w]] \in {status[addr[w]], s}
    BY <1>a, WorkerWrite
  <2>2. to = "working" => s = "registering"
    BY DEF Open
  <2> QED
    BY <2>1, <2>2 DEF Rows, OpenTasks, Final
<1>6. OpenTasks'
  <2>1. ASSUME NEW v \in Slots, Unsettled(v)' PROVE status'[addr'[v]] \notin Final
    <3>1. CASE v = w
      <4>1. to \in Open /\ s = "registering" /\ to = "working"
        BY <2>1, <3>1, <1>2 DEF Unsettled
      <4>2. Unsettled(w)
        BY DEF Unsettled
      <4> QED
        BY <3>1, <4>1, <4>2, <1>5
    <3>2. CASE v # w
      <4>1. Unsettled(v) /\ addr[v] # addr[w] /\ addr[v] \in Addresses
        BY <2>1, <3>2, <1>1, <1>3, <1>a, WorkerWrite
        DEF Unsettled, Open, Typed, TypeOK, SlotTyped
      <4> QED
        BY <4>1, <1>a, WorkerWrite DEF Rows, OpenTasks
    <3> QED
      BY <3>1, <3>2
  <2>2. ASSUME pc = "acquire" PROVE status'[job] \notin Final
    BY <2>2, <1>a, WorkerWrite DEF Rows, OpenTasks, Typed, JobTyped
  <2> QED
    BY <2>1, <2>2 DEF OpenTasks
<1>7. RegisteringHasWorker'
  <2> SUFFICES ASSUME NEW a \in Addresses, status'[a] = "registering"
               PROVE  \E v \in Slots : /\ addr[v] = a
                                       /\ stage'[v] \in AtWork
    BY DEF RegisteringHasWorker, AtWork
  <2>1. CASE a = addr[w]
    BY <2>1, <1>2, <1>4 DEF AtWork
  <2>2. CASE a # addr[w]
    <3>1. status[a] = "registering"
      BY <2>2, <1>a, WorkerWrite
    <3>2. PICK v \in Slots : addr[v] = a /\ stage[v] \in AtWork
      BY <3>1 DEF Rows, RegisteringHasWorker, AtWork
    <3> QED
      BY <3>2, <2>2, <1>1
  <2> QED
    BY <2>1, <2>2
<1> QED
  BY <1>6, <1>7 DEF Rows

LEMMA LoopRows == Typed /\ Structure /\ Rows /\ Scan /\ LoopStep => Rows'
<1> SUFFICES ASSUME Typed, Structure, Rows, Scan, LoopStep PROVE Rows'
  OBVIOUS
<1> USE DEF rowVars, progVars, scanVars, loopVars, workerVars
<1>1. CASE LoopTop \/ LoopCount \/ MothersDone \/ FissionsDone \/ NoJob \/ Finish
  BY <1>1, RowsStutter
  DEF LoopTop, LoopCount, MothersDone, FissionsDone, NoJob, Finish, Unsettled
<1>2. ASSUME NEW m \in Mailboxes, ScanStep(m) PROVE Rows'
  <2>1. ASSUME Queries, pc \in {"mothers", "fissions"},
               (\E cool : Skip(m, cool)) \/ (\E q, i : Ask(q, i))
        PROVE  Rows'
    BY <2>1, RowsStutter DEF Queries, Skip, Ask, Unsettled
  <2>2. ASSUME Scanning(m), question = "take", Claim(<<m, suffix>>), Queries
        PROVE  Rows'
    <3>1. status[<<m, suffix>>] \notin Final
      BY <2>2 DEF Scan, ScanOpen, IsRegistered
    <3>2. job' = <<m, suffix>> /\ UNCHANGED <<status, stage, addr>>
      BY <2>2 DEF Claim, Queries
    <3> QED
      BY <3>1, <3>2 DEF Rows, OpenTasks, RegisteringHasWorker, Unsettled
  <2>3. /\ pc \in {"mothers", "fissions"} /\ Scanning(m) /\ Queries
        /\ \/ \E cool : Skip(m, cool)
           \/ \E q, i : Ask(q, i)
           \/ question = "take" /\ Claim(<<m, suffix>>)
    BY <1>2, ScanEffect
  <2> QED
    BY <2>1, <2>2, <2>3
<1>4. ASSUME NEW w \in Slots, AcquireSlot(w) PROVE Rows'
  BY <1>4 DEF AcquireSlot, Rows, OpenTasks, RegisteringHasWorker, Unsettled,
     Open, Typed, TypeOK
<1>5. ASSUME NEW w \in Slots, Launch(w) PROVE Rows'
  BY <1>5, RowsStutter DEF Launch, Unsettled, Open, AtWork, Typed, TypeOK
<1>6. ASSUME NEW w \in Slots, LaunchCancelled(w) PROVE Rows'
  BY <1>6 DEF LaunchCancelled, Rows, OpenTasks, RegisteringHasWorker,
     Unsettled, Open, Typed, TypeOK
<1>7. CASE AcquireCancelled
  BY <1>7, RowsStutter DEF AcquireCancelled, Unsettled
<1> QED
  BY <1>1, <1>2, <1>4, <1>5, <1>6, <1>7 DEF LoopStep

LEMMA WorkerRows ==
  ASSUME Typed, Structure, Rows, NEW w \in Slots, WorkerStep(w)
  PROVE  Rows'
<1> USE DEF rowVars, progVars, scanVars, loopVars, workerVars
<1>1. CASE BeginAttempt(w)
  <2>1. /\ Moves(w, stage[w], "working") /\ stage[w] \in {"opening", "creating"}
        /\ Writes(addr[w], "registering")
        /\ UNCHANGED <<addr, pc, job>>
    BY <1>1 DEF BeginAttempt, WriteRow, Moves, Writes
  <2>2. "registering" \in Statuses /\ stage[w] \in Open
    BY <2>1 DEF Statuses, Open
  <2> QED
    BY <2>1, <2>2, RowsWrite
<1>2. CASE Succeed(w)
  <2>1. /\ Moves(w, stage[w], "succeeded") /\ stage[w] \in {"closing", "recreating"}
        /\ Writes(addr[w], "registered")
        /\ stage[w] = "closing" => UpdateStatus(addr[w], "registered")
        /\ UNCHANGED <<addr, pc, job>>
    BY <1>2 DEF Succeed, WriteRow, Moves, Writes
  <2>2. "registered" \in Statuses /\ stage[w] \in Open /\ Active(w)
    BY <2>1 DEF Statuses, Final, Open, Active, Inner
  <2>3. ASSUME status[addr[w]] = "registering" PROVE stage[w] = "closing"
    <3>1. addr[w] \in Addresses
      BY <2>1 DEF Typed, TypeOK, SlotTyped
    <3>2. PICK v \in Slots : addr[v] = addr[w] /\ stage[v] \in AtWork
      BY <2>3, <3>1 DEF Rows, RegisteringHasWorker, AtWork
    <3>3. Active(v)
      BY <3>2 DEF Active, Inner, AtWork
    <3>4. v = w
      BY <3>2, <3>3, <2>2 DEF Structure, ActiveDistinct
    <3> QED
      BY <3>2, <3>4, <2>1 DEF AtWork
  <2>4. "succeeded" \notin Open
    BY DEF Open
  <2> QED
    BY <2>1, <2>2, <2>3, <2>4, RowsWrite
<1>14. CASE BeginLook(w) \/ SucceedLook(w)
  <2>1. /\ UNCHANGED <<status, addr, pc, job>>
        /\ \A v \in Slots : v # w => stage'[v] = stage[v]
        /\ stage[w] \in {"spawned", "working"}
        /\ stage'[w] \in Open
    BY <1>14 DEF BeginLook, SucceedLook, LookForRow, Moves, Open, Typed, TypeOK
  <2>2. OpenTasks'
    <3>1. \A v \in Slots : Unsettled(v)' => Unsettled(v)
      BY <2>1 DEF Unsettled, Open
    <3> QED
      BY <2>1, <3>1 DEF Rows, OpenTasks
  <2>3. RegisteringHasWorker'
    <3> SUFFICES ASSUME NEW a \in Addresses, status[a] = "registering"
                 PROVE  \E v \in Slots : addr[v] = a /\ stage'[v] \in AtWork
      BY <2>1 DEF RegisteringHasWorker, AtWork
    <3>1. PICK v \in Slots : addr[v] = a /\ stage[v] \in AtWork
      BY DEF Rows, RegisteringHasWorker, AtWork
    <3>2. CASE v = w
      <4>1. stage[w] = "working" /\ stage'[w] = "closing"
        BY <1>14, <2>1, <3>1, <3>2
        DEF BeginLook, SucceedLook, LookForRow, Moves, AtWork, Typed, TypeOK
      <4> QED
        BY <3>1, <3>2, <4>1 DEF AtWork
    <3> QED
      BY <2>1, <3>1, <3>2
  <2> QED
    BY <2>2, <2>3 DEF Rows
<1>3. CASE SkipAddress(w)
  <2>1. /\ Moves(w, "working", "settled") /\ stage[w] = "working"
        /\ UNCHANGED <<addr, pc, job>>
        /\ \E s \in {"already_registered", "register_rejected"} :
              UpdateStatus(addr[w], s)
    BY <1>3 DEF SkipAddress, Moves
  <2>2. /\ {"already_registered", "register_rejected"} \subseteq Statuses
        /\ "working" \in Open /\ "settled" \notin Open
    BY DEF Statuses, Final, Open
  <2> QED
    BY <2>1, <2>2, RowsWrite DEF Writes
<1>4. CASE RejectExisting(w)
  <2>1. /\ Moves(w, "working", "failing") /\ stage[w] = "working"
        /\ UpdateStatus(addr[w], "register_rejected")
        /\ UNCHANGED <<addr, pc, job>>
    BY <1>4 DEF RejectExisting, Moves
  <2>2. /\ "register_rejected" \in Statuses /\ "working" \in Open
        /\ "failing" \notin Open
    BY DEF Statuses, Final, Open
  <2> QED
    BY <2>1, <2>2, RowsWrite DEF Writes
<1>5. CASE Fail(w)
  <2>1. /\ Moves(w, "working", "failing") /\ stage[w] = "working"
        /\ UpdateStatus(addr[w], "register_failed")
        /\ UNCHANGED <<addr, pc, job>>
    BY <1>5 DEF Fail, Moves
  <2>2. /\ "register_failed" \in Statuses /\ "working" \in Open
        /\ "failing" \notin Open /\ "aborted" \notin Open
    BY DEF Statuses, Final, Open
  <2> QED
    BY <2>1, <2>2, RowsWrite DEF Writes
<1>6. CASE Panic(w)
  BY <1>6, RowsStutter DEF Panic, Moves, Unsettled, Open, AtWork, Typed, TypeOK
<1>7. CASE Abort(w)
  <2>1. /\ Moves(w, "working", "aborted") /\ stage[w] = "working"
        /\ UpdateStatus(addr[w], "register_failed")
        /\ UNCHANGED <<addr, pc, job>>
    BY <1>7 DEF Abort, Moves
  <2>2. /\ "register_failed" \in Statuses /\ "working" \in Open
        /\ "failing" \notin Open /\ "aborted" \notin Open
    BY DEF Statuses, Final, Open
  <2> QED
    BY <2>1, <2>2, RowsWrite DEF Writes
<1>8. CASE RecoverRow(w)
  <2>1. /\ Moves(w, "panicked", "settled") /\ stage[w] = "panicked"
        /\ UpdateStatus(addr[w], "register_failed")
        /\ UNCHANGED <<addr, pc, job>>
    BY <1>8 DEF RecoverRow, Moves
  <2>2. /\ "register_failed" \in Statuses /\ "panicked" \in Open
        /\ "settled" \notin Open
    BY DEF Statuses, Final, Open
  <2> QED
    BY <2>1, <2>2, RowsWrite DEF Writes
<1>9. CASE MarkFailed(w) \/ MarkSuccess(w) \/ IncRegistered(w) \/ ReleaseInflight(w)
  BY <1>9, RowsStutter
  DEF MarkFailed, MarkSuccess, IncRegistered, ReleaseInflight, Moves,
      Unsettled, Open, AtWork, Typed, TypeOK
<1>10. CASE Exit(w)
  BY <1>10 DEF Exit, Moves, Rows, OpenTasks, RegisteringHasWorker, Unsettled,
     Open, Typed, TypeOK
<1> QED
  BY <1>1, <1>2, <1>3, <1>4, <1>5, <1>6, <1>7, <1>8, <1>9, <1>10,
     <1>14 DEF WorkerStep, AttemptEnds

LEMMA NextRows == Typed /\ Structure /\ Rows /\ Scan /\ [Next]_vars => Rows'
<1> SUFFICES ASSUME Typed, Structure, Rows, Scan, [Next]_vars PROVE Rows'
  OBVIOUS
<1> USE DEF rowVars, progVars, scanVars, loopVars, workerVars
<1>1. ASSUME NEW t \in Targets, Start(t) PROVE Rows'
  BY <1>1, RowsStutter DEF Start, Unsettled
<1>2. CASE Stop \/ Tick \/ UNCHANGED vars \/ DeleteAllCheck
  BY <1>2, RowsStutter DEF Stop, Tick, vars, DeleteAllCheck, Unsettled
<1>3. ASSUME NEW a \in Addresses, DeleteRow(a) PROVE Rows'
  BY <1>3 DEF DeleteRow, Rows, OpenTasks, RegisteringHasWorker, Unsettled,
     Final, Typed, TypeOK
<1>4. CASE DeleteAllCommit
  <2>1. \A a \in Addresses : status'[a] = "absent"
    BY <1>4 DEF DeleteAllCommit
  <2>2. \A w \in Slots : Unsettled(w) => addr[w] \in Addresses
    BY DEF Unsettled, Open, Typed, TypeOK, SlotTyped
  <2> QED
    BY <1>4, <2>1, <2>2 DEF DeleteAllCommit, Rows, OpenTasks,
       RegisteringHasWorker, Unsettled, Final, Typed, JobTyped
<1>5. ASSUME NEW m \in Mailboxes, ToggleMailbox(m) PROVE Rows'
  BY <1>5, RowsStutter DEF ToggleMailbox, Unsettled
<1>6. CASE CrashRestart
  BY <1>6 DEF CrashRestart, Rows, OpenTasks, RegisteringHasWorker, Unsettled,
     Open, Typed, TypeOK
<1>7. ASSUME NEW w \in Slots, WriteLog(w) \/ DisableMailbox(w) PROVE Rows'
  BY <1>7, RowsStutter DEF WriteLog, DisableMailbox, Unsettled
<1> QED
  BY <1>1, <1>2, <1>3, <1>4, <1>5, <1>6, <1>7, LoopRows, WorkerRows
  DEF Next, PanelStep

(* Outside the loop's own steps a mailbox only becomes free, and no address *)
(* of a mailbox without a task becomes final.                              *)
LEMMA ScanKept ==
  ASSUME Typed, Scan, UNCHANGED <<pc, todo, question, suffix>>,
         inflight' \subseteq inflight,
         \A a \in Addresses : IsRegistered(a)' => IsRegistered(a) \/ a \in inflight
  PROVE  Scan'
<1>1. \A m \in Mailboxes : Scanning(m)' <=> Scanning(m)
  BY DEF Scanning
<1>2. ScanFree'
  BY <1>1 DEF Scan, ScanFree, Busy
<1>3. ASSUME NEW m \in Mailboxes, Scanning(m), question \in {"cool", "take"}
      PROVE  <<m, suffix>> \in Addresses /\ ~IsRegistered(<<m, suffix>>)'
  <2>1. <<m, suffix>> \in Addresses /\ ~IsRegistered(<<m, suffix>>) /\ ~Busy(m)
    BY <1>3 DEF Scan, ScanOpen, ScanFree
  <2>2. <<m, suffix>> \notin inflight
    BY <2>1 DEF Busy, MailboxOf
  <2> QED
    BY <2>1, <2>2
<1>4. ScanOpen'
  BY <1>1, <1>3 DEF ScanOpen, IsRegistered
<1> QED
  BY <1>2, <1>4 DEF Scan, ScanPass

(* Where nextJob looks at nothing yet, there is nothing to keep.           *)
LEMMA ScanNothing ==
  ASSUME pc' \in {"mothers", "fissions"} => question' = "busy" /\ suffix' = 0
  PROVE  Scan'
BY DEF Scan, ScanFree, ScanOpen, ScanPass, Scanning

LEMMA ScanScan ==
  ASSUME Typed, Scan, NEW m \in Mailboxes, ScanStep(m)
  PROVE  Scan'
<1> USE DEF rowVars, progVars, scanVars, loopVars, workerVars
<1>1. ASSUME \E cool : Skip(m, cool) PROVE Scan'
  <2>1. question' = "busy" /\ suffix' = 0
    BY <1>1 DEF Skip, FromBusy
  <2> QED
    BY <2>1, ScanNothing
<1>2. ASSUME question = "take", Claim(<<m, suffix>>) PROVE Scan'
  <2>1. pc' = "acquire"
    BY <1>2 DEF Claim
  <2> QED
    BY <2>1, ScanNothing
<1>3. ASSUME NEW q \in Questions, NEW i \in 0..(MaxAlias + 1), Ask(q, i), Queries,
             Scanning(m), ~Busy(m),
             q \in {"cool", "take"} =>
               i \in 0..MaxAlias /\ ~IsRegistered(<<m, i>>),
             pc = "mothers" => i = 0 /\ q \notin {"quota", "alias"}
      PROVE  Scan'
  <2>1. \A n \in Mailboxes : Scanning(n) => n = m
    BY <1>3 DEF Scanning, Mailboxes
  <2>2. \A n \in Mailboxes : Scanning(n)' <=> Scanning(n)
    BY <1>3 DEF Scanning, Ask
  <2>3. Busy(m)' <=> Busy(m)
    BY <1>3 DEF Busy, Ask
  <2>4. q \in {"cool", "take"} => <<m, i>> \in Addresses
    BY <1>3 DEF Addresses
  <2>5. status' = status /\ question' = q /\ suffix' = i /\ pc' = pc
    BY <1>3 DEF Queries, Ask
  <2>6. ScanFree'
    BY <1>3, <2>1, <2>2, <2>3 DEF ScanFree
  <2>7. ScanOpen'
    BY <1>3, <2>1, <2>2, <2>4, <2>5 DEF ScanOpen, IsRegistered
  <2>8. ScanPass'
    <3>1. todo' # {}
      BY <1>3 DEF Ask, Scanning
    <3> QED
      BY <1>3, <2>5, <3>1 DEF ScanPass
  <2> QED
    BY <2>6, <2>7, <2>8 DEF Scan
<1>a. Scanning(m) /\ Queries
  BY ScanEffect
<1>b. question # "busy" => ~Busy(m)
  BY <1>a DEF Scan, ScanFree
<1>c. question \in {"cool", "take"} =>
        suffix \in 0..MaxAlias /\ ~IsRegistered(<<m, suffix>>)
  BY <1>a DEF Scan, ScanOpen, Typed, TakeTyped
<1>d. pc = "mothers" => suffix = 0 /\ question \notin {"quota", "alias"}
  BY DEF Scan, ScanPass
<1>e. /\ {"gap", "final", "cool", "quota", "alias", "take"} \subseteq Questions
      /\ 0 \in 0..(MaxAlias + 1) /\ 1 \in 0..(MaxAlias + 1) /\ 0 \in 0..MaxAlias
      /\ suffix \in 0..(MaxAlias + 1)
  BY MailboxAssumption DEF Questions, Typed, TypeOK
<1>4. CASE ScanBusy(m)
  <2>1. (\E cool : Skip(m, cool)) \/ (Ask("gap", 0) /\ ~Busy(m))
    BY <1>4 DEF ScanBusy
  <2> QED
    BY <2>1, <1>1, <1>3, <1>a, <1>e
<1>5. CASE ScanGap(m)
  <2>1. ((\E cool : Skip(m, cool)) \/ Ask("final", 0)) /\ ~Busy(m)
    BY <1>5, <1>b DEF ScanGap
  <2> QED
    BY <2>1, <1>1, <1>3, <1>a, <1>e
<1>6. CASE ScanFinal(m)
  <2>1. /\ ~Busy(m)
        /\ \/ \E cool : Skip(m, cool)
           \/ pc = "mothers" /\ ~IsRegistered(<<m, 0>>) /\ Ask("cool", 0)
           \/ pc # "mothers" /\ Ask("quota", 0)
    BY <1>6, <1>b DEF ScanFinal, Mother, IsRegistered
  <2> QED
    BY <2>1, <1>1, <1>3, <1>a, <1>e
<1>7. CASE ScanQuota(m)
  <2>1. /\ ~Busy(m) /\ pc # "mothers"
        /\ (\E cool : Skip(m, cool)) \/ Ask("alias", 1)
    BY <1>7, <1>b, <1>d DEF ScanQuota
  <2> QED
    BY <2>1, <1>1, <1>3, <1>a, <1>e
<1>8. CASE ScanAlias(m)
  <2>1. ~(suffix > MaxAlias) =>
          suffix \in 0..MaxAlias /\ suffix + 1 \in 0..(MaxAlias + 1)
    BY <1>e, MailboxAssumption
  <2>2. /\ ~Busy(m) /\ pc # "mothers"
        /\ \/ \E cool : Skip(m, cool)
           \/ ~(suffix > MaxAlias) /\ Ask("alias", suffix + 1)
           \/ /\ ~(suffix > MaxAlias) /\ ~IsRegistered(<<m, suffix>>)
              /\ Ask("cool", suffix)
    BY <1>8, <1>b, <1>d DEF ScanAlias
  <2> QED
    BY <2>1, <2>2, <1>1, <1>3, <1>a, <1>e
<1>9. CASE ScanCool(m)
  <2>1. /\ ~Busy(m)
        /\ (\E cool : Skip(m, cool)) \/ Ask("take", suffix)
        /\ suffix \in 0..MaxAlias /\ ~IsRegistered(<<m, suffix>>)
    BY <1>9, <1>b, <1>c DEF ScanCool
  <2> QED
    BY <2>1, <1>1, <1>3, <1>a, <1>d, <1>e
<1>10. CASE ScanTake(m)
  BY <1>10, <1>2 DEF ScanTake
<1> QED
  BY <1>4, <1>5, <1>6, <1>7, <1>8, <1>9, <1>10 DEF ScanStep

LEMMA LoopScan == Typed /\ Scan /\ LoopStep => Scan'
<1> SUFFICES ASSUME Typed, Scan, LoopStep PROVE Scan'
  OBVIOUS
<1> USE DEF rowVars, progVars, scanVars, loopVars, workerVars
<1>1. CASE LoopTop \/ LoopCount \/ FissionsDone \/ NoJob \/ Finish \/ AcquireCancelled
  <2>1. pc' \in {"mothers", "fissions"} => question' = "busy" /\ suffix' = 0
    BY <1>1 DEF LoopTop, LoopCount, FissionsDone, NoJob, Finish,
       AcquireCancelled, ScanReset, FromBusy
  <2> QED
    BY <2>1, ScanNothing
<1>2. CASE MothersDone
  BY <1>2 DEF MothersDone, Scan, ScanFree, ScanOpen, ScanPass, Scanning
<1>3. ASSUME NEW w \in Slots, AcquireSlot(w) \/ Launch(w) \/ LaunchCancelled(w)
      PROVE  Scan'
  <2>1. pc' \notin {"mothers", "fissions"}
    BY <1>3 DEF AcquireSlot, Launch, LaunchCancelled
  <2> QED
    BY <2>1, ScanNothing
<1> QED
  BY <1>1, <1>2, <1>3, ScanScan DEF LoopStep

(* A worker's statement on its own address's row.                          *)
LEMMA WorkerScan ==
  ASSUME Typed, Structure, Scan, NEW w \in Slots, WorkerStep(w)
  PROVE  Scan'
<1> USE DEF rowVars, progVars, scanVars, loopVars, workerVars
<1>1. /\ UNCHANGED <<pc, todo, question, suffix>> /\ inflight' \subseteq inflight
  BY DEF WorkerStep, AttemptEnds, BeginLook, SucceedLook, LookForRow,
     BeginAttempt, Succeed, WriteRow, SkipAddress, RejectExisting, Fail, Panic,
     Abort, RecoverRow, MarkFailed, MarkSuccess, IncRegistered,
     ReleaseInflight, Exit
<1>2. \/ UNCHANGED status
      \/ stage[w] \in Inner /\ \E t \in Statuses : Writes(addr[w], t)
  BY DEF WorkerStep, AttemptEnds, BeginLook, SucceedLook, LookForRow,
     BeginAttempt, Succeed, WriteRow, SkipAddress, RejectExisting, Fail, Panic,
     Abort, RecoverRow, MarkFailed, MarkSuccess, IncRegistered,
     ReleaseInflight, Exit, Moves, Inner, Writes, Statuses, Final
<1>3. \A a \in Addresses : IsRegistered(a)' => IsRegistered(a) \/ a \in inflight
  <2>1. CASE UNCHANGED status
    BY <2>1 DEF IsRegistered
  <2>2. ASSUME stage[w] \in Inner, NEW t \in Statuses, Writes(addr[w], t)
        PROVE  \A a \in Addresses : IsRegistered(a)' => IsRegistered(a) \/ a \in inflight
    <3>1. addr[w] \in inflight
      BY <2>2 DEF Structure, ActiveInflight, Active
    <3> QED
      BY <2>2, <3>1, WorkerWrite DEF IsRegistered
  <2> QED
    BY <1>2, <2>1, <2>2
<1> QED
  BY <1>1, <1>3, ScanKept

LEMMA NextScan == Typed /\ Structure /\ Scan /\ [Next]_vars => Scan'
<1> SUFFICES ASSUME Typed, Structure, Scan, [Next]_vars PROVE Scan'
  OBVIOUS
<1> USE DEF rowVars, progVars, scanVars, loopVars, workerVars
<1>1. ASSUME (\E t \in Targets : Start(t)) \/ CrashRestart PROVE Scan'
  <2>1. pc' \in {"top", "idle"}
    BY <1>1 DEF Start, CrashRestart
  <2> QED
    BY <2>1, ScanNothing
<1>2. CASE \/ Stop \/ Tick \/ PanelStep \/ UNCHANGED vars
           \/ \E w \in Slots : WriteLog(w) \/ DisableMailbox(w)
  <2>1. UNCHANGED <<pc, todo, question, suffix, inflight>>
    BY <1>2 DEF Stop, Tick, PanelStep, DeleteRow, DeleteAllCheck,
       DeleteAllCommit, ToggleMailbox, WriteLog, DisableMailbox, vars
  <2>2. \A a \in Addresses : status'[a] \in {status[a], "absent"}
    BY <1>2 DEF Stop, Tick, PanelStep, DeleteRow, DeleteAllCheck,
       DeleteAllCommit, ToggleMailbox, WriteLog, DisableMailbox, vars, Typed,
       TypeOK
  <2>3. \A a \in Addresses : IsRegistered(a)' => IsRegistered(a)
    BY <2>2 DEF IsRegistered, Final
  <2> QED
    BY <2>1, <2>3, ScanKept
<1> QED
  BY <1>1, <1>2, LoopScan, WorkerScan DEF Next

Inv == Typed /\ Structure /\ Rows /\ Scan

LEMMA Invariant == Spec => []Inv
<1>1. Init => Inv
  <2> SUFFICES ASSUME Init PROVE Inv
    OBVIOUS
  <2>1. Typed /\ Structure
    BY InitTyped, InitStructure
  <2>2. Rows
    BY DEF Init, Rows, OpenTasks, RegisteringHasWorker, Unsettled, Open
  <2>3. Scan
    BY DEF Init, Scan, ScanFree, ScanOpen, ScanPass, Scanning
  <2> QED
    BY <2>1, <2>2, <2>3 DEF Inv
<1>2. Inv /\ [Next]_vars => Inv'
  BY NextTyped, NextStructure, NextRows, NextScan DEF Inv
<1> QED
  BY <1>1, <1>2, PTL DEF Spec

(* Two registrations never use one mailbox at the same time.               *)
THEOREM MailboxExclusiveAlways == Spec => []MailboxExclusive
<1>1. Inv => MailboxExclusive
  BY DEF Inv, Structure
<1> QED
  BY <1>1, Invariant, PTL

(* When Running is false, no task, no worker and no slot is left.          *)
THEOREM QuietWhenStoppedAlways == Spec => []QuietWhenStopped
<1>1. Inv => QuietWhenStopped
  BY DEF Inv, Structure, IdleLoop, QuietWhenStopped
<1> QED
  BY <1>1, Invariant, PTL
(* No row is ever left in registering without a worker that will settle    *)
(* it, through failures, panics, deletions and restarts.                   *)
THEOREM RegisteringHasWorkerAlways == Spec => []RegisteringHasWorker
<1>1. Inv => RegisteringHasWorker
  BY DEF Inv, Rows
<1> QED
  BY <1>1, Invariant, PTL
-----------------------------------------------------------------------------
(* Final addresses.                                                        *)

FinalKept ==
  \A a \in Addresses : status[a] \in Final => status'[a] \in {status[a], "absent"}

FinalSet == {a \in Addresses : IsRegistered(a)}

(* A worker's write: only its own, still open, address can become final.   *)
LEMMA OpenWrite ==
  ASSUME Inv, NEW w \in Slots, stage[w] \in Open,
         NEW s \in Statuses,
         Writes(addr[w], s)
  PROVE  /\ FinalKept
         /\ \/ FinalSet' = FinalSet
            \/ /\ s \in Final
               /\ addr[w] \in inflight /\ addr[w] \notin FinalSet
               /\ FinalSet' = FinalSet \cup {addr[w]}
<1>1. stage[w] \in Inner
  BY DEF Open, Inner
<1>2. /\ addr[w] \in Addresses
      /\ status'[addr[w]] \in {status[addr[w]], s}
      /\ \A a \in Addresses : a # addr[w] => status'[a] = status[a]
  BY <1>1, WorkerWrite DEF Inv
<1>3. status[addr[w]] \notin Final /\ addr[w] \in inflight
  BY <1>1 DEF Inv, Rows, OpenTasks, Unsettled, Structure, ActiveInflight, Active
<1>4. FinalKept
  BY <1>2, <1>3 DEF FinalKept
<1>5. CASE status'[addr[w]] \in Final
  BY <1>2, <1>3, <1>4, <1>5 DEF FinalSet, IsRegistered
<1>6. CASE status'[addr[w]] \notin Final
  <2>1. \A a \in Addresses : status'[a] \in Final <=> status[a] \in Final
    BY <1>2, <1>3, <1>6
  <2> QED
    BY <1>4, <2>1 DEF FinalSet, IsRegistered
<1> QED
  BY <1>5, <1>6

(* The steps of the abstract specification.                                *)
AbstractStep == [Claims!Next]_<<inflight, FinalSet, Cleared>>

LEMMA NotCleared ==
  /\ pc # "fissions" => Cleared = {}
  /\ pc' # "fissions" => Cleared' = {}
BY DEF Cleared

\* The scan stays where it is, or is not in its second pass.
ClearedKept ==
  \/ UNCHANGED <<pc, todo, question>>
  \/ pc # "fissions" /\ pc' # "fissions"

LEMMA ClearedUnchanged == ClearedKept => UNCHANGED Cleared
<1>1. UNCHANGED <<pc, todo, question>> => UNCHANGED Cleared
  BY DEF Cleared, Scanning
<1> QED
  BY <1>1, NotCleared DEF ClearedKept

LEMMA ClaimsUnchanged ==
  ASSUME UNCHANGED <<inflight, status>>, UNCHANGED Cleared
  PROVE  AbstractStep
BY DEF AbstractStep, FinalSet, IsRegistered

LEMMA ClaimsRelease ==
  ASSUME UNCHANGED status, UNCHANGED Cleared, NEW a \in inflight,
         inflight \subseteq Addresses, inflight' = inflight \ {a}
  PROVE  AbstractStep
<1>1. FinalSet' = FinalSet
  BY DEF FinalSet, IsRegistered
<1>2. Claims!Release(a) /\ a \in Claims!Address
  BY <1>1 DEF Claims!Release, Claims!Address, Addresses, FinalSet
<1> QED
  BY <1>2 DEF AbstractStep, Claims!Next

(* Of the steps of the scan one clears a mailbox, those that go on to the  *)
(* next mailbox pass it over, and one claims; the others change nothing.   *)
LEMMA ScanClaims ==
  ASSUME Inv, NEW m \in Mailboxes, ScanStep(m)
  PROVE  AbstractStep
<1>1. Scanning(m) /\ Queries /\ \A n \in Mailboxes : Scanning(n) => n = m
  <2>1. Scanning(m) /\ Queries
    BY ScanEffect DEF Inv
  <2> QED
    BY <2>1 DEF Scanning, Mailboxes
<1>2. UNCHANGED status /\ FinalSet' = FinalSet
  BY <1>1 DEF Queries, rowVars, FinalSet, IsRegistered
<1>3. ASSUME UNCHANGED inflight, Cleared' = Cleared \ {m} PROVE AbstractStep
  <2>1. Claims!Pass(m)
    BY <1>2, <1>3 DEF Claims!Pass, FinalSet
  <2> QED
    BY <2>1 DEF AbstractStep, Claims!Next
<1>4. ASSUME NEW cool, Skip(m, cool) PROVE AbstractStep
  <2>1. Cleared' = {} /\ Cleared \subseteq {m}
    BY <1>1, <1>4 DEF Skip, FromBusy, Cleared
  <2> QED
    BY <2>1, <1>3, <1>4 DEF Skip
<1>5. ASSUME question = "take", Claim(<<m, suffix>>) PROVE AbstractStep
  <2> DEFINE a == <<m, suffix>>
  <2>1. a \in Addresses /\ a \notin FinalSet /\ ~Busy(m)
    BY <1>1, <1>5 DEF Inv, Scan, ScanOpen, ScanFree, FinalSet
  <2>2. suffix # 0 => m \in Cleared
    BY <1>1, <1>5 DEF Inv, Scan, ScanPass, Cleared, Scanning
  <2>3. Cleared' = Cleared \ {m}
    <3>1. Cleared' = {} /\ Cleared \subseteq {m}
      BY <1>1, <1>5, NotCleared DEF Claim, Cleared
    <3> QED
      BY <3>1
  <2>4. \A b \in inflight : b[1] # m
    BY <2>1 DEF Busy, MailboxOf
  <2>5. a[1] = m /\ a[2] = suffix /\ inflight' = inflight \cup {a}
    BY <1>5 DEF Claim
  <2> HIDE DEF a
  <2>6. Claims!Claim(a) /\ a \in Claims!Address
    BY <1>2, <2>1, <2>2, <2>3, <2>4, <2>5
    DEF Claims!Claim, Claims!Free, Claims!Address, Addresses, FinalSet
  <2> QED
    BY <2>6 DEF AbstractStep, Claims!Next
<1>6. ASSUME NEW q, NEW i, Ask(q, i), question # "final" \/ pc = "mothers",
             question \in {"quota", "alias", "cool"} \/ pc = "mothers"
               => q \in {"quota", "alias", "cool", "take"} \/ pc = "mothers",
             question \notin {"quota", "alias", "cool", "take"}
               => q \notin {"quota", "alias", "cool", "take"} \/ pc = "mothers",
             question # "take"
      PROVE  AbstractStep
  <2>1. UNCHANGED <<inflight, pc, todo>> /\ question' = q
    BY <1>6 DEF Ask
  <2>2. UNCHANGED Cleared
    BY <1>6, <2>1 DEF Cleared, Scanning
  <2> QED
    BY <1>2, <2>1, <2>2, ClaimsUnchanged
<1>7. ASSUME pc # "mothers", question = "final", IsRegistered(Mother(m)),
             Ask("quota", 0)
      PROVE  AbstractStep
  <2>1. pc = "fissions" /\ UNCHANGED <<inflight, pc, todo>> /\ question' = "quota"
    BY <1>1, <1>7 DEF Ask, Scanning
  <2>2. Cleared' = Cleared \cup {m}
    BY <1>1, <1>7, <2>1 DEF Cleared, Scanning
  <2>3. <<m, 0>> \in FinalSet /\ ~Busy(m)
    BY <1>1, <1>7, MotherAddress DEF FinalSet, Mother, Inv, Scan, ScanFree
  <2>4. Claims!Clear(m)
    BY <1>2, <2>1, <2>2, <2>3
    DEF Claims!Clear, Claims!Free, FinalSet, Busy, MailboxOf
  <2> QED
    BY <2>4 DEF AbstractStep, Claims!Next
<1>8. CASE ScanBusy(m) \/ ScanGap(m)
  BY <1>8, <1>4, <1>6 DEF ScanBusy, ScanGap
<1>9. CASE ScanFinal(m)
  <2>0. IsRegistered(Mother(m)) \in BOOLEAN
    BY DEF IsRegistered
  <2>1. \/ \E cool : Skip(m, cool)
        \/ pc = "mothers" /\ Ask("cool", 0)
        \/ pc # "mothers" /\ IsRegistered(Mother(m)) /\ Ask("quota", 0)
    BY <1>9, <2>0 DEF ScanFinal
  <2>2. question = "final"
    BY <1>9 DEF ScanFinal
  <2> QED
    BY <2>1, <2>2, <1>4, <1>6, <1>7
<1>10. CASE ScanQuota(m) \/ ScanAlias(m) \/ ScanCool(m)
  BY <1>10, <1>4, <1>6 DEF ScanQuota, ScanAlias, ScanCool
<1>11. CASE ScanTake(m)
  BY <1>11, <1>5 DEF ScanTake
<1> QED
  BY <1>8, <1>9, <1>10, <1>11 DEF ScanStep

LEMMA ClaimsWrite ==
  ASSUME Inv, NEW w \in Slots, stage[w] \in Open,
         NEW s \in Statuses, UNCHANGED inflight, UNCHANGED Cleared,
         Writes(addr[w], s)
  PROVE  AbstractStep
<1>1. CASE FinalSet' = FinalSet
  BY <1>1 DEF AbstractStep
<1>2. CASE /\ addr[w] \in inflight /\ addr[w] \notin FinalSet
           /\ FinalSet' = FinalSet \cup {addr[w]}
  <2>1. addr[w] \in Claims!Address
    BY <1>2 DEF Inv, Typed, TypeOK, Claims!Address, Addresses
  <2>2. Claims!Finalise(addr[w])
    BY <1>2 DEF Claims!Finalise, FinalSet
  <2> QED
    BY <2>1, <2>2 DEF AbstractStep, Claims!Next
<1> QED
  BY <1>1, <1>2, OpenWrite

LEMMA ClaimsForget ==
  ASSUME UNCHANGED inflight, UNCHANGED Cleared, FinalSet' \subseteq FinalSet
  PROVE  AbstractStep
<1>1. Claims!Forget
  <2>1. FinalSet' = FinalSet \ (FinalSet \ FinalSet')
    OBVIOUS
  <2>2. FinalSet \ FinalSet' \in SUBSET FinalSet
    OBVIOUS
  <2> QED
    BY <2>1, <2>2 DEF Claims!Forget, FinalSet
<1> QED
  BY <1>1 DEF AbstractStep, Claims!Next

LEMMA LoopClaims == Inv /\ LoopStep => FinalKept /\ AbstractStep
<1> SUFFICES ASSUME Inv, LoopStep PROVE FinalKept /\ AbstractStep
  OBVIOUS
<1> USE DEF rowVars, progVars, scanVars, loopVars, workerVars
<1>1. UNCHANGED status
  BY DEF LoopStep, LoopTop, LoopCount, MothersDone, FissionsDone, NoJob,
     ScanStep, ScanBusy, ScanGap, ScanFinal, ScanQuota, ScanAlias, ScanCool,
     ScanTake, Queries, AcquireSlot, Launch, LaunchCancelled,
     AcquireCancelled, Finish
<1>2. FinalKept
  BY <1>1 DEF FinalKept
<1>3. CASE LoopTop \/ LoopCount \/ MothersDone \/ FissionsDone \/ NoJob \/ Finish
  <2>1. UNCHANGED inflight
    BY <1>3 DEF LoopTop, LoopCount, MothersDone, FissionsDone, NoJob, Finish
  <2>2. Cleared = {} /\ Cleared' = {}
    <3>1. CASE LoopTop \/ LoopCount \/ NoJob \/ Finish
      BY <3>1, NotCleared DEF LoopTop, LoopCount, NoJob, Finish
    <3>2. CASE MothersDone
      <4>1. pc = "mothers" /\ question' = question
        BY <3>2 DEF MothersDone
      <4>2. question = "busy"
        BY <3>2 DEF MothersDone, Inv, Scan, ScanPass
      <4> QED
        BY <4>1, <4>2, NotCleared DEF Cleared
    <3>3. CASE FissionsDone
      BY <3>3, NotCleared DEF FissionsDone, Cleared, Scanning
    <3> QED
      BY <1>3, <3>1, <3>2, <3>3
  <2> QED
    BY <1>1, <1>2, <2>1, <2>2, ClaimsUnchanged
<1>4. ASSUME NEW m \in Mailboxes, ScanStep(m) PROVE AbstractStep
  BY <1>4, ScanClaims
<1>6. ASSUME NEW w \in Slots, AcquireSlot(w) \/ Launch(w) PROVE AbstractStep
  <2>1. UNCHANGED <<inflight, status>> /\ ClearedKept
    BY <1>6 DEF AcquireSlot, Launch, ClearedKept
  <2> QED
    BY <2>1, ClaimsUnchanged, ClearedUnchanged
<1>7. ASSUME NEW w \in Slots, LaunchCancelled(w) PROVE AbstractStep
  <2>1. job \in inflight
    BY <1>7 DEF LaunchCancelled, Inv, Structure, HeldIsJob, ActiveInflight, Active
  <2>2. inflight \subseteq Addresses /\ inflight' = inflight \ {job}
    BY <1>7 DEF LaunchCancelled, Inv, Typed, TypeOK
  <2>3. UNCHANGED Cleared
    BY <1>7, ClearedUnchanged DEF LaunchCancelled, ClearedKept
  <2> QED
    BY <1>1, <2>1, <2>2, <2>3, ClaimsRelease
<1>8. CASE AcquireCancelled
  <2>1. job \in inflight
    BY <1>8 DEF AcquireCancelled, Inv, Structure, JobFresh
  <2>2. inflight \subseteq Addresses /\ inflight' = inflight \ {job}
    BY <1>8 DEF AcquireCancelled, Inv, Typed, TypeOK
  <2>3. UNCHANGED Cleared
    BY <1>8, ClearedUnchanged DEF AcquireCancelled, ClearedKept
  <2> QED
    BY <1>1, <1>2, <2>1, <2>2, <2>3, ClaimsRelease
<1> QED
  BY <1>2, <1>3, <1>4, <1>6, <1>7, <1>8 DEF LoopStep

LEMMA WorkerClaims ==
  ASSUME Inv, NEW w \in Slots, WorkerStep(w)
  PROVE  FinalKept /\ AbstractStep
<1> USE DEF rowVars, progVars, scanVars, loopVars, workerVars
<1> DEFINE Write(s) == /\ stage[w] \in Open
                       /\ s \in Statuses /\ UNCHANGED inflight
                       /\ Writes(addr[w], s)
<1>a. UNCHANGED Cleared
  <2>1. UNCHANGED <<pc, todo, question>>
    BY DEF WorkerStep, AttemptEnds, BeginLook, SucceedLook, LookForRow,
       BeginAttempt, Succeed, WriteRow, SkipAddress, RejectExisting, Fail,
       Panic, Abort, RecoverRow, MarkFailed, MarkSuccess, IncRegistered,
       ReleaseInflight, Exit
  <2> QED
    BY <2>1, ClearedUnchanged DEF ClearedKept
<1>1. ASSUME NEW s, Write(s) PROVE FinalKept /\ AbstractStep
  BY <1>1, <1>a, OpenWrite, ClaimsWrite
<1>2. CASE BeginAttempt(w)
  <2>1. Write("registering")
    BY <1>2 DEF BeginAttempt, WriteRow, Moves, Statuses, Writes, Open
  <2> QED
    BY <1>1, <2>1
<1>3. CASE Succeed(w)
  <2>1. Write("registered")
    BY <1>3 DEF Succeed, WriteRow, Moves, Statuses, Final, Writes, Open
  <2> QED
    BY <1>1, <2>1
<1>4. CASE SkipAddress(w)
  <2>1. Write("already_registered") \/ Write("register_rejected")
    BY <1>4 DEF SkipAddress, Moves, Statuses, Final, Writes, Open
  <2> QED
    BY <1>1, <2>1
<1>5. CASE RejectExisting(w)
  <2>1. Write("register_rejected")
    BY <1>5 DEF RejectExisting, Moves, Statuses, Final, Writes, Open
  <2> QED
    BY <1>1, <2>1
<1>6. CASE Fail(w) \/ Abort(w) \/ RecoverRow(w)
  <2>1. Write("register_failed")
    BY <1>6 DEF Fail, Abort, RecoverRow, Moves, Statuses, Writes, Open
  <2> QED
    BY <1>1, <2>1
<1>7. CASE Panic(w) \/ MarkFailed(w) \/ MarkSuccess(w) \/ IncRegistered(w) \/ Exit(w)
           \/ BeginLook(w) \/ SucceedLook(w)
  <2>1. UNCHANGED <<inflight, status>>
    BY <1>7 DEF Panic, MarkFailed, MarkSuccess, IncRegistered, Exit,
       BeginLook, SucceedLook, LookForRow
  <2> QED
    BY <2>1, <1>a, ClaimsUnchanged DEF FinalKept
<1>8. CASE ReleaseInflight(w)
  <2>1. addr[w] \in inflight
    BY <1>8 DEF ReleaseInflight, Moves, Inv, Structure, ActiveInflight,
       Active, Inner
  <2>2. /\ UNCHANGED status /\ inflight' = inflight \ {addr[w]}
        /\ inflight \subseteq Addresses
    BY <1>8 DEF ReleaseInflight, Inv, Typed, TypeOK
  <2> QED
    BY <1>a, <2>1, <2>2, ClaimsRelease DEF FinalKept
<1> QED
  BY <1>2, <1>3, <1>4, <1>5, <1>6, <1>7, <1>8 DEF WorkerStep, AttemptEnds

LEMMA NextClaims == Inv /\ [Next]_vars => FinalKept /\ AbstractStep
<1> SUFFICES ASSUME Inv, [Next]_vars PROVE FinalKept /\ AbstractStep
  OBVIOUS
<1> USE DEF rowVars, progVars, scanVars, loopVars, workerVars
<1>1. ASSUME NEW t \in Targets, Start(t) PROVE FinalKept /\ AbstractStep
  <2>1. UNCHANGED <<inflight, status>> /\ pc = "idle" /\ pc' = "top"
    BY <1>1 DEF Start, Inv, Structure, IdleLoop
  <2>2. UNCHANGED Cleared
    BY <2>1, ClearedUnchanged DEF ClearedKept
  <2> QED
    BY <2>1, <2>2, ClaimsUnchanged DEF FinalKept
<1>2. CASE Stop \/ Tick \/ UNCHANGED vars \/ DeleteAllCheck
           \/ \E m \in Mailboxes : ToggleMailbox(m)
  <2>1. UNCHANGED <<inflight, status>> /\ ClearedKept
    BY <1>2 DEF Stop, Tick, vars, DeleteAllCheck, ToggleMailbox, ClearedKept
  <2> QED
    BY <2>1, ClaimsUnchanged, ClearedUnchanged DEF FinalKept
<1>3. CASE DeleteAllCommit \/ \E a \in Addresses : DeleteRow(a)
  <2>1. UNCHANGED inflight /\ ClearedKept
    BY <1>3 DEF DeleteAllCommit, DeleteRow, ClearedKept
  <2>2. \A a \in Addresses : status'[a] \in {status[a], "absent"}
    BY <1>3 DEF DeleteAllCommit, DeleteRow, Inv, Typed, TypeOK
  <2>3. FinalSet' \subseteq FinalSet
    BY <2>2 DEF FinalSet, IsRegistered, Final
  <2> QED
    BY <2>1, <2>2, <2>3, ClaimsForget, ClearedUnchanged DEF FinalKept
<1>4. CASE CrashRestart
  <2>1. \A a \in Addresses : status[a] \in Final => status'[a] = status[a]
    BY <1>4 DEF CrashRestart, Final
  <2>2. \A a \in Addresses : status'[a] \in Final <=> status[a] \in Final
    BY <1>4 DEF CrashRestart, Final
  <2>3. FinalSet' = FinalSet
    BY <2>2 DEF FinalSet, IsRegistered
  <2>4. Claims!Restart
    BY <1>4, <2>3, NotCleared DEF CrashRestart, Claims!Restart, FinalSet
  <2>5. FinalKept
    BY <2>1 DEF FinalKept
  <2> QED
    BY <2>4, <2>5 DEF AbstractStep, Claims!Next
<1>5. ASSUME NEW w \in Slots, WriteLog(w) \/ DisableMailbox(w)
      PROVE  FinalKept /\ AbstractStep
  <2>1. UNCHANGED <<inflight, status>> /\ ClearedKept
    BY <1>5 DEF WriteLog, DisableMailbox, ClearedKept
  <2> QED
    BY <2>1, ClaimsUnchanged, ClearedUnchanged DEF FinalKept
<1> QED
  BY <1>1, <1>2, <1>3, <1>4, <1>5, LoopClaims, WorkerClaims
  DEF Next, PanelStep

(* An address that is final is never registered again and its status is    *)
(* never overwritten by a worker.                                          *)
THEOREM FinalIsKeptAlways == Spec => FinalIsKept
<1>1. Inv /\ [Next]_vars => [FinalKept]_vars
  BY NextClaims
<1>2. [FinalKept]_vars <=> [\A a \in Addresses : status[a] \in Final =>
                             status'[a] \in {status[a], "absent"}]_vars
  BY DEF FinalKept
<1> QED
  BY <1>1, <1>2, Invariant, PTL DEF Spec, FinalIsKept

(* The producer implements the claim discipline of MailboxClaims.          *)
THEOREM ClaimsImplemented == Spec => ImplementsClaims
<1>1. Init => Claims!Init
  BY DEF Init, Claims!Init, IsRegistered, Final, Cleared
<1>2. Inv /\ [Next]_vars => [Claims!Next]_<<inflight, FinalSet, Cleared>>
  BY NextClaims DEF AbstractStep
<1> QED
  BY <1>1, <1>2, Invariant, PTL
  DEF Spec, ImplementsClaims, Claims!Spec, FinalSet

-----------------------------------------------------------------------------
(* How far a batch may overshoot.                                          *)

(* Between the reading of the success counter (done) and the claim no task *)
(* is added, and every success counted meanwhile is of a worker that was   *)
(* there: so what is registered or may still be is bounded by done, then   *)
(* by the target, plus the slots.                                          *)
Slack ==
  /\ OvershootBounded
  /\ pc = "count" =>
        registered + Cardinality(MayStillCount) <= done + Cardinality(Slots)
  /\ pc \in {"mothers", "fissions"} =>
        registered + Cardinality(MayStillCount) < target + Cardinality(Slots)

(* There are no more tasks than slots, but for one that waits for a slot.  *)
LEMMA TasksFinite ==
  ASSUME Typed, Structure
  PROVE  /\ IsFiniteSet(inflight) /\ Cardinality(inflight) \in Nat
         /\ IsFiniteSet(MayStillCount) /\ Cardinality(MayStillCount) \in Nat
         /\ Cardinality(MayStillCount) <= Cardinality(inflight)
         /\ Cardinality(Slots) \in Nat
         /\ pc # "acquire" => Cardinality(inflight) <= Cardinality(Slots)
<1> DEFINE f == [w \in Slots |-> addr[w]]
           T == {addr[w] : w \in Slots}
<1>1. IsFiniteSet(Slots)
  BY SettingAssumption
<1>2. f \in Surjection(Slots, T)
  BY DEF Surjection
<1> HIDE DEF f
<1>3. IsFiniteSet(T) /\ Cardinality(T) <= Cardinality(Slots)
  BY <1>1, <1>2, FS_Surjection
<1>4. inflight \subseteq T \cup {job}
  BY DEF Structure, InflightCovered
<1>5. pc # "acquire" => inflight \subseteq T
  BY DEF Structure, InflightCovered
<1> HIDE DEF T
<1>6. IsFiniteSet(T \cup {job})
  BY <1>3, FS_AddElement
<1>7. IsFiniteSet(inflight)
  BY <1>4, <1>6, FS_Subset
<1>8. MayStillCount \subseteq inflight
  BY DEF MayStillCount
<1>9. /\ IsFiniteSet(MayStillCount)
      /\ Cardinality(MayStillCount) <= Cardinality(inflight)
  BY <1>7, <1>8, FS_Subset
<1>10. /\ Cardinality(T) \in Nat /\ Cardinality(Slots) \in Nat
       /\ Cardinality(inflight) \in Nat /\ Cardinality(MayStillCount) \in Nat
  BY <1>1, <1>3, <1>7, <1>9, FS_CardinalityType
<1>11. pc # "acquire" => Cardinality(inflight) <= Cardinality(T)
  BY <1>3, <1>5, FS_Subset
<1> QED
  BY <1>3, <1>7, <1>9, <1>10, <1>11

(* Where no task is added and no success counted, there is room as before. *)
LEMMA SlackKept ==
  ASSUME Typed, Structure, Slack, UNCHANGED <<registered, target>>,
         MayStillCount' \subseteq MayStillCount,
         \/ pc' \notin {"count", "mothers", "fissions"}
         \/ pc' = pc /\ done' = done
         \/ pc' = "fissions" /\ pc = "mothers"
  PROVE  Slack'
<1>1. /\ IsFiniteSet(MayStillCount) /\ Cardinality(MayStillCount) \in Nat
      /\ Cardinality(Slots) \in Nat
  BY TasksFinite
<1>2. /\ Cardinality(MayStillCount') \in Nat
      /\ Cardinality(MayStillCount') <= Cardinality(MayStillCount)
  <2>1. IsFiniteSet(MayStillCount')
    BY <1>1, FS_Subset
  <2> QED
    BY <1>1, <2>1, FS_Subset, FS_CardinalityType
<1>3. registered \in Nat /\ target \in Nat /\ done \in Nat
  BY DEF Typed, TypeOK
<1> QED
  BY <1>1, <1>2, <1>3 DEF Slack, OvershootBounded

(* A claim is the only step that adds one.                                 *)
LEMMA SlackClaim ==
  ASSUME Typed, Structure, Slack, pc \in {"mothers", "fissions"}, NEW a,
         Claim(a), UNCHANGED <<registered, target, stage, addr>>
  PROVE  Slack'
<1>1. MayStillCount' \subseteq MayStillCount \cup {a}
  BY DEF MayStillCount, Claim
<1>2. /\ IsFiniteSet(MayStillCount) /\ Cardinality(MayStillCount) \in Nat
      /\ Cardinality(Slots) \in Nat
  BY TasksFinite
<1>3. /\ IsFiniteSet(MayStillCount \cup {a})
      /\ Cardinality(MayStillCount \cup {a}) <= Cardinality(MayStillCount) + 1
      /\ Cardinality(MayStillCount \cup {a}) \in Nat
  <2>1. IsFiniteSet(MayStillCount \cup {a})
    BY <1>2, FS_AddElement
  <2>2. CASE a \in MayStillCount
    <3>1. MayStillCount \cup {a} = MayStillCount
      BY <2>2
    <3> QED
      BY <1>2, <3>1
  <2>3. CASE a \notin MayStillCount
    <3>1. Cardinality(MayStillCount \cup {a}) = Cardinality(MayStillCount) + 1
      BY <1>2, <2>3, FS_AddElement
    <3> QED
      BY <1>2, <2>1, <3>1
  <2> QED
    BY <2>2, <2>3
<1>4. /\ Cardinality(MayStillCount') \in Nat
      /\ Cardinality(MayStillCount') <= Cardinality(MayStillCount \cup {a})
  <2>1. IsFiniteSet(MayStillCount')
    BY <1>1, <1>3, FS_Subset
  <2> QED
    BY <1>1, <1>3, <2>1, FS_Subset, FS_CardinalityType
<1>5. registered \in Nat /\ target \in Nat
  BY DEF Typed, TypeOK
<1>6. pc' = "acquire"
  BY DEF Claim
<1> QED
  BY <1>2, <1>3, <1>4, <1>5, <1>6 DEF Slack, OvershootBounded

(* The loop reads one counter, then the other.                             *)
LEMMA LoopSlack == Typed /\ Structure /\ Slack /\ LoopStep => Slack'
<1> SUFFICES ASSUME Typed, Structure, Slack, LoopStep PROVE Slack'
  OBVIOUS
<1> USE DEF progVars, scanVars, loopVars, workerVars
<1>1. CASE LoopTop
  <2>1. /\ UNCHANGED <<registered, target, inflight, stage, addr>>
        /\ pc = "top"
        /\ pc' = "drain" \/ (pc' = "count" /\ done' = registered)
    BY <1>1 DEF LoopTop
  <2>2. MayStillCount' = MayStillCount
    BY <2>1 DEF MayStillCount
  <2>3. /\ Cardinality(MayStillCount) <= Cardinality(Slots)
        /\ Cardinality(MayStillCount) \in Nat /\ Cardinality(Slots) \in Nat
    BY <2>1, TasksFinite
  <2>4. registered \in Nat
    BY DEF Typed, TypeOK
  <2> QED
    BY <2>1, <2>2, <2>3, <2>4 DEF Slack, OvershootBounded
<1>2. CASE LoopCount
  <2>1. /\ UNCHANGED <<registered, target, inflight, stage, addr>>
        /\ pc = "count"
        /\ \/ pc' \in {"drain", "top"}
           \/ pc' = "mothers" /\ done + Cardinality(inflight) < target
    <3>1. done \in Nat /\ target \in Nat /\ Cardinality(inflight) \in Nat
      BY TasksFinite DEF Typed, TypeOK
    <3> QED
      BY <1>2, <3>1 DEF LoopCount
  <2>2. MayStillCount' = MayStillCount
    BY <2>1 DEF MayStillCount
  <2>3. /\ Cardinality(MayStillCount) \in Nat /\ Cardinality(Slots) \in Nat
        /\ Cardinality(inflight) \in Nat
    BY TasksFinite
  <2>4. registered \in Nat /\ done \in Nat /\ target \in Nat
    BY DEF Typed, TypeOK
  <2> QED
    BY <2>1, <2>2, <2>3, <2>4 DEF Slack, OvershootBounded
<1>3. CASE MothersDone \/ FissionsDone \/ NoJob \/ Finish
  <2>1. UNCHANGED <<registered, target, inflight, stage, addr>>
    BY <1>3 DEF MothersDone, FissionsDone, NoJob, Finish
  <2>2. \/ pc' \notin {"count", "mothers", "fissions"}
        \/ pc' = "fissions" /\ pc = "mothers"
    BY <1>3 DEF MothersDone, FissionsDone, NoJob, Finish
  <2>3. MayStillCount' = MayStillCount
    BY <2>1 DEF MayStillCount
  <2> QED
    BY <2>1, <2>2, <2>3, SlackKept
<1>4. ASSUME NEW m \in Mailboxes, ScanStep(m) PROVE Slack'
  <2>1. pc \in {"mothers", "fissions"} /\ Queries
    BY <1>4, ScanEffect
  <2>2. (\E cool : Skip(m, cool)) \/ (\E q, i : Ask(q, i)) \/ \E a : Claim(a)
    BY <1>4, ScanEffect
  <2>3. ASSUME (\E cool : Skip(m, cool)) \/ (\E q, i : Ask(q, i)) PROVE Slack'
    <3>1. UNCHANGED <<registered, target, inflight, stage, addr, pc, done>>
      BY <2>1, <2>3 DEF Skip, Ask, Queries
    <3>2. MayStillCount' = MayStillCount
      BY <3>1 DEF MayStillCount
    <3> QED
      BY <3>1, <3>2, SlackKept
  <2>4. UNCHANGED <<registered, target, stage, addr>>
    BY <2>1 DEF Queries
  <2> QED
    BY <2>1, <2>2, <2>3, <2>4, SlackClaim
<1>5. ASSUME NEW w \in Slots, AcquireSlot(w) \/ Launch(w) \/ LaunchCancelled(w)
      PROVE  Slack'
  <2>1. /\ UNCHANGED <<registered, target>> /\ inflight' \subseteq inflight
        /\ pc' \notin {"count", "mothers", "fissions"}
    BY <1>5 DEF AcquireSlot, Launch, LaunchCancelled
  <2>2. /\ \A v \in Slots \ {w} : stage'[v] = stage[v] /\ addr'[v] = addr[v]
        /\ stage[w] # "settled"
    BY <1>5 DEF AcquireSlot, Launch, LaunchCancelled, Typed, TypeOK
  <2>3. MayStillCount' \subseteq MayStillCount
    BY <2>1, <2>2 DEF MayStillCount
  <2> QED
    BY <2>1, <2>3, SlackKept
<1>6. CASE AcquireCancelled
  <2>1. /\ UNCHANGED <<registered, target, stage, addr>>
        /\ inflight' \subseteq inflight /\ pc' = "drain"
    BY <1>6 DEF AcquireCancelled
  <2>2. MayStillCount' \subseteq MayStillCount
    BY <2>1 DEF MayStillCount
  <2> QED
    BY <2>1, <2>2, SlackKept
<1> QED
  BY <1>1, <1>2, <1>3, <1>4, <1>5, <1>6 DEF LoopStep

(* A worker counts its success once, and then its task counts no more.     *)
LEMMA WorkerSlack ==
  ASSUME Typed, Structure, Slack, NEW w \in Slots, WorkerStep(w)
  PROVE  Slack'
<1> USE DEF progVars, scanVars, loopVars
<1>1. /\ UNCHANGED <<target, pc, done>> /\ inflight' \subseteq inflight
      /\ \A v \in Slots \ {w} : stage'[v] = stage[v] /\ addr'[v] = addr[v]
  BY DEF WorkerStep, AttemptEnds, BeginLook, SucceedLook,
       LookForRow, BeginAttempt, Succeed, WriteRow, SkipAddress,
     RejectExisting, Fail, Panic, Abort, RecoverRow, MarkFailed, MarkSuccess,
     IncRegistered, ReleaseInflight, Exit, Moves, Typed, TypeOK
<1>2. CASE IncRegistered(w)
  <2>1. /\ stage[w] = "marked" /\ stage'[w] = "settled" /\ addr'[w] = addr[w]
        /\ registered' = registered + 1
    BY <1>2 DEF IncRegistered, Moves, Typed, TypeOK
  <2>2. Active(w) /\ addr[w] \in inflight
    BY <2>1 DEF Active, Inner, Structure, ActiveInflight
  <2>3. addr[w] \in MayStillCount
    <3>1. SUFFICES ASSUME NEW v \in Slots, addr[v] = addr[w], stage[v] = "settled"
                   PROVE  FALSE
      BY <2>2 DEF MayStillCount
    <3>2. Active(v)
      BY <3>1 DEF Active, Inner
    <3> QED
      BY <2>1, <2>2, <3>1, <3>2 DEF Structure, ActiveDistinct
  <2>4. MayStillCount' \subseteq MayStillCount \ {addr[w]}
    BY <1>1, <2>1 DEF MayStillCount
  <2>5. /\ IsFiniteSet(MayStillCount) /\ Cardinality(MayStillCount) \in Nat
        /\ Cardinality(Slots) \in Nat
    BY TasksFinite
  <2>6. /\ IsFiniteSet(MayStillCount \ {addr[w]})
        /\ Cardinality(MayStillCount \ {addr[w]}) = Cardinality(MayStillCount) - 1
    BY <2>3, <2>5, FS_RemoveElement
  <2>7. /\ Cardinality(MayStillCount') \in Nat
        /\ Cardinality(MayStillCount') <= Cardinality(MayStillCount) - 1
    <3>1. IsFiniteSet(MayStillCount')
      BY <2>4, <2>6, FS_Subset
    <3> QED
      BY <2>4, <2>6, <3>1, FS_Subset, FS_CardinalityType
  <2>8. registered \in Nat /\ target \in Nat /\ done \in Nat
    BY DEF Typed, TypeOK
  <2> QED
    BY <1>1, <2>1, <2>5, <2>7, <2>8 DEF Slack, OvershootBounded
<1>3. CASE ~IncRegistered(w)
  <2>1. registered' = registered
    BY <1>3 DEF WorkerStep, AttemptEnds, BeginLook, SucceedLook,
       LookForRow, BeginAttempt, Succeed, WriteRow, SkipAddress,
       RejectExisting, Fail, Panic, Abort, RecoverRow, MarkFailed, MarkSuccess,
       ReleaseInflight, Exit
  <2>2. \/ stage[w] # "settled"
        \/ inflight' = inflight \ {addr[w]}
    BY <1>3 DEF WorkerStep, AttemptEnds, BeginLook, SucceedLook,
       LookForRow, BeginAttempt, Succeed, WriteRow, SkipAddress,
       RejectExisting, Fail, Panic, Abort, RecoverRow, MarkFailed, MarkSuccess,
       ReleaseInflight, Exit, Moves
  <2>3. MayStillCount' \subseteq MayStillCount
    BY <1>1, <2>2 DEF MayStillCount
  <2> QED
    BY <1>1, <2>1, <2>3, SlackKept
<1> QED
  BY <1>2, <1>3

LEMMA InitSlack == Init => Slack
<1> SUFFICES ASSUME Init PROVE Slack
  OBVIOUS
<1>1. MayStillCount = {} /\ registered = 0 /\ target = 0 /\ pc = "idle"
  BY DEF Init, MayStillCount
<1>2. Cardinality(MayStillCount) = 0 /\ Cardinality(Slots) \in Nat
  BY <1>1, SettingAssumption, FS_EmptySet, FS_CardinalityType
<1> QED
  BY <1>1, <1>2 DEF Slack, OvershootBounded

LEMMA NextSlack == Typed /\ Structure /\ Slack /\ [Next]_vars => Slack'
<1> SUFFICES ASSUME Typed, Structure, Slack, [Next]_vars PROVE Slack'
  OBVIOUS
<1> USE DEF rowVars, progVars, scanVars, loopVars, workerVars
<1>1. ASSUME (\E t \in Targets : Start(t)) \/ CrashRestart PROVE Slack'
  <2>1. /\ inflight' = {} /\ registered' = 0 /\ target' \in Nat
        /\ pc' \notin {"count", "mothers", "fissions"}
    BY <1>1, SettingAssumption DEF Start, CrashRestart
  <2>2. Cardinality(MayStillCount') = 0
    <3>1. MayStillCount' = {}
      BY <2>1 DEF MayStillCount
    <3> QED
      BY <3>1, FS_EmptySet
  <2>3. Cardinality(Slots) \in Nat
    BY SettingAssumption, FS_CardinalityType
  <2> QED
    BY <2>1, <2>2, <2>3 DEF Slack, OvershootBounded
<1>2. CASE UNCHANGED <<registered, target, pc, done, inflight, stage, addr>>
  <2>1. MayStillCount' = MayStillCount
    BY <1>2 DEF MayStillCount
  <2> QED
    BY <1>2, <2>1, SlackKept
<1>3. \/ Stop \/ Tick \/ PanelStep \/ UNCHANGED vars
      \/ \E w \in Slots : WriteLog(w) \/ DisableMailbox(w)
      => UNCHANGED <<registered, target, pc, done, inflight, stage, addr>>
  BY DEF Stop, Tick, PanelStep, DeleteRow, DeleteAllCheck, DeleteAllCommit,
     ToggleMailbox, WriteLog, DisableMailbox, vars
<1> QED
  BY <1>1, <1>2, <1>3, LoopSlack, WorkerSlack DEF Next

(* A batch registers at most as many too many as it has slots.             *)
THEOREM OvershootBoundedAlways == Spec => []OvershootBounded
<1>1. Inv /\ Slack => OvershootBounded
  BY DEF Slack
<1>2. Init => Slack
  BY InitSlack
<1>3. Inv /\ Slack /\ [Next]_vars => Slack'
  BY NextSlack DEF Inv
<1> QED
  BY <1>1, <1>2, <1>3, Invariant, PTL DEF Spec
=============================================================================
