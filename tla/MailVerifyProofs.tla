-------------------------- MODULE MailVerifyProofs --------------------------
(***************************************************************************)
(* Proofs about MailVerify for every number of mailboxes and workers, with *)
(* form edits, failing statements and restarts.  What the verifier owes to *)
(* a claimed row holds without edits and faults only, and those theorems   *)
(* say so.                                                                 *)
(***************************************************************************)
EXTENDS MailVerify, TLAPS

(* A worker has a job exactly while it holds a reservation.                *)
JobTyped == \A w \in Workers : pc[w] \in Busy <=> job[w] # NoId
Typed == TypeOK /\ JobTyped

LEMMA NoIdFresh == NoId \notin Ids
BY DEF NoId, Ids

LEMMA InitTyped == Init => Typed
<1> SUFFICES ASSUME Init PROVE Typed
  OBVIOUS
<1>1. TypeOK
  <2>1. /\ status \in [Ids -> Statuses] /\ pc \in [Workers -> Stages]
        /\ cand \in [Workers -> SUBSET Ids]
        /\ job \in [Workers -> Ids \cup {NoId}]
    BY DEF Init, Statuses, Stages
  <2>2. lastId \in 0..NumMailboxes /\ budget \in 0..Requests
    BY VerifierAssumption DEF Init
  <2> QED
    BY <2>1, <2>2 DEF Init, TypeOK
<1>2. JobTyped
  BY DEF Init, JobTyped, Busy, Verifying
<1> QED
  BY <1>1, <1>2 DEF Typed

LEMMA GotoTyped ==
  ASSUME TypeOK, NEW w \in Workers, NEW from, NEW to \in Stages,
         Goto(w, from, to)
  PROVE  pc' \in [Workers -> Stages] /\ pc[w] = from /\ pc'[w] = to
BY DEF Goto, TypeOK

LEMMA WorkerTyped ==
  ASSUME Typed, NEW w \in Workers, WorkerStep(w)
  PROVE  Typed'
<1> USE DEF Typed, TypeOK, JobTyped, Busy, Verifying, Stages, queueVars,
        workerVars, panelVars, Goto
<1>1. CASE CheckContext(w)
  BY <1>1 DEF CheckContext
<1>2. CASE Scan(w)
  BY <1>2 DEF Scan, Queued
<1>3. CASE ScanError(w)
  BY <1>3 DEF ScanError
<1>4. ASSUME NEW i \in Ids, Reserve(w, i) PROVE Typed'
  BY <1>4, NoIdFresh DEF Reserve, IsNext
<1>5. CASE Take(w)
  BY <1>5 DEF Take, Statuses
<1>6. CASE TakeError(w)
  BY <1>6 DEF TakeError
<1>7. CASE Undo(w)
  BY <1>7 DEF Undo, ReleaseTo, SendWake
<1>8. CASE ClaimNone(w)
  BY <1>8 DEF ClaimNone
<1>9. CASE VerifyReturns(w)
  BY <1>9 DEF VerifyReturns
<1>10. CASE Finish(w)
  BY <1>10 DEF Finish, Found, Statuses, Results
<1>11. CASE FinishError(w)
  BY <1>11 DEF FinishError
<1>12. CASE Release(w)
  BY <1>12 DEF Release, ReleaseTo, SendWake
<1>13. CASE Wait(w)
  BY <1>13 DEF Wait
<1> QED
  BY <1>1, <1>2, <1>3, <1>4, <1>5, <1>6, <1>7, <1>8, <1>9, <1>10, <1>11,
     <1>12, <1>13 DEF WorkerStep

LEMMA InsertTyped ==
  ASSUME TypeOK, NEW s \in Statuses, Insert(s)
  PROVE  status' \in [Ids -> Statuses] /\ lastId' \in 0..NumMailboxes
<1>1. status' \in [Ids -> Statuses]
  BY DEF TypeOK, Insert
<1>2. lastId \in 0..NumMailboxes
  BY DEF TypeOK
<1>3. lastId' \in 0..NumMailboxes
  BY <1>2, VerifierAssumption DEF Insert
<1> QED
  BY <1>1, <1>3

LEMMA SpendTyped ==
  ASSUME TypeOK, Spend
  PROVE  budget' \in 0..Requests
BY VerifierAssumption DEF TypeOK, Spend

LEMMA PanelTyped ==
  ASSUME Typed, PanelStep
  PROVE  Typed'
<1> USE DEF Typed, TypeOK, JobTyped, workerVars, queueVars, panelVars, Spend
<1>1. CASE ImportRow
  <2>1. status' \in [Ids -> Statuses] /\ lastId' \in 0..NumMailboxes
    BY <1>1, InsertTyped DEF ImportRow, Statuses
  <2>2. budget' \in 0..Requests
    BY <1>1, SpendTyped DEF ImportRow
  <2> QED
    BY <1>1, <2>1, <2>2 DEF ImportRow
<1>2. CASE ImportEnd
  BY <1>2 DEF ImportEnd, SendWake
<1>3. ASSUME NEW ids \in SUBSET Ids, Requeue(ids) PROVE Typed'
  BY <1>3, VerifierAssumption DEF Requeue, Statuses
<1>4. CASE Reauthenticate \/ ReauthenticateFailed \/ ReauthenticateAll
  BY <1>3, <1>4 DEF Reauthenticate, ReauthenticateFailed, ReauthenticateAll
<1>5. CASE Wake
  BY <1>5 DEF Wake, SendWake
<1>6. ASSUME NEW ids \in SUBSET Ids, Delete(ids) PROVE Typed'
  BY <1>6, VerifierAssumption DEF Delete, Statuses
<1>7. ASSUME NEW i \in Ids, Disable(i) PROVE Typed'
  BY <1>7, VerifierAssumption DEF Disable, Statuses
<1>8. ASSUME NEW i \in Ids, EditRead(i) PROVE Typed'
  BY <1>8, VerifierAssumption DEF EditRead
<1>9. CASE Create
  <2>1. Picks \cup {"unverified"} \subseteq Statuses
    BY VerifierAssumption DEF Statuses, Results
  <2>2. status' \in [Ids -> Statuses] /\ lastId' \in 0..NumMailboxes
    BY <1>9, <2>1, InsertTyped DEF Create
  <2> QED
    BY <1>9, <2>2, SpendTyped DEF Create
<1>10. CASE EditSave
  <2>1. edit \in [id : Ids, status : Statuses]
    BY <1>10 DEF EditSave
  <2>2. Picks \subseteq Statuses
    BY VerifierAssumption DEF Statuses, Results
  <2> QED
    BY <1>10, <2>1, <2>2 DEF EditSave
<1> QED
  BY <1>1, <1>2, <1>4, <1>5, <1>6, <1>7, <1>8, <1>9, <1>10 DEF PanelStep

LEMMA NextTyped == Typed /\ [Next]_vars => Typed'
<1> SUFFICES ASSUME Typed, [Next]_vars PROVE Typed'
  OBVIOUS
<1>1. CASE \E w \in Workers : WorkerStep(w)
  BY <1>1, WorkerTyped
<1>2. CASE PanelStep
  BY <1>2, PanelTyped
<1>3. CASE Stop
  BY <1>3 DEF Stop, Typed, TypeOK, JobTyped, queueVars, workerVars, panelVars
<1>4. CASE Restart
  BY <1>4 DEF Restart, Typed, TypeOK, JobTyped, Statuses, Stages, Busy,
              Verifying
<1>5. CASE UNCHANGED vars
  BY <1>5 DEF vars, queueVars, workerVars, panelVars, Typed, TypeOK, JobTyped
<1> QED
  BY <1>1, <1>2, <1>3, <1>4, <1>5 DEF Next

(* Every variable of the verifier keeps its type, whatever is requested,   *)
(* edited, deleted or restarted: service.go and mailbox.go never write a   *)
(* status or an id outside their sets.                                     *)
THEOREM VerifierTypeCorrect == Spec => []TypeOK
<1>1. Typed => TypeOK
  BY DEF Typed
<1> QED
  BY <1>1, InitTyped, NextTyped, PTL DEF Spec
-----------------------------------------------------------------------------
(* Reservations: s.active is the set of the workers' jobs, and no two      *)
(* workers have the same one.  They change only in reserve() and release().*)

JobActive == \A w \in Workers : job[w] # NoId => job[w] \in active
JobDistinct ==
  \A v, w \in Workers : job[v] # NoId /\ job[v] = job[w] => v = w
ActiveHeld == \A i \in active : \E w \in Workers : job[w] = i
Reserved == JobActive /\ JobDistinct /\ ActiveHeld

LEMMA ReserveKeeps ==
  ASSUME Typed, Reserved, NEW w \in Workers, NEW i \in Ids, Reserve(w, i)
  PROVE  Reserved'
<1> USE DEF Reserved, JobActive, JobDistinct, ActiveHeld
<1>1. CASE i \in active
  <2>1. UNCHANGED <<active, job>>
    BY <1>1 DEF Reserve
  <2> QED
    BY <2>1
<1>2. CASE i \notin active
  <2>1. /\ active' = active \cup {i} /\ job' = [job EXCEPT ![w] = i]
        /\ pc[w] = "try"
    BY <1>2 DEF Reserve, Goto
  <2>2. job \in [Workers -> Ids \cup {NoId}] /\ job[w] = NoId
    BY <2>1 DEF Typed, TypeOK, JobTyped, Busy, Verifying
  <2>3. job'[w] = i /\ \A v \in Workers \ {w} : job'[v] = job[v]
    BY <2>1, <2>2
  <2>4. JobActive'
    BY <2>1, <2>3
  <2>5. JobDistinct'
    <3> SUFFICES ASSUME NEW u \in Workers, NEW v \in Workers,
                        job'[u] # NoId, job'[u] = job'[v]
                 PROVE  u = v
      BY DEF JobDistinct
    <3>1. CASE u # w /\ v # w
      BY <3>1, <2>3
    <3>2. CASE u = w /\ v # w
      BY <3>2, <2>3, <1>2, NoIdFresh
    <3>3. CASE u # w /\ v = w
      BY <3>3, <2>3, <1>2, NoIdFresh
    <3> QED
      BY <3>1, <3>2, <3>3
  <2>6. ActiveHeld'
    <3> SUFFICES ASSUME NEW j \in active' PROVE \E v \in Workers : job'[v] = j
      BY DEF ActiveHeld
    <3>1. CASE j = i
      BY <3>1, <2>3
    <3>2. CASE j # i
      <4>1. PICK v \in Workers : job[v] = j
        BY <3>2, <2>1
      <4>2. v # w
        BY <4>1, <3>2, <2>1, <2>2, NoIdFresh DEF Typed, TypeOK
      <4> QED
        BY <4>1, <4>2, <2>3
    <3> QED
      BY <3>1, <3>2
  <2> QED
    BY <2>4, <2>5, <2>6
<1> QED
  BY <1>1, <1>2

LEMMA ReleaseKeeps ==
  ASSUME Typed, Reserved, NEW w \in Workers, job[w] # NoId,
         active' = active \ {job[w]}, job' = [job EXCEPT ![w] = NoId]
  PROVE  Reserved'
<1> USE DEF Reserved, JobActive, JobDistinct, ActiveHeld
<1>1. job'[w] = NoId /\ \A v \in Workers \ {w} : job'[v] = job[v]
  BY DEF Typed, TypeOK
<1>2. JobActive'
  <2> SUFFICES ASSUME NEW v \in Workers, job'[v] # NoId
               PROVE  job'[v] \in active'
    BY DEF JobActive
  <2>1. v # w /\ job'[v] = job[v] /\ job[v] \in active
    BY <1>1
  <2> QED
    BY <2>1
<1>3. JobDistinct'
  BY <1>1
<1>4. ActiveHeld'
  <2> SUFFICES ASSUME NEW j \in active' PROVE \E v \in Workers : job'[v] = j
    BY DEF ActiveHeld
  <2>1. PICK v \in Workers : job[v] = j
    OBVIOUS
  <2> QED
    BY <2>1, <1>1
<1> QED
  BY <1>2, <1>3, <1>4

LEMMA WorkerReserved ==
  ASSUME Typed, Reserved, NEW w \in Workers, WorkerStep(w)
  PROVE  Reserved'
<1>1. ASSUME UNCHANGED <<active, job>> PROVE Reserved'
  BY <1>1 DEF Reserved, JobActive, JobDistinct, ActiveHeld
<1>2. ASSUME NEW i \in Ids, Reserve(w, i) PROVE Reserved'
  BY <1>2, ReserveKeeps
<1>3. ASSUME Undo(w) \/ Release(w) PROVE Reserved'
  <2>1. /\ pc[w] \in {"undo", "undoError", "written"}
        /\ active' = active \ {job[w]} /\ job' = [job EXCEPT ![w] = NoId]
    BY <1>3 DEF Undo, Release, ReleaseTo, Goto
  <2>2. job[w] # NoId
    BY <2>1 DEF Typed, JobTyped, Busy
  <2> QED
    BY <2>1, <2>2, ReleaseKeeps
<1>4. ASSUME \/ CheckContext(w) \/ Scan(w) \/ ScanError(w) \/ Take(w)
             \/ TakeError(w) \/ ClaimNone(w) \/ VerifyReturns(w)
             \/ Finish(w) \/ FinishError(w) \/ Wait(w)
      PROVE  UNCHANGED <<active, job>>
  BY <1>4 DEF CheckContext, Scan, ScanError, Take, TakeError, ClaimNone,
              VerifyReturns, Finish, FinishError, Wait
<1> QED
  BY <1>1, <1>2, <1>3, <1>4 DEF WorkerStep

LEMMA PanelKeepsWorkers ==
  ASSUME PanelStep
  PROVE  UNCHANGED <<active, pc, cand, job>>
BY DEF PanelStep, ImportRow, ImportEnd, Requeue, Reauthenticate,
       ReauthenticateFailed, ReauthenticateAll, Wake, Delete, Disable,
       EditRead, Create, EditSave, workerVars

LEMMA NextReserved == Typed /\ Reserved /\ [Next]_vars => Reserved'
<1> SUFFICES ASSUME Typed, Reserved, [Next]_vars PROVE Reserved'
  OBVIOUS
<1> USE DEF Reserved, JobActive, JobDistinct, ActiveHeld
<1>1. CASE \E w \in Workers : WorkerStep(w)
  BY <1>1, WorkerReserved
<1>2. CASE PanelStep
  BY <1>2, PanelKeepsWorkers
<1>3. CASE Stop
  BY <1>3 DEF Stop, workerVars
<1>4. CASE Restart
  BY <1>4 DEF Restart
<1>5. CASE UNCHANGED vars
  BY <1>5 DEF vars, workerVars
<1> QED
  BY <1>1, <1>2, <1>3, <1>4, <1>5 DEF Next

LEMMA ReservedInvariant == Spec => [](Typed /\ Reserved)
<1>1. Init => Reserved
  BY DEF Init, Reserved, JobActive, JobDistinct, ActiveHeld
<1> QED
  BY <1>1, InitTyped, NextTyped, NextReserved, PTL DEF Spec

(* reserve() and release() keep a mailbox from being verified by two       *)
(* workers at once, also when a request queues it again meanwhile.         *)
THEOREM VerifyExclusiveAlways == Spec => []VerifyExclusive
<1>1. Typed /\ Reserved => VerifyExclusive
  BY DEF Typed, JobTyped, Reserved, JobDistinct, VerifyExclusive, Busy
<1> QED
  BY <1>1, ReservedInvariant, PTL

(* No path through claim() leaks a reservation, failing statements and     *)
(* deleted rows included.                                                  *)
THEOREM ReservationHeldAlways == Spec => []ReservationHeld
<1>1. Typed /\ Reserved => ReservationHeld
  <2> SUFFICES ASSUME Typed, Reserved, NEW i \in active
               PROVE  \E w \in Workers : job[w] = i /\ pc[w] \in Busy
    BY DEF ReservationHeld
  <2>1. PICK w \in Workers : job[w] = i
    BY DEF Reserved, ActiveHeld
  <2>2. job[w] # NoId
    BY <2>1, NoIdFresh DEF Typed, TypeOK
  <2> QED
    BY <2>1, <2>2 DEF Typed, JobTyped
<1> QED
  BY <1>1, ReservedInvariant, PTL
-----------------------------------------------------------------------------
(* Claimed rows.  Without form edits no request sets a row to verifying;   *)
(* without faults a worker settles the row before it is done with it.      *)

Sound == ~Edits /\ ~Faults
EditFree == edit = NoEdit
WrittenSettled ==
  \A w \in Workers : pc[w] = "written" => status[job[w]] # "verifying"
Claimed == EditFree /\ VerifyingIsClaimed /\ WrittenSettled
Inv == Typed /\ Reserved /\ Claimed

(* A step of a worker that leaves the rows alone and neither takes up nor  *)
(* settles one.                                                            *)
LEMMA QuietClaimed ==
  ASSUME Inv, NEW w \in Workers, NEW to,
         UNCHANGED <<status, edit>>,
         pc' = [pc EXCEPT ![w] = to], to # "written",
         pc[w] \in Verifying => to \in Verifying,
         \A v \in Workers : v # w => job'[v] = job[v],
         pc[w] \in Verifying => job'[w] = job[w]
  PROVE  Claimed'
<1> USE DEF Inv, Typed, TypeOK, Claimed, EditFree
<1>1. VerifyingIsClaimed'
  <2> SUFFICES ASSUME NEW i \in Ids, status'[i] = "verifying"
               PROVE  \E v \in Workers : job'[v] = i /\ pc'[v] \in Verifying
    BY DEF VerifyingIsClaimed
  <2>1. PICK v \in Workers : job[v] = i /\ pc[v] \in Verifying
    BY DEF VerifyingIsClaimed
  <2>2. CASE v = w
    BY <2>1, <2>2
  <2>3. CASE v # w
    BY <2>1, <2>3
  <2> QED
    BY <2>2, <2>3
<1>2. WrittenSettled'
  BY DEF WrittenSettled
<1> QED
  BY <1>1, <1>2

LEMMA TakeClaimed ==
  ASSUME Inv, NEW w \in Workers, Take(w)
  PROVE  Claimed'
<1> USE DEF Inv, Typed, TypeOK, Claimed, EditFree
<1>1. CASE status[job[w]] # "unverified"
  <2>1. pc' = [pc EXCEPT ![w] = "undo"] /\ pc[w] = "reserved"
    BY <1>1 DEF Take, Goto
  <2>2. UNCHANGED <<status, edit, job>>
    BY <1>1 DEF Take, panelVars
  <2> QED
    BY <2>1, <2>2, QuietClaimed DEF Verifying
<1>2. CASE status[job[w]] = "unverified"
  <2>1. /\ pc' = [pc EXCEPT ![w] = "verify"] /\ pc[w] = "reserved"
        /\ status' = [status EXCEPT ![job[w]] = "verifying"]
        /\ UNCHANGED <<edit, job>>
    BY <1>2 DEF Take, Goto, panelVars
  <2>2. job[w] \in Ids /\ job[w] # NoId
    BY <2>1, NoIdFresh DEF JobTyped, Busy
  <2>3. VerifyingIsClaimed'
    <3> SUFFICES ASSUME NEW i \in Ids, status'[i] = "verifying"
                 PROVE  \E v \in Workers : job'[v] = i /\ pc'[v] \in Verifying
      BY DEF VerifyingIsClaimed
    <3>1. CASE i = job[w]
      BY <3>1, <2>1 DEF Verifying
    <3>2. CASE i # job[w]
      <4>1. PICK v \in Workers : job[v] = i /\ pc[v] \in Verifying
        BY <3>2, <2>1 DEF VerifyingIsClaimed
      <4> QED
        BY <4>1, <3>2, <2>1
    <3> QED
      BY <3>1, <3>2
  <2>4. WrittenSettled'
    <3> SUFFICES ASSUME NEW v \in Workers, pc'[v] = "written"
                 PROVE  status'[job'[v]] # "verifying"
      BY DEF WrittenSettled
    <3>1. v # w /\ pc[v] = "written"
      BY <2>1
    <3>2. job[v] # job[w]
      BY <3>1, <2>2 DEF Reserved, JobDistinct
    <3> QED
      BY <3>1, <3>2, <2>1 DEF WrittenSettled
  <2> QED
    BY <2>1, <2>3, <2>4
<1> QED
  BY <1>1, <1>2

LEMMA FinishClaimed ==
  ASSUME Inv, NEW w \in Workers, Finish(w)
  PROVE  Claimed'
<1> USE DEF Inv, Typed, TypeOK, Claimed, EditFree
<1>1. /\ pc[w] \in {"good", "bad", "aborted"}
      /\ pc' = [pc EXCEPT ![w] = "written"]
      /\ UNCHANGED <<edit, job>>
  BY DEF Finish, Goto, panelVars
<1>2. job[w] \in Ids /\ job[w] # NoId
  BY <1>1, NoIdFresh DEF JobTyped, Busy, Verifying
<1>3. /\ status'[job[w]] # "verifying"
      /\ \A i \in Ids : i # job[w] => status'[i] = status[i]
  BY <1>2 DEF Finish, Found
<1>4. VerifyingIsClaimed'
  <2> SUFFICES ASSUME NEW i \in Ids, status'[i] = "verifying"
               PROVE  \E v \in Workers : job'[v] = i /\ pc'[v] \in Verifying
    BY DEF VerifyingIsClaimed
  <2>1. PICK v \in Workers : job[v] = i /\ pc[v] \in Verifying
    BY <1>3 DEF VerifyingIsClaimed
  <2>2. v # w
    BY <2>1, <1>3
  <2> QED
    BY <2>1, <2>2, <1>1
<1>5. WrittenSettled'
  <2> SUFFICES ASSUME NEW v \in Workers, pc'[v] = "written"
               PROVE  status'[job'[v]] # "verifying"
    BY DEF WrittenSettled
  <2>1. CASE v = w
    BY <2>1, <1>1, <1>3
  <2>2. CASE v # w
    <3>1. pc[v] = "written" /\ job[v] # NoId /\ job[v] \in Ids
      BY <2>2, <1>1, NoIdFresh DEF JobTyped, Busy
    <3>2. job[v] # job[w]
      BY <3>1, <2>2 DEF Reserved, JobDistinct
    <3> QED
      BY <3>1, <3>2, <1>1, <1>3 DEF WrittenSettled
  <2> QED
    BY <2>1, <2>2
<1> QED
  BY <1>1, <1>4, <1>5

LEMMA WorkerClaimed ==
  ASSUME Sound, Inv, NEW w \in Workers, WorkerStep(w)
  PROVE  Claimed'
<1>1. ASSUME NEW to \in {"off", "top", "lock", "try", "reserved", "undo",
                         "undoError", "idle"},
             pc' = [pc EXCEPT ![w] = to], pc[w] \notin Verifying,
             UNCHANGED <<status, edit>>,
             \A v \in Workers : v # w => job'[v] = job[v]
      PROVE  Claimed'
  BY <1>1, QuietClaimed
<1>2. CASE CheckContext(w)
  <2>1. /\ pc' = [pc EXCEPT ![w] = IF stopping THEN "off" ELSE "lock"]
        /\ pc[w] = "top" /\ UNCHANGED <<status, edit, job>>
    BY <1>2 DEF CheckContext, Goto, queueVars, panelVars
  <2> QED
    BY <2>1, <1>1 DEF Verifying
<1>3. CASE Scan(w)
  <2>1. pc' = [pc EXCEPT ![w] = "try"] /\ pc[w] = "lock"
    BY <1>3 DEF Scan, Goto
  <2> QED
    BY <2>1, <1>1, <1>3 DEF Verifying, Scan, queueVars, panelVars
<1>4. ASSUME NEW i \in Ids, Reserve(w, i) PROVE Claimed'
  <2>1. pc[w] = "try" /\ UNCHANGED <<status, edit>>
    BY <1>4 DEF Reserve, Goto, queueVars, panelVars
  <2>2. \A v \in Workers : v # w => job'[v] = job[v]
    BY <1>4 DEF Reserve, Inv, Typed, TypeOK
  <2>3. \/ pc' = [pc EXCEPT ![w] = "try"]
        \/ pc' = [pc EXCEPT ![w] = "reserved"]
    BY <1>4 DEF Reserve, Goto
  <2> QED
    BY <2>1, <2>2, <2>3, <1>1 DEF Verifying
<1>5. CASE Take(w)
  BY <1>5, TakeClaimed
<1>6. CASE Undo(w)
  <2>1. pc[w] \in {"undo", "undoError"} /\ UNCHANGED <<status, edit>>
    BY <1>6 DEF Undo, ReleaseTo, Goto, queueVars, panelVars
  <2>2. \A v \in Workers : v # w => job'[v] = job[v]
    BY <1>6 DEF Undo, ReleaseTo, Inv, Typed, TypeOK
  <2>3. pc' = [pc EXCEPT ![w] = "try"] \/ pc' = [pc EXCEPT ![w] = "idle"]
    BY <1>6 DEF Undo, ReleaseTo, Goto
  <2> QED
    BY <2>1, <2>2, <2>3, <1>1 DEF Verifying
<1>7. CASE ClaimNone(w)
  <2>1. pc' = [pc EXCEPT ![w] = "idle"] /\ pc[w] = "try"
    BY <1>7 DEF ClaimNone, Goto
  <2> QED
    BY <2>1, <1>1, <1>7 DEF Verifying, ClaimNone, queueVars, panelVars
<1>8. CASE VerifyReturns(w)
  <2>1. pc[w] = "verify" /\ UNCHANGED <<status, edit, job>>
    BY <1>8 DEF VerifyReturns, Goto, queueVars, panelVars
  <2>2. \E to \in {"good", "bad", "aborted"} : pc' = [pc EXCEPT ![w] = to]
    BY <1>8 DEF VerifyReturns, Goto
  <2> QED
    BY <2>1, <2>2, QuietClaimed DEF Verifying
<1>9. CASE Finish(w)
  BY <1>9, FinishClaimed
<1>10. CASE Release(w)
  <2>1. pc' = [pc EXCEPT ![w] = "top"] /\ pc[w] = "written"
    BY <1>10 DEF Release, ReleaseTo, Goto
  <2>2. \A v \in Workers : v # w => job'[v] = job[v]
    BY <1>10 DEF Release, ReleaseTo, Inv, Typed, TypeOK
  <2> QED
    BY <2>1, <2>2, <1>1, <1>10 DEF Verifying, Release, queueVars, panelVars
<1>11. CASE Wait(w)
  <2>1. pc[w] = "idle" /\ UNCHANGED <<status, edit, job>>
    BY <1>11 DEF Wait, Goto, queueVars, panelVars
  <2>2. pc' = [pc EXCEPT ![w] = "off"] \/ pc' = [pc EXCEPT ![w] = "top"]
    BY <1>11 DEF Wait, Goto
  <2> QED
    BY <2>1, <2>2, <1>1 DEF Verifying
<1> QED
  BY <1>2, <1>3, <1>4, <1>5, <1>6, <1>7, <1>8, <1>9, <1>10, <1>11
  DEF WorkerStep, Sound, ScanError, TakeError, FinishError

(* What a request does to the rows when nobody edits them.                 *)
LEMMA PanelRows ==
  ASSUME Sound, Inv, PanelStep
  PROVE  /\ UNCHANGED edit
         /\ \E ids \in SUBSET Ids, s \in {"unverified", "absent", "disabled"} :
              status' = [i \in Ids |-> IF i \in ids THEN s ELSE status[i]]
<1> USE DEF Inv, Claimed, EditFree, Sound, Typed, TypeOK
<1>1. ASSUME UNCHANGED status
      PROVE  status' = [i \in Ids |-> IF i \in {} THEN "absent" ELSE status[i]]
  BY <1>1
<1>2. CASE ImportRow
  <2>1. lastId + 1 \in Ids
    BY <1>2, VerifierAssumption DEF ImportRow, Insert, Ids
  <2>2. status' = [i \in Ids |-> IF i \in {lastId + 1} THEN "unverified"
                                                       ELSE status[i]]
    BY <1>2, <2>1 DEF ImportRow, Insert
  <2>3. {lastId + 1} \in SUBSET Ids
    BY <2>1
  <2> QED
    BY <1>2, <2>2, <2>3 DEF ImportRow
<1>3. CASE ImportEnd \/ Wake
  <2>1. UNCHANGED status /\ UNCHANGED edit
    BY <1>3 DEF ImportEnd, Wake, queueVars
  <2>2. {} \in SUBSET Ids
    OBVIOUS
  <2> QED
    BY <1>1, <2>1, <2>2
<1>4. ASSUME NEW ids \in SUBSET Ids, Requeue(ids)
      PROVE  /\ UNCHANGED edit
             /\ \E jds \in SUBSET Ids :
                  status' = [i \in Ids |-> IF i \in jds THEN "unverified"
                                                        ELSE status[i]]
  <2> DEFINE jds == {i \in ids : status[i] # "absent"}
  <2>1. status' = [i \in Ids |-> IF i \in jds THEN "unverified" ELSE status[i]]
    BY <1>4 DEF Requeue
  <2>2. jds \in SUBSET Ids
    OBVIOUS
  <2> HIDE DEF jds
  <2> QED
    BY <1>4, <2>1, <2>2 DEF Requeue
<1>5. CASE Reauthenticate \/ ReauthenticateFailed \/ ReauthenticateAll
  BY <1>4, <1>5 DEF Reauthenticate, ReauthenticateFailed, ReauthenticateAll
<1>6. ASSUME NEW ids \in SUBSET Ids, Delete(ids)
      PROVE  /\ UNCHANGED edit
             /\ status' = [i \in Ids |-> IF i \in ids THEN "absent"
                                                    ELSE status[i]]
  BY <1>6 DEF Delete
<1>7. ASSUME NEW i \in Ids, Disable(i)
      PROVE  /\ UNCHANGED edit
             /\ status' = [j \in Ids |-> IF j \in {i} THEN "disabled"
                                                    ELSE status[j]]
  BY <1>7 DEF Disable
<1>8. ~Create /\ ~EditSave /\ \A i \in Ids : ~EditRead(i)
  BY DEF Create, EditSave, EditRead
<1>9. \A i \in Ids : {i} \in SUBSET Ids
  OBVIOUS
<1> QED
  BY <1>2, <1>3, <1>5, <1>6, <1>7, <1>8, <1>9 DEF PanelStep

LEMMA NextClaimed == Sound /\ Inv /\ [Next]_vars => Claimed'
<1> SUFFICES ASSUME Sound, Inv, [Next]_vars PROVE Claimed'
  OBVIOUS
<1> USE DEF Inv, Claimed, EditFree
<1>1. CASE \E w \in Workers : WorkerStep(w)
  BY <1>1, WorkerClaimed
<1>2. CASE PanelStep
  <2>1. UNCHANGED <<pc, job, edit>>
    BY <1>2, PanelRows, PanelKeepsWorkers
  <2>2. \A i \in Ids : status'[i] = "verifying" => status[i] = "verifying"
    BY <1>2, PanelRows
  <2>3. \A w \in Workers : pc[w] = "written" => job[w] \in Ids
    BY DEF Typed, TypeOK, JobTyped, Busy
  <2>4. VerifyingIsClaimed'
    BY <2>1, <2>2 DEF VerifyingIsClaimed
  <2>5. WrittenSettled'
    BY <2>1, <2>2, <2>3 DEF WrittenSettled
  <2> QED
    BY <2>1, <2>4, <2>5
<1>3. CASE Stop
  BY <1>3 DEF Stop, queueVars, workerVars, panelVars, VerifyingIsClaimed,
              WrittenSettled
<1>4. CASE Restart
  BY <1>4 DEF Restart, VerifyingIsClaimed, WrittenSettled
<1>5. CASE UNCHANGED vars
  BY <1>5 DEF vars, queueVars, workerVars, panelVars, VerifyingIsClaimed,
              WrittenSettled
<1> QED
  BY <1>1, <1>2, <1>3, <1>4, <1>5 DEF Next

LEMMA InvInvariant ==
  ASSUME Sound
  PROVE  Spec => []Inv
<1>1. Init => Inv
  BY InitTyped DEF Init, Inv, Reserved, JobActive, JobDistinct, ActiveHeld,
     Claimed, EditFree, VerifyingIsClaimed, WrittenSettled
<1>2. Inv /\ [Next]_vars => Inv'
  BY NextTyped, NextReserved, NextClaimed DEF Inv
<1> QED
  BY <1>1, <1>2, PTL DEF Spec

(* Without form edits and failing statements a row in verifying has a      *)
(* worker that will settle it, through stops, deletions and restarts.      *)
THEOREM VerifyingIsClaimedAlways ==
  ASSUME Sound
  PROVE  Spec => []VerifyingIsClaimed
<1>1. Inv => VerifyingIsClaimed
  BY DEF Inv, Claimed
<1> QED
  BY <1>1, InvInvariant, PTL
-----------------------------------------------------------------------------
(* MailVerify implements VerifyQueue: the state of a mailbox is its status *)
(* column, a mailbox is busy from Take to Release.                         *)

queueVar == <<QueueState, WorkedOn>>

LEMMA Words ==
  /\ QueueWord("unverified") = "queued" /\ QueueWord("verifying") = "taken"
  /\ QueueWord("absent") = "out" /\ QueueWord("disabled") = "out"
  /\ QueueWord("verified") = "verified"
  /\ QueueWord("verify_failed") = "verify_failed"
BY DEF QueueWord, Results

LEMMA TakenWord == \A s \in Statuses : QueueWord(s) = "taken" <=> s = "verifying"
BY Words DEF Statuses, Results

(* Rows rewritten to one status: the abstract step Set.                    *)
LEMMA SetWords ==
  ASSUME NEW ids \in SUBSET Ids, NEW s,
         status' = [i \in Ids |-> IF i \in ids THEN s ELSE status[i]]
  PROVE  QueueState' =
           [i \in Ids |-> IF i \in ids THEN QueueWord(s) ELSE QueueState[i]]
<1>1. \A i \in Ids : QueueWord(status'[i]) =
        IF i \in ids THEN QueueWord(s) ELSE QueueWord(status[i])
  OBVIOUS
<1> QED
  BY <1>1 DEF QueueState

LEMMA SameWorkedOn ==
  ASSUME Inv, NEW w \in Workers, NEW to,
         pc' = [pc EXCEPT ![w] = to],
         \A v \in Workers : v # w => job'[v] = job[v],
         \/ pc[w] \notin Verifying \cup {"written"}
            /\ to \notin Verifying \cup {"written"}
         \/ /\ pc[w] \in Verifying \cup {"written"}
            /\ to \in Verifying \cup {"written"} /\ job'[w] = job[w]
  PROVE  WorkedOn' = WorkedOn
<1>1. \A v \in Workers : v # w => (Working(v)' <=> Working(v))
  BY DEF Working, Inv, Typed, TypeOK
<1>2. Working(w)' <=> Working(w)
  BY DEF Working, Inv, Typed, TypeOK
<1>3. Working(w) => job'[w] = job[w]
  BY DEF Working
<1>4. \A v \in Workers, i \in Ids :
        (job'[v] = i /\ Working(v)') <=> (job[v] = i /\ Working(v))
  BY <1>1, <1>2, <1>3
<1> QED
  BY <1>4 DEF WorkedOn

LEMMA Stutter ==
  ASSUME UNCHANGED status, WorkedOn' = WorkedOn
  PROVE  UNCHANGED queueVar
BY DEF queueVar, QueueState

LEMMA TakeImplements ==
  ASSUME Inv, NEW w \in Workers, Take(w)
  PROVE  [Queue!Next]_queueVar
<1> USE DEF Inv, Typed, TypeOK
<1>1. CASE status[job[w]] # "unverified"
  <2>1. pc' = [pc EXCEPT ![w] = "undo"] /\ pc[w] = "reserved"
    BY <1>1 DEF Take, Goto
  <2>2. UNCHANGED <<status, job>>
    BY <1>1 DEF Take
  <2>3. WorkedOn' = WorkedOn
    BY <2>1, <2>2, SameWorkedOn DEF Verifying
  <2> QED
    BY <2>2, <2>3, Stutter
<1>2. CASE status[job[w]] = "unverified"
  <2> DEFINE i == job[w]
  <2>1. /\ pc' = [pc EXCEPT ![w] = "verify"] /\ pc[w] = "reserved"
        /\ status' = [status EXCEPT ![i] = "verifying"]
        /\ job' = job
    BY <1>2 DEF Take, Goto
  <2>2. i \in Ids /\ i # NoId
    BY <2>1, NoIdFresh DEF JobTyped, Busy
  <2>3. status' = [j \in Ids |-> IF j \in {i} THEN "verifying" ELSE status[j]]
    BY <2>1, <2>2
  <2>4. QueueState' = [j \in Ids |-> IF j \in {i} THEN "taken" ELSE QueueState[j]]
    <3>1. {i} \in SUBSET Ids
      BY <2>2
    <3> HIDE DEF i, Inv, Typed, TypeOK
    <3>2. QueueState' = [j \in Ids |-> IF j \in {i} THEN QueueWord("verifying")
                                                  ELSE QueueState[j]]
      BY <2>3, <3>1, SetWords
    <3> QED
      BY <3>2, Words
  <2>5. QueueState[i] = "queued"
    BY <1>2, <2>2, Words DEF QueueState
  <2>6. i \notin WorkedOn
    <3> SUFFICES ASSUME NEW v \in Workers, job[v] = i, Working(v) PROVE FALSE
      BY DEF WorkedOn
    <3>1. v = w
      BY <2>2 DEF Reserved, JobDistinct
    <3> QED
      BY <3>1, <2>1 DEF Working, Verifying
  <2>7. WorkedOn' = WorkedOn \cup {i}
    <3>1. \A v \in Workers : v # w => (Working(v)' <=> Working(v))
      BY <2>1 DEF Working
    <3>2. Working(w)' /\ ~Working(w)
      BY <2>1 DEF Working, Verifying
    <3> HIDE DEF Inv, Typed, TypeOK
    <3>3. \A j \in Ids : j \in WorkedOn' <=> j \in WorkedOn \/ j = i
      BY <3>1, <3>2, <2>1 DEF WorkedOn
    <3>4. WorkedOn \subseteq Ids /\ WorkedOn' \subseteq Ids
      BY DEF WorkedOn
    <3> QED
      BY <3>3, <3>4, <2>2
  <2> HIDE DEF i
  <2>8. Queue!Take(i)
    BY <2>4, <2>5, <2>6, <2>7 DEF Queue!Take, Queue!Set
  <2> QED
    BY <2>2, <2>8 DEF Queue!Next
<1> QED
  BY <1>1, <1>2

LEMMA FinishImplements ==
  ASSUME Inv, NEW w \in Workers, Finish(w)
  PROVE  [Queue!Next]_queueVar
<1> USE DEF Inv, Typed, TypeOK
<1> DEFINE i == job[w]
<1>1. /\ pc[w] \in {"good", "bad", "aborted"}
      /\ pc' = [pc EXCEPT ![w] = "written"] /\ job' = job
      /\ status' = [status EXCEPT ![i] =
                      IF status[i] = "verifying" THEN Found(w) ELSE status[i]]
  BY DEF Finish, Goto
<1>2. i \in Ids
  BY <1>1, NoIdFresh DEF JobTyped, Busy, Verifying
<1>3. WorkedOn' = WorkedOn
  BY <1>1, SameWorkedOn DEF Verifying
<1>4. CASE status[i] # "verifying"
  <2>1. status' = status
    BY <1>1, <1>2, <1>4
  <2> QED
    BY <2>1, <1>3, Stutter
<1>5. CASE status[i] = "verifying"
  <2>1. status' = [j \in Ids |-> IF j \in {i} THEN Found(w) ELSE status[j]]
    BY <1>1, <1>2, <1>5
  <2>2. Found(w) \in Results /\ QueueWord(Found(w)) = Found(w)
    BY Words DEF Found, Results
  <2>3. QueueState' = [j \in Ids |-> IF j \in {i} THEN Found(w) ELSE QueueState[j]]
    <3>1. {i} \in SUBSET Ids
      BY <1>2
    <3> HIDE DEF i, Inv, Typed, TypeOK
    <3>2. QueueState' = [j \in Ids |-> IF j \in {i} THEN QueueWord(Found(w))
                                                  ELSE QueueState[j]]
      BY <2>1, <3>1, SetWords
    <3> QED
      BY <3>2, <2>2
  <2>4. QueueState[i] = "taken"
    BY <1>2, <1>5, Words DEF QueueState
  <2>5. i \in WorkedOn
    BY <1>1, <1>2 DEF WorkedOn, Working, Verifying
  <2> HIDE DEF i
  <2>6. Queue!Record(i, Found(w))
    BY <2>3, <2>4, <2>5, <1>3 DEF Queue!Record, Queue!Set
  <2> QED
    BY <1>2, <2>2, <2>6 DEF Queue!Next
<1> QED
  BY <1>4, <1>5

LEMMA ReleaseImplements ==
  ASSUME Inv, NEW w \in Workers, Release(w)
  PROVE  [Queue!Next]_queueVar
<1> USE DEF Inv, Typed, TypeOK
<1> DEFINE i == job[w]
<1>1. /\ pc[w] = "written" /\ pc' = [pc EXCEPT ![w] = "top"]
      /\ job' = [job EXCEPT ![w] = NoId] /\ status' = status
  BY DEF Release, ReleaseTo, Goto, queueVars
<1>2. i \in Ids /\ i # NoId
  BY <1>1, NoIdFresh DEF JobTyped, Busy
<1>3. QueueState' = QueueState
  BY <1>1 DEF QueueState
<1>4. QueueState[i] # "taken"
  BY <1>1, <1>2, TakenWord DEF QueueState, Claimed, WrittenSettled
<1>5. i \in WorkedOn
  BY <1>1, <1>2 DEF WorkedOn, Working
<1>6. WorkedOn' = WorkedOn \ {i}
  <2>1. \A v \in Workers : v # w => /\ Working(v)' <=> Working(v)
                                    /\ job'[v] = job[v]
    BY <1>1 DEF Working
  <2>2. ~Working(w)'
    BY <1>1 DEF Working, Verifying
  <2>3. \A v \in Workers : job[v] = i => v = w
    BY <1>2 DEF Reserved, JobDistinct
  <2> HIDE DEF Inv, Typed, TypeOK
  <2>4. \A j \in Ids : j \in WorkedOn' <=> j \in WorkedOn /\ j # i
    <3> SUFFICES ASSUME NEW j \in Ids
                 PROVE  j \in WorkedOn' <=> j \in WorkedOn /\ j # i
      OBVIOUS
    <3>1. ASSUME j \in WorkedOn' PROVE j \in WorkedOn /\ j # i
      <4>1. PICK v \in Workers : job'[v] = j /\ Working(v)'
        BY <3>1 DEF WorkedOn
      <4>2. v # w
        BY <4>1, <2>2
      <4> QED
        BY <4>1, <4>2, <2>1, <2>3 DEF WorkedOn
    <3>2. ASSUME j \in WorkedOn, j # i PROVE j \in WorkedOn'
      <4>1. PICK v \in Workers : job[v] = j /\ Working(v)
        BY <3>2 DEF WorkedOn
      <4>2. v # w
        BY <4>1, <3>2
      <4> QED
        BY <4>1, <4>2, <2>1 DEF WorkedOn
    <3> QED
      BY <3>1, <3>2
  <2>5. WorkedOn \subseteq Ids /\ WorkedOn' \subseteq Ids
    BY DEF WorkedOn
  <2> QED
    BY <2>4, <2>5
<1> HIDE DEF i
<1>7. Queue!Leave(i)
  BY <1>3, <1>4, <1>5, <1>6 DEF Queue!Leave
<1> QED
  BY <1>2, <1>7 DEF Queue!Next

LEMMA WorkerImplements ==
  ASSUME Sound, Inv, NEW w \in Workers, WorkerStep(w)
  PROVE  [Queue!Next]_queueVar
<1>1. ASSUME NEW to \in {"off", "top", "lock", "try", "reserved", "undo",
                         "undoError", "idle"},
             pc' = [pc EXCEPT ![w] = to],
             pc[w] \notin Verifying \cup {"written"},
             UNCHANGED status,
             \A v \in Workers : v # w => job'[v] = job[v]
      PROVE  [Queue!Next]_queueVar
  <2>1. WorkedOn' = WorkedOn
    BY <1>1, SameWorkedOn DEF Verifying
  <2> QED
    BY <1>1, <2>1, Stutter
<1>2. CASE CheckContext(w)
  <2>1. /\ pc' = [pc EXCEPT ![w] = IF stopping THEN "off" ELSE "lock"]
        /\ pc[w] = "top" /\ UNCHANGED <<status, job>>
    BY <1>2 DEF CheckContext, Goto, queueVars
  <2> QED
    BY <2>1, <1>1 DEF Verifying
<1>3. CASE Scan(w)
  <2>1. pc' = [pc EXCEPT ![w] = "try"] /\ pc[w] = "lock"
    BY <1>3 DEF Scan, Goto
  <2> QED
    BY <2>1, <1>1, <1>3 DEF Verifying, Scan, queueVars
<1>4. ASSUME NEW i \in Ids, Reserve(w, i) PROVE [Queue!Next]_queueVar
  <2>1. pc[w] = "try" /\ UNCHANGED status
    BY <1>4 DEF Reserve, Goto, queueVars
  <2>2. \A v \in Workers : v # w => job'[v] = job[v]
    BY <1>4 DEF Reserve, Inv, Typed, TypeOK
  <2>3. \/ pc' = [pc EXCEPT ![w] = "try"]
        \/ pc' = [pc EXCEPT ![w] = "reserved"]
    BY <1>4 DEF Reserve, Goto
  <2> QED
    BY <2>1, <2>2, <2>3, <1>1 DEF Verifying
<1>5. CASE Take(w)
  BY <1>5, TakeImplements
<1>6. CASE Undo(w)
  <2>1. pc[w] \in {"undo", "undoError"} /\ UNCHANGED status
    BY <1>6 DEF Undo, ReleaseTo, Goto, queueVars
  <2>2. \A v \in Workers : v # w => job'[v] = job[v]
    BY <1>6 DEF Undo, ReleaseTo, Inv, Typed, TypeOK
  <2>3. pc' = [pc EXCEPT ![w] = "try"] \/ pc' = [pc EXCEPT ![w] = "idle"]
    BY <1>6 DEF Undo, ReleaseTo, Goto
  <2> QED
    BY <2>1, <2>2, <2>3, <1>1 DEF Verifying
<1>7. CASE ClaimNone(w)
  <2>1. pc' = [pc EXCEPT ![w] = "idle"] /\ pc[w] = "try"
    BY <1>7 DEF ClaimNone, Goto
  <2> QED
    BY <2>1, <1>1, <1>7 DEF Verifying, ClaimNone, queueVars
<1>8. CASE VerifyReturns(w)
  <2>1. pc[w] = "verify" /\ UNCHANGED <<status, job>>
    BY <1>8 DEF VerifyReturns, Goto, queueVars
  <2>2. PICK to \in {"good", "bad", "aborted"} : pc' = [pc EXCEPT ![w] = to]
    BY <1>8 DEF VerifyReturns, Goto
  <2>3. WorkedOn' = WorkedOn
    BY <2>1, <2>2, SameWorkedOn DEF Verifying
  <2> QED
    BY <2>1, <2>3, Stutter
<1>9. CASE Finish(w)
  BY <1>9, FinishImplements
<1>10. CASE Release(w)
  BY <1>10, ReleaseImplements
<1>11. CASE Wait(w)
  <2>1. pc[w] = "idle" /\ UNCHANGED <<status, job>>
    BY <1>11 DEF Wait, Goto, queueVars
  <2>2. pc' = [pc EXCEPT ![w] = "off"] \/ pc' = [pc EXCEPT ![w] = "top"]
    BY <1>11 DEF Wait, Goto
  <2> QED
    BY <2>1, <2>2, <1>1 DEF Verifying
<1> QED
  BY <1>2, <1>3, <1>4, <1>5, <1>6, <1>7, <1>8, <1>9, <1>10, <1>11
  DEF WorkerStep, Sound, ScanError, TakeError, FinishError

LEMMA NextImplements ==
  ASSUME Sound, Inv, [Next]_vars
  PROVE  [Queue!Next]_queueVar
<1>1. CASE \E w \in Workers : WorkerStep(w)
  BY <1>1, WorkerImplements
<1>2. CASE PanelStep
  <2>1. WorkedOn' = WorkedOn
    BY <1>2, PanelKeepsWorkers DEF WorkedOn, Working
  <2>2. PICK ids \in SUBSET Ids, s \in {"unverified", "absent", "disabled"} :
          status' = [i \in Ids |-> IF i \in ids THEN s ELSE status[i]]
    BY <1>2, PanelRows
  <2>3. QueueState' =
          [i \in Ids |-> IF i \in ids THEN QueueWord(s) ELSE QueueState[i]]
    BY <2>2, SetWords
  <2>4. QueueWord(s) \in {"queued", "out"}
    BY Words
  <2>5. CASE QueueWord(s) = "queued"
    <3>1. Queue!Request
      BY <2>1, <2>3, <2>5 DEF Queue!Request, Queue!Set
    <3> QED
      BY <3>1 DEF Queue!Next
  <2>6. CASE QueueWord(s) = "out"
    <3>1. Queue!Withdraw
      BY <2>1, <2>3, <2>6 DEF Queue!Withdraw, Queue!Set
    <3> QED
      BY <3>1 DEF Queue!Next
  <2> QED
    BY <2>4, <2>5, <2>6
<1>3. CASE Stop
  <2>1. UNCHANGED <<status, pc, job>>
    BY <1>3 DEF Stop, queueVars, workerVars
  <2> QED
    BY <2>1 DEF queueVar, QueueState, WorkedOn, Working
<1>4. CASE Restart
  <2> DEFINE ids == {i \in Ids : status[i] = "verifying"}
  <2>1. status' = [i \in Ids |-> IF i \in ids THEN "unverified" ELSE status[i]]
    BY <1>4 DEF Restart
  <2>2. ids = {i \in Ids : QueueState[i] = "taken"}
    BY TakenWord DEF QueueState, Inv, Typed, TypeOK
  <2>3. ids \in SUBSET Ids
    OBVIOUS
  <2> HIDE DEF ids
  <2>4. QueueState' =
          [i \in Ids |-> IF i \in ids THEN "queued" ELSE QueueState[i]]
    BY <2>1, <2>3, SetWords, Words
  <2>5. WorkedOn' = {}
    BY <1>4 DEF Restart, WorkedOn, Working, Verifying
  <2>6. Queue!Restart
    BY <2>2, <2>4, <2>5 DEF Queue!Restart, Queue!Set
  <2> QED
    BY <2>6 DEF Queue!Next
<1>5. CASE UNCHANGED vars
  <2>1. UNCHANGED <<status, pc, job>>
    BY <1>5 DEF vars, queueVars, workerVars
  <2> QED
    BY <2>1 DEF queueVar, QueueState, WorkedOn, Working
<1> QED
  BY <1>1, <1>2, <1>3, <1>4, <1>5 DEF Next

(* The worker pool keeps the promises of VerifyQueue: a request stays      *)
(* queued until a worker takes it, one worker at a time works on a         *)
(* mailbox, no result overwrites a later request, and what a restart       *)
(* interrupts is queued again.                                             *)
THEOREM QueueImplemented ==
  ASSUME Sound
  PROVE  Spec => ImplementsQueue
<1>1. Init => Queue!Init
  BY Words DEF Init, Queue!Init, QueueState, WorkedOn, Working, Verifying
<1>2. Inv /\ [Next]_vars => [Queue!Next]_queueVar
  BY NextImplements
<1> QED
  BY <1>1, <1>2, InvInvariant, PTL
  DEF Spec, ImplementsQueue, Queue!Spec, queueVar
=============================================================================
