----------------------------- MODULE MailVerify -----------------------------
(***************************************************************************)
(* The mailbox verifier (internal/mailverify/service.go) and the panel     *)
(* requests on mailbox rows (internal/handlers/mailbox.go).  The status    *)
(* column is a durable queue: unverified rows are jobs, verifying rows are *)
(* claimed jobs.  Every statement on the database is atomic; claimMu       *)
(* serialises claims, active holds the ids being worked on, wake is a      *)
(* channel of capacity one.  Verify itself, a conversation with a mail     *)
(* provider, is the environment: it succeeds, fails or is aborted.         *)
(***************************************************************************)
EXTENDS Integers, FiniteSets

CONSTANTS
  NumMailboxes,  \* rows a behaviour may insert
  Workers,       \* the worker goroutines (concurrency is their number)
  Requests,      \* panel and producer requests in a behaviour
  Edits,         \* whether rows are created and saved by the panel's form
  Picks,         \* statuses the operator may pick in that form
  Faults,        \* whether a statement of a worker may fail
  Restarts       \* whether the process may stop, crash and restart

ASSUME VerifierAssumption ==
  /\ NumMailboxes \in Nat /\ Requests \in Nat
  /\ Picks \subseteq {"unverified", "verifying", "verified", "verify_failed"}
  /\ Edits \in BOOLEAN /\ Faults \in BOOLEAN /\ Restarts \in BOOLEAN

Ids == 1..NumMailboxes
NoId == 0
Limit == 2 * Cardinality(Workers) + 1

Results == {"verified", "verify_failed"}
Statuses == {"unverified", "verifying", "absent", "disabled"} \cup Results
Stages == {"off", "top", "lock", "try", "reserved", "undo", "undoError",
           "verify", "good", "bad", "aborted", "written", "idle"}
Claiming == {"try", "reserved", "undo", "undoError"}   \* inside claimMu
Verifying == {"verify", "good", "bad", "aborted"}
Busy == Verifying \cup {"reserved", "undo", "undoError", "written"}

VARIABLES
  status,      \* of each mailbox row
  lastId,      \* the id of the newest row; ids are never reused
  active,      \* s.active
  wake,        \* the wake channel holds a signal
  stopping,    \* s.ctx is cancelled
  pc,          \* where each worker is
  cand,        \* the candidates its claim has not tried yet
  job,         \* the mailbox it reserved
  announcing,  \* requests that changed rows and have not called Wake yet
  importing,   \* an import is inserting rows and will call Wake at its end
  edit,        \* MailboxUpdate has read this id and status and will save
  budget       \* requests left

queueVars == <<status, lastId>>
workerVars == <<pc, cand, job>>
panelVars == <<announcing, importing, edit, budget>>
vars == <<queueVars, active, wake, stopping, workerVars, panelVars>>

NoEdit == [id |-> NoId, status |-> "absent"]

Queued == {i \in Ids : status[i] = "unverified"}

-----------------------------------------------------------------------------
(* The process starts on an empty table; New and Start have run.           *)
Init ==
  /\ status = [i \in Ids |-> "absent"] /\ lastId = 0
  /\ active = {} /\ wake = TRUE /\ stopping = FALSE
  /\ pc = [w \in Workers |-> "top"]
  /\ cand = [w \in Workers |-> {}]
  /\ job = [w \in Workers |-> NoId]
  /\ announcing = 0 /\ importing = FALSE /\ edit = NoEdit
  /\ budget = Requests

SendWake == wake' = TRUE

-----------------------------------------------------------------------------
(* A worker.                                                               *)

Goto(w, from, to) == pc[w] = from /\ pc' = [pc EXCEPT ![w] = to]

(* The select at the head of the loop.                                     *)
CheckContext(w) ==
  /\ Goto(w, "top", IF stopping THEN "off" ELSE "lock")
  /\ UNCHANGED <<queueVars, active, wake, stopping, cand, job, panelVars>>

(* claim() takes claimMu and lists the newest unverified rows.             *)
Scan(w) ==
  /\ \A v \in Workers : pc[v] \notin Claiming
  /\ Goto(w, "lock", "try")
  /\ cand' = [cand EXCEPT ![w] =
       {i \in Queued : Cardinality({j \in Queued : j > i}) < Limit}]
  /\ UNCHANGED <<queueVars, active, wake, stopping, job, panelVars>>

ScanError(w) ==
  /\ Faults
  /\ \A v \in Workers : pc[v] \notin Claiming
  /\ Goto(w, "lock", "idle")
  /\ UNCHANGED <<queueVars, active, wake, stopping, cand, job, panelVars>>

IsNext(w, i) == i \in cand[w] /\ \A j \in cand[w] : j <= i

\* Mutant: the ids being worked on are not consulted.
ReserveAlways(w, i) ==
  /\ IsNext(w, i)
  /\ cand' = [cand EXCEPT ![w] = @ \ {i}]
  /\ Goto(w, "try", "reserved")
  /\ active' = active \cup {i}
  /\ job' = [job EXCEPT ![w] = i]
  /\ UNCHANGED <<queueVars, wake, stopping, panelVars>>

(* reserve(): a candidate somebody works on is passed over.                *)
Reserve(w, i) ==
  /\ IsNext(w, i)
  /\ cand' = [cand EXCEPT ![w] = @ \ {i}]
  /\ \/ /\ i \in active
        /\ Goto(w, "try", "try")
        /\ UNCHANGED <<active, job>>
     \/ /\ i \notin active
        /\ Goto(w, "try", "reserved")
        /\ active' = active \cup {i}
        /\ job' = [job EXCEPT ![w] = i]
  /\ UNCHANGED <<queueVars, wake, stopping, panelVars>>

(* The conditional update to verifying; claim() returns the mailbox if it  *)
(* changed a row and goes on to the next candidate if it did not.          *)
Take(w) ==
  /\ \/ /\ Goto(w, "reserved", "verify")
        /\ status[job[w]] = "unverified"
        /\ status' = [status EXCEPT ![job[w]] = "verifying"]
        /\ cand' = [cand EXCEPT ![w] = {}]
     \/ /\ Goto(w, "reserved", "undo")
        /\ status[job[w]] # "unverified"
        /\ UNCHANGED <<status, cand>>
  /\ UNCHANGED <<lastId, active, wake, stopping, job, panelVars>>

TakeError(w) ==
  /\ Faults
  /\ Goto(w, "reserved", "undoError")
  /\ UNCHANGED <<queueVars, active, wake, stopping, cand, job, panelVars>>

ReleaseTo(w, from, to) ==
  /\ Goto(w, from, to)
  /\ active' = active \ {job[w]}
  /\ job' = [job EXCEPT ![w] = NoId]
  /\ SendWake

\* Mutant: the reservation of a row that was gone is not given back.
UndoKeepsReservation(w) ==
  /\ Goto(w, "undo", "try")
  /\ job' = [job EXCEPT ![w] = NoId]
  /\ UNCHANGED <<queueVars, active, wake, stopping, cand, panelVars>>

(* release() deletes the id and signals; nothing tells the two apart.      *)
Undo(w) ==
  /\ \/ ReleaseTo(w, "undo", "try") /\ UNCHANGED cand
     \/ ReleaseTo(w, "undoError", "idle") /\ cand' = [cand EXCEPT ![w] = {}]
  /\ UNCHANGED <<queueVars, stopping, panelVars>>

ClaimNone(w) ==
  /\ cand[w] = {}
  /\ Goto(w, "try", "idle")
  /\ UNCHANGED <<queueVars, active, wake, stopping, cand, job, panelVars>>

(* Verify returns; once the context is cancelled it may be with ctx.Err(). *)
VerifyReturns(w) ==
  /\ \/ Goto(w, "verify", "good") \/ Goto(w, "verify", "bad")
     \/ stopping /\ Goto(w, "verify", "aborted")
  /\ UNCHANGED <<queueVars, active, wake, stopping, cand, job, panelVars>>

Found(w) == IF pc[w] = "good" THEN "verified" ELSE "verify_failed"

\* Mutant: the result is written whatever the row says.
FinishAlways(w) ==
  /\ pc[w] \in {"good", "bad", "aborted"} /\ Goto(w, pc[w], "written")
  /\ status' = [status EXCEPT ![job[w]] =
                  IF @ = "absent" THEN @ ELSE Found(w)]
  /\ UNCHANGED <<lastId, active, wake, stopping, cand, job, panelVars>>

(* UPDATE ... WHERE id = ? AND status = 'verifying': a request that came   *)
(* meanwhile is preserved.                                                 *)
Finish(w) ==
  /\ pc[w] \in {"good", "bad", "aborted"} /\ Goto(w, pc[w], "written")
  /\ status' = [status EXCEPT ![job[w]] =
                  IF @ = "verifying" THEN Found(w) ELSE @]
  /\ UNCHANGED <<lastId, active, wake, stopping, cand, job, panelVars>>

(* A failing update is only logged.                                        *)
FinishError(w) ==
  /\ Faults
  /\ pc[w] \in {"good", "bad", "aborted"} /\ Goto(w, pc[w], "written")
  /\ UNCHANGED <<queueVars, active, wake, stopping, cand, job, panelVars>>

\* Mutant: the id stays among the ids being worked on.
ReleaseKeepsActive(w) ==
  /\ Goto(w, "written", "top")
  /\ job' = [job EXCEPT ![w] = NoId]
  /\ SendWake
  /\ UNCHANGED <<queueVars, active, stopping, cand, panelVars>>

Release(w) ==
  /\ ReleaseTo(w, "written", "top")
  /\ UNCHANGED <<queueVars, stopping, cand, panelVars>>

(* wait(): cancelled, woken, or the timer.                                 *)
Wait(w) ==
  /\ \/ stopping /\ Goto(w, "idle", "off") /\ UNCHANGED wake
     \/ wake /\ Goto(w, "idle", "top") /\ wake' = FALSE
     \/ Goto(w, "idle", "top") /\ UNCHANGED wake
  /\ UNCHANGED <<queueVars, active, stopping, cand, job, panelVars>>

-----------------------------------------------------------------------------
(* Requests.                                                               *)

Spend == budget > 0 /\ budget' = budget - 1

Insert(s) ==
  /\ lastId < NumMailboxes
  /\ lastId' = lastId + 1
  /\ status' = [status EXCEPT ![lastId + 1] = s]

(* MailboxImport inserts row by row and signals once, at the end.          *)
ImportRow ==
  /\ Insert("unverified")
  /\ IF importing THEN UNCHANGED budget ELSE Spend
  /\ importing' = TRUE
  /\ UNCHANGED <<active, wake, stopping, workerVars, announcing, edit>>

ImportEnd ==
  /\ importing /\ importing' = FALSE
  /\ SendWake
  /\ UNCHANGED <<queueVars, active, stopping, workerVars, announcing, edit,
                 budget>>

(* Reauthenticate, ReauthenticateFailed and ReauthenticateAll: one         *)
(* statement, then Wake.                                                   *)
Requeue(ids) ==
  /\ Spend
  /\ status' = [i \in Ids |->
       IF i \in ids /\ status[i] # "absent" THEN "unverified" ELSE status[i]]
  /\ announcing' = announcing + 1
  /\ UNCHANGED <<lastId, active, wake, stopping, workerVars, importing, edit>>

Reauthenticate == \E ids \in SUBSET Ids \ {{}} : Requeue(ids)
ReauthenticateFailed == Requeue({i \in Ids : status[i] = "verify_failed"})
ReauthenticateAll == Requeue(Ids)

Wake ==
  /\ announcing > 0 /\ announcing' = announcing - 1
  /\ SendWake
  /\ UNCHANGED <<queueVars, active, stopping, workerVars, importing, edit,
                 budget>>

(* MailboxDelete and MailboxDeleteAll.                                     *)
Delete(ids) ==
  /\ Spend
  /\ status' = [i \in Ids |-> IF i \in ids THEN "absent" ELSE status[i]]
  /\ UNCHANGED <<lastId, active, wake, stopping, workerVars, announcing,
                 importing, edit>>

(* The producer's pollCode takes a mailbox out of production.              *)
Disable(i) ==
  /\ Spend /\ status[i] # "absent"
  /\ status' = [status EXCEPT ![i] = "disabled"]
  /\ UNCHANGED <<lastId, active, wake, stopping, workerVars, announcing,
                 importing, edit>>

(* MailboxCreate: unverified unless the form says otherwise; no signal.    *)
Create ==
  /\ Edits /\ Spend
  /\ \E s \in Picks \cup {"unverified"} : Insert(s)
  /\ UNCHANGED <<active, wake, stopping, workerVars, announcing, importing,
                 edit>>

(* A row is read, into the handler's copy or into the page's form, and     *)
(* MailboxUpdate later saves all of it: the status that was read unless    *)
(* the operator picks another.  A save of a deleted row inserts it.        *)
EditRead(i) ==
  /\ Edits /\ Spend /\ edit = NoEdit /\ status[i] # "absent"
  /\ edit' = [id |-> i, status |-> status[i]]
  /\ UNCHANGED <<queueVars, active, wake, stopping, workerVars, announcing,
                 importing>>

EditSave ==
  /\ edit # NoEdit
  /\ \E s \in Picks \cup {edit.status} :
        status' = [status EXCEPT ![edit.id] = s]
  /\ edit' = NoEdit
  /\ UNCHANGED <<lastId, active, wake, stopping, workerVars, announcing,
                 importing, budget>>

-----------------------------------------------------------------------------
(* Stop cancels the context and waits for the workers.                     *)
Stop ==
  /\ Restarts /\ ~stopping
  /\ stopping' = TRUE
  /\ UNCHANGED <<queueVars, active, wake, workerVars, panelVars>>

\* Mutant: the rows a crash interrupted are left alone.
RestartKeepsRows ==
  /\ Restarts
  /\ active' = {} /\ wake' = TRUE /\ stopping' = FALSE
  /\ pc' = [w \in Workers |-> "top"]
  /\ cand' = [w \in Workers |-> {}]
  /\ job' = [w \in Workers |-> NoId]
  /\ announcing' = 0 /\ importing' = FALSE /\ edit' = NoEdit
  /\ UNCHANGED <<queueVars, budget>>

(* The process ends at any moment and starts again: New and Start.         *)
Restart ==
  /\ Restarts
  /\ status' = [i \in Ids |->
       IF status[i] = "verifying" THEN "unverified" ELSE status[i]]
  /\ active' = {} /\ wake' = TRUE /\ stopping' = FALSE
  /\ pc' = [w \in Workers |-> "top"]
  /\ cand' = [w \in Workers |-> {}]
  /\ job' = [w \in Workers |-> NoId]
  /\ announcing' = 0 /\ importing' = FALSE /\ edit' = NoEdit
  /\ UNCHANGED <<lastId, budget>>

-----------------------------------------------------------------------------
WorkerStep(w) ==
  \/ CheckContext(w) \/ Scan(w) \/ ScanError(w)
  \/ \E i \in Ids : Reserve(w, i)
  \/ Take(w) \/ TakeError(w) \/ Undo(w) \/ ClaimNone(w)
  \/ VerifyReturns(w) \/ Finish(w) \/ FinishError(w) \/ Release(w) \/ Wait(w)

PanelStep ==
  \/ ImportRow \/ ImportEnd
  \/ Reauthenticate \/ ReauthenticateFailed \/ ReauthenticateAll \/ Wake
  \/ \E ids \in SUBSET Ids : Delete(ids)
  \/ \E i \in Ids : Disable(i) \/ EditRead(i)
  \/ Create \/ EditSave

Next == (\E w \in Workers : WorkerStep(w)) \/ PanelStep \/ Stop \/ Restart

Spec == Init /\ [][Next]_vars

(* Go runs every goroutine, Verify is bounded by its HTTP timeouts, timers *)
(* fire.  Nothing makes an operator act.                                   *)
Fairness == \A w \in Workers : WF_vars(WorkerStep(w))

FairSpec == Spec /\ Fairness

-----------------------------------------------------------------------------
(* Properties.                                                             *)

TypeOK ==
  /\ status \in [Ids -> Statuses] /\ lastId \in 0..NumMailboxes
  /\ active \subseteq Ids /\ wake \in BOOLEAN /\ stopping \in BOOLEAN
  /\ pc \in [Workers -> Stages]
  /\ cand \in [Workers -> SUBSET Ids]
  /\ job \in [Workers -> Ids \cup {NoId}]
  /\ announcing \in Nat /\ importing \in BOOLEAN
  /\ edit \in [id : Ids, status : Statuses] \cup {NoEdit}
  /\ budget \in 0..Requests

(* A mailbox is never verified by two workers at once, also when it is     *)
(* queued again while it is being verified.                                *)
VerifyExclusive ==
  \A v, w \in Workers :
    pc[v] \in Verifying /\ pc[w] \in Verifying /\ job[v] = job[w] => v = w

(* Every reserved id belongs to a worker that will release it: a leaked    *)
(* one would keep its mailbox from ever being verified again.              *)
ReservationHeld ==
  \A i \in active : \E w \in Workers : job[w] = i /\ pc[w] \in Busy

(* A row in verifying has a worker that will settle it (no form edits, no  *)
(* failing statements).                                                    *)
VerifyingIsClaimed ==
  \A i \in Ids : status[i] = "verifying" =>
    \E w \in Workers : job[w] = i /\ pc[w] \in Verifying

(* Every queued row is taken up.                                           *)
QueueDrains ==
  \A i \in Ids : status[i] = "unverified" ~> status[i] # "unverified"

(* The verifier implements the queue discipline of VerifyQueue.            *)
QueueWord(s) == CASE s = "unverified" -> "queued"
                  [] s = "verifying" -> "taken"
                  [] s \in Results -> s
                  [] OTHER -> "out"
QueueState == [i \in Ids |-> QueueWord(status[i])]
Working(w) == pc[w] \in Verifying \cup {"written"}
WorkedOn == {i \in Ids : \E w \in Workers : job[w] = i /\ Working(w)}
Queue == INSTANCE VerifyQueue WITH
           Id <- Ids, Result <- Results, state <- QueueState, busy <- WorkedOn
ImplementsQueue == Queue!Spec
=============================================================================
