------------------------------ MODULE Producer ------------------------------
(***************************************************************************)
(* The ChatGPT batch producer (internal/producer/producer.go): one run     *)
(* loop that claims addresses and launches workers under a semaphore, the  *)
(* workers, the shared counters under p.mu, the rows of the registrations  *)
(* table, and what else touches those rows: Stop, the admin panel, a       *)
(* process crash followed by the startup repair of internal/db.            *)
(*                                                                         *)
(* SQLite runs on one connection, so every database statement is atomic;   *)
(* a sequence of statements is not.  The registration protocol itself is   *)
(* the environment: a worker's attempt ends in one of the outcomes that    *)
(* produceOne distinguishes.                                               *)
(***************************************************************************)
EXTENDS Integers, FiniteSets

CONSTANTS
  NumMailboxes,   \* mailbox rows, ids 1..NumMailboxes ("order by id asc")
  MaxAlias,       \* alias suffixes tried per mailbox (999 in the code)
  FissionCount,   \* setting fission_count
  Slots,          \* capacity of sem: setting max_concurrency
  Targets,        \* batch sizes an operator may ask for
  Interval,       \* setting mailbox_interval_min, in clock ticks
  Cooldown,       \* setting retry_cooldown_min, in clock ticks
  Stagger,        \* whether setting launch_stagger_sec is positive
  Panel,          \* whether panel requests edit rows during the run
  Crashes         \* whether the process may crash and restart

ASSUME MailboxAssumption == NumMailboxes \in Nat \ {0} /\ MaxAlias \in Nat
ASSUME SettingAssumption ==
  /\ FissionCount \in Nat /\ Interval \in Nat /\ Cooldown \in Nat
  /\ Targets \subseteq Nat \ {0} /\ IsFiniteSet(Slots)
  /\ Stagger \in BOOLEAN /\ Panel \in BOOLEAN /\ Crashes \in BOOLEAN

Mailboxes == 1..NumMailboxes
\* An address is a mailbox and a suffix; suffix 0 is the mailbox's own address.
Addresses == Mailboxes \X (0..MaxAlias)
MailboxOf(a) == a[1]
Mother(m) == <<m, 0>>
AliasesOf(m) == {<<m, i>> : i \in 1..MaxAlias}
NoAddress == <<0, 0>>

MaxAge == IF Interval > Cooldown THEN Interval ELSE Cooldown

\* "absent" is also a row "pending", which no query of the producer selects.
Final == {"registered", "already_registered", "register_rejected"}
Statuses == Final \cup {"absent", "registering", "register_failed"}
LoopStates == {"idle", "top", "count", "mothers", "fissions", "nojob",
               "acquire", "launch", "drain"}
Questions == {"busy", "gap", "final", "quota", "alias", "cool", "take"}
Stages == {"idle", "held", "spawned", "opening", "creating", "working",
           "closing", "recreating", "succeeded", "marked",
           "failing", "aborted", "panicked", "settled", "released"}

VARIABLES
  mbVerified,  \* mailboxes whose row has status verified
  status,      \* status of each address's row
  age,         \* ticks since the row's updated_at, capped at MaxAge
  running,     \* prog.Running
  cancelled,   \* the run's context is cancelled
  target,      \* prog.Target
  registered,  \* prog.Registered
  failed,      \* the set p.failed
  inflight,    \* the keys of p.inflight
  pc,          \* where the goroutine of run() is
  done,        \* local "done" of run()
  list,        \* mailboxes nextJob read from the database
  todo,        \* mailboxes the current pass of nextJob has not looked at
  cooling,     \* local "cooling" of nextJob and run()
  question,    \* what nextJob asks next about the mailbox it looks at
  suffix,      \* suffix of the address it has in view
  job,         \* the address nextJob returned
  stage,       \* per semaphore slot: how far its worker is
  addr,        \* per semaphore slot: the worker's address
  deleting     \* a DeleteAll request has passed its Running check

rowVars == <<mbVerified, status, age>>
progVars == <<running, cancelled, target, registered, failed>>
scanVars == <<done, list, todo, cooling, question, suffix>>
loopVars == <<pc, job, scanVars>>
workerVars == <<stage, addr>>
vars == <<rowVars, progVars, inflight, loopVars, workerVars, deleting>>

-----------------------------------------------------------------------------
(* The queries of nextJob.                                                 *)

\* Mutant: only the mailbox's own address keeps it busy.
BusyWithMother(m) == Mother(m) \in inflight
\* Mutant: a mailbox is busy while one of its rows says registering.
BusyByRow(m) == \E i \in 0..MaxAlias : status[<<m, i>>] = "registering"
Busy(m) == \E a \in inflight : MailboxOf(a) = m
UsedRecently(m) ==
  \E i \in 0..MaxAlias : status[<<m, i>>] # "absent" /\ age[<<m, i>>] < Interval
\* Mutant: a taken or rejected address may be tried again.
IsRegisteredOnly(a) == status[a] = "registered"
IsRegistered(a) == status[a] \in Final
FailedRecently(a) == status[a] = "register_failed" /\ age[a] < Cooldown

\* An alias that was rejected uses up a suffix but not the fission quota.
TakesQuota(a) == status[a] \in {"registered", "already_registered"}
Fissions(m) ==
  Cardinality({a \in AliasesOf(m) : TakesQuota(a)})
    + Cardinality(inflight \cap AliasesOf(m))

SetStatus(a, s) ==
  /\ status' = [status EXCEPT ![a] = s]
  /\ age' = [age EXCEPT ![a] = 0]
\* UPDATE ... WHERE email = ?: nothing happens when the row is gone.
UpdateStatus(a, s) ==
  IF status[a] = "absent" THEN UNCHANGED <<status, age>> ELSE SetStatus(a, s)
\* INSERT: the unique index refuses a second row of an address.
CreateRow(a, s) ==
  IF status[a] = "absent" THEN SetStatus(a, s) ELSE UNCHANGED <<status, age>>
-----------------------------------------------------------------------------
Init ==
  /\ mbVerified = Mailboxes
  /\ status = [a \in Addresses |-> "absent"]
  /\ age = [a \in Addresses |-> MaxAge]
  /\ running = FALSE /\ cancelled = FALSE
  /\ target = 0 /\ registered = 0 /\ failed = {}
  /\ inflight = {}
  /\ pc = "idle" /\ job = NoAddress
  /\ done = 0 /\ list = {} /\ todo = {} /\ cooling = FALSE
  /\ question = "busy" /\ suffix = 0
  /\ stage = [w \in Slots |-> "idle"]
  /\ addr = [w \in Slots |-> NoAddress]
  /\ deleting = FALSE

(* Start rejects a second run; everything of the last run is reset.        *)
Start(t) ==
  /\ ~running
  /\ running' = TRUE /\ cancelled' = FALSE
  /\ target' = t /\ registered' = 0 /\ failed' = {} /\ inflight' = {}
  /\ pc' = "top"
  /\ UNCHANGED <<rowVars, job, scanVars, workerVars, deleting>>

(* Stop cancels the run's context; it does not wait.                       *)
Stop ==
  /\ running /\ ~cancelled
  /\ cancelled' = TRUE
  /\ UNCHANGED <<rowVars, running, target, registered, failed, inflight,
                 loopVars, workerVars, deleting>>
-----------------------------------------------------------------------------
(* The goroutine of run().                                                 *)

\* The next mailbox: its own address first.
FromBusy == question' = "busy" /\ suffix' = 0
ScanReset ==
  done' = 0 /\ list' = {} /\ todo' = {} /\ cooling' = FALSE /\ FromBusy

\* Mutant: the loop does not look at its context.
LoopTopUncancelled ==
  /\ pc = "top" /\ pc' = "count" /\ done' = registered
  /\ UNCHANGED <<rowVars, progVars, inflight, job, list, todo, cooling,
                 question, suffix, workerVars, deleting>>

(* The head of the loop: leave when cancelled, else read the success       *)
(* counter (its own critical section).                                     *)
LoopTop ==
  /\ pc = "top"
  /\ \/ cancelled /\ pc' = "drain" /\ done' = 0
     \/ ~cancelled /\ pc' = "count" /\ done' = registered
  /\ UNCHANGED <<rowVars, progVars, inflight, job, list, todo, cooling,
                 question, suffix, workerVars, deleting>>

\* Mutant: the successes so far are left out of the comparison.
LoopCountInflightOnly ==
  /\ pc = "count"
  /\ IF Cardinality(inflight) >= target
     THEN pc' = "top" /\ ScanReset
     ELSE /\ pc' = "mothers"
          /\ done' = 0 /\ list' = mbVerified /\ todo' = mbVerified
          /\ cooling' = FALSE /\ FromBusy
  /\ UNCHANGED <<rowVars, progVars, inflight, job, workerVars, deleting>>

(* A second critical section reads the number of inflight tasks.  Only     *)
(* below the target does nextJob list the verified mailboxes.              *)
LoopCount ==
  /\ pc = "count"
  /\ IF done + Cardinality(inflight) >= target
     THEN /\ pc' = IF inflight = {} THEN "drain" ELSE "top"
          /\ ScanReset
     ELSE /\ pc' = "mothers"
          /\ done' = 0 /\ list' = mbVerified /\ todo' = mbVerified
          /\ cooling' = FALSE /\ FromBusy
  /\ UNCHANGED <<rowVars, progVars, inflight, job, workerVars, deleting>>

(* nextJob looks at one mailbox after the other, first for the mailbox's   *)
(* own address (suffix 0), then for an alias.  Each query is a step; what  *)
(* p.inflight holds of the mailbox is looked at once, since only this loop *)
(* adds to it.                                                             *)
Scanning(m) ==
  /\ pc \in {"mothers", "fissions"}
  /\ m \in todo /\ \A n \in todo : m <= n

Claim(a) ==
  /\ inflight' = inflight \cup {a}
  /\ job' = a
  /\ pc' = "acquire"
  /\ ScanReset

Skip(m, cool) ==
  /\ todo' = todo \ {m} /\ FromBusy
  /\ cooling' = (cooling \/ cool)
  /\ UNCHANGED <<pc, job, done, list, inflight>>

Ask(next, i) ==
  /\ question' = next /\ suffix' = i
  /\ UNCHANGED <<pc, job, done, list, todo, cooling, inflight>>

Queries == UNCHANGED <<rowVars, progVars, workerVars, deleting>>

ScanBusy(m) ==
  /\ Scanning(m) /\ question = "busy"
  /\ IF Busy(m) THEN Skip(m, FALSE) ELSE Ask("gap", 0)
  /\ Queries

ScanGap(m) ==
  /\ Scanning(m) /\ question = "gap"
  /\ IF UsedRecently(m) THEN Skip(m, TRUE) ELSE Ask("final", 0)
  /\ Queries

\* Pass 1 goes on with a mailbox's own address while it is not final, pass 2
\* with an alias once it is.
ScanFinal(m) ==
  /\ Scanning(m) /\ question = "final"
  /\ IF IsRegistered(Mother(m)) = (pc = "mothers") THEN Skip(m, FALSE)
     ELSE Ask(IF pc = "mothers" THEN "cool" ELSE "quota", 0)
  /\ Queries

ScanQuota(m) ==
  /\ Scanning(m) /\ question = "quota"
  /\ IF Fissions(m) >= FissionCount THEN Skip(m, FALSE) ELSE Ask("alias", 1)
  /\ Queries

\* nextFissionEmail stops at the lowest suffix that is not final.
ScanAlias(m) ==
  /\ Scanning(m) /\ question = "alias"
  /\ IF suffix > MaxAlias THEN Skip(m, FALSE)
     ELSE IF <<m, suffix>> \in inflight \/ IsRegistered(<<m, suffix>>)
     THEN Ask("alias", suffix + 1)
     ELSE Ask("cool", suffix)
  /\ Queries

ScanCool(m) ==
  /\ Scanning(m) /\ question = "cool"
  /\ IF FailedRecently(<<m, suffix>>) THEN Skip(m, TRUE) ELSE Ask("take", suffix)
  /\ Queries

ScanTake(m) ==
  /\ Scanning(m) /\ question = "take"
  /\ Claim(<<m, suffix>>)
  /\ Queries

ScanStep(m) ==
  \/ ScanBusy(m) \/ ScanGap(m) \/ ScanFinal(m)
  \/ ScanQuota(m) \/ ScanAlias(m) \/ ScanCool(m) \/ ScanTake(m)

MothersDone ==
  /\ pc = "mothers" /\ todo = {}
  /\ pc' = "fissions" /\ todo' = list
  /\ UNCHANGED <<rowVars, progVars, inflight, job, done, list, cooling,
                 question, suffix, workerVars, deleting>>

FissionsDone ==
  /\ pc = "fissions" /\ todo = {}
  /\ pc' = "nojob"
  /\ UNCHANGED <<rowVars, progVars, inflight, job, scanVars, workerVars,
                 deleting>>

(* No job: wait for the tasks in flight, else for the cooldown, else the   *)
(* capacity is used up.  The sleeps take no step of their own.             *)
NoJob ==
  /\ pc = "nojob"
  /\ pc' = IF inflight = {} /\ ~cooling THEN "drain" ELSE "top"
  /\ ScanReset
  /\ UNCHANGED <<rowVars, progVars, inflight, job, workerVars, deleting>>

(* The select on the semaphore and ctx.Done().                             *)
AcquireSlot(w) ==
  /\ pc = "acquire" /\ stage[w] = "idle"
  /\ stage' = [stage EXCEPT ![w] = "held"]
  /\ addr' = [addr EXCEPT ![w] = job]
  /\ pc' = "launch"
  /\ UNCHANGED <<rowVars, progVars, inflight, job, scanVars, deleting>>

AcquireCancelled ==
  /\ pc = "acquire" /\ cancelled
  /\ inflight' = inflight \ {job}
  /\ job' = NoAddress
  /\ pc' = "drain"
  /\ UNCHANGED <<rowVars, progVars, scanVars, workerVars, deleting>>

(* waitLaunchSlot succeeds: the worker goroutine is spawned.  With a       *)
(* positive stagger the context is looked at only while it waits.          *)
Launch(w) ==
  /\ pc = "launch" /\ stage[w] = "held"
  /\ Stagger \/ ~cancelled
  /\ stage' = [stage EXCEPT ![w] = "spawned"]
  /\ job' = NoAddress
  /\ pc' = "top"
  /\ UNCHANGED <<rowVars, progVars, inflight, scanVars, addr, deleting>>

LaunchCancelled(w) ==
  /\ pc = "launch" /\ stage[w] = "held" /\ cancelled
  /\ stage' = [stage EXCEPT ![w] = "idle"]
  /\ addr' = [addr EXCEPT ![w] = NoAddress]
  /\ inflight' = inflight \ {job}
  /\ job' = NoAddress
  /\ pc' = "drain"
  /\ UNCHANGED <<rowVars, progVars, scanVars, deleting>>

\* Mutant: Running is cleared without waiting for the workers.
FinishWithoutWait ==
  /\ pc = "drain" /\ running' = FALSE /\ pc' = "idle"
  /\ UNCHANGED <<rowVars, cancelled, target, registered, failed, inflight,
                 job, scanVars, workerVars, deleting>>

(* wg.Wait() returned and the deferred function cleared Running.           *)
Finish ==
  /\ pc = "drain"
  /\ \A w \in Slots : stage[w] = "idle"
  /\ running' = FALSE
  /\ pc' = "idle"
  /\ UNCHANGED <<rowVars, cancelled, target, registered, failed, inflight,
                 job, scanVars, workerVars, deleting>>
-----------------------------------------------------------------------------
(* A worker.                                                               *)

Moves(w, from, to) ==
  /\ stage[w] = from
  /\ stage' = [stage EXCEPT ![w] = to]

(* upsert looks for the address's row, then updates the row it found, or   *)
(* inserts one; a row deleted in between is not written.                   *)
LookForRow(w, from, found, none) ==
  /\ Moves(w, from, IF status[addr[w]] = "absent" THEN none ELSE found)
  /\ UNCHANGED <<rowVars, progVars, inflight, loopVars, addr, deleting>>

WriteRow(w, found, none, to, s) ==
  /\ \/ Moves(w, found, to) /\ UpdateStatus(addr[w], s)
     \/ Moves(w, none, to) /\ CreateRow(addr[w], s)
  /\ UNCHANGED <<mbVerified, progVars, inflight, loopVars, addr, deleting>>

(* produceOne begins with the upsert to status registering.                *)
BeginLook(w) == LookForRow(w, "spawned", "opening", "creating")
BeginAttempt(w) == WriteRow(w, "opening", "creating", "working", "registering")

(* Every log line is written to the row at once and refreshes updated_at.  *)
WriteLog(w) ==
  /\ stage[w] = "working"
  /\ status[addr[w]] # "absent"
  /\ age' = [age EXCEPT ![addr[w]] = 0]
  /\ UNCHANGED <<mbVerified, status, progVars, inflight, loopVars,
                 workerVars, deleting>>

(* pollCode gives up on a mail service that stays unavailable and takes    *)
(* the mailbox out of production; the attempt may still ask for another    *)
(* code.                                                                   *)
DisableMailbox(w) ==
  /\ stage[w] = "working"
  /\ mbVerified' = mbVerified \ {MailboxOf(addr[w])}
  /\ UNCHANGED <<status, age, progVars, inflight, loopVars, workerVars,
                 deleting>>

(* Success is an upsert too: it re-creates a row deleted in the meantime.  *)
SucceedLook(w) == LookForRow(w, "working", "closing", "recreating")
Succeed(w) == WriteRow(w, "closing", "recreating", "succeeded", "registered")

(* ErrAccountTaken and ErrTermsRejected: final, and run() skips the        *)
(* address without counting a failure.                                     *)
SkipAddress(w) ==
  /\ Moves(w, "working", "settled")
  /\ \E s \in {"already_registered", "register_rejected"} :
        UpdateStatus(addr[w], s)
  /\ UNCHANGED <<mbVerified, progVars, inflight, loopVars, addr, deleting>>

(* ErrEmailExists: a final status, but run() counts a failure.             *)
RejectExisting(w) ==
  /\ Moves(w, "working", "failing")
  /\ UpdateStatus(addr[w], "register_rejected")
  /\ UNCHANGED <<mbVerified, progVars, inflight, loopVars, addr, deleting>>

(* Every other error, after the retries: no proxy, a blocked exit, no code.*)
Fail(w) ==
  /\ Moves(w, "working", "failing")
  /\ UpdateStatus(addr[w], "register_failed")
  /\ UNCHANGED <<mbVerified, progVars, inflight, loopVars, addr, deleting>>

(* The attempt's context derives from the run's: a Stop aborts it, which   *)
(* is stored and counted as one more failure.                              *)
Abort(w) ==
  /\ cancelled
  /\ Moves(w, "working", "aborted")
  /\ UpdateStatus(addr[w], "register_failed")
  /\ UNCHANGED <<mbVerified, progVars, inflight, loopVars, addr, deleting>>

(* The deferred recover(): first the failed set, then the row.             *)
Panic(w) ==
  /\ Moves(w, "working", "panicked")
  /\ failed' = failed \cup {addr[w]}
  /\ UNCHANGED <<rowVars, running, cancelled, target, registered, inflight,
                 loopVars, addr, deleting>>

\* Mutant: recover() only logs, the row stays registering.
RecoverOnlyLogs(w) ==
  /\ Moves(w, "panicked", "settled")
  /\ UNCHANGED <<rowVars, progVars, inflight, loopVars, addr, deleting>>

RecoverRow(w) ==
  /\ Moves(w, "panicked", "settled")
  /\ UpdateStatus(addr[w], "register_failed")
  /\ UNCHANGED <<mbVerified, progVars, inflight, loopVars, addr, deleting>>

MarkFailed(w) ==
  /\ Moves(w, "failing", "settled") \/ Moves(w, "aborted", "settled")
  /\ failed' = failed \cup {addr[w]}
  /\ UNCHANGED <<rowVars, running, cancelled, target, registered, inflight,
                 loopVars, addr, deleting>>

MarkSuccess(w) ==
  /\ Moves(w, "succeeded", "marked")
  /\ failed' = failed \ {addr[w]}
  /\ UNCHANGED <<rowVars, running, cancelled, target, registered, inflight,
                 loopVars, addr, deleting>>

IncRegistered(w) ==
  /\ Moves(w, "marked", "settled")
  /\ registered' = registered + 1
  /\ UNCHANGED <<rowVars, running, cancelled, target, failed, inflight,
                 loopVars, addr, deleting>>

(* The deferred calls, innermost last: releaseInflight, then the semaphore *)
(* and the wait group.                                                     *)
ReleaseInflight(w) ==
  /\ Moves(w, "settled", "released")
  /\ inflight' = inflight \ {addr[w]}
  /\ UNCHANGED <<rowVars, progVars, loopVars, addr, deleting>>

Exit(w) ==
  /\ Moves(w, "released", "idle")
  /\ addr' = [addr EXCEPT ![w] = NoAddress]
  /\ UNCHANGED <<rowVars, progVars, inflight, loopVars, deleting>>
-----------------------------------------------------------------------------
(* The rest of the process and the operator.                               *)

Tick ==
  /\ \E a \in Addresses : age[a] < MaxAge
  /\ age' = [a \in Addresses |-> IF age[a] < MaxAge THEN age[a] + 1 ELSE age[a]]
  /\ UNCHANGED <<mbVerified, status, progVars, inflight, loopVars,
                 workerVars, deleting>>

DeleteRow(a) ==
  /\ Panel /\ status[a] # "absent"
  /\ status' = [status EXCEPT ![a] = "absent"]
  /\ age' = [age EXCEPT ![a] = MaxAge]
  /\ UNCHANGED <<mbVerified, progVars, inflight, loopVars, workerVars,
                 deleting>>

(* DeleteAll answers 409 while a run is active; the DELETE is a later      *)
(* statement.                                                              *)
DeleteAllCheck ==
  /\ Panel /\ ~deleting /\ ~running
  /\ deleting' = TRUE
  /\ UNCHANGED <<rowVars, progVars, inflight, loopVars, workerVars>>

DeleteAllCommit ==
  /\ deleting
  /\ deleting' = FALSE
  /\ status' = [a \in Addresses |-> "absent"]
  /\ age' = [a \in Addresses |-> MaxAge]
  /\ UNCHANGED <<mbVerified, progVars, inflight, loopVars, workerVars>>

(* A mailbox leaves or enters the verified ones: verification, an edit.    *)
ToggleMailbox(m) ==
  /\ Panel
  /\ mbVerified' = IF m \in mbVerified THEN mbVerified \ {m}
                                       ELSE mbVerified \cup {m}
  /\ UNCHANGED <<status, age, progVars, inflight, loopVars, workerVars,
                 deleting>>

(* The memory is lost; startup turns every row still registering into a    *)
(* failed one before anything is served.                                   *)
CrashRestart ==
  /\ Crashes
  /\ status' = [a \in Addresses |-> IF status[a] = "registering"
                                    THEN "register_failed" ELSE status[a]]
  /\ age' = [a \in Addresses |-> IF status[a] = "registering" THEN 0
                                 ELSE age[a]]
  /\ running' = FALSE /\ cancelled' = FALSE
  /\ target' = 0 /\ registered' = 0 /\ failed' = {} /\ inflight' = {}
  /\ pc' = "idle" /\ job' = NoAddress /\ ScanReset
  /\ stage' = [w \in Slots |-> "idle"]
  /\ addr' = [w \in Slots |-> NoAddress]
  /\ deleting' = FALSE
  /\ UNCHANGED mbVerified
-----------------------------------------------------------------------------
LoopStep ==
  \/ LoopTop \/ LoopCount \/ MothersDone \/ FissionsDone \/ NoJob
  \/ \E m \in Mailboxes : ScanStep(m)
  \/ \E w \in Slots : AcquireSlot(w) \/ Launch(w) \/ LaunchCancelled(w)
  \/ AcquireCancelled \/ Finish

AttemptEnds(w) ==
  SucceedLook(w) \/ SkipAddress(w) \/ RejectExisting(w) \/ Fail(w) \/ Panic(w)

WorkerStep(w) ==
  \/ BeginLook(w) \/ BeginAttempt(w) \/ AttemptEnds(w) \/ Succeed(w) \/ Abort(w)
  \/ RecoverRow(w) \/ MarkFailed(w) \/ MarkSuccess(w) \/ IncRegistered(w)
  \/ ReleaseInflight(w) \/ Exit(w)

PanelStep ==
  \/ \E a \in Addresses : DeleteRow(a)
  \/ DeleteAllCheck \/ DeleteAllCommit
  \/ \E m \in Mailboxes : ToggleMailbox(m)

Next ==
  \/ \E t \in Targets : Start(t)
  \/ Stop
  \/ LoopStep
  \/ \E w \in Slots : WorkerStep(w) \/ WriteLog(w) \/ DisableMailbox(w)
  \/ Tick
  \/ PanelStep
  \/ CrashRestart

Spec == Init /\ [][Next]_vars

(* The Go scheduler runs every goroutine, and every attempt is bounded by  *)
(* its timeout; nothing makes an operator act.                             *)
Fairness ==
  /\ WF_vars(LoopStep)
  /\ \A w \in Slots : WF_vars(WorkerStep(w))

FairSpec == Spec /\ Fairness
-----------------------------------------------------------------------------
(* Properties.                                                             *)

TypeOK ==
  /\ mbVerified \subseteq Mailboxes
  /\ status \in [Addresses -> Statuses]
  /\ age \in [Addresses -> 0..MaxAge]
  /\ running \in BOOLEAN /\ cancelled \in BOOLEAN
  /\ target \in Nat /\ registered \in Nat
  /\ failed \subseteq Addresses /\ inflight \subseteq Addresses
  /\ pc \in LoopStates /\ job \in Addresses \cup {NoAddress}
  /\ done \in Nat /\ cooling \in BOOLEAN
  /\ list \subseteq Mailboxes /\ todo \subseteq Mailboxes
  /\ question \in Questions /\ suffix \in 0..(MaxAlias + 1)
  /\ stage \in [Slots -> Stages]
  /\ addr \in [Slots -> Addresses \cup {NoAddress}]
  /\ deleting \in BOOLEAN

(* nextJob hands out at most one task of a mailbox at a time, so that the  *)
(* codes of two registrations never meet in one inbox.                     *)
MailboxExclusive ==
  \A a, b \in inflight : MailboxOf(a) = MailboxOf(b) => a = b

(* Running is cleared only after the last worker: a finished run leaves no *)
(* task, no worker and no slot behind, whatever made it end.               *)
QuietWhenStopped ==
  ~running => /\ inflight = {} /\ pc = "idle"
              /\ \A w \in Slots : stage[w] = "idle"

(* No path of a worker, and no restart, leaves a row in registering with   *)
(* nobody working on it.                                                   *)
RegisteringHasWorker ==
  \A a \in Addresses : status[a] = "registering" =>
    \E w \in Slots : addr[w] = a /\ stage[w] \in {"working", "closing", "panicked"}

(* A worker never overwrites the row of an address that is final: nothing  *)
(* registers it again, and its status stays until a panel request removes  *)
(* the row.                                                                *)
FinalIsKept ==
  [][\A a \in Addresses : status[a] \in Final =>
        status'[a] \in {status[a], "absent"}]_vars

(* The two counters that run() compares with the target are read apart, so *)
(* the batch may overshoot; it never does by more than the concurrency.    *)
MayStillCount == {a \in inflight : \A w \in Slots :
                    addr[w] = a => stage[w] # "settled"}
OvershootBounded ==
  registered + Cardinality(MayStillCount) <= target + Cardinality(Slots)

(* A Stop ends the run: every attempt is bounded and no new one starts.    *)
StopEnds == (running /\ cancelled) ~> ~running

(* The run loop, its workers and the panel together implement the claim    *)
(* discipline of MailboxClaims.  A mailbox is cleared for an alias from    *)
(* the answer that its own address is final until the scan leaves it.      *)
Cleared == {m \in Mailboxes : /\ Scanning(m) /\ pc = "fissions"
                              /\ question \in {"quota", "alias", "cool", "take"}}
Claims == INSTANCE MailboxClaims WITH
            Mailbox <- Mailboxes, Suffix <- 0..MaxAlias,
            held <- inflight, cleared <- Cleared,
            final <- {a \in Addresses : IsRegistered(a)}
ImplementsClaims == Claims!Spec
=============================================================================
