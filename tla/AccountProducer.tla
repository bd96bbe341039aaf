--------------------------- MODULE AccountProducer ---------------------------
(***************************************************************************)
(* What the Grok, Adobe, Leonardo and Lovart producers have in common: one *)
(* goroutine per account (run), a loop that tops a batch up until it has   *)
(* its count of registered accounts (topUp), codes typed in by a person,   *)
(* Stop, StopAll, deletion and restart.  The four packages are copies that *)
(* differ in which rows may be claimed, what a claim keeps and how an      *)
(* attempt may end: modules GrokProducer, AdobeProducer, LeonardoProducer  *)
(* and LovartProducer supply those parts and form the actions from the     *)
(* operators below.                                                        *)
(***************************************************************************)
EXTENDS Naturals, FiniteSets

CONSTANTS
    Platforms,   \* the packages this instance looks at
    Emails,      \* addresses, ordered as their rows are (numbers)
    Accounts,    \* registered ChatGPT accounts among them
    Mothers,     \* those whose address is the mailbox's own
    Pool,        \* addresses of verified mailboxes
    BoxOf,       \* mailbox an account or a pool address reads its mail from
    NoBox,       \* mailbox_id = 0: the code is typed in
    Legacy,      \* TRUE: an old arp_failed row with its cookies exists
    Limit,       \* max_concurrency
    Rows, Tasks, Batches, \* ids of rows, goroutines and batch requests (bounds)
    MaxCount, MaxWaits, MaxOps

ASSUME AccountAssumption ==
    /\ Emails \subseteq Nat \ {0} /\ Mothers \subseteq Accounts
    /\ Accounts \cup Pool \subseteq Emails /\ NoBox \notin {BoxOf[e] : e \in Accounts \cup Pool}
    /\ Limit \in Nat \ {0} /\ Rows \subseteq Nat \ {0} /\ Tasks \subseteq Nat \ {0}
    /\ Batches \subseteq Nat \ {0} /\ MaxWaits \in Nat
    /\ IsFiniteSet(Rows) /\ IsFiniteSet(Tasks)

(* A mailbox has one address of its own, the mother's and the pool's (the  *)
(* models' unique indexes), as long as nobody edits it (MailboxUpdate);    *)
(* its aliases are other accounts.                                         *)
ASSUME MailboxAssumption == \A e, f \in Mothers \cup Pool : BoxOf[e] = BoxOf[f] => e = f

VARIABLES
    platform,
    row, age, born,                  \* the table, how long ago each row was written, the last id given
    task,                            \* goroutines of run and runRescue
    cancel, waiter,                  \* the maps of the producer, by row id
    active,                          \* slots taken
    topUpCancel, runTarget, runTracked, runError,
    batch,                           \* StartFromAccounts requests, then their topUp loops
    start,                           \* a Start request between its read and its save
    ops, meddled, twin, adrift       \* history: requests, other than one batch; ids run twice at once, left by all

vars == <<platform, row, age, born, task, cancel, waiter, active, topUpCancel, runTarget,
          runTracked, runError, batch, start, ops, meddled, twin, adrift>>
progress == <<topUpCancel, runTarget, runTracked, runError>>
history  == <<ops, meddled, twin, adrift>>

InFlight == {"registering", "waiting_code"}
Final    == {"registered", "register_failed", "already_registered", "account_exists"}
Absent   == [email |-> 0, status |-> "none", box |-> NoBox, auth |-> FALSE, arp |-> FALSE, dead |-> FALSE]
Boxes    == {BoxOf[e] : e \in Accounts \cup Pool}

(* What a First found of an address: its row as it was then, or none.      *)
Nothing == [id |-> 0, old |-> Absent]

Unborn == [id |-> 0, kind |-> "run", pc |-> "free", live |-> TRUE, by |-> 0,
           box |-> NoBox, restore |-> FALSE, waits |-> 0, code |-> 0]
Idle   == [pc |-> "idle", count |-> 0, live |-> TRUE, first |-> TRUE, running |-> 0,
           want |-> 0, todo |-> {}, held |-> Nothing, picked |-> {}, tracked |-> {}]

Exists(id) == row[id].status /= "none"
RowOf(e)   == {id \in Rows : Exists(id) /\ row[id].email = e}
Alive(t)   == task[t].pc /= "free"
LeastOf(S) == CHOOSE x \in S : \A y \in S : x <= y
Readings   == {start} \cup {batch[b].held : b \in Batches}

TypeOK ==
    /\ platform \in Platforms
    /\ row \in [Rows -> [email : Emails \cup {0}, status : InFlight \cup Final \cup {"none"},
                         box : Boxes \cup {NoBox}, auth : BOOLEAN, arp : BOOLEAN, dead : BOOLEAN]]
    /\ \A id \in Rows : Exists(id) => row[id].email \in Emails
    /\ age \in [Rows -> 0..2] /\ born \in Rows \cup {0}
    /\ \A t \in Tasks :
          /\ task[t].id \in Rows \cup {0} /\ task[t].kind \in {"run", "rescue"}
          /\ task[t].pc \in {"free", "spawned", "queued", "active", "waiting", "refused",
                             "checking", "releasing", "leaving"}
          /\ task[t].waits \in 0..MaxWaits /\ task[t].code \in 0..MaxWaits
    /\ cancel \in [Rows -> Tasks \cup {0}] /\ waiter \in [Rows -> Tasks \cup {0}]
    /\ active \in 0..Cardinality(Tasks)
    /\ topUpCancel \in Batches \cup {0} /\ runTarget \in 0..MaxCount
    /\ runTracked \subseteq Rows /\ runError \in BOOLEAN
    /\ \A b \in Batches :
          /\ batch[b].pc \in {"idle", "accounts", "pool", "enter", "asleep",
                              "top", "counting", "cooling", "over"}
          /\ batch[b].todo \subseteq Emails /\ batch[b].picked \cup batch[b].tracked \subseteq Rows
    /\ \A h \in Readings : h.id \in Rows \cup {0} /\ h.old.email \in Emails \cup {0}
    /\ twin \cup adrift \subseteq Rows /\ ops \in 0..MaxOps

Init ==
    /\ platform \in Platforms
    /\ row = [id \in Rows |->
                IF id = 1 /\ Legacy /\ platform = "adobe"
                THEN [email |-> LeastOf(Emails), status |-> "register_failed", box |-> NoBox,
                      auth |-> TRUE, arp |-> TRUE, dead |-> FALSE]
                ELSE Absent]
    /\ age = [id \in Rows |-> 0] /\ born = IF Exists(1) THEN 1 ELSE 0
    /\ task = [t \in Tasks |-> Unborn]
    /\ cancel = [id \in Rows |-> 0] /\ waiter = [id \in Rows |-> 0]
    /\ active = 0 /\ topUpCancel = 0 /\ runTarget = 0 /\ runTracked = {} /\ runError = FALSE
    /\ batch = [b \in Batches |-> Idle] /\ start = Nothing
    /\ ops = 0 /\ meddled = FALSE /\ twin = {} /\ adrift = {}

(* An UPDATE ... WHERE id = ?: nothing when the row is gone.               *)
Update(id, fields) ==
    /\ row' = IF Exists(id) THEN [row EXCEPT ![id] = [f \in DOMAIN @ |-> IF f \in DOMAIN fields THEN fields[f] ELSE @[f]]] ELSE row
    /\ age' = IF Exists(id) THEN [age EXCEPT ![id] = 0] ELSE age

Request(other) == ops < MaxOps /\ ops' = ops + 1 /\ meddled' = (meddled \/ other)

(* The go statements: one new goroutine for each row of ids.               *)
FreeTasks == {t \in Tasks : task[t].pc = "free"}
Spawn(ids, kind, by) ==
    LET new == CHOOSE S \in SUBSET FreeTasks : Cardinality(S) = Cardinality(ids)
        of  == CHOOSE f \in [new -> ids] : \A x, y \in new : f[x] = f[y] => x = y
    IN  /\ Cardinality(FreeTasks) >= Cardinality(ids)
        /\ task' = [t \in Tasks |-> IF t \in new
                      THEN [Unborn EXCEPT !.id = of[t], !.kind = kind, !.pc = "spawned", !.by = by]
                      ELSE task[t]]

Pc(t, pc) == task' = [task EXCEPT ![t].pc = pc]

(* Bound: a claim begins only when its goroutines can be given a name.     *)
Promised == UNION {{b} \X (1..batch[b].want) : b \in {x \in Batches : batch[x].pc \in {"accounts", "pool"}}}
            \cup (IF start = Nothing THEN {} ELSE {<<0, 0>>})
Room(n) == Cardinality(Promised) + n <= Cardinality(FreeTasks)

-----------------------------------------------------------------------------
Found(e) == IF RowOf(e) = {} THEN [id |-> 0, old |-> [Absent EXCEPT !.email = e]]
            ELSE [id |-> LeastOf(RowOf(e)), old |-> row[LeastOf(RowOf(e))]]

(* Start: one address by hand.  The row is read, then saved.               *)
StartRead(e) ==
    /\ Request(TRUE) /\ start = Nothing /\ Room(1)
    /\ Found(e).old.status \notin InFlight
    /\ start' = Found(e)
    /\ UNCHANGED <<platform, row, age, born, task, cancel, waiter, active, progress, batch, twin, adrift>>

\* Mutant: the session is always thrown away.
ClaimedAfresh(h, box, keeps) == [h.old EXCEPT !.status = "registering", !.box = box, !.auth = FALSE]

(* What Start and claimOne write over whatever the row has become since:   *)
(* every column of the row they read, or of a new one.  Only the Adobe     *)
(* package keeps a session (keeps), and only of an arp_failed row.         *)
Claimed(h, box, keeps) ==
    [h.old EXCEPT !.status = "registering", !.box = box, !.auth = @ /\ keeps /\ h.old.arp]
IdFor(h) == IF h.id > 0 THEN h.id ELSE born + 1
Overlapping(ids) == {id \in ids : \/ \E t \in Tasks : Alive(t) /\ task[t].id = id
                                \/ \E b \in Batches : batch[b].pc \in {"accounts", "pool"} /\ id \in batch[b].picked}

(* The statement fails when the address has got another row meanwhile; a   *)
(* row that was deleted is inserted again.                                 *)
Save(h, box, keeps) ==
    LET id == IdFor(h) IN
    /\ id \in Rows /\ RowOf(h.old.email) \subseteq {id}
    /\ row' = [row EXCEPT ![id] = Claimed(h, box, keeps)]
    /\ age' = [age EXCEPT ![id] = 0]
    /\ born' = IF id > born THEN id ELSE born
    /\ twin' = twin \cup Overlapping({id})

StartSave(keeps) ==
    /\ start /= Nothing /\ start' = Nothing
    /\ Save(start, IF start.old.email \in Pool THEN BoxOf[start.old.email] ELSE NoBox, keeps)
    /\ Spawn({IdFor(start)}, "run", 0)
    /\ UNCHANGED <<platform, cancel, waiter, active, progress, batch, ops, meddled, adrift>>

StartFails ==
    /\ start /= Nothing /\ start' = Nothing
    /\ UNCHANGED <<platform, row, age, born, task, cancel, waiter, active, progress, batch, history>>

-----------------------------------------------------------------------------
(* claimTargets, for the request of batch b and for every round of its     *)
(* loop: accounts first, then the pool, one row saved after the other.     *)
(* found is what the package's WHERE clauses leave of the addresses,       *)
(* skipped what its loop passes over.                                      *)
\* Mutant: only what is worked on or rests is excluded.
BlockedInFlight == {row[id].email : id \in {r \in Rows : row[r].status \in InFlight
                                               \/ (row[r].status = "register_failed" /\ age[r] < 2)}}
Blocked == {row[id].email : id \in {r \in Rows : Exists(r) /\
                                      (row[r].status /= "register_failed" \/ age[r] < 2)}}
BusyBoxes == {row[id].box : id \in {r \in Rows : Exists(r) /\ (row[r].status \in InFlight \/ age[r] < 1)}}
FirstOf(n, S) == {e \in S : Cardinality({x \in S : x < e}) < n}
Min2(x, y) == IF x < y THEN x ELSE y
Pause(b, pc) == [batch EXCEPT ![b] = [Idle EXCEPT !.pc = pc, !.count = batch[b].count, !.first = FALSE,
                                      !.live = batch[b].live, !.tracked = batch[b].tracked]]
NextRound(b) == Pause(b, IF platform = "grok" THEN "top" ELSE "asleep")

Asking(b, n, found) == [batch EXCEPT ![b].pc = "accounts", ![b].want = n, ![b].todo = found,
                                     ![b].held = Nothing, ![b].picked = {}]
Enough(b) == Cardinality(batch[b].picked) >= batch[b].want

Produce(b, n, found) ==
    /\ Request(\E other \in Batches : batch[other].pc /= "idle")
    /\ batch[b].pc = "idle" /\ \A other \in Batches : other < b => batch[other].pc /= "idle"
    /\ Room(Min2(n, Limit))
    /\ batch' = [Asking(b, Min2(n, Limit), found) EXCEPT ![b].count = n]
    /\ UNCHANGED <<platform, row, age, born, task, cancel, waiter, active, progress, start, twin, adrift>>

(* claimOne reads the row of the next address and then saves it: what the  *)
(* listing asked of its status is not asked again.                         *)
ClaimRead(b, skipped) ==
    LET e == LeastOf(batch[b].todo) IN
    /\ batch[b].pc \in {"accounts", "pool"} /\ batch[b].todo /= {} /\ ~Enough(b) /\ batch[b].held = Nothing
    /\ batch' = [batch EXCEPT ![b].todo = @ \ {e}, ![b].held = IF e \in skipped THEN Nothing ELSE Found(e)]
    /\ UNCHANGED <<platform, row, age, born, task, cancel, waiter, active, progress, start, history>>

ClaimSave(b, keeps) ==
    LET h == batch[b].held IN
    /\ batch[b].pc \in {"accounts", "pool"} /\ ~Enough(b) /\ h /= Nothing
    /\ Save(h, BoxOf[h.old.email], keeps)
    /\ batch' = [batch EXCEPT ![b].held = Nothing, ![b].picked = @ \cup {IdFor(h)}]
    /\ UNCHANGED <<platform, task, cancel, waiter, active, progress, start, ops, meddled, adrift>>

ClaimNext(b, skipped, keeps) == ClaimRead(b, skipped) \/ ClaimSave(b, keeps)

(* endTopUp cancels the loop that is registered, whichever it is.          *)
Ended(bs) == IF topUpCancel = 0 THEN bs ELSE [bs EXCEPT ![topUpCancel].live = FALSE]
EndTopUp == runTarget' = 0 /\ topUpCancel' = 0
Over(b) == [batch EXCEPT ![b] = [Idle EXCEPT !.pc = "over", !.count = batch[b].count]]
LoopReturns(b) == batch' = Ended(Over(b)) /\ EndTopUp

(* A statement fails: what was claimed so far stays claimed, and the       *)
(* request or the loop returns.                                            *)
ClaimFails(b) ==
    /\ batch[b].pc \in {"accounts", "pool"} /\ ~Enough(b)
    /\ adrift' = adrift \cup batch[b].picked
    /\ IF batch[b].first THEN batch' = Over(b) /\ UNCHANGED <<runTarget, topUpCancel>> ELSE LoopReturns(b)
    /\ UNCHANGED <<platform, row, age, born, task, cancel, waiter, active, runTracked, runError, start, ops, meddled, twin>>

ClaimPool(b, found) ==
    /\ batch[b].pc = "accounts" /\ batch[b].todo = {} /\ batch[b].held = Nothing /\ ~Enough(b)
    /\ batch' = [batch EXCEPT ![b].pc = "pool", ![b].todo = found]
    /\ UNCHANGED <<platform, row, age, born, task, cancel, waiter, active, progress, start, history>>

ClaimsOver(b) == \/ batch[b].pc \in {"accounts", "pool"} /\ Enough(b)
                 \/ batch[b].pc = "pool" /\ batch[b].todo = {} /\ batch[b].held = Nothing
CoolingFailure == \E id \in Rows : row[id].status = "register_failed" /\ age[id] < 2
JustRun == \E id \in Rows : Exists(id) /\ row[id].box /= NoBox /\ age[id] < 1

-----------------------------------------------------------------------------
RunningNum == Cardinality({id \in Rows : cancel[id] /= 0})
CountRegistered(ids) == Cardinality({id \in ids : row[id].status = "registered"})

(* The request answers when its claims are over: beginRun, the runs and    *)
(* the loop are started, or nothing was claimed.                           *)
BeginRun(b) ==
    /\ batch[b].first /\ ClaimsOver(b)
    /\ IF batch[b].picked = {}
       THEN /\ batch' = Over(b)
            /\ UNCHANGED <<task, runTarget, runTracked, runError>>
       ELSE /\ runTarget' = batch[b].count /\ runTracked' = batch[b].picked /\ runError' = FALSE
            /\ Spawn(batch[b].picked, "run", b)
            /\ batch' = Pause(b, "enter")
    /\ UNCHANGED <<platform, row, age, born, cancel, waiter, active, topUpCancel, start, history>>

BeginTopUp(b) ==
    /\ batch[b].pc = "enter"
    /\ IF topUpCancel = 0
       THEN topUpCancel' = b /\ batch' = [NextRound(b) EXCEPT ![b].tracked = runTracked]
       ELSE batch' = Over(b) /\ UNCHANGED topUpCancel
    /\ UNCHANGED <<platform, row, age, born, task, cancel, waiter, active, runTarget, runTracked, runError, start, history>>

LoopOnly == UNCHANGED <<platform, row, age, born, task, cancel, waiter, active, runTracked, runError, start, history>>

(* Only the Grok loop looks for an error that would hit every account.     *)
LoopTop(b) ==
    /\ batch[b].pc = "top"
    /\ IF runError THEN LoopReturns(b)
       ELSE batch' = [batch EXCEPT ![b].pc = "asleep"] /\ UNCHANGED <<topUpCancel, runTarget>>
    /\ LoopOnly

\* Mutant: the sleep does not hear of the cancellation.
WakeDeaf(b) ==
    /\ batch[b].pc = "asleep" /\ \A t \in Tasks : task[t].by = b => task[t].pc /= "spawned"
    /\ batch' = [batch EXCEPT ![b].pc = "counting", ![b].running = RunningNum]
    /\ UNCHANGED <<topUpCancel, runTarget>> /\ LoopOnly

(* Five seconds are enough for the goroutines it started to register.      *)
Wake(b) ==
    /\ batch[b].pc = "asleep"
    /\ batch[b].live => \A t \in Tasks : task[t].by = b => task[t].pc /= "spawned"
    /\ IF ~batch[b].live THEN LoopReturns(b)
       ELSE /\ batch' = [batch EXCEPT ![b].pc = "counting", ![b].running = RunningNum]
            /\ UNCHANGED <<topUpCancel, runTarget>>
    /\ LoopOnly

\* Mutant: the running ones are forgotten.
FilledByResults(b) == CountRegistered(batch[b].tracked)
Filled(b) == CountRegistered(batch[b].tracked) + batch[b].running

Short(b) == Min2(batch[b].count - Filled(b), Limit - batch[b].running)
Decide(b, found) ==
    LET filled == Filled(b) IN
    /\ batch[b].pc = "counting"
    /\ CASE filled >= batch[b].count /\ batch[b].running = 0 -> LoopReturns(b)
         [] \/ filled >= batch[b].count /\ batch[b].running > 0
            \/ filled < batch[b].count /\ batch[b].running >= Limit ->
              batch' = NextRound(b) /\ UNCHANGED <<topUpCancel, runTarget>>
         [] OTHER ->
              Room(Short(b)) /\ batch' = Asking(b, Short(b), found) /\ UNCHANGED <<topUpCancel, runTarget>>
    /\ LoopOnly

TrackRun(b) ==
    /\ ~batch[b].first /\ ClaimsOver(b) /\ batch[b].picked /= {}
    /\ runTracked' = runTracked \cup batch[b].picked
    /\ Spawn(batch[b].picked, "run", b)
    /\ batch' = [NextRound(b) EXCEPT ![b].tracked = runTracked \cup batch[b].picked]
    /\ UNCHANGED <<platform, row, age, born, cancel, waiter, active, topUpCancel, runTarget, runError, start, history>>

NothingClaimed(b, cooling) ==
    /\ ~batch[b].first /\ ClaimsOver(b) /\ batch[b].picked = {}
    /\ CASE batch[b].running > 0 ->
              batch' = NextRound(b) /\ UNCHANGED <<topUpCancel, runTarget>>
         [] batch[b].running = 0 /\ cooling ->
              batch' = Pause(b, "cooling") /\ UNCHANGED <<topUpCancel, runTarget>>
         [] OTHER -> LoopReturns(b)
    /\ LoopOnly

CoolingOver(b) ==
    /\ batch[b].pc = "cooling"
    /\ IF batch[b].live
       THEN batch' = NextRound(b) /\ UNCHANGED <<topUpCancel, runTarget>>
       ELSE LoopReturns(b)
    /\ LoopOnly

-----------------------------------------------------------------------------
(* One goroutine of run.                                                   *)
RunOnly == UNCHANGED <<platform, born, topUpCancel, runTarget, runTracked, runError, batch, start, history>>

(* It registers itself, over whoever has the id, and reads its row.        *)
Enter(t) ==
    LET id == task[t].id IN
    /\ task[t].pc = "spawned" /\ task[t].kind = "run"
    /\ cancel' = [cancel EXCEPT ![id] = t]
    /\ task' = [task EXCEPT ![t].pc = IF Exists(id) THEN "queued" ELSE "leaving", ![t].box = row[id].box]
    /\ UNCHANGED <<row, age, waiter, active>> /\ RunOnly

AcquireSlot(t) ==
    /\ task[t].pc = "queued" /\ task[t].live /\ active < Limit
    /\ active' = active + 1 /\ Pc(t, "active")
    /\ UNCHANGED <<row, age, cancel, waiter>> /\ RunOnly

\* Mutant: the stop is not written.
StoppedSilently(t) == /\ task[t].pc = "queued" /\ ~task[t].live /\ Pc(t, "leaving")
                      /\ UNCHANGED <<row, age, cancel, waiter, active>> /\ RunOnly

StoppedInQueue(t) ==
    /\ task[t].pc = "queued" /\ ~task[t].live /\ Pc(t, "leaving")
    /\ IF task[t].kind = "run" THEN Update(task[t].id, [status |-> "register_failed"]) ELSE UNCHANGED <<row, age>>
    /\ UNCHANGED <<cancel, waiter, active>> /\ RunOnly

\* Mutant: the channel of the wait before is used again.
SameChannel(t) == [task EXCEPT ![t].pc = "waiting", ![t].waits = @ + 1]
NewChannel(t) == [task EXCEPT ![t].pc = "waiting", ![t].waits = @ + 1, ![t].code = 0]

(* waitManualCode: a channel of its own, which replaces the one before.    *)
WaitManualCode(t) ==
    /\ task[t].pc = "active" /\ task[t].box = NoBox /\ task[t].waits < MaxWaits
    /\ waiter' = [waiter EXCEPT ![task[t].id] = t]
    /\ task' = NewChannel(t)
    /\ Update(task[t].id, [status |-> "waiting_code"])
    /\ UNCHANGED <<cancel, active>> /\ RunOnly

CodeTaken(t) ==
    /\ task[t].pc = "waiting" /\ task[t].code > 0
    /\ task' = [task EXCEPT ![t].pc = "active", ![t].code = 0]
    /\ Update(task[t].id, [status |-> "registering"])
    /\ UNCHANGED <<cancel, waiter, active>> /\ RunOnly

\* Mutant: no ten minutes.
NoCodeWhenStopped(t) ==
    /\ task[t].pc = "waiting" /\ ~task[t].live /\ Pc(t, "refused")
    /\ UNCHANGED <<row, age, cancel, waiter, active>> /\ RunOnly

(* Ten minutes without a code, or a stop.                                  *)
NoCode(t) ==
    /\ task[t].pc = "waiting" /\ Pc(t, "refused")
    /\ UNCHANGED <<row, age, cancel, waiter, active>> /\ RunOnly

(* The attempt ends: what it writes, and whether the session is tried out. *)
AttemptEnds(t, fields, checks) ==
    /\ task[t].pc \in {"active", "refused"}
    /\ Pc(t, IF checks THEN "checking" ELSE "releasing")
    /\ Update(task[t].id, fields)
    /\ UNCHANGED <<cancel, waiter, active>>
Succeeds(t) == task[t].pc = "active"

SelfCheck(t) ==
    /\ task[t].pc = "checking" /\ Pc(t, "releasing")
    /\ \E dead \in BOOLEAN : Update(task[t].id, [dead |-> dead])
    /\ UNCHANGED <<cancel, waiter, active>> /\ RunOnly

\* Mutant: the slot is kept.
LeaveWithSlot(t) ==
    /\ task[t].pc \in {"releasing", "leaving"} /\ task' = [task EXCEPT ![t] = Unborn]
    /\ cancel' = [cancel EXCEPT ![task[t].id] = 0] /\ waiter' = [waiter EXCEPT ![task[t].id] = 0]
    /\ UNCHANGED <<row, age, active>> /\ RunOnly

(* The deferred calls: the slot is given back, and the deletes take away   *)
(* whatever stands under the id.                                           *)
Leave(t) ==
    /\ task[t].pc \in {"releasing", "leaving"} /\ task' = [task EXCEPT ![t] = Unborn]
    /\ active' = IF task[t].pc = "releasing" /\ active > 0 THEN active - 1 ELSE active
    /\ cancel' = [cancel EXCEPT ![task[t].id] = 0] /\ waiter' = [waiter EXCEPT ![task[t].id] = 0]
    /\ UNCHANGED <<row, age>> /\ RunOnly

SlotStep(t) == AcquireSlot(t) \/ StoppedInQueue(t) \/ Leave(t)
CodeStep(t) == WaitManualCode(t) \/ CodeTaken(t) \/ NoCode(t)

-----------------------------------------------------------------------------
(* The panel.                                                              *)
SubmitCode(id) ==
    LET t == waiter[id] IN
    /\ t /= 0 /\ task[t].code = 0
    /\ task' = [task EXCEPT ![t].code = task[t].waits]
    /\ UNCHANGED <<platform, row, age, born, cancel, waiter, active, progress, batch, start, history>>

Cancelled(ids) == [t \in Tasks |-> IF t \in {cancel[id] : id \in ids} THEN [task[t] EXCEPT !.live = FALSE] ELSE task[t]]

Stop(id) ==
    /\ Request(FALSE) /\ cancel[id] /= 0 /\ task' = Cancelled({id})
    /\ UNCHANGED <<platform, row, age, born, cancel, waiter, active, progress, batch, start, twin, adrift>>

StopAll ==
    /\ Request(FALSE) /\ batch' = Ended(batch) /\ EndTopUp /\ task' = Cancelled(Rows)
    /\ UNCHANGED <<platform, row, age, born, cancel, waiter, active, runTracked, runError, start, twin, adrift>>

(* Delete stops the row's task first, DeleteAll those of rows in flight.   *)
Delete(ids, stopped) ==
    /\ Request(TRUE) /\ \E id \in ids : Exists(id)
    /\ task' = Cancelled(stopped)
    /\ row' = [id \in Rows |-> IF id \in ids THEN Absent ELSE row[id]]
    /\ UNCHANGED <<platform, age, born, cancel, waiter, active, progress, batch, start, twin, adrift>>
DeleteAll == Delete(Rows, {id \in Rows : row[id].status \in InFlight})

(* A row that is worked on is written all the time.  Of the others, failed *)
(* ones rest before a retry (age 2), in grok their mailbox too (age 1).    *)
Time == \E id \in Rows :
    /\ \/ row[id].status = "register_failed" /\ age[id] < 2
       \/ platform = "grok" /\ row[id].status \in {"registered", "already_registered"} /\ age[id] < 1
    /\ age' = [age EXCEPT ![id] = IF platform = "grok" THEN @ + 1 ELSE 2]
    /\ UNCHANGED <<platform, row, born, task, cancel, waiter, active, progress, batch, start, history>>

(* The process ends; reclaimOrphanRegistering runs when it starts again.   *)
Restart ==
    /\ Request(TRUE)
    /\ row' = [id \in Rows |-> IF row[id].status \in InFlight THEN [row[id] EXCEPT !.status = "register_failed"] ELSE row[id]]
    /\ age' = [id \in Rows |-> IF row[id].status \in InFlight THEN 0 ELSE age[id]]
    /\ task' = [t \in Tasks |-> Unborn]
    /\ cancel' = [id \in Rows |-> 0] /\ waiter' = [id \in Rows |-> 0] /\ active' = 0
    /\ topUpCancel' = 0 /\ runTarget' = 0 /\ runTracked' = {} /\ runError' = FALSE
    /\ batch' = [b \in Batches |-> IF batch[b].pc = "idle" THEN Idle ELSE [Idle EXCEPT !.pc = "over"]]
    /\ start' = Nothing /\ adrift' = {} /\ UNCHANGED <<platform, born, twin>>

SubmitOrStop == StopAll \/ \E id \in Rows : SubmitCode(id) \/ Stop(id)
DeleteRows == DeleteAll \/ \E id \in Rows : Delete({id}, {id})

-----------------------------------------------------------------------------
(* Safety.                                                                 *)

(* A row in progress has somebody who will end it: a task that has not     *)
(* written its result yet or a request that is about to start one.  Two    *)
(* kinds of rows are left adrift until the next restart: those claimed     *)
(* before a save fails (claimTargets returns them, its callers drop them)  *)
(* and those a rescue waited for a code for and failed (runRescue).        *)
InFlightOwned ==
    \A id \in Rows : row[id].status \in InFlight =>
        \/ \E t \in Tasks : task[t].id = id /\ task[t].pc \in {"spawned", "queued", "active", "waiting", "refused"}
        \/ \E b \in Batches : id \in batch[b].picked /\ batch[b].pc \in {"accounts", "pool"}
        \/ id \in adrift

(* The slots taken are those of the tasks between AcquireSlot and          *)
(* ReleaseSlot, never more than the limit.                                 *)
SlotsExact == /\ active = Cardinality({t \in Tasks : task[t].pc \in {"active", "waiting", "refused", "checking", "releasing"}})
              /\ active <= Limit

(* A batch left to itself never registers more accounts than were asked    *)
(* for, though the running tasks and the registered rows are counted at    *)
(* two moments (topUp).  Not so once a failed row is claimed again while   *)
(* its task has its deferred calls still to make, which takes a cool-down  *)
(* of 0 (twin): those then strike the new task off the running ones.       *)
NoOvershoot == ~meddled /\ twin = {} => \A b \in Batches : batch[b].pc /= "idle" =>
                  CountRegistered(Rows) + Cardinality({id \in Rows : cancel[id] /= 0 /\ row[id].status \in InFlight}) <= batch[b].count

(* A batch left to itself runs a mailbox once at a time, so that no two    *)
(* tasks read each other's codes (claimTargets).                           *)
OneRunPerMailbox == ~meddled => \A t, u \in Tasks :
    (t /= u /\ task[t].pc \in {"queued", "active"} /\ task[u].pc \in {"queued", "active"} /\ task[t].box /= NoBox)
       => task[t].box /= task[u].box

(* The code a task is about to take was submitted during this wait, not    *)
(* during an earlier one (waitManualCode makes a channel of its own).      *)
CodeOfThisWait == \A t \in Tasks : task[t].pc = "waiting" => task[t].code \in {0, task[t].waits}

(* The comment on beginTopUp: one loop at a time.  Not so: StopAll forgets *)
(* a loop that still claims, and the next batch starts one beside it.      *)
OneLoop == Cardinality({b \in Batches : ~batch[b].first /\ batch[b].pc /= "enter"}) <= 1

(* A batch left to itself never runs a registered account again, though    *)
(* claimTargets lists, reads and saves in three steps.  Once a person      *)
(* interferes it may: claimOne and Start save a row as they read it,       *)
(* whatever became of it since, two tasks may have held the row (twin),    *)
(* and a rescue that waits for a code ends it (adrift).                    *)
SuccessStands == [][\A id \in Rows : row[id].status = "registered" /\ row'[id].status /= "registered" =>
    /\ meddled'
    /\ row'[id].status = "none" \/ id \in twin \cup adrift \/ \E h \in Readings : h.id = id]_vars

(* Adobe: the cookies of an account that cannot be created again survive   *)
(* claims, starts, failures and restarts, until a session replaces them.   *)
(* Only a row read before it had them is saved without them, and only once *)
(* a person interfered.                                                    *)
SessionKept == [][platform = "adobe" => \A id \in Rows : row[id].arp /\ row[id].auth /\ row'[id].status /= "none" =>
    \/ row'[id].auth
    \/ meddled' /\ \E h \in Readings : h.id = id /\ ~(h.old.arp /\ h.old.auth)]_vars

(* Liveness: a row that is in progress is ended.                           *)
RowsSettle == \A id \in Rows : row[id].status \in InFlight ~> (row[id].status \notin InFlight \/ id \in adrift)
(* A loop that StopAll or an error cancelled ends, whatever it was at.     *)
LoopsEnd == \A b \in Batches : ~batch[b].live ~> batch[b].pc = "over"
=============================================================================
