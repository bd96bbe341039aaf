# TLA+ models of the account production service

The repository is one Go process: a gin web panel, a SQLite database behind
gorm, and background workers that produce accounts on several platforms,
verify mailboxes, lease proxies and keep credentials alive. The modules in this
directory model the service's coordination logic and the attempts it makes. The
third-party sites, the browser and the mail servers are the environment: they
answer, refuse, lose and delay as they like, told apart by what the code does next.

Every definition that stands for code is mapped to its source lines in
`PROJECT.json`; the same file lists runs, mutants, findings, hazards and
theorems.

## 1. Inventory

| Component | Source | State it keeps | Operations | What makes it correct | Status |
|---|---|---|---|---|---|
| Batch producer | `internal/producer/producer.go` | `prog`, `inflight`, `failed` under `mu`; run context; semaphore; rows of `registrations` | Start, Stop, run loop, nextJob, produceOne, worker bookkeeping, panic recovery | one task per mailbox; settled addresses stay settled; overshoot bounded; a stop ends the run | `Producer`, `ChatGPTSignup` (partly) |
| Mailbox verification | `internal/mailverify/service.go`, `internal/handlers/mailbox.go` | the status column as a durable queue, `active` ids, `wake` channel | Start, Stop, claim, finish, release, re-authentication, panel edits | no mailbox verified twice at once; no request lost; queue drains; claimed rows have a worker | `MailVerify` |
| Proxy pool | `internal/proxypool/*.go`, `internal/handlers/proxy.go` | one pool per channel, shared `used` reservations, one fetch in flight, backoff, settings rows | Acquire, fetch, apply, save, test, expire | no session leased twice within its window; one fetch per channel; nothing leased from a discarded configuration; waiters woken | `ProxyPool` (partly) |
| Platform producers | `internal/{grok,adobe,leonardo,lovart}producer` | waiters, cancel functions, top-up target and loop, rows | Start, StartFromAccounts, top-up loop, run, Rescue, SubmitCode, Stop, StopAll, delete | a batch meets its count and no more; one run per mailbox; codes reach their wait; results stand; rows settle | `AccountProducer` and four platform modules |
| Slot gate, log ring | `internal/prodcore/prodcore.go` | a process-wide semaphore | AcquireSlot, ReleaseSlot, AppendLogLine | never more holders than slots; a slot is returned exactly once | in `AccountProducer` (partly) |
| Live checks, downloads | `internal/livecheck`, `handlers/livecheck.go`, the platforms' handlers | one batch's progress, verdict and shipped columns | Start, check one, save, restore, download, convert | counters agree; nothing handed out twice; an uncertain answer condemns nobody | `Verdicts`, `LivePanel` |
| Credentials | `internal/chatgptauth/service.go`, `handlers/gpt_credentials.go`, `registration.go` | credential columns, `credential_version`, per-account locks, completion cache | ensure, refresh, probe, compare-and-swap, migration, panel Update | a rotated token is never overwritten by an older one; a reused outcome is no older than its request | `Credentials` |
| Mail fetching | `internal/mailfetch/*.go` | token cache, registered refresh | Verify, ListMessages, GetMessage over Graph, IMAP, password | one refresh at a time; a list without error is complete; every call ends | `MailFetch` |
| Signup engines | `internal/{codex,adobe,grok,leonardo,lovart}reg`, `grokoauth` | one attempt's locals; Grok's shared signup configuration | the attempt, step by step | success means an account; mails asked for are bounded; an attempt ends | `SignupWorld` and the engines' modules |
| Captcha services | `internal/captcha`, `adobeproducer/captcha_fallback.go` | `secondaryOnly` | order, poll, fall back, submit again | a challenge ends | `CaptchaSolver` (partly) |
| Startup repair | `internal/db/db.go` | all tables | reclaim orphans, repair, normalise | no row left in a working state | in the restarts of four modules (partly) |
| Aliases, registration handlers | `internal/emailalias`, `handlers/registration.go` | rows | Delete, DeleteAll, Update | a batch's rows are not pulled from under it unnoticed | partly, in `Producer` and `Credentials` |
| Admin login, settings, dialling, browser start, pages | `internal/auth`, `handlers/settings.go`, `proxyutil`, `browserboot`, `turnstilepatch`, `static` | – | – | – | not modelled (section 7) |

**Interaction.** The panel's handlers call `Start`/`Stop` of producers and the
`Reauthenticate*` operations of the verifier and otherwise edit the same rows
the workers edit; there are no transactions around read-then-write sequences.
The producers read mailboxes whose status the verifier owns. The platform
producers take ChatGPT accounts and verified mailboxes as their input. Live
checks, exports and credential requests read and write the rows the producers
claim. All producers lease exits from the proxy pool and read codes through the
mail client.

**Hard behaviours.** Statements on the database are atomic (one SQLite
connection) but sequences of them are not; counters and sets are read in
separate critical sections; a Stop races with workers finishing; rows are edited
and deleted by the panel while a worker holds them; a crash loses all memory and
leaves rows in working states; whole-row saves write back stale columns; mails
come late, out of order or never; a token endpoint's answer may be lost after
the token was rotated.

## 2. Plan

| # | Module | Models | Composes / abstract specification | State |
|---|---|---|---|---|
| 1 | `Producer` | batch producer, its rows, panel deletions, crash and repair | implements `MailboxClaims` | checked and proved |
| 2 | `MailVerify` | verifier workers, panel requests on mailboxes, restart | implements `VerifyQueue` | checked and proved |
| 3 | `ProxyPool` | Acquire, requests, waits, Save, reservations, deadlines | – | checked and proved |
| 4 | `AccountProducer`, `GrokProducer`, `AdobeProducer`, `LeonardoProducer`, `LovartProducer` | the four platform producers | composed in `Accounts` | checked and proved |
| 5 | `Verdicts`, `LivePanel` | live checks and exports beside the producers | – | checked and proved |
| 6 | `Credentials` | refresh, probe and compare-and-swap beside edits | – | checked and proved |
| 7 | `MailFetch` | token cache, shared refresh, reads | – | checked and proved |
| 8 | `SignupWorld`, `ChatGPTSignup`, `AdobeSignup`, `AdobeBrowser`, `CaptchaSolver`, `GrokSignup`, `LeonardoSignup`, `LovartSignup` | one address's attempts | composed in `MCSignup` | checked and proved |

Every invariant of a passing run is now a theorem; the liveness properties stay
with TLC. None of these modules declares a RECURSIVE operator, so that they can be proved
about.

Runs stay small: two to three actors, one or two rows, counters capped by a
named bound. Proofs live in `<Module>Proofs`.

## 3. The modules and the code

One action is one critical section or one database statement: SQLite is opened
with one connection, so a statement is atomic, and what happens between two
statements or two lock acquisitions is an interleaving. A row that is read by
one statement and saved whole by a later one is two actions wherever somebody
else could change it between them. Some pairs are one action all the same, where what
could come between them does no more than it does just before or just after:

- the release of a mailbox's id and the signal after it (`MailVerify`);
- a task's entry in the producer's maps and its own reading of its row, and the
  entry of a waiter and the update that shows it (`Enter`, `WaitManualCode`):
  the row is the task's own by then, or is excepted as run twice;
- the loop's counting of registered rows and the listing of accounts it then
  makes at once, and a request's arrival and its listing (`Decide`, `Produce`):
  tasks that end between the two are blocked in the listing either way, and a
  deletion between them leaves one address more to choose from, in a batch that
  counts as meddled with; the mailboxes are listed later, in a step of their own,
  and each row is read and saved by steps of their own;
- Grok's set of mailboxes used in a round is read off the rows picked in it
  (`GrokSkips`);
- the probe of a token and the reading of its claims (`Probe` of `Credentials`),
  which look at the same bytes.

Each action's comment names what it stands for; `PROJECT.json` gives the lines. Operators marked
`\* Mutant` are plausible wrong versions of the definition that follows them;
nothing in the specification uses them.

### Producer (with MailboxClaims, MCProducer, ProducerProofs)

State: the mailbox and registration rows (`mbVerified`, `status`, `age` for
`updated_at`), the fields under `p.mu` (`running`, `target`, `registered`,
`failed`, `inflight`), the run's context (`cancelled`), the run goroutine's
position and locals (`pc`, `done`, `list`, `todo`, `cooling`, `job`, and of the scan
`question` and `suffix`), and per semaphore slot the worker that holds it
(`stage`, `addr`).

Actions: `Start`/`Stop` are the requests. `LoopTop` and `LoopCount` are the two
separate reads of the counters. The two passes of `nextJob` ask one question a
step about one mailbox after the other (`question` says which one comes next:
`ScanBusy`, `ScanGap`, `ScanFinal`, `ScanQuota`, `ScanAlias`, `ScanCool`), and
`ScanTake` makes the reservation, so workers, deletions and the clock move
between any two of its queries; `AcquireSlot`, `Launch` and their cancelled
forms are the semaphore and the stagger wait. A worker begins its attempt,
writes logs, ends with one of the outcomes `produceOne` tells apart (success,
skipped, rejected, failed, aborted, panicked); where it stores a row, it looks for
it first and updates or creates it in a second statement (`BeginLook`,
`BeginAttempt`; `SucceedLook`, `Succeed`), which finds nothing to update when
the row was deleted in between. Then it does its bookkeeping in the
code's three critical sections before it frees its slot. `DeleteRow`,
`DeleteAllCheck`/`Commit` and `ToggleMailbox` are the panel; `CrashRestart`
loses everything in memory and runs the startup repair.

Abstractions: an address is a mailbox and a suffix; proxies, codes and the
attempts inside `produceOne` appear only as the final outcome; statements of
the producer do not fail; `Create` of a single registration is left out, its
`Update` is in `Credentials`. `MailboxClaims` is what remains when all of that is
forgotten: held and final addresses, and the mailbox cleared for an alias.

### MailVerify (with VerifyQueue, MCMailVerify, MailVerifyProofs)

State: the status column (`status`, `lastId`), the service's `active`, `wake`
and context, per worker its position, candidates and reserved job, and the
panel's requests in progress (`announcing`: rows changed but `Wake` not yet
called; `importing`; `edit`: a form that was read and will be saved).

Actions: a worker checks the context, scans under `claimMu` (`Scan`,
`ScanError`), reserves and claims candidates (`Reserve`, `Take`, `TakeError`,
`Undo`, `ClaimNone`), verifies (`VerifyReturns`), stores the result under its
condition (`Finish`, `FinishError`), releases and wakes the others (`Release`),
or waits for a signal or the timer (`Wait`). The panel imports, re-queues one or
all, deletes, creates and edits; the producer disables. `Restart` is a crash
followed by the recovery of verifying rows; `Stop` cancels the context.

Abstractions: credentials and the remaining columns; the release of an id and
the signal after it are one step; `Verify` is the environment. `VerifyQueue`
keeps the mailboxes' queue states and who is worked on.

### ProxyPool (with MCProxyPool, ProxyPoolProofs)

State: the settings (`config`), each channel's pool (`fp`, `entries`,
`fetching`, `backoff`), the reservations all channels share (`used`), and per
task its position, the settings its request was sent for, its context and its
lease. Every instant the code stores (expiry of an entry, end of a reservation,
`retryAfter`, deadline of a lease) is kept as the ticks left until it.

Actions: each stretch of `Acquire` under `m.mu` is one step with the outcome the
code reaches: direct connection, list entry, too small window, pooled entry,
wait for another task's request, backoff, or a request of its own; a request
ends discarded, accepted or failed. A task uses its session for as long as it likes:
only a lease whose end is known has a deadline (`Live`, as in `Lease.Context`). `Save` replaces the settings and empties the
pool; `Cancel` and `Leave` are the caller's; `Tick` is the clock.

Abstractions: the order inside a list and the cursor, parsing of settings and
answers, `Status`, the test of a draft, the migration of old settings. All
entries of a pool come from answers under one fingerprint, so a set suffices.

### AccountProducer (with GrokProducer, AdobeProducer, LeonardoProducer, LovartProducer, Accounts, MCAccounts, AccountsProofs)

The four packages are copies that differ in which rows may be claimed, what a
claim keeps of the row found and how an attempt may end. `AccountProducer` has
the common state and the operators; each platform module forms its actions from
them and adds its own (Adobe's restoration and rescues, Grok's end of all
registering). Each platform has its own table and slots, so `Accounts` lets a
behaviour be that of one of them, picked at the start.

State: the table (`row`, `age` for `updated_at`, `born` for the last id), the
goroutines of `run` and `runRescue` (`task`), the producer's maps by row id
(`cancel`, `waiter`), the slots taken (`active`), the fields of a batch
(`topUpCancel`, `runTarget`, `runTracked`, `runError`), the batch requests and
the loops they become (`batch`), a manual Start between its read and its save
(`start`). Four history variables say which rows are excepted from a property:
`twin` (one id run twice at once), `adrift` (left in progress by the code until
the next restart), `meddled` (another request came between) and `ops`.

Actions: a claim lists addresses, then reads the row of each (`ClaimRead`) and saves
the whole of what it has read (`ClaimSave`), whatever has become of the row by
then, a deletion included; a save may fail (`ClaimFails`). A manual Start does
the same in two steps; a loop sleeps, counts running tasks, counts
registered rows and claims, in that order and as separate steps (`Wake`,
`Decide`); a task registers itself, waits for a slot, may wait for a typed code,
ends its attempt, checks the session and leaves through its deferred calls.
`SubmitCode`, `Stop`, `StopAll`, `Delete`, `DeleteAll`, `Rescue` and
`RescueAllDead` are the panel; `Restart` loses memory and repairs rows.

Abstractions: an attempt is told by its outcome; proxies, notes, logs and
passwords; cooldowns count in `age` (two ticks for the retry cooldown, one for
Grok's rest between two runs of a mailbox).

### Verdicts and LivePanel (with LivePanelProofs)

`Verdicts` translates what each probe makes of an answer (eleven kinds of
answer; the Grok console's two requests and the fallback to its refresh token;
Lovart's renewal). `LivePanel` runs batches and single checks over rows that are
claimed, registered anew, failed and deleted meanwhile; a claim reads its row and
saves all of it later, over verdicts and marks written in between (`putBack`
names the sessions that come back so). Rows are read when the check is loaded, a verdict is written by one statement, Adobe's restoration by a
second, the counters in a third step. Exports read, convert (Grok), mark and
respond as separate steps. Abstracted: the number of workers of a batch (verdicts
come in any order), the proxy of a probe, formats.

### Credentials (with CredentialsProofs)

State: the credential columns with their version (`reg`), the requests in
progress, the completion cache (`finished`), the panel's edit between its read
and its save, the token service (`issued`, `good`: the one refresh token it
takes, and the access tokens whose time is over, `expired`; both per account). A refresh token is good for one use, and the answer that
brings the next one may be lost. Actions follow `EnsureExportable`: lock or
reuse of an outcome, load, refresh by token or session, probe, save under
compare-and-swap, one repetition after a conflict, reread, and the storing of the
outcome for those that wait (`Store`), which is a step after the last read: the
code takes the time of completion there, so a request that comes in between
reuses an outcome older than itself (`late` remembers which). `denied` holds the
tokens the service has refused in any answer, `recorded` those whose refusal was
saved. `Register`,
`UpdateRead`/`UpdateSave`, `Delete`, `Download`, the migration and `Restart` go
on beside. Rows excepted by name: `adrift` (the new token is lost with its
answer, a restart or a conflict) and `edited` (an edit has put an older row back).

### MailFetch (with MailFetchProofs)

Callers of one mailbox: one that verifies (the verifier holds a mailbox once)
and others that list or read. The cache and the registered refresh are behind
different locks, so `ReadCache`, `JoinOrLead`, `FinishRefresh` and `StoreToken`
are separate steps, and a Verify may throw the token away in between. A read is
told by the folders it could not read; Graph and IMAP treat them differently, as
in the code. Abstracted: the mails.

### SignupWorld and the engines (MCSignup, SignupProofs)

One row, its attempt, the platform and the mailbox. `client` is the attempt's
position and what it remembers; `site` is what the platform knows (whether the
address has an account and whose); `mail` holds codes sent, on their way and
arrived, in any order or never, and a stray code of another alias. `cache` is
Grok's process-wide signup configuration, which other attempts and a new release
of the page change at any time. Each engine's module is a step-by-step
translation of its requests, with a failure wherever the code returns one, a
request whose answer is lost, and the loops around them: ChatGPT's lease
rotation, retries of the transport and shared resend, Adobe's authState with its
one repetition, the pages of the browser engine in any order and number, any of
which may look like the end of the signup, the identity check of the ride, the two
FunCaptcha services with their fallback, Leonardo's two signups, Lovart's second
code. Abstracted: pages, headers, encodings, the computation of sentinel and
Turnstile tokens.

## 4. Runs

All configurations set `CHECK_DEADLOCK FALSE`: a finished batch, an empty queue,
an ended attempt or a spent budget of requests is a legitimate end. Each run
finishes within about two minutes with two workers.

| Run | What it shows |
|---|---|
| `producer_one_mailbox` | one mailbox, two aliases for a quota of one, both cooldowns, one slot the loop must wait for, crashes: `FinalIsKept`, and under fairness `StopEnds` |
| `producer_panel` | two slots, rows deleted and mailboxes toggled at any moment, crashes: `MailboxExclusive`, `QuietWhenStopped`, `RegisteringHasWorker`, `OvershootBounded`, refinement of `MailboxClaims` |
| `verify_queueing` | requests, deletions, stops and restarts: `VerifyingIsClaimed`, refinement of `VerifyQueue`, and `DrainsAfterLastStart`: once the service is started for the last time every queued mailbox is taken up, whatever claims, aborted verifications and missed wake-ups left behind |
| `verify_hostile` | form edits of any status and failing statements besides: `VerifyExclusive` and `ReservationHeld` still hold |
| `proxy_pool` | three tasks of two channels after one session, every kind of settings, failing reads, saves and cancellations: `LeaseExclusive`, `PoolFresh`, `OneFetch`, `AcquireReturns` |
| `accounts` | the four producers with a batch, manual starts, typed codes, stops, deletions, failing saves, rescues and restarts: `InFlightOwned`, `SlotsExact`, `NoOvershoot`, `OneRunPerMailbox`, `CodeOfThisWait`, `SuccessStands`, `SessionKept` |
| `accounts_live` | the same with one slot and fair goroutines: `RowsSettle`, `LoopsEnd` |
| `accounts_one_loop` | counterexample, section 6 |
| `live_panel` | checks and exports beside claims and deletions: `CountsAgree`, `HandedStaysShipped`, `GrokDeadDenied`, `RestoredWasProbed` |
| `credentials` | two requests and an edit on one account, a registration anew, restarts: `RotationKept`, `RefusedStaysBlocked`, `OutcomeCurrent`, `LateNeverOverwrites` |
| `mail_fetch` | one verifying and two reading callers, an expiring token: `OneRefresh`, `GraphComplete`, `CallsEnd` |
| `signup` | the attempts of all five engines: `SuccessIsBacked`, `MailBudget`, `AcceptedCodeCounts`, and under fairness `AttemptsEnd` |

Each property of a passing run has a mutant in `PROJECT.json`, a plausible bug of
the mapped code that makes TLC refute that property under the same bounds: the
bounds are large enough for the property to be at stake.

### Bounds

- *Producer.* `NumMailboxes` 1: exclusivity is per mailbox, and with one mailbox
  two workers can only compete for its addresses. `MaxAlias` 2 with
  `FissionCount` 1 lets the quota bite while an alias is left; the code's 999
  only lengthens the search. `Targets` {2}: one success still leaves work to do.
  `Interval`, `Cooldown` 1 and 2 ticks: the two waits end at different moments.
  `age` is capped at the larger of both, beyond which no query distinguishes it.
- *MailVerify.* Two rows and two workers: two to compete for one row and one to
  be elsewhere. `Requests` 3 caps insertions, re-queues, deletions and edits:
  the shortest interesting histories (import, claim, re-queue or delete
  meanwhile, result, claim again) need three. `Limit` follows the code's 2c+1.
- *ProxyPool.* Time constants of one tick each (`Cache`, `Margin`, `Backoff`,
  `FetchTicks`) and two for `Reserve` keep their order; `Requests` 3 caps calls
  and saves. One session is the hardest case for exclusivity.
- *Accounts.* Three addresses: a mailbox with the account made with it, an alias
  of it, and a mailbox without an account, so that claims compete for a box.
  Two rows, two tasks, `Limit` 2, one batch of up to two accounts, two waits for
  a code, two requests of the panel besides (`MaxOps`): a start or a delete may
  fall into a claim, and a restart may follow. A claim is held back only when no
  name for its goroutine is left (`Room`). `NoOvershoot` and
  `OneRunPerMailbox` were also checked with three rows, four tasks and one request
  (eleven million states in `grok`, beyond the time of a run). The liveness run has one row and one
  slot for two tasks, so that one queues behind the other; the counterexample
  run needs two batches and three requests.
- *LivePanel.* Two rows, two requests of either kind in any mixture, one claim
  and one session obtained meanwhile: enough for a check and an export, two
  exports or two checks to overlap on a row that changes under both.
- *Credentials.* One account (locks and versions are per account), two requests,
  one edit, three access tokens, two edits, deletes, restarts or turns of the
  clock: one request may refresh, lose the race and reuse, with one disturbance
  before and one between.
- *MailFetch.* Three callers: one leads, one waits, one comes late.
- *Signup.* One row, started twice, so that an account may be left over from a
  failed attempt; two code mails of the platform and a stray one; `Leases` 2 of
  the code's 3, `NetRetries` 1 of 2, `Submissions` 2 of 6, `MaxStep1` 2 of 3,
  `LegacyPosts` 2 of 4: a first and a last try each; `MaxSolves` as in the code.

### Fairness

Only the program's own goroutines are fair. Go's scheduler runs every runnable
goroutine; attempts, verifications, extractions and mail requests end by their
timeouts, sleeps by their timers. Nothing is assumed of operators, the panel,
crashes, cancellations or the mail.

- *Producer, MailVerify, ProxyPool*: the loop and each worker, each verifier,
  each call of `Acquire`. In `ProxyPool` the clock does not pass while a task is
  inside a critical section, and a request does not outlast `FetchTicks`.
  `DrainsAfterLastStart` is conditional on a last start, after which no restart
  and no stop comes: a service stopped for good has no reason to drain.
- *Accounts*: weak fairness for each task, each loop's steps and claims; strong
  fairness for `AcquireSlot`, because a queued task asks for a slot every second
  while a loop that could queue another sleeps five. A typed code promises
  nothing: its wait ends after ten minutes (`NoCode`).
- *MailFetch*: each caller's own steps; giving up a wait is never assumed.
- *Signup*: the engine as a whole (`WF_client`: some step that moves the
  attempt); which answer comes is never assumed. Polling a captcha task that is
  not ready is not a step; the task ends by its deadline. `AttemptsEnd` is said of
  attempts whose Adobe browser leaves `completeSignup` for good: that loop renews
  its three minutes after every stage it has worked through (`browser.go:643`),
  and on a direct connection nothing else limits it (`Lingers`, section 6).

## 5. What is proved

TLAPS proves the following for every value of the constants allowed by their
assumptions, so for any number of mailboxes, aliases, workers, channels, tasks,
sessions, rows, batches, checks, requests, callers, starts and mails, and for
behaviours of any length.

| Module | Theorem | States |
|---|---|---|
| `ProducerProofs` | `TypeCorrect` | `Spec => []TypeOK` |
| | `MailboxExclusiveAlways` | no two tasks in flight share a mailbox |
| | `QuietWhenStoppedAlways` | Running false leaves no task, worker or slot |
| | `RegisteringHasWorkerAlways` | a registering row always has its worker |
| | `OvershootBoundedAlways` | a batch exceeds its target by no more than the workers |
| | `FinalIsKeptAlways` | a settled address is not worked on again |
| | `ClaimsImplemented` | `Producer` implements `MailboxClaims` |
| `MailVerifyProofs` | `VerifierTypeCorrect` | `Spec => []TypeOK` |
| | `VerifyExclusiveAlways` | no mailbox verified twice at once, with edits and faults |
| | `ReservationHeldAlways` | no reservation is leaked, with edits and faults |
| | `VerifyingIsClaimedAlways` | a verifying row has its worker, given `Sound` |
| | `QueueImplemented` | `MailVerify` implements `VerifyQueue`, given `Sound` |
| `ProxyPoolProofs` | `PoolTypeCorrect` | `Spec => []TypeOK` |
| | `OneFetchAlways`, `WaiterHasFetchAlways` | one request per channel, and nobody waits without one |
| | `PoolFreshAlways` | a pool holds nothing of replaced settings |
| | `LeaseExclusiveAlways` | a session serves one task at a time, as long as its reservation lasts |
| `AccountsProofs` | `SlotsExactAlways` | the slots counted are the slots held, and within the limit |
| | `InFlightOwnedAlways` | a row in progress has its task or its request |
| | `CodeOfThisWaitAlways` | a typed code reaches the wait it was typed for |
| | `SuccessStandsAlways` | a batch left to itself takes no registered row back, whatever falls between its statements |
| | `SessionKeptAlways` | Adobe's session of a created account survives |
| | `NoOvershootAlways` | a batch nobody meddles with registers no more than asked for |
| | `OneRunPerMailboxAlways` | a batch nobody meddles with runs a mailbox once at a time |
| `LivePanelProofs` | `CountsAgreeAlways` | the counters of a batch agree with its accounts |
| | `HandedStaysShippedAlways` | what a download has carried stays marked |
| | `GrokDeadDeniedAlways` | Grok's checks condemn nobody on an uncertain answer |
| | `RestoredWasProbedAlways` | only the session that was probed brings an account back |
| `CredentialsProofs` | `RotationKeptAlways` | the good refresh token is stored or on its way |
| | `RefusedStaysBlockedAlways` | an access token whose refusal was saved stays blocked |
| | `OutcomeCurrentAlways` | no outcome older than the request is reused, but one about to be stored |
| | `LateNeverOverwritesAlways` | no late writer puts an older refresh token back |
| `MailFetchProofs` | `OneRefreshAlways` | one refresh at a time, and nobody waits without one |
| | `GraphCompleteAlways` | a Graph list without an error has read every folder |
| `SignupProofs` | `SuccessIsBackedAlways` | a row says registered only of an address with an account (or of a believed URL, Adobe's browser) |
| | `MailBudgetAlways` | no attempt, and no visit of a browser's code page, asks for more mails than its resends allow |
| | `AcceptedCodeCountsAlways` | an accepted second factor is not asked for again |

### The arguments

*Producer.* `Typed` adds to `TypeOK` that an occupied slot has an address and
that `job` is one while the loop holds it. `MailboxExclusive` alone is not
inductive: a step that starts or ends a worker changes `inflight` and `stage`
together. `Structure` therefore says that `inflight` is exactly the addresses of
active workers plus the loop's `job`, that active workers have distinct
addresses, and that an idle loop has left nothing. From it exclusivity follows
from the guard of `nextJob` (`Busy`), and the quiet end from `Finish`. `Rows`
adds that the address of an unsettled task is not final (`OpenTasks`), which is
what the scan tested. `Scan` says that what `nextJob` has found out about the
mailbox it looks at still holds when it reserves it: the mailbox is free, because
the loop alone adds to `inflight` (`ScanFree`), and the address it has settled on
is not final, because only a worker of that mailbox makes it so (`ScanOpen`). No
such thing holds of an alias's mother: her row may be deleted after the scan has
seen it, so `MailboxClaims` keeps the mailbox whose mother was seen as `cleared`
until its alias is chosen, and asks for no more. With these finality and the step-by-step refinement of `MailboxClaims` follow. The
panel's deletions map to `Forget`, a crash to `Restart`. `Slack` bounds the
excess: until the loop has counted the workers, whatever success it has not read
is of a worker that was there when it read, and no worker is added before it
claims; so what is registered and what may still be is at most the number it has
read plus the slots, and after the count less than the target plus the slots.
It needs finitely many slots (`SettingAssumption`), the capacity of a channel.

*MailVerify.* `Reserved` states that `active` is the set of the workers' jobs
and that no two workers have the same; `reserve` and `release` keep it whatever
happens to the rows, so exclusivity needs nothing of the database. `Claimed`
relates rows to workers: a verifying row belongs to a worker that is verifying
it, and a worker that has written its result has left no verifying row. It holds
under `Sound == ~Edits /\ ~Faults` only: with form edits it is false, and with
failing statements a result is lost (section 6).

*ProxyPool.* `FetchInv` ties `fetching` to the task whose request is under way;
since every path out of a request ends in `EndFetch`, which clears it and wakes
the channel's waiters at once, a waiter always has a request. For leases
`LeaseInv` adds to exclusivity that the reservation of a session outlasts every
live lease on it (`Covered`): a lease is taken only when the reservation is
zero, and both count down together. The theorem assumes nothing of how long a task
works. A session whose end is known is reserved to that end, which is the
deadline of its context; one whose end is unknown is reserved for max(budget +
margin, 10 minutes) and has no deadline, so a task may go on after that: it is
then `Overdue`, and the session may be leased again beside it (section 6).
`LeaseExclusive` says that this is the only way.

*Accounts.* `Slots` counts the tasks between `AcquireSlot` and `ReleaseSlot`; it
is kept because every path out of those stages runs through `Leave`, the one
step that gives a slot back, and needs the sets of rows and tasks to be finite
(`AccountAssumption`: a process has finitely many of both). `Owned` says whose a
row in progress is, and would not be inductive alone: when a task ends, its row
must not be another's as well. `Alone` states that, for the rows that are not
`twin` or `adrift`: one task or one claim has the row, and until it is done the
row stays in progress. `Table` (ids are given in order, and only Adobe's rows
carry an unlanded session) is what a new row and a restart need. The theorems are
about `Accounts`, so about each of the four producers; the lemmas about claims,
waits and ends are stated once for the operators of `AccountProducer`. With
`Alone` the ends of tasks follow step by step: only the row's own task ends it.
Claims need more, because `claimOne` saves a row as it has read it and does not
look at its status again. `Ordered` says that in a batch no person has meddled
with whatever is listed is still free to take (`Listed`) and whatever was read is
still as it was read (`Fresh`): one batch claims at a time, tasks work on rows
in progress only, and no row in progress is listed. So `SuccessStands` holds of
every such batch without exception for its claims. Once a person has interfered,
a row that somebody had read before (`Readings`) may be taken back, one run twice
or adrift too, and the property says that nothing else may. `SessionKept` follows
in the same way for Adobe's cookies. `NoOvershoot` is about a batch in which no person has started, deleted or
rescued a row (`~meddled`) and no row has been worked on twice (`twin`). For such
a batch `Used`, its registered rows and those being worked on, are all tracked
rows, and `Fits` adds to their number what the loop is still about to claim.
`topUp` leaves room for exactly that because it reads a number that is never too
small: every task that may still register stands in `cancel` (`Stoppable`), so
the running ones cover the rows worked on, and the filled ones cover the rest
(`RunningCovers`, `FilledCovers`). `Calm` carries these through the tasks' steps.
`OneRunPerMailbox` is about such a batch too, but excepts no row: `Orderly` says
that a row that is run or claimed is in progress and has one owner (`OneOwner`,
which `Alone` gives only for rows not `twin`), that no two rows in progress share a
mailbox (`OwnMailbox`), and that there is one row per address (`OneRow`). A claim
keeps this because what is on its list is still free when its turn comes
(`Listed`): one batch at a time claims (`Single`), and nobody but a person puts a row
in progress otherwise. Grok keeps mailboxes apart by skipping those in progress or
picked in the same round; the other packages keep addresses apart, and offer only
mother accounts and pool mailboxes, each the one address of its mailbox
(`MailboxAssumption`: `models.go:10` makes the mailbox's address unique, the query
at `leonardoproducer/producer.go:143` takes no alias, and nobody gives a mailbox
another address, see *Readdressed* in section 6).

*LivePanel.* `Counted` follows every account of a batch through `todo`,
`restoring` and `judged`, whose items have distinct rows, so that the counters
are cardinalities. `Shipping` is about sessions, not rows: a session once handed
out is marked wherever it stands, except between the save and the mark of an
export that converts it (`Kept`). A session that is replaced never comes back
because sessions are numbered (`gen`) and every item names one that was
obtained. `Cookies` separates Adobe's accounts that wait to be brought back from
all others, and is why `applyAdobeAlive`'s condition on the session suffices.

*Credentials.* A row carries the version of its credentials, and `Snap` says of
every copy a request or a form holds that it is an older version or still the
row. From this the compare-and-swap gives `LateNeverOverwrites`, and the
invariant `RowSound`: the good token is in the row, or in the request whose
lock (`Lone`) lets nobody else refresh. `Blocked` is about the refusals that were recorded, and has to hold of the copies as
well as of the rows, because a failure writes back the status it has read.
`Waits` is the reason an outcome may be reused: whatever was finished after a
request came has read the row after it came, or was about to be stored then.

*MailFetch.* `Flight`: a refresh is registered exactly while one caller makes it.
A caller that finds none registers its own in the same critical section, and the
leader ends its registration before it stores the token, so two leaders never
overlap although the cache has a lock of its own.

*Signup.* The invariant goes along an attempt: each engine has a part (`Stage`)
that says for every place of its code how many mails may have been asked for by
now, and from where on the address has an account. Success is backed because
every way to the end leads through a place with an account: Leonardo's
confirmation, ChatGPT's callback, the account request of Adobe's protocol. For
Adobe's browser it leads through the end of `completeSignup`, where the page had an
Adobe URL that is none of the signup's; there was an account then, or the
attempt has taken a page for the end of a signup that had made none (`looked`,
which the code cannot tell; section 6). `Backed` carries this alternative along.
For the budgets the places alone are not enough: a resend must leave a note
(`resent`, `retried`) or set a next place that excludes another one. In the
browser the budget is one of each visit of a code page, which asks once more at
most; how often the page comes back is the platform's choice. For
`AcceptedCodeCounts`, `AdobeFactor` states that before the relogin no code was
accepted, and that the relogin holds the state `mfa`. Nothing is assumed of the
mailbox, of the solvers or of what a page shows; of the platform's protocols it is
assumed that they mean what they answer (an account confirmed is an account).

### Only model-checked

The liveness properties (`StopEnds`, `DrainsAfterLastStart`, `AcquireReturns`,
`RowsSettle`, `LoopsEnd`, `CallsEnd`, `AttemptsEnd`): liveness under fairness is
out of TLAPS's reach here.

`TypeOK` of `Producer`, `MailVerify` and `ProxyPool` and `WaiterHasFetch` are
proved and therefore part of no run. In the other proofs the parts named `Shape`
(or `Rowwise`, `Checkwise` and `Exportwise`) say what the proofs need of a
variable's type; `TypeOK` of `AccountProducer`, `LivePanel` and `Credentials`
documents the rest (it holds on the instances of section 4). Every inductive
invariant was checked by TLC on the bounds of its run before it was proved.

## 6. Where documents and code disagree

`accounts_one_loop` ends in a counterexample: `leonardoproducer/producer.go:300` and its
copies say that `beginTopUp` admits one top-up loop at a time. `StopAll`'s
`endTopUp` forgets the registered loop, which may be inside `claimTargets` and
does not look at its context there; the next batch registers a second loop
beside it, and the exit of the first one cancels the second.

Seen while modelling, expressed by the actions but not by a run of their own:

- *Overshoot.* `producer.go:6` calls the target the number of accounts to
  produce. `run()` reads the success counter and the in-flight count in two
  critical sections (173); a worker that succeeds in between is in neither, and
  one account too many is started. The excess is bounded (`OvershootBounded`).
- *Struck off.* A retry cool-down of 0 is offered ("0 = 不冷却"). A failed row may
  then be claimed again while its last task has written the failure but not made
  its deferred calls; its `delete(p.cancel, id)` (`leonardoproducer/producer.go:436` and
  its copies) strikes the new task off the running ones, so that the loop counts
  one too few and the batch may register more accounts than were asked for.
  `NoOvershoot` excepts rows run twice (`twin`); without that it fails with three
  rows and four tasks.
- *Long sessions.* `manager.go:210` reserves a session whose end the API did not tell for
  ten minutes or the task's budget, and `Lease.Context` (`manager.go:29`) gives it no
  deadline. Grok, Adobe, Leonardo and Lovart set none of their own
  (`leonardoproducer/producer.go:429`), and a manual code alone is waited for ten
  minutes, so the next task may work through the same session
  (`LeaseExclusive` excepts tasks that are `Overdue`).
- *Taken as read.* `claimOne` and `Start` save the row they have read in a second
  statement without looking at its status again
  (`leonardoproducer/producer.go:194` and `202`): an account registered in between
  is run again, a verdict or a shipped mark is undone, and a deleted row comes
  back. It takes a person's request beside the batch; `SuccessStands`,
  `SessionKept`, `HandedStaysShipped` and `RestoredWasProbed` name these rows.
- *Believed URL.* The comment at `adobereg/browser.go:634` has `completeSignup`
  go on until both the verification and the name form are completed. It ends as
  soon as the page has an Adobe URL without a word of the signup's in it (`isSignupDoneURL`,
  694), whether the form was sent or not, and `adobeproducer/producer.go:586` books
  the address as registered. `SuccessIsBacked` excepts an attempt that ended so
  (`looked`).
- *Endless pages.* `completeSignup` renews its three minutes after every code page
  and form (`browser.go:643`), each code page with a resend of its own; on a direct
  connection the attempt has no other deadline (`adobeproducer/producer.go:448`).
  `MailBudget` is therefore one of each visit there, and `AttemptsEnd` excepts
  attempts that linger.
- *Early end.* `producer.go:7` has a run go on until the target is met or the
  mailboxes are used up. If the last worker fails between `nextJob`'s empty
  answer and the in-flight check (186), the run ends below the target with a
  usable mailbox.
- *Stale form.* The verifier's `README.md:3` means to end mailboxes that stay in
  "verifying". `MailboxUpdate` saves every column of a row read earlier
  (`mailbox.go:248`) and can put a settled row back to verifying, where only the
  next process start looks for it; it can also undo a request for the mailbox.
- *Readdressed.* The same form can give a mailbox another address
  (`mailbox.go:239`). The mother account registered with the old one keeps its
  `mailbox_id`; the platform packages then offer both addresses, and two runs may
  read one mailbox. `MailboxAssumption` leaves this out.
- *Aborted verification.* `mailverify/DESIGN.md:44` says the next start recovers
  the work a stop interrupts. The aborted verification is recorded as failed
  (`service.go:135`), and nothing is left to recover. A result is lost when its
  one UPDATE fails (`service.go:142`).
- *Credentials and edits.* The comment at `chatgptauth/service.go:79` promises
  that a late request never overwrites a rotated refresh token. The service keeps it
  (`LateNeverOverwrites`), the panel's `Update` of a whole row does not:
  such rows are excepted as `edited`.
- *Dropped refusal.* After a temporary failure of the refresh the stored token is
  probed (`service.go:293`); a definitive refusal is dropped at line 306 like any other
  answer, and the row keeps `valid`. The token stays exportable although the
  service has just refused it; `RefusedStaysBlocked` is about refusals that were
  saved (`recorded`, not `denied`).
- *Outcome of an older row.* The time of completion is taken when the outcome is stored
  (`service.go:136`), after the last read of the row. A registration and a request that
  come between the two reuse an outcome older than they are; `OutcomeCurrent`
  excepts exactly these (`late`).
- *Uncertain verdicts.* The package comment of `livecheck.go` says an uncertain
  answer never condemns an account. Grok's checks keep to it (`GrokDeadDenied`);
  a 403 of the network in front makes an Adobe, Leonardo or Lovart account dead,
  and a cut-short 200 a Leonardo one (`leonardo.go:106`).
- *One code.* `rideVerify`'s reader hands out a single code
  (`adobereg/browser.go:325`), so the retry at line 1147, which announces that
  it waits for the new mail, cannot read it (`RideWaitAgain`).
- *Own account.* An account whose creation succeeded with its answer lost is
  found by the next attempt and booked as `already_registered`
  (`producer.go:636`): it is written off although it is the service's own.
- *Incomplete lists.* The IMAP lists hand out what they have when a folder
  failed (`imap.go:135`, `password.go`), while Graph reports it; a code in the
  failed folder is then "not there yet".
- *Dropped claims.* When a save fails in the middle of a claim, rows already set
  to registering are returned and dropped by both callers
  (`leonardoproducer/producer.go:118`): they stay in progress until the next restart. A
  rescue that waits for a typed code and fails leaves its row the same way.
  `InFlightOwned` and `RowsSettle` except these as `adrift`.
- *Exports.* `saveGrokOAuth` writes back the whole session it read, over one
  registered meanwhile; errors of the shipped mark are ignored.
- *Smaller ones.* An alias may run after its mailbox's own address was rejected
  (`producer.go:305` against the comment at line 4); a stop also cancels attempts
  in flight and books them as failures (405 against 130); `DeleteAll` checks
  Running and deletes in two steps (`registration.go:184`); the proxy pool keeps
  the answer of a request when the same settings are saved during it, against
  `manager.go:241`, harmlessly; Grok's cached signup configuration is not
  dropped when sending the code fails; the initial code's second look at the
  auth session reads the cached one; `twocaptcha.go:138` speaks of three
  attempts where there are six.

## 7. What is not modelled

- *Admin login* (`auth`): one row and its cached copy, with no part in the
  program's work; left to a review of its own.
- *Settings, models*: key-value rows read at the start of a run; they are
  constants. A change of the slot limit while tasks wait is therefore not
  explored.
- *Proxy dialling, browser start, pages and scripts*: input and output only.
- Parts of modelled components: the order inside a proxy list, parsing, `Status`
  and the test of a draft; the one-time migrations of old databases; `Create` of
  single rows and all lists; logs; which code is cut from a mail; the DOM work
  of a page; sentinel, Turnstile and protobuf encodings; Adobe's
  `RestoreSession` of a row rescued later beyond its outcome.
- *Composition*: the signup engines appear in the producers by their outcomes
  (`AttemptEnds`, the outcomes of `produceOne`), the producers in `LivePanel` in
  outline. The products of these modules are beyond TLC's reach.
