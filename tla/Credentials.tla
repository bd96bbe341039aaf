---------------------------- MODULE Credentials ----------------------------
(***************************************************************************)
(* The credentials of registered ChatGPT accounts: the requests that       *)
(* refresh and probe them (internal/chatgptauth), the registration that    *)
(* writes them, the panel's edits of whole rows, and restarts.  A refresh  *)
(* token is good for one use: with the new access token the service hands  *)
(* out the next refresh token, and only that one is good from then on.     *)
(***************************************************************************)
EXTENDS Naturals, FiniteSets

CONSTANTS Ids, Requests,   \* requests come in this order
          Edits,
          MaxTokens,   \* access tokens ever issued (bound)
          MaxUpsets    \* edits, deletes, restarts and turns of the clock (bound)

ASSUME CredentialsAssumption == Requests \subseteq Nat /\ MaxTokens \in Nat \ {0} /\ MaxUpsets \in Nat /\ IsFiniteSet(Ids)

VARIABLES reg,         \* rows of registrations
          issued,      \* access tokens issued so far, by number
          good,        \* refresh token the service takes, per account
          expired,     \* per account: access tokens whose time is over
          req, edit,
          finished,    \* completions: how many requests have ended, and the last outcome
          migration, upsets,
          denied,      \* history: per account, access tokens the service has refused for good,
          recorded,    \* history: and those of them whose refusal was saved
          adrift,      \* history: accounts whose new refresh token never came
          edited       \* history: accounts an edit has put back

vars == <<reg, issued, good, expired, req, edit, finished, migration, upsets, denied, recorded, adrift, edited>>
histories == <<denied, recorded, adrift, edited>>

(* A row of before: never verified, or verified long ago.                  *)
Legacy == [status |-> "registered", token |-> 1, rt |-> 1, cookies |-> TRUE, cred |-> "unknown",
           access |-> "unchecked", relogin |-> FALSE, recent |-> FALSE, ver |-> 0, shipped |-> FALSE]
Verified == [Legacy EXCEPT !.cred = "valid", !.access = "valid"]

Verdict(cred, access, relogin) == [cred |-> cred, access |-> access, relogin |-> relogin]
NoOutcome == [exportable |-> FALSE, ver |-> 0]
NoReq == [pc |-> "idle", id |-> 0, migrates |-> FALSE, since |-> 0, ver0 |-> 0, late |-> {}, attempt |-> 0, row |-> Legacy, token |-> 0, rt |-> 0,
          verdict |-> Verdict("unknown", "unknown", FALSE), outcome |-> NoOutcome]

Init ==
    /\ \E old \in {Legacy, Verified}, rt \in {0, 1} : reg = [i \in Ids |-> [old EXCEPT !.rt = rt]]
    /\ issued = 1 /\ good = [i \in Ids |-> reg[i].rt] /\ expired = [i \in Ids |-> {}]
    /\ req = [r \in Requests |-> NoReq] /\ edit = [e \in Edits |-> [pc |-> "idle", id |-> 0, row |-> Legacy]]
    /\ finished = [i \in Ids |-> [n |-> 0, outcome |-> NoOutcome]]
    /\ migration \in {"due", "done"} /\ upsets = 0 /\ denied = [i \in Ids |-> {}] /\ recorded = denied /\ adrift = {} /\ edited = {}

Holder(i) == {r \in Requests : req[r].id = i /\ req[r].pc \notin {"idle", "waiting", "over"}}
Registered(i) == reg[i].status = "registered"
Upset == upsets < MaxUpsets /\ upsets' = upsets + 1
Over(r, outcome) == req' = [req EXCEPT ![r] = [NoReq EXCEPT !.pc = "over", !.id = req[r].id, !.migrates = req[r].migrates,
                                                            !.ver0 = req[r].ver0, !.late = req[r].late, !.outcome = outcome]]
Goto(r, pc) == req' = [req EXCEPT ![r].pc = pc]
ReqOnly == UNCHANGED <<expired, edit, migration, upsets, edited>>
Quiet == UNCHANGED <<reg, issued, good, histories, finished>> /\ ReqOnly

-----------------------------------------------------------------------------
(* Requests: live checks of all or one, and the migration.                 *)
(* A request notes the version of its row when it comes, and what another  *)
(* that is about to store its outcome has read by then.                    *)
Late(i) == {req[h].outcome.ver : h \in {h \in Holder(i) : req[h].pc = "store"}}
Ask(r, i, migrates) ==
    /\ req[r].pc = "idle" /\ Registered(i) /\ \A q \in Requests : req[q].pc = "idle" => r <= q
    /\ req' = [req EXCEPT ![r] = [NoReq EXCEPT !.pc = "waiting", !.id = i, !.migrates = migrates, !.since = finished[i].n, !.ver0 = reg[i].ver, !.late = Late(i)]]
    /\ UNCHANGED <<reg, issued, good, expired, edit, finished, upsets, histories>>
LiveCheckStart(r, i) == Ask(r, i, FALSE) /\ UNCHANGED migration
startGPTCredentialMigration(r, i) == migration = "due" /\ Ask(r, i, TRUE) /\ migration' = "running"
MigrationDone ==
    /\ \/ migration = "running" /\ \E r \in Requests : req[r].migrates /\ req[r].pc = "over"
       \/ migration = "due" /\ \A i \in Ids : ~Registered(i)
    /\ migration' = "done"
    /\ UNCHANGED <<reg, issued, good, expired, req, edit, finished, upsets, histories>>

(* The request is cancelled, or no proxy is to be had: nothing is done.    *)
Unavailable(r) == req[r].pc = "waiting" /\ Over(r, NoOutcome) /\ Quiet

\* Mutant: whatever outcome is at hand is used.
ReusableAlways(r) == finished[req[r].id].n > 0
(* An outcome that came after the request did is used for it.              *)
Reusable(r) == finished[req[r].id].n > req[r].since

Free(i) == Holder(i) = {}

Lock(r) ==
    /\ req[r].pc = "waiting" /\ Free(req[r].id)
    /\ IF Reusable(r) THEN Over(r, finished[req[r].id].outcome) ELSE Goto(r, "read")
    /\ Quiet

(* The request ends: its outcome is kept for those that wait, under the    *)
(* time of this store and not under that of the last read of the row.      *)
Complete(r, outcome) ==
    req' = [req EXCEPT ![r] = [NoReq EXCEPT !.pc = "store", !.id = req[r].id, !.migrates = req[r].migrates,
                                            !.ver0 = req[r].ver0, !.late = req[r].late, !.outcome = outcome]]
Store(r) ==
    /\ req[r].pc = "store" /\ Over(r, req[r].outcome)
    /\ finished' = [finished EXCEPT ![req[r].id] = [n |-> @.n + 1, outcome |-> req[r].outcome]]
    /\ UNCHANGED <<reg, issued, good, histories>> /\ ReqOnly

CanReuseVerifiedToken(i, row) ==
    /\ row.token /= 0 /\ ~row.relogin /\ row.cred = "valid" /\ row.access = "valid"
    /\ row.recent /\ row.token \notin expired[i]

Load(r) ==
    /\ req[r].pc = "read"
    /\ LET row == reg[req[r].id] IN
       CASE row.status = "gone" -> Complete(r, NoOutcome)
         [] row.status /= "gone" /\ CanReuseVerifiedToken(req[r].id, row) -> Complete(r, [exportable |-> TRUE, ver |-> row.ver])
         [] OTHER -> req' = [req EXCEPT ![r] = [@ EXCEPT !.pc = "refresh", !.row = row, !.token = 0, !.rt = 0]]
    /\ Quiet

(* The token endpoint, with a refresh token: a spent one is refused for    *)
(* good, and the answer of a good one may be lost on the way.              *)
Refreshed(r, token, rt) == req' = [req EXCEPT ![r] = [@ EXCEPT !.pc = "probe", !.token = token, !.rt = rt]]
RefreshWithToken(r) ==
    LET q == req[r] IN
    /\ q.pc = "refresh" /\ q.row.rt /= 0 /\ q.row.rt = good[q.id] /\ issued < MaxTokens
    /\ issued' = issued + 1 /\ good' = [good EXCEPT ![q.id] = issued + 1]
    /\ \/ Refreshed(r, issued + 1, issued + 1) /\ UNCHANGED adrift
       \/ Goto(r, "unanswered") /\ adrift' = adrift \cup {q.id}
    /\ UNCHANGED <<reg, denied, recorded, finished>> /\ ReqOnly
(* With the cookies of the web session, when there is no refresh token or  *)
(* it was refused for good: the same access token as before, or another.   *)
RefreshWithSession(r) ==
    LET q == req[r] IN
    /\ q.pc = "refresh" /\ q.row.cookies
    /\ \/ Refreshed(r, q.row.token, 0) /\ UNCHANGED issued
       \/ issued < MaxTokens /\ issued' = issued + 1 /\ Refreshed(r, issued + 1, 0)
    /\ UNCHANGED <<reg, good, histories, finished>> /\ ReqOnly

(* No token: the network or the service is at fault for now, the login is  *)
(* refused for good, or something else.  The first is tried once more      *)
(* through the other proxy.                                                *)
Again(r) == req[r].pc = "unanswered" /\ Goto(r, "refresh") /\ Quiet
Unanswered(r) == req[r].pc = "refresh" /\ Goto(r, "unanswered") /\ Quiet
Failing(r, verdict) == req' = [req EXCEPT ![r] = [@ EXCEPT !.pc = "fail", !.verdict = verdict]]
TemporarilyRefused(q) == Verdict(IF q.row.cred = "valid" /\ ~q.row.relogin THEN "valid" ELSE "unknown", q.row.access, FALSE)
RefreshFails(r) ==
    /\ req[r].pc = "refresh"
    /\ \/ Failing(r, Verdict("needs_relogin", req[r].row.access, TRUE))
       \/ Failing(r, Verdict("unknown", req[r].row.access, FALSE))
    /\ Quiet

(* After a temporary failure the stored token is probed.                   *)
ProbeAnswers(i, token) == {"valid", "denied", "open"} \ IF token \in denied[i] \cup expired[i] THEN {"valid"} ELSE {}
Heard(i, token, answer) == denied' = IF answer = "denied" THEN [denied EXCEPT ![i] = @ \cup {token}] ELSE denied
(* Whatever the probe answers but "valid" is dropped, a refusal for good   *)
(* included: the row keeps its status, as after any temporary failure.     *)
ExportExistingToken(r) ==
    LET q == req[r] IN
    /\ q.pc = "unanswered"
    /\ \E answer \in ProbeAnswers(q.id, q.row.token) :
          /\ Heard(q.id, q.row.token, answer)
          /\ IF answer = "valid"
             THEN req' = [req EXCEPT ![r] = [@ EXCEPT !.pc = "persist", !.token = q.row.token, !.rt = 0,
                                                      !.verdict = Verdict("valid", "valid", FALSE)]]
             ELSE Failing(r, TemporarilyRefused(q))
    /\ UNCHANGED <<reg, issued, good, recorded, adrift, finished>> /\ ReqOnly

\* Mutant: a token that is known to be revoked is probed like another.
DuplicateNever(q) == FALSE
Duplicate(q) == q.row.access = "revoked" /\ q.row.token = q.token

(* The new token is read (one that is malformed, or of another account,    *)
(* has not been accepted before) and probed: whatever comes out of it is   *)
(* saved with the refresh token that came along.                           *)
Judged(r, verdict) == req' = [req EXCEPT ![r] = [@ EXCEPT !.pc = "persist", !.verdict = verdict]]
Probe(r) ==
    LET q == req[r] IN
    /\ q.pc = "probe"
    /\ \/ q.token \in expired[q.id] /\ Judged(r, Verdict("needs_relogin", "expired", TRUE)) /\ UNCHANGED denied
       \/ /\ q.token = q.row.token => q.row.access \in {"unknown", "unchecked"}
          /\ Judged(r, Verdict("unknown", "unknown", FALSE)) /\ UNCHANGED denied
       \/ /\ q.token \notin expired[q.id] /\ Duplicate(q)
          /\ Judged(r, Verdict("needs_relogin", "revoked", TRUE)) /\ UNCHANGED denied
       \/ /\ q.token \notin expired[q.id] /\ ~Duplicate(q)
          /\ \E answer \in ProbeAnswers(q.id, q.token) :
                /\ Heard(q.id, q.token, answer)
                /\ Judged(r, CASE answer = "valid" -> Verdict("valid", "valid", FALSE)
                               [] answer = "denied" -> Verdict("needs_relogin", "revoked", TRUE)
                               [] OTHER -> Verdict("valid", "unknown", FALSE))
    /\ UNCHANGED <<reg, issued, good, recorded, adrift, finished>> /\ ReqOnly

\* Mutant: the version is not compared.
CasAlways(q) == reg[q.id].status /= "gone"
Cas(q) == reg[q.id].status /= "gone" /\ reg[q.id].ver = q.row.ver
(* A row that has changed meanwhile is read and refreshed once more.       *)
Conflict(r) ==
    LET q == req[r] IN
    /\ q.pc \in {"persist", "fail"} /\ ~Cas(q)
    /\ adrift' = IF q.rt /= 0 /\ q.rt = good[q.id] THEN adrift \cup {q.id} ELSE adrift
    /\ IF q.attempt = 0
       THEN req' = [req EXCEPT ![r] = [@ EXCEPT !.pc = "read", !.attempt = 1, !.row = Legacy, !.token = 0, !.rt = 0]]
       ELSE Complete(r, NoOutcome)
    /\ UNCHANGED <<reg, issued, good, denied, recorded, edited, finished>> /\ ReqOnly

Save(i, fields) == reg' = [reg EXCEPT ![i] = [f \in DOMAIN @ |-> IF f = "ver" THEN @.ver + 1
                                                                  ELSE IF f \in DOMAIN fields THEN fields[f] ELSE @[f]]]
Persisted(r) ==
    /\ req' = [req EXCEPT ![r] = [NoReq EXCEPT !.pc = "reread", !.id = req[r].id, !.migrates = req[r].migrates, !.ver0 = req[r].ver0, !.late = req[r].late,
                        !.outcome = [exportable |-> req[r].token /= 0 /\ req[r].verdict.access = "valid", ver |-> 0]]]
    /\ UNCHANGED <<issued, good, denied, edited, finished>> /\ ReqOnly

\* Mutant: a refresh token that came with a token that is no good is dropped.
KeptIfValid(q) == IF q.rt /= 0 /\ q.verdict.access = "valid" THEN q.rt ELSE q.row.rt
KeptRefreshToken(q) == IF q.rt /= 0 THEN q.rt ELSE q.row.rt
PersistCandidate(r) ==
    LET q == req[r]  verified == q.verdict.access = "valid" IN
    /\ q.pc = "persist" /\ Cas(q)
    /\ Save(q.id, [token |-> q.token, rt |-> KeptRefreshToken(q), cookies |-> q.row.cookies,
                   cred |-> q.verdict.cred, access |-> q.verdict.access, relogin |-> q.verdict.relogin,
                   recent |-> verified \/ reg[q.id].recent])
    /\ adrift' = IF q.rt /= 0 /\ q.rt = good[q.id] THEN adrift \ {q.id} ELSE adrift
    /\ recorded' = IF q.verdict.access = "revoked" THEN [recorded EXCEPT ![q.id] = @ \cup {q.token}] ELSE recorded
    /\ Persisted(r)
PersistFailure(r) ==
    LET q == req[r] IN
    /\ q.pc = "fail" /\ Cas(q)
    /\ Save(q.id, [cred |-> q.verdict.cred, access |-> q.verdict.access, relogin |-> q.verdict.relogin])
    /\ UNCHANGED <<adrift, recorded>> /\ Persisted(r)

Reread(r) ==
    /\ req[r].pc = "reread"
    /\ Complete(r, [exportable |-> reg[req[r].id].status /= "gone" /\ req[r].outcome.exportable, ver |-> reg[req[r].id].ver])
    /\ Quiet

EnsureExportable(r) ==
    \/ Lock(r) \/ Load(r) \/ RefreshWithToken(r) \/ RefreshWithSession(r) \/ Unanswered(r) \/ RefreshFails(r)
    \/ ExportExistingToken(r) \/ Probe(r) \/ Conflict(r) \/ PersistCandidate(r) \/ PersistFailure(r) \/ Reread(r) \/ Store(r)

-----------------------------------------------------------------------------
(* The rest of the panel.                                                  *)
RowOnly == UNCHANGED <<req, finished, migration, denied, recorded>>

(* A row that is not registered is claimed and registered anew.            *)
Register(i) ==
    /\ reg[i].status = "other" /\ issued < MaxTokens /\ issued' = issued + 1
    /\ \E rt \in {0, issued + 1} :
          /\ Save(i, [status |-> "registered", token |-> issued + 1, rt |-> rt, cred |-> "valid",
                      access |-> "valid", relogin |-> FALSE, recent |-> TRUE, shipped |-> FALSE])
          /\ good' = [good EXCEPT ![i] = rt]
    /\ adrift' = adrift \ {i} /\ UNCHANGED edited
    /\ UNCHANGED <<expired, edit, upsets>> /\ RowOnly

(* Update reads the row and then saves all of it, under the status asked   *)
(* for; a row deleted meanwhile comes back.                                *)
UpdateRead(e, i) ==
    /\ edit[e].pc = "idle" /\ Upset /\ reg[i].status /= "gone"
    /\ edit' = [edit EXCEPT ![e] = [pc |-> "read", id |-> i, row |-> reg[i]]]
    /\ UNCHANGED <<reg, issued, good, expired, adrift, edited>> /\ RowOnly
UpdateSave(e) ==
    LET i == edit[e].id IN
    /\ edit[e].pc = "read"
    /\ \E status \in {edit[e].row.status, "registered", "other"} : reg' = [reg EXCEPT ![i] = [edit[e].row EXCEPT !.status = status]]
    /\ edited' = IF edit[e].row.ver < reg[i].ver THEN edited \cup {i} ELSE edited
    /\ edit' = [edit EXCEPT ![e] = [pc |-> "over", id |-> 0, row |-> Legacy]]
    /\ UNCHANGED <<issued, good, expired, adrift, upsets>> /\ RowOnly
Delete(i) ==
    /\ reg[i].status /= "gone" /\ Upset /\ reg' = [reg EXCEPT ![i].status = "gone"]
    /\ UNCHANGED <<issued, good, expired, edit, adrift, edited>> /\ RowOnly

(* Time passes: a check gets old, a token runs out.                        *)
Age(i) ==
    /\ Upset
    /\ \/ reg[i].recent /\ reg' = [reg EXCEPT ![i].recent = FALSE] /\ UNCHANGED expired
       \/ reg[i].token \notin expired[i] /\ expired' = [expired EXCEPT ![i] = @ \cup {reg[i].token}] /\ UNCHANGED reg
    /\ UNCHANGED <<issued, good, edit, adrift, edited>> /\ RowOnly

classifyStoredCredential(i, row) ==
    /\ ~row.relogin /\ row.cred /= "needs_relogin" /\ row.access \notin {"revoked", "expired"}
    /\ row.token \notin expired[i] /\ row.token /= 0
(* Module LivePanel has the time between reading and marking.              *)
Download(ids) ==
    /\ \E i \in ids : Registered(i) /\ classifyStoredCredential(i, reg[i])
    /\ reg' = [i \in Ids |-> IF i \in ids /\ Registered(i) /\ classifyStoredCredential(i, reg[i])
                             THEN [reg[i] EXCEPT !.shipped = TRUE] ELSE reg[i]]
    /\ UNCHANGED <<upsets, issued, good, expired, edit, adrift, edited>> /\ RowOnly

(* A restart repairs what an earlier rule has downgraded, and starts the   *)
(* migration again if it was not done.                                     *)
Repaired(row) == IF row.status = "registered" /\ row.cred = "unknown" /\ row.access = "valid" /\ ~row.relogin
                    /\ (row.rt /= 0 \/ row.cookies) THEN [row EXCEPT !.cred = "valid"] ELSE row
Restart ==
    /\ Upset
    /\ reg' = [i \in Ids |-> Repaired(reg[i])]
    /\ adrift' = adrift \cup {i \in Ids : \E r \in Holder(i) : req[r].rt /= 0 /\ req[r].rt = good[i] /\ reg[i].rt /= good[i]}
    /\ req' = [r \in Requests |-> IF req[r].pc = "idle" THEN NoReq ELSE [NoReq EXCEPT !.pc = "over"]]
    /\ edit' = [e \in Edits |-> [edit[e] EXCEPT !.pc = IF @ = "read" THEN "over" ELSE @]]
    /\ finished' = [i \in Ids |-> [n |-> 0, outcome |-> NoOutcome]]
    /\ migration' = IF migration = "done" THEN "done" ELSE "due"
    /\ UNCHANGED <<issued, good, expired, denied, recorded, edited>>

Next ==
    \/ \E r \in Requests : \/ EnsureExportable(r) \/ Again(r) \/ Unavailable(r)
                           \/ \E i \in Ids : LiveCheckStart(r, i) \/ startGPTCredentialMigration(r, i)
    \/ MigrationDone \/ Restart
    \/ \E i \in Ids : Register(i) \/ Delete(i) \/ Age(i)
    \/ \E e \in Edits : UpdateSave(e) \/ \E i \in Ids : UpdateRead(e, i)
    \/ \E ids \in SUBSET Ids : Download(ids)

Spec == Init /\ [][Next]_vars

-----------------------------------------------------------------------------
TypeOK ==
    /\ reg \in [Ids -> [status : {"registered", "other", "gone"}, token : 0..MaxTokens, rt : 0..MaxTokens,
                        cookies : BOOLEAN, cred : {"valid", "needs_relogin", "unknown"},
                        access : {"valid", "revoked", "expired", "unknown", "unchecked"},
                        relogin : BOOLEAN, recent : BOOLEAN, ver : Nat, shipped : BOOLEAN]]
    /\ issued \in 1..MaxTokens /\ good \in [Ids -> 0..MaxTokens] /\ expired \in [Ids -> SUBSET (0..MaxTokens)]
    /\ \A r \in Requests : req[r].pc \in {"idle", "waiting", "read", "refresh", "unanswered", "probe",
                                          "persist", "fail", "reread", "store", "over"}
    /\ migration \in {"due", "running", "done"}

(* The refresh token that is stored is the one that is good, whatever came *)
(* of the access token it arrived with: a rotation is only ever lost with  *)
(* the answer, a restart, a conflict or an edit of the row.                *)
Pending(i) == \E r \in Holder(i) : req[r].pc \in {"probe", "persist"} /\ req[r].rt /= 0
RotationKept == \A i \in Ids :
    Registered(i) /\ i \notin adrift \cup edited /\ ~Pending(i) => reg[i].rt = good[i]

(* The comment of Service: a late request never overwrites the refresh     *)
(* token of an earlier one, nor that of a registration gone on meanwhile.  *)
LateNeverOverwrites == [][\A i \in Ids : i \notin edited' => reg'[i].rt >= reg[i].rt \/ reg'[i].rt = 0]_vars

(* An access token whose refusal was saved does not become exportable      *)
(* again by being refreshed into the same bytes, by a temporary failure    *)
(* that keeps the last status, or by a restart.  A refusal that is never   *)
(* saved blocks nothing: one that ExportExistingToken drops, or one lost   *)
(* to a conflict or a restart.                                             *)
RefusedStaysBlocked == \A i \in Ids :
    Registered(i) /\ reg[i].token \in recorded[i] /\ Holder(i) = {} /\ i \notin edited => ~classifyStoredCredential(i, reg[i])

(* A request that ends with an exportable account has an outcome that saw  *)
(* the row as it was when it came, or later; an older one only if another  *)
(* request had read the row and was about to store that outcome then.      *)
OutcomeCurrent == \A r \in Requests :
    req[r].pc = "over" /\ req[r].outcome.exportable /\ req[r].id \notin edited
      => req[r].outcome.ver >= req[r].ver0 \/ req[r].outcome.ver \in req[r].late
=============================================================================
