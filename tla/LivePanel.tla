----------------------------- MODULE LivePanel -----------------------------
(***************************************************************************)
(* What the panel does with accounts that exist: live checks of all of     *)
(* them or of one, and exports, while the producers go on claiming and     *)
(* registering the same rows (module AccountProducer, here in outline).    *)
(* A platform is a table and a runner of its own, so a behaviour is that   *)
(* of one platform.                                                        *)
(***************************************************************************)
EXTENDS Verdicts

CONSTANTS Platforms, Rows,
          Checks,    \* requests for a live check,
          Exports,   \* and for a download, which come in this order
          MaxRequests, \* requests of either kind (bound)
          MaxGen,    \* sessions ever obtained (bound)
          MaxClaims  \* starts of a producer on these rows (bound)

ASSUME PanelAssumption == MaxGen \in Nat \ {0} /\ MaxClaims \in Nat /\ MaxRequests \in Nat /\ Checks \cup Exports \subseteq Nat /\ IsFiniteSet(Rows)

VARIABLES platform, row,
          gen, claims,      \* sessions obtained and claims begun so far
          claiming,         \* rows that a start has read and not saved yet
          runner,           \* liveRunner of the platform
          check, export,
          handed, putBack   \* history: sessions that left in a download; that a late save put back

vars == <<platform, row, gen, claims, claiming, runner, check, export, handed, putBack>>

Tallied == {"alive", "dead", "unknown"}
NoRow == [status |-> "none", auth |-> 0, oauth |-> FALSE, arp |-> FALSE, shipped |-> FALSE, alive |-> ""]
NoCheck == [pc |-> "idle", one |-> FALSE, todo |-> {}, restoring |-> {}, judged |-> {}]
NoExport == [pc |-> "idle", convert |-> FALSE, unshipped |-> FALSE, todo |-> {}, ok |-> {}]
Item(id) == [id |-> id, auth |-> row[id].auth]

TypeOK ==
    /\ platform \in Platforms
    /\ row \in [Rows -> [status : {"none", "running", "registered", "failed", "exists"}, auth : 0..MaxGen,
                         oauth : BOOLEAN, arp : BOOLEAN, shipped : BOOLEAN,
                         alive : Tallied \cup {""}]]
    /\ \A id \in Rows : row[id].status = "none" => row[id] = NoRow
    /\ gen \in 0..MaxGen /\ claims \in 0..MaxClaims
    /\ \A k \in claiming : k.id \in Rows /\ k.was.status /= "running"
    /\ runner \in [running : BOOLEAN, total : Nat, done : Nat, alive : Nat, dead : Nat, unknown : Nat]
    /\ \A c \in Checks : check[c].pc \in {"idle", "loading", "probing", "over"}
    /\ \A e \in Exports : export[e].pc \in {"idle", "converting", "marked", "over"}

(* The rows of earlier days: all registered, or, Adobe, created and given  *)
(* up before its session landed, with its cookies.                         *)
Registered == [NoRow EXCEPT !.status = "registered", !.auth = 1]
Legacy == [NoRow EXCEPT !.status = "failed", !.auth = 1, !.arp = TRUE]
Init ==
    /\ platform \in Platforms
    /\ \E old \in IF platform = "adobe" THEN {Registered, Legacy} ELSE {Registered} : row = [id \in Rows |-> old]
    /\ gen = 1 /\ claims = 0 /\ claiming = {} /\ putBack = {}
    /\ runner = [running |-> FALSE, total |-> 0, done |-> 0, alive |-> 0, dead |-> 0, unknown |-> 0]
    /\ check = [c \in Checks |-> NoCheck] /\ export = [e \in Exports |-> NoExport] /\ handed = {}

Asked == {c \in Checks : check[c].pc /= "idle"}
Fetched == {e \in Exports : export[e].pc /= "idle"}
More == Cardinality(Asked) + Cardinality(Fetched) < MaxRequests
NextCheck(c) == check[c].pc = "idle" /\ (\A d \in Checks \ Asked : c <= d) /\ More

Set(id, fields) == row' = [row EXCEPT ![id] = [f \in DOMAIN @ |-> IF f \in DOMAIN fields THEN fields[f] ELSE @[f]]]

(* An update of a row that is gone changes nothing.                        *)
Update(id, fields) == IF row[id].status = "none" THEN UNCHANGED row ELSE Set(id, fields)

-----------------------------------------------------------------------------
(* The producers, in outline.  A start reads the row of its address and    *)
(* saves it later, every column of it, over whatever stands there by then: *)
(* a deleted row comes back (had it been created anew under another id,    *)
(* the save would fail; here it overwrites).  Only a new row gives way to  *)
(* one that exists.                                                        *)
ClaimRead(id) ==
    /\ claims < MaxClaims /\ claims' = claims + 1 /\ row[id].status /= "running"
    /\ claiming' = claiming \cup {[id |-> id, was |-> row[id]]}
    /\ UNCHANGED <<platform, row, gen, runner, check, export, handed, putBack>>
Claimed(r) == [r EXCEPT !.status = "running", !.shipped = FALSE, !.oauth = FALSE, !.auth = IF r.arp THEN @ ELSE 0]
PutsBack(k) == k.was.arp /\ k.was.auth /= 0 /\ ~(row[k.id].arp /\ row[k.id].auth = k.was.auth)
ClaimSave(k) ==
    /\ k \in claiming /\ claiming' = claiming \ {k}
    /\ IF k.was.status = "none" /\ row[k.id].status /= "none" THEN UNCHANGED <<row, putBack>>
       ELSE /\ row' = [row EXCEPT ![k.id] = Claimed(k.was)]
            /\ putBack' = putBack \cup (IF PutsBack(k) THEN {[id |-> k.id, auth |-> k.was.auth]} ELSE {})
    /\ UNCHANGED <<platform, gen, claims, runner, check, export, handed>>
Register(id) ==
    /\ row[id].status = "running" /\ gen < MaxGen /\ gen' = gen + 1
    /\ \E oauth \in (IF platform = "grok" THEN BOOLEAN ELSE {FALSE}) :
          Set(id, [status |-> "registered", auth |-> gen + 1, oauth |-> oauth, arp |-> FALSE])
    /\ UNCHANGED <<platform, claims, claiming, runner, check, export, handed, putBack>>
Fail(id) ==
    /\ row[id].status = "running"
    /\ \/ Set(id, [status |-> "failed"])
       \/ platform = "adobe" /\ Set(id, [status |-> "exists", arp |-> TRUE])
    /\ UNCHANGED <<platform, gen, claims, claiming, runner, check, export, handed, putBack>>
Delete(id) ==
    /\ row[id].status /= "none" /\ row' = [row EXCEPT ![id] = NoRow]
    /\ UNCHANGED <<platform, gen, claims, claiming, runner, check, export, handed, putBack>>

-----------------------------------------------------------------------------
(* Live checks.                                                            *)
CheckOnly == UNCHANGED <<platform, gen, claims, claiming, export, handed, putBack>>

TryStart(c) ==
    /\ NextCheck(c)
    /\ IF runner.running
       THEN check' = [check EXCEPT ![c].pc = "over"] /\ UNCHANGED runner
       ELSE /\ runner' = [f \in DOMAIN runner |-> IF f = "running" THEN TRUE ELSE 0]
            /\ check' = [check EXCEPT ![c].pc = "loading"]
    /\ UNCHANGED row /\ CheckOnly
AdobeLiveCheckStart(c) == platform = "adobe" /\ TryStart(c)
GrokLiveCheckStart(c) == platform = "grok" /\ TryStart(c)
LeonardoLiveCheckStart(c) == platform = "leonardo" /\ TryStart(c)
LovartLiveCheckStart(c) == platform = "lovart" /\ TryStart(c)

(* The rows asked for that hold a session, or all the registered ones; the *)
(* query may fail, and with nothing to check the runner is given back.     *)
Checkable == {id \in Rows : row[id].auth /= 0}
Load(c) ==
    /\ check[c].pc = "loading"
    /\ \E ids \in SUBSET Checkable :
          /\ ids = {id \in Checkable : row[id].status = "registered"} \/ Cardinality(ids) = 1 \/ ids = {}
          /\ IF ids = {}
             THEN check' = [check EXCEPT ![c].pc = "over"] /\ runner' = [runner EXCEPT !.running = FALSE]
             ELSE /\ check' = [check EXCEPT ![c].pc = "probing", ![c].todo = {Item(id) : id \in ids}]
                  /\ runner' = [runner EXCEPT !.total = Cardinality(ids)]
    /\ UNCHANGED row /\ CheckOnly
loadAdobeItems(c) == platform = "adobe" /\ Load(c)
loadGrokItems(c) == platform = "grok" /\ Load(c)
loadLeonardoItems(c) == platform = "leonardo" /\ Load(c)
loadLovartItems(c) == platform = "lovart" /\ Load(c)

(* A check of one account has no runner.                                   *)
LoadOne(c, id) ==
    /\ NextCheck(c) /\ id \in Checkable
    /\ check' = [check EXCEPT ![c].pc = "probing", ![c].one = TRUE, ![c].todo = {Item(id)}]
    /\ UNCHANGED <<row, runner>> /\ CheckOnly
AdobeLiveCheckOne(c, id) == platform = "adobe" /\ LoadOne(c, id)
GrokLiveCheckOne(c, id) == platform = "grok" /\ LoadOne(c, id)
LeonardoLiveCheckOne(c, id) == platform = "leonardo" /\ LoadOne(c, id)
LovartLiveCheckOne(c, id) == platform = "lovart" /\ LoadOne(c, id)

(* One account is probed and its verdict saved; the workers take them in   *)
(* any order.                                                              *)
Apply(c, item, o) ==
    /\ check[c].pc = "probing" /\ item \in check[c].todo
    /\ Update(item.id, [alive |-> o.verdict])
    /\ UNCHANGED runner /\ CheckOnly
(* What is to be counted: the account, its verdict, and for the dead       *)
(* whether an answer denied the account.                                   *)
Judged(c, item, o) ==
    check' = [check EXCEPT ![c].todo = @ \ {item}, ![c].judged = @ \cup {<<item.id, o.verdict, o.verdict = "dead" /\ o.denied>>}]
applyGrokAlive(c, item) == platform = "grok" /\ \E o \in CheckGrok : Apply(c, item, o) /\ Judged(c, item, o)
applyLeonardoAlive(c, item) == platform = "leonardo" /\ \E o \in CheckLeonardo : Apply(c, item, o) /\ Judged(c, item, o)
applyLovartAlive(c, item) == platform = "lovart" /\ \E o \in CheckLovart : Apply(c, item, o) /\ Judged(c, item, o)
(* Adobe: a created account that was given up comes back when its cookies  *)
(* prove good, by a second statement (Restore).                            *)
applyAdobeAlive(c, item) ==
    /\ platform = "adobe"
    /\ \E o \in CheckAdobe :
          /\ Apply(c, item, o)
          /\ IF o.verdict /= "alive" THEN Judged(c, item, o)
             ELSE check' = [check EXCEPT ![c].todo = @ \ {item}, ![c].restoring = @ \cup {item}]

\* Mutant: a row that runs is restored too.
RestorableAlways(id) == row[id].arp /\ row[id].auth /= 0
Restorable(id) == row[id].arp /\ row[id].status \in {"failed", "exists"} /\ row[id].auth /= 0
Restore(c, item) ==
    /\ item \in check[c].restoring
    /\ IF Restorable(item.id) THEN Set(item.id, [status |-> "registered", arp |-> FALSE]) ELSE UNCHANGED row
    /\ check' = [check EXCEPT ![c].restoring = @ \ {item}, ![c].judged = @ \cup {<<item.id, "alive", FALSE>>}]
    /\ UNCHANGED runner /\ CheckOnly

(* The verdict is counted; a single check is over with it.                 *)
Tally(c, j) ==
    /\ j \in check[c].judged /\ check' = [check EXCEPT ![c].judged = @ \ {j}]
    /\ runner' = IF check[c].one THEN runner
                 ELSE [f \in DOMAIN runner |-> IF f \in {"done", j[2]} THEN runner[f] + 1 ELSE runner[f]]
    /\ UNCHANGED row /\ CheckOnly

\* Mutant: the batch ends when the last account was probed.
AllTalliedEarly(c) == check[c].todo = {}
AllTallied(c) == check[c].todo = {} /\ check[c].restoring = {} /\ check[c].judged = {}
Finish(c) ==
    /\ check[c].pc = "probing" /\ AllTallied(c)
    /\ check' = [check EXCEPT ![c] = [NoCheck EXCEPT !.pc = "over"]]
    /\ runner' = IF check[c].one THEN runner ELSE [runner EXCEPT !.running = FALSE]
    /\ UNCHANGED row /\ CheckOnly

CheckStep(c) == \/ loadAdobeItems(c) \/ loadGrokItems(c) \/ loadLeonardoItems(c) \/ loadLovartItems(c) \/ Finish(c)
                \/ \E item \in check[c].todo : \/ applyAdobeAlive(c, item) \/ applyGrokAlive(c, item)
                                                \/ applyLeonardoAlive(c, item) \/ applyLovartAlive(c, item)
                \/ \E item \in check[c].restoring : Restore(c, item)
                \/ \E j \in check[c].judged : Tally(c, j)

-----------------------------------------------------------------------------
(* Exports.                                                                *)
ExportOnly == UNCHANGED <<platform, gen, claims, claiming, runner, check, putBack>>

(* The registered rows with a session: those not shipped yet, or the ones  *)
(* picked.  The two OAuth formats of Grok convert a session first.         *)
Read(e, convert) ==
    /\ export[e].pc = "idle" /\ (\A d \in Exports \ Fetched : e <= d) /\ More
    /\ \E unshipped \in BOOLEAN, ids \in SUBSET Rows :
          LET found == {id \in Rows : row[id].status = "registered" /\ row[id].auth /= 0
                                      /\ IF unshipped THEN ~row[id].shipped ELSE id \in ids}
              now == IF convert THEN {id \in found : row[id].oauth} ELSE found
          IN  /\ unshipped => ids = {}
              /\ export' = [export EXCEPT ![e] =
                    [pc |-> IF found = {} THEN "over" ELSE "converting",
                     convert |-> convert, unshipped |-> unshipped,
                     todo |-> {Item(id) : id \in found \ now}, ok |-> {Item(id) : id \in now}]]
    /\ UNCHANGED <<row, handed>> /\ ExportOnly

GrokDownload(e) == platform = "grok" /\ \E convert \in BOOLEAN : Read(e, convert)
AdobeDownload(e) == platform = "adobe" /\ Read(e, FALSE)
LeonardoDownload(e) == platform = "leonardo" /\ Read(e, FALSE)
LovartDownload(e) == platform = "lovart" /\ Read(e, FALSE)

(* A session without an SSO token in it, or whose conversion fails, is     *)
(* left out.                                                               *)
Left(e, item) ==
    /\ platform = "grok" /\ export[e].pc = "converting"
    /\ export' = [export EXCEPT ![e].todo = @ \ {item}, ![e].ok = @ \ {item}]
    /\ UNCHANGED <<row, handed>> /\ ExportOnly
downloadGrokOAuth(e, item) == export[e].convert /\ item \in export[e].todo /\ Left(e, item)
downloadGrokConsole(e, item) == ~export[e].convert /\ item \in export[e].ok /\ Left(e, item)

(* saveGrokOAuth puts the whole session that was read back, with its       *)
(* tokens added, whatever stands in the row by now.                        *)
saveGrokOAuth(e, item) ==
    /\ export[e].pc = "converting" /\ item \in export[e].todo
    /\ Update(item.id, [auth |-> item.auth, oauth |-> TRUE])
    /\ export' = [export EXCEPT ![e].todo = @ \ {item}, ![e].ok = @ \cup {item}]
    /\ UNCHANGED handed /\ ExportOnly

\* Mutant: the mark is left out.
MarkNothing(e) ==
    /\ export[e].pc = "converting" /\ export[e].todo = {}
    /\ export' = [export EXCEPT ![e].pc = IF export[e].ok = {} THEN "over" ELSE "marked"]
    /\ UNCHANGED <<row, handed>> /\ ExportOnly
Mark(e) ==
    /\ export[e].pc = "converting" /\ export[e].todo = {}
    /\ row' = [id \in Rows |-> IF row[id].status /= "none" /\ id \in {x.id : x \in export[e].ok}
                               THEN [row[id] EXCEPT !.shipped = TRUE] ELSE row[id]]
    /\ export' = [export EXCEPT ![e].pc = IF export[e].ok = {} THEN "over" ELSE "marked"]
    /\ UNCHANGED handed /\ ExportOnly

Respond(e) ==
    /\ export[e].pc = "marked" /\ handed' = handed \cup export[e].ok
    /\ export' = [export EXCEPT ![e] = [NoExport EXCEPT !.pc = "over"]]
    /\ UNCHANGED row /\ ExportOnly

ExportStep(e) == \/ Mark(e) \/ Respond(e)
                 \/ \E item \in export[e].todo : downloadGrokOAuth(e, item) \/ saveGrokOAuth(e, item)
                 \/ \E item \in export[e].ok : downloadGrokConsole(e, item)

Next == \/ \E k \in claiming : ClaimSave(k)
        \/ \E id \in Rows : ClaimRead(id) \/ Register(id) \/ Fail(id) \/ Delete(id)
        \/ \E c \in Checks : \/ AdobeLiveCheckStart(c) \/ GrokLiveCheckStart(c)
                              \/ LeonardoLiveCheckStart(c) \/ LovartLiveCheckStart(c) \/ CheckStep(c)
                              \/ \E id \in Rows : \/ AdobeLiveCheckOne(c, id) \/ GrokLiveCheckOne(c, id)
                                                   \/ LeonardoLiveCheckOne(c, id) \/ LovartLiveCheckOne(c, id)
        \/ \E e \in Exports : \/ GrokDownload(e) \/ AdobeDownload(e) \/ LeonardoDownload(e) \/ LovartDownload(e)
                              \/ ExportStep(e)

Spec == Init /\ [][Next]_vars

-----------------------------------------------------------------------------
Batches == {c \in Checks : ~check[c].one /\ check[c].pc \in {"loading", "probing"}}

(* The counters of the page: every account that was loaded is either       *)
(* counted once, under its verdict, or still on its way.                   *)
CountsAgree ==
    /\ runner.done = runner.alive + runner.dead + runner.unknown
    /\ \A c \in Batches : check[c].pc = "probing" =>
          runner.total = runner.done + Cardinality(check[c].todo \cup check[c].restoring) + Cardinality(check[c].judged)
    /\ ~runner.running => runner.done = runner.total

(* An Adobe account comes back only with the very session that was found   *)
(* good, although claims, runs and deletes went on in between, or with one *)
(* that a start had read before and put back; a run in progress is never   *)
(* ended by a check (applyAdobeAlive).                                     *)
RestoredWasProbed == [][\A id \in Rows :
    row[id].status \in {"failed", "exists", "running"} /\ row'[id].status = "registered" /\ row'[id].auth = row[id].auth
      => /\ row[id].status /= "running"
         /\ Item(id) \in putBack \/ \E c \in Checks : Item(id) \in check[c].restoring]_vars

(* A session that left in a download is never offered as unshipped again:  *)
(* it is marked as long as it stands in its row, unless another export of  *)
(* it, still at work, has just put it back (saveGrokOAuth), or a start     *)
(* that had read it as the cookies of an account given up (Save).          *)
HandedStaysShipped == \A x \in handed :
    row[x.id].status = "registered" /\ row[x.id].auth = x.auth =>
       row[x.id].shipped \/ x \in putBack \/ \E e \in Exports : x \in export[e].todo \cup export[e].ok

(* The comment of package livecheck: an answer that leaves it open, the    *)
(* network's own included, never makes an account dead.                    *)
UncertainNotDead == \A c \in Checks : \A j \in check[c].judged : j[2] = "dead" => j[3]
(* The Grok console check keeps to it (ProbeConsole).                      *)
GrokDeadDenied == platform = "grok" => UncertainNotDead
=============================================================================
