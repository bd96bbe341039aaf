----------------------------- MODULE SignupProofs -----------------------------
(* Proofs about MCSignup: a registered row has its account (or Adobe's     *)
(* page looked as if), an attempt asks for a bounded number of code mails, *)
(* and a second factor that Adobe accepted is not asked for again, on any  *)
(* of the engines' ways.                                                   *)
EXTENDS MCSignup, TLAPS

Fields == {"pc", "err", "notes", "code", "since", "tries", "rounds", "solves", "asked",
           "token", "solver", "back", "next"}

\* A confirmed account of the address, for a given state of the platform.
Has(s) == s.acct \in {"ours", "foreign"}

\* The same, or Adobe's page had the URL of a finished signup without one.
Looked(c, s) == Has(s) \/ "looked" \in c.notes
Backed(c, s) == Has(s) \/ (engine = "adobe" /\ "looked" \in c.notes)

\* 1 for an attempt that has used its one repetition.
Again(c) == IF "retried" \in c.notes THEN 1 ELSE 0

\* What each engine's stage says of the attempt c and of the platform s: what
\* it may have asked for by now, and from where on there is an account.
ChatGPTSound(c, s) ==
    /\ c.pc = "callback" => Has(s)
    /\ c.pc \in {"open", "verify", "password", "mint"} => c.asked = 0
    /\ c.pc = "resend" => c.asked <= 1
    /\ c.pc \in {"wait", "validate"} /\ "resent" \notin c.notes => c.asked <= 1

GrokSound(c, s) ==
    /\ c.pc \in {"sso", "device"} => c.err = "ok"
    /\ c.pc \in {"config", "send"} => c.asked = 0

Wanted(c, places) == c.pc \in places \/ (c.pc = "mint" /\ c.next \in places)

LeonardoSound(c, s) ==
    /\ c.pc \in {"mint", "signin"} => c.next \in {"legacy", "better", "resend", "signin"}
    /\ c.pc = "signin" => c.next = "signin"
    /\ c.pc = "ensure" => Has(s)
    /\ Wanted(c, {"open", "legacy", "better", "session"}) => c.asked = 0 /\ "retried" \notin c.notes
    /\ Wanted(c, {"resend"}) => c.asked <= Again(c)
    /\ c.pc \in {"wait", "confirm"} => c.asked <= 1 + Again(c)

LovartSound(c, s) ==
    /\ c.pc = "wait" => c.next \in {"login", "verify"} /\ (c.next = "login" => c.asked <= 1)
    /\ c.pc = "session" => Has(s)
    /\ c.pc = "send" => c.asked = 0
    /\ c.pc \in {"login", "challenge"} => c.asked <= 1

Factor   == {"mfa", "challenge", "code", "put"}    \* CreateMFAState to PutCode
CodeWait == {"verify", "pin"}                      \* a code page of the browser
Created  == {"login", "relogin", "ims", "land", "restore", "rescue", "pass", "ride", "done",
             "probe", "firefly", "capture"} \cup Factor

\* From the end of the signup on there is an account, or the page looked like
\* it, and every way on stays there.
AdobeBacked(c, s) ==
    /\ c.pc \in Created => Looked(c, s)
    /\ c.pc \in Factor => c.next \in {"ims", "relogin"}
    /\ c.pc = "ride" => c.next \in {"firefly", "done"}
    /\ c.pc \in CodeWait => c.next \in {"signup", "capture", "firefly", "done"} /\ (c.next # "signup" => Looked(c, s))
    /\ c.pc \in {"order", "poll"} => c.back \in {"create", "inject"}

\* The first login asks for the second factor before any code was accepted, the
\* next one with the state of the accepted code.
AdobeFactor(c, s) ==
    /\ c.pc \in {"bootstrap", "check", "state", "create", "login"} => "accepted" \notin s.facts
    /\ c.pc \in {"order", "poll"} /\ c.back = "create" => "accepted" \notin s.facts
    /\ c.pc \in Factor /\ c.next = "relogin" => "accepted" \notin s.facts
    /\ c.pc = "relogin" => c.token = "mfa"

\* The challenges of the protocol engine: one of the login, one of the relogin.
AdobeChallenges(c) ==
    /\ c.pc \in {"bootstrap", "check", "state", "create", "login"} => c.asked = 0
    /\ c.pc \in {"order", "poll"} /\ c.back = "create" => c.asked = 0
    /\ c.pc \in {"mfa", "challenge"} => c.asked <= IF c.next = "relogin" THEN 0 ELSE 1
    /\ c.pc \in {"code", "put"}      => c.asked <= IF c.next = "relogin" THEN 1 ELSE 2
    /\ c.pc = "relogin" => c.asked <= 1
    /\ c.pc \in {"ims", "land", "restore", "rescue"} => c.asked <= 2

\* The resends of a code page: one for each visit, whoever opened it.
AdobePages(c) ==
    /\ c.pc \notin CodeWait \cup {"ended"} => "retried" \notin c.notes /\ "riding" \notin c.notes
    /\ c.pc \in CodeWait => c.asked <= Again(c)
    /\ c.pc \in CodeWait /\ c.next = "signup" => "riding" \notin c.notes

AdobeSound(c, s) == AdobeBacked(c, s) /\ AdobeFactor(c, s) /\ AdobeChallenges(c) /\ AdobePages(c)

\* The errors that the producer of an engine tells apart.
ErrorsOf ==
    [chatgpt |-> {"ok", "taken", "exists", "terms", "blocked", "net", "other"},
     adobe |-> {"ok", "exists", "landing", "other"}, grok |-> {"ok", "taken", "other"},
     leonardo |-> {"ok", "taken", "other"}, lovart |-> {"ok", "other"}]

\* The stage of the attempt, by its engine.
Stage(e, c, s) ==
    /\ e = "chatgpt"  => ChatGPTSound(c, s)
    /\ e = "adobe"    => AdobeSound(c, s)
    /\ e = "grok"     => GrokSound(c, s)
    /\ e = "leonardo" => LeonardoSound(c, s)
    /\ e = "lovart"   => LovartSound(c, s)

AttemptOK(c) == DOMAIN c = Fields /\ c.asked \in Nat
SiteOK(s)    == /\ s = [acct |-> s.acct, facts |-> s.facts] /\ "again" \notin s.facts
                /\ s.acct \in {"none", "ours", "foreign", "unconfirmed"}
                /\ s.acct = "unconfirmed" => engine = "leonardo"

\* While the row is being registered.
Sound(c, s) ==
    /\ c.pc = "ended" => c.err \in ErrorsOf[engine]
    /\ engine = "adobe" /\ c.pc # "ended" => c.err # "ok"
    /\ c.asked <= Budget[engine]
    /\ Stage(engine, c, s)

IInv ==
    /\ engine \in Engines /\ AttemptOK(client) /\ SiteOK(site)
    /\ client.err = "ok" \/ row = "registered" => Backed(client, site)
    /\ IF row = "registering" THEN Sound(client, site)
       ELSE client.err = "" /\ client.asked = 0 /\ site.facts = {}

-----------------------------------------------------------------------------
(* What the engines' steps have in common. *)

\* Nothing was asked for, and the platform has heard of no attempt.
LEMMA Initially == Init => IInv
<1> SUFFICES ASSUME Init PROVE IInv
  OBVIOUS
<1>1. client = NewAttempt("idle", 0, {}) /\ row = "pending" /\ engine \in Engines
  BY DEF Init, WorldInit
<1>2. PICK a \in {"none", "foreign"} : site = [acct |-> a, facts |-> {}]
  BY DEF Init, WorldInit
<1>3. SiteOK(site) /\ site.facts = {}
  BY <1>2 DEF SiteOK
<1>4. AttemptOK(client) /\ client.err = "" /\ client.asked = 0
  BY <1>1 DEF NewAttempt, AttemptOK, Fields
<1> QED BY <1>1, <1>3, <1>4 DEF IInv

\* Nothing of the invariant is about the mail, the cache or the times a row
\* was started.
LEMMA ElsewhereKeeps ==
  ASSUME IInv, client' = client, site' = site, engine' = engine, row' = row PROVE IInv'
BY DEF IInv, AttemptOK, SiteOK, Has, Backed, Sound

\* A mail that arrives changes the mailbox only.
LEMMA ArriveKeeps == ASSUME IInv, Arrive PROVE IInv'
BY ElsewhereKeeps DEF Arrive, panel

\* What an attempt that goes on has to show.
LEMMA AttemptKeeps ==
  ASSUME IInv, row = "registering", engine' = engine, row' = row,
         AttemptOK(client'), SiteOK(site'), client'.err = "ok" => Backed(client', site'),
         client'.pc = "ended" => client'.err \in ErrorsOf[engine],
         engine = "adobe" /\ client'.pc # "ended" => client'.err # "ok",
         client'.asked <= Budget[engine], Stage(engine, client', site')
  PROVE  IInv'
BY DEF IInv, Sound, SiteOK, AttemptOK, Has, Backed

\* The same of the engines that look at no page: an account is all there is.
LEMMA OtherKeeps ==
  ASSUME IInv, row = "registering", engine' = engine, row' = row, engine # "adobe",
         AttemptOK(client'), SiteOK(site'), client'.err = "ok" => Has(site'),
         client'.pc = "ended" => client'.err \in ErrorsOf[engine],
         client'.asked <= Budget[engine], Stage(engine, client', site')
  PROVE  IInv'
BY AttemptKeeps DEF Backed

\* An attempt that has ended has only its error to answer for.
LEMMA EndedStage ==
  ASSUME NEW e, NEW c, NEW s, c.pc = "ended"
  PROVE  Stage(e, c, s)
<1>1. ChatGPTSound(c, s) /\ GrokSound(c, s) /\ LovartSound(c, s)
  BY DEF ChatGPTSound, GrokSound, LovartSound
<1>2. LeonardoSound(c, s)
  BY DEF LeonardoSound, Wanted
<1>3. AdobeBacked(c, s)
  BY DEF AdobeBacked, Created, Factor, CodeWait
<1>4. AdobeFactor(c, s) /\ AdobeChallenges(c)
  BY DEF AdobeFactor, AdobeChallenges, Factor
<1>5. AdobePages(c)
  BY DEF AdobePages, CodeWait
<1> QED BY <1>1, <1>2, <1>3, <1>4, <1>5 DEF Stage, AdobeSound

\* An attempt ends, whatever became of the platform meanwhile.
LEMMA EndedKeeps ==
  ASSUME IInv, row = "registering", engine' = engine, row' = row, SiteOK(site'), NEW e \in ErrorsOf[engine],
         AttemptOK(client'), client'.pc = "ended", client'.err = e, client'.asked <= Budget[engine],
         e = "ok" => Backed(client', site')
  PROVE  IInv'
<1>1. Stage(engine, client', site')
  BY EndedStage
<1> QED BY <1>1, AttemptKeeps

\* The same where the account is all there is.
LEMMA EndedOther ==
  ASSUME IInv, row = "registering", engine' = engine, row' = row, SiteOK(site'), NEW e \in ErrorsOf[engine],
         AttemptOK(client'), client'.pc = "ended", client'.err = e, client'.asked <= Budget[engine],
         e = "ok" => Has(site')
  PROVE  IInv'
BY EndedKeeps DEF Backed

\* The engine returns an error, or none.
LEMMA Returned ==
  ASSUME IInv, NEW e, client' = [client EXCEPT !.pc = "ended", !.err = e]
  PROVE  /\ AttemptOK(client') /\ client'.pc = "ended" /\ client'.err = e /\ client'.asked = client.asked
         /\ client'.notes = client.notes
BY DEF IInv, AttemptOK, Fields

\* An error ends the attempt and leaves the platform as it was.
LEMMA FailsKeeps ==
  ASSUME IInv, row = "registering", NEW e \in ErrorsOf[engine], Fails(e), e = "ok" => Backed(client, site)
  PROVE  IInv'
<1>1. site' = site /\ engine' = engine /\ row' = row
  BY DEF Fails, Quiet, panel
<1>2. SiteOK(site') /\ client.asked <= Budget[engine]
  BY <1>1 DEF IInv, Sound
<1> QED BY <1>1, <1>2, Returned, EndedKeeps DEF Fails, Backed, Has

LEMMA FailsOther ==
  ASSUME IInv, row = "registering", NEW e \in ErrorsOf[engine], Fails(e), e = "ok" => Has(site) PROVE IInv'
BY FailsKeeps DEF Backed

\* The attempt goes on elsewhere, with what it knows.
Alike(c, d) ==
    /\ AttemptOK(d) /\ d.err = c.err /\ d.notes = c.notes /\ d.asked = c.asked
    /\ d.token = c.token /\ d.back = c.back /\ d.next = c.next

\* What a step that only moves the attempt leaves of it.
LEMMA Went == ASSUME IInv, NEW l, Goes(l) PROVE client'.pc = l /\ Alike(client, client')
BY DEF IInv, AttemptOK, Fields, Goes, Alike

\* The same of a step that reads a code.
LEMMA TookCode == ASSUME IInv, NEW l, TakesCode(l) PROVE client'.pc = l /\ Alike(client, client') /\ Quiet
BY DEF IInv, AttemptOK, Fields, TakesCode, Alike

\* A step that asks for nothing and leaves the platform alone.
LEMMA QuietKeeps ==
  ASSUME IInv, row = "registering", engine # "adobe", Quiet, AttemptOK(client'), client'.pc # "ended",
         client'.err = client.err, client'.asked = client.asked, Stage(engine, client', site)
  PROVE  IInv'
<1>1. site' = site /\ engine' = engine /\ row' = row
  BY DEF Quiet, panel
<1>2. SiteOK(site') /\ client.asked <= Budget[engine] /\ (client'.err = "ok" => Has(site'))
  BY <1>1 DEF IInv, Sound, Backed
<1> QED BY <1>1, <1>2, OtherKeeps

\* A request for a mail may be accepted with its answer lost.
LEMMA AskedInVain ==
  ASSUME IInv, row = "registering", UNCHANGED <<panel, site>>, NEW e \in ErrorsOf[engine], e # "ok",
         client' = [client EXCEPT !.pc = "ended", !.err = e, !.asked = @ + 1],
         client.asked + 1 <= Budget[engine]
  PROVE  IInv'
<1>1. AttemptOK(client') /\ client'.pc = "ended" /\ client'.err = e /\ client'.asked = client.asked + 1
  BY DEF IInv, AttemptOK, Fields
<1>2. site' = site /\ engine' = engine /\ row' = row
  BY DEF panel
<1>3. SiteOK(site')
  BY <1>2 DEF IInv
<1> QED BY <1>1, <1>2, <1>3, EndedKeeps

\* A row is started, and its attempt is fresh.
LEMMA Begun ==
  ASSUME IInv, NEW e, NEW start, NEW knows, Begins(e, start, knows)
  PROVE  /\ AttemptOK(client') /\ client'.pc = start /\ client'.err = "" /\ client'.notes = knows
         /\ client'.asked = 0 /\ client'.next = "" /\ client'.token = "none"
         /\ site' = site /\ site.facts = {} /\ engine = e /\ engine' = e /\ row' = "registering"
<1>1. PICK k : client' = NewAttempt(start, k, knows)
  BY DEF Begins
<1>2. site' = site /\ engine = e /\ engine' = e /\ row' = "registering" /\ row # "registering"
  BY DEF Begins
<1> QED BY <1>1, <1>2 DEF NewAttempt, AttemptOK, Fields, IInv

\* The mails each engine may ask for.
LEMMA Budgets ==
  /\ Budget["chatgpt"] = 2 /\ Budget["adobe"] = 2 /\ Budget["grok"] = 1 /\ Budget["leonardo"] = 2
  /\ Budget["lovart"] = 2
BY DEF Budget

\* A fresh attempt is sound if its engine's stage allows its first place.
LEMMA BeginsKeeps ==
  ASSUME IInv, NEW e, NEW start, NEW knows, Begins(e, start, knows), start # "ended", Stage(e, client', site)
  PROVE  IInv'
<1>1. e \in Engines
  BY Begun DEF IInv
<1>2. 0 <= Budget[e]
  BY <1>1, Budgets DEF Engines
<1> QED BY <1>1, <1>2, Begun DEF IInv, Sound, SiteOK

\* An attempt that is booked leaves nothing behind but the row's status, which
\* says registered only of an attempt without an error.
LEMMA BooksKeeps ==
  ASSUME IInv, NEW e, NEW status, Books(e, status), status[client.err] # "registering",
         status[client.err] = "registered" => client.err = "ok"
  PROVE  IInv'
<1>1. client' = NewAttempt("idle", 0, client.notes \cap {"looked"}) /\ site' = [site EXCEPT !.facts = {}] /\ engine' = engine
      /\ row' = status[client.err]
  BY DEF Books
<1>2. AttemptOK(client') /\ client'.err = "" /\ client'.asked = 0 /\ client'.notes = client.notes \cap {"looked"}
  BY <1>1 DEF NewAttempt, AttemptOK, Fields
<1>3. SiteOK(site') /\ site'.facts = {} /\ site'.acct = site.acct
  BY <1>1 DEF IInv, SiteOK
<1>4. client.err = "ok" => Backed(client, site)
  BY DEF IInv
<1>5. row' = "registered" => Backed(client', site')
  BY <1>1, <1>2, <1>3, <1>4 DEF Backed, Has
<1> QED BY <1>1, <1>2, <1>3, <1>5 DEF IInv, SiteOK, Has, Backed

\* The errors each producer tells apart.
LEMMA Errors ==
  /\ ErrorsOf["chatgpt"] = {"ok", "taken", "exists", "terms", "blocked", "net", "other"}
  /\ ErrorsOf["adobe"] = {"ok", "exists", "landing", "other"}
  /\ ErrorsOf["grok"] = {"ok", "taken", "other"} /\ ErrorsOf["leonardo"] = {"ok", "taken", "other"}
  /\ ErrorsOf["lovart"] = {"ok", "other"}
BY DEF ErrorsOf

\* What is known of an attempt that is at l.
LEMMA Present ==
  ASSUME IInv, NEW e, NEW l, At(e, l)
  PROVE  /\ row = "registering" /\ engine = e /\ client.pc = l /\ AttemptOK(client) /\ SiteOK(site)
         /\ Stage(e, client, site) /\ client.asked <= Budget[e] /\ client.asked \in Nat
         /\ client.pc = "ended" => client.err \in ErrorsOf[e]
         /\ e # "adobe" /\ client.err = "ok" => Has(site)
         /\ e = "adobe" /\ client.pc # "ended" => client.err # "ok"
BY DEF IInv, At, Sound, AttemptOK, Backed
-----------------------------------------------------------------------------
(* ChatGPT: a code mail of its own and one resend. *)

\* What is known of a ChatGPT attempt at l.
LEMMA AtChatGPT == ASSUME IInv, NEW l, At("chatgpt", l)
  PROVE  /\ row = "registering" /\ engine = "chatgpt" /\ client.pc = l /\ client.asked <= 2 /\ client.asked \in Nat
         /\ ChatGPTSound(client, site) /\ AttemptOK(client) /\ SiteOK(site)
BY Present, Budgets DEF Stage

LEMMA ChatGPTFails ==
  ASSUME IInv, NEW l, At("chatgpt", l), NEW e, Fails(e), e \in AuthErrors \cup WireErrors PROVE IInv'
<1>1. e \in ErrorsOf["chatgpt"] /\ e # "ok"
  BY Errors DEF AuthErrors, WireErrors
<1> QED BY <1>1, AtChatGPT, FailsOther

\* A move that leaves the platform and the mails asked for as they are.
LEMMA ChatGPTMoves ==
  ASSUME IInv, NEW l, At("chatgpt", l), NEW k, Goes(k), Quiet, k # "ended", ChatGPTSound(client', site) PROVE IInv'
BY AtChatGPT, Went, QuietKeeps DEF Stage, Alike

LEMMA ChatGPTBeginKeeps == ASSUME IInv, ChatGPTBegin PROVE IInv'
<1>1. PICK k \in SUBSET {"rotates"} : Begins("chatgpt", "open", k)
  BY DEF ChatGPTBegin
<1>2. client'.pc = "open" /\ client'.asked = 0
  BY <1>1, Begun
<1>3. Stage("chatgpt", client', site)
  BY <1>2 DEF Stage, ChatGPTSound
<1> QED BY <1>1, <1>3, BeginsKeeps

\* The authorize page is open, or not.
LEMMA OpenAuthorizeKeeps == ASSUME IInv, OpenAuthorize PROVE IInv'
BY ChatGPTFails DEF OpenAuthorize

\* A landing on the code page: its mail is on the way unasked.
LEMMA AuthorizeAgainKeeps == ASSUME IInv, AuthorizeAgain PROVE IInv'
<1>1. At("chatgpt", "open") /\ engine' = engine /\ row' = row /\ site' = site
  BY DEF AuthorizeAgain, panel
<1>2. AttemptOK(client') /\ client'.pc = "open" /\ client'.asked = client.asked /\ client'.err = client.err
  BY <1>1, AtChatGPT DEF AuthorizeAgain, AttemptOK, Fields
<1>3. Stage("chatgpt", client', site')
  BY <1>1, <1>2, AtChatGPT DEF Stage, ChatGPTSound
<1> QED BY <1>1, <1>2, <1>3, AtChatGPT, Present, Budgets, OtherKeeps DEF Has

LEMMA LandOnVerifyKeeps == ASSUME IInv, LandOnVerify PROVE IInv'
<1>1. At("chatgpt", "open") /\ engine' = engine /\ row' = row
  BY DEF LandOnVerify, panel
<1>2. AttemptOK(client') /\ client'.pc = "verify" /\ client'.asked = client.asked /\ client'.err = client.err
  BY <1>1, AtChatGPT DEF LandOnVerify, Lands, AttemptOK, Fields
<1>3. PICK facts \in {{"pending"}, {}} : site' = [site EXCEPT !.facts = facts]
  BY DEF LandOnVerify
<1>4. SiteOK(site') /\ site'.acct = site.acct
  BY <1>1, <1>3, AtChatGPT DEF SiteOK
<1>5. Stage("chatgpt", client', site')
  BY <1>1, <1>2, AtChatGPT DEF Stage, ChatGPTSound
<1> QED BY <1>1, <1>2, <1>4, <1>5, AtChatGPT, Present, Budgets, OtherKeeps DEF Has

LEMMA LandElsewhereKeeps == ASSUME IInv, LandElsewhere PROVE IInv'
<1>1. At("chatgpt", "open")
  BY DEF LandElsewhere
<1>2. ASSUME Quiet, Lands("password") PROVE IInv'
  <2>1. AttemptOK(client') /\ client'.pc = "password" /\ client'.asked = client.asked /\ client'.err = client.err
    BY <1>1, <1>2, AtChatGPT DEF Lands, AttemptOK, Fields
  <2>2. Stage("chatgpt", client', site)
    BY <1>1, <2>1, AtChatGPT DEF Stage, ChatGPTSound
  <2> QED BY <1>1, <1>2, <2>1, <2>2, AtChatGPT, QuietKeeps
<1>3. ASSUME Exists, Fails("taken") PROVE IInv'
  <2>1. "taken" \in ErrorsOf["chatgpt"]
    BY Errors
  <2> QED BY <1>1, <1>3, <2>1, AtChatGPT, FailsOther
<1> QED BY <1>1, <1>2, <1>3, ChatGPTFails DEF LandElsewhere

\* From the password form on to the code, with nothing asked for.
LEMMA SubmitCreatePasswordKeeps == ASSUME IInv, SubmitCreatePassword PROVE IInv'
<1>1. At("chatgpt", "password")
  BY DEF SubmitCreatePassword
<1>2. ASSUME NEW l \in {"verify", "wait"}, Goes(l), site' = [site EXCEPT !.facts = {"pending"}],
             UNCHANGED <<panel, mail>>
      PROVE  IInv'
  <2>1. SiteOK(site') /\ site'.acct = site.acct /\ engine' = engine /\ row' = row
    BY <1>1, <1>2, AtChatGPT DEF SiteOK, panel
  <2>2. Stage("chatgpt", client', site')
    BY <1>1, <1>2, AtChatGPT, Went DEF Stage, ChatGPTSound, Alike
  <2> QED BY <1>1, <1>2, <2>1, <2>2, Went, AtChatGPT, Present, Budgets, OtherKeeps DEF Alike, Has
<1> QED BY <1>1, <1>2, ChatGPTFails DEF SubmitCreatePassword

LEMMA ReadSessionKeeps == ASSUME IInv, ReadSession PROVE IInv'
<1>1. At("chatgpt", "verify")
  BY DEF ReadSession
<1>2. ASSUME NEW l \in {"mint", "wait"}, Goes(l), Quiet PROVE IInv'
  <2>1. ChatGPTSound(client', site)
    BY <1>1, <1>2, AtChatGPT, Went DEF ChatGPTSound, Alike
  <2> QED BY <1>1, <1>2, <2>1, ChatGPTMoves
<1> QED BY <1>1, <1>2, ChatGPTFails DEF ReadSession

\* The platform's own mail counts as none of the attempt's.
LEMMA PlatformSendsKeeps == ASSUME IInv, PlatformSends PROVE IInv'
<1>1. At("chatgpt", "mint") /\ client' = client /\ engine' = engine /\ row' = row
      /\ site' = [site EXCEPT !.facts = @ \ {"pending"}]
  BY DEF PlatformSends, panel
<1>2. SiteOK(site') /\ site'.acct = site.acct
  BY <1>1, AtChatGPT DEF SiteOK
<1>3. Stage("chatgpt", client', site')
  BY <1>1, AtChatGPT DEF Stage, ChatGPTSound
<1> QED BY <1>1, <1>2, <1>3, AtChatGPT, Present, Budgets, OtherKeeps DEF Has

\* A request for a mail, by an attempt that has asked at most once.
LEMMA ChatGPTAsks ==
  ASSUME IInv, NEW l, At("chatgpt", l), client.asked <= 1, NEW e \in WireErrors, NEW c, Asks(c, e),
         AttemptOK(c), c.pc = "wait", c.err = client.err, c.asked = client.asked,
         client.asked = 1 => "resent" \in c.notes
  PROVE  IInv'
<1>1. site' = site /\ engine' = engine /\ row' = row /\ UNCHANGED <<panel, site>>
  BY DEF Asks, panel
<1>2. CASE client' = [c EXCEPT !.asked = @ + 1]
  <2>1. /\ AttemptOK(client') /\ client'.pc = "wait" /\ client'.err = client.err
        /\ client'.asked = client.asked + 1 /\ client'.notes = c.notes
    BY <1>2 DEF AttemptOK, Fields
  <2>2. client.asked \in {0, 1}
    BY AtChatGPT
  <2>3. Stage("chatgpt", client', site')
    BY <2>1, <2>2 DEF Stage, ChatGPTSound
  <2> QED BY <1>1, <2>1, <2>2, <2>3, AtChatGPT, Present, Budgets, OtherKeeps DEF Has
<1>3. CASE client' = [client EXCEPT !.pc = "ended", !.err = e, !.asked = @ + 1]
  <2>1. e \in ErrorsOf["chatgpt"] /\ e # "ok"
    BY Errors DEF WireErrors
  <2>2. client.asked + 1 <= Budget["chatgpt"]
    BY AtChatGPT, Budgets
  <2> QED BY <1>1, <1>3, <2>1, <2>2, AtChatGPT, AskedInVain
<1> QED BY <1>2, <1>3 DEF Asks

\* The first request, from places that have asked for none.
LEMMA PostInitialOTPKeeps == ASSUME IInv, PostInitialOTP PROVE IInv'
<1>1. At("chatgpt", "mint") /\ client.asked = 0
  BY AtChatGPT DEF PostInitialOTP, ChatGPTSound
<1>2. ASSUME NEW e \in WireErrors, Asks([client EXCEPT !.pc = "wait", !.since = Len(mail.inbox)], e) PROVE IInv'
  <2> DEFINE c == [client EXCEPT !.pc = "wait", !.since = Len(mail.inbox)]
  <2>1. AttemptOK(c) /\ c.pc = "wait" /\ c.err = client.err /\ c.asked = client.asked
    BY <1>1, AtChatGPT DEF AttemptOK, Fields
  <2>2. Asks(c, e)
    BY <1>2
  <2> HIDE DEF c
  <2> QED BY <1>1, <2>1, <2>2, ChatGPTAsks
<1> QED BY <1>1, <1>2, ChatGPTFails DEF PostInitialOTP

\* The one resend: the note of it is set, so that no other follows.
LEMMA ResendEmailCodeKeeps == ASSUME IInv, ResendEmailCode PROVE IInv'
<1>1. At("chatgpt", "resend") /\ client.asked <= 1
  BY AtChatGPT DEF ResendEmailCode, ChatGPTSound
<1>2. PICK e \in WireErrors : Asks(Resent([client EXCEPT !.pc = "wait", !.since = Len(mail.inbox)]), e)
  BY DEF ResendEmailCode
<1> DEFINE c == Resent([client EXCEPT !.pc = "wait", !.since = Len(mail.inbox)])
<1>3. AttemptOK(c) /\ c.pc = "wait" /\ c.err = client.err /\ c.asked = client.asked /\ "resent" \in c.notes
  BY <1>1, AtChatGPT DEF AttemptOK, Fields, Resent
<1>4. Asks(c, e)
  BY <1>2
<1> HIDE DEF c
<1> QED BY <1>1, <1>3, <1>4, ChatGPTAsks

\* A wait or a code that came to nothing: one resend, or the end.
LEMMA ChatGPTResends ==
  ASSUME IInv, NEW l \in {"wait", "validate"}, At("chatgpt", l), Quiet,
         IF "resent" \in client.notes THEN client' = [client EXCEPT !.pc = "ended", !.err = "other"] ELSE Goes("resend")
  PROVE  IInv'
<1>1. CASE "resent" \in client.notes
  BY <1>1, ChatGPTFails DEF Fails, WireErrors
<1>2. CASE "resent" \notin client.notes
  <2>1. Goes("resend") /\ client.asked <= 1
    BY <1>2, AtChatGPT DEF ChatGPTSound
  <2>2. ChatGPTSound(client', site)
    BY <2>1, Went DEF ChatGPTSound, Alike
  <2> QED BY <2>1, <2>2, ChatGPTMoves
<1> QED BY <1>1, <1>2

\* Waiting asks for nothing; without a mail it leads to the resend once.
LEMMA FetchEmailCodeKeeps == ASSUME IInv, FetchEmailCode PROVE IInv'
<1>1. At("chatgpt", "wait")
  BY DEF FetchEmailCode
<1>2. ASSUME TakesCode("validate") PROVE IInv'
  <2>1. client'.pc = "validate" /\ Alike(client, client') /\ Quiet
    BY <1>2, TookCode
  <2>2. Stage("chatgpt", client', site)
    BY <1>1, <2>1, AtChatGPT DEF Stage, ChatGPTSound, Alike
  <2> QED BY <1>1, <2>1, <2>2, AtChatGPT, QuietKeeps DEF Alike
<1> QED BY <1>1, <1>2, ChatGPTFails, ChatGPTResends DEF FetchEmailCode, WireErrors

\* A refused code leads to the same resend as a missing one.
LEMMA ValidateOTPKeeps == ASSUME IInv, ValidateOTP PROVE IInv'
<1>1. At("chatgpt", "validate")
  BY DEF ValidateOTP
<1>2. ASSUME Goes(IF Exists THEN "callback" ELSE "about"), Quiet PROVE IInv'
  <2>1. PICK k \in {"callback", "about"} : Goes(k) /\ (k = "callback" => Exists)
    BY <1>2
  <2>2. ChatGPTSound(client', site)
    BY <2>1, Went DEF ChatGPTSound, Alike, Exists, Has
  <2> QED BY <1>1, <1>2, <2>1, <2>2, ChatGPTMoves
<1> QED BY <1>1, <1>2, ChatGPTFails, ChatGPTResends DEF ValidateOTP

\* The account is made here, whether or not the answer arrives.
LEMMA CreateAccountKeeps == ASSUME IInv, CreateAccount PROVE IInv'
<1>1. At("chatgpt", "about")
  BY DEF CreateAccount
<1>2. ASSUME site' = [site EXCEPT !.acct = "ours"], UNCHANGED <<panel, mail>>,
             \/ Goes("callback")
             \/ \E e \in WireErrors : client' = [client EXCEPT !.pc = "ended", !.err = e]
      PROVE  IInv'
  <2>1. SiteOK(site') /\ Has(site') /\ engine' = engine /\ row' = row
    BY <1>1, <1>2, AtChatGPT DEF SiteOK, Has, panel
  <2>2. CASE Goes("callback")
    <3>1. Stage("chatgpt", client', site')
      BY <1>1, <2>1, <2>2, AtChatGPT, Went DEF Stage, ChatGPTSound, Alike
    <3> QED BY <1>1, <2>1, <2>2, <3>1, Went, AtChatGPT, Budgets, OtherKeeps DEF Alike
  <2>3. ASSUME NEW e \in WireErrors, client' = [client EXCEPT !.pc = "ended", !.err = e] PROVE IInv'
    <3>1. e \in ErrorsOf["chatgpt"]
      BY Errors DEF WireErrors
    <3> QED BY <1>1, <2>1, <2>3, <3>1, Returned, AtChatGPT, Budgets, EndedOther
  <2> QED BY <1>2, <2>2, <2>3
<1> QED BY <1>1, <1>2, ChatGPTFails DEF CreateAccount

\* The callback is only reached with an account.
LEMMA OAuthCallbackKeeps == ASSUME IInv, OAuthCallback PROVE IInv'
<1>1. At("chatgpt", "callback") /\ Has(site)
  BY AtChatGPT DEF OAuthCallback, ChatGPTSound
<1>2. "ok" \in ErrorsOf["chatgpt"]
  BY Errors
<1> QED BY <1>1, <1>2, AtChatGPT, ChatGPTFails, FailsOther DEF OAuthCallback, Ends, Fails

\* The next proxy lease starts over with nothing asked for.
LEMMA NextLeaseKeeps == ASSUME IInv, NextLease PROVE IInv'
<1>1. At("chatgpt", "ended") /\ engine' = engine /\ row' = row /\ site' = [site EXCEPT !.facts = {}]
  BY DEF NextLease, panel
<1>2. SiteOK(site') /\ site'.acct = site.acct
  BY <1>1, AtChatGPT DEF SiteOK
<1>3. ASSUME NEW k \in Recent, NEW tries, NEW rounds,
             client' = [NewAttempt("open", k, client.notes \cap {"rotates"}) EXCEPT !.tries = tries, !.rounds = rounds]
      PROVE  IInv'
  <2>1. AttemptOK(client') /\ client'.pc = "open" /\ client'.err = "" /\ client'.asked = 0
    BY <1>3 DEF NewAttempt, AttemptOK, Fields
  <2>2. Stage("chatgpt", client', site')
    BY <2>1 DEF Stage, ChatGPTSound
  <2>3. row = "registering" /\ engine = "chatgpt"
    BY <1>1, AtChatGPT
  <2>4. client'.asked = 0 /\ Budget["chatgpt"] = 2
    BY <2>1, Budgets
  <2>5. client'.asked <= Budget["chatgpt"]
    BY <2>4
  <2> QED BY <1>1, <1>2, <2>1, <2>2, <2>3, <2>5, OtherKeeps
<1>4. CASE client' = [client EXCEPT !.err = "other"]
  <2>1. AttemptOK(client') /\ client'.pc = "ended" /\ client'.err = "other" /\ client'.asked = client.asked
    BY <1>1, <1>4, AtChatGPT DEF AttemptOK, Fields
  <2>2. "other" \in ErrorsOf["chatgpt"]
    BY Errors
  <2> QED BY <1>1, <1>2, <2>1, <2>2, AtChatGPT, Budgets, EndedOther
<1> QED BY <1>3, <1>4 DEF NextLease

\* Only an attempt without an error makes its row registered.
LEMMA ChatGPTBookKeeps == ASSUME IInv, ChatGPTBook PROVE IInv'
<1>1. Books("chatgpt", ChatGPTStatus) /\ client.err \in {"ok", "taken", "exists", "terms", "blocked", "net", "other"}
  BY Present, Errors DEF ChatGPTBook, Books
<1>2. ChatGPTStatus[client.err] # "registering" /\ (ChatGPTStatus[client.err] = "registered" => client.err = "ok")
  BY <1>1 DEF ChatGPTStatus
<1> QED BY <1>1, <1>2, BooksKeeps

LEMMA ChatGPTKeeps == ASSUME IInv, ChatGPTNext PROVE IInv'
BY ChatGPTBeginKeeps, OpenAuthorizeKeeps, AuthorizeAgainKeeps, LandOnVerifyKeeps, LandElsewhereKeeps, SubmitCreatePasswordKeeps,
   ReadSessionKeeps, PlatformSendsKeeps, PostInitialOTPKeeps, FetchEmailCodeKeeps, ResendEmailCodeKeeps,
   ValidateOTPKeeps, CreateAccountKeeps, OAuthCallbackKeeps, NextLeaseKeeps, ChatGPTBookKeeps DEF ChatGPTNext
-----------------------------------------------------------------------------
(* Grok: one code mail, and an account before any session. *)

\* What is known of a Grok attempt at l.
LEMMA AtGrok == ASSUME IInv, NEW l, At("grok", l)
  PROVE  /\ row = "registering" /\ engine = "grok" /\ client.pc = l /\ client.asked <= 1 /\ client.asked \in Nat
         /\ GrokSound(client, site) /\ AttemptOK(client) /\ SiteOK(site)
BY Present, Budgets DEF Stage

LEMMA GrokFails ==
  ASSUME IInv, NEW l, At("grok", l), NEW e \in {"taken", "other"}, Fails(e) PROVE IInv'
<1>1. e \in ErrorsOf["grok"] /\ e # "ok"
  BY Errors
<1> QED BY <1>1, AtGrok, FailsOther

LEMMA GrokMoves ==
  ASSUME IInv, NEW l, At("grok", l), NEW k, Goes(k), Quiet, k # "ended", GrokSound(client', site) PROVE IInv'
BY AtGrok, Went, QuietKeeps DEF Stage, Alike

LEMMA GrokBeginKeeps == ASSUME IInv, GrokBegin PROVE IInv'
<1>1. client'.pc = "config" /\ client'.asked = 0
  BY Begun DEF GrokBegin
<1>2. Stage("grok", client', site)
  BY <1>1 DEF Stage, GrokSound
<1> QED BY <1>2, BeginsKeeps DEF GrokBegin

\* The configuration ages in the cache and in the hands of the attempt.
LEMMA ReleaseKeeps == ASSUME IInv, Release PROVE IInv'
<1>1. engine = "grok" /\ site' = site /\ engine' = engine /\ row' = row
      /\ client' = [client EXCEPT !.token = IF @ = "good" THEN "stale" ELSE @]
  BY DEF Release
<1>2. /\ AttemptOK(client') /\ client'.pc = client.pc /\ client'.err = client.err /\ client'.asked = client.asked
  BY <1>1 DEF IInv, AttemptOK, Fields
<1>3. Stage("grok", client, site) => Stage("grok", client', site)
  BY <1>2 DEF Stage, GrokSound
<1>4. SiteOK(site') /\ (client'.err = "ok" => Has(site'))
  BY <1>1, <1>2 DEF IInv, SiteOK, Backed
<1>5. CASE row = "registering"
  BY <1>1, <1>2, <1>3, <1>4, <1>5, OtherKeeps DEF IInv, Sound
<1>6. CASE row # "registering"
  BY <1>1, <1>2, <1>4, <1>6 DEF IInv, Backed, Has, SiteOK
<1> QED BY <1>5, <1>6

\* An attempt that has the configuration goes on to its one request.
LEMMA HoldsKeeps ==
  ASSUME IInv, At("grok", "config"), NEW v, Holds(v), UNCHANGED <<engine, row, site>> PROVE IInv'
<1>1. PICK kind \in SUBSET {"json"} : client' = [client EXCEPT !.pc = "send", !.token = v, !.notes = kind]
  BY DEF Holds
<1>2. AttemptOK(client') /\ client'.pc = "send" /\ client'.err = client.err /\ client'.asked = client.asked
  BY <1>1, AtGrok DEF AttemptOK, Fields
<1>3. Stage("grok", client', site')
  BY <1>2, AtGrok DEF Stage, GrokSound
<1> QED BY <1>2, <1>3, AtGrok, Present, Budgets, OtherKeeps

LEMMA UseCachedKeeps == ASSUME IInv, UseCached PROVE IInv'
BY HoldsKeeps DEF UseCached, Quiet, panel

LEMMA FetchConfigKeeps == ASSUME IInv, FetchConfig PROVE IInv'
<1>1. At("grok", "config") /\ UNCHANGED <<engine, row, site>>
  BY DEF FetchConfig
<1>2. ASSUME client' = [client EXCEPT !.pc = "ended", !.err = "other"] PROVE IInv'
  <2>1. "other" \in ErrorsOf["grok"]
    BY Errors
  <2> QED BY <1>1, <1>2, <2>1, Returned, AtGrok, Budgets, EndedOther
<1> QED BY <1>1, <1>2, HoldsKeeps DEF FetchConfig

\* The one request for a code.
LEMMA GrokSendCodeKeeps == ASSUME IInv, SendCode PROVE IInv'
<1>1. At("grok", "send") /\ client.asked = 0
  BY AtGrok DEF SendCode, GrokSound
<1>2. ASSUME Asks([client EXCEPT !.pc = "code"], "other") PROVE IInv'
  <2>1. site' = site /\ engine' = engine /\ row' = row /\ UNCHANGED <<panel, site>>
    BY <1>2 DEF Asks, panel
  <2>2. CASE client' = [[client EXCEPT !.pc = "code"] EXCEPT !.asked = @ + 1]
    <3>1. AttemptOK(client') /\ client'.pc = "code" /\ client'.err = client.err /\ client'.asked = client.asked + 1
      BY <1>1, <2>2, AtGrok DEF AttemptOK, Fields
    <3>2. Stage("grok", client', site')
      BY <3>1 DEF Stage, GrokSound
    <3> QED BY <1>1, <2>1, <3>1, <3>2, AtGrok, Present, Budgets, OtherKeeps
  <2>3. CASE client' = [client EXCEPT !.pc = "ended", !.err = "other", !.asked = @ + 1]
    <3>1. "other" \in ErrorsOf["grok"] /\ client.asked + 1 <= Budget["grok"]
      BY <1>1, Errors, Budgets
    <3> QED BY <1>1, <2>1, <2>3, <3>1, AtGrok, AskedInVain
  <2> QED BY <1>2, <2>2, <2>3 DEF Asks
<1> QED BY <1>1, <1>2, GrokFails DEF SendCode

LEMMA WaitGrokCodeKeeps == ASSUME IInv, WaitGrokCode PROVE IInv'
<1>1. At("grok", "code")
  BY DEF WaitGrokCode
<1>2. ASSUME TakesCode("verify") PROVE IInv'
  <2>1. client'.pc = "verify" /\ Alike(client, client') /\ Quiet
    BY <1>2, TookCode
  <2>2. Stage("grok", client', site)
    BY <2>1 DEF Stage, GrokSound
  <2> QED BY <1>1, <2>1, <2>2, AtGrok, QuietKeeps DEF Alike
<1> QED BY <1>1, <1>2, GrokFails DEF WaitGrokCode

LEMMA VerifyGrokCodeKeeps == ASSUME IInv, VerifyGrokCode PROVE IInv'
<1>1. At("grok", "verify")
  BY DEF VerifyGrokCode
<1>2. Goes("turnstile") => GrokSound(client', site)
  BY Went DEF GrokSound
<1> QED BY <1>1, <1>2, GrokFails, GrokMoves DEF VerifyGrokCode

LEMMA MintTurnstileKeeps == ASSUME IInv, MintTurnstile PROVE IInv'
<1>1. At("grok", "turnstile")
  BY DEF MintTurnstile
<1>2. Goes("create") => GrokSound(client', site)
  BY Went DEF GrokSound
<1> QED BY <1>1, <1>2, GrokFails, GrokMoves DEF MintTurnstile

\* The account is made here, whether or not its session arrives.
LEMMA CreateGrokAccountKeeps == ASSUME IInv, CreateGrokAccount PROVE IInv'
<1>1. At("grok", "create") /\ engine' = engine /\ row' = row
  BY DEF CreateGrokAccount
<1>2. SiteOK(site') /\ (site' = [site EXCEPT !.acct = "ours"] => Has(site'))
  BY <1>1, AtGrok DEF CreateGrokAccount, SiteOK, Has
<1>3. ASSUME Signed, Has(site') PROVE IInv'
  <2>1. AttemptOK(client') /\ client'.pc = "sso" /\ client'.err = "ok" /\ client'.asked = client.asked
    BY <1>1, <1>3, AtGrok DEF Signed, AttemptOK, Fields
  <2>2. Stage("grok", client', site')
    BY <2>1 DEF Stage, GrokSound
  <2> QED BY <1>1, <1>2, <1>3, <2>1, <2>2, AtGrok, Budgets, OtherKeeps
<1>4. ASSUME NEW e \in {"taken", "other"}, Unsigned(e) PROVE IInv'
  <2>1. e \in ErrorsOf["grok"] /\ e # "ok"
    BY Errors
  <2> QED BY <1>1, <1>2, <1>4, <2>1, Returned, AtGrok, Budgets, EndedOther DEF Unsigned
<1> QED BY <1>2, <1>3, <1>4 DEF CreateGrokAccount

\* From the session on the attempt has succeeded, whatever the conversion does.
LEMMA GrokConverts ==
  ASSUME IInv, NEW l \in {"sso", "device"}, At("grok", l), Quiet, AttemptOK(client'),
         client'.pc \in {"device", "ended"}, client'.err = client.err, client'.asked = client.asked
  PROVE  IInv'
<1>1. client.err = "ok" /\ Has(site) /\ row = "registering" /\ engine = "grok"
  BY AtGrok, Present DEF GrokSound
<1>2. site' = site /\ engine' = engine /\ row' = row /\ "ok" \in ErrorsOf["grok"]
  BY Errors DEF Quiet, panel
<1>3. Stage("grok", client', site')
  BY <1>1 DEF Stage, GrokSound
<1> QED BY <1>1, <1>2, <1>3, AtGrok, Present, OtherKeeps

\* What follows the account leaves the attempt's error as it is.
LEMMA ConvertSSOKeeps == ASSUME IInv, ConvertSSO PROVE IInv'
<1>1. At("grok", "sso") /\ Quiet
  BY DEF ConvertSSO
<1>2. PICK k \in {"device", "ended"} : Goes(k)
  BY DEF ConvertSSO
<1> QED BY <1>1, <1>2, Went, GrokConverts DEF Alike

LEMMA PollTokenKeeps == ASSUME IInv, PollToken PROVE IInv'
<1>1. At("grok", "device") /\ Quiet
  BY DEF PollToken
<1>2. CASE client' = [client EXCEPT !.pc = "ended", !.notes = @ \cup {"oauth"}]
  <2>1. AttemptOK(client') /\ client'.pc = "ended" /\ client'.err = client.err /\ client'.asked = client.asked
    BY <1>1, <1>2, AtGrok DEF AttemptOK, Fields
  <2> QED BY <1>1, <2>1, GrokConverts
<1>3. CASE Goes("ended")
  BY <1>1, <1>3, Went, GrokConverts DEF Alike
<1> QED BY <1>2, <1>3 DEF PollToken

\* Only an attempt without an error makes its row registered.
LEMMA GrokBookKeeps == ASSUME IInv, GrokBook PROVE IInv'
<1>1. Books("grok", GrokStatus) /\ client.err \in {"ok", "taken", "other"}
  BY Present, Errors DEF GrokBook, Books
<1>2. GrokStatus[client.err] # "registering" /\ (GrokStatus[client.err] = "registered" => client.err = "ok")
  BY <1>1 DEF GrokStatus
<1> QED BY <1>1, <1>2, BooksKeeps

LEMMA GrokKeeps == ASSUME IInv, GrokNext PROVE IInv'
<1>1. OthersStore \/ OthersInvalidate => IInv'
  BY ElsewhereKeeps DEF OthersStore, OthersInvalidate
<1> QED BY <1>1, GrokBeginKeeps, ReleaseKeeps, UseCachedKeeps, FetchConfigKeeps, GrokSendCodeKeeps, WaitGrokCodeKeeps,
   VerifyGrokCodeKeeps, MintTurnstileKeeps, CreateGrokAccountKeeps, ConvertSSOKeeps, PollTokenKeeps, GrokBookKeeps
   DEF GrokNext
-----------------------------------------------------------------------------
(* Leonardo: a resend on either way into the wait, and one after a refusal. *)

\* What is known of a Leonardo attempt at l.
LEMMA AtLeonardo == ASSUME IInv, NEW l, At("leonardo", l)
  PROVE  /\ row = "registering" /\ engine = "leonardo" /\ client.pc = l /\ client.asked <= 2 /\ client.asked \in Nat
         /\ LeonardoSound(client, site) /\ AttemptOK(client) /\ SiteOK(site)
         /\ client.err = "ok" => Has(site)
BY Present, Budgets DEF Stage

LEMMA LeonardoFails ==
  ASSUME IInv, NEW l, At("leonardo", l), NEW e \in {"taken", "other"}, Fails(e) PROVE IInv'
<1>1. e \in ErrorsOf["leonardo"] /\ e # "ok"
  BY Errors
<1> QED BY <1>1, AtLeonardo, FailsOther

\* A Leonardo attempt ends well where there is an account.
LEMMA LeonardoEnds == ASSUME IInv, NEW l, At("leonardo", l), Has(site), Ends PROVE IInv'
<1>1. "ok" \in ErrorsOf["leonardo"]
  BY Errors
<1> QED BY <1>1, AtLeonardo, FailsOther DEF Ends, Fails

\* The attempt goes on and asks for nothing; the site may have changed.
LEMMA LeonardoTurns ==
  ASSUME IInv, NEW l, At("leonardo", l), engine' = engine, row' = row, SiteOK(site'), Has(site) => Has(site'),
         AttemptOK(client'), client'.pc # "ended", client'.err = client.err, client'.asked = client.asked,
         LeonardoSound(client', site')
  PROVE  IInv'
BY AtLeonardo, Budgets, OtherKeeps DEF Stage

\* A token is wanted for l.
LEMMA Wanting ==
  ASSUME IInv, NEW l, Wants(l)
  PROVE  /\ AttemptOK(client') /\ client'.pc = "mint" /\ client'.next = l /\ client'.err = client.err
         /\ client'.asked = client.asked /\ client'.notes = client.notes
BY DEF IInv, AttemptOK, Fields, Wants

LEMMA LeonardoBeginKeeps == ASSUME IInv, LeonardoBegin PROVE IInv'
<1>1. client'.pc = "open" /\ client'.asked = 0 /\ client'.notes = {}
  BY Begun DEF LeonardoBegin
<1>2. Stage("leonardo", client', site)
  BY <1>1 DEF Stage, LeonardoSound, Wanted
<1> QED BY <1>2, BeginsKeeps DEF LeonardoBegin

\* The page tells which of the two signups there is.
LEMMA NewPageClientKeeps == ASSUME IInv, NewPageClient PROVE IInv'
<1>1. At("leonardo", "open")
  BY DEF NewPageClient
<1>2. ASSUME NEW gone \in SUBSET {"legacyGone"}, site' = [site EXCEPT !.facts = gone],
             client' = [client EXCEPT !.pc = "mint", !.next = "legacy"], UNCHANGED <<panel, mail>>
      PROVE  IInv'
  <2>1. SiteOK(site') /\ site'.acct = site.acct /\ engine' = engine /\ row' = row
    BY <1>1, <1>2, AtLeonardo DEF SiteOK, panel
  <2>2. /\ AttemptOK(client') /\ client'.pc = "mint" /\ client'.next = "legacy" /\ client'.err = client.err
        /\ client'.asked = client.asked /\ client'.notes = client.notes
    BY <1>1, <1>2, AtLeonardo DEF AttemptOK, Fields
  <2>3. LeonardoSound(client', site')
    BY <1>1, <2>2, AtLeonardo DEF LeonardoSound, Wanted
  <2> QED BY <1>1, <2>1, <2>2, <2>3, LeonardoTurns DEF Has
<1> QED BY <1>1, <1>2, LeonardoFails DEF NewPageClient

\* A token of the captcha leads on to where it was wanted.
LEMMA MintCaptchaKeeps == ASSUME IInv, MintCaptcha PROVE IInv'
<1>1. At("leonardo", "mint") /\ client.next \in {"legacy", "better", "resend", "signin"}
  BY AtLeonardo DEF MintCaptcha, LeonardoSound
<1>2. ASSUME Quiet, Goes(client.next) PROVE IInv'
  <2>1. client'.pc = client.next /\ Alike(client, client')
    BY <1>2, Went
  <2>2. LeonardoSound(client', site)
    BY <1>1, <2>1, AtLeonardo DEF LeonardoSound, Wanted, Alike, Again
  <2>3. site' = site /\ engine' = engine /\ row' = row
    BY <1>2 DEF Quiet, panel
  <2> QED BY <1>1, <2>1, <2>2, <2>3, AtLeonardo, LeonardoTurns DEF Alike
<1> QED BY <1>1, <1>2, LeonardoFails DEF MintCaptcha, Goes

\* The same request again, or the end.
LEMMA LegacyAgainKeeps ==
  ASSUME IInv, At("leonardo", "legacy"), LegacyAgain, engine' = engine, row' = row, SiteOK(site'),
         Has(site) => Has(site')
  PROVE  IInv'
<1>1. CASE client' = [client EXCEPT !.tries = @ + 1]
  <2>1. /\ AttemptOK(client') /\ client'.pc = client.pc /\ client'.next = client.next /\ client'.err = client.err
        /\ client'.asked = client.asked /\ client'.notes = client.notes
    BY <1>1, AtLeonardo DEF AttemptOK, Fields
  <2>2. LeonardoSound(client', site')
    BY <2>1, AtLeonardo DEF LeonardoSound, Wanted
  <2> QED BY <2>1, <2>2, AtLeonardo, LeonardoTurns
<1>2. CASE client' = [client EXCEPT !.pc = "ended", !.err = "other"]
  <2>1. "other" \in ErrorsOf["leonardo"]
    BY Errors
  <2> QED BY <1>2, <2>1, Returned, AtLeonardo, Budgets, EndedOther
<1> QED BY <1>1, <1>2 DEF LegacyAgain

\* An account made by a signup route is there to be confirmed.
LEMMA CreatesKeeps ==
  ASSUME IInv, NEW l \in {"legacy", "better"}, At("leonardo", l), NEW ACTION taken, Creates(taken),
         taken /\ engine' = engine /\ row' = row /\ SiteOK(site') /\ (Has(site) => Has(site')) => IInv'
  PROVE  IInv'
<1>1. site' = [site EXCEPT !.acct = "unconfirmed"] /\ site.acct = "none" /\ engine' = engine /\ row' = row
  BY DEF Creates, panel
<1>2. SiteOK(site') /\ (Has(site) => Has(site'))
  BY <1>1, AtLeonardo DEF SiteOK, Has
<1>3. ASSUME client' = [client EXCEPT !.pc = "session"] PROVE IInv'
  <2>1. /\ AttemptOK(client') /\ client'.pc = "session" /\ client'.err = client.err
        /\ client'.asked = client.asked /\ client'.notes = client.notes
    BY <1>3, AtLeonardo DEF AttemptOK, Fields
  <2>2. LeonardoSound(client', site')
    BY <2>1, AtLeonardo DEF LeonardoSound, Wanted
  <2> QED BY <1>1, <1>2, <2>1, <2>2, LeonardoTurns
<1> QED BY <1>1, <1>2, <1>3 DEF Creates

\* An address that is taken ends the attempt.
LEMMA KnownAddressKeeps ==
  ASSUME IInv, NEW l \in {"legacy", "better"}, At("leonardo", l), KnownAddress PROVE IInv'
<1>1. ASSUME Wants("resend"), Quiet PROVE IInv'
  <2>1. LeonardoSound(client', site)
    BY <1>1, Wanting, AtLeonardo DEF LeonardoSound, Wanted, Again
  <2> QED BY <1>1, <2>1, Wanting, AtLeonardo, LeonardoTurns DEF Quiet, panel
<1> QED BY <1>1, LeonardoFails DEF KnownAddress

\* The old signup makes the account or none, and mails its code unasked.
LEMMA SignupLegacyKeeps == ASSUME IInv, SignupLegacy PROVE IInv'
<1>1. At("leonardo", "legacy")
  BY DEF SignupLegacy
<1>2. LegacyAgain /\ Quiet => IInv'
  BY <1>1, LegacyAgainKeeps, AtLeonardo DEF Quiet, panel
<1>3. Creates(LegacyAgain) => IInv'
  BY <1>1, CreatesKeeps, LegacyAgainKeeps
<1> QED BY <1>1, <1>2, <1>3, KnownAddressKeeps DEF SignupLegacy

LEMMA LegacyRefusedKeeps == ASSUME IInv, LegacyRefused PROVE IInv'
<1>1. At("leonardo", "legacy")
  BY DEF LegacyRefused
<1>2. ASSUME Quiet,
             client' = [client EXCEPT !.pc = "mint", !.next = "legacy", !.tries = 0, !.notes = @ \cup {"fresh"}]
      PROVE  IInv'
  <2>1. /\ AttemptOK(client') /\ client'.pc = "mint" /\ client'.next = "legacy" /\ client'.err = client.err
        /\ client'.asked = client.asked /\ client'.notes = client.notes \cup {"fresh"}
    BY <1>1, <1>2, AtLeonardo DEF AttemptOK, Fields
  <2>2. LeonardoSound(client', site)
    BY <1>1, <2>1, AtLeonardo DEF LeonardoSound, Wanted
  <2> QED BY <1>1, <1>2, <2>1, <2>2, AtLeonardo, LeonardoTurns DEF Quiet, panel
<1> QED BY <1>1, <1>2, LeonardoFails DEF LegacyRefused

LEMMA LegacyNotFoundKeeps == ASSUME IInv, LegacyNotFound PROVE IInv'
<1>1. At("leonardo", "legacy") /\ Wants("better") /\ Quiet
  BY DEF LegacyNotFound
<1>2. LeonardoSound(client', site)
  BY <1>1, Wanting, AtLeonardo DEF LeonardoSound, Wanted
<1> QED BY <1>1, <1>2, Wanting, AtLeonardo, LeonardoTurns DEF Quiet, panel

\* The new signup makes the account or none, and mails its code unasked.
LEMMA SignupBetterAuthKeeps == ASSUME IInv, SignupBetterAuth PROVE IInv'
<1>1. At("leonardo", "better")
  BY DEF SignupBetterAuth
<1>2. ASSUME client' = [client EXCEPT !.pc = "ended", !.err = "other"], engine' = engine, row' = row, SiteOK(site')
      PROVE  IInv'
  <2>1. "other" \in ErrorsOf["leonardo"]
    BY Errors
  <2> QED BY <1>1, <1>2, <2>1, Returned, AtLeonardo, Budgets, EndedOther
<1>3. Creates(client' = [client EXCEPT !.pc = "ended", !.err = "other"]) => IInv'
  BY <1>1, <1>2, CreatesKeeps
<1> QED BY <1>1, <1>3, KnownAddressKeeps, LeonardoFails DEF SignupBetterAuth

LEMMA SessionAfterSignupKeeps == ASSUME IInv, SessionAfterSignup PROVE IInv'
<1>1. At("leonardo", "session")
  BY DEF SessionAfterSignup
<1>2. ASSUME Goes("wait"), Quiet PROVE IInv'
  <2>1. client'.pc = "wait" /\ Alike(client, client') /\ site' = site /\ engine' = engine /\ row' = row
    BY <1>2, Went DEF Quiet, panel
  <2>2. LeonardoSound(client', site')
    BY <1>1, <2>1, AtLeonardo DEF LeonardoSound, Wanted, Alike, Again
  <2> QED BY <1>1, <2>1, <2>2, AtLeonardo, LeonardoTurns DEF Alike
<1>3. ASSUME site' = [site EXCEPT !.acct = "ours"], client' = [client EXCEPT !.pc = "ended", !.err = "ok"],
             UNCHANGED <<panel, mail>>
      PROVE  IInv'
  <2>1. SiteOK(site') /\ Has(site') /\ engine' = engine /\ row' = row /\ "ok" \in ErrorsOf["leonardo"]
    BY <1>1, <1>3, AtLeonardo, Errors DEF SiteOK, Has, panel
  <2> QED BY <1>1, <1>3, <2>1, Returned, AtLeonardo, Budgets, EndedOther
<1> QED BY <1>1, <1>2, <1>3 DEF SessionAfterSignup

\* The resend: the first one, or the one after a refused code.
LEMMA ResendCodeKeeps == ASSUME IInv, ResendCode PROVE IInv'
<1>1. At("leonardo", "resend") /\ site' = site /\ engine' = engine /\ row' = row
      /\ client' = [client EXCEPT !.pc = "wait", !.asked = @ + 1]
  BY DEF ResendCode, panel
<1>2. /\ AttemptOK(client') /\ client'.pc = "wait" /\ client'.err = client.err
      /\ client'.asked = client.asked + 1 /\ client'.notes = client.notes
  BY <1>1, AtLeonardo DEF AttemptOK, Fields
<1>3. client.asked <= Again(client) /\ Again(client) \in {0, 1} /\ Again(client') = Again(client)
  BY <1>1, <1>2, AtLeonardo DEF LeonardoSound, Wanted, Again
<1>4. LeonardoSound(client', site') /\ client'.asked <= Budget["leonardo"]
  BY <1>1, <1>2, <1>3, AtLeonardo, Budgets DEF LeonardoSound, Wanted
<1>5. Stage("leonardo", client', site')
  BY <1>4 DEF Stage
<1> QED BY <1>1, <1>2, <1>4, <1>5, AtLeonardo, OtherKeeps

\* A wait in vain ends the attempt.
LEMMA WaitLeonardoCodeKeeps == ASSUME IInv, WaitLeonardoCode PROVE IInv'
<1>1. At("leonardo", "wait")
  BY DEF WaitLeonardoCode
<1>2. ASSUME TakesCode("confirm") PROVE IInv'
  <2>1. client'.pc = "confirm" /\ Alike(client, client') /\ site' = site /\ engine' = engine /\ row' = row
    BY <1>2, TookCode DEF Quiet, panel
  <2>2. LeonardoSound(client', site')
    BY <1>1, <2>1, AtLeonardo DEF LeonardoSound, Wanted, Alike, Again
  <2> QED BY <1>1, <2>1, <2>2, AtLeonardo, LeonardoTurns DEF Alike
<1> QED BY <1>1, <1>2, LeonardoFails DEF WaitLeonardoCode

\* A refused code: one resend, or the end.
LEMMA UnconfirmedKeeps ==
  ASSUME IInv, At("leonardo", "confirm"), Unconfirmed, engine' = engine, row' = row, SiteOK(site'), Has(site) => Has(site')
  PROVE  IInv'
<1>1. CASE client' = [client EXCEPT !.pc = "ended", !.err = "other"]
  <2>1. "other" \in ErrorsOf["leonardo"]
    BY Errors
  <2> QED BY <1>1, <2>1, Returned, AtLeonardo, Budgets, EndedOther
<1>2. CASE /\ "retried" \notin client.notes
           /\ client' = [client EXCEPT !.pc = "mint", !.next = "resend", !.notes = @ \cup {"retried"}]
  <2>1. /\ AttemptOK(client') /\ client'.pc = "mint" /\ client'.next = "resend" /\ client'.err = client.err
        /\ client'.asked = client.asked /\ client'.notes = client.notes \cup {"retried"}
    BY <1>2, AtLeonardo DEF AttemptOK, Fields
  <2>2. client.asked <= 1
    BY <1>2, AtLeonardo DEF LeonardoSound, Again
  <2>3. LeonardoSound(client', site')
    BY <2>1, <2>2, AtLeonardo DEF LeonardoSound, Wanted, Again
  <2> QED BY <2>1, <2>3, AtLeonardo, LeonardoTurns
<1> QED BY <1>1, <1>2 DEF Unconfirmed

\* A code that counts confirms the account; a refused one is followed by one resend.
LEMMA ConfirmKeeps == ASSUME IInv, Confirm PROVE IInv'
<1>1. At("leonardo", "confirm") /\ engine' = engine /\ row' = row
  BY DEF Confirm, Quiet, panel
<1>2. Unconfirmed /\ Quiet => IInv'
  BY <1>1, UnconfirmedKeeps, AtLeonardo DEF Quiet
<1>3. ASSUME site.acct # "none", site' = [site EXCEPT !.acct = IF @ = "unconfirmed" THEN "ours" ELSE @],
             Goes("ensure") \/ Unconfirmed
      PROVE  IInv'
  <2>1. SiteOK(site') /\ Has(site')
    BY <1>1, <1>3, AtLeonardo DEF SiteOK, Has
  <2>2. CASE Goes("ensure")
    <3>1. client'.pc = "ensure" /\ Alike(client, client')
      BY <2>2, Went
    <3>2. LeonardoSound(client', site')
      BY <1>1, <2>1, <3>1, AtLeonardo DEF LeonardoSound, Wanted, Alike
    <3> QED BY <1>1, <2>1, <3>1, <3>2, LeonardoTurns DEF Alike
  <2> QED BY <1>1, <1>3, <2>1, <2>2, UnconfirmedKeeps
<1> QED BY <1>2, <1>3 DEF Confirm

\* A session is only asked for with an account.
LEMMA EnsureSessionKeeps == ASSUME IInv, EnsureSession PROVE IInv'
<1>1. At("leonardo", "ensure") /\ Has(site)
  BY AtLeonardo DEF EnsureSession, LeonardoSound
<1>2. ASSUME Quiet, client' = [client EXCEPT !.pc = "mint", !.next = "signin", !.rounds = 0] PROVE IInv'
  <2>1. /\ AttemptOK(client') /\ client'.pc = "mint" /\ client'.next = "signin" /\ client'.err = client.err
        /\ client'.asked = client.asked
    BY <1>1, <1>2, AtLeonardo DEF AttemptOK, Fields
  <2>2. LeonardoSound(client', site)
    BY <2>1 DEF LeonardoSound, Wanted
  <2> QED BY <1>1, <1>2, <2>1, <2>2, AtLeonardo, LeonardoTurns DEF Quiet, panel
<1> QED BY <1>1, <1>2, LeonardoEnds DEF EnsureSession

LEMMA SignInEmailKeeps == ASSUME IInv, SignInEmail PROVE IInv'
<1>1. At("leonardo", "signin") /\ client.next = "signin"
  BY AtLeonardo DEF SignInEmail, LeonardoSound
<1>2. ASSUME Quiet, client' = [client EXCEPT !.pc = "mint", !.rounds = 1] PROVE IInv'
  <2>1. /\ AttemptOK(client') /\ client'.pc = "mint" /\ client'.next = "signin" /\ client'.err = client.err
        /\ client'.asked = client.asked
    BY <1>1, <1>2, AtLeonardo DEF AttemptOK, Fields
  <2>2. LeonardoSound(client', site)
    BY <2>1 DEF LeonardoSound, Wanted
  <2> QED BY <1>1, <1>2, <2>1, <2>2, AtLeonardo, LeonardoTurns DEF Quiet, panel
<1> QED BY <1>1, <1>2, LeonardoEnds, LeonardoFails DEF SignInEmail, Exists, Has

\* Only an attempt without an error makes its row registered.
LEMMA LeonardoBookKeeps == ASSUME IInv, LeonardoBook PROVE IInv'
<1>1. Books("leonardo", LeonardoStatus) /\ client.err \in {"ok", "taken", "other"}
  BY Present, Errors DEF LeonardoBook, Books
<1>2. LeonardoStatus[client.err] # "registering" /\ (LeonardoStatus[client.err] = "registered" => client.err = "ok")
  BY <1>1 DEF LeonardoStatus
<1> QED BY <1>1, <1>2, BooksKeeps

LEMMA LeonardoKeeps == ASSUME IInv, LeonardoNext PROVE IInv'
BY LeonardoBeginKeeps, NewPageClientKeeps, MintCaptchaKeeps, SignupLegacyKeeps, LegacyRefusedKeeps, LegacyNotFoundKeeps,
   SignupBetterAuthKeeps, SessionAfterSignupKeeps, ResendCodeKeeps, WaitLeonardoCodeKeeps, ConfirmKeeps,
   EnsureSessionKeeps, SignInEmailKeeps, LeonardoBookKeeps DEF LeonardoNext

-----------------------------------------------------------------------------
(* Lovart: a code for the login and one for the challenge. *)

\* What is known of a Lovart attempt at l.
LEMMA AtLovart == ASSUME IInv, NEW l, At("lovart", l)
  PROVE  /\ row = "registering" /\ engine = "lovart" /\ client.pc = l /\ client.asked <= 2 /\ client.asked \in Nat
         /\ LovartSound(client, site) /\ AttemptOK(client) /\ SiteOK(site)
         /\ client.err = "ok" => Has(site)
BY Present, Budgets DEF Stage

LEMMA LovartFails == ASSUME IInv, NEW l, At("lovart", l), Fails("other") PROVE IInv'
<1>1. "other" \in ErrorsOf["lovart"]
  BY Errors
<1> QED BY <1>1, AtLovart, FailsOther

LEMMA LovartTurns ==
  ASSUME IInv, NEW l, At("lovart", l), Quiet,
         AttemptOK(client'), client'.pc # "ended", client'.err = client.err, client'.asked = client.asked,
         LovartSound(client', site)
  PROVE  IInv'
BY AtLovart, QuietKeeps DEF Stage

LEMMA LovartBeginKeeps == ASSUME IInv, LovartBegin PROVE IInv'
<1>1. client'.pc = "send" /\ client'.asked = 0
  BY Begun DEF LovartBegin
<1>2. Stage("lovart", client', site)
  BY <1>1 DEF Stage, LovartSound
<1> QED BY <1>2, BeginsKeeps DEF LovartBegin

\* A code is asked for; k and n are since when it counts and where it is wanted.
LEMMA LovartAsks ==
  ASSUME IInv, NEW l, At("lovart", l), NEW k, NEW n \in {"login", "verify"},
         Asks([client EXCEPT !.pc = "wait", !.since = k, !.next = n], "other"),
         client.asked <= 1, n = "login" => client.asked = 0
  PROVE  IInv'
<1>1. site' = site /\ engine' = engine /\ row' = row /\ UNCHANGED <<panel, site>>
  BY DEF Asks, panel
<1>0. client.asked \in Nat /\ client.asked + 1 <= Budget["lovart"]
  BY AtLovart, Budgets
<1>2. CASE client' = [[client EXCEPT !.pc = "wait", !.since = k, !.next = n] EXCEPT !.asked = @ + 1]
  <2>1. /\ AttemptOK(client') /\ client'.pc = "wait" /\ client'.err = client.err
        /\ client'.asked = client.asked + 1 /\ client'.next = n
    BY <1>2, AtLovart DEF AttemptOK, Fields
  <2>2. Stage("lovart", client', site')
    BY <1>0, <2>1 DEF Stage, LovartSound
  <2> QED BY <1>0, <1>1, <2>1, <2>2, AtLovart, OtherKeeps
<1>3. CASE client' = [client EXCEPT !.pc = "ended", !.err = "other", !.asked = @ + 1]
  <2>1. "other" \in ErrorsOf["lovart"]
    BY Errors
  <2> QED BY <1>0, <1>1, <1>3, <2>1, AtLovart, AskedInVain
<1> QED BY <1>2, <1>3 DEF Asks

\* The login's code is the first one asked for.
LEMMA SendLovartCodeKeeps == ASSUME IInv, SendLovartCode PROVE IInv'
<1>1. At("lovart", "send") /\ client.asked = 0
  BY AtLovart DEF SendLovartCode, LovartSound
<1>0. client.asked <= 1
  BY <1>1
<1>2. ASSUME NEW k, Asks([client EXCEPT !.pc = "wait", !.since = k, !.next = "login"], "other") PROVE IInv'
  BY <1>0, <1>1, <1>2, LovartAsks
<1>3. ASSUME Quiet, client' = [client EXCEPT !.tries = 1] PROVE IInv'
  <2>1. /\ AttemptOK(client') /\ client'.pc = client.pc /\ client'.next = client.next /\ client'.err = client.err
        /\ client'.asked = client.asked
    BY <1>1, <1>3, AtLovart DEF AttemptOK, Fields
  <2>2. LovartSound(client', site)
    BY <1>1, <2>1, AtLovart DEF LovartSound
  <2> QED BY <1>1, <1>3, <2>1, <2>2, AtLovart, LovartTurns
<1> QED BY <1>1, <1>2, <1>3, LovartFails DEF SendLovartCode

LEMMA WaitLovartCodeKeeps == ASSUME IInv, WaitLovartCode PROVE IInv'
<1>1. At("lovart", "wait")
  BY DEF WaitLovartCode
<1>2. ASSUME NEW i, Quiet, client' = [client EXCEPT !.pc = client.next, !.code = mail.inbox[i], !.rounds = i]
      PROVE  IInv'
  <2>1. /\ AttemptOK(client') /\ client'.pc = client.next /\ client'.next = client.next /\ client'.err = client.err
        /\ client'.asked = client.asked
    BY <1>1, <1>2, AtLovart DEF AttemptOK, Fields
  <2>2. client'.pc \in {"login", "verify"} /\ LovartSound(client', site)
    BY <1>1, <2>1, AtLovart DEF LovartSound
  <2> QED BY <1>1, <1>2, <2>1, <2>2, LovartTurns
<1> QED BY <1>1, <1>2, LovartFails DEF WaitLovartCode

\* A login makes the account, if there is none.
LEMMA LoggedInKeeps ==
  ASSUME IInv, NEW l, At("lovart", l), LoggedIn([client EXCEPT !.pc = "session"]) PROVE IInv'
<1>1. engine' = engine /\ row' = row /\ site' = [site EXCEPT !.acct = IF @ = "none" THEN "ours" ELSE @]
      /\ client' \in {[client EXCEPT !.pc = "session"], [client EXCEPT !.pc = "ended", !.err = "other"]}
  BY DEF LoggedIn, panel
<1>2. SiteOK(site') /\ Has(site')
  BY <1>1, AtLovart DEF SiteOK, Has
<1>3. CASE client' = [client EXCEPT !.pc = "session"]
  <2>1. AttemptOK(client') /\ client'.pc = "session" /\ client'.err = client.err /\ client'.asked = client.asked
    BY <1>3, AtLovart DEF AttemptOK, Fields
  <2>2. Stage("lovart", client', site')
    BY <1>2, <2>1 DEF Stage, LovartSound
  <2> QED BY <1>1, <1>2, <2>1, <2>2, AtLovart, Budgets, OtherKeeps
<1>4. CASE client' = [client EXCEPT !.pc = "ended", !.err = "other"]
  <2>1. "other" \in ErrorsOf["lovart"]
    BY Errors
  <2> QED BY <1>1, <1>2, <1>4, <2>1, Returned, AtLovart, Budgets, EndedOther
<1> QED BY <1>1, <1>3, <1>4

LEMMA LoginByCodeKeeps == ASSUME IInv, LoginByCode PROVE IInv'
<1>1. At("lovart", "login") /\ client.asked <= 1
  BY AtLovart DEF LoginByCode, LovartSound
<1>2. ASSUME Quiet, client' = [client EXCEPT !.notes = @ \cup {"fresh"}] \/ Goes("challenge") PROVE IInv'
  <2>1. /\ AttemptOK(client') /\ client'.pc \in {"login", "challenge"} /\ client'.err = client.err
        /\ client'.asked = client.asked
    BY <1>1, <1>2, AtLovart, Went DEF AttemptOK, Fields, Alike
  <2>2. LovartSound(client', site)
    BY <1>1, <2>1 DEF LovartSound
  <2> QED BY <1>1, <1>2, <2>1, <2>2, LovartTurns
<1> QED BY <1>1, <1>2, LovartFails, LoggedInKeeps DEF LoginByCode

\* The challenge's code is the second one asked for.
LEMMA SendLovartChallengeKeeps == ASSUME IInv, SendLovartChallenge PROVE IInv'
<1>1. At("lovart", "challenge") /\ client.asked <= 1
  BY AtLovart DEF SendLovartChallenge, LovartSound
<1>2. ASSUME NEW k, Asks([client EXCEPT !.pc = "wait", !.since = k, !.next = "verify"], "other") PROVE IInv'
  BY <1>1, <1>2, LovartAsks
<1> QED BY <1>1, <1>2, LovartFails DEF SendLovartChallenge

LEMMA LovartEnd == ASSUME IInv, ProbeSession \/ VerifyLovartChallenge PROVE IInv'
<1>1. "ok" \in ErrorsOf["lovart"]
  BY Errors
<1>2. At("lovart", "session") => Has(site)
  BY AtLovart DEF LovartSound
<1>3. At("lovart", "session") /\ Ends => IInv'
  BY <1>1, <1>2, AtLovart, FailsOther DEF Ends, Fails
<1> QED BY <1>3, LovartFails, LoggedInKeeps DEF ProbeSession, VerifyLovartChallenge

\* Only an attempt without an error makes its row registered.
LEMMA LovartBookKeeps == ASSUME IInv, LovartBook PROVE IInv'
<1>1. Books("lovart", LovartStatus) /\ client.err \in {"ok", "other"}
  BY Present, Errors DEF LovartBook, Books
<1>2. LovartStatus[client.err] # "registering" /\ (LovartStatus[client.err] = "registered" => client.err = "ok")
  BY <1>1 DEF LovartStatus
<1> QED BY <1>1, <1>2, BooksKeeps

LEMMA LovartKeeps == ASSUME IInv, LovartNext PROVE IInv'
BY LovartBeginKeeps, SendLovartCodeKeeps, WaitLovartCodeKeeps, LoginByCodeKeeps, SendLovartChallengeKeeps, LovartEnd,
   LovartBookKeeps DEF LovartNext

-----------------------------------------------------------------------------
(* Adobe: what its steps have in common. *)

\* What is known of an Adobe attempt at l.
LEMMA AtAdobe == ASSUME IInv, NEW l, At("adobe", l)
  PROVE  /\ row = "registering" /\ engine = "adobe" /\ client.pc = l /\ client.asked <= 2 /\ client.asked \in Nat
         /\ AdobeBacked(client, site) /\ AdobeFactor(client, site) /\ AdobeChallenges(client) /\ AdobePages(client)
         /\ AttemptOK(client) /\ SiteOK(site)
         /\ l # "ended" => client.err # "ok"
BY Present, Budgets DEF Stage, AdobeSound

\* The attempt ends; what became of the platform meanwhile does not matter.
LEMMA AdobeStops ==
  ASSUME IInv, NEW l, At("adobe", l), NEW e \in {"ok", "exists", "landing", "other"},
         client' = [client EXCEPT !.pc = "ended", !.err = e], UNCHANGED panel, SiteOK(site'),
         e = "ok" => Has(site')
  PROVE  IInv'
<1>1. e \in ErrorsOf[engine]
  BY AtAdobe, Errors
<1>2. engine' = engine /\ row' = row
  BY DEF panel
<1>3. client.asked <= Budget[engine]
  BY AtAdobe, Budgets
<1> QED BY <1>1, <1>2, <1>3, AtAdobe, Returned, EndedKeeps DEF Backed

\* An error ends the attempt and leaves the platform as it was.
LEMMA AdobeFails ==
  ASSUME IInv, NEW l, At("adobe", l), NEW e \in {"exists", "landing", "other"}, Fails(e) PROVE IInv'
<1>1. e \in ErrorsOf["adobe"] /\ e # "ok"
  BY Errors
<1> QED BY <1>1, AtAdobe, FailsKeeps

\* An attempt ends well where an account was created.
LEMMA AdobeEnds == ASSUME IInv, NEW l, At("adobe", l), l \in Created, Ends PROVE IInv'
<1>1. "ok" \in ErrorsOf["adobe"] /\ engine = "adobe" /\ Backed(client, site)
  BY AtAdobe, Errors DEF AdobeBacked, Looked, Backed
<1> QED BY <1>1, AtAdobe, FailsKeeps DEF Ends, Fails

\* The attempt goes on; the platform may have changed.
LEMMA AdobeTurns ==
  ASSUME IInv, NEW l, At("adobe", l), l # "ended", UNCHANGED panel, SiteOK(site'),
         AttemptOK(client'), client'.pc # "ended", client'.err = client.err, client'.asked <= 2,
         AdobeBacked(client', site'), AdobeFactor(client', site'), AdobeChallenges(client'),
         AdobePages(client')
  PROVE  IInv'
<1>1. engine' = engine /\ row' = row
  BY DEF panel
<1>2. Stage("adobe", client', site')
  BY DEF Stage, AdobeSound
<1> QED BY <1>1, <1>2, AtAdobe, Budgets, AttemptKeeps

\* The attempt goes on, and the platform is left alone.
LEMMA AdobeStays ==
  ASSUME IInv, NEW l, At("adobe", l), l # "ended", UNCHANGED <<panel, site>>,
         AttemptOK(client'), client'.pc # "ended", client'.err = client.err, client'.asked <= 2,
         AdobeBacked(client', site), AdobeFactor(client', site), AdobeChallenges(client'),
         AdobePages(client')
  PROVE  IInv'
BY AtAdobe, AdobeTurns

\* The ways from one place to the next that ask for nothing.
LEMMA AdobeGoes ==
  ASSUME IInv, NEW l, NEW m, At("adobe", l), UNCHANGED <<panel, site>>, Alike(client, client'), client'.pc = m,
         \/ l = "bootstrap" /\ m = "check"
         \/ l = "check" /\ m = "state"
         \/ l = "ims" /\ m = "land"
         \/ l = "land" /\ m = "restore"
         \/ l = "restore" /\ m = "rescue"
         \/ l = "rescue" /\ m = "pass"
         \/ l \in Factor /\ client.next = "ims" /\ m = "ims"
         \/ l = "code" /\ m = "put"
         \/ l = "open" /\ m = "step1"
         \/ l = "submit" /\ m = "signup"
         \/ l = "inject" /\ m \in {"submit", "unsolved"}
         \/ l = "probe" /\ m = "firefly"
         \/ l = "firefly" /\ m = "capture"
         \/ l = "capture" /\ m = "pass"
         \/ l = "verify" /\ m = "pin"
  PROVE  IInv'
<1>1. /\ AttemptOK(client') /\ client'.err = client.err /\ client'.notes = client.notes /\ client'.asked = client.asked
      /\ client'.token = client.token /\ client'.back = client.back /\ client'.next = client.next
  BY DEF Alike
<1>2. AdobeBacked(client', site)
  BY <1>1, AtAdobe DEF AdobeBacked, Created, Factor, CodeWait, Looked
<1>3. AdobeFactor(client', site)
  BY <1>1, AtAdobe DEF AdobeFactor, Factor
<1>4. AdobeChallenges(client')
  BY <1>1, AtAdobe DEF AdobeChallenges, Factor
<1>5. Again(client') = Again(client)
  BY <1>1 DEF Again
<1>6. AdobePages(client')
  BY <1>1, <1>5, AtAdobe DEF AdobePages, CodeWait, Factor
<1>7. client'.pc # "ended" /\ l # "ended"
  BY DEF Factor
<1> QED BY <1>1, <1>2, <1>3, <1>4, <1>6, <1>7, AtAdobe, AdobeStays

-----------------------------------------------------------------------------
(* The protocol engine: one challenge of the login, one of the relogin. *)

LEMMA AdobeBeginKeeps == ASSUME IInv, AdobeBegin PROVE IInv'
<1> SUFFICES ASSUME NEW s \in SUBSET Services, NEW l \in {"bootstrap", "open"}, Begins("adobe", l, s) PROVE IInv'
  BY DEF AdobeBegin
<1>1. client'.pc = l /\ client'.asked = 0 /\ client'.notes \subseteq {"yes", "two"} /\ site.facts = {}
  BY Begun DEF Services
<1>2. AdobeBacked(client', site) /\ AdobeFactor(client', site) /\ AdobeChallenges(client')
  BY <1>1 DEF AdobeBacked, AdobeFactor, AdobeChallenges, Created, Factor, CodeWait
<1>3. AdobePages(client')
  BY <1>1 DEF AdobePages, CodeWait
<1>4. Stage("adobe", client', site)
  BY <1>2, <1>3 DEF Stage, AdobeSound
<1> QED BY <1>4, BeginsKeeps

LEMMA BootstrapKeeps == ASSUME IInv, Bootstrap PROVE IInv'
BY Went, AdobeGoes, AdobeFails DEF Bootstrap, Quiet

LEMMA CheckAccountKeeps == ASSUME IInv, CheckAccount PROVE IInv'
BY Went, AdobeGoes, AdobeFails DEF CheckAccount, Quiet

\* With the signup's state, or with a challenge on the way to it.
LEMMA CreateSignupStateKeeps == ASSUME IInv, CreateSignupState PROVE IInv'
<1>1. At("adobe", "state")
  BY DEF CreateSignupState
<1>2. ASSUME client' = [client EXCEPT !.pc = "create", !.token = "signup"] \/ client' = Hired("create"), Quiet
      PROVE  IInv'
  <2>1. /\ AttemptOK(client') /\ client'.err = client.err /\ client'.notes = client.notes
        /\ client'.asked = client.asked
        /\ client'.pc = "create" \/ (client'.pc = "order" /\ client'.back = "create")
    BY <1>1, <1>2, AtAdobe DEF AttemptOK, Fields, Hired
  <2>2. AdobeBacked(client', site)
    BY <1>1, <2>1, AtAdobe DEF AdobeBacked, Created, Factor, CodeWait
  <2>3. AdobeFactor(client', site) /\ AdobeChallenges(client')
    BY <1>1, <2>1, AtAdobe DEF AdobeFactor, AdobeChallenges, Factor
  <2>4. AdobePages(client')
    BY <1>1, <2>1, AtAdobe DEF AdobePages, AdobeChallenges, CodeWait
  <2> QED BY <1>1, <1>2, <2>1, <2>2, <2>3, <2>4, AtAdobe, AdobeStays DEF Quiet
<1> QED BY <1>1, <1>2, AdobeFails DEF CreateSignupState

LEMMA SignupUnsolvedKeeps == ASSUME IInv, SignupUnsolved PROVE IInv'
BY AdobeFails DEF SignupUnsolved

\* The platform has a new account of the address.
LEMMA Founded ==
  ASSUME IInv, NEW a \in {"ours", "foreign"}, site' = [site EXCEPT !.acct = a]
  PROVE  SiteOK(site') /\ Has(site') /\ site'.facts = site.facts
BY DEF IInv, SiteOK, Has

\* The account is made here, or somebody else's is found.
LEMMA CreateAdobeAccountKeeps == ASSUME IInv, CreateAdobeAccount PROVE IInv'
<1>1. At("adobe", "create")
  BY DEF CreateAdobeAccount
<1>2. ASSUME NEW a \in {"ours", "foreign"}, NEW e \in {"exists", "other"}, site' = [site EXCEPT !.acct = a],
             client' = [client EXCEPT !.pc = "ended", !.err = e], UNCHANGED <<panel, mail>>
      PROVE  IInv'
  BY <1>1, <1>2, Founded, AdobeStops
<1>3. ASSUME site' = [site EXCEPT !.acct = "ours"], client' = Solved("login"), UNCHANGED <<panel, mail>>
      PROVE  IInv'
  <2>1. /\ AttemptOK(client') /\ client'.err = client.err /\ client'.notes = {}
        /\ client'.asked = client.asked /\ client'.pc = "login"
    BY <1>1, <1>3, AtAdobe DEF AttemptOK, Fields, Solved
  <2>2. SiteOK(site') /\ Has(site') /\ site'.facts = site.facts
    BY <1>3, Founded
  <2>3. AdobeBacked(client', site')
    BY <2>1, <2>2 DEF AdobeBacked, Created, Factor, CodeWait, Looked
  <2>4. AdobeFactor(client', site') /\ AdobeChallenges(client')
    BY <1>1, <2>1, <2>2, AtAdobe DEF AdobeFactor, AdobeChallenges, Factor
  <2>5. AdobePages(client')
    BY <2>1 DEF AdobePages, CodeWait
  <2> QED BY <1>1, <1>3, <2>1, <2>2, <2>3, <2>4, <2>5, AtAdobe, AdobeTurns
<1> QED BY <1>1, <1>2, <1>3, AdobeFails DEF CreateAdobeAccount

\* Before a code was accepted a challenge leaves the platform as it was.
LEMMA FirstChallenge ==
  ASSUME IInv, "accepted" \notin site.facts, NEW on, Challenged(on)
  PROVE  UNCHANGED <<panel, site>> /\ client' = on
<1>1. {"again" : x \in site.facts \cap {"accepted"}} = {}
  OBVIOUS
<1>2. site' = [site EXCEPT !.facts = @ \cup {"again" : x \in @ \cap {"accepted"}}]
  BY DEF Challenged
<1>3. site' = [site EXCEPT !.facts = site.facts \cup {}]
  BY <1>1, <1>2
<1>4. site' = site
  BY <1>3 DEF IInv, SiteOK
<1> QED BY <1>4 DEF Challenged

\* The second factor begins, for the login (next is where it goes on).
LEMMA FactorKeeps ==
  ASSUME IInv, NEW l \in {"login", "relogin"}, At("adobe", l), UNCHANGED <<panel, site>>, NEW n \in {"ims", "relogin"},
         client' = [client EXCEPT !.pc = "mfa", !.next = n], n = "relogin" => l = "login"
  PROVE  IInv'
<1>1. /\ AttemptOK(client') /\ client'.err = client.err /\ client'.notes = client.notes
      /\ client'.asked = client.asked /\ client'.pc = "mfa" /\ client'.next = n
  BY AtAdobe DEF AttemptOK, Fields
<1>2. AdobeBacked(client', site)
  BY <1>1, AtAdobe DEF AdobeBacked, Created, Factor, CodeWait, Looked
<1>3. AdobeFactor(client', site)
  BY <1>1, AtAdobe DEF AdobeFactor, Factor
<1>4. AdobeChallenges(client')
  BY <1>1, AtAdobe DEF AdobeChallenges, Factor
<1>5. AdobePages(client')
  BY <1>1, AtAdobe DEF AdobePages, CodeWait
<1> QED BY <1>1, <1>2, <1>3, <1>4, <1>5, AtAdobe, AdobeStays

\* The first login: no code was accepted yet, so the challenge is no repetition.
LEMMA PasswordLoginKeeps == ASSUME IInv, PasswordLogin PROVE IInv'
<1>1. At("adobe", "login") /\ "accepted" \notin site.facts
  BY AtAdobe DEF PasswordLogin, AdobeFactor
<1>2. ASSUME NEW n \in {"ims", "relogin"}, client' = [client EXCEPT !.pc = "mfa", !.next = n],
             UNCHANGED <<panel, site>>
      PROVE  IInv'
  BY <1>1, <1>2, FactorKeeps
<1>3. CASE client' = [client EXCEPT !.pc = "mfa", !.next = "ims"] /\ Quiet
  BY <1>2, <1>3 DEF Quiet
<1>4. CASE Challenged([client EXCEPT !.pc = "mfa", !.next = "relogin"])
  BY <1>1, <1>2, <1>4, FirstChallenge
<1> QED BY <1>1, <1>3, <1>4, AdobeFails DEF PasswordLogin

\* The relogin shows the state of the accepted code and is let in.
LEMMA LoginAgainKeeps == ASSUME IInv, LoginAgain PROVE IInv'
<1>1. At("adobe", "relogin") /\ client.token = "mfa"
  BY AtAdobe DEF LoginAgain, AdobeFactor
<1>2. CASE client' = [client EXCEPT !.pc = "mfa", !.next = "ims"] /\ Quiet
  BY <1>1, <1>2, FactorKeeps DEF Quiet
<1> QED BY <1>1, <1>2, AdobeFails DEF LoginAgain

\* The second factor is given up: fatal for the login, ignored afterwards.
LEMMA GivesUpKeeps ==
  ASSUME IInv, NEW l \in Factor, At("adobe", l), UNCHANGED <<panel, site>>, client' = GivesUp(client)
  PROVE  IInv'
<1>1. client.next \in {"ims", "relogin"}
  BY AtAdobe DEF AdobeBacked
<1>2. CASE client' = [client EXCEPT !.pc = "ended", !.err = "other"]
  <2>1. SiteOK(site')
    BY AtAdobe DEF IInv, SiteOK
  <2> QED BY <1>2, <2>1, AdobeStops
<1>3. CASE client.next = "ims" /\ Goes("ims")
  BY <1>3, Went, AdobeGoes
<1> QED BY <1>1, <1>2, <1>3 DEF GivesUp, Goes

\* The second factor goes on, with one challenge more or none.
LEMMA FactorGoes ==
  ASSUME IInv, NEW l, NEW m, At("adobe", l), UNCHANGED <<panel, site>>, AttemptOK(client'), client'.pc = m,
         client'.err = client.err, client'.notes = client.notes, client'.next = client.next,
         \/ l = "mfa" /\ m = "challenge" /\ client'.asked = client.asked
         \/ l = "challenge" /\ m = "code" /\ client'.asked = client.asked + 1
  PROVE  IInv'
<1>1. AdobeBacked(client', site)
  BY AtAdobe DEF AdobeBacked, Created, Factor, CodeWait, Looked
<1>2. AdobeFactor(client', site)
  BY AtAdobe DEF AdobeFactor, Factor
<1>3. AdobeChallenges(client') /\ client'.asked <= 2
  BY AtAdobe DEF AdobeChallenges, Factor
<1>4. AdobePages(client')
  BY AtAdobe DEF AdobePages, CodeWait
<1>5. client'.pc # "ended"
  OBVIOUS
<1> QED BY <1>1, <1>2, <1>3, <1>4, <1>5, AtAdobe, AdobeStays

\* The state for the second factor, or the session's when it is refused.
LEMMA CreateMFAStateKeeps == ASSUME IInv, CreateMFAState PROVE IInv'
<1>1. At("adobe", "mfa") /\ UNCHANGED <<panel, site>>
  BY DEF CreateMFAState, Quiet
<1>2. ASSUME client' = [client EXCEPT !.pc = "challenge", !.token = "login"] \/ client' = [client EXCEPT !.pc = "challenge"]
      PROVE  IInv'
  <2>1. /\ AttemptOK(client') /\ client'.pc = "challenge" /\ client'.err = client.err
        /\ client'.notes = client.notes /\ client'.asked = client.asked /\ client'.next = client.next
    BY <1>1, <1>2, AtAdobe DEF AttemptOK, Fields
  <2> QED BY <1>1, <2>1, FactorGoes
<1>3. "mfa" \in Factor
  BY DEF Factor
<1> QED BY <1>1, <1>2, <1>3, GivesUpKeeps DEF CreateMFAState

\* A challenge is asked for: one for the login, one after it.
LEMMA SendChallengeKeeps == ASSUME IInv, SendChallenge PROVE IInv'
<1>1. At("adobe", "challenge") /\ UNCHANGED <<panel, site>>
  BY DEF SendChallenge
<1>2. CASE client' = [client EXCEPT !.pc = "code", !.asked = @ + 1]
  <2>1. /\ AttemptOK(client') /\ client'.pc = "code" /\ client'.err = client.err
        /\ client'.notes = client.notes /\ client'.asked = client.asked + 1 /\ client'.next = client.next
    BY <1>1, <1>2, AtAdobe DEF AttemptOK, Fields
  <2> QED BY <1>1, <2>1, FactorGoes
<1>3. "challenge" \in Factor
  BY DEF Factor
<1> QED BY <1>1, <1>2, <1>3, GivesUpKeeps DEF SendChallenge

LEMMA WaitAdobeCodeKeeps == ASSUME IInv, WaitAdobeCode PROVE IInv'
<1>1. At("adobe", "code") /\ "code" \in Factor
  BY DEF WaitAdobeCode, Factor
<1>2. CASE TakesCode("put")
  BY <1>1, <1>2, TookCode, AdobeGoes DEF Quiet
<1>3. CASE client' = GivesUp(client) /\ Quiet
  BY <1>1, <1>3, GivesUpKeeps DEF Quiet
<1> QED BY <1>2, <1>3 DEF WaitAdobeCode

\* The platform notes a fact of the attempt.
LEMMA Noted ==
  ASSUME IInv, NEW f \in {"accepted"}, site' = [site EXCEPT !.facts = @ \cup {f}]
  PROVE  SiteOK(site') /\ (Has(site') <=> Has(site)) /\ site'.facts = site.facts \cup {f}
BY DEF IInv, SiteOK, Has

\* The accepted code: its state is kept before the relogin needs it.
LEMMA PutCodeKeeps == ASSUME IInv, PutCode PROVE IInv'
<1>1. At("adobe", "put") /\ "put" \in Factor /\ client.next \in {"ims", "relogin"}
  BY AtAdobe DEF PutCode, Factor, AdobeBacked
<1>2. ASSUME client' = [AfterPut(client) EXCEPT !.pc = client.next], UNCHANGED <<panel, mail>>,
             site' = [site EXCEPT !.facts = @ \cup {"accepted"}]
      PROVE  IInv'
  <2>1. /\ AttemptOK(client') /\ client'.pc = client.next /\ client'.err = client.err /\ client'.token = "mfa"
        /\ client'.notes = client.notes /\ client'.asked = client.asked
    BY <1>1, <1>2, AtAdobe DEF AttemptOK, Fields, AfterPut
  <2>2. SiteOK(site') /\ (Has(site') <=> Has(site)) /\ site'.facts = site.facts \cup {"accepted"}
    BY <1>2, Noted
  <2>3. AdobeBacked(client', site')
    BY <1>1, <2>1, <2>2, AtAdobe DEF AdobeBacked, Created, Factor, CodeWait, Looked
  <2>4. AdobeFactor(client', site')
    BY <1>1, <2>1, <2>2 DEF AdobeFactor, Factor
  <2>5. AdobeChallenges(client')
    BY <1>1, <2>1, AtAdobe DEF AdobeChallenges, Factor
  <2>6. AdobePages(client')
    BY <1>1, <2>1, <2>2, AtAdobe DEF AdobePages, CodeWait
  <2> QED BY <1>1, <1>2, <2>1, <2>2, <2>3, <2>4, <2>5, <2>6, AtAdobe, AdobeTurns
<1>3. CASE client' = GivesUp(client) /\ Quiet
  BY <1>1, <1>3, GivesUpKeeps DEF Quiet
<1> QED BY <1>2, <1>3 DEF PutCode

LEMMA IMSTokenKeeps == ASSUME IInv, IMSToken PROVE IInv'
BY Went, AdobeGoes, AdobeFails DEF IMSToken, Quiet

LEMMA FromSusiKeeps == ASSUME IInv, FromSusi PROVE IInv'
BY Went, AdobeGoes, AdobeFails DEF FromSusi, Quiet

LEMMA RestoreAfterSignupKeeps == ASSUME IInv, RestoreAfterSignup PROVE IInv'
<1>1. At("adobe", "restore") /\ "restore" \in Created
  BY DEF RestoreAfterSignup, Created
<1> QED BY <1>1, Went, AdobeGoes, AdobeEnds DEF RestoreAfterSignup, Quiet

\* Only an attempt without an error makes its row registered.
LEMMA AdobeBookKeeps == ASSUME IInv, AdobeBook PROVE IInv'
<1>1. client.err \in {"ok", "exists", "landing", "other"}
  BY Present, Errors DEF AdobeBook, Books
<1>2. AdobeStatus[client.err] # "registering" /\ (AdobeStatus[client.err] = "registered" => client.err = "ok")
  BY <1>1 DEF AdobeStatus
<1> QED BY <1>2, BooksKeeps DEF AdobeBook

LEMMA AdobeKeeps == ASSUME IInv, AdobeNext PROVE IInv'
BY AdobeBeginKeeps, BootstrapKeeps, CheckAccountKeeps, CreateSignupStateKeeps, SignupUnsolvedKeeps,
   CreateAdobeAccountKeeps, PasswordLoginKeeps, LoginAgainKeeps, CreateMFAStateKeeps, SendChallengeKeeps,
   WaitAdobeCodeKeeps, PutCodeKeeps, IMSTokenKeeps, FromSusiKeeps, RestoreAfterSignupKeeps, AdobeBookKeeps
   DEF AdobeNext

-----------------------------------------------------------------------------
(* The captcha solvers: a challenge is at the solver or back, and asks for *)
(* no mail.                                                                *)

\* The attempt is on with its challenge, as it was before it.
LEMMA ChallengeKeeps ==
  ASSUME IInv, NEW l \in {"order", "poll"}, At("adobe", l), Quiet, AttemptOK(client'),
         client'.pc \in {"order", "poll", "unsolved", client.back}, client'.err = client.err,
         client'.notes = client.notes, client'.asked = client.asked, client'.back = client.back
  PROVE  IInv'
<1>1. client.back \in {"create", "inject"}
  BY AtAdobe DEF AdobeBacked
<1>2. AdobeBacked(client', site)
  BY <1>1, AtAdobe DEF AdobeBacked, Created, Factor, CodeWait, Looked
<1>3. AdobeFactor(client', site)
  BY <1>1, AtAdobe DEF AdobeFactor, Factor
<1>4. AdobeChallenges(client')
  BY <1>1, AtAdobe DEF AdobeChallenges, Factor
<1>5. AdobePages(client')
  BY <1>1, AtAdobe DEF AdobePages, CodeWait
<1>6. client'.pc # "ended"
  BY <1>1
<1> QED BY <1>2, <1>3, <1>4, <1>5, <1>6, AtAdobe, AdobeStays DEF Quiet

\* What the solver's steps change of an attempt.
SameTask(c, d) ==
    /\ DOMAIN d = Fields /\ d.err = c.err /\ d.notes = c.notes /\ d.asked = c.asked /\ d.back = c.back

\* A task that fails is handed on, submitted again or over.
LEMMA TaskFailed ==
  ASSUME NEW c, DOMAIN c = Fields, TaskFails(c)
  PROVE  SameTask(c, client') /\ client'.pc \in {"order", "unsolved"}
BY DEF TaskFails, FallsBack, SubmitsAgain, Over, SameTask, Fields

\* A task is ordered, handed on or given up.
LEMMA OrderTaskKeeps == ASSUME IInv, OrderTask PROVE IInv'
<1>1. At("adobe", "order") /\ Quiet
  BY DEF OrderTask
<1>2. PICK n : LET c == [client EXCEPT !.solves = n] IN client' = [c EXCEPT !.pc = "poll"] \/ TaskFails(c)
  BY DEF OrderTask
<1> DEFINE c == [client EXCEPT !.solves = n]
<1>3. SameTask(client, c)
  BY <1>1, AtAdobe DEF SameTask, AttemptOK, Fields
<1> HIDE DEF c
<1>4. CASE client' = [c EXCEPT !.pc = "poll"]
  <2>1. SameTask(c, client') /\ client'.pc = "poll"
    BY <1>3, <1>4 DEF SameTask, Fields
  <2> QED BY <1>1, <1>3, <2>1, AtAdobe, ChallengeKeeps DEF SameTask, AttemptOK
<1>5. CASE TaskFails(c)
  <2>1. SameTask(c, client') /\ client'.pc \in {"order", "unsolved"}
    BY <1>3, <1>5, TaskFailed DEF SameTask
  <2> QED BY <1>1, <1>3, <2>1, AtAdobe, ChallengeKeeps DEF SameTask, AttemptOK
<1> QED BY <1>2, <1>4, <1>5 DEF c

\* A task is solved, handed on or given up.
LEMMA PollTaskKeeps == ASSUME IInv, PollTask PROVE IInv'
<1>1. At("adobe", "poll") /\ Quiet
  BY DEF PollTask
<1>2. SameTask(client, client') /\ client'.pc \in {"order", "unsolved", client.back}
  <2>1. CASE client' = Over(client, client.back)
    BY <1>1, <2>1, AtAdobe DEF Over, SameTask, AttemptOK, Fields
  <2>2. CASE TaskFails(client)
    BY <1>1, <2>2, AtAdobe, TaskFailed DEF AttemptOK
  <2> QED BY <2>1, <2>2 DEF PollTask
<1> QED BY <1>1, <1>2, AtAdobe, ChallengeKeeps DEF SameTask, AttemptOK

LEMMA CaptchaKeeps == ASSUME IInv, CaptchaNext PROVE IInv'
BY OrderTaskKeeps, PollTaskKeeps DEF CaptchaNext

-----------------------------------------------------------------------------
(* The browser engine: a resend for each visit of a code page. *)

LEMMA OpenFormKeeps == ASSUME IInv, OpenForm PROVE IInv'
BY Went, AdobeGoes, AdobeFails DEF OpenForm, GivesIn, Quiet

Form == {"step1", "submit", "inject", "signup", "unsolved"}    \* fillStep1, submitAndAdvance, completeSignup

\* The form goes on, or hands its challenge to the solver.
LEMMA FormKeeps ==
  ASSUME IInv, NEW l \in Form, At("adobe", l), Quiet, AttemptOK(client'),
         client'.pc \in Form \/ (client'.pc = "order" /\ client'.back = "inject"),
         client'.err = client.err, client'.asked = client.asked,
         client'.notes \in {client.notes, client.notes \cup {"secondaryOnly"}}
  PROVE  IInv'
<1>1. AdobeBacked(client', site)
  BY AtAdobe DEF AdobeBacked, Created, Factor, CodeWait, Form
<1>2. AdobeFactor(client', site) /\ AdobeChallenges(client')
  BY DEF AdobeFactor, AdobeChallenges, Factor, Form
<1>3. AdobePages(client')
  BY AtAdobe DEF AdobePages, CodeWait, Form
<1>4. client'.pc # "ended" /\ l # "ended"
  BY DEF Form
<1> QED BY <1>1, <1>2, <1>3, <1>4, AtAdobe, AdobeStays DEF Quiet

\* The first step is tried again, or ends the signup.
LEMMA Step1AgainKeeps == ASSUME IInv, NEW l \in Form, At("adobe", l), Step1Again PROVE IInv'
<1>1. CASE client' = [client EXCEPT !.pc = "step1", !.tries = @ + 1]
  <2>1. /\ AttemptOK(client') /\ client'.pc = "step1" /\ client'.err = client.err
        /\ client'.asked = client.asked /\ client'.notes = client.notes
    BY <1>1, AtAdobe DEF AttemptOK, Fields
  <2>2. client'.pc \in Form
    BY <2>1 DEF Form
  <2> QED BY <2>1, <2>2, FormKeeps DEF Step1Again
<1>2. CASE client' = [client EXCEPT !.pc = "ended", !.err = "other"]
  BY <1>2, AdobeFails DEF Step1Again, Fails
<1> QED BY <1>1, <1>2 DEF Step1Again

LEMMA FillStep1Keeps == ASSUME IInv, FillStep1 PROVE IInv'
<1>1. At("adobe", "step1") /\ "step1" \in Form /\ "submit" \in Form
  BY DEF FillStep1, Form
<1>2. ASSUME client' = [client EXCEPT !.pc = "submit", !.token = "step1", !.rounds = 0], Quiet PROVE IInv'
  <2>1. /\ AttemptOK(client') /\ client'.pc = "submit" /\ client'.err = client.err
        /\ client'.asked = client.asked /\ client'.notes = client.notes
    BY <1>1, <1>2, AtAdobe DEF AttemptOK, Fields
  <2> QED BY <1>1, <1>2, <2>1, FormKeeps
<1> QED BY <1>1, <1>2, AdobeFails, Step1AgainKeeps DEF FillStep1

\* The form goes on; the platform may have made the account on the way.
LEMMA Making == ASSUME IInv, MaybeMade PROVE SiteOK(site') /\ site'.facts = site.facts
BY DEF IInv, SiteOK, MaybeMade

LEMMA AdvanceKeeps == ASSUME IInv, Advance PROVE IInv'
<1>1. At("adobe", "submit") /\ UNCHANGED panel
  BY DEF Advance
<1>2. /\ AttemptOK(client') /\ client'.pc = "signup" /\ client'.err = client.err
      /\ client'.asked = client.asked /\ client'.notes = client.notes
  BY <1>1, AtAdobe DEF Advance, AttemptOK, Fields
<1>3. SiteOK(site')
  BY <1>1, AtAdobe, Making DEF Advance, IInv, SiteOK
<1>4. AdobeBacked(client', site')
  BY <1>2 DEF AdobeBacked, Created, Factor, CodeWait
<1>5. AdobeFactor(client', site') /\ AdobeChallenges(client')
  BY <1>2 DEF AdobeFactor, AdobeChallenges, Factor
<1>6. AdobePages(client')
  BY <1>1, <1>2, AtAdobe DEF AdobePages, CodeWait
<1> QED BY <1>1, <1>2, <1>3, <1>4, <1>5, <1>6, AtAdobe, AdobeTurns

\* A challenge of the form goes to the solver, or stays unsolved.
LEMMA PuzzleKeeps == ASSUME IInv, Puzzle PROVE IInv'
<1>1. At("adobe", "submit") /\ Quiet /\ "submit" \in Form
  BY DEF Puzzle, Form
<1>2. CASE client' = [client EXCEPT !.pc = "unsolved", !.back = "inject"]
  <2>1. /\ AttemptOK(client') /\ client'.pc = "unsolved" /\ client'.err = client.err
        /\ client'.asked = client.asked /\ client'.notes = client.notes
    BY <1>1, <1>2, AtAdobe DEF AttemptOK, Fields
  <2>2. client'.pc \in Form
    BY <2>1 DEF Form
  <2> QED BY <1>1, <2>1, <2>2, FormKeeps
<1>3. CASE client' = [Hired("inject") EXCEPT !.rounds = @ + 1]
  <2>1. /\ AttemptOK(client') /\ client'.pc = "order" /\ client'.back = "inject" /\ client'.err = client.err
        /\ client'.asked = client.asked /\ client'.notes = client.notes
    BY <1>1, <1>3, AtAdobe DEF AttemptOK, Fields, Hired
  <2> QED BY <1>1, <2>1, FormKeeps
<1> QED BY <1>2, <1>3 DEF Puzzle

\* A token is refused, and the other service preferred.
LEMMA InjectTokenKeeps == ASSUME IInv, InjectToken PROVE IInv'
<1>1. At("adobe", "inject") /\ Quiet /\ "inject" \in Form /\ "submit" \in Form
  BY DEF InjectToken, Form
<1>2. CASE client' = [client EXCEPT !.pc = "submit", !.notes = @ \cup {"secondaryOnly"}]
  <2>1. /\ AttemptOK(client') /\ client'.pc = "submit" /\ client'.err = client.err
        /\ client'.asked = client.asked /\ client'.notes = client.notes \cup {"secondaryOnly"}
    BY <1>1, <1>2, AtAdobe DEF AttemptOK, Fields
  <2> QED BY <1>1, <2>1, FormKeeps
<1>3. ASSUME NEW m \in {"submit", "unsolved"}, Goes(m) PROVE IInv'
  BY <1>1, <1>3, Went, AdobeGoes DEF Quiet
<1> QED BY <1>2, <1>3 DEF InjectToken

LEMMA BrowserUnsolvedKeeps == ASSUME IInv, BrowserUnsolved PROVE IInv'
<1>1. At("adobe", "unsolved") /\ "unsolved" \in Form
  BY DEF BrowserUnsolved, Form
<1> QED BY <1>1, AdobeFails, Step1AgainKeeps DEF BrowserUnsolved, GivesIn

\* A profile whose answer is lost may have made the account.
LEMMA SubmitTimesOutKeeps == ASSUME IInv, SubmitTimesOut PROVE IInv'
<1>1. At("adobe", "submit") /\ "submit" \in Form
  BY DEF SubmitTimesOut, Form
<1>2. CASE Fails("exists") \/ Step1Again
  BY <1>1, <1>2, AdobeFails, Step1AgainKeeps
<1>3. ASSUME client' = [client EXCEPT !.pc = "ended", !.err = "other"], UNCHANGED <<panel, mail>>, MaybeMade
      PROVE  IInv'
  BY <1>1, <1>3, Making, AdobeStops
<1> QED BY <1>2, <1>3 DEF SubmitTimesOut

\* A page that mails a code opens (next is where its caller goes on).
LEMMA PageKeeps ==
  ASSUME IInv, NEW l, At("adobe", l), UNCHANGED <<panel, site>>, AttemptOK(client'), client'.pc = "verify",
         client'.err = client.err, client'.asked = 0,
         \/ l = "signup" /\ client'.next = "signup" /\ client'.notes = client.notes
         \/ l = "firefly" /\ client'.next = "capture" /\ client'.notes = client.notes
         \/ l = "ride" /\ client'.next = client.next /\ client'.notes = client.notes \cup {"riding"}
  PROVE  IInv'
<1>1. "retried" \notin client.notes /\ "riding" \notin client.notes
  BY AtAdobe DEF AdobePages, CodeWait
<1>2. Again(client') = 0
  BY <1>1 DEF Again
<1>3. AdobeBacked(client', site)
  BY AtAdobe DEF AdobeBacked, Created, Factor, CodeWait, Looked
<1>4. AdobeFactor(client', site) /\ AdobeChallenges(client')
  BY DEF AdobeFactor, AdobeChallenges, Factor
<1>5. AdobePages(client')
  BY <1>1, <1>2, AtAdobe DEF AdobePages, AdobeBacked, CodeWait
<1>6. client'.pc # "ended" /\ client'.asked <= 2 /\ l # "ended"
  OBVIOUS
<1> QED BY <1>3, <1>4, <1>5, <1>6, AtAdobe, AdobeStays

\* Whatever page comes next: one that looks like the end without an account
\* is noted.
LEMMA SignupStepKeeps == ASSUME IInv, SignupStep PROVE IInv'
<1>1. At("adobe", "signup") /\ "signup" \in Form /\ "submit" \in Form
  BY DEF SignupStep, Form
<1>2. ASSUME client' = [Solved("probe") EXCEPT !.notes = IF Exists THEN {} ELSE {"looked"}], Quiet PROVE IInv'
  <2>1. /\ AttemptOK(client') /\ client'.pc = "probe" /\ client'.err = client.err
        /\ client'.asked = client.asked /\ client'.notes = IF Exists THEN {} ELSE {"looked"}
    BY <1>1, <1>2, AtAdobe DEF AttemptOK, Fields, Solved
  <2>2. Looked(client', site)
    BY <2>1 DEF Looked, Has, Exists
  <2>3. AdobeBacked(client', site)
    BY <2>1, <2>2 DEF AdobeBacked, Created, Factor, CodeWait, Looked
  <2>4. AdobeFactor(client', site) /\ AdobeChallenges(client')
    BY <2>1 DEF AdobeFactor, AdobeChallenges, Factor
  <2>5. AdobePages(client')
    BY <2>1 DEF AdobePages, CodeWait
  <2> QED BY <1>1, <1>2, <2>1, <2>3, <2>4, <2>5, AtAdobe, AdobeStays DEF Quiet
<1>3. ASSUME client' = [client EXCEPT !.pc = "submit", !.token = "step2", !.rounds = 0], Quiet PROVE IInv'
  <2>1. /\ AttemptOK(client') /\ client'.pc = "submit" /\ client'.err = client.err
        /\ client'.asked = client.asked /\ client'.notes = client.notes
    BY <1>1, <1>3, AtAdobe DEF AttemptOK, Fields
  <2> QED BY <1>1, <1>3, <2>1, FormKeeps
<1>4. ASSUME CodePage("signup") PROVE IInv'
  <2>1. /\ AttemptOK(client') /\ client'.pc = "verify" /\ client'.err = client.err
        /\ client'.asked = 0 /\ client'.notes = client.notes /\ client'.next = "signup"
    BY <1>1, <1>4, AtAdobe DEF AttemptOK, Fields, CodePage
  <2>2. UNCHANGED <<panel, site>>
    BY <1>4 DEF CodePage
  <2> QED BY <1>1, <1>4, <2>1, <2>2, PageKeeps
<1> QED BY <1>1, <1>2, <1>3, <1>4, AdobeFails DEF SignupStep, GivesIn

\* A code page is left for its caller.
LEMMA ReturnsKeeps ==
  ASSUME IInv, NEW l \in CodeWait, At("adobe", l), client' = Returns, Quiet PROVE IInv'
<1>1. /\ AttemptOK(client') /\ client'.pc = client.next /\ client'.err = client.err
      /\ client'.asked = client.asked /\ client'.notes = client.notes \ {"riding", "retried"}
      /\ client'.next = client.next
  BY AtAdobe DEF AttemptOK, Fields, Returns
<1>2. client.next \in {"signup", "capture", "firefly", "done"} /\ (client.next # "signup" => Looked(client, site))
  BY AtAdobe DEF AdobeBacked
<1>3. Looked(client, site) => Looked(client', site)
  BY <1>1 DEF Looked
<1>4. AdobeBacked(client', site)
  BY <1>1, <1>2, <1>3 DEF AdobeBacked, Created, Factor, CodeWait
<1>5. AdobeFactor(client', site) /\ AdobeChallenges(client')
  BY <1>1, <1>2 DEF AdobeFactor, AdobeChallenges, Factor
<1>6. AdobePages(client')
  BY <1>1, <1>2 DEF AdobePages, CodeWait
<1>7. client'.pc # "ended" /\ l # "ended"
  BY <1>1, <1>2 DEF CodeWait
<1> QED BY <1>1, <1>4, <1>5, <1>6, <1>7, AtAdobe, AdobeStays DEF Quiet

\* A code page that fails: an error of the signup, nothing for a check.
LEMMA NotVerifiedKeeps == ASSUME IInv, NEW l \in CodeWait, At("adobe", l), NotVerified PROVE IInv'
<1>1. CASE "riding" \in client.notes
  BY <1>1, ReturnsKeeps DEF NotVerified
<1>2. CASE "riding" \notin client.notes
  BY <1>2, AdobeFails DEF NotVerified, GivesIn
<1> QED BY <1>1, <1>2

LEMMA VerifyWaitKeeps == ASSUME IInv, VerifyWait PROVE IInv'
<1>1. At("adobe", "verify") /\ "verify" \in CodeWait
  BY DEF VerifyWait, CodeWait
<1>2. CASE TakesCode("pin")
  BY <1>1, <1>2, TookCode, AdobeGoes DEF Quiet
<1>3. CASE client' = Returns /\ Quiet
  BY <1>1, <1>3, ReturnsKeeps
<1> QED BY <1>1, <1>2, <1>3, NotVerifiedKeeps DEF VerifyWait

\* A check that resends in vain returns to its caller.
LEMMA RideWaitAgainKeeps == ASSUME IInv, RideWaitAgain PROVE IInv'
<1>1. At("adobe", "verify") /\ "verify" \in CodeWait
  BY DEF RideWaitAgain, CodeWait
<1> QED BY <1>1, ReturnsKeeps DEF RideWaitAgain

\* The page moves on, or one resend of it, or its end.
LEMMA EnterPinKeeps == ASSUME IInv, EnterPin PROVE IInv'
<1>1. At("adobe", "pin") /\ "pin" \in CodeWait
  BY DEF EnterPin, CodeWait
<1>2. CASE client' = Returns /\ Quiet
  BY <1>1, <1>2, ReturnsKeeps
<1>3. ASSUME "retried" \notin client.notes, UNCHANGED <<panel, site>>,
             client' = [client EXCEPT !.pc = "verify", !.notes = @ \cup {"retried"},
                                      !.since = Len(mail.inbox), !.asked = @ + 1]
      PROVE  IInv'
  <2>1. /\ AttemptOK(client') /\ client'.pc = "verify" /\ client'.err = client.err /\ client'.next = client.next
        /\ client'.asked = client.asked + 1 /\ client'.notes = client.notes \cup {"retried"}
    BY <1>1, <1>3, AtAdobe DEF AttemptOK, Fields
  <2>2. Again(client) = 0 /\ Again(client') = 1
    BY <1>3, <2>1 DEF Again
  <2>3. AdobeBacked(client', site)
    BY <1>1, <2>1, AtAdobe DEF AdobeBacked, Created, Factor, CodeWait, Looked
  <2>4. AdobeFactor(client', site) /\ AdobeChallenges(client')
    BY <2>1 DEF AdobeFactor, AdobeChallenges, Factor
  <2>5. client.asked = 0
    BY <1>1, <2>2, AtAdobe DEF AdobePages, CodeWait
  <2>6. AdobePages(client') /\ client'.asked <= 2
    BY <1>1, <2>1, <2>2, <2>5, AtAdobe DEF AdobePages, CodeWait
  <2> QED BY <1>1, <1>3, <2>1, <2>3, <2>4, <2>6, AtAdobe, AdobeStays
<1> QED BY <1>1, <1>2, <1>3, NotVerifiedKeeps DEF EnterPin

-----------------------------------------------------------------------------
(* After the signup. *)

\* The probe: unknown, fine, or a check that resends once.
LEMMA ProbeRideKeeps == ASSUME IInv, ProbeRide PROVE IInv'
<1>1. At("adobe", "probe") /\ Looked(client, site)
  BY AtAdobe DEF ProbeRide, AdobeBacked, Created
<1>2. ASSUME Quiet, \/ client' = [client EXCEPT !.pc = "firefly", !.notes = @ \cup {"unprobed"}]
                    \/ client' = [client EXCEPT !.pc = "ride", !.next = "firefly"]
      PROVE  IInv'
  <2>1. /\ AttemptOK(client') /\ client'.err = client.err /\ client'.asked = client.asked
        /\ \/ client'.pc = "firefly" /\ client'.notes = client.notes \cup {"unprobed"}
           \/ client'.pc = "ride" /\ client'.next = "firefly" /\ client'.notes = client.notes
    BY <1>1, <1>2, AtAdobe DEF AttemptOK, Fields
  <2>2. AdobeBacked(client', site)
    BY <1>1, <2>1 DEF AdobeBacked, Created, Factor, CodeWait, Looked
  <2>3. AdobeFactor(client', site) /\ AdobeChallenges(client')
    BY <2>1 DEF AdobeFactor, AdobeChallenges, Factor
  <2>5. AdobePages(client')
    BY <1>1, <2>1, AtAdobe DEF AdobePages, CodeWait
  <2>6. client'.pc # "ended"
    BY <2>1
  <2> QED BY <1>1, <1>2, <2>1, <2>2, <2>3, <2>5, <2>6, AtAdobe, AdobeStays DEF Quiet
<1> QED BY <1>1, <1>2, Went, AdobeGoes DEF ProbeRide, Quiet

\* The check: given up before its page, or its page mails a code.
LEMMA RideVerifyKeeps == ASSUME IInv, RideVerify PROVE IInv'
<1>1. At("adobe", "ride") /\ Looked(client, site) /\ client.next \in {"firefly", "done"}
  BY AtAdobe DEF RideVerify, AdobeBacked, Created
<1>2. ASSUME client' = [client EXCEPT !.pc = client.next], Quiet PROVE IInv'
  <2>1. /\ AttemptOK(client') /\ client'.pc = client.next /\ client'.err = client.err
        /\ client'.asked = client.asked /\ client'.notes = client.notes
    BY <1>1, <1>2, AtAdobe DEF AttemptOK, Fields
  <2>2. AdobeBacked(client', site)
    BY <1>1, <2>1 DEF AdobeBacked, Created, Factor, CodeWait, Looked
  <2>3. AdobeFactor(client', site) /\ AdobeChallenges(client')
    BY <1>1, <2>1 DEF AdobeFactor, AdobeChallenges, Factor
  <2>5. AdobePages(client')
    BY <1>1, <2>1, AtAdobe DEF AdobePages, CodeWait
  <2> QED BY <1>1, <1>2, <2>1, <2>2, <2>3, <2>5, AtAdobe, AdobeStays DEF Quiet
<1>3. ASSUME client' = [client EXCEPT !.pc = "verify", !.notes = @ \cup {"riding"},
                                      !.since = Len(mail.inbox), !.asked = 0],
             UNCHANGED <<panel, site>>
      PROVE  IInv'
  <2>1. /\ AttemptOK(client') /\ client'.pc = "verify" /\ client'.err = client.err
        /\ client'.asked = 0 /\ client'.notes = client.notes \cup {"riding"}
        /\ client'.next = client.next
    BY <1>1, <1>3, AtAdobe DEF AttemptOK, Fields
  <2> QED BY <1>1, <1>3, <2>1, PageKeeps
<1> QED BY <1>2, <1>3 DEF RideVerify

LEMMA OpenFireflyKeeps == ASSUME IInv, OpenFirefly PROVE IInv'
<1>1. At("adobe", "firefly")
  BY DEF OpenFirefly
<1>2. CASE CodePage("capture")
  <2>1. /\ AttemptOK(client') /\ client'.pc = "verify" /\ client'.err = client.err
        /\ client'.asked = 0 /\ client'.notes = client.notes /\ client'.next = "capture"
    BY <1>1, <1>2, AtAdobe DEF AttemptOK, Fields, CodePage
  <2>2. UNCHANGED <<panel, site>>
    BY <1>2 DEF CodePage
  <2> QED BY <1>1, <2>1, <2>2, PageKeeps
<1> QED BY <1>1, <1>2, Went, AdobeGoes DEF OpenFirefly, Quiet

\* An attempt whose probe was unknown is checked now, and only then.
LEMMA CaptureAuthKeeps == ASSUME IInv, CaptureAuth PROVE IInv'
<1>1. At("adobe", "capture") /\ "capture" \in Created
  BY DEF CaptureAuth, Created
<1>2. CASE Goes("pass") /\ Quiet
  BY <1>1, <1>2, Went, AdobeGoes DEF Quiet
<1> QED BY <1>1, <1>2, AdobeFails, AdobeEnds DEF CaptureAuth, GivesIn

LEMMA RescueRideKeeps == ASSUME IInv, RescueRide PROVE IInv'
<1>1. At("adobe", "rescue") /\ "rescue" \in Created
  BY DEF RescueRide, Created
<1> QED BY <1>1, Went, AdobeGoes, AdobeEnds DEF RescueRide, Quiet

\* The last check of either engine.
LEMMA PassAdobeRideKeeps == ASSUME IInv, PassAdobeRide PROVE IInv'
<1>1. At("adobe", "pass") /\ "pass" \in Created
  BY DEF PassAdobeRide, Created
<1>2. ASSUME client' = [client EXCEPT !.pc = "ride", !.next = "done"], Quiet PROVE IInv'
  <2>1. /\ AttemptOK(client') /\ client'.pc = "ride" /\ client'.err = client.err
        /\ client'.asked = client.asked /\ client'.notes = client.notes /\ client'.next = "done"
    BY <1>1, <1>2, AtAdobe DEF AttemptOK, Fields
  <2>2. AdobeBacked(client', site)
    BY <1>1, <2>1, AtAdobe DEF AdobeBacked, Created, Factor, CodeWait, Looked
  <2>3. AdobeFactor(client', site) /\ AdobeChallenges(client')
    BY <2>1 DEF AdobeFactor, AdobeChallenges, Factor
  <2>4. AdobePages(client')
    BY <1>1, <2>1, AtAdobe DEF AdobePages, CodeWait
  <2> QED BY <1>1, <1>2, <2>1, <2>2, <2>3, <2>4, AtAdobe, AdobeStays DEF Quiet
<1> QED BY <1>1, <1>2, AdobeEnds DEF PassAdobeRide

LEMMA RideDoneKeeps == ASSUME IInv, RideDone PROVE IInv'
<1>1. At("adobe", "done") /\ "done" \in Created
  BY DEF RideDone, Created
<1> QED BY <1>1, AdobeEnds DEF RideDone

LEMMA BrowserKeeps == ASSUME IInv, BrowserNext PROVE IInv'
BY OpenFormKeeps, FillStep1Keeps, AdvanceKeeps, PuzzleKeeps, InjectTokenKeeps, BrowserUnsolvedKeeps,
   SubmitTimesOutKeeps, SignupStepKeeps, VerifyWaitKeeps, RideWaitAgainKeeps, EnterPinKeeps, ProbeRideKeeps,
   RideVerifyKeeps, OpenFireflyKeeps, CaptureAuthKeeps, RescueRideKeeps, PassAdobeRideKeeps, RideDoneKeeps
   DEF BrowserNext

-----------------------------------------------------------------------------
(* The theorems. *)

\* No step of the program, the mail or the panel breaks the invariant.
LEMMA EveryStep == IInv /\ [Next]_world => IInv'
<1> SUFFICES ASSUME IInv, [Next]_world PROVE IInv'
  OBVIOUS
<1>1. CASE UNCHANGED world
  BY <1>1, ElsewhereKeeps DEF world, panel
<1>2. CASE Arrive
  BY <1>2, ArriveKeeps
<1>3. CASE Engine
  BY <1>3, ChatGPTKeeps, AdobeKeeps, BrowserKeeps, CaptchaKeeps, GrokKeeps, LeonardoKeeps, LovartKeeps DEF Engine
<1> QED BY <1>1, <1>2, <1>3 DEF Next

\* The inductive invariant holds of every behaviour of every engine.
THEOREM Invariance == Spec => []IInv
<1> QED BY Initially, EveryStep, PTL DEF Spec

\* A row says registered only of an address that has an account, or that had
\* none while Adobe's page had the URL of a finished signup.
THEOREM SuccessIsBackedAlways == Spec => []SuccessIsBacked
<1>1. IInv => SuccessIsBacked
  BY DEF IInv, SuccessIsBacked, Backed, Has, Exists
<1> QED BY <1>1, Invariance, PTL

\* However often a mail is lost, late or refused, an attempt asks for no more
\* mails than its engine's resends allow.
THEOREM MailBudgetAlways == Spec => []MailBudget
<1>1. IInv => MailBudget
  <2> SUFFICES ASSUME IInv PROVE client.asked <= Budget[engine]
    BY DEF MailBudget
  <2>1. CASE row = "registering"
    BY <2>1 DEF IInv, Sound
  <2>2. CASE row # "registering"
    <3>1. client.asked = 0 /\ engine \in Engines
      BY <2>2 DEF IInv
    <3>2. 0 <= Budget[engine]
      BY <3>1, Budgets DEF Engines
    <3> QED BY <3>1, <3>2
  <2> QED BY <2>1, <2>2
<1> QED BY <1>1, Invariance, PTL

\* The login that follows an accepted code is never asked for the second factor
\* again: the state it shows is the one the code was accepted for.
THEOREM AcceptedCodeCountsAlways == Spec => []AcceptedCodeCounts
<1>1. IInv => AcceptedCodeCounts
  BY DEF IInv, SiteOK, AcceptedCodeCounts
<1> QED BY <1>1, Invariance, PTL
=============================================================================
