---------------------------- MODULE AdobeSignup ----------------------------
(***************************************************************************)
(* The protocol engine of internal/adobereg and what AdobeProducer.run     *)
(* makes of its errors.  client.token is the encrypted authState: every    *)
(* answer of Adobe replaces it (do), and after an accepted code it is one  *)
(* that has passed the second factor.                                      *)
(***************************************************************************)
EXTENDS CaptchaSolver

\* The engine and the solvers are settings.
AdobeBegin ==
    \E s \in SUBSET Services, l \in {"bootstrap", "open"} : Begins("adobe", l, s)

\* authorize, the deeplink page, the passkey call for the identity token.
Bootstrap ==
    /\ At("adobe", "bootstrap")
    /\ \/ Fails("other")
       \/ Goes("check") /\ Quiet

CheckAccount ==
    /\ At("adobe", "check")
    /\ \/ Fails("other")
       \/ Exists /\ Fails("exists")
       \/ ~Exists /\ Goes("state") /\ Quiet

\* authenticationstate for the signup; a blob asks for an Arkose token.
CreateSignupState ==
    /\ At("adobe", "state")
    /\ \/ Fails("other")
       \/ client' = [client EXCEPT !.pc = "create", !.token = "signup"] /\ Quiet
       \/ Configured(client) # {} /\ client' = Hired("create") /\ Quiet

\* Nobody solved it, on the protocol's way.
SignupUnsolved ==
    At("adobe", "unsolved") /\ client.back = "create" /\ Fails("other")

CreateAdobeAccount ==
    /\ At("adobe", "create")
    /\ \/ Fails("other")
       \/ /\ site' = [site EXCEPT !.acct = "foreign"]       \* taken since it was checked
          /\ client' = [client EXCEPT !.pc = "ended", !.err = "exists"]
          /\ UNCHANGED <<panel, mail>>
       \/ /\ site' = [site EXCEPT !.acct = "ours"]
          /\ \/ client' = Solved("login")
             \/ client' = [client EXCEPT !.pc = "ended", !.err = "other"]   \* answer lost
          /\ UNCHANGED <<panel, mail>>

\* Adobe asks for the second factor unless the state it is shown has passed it.
Challenged(on) ==
    /\ site' = [site EXCEPT !.facts = @ \cup {"again" : x \in @ \cap {"accepted"}}]
    /\ client' = on
    /\ UNCHANGED <<panel, mail>>

\* The login after the signup: straight in, or by way of the mailed code.
PasswordLogin ==
    /\ At("adobe", "login")
    /\ \/ Fails("other")
       \/ client' = [client EXCEPT !.pc = "mfa", !.next = "ims"] /\ Quiet
       \/ Challenged([client EXCEPT !.pc = "mfa", !.next = "relogin"])

LoginAgain ==
    /\ At("adobe", "relogin")
    /\ \/ Fails("other")
       \/ IF client.token = "mfa"
          THEN client' = [client EXCEPT !.pc = "mfa", !.next = "ims"] /\ Quiet
          ELSE Challenged([client EXCEPT !.pc = "ended", !.err = "other"])

\* verifyEmailChallenge failing: fatal for the login, ignored afterwards.
GivesUp(c) ==
    IF c.next = "relogin" THEN [c EXCEPT !.pc = "ended", !.err = "other"]
                          ELSE [c EXCEPT !.pc = "ims"]

\* A state for the second factor; the state of the session when it is refused.
CreateMFAState ==
    /\ At("adobe", "mfa")
    /\ \/ client' = GivesUp(client)
       \/ client' = [client EXCEPT !.pc = "challenge", !.token = "login"]
       \/ client' = [client EXCEPT !.pc = "challenge"]
    /\ Quiet

SendChallenge ==
    /\ At("adobe", "challenge")
    /\ \/ client' = GivesUp(client) /\ mail' \in {mail, OneMore(mail)}
       \/ client' = [client EXCEPT !.pc = "code", !.asked = @ + 1] /\ mail' = OneMore(mail)
    /\ UNCHANGED <<panel, site>>

\* fetchCode rides out mailbox errors; its baseline is that of the run.
WaitAdobeCode ==
    /\ At("adobe", "code")
    /\ \/ TakesCode("put")
       \/ ~HasCode /\ client' = GivesUp(client) /\ Quiet

\* Mutant: the state of before the code is used on.
AfterPutOld(c) == c

\* What the answer to the PUT leaves as authState: the state it carries.
AfterPut(c) == [c EXCEPT !.token = "mfa"]

PutCode ==
    /\ At("adobe", "put")
    /\ \/ client' = GivesUp(client) /\ Quiet
       \/ /\ Right(client.code)
          /\ client' = [AfterPut(client) EXCEPT !.pc = client.next]
          /\ site' = [site EXCEPT !.facts = @ \cup {"accepted"}]
          /\ UNCHANGED <<panel, mail>>

IMSToken ==
    /\ At("adobe", "ims")
    /\ \/ Fails("other")
       \/ Goes("land") /\ Quiet

\* fromSusi with the IMS token, with the SUSI token: the session cookie or not.
FromSusi ==
    /\ At("adobe", "land")
    /\ \/ Fails("landing")
       \/ Goes("restore") /\ Quiet

\* RestoreSession at the end of the signup: whatever it finds, the signup is
\* done; only a jump page is worked through (AdobeBrowser).
RestoreAfterSignup ==
    /\ At("adobe", "restore")
    /\ \/ Ends
       \/ Goes("rescue") /\ Quiet

\* account_exists is where a row ends; one whose session did not land is
\* marked arp_failed besides.
AdobeStatus ==
    [ok |-> "registered", exists |-> "account_exists", landing |-> "no_session",
     other |-> "failed"]

AdobeBook == Books("adobe", AdobeStatus)

AdobeNext ==
    \/ AdobeBegin \/ Bootstrap \/ CheckAccount \/ CreateSignupState \/ SignupUnsolved
    \/ CreateAdobeAccount
    \/ PasswordLogin \/ LoginAgain \/ CreateMFAState \/ SendChallenge \/ WaitAdobeCode
    \/ PutCode \/ IMSToken \/ FromSusi \/ RestoreAfterSignup \/ AdobeBook
=============================================================================
