---------------------------- MODULE AdobeBrowser ----------------------------
(***************************************************************************)
(* The browser engine of internal/adobereg (registerBrowser) and the       *)
(* identity check both engines may end in (rideVerify).  What the page     *)
(* shows is Adobe's choice, and all that the engine knows of it is its URL *)
(* and which boxes it has: it may show a stage again, move on by itself,   *)
(* and look like the end of the signup at any time.                        *)
(***************************************************************************)
EXTENDS CaptchaSolver

CONSTANTS MaxStep1,     \* attempts of fillStep1 (3 in the code)
          MaxSolves     \* maxCaptchaSolves, maxArkoseSolves: tokens per submission

\* The page gives up on the signup.
GivesIn == Fails("other")

\* gotoStable, gotoCreateForm: the form is reached, or not in time.
OpenForm ==
    /\ At("adobe", "open")
    /\ \/ GivesIn
       \/ Goes("step1") /\ Quiet

\* A stuck input or submission: the page is loaded again, so many times.
Step1Again ==
    /\ client' = IF client.tries + 1 < MaxStep1
                 THEN [client EXCEPT !.pc = "step1", !.tries = @ + 1]
                 ELSE [client EXCEPT !.pc = "ended", !.err = "other"]
    /\ Quiet

\* Mail and password are typed in; the page may say that the account exists.
FillStep1 ==
    /\ At("adobe", "step1")
    /\ \/ Exists /\ Fails("exists")
       \/ client' = [client EXCEPT !.pc = "submit", !.token = "step1", !.rounds = 0] /\ Quiet
       \/ Step1Again

\* What the form of step 2 may have done, whatever the page looks like then.
MaybeMade == site' = site \/ (~Exists /\ site' = [site EXCEPT !.acct = "ours"])

\* submitAndAdvance clicks until the page moves on: the box of the step is
\* gone, or a code page is there.  A puzzle goes to the solver, so many times
\* per submission.
Advance ==
    /\ At("adobe", "submit")
    /\ client' = [client EXCEPT !.pc = "signup", !.token = "none", !.back = "",
                                !.tries = 0, !.rounds = 0]
    /\ IF client.token = "step1" THEN UNCHANGED site ELSE MaybeMade
    /\ UNCHANGED <<panel, mail>>

\* hCaptcha and Arkose have a budget each.
Puzzle ==
    /\ At("adobe", "submit")
    /\ \/ /\ Configured(client) = {} \/ client.rounds >= MaxSolves
          /\ client' = [client EXCEPT !.pc = "unsolved", !.back = "inject"]
       \/ /\ Configured(client) # {} /\ client.rounds < 2 * MaxSolves
          /\ client' = [Hired("inject") EXCEPT !.rounds = @ + 1]
    /\ Quiet

\* Arkose still there after the token: the other service is preferred from
\* now on, if there is one.
InjectToken ==
    /\ At("adobe", "inject")
    /\ \/ Goes("submit")
       \/ /\ Fallback(client)
          /\ client' = [client EXCEPT !.pc = "submit", !.notes = @ \cup {"secondaryOnly"}]
       \/ ~Fallback(client) /\ Goes("unsolved")
    /\ Quiet

\* An hCaptcha ends the signup, an Arkose puzzle only this try of the first step.
BrowserUnsolved ==
    /\ At("adobe", "unsolved") /\ client.back = "inject"
    /\ \/ GivesIn
       \/ client.token = "step1" /\ Step1Again

SubmitTimesOut ==
    /\ At("adobe", "submit")
    /\ IF client.token = "step1"
       THEN (Exists /\ Fails("exists")) \/ Step1Again
       ELSE /\ client' = [client EXCEPT !.pc = "ended", !.err = "other"]
            /\ MaybeMade
            /\ UNCHANGED <<panel, mail>>

-----------------------------------------------------------------------------
(* A code page.  client.next is where its caller goes on, "riding" says that *)
(* rideVerify opened it and reads the mailbox on its own.  The requests for  *)
(* a mail are counted anew for each visit.                                   *)

CodePage(l) ==
    /\ client' = [client EXCEPT !.pc = "verify", !.next = l, !.asked = 0]
    /\ mail' = OneMore(mail)
    /\ UNCHANGED <<panel, site>>

Returns == [client EXCEPT !.pc = client.next, !.notes = @ \ {"riding", "retried"}]

\* A check that fails is logged, a signup whose code page fails is not done.
NotVerified ==
    IF "riding" \in client.notes THEN client' = Returns /\ Quiet ELSE GivesIn

\* rideVerify's WaitCode hands out the one code its reader found, and no other.
Deaf == {"riding", "retried"} \subseteq client.notes

\* The page may have moved on by itself, before the first wait or the second.
VerifyWait ==
    /\ At("adobe", "verify") /\ ~Deaf
    /\ \/ client' = Returns /\ Quiet
       \/ TakesCode("pin")
       \/ ~HasCode /\ NotVerified

RideWaitAgain ==
    /\ At("adobe", "verify") /\ Deaf
    /\ client' = Returns /\ Quiet

\* The page moves on, which is all that is seen of an accepted code; or, once,
\* a resend is clicked (and may miss) and the baseline moves; or that was the
\* second code.
EnterPin ==
    /\ At("adobe", "pin")
    /\ \/ client' = Returns /\ Quiet
       \/ /\ "retried" \notin client.notes
          /\ client' = [client EXCEPT !.pc = "verify", !.notes = @ \cup {"retried"},
                                      !.since = Len(mail.inbox), !.asked = @ + 1]
          /\ mail' \in {mail, OneMore(mail)}
          /\ UNCHANGED <<panel, site>>
       \/ "retried" \in client.notes /\ NotVerified

\* completeSignup: whatever page comes next, as often as it comes.  A page of
\* Adobe's that is none of the signup's is the end of it; "looked" remembers
\* that there was no account yet (history).
SignupStep ==
    /\ At("adobe", "signup")
    /\ \/ GivesIn
       \/ client' = [Solved("probe") EXCEPT !.notes = IF Exists THEN {} ELSE {"looked"}] /\ Quiet
       \/ client' = [client EXCEPT !.pc = "submit", !.token = "step2", !.rounds = 0] /\ Quiet
       \/ CodePage("signup")

-----------------------------------------------------------------------------
(* After the signup: can the cookies be exchanged for a token? *)

\* adobeRideJump, then rideVerify if Adobe wants the mailbox checked.
ProbeRide ==
    /\ At("adobe", "probe")
    /\ \/ client' = [client EXCEPT !.pc = "firefly", !.notes = @ \cup {"unprobed"}] /\ Quiet
       \/ Goes("firefly") /\ Quiet
       \/ client' = [client EXCEPT !.pc = "ride", !.next = "firefly"] /\ Quiet

\* The baseline moves, the page of the check is opened and mails its code.
RideVerify ==
    /\ At("adobe", "ride")
    /\ \/ client' = [client EXCEPT !.pc = client.next] /\ Quiet
       \/ /\ client' = [client EXCEPT !.pc = "verify", !.notes = @ \cup {"riding"},
                                      !.since = Len(mail.inbox), !.asked = 0]
          /\ mail' = OneMore(mail)
          /\ UNCHANGED <<panel, site>>

\* Firefly may want a code too.
OpenFirefly ==
    /\ At("adobe", "firefly")
    /\ \/ Goes("capture") /\ Quiet
       \/ CodePage("capture")

CaptureAuth ==
    /\ At("adobe", "capture")
    /\ \/ GivesIn
       \/ "unprobed" \in client.notes /\ Goes("pass") /\ Quiet
       \/ "unprobed" \notin client.notes /\ Ends

\* RescueRide: a browser with the saved cookies; its failure is only logged.
RescueRide ==
    /\ At("adobe", "rescue")
    /\ \/ Ends
       \/ Goes("pass") /\ Quiet

\* passAdobeRide: the check, and the session as it then is.
PassAdobeRide ==
    /\ At("adobe", "pass")
    /\ \/ Ends
       \/ client' = [client EXCEPT !.pc = "ride", !.next = "done"] /\ Quiet

RideDone == At("adobe", "done") /\ Ends

BrowserNext ==
    \/ OpenForm \/ FillStep1 \/ Advance \/ Puzzle \/ InjectToken \/ BrowserUnsolved
    \/ SubmitTimesOut \/ SignupStep \/ VerifyWait \/ RideWaitAgain \/ EnterPin
    \/ ProbeRide \/ RideVerify \/ OpenFirefly \/ CaptureAuth \/ RescueRide
    \/ PassAdobeRide \/ RideDone
=============================================================================
