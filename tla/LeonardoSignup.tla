--------------------------- MODULE LeonardoSignup ---------------------------
(***************************************************************************)
(* registerProtocol of internal/leonardoreg: the old Cognito signup, the   *)
(* new one where the old route is gone, the mailed code, the session.      *)
(* client.next is where a Turnstile token is wanted.                       *)
(***************************************************************************)
EXTENDS SignupWorld

CONSTANT LegacyPosts     \* attempts of signupLegacy (4 in the code)

LeonardoBegin == Begins("leonardo", "open", {})

\* The browser is past the bot check, or not; which routes the site still has.
NewPageClient ==
    /\ At("leonardo", "open")
    /\ \/ Fails("other")
       \/ \E gone \in SUBSET {"legacyGone"} :
            /\ site' = [site EXCEPT !.facts = gone]
            /\ client' = [client EXCEPT !.pc = "mint", !.next = "legacy"]
            /\ UNCHANGED <<panel, mail>>

\* The page's own token, else one of 2Captcha's.  Without one a resend is
\* tried all the same; the signup and the login fail.
MintCaptcha ==
    /\ At("leonardo", "mint")
    /\ \/ client' = [client EXCEPT !.pc = client.next] /\ Quiet
       \/ client.next = "resend" /\ Goes("resend") /\ Quiet
       \/ client.next # "resend" /\ Fails("other")

Wants(l) == client' = [client EXCEPT !.pc = "mint", !.next = l]

\* What a signup route does with the address, and what it answers.
Creates(taken) ==
    /\ site.acct = "none"
    /\ site' = [site EXCEPT !.acct = "unconfirmed"]
    /\ mail' = OneMore(mail)
    /\ client' = [client EXCEPT !.pc = "session"] \/ taken
    /\ UNCHANGED panel

KnownAddress ==
    \/ site.acct = "unconfirmed" /\ Wants("resend") /\ Quiet
    \/ site.acct # "none" /\ Fails("taken")

\* No answer, or the bot check: the same request again, so many times.
LegacyAgain ==
    client' = IF client.tries + 1 < LegacyPosts THEN [client EXCEPT !.tries = @ + 1]
              ELSE [client EXCEPT !.pc = "ended", !.err = "other"]

SignupLegacy ==
    /\ At("leonardo", "legacy") /\ "legacyGone" \notin site.facts
    /\ \/ Creates(LegacyAgain)
       \/ LegacyAgain /\ Quiet
       \/ KnownAddress

\* Mutant: every refusal asks for a new token.
LegacyRefusedAlways ==
    /\ At("leonardo", "legacy")
    /\ client' = [client EXCEPT !.pc = "mint", !.next = "legacy", !.tries = 0] /\ Quiet

\* Refused for its captcha: once more with a new token.
LegacyRefused ==
    /\ At("leonardo", "legacy")
    /\ \/ /\ "fresh" \notin client.notes
          /\ client' = [client EXCEPT !.pc = "mint", !.next = "legacy", !.tries = 0,
                                      !.notes = @ \cup {"fresh"}]
          /\ Quiet
       \/ Fails("other")

\* isNotFoundErr: only a missing route leads to the new one.
NotFound == "legacyGone" \in site.facts

LegacyNotFound ==
    /\ At("leonardo", "legacy") /\ NotFound
    /\ Wants("better") /\ Quiet

SignupBetterAuth ==
    /\ At("leonardo", "better")
    /\ \/ Creates(client' = [client EXCEPT !.pc = "ended", !.err = "other"])
       \/ KnownAddress
       \/ Fails("other")

\* sessionOK right after the signup: only a confirmed account has a session.
SessionAfterSignup ==
    /\ At("leonardo", "session")
    /\ \/ Goes("wait") /\ Quiet
       \/ /\ site.acct = "unconfirmed"                    \* confirmed by the site itself
          /\ site' = [site EXCEPT !.acct = "ours"]
          /\ client' = [client EXCEPT !.pc = "ended", !.err = "ok"]
          /\ UNCHANGED <<panel, mail>>

\* Two routes, the second when the first refuses or does not answer.
ResendCode ==
    /\ At("leonardo", "resend")
    /\ client' = [client EXCEPT !.pc = "wait", !.asked = @ + 1]
    /\ mail' \in {mail, OneMore(mail), OneMore(OneMore(mail))}
    /\ UNCHANGED <<panel, site>>

\* The baseline stays that of the run.
WaitLeonardoCode ==
    /\ At("leonardo", "wait")
    /\ \/ TakesCode("confirm")
       \/ ~HasCode /\ Fails("other")

\* confirm offers the code to four routes until one takes it; a refusal (or
\* only lost answers) is followed by one resend.
Unconfirmed ==
    client' = IF "retried" \in client.notes
              THEN [client EXCEPT !.pc = "ended", !.err = "other"]
              ELSE [client EXCEPT !.pc = "mint", !.next = "resend", !.notes = @ \cup {"retried"}]

Confirm ==
    /\ At("leonardo", "confirm")
    /\ \/ Unconfirmed /\ Quiet
       \/ /\ Right(client.code) /\ site.acct # "none"
          /\ site' = [site EXCEPT !.acct = IF @ = "unconfirmed" THEN "ours" ELSE @]
          /\ Goes("ensure") \/ Unconfirmed
          /\ UNCHANGED <<panel, mail>>

\* The session, or a login with the password: twice if its captcha is refused.
EnsureSession ==
    /\ At("leonardo", "ensure")
    /\ \/ Ends
       \/ client' = [client EXCEPT !.pc = "mint", !.next = "signin", !.rounds = 0] /\ Quiet

SignInEmail ==
    /\ At("leonardo", "signin")
    /\ \/ Exists /\ Ends
       \/ Fails("other")
       \/ client.rounds = 0 /\ client' = [client EXCEPT !.pc = "mint", !.rounds = 1] /\ Quiet

LeonardoStatus ==
    [ok |-> "registered", taken |-> "already_registered", other |-> "failed"]

LeonardoBook == Books("leonardo", LeonardoStatus)

LeonardoNext ==
    \/ LeonardoBegin \/ NewPageClient \/ MintCaptcha \/ SignupLegacy \/ LegacyRefused
    \/ LegacyNotFound \/ SignupBetterAuth \/ SessionAfterSignup \/ ResendCode
    \/ WaitLeonardoCode \/ Confirm \/ EnsureSession \/ SignInEmail \/ LeonardoBook
=============================================================================
