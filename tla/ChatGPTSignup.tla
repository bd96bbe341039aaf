--------------------------- MODULE ChatGPTSignup ---------------------------
(***************************************************************************)
(* registerProtocol of internal/codexreg and the lease loop of produceOne  *)
(* around it: authorize, the landing page, the first code (sent by the     *)
(* page's loader), code, profile, OAuth callback.  Sentinel tokens, client *)
(* hints and dwelling are left out; a step may fail wherever the code      *)
(* returns an error.                                                       *)
(***************************************************************************)
EXTENDS SignupWorld

CONSTANTS Leases,     \* maxIPAttempts: proxy sessions one run of the row may use
          NetRetries  \* maxNetRetries: further attempts after a broken connection

\* What mapAuthError makes of the refusals of auth.openai.com.
AuthErrors ==
    {"exists", "terms", "blocked", "net", "other"}
        \cup {"taken" : x \in {site.acct} \ {"none"}}

\* do(): a Cloudflare challenge is ErrIPBlocked, a connection that breaks may
\* be transient, everything else is a plain error.
WireErrors == {"blocked", "net", "other"}

ChatGPTBegin ==
    \E r \in SUBSET {"rotates"} : Begins("chatgpt", "open", r)

\* Home page, login_with, csrf, signin/openai, the redirects of authorize.
OpenAuthorize ==
    /\ At("chatgpt", "open")
    /\ \E e \in WireErrors : Fails(e)

\* A connection that breaks on the way is tried once more; the page that was
\* not seen may have mailed a code.
AuthorizeAgain ==
    /\ At("chatgpt", "open") /\ "again" \notin client.notes
    /\ client' = [client EXCEPT !.since = Len(mail.inbox), !.notes = @ \cup {"again"}]
    /\ mail' \in {mail, OneMore(mail)}
    /\ UNCHANGED <<panel, site>>

\* otpSentAt: the moment before the first of the two.
Lands(l) == client' = [client EXCEPT !.pc = l, !.notes = @ \ {"again"},
                                     !.since = IF "again" \in client.notes THEN @ ELSE Len(mail.inbox)]

\* Where authorize lands: the code page, the page for a new password, the
\* password login of an account that exists, or the error page.
LandOnVerify ==
    /\ At("chatgpt", "open")
    /\ \E pending \in BOOLEAN :
        /\ site' = [site EXCEPT !.facts = IF pending THEN {"pending"} ELSE {}]
        /\ mail' = IF pending THEN mail ELSE OneMore(mail)
    /\ Lands("verify") /\ UNCHANGED panel

LandElsewhere ==
    /\ At("chatgpt", "open")
    /\ \/ ~Exists /\ Lands("password") /\ Quiet
       \/ Exists /\ Fails("taken")
       \/ \E e \in AuthErrors : Fails(e)

\* user/register, then its redirects: on to the code page or to the profile.
SubmitCreatePassword ==
    /\ At("chatgpt", "password")
    /\ \/ \E e \in AuthErrors : Fails(e)
       \/ \E l \in {"verify", "wait"} :
            /\ Goes(l)
            /\ site' = [site EXCEPT !.facts = {"pending"}]
            /\ UNCHANGED <<panel, mail>>

\* The first read of the auth session: only a pending passwordless send is
\* answered; the session is cached in the client.
ReadSession ==
    /\ At("chatgpt", "verify")
    /\ \/ \E e \in WireErrors : Fails(e)
       \/ "pending" \in site.facts /\ Goes("mint") /\ Quiet
       \/ Goes("wait") /\ Quiet        \* not pending, or a mode it leaves alone

\* External: the platform mails the code itself while the Sentinel is minted.
PlatformSends ==
    /\ At("chatgpt", "mint") /\ "pending" \in site.facts
    /\ site' = [site EXCEPT !.facts = @ \ {"pending"}]
    /\ mail' = OneMore(mail)
    /\ UNCHANGED <<panel, client>>

\* Mint, read the session again (from the cache: as it was), send.
PostInitialOTP ==
    /\ At("chatgpt", "mint")
    /\ \/ \E e \in WireErrors :
            Asks([client EXCEPT !.pc = "wait", !.since = Len(mail.inbox)], e)
       \/ \E e \in WireErrors : Fails(e)

\* Mutant: the resend is not remembered.
ResentForgotten(c) == c

\* Nothing arrived: resend once, whoever asks for it; the flag is shared with
\* the retry after a wrong code.
Resent(c) == [c EXCEPT !.notes = @ \cup {"resent"}]

FetchEmailCode ==
    /\ At("chatgpt", "wait")
    /\ \/ Fails("other")                                  \* the mailbox cannot be read
       \/ TakesCode("validate")
       \/ /\ ~HasCode /\ Quiet
          /\ IF "resent" \in client.notes
             THEN client' = [client EXCEPT !.pc = "ended", !.err = "other"]
             ELSE Goes("resend")

\* The baseline moves to the moment before the request.
ResendEmailCode ==
    /\ At("chatgpt", "resend")
    /\ \E e \in WireErrors :
        Asks(Resent([client EXCEPT !.pc = "wait", !.since = Len(mail.inbox)]), e)

\* Mutant: wherever the accepted code leads is taken for the way to the tokens.
ValidateOTPLoggedIn ==
    /\ At("chatgpt", "validate")
    /\ Right(client.code) /\ Goes("callback") /\ Quiet

\* A new address goes on to its profile, an account logs in.
ValidateOTP ==
    /\ At("chatgpt", "validate")
    /\ \/ \E e \in AuthErrors : Fails(e)
       \/ Right(client.code) /\ Goes(IF Exists THEN "callback" ELSE "about") /\ Quiet
       \/ /\ ~Right(client.code) /\ Quiet
          /\ IF "resent" \in client.notes
             THEN client' = [client EXCEPT !.pc = "ended", !.err = "other"]
             ELSE Goes("resend")

\* create_account: refused, done, or done with the answer lost.
CreateAccount ==
    /\ At("chatgpt", "about")
    /\ \/ \E e \in AuthErrors : Fails(e)
       \/ /\ site' = [site EXCEPT !.acct = "ours"]
          /\ \/ Goes("callback")
             \/ \E e \in WireErrors : client' = [client EXCEPT !.pc = "ended", !.err = e]
          /\ UNCHANGED <<panel, mail>>

\* The OAuth callback and the session of chatgpt.com: token and cookies.
OAuthCallback ==
    /\ At("chatgpt", "callback")
    /\ \/ \E e \in WireErrors : Fails(e)
       \/ Ends

\* A blocked exit address gets another proxy session, if the pool rotates.
Rotates == client.err = "blocked" /\ "rotates" \in client.notes /\ client.tries + 1 < Leases

\* A transient error is worth another attempt of its own count, through the
\* next session of a pool that rotates or on the same way out.
Reconnects == client.err = "net" /\ client.rounds < NetRetries

\* The pool is asked again; it may have nothing.
NextLease ==
    /\ At("chatgpt", "ended") /\ (Rotates \/ Reconnects)
    /\ \/ \E k \in Recent :
            client' = [NewAttempt("open", k, client.notes \cap {"rotates"}) EXCEPT
                          !.tries  = IF Rotates THEN client.tries + 1 ELSE client.tries,
                          !.rounds = IF Rotates THEN client.rounds ELSE client.rounds + 1]
       \/ client' = [client EXCEPT !.err = "other"]
    /\ site' = [site EXCEPT !.facts = {}]
    /\ UNCHANGED <<panel, mail>>

ChatGPTStatus ==
    [ok |-> "registered", taken |-> "already_registered", exists |-> "register_rejected",
     terms |-> "register_rejected", blocked |-> "failed", net |-> "failed", other |-> "failed"]

ChatGPTBook == ~Rotates /\ ~Reconnects /\ Books("chatgpt", ChatGPTStatus)

ChatGPTNext ==
    \/ ChatGPTBegin \/ OpenAuthorize \/ AuthorizeAgain \/ LandOnVerify \/ LandElsewhere
    \/ SubmitCreatePassword \/ ReadSession \/ PlatformSends \/ PostInitialOTP
    \/ FetchEmailCode \/ ResendEmailCode \/ ValidateOTP \/ CreateAccount
    \/ OAuthCallback \/ NextLease \/ ChatGPTBook
=============================================================================
