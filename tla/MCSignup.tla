------------------------------ MODULE MCSignup ------------------------------
(***************************************************************************)
(* The signup engines side by side: one row of any platform, started up to *)
(* MaxRuns times, with a platform and a mailbox that answer as they like.  *)
(***************************************************************************)
EXTENDS ChatGPTSignup, AdobeSignup, AdobeBrowser, GrokSignup, LeonardoSignup, LovartSignup

Engines == {"chatgpt", "adobe", "grok", "leonardo", "lovart"}

Init == WorldInit(Engines)

\* What the program does; the rest is done to it.
Engine ==
    \/ ChatGPTNext \/ AdobeNext \/ BrowserNext \/ CaptchaNext
    \/ GrokNext \/ LeonardoNext \/ LovartNext

Next == Arrive \/ Engine

\* Every call of an engine has a time limit, so an attempt is never left alone.
Fairness == WF_client(Engine)

Spec == Init /\ [][Next]_world /\ Fairness

-----------------------------------------------------------------------------

\* A row says registered only of an address that has an account, with one
\* exception: Adobe's browser engine believes a URL (isSignupDoneURL), and the
\* page may have looked like the end of a signup that had made none.
SuccessIsBacked == row = "registered" => Exists \/ "looked" \in client.notes

\* No attempt asks for code mails without end: one resend shared by a mail
\* that does not come and a code that is refused (ChatGPT), one login
\* challenge more (Adobe by protocol), one resend per way into it (Leonardo).
\* For a code page of Adobe's browser this is said of each visit: how often
\* the page comes back is not bounded by the code.
Budget == [chatgpt |-> 2, adobe |-> 2, grok |-> 1, leonardo |-> 2, lovart |-> 2]

MailBudget == client.asked <= Budget[engine]

\* A second factor that Adobe accepted is not asked for again: the login goes
\* on with the state of the accepted code.
AcceptedCodeCounts == "again" \notin site.facts

\* completeSignup looks at the page once more; each stage that it works through
\* renews its three minutes, and on a direct connection no other limit is set.
Lingers == At("adobe", "signup")

\* An attempt ends, however the platform, the mail and the solvers behave,
\* unless Adobe's pages show the stages of the signup again and again for ever.
AttemptsEnd == <>[]~Lingers => (row = "registering" ~> row # "registering")
=============================================================================
