---------------------------- MODULE SignupWorld ----------------------------
(***************************************************************************)
(* One address on its way to an account, whichever platform it is for: the *)
(* panel's row, the attempt the engine of internal/*reg makes for it, the  *)
(* platform the engine talks to, and the mailbox the codes arrive in.      *)
(* The engines (ChatGPTSignup, AdobeSignup, AdobeBrowser, GrokSignup,      *)
(* LeonardoSignup, LovartSignup) are step by step translations of the code *)
(* over this state; the platform and the mail service are external, and    *)
(* answer, refuse, lose and delay as they like.                            *)
(***************************************************************************)
EXTENDS Naturals, Sequences, FiniteSets

CONSTANTS MaxMails,  \* bound: code mails the platform sends to the address
          MaxRuns    \* bound: times the panel starts the row

ASSUME SignupBounds == MaxMails \in Nat \ {0} /\ MaxRuns \in Nat \ {0}

VARIABLES
    engine,  \* which engine registers the row
    row,     \* the row's status
    runs,    \* how often the panel started it
    cache,   \* the signup configuration the process keeps (Grok)
    client,  \* the attempt: where it is, what it holds, what it remembers
    site,    \* the platform: the account of the address, what it knows of the attempt
    mail     \* the code mails: sent, on their way, and in the mailbox by arrival

panel == <<engine, row, runs, cache>>
world == <<panel, client, site, mail>>

Codes == 0 .. MaxMails        \* code 0 went to another alias of the mailbox

\* A fresh attempt: nothing read, nothing asked for, no token of the platform.
NewAttempt(start, baseline, knows) ==
    [pc |-> start, err |-> "", notes |-> knows, code |-> 0, since |-> baseline,
     tries |-> 0, rounds |-> 0, solves |-> 0, asked |-> 0, token |-> "none",
     solver |-> "", back |-> "", next |-> ""]

WorldInit(engines) ==
    /\ engine \in engines
    /\ row = "pending" /\ runs = 0 /\ cache = "none"
    /\ client = NewAttempt("idle", 0, {})
    /\ \E a \in {"none", "foreign"} : site = [acct |-> a, facts |-> {}]
    /\ \E stray \in SUBSET {0} : mail = [sent |-> 0, transit |-> stray, inbox |-> <<>>]

At(e, l) == engine = e /\ row = "registering" /\ client.pc = l

Exists == site.acct \in {"ours", "foreign"}     \* a confirmed account of the address

-----------------------------------------------------------------------------
\* The platform's mail: a code is sent, arrives in any order or never (nothing
\* is fair to it).  One that arrives between two attempts is as good as lost
\* for the second, or as one that arrives later.

OneMore(m) ==
    IF m.sent < MaxMails
    THEN [m EXCEPT !.sent = @ + 1, !.transit = @ \cup {m.sent + 1}]
    ELSE m                      \* bound: the platform mails nothing any more

Arrive ==
    /\ row = "registering"
    /\ \E k \in mail.transit :
        mail' = [mail EXCEPT !.transit = @ \ {k}, !.inbox = Append(@, k)]
    /\ UNCHANGED <<panel, client, site>>

\* Only the code mailed last is good.
Right(k) == k > 0 /\ k = mail.sent

-----------------------------------------------------------------------------
(* What the engines' steps have in common. *)

Goes(l) == client' = [client EXCEPT !.pc = l]

Quiet == UNCHANGED <<panel, site, mail>>

\* The engine returns the error e, with no effect on the platform.
Fails(e) == client' = [client EXCEPT !.pc = "ended", !.err = e] /\ Quiet

Ends == client' = [client EXCEPT !.pc = "ended", !.err = "ok"] /\ Quiet

\* The newest code mail that arrived after the baseline.
HasCode == Len(mail.inbox) > client.since
Newest  == mail.inbox[Len(mail.inbox)]

TakesCode(l) ==
    /\ HasCode
    /\ client' = [client EXCEPT !.pc = l, !.code = Newest]
    /\ Quiet

\* A request for a mail: accepted, refused, or accepted with the answer lost.
Asks(c, e) ==
    /\ \/ client' = [c EXCEPT !.asked = @ + 1] /\ mail' = OneMore(mail)
       \/ client' = [client EXCEPT !.pc = "ended", !.err = e, !.asked = @ + 1]
          /\ mail' \in {mail, OneMore(mail)}
    /\ UNCHANGED <<panel, site>>

\* since = now - 30 s: at most the last mail of the mailbox is that recent.
Recent == {Len(mail.inbox)} \cup {Len(mail.inbox) - 1 : x \in {1} \cap {Len(mail.inbox)}}

\* The panel starts the row (for the first time, or again after a failure).
Begins(e, start, knows) ==
    /\ engine = e
    /\ row \in {"pending", "failed"} /\ runs < MaxRuns
    /\ row' = "registering" /\ runs' = runs + 1
    /\ \E k \in Recent : client' = NewAttempt(start, k, knows)
    /\ UNCHANGED <<engine, cache, site, mail>>

\* The producer books the outcome of the attempt ("looked": see AdobeBrowser).
Books(e, status) ==
    /\ At(e, "ended")
    /\ row' = status[client.err]
    /\ client' = NewAttempt("idle", 0, client.notes \cap {"looked"})
    /\ site' = [site EXCEPT !.facts = {}]
    /\ UNCHANGED <<engine, runs, cache, mail>>
=============================================================================
