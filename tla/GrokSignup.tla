----------------------------- MODULE GrokSignup -----------------------------
(***************************************************************************)
(* registerProtocol of internal/grokreg with the client of                 *)
(* internal/grokreg/protocol.  cache is the signup configuration the whole *)
(* process shares (action id, state tree, Castle SDK): "stale" once x.ai   *)
(* has released a new page, so that it works no more.  "json" in the notes *)
(* is the new JSON signup, otherwise the server action is used.            *)
(***************************************************************************)
EXTENDS SignupWorld

GrokBegin == Begins("grok", "config", {})

\* External: a new release of the signup page.
Release ==
    /\ engine = "grok" /\ "good" \in {cache, client.token}
    /\ cache' = IF cache = "good" THEN "stale" ELSE cache
    /\ client' = [client EXCEPT !.token = IF @ = "good" THEN "stale" ELSE @]
    /\ UNCHANGED <<engine, row, runs, site, mail>>

\* Another Grok attempt of the process got its session, or got none.
OthersStore ==
    /\ engine = "grok" /\ row = "registering" /\ cache = "none"
    /\ cache' = "good"
    /\ UNCHANGED <<engine, row, runs, client, site, mail>>

OthersInvalidate ==
    /\ engine = "grok" /\ row = "registering" /\ cache # "none"
    /\ cache' = "none"
    /\ UNCHANGED <<engine, row, runs, client, site, mail>>

Holds(v) ==
    \E kind \in SUBSET {"json"} :
        client' = [client EXCEPT !.pc = "send", !.token = v, !.notes = kind]

\* The cached configuration, if the warm-up of the page works.
UseCached ==
    /\ At("grok", "config") /\ cache # "none"
    /\ Holds(cache)
    /\ Quiet

\* Read from the page: with the first fingerprint, the others, a clearance.
FetchConfig ==
    /\ At("grok", "config")
    /\ cache' = "none"
    /\ \/ Holds("good")
       \/ client' = [client EXCEPT !.pc = "ended", !.err = "other"]
    /\ UNCHANGED <<engine, row, runs, site, mail>>

SendCode ==
    /\ At("grok", "send")
    /\ \/ Asks([client EXCEPT !.pc = "code"], "other")
       \/ Fails("other")
       \/ "json" \in client.notes /\ Exists /\ Fails("taken")

WaitGrokCode ==
    /\ At("grok", "code")
    /\ \/ TakesCode("verify")
       \/ ~HasCode /\ Fails("other")

\* The JSON interface lists the sign-in methods of an address that has some.
VerifyGrokCode ==
    /\ At("grok", "verify")
    /\ \/ Right(client.code) /\ Goes("turnstile") /\ Quiet
       \/ Fails("other")
       \/ "json" \in client.notes /\ Exists /\ Fails("taken")

MintTurnstile ==
    /\ At("grok", "turnstile")
    /\ \/ Fails("other")
       \/ Goes("create") /\ Quiet

\* A session is what counts, whatever else was answered; without one the
\* configuration is thrown away.
Signed ==
    /\ client' = [client EXCEPT !.pc = "sso", !.err = "ok"]
    /\ cache' = client.token

Unsigned(e) ==
    /\ client' = [client EXCEPT !.pc = "ended", !.err = e]
    /\ cache' = "none"

\* create-account, or the server action: made, made with the session lost, refused.
CreateGrokAccount ==
    /\ At("grok", "create")
    /\ \/ /\ ~Exists /\ client.token = "good"
          /\ site' = [site EXCEPT !.acct = "ours"]
          /\ Signed \/ Unsigned("other")
       \/ Unsigned("other") /\ UNCHANGED site
       \/ "json" \in client.notes /\ Exists /\ Unsigned("taken") /\ UNCHANGED site
    /\ UNCHANGED <<engine, row, runs, mail>>

\* mintOAuth before the row is booked: the session is exchanged for an OAuth
\* token by a device code; whatever comes of it, the row is registered.
ConvertSSO ==
    /\ At("grok", "sso")
    /\ Goes("device") \/ Goes("ended")
    /\ Quiet

\* The token is polled for while the authorization is pending or told to slow
\* down, until a deadline.
PollToken ==
    /\ At("grok", "device")
    /\ \/ client' = [client EXCEPT !.pc = "ended", !.notes = @ \cup {"oauth"}]
       \/ Goes("ended")
    /\ Quiet

GrokStatus ==
    [ok |-> "registered", taken |-> "already_registered", other |-> "failed"]

GrokBook == Books("grok", GrokStatus)

GrokNext ==
    \/ GrokBegin \/ Release \/ OthersStore \/ OthersInvalidate \/ UseCached \/ FetchConfig
    \/ SendCode \/ WaitGrokCode \/ VerifyGrokCode \/ MintTurnstile \/ CreateGrokAccount
    \/ ConvertSSO \/ PollToken \/ GrokBook
=============================================================================
