---------------------------- MODULE LovartSignup ----------------------------
(***************************************************************************)
(* Register of internal/lovartreg: a login by mailed code makes the        *)
(* account.  client.rounds is the mail already read: fetchCode hands no    *)
(* mail out twice (consumed).                                              *)
(***************************************************************************)
EXTENDS SignupWorld

LovartBegin == Begins("lovart", "send", {})

\* A Turnstile token for the code; a refused token is replaced once.
SendLovartCode ==
    /\ At("lovart", "send")
    /\ \/ Fails("other")
       \/ \E k \in Recent :
            Asks([client EXCEPT !.pc = "wait", !.since = k, !.next = "login"], "other")
       \/ client.tries = 0 /\ client' = [client EXCEPT !.tries = 1] /\ Quiet

Unread == {i \in DOMAIN mail.inbox : i > client.since /\ i # client.rounds}

WaitLovartCode ==
    /\ At("lovart", "wait")
    /\ \/ \E i \in Unread :
            /\ \A j \in Unread : j <= i
            /\ client' = [client EXCEPT !.pc = client.next, !.code = mail.inbox[i],
                                        !.rounds = i]
            /\ Quiet
       \/ Unread = {} /\ Fails("other")

\* The account is there from the login on, or from the challenge on.
LoggedIn(c) ==
    /\ Right(client.code)
    /\ site' = [site EXCEPT !.acct = IF @ = "none" THEN "ours" ELSE @]
    /\ client' \in {c, [client EXCEPT !.pc = "ended", !.err = "other"]}
    /\ UNCHANGED <<panel, mail>>

LoginByCode ==
    /\ At("lovart", "login")
    /\ \/ Fails("other")
       \/ LoggedIn([client EXCEPT !.pc = "session"])
       \/ /\ "fresh" \notin client.notes              \* the token, not the code, is refused
          /\ client' = [client EXCEPT !.notes = @ \cup {"fresh"}]
          /\ Quiet
       \/ Right(client.code) /\ Goes("challenge") /\ Quiet

\* A second code, by mail only.
SendLovartChallenge ==
    /\ At("lovart", "challenge")
    /\ \/ Fails("other")
       \/ \E k \in Recent :
            Asks([client EXCEPT !.pc = "wait", !.since = k, !.next = "verify"], "other")

VerifyLovartChallenge ==
    /\ At("lovart", "verify")
    /\ \/ Fails("other")
       \/ LoggedIn([client EXCEPT !.pc = "session"])

\* establishSession may fail; userInfo decides.
ProbeSession ==
    /\ At("lovart", "session")
    /\ \/ Fails("other")
       \/ Ends

LovartStatus == [ok |-> "registered", other |-> "failed"]

LovartBook == Books("lovart", LovartStatus)

LovartNext ==
    \/ LovartBegin \/ SendLovartCode \/ WaitLovartCode \/ LoginByCode
    \/ SendLovartChallenge \/ VerifyLovartChallenge \/ ProbeSession \/ LovartBook
=============================================================================
