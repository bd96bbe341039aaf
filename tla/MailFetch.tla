----------------------------- MODULE MailFetch -----------------------------
(***************************************************************************)
(* The mail client of internal/mailfetch for one mailbox that several      *)
(* callers read at once: the cached access token, the refresh they share   *)
(* (one request, the others wait for it), and the three ways to the mail   *)
(* (Graph, IMAP with OAuth, IMAP with a password).  What the mails say is  *)
(* left out; a read is told by the folders it could not read.              *)
(***************************************************************************)
EXTENDS Naturals, FiniteSets

CONSTANTS Callers,
          Verifiers    \* those that verify: one per mailbox (MailVerify), the others read

ASSUME CallersKnown == Verifiers \subseteq Callers

Folders == {"INBOX", "Junk"}

VARIABLES
    box,       \* how the mailbox is read: its protocol, or "legacy" for an IMAP
               \* mailbox whose refresh token knows no scopes
    cached,    \* tokens: an access token is cached
    inflight,  \* inflight: a refresh is registered
    caller     \* each caller: its operation, where it is and what came of it

vars == <<box, cached, inflight, caller>>

NewCall == [op |-> "none", pc |-> "idle", tries |-> 0, err |-> "", missed |-> FALSE]

Init ==
    /\ box \in {"graph", "imap", "legacy", "password"}
    /\ cached = FALSE
    /\ inflight = FALSE
    /\ caller = [c \in Callers |-> NewCall]

At(c, l) == caller[c].pc = l
Goes(c, l) == caller' = [caller EXCEPT ![c].pc = l]
Ended(r, e) == [r EXCEPT !.pc = "ended", !.err = e, !.tries = 0]
Ends(c, e) == caller' = [caller EXCEPT ![c] = Ended(@, e)]

-----------------------------------------------------------------------------
(* The access token. *)

\* Verify starts by throwing the cached token away; reads of a mailbox
\* without OAuth credentials go to its password.
Begin(c, op) ==
    /\ At(c, "idle") /\ (op = "Verify" <=> c \in Verifiers)
    /\ caller' = [caller EXCEPT ![c].op = op,
                    ![c].pc = IF op # "Verify" /\ box = "password"
                              THEN "password" ELSE "token"]
    /\ cached' = (cached /\ op # "Verify")
    /\ UNCHANGED <<box, inflight>>

Expire == cached /\ cached' = FALSE /\ UNCHANGED <<box, inflight, caller>>

\* accessToken reads the cache and, after an unlock, the registered refresh.
ReadCache(c) ==
    /\ At(c, "token")
    /\ Goes(c, IF cached THEN "use" ELSE "miss")
    /\ UNCHANGED <<box, cached, inflight>>

\* Mutant: two refreshes may be registered.
JoinOrLeadBoth(c) ==
    /\ At(c, "miss")
    /\ Goes(c, "request") /\ inflight' = TRUE
    /\ UNCHANGED <<box, cached>>

JoinOrLead(c) ==
    /\ At(c, "miss")
    /\ Goes(c, IF inflight THEN "wait" ELSE "request") /\ inflight' = TRUE
    /\ UNCHANGED <<box, cached>>

\* A caller that gives up waiting leaves; one that leads fails its request.
GiveUpWaiting(c) ==
    /\ At(c, "wait") /\ Ends(c, "cancelled")
    /\ UNCHANGED <<box, cached, inflight>>

\* requestToken with the Graph scope, then without one if it is unsupported.
RequestToken(c) ==
    /\ At(c, "request") \/ At(c, "requestNoScope")
    /\ \/ /\ At(c, "request") = (box # "legacy") /\ box # "password"
          /\ caller' = [caller EXCEPT ![c].pc = "refreshed", ![c].err = "ok"]
       \/ \E e \in {"temporary", "failed"} :
            caller' = [caller EXCEPT ![c].pc = "refreshed", ![c].err = e]
       \/ At(c, "request") /\ box = "legacy" /\ Goes(c, "requestNoScope")
    /\ UNCHANGED <<box, cached, inflight>>

\* What a token error makes of an operation: Verify repeats a temporary one.
AfterError(r, e) ==
    IF r.op = "Verify" /\ e = "temporary" /\ r.tries < 2
    THEN [r EXCEPT !.pc = "token", !.tries = @ + 1, !.err = ""]
    ELSE Ended(r, e)

\* Mutant: the waiters are woken by a token only.
AnswersTokenOnly(c, e) == {c} \cup {w \in Callers : At(w, "wait") /\ e = "ok"}

\* close(call.done): the leader and whoever waits for it.
Answers(c, e) == {c} \cup {w \in Callers : At(w, "wait")}

\* The refresh is over: it is no longer registered, its callers have its
\* outcome; the token is cached in a later step.
FinishRefresh(c) ==
    /\ At(c, "refreshed")
    /\ inflight' = FALSE
    /\ LET e == caller[c].err IN
       /\ cached' = (cached /\ ~(e = "temporary" /\ \E w \in Answers(c, e) : caller[w].op = "Verify"))
       /\ caller' = [w \in Callers |->
            IF w \notin Answers(c, e) THEN caller[w]
            ELSE IF e # "ok" THEN AfterError(caller[w], e)
            ELSE [caller[w] EXCEPT !.pc = IF w = c THEN "store" ELSE "use", !.err = ""]]
    /\ UNCHANGED box

StoreToken(c) ==
    /\ At(c, "store")
    /\ cached' = TRUE /\ Goes(c, "use")
    /\ UNCHANGED <<box, inflight>>

-----------------------------------------------------------------------------
(* Its use. *)

\* The server refuses the token: it is thrown away and the operation repeated,
\* a Verify over Graph excepted.
Retried(r) == IF r.op = "Verify" THEN 2 ELSE 1

Refused(c) ==
    /\ At(c, "use")
    /\ LET r == caller[c] IN
       IF r.op = "Verify" /\ box = "graph"
       THEN Ends(c, "refused") /\ UNCHANGED cached
       ELSE /\ cached' = FALSE
            /\ caller' = [caller EXCEPT ![c] =
                 IF r.tries < Retried(r) THEN [r EXCEPT !.pc = "token", !.tries = @ + 1]
                 ELSE Ended(r, "failed")]
    /\ UNCHANGED <<box, inflight>>

\* A failure of the service: Verify throws the token away and tries again.
Unavailable(c) ==
    /\ At(c, "use")
    /\ cached' = (cached /\ caller[c].op # "Verify")
    /\ caller' = [caller EXCEPT ![c] = AfterError(@, "temporary")]
    /\ UNCHANGED <<box, inflight>>

\* verifyGraph, verifyIMAP; getGraphMessage, getIMAPMessage.
Answered(c) ==
    /\ At(c, "use") /\ caller[c].op # "ListMessages"
    /\ \/ Ends(c, "ok")
       \/ caller[c].op = "GetMessage" /\ Ends(c, "other")
    /\ UNCHANGED <<box, cached, inflight>>

\* Mutant: Graph hands out what it has got, as IMAP does.
GraphErrorLoose(missed, full) == missed # {} /\ full \subseteq missed

\* listGraphMessages: a folder that was not read is an error, whatever the others hold.
GraphError(missed, full) == missed # {}

\* listIMAPMessages, listPasswordIMAP: only if nothing was read.
IMAPError(missed, full) == missed # {} /\ full \subseteq missed

ListError(missed, full) ==
    IF box = "graph" THEN GraphError(missed, full) ELSE IMAPError(missed, full)

\* full are the folders with mail in them, missed those that cannot be read.
Lists(c) ==
    \E full, missed \in SUBSET Folders :
        caller' = [caller EXCEPT ![c] =
            Ended([@ EXCEPT !.missed = missed # {}],
                  IF ListError(missed, full) THEN "other" ELSE "ok")]

ListMessages(c) ==
    /\ At(c, "use") /\ caller[c].op = "ListMessages"
    /\ Lists(c)
    /\ UNCHANGED <<box, cached, inflight>>

\* The password's way: no token, no second attempt.
ReadWithPassword(c) ==
    /\ At(c, "password")
    /\ \/ \E e \in {"temporary", "failed"} : Ends(c, e)
       \/ caller[c].op = "GetMessage" /\ \E e \in {"ok", "other"} : Ends(c, e)
       \/ caller[c].op = "ListMessages" /\ Lists(c)
    /\ UNCHANGED <<box, cached, inflight>>

Step(c) ==
    \/ ReadCache(c) \/ JoinOrLead(c) \/ RequestToken(c) \/ FinishRefresh(c) \/ StoreToken(c)
    \/ Refused(c) \/ Unavailable(c) \/ Answered(c) \/ ListMessages(c) \/ ReadWithPassword(c)

Next ==
    \/ Expire
    \/ \E c \in Callers :
        \/ \E op \in {"Verify", "ListMessages", "GetMessage"} : Begin(c, op)
        \/ GiveUpWaiting(c) \/ Step(c)

\* Every request has a time limit; nobody has to call, and nobody to give up.
Spec == Init /\ [][Next]_vars /\ \A c \in Callers : WF_vars(Step(c))

-----------------------------------------------------------------------------

\* The callers of a mailbox share one refresh: the token endpoint never sees
\* two requests for a refresh token at a time, and while callers wait one is
\* on its way.
OneRefresh ==
    LET leads == {c \in Callers : caller[c].pc \in {"request", "requestNoScope", "refreshed"}}
    IN /\ Cardinality(leads) <= 1
       /\ (\E c \in Callers : At(c, "wait")) => leads # {}

\* A list of a Graph mailbox without an error has read every folder: a code in
\* Junk is not missed because only INBOX answered.  (The IMAP lists keep no such
\* promise, and the model has them hand out what they have got.)
GraphComplete ==
    \A c \in Callers : caller[c].op = "ListMessages" /\ caller[c].err = "ok"
                       /\ box = "graph" => ~caller[c].missed

\* Whoever waits for another's refresh is answered: every call ends.
CallsEnd == \A c \in Callers : caller[c].pc # "idle" ~> caller[c].pc = "ended"
=============================================================================
