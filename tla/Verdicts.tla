------------------------------ MODULE Verdicts ------------------------------
(***************************************************************************)
(* What the live checks of the four account platforms make of the answers  *)
(* they get (internal/livecheck).  An answer is one of:                    *)
(*   good          200 with what was asked for                             *)
(*   empty         200 without it                                          *)
(*   garbled       200 that is cut short or is not JSON                    *)
(*   signed_out    200 that says nobody is signed in                       *)
(*   unauthorized  401          forbidden  403        rejected  400        *)
(*   invalid       400 or 401 with an OAuth error about the credentials    *)
(*   blocked       403 of the network in front, not of the service         *)
(*   busy          429, 5xx and the rest                                   *)
(*   lost          no answer in time                                       *)
(***************************************************************************)
EXTENDS Naturals, FiniteSets

Answers == {"good", "empty", "garbled", "signed_out", "unauthorized", "forbidden",
            "rejected", "invalid", "blocked", "busy", "lost"}

(* The answers that say something about the account, according to the      *)
(* comment of the package: all others must leave it unknown.               *)
Denials == {"signed_out", "unauthorized", "forbidden", "rejected", "invalid"}

Judge(a, alive, dead) == IF a \in alive THEN "alive" ELSE IF a \in dead THEN "dead" ELSE "unknown"

probeAdobeToken(a) == Judge(a, {"good"}, {"unauthorized", "forbidden", "blocked", "rejected", "invalid"})
probeLeonardoSession(a) == Judge(a, {"good"}, {"empty", "garbled", "signed_out", "unauthorized", "forbidden", "blocked"})
callLovartUserInfo(a) == Judge(a, {"good"}, {"signed_out", "unauthorized", "forbidden", "blocked"})
consoleStatusFor(a) == Judge(a, {}, {"unauthorized", "forbidden"})
probeGrokRefresh(a) == Judge(a, {"good"}, {"invalid"})

(* Lovart: an access token that has run out is renewed first, one that is  *)
(* refused is renewed if it can be and tried again.                        *)
probeLovartSession(expired, renewal, first, second) ==
    IF expired /\ renewal /= "good" THEN "unknown"
    ELSE IF callLovartUserInfo(first) = "dead" /\ renewal = "good"
         THEN callLovartUserInfo(second) ELSE callLovartUserInfo(first)

Listed == {"good", "empty", "signed_out"}
\* Mutant: a proof token that was not given condemns the account.
ProbeConsoleHarshly(token, usage) ==
    IF token /= "good" THEN "dead" ELSE IF usage \in Listed THEN "alive" ELSE consoleStatusFor(usage)
(* Grok: the console gives a token and then the usage; any JSON will do    *)
(* for that, quotas in it or not.                                          *)
ProbeConsole(token, usage) ==
    IF token /= "good" THEN consoleStatusFor(token)
    ELSE IF usage \in Listed THEN "alive" ELSE consoleStatusFor(usage)

(* Without an SSO cookie, or when the console leaves it open, the refresh  *)
(* token is asked.                                                         *)
probeGrokOne(sso, refresh, token, usage, renewal) ==
    LET console == IF sso THEN ProbeConsole(token, usage) ELSE "unknown" IN
    IF console = "unknown" /\ refresh THEN probeGrokRefresh(renewal) ELSE console

(* What a check of an account can end with, and whether an answer it got   *)
(* denied the account.  A check whose proxy cannot be used, that finds no  *)
(* cookie or is cancelled leaves the account unknown.                      *)
Outcome(verdict, answers) == [verdict |-> verdict, denied |-> answers \cap Denials /= {}]
CheckAdobe == {Outcome("unknown", {})} \cup {Outcome(probeAdobeToken(a), {a}) : a \in Answers}
CheckLeonardo == {Outcome("unknown", {})} \cup {Outcome(probeLeonardoSession(a), {a}) : a \in Answers}
CheckLovart ==
    {Outcome("unknown", {})} \cup
    {Outcome(probeLovartSession(x[1], x[2], x[3], x[4]), {x[3], x[4]}) :
        x \in BOOLEAN \X {"good", "lost"} \X Answers \X Answers}
CheckGrok ==
    {Outcome("unknown", {})} \cup
    {Outcome(probeGrokOne(x[1], x[2], x[3], x[4], x[5]), {x[3], x[4], x[5]}) :
        x \in BOOLEAN \X BOOLEAN \X Answers \X Answers \X Answers}
=============================================================================
