--------------------------- MODULE CaptchaSolver ---------------------------
(***************************************************************************)
(* The Arkose solvers of internal/captcha and the fallback of the Adobe    *)
(* producer: YesCaptcha first, 2Captcha when it fails, 2Captcha alone once *)
(* the page has refused a token.  2Captcha submits a task again while its  *)
(* workers call it unsolvable.  A solved challenge goes on at client.back, *)
(* one that nobody solved at "unsolved".                                   *)
(***************************************************************************)
EXTENDS SignupWorld

CONSTANT Submissions    \* attempts of TwoCaptcha.SolveFunCaptcha (6 in the code)

\* The services the settings name; without one there is no solver.
Services == {"yes", "two"}
Configured(c) == c.notes \cap Services

\* captchaSolver and captchaFallback: whose turn a challenge starts with.
Fallback(c)  == Services \subseteq c.notes
FirstTurn(c) == IF "yes" \in c.notes /\ ~(Fallback(c) /\ "secondaryOnly" \in c.notes)
                THEN "yes" ELSE "two"

\* A challenge is handed to the solver.
Hired(back) ==
    [client EXCEPT !.pc = "order", !.back = back, !.solver = FirstTurn(client),
                   !.solves = 0]

\* The challenge is over, solved or not.
Over(c, l) == [c EXCEPT !.pc = l, !.solver = "", !.solves = 0]

\* The engine solves nothing from here on, and forgets its way to here.
Solved(l) ==
    [client EXCEPT !.pc = l, !.notes = {}, !.back = "", !.tries = 0, !.rounds = 0]

\* YesCaptcha fails and there is 2Captcha.
FallsBack(c) ==
    /\ c.solver = "yes" /\ Fallback(c)
    /\ client' = [c EXCEPT !.pc = "order", !.solver = "two"]

\* 2Captcha's workers call the task unsolvable.
SubmitsAgain(c) ==
    /\ c.solver = "two" /\ c.solves < Submissions
    /\ client' = [c EXCEPT !.pc = "order"]

TaskFails(c) ==
    \/ FallsBack(c) \/ SubmitsAgain(c)
    \/ ~(c.solver = "yes" /\ Fallback(c)) /\ client' = Over(c, "unsolved")

\* createTask, or in.php.
OrderTask ==
    /\ At("adobe", "order")
    /\ LET c == [client EXCEPT !.solves = IF client.solver = "two" THEN @ + 1 ELSE @]
       IN client' = [c EXCEPT !.pc = "poll"] \/ TaskFails(c)
    /\ Quiet

\* wait, poll: the token or an error; a task not ready yet changes nothing.
PollTask ==
    /\ At("adobe", "poll")
    /\ client' = Over(client, client.back) \/ TaskFails(client)
    /\ Quiet

CaptchaNext == OrderTask \/ PollTask
=============================================================================
