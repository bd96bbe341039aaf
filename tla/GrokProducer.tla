---------------------------- MODULE GrokProducer ----------------------------
(***************************************************************************)
(* grokproducer: any registered ChatGPT account may be used, aliases too,  *)
(* so one run per mailbox and a rest between two of them; a refused        *)
(* address is final, and when x.ai takes no addresses at all the loop ends.*)
(***************************************************************************)
EXTENDS AccountProducer

GrokAccounts == {e \in Accounts \ Blocked : BoxOf[e] \in {BoxOf[p] : p \in Pool} \ BusyBoxes}
GrokPool == {e \in Pool \ Blocked : BoxOf[e] \notin BusyBoxes}

GrokStart == (\E e \in Emails : StartRead(e)) \/ StartSave(FALSE) \/ StartFails
GrokStartFromAccounts(b) == \E n \in 1..MaxCount : Produce(b, n, GrokAccounts)

\* Mutant: they are.
GrokNeverSkips(b, e) == FALSE

(* Two addresses of one mailbox are never claimed together.                *)
GrokSkips(b, e) == \E id \in batch[b].picked : row[id].box = BoxOf[e]
GrokClaimTargets(b) == ClaimFails(b) \/ ClaimPool(b, GrokPool) \/ ClaimNext(b, {e \in Emails : GrokSkips(b, e)}, FALSE)

(* beginRun, trackRun, beginTopUp.                                          *)
GrokProgress(b) == BeginRun(b) \/ TrackRun(b) \/ BeginTopUp(b)
GrokTopUp(b) == LoopTop(b) \/ Wake(b) \/ Decide(b, GrokAccounts)
                \/ NothingClaimed(b, CoolingFailure \/ JustRun) \/ CoolingOver(b)

(* How a run ends: registered, a failure, an address that is taken, or     *)
(* no sign-up by address, which also ends the loop that is registered.     *)
GrokRegistered(t) == Succeeds(t) /\ AttemptEnds(t, [status |-> "registered", auth |-> TRUE], FALSE) /\ RunOnly
GrokFailed(t) == (\E s \in {"register_failed", "already_registered"} : AttemptEnds(t, [status |-> s], FALSE)) /\ RunOnly
GrokUnavailable(t) ==
    /\ AttemptEnds(t, [status |-> "register_failed"], FALSE)
    /\ runError' = TRUE /\ EndTopUp /\ batch' = Ended(batch)
    /\ UNCHANGED <<platform, born, runTracked, start, history>>

GrokCode(t) == CodeStep(t)
GrokSubmitOrStop == SubmitOrStop
GrokDeletes == DeleteRows
GrokRun(t) == Enter(t) \/ SlotStep(t) \/ GrokCode(t) \/ GrokRegistered(t) \/ GrokFailed(t) \/ GrokUnavailable(t)

GrokNext == /\ platform = "grok"
            /\ \/ GrokStart \/ GrokSubmitOrStop \/ GrokDeletes
               \/ \E b \in Batches : GrokStartFromAccounts(b) \/ GrokClaimTargets(b)
                                     \/ GrokProgress(b) \/ GrokTopUp(b)
               \/ \E t \in Tasks : GrokRun(t)
=============================================================================
