-------------------------- MODULE LovartProducer --------------------------
(***************************************************************************)
(* lovartproducer: as leonardoproducer, but an attempt that fails is       *)
(* always one to repeat: the engine has no answer for an address that is taken.   *)
(***************************************************************************)
EXTENDS AccountProducer

LovartAccounts(n) == FirstOf(n, Mothers \ Blocked)
LovartPool(n) == FirstOf(n, Pool \ Blocked)

LovartStart == (\E e \in Emails : StartRead(e)) \/ StartSave(FALSE) \/ StartFails
LovartStartFromAccounts(b) == \E n \in 1..MaxCount : Produce(b, n, LovartAccounts(Min2(n, Limit)))
LovartClaimTargets(b) ==
    \/ ClaimFails(b)
    \/ ClaimPool(b, LovartPool(batch[b].want - Cardinality(batch[b].picked)))
    \/ ClaimNext(b, {}, FALSE)
(* beginRun, trackRun, beginTopUp.                                          *)
LovartProgress(b) == BeginRun(b) \/ TrackRun(b) \/ BeginTopUp(b)
LovartTopUp(b) == Wake(b) \/ Decide(b, LovartAccounts(Short(b))) \/ NothingClaimed(b, CoolingFailure) \/ CoolingOver(b)

LovartRegistered(t) == Succeeds(t) /\ AttemptEnds(t, [status |-> "registered", auth |-> TRUE], TRUE) /\ RunOnly
LovartFailed(t) == AttemptEnds(t, [status |-> "register_failed"], FALSE) /\ RunOnly
LovartCode(t) == CodeStep(t)
LovartSubmitOrStop == SubmitOrStop
LovartDeletes == DeleteRows
LovartRun(t) == Enter(t) \/ SlotStep(t) \/ LovartCode(t) \/ LovartRegistered(t) \/ LovartFailed(t) \/ SelfCheck(t)

LovartNext ==
             /\ platform = "lovart"
             /\ \/ LovartStart \/ LovartSubmitOrStop \/ LovartDeletes
               \/ \E b \in Batches : LovartStartFromAccounts(b) \/ LovartClaimTargets(b)
                                     \/ LovartProgress(b) \/ LovartTopUp(b)
               \/ \E t \in Tasks : LovartRun(t)
=============================================================================
