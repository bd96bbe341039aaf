-------------------------- MODULE LeonardoProducer --------------------------
(***************************************************************************)
(* leonardoproducer: as AdobeProducer claims, with nothing kept of the row *)
(* found; an address that is taken is final; the session is tried out.    *)
(***************************************************************************)
EXTENDS AccountProducer

LeonardoAccounts(n) == FirstOf(n, Mothers \ Blocked)
LeonardoPool(n) == FirstOf(n, Pool \ Blocked)

LeonardoStart == (\E e \in Emails : StartRead(e)) \/ StartSave(FALSE) \/ StartFails
LeonardoStartFromAccounts(b) == \E n \in 1..MaxCount : Produce(b, n, LeonardoAccounts(Min2(n, Limit)))
LeonardoClaimTargets(b) ==
    \/ ClaimFails(b)
    \/ ClaimPool(b, LeonardoPool(batch[b].want - Cardinality(batch[b].picked)))
    \/ ClaimNext(b, {}, FALSE)
(* beginRun, trackRun, beginTopUp.                                          *)
LeonardoProgress(b) == BeginRun(b) \/ TrackRun(b) \/ BeginTopUp(b)
LeonardoTopUp(b) == Wake(b) \/ Decide(b, LeonardoAccounts(Short(b))) \/ NothingClaimed(b, CoolingFailure) \/ CoolingOver(b)

LeonardoRegistered(t) == Succeeds(t) /\ AttemptEnds(t, [status |-> "registered", auth |-> TRUE], TRUE) /\ RunOnly
LeonardoFailures == {"register_failed", "already_registered"}
LeonardoFailed(t) == (\E s \in LeonardoFailures : AttemptEnds(t, [status |-> s], FALSE)) /\ RunOnly
LeonardoCode(t) == CodeStep(t)
LeonardoSubmitOrStop == SubmitOrStop
LeonardoDeletes == DeleteRows
LeonardoRun(t) == Enter(t) \/ SlotStep(t) \/ LeonardoCode(t) \/ LeonardoRegistered(t) \/ LeonardoFailed(t) \/ SelfCheck(t)

LeonardoNext ==
             /\ platform = "leonardo"
             /\ \/ LeonardoStart \/ LeonardoSubmitOrStop \/ LeonardoDeletes
               \/ \E b \in Batches : LeonardoStartFromAccounts(b) \/ LeonardoClaimTargets(b)
                                     \/ LeonardoProgress(b) \/ LeonardoTopUp(b)
               \/ \E t \in Tasks : LeonardoRun(t)
=============================================================================
