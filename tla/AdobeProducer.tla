---------------------------- MODULE AdobeProducer ----------------------------
(***************************************************************************)
(* adobeproducer: an account once created cannot be created again, so a    *)
(* row whose session did not land is marked arp_failed and its cookies are *)
(* kept; a later run restores the session instead of signing up, and       *)
(* Rescue does so for an account that is registered but no longer lives.   *)
(***************************************************************************)
EXTENDS AccountProducer

AdobeAccounts(n) == FirstOf(n, Mothers \ Blocked)
AdobePool(n) == FirstOf(n, Pool \ Blocked)

AdobeStart == (\E e \in Emails : StartRead(e)) \/ StartSave(TRUE) \/ StartFails
AdobeStartFromAccounts(b) == \E n \in 1..MaxCount : Produce(b, n, AdobeAccounts(Min2(n, Limit)))
AdobeClaimTargets(b) ==
    \/ ClaimFails(b)
    \/ ClaimPool(b, AdobePool(batch[b].want - Cardinality(batch[b].picked)))
    \/ ClaimNext(b, {}, TRUE)
(* beginRun, trackRun, beginTopUp.                                          *)
AdobeProgress(b) == BeginRun(b) \/ TrackRun(b) \/ BeginTopUp(b)
AdobeTopUp(b) == Wake(b) \/ Decide(b, AdobeAccounts(Short(b))) \/ NothingClaimed(b, CoolingFailure) \/ CoolingOver(b)

(* A created account without its cookies is given up before it takes a     *)
(* slot; with them the run is a restoration.                               *)
AdobeEnter(t) ==
    LET id == task[t].id
        lost == Exists(id) /\ row[id].arp /\ ~row[id].auth IN
    /\ task[t].pc = "spawned" /\ task[t].kind = "run"
    /\ cancel' = [cancel EXCEPT ![id] = t]
    /\ task' = [task EXCEPT ![t].pc = IF Exists(id) /\ ~lost THEN "queued" ELSE "leaving",
                            ![t].box = row[id].box, ![t].restore = row[id].arp]
    /\ IF lost THEN Update(id, [status |-> "account_exists"]) ELSE UNCHANGED <<row, age>>
    /\ UNCHANGED <<waiter, active>> /\ RunOnly

AdobeRegistered(t) ==
    /\ Succeeds(t) /\ task[t].kind = "run"
    /\ AttemptEnds(t, [status |-> "registered", auth |-> TRUE, arp |-> FALSE], TRUE) /\ RunOnly
AdobeFailed(t) == task[t].kind = "run" /\ AttemptEnds(t, [status |-> "register_failed"], FALSE) /\ RunOnly
AdobeAccountExists(t) ==
    /\ task[t].kind = "run" /\ ~task[t].restore
    /\ AttemptEnds(t, [status |-> "account_exists"], FALSE) /\ RunOnly
(* ErrSessionLanding, or a success that brought no cookies.                *)
AdobeSessionLost(t) ==
    /\ task[t].kind = "run" /\ AttemptEnds(t, [status |-> "account_exists", arp |-> TRUE], FALSE) /\ RunOnly

(* Rescue refuses a row that has a task; RescueAllDead asks it for every   *)
(* registered row found dead.                                              *)
Rescuable(id) == Exists(id) /\ row[id].auth /\ cancel[id] = 0
RescueAll(ids) ==
    /\ Request(TRUE) /\ ids /= {} /\ Spawn(ids, "rescue", 0)
    /\ twin' = twin \cup Overlapping(ids) /\ adrift' = adrift \cup ids
    /\ UNCHANGED <<platform, row, age, born, cancel, waiter, active, progress, batch, start>>
Rescue(id) == Rescuable(id) /\ RescueAll({id})
RescueAllDead == RescueAll({id \in Rows : Rescuable(id) /\ row[id].status = "registered" /\ row[id].dead})

RescueEnter(t) ==
    LET id == task[t].id IN
    /\ task[t].pc = "spawned" /\ task[t].kind = "rescue"
    /\ IF cancel[id] /= 0 THEN task' = [task EXCEPT ![t] = Unborn] /\ UNCHANGED cancel
       ELSE /\ cancel' = [cancel EXCEPT ![id] = t]
            /\ task' = [task EXCEPT ![t].pc = IF Exists(id) /\ row[id].auth THEN "queued" ELSE "leaving",
                                    ![t].box = row[id].box]
    /\ UNCHANGED <<row, age, waiter, active>> /\ RunOnly
(* A rescue that fails writes nothing but its log.                         *)
RescueEnds(t) ==
    /\ task[t].kind = "rescue"
    /\ \/ Succeeds(t) /\ AttemptEnds(t, [status |-> "registered", auth |-> TRUE, arp |-> FALSE], TRUE)
       \/ AttemptEnds(t, <<>>, FALSE)
    /\ RunOnly

AdobeCode(t) == CodeStep(t)
AdobeSubmitOrStop == SubmitOrStop
AdobeDeletes == DeleteRows
AdobeRun(t) == \/ SlotStep(t) \/ AdobeCode(t) \/ AdobeEnter(t) \/ AdobeRegistered(t)
               \/ AdobeFailed(t) \/ AdobeAccountExists(t) \/ AdobeSessionLost(t) \/ SelfCheck(t)
               \/ RescueEnter(t) \/ RescueEnds(t)

AdobeNext == /\ platform = "adobe"
             /\ \/ AdobeStart \/ AdobeSubmitOrStop \/ AdobeDeletes
               \/ \E b \in Batches : AdobeStartFromAccounts(b) \/ AdobeClaimTargets(b)
                                     \/ AdobeProgress(b) \/ AdobeTopUp(b)
               \/ \E t \in Tasks : AdobeRun(t)
               \/ \E id \in Rows : Rescue(id)
               \/ RescueAllDead
=============================================================================
