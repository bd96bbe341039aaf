------------------------------ MODULE Accounts ------------------------------
(***************************************************************************)
(* The four account producers and the panel that drives them.  Each has    *)
(* its own table and its own slots and they share nothing, so a behaviour  *)
(* is that of one of them, picked at the start.                            *)
(***************************************************************************)
EXTENDS GrokProducer, AdobeProducer, LeonardoProducer, LovartProducer

Next == GrokNext \/ AdobeNext \/ LeonardoNext \/ LovartNext \/ Restart \/ Time

(* Every wait of a task and of a loop is bounded by a timer, a database    *)
(* call returns and the scheduler runs every goroutine; a queued task asks *)
(* for a slot every second, so it gets one of those given back before a    *)
(* loop, asleep for five, queues another.  The panel and the codes people  *)
(* type promise nothing.                                                   *)
Fairness ==
    /\ \A t \in Tasks : WF_vars(GrokRun(t) \/ AdobeRun(t) \/ LeonardoRun(t) \/ LovartRun(t))
    /\ \A t \in Tasks : SF_vars(AcquireSlot(t))
    /\ \A b \in Batches : WF_vars(BeginRun(b) \/ TrackRun(b) \/ BeginTopUp(b))
    /\ \A b \in Batches : WF_vars(GrokClaimTargets(b) \/ AdobeClaimTargets(b) \/ LeonardoClaimTargets(b) \/ LovartClaimTargets(b))
    /\ \A b \in Batches : WF_vars(GrokTopUp(b) \/ AdobeTopUp(b) \/ LeonardoTopUp(b) \/ LovartTopUp(b))
    /\ WF_vars(StartSave(platform = "adobe") \/ StartFails)

Spec == Init /\ [][Next]_vars
FairSpec == Spec /\ Fairness
=============================================================================
