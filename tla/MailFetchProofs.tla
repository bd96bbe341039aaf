--------------------------- MODULE MailFetchProofs ---------------------------
(* Proofs about MailFetch: the callers of one mailbox share one refresh,   *)
(* which always has its leader, and a list of a Graph mailbox without an   *)
(* error has read every folder.                                            *)
EXTENDS MailFetch, FiniteSetTheorems, TLAPS

Leading == {"request", "requestNoScope", "refreshed"}
Leads   == {c \in Callers : caller[c].pc \in Leading}

\* A record of a call; its fields' values are what the actions say.
Call(r) == DOMAIN r = {"op", "pc", "tries", "err", "missed"}

TypeOK ==
    /\ cached \in BOOLEAN
    /\ inflight \in BOOLEAN
    /\ caller = [c \in Callers |-> caller[c]]
    /\ \A c \in Callers : Call(caller[c])

\* A refresh is registered exactly while one caller is making it, and whoever
\* waits was told so.
Flight ==
    /\ inflight <=> Leads # {}
    /\ \A c, d \in Leads : c = d
    /\ \A c \in Callers : At(c, "wait") => inflight

\* A folder that was not read is remembered by calls that are over only, and
\* over Graph by none without an error.
Told(r) == r.missed => r.pc = "ended" /\ (box = "graph" => r.err = "other")

Missed == \A c \in Callers : Told(caller[c])

IInv == TypeOK /\ Flight /\ Missed

\* One caller moves to one of some stages, and nobody else does anything.
Moves(c, stages) ==
    /\ caller' = [w \in Callers |-> caller'[w]]
    /\ \A w \in Callers \ {c} : caller'[w] = caller[w]
    /\ Call(caller'[c]) /\ caller'[c].pc \in stages
    /\ Told(caller'[c])
    /\ cached' \in BOOLEAN /\ box' = box

-----------------------------------------------------------------------------
(* The helpers of the actions.                                             *)

\* A call that ends keeps what it is and what it missed.
LEMMA EndedCall ==
  ASSUME NEW r, Call(r), NEW e
  PROVE  /\ Call(Ended(r, e))
         /\ Ended(r, e).pc = "ended" /\ Ended(r, e).err = e
         /\ Ended(r, e).op = r.op /\ Ended(r, e).missed = r.missed
BY DEF Ended, Call

\* A token error ends a call or sends it back for another token.
LEMMA AfterErrorCall ==
  ASSUME NEW r, Call(r), NEW e
  PROVE  /\ Call(AfterError(r, e))
         /\ AfterError(r, e).pc \in {"token", "ended"}
         /\ AfterError(r, e).missed = r.missed
<1>1. CASE r.op = "Verify" /\ e = "temporary" /\ r.tries < 2
  BY <1>1 DEF AfterError, Call
<1>2. CASE ~(r.op = "Verify" /\ e = "temporary" /\ r.tries < 2)
  BY <1>2, EndedCall DEF AfterError
<1> QED BY <1>1, <1>2

\* At most one of two leaders, the form the invariant of the run has.
LEMMA FewLeads ==
  ASSUME \A c, d \in Leads : c = d
  PROVE  Cardinality(Leads) <= 1
<1>1. CASE Leads = {}
  BY <1>1, FS_EmptySet
<1>2. CASE Leads # {}
  <2>1. PICK c \in Leads : Leads = {c}
    BY <1>2
  <2>2. Cardinality({c}) = 1
    BY FS_Singleton
  <2>3. Cardinality(Leads) = 1
    BY <2>1, <2>2
  <2> QED BY <2>3
<1> QED BY <1>1, <1>2

-----------------------------------------------------------------------------
(* What the actions do to the calls.                                       *)

\* A list is without an error over Graph only if no folder was missed.
LEMMA ListsMoves ==
  ASSUME IInv, NEW c \in Callers, Lists(c), box' = box, cached' = cached
  PROVE  Moves(c, {"ended"})
<1>1. PICK full, missed \in SUBSET Folders :
        caller' = [caller EXCEPT ![c] =
            Ended([@ EXCEPT !.missed = missed # {}],
                  IF ListError(missed, full) THEN "other" ELSE "ok")]
  BY DEF Lists
<1> DEFINE r == [caller[c] EXCEPT !.missed = missed # {}]
           e == IF ListError(missed, full) THEN "other" ELSE "ok"
<1>2. Call(r) /\ (r.missed => missed # {})
  BY DEF IInv, TypeOK, Call
<1>3. caller'[c] = Ended(r, e) /\ \A w \in Callers \ {c} : caller'[w] = caller[w]
  BY <1>1 DEF IInv, TypeOK
<1>4. caller' = [w \in Callers |-> caller'[w]]
  BY <1>1 DEF IInv, TypeOK
<1>5. box = "graph" /\ missed # {} => e = "other"
  BY DEF ListError, GraphError
<1> HIDE DEF r, e
<1> QED BY <1>2, <1>3, <1>4, <1>5, EndedCall DEF Moves, Told, IInv, TypeOK

\* A call ends with an outcome of another kind.
LEMMA EndsMoves ==
  ASSUME IInv, NEW c \in Callers, NEW e, Ends(c, e), ~At(c, "ended"),
         box' = box, cached' \in BOOLEAN
  PROVE  Moves(c, {"ended"})
<1>1. caller'[c] = Ended(caller[c], e) /\ \A w \in Callers \ {c} : caller'[w] = caller[w]
  BY DEF IInv, TypeOK, Ends
<1>2. caller' = [w \in Callers |-> caller'[w]]
  BY DEF IInv, TypeOK, Ends
<1>3. ~caller[c].missed
  BY DEF IInv, Missed, Told, At
<1> QED BY <1>1, <1>2, <1>3, EndedCall DEF Moves, Told, IInv, TypeOK

\* The steps that have nothing to do with the refresh leave it alone.
LEMMA MovesElsewhere ==
  ASSUME IInv, NEW c \in Callers, c \notin Leads, inflight' = inflight,
         NEW stages, stages \cap (Leading \cup {"wait"}) = {}, Moves(c, stages)
  PROVE  IInv'
<1>1. TypeOK' /\ Missed'
  BY DEF IInv, TypeOK, Missed, Moves, Told
<1>2. c \notin Leads' /\ ~At(c, "wait")'
  BY DEF Leads, Moves, At
<1>3. Leads' = Leads
  BY <1>2 DEF Leads, Moves
<1>4. Flight'
  BY <1>2, <1>3 DEF IInv, Flight, Moves, At
<1> QED BY <1>1, <1>4 DEF IInv

-----------------------------------------------------------------------------
(* The invariant.                                                          *)

\* Nobody has called, and no refresh is registered.
LEMMA Initially == Init => IInv
<1> SUFFICES ASSUME Init PROVE IInv
  OBVIOUS
<1>1. caller = [c \in Callers |-> NewCall] /\ cached = FALSE /\ inflight = FALSE
  BY DEF Init
<1>2. TypeOK
  <2>1. Call(NewCall)
    BY DEF Call, NewCall
  <2> QED BY <1>1, <2>1 DEF TypeOK
<1>3. Leads = {} /\ \A c \in Callers : ~At(c, "wait")
  BY <1>1 DEF Leads, Leading, NewCall, At
<1>4. Flight
  BY <1>1, <1>3 DEF Flight
<1>5. Missed
  BY <1>1 DEF Missed, Told, NewCall
<1> QED BY <1>2, <1>4, <1>5 DEF IInv

\* A step of a caller outside the refresh: its start, its token, its reading.
LEMMA ReadingKeeps ==
  ASSUME IInv, NEW c \in Callers,
         \/ \E op \in {"Verify", "ListMessages", "GetMessage"} : Begin(c, op)
         \/ GiveUpWaiting(c) \/ ReadCache(c) \/ StoreToken(c) \/ Refused(c)
         \/ Unavailable(c) \/ Answered(c) \/ ListMessages(c) \/ ReadWithPassword(c)
  PROVE  IInv'
<1> DEFINE stages == {"password", "token", "use", "miss", "ended"}
<1>1. Moves(c, stages) /\ c \notin Leads /\ inflight' = inflight
  <2> USE DEF IInv, TypeOK, Leads, Leading, At
  <2>1. ASSUME NEW op, Begin(c, op) PROVE Moves(c, stages) /\ c \notin Leads /\ inflight' = inflight
    <3>1. caller'[c].pc \in {"password", "token"} /\ ~caller'[c].missed /\ Call(caller'[c])
      BY <2>1 DEF Begin, Call, Missed, Told
    <3> QED BY <2>1, <3>1 DEF Begin, Moves, Told
  <2>2. CASE GiveUpWaiting(c)
    BY <2>2, EndsMoves DEF GiveUpWaiting, Moves
  <2>3. CASE ReadCache(c)
    <3>1. caller'[c].pc \in {"use", "miss"} /\ ~caller'[c].missed /\ Call(caller'[c])
      BY <2>3 DEF ReadCache, Goes, Call, Missed, Told
    <3> QED BY <2>3, <3>1 DEF ReadCache, Goes, Moves, Told
  <2>4. CASE StoreToken(c)
    <3>1. caller'[c].pc = "use" /\ ~caller'[c].missed /\ Call(caller'[c])
      BY <2>4 DEF StoreToken, Goes, Call, Missed, Told
    <3> QED BY <2>4, <3>1 DEF StoreToken, Goes, Moves, Told
  <2>5. CASE Refused(c)
    <3>1. CASE Ends(c, "refused") /\ UNCHANGED cached
      BY <2>5, <3>1, EndsMoves DEF Refused, Moves
    <3>2. CASE /\ cached' = FALSE
               /\ caller' = [caller EXCEPT ![c] =
                    [caller[c] EXCEPT !.pc = "token", !.tries = @ + 1]]
      <4>1. caller'[c].pc = "token" /\ ~caller'[c].missed /\ Call(caller'[c])
        BY <2>5, <3>2 DEF Refused, Call, Missed, Told
      <4> QED BY <2>5, <3>2, <4>1 DEF Refused, Moves, Told
    <3>3. CASE cached' = FALSE /\ Ends(c, "failed")
      BY <2>5, <3>3, EndsMoves DEF Refused, Moves
    <3> QED BY <2>5, <3>1, <3>2, <3>3 DEF Refused, Ends
  <2>6. CASE Unavailable(c)
    <3>1. Call(AfterError(caller[c], "temporary"))
          /\ AfterError(caller[c], "temporary").pc \in {"token", "ended"}
          /\ ~AfterError(caller[c], "temporary").missed
      BY <2>6, AfterErrorCall DEF Unavailable, Missed, Told
    <3> QED BY <2>6, <3>1 DEF Unavailable, Moves, Told
  <2>7. CASE Answered(c)
    BY <2>7, EndsMoves DEF Answered, Moves
  <2>8. CASE ListMessages(c)
    BY <2>8, ListsMoves DEF ListMessages, Moves
  <2>9. CASE ReadWithPassword(c)
    <3>1. CASE Lists(c)
      BY <2>9, <3>1, ListsMoves DEF ReadWithPassword, Moves
    <3>2. ASSUME NEW e, Ends(c, e) PROVE Moves(c, stages)
      BY <2>9, <3>2, EndsMoves DEF ReadWithPassword, Moves
    <3> QED BY <2>9, <3>1, <3>2 DEF ReadWithPassword
  <2> QED BY <2>1, <2>2, <2>3, <2>4, <2>5, <2>6, <2>7, <2>8, <2>9
<1>2. stages \cap (Leading \cup {"wait"}) = {}
  BY DEF Leading
<1> QED BY <1>1, <1>2, MovesElsewhere

\* A caller without a token waits for the refresh that is registered, or leads
\* the one it registers.
LEMMA JoinOrLeadKeeps ==
  ASSUME IInv, NEW c \in Callers, JoinOrLead(c)
  PROVE  IInv'
<1>1. Moves(c, {IF inflight THEN "wait" ELSE "request"}) /\ inflight' = TRUE
  <2>1. /\ caller'[c].pc = IF inflight THEN "wait" ELSE "request"
        /\ ~caller'[c].missed /\ Call(caller'[c])
    BY DEF JoinOrLead, Goes, At, Call, Missed, Told, IInv, TypeOK
  <2> QED BY <2>1 DEF JoinOrLead, Goes, Moves, Told, IInv, TypeOK
<1>2. TypeOK' /\ Missed'
  BY <1>1 DEF IInv, TypeOK, Missed, Moves, Told
<1>3. Leads' = IF inflight THEN Leads ELSE {c}
  <2>1. c \notin Leads
    BY DEF JoinOrLead, At, Leads, Leading
  <2>2. ~inflight => Leads = {}
    BY DEF IInv, Flight
  <2> QED BY <1>1, <2>1, <2>2 DEF Leads, Leading, Moves
<1>4. Flight'
  BY <1>1, <1>3 DEF IInv, Flight, At
<1> QED BY <1>2, <1>4 DEF IInv

\* The leader of a refresh asks the token endpoint: it stays the leader.
LEMMA RequestTokenKeeps ==
  ASSUME IInv, NEW c \in Callers, RequestToken(c)
  PROVE  IInv'
<1>1. ASSUME NEW e, caller' = [caller EXCEPT ![c].pc = "refreshed", ![c].err = e]
      PROVE  Moves(c, {"refreshed"})
  <2>1. caller'[c].pc = "refreshed" /\ ~caller'[c].missed /\ Call(caller'[c])
    BY <1>1 DEF RequestToken, At, Call, Missed, Told, IInv, TypeOK
  <2> QED BY <1>1, <2>1 DEF RequestToken, Moves, Told, IInv, TypeOK
<1>2. ASSUME Goes(c, "requestNoScope") PROVE Moves(c, {"requestNoScope"})
  <2>1. caller'[c].pc = "requestNoScope" /\ ~caller'[c].missed /\ Call(caller'[c])
    BY <1>2 DEF RequestToken, Goes, At, Call, Missed, Told, IInv, TypeOK
  <2> QED BY <1>2, <2>1 DEF RequestToken, Goes, Moves, Told, IInv, TypeOK
<1>3. Moves(c, {"refreshed", "requestNoScope"}) /\ inflight' = inflight
  BY <1>1, <1>2 DEF RequestToken, Moves
<1>4. TypeOK' /\ Missed'
  BY <1>3 DEF IInv, TypeOK, Missed, Moves, Told
<1>5. Leads' = Leads
  BY <1>3 DEF RequestToken, At, Leads, Leading, Moves
<1>6. Flight'
  BY <1>3, <1>5 DEF IInv, Flight, At, Moves
<1> QED BY <1>4, <1>6 DEF IInv

\* The refresh is over: nobody leads one, and nobody waits any longer.
LEMMA FinishRefreshKeeps ==
  ASSUME IInv, NEW c \in Callers, FinishRefresh(c)
  PROVE  IInv'
<1> DEFINE e == caller[c].err
<1>1. ASSUME NEW w \in Callers
      PROVE  /\ Call(caller'[w]) /\ Told(caller[w])'
             /\ caller'[w].pc \notin Leading \cup {"wait"}
  <2>1. CASE w \notin Answers(c, e)
    <3>1. caller'[w] = caller[w]
      BY <2>1 DEF FinishRefresh
    <3>2. w \notin Leads
      BY <2>1 DEF IInv, Flight, FinishRefresh, Answers, Leads, Leading, At
    <3>3. ~At(w, "wait")
      BY <2>1 DEF Answers
    <3> QED BY <3>1, <3>2, <3>3 DEF IInv, TypeOK, Missed, Told, Leads, At, FinishRefresh
  <2>2. CASE w \in Answers(c, e)
    <3>1. ~caller[w].missed /\ Call(caller[w])
      BY <2>2 DEF IInv, TypeOK, Missed, Told, Answers, At, FinishRefresh
    <3>2. CASE e # "ok"
      <4>1. caller'[w] = AfterError(caller[w], e)
        BY <2>2, <3>2 DEF FinishRefresh
      <4> QED BY <3>1, <4>1, AfterErrorCall DEF Told, Leading
    <3>3. CASE e = "ok"
      <4>1. caller'[w] = [caller[w] EXCEPT !.pc = IF w = c THEN "store" ELSE "use", !.err = ""]
        BY <2>2, <3>3 DEF FinishRefresh
      <4> QED BY <3>1, <4>1 DEF Told, Leading, Call
    <3> QED BY <3>2, <3>3
  <2> QED BY <2>1, <2>2
<1>2. TypeOK' /\ Missed'
  <2>1. cached' \in BOOLEAN /\ inflight' \in BOOLEAN /\ caller' = [w \in Callers |-> caller'[w]]
    BY DEF FinishRefresh, IInv, TypeOK
  <2> QED BY <1>1, <2>1 DEF TypeOK, Missed
<1>3. inflight' = FALSE /\ Leads' = {} /\ \A w \in Callers : ~At(w, "wait")'
  BY <1>1 DEF FinishRefresh, Leads, At
<1>4. Flight'
  BY <1>3 DEF Flight
<1> QED BY <1>2, <1>4 DEF IInv

\* Every step keeps the invariant.
LEMMA EveryStep == IInv /\ [Next]_vars => IInv'
<1> SUFFICES ASSUME IInv, [Next]_vars PROVE IInv'
  OBVIOUS
<1>1. CASE Expire
  BY <1>1 DEF Expire, IInv, TypeOK, Flight, Missed, Told, Leads, At
<1>2. ASSUME NEW c \in Callers,
             \/ \E op \in {"Verify", "ListMessages", "GetMessage"} : Begin(c, op)
             \/ GiveUpWaiting(c) \/ Step(c)
      PROVE  IInv'
  BY <1>2, ReadingKeeps, JoinOrLeadKeeps, RequestTokenKeeps, FinishRefreshKeeps DEF Step
<1>3. CASE UNCHANGED vars
  BY <1>3 DEF vars, IInv, TypeOK, Flight, Missed, Told, Leads, At
<1> QED BY <1>1, <1>2, <1>3 DEF Next

\* The invariant holds in every state of the mail reader.
THEOREM Invariance == Spec => []IInv
<1> QED BY Initially, EveryStep, PTL DEF Spec

-----------------------------------------------------------------------------
(* What the runs check.                                                    *)

\* However many callers read a mailbox at once, its refresh token is never
\* used by two requests at a time, and whoever waits waits for one.
THEOREM OneRefreshAlways == Spec => []OneRefresh
<1>1. IInv => OneRefresh
  <2> SUFFICES ASSUME IInv PROVE OneRefresh
    OBVIOUS
  <2>1. Cardinality(Leads) <= 1
    BY FewLeads DEF IInv, Flight
  <2>2. (\E c \in Callers : At(c, "wait")) => Leads # {}
    BY DEF IInv, Flight
  <2> QED BY <2>1, <2>2 DEF OneRefresh, Leads, Leading
<1> QED BY <1>1, Invariance, PTL

\* Over Graph a list that misses a folder is an error, whatever became of the
\* token and of the attempts before.
THEOREM GraphCompleteAlways == Spec => []GraphComplete
<1>1. IInv => GraphComplete
  BY DEF IInv, Missed, Told, GraphComplete
<1> QED BY <1>1, Invariance, PTL
=============================================================================
