-------------------------- MODULE CredentialsProofs --------------------------
(* Proofs about Credentials: the refresh token that is good is stored or   *)
(* on its way, a late request loses to the newer row, a token whose        *)
(* saved refusal stays blocked, and no request gets an outcome of before.  *)
EXTENDS Credentials, TLAPS

Frozen == {"refresh", "unanswered", "probe", "persist", "fail"}
Busy   == {"read", "reread", "store"} \cup Frozen
Open   == {"waiting"} \cup Busy

RowOK(row) ==
    /\ DOMAIN row = {"status", "token", "rt", "cookies", "cred", "access", "relogin", "recent", "ver", "shipped"}
    /\ row.ver \in Nat /\ row.rt \in 0..issued /\ row.token \in 0..issued
ReqOK(q) ==
    /\ DOMAIN q = {"pc", "id", "migrates", "since", "ver0", "late", "attempt", "row", "token", "rt", "verdict", "outcome"}
    /\ q.pc \in Open => q.id \in Ids
    /\ RowOK(q.row) /\ q.ver0 \in Nat /\ q.since \in Nat /\ q.rt \in 0..issued /\ q.token \in 0..issued
    /\ DOMAIN q.verdict = {"cred", "access", "relogin"}
    /\ DOMAIN q.outcome = {"exportable", "ver"} /\ q.outcome.ver \in Nat
EditOK(d) ==
    /\ DOMAIN d = {"pc", "id", "row"}
    /\ RowOK(d.row) /\ (d.pc = "read" => d.id \in Ids)
FinishedOK(f) == f.n \in Nat /\ DOMAIN f.outcome = {"exportable", "ver"} /\ f.outcome.ver \in Nat

\* What the records and the functions are.
Shape ==
    /\ issued \in Nat \ {0}
    /\ reg = [i \in Ids |-> reg[i]] /\ good = [i \in Ids |-> good[i]] /\ expired = [i \in Ids |-> expired[i]]
    /\ denied = [i \in Ids |-> denied[i]] /\ recorded = [i \in Ids |-> recorded[i]] /\ finished = [i \in Ids |-> finished[i]]
    /\ \A i \in Ids : RowOK(reg[i]) /\ good[i] \in 0..issued /\ recorded[i] \subseteq 0..issued /\ FinishedOK(finished[i])
    /\ req = [r \in Requests |-> req[r]] /\ \A r \in Requests : ReqOK(req[r])
    /\ edit = [e \in Edits |-> edit[e]] /\ \A e \in Edits : EditOK(edit[e])

\* The lock of an account has one holder.
Lone == \A r, s \in Requests :
    req[r].pc \in Busy /\ req[s].pc \in Busy /\ req[r].id = req[s].id => r = s

\* A token whose refusal was saved is marked as such or has run out, and no
\* token is marked that was not refused.
Blocked(i, token, access) ==
    /\ token \in recorded[i] => access = "revoked" \/ token \in expired[i]
    /\ access = "revoked" => token \in denied[i]

\* A row that was read is an earlier one, or differs at most in what is
\* written without a new version.
Snap(i, row) ==
    /\ row.ver <= reg[i].ver
    /\ row.ver = reg[i].ver => row.rt = reg[i].rt /\ row.token = reg[i].token /\ row.access = reg[i].access

Carries(r, i) == req[r].pc \in {"probe", "persist"} /\ req[r].id = i /\ req[r].rt # 0 /\ req[r].rt = good[i]

RowSound(i) == i \notin edited =>
    /\ Blocked(i, reg[i].token, reg[i].access) /\ recorded[i] \subseteq denied[i]
    /\ i \in adrift \/ reg[i].rt = good[i] \/ \E r \in Requests : Carries(r, i)

Working(q, i) == q.pc \in Frozen =>
    /\ Snap(i, q.row) /\ Blocked(i, q.row.token, q.row.access)
    /\ q.rt # 0 => q.pc \in {"probe", "persist"} /\ q.rt > q.row.rt /\ (q.rt = good[i] \/ q.row.ver < reg[i].ver)
    /\ q.pc \in {"probe", "persist"} => q.token = q.row.token \/ q.token \notin recorded[i]
    /\ q.pc = "persist" => Blocked(i, q.token, q.verdict.access)
    /\ q.pc = "fail" => q.verdict.access = q.row.access

\* An outcome that is not too old for a request.
Serves(o, q) == o.ver >= q.ver0 \/ o.ver \in q.late
Asked(q, i) == q.pc \in Open => q.ver0 <= reg[i].ver
Waits(q, i) == q.pc = "waiting" =>
    /\ q.since <= finished[i].n
    /\ finished[i].n > q.since /\ finished[i].outcome.exportable => Serves(finished[i].outcome, q)
Current(q) == q.pc \in {"store", "over"} /\ q.outcome.exportable => Serves(q.outcome, q)
RequestSound(q) == q.id \notin edited => Working(q, q.id) /\ Asked(q, q.id) /\ Waits(q, q.id) /\ Current(q)
\* What a request is about to store serves whoever waits for it.
Passes(h, w) ==
    h.pc = "store" /\ w.pc = "waiting" /\ h.id = w.id /\ h.id \notin edited /\ h.outcome.exportable => Serves(h.outcome, w)
EditSound(d) == d.pc = "read" /\ d.id \notin edited => Snap(d.id, d.row)

IInv ==
    /\ Shape /\ Lone
    /\ \A i \in Ids : RowSound(i)
    /\ \A r \in Requests : RequestSound(req[r])
    /\ \A e \in Edits : EditSound(edit[e])
    /\ \A h, w \in Requests : Passes(req[h], req[w])

-----------------------------------------------------------------------------
(* What a request's step leaves alone.                                     *)

\* Row i is the same as far as snapshots tell, or has a newer version.
Newer(i) ==
    \/ reg'[i].ver > reg[i].ver
    \/ reg'[i].ver = reg[i].ver /\ reg'[i].rt = reg[i].rt /\ reg'[i].token = reg[i].token /\ reg'[i].access = reg[i].access

\* Request r works on its account: nothing of the others changes, and nothing
\* of the account itself unless r holds its lock.
Acts(r) == LET i == req[r].id IN
    /\ req[r].pc \in Open
    /\ edited' = edited /\ expired' = expired /\ edit' = edit
    /\ \A s \in Requests \ {r} : req'[s] = req[s]
    /\ req'[r].id = i
    /\ req[r].pc \in Busy \/ req'[r].pc \notin Busy \/ Free(i)
    /\ \A k \in Ids \ {i} : /\ reg'[k] = reg[k] /\ good'[k] = good[k] /\ recorded'[k] = recorded[k]
                            /\ finished'[k] = finished[k] /\ (k \in adrift => k \in adrift')
    /\ Newer(i)
    /\ \/ finished'[i] = finished[i]
       \/ req[r].pc = "store" /\ finished'[i].n = finished[i].n + 1 /\ finished'[i].outcome = req[r].outcome
    /\ req'[r].pc # "waiting"
    /\ req'[r].pc = "store" /\ req'[r].outcome.exportable => req'[r].outcome.ver = reg[i].ver
    /\ \A k \in Ids : denied[k] \subseteq denied'[k]
    /\ req[r].pc \in Busy \/ (reg'[i] = reg[i] /\ good'[i] = good[i] /\ recorded'[i] = recorded[i])

\* What is not Busy does not hold the lock.
LEMMA FreeMeans ==
  ASSUME NEW i, Free(i), NEW s \in Requests, Shape, req[s].pc \in Busy
  PROVE  req[s].id # i
BY DEF Free, Holder, Busy, Frozen

\* The request that acts and its account are for the action to show; the other
\* requests, accounts and edits keep what the invariant says of them.
LEMMA ActsKeeps ==
  ASSUME IInv, NEW r \in Requests, Acts(r), Shape',
         RequestSound(req[r])', RowSound(req[r].id)'
  PROVE  IInv'
<1> DEFINE i == req[r].id
<1>0. i \in Ids /\ req'[r].id = i
  BY DEF IInv, Shape, ReqOK, Acts
<1>1. Lone'
  <2> SUFFICES ASSUME NEW s \in Requests, NEW t \in Requests, s # t, req'[s].pc \in Busy, req'[t].pc \in Busy,
                      req'[s].id = req'[t].id
               PROVE FALSE
    BY DEF Lone
  <2>1. CASE s # r /\ t # r
    BY <2>1 DEF IInv, Lone, Acts
  <2>2. ASSUME NEW u \in Requests \ {r}, req[u].pc \in Busy, req[u].id = i, req'[r].pc \in Busy
        PROVE FALSE
    BY <2>2, FreeMeans DEF IInv, Lone, Acts
  <2> QED BY <2>1, <2>2, <1>0 DEF Acts
<1>2. ASSUME NEW k \in Ids PROVE RowSound(k)'
  <2>1. CASE k = i
    BY <2>1, <1>0 DEF RowSound, Carries
  <2>2. CASE k # i
    BY <2>2, <1>0 DEF IInv, RowSound, Acts, Blocked, Carries
  <2> QED BY <2>1, <2>2
<1>3. ASSUME NEW s \in Requests PROVE RequestSound(req[s])'
  <2>1. CASE s = r
    BY <2>1
  <2>2. CASE s # r
    <3> DEFINE q == req[s]
    <3>1. req'[s] = q /\ RequestSound(q) /\ (q.pc \in Open => q.id \in Ids)
      BY <2>2 DEF Acts, IInv, Shape, ReqOK
    <3>2. SUFFICES ASSUME q.id \notin edited
                   PROVE  Working(q, q.id)' /\ Asked(q, q.id)' /\ Waits(q, q.id)' /\ Current(q)'
      BY <3>1 DEF RequestSound, Acts
    <3>3. Working(q, q.id) /\ Asked(q, q.id) /\ Waits(q, q.id) /\ Current(q)
      BY <3>1, <3>2 DEF RequestSound
    <3>4. CASE q.id # i
      <4>1. q.pc \in Open => /\ reg'[q.id] = reg[q.id] /\ good'[q.id] = good[q.id] /\ recorded'[q.id] = recorded[q.id]
                             /\ denied[q.id] \subseteq denied'[q.id]
                             /\ finished'[q.id] = finished[q.id] /\ expired'[q.id] = expired[q.id]
        BY <3>1, <3>4 DEF Acts
      <4>2. Working(q, q.id)'
        BY <3>1, <3>3, <4>1 DEF Working, Snap, Blocked, Open, Busy, Frozen
      <4>3. Asked(q, q.id)' /\ Waits(q, q.id)' /\ Current(q)'
        BY <3>1, <3>3, <4>1 DEF Asked, Waits, Current, Serves, Open, Busy
      <4> QED BY <4>2, <4>3
    <3>5. CASE q.id = i
      <4>1. Working(q, q.id)'
        <5>1. q.pc \in Frozen => reg'[i] = reg[i] /\ good'[i] = good[i] /\ recorded'[i] = recorded[i] /\ expired'[i] = expired[i]
                                 /\ denied[i] \subseteq denied'[i]
          BY <1>0, <2>2, <3>5 DEF Acts, IInv, Lone, Busy
        <5> QED BY <3>1, <3>3, <3>5, <5>1 DEF Working, Snap, Blocked
      <4>2. Asked(q, q.id)'
        <5>1. Newer(i) /\ reg[i].ver \in Nat /\ reg'[i].ver \in Nat
          BY <1>0 DEF Acts, IInv, Shape, RowOK
        <5>2. q.ver0 \in Nat
          BY DEF IInv, Shape, ReqOK
        <5> QED BY <3>1, <3>3, <3>5, <1>0, <5>1, <5>2 DEF Asked, Newer
      <4>3. Waits(q, q.id)'
        <5> SUFFICES ASSUME q.pc = "waiting" PROVE Waits(q, q.id)'
          BY <3>1 DEF Waits
        <5>1. q.ver0 <= reg[i].ver /\ q.since \in Nat /\ q.ver0 \in Nat
          BY <3>3, <3>5 DEF Asked, Open, IInv, Shape, ReqOK
        <5>2. finished[i].n \in Nat /\ reg[i].ver \in Nat
          BY <1>0 DEF IInv, Shape, RowOK, FinishedOK
        <5>3. CASE finished'[i] = finished[i]
          BY <5>3, <3>1, <3>3, <3>5 DEF Waits, Serves
        <5>4. CASE req[r].pc = "store" /\ finished'[i].n = finished[i].n + 1 /\ finished'[i].outcome = req[r].outcome
          <6>1. finished'[i].outcome.exportable => Serves(finished'[i].outcome, q)
            BY <5>4, <2>2, <3>2, <3>5 DEF IInv, Passes
          <6> QED BY <5>4, <5>1, <5>2, <6>1, <3>1, <3>3, <3>5 DEF Waits, Serves
        <5> QED BY <5>3, <5>4 DEF Acts
      <4>4. Current(q)'
        BY <3>1, <3>3 DEF Current, Serves
      <4> QED BY <4>1, <4>2, <4>3, <4>4
    <3> QED BY <3>4, <3>5
  <2> QED BY <2>1, <2>2
<1>4. ASSUME NEW e \in Edits PROVE EditSound(edit[e])'
  <2>1. EditSound(edit[e]) /\ edit'[e] = edit[e] /\ edited' = edited /\ EditOK(edit[e])
    BY DEF IInv, Acts, Shape
  <2>2. SUFFICES ASSUME edit[e].pc = "read", edit[e].id \notin edited
                 PROVE  Snap(edit[e].id, edit[e].row)'
    BY <2>1 DEF EditSound
  <2>3. CASE edit[e].id # i
    BY <2>1, <2>2, <2>3 DEF EditSound, EditOK, Snap, Acts
  <2>4. CASE edit[e].id = i
    <3>1. Snap(i, edit[e].row) /\ edit[e].row.ver \in Nat
      BY <2>1, <2>2, <2>4 DEF EditSound, EditOK, RowOK
    <3>2. reg[i].ver \in Nat /\ reg'[i].ver \in Nat
      BY <1>0 DEF IInv, Shape, RowOK
    <3>3. Newer(i)
      BY DEF Acts
    <3>4. Snap(i, edit[e].row)'
      BY <1>0, <2>1, <3>1, <3>2, <3>3 DEF Snap, Newer
    <3> QED BY <1>0, <2>1, <2>4, <3>4 DEF Snap
  <2> QED BY <2>3, <2>4
<1>6. ASSUME NEW h \in Requests, NEW w \in Requests PROVE Passes(req[h], req[w])'
  <2>1. Passes(req[h], req[w]) /\ edited' = edited /\ req'[r].pc # "waiting" /\ req'[r].id = i
    BY DEF IInv, Acts
  <2>2. CASE w = r
    BY <2>1, <2>2 DEF Passes
  <2>3. CASE w # r /\ h # r
    BY <2>1, <2>3 DEF Passes, Serves, Acts
  <2>4. CASE w # r /\ h = r
    <3> SUFFICES ASSUME req'[r].pc = "store", req[w].pc = "waiting", req[w].id = i, i \notin edited, req'[r].outcome.exportable
                 PROVE  req'[r].outcome.ver >= req[w].ver0
      BY <2>1, <2>4 DEF Passes, Serves, Acts
    <3>1. req'[r].outcome.ver = reg[i].ver
      BY DEF Acts
    <3>2. RequestSound(req[w])
      BY DEF IInv
    <3>3. Asked(req[w], i)
      BY <3>2 DEF RequestSound
    <3>4. reg[i].ver \in Nat /\ req[w].ver0 \in Nat
      BY <1>0 DEF IInv, Shape, RowOK, ReqOK
    <3> QED BY <3>1, <3>3, <3>4 DEF Asked, Open
  <2> QED BY <2>2, <2>3, <2>4
<1>5. (\A k \in Ids : RowSound(k)) ' /\ (\A s \in Requests : RequestSound(req[s]))' /\ (\A e \in Edits : EditSound(edit[e]))'
      /\ (\A h, w \in Requests : Passes(req[h], req[w]))'
  BY <1>2, <1>3, <1>4, <1>6
<1> QED BY <1>1, <1>5, Zenon DEF IInv

\* A completion of i with the outcome of the request that had its lock.
Completes(i, o) == finished' = [finished EXCEPT ![i] = [n |-> @.n + 1, outcome |-> o]]

\* Refusals that come in.
Hears == denied' = [k \in Ids |-> denied'[k]] /\ \A k \in Ids : denied[k] \subseteq denied'[k]

\* Request r turns to another stage; the row and what is known to be refused
\* stay, and only a refresh changes the token that is good.
Turns(r) ==
    /\ req[r].pc \in Open
    /\ \/ good' = good
       \/ req[r].pc \in Busy /\ \E v \in 0..issued' : good' = [good EXCEPT ![req[r].id] = v]
    /\ reg' = reg /\ expired' = expired /\ recorded' = recorded /\ edit' = edit /\ edited' = edited
    /\ adrift \subseteq adrift' /\ issued' \in {issued, issued + 1}
    /\ req' = [s \in Requests |-> req'[s]] /\ \A s \in Requests \ {r} : req'[s] = req[s]
    /\ req'[r].id = req[r].id
    /\ req[r].pc \in Busy \/ req'[r].pc \notin Busy \/ Free(req[r].id)
    /\ finished' = finished \/ (req[r].pc = "store" /\ Completes(req[r].id, req[r].outcome))
    /\ Hears /\ req'[r].pc # "waiting"
    /\ req'[r].pc = "store" /\ req'[r].outcome.exportable => req'[r].outcome.ver = reg[req[r].id].ver

\* A step of one request that leaves the table alone, once its own facts are shown.
LEMMA TurnKeeps ==
  ASSUME IInv, NEW r \in Requests, Turns(r), ReqOK(req[r])', RequestSound(req[r])',
         Carries(r, req[r].id) \/ good' # good => Carries(r, req[r].id)' \/ req[r].id \in adrift'
  PROVE  IInv'
<1> DEFINE i == req[r].id
<1>0. i \in Ids
  BY DEF IInv, Shape, ReqOK, Turns
<1>1. \A k \in Ids : FinishedOK(finished[k])' /\ (k # i => finished'[k] = finished[k])
  <2>1. CASE finished' = finished
    BY <2>1 DEF IInv, Shape, FinishedOK
  <2>2. CASE Completes(i, req[r].outcome)
    <3>1. DOMAIN req[r].outcome = {"exportable", "ver"} /\ req[r].outcome.ver \in Nat
      BY DEF IInv, Shape, ReqOK
    <3> QED BY <2>2, <3>1, <1>0 DEF IInv, Shape, FinishedOK, Completes
  <2> QED BY <2>1, <2>2 DEF Turns
<1>2. finished' = [k \in Ids |-> finished'[k]]
  BY DEF Turns, Completes, IInv, Shape
<1>3. issued' \in Nat /\ issued <= issued'
  BY DEF Turns, IInv, Shape
<1>4. \A row : RowOK(row) => RowOK(row)'
  BY <1>3 DEF RowOK, IInv, Shape
<1>5. \A s \in Requests : ReqOK(req[s])'
  BY <1>3, <1>4 DEF Turns, IInv, Shape, ReqOK
<1>9. /\ good' = [k \in Ids |-> good'[k]]
      /\ \A k \in Ids : good'[k] \in 0..issued' /\ (k # i => good'[k] = good[k])
  <2>1. CASE good' = good
    BY <2>1, <1>3 DEF IInv, Shape
  <2>2. ASSUME NEW v \in 0..issued', good' = [good EXCEPT ![i] = v]
        PROVE  /\ good' = [k \in Ids |-> good'[k]]
               /\ \A k \in Ids : good'[k] \in 0..issued' /\ (k # i => good'[k] = good[k])
    BY <2>2, <1>0, <1>3 DEF IInv, Shape
  <2> QED BY <2>1, <2>2 DEF Turns
<1>6. Shape'
  BY <1>1, <1>2, <1>3, <1>4, <1>5, <1>9 DEF Turns, Hears, IInv, Shape, EditOK
<1>7. Acts(r)
  <2>1. \/ finished'[i] = finished[i]
        \/ req[r].pc = "store" /\ finished'[i].n = finished[i].n + 1 /\ finished'[i].outcome = req[r].outcome
    <3>1. CASE finished' = finished
      BY <3>1
    <3>2. CASE req[r].pc = "store" /\ Completes(i, req[r].outcome)
      BY <3>2, <1>0 DEF Completes, IInv, Shape
    <3> QED BY <3>1, <3>2 DEF Turns
  <2>2. req[r].pc \in Busy \/ (reg'[i] = reg[i] /\ good'[i] = good[i] /\ recorded'[i] = recorded[i])
    BY DEF Turns
  <2>3. /\ req[r].pc \in Open /\ edited' = edited /\ expired' = expired /\ edit' = edit
        /\ \A s \in Requests \ {r} : req'[s] = req[s]
        /\ req'[r].id = i
        /\ req[r].pc \in Busy \/ req'[r].pc \notin Busy \/ Free(i)
        /\ reg' = reg /\ recorded' = recorded /\ adrift \subseteq adrift'
    BY DEF Turns
  <2>6. /\ req'[r].pc # "waiting" /\ \A k \in Ids : denied[k] \subseteq denied'[k]
        /\ req'[r].pc = "store" /\ req'[r].outcome.exportable => req'[r].outcome.ver = reg[i].ver
    BY DEF Turns, Hears
  <2>4. Newer(i)
    BY <2>3 DEF Newer
  <2>5. \A k \in Ids \ {i} : /\ reg'[k] = reg[k] /\ good'[k] = good[k] /\ recorded'[k] = recorded[k]
                              /\ finished'[k] = finished[k] /\ (k \in adrift => k \in adrift')
    <3> TAKE k \in Ids \ {i}
    <3>1. good'[k] = good[k] /\ finished'[k] = finished[k]
      BY <1>1, <1>9
    <3> QED BY <2>3, <3>1
  <2> QED BY <2>1, <2>2, <2>3, <2>4, <2>5, <2>6 DEF Acts
<1>8. RowSound(i)'
  BY <1>0 DEF RowSound, IInv, Turns, Hears, Blocked, Carries
<1> QED BY <1>6, <1>7, <1>8, ActsKeeps

\* The request nobody has made.
LEMMA NoReqOK ==
  ASSUME Shape PROVE ReqOK(NoReq) /\ NoReq.pc = "idle"
<1>1. RowOK(Legacy)
  BY DEF Legacy, RowOK, Shape
<1>2. NoReq.row = Legacy /\ NoReq.pc = "idle"
  BY DEF NoReq
<1> QED BY <1>1, <1>2 DEF ReqOK, NoReq, Open, Busy, Frozen, Verdict, NoOutcome, Shape

\* A request that is over says nothing but its outcome.
LEMMA OverKeeps ==
  ASSUME IInv, NEW r \in Requests, Turns(r), good' = good, NEW o, DOMAIN o = {"exportable", "ver"}, o.ver \in Nat, Over(r, o),
         req[r].id \notin edited /\ o.exportable => Serves(o, req[r]),
         Carries(r, req[r].id) => req[r].id \in adrift'
  PROVE  IInv'
<1>1. ReqOK(NoReq) /\ NoReq.pc = "idle"
  BY NoReqOK DEF IInv
<1> DEFINE q == [NoReq EXCEPT !.pc = "over", !.id = req[r].id, !.migrates = req[r].migrates, !.ver0 = req[r].ver0, !.late = req[r].late, !.outcome = o]
<1>2. req'[r] = q
  BY DEF Over, IInv, Shape
<1>3. /\ DOMAIN q = DOMAIN NoReq /\ q.pc = "over" /\ q.id = req[r].id /\ q.ver0 = req[r].ver0 /\ q.late = req[r].late /\ q.outcome = o
      /\ q.row = NoReq.row /\ q.since = NoReq.since /\ q.rt = NoReq.rt /\ q.token = NoReq.token /\ q.verdict = NoReq.verdict
  BY <1>1 DEF ReqOK
<1> HIDE DEF q
<1>4. ReqOK(q)
  BY <1>1, <1>3 DEF ReqOK, Open, Busy, Frozen, IInv, Shape
<1>5. \A row : RowOK(row) => RowOK(row)'
  BY DEF RowOK, IInv, Shape, Turns
<1>6. ReqOK(req[r])'
  BY <1>2, <1>3, <1>4, <1>5 DEF ReqOK, Turns, IInv, Shape
<1>7. RequestSound(req[r])'
  BY <1>2, <1>3 DEF RequestSound, Working, Asked, Waits, Current, Serves, Open, Busy, Frozen, Turns
<1> QED BY <1>6, <1>7, TurnKeeps

-----------------------------------------------------------------------------
(* The steps of a request that leave the row as it is.                     *)

\* A request that is cancelled, or has no proxy, does nothing.
LEMMA UnavailableKeeps ==
  ASSUME IInv, NEW r \in Requests, Unavailable(r) PROVE IInv'
<1>1. Turns(r)
  BY DEF Unavailable, Over, Quiet, ReqOnly, histories, Turns, Hears, NoOutcome, Open, Busy, Frozen, IInv, Shape, NoReq
<1> QED BY <1>1, OverKeeps DEF Unavailable, NoOutcome, Carries, Quiet

\* Whoever waits is given the outcome of a request that came later, or the lock.
LEMMA LockKeeps ==
  ASSUME IInv, NEW r \in Requests, Lock(r) PROVE IInv'
<1> DEFINE i == req[r].id  o == finished[req[r].id].outcome
<1>0. i \in Ids /\ req[r].pc = "waiting" /\ Quiet
  BY DEF IInv, Shape, ReqOK, Lock, Open
<1>1. CASE Reusable(r)
  <2>1. Over(r, o)
    BY <1>1 DEF Lock
  <2>2. Turns(r)
    BY <1>0, <2>1 DEF Over, Quiet, ReqOnly, histories, Turns, Hears, Open, Busy, Frozen, IInv, Shape, NoReq
  <2>3. i \notin edited /\ o.exportable => Serves(o, req[r])
    BY <1>0, <1>1 DEF Reusable, IInv, RequestSound, Waits
  <2>4. DOMAIN o = {"exportable", "ver"} /\ o.ver \in Nat
    BY <1>0 DEF IInv, Shape, FinishedOK
  <2> QED BY <1>0, <2>1, <2>2, <2>3, <2>4, OverKeeps DEF Carries, Quiet
<1>2. CASE ~Reusable(r)
  <2>1. Goto(r, "read") /\ Free(i)
    BY <1>2 DEF Lock
  <2>2. Turns(r) /\ req'[r] = [req[r] EXCEPT !.pc = "read"]
    BY <1>0, <2>1 DEF Goto, Quiet, ReqOnly, histories, Turns, Hears, Open, Busy, Frozen, IInv, Shape, ReqOK
  <2>3. ReqOK(req[r])'
    BY <1>0, <2>2 DEF IInv, Shape, ReqOK, RowOK, Quiet, Open, Busy, Frozen
  <2>4. RequestSound(req[r])'
    BY <1>0, <2>2 DEF IInv, Shape, ReqOK, RequestSound, Working, Asked, Waits, Current, Quiet, Open, Busy, Frozen, ReqOnly
  <2> QED BY <1>0, <2>2, <2>3, <2>4, TurnKeeps DEF Carries, Quiet
<1> QED BY <1>1, <1>2

\* The work on the row is over, with an outcome that has seen it as it is.
LEMMA CompleteKeeps ==
  ASSUME IInv, NEW r \in Requests, NEW o, Complete(r, o), req[r].pc \in Busy,
         DOMAIN o = {"exportable", "ver"}, o.ver \in Nat, o.exportable => o.ver = reg[req[r].id].ver,
         UNCHANGED <<reg, good, issued, denied, recorded, edited, finished>>, ReqOnly, adrift \subseteq adrift',
         Carries(r, req[r].id) => req[r].id \in adrift'
  PROVE  IInv'
<1>1. ReqOK(NoReq) /\ NoReq.pc = "idle"
  BY NoReqOK DEF IInv
<1>2. PICK q : q = [NoReq EXCEPT !.pc = "store", !.id = req[r].id, !.migrates = req[r].migrates,
                                 !.ver0 = req[r].ver0, !.late = req[r].late, !.outcome = o]
  OBVIOUS
<1>3. /\ DOMAIN q = DOMAIN NoReq /\ q.pc = "store" /\ q.id = req[r].id /\ q.ver0 = req[r].ver0 /\ q.late = req[r].late /\ q.outcome = o
      /\ q.row = NoReq.row /\ q.since = NoReq.since /\ q.rt = NoReq.rt /\ q.token = NoReq.token /\ q.verdict = NoReq.verdict
  BY <1>1, <1>2 DEF ReqOK
<1>4. req' = [s \in Requests |-> req'[s]] /\ req'[r] = q /\ \A s \in Requests \ {r} : req'[s] = req[s]
  BY <1>2 DEF Complete, IInv, Shape
<1>5. req[r].id \in Ids /\ req[r].ver0 \in Nat /\ reg[req[r].id].ver \in Nat
  BY DEF IInv, Shape, ReqOK, RowOK, Open
<1>6. Turns(r)
  BY <1>3, <1>4, <1>5 DEF ReqOnly, Turns, Hears, Open, Busy, Frozen, IInv, Shape
<1>7. \A row : RowOK(row) => RowOK(row)'
  BY DEF RowOK
<1>8. ReqOK(q)
  BY <1>1, <1>3, <1>5 DEF ReqOK, Open, Busy, Frozen
<1>9. ReqOK(req[r])'
  BY <1>4, <1>7, <1>8 DEF ReqOK
<1>10. RequestSound(req[r])'
  <2>1. req[r].id \notin edited => req[r].ver0 <= reg[req[r].id].ver
    BY DEF IInv, RequestSound, Asked, Open
  <2> QED BY <1>3, <1>4, <1>5, <2>1 DEF RequestSound, Working, Asked, Waits, Current, Serves, Frozen
<1> QED BY <1>6, <1>9, <1>10, TurnKeeps

\* The outcome is stored for those that wait, and the lock is free again.
LEMMA StoreKeeps ==
  ASSUME IInv, NEW r \in Requests, Store(r) PROVE IInv'
<1> DEFINE o == req[r].outcome
<1>0. /\ req[r].pc = "store" /\ req[r].pc \in Busy /\ Over(r, o) /\ Completes(req[r].id, o) /\ ~Carries(r, req[r].id)
      /\ UNCHANGED <<reg, issued, good, histories>> /\ ReqOnly /\ ReqOK(req[r]) /\ RequestSound(req[r])
  BY DEF Store, Completes, Busy, Carries, IInv, Shape
<1>1. Turns(r)
  BY <1>0 DEF Over, ReqOnly, histories, Turns, Hears, Open, Busy, Frozen, IInv, Shape, NoReq
<1>2. req[r].id \notin edited /\ o.exportable => Serves(o, req[r])
  BY <1>0 DEF RequestSound, Current
<1>3. DOMAIN o = {"exportable", "ver"} /\ o.ver \in Nat
  BY <1>0 DEF ReqOK
<1> QED BY <1>0, <1>1, <1>2, <1>3, OverKeeps

\* The lock holder reads its row: what it works on is what is stored.
LEMMA LoadKeeps ==
  ASSUME IInv, NEW r \in Requests, Load(r) PROVE IInv'
<1> DEFINE i == req[r].id  row == reg[i]
<1>0. /\ i \in Ids /\ req[r].pc = "read" /\ req[r].pc \in Busy /\ RowOK(row)
      /\ UNCHANGED <<reg, issued, good, histories, finished>> /\ ReqOnly /\ ~Carries(r, i)
  BY DEF IInv, Shape, ReqOK, Load, Quiet, Open, Busy, Carries
<1>1. CASE row.status = "gone"
  <2>1. Complete(r, NoOutcome)
    BY <1>1 DEF Load
  <2> QED BY <1>0, <2>1, CompleteKeeps DEF histories, NoOutcome
<1>2. CASE row.status # "gone" /\ CanReuseVerifiedToken(i, row)
  <2>1. Complete(r, [exportable |-> TRUE, ver |-> row.ver])
    BY <1>2 DEF Load
  <2> QED BY <1>0, <2>1, CompleteKeeps DEF histories, RowOK
<1>3. CASE row.status # "gone" /\ ~CanReuseVerifiedToken(i, row)
  <2>1. req' = [req EXCEPT ![r] = [@ EXCEPT !.pc = "refresh", !.row = row, !.token = 0, !.rt = 0]]
    BY <1>3 DEF Load
  <2>2. Turns(r) /\ req'[r] = [req[r] EXCEPT !.pc = "refresh", !.row = row, !.token = 0, !.rt = 0]
    BY <1>0, <2>1 DEF ReqOnly, histories, Turns, Hears, Open, Busy, Frozen, IInv, Shape, ReqOK
  <2>3. ReqOK(req[r])'
    BY <1>0, <2>2 DEF IInv, Shape, ReqOK, RowOK, ReqOnly, Open, Busy, Frozen
  <2>4. RequestSound(req[r])'
    <3>1. /\ req'[r].pc = "refresh" /\ req'[r].id = i /\ req'[r].row = row /\ req'[r].rt = 0
          /\ req'[r].ver0 = req[r].ver0
      BY <2>2 DEF IInv, Shape, ReqOK
    <3> SUFFICES ASSUME i \notin edited PROVE Working(req[r], i)' /\ Asked(req[r], i)'
      BY <3>1, <1>0 DEF RequestSound, ReqOnly, Waits, Current
    <3>2. Blocked(i, row.token, row.access) /\ Snap(i, row) /\ req[r].ver0 <= reg[i].ver
      BY <1>0 DEF IInv, RowSound, RequestSound, Asked, Open, Snap, RowOK
    <3> QED BY <1>0, <3>1, <3>2 DEF Working, Asked, Blocked, Snap, ReqOnly, histories
  <2> QED BY <1>0, <2>2, <2>3, <2>4, TurnKeeps
<1> QED BY <1>1, <1>2, <1>3

\* Request r goes on with the row it has read.
Proceeds(r, q) ==
    /\ req[r].pc \in Frozen /\ q.pc \in Frozen
    /\ DOMAIN q = DOMAIN req[r]
    /\ q.id = req[r].id /\ q.row = req[r].row /\ q.ver0 = req[r].ver0 /\ q.since = req[r].since /\ q.outcome = req[r].outcome
    /\ Hears
    /\ q.token \in 0..issued' /\ q.rt \in 0..issued' /\ DOMAIN q.verdict = {"cred", "access", "relogin"}
    /\ req' = [req EXCEPT ![r] = q]
    /\ \/ good' = good
       \/ \E v \in 0..issued' : good' = [good EXCEPT ![req[r].id] = v]
    /\ issued' \in {issued, issued + 1} /\ adrift \subseteq adrift'
    /\ q.late = req[r].late
    /\ UNCHANGED <<reg, expired, recorded, edit, edited, finished>>

\* A request that goes on with a new record of its own.
LEMMA ProceedKeeps ==
  ASSUME IInv, NEW r \in Requests, NEW q, Proceeds(r, q),
         Carries(r, req[r].id) \/ good' # good => Carries(r, req[r].id)' \/ req[r].id \in adrift',
         req[r].id \notin edited /\ Working(req[r], req[r].id) => Working(q, q.id)'
  PROVE  IInv'
<1>1. Turns(r) /\ req'[r] = q
  BY DEF Proceeds, Hears, Turns, Open, Busy, Frozen, IInv, Shape
<1>2. ReqOK(req[r]) /\ RequestSound(req[r])
  BY DEF IInv, Shape
<1>3. \A row : RowOK(row) => RowOK(row)'
  BY DEF RowOK, IInv, Shape, Turns, Proceeds
<1>4. ReqOK(req[r])'
  BY <1>1, <1>2, <1>3 DEF ReqOK, Proceeds, Open, Busy, Frozen
<1>5. RequestSound(req[r])'
  BY <1>1, <1>2 DEF RequestSound, Asked, Waits, Current, Serves, Proceeds, Open, Busy, Frozen
<1> QED BY <1>1, <1>4, <1>5, TurnKeeps

\* A refresh that is tried again, or is not answered.
LEMMA AgainKeeps ==
  ASSUME IInv, NEW r \in Requests, Again(r) \/ Unanswered(r) PROVE IInv'
<1>1. PICK pc \in {"refresh", "unanswered"} : Goto(r, pc) /\ req[r].pc \in {"refresh", "unanswered"} /\ Quiet
  BY DEF Again, Unanswered
<1>8. PICK q : q = [req[r] EXCEPT !.pc = pc]
  OBVIOUS
<1>2. /\ q.pc = pc /\ DOMAIN q = DOMAIN req[r] /\ q.id = req[r].id /\ q.row = req[r].row /\ q.ver0 = req[r].ver0 /\ q.late = req[r].late
      /\ q.since = req[r].since /\ q.outcome = req[r].outcome /\ q.token = req[r].token /\ q.rt = req[r].rt /\ q.verdict = req[r].verdict
  BY <1>8 DEF IInv, Shape, ReqOK
<1>3. req' = [req EXCEPT ![r] = q]
  BY <1>1, <1>8 DEF Goto, IInv, Shape
<1>4. q.rt \in 0..issued /\ q.token \in 0..issued /\ DOMAIN q.verdict = {"cred", "access", "relogin"}
  BY <1>2 DEF IInv, Shape, ReqOK
<1>5. Proceeds(r, q)
  BY <1>1, <1>2, <1>3, <1>4 DEF Proceeds, Hears, Quiet, ReqOnly, histories, Frozen, IInv, Shape
<1>6. Working(req[r], req[r].id) => Working(q, q.id)'
  BY <1>1, <1>2 DEF Working, Quiet, ReqOnly, histories, Snap, Blocked, Frozen
<1>7. Carries(r, req[r].id) => FALSE
  BY <1>1 DEF Carries
<1> QED BY <1>1, <1>5, <1>6, <1>7, ProceedKeeps DEF Quiet

\* A refresh that failed gives a verdict on the stored credential.
LEMMA FailingKeeps ==
  ASSUME IInv, NEW r \in Requests, NEW v, Failing(r, v), DOMAIN v = {"cred", "access", "relogin"},
         v.access = req[r].row.access, req[r].pc \in {"refresh", "unanswered"}, Hears,
         UNCHANGED <<reg, issued, good, recorded, adrift, finished>>, ReqOnly
  PROVE  IInv'
<1>8. PICK q : q = [req[r] EXCEPT !.pc = "fail", !.verdict = v]
  OBVIOUS
<1>2. /\ q.pc = "fail" /\ DOMAIN q = DOMAIN req[r] /\ q.id = req[r].id /\ q.row = req[r].row /\ q.ver0 = req[r].ver0 /\ q.late = req[r].late
      /\ q.since = req[r].since /\ q.outcome = req[r].outcome /\ q.token = req[r].token /\ q.rt = req[r].rt /\ q.verdict = v
  BY <1>8 DEF IInv, Shape, ReqOK
<1>3. req' = [req EXCEPT ![r] = q]
  BY <1>8 DEF Failing, IInv, Shape
<1>4. q.rt \in 0..issued /\ q.token \in 0..issued
  BY <1>2 DEF IInv, Shape, ReqOK
<1>5. Proceeds(r, q)
  BY <1>2, <1>3, <1>4 DEF Proceeds, Hears, ReqOnly, Frozen, IInv, Shape
<1>9. req[r].id \in Ids
  BY DEF IInv, Shape, ReqOK, Open, Busy, Frozen
<1>6. Working(req[r], req[r].id) => Working(q, q.id)'
  BY <1>2, <1>9 DEF Working, Hears, ReqOnly, Snap, Blocked, Frozen
<1>7. Carries(r, req[r].id) => FALSE
  BY DEF Carries
<1> QED BY <1>5, <1>6, <1>7, ProceedKeeps

\* A refresh that fails for good ends with its verdict on the credential.
LEMMA RefreshFailsKeeps ==
  ASSUME IInv, NEW r \in Requests, RefreshFails(r) PROVE IInv'
<1>1. PICK v \in {Verdict("needs_relogin", req[r].row.access, TRUE), Verdict("unknown", req[r].row.access, FALSE)} : Failing(r, v)
  BY DEF RefreshFails
<1>2. DOMAIN v = {"cred", "access", "relogin"} /\ v.access = req[r].row.access
  BY <1>1 DEF Verdict
<1>3. Hears /\ UNCHANGED <<reg, issued, good, recorded, adrift, finished>> /\ ReqOnly /\ req[r].pc = "refresh"
  BY DEF RefreshFails, Quiet, histories, Hears, IInv, Shape
<1> QED BY <1>1, <1>2, <1>3, FailingKeeps

\* What the service answers adds at most the token to the refusals heard.
LEMMA HeardHears ==
  ASSUME Shape, NEW i \in Ids, NEW token, NEW answer, Heard(i, token, answer)
  PROVE  Hears /\ (answer = "denied" => token \in denied'[i])
BY DEF Heard, Hears, Shape

\* The stored token is probed when no other is to be had: one that is known
\* to be refused is not found valid.
LEMMA ExportExistingTokenKeeps ==
  ASSUME IInv, NEW r \in Requests, ExportExistingToken(r) PROVE IInv'
<1> DEFINE i == req[r].id  v == TemporarilyRefused(req[r])
<1>0. /\ i \in Ids /\ req[r].pc = "unanswered"
      /\ UNCHANGED <<reg, issued, good, recorded, adrift, finished>> /\ ReqOnly
  BY DEF ExportExistingToken, IInv, Shape, ReqOK, Open, Busy, Frozen
<1>3. PICK answer \in ProbeAnswers(i, req[r].row.token) :
          /\ Heard(i, req[r].row.token, answer)
          /\ IF answer = "valid"
             THEN req' = [req EXCEPT ![r] = [@ EXCEPT !.pc = "persist", !.token = req[r].row.token, !.rt = 0,
                                                      !.verdict = Verdict("valid", "valid", FALSE)]]
             ELSE Failing(r, v)
  BY DEF ExportExistingToken
<1>4. Hears
  BY <1>0, <1>3, HeardHears DEF IInv
<1>1. CASE answer # "valid"
  <2>1. DOMAIN v = {"cred", "access", "relogin"} /\ v.access = req[r].row.access
    BY DEF TemporarilyRefused, Verdict
  <2> QED BY <1>0, <1>1, <1>3, <1>4, <2>1, FailingKeeps
<1>2. CASE answer = "valid"
  <2>1. PICK q : q = [req[r] EXCEPT !.pc = "persist", !.token = req[r].row.token, !.rt = 0, !.verdict = Verdict("valid", "valid", FALSE)]
    OBVIOUS
  <2>2. /\ q.pc = "persist" /\ DOMAIN q = DOMAIN req[r] /\ q.id = req[r].id /\ q.row = req[r].row /\ q.ver0 = req[r].ver0 /\ q.late = req[r].late
        /\ q.since = req[r].since /\ q.outcome = req[r].outcome /\ q.token = req[r].row.token /\ q.rt = 0
        /\ q.verdict = Verdict("valid", "valid", FALSE)
    BY <2>1 DEF IInv, Shape, ReqOK
  <2>3. req' = [req EXCEPT ![r] = q]
    BY <1>2, <1>3, <2>1 DEF IInv, Shape
  <2>4. q.rt \in 0..issued /\ q.token \in 0..issued /\ DOMAIN q.verdict = {"cred", "access", "relogin"}
    BY <2>2 DEF IInv, Shape, ReqOK, RowOK, Verdict
  <2>5. Proceeds(r, q)
    BY <1>0, <1>4, <2>2, <2>3, <2>4 DEF Proceeds, ReqOnly, Frozen, IInv, Shape
  <2>6. q.token \notin denied[i]
    BY <1>2, <1>3, <2>2 DEF ProbeAnswers
  <2>9. i \notin edited => q.token \notin recorded[i]
    BY <1>0, <2>6 DEF IInv, RowSound
  <2>10. q.verdict.access = "valid"
    BY <2>2 DEF Verdict
  <2>7. i \notin edited /\ Working(req[r], req[r].id) => Working(q, q.id)'
    BY <1>0, <1>4, <2>2, <2>9, <2>10 DEF Working, Hears, ReqOnly, Snap, Blocked, Frozen
  <2>8. Carries(r, i) => FALSE
    BY <1>0 DEF Carries
  <2> QED BY <1>0, <2>5, <2>7, <2>8, ProceedKeeps
<1> QED BY <1>1, <1>2

\* A new token that is found good, or of which nothing is found out, is not one
\* that is known to be refused.
LEMMA ProbeJudges ==
  ASSUME IInv, NEW r \in Requests, Probe(r), NEW i, NEW t, i = req[r].id, t = req[r].token
  PROVE  /\ Hears
         /\ \E v : /\ Judged(r, v) /\ DOMAIN v = {"cred", "access", "relogin"}
                   /\ i \notin edited => Blocked(i, t, v.access)'
<1> DEFINE q == req[r]
<1>9. i = req[r].id /\ t = req[r].token
  OBVIOUS
<1>0. i \in Ids /\ (i \notin edited => /\ q.token = q.row.token \/ q.token \notin recorded[i]
                                       /\ Blocked(i, q.row.token, q.row.access) /\ recorded[i] \subseteq denied[i])
  BY <1>9 DEF Probe, IInv, Shape, ReqOK, RequestSound, RowSound, Working, Frozen, Busy, Open
<1>5. recorded' = recorded /\ expired' = expired /\ edited' = edited
  BY DEF Probe, ReqOnly
<1>6. SUFFICES Hears /\ \E v : /\ Judged(r, v) /\ DOMAIN v = {"cred", "access", "relogin"}
                               /\ i \notin edited => (t \in recorded[i] => v.access = "revoked" \/ t \in expired[i])
                               /\ i \notin edited => (v.access = "revoked" => t \in denied'[i])
  <2>1. ASSUME NEW v, /\ i \notin edited => (t \in recorded[i] => v.access = "revoked" \/ t \in expired[i])
                      /\ i \notin edited => (v.access = "revoked" => t \in denied'[i])
        PROVE  i \notin edited => Blocked(i, t, v.access)'
    BY <1>5, <2>1 DEF Blocked
  <2> QED BY <2>1
<1>7. denied' = denied => Hears
  BY DEF Hears, IInv, Shape
<1>1. CASE q.token \in expired[i] /\ Judged(r, Verdict("needs_relogin", "expired", TRUE)) /\ denied' = denied
  BY <1>1, <1>7, <1>9 DEF Verdict
<1>2. CASE (q.token = q.row.token => q.row.access \in {"unknown", "unchecked"}) /\ Judged(r, Verdict("unknown", "unknown", FALSE)) /\ denied' = denied
  <2>1. i \notin edited => (t \in recorded[i] => t \in expired[i])
    BY <1>0, <1>2, <1>9 DEF Blocked
  <2>2. Verdict("unknown", "unknown", FALSE).access = "unknown"
    BY DEF Verdict
  <2>3. DOMAIN Verdict("unknown", "unknown", FALSE) = {"cred", "access", "relogin"}
    BY DEF Verdict
  <2> QED BY <1>2, <1>7, <2>1, <2>2, <2>3
<1>3. CASE Duplicate(q) /\ Judged(r, Verdict("needs_relogin", "revoked", TRUE)) /\ denied' = denied
  <2>1. i \notin edited => t \in denied'[i]
    BY <1>0, <1>3, <1>9 DEF Duplicate, Blocked
  <2>2. Verdict("needs_relogin", "revoked", TRUE).access = "revoked" /\ DOMAIN Verdict("needs_relogin", "revoked", TRUE) = {"cred", "access", "relogin"}
    BY DEF Verdict
  <2> QED BY <1>3, <1>7, <2>1, <2>2
<1>4. ASSUME q.token \notin expired[i], ~Duplicate(q), NEW answer \in ProbeAnswers(i, t), Heard(i, t, answer),
             Judged(r, CASE answer = "valid" -> Verdict("valid", "valid", FALSE)
                             [] answer = "denied" -> Verdict("needs_relogin", "revoked", TRUE)
                             [] OTHER -> Verdict("valid", "unknown", FALSE))
      PROVE  Hears /\ \E v : /\ Judged(r, v) /\ DOMAIN v = {"cred", "access", "relogin"}
                             /\ i \notin edited => (t \in recorded[i] => v.access = "revoked" \/ t \in expired[i])
                             /\ i \notin edited => (v.access = "revoked" => t \in denied'[i])
  <2>1. Hears /\ (answer = "denied" => t \in denied'[i])
    BY <1>0, <1>4, HeardHears DEF IInv
  <2>2. i \notin edited => t \notin recorded[i]
    BY <1>0, <1>4, <1>9 DEF Duplicate, Blocked
  <2>3. CASE answer = "valid"
    <3>1. Judged(r, Verdict("valid", "valid", FALSE))
      BY <1>4, <2>3
    <3> QED BY <3>1, <2>1, <2>2 DEF Verdict
  <2>4. CASE answer = "denied"
    <3>1. Judged(r, Verdict("needs_relogin", "revoked", TRUE))
      BY <1>4, <2>4
    <3> QED BY <3>1, <2>1, <2>2, <2>4 DEF Verdict
  <2>5. CASE answer \notin {"valid", "denied"}
    <3>1. Judged(r, Verdict("valid", "unknown", FALSE))
      BY <1>4, <2>5
    <3> QED BY <3>1, <2>1, <2>2 DEF Verdict
  <2> QED BY <2>3, <2>4, <2>5
<1>8. \/ q.token \in expired[i] /\ Judged(r, Verdict("needs_relogin", "expired", TRUE)) /\ denied' = denied
      \/ (q.token = q.row.token => q.row.access \in {"unknown", "unchecked"}) /\ Judged(r, Verdict("unknown", "unknown", FALSE)) /\ denied' = denied
      \/ Duplicate(q) /\ Judged(r, Verdict("needs_relogin", "revoked", TRUE)) /\ denied' = denied
      \/ /\ q.token \notin expired[i] /\ ~Duplicate(q)
         /\ \E answer \in ProbeAnswers(i, t) :
               /\ Heard(i, t, answer)
               /\ Judged(r, CASE answer = "valid" -> Verdict("valid", "valid", FALSE)
                               [] answer = "denied" -> Verdict("needs_relogin", "revoked", TRUE)
                               [] OTHER -> Verdict("valid", "unknown", FALSE))
  BY <1>9 DEF Probe
<1> QED BY <1>1, <1>2, <1>3, <1>4, <1>8

\* The probe's answer gives a verdict on the token that was tried.
LEMMA ProbeKeeps ==
  ASSUME IInv, NEW r \in Requests, Probe(r) PROVE IInv'
<1>0. PICK i, t : i = req[r].id /\ t = req[r].token
  OBVIOUS
<1>10. /\ Hears
       /\ \E v : /\ Judged(r, v) /\ DOMAIN v = {"cred", "access", "relogin"}
                 /\ i \notin edited => Blocked(i, t, v.access)'
  BY <1>0, ProbeJudges
<1>1. PICK v : /\ Judged(r, v) /\ DOMAIN v = {"cred", "access", "relogin"}
               /\ i \notin edited => Blocked(i, t, v.access)'
  BY <1>10
<1>2. /\ req[r].pc = "probe" /\ Hears /\ UNCHANGED <<reg, issued, good, recorded, adrift, finished>> /\ ReqOnly
      /\ req[r].id \in Ids
  BY <1>10 DEF Probe, IInv, Shape, ReqOK, Open, Busy, Frozen
<1>3. PICK q : q = [req[r] EXCEPT !.pc = "persist", !.verdict = v]
  OBVIOUS
<1>4. /\ q.pc = "persist" /\ DOMAIN q = DOMAIN req[r] /\ q.id = req[r].id /\ q.row = req[r].row /\ q.ver0 = req[r].ver0 /\ q.late = req[r].late
      /\ q.since = req[r].since /\ q.outcome = req[r].outcome /\ q.token = req[r].token /\ q.rt = req[r].rt /\ q.verdict = v
  BY <1>3 DEF IInv, Shape, ReqOK
<1>5. req' = [req EXCEPT ![r] = q] /\ req'[r] = q
  BY <1>1, <1>3 DEF Judged, IInv, Shape
<1>6. q.rt \in 0..issued /\ q.token \in 0..issued
  BY <1>4 DEF IInv, Shape, ReqOK
<1>7. Proceeds(r, q)
  BY <1>1, <1>2, <1>4, <1>5, <1>6 DEF Proceeds, ReqOnly, Frozen, IInv, Shape
<1>8. req[r].id \notin edited /\ Working(req[r], req[r].id) => Working(q, q.id)'
  <2> SUFFICES ASSUME req[r].id \notin edited, Working(req[r], req[r].id) PROVE Working(q, q.id)'
    OBVIOUS
  <2>1. i = req[r].id /\ t = req[r].token
    BY <1>0
  <2>2. Blocked(i, t, v.access)'
    BY <1>1, <2>1
  <2>3. Snap(i, q.row)' /\ Blocked(i, q.row.token, q.row.access)'
    BY <1>2, <1>4, <2>1 DEF Working, Frozen, ReqOnly, Snap, Blocked, Hears
  <2>4. q.rt # 0 => q.rt > q.row.rt /\ (q.rt = good'[i] \/ q.row.ver < reg'[i].ver)
    BY <1>2, <1>4, <2>1 DEF Working, Frozen
  <2>5. q.token = q.row.token \/ q.token \notin recorded'[i]
    BY <1>2, <1>4, <2>1 DEF Working, Frozen
  <2>6. q.id = i /\ q.token = t /\ q.verdict.access = v.access
    BY <1>4, <2>1
  <2> QED BY <1>4, <2>2, <2>3, <2>4, <2>5, <2>6 DEF Working, Blocked, Snap
<1>9. Carries(r, req[r].id) => Carries(r, req[r].id)'
  BY <1>2, <1>4, <1>5 DEF Carries
<1> QED BY <1>2, <1>7, <1>8, <1>9, ProceedKeeps

\* The session's cookies bring the same token, or one nobody has seen.
LEMMA RefreshWithSessionKeeps ==
  ASSUME IInv, NEW r \in Requests, RefreshWithSession(r) PROVE IInv'
<1> DEFINE i == req[r].id
<1>0. i \in Ids /\ req[r].pc = "refresh" /\ UNCHANGED <<reg, good, histories, finished>> /\ ReqOnly
  BY DEF RefreshWithSession, IInv, Shape, ReqOK, Open, Busy, Frozen
<1>1. PICK token : /\ Refreshed(r, token, 0)
                   /\ \/ token = req[r].row.token /\ issued' = issued
                      \/ token = issued + 1 /\ issued' = issued + 1
  BY DEF RefreshWithSession
<1>2. PICK q : q = [req[r] EXCEPT !.pc = "probe", !.token = token, !.rt = 0]
  OBVIOUS
<1>3. /\ q.pc = "probe" /\ DOMAIN q = DOMAIN req[r] /\ q.id = i /\ q.row = req[r].row /\ q.ver0 = req[r].ver0 /\ q.late = req[r].late
      /\ q.since = req[r].since /\ q.outcome = req[r].outcome /\ q.token = token /\ q.rt = 0 /\ q.verdict = req[r].verdict
  BY <1>2 DEF IInv, Shape, ReqOK
<1>4. req' = [req EXCEPT ![r] = q]
  BY <1>1, <1>2 DEF Refreshed, IInv, Shape
<1>5. DOMAIN q.verdict = {"cred", "access", "relogin"} /\ q.rt \in 0..issued' /\ q.token \in 0..issued' /\ issued' \in {issued, issued + 1}
  BY <1>1, <1>3 DEF IInv, Shape, ReqOK, RowOK
<1>6. token = req[r].row.token \/ token \notin recorded[i]
  BY <1>0, <1>1 DEF IInv, Shape
<1>7. Proceeds(r, q)
  BY <1>0, <1>3, <1>4, <1>5 DEF Proceeds, Hears, ReqOnly, histories, Frozen, IInv, Shape
<1>8. Working(req[r], i) => Working(q, q.id)'
  BY <1>0, <1>3, <1>6 DEF Working, ReqOnly, histories, Snap, Blocked, Frozen
<1>9. Carries(r, i) => FALSE
  BY <1>0 DEF Carries
<1> QED BY <1>0, <1>7, <1>8, <1>9, ProceedKeeps

\* A refresh token brings tokens nobody has seen, or its answer is lost.
LEMMA RefreshWithTokenKeeps ==
  ASSUME IInv, NEW r \in Requests, RefreshWithToken(r) PROVE IInv'
<1> DEFINE i == req[r].id  n == issued + 1
<1>0. /\ i \in Ids /\ req[r].pc = "refresh" /\ issued' = n /\ good' = [good EXCEPT ![i] = n]
      /\ UNCHANGED <<reg, denied, recorded, finished>> /\ ReqOnly /\ issued \in Nat
  BY DEF RefreshWithToken, IInv, Shape, ReqOK, Open, Busy, Frozen
<1>1. CASE Refreshed(r, n, n) /\ UNCHANGED adrift
  <2>1. PICK q : q = [req[r] EXCEPT !.pc = "probe", !.token = n, !.rt = n]
    OBVIOUS
  <2>2. /\ q.pc = "probe" /\ DOMAIN q = DOMAIN req[r] /\ q.id = i /\ q.row = req[r].row /\ q.ver0 = req[r].ver0 /\ q.late = req[r].late
        /\ q.since = req[r].since /\ q.outcome = req[r].outcome /\ q.token = n /\ q.rt = n /\ q.verdict = req[r].verdict
    BY <2>1 DEF IInv, Shape, ReqOK
  <2>3. req' = [req EXCEPT ![r] = q] /\ req'[r] = q
    BY <1>1, <2>1 DEF Refreshed, IInv, Shape
  <2>4. DOMAIN q.verdict = {"cred", "access", "relogin"} /\ n \in 0..issued' /\ n # 0
    BY <1>0, <2>2 DEF IInv, Shape, ReqOK
  <2>5. n \notin recorded[i] /\ n > req[r].row.rt /\ good'[i] = n
    BY <1>0 DEF IInv, Shape, ReqOK, RowOK
  <2>6. Proceeds(r, q)
    BY <1>0, <1>1, <2>2, <2>3, <2>4 DEF Proceeds, Hears, ReqOnly, histories, Frozen, IInv, Shape
  <2>7. Working(req[r], i) => Working(q, q.id)'
    BY <1>0, <2>2, <2>5 DEF Working, ReqOnly, histories, Snap, Blocked, Frozen
  <2>8. Carries(r, i)'
    BY <2>2, <2>3, <2>4, <2>5 DEF Carries
  <2> QED BY <2>6, <2>7, <2>8, ProceedKeeps
<1>2. CASE Goto(r, "unanswered") /\ adrift' = adrift \cup {i}
  <2>1. PICK q : q = [req[r] EXCEPT !.pc = "unanswered"]
    OBVIOUS
  <2>2. /\ q.pc = "unanswered" /\ DOMAIN q = DOMAIN req[r] /\ q.id = i /\ q.row = req[r].row /\ q.ver0 = req[r].ver0 /\ q.late = req[r].late
        /\ q.since = req[r].since /\ q.outcome = req[r].outcome /\ q.token = req[r].token /\ q.rt = req[r].rt /\ q.verdict = req[r].verdict
    BY <2>1 DEF IInv, Shape, ReqOK
  <2>3. req' = [req EXCEPT ![r] = q]
    BY <1>2, <2>1 DEF Goto, IInv, Shape
  <2>4. DOMAIN q.verdict = {"cred", "access", "relogin"} /\ q.rt \in 0..issued' /\ q.token \in 0..issued' /\ n \in 0..issued'
    BY <1>0, <2>2 DEF IInv, Shape, ReqOK
  <2>6. Proceeds(r, q)
    BY <1>0, <1>2, <2>2, <2>3, <2>4 DEF Proceeds, Hears, ReqOnly, histories, Frozen, IInv, Shape
  <2>7. Working(req[r], i) => Working(q, q.id)'
    BY <1>0, <2>2 DEF Working, ReqOnly, histories, Snap, Blocked, Frozen
  <2> QED BY <1>2, <2>6, <2>7, ProceedKeeps
<1> QED BY <1>1, <1>2 DEF RefreshWithToken

\* After a save that found another version the row is read again.
LEMMA RereadKeeps ==
  ASSUME IInv, NEW r \in Requests, Reread(r) PROVE IInv'
<1> DEFINE i == req[r].id  o == [exportable |-> reg[i].status # "gone" /\ req[r].outcome.exportable, ver |-> reg[i].ver]
<1>1. i \in Ids /\ req[r].pc \in Busy /\ ~Carries(r, i) /\ RowOK(reg[i])
  BY DEF Reread, IInv, Shape, ReqOK, Open, Busy, Carries
<1>2. Complete(r, o)
  BY DEF Reread
<1>3. DOMAIN o = {"exportable", "ver"} /\ o.ver \in Nat /\ o.ver = reg[i].ver
  BY <1>1 DEF RowOK
<1>4. UNCHANGED <<reg, good, issued, denied, recorded, edited, finished>> /\ ReqOnly /\ adrift' = adrift
  BY DEF Reread, Quiet, histories
<1> QED BY <1>1, <1>2, <1>3, <1>4, CompleteKeeps

\* A newer row is left alone, and what was on its way is lost.
LEMMA ConflictKeeps ==
  ASSUME IInv, NEW r \in Requests, Conflict(r) PROVE IInv'
<1> DEFINE i == req[r].id
<1>0. /\ i \in Ids /\ req[r].pc \in {"persist", "fail"} /\ UNCHANGED <<reg, issued, good, denied, recorded, edited, finished>> /\ ReqOnly
      /\ Carries(r, i) => i \in adrift'
  BY DEF Conflict, IInv, Shape, ReqOK, Open, Busy, Frozen, Carries
<1>1. adrift \subseteq adrift'
  BY DEF Conflict
<1>2. CASE req[r].attempt = 0
  <2>1. /\ req' = [req EXCEPT ![r] = [@ EXCEPT !.pc = "read", !.attempt = 1, !.row = Legacy, !.token = 0, !.rt = 0]]
    BY <1>2 DEF Conflict
  <2>2. Turns(r) /\ req'[r] = [req[r] EXCEPT !.pc = "read", !.attempt = 1, !.row = Legacy, !.token = 0, !.rt = 0]
    BY <1>0, <1>1, <2>1 DEF ReqOnly, Turns, Hears, Open, Busy, Frozen, IInv, Shape, ReqOK
  <2>3. /\ req'[r].pc = "read" /\ req'[r].id = i /\ req'[r].row = Legacy /\ req'[r].rt = 0 /\ req'[r].token = 0
        /\ req'[r].ver0 = req[r].ver0 /\ req'[r].late = req[r].late /\ req'[r].since = req[r].since /\ req'[r].outcome = req[r].outcome
        /\ req'[r].verdict = req[r].verdict /\ DOMAIN req'[r] = DOMAIN req[r]
    BY <2>2 DEF IInv, Shape, ReqOK
  <2>4. RowOK(Legacy)'
    BY <1>0 DEF Legacy, RowOK, IInv, Shape
  <2>5. ReqOK(req[r])'
    BY <1>0, <2>3, <2>4 DEF IInv, Shape, ReqOK, Open, Busy, Frozen
  <2>6. RequestSound(req[r])'
    <3>1. Asked(req[r], i) \/ i \in edited
      BY DEF IInv, RequestSound
    <3> QED BY <1>0, <2>3, <3>1 DEF RequestSound, Working, Asked, Waits, Current, Open, Busy, Frozen
  <2> QED BY <1>0, <2>2, <2>5, <2>6, TurnKeeps
<1>3. CASE req[r].attempt # 0
  <2>1. Complete(r, NoOutcome)
    BY <1>3 DEF Conflict
  <2> QED BY <1>0, <1>1, <2>1, CompleteKeeps DEF NoOutcome, Busy, Frozen
<1> QED BY <1>2, <1>3

-----------------------------------------------------------------------------
(* The steps that save a row.                                              *)

\* Save gives row i the fields, a new version and what it had else.
LEMMA SaveRow ==
  ASSUME Shape, NEW i \in Ids, NEW fields, Save(i, fields),
         DOMAIN fields \subseteq DOMAIN reg[i], "ver" \notin DOMAIN fields
  PROVE  /\ reg' = [k \in Ids |-> reg'[k]]
         /\ \A k \in Ids \ {i} : reg'[k] = reg[k]
         /\ DOMAIN reg'[i] = DOMAIN reg[i]
         /\ reg'[i].ver = reg[i].ver + 1
         /\ \A f \in DOMAIN fields : reg'[i][f] = fields[f]
         /\ \A f \in DOMAIN reg[i] \ (DOMAIN fields \cup {"ver"}) : reg'[i][f] = reg[i][f]
<1>1. RowOK(reg[i])
  BY DEF Shape
<1>2. reg'[i] = [f \in DOMAIN reg[i] |-> IF f = "ver" THEN reg[i].ver + 1
                                         ELSE IF f \in DOMAIN fields THEN fields[f] ELSE reg[i][f]]
  BY DEF Save, Shape
<1>3. reg' = [k \in Ids |-> reg'[k]] /\ \A k \in Ids \ {i} : reg'[k] = reg[k]
  BY DEF Save, Shape
<1>4. DOMAIN reg'[i] = DOMAIN reg[i] /\ "ver" \in DOMAIN reg[i]
  BY <1>1, <1>2 DEF RowOK
<1>5. reg'[i].ver = reg[i].ver + 1
  BY <1>2, <1>4
<1>6. \A f \in DOMAIN fields : reg'[i][f] = fields[f]
  BY <1>2, <1>4
<1>7. \A f \in DOMAIN reg[i] \ (DOMAIN fields \cup {"ver"}) : reg'[i][f] = reg[i][f]
  BY <1>2
<1> QED BY <1>3, <1>4, <1>5, <1>6, <1>7

\* A request that has saved its row: what is left is to read it again.
LEMMA PersistedKeeps ==
  ASSUME IInv, NEW r \in Requests, Persisted(r), req[r].pc \in {"persist", "fail"},
         reg' = [k \in Ids |-> reg'[k]], RowOK(reg'[req[r].id]), reg'[req[r].id].ver = reg[req[r].id].ver + 1,
         \A k \in Ids \ {req[r].id} : reg'[k] = reg[k] /\ recorded'[k] = recorded[k] /\ (k \in adrift => k \in adrift'),
         recorded' = [k \in Ids |-> recorded'[k]], recorded'[req[r].id] \subseteq 0..issued,
         RowSound(req[r].id)'
  PROVE  IInv'
<1> DEFINE i == req[r].id
<1>0. /\ i \in Ids /\ ReqOnly /\ issued' = issued /\ good' = good /\ edited' = edited /\ finished' = finished /\ denied' = denied
      /\ reg[i].ver \in Nat
  BY DEF Persisted, IInv, Shape, ReqOK, RowOK, Open, Busy, Frozen
<1>1. PICK o : /\ DOMAIN o = {"exportable", "ver"} /\ o.ver \in Nat
               /\ req' = [req EXCEPT ![r] = [NoReq EXCEPT !.pc = "reread", !.id = req[r].id, !.migrates = req[r].migrates,
                                                          !.ver0 = req[r].ver0, !.late = req[r].late, !.outcome = o]]
  <2> DEFINE e == req[r].token /= 0 /\ req[r].verdict.access = "valid"
             p == [exportable |-> e, ver |-> 0]
  <2>1. DOMAIN p = {"exportable", "ver"} /\ p.ver \in Nat
    OBVIOUS
  <2>2. req' = [req EXCEPT ![r] = [NoReq EXCEPT !.pc = "reread", !.id = req[r].id, !.migrates = req[r].migrates,
                                                !.ver0 = req[r].ver0, !.late = req[r].late, !.outcome = p]]
    BY DEF Persisted
  <2> QED BY <2>1, <2>2
<1>2. PICK q : q = [NoReq EXCEPT !.pc = "reread", !.id = req[r].id, !.migrates = req[r].migrates, !.ver0 = req[r].ver0, !.late = req[r].late, !.outcome = o]
  OBVIOUS
<1>3. ReqOK(NoReq) /\ ReqOK(req[r])
  BY NoReqOK DEF IInv, Shape
<1>4. /\ DOMAIN q = DOMAIN NoReq /\ q.pc = "reread" /\ q.id = req[r].id /\ q.ver0 = req[r].ver0 /\ q.late = req[r].late /\ q.outcome = o
      /\ q.row = NoReq.row /\ q.since = NoReq.since /\ q.rt = NoReq.rt /\ q.token = NoReq.token /\ q.verdict = NoReq.verdict
  BY <1>2, <1>3 DEF ReqOK
<1>5. ReqOK(q)
  BY <1>0, <1>1, <1>3, <1>4 DEF ReqOK
<1>6. \A row : RowOK(row) => RowOK(row)'
  BY <1>0 DEF RowOK
<1>7. req'[r] = q /\ req' = [s \in Requests |-> req'[s]] /\ \A s \in Requests \ {r} : req'[s] = req[s]
  BY <1>1, <1>2 DEF IInv, Shape
<1>8. Shape'
  <2>1. \A s \in Requests : ReqOK(req[s])'
    BY <1>0, <1>5, <1>6, <1>7 DEF ReqOK, IInv, Shape
  <2>2. \A k \in Ids : RowOK(reg[k])' /\ FinishedOK(finished[k])' /\ good'[k] \in 0..issued' /\ recorded'[k] \subseteq 0..issued'
    BY <1>0 DEF RowOK, FinishedOK, IInv, Shape
  <2>3. \A e \in Edits : EditOK(edit[e])'
    BY <1>0, <1>6 DEF EditOK, ReqOnly, IInv, Shape
  <2> QED BY <1>0, <1>7, <2>1, <2>2, <2>3 DEF ReqOnly, IInv, Shape
<1>9. RequestSound(req[r])'
  <2>1. RequestSound(req[r])
    BY DEF IInv
  <2>2. i \notin edited => q.ver0 <= reg[i].ver
    BY <1>4, <2>1 DEF RequestSound, Asked, Open, Busy, Frozen
  <2>3. i \notin edited => q.ver0 <= reg'[i].ver
    BY <1>0, <1>5, <2>2 DEF ReqOK
  <2> QED BY <1>0, <1>4, <1>7, <2>3 DEF RequestSound, Working, Asked, Waits, Current, Frozen
<1>10. Acts(r)
  <2>1. req[r].pc \in Open /\ req[r].pc \in Busy
    BY DEF Open, Busy, Frozen
  <2>2. Newer(i)
    BY <1>0 DEF Newer
  <2>3. \A k \in Ids \ {i} : good'[k] = good[k] /\ finished'[k] = finished[k]
    BY <1>0
  <2> QED BY <1>0, <1>4, <1>7, <2>1, <2>2, <2>3 DEF Acts, ReqOnly
<1> QED BY <1>8, <1>9, <1>10, ActsKeeps

\* The refresh token that came along is stored with whatever came of the access
\* token; nothing is stored over a row that has changed.
LEMMA PersistCandidateKeeps ==
  ASSUME IInv, NEW r \in Requests, PersistCandidate(r) PROVE IInv'
<1>0. PICK i : i = req[r].id
  OBVIOUS
<1> DEFINE q == req[r]
           fields == [token |-> q.token, rt |-> KeptRefreshToken(q), cookies |-> q.row.cookies,
                      cred |-> q.verdict.cred, access |-> q.verdict.access, relogin |-> q.verdict.relogin,
                      recent |-> q.verdict.access = "valid" \/ reg[i].recent]
<1>1. /\ i \in Ids /\ q.pc = "persist" /\ Cas(q) /\ Save(i, fields) /\ Persisted(r)
      /\ RowOK(reg[i]) /\ ReqOK(q)
  BY <1>0 DEF PersistCandidate, IInv, Shape, ReqOK, Open, Busy, Frozen
<1>2. /\ DOMAIN fields = {"token", "rt", "cookies", "cred", "access", "relogin", "recent"}
      /\ fields.token = q.token /\ fields.rt = KeptRefreshToken(q) /\ fields.access = q.verdict.access
  OBVIOUS
<1> HIDE DEF fields
<1>3. /\ reg' = [k \in Ids |-> reg'[k]]
      /\ \A k \in Ids \ {i} : reg'[k] = reg[k]
      /\ DOMAIN reg'[i] = DOMAIN reg[i]
      /\ reg'[i].ver = reg[i].ver + 1
      /\ \A f \in DOMAIN fields : reg'[i][f] = fields[f]
  BY <1>1, <1>2, SaveRow DEF IInv, RowOK
<1>4. reg'[i].token = q.token /\ reg'[i].rt = KeptRefreshToken(q) /\ reg'[i].access = q.verdict.access
  BY <1>2, <1>3
<1>5. KeptRefreshToken(q) \in 0..issued
  BY <1>1 DEF KeptRefreshToken, ReqOK, RowOK
<1>6. RowOK(reg'[i])
  BY <1>1, <1>3, <1>4, <1>5 DEF RowOK, ReqOK
<1>7. /\ recorded' = [k \in Ids |-> recorded'[k]] /\ recorded'[i] \subseteq 0..issued
      /\ \A k \in Ids \ {i} : recorded'[k] = recorded[k]
      /\ recorded'[i] = recorded[i] \/ (q.verdict.access = "revoked" /\ recorded'[i] = recorded[i] \cup {q.token})
  BY <1>0, <1>1 DEF PersistCandidate, IInv, Shape, ReqOK
<1>8. /\ \A k \in Ids \ {i} : k \in adrift => k \in adrift'
      /\ i \in adrift' \/ i \notin adrift \/ (q.rt # 0 /\ q.rt = good[i])
  BY <1>0 DEF PersistCandidate
<1>9. edited' = edited /\ good' = good /\ expired' = expired /\ denied' = denied
  BY <1>1 DEF Persisted, ReqOnly
<1>10. RowSound(i)'
  <2> SUFFICES ASSUME i \notin edited PROVE RowSound(i)'
    BY <1>9 DEF RowSound
  <2>1. Working(q, i) /\ RowSound(i)
    BY <1>0, <1>1 DEF IInv, RequestSound
  <2>2. Blocked(i, q.token, q.verdict.access) /\ Snap(i, q.row)
    BY <1>1, <2>1 DEF Working, Frozen
  <2>3. Blocked(i, reg[i].token, reg[i].access)' /\ recorded'[i] \subseteq denied'[i]
    BY <1>4, <1>7, <1>9, <2>1, <2>2 DEF Blocked, RowSound
  <2>4. q.rt # 0 => q.rt = good[i]
    BY <1>0, <1>1, <2>1 DEF Working, Frozen, Cas, RowOK
  <2>5. CASE q.rt # 0
    BY <1>4, <1>9, <2>3, <2>4, <2>5 DEF RowSound, KeptRefreshToken
  <2>6. CASE q.rt = 0
    <3>1. reg'[i].rt = reg[i].rt
      BY <1>0, <1>1, <1>4, <2>2, <2>6 DEF KeptRefreshToken, Snap, Cas
    <3>2. \A s \in Requests : ~Carries(s, i)
      BY <1>0, <1>1, <2>6 DEF IInv, Lone, Carries, Busy, Frozen
    <3>3. i \in adrift \/ reg[i].rt = good[i]
      BY <2>1, <3>2 DEF RowSound
    <3> QED BY <1>8, <1>9, <2>3, <2>6, <3>1, <3>3 DEF RowSound
  <2> QED BY <2>5, <2>6
<1>11. req'[r].id = i
  BY <1>0, <1>1, NoReqOK DEF Persisted, IInv, Shape, ReqOK
<1> QED BY <1>0, <1>1, <1>3, <1>6, <1>7, <1>8, <1>10, <1>11, PersistedKeeps

\* A failure is saved only over the version it was found in.
LEMMA PersistFailureKeeps ==
  ASSUME IInv, NEW r \in Requests, PersistFailure(r) PROVE IInv'
<1>0. PICK i : i = req[r].id
  OBVIOUS
<1> DEFINE q == req[r]
           fields == [cred |-> q.verdict.cred, access |-> q.verdict.access, relogin |-> q.verdict.relogin]
<1>1. /\ i \in Ids /\ q.pc = "fail" /\ Cas(q) /\ Save(i, fields) /\ Persisted(r)
      /\ RowOK(reg[i]) /\ ReqOK(q)
  BY <1>0 DEF PersistFailure, IInv, Shape, ReqOK, Open, Busy, Frozen
<1>2. DOMAIN fields = {"cred", "access", "relogin"} /\ fields.access = q.verdict.access
  OBVIOUS
<1> HIDE DEF fields
<1>3. /\ reg' = [k \in Ids |-> reg'[k]]
      /\ \A k \in Ids \ {i} : reg'[k] = reg[k]
      /\ DOMAIN reg'[i] = DOMAIN reg[i]
      /\ reg'[i].ver = reg[i].ver + 1
      /\ \A f \in DOMAIN fields : reg'[i][f] = fields[f]
      /\ \A f \in DOMAIN reg[i] \ (DOMAIN fields \cup {"ver"}) : reg'[i][f] = reg[i][f]
  BY <1>1, <1>2, SaveRow DEF IInv, RowOK
<1>4. reg'[i].token = reg[i].token /\ reg'[i].rt = reg[i].rt /\ reg'[i].access = q.verdict.access
  BY <1>1, <1>2, <1>3 DEF RowOK
<1>5. RowOK(reg'[i])
  BY <1>1, <1>3, <1>4 DEF RowOK
<1>6. edited' = edited /\ good' = good /\ expired' = expired /\ denied' = denied /\ recorded' = recorded /\ adrift' = adrift
  BY <1>1 DEF Persisted, ReqOnly, PersistFailure
<1>7. RowSound(i)'
  <2> SUFFICES ASSUME i \notin edited PROVE RowSound(i)'
    BY <1>6 DEF RowSound
  <2>1. Working(q, i) /\ RowSound(i)
    BY <1>0, <1>1 DEF IInv, RequestSound
  <2>2. q.verdict.access = reg[i].access
    BY <1>0, <1>1, <2>1 DEF Working, Frozen, Snap, Cas
  <2>3. Blocked(i, reg[i].token, reg[i].access)'
    BY <1>4, <1>6, <2>1, <2>2 DEF Blocked, RowSound
  <2>4. \A s \in Requests : ~Carries(s, i)
    BY <1>0, <1>1 DEF IInv, Lone, Carries, Busy, Frozen
  <2> QED BY <1>4, <1>6, <2>1, <2>3, <2>4 DEF RowSound
<1>8. recorded' = [k \in Ids |-> recorded'[k]] /\ recorded'[i] \subseteq 0..issued
  BY <1>1, <1>6 DEF IInv, Shape
<1>9. req'[r].id = i
  BY <1>0, <1>1, NoReqOK DEF Persisted, IInv, Shape, ReqOK
<1> QED BY <1>0, <1>1, <1>3, <1>5, <1>6, <1>7, <1>8, <1>9, PersistedKeeps

\* Whatever a request does.
LEMMA RequestKeeps ==
  ASSUME IInv, NEW r \in Requests, EnsureExportable(r) \/ Again(r) \/ Unavailable(r) PROVE IInv'
BY LockKeeps, LoadKeeps, RefreshWithTokenKeeps, RefreshWithSessionKeeps, AgainKeeps, RefreshFailsKeeps,
   ExportExistingTokenKeeps, ProbeKeeps, ConflictKeeps, PersistCandidateKeeps, PersistFailureKeeps, RereadKeeps,
   StoreKeeps, UnavailableKeeps DEF EnsureExportable

-----------------------------------------------------------------------------
(* The rest of the panel.                                                  *)

\* When rows change under the requests: every row that no edit puts back gets
\* newer, and a good token changes with the version only.
LEMMA RowsKeep ==
  ASSUME IInv, Shape', UNCHANGED <<req, finished, denied, recorded>>, edited \subseteq edited',
         \A k \in Ids : expired[k] \subseteq expired'[k],
         \A k \in Ids : k \notin edited' =>
            /\ Newer(k) /\ RowSound(k)'
            /\ good'[k] = good[k] \/ reg'[k].ver > reg[k].ver,
         \A e \in Edits : edit'[e] = edit[e] \/ EditSound(edit[e])'
  PROVE  IInv'
<1>1. Lone'
  BY DEF IInv, Lone
<1>2. ASSUME NEW k \in Ids PROVE RowSound(k)'
  BY DEF RowSound
<1>3. ASSUME NEW r \in Requests PROVE RequestSound(req[r])'
  <2> DEFINE q == req[r]
  <2>1. req'[r] = q /\ RequestSound(q) /\ ReqOK(q)
    BY DEF IInv, Shape
  <2> SUFFICES ASSUME q.id \notin edited'
               PROVE  Working(q, q.id)' /\ Asked(q, q.id)' /\ Waits(q, q.id)' /\ Current(q)'
    BY <2>1 DEF RequestSound
  <2>2. Working(q, q.id) /\ Asked(q, q.id) /\ Waits(q, q.id) /\ Current(q)
    BY <2>1 DEF RequestSound
  <2>3. q.pc \in Open => q.id \in Ids /\ RowOK(reg[q.id]) /\ RowOK(reg[q.id])' /\ Newer(q.id) /\ RowOK(q.row) /\ q.ver0 \in Nat
    BY <2>1 DEF ReqOK, IInv, Shape
  <2>4. Working(q, q.id)'
    <3> SUFFICES ASSUME q.pc \in Frozen PROVE Working(q, q.id)'
      BY <2>1 DEF Working
    <3>1. q.id \in Ids /\ RowOK(reg[q.id]) /\ RowOK(reg[q.id])' /\ Newer(q.id) /\ RowOK(q.row)
      BY <2>3 DEF Open, Busy
    <3>2. Snap(q.id, q.row)'
      BY <2>1, <2>2, <3>1 DEF Working, Snap, Newer, RowOK
    <3>3. Blocked(q.id, q.row.token, q.row.access)' /\ (q.pc = "persist" => Blocked(q.id, q.token, q.verdict.access)')
      BY <2>1, <2>2, <3>1 DEF Working, Blocked
    <3>4. q.rt # 0 /\ q.rt # good'[q.id] => q.row.ver < reg'[q.id].ver
      <4>1. q.row.ver <= reg[q.id].ver /\ reg[q.id].ver <= reg'[q.id].ver
        BY <2>2, <3>1 DEF Working, Snap, Newer, RowOK
      <4>2. good'[q.id] = good[q.id] \/ reg'[q.id].ver > reg[q.id].ver
        BY <3>1
      <4>3. q.rt # 0 => q.rt = good[q.id] \/ q.row.ver < reg[q.id].ver
        BY <2>2 DEF Working
      <4> QED BY <3>1, <4>1, <4>2, <4>3 DEF RowOK
    <3> QED BY <2>1, <2>2, <3>1, <3>2, <3>3, <3>4 DEF Working
  <2>5. Asked(q, q.id)'
    BY <2>1, <2>2, <2>3 DEF Asked, Newer, RowOK
  <2>6. Waits(q, q.id)' /\ Current(q)'
    BY <2>1, <2>2 DEF Waits, Current, Serves
  <2> QED BY <2>4, <2>5, <2>6
<1>4. ASSUME NEW e \in Edits PROVE EditSound(edit[e])'
  <2>1. CASE edit'[e] = edit[e]
    <3> SUFFICES ASSUME edit[e].pc = "read", edit[e].id \notin edited' PROVE Snap(edit[e].id, edit[e].row)'
      BY <2>1 DEF EditSound
    <3>1. Snap(edit[e].id, edit[e].row) /\ edit[e].id \in Ids /\ RowOK(edit[e].row)
      BY DEF IInv, EditSound, Shape, EditOK
    <3>2. RowOK(reg[edit[e].id]) /\ RowOK(reg[edit[e].id])' /\ Newer(edit[e].id)
      BY <2>1, <3>1 DEF IInv, Shape
    <3> QED BY <2>1, <3>1, <3>2 DEF Snap, Newer, RowOK
  <2> QED BY <2>1
<1>6. \A h, w \in Requests : Passes(req[h], req[w])'
  BY DEF IInv, Passes, Serves
<1>5. (\A k \in Ids : RowSound(k))' /\ (\A s \in Requests : RequestSound(req[s]))' /\ (\A e \in Edits : EditSound(edit[e]))'
      /\ (\A h, w \in Requests : Passes(req[h], req[w]))'
  BY <1>2, <1>3, <1>4, <1>6
<1> QED BY <1>1, <1>5, Zenon DEF IInv

\* The shape when neither requests nor completions change.
LEMMA RowsShape ==
  ASSUME Shape, UNCHANGED <<req, finished, denied, recorded>>, issued' \in {issued, issued + 1},
         reg' = [k \in Ids |-> reg'[k]], \A k \in Ids : RowOK(reg[k])',
         good' = [k \in Ids |-> good'[k]], \A k \in Ids : good'[k] \in 0..issued',
         expired' = [k \in Ids |-> expired'[k]],
         edit' = [e \in Edits |-> edit'[e]], \A e \in Edits : EditOK(edit[e])'
  PROVE  Shape'
<1>1. issued' \in Nat \ {0} /\ issued <= issued'
  BY DEF Shape
<1>2. \A row : RowOK(row) => RowOK(row)'
  BY <1>1 DEF RowOK, Shape
<1>3. \A r \in Requests : ReqOK(req[r])'
  BY <1>1, <1>2 DEF ReqOK, Shape
<1>4. \A k \in Ids : recorded'[k] \subseteq 0..issued' /\ FinishedOK(finished[k])'
  BY <1>1 DEF Shape, FinishedOK
<1> QED BY <1>1, <1>3, <1>4 DEF Shape

\* The edits as they are stay what they are.
LEMMA EditsStay ==
  ASSUME Shape, edit' = edit, issued' \in {issued, issued + 1}
  PROVE  edit' = [e \in Edits |-> edit'[e]] /\ \A e \in Edits : EditOK(edit[e])'
BY DEF Shape, EditOK, RowOK

\* A registration is a newer row, and the refresh token it brings is the good one.
LEMMA RegisterKeeps ==
  ASSUME IInv, NEW i \in Ids, Register(i) PROVE IInv'
<1>1. PICK rt \in {0, issued + 1} :
        /\ Save(i, [status |-> "registered", token |-> issued + 1, rt |-> rt, cred |-> "valid",
                    access |-> "valid", relogin |-> FALSE, recent |-> TRUE, shipped |-> FALSE])
        /\ good' = [good EXCEPT ![i] = rt]
  BY DEF Register
<1>2. /\ issued' = issued + 1 /\ adrift' = adrift \ {i} /\ edited' = edited /\ expired' = expired /\ edit' = edit
      /\ UNCHANGED <<req, finished, denied, recorded>> /\ issued \in Nat
  BY DEF Register, RowOnly, IInv, Shape
<1>3. PICK fields : fields = [status |-> "registered", token |-> issued + 1, rt |-> rt, cred |-> "valid",
                    access |-> "valid", relogin |-> FALSE, recent |-> TRUE, shipped |-> FALSE]
  OBVIOUS
<1>4. /\ DOMAIN fields = {"status", "token", "rt", "cred", "access", "relogin", "recent", "shipped"}
      /\ fields.token = issued + 1 /\ fields.rt = rt /\ fields.access = "valid"
  BY <1>3
<1>5. RowOK(reg[i]) /\ Save(i, fields)
  BY <1>1, <1>3 DEF IInv, Shape
<1>6. /\ reg' = [k \in Ids |-> reg'[k]]
      /\ \A k \in Ids \ {i} : reg'[k] = reg[k]
      /\ DOMAIN reg'[i] = DOMAIN reg[i]
      /\ reg'[i].ver = reg[i].ver + 1
      /\ \A f \in DOMAIN fields : reg'[i][f] = fields[f]
  BY <1>4, <1>5, SaveRow DEF IInv, RowOK
<1>7. reg'[i].token = issued + 1 /\ reg'[i].rt = rt /\ reg'[i].access = "valid"
  BY <1>4, <1>6
<1>8. \A k \in Ids : RowOK(reg[k])'
  <2>1. RowOK(reg[i])'
    BY <1>2, <1>5, <1>6, <1>7 DEF RowOK
  <2> QED BY <1>2, <1>6, <2>1 DEF RowOK, IInv, Shape
<1>9. /\ good' = [k \in Ids |-> good'[k]] /\ \A k \in Ids : good'[k] \in 0..issued'
      /\ good'[i] = rt /\ \A k \in Ids \ {i} : good'[k] = good[k]
  BY <1>1, <1>2 DEF IInv, Shape
<1>10. Shape'
  <2>1. expired' = [k \in Ids |-> expired'[k]]
    BY <1>2 DEF IInv, Shape
  <2> QED BY <1>2, <1>6, <1>8, <1>9, <2>1, EditsStay, RowsShape DEF IInv
<1>11. \A k \in Ids : Newer(k) /\ (good'[k] = good[k] \/ reg'[k].ver > reg[k].ver)
  <2>1. reg'[i].ver > reg[i].ver
    BY <1>5, <1>6 DEF RowOK
  <2>2. \A k \in Ids \ {i} : Newer(k)
    BY <1>6 DEF Newer
  <2> QED BY <1>9, <2>1, <2>2 DEF Newer
<1>12. ASSUME NEW k \in Ids PROVE RowSound(k)'
  <2>1. CASE k = i
    <3>1. issued + 1 \notin recorded[i]
      BY <1>2 DEF IInv, Shape
    <3> QED BY <1>2, <1>7, <1>9, <2>1, <3>1 DEF RowSound, Blocked, RowOnly, IInv
  <2>2. CASE k # i
    BY <1>2, <1>6, <1>9, <2>2 DEF IInv, RowSound, Blocked, Carries
  <2> QED BY <2>1, <2>2
<1> QED BY <1>2, <1>10, <1>11, <1>12, RowsKeep

\* Row k is the same as far as snapshots tell.
Same(k) ==
    /\ DOMAIN reg'[k] = DOMAIN reg[k]
    /\ reg'[k].ver = reg[k].ver /\ reg'[k].rt = reg[k].rt /\ reg'[k].token = reg[k].token /\ reg'[k].access = reg[k].access

\* What is written without a new version, and the turns of the clock, are
\* nothing the invariant speaks of.
LEMMA SameKeeps ==
  ASSUME IInv, UNCHANGED <<req, finished, denied, recorded, issued, good, adrift>>, edited \subseteq edited',
         reg' = [k \in Ids |-> reg'[k]], expired' = [k \in Ids |-> expired'[k]],
         \A k \in Ids : expired[k] \subseteq expired'[k],
         \A k \in Ids : RowOK(reg[k])',
         \A k \in Ids : k \notin edited' => Same(k),
         edit' = [e \in Edits |-> edit'[e]], \A e \in Edits : EditOK(edit[e])',
         \A e \in Edits : edit'[e] = edit[e] \/ EditSound(edit[e])'
  PROVE  IInv'
<1>1. Shape'
  BY RowsShape DEF IInv, Shape
<1>2. \A k \in Ids : k \notin edited' => Newer(k)
  BY DEF Same, Newer
<1>3. ASSUME NEW k \in Ids, k \notin edited' PROVE RowSound(k)'
  BY <1>3 DEF IInv, RowSound, Blocked, Carries, Same
<1> QED BY <1>1, <1>2, <1>3, RowsKeep

\* A row that is deleted takes its tokens with it.
LEMMA DeleteKeeps ==
  ASSUME IInv, NEW i \in Ids, Delete(i) PROVE IInv'
<1>1. /\ reg' = [reg EXCEPT ![i].status = "gone"] /\ RowOnly
      /\ UNCHANGED <<issued, good, expired, edit, adrift, edited>>
  BY DEF Delete
<1>2. \A k \in Ids : Same(k) /\ RowOK(reg[k])'
  BY <1>1 DEF Same, RowOK, IInv, Shape
<1>3. reg' = [k \in Ids |-> reg'[k]]
  BY <1>1 DEF IInv, Shape
<1> QED BY <1>1, <1>2, <1>3, EditsStay, SameKeeps DEF RowOnly, IInv, Shape

\* Time makes tokens expire and answers old.
LEMMA AgeKeeps ==
  ASSUME IInv, NEW i \in Ids, Age(i) PROVE IInv'
<1>1. /\ reg' = [reg EXCEPT ![i].recent = FALSE] \/ reg' = reg
      /\ expired' = expired \/ expired' = [expired EXCEPT ![i] = @ \cup {reg[i].token}]
      /\ RowOnly /\ UNCHANGED <<issued, good, edit, adrift, edited>>
  BY DEF Age
<1>2. \A k \in Ids : Same(k) /\ RowOK(reg[k])'
  BY <1>1 DEF Same, RowOK, IInv, Shape
<1>3. reg' = [k \in Ids |-> reg'[k]]
  BY <1>1 DEF IInv, Shape
<1>4. expired' = [k \in Ids |-> expired'[k]] /\ \A k \in Ids : expired[k] \subseteq expired'[k]
  BY <1>1 DEF IInv, Shape
<1> QED BY <1>1, <1>2, <1>3, <1>4, EditsStay, SameKeeps DEF RowOnly, IInv, Shape

\* A download marks rows as shipped.
LEMMA DownloadKeeps ==
  ASSUME IInv, NEW ids \in SUBSET Ids, Download(ids) PROVE IInv'
<1>1. /\ \A k \in Ids : reg'[k] = reg[k] \/ reg'[k] = [reg[k] EXCEPT !.shipped = TRUE]
      /\ reg' = [k \in Ids |-> reg'[k]]
      /\ UNCHANGED <<issued, good, expired, edit, adrift, edited>> /\ RowOnly
  BY DEF Download
<1>2. \A k \in Ids : Same(k) /\ RowOK(reg[k])'
  BY <1>1 DEF Same, RowOK, IInv, Shape
<1> QED BY <1>1, <1>2, EditsStay, SameKeeps DEF RowOnly, IInv, Shape

\* An edit reads the row as it is.
LEMMA UpdateReadKeeps ==
  ASSUME IInv, NEW e \in Edits, NEW i \in Ids, UpdateRead(e, i) PROVE IInv'
<1>1. /\ edit' = [edit EXCEPT ![e] = [pc |-> "read", id |-> i, row |-> reg[i]]]
      /\ UNCHANGED <<reg, issued, good, expired, adrift, edited>> /\ RowOnly
  BY DEF UpdateRead
<1>2. RowOK(reg[i]) /\ \A d \in Edits : EditOK(edit[d])
  BY DEF IInv, Shape
<1>3. edit'[e] = [pc |-> "read", id |-> i, row |-> reg[i]] /\ \A d \in Edits \ {e} : edit'[d] = edit[d]
  BY <1>1 DEF IInv, Shape
<1>4. edit' = [d \in Edits |-> edit'[d]]
  BY <1>1 DEF IInv, Shape
<1>5. edit'[e].id = i /\ edit'[e].row = reg[i] /\ DOMAIN edit'[e] = {"pc", "id", "row"}
  BY <1>3
<1>6. \A d \in Edits : EditOK(edit[d])'
  BY <1>1, <1>2, <1>3, <1>5 DEF EditOK, RowOK
<1>7. EditSound(edit[e])'
  BY <1>1, <1>2, <1>5 DEF EditSound, Snap, RowOK
<1>8. \A k \in Ids : Same(k) /\ RowOK(reg[k])'
  BY <1>1 DEF Same, RowOK, IInv, Shape
<1> QED BY <1>1, <1>3, <1>4, <1>6, <1>7, <1>8, SameKeeps DEF RowOnly, IInv, Shape

\* An edit that finds the version it has read changes nothing but the status;
\* otherwise it has put the row back.
LEMMA UpdateSaveKeeps ==
  ASSUME IInv, NEW e \in Edits, UpdateSave(e) PROVE IInv'
<1>1. PICK i : i = edit[e].id
  OBVIOUS
<1>2. PICK row : row = edit[e].row
  OBVIOUS
<1>3. PICK status : reg' = [reg EXCEPT ![i] = [row EXCEPT !.status = status]]
  BY <1>1, <1>2 DEF UpdateSave
<1>4. /\ i \in Ids /\ RowOK(row) /\ RowOK(reg[i]) /\ (i \notin edited => Snap(i, row))
  BY <1>1, <1>2 DEF UpdateSave, IInv, EditSound, Shape, EditOK
<1>5. /\ edited' = IF row.ver < reg[i].ver THEN edited \cup {i} ELSE edited
      /\ edit' = [edit EXCEPT ![e] = [pc |-> "over", id |-> 0, row |-> Legacy]]
      /\ UNCHANGED <<issued, good, expired, adrift, upsets>> /\ RowOnly
  BY <1>1, <1>2 DEF UpdateSave
<1>6. /\ reg' = [k \in Ids |-> reg'[k]] /\ \A k \in Ids \ {i} : reg'[k] = reg[k]
      /\ reg'[i] = [row EXCEPT !.status = status]
  BY <1>3, <1>4 DEF IInv, Shape
<1>7. /\ DOMAIN reg'[i] = DOMAIN reg[i] /\ RowOK(reg'[i])
      /\ reg'[i].ver = row.ver /\ reg'[i].rt = row.rt /\ reg'[i].token = row.token /\ reg'[i].access = row.access
  BY <1>4, <1>6 DEF RowOK
<1>8. i \notin edited' => Same(i)
  BY <1>4, <1>5, <1>7 DEF Same, Snap, RowOK
<1>9. \A k \in Ids : RowOK(reg[k])' /\ (k \notin edited' => Same(k))
  <2>1. \A k \in Ids \ {i} : Same(k) /\ RowOK(reg[k])'
    BY <1>5, <1>6 DEF Same, RowOK, IInv, Shape
  <2>2. RowOK(reg[i])'
    BY <1>5, <1>7 DEF RowOK
  <2> QED BY <1>8, <2>1, <2>2 DEF RowOK
<1>10. /\ edit'[e] = [pc |-> "over", id |-> 0, row |-> Legacy] /\ \A d \in Edits \ {e} : edit'[d] = edit[d]
       /\ edit' = [d \in Edits |-> edit'[d]]
  BY <1>5 DEF IInv, Shape
<1>11. \A d \in Edits : EditOK(edit[d])' /\ (edit'[d] = edit[d] \/ EditSound(edit[d])')
  <2>1. RowOK(Legacy)'
    BY <1>5 DEF Legacy, RowOK, IInv, Shape
  <2>2. EditOK(edit[e])' /\ EditSound(edit[e])'
    BY <1>10, <2>1 DEF EditOK, EditSound
  <2>3. \A d \in Edits \ {e} : EditOK(edit[d])'
    BY <1>5, <1>10 DEF EditOK, RowOK, IInv, Shape
  <2> QED BY <1>10, <2>2, <2>3
<1> QED BY <1>5, <1>6, <1>9, <1>10, <1>11, SameKeeps DEF RowOnly, IInv, Shape

\* A restart ends every request, forgets every outcome and gives up what was
\* on its way; the repair touches nothing a snapshot tells.
LEMMA RestartKeeps ==
  ASSUME IInv, Restart PROVE IInv'
<1>1. /\ reg' = [i \in Ids |-> Repaired(reg[i])]
      /\ adrift' = adrift \cup {i \in Ids : \E r \in Holder(i) : req[r].rt /= 0 /\ req[r].rt = good[i] /\ reg[i].rt /= good[i]}
      /\ req' = [r \in Requests |-> IF req[r].pc = "idle" THEN NoReq ELSE [NoReq EXCEPT !.pc = "over"]]
      /\ edit' = [e \in Edits |-> [edit[e] EXCEPT !.pc = IF @ = "read" THEN "over" ELSE @]]
      /\ finished' = [i \in Ids |-> [n |-> 0, outcome |-> NoOutcome]]
      /\ UNCHANGED <<issued, good, expired, denied, recorded, edited>>
  BY DEF Restart
<1>2. ReqOK(NoReq) /\ NoReq.pc = "idle"
  BY NoReqOK DEF IInv
<1>3. PICK q : q = [NoReq EXCEPT !.pc = "over"]
  OBVIOUS
<1>4. ReqOK(q) /\ q.pc = "over" /\ q.outcome = NoOutcome
  <2>1. /\ DOMAIN q = DOMAIN NoReq /\ q.pc = "over" /\ q.outcome = NoReq.outcome /\ q.ver0 = NoReq.ver0
        /\ q.row = NoReq.row /\ q.since = NoReq.since /\ q.rt = NoReq.rt /\ q.token = NoReq.token /\ q.verdict = NoReq.verdict
    BY <1>2, <1>3 DEF ReqOK
  <2>2. NoReq.outcome = NoOutcome
    BY DEF NoReq
  <2> QED BY <1>2, <2>1, <2>2 DEF ReqOK, Open, Busy, Frozen
<1>5. \A r \in Requests : req'[r] = NoReq \/ req'[r] = q
  BY <1>1, <1>3
<1>6. \A r \in Requests : ReqOK(req[r])' /\ RequestSound(req[r])' /\ req'[r].pc \in {"idle", "over"}
  <2> TAKE r \in Requests
  <2>1. ReqOK(req'[r]) /\ req'[r].pc \in {"idle", "over"}
    BY <1>2, <1>4, <1>5
  <2>2. ReqOK(req[r])'
    BY <1>1, <2>1 DEF ReqOK, RowOK
  <2>3. req'[r].pc = "over" => ~req'[r].outcome.exportable
    BY <1>2, <1>4, <1>5 DEF NoOutcome
  <2> QED BY <2>1, <2>2, <2>3 DEF RequestSound, Working, Asked, Waits, Current, Open, Busy, Frozen
<1>7. \A k \in Ids : RowOK(reg[k])' /\ Same(k)
  <2> TAKE k \in Ids
  <2>1. RowOK(reg[k]) /\ (reg'[k] = reg[k] \/ reg'[k] = [reg[k] EXCEPT !.cred = "valid"])
    BY <1>1 DEF Repaired, IInv, Shape
  <2> QED BY <1>1, <2>1 DEF RowOK, Same
<1>8. \A k \in Ids : FinishedOK(finished[k])'
  BY <1>1 DEF FinishedOK, NoOutcome
<1>9. ASSUME NEW e \in Edits PROVE EditOK(edit[e])' /\ EditSound(edit[e])'
  <2>1. EditOK(edit[e])
    BY DEF IInv, Shape
  <2>2. edit'[e] = [edit[e] EXCEPT !.pc = IF @ = "read" THEN "over" ELSE @]
    BY <1>1
  <2>3. DOMAIN edit'[e] = DOMAIN edit[e] /\ edit'[e].row = edit[e].row /\ edit'[e].pc # "read"
    BY <2>1, <2>2 DEF EditOK
  <2> QED BY <1>1, <2>1, <2>3 DEF EditOK, EditSound, RowOK
<1>10. Shape'
  BY <1>1, <1>6, <1>7, <1>8, <1>9 DEF IInv, Shape
<1>11. Lone'
  BY <1>6 DEF Lone, Busy, Frozen
<1>12. ASSUME NEW k \in Ids PROVE RowSound(k)'
  <2>1. ASSUME NEW r \in Requests, Carries(r, k), reg[k].rt # good[k] PROVE k \in adrift'
    BY <1>1, <2>1 DEF Carries, Holder
  <2> QED BY <1>1, <1>7, <2>1 DEF IInv, RowSound, Blocked, Same
<1>13. (\A k \in Ids : RowSound(k))' /\ (\A s \in Requests : RequestSound(req[s]))' /\ (\A e \in Edits : EditSound(edit[e]))'
       /\ (\A h, w \in Requests : Passes(req[h], req[w]))'
  BY <1>6, <1>9, <1>12 DEF Passes
<1> QED BY <1>10, <1>11, <1>13, Zenon DEF IInv

\* A request that comes has seen nothing yet.
LEMMA AskKeeps ==
  ASSUME IInv, NEW r \in Requests, NEW i \in Ids, NEW migrates, Ask(r, i, migrates) PROVE IInv'
<1>1. PICK q : q = [NoReq EXCEPT !.pc = "waiting", !.id = i, !.migrates = migrates, !.since = finished[i].n, !.ver0 = reg[i].ver, !.late = Late(i)]
  OBVIOUS
<1>2. /\ req[r].pc = "idle" /\ req' = [req EXCEPT ![r] = q]
      /\ UNCHANGED <<reg, issued, good, expired, edit, finished, upsets, histories>>
  BY <1>1 DEF Ask
<1>3. req'[r] = q /\ req' = [s \in Requests |-> req'[s]] /\ \A s \in Requests \ {r} : req'[s] = req[s]
  BY <1>2 DEF IInv, Shape
<1>4. /\ DOMAIN q = DOMAIN NoReq /\ q.pc = "waiting" /\ q.id = i /\ q.since = finished[i].n /\ q.ver0 = reg[i].ver /\ q.late = Late(i)
      /\ q.row = NoReq.row /\ q.outcome = NoReq.outcome /\ q.rt = NoReq.rt /\ q.token = NoReq.token /\ q.verdict = NoReq.verdict
  BY <1>1, NoReqOK DEF IInv, ReqOK
<1>5. ReqOK(q)
  BY <1>4, NoReqOK DEF ReqOK, RowOK, FinishedOK, IInv, Shape
<1>6. \A s \in Requests : ReqOK(req[s])'
  BY <1>2, <1>3, <1>5 DEF ReqOK, RowOK, IInv, Shape
<1>7. Shape'
  BY <1>2, <1>3, <1>6 DEF IInv, Shape, RowOK, FinishedOK, EditOK, histories
<1>8. Lone'
  BY <1>3, <1>4 DEF IInv, Lone, Busy, Frozen
<1>9. ASSUME NEW k \in Ids PROVE RowSound(k)'
  <2>1. \A s \in Requests : Carries(s, k) => Carries(s, k)'
    BY <1>2, <1>3 DEF Carries
  <2> QED BY <1>2, <2>1 DEF IInv, RowSound, Blocked, histories
<1>10. ASSUME NEW s \in Requests PROVE RequestSound(req[s])'
  <2>1. CASE s = r
    <3>1. reg[i].ver \in Nat /\ finished[i].n \in Nat
      BY DEF IInv, Shape, RowOK, FinishedOK
    <3> QED BY <1>2, <1>3, <1>4, <2>1, <3>1 DEF RequestSound, Working, Asked, Waits, Current, Frozen
  <2>2. CASE s # r
    BY <1>2, <1>3, <2>2 DEF IInv, RequestSound, Working, Asked, Waits, Current, Serves, Snap, Blocked, histories
  <2> QED BY <2>1, <2>2
<1>11. ASSUME NEW e \in Edits PROVE EditSound(edit[e])'
  BY <1>2 DEF IInv, EditSound, Snap, histories
<1>13. ASSUME NEW h \in Requests, NEW w \in Requests PROVE Passes(req[h], req[w])'
  <2>1. CASE h = r
    BY <1>3, <1>4, <2>1 DEF Passes
  <2>2. CASE h # r /\ w # r
    BY <1>2, <1>3, <2>2 DEF IInv, Passes, Serves, histories
  <2>3. CASE h # r /\ w = r
    <3> SUFFICES ASSUME req[h].pc = "store", req[h].id = i PROVE Serves(req[h].outcome, q)
      BY <1>3, <1>4, <2>3 DEF Passes, Serves
    <3>1. h \in Holder(i)
      BY DEF Holder
    <3> QED BY <1>4, <3>1 DEF Late, Serves
  <2> QED BY <2>1, <2>2, <2>3
<1>12. (\A k \in Ids : RowSound(k))' /\ (\A s \in Requests : RequestSound(req[s]))' /\ (\A e \in Edits : EditSound(edit[e]))'
       /\ (\A h, w \in Requests : Passes(req[h], req[w]))'
  BY <1>9, <1>10, <1>11, <1>13
<1> QED BY <1>7, <1>8, <1>12, Zenon DEF IInv

\* What the invariant speaks of, all but the migration's own flag.
unseen == <<reg, issued, good, expired, req, edit, finished, denied, recorded, adrift, edited>>

\* What no property reads may change.
LEMMA UnseenKeeps ==
  ASSUME IInv, UNCHANGED unseen PROVE IInv'
<1>1. Shape' /\ Lone'
  BY DEF IInv, unseen, Shape, Lone, RowOK, ReqOK, EditOK, FinishedOK
<1>2. (\A k \in Ids : RowSound(k))'
  BY DEF IInv, unseen, RowSound, Blocked, Carries
<1>3. (\A s \in Requests : RequestSound(req[s]))' /\ (\A e \in Edits : EditSound(edit[e]))'
  BY DEF IInv, unseen, RequestSound, Working, Asked, Waits, Current, Serves, Snap, Blocked, EditSound
<1>4. (\A h, w \in Requests : Passes(req[h], req[w]))'
  BY DEF IInv, unseen, Passes, Serves
<1> QED BY <1>1, <1>2, <1>3, <1>4, Zenon DEF IInv

-----------------------------------------------------------------------------
(* The invariant.                                                          *)

\* Before the first request the stored refresh tokens are the good ones and
\* nothing is known to be refused.
LEMMA Initially == Init => IInv
<1> SUFFICES ASSUME Init PROVE IInv
  OBVIOUS
<1>1. PICK old \in {Legacy, Verified}, rt \in {0, 1} : reg = [i \in Ids |-> [old EXCEPT !.rt = rt]]
  BY DEF Init
<1>2. /\ issued = 1 /\ good = [i \in Ids |-> reg[i].rt] /\ expired = [i \in Ids |-> {}]
      /\ req = [r \in Requests |-> NoReq] /\ edit = [e \in Edits |-> [pc |-> "idle", id |-> 0, row |-> Legacy]]
      /\ finished = [i \in Ids |-> [n |-> 0, outcome |-> NoOutcome]] /\ denied = [i \in Ids |-> {}] /\ recorded = denied
  BY DEF Init
<1>3. RowOK(Legacy) /\ RowOK(old) /\ RowOK([old EXCEPT !.rt = rt])
  <2>1. RowOK(Legacy)
    BY <1>2 DEF Legacy, RowOK
  <2>2. RowOK(Verified)
    BY <2>1 DEF Verified, RowOK
  <2>3. RowOK(old)
    BY <2>1, <2>2
  <2> QED BY <1>2, <2>1, <2>3 DEF RowOK
<1>4. ReqOK(NoReq) /\ NoReq.pc = "idle"
  <2>1. NoReq.row = Legacy /\ NoReq.pc = "idle"
    BY DEF NoReq
  <2> QED BY <1>2, <1>3, <2>1 DEF ReqOK, NoReq, Open, Busy, Frozen, Verdict, NoOutcome
<1>5. \A i \in Ids : RowOK(reg[i]) /\ good[i] = reg[i].rt /\ recorded[i] = {} /\ FinishedOK(finished[i])
  BY <1>1, <1>2, <1>3 DEF FinishedOK, NoOutcome
<1>6. \A e \in Edits : EditOK(edit[e]) /\ edit[e].pc = "idle"
  BY <1>2, <1>3 DEF EditOK
<1>7. Shape
  <2>1. \A i \in Ids : good[i] \in 0..issued /\ recorded[i] \subseteq 0..issued
    BY <1>5 DEF RowOK
  <2>2. /\ reg = [i \in Ids |-> reg[i]] /\ good = [i \in Ids |-> good[i]] /\ expired = [i \in Ids |-> expired[i]]
        /\ denied = [i \in Ids |-> denied[i]] /\ recorded = [i \in Ids |-> recorded[i]] /\ finished = [i \in Ids |-> finished[i]]
    BY <1>1, <1>2
  <2>3. req = [r \in Requests |-> req[r]] /\ edit = [e \in Edits |-> edit[e]] /\ issued \in Nat \ {0}
    BY <1>2
  <2> QED BY <1>2, <1>4, <1>5, <1>6, <2>1, <2>2, <2>3 DEF Shape
<1>8. \A r \in Requests : req[r].pc = "idle"
  BY <1>2, <1>4
<1>12. \A i \in Ids : recorded[i] = {} /\ denied[i] = {} /\ good[i] = reg[i].rt
  BY <1>2
<1>13. \A i \in Ids : reg[i].access # "revoked"
  <2>3. Legacy.access = "unchecked"
    BY DEF Legacy
  <2>4. Verified.access = "valid"
    BY <1>3, <2>3 DEF Verified, RowOK
  <2>1. old.access # "revoked"
    BY <2>3, <2>4
  <2>2. [old EXCEPT !.rt = rt].access = old.access
    BY <1>3 DEF RowOK
  <2> QED BY <1>1, <2>1, <2>2
<1>9. Lone /\ \A i \in Ids : RowSound(i)
  BY <1>8, <1>12, <1>13 DEF Lone, Busy, Frozen, RowSound, Blocked
<1>10. (\A r \in Requests : RequestSound(req[r])) /\ \A e \in Edits : EditSound(edit[e])
  BY <1>6, <1>8 DEF RequestSound, Working, Asked, Waits, Current, Open, Busy, Frozen, EditSound
<1>11. \A h, w \in Requests : Passes(req[h], req[w])
  BY <1>8 DEF Passes
<1> QED BY <1>7, <1>9, <1>10, <1>11 DEF IInv

\* Every step of the system.
LEMMA EveryStep == IInv /\ [Next]_vars => IInv'
<1> SUFFICES ASSUME IInv, [Next]_vars PROVE IInv'
  OBVIOUS
<1>1. ASSUME NEW r \in Requests, EnsureExportable(r) \/ Again(r) \/ Unavailable(r) PROVE IInv'
  BY <1>1, RequestKeeps
<1>2. ASSUME NEW r \in Requests, NEW i \in Ids, LiveCheckStart(r, i) \/ startGPTCredentialMigration(r, i) PROVE IInv'
  BY <1>2, AskKeeps DEF LiveCheckStart, startGPTCredentialMigration
<1>3. CASE MigrationDone
  BY <1>3, UnseenKeeps DEF MigrationDone, unseen, histories
<1>4. CASE Restart
  BY <1>4, RestartKeeps
<1>5. ASSUME NEW i \in Ids, Register(i) \/ Delete(i) \/ Age(i) PROVE IInv'
  BY <1>5, RegisterKeeps, DeleteKeeps, AgeKeeps
<1>6. ASSUME NEW e \in Edits, UpdateSave(e) \/ \E i \in Ids : UpdateRead(e, i) PROVE IInv'
  BY <1>6, UpdateSaveKeeps, UpdateReadKeeps
<1>7. ASSUME NEW ids \in SUBSET Ids, Download(ids) PROVE IInv'
  BY <1>7, DownloadKeeps
<1>8. CASE UNCHANGED vars
  BY <1>8, UnseenKeeps DEF vars, unseen
<1> QED BY <1>1, <1>2, <1>3, <1>4, <1>5, <1>6, <1>7, <1>8, Zenon DEF Next

\* The invariant holds however many accounts, requests and edits there are.
THEOREM Invariance == Spec => []IInv
BY Initially, EveryStep, PTL DEF Spec

-----------------------------------------------------------------------------
(* The properties of the runs.                                             *)

\* The refresh token that is stored is the one that is good, unless a request
\* still carries the next or the answer, the request or the row was lost.
THEOREM RotationKeptAlways == Spec => []RotationKept
<1>1. IInv => RotationKept
  BY DEF IInv, RowSound, RotationKept, Pending, Holder, Carries
<1> QED BY <1>1, Invariance, PTL

\* A token whose refusal for good was saved is not exported again.
THEOREM RefusedStaysBlockedAlways == Spec => []RefusedStaysBlocked
<1>1. IInv => RefusedStaysBlocked
  BY DEF IInv, RowSound, RefusedStaysBlocked, Blocked, classifyStoredCredential
<1> QED BY <1>1, Invariance, PTL

\* No request is given the outcome of one that saw an earlier row, unless that
\* outcome was about to be stored when the request came.
THEOREM OutcomeCurrentAlways == Spec => []OutcomeCurrent
<1>1. IInv => OutcomeCurrent
  BY DEF IInv, RequestSound, OutcomeCurrent, Current, Serves
<1> QED BY <1>1, Invariance, PTL

\* No step of a request writes an older refresh token over a newer one.
LEMMA RequestForward ==
  ASSUME IInv, NEW r \in Requests, PersistCandidate(r) \/ PersistFailure(r), NEW k \in Ids, k \notin edited'
  PROVE  reg'[k].rt >= reg[k].rt
<1>1. PICK i : i = req[r].id
  OBVIOUS
<1>2. /\ i \in Ids /\ req[r].pc \in {"persist", "fail"} /\ Cas(req[r]) /\ RowOK(reg[i]) /\ RowOK(reg[k]) /\ ReqOK(req[r])
      /\ edited' = edited
  BY <1>1 DEF PersistCandidate, PersistFailure, Persisted, IInv, Shape, ReqOK, Open, Busy, Frozen
<1>3. PICK fields : /\ Save(i, fields) /\ DOMAIN fields \subseteq DOMAIN reg[i] /\ "ver" \notin DOMAIN fields
                    /\ "rt" \in DOMAIN fields => req[r].pc = "persist" /\ fields.rt = KeptRefreshToken(req[r])
  <2> DEFINE f == [cred |-> req[r].verdict.cred, access |-> req[r].verdict.access, relogin |-> req[r].verdict.relogin]
             g == [token |-> req[r].token, rt |-> KeptRefreshToken(req[r]), cookies |-> req[r].row.cookies,
                   cred |-> req[r].verdict.cred, access |-> req[r].verdict.access, relogin |-> req[r].verdict.relogin,
                   recent |-> req[r].verdict.access = "valid" \/ reg[i].recent]
  <2>1. DOMAIN f = {"cred", "access", "relogin"}
    OBVIOUS
  <2>2. DOMAIN g = {"token", "rt", "cookies", "cred", "access", "relogin", "recent"} /\ g.rt = KeptRefreshToken(req[r])
    OBVIOUS
  <2>3. (req[r].pc = "persist" /\ Save(i, g)) \/ (req[r].pc = "fail" /\ Save(i, f))
    BY <1>1 DEF PersistCandidate, PersistFailure
  <2> HIDE DEF f, g
  <2> QED BY <1>2, <2>1, <2>2, <2>3 DEF RowOK
<1>4. /\ \A j \in Ids \ {i} : reg'[j] = reg[j]
      /\ \A f \in DOMAIN fields : reg'[i][f] = fields[f]
      /\ \A f \in DOMAIN reg[i] \ (DOMAIN fields \cup {"ver"}) : reg'[i][f] = reg[i][f]
  BY <1>2, <1>3, SaveRow DEF IInv
<1>5. CASE k # i
  BY <1>2, <1>4, <1>5 DEF RowOK
<1>6. CASE k = i /\ "rt" \in DOMAIN fields
  <2>1. Working(req[r], i)
    BY <1>1, <1>2, <1>6 DEF IInv, RequestSound
  <2>2. req[r].row.rt = reg[i].rt /\ (req[r].rt # 0 => req[r].rt > req[r].row.rt)
    BY <1>1, <1>2, <1>3, <1>6, <2>1 DEF Working, Frozen, Snap, Cas
  <2>3. reg'[i].rt = KeptRefreshToken(req[r])
    BY <1>3, <1>4, <1>6
  <2> QED BY <1>2, <1>6, <2>2, <2>3 DEF KeptRefreshToken, RowOK, ReqOK
<1>7. CASE k = i /\ "rt" \notin DOMAIN fields
  BY <1>2, <1>4, <1>7 DEF RowOK
<1> QED BY <1>5, <1>6, <1>7

\* Of the other steps, a registration brings a newer token or none, and an edit
\* that changes the token has put the row back.
LEMMA PanelForward ==
  ASSUME IInv, NEW k \in Ids, k \notin edited',
         \/ \E i \in Ids : Register(i) \/ Delete(i) \/ Age(i)
         \/ \E e \in Edits : UpdateSave(e)
         \/ \E ids \in SUBSET Ids : Download(ids)
         \/ Restart
  PROVE  reg'[k].rt >= reg[k].rt \/ reg'[k].rt = 0
<1>0. RowOK(reg[k])
  BY DEF IInv, Shape
<1>1. ASSUME NEW i \in Ids, Register(i) PROVE reg'[k].rt >= reg[k].rt \/ reg'[k].rt = 0
  <2>1. PICK rt \in {0, issued + 1} :
          Save(i, [status |-> "registered", token |-> issued + 1, rt |-> rt, cred |-> "valid",
                   access |-> "valid", relogin |-> FALSE, recent |-> TRUE, shipped |-> FALSE])
    BY <1>1 DEF Register
  <2>2. PICK fields : fields = [status |-> "registered", token |-> issued + 1, rt |-> rt, cred |-> "valid",
                   access |-> "valid", relogin |-> FALSE, recent |-> TRUE, shipped |-> FALSE]
    OBVIOUS
  <2>3. DOMAIN fields = {"status", "token", "rt", "cred", "access", "relogin", "recent", "shipped"} /\ fields.rt = rt
    BY <2>2
  <2>4. RowOK(reg[i]) /\ Save(i, fields)
    BY <2>1, <2>2 DEF IInv, Shape
  <2>5. reg'[i].rt = rt /\ \A j \in Ids \ {i} : reg'[j] = reg[j]
    BY <2>3, <2>4, SaveRow DEF IInv, RowOK
  <2>6. issued \in Nat
    BY DEF IInv, Shape
  <2> QED BY <1>0, <2>5, <2>6 DEF RowOK
<1>2. ASSUME NEW i \in Ids, Delete(i) \/ Age(i) PROVE reg'[k].rt = reg[k].rt
  BY <1>0, <1>2 DEF Delete, Age, IInv, Shape, RowOK
<1>3. ASSUME NEW ids \in SUBSET Ids, Download(ids) PROVE reg'[k].rt = reg[k].rt
  BY <1>0, <1>3 DEF Download, IInv, Shape, RowOK
<1>4. CASE Restart
  <2>1. reg'[k] = Repaired(reg[k])
    BY <1>4 DEF Restart
  <2>2. reg'[k].rt = reg[k].rt
    BY <1>0, <2>1 DEF Repaired, RowOK
  <2> QED BY <1>0, <2>2 DEF RowOK
<1>5. ASSUME NEW e \in Edits, UpdateSave(e) PROVE reg'[k].rt = reg[k].rt
  <2>0. PICK i, row : i = edit[e].id /\ row = edit[e].row
    OBVIOUS
  <2>1. PICK status : reg' = [reg EXCEPT ![i] = [row EXCEPT !.status = status]]
    BY <1>5, <2>0 DEF UpdateSave
  <2>2. /\ i \in Ids /\ RowOK(row) /\ RowOK(reg[i]) /\ (i \notin edited => Snap(i, row))
        /\ edited' = IF row.ver < reg[i].ver THEN edited \cup {i} ELSE edited
    BY <1>5, <2>0 DEF UpdateSave, IInv, EditSound, Shape, EditOK
  <2>3. CASE k = i
    <3>1. reg'[k].rt = row.rt
      BY <2>1, <2>2, <2>3 DEF IInv, Shape, RowOK
    <3>2. row.rt = reg[i].rt
      BY <2>2, <2>3 DEF Snap, RowOK
    <3> QED BY <2>3, <3>1, <3>2
  <2>4. CASE k # i
    BY <2>1, <2>4 DEF IInv, Shape
  <2> QED BY <2>3, <2>4
<1> QED BY <1>0, <1>1, <1>2, <1>3, <1>4, <1>5 DEF RowOK

\* No late request, and nothing else but an edit, puts an older refresh token
\* where a newer one is.
THEOREM LateNeverOverwritesAlways == Spec => LateNeverOverwrites
<1>1. IInv /\ [Next]_vars => [\A i \in Ids : i \notin edited' => reg'[i].rt >= reg[i].rt \/ reg'[i].rt = 0]_vars
  <2> SUFFICES ASSUME IInv, Next, NEW k \in Ids, k \notin edited' PROVE reg'[k].rt >= reg[k].rt \/ reg'[k].rt = 0
    BY Zenon
  <2>0. RowOK(reg[k])
    BY DEF IInv, Shape
  <2>1. CASE reg' = reg
    BY <2>0, <2>1 DEF RowOK
  <2>2. ASSUME NEW r \in Requests, EnsureExportable(r) \/ Again(r) \/ Unavailable(r)
        PROVE  reg' = reg \/ PersistCandidate(r) \/ PersistFailure(r)
    BY <2>2 DEF EnsureExportable, Again, Unavailable, Lock, Load, Store, RefreshWithToken, RefreshWithSession, Unanswered,
                RefreshFails, ExportExistingToken, Probe, Conflict, Reread, Quiet
  <2>3. ASSUME NEW r \in Requests, NEW i \in Ids, LiveCheckStart(r, i) \/ startGPTCredentialMigration(r, i) PROVE reg' = reg
    BY <2>3 DEF LiveCheckStart, startGPTCredentialMigration, Ask
  <2>4. ASSUME NEW e \in Edits, NEW i \in Ids, UpdateRead(e, i) PROVE reg' = reg
    BY <2>4 DEF UpdateRead
  <2>5. MigrationDone => reg' = reg
    BY DEF MigrationDone
  <2>6. ASSUME NEW r \in Requests, PersistCandidate(r) \/ PersistFailure(r) PROVE reg'[k].rt >= reg[k].rt
    BY <2>6, RequestForward
  <2>7. CASE \/ \E i \in Ids : Register(i) \/ Delete(i) \/ Age(i)
             \/ \E e \in Edits : UpdateSave(e)
             \/ \E ids \in SUBSET Ids : Download(ids)
             \/ Restart
    BY <2>7, PanelForward
  <2> QED BY <2>1, <2>2, <2>3, <2>4, <2>5, <2>6, <2>7, Zenon DEF Next
<1> QED BY <1>1, Invariance, PTL DEF Spec, LateNeverOverwrites
=============================================================================
