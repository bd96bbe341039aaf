---------------------------- MODULE VerifyQueue ----------------------------
(***************************************************************************)
(* What the mailbox verifier promises about each mailbox, whatever its     *)
(* workers do: a request stays queued until a worker takes it; one worker  *)
(* at a time works on a mailbox; a result is recorded only when no request *)
(* came after the work began; what a restart interrupts is queued again.   *)
(***************************************************************************)
CONSTANTS
  Id,       \* the mailboxes
  Result    \* what a verification may find

VARIABLES
  state,    \* of each mailbox: out, queued, taken or a result
  busy      \* the mailboxes some worker works on

States == {"out", "queued", "taken"} \cup Result

Init == state = [i \in Id |-> "out"] /\ busy = {}

Set(ids, s) == state' = [i \in Id |-> IF i \in ids THEN s ELSE state[i]]

Request == \E ids \in SUBSET Id : Set(ids, "queued") /\ UNCHANGED busy
\* Another part of the system deletes or disables mailboxes.
Withdraw == \E ids \in SUBSET Id : Set(ids, "out") /\ UNCHANGED busy

Take(i) ==
  /\ state[i] = "queued" /\ i \notin busy
  /\ Set({i}, "taken")
  /\ busy' = busy \cup {i}

Record(i, r) ==
  /\ i \in busy /\ state[i] = "taken"
  /\ Set({i}, r)
  /\ UNCHANGED busy

\* A worker never leaves a mailbox it took without a result.
Leave(i) ==
  /\ i \in busy /\ state[i] # "taken"
  /\ busy' = busy \ {i}
  /\ UNCHANGED state

Restart ==
  /\ Set({i \in Id : state[i] = "taken"}, "queued")
  /\ busy' = {}

Next ==
  \/ Request \/ Withdraw \/ Restart
  \/ \E i \in Id : Take(i) \/ Leave(i)
  \/ \E i \in Id, r \in Result : Record(i, r)

Spec == Init /\ [][Next]_<<state, busy>>
=============================================================================
