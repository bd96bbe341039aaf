---------------------------- MODULE MailboxClaims ----------------------------
(***************************************************************************)
(* What the batch producer promises about addresses, whatever its loop,    *)
(* its workers and the restarts do: an address is held by at most one task *)
(* and only while it is open; a mailbox serves one address at a time; an   *)
(* alias is taken up only after the mailbox's own address was found final, *)
(* and nothing else was done with the mailbox since.                       *)
(***************************************************************************)
CONSTANTS
  Mailbox,   \* the mailboxes
  Suffix     \* the suffixes of a mailbox's addresses; 0 is its own address

VARIABLES
  held,      \* addresses some task works on
  final,     \* addresses never to be tried again
  cleared    \* mailboxes whose own address was found final

Address == Mailbox \X Suffix

Init == held = {} /\ final = {} /\ cleared = {}

Free(m) == \A b \in held : b[1] # m

Clear(m) ==
  /\ Free(m) /\ <<m, 0>> \in final
  /\ cleared' = cleared \cup {m}
  /\ UNCHANGED <<held, final>>

\* The mailbox is passed over.
Pass(m) ==
  /\ cleared' = cleared \ {m}
  /\ UNCHANGED <<held, final>>

Claim(a) ==
  /\ a \notin final /\ Free(a[1])
  /\ a[2] # 0 => a[1] \in cleared
  /\ held' = held \cup {a} /\ cleared' = cleared \ {a[1]}
  /\ UNCHANGED final

\* The task of a held address settles it for good.
Finalise(a) ==
  /\ a \in held /\ a \notin final
  /\ final' = final \cup {a}
  /\ UNCHANGED <<held, cleared>>

Release(a) ==
  /\ a \in held
  /\ held' = held \ {a}
  /\ UNCHANGED <<final, cleared>>

\* The process dies: every task is gone, the settled addresses stay.
Restart == held' = {} /\ cleared' = {} /\ UNCHANGED final

\* An operator deletes records.
Forget ==
  /\ \E gone \in SUBSET final : final' = final \ gone
  /\ UNCHANGED <<held, cleared>>

Next ==
  \/ \E m \in Mailbox : Clear(m) \/ Pass(m)
  \/ \E a \in Address : Claim(a) \/ Finalise(a) \/ Release(a)
  \/ Restart \/ Forget

Spec == Init /\ [][Next]_<<held, final, cleared>>

\* One task per mailbox.
Exclusive == \A a, b \in held : a[1] = b[1] => a = b
=============================================================================
