----------------------------- MODULE MCAccounts -----------------------------
(* 1 is a mailbox of the pool and the mother account made with it, 2 an    *)
(* alias of it, 3 a mailbox that no account was made with yet.             *)
EXTENDS Accounts

CONSTANTS m1, m2

MCEmails   == 1..3
MCAccounts == {1, 2}
MCMothers  == {1}
MCPool     == {1, 3}
MCBoxOf    == [e \in 1..3 |-> IF e = 3 THEN m2 ELSE m1]
AllPlatforms == {"grok", "adobe", "leonardo", "lovart"}
=============================================================================
