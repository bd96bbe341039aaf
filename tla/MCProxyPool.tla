----------------------------- MODULE MCProxyPool -----------------------------
(* The instances of ProxyPool that TLC checks: two tasks of one channel    *)
(* and one of another.                                                     *)
EXTENDS ProxyPool, TLC

Off == [source |-> "off", url |-> 0, window |-> 0]
List == [source |-> "list", url |-> 0, window |-> 0]
Unlimited == [source |-> "api", url |-> 1, window |-> 0]
Limited == [source |-> "api", url |-> 2, window |-> 3]

AllConfigs == {Off, List, Unlimited, Limited}

\* The last task works for another channel; the first one asks for a window
\* that Limited does not cover.
TwoChannels == [t \in {"t1", "t2", "t3"} |-> IF t = "t3" THEN "c2" ELSE "c1"]
SmallBudgets == [t \in {"t1", "t2", "t3"} |-> IF t = "t1" THEN 2 ELSE 1]
=============================================================================
