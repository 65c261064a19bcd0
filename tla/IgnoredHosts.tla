---------------------------- MODULE IgnoredHosts ----------------------------
(***************************************************************************)
(* What the ignore list promises: a host that is ignored stays so for Time *)
(* seconds, and no longer.                                                 *)
(***************************************************************************)
EXTENDS Naturals

CONSTANTS Host, Time

VARIABLE left      \* seconds for which a host is ignored

Init == left = [h \in Host |-> 0]

Add == \E h \in Host : left[h] = 0 /\ left' = [left EXCEPT ![h] = Time]

Second == left' = [h \in Host |-> IF left[h] = 0 THEN 0 ELSE left[h] - 1]

Next == Add \/ Second

Spec == Init /\ [][Next]_left
==============================================================================
