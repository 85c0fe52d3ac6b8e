-------------------------- MODULE MCRestartManager --------------------------
(* Small changes with reboots for TLC.                                     *)
EXTENDS RestartManager

CONSTANTS t1, t2, t3

MCIndex == [t \in Tasks |-> CASE t = t1 -> 1 [] t = t2 -> 2 [] OTHER -> 3]

NoWait == [t \in Tasks |-> {}]
NoBlocking == [t \in Tasks |-> {}]
OneLane == [t \in Tasks |-> <<0>>]

\* Two snaps, each in its lane, and a task that follows both.
JoinWait == [t \in Tasks |-> IF t = t3 THEN {t1, t2} ELSE {}]
TwoLanes == [t \in Tasks |-> CASE t = t1 -> <<1>> [] t = t2 -> <<2>> [] OTHER -> <<0>>]
=============================================================================
