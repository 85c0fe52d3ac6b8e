--------------------------- MODULE MCTaskRunner ---------------------------
(* Small changes for TLC: the shapes snapd builds.                         *)
EXTENDS TaskRunner

CONSTANTS t1, t2, t3, t4

\* taskIDs in the order t1, t2, t3, t4.
MCIndex == [t \in Tasks |-> CASE t = t1 -> 1 [] t = t2 -> 2 [] t = t3 -> 3 [] OTHER -> 4]

NoWait == [t \in Tasks |-> {}]
OneLane == [t \in Tasks |-> <<0>>]

\* Two snaps in lanes 1 and 2, and a task in both lanes that follows them.
TwoLanes == [t \in Tasks |-> CASE t = t1 -> <<1>> [] t = t2 -> <<2>> [] OTHER -> <<1, 2>>]
JoinWait == [t \in Tasks |-> IF t = t3 THEN {t1, t2} ELSE {}]

\* A task shared by two snaps, one more task of each, and a fourth in no lane;
\* all of them wait for the shared one.
SharedWait == [t \in Tasks |-> IF t = t1 THEN {} ELSE {t1}]
SharedLanes == [t \in Tasks |-> CASE t = t1 -> <<1, 2>> [] t = t2 -> <<1>> [] t = t3 -> <<2>> [] OTHER -> <<0>>]

\* t2 and t3 may not run at the same time.
SerialSnaps == [t \in Tasks |-> CASE t = t2 -> {t3} [] t = t3 -> {t2} [] OTHER -> {}]

\* t1 and t2 may not run at the same time.
SerialFirstTwo == [t \in Tasks |-> CASE t = t1 -> {t2} [] t = t2 -> {t1} [] OTHER -> {}]
=============================================================================
