---------------------------- MODULE SerialStore ----------------------------
(***************************************************************************)
(* What the transactions of a confdb promise: many may read at a time, or  *)
(* one may write; the data only changes by a commit of the one that        *)
(* writes, which changes all its paths at once.  It says nothing of        *)
(* queues, hooks, changes, failures and restarts.                          *)
(***************************************************************************)
CONSTANTS Accesses, Writers, Keys, NoTx

VARIABLES
    data,       \* the transaction that wrote each path last
    readers,    \* transactions that read
    writer      \* the transaction that writes, or NoTx

storeVars == <<data, readers, writer>>

StoreInit ==
    /\ data = [k \in Keys |-> NoTx]
    /\ readers = {} /\ writer = NoTx

BeginRead(a) ==
    /\ a \notin Writers /\ writer = NoTx
    /\ readers' = readers \cup {a}
    /\ UNCHANGED <<data, writer>>

BeginWrite(a) ==
    /\ a \in Writers /\ writer = NoTx /\ readers = {}
    /\ writer' = a
    /\ UNCHANGED <<data, readers>>

Commit(a) ==
    /\ writer = a
    /\ \E paths \in SUBSET Keys : data' = [k \in Keys |-> IF k \in paths THEN a ELSE data[k]]
    /\ UNCHANGED <<readers, writer>>

End(a) ==
    /\ \/ writer = a /\ writer' = NoTx /\ UNCHANGED readers
       \/ a \in readers /\ readers' = readers \ {a} /\ UNCHANGED writer
    /\ UNCHANGED data

StoreNext == \E a \in Accesses : BeginRead(a) \/ BeginWrite(a) \/ Commit(a) \/ End(a)

StoreSpec == StoreInit /\ [][StoreNext]_storeVars
=============================================================================
