----------------------------- MODULE MCAssemble -----------------------------
(* Small clusters for TLC.                                                 *)
EXTENDS Assemble

CONSTANTS d1, d2, d3, a1, a2, a3, b1

\* One address for each device, and a second one, b1, of d1.
MCOwner == [a \in Addresses |-> CASE a = a2 -> d2 [] a = a3 -> d3 [] OTHER -> d1]
MCListen == [d \in Devices |-> CASE d = d1 -> a1 [] d = d2 -> a2 [] OTHER -> a3]

\* d1 and d3 cannot reach each other.
Line == [d \in Devices |-> IF d = d2 THEN {a1, a3} ELSE {a2}]

\* Devices discover all addresses but their own.
Others == [d \in Devices |-> {a \in Addresses : Owner[a] # d}]

Everywhere == [d \in Devices |-> Addresses]

\* Nothing has happened yet.
Fresh == [d \in Devices |-> EmptySession]

\* All devices have exchanged auth messages with the ones they can discover, and
\* nothing else.
Paired ==
    [d \in Devices |->
        LET peers == {p \in Devices \ {d} : Listen[p] \in Discoverable[d]}
        IN  [EmptySession EXCEPT
               !.trusted = peers \cup {d}, !.ids = {d},
               !.addresses = [p \in Devices |-> IF p \in peers THEN Listen[p] ELSE NoAddr],
               !.discovered = {Listen[p] : p \in peers}]]

\* All but d3 know everything about one another.
Joining ==
    LET old == Devices \ {d3}
        routes == {<<p, q, Listen[q]>> : <<p, q>> \in {x \in old \X old : x[1] # x[2]}}
    IN  [d \in Devices |->
            IF d = d3 THEN Paired[d]
            ELSE [Paired[d] EXCEPT
                    !.ids = old, !.routes = routes,
                    !.known = [p \in Devices |-> IF p \in old \ {d} THEN old ELSE {}]]]

\* Nobody expects a size, or everybody the right one, or d3 expects one other device.
NoSize == [d \in Devices |-> 0]
RightSize == [d \in Devices |-> Cardinality(Devices)]
OneOther == [d \in Devices |-> IF d = d3 THEN 2 ELSE 0]
=============================================================================
