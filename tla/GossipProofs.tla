---------------------------- MODULE GossipProofs ----------------------------
(* What gossip keeps true of the whole cluster: identities that are asked for *)
(* are known to who is asked, routes that are held back are known to the peer,*)
(* and a device that counts routes counts devices.  For every cluster.        *)
EXTENDS AssembleProofs, FiniteSetTheorems

-----------------------------------------------------------------------------
(* The invariants.                                                         *)

Ends(R, D) == \A r \in R : r[1] \in D /\ r[2] \in D

\* A device has identified itself and the ends of the routes it has verified.
Identity == \A d \in Devices : d \in as[d].ids /\ Ends(as[d].verified, as[d].ids)

\* A peer that a device has heard of another one from has identified that one, or
\* it is the device itself.  A peer is sent routes between devices that the sender
\* has identified, and the one to itself.
Heard ==
    \A d, p \in Devices : /\ as[d].known[p] \subseteq as[p].ids \cup {d}
                          /\ session[d].known[p] \subseteq as[p].ids \cup {d}
Published == \A d \in Devices : Ends(gossip[d].routes, as[d].ids \cup {gossip[d].to})

HeardInv == Heard /\ Published /\ QueriesAnswerable

\* No identity is only in memory.
Saved == \A d \in Devices : as[d].ids = session[d].ids \cup {d}

\* What is published is held by the sender, and once acknowledged by the receiver.
Delivered ==
    \A d \in Devices : /\ gossip[d].routes \subseteq as[d].edges
                       /\ gossip[d].answer = "ok" => gossip[d].routes \subseteq as[gossip[d].to].edges

KnownInv == PeersKnowRoutes /\ Delivered

\* Routes and addresses lead where they say.
LeadsAll(R) == \A r \in R : Leads(r)
LeadsTo(d, addresses) == \A p \in Devices : addresses[p] # NoAddr => Leads(<<d, p, addresses[p]>>)

LeadsInv ==
    \A d \in Devices : /\ LeadsAll(as[d].edges) /\ LeadsAll(session[d].routes)
                       /\ LeadsAll(gossip[d].routes)
                       /\ LeadsTo(d, as[d].addresses) /\ LeadsTo(d, session[d].addresses)
                       /\ Listen[d] \notin auth[d].todo /\ auth[d].at # Listen[d]

\* No device has a second address, and none expects fewer devices than there are.
OneAddress == \A a, b \in Addresses : Owner[a] = Owner[b] => a = b
EnoughExpected == \A d \in Devices : Expected[d] # 0 => Expected[d] >= Cardinality(Devices)

\* A device that is done has verified a route between any two devices, of those
\* there are.
Connected(s) == \A p, q \in Devices : p # q => \E a \in Addresses : <<p, q, a>> \in s.verified
DoneInv == \A d \in Devices : as[d].completed => Connected(as[d]) /\ Expected[d] = Cardinality(Devices)
NoOverflow == \A d \in Devices : ~Overflows(d, as[d])
-----------------------------------------------------------------------------
(* What a step does, field by field, to the one device whose lock it holds. *)

\* The same identities, routes and addresses.
SameIds(t, s) == s.ids = t.ids /\ s.known = t.known
SameRoutes(t, s) == s.edges = t.edges /\ s.verified = t.verified
SameDone(t, s) == s.completed = t.completed

Inert(t, s) ==
    /\ SameIds(t, s) /\ SameRoutes(t, s) /\ SameDone(t, s)
    /\ s.addresses = t.addresses /\ s.knownByPeers = t.knownByPeers

\* A route to a peer p that has been reached at address a.
Meets(e, s) ==
    \E p \in Devices, a \in Addresses :
        /\ as[e].addresses[p] = a \/ (auth[e].answer = "ok" /\ auth[e].at = a /\ Owner[a] = p)
        /\ s.addresses = [as[e].addresses EXCEPT ![p] = a]
        /\ s.edges = as[e].edges \cup {<<e, p, a>>} \/ s.edges = as[e].edges
        /\ s.verified = as[e].verified /\ s.knownByPeers = as[e].knownByPeers
        /\ SameIds(as[e], s) /\ SameDone(as[e], s)

\* shutdownAtExpectedSize.
Done(e, t, s) == s.completed = (t.completed \/ (Expected[e] # 0 /\ Complete(s, Expected[e])))

\* The routes that d has published.
Learns(e, d, s) ==
    /\ gossip[d].answer = "sent" /\ gossip[d].to = e
    /\ s.ids = as[e].ids
    /\ s.known = [as[e].known EXCEPT ![d] = @ \cup DevicesIn(gossip[d].routes)]
    /\ s.edges = as[e].edges \cup gossip[d].routes
    /\ s.verified = as[e].verified \cup Identified(as[e], gossip[d].routes)
    /\ s.knownByPeers = [as[e].knownByPeers EXCEPT ![d] = @ \cup gossip[d].routes]
    /\ s.addresses = as[e].addresses
    /\ Done(e, as[e], s)

Identifies(e, s) ==
    /\ as[e].ids \subseteq s.ids
    /\ s.known = as[e].known /\ s.edges = as[e].edges
    /\ s.verified = as[e].verified \cup Identified(s, s.edges)
    /\ s.knownByPeers = as[e].knownByPeers /\ s.addresses = as[e].addresses
    /\ Done(e, as[e], s)

\* The peer has acknowledged the routes.
Acks(e, s) ==
    /\ gossip[e].answer = "ok"
    /\ SameIds(as[e], s) /\ SameRoutes(as[e], s) /\ SameDone(as[e], s)
    /\ s.addresses = as[e].addresses
    /\ s.knownByPeers = [as[e].knownByPeers EXCEPT ![gossip[e].to] = @ \cup gossip[e].routes]

\* Only a restart forgets.
Resumes(e, s) == s = NewAssembleState(e, session[e]) /\ restarts' # restarts /\ UNCHANGED session

Shape(e, s) ==
    \/ Inert(as[e], s)
    \/ Meets(e, s)
    \/ \E d \in Devices : Learns(e, d, s)
    \/ Identifies(e, s)
    \/ Acks(e, s)
    \/ Resumes(e, s)

\* How the rounds go on when the state of e becomes s.
SameRequest(g, h) == h.to = g.to /\ h.routes = g.routes

GossipMoves(e, s, d) ==
    \/ gossip'[d] = gossip[d]
    \/ gossip'[d] = NoGossip
    \/ d = e /\ \E todo \in SUBSET Devices : gossip'[d] \in GossipTurns(d, s, todo)
    \/ SameRequest(gossip[d], gossip'[d]) /\ gossip[d].to = e /\ gossip[d].routes \subseteq s.edges

TalkMoves(e, s, d) ==
    \/ talk'[d] = talk[d]
    \/ talk'[d] = NoTalk
    \/ d = e /\ \E mode \in {"query", "respond"}, todo \in SUBSET Devices :
                    talk'[d] \in TalkTurns(s, mode, todo)
    \/ /\ talk[d].answer = "sent" /\ talk'[d].mode = talk[d].mode
       /\ talk'[d].to = talk[d].to /\ talk'[d].what = talk[d].what

AuthMoves(d) ==
    \/ auth'[d] = auth[d]
    \/ auth'[d] = NoAuth
    \/ \E todo \in SUBSET Addresses : /\ todo = auth[d].todo \/ Listen[d] \notin todo
                                      /\ auth'[d] \in AuthTurns(todo)
    \/ auth'[d].todo = auth[d].todo /\ auth'[d].at = auth[d].at

\* What is not committed is nothing new, or an overflow.
SavesIds(e, s) == Commits(e, s) \/ s.ids = as[e].ids \/ Overflows(e, s) \/ Resumes(e, s)

Step(e, s) ==
    /\ Updates(e, s) /\ (Commits(e, s) \/ UNCHANGED session) /\ SavesIds(e, s)
    /\ Shape(e, s)
    /\ \A d \in Devices : GossipMoves(e, s, d) /\ TalkMoves(e, s, d) /\ AuthMoves(d)
    /\ restarts' # restarts => Resumes(e, s)

AnyStep == \E e \in Devices, s \in States : Step(e, s)

LEMMA InertStep ==
  ASSUME NEW e \in Devices, NEW s \in States, Updates(e, s), Commits(e, s) \/ UNCHANGED session,
         Inert(as[e], s), restarts' = restarts,
         \A d \in Devices : GossipMoves(e, s, d) /\ TalkMoves(e, s, d) /\ AuthMoves(d)
  PROVE  Step(e, s)
  BY DEF Step, Inert, SameIds, Shape, SavesIds

\* What CommitRoutes and CommitDevices do with state t.
LEMMA FinishStep ==
  ASSUME NEW e \in Devices, NEW t \in States, NEW from, NEW answer, Finish(e, t, from, answer)
  PROVE  \E s \in States :
            /\ Updates(e, s) /\ (Commits(e, s) \/ (UNCHANGED session /\ Overflows(e, s)))
            /\ SameIds(t, s) /\ SameRoutes(t, s)
            /\ s.addresses = t.addresses /\ s.knownByPeers = t.knownByPeers
            /\ Done(e, t, s)
<1> DEFINE s == ShutdownAtExpectedSize(e, t)
<1>1. s \in States
  BY ShutdownType
<1>2. /\ SameIds(t, s) /\ SameRoutes(t, s)
      /\ s.addresses = t.addresses /\ s.knownByPeers = t.knownByPeers
      /\ s.trusted = t.trusted /\ s.discovered = t.discovered /\ s.queries = t.queries
      /\ s.completed = (t.completed \/ (Expected[e] # 0 /\ Complete(t, Expected[e])))
  BY DEF ShutdownAtExpectedSize, States, SameIds, SameRoutes
<1>3. Updates(e, s)
  BY DEF Finish
<1> HIDE DEF s
<1>4. Export(s) = Export(t)
  BY <1>2 DEF Export, SameIds, SameRoutes
<1>5. Complete(s, Expected[e]) = Complete(t, Expected[e]) /\ Overflows(e, s) = Overflows(e, t)
  BY <1>2 DEF Complete, Overflows, TooMany, SameRoutes
<1>6. Commits(e, s) \/ (UNCHANGED session /\ Overflows(e, s))
  BY <1>4, <1>5 DEF Finish, Commits
<1>7. Done(e, t, s)
  BY <1>2, <1>5 DEF Done
<1>8. QED
  BY <1>1, <1>2, <1>3, <1>6, <1>7

LEMMA RoundsSame ==
  /\ UNCHANGED gossip => \A e, s : \A d \in Devices : GossipMoves(e, s, d)
  /\ UNCHANGED talk => \A e, s : \A d \in Devices : TalkMoves(e, s, d)
  /\ UNCHANGED auth => \A d \in Devices : AuthMoves(d)
  BY DEF GossipMoves, TalkMoves, AuthMoves

LEMMA AuthShape == ASSUME TypeInv, NEW d \in Devices, AuthStep(d) PROVE AnyStep
<1> StatesOK /\ AuthOK
  BY TypeInvParts
<1> as[d] \in States /\ auth[d] \in AuthRounds /\ AuthTo(auth[d]) /\ as \in [Devices -> States]
  BY DEF StatesOK, AuthOK
<1> \A e, s : \A x \in Devices : GossipMoves(e, s, x) /\ TalkMoves(e, s, x)
  <2> UNCHANGED gossip /\ UNCHANGED talk
    BY DEF AuthStep, Discover, AuthDelivered, AuthAnswered
  <2> QED
    BY RoundsSame
<1> restarts' = restarts
  BY DEF AuthStep, Discover, AuthDelivered, AuthAnswered, boundVars
\* One round moves.
<1>a. ASSUME NEW todo \in SUBSET Addresses, todo = auth[d].todo \/ Listen[d] \notin todo,
             \E g \in AuthTurns(todo) : auth' = [auth EXCEPT ![d] = g]
      PROVE  \A x \in Devices : AuthMoves(x)
  <2> PICK g \in AuthTurns(todo) : auth' = [auth EXCEPT ![d] = g]
    BY <1>a
  <2> SUFFICES ASSUME NEW x \in Devices PROVE AuthMoves(x)
    OBVIOUS
  <2>1. auth'[x] = IF x = d THEN g ELSE auth[x]
    BY DEF AuthOK
  <2>2. QED
    BY <1>a, <2>1 DEF AuthMoves
<1>1. ASSUME NEW found \in SUBSET Discoverable[d], Discover(d, found) PROVE AnyStep
  <2> DEFINE todo == (found \ {Listen[d]}) \ as[d].discovered
  <2>1. todo \in SUBSET Addresses /\ Listen[d] \notin todo
    BY AssembleAssumption
  <2>2. \E g \in AuthTurns(todo) : auth' = [auth EXCEPT ![d] = g]
    BY <1>1 DEF Discover
  <2>3. \A x \in Devices : AuthMoves(x)
    BY <1>a, <2>1, <2>2
  <2>4. Updates(d, as[d]) /\ (Commits(d, as[d]) \/ UNCHANGED session)
    BY <1>1 DEF Discover, Updates, StatesOK
  <2>5. Step(d, as[d])
    BY <2>3, <2>4, InertStep DEF Inert, SameIds, SameRoutes, SameDone
  <2>6. QED
    BY <2>5 DEF AnyStep
<1>2. ASSUME NEW answer, AuthDelivered(d, answer) PROVE AnyStep
  <2> DEFINE to == Owner[auth[d].at]
             s == Authenticated(to, d)
             addr == as[to].addresses[d]
             t == [as[to] EXCEPT !.trusted = @ \cup {d}]
  <2>1. to \in Devices
    BY <1>2, AssembleAssumption DEF AuthDelivered, AuthTo
  <2>2. as[to] \in States /\ s \in States
    BY <2>1, AuthenticatedType DEF StatesOK
  <2>3. Updates(to, s) /\ Commits(to, s)
    BY <1>2 DEF AuthDelivered, AuthenticateAndCommit, Authenticated
  <2>4. \A x \in Devices : AuthMoves(x)
    <3>1. auth' = [auth EXCEPT ![d].answer = answer]
      BY <1>2 DEF AuthDelivered
    <3>2. \A x \in Devices : auth'[x].todo = auth[x].todo /\ auth'[x].at = auth[x].at
      BY <3>1 DEF AuthOK, AuthRounds
    <3>3. QED
      BY <3>2 DEF AuthMoves
  <2>5. s = IF addr = NoAddr THEN t ELSE AddAuthoritativeRoute(t, to, d, addr)
    BY <2>2 DEF Authenticated, States
  <2>6. Inert(as[to], t)
    BY <2>2 DEF Inert, SameIds, SameRoutes, SameDone, States
  <2>7. as[to].addresses \in [Devices -> Addresses \cup {NoAddr}]
    BY <2>2 DEF States
  <2> HIDE DEF to
  <2>8. CASE addr = NoAddr
    <3>1. Inert(as[to], s)
      BY <2>5, <2>6, <2>8
    <3> HIDE DEF s
    <3>2. Step(to, s)
      BY <2>1, <2>2, <2>3, <2>4, <3>1, InertStep
    <3>3. QED
      BY <2>1, <2>2, <3>2 DEF AnyStep
  <2>9. CASE addr # NoAddr
    <3>1. /\ s.edges = as[to].edges \cup {<<to, d, addr>>} /\ s.verified = as[to].verified
          /\ s.addresses = as[to].addresses /\ s.knownByPeers = as[to].knownByPeers
          /\ s.ids = as[to].ids /\ s.known = as[to].known /\ s.completed = as[to].completed
      BY <2>2, <2>5, <2>9 DEF AddAuthoritativeRoute, States
    <3>2. addr \in Addresses /\ as[to].addresses = [as[to].addresses EXCEPT ![d] = addr]
      BY <2>7, <2>9
    <3> HIDE DEF s
    <3>3. Meets(to, s)
      BY <3>1, <3>2 DEF Meets, SameIds, SameDone
    <3>4. Step(to, s)
      BY <2>3, <2>4, <3>3 DEF Step, Shape, SavesIds
    <3>5. QED
      BY <2>1, <2>2, <3>4 DEF AnyStep
  <2>10. QED
    BY <2>8, <2>9
<1>3. CASE AuthAnswered(d)
  <2> DEFINE a == auth[d].at
             pp == Owner[a]
             s == IF auth[d].answer = "ok" THEN Reached(d, pp, a) ELSE as[d]
  <2>1. a \in Addresses /\ pp \in Devices /\ auth[d].todo \in SUBSET Addresses
    BY <1>3, AssembleAssumption DEF AuthAnswered, Over, AuthTo, AuthRounds
  <2>2. CASE auth' = [auth EXCEPT ![d] = NoAuth] /\ UNCHANGED <<as, session>>
    <3>1. \A x \in Devices : AuthMoves(x)
      BY <2>2 DEF AuthMoves, AuthOK
    <3>2. Updates(d, as[d]) /\ UNCHANGED session
      BY <2>2 DEF Updates, StatesOK
    <3>3. Step(d, as[d])
      BY <3>1, <3>2, InertStep DEF Inert, SameIds, SameRoutes, SameDone
    <3>4. QED
      BY <3>3 DEF AnyStep
  <2>3. CASE /\ \E g \in AuthTurns(auth[d].todo) : auth' = [auth EXCEPT ![d] = g]
             /\ Updates(d, s)
             /\ Commits(d, s) \/ UNCHANGED session
    <3>1. \A x \in Devices : AuthMoves(x)
      BY <1>a, <2>1, <2>3
    <3>2. s \in States
      BY <2>1, ReachedType
    <3>3. CASE auth[d].answer # "ok"
      <4>1. s = as[d]
        BY <3>3
      <4>2. Step(d, s)
        BY <2>3, <3>1, <3>2, <4>1, InertStep DEF Inert, SameIds, SameRoutes, SameDone
      <4>3. QED
        BY <3>2, <4>2 DEF AnyStep
    <3>4. CASE auth[d].answer = "ok"
      <4>1. s = Reached(d, pp, a)
        BY <3>4
      <4>2. /\ s.edges = as[d].edges \cup {<<d, pp, a>>} \/ s.edges = as[d].edges
            /\ s.addresses = [as[d].addresses EXCEPT ![pp] = a]
            /\ s.verified = as[d].verified /\ s.knownByPeers = as[d].knownByPeers
            /\ s.ids = as[d].ids /\ s.known = as[d].known /\ s.completed = as[d].completed
        BY <4>1 DEF Reached, AddAuthoritativeRoute, States
      <4> HIDE DEF s
      <4>3. Meets(d, s)
        BY <2>1, <3>4, <4>2 DEF Meets, SameIds, SameDone
      <4>4. Step(d, s)
        BY <2>3, <3>1, <4>2, <4>3 DEF Step, Shape, SavesIds
      <4>5. QED
        BY <3>2, <4>4 DEF AnyStep
    <3>5. QED
      BY <3>3, <3>4
  <2>4. QED
    BY <1>3, <2>2, <2>3 DEF AuthAnswered
<1>4. QED
  BY <1>1, <1>2, <1>3 DEF AuthStep

LEMMA GossipShape == ASSUME TypeInv, NEW d \in Devices, GossipStep(d) PROVE AnyStep
<1> StatesOK /\ GossipOK
  BY TypeInvParts
<1> as[d] \in States /\ gossip[d] \in GossipRounds /\ RequestTo(gossip[d])
  BY DEF StatesOK, GossipOK
<1> \A e, s : \A x \in Devices : AuthMoves(x) /\ TalkMoves(e, s, x)
  <2> UNCHANGED auth /\ UNCHANGED talk
    BY DEF GossipStep, PublishRoutes, RoutesDelivered, RoutesAnswered
  <2> QED
    BY RoundsSame
<1> restarts' = restarts
  BY DEF GossipStep, PublishRoutes, RoutesDelivered, RoutesAnswered, boundVars
<1>a. ASSUME NEW s, NEW todo \in SUBSET Devices,
             \E g \in GossipTurns(d, s, todo) : gossip' = [gossip EXCEPT ![d] = g]
      PROVE  \A x \in Devices : GossipMoves(d, s, x)
  <2> PICK g \in GossipTurns(d, s, todo) : gossip' = [gossip EXCEPT ![d] = g]
    BY <1>a
  <2>1. \A x \in Devices : gossip'[x] = IF x = d THEN g ELSE gossip[x]
    BY DEF GossipOK
  <2>2. QED
    BY <2>1 DEF GossipMoves
<1>1. ASSUME NEW selected \in SUBSET Devices, PublishRoutes(d, selected) PROVE AnyStep
  <2>1. Updates(d, as[d]) /\ UNCHANGED session
    BY <1>1 DEF PublishRoutes, Updates, StatesOK
  <2>2. \A x \in Devices : GossipMoves(d, as[d], x)
    BY <1>1, <1>a DEF PublishRoutes
  <2>3. Step(d, as[d])
    BY <2>1, <2>2, InertStep DEF Inert, SameIds, SameRoutes, SameDone
  <2>4. QED
    BY <2>3 DEF AnyStep
<1>2. ASSUME NEW answer, RoutesDelivered(d, answer) PROVE AnyStep
  <2> DEFINE to == gossip[d].to
             R == gossip[d].routes
             t == RecordDevicesKnownBy(as[to], d, DevicesIn(R))
             u == RecordRoutes(t, d, R)
  <2>1. to \in Devices /\ R \in SUBSET Routes /\ gossip[d].answer = "sent"
    BY <1>2 DEF RoutesDelivered, RequestTo, GossipRounds
  <2>2. as[to] \in States
    BY <2>1 DEF StatesOK
  <2>3. t \in States /\ u \in States
    BY <2>1, <2>2, DevicesInType, RecordDevicesKnownByType, RecordRoutesType
  <2>4. Finish(to, u, d, answer)
    BY <1>2 DEF RoutesDelivered, CommitRoutes
  <2>5. /\ t.ids = as[to].ids /\ t.known = [as[to].known EXCEPT ![d] = @ \cup DevicesIn(R)]
        /\ t.edges = as[to].edges /\ t.verified = as[to].verified
        /\ t.knownByPeers = as[to].knownByPeers /\ t.addresses = as[to].addresses
        /\ t.completed = as[to].completed
    BY <2>2 DEF RecordDevicesKnownBy, States
  <2>6. /\ u.ids = t.ids /\ u.known = t.known /\ u.edges = t.edges \cup R
        /\ u.verified = t.verified \cup Identified(t, R)
        /\ u.knownByPeers = [t.knownByPeers EXCEPT ![d] = @ \cup R]
        /\ u.addresses = t.addresses /\ u.completed = t.completed
    BY <2>3 DEF RecordRoutes, States
  <2>7. gossip' = [gossip EXCEPT ![d].answer = answer]
    BY <1>2 DEF RoutesDelivered
  <2> HIDE DEF u, t
  <2>8. Identified(t, R) = Identified(as[to], R)
    BY <2>5 DEF Identified
  <2>9. PICK s \in States :
            /\ Updates(to, s) /\ (Commits(to, s) \/ (UNCHANGED session /\ Overflows(to, s)))
            /\ SameIds(u, s) /\ SameRoutes(u, s)
            /\ s.addresses = u.addresses /\ s.knownByPeers = u.knownByPeers
            /\ Done(to, u, s)
    BY <2>1, <2>3, <2>4, FinishStep
  <2>10. Learns(to, d, s)
    BY <2>1, <2>5, <2>6, <2>8, <2>9 DEF Learns, SameIds, SameRoutes, Done
  <2>11. ASSUME NEW x \in Devices PROVE GossipMoves(to, s, x)
    <3>1. CASE x = d
      <4>1. SameRequest(gossip[x], gossip'[x])
        BY <2>7, <3>1 DEF GossipOK, GossipRounds, SameRequest
      <4>2. R \subseteq s.edges
        BY <2>10 DEF Learns
      <4>3. QED
        BY <3>1, <4>1, <4>2 DEF GossipMoves
    <3>2. CASE x # d
      BY <2>7, <3>2 DEF GossipOK, GossipMoves
    <3>3. QED
      BY <3>1, <3>2
  <2> HIDE DEF to, R
  <2>12. Step(to, s)
    BY <2>9, <2>10, <2>11 DEF Step, Shape, SavesIds
  <2>13. QED
    BY <2>1, <2>12 DEF AnyStep
<1>3. CASE RoutesAnswered(d)
  <2> DEFINE t == [as[d] EXCEPT !.knownByPeers[gossip[d].to] = @ \cup gossip[d].routes]
             s == IF gossip[d].answer = "ok" THEN t ELSE as[d]
  <2>1. gossip[d].routes \subseteq Routes /\ gossip[d].todo \in SUBSET Devices
    BY DEF GossipRounds
  <2>2. [as[d].knownByPeers EXCEPT ![gossip[d].to] = @ \cup gossip[d].routes] \in [Devices -> SUBSET Routes]
    BY <2>1 DEF States
  <2>3. t \in States
    BY <2>2 DEF States
  <2>4. s \in States
    BY <2>3
  <2>5. Updates(d, s) /\ UNCHANGED session
    BY <1>3 DEF RoutesAnswered
  <2>6. \A x \in Devices : GossipMoves(d, s, x)
    BY <1>3, <1>a, <2>1 DEF RoutesAnswered
  <2>7. CASE gossip[d].answer = "ok"
    <3>1. s = t
      BY <2>7
    <3>2. Acks(d, s)
      BY <2>7, <3>1 DEF Acks, SameIds, SameRoutes, SameDone, States
    <3> HIDE DEF s
    <3>3. Step(d, s)
      BY <2>5, <2>6, <3>2 DEF Step, Shape, SavesIds, Acks, SameIds
    <3>4. QED
      BY <2>4, <3>3 DEF AnyStep
  <2>8. CASE gossip[d].answer # "ok"
    <3>1. s = as[d]
      BY <2>8
    <3> HIDE DEF s
    <3>2. Step(d, s)
      BY <2>4, <2>5, <2>6, <3>1, InertStep DEF Inert, SameIds, SameRoutes, SameDone
    <3>3. QED
      BY <2>4, <3>2 DEF AnyStep
  <2>9. QED
    BY <2>7, <2>8
<1>4. QED
  BY <1>1, <1>2, <1>3 DEF GossipStep

LEMMA TalkShape == ASSUME TypeInv, NEW d \in Devices, TalkStep(d) PROVE AnyStep
<1> StatesOK /\ TalkOK
  BY TypeInvParts
<1> as[d] \in States /\ talk[d] \in TalkRounds /\ RequestTo(talk[d])
  BY DEF StatesOK, TalkOK
<1> talk[d].todo \in SUBSET Devices /\ talk[d].what \in SUBSET Devices
  BY DEF TalkRounds
<1> \A e, s : \A x \in Devices : AuthMoves(x) /\ GossipMoves(e, s, x)
  <2> UNCHANGED auth /\ UNCHANGED gossip
    BY DEF TalkStep, PublishDeviceQueries, PublishDevicesAndCommit, DevicesDelivered,
           QueriesAnswered, ResponsesAnswered
  <2> QED
    BY RoundsSame
<1> restarts' = restarts
  BY DEF TalkStep, PublishDeviceQueries, PublishDevicesAndCommit, DevicesDelivered,
         QueriesAnswered, ResponsesAnswered, boundVars
\* The goroutine's own critical sections.
<1>1. ASSUME NEW s \in States, Inert(as[d], s), NEW mode \in {"query", "respond"},
             NEW todo \in SUBSET Devices, TalkOn(d, s, mode, todo)
      PROVE  AnyStep
  <2>1. PICK g \in TalkTurns(s, mode, todo) :
            /\ Updates(d, s)
            /\ talk' = [talk EXCEPT ![d] = g]
            /\ IF g = NoTalk /\ mode = "respond" THEN Commits(d, s) ELSE UNCHANGED session
    BY <1>1 DEF TalkOn
  <2>2. \A x \in Devices : talk'[x] = IF x = d THEN g ELSE talk[x]
    BY <2>1 DEF TalkOK
  <2>3. \A x \in Devices : TalkMoves(d, s, x)
    BY <2>2 DEF TalkMoves
  <2>4. Step(d, s)
    BY <1>1, <2>1, <2>3, InertStep
  <2>5. QED
    BY <2>4 DEF AnyStep
<1>2. ASSUME NEW late \in SUBSET (Devices \ as[d].trusted),
             PublishDeviceQueries(d, late) \/ PublishDevicesAndCommit(d, late)
      PROVE  AnyStep
  <2>1. as[d].trusted \cup late \in SUBSET Devices
    BY DEF States
  <2>2. [as[d] EXCEPT !.pendingQueries = FALSE] \in States
        /\ [as[d] EXCEPT !.pendingResponses = FALSE] \in States
    BY DEF States
  <2>3. Inert(as[d], [as[d] EXCEPT !.pendingQueries = FALSE])
        /\ Inert(as[d], [as[d] EXCEPT !.pendingResponses = FALSE])
    BY DEF States, Inert, SameIds, SameRoutes, SameDone
  <2>4. CASE PublishDeviceQueries(d, late)
    BY <1>1, <2>1, <2>2, <2>3, <2>4 DEF PublishDeviceQueries
  <2>5. CASE PublishDevicesAndCommit(d, late)
    BY <1>1, <2>1, <2>2, <2>3, <2>5 DEF PublishDevicesAndCommit
  <2>6. QED
    BY <1>2, <2>4, <2>5
<1>3. ASSUME NEW answer, DevicesDelivered(d, answer) PROVE AnyStep
  <2> DEFINE to == talk[d].to
             query == RecordIncomingQuery(as[to], d, talk[d].what)
             t == [as[to] EXCEPT !.ids = @ \cup talk[d].what]
             v == VerifyRoutes(t)
  <2>1. to \in Devices /\ talk[d].answer = "sent"
    BY <1>3 DEF DevicesDelivered, RequestTo
  <2>2. as[to] \in States
    BY <2>1 DEF StatesOK
  <2>3. query \in States
    BY <2>2, RecordIncomingQueryType
  <2>4. Inert(as[to], query)
    BY <2>2 DEF Inert, SameIds, SameRoutes, SameDone, RecordIncomingQuery, States
  <2>5. as[to].ids \cup talk[d].what \subseteq Devices
    BY <2>2 DEF States
  <2>6. /\ t \in States /\ t.ids = as[to].ids \cup talk[d].what /\ t.known = as[to].known
        /\ t.edges = as[to].edges /\ t.verified = as[to].verified
        /\ t.knownByPeers = as[to].knownByPeers /\ t.addresses = as[to].addresses
        /\ t.completed = as[to].completed
    BY <2>2, <2>5 DEF States
  <2>7. v \in States
    BY <2>6, VerifyRoutesType
  <2> HIDE DEF t
  <2>8. /\ v.ids = t.ids /\ v.known = t.known /\ v.edges = t.edges
        /\ v.verified = t.verified \cup Identified(t, t.edges)
        /\ v.knownByPeers = t.knownByPeers /\ v.addresses = t.addresses
        /\ v.completed = t.completed
    BY <2>6 DEF VerifyRoutes, States
  <2>9. \/ Updates(to, query) /\ Commits(to, query)
        \/ Finish(to, v, d, answer)
    BY <1>3 DEF DevicesDelivered, CommitDeviceQueries, CommitDevices, t
  <2>10. \A e, s : \A x \in Devices : TalkMoves(e, s, x)
    <3>1. talk' = [talk EXCEPT ![d].answer = answer]
      BY <1>3 DEF DevicesDelivered
    <3>2. talk'[d].mode = talk[d].mode /\ talk'[d].to = talk[d].to /\ talk'[d].what = talk[d].what
      BY <3>1 DEF TalkOK, TalkRounds
    <3>3. \A x \in Devices : x # d => talk'[x] = talk[x]
      BY <3>1 DEF TalkOK
    <3>4. QED
      BY <2>1, <3>2, <3>3 DEF TalkMoves
  <2> HIDE DEF query, v, to
  <2>11. CASE Updates(to, query) /\ Commits(to, query)
    <3>1. Step(to, query)
      BY <2>1, <2>3, <2>4, <2>10, <2>11, InertStep
    <3>2. QED
      BY <2>1, <2>3, <3>1 DEF AnyStep
  <2>12. CASE Finish(to, v, d, answer)
    <3>1. PICK s \in States :
            /\ Updates(to, s) /\ (Commits(to, s) \/ (UNCHANGED session /\ Overflows(to, s)))
            /\ SameIds(v, s) /\ SameRoutes(v, s)
            /\ s.addresses = v.addresses /\ s.knownByPeers = v.knownByPeers
            /\ Done(to, v, s)
      BY <2>1, <2>7, <2>12, FinishStep
    <3>2. /\ s.ids = t.ids /\ s.known = as[to].known /\ s.edges = as[to].edges
          /\ s.verified = as[to].verified \cup Identified(t, t.edges)
          /\ s.knownByPeers = as[to].knownByPeers /\ s.addresses = as[to].addresses
          /\ Done(to, as[to], s)
      BY <2>6, <2>8, <3>1 DEF SameIds, SameRoutes, Done
    <3>3. Identified(t, t.edges) = Identified(s, s.edges)
      BY <2>6, <3>2 DEF Identified
    <3>4. Identifies(to, s)
      BY <2>6, <3>2, <3>3 DEF Identifies
    <3>5. Step(to, s)
      BY <2>10, <3>1, <3>4 DEF Step, Shape, SavesIds
    <3>6. QED
      BY <2>1, <3>5 DEF AnyStep
  <2>13. QED
    BY <2>9, <2>11, <2>12
<1>4. CASE QueriesAnswered(d)
  <2> DEFINE s == IF talk[d].answer = "ok" THEN [as[d] EXCEPT !.inflight = @ \cup talk[d].what]
                  ELSE [as[d] EXCEPT !.pendingQueries = TRUE]
  <2>1. as[d].inflight \cup talk[d].what \subseteq Devices
    BY DEF States
  <2>2. s \in States /\ Inert(as[d], s)
    BY <2>1 DEF States, Inert, SameIds, SameRoutes, SameDone
  <2>3. TalkOn(d, s, "query", talk[d].todo)
    BY <1>4 DEF QueriesAnswered
  <2> HIDE DEF s
  <2>4. QED
    BY <1>1, <2>2, <2>3
<1>5. CASE ResponsesAnswered(d)
  <2> DEFINE s == IF talk[d].answer = "ok"
                  THEN [as[d] EXCEPT !.queries[talk[d].to] = @ \ talk[d].what]
                  ELSE [as[d] EXCEPT !.pendingResponses = TRUE]
  <2>1. [as[d].queries EXCEPT ![talk[d].to] = @ \ talk[d].what] \in [Devices -> SUBSET Devices]
    BY DEF States
  <2>2. s \in States /\ Inert(as[d], s)
    BY <2>1 DEF States, Inert, SameIds, SameRoutes, SameDone
  <2>3. TalkOn(d, s, "respond", talk[d].todo)
    BY <1>5 DEF ResponsesAnswered
  <2> HIDE DEF s
  <2>4. QED
    BY <1>1, <2>2, <2>3
<1>6. QED
  BY <1>2, <1>3, <1>4, <1>5 DEF TalkStep

LEMMA OtherShape ==
  ASSUME TypeInv, NEW d \in Devices,
         (\E x \in Devices : QueryTimesOut(d, x)) \/ RunReturns(d) \/ Restart(d)
  PROVE  AnyStep
<1> StatesOK /\ AuthOK /\ GossipOK /\ TalkOK /\ BoundsOK
  BY TypeInvParts
<1> as[d] \in States /\ session[d] \in Sessions
  BY DEF StatesOK
<1>1. ASSUME NEW x \in Devices, QueryTimesOut(d, x) PROVE AnyStep
  <2> DEFINE s == [as[d] EXCEPT !.inflight = @ \ {x}]
  <2>1. as[d].inflight \ {x} \subseteq Devices
    BY DEF States
  <2>2. s \in States /\ Inert(as[d], s)
    BY <2>1 DEF States, Inert, SameIds, SameRoutes, SameDone
  <2>3. Updates(d, s) /\ UNCHANGED session /\ restarts' = restarts
        /\ UNCHANGED auth /\ UNCHANGED gossip /\ UNCHANGED talk
    BY <1>1 DEF QueryTimesOut, Updates, StatesOK
  <2> HIDE DEF s
  <2>4. Step(d, s)
    BY <2>2, <2>3, RoundsSame, InertStep
  <2>5. QED
    BY <2>2, <2>4 DEF AnyStep
<1>2. ASSUME Cancelled(d)
      PROVE  \A e, s : \A x \in Devices : GossipMoves(e, s, x) /\ TalkMoves(e, s, x) /\ AuthMoves(x)
  <2>1. \A x \in Devices : /\ auth'[x] = auth[x] \/ auth'[x] = NoAuth
                           /\ gossip'[x] = gossip[x] \/ gossip'[x] = NoGossip
                           /\ talk'[x] = talk[x] \/ talk'[x] = NoTalk
    BY <1>2 DEF Cancelled, AuthOK, GossipOK, TalkOK
  <2>2. QED
    BY <2>1 DEF GossipMoves, TalkMoves, AuthMoves
<1>3. CASE RunReturns(d)
  <2>1. Updates(d, as[d]) /\ (Commits(d, as[d]) \/ UNCHANGED session) /\ restarts' = restarts
    BY <1>3 DEF RunReturns, Updates, StatesOK, boundVars
  <2>2. Cancelled(d)
    BY <1>3 DEF RunReturns
  <2>3. Step(d, as[d])
    BY <1>2, <2>1, <2>2, InertStep DEF Inert, SameIds, SameRoutes, SameDone
  <2>4. QED
    BY <2>3 DEF AnyStep
<1>4. CASE Restart(d)
  <2> DEFINE s == NewAssembleState(d, session[d])
  <2>1. s \in States
    BY NewAssembleStateType
  <2>2. Updates(d, s) /\ UNCHANGED session /\ Cancelled(d)
    BY <1>4 DEF Restart, Updates
  <2>3. restarts' # restarts
    BY <1>4, AssembleAssumption DEF Restart, BoundsOK
  <2>4. Resumes(d, s)
    BY <2>2, <2>3 DEF Resumes
  <2> HIDE DEF s
  <2>5. Step(d, s)
    BY <1>2, <2>2, <2>4 DEF Step, Shape, SavesIds
  <2>6. QED
    BY <2>1, <2>5 DEF AnyStep
<1>5. QED
  BY <1>1, <1>3, <1>4

\* Every step is one of these.
LEMMA NextShape == TypeInv /\ [Next]_vars => AnyStep \/ UNCHANGED vars
<1> SUFFICES ASSUME TypeInv, Next PROVE AnyStep
  OBVIOUS
<1>1. PICK d \in Devices : \/ AuthStep(d) \/ GossipStep(d) \/ TalkStep(d)
                           \/ \E x \in Devices : QueryTimesOut(d, x)
                           \/ RunReturns(d) \/ Restart(d)
  BY DEF Next
<1>2. QED
  BY <1>1, AuthShape, GossipShape, TalkShape, OtherShape
-----------------------------------------------------------------------------
(* Identities.                                                             *)

LEMMA StepUpdates ==
  ASSUME StatesOK, NEW e \in Devices, NEW s \in States, Step(e, s)
  PROVE  /\ \A p \in Devices : as'[p] = IF p = e THEN s ELSE as[p]
         /\ as[e] \in States
         /\ \A p \in Devices : session'[p] = session[p] \/ (p = e /\ session'[p] = Export(s))
  BY DEF StatesOK, Step, Updates, Commits

\* What a device resumes with.
LEMMA ResumesFields ==
  ASSUME StatesOK, NEW e \in Devices, NEW s, Resumes(e, s)
  PROVE  /\ s.ids = session[e].ids \cup {e} /\ s.known = session[e].known
         /\ s.addresses = session[e].addresses
         /\ s.verified = {r \in session[e].routes : r[1] \in s.ids /\ r[2] \in s.ids}
         /\ s.edges = session[e].routes \cup s.authoritative
         /\ s.completed = (Expected[e] # 0 /\ Complete(s, Expected[e]))
  BY DEF Resumes, NewAssembleState, ShutdownAtExpectedSize, Complete

LEMMA InitFields ==
  ASSUME Init, NEW d \in Devices
  PROVE  /\ as[d].ids = Start[d].ids \cup {d} /\ as[d].known = Start[d].known
         /\ as[d].addresses = Start[d].addresses /\ session[d] = Start[d]
         /\ as[d].verified = {r \in Start[d].routes : r[1] \in as[d].ids /\ r[2] \in as[d].ids}
         /\ as[d].edges = Start[d].routes \cup as[d].authoritative
         /\ as[d].knownByPeers = [p \in Devices |-> IF p = d THEN Start[d].routes ELSE {}]
         /\ as[d].completed = (Expected[d] # 0 /\ Complete(as[d], Expected[d]))
         /\ auth[d] = NoAuth /\ gossip[d] = NoGossip /\ talk[d] = NoTalk
  BY DEF Init, NewAssembleState, ShutdownAtExpectedSize, Complete

LEMMA InitIdentity == Init => Identity
  BY InitFields DEF Identity, Ends

LEMMA IdentityStep ==
  ASSUME StatesOK, Identity, NEW e \in Devices, NEW s \in States, Step(e, s)
  PROVE  Identity'
<1>1. e \in as[e].ids /\ Ends(as[e].verified, as[e].ids)
  BY DEF Identity
<1>2. e \in s.ids /\ Ends(s.verified, s.ids)
  <2>1. CASE Inert(as[e], s) \/ Acks(e, s)
    BY <1>1, <2>1 DEF Inert, Acks, SameIds, SameRoutes
  <2>2. CASE Meets(e, s)
    BY <1>1, <2>2 DEF Meets, SameIds
  <2>3. ASSUME NEW d \in Devices, Learns(e, d, s) PROVE e \in s.ids /\ Ends(s.verified, s.ids)
    BY <1>1, <2>3 DEF Learns, Identified, Ends
  <2>4. CASE Identifies(e, s)
    BY <1>1, <2>4 DEF Identifies, Identified, Ends
  <2>5. CASE Resumes(e, s)
    BY <2>5, ResumesFields DEF Ends
  <2>6. QED
    BY <2>1, <2>2, <2>3, <2>4, <2>5 DEF Step, Shape
<1>3. QED
  BY <1>2, StepUpdates DEF Identity

\* A device forgets no identity when it restarts, if its session has them all.
LEMMA IdsGrow ==
  ASSUME StatesOK, NEW e \in Devices, NEW s \in States, Step(e, s), Saved \/ restarts' = restarts
  PROVE  \A p \in Devices : as[p].ids \subseteq as'[p].ids
<1>1. as[e].ids \subseteq s.ids
  <2>1. CASE Inert(as[e], s) \/ Acks(e, s) \/ Meets(e, s) \/ Identifies(e, s)
    BY <2>1 DEF Inert, Acks, Meets, Identifies, SameIds
  <2>2. ASSUME NEW d \in Devices, Learns(e, d, s) PROVE as[e].ids \subseteq s.ids
    BY <2>2 DEF Learns
  <2>3. CASE Resumes(e, s)
    <3>1. Saved
      BY <2>3 DEF Resumes
    <3>2. QED
      BY <2>3, <3>1, ResumesFields DEF Saved
  <2>4. QED
    BY <2>1, <2>2, <2>3 DEF Step, Shape
<1>2. QED
  BY <1>1, StepUpdates

LEMMA InitSaved == Init => Saved
  BY InitFields DEF Saved

LEMMA SavedStep ==
  ASSUME StatesOK, Saved, Identity', NoOverflow', NEW e \in Devices, NEW s \in States, Step(e, s)
  PROVE  Saved'
<1>1. as'[e] = s
  BY StepUpdates
<1>2. e \in s.ids /\ ~Overflows(e, s)
  BY <1>1 DEF Identity, NoOverflow
<1>3. s.ids = session'[e].ids \cup {e}
  <2>1. CASE Commits(e, s)
    BY <1>2, <2>1 DEF Commits, Export, StatesOK
  <2>2. CASE UNCHANGED session /\ s.ids = as[e].ids
    BY <2>2 DEF Saved
  <2>3. CASE Resumes(e, s)
    BY <2>3, ResumesFields DEF Resumes
  <2>4. QED
    BY <1>2, <2>1, <2>2, <2>3 DEF Step, SavesIds
<1>4. \A p \in Devices : p # e => as'[p] = as[p] /\ session'[p] = session[p]
  BY StepUpdates
<1>5. QED
  BY <1>1, <1>3, <1>4 DEF Saved

\* What is published joins identified devices, or leads to the one it is sent to.
LEMMA PublishedTurn ==
  ASSUME NEW d \in Devices, NEW s \in States, d \in s.ids, Ends(s.verified, s.ids),
         DirectRoutes(d, s), NEW todo \in SUBSET Devices, NEW g \in GossipTurns(d, s, todo)
  PROVE  Ends(g.routes, s.ids \cup {g.to})
<1>1. CASE g = NoGossip
  BY <1>1 DEF NoGossip, Ends
<1>2. CASE g # NoGossip
  <2>1. PICK p \in todo, passed \in SUBSET todo : \E R \in Selections(s, p) :
            g = [todo |-> todo \ (passed \cup {p}), to |-> p, routes |-> R, answer |-> "sent"]
    BY <1>2 DEF GossipTurns
  <2>2. PICK R \in Selections(s, p) :
            g = [todo |-> todo \ (passed \cup {p}), to |-> p, routes |-> R, answer |-> "sent"]
    BY <2>1
  <2>3. R \subseteq s.verified \cup {r \in s.authoritative : r[2] = p}
    BY <2>2 DEF Selections
  <2>4. \A r \in s.authoritative : r[1] = d
    BY DEF DirectRoutes
  <2>5. g.routes = R /\ g.to = p
    BY <2>2
  <2>6. QED
    BY <2>3, <2>4, <2>5 DEF Ends
<1>3. QED
  BY <1>1, <1>2

\* What is asked for is not known yet, and known to the peer.
LEMMA QueryTurn ==
  ASSUME NEW s \in States, NEW mode \in {"query", "respond"}, NEW todo \in SUBSET Devices,
         NEW g \in TalkTurns(s, mode, todo), g.mode = "query", g.answer # "none"
  PROVE  g.to \in Devices /\ g.what \subseteq s.known[g.to] \ s.ids
<1>1. g # NoTalk
  BY DEF NoTalk
<1>2. PICK p \in todo, passed \in SUBSET todo :
          g = [mode |-> mode, todo |-> todo \ (passed \cup {p}), to |-> p,
               what |-> Outgoing(s, mode, p), answer |-> "sent"]
  BY <1>1 DEF TalkTurns
<1>3. mode = "query"
  BY <1>2
<1>4. Outgoing(s, "query", p) \subseteq s.known[p] \ s.ids
  BY DEF Outgoing, OutgoingQueriesTo
<1>5. g.to = p /\ g.what = Outgoing(s, "query", p)
  BY <1>2, <1>3
<1>6. QED
  BY <1>4, <1>5

LEMMA EndsIn == ASSUME NEW R, NEW D, Ends(R, D) PROVE DevicesIn(R) \subseteq D
<1> SUFFICES ASSUME NEW x \in DevicesIn(R) PROVE x \in D
  OBVIOUS
<1>1. PICK r \in R : x \in {r[1], r[2]}
  BY DEF DevicesIn
<1>2. QED
  BY <1>1 DEF Ends

LEMMA HeardStep ==
  ASSUME TypeInv, TypeInv', HeardInv, Identity', TrustInv', NEW e \in Devices, NEW s \in States,
         Step(e, s), \A p \in Devices : as[p].ids \subseteq as'[p].ids
  PROVE  HeardInv'
<1> StatesOK /\ StatesOK' /\ GossipOK /\ GossipOK' /\ TalkOK /\ TalkOK'
  BY TypeInvParts, TypeInvPartsNext
<1>1. as[e] \in States /\ as'[e] = s /\ \A p \in Devices : p # e => as'[p] = as[p]
  BY StepUpdates
<1>2. Heard /\ Published /\ QueriesAnswerable
  BY DEF HeardInv
<1>3. \A p \in Devices : s.known[p] \subseteq as'[p].ids \cup {e}
  <2>1. \A p \in Devices : as[e].known[p] \subseteq as'[p].ids \cup {e}
    BY <1>2 DEF Heard
  <2>2. CASE Inert(as[e], s) \/ Acks(e, s) \/ Meets(e, s) \/ Identifies(e, s)
    BY <2>1, <2>2 DEF Inert, Acks, Meets, Identifies, SameIds
  <2>3. ASSUME NEW d \in Devices, Learns(e, d, s)
        PROVE  \A p \in Devices : s.known[p] \subseteq as'[p].ids \cup {e}
    <3>1. s.known = [as[e].known EXCEPT ![d] = @ \cup DevicesIn(gossip[d].routes)]
      BY <2>3 DEF Learns
    <3>2. Ends(gossip[d].routes, as[d].ids \cup {e})
      BY <1>2, <2>3 DEF Published, Learns
    <3>3. DevicesIn(gossip[d].routes) \subseteq as[d].ids \cup {e}
      BY <3>2, EndsIn
    <3>4. as[e].known \in [Devices -> SUBSET Devices]
      BY <1>1 DEF States
    <3>5. \A p \in Devices : s.known[p] = IF p = d THEN as[e].known[d] \cup DevicesIn(gossip[d].routes)
                                          ELSE as[e].known[p]
      BY <3>1, <3>4
    <3>6. QED
      BY <2>1, <3>3, <3>5
  <2>4. CASE Resumes(e, s)
    <3>1. s.known = session[e].known
      BY <2>4, ResumesFields
    <3>2. QED
      BY <1>2, <3>1 DEF Heard
  <2>5. QED
    BY <2>2, <2>3, <2>4 DEF Step, Shape
<1>4. Heard'
  <2> SUFFICES ASSUME NEW d \in Devices, NEW p \in Devices
               PROVE  /\ as'[d].known[p] \subseteq as'[p].ids \cup {d}
                      /\ session'[d].known[p] \subseteq as'[p].ids \cup {d}
    BY DEF Heard
  <2>1. /\ as[d].known[p] \subseteq as'[p].ids \cup {d}
        /\ session[d].known[p] \subseteq as'[p].ids \cup {d}
    BY <1>2 DEF Heard
  <2>2. as'[d].known[p] \subseteq as'[p].ids \cup {d}
    BY <1>1, <1>3, <2>1
  <2>3. session'[d] = session[d] \/ (d = e /\ session'[d] = Export(s))
    BY StepUpdates
  <2>4. session'[d].known[p] \subseteq as'[p].ids \cup {d}
    BY <1>3, <2>1, <2>3 DEF Export
  <2>5. QED
    BY <2>2, <2>4
<1>5. e \in s.ids /\ Ends(s.verified, s.ids) /\ DirectRoutes(e, s)
  <2>1. e \in as'[e].ids /\ Ends(as'[e].verified, as'[e].ids)
    BY DEF Identity
  <2>2. DirectRoutes(e, as'[e])
    BY DEF TrustInv, StatesSound, Sound
  <2>3. QED
    BY <1>1, <2>1, <2>2
<1>6. Published'
  <2> SUFFICES ASSUME NEW d \in Devices PROVE Ends(gossip'[d].routes, as'[d].ids \cup {gossip'[d].to})
    BY DEF Published
  <2>1. Ends(gossip[d].routes, as'[d].ids \cup {gossip[d].to})
    BY <1>2 DEF Published, Ends
  <2>2. CASE gossip'[d] = gossip[d] \/ SameRequest(gossip[d], gossip'[d])
    BY <2>1, <2>2 DEF SameRequest
  <2>3. CASE gossip'[d] = NoGossip
    BY <2>3, NoRounds DEF Ends
  <2>4. ASSUME d = e, NEW todo \in SUBSET Devices, gossip'[d] \in GossipTurns(d, s, todo)
        PROVE  Ends(gossip'[d].routes, as'[d].ids \cup {gossip'[d].to})
    BY <1>1, <1>5, <2>4, PublishedTurn
  <2>5. QED
    BY <2>2, <2>3, <2>4 DEF Step, GossipMoves
<1>7. QueriesAnswerable'
  <2> SUFFICES ASSUME NEW d \in Devices, talk'[d].mode = "query", talk'[d].answer # "none"
               PROVE  talk'[d].what \subseteq as'[talk'[d].to].ids
    BY DEF QueriesAnswerable
  <2>1. ASSUME talk[d].mode = "query", talk[d].answer # "none"
        PROVE  talk[d].what \subseteq as'[talk[d].to].ids
    <3>1. talk[d].to \in Devices
      BY <2>1 DEF TalkOK, RequestTo
    <3>2. QED
      BY <1>2, <2>1, <3>1 DEF QueriesAnswerable
  <2>2. CASE talk'[d] = talk[d]
    BY <2>1, <2>2
  <2>3. talk'[d] # NoTalk
    BY DEF NoTalk
  <2>4. CASE /\ talk[d].answer = "sent" /\ talk'[d].mode = talk[d].mode
             /\ talk'[d].to = talk[d].to /\ talk'[d].what = talk[d].what
    BY <2>1, <2>4
  <2>5. ASSUME d = e, NEW mode \in {"query", "respond"}, NEW todo \in SUBSET Devices,
               talk'[d] \in TalkTurns(s, mode, todo)
        PROVE  talk'[d].what \subseteq as'[talk'[d].to].ids
    <3>1. talk'[d].to \in Devices /\ talk'[d].what \subseteq s.known[talk'[d].to] \ s.ids
      BY <2>5, QueryTurn
    <3>2. QED
      BY <1>3, <1>5, <3>1
  <2>6. QED
    BY <2>2, <2>3, <2>4, <2>5 DEF Step, TalkMoves
<1>8. QED
  BY <1>4, <1>6, <1>7 DEF HeardInv

LEMMA InitHeard == Init => HeardInv
<1> SUFFICES ASSUME Init PROVE HeardInv
  OBVIOUS
<1>1. Heard
  <2> SUFFICES ASSUME NEW d \in Devices, NEW p \in Devices
               PROVE  /\ as[d].known[p] \subseteq as[p].ids \cup {d}
                      /\ session[d].known[p] \subseteq as[p].ids \cup {d}
    BY DEF Heard
  <2>1. Start[d].known[p] \subseteq Start[p].ids \cup {p, d}
    BY LearnedAssumption
  <2>2. as[d].known = Start[d].known /\ session[d] = Start[d] /\ as[p].ids = Start[p].ids \cup {p}
    BY InitFields
  <2>3. QED
    BY <2>1, <2>2
<1>2. Published
  BY InitFields, NoRounds DEF Published, Ends
<1>3. QueriesAnswerable
  <2>1. \A d \in Devices : talk[d] = NoTalk
    BY InitFields
  <2>2. NoTalk.mode # "query"
    BY DEF NoTalk
  <2>3. QED
    BY <2>1, <2>2 DEF QueriesAnswerable
<1>4. QED
  BY <1>1, <1>2, <1>3 DEF HeardInv

LEMMA StutterInvs ==
  UNCHANGED vars => /\ Identity => Identity'
                    /\ Saved => Saved'
                    /\ HeardInv => HeardInv'
                    /\ KnownInv => KnownInv'
                    /\ LeadsInv => LeadsInv'
                    /\ DoneInv => DoneInv'
  BY DEF vars, Identity, Saved, HeardInv, Heard, Published, QueriesAnswerable, KnownInv,
         PeersKnowRoutes, Delivered, LeadsInv, DoneInv

\* All of this holds with any restart.
GoodInv == TypeInv /\ TrustInv /\ Identity

LEMMA GoodInvariant == Spec => []GoodInv
<1>1. TypeInv /\ Identity /\ [Next]_vars => Identity'
  BY NextShape, TypeInvParts, IdentityStep, StutterInvs DEF AnyStep
<1>2. QED
  BY <1>1, TrustInvariant, InitIdentity, PTL DEF Spec, GoodInv

LEMMA HeardNext ==
  GoodInv /\ GoodInv' /\ HeardInv /\ [Next]_vars /\ (Saved \/ restarts' = restarts) => HeardInv'
<1> SUFFICES ASSUME GoodInv, GoodInv', HeardInv, [Next]_vars, Saved \/ restarts' = restarts
             PROVE  HeardInv'
  OBVIOUS
<1>1. TypeInv /\ TypeInv' /\ TrustInv' /\ Identity'
  BY DEF GoodInv
<1>2. StatesOK
  BY <1>1, TypeInvParts
<1>3. CASE UNCHANGED vars
  BY <1>3, StutterInvs
<1>4. ASSUME NEW e \in Devices, NEW s \in States, Step(e, s) PROVE HeardInv'
  <2>1. \A p \in Devices : as[p].ids \subseteq as'[p].ids
    BY <1>2, <1>4, IdsGrow
  <2>2. QED
    BY <1>1, <1>4, <2>1, HeardStep
<1>5. QED
  BY <1>1, <1>3, <1>4, NextShape DEF AnyStep

\* In a cluster whose devices are not restarted, a device is only ever asked for
\* identities that it has, whatever requests and answers are lost or cross one
\* another (CommitDeviceQueries; RecordDevicesKnownBy, OutgoingQueriesTo).
THEOREM QueriesAreAnswerable == Spec /\ [](restarts = 0) => []QueriesAnswerable
<1>1. restarts = 0 /\ (restarts = 0)' => restarts' = restarts
  OBVIOUS
<1>2. HeardInv => QueriesAnswerable
  BY DEF HeardInv
<1>3. QED
  BY <1>1, <1>2, GoodInvariant, InitHeard, HeardNext, PTL DEF Spec

\* With restarts this is so as long as no device counts more routes than it
\* expects: identities that arrive in that moment are used and not committed
\* (CommitDevices returns the error first), so that a restart forgets what peers
\* have been told.
THEOREM QueriesSurviveRestarts == Spec /\ []NoOverflow => []QueriesAnswerable
<1>1. GoodInv /\ GoodInv' /\ Saved /\ NoOverflow' /\ [Next]_vars => Saved'
  <2> SUFFICES ASSUME TypeInv, Identity', Saved, NoOverflow', [Next]_vars PROVE Saved'
    BY DEF GoodInv
  <2>1. StatesOK
    BY TypeInvParts
  <2>2. CASE UNCHANGED vars
    BY <2>2, StutterInvs
  <2>3. ASSUME NEW e \in Devices, NEW s \in States, Step(e, s) PROVE Saved'
    BY <2>1, <2>3, SavedStep
  <2>4. QED
    BY <2>2, <2>3, NextShape DEF AnyStep
<1>2. HeardInv => QueriesAnswerable
  BY DEF HeardInv
<1>3. QED
  BY <1>1, <1>2, GoodInvariant, InitSaved, InitHeard, HeardNext, PTL DEF Spec

-----------------------------------------------------------------------------
(* Routes that are held back.                                              *)

LEMMA InitKnown == Init => KnownInv
<1> SUFFICES ASSUME Init PROVE KnownInv
  OBVIOUS
<1>1. PeersKnowRoutes
  <2> SUFFICES ASSUME NEW d \in Devices, NEW p \in Devices
               PROVE  as[d].knownByPeers[p] \subseteq as[p].edges
    BY DEF PeersKnowRoutes
  <2>1. as[d].knownByPeers[p] = IF p = d THEN Start[d].routes ELSE {}
    BY InitFields
  <2>2. Start[d].routes \subseteq as[d].edges
    BY InitFields
  <2>3. QED
    BY <2>1, <2>2
<1>2. Delivered
  <2>1. \A d \in Devices : gossip[d].routes = {}
    BY InitFields, NoRounds
  <2>2. QED
    BY <2>1 DEF Delivered
<1>3. QED
  BY <1>1, <1>2 DEF KnownInv

LEMMA KnownStep ==
  ASSUME TypeInv, TypeInv', TrustInv', KnownInv, NEW e \in Devices, NEW s \in States, Step(e, s),
         restarts' = restarts
  PROVE  KnownInv'
<1> StatesOK /\ GossipOK /\ GossipOK'
  BY TypeInvParts, TypeInvPartsNext
<1>1. as[e] \in States /\ as'[e] = s /\ \A p \in Devices : p # e => as'[p] = as[p]
  BY StepUpdates
<1>2. PeersKnowRoutes /\ Delivered /\ ~Resumes(e, s)
  BY DEF KnownInv, Resumes
<1>3. as[e].edges \subseteq s.edges
  BY <1>2 DEF Step, Shape, Inert, Acks, Meets, Learns, Identifies, SameRoutes
<1>4. \A p \in Devices : as[p].edges \subseteq as'[p].edges
  BY <1>1, <1>3
<1>5. \A p \in Devices : s.knownByPeers[p] \subseteq as'[p].edges
  <2>1. \A p \in Devices : as[e].knownByPeers[p] \subseteq as'[p].edges
    BY <1>2, <1>4 DEF PeersKnowRoutes
  <2>2. as[e].knownByPeers \in [Devices -> SUBSET Routes]
    BY <1>1 DEF States
  <2>3. CASE Inert(as[e], s) \/ Meets(e, s) \/ Identifies(e, s)
    BY <2>1, <2>3 DEF Inert, Meets, Identifies
  <2>4. ASSUME NEW d \in Devices, Learns(e, d, s)
        PROVE  \A p \in Devices : s.knownByPeers[p] \subseteq as'[p].edges
    <3>1. s.knownByPeers = [as[e].knownByPeers EXCEPT ![d] = @ \cup gossip[d].routes]
      BY <2>4 DEF Learns
    <3>2. gossip[d].routes \subseteq as'[d].edges
      BY <1>2, <1>4 DEF Delivered
    <3>3. QED
      BY <2>1, <2>2, <3>1, <3>2
  <2>5. CASE Acks(e, s)
    <3>1. s.knownByPeers = [as[e].knownByPeers EXCEPT ![gossip[e].to] = @ \cup gossip[e].routes]
      BY <2>5 DEF Acks
    <3>2. gossip[e].to \in Devices
      BY <2>5 DEF Acks, GossipOK, RequestTo
    <3>3. gossip[e].routes \subseteq as'[gossip[e].to].edges
      BY <1>2, <1>4, <2>5, <3>2 DEF Delivered, Acks
    <3>4. QED
      BY <2>1, <2>2, <3>1, <3>2, <3>3
  <2>6. QED
    BY <1>2, <2>3, <2>4, <2>5 DEF Step, Shape
<1>6. PeersKnowRoutes'
  BY <1>1, <1>2, <1>4, <1>5 DEF PeersKnowRoutes
<1>7. Delivered'
  <2> SUFFICES ASSUME NEW d \in Devices
               PROVE  /\ gossip'[d].routes \subseteq as'[d].edges
                      /\ gossip'[d].answer = "ok" => gossip'[d].routes \subseteq as'[gossip'[d].to].edges
    BY DEF Delivered
  <2>1. gossip[d].routes \subseteq as'[d].edges
    BY <1>2, <1>4 DEF Delivered
  <2>2. gossip[d].answer = "ok" => gossip[d].routes \subseteq as'[gossip[d].to].edges
    <3> HAVE gossip[d].answer = "ok"
    <3>1. gossip[d].to \in Devices
      BY DEF GossipOK, RequestTo
    <3>2. QED
      BY <1>2, <1>4, <3>1 DEF Delivered
  <2>3. CASE gossip'[d] = gossip[d]
    BY <2>1, <2>2, <2>3
  <2>4. CASE gossip'[d] = NoGossip
    BY <2>4 DEF NoGossip
  <2>5. CASE SameRequest(gossip[d], gossip'[d]) /\ gossip[d].to = e /\ gossip[d].routes \subseteq s.edges
    BY <1>1, <2>1, <2>5 DEF SameRequest
  <2>6. ASSUME d = e, NEW todo \in SUBSET Devices, gossip'[d] \in GossipTurns(d, s, todo)
        PROVE  /\ gossip'[d].routes \subseteq as'[d].edges
               /\ gossip'[d].answer # "ok"
    <3>1. gossip'[d].routes \subseteq s.verified \cup s.authoritative
      BY <2>6, GossipTurnsType
    <3>2. as'[e].verified \subseteq as'[e].edges /\ as'[e].authoritative \subseteq as'[e].edges
      BY DEF TrustInv, StatesSound, Sound
    <3>3. gossip'[d].answer \in {"none", "sent"}
      BY <2>6 DEF GossipTurns, NoGossip
    <3>4. QED
      BY <1>1, <2>6, <3>1, <3>2, <3>3
  <2>7. QED
    BY <2>3, <2>4, <2>5, <2>6 DEF Step, GossipMoves
<1>8. QED
  BY <1>6, <1>7 DEF KnownInv

\* Without restarts, the routes that a device never sends to a peer again, because
\* it believes that the peer has them, the peer has: they came from it, or were
\* acknowledged by it (knownByPeers: RecordRoutes, and ack of Select).  A restart
\* ends this: routes that are not verified are not in the session.
THEOREM HeldBackRoutesAreKnown == Spec /\ [](restarts = 0) => []PeersKnowRoutes
<1>1. GoodInv /\ GoodInv' /\ KnownInv /\ [Next]_vars /\ restarts' = restarts => KnownInv'
  <2> SUFFICES ASSUME TypeInv, TypeInv', TrustInv', KnownInv, [Next]_vars, restarts' = restarts
               PROVE  KnownInv'
    BY DEF GoodInv
  <2>1. CASE UNCHANGED vars
    BY <2>1, StutterInvs
  <2>2. ASSUME NEW e \in Devices, NEW s \in States, Step(e, s) PROVE KnownInv'
    BY <2>2, KnownStep
  <2>3. QED
    BY <2>1, <2>2, NextShape DEF AnyStep
<1>2. restarts = 0 /\ (restarts = 0)' => restarts' = restarts
  OBVIOUS
<1>3. KnownInv => PeersKnowRoutes
  BY DEF KnownInv
<1>4. QED
  BY <1>1, <1>2, <1>3, GoodInvariant, InitKnown, PTL DEF Spec

-----------------------------------------------------------------------------
(* Where routes lead, and how many there can be.                           *)

LEMMA InitLeads ==
  ASSUME Init, TrustInv PROVE LeadsInv
<1> SUFFICES ASSUME NEW d \in Devices
             PROVE  /\ LeadsAll(as[d].edges) /\ LeadsAll(session[d].routes)
                    /\ LeadsAll(gossip[d].routes)
                    /\ LeadsTo(d, as[d].addresses) /\ LeadsTo(d, session[d].addresses)
                    /\ Listen[d] \notin auth[d].todo /\ auth[d].at # Listen[d]
  BY DEF LeadsInv
<1>1. LeadsAll(Start[d].routes) /\ LeadsTo(d, Start[d].addresses)
  BY LearnedAssumption DEF LeadsAll, LeadsTo
<1>2. /\ as[d].addresses = Start[d].addresses /\ session[d] = Start[d]
      /\ as[d].edges = Start[d].routes \cup as[d].authoritative
      /\ auth[d] = NoAuth /\ gossip[d] = NoGossip
  BY InitFields
<1>3. as[d].authoritative = {<<d, p, as[d].addresses[p]>> : p \in Available(as[d])}
  BY DEF TrustInv, StatesSound, Sound, DirectRoutes
<1>4. as[d].trusted \subseteq Devices
  BY InitType, TypeInvParts DEF StatesOK, States
<1>5. LeadsAll(as[d].authoritative)
  BY <1>1, <1>2, <1>3, <1>4 DEF LeadsAll, LeadsTo, Available
<1>6. LeadsAll(as[d].edges) /\ LeadsAll(gossip[d].routes)
  BY <1>1, <1>2, <1>5, NoRounds DEF LeadsAll
<1>7. Listen[d] \notin auth[d].todo /\ auth[d].at # Listen[d]
  BY <1>2, AssembleAssumption DEF NoAuth
<1>8. QED
  BY <1>1, <1>2, <1>6, <1>7

LEMMA LeadsStep ==
  ASSUME TypeInv, TypeInv', TrustInv', LeadsInv, NEW e \in Devices, NEW s \in States, Step(e, s)
  PROVE  LeadsInv'
<1> StatesOK /\ AuthOK /\ GossipOK
  BY TypeInvParts
<1>1. as[e] \in States /\ as'[e] = s /\ \A p \in Devices : p # e => as'[p] = as[p]
  BY StepUpdates
<1>2. /\ LeadsAll(as[e].edges) /\ LeadsAll(session[e].routes)
      /\ LeadsTo(e, as[e].addresses) /\ LeadsTo(e, session[e].addresses)
      /\ auth[e].at # Listen[e]
      /\ \A d \in Devices : LeadsAll(gossip[d].routes)
  BY DEF LeadsInv
<1>3. s.verified \subseteq s.edges /\ s.authoritative \subseteq s.edges
      /\ s.authoritative = {<<e, p, s.addresses[p]>> : p \in Available(s)}
  <2>1. Sound(e, as'[e], Trust')
    BY DEF TrustInv, StatesSound
  <2>2. QED
    BY <1>1, <2>1 DEF Sound, DirectRoutes
<1>4. LeadsAll(s.edges) /\ LeadsTo(e, s.addresses)
  <2>1. CASE Inert(as[e], s) \/ Acks(e, s) \/ Identifies(e, s)
    BY <1>2, <2>1 DEF Inert, Acks, Identifies, SameRoutes
  <2>2. CASE Meets(e, s)
    <3>1. PICK p \in Devices, a \in Addresses :
            /\ as[e].addresses[p] = a \/ (auth[e].answer = "ok" /\ auth[e].at = a /\ Owner[a] = p)
            /\ s.addresses = [as[e].addresses EXCEPT ![p] = a]
            /\ s.edges = as[e].edges \cup {<<e, p, a>>} \/ s.edges = as[e].edges
      BY <2>2 DEF Meets
    <3>2. a # NoAddr
      BY AssembleAssumption
    <3>3. Leads(<<e, p, a>>)
      <4>1. CASE as[e].addresses[p] = a
        BY <1>2, <3>2, <4>1 DEF LeadsTo
      <4>2. CASE auth[e].at = a /\ Owner[a] = p
        BY <1>2, <4>2 DEF Leads
      <4>3. QED
        BY <3>1, <4>1, <4>2
    <3>4. LeadsAll(s.edges)
      BY <1>2, <3>1, <3>3 DEF LeadsAll
    <3>5. as[e].addresses \in [Devices -> Addresses \cup {NoAddr}]
      BY <1>1 DEF States
    <3>6. \A q \in Devices : s.addresses[q] = IF q = p THEN a ELSE as[e].addresses[q]
      BY <3>1, <3>5
    <3>7. LeadsTo(e, s.addresses)
      BY <1>2, <3>3, <3>6 DEF LeadsTo
    <3>8. QED
      BY <3>4, <3>7
  <2>3. ASSUME NEW d \in Devices, Learns(e, d, s) PROVE LeadsAll(s.edges) /\ LeadsTo(e, s.addresses)
    BY <1>2, <2>3 DEF Learns, LeadsAll
  <2>4. CASE Resumes(e, s)
    <3>1. s.addresses = session[e].addresses /\ s.edges = session[e].routes \cup s.authoritative
      BY <2>4, ResumesFields
    <3>2. s.trusted \subseteq Devices
      BY DEF States
    <3>3. LeadsAll(s.authoritative)
      BY <1>2, <1>3, <3>1, <3>2 DEF LeadsAll, LeadsTo, Available
    <3>4. QED
      BY <1>2, <3>1, <3>3 DEF LeadsAll
  <2>5. QED
    BY <2>1, <2>2, <2>3, <2>4 DEF Step, Shape
<1> SUFFICES ASSUME NEW d \in Devices
             PROVE  /\ LeadsAll(as'[d].edges) /\ LeadsAll(session'[d].routes)
                    /\ LeadsAll(gossip'[d].routes)
                    /\ LeadsTo(d, as'[d].addresses) /\ LeadsTo(d, session'[d].addresses)
                    /\ Listen[d] \notin auth'[d].todo /\ auth'[d].at # Listen[d]
  BY DEF LeadsInv
<1>5. /\ LeadsAll(as[d].edges) /\ LeadsAll(session[d].routes) /\ LeadsAll(gossip[d].routes)
      /\ LeadsTo(d, as[d].addresses) /\ LeadsTo(d, session[d].addresses)
      /\ Listen[d] \notin auth[d].todo /\ auth[d].at # Listen[d]
  BY DEF LeadsInv
<1>6. LeadsAll(as'[d].edges) /\ LeadsTo(d, as'[d].addresses)
  BY <1>1, <1>4, <1>5
<1>7. LeadsAll(session'[d].routes) /\ LeadsTo(d, session'[d].addresses)
  <2>1. session'[d] = session[d] \/ (d = e /\ session'[d] = Export(s))
    BY StepUpdates
  <2>2. Export(s).routes = s.verified /\ Export(s).addresses = s.addresses
    BY DEF Export
  <2>3. LeadsAll(s.verified)
    BY <1>3, <1>4 DEF LeadsAll
  <2>4. QED
    BY <1>4, <1>5, <2>1, <2>2, <2>3
<1>8. LeadsAll(gossip'[d].routes)
  <2>1. CASE gossip'[d] = gossip[d] \/ SameRequest(gossip[d], gossip'[d])
    BY <1>5, <2>1 DEF SameRequest
  <2>2. CASE gossip'[d] = NoGossip
    BY <2>2, NoRounds DEF LeadsAll
  <2>3. ASSUME d = e, NEW todo \in SUBSET Devices, gossip'[d] \in GossipTurns(d, s, todo)
        PROVE  LeadsAll(gossip'[d].routes)
    <3>1. gossip'[d].routes \subseteq s.verified \cup s.authoritative
      BY <2>3, GossipTurnsType
    <3>2. QED
      BY <1>3, <1>4, <3>1 DEF LeadsAll
  <2>4. QED
    BY <2>1, <2>2, <2>3 DEF Step, GossipMoves
<1>9. Listen[d] \notin auth'[d].todo /\ auth'[d].at # Listen[d]
  <2>1. CASE auth'[d] = auth[d] \/ (auth'[d].todo = auth[d].todo /\ auth'[d].at = auth[d].at)
    BY <1>5, <2>1
  <2>2. NoAuth.todo = {} /\ NoAuth.at = NoAddr /\ NoAddr # Listen[d]
    BY AssembleAssumption DEF NoAuth
  <2>3. CASE auth'[d] = NoAuth
    BY <2>2, <2>3
  <2>4. ASSUME NEW todo \in SUBSET Addresses, todo = auth[d].todo \/ Listen[d] \notin todo,
               auth'[d] \in AuthTurns(todo), auth'[d] # NoAuth
        PROVE  Listen[d] \notin auth'[d].todo /\ auth'[d].at # Listen[d]
    <3>1. Listen[d] \notin todo
      BY <1>5, <2>4
    <3>2. PICK a \in todo : auth'[d] = [todo |-> todo \ {a}, at |-> a, answer |-> "sent"]
      BY <2>4 DEF AuthTurns
    <3>3. QED
      BY <3>1, <3>2
  <2>5. QED
    BY <2>1, <2>3, <2>4 DEF Step, AuthMoves
<1>10. QED
  BY <1>6, <1>7, <1>8, <1>9

LEMMA LeadsInvariant == Spec => []LeadsInv
<1>1. Init => LeadsInv
  BY InitTrust, InitLeads
<1>2. GoodInv /\ GoodInv' /\ LeadsInv /\ [Next]_vars => LeadsInv'
  <2> SUFFICES ASSUME TypeInv, TypeInv', TrustInv', LeadsInv, [Next]_vars PROVE LeadsInv'
    BY DEF GoodInv
  <2>1. CASE UNCHANGED vars
    BY <2>1, StutterInvs
  <2>2. ASSUME NEW e \in Devices, NEW s \in States, Step(e, s) PROVE LeadsInv'
    BY <2>2, LeadsStep
  <2>3. QED
    BY <2>1, <2>2, NextShape DEF AnyStep
<1>3. QED
  BY <1>1, <1>2, GoodInvariant, PTL DEF Spec

Size == Cardinality(Devices)
Pairs(N) == {x \in N \X N : x[1] # x[2]}

LEMMA CountPairs ==
  ASSUME NEW N \in SUBSET Devices
  PROVE  LET n == Cardinality(N)
         IN  n \in Nat /\ n <= Size /\ IsFiniteSet(Pairs(N)) /\ Cardinality(Pairs(N)) = n * (n - 1)
<1> DEFINE square == N \X N
           diagonal == {x \in square : x[1] = x[2]}
           f == [d \in N |-> <<d, d>>]
           n == Cardinality(N)
<1>1. IsFiniteSet(N) /\ n \in Nat /\ n <= Size
  BY ClusterAssumption, FS_CardinalityType, FS_Subset DEF Size
<1>2. IsFiniteSet(square) /\ Cardinality(square) = n * n
  BY <1>1, FS_Product
<1>3. ExistsBijection(N, diagonal)
  <2>1. f \in [N -> diagonal]
    OBVIOUS
  <2>2. \A a, b \in N : f[a] = f[b] => a = b
    OBVIOUS
  <2>3. \A x \in diagonal : \E d \in N : f[d] = x
    OBVIOUS
  <2>4. f \in Bijection(N, diagonal)
    BY <2>1, <2>2, <2>3 DEF Bijection, Injection, Surjection, IsInjective
  <2>5. QED
    BY <2>4 DEF ExistsBijection
<1>4. Cardinality(diagonal) = n
  BY <1>1, <1>3, FS_Bijection
<1>5. Pairs(N) = square \ diagonal /\ square \cap diagonal = diagonal
  BY DEF Pairs
<1> HIDE DEF square, diagonal
<1>6. IsFiniteSet(Pairs(N)) /\ Cardinality(Pairs(N)) = Cardinality(square) - Cardinality(diagonal)
  BY <1>2, <1>5, FS_Difference
<1>7. QED
  BY <1>1, <1>2, <1>4, <1>6

\* With one address for each device there is one route at most from a device to
\* another, and none to itself: so few routes between the devices of N.
LEMMA CountRoutes ==
  ASSUME OneAddress, NEW R \in SUBSET Routes, LeadsAll(R),
         NEW N \in SUBSET Devices, \A r \in R : r[1] \in N /\ r[2] \in N
  PROVE  LET n == Cardinality(N)
         IN  /\ Cardinality(R) \in Nat /\ Cardinality(R) <= n * (n - 1)
             /\ Cardinality(R) = n * (n - 1) =>
                   \A p, q \in N : p # q => \E a \in Addresses : <<p, q, a>> \in R
<1> DEFINE n == Cardinality(N)
           f == [r \in R |-> <<r[1], r[2]>>]
<1>1. \A r \in R : r[1] \in Devices /\ r[2] \in Devices /\ r[3] \in Addresses
                   /\ r = <<r[1], r[2], r[3]>>
  BY DEF Routes
<1>2. \A r \in R : r[1] # r[2]
  <2> SUFFICES ASSUME NEW r \in R, r[1] = r[2] PROVE FALSE
    OBVIOUS
  <2>1. Owner[r[3]] = r[2] /\ r[3] # Listen[r[1]]
    BY DEF LeadsAll, Leads
  <2>2. Owner[Listen[r[1]]] = r[1] /\ Listen[r[1]] \in Addresses
    BY <1>1, ClusterAssumption, AssembleAssumption
  <2>3. QED
    BY <1>1, <2>1, <2>2 DEF OneAddress
<1>3. f \in [R -> Pairs(N)]
  BY <1>1, <1>2 DEF Pairs
<1>4. \A r, t \in R : f[r] = f[t] => r = t
  <2> SUFFICES ASSUME NEW r \in R, NEW t \in R, f[r] = f[t] PROVE r = t
    OBVIOUS
  <2>1. r[1] = t[1] /\ r[2] = t[2]
    OBVIOUS
  <2>2. Owner[r[3]] = Owner[t[3]]
    BY <2>1 DEF LeadsAll, Leads
  <2>3. r[3] = t[3]
    BY <1>1, <2>2 DEF OneAddress
  <2>4. QED
    BY <1>1, <2>1, <2>3
<1>5. f \in Injection(R, Pairs(N))
  BY <1>3, <1>4 DEF Injection, IsInjective
<1> HIDE DEF f
<1>6. /\ IsFiniteSet(R) /\ Cardinality(R) <= Cardinality(Pairs(N))
      /\ (Cardinality(R) = Cardinality(Pairs(N)) <=> f \in Surjection(R, Pairs(N)))
  BY <1>5, CountPairs, FS_Injection
<1>7. Cardinality(R) \in Nat
  BY <1>6, FS_CardinalityType
<1>8. ASSUME Cardinality(R) = n * (n - 1), NEW p \in N, NEW q \in N, p # q
      PROVE  \E a \in Addresses : <<p, q, a>> \in R
  <2>1. f \in Surjection(R, Pairs(N))
    BY <1>6, <1>8, CountPairs
  <2>2. <<p, q>> \in Pairs(N)
    BY <1>8 DEF Pairs
  <2>3. PICK r \in R : f[r] = <<p, q>>
    BY <2>1, <2>2 DEF Surjection
  <2>4. r[1] = p /\ r[2] = q
    BY <2>3 DEF f
  <2>5. QED
    BY <1>1, <2>4
<1>9. QED
  BY <1>6, <1>7, <1>8, CountPairs

LEMMA CountAllRoutes ==
  ASSUME OneAddress, NEW R \in SUBSET Routes, LeadsAll(R)
  PROVE  /\ Size \in Nat /\ Cardinality(R) \in Nat /\ Cardinality(R) <= Size * (Size - 1)
         /\ Cardinality(R) = Size * (Size - 1) =>
               \A p, q \in Devices : p # q => \E a \in Addresses : <<p, q, a>> \in R
<1>1. \A r \in R : r[1] \in Devices /\ r[2] \in Devices
  BY DEF Routes
<1>2. Size \in Nat
  BY CountPairs DEF Size
<1>3. QED
  BY <1>1, <1>2, CountRoutes DEF Size

LEMMA SquareGrows ==
  ASSUME NEW m \in Nat, NEW n \in Nat, m < n
  PROVE  m * (m - 1) <= n * (n - 1) /\ (m # 0 => m * (m - 1) < n * (n - 1))
<1>1. PICK k \in Nat : n = m + k /\ k # 0
  <2>1. n - m \in Nat /\ n = m + (n - m) /\ n - m # 0
    OBVIOUS
  <2>2. QED
    BY <2>1
<1>2. n * (n - 1) = m * (m - 1) + (2 * (m * k) + k * (k - 1))
  BY <1>1
<1>3. m * k \in Nat /\ k * (k - 1) \in Nat /\ (m # 0 => m * k > 0)
  BY <1>1
<1>4. m * (m - 1) \in Int
  OBVIOUS
<1>5. QED
  BY <1>2, <1>3, <1>4

\* A device that counts more routes than it expects has identified more devices
\* than it expects, if devices have one address each: routes it refuses for this
\* reason are refused rightly (Complete of the route selector, CommitRoutes).
THEOREM OverflowMeansMoreDevices == ASSUME OneAddress PROVE Spec => []TooManyMeansMoreDevices
<1>1. GoodInv /\ LeadsInv => TooManyMeansMoreDevices
  <2> SUFFICES ASSUME TypeInv, TrustInv, Identity, LeadsInv, NEW d \in Devices, Overflows(d, as[d])
               PROVE  Cardinality(as[d].ids) > Expected[d]
    BY DEF TooManyMeansMoreDevices, GoodInv
  <2>1. as[d].verified \in SUBSET Routes /\ as[d].ids \in SUBSET Devices
    BY TypeInvParts DEF StatesOK, States
  <2>2. LeadsAll(as[d].verified)
    BY DEF LeadsInv, LeadsAll, TrustInv, StatesSound, Sound
  <2>3. \A r \in as[d].verified : r[1] \in as[d].ids /\ r[2] \in as[d].ids
    BY DEF Identity, Ends
  <2> DEFINE c == Cardinality(as[d].verified)
             n == Cardinality(as[d].ids)
             x == Expected[d]
  <2>4. c \in Nat /\ c <= n * (n - 1)
    BY <2>1, <2>2, <2>3, CountRoutes
  <2>5. c > x * (x - 1) /\ x \in Nat
    BY AssembleAssumption DEF Overflows, TooMany
  <2>6. n \in Nat
    BY <2>1, CountPairs
  <2> HIDE DEF c, n, x
  <2>7. CASE n = x
    BY <2>4, <2>5, <2>7
  <2>8. CASE n < x
    <3>1. n * (n - 1) <= x * (x - 1)
      BY <2>5, <2>6, <2>8, SquareGrows
    <3> DEFINE y == n * (n - 1)
               z == x * (x - 1)
    <3>2. y \in Int /\ z \in Int
      BY <2>5, <2>6
    <3>3. c <= y /\ c > z /\ y <= z
      BY <2>4, <2>5, <3>1
    <3> HIDE DEF y, z
    <3>4. QED
      BY <2>4, <3>2, <3>3
  <2>9. CASE n > x
    BY <2>9 DEF n, x
  <2>10. x \in Nat
    BY <2>5
  <2>11. n = x \/ n < x \/ n > x
    BY <2>6, <2>10
  <2>12. QED
    BY <2>7, <2>8, <2>9, <2>11, Zenon
<1>2. QED
  BY <1>1, GoodInvariant, LeadsInvariant, PTL

\* Nobody that expects enough devices finds too many routes.
LEMMA EnoughNeverOverflows == ASSUME OneAddress, EnoughExpected PROVE Spec => []NoOverflow
<1>1. GoodInv /\ TooManyMeansMoreDevices => NoOverflow
  <2> SUFFICES ASSUME TypeInv, TooManyMeansMoreDevices, NEW d \in Devices, Overflows(d, as[d])
               PROVE  FALSE
    BY DEF NoOverflow, GoodInv
  <2>1. as[d].ids \in SUBSET Devices
    BY TypeInvParts DEF StatesOK, States
  <2> DEFINE n == Cardinality(as[d].ids)
  <2>2. n \in Nat /\ n <= Size
    BY <2>1, CountPairs
  <2>3. n > Expected[d] /\ Expected[d] # 0
    BY DEF TooManyMeansMoreDevices, Overflows
  <2>4. Expected[d] >= Size /\ Expected[d] \in Nat
    BY <2>3, AssembleAssumption DEF EnoughExpected, Size
  <2>5. Size \in Nat
    BY CountPairs DEF Size
  <2> HIDE DEF n
  <2>6. QED
    BY <2>2, <2>3, <2>4, <2>5
<1>2. QED
  BY <1>1, GoodInvariant, OverflowMeansMoreDevices, PTL

\* In a cluster in which devices have one address each and expect no fewer devices
\* than there are, no device is asked for an identity it does not have, over any
\* number of restarts at any moment (CommitDeviceQueries).
THEOREM QueriesAreAlwaysAnswerable ==
  ASSUME OneAddress, EnoughExpected PROVE Spec => []QueriesAnswerable
  BY EnoughNeverOverflows, QueriesSurviveRestarts, PTL

\* A device whose routes are as many as it expects has one between any two devices.
LEMMA CompleteMeansConnected ==
  ASSUME OneAddress, EnoughExpected, NEW d \in Devices, NEW s \in States, LeadsAll(s.verified),
         Expected[d] # 0, Complete(s, Expected[d])
  PROVE  Connected(s) /\ Expected[d] = Size
<1> DEFINE x == Expected[d]
           c == Cardinality(s.verified)
<1>1. s.verified \in SUBSET Routes
  BY DEF States
<1>2. c \in Nat /\ c <= Size * (Size - 1) /\ c = x * (x - 1)
  BY <1>1, CountAllRoutes DEF Complete
<1>3. x \in Nat /\ Size \in Nat /\ x >= Size /\ x # 0
  BY <1>1, CountAllRoutes, AssembleAssumption DEF EnoughExpected, Size
<1>4. x = Size
  <2> SUFFICES ASSUME Size < x PROVE FALSE
    BY <1>3
  <2> HIDE DEF x, c
  <2>1. Size * (Size - 1) <= x * (x - 1) /\ (Size # 0 => Size * (Size - 1) < x * (x - 1))
    BY <1>3, SquareGrows
  <2>2. Size # 0
    BY ClusterAssumption, FS_EmptySet DEF Size
  <2> DEFINE y == Size * (Size - 1)
             z == x * (x - 1)
  <2>3. y \in Int /\ z \in Int
    BY <1>3
  <2>4. c <= y /\ c = z /\ y < z
    BY <1>2, <2>1, <2>2
  <2> HIDE DEF y, z
  <2>5. QED
    BY <1>2, <2>3, <2>4
<1>5. Cardinality(s.verified) = Size * (Size - 1)
  BY <1>2, <1>4
<1>6. Connected(s)
  BY <1>1, <1>5, CountAllRoutes DEF Connected
<1>7. QED
  BY <1>4, <1>6

LEMMA DoneStep ==
  ASSUME OneAddress, EnoughExpected, StatesOK, LeadsInv', TrustInv', DoneInv,
         NEW e \in Devices, NEW s \in States, Step(e, s)
  PROVE  DoneInv'
<1>1. as[e] \in States /\ as'[e] = s /\ \A p \in Devices : p # e => as'[p] = as[p]
  BY StepUpdates
<1>2. LeadsAll(s.verified)
  <2>1. LeadsAll(as'[e].edges) /\ as'[e].verified \subseteq as'[e].edges
    BY DEF LeadsInv, TrustInv, StatesSound, Sound
  <2>2. QED
    BY <1>1, <2>1 DEF LeadsAll
<1>3. s.completed => Connected(s) /\ Expected[e] = Size
  <2>1. CASE Expected[e] # 0 /\ Complete(s, Expected[e])
    BY <1>2, <2>1, CompleteMeansConnected
  <2>2. CASE ~(Expected[e] # 0 /\ Complete(s, Expected[e]))
    <3> HAVE s.completed
    <3>1. ~Resumes(e, s)
      BY <2>2, ResumesFields
    <3>2. as[e].completed /\ as[e].verified \subseteq s.verified
      BY <2>2, <3>1 DEF Step, Shape, Inert, Acks, Meets, Learns, Identifies, SameRoutes, SameDone, Done
    <3>3. Connected(as[e]) /\ Expected[e] = Size
      BY <3>2 DEF DoneInv, Size
    <3>4. QED
      BY <3>2, <3>3 DEF Connected
  <2>3. QED
    BY <2>1, <2>2
<1>4. QED
  BY <1>1, <1>3 DEF DoneInv, Size

LEMMA InitDone ==
  ASSUME OneAddress, EnoughExpected, Init, LeadsInv, GoodInv PROVE DoneInv
<1> SUFFICES ASSUME NEW d \in Devices, as[d].completed
             PROVE  Connected(as[d]) /\ Expected[d] = Size
  BY DEF DoneInv, Size
<1>1. as[d] \in States
  BY TypeInvParts DEF GoodInv, StatesOK
<1>2. LeadsAll(as[d].verified)
  BY DEF GoodInv, LeadsInv, LeadsAll, TrustInv, StatesSound, Sound
<1>3. Expected[d] # 0 /\ Complete(as[d], Expected[d])
  BY InitFields
<1>4. QED
  BY <1>1, <1>2, <1>3, CompleteMeansConnected

\* A device stops only when it has identified every device of the cluster and has
\* verified a route from each of them to each other one: counting routes is
\* enough, if devices have one address each and nobody expects fewer devices than
\* there are (shutdownAtExpectedSize, Complete).
THEOREM CompleteMeansAll ==
  ASSUME OneAddress, EnoughExpected PROVE Spec => []CompleteIsConnected
<1>1. Init /\ LeadsInv /\ GoodInv => DoneInv
  BY InitDone
<1>2. GoodInv /\ GoodInv' /\ LeadsInv' /\ DoneInv /\ [Next]_vars => DoneInv'
  <2> SUFFICES ASSUME TypeInv, TrustInv', LeadsInv', DoneInv, [Next]_vars PROVE DoneInv'
    BY DEF GoodInv
  <2>1. StatesOK
    BY TypeInvParts
  <2>2. CASE UNCHANGED vars
    BY <2>2, StutterInvs
  <2>3. ASSUME NEW e \in Devices, NEW s \in States, Step(e, s) PROVE DoneInv'
    BY <2>1, <2>3, DoneStep
  <2>4. QED
    BY <2>2, <2>3, NextShape DEF AnyStep
<1>3. GoodInv /\ DoneInv => CompleteIsConnected
  <2> SUFFICES ASSUME GoodInv, DoneInv, NEW d \in Devices, as[d].completed
               PROVE  /\ Cardinality(as[d].ids) = Expected[d]
                      /\ \A p, q \in as[d].ids : p # q => \E a \in Addresses : <<p, q, a>> \in as[d].verified
    BY DEF CompleteIsConnected
  <2>1. as[d].ids \subseteq Devices
    BY TypeInvParts DEF GoodInv, StatesOK, States
  <2>2. Connected(as[d]) /\ Expected[d] = Cardinality(Devices)
    BY DEF DoneInv
  <2>3. d \in as[d].ids /\ Ends(as[d].verified, as[d].ids)
    BY DEF GoodInv, Identity
  <2>4. ASSUME NEW p \in Devices PROVE p \in as[d].ids
    <3>1. CASE p = d
      BY <2>3, <3>1
    <3>2. CASE p # d
      <4>1. PICK a \in Addresses : <<p, d, a>> \in as[d].verified
        BY <2>2, <3>2 DEF Connected
      <4>2. QED
        BY <2>3, <4>1 DEF Ends
    <3>3. QED
      BY <3>1, <3>2
  <2>5. as[d].ids = Devices
    BY <2>1, <2>4
  <2>6. QED
    BY <2>2, <2>5 DEF Connected
<1>4. QED
  BY <1>1, <1>2, <1>3, GoodInvariant, LeadsInvariant, PTL DEF Spec
=============================================================================
